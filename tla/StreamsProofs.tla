---------------------------- MODULE StreamsProofs ----------------------------
(***************************************************************************)
(* Proofs about Streams for every number of streams, all names, texts and  *)
(* inputs, every size of the buffer of LoadFile and a disk that may become *)
(* full or not: to a program that uses a file through one number at a time *)
(* the table and the buffers of stdio are files of lines.                  *)
(***************************************************************************)
EXTENDS Streams, Induction

-----------------------------------------------------------------------------
(* Sequences.                                                               *)

LEMMA AppendToConcat ==
  ASSUME NEW S, NEW s \in Seq(S), NEW t \in Seq(S), NEW x \in S
  PROVE  s \o Append(t, x) = Append(s \o t, x)
  <1>1. <<x>> \in Seq(S) /\ s \o t \in Seq(S)
    BY ConcatProperties
  <1>2. Append(t, x) = t \o <<x>> /\ Append(s \o t, x) = (s \o t) \o <<x>>
    BY <1>1, AppendIsConcat
  <1>. QED
    BY <1>1, <1>2, ConcatAssociative

LEMMA ConcatGroups ==
  ASSUME NEW a \in Seq(Char), NEW b \in Seq(Char), NEW c \in Seq(Char)
  PROVE  (a \o b) \o c = a \o (b \o c)
  BY ConcatAssociative

Flattens(u, S, seqs) ==
  /\ u \in [0 .. Len(seqs) -> Seq(S)] /\ u[0] = <<>>
  /\ \A k \in 1 .. Len(seqs) : u[k] = u[k - 1] \o seqs[k]
  /\ FlattenSeq(seqs) = u[Len(seqs)]

LEMMA FlattenRun ==
  ASSUME NEW S, NEW seqs \in Seq(Seq(S))
  PROVE  \E u : Flattens(u, S, seqs)
  <1> DEFINE n == Len(seqs)
             P == Seq(S)
             nil == <<>>
             step == [k \in 1 .. n |-> [x \in P |-> x \o seqs[k]]]
             Fits(f) == f = [k \in 1 .. n |-> IF k = 1 THEN seqs[k] ELSE f[k - 1] \o seqs[k]]
  <1>1. n \in Nat /\ <<>> \in P /\ \A k \in 1 .. n : seqs[k] \in P
    BY LenProperties, ElementOfSeq, EmptySeq
  <1>2. FlattenSeq(seqs) = IF n = 0 THEN seqs ELSE (CHOOSE f : Fits(f))[n]
    BY DEF FlattenSeq
  <1>3. \A k \in 1 .. n : \A x \in P : step[k][x] = x \o seqs[k]
    OBVIOUS
  <1>4. step \in [1 .. n -> [P -> P]]
    BY <1>1, ConcatProperties
  <1>9. n \in Nat /\ nil \in P
    BY <1>1
  <1>. HIDE DEF n, step, P, nil
  <1>5. PICK u \in [0 .. n -> P] : u[0] = nil /\ \A k \in 1 .. n : u[k] = step[k][u[k - 1]]
    <2>1. PICK u : Steps(u, P, nil, n, step)
      BY <1>4, <1>9, RunExists, Zenon
    <2>. QED
      BY <2>1, Zenon DEF Steps
  <1>6. ASSUME NEW k \in 1 .. n PROVE u[k] = u[k - 1] \o seqs[k]
    <2>1. u[k - 1] \in P
      <3>1. k - 1 \in 0 .. n
        BY <1>1
      <3>. QED
        BY <3>1, <1>5
    <2>. QED
      BY <2>1, <1>3, <1>5, Zenon
  <1>7. CASE n = 0
    <2>1. seqs = <<>>
      BY <1>7, EmptySeq DEF n
    <2>. QED
      BY <2>1, <1>2, <1>5, <1>6, <1>7 DEF n, P, nil, Flattens
  <1>8. CASE n # 0
    <2> DEFINE w == [k \in 1 .. n |-> u[k]]
               f == CHOOSE g : Fits(g)
    <2>1. ASSUME NEW k \in 1 .. n, k = 1 PROVE u[k] = seqs[k]
      <3>1. u[k] = <<>> \o seqs[k] /\ seqs[k] \in Seq(S)
        <4>1. u[k - 1] = u[0]
          BY <2>1
        <4>2. seqs[k] \in P
          BY <1>1
        <4>. QED
          BY <4>1, <4>2, <1>5, <1>6, Zenon DEF P, nil
      <3>. QED
        BY <3>1, ConcatEmptySeq
    <2>2. \A k \in 1 .. n : w[k] = IF k = 1 THEN seqs[k] ELSE w[k - 1] \o seqs[k]
      <3>. TAKE k \in 1 .. n
      <3>1. CASE k = 1
        BY <2>1, <3>1
      <3>2. CASE k # 1
        <4>1. k - 1 \in 1 .. n
          BY <3>2, <1>1
        <4>. QED
          BY <4>1, <3>2, <1>6
      <3>. QED
        BY <3>1, <3>2
    <2>3. Fits(w)
      BY <2>2
    <2>4. Fits(f)
      <3>. HIDE DEF Fits
      <3>. QED
        BY <2>3
    <2>5. \A k \in 1 .. n : f[k] = IF k = 1 THEN seqs[k] ELSE f[k - 1] \o seqs[k]
      <3>. HIDE DEF f
      <3>. QED
        BY <2>4
    <2>. HIDE DEF f, w
    <2> DEFINE g == [k \in 0 .. n |-> IF k = 0 THEN <<>> ELSE f[k]]
    <2>6. g[0] = <<>> /\ \A k \in 1 .. n : g[k] = f[k]
      BY <1>1
    <2>. HIDE DEF g
    <2>7. ASSUME NEW k \in 1 .. n, u[k - 1] = g[k - 1] PROVE u[k] = g[k]
      <3>1. CASE k = 1
        BY <3>1, <2>1, <2>5, <2>6
      <3>2. CASE k # 1
        <4>1. k - 1 \in 1 .. n
          BY <3>2, <1>1
        <4>2. g[k] = f[k] /\ g[k - 1] = f[k - 1]
          BY <4>1, <2>6
        <4>3. f[k] = f[k - 1] \o seqs[k]
          BY <3>2, <2>5
        <4>. QED
          BY <4>2, <4>3, <2>7, <1>6, Zenon
      <3>. QED
        BY <3>1, <3>2
    <2>8. u[0] = g[0]
      BY <2>6, <1>5 DEF nil
    <2>9. u[n] = g[n]
      BY <2>7, <2>8, <1>1, RunsAgree
    <2>10. FlattenSeq(seqs) = u[n]
      <3>1. n \in 1 .. n
        BY <1>1, <1>8
      <3>. QED
        BY <3>1, <2>9, <2>6, <1>2, <1>8 DEF f
    <2>. QED
      BY <2>10, <1>5, <1>6 DEF n, P, nil, Flattens
  <1>. QED
    BY <1>7, <1>8

LEMMA FlattenGrows ==
  ASSUME NEW S
  PROVE  /\ FlattenSeq(<<>>) = <<>>
         /\ \A seqs \in Seq(Seq(S)) :
              /\ FlattenSeq(seqs) \in Seq(S)
              /\ \A s \in Seq(S) : FlattenSeq(Append(seqs, s)) = FlattenSeq(seqs) \o s
  <1>1. FlattenSeq(<<>>) = <<>>
    BY EmptySeq DEF FlattenSeq
  <1>2. ASSUME NEW seqs \in Seq(Seq(S)) PROVE FlattenSeq(seqs) \in Seq(S)
    <2>1. PICK u : Flattens(u, S, seqs)
      BY FlattenRun
    <2>2. u \in [0 .. Len(seqs) -> Seq(S)] /\ FlattenSeq(seqs) = u[Len(seqs)]
      BY <2>1, Zenon DEF Flattens
    <2>. QED
      BY <2>2, LenProperties
  <1>3. ASSUME NEW seqs \in Seq(Seq(S)), NEW s \in Seq(S)
        PROVE  FlattenSeq(Append(seqs, s)) = FlattenSeq(seqs) \o s
    <2> DEFINE n == Len(seqs)
               more == Append(seqs, s)
    <2>1. /\ n \in Nat /\ more \in Seq(Seq(S)) /\ Len(more) = n + 1 /\ more[n + 1] = s
          /\ \A k \in 1 .. n : more[k] = seqs[k]
      BY LenProperties, AppendProperties
    <2>. HIDE DEF more
    <2>0. PICK u, v : Flattens(u, S, seqs) /\ Flattens(v, S, more)
      <3>1. more \in Seq(Seq(S))
        BY <2>1
      <3>. QED
        BY <3>1, FlattenRun, Zenon
    <2>2. /\ u[0] = <<>> /\ FlattenSeq(seqs) = u[n]
          /\ \A k \in 1 .. n : u[k] = u[k - 1] \o seqs[k]
      BY <2>0, Zenon DEF Flattens
    <2>3. /\ v[0] = <<>> /\ FlattenSeq(more) = v[Len(more)]
          /\ \A k \in 1 .. Len(more) : v[k] = v[k - 1] \o more[k]
      BY <2>0, Zenon DEF Flattens
    <2>. HIDE DEF n
    <2>4. ASSUME NEW k \in 1 .. n, u[k - 1] = v[k - 1] PROVE u[k] = v[k]
      <3>1. k \in 1 .. Len(more)
        BY <2>1
      <3>2. more[k] = seqs[k]
        BY <2>1
      <3>. QED
        BY <3>1, <3>2, <2>2, <2>3, <2>4, Zenon
    <2>5. u[n] = v[n]
      <3>1. n \in Nat /\ u[0] = v[0]
        BY <2>1, <2>2, <2>3, Zenon
      <3>. QED
        BY <3>1, <2>4, RunsAgree, Zenon
    <2>6. FlattenSeq(more) = v[n] \o s
      <3>1. /\ Len(more) \in 1 .. Len(more) /\ Len(more) - 1 = n
            /\ more[Len(more)] = s
        BY <2>1
      <3>. QED
        BY <3>1, <2>3, Zenon
    <2>. QED
      BY <2>2, <2>5, <2>6, Zenon DEF more
  <1>. QED
    BY <1>1, <1>2, <1>3

-----------------------------------------------------------------------------
(* Texts as lines.                                                          *)

NoText == [lines |-> <<>>, last |-> <<>>]

LEMMA TextFields ==
  /\ NoText \in Text
  /\ NoText = ByLine!Empty
  /\ \A t \in Text : /\ t.lines \in Seq(Seq(Char)) /\ t.last \in Seq(Char)
                     /\ t = [lines |-> t.lines, last |-> t.last]
  BY EmptySeq DEF NoText, Text, ByLine!Empty

LEMMA NextCharIs ==
  ASSUME NEW t \in Text, NEW c \in Char
  PROVE  /\ NextChar(t, c) \in Text
         /\ c = NL => NextChar(t, c) = [lines |-> Append(t.lines, t.last), last |-> <<>>]
         /\ c # NL => NextChar(t, c) = [lines |-> t.lines, last |-> Append(t.last, c)]
  <1>1. t.lines \in Seq(Seq(Char)) /\ t.last \in Seq(Char)
    BY TextFields
  <1>2. Append(t.lines, t.last) \in Seq(Seq(Char)) /\ Append(t.last, c) \in Seq(Char) /\ <<>> \in Seq(Char)
    BY <1>1, AppendProperties, EmptySeq
  <1>3. CASE c = NL
    BY <1>2, <1>3 DEF NextChar, Text
  <1>4. CASE c # NL
    BY <1>1, <1>2, <1>4 DEF NextChar, Text
  <1>. QED
    BY <1>3, <1>4

LEMMA LinesRun ==
  ASSUME NEW text \in Seq(Char)
  PROVE  \E u \in [0 .. Len(text) -> Text] :
           /\ u[0] = NoText
           /\ \A k \in 1 .. Len(text) : u[k] = NextChar(u[k - 1], text[k])
           /\ Lines(text) = u[Len(text)]
  <1> DEFINE n == Len(text)
             step == [k \in 1 .. n |-> [x \in Text |-> NextChar(x, text[k])]]
             Fits(f) == f = [k \in 0 .. n |-> IF k = 0 THEN [lines |-> <<>>, last |-> <<>>]
                                                       ELSE NextChar(f[k - 1], text[k])]
  <1>1. n \in Nat /\ \A k \in 1 .. n : text[k] \in Char
    BY LenProperties, ElementOfSeq
  <1>2. Lines(text) = (CHOOSE f : Fits(f))[n]
    BY DEF Lines
  <1>3. \A k \in 1 .. n : \A x \in Text : step[k][x] = NextChar(x, text[k])
    OBVIOUS
  <1>0. step \in [1 .. n -> [Text -> Text]]
    BY <1>1, NextCharIs
  <1>. HIDE DEF n, step
  <1>4. PICK u \in [0 .. n -> Text] : u[0] = NoText /\ \A k \in 1 .. n : u[k] = step[k][u[k - 1]]
    <2>1. NoText \in Text /\ n \in Nat
      BY <1>1, TextFields
    <2>2. PICK u : Steps(u, Text, NoText, n, step)
      BY <2>1, <1>0, RunExists, Zenon
    <2>. QED
      BY <2>2, Zenon DEF Steps
  <1>5. \A k \in 1 .. n : u[k - 1] \in Text /\ u[k] = NextChar(u[k - 1], text[k])
    BY <1>1, <1>3, <1>4
  <1>6. Fits(u)
    <2>1. \A k \in 0 .. n : u[k] = IF k = 0 THEN [lines |-> <<>>, last |-> <<>>]
                                            ELSE NextChar(u[k - 1], text[k])
      BY <1>1, <1>4, <1>5 DEF NoText
    <2>. QED
      BY <2>1
  <1>7. \A f : Fits(f) => /\ f \in [0 .. n -> Text]
                          /\ f[0] = NoText
                          /\ \A k \in 1 .. n : f[k] = NextChar(f[k - 1], text[k])
    <2>. TAKE f
    <2>. HAVE Fits(f)
    <2>1. f[0] = NoText /\ \A k \in 1 .. n : f[k] = NextChar(f[k - 1], text[k])
      BY <1>1 DEF NoText
    <2> DEFINE T == {m \in Nat : m <= n => f[m] \in Text}
    <2>2. 0 \in T
      BY <2>1, TextFields
    <2>3. ASSUME NEW m \in Nat, m \in T PROVE m + 1 \in T
      <3>1. m + 1 <= n => m + 1 \in 1 .. n /\ (m + 1) - 1 = m /\ f[m] \in Text
        BY <1>1, <2>3
      <3>2. m + 1 <= n => f[m + 1] \in Text
        BY <3>1, <2>1, <1>1, NextCharIs
      <3>. QED
        BY <3>2
    <2>. HIDE DEF T
    <2>4. Nat \subseteq T
      BY <2>2, <2>3, InductionOnSet
    <2>5. \A m \in 0 .. n : f[m] \in Text
      BY <2>4, <1>1 DEF T
    <2>. QED
      BY <2>1, <2>5
  <1>8. Fits(CHOOSE f : Fits(f))
    <2>. HIDE DEF Fits
    <2>. QED
      BY <1>6
  <1>. QED
    BY <1>2, <1>7, <1>8 DEF n

LEMMA LinesGrow ==
  /\ Lines(<<>>) = NoText
  /\ \A text \in Seq(Char) : /\ Lines(text) \in Text
                             /\ \A c \in Char : Lines(Append(text, c)) = NextChar(Lines(text), c)
  <1>1. Lines(<<>>) = NoText
    BY LinesRun, EmptySeq
  <1>2. ASSUME NEW text \in Seq(Char) PROVE Lines(text) \in Text
    BY LinesRun, LenProperties
  <1>3. ASSUME NEW text \in Seq(Char), NEW c \in Char
        PROVE  Lines(Append(text, c)) = NextChar(Lines(text), c)
    <2> DEFINE n == Len(text)
               more == Append(text, c)
    <2>1. /\ n \in Nat /\ more \in Seq(Char) /\ Len(more) = n + 1 /\ more[n + 1] = c
          /\ \A k \in 1 .. n : more[k] = text[k]
      BY LenProperties, AppendProperties
    <2>2. PICK u : /\ u[0] = NoText /\ Lines(text) = u[n]
                   /\ \A k \in 1 .. n : u[k] = NextChar(u[k - 1], text[k])
      BY LinesRun
    <2>. HIDE DEF more
    <2>3. PICK v : /\ v[0] = NoText /\ Lines(more) = v[n + 1]
                   /\ \A k \in 1 .. n + 1 : v[k] = NextChar(v[k - 1], more[k])
      <3>1. PICK v : /\ v[0] = NoText /\ Lines(more) = v[Len(more)]
                     /\ \A k \in 1 .. Len(more) : v[k] = NextChar(v[k - 1], more[k])
        BY <2>1, LinesRun
      <3>2. Len(more) = n + 1
        BY <2>1
      <3>. QED
        BY <3>1, <3>2, Zenon
    <2>. HIDE DEF n
    <2>4. \A k \in 1 .. n : u[k - 1] = v[k - 1] => u[k] = v[k]
      BY <2>1, <2>2, <2>3
    <2>5. u[n] = v[n]
      <3>1. n \in Nat /\ u[0] = v[0]
        BY <2>1, <2>2, <2>3
      <3>. QED
        BY <3>1, <2>4, RunsAgree, Zenon
    <2>6. v[n + 1] = NextChar(v[n], c)
      BY <2>1, <2>3
    <2>. QED
      BY <2>2, <2>3, <2>5, <2>6 DEF more
  <1>. QED
    BY <1>1, <1>2, <1>3

LEMMA JoinedIs ==
  ASSUME NEW x \in Text, NEW y \in Text
  PROVE  /\ y.lines = <<>> => ByLine!Joined(x, y) = [lines |-> x.lines, last |-> x.last \o y.last]
         /\ y.lines # <<>> =>
              ByLine!Joined(x, y) =
                [lines |-> x.lines \o <<x.last \o Head(y.lines)>> \o Tail(y.lines), last |-> y.last]
  BY TextFields DEF ByLine!Joined, Text

LEMMA JoinedStep ==
  ASSUME NEW x \in Text, NEW y \in Text, ByLine!Joined(x, y) \in Text, NEW c \in Char
  PROVE  ByLine!Joined(x, NextChar(y, c)) = NextChar(ByLine!Joined(x, y), c)
  <1> DEFINE J == ByLine!Joined(x, y)
             z == NextChar(y, c)
  <1>1. /\ x.lines \in Seq(Seq(Char)) /\ x.last \in Seq(Char)
        /\ y.lines \in Seq(Seq(Char)) /\ y.last \in Seq(Char) /\ z \in Text
    BY TextFields, NextCharIs
  <1>2. CASE c # NL
    <2>1. z = [lines |-> y.lines, last |-> Append(y.last, c)]
      BY <1>2, NextCharIs
    <2>2. NextChar(J, c) = [lines |-> J.lines, last |-> Append(J.last, c)]
      BY <1>2, NextCharIs
    <2>. HIDE DEF J, z
    <2>3. CASE y.lines = <<>>
      <3>1. J = [lines |-> x.lines, last |-> x.last \o y.last]
        BY <2>3, JoinedIs, Zenon DEF J
      <3>2. z.lines = <<>> /\ z.last = Append(y.last, c)
        BY <2>1, <2>3
      <3>3. ByLine!Joined(x, z) = [lines |-> x.lines, last |-> x.last \o z.last]
        BY <3>2, <1>1, JoinedIs, Zenon
      <3>4. x.last \o Append(y.last, c) = Append(x.last \o y.last, c)
        <4> DEFINE a == x.last
                   b == y.last
        <4>1. a \in Seq(Char) /\ b \in Seq(Char)
          BY <1>1
        <4>. HIDE DEF a, b
        <4>2. a \o Append(b, c) = Append(a \o b, c)
          BY <4>1, AppendToConcat
        <4>. QED
          BY <4>2 DEF a, b
      <3>. QED
        BY <3>1, <3>2, <3>3, <3>4, <2>2 DEF J, z
    <2>4. CASE y.lines # <<>>
      <3>1. J = [lines |-> x.lines \o <<x.last \o Head(y.lines)>> \o Tail(y.lines), last |-> y.last]
        BY <2>4, JoinedIs, Zenon DEF J
      <3>2. z.lines = y.lines /\ z.last = Append(y.last, c)
        BY <2>1
      <3>3. ByLine!Joined(x, z) =
              [lines |-> x.lines \o <<x.last \o Head(z.lines)>> \o Tail(z.lines), last |-> z.last]
        BY <3>2, <2>4, <1>1, JoinedIs
      <3>. QED
        BY <3>1, <3>2, <3>3, <2>2 DEF J, z
    <2>. QED
      BY <2>3, <2>4
  <1>3. CASE c = NL
    <2>1. z = [lines |-> Append(y.lines, y.last), last |-> <<>>]
      BY <1>3, NextCharIs
    <2>2. NextChar(J, c) = [lines |-> Append(J.lines, J.last), last |-> <<>>]
      BY <1>3, NextCharIs
    <2>3. z.lines # <<>>
      <3>1. Append(y.lines, y.last) # <<>>
        <4> DEFINE l == y.lines
                   e == y.last
        <4>1. l \in Seq(Seq(Char)) /\ e \in Seq(Char)
          BY <1>1
        <4>. HIDE DEF l, e
        <4>2. Append(l, e) # <<>>
          BY <4>1, AppendProperties
        <4>. QED
          BY <4>2 DEF l, e
      <3>. QED
        BY <3>1, <2>1
    <2>. HIDE DEF J, z
    <2>4. ByLine!Joined(x, z) =
            [lines |-> x.lines \o <<x.last \o Head(z.lines)>> \o Tail(z.lines), last |-> z.last]
      BY <2>3, <1>1, JoinedIs, Zenon
    <2>5. CASE y.lines = <<>>
      <3> DEFINE h == x.last \o y.last
                 front == x.lines \o <<h>>
      <3>1. J = [lines |-> x.lines, last |-> h]
        BY <2>5, JoinedIs, Zenon DEF J
      <3>2. Head(z.lines) = y.last /\ Tail(z.lines) = <<>>
        BY <2>1, <2>5, <1>1, HeadTailAppend
      <3>3. h \in Seq(Char)
        BY <1>1, ConcatProperties
      <3>4. ByLine!Joined(x, z) = [lines |-> front \o <<>>, last |-> <<>>]
        BY <2>1, <2>4, <3>2
      <3>. HIDE DEF h
      <3>5. front = Append(x.lines, h)
        BY <1>1, <3>3, AppendIsConcat
      <3>6. front \in Seq(Seq(Char))
        BY <1>1, <3>3, <3>5, AppendProperties
      <3>. HIDE DEF front
      <3>7. front \o <<>> = front
        BY <3>6, ConcatEmptySeq
      <3>. QED
        BY <2>2, <3>1, <3>4, <3>5, <3>7 DEF J, z
    <2>6. CASE y.lines # <<>>
      <3> DEFINE front == x.lines \o <<x.last \o Head(y.lines)>>
      <3>1. J.lines = front \o Tail(y.lines) /\ J.last = y.last
        <4>1. J = [lines |-> front \o Tail(y.lines), last |-> y.last]
          BY <2>6, JoinedIs, Zenon DEF J
        <4>. QED
          BY <4>1
      <3>2. Head(z.lines) = Head(y.lines) /\ Tail(z.lines) = Append(Tail(y.lines), y.last)
        BY <2>1, <2>6, <1>1, HeadTailAppend
      <3>3. Head(y.lines) \in Seq(Char) /\ Tail(y.lines) \in Seq(Seq(Char))
        BY <2>6, <1>1, HeadTailProperties
      <3>4. <<x.last \o Head(y.lines)>> \in Seq(Seq(Char))
        BY <1>1, <3>3, ConcatProperties
      <3>5. front \in Seq(Seq(Char))
        BY <1>1, <3>4, ConcatProperties
      <3>6. ByLine!Joined(x, z) = [lines |-> front \o Append(Tail(y.lines), y.last), last |-> <<>>]
        BY <2>1, <2>4, <3>2
      <3>. HIDE DEF front
      <3>7. front \o Append(Tail(y.lines), y.last) = Append(front \o Tail(y.lines), y.last)
        <4> DEFINE l == Tail(y.lines)
                   e == y.last
        <4>1. l \in Seq(Seq(Char)) /\ e \in Seq(Char)
          BY <3>3, <1>1
        <4>. HIDE DEF l, e
        <4>2. front \o Append(l, e) = Append(front \o l, e)
          BY <4>1, <3>5, AppendToConcat
        <4>. QED
          BY <4>2 DEF l, e
      <3>. QED
        BY <2>2, <3>1, <3>6, <3>7 DEF J, z
    <2>. QED
      BY <2>5, <2>6
  <1>. QED
    BY <1>2, <1>3

(* The lines of a text that continues another. *)
LEMMA LinesJoin ==
  ASSUME NEW a \in Seq(Char)
  PROVE  \A b \in Seq(Char) : Lines(a \o b) = ByLine!Joined(Lines(a), Lines(b))
  <1> DEFINE T == {b \in Seq(Char) : Lines(a \o b) = ByLine!Joined(Lines(a), Lines(b))}
  <1>1. <<>> \in T
    <2>1. Lines(a) \in Text /\ Lines(<<>>) = NoText /\ NoText \in Text /\ a \o <<>> = a
      BY LinesGrow, TextFields, ConcatEmptySeq
    <2>2. Lines(a).last \in Seq(Char) /\ Lines(a) = [lines |-> Lines(a).lines, last |-> Lines(a).last]
      BY <2>1, TextFields
    <2>3. ByLine!Joined(Lines(a), NoText) = [lines |-> Lines(a).lines, last |-> Lines(a).last \o <<>>]
      BY <2>1, JoinedIs DEF NoText
    <2>4. Lines(a).last \o <<>> = Lines(a).last
      BY <2>2, ConcatEmptySeq
    <2>. QED
      BY <2>1, <2>2, <2>3, <2>4, EmptySeq
  <1>2. ASSUME NEW b \in Seq(Char), NEW c \in Char, b \in T PROVE Append(b, c) \in T
    <2>1. a \o b \in Seq(Char) /\ Append(b, c) \in Seq(Char) /\ a \o Append(b, c) = Append(a \o b, c)
      BY ConcatProperties, AppendProperties, AppendToConcat
    <2>2. /\ Lines(a) \in Text /\ Lines(b) \in Text /\ Lines(a \o b) \in Text
          /\ Lines(Append(b, c)) = NextChar(Lines(b), c)
          /\ Lines(Append(a \o b, c)) = NextChar(Lines(a \o b), c)
      BY <2>1, LinesGrow
    <2>3. Lines(a \o b) = ByLine!Joined(Lines(a), Lines(b))
      BY <1>2
    <2>4. ByLine!Joined(Lines(a), NextChar(Lines(b), c)) = NextChar(ByLine!Joined(Lines(a), Lines(b)), c)
      <3> DEFINE x == Lines(a)
                 y == Lines(b)
      <3>1. x \in Text /\ y \in Text /\ ByLine!Joined(x, y) \in Text
        BY <2>2, <2>3
      <3>. HIDE DEF x, y
      <3>2. ByLine!Joined(x, NextChar(y, c)) = NextChar(ByLine!Joined(x, y), c)
        BY <3>1, JoinedStep
      <3>. QED
        BY <3>2 DEF x, y
    <2>5. Lines(a \o Append(b, c)) = ByLine!Joined(Lines(a), Lines(Append(b, c)))
      BY <2>1, <2>2, <2>3, <2>4, Zenon
    <2>. QED
      BY <2>1, <2>5
  <1>. HIDE DEF T
  <1>3. Seq(Char) \subseteq T
    BY <1>1, <1>2, InductionOnSeq
  <1>. QED
    BY <1>3 DEF T

-----------------------------------------------------------------------------
(* Reading a line.                                                          *)

LEMMA ConsFacts ==
  ASSUME NEW S
  PROVE  /\ \A x \in S, t \in Seq(S) : /\ <<x>> \o t \in Seq(S) /\ <<x>> \o t # <<>>
                                     /\ Head(<<x>> \o t) = x /\ Tail(<<x>> \o t) = t
         /\ \A s \in Seq(S) : s # <<>> => <<Head(s)>> \o Tail(s) = s
  <1>1. ASSUME NEW x \in S, NEW t \in Seq(S)
        PROVE  /\ <<x>> \o t \in Seq(S) /\ <<x>> \o t # <<>>
               /\ Head(<<x>> \o t) = x /\ Tail(<<x>> \o t) = t
    <2> DEFINE s == <<x>> \o t
    <2>1. <<x>> \in Seq(S) /\ Len(<<x>>) = 1 /\ Len(t) \in Nat
      BY LenProperties
    <2>2. /\ s \in Seq(S) /\ Len(s) = 1 + Len(t)
          /\ \A i \in 1 .. 1 + Len(t) : s[i] = IF i <= 1 THEN <<x>>[i] ELSE t[i - 1]
      BY <2>1, ConcatProperties
    <2>. HIDE DEF s
    <2>3. s # <<>> /\ s[1] = x
      BY <2>1, <2>2, EmptySeq
    <2>4. /\ Tail(s) \in Seq(S) /\ Len(Tail(s)) = Len(t)
          /\ \A i \in 1 .. Len(t) : Tail(s)[i] = s[i + 1]
      BY <2>1, <2>2, <2>3, HeadTailProperties
    <2>5. \A i \in 1 .. Len(t) : Tail(s)[i] = t[i]
      BY <2>1, <2>2, <2>4
    <2>6. Tail(s) = t
      BY <2>4, <2>5, SeqEqual
    <2>7. Head(s) = x
      BY <2>3, <2>2
    <2>. QED
      BY <2>2, <2>3, <2>6, <2>7 DEF s
  <1>2. ASSUME NEW s \in Seq(S), s # <<>> PROVE <<Head(s)>> \o Tail(s) = s
    <2> DEFINE t == Tail(s)
               c == <<Head(s)>> \o t
    <2>1. /\ t \in Seq(S) /\ Len(t) = Len(s) - 1 /\ \A i \in 1 .. Len(t) : t[i] = s[i + 1]
          /\ Head(s) = s[1] /\ Head(s) \in S /\ Len(s) \in Nat \ {0}
      BY <1>2, HeadTailProperties, LenProperties, EmptySeq
    <2>2. <<Head(s)>> \in Seq(S) /\ Len(<<Head(s)>>) = 1 /\ <<Head(s)>>[1] = s[1]
      BY <2>1
    <2>. HIDE DEF t
    <2>3. /\ c \in Seq(S) /\ Len(c) = 1 + Len(t)
          /\ \A i \in 1 .. 1 + Len(t) : c[i] = IF i <= 1 THEN <<Head(s)>>[i] ELSE t[i - 1]
      BY <2>1, <2>2, ConcatProperties
    <2>. HIDE DEF c
    <2>4. \A i \in 1 .. Len(s) : c[i] = s[i]
      <3>. TAKE i \in 1 .. Len(s)
      <3>1. CASE i = 1
        BY <3>1, <2>1, <2>2, <2>3
      <3>2. CASE i # 1
        <4>1. i - 1 \in 1 .. Len(t) /\ (i - 1) + 1 = i /\ ~(i <= 1) /\ i \in 1 .. 1 + Len(t)
          BY <3>2, <2>1
        <4>. QED
          BY <4>1, <2>1, <2>3
      <3>. QED
        BY <3>1, <3>2
    <2>5. Len(c) = Len(s)
      BY <2>1, <2>3
    <2>. QED
      BY <2>3, <2>4, <2>5, SeqEqual DEF c, t
  <1>. QED
    BY <1>1, <1>2

LEMMA NoNewline ==
  \A text \in Seq(Char) : (\A k \in 1 .. Len(text) : text[k] # NL)
                           => Lines(text) = [lines |-> <<>>, last |-> text]
  <1> DEFINE T == {text \in Seq(Char) : (\A k \in 1 .. Len(text) : text[k] # NL)
                                        => Lines(text) = [lines |-> <<>>, last |-> text]}
  <1>1. <<>> \in T
    BY LinesGrow, EmptySeq DEF NoText
  <1>2. ASSUME NEW text \in Seq(Char), NEW c \in Char, text \in T PROVE Append(text, c) \in T
    <2> DEFINE more == Append(text, c)
    <2>1. /\ more \in Seq(Char) /\ Len(more) = Len(text) + 1 /\ more[Len(text) + 1] = c
          /\ Len(text) \in Nat /\ \A k \in 1 .. Len(text) : more[k] = text[k]
      BY AppendProperties, LenProperties
    <2>. HIDE DEF more
    <2>2. ASSUME \A k \in 1 .. Len(more) : more[k] # NL
          PROVE  Lines(more) = [lines |-> <<>>, last |-> more]
      <3>1. c # NL /\ \A k \in 1 .. Len(text) : text[k] # NL
        BY <2>1, <2>2
      <3>2. Lines(text) = [lines |-> <<>>, last |-> text] /\ Lines(text) \in Text
        BY <3>1, <1>2, LinesGrow
      <3>3. Lines(more) = NextChar(Lines(text), c)
        BY LinesGrow DEF more
      <3>4. NextChar(Lines(text), c) = [lines |-> Lines(text).lines, last |-> Append(Lines(text).last, c)]
        BY <3>1, <3>2, NextCharIs, Zenon
      <3>5. Lines(text).lines = <<>> /\ Lines(text).last = text
        BY <3>2
      <3>. QED
        BY <3>3, <3>4, <3>5 DEF more
    <2>. QED
      BY <2>1, <2>2 DEF more
  <1>. HIDE DEF T
  <1>3. Seq(Char) \subseteq T
    BY <1>1, <1>2, InductionOnSeq
  <1>. QED
    BY <1>3 DEF T

LEMMA FirstNLIs ==
  ASSUME NEW text \in Seq(Char)
  PROVE  \/ FirstNL(text) = 0 /\ \A k \in 1 .. Len(text) : text[k] # NL
         \/ /\ FirstNL(text) \in 1 .. Len(text) /\ text[FirstNL(text)] = NL
            /\ \A k \in 1 .. FirstNL(text) - 1 : text[k] # NL
  <1> DEFINE I == {k \in 1 .. Len(text) : text[k] = NL}
  <1>1. FirstNL(text) = IF I # {} THEN Min(I) ELSE 0
    BY DEF FirstNL, SelectInSeq
  <1>2. I \in SUBSET Nat /\ Len(text) \in Nat
    BY LenProperties
  <1>3. CASE I = {}
    BY <1>1, <1>3
  <1>4. CASE I # {}
    <2>1. \E x \in I : \A y \in I : x <= y
      <3>. HIDE DEF I
      <3>. QED
        BY <1>2, <1>4, LeastNumber
    <2>2. Min(I) \in I /\ \A y \in I : Min(I) <= y
      <3>. HIDE DEF I
      <3>. QED
        BY <2>1 DEF Min
    <2>3. FirstNL(text) \in I /\ \A k \in I : FirstNL(text) <= k
      BY <1>1, <1>4, <2>2
    <2> DEFINE f == FirstNL(text)
    <2>. HIDE DEF f
    <2>4. f \in 1 .. Len(text) /\ text[f] = NL
      BY <2>3 DEF f
    <2>5. ASSUME NEW k \in 1 .. f - 1 PROVE text[k] # NL
      <3>1. k \in 1 .. Len(text) /\ ~(f <= k)
        BY <2>4, <1>2
      <3>. QED
        BY <3>1, <2>3 DEF f
    <2>. QED
      BY <2>4, <2>5 DEF f
  <1>. QED
    BY <1>3, <1>4

LEMMA JoinedToNothing ==
  ASSUME NEW t \in Text
  PROVE  ByLine!Joined(NoText, t) = t /\ ByLine!Joined(t, NoText) = t
  <1>1. /\ NoText \in Text /\ t.lines \in Seq(Seq(Char)) /\ t.last \in Seq(Char)
        /\ t = [lines |-> t.lines, last |-> t.last]
    BY TextFields
  <1>2. ByLine!Joined(t, NoText) = t
    <2>1. ByLine!Joined(t, NoText) = [lines |-> t.lines, last |-> t.last \o <<>>]
      BY <1>1, JoinedIs DEF NoText
    <2>2. t.last \o <<>> = t.last
      BY <1>1, ConcatEmptySeq
    <2>. QED
      BY <1>1, <2>1, <2>2, Zenon
  <1>3. CASE t.lines = <<>>
    <2>1. ByLine!Joined(NoText, t) = [lines |-> <<>>, last |-> <<>> \o t.last]
      BY <1>1, <1>3, JoinedIs DEF NoText
    <2>2. <<>> \o t.last = t.last
      BY <1>1, ConcatEmptySeq
    <2>. QED
      BY <1>1, <1>2, <1>3, <2>1, <2>2, Zenon
  <1>4. CASE t.lines # <<>>
    <2> DEFINE h == Head(t.lines)
               r == Tail(t.lines)
    <2>1. ByLine!Joined(NoText, t) = [lines |-> (<<>> \o <<<<>> \o h>>) \o r, last |-> t.last]
      BY <1>1, <1>4, JoinedIs DEF NoText
    <2>2. h \in Seq(Char) /\ <<h>> \o r = t.lines
      <3>1. h \in Seq(Char)
        BY <1>1, <1>4, HeadTailProperties
      <3>2. <<h>> \o r = t.lines
        BY <1>1, <1>4, ConsFacts
      <3>. QED
        BY <3>1, <3>2
    <2>3. <<>> \o h = h
      BY <2>2, ConcatEmptySeq
    <2>4. <<>> \o <<h>> = <<h>>
      <3>1. <<h>> \in Seq(Seq(Char))
        BY <2>2
      <3>. QED
        BY <3>1, ConcatEmptySeq
    <2>. HIDE DEF h, r
    <2>5. ByLine!Joined(NoText, t) = [lines |-> t.lines, last |-> t.last]
      BY <2>1, <2>2, <2>3, <2>4, Zenon
    <2>. QED
      BY <1>1, <1>2, <2>5
  <1>. QED
    BY <1>3, <1>4

(* What is read from a text is the line that comes next, or its rest and the number 0. *)
LEMMA ReadsALine ==
  ASSUME NEW text \in Seq(Char)
  PROVE  /\ AfterRead(text) \in Seq(Char)
         /\ ReadFromStream(text) = ByLine!NextLine(Lines(text))
         /\ Lines(AfterRead(text)) = ByLine!AfterLine(Lines(text))
  <1>1. CASE FirstNL(text) = 0
    <2>1. Lines(text) = [lines |-> <<>>, last |-> text]
      BY <1>1, FirstNLIs, NoNewline
    <2>2. AfterRead(text) = <<>> /\ ReadFromStream(text) = Append(text, End)
      BY <1>1 DEF AfterRead, ReadFromStream
    <2>3. ByLine!NextLine(Lines(text)) = Append(text, End) /\ ByLine!AfterLine(Lines(text)) = NoText
      BY <2>1, TextFields DEF ByLine!NextLine, ByLine!AfterLine
    <2>. QED
      BY <2>2, <2>3, LinesGrow, EmptySeq
  <1>2. CASE FirstNL(text) # 0
    <2> DEFINE n == Len(text)
               f == FirstNL(text)
               a == SubSeq(text, 1, f - 1)
               b == SubSeq(text, f + 1, n)
    <2>1. /\ n \in Nat /\ f \in 1 .. n /\ text[f] = NL /\ NL \in Char
          /\ \A k \in 1 .. n : text[k] \in Char
          /\ \A k \in 1 .. f - 1 : text[k] # NL
      BY <1>2, FirstNLIs, LenProperties, ElementOfSeq DEF Char
    <2>2. AfterRead(text) = b /\ ReadFromStream(text) = a
      BY <1>2 DEF AfterRead, ReadFromStream
    <2>. HIDE DEF n, f
    <2>3. /\ a \in Seq(Char) /\ Len(a) = f - 1 /\ \A k \in 1 .. f - 1 : a[k] = text[k]
      BY <2>1, SubSeqProperties
    <2>4. b \in Seq(Char)
      BY <2>1, SubSeqProperties
    <2>5. text = Append(a, NL) \o b
      <3>1. 1 \in 1 .. n + 1 /\ f \in 1 - 1 .. n /\ n \in f .. n /\ 1 \in 1 .. n /\ f \in 1 .. n
        BY <2>1
      <3>2. SubSeq(text, 1, f) \o SubSeq(text, f + 1, n) = SubSeq(text, 1, n)
        BY <3>1, ConcatAdjacentSubSeq DEF n
      <3>3. SubSeq(text, 1, n) = text
        BY SubSeqFull DEF n
      <3>4. SubSeq(text, 1, f) = SubSeq(text, 1, f - 1) \o <<text[f]>>
        BY <3>1, SubSeqRecursiveSecond DEF n
      <3>5. Append(a, NL) = a \o <<NL>>
        <4>. HIDE DEF a
        <4>. QED
          BY <2>1, <2>3, AppendIsConcat
      <3>. QED
        BY <3>2, <3>3, <3>4, <3>5, <2>1, Zenon DEF a, b
    <2>. HIDE DEF a, b
    <2>6. Lines(a) = [lines |-> <<>>, last |-> a]
      <3>1. \A k \in 1 .. Len(a) : a[k] # NL
        BY <2>1, <2>3
      <3>. QED
        BY <3>1, <2>3, NoNewline
    <2> DEFINE X == Lines(Append(a, NL))
               Y == Lines(b)
    <2>7. X = [lines |-> <<a>>, last |-> <<>>] /\ X \in Text /\ Y \in Text
      <3>1. X = NextChar(Lines(a), NL) /\ Lines(a) \in Text /\ Y \in Text
        BY <2>1, <2>3, <2>4, LinesGrow
      <3>2. X = [lines |-> Append(Lines(a).lines, Lines(a).last), last |-> <<>>] /\ X \in Text
        BY <3>1, <2>1, NextCharIs, Zenon
      <3>3. Lines(a).lines = <<>> /\ Lines(a).last = a
        BY <2>6
      <3>. QED
        BY <3>1, <3>2, <3>3
    <2>8. Lines(text) = ByLine!Joined(X, Y)
      <3>1. Append(a, NL) \in Seq(Char)
        BY <2>1, <2>3, AppendProperties
      <3>. QED
        BY <3>1, <2>4, <2>5, LinesJoin, Zenon
    <2>. HIDE DEF X, Y
    <2>9. Y.lines \in Seq(Seq(Char)) /\ Y.last \in Seq(Char) /\ Y = [lines |-> Y.lines, last |-> Y.last]
      BY <2>7, TextFields
    <2>10. Lines(text) = [lines |-> <<a>> \o Y.lines, last |-> Y.last]
      <3>1. CASE Y.lines = <<>>
        <4>1. Lines(text) = [lines |-> X.lines, last |-> X.last \o Y.last]
          BY <3>1, <2>7, <2>8, JoinedIs, Zenon
        <4>2. <<>> \o Y.last = Y.last /\ <<a>> \o <<>> = <<a>>
          BY <2>3, <2>9, ConcatEmptySeq
        <4>. QED
          BY <3>1, <4>1, <4>2, <2>7
      <3>2. CASE Y.lines # <<>>
        <4> DEFINE h == Head(Y.lines)
                   t == Tail(Y.lines)
        <4>1. Lines(text) = [lines |-> X.lines \o <<X.last \o h>> \o t, last |-> Y.last]
          BY <3>2, <2>7, <2>8, JoinedIs, Zenon
        <4>2. h \in Seq(Char) /\ t \in Seq(Seq(Char))
          BY <3>2, <2>9, HeadTailProperties
        <4>3. <<h>> \o t = Y.lines
          BY <3>2, <2>9, ConsFacts
        <4>. HIDE DEF h, t
        <4>4. <<>> \o h = h
          BY <4>2, ConcatEmptySeq
        <4>5. <<a>> \in Seq(Seq(Char)) /\ <<h>> \in Seq(Seq(Char))
          BY <4>2, <2>3
        <4>6. (<<a>> \o <<h>>) \o t = <<a>> \o (<<h>> \o t)
          BY <4>2, <4>5, ConcatAssociative
        <4>7. X.lines = <<a>> /\ X.last = <<>>
          BY <2>7
        <4>. QED
          BY <4>1, <4>3, <4>4, <4>6, <4>7, Zenon
      <3>. QED
        BY <3>1, <3>2
    <2>11. /\ <<a>> \o Y.lines # <<>> /\ Head(<<a>> \o Y.lines) = a /\ Tail(<<a>> \o Y.lines) = Y.lines
      BY <2>3, <2>9, ConsFacts
    <2> DEFINE all == <<a>> \o Y.lines
    <2>. HIDE DEF all
    <2>12. ByLine!NextLine(Lines(text)) = a /\ ByLine!AfterLine(Lines(text)) = Y
      BY <2>9, <2>10, <2>11 DEF ByLine!NextLine, ByLine!AfterLine, all
    <2>. QED
      BY <2>2, <2>4, <2>12 DEF Y
  <1>. QED
    BY <1>1, <1>2

-----------------------------------------------------------------------------
(* Loading a file.                                                          *)

LEMMA CharFacts ==
  /\ {NL, Space, Left, Right} \subseteq Char
  /\ <<Left>> \in Seq(Char) /\ <<Right>> \in Seq(Char) /\ <<NL>> \in Seq(Char)
  BY DEF Char

Framed(lines) == [k \in 1 .. Len(lines) |-> <<Left>> \o lines[k] \o <<Right>>]

LEMMA FrameIs ==
  ASSUME NEW line \in Seq(Char)
  PROVE  /\ <<Left>> \o line \in Seq(Char)
         /\ <<Left>> \o line \o <<Right>> \in Seq(Char)
         /\ <<Left>> \o line \o <<Right>> = Append(<<Left>> \o line, Right)
  <1>1. <<Left>> \o line \in Seq(Char) /\ <<Right>> \in Seq(Char) /\ Right \in Char
    BY CharFacts, ConcatProperties
  <1> DEFINE front == <<Left>> \o line
  <1>. HIDE DEF front
  <1>2. front \in Seq(Char)
    BY <1>1 DEF front
  <1>3. front \o <<Right>> \in Seq(Char) /\ front \o <<Right>> = Append(front, Right)
    BY <1>1, <1>2, ConcatProperties, AppendIsConcat
  <1>. QED
    BY <1>1, <1>3 DEF front

LEMMA FramedGrows ==
  /\ Framed(<<>>) = <<>>
  /\ \A lines \in Seq(Seq(Char)) :
       /\ Framed(lines) \in Seq(Seq(Char))
       /\ \A line \in Seq(Char) :
            Framed(Append(lines, line)) = Append(Framed(lines), <<Left>> \o line \o <<Right>>)
  <1> DEFINE frame(line) == <<Left>> \o line \o <<Right>>
  <1>1. \A line \in Seq(Char) : frame(line) \in Seq(Char)
    BY FrameIs
  <1>2. \A lines : Framed(lines) = [k \in 1 .. Len(lines) |-> frame(lines[k])]
    BY DEF Framed
  <1>. HIDE DEF frame
  <1>3. Framed(<<>>) = <<>>
    BY <1>2
  <1>4. ASSUME NEW lines \in Seq(Seq(Char))
        PROVE  /\ Framed(lines) \in Seq(Seq(Char)) /\ Len(Framed(lines)) = Len(lines)
               /\ \A k \in 1 .. Len(lines) : Framed(lines)[k] = frame(lines[k])
    <2>1. Len(lines) \in Nat /\ \A k \in 1 .. Len(lines) : lines[k] \in Seq(Char)
      BY LenProperties, ElementOfSeq
    <2>2. \A k \in 1 .. Len(lines) : frame(lines[k]) \in Seq(Char)
      BY <2>1, <1>1
    <2>3. Framed(lines) = [k \in 1 .. Len(lines) |-> frame(lines[k])]
      BY <1>2
    <2> DEFINE n == Len(lines)
               made == Framed(lines)
    <2>4. made \in [1 .. n -> Seq(Char)] /\ n \in Nat /\ \A k \in 1 .. n : made[k] = frame(lines[k])
      BY <2>1, <2>2, <2>3
    <2>. HIDE DEF n, made
    <2>5. made \in Seq(Seq(Char)) /\ Len(made) = n
      BY <2>4, FunctionIsSeq
    <2>. QED
      BY <2>4, <2>5 DEF n, made
  <1>5. ASSUME NEW lines \in Seq(Seq(Char)), NEW line \in Seq(Char)
        PROVE  Framed(Append(lines, line)) = Append(Framed(lines), frame(line))
    <2> DEFINE more == Append(lines, line)
               made == Framed(lines)
               f == frame(line)
    <2>1. /\ more \in Seq(Seq(Char)) /\ Len(more) = Len(lines) + 1 /\ Len(lines) \in Nat
          /\ more[Len(lines) + 1] = line /\ \A k \in 1 .. Len(lines) : more[k] = lines[k]
      BY AppendProperties, LenProperties
    <2>2. /\ made \in Seq(Seq(Char)) /\ Len(made) = Len(lines) /\ f \in Seq(Char)
          /\ \A k \in 1 .. Len(lines) : made[k] = frame(lines[k])
      BY <1>1, <1>4
    <2>. HIDE DEF more, made
    <2>3. /\ Framed(more) \in Seq(Seq(Char)) /\ Len(Framed(more)) = Len(lines) + 1
          /\ \A k \in 1 .. Len(lines) + 1 : Framed(more)[k] = frame(more[k])
      BY <2>1, <1>4
    <2>. HIDE DEF f
    <2>4. /\ Append(made, f) \in Seq(Seq(Char)) /\ Len(Append(made, f)) = Len(lines) + 1
          /\ \A k \in 1 .. Len(lines) : Append(made, f)[k] = made[k]
          /\ Append(made, f)[Len(lines) + 1] = f
      BY <2>2, AppendProperties
    <2>5. \A k \in 1 .. Len(lines) + 1 : Framed(more)[k] = Append(made, f)[k]
      <3>. TAKE k \in 1 .. Len(lines) + 1
      <3>1. CASE k = Len(lines) + 1
        BY <3>1, <2>1, <2>3, <2>4 DEF f
      <3>2. CASE k # Len(lines) + 1
        <4>1. k \in 1 .. Len(lines)
          BY <3>2, <2>1
        <4>. QED
          BY <4>1, <2>1, <2>2, <2>3, <2>4
      <3>. QED
        BY <3>1, <3>2
    <2>6. Framed(more) = Append(made, f)
      BY <2>3, <2>4, <2>5, SeqEqual
    <2>. QED
      BY <2>6 DEF more, made, f
  <1>. QED
    BY <1>3, <1>4, <1>5 DEF frame

(* What the loop has made of the complete lines; an open line is in made and in buffer. *)
Flat(lines) == FlattenSeq(Framed(lines))

LEMMA FlatGrows ==
  /\ Flat(<<>>) = <<>>
  /\ \A lines \in Seq(Seq(Char)) :
       /\ Flat(lines) \in Seq(Char)
       /\ \A line \in Seq(Char) :
            Flat(Append(lines, line)) = Append((Flat(lines) \o <<Left>>) \o line, Right)
  <1>1. Flat(<<>>) = <<>>
    BY FramedGrows, FlattenGrows DEF Flat
  <1>2. ASSUME NEW lines \in Seq(Seq(Char)) PROVE Flat(lines) \in Seq(Char)
    BY FramedGrows, FlattenGrows DEF Flat
  <1>3. ASSUME NEW lines \in Seq(Seq(Char)), NEW line \in Seq(Char)
        PROVE  Flat(Append(lines, line)) = Append((Flat(lines) \o <<Left>>) \o line, Right)
    <2> DEFINE made == Framed(lines)
               head == <<Left>> \o line
               frame == head \o <<Right>>
               flat == Flat(lines)
               left == <<Left>>
    <2>1. /\ made \in Seq(Seq(Char)) /\ head \in Seq(Char) /\ frame \in Seq(Char) /\ Right \in Char
          /\ frame = Append(head, Right) /\ flat \in Seq(Char) /\ left \in Seq(Char)
      BY FramedGrows, FrameIs, <1>2, CharFacts
    <2>2. Flat(Append(lines, line)) = FlattenSeq(Append(made, frame))
      BY FramedGrows, Zenon DEF Flat
    <2>3. head = left \o line
      OBVIOUS
    <2>4. flat = FlattenSeq(made)
      BY DEF Flat
    <2>. HIDE DEF made, head, frame, flat, left
    <2>5. FlattenSeq(Append(made, frame)) = flat \o frame
      BY <2>1, <2>4, FlattenGrows, Zenon
    <2>6. flat \o Append(head, Right) = Append(flat \o head, Right)
      BY <2>1, AppendToConcat
    <2>7. (flat \o left) \o line = flat \o (left \o line)
      BY <2>1, ConcatGroups, ZenonT(30)
    <2>8. Flat(Append(lines, line)) = Append((flat \o left) \o line, Right)
      BY <2>1, <2>2, <2>3, <2>5, <2>6, <2>7, Zenon
    <2>. QED
      BY <2>8, Zenon DEF flat, left
  <1>. QED
    BY <1>1, <1>2, <1>3, Zenon

LoadState == [open : BOOLEAN, buffer : Seq(Char), made : Seq(Char)]

OpenMade(text) == (Flat(text.lines) \o <<Left>>) \o text.last

HasLoaded(text, st) ==
  /\ st \in LoadState
  /\ st.open <=> text.last # <<>>
  /\ st.open => st.made \o st.buffer = OpenMade(text)
  /\ ~st.open => st.made = Flat(text.lines)

LEMMA LoadCharStep ==
  ASSUME NEW text \in Text, NEW st, HasLoaded(text, st), NEW c \in Char
  PROVE  HasLoaded(NextChar(text, c), LoadChar(st, c))
  <1> DEFINE open == IF st.open
                     THEN st
                     ELSE [open |-> TRUE, buffer |-> <<>>, made |-> Append(st.made, Left)]
             next == NextChar(text, c)
             line == text.last
             flat == Flat(text.lines)
             left == <<Left>>
  <1>1. /\ text.lines \in Seq(Seq(Char)) /\ line \in Seq(Char) /\ flat \in Seq(Char)
        /\ left \in Seq(Char) /\ Left \in Char /\ Right \in Char
    BY TextFields, FlatGrows, CharFacts
  <1>2. st \in LoadState
    BY DEF HasLoaded
  <1>3. OpenMade(text) = (flat \o left) \o line /\ OpenMade(text) \in Seq(Char)
    <2>. HIDE DEF flat, left, line
    <2>1. (flat \o left) \o line \in Seq(Char)
      BY <1>1, ConcatProperties
    <2>. QED
      BY <2>1, Zenon DEF OpenMade, flat, left, line
  <1>4. /\ open.open /\ open.buffer \in Seq(Char) /\ open.made \in Seq(Char)
        /\ open.made \o open.buffer = OpenMade(text)
        /\ open = [open |-> TRUE, buffer |-> open.buffer, made |-> open.made]
    <2>1. CASE st.open
      BY <2>1, <1>2 DEF HasLoaded, LoadState
    <2>2. CASE ~st.open
      <3>1. open = [open |-> TRUE, buffer |-> <<>>, made |-> Append(flat, Left)] /\ line = <<>>
        BY <2>2 DEF HasLoaded
      <3>. HIDE DEF flat, left, line
      <3>2. Append(flat, Left) = flat \o left /\ Append(flat, Left) \in Seq(Char)
        BY <1>1, AppendIsConcat, AppendProperties DEF left
      <3>3. <<>> \in Seq(Char)
        BY EmptySeq
      <3> DEFINE whole == Append(flat, Left)
      <3>4. OpenMade(text) = whole \o <<>>
        BY <3>1, <3>2, <1>3, Zenon
      <3>5. open = [open |-> TRUE, buffer |-> <<>>, made |-> whole] /\ whole \in Seq(Char)
        BY <3>1, <3>2
      <3>. HIDE DEF whole, open
      <3>6. open.open = TRUE /\ open.buffer = <<>> /\ open.made = whole
        BY <3>5
      <3>7. open.made \o open.buffer = OpenMade(text)
        BY <3>4, <3>6, Zenon
      <3>. QED
        BY <3>3, <3>5, <3>6, <3>7
    <2>. QED
      BY <2>1, <2>2
  <1> DEFINE buffer == open.buffer
             made == open.made
             more == Append(buffer, c)
  <1>5. LoadChar(st, c) = IF c = NL
                          THEN [open |-> FALSE, buffer |-> <<>>, made |-> Append(made \o buffer, Right)]
                          ELSE IF Len(more) = BufferSize
                               THEN [open |-> TRUE, buffer |-> <<>>, made |-> made \o more]
                               ELSE [open |-> TRUE, buffer |-> more, made |-> made]
    <2>1. [open EXCEPT !.buffer = more] = [open |-> TRUE, buffer |-> more, made |-> made]
      <3>. HIDE DEF more
      <3>. HIDE DEF open
      <3>1. open \in LoadState
        BY <1>4 DEF LoadState
      <3>2. [open EXCEPT !.buffer = more] = [open |-> open.open, buffer |-> more, made |-> open.made]
        BY <3>1 DEF LoadState
      <3>3. open.open = TRUE
        BY <1>4, Zenon
      <3>. QED
        BY <3>2, <3>3, Zenon
    <2>2. LoadChar(st, c) = IF c = NL
                          THEN [open |-> FALSE, buffer |-> <<>>, made |-> Append(made \o buffer, Right)]
                          ELSE IF Len(more) = BufferSize
                               THEN [open |-> TRUE, buffer |-> <<>>, made |-> made \o more]
                               ELSE [open EXCEPT !.buffer = more]
      BY Zenon DEF LoadChar
    <2>. HIDE DEF open, more
    <2>. QED
      BY <2>1, <2>2, Zenon
  <1>6. buffer \in Seq(Char) /\ made \in Seq(Char) /\ made \o buffer = (flat \o left) \o line
    BY <1>3, <1>4, Zenon
  <1>. HIDE DEF open, buffer, made, more, line, flat, left
  <1>7. more \in Seq(Char) /\ <<>> \in Seq(Char) /\ made \o more \in Seq(Char) /\ made \o buffer \in Seq(Char)
    <2>1. more \in Seq(Char) /\ <<>> \in Seq(Char)
      BY <1>6, AppendProperties, EmptySeq DEF more
    <2>. QED
      BY <2>1, <1>6, ConcatProperties
  <1>8. CASE c = NL
    <2> DEFINE whole == Append(made \o buffer, Right)
    <2>1. LoadChar(st, c) = [open |-> FALSE, buffer |-> <<>>, made |-> whole]
      BY <1>5, <1>8, Zenon
    <2>2. whole \in Seq(Char)
      BY <1>1, <1>7, AppendProperties
    <2>3. next = [lines |-> Append(text.lines, line), last |-> <<>>]
      BY <1>8, NextCharIs, Zenon DEF line
    <2>4. Flat(Append(text.lines, line)) = Append((flat \o left) \o line, Right)
      BY <1>1, FlatGrows, Zenon DEF flat, left
    <2>5. whole = Flat(Append(text.lines, line))
      BY <2>4, <1>6, Zenon
    <2>. HIDE DEF whole, next
    <2>. QED
      BY <2>1, <2>2, <2>3, <2>5, <1>7 DEF HasLoaded, LoadState, next
  <1>9. CASE c # NL
    <2>1. next = [lines |-> text.lines, last |-> Append(line, c)]
      BY <1>9, NextCharIs, Zenon DEF line
    <2>2. Append(line, c) \in Seq(Char) /\ Append(line, c) # <<>>
      BY <1>1, AppendProperties
    <2>3. made \o more = Append(made \o buffer, c)
      <3>1. made \o Append(buffer, c) = Append(made \o buffer, c)
        <4>1. made \in Seq(Char) /\ buffer \in Seq(Char)
          BY <1>6
        <4>. QED
          BY <4>1, AppendToConcat
      <3>. QED
        BY <3>1, Zenon DEF more
    <2>4. ((flat \o left) \o Append(line, c)) = Append((flat \o left) \o line, c)
      <3>1. flat \o left \in Seq(Char)
        BY <1>1, ConcatProperties
      <3> DEFINE front == flat \o left
      <3>. HIDE DEF front
      <3>2. front \o Append(line, c) = Append(front \o line, c)
        BY <3>1, <1>1, AppendToConcat DEF front
      <3>. QED
        BY <3>2, Zenon DEF front
    <2>5. made \o more = OpenMade(next)
      <3>1. OpenMade(next) = (flat \o left) \o Append(line, c)
        <4>1. next.lines = text.lines /\ next.last = Append(line, c)
          BY <2>1
        <4>. QED
          BY <4>1, Zenon DEF OpenMade, flat, left
      <3>. QED
        BY <3>1, <2>3, <2>4, <1>6, Zenon
    <2>6. next.last # <<>>
      BY <2>1, <2>2
    <2>7. CASE Len(more) = BufferSize
      <3> DEFINE whole == made \o more
      <3>1. LoadChar(st, c) = [open |-> TRUE, buffer |-> <<>>, made |-> whole]
        BY <1>5, <1>9, <2>7, Zenon
      <3>2. whole \o <<>> = whole /\ whole \in Seq(Char)
        BY <1>7, ConcatEmptySeq
      <3>3. whole = OpenMade(next)
        BY <2>5
      <3>. HIDE DEF whole, next
      <3>. QED
        BY <3>1, <3>2, <3>3, <2>6, <1>7 DEF HasLoaded, LoadState, next
    <2>8. CASE Len(more) # BufferSize
      <3>1. LoadChar(st, c) = [open |-> TRUE, buffer |-> more, made |-> made]
        BY <1>5, <1>9, <2>8, Zenon
      <3>. HIDE DEF next
      <3>. QED
        BY <3>1, <2>5, <2>6, <1>6, <1>7 DEF HasLoaded, LoadState, next
    <2>. QED
      BY <2>7, <2>8
  <1>. QED
    BY <1>8, <1>9

LEMMA LoadCharState ==
  ASSUME NEW st \in LoadState, NEW c \in Char
  PROVE  LoadChar(st, c) \in LoadState
  <1> DEFINE open == IF st.open
                     THEN st
                     ELSE [open |-> TRUE, buffer |-> <<>>, made |-> Append(st.made, Left)]
             more == Append(open.buffer, c)
             ended == [open |-> FALSE, buffer |-> <<>>, made |-> Append(open.made \o open.buffer, Right)]
             full == [open |-> TRUE, buffer |-> <<>>, made |-> open.made \o more]
             longer == [open EXCEPT !.buffer = more]
  <1>1. LoadChar(st, c) = IF c = NL THEN ended ELSE IF Len(more) = BufferSize THEN full ELSE longer
    BY Zenon DEF LoadChar
  <1>2. open \in LoadState
    <2>1. Append(st.made, Left) \in Seq(Char) /\ <<>> \in Seq(Char)
      BY CharFacts, AppendProperties, EmptySeq DEF LoadState
    <2>. QED
      BY <2>1 DEF LoadState
  <1>. HIDE DEF open
  <1>3. open.buffer \in Seq(Char) /\ open.made \in Seq(Char)
    BY <1>2 DEF LoadState
  <1>4. /\ more \in Seq(Char) /\ <<>> \in Seq(Char) /\ open.made \o open.buffer \in Seq(Char)
        /\ Right \in Char
    BY <1>3, AppendProperties, EmptySeq, ConcatProperties, CharFacts
  <1>. HIDE DEF more
  <1>5. open.made \o more \in Seq(Char) /\ Append(open.made \o open.buffer, Right) \in Seq(Char)
    BY <1>3, <1>4, ConcatProperties, AppendProperties
  <1>6. ended \in LoadState
    BY <1>4, <1>5 DEF LoadState
  <1>7. full \in LoadState
    BY <1>4, <1>5 DEF LoadState
  <1>8. longer \in LoadState
    BY <1>2, <1>4 DEF LoadState
  <1>. HIDE DEF ended, full, longer
  <1>. QED
    BY <1>1, <1>6, <1>7, <1>8, Zenon

NothingLoaded == [open |-> FALSE, buffer |-> <<>>, made |-> <<>>]

LEMMA LoadRun ==
  ASSUME NEW text \in Seq(Char)
  PROVE  \E w : /\ w[0] = NothingLoaded
                /\ \A k \in 1 .. Len(text) : w[k] = LoadChar(w[k - 1], text[k])
                /\ Loaded(text) = IF w[Len(text)].open
                                  THEN Append(w[Len(text)].made \o w[Len(text)].buffer, Right)
                                  ELSE w[Len(text)].made
  <1> DEFINE n == Len(text)
             step == [k \in 1 .. n |-> [x \in LoadState |-> LoadChar(x, text[k])]]
             Fits(f) == f = [k \in 0 .. n |-> IF k = 0 THEN [open |-> FALSE, buffer |-> <<>>, made |-> <<>>]
                                                       ELSE LoadChar(f[k - 1], text[k])]
             w == CHOOSE f : Fits(f)
  <1>1. n \in Nat /\ \A k \in 1 .. n : text[k] \in Char
    BY LenProperties, ElementOfSeq
  <1>2. Loaded(text) = IF w[n].open THEN Append(w[n].made \o w[n].buffer, Right) ELSE w[n].made
    BY Zenon DEF Loaded
  <1>3. \A k \in 1 .. n : \A x \in LoadState : step[k][x] = LoadChar(x, text[k])
    OBVIOUS
  <1>4. step \in [1 .. n -> [LoadState -> LoadState]]
    BY <1>1, LoadCharState
  <1>5. NothingLoaded \in LoadState
    BY EmptySeq DEF NothingLoaded, LoadState
  <1>. HIDE DEF n, step
  <1>6. PICK u \in [0 .. n -> LoadState] :
          u[0] = NothingLoaded /\ \A k \in 1 .. n : u[k] = step[k][u[k - 1]]
    <2>1. PICK u : Steps(u, LoadState, NothingLoaded, n, step)
      BY <1>1, <1>4, <1>5, RunExists, Zenon
    <2>. QED
      BY <2>1, Zenon DEF Steps
  <1>7. ASSUME NEW k \in 1 .. n PROVE u[k] = LoadChar(u[k - 1], text[k])
    <2>1. u[k - 1] \in LoadState
      <3>1. k - 1 \in 0 .. n
        BY <1>1
      <3>. QED
        BY <3>1, <1>6
    <2>. QED
      BY <2>1, <1>3, <1>6, Zenon
  <1>8. Fits(u)
    <2>1. \A k \in 0 .. n : u[k] = IF k = 0 THEN [open |-> FALSE, buffer |-> <<>>, made |-> <<>>]
                                            ELSE LoadChar(u[k - 1], text[k])
      <3>1. ASSUME NEW k \in 0 .. n, k # 0 PROVE k \in 1 .. n
        BY <1>1, <3>1
      <3>. QED
        BY <3>1, <1>6, <1>7, Zenon DEF NothingLoaded
    <2>2. u = [k \in 0 .. n |-> u[k]]
      BY <1>6
    <2>. QED
      BY <2>1, <2>2, Zenon
  <1>9. Fits(w)
    <2>. HIDE DEF Fits
    <2>. QED
      BY <1>8
  <1>. HIDE DEF w
  <1>10. \A k \in 0 .. n : w[k] = IF k = 0 THEN [open |-> FALSE, buffer |-> <<>>, made |-> <<>>]
                                            ELSE LoadChar(w[k - 1], text[k])
    BY <1>9, Zenon
  <1>11. w[0] = NothingLoaded /\ \A k \in 1 .. n : w[k] = LoadChar(w[k - 1], text[k])
    <2>1. 0 \in 0 .. n /\ \A k \in 1 .. n : k \in 0 .. n /\ k # 0
      BY <1>1
    <2>. QED
      BY <2>1, <1>10, Zenon DEF NothingLoaded
  <1>. QED
    BY <1>2, <1>11, Zenon DEF n

(* What LoadFile makes of a file: one bracketed line after another, the last of them also
   when no newline ends it, whatever the size of the buffer. *)
LEMMA LoadsTheLines ==
  ASSUME NEW text \in Seq(Char)
  PROVE  Loaded(text) = Flat(Lines(text).lines \o (IF Lines(text).last = <<>> THEN <<>>
                                                                            ELSE <<Lines(text).last>>))
  <1> DEFINE n == Len(text)
  <1>1. n \in Nat /\ \A k \in 1 .. n : text[k] \in Char
    BY LenProperties, ElementOfSeq
  <1>2. PICK u \in [0 .. n -> Text] : /\ u[0] = NoText /\ Lines(text) = u[n]
                                      /\ \A k \in 1 .. n : u[k] = NextChar(u[k - 1], text[k])
    BY LinesRun
  <1>3. PICK w : /\ w[0] = NothingLoaded
                 /\ \A k \in 1 .. n : w[k] = LoadChar(w[k - 1], text[k])
                 /\ Loaded(text) = IF w[n].open THEN Append(w[n].made \o w[n].buffer, Right)
                                                ELSE w[n].made
    BY LoadRun, Zenon
  <1>. HIDE DEF n
  <1> DEFINE T == {k \in Nat : k <= n => HasLoaded(u[k], w[k])}
  <1>4. 0 \in T
    <2>1. HasLoaded(NoText, NothingLoaded)
      BY FlatGrows, EmptySeq DEF HasLoaded, NoText, NothingLoaded, LoadState
    <2>. QED
      BY <2>1, <1>2, <1>3
  <1>5. ASSUME NEW k \in Nat, k \in T PROVE k + 1 \in T
    <2>. SUFFICES ASSUME k + 1 <= n PROVE HasLoaded(u[k + 1], w[k + 1])
      OBVIOUS
    <2>1. k + 1 \in 1 .. n /\ (k + 1) - 1 = k /\ k \in 0 .. n /\ k <= n
      BY <1>1
    <2>2. u[k + 1] = NextChar(u[k], text[k + 1]) /\ w[k + 1] = LoadChar(w[k], text[k + 1])
      <3>1. u[k + 1] = NextChar(u[(k + 1) - 1], text[k + 1]) /\ w[k + 1] = LoadChar(w[(k + 1) - 1], text[k + 1])
        BY <2>1, <1>2, <1>3, Zenon
      <3>. QED
        BY <3>1, <2>1
    <2>3. HasLoaded(u[k], w[k]) /\ u[k] \in Text /\ text[k + 1] \in Char
      BY <2>1, <1>1, <1>2, <1>5
    <2>. QED
      BY <2>2, <2>3, LoadCharStep, Zenon
  <1>. HIDE DEF T
  <1>6. Nat \subseteq T
    BY <1>4, <1>5, InductionOnSet
  <1> DEFINE t == u[n]
             st == w[n]
  <1>7. HasLoaded(t, st) /\ t \in Text
    BY <1>1, <1>2, <1>6 DEF T
  <1>8. Loaded(text) = (IF st.open THEN Append(st.made \o st.buffer, Right) ELSE st.made) /\ Lines(text) = t
    BY <1>2, <1>3, Zenon
  <1>. HIDE DEF t, st
  <1>9. t.lines \in Seq(Seq(Char)) /\ t.last \in Seq(Char)
    BY <1>7, TextFields
  <1>10. CASE t.last = <<>>
    <2>1. Loaded(text) = Flat(t.lines)
      BY <1>7, <1>8, <1>10, Zenon DEF HasLoaded
    <2>2. t.lines \o <<>> = t.lines
      BY <1>9, ConcatEmptySeq
    <2>. QED
      BY <2>1, <2>2, <1>8, <1>10, Zenon
  <1>11. CASE t.last # <<>>
    <2>1. Loaded(text) = Append(OpenMade(t), Right)
      BY <1>7, <1>8, <1>11, Zenon DEF HasLoaded
    <2>2. Flat(Append(t.lines, t.last)) = Append(OpenMade(t), Right)
      BY <1>9, FlatGrows, Zenon DEF OpenMade
    <2>3. Append(t.lines, t.last) = t.lines \o <<t.last>>
      <3> DEFINE a == t.lines
                 b == t.last
      <3>1. a \in Seq(Seq(Char)) /\ b \in Seq(Char)
        BY <1>9
      <3>. HIDE DEF a, b
      <3>2. Append(a, b) = a \o <<b>>
        BY <3>1, AppendIsConcat
      <3>. QED
        BY <3>2, Zenon DEF a, b
    <2>. QED
      BY <2>1, <2>2, <2>3, <1>8, <1>11, Zenon
  <1>. QED
    BY <1>10, <1>11

-----------------------------------------------------------------------------
(* What is put.                                                             *)

LEMMA ImageIsText ==
  ASSUME NEW x \in [tag : Tag, info : Info]
  PROVE  Image(x) \in Seq(Char)
  <1>1. x.tag \in Tag /\ x.info \in Char /\ {Space, Left, Right} \subseteq Char
    BY DEF Char
  <1>2. <<x.info>> \in Seq(Char) /\ <<x.info, Space>> \in Seq(Char)
        /\ <<Left>> \in Seq(Char) /\ <<Right>> \in Seq(Char)
    BY <1>1
  <1>. QED
    BY <1>1, <1>2 DEF Image, Tag

LEMMA WrittenIsText ==
  ASSUME NEW expr \in Exprs, NEW function
  PROVE  Written(function, expr) \in Seq(Char)
  <1>1. expr \in Seq([tag : Tag, info : Info])
    BY TextAssumption
  <1>2. Len(expr) \in Nat /\ \A k \in 1 .. Len(expr) : Image(expr[k]) \in Seq(Char)
    BY <1>1, LenProperties, ElementOfSeq, ImageIsText
  <1> DEFINE images == [k \in 1 .. Len(expr) |-> Image(expr[k])]
  <1>3. images \in Seq(Seq(Char))
    <2>1. images \in [1 .. Len(expr) -> Seq(Char)]
      BY <1>2
    <2>. HIDE DEF images
    <2>. QED
      BY <2>1, <1>2, FunctionIsSeq
  <1>4. Printed(expr) = FlattenSeq(images)
    BY DEF Printed
  <1>. HIDE DEF images
  <1>5. Printed(expr) \in Seq(Char)
    BY <1>3, <1>4, FlattenGrows
  <1> DEFINE ending == IF function = "Write" THEN <<>> ELSE <<NL>>
  <1>6. ending \in Seq(Char)
    BY CharFacts, EmptySeq
  <1>7. Written(function, expr) = Printed(expr) \o ending
    BY Zenon DEF Written
  <1>. HIDE DEF ending
  <1>. QED
    BY <1>5, <1>6, <1>7, ConcatProperties

-----------------------------------------------------------------------------
(* The table and the disk as open files and texts.                          *)

On(s, f) == {n \in Slots : s[n] # NULL /\ s[n].name = f}

Waits(s, n) == s[n] # NULL /\ s[n].buf # <<>>

WholeIn(d, s, f) ==
  IF d[f] = NoFile
  THEN NoFile
  ELSE Lines(d[f] \o (IF \E n \in On(s, f) : Waits(s, n)
                      THEN s[CHOOSE n \in On(s, f) : Waits(s, n)].buf
                      ELSE <<>>))

FilesIn(d, s) == [f \in Names |-> WholeIn(d, s, f)]

OpenIn(s) == [n \in Slots |-> View(s[n])]

(* What the refinement rests on: one number per file, a file that is open is on the disk,
   and nothing waits to be written in a FILE opened for reading. *)
Good(d, s) ==
  /\ d \in [Names -> Seq(Char) \cup {NoFile}]
  /\ s \in [Slots -> File \cup {NULL}]
  /\ \A n, m \in Slots : s[n] # NULL /\ s[m] # NULL /\ s[n].name = s[m].name => n = m
  /\ \A n \in Slots : s[n] # NULL => /\ d[s[n].name] # NoFile
                                     /\ s[n].mode = "r" => s[n].buf = <<>>

LEMMA FileFields ==
  ASSUME NEW x \in File
  PROVE  /\ x.mode \in Mode /\ x.name \in Names /\ x.buf \in Seq(Char) /\ x.rest \in Seq(Char)
         /\ x = [mode |-> x.mode, name |-> x.name, buf |-> x.buf, rest |-> x.rest]
         /\ x # NULL
  BY MarkAssumption DEF File

LEMMA FileMade ==
  ASSUME NEW mode \in Mode, NEW name \in Names, NEW buf \in Seq(Char), NEW rest \in Seq(Char),
         NEW x, x = [mode |-> mode, name |-> name, buf |-> buf, rest |-> rest]
  PROVE  /\ x \in File /\ x # NULL
         /\ View(x) = [mode |-> mode, name |-> name, rest |-> Lines(rest)] /\ View(x) # NULL
  <1>1. x \in File /\ x.mode = mode /\ x.name = name /\ x.rest = rest
    BY DEF File
  <1>2. x # NULL
    BY <1>1, MarkAssumption
  <1>3. Lines(rest) \in Text
    BY LinesGrow
  <1>4. [mode |-> mode, name |-> name, rest |-> Lines(rest)] # NULL
    <2>1. [mode |-> mode, name |-> name, rest |-> Lines(rest)] \in [mode : Mode, name : Names, rest : Text]
      BY <1>3
    <2>. QED
      BY <2>1, MarkAssumption, Zenon
  <1>5. View(x) = [mode |-> mode, name |-> name, rest |-> Lines(rest)]
    BY <1>1, <1>2, Zenon DEF View
  <1>. QED
    BY <1>1, <1>2, <1>4, <1>5, Zenon

LEMMA ViewFacts ==
  ASSUME NEW d, NEW s, Good(d, s), NEW n \in Slots, s[n] # NULL
  PROVE  /\ s[n] \in File /\ View(s[n]) # NULL
         /\ View(s[n]).mode = s[n].mode /\ View(s[n]).name = s[n].name /\ View(s[n]).rest = Lines(s[n].rest)
  <1>1. s[n] \in File
    BY DEF Good
  <1>2. /\ View(s[n]) = [mode |-> s[n].mode, name |-> s[n].name, rest |-> Lines(s[n].rest)]
        /\ View(s[n]) # NULL
    <2> DEFINE y == s[n]
    <2>. HIDE DEF y
    <2>1. /\ y.mode \in Mode /\ y.name \in Names /\ y.buf \in Seq(Char) /\ y.rest \in Seq(Char)
          /\ y = [mode |-> y.mode, name |-> y.name, buf |-> y.buf, rest |-> y.rest]
      BY <1>1, FileFields DEF y
    <2>2. View(y) = [mode |-> y.mode, name |-> y.name, rest |-> Lines(y.rest)] /\ View(y) # NULL
      BY <2>1, FileMade
    <2>. QED
      BY <2>2 DEF y
  <1>. QED
    BY <1>1, <1>2

\* The text of a file that is not open, and that of the FILE x.
Plain(d, f) == IF d[f] = NoFile THEN NoFile ELSE Lines(d[f])

Raw(d, x) == d[x.name] \o x.buf

WithBuf(d, x) == Lines(Raw(d, x))

LEMMA WholeFacts ==
  ASSUME NEW d, NEW s, Good(d, s)
  PROVE  /\ \A f \in Names : On(s, f) = {} =>
               WholeIn(d, s, f) = Plain(d, f)
         /\ \A n \in Slots : s[n] # NULL =>
               WholeIn(d, s, s[n].name) = WithBuf(d, s[n])
         /\ \A f \in Names : WholeIn(d, s, f) = NoFile <=> d[f] = NoFile
  <1>1. ASSUME NEW f \in Names, On(s, f) = {}
        PROVE  WholeIn(d, s, f) = Plain(d, f)
    <2>1. CASE d[f] = NoFile
      BY <2>1, Zenon DEF WholeIn, Plain
    <2>2. CASE d[f] # NoFile
      <3>1. d[f] \o <<>> = d[f]
        BY <2>2, ConcatEmptySeq DEF Good
      <3>2. WholeIn(d, s, f) = Lines(d[f] \o <<>>)
        BY <1>1, <2>2, Zenon DEF WholeIn
      <3>. QED
        BY <3>1, <3>2, <2>2, Zenon DEF Plain
    <2>. QED
      BY <2>1, <2>2
  <1>2. ASSUME NEW n \in Slots, s[n] # NULL
        PROVE  WholeIn(d, s, s[n].name) = WithBuf(d, s[n])
    <2> DEFINE f == s[n].name
               waiting == IF \E m \in On(s, f) : Waits(s, m)
                          THEN s[CHOOSE m \in On(s, f) : Waits(s, m)].buf ELSE <<>>
    <2>1. On(s, f) = {n} /\ d[f] # NoFile
      BY <1>2 DEF On, Good
    <2>2. waiting = s[n].buf
      <3>1. CASE Waits(s, n)
        <4>1. (CHOOSE m \in On(s, f) : Waits(s, m)) = n
          BY <2>1, <3>1
        <4>. QED
          BY <4>1, <2>1, <3>1, Zenon
      <3>2. CASE ~Waits(s, n)
        BY <3>2, <2>1, <1>2 DEF Waits
      <3>. QED
        BY <3>1, <3>2
    <2>3. WholeIn(d, s, f) = Lines(d[f] \o waiting)
      BY <2>1, Zenon DEF WholeIn
    <2>. HIDE DEF waiting
    <2>. QED
      BY <2>2, <2>3, Zenon DEF WithBuf, Raw
  <1>3. ASSUME NEW f \in Names PROVE WholeIn(d, s, f) = NoFile <=> d[f] = NoFile
    <2>1. CASE d[f] = NoFile
      BY <2>1, Zenon DEF WholeIn
    <2>2. CASE d[f] # NoFile
      <3>1. d[f] \in Seq(Char)
        BY <2>2 DEF Good
      <3>2. \E t \in Seq(Char) : WholeIn(d, s, f) = Lines(t)
        <4>1. CASE On(s, f) = {}
          BY <4>1, <3>1, <2>2, <1>1, Zenon DEF Plain
        <4>2. CASE On(s, f) # {}
          <5>1. PICK n \in Slots : s[n] # NULL /\ s[n].name = f
            BY <4>2 DEF On
          <5>2. s[n].buf \in Seq(Char)
            BY <5>1, FileFields DEF Good
          <5>3. d[f] \o s[n].buf \in Seq(Char)
            BY <5>2, <3>1, ConcatProperties
          <5>. QED
            BY <5>1, <5>3, <1>2, Zenon DEF WithBuf, Raw
        <4>. QED
          BY <4>1, <4>2
      <3>3. PICK t \in Seq(Char) : WholeIn(d, s, f) = Lines(t)
        BY <3>2
      <3>4. Lines(t) \in Text
        BY LinesGrow
      <3>. QED
        BY <3>3, <3>4, <2>2, MarkAssumption, Zenon
    <2>. QED
      BY <2>1, <2>2
  <1>. QED
    BY <1>1, <1>2, <1>3

(* A step that changes entry n and leaves alone the files of the other entries. *)
Change(d, s, n, d2, x, s2) ==
  /\ s2 = [s EXCEPT ![n] = x]
  /\ Good(d, s) /\ n \in Slots /\ d2 \in [Names -> Seq(Char) \cup {NoFile}] /\ x \in File \cup {NULL}
  /\ \A m \in Slots \ {n} : s[m] # NULL => /\ d2[s[m].name] = d[s[m].name]
                                           /\ x # NULL => s[m].name # x.name
  /\ x # NULL => d2[x.name] # NoFile /\ (x.mode = "r" => x.buf = <<>>)

LEMMA SlotChange ==
  ASSUME NEW d, NEW s, NEW n, NEW d2, NEW x, NEW s2, Change(d, s, n, d2, x, s2)
  PROVE  /\ Good(d2, s2)
         /\ OpenIn(s2) = [OpenIn(s) EXCEPT ![n] = View(x)]
         /\ \A m \in Slots \ {n} : s[m] # NULL =>
              WholeIn(d2, s2, s[m].name) = WholeIn(d, s, s[m].name)
         /\ x # NULL => WholeIn(d2, s2, x.name) = WithBuf(d2, x)
         /\ \A f \in Names : On(s, f) \subseteq {n} /\ (x # NULL => f # x.name) =>
              WholeIn(d2, s2, f) = Plain(d2, f)
  <1>1. /\ s2 \in [Slots -> File \cup {NULL}] /\ s2[n] = x /\ n \in Slots
        /\ \A m \in Slots \ {n} : s2[m] = s[m]
    BY DEF Change, Good
  <1>2. OpenIn(s2) = [OpenIn(s) EXCEPT ![n] = View(x)]
    <2>1. \A m \in Slots : OpenIn(s2)[m] = IF m = n THEN View(x) ELSE OpenIn(s)[m]
      BY <1>1 DEF OpenIn
    <2>. QED
      BY <2>1 DEF OpenIn
  <1>3. Good(d2, s2)
    <2>1. ASSUME NEW a \in Slots, NEW b \in Slots, s2[a] # NULL, s2[b] # NULL, s2[a].name = s2[b].name
          PROVE  a = b
      <3>1. CASE a # n /\ b # n
        BY <2>1, <3>1, <1>1 DEF Change, Good
      <3>2. CASE a = n \/ b = n
        BY <2>1, <3>2, <1>1 DEF Change
      <3>. QED
        BY <3>1, <3>2
    <2>2. ASSUME NEW a \in Slots, s2[a] # NULL
          PROVE  d2[s2[a].name] # NoFile /\ (s2[a].mode = "r" => s2[a].buf = <<>>)
      <3>1. CASE a = n
        BY <2>2, <3>1, <1>1 DEF Change
      <3>2. CASE a # n
        BY <2>2, <3>2, <1>1 DEF Change, Good
      <3>. QED
        BY <3>1, <3>2
    <2>3. d2 \in [Names -> Seq(Char) \cup {NoFile}]
      BY DEF Change
    <2>. QED
      BY <2>1, <2>2, <2>3, <1>1 DEF Good
  <1>4. ASSUME NEW m \in Slots \ {n}, s[m] # NULL
        PROVE  WholeIn(d2, s2, s[m].name) = WholeIn(d, s, s[m].name)
    <2>1. m \in Slots /\ Good(d, s)
      BY DEF Change
    <2>2. WholeIn(d, s, s[m].name) = WithBuf(d, s[m])
      BY <2>1, <1>4, WholeFacts
    <2>3. s2[m] = s[m] /\ d2[s[m].name] = d[s[m].name]
      BY <1>1, <1>4 DEF Change
    <2>4. WholeIn(d2, s2, s2[m].name) = WithBuf(d2, s2[m])
      BY <2>1, <2>3, <1>3, <1>4, WholeFacts
    <2>5. WithBuf(d2, s[m]) = WithBuf(d, s[m])
      BY <2>3, Zenon DEF WithBuf, Raw
    <2>. QED
      BY <2>2, <2>3, <2>4, <2>5
  <1>5. ASSUME x # NULL PROVE WholeIn(d2, s2, x.name) = WithBuf(d2, x)
    BY <1>1, <1>3, <1>5, WholeFacts
  <1>6. ASSUME NEW f \in Names, On(s, f) \subseteq {n}, x # NULL => f # x.name
        PROVE  WholeIn(d2, s2, f) = Plain(d2, f)
    <2>1. On(s2, f) = {}
      BY <1>1, <1>6 DEF On
    <2>. QED
      BY <2>1, <1>3, WholeFacts
  <1>. QED
    BY <1>2, <1>3, <1>4, <1>5, <1>6

ClosedIn(d, s, n) == IF Waits(s, n) THEN [d EXCEPT ![s[n].name] = @ \o s[n].buf] ELSE d

LEMMA ClosedFacts ==
  ASSUME NEW d, NEW s, Good(d, s), NEW n \in Slots
  PROVE  /\ ClosedIn(d, s, n) \in [Names -> Seq(Char) \cup {NoFile}]
         /\ s[n] # NULL => ClosedIn(d, s, n)[s[n].name] = Raw(d, s[n])
         /\ \A f \in Names : (s[n] # NULL => f # s[n].name) => ClosedIn(d, s, n)[f] = d[f]
         /\ \A f \in Names : ClosedIn(d, s, n)[f] = NoFile <=> d[f] = NoFile
  <1>1. d \in [Names -> Seq(Char) \cup {NoFile}]
    BY DEF Good
  <1>2. CASE Waits(s, n)
    <2> DEFINE f == s[n].name
               whole == Raw(d, s[n])
    <2>1. s[n] # NULL /\ f \in Names /\ s[n].buf \in Seq(Char) /\ d[f] \in Seq(Char)
      BY <1>2, FileFields DEF Waits, Good
    <2>2. whole \in Seq(Char)
      BY <2>1, ConcatProperties DEF Raw
    <2>3. ClosedIn(d, s, n) = [d EXCEPT ![f] = whole]
      BY <1>2, Zenon DEF ClosedIn, Raw
    <2>4. whole # NoFile /\ d[f] # NoFile
      BY <2>1, <2>2, MarkAssumption
    <2>. HIDE DEF whole, f
    <2>5. /\ ClosedIn(d, s, n) \in [Names -> Seq(Char) \cup {NoFile}]
          /\ ClosedIn(d, s, n)[f] = whole
          /\ \A g \in Names : g # f => ClosedIn(d, s, n)[g] = d[g]
      BY <1>1, <2>1, <2>2, <2>3
    <2>. QED
      BY <2>1, <2>4, <2>5 DEF whole, f
  <1>3. CASE ~Waits(s, n)
    <2>1. ClosedIn(d, s, n) = d
      BY <1>3, Zenon DEF ClosedIn
    <2>2. s[n] # NULL => Raw(d, s[n]) = d[s[n].name]
      <3>1. ASSUME s[n] # NULL PROVE s[n].buf = <<>> /\ d[s[n].name] \in Seq(Char)
        BY <1>3, <3>1, FileFields DEF Waits, Good
      <3>. QED
        BY <3>1, ConcatEmptySeq DEF Raw
    <2>. QED
      BY <1>1, <2>1, <2>2, Zenon
  <1>. QED
    BY <1>2, <1>3

(* The three places where f can be: open in another entry, in this one, or in none. *)
LEMMA WhereFileIs ==
  ASSUME NEW s, NEW n, NEW f
  PROVE  \/ \E m \in Slots \ {n} : s[m] # NULL /\ f = s[m].name
         \/ On(s, f) \subseteq {n}
  BY DEF On

Keeps(d, s, d2, s2) == Good(d2, s2) /\ FilesIn(d2, s2) = FilesIn(d, s) /\ OpenIn(s2) = OpenIn(s)

(* Writing out what waits loses nothing, ... *)
LEMMA Flushing ==
  ASSUME NEW d, NEW s, Good(d, s), NEW n \in Slots, s[n] # NULL, NEW s2, s2 = [s EXCEPT ![n].buf = <<>>]
  PROVE  Keeps(d, s, ClosedIn(d, s, n), s2)
  <1> DEFINE x == [s[n] EXCEPT !.buf = <<>>]
             d2 == ClosedIn(d, s, n)
  <1>9. s2 = [s EXCEPT ![n] = x]
    BY Zenon
  <1>1. s[n] \in File /\ <<>> \in Seq(Char)
    BY EmptySeq DEF Good
  <1>2. /\ x \in File /\ x.name = s[n].name /\ x.mode = s[n].mode /\ x.rest = s[n].rest /\ x.buf = <<>>
    BY <1>1 DEF File
  <1>. HIDE DEF x
  <1>3. x # NULL /\ View(x) = View(s[n])
    <2>1. x # NULL
      BY <1>2, FileFields
    <2>. QED
      BY <2>1, <1>2, Zenon DEF View
  <1>4. Change(d, s, n, d2, x, s2)
    <2>1. \A m \in Slots \ {n} : s[m] # NULL => s[m].name # s[n].name /\ s[m].name \in Names
      BY FileFields DEF Good
    <2>2. x.name \in Names /\ d[x.name] # NoFile
      BY <1>1, <1>2, FileFields DEF Good
    <2>3. d2 \in [Names -> Seq(Char) \cup {NoFile}] /\ d2[x.name] # NoFile
      BY <2>2, ClosedFacts
    <2>4. \A m \in Slots \ {n} : s[m] # NULL => d2[s[m].name] = d[s[m].name]
      BY <2>1, ClosedFacts
    <2>. HIDE DEF d2
    <2>. QED
      BY <2>1, <2>3, <2>4, <1>2, <1>9 DEF Change
  <1>0. /\ s[n] # NULL => d2[s[n].name] = Raw(d, s[n])
        /\ \A f \in Names : (s[n] # NULL => f # s[n].name) => d2[f] = d[f]
    BY ClosedFacts
  <1>. HIDE DEF d2
  <1>5. Good(d2, s2) /\ OpenIn(s2) = [OpenIn(s) EXCEPT ![n] = View(x)]
    BY <1>4, SlotChange
  <1>6. OpenIn(s2) = OpenIn(s)
    <2>2. OpenIn(s)[n] = View(s[n])
      BY DEF OpenIn
    <2>. QED
      BY <2>2, <1>3, <1>5 DEF OpenIn
  <1>7. ASSUME NEW f \in Names PROVE WholeIn(d2, s2, f) = WholeIn(d, s, f)
    <2>1. CASE \E m \in Slots \ {n} : s[m] # NULL /\ f = s[m].name
      BY <2>1, <1>4, SlotChange
    <2>2. CASE On(s, f) \subseteq {n} /\ f = x.name
      <3>1. WholeIn(d2, s2, f) = WithBuf(d2, x)
        BY <2>2, <1>3, <1>4, SlotChange
      <3>2. WholeIn(d, s, f) = WithBuf(d, s[n])
        BY <2>2, <1>2, WholeFacts
      <3>3. d2[f] = Raw(d, s[n])
        BY <2>2, <1>2, <1>0
      <3>4. d2[f] \o x.buf = d2[f]
        <4>1. d[s[n].name] \in Seq(Char) /\ s[n].buf \in Seq(Char)
          BY <2>2, <1>1, <1>2, FileFields DEF Good
        <4>2. d2[f] \in Seq(Char)
          BY <4>1, <3>3, ConcatProperties DEF Raw
        <4>3. d2[f] \o <<>> = d2[f]
          BY <4>2, ConcatEmptySeq
        <4>. QED
          BY <4>3, <1>2, Zenon
      <3>5. WithBuf(d2, x) = WithBuf(d, s[n])
        BY <3>3, <3>4, <2>2, <1>2, Zenon DEF WithBuf, Raw
      <3>. QED
        BY <3>1, <3>2, <3>5
    <2>3. CASE On(s, f) \subseteq {n} /\ f # x.name
      <3>1. On(s, f) = {}
        BY <2>3, <1>2 DEF On
      <3>2. WholeIn(d2, s2, f) = Plain(d2, f)
        BY <2>3, <1>4, SlotChange
      <3>3. WholeIn(d, s, f) = Plain(d, f)
        BY <3>1, WholeFacts
      <3>4. d2[f] = d[f]
        BY <2>3, <1>2, <1>0, Zenon
      <3>5. Plain(d2, f) = Plain(d, f)
        BY <3>4, Zenon DEF Plain
      <3>. QED
        BY <3>2, <3>3, <3>5
    <2>. QED
      BY <2>1, <2>2, <2>3, WhereFileIs
  <1>8. FilesIn(d2, s2) = FilesIn(d, s)
    BY <1>7, Zenon DEF FilesIn
  <1>. QED
    BY <1>5, <1>6, <1>8, Zenon DEF d2, Keeps

Closes(d, s, n, d2, s2) ==
  /\ Good(d2, s2) /\ FilesIn(d2, s2) = FilesIn(d, s)
  /\ OpenIn(s2) = [OpenIn(s) EXCEPT ![n] = NULL]
  /\ s2[n] = NULL /\ \A m \in Slots \ {n} : s2[m] = s[m]

(* ... nor does closing, ... *)
LEMMA Closing ==
  ASSUME NEW d, NEW s, Good(d, s), NEW n \in Slots, NEW s2, s2 = [s EXCEPT ![n] = NULL]
  PROVE  Closes(d, s, n, ClosedIn(d, s, n), s2)
  <1> DEFINE d2 == ClosedIn(d, s, n)
  <1>0. s2[n] = NULL /\ \A m \in Slots \ {n} : s2[m] = s[m]
    BY DEF Good
  <1>2. /\ d2 \in [Names -> Seq(Char) \cup {NoFile}]
        /\ s[n] # NULL => d2[s[n].name] = Raw(d, s[n])
        /\ \A f \in Names : (s[n] # NULL => f # s[n].name) => d2[f] = d[f]
        /\ \A f \in Names : d2[f] = NoFile <=> d[f] = NoFile
    BY ClosedFacts
  <1>. HIDE DEF d2
  <1>1. Change(d, s, n, d2, NULL, s2)
    <2>1. \A m \in Slots \ {n} : s[m] # NULL =>
            s[m].name \in Names /\ (s[n] # NULL => s[m].name # s[n].name)
      BY FileFields DEF Good
    <2>3. ASSUME NEW m \in Slots \ {n}, s[m] # NULL PROVE d2[s[m].name] = d[s[m].name]
      <3>1. s[m].name \in Names /\ (s[n] # NULL => s[m].name # s[n].name)
        BY <2>1, <2>3
      <3>. QED
        BY <3>1, <1>2, Zenon
    <2>. QED
      BY <2>1, <2>3, <1>2 DEF Change
  <1>3. Good(d2, s2) /\ OpenIn(s2) = [OpenIn(s) EXCEPT ![n] = NULL]
    <2>1. Good(d2, s2) /\ OpenIn(s2) = [OpenIn(s) EXCEPT ![n] = View(NULL)]
      BY <1>1, SlotChange
    <2>2. View(NULL) = NULL
      BY DEF View
    <2>. QED
      BY <2>1, <2>2, Zenon
  <1>4. ASSUME NEW f \in Names PROVE WholeIn(d2, s2, f) = WholeIn(d, s, f)
    <2>1. CASE \E m \in Slots \ {n} : s[m] # NULL /\ f = s[m].name
      BY <2>1, <1>1, SlotChange
    <2>2. CASE On(s, f) \subseteq {n} /\ s[n] # NULL /\ f = s[n].name
      <3>1. WholeIn(d2, s2, f) = Plain(d2, f)
        BY <2>2, <1>1, SlotChange
      <3>2. WholeIn(d, s, f) = WithBuf(d, s[n])
        BY <2>2, WholeFacts
      <3>3. d2[f] = Raw(d, s[n]) /\ d2[f] # NoFile
        BY <2>2, <1>2 DEF Good
      <3>. QED
        BY <3>1, <3>2, <3>3, Zenon DEF Plain, WithBuf
    <2>3. CASE On(s, f) \subseteq {n} /\ (s[n] # NULL => f # s[n].name)
      <3>1. On(s, f) = {}
        BY <2>3 DEF On
      <3>2. WholeIn(d2, s2, f) = Plain(d2, f)
        BY <2>3, <1>1, SlotChange
      <3>3. WholeIn(d, s, f) = Plain(d, f)
        BY <3>1, WholeFacts
      <3>4. d2[f] = d[f]
        BY <2>3, <1>2
      <3>5. Plain(d2, f) = Plain(d, f)
        BY <3>4, Zenon DEF Plain
      <3>. QED
        BY <3>2, <3>3, <3>5
    <2>. QED
      BY <2>1, <2>2, <2>3, WhereFileIs
  <1>5. FilesIn(d2, s2) = FilesIn(d, s)
    BY <1>4, Zenon DEF FilesIn
  <1>. QED
    BY <1>0, <1>3, <1>5, Zenon DEF d2, Closes

Opens(d, s, n, mode, f, x, d2, s2) ==
  /\ Good(d2, s2) /\ s2[n] = x /\ x \in File /\ x # NULL
  /\ FilesIn(d2, s2) = IF mode = "w" \/ FilesIn(d, s)[f] = NoFile
                       THEN [FilesIn(d, s) EXCEPT ![f] = NoText] ELSE FilesIn(d, s)
  /\ mode = "r" => FilesIn(d, s)[f] # NoFile
  /\ OpenIn(s2) = [OpenIn(s) EXCEPT ![n] =
       [mode |-> mode, name |-> f, rest |-> IF mode = "r" THEN FilesIn(d, s)[f] ELSE NoText]]

(* ... and a file is opened as it is. *)
LEMMA Opening ==
  ASSUME NEW d, NEW s, Good(d, s), NEW n \in Slots, s[n] = NULL,
         NEW mode \in Mode, NEW f \in Names, On(s, f) = {}, Fopens(d, mode, f),
         NEW x, x = FileOn(d, mode, f), NEW s2, s2 = [s EXCEPT ![n] = x]
  PROVE  Opens(d, s, n, mode, f, x, Fopen(d, mode, f), s2)
  <1> DEFINE d2 == Fopen(d, mode, f)
             rest == IF mode = "r" THEN d[f] ELSE <<>>
             view == [mode |-> mode, name |-> f, rest |-> IF mode = "r" THEN FilesIn(d, s)[f] ELSE NoText]
  <1>1. d \in [Names -> Seq(Char) \cup {NoFile}] /\ NoFile \notin Seq(Char) /\ <<>> \in Seq(Char)
    BY MarkAssumption, EmptySeq DEF Good
  <1>2. FilesIn(d, s)[f] = Plain(d, f) /\ (FilesIn(d, s)[f] = NoFile <=> d[f] = NoFile)
    <2>1. WholeIn(d, s, f) = Plain(d, f) /\ (WholeIn(d, s, f) = NoFile <=> d[f] = NoFile)
      BY WholeFacts
    <2>. QED
      BY <2>1 DEF FilesIn
  <1>3. /\ d2 \in [Names -> Seq(Char) \cup {NoFile}] /\ \A g \in Names : g # f => d2[g] = d[g]
        /\ d2[f] = (IF mode = "w" \/ d[f] = NoFile THEN <<>> ELSE d[f]) /\ d2[f] # NoFile
    BY <1>1 DEF Fopen
  <1>4. mode = "r" => d[f] \in Seq(Char) /\ d[f] # NoFile
    BY <1>1 DEF Fopens
  <1>5. rest \in Seq(Char)
    BY <1>1, <1>4
  <1>6. x = [mode |-> mode, name |-> f, buf |-> <<>>, rest |-> rest]
    BY Zenon DEF FileOn
  <1>7. Lines(rest) = IF mode = "r" THEN FilesIn(d, s)[f] ELSE NoText
    BY <1>2, <1>4, LinesGrow DEF Plain
  <1>. HIDE DEF d2, rest
  <1>8. /\ x \in File /\ x # NULL /\ View(x) = [mode |-> mode, name |-> f, rest |-> Lines(rest)]
        /\ View(x) # NULL
    <2> DEFINE buf == <<>>
    <2>1. buf \in Seq(Char) /\ x = [mode |-> mode, name |-> f, buf |-> buf, rest |-> rest]
      BY <1>1, <1>6
    <2>. HIDE DEF buf
    <2>. QED
      BY <2>1, <1>5, FileMade
  <1>9. x.name = f /\ x.buf = <<>>
    BY <1>6
  <1>10. View(x) = view
    BY <1>7, <1>8, Zenon
  <1>. HIDE DEF view
  <1>11. Change(d, s, n, d2, x, s2)
    <2>1. \A m \in Slots \ {n} : s[m] # NULL => s[m].name \in Names /\ s[m].name # f
      BY FileFields DEF Good, On
    <2>. QED
      BY <2>1, <1>3, <1>8, <1>9 DEF Change
  <1>12. Good(d2, s2) /\ OpenIn(s2) = [OpenIn(s) EXCEPT ![n] = view]
    BY <1>10, <1>11, SlotChange
  <1>13. WholeIn(d2, s2, f) = IF mode = "w" \/ FilesIn(d, s)[f] = NoFile THEN NoText ELSE FilesIn(d, s)[f]
    <2>1. WholeIn(d2, s2, f) = WithBuf(d2, x)
      BY <1>8, <1>9, <1>11, SlotChange
    <2>2. d2[f] \o <<>> = d2[f]
      <3>1. d2[f] \in Seq(Char)
        BY <1>3
      <3>. QED
        BY <3>1, ConcatEmptySeq
    <2>3. WithBuf(d2, x) = Lines(d2[f])
      BY <2>2, <1>9, Zenon DEF WithBuf, Raw
    <2>4. CASE mode = "w" \/ d[f] = NoFile
      BY <2>1, <2>3, <2>4, <1>2, <1>3, LinesGrow
    <2>5. CASE ~(mode = "w" \/ d[f] = NoFile)
      BY <2>1, <2>3, <2>5, <1>2, <1>3 DEF Plain
    <2>. QED
      BY <2>4, <2>5
  <1>14. ASSUME NEW g \in Names, g # f PROVE WholeIn(d2, s2, g) = WholeIn(d, s, g)
    <2>1. CASE \E m \in Slots \ {n} : s[m] # NULL /\ g = s[m].name
      BY <2>1, <1>11, SlotChange
    <2>2. CASE On(s, g) \subseteq {n}
      <3>1. On(s, g) = {}
        BY <2>2 DEF On
      <3>2. WholeIn(d2, s2, g) = Plain(d2, g)
        BY <2>2, <1>9, <1>11, <1>14, SlotChange
      <3>3. WholeIn(d, s, g) = Plain(d, g)
        BY <3>1, WholeFacts
      <3>4. d2[g] = d[g]
        BY <1>3, <1>14
      <3>5. Plain(d2, g) = Plain(d, g)
        BY <3>4, Zenon DEF Plain
      <3>. QED
        BY <3>2, <3>3, <3>5
    <2>. QED
      BY <2>1, <2>2, WhereFileIs
  <1>15. FilesIn(d2, s2) =
           IF mode = "w" \/ FilesIn(d, s)[f] = NoFile THEN [FilesIn(d, s) EXCEPT ![f] = NoText]
                                                   ELSE FilesIn(d, s)
    <2>1. CASE mode = "w" \/ FilesIn(d, s)[f] = NoFile
      <3>1. WholeIn(d2, s2, f) = NoText
        BY <2>1, <1>13
      <3>2. FilesIn(d2, s2) = [FilesIn(d, s) EXCEPT ![f] = NoText]
        BY <3>1, <1>14 DEF FilesIn
      <3>. QED
        BY <2>1, <3>2
    <2>2. CASE ~(mode = "w" \/ FilesIn(d, s)[f] = NoFile)
      <3>1. WholeIn(d2, s2, f) = WholeIn(d, s, f)
        BY <2>2, <1>13 DEF FilesIn
      <3>2. FilesIn(d2, s2) = FilesIn(d, s)
        BY <3>1, <1>14, Zenon DEF FilesIn
      <3>. QED
        BY <2>2, <3>2
    <2>. QED
      BY <2>1, <2>2
  <1>16. s2[n] = x
    BY DEF Good
  <1>. QED
    BY <1>2, <1>4, <1>8, <1>12, <1>15, <1>16 DEF view, d2, Opens

Reads(d, s, n, s2) ==
  /\ Good(d, s2) /\ FilesIn(d, s2) = FilesIn(d, s)
  /\ OpenIn(s2) = [OpenIn(s) EXCEPT ![n].rest = ByLine!AfterLine(@)]
  /\ ReadFromStream(s[n].rest) = ByLine!NextLine(OpenIn(s)[n].rest)

(* Reading from a FILE takes a line off what it has not delivered yet. *)
LEMMA Reading ==
  ASSUME NEW d, NEW s, Good(d, s), NEW n \in Slots, s[n] # NULL,
         NEW s2, s2 = [s EXCEPT ![n] = [s[n] EXCEPT !.rest = AfterRead(@)]]
  PROVE  Reads(d, s, n, s2)
  <1> DEFINE x == [s[n] EXCEPT !.rest = AfterRead(@)]
             y == s[n]
             view == View(y)
  <1>1. /\ y \in File /\ y.rest \in Seq(Char) /\ AfterRead(y.rest) \in Seq(Char)
        /\ Lines(AfterRead(y.rest)) = ByLine!AfterLine(Lines(y.rest))
        /\ ReadFromStream(y.rest) = ByLine!NextLine(Lines(y.rest))
    <2>1. y \in File /\ y.rest \in Seq(Char)
      BY FileFields DEF Good
    <2>. QED
      BY <2>1, ReadsALine
  <1>2. /\ x \in File /\ x.mode = y.mode /\ x.name = y.name /\ x.buf = y.buf /\ x.rest = AfterRead(y.rest)
    BY <1>1 DEF File
  <1>3. view = [mode |-> y.mode, name |-> y.name, rest |-> Lines(y.rest)]
    BY Zenon DEF View
  <1>4. OpenIn(s)[n] = view
    BY Zenon DEF OpenIn
  <1>5. s2 = [s EXCEPT ![n] = x]
    OBVIOUS
  <1>. HIDE DEF x, y
  <1>6. x # NULL
    BY <1>2, FileFields
  <1>7. View(x) = [view EXCEPT !.rest = ByLine!AfterLine(@)]
    <2>1. View(x) = [mode |-> x.mode, name |-> x.name, rest |-> Lines(x.rest)]
      BY <1>6, Zenon DEF View
    <2>2. View(x) = [mode |-> y.mode, name |-> y.name, rest |-> ByLine!AfterLine(Lines(y.rest))]
      BY <2>1, <1>1, <1>2, Zenon
    <2>. HIDE DEF view
    <2>. QED
      BY <2>2, <1>3
  <1>8. Change(d, s, n, d, x, s2)
    <2>1. \A m \in Slots \ {n} : s[m] # NULL => s[m].name # y.name
      BY DEF Good, y
    <2>2. d[y.name] # NoFile /\ (y.mode = "r" => y.buf = <<>>) /\ d \in [Names -> Seq(Char) \cup {NoFile}]
      BY DEF Good, y
    <2>. QED
      BY <2>1, <2>2, <1>2, <1>5 DEF Change
  <1>9. Good(d, s2) /\ OpenIn(s2) = [OpenIn(s) EXCEPT ![n] = View(x)]
    BY <1>8, SlotChange
  <1>10. ASSUME NEW f \in Names PROVE WholeIn(d, s2, f) = WholeIn(d, s, f)
    <2>1. CASE \E m \in Slots \ {n} : s[m] # NULL /\ f = s[m].name
      BY <2>1, <1>8, SlotChange
    <2>2. CASE f = x.name
      <3>1. WholeIn(d, s2, f) = WithBuf(d, x)
        BY <2>2, <1>6, <1>8, SlotChange
      <3>2. WholeIn(d, s, f) = WithBuf(d, y)
        BY <2>2, <1>2, WholeFacts DEF y
      <3>3. WithBuf(d, x) = WithBuf(d, y)
        BY <1>2, Zenon DEF WithBuf, Raw
      <3>. QED
        BY <3>1, <3>2, <3>3
    <2>3. CASE On(s, f) \subseteq {n} /\ f # x.name
      <3>1. On(s, f) = {}
        BY <2>3, <1>2 DEF On, y
      <3>2. WholeIn(d, s2, f) = Plain(d, f)
        BY <2>3, <1>8, SlotChange
      <3>3. WholeIn(d, s, f) = Plain(d, f)
        BY <3>1, WholeFacts
      <3>. QED
        BY <3>2, <3>3
    <2>. QED
      BY <2>1, <2>2, <2>3, WhereFileIs
  <1>11. FilesIn(d, s2) = FilesIn(d, s)
    BY <1>10, Zenon DEF FilesIn
  <1>12. OpenIn(s2) = [OpenIn(s) EXCEPT ![n].rest = ByLine!AfterLine(@)]
    BY <1>4, <1>7, <1>9, Zenon
  <1>13. OpenIn(s)[n].rest = Lines(y.rest)
    BY <1>3, <1>4
  <1>. QED
    BY <1>1, <1>9, <1>11, <1>12, <1>13, Zenon DEF y, Reads

Adds(d, s, n, text, s2) ==
  /\ Good(d, s2) /\ OpenIn(s2) = OpenIn(s)
  /\ FilesIn(d, s2) = [FilesIn(d, s) EXCEPT ![s[n].name] = ByLine!Joined(@, Lines(text))]

(* What is put into a FILE that is open for writing is at the end of its file, waiting or not. *)
LEMMA Writing ==
  ASSUME NEW d, NEW s, Good(d, s), NEW n \in Slots, s[n] # NULL,
         NEW text \in Seq(Char), s[n].mode # "r" \/ text = <<>>,
         NEW s2, s2 = [s EXCEPT ![n].buf = @ \o text]
  PROVE  Adds(d, s, n, text, s2)
  <1> DEFINE y == s[n]
             buf == y.buf \o text
             x == [y EXCEPT !.buf = buf]
  <1>1. y \in File /\ y.buf \in Seq(Char) /\ y.name \in Names /\ d[y.name] \in Seq(Char)
        /\ d[y.name] # NoFile /\ (y.mode = "r" => y.buf = <<>>)
        /\ d \in [Names -> Seq(Char) \cup {NoFile}]
    BY FileFields DEF Good
  <1>2. buf \in Seq(Char)
    BY <1>1, ConcatProperties
  <1>3. y.mode = "r" => buf = <<>>
    <2>1. <<>> \o <<>> = <<>>
      BY ConcatEmptySeq, EmptySeq
    <2>. QED
      BY <1>1, <2>1, Zenon
  <1>4. s2 = [s EXCEPT ![n] = x]
    BY Zenon
  <1>5. Raw(d, y) \o text = d[y.name] \o buf
    <2> DEFINE a == d[y.name]
               b == y.buf
    <2>1. a \in Seq(Char) /\ b \in Seq(Char)
      BY <1>1
    <2>2. Raw(d, y) = a \o b /\ buf = b \o text
      BY Zenon DEF Raw
    <2>. HIDE DEF a, b, buf
    <2>3. (a \o b) \o text = a \o (b \o text)
      BY <2>1, ConcatAssociative
    <2>4. Raw(d, y) \o text = a \o buf
      BY <2>2, <2>3, Zenon
    <2>. QED
      BY <2>4 DEF a
  <1>6. Raw(d, y) \in Seq(Char)
    BY <1>1, ConcatProperties DEF Raw
  <1>. HIDE DEF buf
  <1>7. x \in File /\ x.mode = y.mode /\ x.name = y.name /\ x.buf = buf /\ x.rest = y.rest
    BY <1>1, <1>2 DEF File
  <1>. HIDE DEF x
  <1>8. x # NULL /\ View(x) = View(y)
    <2>1. x # NULL
      BY <1>7, FileFields
    <2>. QED
      BY <2>1, <1>7, Zenon DEF View
  <1>9. Change(d, s, n, d, x, s2)
    <2>1. \A m \in Slots \ {n} : s[m] # NULL => s[m].name # y.name
      BY DEF Good
    <2>. HIDE DEF y
    <2>. QED
      BY <2>1, <1>1, <1>3, <1>4, <1>7 DEF Change
  <1>10. Good(d, s2) /\ OpenIn(s2) = [OpenIn(s) EXCEPT ![n] = View(x)]
    BY <1>9, SlotChange
  <1>11. OpenIn(s2) = OpenIn(s)
    <2>1. OpenIn(s)[n] = View(s[n])
      BY DEF OpenIn
    <2>. QED
      BY <2>1, <1>8, <1>10 DEF OpenIn
  <1>12. WholeIn(d, s2, y.name) = ByLine!Joined(WholeIn(d, s, y.name), Lines(text))
    <2>1. WholeIn(d, s2, x.name) = WithBuf(d, x)
      BY <1>8, <1>9, SlotChange
    <2>2. WholeIn(d, s, y.name) = WithBuf(d, y)
      BY WholeFacts
    <2>3. WithBuf(d, x) = Lines(Raw(d, y) \o text)
      BY <1>5, <1>7, Zenon DEF WithBuf, Raw
    <2>4. Lines(Raw(d, y) \o text) = ByLine!Joined(Lines(Raw(d, y)), Lines(text))
      BY <1>6, LinesJoin, Zenon
    <2>. HIDE DEF y
    <2>. QED
      BY <2>1, <2>2, <2>3, <2>4, <1>7, Zenon DEF WithBuf
  <1>13. ASSUME NEW f \in Names, f # y.name PROVE WholeIn(d, s2, f) = WholeIn(d, s, f)
    <2>1. CASE \E m \in Slots \ {n} : s[m] # NULL /\ f = s[m].name
      BY <2>1, <1>9, SlotChange
    <2>2. CASE On(s, f) \subseteq {n}
      <3>1. On(s, f) = {}
        BY <2>2, <1>13 DEF On
      <3>2. WholeIn(d, s2, f) = Plain(d, f)
        BY <2>2, <1>7, <1>9, <1>13, SlotChange
      <3>3. WholeIn(d, s, f) = Plain(d, f)
        BY <3>1, WholeFacts
      <3>. QED
        BY <3>2, <3>3
    <2>. QED
      BY <2>1, <2>2, WhereFileIs
  <1>14. FilesIn(d, s2) = [FilesIn(d, s) EXCEPT ![y.name] = ByLine!Joined(@, Lines(text))]
    <2> DEFINE t == Lines(text)
    <2>. HIDE DEF y, t
    <2>. QED
      BY <1>1, <1>12, <1>13 DEF FilesIn, t
  <1>. QED
    BY <1>10, <1>11, <1>14 DEF y, Adds

-----------------------------------------------------------------------------
(* The end of the program.                                                  *)

Leaves(d, s, d2) ==
  /\ d2 \in [Names -> UNION {Remains(d, s, f) : f \in Names}]
  /\ \A f \in Names : d2[f] \in Remains(d, s, f)

NoStreams == [n \in Slots |-> NULL]

\* f is open for writing.
IsWritten(s, f) == \E n \in Slots : s[n] # NULL /\ s[n].mode # "r" /\ s[n].name = f

LEMMA PrefixIsText ==
  ASSUME NEW t \in Seq(Char), NEW p \in Prefixes(t)
  PROVE  p \in Seq(Char)
  <1>1. PICK l \in 0 .. Len(t) : p = SubSeq(t, 1, l)
    BY DEF Prefixes
  <1>2. Len(t) \in Nat
    BY LenProperties
  <1>3. \A i \in 1 .. l : t[i] \in Char
    BY <1>2, ElementOfSeq
  <1>. QED
    BY <1>1, <1>3, SubSeqProperties

(* What is left of one file: what was there and what waited, or a part of that if the disk may be full. *)
LEMMA OneRemains ==
  ASSUME NEW d, NEW s, Good(d, s), NEW f \in Names, NEW left \in Remains(d, s, f)
  PROVE  /\ left \in Seq(Char) \cup {NoFile}
         /\ \/ WholeIn(d, s, f) = IF left = NoFile THEN NoFile ELSE Lines(left)
            \/ MayFail /\ IsWritten(s, f)
  <1> DEFINE late == {n \in Slots : s[n] # NULL /\ s[n].name = f /\ s[n].buf # <<>>}
             Parts(n) == IF MayFail THEN Prefixes(s[n].buf) ELSE {s[n].buf}
  <1>0. d[f] \in Seq(Char) \cup {NoFile} /\ NoFile \notin Seq(Char)
    BY MarkAssumption DEF Good
  <1>1. CASE late = {}
    <2>1. left = d[f]
      BY <1>1 DEF Remains
    <2>2. CASE On(s, f) = {}
      <3>1. WholeIn(d, s, f) = Plain(d, f)
        BY <2>2, WholeFacts
      <3>. QED
        BY <2>1, <3>1, <1>0, Zenon DEF Plain
    <2>3. CASE On(s, f) # {}
      <3>1. PICK n \in Slots : s[n] # NULL /\ s[n].name = f
        BY <2>3 DEF On
      <3>2. s[n].buf = <<>> /\ d[f] \in Seq(Char)
        BY <3>1, <1>1, <1>0 DEF Good
      <3>3. WholeIn(d, s, f) = WithBuf(d, s[n])
        BY <3>1, WholeFacts
      <3>4. d[f] \o <<>> = d[f]
        BY <3>2, ConcatEmptySeq
      <3>5. WithBuf(d, s[n]) = Lines(d[f])
        BY <3>1, <3>2, <3>4, Zenon DEF WithBuf, Raw
      <3>6. d[f] # NoFile
        BY <3>2, <1>0
      <3>. QED
        BY <2>1, <3>3, <3>5, <3>6, <1>0, Zenon
    <2>. QED
      BY <2>2, <2>3
  <1>2. CASE late # {}
    <2>1. left \in {d[f] \o p : p \in UNION {Parts(n) : n \in late}}
      BY <1>2, Zenon DEF Remains
    <2>2. PICK n \in late : \E p \in Parts(n) : left = d[f] \o p
      <3>. HIDE DEF late, Parts
      <3>1. PICK p \in UNION {Parts(n) : n \in late} : left = d[f] \o p
        BY <2>1, Zenon
      <3>. QED
        BY <3>1, Zenon
    <2>3. PICK p \in Parts(n) : left = d[f] \o p
      BY <2>2
    <2>4. n \in Slots /\ s[n] # NULL /\ s[n].name = f /\ s[n].buf # <<>>
      BY <2>2
    <2>. HIDE DEF late
    <2>5. s[n].buf \in Seq(Char) /\ d[f] \in Seq(Char) /\ d[f] # NoFile /\ s[n].mode # "r"
      BY <2>4, <1>0, FileFields DEF Good
    <2>6. p \in Seq(Char)
      <3>1. CASE MayFail
        BY <3>1, <2>3, <2>5, PrefixIsText
      <3>2. CASE ~MayFail
        BY <3>2, <2>3, <2>5
      <3>. QED
        BY <3>1, <3>2
    <2>7. left \in Seq(Char)
      <3> DEFINE was == d[f]
      <3>1. was \in Seq(Char) /\ left = was \o p
        BY <2>3, <2>5
      <3>. HIDE DEF was
      <3>. QED
        BY <2>6, <3>1, ConcatProperties
    <2>8. MayFail => IsWritten(s, f)
      BY <2>4, <2>5 DEF IsWritten
    <2>9. ASSUME ~MayFail
          PROVE  WholeIn(d, s, f) = IF left = NoFile THEN NoFile ELSE Lines(left)
      <3>1. p = s[n].buf
        BY <2>9, <2>3
      <3>2. WholeIn(d, s, f) = WithBuf(d, s[n])
        BY <2>4, WholeFacts
      <3>3. WithBuf(d, s[n]) = Lines(left)
        BY <2>3, <2>4, <3>1, Zenon DEF WithBuf, Raw
      <3>4. left # NoFile
        BY <2>7, <1>0
      <3>. QED
        BY <3>2, <3>3, <3>4
    <2>. QED
      BY <2>7, <2>8, <2>9
  <1>. QED
    BY <1>1, <1>2

LEMMA Ending ==
  ASSUME NEW d, NEW s, Good(d, s), NEW d2, Leaves(d, s, d2)
  PROVE  /\ Good(d2, NoStreams)
         /\ OpenIn(NoStreams) = NoStreams
         /\ \A f \in Names : FilesIn(d2, NoStreams)[f] # FilesIn(d, s)[f] => MayFail /\ IsWritten(s, f)
  <1>1. \A f \in Names : d2[f] \in Remains(d, s, f)
    BY DEF Leaves
  <1>2. d2 \in [Names -> Seq(Char) \cup {NoFile}]
    <2>1. \A f \in Names : d2[f] \in Seq(Char) \cup {NoFile}
      BY <1>1, OneRemains
    <2>. QED
      BY <2>1 DEF Leaves
  <1>3. Good(d2, NoStreams)
    BY <1>2 DEF Good, NoStreams
  <1>4. OpenIn(NoStreams) = NoStreams
    BY DEF OpenIn, NoStreams, View
  <1>5. ASSUME NEW f \in Names, FilesIn(d2, NoStreams)[f] # FilesIn(d, s)[f]
        PROVE  MayFail /\ IsWritten(s, f)
    <2>1. On(NoStreams, f) = {}
      BY DEF On, NoStreams
    <2>2. WholeIn(d2, NoStreams, f) = Plain(d2, f)
      BY <2>1, <1>3, WholeFacts
    <2>3. WholeIn(d2, NoStreams, f) # WholeIn(d, s, f)
      BY <1>5, Zenon DEF FilesIn
    <2>. QED
      BY <2>2, <2>3, <1>1, OneRemains DEF Plain
  <1>. QED
    BY <1>3, <1>4, <1>5

-----------------------------------------------------------------------------
(* The steps.                                                               *)

IInv == Good(disk, s_streams) /\ stdin \in Seq(Char)

LineStep ==
  \/ ByLine!NextOther
  \/ \E expr \in Exprs, function \in PutFunction :
       ByLine!NextPut(Lines(Written(function, expr)), Kept(function, expr))
  \/ \E expr \in Exprs, function \in {"Print", "Prout"} :
       ByLine!PutConsole("stdout", Lines(Written(function, expr)), Kept(function, expr))

LEMMA Mapped ==
  /\ Files = FilesIn(disk, s_streams) /\ Files' = FilesIn(disk', s_streams')
  /\ Opened = OpenIn(s_streams) /\ Opened' = OpenIn(s_streams')
  /\ \A n : Fclose(disk, n) = ClosedIn(disk, s_streams, n) /\ Pending(n) = Waits(s_streams, n)
  /\ \A f : Users(f) = On(s_streams, f)
  <1>1. \A n : Pending(n) = Waits(s_streams, n) /\ Pending(n)' = Waits(s_streams', n)
    BY DEF Pending, Waits
  <1>2. \A f : Users(f) = On(s_streams, f) /\ Users(f)' = On(s_streams', f)
    BY DEF Users, On
  <1>3. \A n : Fclose(disk, n) = ClosedIn(disk, s_streams, n)
    BY <1>1 DEF Fclose, ClosedIn
  <1>4. \A f : Whole(f) = WholeIn(disk, s_streams, f)
    BY Zenon DEF Whole, WholeIn, Users, On, Pending, Waits
  <1>5. \A f : Whole(f)' = WholeIn(disk', s_streams', f)
    BY Zenon DEF Whole, WholeIn, Users, On, Pending, Waits
  <1>6. Files = FilesIn(disk, s_streams) /\ Files' = FilesIn(disk', s_streams')
    BY <1>4, <1>5, Zenon DEF Files, FilesIn
  <1>7. Opened = OpenIn(s_streams) /\ Opened' = OpenIn(s_streams')
    BY Zenon DEF Opened, OpenIn
  <1>. QED
    BY <1>1, <1>2, <1>3, <1>6, <1>7, Zenon

LEMMA SlotFacts ==
  \A no \in Numbers : Slot(no) \in Slots /\ Default[Slot(no)] \in Names
  BY TableAssumption DEF Slot, Slots

LEMMA Quiet ==
  /\ Silent = [stdout |-> <<>>, stderr |-> <<>>]
  /\ console' = Silent => Said' = ByLine!Silent
  <1>1. Lines(<<>>) = ByLine!Empty
    BY LinesGrow, TextFields
  <1>2. ASSUME console' = Silent PROVE Said' = ByLine!Silent
    <2>1. console'.stdout = <<>> /\ console'.stderr = <<>>
      BY <1>2 DEF Silent
    <2>2. Said' = [stdout |-> Lines(console'.stdout), stderr |-> Lines(console'.stderr)]
      BY DEF Said
    <2>. QED
      BY <1>1, <2>1, <2>2, Zenon DEF ByLine!Silent
  <1>. QED
    BY <1>2 DEF Silent

LEMMA ReturnsStep ==
  ASSUME NEW value, Returns(value)
  PROVE  ByLine!Returns(value)
  BY Quiet DEF Returns, ReturnsAfter, Running, ByLine!Returns, ByLine!Says

(* The program ends: from the disk and the table as they are then. *)
LEMMA EndStep ==
  ASSUME IInv, NEW d, NEW s, NEW why \in {"exit", "error"}, Exit(d, s, why), Good(d, s),
         \A f \in Names : FilesIn(d, s)[f] # Files[f] => MayFail /\ IsWritten(s_streams, f),
         \A f \in Names : IsWritten(s, f) => IsWritten(s_streams, f)
  PROVE  IInv' /\ LineStep
  <1>1. /\ Leaves(d, s, disk') /\ s_streams' = NoStreams /\ stdin' = stdin /\ result' = <<>>
        /\ outcome = "running" /\ outcome' = why /\ console' = Silent
    BY DEF Exit, Leaves, NoStreams, Running
  <1>2. /\ Good(disk', NoStreams) /\ OpenIn(NoStreams) = NoStreams
        /\ \A f \in Names : FilesIn(disk', NoStreams)[f] # FilesIn(d, s)[f] => MayFail /\ IsWritten(s, f)
    BY <1>1, Ending
  <1>3. IInv'
    BY <1>1, <1>2 DEF IInv
  <1>4. Files' = FilesIn(disk', NoStreams) /\ Opened' = NoStreams /\ Opened = OpenIn(s_streams)
    BY <1>1, <1>2, Mapped
  <1>5. \A f \in Names : Files'[f] # Files[f] => MayFail /\ IsWritten(s_streams, f)
    BY <1>2, <1>4
  <1>6. ASSUME NEW f \in Names, IsWritten(s_streams, f)
        PROVE  \E n \in Slots : ByLine!Writes(n) /\ Opened[n].name = f
    <2>1. PICK n \in Slots : s_streams[n] # NULL /\ s_streams[n].mode # "r" /\ s_streams[n].name = f
      BY <1>6 DEF IsWritten
    <2>2. /\ View(s_streams[n]) # NULL /\ View(s_streams[n]).mode = s_streams[n].mode
          /\ View(s_streams[n]).name = s_streams[n].name
      BY <2>1, ViewFacts DEF IInv
    <2>3. Opened[n] = View(s_streams[n])
      BY <1>4, Zenon DEF OpenIn
    <2>. QED
      BY <2>1, <2>2, <2>3 DEF ByLine!Writes
  <1>7. IF MayFail
        THEN /\ DOMAIN Files' = Names
             /\ \A f \in Names : Files'[f] # Files[f] => \E n \in Slots : ByLine!Writes(n) /\ Opened[n].name = f
        ELSE Files' = Files
    <2>1. Files' = [f \in Names |-> Files'[f]] /\ Files = [f \in Names |-> Files[f]]
      BY DEF Files
    <2>2. DOMAIN Files' = Names
      BY DEF Files
    <2>3. CASE MayFail
      BY <2>2, <2>3, <1>5, <1>6
    <2>4. CASE ~MayFail
      <3>1. \A f \in Names : Files'[f] = Files[f]
        BY <2>4, <1>5
      <3>. QED
        BY <2>1, <2>4, <3>1, Zenon
    <2>. QED
      BY <2>3, <2>4
  <1>8. ByLine!Stop
    <2>1. Opened' = [n \in Slots |-> NULL]
      BY <1>4 DEF NoStreams
    <2>2. Said' = ByLine!Silent
      BY <1>1, Quiet
    <2>. QED
      BY <1>1, <1>7, <2>1, <2>2, Zenon DEF ByLine!Stop
  <1>. QED
    BY <1>3, <1>8 DEF LineStep, ByLine!NextOther

(* The program ends with the table as it is. *)
LEMMA EndNow ==
  ASSUME IInv, NEW why \in {"exit", "error"}, Exit(disk, s_streams, why)
  PROVE  IInv' /\ LineStep
  <1>1. Good(disk, s_streams) /\ \A f \in Names : FilesIn(disk, s_streams)[f] = Files[f]
    BY Mapped DEF IInv
  <1>. QED
    BY <1>1, EndStep

LEMMA OpenStep ==
  ASSUME IInv, NEW no \in Numbers, NEW mode \in Mode, NEW f \in Names, Open(no, mode, f)
  PROVE  IInv' /\ LineStep
  <1> DEFINE n == Slot(no)
             closed == ClosedIn(disk, s_streams, n)
             s1 == [s_streams EXCEPT ![n] = NULL]
  <1>1. n \in Slots /\ Good(disk, s_streams) /\ stdin \in Seq(Char)
    BY SlotFacts DEF IInv
  <1>2. /\ Fclose(disk, n) = closed /\ Users(f) = On(s_streams, f)
        /\ Files = FilesIn(disk, s_streams) /\ Opened = OpenIn(s_streams)
    BY Mapped
  <1>3. /\ Free(f, n)
        /\ \/ FailToClose(n)
           \/ /\ Fopens(closed, mode, f)
              /\ disk' = Fopen(closed, mode, f)
              /\ s_streams' = [s_streams EXCEPT ![n] = FileOn(closed, mode, f)]
              /\ Returns(<<>>)
              /\ UNCHANGED stdin
           \/ ~Fopens(closed, mode, f) /\ Exit(closed, s1, "error")
    BY <1>2, Zenon DEF Open
  <1>4. /\ Good(closed, s1) /\ FilesIn(closed, s1) = Files
        /\ OpenIn(s1) = [Opened EXCEPT ![n] = NULL]
        /\ s1[n] = NULL /\ \A m \in Slots \ {n} : s1[m] = s_streams[m]
    <2>1. s1 = [s_streams EXCEPT ![n] = NULL]
      OBVIOUS
    <2>. HIDE DEF n, closed, s1
    <2>2. Closes(disk, s_streams, n, closed, s1)
      BY <2>1, <1>1, Closing DEF closed
    <2>. QED
      BY <2>2, <1>2 DEF Closes
  <1>5. On(s1, f) = {}
    BY <1>2, <1>3, <1>4 DEF Free, On
  <1>6. ASSUME FailToClose(n) PROVE IInv' /\ LineStep
    BY <1>6, EndNow DEF FailToClose
  <1>. HIDE DEF n, closed
  <1>7. ASSUME Fopens(closed, mode, f), disk' = Fopen(closed, mode, f),
               s_streams' = [s_streams EXCEPT ![n] = FileOn(closed, mode, f)],
               Returns(<<>>), stdin' = stdin
        PROVE  IInv' /\ LineStep
    <2>1. s_streams' = [s1 EXCEPT ![n] = FileOn(closed, mode, f)]
      BY <1>7
    <2> DEFINE view == [mode |-> mode, name |-> f, rest |-> IF mode = "r" THEN Files[f] ELSE NoText]
    <2>. HIDE DEF s1
    <2>2. Opens(closed, s1, n, mode, f, FileOn(closed, mode, f), disk', s_streams')
      BY <2>1, <1>1, <1>4, <1>5, <1>7, Opening
    <2>3. /\ Good(disk', s_streams')
          /\ Files' = IF mode = "w" \/ Files[f] = NoFile THEN [Files EXCEPT ![f] = NoText] ELSE Files
          /\ mode = "r" => Files[f] # NoFile
          /\ Opened' = [OpenIn(s1) EXCEPT ![n] = view]
      BY <2>2, <1>4, Mapped DEF Opens
    <2>. HIDE DEF view
    <2>4. Opened' = [Opened EXCEPT ![n] = view]
      BY <2>3, <1>4
    <2>5. ByLine!Returns(<<>>)
      BY <1>7, ReturnsStep
    <2>6. ByLine!OpenAs(n, mode, f)
      BY <2>3, <2>4, TextFields DEF ByLine!OpenAs, view
    <2>7. ByLine!Open(n, mode, f)
      BY <2>5, <2>6, <1>7 DEF ByLine!Open
    <2>. QED
      BY <2>3, <2>7, <1>1, <1>7 DEF IInv, LineStep, ByLine!NextOther, Mode
  <1>8. ASSUME Exit(closed, s1, "error") PROVE IInv' /\ LineStep
    <2>1. \A g \in Names : IsWritten(s1, g) => IsWritten(s_streams, g)
      BY <1>4 DEF IsWritten
    <2>. HIDE DEF s1
    <2>. QED
      BY <2>1, <1>4, <1>8, EndStep
  <1>. QED
    BY <1>3, <1>6, <1>7, <1>8

LEMMA CloseStep ==
  ASSUME IInv, NEW no \in Numbers, Close(no)
  PROVE  IInv' /\ LineStep
  <1> DEFINE n == Slot(no)
  <1>1. n \in Slots /\ Good(disk, s_streams) /\ stdin \in Seq(Char)
    BY SlotFacts DEF IInv
  <1>2. CASE FailToClose(n)
    BY <1>2, EndNow DEF FailToClose
  <1>3. CASE /\ disk' = Fclose(disk, n)
             /\ s_streams' = [s_streams EXCEPT ![n] = NULL]
             /\ Returns(<<>>)
             /\ UNCHANGED stdin
    <2>1. disk' = ClosedIn(disk, s_streams, n)
      BY <1>3, Mapped
    <2>. HIDE DEF n
    <2>2. Closes(disk, s_streams, n, disk', s_streams')
      BY <2>1, <1>1, <1>3, Closing
    <2>3. Good(disk', s_streams') /\ Files' = Files /\ Opened' = [Opened EXCEPT ![n] = NULL]
      BY <2>2, Mapped DEF Closes
    <2>4. ByLine!Returns(<<>>)
      BY <1>3, ReturnsStep
    <2>5. ByLine!Close(n)
      BY <2>3, <2>4, <1>3 DEF ByLine!Close
    <2>. QED
      BY <2>3, <2>5, <1>1, <1>3 DEF IInv, LineStep, ByLine!NextOther
  <1>. QED
    BY <1>2, <1>3 DEF Close

LEMMA GetStep ==
  ASSUME IInv, NEW no \in Numbers, Get(no)
  PROVE  IInv' /\ LineStep
  <1> DEFINE n == Slot(no)
             name == Default[n]
  <1>1. n \in Slots /\ name \in Names /\ Good(disk, s_streams) /\ stdin \in Seq(Char)
    BY SlotFacts DEF IInv
  <1>2. Files = FilesIn(disk, s_streams) /\ Opened = OpenIn(s_streams) /\ Users(name) = On(s_streams, name)
    BY Mapped
  <1>3. CASE ReadStdin
    <2>1. /\ AfterRead(stdin) \in Seq(Char)
          /\ ReadFromStream(stdin) = ByLine!NextLine(Lines(stdin))
          /\ Lines(AfterRead(stdin)) = ByLine!AfterLine(Lines(stdin))
      BY <1>1, ReadsALine
    <2>2. /\ Returns(ReadFromStream(stdin)) /\ stdin' = AfterRead(stdin)
          /\ disk' = disk /\ s_streams' = s_streams
      BY <1>3 DEF ReadStdin
    <2>3. ByLine!Returns(ReadFromStream(stdin))
      BY <2>2, ReturnsStep
    <2>4. Files' = Files /\ Opened' = Opened
      BY <2>2, <1>2, Mapped
    <2>5. ByLine!GetInput
      BY <2>1, <2>2, <2>3, <2>4, Zenon DEF ByLine!GetInput
    <2>. QED
      BY <2>1, <2>2, <2>5, <1>1 DEF IInv, LineStep, ByLine!NextOther
  <1>4. CASE n # 0 /\ FailToOpen(n)
    BY <1>4, EndNow DEF FailToOpen
  <1>5. CASE /\ n # 0 /\ s_streams[n] # NULL
             /\ Returns(ReadFromStream(s_streams[n].rest))
             /\ s_streams' = [s_streams EXCEPT ![n] = [s_streams[n] EXCEPT !.rest = AfterRead(@)]]
             /\ UNCHANGED <<disk, stdin>>
    <2>. HIDE DEF n
    <2>0. Reads(disk, s_streams, n, s_streams')
      BY <1>1, <1>5, Reading
    <2>1. /\ Good(disk, s_streams') /\ FilesIn(disk, s_streams') = FilesIn(disk, s_streams)
          /\ OpenIn(s_streams') = [OpenIn(s_streams) EXCEPT ![n].rest = ByLine!AfterLine(@)]
          /\ ReadFromStream(s_streams[n].rest) = ByLine!NextLine(OpenIn(s_streams)[n].rest)
      BY <2>0, Zenon DEF Reads
    <2>2. disk' = disk /\ stdin' = stdin
      BY <1>5
    <2>3. Files' = Files /\ Opened' = [Opened EXCEPT ![n].rest = ByLine!AfterLine(@)]
      BY <2>1, <2>2, <1>2, Mapped, Zenon
    <2>4. ByLine!Returns(ReadFromStream(s_streams[n].rest))
      BY <1>5, ReturnsStep
    <2>5. Opened[n] # NULL
      <3>1. View(s_streams[n]) # NULL
        BY <1>1, <1>5, ViewFacts
      <3>. QED
        BY <3>1, <1>1, <1>2 DEF OpenIn
    <2>6. ByLine!GetNext(n)
      BY <2>1, <2>2, <2>3, <2>4, <2>5, <1>2, <1>5, Zenon DEF ByLine!GetNext
    <2>. QED
      BY <2>1, <2>2, <2>6, <1>1 DEF IInv, LineStep, ByLine!NextOther
  <1>6. CASE /\ n # 0 /\ s_streams[n] = NULL /\ Free(name, n) /\ Fopens(disk, "r", name)
             /\ Returns(ReadFromStream(OpenNow(n, "r").rest))
             /\ s_streams' = [s_streams EXCEPT ![n] = [OpenNow(n, "r") EXCEPT !.rest = AfterRead(@)]]
             /\ UNCHANGED <<disk, stdin>>
    <2> DEFINE x == FileOn(disk, "r", name)
               s1 == [s_streams EXCEPT ![n] = x]
               view == [mode |-> "r", name |-> name, rest |-> Files[name]]
    <2>1. Fopen(disk, "r", name) = disk
      BY <1>1, <1>6 DEF Fopens, Fopen, Good
    <2>2. OpenNow(n, "r") = x
      BY <2>1, Zenon DEF OpenNow
    <2>3. On(s_streams, name) = {}
      BY <1>2, <1>6 DEF Free, On
    <2>4. "r" \in Mode
      BY DEF Mode
    <2>. HIDE DEF n, name, x, s1
    <2>5. /\ Good(disk, s1) /\ s1[n] = x /\ x \in File
          /\ FilesIn(disk, s1) = IF FilesIn(disk, s_streams)[name] = NoFile
                                 THEN [FilesIn(disk, s_streams) EXCEPT ![name] = NoText]
                                 ELSE FilesIn(disk, s_streams)
          /\ FilesIn(disk, s_streams)[name] # NoFile
          /\ OpenIn(s1) = [OpenIn(s_streams) EXCEPT ![n] =
               [mode |-> "r", name |-> name, rest |-> FilesIn(disk, s_streams)[name]]]
      <3>1. s1 = [s_streams EXCEPT ![n] = x]
        BY DEF s1
      <3>2. Opens(disk, s_streams, n, "r", name, x, disk, s1)
        BY <3>1, <2>1, <2>3, <2>4, <1>1, <1>6, Opening DEF x
      <3>. QED
        BY <3>2 DEF Opens
    <2>6. x # NULL
      BY <2>5, FileFields
    <2>7. s_streams' = [s1 EXCEPT ![n] = [s1[n] EXCEPT !.rest = AfterRead(@)]]
      BY <2>2, <2>5, <1>1, <1>6 DEF s1
    <2>8. /\ Good(disk, s_streams') /\ FilesIn(disk, s_streams') = FilesIn(disk, s1)
          /\ OpenIn(s_streams') = [OpenIn(s1) EXCEPT ![n].rest = ByLine!AfterLine(@)]
          /\ ReadFromStream(s1[n].rest) = ByLine!NextLine(OpenIn(s1)[n].rest)
      <3>1. Reads(disk, s1, n, s_streams')
        BY <2>5, <2>6, <2>7, <1>1, Reading
      <3>. QED
        BY <3>1, Zenon DEF Reads
    <2>9. disk' = disk /\ stdin' = stdin
      BY <1>6
    <2>10. Files' = Files /\ Files[name] # NoFile
      BY <2>5, <2>8, <2>9, <1>2, Mapped
    <2>11. OpenIn(s1) = [Opened EXCEPT ![n] = view]
      BY <2>5, <1>2, Zenon
    <2>12. Opened' = [OpenIn(s1) EXCEPT ![n].rest = ByLine!AfterLine(@)]
      BY <2>8, Mapped, Zenon
    <2>13. n \in DOMAIN Opened
      BY <1>1 DEF Opened
    <2>14. /\ Opened' = [Opened EXCEPT ![n] = [mode |-> "r", name |-> name,
                                                rest |-> ByLine!AfterLine(Files[name])]]
           /\ OpenIn(s1)[n].rest = Files[name]
      <3> DEFINE then == [mode |-> "r", name |-> name, rest |-> ByLine!AfterLine(Files[name])]
                 O1 == OpenIn(s1)
      <3>1. view.rest = Files[name] /\ [view EXCEPT !.rest = ByLine!AfterLine(@)] = then
        OBVIOUS
      <3>. HIDE DEF view, then
      <3>2. O1[n] = view
        BY <2>11, <2>13
      <3>3. [O1 EXCEPT ![n].rest = ByLine!AfterLine(@)] = [O1 EXCEPT ![n] = then]
        BY <3>1, <3>2, Zenon
      <3>4. [O1 EXCEPT ![n] = then] = [Opened EXCEPT ![n] = then]
        BY <2>11
      <3>. QED
        BY <3>1, <3>2, <3>3, <3>4, <2>12, Zenon DEF then
    <2>15. ByLine!Returns(ByLine!NextLine(Files[name]))
      <3>1. Returns(ByLine!NextLine(Files[name]))
        BY <2>2, <2>5, <2>8, <2>14, <1>6, Zenon
      <3>. QED
        BY <3>1, ReturnsStep
    <2>16. Opened[n] = NULL
      BY <1>1, <1>2, <1>6 DEF OpenIn, View
    <2>17. ByLine!GetFirst(n)
      BY <2>9, <2>10, <2>14, <2>15, <2>16, <1>6, Zenon DEF ByLine!GetFirst, name
    <2>. QED
      BY <2>8, <2>9, <2>17, <1>1 DEF IInv, LineStep, ByLine!NextOther
  <1>. QED
    <2>1. CASE s_streams[n] # NULL
      BY <2>1, <1>3, <1>4, <1>5, Zenon DEF Get, OpenedFor
    <2>2. CASE s_streams[n] = NULL
      BY <2>2, <1>3, <1>4, <1>6, Zenon DEF Get, OpenedFor
    <2>. QED
      BY <2>1, <2>2

LEMMA SaysStep ==
  ASSUME NEW channel \in {"stdout", "stderr"}, NEW text, NEW value,
         ReturnsAfter([Silent EXCEPT ![channel] = text], value)
  PROVE  ByLine!Says([ByLine!Silent EXCEPT ![channel] = Lines(text)], value)
  <1>1. Lines(<<>>) = ByLine!Empty
    BY LinesGrow, TextFields
  <1>2. ByLine!Silent = [stdout |-> Lines(<<>>), stderr |-> Lines(<<>>)]
    BY <1>1 DEF ByLine!Silent
  <1>3. /\ console' = [Silent EXCEPT ![channel] = text] /\ result' = value
        /\ outcome = "running" /\ outcome' = outcome
    BY DEF ReturnsAfter, Running
  <1>4. Said' = [ByLine!Silent EXCEPT ![channel] = Lines(text)]
    <2>1. Said' = [stdout |-> Lines(console'.stdout), stderr |-> Lines(console'.stderr)]
      BY DEF Said
    <2> DEFINE t == Lines(text)
               e == Lines(<<>>)
    <2>2. CASE channel = "stdout"
      <3>1. console'.stdout = text /\ console'.stderr = <<>>
        BY <2>2, <1>3 DEF Silent
      <3>2. Said' = [stdout |-> t, stderr |-> e]
        BY <2>1, <3>1, Zenon
      <3>. HIDE DEF t, e
      <3>3. Said' = [[stdout |-> e, stderr |-> e] EXCEPT ![channel] = t]
        BY <2>2, <3>2
      <3>. QED
        BY <3>3, <1>2, Zenon DEF t, e
    <2>3. CASE channel = "stderr"
      <3>1. console'.stdout = <<>> /\ console'.stderr = text
        BY <2>3, <1>3 DEF Silent
      <3>2. Said' = [stdout |-> e, stderr |-> t]
        BY <2>1, <3>1, Zenon
      <3>. HIDE DEF t, e
      <3>3. Said' = [[stdout |-> e, stderr |-> e] EXCEPT ![channel] = t]
        BY <2>3, <3>2
      <3>. QED
        BY <3>3, <1>2, Zenon DEF t, e
    <2>. QED
      BY <2>2, <2>3
  <1>. QED
    BY <1>3, <1>4 DEF ByLine!Says

(* The table and the disk stay as they are. *)
LEMMA SameFiles ==
  ASSUME IInv, UNCHANGED <<disk, s_streams, stdin>>
  PROVE  IInv' /\ Files' = Files /\ Opened' = Opened /\ Lines(stdin)' = Lines(stdin)
  <1>1. disk' = disk /\ s_streams' = s_streams /\ stdin' = stdin
    OBVIOUS
  <1>. QED
    BY <1>1, Mapped, Zenon DEF IInv

LEMMA PutStep ==
  ASSUME IInv, NEW no \in Numbers, NEW expr \in Exprs, NEW function \in PutFunction, Put(function, no, expr)
  PROVE  IInv' /\ LineStep
  <1> DEFINE n == Slot(no)
             name == Default[n]
             text == Written(function, expr)
             value == Kept(function, expr)
  <1>1. n \in Slots /\ name \in Names /\ Good(disk, s_streams) /\ stdin \in Seq(Char)
    BY SlotFacts DEF IInv
  <1>2. text \in Seq(Char)
    BY WrittenIsText
  <1>3. ASSUME ByLine!NextPut(Lines(text), value) PROVE LineStep
    BY <1>3 DEF LineStep
  <1>4. Files = FilesIn(disk, s_streams) /\ Opened = OpenIn(s_streams) /\ Users(name) = On(s_streams, name)
    BY Mapped
  <1>5. CASE /\ n = 0
             /\ ReturnsAfter([Silent EXCEPT !.stderr = text], value)
             /\ UNCHANGED <<disk, s_streams, stdin>>
    <2>. HIDE DEF n, text, value
    <2>1. ByLine!Says([ByLine!Silent EXCEPT !["stderr"] = Lines(text)], value)
      BY <1>5, SaysStep
    <2>2. ByLine!PutConsole("stderr", Lines(text), value)
      BY <2>1, <1>5, SameFiles DEF ByLine!PutConsole
    <2>. QED
      BY <2>2, <1>3, <1>5, SameFiles DEF ByLine!NextPut
  <1>. HIDE DEF n, text, value
  <1>6. CASE /\ n # 0 /\ s_streams[n] = NULL /\ Free(name, n)
             /\ disk' = Fopen(disk, "w", name)
             /\ s_streams' = [s_streams EXCEPT ![n] = [OpenNow(n, "w") EXCEPT !.buf = text]]
             /\ Returns(value)
             /\ UNCHANGED stdin
    <2> DEFINE x == FileOn(disk, "w", name)
               s1 == [s_streams EXCEPT ![n] = x]
    <2>1. OpenNow(n, "w") = x
      BY DEF OpenNow, FileOn
    <2>2. On(s_streams, name) = {}
      BY <1>4, <1>6 DEF Free, On
    <2>3. "w" \in Mode /\ Fopens(disk, "w", name)
      BY DEF Mode, Fopens
    <2>4. s1 = [s_streams EXCEPT ![n] = x]
      OBVIOUS
    <2>5. x.buf = <<>> /\ x.mode = "w" /\ x.name = name
      BY DEF FileOn
    <2>. HIDE DEF name, s1
    <2>6. Opens(disk, s_streams, n, "w", name, x, disk', s1)
      BY <2>2, <2>3, <2>4, <1>1, <1>6, Opening
    <2>. HIDE DEF x
    <2>7. /\ Good(disk', s1) /\ s1[n] = x /\ x # NULL
          /\ FilesIn(disk', s1) = [Files EXCEPT ![name] = NoText]
          /\ OpenIn(s1) = [Opened EXCEPT ![n] = [mode |-> "w", name |-> name, rest |-> NoText]]
      BY <2>6, <1>4 DEF Opens
    <2>8. s_streams' = [s1 EXCEPT ![n].buf = @ \o text]
      <3>1. <<>> \o text = text
        BY <1>2, ConcatEmptySeq
      <3>2. x.buf \o text = text
        BY <3>1, <2>5, Zenon
      <3>3. [x EXCEPT !.buf = @ \o text] = [x EXCEPT !.buf = text]
        BY <3>2, Zenon
      <3>4. [s1 EXCEPT ![n].buf = @ \o text] = [s1 EXCEPT ![n] = [x EXCEPT !.buf = text]]
        BY <3>3, <2>7, Zenon
      <3>5. [s1 EXCEPT ![n] = [x EXCEPT !.buf = text]] = [s_streams EXCEPT ![n] = [x EXCEPT !.buf = text]]
        BY <2>4
      <3>. QED
        BY <3>4, <3>5, <2>1, <1>6, Zenon
    <2>9. Adds(disk', s1, n, text, s_streams')
      BY <2>5, <2>7, <2>8, <1>1, <1>2, Writing
    <2>10. /\ Good(disk', s_streams') /\ Opened' = OpenIn(s1)
           /\ Files' = [FilesIn(disk', s1) EXCEPT ![name] = ByLine!Joined(@, Lines(text))]
      BY <2>5, <2>7, <2>9, Mapped DEF Adds
    <2>11. name \in DOMAIN Files
      BY <1>1 DEF Files
    <2>12. Files' = [Files EXCEPT ![name] = Lines(text)]
      <3> DEFINE F == FilesIn(disk', s1)
                 t == Lines(text)
      <3>1. F = [Files EXCEPT ![name] = NoText] /\ F[name] = NoText
        BY <2>7, <2>11
      <3>2. ByLine!Joined(NoText, t) = t
        BY <1>2, LinesGrow, JoinedToNothing
      <3>. HIDE DEF F, t
      <3>3. Files' = [F EXCEPT ![name] = t]
        BY <3>1, <3>2, <2>10, Zenon DEF F, t
      <3>4. Files' = [Files EXCEPT ![name] = t]
        BY <3>1, <3>3
      <3>. QED
        BY <3>4 DEF t
    <2>13. Opened' = [Opened EXCEPT ![n] = [mode |-> "w", name |-> name, rest |-> ByLine!Empty]]
      BY <2>7, <2>10, TextFields, Zenon
    <2>14. Opened[n] = NULL
      BY <1>1, <1>4, <1>6 DEF OpenIn, View
    <2>15. ByLine!Returns(value)
      BY <1>6, ReturnsStep
    <2>16. ByLine!PutFirst(n, Lines(text), value)
      BY <2>12, <2>13, <2>14, <2>15, <1>6, Zenon DEF ByLine!PutFirst, name
    <2>17. LineStep
      BY <2>16, <1>1, <1>3 DEF ByLine!NextPut
    <2>. QED
      BY <2>10, <2>17, <1>1, <1>6 DEF IInv
  <1>7. CASE /\ n # 0 /\ s_streams[n] # NULL /\ (s_streams[n].mode # "r" \/ text = <<>>)
             /\ s_streams' = [s_streams EXCEPT ![n].buf = @ \o text]
             /\ Returns(value)
             /\ UNCHANGED <<disk, stdin>>
    <2>1. Adds(disk, s_streams, n, text, s_streams')
      BY <1>1, <1>2, <1>7, Writing
    <2>2. disk' = disk /\ stdin' = stdin
      BY <1>7
    <2>3. /\ Good(disk', s_streams') /\ Opened' = Opened
          /\ Files' = [Files EXCEPT ![s_streams[n].name] = ByLine!Joined(@, Lines(text))]
      BY <2>1, <2>2, <1>4, Mapped, Zenon DEF Adds
    <2>4. /\ Opened[n] # NULL /\ Opened[n].mode = s_streams[n].mode /\ Opened[n].name = s_streams[n].name
      <3>1. Opened[n] = View(s_streams[n])
        BY <1>1, <1>4, Zenon DEF OpenIn
      <3>. QED
        BY <3>1, <1>1, <1>7, ViewFacts
    <2>5. ByLine!Writes(n) \/ Lines(text) = ByLine!Empty
      BY <2>4, <1>7, LinesGrow, TextFields DEF ByLine!Writes
    <2>6. ByLine!Returns(value)
      BY <1>7, ReturnsStep
    <2>7. ByLine!PutNext(n, Lines(text), value)
      BY <2>2, <2>3, <2>4, <2>5, <2>6, <1>7, Zenon DEF ByLine!PutNext
    <2>8. LineStep
      BY <2>7, <1>1, <1>3 DEF ByLine!NextPut
    <2>. QED
      BY <2>2, <2>3, <2>8, <1>1 DEF IInv
  <1>8. CASE /\ s_streams[n] # NULL /\ s_streams[n].mode = "r"
             /\ Exit(disk, [s_streams EXCEPT ![n].buf = <<>>], "error")
    <2>1. s_streams[n] \in File /\ s_streams[n].buf = <<>>
      BY <1>1, <1>8 DEF Good
    <2> DEFINE y == s_streams[n]
    <2>2. [y EXCEPT !.buf = <<>>] = y
      BY <2>1 DEF File
    <2>3. [s_streams EXCEPT ![n].buf = <<>>] = [s_streams EXCEPT ![n] = y]
      BY <2>2, Zenon
    <2>4. [s_streams EXCEPT ![n] = y] = s_streams
      BY <1>1 DEF Good
    <2>. QED
      BY <2>3, <2>4, <1>8, EndNow
  <1>9. CASE /\ s_streams[n] # NULL /\ s_streams[n].mode # "r" /\ MayFail
             /\ Exit(disk, [s_streams EXCEPT ![n].buf = @ \o text], "error")
    <2> DEFINE s1 == [s_streams EXCEPT ![n].buf = @ \o text]
    <2>1. s1 = [s_streams EXCEPT ![n].buf = @ \o text] /\ Exit(disk, s1, "error")
      BY <1>9
    <2>2. \A g \in Names : IsWritten(s1, g) => IsWritten(s_streams, g)
      <3>1. s_streams[n] \in File
        BY <1>1, <1>9 DEF Good
      <3> DEFINE x == [s_streams[n] EXCEPT !.buf = @ \o text]
      <3>2. x.mode = s_streams[n].mode /\ x.name = s_streams[n].name
        BY <3>1 DEF File
      <3>3. s1 = [s_streams EXCEPT ![n] = x]
        BY Zenon
      <3>. HIDE DEF x, s1
      <3>4. s1[n] = x /\ \A m \in Slots \ {n} : s1[m] = s_streams[m]
        BY <3>3, <1>1 DEF Good
      <3>5. ASSUME NEW g, IsWritten(s1, g) PROVE IsWritten(s_streams, g)
        <4>1. PICK m \in Slots : s1[m] # NULL /\ s1[m].mode # "r" /\ s1[m].name = g
          BY <3>5 DEF IsWritten
        <4>2. s_streams[m] # NULL /\ s_streams[m].mode # "r" /\ s_streams[m].name = g
          BY <4>1, <3>2, <3>4, <1>9
        <4>. QED
          BY <4>2 DEF IsWritten
      <3>. QED
        BY <3>5
    <2>. HIDE DEF s1
    <2>3. Adds(disk, s_streams, n, text, s1)
      BY <2>1, <1>1, <1>2, <1>9, Writing
    <2>4. \A f \in Names : FilesIn(disk, s1)[f] # Files[f] => f = s_streams[n].name
      BY <2>3, <1>4 DEF Adds, FilesIn
    <2>5. \A f \in Names : FilesIn(disk, s1)[f] # Files[f] => MayFail /\ IsWritten(s_streams, f)
      BY <2>4, <1>1, <1>9 DEF IsWritten
    <2>. QED
      BY <2>1, <2>2, <2>3, <2>5, EndStep DEF Adds
  <1>10. CASE n # 0 /\ PutInto(n, text, value)
    <2>1. CASE /\ s_streams[n] # NULL /\ text # <<>>
               /\ s_streams[n].mode = "r" \/ (MayFail /\ Size(n) + Len(text) <= MaxText)
               /\ Exit(disk, [s_streams EXCEPT ![n].buf = IF s_streams[n].mode = "r" THEN <<>> ELSE @ \o text],
                       "error")
      <3>1. CASE s_streams[n].mode = "r"
        BY <3>1, <2>1, <1>8, Zenon
      <3>2. CASE s_streams[n].mode # "r"
        BY <3>2, <2>1, <1>9, Zenon
      <3>. QED
        BY <3>1, <3>2
    <2>. QED
      BY <2>1, <1>6, <1>7, <1>10, Zenon DEF PutInto, name
  <1>. QED
    BY <1>5, <1>10 DEF Put, n, text, value

LEMMA PutOutStep ==
  ASSUME IInv, NEW expr \in Exprs, NEW function \in {"Print", "Prout"}, PutOut(function, expr)
  PROVE  IInv' /\ LineStep
  <1> DEFINE text == Written(function, expr)
             value == Kept(function, expr)
  <1>1. ReturnsAfter([Silent EXCEPT !.stdout = text], value) /\ UNCHANGED <<disk, s_streams, stdin>>
    BY DEF PutOut
  <1>2. ASSUME ByLine!PutConsole("stdout", Lines(text), value) PROVE LineStep
    BY <1>2 DEF LineStep
  <1>. HIDE DEF text, value
  <1>3. ByLine!Says([ByLine!Silent EXCEPT !["stdout"] = Lines(text)], value)
    BY <1>1, SaysStep
  <1>4. ByLine!PutConsole("stdout", Lines(text), value)
    BY <1>1, <1>3, SameFiles DEF ByLine!PutConsole
  <1>. QED
    BY <1>1, <1>2, <1>4, SameFiles

(* A file that is not open. *)
LEMMA FileAtRest ==
  ASSUME IInv, NEW f \in Names
  PROVE  /\ Files[f] = NoFile <=> disk[f] = NoFile
         /\ Users(f) = {} => Files[f] = Plain(disk, f)
  <1>1. Files[f] = WholeIn(disk, s_streams, f) /\ Users(f) = On(s_streams, f)
    BY Mapped DEF FilesIn
  <1>. QED
    BY <1>1, WholeFacts DEF IInv

LEMMA LoadFileStep ==
  ASSUME IInv, NEW f \in Names, LoadFile(f)
  PROVE  IInv' /\ LineStep
  <1>1. CASE /\ disk[f] # NoFile /\ Returns(Loaded(disk[f]))
             /\ UNCHANGED <<disk, s_streams, stdin>>
    <2> DEFINE all == Files[f].lines \o (IF Files[f].last = <<>> THEN <<>> ELSE <<Files[f].last>>)
    <2>1. Files[f] = Lines(disk[f]) /\ Files[f] # NoFile
      BY <1>1, FileAtRest DEF LoadFile, Plain
    <2>2. Loaded(disk[f]) = Flat(all)
      <3>1. disk[f] \in Seq(Char)
        BY <1>1 DEF IInv, Good
      <3>. QED
        BY <2>1, <3>1, LoadsTheLines, Zenon
    <2>. HIDE DEF all
    <2>3. ByLine!Returns(ByLine!FlattenSeq([k \in 1 .. Len(all) |-> <<Left>> \o all[k] \o <<Right>>]))
      <3> DEFINE lines == [k \in 1 .. Len(all) |-> <<Left>> \o all[k] \o <<Right>>]
      <3>0. Flat(all) = FlattenSeq(lines)
        BY Zenon DEF Flat, Framed
      <3>. HIDE DEF lines
      <3>2. FlattenSeq(lines) = ByLine!FlattenSeq(lines)
        BY Zenon DEF FlattenSeq, ByLine!FlattenSeq
      <3>1. Returns(ByLine!FlattenSeq(lines))
        BY <1>1, <2>2, <3>0, <3>2, Zenon
      <3>. USE DEF lines
      <3>. QED
        BY <3>1, ReturnsStep
    <2>4. ByLine!LoadFile(f)
      BY <1>1, <2>1, <2>3, SameFiles, Zenon DEF ByLine!LoadFile, all
    <2>. QED
      BY <1>1, <2>4, SameFiles DEF LineStep, ByLine!NextOther
  <1>2. CASE Exit(disk, s_streams, "error")
    BY <1>2, EndNow
  <1>. QED
    BY <1>1, <1>2 DEF LoadFile

LEMMA ExistFileStep ==
  ASSUME IInv, NEW f \in Names, ExistFile(f)
  PROVE  IInv' /\ LineStep
  <1>1. Returns(<<Truth(Fopens(disk, "r", f))>>) /\ UNCHANGED <<disk, s_streams, stdin>>
    BY DEF ExistFile
  <1>2. Truth(Fopens(disk, "r", f)) = ByLine!Truth(Files[f] # NoFile)
    BY FileAtRest DEF Fopens, Truth, ByLine!Truth
  <1>3. ByLine!Returns(<<ByLine!Truth(Files[f] # NoFile)>>)
    BY <1>1, <1>2, ReturnsStep, Zenon
  <1>4. ByLine!ExistFile(f)
    BY <1>1, <1>3, SameFiles DEF ByLine!ExistFile
  <1>. QED
    BY <1>1, <1>4, SameFiles DEF LineStep, ByLine!NextOther

LEMMA RemoveFileStep ==
  ASSUME IInv, NEW f \in Names, RemoveFile(f)
  PROVE  IInv' /\ LineStep
  <1>1. /\ Users(f) = {} /\ Returns(<<Truth(disk[f] # NoFile)>>)
        /\ disk' = [disk EXCEPT ![f] = NoFile] /\ s_streams' = s_streams /\ stdin' = stdin
    BY DEF RemoveFile
  <1>2. Truth(disk[f] # NoFile) = ByLine!Truth(Files[f] # NoFile)
    BY FileAtRest DEF Truth, ByLine!Truth
  <1>3. ByLine!Returns(<<ByLine!Truth(Files[f] # NoFile)>>)
    BY <1>1, <1>2, ReturnsStep, Zenon
  <1>4. /\ Good(disk, s_streams) /\ stdin \in Seq(Char) /\ On(s_streams, f) = {}
        /\ Files = FilesIn(disk, s_streams) /\ Files' = FilesIn(disk', s_streams)
        /\ Opened = OpenIn(s_streams) /\ Opened' = OpenIn(s_streams)
    BY <1>1, Mapped DEF IInv
  <1>5. disk'[f] = NoFile /\ \A g \in Names : g # f => disk'[g] = disk[g]
    BY <1>1, <1>4 DEF Good
  <1>6. Good(disk', s_streams)
    <2>1. \A n \in Slots : s_streams[n] # NULL => s_streams[n].name # f /\ s_streams[n].name \in Names
      BY <1>4, FileFields DEF On, Good
    <2>. QED
      BY <2>1, <1>1, <1>4, <1>5 DEF Good
  <1>7. WholeIn(disk', s_streams, f) = NoFile
    BY <1>5, <1>6, WholeFacts
  <1>8. ASSUME NEW g \in Names, g # f PROVE WholeIn(disk', s_streams, g) = WholeIn(disk, s_streams, g)
    <2>1. disk'[g] = disk[g]
      BY <1>5, <1>8
    <2>. QED
      BY <2>1, Zenon DEF WholeIn
  <1>9. Files' = [Files EXCEPT ![f] = NoFile]
    BY <1>4, <1>7, <1>8 DEF FilesIn
  <1>10. ByLine!RemoveFile(f)
    BY <1>1, <1>3, <1>4, <1>9 DEF ByLine!RemoveFile
  <1>. QED
    BY <1>1, <1>4, <1>6, <1>10 DEF IInv, LineStep, ByLine!NextOther

LEMMA FlushStep ==
  ASSUME IInv, Flush
  PROVE  IInv' /\ UNCHANGED ByLine!avars
  <1>1. PICK n \in Slots : /\ Pending(n) /\ disk' = Fclose(disk, n)
                           /\ s_streams' = [s_streams EXCEPT ![n].buf = <<>>]
    BY DEF Flush
  <1>2. stdin' = stdin /\ console' = console /\ outcome' = outcome /\ result' = result
    BY DEF Flush
  <1>3. Good(disk, s_streams) /\ s_streams[n] # NULL /\ disk' = ClosedIn(disk, s_streams, n)
    BY <1>1, Mapped DEF IInv, Waits
  <1>4. Good(disk', s_streams') /\ FilesIn(disk', s_streams') = FilesIn(disk, s_streams)
        /\ OpenIn(s_streams') = OpenIn(s_streams)
    <2>1. Keeps(disk, s_streams, disk', s_streams')
      BY <1>1, <1>3, Flushing
    <2>. QED
      BY <2>1, Zenon DEF Keeps
  <1>5. Files' = Files /\ Opened' = Opened
    BY <1>4, Mapped
  <1>6. Said' = Said
    BY <1>2 DEF Said
  <1>. QED
    BY <1>2, <1>4, <1>5, <1>6 DEF IInv, ByLine!avars

-----------------------------------------------------------------------------
(* The theorems.                                                            *)

LEMMA InitSound ==
  Init => IInv /\ ByLine!Init(Lines(Input))
  <1>. SUFFICES ASSUME Init PROVE IInv /\ ByLine!Init(Lines(Input))
    OBVIOUS
  <1>1. /\ disk = [f \in Names |-> NoFile] /\ s_streams = [n \in Slots |-> NULL]
        /\ stdin = Input /\ console = Silent /\ outcome = "running" /\ result = <<>>
    BY DEF Init
  <1>2. IInv
    BY <1>1, TextAssumption DEF IInv, Good
  <1>3. Files = [f \in Names |-> NoFile]
    BY <1>1 DEF Files, Whole
  <1>4. Opened = [n \in Slots |-> NULL]
    BY <1>1 DEF Opened, View
  <1>5. Said = ByLine!Silent
    <2>1. console.stdout = <<>> /\ console.stderr = <<>> /\ Lines(<<>>) = ByLine!Empty
      BY <1>1, LinesGrow, TextFields DEF Silent
    <2>. QED
      BY <2>1, Zenon DEF Said, ByLine!Silent
  <1>. QED
    BY <1>1, <1>2, <1>3, <1>4, <1>5 DEF ByLine!Init

\* Every step that is not the writing out of a buffer is a step of LineFiles.
LEMMA NextStep ==
  IInv /\ [Next]_svars => IInv' /\ [LineStep]_(ByLine!avars)
  <1>. SUFFICES ASSUME IInv, [Next]_svars PROVE IInv' /\ [LineStep]_(ByLine!avars)
    OBVIOUS
  <1>1. ASSUME NEW no \in Numbers, NEW mode \in Mode, OpenNumbered(no, mode)
        PROVE  IInv' /\ LineStep
    <2>1. Open(no, mode, Default[Slot(no)]) /\ Default[Slot(no)] \in Names
      BY <1>1, SlotFacts DEF OpenNumbered
    <2>. QED
      BY <2>1, OpenStep
  <1>2. ASSUME NEW no \in Numbers, NEW mode \in Mode, NEW f \in Names, Open(no, mode, f)
        PROVE  IInv' /\ LineStep
    BY <1>2, OpenStep
  <1>3. ASSUME NEW no \in Numbers, Close(no) \/ Get(no)
        PROVE  IInv' /\ LineStep
    BY <1>3, CloseStep, GetStep
  <1>4. ASSUME NEW no \in Numbers, NEW expr \in Exprs, NEW function \in PutFunction, Put(function, no, expr)
        PROVE  IInv' /\ LineStep
    BY <1>4, PutStep
  <1>5. ASSUME NEW expr \in Exprs, NEW function \in {"Print", "Prout"}, PutOut(function, expr)
        PROVE  IInv' /\ LineStep
    BY <1>5, PutOutStep
  <1>6. ASSUME NEW f \in Names, LoadFile(f) \/ ExistFile(f) \/ RemoveFile(f)
        PROVE  IInv' /\ LineStep
    BY <1>6, LoadFileStep, ExistFileStep, RemoveFileStep
  <1>7. CASE Flush
    BY <1>7, FlushStep
  <1>8. CASE Reject \/ Finish
    BY <1>8, EndNow DEF Reject, Finish
  <1>9. CASE UNCHANGED svars
    <2>1. /\ disk' = disk /\ s_streams' = s_streams /\ stdin' = stdin
          /\ console' = console /\ outcome' = outcome /\ result' = result
      BY <1>9 DEF svars
    <2>2. IInv' /\ Files' = Files /\ Opened' = Opened
      BY <2>1, SameFiles
    <2>3. Said' = Said
      BY <2>1 DEF Said
    <2>. QED
      BY <2>1, <2>2, <2>3 DEF ByLine!avars
  <1>. QED
    BY <1>1, <1>2, <1>3, <1>4, <1>5, <1>6, <1>7, <1>8, <1>9 DEF Next

(* No two numbers share a file, a file that is open is there, and nothing waits to be
   written in a FILE opened for reading. *)
THEOREM StreamsSound == Spec => []Good(disk, s_streams)
  <1>1. Init => IInv
    BY InitSound
  <1>2. IInv /\ [Next]_svars => IInv'
    BY NextStep
  <1>3. IInv => Good(disk, s_streams)
    BY DEF IInv
  <1>. QED
    BY <1>1, <1>2, <1>3, PTL DEF Spec

(* The table, the buffers of stdio and the loops over chars implement files of lines. *)
THEOREM StreamsImplementLines == Spec => ImplementsLineFiles
  <1>1. Init => IInv /\ ByLine!Init(Lines(Input))
    BY InitSound
  <1>2. IInv /\ [Next]_svars => IInv' /\ [LineStep]_(ByLine!avars)
    BY NextStep
  <1>. QED
    BY <1>1, <1>2, PTL DEF Spec, ImplementsLineFiles, LineStep
=============================================================================
