---------------------------- MODULE GeneratedCode ----------------------------
(***************************************************************************)
(* What the commands of a compiled sentence do: the matching and building  *)
(* functions of refal05rts.c that generated C code calls, and the loops    *)
(* the code makes around them.                                             *)
(***************************************************************************)
EXTENDS NodeMemory, SentenceCompiler

-----------------------------------------------------------------------------
(* Matching.  p is the array of positions of the sentence; an operation     *)
(* returns the array it leaves, or {} when it returns 0.                    *)

Between(m, left, right) == LET path == Path(m, left, right) IN SubSeq(path, 2, Len(path) - 1)

Span(m, first, last) == Between(m, m.prev[first], m.next[last])

Store(p, at, x)     == {[p EXCEPT ![at] = x]}
Store2(p, at, x, y) == {[p EXCEPT ![at] = x, ![at + 1] = y]}

EqualNodes(m, x, y) ==
  /\ m.tag[x] = m.tag[y]
  /\ m.tag[x] \in {"open_bracket", "close_bracket"} \/ m.info[x] = m.info[y]

\* r05_repeated_tevar_left and _right: the sample must be a prefix (suffix) of the hole.
RepeatedTevar(m, p, c) ==
  LET hole   == Between(m, p[c.l], p[c.r])
      sample == Span(m, p[c.what.sample], p[c.what.sample + 1])
      n      == Len(sample)
      skip   == IF c.dir = "LEFT" THEN 0 ELSE Len(hole) - n
      equal  == /\ n <= Len(hole)
                /\ \A i \in 1 .. n : EqualNodes(m, hole[skip + i], sample[i])
      \* The hole with its limits, so that an empty sample gives a range that is empty.
      whole  == <<p[c.l]>> \o hole \o <<p[c.r]>>
  IN  IF equal THEN Store2(p, c.to, whole[skip + 2], whole[skip + n + 1]) ELSE {}

\* The r05_..._left and r05_..._right functions: x is the neighbour of the limit on one
\* side of the hole, which is not empty unless x is the limit on the other.
MatchTerm(m, p, c) ==
  LET left == c.dir = "LEFT"
      x    == IF left THEN m.next[p[c.l]] ELSE m.prev[p[c.r]]
      some == x # (IF left THEN p[c.r] ELSE p[c.l])
      near == IF left THEN "open_bracket" ELSE "close_bracket"
      pair == IF left THEN Store2(p, c.to, x, m.info[x]) ELSE Store2(p, c.to, m.info[x], x)
      what == c.what
  IN  CASE what.type = "symbol" ->
             IF some /\ m.tag[x] = what.tag /\ m.info[x] = what.val THEN Store(p, c.to, x) ELSE {}
        [] what.type = "brackets" -> IF some /\ m.tag[x] = near THEN pair ELSE {}
        [] what.type = "s" -> IF some /\ m.tag[x] # near THEN Store(p, c.to, x) ELSE {}
        [] what.type = "t" ->
             IF some
             THEN IF m.tag[x] = near THEN pair ELSE Store2(p, c.to, x, x)
             ELSE {}
        [] what.type = "repeated" /\ what.mode = "s" ->
             IF some /\ EqualNodes(m, x, p[what.sample]) THEN Store(p, c.to, x) ELSE {}
        [] what.type = "repeated" /\ what.mode # "s" -> RepeatedTevar(m, p, c)

\* r05_open_evar_advance: one more term from the hole.
Advance(m, p, c) ==
  LET x == m.next[p[c.to + 1]]
  IN  IF x = p[c.r]
      THEN {}
      ELSE Store(p, c.to + 1, IF m.tag[x] = "open_bracket" THEN m.info[x] ELSE x)

RECURSIVE RunMatch(_, _, _, _), OpenLoop(_, _, _, _)

\* The commands from the i-th on.  A failed match goes on with the innermost loop of an
\* open e-variable, which tries a longer value.
RunMatch(m, cmds, i, p) ==
  IF i > Len(cmds)
  THEN {p}
  ELSE LET c == cmds[i]
       IN  CASE c.op = "match" ->
                  (LET q == MatchTerm(m, p, c)
                   IN  IF q = {} THEN {} ELSE RunMatch(m, cmds, i + 1, CHOOSE x \in q : TRUE))
             [] c.op = "empty" ->
                  IF m.next[p[c.l]] = p[c.r] THEN RunMatch(m, cmds, i + 1, p) ELSE {}
             [] c.op = "closed" ->
                  RunMatch(m, cmds, i + 1, [p EXCEPT ![c.to] = m.next[p[c.l]], ![c.to + 1] = m.prev[p[c.r]]])
             [] c.op = "opened" ->
                  OpenLoop(m, cmds, i, [p EXCEPT ![c.to] = m.next[p[c.l]], ![c.to + 1] = p[c.l]])

OpenLoop(m, cmds, i, p) ==
  LET found == RunMatch(m, cmds, i + 1, p)
      more  == Advance(m, p, cmds[i])
  IN  IF found # {} \/ more = {} THEN found ELSE OpenLoop(m, cmds, i, CHOOSE q \in more : TRUE)

\* p[0] and p[1] are the ends of the argument (CmdInitHole0).
Matched(m, sentence, begin, end) ==
  RunMatch(m, sentence.match, 1,
           [i \in 0 .. sentence.size - 1 |->
             IF i = 0 THEN m.next[begin] ELSE IF i = 1 THEN end ELSE NULL])

-----------------------------------------------------------------------------
(* Building.                                                                *)

\* r05_alloc_tevar: the copies of open brackets wait for their pair on a stack.
AllocTevar(m, first, last) ==
  LET Copy(st, x) ==
        LET tag  == m.tag[x]
            made == AllocNode(st.mem, tag, IF tag = "open_bracket" THEN st.open ELSE m.info[x])
            copy == LastAllocated(made)
        IN  CASE st.mem.exit # 0 \/ made.exit # 0 -> [st EXCEPT !.mem = made]
              [] tag = "open_bracket"  -> [mem |-> made, open |-> copy]
              [] tag = "close_bracket" -> [mem |-> LinkBrackets(made, st.open, copy), open |-> made.info[st.open]]
              [] OTHER -> [st EXCEPT !.mem = made]
  IN  FoldLeft(Copy, [mem |-> m, open |-> NULL], Span(m, first, last)).mem

\* One command of the result; st is the memory and the array p.
Perform(st, c) ==
  LET m == st.mem
      p == st.p
      Becomes(n)    == [st EXCEPT !.mem = n]
      Saves(n, x)   == [mem |-> n, p |-> [p EXCEPT ![c.to] = x]]
      evar          == CorrectEvar(m, <<p[c.at], p[c.at + 1]>>)
  IN  IF m.exit # 0
      THEN st
      ELSE CASE c.op = "symbol"   -> Becomes(AllocNode(m, c.tag, c.val))
             [] c.op = "bracket"  ->
                  (LET n == AllocNode(m, c.tag, NULL) IN Saves(n, LastAllocated(n)))
             [] c.op = "save_pos" -> (LET n == InsertPos(m) IN Saves(n, n.free))
             [] c.op = "copy" ->
                  (LET x == p[c.sample]
                   IN  Becomes(IF c.mode = "s"
                               THEN AllocNode(m, m.tag[x], m.info[x])
                               ELSE AllocTevar(m, x, p[c.sample + 1])))
             [] c.op = "link"    -> Becomes(LinkBrackets(m, p[c.left], p[c.right]))
             [] c.op = "push"    -> Becomes(PushStack(m, p[c.at]))
             [] c.op = "correct" ->
                  IF c.mode = "e" THEN [st EXCEPT !.p[c.at] = evar[1], !.p[c.at + 1] = evar[2]] ELSE st
             [] c.op = "insert"  -> Becomes(SpliceTevar(m, p[c.pos], <<p[c.at], p[c.at + 1]>>))

\* CmdReturnResult; every function that finishes normally ends with these moves.
ReturnResult(m, begin, end) == SpliceToFreelist(SpliceFromFreelist(m, begin), begin, end)

Built(m, sentence, p) == FoldLeft(Perform, [mem |-> ResetAllocator(m), p |-> p], sentence.build).mem

\* The first sentence that matches, and the positions it leaves; {} when none does.
FirstMatch(m, sentences, begin, end) ==
  LET matched == [k \in DOMAIN sentences |-> Matched(m, sentences[k], begin, end)]
      ok      == {k \in DOMAIN sentences : matched[k] # {}}
  IN  {[sentence |-> sentences[k], p |-> CHOOSE p \in matched[k] : TRUE] :
         k \in {i \in ok : \A j \in ok : i <= j}}
=============================================================================
