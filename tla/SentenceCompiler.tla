-------------------------- MODULE SentenceCompiler --------------------------
(***************************************************************************)
(* How the compiler turns a sentence into commands (R05-Generator.ref).    *)
(* GenPattern works on holes: parts of the argument between two elements   *)
(* of the array p that are matched with a part of the pattern.  GenResult  *)
(* makes the commands that build the result: first the allocations, then   *)
(* the links, the call stack and the moves.                                *)
(***************************************************************************)
EXTENDS RefalSyntax

\* Commands are records; "to" is the element of p where a command stores what it finds.
Match(dir, hole, to, what)  == [op |-> "match", dir |-> dir, l |-> hole.l, r |-> hole.r, to |-> to, what |-> what]
Empty(hole)                 == [op |-> "empty", l |-> hole.l, r |-> hole.r]
ClosedE(hole, to)           == [op |-> "closed", l |-> hole.l, r |-> hole.r, to |-> to]
OpenedE(hole, to)           == [op |-> "opened", l |-> hole.l, r |-> hole.r, to |-> to]
AllocSymbol(item)           == [op |-> "symbol", tag |-> item.tag, val |-> item.val]
AllocBracket(tag, to)       == [op |-> "bracket", tag |-> tag, to |-> to]
SavePos(to)                 == [op |-> "save_pos", to |-> to]
CopyVar(mode, sample)       == [op |-> "copy", mode |-> mode, sample |-> sample]
LinkPair(left, right)       == [op |-> "link", left |-> left, right |-> right]
Push(at)                    == [op |-> "push", at |-> at]
CorrectVar(mode, at)        == [op |-> "correct", mode |-> mode, at |-> at]
InsertVar(pos, at)          == [op |-> "insert", pos |-> pos, at |-> at]

-----------------------------------------------------------------------------
(* GenPattern.                                                              *)

Hole(l, items, r) == [l |-> l, items |-> items, r |-> r]

\* A variable that has been met: where its first value is, and the values not moved yet.
Known(v, at) == [var |-> v, sample |-> at, insts |-> <<at>>]

VarSize(mode) == IF mode = "s" THEN 1 ELSE 2

IndexOf(vars, v) == SelectInSeq(vars, LAMBDA k : k.var = v)

\* The clauses of DoGenPattern, first to last: what they take, and from which side.
Clauses ==
  << <<"symbol", "LEFT">>, <<"symbol", "RIGHT">>, <<"brackets", "LEFT">>, <<"brackets", "RIGHT">>,
     <<"empty", "LEFT">>, <<"repeated", "LEFT">>, <<"repeated", "RIGHT">>, <<"closed", "LEFT">>,
     <<"s", "LEFT">>, <<"t", "LEFT">>, <<"s", "RIGHT">>, <<"t", "RIGHT">>, <<"e", "LEFT">> >>

\* The item at the side dir of a hole, and the hole without it.
EndItem(hole, dir) == IF dir = "LEFT" THEN Head(hole.items) ELSE Last(hole.items)
RestOf(hole, dir)  == IF dir = "LEFT" THEN Tail(hole.items) ELSE Front(hole.items)

Applies(clause, hole, vars) ==
  IF hole.items = <<>>
  THEN clause[1] = "empty"
  ELSE LET x   == EndItem(hole, clause[2])
           new == x.tag = "var" /\ IndexOf(vars, x) = 0
       IN  CASE clause[1] = "symbol"   -> x.tag \notin {"var", "brackets"}
             [] clause[1] = "brackets" -> x.tag = "brackets"
             [] clause[1] = "empty"    -> FALSE
             [] clause[1] = "repeated" -> x.tag = "var" /\ ~new
             [] clause[1] = "closed"   -> Len(hole.items) = 1 /\ new /\ x.mode = "e"
             [] OTHER                  -> new /\ x.mode = clause[1]

\* What is left of a hole whose item at side dir was stored in elements first..last of p.
Shrink(hole, dir, first, last) ==
  IF dir = "LEFT" THEN Hole(last, RestOf(hole, dir), hole.r) ELSE Hole(hole.l, RestOf(hole, dir), first)

\* The effect of a clause on hole h, with the next free element of p: the holes that
\* replace it, the elements used, the variables known and the command.
Take(clause, h, n, vars) ==
  LET dir  == clause[2]
      x    == EndItem(h, dir)
      size == IF x.tag = "brackets" THEN 2 ELSE IF x.tag = "var" THEN VarSize(x.mode) ELSE 1
      rest == Shrink(h, dir, n, n + size - 1)
      sub  == Hole(n, x.items, n + 1)
      i    == IndexOf(vars, x)
      Result(holes, used, known, cmd) == [holes |-> holes, used |-> used, vars |-> known, cmd |-> cmd]
  IN  CASE clause[1] = "symbol" ->
             Result(<<rest>>, 1, vars, Match(dir, h, n, [type |-> "symbol", tag |-> x.tag, val |-> x.val]))
        [] clause[1] = "brackets" ->
             Result(IF dir = "LEFT" THEN <<sub, rest>> ELSE <<rest, sub>>, 2, vars,
                    Match(dir, h, n, [type |-> "brackets"]))
        [] clause[1] = "empty" -> Result(<<>>, 0, vars, Empty(h))
        [] clause[1] = "repeated" ->
             Result(<<rest>>, size, [vars EXCEPT ![i].insts = Append(@, n)],
                    Match(dir, h, n, [type |-> "repeated", mode |-> x.mode, sample |-> vars[i].sample]))
        [] clause[1] = "closed" -> Result(<<>>, 2, Append(vars, Known(x, n)), ClosedE(h, n))
        [] clause[1] = "e" -> Result(<<rest>>, 2, Append(vars, Known(x, n)), OpenedE(h, n))
        [] OTHER ->
             Result(<<rest>>, size, Append(vars, Known(x, n)), Match(dir, h, n, [type |-> clause[1]]))

\* The first clause that applies to a hole, at the leftmost hole it applies to, until no
\* hole is left.
RECURSIVE DoGenPattern(_, _, _, _)
DoGenPattern(n, holes, vars, cmds) ==
  IF holes = <<>>
  THEN [stack |-> n, vars |-> vars, cmds |-> cmds]
  ELSE LET clause == SelectSeq(Clauses, LAMBDA c : \E i \in 1 .. Len(holes) : Applies(c, holes[i], vars))[1]
           at     == SelectInSeq(holes, LAMBDA h : Applies(clause, h, vars))
           taken  == Take(clause, holes[at], n, vars)
       IN  DoGenPattern(n + taken.used, SubSeq(holes, 1, at - 1) \o taken.holes \o From(holes, at + 1), taken.vars, Append(cmds, taken.cmd))

GenPattern(pattern) == DoGenPattern(2, <<Hole(0, pattern, 1)>>, <<>>, <<>>)

-----------------------------------------------------------------------------
(* GenResult: one pass over the result, brackets and calls included.        *)

\* Mutant of CallCommands: the stack commands of a call come after those of the calls to its left.
CallCommandsInTextOrder(open, close, other) == other \o <<Push(close), Push(open)>>

\* The commands of what follows come first: a call that ends later is pushed earlier, and
\* is popped later.
CallCommands(open, close, other) == <<Push(close), Push(open)>> \o other

AddToResult(st, x) ==
  LET n == st.stack
      i == IndexOf(st.vars, x)
      v == st.vars[i]
      saved == st.alloc # <<>> /\ Last(st.alloc).op = "save_pos"
      pos   == IF saved THEN Last(st.alloc).to ELSE n
  IN  CASE IsOpen(x.tag) ->
             [st EXCEPT !.stack = n + 1, !.opens = <<n>> \o @, !.alloc = Append(@, AllocBracket(x.tag, n))]
        [] x.tag = "close_bracket" ->
             [st EXCEPT !.stack = n + 1, !.opens = Tail(@), !.alloc = Append(@, AllocBracket(x.tag, n)),
                        !.other = <<LinkPair(Head(st.opens), n)>> \o @]
        [] x.tag = "close_call" ->
             [st EXCEPT !.stack = n + 1, !.opens = Tail(@), !.alloc = Append(@, AllocBracket(x.tag, n)),
                        !.other = CallCommands(Head(st.opens), n, @)]
        [] x.tag = "var" /\ (x.mode = "s" \/ v.insts = <<>>) ->
             [st EXCEPT !.alloc = Append(@, CopyVar(x.mode, v.sample))]
        [] x.tag = "var" /\ x.mode # "s" /\ v.insts # <<>> ->
             [st EXCEPT !.stack = IF saved THEN n ELSE n + 1,
                        !.vars[i].insts = Tail(@),
                        !.alloc = IF saved THEN @ ELSE Append(@, SavePos(n)),
                        !.other = <<CorrectVar(x.mode, Head(v.insts))>> \o @
                                  \o <<InsertVar(pos, Head(v.insts))>>]
        [] OTHER -> [st EXCEPT !.alloc = Append(@, AllocSymbol(x))]

GenResult(n, vars, result) ==
  FoldLeft(AddToResult,
           [stack |-> n, vars |-> vars, opens |-> <<>>, alloc |-> <<>>, other |-> <<>>],
           Flatten(result))

CompileSentence(sentence) ==
  LET pat == GenPattern(sentence.pattern)
      res == GenResult(pat.stack, pat.vars, sentence.result)
  IN  [size |-> res.stack, match |-> pat.cmds, build |-> res.alloc \o res.other]
=============================================================================
