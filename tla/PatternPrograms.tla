--------------------------- MODULE PatternPrograms ---------------------------
(* Every short pattern against arguments that decide between its variables: each program *)
(* is a function with the pattern and a sentence for the rest, called on one argument.   *)
EXTENDS RefalSyntax

CONSTANTS
  a, b,      \* chars
  GO, F      \* functions of the program

e1 == Var("e", 1)
e2 == Var("e", 2)
e3 == Var("e", 3)
s1 == Var("s", 1)
t1 == Var("t", 1)
A  == Char(a)
B  == Char(b)
In(x) == Brackets(<<x>>)

Items    == {A, s1, t1, e1, e2, In(e1), Brackets(<<s1, e2>>)}
Patterns ==
  UNION {[1 .. n -> Items] : n \in 0 .. 3}
  \cup [1 .. 4 -> {A, s1, e1, e2, In(e1)}]
  \cup {<<e1, x, e2, y, e3>> : x, y \in {A, s1, t1, In(e3), Brackets(<<t1, e1>>)}}

Arguments ==
  << <<>>, <<A>>, <<B, A>>, <<A, A, B>>, <<In(A)>>, <<Brackets(<<>>), A>>, <<A, In(A), A>>,
     <<In(A), B, A>>, <<B, Brackets(<<A, In(B)>>), In(B)>>, <<A, A, B, B>>,
     <<Brackets(<<A, B>>), Brackets(<<A, B>>)>> >>

\* Each variable of the pattern once moved and, in brackets, once moved or copied, the other way round.
Result(pattern) ==
  LET vs     == SelectSeq(Flatten(pattern), LAMBDA x : x.tag = "var")
      once   == SelectSeq([i \in 1 .. Len(vs) |-> i], LAMBDA i : \A j \in 1 .. i - 1 : vs[j] # vs[i])
      unique == [i \in 1 .. Len(once) |-> vs[once[i]]]
  IN  unique \o <<Brackets(Reverse(unique))>>

Rule(pattern, result) == [pattern |-> pattern, result |-> result]

All ==
  [p \in Patterns \X (1 .. Len(Arguments)) |->
    [sentences |->
       (GO :> <<Rule(<<>>, <<A, Call(F, Arguments[p[2]]), A>>)>>)
       @@ (F :> <<Rule(p[1], Result(p[1])), Rule(<<e1>>, <<B>>)>>),
     metatable |-> {GO, F}]]
=============================================================================
