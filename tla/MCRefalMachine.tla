--------------------------- MODULE MCRefalMachine ---------------------------
(* Programs that use every command of the compiler and every builtin of the model, at  *)
(* memory limits from none to plenty, and those of TermPrograms and PatternPrograms.   *)
EXTENDS RefalRefinement

CONSTANTS
  a, b, eq,                          \* chars
  GO, F, G, H, E, Twice, Odd,        \* functions of the programs; E and Odd have no body
  Mu_, Br, Dg, Cp, Rp, Up,           \* functions of the library
  Nameless, First_, Lenw_, Type_, Chr_, Ord_, Lower_, Upper_,
  Explode_, Implode_, ImplodeExt_, Exit_, Residue_, Evm_

Terms_   == INSTANCE TermPrograms
Patterns == INSTANCE PatternPrograms

MCBuiltin ==
  (Mu_ :> "Mu") @@ (Br :> "Br") @@ (Dg :> "Dg") @@ (Cp :> "Cp") @@ (Rp :> "Rp") @@ (Up :> "Up")
  @@ Terms_!Library
MCSpecial == {Mu_, Up} \cup Terms_!Metafunctions
MCEntries == ({GO} \cup DOMAIN MCBuiltin) \ MCSpecial

\* Names of one char and of two; that no two functions share a name is the compiler's business.
MCSpelling ==
  (F :> <<a>>) @@ (G :> <<b>>) @@ (H :> <<a, b>>) @@ (E :> <<eq>>)
  @@ (Mu_ :> <<b, eq>>) @@ (Br :> <<a, a>>) @@ (Dg :> <<a, eq>>) @@ (Cp :> <<b, a>>)
  @@ (Rp :> <<eq, a>>) @@ (Up :> <<eq, b>>)
  @@ Terms_!Names

\* The library has the nameless function and those of Builtin; a function of the program is not in it.
Imploding  == (DOMAIN MCSpelling) \ {GO, F, G, H, E, Twice, Odd}
MCImploded == [w \in {MCSpelling[f] : f \in Imploding} |-> CHOOSE f \in Imploding : MCSpelling[f] = w]

MCSymbol == (0 .. 600) \cup DOMAIN MCSpelling

e1 == Var("e", 1)
e2 == Var("e", 2)
e3 == Var("e", 3)
s1 == Var("s", 1)
t1 == Var("t", 1)
t2 == Var("t", 2)
A  == Char(a)
B  == Char(b)
Q  == Char(eq)

Rule(pattern, result) == [pattern |-> pattern, result |-> result]

Program(main, f, g, h) ==
  [sentences |-> (GO :> <<Rule(<<>>, main)>>) @@ (F :> f) @@ (G :> g) @@ (H :> h),
   metatable |-> {GO, F, G, H, E}]

Id       == <<Rule(<<e1>>, <<e1>>)>>
Wrap     == <<Rule(<<e1>>, <<Brackets(<<e1>>)>>)>>
Nothing  == <<Rule(<<>>, <<>>)>>

\* Nested calls whose arguments move; the stack grows and shrinks with brackets around.
Reversal  == <<Rule(<<t1, e1>>, <<Call(F, <<e1>>), t1>>), Rule(<<>>, <<>>)>>
\* A variable that is moved, copied and copied again, next to a call that takes it.
Doubled  == <<Rule(<<e1, A, e2>>, <<Brackets(<<e2>>), e1, e1, Call(H, <<e1, A>>), e2>>), Rule(<<e1>>, <<e1, B>>)>>
\* Two loops, one inside of the other, and a repeated term.
Pairs    == <<Rule(<<e1, t1, e2, t1, e3>>, <<Call(F, <<e1, e3, e2>>), t1>>), Rule(<<e1>>, <<e1>>)>>
\* The second sentence is tried on an argument the first has half matched.
Second   == <<Rule(<<e1, Brackets(<<e2, A>>), B>>, <<e2, e1>>), Rule(<<Brackets(<<e1>>), e2, s1>>, <<s1, e1, s1, e2>>)>>
\* A palindrome: nothing is left of it, or recognition is impossible.
Mirror   == <<Rule(<<s1, e1, s1>>, <<Call(F, <<e1>>)>>), Rule(<<s1>>, <<>>), Rule(<<>>, <<>>)>>
\* Calls inside of calls, brackets inside of brackets.
Inside   == <<Rule(<<e1>>, <<Brackets(<<Call(G, <<Brackets(<<Call(H, <<e1>>), e1>>)>>)>>), Call(H, <<Call(G, <<A>>), e1>>)>>)>>
\* One that never ends in the memory it has, and one that needs ever more.
Loop     == <<Rule(<<e1, t1>>, <<Call(F, <<t1, e1>>)>>)>>
Grow     == <<Rule(<<e1>>, <<A, Call(F, <<e1, Brackets(<<e1>>), B>>)>>)>>
\* The longest e-variable first would give another answer.
Shortest == <<Rule(<<e1, A, e2, B, e3>>, <<Brackets(<<e1>>), Brackets(<<e2>>), Brackets(<<e3>>)>>)>>
Repeat   == <<Rule(<<Brackets(<<e1>>), e2, e1>>, <<e2, A, e1, e1>>), Rule(<<e1, e2>>, <<e2, e1>>)>>

Arguments ==
  << <<>>, <<A>>, <<A, B>>, <<A, B, A>>, <<B, Brackets(<<A>>), B>>, <<A, Brackets(<<>>), A, B>>,
     <<Brackets(<<A, B>>), B, A, B>>, <<Brackets(<<Brackets(<<A>>), B>>), Brackets(<<A>>)>> >>

Bodies == << Reversal, Doubled, Pairs, Second, Mirror, Inside, Loop, Grow, Shortest, Repeat >>

\* Every body as F on every argument.
Applied ==
  [n \in 0 .. Len(Bodies) * Len(Arguments) - 1 |->
    Program(<<Call(F, Arguments[(n % Len(Arguments)) + 1])>>, Bodies[n \div Len(Arguments) + 1], Id, Wrap)]

KeyA == <<A, Q>>

Buried ==
  << \* the store is last in, first out; a key is found by Cp without being removed
     <<Call(Br, <<A, Q, B>>), Call(Br, <<A, Q, Brackets(<<A>>)>>), Call(Cp, <<A>>), Call(Dg, <<A>>), Call(Dg, <<A>>), Call(Dg, <<A>>)>>,
     \* an empty value, an empty key, a key of another entry's key
     <<Call(Br, <<A, Q>>), Call(Br, <<Q, A>>), Call(Cp, <<>>), Call(Dg, <<A>>), Call(Br, <<A, B, Q, B>>), Call(Dg, <<A>>), Call(Dg, <<>>)>>,
     \* Rp with and without an entry, from and to an empty value
     <<Call(Rp, <<A, Q, B>>), Call(Rp, <<A, Q>>), Call(Cp, <<A>>), Call(Rp, <<A, Q, Brackets(<<B>>), B>>), Call(Cp, <<A>>), Call(Dg, <<A>>)>>,
     \* a key with '=' in it: Br takes the shortest key, Dg finds the longer one
     <<Call(Br, <<A, Q, B, Q, A>>), Call(Cp, <<A, Q, B>>), Call(Dg, <<A>>)>>,
     \* '=' in brackets does not end the key, and there may be none at all
     <<Call(Br, <<Brackets(KeyA), Q, B>>), Call(Cp, <<Brackets(KeyA)>>), Call(Rp, <<Brackets(KeyA)>>)>>,
     \* the entry in the middle goes; the others stay
     <<Call(Br, <<A, Q, A>>), Call(Br, <<B, Q, Brackets(<<>>), B>>), Call(Br, <<Q>>), Call(Rp, <<A, Q, B, B>>), Call(Dg, <<B>>), Call(Dg, <<A>>)>> >>

Called ==
  << <<Call(Mu_, <<Word(F), A>>), Call(Mu_, <<A, B>>), Call(Mu_, <<Brackets(<<A>>), B, A>>)>>,
     <<Call(Mu_, <<Brackets(<<A, B>>), Call(Mu_, <<B, A>>)>>)>>,
     <<Call(Mu_, <<Word(Br), A, Q, B>>), Call(Mu_, <<Brackets(<<A, Q>>), A>>)>>,
     <<Call(Mu_, <<Word(Mu_), Word(G), A>>)>>,
     <<Call(Mu_, <<>>)>>, <<Call(Mu_, <<Q, A>>)>>, <<Call(Mu_, <<Brackets(<<>>), A>>)>>,
     <<Call(Mu_, <<Brackets(<<A, Brackets(<<>>)>>)>>)>>, <<Call(Mu_, <<Brackets(<<A, A, A>>)>>)>>,
     <<A, Call(E, <<B>>)>>, <<Call(Up, <<A>>)>>, <<>> >>

Basic ==
  [n \in 1 .. Len(Bodies) * Len(Arguments) |-> Applied[n - 1]]
  \o [n \in 1 .. Len(Buried) |-> Program(Buried[n], Id, Id, Id)]
  \o [n \in 1 .. Len(Called) |-> Program(Called[n], Wrap, Id, Reversal)]

MCPrograms ==
  [n \in ({"basic"} \X DOMAIN Basic) \cup ({"term"} \X DOMAIN Terms_!All) \cup ({"pattern"} \X DOMAIN Patterns!All) |->
    CASE n[1] = "basic" -> Basic[n[2]] [] n[1] = "term" -> Terms_!All[n[2]] [] n[1] = "pattern" -> Patterns!All[n[2]]]

\* In chunks of four nodes: none, one, two and three chunks, and what the host has.
MCLimits ==
  [n \in DOMAIN MCPrograms |->
    CASE n[1] = "basic" -> {0, 1, 5, 9, 100} [] n[1] = "term" -> {7, 100} [] n[1] = "pattern" -> {100}]

\* Mu is in the metatable of every module that calls it, and it is in the library.
MCNameClash  == << Program(<<Call(Mu_, <<Brackets(<<B, Q>>), Word(F), A>>)>>, Id, Id, Id) >>
MCClashLimit == <<{100}>>
=============================================================================
