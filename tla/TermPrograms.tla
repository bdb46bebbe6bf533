----------------------------- MODULE TermPrograms -----------------------------
(* Every builtin of TermBuiltins on the result of every other, Residue, Ev-met and Exit, *)
(* in programs of two calls.  Chars are their codes.                                     *)
EXTENDS RefalSyntax

CONSTANTS
  GO, Twice, Odd,                                             \* functions of the program
  Nameless, First_, Lenw_, Type_, Chr_, Ord_, Lower_, Upper_,  \* functions of the library
  Explode_, Implode_, ImplodeExt_, Exit_, Residue_, Evm_

\* Names that the programs implode and no function of the library has: their symbols are numbers above 1000.
NewNames ==
  << <<65>>, <<122, 48>>, <<9>>, <<76, 108, 122, 48>>, <<78, 48>>, <<76, 117, 65>>,
     <<80, 108>>, <<87, 105>>, <<66, 48>>, <<87, 113>>, <<79, 108>>, <<97>>, <<90, 48>>,
     <<71, 79>>, <<116, 95, 50>>, <<42, 48>>, <<79, 108, 9>>, <<200>>, <<65, 33>> >>

NewSymbols == 1001 .. 1000 + Len(NewNames)

Library ==
  (First_ :> "First") @@ (Lenw_ :> "Lenw") @@ (Type_ :> "Type") @@ (Chr_ :> "Chr") @@ (Ord_ :> "Ord")
  @@ (Lower_ :> "Lower") @@ (Upper_ :> "Upper") @@ (Explode_ :> "Explode") @@ (Implode_ :> "Implode")
  @@ (ImplodeExt_ :> "Implode_Ext") @@ (Exit_ :> "Exit")
  @@ (Residue_ :> "Mu") @@ (Evm_ :> "Up")

Metafunctions == {Residue_, Evm_}

\* Names of a letter, of letters and signs, of a sign, and the name of builtin 44.
Names ==
  (GO :> <<71, 79>>) @@ (Twice :> <<116, 95, 50>>) @@ (Odd :> <<65, 33>>) @@ (Nameless :> <<>>)
  @@ (First_ :> <<70>>) @@ (Lenw_ :> <<76>>) @@ (Type_ :> <<84>>) @@ (Chr_ :> <<67>>) @@ (Ord_ :> <<79>>)
  @@ (Lower_ :> <<108>>) @@ (Upper_ :> <<85>>) @@ (Explode_ :> <<69>>) @@ (Exit_ :> <<88>>)
  @@ (Implode_ :> <<73>>) @@ (ImplodeExt_ :> <<73, 95>>)
  @@ (Residue_ :> <<82, 101>>) @@ (Evm_ :> <<69, 118, 45>>)
  @@ [f \in NewSymbols |-> NewNames[f - 1000]]

e1 == Var("e", 1)

In(items) == Brackets(items)

Arguments ==
  << <<>>, <<Char(65)>>, <<Char(122), Char(48)>>, <<Char(33), In(<<Char(97), Number(321)>>)>>,
     <<Number(2), Number(65), In(<<>>), Char(90)>>, <<Number(0), In(<<In(<<Char(65)>>)>>)>>,
     <<In(<<Number(511), Word(Odd)>>), In(<<Char(90)>>), Char(122)>>, <<Number(1), In(<<Char(64)>>), Number(9)>>,
     <<Word(GO)>>, <<Word(Odd)>>, <<Word(Nameless)>>, <<Word(Twice)>>, <<Char(9)>>, <<Number(200)>> >>

\* Calls of the functions, First with every number that decides, Residue with a call of Lenw.
Uses ==
  << [name |-> First_, with |-> <<>>], [name |-> First_, with |-> <<Number(0)>>],
     [name |-> First_, with |-> <<Number(1)>>], [name |-> First_, with |-> <<Number(3)>>],
     [name |-> Lenw_, with |-> <<>>], [name |-> Type_, with |-> <<>>], [name |-> Chr_, with |-> <<>>],
     [name |-> Ord_, with |-> <<>>], [name |-> Lower_, with |-> <<>>], [name |-> Upper_, with |-> <<>>],
     [name |-> Explode_, with |-> <<>>], [name |-> Implode_, with |-> <<>>],
     [name |-> ImplodeExt_, with |-> <<>>], [name |-> Residue_, with |-> <<Word(Lenw_)>>],
     [name |-> Twice, with |-> <<>>] >>

Endings == << <<>>, <<Number(0)>>, <<Number(3)>>, <<Number(511)>>, <<Char(45), Number(1)>>, <<Char(45)>>,
           <<Char(43), Number(1)>>, <<Number(1), Number(1)>>, <<In(<<>>)>>, <<Char(45), Number(256)>> >>

Rule(pattern, result) == [pattern |-> pattern, result |-> result]

Program(main) ==
  [sentences |-> (GO :> <<Rule(<<>>, main)>>) @@ (Twice :> <<Rule(<<e1>>, <<e1, In(<<e1>>)>>)>>),
   metatable |-> {GO, Twice}]

Applied(use, items) == Call(use.name, use.with \o items)

\* Function u on the result of function v on an argument; endings are calls of Exit and Ev-met.
Indices == ((1 .. Len(Uses)) \X (1 .. Len(Uses)) \X (1 .. Len(Arguments))) \cup ({0} \X {0} \X (0 .. Len(Endings)))

Main_(u, v, a) ==
  CASE u = 0 /\ a = 0 -> <<Call(Evm_, <<Char(65)>>)>>
    [] u = 0 /\ a # 0 -> <<Call(Lenw_, <<Call(Exit_, Endings[a])>>), Char(65)>>
    [] OTHER -> <<Char(65), Applied(Uses[u], <<Applied(Uses[v], Arguments[a])>>), Char(65)>>

All == [n \in Indices |-> Program(Main_(n[1], n[2], n[3]))]
===============================================================================
