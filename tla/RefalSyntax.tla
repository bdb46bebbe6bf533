----------------------------- MODULE RefalSyntax -----------------------------
(***************************************************************************)
(* Object expressions, patterns and results.  The parser's trees (Symbol,  *)
(* Brackets, Call, Variable nodes of R05-Parser.ref and R05-Generator.ref) *)
(* are items; an object expression is the sequence of its tokens, one per  *)
(* node of the view field, with the brackets in their places.              *)
(***************************************************************************)
EXTENDS Naturals, Sequences, SequencesExt

\* What a token of a bracket holds: a link, which an expression does not show.
NoValue == 0

Token(tag, val) == [tag |-> tag, val |-> val]

Open(kind)  == Token("open_" \o kind, NoValue)
Close(kind) == Token("close_" \o kind, NoValue)

IsOpen(tag)  == tag \in {"open_bracket", "open_call"}
IsClose(tag) == tag \in {"close_bracket", "close_call"}

\* Items of a pattern or of a result.
Char(c)            == Token("char", c)
Number(n)          == Token("number", n)
Word(f)            == Token("function", f)
Var(mode, index)   == [tag |-> "var", mode |-> mode, index |-> index]
Brackets(items)    == [tag |-> "brackets", items |-> items]
Call(name, items)  == [tag |-> "call", name |-> name, items |-> items]

\* Items in the order of the text, brackets and calls as pairs of tokens.
RECURSIVE Flatten(_)
Flatten(items) ==
  IF items = <<>>
  THEN <<>>
  ELSE LET x == Head(items)
       IN  (CASE x.tag = "brackets" -> <<Open("bracket")>> \o Flatten(x.items) \o <<Close("bracket")>>
              [] x.tag = "call" -> <<Open("call"), Word(x.name)>> \o Flatten(x.items) \o <<Close("call")>>
              [] OTHER -> <<x>>)
           \o Flatten(Tail(items))

\* How many brackets are open after the first i tokens of s.
Depth(s, i) ==
  LET step(d, t) == IF IsOpen(t.tag) THEN d + 1 ELSE IF IsClose(t.tag) THEN d - 1 ELSE d
  IN  FoldLeft(step, 0, SubSeq(s, 1, i))

\* The position of the bracket that closes the one at i, or i itself for a symbol.
TermEnd(s, i) ==
  CHOOSE j \in i .. Len(s) :
    /\ Depth(s, j) = Depth(s, i - 1)
    /\ \A k \in i .. j - 1 : Depth(s, k) # Depth(s, i - 1)

\* The lengths of the prefixes of s that are expressions, the shortest first.
PrefixLengths(s) ==
  SelectSeq([n \in 1 .. Len(s) + 1 |-> n - 1],
            LAMBDA n : /\ Depth(s, n) = 0
                       /\ \A k \in 1 .. n : Depth(s, k) >= 0)

From(s, i) == SubSeq(s, i, Len(s))
=============================================================================
