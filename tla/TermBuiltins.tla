----------------------------- MODULE TermBuiltins -----------------------------
(***************************************************************************)
(* The builtins of lib/Library.c that rework the nodes of their own call:  *)
(* First, Lenw, Type, Chr, Ord, Lower, Upper, Explode, Implode,            *)
(* Implode_Ext and Exit.  Where a call needs a bracket, a number or a char *)
(* for its result, it makes one of the nodes of its brackets and its name. *)
(*                                                                         *)
(* A char is its code, 0 .. 255.  The classes of chars are those of the C  *)
(* locale, which no code of the repository leaves.                         *)
(***************************************************************************)
EXTENDS GeneratedCode

CONSTANTS
  Spelling,     \* function -> its name as a sequence of chars
  Imploded      \* name -> the function that implode() finds or makes for it (ImplodeTable)

CharSize == 256       \* the values of an unsigned char

Capital == 65 .. 90
Small   == 97 .. 122
Figure  == 48 .. 57
Alpha   == Capital \cup Small
Shown   == 32 .. 126          \* isprint

\* is_ident_tail
IdentTail == Alpha \cup Figure \cup {95, 45}

Retag(m, x, tag, info) == [m EXCEPT !.tag[x] = tag, !.info[x] = info]

-----------------------------------------------------------------------------
\* The terms between left and right, each with its ends.
RECURSIVE Terms(_, _, _)
Terms(m, left, right) ==
  LET x    == m.next[left]
      last == IF m.tag[x] = "open_bracket" THEN m.info[x] ELSE x
  IN  IF x = right THEN <<>> ELSE <<<<x, last>>>> \o Terms(m, last, right)

\* The name and the number become brackets, and the prefix moves between them.
Bracketed(m, begin, end, prefix) ==
  LET callee == m.next[begin]
      sLen   == m.next[callee]
      turned == LinkBrackets([m EXCEPT !.tag[callee] = "open_bracket", !.tag[sLen] = "close_bracket"],
                             callee, sLen)
      moved  == SpliceTevar(turned, sLen, prefix)
  IN  SpliceToFreelist(SpliceToFreelist(moved, begin, begin), end, end)

HasLength(m, sLen, end) == sLen # end /\ m.tag[sLen] = "number"

\* The first n terms behind x, or all of them.
Prefix(m, x, end, n) ==
  LET terms == Terms(m, x, end)
      k     == IF n <= Len(terms) THEN n ELSE Len(terms)
  IN  <<m.next[x], IF k = 0 THEN x ELSE terms[k][2]>>

First(m, begin, end) ==
  LET sLen == m.next[m.next[begin]]
  IN  IF HasLength(m, sLen, end)
      THEN Bracketed(m, begin, end, CorrectEvar(m, Prefix(m, sLen, end, m.info[sLen])))
      ELSE Exit(m, RecognitionImpossible)

\* Lenw: the name becomes the number.
Lenw(m, begin, end) ==
  LET callee  == m.next[begin]
      counted == Retag(m, callee, "number", Len(Terms(m, callee, end)))
  IN  SpliceToFreelist(SpliceToFreelist(counted, begin, begin), end, end)

\* The type and the subtype of a char, a quoted or a plain name and the other terms.
CharType(c) ==
  CASE c \in Alpha -> 76 [] c \in Figure -> 68 [] c \in Shown \ (Alpha \cup Figure) -> 80 [] OTHER -> 79

CharSubtype(c) == IF c \in Figure THEN 48 ELSE IF c \in Capital THEN 117 ELSE 108

NameSubtype(f) ==
  LET name == Spelling[f]
  IN  IF name # <<>> /\ name[1] \in Alpha /\ \A i \in 2 .. Len(name) : name[i] \in IdentTail
      THEN 105
      ELSE 113

TypeOfTerm(m, x, end) ==
  CASE x = end                 -> <<42, 48>>
    [] m.tag[x] = "char"       -> <<CharType(m.info[x]), CharSubtype(m.info[x])>>
    [] m.tag[x] = "function"   -> <<87, NameSubtype(m.info[x])>>
    [] m.tag[x] = "number"     -> <<78, 48>>
    [] m.tag[x] = "open_bracket" -> <<66, 48>>

\* Type: the open bracket and the name become the two chars.
Type(m, begin, end) ==
  LET callee == m.next[begin]
      type   == TypeOfTerm(m, m.next[callee], end)
  IN  SpliceToFreelist(Retag(Retag(m, begin, "char", type[1]), callee, "char", type[2]), end, end)

-----------------------------------------------------------------------------
(* Chr, Ord, Lower and Upper change symbols where they stand, at any depth. *)

Converted(function, tag, info) ==
  CASE function = "Chr"   /\ tag = "number" -> <<"char", info % CharSize>>
    [] function = "Ord"   /\ tag = "char"   -> <<"number", info>>
    [] function = "Lower" /\ tag = "char" /\ info \in Capital -> <<"char", info + 32>>
    [] function = "Upper" /\ tag = "char" /\ info \in Small   -> <<"char", info - 32>>
    [] OTHER -> <<tag, info>>

\* The call's argument, its nodes changed in their places.
ConvertedArgument(function, m, begin, end) ==
  LET argument == Addresses(Between(m, m.next[begin], end))
      New(x)   == Converted(function, m.tag[x], m.info[x])
  IN  [m EXCEPT !.tag  = [x \in Addr |-> IF x \in argument THEN New(x)[1] ELSE @[x]],
                !.info = [x \in Addr |-> IF x \in argument THEN New(x)[2] ELSE @[x]]]

Convert(function, m, begin, end) ==
  LET changed == ConvertedArgument(function, m, begin, end)
  IN  SpliceToFreelist(SpliceToFreelist(changed, begin, m.next[begin]), end, end)

-----------------------------------------------------------------------------
\* Explode: the chars of the name are built, and the call goes.
Explode(m, begin, end) ==
  LET ident == m.next[m.next[begin]]
      built == FoldLeft(LAMBDA n, c : AllocNode(n, "char", c), ResetAllocator(m), Spelling[m.info[ident]])
  IN  IF ident = end \/ m.tag[ident] # "function" \/ m.next[ident] # end
      THEN Exit(m, RecognitionImpossible)
      ELSE ReturnResult(built, begin, end)

\* is_implode_tail
ImplodeTail == IdentTail \cup {36}

IsChar(m, x, chars) == m.tag[x] = "char" /\ m.info[x] \in chars

\* Implode: the function name's node becomes the symbol of the longest name, or 0.
Implode(m, begin, end) ==
  LET sFunc  == m.next[begin]
      nodes  == Append(Between(m, sFunc, end), end)
      after  == SelectInSeq(nodes, LAMBDA x : ~IsChar(m, x, ImplodeTail))
      name   == [k \in 1 .. after - 1 |-> m.info[nodes[k]]]
      shrunk == IF IsChar(m, nodes[1], Alpha)
                THEN SpliceToFreelist(SetInfo(m, sFunc, Imploded[name]), nodes[1], nodes[after - 1])
                ELSE Retag(m, sFunc, "number", 0)
  IN  SpliceToFreelist(SpliceToFreelist(shrunk, begin, begin), end, end)

\* Implode_Ext: the open bracket becomes the symbol of the chars of the whole argument.
ImplodeExt(m, begin, end) ==
  LET callee == m.next[begin]
      nodes  == Between(m, callee, end)
      name   == [k \in 1 .. Len(nodes) |-> m.info[nodes[k]]]
  IN  IF \A k \in 1 .. Len(nodes) : m.tag[nodes[k]] = "char"
      THEN SpliceToFreelist(Retag(m, begin, "function", Imploded[name]), callee, end)
      ELSE Exit(m, RecognitionImpossible)

\* Exit: an optional minus and a number; the host keeps the low eight bits of the int.
ExitIsCalledRight(m, begin, end) ==
  LET x      == m.next[m.next[begin]]
      number == IF x # end /\ m.tag[x] = "char" THEN m.next[x] ELSE x
  IN  /\ x # end
      /\ m.tag[x] = "char" => m.info[x] = 45
      /\ number # end /\ m.tag[number] = "number" /\ m.next[number] = end

ExitStatus(m, begin, end) ==
  LET x == m.next[m.next[begin]]
  IN  IF m.tag[x] = "char" THEN (-m.info[m.next[x]]) % CharSize ELSE m.info[x] % CharSize
=============================================================================
