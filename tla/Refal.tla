-------------------------------- MODULE Refal --------------------------------
(***************************************************************************)
(* The Refal machine a programmer reasons about: a view field and a buried *)
(* store that are expressions, and steps that replace the leading call.    *)
(* It says nothing of nodes, links, instructions or the allocator.         *)
(*                                                                         *)
(* A sentence applies when its pattern fits the argument; of the ways it   *)
(* fits, the one taken has the shortest first e-variable, then the         *)
(* shortest second one, and so on (docs/3-install-and-usage.md and the     *)
(* language the compiler implements).                                      *)
(***************************************************************************)
EXTENDS RefalSyntax, FiniteSets

CONSTANTS
  Programs,     \* the programs that may run: index -> [sentences, metatable]
  Main,         \* the entry function GO
  Entries,      \* functions visible from other modules
  Builtin,      \* builtin function -> the behaviour it has
  Special,      \* builtins that are metafunctions: every metatable lists them
  Spelling,     \* function -> its name as a sequence of chars
  Imploded,     \* name -> the function it denotes, by Symbols
  Equal         \* the char '='

VARIABLES
  prog,      \* the program that runs
  pc,        \* "init_view_field", "main_loop" or "exit"
  field,     \* tokens of the view field
  buried,    \* the buried store, the latest entry first: key '=' value
  code       \* exit code

rvars == <<prog, pc, field, buried, code>>

-----------------------------------------------------------------------------
(* Matching.                                                                *)

\* sigma is a substitution: a function from the variables met so far to expressions.
NoVars == [v \in {} |-> <<>>]

Bind(sigma, v, e) == [w \in DOMAIN sigma \cup {v} |-> IF w = v THEN e ELSE sigma[w]]

\* Lengths of the prefixes of s that a new variable may take.
Shares(v, s) ==
  CASE v.mode = "e" -> PrefixLengths(s)
    [] s = <<>> \/ (s # <<>> /\ IsClose(Head(s).tag)) -> <<>>
    [] v.mode = "s" /\ s # <<>> -> IF IsOpen(Head(s).tag) THEN <<>> ELSE <<1>>
    [] v.mode = "t" /\ s # <<>> -> <<TermEnd(s, 1)>>

RECURSIVE Fit(_, _, _), FirstFit(_, _, _, _)

\* The substitution under which pattern p is the expression s, or {} if there is none.
Fit(p, s, sigma) ==
  IF p = <<>>
  THEN IF s = <<>> THEN {sigma} ELSE {}
  ELSE LET x == Head(p)
       IN  CASE x.tag = "var" /\ x \notin DOMAIN sigma -> FirstFit(p, s, sigma, Shares(x, s))
             [] x.tag = "var" /\ x \in DOMAIN sigma ->
                  IF IsPrefix(sigma[x], s)
                  THEN Fit(Tail(p), From(s, Len(sigma[x]) + 1), sigma)
                  ELSE {}
             [] OTHER -> IF s # <<>> /\ Head(s) = x THEN Fit(Tail(p), Tail(s), sigma) ELSE {}

\* The variable at the head of p takes the first of the lengths under which the rest fits.
FirstFit(p, s, sigma, lengths) ==
  IF lengths = <<>>
  THEN {}
  ELSE LET n   == Head(lengths)
           fit == Fit(Tail(p), From(s, n + 1), Bind(sigma, Head(p), SubSeq(s, 1, n)))
       IN  IF fit # {} THEN fit ELSE FirstFit(p, s, sigma, Tail(lengths))

Substitute(r, sigma) ==
  FlattenSeq([i \in 1 .. Len(r) |-> IF r[i].tag = "var" THEN sigma[r[i]] ELSE <<r[i]>>])

-----------------------------------------------------------------------------
(* One step.  The leading call is the leftmost one without a call inside.   *)

HasCall(s) == \E j \in 1 .. Len(s) : s[j].tag = "close_call"

CallEnd(s)   == SelectInSeq(s, LAMBDA t : t.tag = "close_call")
CallBegin(s) == SelectLastInSubSeq(s, 1, CallEnd(s), LAMBDA t : t.tag = "open_call")

Outcome(f, b, c) == [field |-> f, buried |-> b, code |-> c]

\* The leading call of s is replaced by r.
Replace(s, r) == SubSeq(s, 1, CallBegin(s) - 1) \o r \o From(s, CallEnd(s) + 1)

Sentences(name, arg, s, b) ==
  LET rules == Programs[prog].sentences[name]
      fits  == {k \in 1 .. Len(rules) : Fit(Flatten(rules[k].pattern), arg, NoVars) # {}}
      k     == CHOOSE i \in fits : \A j \in fits : i <= j
      sigma == CHOOSE x \in Fit(Flatten(rules[k].pattern), arg, NoVars) : TRUE
  IN  IF fits = {}
      THEN Outcome(s, b, 201)
      ELSE Outcome(Replace(s, Substitute(Flatten(rules[k].result), sigma)), b, 0)

\* The position of the '=' that ends the key: the first one outside of brackets.
KeyEnds(arg) == {i \in 1 .. Len(arg) : arg[i] = Char(Equal) /\ Depth(arg, i) = 0}
KeyEnd(arg)  == CHOOSE i \in KeyEnds(arg) : \A j \in KeyEnds(arg) : i <= j

\* The entry a key finds: the latest one that starts with the key and '='.
Found(key, b) == {i \in 1 .. Len(b) : IsPrefix(Append(key, Char(Equal)), b[i])}
Latest(key, b) == CHOOSE i \in Found(key, b) : \A j \in Found(key, b) : i <= j
Value(key, entry) == From(entry, Len(key) + 2)

Bury(arg, s, b) ==
  IF KeyEnds(arg) = {} THEN Outcome(s, b, 201) ELSE Outcome(Replace(s, <<>>), <<arg>> \o b, 0)

\* Rp puts a value in the place of the one buried last under its key.
Renew(arg, s, b) ==
  LET key == SubSeq(arg, 1, KeyEnd(arg) - 1)
  IN  IF KeyEnds(arg) = {} \/ Found(key, b) = {}
      THEN Bury(arg, s, b)
      ELSE Outcome(Replace(s, <<>>), [b EXCEPT ![Latest(key, b)] = arg], 0)

Dig(arg, s, b) ==
  IF Found(arg, b) = {}
  THEN Outcome(Replace(s, <<>>), b, 0)
  ELSE Outcome(Replace(s, Value(arg, b[Latest(arg, b)])), RemoveAt(b, Latest(arg, b)), 0)

Copy(arg, s, b) ==
  Outcome(Replace(s, IF Found(arg, b) = {} THEN <<>> ELSE Value(arg, b[Latest(arg, b)])), b, 0)

\* The functions Mu may call by the name that x denotes: a word, a char or chars in brackets.
Named(x) ==
  LET known == Programs[prog].metatable \cup Special
      word  == x[1].val
      chars == SubSeq(x, 2, Len(x) - 1)
  IN  CASE x[1].tag = "function" -> {word} \cap (known \cup Entries)
        [] x[1].tag = "char"     -> {f \in known : Spelling[f] = <<word>>}
        [] x[1].tag = "open_bracket" ->
             {f \in known \cup DOMAIN Builtin :
                /\ chars # <<>> /\ Len(Spelling[f]) = Len(chars)
                /\ [i \in 1 .. Len(chars) |-> Char(Spelling[f][i])] = chars}
        [] OTHER -> {}

MuCall(arg, s, b) ==
  LET x == SubSeq(arg, 1, TermEnd(arg, 1))
      f == CHOOSE g \in Named(x) : TRUE
  IN  IF arg = <<>> \/ (arg # <<>> /\ Named(x) = {})
      THEN Outcome(s, b, 201)
      ELSE Outcome(Replace(s, <<Open("call"), Word(f)>> \o From(arg, Len(x) + 1) \o <<Close("call")>>), b, 0)

\* The terms of s are the steps between the lengths of its expression prefixes.
TermCount(s) == Len(PrefixLengths(s)) - 1

\* First: the first n terms in brackets, or all when there are fewer.
SplitTerms(n, items) ==
  LET k == PrefixLengths(items)[(IF n <= TermCount(items) THEN n ELSE TermCount(items)) + 1]
  IN  <<Open("bracket")>> \o SubSeq(items, 1, k) \o <<Close("bracket")>> \o From(items, k + 1)

\* The table of types in docs/2-syntax.md; a plain name is a letter and letters, digits, '_', '-'.
Letters(from) == from .. from + 25

CharKind(c) ==
  CASE c \in Letters(65) -> <<Char(76), Char(117)>>
    [] c \in Letters(97) -> <<Char(76), Char(108)>>
    [] c \in 48 .. 57    -> <<Char(68), Char(48)>>
    [] c \in (32 .. 47) \cup (58 .. 64) \cup (91 .. 96) \cup (123 .. 126) -> <<Char(80), Char(108)>>
    [] OTHER -> <<Char(79), Char(108)>>

IsPlainName(name) ==
  /\ name # <<>>
  /\ Head(name) \in Letters(65) \cup Letters(97)
  /\ ToSet(name) \subseteq Letters(65) \cup Letters(97) \cup (48 .. 57) \cup {95, 45}

Kind(s) ==
  CASE s = <<>> -> <<Char(42), Char(48)>>
    [] s # <<>> /\ Head(s).tag = "char" -> CharKind(Head(s).val)
    [] s # <<>> /\ Head(s).tag = "function" ->
         <<Char(87), IF IsPlainName(Spelling[Head(s).val]) THEN Char(105) ELSE Char(113)>>
    [] s # <<>> /\ Head(s).tag = "number" -> <<Char(78), Char(48)>>
    [] OTHER -> <<Char(66), Char(48)>>

\* Each symbol of an expression changed by a function that says what it becomes.
Translate(f, s) ==
  LET New(t) ==
        CASE f = "Chr"   /\ t.tag = "number" -> Char(t.val % 256)
          [] f = "Ord"   /\ t.tag = "char"   -> Number(t.val)
          [] f = "Lower" /\ t.tag = "char" /\ t.val \in Letters(65) -> Char(t.val + 32)
          [] f = "Upper" /\ t.tag = "char" /\ t.val \in Letters(97) -> Char(t.val - 32)
          [] OTHER -> t
  IN  [i \in 1 .. Len(s) |-> New(s[i])]

\* The longest name at the start of s: a letter and letters, digits, '_', '-' and '$'.
NameLength(s) ==
  LET IsName(n) ==
        /\ \A i \in 1 .. n : /\ s[i].tag = "char"
                             /\ s[i].val \in Letters(65) \cup Letters(97) \cup (48 .. 57) \cup {95, 45, 36}
        /\ n > 0 => s[1].val \in Letters(65) \cup Letters(97)
  IN  CHOOSE n \in 0 .. Len(s) : IsName(n) /\ \A k \in n + 1 .. Len(s) : ~IsName(k)

Symbol_(s) == Word(Imploded[[i \in 1 .. Len(s) |-> s[i].val]])

Joined(s) ==
  IF NameLength(s) = 0
  THEN <<Number(0)>> \o s
  ELSE <<Symbol_(SubSeq(s, 1, NameLength(s)))>> \o From(s, NameLength(s) + 1)

\* The argument of First, Explode, Implode_Ext and Exit as the documentation has it.
IsLegal(f, arg) ==
  CASE f = "First"   -> arg # <<>> /\ Head(arg).tag = "number"
    [] f = "Explode" -> Len(arg) = 1 /\ arg[1].tag = "function"
    [] f = "Implode_Ext" -> \A i \in 1 .. Len(arg) : arg[i].tag = "char"
    [] f = "Exit"    -> \/ Len(arg) = 1 /\ arg[1].tag = "number"
                        \/ Len(arg) = 2 /\ arg[1] = Char(45) /\ arg[2].tag = "number"
    [] OTHER -> TRUE

\* What the functions that only look at their argument give for it.
Answer(f, arg) ==
  CASE f = "First"   -> SplitTerms(Head(arg).val, Tail(arg))
    [] f = "Lenw"    -> <<Number(TermCount(arg))>> \o arg
    [] f = "Type"    -> Kind(arg) \o arg
    [] f = "Explode" -> [i \in 1 .. Len(Spelling[arg[1].val]) |-> Char(Spelling[arg[1].val][i])]
    [] f = "Implode" -> Joined(arg)
    [] f = "Implode_Ext" -> <<Symbol_(arg)>>
    [] OTHER -> Translate(f, arg)

\* What the leading call of field s comes to.
Step(s, b) ==
  LET body == SubSeq(s, CallBegin(s) + 1, CallEnd(s) - 1)
      name == Head(body).val
      arg  == Tail(body)
      behaviour == Builtin[name]
  IN  CASE body = <<>> \/ (body # <<>> /\ Head(body).tag # "function") -> Outcome(s, b, 201)
        [] name \in DOMAIN Programs[prog].sentences -> Sentences(name, arg, s, b)
        [] name \in DOMAIN Builtin ->
             (CASE behaviour = "Br" -> Bury(arg, s, b)
                [] behaviour = "Rp" -> Renew(arg, s, b)
                [] behaviour = "Dg" -> Dig(arg, s, b)
                [] behaviour = "Cp" -> Copy(arg, s, b)
                [] behaviour = "Mu" -> MuCall(arg, s, b)
                [] behaviour = "Up" -> Outcome(s, b, 201)
                [] OTHER ->
                     IF IsLegal(behaviour, arg)
                     THEN Outcome(Replace(s, Answer(behaviour, arg)), b, 0)
                     ELSE Outcome(s, b, 201))
        [] OTHER -> Outcome(s, b, 201)

-----------------------------------------------------------------------------
Init ==
  /\ prog \in DOMAIN Programs
  /\ pc = "init_view_field"
  /\ field = <<>> /\ buried = <<>> /\ code = 0

Start ==
  /\ pc = "init_view_field"
  /\ pc' = "main_loop"
  /\ field' = <<Open("call"), Word(Main), Close("call")>>
  /\ UNCHANGED <<prog, buried, code>>

\* The leading call is <Exit n> or <Exit '-' n>.
Leading == SubSeq(field, CallBegin(field) + 1, CallEnd(field) - 1)

Exits ==
  /\ HasCall(field) /\ Leading # <<>> /\ Head(Leading).tag = "function"
  /\ Head(Leading).val \in DOMAIN Builtin
  /\ Builtin[Head(Leading).val] = "Exit" /\ IsLegal("Exit", Tail(Leading))

\* The host keeps eight bits of the number that Exit is called with.
Quit ==
  /\ pc = "main_loop" /\ Exits
  /\ pc' = "exit"
  /\ code' = IF Len(Leading) = 2 THEN Leading[2].val % 256 ELSE (-Leading[3].val) % 256
  /\ UNCHANGED <<prog, field, buried>>

Reduce ==
  /\ pc = "main_loop" /\ HasCall(field) /\ ~Exits
  /\ LET next == Step(field, buried)
     IN  /\ field' = next.field
         /\ buried' = next.buried
         /\ code' = next.code
         /\ pc' = IF next.code = 0 THEN "main_loop" ELSE "exit"
  /\ UNCHANGED prog

Finish ==
  /\ pc = "main_loop" /\ ~HasCall(field)
  /\ pc' = "exit"
  /\ UNCHANGED <<prog, field, buried, code>>

\* Memory may run out at any step, and then nothing of the step has happened.
OutOfMemory ==
  /\ pc = "init_view_field" \/ (pc = "main_loop" /\ HasCall(field))
  /\ pc' = "exit" /\ code' = 202
  /\ UNCHANGED <<prog, field, buried>>

Next == Start \/ Reduce \/ Quit \/ Finish \/ OutOfMemory

Spec == Init /\ [][Next]_rvars
=============================================================================
