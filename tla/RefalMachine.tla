---------------------------- MODULE RefalMachine ----------------------------
(***************************************************************************)
(* The runtime running a compiled program: main, init_view_field and the   *)
(* steps of main_loop over the node memory, with the functions the         *)
(* compiler generates and the builtins Mu, Br, Dg, Cp, Rp and Up and those *)
(* of TermBuiltins.                                                        *)
(*                                                                         *)
(* The process has one thread, and nothing but r05_exit leaves a step      *)
(* half done, so a step is one action: pop the call, run the callee, and   *)
(* stop where memory ran out or the callee gave up.                        *)
(***************************************************************************)
EXTENDS TermBuiltins, FiniteSets

CONSTANTS
  Programs,     \* the programs that may run: index -> [sentences, metatable]
  Main,         \* the entry function GO
  Entries,      \* functions whose field entry is set
  Builtin,      \* function of the library -> the C function that implements it
  Special,      \* the metafunctions among them: the compiler puts them in every metatable
  Equal,        \* the char '='
  Limits        \* program -> the values of R05_MEMORY_LIMIT that it is built with

VARIABLES
  prog,      \* the program that runs: an index of Programs
  pc,        \* "init_view_field", "main_loop", "exit"
  mem        \* the node memory

vars == <<prog, pc, mem>>

\* Every sentence as the compiler leaves it.
CompileProgram(sentences) ==
  [f \in DOMAIN sentences |->
    [k \in DOMAIN sentences[f] |-> CompileSentence(sentences[f][k])]]

Compiled == [n \in DOMAIN Programs |-> CompileProgram(Programs[n].sentences)]

\* A step that leaves the memory m, and ends the process when it called r05_exit.
Becomes(m) ==
  /\ mem' = m
  /\ pc' = IF mem'.exit = 0 THEN "main_loop" ELSE "exit"
  /\ UNCHANGED prog

-----------------------------------------------------------------------------
(* The buried store: brackets with a key, the char '=' and a value.         *)

\* r05_char_left
CharLeft(m, left, right, c) ==
  LET x == m.next[left] IN x # right /\ m.tag[x] = "char" /\ m.info[x] = c

\* buried_query: the first pair of brackets from left on that starts with the key and '='.
RECURSIVE BuriedQuery(_, _, _)
BuriedQuery(m, key, left) ==
  LET right == m.info[left]
      rep   == RepeatedTevar(m, [i \in 0 .. 5 |-> (<<left, right, key[1], key[2], NULL, NULL>>)[i + 1]],
                             Match("LEFT", Hole(0, <<>>, 1), 4, [type |-> "repeated", mode |-> "e", sample |-> 2]))
      last  == (CHOOSE p \in rep : TRUE)[5]
  IN  IF left = BuriedEnd
      THEN {}
      ELSE IF rep # {} /\ CharLeft(m, last, right, Equal)
           THEN {[left  |-> left, right |-> right,
                  value |-> <<m.next[m.next[last]], m.prev[right]>>]}
           ELSE BuriedQuery(m, key, m.next[right])

\* The loop of brrp_impl: the shortest key that '=' follows.
RECURSIVE ShortestKey(_, _, _)
ShortestKey(m, key, end) ==
  LET x == m.next[key[2]]
  IN  IF CharLeft(m, key[2], end, Equal)
      THEN {key}
      ELSE IF x = end
           THEN {}
           ELSE ShortestKey(m, <<key[1], IF m.tag[x] = "open_bracket" THEN m.info[x] ELSE x>>, end)

\* Mutant of Bury: the entry goes to the end of the store, so the earliest one is found.
BuryLast(m, begin, end) ==
  LET left   == m.next[begin]
      turned == LinkBrackets([m EXCEPT !.tag[left] = "open_bracket", !.tag[end] = "close_bracket"], left, end)
  IN  SpliceToFreelist(ListSplice(turned, BuriedEnd, left, end), begin, begin)

\* The call becomes an entry of the store: its function and its closing bracket turn into brackets.
Bury(m, begin, end) ==
  LET left  == m.next[begin]
      turned == LinkBrackets([m EXCEPT !.tag[left] = "open_bracket", !.tag[end] = "close_bracket"], left, end)
  IN  SpliceToFreelist(ListSplice(turned, turned.next[BuriedBegin], left, end), begin, begin)

\* The value of the argument and that of the entry change places.
SwapValue(m, q, eq, begin, end) ==
  LET val == CorrectEvar(m, <<m.next[eq], m.prev[end]>>)
      old == CorrectEvar(m, q.value)
  IN  SpliceToFreelist(SpliceTevar(SpliceTevar(m, q.right, val), end, old), begin, end)

\* brrp_impl
BrRp(m, begin, end, replace) ==
  LET callee == m.next[begin]
      keys   == ShortestKey(m, <<m.next[callee], callee>>, end)
  IN  \/ keys = {} /\ Becomes(Exit(m, RecognitionImpossible))
      \/ \E key \in keys :
           LET query == IF replace THEN BuriedQuery(m, key, m.next[BuriedBegin]) ELSE {}
           IN  \/ query = {} /\ Becomes(Bury(m, begin, end))
               \/ \E q \in query : Becomes(SwapValue(m, q, m.next[key[2]], begin, end))

\* dgcp_impl
DgCp(m, begin, end, remove) ==
  LET clean == ResetAllocator(m)
      query == BuriedQuery(clean, <<m.next[m.next[begin]], m.prev[end]>>, m.next[BuriedBegin])
      Found(q) ==
        IF remove
        THEN SpliceToFreelist(SpliceTevar(clean, begin, CorrectEvar(clean, q.value)), q.left, q.right)
        ELSE SpliceFromFreelist(AllocTevar(clean, q.value[1], q.value[2]), begin)
  IN  \/ query = {} /\ Becomes(SpliceToFreelist(clean, begin, end))
      \/ \E q \in query : Becomes(SpliceToFreelist(Found(q), begin, end))

-----------------------------------------------------------------------------
(* Mu: the callee is looked up by the word, the char or the chars in        *)
(* brackets that follow; then the same call goes back on the stack.         *)

\* The metatable of the module: its functions and the metafunctions.
Metatable == Programs[prog].metatable \cup Special

Recall(m, begin, end) == PushStack(PushStack(m, end), begin)

MuWord(m, mu, x) ==
  IF m.info[x] \in Metatable \cup Entries
  THEN SpliceToFreelist(m, mu, mu)
  ELSE Exit(m, RecognitionImpossible)

MuChar(m, mu, x) ==
  LET named == {f \in Metatable : Spelling[f] = <<m.info[x]>>}
  IN  IF named = {}
      THEN Exit(m, RecognitionImpossible)
      ELSE SpliceToFreelist(SetInfo(m, mu, CHOOSE f \in named : TRUE), x, x)

\* The name is looked for in the metatable and then among all builtins; assert(callee == NULL)
\* says that it is not in both.
MuBrackets(m, mu, left, right) ==
  LET name    == Between(m, left, right)
      Is(f)   == [i \in 1 .. Len(name) |-> m.info[name[i]]] = Spelling[f]
      isChars == name # <<>> /\ \A i \in 1 .. Len(name) : m.tag[name[i]] = "char"
      local   == {f \in Metatable : Is(f)}
      library == {f \in DOMAIN Builtin : Is(f)}
  IN  CASE ~isChars \/ (local = {} /\ library = {}) -> Exit(m, RecognitionImpossible)
        [] isChars /\ local # {} /\ library # {} -> Exit(m, Aborted)
        [] OTHER ->
             SpliceToFreelist(SetInfo(m, mu, CHOOSE f \in local \cup library : TRUE), left, right)

Mu(m, begin, end) ==
  LET mu == m.next[begin]
      x  == m.next[mu]
  IN  Recall(CASE m.tag[x] = "function"     -> MuWord(m, mu, x)
               [] m.tag[x] = "char"         -> MuChar(m, mu, x)
               [] m.tag[x] = "open_bracket" -> MuBrackets(m, mu, x, m.info[x])
               [] OTHER                     -> Exit(m, RecognitionImpossible),
             begin, end)

-----------------------------------------------------------------------------
Init ==
  /\ prog \in DOMAIN Programs
  /\ pc = "init_view_field"
  /\ \E limit \in Limits[prog] : mem = InitialMemory(limit)

\* The call of GO; its brackets are not linked but on the stack.
InitViewField ==
  /\ pc = "init_view_field"
  /\ LET open  == AllocNode(ResetAllocator(mem), "open_call", NULL)
         name  == AllocNode(open, "function", Main)
         close == AllocNode(name, "close_call", NULL)
         pushed == PushStack(PushStack(close, LastAllocated(close)), LastAllocated(open))
     IN  Becomes(SpliceFromFreelist(pushed, pushed.next[ViewBegin]))

\* One iteration of main_loop: the callee is called with the brackets popped.
ArgBegin == mem.stack
ArgEnd   == mem.info[ArgBegin]
Popped   == {PopStack(PopStack(mem))}
Callee   == mem.next[ArgBegin]

Calling == pc = "main_loop" /\ mem.stack # NULL

CallingFunction(F) == Calling /\ mem.tag[Callee] = "function" /\ mem.info[Callee] \in F

Implementing(c) == {f \in DOMAIN Builtin : Builtin[f] = c}

\* A function the compiler generated: the first sentence that matches.
CallGenerated ==
  /\ CallingFunction(DOMAIN Programs[prog].sentences)
  /\ \E m \in Popped, sentences \in {Compiled[prog][mem.info[Callee]]} :
       LET match == FirstMatch(m, sentences, ArgBegin, ArgEnd)
       IN  \/ match = {} /\ Becomes(Exit(m, RecognitionImpossible))
           \/ \E x \in match : \E built \in {Built(m, x.sentence, x.p)} :
                Becomes(ReturnResult(built, ArgBegin, ArgEnd))

CallBr == CallingFunction(Implementing("Br")) /\ \E m \in Popped : BrRp(m, ArgBegin, ArgEnd, FALSE)
CallRp == CallingFunction(Implementing("Rp")) /\ \E m \in Popped : BrRp(m, ArgBegin, ArgEnd, TRUE)
CallDg == CallingFunction(Implementing("Dg")) /\ \E m \in Popped : DgCp(m, ArgBegin, ArgEnd, TRUE)
CallCp == CallingFunction(Implementing("Cp")) /\ \E m \in Popped : DgCp(m, ArgBegin, ArgEnd, FALSE)
CallMu == CallingFunction(Implementing("Mu")) /\ \E m \in Popped : Becomes(Mu(m, ArgBegin, ArgEnd))

\* r05_builtin_error
CallUp == CallingFunction(Implementing("Up")) /\ \E m \in Popped : Becomes(Exit(m, RecognitionImpossible))

CallFirst   == CallingFunction(Implementing("First")) /\ \E m \in Popped : Becomes(First(m, ArgBegin, ArgEnd))
CallLenw    == CallingFunction(Implementing("Lenw")) /\ \E m \in Popped : Becomes(Lenw(m, ArgBegin, ArgEnd))
CallType    == CallingFunction(Implementing("Type")) /\ \E m \in Popped : Becomes(Type(m, ArgBegin, ArgEnd))
CallExplode == CallingFunction(Implementing("Explode")) /\ \E m \in Popped : Becomes(Explode(m, ArgBegin, ArgEnd))
CallImplode == CallingFunction(Implementing("Implode")) /\ \E m \in Popped : Becomes(Implode(m, ArgBegin, ArgEnd))

CallImplodeExt ==
  /\ CallingFunction(Implementing("Implode_Ext"))
  /\ \E m \in Popped : Becomes(ImplodeExt(m, ArgBegin, ArgEnd))

CallConversion ==
  \E function \in {"Chr", "Ord", "Lower", "Upper"} :
    /\ CallingFunction(Implementing(function))
    /\ \E m \in Popped : Becomes(Convert(function, m, ArgBegin, ArgEnd))

\* r05_exit may be given 0, so that the status does not tell that the process has ended.
CallExit ==
  /\ CallingFunction(Implementing("Exit"))
  /\ ExitIsCalledRight(mem, ArgBegin, ArgEnd)
  /\ \E m \in Popped : mem' = [m EXCEPT !.exit = ExitStatus(mem, ArgBegin, ArgEnd)]
  /\ pc' = "exit"
  /\ UNCHANGED prog

CallExitWrong ==
  /\ CallingFunction(Implementing("Exit"))
  /\ ~ExitIsCalledRight(mem, ArgBegin, ArgEnd)
  /\ \E m \in Popped : Becomes(Exit(m, RecognitionImpossible))

\* r05_enum_function_code, or what follows the call bracket is no function at all.
CallNothing ==
  /\ Calling
  /\ ~CallingFunction(DOMAIN Programs[prog].sentences \cup DOMAIN Builtin)
  /\ \E m \in Popped : Becomes(Exit(m, RecognitionImpossible))

\* main_loop ends when the stack is empty, and main calls r05_exit(0).
Finish ==
  /\ pc = "main_loop" /\ mem.stack = NULL
  /\ pc' = "exit"
  /\ UNCHANGED <<prog, mem>>

Next ==
  \/ InitViewField
  \/ CallGenerated
  \/ CallBr \/ CallRp \/ CallDg \/ CallCp
  \/ CallMu \/ CallUp \/ CallNothing
  \/ CallFirst \/ CallLenw \/ CallType \/ CallExplode \/ CallConversion
  \/ CallImplode \/ CallImplodeExt
  \/ CallExit \/ CallExitWrong
  \/ Finish

Spec == Init /\ [][Next]_vars

-----------------------------------------------------------------------------
(* Properties.                                                              *)

\* The tokens that a sequence of nodes stands for.
Tokens(m, nodes) ==
  [i \in 1 .. Len(nodes) |->
    Token(m.tag[nodes[i]],
          IF IsOpen(m.tag[nodes[i]]) \/ IsClose(m.tag[nodes[i]]) THEN NoValue ELSE m.info[nodes[i]])]

Field(m) == Tokens(m, Contents(m, "view"))

\* The insides of the entries of the buried store.
Entry(m) ==
  LET s      == Tokens(m, Contents(m, "buried"))
      starts == SelectSeq([i \in 1 .. Len(s) |-> i], LAMBDA i : Depth(s, i - 1) = 0)
  IN  [k \in 1 .. Len(starts) |-> SubSeq(s, starts[k] + 1, TermEnd(s, starts[k]) - 1)]

TypeOK ==
  /\ prog \in DOMAIN Programs
  /\ pc \in {"init_view_field", "main_loop", "exit"}
  /\ mem \in Memory
  /\ mem.exit # 0 => pc = "exit"

(* No step loses a node or lets two lists share one, also one that fails: the nodes are of
   their types, the lists are well linked, and the free list, the view field and the buried
   store hold every node ever created once. *)
NodesConserved ==
  /\ TypeOK
  /\ IsLinked(mem)
  /\ LET all == Contents(mem, "free") \o Contents(mem, "view") \o Contents(mem, "buried")
     IN  Len(all) = mem.used /\ Addresses(all) = Owned(mem)

(* The links of round brackets join the two ends of a term, in the view field and in the
   buried store: copies, moves and the brackets Br makes of a call leave no link to the
   original, to a freed node or to nothing. *)
BracketsLinked ==
  \A l \in {"view", "buried"} :
    LET nodes == Contents(mem, l)
        s     == Tokens(mem, nodes)
    IN  \A i \in 1 .. Len(s) :
          /\ s[i].tag = "open_bracket" =>
               LET j == TermEnd(s, i)
               IN  /\ s[j].tag = "close_bracket"
                   /\ mem.info[nodes[i]] = nodes[j]
                   /\ mem.info[nodes[j]] = nodes[i]
          /\ l = "buried" => s[i].tag \notin {"open_call", "close_call"}

\* The stack from the top on.
Stack(m) ==
  LET walk[x \in Addr \cup {NULL}, fuel \in 0 .. MaxNode] ==
        IF x = NULL \/ fuel = 0 THEN <<>> ELSE <<x>> \o walk[m.info[x], fuel - 1]
  IN  walk[m.stack, MaxNode]

(* The call stack holds the call brackets of the view field and nothing else, each opening
   one before its closing one, in the order in which the calls must be made: a call comes
   after the calls inside of it and after every call that ends to the left of it. *)
CallsInOrder ==
  pc = "main_loop" =>
    LET nodes == Contents(mem, "view")
        s     == Tokens(mem, nodes)
        ends  == SelectSeq([i \in 1 .. Len(s) |-> i], LAMBDA i : s[i].tag = "close_call")
        open(j) == CHOOSE i \in 1 .. j : s[i].tag = "open_call" /\ TermEnd(s, i) = j
    IN  Stack(mem) = FlattenSeq([k \in 1 .. Len(ends) |-> <<nodes[open(ends[k])], nodes[ends[k]]>>])

(* docs/3-install-and-usage.md: a program that a builtin function stopped exits with 203. *)
BuiltinErrorExitCode ==
  [][CallUp => mem'.exit = 203]_vars

(* assert(callee == NULL) in Mu: no name is both in the metatable and in the library. *)
MuFindsOneFunction == mem.exit # Aborted
=============================================================================
