------------------------------- MODULE Symbols -------------------------------
(***************************************************************************)
(* What Implode and Implode_Ext promise: a word denotes one function       *)
(* symbol for the life of the process.  A name of the library denotes the  *)
(* library's function, any other word gets a symbol of its own when it is  *)
(* first imploded.                                                         *)
(***************************************************************************)
CONSTANTS
  Words,      \* the strings that may be imploded
  Library     \* those that name a builtin function or an arithmetic alias

VARIABLES
  symbol,     \* word -> its symbol, for the words imploded so far
  result      \* the last call: the word and the symbol it got

NoCall == [word |-> "none", function |-> <<"none">>]

Init == symbol = <<>> /\ result = NoCall

Returns(w, f) == result' = [word |-> w, function |-> f]

ImplodeKnown(w) ==
  /\ w \in Library
  /\ Returns(w, <<"library", w>>)
  /\ UNCHANGED symbol

ImplodeAgain(w) ==
  /\ w \in DOMAIN symbol
  /\ Returns(w, <<"imploded", symbol[w]>>)
  /\ UNCHANGED symbol

ImplodeNew(w) ==
  /\ w \notin DOMAIN symbol \cup Library
  /\ DOMAIN symbol' = DOMAIN symbol \cup {w}
  /\ \A v \in DOMAIN symbol : symbol'[v] = symbol[v] /\ symbol[v] # symbol'[w]
  /\ Returns(w, <<"imploded", symbol'[w]>>)

Next == \E w \in Words : ImplodeKnown(w) \/ ImplodeAgain(w) \/ ImplodeNew(w)

Spec == Init /\ [][Next]_<<symbol, result>>
=============================================================================
