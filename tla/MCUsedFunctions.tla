--------------------------- MODULE MCUsedFunctions ---------------------------
(* Every file with the entry GO, the functions A and B and the $EXTERN X, whose bodies have
   up to two references in GO and one in A and in B. *)
EXTENDS UsedFunctions

MCNames == {"GO", "A", "B", "X", "Prout", "Mu", "Residue", "word"}
MCRegular == {"Prout"}
MCSpecial == {"Mu", "Residue"}

Short == {<<>>} \cup {<<r>> : r \in Ref}
Long  == Short \cup {<<p[1], p[2]>> : p \in {q \in Ref \X Ref : q[1] # q[2]}}

MCFiles ==
  {[scope |-> [n \in {"GO", "A", "B", "X"} |->
                 CASE n = "GO" -> "Entry" [] n = "X" -> "Extern" [] OTHER -> "Local"],
    body  |-> [n \in MCNames |-> CASE n = "GO" -> go [] n = "A" -> a [] n = "B" -> b [] OTHER -> <<>>],
    items |-> <<"X", "A", "GO", "B">>, entries |-> <<"GO">>] :
     go \in Long, a \in Short, b \in Short}
=============================================================================
