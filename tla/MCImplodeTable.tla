---------------------------- MODULE MCImplodeTable ----------------------------
(* Five words and a name of the library; the hashes collide in small tables. *)
EXTENDS ImplodeTable

MCWords == {"Add", "a", "b", "c", "d", "e"}
MCLibrary == {"Add"}
MCHash == [w \in MCWords |->
            CASE w = "a" -> 0 [] w = "b" -> 2 [] w = "c" -> 5 [] w = "d" -> 7 [] w = "e" -> 12
              [] OTHER -> 1]
=============================================================================
