--------------------------- MODULE MCConfiguration ---------------------------
(* Printers called a, with a number where the name is taken, "default", and *)
(* a.x; requests for all of them.                                           *)
EXTENDS Configuration, Sequences

MCParent == [n \in {"a.x"} |-> "a"]
MCNumbered == [a |-> << "a", "a2" >>, default |-> << "default" >>]
=============================================================================
