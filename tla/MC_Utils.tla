------------------------------ MODULE MC_Utils ------------------------------
(* Small character classes and widths for the utils helpers.  One letter   *)
(* per case class; "*" stands for a character outside every class the     *)
(* regexps name; strings of up to 4 characters with a name limit of 3, so  *)
(* that truncation happens; 4-bit integers.                                 *)
EXTENDS Utils, TLC

MC_Lower == {"a"}
MC_Upper == {"A"}
MC_LowerOf == [c \in {"A"} |-> "a"]
MC_Specials == {"-", "_", ".", "/", "*"}
MC_Seps == {<<>>, <<"-">>, <<":", ":">>}
=============================================================================
