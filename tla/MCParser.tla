------------------------------ MODULE MCParser ------------------------------
(***************************************************************************)
(* BasicParser, and the Lexer in it, with a long text, a short one that is *)
(* read as an error, and what is left of the long one at the length of the *)
(* short one.  A file has one of the two, or a NUL with more behind it.    *)
(***************************************************************************)
EXTENDS BasicParser

MCTexts == {"short", "long", "head"}
MCCodes == [t \in MCTexts |-> CASE t = "short" -> <<"Error">>
                                [] t = "long"  -> <<"a", "Error">>
                                [] t = "head"  -> <<"a">>]
MCFiles == {"short", "long", "nul"}
MCBytes == [f \in MCFiles |-> IF f = "nul" THEN <<"a", "NUL", "Error">> ELSE MCCodes[f]]
MCSources == MCFiles \union {"none", "directory"}
=============================================================================
