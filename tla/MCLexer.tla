------------------------------ MODULE MCLexer ------------------------------
(***************************************************************************)
(* Lexer with a short text and a long one.                                 *)
(***************************************************************************)
EXTENDS Lexer

MCTexts == {"short", "long"}
MCCodes == [t \in MCTexts |-> IF t = "short" THEN <<"a">> ELSE <<"b", "a">>]
=============================================================================
