---------------------------- MODULE MCTokenizer ----------------------------
(***************************************************************************)
(* Tokenizer on every text of up to MaxText characters.                    *)
(***************************************************************************)
EXTENDS Tokenizer
=============================================================================
