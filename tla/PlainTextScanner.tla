-------------------------- MODULE PlainTextScanner --------------------------
(***************************************************************************)
(* The scanner that lexer/PlainTextParser.cpp gives its lexer: a token for *)
(* each line and one for each end of a line.                               *)
(***************************************************************************)
EXTENDS ConcreteScanner

PlainTextGoesOn ==
    /\ Running("plaintext", "start") \/ Running("plaintext", "text")
    /\ Peek \notin {Nul, LineFeed}
    /\ Edits(Push, "text")

PlainText ==
    /\ \/ PlainTextGoesOn
       \/ Running("plaintext", "text") /\ Peek \in {Nul, LineFeed} /\ AcceptToken("Text", "returned")
       \/ Running("plaintext", "start") /\ Peek = LineFeed /\ Edits(Push, "newline")
       \/ Running("plaintext", "newline") /\ AcceptToken("NewLine", "returned")
       \/ Running("plaintext", "start") /\ Peek = Nul /\ Returns
    /\ UNCHANGED memo
=============================================================================
