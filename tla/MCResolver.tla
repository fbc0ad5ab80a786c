----------------------------- MODULE MCResolver -----------------------------
(***************************************************************************)
(* Resolver with two libraries, one that the second needs, and a broken    *)
(* one, and with names that spell a library in three ways, of which two    *)
(* are two platform images of one file, have a period in a directory, give *)
(* a type and parameters, or are no reference.  The second directory has a *)
(* file of the first library's name, which is never reached.               *)
(***************************************************************************)
EXTENDS Resolver

A == <<"a", ".", "so">>
B == <<"b", ".", "so">>
X == <<"x", ".", "so">>
DotA == <<".", "/">> \o A
\* Files: those of the second directory, and a library no client names.
OtherA == <<"2", "/">> \o A
L == <<"l", ".", "so">>

MCFiles == <<A :> A @@ DotA :> A @@ X :> X, B :> B @@ A :> OtherA @@ L :> L>>
MCBroken == {X, OtherA}
MCNeeds == A :> <<>> @@ OtherA :> <<>> @@ X :> <<>> @@ L :> <<>> @@ B :> <<L>>
MCDefines == (<<>>) :> {<<"f">>} @@ A :> {<<"f">>, <<"g">>} @@ B :> {<<"g">>} @@ L :> {<<"h">>}
             @@ X :> {} @@ OtherA :> {}
MCInitialiser == (<<>>) :> "none" @@ A :> "plain" @@ B :> "none" @@ L :> "resolves"
                 @@ X :> "plain" @@ OtherA :> "none"
MCCategories == {"resolve", "parser_a", "parser_b", "parser_l"}
MCNameOf == [c \in MCCategories |-> IF c = "resolve" THEN "resolve" ELSE "parser"]
MCRegisters == [S \in SUBSET ({A, OtherA, X, L, B} \union {<<>>}) |->
    (IF <<>> \in S THEN <<"resolve">> ELSE <<>>) \o (IF A \in S THEN <<"parser_a">> ELSE <<>>)
    \o (IF L \in S THEN <<"parser_l">> ELSE <<>>) \o (IF B \in S THEN <<"parser_b">> ELSE <<>>)]

MCImages == {<<"a">>, <<"b">>, <<"x">>, <<".", "\\", "a">>, <<".", "\\", "a", ".", "dll">>}

AG == <<"t", " ", "a", ":", "g", " ", "(", "t", ")">>
BH == <<"b", ".", "dll", ":", "h">>
G  == <<"g">>
Bad == <<"a", ":", "n", ":", "f">>
MCReferences == {AG, BH, G, Bad}
MCInitReference == <<"f">>
MCMeant ==
    AG :> [file |-> A, symbol |-> <<"g">>] @@ BH :> [file |-> B, symbol |-> <<"h">>]
    @@ G :> [file |-> <<>>, symbol |-> <<"g">>] @@ <<"f">> :> [file |-> <<>>, symbol |-> <<"f">>]

ASSUME MeantAssumption == ReadsAsMeant

MCLogLevels == {"", "Info"}
MCDebugLists == {<<>>, <<"all">>, <<"parser", "resolve">>}
=============================================================================
