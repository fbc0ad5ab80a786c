--------------------------- MODULE NumberScanner ---------------------------
(***************************************************************************)
(* lexer/NumberScanner.cpp.  setup.number has the features that are set of *)
(* "scientific", "sign", "hex", "dollarHex" and "fractions".  A letter     *)
(* stands for both of its cases.  A stray character in line 188 of the     *)
(* source is taken for a slip: without it the file compiles.               *)
(***************************************************************************)
EXTENDS ConcreteScanner

Period == "."
Zero == "0"
NonZero == Digits \ {Zero}

\* What process() does with a character that goes into the number: in which
\* state, for which characters, the next state, and the feature it needs.
NumberMoves == {
    <<"start",     Signs,      "sign",       "sign">>,
    <<"start",     {Zero},     "zero",       "">>,
    <<"start",     NonZero,    "number",     "">>,
    <<"start",     {Period},   "leadPeriod", "fractions">>,
    <<"start",     {"$"},      "hexStart",   "dollarHex">>,
    <<"sign",      {Zero},     "zero",       "">>,
    <<"sign",      {Period},   "period",     "fractions">>,
    <<"sign",      NonZero,    "number",     "">>,
    <<"leadPeriod", Digits,    "float",      "">>,
    <<"period",    Digits,     "float",      "">>,
    <<"period",    {"e"},      "exponent",   "scientific">>,
    <<"zero",      {Zero},     "zero",       "">>,
    <<"zero",      NonZero,    "number",     "">>,
    <<"zero",      {Period},   "period",     "fractions">>,
    <<"zero",      {"x"},      "hexStart",   "hex">>,
    <<"number",    Digits,     "number",     "">>,
    <<"number",    {Period},   "period",     "fractions">>,
    <<"number",    {"e"},      "exponent",   "scientific">>,
    <<"float",     Digits,     "float",      "">>,
    <<"float",     {"e"},      "exponent",   "scientific">>,
    <<"exponent",  Signs,      "expSign",    "">>,
    <<"exponent",  Digits,     "expDigits",  "">>,
    <<"expSign",   Digits,     "expDigits",  "">>,
    <<"expDigits", Digits,     "expDigits",  "">>,
    <<"hexStart",  HexDigits,  "hex",        "">>,
    <<"hex",       HexDigits,  "hex",        "">> }

\* The code of a number that ends in a state, or that no number ends in it.
NumberCodes == [
    zero |-> "Integer", number |-> "Integer", float |-> "Float",
    expDigits |-> "Float", hex |-> "HexNumber",
    exponent |-> "Error", expSign |-> "Error", hexStart |-> "Error"]

NumberStates == {move[1] : move \in NumberMoves}

\* The moves for the next character.  A period with nothing before it has no
\* exponent.
MovesOf(place) ==
    {move \in NumberMoves :
        /\ move[1] = place
        /\ Peek \in move[2]
        /\ move[4] \in setup.number \union {""}
        /\ place = "period" /\ Peek = "e" => Len(CurrentToken) > 1}

\* A digit after a zero: the zero is dropped first.
Chops(place, move) == place = "zero" /\ move[2] \in {{Zero}, NonZero}

\* memo: the zero was dropped.
NumberMovesOn ==
    \E place \in NumberStates, move \in NumberMoves :
        /\ Running("number", place)
        /\ move \in MovesOf(place)
        /\ IF Chops(place, move) /\ memo # "chopped"
           THEN Edits(Chop(1), place) /\ memo' = "chopped"
           ELSE Edits(Push, move[3]) /\ memo' = "none"

\* Mutant: the period stays in the number.
NumberDropsPeriodNot ==
    /\ Running("number", "period")
    /\ MovesOf("period") = {}
    /\ GoesTo("integer")
    /\ UNCHANGED memo

\* A period without a digit is given back to the text.
NumberDropsPeriod ==
    /\ Running("number", "period")
    /\ MovesOf("period") = {}
    /\ Edits(PartialRewind(1), "integer")
    /\ UNCHANGED memo

NumberEnds ==
    /\ \/ Running("number", "integer") /\ AcceptToken("Integer", "returned")
       \/ \E place \in NumberStates \ {"period"} :
             /\ Running("number", place)
             /\ MovesOf(place) = {}
             /\ IF place \notin DOMAIN NumberCodes THEN Returns
                ELSE IF NumberCodes[place] = "Error" THEN AcceptError("returned")
                ELSE AcceptToken(NumberCodes[place], "returned")
    /\ UNCHANGED memo

Number == NumberMovesOn \/ NumberDropsPeriod \/ NumberEnds
=============================================================================
