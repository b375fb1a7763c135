----------------------------- MODULE Tokenizer -----------------------------
(***************************************************************************)
(* What a lexer promises: it cuts the text, from left to right and leaving    *)
(* nothing out, into the longest lexemes there are; blanks and comments give *)
(* no token, and a text that has no lexeme at some place is rejected there.   *)
(***************************************************************************)
EXTENDS Tokens

VARIABLES
    source,
    position,  \* where the rest of the text begins
    tokens,
    outcome    \* "nothing" yet, "done" or "rejected"

IsBlank(a, b) == b = a + 1 /\ At(source, a) \in Blank

IsComment(a, b) ==
    /\ At(source, a) = "/"
    /\ At(source, a + 1) = "/"
    /\ a + 2 <= b
    /\ \A n \in (a + 2)..(b - 1) : At(source, n) # "\n"

IsOperator(a, b) ==
    \/ /\ b = a + 1
       /\ At(source, a) \in Punctuation \cup MayDouble \cup {"/"}
    \/ /\ b = a + 2
       /\ At(source, a) \in MayDouble
       /\ At(source, a + 1) = "="

AreDigits(a, b) == \A n \in a..(b - 1) : At(source, n) \in Digit

IsNumber(a, b) ==
    /\ At(source, a) \in Digit
    /\ \/ AreDigits(a, b)
       \/ \E dot \in (a + 1)..(b - 2) :
              /\ At(source, dot) = "."
              /\ AreDigits(a, dot)
              /\ AreDigits(dot + 1, b)

IsWord(a, b) ==
    /\ At(source, a) \in Letter
    /\ \A n \in (a + 1)..(b - 1) : At(source, n) \in WordCharacter

IsLexeme(a, b) ==
    \/ IsBlank(a, b)
    \/ IsComment(a, b)
    \/ IsOperator(a, b)
    \/ IsNumber(a, b)
    \/ IsWord(a, b)

Ends == (position + 1)..(Len(source) + 1)

Longest(end) == \A longer \in Ends : longer > end => ~IsLexeme(position, longer)

(* The tokens, at most one, of the lexeme that ends there.                 *)
TokensOf(end) ==
    LET text == Between(source, position, end) IN
    IF IsNumber(position, end) THEN << Token("number", text) >>
    ELSE IF IsWord(position, end) THEN << WordToken(text) >>
    ELSE IF IsOperator(position, end) THEN << Token(text, text) >>
    ELSE << >>

Start ==
    /\ position = 1
    /\ tokens = << >>
    /\ outcome = "nothing"

Take ==
    \E end \in Ends :
        /\ position' = end
        /\ IsLexeme(position, end)
        /\ Longest(end)
        /\ tokens' = tokens \o TokensOf(end)
        /\ UNCHANGED <<source, outcome>>

Reject ==
    /\ position <= Len(source)
    /\ outcome' = "rejected"
    /\ \A end \in Ends : ~IsLexeme(position, end)
    /\ UNCHANGED <<source, position, tokens>>

Finish ==
    /\ position = Len(source) + 1
    /\ outcome' = "done"
    /\ tokens' = Append(tokens, FEOF)
    /\ UNCHANGED <<source, position>>

Next == outcome = "nothing" /\ (Take \/ Reject \/ Finish)

Spec == Start /\ [][Next]_<<source, position, tokens, outcome>>
=============================================================================
