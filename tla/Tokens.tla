------------------------------- MODULE Tokens -------------------------------
(***************************************************************************)
(* Characters and tokens (include/token.hpp).  At(text, n) is a character of *)
(* a text, Between(text, a, b) the text from a up to but not including b.    *)
(* The type of a token that has one spelling is that spelling.             *)
(***************************************************************************)
EXTENDS Integers, Sequences

CONSTANTS Letter, Digit

NUL == ""  \* what is read beyond the end of the text

Punctuation   == {"&", "(", ")", "{", "}", ",", ".", "-", "+", ";", "*"}
MayDouble     == {"!", "=", "<", ">"}  \* an operator alone, another before "="
Blank         == {" ", "\r", "\t", "\n"}
Keywords      == {"return", "int", "else", "if", "for"}
WordCharacter == Letter \cup Digit \cup {"_"}

ASSUME CharacterAssumption ==
    /\ Letter \cap Digit = {}
    /\ (Letter \cup Digit) \cap
           (Punctuation \cup MayDouble \cup Blank \cup {"/", "_", NUL}) = {}

Token(type, lexeme) == [type |-> type, lexeme |-> lexeme]
FEOF == Token("FEOF", "")

Between(text, a, b) == SubSeq(text, a, b - 1)
At(text, n)         == IF n \in 1..Len(text) THEN SubSeq(text, n, n) ELSE NUL

WordToken(text) ==
    IF text \in Keywords THEN Token(text, text) ELSE Token("identifier", text)
=============================================================================
