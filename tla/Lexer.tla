------------------------------- MODULE Lexer -------------------------------
(***************************************************************************)
(* The lexer (src/lexer.cpp), a character a step: scanToken reads the first  *)
(* character of a lexeme and stays in one of its loops while the lexeme goes *)
(* on.  Positions count from 1; the line, which only a message tells, and    *)
(* the character NUL inside a text are left out.                           *)
(***************************************************************************)
EXTENDS Tokens

CONSTANTS Texts  \* the texts to lex

ASSUME TextsAssumption ==
    \A text \in Texts :
        /\ Len(text) \in Nat
        /\ \A a, b \in 1..Len(text) : SubSeq(text, a, b) \in STRING

VARIABLES
    source,
    start,     \* where the lexeme begins
    current,   \* the next character
    scanning,  \* "nothing", the loop that runs, or how it ended
    tokens

lexVars == <<source, start, current, scanning, tokens>>

ScanLoops == {"comment", "word", "number", "fraction"}

LexStart ==
    /\ start = 1
    /\ current = 1
    /\ scanning = "nothing"
    /\ tokens = << >>

LexInit == source \in Texts /\ LexStart

peek     == At(source, current)
peekNext == At(source, current + 1)

Lexeme(end) == Between(source, start, end)

(* One character further, in a loop.                                       *)
GoOn(loop) ==
    /\ scanning' = loop
    /\ current' = current + 1
    /\ UNCHANGED <<source, start, tokens>>

(* scanToken returns, and lex takes over what it has produced.             *)
Return(end, produced) ==
    /\ scanning' = "nothing"
    /\ current' = end
    /\ start' = end
    /\ tokens' = tokens \o produced
    /\ UNCHANGED source

-----------------------------------------------------------------------------
Fetch(characters) == scanning = "nothing" /\ peek \in characters

ScanPunctuation ==
    Fetch(Punctuation) /\ Return(current + 1, << Token(peek, peek) >>)

ScanOperator ==
    /\ Fetch(MayDouble)
    /\ LET end == current + (IF peekNext = "=" THEN 2 ELSE 1) IN
       Return(end, << Token(Lexeme(end), Lexeme(end)) >>)

ScanSlash ==
    /\ Fetch({"/"})
    /\ IF peekNext = "/" THEN GoOn("comment")
       ELSE Return(current + 1, << Token("/", "/") >>)

ScanBlank  == Fetch(Blank) /\ Return(current + 1, << >>)
ScanDigit  == Fetch(Digit) /\ GoOn("number")
ScanLetter == Fetch(Letter) /\ GoOn("word")

ScanOther ==
    /\ scanning = "nothing"
    /\ current <= Len(source)
    /\ peek \notin Punctuation \cup MayDouble \cup {"/"} \cup Blank \cup Digit \cup Letter
    /\ scanning' = "rejected"
    /\ UNCHANGED <<source, start, current, tokens>>

(* Mutant: a comment ends with its line only. *)
InComment_NoEnd ==
    /\ scanning = "comment"
    /\ IF peek # "\n" THEN GoOn("comment") ELSE Return(current, << >>)

InComment ==
    /\ scanning = "comment"
    /\ IF peek # "\n" /\ current <= Len(source) THEN GoOn("comment")
       ELSE Return(current, << >>)

InWord ==
    /\ scanning = "word"
    /\ IF peek \in WordCharacter THEN GoOn("word")
       ELSE Return(current, << WordToken(Lexeme(current)) >>)

(* Mutant: a dot belongs to the number whatever follows. *)
InNumber_AnyDot ==
    /\ scanning = "number"
    /\ IF peek \in Digit THEN GoOn("number")
       ELSE IF peek = "." THEN GoOn("fraction")
       ELSE Return(current, << Token("number", Lexeme(current)) >>)

InNumber ==
    /\ scanning = "number"
    /\ IF peek \in Digit THEN GoOn("number")
       ELSE IF peek = "." /\ peekNext \in Digit THEN GoOn("fraction")
       ELSE Return(current, << Token("number", Lexeme(current)) >>)

InFraction ==
    /\ scanning = "fraction"
    /\ IF peek \in Digit THEN GoOn("fraction")
       ELSE Return(current, << Token("number", Lexeme(current)) >>)

EndOfText ==
    /\ scanning = "nothing"
    /\ current > Len(source)
    /\ scanning' = "done"
    /\ tokens' = Append(tokens, FEOF)
    /\ UNCHANGED <<source, start, current>>

LexNext ==
    \/ ScanPunctuation \/ ScanOperator \/ ScanSlash \/ ScanBlank
    \/ ScanDigit \/ ScanLetter \/ ScanOther
    \/ InComment \/ InWord \/ InNumber \/ InFraction \/ EndOfText

LexSpec == LexInit /\ [][LexNext]_lexVars

-----------------------------------------------------------------------------
(* Every string is in STRING; the provers have to be told.                 *)
TokenSet == [type   : STRING \cup {"number", "identifier", "FEOF"},
             lexeme : STRING \cup {""}]

(* The lexer's variables have their types.                                 *)
LexTypeOK ==
    /\ source \in Texts
    /\ start \in 1..(Len(source) + 1)
    /\ current \in start..(Len(source) + 1)
    /\ scanning \in ScanLoops \cup {"nothing", "done", "rejected"}
    /\ tokens \in Seq(TokenSet)

(* The loops of scanToken take the longest lexeme there is: a comparison is *)
(* not two operators, a keyword at the start of a longer word is no keyword,*)
(* a dot after a number is taken when a digit follows, and nothing of the    *)
(* text is skipped or read twice.                                          *)
Promised ==
    INSTANCE Tokenizer
    WITH position <- start,
         outcome <- IF scanning \in ScanLoops THEN "nothing" ELSE scanning

LexesByLongestMatch == Promised!Spec
=============================================================================
