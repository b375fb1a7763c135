---------------------------- MODULE LexerProofs ----------------------------
(***************************************************************************)
(* Proofs about Lexer, for every set of texts and every choice of letters    *)
(* and digits that are not special characters.                             *)
(***************************************************************************)
EXTENDS Lexer, TLAPS

(* What each loop of scanToken has read since start.                       *)
InComment_Read ==
    /\ start < current
    /\ At(source, start) = "/"
    /\ At(source, start + 1) = "/"
    /\ \A n \in (start + 2)..(current - 1) : At(source, n) # "\n"

InWord_Read == start < current /\ Promised!IsWord(start, current)

InNumber_Read ==
    start < current /\ Promised!AreDigits(start, current)

(* The first digit after the dot has been looked at, and may not be read.   *)
InFraction_Read ==
    \E dot \in (start + 1)..(current - 1) :
        /\ At(source, dot) = "."
        /\ Promised!AreDigits(start, dot)
        /\ Promised!AreDigits(dot + 1, current)
        /\ dot + 1 = current => peek \in Digit

ReadSoFar ==
    /\ scanning \notin ScanLoops => current = start
    /\ scanning = "comment"  => InComment_Read
    /\ scanning = "word"     => InWord_Read
    /\ scanning = "number"   => InNumber_Read
    /\ scanning = "fraction" => InFraction_Read

LexInv == LexTypeOK /\ ReadSoFar

-----------------------------------------------------------------------------
(* The tokenizer is about the same characters and tokens.                  *)
LEMMA Shared ==
    /\ \A n : Promised!At(source, n) = At(source, n)
    /\ \A a, b : Promised!Between(source, a, b) = Between(source, a, b)
    /\ Promised!Punctuation = Punctuation /\ Promised!MayDouble = MayDouble
    /\ Promised!Blank = Blank /\ Promised!WordCharacter = WordCharacter
    /\ \A type, lexeme : Promised!Token(type, lexeme) = Token(type, lexeme)
    /\ \A text : Promised!WordToken(text) = WordToken(text)
    /\ Promised!FEOF = FEOF
  BY DEF Promised!At, At, Promised!NUL, NUL, Promised!Between, Between,
         Promised!Punctuation, Punctuation, Promised!MayDouble, MayDouble,
         Promised!Blank, Blank, Promised!WordCharacter, WordCharacter,
         Promised!Token, Token, Promised!WordToken, WordToken, Promised!Keywords,
         Keywords, Promised!FEOF, FEOF

(* The length of the text that is lexed is a number.                       *)
LEMMA SourceLength ==
    ASSUME LexTypeOK
    PROVE  /\ Len(source) \in Nat /\ start \in Nat /\ current \in Nat
           /\ start >= 1 /\ current >= 1
  BY TextsAssumption DEF LexTypeOK

(* What is read beyond the text is in no class of characters.              *)
LEMMA InsideText ==
    ASSUME LexTypeOK, NEW n \in Nat, n >= 1, At(source, n) # NUL
    PROVE  n <= Len(source)
  BY SourceLength DEF At

LEMMA NextInsideText ==
    ASSUME LexTypeOK, peek # NUL
    PROVE  current <= Len(source)
  BY InsideText, SourceLength DEF peek

(* No character is in two classes, and NUL is in none.                     *)
LEMMA ClassesDisjoint ==
    /\ \A c \in Letter : c \notin Digit \cup Punctuation \cup MayDouble \cup Blank
    /\ \A c \in Digit : c \notin Punctuation \cup MayDouble \cup Blank
    /\ \A c \in Punctuation : c \notin MayDouble \cup Blank
    /\ \A c \in MayDouble : c \notin Blank
    /\ "/" \notin Letter \cup Digit \cup Punctuation \cup MayDouble \cup Blank
    /\ "." \notin Digit
    /\ NUL \notin Letter \cup Digit \cup {"_"} \cup Punctuation \cup MayDouble \cup Blank
    /\ "=" # NUL /\ "." # NUL /\ "/" # NUL
  BY CharacterAssumption DEF Punctuation, MayDouble, Blank, NUL

(* A lexeme and the text of its token are strings.                         *)
LEMMA TextIsString ==
    ASSUME LexTypeOK, NEW end \in (start + 1)..(Len(source) + 1)
    PROVE  Lexeme(end) \in STRING
  <1>1. start \in 1..Len(source) /\ end - 1 \in 1..Len(source)
    BY SourceLength DEF LexTypeOK
  <1> QED
    BY <1>1, TextsAssumption DEF LexTypeOK, Lexeme, Between

(* The one character at the start, as a text.                              *)
LEMMA OneCharacter ==
    ASSUME LexTypeOK, start <= Len(source)
    PROVE  Lexeme(start + 1) = At(source, start)
  <1>1. (start + 1) - 1 = start /\ start \in 1..Len(source)
    BY SourceLength DEF LexTypeOK
  <1> QED
    BY <1>1 DEF Lexeme, Between, At

-----------------------------------------------------------------------------
(* A step of scanToken that returns the longest lexeme is a step of the     *)
(* tokenizer.                                                              *)
LEMMA LexemeTaken ==
    ASSUME scanning \in ScanLoops \cup {"nothing"},
           NEW end \in Promised!Ends,
           Promised!IsLexeme(start, end),
           Promised!Longest(end),
           Return(end, Promised!TokensOf(end))
    PROVE  Promised!Next
  BY DEF Promised!Next, Promised!Take, Return, ScanLoops

(* Going on in a loop is nothing the tokenizer does.                       *)
LEMMA GoingOn ==
    ASSUME scanning \in ScanLoops \cup {"nothing"}, NEW loop \in ScanLoops, GoOn(loop)
    PROVE  UNCHANGED <<source, start, tokens,
                       IF scanning \in ScanLoops THEN "nothing" ELSE scanning>>
  BY DEF GoOn, ScanLoops

-----------------------------------------------------------------------------
(* The class of the first character decides what a lexeme can be.          *)
LEMMA FirstCharacter ==
    ASSUME NEW b
    PROVE  /\ Promised!IsBlank(start, b)    => At(source, start) \in Blank
           /\ Promised!IsComment(start, b)  => At(source, start) = "/"
           /\ Promised!IsOperator(start, b) =>
                  At(source, start) \in Punctuation \cup MayDouble \cup {"/"}
           /\ Promised!IsNumber(start, b)   => At(source, start) \in Digit
           /\ Promised!IsWord(start, b)     => At(source, start) \in Letter
  BY Shared DEF Promised!IsBlank, Promised!IsComment, Promised!IsOperator,
         Promised!IsNumber, Promised!IsWord

(* An operator is one character, or a comparison of two.                   *)
LEMMA OperatorEnds ==
    ASSUME LexTypeOK, At(source, start) \in Punctuation \cup MayDouble \cup {"/"},
           start <= Len(source),
           NEW end \in Promised!Ends,
           end = IF At(source, start) \in MayDouble /\ At(source, start + 1) = "="
                   THEN start + 2 ELSE start + 1,
           At(source, start) = "/" => At(source, start + 1) # "/"
    PROVE  /\ Promised!IsLexeme(start, end)
           /\ Promised!Longest(end)
           /\ Promised!TokensOf(end) = << Token(Lexeme(end), Lexeme(end)) >>
  <1>1. /\ At(source, start) \notin Blank
        /\ At(source, start) \notin Digit
        /\ At(source, start) \notin Letter
    BY ClassesDisjoint
  <1>2. Promised!IsOperator(start, end)
    BY Shared, SourceLength DEF Promised!IsOperator
  <1>3. \A b : ~Promised!IsBlank(start, b) /\ ~Promised!IsComment(start, b)
               /\ ~Promised!IsNumber(start, b) /\ ~Promised!IsWord(start, b)
    <2> SUFFICES ASSUME NEW b
                 PROVE  ~Promised!IsBlank(start, b) /\ ~Promised!IsComment(start, b)
                        /\ ~Promised!IsNumber(start, b) /\ ~Promised!IsWord(start, b)
      OBVIOUS
    <2>1. ~Promised!IsComment(start, b)
      BY Shared DEF Promised!IsComment
    <2> QED
      BY <1>1, <2>1, FirstCharacter
  <1>4. Promised!Longest(end)
    <2> SUFFICES ASSUME NEW longer \in Promised!Ends, longer > end,
                        Promised!IsOperator(start, longer)
                 PROVE  FALSE
      BY <1>3 DEF Promised!Longest, Promised!IsLexeme
    <2> QED
      BY Shared, SourceLength DEF Promised!IsOperator, Promised!Ends
  <1> QED
    BY Shared, <1>2, <1>3, <1>4 DEF Promised!IsLexeme, Promised!TokensOf, Lexeme

(* A comment reaches to the end of its line.                               *)
LEMMA CommentEnds ==
    ASSUME LexTypeOK, InComment_Read, peek = "\n" \/ current > Len(source)
    PROVE  /\ current \in Promised!Ends
           /\ Promised!IsLexeme(start, current)
           /\ Promised!Longest(current)
           /\ Promised!TokensOf(current) = << >>
  <1>1. start + 1 <= Len(source)
    <2>1. start + 1 \in Nat /\ start + 1 >= 1
      BY SourceLength
    <2>2. At(source, start + 1) # NUL
      BY DEF InComment_Read, NUL
    <2> QED
      BY <2>1, <2>2, InsideText
  <1>2. start + 2 <= current
    <2> SUFFICES ASSUME current = start + 1 PROVE FALSE
      BY SourceLength DEF InComment_Read
    <2> QED
      BY <1>1 DEF InComment_Read, peek
  <1>3. current \in Promised!Ends
    BY <1>2, SourceLength DEF LexTypeOK, Promised!Ends
  <1>4. Promised!IsComment(start, current)
    BY Shared, <1>2 DEF InComment_Read, Promised!IsComment
  <1>5. /\ At(source, start) = "/"
        /\ At(source, start) \notin Blank \cup Digit \cup Letter \cup MayDouble
    BY ClassesDisjoint DEF InComment_Read
  <1>6. \A end \in Promised!Ends :
            end >= current => /\ ~Promised!IsBlank(start, end)
                              /\ ~Promised!IsNumber(start, end)
                              /\ ~Promised!IsWord(start, end)
                              /\ ~Promised!IsOperator(start, end)
    <2> SUFFICES ASSUME NEW end \in Promised!Ends, end >= current
                 PROVE  /\ ~Promised!IsBlank(start, end)
                        /\ ~Promised!IsNumber(start, end)
                        /\ ~Promised!IsWord(start, end)
                        /\ ~Promised!IsOperator(start, end)
      OBVIOUS
    <2>1. ~Promised!IsOperator(start, end)
      BY Shared, <1>2, <1>5, SourceLength DEF Promised!IsOperator, Promised!Ends
    <2> QED
      BY <1>5, <2>1, FirstCharacter
  <1>7. Promised!Longest(current)
    <2> SUFFICES ASSUME NEW longer \in Promised!Ends, longer > current,
                        Promised!IsComment(start, longer)
                 PROVE  FALSE
      BY <1>6, SourceLength DEF Promised!Longest, Promised!IsLexeme, Promised!Ends
    <2>1. peek = "\n"
      BY SourceLength DEF Promised!Ends
    <2>2. current \in (start + 2)..(longer - 1)
      BY <1>2, SourceLength DEF Promised!Ends
    <2> QED
      BY Shared, <2>1, <2>2 DEF Promised!IsComment, peek
  <1>8. Promised!TokensOf(current) = << >>
    BY Shared, <1>3, <1>6, SourceLength DEF Promised!TokensOf
  <1> QED
    BY <1>3, <1>4, <1>7, <1>8 DEF Promised!IsLexeme

(* A word reaches to the first character that belongs in none.             *)
LEMMA WordEnds ==
    ASSUME LexTypeOK, InWord_Read, peek \notin WordCharacter
    PROVE  /\ current \in Promised!Ends
           /\ Promised!IsLexeme(start, current)
           /\ Promised!Longest(current)
           /\ Promised!TokensOf(current) = << WordToken(Lexeme(current)) >>
  <1>1. current \in Promised!Ends
    BY SourceLength DEF LexTypeOK, InWord_Read, Promised!Ends
  <1>2. /\ At(source, start) \in Letter
        /\ At(source, start) \notin Blank \cup Digit \cup Punctuation \cup MayDouble \cup {"/"}
    BY Shared, ClassesDisjoint DEF InWord_Read, Promised!IsWord
  <1>3. \A end : ~Promised!IsBlank(start, end) /\ ~Promised!IsComment(start, end)
                 /\ ~Promised!IsNumber(start, end) /\ ~Promised!IsOperator(start, end)
    BY <1>2, FirstCharacter
  <1>4. Promised!Longest(current)
    <2> SUFFICES ASSUME NEW longer \in Promised!Ends, longer > current,
                        Promised!IsWord(start, longer)
                 PROVE  FALSE
      BY <1>3 DEF Promised!Longest, Promised!IsLexeme
    <2>1. current \in (start + 1)..(longer - 1)
      BY SourceLength DEF Promised!Ends, InWord_Read
    <2> QED
      BY Shared, <2>1 DEF Promised!IsWord, peek
  <1> QED
    BY Shared, <1>1, <1>3, <1>4
    DEF InWord_Read, Promised!IsLexeme, Promised!TokensOf, Lexeme

(* What is a number so far, and cannot go on, is the longest lexeme.       *)
LEMMA NumberEnds ==
    ASSUME LexTypeOK, start < current, Promised!IsNumber(start, current),
           \A longer \in Promised!Ends : longer > current => ~Promised!IsNumber(start, longer)
    PROVE  /\ current \in Promised!Ends
           /\ Promised!IsLexeme(start, current)
           /\ Promised!Longest(current)
           /\ Promised!TokensOf(current) = << Token("number", Lexeme(current)) >>
  <1>1. current \in Promised!Ends
    BY SourceLength DEF LexTypeOK, Promised!Ends
  <1>2. /\ At(source, start) \in Digit
        /\ At(source, start) \notin Blank \cup Letter \cup Punctuation \cup MayDouble \cup {"/"}
    BY ClassesDisjoint, FirstCharacter
  <1>3. \A end : ~Promised!IsBlank(start, end) /\ ~Promised!IsComment(start, end)
                 /\ ~Promised!IsWord(start, end) /\ ~Promised!IsOperator(start, end)
    BY <1>2, FirstCharacter
  <1> QED
    BY Shared, <1>1, <1>3 DEF Promised!Longest, Promised!IsLexeme, Promised!TokensOf, Lexeme

(* Digits, and no digit or dot with a digit after it follows.              *)
LEMMA IntegerEnds ==
    ASSUME LexTypeOK, InNumber_Read, peek \notin Digit,
           ~(peek = "." /\ peekNext \in Digit)
    PROVE  /\ Promised!IsNumber(start, current)
           /\ \A longer \in Promised!Ends :
                  longer > current => ~Promised!IsNumber(start, longer)
  <1>1. start \in start..(current - 1) /\ At(source, start) \in Digit
    BY Shared, SourceLength DEF InNumber_Read, Promised!AreDigits
  <1>2. Promised!IsNumber(start, current)
    BY Shared, <1>1 DEF InNumber_Read, Promised!IsNumber
  <1>3. ASSUME NEW longer \in Promised!Ends, longer > current,
               Promised!IsNumber(start, longer)
        PROVE  FALSE
    <2>1. longer \in Nat /\ current \in start..(longer - 1)
      BY <1>3, SourceLength DEF Promised!Ends, InNumber_Read
    <2>2. ~Promised!AreDigits(start, longer)
      BY Shared, <2>1 DEF Promised!AreDigits, peek
    <2>3. PICK dot \in (start + 1)..(longer - 2) :
                   /\ At(source, dot) = "."
                   /\ Promised!AreDigits(start, dot)
                   /\ Promised!AreDigits(dot + 1, longer)
      BY Shared, <1>3, <2>2 DEF Promised!IsNumber
    <2>4. CASE dot < current
      <3>1. dot \in start..(current - 1)
        BY <2>4, <2>1, SourceLength
      <3> QED
        BY Shared, <3>1, <2>3, ClassesDisjoint DEF InNumber_Read, Promised!AreDigits
    <2>5. CASE dot = current
      <3>1. current + 1 \in (dot + 1)..(longer - 1)
        BY <2>5, <2>1, SourceLength
      <3> QED
        BY Shared, <3>1, <2>3, <2>5 DEF Promised!AreDigits, peek, peekNext
    <2>6. CASE dot > current
      <3>1. current \in start..(dot - 1)
        BY <2>6, <2>1, SourceLength
      <3> QED
        BY Shared, <3>1, <2>3 DEF Promised!AreDigits, peek
    <2> QED
      BY <2>1, <2>4, <2>5, <2>6, SourceLength
  <1> QED
    BY <1>2, <1>3

(* Digits behind the dot, and no digit follows.                            *)
LEMMA FractionEnds ==
    ASSUME LexTypeOK, InFraction_Read, peek \notin Digit
    PROVE  /\ start < current
           /\ Promised!IsNumber(start, current)
           /\ \A longer \in Promised!Ends :
                  longer > current => ~Promised!IsNumber(start, longer)
  <1>1. PICK dot \in (start + 1)..(current - 1) :
                 /\ At(source, dot) = "."
                 /\ Promised!AreDigits(start, dot)
                 /\ Promised!AreDigits(dot + 1, current)
                 /\ dot + 1 = current => peek \in Digit
    BY DEF InFraction_Read
  <1>2. dot \in (start + 1)..(current - 2) /\ start \in start..(dot - 1)
    BY <1>1, SourceLength
  <1>3. At(source, start) \in Digit
    BY Shared, <1>1, <1>2 DEF Promised!AreDigits
  <1>4. Promised!IsNumber(start, current)
    BY Shared, <1>1, <1>2, <1>3 DEF Promised!IsNumber
  <1>5. ASSUME NEW longer \in Promised!Ends, longer > current,
               Promised!IsNumber(start, longer)
        PROVE  FALSE
    <2>1. longer \in Nat /\ dot \in start..(longer - 1)
      BY <1>2, <1>5, SourceLength DEF Promised!Ends
    <2>2. ~Promised!AreDigits(start, longer)
      BY Shared, <1>1, <2>1, ClassesDisjoint DEF Promised!AreDigits
    <2>3. PICK other \in (start + 1)..(longer - 2) :
                   /\ At(source, other) = "."
                   /\ Promised!AreDigits(start, other)
                   /\ Promised!AreDigits(other + 1, longer)
      BY Shared, <1>5, <2>2 DEF Promised!IsNumber
    <2>4. CASE other < dot
      <3>1. other \in start..(dot - 1)
        BY <1>2, <2>4, SourceLength
      <3> QED
        BY Shared, <3>1, <1>1, <2>3, ClassesDisjoint DEF Promised!AreDigits
    <2>5. CASE other = dot
      <3>1. current \in (other + 1)..(longer - 1)
        BY <1>2, <1>5, <2>1, <2>5, SourceLength
      <3> QED
        BY Shared, <3>1, <2>3 DEF Promised!AreDigits, peek
    <2>6. CASE other > dot
      <3>1. dot \in start..(other - 1)
        BY <1>2, <2>6, SourceLength
      <3> QED
        BY Shared, <3>1, <1>1, <2>3, ClassesDisjoint DEF Promised!AreDigits
    <2> QED
      BY <1>2, <2>4, <2>5, <2>6, SourceLength
  <1> QED
    BY <1>2, <1>4, <1>5, SourceLength

-----------------------------------------------------------------------------
(* One character further keeps the places inside the text.                 *)
LEMMA GoOnTyped ==
    ASSUME LexTypeOK, current <= Len(source), NEW loop \in ScanLoops, GoOn(loop)
    PROVE  LexTypeOK'
  BY SourceLength DEF LexTypeOK, GoOn

(* So does returning a token, or none.                                     *)
LEMMA ReturnKeeps ==
    ASSUME LexTypeOK, NEW end \in current..(Len(source) + 1),
           NEW produced \in Seq(TokenSet), Return(end, produced)
    PROVE  LexTypeOK' /\ ReadSoFar'
  <1>1. tokens \o produced \in Seq(TokenSet)
    BY DEF LexTypeOK
  <1>2. end \in 1..(Len(source) + 1) /\ end \in end..(Len(source) + 1)
    BY SourceLength DEF LexTypeOK
  <1> QED
    BY <1>1, <1>2 DEF LexTypeOK, ReadSoFar, Return, ScanLoops, TokenSet

(* One token with a text of the source.                                    *)
LEMMA OneToken ==
    ASSUME NEW lexeme \in STRING
    PROVE  /\ << Token(lexeme, lexeme) >> \in Seq(TokenSet)
           /\ << Token("number", lexeme) >> \in Seq(TokenSet)
           /\ << WordToken(lexeme) >> \in Seq(TokenSet)
  <1>1. Token("number", lexeme) \in TokenSet
    BY DEF Token, TokenSet
  <1>2. Token(lexeme, lexeme) \in TokenSet /\ Token("identifier", lexeme) \in TokenSet
    BY DEF Token, TokenSet
  <1>3. WordToken(lexeme) \in TokenSet
    BY <1>2 DEF WordToken
  <1>4. \A token \in TokenSet : << token >> \in Seq(TokenSet)
    OBVIOUS
  <1> QED
    BY <1>1, <1>2, <1>3, <1>4

(* A character that scanToken has fetched is in the text.                  *)
LEMMA Fetched ==
    ASSUME LexInv, NEW characters, Fetch(characters), NUL \notin characters
    PROVE  /\ current = start
           /\ current <= Len(source)
           /\ peek = At(source, start)
           /\ peek \in STRING
           /\ Lexeme(start + 1) = peek
  <1>1. current = start
    BY DEF LexInv, ReadSoFar, Fetch, ScanLoops
  <1>2. current <= Len(source)
    BY InsideText, SourceLength DEF LexInv, LexTypeOK, Fetch, peek
  <1>3. Lexeme(start + 1) \in STRING
    BY <1>1, <1>2, SourceLength, TextIsString DEF LexInv, LexTypeOK
  <1> QED
    BY <1>1, <1>2, <1>3, OneCharacter DEF LexInv, peek

-----------------------------------------------------------------------------
(* The actions, each with what it does to the invariant and to the          *)
(* tokenizer.                                                              *)
TokenizerVars ==
    <<source, start, tokens, IF scanning \in ScanLoops THEN "nothing" ELSE scanning>>

Simulated == Promised!Next \/ UNCHANGED TokenizerVars

LEMMA ScanPunctuationStep ==
    ASSUME LexInv, ScanPunctuation
    PROVE  LexInv' /\ Simulated
  <1>1. /\ current = start /\ current <= Len(source)
        /\ peek = At(source, start) /\ peek \in STRING /\ Lexeme(start + 1) = peek
    BY Fetched, ClassesDisjoint DEF ScanPunctuation
  <1>2. peek \in Punctuation /\ peek \notin MayDouble /\ peek # "/"
    BY ClassesDisjoint DEF ScanPunctuation, Fetch, Punctuation
  <1>3. /\ start + 1 \in Promised!Ends
        /\ start + 1 \in current..(Len(source) + 1)
    BY <1>1, SourceLength DEF LexInv, Promised!Ends
  <1>4. Return(start + 1, << Token(peek, peek) >>) /\ scanning = "nothing"
    BY <1>1 DEF ScanPunctuation, Fetch
  <1>5. LexInv'
    BY <1>1, <1>3, <1>4, OneToken, ReturnKeeps DEF LexInv
  <1>6. /\ Promised!IsLexeme(start, start + 1)
        /\ Promised!Longest(start + 1)
        /\ Promised!TokensOf(start + 1) = << Token(peek, peek) >>
    BY <1>1, <1>2, <1>3, OperatorEnds DEF LexInv
  <1>7. Promised!Next
    BY <1>3, <1>4, <1>6, LexemeTaken
  <1> QED
    BY <1>5, <1>7 DEF Simulated

LEMMA ScanOperatorStep ==
    ASSUME LexInv, ScanOperator
    PROVE  LexInv' /\ Simulated
  <1> DEFINE end == start + (IF peekNext = "=" THEN 2 ELSE 1)
  <1>1. /\ current = start /\ current <= Len(source) /\ peek = At(source, start)
    BY Fetched, ClassesDisjoint DEF ScanOperator
  <1>2. peek \in MayDouble /\ peek # "/"
    BY DEF ScanOperator, Fetch, MayDouble
  <1>3. peekNext = At(source, start + 1)
    BY <1>1 DEF peekNext
  <1>4. peekNext = "=" => start + 1 <= Len(source)
    <2> SUFFICES ASSUME peekNext = "=" PROVE start + 1 <= Len(source)
      OBVIOUS
    <2>1. start + 1 \in Nat /\ start + 1 >= 1
      BY SourceLength DEF LexInv
    <2>2. At(source, start + 1) # NUL
      BY <1>3 DEF NUL
    <2> QED
      BY <2>1, <2>2, InsideText DEF LexInv
  <1>5. /\ end \in Promised!Ends
        /\ end \in current..(Len(source) + 1)
        /\ end \in (start + 1)..(Len(source) + 1)
    BY <1>1, <1>4, SourceLength DEF LexInv, Promised!Ends
  <1>6. Return(end, << Token(Lexeme(end), Lexeme(end)) >>) /\ scanning = "nothing"
    BY <1>1 DEF ScanOperator, Fetch
  <1>7. LexInv'
    <2>1. Lexeme(end) \in STRING
      BY <1>5, TextIsString DEF LexInv
    <2> QED
      BY <1>5, <1>6, <2>1, OneToken, ReturnKeeps DEF LexInv
  <1>8. /\ Promised!IsLexeme(start, end)
        /\ Promised!Longest(end)
        /\ Promised!TokensOf(end) = << Token(Lexeme(end), Lexeme(end)) >>
    BY <1>1, <1>2, <1>3, <1>5, OperatorEnds DEF LexInv
  <1>9. Promised!Next
    BY <1>5, <1>6, <1>8, LexemeTaken
  <1> QED
    BY <1>7, <1>9 DEF Simulated

(* In the first two characters of a comment, of a blank and of a loop that   *)
(* begins nothing is decided yet.                                          *)
LEMMA ScanSlashStep ==
    ASSUME LexInv, ScanSlash
    PROVE  LexInv' /\ Simulated
  <1>1. /\ current = start /\ current <= Len(source) /\ peek = At(source, start)
    BY Fetched, ClassesDisjoint DEF ScanSlash
  <1>2. peek = "/" /\ scanning = "nothing" /\ peekNext = At(source, start + 1)
    BY <1>1 DEF ScanSlash, Fetch, peekNext
  <1>3. CASE peekNext = "/"
    <2>1. GoOn("comment")
      BY <1>3 DEF ScanSlash
    <2>2. LexTypeOK'
      BY <1>1, <2>1, GoOnTyped DEF LexInv, ScanLoops
    <2>3. ReadSoFar'
      <3>1. current' = start + 1 /\ start' = start /\ source' = source
        BY <1>1, <2>1 DEF GoOn
      <3>2. start \in Nat /\ (start + 2)..((start + 1) - 1) = {}
        BY SourceLength DEF LexInv
      <3>3. (InComment_Read)'
        BY <1>1, <1>2, <1>3, <3>1, <3>2 DEF InComment_Read, At, NUL
      <3> QED
        BY <2>1, <3>3 DEF ReadSoFar, GoOn, ScanLoops
    <2>4. UNCHANGED TokenizerVars
      BY <1>2, <2>1 DEF GoOn, TokenizerVars, ScanLoops
    <2> QED
      BY <2>2, <2>3, <2>4 DEF LexInv, Simulated
  <1>4. CASE peekNext # "/"
    <2>1. Return(start + 1, << Token("/", "/") >>)
      BY <1>1, <1>4 DEF ScanSlash
    <2>2. start + 1 \in Promised!Ends /\ start + 1 \in current..(Len(source) + 1)
      BY <1>1, SourceLength DEF LexInv, Promised!Ends
    <2>3. LexInv'
      <3>1. "/" \in STRING
        BY <1>2, Fetched, ClassesDisjoint DEF ScanSlash
      <3>2. << Token("/", "/") >> \in Seq(TokenSet)
        BY <3>1, OneToken
      <3> QED
        BY <2>1, <2>2, <3>2, ReturnKeeps DEF LexInv
    <2>4. "/" \notin MayDouble /\ Lexeme(start + 1) = "/"
      BY <1>1, <1>2, OneCharacter, ClassesDisjoint DEF LexInv
    <2>5. /\ Promised!IsLexeme(start, start + 1)
          /\ Promised!Longest(start + 1)
          /\ Promised!TokensOf(start + 1) = << Token("/", "/") >>
      BY <1>1, <1>2, <1>4, <2>2, <2>4, OperatorEnds DEF LexInv
    <2>6. Promised!Next
      BY <1>2, <2>1, <2>2, <2>5, LexemeTaken
    <2> QED
      BY <2>3, <2>6 DEF Simulated
  <1> QED
    BY <1>3, <1>4

LEMMA ScanBlankStep ==
    ASSUME LexInv, ScanBlank
    PROVE  LexInv' /\ Simulated
  <1>1. /\ current = start /\ current <= Len(source) /\ peek = At(source, start)
    BY Fetched, ClassesDisjoint DEF ScanBlank
  <1>2. peek \in Blank /\ scanning = "nothing"
    BY DEF ScanBlank, Fetch
  <1>3. Return(start + 1, << >>)
    BY <1>1 DEF ScanBlank
  <1>4. start + 1 \in Promised!Ends /\ start + 1 \in current..(Len(source) + 1)
    BY <1>1, SourceLength DEF LexInv, Promised!Ends
  <1>5. LexInv'
    <2>1. << >> \in Seq(TokenSet)
      OBVIOUS
    <2> QED
      BY <1>3, <1>4, <2>1, ReturnKeeps DEF LexInv
  <1>6. \A b : /\ ~Promised!IsComment(start, b) /\ ~Promised!IsOperator(start, b)
               /\ ~Promised!IsNumber(start, b) /\ ~Promised!IsWord(start, b)
    BY <1>1, <1>2, FirstCharacter, ClassesDisjoint
  <1>7. Promised!IsBlank(start, start + 1)
    BY Shared, <1>1, <1>2 DEF Promised!IsBlank
  <1>8. Promised!Longest(start + 1)
    BY <1>4, <1>6, SourceLength
    DEF LexInv, Promised!Longest, Promised!IsLexeme, Promised!IsBlank, Promised!Ends
  <1>9. Promised!Next
    BY <1>2, <1>3, <1>4, <1>6, <1>7, <1>8, LexemeTaken
    DEF Promised!IsLexeme, Promised!TokensOf
  <1> QED
    BY <1>5, <1>9 DEF Simulated

LEMMA ScanDigitStep ==
    ASSUME LexInv, ScanDigit
    PROVE  LexInv' /\ Simulated
  <1>1. /\ current = start /\ current <= Len(source) /\ peek = At(source, start)
    BY Fetched, ClassesDisjoint DEF ScanDigit
  <1>2. peek \in Digit /\ scanning = "nothing" /\ GoOn("number")
    BY DEF ScanDigit, Fetch
  <1>3. LexTypeOK'
    BY <1>1, <1>2, GoOnTyped DEF LexInv, ScanLoops
  <1>4. (InNumber_Read)'
    <2>1. current' = start + 1 /\ start' = start /\ source' = source
      BY <1>1, <1>2 DEF GoOn
    <2>2. start \in Nat /\ start..((start + 1) - 1) = {start}
      BY SourceLength DEF LexInv
    <2> QED
      BY <1>1, <1>2, <2>1, <2>2, Shared DEF InNumber_Read, Promised!AreDigits
  <1>5. LexInv'
    BY <1>2, <1>3, <1>4 DEF LexInv, ReadSoFar, GoOn, ScanLoops
  <1>6. UNCHANGED TokenizerVars
    BY <1>2 DEF GoOn, TokenizerVars, ScanLoops
  <1> QED
    BY <1>5, <1>6 DEF Simulated

LEMMA ScanLetterStep ==
    ASSUME LexInv, ScanLetter
    PROVE  LexInv' /\ Simulated
  <1>1. /\ current = start /\ current <= Len(source) /\ peek = At(source, start)
    BY Fetched, ClassesDisjoint DEF ScanLetter
  <1>2. peek \in Letter /\ scanning = "nothing" /\ GoOn("word")
    BY DEF ScanLetter, Fetch
  <1>3. LexTypeOK'
    BY <1>1, <1>2, GoOnTyped DEF LexInv, ScanLoops
  <1>4. (InWord_Read)'
    <2>1. current' = start + 1 /\ start' = start /\ source' = source
      BY <1>1, <1>2 DEF GoOn
    <2>2. start \in Nat /\ (start + 1)..((start + 1) - 1) = {}
      BY SourceLength DEF LexInv
    <2> QED
      BY <1>1, <1>2, <2>1, <2>2, Shared DEF InWord_Read, Promised!IsWord
  <1>5. LexInv'
    BY <1>2, <1>3, <1>4 DEF LexInv, ReadSoFar, GoOn, ScanLoops
  <1>6. UNCHANGED TokenizerVars
    BY <1>2 DEF GoOn, TokenizerVars, ScanLoops
  <1> QED
    BY <1>5, <1>6 DEF Simulated

LEMMA ScanOtherStep ==
    ASSUME LexInv, ScanOther
    PROVE  LexInv' /\ Simulated
  <1>1. current = start /\ scanning = "nothing" /\ start <= Len(source)
    BY DEF LexInv, ReadSoFar, ScanOther, ScanLoops
  <1>2. At(source, start) = peek
    BY <1>1 DEF peek
  <1>3. \A b : ~Promised!IsLexeme(start, b)
    BY <1>2, FirstCharacter DEF ScanOther, Promised!IsLexeme
  <1>4. LexInv'
    BY SourceLength DEF LexInv, LexTypeOK, ReadSoFar, ScanOther, ScanLoops
  <1>5. Promised!Next
    BY <1>1, <1>3 DEF ScanOther, Promised!Next, Promised!Reject, ScanLoops
  <1> QED
    BY <1>4, <1>5 DEF Simulated

(* A character more belongs to what a loop reads.                          *)
LEMMA InCommentStep ==
    ASSUME LexInv, InComment
    PROVE  LexInv' /\ Simulated
  <1>1. scanning = "comment" /\ InComment_Read
    BY DEF LexInv, ReadSoFar, InComment
  <1>2. CASE peek # "\n" /\ current <= Len(source)
    <2>1. GoOn("comment")
      BY <1>2 DEF InComment
    <2>2. LexTypeOK'
      BY <1>2, <2>1, GoOnTyped DEF LexInv, ScanLoops
    <2>3. /\ current' = current + 1 /\ start' = start /\ source' = source
          /\ start < current + 1
          /\ \A n \in (start + 2)..((current + 1) - 1) : n \in (start + 2)..(current - 1) \/ n = current
      BY <1>1, <2>1, SourceLength DEF LexInv, GoOn, InComment_Read
    <2>4. (InComment_Read)'
      <3>1. \A n \in (start + 2)..((current + 1) - 1) : At(source, n) # "\n"
        BY <1>1, <1>2, <2>3 DEF InComment_Read, peek
      <3> QED
        BY <1>1, <2>3, <3>1 DEF InComment_Read, At
    <2>5. LexInv'
      BY <2>1, <2>2, <2>4 DEF LexInv, ReadSoFar, GoOn, ScanLoops
    <2>6. UNCHANGED TokenizerVars
      BY <1>1, <2>1 DEF GoOn, TokenizerVars, ScanLoops
    <2> QED
      BY <2>5, <2>6 DEF Simulated
  <1>3. CASE ~(peek # "\n" /\ current <= Len(source))
    <2>1. Return(current, << >>)
      BY <1>3 DEF InComment
    <2>2. peek = "\n" \/ current > Len(source)
      BY <1>3, SourceLength DEF LexInv
    <2>3. /\ current \in Promised!Ends /\ Promised!IsLexeme(start, current)
          /\ Promised!Longest(current) /\ Promised!TokensOf(current) = << >>
      BY <1>1, <2>2, CommentEnds DEF LexInv
    <2>4. LexInv'
      <3>1. << >> \in Seq(TokenSet) /\ current \in current..(Len(source) + 1)
        BY SourceLength DEF LexInv, LexTypeOK
      <3> QED
        BY <2>1, <3>1, ReturnKeeps DEF LexInv
    <2>5. Promised!Next
      BY <1>1, <2>1, <2>3, LexemeTaken DEF ScanLoops
    <2> QED
      BY <2>4, <2>5 DEF Simulated
  <1> QED
    BY <1>2, <1>3

LEMMA InWordStep ==
    ASSUME LexInv, InWord
    PROVE  LexInv' /\ Simulated
  <1>1. scanning = "word" /\ InWord_Read
    BY DEF LexInv, ReadSoFar, InWord
  <1>2. CASE peek \in WordCharacter
    <2>1. GoOn("word")
      BY <1>2 DEF InWord
    <2>2. current <= Len(source)
      BY <1>2, NextInsideText, ClassesDisjoint DEF LexInv, WordCharacter
    <2>3. LexTypeOK'
      BY <2>1, <2>2, GoOnTyped DEF LexInv, ScanLoops
    <2>4. /\ current' = current + 1 /\ start' = start /\ source' = source
          /\ start < current + 1
          /\ \A n \in (start + 1)..((current + 1) - 1) : n \in (start + 1)..(current - 1) \/ n = current
      BY <1>1, <2>1, SourceLength DEF LexInv, GoOn, InWord_Read
    <2>5. (InWord_Read)'
      <3>1. \A n \in (start + 1)..((current + 1) - 1) : At(source, n) \in WordCharacter
        BY <1>1, <1>2, <2>4, Shared DEF InWord_Read, Promised!IsWord, peek
      <3>2. Promised!IsWord(start, current + 1)
        BY <1>1, <3>1, Shared DEF InWord_Read, Promised!IsWord
      <3> QED
        BY <2>4, <3>2 DEF InWord_Read, Promised!IsWord, Promised!At
    <2>6. LexInv'
      BY <2>1, <2>3, <2>5 DEF LexInv, ReadSoFar, GoOn, ScanLoops
    <2>7. UNCHANGED TokenizerVars
      BY <1>1, <2>1 DEF GoOn, TokenizerVars, ScanLoops
    <2> QED
      BY <2>6, <2>7 DEF Simulated
  <1>3. CASE peek \notin WordCharacter
    <2>1. Return(current, << WordToken(Lexeme(current)) >>)
      BY <1>3 DEF InWord
    <2>2. /\ current \in Promised!Ends /\ Promised!IsLexeme(start, current)
          /\ Promised!Longest(current)
          /\ Promised!TokensOf(current) = << WordToken(Lexeme(current)) >>
      BY <1>1, <1>3, WordEnds DEF LexInv
    <2>3. LexInv'
      <3>1. /\ current \in (start + 1)..(Len(source) + 1)
            /\ current \in current..(Len(source) + 1)
        BY <1>1, SourceLength DEF LexInv, LexTypeOK, InWord_Read
      <3>2. << WordToken(Lexeme(current)) >> \in Seq(TokenSet)
        BY <3>1, TextIsString, OneToken DEF LexInv
      <3> QED
        BY <2>1, <3>1, <3>2, ReturnKeeps DEF LexInv
    <2>4. Promised!Next
      BY <1>1, <2>1, <2>2, LexemeTaken DEF ScanLoops
    <2> QED
      BY <2>3, <2>4 DEF Simulated
  <1> QED
    BY <1>2, <1>3

(* A number that returns is the longest one.                               *)
LEMMA NumberTaken ==
    ASSUME LexInv, scanning \in ScanLoops, start < current,
           Promised!IsNumber(start, current),
           \A longer \in Promised!Ends : longer > current => ~Promised!IsNumber(start, longer),
           Return(current, << Token("number", Lexeme(current)) >>)
    PROVE  LexInv' /\ Simulated
  <1>1. /\ current \in Promised!Ends /\ Promised!IsLexeme(start, current)
        /\ Promised!Longest(current)
        /\ Promised!TokensOf(current) = << Token("number", Lexeme(current)) >>
    BY NumberEnds DEF LexInv
  <1>2. LexInv'
    <2>1. /\ current \in (start + 1)..(Len(source) + 1)
          /\ current \in current..(Len(source) + 1)
      BY SourceLength DEF LexInv, LexTypeOK
    <2>2. << Token("number", Lexeme(current)) >> \in Seq(TokenSet)
      BY <2>1, TextIsString, OneToken DEF LexInv
    <2> QED
      BY <2>1, <2>2, ReturnKeeps DEF LexInv
  <1>3. Promised!Next
    BY <1>1, LexemeTaken
  <1> QED
    BY <1>2, <1>3 DEF Simulated

LEMMA InNumberStep ==
    ASSUME LexInv, InNumber
    PROVE  LexInv' /\ Simulated
  <1>1. scanning = "number" /\ InNumber_Read
    BY DEF LexInv, ReadSoFar, InNumber
  <1>2. CASE peek \in Digit
    <2>1. GoOn("number")
      BY <1>2 DEF InNumber
    <2>2. current <= Len(source)
      BY <1>2, NextInsideText, ClassesDisjoint DEF LexInv
    <2>3. LexTypeOK'
      BY <2>1, <2>2, GoOnTyped DEF LexInv, ScanLoops
    <2>4. /\ current' = current + 1 /\ start' = start /\ source' = source
          /\ start < current + 1
          /\ \A n \in start..((current + 1) - 1) : n \in start..(current - 1) \/ n = current
      BY <1>1, <2>1, SourceLength DEF LexInv, GoOn, InNumber_Read
    <2>5. (InNumber_Read)'
      <3>1. \A n \in start..((current + 1) - 1) : At(source, n) \in Digit
        BY <1>1, <1>2, <2>4, Shared DEF InNumber_Read, Promised!AreDigits, peek
      <3>2. Promised!AreDigits(start, current + 1)
        BY <3>1, Shared DEF Promised!AreDigits
      <3> QED
        BY <2>4, <3>2 DEF InNumber_Read, Promised!AreDigits, Promised!At
    <2>6. LexInv'
      BY <2>1, <2>3, <2>5 DEF LexInv, ReadSoFar, GoOn, ScanLoops
    <2>7. UNCHANGED TokenizerVars
      BY <1>1, <2>1 DEF GoOn, TokenizerVars, ScanLoops
    <2> QED
      BY <2>6, <2>7 DEF Simulated
  <1>3. CASE peek \notin Digit /\ peek = "." /\ peekNext \in Digit
    <2>1. GoOn("fraction")
      BY <1>3 DEF InNumber
    <2>2. current <= Len(source)
      BY <1>3, NextInsideText DEF LexInv, NUL
    <2>3. LexTypeOK'
      BY <2>1, <2>2, GoOnTyped DEF LexInv, ScanLoops
    <2>4. /\ current' = current + 1 /\ start' = start /\ source' = source
          /\ current \in (start + 1)..((current + 1) - 1)
          /\ (current + 1)..((current + 1) - 1) = {}
      BY <1>1, <2>1, SourceLength DEF LexInv, GoOn, InNumber_Read
    <2>5. (InFraction_Read)'
      <3>1. At(source, current) = "." /\ (peek \in Digit)'
        BY <1>3, <2>4 DEF peek, peekNext, At, NUL
      <3>2. Promised!AreDigits(start, current) /\ Promised!AreDigits(current + 1, current + 1)
        BY <1>1, <2>4 DEF InNumber_Read, Promised!AreDigits
      <3> QED
        BY <2>4, <3>1, <3>2 DEF InFraction_Read, Promised!AreDigits, Promised!At
    <2>6. LexInv'
      BY <2>1, <2>3, <2>5 DEF LexInv, ReadSoFar, GoOn, ScanLoops
    <2>7. UNCHANGED TokenizerVars
      BY <1>1, <2>1 DEF GoOn, TokenizerVars, ScanLoops
    <2> QED
      BY <2>6, <2>7 DEF Simulated
  <1>4. CASE peek \notin Digit /\ ~(peek = "." /\ peekNext \in Digit)
    <2>1. Return(current, << Token("number", Lexeme(current)) >>)
      BY <1>4 DEF InNumber
    <2> QED
      BY <1>1, <1>4, <2>1, IntegerEnds, NumberTaken DEF LexInv, InNumber_Read, ScanLoops
  <1> QED
    BY <1>2, <1>3, <1>4

LEMMA InFractionStep ==
    ASSUME LexInv, InFraction
    PROVE  LexInv' /\ Simulated
  <1>1. scanning = "fraction" /\ InFraction_Read
    BY DEF LexInv, ReadSoFar, InFraction
  <1>2. PICK dot \in (start + 1)..(current - 1) :
                 /\ At(source, dot) = "."
                 /\ Promised!AreDigits(start, dot)
                 /\ Promised!AreDigits(dot + 1, current)
                 /\ dot + 1 = current => peek \in Digit
    BY <1>1 DEF InFraction_Read
  <1>3. dot \in Nat /\ start < current
    BY <1>2, SourceLength DEF LexInv
  <1>4. CASE peek \in Digit
    <2>1. GoOn("fraction")
      BY <1>4 DEF InFraction
    <2>2. current <= Len(source)
      BY <1>4, NextInsideText, ClassesDisjoint DEF LexInv
    <2>3. LexTypeOK'
      BY <2>1, <2>2, GoOnTyped DEF LexInv, ScanLoops
    <2>4. /\ current' = current + 1 /\ start' = start /\ source' = source
          /\ dot \in (start + 1)..((current + 1) - 1)
          /\ dot + 1 # current + 1
          /\ \A n \in (dot + 1)..((current + 1) - 1) : n \in (dot + 1)..(current - 1) \/ n = current
      BY <1>2, <1>3, <2>1, SourceLength DEF LexInv, GoOn
    <2>5. (InFraction_Read)'
      <3>1. Promised!AreDigits(dot + 1, current + 1)
        <4>1. \A n \in (dot + 1)..((current + 1) - 1) : At(source, n) \in Digit
          BY <1>2, <1>4, <2>4, Shared DEF Promised!AreDigits, peek
        <4> QED
          BY <4>1, Shared DEF Promised!AreDigits
      <3> QED
        <4>1. Promised!AreDigits(start', dot) /\ At(source', dot) = "."
          BY <1>2, <2>4
        <4> QED
          BY <2>4, <3>1, <4>1 DEF InFraction_Read, Promised!AreDigits, Promised!At
    <2>6. LexInv'
      BY <2>1, <2>3, <2>5 DEF LexInv, ReadSoFar, GoOn, ScanLoops
    <2>7. UNCHANGED TokenizerVars
      BY <1>1, <2>1 DEF GoOn, TokenizerVars, ScanLoops
    <2> QED
      BY <2>6, <2>7 DEF Simulated
  <1>5. CASE peek \notin Digit
    <2>1. Return(current, << Token("number", Lexeme(current)) >>)
      BY <1>5 DEF InFraction
    <2> QED
      BY <1>1, <1>3, <1>5, <2>1, FractionEnds, NumberTaken DEF LexInv, ScanLoops
  <1> QED
    BY <1>4, <1>5

LEMMA EndOfTextStep ==
    ASSUME LexInv, EndOfText
    PROVE  LexInv' /\ Simulated
  <1>1. /\ current = start /\ scanning = "nothing" /\ start = Len(source) + 1
    BY SourceLength DEF LexInv, LexTypeOK, ReadSoFar, EndOfText, ScanLoops
  <1>2. FEOF \in TokenSet
    BY DEF FEOF, Token, TokenSet
  <1>3. LexInv'
    BY <1>2, SourceLength DEF LexInv, LexTypeOK, ReadSoFar, EndOfText, ScanLoops
  <1>4. Promised!Next
    BY <1>1, Shared DEF EndOfText, Promised!Next, Promised!Finish, ScanLoops
  <1> QED
    BY <1>3, <1>4 DEF Simulated

-----------------------------------------------------------------------------
(* Every step of the lexer keeps the invariant and is a step of the          *)
(* tokenizer, or nothing the tokenizer sees.                               *)
LEMMA EveryStep ==
    ASSUME LexInv, [LexNext]_lexVars
    PROVE  LexInv' /\ Simulated
  <1>1. CASE UNCHANGED lexVars
    BY <1>1, SourceLength
    DEF lexVars, LexInv, LexTypeOK, ReadSoFar, InComment_Read, InWord_Read,
        InNumber_Read, InFraction_Read, Promised!IsWord, Promised!AreDigits,
        Promised!At, Promised!NUL, At, NUL, peek, Simulated, TokenizerVars
  <1>2. CASE LexNext
    BY <1>2, ScanPunctuationStep, ScanOperatorStep, ScanSlashStep, ScanBlankStep,
       ScanDigitStep, ScanLetterStep, ScanOtherStep, InCommentStep, InWordStep,
       InNumberStep, InFractionStep, EndOfTextStep
    DEF LexNext
  <1> QED
    BY <1>1, <1>2

LEMMA LexStarts ==
    ASSUME LexInit
    PROVE  LexInv /\ Promised!Start
  BY TextsAssumption
  DEF LexInit, LexStart, LexInv, LexTypeOK, ReadSoFar, ScanLoops, Promised!Start

(* What a loop has read since start is a beginning of what it reads.        *)
THEOREM LexInvariant == LexSpec => []LexInv
  <1>1. LexInit => LexInv
    BY LexStarts
  <1>2. LexInv /\ [LexNext]_lexVars => LexInv'
    BY EveryStep
  <1> QED
    BY <1>1, <1>2, PTL DEF LexSpec

(* The places stay in the text, and no token is ill-formed.                *)
THEOREM LexTypeCorrect == LexSpec => []LexTypeOK
  <1>1. LexInv => LexTypeOK
    BY DEF LexInv
  <1> QED
    BY <1>1, LexInvariant, PTL

(* The lexer cuts every text into the longest lexemes there are.            *)
THEOREM LexerRefinement == LexSpec => LexesByLongestMatch
  <1>1. LexInit => Promised!Start
    BY LexStarts
  <1>2. LexInv /\ [LexNext]_lexVars
            => [Promised!Next]_<<source, start, tokens,
                                 IF scanning \in ScanLoops THEN "nothing" ELSE scanning>>
    BY EveryStep DEF Simulated, TokenizerVars
  <1> QED
    BY <1>1, <1>2, LexInvariant, PTL DEF LexSpec, LexesByLongestMatch, Promised!Spec
=============================================================================
