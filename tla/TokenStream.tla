---------------------------- MODULE TokenStream ----------------------------
(* What the scanner promises its caller: the file, cut into the longest      *)
(* lexemes there are, with blanks, line ends and comments between them left  *)
(* out and the lines counted. Nothing is said of how the file is read.       *)
EXTENDS Lexemes

VARIABLES
  file,    \* the characters of the file
  pos,     \* how many of them have been taken
  line,    \* the current line
  token,   \* the last token
  status   \* "reading", "end" or "error"

streamVars == <<file, pos, line, token, status>>

Next(n) == SubSeq(file, pos + 1, pos + n)
Left    == Len(file) - pos
At(S)   == status = "reading" /\ pos < Len(file) /\ file[pos + 1] \in S

AllIn(s, S)   == \A i \in DOMAIN s : s[i] \in S
IsInt(s)      == s # <<>> /\ AllIn(s, Digit)
IsDouble(s)   == \E k \in 2 .. Len(s) - 1 :
                   s[k] = "." /\ \A i \in DOMAIN s \ {k} : s[i] \in Digit
IsWord(s)     == s # <<>> /\ AllIn(s, IdentChar) /\ s[1] \in Letter
IsOperator(s) == \/ Len(s) = 1 /\ s[1] \in Single \cup DOMAIN Second
                 \/ Len(s) = 2 /\ s[1] \in DOMAIN Second /\ s[2] \in Second[s[1]]
                 \/ Len(s) = 2 /\ s[1] \in Paired /\ s[2] = s[1]

\* The beginning of a lexeme that must go on: "1." and "&".
IsMalformed(s) == \/ Len(s) = 1 /\ s[1] \in Paired
                  \/ Len(s) > 1 /\ s[Len(s)] = "." /\ \A i \in 1 .. Len(s) - 1 : s[i] \in Digit

IsLexeme(s) == IsInt(s) \/ IsDouble(s) \/ IsWord(s) \/ IsOperator(s) \/ IsMalformed(s)
Longest(n)  == IsLexeme(Next(n)) /\ \A m \in n + 1 .. Left : ~IsLexeme(Next(m))

Skip(n, lines) == pos' = pos + n /\ line' = line + lines /\ UNCHANGED <<file, token, status>>
SkipBlank      == At(Blank) /\ Skip(1, 0)
SkipLineEnd    == At(LineEnd) /\ Skip(1, 1)
SkipComment    == At({"#"}) /\ \E n \in 1 .. Left :
                    /\ file[pos + n] = "lf" /\ \A i \in 1 .. n - 1 : file[pos + i] # "lf"
                    /\ Skip(n, 1)

TokenOf(s) == IF IsInt(s) THEN Token("INT_LITERAL", s)
              ELSE IF IsDouble(s) THEN Token("DOUBLE_LITERAL", s)
              ELSE IF IsWord(s) THEN Word(s)
              ELSE Token("OPERATOR", s)

Take == /\ status = "reading"
        /\ \E n \in 1 .. Left :
             /\ Longest(n) /\ ~IsMalformed(Next(n))
             /\ pos' = pos + n /\ token' = TokenOf(Next(n))
        /\ UNCHANGED <<file, line, status>>

Error == /\ status = "reading"
         /\ \E n \in 1 .. Left : Longest(n) /\ IsMalformed(Next(n))
         /\ status' = "error" /\ UNCHANGED <<file, pos, line, token>>

End == /\ status = "reading" /\ (pos = Len(file) \/ At({"255"}))
       /\ status' = "end" /\ UNCHANGED <<file, pos, line, token>>

\* A character that begins nothing stays where it is, and some word is
\* returned for it.
NotUnderstood == /\ At(Unknown)
                 /\ token'.type \in {"KEYWORD", "IDENTIFIER"}
                 /\ UNCHANGED <<file, pos, line, status>>

StreamInit == pos = 0 /\ line = 1 /\ token = NoToken /\ status = "reading"
StreamNext == \/ SkipBlank \/ SkipLineEnd \/ SkipComment
              \/ Take \/ Error \/ End \/ NotUnderstood
StreamSpec == StreamInit /\ [][StreamNext]_streamVars

=============================================================================
