------------------------------ MODULE Scanner ------------------------------
(* yylex and the small buffer it reads through (comp/scanner.c): one action  *)
(* for a case of its switch, and one for each turn of a loop. The caller, be *)
(* it the parser or scantest.c, calls it until it returns EOF.               *)
EXTENDS Lexemes, FiniteSets

CONSTANTS
  BUFSIZE,   \* the size of the buffer, and what yytext grows by
  Files,     \* the files there may be
  JunkTexts  \* what fresh memory may hold: a word of the language or another

ASSUME BufsizeAssumption == BUFSIZE \in Nat \ {0}
ASSUME FilesAssumption == Files \subseteq Seq(Char)

VARIABLES
  file,          \* yyin
  in,            \* [pos, buffer, ptr]: bytes read so far, the last of them, the next one
  text,          \* yytext up to its NUL; empty until something was added
  ytp,           \* where the next character goes
  yt_max,        \* what is allocated for yytext
  at,            \* where yylex is: between calls "idle", "end" and "exited"
  current_line,
  token,         \* the last one returned
  from           \* history: the characters before the lexeme

scannerVars == <<file, in, text, ytp, yt_max, at, current_line, token, from>>

\* real_read and read. At the end of the file fread reads nothing.
Smaller(i, j) == IF i < j THEN i ELSE j
Filled(r) ==
  LET end == Smaller(r.pos + BUFSIZE, Len(file))
  IN  IF r.ptr = Len(r.buffer)
      THEN [pos |-> end, buffer |-> SubSeq(file, r.pos + 1, end), ptr |-> 0] ELSE r
Peek(r) == LET f == Filled(r) IN IF f.buffer = <<>> THEN EOF ELSE Got(f.buffer[f.ptr + 1])
After(r) == LET f == Filled(r) IN IF f.buffer = <<>> THEN f ELSE [f EXCEPT !.ptr = @ + 1]

\* Mutant of Pushback: two characters.
PushbackTwice(r) == [r EXCEPT !.ptr = @ - 2]

\* pushback. ptr is unsigned: before the first byte it is the largest number,
\* which is at the end of no buffer, as -1 is.
Pushback(r) == [r EXCEPT !.ptr = @ - 1]

\* How many characters have been read and not pushed back.
Taken(r) == IF r.buffer = <<>> THEN r.pos ELSE r.pos - Len(r.buffer) + r.ptr

\* The first read allocates yytext.
Room == IF yt_max = 0 THEN BUFSIZE ELSE yt_max

\* addText asks for more when the character would leave no room for the NUL.
Widened(length, room) == IF length = room - 1 THEN room + BUFSIZE ELSE room

\* Mutant of AddText: the NUL is forgotten.
AddTextFull(c) ==
  /\ yt_max' = IF ytp = Room THEN Room + BUFSIZE ELSE Room
  /\ text' = Append(SubSeq(text, 1, ytp), c)
  /\ ytp' = ytp + 1

\* addText
AddText(c) ==
  /\ yt_max' = Widened(ytp, Room)
  /\ text' = Append(SubSeq(text, 1, ytp), c)
  /\ ytp' = ytp + 1

\* Two calls of addText.
AddTwo(c1, c2) ==
  /\ yt_max' = Widened(ytp + 1, Widened(ytp, Room))
  /\ text' = SubSeq(text, 1, ytp) \o <<c1, c2>>
  /\ ytp' = ytp + 2

NoText == UNCHANGED <<text, ytp>> /\ yt_max' = Room
Return(t) == at' = "idle" /\ token' = t /\ from' = Taken(in') /\ UNCHANGED <<file, current_line>>
Go(to) == at' = to /\ UNCHANGED <<file, current_line, token, from>>

-----------------------------------------------------------------------------
Call == at = "idle" /\ ytp' = 0 /\ UNCHANGED <<in, text, yt_max>> /\ Go("start")

c == Peek(in)
Starts(S) == at = "start" /\ c \in S
In(loop, S) == at = loop /\ c \in S
Leaves(loop, S) == at = loop /\ c \notin S

\* Blanks, line ends and comments: goto retry.
Retry(lines) ==
  /\ at' = "start" /\ current_line' = current_line + lines
  /\ in' = After(in) /\ from' = Taken(in') /\ NoText /\ UNCHANGED <<file, token>>

\* Mutant of SkipBlank: the blank is pushed back.
SkipBlankNot ==
  /\ Starts(Blank) /\ in' = Pushback(After(in))
  /\ NoText /\ UNCHANGED <<file, at, current_line, token, from>>
SkipBlank   == Starts(Blank) /\ Retry(0)
SkipLineEnd == Starts(LineEnd) /\ Retry(1)
BeginComment == Starts({"#"}) /\ in' = After(in) /\ NoText /\ Go("comment")

\* Reads EOF again and again if there is no other line.
InComment  == Leaves("comment", {"lf"}) /\ in' = After(in) /\ NoText /\ Go("comment")
\* Mutant of EndComment: its line is not counted.
EndCommentUncounted == In("comment", {"lf"}) /\ Retry(0)
EndComment == In("comment", {"lf"}) /\ Retry(1)

\* Numbers.
Add(to) == AddText(c) /\ in' = After(in) /\ Go(to)
FirstDigit   == Starts(Digit) /\ Add("digits")
MoreDigits   == In("digits", Digit) /\ Add("digits")
Point        == In("digits", {"."}) /\ Add("point")
FirstDecimal == In("point", Digit) /\ Add("decimals")
MoreDecimals == In("decimals", Digit) /\ Add("decimals")
DoubleError  == Leaves("point", Digit) /\ in' = After(in) /\ NoText /\ Go("exited")

EndOf(t) == in' = Pushback(After(in)) /\ NoText /\ Return(t)
EndInt    == Leaves("digits", Digit \cup {"."}) /\ EndOf(Token("INT_LITERAL", text))
EndDouble == Leaves("decimals", Digit) /\ EndOf(Token("DOUBLE_LITERAL", text))

\* Operators, with the character behind them.
behind == Peek(After(in))
ShortOperator == Starts(Single) /\ in' = After(in) /\ NoText /\ Return(Token("OPERATOR", <<c>>))
LongOperator ==
  /\ Starts(DOMAIN Second) /\ behind \in Second[c]
  /\ in' = After(After(in)) /\ NoText /\ Return(Token("OPERATOR", <<c, behind>>))
\* Mutant of PlainOperator: what is behind it is lost.
PlainOperatorTaking ==
  /\ Starts(DOMAIN Second) /\ behind \notin Second[c]
  /\ in' = After(After(in)) /\ NoText /\ Return(Token("OPERATOR", <<c>>))
PlainOperator ==
  /\ Starts(DOMAIN Second) /\ behind \notin Second[c]
  /\ in' = Pushback(After(After(in))) /\ NoText /\ Return(Token("OPERATOR", <<c>>))
PairedOperator ==
  /\ Starts(Paired) /\ behind = c
  /\ AddText(c) /\ in' = After(After(in)) /\ Return(Token("OPERATOR", <<c, behind>>))

\* The other character is added to yytext for the message, too; EOF as byte 255.
AsChar(d) == IF d = EOF THEN "255" ELSE d

PairedError ==
  /\ Starts(Paired) /\ behind # c
  /\ AddTwo(c, AsChar(behind)) /\ in' = After(After(in)) /\ Go("exited")

ReturnEOF == Starts(Ended) /\ in' = After(in) /\ NoText /\ Go("end")

\* Words, and what is none: an unknown character is pushed back and yytext,
\* with the text of an earlier token, is looked up.
FirstLetter == Starts(Letter) /\ Add("word")
MoreLetters == In("word", IdentChar) /\ Add("word")
EndWord     == Leaves("word", IdentChar) /\ EndOf(Word(text))
StaleWord   == Starts(Unknown) /\ text # <<>> /\ EndOf(Word(text))
JunkWord    == Starts(Unknown) /\ text = <<>> /\ \E t \in JunkTexts : EndOf(Word(t))

-----------------------------------------------------------------------------
ScannerInit ==
  /\ file \in Files
  /\ in = [pos |-> 0, buffer |-> <<>>, ptr |-> 0]
  /\ text = <<>> /\ ytp = 0 /\ yt_max = 0
  /\ at = "idle" /\ current_line = 1 /\ token = NoToken /\ from = 0

Skips    == SkipBlank \/ SkipLineEnd \/ BeginComment \/ InComment \/ EndComment
Numbers  == \/ FirstDigit \/ MoreDigits \/ Point \/ FirstDecimal \/ MoreDecimals
            \/ DoubleError \/ EndInt \/ EndDouble
Operators == \/ ShortOperator \/ LongOperator \/ PlainOperator
             \/ PairedOperator \/ PairedError
Words    == FirstLetter \/ MoreLetters \/ EndWord \/ StaleWord \/ JunkWord

ScannerNext == Call \/ Skips \/ Numbers \/ Operators \/ Words \/ ReturnEOF

\* The process is not stopped from outside.
ScannerSpec == ScannerInit /\ [][ScannerNext]_scannerVars /\ WF_scannerVars(ScannerNext)

-----------------------------------------------------------------------------
(* Properties.                                                               *)

Places == {"idle", "start", "comment", "digits", "point", "decimals", "word", "end", "exited"}
ScannerTypeOK ==
  /\ file \in Files
  /\ in \in [pos : 0 .. Len(file), buffer : Seq(Char), ptr : Int]
  /\ IF in.buffer = <<>> THEN in.ptr <= 0 ELSE in.ptr \in 0 .. Len(in.buffer)
  /\ text \in Seq(Char) /\ ytp \in Nat /\ yt_max \in Nat
  /\ at \in Places /\ current_line \in Nat /\ from \in Nat

\* yytext always has room for its NUL, and a NUL is where its text ends, also
\* when it was shortened by a new call or grew by steps of the buffer's size
\* (scanner.c:67-74).
TextFits == yt_max # 0 => ytp < yt_max /\ Len(text) < yt_max

\* Whatever is peeked at, pushed back and read again, a line is counted once:
\* the line number is that of the next character, in a file without "\r"
\* (scanner.c:112-126).
LinesCounted ==
  at # "exited" /\ (\A i \in DOMAIN file : file[i] # "cr") =>
    current_line = 1 + Cardinality({i \in 1 .. Taken(in) : file[i] = "lf"})

\* The tokens are the longest lexemes of the file one after the other, as if
\* there were no buffer: wherever its end falls, no character is lost or
\* returned twice (scanner.c:44-84, 91-312).
Stream == INSTANCE TokenStream WITH
  pos <- from, line <- current_line,
  status <- IF at = "exited" THEN "error" ELSE IF at = "end" THEN "end" ELSE "reading"
ImplementsTokens == Stream!StreamSpec

\* Every call returns or ends the process, except in a comment that no line
\* end follows (scanner.c:112).
CallsReturn ==
  (at = "start") ~> \/ at \in {"idle", "end", "exited"}
                    \/ at = "comment" /\ Taken(in) = Len(file)

=============================================================================
