--------------------------- MODULE ScannerProofs ---------------------------
(* For every file, every set of keywords and every size of the buffer: the   *)
(* scanner's variables have their types, its text fits, lines are counted    *)
(* once, and its tokens are those of TokenStream.                            *)
EXTENDS Scanner, FiniteSetTheorems, SequenceTheorems, TLAPS

-----------------------------------------------------------------------------
(* The buffer.                                                               *)

\* The buffer holds the bytes before pos, and ptr is within it. When fread has
\* read nothing the buffer is empty, and ptr may have been pushed back.
Window(r) ==
  /\ r \in [pos : 0 .. Len(file), buffer : Seq(Char), ptr : Int]
  /\ Len(r.buffer) <= r.pos
  /\ \A k \in 1 .. Len(r.buffer) : r.buffer[k] = file[r.pos - Len(r.buffer) + k]
  /\ IF r.buffer = <<>> THEN r.ptr <= 0 /\ (r.ptr # 0 => r.pos = Len(file))
     ELSE r.ptr \in 0 .. Len(r.buffer)

LEMMA LengthTyped ==
  ASSUME NEW S, NEW s \in Seq(S)
  PROVE  /\ Len(s) \in Nat /\ (s = <<>> <=> Len(s) = 0) /\ DOMAIN s = 1 .. Len(s)
         /\ \A i \in 1 .. Len(s) : s[i] \in S
BY EmptySeq, LenProperties, ElementOfSeq

\* A piece of the file.
LEMMA PieceOfFile ==
  ASSUME NEW S, NEW s \in Seq(S), NEW m \in Nat, NEW n \in m .. Len(s)
  PROVE  /\ SubSeq(s, m + 1, n) \in Seq(S)
         /\ Len(SubSeq(s, m + 1, n)) = n - m
         /\ \A i \in 1 .. n - m : SubSeq(s, m + 1, n)[i] = s[m + i]
<1>1. Len(s) \in Nat /\ n \in Int /\ m + 1 \in Int /\ \A i \in m + 1 .. n : s[i] \in S
  BY LengthTyped
<1>2. /\ SubSeq(s, m + 1, n) \in Seq(S)
      /\ Len(SubSeq(s, m + 1, n)) = IF m + 1 <= n THEN n - (m + 1) + 1 ELSE 0
      /\ \A i \in 1 .. n - (m + 1) + 1 : SubSeq(s, m + 1, n)[i] = s[m + 1 + i - 1]
  BY ONLY <1>1, SubSeqProperties
<1> QED
  BY <1>1, <1>2

LEMMA FilledWindow ==
  ASSUME file \in Seq(Char), NEW r, Window(r)
  PROVE  LET f == Filled(r)
         IN  /\ Window(f) /\ Taken(f) = Taken(r)
             /\ IF Taken(r) = Len(file) THEN f.buffer = <<>>
                ELSE f.buffer # <<>> /\ f.ptr < Len(f.buffer)
<1> DEFINE end == Smaller(r.pos + BUFSIZE, Len(file))
           piece == SubSeq(file, r.pos + 1, end)
<1>1. /\ Len(file) \in Nat /\ r.pos \in Nat /\ BUFSIZE \in Nat /\ BUFSIZE > 0
      /\ r.buffer \in Seq(Char) /\ r.ptr \in Int /\ r.pos <= Len(file)
      /\ Len(r.buffer) \in Nat /\ (r.buffer = <<>> <=> Len(r.buffer) = 0)
  BY LengthTyped, BufsizeAssumption DEF Window
<1>2. CASE r.ptr = Len(r.buffer)
  <2>1. end \in r.pos .. Len(file) /\ (end = r.pos <=> r.pos = Len(file))
    BY <1>1 DEF Smaller
  <2>2. Filled(r) = [pos |-> end, buffer |-> piece, ptr |-> 0]
    BY <1>2 DEF Filled
  <2> HIDE DEF end
  <2>3. piece \in Seq(Char) /\ Len(piece) = end - r.pos
        /\ \A i \in 1 .. end - r.pos : piece[i] = file[r.pos + i]
    BY ONLY <1>1, <2>1, file \in Seq(Char), PieceOfFile
  <2> HIDE DEF piece
  <2>4. piece = <<>> <=> end = r.pos
    BY <1>1, <2>1, <2>3, LengthTyped
  <2>5. Taken(r) = r.pos
    BY <1>1, <1>2 DEF Taken
  <2> DEFINE f == [pos |-> end, buffer |-> piece, ptr |-> 0]
  <2>6. /\ f \in [pos : 0 .. Len(file), buffer : Seq(Char), ptr : Int]
        /\ f.pos = end /\ f.buffer = piece /\ f.ptr = 0
    BY <1>1, <2>1, <2>3
  <2> HIDE DEF f
  <2>7. Window(f)
    BY <1>1, <2>1, <2>3, <2>4, <2>6 DEF Window
  <2>8. Taken(f) = r.pos
    <3>1. Taken(f) = IF piece = <<>> THEN end ELSE end - Len(piece) + 0
      BY <2>6 DEF Taken
    <3> QED
      BY <1>1, <2>1, <2>3, <2>4, <3>1
  <2>9. Filled(r) = f
    BY <2>2 DEF f
  <2> QED
    BY <1>1, <2>1, <2>3, <2>4, <2>5, <2>6, <2>7, <2>8, <2>9
<1>3. CASE r.ptr # Len(r.buffer)
  <2>1. Filled(r) = r
    BY <1>3 DEF Filled
  <2> QED
    BY <1>1, <1>3, <2>1 DEF Window, Taken
<1> QED
  BY <1>2, <1>3

\* One character is read or, at the end of the file, none; a character pushed
\* back is the next one again.
LEMMA ReadTakesOne ==
  ASSUME file \in Seq(Char), NEW r, Window(r)
  PROVE  /\ Taken(r) \in 0 .. Len(file) /\ Len(file) \in Nat
         /\ Window(After(r)) /\ Window(Pushback(After(r)))
         /\ Taken(Pushback(After(r))) = Taken(r)
         /\ IF Taken(r) = Len(file) THEN Peek(r) = EOF /\ Taken(After(r)) = Taken(r)
            ELSE Peek(r) = Got(file[Taken(r) + 1]) /\ Taken(After(r)) = Taken(r) + 1
<1> DEFINE f == Filled(r)
<1>1. /\ Window(f) /\ Taken(f) = Taken(r)
      /\ IF Taken(r) = Len(file) THEN f.buffer = <<>>
         ELSE f.buffer # <<>> /\ f.ptr < Len(f.buffer)
  BY FilledWindow
<1>2. /\ f \in [pos : 0 .. Len(file), buffer : Seq(Char), ptr : Int]
      /\ Len(file) \in Nat /\ Len(f.buffer) \in Nat
      /\ (f.buffer = <<>> <=> Len(f.buffer) = 0)
  BY <1>1, LengthTyped DEF Window
<1>3. Peek(r) = IF f.buffer = <<>> THEN EOF ELSE Got(f.buffer[f.ptr + 1])
  BY DEF Peek
<1>4. After(r) = IF f.buffer = <<>> THEN f ELSE [f EXCEPT !.ptr = @ + 1]
  BY DEF After
<1> HIDE DEF f
<1>5. Taken(r) \in 0 .. Len(file)
  BY <1>1, <1>2 DEF Window, Taken
<1>6. CASE f.buffer = <<>>
  <2>1. After(r) = f /\ Peek(r) = EOF /\ Taken(r) = Len(file)
    BY <1>1, <1>3, <1>4, <1>6
  <2>2. f.pos = Len(file)
    BY <1>1, <1>6, <2>1 DEF Taken
  <2>3. Window(Pushback(f)) /\ Taken(Pushback(f)) = Taken(f)
    BY <1>1, <1>2, <1>6, <2>2 DEF Window, Pushback, Taken
  <2> QED
    BY <1>1, <1>2, <1>5, <2>1, <2>3
<1>7. CASE f.buffer # <<>>
  <2> DEFINE a == [pos |-> f.pos, buffer |-> f.buffer, ptr |-> f.ptr + 1]
  <2>2. After(r) = a
    BY <1>2, <1>4, <1>7
  <2>1. /\ a \in [pos : 0 .. Len(file), buffer : Seq(Char), ptr : Int]
        /\ a.pos = f.pos /\ a.buffer = f.buffer /\ a.ptr = f.ptr + 1
    BY <1>2
  <2> HIDE DEF a
  <2>3. /\ Pushback(a) \in [pos : 0 .. Len(file), buffer : Seq(Char), ptr : Int]
        /\ Pushback(a).pos = f.pos /\ Pushback(a).buffer = f.buffer
        /\ Pushback(a).ptr = f.ptr
    BY <1>2, <2>1 DEF Pushback
  <2>4. f.ptr \in 0 .. Len(f.buffer) - 1 /\ Taken(r) # Len(file)
    BY <1>1, <1>2, <1>7 DEF Window
  <2>5. Window(a) /\ Taken(a) = Taken(r) + 1
    <3>1. Len(a.buffer) = Len(f.buffer) /\ a.buffer # <<>>
      BY <1>7, <2>1
    <3>2. Window(a)
      BY <1>1, <1>2, <1>7, <2>1, <2>4, <3>1 DEF Window
    <3>3. Taken(a) = f.pos - Len(f.buffer) + (f.ptr + 1)
      BY <2>1, <3>1 DEF Taken
    <3>4. Taken(r) = f.pos - Len(f.buffer) + f.ptr
      BY <1>1, <1>7 DEF Taken
    <3> QED
      BY <1>2, <3>2, <3>3, <3>4
  <2>6. Window(Pushback(a)) /\ Taken(Pushback(a)) = Taken(r)
    BY <1>1, <1>2, <1>7, <2>3, <2>4 DEF Window, Taken
  <2>7. f.buffer[f.ptr + 1] = file[Taken(r) + 1]
    <3>1. f.ptr + 1 \in 1 .. Len(f.buffer)
      BY <2>4, <1>2
    <3>2. f.buffer[f.ptr + 1] = file[f.pos - Len(f.buffer) + (f.ptr + 1)]
      BY <1>1, <3>1 DEF Window
    <3>3. f.pos - Len(f.buffer) + (f.ptr + 1) = Taken(r) + 1
      BY <1>1, <1>2, <1>7 DEF Taken
    <3> QED
      BY <3>2, <3>3
  <2> QED
    BY <1>2, <1>3, <1>5, <1>7, <2>2, <2>4, <2>5, <2>6, <2>7
<1> QED
  BY <1>6, <1>7

LEMMA Classes ==
  /\ EOF \notin Char /\ "255" \in Char /\ "lf" \in LineEnd /\ "." \in Single
  /\ \A x : /\ x \in Digit => x \in IdentChar /\ x \in Char \ {"255", "lf", "."}
            /\ x \in Letter => x \in IdentChar /\ x \in Char \ {"255", "lf", "."}
            /\ x \in IdentChar => x \in Digit \cup Letter
            /\ x \in Blank => x \in Char \ {"255", "lf", "."}
            /\ x \in LineEnd => x \in Char \ {"255", "."} /\ x \in {"cr", "lf"}
            /\ x \in Single => x \in Char \ {"255", "lf"}
            /\ x \in Paired => x \in Char \ {"255", "lf", "."}
            /\ x \in DOMAIN Second => /\ x \in Char \ {"255", "lf", "."}
                                      /\ \A y \in Second[x] : y \in Char \ {"255", "lf", "."}
            /\ x \in Unknown => x \in Char \ {"255", "lf", "."}
            /\ x \in Ended => x = EOF
BY DEF EOF, Char, Digit, Letter, IdentChar, Blank, LineEnd, Single, Paired, Second, Unknown, Ended

LEMMA ClassesApart ==
  \A x : /\ x \in Digit => x \notin Letter \cup Single \cup Paired \cup DOMAIN Second
         /\ x \in Letter => x \notin Single \cup Paired \cup DOMAIN Second
         /\ x \in Single => x \notin IdentChar \cup Paired \cup DOMAIN Second
         /\ x \in Paired => x \notin IdentChar \cup Single \cup DOMAIN Second
         /\ x \in DOMAIN Second => x \notin IdentChar \cup Single \cup Paired
BY DEF Digit, Letter, IdentChar, Single, Paired, Second

\* TokenStream has the classes under names of its own.
LEMMA SameLexemes ==
  /\ Stream!Digit = Digit /\ Stream!Letter = Letter /\ Stream!IdentChar = IdentChar
  /\ Stream!Blank = Blank /\ Stream!LineEnd = LineEnd /\ Stream!Single = Single
  /\ Stream!Paired = Paired /\ Stream!Second = Second /\ Stream!Unknown = Unknown
  /\ Stream!NoToken = NoToken
  /\ \A type, s : Stream!Token(type, s) = Token(type, s) /\ Stream!Word(s) = Word(s)
BY DEF Stream!Digit, Stream!Letter, Stream!IdentChar, Stream!Blank, Stream!LineEnd,
       Stream!Single, Stream!Paired, Stream!Second, Stream!Unknown, Stream!NoToken,
       Stream!Token, Stream!Word, Digit, Letter, IdentChar, Blank, LineEnd, Single,
       Paired, Second, Unknown, NoToken, Token, Word

\* A character that is not the end is the one at the place in the file.
LEMMA PeekIsNext ==
  ASSUME file \in Seq(Char), NEW r, Window(r)
  PROVE  /\ Peek(r) # EOF => /\ Taken(r) < Len(file) /\ Taken(After(r)) = Taken(r) + 1
                             /\ Peek(r) = file[Taken(r) + 1] /\ Peek(r) \in Char
         /\ Peek(r) = EOF => Taken(r) = Len(file) \/ file[Taken(r) + 1] = "255"
         /\ \A S : Taken(r) < Len(file) /\ Peek(r) \notin S /\ "255" \notin S
                     => file[Taken(r) + 1] \notin S
<1>1. /\ Taken(r) \in 0 .. Len(file) /\ Len(file) \in Nat
      /\ IF Taken(r) = Len(file) THEN Peek(r) = EOF /\ Taken(After(r)) = Taken(r)
         ELSE Peek(r) = Got(file[Taken(r) + 1]) /\ Taken(After(r)) = Taken(r) + 1
  BY ReadTakesOne
<1>2. Taken(r) < Len(file) => file[Taken(r) + 1] \in Char
  <2>1. Taken(r) < Len(file) => Taken(r) + 1 \in 1 .. Len(file)
    BY <1>1
  <2> QED
    BY <2>1, LengthTyped
<1>3. Taken(r) # Len(file) => Taken(r) < Len(file)
  BY <1>1
<1>4. Taken(r) < Len(file) => Taken(r) # Len(file)
  BY <1>1
<1>5. EOF \notin Char
  BY Classes
<1> HIDE <1>1
<1>6. IF Taken(r) = Len(file) THEN Peek(r) = EOF
      ELSE Peek(r) = Got(file[Taken(r) + 1]) /\ Taken(After(r)) = Taken(r) + 1
  BY <1>1
<1> QED
  BY <1>2, <1>3, <1>4, <1>5, <1>6 DEF Got

-----------------------------------------------------------------------------
(* Lexemes: s is one, and t goes on behind it.                               *)

Extends(s, t) == Len(t) > Len(s) /\ \A i \in 1 .. Len(s) : t[i] = s[i]

LEMMA WordEnds ==
  ASSUME NEW s \in Seq(Char), NEW t \in Seq(Char), Extends(s, t),
         Stream!IsWord(s), t[Len(s) + 1] \notin IdentChar
  PROVE  ~Stream!IsLexeme(t)
<1>1. /\ Len(s) \in Nat /\ Len(t) \in Nat /\ Len(s) >= 1 /\ Len(t) > Len(s)
      /\ DOMAIN t = 1 .. Len(t) /\ DOMAIN s = 1 .. Len(s)
  BY SameLexemes, LengthTyped DEF Extends, Stream!IsWord
<1>2. t[1] \in Letter /\ t[1] # "." /\ t[1] \notin Digit \cup Single \cup Paired \cup DOMAIN Second
  BY SameLexemes, <1>1, Classes, ClassesApart DEF Extends, Stream!IsWord
<1>3. 1 \in DOMAIN t /\ Len(s) + 1 \in DOMAIN t /\ 1 \in 1 .. Len(t) - 1
  BY <1>1
<1>4. ~Stream!IsInt(t) /\ ~Stream!IsWord(t)
  BY SameLexemes, <1>2, <1>3 DEF Stream!IsInt, Stream!IsWord, Stream!AllIn
<1>5. ~Stream!IsDouble(t)
  BY SameLexemes, <1>1, <1>2, <1>3 DEF Stream!IsDouble
<1>6. ~Stream!IsOperator(t)
  BY SameLexemes, <1>2 DEF Stream!IsOperator
<1>7. ~Stream!IsMalformed(t)
  BY SameLexemes, <1>2, <1>3 DEF Stream!IsMalformed
<1> QED
  BY SameLexemes, <1>4, <1>5, <1>6, <1>7 DEF Stream!IsLexeme

LEMMA IntEnds ==
  ASSUME NEW s \in Seq(Char), NEW t \in Seq(Char), Extends(s, t),
         Stream!IsInt(s), t[Len(s) + 1] \notin Digit \cup {"."}
  PROVE  ~Stream!IsLexeme(t)
<1>1. /\ Len(s) \in Nat /\ Len(t) \in Nat /\ Len(s) >= 1 /\ Len(t) > Len(s)
      /\ DOMAIN t = 1 .. Len(t) /\ DOMAIN s = 1 .. Len(s)
  BY SameLexemes, LengthTyped DEF Extends, Stream!IsInt
<1>2. t[1] \in Digit /\ t[1] \notin Letter \cup Single \cup Paired \cup DOMAIN Second
  BY SameLexemes, <1>1, ClassesApart DEF Extends, Stream!IsInt, Stream!AllIn
<1>3. Len(s) + 1 \in DOMAIN t
  BY <1>1
<1>4. ~Stream!IsInt(t) /\ ~Stream!IsWord(t)
  BY SameLexemes, <1>2, <1>3 DEF Stream!IsInt, Stream!IsWord, Stream!AllIn
<1>5. ~Stream!IsDouble(t)
  BY SameLexemes, <1>1, <1>3 DEF Stream!IsDouble
<1>6. ~Stream!IsOperator(t)
  BY SameLexemes, <1>2 DEF Stream!IsOperator
<1>7. ~Stream!IsMalformed(t)
  <2>1. \A m, n \in Nat : n > m => m + 1 = n \/ m + 1 \in 1 .. n - 1
    OBVIOUS
  <2>2. Len(s) + 1 = Len(t) \/ Len(s) + 1 \in 1 .. Len(t) - 1
    BY <1>1, <2>1
  <2> QED
    BY SameLexemes, <1>2, <2>2 DEF Stream!IsMalformed
<1> QED
  BY SameLexemes, <1>4, <1>5, <1>6, <1>7 DEF Stream!IsLexeme

LEMMA DoubleEnds ==
  ASSUME NEW s \in Seq(Char), NEW t \in Seq(Char), Extends(s, t),
         Stream!IsDouble(s), t[Len(s) + 1] \notin Digit
  PROVE  ~Stream!IsLexeme(t)
<1>1. /\ Len(s) \in Nat /\ Len(t) \in Nat /\ Len(t) > Len(s)
      /\ DOMAIN t = 1 .. Len(t) /\ DOMAIN s = 1 .. Len(s)
  BY LengthTyped DEF Extends
<1>2. PICK k \in 2 .. Len(s) - 1 : s[k] = "." /\ \A i \in DOMAIN s \ {k} : s[i] \in Digit
  BY SameLexemes DEF Stream!IsDouble
<1>3. /\ k \in 1 .. Len(s) /\ k \in 1 .. Len(t) /\ 1 \in 1 .. Len(s) /\ 1 # k
      /\ k \in 1 .. Len(t) - 1 /\ Len(s) + 1 \in 1 .. Len(t) /\ Len(s) + 1 # k
  BY <1>1, <1>2
<1>4. t[k] = "." /\ t[k] \notin IdentChar /\ t[k] \notin Digit
  BY <1>2, <1>3, Classes, ClassesApart DEF Extends
<1>5. t[1] \in Digit /\ t[1] \notin Letter \cup Single \cup Paired \cup DOMAIN Second
  BY <1>1, <1>2, <1>3, ClassesApart DEF Extends
<1>6. ~Stream!IsInt(t) /\ ~Stream!IsWord(t)
  BY SameLexemes, <1>1, <1>3, <1>4, <1>5 DEF Stream!IsInt, Stream!IsWord, Stream!AllIn
<1>7. ~Stream!IsDouble(t)
  BY SameLexemes, <1>1, <1>3, <1>4 DEF Stream!IsDouble
<1>8. ~Stream!IsOperator(t)
  BY SameLexemes, <1>5 DEF Stream!IsOperator
<1>9. ~Stream!IsMalformed(t)
  BY SameLexemes, <1>3, <1>4, <1>5 DEF Stream!IsMalformed
<1> QED
  BY SameLexemes, <1>6, <1>7, <1>8, <1>9 DEF Stream!IsLexeme

\* "1." goes on with a digit or not at all.
LEMMA PointEnds ==
  ASSUME NEW s \in Seq(Char), NEW t \in Seq(Char), Extends(s, t),
         Len(s) > 1, Stream!IsMalformed(s), t[Len(s) + 1] \notin Digit
  PROVE  ~Stream!IsLexeme(t)
<1>1. /\ Len(s) \in Nat /\ Len(t) \in Nat /\ Len(t) > Len(s) /\ Len(s) > 1
      /\ DOMAIN t = 1 .. Len(t) /\ DOMAIN s = 1 .. Len(s)
  BY LengthTyped DEF Extends
<1>2. s[Len(s)] = "." /\ \A i \in 1 .. Len(s) - 1 : s[i] \in Digit
  BY SameLexemes, <1>1 DEF Stream!IsMalformed
<1> \A m, n \in Nat : m > 1 /\ n > m =>
      /\ m \in 1 .. m /\ m \in 1 .. n /\ 1 \in 1 .. m - 1 /\ 1 \in 1 .. m
      /\ m \in 1 .. n - 1 /\ m + 1 \in 1 .. n /\ m + 1 # m
  OBVIOUS
<1>3. /\ Len(s) \in 1 .. Len(s) /\ Len(s) \in 1 .. Len(t) /\ 1 \in 1 .. Len(s) - 1
      /\ 1 \in 1 .. Len(s) /\ Len(s) \in 1 .. Len(t) - 1
      /\ Len(s) + 1 \in 1 .. Len(t) /\ Len(s) + 1 # Len(s)
  BY <1>1
<1>4. t[Len(s)] = "." /\ t[Len(s)] \notin IdentChar /\ t[Len(s)] \notin Digit
  BY <1>2, <1>3, Classes, ClassesApart DEF Extends
<1>5. t[1] \in Digit /\ t[1] \notin Letter \cup Single \cup Paired \cup DOMAIN Second
  BY <1>2, <1>3, ClassesApart DEF Extends
<1>6. ~Stream!IsInt(t) /\ ~Stream!IsWord(t)
  BY SameLexemes, <1>1, <1>3, <1>4, <1>5 DEF Stream!IsInt, Stream!IsWord, Stream!AllIn
<1>7. ~Stream!IsDouble(t)
  BY SameLexemes, <1>1, <1>3, <1>4 DEF Stream!IsDouble
<1>8. ~Stream!IsOperator(t)
  BY SameLexemes, <1>5 DEF Stream!IsOperator
<1>9. ~Stream!IsMalformed(t)
  BY SameLexemes, <1>3, <1>4, <1>5 DEF Stream!IsMalformed
<1> QED
  BY SameLexemes, <1>6, <1>7, <1>8, <1>9 DEF Stream!IsLexeme

\* A sequence that begins as an operator is at most an operator of two.
LEMMA OperatorEnds ==
  ASSUME NEW t \in Seq(Char), Len(t) > 1,
         t[1] \in Single \cup Paired \cup DOMAIN Second,
         Len(t) = 2 => ~Stream!IsOperator(t)
  PROVE  ~Stream!IsLexeme(t)
<1>1. Len(t) \in Nat /\ DOMAIN t = 1 .. Len(t)
  BY LengthTyped
<1>2. t[1] \notin IdentChar /\ t[1] \notin Digit /\ t[1] \notin Letter
  BY Classes, ClassesApart
<1>3. 1 \in 1 .. Len(t) /\ 1 \in 1 .. Len(t) - 1
  BY <1>1
<1>4. ~Stream!IsInt(t) /\ ~Stream!IsWord(t)
  BY SameLexemes, <1>1, <1>2, <1>3 DEF Stream!IsInt, Stream!IsWord, Stream!AllIn
<1>5. ~Stream!IsDouble(t)
  BY SameLexemes, <1>1, <1>2, <1>3 DEF Stream!IsDouble
<1>6. ~Stream!IsOperator(t)
  BY SameLexemes, <1>1 DEF Stream!IsOperator
<1>7. ~Stream!IsMalformed(t)
  BY SameLexemes, <1>1, <1>2, <1>3 DEF Stream!IsMalformed
<1> QED
  BY SameLexemes, <1>4, <1>5, <1>6, <1>7 DEF Stream!IsLexeme

-----------------------------------------------------------------------------
(* The invariant.                                                            *)

TextRoom ==
  /\ text \in Seq(Char) /\ ytp \in 0 .. Len(text) /\ yt_max \in Nat
  /\ IF yt_max = 0 THEN text = <<>> ELSE Len(text) < yt_max

Base == /\ file \in Files /\ Window(in) /\ TextRoom
        /\ at \in Places /\ current_line \in Nat /\ from \in 0 .. Taken(in)

\* In a lexeme, yytext holds what was read of it.
Lexeme == SubSeq(file, from + 1, Taken(in))
Within == {"digits", "point", "decimals", "word"}
Spot ==
  /\ at \in {"idle", "start"} => from = Taken(in)
  /\ at \in {"start", "comment"} => ytp = 0
  /\ at \in Within => ytp = Len(text) /\ from < Taken(in) /\ text = Lexeme
  /\ at = "digits" => Stream!IsInt(text)
  /\ at = "point" => Len(text) > 1 /\ Stream!IsMalformed(text)
  /\ at = "decimals" => Stream!IsDouble(text)
  /\ at = "word" => Stream!IsWord(text)
  /\ at = "comment" => /\ from < Taken(in) /\ file[from + 1] = "#"
                       /\ \A i \in from + 1 .. Taken(in) : file[i] # "lf"

IInv == Base /\ Spot /\ LinesCounted

LEMMA FilesTyped == \A f \in Files : f \in Seq(Char)
BY FilesAssumption

-----------------------------------------------------------------------------
(* The text.                                                                 *)

LEMMA Added ==
  ASSUME TextRoom, NEW ch \in Char, AddText(ch)
  PROVE  /\ TextRoom' /\ ytp' = ytp + 1 /\ Len(text') = ytp + 1
         /\ text'[ytp + 1] = ch /\ \A i \in 1 .. ytp : text'[i] = text[i]
<1> DEFINE kept == SubSeq(text, 0 + 1, ytp)
<1>1. /\ Len(text) \in Nat /\ ytp \in Nat /\ ytp <= Len(text) /\ yt_max \in Nat
      /\ (text = <<>> <=> Len(text) = 0) /\ BUFSIZE \in Nat /\ BUFSIZE > 0
  BY LengthTyped, BufsizeAssumption DEF TextRoom
<1>2. kept \in Seq(Char) /\ Len(kept) = ytp /\ \A i \in 1 .. ytp : kept[i] = text[i]
  <2>1. /\ kept \in Seq(Char) /\ Len(kept) = ytp - 0
        /\ \A i \in 1 .. ytp - 0 : kept[i] = text[0 + i]
    BY <1>1, PieceOfFile DEF TextRoom
  <2> QED
    BY <1>1, <2>1
<1>3. text' = Append(kept, ch) /\ ytp' = ytp + 1
  BY DEF AddText
<1> HIDE DEF kept
<1>4. /\ text' \in Seq(Char) /\ Len(text') = ytp + 1
      /\ text'[ytp + 1] = ch /\ \A i \in 1 .. ytp : text'[i] = text[i]
  BY <1>1, <1>2, <1>3
<1>5. yt_max' \in Nat /\ ytp + 1 < yt_max'
  <2>1. Room \in Nat /\ ytp < Room
    BY <1>1 DEF Room, TextRoom
  <2> QED
    BY <1>1, <2>1 DEF AddText, Widened
<1> QED
  BY <1>1, <1>3, <1>4, <1>5 DEF TextRoom

LEMMA TwoAdded ==
  ASSUME TextRoom, NEW c1 \in Char, NEW c2 \in Char, AddTwo(c1, c2)
  PROVE  TextRoom'
<1> DEFINE kept == SubSeq(text, 0 + 1, ytp)
<1>1. /\ Len(text) \in Nat /\ ytp \in Nat /\ ytp <= Len(text) /\ yt_max \in Nat
      /\ BUFSIZE \in Nat /\ BUFSIZE > 0
  BY LengthTyped, BufsizeAssumption DEF TextRoom
<1>2. kept \in Seq(Char) /\ Len(kept) = ytp
  <2>1. kept \in Seq(Char) /\ Len(kept) = ytp - 0
    BY <1>1, PieceOfFile DEF TextRoom
  <2> QED
    BY <1>1, <2>1
<1>3. text' = kept \o <<c1, c2>> /\ ytp' = ytp + 2
  BY DEF AddTwo
<1> HIDE DEF kept
<1>4. text' \in Seq(Char) /\ Len(text') = ytp + 2
  BY <1>1, <1>2, <1>3
<1>5. yt_max' \in Nat /\ ytp + 2 < yt_max'
  <2>1. Room \in Nat /\ ytp < Room
    BY <1>1 DEF Room, TextRoom
  <2>2. PICK first : first = Widened(ytp, Room)
    OBVIOUS
  <2>3. first \in Nat /\ ytp + 1 < first
    BY <1>1, <2>1, <2>2 DEF Widened
  <2> QED
    BY <1>1, <2>2, <2>3 DEF AddTwo, Widened
<1> QED
  BY <1>1, <1>3, <1>4, <1>5 DEF TextRoom

LEMMA TextKept ==
  ASSUME TextRoom, NoText
  PROVE  TextRoom' /\ text' = text /\ ytp' = ytp
<1>1. BUFSIZE \in Nat /\ BUFSIZE > 0 /\ Len(<<>>) = 0
  BY BufsizeAssumption
<1> QED
  BY <1>1 DEF TextRoom, NoText, Room

LEMMA PieceIs ==
  ASSUME NEW s \in Seq(Char), NEW m \in Nat, NEW n \in m .. Len(s), NEW t \in Seq(Char),
         Len(t) = n - m, \A i \in 1 .. n - m : t[i] = s[m + i]
  PROVE  t = SubSeq(s, m + 1, n)
<1>1. /\ SubSeq(s, m + 1, n) \in Seq(Char) /\ Len(SubSeq(s, m + 1, n)) = n - m
      /\ \A i \in 1 .. n - m : SubSeq(s, m + 1, n)[i] = s[m + i]
  BY PieceOfFile
<1> QED
  BY <1>1, SeqEqual

\* A character that is added to yytext is the next of the lexeme.
LEMMA LexemeGrows ==
  ASSUME Base, Spot, at = "start" \/ at \in Within,
         c # EOF, AddText(c), in' = After(in), UNCHANGED <<file, from>>
  PROVE  /\ TextRoom' /\ Window(in)'
         /\ Taken(in)' = Taken(in) + 1 /\ Taken(in)' <= Len(file)
         /\ ytp' = Len(text') /\ text' = Lexeme' /\ from \in 0 .. Taken(in)
         /\ file[Taken(in) + 1] = c
         /\ at = "start" => Len(text') = 1 /\ text'[1] = c
         /\ at \in Within => /\ Len(text') = Len(text) + 1 /\ text'[Len(text) + 1] = c
                             /\ \A i \in 1 .. Len(text) : text'[i] = text[i]
<1>1. file \in Seq(Char) /\ Window(in) /\ from \in 0 .. Taken(in) /\ TextRoom
  BY FilesTyped DEF Base
<1>2. /\ Taken(in) < Len(file) /\ Taken(After(in)) = Taken(in) + 1
      /\ c = file[Taken(in) + 1] /\ c \in Char
  BY <1>1, PeekIsNext DEF c
<1>3. Window(After(in)) /\ Taken(in) \in Nat /\ Len(file) \in Nat
  BY <1>1, ReadTakesOne
<1>4. Window(in)' /\ Taken(in)' = Taken(in) + 1
  BY <1>2, <1>3 DEF Window, Taken
<1>5. /\ TextRoom' /\ ytp' = ytp + 1 /\ Len(text') = ytp + 1
      /\ text'[ytp + 1] = c /\ \A i \in 1 .. ytp : text'[i] = text[i]
  BY <1>1, <1>2, Added
<1>6. from \in Nat /\ Taken(in) + 1 \in from .. Len(file)
  BY <1>1, <1>2, <1>3
<1>7. ytp = Taken(in) - from /\ \A i \in 1 .. ytp : text[i] = file[from + i]
  <2>1. CASE at = "start"
    BY <1>1, <1>3, <2>1 DEF Spot
  <2>2. CASE at \in Within
    <3>1. ytp = Len(text) /\ text = SubSeq(file, from + 1, Taken(in))
      BY <2>2 DEF Spot, Lexeme
    <3>2. Taken(in) \in from .. Len(file)
      BY <1>1, <1>2, <1>3
    <3> QED
      BY <1>1, <1>6, <3>1, <3>2, PieceOfFile
  <2> QED
    BY <2>1, <2>2
<1> DEFINE q == Taken(in) + 1
<1>8. text' = SubSeq(file, from + 1, q)
  <2>1. q = Taken(in) + 1 /\ q \in Nat /\ q \in from .. Len(file) /\ ytp + 1 = q - from
    BY <1>3, <1>6, <1>7
  <2> HIDE DEF q
  <2>2. text' \in Seq(Char) /\ Len(text') = q - from
    BY <1>5, <2>1 DEF TextRoom
  <2>3. \A i \in 1 .. q - from : text'[i] = file[from + i]
    <3> SUFFICES ASSUME NEW i \in 1 .. q - from PROVE text'[i] = file[from + i]
      OBVIOUS
    <3>1. i \in 1 .. ytp \/ i = ytp + 1
      BY <1>6, <1>7, <2>1
    <3>2. i = ytp + 1 => from + i = Taken(in) + 1
      BY <1>3, <1>6, <1>7
    <3> QED
      BY <1>2, <1>5, <1>7, <3>1, <3>2
  <2> QED
    BY ONLY <1>1, <1>6, <2>1, <2>2, <2>3, PieceIs
<1>9. ytp' = Len(text') /\ text' = Lexeme'
  BY <1>4, <1>5, <1>8 DEF Lexeme
<1>10. at = "start" => ytp = 0
  BY DEF Spot
<1>11. at \in Within => ytp = Len(text)
  BY DEF Spot
<1> QED
  BY <1>1, <1>2, <1>3, <1>4, <1>5, <1>9, <1>10, <1>11

-----------------------------------------------------------------------------
(* The lines.                                                                *)

LinesTo(p) == Cardinality({i \in 1 .. p : file[i] = "lf"})

LEMMA LinesGrow ==
  ASSUME NEW p \in Nat
  PROVE  /\ LinesTo(p) \in Nat
         /\ file[p + 1] = "lf" => LinesTo(p + 1) = LinesTo(p) + 1
         /\ \A q \in Nat : p <= q /\ (\A i \in p + 1 .. q : file[i] # "lf")
                             => LinesTo(q) = LinesTo(p)
<1> DEFINE F(n) == {i \in 1 .. n : file[i] = "lf"}
<1>1. IsFiniteSet(F(p)) /\ Cardinality(F(p)) \in Nat
  <2>1. IsFiniteSet(1 .. p) /\ F(p) \in SUBSET (1 .. p)
    BY FS_Interval
  <2> QED
    BY <2>1, FS_Subset, FS_CardinalityType
<1>2. file[p + 1] = "lf" => F(p + 1) = F(p) \cup {p + 1} /\ p + 1 \notin F(p)
  OBVIOUS
<1>3. file[p + 1] = "lf" => Cardinality(F(p + 1)) = Cardinality(F(p)) + 1
  <2> HIDE DEF F
  <2>1. IsFiniteSet(F(p)) => Cardinality(F(p) \cup {p + 1}) =
          IF p + 1 \in F(p) THEN Cardinality(F(p)) ELSE Cardinality(F(p)) + 1
    BY FS_AddElement
  <2> QED
    BY <1>1, <1>2, <2>1
<1>4. ASSUME NEW q \in Nat, p <= q, \A i \in p + 1 .. q : file[i] # "lf"
      PROVE  F(q) = F(p)
  BY <1>4
<1> QED
  BY <1>1, <1>3, <1>4 DEF LinesTo

\* What is passed over holds no line end, and the line does not change.
LEMMA LinesKept ==
  ASSUME LinesCounted, at # "exited", UNCHANGED <<file, current_line>>,
         NEW p \in Nat, NEW q \in Nat, p <= q, Taken(in) = p, Taken(in)' = q,
         \A i \in p + 1 .. q : file[i] # "lf"
  PROVE  LinesCounted'
<1>1. LinesTo(q) = LinesTo(p)
  BY LinesGrow
<1> QED
  BY <1>1 DEF LinesCounted, LinesTo

LEMMA LineCounted ==
  ASSUME LinesCounted, at # "exited", current_line \in Nat, UNCHANGED file,
         current_line' = current_line + 1,
         NEW p \in Nat, Taken(in) = p, Taken(in)' = p + 1, p + 1 \in DOMAIN file,
         file[p + 1] \in LineEnd
  PROVE  LinesCounted'
<1>1. /\ LinesTo(p) \in Nat
      /\ file[p + 1] = "lf" => LinesTo(p + 1) = LinesTo(p) + 1
  BY LinesGrow
<1>2. file[p + 1] = "lf" \/ file[p + 1] = "cr"
  BY DEF LineEnd
<1>3. CASE file[p + 1] = "cr"
  BY <1>3 DEF LinesCounted
<1>4. CASE file[p + 1] = "lf"
  <2>1. (\A i \in DOMAIN file : file[i] # "cr") => current_line = 1 + LinesTo(p)
    BY DEF LinesCounted, LinesTo
  <2>2. (\A i \in DOMAIN file : file[i] # "cr") => current_line' = 1 + LinesTo(p + 1)
    BY <1>1, <1>4, <2>1
  <2> QED
    BY <2>2 DEF LinesCounted, LinesTo
<1> QED
  BY <1>2, <1>3, <1>4

-----------------------------------------------------------------------------
(* The steps: reading on within a lexeme.                                    *)

LEMMA BaseFacts ==
  ASSUME Base
  PROVE  /\ file \in Seq(Char) /\ Window(in) /\ TextRoom /\ Len(file) \in Nat
         /\ DOMAIN file = 1 .. Len(file)
         /\ Taken(in) \in Nat /\ Taken(in) <= Len(file) /\ from \in Nat /\ from <= Taken(in)
<1>1. file \in Seq(Char) /\ Window(in)
  BY FilesTyped DEF Base
<1>2. Taken(in) \in 0 .. Len(file) /\ Len(file) \in Nat
  BY <1>1, ReadTakesOne
<1> QED
  BY <1>1, <1>2, LengthTyped DEF Base

LEMMA AddHolds ==
  ASSUME IInv, NEW to, Add(to), at = "start" \/ at \in Within,
         to \in Within, c # EOF, c # "lf",
         /\ to = "digits" => Stream!IsInt(text')
         /\ to = "point" => Len(text') > 1 /\ Stream!IsMalformed(text')
         /\ to = "decimals" => Stream!IsDouble(text')
         /\ to = "word" => Stream!IsWord(text')
  PROVE  IInv'
<1>1. /\ Base /\ Spot /\ LinesCounted /\ AddText(c) /\ in' = After(in) /\ at' = to
      /\ UNCHANGED <<file, current_line, token, from>>
  BY DEF IInv, Add, Go
<1>2. /\ TextRoom' /\ Window(in)'
      /\ Taken(in)' = Taken(in) + 1 /\ Taken(in)' <= Len(file)
      /\ ytp' = Len(text') /\ text' = Lexeme' /\ from \in 0 .. Taken(in)
      /\ file[Taken(in) + 1] = c
  BY <1>1, LexemeGrows
<1>3. Taken(in) \in Nat /\ from \in Nat /\ at # "exited" /\ Taken(in)' \in Nat
  BY <1>1, <1>2, BaseFacts DEF Within
<1>4. Base'
  BY <1>1, <1>2, <1>3 DEF Base, Within, Places
<1>5. Spot'
  BY <1>1, <1>2, <1>3 DEF Spot, Within
<1>6. LinesCounted'
  <2>1. \A i \in Taken(in) + 1 .. Taken(in)' : file[i] # "lf"
    BY <1>2, <1>3
  <2>2. Taken(in) <= Taken(in)'
    BY <1>2, <1>3
  <2> QED
    BY <1>1, <1>3, <2>1, <2>2, LinesKept
<1> QED
  BY <1>4, <1>5, <1>6 DEF IInv

\* The six actions that add a character.
LEMMA AddingHolds ==
  ASSUME IInv,
         \/ FirstDigit \/ MoreDigits \/ Point \/ FirstDecimal \/ MoreDecimals
         \/ FirstLetter \/ MoreLetters
  PROVE  IInv'
<1> DEFINE n == Len(text)
<1>1. Base /\ Spot
  BY DEF IInv
<1>2. n \in Nat /\ DOMAIN text = 1 .. n /\ text \in Seq(Char) /\ (text = <<>> <=> n = 0)
  BY <1>1, BaseFacts, LengthTyped DEF TextRoom
<1> DEFINE Grown == /\ text' \in Seq(Char) /\ Len(text') = n + 1 /\ text'[n + 1] = c
                    /\ DOMAIN text' = 1 .. n + 1 /\ text' # <<>>
                    /\ \A i \in 1 .. n : text'[i] = text[i]
<1>3. ASSUME NEW to, Add(to), c # EOF, at = "start"
      PROVE  text' \in Seq(Char) /\ Len(text') = 1 /\ text'[1] = c /\ DOMAIN text' = {1} /\ text' # <<>>
  <2>1. TextRoom' /\ Len(text') = 1 /\ text'[1] = c
    BY <1>1, <1>3, LexemeGrows DEF Add, Go
  <2>2. text' \in Seq(Char)
    BY <2>1 DEF TextRoom
  <2> QED
    BY <2>1, <2>2, LengthTyped
<1>4. ASSUME NEW to, Add(to), c # EOF, at \in Within
      PROVE  Grown
  <2>1. /\ TextRoom' /\ Len(text') = n + 1 /\ text'[n + 1] = c
        /\ \A i \in 1 .. n : text'[i] = text[i]
    BY <1>1, <1>4, LexemeGrows DEF Add, Go
  <2>2. text' \in Seq(Char)
    BY <2>1 DEF TextRoom
  <2> QED
    BY <1>2, <2>1, <2>2, LengthTyped
<1>5. CASE FirstDigit
  <2>1. Add("digits") /\ c \in Digit /\ at = "start" /\ c # EOF /\ c # "lf"
    BY <1>5, Classes DEF FirstDigit, Starts
  <2>2. Stream!IsInt(text')
    BY <1>3, <2>1, SameLexemes DEF Stream!IsInt, Stream!AllIn
  <2> QED
    BY <2>1, <2>2, AddHolds DEF Within
<1>6. CASE MoreDigits
  <2>1. Add("digits") /\ c \in Digit /\ at = "digits" /\ c # EOF /\ c # "lf" /\ at \in Within
    BY <1>6, Classes DEF MoreDigits, In, Within
  <2>2. Grown
    BY <1>4, <2>1
  <2>3. Stream!IsInt(text)
    BY <1>1, <2>1 DEF Spot
  <2>4. Stream!IsInt(text')
    BY <1>2, <2>1, <2>2, <2>3, SameLexemes DEF Stream!IsInt, Stream!AllIn
  <2> QED
    BY <2>1, <2>4, AddHolds DEF Within
<1>7. CASE Point
  <2>1. Add("point") /\ c = "." /\ at = "digits" /\ c # EOF /\ c # "lf" /\ at \in Within
    BY <1>7 DEF Point, In, Within, EOF
  <2>2. Grown
    BY <1>4, <2>1
  <2>3. n > 0 /\ \A i \in 1 .. n : text[i] \in Digit
    BY <1>1, <1>2, <2>1, SameLexemes DEF Spot, Stream!IsInt, Stream!AllIn
  <2>4. Len(text') > 1 /\ Len(text') - 1 = n
    BY <1>2, <2>2, <2>3
  <2>5. Stream!IsMalformed(text')
    BY <2>1, <2>2, <2>3, <2>4, SameLexemes DEF Stream!IsMalformed
  <2> QED
    BY <2>1, <2>4, <2>5, AddHolds DEF Within
<1>8. CASE FirstDecimal
  <2>1. Add("decimals") /\ c \in Digit /\ at = "point" /\ c # EOF /\ c # "lf" /\ at \in Within
    BY <1>8, Classes DEF FirstDecimal, In, Within
  <2>2. Grown
    BY <1>4, <2>1
  <2>3. n > 1 /\ text[n] = "." /\ \A i \in 1 .. n - 1 : text[i] \in Digit
    BY <1>1, <1>2, <2>1, SameLexemes DEF Spot, Stream!IsMalformed
  <2>4. Stream!IsDouble(text')
    <3>1. n \in 2 .. Len(text') - 1 /\ n \in 1 .. n
      BY <1>2, <2>2, <2>3
    <3>2. text'[n] = "."
      BY <2>2, <2>3, <3>1
    <3>. \A m \in Nat : \A i \in (1 .. m + 1) \ {m} :
           (i \in 1 .. m - 1 /\ i \in 1 .. m) \/ i = m + 1
      OBVIOUS
    <3>3. \A i \in (1 .. n + 1) \ {n} : (i \in 1 .. n - 1 /\ i \in 1 .. n) \/ i = n + 1
      BY <1>2
    <3>4. \A i \in (1 .. n + 1) \ {n} : text'[i] \in Digit
      BY <2>1, <2>2, <2>3, <3>3
    <3> QED
      BY <2>2, <3>1, <3>2, <3>4, SameLexemes DEF Stream!IsDouble
  <2> QED
    BY <2>1, <2>4, AddHolds DEF Within
<1>9. CASE MoreDecimals
  <2>1. Add("decimals") /\ c \in Digit /\ at = "decimals" /\ c # EOF /\ c # "lf" /\ at \in Within
    BY <1>9, Classes DEF MoreDecimals, In, Within
  <2>2. Grown
    BY <1>4, <2>1
  <2>3. PICK k \in 2 .. n - 1 : text[k] = "." /\ \A i \in (1 .. n) \ {k} : text[i] \in Digit
    BY <1>1, <1>2, <2>1, SameLexemes DEF Spot, Stream!IsDouble
  <2>4. Stream!IsDouble(text')
    <3>1. k \in 2 .. Len(text') - 1 /\ k \in 1 .. n
      BY <1>2, <2>2, <2>3
    <3>2. text'[k] = "."
      BY <2>2, <2>3, <3>1
    <3>3. \A i \in (1 .. n + 1) \ {k} : (i \in (1 .. n) \ {k} /\ i \in 1 .. n) \/ i = n + 1
      BY <1>2
    <3>4. \A i \in (1 .. n + 1) \ {k} : text'[i] \in Digit
      BY <2>1, <2>2, <2>3, <3>3
    <3> QED
      BY <2>2, <3>1, <3>2, <3>4, SameLexemes DEF Stream!IsDouble
  <2> QED
    BY <2>1, <2>4, AddHolds DEF Within
<1>10. CASE FirstLetter
  <2>1. /\ Add("word") /\ c \in Letter /\ c \in IdentChar /\ at = "start"
        /\ c # EOF /\ c # "lf"
    BY <1>10, Classes DEF FirstLetter, Starts
  <2>2. Stream!IsWord(text')
    BY <1>3, <2>1, SameLexemes DEF Stream!IsWord, Stream!AllIn
  <2> QED
    BY <2>1, <2>2, AddHolds DEF Within
<1>11. CASE MoreLetters
  <2>1. Add("word") /\ c \in IdentChar /\ at = "word" /\ c # EOF /\ c # "lf" /\ at \in Within
    BY <1>11, Classes DEF MoreLetters, In, Within
  <2>2. Grown
    BY <1>4, <2>1
  <2>3. n > 0 /\ text[1] \in Letter /\ \A i \in 1 .. n : text[i] \in IdentChar
    BY <1>1, <1>2, <2>1, SameLexemes DEF Spot, Stream!IsWord, Stream!AllIn
  <2>4. Stream!IsWord(text')
    <3>1. 1 \in 1 .. n /\ \A i \in 1 .. n + 1 : i \in 1 .. n \/ i = n + 1
      BY <1>2, <2>3
    <3> QED
      BY <2>1, <2>2, <2>3, <3>1, SameLexemes DEF Stream!IsWord, Stream!AllIn
  <2> QED
    BY <2>1, <2>4, AddHolds DEF Within
<1> QED
  BY <1>5, <1>6, <1>7, <1>8, <1>9, <1>10, <1>11

-----------------------------------------------------------------------------
(* The steps: what ends a lexeme or a call.                                  *)

\* A token is returned after everything up to it was read.
LEMMA ReturnHolds ==
  ASSUME IInv, at # "exited", NEW t, Return(t), TextRoom', Window(in)',
         Taken(in)' \in Taken(in) .. Len(file),
         \A i \in Taken(in) + 1 .. Taken(in)' : file[i] # "lf"
  PROVE  IInv'
<1>1. Base /\ Spot /\ LinesCounted
  BY DEF IInv
<1>2. /\ at' = "idle" /\ from' = Taken(in)' /\ UNCHANGED <<file, current_line>>
  BY DEF Return, Taken
<1>3. /\ Taken(in) \in Nat /\ Taken(in)' \in Nat /\ Taken(in) <= Taken(in)'
  BY <1>1, BaseFacts
<1>4. Base'
  BY <1>1, <1>2, <1>3 DEF Base, Places
<1>5. Spot'
  BY <1>2 DEF Spot, Within
<1>6. LinesCounted'
  BY <1>1, <1>2, <1>3, LinesKept
<1> QED
  BY <1>4, <1>5, <1>6 DEF IInv

LEMMA PushedBack ==
  ASSUME Base, in' = Pushback(After(in)), file' = file
  PROVE  Window(in)' /\ Taken(in)' = Taken(in)
<1>1. Window(Pushback(After(in))) /\ Taken(Pushback(After(in))) = Taken(in)
  BY BaseFacts, ReadTakesOne
<1> QED
  BY <1>1 DEF Window, Taken

LEMMA EndOfHolds ==
  ASSUME IInv, at # "exited", NEW t, EndOf(t)
  PROVE  IInv'
<1>1. Base /\ in' = Pushback(After(in)) /\ NoText /\ Return(t) /\ file' = file
  BY DEF IInv, EndOf, Return
<1>2. TextRoom' /\ Window(in)' /\ Taken(in)' = Taken(in)
  BY <1>1, BaseFacts, TextKept, PushedBack
<1>3. /\ Taken(in)' \in Taken(in) .. Len(file)
      /\ \A i \in Taken(in) + 1 .. Taken(in)' : file[i] # "lf"
  BY <1>1, <1>2, BaseFacts
<1> QED
  BY <1>1, <1>2, <1>3, ReturnHolds

\* The two characters that an operator looks at.
LEMMA TwoRead ==
  ASSUME Base, c # EOF
  PROVE  /\ Taken(in) + 1 \in 1 .. Len(file) /\ file[Taken(in) + 1] = c /\ c \in Char
         /\ Window(After(in)) /\ Taken(After(in)) = Taken(in) + 1
         /\ Window(After(After(in))) /\ Window(Pushback(After(After(in))))
         /\ Taken(Pushback(After(After(in)))) = Taken(in) + 1
         /\ behind # EOF => /\ Taken(After(After(in))) = Taken(in) + 2
                            /\ Taken(in) + 2 \in 1 .. Len(file)
                            /\ file[Taken(in) + 2] = behind
         /\ \A S : Taken(in) + 1 < Len(file) /\ behind \notin S /\ "255" \notin S
                     => file[Taken(in) + 2] \notin S
         /\ behind = EOF => Taken(After(After(in))) \in {Taken(in) + 1, Taken(in) + 2}
<1>1. /\ file \in Seq(Char) /\ Window(in) /\ Len(file) \in Nat
      /\ Taken(in) \in Nat /\ Taken(in) <= Len(file)
  BY BaseFacts
<1>2. /\ Taken(in) < Len(file) /\ Taken(After(in)) = Taken(in) + 1
      /\ c = file[Taken(in) + 1] /\ c \in Char
  BY <1>1, PeekIsNext DEF c
<1>3. Window(After(in))
  BY <1>1, ReadTakesOne
<1> DEFINE r == After(in)
<1>4. /\ Taken(r) \in 0 .. Len(file) /\ Window(After(r)) /\ Window(Pushback(After(r)))
      /\ Taken(Pushback(After(r))) = Taken(r)
      /\ Taken(After(r)) \in {Taken(r), Taken(r) + 1}
  BY <1>1, <1>3, ReadTakesOne
<1>5. /\ Peek(r) # EOF => /\ Taken(r) < Len(file) /\ Taken(After(r)) = Taken(r) + 1
                          /\ Peek(r) = file[Taken(r) + 1]
      /\ \A S : Taken(r) < Len(file) /\ Peek(r) \notin S /\ "255" \notin S
                     => file[Taken(r) + 1] \notin S
  BY <1>1, <1>3, PeekIsNext
<1>6. behind = Peek(r) /\ Taken(r) = Taken(in) + 1
  BY <1>2 DEF behind
<1> HIDE DEF r
<1>7. Taken(in) + 1 + 1 = Taken(in) + 2
  BY <1>1
<1>8. Taken(in) + 1 \in 1 .. Len(file) /\ (Taken(in) + 1 < Len(file) => Taken(in) + 2 \in 1 .. Len(file))
  BY <1>1, <1>2
<1> QED
  BY <1>2, <1>3, <1>4, <1>5, <1>6, <1>7, <1>8 DEF r

LEMMA OperatorsHold ==
  ASSUME IInv, ShortOperator \/ LongOperator \/ PlainOperator \/ PairedOperator
  PROVE  IInv'
<1> DEFINE p == Taken(in)
<1>1. /\ Base /\ TextRoom /\ p \in Nat /\ Len(file) \in Nat
  BY BaseFacts DEF IInv
<1>2. ASSUME NEW t, Return(t), at = "start", TextRoom',
             NEW r, in' = r, Window(r), NEW q \in {p + 1, p + 2}, Taken(r) = q,
             p + 1 \in 1 .. Len(file), file[p + 1] # "lf",
             q = p + 2 => p + 2 \in 1 .. Len(file) /\ file[p + 2] # "lf"
      PROVE  IInv'
  <2>1. file' = file
    BY <1>2 DEF Return
  <2>2. Window(in)' /\ Taken(in)' = q
    BY <1>2, <2>1 DEF Window, Taken
  <2>3. q \in p .. Len(file) /\ \A i \in p + 1 .. q : file[i] # "lf"
    BY <1>1, <1>2
  <2> QED
    BY <1>2, <2>2, <2>3, ReturnHolds
<1>3. CASE ShortOperator
  <2>1. /\ at = "start" /\ c # EOF /\ c # "lf" /\ in' = After(in) /\ NoText
        /\ Return(Token("OPERATOR", <<c>>))
    BY <1>3, Classes DEF ShortOperator, Starts
  <2> HIDE DEF p
  <2>2. TextRoom'
    BY <1>1, <2>1, TextKept
  <2>3. p + 1 # p + 2
    BY <1>1
  <2> QED
    BY <1>1, <1>2, <2>1, <2>2, <2>3, TwoRead DEF p
<1>4. CASE LongOperator
  <2>1. /\ at = "start" /\ c # EOF /\ c # "lf" /\ behind # EOF /\ behind # "lf"
        /\ in' = After(After(in)) /\ NoText /\ Return(Token("OPERATOR", <<c, behind>>))
    BY <1>4, Classes DEF LongOperator, Starts
  <2>2. TextRoom'
    BY <1>1, <2>1, TextKept
  <2> QED
    BY <1>1, <1>2, <2>1, <2>2, TwoRead
<1>5. CASE PlainOperator
  <2>1. /\ at = "start" /\ c # EOF /\ c # "lf"
        /\ in' = Pushback(After(After(in))) /\ NoText /\ Return(Token("OPERATOR", <<c>>))
    BY <1>5, Classes DEF PlainOperator, Starts
  <2>2. TextRoom'
    BY <1>1, <2>1, TextKept
  <2>3. p + 1 # p + 2
    BY <1>1
  <2> QED
    BY <1>1, <1>2, <2>1, <2>2, <2>3, TwoRead
<1>6. CASE PairedOperator
  <2>1. /\ at = "start" /\ c # EOF /\ c # "lf" /\ behind = c
        /\ in' = After(After(in)) /\ AddText(c) /\ Return(Token("OPERATOR", <<c, behind>>))
    BY <1>6, Classes DEF PairedOperator, Starts
  <2>2. TextRoom'
    BY <1>1, <2>1, Added, TwoRead
  <2> QED
    BY <1>1, <1>2, <2>1, <2>2, TwoRead
<1> QED
  BY <1>3, <1>4, <1>5, <1>6

\* The steps that leave no lexeme behind them, and those that end it.
LEMMA PassingHolds ==
  ASSUME IInv, SkipBlank \/ SkipLineEnd \/ BeginComment \/ InComment \/ EndComment
  PROVE  IInv'
<1> DEFINE p == Taken(in)
           q == Taken(After(in))
<1>1. /\ Base /\ Spot /\ LinesCounted /\ TextRoom /\ p \in Nat /\ Len(file) \in Nat
      /\ p <= Len(file) /\ from \in Nat /\ from <= p /\ DOMAIN file = 1 .. Len(file)
      /\ current_line \in Nat
  BY BaseFacts DEF IInv, Base
<1>2. /\ in' = After(in) /\ NoText /\ UNCHANGED file
      /\ at' \in {"start", "comment"} /\ at \in {"start", "comment"}
  BY DEF SkipBlank, SkipLineEnd, BeginComment, InComment, EndComment, Retry, Go,
         Starts, In, Leaves
<1>3. /\ Window(After(in)) /\ q \in {p, p + 1}
      /\ c # EOF => q = p + 1 /\ p + 1 \in 1 .. Len(file) /\ file[p + 1] = c
      /\ c # "lf" /\ q = p + 1 => p + 1 \in 1 .. Len(file) /\ file[p + 1] # "lf"
  <2>1. /\ file \in Seq(Char) /\ Window(in)
    BY <1>1, BaseFacts
  <2>2. /\ Window(After(in))
        /\ IF p = Len(file) THEN Peek(in) = EOF /\ q = p ELSE q = p + 1
    BY <2>1, ReadTakesOne
  <2>3. /\ c # EOF => p < Len(file) /\ c = file[p + 1]
        /\ p < Len(file) /\ c \notin {"lf"} => file[p + 1] \notin {"lf"}
    BY <2>1, PeekIsNext DEF c
  <2> QED
    BY <1>1, <2>2, <2>3 DEF c
<1>4. Window(in)' /\ Taken(in)' = q /\ q \in Nat
  BY <1>1, <1>2, <1>3 DEF Window, Taken
<1>5. TextRoom' /\ ytp' = 0
  BY <1>1, <1>2, TextKept DEF Spot
<1> HIDE DEF p, q
<1>6. (c # "lf" /\ UNCHANGED current_line) => LinesCounted'
  <2> SUFFICES ASSUME c # "lf", UNCHANGED current_line PROVE LinesCounted'
    OBVIOUS
  <2>1. \A i \in p + 1 .. q : file[i] # "lf"
    BY <1>1, <1>3
  <2>2. p <= q /\ at # "exited" /\ Taken(in) = p
    BY <1>1, <1>2, <1>3 DEF p
  <2> QED
    BY <1>1, <1>2, <1>4, <2>1, <2>2, LinesKept
<1>7. (c \in LineEnd /\ current_line' = current_line + 1) => LinesCounted'
  <2> SUFFICES ASSUME c \in LineEnd, current_line' = current_line + 1 PROVE LinesCounted'
    OBVIOUS
  <2>1. c # EOF
    BY Classes
  <2>2. Taken(in)' = p + 1 /\ p + 1 \in DOMAIN file /\ file[p + 1] \in LineEnd
    BY <1>1, <1>3, <1>4, <2>1
  <2>3. at # "exited" /\ Taken(in) = p
    BY <1>2 DEF p
  <2> QED
    BY <1>1, <1>2, <2>2, <2>3, LineCounted
<1>8. ASSUME SkipBlank \/ SkipLineEnd \/ EndComment PROVE IInv'
  <2>1. /\ at' = "start" /\ from' = Taken(in)' /\ current_line' \in Nat
        /\ \/ c # "lf" /\ UNCHANGED current_line
           \/ c \in LineEnd /\ current_line' = current_line + 1
    <3>1. CASE SkipBlank
      BY <1>1, <3>1, Classes DEF SkipBlank, Starts, Retry, Taken
    <3>2. CASE SkipLineEnd
      BY <1>1, <3>2, Classes DEF SkipLineEnd, Starts, Retry, Taken
    <3>3. CASE EndComment
      BY <1>1, <3>3, Classes DEF EndComment, In, Retry, Taken
    <3> QED
      BY <1>8, <3>1, <3>2, <3>3
  <2>2. Base'
    BY <1>1, <1>2, <1>4, <1>5, <2>1 DEF Base, Places
  <2>3. Spot'
    BY <1>5, <2>1 DEF Spot, Within
  <2> QED
    BY <1>6, <1>7, <2>1, <2>2, <2>3 DEF IInv
<1>9. ASSUME BeginComment \/ InComment PROVE IInv'
  <2>1. at' = "comment" /\ UNCHANGED <<from, current_line>> /\ c # "lf"
    BY <1>9, "lf" # "#" DEF BeginComment, InComment, Starts, Leaves, Go
  <2>2. Base'
    BY <1>1, <1>2, <1>3, <1>4, <1>5, <2>1 DEF Base, Places
  <2>3. from < q /\ file[from + 1] = "#"
    <3>1. CASE BeginComment
      <4>1. c = "#" /\ c # EOF /\ at = "start"
        BY <3>1 DEF BeginComment, Starts, EOF
      <4>2. from = p
        BY <1>1, <4>1 DEF Spot, p
      <4> QED
        BY <1>1, <1>3, <4>1, <4>2
    <3>2. CASE InComment
      <4>1. at = "comment"
        BY <3>2 DEF InComment, Leaves
      <4>2. from < p /\ file[from + 1] = "#"
        BY <1>1, <4>1 DEF Spot, p
      <4> QED
        BY <1>1, <1>3, <4>2
    <3> QED
      BY <1>9, <3>1, <3>2
  <2>4. \A i \in from + 1 .. q : file[i] # "lf"
    <3>1. \A i \in from + 1 .. p : file[i] # "lf"
      <4>1. CASE at = "start"
        BY <1>1, <4>1 DEF Spot, p
      <4>2. CASE at = "comment"
        BY <1>1, <4>2 DEF Spot, p
      <4> QED
        BY <1>2, <4>1, <4>2
    <3> QED
      BY <1>1, <1>3, <2>1, <3>1
  <2>5. Spot'
    BY <1>2, <1>4, <1>5, <2>1, <2>3, <2>4 DEF Spot, Within
  <2> QED
    BY <1>6, <2>1, <2>2, <2>5 DEF IInv
<1> QED
  BY <1>8, <1>9

LEMMA StoppingHolds ==
  ASSUME IInv, DoubleError \/ PairedError \/ ReturnEOF
  PROVE  IInv'
<1> DEFINE p == Taken(in)
<1>1. /\ Base /\ Spot /\ LinesCounted /\ TextRoom /\ p \in Nat /\ Len(file) \in Nat
      /\ p <= Len(file) /\ from \in Nat /\ from <= p /\ file \in Seq(Char) /\ Window(in)
  BY BaseFacts DEF IInv
<1>2. /\ Window(After(in)) /\ Taken(After(in)) \in {p, p + 1}
  BY <1>1, ReadTakesOne
<1>3. ASSUME TextRoom', UNCHANGED <<file, current_line, from>>, at' \in {"exited", "end"},
             NEW r, in' = r, Window(r), Taken(r) \in {p, p + 1, p + 2}
      PROVE  Base' /\ Spot'
  <2>1. Window(in)' /\ Taken(in)' \in {p, p + 1, p + 2}
    BY <1>3 DEF Window, Taken
  <2>2. Base'
    BY <1>1, <1>3, <2>1 DEF Base, Places
  <2> QED
    BY <1>3, <2>2 DEF Spot, Within
<1>4. CASE DoubleError
  <2>1. /\ NoText /\ in' = After(in) /\ at' = "exited" /\ UNCHANGED <<file, current_line, from>>
    BY <1>4 DEF DoubleError, Go
  <2>2. TextRoom'
    BY <1>1, <2>1, TextKept
  <2> QED
    BY <1>2, <1>3, <2>1, <2>2 DEF IInv, LinesCounted
<1>5. CASE PairedError
  <2>1. /\ AddTwo(c, AsChar(behind)) /\ in' = After(After(in)) /\ at' = "exited"
        /\ UNCHANGED <<file, current_line, from>> /\ c # EOF
    BY <1>5, Classes DEF PairedError, Starts, Go
  <2>2. /\ Window(After(After(in))) /\ Taken(After(After(in))) \in {p + 1, p + 2} /\ c \in Char
    BY <1>1, <2>1, TwoRead
  <2>3. AsChar(behind) \in Char
    BY <1>1, <2>1, TwoRead, Classes DEF AsChar
  <2>4. TextRoom'
    BY <1>1, <2>1, <2>2, <2>3, TwoAdded
  <2> QED
    BY <1>3, <2>1, <2>2, <2>4 DEF IInv, LinesCounted
<1>6. CASE ReturnEOF
  <2>1. /\ NoText /\ in' = After(in) /\ at' = "end" /\ at = "start"
        /\ UNCHANGED <<file, current_line, from>> /\ c = EOF
    BY <1>6, Classes DEF ReturnEOF, Starts, Go
  <2>2. TextRoom'
    BY <1>1, <2>1, TextKept
  <2>3. Base' /\ Spot'
    BY <1>2, <1>3, <2>1, <2>2
  <2>4. Taken(in)' \in {p, p + 1} /\ (Taken(in)' = p + 1 => file[p + 1] # "lf")
    <3>1. Taken(in)' = Taken(After(in))
      BY <2>1 DEF Taken
    <3>2. p = Len(file) \/ file[p + 1] = "255"
      BY <1>1, <2>1, PeekIsNext DEF c
    <3>3. p = Len(file) => Taken(After(in)) = p
      BY <1>1, ReadTakesOne
    <3>4. p + 1 # p
      BY <1>1
    <3> QED
      BY <1>2, <3>1, <3>2, <3>3, <3>4
  <2>5. LinesCounted'
    <3>1. Taken(in)' \in Nat /\ p <= Taken(in)' /\ \A i \in p + 1 .. Taken(in)' : file[i] # "lf"
      BY <1>1, <2>4
    <3> QED
      BY <1>1, <2>1, <3>1, LinesKept
  <2> QED
    BY <2>3, <2>5 DEF IInv
<1> QED
  BY <1>4, <1>5, <1>6

-----------------------------------------------------------------------------
(* The theorems on types, text and lines.                                    *)

LEMMA InitHolds == ScannerInit => IInv
<1> SUFFICES ASSUME ScannerInit PROVE IInv
  OBVIOUS
<1>1. /\ file \in Seq(Char) /\ file \in Files /\ Len(file) \in Nat
      /\ in = [pos |-> 0, buffer |-> <<>>, ptr |-> 0]
      /\ text = <<>> /\ ytp = 0 /\ yt_max = 0 /\ at = "idle" /\ current_line = 1 /\ from = 0
  BY FilesTyped, LengthTyped DEF ScannerInit
<1>2. Window(in) /\ Taken(in) = 0
  BY <1>1, EmptySeq DEF Window, Taken
<1>3. Base
  BY <1>1, <1>2, EmptySeq DEF Base, TextRoom, Places
<1>4. Spot
  BY <1>1, <1>2 DEF Spot, Within
<1>5. LinesCounted
  <2>1. {i \in 1 .. Taken(in) : file[i] = "lf"} = {}
    BY <1>2
  <2>2. Cardinality({i \in 1 .. Taken(in) : file[i] = "lf"}) = 0
    BY <2>1, FS_EmptySet
  <2> QED
    BY <1>1, <2>2 DEF LinesCounted
<1> QED
  BY <1>3, <1>4, <1>5 DEF IInv

LEMMA NextHolds == IInv /\ [ScannerNext]_scannerVars => IInv'
<1> SUFFICES ASSUME IInv, [ScannerNext]_scannerVars PROVE IInv'
  OBVIOUS
<1>1. CASE Call
  <2>1. /\ Base /\ Spot /\ LinesCounted /\ TextRoom
    BY BaseFacts DEF IInv
  <2>2. /\ at = "idle" /\ at' = "start" /\ ytp' = 0
        /\ UNCHANGED <<in, text, yt_max, file, current_line, from>>
    BY <1>1 DEF Call, Go
  <2>3. TextRoom'
    BY <2>1, <2>2, LengthTyped DEF TextRoom
  <2>4. Window(in)' /\ Taken(in)' = Taken(in)
    BY <2>1, <2>2 DEF Base, Window, Taken
  <2>5. Base'
    BY <2>1, <2>2, <2>3, <2>4 DEF Base, Places
  <2>6. Spot'
    BY <2>1, <2>2, <2>4 DEF Spot, Within
  <2>7. LinesCounted'
    BY <2>1, <2>2, <2>4 DEF LinesCounted
  <2> QED
    BY <2>5, <2>6, <2>7 DEF IInv
<1>2. CASE Skips
  BY <1>2, PassingHolds DEF Skips
<1>3. CASE EndInt
  BY <1>3, EndOfHolds DEF EndInt, Leaves
<1>4. CASE EndDouble
  BY <1>4, EndOfHolds DEF EndDouble, Leaves
<1>5. CASE EndWord
  BY <1>5, EndOfHolds DEF EndWord, Leaves
<1>6. CASE StaleWord
  BY <1>6, EndOfHolds DEF StaleWord, Starts
<1>7. CASE JunkWord
  BY <1>7, EndOfHolds DEF JunkWord, Starts
<1>8. CASE UNCHANGED scannerVars
  BY <1>8 DEF IInv, Base, Window, TextRoom, Taken, Spot, Lexeme, LinesCounted, scannerVars
<1> QED
  BY <1>1, <1>2, <1>3, <1>4, <1>5, <1>6, <1>7, <1>8, AddingHolds, OperatorsHold, StoppingHolds
     DEF ScannerNext, Numbers, Operators, Words

LEMMA IInvHolds == ScannerSpec => []IInv
BY InitHolds, NextHolds, PTL DEF ScannerSpec

\* Every variable of the scanner keeps its type, and ptr stays in the buffer.
THEOREM ScannerTypes == ScannerSpec => []ScannerTypeOK
<1>1. IInv => ScannerTypeOK
  <2> SUFFICES ASSUME IInv PROVE ScannerTypeOK
    OBVIOUS
  <2>1. Base /\ Window(in) /\ TextRoom /\ from \in Nat
    BY BaseFacts DEF IInv
  <2>2. ytp \in Nat
    BY <2>1, LengthTyped DEF TextRoom
  <2> QED
    BY <2>1, <2>2 DEF ScannerTypeOK, Base, Window, TextRoom
<1> QED
  BY <1>1, IInvHolds, PTL

\* yytext has room for what is in it and its NUL.
THEOREM TextAlwaysFits == ScannerSpec => []TextFits
<1>1. IInv => TextFits
  <2> SUFFICES ASSUME IInv PROVE TextFits
    OBVIOUS
  <2>1. TextRoom
    BY BaseFacts DEF IInv
  <2> QED
    BY <2>1, LengthTyped DEF TextRoom, TextFits
<1> QED
  BY <1>1, IInvHolds, PTL

\* A line is counted once, wherever the buffer ends.
THEOREM LinesAreCounted == ScannerSpec => []LinesCounted
BY IInvHolds, PTL DEF IInv

-----------------------------------------------------------------------------
(* The tokens.                                                               *)

\* The lexeme of n characters behind from is the longest if nothing that goes
\* on behind it with the next character of the file is a lexeme.
LEMMA LongestIs ==
  ASSUME Base, NEW n \in Nat, 1 <= n, from + n <= Len(file),
         NEW s, s = SubSeq(file, from + 1, from + n), Stream!IsLexeme(s),
         from + n < Len(file) =>
           \A t \in Seq(Char) : Extends(s, t) /\ t[n + 1] = file[from + n + 1]
                                  => ~Stream!IsLexeme(t)
  PROVE  Stream!Longest(n) /\ Stream!Next(n) = s
<1>1. file \in Seq(Char) /\ Len(file) \in Nat /\ from \in Nat
  BY BaseFacts
<1>2. \A m \in Nat : from + m <= Len(file) =>
        LET t == SubSeq(file, from + 1, from + m)
        IN  /\ t \in Seq(Char) /\ Len(t) = m /\ \A i \in 1 .. m : t[i] = file[from + i]
  <2> SUFFICES ASSUME NEW m \in Nat, from + m <= Len(file)
               PROVE  LET t == SubSeq(file, from + 1, from + m)
                      IN  t \in Seq(Char) /\ Len(t) = m /\ \A i \in 1 .. m : t[i] = file[from + i]
    OBVIOUS
  <2>1. from + m \in from .. Len(file) /\ from + m - from = m
    BY <1>1
  <2> QED
    BY <1>1, <2>1, PieceOfFile
<1>3. s \in Seq(Char) /\ Len(s) = n /\ \A i \in 1 .. n : s[i] = file[from + i]
  BY <1>2
<1>4. ASSUME NEW m \in n + 1 .. Len(file) - from
      PROVE  ~Stream!IsLexeme(SubSeq(file, from + 1, from + m))
  <2> DEFINE t == SubSeq(file, from + 1, from + m)
  <2>1. /\ m \in Nat /\ from + m <= Len(file) /\ from + n < Len(file) /\ m > n
        /\ n + 1 \in 1 .. m /\ from + (n + 1) = from + n + 1
    BY <1>1, <1>4
  <2>2. t \in Seq(Char) /\ Len(t) = m /\ \A i \in 1 .. m : t[i] = file[from + i]
    BY <1>2, <2>1
  <2> HIDE DEF t
  <2>3. \A i \in 1 .. n : i \in 1 .. m
    BY <2>1
  <2>4. Extends(s, t)
    BY <1>3, <2>1, <2>2, <2>3 DEF Extends
  <2>5. t[n + 1] = file[from + n + 1]
    BY <2>1, <2>2
  <2> QED
    BY <2>1, <2>2, <2>4, <2>5 DEF t
<1> QED
  BY <1>4 DEF Stream!Longest, Stream!Next, Stream!Left

\* An operator is neither a number nor a word, and of no other kind.
LEMMA KindsApart ==
  ASSUME NEW s \in Seq(Char)
  PROVE  /\ Stream!IsInt(s) => ~Stream!IsMalformed(s)
         /\ Stream!IsDouble(s) => ~Stream!IsInt(s) /\ ~Stream!IsMalformed(s)
         /\ Stream!IsWord(s) => ~Stream!IsInt(s) /\ ~Stream!IsDouble(s) /\ ~Stream!IsMalformed(s)
         /\ Len(s) > 0 /\ s[1] \in Single \cup Paired \cup DOMAIN Second
              => ~Stream!IsInt(s) /\ ~Stream!IsDouble(s) /\ ~Stream!IsWord(s)
         /\ Len(s) = 1 /\ s[1] \in Single \cup DOMAIN Second => ~Stream!IsMalformed(s)
         /\ Len(s) = 2 /\ s[1] \in Paired \cup DOMAIN Second => ~Stream!IsMalformed(s)
<1>1. /\ Len(s) \in Nat /\ DOMAIN s = 1 .. Len(s) /\ (s = <<>> <=> Len(s) = 0)
      /\ Len(s) > 0 => 1 \in 1 .. Len(s) /\ Len(s) \in 1 .. Len(s)
      /\ Len(s) > 1 => 1 \in 1 .. Len(s) - 1
  BY LengthTyped
<1>2. Stream!IsInt(s) => ~Stream!IsMalformed(s)
  BY SameLexemes, <1>1, Classes, ClassesApart DEF Stream!IsInt, Stream!AllIn, Stream!IsMalformed
<1>3. ASSUME Stream!IsDouble(s) PROVE ~Stream!IsInt(s) /\ ~Stream!IsMalformed(s)
  <2>1. PICK k \in 2 .. Len(s) - 1 : s[k] = "." /\ \A i \in DOMAIN s \ {k} : s[i] \in Digit
    BY SameLexemes, <1>3 DEF Stream!IsDouble
  <2>2. /\ k \in 1 .. Len(s) /\ k \in 1 .. Len(s) - 1 /\ Len(s) # 1 /\ s[k] \notin Digit
    BY <1>1, <2>1, Classes, ClassesApart
  <2> QED
    BY SameLexemes, <1>1, <2>2 DEF Stream!IsInt, Stream!AllIn, Stream!IsMalformed
<1>4. ASSUME Stream!IsWord(s)
      PROVE  ~Stream!IsInt(s) /\ ~Stream!IsDouble(s) /\ ~Stream!IsMalformed(s)
  <2>1. s[1] \in Letter /\ Len(s) > 0 /\ s[1] \notin Digit \cup Paired
    BY SameLexemes, <1>1, <1>4, ClassesApart DEF Stream!IsWord
  <2>2. ~Stream!IsDouble(s)
    BY SameLexemes, <1>1, <2>1 DEF Stream!IsDouble
  <2> QED
    BY SameLexemes, <1>1, <2>1, <2>2 DEF Stream!IsInt, Stream!AllIn, Stream!IsMalformed
<1>5. ASSUME Len(s) > 0, s[1] \in Single \cup Paired \cup DOMAIN Second
      PROVE  ~Stream!IsInt(s) /\ ~Stream!IsDouble(s) /\ ~Stream!IsWord(s)
  <2>1. s[1] \notin Digit /\ s[1] \notin Letter
    BY <1>5, ClassesApart
  <2>2. ~Stream!IsDouble(s)
    BY SameLexemes, <1>1, <1>5, <2>1 DEF Stream!IsDouble
  <2> QED
    BY SameLexemes, <1>1, <1>5, <2>1, <2>2 DEF Stream!IsInt, Stream!IsWord, Stream!AllIn
<1>6. Len(s) = 1 /\ s[1] \in Single \cup DOMAIN Second => ~Stream!IsMalformed(s)
  BY SameLexemes, <1>1, ClassesApart DEF Stream!IsMalformed
<1>7. Len(s) = 2 /\ s[1] \in Paired \cup DOMAIN Second => ~Stream!IsMalformed(s)
  BY SameLexemes, <1>1, ClassesApart DEF Stream!IsMalformed
<1> QED
  BY <1>2, <1>3, <1>4, <1>5, <1>6, <1>7

\* The token of n characters is returned.
LEMMA TakeIs ==
  ASSUME Base, at \notin {"exited", "end"}, NEW n \in Nat, 1 <= n, from + n <= Len(file),
         Stream!Longest(n), ~Stream!IsMalformed(Stream!Next(n)),
         Return(Stream!TokenOf(Stream!Next(n))), Taken(in)' = from + n
  PROVE  Stream!Take
<1>1. Len(file) \in Nat /\ from \in Nat
  BY BaseFacts
<1>2. n \in 1 .. Len(file) - from
  BY <1>1
<1>3. from' = from + n
  BY DEF Return, Taken
<1> QED
  BY <1>2, <1>3 DEF Stream!Take, Stream!Left, Return

\* A number or a word is returned.
LEMMA LexemeTaken ==
  ASSUME IInv, EndInt \/ EndDouble \/ EndWord
  PROVE  Stream!Take
<1> DEFINE n == Len(text)
<1>1. /\ Base /\ Spot /\ TextRoom /\ file \in Seq(Char) /\ Len(file) \in Nat
      /\ from \in Nat /\ Taken(in) \in Nat /\ Taken(in) <= Len(file) /\ Window(in)
  BY BaseFacts DEF IInv
<1>2. at \in Within /\ in' = Pushback(After(in)) /\ file' = file
  BY DEF EndInt, EndDouble, EndWord, EndOf, Leaves, Within, Return
<1>3. text \in Seq(Char) /\ text = SubSeq(file, from + 1, Taken(in)) /\ from < Taken(in)
  BY <1>1, <1>2 DEF Spot, Lexeme, TextRoom
<1>4. n \in Nat /\ n = Taken(in) - from /\ 1 <= n /\ from + n = Taken(in)
  <2>1. Taken(in) \in from .. Len(file)
    BY <1>1, <1>3
  <2>2. n = Taken(in) - from
    BY <1>1, <1>3, <2>1, PieceOfFile
  <2> QED
    BY <1>1, <1>3, <2>2
<1> HIDE DEF n
<1>5. Taken(in)' = from + n
  BY <1>1, <1>2, <1>4, PushedBack
<1>6. \A S : Taken(in) < Len(file) /\ c \notin S /\ "255" \notin S
               => file[from + n + 1] \notin S
  BY <1>1, <1>4, PeekIsNext DEF c
<1>7. ASSUME NEW S, c \notin S, "255" \notin S, Stream!IsLexeme(text),
             \A t \in Seq(Char) : Extends(text, t) /\ t[n + 1] \notin S => ~Stream!IsLexeme(t)
      PROVE  Stream!Longest(n) /\ Stream!Next(n) = text
  <2>1. from + n < Len(file) =>
          \A t \in Seq(Char) : Extends(text, t) /\ t[n + 1] = file[from + n + 1]
                                 => ~Stream!IsLexeme(t)
    BY <1>4, <1>6, <1>7
  <2>2. from + n <= Len(file) /\ text = SubSeq(file, from + 1, from + n)
    BY <1>1, <1>3, <1>4
  <2> QED
    BY <1>1, <1>4, <1>7, <2>1, <2>2, LongestIs
<1>8. ASSUME Stream!Longest(n), Stream!Next(n) = text, ~Stream!IsMalformed(text),
             NEW token1, token1 = Stream!TokenOf(text), EndOf(token1)
      PROVE  Stream!Take
  <2>1. from + n <= Len(file) /\ at \notin {"exited", "end"}
    BY <1>1, <1>2, <1>4 DEF Within
  <2>2. Return(Stream!TokenOf(Stream!Next(n)))
    BY <1>8 DEF EndOf
  <2> QED
    BY <1>1, <1>4, <1>5, <1>8, <2>1, <2>2, TakeIs
<1>9. CASE EndInt
  <2>1. c \notin Digit \cup {"."} /\ at = "digits" /\ EndOf(Token("INT_LITERAL", text))
    BY <1>9 DEF EndInt, Leaves
  <2>2. Stream!IsInt(text) /\ Stream!IsLexeme(text)
    BY <1>1, <2>1 DEF Spot, Stream!IsLexeme
  <2>3. "255" \notin Digit \cup {"."}
    BY DEF Digit
  <2>4. \A t \in Seq(Char) : Extends(text, t) /\ t[n + 1] \notin Digit \cup {"."}
                               => ~Stream!IsLexeme(t)
    BY <1>3, <2>2, IntEnds DEF n
  <2>5. Stream!Longest(n) /\ Stream!Next(n) = text
    BY <1>7, <2>1, <2>2, <2>3, <2>4
  <2>6. Stream!TokenOf(text) = Token("INT_LITERAL", text) /\ ~Stream!IsMalformed(text)
    BY <1>3, <2>2, KindsApart, SameLexemes DEF Stream!TokenOf
  <2> QED
    BY <1>8, <2>1, <2>5, <2>6
<1>10. CASE EndDouble
  <2>1. c \notin Digit /\ at = "decimals" /\ EndOf(Token("DOUBLE_LITERAL", text))
    BY <1>10 DEF EndDouble, Leaves
  <2>2. Stream!IsDouble(text) /\ Stream!IsLexeme(text)
    BY <1>1, <2>1 DEF Spot, Stream!IsLexeme
  <2>3. "255" \notin Digit
    BY DEF Digit
  <2>4. \A t \in Seq(Char) : Extends(text, t) /\ t[n + 1] \notin Digit => ~Stream!IsLexeme(t)
    BY <1>3, <2>2, DoubleEnds DEF n
  <2>5. Stream!Longest(n) /\ Stream!Next(n) = text
    BY <1>7, <2>1, <2>2, <2>3, <2>4
  <2>6. Stream!TokenOf(text) = Token("DOUBLE_LITERAL", text) /\ ~Stream!IsMalformed(text)
    BY <1>3, <2>2, KindsApart, SameLexemes DEF Stream!TokenOf
  <2> QED
    BY <1>8, <2>1, <2>5, <2>6
<1>11. CASE EndWord
  <2>1. c \notin IdentChar /\ at = "word" /\ EndOf(Word(text))
    BY <1>11 DEF EndWord, Leaves
  <2>2. Stream!IsWord(text) /\ Stream!IsLexeme(text)
    BY <1>1, <2>1 DEF Spot, Stream!IsLexeme
  <2>3. "255" \notin IdentChar
    BY DEF IdentChar, Digit, Letter
  <2>4. \A t \in Seq(Char) : Extends(text, t) /\ t[n + 1] \notin IdentChar => ~Stream!IsLexeme(t)
    BY <1>3, <2>2, WordEnds DEF n
  <2>5. Stream!Longest(n) /\ Stream!Next(n) = text
    BY <1>7, <2>1, <2>2, <2>3, <2>4
  <2>6. Stream!TokenOf(text) = Word(text) /\ ~Stream!IsMalformed(text)
    BY <1>3, <2>2, KindsApart, SameLexemes DEF Stream!TokenOf
  <2> QED
    BY <1>8, <2>1, <2>5, <2>6
<1> QED
  BY <1>9, <1>10, <1>11

\* The first one or two characters of a lexeme.
LEMMA FirstTwo ==
  ASSUME IInv, at = "start", c # EOF
  PROVE  /\ from = Taken(in) /\ from \in Nat /\ Len(file) \in Nat
         /\ from + 1 <= Len(file) /\ from < Len(file) /\ file[from + 1] = c
         /\ <<c>> \in Seq(Char) /\ <<c>> = SubSeq(file, from + 1, from + 1)
         /\ behind # EOF => /\ from + 2 <= Len(file) /\ file[from + 2] = behind
                            /\ <<c, behind>> \in Seq(Char)
                            /\ <<c, behind>> = SubSeq(file, from + 1, from + 2)
<1>1. /\ Base /\ from = Taken(in) /\ from \in Nat /\ Len(file) \in Nat
      /\ file \in Seq(Char) /\ DOMAIN file = 1 .. Len(file)
  BY BaseFacts DEF IInv, Spot
<1>2. /\ from + 1 \in 1 .. Len(file) /\ file[from + 1] = c /\ c \in Char
      /\ behind # EOF => from + 2 \in 1 .. Len(file) /\ file[from + 2] = behind
  BY <1>1, TwoRead
<1>3. behind # EOF => behind \in Char
  BY <1>1, <1>2, LengthTyped
<1> DEFINE one == <<c>>
           two == <<c, behind>>
<1>4. /\ one \in Seq(Char) /\ Len(one) = 1 /\ one[1] = c
      /\ behind # EOF => two \in Seq(Char) /\ Len(two) = 2 /\ two[1] = c /\ two[2] = behind
  BY <1>2, <1>3
<1> HIDE DEF one, two
<1>8. ASSUME NEW t \in Seq(Char), NEW q \in from .. Len(file), Len(t) = q - from,
             \A i \in 1 .. q - from : t[i] = file[from + i]
      PROVE  t = SubSeq(file, from + 1, q)
  BY ONLY <1>1, <1>8, PieceIs
<1>5. one = SubSeq(file, from + 1, from + 1)
  <2>1. PICK q : q = from + 1
    OBVIOUS
  <2>2. q \in from .. Len(file) /\ q - from = 1
    BY <1>1, <1>2, <2>1
  <2>3. \A i \in 1 .. q - from : one[i] = file[from + i]
    BY <1>2, <1>4, <2>2
  <2>4. one = SubSeq(file, from + 1, q)
    BY ONLY <1>4, <1>8, <2>2, <2>3
  <2> QED
    BY <2>1, <2>4
<1>6. behind # EOF => two = SubSeq(file, from + 1, from + 2)
  <2> SUFFICES ASSUME behind # EOF PROVE two = SubSeq(file, from + 1, from + 2)
    OBVIOUS
  <2>1. PICK q : q = from + 2
    OBVIOUS
  <2>2. q \in from .. Len(file) /\ q - from = 2
    BY <1>1, <1>2, <2>1
  <2>3. two \in Seq(Char) /\ Len(two) = q - from
    BY <1>4, <2>2
  <2>4. \A i \in 1 .. q - from : two[i] = file[from + i]
    <3>1. two[1] = file[from + 1] /\ two[2] = file[from + 2] /\ \A i \in 1 .. 2 : i = 1 \/ i = 2
      BY <1>2, <1>4
    <3> QED
      BY <2>2, <3>1
  <2>5. two = SubSeq(file, from + 1, q)
    BY ONLY <1>8, <2>2, <2>3, <2>4
  <2> QED
    BY <2>1, <2>5
<1>7. from < Len(file) /\ from + 1 <= Len(file) /\ (behind # EOF => from + 2 <= Len(file))
  BY <1>1, <1>2
<1> QED
  BY <1>1, <1>2, <1>4, <1>5, <1>6, <1>7 DEF one, two

\* What begins as an operator and is the only character of it.
LEMMA OneIsLongest ==
  ASSUME IInv, at = "start", c \in Single \cup Paired \cup DOMAIN Second,
         NEW S, "255" \notin S, behind \notin S,
         \A t \in Seq(Char) : Len(t) = 2 /\ t[1] = c /\ t[2] \notin S => ~Stream!IsOperator(t),
         Stream!IsLexeme(<<c>>)
  PROVE  Stream!Longest(1) /\ Stream!Next(1) = <<c>>
<1>1. c # EOF
  BY Classes
<1>2. /\ Base /\ from = Taken(in) /\ from \in Nat /\ Len(file) \in Nat
      /\ from + 1 <= Len(file) /\ <<c>> = SubSeq(file, from + 1, from + 1)
  BY <1>1, FirstTwo DEF IInv
<1>3. from + 1 < Len(file) => file[from + 2] \notin S
  BY <1>1, <1>2, TwoRead
<1>4. ASSUME from + 1 < Len(file), NEW t \in Seq(Char), Extends(<<c>>, t),
             t[1 + 1] = file[from + 1 + 1]
      PROVE  ~Stream!IsLexeme(t)
  <2>1. Len(t) > 1 /\ t[1] = c
    BY <1>4 DEF Extends
  <2>2. from + 1 + 1 = from + 2
    BY <1>2
  <2>3. t[2] \notin S
    BY <1>3, <1>4, <2>2
  <2> QED
    BY <2>1, <2>3, OperatorEnds
<1>5. 1 \in Nat /\ 1 <= 1
  OBVIOUS
<1> QED
  BY <1>2, <1>4, <1>5, LongestIs

LEMMA OperatorTaken ==
  ASSUME IInv, ShortOperator \/ LongOperator \/ PlainOperator \/ PairedOperator
  PROVE  Stream!Take
<1>1. at = "start" /\ c \in Single \cup Paired \cup DOMAIN Second /\ c # EOF /\ Base
  BY Classes DEF ShortOperator, LongOperator, PlainOperator, PairedOperator, Starts, IInv
<1>2. /\ from = Taken(in) /\ from \in Nat /\ Len(file) \in Nat
      /\ from + 1 <= Len(file)
      /\ <<c>> \in Seq(Char)
      /\ behind # EOF => /\ from + 2 <= Len(file)
                         /\ <<c, behind>> \in Seq(Char)
                         /\ <<c, behind>> = SubSeq(file, from + 1, from + 2)
  BY <1>1, FirstTwo
<1>3. /\ Taken(After(in)) = from + 1 /\ Taken(Pushback(After(After(in)))) = from + 1
      /\ behind # EOF => Taken(After(After(in))) = from + 2
  BY <1>1, <1>2, TwoRead
<1>4. ASSUME NEW n \in Nat, 1 <= n, from + n <= Len(file), NEW s \in Seq(Char),
             Stream!Longest(n), Stream!Next(n) = s, Return(Token("OPERATOR", s)),
             Taken(in)' = from + n, Len(s) > 0, s[1] = c, ~Stream!IsMalformed(s)
      PROVE  Stream!Take
  <2>1. Stream!TokenOf(s) = Token("OPERATOR", s)
    BY <1>1, <1>4, KindsApart, SameLexemes DEF Stream!TokenOf
  <2> QED
    BY <1>1, <1>4, <2>1, TakeIs
<1>5. ASSUME c \in Single \cup DOMAIN Second, Return(Token("OPERATOR", <<c>>)),
             Taken(in)' = from + 1,
             NEW S, "255" \notin S, behind \notin S,
             \A t \in Seq(Char) : Len(t) = 2 /\ t[1] = c /\ t[2] \notin S => ~Stream!IsOperator(t)
      PROVE  Stream!Take
  <2> DEFINE s == <<c>>
  <2>1. s \in Seq(Char) /\ Len(s) = 1 /\ s[1] = c
    BY <1>2
  <2>2. Stream!IsLexeme(s)
    BY <1>5, SameLexemes DEF Stream!IsLexeme, Stream!IsOperator
  <2>3. Stream!Longest(1) /\ Stream!Next(1) = s
    BY <1>1, <1>5, <2>2, OneIsLongest
  <2> HIDE DEF s
  <2>4. ~Stream!IsMalformed(s)
    BY <1>5, <2>1, KindsApart
  <2>5. 1 \in Nat /\ 1 <= 1 /\ Len(s) > 0
    BY <2>1
  <2> QED
    BY <1>2, <1>4, <1>5, <2>1, <2>3, <2>4, <2>5 DEF s
<1>6. ASSUME behind # EOF, Return(Token("OPERATOR", <<c, behind>>)), Taken(in)' = from + 2,
             c \in Paired \cup DOMAIN Second,
             (c \in DOMAIN Second /\ behind \in Second[c]) \/ (c \in Paired /\ behind = c)
      PROVE  Stream!Take
  <2> DEFINE s == <<c, behind>>
  <2>1. s \in Seq(Char) /\ Len(s) = 2 /\ s[1] = c /\ s[2] = behind
    BY <1>2, <1>6
  <2>2. Stream!IsLexeme(s)
    BY <1>6, SameLexemes DEF Stream!IsLexeme, Stream!IsOperator
  <2> HIDE DEF s
  <2>3. \A t \in Seq(Char) : Extends(s, t) => ~Stream!IsLexeme(t)
    <3> SUFFICES ASSUME NEW t \in Seq(Char), Extends(s, t) PROVE ~Stream!IsLexeme(t)
      OBVIOUS
    <3>1. Len(t) > 2 /\ t[1] = c
      BY <2>1 DEF Extends
    <3>2. Len(t) \in Nat
      BY LengthTyped
    <3>3. \A m \in Nat : m > 2 => m > 1 /\ m # 2
      OBVIOUS
    <3>4. Len(t) > 1 /\ Len(t) # 2
      BY ONLY <3>1, <3>2, <3>3
    <3> QED
      BY <1>1, <3>1, <3>4, OperatorEnds
  <2>4. 2 \in Nat /\ 1 <= 2 /\ Len(s) > 0
    BY <2>1
  <2>5. Stream!Longest(2) /\ Stream!Next(2) = s
    BY <1>1, <1>2, <1>6, <2>2, <2>3, <2>4, LongestIs DEF s
  <2>6. ~Stream!IsMalformed(s)
    BY <1>6, <2>1, KindsApart
  <2> QED
    BY <1>2, <1>4, <1>6, <2>1, <2>4, <2>5, <2>6 DEF s
<1>7. CASE ShortOperator
  <2>1. c \in Single /\ in' = After(in) /\ Return(Token("OPERATOR", <<c>>))
    BY <1>7 DEF ShortOperator, Starts
  <2>2. Taken(in)' = from + 1
    BY <1>3, <2>1 DEF Taken
  <2>n. PICK S : S = {}
    OBVIOUS
  <2>3. \A t \in Seq(Char) : Len(t) = 2 /\ t[1] = c /\ t[2] \notin S => ~Stream!IsOperator(t)
    BY <2>1, ClassesApart, SameLexemes DEF Stream!IsOperator
  <2>4. "255" \notin S /\ behind \notin S /\ c \in Single \cup DOMAIN Second
    BY <2>1, <2>n
  <2> QED
    BY <1>5, <2>1, <2>2, <2>3, <2>4
<1>8. CASE PlainOperator
  <2>1. /\ c \in DOMAIN Second /\ behind \notin Second[c]
        /\ in' = Pushback(After(After(in))) /\ Return(Token("OPERATOR", <<c>>))
    BY <1>8 DEF PlainOperator, Starts
  <2>2. Taken(in)' = from + 1
    BY <1>3, <2>1 DEF Taken
  <2>3. \A t \in Seq(Char) : Len(t) = 2 /\ t[1] = c /\ t[2] \notin Second[c]
                               => ~Stream!IsOperator(t)
    BY <2>1, ClassesApart, SameLexemes DEF Stream!IsOperator
  <2>4. "255" \notin Second[c]
    BY <2>1, Classes
  <2> QED
    BY <1>5, <2>1, <2>2, <2>3, <2>4
<1>9. CASE LongOperator
  <2>1. /\ c \in DOMAIN Second /\ behind \in Second[c] /\ behind # EOF
        /\ in' = After(After(in)) /\ Return(Token("OPERATOR", <<c, behind>>))
    BY <1>9, Classes DEF LongOperator, Starts
  <2>2. Taken(in)' = from + 2
    BY <1>3, <2>1 DEF Taken
  <2>3. c \in Paired \cup DOMAIN Second
    BY <2>1
  <2>4. (c \in DOMAIN Second /\ behind \in Second[c]) \/ (c \in Paired /\ behind = c)
    BY <2>1
  <2>5. behind # EOF /\ Return(Token("OPERATOR", <<c, behind>>))
    BY <2>1
  <2> QED
    BY ONLY <1>6, <2>2, <2>3, <2>4, <2>5
<1>10. CASE PairedOperator
  <2>1. /\ c \in Paired /\ behind = c /\ behind # EOF
        /\ in' = After(After(in)) /\ Return(Token("OPERATOR", <<c, behind>>))
    BY <1>10, Classes DEF PairedOperator, Starts
  <2>2. Taken(in)' = from + 2
    BY <1>3, <2>1 DEF Taken
  <2>3. c \in Paired \cup DOMAIN Second
    BY <2>1
  <2>4. (c \in DOMAIN Second /\ behind \in Second[c]) \/ (c \in Paired /\ behind = c)
    BY <2>1
  <2>5. behind # EOF /\ Return(Token("OPERATOR", <<c, behind>>))
    BY <2>1
  <2> QED
    BY ONLY <1>6, <2>2, <2>3, <2>4, <2>5
<1> QED
  BY <1>7, <1>8, <1>9, <1>10

\* What cannot go on ends the process.
LEMMA ErrorIs ==
  ASSUME IInv, DoubleError \/ PairedError
  PROVE  Stream!Error
<1>1. /\ Base /\ Spot /\ TextRoom /\ from \in Nat /\ Len(file) \in Nat
      /\ Taken(in) \in Nat /\ Taken(in) <= Len(file) /\ Window(in) /\ file \in Seq(Char)
  BY BaseFacts DEF IInv
<1>2. at' = "exited" /\ at \notin {"exited", "end"} /\ UNCHANGED <<file, current_line, token, from>>
  BY DEF DoubleError, PairedError, Leaves, Starts, Go
<1>3. ASSUME NEW n \in 1 .. Len(file) - from, Stream!Longest(n),
             Stream!IsMalformed(Stream!Next(n))
      PROVE  Stream!Error
  BY <1>2, <1>3 DEF Stream!Error, Stream!Left
<1>4. CASE PairedError
  <2>1. at = "start" /\ c \in Paired /\ behind # c /\ c # EOF /\ "255" \notin {c}
    BY <1>4, Classes DEF PairedError, Starts
  <2> DEFINE s == <<c>>
  <2>2. from + 1 <= Len(file) /\ s \in Seq(Char) /\ Len(s) = 1 /\ s[1] = c
    BY <2>1, FirstTwo
  <2>3. Stream!IsMalformed(s) /\ Stream!IsLexeme(s)
    BY <2>1, SameLexemes DEF Stream!IsLexeme, Stream!IsMalformed
  <2>4. \A t \in Seq(Char) : Len(t) = 2 /\ t[1] = c /\ t[2] \notin {c} => ~Stream!IsOperator(t)
    BY <2>1, ClassesApart, SameLexemes DEF Stream!IsOperator
  <2>5. Stream!Longest(1) /\ Stream!Next(1) = s
    BY <2>1, <2>3, <2>4, OneIsLongest
  <2>6. 1 \in 1 .. Len(file) - from
    BY <1>1, <2>2
  <2> QED
    BY <1>3, <2>3, <2>5, <2>6
<1>5. CASE DoubleError
  <2> DEFINE n == Len(text)
  <2>1. c \notin Digit /\ at = "point" /\ at \in Within /\ "255" \notin Digit
    BY <1>5 DEF DoubleError, Leaves, Within, Digit
  <2>2. /\ text \in Seq(Char) /\ text = SubSeq(file, from + 1, Taken(in)) /\ from < Taken(in)
        /\ n > 1 /\ Stream!IsMalformed(text) /\ Stream!IsLexeme(text)
    BY <1>1, <2>1 DEF Spot, Lexeme, TextRoom, Stream!IsLexeme
  <2>3. n \in Nat /\ n = Taken(in) - from /\ 1 <= n /\ from + n = Taken(in)
    <3>1. Taken(in) \in from .. Len(file)
      BY <1>1, <2>2
    <3>2. n = Taken(in) - from
      BY <1>1, <2>2, <3>1, PieceOfFile
    <3> HIDE DEF n
    <3>3. n > 1
      BY <2>2 DEF n
    <3> QED
      BY <1>1, <3>2, <3>3
  <2>4. \A t \in Seq(Char) : Extends(text, t) /\ t[n + 1] \notin Digit => ~Stream!IsLexeme(t)
    BY <2>2, PointEnds
  <2> HIDE DEF n
  <2>5. from + n < Len(file) => file[from + n + 1] \notin Digit
    BY <1>1, <2>1, <2>3, PeekIsNext DEF c
  <2>6. from + n <= Len(file) /\ text = SubSeq(file, from + 1, from + n)
    BY <1>1, <2>2, <2>3
  <2>7. Stream!Longest(n) /\ Stream!Next(n) = text
    BY <1>1, <2>2, <2>3, <2>4, <2>5, <2>6, LongestIs
  <2>8. n \in 1 .. Len(file) - from
    BY <1>1, <2>3, <2>6
  <2> QED
    BY <1>3, <2>2, <2>7, <2>8
<1> QED
  BY <1>4, <1>5

\* Blanks, line ends and the last character of a comment.
LEMMA SkipIs ==
  ASSUME IInv, SkipBlank \/ SkipLineEnd \/ EndComment
  PROVE  Stream!SkipBlank \/ Stream!SkipLineEnd \/ Stream!SkipComment
<1>1. /\ Base /\ Spot /\ from \in Nat /\ Len(file) \in Nat /\ Window(in) /\ file \in Seq(Char)
      /\ Taken(in) \in Nat /\ Taken(in) <= Len(file) /\ from <= Taken(in)
      /\ current_line \in Nat
  BY BaseFacts DEF IInv, Base
<1>2. ASSUME NEW lines, Retry(lines), c # EOF
      PROVE  /\ Taken(in) < Len(file) /\ file[Taken(in) + 1] = c
             /\ from' = Taken(in) + 1 /\ at' = "start"
             /\ current_line' = current_line + lines /\ UNCHANGED <<file, token>>
  <2>1. /\ Taken(in) < Len(file) /\ Taken(After(in)) = Taken(in) + 1 /\ file[Taken(in) + 1] = c
    BY <1>1, <1>2, PeekIsNext DEF c
  <2>2. in' = After(in) /\ from' = Taken(in)' /\ UNCHANGED file
    BY <1>2 DEF Retry, Taken
  <2>3. Taken(in)' = Taken(After(in))
    BY <2>2 DEF Taken
  <2> QED
    BY <1>2, <2>1, <2>2, <2>3 DEF Retry
<1>3. CASE SkipBlank
  <2>1. at = "start" /\ c \in Blank /\ c # EOF /\ Retry(0) /\ from = Taken(in)
    BY <1>1, <1>3, Classes DEF SkipBlank, Starts, Spot
  <2> QED
    BY <1>2, <2>1, SameLexemes DEF Stream!SkipBlank, Stream!At, Stream!Skip
<1>4. CASE SkipLineEnd
  <2>1. at = "start" /\ c \in LineEnd /\ c # EOF /\ Retry(1) /\ from = Taken(in)
    BY <1>1, <1>4, Classes DEF SkipLineEnd, Starts, Spot
  <2> QED
    BY <1>2, <2>1, SameLexemes DEF Stream!SkipLineEnd, Stream!At, Stream!Skip
<1>5. CASE EndComment
  <2>1. at = "comment" /\ c = "lf" /\ c # EOF /\ Retry(1)
    BY <1>5 DEF EndComment, In, EOF
  <2>2. /\ from < Taken(in) /\ file[from + 1] = "#"
        /\ \A i \in from + 1 .. Taken(in) : file[i] # "lf"
    BY <1>1, <2>1 DEF Spot
  <2>3. /\ Taken(in) < Len(file) /\ file[Taken(in) + 1] = "lf" /\ from' = Taken(in) + 1
        /\ at' = "start" /\ current_line' = current_line + 1 /\ UNCHANGED <<file, token>>
    BY <1>2, <2>1
  <2>4. PICK n : n = Taken(in) + 1 - from
    OBVIOUS
  <2>5. n \in 1 .. Len(file) - from /\ from + n = Taken(in) + 1 /\ from < Len(file)
    BY <1>1, <2>2, <2>3, <2>4
  <2>6. file[from + n] = "lf" /\ from' = from + n
    BY <2>3, <2>5
  <2>7. \A i \in 1 .. n - 1 : file[from + i] # "lf"
    BY <1>1, <2>2, <2>4
  <2>8. Stream!Skip(n, 1)
    BY <2>1, <2>3, <2>6 DEF Stream!Skip
  <2>9. Stream!At({"#"})
    BY <2>1, <2>2, <2>5 DEF Stream!At
  <2> QED
    BY <2>5, <2>6, <2>7, <2>8, <2>9 DEF Stream!SkipComment, Stream!Left
<1> QED
  BY <1>3, <1>4, <1>5

\* The end of the file, or byte 255.
LEMMA EndIs ==
  ASSUME IInv, ReturnEOF
  PROVE  Stream!End
<1>1. /\ Base /\ from = Taken(in) /\ Window(in) /\ file \in Seq(Char)
      /\ at = "start" /\ c = EOF /\ at' = "end"
      /\ UNCHANGED <<file, current_line, token, from>>
  BY BaseFacts, Classes DEF IInv, Spot, ReturnEOF, Starts, Go
<1>2. /\ from \in Nat /\ Len(file) \in Nat /\ from <= Len(file)
  BY <1>1, BaseFacts
<1>3. from = Len(file) \/ (file[from + 1] = "255" /\ from < Len(file))
  BY <1>1, <1>2, PeekIsNext DEF c
<1> QED
  BY <1>1, <1>3 DEF Stream!End, Stream!At

\* A word is returned for a character that begins nothing.
LEMMA NotUnderstoodIs ==
  ASSUME IInv, StaleWord \/ JunkWord
  PROVE  Stream!NotUnderstood
<1>1. PICK t : EndOf(Word(t)) /\ at = "start" /\ c \in Unknown
  BY DEF StaleWord, JunkWord, Starts
<1>2. /\ Base /\ from = Taken(in) /\ Window(in) /\ file \in Seq(Char) /\ c # EOF
  BY <1>1, BaseFacts, Classes DEF IInv, Spot
<1>3. from < Len(file) /\ file[from + 1] = c
  BY <1>2, PeekIsNext DEF c
<1>4. /\ in' = Pushback(After(in)) /\ at' = "idle" /\ token' = Word(t) /\ from' = Taken(in)'
      /\ UNCHANGED <<file, current_line>>
  BY <1>1 DEF EndOf, Return, Taken
<1>5. from' = from
  BY <1>2, <1>4, PushedBack
<1>6. token'.type \in {"KEYWORD", "IDENTIFIER"}
  BY <1>4 DEF Word, Token
<1> QED
  BY <1>1, <1>3, <1>4, <1>5, <1>6, SameLexemes DEF Stream!NotUnderstood, Stream!At

\* What a call does in between is not seen.
LEMMA Unseen ==
  ASSUME \/ Call \/ BeginComment \/ InComment \/ FirstDigit \/ MoreDigits \/ Point
         \/ FirstDecimal \/ MoreDecimals \/ FirstLetter \/ MoreLetters
         \/ UNCHANGED scannerVars
  PROVE  UNCHANGED Stream!streamVars
<1>1. /\ UNCHANGED <<file, from, current_line, token>>
      /\ (at \in {"exited", "end"} \/ at' \in {"exited", "end"}) => at' = at
  BY DEF Call, BeginComment, InComment, FirstDigit, MoreDigits, Point, FirstDecimal,
         MoreDecimals, FirstLetter, MoreLetters, Add, Go, Starts, In, Leaves, scannerVars
<1> QED
  BY <1>1 DEF Stream!streamVars

\* Whatever the file and wherever the buffer ends, the calls of the scanner
\* return the longest lexemes of the file one after the other.
THEOREM TokensImplemented == ScannerSpec => ImplementsTokens
<1>1. ScannerInit => Stream!StreamInit
  BY SameLexemes DEF ScannerInit, Stream!StreamInit
<1>2. IInv /\ [ScannerNext]_scannerVars => [Stream!StreamNext]_Stream!streamVars
  <2> SUFFICES ASSUME IInv, [ScannerNext]_scannerVars
               PROVE  Stream!StreamNext \/ UNCHANGED Stream!streamVars
    OBVIOUS
  <2>1. CASE EndInt \/ EndDouble \/ EndWord
    BY <2>1, LexemeTaken DEF Stream!StreamNext
  <2>2. CASE Operators
    BY <2>2, OperatorTaken, ErrorIs DEF Operators, Stream!StreamNext
  <2>3. CASE DoubleError
    BY <2>3, ErrorIs DEF Stream!StreamNext
  <2>4. CASE SkipBlank \/ SkipLineEnd \/ EndComment
    BY <2>4, SkipIs DEF Stream!StreamNext
  <2>5. CASE ReturnEOF
    BY <2>5, EndIs DEF Stream!StreamNext
  <2>6. CASE StaleWord \/ JunkWord
    BY <2>6, NotUnderstoodIs DEF Stream!StreamNext
  <2> QED
    BY <2>1, <2>2, <2>3, <2>4, <2>5, <2>6, Unseen DEF ScannerNext, Skips, Numbers, Words
<1> QED
  BY <1>1, <1>2, IInvHolds, PTL DEF ScannerSpec, ImplementsTokens, Stream!StreamSpec

=============================================================================
