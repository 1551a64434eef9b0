------------------------------ MODULE Lexemes ------------------------------
(* The characters that comp/scanner.c tells apart, each class by a few of    *)
(* its members, and the lexemes it makes of them.                            *)
EXTENDS Integers, Sequences

CONSTANT Keywords  \* the words of comp/keyword.key

Digit     == {"0", "1"}
Letter    == {"a", "b", "_"}
IdentChar == Letter \cup Digit            \* is_identchar
Blank     == {"space", "tab"}
LineEnd   == {"cr", "lf"}
Single    == {";", "(", ")", "{", "}", ",", "."}
Paired    == {"&", "|"}                   \* only as && and ||

\* An operator of one character, and the second ones that make another of it.
Second == [c \in {"=", "!", ">", "<", "+", "-", "*", "/", "%"} |->
             IF c \in {"+", "-"} THEN {c, "="} ELSE {"="}]

\* What read() returns at the end of the file, and for byte 255 before it.
EOF   == "EOF"
Ended == {EOF}
Got(byte) == IF byte = "255" THEN EOF ELSE byte

\* Any character that no case of the switch is for.
Unknown == {"@"}
Char == IdentChar \cup Blank \cup LineEnd \cup Single \cup Paired \cup DOMAIN Second
        \cup {"#", "255"} \cup Unknown

Token(type, text) == [type |-> type, text |-> text]
Word(text) == Token(IF text \in Keywords THEN "KEYWORD" ELSE "IDENTIFIER", text)
NoToken == Token("none", <<>>)

=============================================================================
