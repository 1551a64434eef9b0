----------------------------- MODULE MCScanner -----------------------------
(* All short files over an alphabet with a character of every class, and     *)
(* longer ones over a few of them: numbers and words with characters that    *)
(* begin nothing, and operators with comments and ends of lines.             *)
EXTENDS Scanner

CONSTANTS Alphabet, ShortLength, LongLength

FilesOver(S, lengths) == UNION {[1 .. n -> S] : n \in lengths}
MCFiles == FilesOver(Alphabet, 0 .. ShortLength)
           \cup FilesOver({"a", "1", ".", "@"}, {LongLength})
           \cup FilesOver({"+", "#", "lf", "space"}, {LongLength})

MCKeywords == {<<"a", "b">>, <<"a">>}
MCJunk == {<<"a">>, <<"b">>}

=============================================================================
