----------------------------- MODULE MCComments -----------------------------
(* Files of at most three lines from a pool, and some longer ones.         *)
EXTENDS Comments

T(indent, mark, lead, words) == Line(indent, mark, lead, words)

CommentPool == {
    T(0, "//", 1, <<"aa", "bbbb">>), T(0, "//", 1, <<"aa", "bbbb", "cc">>),
    T(0, "//", 1, <<"-", "aa", "bbbb", "cc">>), T(0, "//", 2, <<"-", "">>),
    T(0, "//", 0, <<>>), T(1, "//", 1, <<"aa", "abcdefghijklm">>),
    T(0, "//", 1, <<"aa", "", "bb", "cccc">>), T(0, "//", 1, <<"aa", "", "", "bb", "cccc">>),
    T(0, "//", 1, <<"Output:">>),
    T(0, "//", 0, <<"go:x", "aa", "bbbb">>), T(0, "//", 1, <<"1.", "bbbb", "cc">>),
    T(0, "//", 1, <<"aa", "bbbb", "-", "cc">>), T(0, "//", 1, <<"---", "-------">>),
    T(0, "//", 2, <<"nolint:x", "bbbb", "nolint:x", "cc">>)}

CodePool == {
    T(0, "", 0, <<"x">>), T(0, "", 0, <<"x", Tick>>), T(0, "", 0, <<Quote, Tick, Quote>>),
    T(0, "", 0, <<"x", "//", "aa", "bbbb">>), T(0, "", 0, <<"x", "/*", "bbbb", "*/", "y">>),
    T(0, "", 0, <<"x", "//", "nolint:x">>)}

BlockPool == {
    T(0, " *", 1, <<"aa", "bbbb">>), T(0, "", 0, <<"aa", "bbbb", "cc">>),
    T(0, " *", 3, <<"-", "bbbb", "cc", "dd">>), T(0, " *", 0, <<>>),
    T(0, "", 0, <<"#include", "bbbb", "cc">>), T(0, " *", 1, <<"aa", "|", "cc", "dd">>),
    T(1, "//", 1, <<"bbbb", "cc">>), T(1, "//", 1, <<"-", "cc">>),
    T(0, "", 0, <<"aa", "/*", "//", "cc">>)}

Open == T(0, "/*", 0, <<>>)
Close == T(0, "*/", 0, <<>>)

Upto(pool, n) == UNION {[1..k -> pool] : k \in 1..n}

(* Every raw string is closed: the file is Go.                             *)
Closed(file) == StateAt(file, Len(file) + 1) = "code"

MCFiles ==
    {f \in Upto(CommentPool \cup CodePool, 3) : Closed(f)}
    \cup {<<Open>> \o f \o <<Close>> : f \in Upto(BlockPool, 3)}
    \cup {f \o g \o f : f \in {<<T(0, "", 0, <<"x", Tick>>)>>}, g \in Upto(CommentPool, 2)}

(* Also block comments that are closed at the end of a line of text, or    *)
(* opened at the end of a line of code.                                    *)
AnyFiles == MCFiles \cup
    {<<Open, T(0, "", 0, <<"aa", "*/">>)>> \o f : f \in Upto(CodePool, 2)}
    \cup {<<T(0, "", 0, <<"x", "/*">>), T(0, "", 0, <<Tick>>), Close>> \o f : f \in Upto(CommentPool, 1)}

(* Any string is a word.                                                   *)
AnyWord == STRING

(* What the theorems suppose of a file.                                    *)
ASSUME TidyFiles ==
    \A file \in MCFiles : file \in Seq(ClosedAlone) /\ OnOwnLines("code", file)
=============================================================================
