------------------------------ MODULE Comments ------------------------------
(***************************************************************************)
(* The comment stage: CommentFormatter.FormatFile walks the lines of a     *)
(* file, leaves raw strings and directives alone, and reflows standalone   *)
(* comments to the column limit; an optional pass before it hoists inline  *)
(* comments above their line.                                              *)
(*                                                                         *)
(* A line is its indent in tabs, the comment mark it starts with ("" when  *)
(* there is none), the blanks after the mark, and its words.  The empty    *)
(* word stands for one blank too many.  Quotes and comment marks in the    *)
(* middle of a line are words of their own.                                *)
(***************************************************************************)
EXTENDS Lists, SequencesExt, FiniteSetsExt

CONSTANTS
    Words,             \* what the lines are made of
    Files,             \* the files FormatFile is called on: sequences of lines
    Modes,             \* CommentMode: "prose", "overflow", "off"
    Hoists,            \* MoveInlineAbove: a subset of BOOLEAN
    ColumnLimit, TabStop,
    GluedDirectives,   \* words that make a directive right after the slashes
    SpacedDirectives,  \* and those that make one after a blank as well
    RulerWords,        \* words of nothing but punctuation
    FenceWords,        \* words that open a fence at the start of a line
    TableWords,        \* words with a bar or an address in them
    NumberWords,       \* "1." and the like
    CgoWords           \* "#include" and the like

Marks == {"", "//", "/*", "*/", "*", " *"}

AnyLine == [indent : Nat, mark : Marks, lead : Nat, words : Seq(Words)]

ASSUME CommentsAssumption ==
    /\ Marks \cup {"-", "/"} \subseteq Words
    /\ ColumnLimit \in Nat \ {0} /\ TabStop \in Nat \ {0}
    /\ \A file \in Files : file \in Seq(AnyLine)

VARIABLES
    source,   \* the file FormatFile was first called on
    mode, hoist,
    lines,    \* its lines, hoisted when asked for
    i,        \* the next line to look at
    inRaw,    \* whether that line starts inside a raw string
    out,      \* the lines written so far
    callsMade,   \* the second call is on the output of the first
    phase        \* "idle", "walk", "done"

commentsVars == <<source, mode, hoist, lines, i, inRaw, out, callsMade, phase>>

-----------------------------------------------------------------------------
(* Lines, their width and what they are.                                   *)

Line(indent, mark, lead, words) ==
    [indent |-> indent, mark |-> mark, lead |-> lead, words |-> words]

JoinedLen(words) ==
    FoldLeft(LAMBDA n, w : n + Len(w), 0, words) + (IF words = <<>> THEN 0 ELSE Len(words) - 1)

VisualLen(l) == l.indent * TabStop + Len(l.mark) + l.lead + JoinedLen(l.words)

Tokens(l) == IF l.mark = "" THEN l.words ELSE <<l.mark>> \o l.words

RealWords(words) == Selected(words, Words \ {""})

Starred(l) == l.mark \in {"*", " *"}

IsDirective(l) ==
    /\ l.mark = "//" /\ l.words # <<>>
    /\ \/ l.lead = 0 /\ Head(l.words) \in GluedDirectives \cup SpacedDirectives
       \/ l.lead = 1 /\ Head(l.words) \in SpacedDirectives

IsBlockStart(l) == l.mark = "/*" /\ l.words = <<>>

IsBlockEnd(l) == l.mark = "*/" /\ l.words = <<>>

IsDirectiveBlock(block) ==
    \E l \in ToSet(block) : l.mark = "" /\ l.words # <<>> /\ Head(l.words) \in CgoWords

(* The words that stand for the two quotes a string can be in.             *)
Tick  == "tick"
Quote == "quote"

(* One word of Go source: "line" is a line comment, which the end of the   *)
(* line closes, as it does a quote nobody closed.                          *)
LexWord(a, w) ==
    CASE a = "code" /\ w \in {Tick, Quote} -> w
      [] a = "code" /\ w = "//"         -> "line"
      [] a = "code" /\ w = "/*"         -> "block"
      [] a \in {Tick, Quote} /\ w = a     -> "code"
      [] a = "block" /\ w = "*/"        -> "code"
      [] OTHER                          -> a

(* The state after each of the words.                                      *)
Lexed(state, toks) ==
    LET at[n \in 0..Len(toks)] == IF n = 0 THEN state ELSE LexWord(at[n - 1], toks[n])
    IN  at

\* Mutant: raw strings are not followed from line to line.
RawStringForgotten(l, raw) == FALSE

(* A block comment left open at the end of the line is forgotten.          *)
RawStringStateAfterLine(l, raw) ==
    Lexed(IF raw THEN Tick ELSE "code", Tokens(l))[Len(Tokens(l))] = Tick

-----------------------------------------------------------------------------
(* Which blocks are left alone.                                            *)

Content(l) == IF l.mark \in {"/*", "*/"} THEN <<>> ELSE l.words

IsBlank(l) == RealWords(Content(l)) = <<>>

HasGoExampleOutput(block) ==
    \E l \in ToSet(block) : Content(l) \in {<<"Output:">>, <<"Unordered output:">>}

IsRuler(words) ==
    /\ ToSet(words) \subseteq RulerWords
    /\ FoldLeft(LAMBDA n, w : n + Len(w), 0, words) >= 3

HasAlignmentSpaces(words) ==
    \E k, m \in DOMAIN words :
        /\ m >= k + 2 /\ words[k] # "" /\ words[m] # ""
        /\ \A n \in (k + 1)..(m - 1) : words[n] = ""

LooksPreformatted(block) ==
    \E l \in ToSet(block) :
        LET words == Content(l) IN
        /\ RealWords(words) # <<>>
        /\ \/ IsRuler(RealWords(words))
           \/ Head(words) \in FenceWords
           \/ ToSet(words) \cap TableWords # {}
           \/ HasAlignmentSpaces(words)
           \/ Head(words) \in NumberWords

Fits(block) == \A l \in ToSet(block) : VisualLen(l) <= ColumnLimit

Preserved(block) ==
    \/ HasGoExampleOutput(block)
    \/ mode = "overflow" /\ (Fits(block) \/ LooksPreformatted(block))

-----------------------------------------------------------------------------
(* Reflowing: head is the first line without its words, cont the lines     *)
(* after it.  A word too wide for any line gets one of its own.            *)

WithWord(l, w) == Line(l.indent, l.mark, l.lead, Append(l.words, w))

\* Mutant: a word too wide for a line is written twice.
PlaceLongWordTwice(a, w, cont) ==
    LET done == IF a.filled THEN Append(a.done, a.cur) ELSE a.done
        next == WithWord(IF a.filled THEN cont ELSE a.cur, w)
    IN  IF a.filled /\ VisualLen(WithWord(a.cur, w)) <= ColumnLimit
        THEN [a EXCEPT !.cur = WithWord(@, w)]
        ELSE [done |-> IF VisualLen(next) > ColumnLimit THEN Append(done, next) ELSE done,
              cur |-> next, filled |-> TRUE]

Place(a, w, cont) ==
    LET done == IF a.filled THEN Append(a.done, a.cur) ELSE a.done
        next == WithWord(IF a.filled THEN cont ELSE a.cur, w)
    IN  IF a.filled /\ VisualLen(WithWord(a.cur, w)) <= ColumnLimit
        THEN [done |-> a.done, cur |-> WithWord(a.cur, w), filled |-> TRUE]
        ELSE IF VisualLen(next) > ColumnLimit
        THEN [done |-> Append(done, next), cur |-> cont, filled |-> FALSE]
        ELSE [done |-> done, cur |-> next, filled |-> TRUE]

ReflowWords(words, head, cont) ==
    LET placed[n \in 0..Len(words)] ==
            IF n = 0 THEN [done |-> <<>>, cur |-> head, filled |-> FALSE]
            ELSE Place(placed[n - 1], words[n], cont)
        end == placed[Len(words)]
    IN  IF words = <<>> THEN <<head>>
        ELSE IF end.filled THEN Append(end.done, end.cur) ELSE end.done

\* Mutant: the blank after the star counts as part of the text.
ContentLeadWithBlank(l) == IF l.mark = "//" \/ Starred(l) THEN l.lead ELSE 0

(* The blanks in front of the text of a comment line: in a block comment   *)
(* the blank after the star belongs to the mark.                           *)
ContentLead(l) == IF l.mark = "//" THEN l.lead
                  ELSE IF Starred(l) THEN Max({0, l.lead - 1}) ELSE 0

(* The text of a comment line.  In a block comment only the star is part   *)
(* of the mark, and one in front of a slash is taken for it.               *)
TextWords(l, mark) ==
    IF mark = "//" \/ l.mark \in {"", "*", " *"} THEN l.words
    ELSE <<IF l.mark = "*/" THEN "/" ELSE l.mark>> \o l.words

(* A blank line is a paragraph, a line that starts with a dash opens an    *)
(* item, any other line goes on with the paragraph before it.              *)
AddLine(paras, l, mark) ==
    LET words == TextWords(l, mark)
        real  == RealWords(words)
        last  == Last(paras)
    IN  IF real = <<>> THEN Append(paras, [kind |-> "blank", lead |-> 0, words |-> <<>>])
        ELSE IF words[1] = "-" /\ Len(words) > 1
        THEN Append(paras, [kind  |-> "item", lead |-> ContentLead(l), words |-> RealWords(Tail(words))])
        ELSE IF paras # <<>> /\ last.kind # "blank"
        THEN Append(Front(paras), [kind |-> last.kind, lead |-> last.lead, words |-> last.words \o real])
        ELSE Append(paras, [kind |-> "text", lead |-> 0, words |-> real])

Paragraphs(block, mark) ==
    LET upTo[n \in 0..Len(block)] ==
            IF n = 0 THEN <<>> ELSE AddLine(upTo[n - 1], block[n], mark)
    IN  upTo[Len(block)]

Emit(p, indent, mark) ==
    LET lead == p.lead + (IF mark = "//" THEN 0 ELSE 1) IN
    IF p.kind = "blank" THEN <<Line(indent, mark, 0, <<>>)>>
    ELSE IF p.kind = "item"
    THEN ReflowWords(p.words, Line(indent, mark, lead, <<"-">>), Line(indent, mark, lead + 2, <<>>))
    ELSE ReflowWords(p.words, Line(indent, mark, 1, <<>>), Line(indent, mark, 1, <<>>))

EmitAll(block, indent, mark) ==
    LET paras == Paragraphs(block, mark)
    IN  Concat([k \in DOMAIN paras |-> Emit(paras[k], indent, mark)])

ReflowLineCommentBlock(block) ==
    IF Preserved(block) THEN block ELSE EmitAll(block, block[1].indent, "//")

(* Overflow mode looks at the stretches between blank lines one by one.    *)
NextStretch(a, l) ==
    IF IsBlank(l) THEN [done |-> Append(a.done \o ReflowLineCommentBlock(a.part), l), part |-> <<>>]
    ELSE [done |-> a.done, part |-> Append(a.part, l)]

ReflowByBlankBoundaries(block) ==
    LET upTo[n \in 0..Len(block)] ==
            IF n = 0 THEN [done |-> <<>>, part |-> <<>>] ELSE NextStretch(upTo[n - 1], block[n])
        end == upTo[Len(block)]
    IN  end.done \o ReflowLineCommentBlock(end.part)

ReflowBlockComment(block) ==
    IF Len(block) < 2 \/ Preserved(block) THEN block
    ELSE <<block[1]>> \o EmitAll(SubSeq(block, 2, Len(block) - 1), block[1].indent, " *")
         \o <<Last(block)>>

-----------------------------------------------------------------------------
(* Hoisting: the first inline comment of a line moves above it.            *)

(* Whether a word is in a string: the quotes of the line are minded, those *)
(* of the lines before it are not.                                         *)
InString(toks, k) ==
    FoldLeft(LAMBDA a, w : IF a = "" THEN (IF w \in {Tick, Quote} THEN w ELSE a)
                           ELSE IF w = a THEN "" ELSE a,
             "", SubSeq(toks, 1, k - 1)) # ""

(* The place of the first inline comment, 0 when there is none or nothing  *)
(* is in front of it.  An opening mark that is not closed is code.         *)
InlineCommentAt(toks) ==
    LET opens == {k \in DOMAIN toks :
                    /\ ~InString(toks, k)
                    /\ \/ toks[k] = "//"
                       \/ toks[k] = "/*" /\ \E m \in (k + 1)..Len(toks) : toks[m] = "*/"}
        first == Min(opens)
    IN  IF opens = {} \/ \A m \in 1..(first - 1) : toks[m] = "" THEN 0 ELSE first

CodeLine(l, toks) ==
    Line(l.indent, l.mark, l.lead, IF l.mark = "" THEN toks ELSE Tail(toks))

Above(l, words) == Line(l.indent, "//", IF words = <<>> THEN 0 ELSE 1, words)

HoistLine(l) ==
    LET toks == Tokens(l)
        k    == InlineCommentAt(toks)
        rest == SubSeq(toks, k + 1, Len(toks))
        stop == Min({m \in 1..Len(rest) : rest[m] = "*/"})
        code == SubSeq(toks, 1, k - 1)
    IN  IF l.mark = "//" \/ IsBlockStart(l) \/ k = 0 THEN <<l>>
        ELSE IF toks[k] = "//"
        THEN IF IsDirective(Above(l, rest)) THEN <<l>> ELSE <<Above(l, rest), CodeLine(l, code)>>
        ELSE <<Above(l, SubSeq(rest, 1, stop - 1)),
               CodeLine(l, code \o SubSeq(rest, stop + 1, Len(rest)))>>

HoistInlineComments(file) == Concat([k \in DOMAIN file |-> HoistLine(file[k])])

-----------------------------------------------------------------------------
(* FormatFile.                                                             *)

CommentsInit ==
    /\ source = <<>> /\ lines = <<>> /\ out = <<>>
    /\ mode = "off" /\ hoist = FALSE
    /\ i = 1 /\ inRaw = FALSE
    /\ callsMade = 0 /\ phase = "idle"

BeginFile(file) ==
    /\ i' = 1 /\ inRaw' = FALSE
    /\ callsMade' = callsMade + 1
    /\ IF mode' = "off"
       THEN phase' = "done" /\ out' = file /\ lines' = file
       ELSE /\ phase' = "walk" /\ out' = <<>>
            /\ lines' = IF hoist' THEN HoistInlineComments(file) ELSE file

Call ==
    /\ phase = "idle"
    /\ mode' \in Modes /\ hoist' \in Hoists
    /\ \E file \in Files : source' = file /\ BeginFile(file)

(* The same formatter on what it wrote.                                    *)
CallAgain ==
    /\ phase = "done" /\ callsMade = 1
    /\ UNCHANGED <<source, mode, hoist>>
    /\ BeginFile(out)

Copy ==
    /\ out' = Append(out, lines[i])
    /\ inRaw' = RawStringStateAfterLine(lines[i], inRaw)
    /\ i' = i + 1
    /\ UNCHANGED <<source, mode, hoist, lines, callsMade, phase>>

CopyRaw == phase = "walk" /\ i <= Len(lines) /\ inRaw /\ Copy

OpensLineBlock(l) == l.mark = "//" /\ ~IsDirective(l)

LineBlock ==
    /\ phase = "walk" /\ i <= Len(lines) /\ ~inRaw
    /\ OpensLineBlock(lines[i])
    /\ LET Same(k) == OpensLineBlock(lines[k]) /\ lines[k].indent = lines[i].indent
           j == Max({k \in i..Len(lines) : \A m \in i..k : Same(m)})
           block == SubSeq(lines, i, j)
       IN  /\ out' = out \o IF mode = "overflow" /\ \E l \in ToSet(block) : IsBlank(l)
                            THEN ReflowByBlankBoundaries(block)
                            ELSE ReflowLineCommentBlock(block)
           /\ i' = j + 1
    /\ UNCHANGED <<source, mode, hoist, lines, inRaw, callsMade, phase>>

(* Up to a line that is nothing but the closing mark, or the last line.    *)
BlockComment ==
    /\ phase = "walk" /\ i <= Len(lines) /\ ~inRaw
    /\ IsBlockStart(lines[i])
    /\ LET ends == {k \in (i + 1)..Len(lines) : IsBlockEnd(lines[k])}
           j == IF ends = {} THEN Len(lines) ELSE Min(ends)
           block == SubSeq(lines, i, j)
       IN  /\ out' = out \o IF IsDirectiveBlock(block) THEN block ELSE ReflowBlockComment(block)
           /\ i' = j + 1
    /\ UNCHANGED <<source, mode, hoist, lines, inRaw, callsMade, phase>>

CopyLine ==
    /\ phase = "walk" /\ i <= Len(lines) /\ ~inRaw
    /\ ~OpensLineBlock(lines[i]) /\ ~IsBlockStart(lines[i])
    /\ Copy

Finish ==
    /\ phase = "walk" /\ i > Len(lines)
    /\ phase' = "done"
    /\ UNCHANGED <<source, mode, hoist, lines, i, inRaw, out, callsMade>>

CommentsNext == Call \/ CallAgain \/ CopyRaw \/ LineBlock \/ BlockComment \/ CopyLine \/ Finish

CommentsSpec == CommentsInit /\ [][CommentsNext]_commentsVars

-----------------------------------------------------------------------------
(* What Go makes of a file: the state every line starts in, and the lines  *)
(* that hold code or raw string text.                                      *)

StateAfter(state, l) ==
    LET after == Lexed(state, Tokens(l))[Len(Tokens(l))]
    IN  IF after \in {"line", Quote} THEN "code" ELSE after

StatesFrom(state, file) ==
    LET at[n \in 0..Len(file)] == IF n = 0 THEN state ELSE StateAfter(at[n - 1], file[n])
    IN  at

StateAt(file, k) == StatesFrom("code", file)[k - 1]

HoldsCode(l, state) ==
    LET toks == Tokens(l)
        at   == Lexed(state, toks)
    IN  \/ toks = <<>> /\ state # "block"
        \/ \E k \in DOMAIN toks : at[k - 1] \notin {"block", "line"} /\ toks[k] \notin {"//", "/*", "*/", ""}

CodeFrom(state, file) ==
    LET at == StatesFrom(state, file)
    IN  Concat([k \in DOMAIN file |-> IF HoldsCode(file[k], at[k - 1]) THEN <<file[k]>> ELSE <<>>])

CodeLines(file) == CodeFrom("code", file)

(* The words of a file without its comment marks.                          *)
PlainWords(words) == Selected(words, Words \ {"", "//", "/*", "*/"})

AllWords(file) == Concat([k \in DOMAIN file |-> PlainWords(file[k].words)])

Count(w, words) == Len(Selected(words, {w}))

(* Lines on which a closing mark that comes first is all there is.         *)
ClosedAlone == {l \in AnyLine : l.mark = "*/" => l.words = <<>>}

(* Comments that stand on lines of their own: a line of code, or the end   *)
(* of a raw string, leaves none open, and they end with a line that is     *)
(* nothing but the closing mark.                                           *)
ClosesLine(state, l) ==
    /\ state = "code" /\ ~IsBlockStart(l) => StateAfter(state, l) # "block"
    /\ state = Tick => StateAfter(state, l) # "block"
    /\ state = "block" /\ ~IsBlockEnd(l) => "*/" \notin ToSet(Tokens(l))

OnOwnLines(state, file) ==
    LET at == StatesFrom(state, file)
    IN  \A k \in DOMAIN file : ClosesLine(at[k - 1], file[k])

(* The text of a comment line, which is a line of a block comment when a   *)
(* standalone opening mark above it is not closed.                         *)
InBlock(file, k) ==
    \E j \in 1..(k - 1) : IsBlockStart(file[j]) /\ \A m \in (j + 1)..(k - 1) : ~IsBlockEnd(file[m])

CommentText(file, k) ==
    IF InBlock(file, k) THEN TextWords(file[k], " *")
    ELSE IF file[k].mark = "//" THEN file[k].words ELSE <<>>

(* A dash in the middle of a comment, which would open an item at the      *)
(* start of one of its lines, or one with nothing behind it.               *)
HoldsTurncoat(file) ==
    \E k \in DOMAIN file :
        LET words == CommentText(file, k) IN
        \/ \E m \in 2..Len(words) : words[m] = "-"
        \/ words # <<>> /\ words[1] = "-" /\ RealWords(Tail(words)) = <<>>

-----------------------------------------------------------------------------
(* Code and raw strings come through as they are, line by line: only       *)
(* comments are reflowed (the walk of FormatFile and the raw string state  *)
(* it carries from line to line).  Hoisting is meant to take the comment   *)
(* off a line of code.                                                     *)
CodeKept == phase = "done" /\ ~hoist => CodeLines(out) = CodeLines(source)

(* Reflowing loses, doubles and reorders no word; hoisting only moves      *)
(* words (reflowWords with its over-long words, the paragraphs and their   *)
(* continuation lines, hoistInlineComments).                               *)
WordsKept ==
    phase = "done" =>
        LET was == AllWords(source)
            is  == AllWords(out)
        IN  IF hoist THEN \A w \in ToSet(was) \cup ToSet(is) : Count(w, was) = Count(w, is)
            ELSE was = is

(* A second call changes nothing, unless a dash that is no mark of an item *)
(* may have been wrapped to the start of a line (reflowWords knows nothing *)
(* of what the next call reads into a line).                               *)
Settles == phase = "done" /\ callsMade = 2 /\ ~hoist /\ ~HoldsTurncoat(source) => out = lines
=============================================================================
