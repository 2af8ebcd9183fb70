------------------------------- MODULE Lexer -------------------------------
(***************************************************************************)
(* The lexer that feeds the parser (crates/parser/src/lexer): it measures  *)
(* the indentation of a line when the line's first token is met, keeps the *)
(* stack of indentation levels and of open delimiters, and puts Indent,    *)
(* Dedent and closing tokens into the token stream.                        *)
(*                                                                         *)
(* The source is read one low level token (kcl_lexer::first_token) at a    *)
(* time.  Of a token only what the two stacks tell apart is kept: Word     *)
(* stands for every token that becomes one of the stream without more ado, *)
(* BadWord for those that do so with an error, Whitespace and LineContinue *)
(* for what is dropped in silence, Invalid for what is dropped with an     *)
(* error.  Of the stream itself the model keeps how many blocks it has     *)
(* opened and not closed, and its open delimiters, as a reader of it would *)
(* count them.                                                             *)
(***************************************************************************)
EXTENDS Integers, Sequences

CONSTANTS
    MaxTabs, MaxSpaces,  \* bound: indentation of a line
    MaxNest,             \* bound: nesting of delimiters
    MaxSlips             \* bound: Indent or Dedent tokens gone wrong

ASSUME LexerBounds ==
    MaxTabs \in Nat /\ MaxSpaces \in Nat /\ MaxNest \in Nat /\ MaxSlips \in Nat

Delims == {"Paren", "Brace", "Bracket"}
Plain == {"Tab", "Space", "Newline", "LineComment", "Word", "BadWord",
          "Whitespace", "LineContinue", "Invalid"}
Kinds == Plain \cup {"Delim"}

\* lex_token returns None for these, so what lex_indent_context has returned
\* for one of them is lost.
Dropped == {"Tab", "Space", "Whitespace", "LineContinue", "Invalid"}
Erroneous == {"BadWord", "Invalid"}

VARIABLES
    new_line_beginning,  \* is no token of the line lexed yet?
    tabs, spaces,        \* counters of the line's indentation
    indents,             \* stack of IndentLevel
    delims,              \* stack of open delimiters
    errors,              \* has the session been told of an error?
    blocks,              \* Indents less Dedents in the stream
    nest,                \* delimiters open in the stream
    slips,               \* Indents or Dedents lost or taken for others
    finished             \* is the stream complete?

lexVars == <<new_line_beginning, tabs, spaces, indents, delims, errors, blocks,
             nest, slips, finished>>

IndentLevel == [tabs : Nat, spaces : Nat]
Bottom == [tabs |-> 0, spaces |-> 0]

LexerInit ==
    /\ new_line_beginning = FALSE
    /\ tabs = 0 /\ spaces = 0
    /\ indents = <<Bottom>>
    /\ delims = <<>> /\ nest = <<>>
    /\ errors = FALSE
    /\ blocks = 0 /\ slips = 0
    /\ finished = FALSE

-----------------------------------------------------------------------------
(* Indentation. *)

\* IndentLevel::cmp: tabs and spaces must not disagree.
Less(a, b) == IF a.tabs = b.tabs THEN a.spaces < b.spaces
              ELSE a.tabs < b.tabs /\ a.spaces <= b.spaces
cmp(a, b) == IF a = b THEN "Equal"
             ELSE IF Less(a, b) THEN "Less"
             ELSE IF Less(b, a) THEN "Greater"
             ELSE "Err"

\* What lex_indent_context does: the new counters and stack, the Indents and
\* Dedents that go before the token, and the error the session is told of.
\* odd: the number in a Dedent that stands for a level that was never opened,
\* or -1 when there is none.
Indentation(t, s, stack, in, out, odd, msg) ==
    [tabs |-> t, spaces |-> s, indents |-> stack, in |-> in, out |-> out,
     odd |-> odd, msg |-> msg]

\* The levels the line's own does not lie below, from which on down the loop of
\* lex_indent pops no more: the first one met.
StopsAt(level) ==
    {k \in 1..Len(indents) :
        /\ ~Less(level, indents[k])
        /\ \A j \in (k + 1)..Len(indents) : Less(level, indents[j])}

\* Faulty: an inconsistent level is pushed all the same; the
\* Dedent of the level pushed back is not taken back.
PushesInconsistent(level, k) ==
    LET pops == Len(indents) - k
    IN  IF pops = 0 /\ cmp(level, indents[k]) # "Equal"
        THEN Indentation(0, 0, Append(indents, level), 1, 0, -1, "none")
        ELSE Indentation(0, 0, SubSeq(indents, 1, k), 0, pops, -1, "none")
KeepsDedent(level, k) ==
    LET pops == Len(indents) - k
    IN  IF cmp(level, indents[k]) # "Greater"
        THEN Indentation(0, 0, SubSeq(indents, 1, k), 0, pops, -1, "none")
        ELSE IF pops = 0
        THEN Indentation(0, 0, Append(indents, level), 1, 0, -1, "none")
        ELSE Indentation(0, 0, SubSeq(indents, 1, k + 1), 0, pops,
                         level.spaces - indents[k].spaces, "none")

\* lex_indent.  Popped levels each give a Dedent.  A line that ends up between
\* two levels gets the last level popped back, and in the place of its Dedent
\* one that carries the difference in spaces.
lex_indent(level, k) ==
    LET pops == Len(indents) - k
        order == cmp(level, indents[k])
        between == pops > 0 /\ order = "Greater"
    IN  IF pops = 0 /\ order = "Greater"
        THEN Indentation(0, 0, Append(indents, level), 1, 0, -1, "none")
        ELSE IF between
        THEN Indentation(0, 0, SubSeq(indents, 1, k + 1), 0, pops - 1,
                         level.spaces - indents[k].spaces, "none")
        ELSE Indentation(0, 0, SubSeq(indents, 1, k), 0, pops, -1,
                         IF order = "Err" THEN "inconsistent" ELSE "none")

\* These leave the line at its beginning.
Unmeasured == {"LineComment", "Newline", "Tab", "Space"}

\* Faulty: a tab counts as eight spaces.
TabAsSpaces(kind) ==
    IF ~new_line_beginning
    THEN {Indentation(tabs, spaces, indents, 0, 0, -1, "none")}
    ELSE IF kind \in {"LineComment", "Newline"}
    THEN {Indentation(0, 0, indents, 0, 0, -1, "none")}
    ELSE IF kind \in {"Tab", "Space"}
    THEN {Indentation(0, spaces + (IF kind = "Tab" THEN 8 ELSE 1), indents, 0, 0, -1, "none")}
    ELSE LET level == [tabs |-> tabs, spaces |-> spaces]
         IN  {lex_indent(level, k) : k \in StopsAt(level)}

\* lex_indent_context: the first token of a line that is more than white space
\* or a comment has the line measured.
lex_indent_context(kind) ==
    IF ~new_line_beginning
    THEN {Indentation(tabs, spaces, indents, 0, 0, -1, "none")}
    ELSE IF kind \in {"LineComment", "Newline"}
    THEN {Indentation(0, 0, indents, 0, 0, -1, "none")}
    ELSE IF kind \in {"Tab", "Space"}
    THEN {Indentation(tabs + (IF kind = "Tab" THEN 1 ELSE 0),
                      spaces + (IF kind = "Space" THEN 1 ELSE 0), indents, 0, 0, -1, "none")}
    ELSE LET level == [tabs |-> tabs, spaces |-> spaces]
         IN  {lex_indent(level, k) : k \in StopsAt(level)}

-----------------------------------------------------------------------------
(* Tokens. *)

\* VALID_SPACES_LENGTH is 0: a Dedent that carries no spaces is a Dedent like
\* any other to the parser.
Closed(i) == i.out + (IF i.odd = 0 THEN 1 ELSE 0)
Slips(kind, i) ==
    (IF kind \in Dropped /\ (i.in + i.out > 0 \/ i.odd >= 0) THEN 1 ELSE 0)
        + (IF kind \notin Dropped /\ i.odd = 0 THEN 1 ELSE 0)

\* One turn of the loop in token(), and append_to: the indentation, then the
\* token of the stream with the indentation before it, if there is a token.
Lex(kind, err) ==
    /\ ~finished
    /\ kind = "Tab" /\ new_line_beginning => tabs < MaxTabs
    /\ kind = "Space" /\ new_line_beginning => spaces < MaxSpaces
    /\ \E i \in lex_indent_context(kind) :
          /\ slips + Slips(kind, i) <= MaxSlips
          /\ tabs' = i.tabs
          /\ spaces' = i.spaces
          /\ indents' = i.indents
          /\ errors' = (errors \/ i.msg # "none" \/ err)
          /\ blocks' = IF kind \in Dropped THEN blocks ELSE blocks + i.in - Closed(i)
          /\ slips' = slips + Slips(kind, i)
    /\ new_line_beginning' = (kind = "Newline" \/ (new_line_beginning /\ kind \in Unmeasured))
    /\ UNCHANGED finished

LexToken(kind) ==
    /\ Lex(kind, kind \in Erroneous)
    /\ UNCHANGED <<delims, nest>>

\* An opening delimiter.
OpenDelim(d) ==
    /\ Len(delims) < MaxNest
    /\ Lex("Delim", FALSE)
    /\ delims' = Append(delims, d)
    /\ nest' = Append(nest, d)

\* A reader of the stream closes its innermost delimiter if it is of the kind,
\* and has nothing to close otherwise.
Read(d) == IF nest # <<>> /\ nest[Len(nest)] = d THEN SubSeq(nest, 1, Len(nest) - 1) ELSE nest

\* Faulty: the closing delimiter stays as it was written.
AsWritten(d) == d

\* A closing delimiter: if it does not match the innermost open one, the lexer
\* reports an error and closes that one all the same.
Recovered(d) == IF delims = <<>> THEN d ELSE delims[Len(delims)]

CloseDelim(d) ==
    /\ Lex("Delim", delims = <<>> \/ d # Recovered(d))
    /\ delims' = IF delims = <<>> THEN delims ELSE SubSeq(delims, 1, Len(delims) - 1)
    /\ nest' = Read(Recovered(d))

\* eof: the levels still open are closed, delimiters are not looked at.
Eof ==
    /\ ~finished
    /\ finished' = TRUE
    /\ new_line_beginning' = TRUE
    /\ blocks' = blocks - (Len(indents) - 1)
    /\ indents' = SubSeq(indents, 1, 1)
    /\ UNCHANGED <<tabs, spaces, delims, nest, errors, slips>>

LexerNext ==
    \/ \E kind \in Plain : LexToken(kind)
    \/ \E d \in Delims : OpenDelim(d) \/ CloseDelim(d)
    \/ Eof

LexerSpec == LexerInit /\ [][LexerNext]_lexVars

-----------------------------------------------------------------------------
(* Properties. *)

LexerTypeOK ==
    /\ new_line_beginning \in BOOLEAN
    /\ tabs \in 0..MaxTabs
    /\ spaces \in 0..MaxSpaces
    /\ indents \in Seq(IndentLevel)
    /\ delims \in Seq(Delims)
    /\ nest \in Seq(Delims)
    /\ errors \in BOOLEAN
    /\ blocks \in Int
    /\ slips \in 0..MaxSlips
    /\ finished \in BOOLEAN

Nested(stack) ==
    /\ Len(stack) > 0 /\ stack[1] = Bottom
    /\ \A i, j \in 1..Len(stack) : i < j => Less(stack[i], stack[j])

\* The levels on the stack lie properly inside each other, and the outermost is
\* the margin: last_indent never finds the stack empty, the loop of lex_indent
\* ends, and a line at an enclosing level is found to be at that level.
IndentsNested == Nested(indents)

\* The stream has as many open blocks as the stack has levels, whatever errors
\* were recovered from, as long as no Indent or Dedent was lost with a dropped
\* token or written where the line is at no level; so at the end all are closed.
BlocksMatch == slips = 0 => blocks = Len(indents) - 1

\* "Validations on closure of delim tokens": after any mismatch, a closing
\* delimiter in the stream closes the innermost open one.
NestingMatches == nest = delims

\* "Validations on indent and dedent": a source the lexer has no complaint about
\* gives a stream in which every block is closed, once.
BlocksClosed == finished /\ ~errors => blocks = 0
=============================================================================
