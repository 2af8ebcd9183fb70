---------------------------- MODULE LexerProofs ----------------------------
(***************************************************************************)
(* Theorems about Lexer, for every source and every bound.                 *)
(***************************************************************************)
EXTENDS Lexer, TLAPS

LexInv == LexerTypeOK /\ IndentsNested /\ BlocksMatch /\ NestingMatches

\* A prefix of a stack of nested levels is one.
LEMMA PrefixNested ==
    ASSUME NEW s \in Seq(IndentLevel), Nested(s), NEW k \in 1..Len(s)
    PROVE  /\ SubSeq(s, 1, k) \in Seq(IndentLevel)
           /\ Nested(SubSeq(s, 1, k))
           /\ Len(SubSeq(s, 1, k)) = k
<1> DEFINE t == SubSeq(s, 1, k)
<1>1. t \in Seq(IndentLevel) /\ Len(t) = k
  OBVIOUS
<1>2. \A i \in 1..k : t[i] = s[i]
  OBVIOUS
<1>3. QED BY <1>1, <1>2 DEF Nested

\* A stack grows by a level its innermost one lies below.
LEMMA PushNested ==
    ASSUME NEW s \in Seq(IndentLevel), Nested(s), NEW l \in IndentLevel, Less(s[Len(s)], l)
    PROVE  /\ Append(s, l) \in Seq(IndentLevel)
           /\ Nested(Append(s, l))
           /\ Len(Append(s, l)) = Len(s) + 1
<1> DEFINE t == Append(s, l)
<1>1. t \in Seq(IndentLevel) /\ Len(t) = Len(s) + 1
  OBVIOUS
<1>2. \A i \in 1..Len(s) : t[i] = s[i] /\ s[i] \in IndentLevel
  OBVIOUS
<1>3. t[Len(s) + 1] = l
  OBVIOUS
<1>4. \A a, b, c \in IndentLevel : Less(a, b) /\ Less(b, c) => Less(a, c)
  BY DEF Less, IndentLevel
<1>5. Len(s) \in Nat /\ Len(s) > 0
  BY DEF Nested
<1>6. \A i \in 1..Len(s) : Less(s[i], l)
  BY <1>2, <1>4, <1>5 DEF Nested
<1>7. ASSUME NEW i \in 1..Len(t), NEW j \in 1..Len(t), i < j PROVE Less(t[i], t[j])
  <2>1. CASE j = Len(s) + 1
    BY <2>1, <1>1, <1>2, <1>3, <1>5, <1>6, <1>7
  <2>2. CASE j # Len(s) + 1
    BY <2>2, <1>1, <1>2, <1>5, <1>7 DEF Nested
  <2>3. QED BY <2>1, <2>2
<1>8. t[1] = Bottom
  BY <1>2, <1>5 DEF Nested
<1>9. QED BY <1>1, <1>5, <1>7, <1>8 DEF Nested

\* What an indentation leaves behind: nested levels, one more for every Indent
\* and one less for every Dedent, and no difference in spaces below zero.
Sound(i) ==
    /\ i.in \in Nat /\ i.out \in Nat
    /\ i.odd = -1 \/ i.odd \in Nat
    /\ i.indents \in Seq(IndentLevel)
    /\ Nested(i.indents)
    /\ Len(i.indents) = Len(indents) + i.in - i.out

\* lex_indent is sound where its loop stops.
LEMMA IndentSound ==
    ASSUME LexerTypeOK, IndentsNested, NEW level \in IndentLevel, NEW k \in StopsAt(level)
    PROVE  /\ Sound(lex_indent(level, k))
           /\ lex_indent(level, k).tabs = 0 /\ lex_indent(level, k).spaces = 0
<1> DEFINE n == Len(indents)
           pops == n - k
           order == cmp(level, indents[k])
           between == pops > 0 /\ order = "Greater"
           i == lex_indent(level, k)
<1>1. indents \in Seq(IndentLevel) /\ Nested(indents) /\ n \in Nat
  BY DEF LexerTypeOK, IndentsNested
<1>2. k \in 1..n /\ ~Less(level, indents[k])
  BY DEF StopsAt
<1>3. indents[k] \in IndentLevel
  BY <1>1, <1>2
<1>4. order = "Greater" => Less(indents[k], level)
  BY DEF cmp
<1>5. i.tabs = 0 /\ i.spaces = 0
  BY DEF lex_indent, Indentation, cmp
<1>6. CASE between
  <2>1. /\ i.indents = SubSeq(indents, 1, k + 1)
        /\ i.in = 0 /\ i.out = pops - 1
        /\ i.odd = level.spaces - indents[k].spaces
    <3>1. pops # 0
      BY <1>1, <1>2, <1>6
    <3>2. i = Indentation(0, 0, SubSeq(indents, 1, k + 1), 0, pops - 1,
                          level.spaces - indents[k].spaces, "none")
      BY <3>1, <1>6 DEF lex_indent
    <3>3. i.indents = SubSeq(indents, 1, k + 1)
      <4> DEFINE rest == SubSeq(indents, 1, k + 1)
      <4>1. i = Indentation(0, 0, rest, 0, pops - 1, level.spaces - indents[k].spaces, "none")
        BY <3>2
      <4> HIDE DEF rest
      <4>2. i.indents = rest
        BY <4>1 DEF Indentation
      <4>3. QED BY <4>2 DEF rest
    <3>4. i.in = 0
      BY <3>2 DEF Indentation
    <3>5. i.out = pops - 1
      BY <3>2 DEF Indentation
    <3>6. i.odd = level.spaces - indents[k].spaces
      BY <3>2 DEF Indentation
    <3>7. QED BY <3>3, <3>4, <3>5, <3>6
  <2>2. k + 1 \in 1..n
    BY <1>1, <1>2, <1>6
  <2>3. i.odd \in Nat
    BY <2>1, <1>3, <1>4, <1>6 DEF Less, IndentLevel
  <2>4. pops - 1 \in Nat /\ k + 1 = n - (pops - 1)
    BY <1>1, <1>2, <1>6
  <2>5. /\ i.indents \in Seq(IndentLevel) /\ Nested(i.indents)
        /\ Len(i.indents) = n + i.in - i.out
    BY <2>1, <2>2, <2>4, <1>1, PrefixNested
  <2>6. QED BY <2>1, <2>3, <2>4, <2>5, <1>5 DEF Sound
<1>7. CASE pops = 0 /\ order = "Greater"
  <2>1. /\ i.indents = Append(indents, level)
        /\ i.in = 1 /\ i.out = 0 /\ i.odd = -1
    BY <1>7 DEF lex_indent, Indentation
  <2>2. k = n
    BY <1>1, <1>2, <1>7
  <2>3. Less(indents[n], level)
    BY <2>2, <1>4, <1>7
  <2>4. /\ i.indents \in Seq(IndentLevel) /\ Nested(i.indents)
        /\ Len(i.indents) = n + i.in - i.out
    BY <2>1, <2>3, <1>1, PushNested
  <2>5. QED BY <2>1, <2>4, <1>5 DEF Sound
<1>8. CASE ~between /\ ~(pops = 0 /\ order = "Greater")
  <2>1. /\ i.indents = SubSeq(indents, 1, k)
        /\ i.in = 0 /\ i.out = pops /\ i.odd = -1
    <3>1. i = Indentation(0, 0, SubSeq(indents, 1, k), 0, pops, -1,
                          IF order = "Err" THEN "inconsistent" ELSE "none")
      BY <1>8 DEF lex_indent
    <3>2. i.indents = SubSeq(indents, 1, k)
      <4> DEFINE rest == SubSeq(indents, 1, k)
      <4>1. i = Indentation(0, 0, rest, 0, pops, -1, IF order = "Err" THEN "inconsistent" ELSE "none")
        BY <3>1
      <4> HIDE DEF rest
      <4>2. i.indents = rest
        BY <4>1 DEF Indentation
      <4>3. QED BY <4>2 DEF rest
    <3>3. i.in = 0
      BY <3>1 DEF Indentation
    <3>4. i.out = pops
      BY <3>1 DEF Indentation
    <3>5. i.odd = -1
      BY <3>1 DEF Indentation
    <3>6. QED BY <3>2, <3>3, <3>4, <3>5
  <2>2. /\ i.indents \in Seq(IndentLevel) /\ Nested(i.indents)
        /\ Len(i.indents) = n + i.in - i.out
    BY <2>1, <1>1, <1>2, PrefixNested
  <2>3. i.out \in Nat
    BY <2>1, <1>1, <1>2
  <2>4. QED BY <2>1, <2>2, <2>3, <1>5 DEF Sound
<1>9. QED BY <1>6, <1>7, <1>8

\* So is lex_indent_context, and it keeps the counters in bounds.
LEMMA ContextSound ==
    ASSUME LexerTypeOK, IndentsNested, NEW kind \in Kinds,
           kind = "Tab" /\ new_line_beginning => tabs < MaxTabs,
           kind = "Space" /\ new_line_beginning => spaces < MaxSpaces,
           NEW i \in lex_indent_context(kind)
    PROVE  Sound(i) /\ i.tabs \in 0..MaxTabs /\ i.spaces \in 0..MaxSpaces
<1>1. indents \in Seq(IndentLevel) /\ Len(indents) \in Nat /\ Nested(indents)
  BY DEF LexerTypeOK, IndentsNested
<1>2. tabs \in 0..MaxTabs /\ spaces \in 0..MaxSpaces /\ MaxTabs \in Nat /\ MaxSpaces \in Nat
  BY LexerBounds DEF LexerTypeOK
<1>3. ASSUME NEW t \in 0..MaxTabs, NEW s \in 0..MaxSpaces,
             i = Indentation(t, s, indents, 0, 0, -1, "none")
      PROVE  Sound(i) /\ i.tabs \in 0..MaxTabs /\ i.spaces \in 0..MaxSpaces
  BY <1>1, <1>3 DEF Sound, Indentation
<1>4. CASE ~new_line_beginning \/ kind \in {"LineComment", "Newline", "Tab", "Space"}
  <2>1. CASE ~new_line_beginning
    BY <2>1, <1>2, <1>3 DEF lex_indent_context
  <2>2. CASE new_line_beginning /\ kind \in {"LineComment", "Newline"}
    <3>1. i = Indentation(0, 0, indents, 0, 0, -1, "none")
      BY <2>2 DEF lex_indent_context
    <3>2. QED BY <3>1, <1>2, <1>3
  <2>3. CASE new_line_beginning /\ kind = "Tab"
    <3>1. i = Indentation(tabs + 1, spaces, indents, 0, 0, -1, "none")
      BY <2>3, <1>2 DEF lex_indent_context
    <3>2. tabs + 1 \in 0..MaxTabs
      BY <2>3, <1>2
    <3>3. QED BY <3>1, <3>2, <1>2, <1>3
  <2>4. CASE new_line_beginning /\ kind = "Space"
    <3>1. i = Indentation(tabs, spaces + 1, indents, 0, 0, -1, "none")
      BY <2>4, <1>2 DEF lex_indent_context
    <3>2. spaces + 1 \in 0..MaxSpaces
      BY <2>4, <1>2
    <3>3. QED BY <3>1, <3>2, <1>2, <1>3
  <2>5. QED BY <1>4, <2>1, <2>2, <2>3, <2>4
<1>5. CASE new_line_beginning /\ kind \notin {"LineComment", "Newline", "Tab", "Space"}
  <2> DEFINE level == [tabs |-> tabs, spaces |-> spaces]
  <2>1. level \in IndentLevel
    BY <1>2 DEF IndentLevel
  <2>2. PICK k \in StopsAt(level) : i = lex_indent(level, k)
    BY <1>5 DEF lex_indent_context
  <2>3. QED BY <2>1, <2>2, <1>2, IndentSound
<1>6. QED BY <1>4, <1>5

\* A token keeps what the stacks of levels and the blocks promise.
LEMMA LexStep ==
    ASSUME LexInv, NEW kind \in Kinds, NEW err \in BOOLEAN, Lex(kind, err)
    PROVE  /\ new_line_beginning' \in BOOLEAN
           /\ tabs' \in 0..MaxTabs /\ spaces' \in 0..MaxSpaces
           /\ indents' \in Seq(IndentLevel)
           /\ errors' \in BOOLEAN /\ blocks' \in Int /\ slips' \in 0..MaxSlips
           /\ finished' \in BOOLEAN
           /\ IndentsNested'
           /\ BlocksMatch'
<1>1. LexerTypeOK /\ IndentsNested /\ BlocksMatch /\ MaxSlips \in Nat
  BY LexerBounds DEF LexInv
<1>2. PICK i \in lex_indent_context(kind) :
         /\ slips + Slips(kind, i) <= MaxSlips
         /\ tabs' = i.tabs
         /\ spaces' = i.spaces
         /\ indents' = i.indents
         /\ errors' = (errors \/ i.msg # "none" \/ err)
         /\ blocks' = IF kind \in Dropped THEN blocks ELSE blocks + i.in - Closed(i)
         /\ slips' = slips + Slips(kind, i)
  BY DEF Lex
<1>3. Sound(i) /\ i.tabs \in 0..MaxTabs /\ i.spaces \in 0..MaxSpaces
  BY <1>1, ContextSound DEF Lex
<1>4. Slips(kind, i) \in 0..1 /\ Closed(i) \in Nat
  BY <1>3 DEF Sound, Slips, Closed
<1>5. blocks \in Int /\ slips \in Nat /\ Len(indents) \in Nat
  BY <1>1 DEF LexerTypeOK
<1>6. slips' \in 0..MaxSlips /\ blocks' \in Int
  BY <1>1, <1>2, <1>3, <1>4, <1>5 DEF Sound
<1>7. BlocksMatch'
  <2>1. SUFFICES ASSUME slips' = 0 PROVE blocks' = Len(indents') - 1
    BY DEF BlocksMatch
  <2>2. slips = 0 /\ Slips(kind, i) = 0
    BY <2>1, <1>2, <1>4, <1>5
  <2>3. blocks = Len(indents) - 1
    BY <2>2, <1>1 DEF BlocksMatch
  <2>4. CASE kind \in Dropped
    <3>1. i.in = 0 /\ i.out = 0
      BY <2>2, <2>4, <1>3 DEF Slips, Sound
    <3>2. QED BY <3>1, <2>3, <2>4, <1>2, <1>3, <1>5 DEF Sound
  <2>5. CASE kind \notin Dropped
    <3>1. Closed(i) = i.out
      BY <2>2, <2>5, <1>3 DEF Slips, Sound, Closed
    <3>2. QED BY <3>1, <2>3, <2>5, <1>2, <1>3, <1>5 DEF Sound
  <2>6. QED BY <2>4, <2>5
<1>8. new_line_beginning' \in BOOLEAN /\ errors' \in BOOLEAN
  BY <1>2 DEF Lex
<1>9. finished' \in BOOLEAN
  BY <1>1 DEF Lex, LexerTypeOK
<1>10. QED BY <1>2, <1>3, <1>6, <1>7, <1>8, <1>9 DEF Sound, IndentsNested

\* LexInv is inductive.
LEMMA LexInvStep == LexInv /\ [LexerNext]_lexVars => LexInv'
<1> SUFFICES ASSUME LexInv, [LexerNext]_lexVars PROVE LexInv'
  OBVIOUS
<1>1. delims \in Seq(Delims) /\ nest = delims
  BY DEF LexInv, LexerTypeOK, NestingMatches
<1>2. ASSUME NEW kind \in Plain, LexToken(kind) PROVE LexInv'
  <2>1. Lex(kind, kind \in Erroneous) /\ kind \in Kinds /\ (kind \in Erroneous) \in BOOLEAN
    BY <1>2 DEF LexToken, Kinds
  <2>2. delims' = delims /\ nest' = nest
    BY <1>2 DEF LexToken
  <2>3. QED BY <2>1, <2>2, <1>1, LexStep DEF LexInv, LexerTypeOK, NestingMatches
<1>3. ASSUME NEW d \in Delims, OpenDelim(d) PROVE LexInv'
  <2>1. Lex("Delim", FALSE) /\ "Delim" \in Kinds
    BY <1>3 DEF OpenDelim, Kinds
  <2>2. delims' = Append(delims, d) /\ nest' = Append(nest, d)
    BY <1>3 DEF OpenDelim
  <2>3. delims' \in Seq(Delims) /\ nest' = delims'
    BY <2>2, <1>1
  <2>4. QED BY <2>1, <2>3, LexStep DEF LexInv, LexerTypeOK, NestingMatches
<1>4. ASSUME NEW d \in Delims, CloseDelim(d) PROVE LexInv'
  <2> DEFINE err == delims = <<>> \/ d # Recovered(d)
  <2>1. Lex("Delim", err) /\ "Delim" \in Kinds /\ err \in BOOLEAN
    BY <1>4 DEF CloseDelim, Kinds
  <2>2. /\ delims' = IF delims = <<>> THEN delims ELSE SubSeq(delims, 1, Len(delims) - 1)
        /\ nest' = Read(Recovered(d))
    BY <1>4 DEF CloseDelim
  <2>3. delims' \in Seq(Delims)
    BY <2>2, <1>1
  <2>4. nest' = delims'
    BY <2>2, <1>1 DEF Read, Recovered
  <2>5. QED BY <2>1, <2>3, <2>4, LexStep DEF LexInv, LexerTypeOK, NestingMatches
<1>5. CASE Eof
  <2>1. indents \in Seq(IndentLevel) /\ Nested(indents) /\ Len(indents) \in Nat /\ Len(indents) > 0
    BY DEF LexInv, LexerTypeOK, IndentsNested, Nested
  <2>2. /\ SubSeq(indents, 1, 1) \in Seq(IndentLevel)
        /\ Nested(SubSeq(indents, 1, 1))
        /\ Len(SubSeq(indents, 1, 1)) = 1
    BY <2>1, PrefixNested
  <2>3. blocks' \in Int /\ BlocksMatch'
    BY <1>5, <2>1, <2>2 DEF Eof, LexInv, LexerTypeOK, BlocksMatch
  <2>4. QED BY <1>5, <2>2, <2>3 DEF Eof, LexInv, LexerTypeOK, IndentsNested, NestingMatches
<1>6. CASE UNCHANGED lexVars
  BY <1>6 DEF lexVars, LexInv, LexerTypeOK, IndentsNested, BlocksMatch, NestingMatches
<1>7. QED BY <1>2, <1>3, <1>4, <1>5, <1>6 DEF LexerNext

\* LexInv holds of the first state.
LEMMA LexInvInit == LexerInit => LexInv
<1> SUFFICES ASSUME LexerInit PROVE LexInv
  OBVIOUS
<1>1. Bottom \in IndentLevel
  BY DEF Bottom, IndentLevel
<1>2. indents \in Seq(IndentLevel) /\ Len(indents) = 1 /\ indents[1] = Bottom
  <2>1. indents = <<Bottom>>
    BY DEF LexerInit
  <2>2. QED BY <2>1, <1>1
<1>3. Nested(indents)
  <2>1. \A i, j \in 1..1 : ~(i < j)
    OBVIOUS
  <2>2. QED BY <2>1, <1>2 DEF Nested
<1>4. LexerTypeOK
  <2>1. new_line_beginning \in BOOLEAN /\ errors \in BOOLEAN /\ finished \in BOOLEAN
    BY DEF LexerInit
  <2>2. tabs \in 0..MaxTabs /\ spaces \in 0..MaxSpaces /\ slips \in 0..MaxSlips /\ blocks \in Int
    BY LexerBounds DEF LexerInit
  <2>3. delims \in Seq(Delims) /\ nest \in Seq(Delims)
    BY DEF LexerInit
  <2>4. QED BY <2>1, <2>2, <2>3, <1>2 DEF LexerTypeOK
<1>5. BlocksMatch /\ NestingMatches
  BY <1>2 DEF LexerInit, BlocksMatch, NestingMatches
<1>6. QED BY <1>3, <1>4, <1>5 DEF LexInv, IndentsNested

\* LexInv holds always.
LEMMA LexInvHolds == LexerSpec => []LexInv
  BY LexInvInit, LexInvStep, PTL DEF LexerSpec

\* The counters, stacks and flags of the lexer have their types.
THEOREM LexerTypesHold == LexerSpec => []LexerTypeOK
<1>1. LexInv => LexerTypeOK
  BY DEF LexInv
<1>2. QED BY <1>1, LexInvHolds, PTL

\* Indentation levels are nested whatever the source: lex_indent's stack never
\* runs empty and never holds two levels that cannot be compared.
THEOREM LevelsAreNested == LexerSpec => []IndentsNested
<1>1. LexInv => IndentsNested
  BY DEF LexInv
<1>2. QED BY <1>1, LexInvHolds, PTL

\* The stream's blocks and the stack's levels agree until an Indent or Dedent
\* goes wrong, through every error lex_indent recovers from.
THEOREM BlocksAgree == LexerSpec => []BlocksMatch
<1>1. LexInv => BlocksMatch
  BY DEF LexInv
<1>2. QED BY <1>1, LexInvHolds, PTL

\* The delimiters of the stream are nested through every mismatch lex_token
\* recovers from.
THEOREM NestingAgrees == LexerSpec => []NestingMatches
<1>1. LexInv => NestingMatches
  BY DEF LexInv
<1>2. QED BY <1>1, LexInvHolds, PTL
=============================================================================
