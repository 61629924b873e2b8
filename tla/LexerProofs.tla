---------------------------- MODULE LexerProofs ----------------------------
(***************************************************************************)
(* For every source text and every set of keywords: the tokens handed out  *)
(* are the lexemes of the source, and they are located where they stand.   *)
(*                                                                         *)
(* Between two calls this is LexemesExact and LocationsRight.  Inside a    *)
(* call the invariant says how much of a comment, a word or a number lies  *)
(* between the last token and the place the loop has reached.              *)
(***************************************************************************)
EXTENDS Lexer, FiniteSetTheorems, SequenceTheorems, TLAPS

\* Lines and columns cannot run ahead of the offset.
Bounded(loc) == loc.line <= loc.offset + 1 /\ loc.column <= loc.offset + 1

TakenLocated == \A k \in DOMAIN Taken : Located(Taken[k].location)

PlacesRight == LocationsRight /\ Located(start) /\ Bounded(at) /\ Bounded(start)

\* Where the last token ends.
LastPast == PastOf(Len(Taken))

TakenExact == \A k \in DOMAIN Taken : Blank(PastOf(k - 1), First(Taken[k])) /\ IsLexeme(Taken[k])

Unpeeked == mode # "ready" => peeked = <<>>

InLine(k) ==
  /\ Blank(LastPast, k) /\ k + 2 <= at.offset
  /\ Char(k) = "/" /\ Char(k + 1) = "/"
  /\ \A m \in k + 2 .. at.offset - 1 : Char(m) # "\n"

InBlock(k) ==
  /\ Blank(LastPast, k) /\ k + 2 <= at.offset
  /\ Char(k) = "/" /\ Char(k + 1) = "*"
  /\ \A m \in k + 2 .. at.offset - 1 : ~Closes(m)

InWord ==
  /\ Blank(LastPast, start.offset) /\ start.offset <= at.offset
  /\ is_identifier_start(Char(start.offset))
  /\ \A m \in start.offset .. at.offset - 1 : is_identifier_continue(Char(m))

InNumber ==
  /\ Blank(LastPast, start.offset) /\ start.offset <= at.offset
  /\ \/ is_digit(Char(start.offset))
     \/ Char(start.offset) = "-" /\ is_digit(Char(start.offset + 1)) /\ start.offset < at.offset
  /\ \A m \in start.offset + 1 .. at.offset - 1 : is_digit(Char(m))

Walk ==
  /\ mode = "ready" => at.offset = LastPast
  /\ mode = "blanks" => Blank(LastPast, at.offset)
  /\ mode = "line_comment" => \E k \in Nat : InLine(k)
  /\ mode = "block_comment" => \E k \in Nat : InBlock(k)
  /\ mode = "word" => InWord
  /\ mode = "number" => InNumber

IInv == TypeOK /\ PlacesRight /\ TakenExact /\ Unpeeked /\ Walk

-----------------------------------------------------------------------------
(* What depends on the source alone stays *)

LEMMA SourceStays ==
  ASSUME UNCHANGED source
  PROVE  /\ Size' = Size /\ Locations' = Locations /\ Tokens' = Tokens
         /\ \A k : Char(k)' = Char(k)
         /\ \A k : Closes(k)' <=> Closes(k)
         /\ \A i, j : Blank(i, j)' <=> Blank(i, j)
         /\ \A t : IsLexeme(t)' <=> IsLexeme(t)
         /\ \A loc : Located(loc)' <=> Located(loc)
<1>1. Size' = Size /\ Locations' = Locations /\ Tokens' = Tokens
  BY DEF Size, Locations, Tokens
<1>2. \A k : Char(k)' = Char(k)
  BY <1>1 DEF Char
<1>3. \A k : Closes(k)' <=> Closes(k)
  BY <1>2, Zenon DEF Closes
<1>4. ASSUME NEW k, NEW e
      PROVE  Skipped(k, e)' <=> Skipped(k, e)
  <2>1. LineComment(k, e)' <=> LineComment(k, e)
    BY <1>1, <1>2 DEF LineComment
  <2>2. BlockComment(k, e)' <=> BlockComment(k, e)
    BY <1>1, <1>2, <1>3 DEF BlockComment
  <2> QED
    BY <1>2, <2>1, <2>2 DEF Skipped, isspace
<1>5. \A i, j : Blank(i, j)' <=> Blank(i, j)
  BY <1>4, Zenon DEF Blank
<1>6. ASSUME NEW t
      PROVE  IsLexeme(t)' <=> IsLexeme(t)
  <2>1. First(t)' = First(t) /\ Past(t)' = Past(t)
    BY DEF First, Past, LocatedBehind
  <2>2. IsText(t)' <=> IsText(t)
    BY <2>1 DEF IsText
  <2>3. (IsEnd(t)' <=> IsEnd(t)) /\ (IsSymbol(t)' <=> IsSymbol(t))
    BY <1>1, <1>2, <2>1 DEF IsEnd, IsSymbol
  <2>4. IsInvalid(t)' <=> IsInvalid(t)
    BY <1>2, <2>1 DEF IsInvalid, isspace, is_identifier_continue, is_digit
  <2>5. (IsNumber(t)' <=> IsNumber(t)) /\ (IsWord(t)' <=> IsWord(t))
    BY <1>2, <2>1, <2>2
       DEF IsNumber, IsWord, is_digit, is_identifier_start, is_identifier_continue, keyword_or_identifier
  <2> QED
    BY <2>3, <2>4, <2>5 DEF IsLexeme
<1>7. \A loc : Located(loc)' <=> Located(loc)
  BY Zenon DEF Located, Newlines
<1> QED
  BY <1>1, <1>2, <1>3, <1>5, <1>6, <1>7

-----------------------------------------------------------------------------
(* Blanks *)

LEMMA BlankEmpty ==
  ASSUME NEW i \in Nat
  PROVE  Blank(i, i)
<1>1. {i} \in SUBSET (i .. i) /\ {i} \ {i} = {}
  OBVIOUS
<1> QED
  BY <1>1, Zenon DEF Blank

LEMMA BlankOrder ==
  ASSUME NEW i, NEW j, Blank(i, j)
  PROVE  i \in i .. j
  BY DEF Blank

\* One more space or comment.
LEMMA BlankMore ==
  ASSUME NEW i \in Nat, NEW j \in Nat, NEW e \in Nat, Blank(i, j), Skipped(j, e), j < e
  PROVE  Blank(i, e)
<1>1. PICK cuts \in SUBSET (i .. j) :
        /\ i \in cuts /\ j \in cuts
        /\ \A k \in cuts \ {j} : \E x \in cuts : Skipped(k, x)
  BY DEF Blank
<1>2. cuts \cup {e} \in SUBSET (i .. e)
  BY <1>1
<1>3. \A k \in (cuts \cup {e}) \ {e} : \E x \in cuts \cup {e} : Skipped(k, x)
  BY <1>1, Zenon
<1> QED
  BY <1>1, <1>2, <1>3, Zenon DEF Blank

-----------------------------------------------------------------------------
(* Locations *)

LEMMA NewlinesFinite ==
  ASSUME NEW n \in Nat
  PROVE  IsFiniteSet(Newlines(n)) /\ Cardinality(Newlines(n)) \in Nat
<1>1. IsFiniteSet(1 .. n)
  BY FS_Interval
<1>2. Newlines(n) \in SUBSET (1 .. n)
  BY DEF Newlines
<1>3. IsFiniteSet(Newlines(n))
  BY <1>1, <1>2, FS_Subset, Zenon
<1> QED
  BY <1>3, FS_CardinalityType

LEMMA NewlinesNext ==
  ASSUME NEW n \in Nat
  PROVE  Newlines(n + 1) = IF source[n + 1] = "\n" THEN Newlines(n) \cup {n + 1} ELSE Newlines(n)
  BY DEF Newlines

LEMMA AdvanceLocated ==
  ASSUME NEW loc \in Locations, source \in Seq(STRING), Located(loc), Bounded(loc)
  PROVE  /\ advance(loc) \in Locations /\ Located(advance(loc)) /\ Bounded(advance(loc))
         /\ advance(loc).offset = IF loc.offset < Size THEN loc.offset + 1 ELSE loc.offset
<1> PICK n : n = loc.offset
  OBVIOUS
<1>1. /\ Size \in Nat /\ n \in Nat /\ n <= Size /\ loc.line \in 1 .. Size + 1 /\ loc.column \in 1 .. Size + 1
      /\ Len(source) = Size
  BY DEF Locations, Size
<1>2. CASE n >= Size
  BY <1>1, <1>2 DEF advance
<1>3. CASE n < Size /\ source[n + 1] = "\n"
  <2>1. advance(loc) = [line |-> loc.line + 1, column |-> 1, offset |-> n + 1]
    BY <1>1, <1>3 DEF advance
  <2>2. advance(loc) \in Locations /\ Bounded(advance(loc))
    BY <1>1, <1>3, <2>1 DEF Locations, Bounded
  <2>3. Newlines(n + 1) = Newlines(n) \cup {n + 1} /\ n + 1 \notin Newlines(n)
    BY <1>1, <1>3, NewlinesNext DEF Newlines
  <2>4. Cardinality(Newlines(n + 1)) = Cardinality(Newlines(n)) + 1
    <3> PICK N : N = Newlines(n)
      BY Zenon
    <3>1. IsFiniteSet(N) /\ n + 1 \notin N
      BY <1>1, <2>3, NewlinesFinite, Zenon
    <3>2. Cardinality(N \cup {n + 1}) = Cardinality(N) + 1
      BY <3>1, FS_AddElement, Zenon
    <3> QED
      BY <2>3, <3>2, Zenon
  <2>5. \A k \in Newlines(n + 1) : k <= n + 1
    BY <1>1 DEF Newlines
  <2>6. Cardinality(Newlines(n)) \in Nat /\ loc.line = 1 + Cardinality(Newlines(n))
    BY <1>1, NewlinesFinite, Zenon DEF Located
  <2>7. (n + 1) - (n + 1) + 1 = 1 /\ loc.line + 1 = 1 + Cardinality(Newlines(n + 1))
    BY <1>1, <2>4, <2>6
  <2>8. n + 1 \in Newlines(n + 1)
    BY <2>3
  <2>9. Located(advance(loc))
    <3>1. /\ advance(loc).offset = n + 1 /\ advance(loc).line = 1 + Cardinality(Newlines(n + 1))
          /\ advance(loc).column = (n + 1) - (n + 1) + 1
      BY <2>1, <2>7
    <3> QED
      BY <2>5, <2>8, <3>1, Zenon DEF Located
  <2> QED
    BY <1>1, <1>3, <2>1, <2>2, <2>9
<1>4. CASE n < Size /\ source[n + 1] # "\n"
  <2>1. advance(loc) = [line |-> loc.line, column |-> loc.column + 1, offset |-> n + 1]
    BY <1>1, <1>4 DEF advance, Locations
  <2>2. advance(loc) \in Locations /\ Bounded(advance(loc))
    BY <1>1, <1>4, <2>1 DEF Locations, Bounded
  <2>3. Newlines(n + 1) = Newlines(n)
    BY <1>1, <1>4, NewlinesNext, Zenon
  <2>4. PICK last \in {0} \cup Newlines(n) :
          (\A k \in Newlines(n) : k <= last) /\ loc.column = n - last + 1
    BY DEF Located
  <2>5. last \in Nat
    BY <1>1, <2>4 DEF Newlines
  <2>6. loc.column + 1 = (n + 1) - last + 1
    BY <1>1, <2>4, <2>5
  <2>7. Located(advance(loc))
    BY <2>1, <2>3, <2>4, <2>6 DEF Located
  <2> QED
    BY <1>1, <1>4, <2>1, <2>2, <2>7
<1> QED
  BY <1>1, <1>2, <1>3, <1>4

-----------------------------------------------------------------------------
(* Characters at the place of the lexer *)

LEMMA TypeFacts ==
  ASSUME TypeOK
  PROVE  /\ Size \in Nat /\ Len(source) = Size /\ source \in Seq(STRING)
         /\ at \in Locations /\ at.offset \in Nat /\ at.offset <= Size
         /\ start \in Locations /\ start.offset \in Nat /\ start.offset <= Size
         /\ returned \in Seq(Tokens) /\ peeked \in Seq(Tokens)
  BY DEF TypeOK, Size, Locations

LEMMA CharFacts ==
  ASSUME TypeOK
  PROVE  /\ current_char = Char(at.offset) /\ peek_char(1) = Char(at.offset + 1)
         /\ is_at_end <=> at.offset = Size
         /\ \A k : Char(k) # "nul" => k < Size
         /\ \A k \in Nat : k < Size => Char(k) = source[k + 1]
<1>1. /\ Size \in Nat /\ Len(source) = Size /\ source \in Seq(STRING)
      /\ at.offset \in Nat /\ at.offset <= Size
  BY TypeFacts
<1>2. at.offset + 0 = at.offset /\ at.offset + 0 + 1 = at.offset + 1
  BY <1>1
<1>3. current_char = Char(at.offset)
  BY <1>1, <1>2 DEF current_char, peek_char, Char
<1>4. peek_char(1) = Char(at.offset + 1)
  BY <1>1 DEF peek_char, Char
<1>5. is_at_end <=> at.offset = Size
  BY <1>1 DEF is_at_end
<1>6. \A k : Char(k) # "nul" => k < Size
  BY DEF Char
<1>7. \A k \in Nat : k < Size => Char(k) = source[k + 1]
  BY DEF Char
<1> QED
  BY <1>3, <1>4, <1>5, <1>6, <1>7

\* The classes do not hold the '\0' behind the end, and are apart.
LEMMA Classes ==
  /\ ~isspace("nul") /\ ~is_digit("nul") /\ ~is_identifier_start("nul") /\ ~is_identifier_continue("nul")
  /\ "nul" \notin DOMAIN Symbols
  /\ \A c : is_identifier_start(c) => is_identifier_continue(c) /\ ~is_digit(c)
  /\ \A c : is_identifier_continue(c) <=> is_identifier_start(c) \/ is_digit(c)
  BY DEF isspace, is_digit, is_identifier_start, is_identifier_continue, Symbols, Letters, Digits, Spaces

-----------------------------------------------------------------------------
(* The tokens *)

LEMMA TakenFacts ==
  ASSUME TypeOK
  PROVE  /\ Taken \in Seq(Tokens) /\ Len(Taken) \in Nat /\ DOMAIN Taken = 1 .. Len(Taken)
         /\ peeked = <<>> => Taken = returned
         /\ \A t : peeked = <<t>> => Taken = Append(returned, t)
<1>1. returned \in Seq(Tokens) /\ peeked \in Seq(Tokens)
  BY TypeFacts
<1>2. Taken \in Seq(Tokens)
  BY <1>1, ConcatProperties, Zenon DEF Taken
<1>3. Len(Taken) \in Nat /\ DOMAIN Taken = 1 .. Len(Taken)
  BY <1>2
<1>4. peeked = <<>> => Taken = returned
  BY <1>1, ConcatEmptySeq DEF Taken
<1>5. ASSUME NEW t, peeked = <<t>>
      PROVE  Taken = Append(returned, t)
  BY <1>1, <1>5 DEF Taken
<1> QED
  BY <1>2, <1>3, <1>4, <1>5, Zenon

\* Where a lexeme begins and ends.
LEMMA LexemeFacts ==
  ASSUME TypeOK, NEW t \in Tokens, IsLexeme(t)
  PROVE  /\ First(t) \in Int /\ Past(t) \in Nat /\ First(t) <= Past(t)
         /\ t.type = "END_OF_FILE" => First(t) = Size /\ Past(t) = Size
<1>1. /\ t.location.offset \in Nat /\ Len(t.text) \in Nat
  BY TypeFacts DEF Tokens, Locations
<1>2. First(t) \in Int /\ Past(t) \in Nat /\ First(t) <= Past(t)
  BY <1>1 DEF First, Past
<1>3. ASSUME t.type = "END_OF_FILE"
      PROVE  First(t) = Size /\ Past(t) = Size
  <2>1. ~LocatedBehind(t)
    BY <1>3 DEF LocatedBehind, SymbolTypes, Symbols
  <2>2. ~IsSymbol(t) /\ ~IsInvalid(t) /\ ~IsNumber(t)
    BY <1>3 DEF IsSymbol, IsInvalid, IsNumber, Symbols
  <2>3. ~IsWord(t)
    BY <1>3, KeywordsAssumption DEF IsWord, keyword_or_identifier
  <2>4. t.text = <<>> /\ First(t) = Size
    BY <2>2, <2>3 DEF IsLexeme, IsEnd
  <2> QED
    BY <1>1, <2>1, <2>4 DEF First, Past
<1> QED
  BY <1>2, <1>3

LEMMA LastPastFacts ==
  ASSUME IInv
  PROVE  /\ LastPast \in Nat
         /\ \A k \in 1 .. Len(Taken) : Taken[k] \in Tokens /\ IsLexeme(Taken[k])
<1>1. Taken \in Seq(Tokens) /\ Len(Taken) \in Nat /\ DOMAIN Taken = 1 .. Len(Taken)
  BY TakenFacts, Zenon DEF IInv
<1>2. \A k \in 1 .. Len(Taken) : Taken[k] \in Tokens /\ IsLexeme(Taken[k])
  BY <1>1 DEF IInv, TakenExact
<1>3. \A k \in 1 .. Len(Taken) : Past(Taken[k]) \in Nat
  BY <1>2, LexemeFacts DEF IInv
<1>4. LastPast \in Nat
  BY <1>1, <1>3 DEF LastPast, PastOf
<1> QED
  BY <1>2, <1>4

\* Nothing is left to lex behind the token of the end of the file.
LEMMA AfterEnd ==
  ASSUME IInv, Len(Taken) > 0, Taken[Len(Taken)].type = "END_OF_FILE"
  PROVE  LastPast = Size
<1>1. Len(Taken) \in Nat
  BY TakenFacts, Zenon DEF IInv
<1>2. Taken[Len(Taken)] \in Tokens /\ IsLexeme(Taken[Len(Taken)])
  BY <1>1, LastPastFacts
<1>3. Past(Taken[Len(Taken)]) = Size
  BY <1>2, LexemeFacts DEF IInv
<1> QED
  BY <1>1, <1>3 DEF LastPast, PastOf

LEMMA TakenStays ==
  ASSUME IInv, UNCHANGED <<source, peeked, returned>>
  PROVE  Taken' = Taken /\ LastPast' = LastPast /\ TakenExact' /\ TakenLocated'
<1>1. Taken' = Taken
  BY DEF Taken
<1>2. \A k : PastOf(k)' = PastOf(k)
  BY <1>1 DEF PastOf, Past, LocatedBehind
<1>3. LastPast' = LastPast
  BY <1>1 DEF LastPast, PastOf, Past, LocatedBehind
<1>4. \A t : First(t)' = First(t)
  BY DEF First, LocatedBehind
<1>5. ASSUME NEW k \in DOMAIN Taken
      PROVE  /\ Blank(PastOf(k - 1), First(Taken[k]))' /\ IsLexeme(Taken[k])'
             /\ Located(Taken[k].location)'
  <2> PICK i : i = PastOf(k - 1)
    OBVIOUS
  <2> PICK t : t = Taken[k]
    OBVIOUS
  <2>1. Blank(i, First(t)) /\ IsLexeme(t) /\ Located(t.location)
    BY DEF IInv, TakenExact, PlacesRight, LocationsRight
  <2> PICK f : f = First(t)
    OBVIOUS
  <2>2. Blank(i, f)' /\ IsLexeme(t)' /\ Located(t.location)'
    BY <2>1, SourceStays, Zenon
  <2>3. PastOf(k - 1)' = i /\ Taken'[k] = t /\ First(t)' = f
    BY <1>1, <1>2, <1>4
  <2> QED
    BY <2>2, <2>3, Zenon
<1>6. TakenExact'
  BY <1>1, <1>5 DEF TakenExact
<1>7. TakenLocated'
  BY <1>1, <1>5 DEF TakenLocated
<1> QED
  BY <1>1, <1>3, <1>6, <1>7

\* The tokens taken so far without the last ones.
LEMMA TakenPrefix ==
  ASSUME IInv, UNCHANGED source, NEW n \in Nat, n <= Len(Taken), Len(Taken') = n,
         DOMAIN Taken' = 1 .. n, \A k \in 1 .. n : Taken'[k] = Taken[k]
  PROVE  TakenExact' /\ TakenLocated' /\ LastPast' = PastOf(n)
<1>1. Taken \in Seq(Tokens) /\ Len(Taken) \in Nat /\ DOMAIN Taken = 1 .. Len(Taken)
  BY TakenFacts, Zenon DEF IInv
<1>2. \A k \in 0 .. n : PastOf(k)' = PastOf(k)
  <2>1. ASSUME NEW k \in 1 .. n
        PROVE  Past(Taken[k])' = Past(Taken[k])
    BY DEF Past, LocatedBehind
  <2> QED
    BY <2>1 DEF PastOf
<1>3. \A t : First(t)' = First(t)
  BY DEF First, LocatedBehind
<1>4. ASSUME NEW k \in 1 .. n
      PROVE  /\ Blank(PastOf(k - 1), First(Taken[k]))' /\ IsLexeme(Taken[k])'
             /\ Located(Taken[k].location)'
  <2> PICK i : i = PastOf(k - 1)
    OBVIOUS
  <2> PICK t : t = Taken[k]
    OBVIOUS
  <2> PICK f : f = First(t)
    OBVIOUS
  <2>1. Blank(i, f) /\ IsLexeme(t) /\ Located(t.location)
    BY <1>1 DEF IInv, TakenExact, PlacesRight, LocationsRight
  <2>2. Blank(i, f)' /\ IsLexeme(t)' /\ Located(t.location)'
    BY <2>1, SourceStays, Zenon
  <2>3. k - 1 \in 0 .. n
    OBVIOUS
  <2>4. PastOf(k - 1)' = i /\ Taken'[k] = t /\ First(t)' = f
    BY <1>2, <1>3, <2>3
  <2> QED
    BY <2>2, <2>4, Zenon
<1>5. TakenExact' /\ TakenLocated'
  BY <1>4 DEF TakenExact, TakenLocated
<1>6. LastPast' = PastOf(n)
  <2>1. n \in 0 .. n
    OBVIOUS
  <2>2. LastPast' = PastOf(n)'
    BY DEF LastPast, PastOf
  <2> QED
    BY <1>2, <2>1, <2>2
<1> QED
  BY <1>5, <1>6

LEMMA AtMoves ==
  ASSUME IInv, UNCHANGED source, Stay \/ Advance \/ AdvanceTwice
  PROVE  at' \in Locations /\ Located(at') /\ Located(at)' /\ Bounded(at)'
<1>1. at \in Locations /\ source \in Seq(STRING) /\ Located(at) /\ Bounded(at)
  BY TypeFacts DEF IInv, PlacesRight, LocationsRight
<1>2. advance(at) \in Locations /\ Located(advance(at)) /\ Bounded(advance(at))
  BY <1>1, AdvanceLocated
<1>3. /\ advance(advance(at)) \in Locations /\ Located(advance(advance(at)))
      /\ Bounded(advance(advance(at)))
  BY <1>1, <1>2, AdvanceLocated
<1> PICK x : x = at'
  OBVIOUS
<1>4. x \in Locations /\ Located(x) /\ Bounded(x)
  BY <1>1, <1>2, <1>3 DEF Stay, Advance, AdvanceTwice
<1>5. Located(x)'
  BY <1>4, SourceStays
<1> QED
  BY <1>4, <1>5 DEF Bounded

\* A step inside a call that returns no token.
LEMMA Inside ==
  ASSUME IInv, UNCHANGED <<source, peeked, call, returned>>, mode # "ready",
         mode' \in {"blanks", "line_comment", "block_comment", "word", "number"},
         Stay \/ Advance \/ AdvanceTwice, start' = start \/ start' = at, Walk'
  PROVE  IInv'
<1>1. at' \in Locations /\ Located(at)' /\ Bounded(at)'
  BY AtMoves
<1>2. start' \in Locations /\ Located(start') /\ Bounded(start')
  BY TypeFacts DEF IInv, PlacesRight, LocationsRight
<1>3. Located(start)' /\ Bounded(start)'
  <2> PICK x : x = start'
    OBVIOUS
  <2>1. Located(x)'
    BY <1>2, SourceStays
  <2> QED
    BY <1>2, <2>1 DEF Bounded
<1>4. TypeOK'
  BY <1>1, <1>2, SourceStays DEF IInv, TypeOK
<1>5. TakenExact' /\ TakenLocated'
  BY TakenStays
<1>6. PlacesRight'
  BY <1>1, <1>3, <1>5 DEF PlacesRight, LocationsRight, TakenLocated
<1>7. Unpeeked'
  BY DEF IInv, Unpeeked
<1> QED
  BY <1>4, <1>5, <1>6, <1>7 DEF IInv

\* What a call that ends with the token t does with it.
HandsOut(t) ==
  /\ mode' = "ready" /\ UNCHANGED <<source, call, start>>
  /\ IF call = "next" THEN Return(t) /\ UNCHANGED peeked ELSE peeked' = <<t>> /\ UNCHANGED returned

LEMMA OneMoreTaken ==
  ASSUME IInv, UNCHANGED source, NEW t \in Tokens, Taken' = Append(Taken, t),
         IsLexeme(t), Located(t.location), Blank(LastPast, First(t))
  PROVE  TakenExact' /\ TakenLocated' /\ LastPast' = Past(t)
<1>1. Taken \in Seq(Tokens) /\ Len(Taken) \in Nat /\ DOMAIN Taken = 1 .. Len(Taken)
  BY TakenFacts, Zenon DEF IInv
<1> PICK n : n = Len(Taken)
  OBVIOUS
<1>2. /\ Len(Taken') = n + 1 /\ DOMAIN Taken' = 1 .. n + 1 /\ Taken'[n + 1] = t
      /\ \A k \in 1 .. n : Taken'[k] = Taken[k]
  BY <1>1
<1>3. \A x : First(x)' = First(x) /\ Past(x)' = Past(x)
  BY DEF First, Past, LocatedBehind
<1>4. \A k \in 0 .. n : PastOf(k)' = PastOf(k)
  <2>1. ASSUME NEW k \in 1 .. n
        PROVE  Past(Taken[k])' = Past(Taken[k])
    BY <1>2 DEF Past, LocatedBehind
  <2> QED
    BY <1>1, <2>1 DEF PastOf
<1>5. ASSUME NEW k \in 1 .. n + 1
      PROVE  /\ Blank(PastOf(k - 1), First(Taken[k]))' /\ IsLexeme(Taken[k])'
             /\ Located(Taken[k].location)'
  <2> PICK i : i = PastOf(k - 1)
    OBVIOUS
  <2> PICK x : x = Taken'[k]
    OBVIOUS
  <2> PICK f : f = First(x)
    OBVIOUS
  <2>1. Blank(i, f) /\ IsLexeme(x) /\ Located(x.location)
    <3>1. CASE k = n + 1
      BY <1>1, <1>2, <3>1 DEF LastPast
    <3>2. CASE k \in 1 .. n
      BY <1>1, <1>2, <3>2 DEF IInv, TakenExact, PlacesRight, LocationsRight
    <3> QED
      BY <1>1, <3>1, <3>2
  <2>2. Blank(i, f)' /\ IsLexeme(x)' /\ Located(x.location)'
    BY <2>1, SourceStays, Zenon
  <2>3. PastOf(k - 1)' = i /\ First(x)' = f
    <3>1. k - 1 \in 0 .. n
      BY <1>1
    <3> QED
      BY <1>3, <1>4, <3>1
  <2> QED
    BY <2>2, <2>3, Zenon
<1>6. TakenExact' /\ TakenLocated'
  BY <1>2, <1>5 DEF TakenExact, TakenLocated
<1>7. LastPast' = Past(t)
  <2>1. n + 1 # 0
    BY <1>1
  <2>2. Past(Taken[n + 1])' = Past(t)
    BY <1>1, <1>2 DEF Past, LocatedBehind
  <2> QED
    BY <1>1, <1>2, <2>1, <2>2 DEF LastPast, PastOf
<1> QED
  BY <1>6, <1>7

LEMMA Completed ==
  ASSUME IInv, mode # "ready", Stay \/ Advance, NEW t \in Tokens, HandsOut(t),
         IsLexeme(t), Located(t.location), Blank(LastPast, First(t)), at'.offset = Past(t)
  PROVE  IInv'
<1>1. at' \in Locations /\ Located(at)' /\ Bounded(at)'
  BY AtMoves DEF HandsOut
<1>2. peeked = <<>> /\ Taken = returned /\ returned \in Seq(Tokens)
  BY TakenFacts, TypeFacts, Zenon DEF IInv, Unpeeked
<1>3. /\ returned' \in Seq(Tokens) /\ peeked' \in Seq(Tokens) /\ Len(peeked') <= 1
  <2>1. returned' \in Seq(Tokens)
    <3>1. Append(returned, t) \in Seq(Tokens)
      BY <1>2
    <3>2. returned' = returned \/ returned' = Append(returned, t)
      BY Zenon DEF HandsOut, Return
    <3> QED
      BY <1>2, <3>1, <3>2, Zenon
  <2>2. peeked' \in Seq(Tokens) /\ Len(peeked') <= 1
    <3>1. peeked' = <<>> \/ peeked' = <<t>>
      BY <1>2, Zenon DEF HandsOut
    <3>2. CASE peeked' = <<>>
      BY <3>2
    <3>3. CASE peeked' = <<t>>
      BY <3>3
    <3> QED
      BY <3>1, <3>2, <3>3
  <2> QED
    BY <2>1, <2>2
<1>4. TypeOK'
  BY <1>1, <1>3, SourceStays DEF IInv, TypeOK, HandsOut
<1>5. Located(start)' /\ Bounded(start)'
  <2> PICK x : x = start
    OBVIOUS
  <2>1. Located(x)'
    BY SourceStays DEF IInv, PlacesRight, HandsOut
  <2> QED
    BY <2>1 DEF HandsOut, IInv, PlacesRight, Bounded
<1>6. peeked' = <<>> => Taken' = returned'
  BY <1>3, ConcatEmptySeq, Zenon DEF Taken
<1>7. peeked' = <<t>> => Taken' = Append(returned', t)
  BY <1>3 DEF Taken
<1>8. TakenExact' /\ TakenLocated' /\ at'.offset = LastPast'
  <2>1. CASE Taken' = Append(Taken, t)
    BY <2>1, OneMoreTaken DEF HandsOut
  <2>2. CASE /\ returned # <<>> /\ returned[Len(returned)].type = "END_OF_FILE"
             /\ UNCHANGED <<peeked, returned>>
    <3>1. TakenExact' /\ TakenLocated' /\ LastPast' = LastPast
      BY <2>2, TakenStays DEF HandsOut
    <3>2. LastPast = Size
      BY <1>2, <2>2, AfterEnd
    <3>3. First(t) \in Int /\ Past(t) \in Nat /\ First(t) <= Past(t)
      BY LexemeFacts DEF IInv
    <3>4. Size <= First(t)
      BY <3>2, <3>3, TypeFacts, BlankOrder DEF IInv
    <3>5. at'.offset <= Size
      BY <1>1, TypeFacts DEF Locations, IInv
    <3> QED
      BY <3>1, <3>2, <3>3, <3>4, <3>5, TypeFacts DEF IInv
  <2> QED
    BY <1>2, <1>6, <1>7, <2>1, <2>2 DEF HandsOut, Return
<1>9. PlacesRight' /\ Unpeeked' /\ Walk'
  BY <1>1, <1>5, <1>8 DEF PlacesRight, LocationsRight, TakenLocated, Unpeeked, Walk, HandsOut
<1> QED
  BY <1>4, <1>8, <1>9 DEF IInv

-----------------------------------------------------------------------------
(* Calls *)

LEMMA InitInv == Init => IInv
<1> SUFFICES ASSUME Init PROVE IInv
  OBVIOUS
<1>1. source \in Seq(STRING) /\ Size \in Nat
  BY SourcesAssumption DEF Init, Size
<1>2. at = [line |-> 1, column |-> 1, offset |-> 0] /\ start = at
  BY DEF Init
<1>3. at \in Locations /\ Bounded(at)
  BY <1>1, <1>2 DEF Locations, Bounded
<1>4. TypeOK
  BY <1>1, <1>2, <1>3 DEF Init, TypeOK
<1>5. Taken = <<>> /\ Len(Taken) = 0 /\ DOMAIN Taken = {}
  BY DEF Init, Taken
<1>6. Newlines(0) = {}
  BY DEF Newlines
<1>7. Located(at)
  BY <1>2, <1>6, FS_EmptySet DEF Located
<1>8. PlacesRight /\ TakenExact
  BY <1>2, <1>3, <1>5, <1>7 DEF PlacesRight, LocationsRight, TakenExact
<1>9. Unpeeked /\ Walk
  BY <1>2, <1>5 DEF Init, Unpeeked, Walk, LastPast, PastOf
<1> QED
  BY <1>4, <1>8, <1>9 DEF IInv

LEMMA BeginInv == \A c \in {"next", "peek"} : IInv /\ Begin(c) => IInv'
<1> SUFFICES ASSUME NEW c \in {"next", "peek"}, IInv, Begin(c) PROVE IInv'
  OBVIOUS
<1>1. Stay /\ UNCHANGED <<source, peeked, returned>>
  BY DEF Begin, Stay
<1>2. at' \in Locations /\ Located(at)' /\ Bounded(at)'
  BY <1>1, AtMoves
<1>3. Located(start)' /\ Bounded(start)'
  <2> PICK x : x = start
    OBVIOUS
  <2>1. Located(x)'
    BY SourceStays DEF IInv, PlacesRight, Begin
  <2> QED
    BY <2>1 DEF Begin, IInv, PlacesRight, Bounded
<1>4. TypeOK'
  BY <1>2, SourceStays DEF IInv, TypeOK, Begin
<1>5. TakenExact' /\ TakenLocated' /\ LastPast' = LastPast
  BY <1>1, TakenStays
<1>6. Blank(LastPast, at.offset)'
  <2> PICK i : i = LastPast
    OBVIOUS
  <2>1. at.offset = i /\ i \in Nat
    BY LastPastFacts DEF IInv, Walk, Begin
  <2>2. Blank(i, i)'
    BY <2>1, BlankEmpty, SourceStays, <1>1
  <2> QED
    BY <1>1, <1>5, <2>1, <2>2 DEF Stay
<1>7. Unpeeked' /\ Walk' /\ PlacesRight'
  BY <1>2, <1>3, <1>5, <1>6
     DEF Unpeeked, Walk, Begin, PlacesRight, LocationsRight, TakenLocated
<1> QED
  BY <1>4, <1>5, <1>7 DEF IInv

LEMMA OnlyOne ==
  ASSUME NEW S, NEW s \in Seq(S), Len(s) <= 1, s # <<>>
  PROVE  s = <<s[1]>> /\ s[1] \in S
<1>1. Len(s) \in Nat /\ Len(s) # 0
  BY EmptySeq
<1>2. \A n \in Nat : n <= 1 /\ n # 0 => n = 1
  OBVIOUS
<1>3. Len(s) = 1
  BY <1>1, <1>2, Zenon
<1> QED
  BY <1>3

LEMMA TakePeekedInv == IInv /\ TakePeeked => IInv'
<1> SUFFICES ASSUME IInv, TakePeeked PROVE IInv'
  OBVIOUS
<1> PICK t : t = peeked[1]
  OBVIOUS
<1>1. peeked = <<t>> /\ t \in Tokens /\ returned \in Seq(Tokens)
  <2>1. peeked \in Seq(Tokens) /\ Len(peeked) <= 1 /\ returned \in Seq(Tokens) /\ peeked # <<>>
    BY DEF IInv, TypeOK, TakePeeked
  <2> QED
    BY <2>1, OnlyOne, Zenon
<1> PICK n : n = Len(returned)
  BY Zenon
<1>2. Taken = Append(returned, t) /\ Taken \in Seq(Tokens)
  BY <1>1, TakenFacts, Zenon DEF IInv
<1>3. /\ n \in Nat /\ DOMAIN returned = 1 .. n /\ Len(Taken) = n + 1 /\ Taken[n + 1] = t
      /\ DOMAIN Taken = 1 .. n + 1 /\ \A k \in 1 .. n : Taken[k] = returned[k]
  BY <1>1, <1>2
<1>4. peeked' = <<>> /\ Stay /\ UNCHANGED <<source, mode, call, start>>
  BY DEF TakePeeked, Stay
<1>5. /\ returned' \in Seq(Tokens)
      /\ \/ returned' = Taken
         \/ n # 0 /\ returned[n].type = "END_OF_FILE" /\ returned' = returned
  <2>1. returned = <<>> <=> n = 0
    BY <1>1, EmptySeq
  <2>2. \/ returned' = Append(returned, t)
        \/ returned # <<>> /\ returned[n].type = "END_OF_FILE" /\ returned' = returned
    BY Zenon DEF TakePeeked, Return
  <2> QED
    BY <1>1, <1>2, <2>1, <2>2, Zenon
<1>6. Taken' = returned'
  BY <1>4, <1>5, ConcatEmptySeq, Zenon DEF Taken
<1>7. TypeOK'
  <2>1. <<>> \in Seq(Tokens) /\ Len(<<>>) <= 1
    OBVIOUS
  <2> QED
    BY <1>4, <1>5, <2>1, SourceStays DEF IInv, TypeOK, Stay
<1>8. TakenExact' /\ TakenLocated' /\ at'.offset = LastPast'
  <2>1. mode = "ready" /\ at.offset = LastPast /\ at' = at
    BY <1>4 DEF TakePeeked, IInv, Walk, Stay
  <2>2. CASE returned' = Taken
    <3>1. TakenExact' /\ TakenLocated' /\ LastPast' = PastOf(n + 1)
      BY <1>3, <1>4, <1>6, <2>2, TakenPrefix
    <3> QED
      BY <1>3, <2>1, <3>1 DEF LastPast
  <2>3. CASE n # 0 /\ returned[n].type = "END_OF_FILE" /\ returned' = returned
    <3>1. TakenExact' /\ TakenLocated' /\ LastPast' = PastOf(n)
      BY <1>3, <1>4, <1>6, <2>3, TakenPrefix
    <3>2. Taken[n].type = "END_OF_FILE" /\ Taken[n] \in Tokens /\ IsLexeme(Taken[n])
      BY <1>3, <2>3, LastPastFacts
    <3>3. PastOf(n) = Size
      BY <2>3, <3>2, LexemeFacts DEF IInv, PastOf
    <3>4. IsLexeme(t) /\ Blank(PastOf(n), First(t))
      <4> PICK m : m = n + 1
        OBVIOUS
      <4>1. m \in DOMAIN Taken /\ m - 1 = n /\ Taken[m] = t
        BY <1>3
      <4> QED
        BY <4>1 DEF IInv, TakenExact
    <3>5. First(t) \in Int /\ Past(t) \in Nat /\ First(t) <= Past(t)
      BY <1>1, <3>4, LexemeFacts DEF IInv
    <3>6. Size <= First(t)
      BY <3>3, <3>4, <3>5, BlankOrder, TypeFacts DEF IInv
    <3>7. LastPast = Past(t)
      BY <1>3 DEF LastPast, PastOf
    <3> QED
      BY <2>1, <3>1, <3>3, <3>5, <3>6, <3>7, TypeFacts DEF IInv
  <2> QED
    BY <1>5, <2>2, <2>3
<1>9. at' \in Locations /\ Located(at)' /\ Bounded(at)'
  BY <1>4, AtMoves
<1>10. Located(start)' /\ Bounded(start)'
  <2> PICK x : x = start
    OBVIOUS
  <2>1. Located(x)'
    BY SourceStays, <1>4 DEF IInv, PlacesRight
  <2> QED
    BY <1>4, <2>1 DEF IInv, PlacesRight, Bounded
<1>11. PlacesRight' /\ Unpeeked' /\ Walk'
  BY <1>4, <1>8, <1>9, <1>10
     DEF PlacesRight, LocationsRight, TakenLocated, Unpeeked, Walk, TakePeeked
<1> QED
  BY <1>7, <1>8, <1>11 DEF IInv

-----------------------------------------------------------------------------
(* Spaces and comments *)

LEMMA AdvanceOffset ==
  ASSUME IInv
  PROVE  /\ Advance => at'.offset = IF at.offset < Size THEN at.offset + 1 ELSE at.offset
         /\ AdvanceTwice => at'.offset = IF at.offset + 1 < Size THEN at.offset + 2 ELSE Size
<1>1. /\ at \in Locations /\ source \in Seq(STRING) /\ Located(at) /\ Bounded(at)
      /\ Size \in Nat /\ at.offset \in Nat /\ at.offset <= Size
  BY TypeFacts DEF IInv, PlacesRight, LocationsRight
<1>2. /\ advance(at) \in Locations /\ Located(advance(at)) /\ Bounded(advance(at))
      /\ advance(at).offset = IF at.offset < Size THEN at.offset + 1 ELSE at.offset
  BY <1>1, AdvanceLocated
<1>3. advance(advance(at)).offset
        = IF advance(at).offset < Size THEN advance(at).offset + 1 ELSE advance(at).offset
  BY <1>1, <1>2, AdvanceLocated
<1> QED
  BY <1>1, <1>2, <1>3 DEF Advance, AdvanceTwice

LEMMA SkipSpaceInv == IInv /\ SkipSpace => IInv'
<1> SUFFICES ASSUME IInv, SkipSpace PROVE IInv'
  OBVIOUS
<1> PICK i : i = LastPast
  OBVIOUS
<1> PICK j : j = at.offset
  OBVIOUS
<1>1. /\ mode = "blanks" /\ mode' = "blanks" /\ UNCHANGED <<source, peeked, call, start, returned>>
      /\ Advance /\ isspace(Char(j))
  BY CharFacts DEF SkipSpace, Continue, IInv
<1>2. i \in Nat /\ j \in Nat /\ Size \in Nat /\ j < Size /\ at'.offset = j + 1
  BY <1>1, LastPastFacts, TypeFacts, CharFacts, Classes, AdvanceOffset DEF IInv
<1>3. Blank(i, j + 1)
  <2>1. Skipped(j, j + 1)
    BY <1>1 DEF Skipped
  <2>2. Blank(i, j)
    BY <1>1 DEF IInv, Walk
  <2> QED
    BY <1>2, <2>1, <2>2, BlankMore
<1>4. LastPast' = i
  BY <1>1, TakenStays
<1>5. Blank(LastPast, at.offset)'
  BY <1>1, <1>2, <1>3, <1>4, SourceStays
<1>6. Walk'
  BY <1>1, <1>5 DEF Walk
<1> QED
  BY <1>1, <1>6, Inside

LEMMA SkipCommentInv == IInv /\ SkipComment => IInv'
<1> SUFFICES ASSUME IInv, SkipComment PROVE IInv'
  OBVIOUS
<1> PICK i : i = LastPast
  OBVIOUS
<1> PICK j : j = at.offset
  OBVIOUS
<1>1. /\ mode = "blanks" /\ UNCHANGED <<source, peeked, call, start, returned>> /\ AdvanceTwice
      /\ Char(j) = "/"
      /\ \/ Char(j + 1) = "/" /\ mode' = "line_comment"
         \/ Char(j + 1) = "*" /\ mode' = "block_comment"
  BY CharFacts DEF SkipComment, OpensLine, OpensBlock, Continue, IInv
<1>2. /\ i \in Nat /\ j \in Nat /\ Size \in Nat /\ j + 1 < Size /\ at'.offset = j + 2
  BY <1>1, LastPastFacts, TypeFacts, CharFacts, AdvanceOffset DEF IInv
<1>3. Blank(i, j)'
  BY <1>1, SourceStays DEF IInv, Walk
<1>4. LastPast' = i
  BY <1>1, TakenStays
<1>5. Char(j)' = Char(j) /\ Char(j + 1)' = Char(j + 1)
  BY <1>1, SourceStays
<1>6. j + 2 .. at'.offset - 1 = {} /\ j + 2 <= at'.offset
  BY <1>2
<1>7. mode' = "line_comment" => InLine(j)'
  BY <1>1, <1>3, <1>4, <1>5, <1>6 DEF InLine
<1>8. mode' = "block_comment" => InBlock(j)'
  BY <1>1, <1>3, <1>4, <1>5, <1>6 DEF InBlock
<1>9. Walk'
  BY <1>1, <1>2, <1>7, <1>8 DEF Walk
<1> QED
  BY <1>1, <1>9, Inside

LEMMA skip_line_commentInv == IInv /\ skip_line_comment => IInv'
<1> SUFFICES ASSUME IInv, skip_line_comment PROVE IInv'
  OBVIOUS
<1> PICK i : i = LastPast
  OBVIOUS
<1> PICK j : j = at.offset
  OBVIOUS
<1>1. mode = "line_comment" /\ UNCHANGED <<source, peeked, call, start, returned>>
  BY DEF skip_line_comment, Continue
<1>2. PICK k \in Nat :
        /\ Blank(i, k) /\ k + 2 <= j /\ Char(k) = "/" /\ Char(k + 1) = "/"
        /\ \A m \in k + 2 .. j - 1 : Char(m) # "\n"
  BY <1>1 DEF IInv, Walk, InLine
<1>3. i \in Nat /\ j \in Nat /\ Size \in Nat /\ j <= Size /\ LastPast' = i
  BY <1>1, LastPastFacts, TypeFacts, TakenStays DEF IInv
<1>4. CASE (j = Size \/ Char(j) = "\n") /\ Stay /\ mode' = "blanks"
  <2>1. LineComment(k, j)
    BY <1>2, <1>3, <1>4 DEF LineComment
  <2>2. Blank(i, j)
    BY <1>2, <1>3, <2>1, BlankMore DEF Skipped
  <2>3. Blank(i, j)'
    BY <1>1, <2>2, SourceStays
  <2>4. Walk'
    BY <1>3, <1>4, <2>3 DEF Walk, Stay
  <2> QED
    BY <1>1, <1>4, <2>4, Inside
<1>5. CASE j # Size /\ Char(j) # "\n" /\ Advance /\ mode' = "line_comment"
  <2>1. at'.offset = j + 1
    BY <1>3, <1>5, AdvanceOffset
  <2>2. \A m \in k + 2 .. j + 1 - 1 : Char(m)' # "\n"
    BY <1>1, <1>2, <1>3, <1>5, SourceStays
  <2>3. Blank(i, k)' /\ Char(k)' = "/" /\ Char(k + 1)' = "/" /\ k + 2 <= j + 1
    BY <1>1, <1>2, <1>3, SourceStays
  <2>4. InLine(k)'
    BY <1>3, <2>1, <2>2, <2>3 DEF InLine
  <2>5. Walk'
    BY <1>5, <2>4 DEF Walk
  <2> QED
    BY <1>1, <1>5, <2>5, Inside
<1> QED
  BY <1>4, <1>5, CharFacts DEF skip_line_comment, Continue, IInv

LEMMA skip_block_commentInv == IInv /\ skip_block_comment => IInv'
<1> SUFFICES ASSUME IInv, skip_block_comment PROVE IInv'
  OBVIOUS
<1> PICK i : i = LastPast
  OBVIOUS
<1> PICK j : j = at.offset
  OBVIOUS
<1>1. mode = "block_comment" /\ UNCHANGED <<source, peeked, call, start, returned>>
  BY DEF skip_block_comment, Continue
<1>2. PICK k \in Nat :
        /\ Blank(i, k) /\ k + 2 <= j /\ Char(k) = "/" /\ Char(k + 1) = "*"
        /\ \A m \in k + 2 .. j - 1 : ~Closes(m)
  BY <1>1 DEF IInv, Walk, InBlock
<1>3. i \in Nat /\ j \in Nat /\ Size \in Nat /\ j <= Size /\ LastPast' = i
  BY <1>1, LastPastFacts, TypeFacts, TakenStays DEF IInv
<1>4. CASE j = Size /\ Stay /\ mode' = "blanks"
  <2>1. BlockComment(k, j)
    BY <1>2, <1>3, <1>4 DEF BlockComment
  <2>2. Blank(i, j)
    BY <1>2, <1>3, <2>1, BlankMore DEF Skipped
  <2>3. Blank(i, j)'
    BY <1>1, <2>2, SourceStays
  <2>4. Walk'
    BY <1>3, <1>4, <2>3, Zenon DEF Walk, Stay
  <2> QED
    BY <1>1, <1>4, <2>4, Inside
<1>5. CASE Closes(j) /\ AdvanceTwice /\ mode' = "blanks"
  <2>1. j + 1 < Size
    BY <1>5, CharFacts DEF Closes, IInv
  <2>2. at'.offset = j + 2
    BY <1>3, <1>5, <2>1, AdvanceOffset
  <2>3. BlockComment(k, j + 2)
    <3> PICK e : e = j + 2
      OBVIOUS
    <3>1. e - 2 = j /\ e \in k + 2 .. Size /\ e >= k + 4 /\ e - 3 = j - 1
      BY <1>2, <1>3, <2>1
    <3>2. Closes(e - 2) /\ \A m \in k + 2 .. e - 3 : ~Closes(m)
      BY <1>2, <1>5, <3>1
    <3> QED
      BY <1>2, <3>1, <3>2 DEF BlockComment
  <2>4. Blank(i, j + 2)
    BY <1>2, <1>3, <2>3, BlankMore DEF Skipped
  <2>5. Blank(i, j + 2)'
    BY <1>1, <2>4, SourceStays
  <2>6. Walk'
    BY <1>3, <1>5, <2>2, <2>5 DEF Walk
  <2> QED
    BY <1>1, <1>5, <2>6, Inside
<1>6. CASE j # Size /\ ~Closes(j) /\ Advance /\ mode' = "block_comment"
  <2>1. at'.offset = j + 1
    BY <1>3, <1>6, AdvanceOffset
  <2>2. \A m \in k + 2 .. j + 1 - 1 : ~Closes(m)'
    BY <1>1, <1>2, <1>3, <1>6, SourceStays
  <2>3. Blank(i, k)' /\ Char(k)' = "/" /\ Char(k + 1)' = "*" /\ k + 2 <= j + 1
    BY <1>1, <1>2, <1>3, SourceStays
  <2>4. InBlock(k)'
    BY <1>3, <2>1, <2>2, <2>3 DEF InBlock
  <2>5. Walk'
    BY <1>6, <2>4 DEF Walk
  <2> QED
    BY <1>1, <1>6, <2>5, Inside
<1>7. ClosesBlock <=> Closes(j)
  BY CharFacts DEF ClosesBlock, Closes, IInv
<1> QED
  BY <1>4, <1>5, <1>6, <1>7, CharFacts DEF skip_block_comment, Continue, IInv

-----------------------------------------------------------------------------
(* Tokens *)

LEMMA TypesOfTokens ==
  /\ {"END_OF_FILE", "NUMBER", "INVALID", "IDENTIFIER"} \subseteq TokenTypes
  /\ \A word : keyword_or_identifier(word) \in TokenTypes
  /\ \A c \in DOMAIN Symbols : Symbols[c] \in SymbolTypes /\ Symbols[c] \in TokenTypes
<1>1. \A c \in DOMAIN Symbols : Symbols[c] \in SymbolTypes
  BY Zenon DEF SymbolTypes
<1>2. \A word \in DOMAIN keywords : keywords[word] \in TokenTypes
  BY Zenon DEF TokenTypes
<1> QED
  BY <1>1, <1>2, Zenon DEF TokenTypes, keyword_or_identifier

LEMMA ATokenOf ==
  ASSUME NEW type \in TokenTypes, NEW text \in Seq(STRING), NEW location \in Locations
  PROVE  [type |-> type, text |-> text, location |-> location] \in Tokens
  BY DEF Tokens

\* Where a token is looked for, only blanks are behind.
LEMMA AtTokenFacts ==
  ASSUME IInv, AtToken
  PROVE  /\ mode = "blanks" /\ Blank(LastPast, at.offset) /\ ~isspace(Char(at.offset))
         /\ Char(at.offset) = "/" => Char(at.offset + 1) \notin {"/", "*"}
  BY CharFacts DEF AtToken, OpensLine, OpensBlock, IInv, Walk

LEMMA EndOfFileInv == IInv /\ EndOfFile => IInv'
<1> SUFFICES ASSUME IInv, EndOfFile PROVE IInv'
  OBVIOUS
<1> DEFINE t == [type |-> "END_OF_FILE", text |-> <<>>, location |-> at]
<1>1. HandsOut(t) /\ Stay /\ mode = "blanks" /\ Blank(LastPast, at.offset) /\ at.offset = Size
  BY AtTokenFacts, CharFacts DEF EndOfFile, Complete, HandsOut, IInv
<1>2. at \in Locations /\ Located(at) /\ Size \in Nat
  BY TypeFacts DEF IInv, PlacesRight, LocationsRight
<1>3. t \in Tokens
  <2>1. <<>> \in Seq(STRING)
    OBVIOUS
  <2> QED
    BY <1>2, <2>1, ATokenOf, TypesOfTokens, Zenon
<1>4. ~LocatedBehind(t)
  BY DEF LocatedBehind, SymbolTypes, Symbols
<1>5. First(t) = Size /\ Past(t) = Size
  BY <1>1, <1>2, <1>4 DEF First, Past
<1>6. IsLexeme(t)
  BY <1>5 DEF IsLexeme, IsEnd
<1> HIDE DEF t
<1>7. Located(t.location) /\ at'.offset = Past(t)
  BY <1>1, <1>2, <1>5 DEF Stay, t
<1> QED
  BY <1>1, <1>3, <1>5, <1>6, <1>7, Completed

\* A token of the one character that is stepped over.
LEMMA OneCharacter ==
  ASSUME IInv, AtToken, at.offset < Size, Advance, NEW t \in Tokens, HandsOut(t),
         LocatedBehind(t), t.location = advance(at), IsSymbol(t) \/ IsInvalid(t)
  PROVE  IInv'
<1>1. /\ at \in Locations /\ source \in Seq(STRING) /\ Located(at) /\ Bounded(at)
      /\ at.offset \in Nat
  BY TypeFacts DEF IInv, PlacesRight, LocationsRight
<1>2. Located(advance(at)) /\ advance(at).offset = at.offset + 1
  BY <1>1, AdvanceLocated
<1>3. First(t) = at.offset /\ Past(t) = at.offset + 1
  BY <1>1, <1>2 DEF First, Past
<1>4. Blank(LastPast, First(t)) /\ mode # "ready"
  BY <1>3, AtTokenFacts
<1>5. IsLexeme(t)
  BY DEF IsLexeme
<1>6. at'.offset = Past(t)
  BY <1>2, <1>3 DEF Advance
<1> QED
  BY <1>2, <1>4, <1>5, <1>6, Completed

LEMMA SymbolInv == IInv /\ Symbol => IInv'
<1> SUFFICES ASSUME IInv, Symbol PROVE IInv'
  OBVIOUS
<1> PICK c : c = Char(at.offset)
  OBVIOUS
<1> DEFINE t == [type |-> Symbols[c], text |-> <<c>>, location |-> advance(at)]
<1>1. HandsOut(t) /\ Advance /\ AtToken /\ c \in DOMAIN Symbols
  BY CharFacts DEF Symbol, Complete, HandsOut, IInv
<1>2. /\ at \in Locations /\ source \in Seq(STRING) /\ Located(at) /\ Bounded(at)
      /\ at.offset \in Nat /\ at.offset < Size
  BY <1>1, TypeFacts, CharFacts, Classes DEF IInv, PlacesRight, LocationsRight
<1>3. advance(at) \in Locations /\ advance(at).offset = at.offset + 1
  BY <1>2, AdvanceLocated
<1>4. Symbols[c] \in TokenTypes /\ Symbols[c] \in SymbolTypes
  BY <1>1, TypesOfTokens, Zenon
<1>5. t \in Tokens
  <2>1. c \in STRING
    BY <1>2, CharFacts DEF IInv, Size
  <2>2. <<c>> \in Seq(STRING)
    BY <2>1
  <2> QED
    BY <1>3, <1>4, <2>2, ATokenOf, Zenon
<1>6. LocatedBehind(t)
  BY <1>4 DEF LocatedBehind
<1>7. First(t) = at.offset
  BY <1>2, <1>3, <1>6 DEF First
<1>8. IsSymbol(t)
  BY <1>1, <1>7 DEF IsSymbol
<1> HIDE DEF t
<1>9. t.location = advance(at)
  BY DEF t
<1> QED
  BY <1>1, <1>2, <1>5, <1>6, <1>8, <1>9, OneCharacter

LEMMA InvalidInv == IInv /\ Invalid => IInv'
<1> SUFFICES ASSUME IInv, Invalid PROVE IInv'
  OBVIOUS
<1> PICK j : j = at.offset
  OBVIOUS
<1> DEFINE t == [type |-> "INVALID", text |-> <<>>, location |-> advance(at)]
<1>1. /\ HandsOut(t) /\ Advance /\ AtToken /\ j # Size
      /\ Char(j) \notin DOMAIN Symbols /\ ~is_identifier_continue(Char(j))
      /\ Char(j) = "-" => ~is_digit(Char(j + 1))
  BY CharFacts, Classes DEF Invalid, Complete, HandsOut, IInv, StartsNumber
<1>2. /\ at \in Locations /\ source \in Seq(STRING) /\ Located(at) /\ Bounded(at)
      /\ j \in Nat /\ j < Size
  <2>1. at \in Locations /\ source \in Seq(STRING) /\ j \in Nat /\ j <= Size /\ Size \in Nat
    BY TypeFacts DEF IInv
  <2> QED
    <3>1. Located(at) /\ Bounded(at)
      BY DEF IInv, PlacesRight, LocationsRight
    <3>2. j < Size
      BY <1>1, <2>1
    <3> QED
      BY <2>1, <3>1, <3>2, Zenon
<1>3. advance(at) \in Locations /\ advance(at).offset = j + 1
  BY <1>2, AdvanceLocated
<1>4. t \in Tokens
  <2>1. <<>> \in Seq(STRING)
    OBVIOUS
  <2> QED
    BY <1>3, <2>1, ATokenOf, TypesOfTokens, Zenon
<1>5. LocatedBehind(t)
  BY DEF LocatedBehind
<1>6. First(t) = j /\ Past(t) = j + 1
  BY <1>2, <1>3, <1>5 DEF First, Past
<1>7. IsInvalid(t)
  BY <1>1, <1>6, AtTokenFacts DEF IsInvalid
<1> HIDE DEF t
<1>8. t.location = advance(at)
  BY DEF t
<1> QED
  BY <1>1, <1>2, <1>4, <1>5, <1>7, <1>8, OneCharacter

LEMMA StartWordInv == IInv /\ StartWord => IInv'
<1> SUFFICES ASSUME IInv, StartWord PROVE IInv'
  OBVIOUS
<1> PICK i : i = LastPast
  OBVIOUS
<1> PICK j : j = at.offset
  OBVIOUS
<1>1. /\ AtToken /\ is_identifier_start(Char(j)) /\ mode' = "word" /\ start' = at /\ Stay
      /\ UNCHANGED <<source, peeked, call, returned>>
  BY CharFacts DEF StartWord, Stay, IInv
<1>2. j \in Nat /\ mode = "blanks" /\ Blank(i, j) /\ LastPast' = i
  BY <1>1, TypeFacts, AtTokenFacts, TakenStays DEF IInv
<1>3. start'.offset = j /\ at'.offset = j /\ j .. j - 1 = {} /\ j <= j
  BY <1>1, <1>2 DEF Stay
<1>4. Blank(i, j)' /\ Char(j)' = Char(j)
  BY <1>1, <1>2, SourceStays
<1>5. InWord'
  BY <1>1, <1>2, <1>3, <1>4 DEF InWord, is_identifier_start
<1>6. Walk'
  BY <1>1, <1>5 DEF Walk
<1> QED
  BY <1>1, <1>2, <1>6, Inside

LEMMA StartNumberInv == IInv /\ StartNumber => IInv'
<1> SUFFICES ASSUME IInv, StartNumber PROVE IInv'
  OBVIOUS
<1> PICK i : i = LastPast
  OBVIOUS
<1> PICK j : j = at.offset
  OBVIOUS
<1>1. /\ AtToken /\ mode' = "number" /\ start' = at /\ UNCHANGED <<source, peeked, call, returned>>
      /\ is_digit(Char(j)) \/ (Char(j) = "-" /\ is_digit(Char(j + 1)))
      /\ IF Char(j) = "-" THEN Advance ELSE Stay
  BY CharFacts DEF StartNumber, StartsNumber, Stay, Advance, IInv
<1>2. j \in Nat /\ mode = "blanks" /\ Blank(i, j) /\ LastPast' = i /\ start'.offset = j /\ Size \in Nat
  BY <1>1, TypeFacts, AtTokenFacts, TakenStays DEF IInv
<1>3. Blank(i, j)' /\ Char(j)' = Char(j) /\ Char(j + 1)' = Char(j + 1)
  BY <1>1, <1>2, SourceStays
<1>4. CASE Char(j) = "-"
  <2>1. ~is_digit(Char(j))
    BY <1>4 DEF is_digit, Digits
  <2>2. j < Size /\ at'.offset = j + 1
    BY <1>1, <1>2, <1>4, CharFacts, AdvanceOffset DEF IInv
  <2>3. j <= j + 1 /\ j < j + 1 /\ j + 1 .. (j + 1) - 1 = {}
    BY <1>2
  <2> QED
    <3>1. InNumber'
      BY <1>1, <1>2, <1>3, <1>4, <2>1, <2>2, <2>3 DEF InNumber, is_digit
    <3>2. Walk'
      BY <1>1, <3>1 DEF Walk
    <3> QED
      BY <1>1, <1>2, <1>4, <3>2, Inside
<1>5. CASE Char(j) # "-"
  <2>1. is_digit(Char(j)) /\ Stay /\ at'.offset = j
    BY <1>1, <1>5 DEF Stay
  <2>2. j <= j /\ j + 1 .. j - 1 = {}
    BY <1>2
  <2>3. InNumber'
    BY <1>2, <1>3, <2>1, <2>2 DEF InNumber, is_digit
  <2>4. Walk'
    BY <1>1, <2>3 DEF Walk
  <2> QED
    BY <1>1, <1>2, <2>1, <2>4, Inside
<1> QED
  BY <1>4, <1>5

\* What has been read of a word or a number.
LEMMA TextFacts ==
  ASSUME TypeOK, start.offset < at.offset
  PROVE  /\ Text \in Seq(STRING) /\ Len(Text) = at.offset - start.offset /\ Text # <<>>
         /\ \A k \in 1 .. at.offset - start.offset : Text[k] = Char(start.offset + k - 1)
<1> PICK s : s = start.offset
  OBVIOUS
<1> PICK j : j = at.offset
  OBVIOUS
<1>1. source \in Seq(STRING) /\ Size \in Nat /\ Len(source) = Size /\ s \in Nat /\ j \in Nat /\ s < j /\ j <= Size
  BY TypeFacts
<1>2. Text = SubSeq(source, s + 1, j)
  BY DEF Text
<1>3. Text \in Seq(STRING) /\ Len(Text) = j - s /\ \A k \in 1 .. j - s : Text[k] = source[s + 1 + k - 1]
  <2> PICK m : m = s + 1
    OBVIOUS
  <2>1. m \in Int /\ j \in Int /\ m <= j /\ \A k \in m .. j : source[k] \in STRING
    BY <1>1
  <2>2. /\ SubSeq(source, m, j) \in Seq(STRING)
        /\ Len(SubSeq(source, m, j)) = j - m + 1
        /\ \A k \in 1 .. j - m + 1 : SubSeq(source, m, j)[k] = source[m + k - 1]
    BY <2>1, SubSeqProperties
  <2>3. j - m + 1 = j - s
    BY <1>1, <2>1
  <2> QED
    BY <1>2, <2>2, <2>3, Zenon
<1>4. ASSUME NEW k \in 1 .. j - s
      PROVE  Text[k] = Char(s + k - 1)
  <2>1. s + 1 + k - 1 = s + k /\ s + k - 1 + 1 = s + k /\ s + k - 1 \in Nat /\ s + k - 1 < Size
    BY <1>1
  <2> QED
    BY <1>3, <2>1 DEF Char
<1>5. Text # <<>>
  BY <1>1, <1>3
<1> QED
  BY <1>3, <1>4, <1>5

\* A token of the text from the start to here.
LEMMA Spelled ==
  ASSUME IInv, mode # "ready", Stay, Blank(LastPast, start.offset), start.offset < at.offset,
         NEW type \in TokenTypes, type \notin {"INVALID"} \cup SymbolTypes,
         NEW t, t = [type |-> type, text |-> Text, location |-> start],
         HandsOut(t), IsNumber(t) \/ IsWord(t)
  PROVE  IInv'
<1>1. Text \in Seq(STRING) /\ Len(Text) = at.offset - start.offset /\ Text # <<>>
  BY TextFacts DEF IInv
<1>2. start \in Locations /\ Located(start) /\ start.offset \in Nat /\ at.offset \in Nat
  BY TypeFacts DEF IInv, PlacesRight
<1>3. t \in Tokens
  BY <1>1, <1>2, ATokenOf
<1>4. t.text = Text /\ t.location = start /\ t.type = type
  OBVIOUS
<1>5. ~LocatedBehind(t)
  BY <1>4 DEF LocatedBehind
<1>6. First(t) = start.offset /\ Past(t) = at.offset
  BY <1>1, <1>2, <1>4, <1>5 DEF First, Past
<1>7. IsLexeme(t)
  BY <1>1, <1>4 DEF IsLexeme
<1>8. at'.offset = Past(t) /\ Blank(LastPast, First(t)) /\ Located(t.location)
  BY <1>2, <1>4, <1>6 DEF Stay
<1> QED
  BY <1>3, <1>7, <1>8, Completed

\* The text is the one between the ends of its token.
LEMMA SpelledIsText ==
  ASSUME TypeOK, start.offset < at.offset, NEW type, type \notin {"INVALID"} \cup SymbolTypes,
         NEW t, t = [type |-> type, text |-> Text, location |-> start]
  PROVE  IsText(t) /\ Past(t) = at.offset
<1>1. Len(Text) = at.offset - start.offset /\ start.offset \in Nat /\ at.offset \in Nat
  BY TextFacts, TypeFacts
<1>2. t.text = Text /\ t.location = start /\ t.type = type
  OBVIOUS
<1>3. ~LocatedBehind(t)
  BY <1>2 DEF LocatedBehind
<1>4. First(t) = start.offset /\ Past(t) = at.offset
  BY <1>1, <1>2, <1>3 DEF First, Past
<1> QED
  BY <1>2, <1>4, Zenon DEF IsText, Text

LEMMA read_identifier_or_keywordInv == IInv /\ read_identifier_or_keyword => IInv'
<1> SUFFICES ASSUME IInv, read_identifier_or_keyword PROVE IInv'
  OBVIOUS
<1> PICK i : i = LastPast
  OBVIOUS
<1> PICK s : s = start.offset
  OBVIOUS
<1> PICK j : j = at.offset
  OBVIOUS
<1>1. /\ mode = "word" /\ Blank(i, s) /\ s <= j /\ is_identifier_start(Char(s))
      /\ \A m \in s .. j - 1 : is_identifier_continue(Char(m))
  BY DEF read_identifier_or_keyword, IInv, Walk, InWord
<1>2. s \in Nat /\ j \in Nat /\ Size \in Nat /\ j <= Size
  BY TypeFacts DEF IInv
<1>3. CASE is_identifier_continue(Char(j)) /\ Advance /\ Continue("word")
  <2>1. UNCHANGED <<source, peeked, call, start, returned>> /\ mode' = "word"
    BY <1>3 DEF Continue
  <2>2. Char(j) # "nul"
    BY <1>3, Classes
  <2>3. at'.offset = j + 1 /\ LastPast' = i /\ start'.offset = s
    BY <1>2, <1>3, <2>1, <2>2, CharFacts, AdvanceOffset, TakenStays DEF IInv
  <2>4. \A m \in s .. j + 1 - 1 : is_identifier_continue(Char(m))'
    BY <1>1, <1>2, <1>3, <2>1, SourceStays DEF is_identifier_continue
  <2>5. Blank(i, s)' /\ is_identifier_start(Char(s))' /\ s <= j + 1
    BY <1>1, <1>2, <2>1, SourceStays DEF is_identifier_start
  <2>6. InWord'
    <3>1. start'.offset .. at'.offset - 1 = s .. j + 1 - 1
      BY <1>2, <2>3
    <3>2. \A m \in start'.offset .. at'.offset - 1 : is_identifier_continue(Char(m))'
      BY <2>4, <3>1, Zenon
    <3>3. Blank(LastPast, start.offset)' /\ is_identifier_start(Char(start.offset))'
      BY <2>3, <2>5
    <3> QED
      BY <2>3, <2>5, <3>2, <3>3 DEF InWord
  <2>7. Walk'
    BY <2>1, <2>6 DEF Walk
  <2> QED
    BY <1>1, <1>3, <2>1, <2>7, Inside
<1>4. CASE ~is_identifier_continue(Char(j)) /\ Stay /\ Complete(keyword_or_identifier(Text), Text, start)
  <2> PICK type : type = keyword_or_identifier(Text)
    OBVIOUS
  <2> PICK t : t = [type |-> type, text |-> Text, location |-> start]
    BY Zenon
  <2>1. HandsOut(t)
    BY <1>4 DEF Complete, HandsOut
  <2>2. type \in TokenTypes
    BY TypesOfTokens
  <2>3. type \notin {"INVALID"} \cup SymbolTypes
    <3>1. "IDENTIFIER" \notin SymbolTypes
      BY DEF SymbolTypes, Symbols
    <3> QED
      BY <3>1, KeywordsAssumption DEF keyword_or_identifier
  <2>4. s < j
    BY <1>1, <1>2, <1>4, Classes
  <2>5. /\ Len(Text) = j - s /\ \A k \in 1 .. j - s : Text[k] = Char(s + k - 1)
    BY <2>4, TextFacts DEF IInv
  <2>6. t.text = Text /\ t.type = type
    OBVIOUS
  <2>7. \A k \in 1 .. Len(Text) : is_identifier_continue(Text[k])
    <3>1. ASSUME NEW k \in 1 .. j - s
          PROVE  s + k - 1 \in s .. j - 1
      BY <1>2
    <3> QED
      BY <1>1, <2>5, <3>1
  <2>8. is_identifier_start(Text[1])
    <3>1. 1 \in 1 .. j - s /\ s + 1 - 1 = s
      BY <1>2, <2>4
    <3> QED
      BY <1>1, <2>5, <3>1
  <2>9. IsText(t) /\ Past(t) = j
    BY <2>3, <2>4, SpelledIsText DEF IInv
  <2>10. IsWord(t)
    BY <1>4, <2>6, <2>7, <2>8, <2>9 DEF IsWord
  <2> QED
    BY <1>1, <1>4, <2>1, <2>2, <2>3, <2>4, <2>10, Spelled
<1> QED
  BY <1>3, <1>4, CharFacts DEF read_identifier_or_keyword, IInv

LEMMA read_numberInv == IInv /\ read_number => IInv'
<1> SUFFICES ASSUME IInv, read_number PROVE IInv'
  OBVIOUS
<1> PICK i : i = LastPast
  OBVIOUS
<1> PICK s : s = start.offset
  OBVIOUS
<1> PICK j : j = at.offset
  OBVIOUS
<1>1. /\ mode = "number" /\ Blank(i, s) /\ s <= j
      /\ is_digit(Char(s)) \/ (Char(s) = "-" /\ is_digit(Char(s + 1)) /\ s < j)
      /\ \A m \in s + 1 .. j - 1 : is_digit(Char(m))
  BY DEF read_number, IInv, Walk, InNumber
<1>2. s \in Nat /\ j \in Nat /\ Size \in Nat /\ j <= Size
  BY TypeFacts DEF IInv
<1>3. CASE is_digit(Char(j)) /\ Advance /\ Continue("number")
  <2>1. UNCHANGED <<source, peeked, call, start, returned>> /\ mode' = "number"
    BY <1>3 DEF Continue
  <2>2. Char(j) # "nul"
    BY <1>3, Classes
  <2>3. at'.offset = j + 1 /\ LastPast' = i /\ start'.offset = s
    BY <1>2, <1>3, <2>1, <2>2, CharFacts, AdvanceOffset, TakenStays DEF IInv
  <2>4. \A m \in s + 1 .. j + 1 - 1 : is_digit(Char(m))'
    BY <1>1, <1>2, <1>3, <2>1, SourceStays DEF is_digit
  <2>5. /\ Blank(i, s)' /\ s <= j + 1
        /\ is_digit(Char(s))' \/ (Char(s)' = "-" /\ is_digit(Char(s + 1))' /\ s < j + 1)
    BY <1>1, <1>2, <2>1, SourceStays DEF is_digit
  <2>6. InNumber'
    <3>1. start'.offset + 1 .. at'.offset - 1 = s + 1 .. j + 1 - 1
      BY <1>2, <2>3
    <3>2. \A m \in start'.offset + 1 .. at'.offset - 1 : is_digit(Char(m))'
      BY <2>4, <3>1, Zenon
    <3> QED
      BY <2>3, <2>5, <3>2 DEF InNumber
  <2>7. Walk'
    BY <2>1, <2>6 DEF Walk
  <2> QED
    BY <1>1, <1>3, <2>1, <2>7, Inside
<1>4. CASE ~is_digit(Char(j)) /\ Stay /\ Complete("NUMBER", Text, start)
  <2> PICK t : t = [type |-> "NUMBER", text |-> Text, location |-> start]
    BY Zenon
  <2>1. HandsOut(t)
    BY <1>4 DEF Complete, HandsOut
  <2>2. "NUMBER" \in TokenTypes /\ "NUMBER" \notin {"INVALID"} \cup SymbolTypes
    BY TypesOfTokens DEF SymbolTypes, Symbols
  <2>3. s < j /\ is_digit(Char(j - 1))
    <3>1. s # j
      BY <1>1, <1>2, <1>4
    <3>2. CASE j = s + 1
      BY <1>1, <1>2, <1>4, <3>2
    <3>3. CASE j > s + 1
      BY <1>1, <1>2, <3>3
    <3> QED
      BY <1>1, <1>2, <3>1, <3>2, <3>3
  <2>4. /\ Len(Text) = j - s /\ \A k \in 1 .. j - s : Text[k] = Char(s + k - 1)
    BY <2>3, TextFacts DEF IInv
  <2>5. t.text = Text /\ t.type = "NUMBER"
    OBVIOUS
  <2>6. \A k \in 2 .. Len(Text) : is_digit(Text[k])
    <3>1. ASSUME NEW k \in 2 .. j - s
          PROVE  s + k - 1 \in s + 1 .. j - 1 /\ k \in 1 .. j - s
      BY <1>2
    <3> QED
      BY <1>1, <2>4, <3>1
  <2>7. is_digit(Text[1]) \/ Text[1] = "-"
    <3>1. 1 \in 1 .. j - s /\ s + 1 - 1 = s
      BY <1>2, <2>3
    <3> QED
      BY <1>1, <2>4, <3>1
  <2>8. is_digit(Text[Len(Text)])
    <3>1. j - s \in 1 .. j - s /\ s + (j - s) - 1 = j - 1
      BY <1>2, <2>3
    <3> QED
      BY <2>3, <2>4, <3>1
  <2>9. IsText(t) /\ Past(t) = j
    BY <2>2, <2>3, SpelledIsText DEF IInv
  <2>10. IsNumber(t)
    BY <1>4, <2>5, <2>6, <2>7, <2>8, <2>9 DEF IsNumber
  <2> QED
    BY <1>1, <1>4, <2>1, <2>2, <2>3, <2>10, Spelled
<1> QED
  BY <1>3, <1>4, CharFacts DEF read_number, IInv

-----------------------------------------------------------------------------
(* The theorems *)

LEMMA StutterInv == IInv /\ UNCHANGED vars => IInv'
<1> SUFFICES ASSUME IInv, UNCHANGED vars PROVE IInv'
  OBVIOUS
<1>1. /\ UNCHANGED <<source, peeked, returned>> /\ mode' = mode /\ call' = call /\ at' = at /\ start' = start
  BY DEF vars
<1>2. CASE mode = "ready"
  <2>1. at' \in Locations /\ Located(at)' /\ Bounded(at)'
    BY <1>1, AtMoves DEF Stay
  <2>2. Located(start)' /\ Bounded(start)'
    <3> PICK x : x = start
      OBVIOUS
    <3>1. Located(x)'
      BY <1>1, SourceStays DEF IInv, PlacesRight
    <3> QED
      BY <1>1, <3>1 DEF IInv, PlacesRight, Bounded
  <2>3. TypeOK'
    BY <1>1, SourceStays DEF IInv, TypeOK
  <2>4. TakenExact' /\ TakenLocated' /\ LastPast' = LastPast
    BY <1>1, TakenStays
  <2>5. PlacesRight' /\ Unpeeked' /\ Walk'
    BY <1>1, <1>2, <2>1, <2>2, <2>4
       DEF IInv, PlacesRight, LocationsRight, TakenLocated, Unpeeked, Walk
  <2> QED
    BY <2>3, <2>4, <2>5 DEF IInv
<1>3. CASE mode # "ready"
  <2>1. LastPast' = LastPast
    BY <1>1, TakenStays
  <2>2. ASSUME NEW k \in Nat, InLine(k)
        PROVE  InLine(k)'
    BY <1>1, <2>1, <2>2, SourceStays DEF InLine
  <2>3. ASSUME NEW k \in Nat, InBlock(k)
        PROVE  InBlock(k)'
    BY <1>1, <2>1, <2>3, SourceStays DEF InBlock
  <2>4. InWord => InWord'
    BY <1>1, <2>1, SourceStays DEF InWord, is_identifier_start, is_identifier_continue
  <2>5. InNumber => InNumber'
    BY <1>1, <2>1, SourceStays DEF InNumber, is_digit
  <2>6. Blank(LastPast, at.offset)' <=> Blank(LastPast, at.offset)
    BY <1>1, <2>1, SourceStays
  <2>7. Walk'
    BY <1>1, <1>3, <2>2, <2>3, <2>4, <2>5, <2>6 DEF IInv, Walk
  <2>8. mode' \in {"blanks", "line_comment", "block_comment", "word", "number"}
    BY <1>1, <1>3 DEF IInv, TypeOK
  <2> QED
    BY <1>1, <1>3, <2>7, <2>8, Inside DEF Stay
<1> QED
  BY <1>2, <1>3

LEMMA NextInv == IInv /\ [Next]_vars => IInv'
  BY TakePeekedInv, BeginInv, SkipSpaceInv, SkipCommentInv, skip_line_commentInv,
     skip_block_commentInv, EndOfFileInv, SymbolInv, InvalidInv, StartWordInv, StartNumberInv,
     read_identifier_or_keywordInv, read_numberInv, StutterInv
     DEF Next, Step

\* The inductive invariant of the lexer holds in every state, whatever the source,
\* the keywords and the mix of next_token() and peek_token().
THEOREM Invariance == Spec => []IInv
  BY InitInv, NextInv, PTL DEF Spec

\* The offset of the lexer and of its tokens stays inside the source, and at most
\* one token is peeked.
THEOREM TypeCorrect == Spec => []TypeOK
<1>1. IInv => TypeOK
  BY DEF IInv
<1> QED
  BY <1>1, Invariance, PTL

\* The tokens next_token() and peek_token() hand out are the lexemes of the source,
\* in order, each as long as possible, and between them are only spaces and comments.
THEOREM TokensAreTheLexemes == Spec => []LexemesExact
<1>1. IInv => LexemesExact
  BY DEF IInv, TakenExact, Walk, LastPast, LexemesExact
<1> QED
  BY <1>1, Invariance, PTL

\* advance() keeps line and column those of the offset, so every token is located
\* where it stands.
THEOREM LocationsAreRight == Spec => []LocationsRight
<1>1. IInv => LocationsRight
  BY DEF IInv, PlacesRight
<1> QED
  BY <1>1, Invariance, PTL
=============================================================================
