-------------------------------- MODULE Lexer --------------------------------
(***************************************************************************)
(* The Lexer: next_token() and peek_token() over a source text.  Each turn *)
(* of a loop over characters is a step, so that line and column are        *)
(* followed as the code follows them.                                      *)
(*                                                                         *)
(* A character stands for the class of characters the code treats alike.   *)
(* A token is [type, text, location]; a location is [line, column,         *)
(* offset], the offset counting the characters before it.                  *)
(***************************************************************************)
EXTENDS Integers, Sequences, FiniteSets

CONSTANTS Sources,    \* the source texts
          keywords    \* the words that are keywords, with their token types

Symbols == [semicolon |-> "SEMICOLON", equals |-> "EQUALS", lbrace |-> "LBRACE",
            rbrace |-> "RBRACE", dot |-> "DOT"]

SymbolTypes == {Symbols[c] : c \in DOMAIN Symbols}

ASSUME SourcesAssumption == Sources \subseteq Seq(STRING)

\* A keyword has a token type of its own.
ASSUME KeywordsAssumption ==
  \A word \in DOMAIN keywords :
    keywords[word] \notin {"END_OF_FILE", "NUMBER", "INVALID"} \cup SymbolTypes

VARIABLES
  source,     \* source_
  at,         \* line_, column_ and position_: where the lexer is
  peeked,     \* peeked_token_: at most one token
  mode,       \* "ready" between calls, else the loop that is running
  call,       \* the call that is running: "next" or "peek"
  start,      \* start_loc of the word or number that is being read
  returned    \* history: the tokens next_token() returned, the end of file once

vars == <<source, at, peeked, mode, call, start, returned>>

Letters == {"a", "underscore"}
Digits == {"0", "1"}
Spaces == {"space", "\n"}

is_identifier_start(c) == c \in Letters
is_digit(c) == c \in Digits
is_identifier_continue(c) == c \in Letters \cup Digits
isspace(c) == c \in Spaces

keyword_or_identifier(word) == IF word \in DOMAIN keywords THEN keywords[word] ELSE "IDENTIFIER"

Init ==
  /\ source \in Sources
  /\ at = [line |-> 1, column |-> 1, offset |-> 0]
  /\ peeked = <<>>
  /\ mode = "ready"
  /\ call = "next"
  /\ start = at
  /\ returned = <<>>

-----------------------------------------------------------------------------
(* Characters *)

is_at_end == at.offset >= Len(source)

\* "nul" stands for the '\0' the code returns beyond the end.
peek_char(n) == IF at.offset + n >= Len(source) THEN "nul" ELSE source[at.offset + n + 1]
current_char == peek_char(0)

\* A mistake: the columns of a new line count from zero.
advance_column_zero(loc) ==
  IF loc.offset >= Len(source) THEN loc
  ELSE IF source[loc.offset + 1] = "\n"
       THEN [line |-> loc.line + 1, column |-> 0, offset |-> loc.offset + 1]
       ELSE [line |-> loc.line, column |-> loc.column + 1, offset |-> loc.offset + 1]

\* A mistake: a new line does not start again at the first column.
advance_keeps_column(loc) ==
  IF loc.offset >= Len(source) THEN loc
  ELSE IF source[loc.offset + 1] = "\n"
       THEN [line |-> loc.line + 1, column |-> loc.column, offset |-> loc.offset + 1]
       ELSE [line |-> loc.line, column |-> loc.column + 1, offset |-> loc.offset + 1]

advance(loc) ==
  IF loc.offset >= Len(source) THEN loc
  ELSE IF source[loc.offset + 1] = "\n"
       THEN [line |-> loc.line + 1, column |-> 1, offset |-> loc.offset + 1]
       ELSE [line |-> loc.line, column |-> loc.column + 1, offset |-> loc.offset + 1]

Stay == at' = at
Advance == at' = advance(at)
AdvanceTwice == at' = advance(advance(at))

-----------------------------------------------------------------------------
(* Calls *)

Return(token) ==
  returned' = IF returned # <<>> /\ returned[Len(returned)].type = "END_OF_FILE"
              THEN returned ELSE Append(returned, token)

\* A mistake: next_token() leaves the peeked token where it is.
TakePeekedAgain ==
  /\ mode = "ready"
  /\ peeked # <<>>
  /\ Len(returned) <= Len(source) + 1
  /\ Return(peeked[1])
  /\ UNCHANGED <<source, at, peeked, mode, call, start>>

\* next_token() with a peeked token.
TakePeeked ==
  /\ mode = "ready"
  /\ peeked # <<>>
  /\ Return(peeked[1])
  /\ peeked' = <<>>
  /\ UNCHANGED <<source, at, mode, call, start>>

\* next_token() without, or peek_token(); peek_token() with a peeked token changes nothing.
Begin(c) ==
  /\ mode = "ready"
  /\ peeked = <<>>
  /\ mode' = "blanks"
  /\ call' = c
  /\ UNCHANGED <<source, at, peeked, start, returned>>

\* The call ends with a token: next_token() returns it, peek_token() keeps it as well.
Complete(type, text, location) ==
  LET token == [type |-> type, text |-> text, location |-> location]
  IN /\ mode' = "ready"
     /\ IF call = "next" THEN Return(token) /\ UNCHANGED peeked
                         ELSE peeked' = <<token>> /\ UNCHANGED returned
     /\ UNCHANGED <<source, call, start>>

Continue(m) == mode' = m /\ UNCHANGED <<source, peeked, call, start, returned>>

-----------------------------------------------------------------------------
(* skip_whitespace_and_comments *)

SkipSpace == mode = "blanks" /\ isspace(current_char) /\ Advance /\ Continue("blanks")

OpensLine == current_char = "/" /\ peek_char(1) = "/"
OpensBlock == current_char = "/" /\ peek_char(1) = "*"
ClosesBlock == current_char = "*" /\ peek_char(1) = "/"

SkipComment ==
  /\ mode = "blanks"
  /\ \/ OpensLine /\ Continue("line_comment")
     \/ OpensBlock /\ Continue("block_comment")
  /\ AdvanceTwice

\* The newline is left to the loop around.
skip_line_comment ==
  /\ mode = "line_comment"
  /\ IF is_at_end \/ current_char = "\n"
     THEN Stay /\ Continue("blanks")
     ELSE Advance /\ Continue("line_comment")

\* A mistake: the loop looks for the end of the comment only.
skip_block_comment_unbounded ==
  /\ mode = "block_comment"
  /\ IF ClosesBlock THEN AdvanceTwice /\ Continue("blanks")
                    ELSE Advance /\ Continue("block_comment")

\* A comment that is never closed ends with the source.
skip_block_comment ==
  /\ mode = "block_comment"
  /\ IF is_at_end THEN Stay /\ Continue("blanks")
     ELSE IF ClosesBlock THEN AdvanceTwice /\ Continue("blanks")
     ELSE Advance /\ Continue("block_comment")

-----------------------------------------------------------------------------
(* The rest of next_token *)

AtToken == mode = "blanks" /\ ~isspace(current_char) /\ ~OpensLine /\ ~OpensBlock

EndOfFile ==
  /\ AtToken /\ is_at_end
  /\ Stay
  /\ Complete("END_OF_FILE", <<>>, at)

\* make_token takes the location behind the character.
Symbol ==
  /\ AtToken
  /\ current_char \in DOMAIN Symbols
  /\ Advance
  /\ Complete(Symbols[current_char], <<current_char>>, advance(at))

StartsNumber == is_digit(current_char) \/ (current_char = "-" /\ is_digit(peek_char(1)))

\* The text of an INVALID token refers to a string that is gone when the call
\* returns, and nobody reads it.
Invalid ==
  /\ AtToken /\ ~is_at_end
  /\ current_char \notin DOMAIN Symbols
  /\ ~is_identifier_start(current_char) /\ ~StartsNumber
  /\ Advance
  /\ Complete("INVALID", <<>>, advance(at))

StartWord ==
  /\ AtToken
  /\ is_identifier_start(current_char)
  /\ mode' = "word"
  /\ start' = at
  /\ UNCHANGED <<source, at, peeked, call, returned>>

\* read_number steps over a sign first.
StartNumber ==
  /\ AtToken
  /\ StartsNumber
  /\ mode' = "number"
  /\ start' = at
  /\ at' = IF current_char = "-" THEN advance(at) ELSE at
  /\ UNCHANGED <<source, peeked, call, returned>>

Text == SubSeq(source, start.offset + 1, at.offset)

read_identifier_or_keyword ==
  /\ mode = "word"
  /\ IF is_identifier_continue(current_char) THEN Advance /\ Continue("word")
     ELSE Stay /\ Complete(keyword_or_identifier(Text), Text, start)

read_number ==
  /\ mode = "number"
  /\ IF is_digit(current_char) THEN Advance /\ Continue("number")
     ELSE Stay /\ Complete("NUMBER", Text, start)

Step ==
  \/ SkipSpace \/ SkipComment \/ skip_line_comment \/ skip_block_comment
  \/ EndOfFile \/ Symbol \/ Invalid \/ StartWord \/ StartNumber
  \/ read_identifier_or_keyword \/ read_number

Next == TakePeeked \/ Begin("next") \/ Begin("peek") \/ Step

Spec == Init /\ [][Next]_vars

\* A call that has begun runs on; nobody has to make one.
FairSpec == Spec /\ WF_vars(Step)

-----------------------------------------------------------------------------
Size == Len(source)
Locations == [line : 1 .. Size + 1, column : 1 .. Size + 1, offset : 0 .. Size]
TokenTypes ==
  {"END_OF_FILE", "NUMBER", "INVALID", "IDENTIFIER"} \cup SymbolTypes
    \cup {keywords[word] : word \in DOMAIN keywords}
Tokens == [type : TokenTypes, text : Seq(STRING), location : Locations]

TypeOK ==
  /\ source \in Seq(STRING)
  /\ at \in Locations /\ start \in Locations
  /\ mode \in {"ready", "blanks", "line_comment", "block_comment", "word", "number"}
  /\ call \in {"next", "peek"}
  /\ peeked \in Seq(Tokens) /\ Len(peeked) <= 1
  /\ returned \in Seq(Tokens)

\* Every token taken out of the source so far.
Taken == returned \o peeked

Newlines(offset) == {k \in 1 .. offset : source[k] = "\n"}

Located(loc) ==
  /\ loc.line = 1 + Cardinality(Newlines(loc.offset))
  /\ \E last \in {0} \cup Newlines(loc.offset) :
       /\ \A n \in Newlines(loc.offset) : n <= last
       /\ loc.column = loc.offset - last + 1

\* The line and the column that errors are reported with are those of the offset
\* they stand for, across comments, calls and peeks: one more than the newlines
\* before it, and the distance from the last of them.
LocationsRight ==
  /\ Located(at)
  /\ \A k \in DOMAIN Taken : Located(Taken[k].location)

(* Tokens and blanks, without the walk over the source *)

Char(offset) == IF offset < Size THEN source[offset + 1] ELSE "nul"
Closes(k) == Char(k) = "*" /\ Char(k + 1) = "/"

\* A comment begins at offset k and ends before offset e.
LineComment(k, e) ==
  /\ Char(k) = "/" /\ Char(k + 1) = "/"
  /\ e \in k + 2 .. Size /\ (e = Size \/ Char(e) = "\n")
  /\ \A m \in k + 2 .. e - 1 : Char(m) # "\n"

BlockComment(k, e) ==
  /\ Char(k) = "/" /\ Char(k + 1) = "*"
  /\ e \in k + 2 .. Size /\ (e = Size \/ (e >= k + 4 /\ Closes(e - 2)))
  /\ \A m \in k + 2 .. e - 3 : ~Closes(m)

Skipped(k, e) == (e = k + 1 /\ isspace(Char(k))) \/ LineComment(k, e) \/ BlockComment(k, e)

\* From offset i to offset j there are only spaces and whole comments: the text can
\* be cut so that one of them begins at every cut and ends at another.
Blank(i, j) ==
  \E cuts \in SUBSET (i .. j) :
    /\ i \in cuts /\ j \in cuts
    /\ \A k \in cuts \ {j} : \E e \in cuts : Skipped(k, e)

\* Tokens of one character carry the location behind them.
LocatedBehind(t) == t.type \in {"INVALID"} \cup SymbolTypes
First(t) == IF LocatedBehind(t) THEN t.location.offset - 1 ELSE t.location.offset
Past(t) == IF LocatedBehind(t) THEN t.location.offset ELSE t.location.offset + Len(t.text)

IsText(t) == t.text = SubSeq(source, First(t) + 1, Past(t))

IsSymbol(t) ==
  \E c \in DOMAIN Symbols : Char(First(t)) = c /\ t.text = <<c>> /\ t.type = Symbols[c]

IsInvalid(t) ==
  LET c == Char(First(t))
      after == Char(Past(t))
  IN /\ t.type = "INVALID"
     /\ ~isspace(c) /\ ~is_identifier_continue(c) /\ c \notin DOMAIN Symbols
     /\ c = "-" => ~is_digit(after)
     /\ c = "/" => after \notin {"/", "*"}

IsNumber(t) ==
  /\ t.type = "NUMBER" /\ IsText(t)
  /\ is_digit(t.text[Len(t.text)]) /\ (is_digit(t.text[1]) \/ t.text[1] = "-")
  /\ \A k \in 2 .. Len(t.text) : is_digit(t.text[k])
  /\ ~is_digit(Char(Past(t)))

IsWord(t) ==
  /\ t.type = keyword_or_identifier(t.text) /\ IsText(t)
  /\ is_identifier_start(t.text[1])
  /\ \A k \in 1 .. Len(t.text) : is_identifier_continue(t.text[k])
  /\ ~is_identifier_continue(Char(Past(t)))

IsEnd(t) == t.type = "END_OF_FILE" /\ t.text = <<>> /\ First(t) = Size

IsLexeme(t) == IsEnd(t) \/ IsSymbol(t) \/ IsInvalid(t) \/ (t.text # <<>> /\ (IsNumber(t) \/ IsWord(t)))

\* Where the k-th token ends.
PastOf(k) == IF k = 0 THEN 0 ELSE Past(Taken[k])

\* Whatever mix of next_token() and peek_token() is called, the tokens handed out
\* are the lexemes of the source in order, each as long as possible, with nothing
\* but spaces and comments in between: no character is lost, read twice or left
\* behind a peeked token.
LexemesExact ==
  mode = "ready" =>
    /\ \A k \in DOMAIN Taken : Blank(PastOf(k - 1), First(Taken[k])) /\ IsLexeme(Taken[k])
    /\ at.offset = PastOf(Len(Taken))

\* Every call comes back with a token, also inside a comment or a word that the
\* end of the source cuts off.
TokensArrive == (mode # "ready") ~> (mode = "ready")
=============================================================================
