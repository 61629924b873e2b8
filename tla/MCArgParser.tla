----------------------------- MODULE MCArgParser -----------------------------
(* The options of the compiler by their letters (v: a flag, o: with a value, w: a
   long flag without a letter), options that clash with them, and short argument
   lists. *)
EXTENDS ArgParser, SequencesExt

MCLetters == {"v", "o", "w", "x", "d"}

Option(short, key, has_arg) ==
  [short |-> short, key |-> key, has_arg |-> has_arg, default |-> Word(<<"d">>)]

MCOptions == {
  Option("v", <<"v", "v">>, FALSE), Option("o", <<"o", "o">>, TRUE), Option(NoLetter, <<"w">>, FALSE),
  Option("o", <<"v", "v">>, FALSE), Option("o", <<>>, TRUE), Option(NoLetter, <<>>, FALSE)}

Text(dashes, letters) == [Word(letters) EXCEPT !.dashes = dashes]
Sign(dashes, letters, v) == [Text(dashes, letters) EXCEPT !.eq = TRUE, !.value = v]

FewTexts == {
  Word(<<"x">>), Text(1, <<>>), Text(2, <<>>),
  Text(1, <<"v">>), Text(1, <<"o">>), Text(1, <<"v", "o">>), Text(1, <<"o", "v">>),
  Text(2, <<"v", "v">>), Text(2, <<"o", "o">>), Sign(2, <<"o", "o">>, <<"x">>), Text(1, <<"v", "x">>)}

\* Every text of up to two letters.
ManyTexts ==
  LET letters == SeqOf({"v", "o", "x"}, 2) \cup {<<"w">>}
  IN {Text(n, l) : n \in 0 .. 2, l \in letters}
     \cup {Sign(n, l, v) : n \in 1 .. 2, l \in letters, v \in {<<>>, <<"v">>}}

\* What the first call leaves, and the lists that are then parsed.
MCCommandLines == << SeqOf(FewTexts, 1), SeqOf(ManyTexts, 1) \cup SeqOf(FewTexts, 3) >>
=============================================================================
