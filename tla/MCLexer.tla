------------------------------- MODULE MCLexer -------------------------------
(* All short sources over one character of each class, and longer ones of words
   and comments. *)
EXTENDS Lexer, SequencesExt

CONSTANTS MaxLength,       \* bound: characters in a source
          MaxCommented     \* bound: characters in a source of words and comments

MCSources == SeqOf({"a", "1", "-", "/", "*", "\n", "semicolon"}, MaxLength)
             \cup SeqOf({"a", "/", "*", "\n"}, MaxCommented)

\* "a1" stands for the keywords: a word that begins like others.
MCKeywords == <<"a", "1">> :> "KEYWORD"
=============================================================================
