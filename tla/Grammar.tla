------------------------------- MODULE Grammar -------------------------------
(***************************************************************************)
(* The grammar of the schema language as a set of sentences over classes   *)
(* of tokens: the modifiers are one class, the primitive types another,    *)
(* every other token is known by its type.  A reference definition: the    *)
(* Parser descends by hand and never computes it.                          *)
(***************************************************************************)
EXTENDS Integers, Sequences

CONSTANT MaxTokens    \* bound: tokens before the end of the file

ASSUME LengthAssumption == MaxTokens \in Nat \ {0}

\* The tokens that are neither names, numbers, types nor modifiers.
Words == {"NAMESPACE", "ENUM", "MODEL", "LBRACE", "RBRACE", "EQUALS", "SEMICOLON", "DOT", "INVALID"}

\* The longest way to complete a prefix: a modifier still needs a type, a name,
\* =, a number, ; and }.
MaxSentence == MaxTokens + 6

Cat(A, B) == {s \in {a \o b : a \in A, b \in B} : Len(s) <= MaxSentence}

Star(A) ==
  LET long[n \in 0 .. MaxSentence] ==
        IF n = 0 THEN {<<>>}
        ELSE UNION {{a \o s : s \in long[n - Len(a)]} : a \in {x \in A : Len(x) <= n}}
  IN UNION {long[n] : n \in 0 .. MaxSentence}

Name == <<"IDENTIFIER">>
Setting == {Name \o <<"EQUALS">> \o <<"NUMBER">> \o <<"SEMICOLON">>}
FieldText == Cat(Star({<<"modifier">>}), Cat({<<"primitive">>, Name}, Setting))

Braced(word, items) == Cat(Cat({word \o Name \o <<"LBRACE">>}, Star(items)), {<<"RBRACE">>})
DeclarationText == Braced(<<"ENUM">>, Setting) \cup Braced(<<"MODEL">>, FieldText)
NamespaceText == Cat(Cat({<<"NAMESPACE">> \o Name}, Star({<<"DOT">> \o Name})), {<<"SEMICOLON">>})

Sentences == Cat(NamespaceText, Star(DeclarationText))

Prefixes == UNION {{SubSeq(s, 1, k) : k \in 0 .. Len(s)} : s \in Sentences}
=============================================================================
