---------------------------- MODULE ParserProofs ----------------------------
(***************************************************************************)
(* For every sequence of tokens of any length: a schema that parse_schema  *)
(* returns is the meaning of the whole file, and an error names the first  *)
(* token that no sentence of the grammar has there.                        *)
(*                                                                         *)
(* The inductive invariant says the first of the text read so far: where   *)
(* the namespace, the finished declarations, the finished items and the    *)
(* begun item lie, and that the parser is one token behind them.  For the  *)
(* second the parser is shown to follow the automaton of GrammarProofs.    *)
(***************************************************************************)
EXTENDS Parser, GrammarProofs, TLAPS

NameCount == Len(schema.names)

\* The bound on the tokens is kept because nothing is read behind the end.
EndIsLast == here <= MaxTokens \/ check("END_OF_FILE")

NamesRead ==
  /\ Is(1, "NAMESPACE")
  /\ \A k \in 1 .. NameCount : IsName(2 * k, schema.names[k]) /\ (k > 1 => Is(2 * k - 1, "DOT"))

NamespaceSoFar ==
  /\ pc = "namespace" => here = 1 /\ schema.names = <<>>
  /\ pc \in {"namespace", "namespace_name", "namespace_rest"} => schema.decls = <<>> /\ decl = NoDecl
  /\ pc \notin {"namespace", "done"} => NamesRead
  /\ pc = "namespace_name" => here = 2 * NameCount + 2 /\ (NameCount > 0 => Is(here - 1, "DOT"))
  /\ pc = "namespace_rest" => here = 2 * NameCount + 1 /\ NameCount > 0
  /\ pc \in {"declarations"} \cup InDeclaration => Is(2 * NameCount + 1, "SEMICOLON")

DeclsFill(s, a, b) == Tiled(s, a, b, DeclAt)
FieldsFill(s, a, b) == Tiled(s, a, b, FieldAt)
ValuesFill(s, a, b) == Tiled(s, a, b, ValueAt)

\* The text before index b is the namespace and the finished declarations.
DeclsEnd(b) == DeclsFill(schema.decls, 2 * NameCount + 2, b)

KeywordRead(d) == \E type \in DOMAIN Kind : Is(d.loc, type) /\ Kind[type] = d.kind

DeclSoFar ==
  /\ pc = "declarations" => DeclsEnd(here) /\ decl = NoDecl
  /\ pc \in InDeclaration => DeclsEnd(decl.loc) /\ KeywordRead(decl)
  /\ pc = "declaration_name" => here = decl.loc + 1
  /\ pc = "open" => here = decl.loc + 2
  /\ pc \in {"declaration_name", "open"} => decl.items = <<>>
  /\ pc \in {"open", "items"} \cup InItem => IsName(decl.loc + 1, decl.name)
  /\ pc \in {"items"} \cup InItem => Is(decl.loc + 2, "LBRACE")

\* The finished items of d fill the text from its brace to before index b.
ItemsEnd(d, b) ==
  IF d.kind = "enum" THEN ValuesFill(d.items, d.loc + 3, b)
                     ELSE FieldsFill(d.items, d.loc + 3, b)

\* What is read of an item when its type is n tokens back.
FieldRead(n) ==
  /\ item.loc <= here - n
  /\ \A k \in item.loc .. here - n - 1 : IsModifier(k)
  /\ item.mods = {FieldModifier[tokens[k].type] : k \in item.loc .. here - n - 1}
  /\ n >= 1 => IsType(here - n, item.type)
  /\ n >= 2 => IsName(here - n + 1, item.name)
  /\ n >= 3 => Is(here - n + 2, "EQUALS")
  /\ n >= 4 => IsNumber(here - n + 3, item.number)

ValueRead(n) ==
  /\ n >= 1 /\ here = item.loc + n - 1
  /\ n >= 2 => IsName(item.loc, item.name)
  /\ n >= 3 => Is(item.loc + 1, "EQUALS")
  /\ n >= 4 => IsNumber(item.loc + 2, item.number)

ItemRead(n) == IF decl.kind = "enum" THEN ValueRead(n) ELSE FieldRead(n)

ItemSoFar ==
  /\ pc = "items" => ItemsEnd(decl, here)
  /\ pc \in InItem => ItemsEnd(decl, item.loc) /\ item.loc >= 1
  /\ pc = "type" => ItemRead(0)
  /\ pc = "item_name" => ItemRead(1)
  /\ pc = "equals" => ItemRead(2)
  /\ pc = "number" => ItemRead(3)
  /\ pc = "semicolon" => ItemRead(4)

IInv ==
  /\ TypeOK
  /\ EndIsLast
  /\ NamespaceSoFar
  /\ DeclSoFar
  /\ ItemSoFar
  /\ AcceptedIsTheText

-----------------------------------------------------------------------------
(* Tokens, and what stays true of them while more are read *)

Token == Alphabet \cup {EndOfFile}

LEMMA TokenTypes ==
  /\ \A t \in Token : t.type = "IDENTIFIER" => t.name \in Names
  /\ \A t \in Token : t.number \in Int
  /\ EndOfFile \in Token /\ EndOfFile.type = "END_OF_FILE"
  BY AlphabetAssumption, SMT
     DEF Token, Alphabet, EndOfFile, Plain, Words, PrimitiveTypes, NumberKinds, IntKinds,
         SignedKinds, UnsignedKinds, FloatKinds

\* The token just read is not the end of the file, and any token may be behind it.
Reading == ~check("END_OF_FILE") /\ advance

LEMMA ReadingGrows ==
  ASSUME tokens \in Seq(Token), here \in 1 .. MaxTokens + 1, EndIsLast, Reading
  PROVE  /\ tokens' \in Seq(Token) /\ here' \in 1 .. MaxTokens + 1 /\ EndIsLast'
         /\ here' = here + 1
         /\ \A k \in 1 .. here : tokens'[k] = tokens[k]
<1>1. PICK t \in Offered : tokens' = Append(tokens, t)
  BY DEF Reading, advance
<1>2. t \in Token /\ (here < MaxTokens \/ t = EndOfFile)
  BY <1>1, TokenTypes DEF Offered, Token
<1>3. here <= MaxTokens
  BY BoundsAssumption, LengthAssumption DEF Reading, EndIsLast
<1>4. /\ tokens' \in Seq(Token) /\ here' = here + 1 /\ tokens'[here + 1] = t
      /\ \A k \in 1 .. here : tokens'[k] = tokens[k]
  BY <1>1, <1>2 DEF here
<1>5. here' \in 1 .. MaxTokens + 1
  BY <1>3, <1>4, BoundsAssumption, LengthAssumption
<1>6. EndIsLast'
  BY <1>1, <1>2, <1>3, <1>4, BoundsAssumption, LengthAssumption, TokenTypes DEF EndIsLast, check, current_token
<1> QED
  BY <1>4, <1>5, <1>6

\* The tokens stay or one more is read.
Grown ==
  /\ tokens \in Seq(Token) /\ tokens' \in Seq(Token)
  /\ here' >= here
  /\ \A k \in 1 .. here : tokens'[k] = tokens[k]

LEMMA GrownLen == Grown => here \in Nat /\ here' \in Nat
  BY DEF Grown, here

LEMMA TokensStay ==
  ASSUME Grown
  PROVE  /\ \A k, type : Is(k, type) => Is(k, type)'
         /\ \A k, name : IsName(k, name) => IsName(k, name)'
         /\ \A k, n : IsNumber(k, n) => IsNumber(k, n)'
         /\ \A k, type : IsType(k, type) => IsType(k, type)'
         /\ \A k : IsModifier(k) => IsModifier(k)'
<1>1. \A k \in 1 .. here : k \in (1 .. here)' /\ tokens'[k] = tokens[k]
  BY GrownLen DEF Grown
<1>2. \A k, type : Is(k, type) => Is(k, type)'
  BY <1>1 DEF Is
<1>3. \A k, name : IsName(k, name) => IsName(k, name)'
  BY <1>1, <1>2 DEF Is, IsName
<1>4. \A k, n : IsNumber(k, n) => IsNumber(k, n)'
  BY <1>1, <1>2 DEF Is, IsNumber
<1>5. \A k, type : IsType(k, type) => IsType(k, type)'
  BY <1>2, <1>3, Zenon DEF IsType, is_primitive_type
<1>6. \A k : IsModifier(k) => IsModifier(k)'
  BY <1>1 DEF IsModifier, is_field_modifier
<1> QED
  BY <1>2, <1>3, <1>4, <1>5, <1>6

\* The modifiers written from a to b.
Written(a, b) == {FieldModifier[tokens[k].type] : k \in a .. b}

LEMMA ModifiersStay ==
  ASSUME Grown, NEW a, NEW b, \A k \in a .. b : IsModifier(k)
  PROVE  (\A k \in a .. b : IsModifier(k)') /\ Written(a, b)' = Written(a, b)
<1>1. \A k \in a .. b : tokens'[k] = tokens[k]
  BY GrownLen DEF Grown, IsModifier
<1> QED
  BY <1>1, TokensStay, Zenon DEF Written

LEMMA ItemsStay ==
  ASSUME Grown
  PROVE  /\ \A f, a, b : FieldAt(f, a, b) => FieldAt(f, a, b)'
         /\ \A v, a, b : ValueAt(v, a, b) => ValueAt(v, a, b)'
<1>1. ASSUME NEW f, NEW a, NEW b, FieldAt(f, a, b)
      PROVE  FieldAt(f, a, b)'
  <2>1. (\A k \in a .. b - 6 : IsModifier(k)') /\ Written(a, b - 6)' = Written(a, b - 6)
    BY <1>1, ModifiersStay DEF FieldAt
  <2> QED
    BY <1>1, <2>1, TokensStay, Zenon DEF FieldAt, Written
<1>2. ASSUME NEW v, NEW a, NEW b, ValueAt(v, a, b)
      PROVE  ValueAt(v, a, b)'
  BY <1>2, TokensStay, Zenon DEF ValueAt
<1> QED
  BY <1>1, <1>2

LEMMA TilesStay ==
  ASSUME Grown
  PROVE  /\ \A s, a, b : FieldsFill(s, a, b) => FieldsFill(s, a, b)'
         /\ \A s, a, b : ValuesFill(s, a, b) => ValuesFill(s, a, b)'
         /\ \A s, a, b : DeclsFill(s, a, b) => DeclsFill(s, a, b)'
         /\ \A d, b : ItemsEnd(d, b) => ItemsEnd(d, b)'
<1>1. ASSUME NEW s, NEW a, NEW b, FieldsFill(s, a, b)
      PROVE  FieldsFill(s, a, b)'
  BY <1>1, ItemsStay, Zenon DEF FieldsFill, Tiled, Begin
<1>2. ASSUME NEW s, NEW a, NEW b, ValuesFill(s, a, b)
      PROVE  ValuesFill(s, a, b)'
  BY <1>2, ItemsStay, Zenon DEF ValuesFill, Tiled, Begin
<1>3. ASSUME NEW d, NEW a, NEW b, DeclAt(d, a, b)
      PROVE  DeclAt(d, a, b)'
  <2>1. /\ \A k, type : Is(k, type) => Is(k, type)'
        /\ \A k, name : IsName(k, name) => IsName(k, name)'
    BY TokensStay
  <2> QED
    BY <1>1, <1>2, <1>3, <2>1, Zenon DEF DeclAt, Kind, FieldsFill, ValuesFill
<1>4. ASSUME NEW s, NEW a, NEW b, DeclsFill(s, a, b)
      PROVE  DeclsFill(s, a, b)'
  BY <1>4, <1>3, Zenon DEF DeclsFill, Tiled, Begin
<1>5. \A d, b : ItemsEnd(d, b) => ItemsEnd(d, b)'
  BY <1>1, <1>2, Zenon DEF ItemsEnd
<1> QED
  BY <1>1, <1>2, <1>4, <1>5

-----------------------------------------------------------------------------
(* One more element behind a sequence that fills the text *)

\* more is s with e behind it, and e ends at index b.
Extended(s, e, b, more) ==
  /\ DOMAIN more = DOMAIN s \cup {Len(s) + 1}
  /\ \A k \in DOMAIN s : more[k] = s[k]
  /\ more[Len(s) + 1] = e
  /\ Begin(more, b, 1) = Begin(s, e.loc, 1)
  /\ \A k \in DOMAIN s : /\ Begin(more, b, k) = Begin(s, e.loc, k)
                         /\ Begin(more, b, k + 1) = Begin(s, e.loc, k + 1)
  /\ Begin(more, b, Len(s) + 1) = e.loc
  /\ Begin(more, b, Len(s) + 1 + 1) = b

LEMMA Appended ==
  ASSUME NEW S, NEW s \in Seq(S), NEW e, NEW b, NEW more, more = Append(s, e)
  PROVE  Extended(s, e, b, more)
<1>1. /\ Len(s) \in Nat /\ DOMAIN s = 1 .. Len(s) /\ Len(more) = Len(s) + 1
      /\ DOMAIN more = 1 .. Len(s) + 1
      /\ \A k \in 1 .. Len(s) : more[k] = s[k]
      /\ more[Len(s) + 1] = e
  OBVIOUS
<1>2. \A k \in 1 .. Len(s) : Begin(more, b, k) = s[k].loc /\ Begin(s, e.loc, k) = s[k].loc
  BY <1>1 DEF Begin
<1>3. Begin(more, b, Len(s) + 1) = e.loc /\ Begin(s, e.loc, Len(s) + 1) = e.loc
  BY <1>1 DEF Begin
<1>4. Begin(more, b, Len(s) + 1 + 1) = b
  BY <1>1 DEF Begin
<1>5. \A k \in 1 .. Len(s) + 1 : Begin(more, b, k) = Begin(s, e.loc, k)
  BY <1>1, <1>2, <1>3
<1> QED
  BY <1>1, <1>3, <1>4, <1>5 DEF Extended

LEMMA OneMoreField ==
  ASSUME NEW s, NEW e, NEW a, NEW b, NEW more,
         Extended(s, e, b, more), FieldsFill(s, a, e.loc)', FieldAt(e, e.loc, b)'
  PROVE  FieldsFill(more, a, b)'
  BY Zenon DEF FieldsFill, Tiled, Extended

LEMMA OneMoreValue ==
  ASSUME NEW s, NEW e, NEW a, NEW b, NEW more,
         Extended(s, e, b, more), ValuesFill(s, a, e.loc)', ValueAt(e, e.loc, b)'
  PROVE  ValuesFill(more, a, b)'
  BY Zenon DEF ValuesFill, Tiled, Extended

LEMMA OneMoreDecl ==
  ASSUME NEW s, NEW e, NEW a, NEW b, NEW more,
         Extended(s, e, b, more), DeclsFill(s, a, e.loc)', DeclAt(e, e.loc, b)'
  PROVE  DeclsFill(more, a, b)'
  BY Zenon DEF DeclsFill, Tiled, Extended

LEMMA NoneYet ==
  ASSUME NEW a
  PROVE  FieldsFill(<<>>, a, a)' /\ ValuesFill(<<>>, a, a)' /\ DeclsFill(<<>>, a, a)'
<1>1. Begin(<<>>, a, 1) = a /\ DOMAIN <<>> = {}
  BY DEF Begin
<1> QED
  BY <1>1, Zenon DEF DeclsFill, FieldsFill, ValuesFill, Tiled, Begin

-----------------------------------------------------------------------------
(* What a step that reads a token keeps *)

LEMMA TypeFacts ==
  ASSUME TypeOK
  PROVE  /\ tokens \in Seq(Token) /\ here \in 1 .. MaxTokens + 1 /\ here \in Nat
         /\ current_token \in Token /\ current_token.number \in Int
         /\ check("IDENTIFIER") => current_token.name \in Names
         /\ NameCount \in Nat /\ schema.names \in Seq(Names) /\ schema.decls \in Seq(ADecl)
         /\ decl.items \in Seq(AField \cup AValue) /\ decl.loc \in Nat /\ item.loc \in Nat
<1>1. tokens \in Seq(Token) /\ here \in 1 .. MaxTokens + 1
  BY DEF TypeOK, Token
<1>2. current_token \in Token /\ here \in Nat
  BY <1>1, BoundsAssumption, LengthAssumption DEF current_token, here
<1>3. NameCount \in Nat /\ schema.names \in Seq(Names) /\ schema.decls \in Seq(ADecl)
  BY DEF TypeOK, NameCount
<1>4. decl.items \in Seq(AField \cup AValue) /\ decl.loc \in Nat /\ item.loc \in Nat
  BY DEF TypeOK, ADecl, AField
<1> QED
  BY <1>1, <1>2, <1>3, <1>4, TokenTypes DEF check

\* Taking a token: it is where the parser was, and the parser is one token on.
LEMMA Taken ==
  ASSUME IInv, NEW type, type # "END_OF_FILE", check(type), advance, NEW h, h = here
  PROVE  /\ Grown /\ h \in Nat /\ h >= 1 /\ here' = h + 1 /\ EndIsLast'
         /\ tokens' \in Seq(Alphabet \cup {EndOfFile}) /\ here' \in 1 .. MaxTokens + 1
         /\ Is(h, type)'
         /\ type = "IDENTIFIER" =>
              current_token.name \in Names /\ \A x : x = current_token.name => IsName(h, x)'
         /\ type = "NUMBER" =>
              current_token.number \in Int /\ \A x : x = current_token.number => IsNumber(h, x)'
<1>1. tokens \in Seq(Token) /\ here \in 1 .. MaxTokens + 1 /\ here \in Nat /\ EndIsLast
  BY TypeFacts DEF IInv
<1>2. Reading
  BY DEF Reading, check
<1>3. /\ tokens' \in Seq(Token) /\ here' \in 1 .. MaxTokens + 1 /\ EndIsLast'
      /\ here' = here + 1 /\ \A k \in 1 .. here : tokens'[k] = tokens[k]
  BY <1>1, <1>2, ReadingGrows
<1>4. Grown
  BY <1>1, <1>3 DEF Grown
<1>5. /\ Is(h, type)
      /\ type = "IDENTIFIER" => IsName(h, current_token.name)
      /\ type = "NUMBER" => IsNumber(h, current_token.number)
  BY <1>1 DEF Is, IsName, IsNumber, check, current_token
<1>6. /\ Is(h, type)'
      /\ \A x : (IsName(h, x) => IsName(h, x)') /\ (IsNumber(h, x) => IsNumber(h, x)')
  BY <1>4, <1>5, TokensStay
<1>7. /\ type = "IDENTIFIER" => \A x : x = current_token.name => IsName(h, x)'
      /\ type = "NUMBER" => \A x : x = current_token.number => IsNumber(h, x)'
  BY <1>5, <1>6
<1> QED
  BY <1>1, <1>3, <1>4, <1>6, <1>7, TypeFacts DEF Token, IInv
-----------------------------------------------------------------------------
(* Frames: what a step does not touch *)

LEMMA UnreadGrows ==
  ASSUME IInv, UNCHANGED tokens
  PROVE  /\ Grown /\ EndIsLast' /\ here' = here
         /\ tokens' \in Seq(Alphabet \cup {EndOfFile}) /\ here' \in 1 .. MaxTokens + 1
<1>1. tokens \in Seq(Token) /\ here \in 1 .. MaxTokens + 1 /\ here \in Nat
  BY TypeFacts DEF IInv
<1>2. here' = here /\ EndIsLast'
  BY DEF IInv, EndIsLast, here, check, current_token
<1> QED
  BY <1>1, <1>2 DEF Grown, Token

\* An exception ends the parsing.
LEMMA Thrown ==
  ASSUME IInv, UNCHANGED <<schema, decl, item>>, pc' = "done",
         outcome' \in {"parse_error", "out_of_range"},
         EndIsLast', tokens' \in Seq(Alphabet \cup {EndOfFile}), here' \in 1 .. MaxTokens + 1
  PROVE  IInv'
<1>1. TypeOK'
  BY DEF IInv, TypeOK
<1>2. NamespaceSoFar' /\ DeclSoFar' /\ ItemSoFar'
  BY DEF NamespaceSoFar, DeclSoFar, ItemSoFar, InDeclaration, InItem
<1>3. AcceptedIsTheText'
  BY DEF AcceptedIsTheText
<1> QED
  BY <1>1, <1>2, <1>3 DEF IInv

LEMMA ExpectedInv ==
  ASSUME IInv, NEW place, NEW types, Expected(place, types)
  PROVE  IInv'
  BY UnreadGrows, Thrown DEF Expected, error, Stop

\* Nothing has been accepted while the parser goes on.
LEMMA NotAccepted ==
  ASSUME IInv, pc # "done", UNCHANGED outcome
  PROVE  outcome = "parsing" /\ AcceptedIsTheText'
  BY DEF IInv, TypeOK, AcceptedIsTheText

LEMMA NamesStay ==
  ASSUME IInv, Grown, UNCHANGED schema
  PROVE  /\ NameCount' = NameCount
         /\ NamesRead => NamesRead'
         /\ Is(2 * NameCount + 1, "SEMICOLON") => Is(2 * NameCount + 1, "SEMICOLON")'
         /\ \A b : DeclsEnd(b) => DeclsEnd(b)'
<1>1. NameCount' = NameCount
  BY DEF NameCount
<1>2. NamesRead => NamesRead'
  BY <1>1, TokensStay DEF NamesRead
<1>3. Is(2 * NameCount + 1, "SEMICOLON") => Is(2 * NameCount + 1, "SEMICOLON")'
  BY <1>1, TokensStay
<1>4. \A b : DeclsEnd(b) => DeclsEnd(b)'
  BY <1>1, TilesStay, Zenon DEF DeclsEnd
<1> QED
  BY <1>1, <1>2, <1>3, <1>4

LEMMA NamespaceFrame ==
  ASSUME IInv, Grown, UNCHANGED schema,
         pc \in {"declarations"} \cup InDeclaration, pc' \in {"declarations"} \cup InDeclaration
  PROVE  NamespaceSoFar'
  BY NamesStay DEF IInv, NamespaceSoFar, InDeclaration, InItem

LEMMA DeclFrame ==
  ASSUME IInv, Grown, UNCHANGED schema,
         decl'.loc = decl.loc, decl'.name = decl.name, decl'.kind = decl.kind,
         pc \in {"items"} \cup InItem, pc' \in {"items"} \cup InItem
  PROVE  DeclSoFar'
<1>1. DeclsEnd(decl.loc) /\ KeywordRead(decl) /\ IsName(decl.loc + 1, decl.name) /\ Is(decl.loc + 2, "LBRACE")
  BY DEF IInv, DeclSoFar, InDeclaration
<1>2. DeclsEnd(decl.loc)'
  BY <1>1, NamesStay
<1>3. KeywordRead(decl)'
  BY <1>1, TokensStay DEF KeywordRead
<1>4. IsName(decl.loc + 1, decl.name)' /\ Is(decl.loc + 2, "LBRACE")'
  BY <1>1, TokensStay
<1> QED
  BY <1>2, <1>3, <1>4 DEF DeclSoFar, InDeclaration, InItem
-----------------------------------------------------------------------------
(* The namespace *)

LEMMA InitInv == Init => IInv
<1> SUFFICES ASSUME Init PROVE IInv
  OBVIOUS
<1>1. PICK t \in Alphabet \cup {EndOfFile} : tokens = <<t>>
  BY DEF Init
<1>2. here = 1 /\ tokens \in Seq(Alphabet \cup {EndOfFile})
  BY <1>1 DEF here
<1>3. decl \in ADecl /\ item \in AField /\ schema \in [names : Seq(Names), decls : Seq(ADecl)]
  <2>1. 0 \in Ints
    BY BoundsAssumption, LengthAssumption DEF Ints
  <2> QED
    BY <2>1 DEF Init, NoDecl, NoItem, ADecl, AField, Spelled
<1>4. TypeOK
  BY <1>2, <1>3, BoundsAssumption, LengthAssumption DEF Init, TypeOK, NoDecl
<1>5. EndIsLast
  BY <1>2, BoundsAssumption, LengthAssumption DEF EndIsLast
<1>6. NamespaceSoFar /\ DeclSoFar /\ ItemSoFar
  BY <1>2 DEF Init, NamespaceSoFar, DeclSoFar, ItemSoFar, InDeclaration, InItem
<1>7. AcceptedIsTheText
  BY DEF Init, AcceptedIsTheText
<1> QED
  BY <1>4, <1>5, <1>6, <1>7 DEF IInv

LEMMA NamespaceWordInv == IInv /\ NamespaceWord => IInv'
<1> SUFFICES ASSUME IInv, NamespaceWord PROVE IInv'
  OBVIOUS
<1>1. CASE Expected("namespace", {"NAMESPACE"})
  BY <1>1, ExpectedInv
<1>2. CASE pc = "namespace" /\ Take("NAMESPACE", "namespace_name") /\ UNCHANGED <<schema, decl, item>>
  <2> PICK h : h = here
    OBVIOUS
  <2>1. /\ Grown /\ h \in Nat /\ here' = h + 1 /\ EndIsLast' /\ Is(h, "NAMESPACE")'
        /\ tokens' \in Seq(Alphabet \cup {EndOfFile}) /\ here' \in 1 .. MaxTokens + 1
    BY <1>2, Taken DEF Take
  <2>2. h = 1 /\ schema.names = <<>> /\ schema.decls = <<>> /\ decl = NoDecl
    BY <1>2 DEF IInv, NamespaceSoFar
  <2>3. NameCount' = 0 /\ NamesRead'
    BY <1>2, <2>1, <2>2 DEF NameCount, NamesRead
  <2>4. TypeOK'
    BY <1>2, <2>1 DEF IInv, TypeOK, Take, Go
  <2>5. NamespaceSoFar' /\ DeclSoFar' /\ ItemSoFar'
    BY <1>2, <2>1, <2>2, <2>3
       DEF Take, Go, NamespaceSoFar, DeclSoFar, ItemSoFar, InDeclaration, InItem
  <2> QED
    BY <1>2, <2>1, <2>4, <2>5, NotAccepted DEF IInv, Take, Go
<1> QED
  BY <1>1, <1>2 DEF NamespaceWord, consume

LEMMA NamespaceNameInv == IInv /\ NamespaceName => IInv'
<1> SUFFICES ASSUME IInv, NamespaceName PROVE IInv'
  OBVIOUS
<1>1. CASE Expected("namespace_name", {"IDENTIFIER"})
  BY <1>1, ExpectedInv
<1>2. CASE /\ pc = "namespace_name"
           /\ Take("IDENTIFIER", "namespace_rest")
           /\ schema' = [schema EXCEPT !.names = Append(@, current_token.name)]
           /\ UNCHANGED <<decl, item>>
  <2> PICK h : h = here
    OBVIOUS
  <2> PICK x : x = current_token.name
    OBVIOUS
  <2>1. /\ Grown /\ h \in Nat /\ here' = h + 1 /\ EndIsLast'
        /\ tokens' \in Seq(Alphabet \cup {EndOfFile}) /\ here' \in 1 .. MaxTokens + 1
        /\ x \in Names /\ IsName(h, x)'
    BY <1>2, Taken DEF Take
  <2>2. /\ schema.names \in Seq(Names) /\ NameCount \in Nat /\ h = 2 * NameCount + 2
        /\ NamesRead /\ (NameCount > 0 => Is(h - 1, "DOT"))
        /\ schema.decls = <<>> /\ decl = NoDecl
    BY <1>2, TypeFacts DEF IInv, NamespaceSoFar
  <2>3. /\ schema' \in [names : Seq(Names), decls : Seq(ADecl)]
        /\ schema'.decls = <<>> /\ NameCount' = NameCount + 1
        /\ schema'.names[NameCount + 1] = x
        /\ \A k \in 1 .. NameCount : schema'.names[k] = schema.names[k]
    <3>1. schema'.names = Append(schema.names, x) /\ schema'.decls = schema.decls
      BY <1>2 DEF IInv, TypeOK
    <3>2. schema' \in [names : Seq(Names), decls : Seq(ADecl)]
      <4>1. Append(schema.names, x) \in Seq(Names)
        BY <2>1, <2>2
      <4>2. schema' = [schema EXCEPT !.names = Append(schema.names, x)]
        BY <1>2
      <4> QED
        BY <4>1, <4>2, Zenon DEF IInv, TypeOK
    <3> QED
      BY <2>1, <2>2, <3>1, <3>2, SMTT(20) DEF NameCount
  <2>4. NamesRead'
    <3>1. Is(1, "NAMESPACE")'
      BY <2>1, <2>2, TokensStay DEF NamesRead
    <3>2. ASSUME NEW k \in 1 .. NameCount + 1
          PROVE  IsName(2 * k, schema.names[k])' /\ (k > 1 => Is(2 * k - 1, "DOT")')
      <4>1. CASE k = NameCount + 1
        <5>1. 2 * k = h /\ 2 * k - 1 = h - 1
          BY <4>1, <2>2
        <5>2. k > 1 => Is(h - 1, "DOT")'
          BY <4>1, <2>1, <2>2, TokensStay
        <5> QED
          BY <4>1, <5>1, <5>2, <2>1, <2>3
      <4>2. CASE k \in 1 .. NameCount
        BY <4>2, <2>1, <2>2, <2>3, TokensStay, Zenon DEF NamesRead
      <4> QED
        BY <4>1, <4>2, <2>2
    <3> QED
      BY <3>1, <3>2, <2>3 DEF NamesRead
  <2>5. TypeOK'
    BY <1>2, <2>1, <2>3 DEF IInv, TypeOK, Take, Go
  <2>6. here' = 2 * NameCount' + 1 /\ NameCount' > 0
    <3>1. NameCount \in Nat /\ here' = (2 * NameCount + 2) + 1 /\ NameCount' = NameCount + 1
      BY <2>1, <2>2, <2>3, Zenon
    <3> QED
      BY <3>1
  <2>7. NamespaceSoFar' /\ DeclSoFar' /\ ItemSoFar'
    BY <1>2, <2>2, <2>3, <2>4, <2>6
       DEF Take, Go, NamespaceSoFar, DeclSoFar, ItemSoFar, InDeclaration, InItem
  <2> QED
    BY <1>2, <2>1, <2>5, <2>7, NotAccepted DEF IInv, Take, Go
<1> QED
  BY <1>1, <1>2 DEF NamespaceName

LEMMA NamespaceRestInv == IInv /\ NamespaceRest => IInv'
<1> SUFFICES ASSUME IInv, NamespaceRest PROVE IInv'
  OBVIOUS
<1> PICK h : h = here
  OBVIOUS
<1>1. CASE Expected("namespace_rest", {"DOT", "SEMICOLON"})
  BY <1>1, ExpectedInv
<1>2. ASSUME pc = "namespace_rest", UNCHANGED <<schema, decl, item>>
      PROVE  /\ NameCount \in Nat /\ h = 2 * NameCount + 1 /\ NameCount > 0
             /\ schema.decls = <<>> /\ decl = NoDecl
             /\ Grown => NameCount' = NameCount /\ NamesRead'
  BY <1>2, TypeFacts, NamesStay DEF IInv, NamespaceSoFar
<1>3. CASE pc = "namespace_rest" /\ Take("DOT", "namespace_name") /\ UNCHANGED <<schema, decl, item>>
  <2>1. /\ Grown /\ h \in Nat /\ here' = h + 1 /\ EndIsLast' /\ Is(h, "DOT")'
        /\ tokens' \in Seq(Alphabet \cup {EndOfFile}) /\ here' \in 1 .. MaxTokens + 1
    BY <1>3, Taken DEF Take
  <2>2. TypeOK'
    BY <1>3, <2>1 DEF IInv, TypeOK, Take, Go
  <2>3. here' - 1 = h
    BY <2>1
  <2>4. NamespaceSoFar' /\ DeclSoFar' /\ ItemSoFar'
    BY <1>2, <1>3, <2>1, <2>3
       DEF Take, Go, NamespaceSoFar, DeclSoFar, ItemSoFar, InDeclaration, InItem
  <2> QED
    BY <1>3, <2>1, <2>2, <2>4, NotAccepted DEF IInv, Take, Go
<1>4. CASE pc = "namespace_rest" /\ Take("SEMICOLON", "declarations") /\ UNCHANGED <<schema, decl, item>>
  <2>1. /\ Grown /\ h \in Nat /\ here' = h + 1 /\ EndIsLast' /\ Is(h, "SEMICOLON")'
        /\ tokens' \in Seq(Alphabet \cup {EndOfFile}) /\ here' \in 1 .. MaxTokens + 1
    BY <1>4, Taken DEF Take
  <2>2. TypeOK'
    BY <1>4, <2>1 DEF IInv, TypeOK, Take, Go
  <2>3. NamespaceSoFar' /\ ItemSoFar'
    BY <1>2, <1>4, <2>1 DEF Take, Go, NamespaceSoFar, ItemSoFar, InDeclaration, InItem
  <2>4. 2 * NameCount' + 2 = here'
    BY <1>2, <1>4, <2>1
  <2>5. DeclsEnd(here)'
    <3> PICK b : b = here'
      OBVIOUS
    <3>1. schema'.decls = <<>> /\ DeclsFill(<<>>, b, b)'
      BY <1>2, <1>4, NoneYet
    <3> QED
      BY <2>4, <3>1, Zenon DEF DeclsEnd
  <2>6. DeclSoFar'
    BY <1>2, <1>4, <2>5 DEF Take, Go, DeclSoFar, InDeclaration, InItem
  <2> QED
    BY <1>4, <2>1, <2>2, <2>3, <2>6, NotAccepted DEF IInv, Take, Go
<1> QED
  BY <1>1, <1>3, <1>4 DEF NamespaceRest
-----------------------------------------------------------------------------
(* Declarations *)

LEMMA EndOfSchemaInv == IInv /\ EndOfSchema => IInv'
<1> SUFFICES ASSUME IInv, EndOfSchema PROVE IInv'
  OBVIOUS
<1>1. /\ Grown /\ EndIsLast' /\ here' = here
      /\ tokens' \in Seq(Alphabet \cup {EndOfFile}) /\ here' \in 1 .. MaxTokens + 1
  BY UnreadGrows DEF EndOfSchema
<1>2. TypeOK'
  BY <1>1 DEF IInv, TypeOK, EndOfSchema, Stop
<1>3. NamespaceSoFar' /\ DeclSoFar' /\ ItemSoFar'
  BY DEF EndOfSchema, Stop, NamespaceSoFar, DeclSoFar, ItemSoFar, InDeclaration, InItem
<1>4. NamesRead /\ Is(2 * NameCount + 1, "SEMICOLON") /\ DeclsEnd(here) /\ Is(here, "END_OF_FILE")
  BY TypeFacts DEF EndOfSchema, IInv, NamespaceSoFar, DeclSoFar, check, Is, current_token
<1>5. (NamesRead /\ Is(2 * NameCount + 1, "SEMICOLON") /\ DeclsEnd(here) /\ Is(here, "END_OF_FILE"))'
  <2>1. NamesRead' /\ NameCount' = NameCount /\ Is(2 * NameCount + 1, "SEMICOLON")'
    BY <1>1, <1>4, NamesStay DEF EndOfSchema
  <2>2. DeclsEnd(here)' /\ Is(here, "END_OF_FILE")'
    BY <1>1, <1>4, NamesStay, TokensStay DEF EndOfSchema
  <2> QED
    BY <2>1, <2>2
<1>6. AcceptedIsTheText'
  BY <1>5, Zenon DEF AcceptedIsTheText, NamesRead, NameCount, DeclsEnd, DeclsFill
<1> QED
  BY <1>1, <1>2, <1>3, <1>6 DEF IInv

LEMMA DeclarationInv == IInv /\ parse_declaration => IInv'
<1> SUFFICES ASSUME IInv, parse_declaration PROVE IInv'
  OBVIOUS
<1>1. CASE Expected("declarations", {"ENUM", "MODEL", "END_OF_FILE"})
  BY <1>1, ExpectedInv
<1>2. CASE /\ pc = "declarations"
           /\ \E type \in DOMAIN Kind :
                /\ Take(type, "declaration_name")
                /\ decl' = [NoDecl EXCEPT !.kind = Kind[type], !.loc = here]
           /\ UNCHANGED <<schema, item>>
  <2> PICK h : h = here
    OBVIOUS
  <2>1. PICK type \in DOMAIN Kind :
          /\ Take(type, "declaration_name")
          /\ decl' = [NoDecl EXCEPT !.kind = Kind[type], !.loc = here]
    BY <1>2, Zenon
  <2>2. type \in {"ENUM", "MODEL"} /\ type # "END_OF_FILE" /\ Kind[type] \in {"enum", "model"}
    BY DEF Kind
  <2>3. /\ Grown /\ h \in Nat /\ here' = h + 1 /\ EndIsLast' /\ Is(h, type)'
        /\ tokens' \in Seq(Alphabet \cup {EndOfFile}) /\ here' \in 1 .. MaxTokens + 1
    BY <2>1, <2>2, Taken DEF Take
  <2>4. decl' = [kind |-> Kind[type], name |-> Nothing, loc |-> h, items |-> <<>>]
    BY <2>1, Zenon DEF NoDecl
  <2>5. decl' \in ADecl /\ decl'.kind # "none"
    BY <2>2, <2>3, <2>4 DEF ADecl, Spelled
  <2>6. TypeOK'
    BY <1>2, <2>1, <2>3, <2>5 DEF IInv, TypeOK, Take, Go, InDeclaration
  <2>7. pc' = "declaration_name"
    BY <2>1 DEF Take, Go
  <2>8. NamespaceSoFar' /\ ItemSoFar'
    BY <1>2, <2>3, <2>7, NamespaceFrame DEF ItemSoFar, InDeclaration, InItem
  <2>9. DeclsEnd(decl.loc)' /\ KeywordRead(decl)'
    <3>1. DeclsEnd(h) /\ (DeclsEnd(h) => DeclsEnd(h)')
      BY <1>2, <2>3, NamesStay DEF IInv, DeclSoFar
    <3>2. KeywordRead(decl)'
      BY <2>3, <2>4 DEF KeywordRead
    <3> QED
      BY <2>4, <3>1, <3>2
  <2>10. DeclSoFar'
    BY <2>3, <2>4, <2>7, <2>9 DEF DeclSoFar, InDeclaration, InItem
  <2> QED
    BY <1>2, <2>1, <2>3, <2>6, <2>8, <2>10, NotAccepted DEF IInv, Take, Go
<1> QED
  BY <1>1, <1>2, Zenon DEF parse_declaration

LEMMA DeclarationNameInv == IInv /\ DeclarationName => IInv'
<1> SUFFICES ASSUME IInv, DeclarationName PROVE IInv'
  OBVIOUS
<1>1. CASE Expected("declaration_name", {"IDENTIFIER"})
  BY <1>1, ExpectedInv
<1>2. CASE /\ pc = "declaration_name"
           /\ Take("IDENTIFIER", "open")
           /\ decl' = [decl EXCEPT !.name = current_token.name]
           /\ UNCHANGED <<schema, item>>
  <2> PICK h : h = here
    OBVIOUS
  <2> PICK x : x = current_token.name
    OBVIOUS
  <2>1. /\ Grown /\ h \in Nat /\ here' = h + 1 /\ EndIsLast'
        /\ tokens' \in Seq(Alphabet \cup {EndOfFile}) /\ here' \in 1 .. MaxTokens + 1
        /\ x \in Names /\ IsName(h, x)'
    BY <1>2, Taken DEF Take
  <2>2. /\ decl' \in ADecl /\ decl'.name = x
        /\ decl'.kind = decl.kind /\ decl'.loc = decl.loc /\ decl'.items = decl.items
    BY <1>2, <2>1, Zenon DEF IInv, TypeOK, ADecl, Spelled
  <2>3. /\ h = decl.loc + 1 /\ decl.items = <<>> /\ decl.loc \in Nat
        /\ DeclsEnd(decl.loc) /\ KeywordRead(decl) /\ decl.kind # "none"
    BY <1>2, TypeFacts DEF IInv, DeclSoFar, InDeclaration, KeywordRead, Kind
  <2>4. TypeOK'
    BY <1>2, <2>1, <2>2, <2>3 DEF IInv, TypeOK, Take, Go, InDeclaration
  <2>5. pc' = "open"
    BY <1>2 DEF Take, Go
  <2>6. NamespaceSoFar' /\ ItemSoFar'
    BY <1>2, <2>1, <2>5, NamespaceFrame DEF ItemSoFar, InDeclaration, InItem
  <2>7. DeclsEnd(decl.loc)' /\ KeywordRead(decl)' /\ IsName(decl.loc + 1, decl.name)'
    <3>1. DeclsEnd(decl.loc)'
      BY <1>2, <2>1, <2>2, <2>3, NamesStay
    <3>2. KeywordRead(decl)'
      BY <2>1, <2>2, <2>3, TokensStay DEF KeywordRead
    <3> QED
      BY <2>1, <2>2, <2>3, <3>1, <3>2
  <2>8. here' = decl'.loc + 2 /\ decl'.items = <<>>
    BY <2>1, <2>2, <2>3
  <2>9. DeclSoFar'
    BY <2>5, <2>7, <2>8 DEF DeclSoFar, InDeclaration, InItem
  <2> QED
    BY <1>2, <2>1, <2>4, <2>6, <2>9, NotAccepted DEF IInv, Take, Go
<1> QED
  BY <1>1, <1>2 DEF DeclarationName

LEMMA OpenInv == IInv /\ Open => IInv'
<1> SUFFICES ASSUME IInv, Open PROVE IInv'
  OBVIOUS
<1>1. CASE Expected("open", {"LBRACE"})
  BY <1>1, ExpectedInv
<1>2. CASE pc = "open" /\ Take("LBRACE", "items") /\ UNCHANGED <<schema, decl, item>>
  <2> PICK h : h = here
    OBVIOUS
  <2>1. /\ Grown /\ h \in Nat /\ here' = h + 1 /\ EndIsLast' /\ Is(h, "LBRACE")'
        /\ tokens' \in Seq(Alphabet \cup {EndOfFile}) /\ here' \in 1 .. MaxTokens + 1
    BY <1>2, Taken DEF Take
  <2>2. /\ h = decl.loc + 2 /\ decl.items = <<>> /\ decl.loc \in Nat
        /\ DeclsEnd(decl.loc) /\ KeywordRead(decl) /\ IsName(decl.loc + 1, decl.name)
    BY <1>2, TypeFacts DEF IInv, DeclSoFar, InDeclaration
  <2>3. TypeOK'
    BY <1>2, <2>1 DEF IInv, TypeOK, Take, Go, InDeclaration
  <2>4. pc' = "items"
    BY <1>2 DEF Take, Go
  <2>5. NamespaceSoFar'
    BY <1>2, <2>1, <2>4, NamespaceFrame DEF InDeclaration
  <2>6. DeclsEnd(decl.loc)' /\ KeywordRead(decl)' /\ IsName(decl.loc + 1, decl.name)'
    <3>1. DeclsEnd(decl.loc)'
      BY <1>2, <2>1, <2>2, NamesStay
    <3>2. KeywordRead(decl)' /\ IsName(decl.loc + 1, decl.name)'
      BY <1>2, <2>1, <2>2, TokensStay, SMTT(20) DEF KeywordRead
    <3> QED
      BY <3>1, <3>2
  <2>7. DeclSoFar'
    BY <1>2, <2>1, <2>2, <2>4, <2>6 DEF DeclSoFar, InDeclaration, InItem
  <2>8. ItemsEnd(decl, here)'
    <3> PICK b : b = here'
      OBVIOUS
    <3>1. decl'.items = <<>> /\ decl'.loc + 3 = b
      BY <1>2, <2>1, <2>2
    <3>2. FieldsFill(<<>>, b, b)' /\ ValuesFill(<<>>, b, b)'
      BY NoneYet
    <3> QED
      BY <3>1, <3>2, Zenon DEF ItemsEnd
  <2>9. ItemSoFar'
    BY <2>4, <2>8 DEF ItemSoFar, InItem
  <2> QED
    BY <1>2, <2>1, <2>3, <2>5, <2>7, <2>9, NotAccepted DEF IInv, Take, Go
<1> QED
  BY <1>1, <1>2 DEF Open, consume
LEMMA CloseInv == IInv /\ Close => IInv'
<1> SUFFICES ASSUME IInv, Close PROVE IInv'
  OBVIOUS
<1>1. CASE pc = "items" /\ check("END_OF_FILE") /\ error
  BY <1>1, UnreadGrows, Thrown DEF error, Stop
<1>2. CASE /\ pc = "items"
           /\ Take("RBRACE", "declarations")
           /\ schema' = [schema EXCEPT !.decls = Append(@, decl)]
           /\ decl' = NoDecl
           /\ UNCHANGED item
  <2> PICK h : h = here
    OBVIOUS
  <2> PICK d : d = decl
    OBVIOUS
  <2> PICK s : s = schema.decls
    OBVIOUS
  <2>1. /\ Grown /\ h \in Nat /\ here' = h + 1 /\ EndIsLast' /\ Is(h, "RBRACE")'
        /\ tokens' \in Seq(Alphabet \cup {EndOfFile}) /\ here' \in 1 .. MaxTokens + 1
    BY <1>2, Taken DEF Take
  <2>2. pc' = "declarations"
    BY <1>2 DEF Take, Go
  <2>3. s \in Seq(ADecl) /\ d \in ADecl /\ NameCount \in Nat
    BY TypeFacts DEF IInv, TypeOK
  <2>4. /\ schema' \in [names : Seq(Names), decls : Seq(ADecl)]
        /\ schema'.names = schema.names /\ schema'.decls = Append(s, d) /\ NameCount' = NameCount
    <3>1. Append(s, d) \in Seq(ADecl)
      BY <2>3
    <3>2. schema' = [schema EXCEPT !.decls = Append(s, d)]
      BY <1>2
    <3> QED
      BY <3>1, <3>2, Zenon DEF IInv, TypeOK, NameCount
  <2>5. decl' \in ADecl
    BY <1>2 DEF NoDecl, ADecl, Spelled
  <2>6. TypeOK'
    BY <1>2, <2>1, <2>4, <2>5 DEF IInv, TypeOK, Take, Go
  <2>7. NamesRead' /\ Is(2 * NameCount + 1, "SEMICOLON")'
    <3>1. NamesRead /\ Is(2 * NameCount + 1, "SEMICOLON")
      BY <1>2 DEF IInv, NamespaceSoFar, InDeclaration
    <3> QED
      BY <2>1, <2>4, <3>1, TokensStay DEF NamesRead
  <2>8. NamespaceSoFar' /\ ItemSoFar'
    BY <2>2, <2>7 DEF NamespaceSoFar, ItemSoFar, InDeclaration, InItem
  <2>9. DeclAt(d, d.loc, h + 1)'
    <3>1. KeywordRead(d) /\ IsName(d.loc + 1, d.name) /\ Is(d.loc + 2, "LBRACE") /\ ItemsEnd(d, h)
      BY <1>2 DEF IInv, DeclSoFar, ItemSoFar, InDeclaration
    <3>2. KeywordRead(d)' /\ IsName(d.loc + 1, d.name)' /\ Is(d.loc + 2, "LBRACE")'
      BY <2>1, <3>1, TokensStay DEF KeywordRead
    <3>3. ItemsEnd(d, h)'
      BY <2>1, <3>1, TilesStay
    <3>4. (h + 1) - 1 = h
      BY <2>1
    <3> QED
      BY <2>1, <3>2, <3>3, <3>4, Zenon DEF DeclAt, KeywordRead, ItemsEnd, FieldsFill, ValuesFill
  <2>10. DeclsEnd(here)'
    <3> PICK a : a = 2 * NameCount + 2
      OBVIOUS
    <3>1. DeclsFill(s, a, d.loc)
      BY <1>2 DEF IInv, DeclSoFar, DeclsEnd, InDeclaration
    <3>2. DeclsFill(s, a, d.loc)'
      BY <2>1, <3>1, TilesStay
    <3> PICK more : more = Append(s, d)
      BY Zenon
    <3>3. Extended(s, d, h + 1, more)
      BY <2>3, Appended, Zenon
    <3>4. DeclsFill(more, a, h + 1)'
      BY <2>9, <3>2, <3>3, OneMoreDecl, Zenon
    <3> QED
      BY <2>1, <2>4, <3>4, Zenon DEF DeclsEnd
  <2>11. DeclSoFar'
    BY <1>2, <2>2, <2>10 DEF DeclSoFar, InDeclaration, InItem
  <2> QED
    BY <1>2, <2>1, <2>6, <2>8, <2>11, NotAccepted DEF IInv, Take, Go
<1> QED
  BY <1>1, <1>2 DEF Close

-----------------------------------------------------------------------------
(* Items *)

LEMMA BeginItemInv == IInv /\ BeginItem => IInv'
<1> SUFFICES ASSUME IInv, BeginItem PROVE IInv'
  OBVIOUS
<1>1. /\ Grown /\ EndIsLast' /\ here' = here
      /\ tokens' \in Seq(Alphabet \cup {EndOfFile}) /\ here' \in 1 .. MaxTokens + 1
  BY UnreadGrows DEF BeginItem
<1> PICK h : h = here
  OBVIOUS
<1>2. h \in Nat /\ h >= 1
  BY TypeFacts DEF IInv
<1>3. item' = [loc |-> h, mods |-> {}, type |-> Nothing, name |-> Nothing, number |-> 0]
  BY DEF BeginItem, NoItem
<1>4. item' \in AField
  BY <1>2, <1>3, BoundsAssumption, LengthAssumption DEF AField, Spelled, Ints
<1>5. pc' = (IF decl.kind = "enum" THEN "item_name" ELSE "type") /\ pc' \in InItem
  BY DEF BeginItem, Go, InItem
<1>6. TypeOK'
  BY <1>1, <1>4, <1>5 DEF IInv, TypeOK, BeginItem, Go, InDeclaration, InItem
<1>7. NamespaceSoFar' /\ DeclSoFar'
  BY <1>1, <1>5, NamespaceFrame, DeclFrame DEF BeginItem, InDeclaration
<1>8. ItemsEnd(decl, item.loc)'
  BY <1>1, <1>3, TilesStay DEF BeginItem, IInv, ItemSoFar
<1>9. IF decl'.kind = "enum" THEN ItemRead(1)' ELSE ItemRead(0)'
  <2>1. CASE decl'.kind = "enum"
    BY <1>1, <1>2, <1>3, <2>1 DEF ItemRead, ValueRead
  <2>2. CASE decl'.kind # "enum"
    <3>1. \A k : k \notin h .. h - 0 - 1
      BY <1>2
    <3>2. \A k : k \notin (item.loc .. here - 0 - 1)'
      BY <1>1, <1>3, <3>1
    <3> QED
      BY <1>1, <1>2, <1>3, <2>2, <3>2 DEF ItemRead, FieldRead
  <2> QED
    BY <2>1, <2>2
<1>10. ItemSoFar'
  BY <1>2, <1>3, <1>5, <1>8, <1>9 DEF ItemSoFar, InItem, BeginItem
<1> QED
  BY <1>1, <1>6, <1>7, <1>10, NotAccepted DEF IInv, BeginItem, Go

\* One more token of the item: the earlier ones are where they were.
LEMMA ItemMoves ==
  ASSUME Grown, NEW h \in Nat, h = here, here' = h + 1, NEW n \in 0 .. 3, ItemRead(n), UNCHANGED decl,
         item.loc \in Nat, item'.loc = item.loc, item'.mods = item.mods,
         n >= 1 => item'.type = item.type, n >= 2 => item'.name = item.name,
         n = 0 => IsType(h, item.type)', n = 1 => IsName(h, item.name)',
         n = 2 => Is(h, "EQUALS")', n = 3 => IsNumber(h, item.number)'
  PROVE  ItemRead(n + 1)'
<1>1. CASE decl.kind = "enum"
  <2>1. ValueRead(n)
    BY <1>1 DEF ItemRead
  <2>2. here' = item'.loc + n + 1 - 1 /\ item'.loc + n - 1 = h
    BY <2>1 DEF ValueRead
  <2>3. n + 1 >= 2 => IsName(item.loc, item.name)'
    <3>1. CASE n = 1
      BY <3>1, <2>2
    <3>2. CASE n >= 2
      BY <3>2, <2>1, TokensStay DEF ValueRead
    <3> QED
      BY <3>1, <3>2
  <2>4. n + 1 >= 3 => Is(item.loc + 1, "EQUALS")'
    BY <2>1, <2>2, TokensStay, SMTT(20) DEF ValueRead
  <2>5. n + 1 >= 4 => IsNumber(item.loc + 2, item.number)'
    BY <2>1, <2>2, TokensStay DEF ValueRead
  <2> QED
    BY <1>1, <2>2, <2>3, <2>4, <2>5, SMTT(20) DEF ItemRead, ValueRead
<1>2. CASE decl.kind # "enum"
  <2> PICK a : a = item.loc
    OBVIOUS
  <2> PICK t : t = h - n
    OBVIOUS
  <2>1. FieldRead(n)
    BY <1>2 DEF ItemRead
  <2>2. /\ here - n = t /\ here' - (n + 1) = t /\ item'.loc = a /\ a <= t /\ t \in Int
        /\ item.mods = Written(a, t - 1) /\ \A k \in a .. t - 1 : IsModifier(k)
    BY <2>1 DEF FieldRead, Written
  <2>3. item'.mods = Written(a, t - 1)' /\ \A k \in a .. t - 1 : IsModifier(k)'
    BY <2>2, ModifiersStay
  <2>4. /\ n >= 1 => IsType(t, item.type)
        /\ n >= 2 => IsName(t + 1, item.name)
        /\ n >= 3 => Is(t + 2, "EQUALS")
    BY <2>1, <2>2 DEF FieldRead
  <2>5. /\ n >= 1 => IsType(t, item.type)'
        /\ n >= 2 => IsName(t + 1, item.name)'
        /\ n >= 3 => Is(t + 2, "EQUALS")'
    BY <2>4, TokensStay, SMTT(20)
  <2>6. n \in {0, 1, 2, 3} /\ h = t + n
    BY <2>2, SMTT(20)
  <2>7. /\ n + 1 >= 1 => IsType(t, item.type)'
        /\ n + 1 >= 2 => IsName(t + 1, item.name)'
        /\ n + 1 >= 3 => Is(t + 2, "EQUALS")'
        /\ n + 1 >= 4 => IsNumber(t + 3, item.number)'
    BY <2>2, <2>5, <2>6
  <2>8. FieldRead(n + 1)'
    BY <2>2, <2>3, <2>7, Zenon DEF FieldRead, Written
  <2> QED
    BY <1>2, <2>8 DEF ItemRead
<1> QED
  BY <1>1, <1>2
\* A step inside an item that reads one token.
LEMMA ItemFrame ==
  ASSUME IInv, pc \in InItem, pc' \in InItem, UNCHANGED <<schema, decl, outcome>>,
         Grown, EndIsLast', tokens' \in Seq(Alphabet \cup {EndOfFile}), here' \in 1 .. MaxTokens + 1,
         item' \in AField, item'.loc = item.loc, ItemSoFar'
  PROVE  IInv'
<1>1. TypeOK'
  BY DEF IInv, TypeOK, InDeclaration, InItem
<1>2. NamespaceSoFar' /\ DeclSoFar'
  BY NamespaceFrame, DeclFrame DEF InDeclaration
<1>3. AcceptedIsTheText'
  BY NotAccepted DEF InItem
<1> QED
  BY <1>1, <1>2, <1>3 DEF IInv

LEMMA ItemsEndStays ==
  ASSUME IInv, pc \in InItem, Grown, UNCHANGED decl, item'.loc = item.loc
  PROVE  ItemsEnd(decl, item.loc)' /\ item'.loc >= 1
  BY TilesStay DEF IInv, ItemSoFar

LEMMA ModifiersInv == IInv /\ parse_modifiers => IInv'
<1> SUFFICES ASSUME IInv, parse_modifiers PROVE IInv'
  OBVIOUS
<1> PICK h : h = here
  OBVIOUS
<1> PICK a : a = item.loc
  OBVIOUS
<1> PICK type : type = current_token.type
  OBVIOUS
<1>1. pc = "type" /\ type \in DOMAIN FieldModifier /\ type # "END_OF_FILE" /\ check(type)
  BY DEF parse_modifiers, is_field_modifier, FieldModifier, check
<1>2. /\ Grown /\ h \in Nat /\ h >= 1 /\ here' = h + 1 /\ EndIsLast' /\ Is(h, type)'
      /\ tokens' \in Seq(Alphabet \cup {EndOfFile}) /\ here' \in 1 .. MaxTokens + 1
  BY <1>1, Taken DEF parse_modifiers
<1>3. /\ item' \in AField /\ item'.loc = a /\ a \in Nat
      /\ item'.mods = item.mods \cup {FieldModifier[type]}
  BY <1>1 DEF parse_modifiers, IInv, TypeOK, AField
<1>4. decl.kind # "enum" /\ FieldRead(0)
  BY <1>1 DEF IInv, ItemSoFar, ItemRead, ValueRead
<1>5. /\ a <= h /\ item.mods = Written(a, h - 1)
      /\ \A k \in a .. h - 1 : IsModifier(k)
  <2>1. here - 0 = h /\ here - 0 - 1 = h - 1
    BY <1>2
  <2> QED
    BY <1>4, <2>1 DEF FieldRead, Written
<1>6. Written(a, h - 1)' = Written(a, h - 1) /\ \A k \in a .. h - 1 : IsModifier(k)'
  BY <1>2, <1>5, ModifiersStay
<1>7. IsModifier(h)' /\ tokens'[h].type = type
  BY <1>1, <1>2 DEF IsModifier, is_field_modifier, Is
<1>8. \A k : k \in a .. h <=> k \in a .. h - 1 \/ k = h
  BY <1>2, <1>3, <1>5
<1>9. Written(a, h)' = Written(a, h - 1)' \cup {FieldModifier[type]}
  BY <1>7, <1>8 DEF Written
<1>10. ItemRead(0)'
  <2>1. here' - 0 - 1 = h /\ here' - 0 = h + 1 /\ a <= h + 1
    BY <1>2, <1>3, <1>5
  <2>2. item'.mods = Written(a, h)' /\ \A k \in a .. h : IsModifier(k)'
    BY <1>3, <1>5, <1>6, <1>7, <1>8, <1>9
  <2>3. FieldRead(0)'
    BY <1>3, <2>1, <2>2 DEF FieldRead, Written
  <2> QED
    BY <1>4, <2>3 DEF ItemRead, parse_modifiers
<1>11. ItemSoFar'
  BY <1>1, <1>2, <1>3, <1>10, ItemsEndStays DEF ItemSoFar, InItem, parse_modifiers
<1> QED
  BY <1>1, <1>2, <1>3, <1>11, ItemFrame DEF InItem, parse_modifiers

LEMMA TypeInv == IInv /\ parse_type => IInv'
<1> SUFFICES ASSUME IInv, parse_type PROVE IInv'
  OBVIOUS
<1>1. CASE Expected("type", PrimitiveTypes \cup DOMAIN FieldModifier \cup {"IDENTIFIER"})
  BY <1>1, ExpectedInv
<1>2. CASE /\ pc = "type"
           /\ is_primitive_type(current_token.type) \/ check("IDENTIFIER")
           /\ advance
           /\ item' = [item EXCEPT !.type = IF check("IDENTIFIER") THEN current_token.name
                                            ELSE token_to_primitive_type[current_token.type]]
           /\ Go("item_name")
           /\ UNCHANGED <<schema, decl>>
  <2> PICK h : h = here
    OBVIOUS
  <2> PICK type : type = current_token.type
    OBVIOUS
  <2> PICK x : x = IF check("IDENTIFIER") THEN current_token.name ELSE type
    OBVIOUS
  <2>1. check(type) /\ type \in PrimitiveTypes \cup {"IDENTIFIER"}
    BY <1>2 DEF check, is_primitive_type
  <2>2. type # "END_OF_FILE" /\ "IDENTIFIER" \notin PrimitiveTypes
    BY <2>1 DEF PrimitiveTypes, NumberKinds, IntKinds, SignedKinds, UnsignedKinds, FloatKinds
  <2>3. /\ Grown /\ h \in Nat /\ here' = h + 1 /\ EndIsLast' /\ Is(h, type)'
        /\ tokens' \in Seq(Alphabet \cup {EndOfFile}) /\ here' \in 1 .. MaxTokens + 1
        /\ type = "IDENTIFIER" => x \in Names /\ IsName(h, x)'
    BY <1>2, <2>1, <2>2, Taken DEF check
  <2>4. x \in Names \cup PrimitiveTypes /\ IsType(h, x)'
    <3>1. CASE type = "IDENTIFIER"
      BY <3>1, <2>3, AlphabetAssumption DEF IsType, is_primitive_type
    <3>2. CASE type # "IDENTIFIER"
      BY <3>2, <2>1, <2>3 DEF IsType, is_primitive_type, check
    <3> QED
      BY <3>1, <3>2
  <2>5. item' = [item EXCEPT !.type = x]
    BY <1>2, <2>1 DEF token_to_primitive_type, check
  <2>6. /\ item' \in AField /\ item.loc \in Nat
        /\ item'.loc = item.loc /\ item'.type = x /\ item'.mods = item.mods
    BY <2>4, <2>5, Zenon DEF IInv, TypeOK, AField, Spelled
  <2>7. ItemRead(1)'
    <3>1. ItemRead(0) /\ IsType(h, item.type)'
      BY <1>2, <2>4, <2>6 DEF IInv, ItemSoFar
    <3>2. ItemRead(0 + 1)'
      BY <1>2, <2>3, <2>6, <3>1, ItemMoves
    <3> QED
      BY <3>2
  <2>8. pc' = "item_name"
    BY <1>2 DEF Go
  <2>9. ItemSoFar'
    BY <1>2, <2>3, <2>6, <2>7, <2>8, ItemsEndStays DEF ItemSoFar, InItem
  <2> QED
    BY <1>2, <2>3, <2>6, <2>8, <2>9, ItemFrame DEF InItem, Go
<1> QED
  BY <1>1, <1>2 DEF parse_type

LEMMA ItemNameInv == IInv /\ ItemName => IInv'
<1> SUFFICES ASSUME IInv, ItemName PROVE IInv'
  OBVIOUS
<1>1. CASE Expected("item_name", {"IDENTIFIER"})
  BY <1>1, ExpectedInv
<1>2. CASE /\ pc = "item_name"
           /\ Take("IDENTIFIER", "equals")
           /\ item' = [item EXCEPT !.name = current_token.name]
           /\ UNCHANGED <<schema, decl>>
  <2> PICK h : h = here
    OBVIOUS
  <2> PICK x : x = current_token.name
    OBVIOUS
  <2>1. /\ Grown /\ h \in Nat /\ here' = h + 1 /\ EndIsLast'
        /\ tokens' \in Seq(Alphabet \cup {EndOfFile}) /\ here' \in 1 .. MaxTokens + 1
        /\ x \in Names /\ IsName(h, x)'
    BY <1>2, Taken DEF Take
  <2>2. /\ item' \in AField /\ item.loc \in Nat /\ item'.name = x
        /\ item'.loc = item.loc /\ item'.type = item.type /\ item'.mods = item.mods
    BY <1>2, <2>1, Zenon DEF IInv, TypeOK, AField, Spelled
  <2>3. ItemRead(2)'
    <3>1. ItemRead(1) /\ IsName(h, item.name)'
      BY <1>2, <2>1, <2>2 DEF IInv, ItemSoFar
    <3>2. ItemRead(1 + 1)'
      BY <1>2, <2>1, <2>2, <3>1, ItemMoves
    <3> QED
      BY <3>2
  <2>4. pc' = "equals" /\ UNCHANGED outcome
    BY <1>2 DEF Take, Go
  <2>5. ItemSoFar'
    BY <1>2, <2>1, <2>2, <2>3, <2>4, ItemsEndStays DEF ItemSoFar, InItem
  <2> QED
    BY <1>2, <2>1, <2>2, <2>4, <2>5, ItemFrame DEF InItem
<1> QED
  BY <1>1, <1>2 DEF ItemName

LEMMA EqualsSignInv == IInv /\ EqualsSign => IInv'
<1> SUFFICES ASSUME IInv, EqualsSign PROVE IInv'
  OBVIOUS
<1>1. CASE Expected("equals", {"EQUALS"})
  BY <1>1, ExpectedInv
<1>2. CASE pc = "equals" /\ Take("EQUALS", "number") /\ UNCHANGED <<schema, decl, item>>
  <2> PICK h : h = here
    OBVIOUS
  <2>1. /\ Grown /\ h \in Nat /\ here' = h + 1 /\ EndIsLast' /\ Is(h, "EQUALS")'
        /\ tokens' \in Seq(Alphabet \cup {EndOfFile}) /\ here' \in 1 .. MaxTokens + 1
    BY <1>2, Taken DEF Take
  <2>2. item' \in AField /\ item.loc \in Nat
    BY <1>2, TypeFacts DEF IInv, TypeOK
  <2>3. ItemRead(3)'
    <3>1. ItemRead(2)
      BY <1>2 DEF IInv, ItemSoFar
    <3>2. ItemRead(2 + 1)'
      BY <1>2, <2>1, <2>2, <3>1, ItemMoves
    <3> QED
      BY <3>2
  <2>4. pc' = "number" /\ UNCHANGED outcome
    BY <1>2 DEF Take, Go
  <2>5. ItemSoFar'
    BY <1>2, <2>1, <2>2, <2>3, <2>4, ItemsEndStays DEF ItemSoFar, InItem
  <2> QED
    BY <1>2, <2>1, <2>2, <2>4, <2>5, ItemFrame DEF InItem
<1> QED
  BY <1>1, <1>2 DEF EqualsSign, consume
LEMMA NumberInv == IInv /\ Number => IInv'
<1> SUFFICES ASSUME IInv, Number PROVE IInv'
  OBVIOUS
<1> PICK h : h = here
  OBVIOUS
<1> PICK x : x = current_token.number
  OBVIOUS
<1>1. CASE Expected("number", {"NUMBER"})
  BY <1>1, ExpectedInv
<1>2. ASSUME pc = "number", check("NUMBER"), advance
      PROVE  /\ Grown /\ h \in Nat /\ here' = h + 1 /\ EndIsLast'
             /\ tokens' \in Seq(Alphabet \cup {EndOfFile}) /\ here' \in 1 .. MaxTokens + 1
             /\ x \in Int /\ IsNumber(h, x)'
  BY <1>2, Taken
<1>3. CASE /\ pc = "number" /\ check("NUMBER") /\ advance
           /\ \E n \in stoi(x) : item' = [item EXCEPT !.number = n] /\ Go("semicolon")
           /\ UNCHANGED <<schema, decl>>
  <2>1. x \in Ints /\ item' = [item EXCEPT !.number = x] /\ pc' = "semicolon" /\ UNCHANGED outcome
    BY <1>3 DEF stoi, Ints, Go
  <2>2. /\ item' \in AField /\ item.loc \in Nat /\ item'.number = x /\ item'.name = item.name
        /\ item'.loc = item.loc /\ item'.type = item.type /\ item'.mods = item.mods
    BY <2>1 DEF IInv, TypeOK, AField
  <2>3. ItemRead(4)'
    <3>1. ItemRead(3) /\ IsNumber(h, item.number)'
      BY <1>2, <1>3, <2>2 DEF IInv, ItemSoFar
    <3>2. ItemRead(3 + 1)'
      BY <1>2, <1>3, <2>2, <3>1, ItemMoves
    <3> QED
      BY <3>2
  <2>4. ItemSoFar'
    BY <1>2, <1>3, <2>1, <2>2, <2>3, ItemsEndStays DEF ItemSoFar, InItem
  <2> QED
    BY <1>2, <1>3, <2>1, <2>2, <2>4, ItemFrame DEF InItem
<1>4. CASE /\ pc = "number" /\ check("NUMBER") /\ advance
           /\ Stop("out_of_range") /\ UNCHANGED item
           /\ UNCHANGED <<schema, decl>>
  BY <1>2, <1>4, Thrown DEF Stop
<1> QED
  BY <1>1, <1>3, <1>4 DEF Number

\* The item that push_back adds fills the text up to the token behind its semicolon.
LEMMA ItemWritten ==
  ASSUME Grown, NEW h \in Nat, h = here, here' = h + 1, ItemRead(4), Is(h, "SEMICOLON")',
         item \in AField, NEW e, e = Item
  PROVE  IF decl.kind = "enum" THEN ValueAt(e, e.loc, h + 1)' ELSE FieldAt(e, e.loc, h + 1)'
<1> PICK a : a = item.loc
  OBVIOUS
<1>1. CASE decl.kind = "enum"
  <2>1. e.loc = a /\ e.name = item.name /\ e.value = item.number
    BY <1>1 DEF Item
  <2>2. ValueRead(4) /\ a \in Nat
    BY <1>1 DEF ItemRead, AField
  <2>3. h + 1 = a + 4 /\ h = a + 3
    BY <2>2 DEF ValueRead
  <2>4. IsName(a, e.name)' /\ Is(a + 1, "EQUALS")' /\ IsNumber(a + 2, e.value)'
    BY <2>1, <2>2, TokensStay, SMTT(20) DEF ValueRead
  <2> QED
    BY <1>1, <2>1, <2>3, <2>4 DEF ValueAt
<1>2. CASE decl.kind # "enum"
  <2>1. e = item /\ e.loc = a /\ FieldRead(4)
    BY <1>2 DEF Item, ItemRead
  <2>2. /\ here - 4 = (h + 1) - 5 /\ here - 4 - 1 = (h + 1) - 6 /\ here - 4 + 1 = (h + 1) - 4
        /\ here - 4 + 2 = (h + 1) - 3 /\ here - 4 + 3 = (h + 1) - 2 /\ h = (h + 1) - 1
    OBVIOUS
  <2>3. /\ \A k \in a .. (h + 1) - 6 : IsModifier(k)
        /\ e.mods = Written(a, (h + 1) - 6)
        /\ IsType((h + 1) - 5, e.type) /\ IsName((h + 1) - 4, e.name) /\ Is((h + 1) - 3, "EQUALS")
        /\ IsNumber((h + 1) - 2, e.number)
    BY <2>1, <2>2 DEF FieldRead, Written
  <2>4. (\A k \in a .. (h + 1) - 6 : IsModifier(k)') /\ e.mods = Written(a, (h + 1) - 6)'
    BY <2>3, ModifiersStay
  <2>5. /\ IsType((h + 1) - 5, e.type)' /\ IsName((h + 1) - 4, e.name)' /\ Is((h + 1) - 3, "EQUALS")'
        /\ IsNumber((h + 1) - 2, e.number)' /\ Is((h + 1) - 1, "SEMICOLON")'
    BY <2>2, <2>3, TokensStay
  <2> QED
    BY <1>2, <2>1, <2>4, <2>5, Zenon DEF FieldAt, Written
<1> QED
  BY <1>1, <1>2

LEMMA EndItemInv == IInv /\ EndItem => IInv'
<1> SUFFICES ASSUME IInv, EndItem PROVE IInv'
  OBVIOUS
<1>1. CASE Expected("semicolon", {"SEMICOLON"})
  BY <1>1, ExpectedInv
<1>2. CASE /\ pc = "semicolon"
           /\ Take("SEMICOLON", "items")
           /\ decl' = [decl EXCEPT !.items = Append(@, Item)]
           /\ UNCHANGED <<schema, item>>
  <2> PICK h : h = here
    OBVIOUS
  <2> PICK e : e = Item
    OBVIOUS
  <2> PICK s : s = decl.items
    OBVIOUS
  <2>1. /\ Grown /\ h \in Nat /\ here' = h + 1 /\ EndIsLast' /\ Is(h, "SEMICOLON")'
        /\ tokens' \in Seq(Alphabet \cup {EndOfFile}) /\ here' \in 1 .. MaxTokens + 1
    BY <1>2, Taken DEF Take
  <2>2. pc' = "items" /\ UNCHANGED outcome
    BY <1>2 DEF Take, Go
  <2>3. s \in Seq(AField \cup AValue) /\ item \in AField /\ decl \in ADecl
    <3>1. item \in AField /\ decl \in ADecl
      BY DEF IInv, TypeOK
    <3> QED
      BY <3>1, TypeFacts DEF IInv
  <2>4. e \in AField \cup AValue /\ e.loc = item.loc
    BY <2>3 DEF Item, AField, AValue
  <2>5. /\ decl' \in ADecl /\ decl'.items = Append(s, e)
        /\ decl'.kind = decl.kind /\ decl'.loc = decl.loc /\ decl'.name = decl.name
    <3>1. Append(s, e) \in Seq(AField \cup AValue)
      BY <2>3, <2>4
    <3>2. decl' = [decl EXCEPT !.items = Append(s, e)]
      BY <1>2
    <3> QED
      BY <2>3, <3>1, <3>2, Zenon DEF ADecl
  <2>6. decl.kind # "none"
    BY <1>2 DEF IInv, DeclSoFar, InDeclaration, InItem, KeywordRead, Kind
  <2>7. TypeOK'
    BY <1>2, <2>1, <2>2, <2>5, <2>6 DEF IInv, TypeOK, InDeclaration
  <2>8. NamespaceSoFar' /\ DeclSoFar'
    BY <1>2, <2>1, <2>2, <2>5, NamespaceFrame, DeclFrame DEF InDeclaration, InItem
  <2>9. ItemsEnd(decl, here)'
    <3> PICK a : a = decl.loc + 3
      OBVIOUS
    <3> PICK more : more = Append(s, e)
      BY Zenon
    <3>1. ItemsEnd(decl, item.loc) /\ ItemRead(4)
      BY <1>2 DEF IInv, ItemSoFar, InItem
    <3>2. Extended(s, e, h + 1, more)
      BY <2>3, Appended, Zenon
    <3>3. IF decl.kind = "enum" THEN ValueAt(e, e.loc, h + 1)' ELSE FieldAt(e, e.loc, h + 1)'
      BY <2>1, <2>3, <3>1, ItemWritten
    <3>4. CASE decl.kind = "enum"
      <4>1. ValuesFill(s, a, e.loc)
        BY <2>4, <3>1, <3>4 DEF ItemsEnd
      <4>2. ValuesFill(s, a, e.loc)'
        BY <2>1, <4>1, TilesStay
      <4>3. ValuesFill(more, a, h + 1)'
        BY <3>2, <3>3, <3>4, <4>2, OneMoreValue, Zenon
      <4> QED
        BY <2>1, <2>5, <3>4, <4>3, Zenon DEF ItemsEnd
    <3>5. CASE decl.kind # "enum"
      <4>1. FieldsFill(s, a, e.loc)
        BY <2>4, <3>1, <3>5 DEF ItemsEnd
      <4>2. FieldsFill(s, a, e.loc)'
        BY <2>1, <4>1, TilesStay
      <4>3. FieldsFill(more, a, h + 1)'
        BY <3>2, <3>3, <3>5, <4>2, OneMoreField, Zenon
      <4> QED
        BY <2>1, <2>5, <3>5, <4>3, Zenon DEF ItemsEnd
    <3> QED
      BY <3>4, <3>5
  <2>10. ItemSoFar'
    BY <2>2, <2>9 DEF ItemSoFar, InItem
  <2> QED
    BY <1>2, <2>1, <2>2, <2>7, <2>8, <2>10, NotAccepted DEF IInv
<1> QED
  BY <1>1, <1>2 DEF EndItem

-----------------------------------------------------------------------------
(* The invariant *)

LEMMA StutterInv == IInv /\ UNCHANGED vars => IInv'
<1> SUFFICES ASSUME IInv, UNCHANGED vars PROVE IInv'
  OBVIOUS
<1> USE DEF vars
<1>1. Grown /\ EndIsLast' /\ here' = here
  BY UnreadGrows
<1>2. TypeOK'
  BY DEF IInv, TypeOK, here
<1>3. NamespaceSoFar' /\ AcceptedIsTheText'
  <2>1. NamesRead => NamesRead'
    BY <1>1, NamesStay
  <2>2. /\ NameCount' = NameCount
        /\ \A k : Is(k, "SEMICOLON") => Is(k, "SEMICOLON")'
        /\ \A k : Is(k, "DOT") => Is(k, "DOT")'
        /\ \A k : Is(k, "END_OF_FILE") => Is(k, "END_OF_FILE")'
    BY <1>1, NamesStay, TokensStay
  <2>3. \A b : DeclsEnd(b) => DeclsEnd(b)'
    BY <1>1, NamesStay
  <2>4. NamespaceSoFar'
    BY <1>1, <2>1, <2>2 DEF IInv, NamespaceSoFar
  <2>5. AcceptedIsTheText <=>
          (outcome = "schema" =>
             NamesRead /\ Is(2 * NameCount + 1, "SEMICOLON") /\ DeclsEnd(here) /\ Is(here, "END_OF_FILE"))
    BY Zenon DEF AcceptedIsTheText, NamesRead, NameCount, DeclsEnd, DeclsFill
  <2>6. outcome' = "schema" =>
          (NamesRead /\ Is(2 * NameCount + 1, "SEMICOLON") /\ DeclsEnd(here) /\ Is(here, "END_OF_FILE"))'
    BY <1>1, <2>1, <2>2, <2>3, <2>5 DEF IInv
  <2>7. AcceptedIsTheText'
    BY <2>6, Zenon DEF AcceptedIsTheText, NamesRead, NameCount, DeclsEnd, DeclsFill
  <2> QED
    BY <2>4, <2>7
<1>4. DeclSoFar'
  <2>1. \A b : DeclsEnd(b) => DeclsEnd(b)'
    BY <1>1, NamesStay
  <2>2. KeywordRead(decl) => KeywordRead(decl)'
    BY <1>1, TokensStay DEF KeywordRead
  <2>3. /\ \A k, x : IsName(k, x) => IsName(k, x)'
        /\ \A k, type : Is(k, type) => Is(k, type)'
    BY <1>1, TokensStay
  <2> QED
    BY <1>1, <2>1, <2>2, <2>3, SMTT(20) DEF IInv, DeclSoFar
<1>5. ItemSoFar'
  <2>1. \A d, b : ItemsEnd(d, b) => ItemsEnd(d, b)'
    BY <1>1, TilesStay
  <2>2. /\ \A k : IsModifier(k)' = IsModifier(k)
        /\ \A k, x : IsType(k, x)' = IsType(k, x) /\ IsName(k, x)' = IsName(k, x)
        /\ \A k, x : Is(k, x)' = Is(k, x) /\ IsNumber(k, x)' = IsNumber(k, x)
    BY DEF IsModifier, IsType, IsName, IsNumber, Is, here
  <2>3. \A n : ItemRead(n) => ItemRead(n)'
    BY <1>1, <2>2, SMTT(20) DEF ItemRead, FieldRead, ValueRead
  <2> QED
    BY <1>1, <2>1, <2>3 DEF IInv, ItemSoFar
<1> QED
  BY <1>1, <1>2, <1>3, <1>4, <1>5 DEF IInv

LEMMA NextInv == IInv /\ [Next]_vars => IInv'
  BY StutterInv, NamespaceWordInv, NamespaceNameInv, NamespaceRestInv, EndOfSchemaInv,
     DeclarationInv, DeclarationNameInv, OpenInv, CloseInv, BeginItemInv, ModifiersInv, TypeInv,
     ItemNameInv, EqualsSignInv, NumberInv, EndItemInv
     DEF Next

\* At every token the parser knows where in the text everything is that it has
\* parsed: the namespace, the declarations pushed to the schema, the items pushed
\* to the open declaration and the parts of the open item.
THEOREM Invariance == Spec => []IInv
  BY InitInv, NextInv, PTL DEF Spec

\* What the Parser holds has its type; in particular the number of a field or of an
\* enum value is an int, and no token behind the end of the file is asked for.
THEOREM TypeCorrect == Spec => []TypeOK
<1>1. IInv => TypeOK
  BY DEF IInv
<1> QED
  BY <1>1, Invariance, PTL

\* A Schema that parse_schema() returns is the meaning of the whole file, however
\* long: every token belongs to exactly one declaration, field or enum value, in
\* order, with the names, numbers, types and modifiers written there.
THEOREM SchemaIsTheText == Spec => []AcceptedIsTheText
<1>1. IInv => AcceptedIsTheText
  BY DEF IInv
<1> QED
  BY <1>1, Invariance, PTL

-----------------------------------------------------------------------------
(* The parser follows the automaton *)

\* The classes of the tokens that are read and left behind.
ReadWord == [k \in 1 .. here - 1 |-> Class(tokens[k])]

\* The automaton's state q is where the parser is; a begun item has no state of
\* its own before its first token is taken, which is no closing brace.
EnumPlace(q) ==
  \/ pc = "declaration_name" /\ q = "enum_name"
  \/ pc = "open" /\ q = "enum_open"
  \/ pc = "items" /\ q = "enum_items"
  \/ pc = "item_name" /\ q = "enum_items" /\ ~check("RBRACE")
  \/ pc = "equals" /\ q = "enum_equals"
  \/ pc = "number" /\ q = "enum_number"
  \/ pc = "semicolon" /\ q = "enum_semicolon"

ModelPlace(q) ==
  \/ pc = "declaration_name" /\ q = "model_name"
  \/ pc = "open" /\ q = "model_open"
  \/ pc = "items" /\ q = "model_items"
  \/ pc = "type" /\ q = "model_items" /\ ~check("RBRACE")
  \/ pc = "type" /\ q = "model_type"
  \/ pc = "item_name" /\ q = "model_item"
  \/ pc = "equals" /\ q = "model_equals"
  \/ pc = "number" /\ q = "model_number"
  \/ pc = "semicolon" /\ q = "model_semicolon"

Place(q) ==
  \/ pc \in {"namespace", "namespace_name", "namespace_rest", "declarations"} /\ q = pc
  \/ decl.kind = "enum" /\ EnumPlace(q)
  \/ decl.kind = "model" /\ ModelPlace(q)

Follows == pc # "done" => \E q : Place(q) /\ Path("namespace", ReadWord, q)

GrammarInv == Follows /\ ErrorAtFirstWrongToken

LEMMA TokenClasses ==
  ASSUME NEW t \in Token
  PROVE  /\ Class(t) \in Classes
         /\ t.type \in Words \cup {"IDENTIFIER", "NUMBER", "END_OF_FILE"} => Class(t) = t.type
         /\ is_field_modifier(t.type) <=> Class(t) = "modifier"
         /\ is_primitive_type(t.type) <=> Class(t) = "primitive"
         /\ Class(t) \notin {"modifier", "primitive"} => Class(t) = t.type
<1> DEFINE Mods == {"OPTIONAL", "REPEATED", "PACKED", "INTERNED", "BITMAP"}
           Others == Words \cup {"IDENTIFIER", "NUMBER", "END_OF_FILE"}
<1>1. DOMAIN FieldModifier = Mods
  BY SMTT(20) DEF FieldModifier
<1>2. t.type \in Others \cup PrimitiveTypes \cup Mods
  <2>1. CASE t \in {Plain(type) : type \in Words \cup FieldTypes \cup Modifiers}
    <3>1. PICK type \in Words \cup FieldTypes \cup Modifiers : t = Plain(type)
      BY <2>1
    <3>2. t.type = type
      BY <3>1 DEF Plain
    <3> QED  BY <3>2, AlphabetAssumption, Zenon
  <2>2. CASE t.type \in {"IDENTIFIER", "NUMBER", "END_OF_FILE"}
    BY <2>2
  <2>3. t \in {Plain(type) : type \in Words \cup FieldTypes \cup Modifiers} \/ t.type \in {"IDENTIFIER", "NUMBER", "END_OF_FILE"}
    BY DEF Token, Alphabet, EndOfFile, Plain
  <2> QED  BY <2>1, <2>2, <2>3
<1>3. /\ \A x \in Mods : x \notin PrimitiveTypes /\ x \notin Others
      /\ \A x \in PrimitiveTypes : x \notin Others
      /\ "modifier" \notin Others /\ "primitive" \notin Others
  BY DEF PrimitiveTypes, NumberKinds, IntKinds, SignedKinds, UnsignedKinds, FloatKinds, Words
<1>4. /\ t.type \in Mods => Class(t) = "modifier"
      /\ t.type \in PrimitiveTypes => Class(t) = "primitive"
      /\ t.type \in Others => Class(t) = t.type
  BY <1>1, <1>3 DEF Class, is_field_modifier, is_primitive_type
<1>5. Others \subseteq Classes /\ "modifier" \in Classes /\ "primitive" \in Classes
  BY DEF Classes
<1> HIDE DEF Mods, Others
<1>6. Class(t) \in Classes
  BY <1>2, <1>4, <1>5
<1>7. /\ t.type \in Mods <=> Class(t) = "modifier"
      /\ t.type \in PrimitiveTypes <=> Class(t) = "primitive"
      /\ Class(t) \notin {"modifier", "primitive"} => Class(t) = t.type
  BY <1>2, <1>3, <1>4
<1> QED  BY <1>1, <1>4, <1>6, <1>7 DEF is_field_modifier, is_primitive_type, Others

LEMMA ReadWordType ==
  ASSUME tokens \in Seq(Token), here \in 1 .. MaxTokens + 1
  PROVE  /\ ReadWord \in Seq(Classes) /\ Len(ReadWord) = here - 1
         /\ \A k \in 1 .. here - 1 : ReadWord[k] = Class(tokens[k])
<1>1. here \in Nat /\ here >= 1
  BY BoundsAssumption, LengthAssumption
<1>2. \A k \in 1 .. here - 1 : tokens[k] \in Token
  BY <1>1 DEF here
<1>3. \A k \in 1 .. here - 1 : Class(tokens[k]) \in Classes
  BY <1>2, TokenClasses
<1> QED  BY <1>1, <1>3 DEF ReadWord

LEMMA SameSequence ==
  ASSUME NEW S, NEW s \in Seq(S), NEW t \in Seq(S), Len(s) = Len(t), \A k \in 1 .. Len(s) : s[k] = t[k]
  PROVE  s = t
  OBVIOUS

\* The classes of all tokens.
AllClasses == [k \in 1 .. here |-> Class(tokens[k])]

LEMMA ClassesType ==
  ASSUME tokens \in Seq(Token), here \in 1 .. MaxTokens + 1
  PROVE  /\ AllClasses = Append(ReadWord, Class(current_token))
         /\ SubSeq(AllClasses, 1, here - 1) = ReadWord
<1> DEFINE c == Class(current_token)
           w == Append(ReadWord, c)
           v == SubSeq(AllClasses, 1, here - 1)
<1>1. here \in Nat /\ here >= 1 /\ \A k \in 1 .. here : tokens[k] \in Token
  BY BoundsAssumption, LengthAssumption DEF here
<1>2. \A k \in 1 .. here : Class(tokens[k]) \in Classes
  BY <1>1, TokenClasses
<1>3. /\ AllClasses \in Seq(Classes) /\ Len(AllClasses) = here
      /\ \A k \in 1 .. here : AllClasses[k] = Class(tokens[k])
  BY <1>1, <1>2 DEF AllClasses
<1>4. /\ ReadWord \in Seq(Classes) /\ Len(ReadWord) = here - 1
      /\ \A k \in 1 .. here - 1 : ReadWord[k] = Class(tokens[k])
  BY ReadWordType
<1>5. c = Class(tokens[here]) /\ c \in Classes
  BY <1>1, <1>2 DEF current_token
<1> HIDE DEF c
<1>6. AllClasses = w
  <2>1. w \in Seq(Classes) /\ Len(w) = here /\ w[here] = c /\ \A k \in 1 .. here - 1 : w[k] = ReadWord[k]
    BY <1>1, <1>4, <1>5, SMTT(20)
  <2> HIDE DEF w
  <2>2. \A k \in 1 .. here : w[k] = AllClasses[k]
    <3> SUFFICES ASSUME NEW k \in 1 .. here PROVE w[k] = AllClasses[k]
      OBVIOUS
    <3>1. CASE k = here
      BY <1>3, <1>5, <2>1, <3>1
    <3>2. CASE k \in 1 .. here - 1
      BY <1>3, <1>4, <2>1, <3>2
    <3> QED  BY <1>1, <3>1, <3>2
  <2> QED  BY <1>3, <2>1, <2>2, SameSequence
<1>7. v = ReadWord
  <2>1. v \in Seq(Classes) /\ Len(v) = here - 1 /\ \A k \in 1 .. here - 1 : v[k] = AllClasses[k]
    BY <1>1, <1>3
  <2> HIDE DEF v
  <2>2. \A k \in 1 .. here - 1 : v[k] = ReadWord[k]
    BY <1>1, <1>3, <1>4, <2>1
  <2> QED  BY <1>4, <2>1, <2>2, SameSequence
<1> QED  BY <1>6, <1>7 DEF c

LEMMA ReadWordGrows ==
  ASSUME IInv, advance, ~check("END_OF_FILE")
  PROVE  /\ ReadWord \in Seq(Classes) /\ Class(current_token) \in Classes
         /\ ReadWord' = Append(ReadWord, Class(current_token))
<1>1. tokens \in Seq(Token) /\ here \in 1 .. MaxTokens + 1 /\ EndIsLast /\ current_token \in Token /\ here \in Nat
  BY TypeFacts DEF IInv
<1>2. here' = here + 1 /\ \A k \in 1 .. here : tokens'[k] = tokens[k]
  BY <1>1, ReadingGrows DEF Reading
<1>3. /\ ReadWord \in Seq(Classes) /\ Len(ReadWord) = here - 1
      /\ \A k \in 1 .. here - 1 : ReadWord[k] = Class(tokens[k])
  BY <1>1, ReadWordType
<1>4. Class(current_token) \in Classes
  BY <1>1, TokenClasses
<1>5. ReadWord' = [k \in 1 .. here |-> Class(tokens[k])]
  <2>1. ReadWord' = [k \in 1 .. here |-> Class(tokens'[k])]
    <3>1. here' - 1 = here
      BY <1>1, <1>2
    <3> QED  BY <3>1 DEF ReadWord, Class
  <2> QED  BY <1>2, <2>1
<1> QED  BY <1>1, <1>3, <1>4, <1>5, ClassesType, SMTT(20) DEF AllClasses

LEMMA Moved ==
  ASSUME IInv, advance, ~check("END_OF_FILE"), outcome' # "parse_error",
         NEW q, Path("namespace", ReadWord, q), NEW s, Edge(q, Class(current_token), s), Place(s)'
  PROVE  GrammarInv'
<1>1. Path("namespace", Append(ReadWord, Class(current_token)), s)
  BY ReadWordGrows, PathAppend
<1>2. Path("namespace", ReadWord', s)
  BY <1>1, ReadWordGrows, Zenon
<1>3. Follows'
  BY <1>2 DEF Follows
<1> QED  BY <1>3 DEF GrammarInv, ErrorAtFirstWrongToken

LEMMA Wrong ==
  ASSUME IInv, error, NEW q, Path("namespace", ReadWord, q),
         \A s : ~Edge(q, Class(current_token), s), check("END_OF_FILE") => q # "declarations"
  PROVE  GrammarInv'
<1>1. tokens \in Seq(Token) /\ here \in 1 .. MaxTokens + 1 /\ current_token \in Token /\ here \in Nat
  BY TypeFacts DEF IInv
<1>2. /\ ReadWord \in Seq(Classes) /\ Len(ReadWord) = here - 1
      /\ \A k \in 1 .. here - 1 : ReadWord[k] = Class(tokens[k])
  BY <1>1, ReadWordType
<1>3. Class(current_token) \in Classes
  BY <1>1, TokenClasses
<1> DEFINE classes == [k \in 1 .. here |-> Class(tokens[k])]
           before == SubSeq(classes, 1, here - 1)
           c == Class(current_token)
<1>4. before = ReadWord /\ classes = Append(ReadWord, c)
  BY <1>1, ClassesType, Zenon DEF AllClasses
<1> HIDE DEF classes, before, c
<1>6. before \in Prefixes
  <2>1. Len(ReadWord) <= MaxTokens
    BY <1>1, <1>2, BoundsAssumption, LengthAssumption
  <2> QED  BY <1>2, <1>4, <2>1, AcceptedBegins
<1>7. ASSUME check("END_OF_FILE") PROVE before \notin Sentences
  <2> SUFFICES ASSUME ReadWord \in Sentences PROVE FALSE
    BY <1>4
  <2>1. Path("namespace", ReadWord, "declarations")
    BY SentencePath
  <2>2. Len(ReadWord) \in Nat
    BY <1>1, <1>2
  <2> QED  BY <1>7, <2>1, <2>2, PathsAgree
<1>8. classes \notin Prefixes
  <2> SUFFICES ASSUME classes \in Prefixes PROVE FALSE
    OBVIOUS
  <2>1. PICK s : Path("namespace", Append(ReadWord, c), s)
    BY <1>4, BeginsAccepted
  <2>2. PICK r : Path("namespace", ReadWord, r) /\ Edge(r, c, s)
    BY <1>2, <1>3, <2>1, PathLast DEF c
  <2>3. r = q
    <3>1. Len(ReadWord) \in Nat
      BY <1>1, <1>2
    <3> QED  BY <2>2, <3>1, PathsAgree
  <2> QED  BY <2>2, <2>3 DEF c
<1>9. /\ SubSeq([k \in 1 .. here |-> Class(tokens[k])], 1, here - 1) \in Prefixes
      /\ IF check("END_OF_FILE")
         THEN SubSeq([k \in 1 .. here |-> Class(tokens[k])], 1, here - 1) \notin Sentences
         ELSE [k \in 1 .. here |-> Class(tokens[k])] \notin Prefixes
  BY <1>6, <1>7, <1>8, Zenon DEF classes, before
<1>10. ErrorAtFirstWrongToken'
  <2>1. tokens' = tokens
    BY DEF error
  <2> QED  BY <1>9, <2>1, Zenon DEF ErrorAtFirstWrongToken, here, check, current_token, Class
<1> QED  BY <1>10 DEF GrammarInv, Follows, error, Stop

\* What a parser that is not done has read leads to its place.
LEMMA Placed ==
  ASSUME IInv, GrammarInv, pc # "done"
  PROVE  /\ outcome = "parsing"
         /\ current_token \in Token
         /\ \E q : Place(q) /\ Path("namespace", ReadWord, q)
  BY TypeFacts, SMTT(20) DEF IInv, TypeOK, GrammarInv, Follows

\* A token of a single type: its class is that type, and no other token has it.
LEMMA PlainClass ==
  ASSUME IInv, NEW type \in Words \cup {"IDENTIFIER", "NUMBER", "END_OF_FILE"}
  PROVE  check(type) <=> Class(current_token) = type
<1>1. current_token \in Token
  BY TypeFacts DEF IInv
<1>2. type \notin {"modifier", "primitive"}
  BY DEF Words
<1> QED  BY <1>1, <1>2, TokenClasses DEF check

LEMMA TypesOfPlain ==
  {"NAMESPACE", "ENUM", "MODEL", "LBRACE", "RBRACE", "EQUALS", "SEMICOLON", "DOT"} \subseteq Words
  BY DEF Words

LEMMA NamespaceGrammar ==
  ASSUME IInv, GrammarInv, NamespaceWord \/ NamespaceName \/ NamespaceRest
  PROVE  GrammarInv'
<1>1. pc \in {"namespace", "namespace_name", "namespace_rest"}
  BY DEF NamespaceWord, NamespaceName, NamespaceRest, consume, Expected
<1>2. outcome = "parsing" /\ Path("namespace", ReadWord, pc)
  <2>1. PICK q : Place(q) /\ Path("namespace", ReadWord, q)
    BY <1>1, Placed
  <2>2. q = pc
    BY <1>1, <2>1 DEF Place, EnumPlace, ModelPlace
  <2> QED  BY <1>1, <2>1, <2>2, Placed
<1> DEFINE c == Class(current_token)
<1>3. /\ check("NAMESPACE") <=> c = "NAMESPACE"
      /\ check("IDENTIFIER") <=> c = "IDENTIFIER"
      /\ check("DOT") <=> c = "DOT"
      /\ check("SEMICOLON") <=> c = "SEMICOLON"
  BY PlainClass, TypesOfPlain
<1> HIDE DEF c
<1>4. CASE error
  <2>1. \A s : ~Edge(pc, c, s)
    BY <1>1, <1>3, <1>4, SMTT(20) DEF Edge, NamespaceWord, NamespaceName, NamespaceRest, consume, Expected, Take, Go, error, Stop, check
  <2> QED  BY <1>1, <1>2, <1>4, <2>1, Wrong DEF c
<1>5. CASE advance /\ UNCHANGED outcome
  <2> PICK s : s = pc'
    OBVIOUS
  <2>1. Edge(pc, c, s) /\ s \in {"namespace_name", "namespace_rest", "declarations"} /\ ~check("END_OF_FILE")
    BY <1>1, <1>2, <1>3, <1>5 DEF Edge, NamespaceWord, NamespaceName, NamespaceRest, consume, Expected, Take, Go, error, Stop, check
  <2>2. Place(s)'
    BY <2>1, SMTT(20) DEF Place
  <2> QED  BY <1>2, <1>5, <2>1, <2>2, Moved, SMTT(20) DEF c
<1> QED  BY <1>4, <1>5 DEF NamespaceWord, NamespaceName, NamespaceRest, consume, Expected, Take, Go

LEMMA DeclarationGrammar ==
  ASSUME IInv, GrammarInv, parse_declaration
  PROVE  GrammarInv'
<1>1. pc = "declarations"
  BY Zenon DEF parse_declaration, Expected
<1>2. outcome = "parsing" /\ Path("namespace", ReadWord, "declarations")
  BY <1>1, Placed DEF Place, EnumPlace, ModelPlace
<1> DEFINE c == Class(current_token)
<1>3. /\ check("ENUM") <=> c = "ENUM"
      /\ check("MODEL") <=> c = "MODEL"
  BY PlainClass, TypesOfPlain
<1> HIDE DEF c
<1>4. CASE Expected("declarations", {"ENUM", "MODEL", "END_OF_FILE"})
  <2>1. \A s : ~Edge("declarations", c, s)
    BY <1>3, <1>4, SMTT(20) DEF Edge, Expected, check
  <2>2. ~check("END_OF_FILE")
    BY <1>4 DEF Expected, check
  <2> QED  BY <1>2, <1>4, <2>1, <2>2, Wrong DEF c, Expected
<1>5. ASSUME NEW type \in DOMAIN Kind, Take(type, "declaration_name"),
             decl' = [NoDecl EXCEPT !.kind = Kind[type], !.loc = here]
      PROVE  GrammarInv'
  <2>1. CASE type = "ENUM"
    <3>1. decl'.kind = "enum"
      BY <1>5, <2>1, SMTT(20) DEF NoDecl, Kind
    <3>2. Place("enum_name")'
      BY <1>5, <3>1 DEF Place, EnumPlace, Take, Go
    <3>3. Edge("declarations", c, "enum_name")
      BY <1>3, <1>5, <2>1 DEF Edge, Take
    <3> QED  BY <1>2, <1>5, <2>1, <3>2, <3>3, Moved DEF c, Take, Go, check
  <2>2. CASE type = "MODEL"
    <3>1. decl'.kind = "model"
      BY <1>5, <2>2, SMTT(20) DEF NoDecl, Kind
    <3>2. Place("model_name")'
      BY <1>5, <3>1 DEF Place, ModelPlace, Take, Go
    <3>3. Edge("declarations", c, "model_name")
      BY <1>3, <1>5, <2>2 DEF Edge, Take
    <3> QED  BY <1>2, <1>5, <2>2, <3>2, <3>3, Moved DEF c, Take, Go, check
  <2> QED  BY <2>1, <2>2 DEF Kind
<1> QED  BY <1>4, <1>5, Zenon DEF parse_declaration

\* The steps that take or refuse a token of one type inside a declaration, and
\* leave the declaration open.
Within(at, type, next) ==
  \/ pc = at /\ Take(type, next) /\ decl'.kind = decl.kind
  \/ Expected(at, {type})

\* The states before and after such a step, in an enum and in a model.
Legs ==
  {<<"declaration_name", "IDENTIFIER", "open">>, <<"open", "LBRACE", "items">>,
   <<"item_name", "IDENTIFIER", "equals">>, <<"equals", "EQUALS", "number">>,
   <<"semicolon", "SEMICOLON", "items">>}

LEMMA WithinGrammar ==
  ASSUME IInv, GrammarInv, NEW at, NEW type, NEW next, Within(at, type, next), <<at, type, next>> \in Legs
  PROVE  GrammarInv'
<1>1. /\ pc = at /\ pc \notin {"done", "namespace", "namespace_name", "namespace_rest", "declarations"}
      /\ type \in Words \cup {"IDENTIFIER"} /\ type # "END_OF_FILE" /\ type # "RBRACE"
  BY DEF Legs, Within, Expected, Words
<1>2. PICK q : Place(q) /\ Path("namespace", ReadWord, q)
  BY <1>1, Placed
<1>3. outcome = "parsing"
  BY <1>1, Placed
<1> DEFINE c == Class(current_token)
<1>4. (check(type) <=> c = type) /\ (check("RBRACE") <=> c = "RBRACE")
  BY <1>1, PlainClass, TypesOfPlain
<1> HIDE DEF c
<1>5. q # "declarations" /\ \A s : Edge(q, c, s) => c = type
  <2>1. CASE decl.kind = "enum" /\ EnumPlace(q)
    BY <2>1, <1>1, <1>4, SMTT(20) DEF EnumPlace, Legs, Edge
  <2>2. CASE decl.kind = "model" /\ ModelPlace(q)
    BY <2>2, <1>1, <1>4, SMTT(20) DEF ModelPlace, Legs, Edge
  <2> QED  BY <1>1, <1>2, <2>1, <2>2 DEF Place
<1>6. CASE Expected(at, {type})
  <2>1. c # type
    BY <1>4, <1>6, SMTT(20) DEF Expected, check
  <2> QED  BY <1>2, <1>5, <1>6, <2>1, Wrong DEF c, Expected
<1>7. CASE Take(type, next) /\ decl'.kind = decl.kind
  <2>1. PICK s : Edge(q, type, s) /\ Place(s)'
    <3>1. pc' = next
      BY <1>7, SMTT(20) DEF Take, Go
    <3>2. CASE decl.kind = "enum" /\ EnumPlace(q)
      <4>1. \E s : Edge(q, type, s) /\ EnumPlace(s)'
        BY <3>1, <3>2, <1>1, SMTT(20) DEF EnumPlace, Legs, Edge
      <4> QED  BY <1>7, <3>2, <4>1 DEF Place
    <3>3. CASE decl.kind = "model" /\ ModelPlace(q)
      <4>1. \E s : Edge(q, type, s) /\ ModelPlace(s)'
        BY <3>1, <3>3, <1>1, SMTT(20) DEF ModelPlace, Legs, Edge
      <4> QED  BY <1>7, <3>3, <4>1 DEF Place
    <3> QED  BY <1>1, <1>2, <3>2, <3>3, SMTT(20) DEF Place
  <2>2. Edge(q, c, s) /\ ~check("END_OF_FILE") /\ advance /\ outcome' = "parsing"
    BY <1>1, <1>3, <1>4, <1>7, <2>1, SMTT(20) DEF Take, Go, check
  <2> QED  BY <1>2, <2>1, <2>2, Moved DEF c
<1> QED  BY <1>6, <1>7, SMTT(20) DEF Within

LEMMA OneTypeGrammar ==
  ASSUME IInv, GrammarInv, DeclarationName \/ Open \/ ItemName \/ EqualsSign \/ EndItem
  PROVE  GrammarInv'
<1>0. \A f, x : f = [decl EXCEPT !.name = x] \/ f = [decl EXCEPT !.items = x] => f.kind = decl.kind
  BY DEF IInv, TypeOK, ADecl
<1>1. CASE DeclarationName
  <2>1. Within("declaration_name", "IDENTIFIER", "open")
    BY <1>0, <1>1 DEF DeclarationName, Within
  <2> QED  BY <2>1, WithinGrammar DEF Legs
<1>2. CASE Open
  <2>1. Within("open", "LBRACE", "items")
    BY <1>2 DEF Open, consume, Within
  <2> QED  BY <2>1, WithinGrammar DEF Legs
<1>3. CASE ItemName
  <2>1. Within("item_name", "IDENTIFIER", "equals")
    BY <1>3 DEF ItemName, Within
  <2> QED  BY <2>1, WithinGrammar DEF Legs
<1>4. CASE EqualsSign
  <2>1. Within("equals", "EQUALS", "number")
    BY <1>4 DEF EqualsSign, consume, Within
  <2> QED  BY <2>1, WithinGrammar DEF Legs
<1>5. CASE EndItem
  <2>1. Within("semicolon", "SEMICOLON", "items")
    BY <1>0, <1>5, Zenon DEF EndItem, Within
  <2> QED  BY <2>1, WithinGrammar DEF Legs
<1> QED  BY <1>1, <1>2, <1>3, <1>4, <1>5

LEMMA NumberGrammar ==
  ASSUME IInv, GrammarInv, Number
  PROVE  GrammarInv'
<1>1. pc = "number"
  BY DEF Number, Expected
<1>2. PICK q : Place(q) /\ Path("namespace", ReadWord, q)
  BY <1>1, Placed
<1>3. \/ decl.kind = "enum" /\ q = "enum_number"
      \/ decl.kind = "model" /\ q = "model_number"
  BY <1>1, <1>2 DEF Place, EnumPlace, ModelPlace
<1> DEFINE c == Class(current_token)
<1>4. check("NUMBER") <=> c = "NUMBER"
  BY PlainClass
<1> HIDE DEF c
<1>5. CASE Expected("number", {"NUMBER"})
  <2>1. \A s : ~Edge(q, c, s)
    BY <1>3, <1>4, <1>5, SMTT(20) DEF Edge, Expected, check
  <2> QED  BY <1>2, <1>3, <1>5, <2>1, Wrong DEF c, Expected
<1>6. CASE Stop("out_of_range")
  BY <1>6, SMTT(20) DEF Stop, GrammarInv, Follows, ErrorAtFirstWrongToken
<1>7. CASE check("NUMBER") /\ advance /\ Go("semicolon") /\ UNCHANGED decl
  <2>1. PICK s : Edge(q, c, s) /\ Place(s)'
    BY <1>3, <1>4, <1>7, SMTT(20) DEF Edge, Place, EnumPlace, ModelPlace, Go
  <2>2. ~check("END_OF_FILE") /\ outcome' = "parsing"
    BY <1>1, <1>7, Placed DEF Go, check
  <2> QED  BY <1>2, <1>7, <2>1, <2>2, Moved DEF c
<1> QED  BY <1>5, <1>6, <1>7 DEF Number

LEMMA ItemsGrammar ==
  ASSUME IInv, GrammarInv, Close \/ BeginItem
  PROVE  GrammarInv'
<1>1. pc = "items"
  BY DEF Close, BeginItem
<1>2. PICK q : Place(q) /\ Path("namespace", ReadWord, q)
  BY <1>1, Placed
<1>3. \/ decl.kind = "enum" /\ q = "enum_items"
      \/ decl.kind = "model" /\ q = "model_items"
  BY <1>1, <1>2 DEF Place, EnumPlace, ModelPlace
<1> DEFINE c == Class(current_token)
<1>4. (check("RBRACE") <=> c = "RBRACE") /\ (check("END_OF_FILE") <=> c = "END_OF_FILE")
  BY PlainClass, TypesOfPlain
<1>5. outcome = "parsing"
  BY <1>1, Placed
<1> HIDE DEF c
<1>6. CASE check("END_OF_FILE") /\ error
  <2>1. \A s : ~Edge(q, c, s)
    BY <1>3, <1>4, <1>6, SMTT(20) DEF Edge
  <2> QED  BY <1>2, <1>3, <1>6, <2>1, Wrong DEF c
<1>7. CASE Take("RBRACE", "declarations")
  <2>1. Edge(q, c, "declarations") /\ Place("declarations")'
    BY <1>3, <1>4, <1>7 DEF Edge, Place, Take, Go
  <2>2. ~check("END_OF_FILE") /\ outcome' = "parsing" /\ advance
    BY <1>5, <1>7 DEF Take, Go, check
  <2> QED  BY <1>2, <2>1, <2>2, Moved DEF c
<1>8. CASE BeginItem
  <2>1. tokens' = tokens /\ decl' = decl /\ outcome' = "parsing" /\ ~check("RBRACE")
    BY <1>5, <1>8 DEF BeginItem, Go
  <2>2. pc' = IF decl.kind = "enum" THEN "item_name" ELSE "type"
    BY <1>8 DEF BeginItem, Go
  <2>3. ~check("RBRACE")'
    BY <2>1 DEF check, current_token, here
  <2>4. Place(q)'
    BY <1>3, <2>1, <2>2, <2>3 DEF Place, EnumPlace, ModelPlace
  <2>5. ReadWord' = ReadWord
    BY <2>1, SMTT(20) DEF ReadWord, here, Class
  <2> QED  BY <1>2, <2>1, <2>4, <2>5 DEF GrammarInv, Follows, ErrorAtFirstWrongToken
<1> QED  BY <1>6, <1>7, <1>8 DEF Close

LEMMA TypeGrammar ==
  ASSUME IInv, GrammarInv, parse_modifiers \/ parse_type
  PROVE  GrammarInv'
<1>1. pc = "type"
  BY DEF parse_modifiers, parse_type, Expected
<1>2. PICK q : Place(q) /\ Path("namespace", ReadWord, q)
  BY <1>1, Placed
<1>3. decl.kind = "model" /\ (q = "model_type" \/ (q = "model_items" /\ ~check("RBRACE")))
  BY <1>1, <1>2 DEF Place, EnumPlace, ModelPlace
<1> DEFINE c == Class(current_token)
<1>4. /\ check("RBRACE") <=> c = "RBRACE"
      /\ check("IDENTIFIER") <=> c = "IDENTIFIER"
      /\ check("END_OF_FILE") <=> c = "END_OF_FILE"
  BY PlainClass, TypesOfPlain
<1>5. /\ is_field_modifier(current_token.type) <=> c = "modifier"
      /\ is_primitive_type(current_token.type) <=> c = "primitive"
  BY <1>1, Placed, TokenClasses
<1>6. outcome = "parsing"
  BY <1>1, Placed
<1> HIDE DEF c
<1>7. CASE parse_modifiers
  <2>1. Edge(q, c, "model_type") /\ ~check("END_OF_FILE")
    BY <1>3, <1>4, <1>5, <1>7 DEF Edge, parse_modifiers
  <2>2. Place("model_type")' /\ advance /\ outcome' = "parsing"
    BY <1>1, <1>3, <1>6, <1>7 DEF parse_modifiers, Place, ModelPlace
  <2> QED  BY <1>2, <2>1, <2>2, Moved DEF c
<1>8. CASE Expected("type", PrimitiveTypes \cup DOMAIN FieldModifier \cup {"IDENTIFIER"})
  <2>1. c \notin {"modifier", "primitive", "IDENTIFIER"}
    BY <1>4, <1>5, <1>8, SMTT(20) DEF Expected, is_field_modifier, is_primitive_type, check
  <2>2. \A s : ~Edge(q, c, s)
    BY <1>3, <1>4, <2>1, SMTT(20) DEF Edge
  <2> QED  BY <1>2, <1>3, <1>8, <2>2, Wrong, SMTT(20) DEF c, Expected
<1>9. CASE (is_primitive_type(current_token.type) \/ check("IDENTIFIER")) /\ advance /\ Go("item_name") /\ UNCHANGED decl
  <2>1. Edge(q, c, "model_item") /\ ~check("END_OF_FILE")
    BY <1>3, <1>4, <1>5, <1>9, SMTT(20) DEF Edge
  <2>2. Place("model_item")' /\ outcome' = "parsing"
    BY <1>3, <1>6, <1>9, SMTT(20) DEF Go, Place, ModelPlace
  <2> QED  BY <1>2, <1>9, <2>1, <2>2, Moved, SMTT(20) DEF c
<1> QED  BY <1>7, <1>8, <1>9 DEF parse_type

LEMMA InitGrammar == Init => GrammarInv
<1> SUFFICES ASSUME Init PROVE GrammarInv
  OBVIOUS
<1>1. here = 1
  BY DEF Init, here
<1>2. ReadWord = <<>>
  <2>1. tokens \in Seq(Token) /\ here \in 1 .. MaxTokens + 1
    BY InitInv, TypeFacts DEF IInv
  <2> QED  BY <1>1, <2>1, ReadWordType
<1>3. Path("namespace", <<>>, "namespace")
  BY PathNone DEF States
<1>4. Place("namespace") /\ outcome # "parse_error"
  BY DEF Init, Place
<1> QED  BY <1>2, <1>3, <1>4 DEF GrammarInv, Follows, ErrorAtFirstWrongToken

LEMMA StutterGrammar == GrammarInv /\ UNCHANGED vars => GrammarInv'
<1> SUFFICES ASSUME GrammarInv, UNCHANGED vars PROVE GrammarInv'
  OBVIOUS
<1>1. ReadWord' = ReadWord /\ \A q : Place(q)' <=> Place(q)
  BY SMTT(20) DEF vars, ReadWord, Class, here, Place, EnumPlace, ModelPlace, check, current_token
<1>2. Follows'
  BY <1>1 DEF GrammarInv, Follows, vars
<1>3. ErrorAtFirstWrongToken'
  BY Zenon DEF GrammarInv, ErrorAtFirstWrongToken, vars, here, check, current_token, Class
<1> QED  BY <1>2, <1>3 DEF GrammarInv

LEMMA NextGrammar == IInv /\ GrammarInv /\ [Next]_vars => GrammarInv'
<1>1. IInv /\ GrammarInv /\ EndOfSchema => GrammarInv'
  BY SMTT(20) DEF EndOfSchema, Stop, GrammarInv, Follows, ErrorAtFirstWrongToken
<1> QED
  BY <1>1, StutterGrammar, NamespaceGrammar, DeclarationGrammar, OneTypeGrammar, NumberGrammar, ItemsGrammar,
     TypeGrammar DEF Next

\* A ParseError names the first wrong token of a file of any length: what is before
\* it begins some schema text, and no schema text begins with it as well.
THEOREM ErrorIsTheFirstWrongToken == Spec => []ErrorAtFirstWrongToken
<1>1. Spec => [](IInv /\ GrammarInv)
  BY InitInv, InitGrammar, NextInv, NextGrammar, PTL DEF Spec
<1>2. GrammarInv => ErrorAtFirstWrongToken
  BY DEF GrammarInv
<1> QED  BY <1>1, <1>2, PTL
=============================================================================
