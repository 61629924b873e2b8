-------------------------------- MODULE Parser --------------------------------
(***************************************************************************)
(* The Parser: recursive descent over the tokens of a Lexer, one token of  *)
(* lookahead, to a Schema or an exception.  The tokens are not fixed in    *)
(* advance: whenever the parser asks for one, any token of the alphabet    *)
(* may come, so that a run meets every token sequence within its bound.    *)
(*                                                                         *)
(* A token is [type, name, number]: the name of an IDENTIFIER, the value   *)
(* of a NUMBER as written.  A location is the index of a token.            *)
(***************************************************************************)
EXTENDS SchemaTypes, Grammar

CONSTANTS Names,       \* the identifiers
          Literals,    \* the number literals
          FieldTypes,  \* the primitive types that occur
          Modifiers,   \* the field modifiers that occur (token types)
          MaxInt       \* the largest int; the smallest is -MaxInt - 1

ASSUME BoundsAssumption == MaxInt \in Nat

\* The keywords are no identifiers: a primitive type is known by its token type.
ASSUME AlphabetAssumption ==
  /\ Names \cap PrimitiveTypes = {}
  /\ Literals \subseteq Int
  /\ FieldTypes \subseteq PrimitiveTypes
  /\ Modifiers \subseteq {"OPTIONAL", "REPEATED", "PACKED", "INTERNED", "BITMAP"}

VARIABLES
  tokens,    \* history: the tokens read, current_token_ last
  pc,        \* what the parser expects next, "done" at the end
  schema,    \* the Schema: [names, decls], names the parts of its namespace
  decl,      \* the declaration being parsed: [kind, name, loc, items]
  item,      \* locals of the field or enum value: [loc, mods, type, name, number]
  outcome    \* "parsing", then "schema", "parse_error" or "out_of_range"

vars == <<tokens, pc, schema, decl, item, outcome>>

FieldModifier == [OPTIONAL |-> "optional", REPEATED |-> "repeated", PACKED |-> "packed",
                  INTERNED |-> "interned", BITMAP |-> "bitmap"]

is_primitive_type(type) == type \in PrimitiveTypes
is_field_modifier(type) == type \in DOMAIN FieldModifier

\* The empty string.
Nothing == ""

Plain(type) == [type |-> type, name |-> Nothing, number |-> 0]
EndOfFile == Plain("END_OF_FILE")

Alphabet ==
  {Plain(type) : type \in Words \cup FieldTypes \cup Modifiers}
  \cup {[type |-> "IDENTIFIER", name |-> n, number |-> 0] : n \in Names}
  \cup {[type |-> "NUMBER", name |-> Nothing, number |-> n] : n \in Literals}

NoDecl == [kind |-> "none", name |-> Nothing, loc |-> 0, items |-> <<>>]
NoItem == [loc |-> 0, mods |-> {}, type |-> Nothing, name |-> Nothing, number |-> 0]

here == Len(tokens)
current_token == tokens[here]
check(type) == current_token.type = type

\* The tokens next_token() may return behind the ones already read.
Offered == IF here < MaxTokens THEN Alphabet \cup {EndOfFile} ELSE {EndOfFile}

Init ==
  /\ \E t \in Alphabet \cup {EndOfFile} : tokens = <<t>>
  /\ pc = "namespace"
  /\ schema = [names |-> <<>>, decls |-> <<>>]
  /\ decl = NoDecl
  /\ item = NoItem
  /\ outcome = "parsing"

-----------------------------------------------------------------------------
advance == \E t \in Offered : tokens' = Append(tokens, t)

Stop(how) == pc' = "done" /\ outcome' = how

Go(next) == pc' = next /\ UNCHANGED outcome

error == Stop("parse_error") /\ UNCHANGED <<tokens, schema, decl, item>>

\* A token of the given type is read and the parser goes on with next.
Take(type, next) == check(type) /\ advance /\ Go(next)

\* A mistake: the error names the token behind the wrong one.
ExpectedLate(at, types) ==
  /\ pc = at
  /\ current_token.type \notin types
  /\ advance
  /\ Stop("parse_error")
  /\ UNCHANGED <<schema, decl, item>>

\* The part of consume that throws.
Expected(at, types) == pc = at /\ current_token.type \notin types /\ error

consume(at, type, next) ==
  \/ pc = at /\ Take(type, next) /\ UNCHANGED <<schema, decl, item>>
  \/ Expected(at, {type})

-----------------------------------------------------------------------------
(* parse_namespace *)

NamespaceWord == consume("namespace", "NAMESPACE", "namespace_name")

NamespaceName ==
  \/ /\ pc = "namespace_name"
     /\ Take("IDENTIFIER", "namespace_rest")
     /\ schema' = [schema EXCEPT !.names = Append(@, current_token.name)]
     /\ UNCHANGED <<decl, item>>
  \/ Expected("namespace_name", {"IDENTIFIER"})

NamespaceRest ==
  \/ /\ pc = "namespace_rest"
     /\ Take("DOT", "namespace_name") \/ Take("SEMICOLON", "declarations")
     /\ UNCHANGED <<schema, decl, item>>
  \/ Expected("namespace_rest", {"DOT", "SEMICOLON"})

-----------------------------------------------------------------------------
(* parse_schema, parse_declaration, and what parse_enum and parse_model share *)

EndOfSchema ==
  /\ pc = "declarations"
  /\ check("END_OF_FILE")
  /\ Stop("schema")
  /\ UNCHANGED <<tokens, schema, decl, item>>

Kind == [ENUM |-> "enum", MODEL |-> "model"]

parse_declaration ==
  \/ /\ pc = "declarations"
     /\ \E type \in DOMAIN Kind :
          /\ Take(type, "declaration_name")
          /\ decl' = [NoDecl EXCEPT !.kind = Kind[type], !.loc = here]
     /\ UNCHANGED <<schema, item>>
  \/ Expected("declarations", {"ENUM", "MODEL", "END_OF_FILE"})

DeclarationName ==
  \/ /\ pc = "declaration_name"
     /\ Take("IDENTIFIER", "open")
     /\ decl' = [decl EXCEPT !.name = current_token.name]
     /\ UNCHANGED <<schema, item>>
  \/ Expected("declaration_name", {"IDENTIFIER"})

Open == consume("open", "LBRACE", "items")

\* The loop over the items ends at } or at the end of the file, which is an error.
Close ==
  \/ /\ pc = "items"
     /\ Take("RBRACE", "declarations")
     /\ schema' = [schema EXCEPT !.decls = Append(@, decl)]
     /\ decl' = NoDecl
     /\ UNCHANGED item
  \/ pc = "items" /\ check("END_OF_FILE") /\ error

\* A field begins with its modifiers and its type, an enum value with its name.
BeginItem ==
  /\ pc = "items"
  /\ ~check("RBRACE") /\ ~check("END_OF_FILE")
  /\ item' = [NoItem EXCEPT !.loc = here]
  /\ Go(IF decl.kind = "enum" THEN "item_name" ELSE "type")
  /\ UNCHANGED <<tokens, schema, decl>>

-----------------------------------------------------------------------------
(* parse_field and the loop of parse_enum *)

\* A mistake: the loop does not go on to the next token.
parse_modifiers_stays ==
  /\ pc = "type"
  /\ is_field_modifier(current_token.type)
  /\ item' = [item EXCEPT !.mods = @ \cup {FieldModifier[current_token.type]}]
  /\ UNCHANGED <<pc, outcome, schema, decl, tokens>>

\* A mistake: = instead of |=.
parse_modifiers_last ==
  /\ pc = "type"
  /\ is_field_modifier(current_token.type)
  /\ advance
  /\ item' = [item EXCEPT !.mods = {FieldModifier[current_token.type]}]
  /\ UNCHANGED <<pc, outcome, schema, decl>>

parse_modifiers ==
  /\ pc = "type"
  /\ is_field_modifier(current_token.type)
  /\ advance
  /\ item' = [item EXCEPT !.mods = @ \cup {FieldModifier[current_token.type]}]
  /\ UNCHANGED <<pc, outcome, schema, decl>>

\* The kinds of primitive types are named like their tokens.
token_to_primitive_type == [type \in PrimitiveTypes |-> type]

parse_type ==
  \/ /\ pc = "type"
     /\ is_primitive_type(current_token.type) \/ check("IDENTIFIER")
     /\ advance
     /\ item' = [item EXCEPT !.type = IF check("IDENTIFIER") THEN current_token.name
                                      ELSE token_to_primitive_type[current_token.type]]
     /\ Go("item_name")
     /\ UNCHANGED <<schema, decl>>
  \/ Expected("type", PrimitiveTypes \cup DOMAIN FieldModifier \cup {"IDENTIFIER"})

ItemName ==
  \/ /\ pc = "item_name"
     /\ Take("IDENTIFIER", "equals")
     /\ item' = [item EXCEPT !.name = current_token.name]
     /\ UNCHANGED <<schema, decl>>
  \/ Expected("item_name", {"IDENTIFIER"})

EqualsSign == consume("equals", "EQUALS", "number")

\* A mistake: the conversion does not test the range.
stoi_unchecked(n) == {n}

\* std::stoi: the value, or none when it throws.
stoi(n) == {n} \cap (-MaxInt - 1 .. MaxInt)

\* std::stoi throws std::out_of_range, which carries no location.
Number ==
  \/ /\ pc = "number"
     /\ check("NUMBER")
     /\ advance
     /\ LET value == stoi(current_token.number)
        IN \/ \E n \in value : item' = [item EXCEPT !.number = n] /\ Go("semicolon")
           \/ value = {} /\ Stop("out_of_range") /\ UNCHANGED item
     /\ UNCHANGED <<schema, decl>>
  \/ Expected("number", {"NUMBER"})

\* What push_back adds to the values of an enum or the fields of a model.
Item ==
  IF decl.kind = "enum" THEN [loc |-> item.loc, name |-> item.name, value |-> item.number] ELSE item

EndItem ==
  \/ /\ pc = "semicolon"
     /\ Take("SEMICOLON", "items")
     /\ decl' = [decl EXCEPT !.items = Append(@, Item)]
     /\ UNCHANGED <<schema, item>>
  \/ Expected("semicolon", {"SEMICOLON"})

Next ==
  \/ NamespaceWord \/ NamespaceName \/ NamespaceRest
  \/ EndOfSchema \/ parse_declaration \/ DeclarationName \/ Open \/ Close \/ BeginItem
  \/ parse_modifiers \/ parse_type \/ ItemName \/ EqualsSign \/ Number \/ EndItem

Spec == Init /\ [][Next]_vars

\* The parser runs on by itself: next_token() always returns.
FairSpec == Spec /\ WF_vars(Next)

-----------------------------------------------------------------------------
Ints == -MaxInt - 1 .. MaxInt
Spelled == Names \cup {Nothing}

AField == [loc : Nat, mods : SUBSET {FieldModifier[type] : type \in DOMAIN FieldModifier},
           type : Spelled \cup PrimitiveTypes, name : Spelled, number : Ints]
AValue == [loc : Nat, name : Spelled, value : Ints]
ADecl == [kind : {"none", "enum", "model"}, name : Spelled, loc : Nat, items : Seq(AField \cup AValue)]

InItem == {"type", "item_name", "equals", "number", "semicolon"}
InDeclaration == {"declaration_name", "open", "items"} \cup InItem

TypeOK ==
  /\ tokens \in Seq(Alphabet \cup {EndOfFile}) /\ here \in 1 .. MaxTokens + 1
  /\ pc \in {"namespace", "namespace_name", "namespace_rest", "declarations", "done"} \cup InDeclaration
  /\ pc = "done" <=> outcome # "parsing"
  /\ outcome \in {"parsing", "schema", "parse_error", "out_of_range"}
  /\ schema \in [names : Seq(Names), decls : Seq(ADecl)]
  /\ decl \in ADecl /\ item \in AField
  /\ decl.kind = "none" => decl = NoDecl

(* Where the text of a schema is, without the descent *)

Is(k, type) == k \in 1 .. here /\ tokens[k].type = type
IsName(k, name) == Is(k, "IDENTIFIER") /\ tokens[k].name = name
IsNumber(k, n) == Is(k, "NUMBER") /\ tokens[k].number = n
IsModifier(k) == k \in 1 .. here /\ is_field_modifier(tokens[k].type)
IsType(k, type) == IF is_primitive_type(type) THEN Is(k, type) ELSE IsName(k, type)

\* The tokens from index a to before index b are the field, the value, ...
FieldAt(f, a, b) ==
  /\ \A k \in a .. b - 6 : IsModifier(k)
  /\ f.mods = {FieldModifier[tokens[k].type] : k \in a .. b - 6}
  /\ IsType(b - 5, f.type) /\ IsName(b - 4, f.name) /\ Is(b - 3, "EQUALS")
  /\ IsNumber(b - 2, f.number) /\ Is(b - 1, "SEMICOLON")

ValueAt(v, a, b) ==
  /\ b = a + 4
  /\ IsName(a, v.name) /\ Is(a + 1, "EQUALS") /\ IsNumber(a + 2, v.value) /\ Is(a + 3, "SEMICOLON")

\* Each element of s begins at its location and ends where the next begins, the
\* last one at index b.
Begin(s, b, k) == IF k > Len(s) THEN b ELSE s[k].loc

Tiled(s, a, b, At(_, _, _)) ==
  /\ Begin(s, b, 1) = a
  /\ \A k \in DOMAIN s : At(s[k], Begin(s, b, k), Begin(s, b, k + 1))

DeclAt(d, a, b) ==
  /\ \E type \in DOMAIN Kind : Is(a, type) /\ Kind[type] = d.kind
  /\ IsName(a + 1, d.name) /\ Is(a + 2, "LBRACE") /\ Is(b - 1, "RBRACE")
  /\ IF d.kind = "enum" THEN Tiled(d.items, a + 3, b - 1, ValueAt)
                        ELSE Tiled(d.items, a + 3, b - 1, FieldAt)

\* A schema is accepted only if it is the meaning of the whole file: every token
\* up to the end belongs to exactly one declaration, field or value, in order,
\* each with the names, numbers (unchanged by std::stoi), types and modifiers
\* written there and located at its first token.
AcceptedIsTheText ==
  outcome = "schema" =>
    LET n == Len(schema.names)
    IN /\ Is(1, "NAMESPACE") /\ Is(2 * n + 1, "SEMICOLON")
       /\ \A k \in 1 .. n : IsName(2 * k, schema.names[k]) /\ (k > 1 => Is(2 * k - 1, "DOT"))
       /\ Tiled(schema.decls, 2 * n + 2, here, DeclAt)
       /\ Is(here, "END_OF_FILE")

-----------------------------------------------------------------------------
(* The text read, against the grammar *)

Class(t) == IF is_field_modifier(t.type) THEN "modifier"
            ELSE IF is_primitive_type(t.type) THEN "primitive" ELSE t.type

\* A ParseError names the first token that is wrong: the tokens before it begin
\* some schema text, with it they do not, and a file that is cut off is reported
\* at its end and never accepted.
ErrorAtFirstWrongToken ==
  outcome = "parse_error" =>
    LET classes == [k \in 1 .. here |-> Class(tokens[k])]
        before == SubSeq(classes, 1, here - 1)
    IN /\ before \in Prefixes
       /\ IF check("END_OF_FILE") THEN before \notin Sentences ELSE classes \notin Prefixes

\* parse_schema() returns or throws on every sequence of tokens.
ParsingEnds == <>(outcome # "parsing")
=============================================================================
