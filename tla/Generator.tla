------------------------------ MODULE Generator ------------------------------
(***************************************************************************)
(* compile_schema() from the validation on: a schema that the Validator    *)
(* accepts is given to a CodeGenerator, which prints a header and a        *)
(* source.  Of the printed text the model keeps what refers to something   *)
(* else: the types that are defined and used, the methods that are         *)
(* declared, defined and called, and the header that is included.          *)
(***************************************************************************)
EXTENDS Validator

Nothing == ""   \* the empty string

CONSTANT FileNames   \* what the -f option may give, Nothing if it is absent

VARIABLES
  generated,  \* "nothing", "header" or "both"
  base_name,  \* the name of both files
  header,     \* the declarations in the header, in order
  source      \* [include, methods]: the included header, and the methods that are
              \* defined for each declaration, in order

generatorVars == <<generated, base_name, header, source>>

GInit ==
  /\ Init
  /\ generated = "nothing"
  /\ base_name = Nothing
  /\ header = <<>>
  /\ source = [include |-> Nothing, methods |-> <<>>]

-----------------------------------------------------------------------------
(* The header *)

namespace_name == IF Schema.named THEN "namespace" ELSE Nothing

\* byte and uint8 are both uint8_t; other types keep their own names.
get_cpp_type(type) == IF type = "BYTE" THEN "UINT8" ELSE type

\* Fields of a model become members, held directly, in a vector or in an optional.
get_field_type(f) ==
  [type |-> get_cpp_type(f.type),
   held |-> IF is_repeated(f) THEN "vector" ELSE IF is_optional(f) THEN "optional" ELSE "direct"]

generate_model_declaration(decl) ==
  [kind |-> "class", name |-> decl.name,
   members |-> [n \in DOMAIN decl.items |-> get_field_type(decl.items[n])],
   methods |-> {"serialize", "deserialize"}]

generate_enum_declaration(decl) ==
  [kind |-> "enum_class", name |-> decl.name, members |-> <<>>, methods |-> {}]

\* compile_schema() makes a Validator for its one schema; nothing is generated
\* unless validate() returned true.
generate_header(filename) ==
  /\ stage = "idle" /\ Call = 1 /\ verdict
  /\ generated = "nothing"
  /\ generated' = "header"
  /\ base_name' = IF filename # Nothing THEN filename ELSE namespace_name
  /\ header' = [k \in DOMAIN Schema.decls |->
                 IF Schema.decls[k].kind = "enum"
                 THEN generate_enum_declaration(Schema.decls[k])
                 ELSE generate_model_declaration(Schema.decls[k])]
  /\ UNCHANGED <<vars, source>>

-----------------------------------------------------------------------------
(* The source *)

\* A mistake: the first declaration is not looked at.
find_enum_after_first(type) ==
  \E k \in 2 .. Len(Schema.decls) : Schema.decls[k].kind = "enum" /\ Schema.decls[k].name = type

find_enum(type) ==
  \E k \in DOMAIN Schema.decls : Schema.decls[k].kind = "enum" /\ Schema.decls[k].name = type

\* A user type that is not an enum is taken for a model: its method is called.
CalledFor(f, method) ==
  IF f.type \in PrimitiveTypes \/ find_enum(f.type) THEN {} ELSE {<<f.type, method>>}

generate_method(decl, method) ==
  [class |-> decl.name, name |-> method,
   calls |-> UNION {CalledFor(decl.items[n], method) : n \in DOMAIN decl.items}]

generate_model_implementation(decl) ==
  <<generate_method(decl, "serialize"), generate_method(decl, "deserialize")>>

generate_source ==
  /\ generated = "header"
  /\ generated' = "both"
  /\ source' = [include |-> IF base_name = Nothing THEN namespace_name ELSE base_name,
                methods |-> [k \in DOMAIN Schema.decls |->
                              IF Schema.decls[k].kind = "enum" THEN <<>>
                              ELSE generate_model_implementation(Schema.decls[k])]]
  /\ UNCHANGED <<vars, base_name, header>>

Generate == (\E filename \in FileNames : generate_header(filename)) \/ generate_source

GNext ==
  \/ generated = "nothing" /\ Next /\ UNCHANGED generatorVars
  \/ Generate

GSpec == GInit /\ [][GNext]_<<vars, generatorVars>>

-----------------------------------------------------------------------------
DeclaredOnce(type) ==
  \E k \in DOMAIN header : \A j \in DOMAIN header : header[j].name = type <=> j = k

Defines(k, m, class, method) ==
  source.methods[k][m].class = class /\ source.methods[k][m].name = method

DefinedOnce(class, method) ==
  \E k \in DOMAIN source.methods : \E m \in DOMAIN source.methods[k] :
    \A j \in DOMAIN source.methods : \A n \in DOMAIN source.methods[j] :
      Defines(j, n, class, method) <=> j = k /\ n = m

\* What is generated holds together: every type a member has is primitive or
\* defined by exactly one declaration of the header, the source includes that
\* header, it defines each method of each class once, and every method it calls
\* is one of them.  The generator tests none of this: it relies on the checks of
\* the validator and on find_enum.
GeneratedHoldsTogether ==
  generated = "both" =>
    /\ source.include = base_name
    /\ \A k \in DOMAIN header :
         /\ DeclaredOnce(header[k].name)
         /\ \A n \in DOMAIN header[k].members :
              \/ header[k].members[n].type \in PrimitiveTypes
              \/ DeclaredOnce(header[k].members[n].type)
         /\ \A method \in header[k].methods : DefinedOnce(header[k].name, method)
    /\ \A k \in DOMAIN source.methods : \A m \in DOMAIN source.methods[k] :
         \A call \in source.methods[k][m].calls : DefinedOnce(call[1], call[2])

\* dsl_reference.md: "Declarations can appear in any order".  The header of an
\* accepted schema declares each type before a member has it (a vector may also
\* hold the class it is in), as the C++ compiler demands.
DeclaredBeforeUse ==
  \A k \in DOMAIN header : \A n \in DOMAIN header[k].members :
    LET member == header[k].members[n]
    IN \/ member.type \in PrimitiveTypes
       \/ \E j \in 1 .. k - 1 : header[j].name = member.type
       \/ member.held = "vector" /\ member.type = header[k].name
=============================================================================
