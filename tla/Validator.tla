------------------------------ MODULE Validator ------------------------------
(***************************************************************************)
(* Validator::validate: a SemanticValidator walks a schema and adds errors *)
(* to the ValidationContext, which belongs to the Validator and outlives   *)
(* the call.  Each body of a loop is a step.                               *)
(*                                                                         *)
(* A schema is [named, decls]: whether its namespace is non-empty, and its *)
(* declarations [kind, name, items].  The items of a model are fields, the *)
(* items of an enum are [name, value].  An error is [call, rule, decl,     *)
(* item]: which call reported it, what is wrong, and where (0 for the      *)
(* declaration or the schema as a whole).                                  *)
(***************************************************************************)
EXTENDS SchemaTypes, Sequences

CONSTANT Schemas   \* Schemas[n]: the schemas the n-th call of validate() on one
                   \* Validator may be given; its length bounds the calls

AField == [number : Int, name : STRING, type : STRING, mods : SUBSET STRING]
AValue == [name : STRING, value : Int]
ADecl == [kind : {"model"}, name : STRING, items : Seq(AField)]
           \cup [kind : {"enum"}, name : STRING, items : Seq(AValue)]
ASchema == [named : BOOLEAN, decls : Seq(ADecl)]

\* What the parser hands over.
ASSUME SchemasAssumption == Schemas \in Seq(SUBSET ASchema)

VARIABLES
  calls,     \* history: the schemas validated so far, the current one last
  stage,     \* "idle" between calls, else the loop that is running
  d,         \* the declaration the loop is on
  i,         \* the item the loop is on
  names,     \* the set of names a duplicate check has seen
  numbers,   \* the set of numbers a duplicate check has seen
  errors,    \* context_.errors_
  types,     \* the names in context_.enums_ and context_.models_
  verdict    \* what the last call returned

vars == <<calls, stage, d, i, names, numbers, errors, types, verdict>>

Init ==
  /\ calls = <<>>
  /\ stage = "idle"
  /\ d = 1
  /\ i = 1
  /\ names = {}
  /\ numbers = {}
  /\ errors = {}
  /\ types = {}
  /\ verdict = TRUE

Call == Len(calls)
Schema == calls[Call]
Decl == Schema.decls[d]
Item == Decl.items[i]

Errors(call, rules, decl, item) ==
  {[call |-> call, rule |-> r, decl |-> decl, item |-> item] : r \in rules}

add_errors(rules, decl, item) == errors' = errors \cup Errors(Call, rules, decl, item)

-----------------------------------------------------------------------------
(* What the checks of one field or one enum value find *)

\* The rule is broken under the condition.
When(condition, rule) == IF condition THEN {rule} ELSE {}

validate_field_number(f) ==
  When(f.number < 1 \/ f.number > 536870911, "number_out_of_range")
  \cup When(f.number >= 19000 /\ f.number <= 19999, "number_reserved")

validate_field_modifiers(f) ==
  When(is_optional(f) /\ is_repeated(f), "optional_repeated")
  \cup When(is_packed(f) /\ ~is_repeated(f), "packed_not_repeated")
  \cup When(is_bitmap(f) /\ ~is_repeated(f), "bitmap_not_repeated")
  \cup When(is_packed(f) /\ is_bitmap(f), "packed_bitmap")
  \cup When(is_interned(f) /\ f.type # "STRING", "interned_not_string")

validate_type_exists(f, known_types) ==
  When(f.type \notin PrimitiveTypes /\ f.type \notin known_types, "unknown_type")

\* A mistake: packed fields of enums and models pass.
PackedTypeUnchecked(f) ==
  When(is_interned(f) /\ f.type # "STRING", "interned_type")
  \cup When(is_bitmap(f) /\ f.type # "BOOL", "bitmap_type")

check_modifier_compatibility(f) ==
  When(is_packed(f) /\ f.type \notin PrimitiveTypes, "packed_type")
  \cup When(is_interned(f) /\ f.type # "STRING", "interned_type")
  \cup When(is_bitmap(f) /\ f.type # "BOOL", "bitmap_type")

visit_field(f, known_types) ==
  validate_field_number(f) \cup validate_field_modifiers(f)
    \cup validate_type_exists(f, known_types) \cup check_modifier_compatibility(f)

visit_enum_value(v) == When(v.value < 0, "negative_value")

VisitErrors(kind, item, known_types) ==
  IF kind = "model" THEN visit_field(item, known_types) ELSE visit_enum_value(item)

-----------------------------------------------------------------------------
(* visit_schema *)

NamespaceRules(schema) == When(~schema.named, "no_namespace")

Validate ==
  /\ stage = "idle"
  /\ Call < Len(Schemas)
  /\ \E schema \in Schemas[Call + 1] :
       /\ calls' = Append(calls, schema)
       /\ errors' = errors \cup Errors(Call + 1, NamespaceRules(schema), 0, 0)
  /\ stage' = "names"
  /\ d' = 1
  /\ names' = {}
  /\ UNCHANGED <<i, numbers, types, verdict>>

CheckName ==
  /\ stage = "names"
  /\ d <= Len(Schema.decls)
  /\ add_errors(When(Decl.name \in names, "duplicate_declaration"), d, 0)
  /\ names' = names \cup {Decl.name}
  /\ d' = d + 1
  /\ UNCHANGED <<calls, stage, i, numbers, types, verdict>>

DeclaredNames(schema) == {schema.decls[k].name : k \in DOMAIN schema.decls}

\* All declarations are registered before the first is visited.
Register ==
  /\ stage = "names"
  /\ d > Len(Schema.decls)
  /\ types' = types \cup DeclaredNames(Schema)
  /\ stage' = "visit"
  /\ d' = 1
  /\ UNCHANGED <<calls, i, names, numbers, errors, verdict>>

\* visit_enum and visit_model return at once when there is nothing inside.
VisitEmpty ==
  /\ stage = "visit"
  /\ d <= Len(Schema.decls)
  /\ Decl.items = <<>>
  /\ add_errors({"empty"}, d, 0)
  /\ d' = d + 1
  /\ UNCHANGED <<calls, stage, i, names, numbers, types, verdict>>

\* A mistake: the sets of the duplicate checks are shared by the declarations.
VisitDeclShared ==
  /\ stage = "visit"
  /\ d <= Len(Schema.decls)
  /\ Decl.items # <<>>
  /\ stage' = "duplicates"
  /\ i' = 1
  /\ UNCHANGED <<calls, d, names, numbers, errors, types, verdict>>

\* A mistake: the loop over the items goes on where the one before it ended.
VisitDeclKeepsIndex ==
  /\ stage = "visit"
  /\ d <= Len(Schema.decls)
  /\ Decl.items # <<>>
  /\ stage' = "duplicates"
  /\ names' = {}
  /\ numbers' = {}
  /\ UNCHANGED <<calls, d, i, errors, types, verdict>>

\* The duplicate checks have their own sets, new for each declaration.
VisitDecl ==
  /\ stage = "visit"
  /\ d <= Len(Schema.decls)
  /\ Decl.items # <<>>
  /\ stage' = "duplicates"
  /\ i' = 1
  /\ names' = {}
  /\ numbers' = {}
  /\ UNCHANGED <<calls, d, errors, types, verdict>>

NumberOf(kind, item) == IF kind = "model" THEN item.number ELSE item.value

\* check_duplicate_field_numbers looks at numbers, check_duplicate_enum_values
\* at names and values.
CheckDuplicate ==
  /\ stage = "duplicates"
  /\ i <= Len(Decl.items)
  /\ LET number == NumberOf(Decl.kind, Item)
     IN /\ add_errors(When(number \in numbers, "duplicate_number")
                      \cup When(Decl.kind = "enum" /\ Item.name \in names,
                                "duplicate_value_name"), d, i)
        /\ numbers' = numbers \cup {number}
  /\ names' = IF Decl.kind = "enum" THEN names \cup {Item.name} ELSE names
  /\ i' = i + 1
  /\ UNCHANGED <<calls, stage, d, types, verdict>>

EndDuplicates ==
  /\ stage = "duplicates"
  /\ i > Len(Decl.items)
  /\ stage' = "items"
  /\ i' = 1
  /\ UNCHANGED <<calls, d, names, numbers, errors, types, verdict>>

VisitItem ==
  /\ stage = "items"
  /\ i <= Len(Decl.items)
  /\ add_errors(VisitErrors(Decl.kind, Item, types), d, i)
  /\ i' = i + 1
  /\ UNCHANGED <<calls, stage, d, names, numbers, types, verdict>>

LeaveDecl ==
  /\ stage = "items"
  /\ i > Len(Decl.items)
  /\ stage' = "visit"
  /\ d' = d + 1
  /\ UNCHANGED <<calls, i, names, numbers, errors, types, verdict>>

\* return !context_.has_errors()
Return ==
  /\ stage = "visit"
  /\ d > Len(Schema.decls)
  /\ verdict' = (errors = {})
  /\ stage' = "idle"
  /\ UNCHANGED <<calls, d, i, names, numbers, errors, types>>

Step ==
  \/ CheckName \/ Register \/ VisitEmpty \/ VisitDecl \/ CheckDuplicate
  \/ EndDuplicates \/ VisitItem \/ LeaveDecl \/ Return

Next == Validate \/ Step

Spec == Init /\ [][Next]_vars

-----------------------------------------------------------------------------
TypeOK ==
  /\ calls \in Seq(ASchema) /\ Call <= Len(Schemas)
  /\ stage \in {"idle", "names", "visit", "duplicates", "items"}
  /\ d \in Nat /\ i \in Nat
  /\ stage # "idle" => calls # <<>> /\ d \in 1 .. Len(Schema.decls) + 1
  /\ stage \in {"duplicates", "items"} =>
       d <= Len(Schema.decls) /\ i \in 1 .. Len(Decl.items) + 1
  /\ verdict \in BOOLEAN

(* The rules of a schema, without the walk *)

\* The type names a field of call c may use: its own schema's and, because the
\* context is kept, those of the schemas validated before.
Visible(c) == UNION {DeclaredNames(calls[k]) : k \in 1 .. c}

\* The rules that declaration k breaks as a whole, and those its item n breaks.
DeclRules(c, k) ==
  LET decls == calls[c].decls
  IN When(\E j \in 1 .. k - 1 : decls[j].name = decls[k].name, "duplicate_declaration")
     \cup When(decls[k].items = <<>>, "empty")

DuplicateRules(decl, n) ==
  When(\E m \in 1 .. n - 1 :
         NumberOf(decl.kind, decl.items[m]) = NumberOf(decl.kind, decl.items[n]),
       "duplicate_number")
  \cup When(decl.kind = "enum" /\ \E m \in 1 .. n - 1 : decl.items[m].name = decl.items[n].name,
            "duplicate_value_name")

ItemRules(c, k, n) ==
  LET decl == calls[c].decls[k]
  IN VisitErrors(decl.kind, decl.items[n], Visible(c)) \cup DuplicateRules(decl, n)

Violations(c) ==
  LET decls == calls[c].decls
  IN Errors(c, NamespaceRules(calls[c]), 0, 0)
     \cup (UNION {Errors(c, DeclRules(c, k), k, 0) : k \in DOMAIN decls})
     \cup (UNION {UNION {Errors(c, ItemRules(c, k, n), k, n) : n \in DOMAIN decls[k].items} :
                    k \in DOMAIN decls})

\* When a call of validate() returns, the context holds every violation of every
\* schema validated with it and nothing else, each at its declaration and item;
\* the call returns true exactly when there is none, so a Validator that has
\* rejected a schema rejects all later ones.
ErrorsExact ==
  stage = "idle" =>
    /\ errors = UNION {Violations(c) : c \in 1 .. Call}
    /\ verdict <=> errors = {}

(* What a schema must be, stated without naming any rule *)

\* The number fits a tag of 32 bits and is not reserved, the type is declared, and the
\* modifiers go with each other and with the type.  This is less than dsl_reference.md
\* asks and the generator needs: a packed string passes, and nothing is printed for it.
FieldWellFormed(f, known_types) ==
  /\ 1 <= f.number /\ f.number <= 536870911
  /\ f.number < 19000 \/ 19999 < f.number
  /\ f.type \in PrimitiveTypes \cup known_types
  /\ ~(is_optional(f) /\ is_repeated(f))
  /\ is_packed(f) => is_repeated(f) /\ f.type \in PrimitiveTypes
  /\ is_bitmap(f) => is_repeated(f) /\ ~is_packed(f) /\ f.type = "BOOL"
  /\ is_interned(f) => f.type = "STRING"

Distinct(items, Key(_)) ==
  \A m, n \in DOMAIN items : m # n => Key(items[m]) # Key(items[n])

\* A model has fields, with distinct numbers: they are the cases of a switch.  An enum
\* has values, with distinct names and distinct numbers, none of them negative.
DeclWellFormed(decl, known_types) ==
  /\ decl.items # <<>>
  /\ decl.kind = "model" =>
       /\ Distinct(decl.items, LAMBDA f : f.number)
       /\ \A n \in DOMAIN decl.items : FieldWellFormed(decl.items[n], known_types)
  /\ decl.kind = "enum" =>
       /\ Distinct(decl.items, LAMBDA v : v.name)
       /\ Distinct(decl.items, LAMBDA v : v.value)
       /\ \A n \in DOMAIN decl.items : decl.items[n].value >= 0

WellFormed(c) ==
  /\ calls[c].named
  /\ Distinct(calls[c].decls, LAMBDA decl : decl.name)
  /\ \A k \in DOMAIN calls[c].decls : DeclWellFormed(calls[c].decls[k], Visible(c))

\* compile_schema() generates code exactly when validate() returned true.  It does so
\* if and only if the schema, and every schema validated before it with the same
\* Validator, is well formed: no defect is let through, and no schema is refused
\* without one.
AcceptsWellFormed == stage = "idle" => (verdict <=> \A c \in 1 .. Call : WellFormed(c))
=============================================================================
