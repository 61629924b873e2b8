----------------------------- MODULE MCGenerator -----------------------------
(* Small schemas around every rule of the validator. *)
EXTENDS Generator

Field(number, type, mods) == [number |-> number, name |-> "f", type |-> type, mods |-> mods]
Model(name, fields) == [kind |-> "model", name |-> name, items |-> fields]
Enum(name, values) == [kind |-> "enum", name |-> name, items |-> values]
Value(name, value) == [name |-> name, value |-> value]

\* Declarations that are right, alone or together.
RightDecls == {
  Model("A", <<Field(1, "INT32", {}), Field(2, "E", {"optional"})>>),
  Model("B", <<Field(1, "A", {"repeated"}), Field(2, "BOOL", {"repeated", "bitmap"})>>),
  Enum("E", <<Value("X", 0), Value("Y", 1)>>)}

\* Declarations that break rules within themselves.
WrongDecls == {
  Model("A", <<Field(1, "INT32", {"packed"}), Field(1, "STRING", {"optional", "repeated"})>>),
  Model("B", <<>>),
  Enum("E", <<Value("X", 1), Value("X", -1), Value("Z", 1)>>),
  Enum("A", <<>>)}

MCDecls == RightDecls \cup WrongDecls

\* Up to two of them, with and without a namespace.
PairSchemas ==
  {[named |-> named, decls |-> decls] :
     named \in BOOLEAN, decls \in {<<>>} \cup {<<x>> : x \in MCDecls} \cup (MCDecls \X MCDecls)}

\* One field with each edge number, type and set of modifiers, in a declared model.
EdgeNumbers == {-1, 0, 1, 18999, 19000, 19999, 20000, 536870911, 536870912}
Modifiers == {"optional", "repeated", "packed", "interned", "bitmap"}

FieldSchemas ==
  {[named |-> TRUE, decls |-> <<Model("A", <<Field(n, type, mods)>>)>>] :
     n \in EdgeNumbers, type \in {"INT32", "STRING", "BOOL", "A", "Gone"}, mods \in SUBSET Modifiers}

\* For the call after these: one declaration, with a type of an earlier schema or not.
LaterSchemas == {[named |-> TRUE, decls |-> <<x>>] : x \in MCDecls}

MCSchemas == <<PairSchemas \cup FieldSchemas, LaterSchemas>>

\* Models that use each other, in both orders.
OrderSchemas ==
  <<{[named |-> TRUE, decls |-> decls] : decls \in {<<x, y>> : x, y \in RightDecls}}>>
=============================================================================
