---------------------------- MODULE SchemaProofs ----------------------------
(***************************************************************************)
(* For every sequence of schemas: what one Validator reports is exactly    *)
(* what is wrong with them, it accepts exactly the well-formed ones, and   *)
(* what is generated from those holds together.                            *)
(*                                                                         *)
(* The walk is in the middle of a schema most of the time.  The inductive  *)
(* invariant says which violations it has reported by then: those whose    *)
(* check lies before the place (stage, d, i).  The generator makes none of *)
(* the checks; its proof takes them from that invariant.                   *)
(***************************************************************************)
EXTENDS Generator, TLAPS

AllViolations == UNION {Violations(c) : c \in 1 .. Call}

VisitRules == {
  "number_out_of_range", "number_reserved", "optional_repeated", "packed_not_repeated",
  "bitmap_not_repeated", "packed_bitmap", "interned_not_string", "unknown_type",
  "packed_type", "interned_type", "bitmap_type", "negative_value"}

\* The check that finds a violation of this rule at this place has been made.
Passed(rule, k, n) ==
  \/ stage = "idle"
  \/ rule = "no_namespace"
  \/ rule = "duplicate_declaration" /\ (stage # "names" \/ k < d)
  \/ rule # "duplicate_declaration" /\ stage # "names" /\ k < d
  \/ /\ rule \in {"duplicate_number", "duplicate_value_name"} /\ k = d
     /\ stage = "items" \/ (stage = "duplicates" /\ n < i)
  \/ rule \in VisitRules /\ k = d /\ stage = "items" /\ n < i

Reported(e) == e.call < Call \/ Passed(e.rule, e.decl, e.item)

ErrorsSoFar == errors = {e \in AllViolations : Reported(e)}

\* The declarations of a schema are registered as a whole.
TypesSoFar == types = Visible(IF stage = "names" THEN Call - 1 ELSE Call)

\* The sets of the duplicate checks hold what lies before the current place.
SetsSoFar ==
  /\ stage = "names" => names = {Schema.decls[k].name : k \in 1 .. d - 1}
  /\ stage = "duplicates" =>
       /\ numbers = {NumberOf(Decl.kind, Decl.items[n]) : n \in 1 .. i - 1}
       /\ Decl.kind = "enum" => names = {Decl.items[n].name : n \in 1 .. i - 1}

ItemsThere == stage \in {"duplicates", "items"} => Decl.items # <<>>

VerdictRight == stage = "idle" => (verdict <=> errors = {})

IInv ==
  /\ TypeOK
  /\ ErrorsSoFar
  /\ TypesSoFar
  /\ SetsSoFar
  /\ ItemsThere
  /\ VerdictRight

-----------------------------------------------------------------------------
(* Violations one at a time *)

Violation(c, r, k, n) == [call |-> c, rule |-> r, decl |-> k, item |-> n]

Broken(c, r, k, n) ==
  \/ r \in NamespaceRules(calls[c]) /\ k = 0 /\ n = 0
  \/ k \in DOMAIN calls[c].decls /\ r \in DeclRules(c, k) /\ n = 0
  \/ /\ k \in DOMAIN calls[c].decls /\ n \in DOMAIN calls[c].decls[k].items
     /\ r \in ItemRules(c, k, n)

LEMMA ErrorsMember ==
  ASSUME NEW c, NEW rules, NEW k, NEW n, NEW e
  PROVE  e \in Errors(c, rules, k, n) <=> \E r \in rules : e = Violation(c, r, k, n)
  BY DEF Errors, Violation

LEMMA ViolationFields ==
  ASSUME NEW c, NEW r, NEW k, NEW n, NEW c2, NEW r2, NEW k2, NEW n2
  PROVE  /\ Violation(c, r, k, n) = Violation(c2, r2, k2, n2) <=>
              c = c2 /\ r = r2 /\ k = k2 /\ n = n2
         /\ Violation(c, r, k, n).call = c /\ Violation(c, r, k, n).rule = r
         /\ Violation(c, r, k, n).decl = k /\ Violation(c, r, k, n).item = n
  BY DEF Violation

\* Violations(c) as a condition on the four parts of an error.
LEMMA ViolationsMember ==
  ASSUME NEW c, NEW e
  PROVE  e \in Violations(c) <=> \E r, k, n : e = Violation(c, r, k, n) /\ Broken(c, r, k, n)
<1> DEFINE decls == calls[c].decls
           Whole == Errors(c, NamespaceRules(calls[c]), 0, 0)
           Decls == UNION {Errors(c, DeclRules(c, k), k, 0) : k \in DOMAIN decls}
           ItemsOf(k) == UNION {Errors(c, ItemRules(c, k, n), k, n) : n \in DOMAIN decls[k].items}
           Items == UNION {ItemsOf(k) : k \in DOMAIN decls}
<1>1. Violations(c) = Whole \cup Decls \cup Items
  BY Zenon DEF Violations
<1>2. e \in Whole <=> \E r \in NamespaceRules(calls[c]) : e = Violation(c, r, 0, 0)
  BY ErrorsMember
<1>3. e \in Decls <=> \E k \in DOMAIN decls : \E r \in DeclRules(c, k) : e = Violation(c, r, k, 0)
  <2>1. e \in Decls <=> \E k \in DOMAIN decls : e \in Errors(c, DeclRules(c, k), k, 0)
    OBVIOUS
  <2> QED
    BY <2>1, ErrorsMember
<1>4. e \in Items <=> \E k \in DOMAIN decls : \E n \in DOMAIN decls[k].items :
                        \E r \in ItemRules(c, k, n) : e = Violation(c, r, k, n)
  <2>1. e \in Items <=> \E k \in DOMAIN decls : e \in ItemsOf(k)
    OBVIOUS
  <2>2. \A k : e \in ItemsOf(k) <=>
                 \E n \in DOMAIN decls[k].items : e \in Errors(c, ItemRules(c, k, n), k, n)
    OBVIOUS
  <2> QED
    BY <2>1, <2>2, ErrorsMember
<1> HIDE DEF Whole, Decls, Items
<1> QED
  BY <1>1, <1>2, <1>3, <1>4, Zenon DEF Broken

LEMMA AllViolationsMember ==
  \A e : e \in AllViolations <=>
           \E c \in 1 .. Call : \E r, k, n : e = Violation(c, r, k, n) /\ Broken(c, r, k, n)
<1>1. \A e : e \in AllViolations <=> \E c \in 1 .. Call : e \in Violations(c)
  BY DEF AllViolations
<1> QED
  BY <1>1, ViolationsMember, Zenon

\* Which checks find what.
LEMMA RuleSets ==
  /\ \A kind, item, known : VisitErrors(kind, item, known) \subseteq VisitRules
  /\ \A decl, n : DuplicateRules(decl, n) \subseteq {"duplicate_number", "duplicate_value_name"}
  /\ \A c, k : DeclRules(c, k) \subseteq {"duplicate_declaration", "empty"}
  /\ \A schema : NamespaceRules(schema) \subseteq {"no_namespace"}
<1>1. ASSUME NEW kind, NEW item, NEW known
      PROVE  VisitErrors(kind, item, known) \subseteq VisitRules
  <2>1. \A condition, rule : When(condition, rule) \subseteq {rule}
    BY DEF When
  <2>2. visit_enum_value(item) \subseteq VisitRules /\ validate_field_number(item) \subseteq VisitRules
    BY <2>1, SMT DEF visit_enum_value, validate_field_number, VisitRules
  <2>3. /\ validate_field_modifiers(item) \subseteq VisitRules
        /\ validate_type_exists(item, known) \subseteq VisitRules
        /\ check_modifier_compatibility(item) \subseteq VisitRules
    BY <2>1, SMT DEF validate_field_modifiers, validate_type_exists, check_modifier_compatibility, VisitRules
  <2> QED
    BY <2>2, <2>3 DEF VisitErrors, visit_field
<1>2. ASSUME NEW decl, NEW n
      PROVE  DuplicateRules(decl, n) \subseteq {"duplicate_number", "duplicate_value_name"}
  BY DEF DuplicateRules, When
<1>3. ASSUME NEW c, NEW k
      PROVE  DeclRules(c, k) \subseteq {"duplicate_declaration", "empty"}
  BY DEF DeclRules, When
<1>4. ASSUME NEW schema
      PROVE  NamespaceRules(schema) \subseteq {"no_namespace"}
  BY DEF NamespaceRules, When
<1> QED
  BY <1>1, <1>2, <1>3, <1>4, Zenon

LEMMA BrokenCases ==
  ASSUME NEW c, NEW r, NEW k, NEW n, Broken(c, r, k, n)
  PROVE  \/ r = "no_namespace" /\ k = 0 /\ n = 0
         \/ /\ r = "duplicate_declaration" /\ k \in DOMAIN calls[c].decls /\ n = 0
            /\ r \in DeclRules(c, k)
         \/ r = "empty" /\ k \in DOMAIN calls[c].decls /\ n = 0 /\ calls[c].decls[k].items = <<>>
         \/ /\ r \in {"duplicate_number", "duplicate_value_name"} \cup VisitRules
            /\ k \in DOMAIN calls[c].decls /\ n \in DOMAIN calls[c].decls[k].items
            /\ r \in VisitRules => r \in VisitErrors(calls[c].decls[k].kind, calls[c].decls[k].items[n], Visible(c))
            /\ r \notin VisitRules => r \in DuplicateRules(calls[c].decls[k], n)
<1>1. CASE r \in NamespaceRules(calls[c]) /\ k = 0 /\ n = 0
  BY <1>1, RuleSets
<1>2. CASE k \in DOMAIN calls[c].decls /\ r \in DeclRules(c, k) /\ n = 0
  BY <1>2 DEF DeclRules, When
<1>3. CASE /\ k \in DOMAIN calls[c].decls /\ n \in DOMAIN calls[c].decls[k].items
           /\ r \in ItemRules(c, k, n)
  <2>1. {"duplicate_number", "duplicate_value_name"} \cap VisitRules = {}
    BY DEF VisitRules
  <2> QED
    BY <1>3, <2>1, RuleSets, Zenon DEF ItemRules
<1> QED
  BY <1>1, <1>2, <1>3 DEF Broken

\* What is wrong with the schemas seen does not change while they are walked.
LEMMA CallsFrame ==
  ASSUME calls' = calls
  PROVE  /\ Call' = Call /\ Schema' = Schema
         /\ \A c : Visible(c)' = Visible(c)
         /\ \A c, r, k, n : Broken(c, r, k, n)' <=> Broken(c, r, k, n)
         /\ AllViolations' = AllViolations
<1>1. Call' = Call /\ Schema' = Schema
  BY DEF Call, Schema
<1>2. \A c : Visible(c)' = Visible(c)
  BY Zenon DEF Visible
<1>3. ASSUME NEW c, NEW r, NEW k, NEW n
      PROVE  Broken(c, r, k, n)' <=> Broken(c, r, k, n)
  <2>1. DeclRules(c, k)' = DeclRules(c, k)
    BY Zenon DEF DeclRules
  <2>2. ItemRules(c, k, n)' = ItemRules(c, k, n)
    BY <1>2, Zenon DEF ItemRules
  <2> QED
    BY <2>1, <2>2 DEF Broken
<1>4. (\A e : e \in AllViolations <=>
         \E c \in 1 .. Call : \E r, k, n : e = Violation(c, r, k, n) /\ Broken(c, r, k, n))'
  BY AllViolationsMember, PTL
<1>5. ASSUME NEW e PROVE e \in AllViolations' <=> e \in AllViolations
  <2>1. e \in AllViolations' <=>
          \E c \in 1 .. Call : \E r, k, n : e = Violation(c, r, k, n) /\ Broken(c, r, k, n)'
    BY <1>1, <1>4
  <2> QED
    BY <1>3, <2>1, AllViolationsMember, Zenon
<1> QED
  BY <1>1, <1>2, <1>3, <1>5

\* A step that reports the rules of a set at one place.
LEMMA Reporting ==
  ASSUME IInv, calls' = calls, Call \in 1 .. Call,
         NEW rules, NEW k, NEW n,
         errors' = errors \cup Errors(Call, rules, k, n),
         \A r \in rules : Broken(Call, r, k, n),
         \A r, l, m : Broken(Call, r, l, m) =>
           (Passed(r, l, m)' <=> Passed(r, l, m) \/ (r \in rules /\ l = k /\ m = n))
  PROVE  ErrorsSoFar'
<1>1. errors' = {e \in AllViolations : Reported(e)'}
  <2>1. ASSUME NEW e
        PROVE  e \in errors' <=> e \in AllViolations /\ Reported(e)'
    <3>1. e \in errors <=> e \in AllViolations /\ Reported(e)
      BY DEF IInv, ErrorsSoFar
    <3>2. e \in errors' <=> e \in errors \/ \E r \in rules : e = Violation(Call, r, k, n)
      BY ErrorsMember
    <3>3. CASE e \notin AllViolations
      <4>1. \A r \in rules : Violation(Call, r, k, n) \in AllViolations
        BY AllViolationsMember
      <4> QED
        BY <3>1, <3>2, <3>3, <4>1
    <3>4. CASE e \in AllViolations
      <4>0. PICK c \in 1 .. Call : \E r, l, m : e = Violation(c, r, l, m) /\ Broken(c, r, l, m)
        BY <3>4, AllViolationsMember
      <4>1. PICK r, l, m : e = Violation(c, r, l, m) /\ Broken(c, r, l, m)
        BY <4>0
      <4>2. /\ Reported(e) <=> c < Call \/ Passed(r, l, m)
            /\ Reported(e)' <=> c < Call \/ Passed(r, l, m)'
        BY <4>1, ViolationFields, CallsFrame DEF Reported
      <4>3. e \in errors' <=> Reported(e) \/ (c = Call /\ r \in rules /\ l = k /\ m = n)
        BY <3>1, <3>2, <3>4, <4>1, ViolationFields
      <4>4. CASE c = Call
        BY <3>4, <4>1, <4>2, <4>3, <4>4
      <4>5. CASE c < Call
        <5>1. c # Call
          BY <4>5 DEF IInv, TypeOK, Call
        <5> QED
          BY <3>4, <4>2, <4>3, <4>5, <5>1
      <4> QED
        BY <4>4, <4>5 DEF IInv, TypeOK, Call
    <3> QED
      BY <3>3, <3>4
  <2> QED
    BY <2>1
<1> QED
  BY <1>1, CallsFrame DEF ErrorsSoFar

-----------------------------------------------------------------------------
(* The steps *)

LEMMA DeclType ==
  ASSUME NEW decl \in ADecl
  PROVE  /\ Len(decl.items) \in Nat /\ DOMAIN decl.items = 1 .. Len(decl.items)
         /\ decl.items # <<>> <=> Len(decl.items) > 0
  BY DEF ADecl

LEMMA CallType ==
  ASSUME TypeOK, NEW c \in 1 .. Call
  PROVE  /\ calls[c] \in ASchema /\ calls[c].decls \in Seq(ADecl) /\ Len(calls[c].decls) \in Nat
         /\ DOMAIN calls[c].decls = 1 .. Len(calls[c].decls)
         /\ \A k \in 1 .. Len(calls[c].decls) : calls[c].decls[k] \in ADecl
<1>1. calls[c] \in ASchema
  BY DEF TypeOK, Call
<1>2. calls[c].decls \in Seq(ADecl)
  BY <1>1 DEF ASchema
<1> QED
  BY <1>1, <1>2

LEMMA Current ==
  ASSUME TypeOK, stage # "idle"
  PROVE  /\ Call \in Nat /\ Call \in 1 .. Call /\ Schema = calls[Call]
         /\ Len(Schema.decls) \in Nat /\ DOMAIN Schema.decls = 1 .. Len(Schema.decls)
         /\ d \in 1 .. Len(Schema.decls) + 1
         /\ d <= Len(Schema.decls) => Decl = calls[Call].decls[d] /\ Decl \in ADecl
<1>1. Call \in Nat /\ Call \in 1 .. Call
  BY DEF TypeOK, Call
<1>2. Schema = calls[Call]
  BY DEF Schema
<1> QED
  BY <1>1, <1>2, CallType DEF TypeOK, Decl

LEMMA CheckNameInv ==
  ASSUME IInv, CheckName
  PROVE  IInv'
<1> DEFINE rules == When(Decl.name \in names, "duplicate_declaration")
<1>1. /\ stage = "names" /\ d <= Len(Schema.decls) /\ d' = d + 1
      /\ names' = names \cup {Decl.name}
      /\ UNCHANGED <<calls, stage, i, numbers, types, verdict>>
      /\ errors' = errors \cup Errors(Call, rules, d, 0)
  BY DEF CheckName, add_errors
<1>2. /\ Call \in Nat /\ Call \in 1 .. Call /\ Schema = calls[Call] /\ Decl = Schema.decls[d]
      /\ Len(Schema.decls) \in Nat /\ DOMAIN Schema.decls = 1 .. Len(Schema.decls)
      /\ d \in 1 .. Len(Schema.decls)
  BY <1>1, Current DEF IInv, Decl
<1>3. Call' = Call /\ Schema' = Schema /\ \A c : Visible(c)' = Visible(c)
  BY <1>1, CallsFrame
<1>4. names = {Schema.decls[k].name : k \in 1 .. d - 1}
  BY <1>1 DEF IInv, SetsSoFar
<1>5. ErrorsSoFar'
  <2>1. Decl.name \in names <=> \E j \in 1 .. d - 1 : Schema.decls[j].name = Schema.decls[d].name
    BY <1>2, <1>4
  <2>2. rules \subseteq {"duplicate_declaration"}
    BY DEF When
  <2>3. "duplicate_declaration" \in rules <=> "duplicate_declaration" \in DeclRules(Call, d)
    BY <1>2, <2>1 DEF When, DeclRules
  <2> HIDE DEF rules
  <2>4. \A r \in rules : Broken(Call, r, d, 0)
    BY <1>2, <2>2, <2>3 DEF Broken
  <2>5. ASSUME NEW r, NEW l, NEW m, Broken(Call, r, l, m)
        PROVE  Passed(r, l, m)' <=> Passed(r, l, m) \/ (r \in rules /\ l = d /\ m = 0)
    <3>1. CASE r = "duplicate_declaration"
      <4>1. l \in DOMAIN Schema.decls /\ m = 0 /\ r \in DeclRules(Call, l)
        BY <1>2, <2>5, <3>1, BrokenCases DEF VisitRules
      <4>2. l = d => r \in rules
        BY <2>3, <3>1, <4>1
      <4> QED
        BY <1>1, <1>2, <3>1, <4>1, <4>2 DEF Passed, VisitRules
    <3>2. CASE r # "duplicate_declaration"
      BY <1>1, <2>2, <3>2, Zenon DEF Passed
    <3> QED
      BY <3>1, <3>2
  <2> QED
    BY <1>1, <1>2, <2>4, <2>5, Reporting, Zenon
<1>6. TypeOK'
  BY <1>1, <1>2, <1>3 DEF IInv, TypeOK
<1>7. TypesSoFar'
  BY <1>1, <1>3 DEF IInv, TypesSoFar
<1>8. SetsSoFar'
  <2>1. {Schema.decls[k].name : k \in 1 .. (d + 1) - 1} = names \cup {Decl.name}
    BY <1>2, <1>4, SMTT(20)
  <2> QED
    BY <1>1, <1>3, <2>1 DEF SetsSoFar
<1>9. ItemsThere' /\ VerdictRight'
  BY <1>1 DEF ItemsThere, VerdictRight
<1> QED
  BY <1>5, <1>6, <1>7, <1>8, <1>9 DEF IInv

\* What can be wrong with the schema that is walked, and where.
LEMMA BrokenNow ==
  ASSUME TypeOK, stage # "idle", NEW r, NEW l, NEW m, Broken(Call, r, l, m)
  PROVE  \/ r = "no_namespace"
         \/ r = "duplicate_declaration" /\ l \in 1 .. Len(Schema.decls)
         \/ /\ r = "empty" /\ l \in 1 .. Len(Schema.decls) /\ m = 0
            /\ Schema.decls[l].items = <<>>
         \/ /\ r \in {"duplicate_number", "duplicate_value_name"}
            /\ l \in 1 .. Len(Schema.decls) /\ m \in 1 .. Len(Schema.decls[l].items)
            /\ Schema.decls[l].items # <<>> /\ r \in DuplicateRules(Schema.decls[l], m)
         \/ /\ r \in VisitRules
            /\ l \in 1 .. Len(Schema.decls) /\ m \in 1 .. Len(Schema.decls[l].items)
            /\ Schema.decls[l].items # <<>>
            /\ r \in VisitErrors(Schema.decls[l].kind, Schema.decls[l].items[m], Visible(Call))
<1>1. /\ Schema = calls[Call] /\ DOMAIN Schema.decls = 1 .. Len(Schema.decls)
      /\ Call \in 1 .. Call
  BY Current
<1>2. \A k \in 1 .. Len(Schema.decls) :
        /\ DOMAIN Schema.decls[k].items = 1 .. Len(Schema.decls[k].items)
        /\ Schema.decls[k].items # <<>> <=> Len(Schema.decls[k].items) > 0
        /\ Len(Schema.decls[k].items) \in Nat
  BY <1>1, CallType, DeclType
<1>3. CASE r \notin {"no_namespace", "duplicate_declaration", "empty"}
  <2>1. /\ r \in {"duplicate_number", "duplicate_value_name"} \cup VisitRules
        /\ l \in DOMAIN Schema.decls /\ m \in DOMAIN Schema.decls[l].items
        /\ r \in VisitRules =>
             r \in VisitErrors(Schema.decls[l].kind, Schema.decls[l].items[m], Visible(Call))
        /\ r \notin VisitRules => r \in DuplicateRules(Schema.decls[l], m)
    BY <1>1, <1>3, BrokenCases
  <2>2. l \in 1 .. Len(Schema.decls) /\ m \in 1 .. Len(Schema.decls[l].items)
    BY <1>1, <1>2, <2>1, SMTT(20)
  <2>3. Schema.decls[l].items # <<>>
    BY <1>2, <2>2
  <2> QED
    BY <2>1, <2>2, <2>3, Zenon
<1>4. CASE r \in {"no_namespace", "duplicate_declaration", "empty"}
  <2>1. r \notin {"duplicate_number", "duplicate_value_name"} \cup VisitRules
    BY <1>4 DEF VisitRules
  <2> QED
    BY <1>1, <1>4, <2>1, BrokenCases
<1> QED
  BY <1>3, <1>4

\* A step that reports nothing.
LEMMA Quiet ==
  ASSUME IInv, calls' = calls, stage # "idle", errors' = errors,
         \A r, l, m : Broken(Call, r, l, m) => (Passed(r, l, m)' <=> Passed(r, l, m))
  PROVE  ErrorsSoFar'
<1>1. errors' = errors \cup Errors(Call, {}, 0, 0)
  BY DEF Errors
<1>2. Call \in 1 .. Call
  BY Current DEF IInv
<1> QED
  BY <1>1, <1>2, Reporting

LEMMA RegisterInv ==
  ASSUME IInv, Register
  PROVE  IInv'
<1>1. /\ stage = "names" /\ d > Len(Schema.decls) /\ d' = 1 /\ stage' = "visit"
      /\ types' = types \cup DeclaredNames(Schema)
      /\ UNCHANGED <<calls, i, names, numbers, errors, verdict>>
  BY DEF Register
<1>2. /\ Call \in Nat /\ Call \in 1 .. Call /\ Schema = calls[Call]
      /\ Len(Schema.decls) \in Nat /\ d \in Nat
  BY <1>1, Current DEF IInv, TypeOK
<1>3. Call' = Call /\ Schema' = Schema /\ \A c : Visible(c)' = Visible(c)
  BY <1>1, CallsFrame
<1>4. ErrorsSoFar'
  <2>1. ASSUME NEW r, NEW l, NEW m, Broken(Call, r, l, m)
        PROVE  Passed(r, l, m)' <=> Passed(r, l, m)
    BY <1>1, <1>2, <2>1, BrokenNow DEF IInv, Passed
  <2> QED
    BY <1>1, <2>1, Quiet
<1>5. TypeOK'
  BY <1>1, <1>2, <1>3 DEF IInv, TypeOK
<1>6. TypesSoFar'
  <2>1. Visible(Call) = Visible(Call - 1) \cup DeclaredNames(calls[Call])
    BY <1>2 DEF Visible
  <2>2. types = Visible(Call - 1)
    BY <1>1 DEF IInv, TypesSoFar
  <2> QED
    BY <1>1, <1>2, <1>3, <2>1, <2>2 DEF TypesSoFar
<1>7. SetsSoFar' /\ ItemsThere' /\ VerdictRight'
  BY <1>1 DEF SetsSoFar, ItemsThere, VerdictRight
<1> QED
  BY <1>4, <1>5, <1>6, <1>7 DEF IInv

LEMMA VisitEmptyInv ==
  ASSUME IInv, VisitEmpty
  PROVE  IInv'
<1> DEFINE rules == {"empty"}
<1>1. /\ stage = "visit" /\ d <= Len(Schema.decls) /\ Decl.items = <<>> /\ d' = d + 1
      /\ UNCHANGED <<calls, stage, i, names, numbers, types, verdict>>
      /\ errors' = errors \cup Errors(Call, rules, d, 0)
  BY DEF VisitEmpty, add_errors
<1>2. /\ Call \in Nat /\ Call \in 1 .. Call /\ Schema = calls[Call] /\ Decl = Schema.decls[d]
      /\ Len(Schema.decls) \in Nat /\ DOMAIN Schema.decls = 1 .. Len(Schema.decls)
      /\ d \in 1 .. Len(Schema.decls)
  BY <1>1, Current DEF IInv, Decl
<1>3. Call' = Call /\ Schema' = Schema /\ \A c : Visible(c)' = Visible(c)
  BY <1>1, CallsFrame
<1>4. ErrorsSoFar'
  <2>1. \A r \in rules : Broken(Call, r, d, 0)
    BY <1>1, <1>2 DEF Broken, DeclRules, When
  <2>2. ASSUME NEW r, NEW l, NEW m, Broken(Call, r, l, m)
        PROVE  Passed(r, l, m)' <=> Passed(r, l, m) \/ (r \in rules /\ l = d /\ m = 0)
    <3>1. \/ r = "no_namespace" \/ r = "duplicate_declaration"
          \/ /\ r # "no_namespace" /\ r # "duplicate_declaration"
             /\ l \in 1 .. Len(Schema.decls) /\ (l = d => r = "empty" /\ m = 0)
      BY <1>1, <1>2, <2>2, BrokenNow DEF IInv
    <3> QED
      BY <1>1, <1>2, <3>1 DEF Passed
  <2> HIDE DEF rules
  <2> QED
    BY <1>1, <1>2, <2>1, <2>2, Reporting, Zenon
<1>5. TypeOK'
  BY <1>1, <1>2, <1>3 DEF IInv, TypeOK
<1>6. TypesSoFar'
  BY <1>1, <1>3 DEF IInv, TypesSoFar
<1>7. SetsSoFar' /\ ItemsThere' /\ VerdictRight'
  BY <1>1 DEF SetsSoFar, ItemsThere, VerdictRight
<1> QED
  BY <1>4, <1>5, <1>6, <1>7 DEF IInv

\* The place of the walk while it is inside a declaration.
LEMMA Inside ==
  ASSUME IInv, stage \in {"visit", "duplicates", "items"}, d <= Len(Schema.decls)
  PROVE  /\ Call \in Nat /\ Call \in 1 .. Call /\ Schema = calls[Call] /\ Decl = Schema.decls[d]
         /\ Len(Schema.decls) \in Nat /\ DOMAIN Schema.decls = 1 .. Len(Schema.decls)
         /\ d \in 1 .. Len(Schema.decls) /\ i \in Nat
         /\ Len(Decl.items) \in Nat /\ DOMAIN Decl.items = 1 .. Len(Decl.items)
         /\ Decl.items # <<>> <=> Len(Decl.items) > 0
<1>1. Decl \in ADecl
  BY Current DEF IInv
<1> QED
  BY <1>1, Current, DeclType DEF IInv, TypeOK, Decl

LEMMA VisitDeclInv ==
  ASSUME IInv, VisitDecl
  PROVE  IInv'
<1>1. /\ stage = "visit" /\ d <= Len(Schema.decls) /\ Decl.items # <<>>
      /\ stage' = "duplicates" /\ i' = 1 /\ names' = {} /\ numbers' = {}
      /\ UNCHANGED <<calls, d, errors, types, verdict>>
  BY DEF VisitDecl
<1>2. /\ Decl = Schema.decls[d] /\ Len(Schema.decls) \in Nat /\ d \in 1 .. Len(Schema.decls)
      /\ Len(Decl.items) \in Nat /\ Len(Decl.items) > 0
  BY <1>1, Inside
<1>3. Call' = Call /\ Schema' = Schema /\ Decl' = Decl /\ \A c : Visible(c)' = Visible(c)
  BY <1>1, CallsFrame DEF Decl
<1>4. ErrorsSoFar'
  <2>1. ASSUME NEW r, NEW l, NEW m, Broken(Call, r, l, m)
        PROVE  Passed(r, l, m)' <=> Passed(r, l, m)
    <3>1. \/ r = "no_namespace" \/ r = "duplicate_declaration"
          \/ /\ r # "no_namespace" /\ r # "duplicate_declaration"
             /\ r = "empty" \/ ~(m < 1)
      BY <1>1, <1>2, <2>1, BrokenNow DEF IInv
    <3> QED
      BY <1>1, <1>2, <3>1 DEF Passed
  <2> QED
    BY <1>1, <2>1, Quiet
<1>5. TypeOK'
  BY <1>1, <1>2, <1>3 DEF IInv, TypeOK
<1>6. TypesSoFar'
  BY <1>1, <1>3 DEF IInv, TypesSoFar
<1>7. SetsSoFar' /\ ItemsThere' /\ VerdictRight'
  BY <1>1, <1>3 DEF SetsSoFar, ItemsThere, VerdictRight
<1> QED
  BY <1>4, <1>5, <1>6, <1>7 DEF IInv

LEMMA CheckDuplicateInv ==
  ASSUME IInv, CheckDuplicate
  PROVE  IInv'
<1> DEFINE number == NumberOf(Decl.kind, Item)
           rules == When(number \in numbers, "duplicate_number")
                    \cup When(Decl.kind = "enum" /\ Item.name \in names, "duplicate_value_name")
<1>1. /\ stage = "duplicates" /\ i <= Len(Decl.items) /\ i' = i + 1
      /\ UNCHANGED <<calls, stage, d, types, verdict>>
  BY DEF CheckDuplicate
<1>2. /\ numbers' = numbers \cup {number}
      /\ names' = IF Decl.kind = "enum" THEN names \cup {Item.name} ELSE names
      /\ errors' = errors \cup Errors(Call, rules, d, i)
  BY DEF CheckDuplicate, add_errors
<1>3. /\ Call \in Nat /\ Call \in 1 .. Call /\ Schema = calls[Call] /\ Decl = Schema.decls[d]
      /\ Len(Schema.decls) \in Nat /\ DOMAIN Schema.decls = 1 .. Len(Schema.decls)
      /\ d \in 1 .. Len(Schema.decls)
      /\ Len(Decl.items) \in Nat /\ DOMAIN Decl.items = 1 .. Len(Decl.items)
      /\ i \in 1 .. Len(Decl.items) /\ Item = Decl.items[i] /\ Decl.items # <<>>
  BY <1>1, Inside DEF IInv, TypeOK, ItemsThere, Item
<1>4. Call' = Call /\ Schema' = Schema /\ Decl' = Decl /\ \A c : Visible(c)' = Visible(c)
  BY <1>1, CallsFrame DEF Decl
<1>5. /\ numbers = {NumberOf(Decl.kind, Decl.items[n]) : n \in 1 .. i - 1}
      /\ Decl.kind = "enum" => names = {Decl.items[n].name : n \in 1 .. i - 1}
  BY <1>1 DEF IInv, SetsSoFar
<1>6. ErrorsSoFar'
  <2>1. rules = DuplicateRules(Decl, i)
    <3>0. Item = Decl.items[i]
      BY <1>3
    <3>1. number \in numbers <=> \E m \in 1 .. i - 1 :
            NumberOf(Decl.kind, Decl.items[m]) = NumberOf(Decl.kind, Decl.items[i])
      BY <3>0, <1>5, Zenon
    <3>2. Decl.kind = "enum" =>
            (Item.name \in names <=> \E m \in 1 .. i - 1 : Decl.items[m].name = Decl.items[i].name)
      BY <3>0, <1>5, Zenon
    <3> HIDE DEF number
    <3> QED
      BY <3>1, <3>2, Zenon DEF DuplicateRules, When
  <2> HIDE DEF rules
  <2>2. rules \subseteq {"duplicate_number", "duplicate_value_name"}
    BY <2>1, RuleSets
  <2>3. \A r \in rules : Broken(Call, r, d, i)
    BY <1>3, <2>1 DEF Broken, ItemRules
  <2>4. ASSUME NEW r, NEW l, NEW m, Broken(Call, r, l, m)
        PROVE  Passed(r, l, m)' <=> Passed(r, l, m) \/ (r \in rules /\ l = d /\ m = i)
    <3>1. CASE r \notin {"duplicate_number", "duplicate_value_name"}
      BY <1>1, <2>2, <3>1, Zenon DEF Passed
    <3>2. CASE r \in {"duplicate_number", "duplicate_value_name"}
      <4>1. r \notin VisitRules \cup {"empty", "no_namespace", "duplicate_declaration"}
        BY <3>2 DEF VisitRules
      <4>2. l \in Nat /\ m \in Nat /\ (l = d /\ m = i => r \in rules)
        <5>1. /\ l \in 1 .. Len(Schema.decls) /\ m \in 1 .. Len(Schema.decls[l].items)
              /\ r \in DuplicateRules(Schema.decls[l], m)
          BY <1>1, <2>4, <4>1, BrokenNow DEF IInv
        <5>2. Decl = Schema.decls[d]
          BY <1>3
        <5> QED
          BY <2>1, <5>1, <5>2
      <4>3. Passed(r, l, m) <=> l < d \/ (l = d /\ m < i)
        BY <1>1, <3>2, <4>1, Zenon DEF Passed
      <4>4. Passed(r, l, m)' <=> l < d \/ (l = d /\ m < i + 1)
        BY <1>1, <3>2, <4>1, Zenon DEF Passed
      <4> QED
        BY <1>3, <4>2, <4>3, <4>4
    <3> QED
      BY <3>1, <3>2
  <2> QED
    BY <1>2, <1>1, <1>3, <2>3, <2>4, Reporting, Zenon
<1>7. TypeOK'
  <2>1. i' \in Nat /\ i' \in 1 .. Len(Decl.items) + 1
    BY <1>1, <1>3, SMTT(20)
  <2> QED
    BY <1>1, <1>4, <2>1, Zenon DEF IInv, TypeOK
<1>8. TypesSoFar'
  BY <1>1, <1>4 DEF IInv, TypesSoFar
<1>9. SetsSoFar'
  <2>0. Item = Decl.items[i] /\ 1 .. (i + 1) - 1 = (1 .. i - 1) \cup {i}
    BY <1>3
  <2>1. {NumberOf(Decl.kind, Decl.items[n]) : n \in 1 .. (i + 1) - 1} = numbers \cup {number}
    BY <1>5, <2>0
  <2>2. Decl.kind = "enum" =>
          {Decl.items[n].name : n \in 1 .. (i + 1) - 1} = names \cup {Item.name}
    BY <1>5, <2>0
  <2> HIDE DEF number
  <2>3. numbers' = {NumberOf(Decl.kind, Decl.items[n]) : n \in 1 .. i' - 1}
    BY <1>1, <1>2, <2>1, Zenon
  <2>4. Decl.kind = "enum" => names' = {Decl.items[n].name : n \in 1 .. i' - 1}
    BY <1>1, <1>2, <2>2, Zenon
  <2> QED
    BY <1>1, <1>4, <2>3, <2>4, Zenon DEF SetsSoFar
<1>10. ItemsThere' /\ VerdictRight'
  BY <1>1, <1>3, <1>4 DEF ItemsThere, VerdictRight
<1> QED
  BY <1>6, <1>7, <1>8, <1>9, <1>10 DEF IInv

LEMMA EndDuplicatesInv ==
  ASSUME IInv, EndDuplicates
  PROVE  IInv'
<1>1. /\ stage = "duplicates" /\ i > Len(Decl.items) /\ stage' = "items" /\ i' = 1
      /\ UNCHANGED <<calls, d, names, numbers, errors, types, verdict>>
  BY DEF EndDuplicates
<1>2. /\ Decl = Schema.decls[d] /\ Len(Schema.decls) \in Nat /\ d \in 1 .. Len(Schema.decls)
      /\ Len(Decl.items) \in Nat /\ Decl.items # <<>> /\ i \in Nat
  BY <1>1, Inside DEF IInv, TypeOK, ItemsThere
<1>3. Call' = Call /\ Schema' = Schema /\ Decl' = Decl /\ \A c : Visible(c)' = Visible(c)
  BY <1>1, CallsFrame DEF Decl
<1>4. ErrorsSoFar'
  <2>1. ASSUME NEW r, NEW l, NEW m, Broken(Call, r, l, m)
        PROVE  Passed(r, l, m)' <=> Passed(r, l, m)
    <3>1. \/ r = "no_namespace" \/ r = "duplicate_declaration"
          \/ /\ r # "no_namespace" /\ r # "duplicate_declaration"
             /\ r = "empty" \/ (~(m < 1) /\ (l = d => m < i))
      BY <1>1, <1>2, <2>1, BrokenNow DEF IInv
    <3>2. r = "empty" => r \notin {"duplicate_number", "duplicate_value_name"} \cup VisitRules
      BY DEF VisitRules
    <3> QED
      BY <1>1, <1>2, <3>1, <3>2 DEF Passed
  <2> QED
    BY <1>1, <2>1, Quiet
<1>5. TypeOK'
  <2>1. 1 \in Nat /\ 1 \in 1 .. Len(Decl.items) + 1
    BY <1>2
  <2>2. stage' \in {"idle", "names", "visit", "duplicates", "items"} /\ stage # "idle"
    BY <1>1
  <2> QED
    BY <1>1, <1>3, <2>1, <2>2, Zenon DEF IInv, TypeOK
<1>6. TypesSoFar'
  BY <1>1, <1>3 DEF IInv, TypesSoFar
<1>7. SetsSoFar' /\ ItemsThere' /\ VerdictRight'
  BY <1>1, <1>2, <1>3 DEF SetsSoFar, ItemsThere, VerdictRight
<1> QED
  BY <1>4, <1>5, <1>6, <1>7 DEF IInv

LEMMA VisitItemInv ==
  ASSUME IInv, VisitItem
  PROVE  IInv'
<1> DEFINE rules == VisitErrors(Decl.kind, Item, types)
<1>1. /\ stage = "items" /\ i <= Len(Decl.items) /\ i' = i + 1
      /\ UNCHANGED <<calls, stage, d, names, numbers, types, verdict>>
      /\ errors' = errors \cup Errors(Call, rules, d, i)
  BY DEF VisitItem, add_errors
<1>2. /\ Call \in Nat /\ Call \in 1 .. Call /\ Schema = calls[Call] /\ Decl = Schema.decls[d]
      /\ Len(Schema.decls) \in Nat /\ DOMAIN Schema.decls = 1 .. Len(Schema.decls)
      /\ d \in 1 .. Len(Schema.decls)
      /\ Len(Decl.items) \in Nat /\ DOMAIN Decl.items = 1 .. Len(Decl.items)
      /\ i \in 1 .. Len(Decl.items) /\ Item = Decl.items[i] /\ Decl.items # <<>>
  BY <1>1, Inside DEF IInv, TypeOK, ItemsThere, Item
<1>3. Call' = Call /\ Schema' = Schema /\ Decl' = Decl /\ \A c : Visible(c)' = Visible(c)
  BY <1>1, CallsFrame DEF Decl
<1>4. types = Visible(Call)
  BY <1>1 DEF IInv, TypesSoFar
<1>5. ErrorsSoFar'
  <2>1. rules = VisitErrors(Decl.kind, Decl.items[i], Visible(Call)) /\ rules \subseteq VisitRules
    BY <1>2, <1>4, RuleSets
  <2> HIDE DEF rules
  <2>2. \A r \in rules : Broken(Call, r, d, i)
    BY <1>2, <2>1, SMTT(20) DEF Broken, ItemRules
  <2>3. ASSUME NEW r, NEW l, NEW m, Broken(Call, r, l, m)
        PROVE  Passed(r, l, m)' <=> Passed(r, l, m) \/ (r \in rules /\ l = d /\ m = i)
    <3>1. CASE r \notin VisitRules
      BY <1>1, <2>1, <3>1 DEF Passed
    <3>2. CASE r \in VisitRules
      <4>1. r \notin {"duplicate_number", "duplicate_value_name", "empty", "no_namespace",
                      "duplicate_declaration"}
        BY <3>2 DEF VisitRules
      <4>2. l \in Nat /\ m \in Nat /\ (l = d /\ m = i => r \in rules)
        <5>1. /\ l \in 1 .. Len(Schema.decls) /\ m \in 1 .. Len(Schema.decls[l].items)
              /\ r \in VisitErrors(Schema.decls[l].kind, Schema.decls[l].items[m], Visible(Call))
          BY <1>1, <2>3, <4>1, BrokenNow, SMTT(20) DEF IInv
        <5>2. Decl = Schema.decls[d]
          BY <1>2
        <5> QED
          BY <2>1, <5>1, <5>2
      <4>3. Passed(r, l, m) <=> l < d \/ (l = d /\ m < i)
        BY <1>1, <3>2, <4>1, Zenon DEF Passed
      <4>4. Passed(r, l, m)' <=> l < d \/ (l = d /\ m < i + 1)
        BY <1>1, <3>2, <4>1, Zenon DEF Passed
      <4> QED
        BY <1>2, <4>2, <4>3, <4>4
    <3> QED
      BY <3>1, <3>2
  <2> QED
    BY <1>1, <1>2, <2>2, <2>3, Reporting, Zenon
<1>6. TypeOK'
  <2>1. i' \in Nat /\ i' \in 1 .. Len(Decl.items) + 1
    BY <1>1, <1>2, SMTT(20)
  <2> QED
    BY <1>1, <1>3, <2>1, Zenon DEF IInv, TypeOK
<1>7. TypesSoFar'
  BY <1>1, <1>3 DEF IInv, TypesSoFar
<1>8. SetsSoFar' /\ ItemsThere' /\ VerdictRight'
  BY <1>1, <1>2, <1>3 DEF SetsSoFar, ItemsThere, VerdictRight
<1> QED
  BY <1>5, <1>6, <1>7, <1>8 DEF IInv

LEMMA LeaveDeclInv ==
  ASSUME IInv, LeaveDecl
  PROVE  IInv'
<1>1. /\ stage = "items" /\ i > Len(Decl.items) /\ stage' = "visit" /\ d' = d + 1
      /\ UNCHANGED <<calls, i, names, numbers, errors, types, verdict>>
  BY DEF LeaveDecl
<1>2. /\ Decl = Schema.decls[d] /\ Len(Schema.decls) \in Nat /\ d \in 1 .. Len(Schema.decls)
      /\ Len(Decl.items) \in Nat /\ Decl.items # <<>> /\ i \in Nat
  BY <1>1, Inside DEF IInv, TypeOK, ItemsThere
<1>3. Call' = Call /\ Schema' = Schema /\ \A c : Visible(c)' = Visible(c)
  BY <1>1, CallsFrame
<1>4. ErrorsSoFar'
  <2>1. ASSUME NEW r, NEW l, NEW m, Broken(Call, r, l, m)
        PROVE  Passed(r, l, m)' <=> Passed(r, l, m)
    <3>1. \/ r = "no_namespace" \/ r = "duplicate_declaration"
          \/ /\ r # "no_namespace" /\ r # "duplicate_declaration" /\ l \in Nat
             /\ l = d => /\ r \in {"duplicate_number", "duplicate_value_name"} \cup VisitRules
                         /\ m < i
      BY <1>1, <1>2, <2>1, BrokenNow DEF IInv
    <3> QED
      BY <1>1, <1>2, <3>1 DEF Passed
  <2> QED
    BY <1>1, <2>1, Quiet
<1>5. TypeOK'
  BY <1>1, <1>2, <1>3, SMTT(20) DEF IInv, TypeOK
<1>6. TypesSoFar'
  BY <1>1, <1>3 DEF IInv, TypesSoFar
<1>7. SetsSoFar' /\ ItemsThere' /\ VerdictRight'
  BY <1>1 DEF SetsSoFar, ItemsThere, VerdictRight
<1> QED
  BY <1>4, <1>5, <1>6, <1>7 DEF IInv

LEMMA ReturnInv ==
  ASSUME IInv, Return
  PROVE  IInv'
<1>1. /\ stage = "visit" /\ d > Len(Schema.decls) /\ stage' = "idle" /\ verdict' = (errors = {})
      /\ UNCHANGED <<calls, d, i, names, numbers, errors, types>>
  BY DEF Return
<1>2. Len(Schema.decls) \in Nat /\ d \in Nat
  BY <1>1, Current DEF IInv, TypeOK
<1>3. Call' = Call /\ Schema' = Schema /\ \A c : Visible(c)' = Visible(c)
  BY <1>1, CallsFrame
<1>4. ErrorsSoFar'
  <2>1. ASSUME NEW r, NEW l, NEW m, Broken(Call, r, l, m)
        PROVE  Passed(r, l, m)' <=> Passed(r, l, m)
    <3>1. r = "no_namespace" \/ r = "duplicate_declaration" \/ l < d
      BY <1>1, <1>2, <2>1, BrokenNow DEF IInv
    <3> QED
      BY <1>1, <3>1 DEF Passed
  <2> QED
    BY <1>1, <2>1, Quiet
<1>5. TypeOK'
  BY <1>1, <1>2, <1>3 DEF IInv, TypeOK
<1>6. TypesSoFar'
  BY <1>1, <1>3 DEF IInv, TypesSoFar
<1>7. SetsSoFar' /\ ItemsThere' /\ VerdictRight'
  BY <1>1, Zenon DEF SetsSoFar, ItemsThere, VerdictRight
<1> QED
  BY <1>4, <1>5, <1>6, <1>7 DEF IInv

LEMMA BrokenPlace ==
  \A c, r, k, n : Broken(c, r, k, n) =>
    \/ r \in NamespaceRules(calls[c]) /\ r = "no_namespace" /\ k = 0 /\ n = 0
    \/ r # "no_namespace" /\ k \in DOMAIN calls[c].decls
<1> SUFFICES ASSUME NEW c, NEW r, NEW k, NEW n, Broken(c, r, k, n)
             PROVE  \/ r \in NamespaceRules(calls[c]) /\ r = "no_namespace" /\ k = 0 /\ n = 0
                    \/ r # "no_namespace" /\ k \in DOMAIN calls[c].decls
  OBVIOUS
<1>1. CASE r \in NamespaceRules(calls[c]) /\ k = 0 /\ n = 0
  BY <1>1, RuleSets
<1>2. CASE k \in DOMAIN calls[c].decls /\ r \in DeclRules(c, k) /\ n = 0
  BY <1>2, RuleSets
<1>3. CASE k \in DOMAIN calls[c].decls /\ r \in ItemRules(c, k, n)
  <2>1. "no_namespace" \notin VisitRules
    BY DEF VisitRules
  <2> QED
    BY <1>3, <2>1, RuleSets DEF ItemRules
<1> QED
  BY <1>1, <1>2, <1>3 DEF Broken

LEMMA ValidateInv ==
  ASSUME IInv, Validate
  PROVE  IInv'
<1>1. PICK schema \in Schemas[Call + 1] :
        /\ calls' = Append(calls, schema)
        /\ errors' = errors \cup Errors(Call + 1, NamespaceRules(schema), 0, 0)
  BY DEF Validate
<1>2. /\ stage = "idle" /\ Call < Len(Schemas) /\ stage' = "names" /\ d' = 1 /\ names' = {}
      /\ UNCHANGED <<i, numbers, types, verdict>>
  BY DEF Validate
<1>3. schema \in ASchema /\ Call \in Nat /\ calls \in Seq(ASchema)
  BY <1>2, SchemasAssumption DEF IInv, TypeOK, Call
<1>4. /\ Call' = Call + 1 /\ calls' \in Seq(ASchema) /\ calls'[Call + 1] = schema
      /\ \A c \in 1 .. Call : calls'[c] = calls[c]
  BY <1>1, <1>3 DEF Call
<1>5. schema.decls \in Seq(ADecl) /\ Len(schema.decls) \in Nat
      /\ DOMAIN schema.decls = 1 .. Len(schema.decls)
  <2>1. schema.decls \in Seq(ADecl)
    BY <1>3 DEF ASchema
  <2> QED
    BY <2>1
<1>6. TypeOK'
  <2>1. Schema' = schema
    BY <1>4 DEF Schema
  <2>2. calls' # <<>>
    BY <1>3, <1>4 DEF Call
  <2>3. Call' <= Len(Schemas)
    BY <1>2, <1>3, <1>4, SchemasAssumption
  <2> QED
    BY <1>2, <1>4, <1>5, <2>1, <2>2, <2>3 DEF IInv, TypeOK
<1>7. ASSUME NEW c \in 1 .. Call
      PROVE  Visible(c)' = Visible(c)
  <2>1. \A k \in 1 .. c : calls'[k] = calls[k]
    BY <1>3, <1>4
  <2>2. \A x : x \in Visible(c)' <=> \E k \in 1 .. c : x \in DeclaredNames(calls'[k])
    BY DEF Visible
  <2>3. \A x : x \in Visible(c) <=> \E k \in 1 .. c : x \in DeclaredNames(calls[k])
    BY DEF Visible
  <2>4. \A x : x \in Visible(c)' <=> x \in Visible(c)
    BY <2>1, <2>2, <2>3, Zenon
  <2> QED
    BY <2>4, Zenon
<1>8. ASSUME NEW c \in 1 .. Call, NEW r, NEW k, NEW n
      PROVE  Broken(c, r, k, n)' <=> Broken(c, r, k, n)
  <2>1. calls'[c] = calls[c]
    BY <1>4
  <2>2. DeclRules(c, k)' = DeclRules(c, k)
    BY <2>1, Zenon DEF DeclRules
  <2>3. ItemRules(c, k, n)' = ItemRules(c, k, n)
    BY <1>7, <2>1, Zenon DEF ItemRules
  <2> QED
    BY <2>1, <2>2, <2>3 DEF Broken
<1>9. errors = AllViolations
  BY <1>2 DEF IInv, ErrorsSoFar, Reported, Passed
<1>10. (\A e : e \in AllViolations <=>
          \E c \in 1 .. Call : \E r, k, n : e = Violation(c, r, k, n) /\ Broken(c, r, k, n))'
  BY AllViolationsMember, PTL
<1>11. (\A c, r, k, n : Broken(c, r, k, n) =>
          \/ r \in NamespaceRules(calls[c]) /\ r = "no_namespace" /\ k = 0 /\ n = 0
          \/ r # "no_namespace" /\ k \in DOMAIN calls[c].decls)'
  BY BrokenPlace, PTL
<1>12. \A r, k, n : Passed(r, k, n)' <=> r = "no_namespace" \/ (r = "duplicate_declaration" /\ k < 1)
  BY <1>2, Zenon DEF Passed
<1>13. ASSUME NEW e
       PROVE  e \in errors' <=> e \in AllViolations' /\ Reported(e)'
  <2>1. e \in errors' <=> \/ \E c \in 1 .. Call : \E r, k, n : e = Violation(c, r, k, n) /\ Broken(c, r, k, n)
                         \/ \E r \in NamespaceRules(schema) : e = Violation(Call + 1, r, 0, 0)
    <3>1. e \in errors' <=> e \in errors \/ e \in Errors(Call + 1, NamespaceRules(schema), 0, 0)
      BY <1>1
    <3>2. e \in Errors(Call + 1, NamespaceRules(schema), 0, 0) <=>
            \E r \in NamespaceRules(schema) : e = Violation(Call + 1, r, 0, 0)
      BY ErrorsMember
    <3> QED
      BY <1>9, <3>1, <3>2, AllViolationsMember, Zenon
  <2>2. e \in AllViolations' <=>
          \E c \in 1 .. Call + 1 : \E r, k, n : e = Violation(c, r, k, n) /\ Broken(c, r, k, n)'
    BY <1>4, <1>10
  <2>3. \A c, r, k, n : e = Violation(c, r, k, n) =>
          (Reported(e)' <=> c < Call + 1 \/ Passed(r, k, n)')
    BY <1>4, ViolationFields DEF Reported
  <2>4. ASSUME NEW c \in 1 .. Call, NEW r, NEW k, NEW n, e = Violation(c, r, k, n), Broken(c, r, k, n)
        PROVE  e \in AllViolations' /\ Reported(e)'
    <3>1. c \in 1 .. Call + 1 /\ c < Call + 1
      BY <1>3
    <3> QED
      BY <1>8, <2>2, <2>3, <2>4, <3>1
  <2>5. ASSUME NEW c, c = Call + 1, NEW r \in NamespaceRules(schema), e = Violation(c, r, 0, 0)
        PROVE  e \in AllViolations' /\ Reported(e)'
    <3>1. c \in 1 .. Call + 1 /\ r = "no_namespace"
      BY <1>3, <2>5, RuleSets
    <3>2. Broken(c, r, 0, 0)'
      BY <1>4, <2>5 DEF Broken
    <3> QED
      BY <1>12, <2>2, <2>3, <2>5, <3>1, <3>2
  <2>6. ASSUME NEW c \in 1 .. Call + 1, NEW r, NEW k, NEW n,
               e = Violation(c, r, k, n), Broken(c, r, k, n)', Reported(e)'
        PROVE  e \in errors'
    <3>1. CASE c \in 1 .. Call
      BY <1>8, <2>1, <2>6, <3>1
    <3>2. CASE c = Call + 1
      <4>1. Passed(r, k, n)'
        BY <1>3, <2>3, <2>6, <3>2
      <4>2. \/ r \in NamespaceRules(schema) /\ k = 0 /\ n = 0
            \/ r # "no_namespace" /\ k \in 1 .. Len(schema.decls)
        BY <1>4, <1>5, <1>11, <2>6, <3>2
      <4>3. r \in NamespaceRules(schema) /\ k = 0 /\ n = 0
        BY <1>5, <1>12, <4>1, <4>2
      <4> QED
        BY <2>1, <2>6, <3>2, <4>3
    <3> QED
      BY <1>3, <3>1, <3>2
  <2> QED
    BY <2>1, <2>2, <2>4, <2>5, <2>6, Zenon
<1>14. ErrorsSoFar'
  BY <1>13 DEF ErrorsSoFar
<1>15. TypesSoFar'
  <2>1. types = Visible(Call)
    BY <1>2 DEF IInv, TypesSoFar
  <2>2. TypesSoFar' <=> types = UNION {DeclaredNames(calls'[k]) : k \in 1 .. (Call + 1) - 1}
    BY <1>2, <1>4, Zenon DEF TypesSoFar, Visible
  <2>3. UNION {DeclaredNames(calls'[k]) : k \in 1 .. (Call + 1) - 1} = Visible(Call)
    BY <1>3, <1>4 DEF Visible
  <2> QED
    BY <2>1, <2>2, <2>3
<1>16. SetsSoFar' /\ ItemsThere' /\ VerdictRight'
  BY <1>2 DEF SetsSoFar, ItemsThere, VerdictRight
<1> QED
  BY <1>6, <1>14, <1>15, <1>16 DEF IInv

LEMMA InitInv == Init => IInv
<1> SUFFICES ASSUME Init PROVE IInv
  OBVIOUS
<1>1. Call = 0 /\ calls = <<>> /\ 1 .. Call = {}
  BY DEF Init, Call
<1>2. TypeOK
  BY <1>1, SchemasAssumption DEF Init, TypeOK
<1>3. ErrorsSoFar
  BY <1>1 DEF Init, ErrorsSoFar, AllViolations
<1>4. TypesSoFar
  BY <1>1 DEF Init, TypesSoFar, Visible
<1> QED
  BY <1>2, <1>3, <1>4 DEF Init, IInv, SetsSoFar, ItemsThere, VerdictRight

LEMMA StutterInv == IInv /\ UNCHANGED vars => IInv'
<1> SUFFICES ASSUME IInv, UNCHANGED vars PROVE IInv'
  OBVIOUS
<1>1. /\ Call' = Call /\ Schema' = Schema /\ Decl' = Decl /\ AllViolations' = AllViolations
      /\ \A c : Visible(c)' = Visible(c)
  BY CallsFrame DEF vars, Decl
<1>2. ErrorsSoFar'
  <2>1. \A e : Reported(e)' <=> Reported(e)
    BY <1>1 DEF Reported, Passed, vars
  <2> QED
    BY <1>1, <2>1 DEF IInv, ErrorsSoFar, vars
<1>3. TypeOK' /\ TypesSoFar'
  BY <1>1 DEF IInv, TypeOK, TypesSoFar, vars
<1>4. SetsSoFar' /\ ItemsThere' /\ VerdictRight'
  BY <1>1 DEF IInv, SetsSoFar, ItemsThere, VerdictRight, vars
<1> QED
  BY <1>2, <1>3, <1>4 DEF IInv

LEMMA NextInv == IInv /\ [Next]_vars => IInv'
  BY ValidateInv, CheckNameInv, RegisterInv, VisitEmptyInv, VisitDeclInv, CheckDuplicateInv,
     EndDuplicatesInv, VisitItemInv, LeaveDeclInv, ReturnInv, StutterInv DEF Next, Step

-----------------------------------------------------------------------------
(* What the invariant means between calls *)

LEMMA IdleExact == IInv => ErrorsExact
<1> SUFFICES ASSUME IInv, stage = "idle"
             PROVE  errors = AllViolations /\ (verdict <=> errors = {})
  BY DEF ErrorsExact, AllViolations
<1>1. errors = AllViolations
  BY DEF IInv, ErrorsSoFar, Reported, Passed
<1> QED
  BY <1>1 DEF IInv, VerdictRight

\* visit_field finds nothing wrong with a field exactly when it is well formed.
LEMMA FieldFine ==
  ASSUME NEW f \in AField, NEW known
  PROVE  visit_field(f, known) = {} <=> FieldWellFormed(f, known)
<1>1. f.number \in Int
  BY DEF AField
<1>2. visit_field(f, known) = {} <=>
        /\ validate_field_number(f) = {} /\ validate_field_modifiers(f) = {}
        /\ validate_type_exists(f, known) = {} /\ check_modifier_compatibility(f) = {}
  BY DEF visit_field
<1>3. validate_field_number(f) = {} <=>
        /\ 1 <= f.number /\ f.number <= 536870911
        /\ f.number < 19000 \/ 19999 < f.number
  <2>1. validate_field_number(f) = {} <=>
          /\ When(f.number < 1 \/ f.number > 536870911, "number_out_of_range") = {}
          /\ When(f.number >= 19000 /\ f.number <= 19999, "number_reserved") = {}
    BY SMT DEF validate_field_number
  <2>2. /\ When(f.number < 1 \/ f.number > 536870911, "number_out_of_range") = {} <=>
             ~(f.number < 1 \/ f.number > 536870911)
        /\ When(f.number >= 19000 /\ f.number <= 19999, "number_reserved") = {} <=>
             ~(f.number >= 19000 /\ f.number <= 19999)
    BY SMT DEF When
  <2> QED
    BY <1>1, <2>1, <2>2, SMT
<1>4. validate_type_exists(f, known) = {} <=> f.type \in PrimitiveTypes \cup known
  BY DEF validate_type_exists, When
<1>5. validate_field_modifiers(f) = {} <=>
        /\ ~(is_optional(f) /\ is_repeated(f))
        /\ is_packed(f) => is_repeated(f)
        /\ is_bitmap(f) => is_repeated(f) /\ ~is_packed(f)
        /\ is_interned(f) => f.type = "STRING"
  <2>1. validate_field_modifiers(f) = {} <=>
          /\ When(is_optional(f) /\ is_repeated(f), "optional_repeated") = {}
          /\ When(is_packed(f) /\ ~is_repeated(f), "packed_not_repeated") = {}
          /\ When(is_bitmap(f) /\ ~is_repeated(f), "bitmap_not_repeated") = {}
          /\ When(is_packed(f) /\ is_bitmap(f), "packed_bitmap") = {}
          /\ When(is_interned(f) /\ f.type # "STRING", "interned_not_string") = {}
    BY DEF validate_field_modifiers
  <2> QED
    BY <2>1 DEF When, is_optional, is_repeated, is_packed, is_bitmap, is_interned
<1>6. check_modifier_compatibility(f) = {} <=>
        /\ is_packed(f) => f.type \in PrimitiveTypes
        /\ is_interned(f) => f.type = "STRING"
        /\ is_bitmap(f) => f.type = "BOOL"
  <2>1. check_modifier_compatibility(f) = {} <=>
          /\ When(is_packed(f) /\ f.type \notin PrimitiveTypes, "packed_type") = {}
          /\ When(is_interned(f) /\ f.type # "STRING", "interned_type") = {}
          /\ When(is_bitmap(f) /\ f.type # "BOOL", "bitmap_type") = {}
    BY DEF check_modifier_compatibility
  <2> QED
    BY <2>1 DEF When, is_packed, is_bitmap, is_interned
<1> QED
  BY <1>2, <1>3, <1>4, <1>5, <1>6, SMT
     DEF FieldWellFormed, is_optional, is_repeated, is_packed, is_bitmap, is_interned

\* That no item repeats an earlier one says that all are distinct.
LEMMA NoneBefore ==
  ASSUME NEW size \in Nat, NEW key
  PROVE  (\A n \in 1 .. size : \A m \in 1 .. n - 1 : key[m] # key[n]) <=>
           (\A m, n \in 1 .. size : m # n => key[m] # key[n])
<1>1. ASSUME \A n \in 1 .. size : \A m \in 1 .. n - 1 : key[m] # key[n],
             NEW m \in 1 .. size, NEW n \in 1 .. size, m # n
      PROVE  key[m] # key[n]
  <2>1. m \in 1 .. n - 1 \/ n \in 1 .. m - 1
    BY <1>1
  <2> QED
    BY <1>1, <2>1, Zenon
<1>2. ASSUME \A m, n \in 1 .. size : m # n => key[m] # key[n],
             NEW n \in 1 .. size, NEW m \in 1 .. n - 1
      PROVE  key[m] # key[n]
  <2>1. m \in 1 .. size /\ m # n
    OBVIOUS
  <2> QED
    BY <1>2, <2>1, Zenon
<1> QED
  BY <1>1, <1>2

\* The checks of a model and of an enum find nothing exactly when it is well formed.
LEMMA ModelFine ==
  ASSUME NEW decl, decl.kind = "model", decl.items \in Seq(AField), NEW known
  PROVE  DeclWellFormed(decl, known) <=>
           /\ decl.items # <<>>
           /\ \A n \in DOMAIN decl.items :
                VisitErrors(decl.kind, decl.items[n], known) = {} /\ DuplicateRules(decl, n) = {}
<1> DEFINE key == [n \in DOMAIN decl.items |-> decl.items[n].number]
<1>1. Len(decl.items) \in Nat /\ DOMAIN decl.items = 1 .. Len(decl.items)
      /\ \A n \in DOMAIN decl.items : decl.items[n] \in AField
  OBVIOUS
<1>2. \A n \in DOMAIN decl.items :
        VisitErrors(decl.kind, decl.items[n], known) = {} <=> FieldWellFormed(decl.items[n], known)
  BY <1>1, FieldFine DEF VisitErrors
<1>3. ASSUME NEW n \in DOMAIN decl.items
      PROVE  DuplicateRules(decl, n) = {} <=> \A m \in 1 .. n - 1 : key[m] # key[n]
  <2>1. \A m \in 1 .. n - 1 : m \in DOMAIN decl.items
    BY <1>1
  <2> QED
    BY <2>1 DEF DuplicateRules, When, NumberOf
<1>4. Distinct(decl.items, LAMBDA f : f.number) <=>
        \A m, n \in 1 .. Len(decl.items) : m # n => key[m] # key[n]
  BY <1>1 DEF Distinct
<1>5. Distinct(decl.items, LAMBDA f : f.number) <=>
        \A n \in DOMAIN decl.items : DuplicateRules(decl, n) = {}
  <2> HIDE DEF key
  <2> QED
    BY <1>1, <1>3, <1>4, NoneBefore, Zenon
<1> QED
  BY <1>2, <1>5 DEF DeclWellFormed

LEMMA EnumFine ==
  ASSUME NEW decl, decl.kind = "enum", decl.items \in Seq(AValue), NEW known
  PROVE  DeclWellFormed(decl, known) <=>
           /\ decl.items # <<>>
           /\ \A n \in DOMAIN decl.items :
                VisitErrors(decl.kind, decl.items[n], known) = {} /\ DuplicateRules(decl, n) = {}
<1> DEFINE name == [n \in DOMAIN decl.items |-> decl.items[n].name]
           value == [n \in DOMAIN decl.items |-> decl.items[n].value]
<1>1. Len(decl.items) \in Nat /\ DOMAIN decl.items = 1 .. Len(decl.items)
      /\ \A n \in DOMAIN decl.items : decl.items[n].value \in Int
  <2>1. \A n \in DOMAIN decl.items : decl.items[n] \in AValue
    OBVIOUS
  <2>2. \A v \in AValue : v.value \in Int
    BY DEF AValue
  <2> QED
    BY <2>1, <2>2
<1>2. \A n \in DOMAIN decl.items :
        VisitErrors(decl.kind, decl.items[n], known) = {} <=> decl.items[n].value >= 0
  BY <1>1, SMT DEF VisitErrors, visit_enum_value, When
<1>3. ASSUME NEW n \in DOMAIN decl.items
      PROVE  DuplicateRules(decl, n) = {} <=>
               /\ \A m \in 1 .. n - 1 : name[m] # name[n]
               /\ \A m \in 1 .. n - 1 : value[m] # value[n]
  <2>1. \A m \in 1 .. n - 1 : m \in DOMAIN decl.items
    BY <1>1
  <2> QED
    BY <2>1 DEF DuplicateRules, When, NumberOf
<1>4. /\ Distinct(decl.items, LAMBDA v : v.name) <=>
           \A m, n \in 1 .. Len(decl.items) : m # n => name[m] # name[n]
      /\ Distinct(decl.items, LAMBDA v : v.value) <=>
           \A m, n \in 1 .. Len(decl.items) : m # n => value[m] # value[n]
  BY <1>1 DEF Distinct
<1>5. Distinct(decl.items, LAMBDA v : v.name) /\ Distinct(decl.items, LAMBDA v : v.value) <=>
        \A n \in DOMAIN decl.items : DuplicateRules(decl, n) = {}
  <2> HIDE DEF name, value
  <2>1. /\ (\A n \in 1 .. Len(decl.items) : \A m \in 1 .. n - 1 : name[m] # name[n]) <=>
             Distinct(decl.items, LAMBDA v : v.name)
        /\ (\A n \in 1 .. Len(decl.items) : \A m \in 1 .. n - 1 : value[m] # value[n]) <=>
             Distinct(decl.items, LAMBDA v : v.value)
    BY <1>1, <1>4, NoneBefore, Zenon
  <2> QED
    BY <1>1, <1>3, <2>1, Zenon
<1> QED
  BY <1>2, <1>5 DEF DeclWellFormed

\* A schema breaks no rule exactly when it is well formed.
LEMMA SchemaFine ==
  ASSUME TypeOK, NEW c \in 1 .. Call
  PROVE  WellFormed(c) <=> \A r, k, n : ~Broken(c, r, k, n)
<1> DEFINE decls == calls[c].decls
           key == [k \in DOMAIN decls |-> decls[k].name]
<1>1. /\ Len(decls) \in Nat /\ DOMAIN decls = 1 .. Len(decls)
      /\ \A k \in DOMAIN decls : decls[k] \in ADecl
  BY CallType
<1>2. (\A r, k, n : ~Broken(c, r, k, n)) <=>
        /\ NamespaceRules(calls[c]) = {}
        /\ \A k \in DOMAIN decls : DeclRules(c, k) = {}
        /\ \A k \in DOMAIN decls : \A n \in DOMAIN decls[k].items : ItemRules(c, k, n) = {}
  BY DEF Broken
<1>3. NamespaceRules(calls[c]) = {} <=> calls[c].named
  BY DEF NamespaceRules, When
<1>4. ASSUME NEW k \in DOMAIN decls
      PROVE  DeclRules(c, k) = {} <=>
               decls[k].items # <<>> /\ \A j \in 1 .. k - 1 : key[j] # key[k]
  <2>1. \A j \in 1 .. k - 1 : j \in DOMAIN decls
    BY <1>1
  <2> QED
    BY <2>1 DEF DeclRules, When
<1>5. Distinct(decls, LAMBDA decl : decl.name) <=>
        \A j, k \in 1 .. Len(decls) : j # k => key[j] # key[k]
  BY <1>1 DEF Distinct
<1>6. Distinct(decls, LAMBDA decl : decl.name) <=>
        \A k \in DOMAIN decls : \A j \in 1 .. k - 1 : key[j] # key[k]
  <2> HIDE DEF decls, key
  <2> QED
    BY <1>1, <1>5, NoneBefore, Zenon
<1>7. ASSUME NEW k \in DOMAIN decls
      PROVE  DeclWellFormed(decls[k], Visible(c)) <=>
               /\ decls[k].items # <<>>
               /\ \A n \in DOMAIN decls[k].items : ItemRules(c, k, n) = {}
  <2>1. \A n : ItemRules(c, k, n) = {} <=>
          /\ VisitErrors(decls[k].kind, decls[k].items[n], Visible(c)) = {}
          /\ DuplicateRules(decls[k], n) = {}
    BY DEF ItemRules
  <2>2. \/ decls[k].kind = "model" /\ decls[k].items \in Seq(AField)
        \/ decls[k].kind = "enum" /\ decls[k].items \in Seq(AValue)
    BY <1>1 DEF ADecl
  <2> HIDE DEF decls
  <2> QED
    BY <2>1, <2>2, ModelFine, EnumFine, Zenon
<1>8. WellFormed(c) <=>
        /\ calls[c].named
        /\ Distinct(decls, LAMBDA decl : decl.name)
        /\ \A k \in DOMAIN decls : DeclWellFormed(decls[k], Visible(c))
  BY DEF WellFormed
<1> HIDE DEF decls, key
<1> QED
  BY <1>2, <1>3, <1>4, <1>6, <1>7, <1>8, Zenon

LEMMA IdleWellFormed == IInv => AcceptsWellFormed
<1> SUFFICES ASSUME IInv, stage = "idle"
             PROVE  verdict <=> \A c \in 1 .. Call : WellFormed(c)
  BY DEF AcceptsWellFormed
<1>1. verdict <=> AllViolations = {}
  BY IdleExact DEF ErrorsExact, AllViolations
<1>2. AllViolations = {} <=> \A c \in 1 .. Call : \A r, k, n : ~Broken(c, r, k, n)
  BY AllViolationsMember, Zenon
<1>3. TypeOK
  BY DEF IInv
<1> QED
  BY <1>1, <1>2, <1>3, SchemaFine, Zenon

-----------------------------------------------------------------------------
\* The invariant holds however often validate() is called and whatever it is given.
THEOREM Invariance == Spec => []IInv
  BY InitInv, NextInv, PTL DEF Spec

\* The walk of validate() stays inside the schema and its declarations.
THEOREM WalkStaysInside == Spec => []TypeOK
<1>1. IInv => TypeOK
  BY DEF IInv
<1> QED
  BY Invariance, <1>1, PTL

\* For every sequence of schemas, validate() reports every violation at its place
\* and nothing else, and returns true exactly when there is none.
THEOREM ReportsExactly == Spec => []ErrorsExact
  BY Invariance, IdleExact, PTL

\* For every sequence of schemas, validate() returns true exactly when all of them are
\* well formed: the namespace, the names and numbers of the declarations, fields and
\* enum values, and the modifiers.
THEOREM AcceptsExactlyWellFormed == Spec => []AcceptsWellFormed
  BY Invariance, IdleWellFormed, PTL

-----------------------------------------------------------------------------
(* The generator *)

HeaderOf(decl) ==
  IF decl.kind = "enum" THEN generate_enum_declaration(decl) ELSE generate_model_declaration(decl)

MethodsOf(decl) ==
  IF decl.kind = "enum" THEN <<>> ELSE generate_model_implementation(decl)

HeaderShows ==
  /\ header = [k \in DOMAIN Schema.decls |-> HeaderOf(Schema.decls[k])]
  /\ base_name = Nothing => base_name = namespace_name

SourceShows ==
  /\ source.include = IF base_name = Nothing THEN namespace_name ELSE base_name
  /\ source.methods = [k \in DOMAIN Schema.decls |-> MethodsOf(Schema.decls[k])]

OneAccepted == stage = "idle" /\ Call = 1 /\ verdict

\* Code is generated for one schema that was accepted, and shows its declarations.
GInv ==
  /\ IInv
  /\ generated \in {"nothing", "header", "both"}
  /\ generated # "nothing" => OneAccepted /\ HeaderShows
  /\ generated = "both" => SourceShows

LEMMA GInitInv == GInit => GInv
  BY InitInv DEF GInit, GInv

LEMMA GNextInv == GInv /\ [GNext]_<<vars, generatorVars>> => GInv'
<1> SUFFICES ASSUME GInv, [GNext]_<<vars, generatorVars>> PROVE GInv'
  OBVIOUS
<1>1. CASE generated = "nothing" /\ [Next]_vars /\ UNCHANGED generatorVars
  BY <1>1, NextInv DEF GInv, generatorVars
<1>2. ASSUME UNCHANGED vars
      PROVE  /\ IInv' /\ (OneAccepted => OneAccepted')
             /\ Schema' = Schema /\ namespace_name' = namespace_name
             /\ \A decl : MethodsOf(decl)' = MethodsOf(decl)
  <2>1. /\ IInv' /\ (OneAccepted => OneAccepted')
        /\ Schema' = Schema /\ namespace_name' = namespace_name
    BY <1>2, NextInv DEF GInv, OneAccepted, vars, Schema, Call, namespace_name
  <2>2. \A type : find_enum(type)' <=> find_enum(type)
    BY <2>1, Zenon DEF find_enum
  <2>3. \A f, method : CalledFor(f, method)' = CalledFor(f, method)
    BY <2>2 DEF CalledFor
  <2>4. \A decl, method : generate_method(decl, method)' = generate_method(decl, method)
    BY <2>3 DEF generate_method
  <2>5. \A decl : MethodsOf(decl)' = MethodsOf(decl)
    BY <2>4 DEF MethodsOf, generate_model_implementation
  <2> QED
    BY <2>1, <2>5
<1>3. ASSUME NEW filename \in FileNames, generate_header(filename) PROVE GInv'
  <2>1. /\ OneAccepted /\ generated' = "header" /\ UNCHANGED vars
        /\ base_name' = IF filename # Nothing THEN filename ELSE namespace_name
        /\ header' = [k \in DOMAIN Schema.decls |-> HeaderOf(Schema.decls[k])]
    BY <1>3 DEF generate_header, HeaderOf, OneAccepted
  <2>2. HeaderShows'
    BY <1>2, <2>1 DEF HeaderShows
  <2> QED
    BY <1>2, <2>1, <2>2 DEF GInv
<1>4. CASE generate_source
  <2>1. /\ generated = "header" /\ generated' = "both" /\ UNCHANGED <<vars, base_name, header>>
        /\ source' = [include |-> IF base_name = Nothing THEN namespace_name ELSE base_name,
                      methods |-> [k \in DOMAIN Schema.decls |-> MethodsOf(Schema.decls[k])]]
    BY <1>4 DEF generate_source, MethodsOf
  <2>2. OneAccepted /\ HeaderShows
    BY <2>1 DEF GInv
  <2>3. HeaderShows'
    BY <1>2, <2>1, <2>2 DEF HeaderShows
  <2>4. SourceShows'
    <3>1. /\ source'.include = IF base_name = Nothing THEN namespace_name ELSE base_name
          /\ source'.methods = [k \in DOMAIN Schema.decls |-> MethodsOf(Schema.decls[k])]
      BY <2>1
    <3>2. base_name' = base_name
      BY <2>1
    <3> QED
      BY <1>2, <2>1, <3>1, <3>2, Zenon DEF SourceShows
  <2> QED
    BY <1>2, <2>1, <2>2, <2>3, <2>4 DEF GInv
<1>5. CASE UNCHANGED <<vars, generatorVars>>
  <2>1. HeaderShows => HeaderShows'
    BY <1>2, <1>5 DEF HeaderShows, generatorVars
  <2>2. SourceShows => SourceShows'
    <3>1. UNCHANGED <<base_name, source>>
      BY <1>5, Zenon DEF generatorVars
    <3>2. /\ Schema' = Schema /\ namespace_name' = namespace_name
          /\ \A decl : MethodsOf(decl)' = MethodsOf(decl)
      BY <1>2, <1>5, Zenon
    <3> QED
      BY <3>1, <3>2, Zenon DEF SourceShows
  <2> QED
    BY <1>2, <1>5, <2>1, <2>2 DEF GInv, generatorVars
<1> QED
  BY <1>1, <1>3, <1>4, <1>5 DEF GNext, Generate

-----------------------------------------------------------------------------
(* What an accepted schema is like *)

Accepted(decls) ==
  /\ \A k \in DOMAIN decls : decls[k].kind \in {"enum", "model"}
  /\ \A j, k \in DOMAIN decls : j # k => decls[j].name # decls[k].name
  /\ \A k \in DOMAIN decls : decls[k].kind = "model" =>
       \A n \in DOMAIN decls[k].items :
         \/ decls[k].items[n].type \in PrimitiveTypes
         \/ \E j \in DOMAIN decls : decls[j].name = decls[k].items[n].type

LEMMA AcceptedSchema ==
  ASSUME IInv, stage = "idle", Call = 1, verdict
  PROVE  Accepted(Schema.decls)
<1>1. 1 \in 1 .. Call /\ Schema = calls[1]
  BY DEF Schema
<1>2. \A r, k, n : ~Broken(1, r, k, n)
  <2>1. AllViolations = {}
    BY IdleExact DEF ErrorsExact, AllViolations
  <2> QED
    BY <1>1, <2>1, AllViolationsMember
<1>3. /\ DOMAIN Schema.decls = 1 .. Len(Schema.decls) /\ Len(Schema.decls) \in Nat
      /\ \A k \in DOMAIN Schema.decls : Schema.decls[k] \in ADecl
  BY <1>1, CallType DEF IInv
<1>4. \A k \in DOMAIN Schema.decls : Schema.decls[k].kind \in {"enum", "model"}
  BY <1>3 DEF ADecl
<1>5. ASSUME NEW j \in DOMAIN Schema.decls, NEW k \in DOMAIN Schema.decls, j < k
      PROVE  Schema.decls[j].name # Schema.decls[k].name
  <2>1. "duplicate_declaration" \notin DeclRules(1, k)
    BY <1>1, <1>2 DEF Broken
  <2>2. j \in 1 .. k - 1
    BY <1>3, <1>5
  <2> QED
    BY <1>1, <2>1, <2>2 DEF DeclRules, When
<1>6. \A j, k \in DOMAIN Schema.decls : j # k => Schema.decls[j].name # Schema.decls[k].name
  BY <1>3, <1>5
<1>7. ASSUME NEW k \in DOMAIN Schema.decls, Schema.decls[k].kind = "model",
             NEW n \in DOMAIN Schema.decls[k].items
      PROVE  \/ Schema.decls[k].items[n].type \in PrimitiveTypes
             \/ \E j \in DOMAIN Schema.decls : Schema.decls[j].name = Schema.decls[k].items[n].type
  <2>1. WellFormed(1)
    BY <1>1, IdleWellFormed DEF AcceptsWellFormed
  <2>2. FieldWellFormed(Schema.decls[k].items[n], Visible(1))
    BY <1>1, <1>7, <2>1 DEF WellFormed, DeclWellFormed
  <2>3. Schema.decls[k].items[n].type \in PrimitiveTypes \cup Visible(1)
    BY <2>2, SMTT(20) DEF FieldWellFormed
  <2>4. Visible(1) = {Schema.decls[j].name : j \in DOMAIN Schema.decls}
    BY <1>1 DEF Visible, DeclaredNames
  <2> QED
    BY <2>3, <2>4
<1> QED
  BY <1>4, <1>6, <1>7 DEF Accepted

-----------------------------------------------------------------------------
(* What is generated for it *)

LEMMA HeaderFacts ==
  ASSUME NEW decl
  PROVE  /\ HeaderOf(decl).name = decl.name
         /\ decl.kind = "enum" => HeaderOf(decl).methods = {} /\ HeaderOf(decl).members = <<>>
         /\ decl.kind # "enum" =>
              /\ HeaderOf(decl).methods = {"serialize", "deserialize"}
              /\ HeaderOf(decl).members = [n \in DOMAIN decl.items |-> get_field_type(decl.items[n])]
  BY DEF HeaderOf, generate_enum_declaration, generate_model_declaration

LEMMA MethodFacts ==
  ASSUME NEW decl
  PROVE  /\ decl.kind = "enum" => DOMAIN MethodsOf(decl) = {}
         /\ decl.kind # "enum" =>
              /\ DOMAIN MethodsOf(decl) = {1, 2}
              /\ MethodsOf(decl)[1] = generate_method(decl, "serialize")
              /\ MethodsOf(decl)[2] = generate_method(decl, "deserialize")
  BY DEF MethodsOf, generate_model_implementation

LEMMA NamesDeclared ==
  ASSUME HeaderShows, Accepted(Schema.decls), NEW j \in DOMAIN Schema.decls
  PROVE  DeclaredOnce(Schema.decls[j].name)
<1>1. \A k \in DOMAIN Schema.decls : header[k].name = Schema.decls[k].name
  BY HeaderFacts, Zenon DEF HeaderShows
<1>2. DOMAIN header = DOMAIN Schema.decls
  BY DEF HeaderShows
<1> QED
  BY <1>1, <1>2 DEF DeclaredOnce, Accepted

LEMMA MethodsDefined ==
  ASSUME SourceShows, Accepted(Schema.decls), NEW j \in DOMAIN Schema.decls,
         Schema.decls[j].kind # "enum", NEW method \in {"serialize", "deserialize"}
  PROVE  DefinedOnce(Schema.decls[j].name, method)
<1> DEFINE m == IF method = "serialize" THEN 1 ELSE 2
<1>1. DOMAIN source.methods = DOMAIN Schema.decls
  BY DEF SourceShows
<1>2. \A k \in DOMAIN Schema.decls : source.methods[k] = MethodsOf(Schema.decls[k])
  BY DEF SourceShows
<1>3. m \in DOMAIN source.methods[j]
  BY <1>2, MethodFacts
<1>4. ASSUME NEW k \in DOMAIN Schema.decls, NEW n \in DOMAIN source.methods[k]
      PROVE  Defines(k, n, Schema.decls[j].name, method) <=> k = j /\ n = m
  <2>1. Schema.decls[k].kind # "enum" /\ n \in {1, 2}
    BY <1>2, MethodFacts
  <2>2. /\ source.methods[k][n].class = Schema.decls[k].name
        /\ source.methods[k][n].name = IF n = 1 THEN "serialize" ELSE "deserialize"
    <3>1. \A name : /\ generate_method(Schema.decls[k], name).class = Schema.decls[k].name
                    /\ generate_method(Schema.decls[k], name).name = name
      BY DEF generate_method
    <3>2. source.methods[k][n] = generate_method(Schema.decls[k], IF n = 1 THEN "serialize" ELSE "deserialize")
      BY <1>2, <2>1, MethodFacts
    <3> QED
      BY <3>1, <3>2
  <2>3. Schema.decls[k].name = Schema.decls[j].name <=> k = j
    BY DEF Accepted
  <2> QED
    BY <2>1, <2>2, <2>3 DEF Defines
<1> HIDE DEF m
<1> QED
  BY <1>1, <1>3, <1>4 DEF DefinedOnce

LEMMA HoldsTogether == GInv => GeneratedHoldsTogether
<1> SUFFICES ASSUME GInv, generated = "both"
             PROVE  GeneratedHoldsTogether
  BY DEF GeneratedHoldsTogether
<1>1. HeaderShows /\ SourceShows /\ Accepted(Schema.decls)
  BY AcceptedSchema DEF GInv, OneAccepted
<1>2. source.include = base_name
  BY <1>1 DEF HeaderShows, SourceShows
<1>3. /\ DOMAIN header = DOMAIN Schema.decls /\ DOMAIN source.methods = DOMAIN Schema.decls
      /\ \A k \in DOMAIN Schema.decls : /\ header[k] = HeaderOf(Schema.decls[k])
                                        /\ source.methods[k] = MethodsOf(Schema.decls[k])
  BY <1>1 DEF HeaderShows, SourceShows
<1>4. ASSUME NEW k \in DOMAIN Schema.decls
      PROVE  DeclaredOnce(header[k].name)
  <2>1. header[k].name = Schema.decls[k].name
    BY <1>3, HeaderFacts, Zenon
  <2> QED
    BY <1>1, <2>1, NamesDeclared
<1>5. ASSUME NEW k \in DOMAIN Schema.decls, NEW n \in DOMAIN header[k].members
      PROVE  \/ header[k].members[n].type \in PrimitiveTypes
             \/ DeclaredOnce(header[k].members[n].type)
  <2> DEFINE decl == Schema.decls[k]
  <2>0. /\ decl.kind = "enum" => header[k].members = <<>>
        /\ decl.kind # "enum" =>
             header[k].members = [x \in DOMAIN decl.items |-> get_field_type(decl.items[x])]
    BY <1>3, HeaderFacts, Zenon
  <2>1. decl.kind # "enum" /\ n \in DOMAIN decl.items
    BY <2>0
  <2> DEFINE type == Schema.decls[k].items[n].type
  <2>2. header[k].members[n].type = get_cpp_type(type)
    <3>1. header[k].members[n] = get_field_type(decl.items[n])
      BY <2>0, <2>1
    <3> QED
      BY <3>1 DEF get_field_type
  <2>3. type \in PrimitiveTypes \/ \E j \in DOMAIN Schema.decls : Schema.decls[j].name = type
    BY <1>1, <2>1 DEF Accepted
  <2> HIDE DEF type
  <2>4. type \in PrimitiveTypes => get_cpp_type(type) \in PrimitiveTypes
    BY DEF get_cpp_type, PrimitiveTypes, NumberKinds, IntKinds, UnsignedKinds
  <2>5. type \notin PrimitiveTypes => get_cpp_type(type) = type
    BY DEF get_cpp_type, PrimitiveTypes, NumberKinds
  <2> QED
    BY <1>1, <2>2, <2>3, <2>4, <2>5, NamesDeclared
<1>6. ASSUME NEW k \in DOMAIN Schema.decls, NEW method \in header[k].methods
      PROVE  DefinedOnce(header[k].name, method)
  <2>1. /\ header[k].name = Schema.decls[k].name
        /\ Schema.decls[k].kind = "enum" => header[k].methods = {}
        /\ Schema.decls[k].kind # "enum" => header[k].methods = {"serialize", "deserialize"}
    BY <1>3, HeaderFacts, Zenon
  <2>2. Schema.decls[k].kind # "enum" /\ method \in {"serialize", "deserialize"}
    BY <2>1
  <2> QED
    BY <1>1, <2>1, <2>2, MethodsDefined
<1>7. ASSUME NEW k \in DOMAIN Schema.decls, NEW m \in DOMAIN source.methods[k],
             NEW call \in source.methods[k][m].calls
      PROVE  DefinedOnce(call[1], call[2])
  <2>1. Schema.decls[k].kind = "model" /\ m \in {1, 2}
    BY <1>1, <1>3, MethodFacts DEF Accepted
  <2>2. PICK method \in {"serialize", "deserialize"} :
          source.methods[k][m] = generate_method(Schema.decls[k], method)
    BY <1>3, <2>1, MethodFacts
  <2>3. PICK n \in DOMAIN Schema.decls[k].items : call \in CalledFor(Schema.decls[k].items[n], method)
    BY <2>2 DEF generate_method
  <2> DEFINE type == Schema.decls[k].items[n].type
  <2>4. call = <<type, method>> /\ type \notin PrimitiveTypes /\ ~find_enum(type)
    BY <2>3 DEF CalledFor
  <2>5. PICK j \in DOMAIN Schema.decls : Schema.decls[j].name = type
    BY <1>1, <2>1, <2>4, SMTT(20) DEF Accepted
  <2>6. Schema.decls[j].kind # "enum"
    BY <2>4, <2>5 DEF find_enum
  <2> QED
    BY <1>1, <2>4, <2>5, <2>6, MethodsDefined
<1> QED
  BY <1>2, <1>3, <1>4, <1>5, <1>6, <1>7, Zenon DEF GeneratedHoldsTogether

-----------------------------------------------------------------------------
\* While code is generated the Validator is at rest, and header and source are those
\* of its one schema.
THEOREM GeneratorInvariance == GSpec => []GInv
  BY GInitInv, GNextInv, PTL DEF GSpec

\* For every schema, what compile_schema() generates after validate() returned true
\* defines, once, all that it uses and calls.
THEOREM GeneratedIsComplete == GSpec => []GeneratedHoldsTogether
  BY GeneratorInvariance, HoldsTogether, PTL

\* With the generator behind it the Validator still reports exactly what is wrong, and
\* accepts exactly what is well formed.
THEOREM ValidatorUndisturbed == GSpec => [](ErrorsExact /\ AcceptsWellFormed)
<1>1. GInv => ErrorsExact /\ AcceptsWellFormed
  BY IdleExact, IdleWellFormed DEF GInv
<1> QED
  BY GeneratorInvariance, <1>1, PTL
=============================================================================
