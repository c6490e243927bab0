----------------------------- MODULE Normalize -----------------------------
(***************************************************************************)
(* extract/normalize.py: the model's JSON, made to follow the schema.      *)
(*                                                                         *)
(* A schema is a record: "types" is the sequence of its declared types,    *)
(* "checkbox" tells that its description asks for a false default, and     *)
(* "properties" and "items" are there when the schema has them.  NotSchema *)
(* stands where a property is given by something other than an object.     *)
(*                                                                         *)
(* Two operators call themselves on parts of the schema: the inner call is *)
(* a constant, whose value is the operator itself.                         *)
(***************************************************************************)
EXTENDS Json

CONSTANTS Schemas,              (* the schemas and the schemas inside them   *)
          SchemaDepth(_),       (* how many schemas deep a schema is         *)
          DefaultValue(_),      (* default_value, where it calls itself      *)
          NormalizeValue(_, _)  (* normalize_value, where it calls itself    *)

NotSchema == [raw |-> TRUE]
IsSchema(s) == "types" \in DOMAIN s

schema_type(s) ==
  LET named == SelectSeq(s.types, LAMBDA t : t # "null")
  IN  IF named = <<>> THEN "none" ELSE named[1]

IsObject(s) == schema_type(s) = "object" \/ "properties" \in DOMAIN s
IsArray(s) == schema_type(s) = "array" \/ "items" \in DOMAIN s
Properties(s) == IF "properties" \in DOMAIN s THEN s.properties ELSE <<>>

\* The letters left once marks and all white space are gone.
Stripped(text) == FoldLeft(LAMBDA letters, w : letters \o w.core, "", text)

\* Keeping a text that may be a number as it is.
coerce_number_keeping(v) == IF v.kind \in {"num", "str"} THEN v ELSE Null

\* Only what is a number already is one.
coerce_number_typed(v) == IF v.kind = "num" THEN v ELSE Null

coerce_number(v) ==
  CASE v.kind = "num" -> v
    [] /\ v.kind = "str" /\ IsNumeral(Stripped(v.text))
       /\ \A i \in DOMAIN v.text : v.text[i].form # "edge" -> Num(Numeral(Stripped(v.text)))
    [] OTHER -> Null

Spelled(text, words) ==
  Len(text) = 1 /\ text[1].core \in words /\ text[1].form \in {"plain", "case"}

coerce_bool(v) ==
  CASE v.kind = "bool" -> v
    [] v.kind = "str" /\ Spelled(v.text, {"true", "yes", "y", "1"})  -> Bool(TRUE)
    [] v.kind = "str" /\ Spelled(v.text, {"false", "no", "n", "0"}) -> Bool(FALSE)
    [] OTHER -> Null

wants_false_default(s) == schema_type(s) = "boolean" /\ s.checkbox

\* What a property is given that the model did not return.
default_value(s) ==
  IF ~IsSchema(s) THEN Null
  ELSE IF wants_false_default(s) THEN Bool(FALSE)
  ELSE IF IsObject(s) /\ DOMAIN Properties(s) # {}
  THEN Dict([k \in DOMAIN s.properties |-> DefaultValue(s.properties[k])])
  ELSE Null

\* Properties the schema lacks go, those the model left out get a default.
normalize_object(fields, s) ==
  IF DOMAIN Properties(s) = {} THEN fields
  ELSE [k \in DOMAIN s.properties |->
          IF Get(fields, k) = Null THEN default_value(s.properties[k])
                                   ELSE NormalizeValue(fields[k], s.properties[k])]

normalize_value(v, s) ==
  IF v.kind = "null" \/ ~IsSchema(s) THEN v
  ELSE IF IsObject(s)
  THEN IF v.kind = "dict" THEN Dict(normalize_object(v.fields, s)) ELSE v
  ELSE IF IsArray(s)
  THEN IF v.kind = "list" /\ "items" \in DOMAIN s /\ IsSchema(s.items)
       THEN List([i \in DOMAIN v.items |-> NormalizeValue(v.items[i], s.items)]) ELSE v
  ELSE CASE schema_type(s) \in {"number", "integer"} -> coerce_number(v)
         [] schema_type(s) = "boolean" -> coerce_bool(v)
         [] OTHER -> v

(* A schema's parts are less deep; the inner calls are those of the        *)
(* operators, which return values.                                         *)
ASSUME SchemasAssumption ==
  \A s \in Schemas :
    /\ IsSchema(s) \/ s = NotSchema
    /\ SchemaDepth(s) \in Nat
    /\ \A k \in DOMAIN Properties(s) :
         s.properties[k] \in Schemas /\ SchemaDepth(s.properties[k]) < SchemaDepth(s)
    /\ "items" \in DOMAIN s => s.items \in Schemas /\ SchemaDepth(s.items) < SchemaDepth(s)
    /\ DefaultValue(s) = default_value(s) /\ default_value(s) \in Values
    /\ \A v \in Values :
         NormalizeValue(v, s) = normalize_value(v, s) /\ normalize_value(v, s) \in Values

\* The fields of the answer; a schema that is not there prunes nothing.
normalize_output(raw, s) ==
  IF raw.kind # "dict" THEN <<>>
  ELSE IF ~IsSchema(s) THEN raw.fields ELSE normalize_object(raw.fields, s)

=============================================================================
