-------------------------------- MODULE Json --------------------------------
(***************************************************************************)
(* The values json.loads returns, as records tagged with their kind, and   *)
(* the text inside them.  A text is a sequence of words; a word is its     *)
(* letters, lower-cased and bare, and the form they were written in:       *)
(*   "plain"   as they are;                                                *)
(*   "case"    with capitals or with white space around;                   *)
(*   "edge"    with a ; or : at the outer edge of the text;                *)
(*   "marked"  with currency, percent or digit-grouping marks.             *)
(* A lone mark is a marked word with no letters.                           *)
(***************************************************************************)
EXTENDS Integers, Sequences, SequencesExt, TLC

CONSTANTS Numerals,  (* the integers that occur in texts     *)
          Values,    (* the values that occur                *)
          Depth(_)   (* how many containers deep a value is  *)

ASSUME JsonAssumption == Numerals \subseteq Int

Str(text)    == [kind |-> "str", text |-> text]
Num(n)       == [kind |-> "num", num |-> n]
Bool(b)      == [kind |-> "bool", bool |-> b]
List(items)  == [kind |-> "list", items |-> items]
Dict(fields) == [kind |-> "dict", fields |-> fields]
Null         == [kind |-> "null"]

\* A value is null, a leaf or a container of values less deep.
ASSUME ValuesAssumption ==
  /\ Null \in Values
  /\ \A v \in Values :
       /\ Depth(v) \in Nat
       /\ v.kind = "null" => v = Null
       /\ v.kind = "dict" =>
            /\ IsFiniteSet(DOMAIN v.fields)
            /\ \A k \in DOMAIN v.fields : v.fields[k] \in Values /\ Depth(v.fields[k]) < Depth(v)
       /\ v.kind = "list" =>
            /\ v.items \in Seq(ToSet(v.items))
            /\ \A i \in DOMAIN v.items : v.items[i] \in Values /\ Depth(v.items[i]) < Depth(v)

Plain(core) == [core |-> core, form |-> "plain"]

\* dict.get(key): null when the key is missing.
Get(fields, key) == IF key \in DOMAIN fields THEN fields[key] ELSE Null

\* float() of a text's letters; only integers are represented.
IsNumeral(core) == \E n \in Numerals : ToString(n) = core
Numeral(core)   == CHOOSE n \in Numerals : ToString(n) = core

\* str() of a value: a container's representation resembles no answer.
StrOf(v) == CASE v.kind = "str"  -> v.text
              [] v.kind = "num"  -> <<Plain(ToString(v.num))>>
              [] v.kind = "bool" -> <<[core |-> IF v.bool THEN "true" ELSE "false",
                                       form |-> "case"]>>
              [] v.kind = "null" -> <<[core |-> "none", form |-> "case"]>>
              [] OTHER           -> <<Plain("<" \o v.kind \o ">")>>

\* float() of a value: <<>> when it raises.
Float(v) ==
  CASE v.kind = "num"  -> <<v.num>>
    [] v.kind = "bool" -> <<IF v.bool THEN 1 ELSE 0>>
    [] v.kind = "str" /\ Len(v.text) = 1 /\ v.text[1].form \in {"plain", "case"}
         -> IF IsNumeral(v.text[1].core) THEN <<Numeral(v.text[1].core)>> ELSE <<>>
    [] OTHER -> <<>>

=============================================================================
