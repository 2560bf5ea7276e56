----------------------------- MODULE Conversion -----------------------------
(* The conversion service of core/convert.  A type is a name in DOMAIN Types, *)
(* with its kind, its element type, whether it is declared by the program     *)
(* (named) and whether it unmarshals text; a value is its type and what is    *)
(* known of its content: a text's parsable kinds, a slice's elements.  The    *)
(* result of a conversion is the set of its possible outcomes: map iteration  *)
(* may meet any matching converter first.                                     *)
EXTENDS Integers, Sequences, FiniteSets

CONSTANT Types   \* [kind, elem, named, unmarshals] per type name

Numbers == {"int", "float"}
Nullable == {"interface", "map", "pointer", "slice"}
Kind(t) == Types[t].kind
Elem(t) == Types[t].elem

Value(type, content) == [type |-> type, content |-> content]
NilValue == [type |-> "nil", content |-> {}]
Failure == [type |-> "error", content |-> {}]
Panic == [type |-> "panic", content |-> {}]
Bad == {"error", "panic"}

AssignableTo(source, target) == source = target \/ Kind(target) = "interface"
(* Identical primitive kinds convert, text and truth values do not.           *)
isSafePrimitiveConversion(source, target) == Kind(source) = Kind(target) /\ Kind(source) \in Numbers
canAssign(source, target) == AssignableTo(source, target) \/ isSafePrimitiveConversion(source, target)
assignValue(v, target) == IF AssignableTo(v.type, target) THEN v ELSE [v EXCEPT !.type = target]

isStringTarget(t) == Types[t].unmarshals \/ Kind(t) \in Numbers \cup {"string", "bool", "duration"}
RECURSIVE canUseBuiltin(_, _)
canUseBuiltin(source, target) ==
  CASE Kind(target) = "pointer" -> canUseBuiltin(source, Elem(target))
    [] Kind(target) = "slice" -> Kind(source) \in {"string", "slice"}
    [] Kind(target) \notin {"pointer", "slice"} /\ Types[target].unmarshals -> Kind(source) = "string"
    [] OTHER -> IF Kind(source) = "string" THEN isStringTarget(target) ELSE Kind(target) = "string"

(* Converters: a function from <<source, target>> pairs to what each returns. *)
sourceMatches(actual, expected) == AssignableTo(actual, expected)
lookup(converters, source, target) ==
  IF <<source, target>> \in DOMAIN converters THEN {<<source, target>>}
  ELSE {p \in DOMAIN converters : sourceMatches(source, p[1]) /\ AssignableTo(p[2], target)}
Register(converters, pair, result) ==
  IF pair \in DOMAIN converters THEN converters
  ELSE [p \in DOMAIN converters \cup {pair} |-> IF p = pair THEN result ELSE converters[p]]

CanConvertBuiltin(converters, source, target) ==   \* mutant: registered converters are not asked
  canAssign(source, target) \/ canUseBuiltin(source, target)
CanConvert(converters, source, target) ==
  canAssign(source, target) \/ lookup(converters, source, target) # {} \/ canUseBuiltin(source, target)

convertNil(target) == IF Kind(target) \in Nullable THEN NilValue ELSE Failure
normalizeConverted(v, target) ==
  CASE v.type \in Bad -> v
    [] v.type = "nil" -> convertNil(target)
    [] v.type \notin Bad \cup {"nil"} -> IF canAssign(v.type, target) THEN assignValue(v, target) ELSE Failure

(* A text parses as the kinds its content names.  The parsed value has the    *)
(* target's own type for numbers, and the plain type for text and truth values. *)
convertString(v, target) ==
  CASE Types[target].unmarshals -> IF "text" \in v.content THEN Value(target, {}) ELSE Failure
    [] ~Types[target].unmarshals /\ Kind(target) = "string" -> v
    [] ~Types[target].unmarshals /\ Kind(target) = "bool" -> IF "bool" \in v.content THEN Value("bool", {}) ELSE Failure
    [] ~Types[target].unmarshals /\ Kind(target) \in Numbers \cup {"duration"} ->
         IF Kind(target) \in v.content THEN Value(target, {}) ELSE Failure
    [] OTHER -> Failure

RECURSIVE Convert(_, _, _), builtinConvert(_, _, _)
(* Elements: the parts of a text, or of a slice or an array.                  *)
Parts(v) == IF v.type = "string" THEN {Value("string", v.content)} ELSE v.content
convertSlice(converters, v, target) ==
  IF v.type # "string" /\ Kind(v.type) \notin {"slice", "array"} THEN {Failure}
  ELSE LET each == [p \in Parts(v) |-> Convert(converters, p, Elem(target))]
           choices == {c \in [Parts(v) -> UNION {each[p] : p \in Parts(v)}] : \A p \in Parts(v) : c[p] \in each[p]}
           Broken(c) == {c[p] : p \in {p \in Parts(v) : c[p].type \in Bad}}
       IN  UNION {IF Broken(c) # {} THEN Broken(c) ELSE {Value(target, {c[p] : p \in Parts(v)})} : c \in choices}
(* Only a value whose type is string itself is parsed.  A pointer is set to   *)
(* the converted element as it is: a plain text does not fit a named type.    *)
PointerTo(c, target) ==
  CASE c.type \in Bad -> c
    [] c.type \notin Bad -> IF AssignableTo(c.type, Elem(target)) THEN Value(target, {c}) ELSE Panic
builtinConvert(converters, v, target) ==
  CASE Kind(target) = "pointer" ->
         {PointerTo(c, target) : c \in builtinConvert(converters, v, Elem(target))}
    [] Kind(target) = "slice" -> convertSlice(converters, v, target)
    [] OTHER -> CASE v.type = "string" -> {convertString(v, target)}
                  [] v.type # "string" /\ Kind(target) = "string" -> {Value("string", {"text"})}
                  [] OTHER -> {Failure}

Convert(converters, v, target) ==
  CASE v.type = "nil" -> {convertNil(target)}
    [] v.type # "nil" /\ canAssign(v.type, target) -> {assignValue(v, target)}
    [] OTHER ->
         LET found == lookup(converters, v.type, target)
         IN  {normalizeConverted(c, target) :
                c \in IF found # {} THEN {converters[p] : p \in found} ELSE builtinConvert(converters, v, target)}
=============================================================================
