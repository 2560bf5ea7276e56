-------------------------------- MODULE Gael --------------------------------
(* The expression language of package expression: lexer, precedence parser    *)
(* and evaluator.  A source text is a sequence of lexemes: words, digit runs, *)
(* quoted strings and single symbols, with the blanks left out.  A number is  *)
(* an exact fraction; "int" is int64 far from its limits, "float" is float64. *)
EXTENDS Integers, Sequences, TLC

CONSTANTS Digits,      \* from a digit run to its value
          Quoted,      \* the quoted strings: from lexeme to decoded text; a bad escape is not in it
          variables, functions

Operators == {"(", ")", "[", "]", ",", "+", "-", "*", "/", "%", "!", "<", ">"}
Doubled == {<<"=", "=">>, <<"!", "=">>, <<"<", "=">>, <<">", "=">>, <<"&", "&">>, <<"|", "|">>}
WordOperators == [and |-> "&&", or |-> "||", not |-> "!", eq |-> "==", ne |-> "!=",
                  lt |-> "<", le |-> "<=", gt |-> ">", ge |-> ">="]
Joined(a, b) == CASE b = "&" -> "&&" [] b = "|" -> "||" [] a = "!" -> "!=" [] a = "<" -> "<="
                  [] a = ">" -> ">=" [] OTHER -> "=="

Int64(n) == [kind |-> "int", num |-> n, den |-> 1]
Float(n, d) == [kind |-> "float", num |-> n, den |-> d]
Str(s) == [kind |-> "string", value |-> s]
Bool(b) == [kind |-> "bool", value |-> b]
Nil == [kind |-> "nil"]
Error == [kind |-> "error"]
Numeric(v) == v.kind \in {"int", "float"}

Tok(kind, v) == [kind |-> kind, value |-> v]
Op(o) == Tok("op", o)

(* The lexer: the longest token first; a lone "=", "&" or "|" is an error.    *)
LexWord(w) ==
  CASE w \in DOMAIN WordOperators -> Op(WordOperators[w])
    [] w \in {"true", "false"} -> Tok("literal", Bool(w = "true"))
    [] w \in {"nil", "null"} -> Tok("literal", Nil)
    [] OTHER -> Tok("name", w)
LexSymbol(s, i) ==
  CASE i < Len(s) /\ <<s[i], s[i + 1]>> \in Doubled -> [token |-> Op(Joined(s[i], s[i + 1])), next |-> i + 2]
    [] (i = Len(s) \/ <<s[i], s[i + 1]>> \notin Doubled) /\ s[i] \in Operators -> [token |-> Op(s[i]), next |-> i + 1]
    [] OTHER -> [token |-> Tok("bad", s[i]), next |-> i + 1]
number(s, i) ==
  IF i < Len(s) /\ s[i + 1] = "."
  THEN IF i + 1 < Len(s) /\ s[i + 2] \in DOMAIN Digits
       THEN [token |-> Tok("literal", Float(10 * Digits[s[i]] + Digits[s[i + 2]], 10)), next |-> i + 3]
       ELSE [token |-> Tok("bad", "."), next |-> i + 2]
  ELSE [token |-> Tok("literal", Int64(Digits[s[i]])), next |-> i + 1]
Symbols == Operators \cup {"=", "&", "|", "."}
next(s, i) ==
  CASE s[i] \in DOMAIN Digits -> number(s, i)
    [] s[i] \in DOMAIN Quoted -> [token |-> Tok("literal", Str(Quoted[s[i]])), next |-> i + 1]
    [] s[i] \in Symbols -> LexSymbol(s, i)
    [] OTHER -> [token |-> LexWord(s[i]), next |-> i + 1]
RECURSIVE lex(_, _)
lex(s, i) == IF i > Len(s) THEN <<>> ELSE <<next(s, i).token>> \o lex(s, next(s, i).next)

(* The parser.  A lower level binds weaker; each is left-associative.         *)
Levels == << {"||"}, {"&&"}, {"==", "!="}, {"<", "<=", ">", ">="}, {"+", "-"}, {"*", "/", "%"} >>
Unary == {"!", "-", "+"}

Parsed(node, at) == [ok |-> TRUE, node |-> node, at |-> at]
SyntaxError == [ok |-> FALSE, at |-> 0]
IsOp(t, at, ops) == at <= Len(t) /\ t[at].kind = "op" /\ t[at].value \in ops

RECURSIVE parseBinary(_, _, _), MoreBinary(_, _, _), parseUnary(_, _), parsePostfix(_, _), parseArguments(_, _, _)

parseOr(t, at) == parseBinary(t, at, 1)
parseBinary(t, at, level) ==
  IF level > Len(Levels) THEN parseUnary(t, at) ELSE MoreBinary(t, parseBinary(t, at, level + 1), level)
MoreBinaryRight(t, left, level) ==   \* mutant: operators of a level group to the right
  IF ~left.ok \/ ~IsOp(t, left.at, Levels[level]) THEN left
  ELSE LET right == parseBinary(t, left.at + 1, level)
       IN  IF ~right.ok THEN SyntaxError
           ELSE Parsed(<<"binary", t[left.at].value, left.node, right.node>>, right.at)
MoreBinary(t, left, level) ==
  IF ~left.ok \/ ~IsOp(t, left.at, Levels[level]) THEN left
  ELSE LET right == parseBinary(t, left.at + 1, level + 1)
       IN  IF ~right.ok THEN SyntaxError
           ELSE MoreBinary(t, Parsed(<<"binary", t[left.at].value, left.node, right.node>>, right.at), level)

parsePrimary(t, at) ==
  LET inner == parseOr(t, at + 1)
      call == IF IsOp(t, at + 2, {")"}) THEN Parsed(<<>>, at + 2) ELSE parseArguments(t, at + 2, <<>>)
  IN  CASE at > Len(t) -> SyntaxError
        [] at <= Len(t) /\ t[at].kind = "literal" -> Parsed(<<"literal", t[at].value>>, at + 1)
        [] at <= Len(t) /\ t[at].kind = "name" ->
             IF ~IsOp(t, at + 1, {"("}) THEN Parsed(<<"name", t[at].value>>, at + 1)
             ELSE IF call.ok /\ IsOp(t, call.at, {")"})
             THEN Parsed(<<"call", t[at].value, call.node>>, call.at + 1) ELSE SyntaxError
        [] IsOp(t, at, {"("}) ->
             IF inner.ok /\ IsOp(t, inner.at, {")"}) THEN Parsed(inner.node, inner.at + 1) ELSE SyntaxError
        [] OTHER -> SyntaxError
parseArguments(t, at, sofar) ==
  LET one == parseOr(t, at)
  IN  CASE ~one.ok -> SyntaxError
        [] one.ok /\ IsOp(t, one.at, {","}) -> parseArguments(t, one.at + 1, Append(sofar, one.node))
        [] OTHER -> Parsed(Append(sofar, one.node), one.at)

parseUnary(t, at) ==
  IF ~IsOp(t, at, Unary) THEN parsePostfix(t, parsePrimary(t, at))
  ELSE LET operand == parseUnary(t, at + 1)
       IN  IF operand.ok THEN Parsed(<<"unary", t[at].value, operand.node>>, operand.at) ELSE SyntaxError
parsePostfix(t, value) ==
  IF ~value.ok \/ ~IsOp(t, value.at, {"["}) THEN value
  ELSE LET index == parseOr(t, value.at + 1)
       IN  IF index.ok /\ IsOp(t, index.at, {"]"})
           THEN parsePostfix(t, Parsed(<<"index", value.node, index.node>>, index.at + 1)) ELSE SyntaxError

Parse(s) ==
  LET tokens == lex(s, 1)
      whole == parseOr(tokens, 1)
  IN  IF (\A i \in DOMAIN tokens : tokens[i].kind # "bad") /\ whole.ok /\ whole.at = Len(tokens) + 1
      THEN whole ELSE SyntaxError
-----------------------------------------------------------------------------
(* The evaluator.                                                             *)
Less(l, r) == l.num * r.den < r.num * l.den
NumEqual(l, r) == l.num * r.den = r.num * l.den
equalValues(l, r) == IF Numeric(l) /\ Numeric(r) THEN NumEqual(l, r) ELSE l.kind = r.kind /\ l = r
Num(l, r, n, d) == IF l.kind = "int" /\ r.kind = "int" THEN Int64(n) ELSE Float(n, d)
Abs(n) == IF n < 0 THEN -n ELSE n
Rem(a, b) == (IF a < 0 THEN -1 ELSE 1) * (Abs(a) % Abs(b))    \* the sign of Go's remainder is a's
evaluateNumeric(o, l, r) ==
  CASE o = "<" -> Bool(Less(l, r))
    [] o = "<=" -> Bool(~Less(r, l))
    [] o = ">" -> Bool(Less(r, l))
    [] o = ">=" -> Bool(~Less(l, r))
    [] o = "+" -> Num(l, r, l.num * r.den + r.num * l.den, l.den * r.den)
    [] o = "-" -> Num(l, r, l.num * r.den - r.num * l.den, l.den * r.den)
    [] o = "*" -> Num(l, r, l.num * r.num, l.den * r.den)
    [] o = "/" /\ r.num # 0 -> Float((IF r.num < 0 THEN -1 ELSE 1) * l.num * r.den, l.den * Abs(r.num))
    [] o = "%" /\ l.kind = "int" /\ r.kind = "int" /\ r.num # 0 -> Int64(Rem(l.num, r.num))
    [] OTHER -> Error
(* Concatenation prints its other operand.                                    *)
Printed(v) == IF v.kind = "string" THEN v.value ELSE <<ToString(v)>>
evaluateBinary(o, l, r) ==
  CASE o \in {"==", "!="} -> Bool(equalValues(l, r) = (o = "=="))
    [] o \in {"&&", "||"} -> IF r.kind = "bool" THEN r ELSE Error
    [] o = "+" /\ "string" \in {l.kind, r.kind} -> Str(Printed(l) \o Printed(r))
    [] Numeric(l) /\ Numeric(r) /\ o \notin {"==", "!=", "&&", "||"} -> evaluateNumeric(o, l, r)
    [] OTHER -> Error
evaluateUnary(o, v) ==
  CASE o = "!" /\ v.kind = "bool" -> Bool(~v.value)
    [] o = "+" /\ Numeric(v) -> v
    [] o = "-" /\ Numeric(v) -> [v EXCEPT !.num = -@]
    [] OTHER -> Error
(* The property resolver: [contains: set of keys, get: readable key -> text]. *)
Property(properties, k) == IF k.kind = "string" /\ k.value \in DOMAIN properties.get THEN Str(properties.get[k.value]) ELSE Error
indexedValue(target, index) ==
  CASE target.kind = "map" /\ index.kind = "string" /\ index.value \in DOMAIN target.value -> target.value[index.value]
    [] target.kind = "list" /\ index.kind = "int" /\ index.num \in 0..Len(target.value) - 1 -> target.value[index.num + 1]
    [] OTHER -> Error
evaluateCall(properties, name, args) ==
  CASE name \in {"property", "hasProperty"} /\ (Len(args) # 1 \/ args[1].kind # "string") -> Error
    [] name = "property" /\ Len(args) = 1 -> Property(properties, args[1])
    [] name = "hasProperty" /\ Len(args) = 1 -> Bool(args[1].value \in properties.contains)
    [] name \in DOMAIN functions -> functions[name]
    [] OTHER -> Error

(* Operands are evaluated left to right; "&&" and "||" stop at the left one.  *)
RECURSIVE Evaluate(_, _)
Evaluate(properties, n) ==
  LET l == Evaluate(properties, n[3])
      r == Evaluate(properties, n[4])
      target == Evaluate(properties, n[2])
      index == Evaluate(properties, n[3])
      args == [i \in DOMAIN n[3] |-> Evaluate(properties, n[3][i])]
  IN  CASE n[1] = "literal" -> n[2]
        [] n[1] = "name" /\ n[2] \in {"environment", "properties"} -> [kind |-> "properties"]
        [] n[1] = "name" /\ n[2] \in DOMAIN variables -> variables[n[2]]
        [] n[1] = "unary" -> evaluateUnary(n[2], Evaluate(properties, n[3]))
        [] n[1] = "binary" /\ l.kind = "error" -> Error
        [] n[1] = "binary" /\ n[2] \in {"&&", "||"} /\ l.kind # "bool" -> Error
        [] n[1] = "binary" /\ n[2] = "&&" /\ l = Bool(FALSE) -> l
        [] n[1] = "binary" /\ n[2] = "||" /\ l = Bool(TRUE) -> l
        [] n[1] = "binary" -> IF r.kind = "error" THEN Error ELSE evaluateBinary(n[2], l, r)
        [] n[1] = "call" -> IF \E i \in DOMAIN args : args[i].kind = "error" THEN Error ELSE evaluateCall(properties, n[2], args)
        [] n[1] = "index" -> IF target.kind = "error" \/ index.kind = "error" THEN Error
                             ELSE IF target.kind = "properties" THEN Property(properties, index) ELSE indexedValue(target, index)
        [] OTHER -> Error
=============================================================================
