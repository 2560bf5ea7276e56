-------------------------- MODULE ProfileExpression --------------------------
(* The profile expressions of core/env: a recursive-descent parser over the   *)
(* tokens "!", "&", "|", "(", ")" and profile names.  A parser takes the      *)
(* tokens and a position and yields the node and the position behind it.      *)
EXTENDS Integers, Sequences, FiniteSets

Punctuation == {"!", "&", "|", "(", ")"}
Name(n) == [op |-> "name", name |-> n]
Not(c) == [op |-> "not", child |-> c]
And(l, r) == [op |-> "and", left |-> l, right |-> r]
Or(l, r) == [op |-> "or", left |-> l, right |-> r]
Parsed(node, pos) == [ok |-> TRUE, node |-> node, pos |-> pos]
SyntaxError == [ok |-> FALSE, pos |-> 0]
At(t, pos, token) == pos <= Len(t) /\ t[pos] = token

RECURSIVE parseOr(_, _), parseAnd(_, _), parseUnary(_, _), MoreOr(_, _), MoreAnd(_, _)

parsePrimary(t, pos) ==
  LET inner == parseOr(t, pos + 1)
  IN  CASE At(t, pos, "(") ->
             IF inner.ok /\ At(t, inner.pos, ")") THEN Parsed(inner.node, inner.pos + 1) ELSE SyntaxError
        [] pos <= Len(t) /\ t[pos] \notin Punctuation -> Parsed(Name(t[pos]), pos + 1)
        [] OTHER -> SyntaxError

parseUnary(t, pos) ==
  IF At(t, pos, "!")
  THEN LET child == parseUnary(t, pos + 1)
       IN  IF child.ok THEN Parsed(Not(child.node), child.pos) ELSE SyntaxError
  ELSE parsePrimary(t, pos)

(* The loop of a left-associative level: left is what was read so far.        *)
MoreAnd(t, left) ==
  IF ~left.ok \/ ~At(t, left.pos, "&") THEN left
  ELSE LET right == parseUnary(t, left.pos + 1)
       IN  IF right.ok THEN MoreAnd(t, Parsed(And(left.node, right.node), right.pos)) ELSE SyntaxError
parseAnd(t, pos) == MoreAnd(t, parseUnary(t, pos))

MoreOr(t, left) ==
  IF ~left.ok \/ ~At(t, left.pos, "|") THEN left
  ELSE LET right == parseAnd(t, left.pos + 1)
       IN  IF right.ok THEN MoreOr(t, Parsed(Or(left.node, right.node), right.pos)) ELSE SyntaxError
parseOr(t, pos) == MoreOr(t, parseAnd(t, pos))

parse(t) ==
  LET whole == parseOr(t, 1)
  IN  IF whole.ok /\ whole.pos = Len(t) + 1 THEN whole ELSE SyntaxError

(* match asks the environment only for single names.                          *)
RECURSIVE match(_, _)
match(node, accepted) ==
  CASE node.op = "name" -> node.name \in accepted
    [] node.op = "not" -> ~match(node.child, accepted)
    [] node.op = "and" -> match(node.left, accepted) /\ match(node.right, accepted)
    [] node.op = "or" -> match(node.left, accepted) \/ match(node.right, accepted)

MatchProfileExpression(t, accepted) ==
  IF parse(t).ok THEN {match(parse(t).node, accepted)} ELSE {}
-----------------------------------------------------------------------------
(* The meaning of an expression by its lowest operator, without a parser: the *)
(* set of its truth values, empty when the tokens are no expression.          *)
Nesting(t, i) == Cardinality({j \in 1..i : t[j] = "("}) - Cardinality({j \in 1..i : t[j] = ")"})
Splits(t, op) == {i \in DOMAIN t : t[i] = op /\ Nesting(t, i) = 0}

RECURSIVE Meaning(_, _)
Meaning(t, accepted) ==
  LET Halves(i) == <<Meaning(SubSeq(t, 1, i - 1), accepted), Meaning(SubSeq(t, i + 1, Len(t)), accepted)>>
      Both(i, Op(_, _)) == {Op(x, y) : x \in Halves(i)[1], y \in Halves(i)[2]}
  IN  CASE t = <<>> -> {}
        [] Splits(t, "|") # {} -> Both(CHOOSE i \in Splits(t, "|") : TRUE, \/)
        [] Splits(t, "|") = {} /\ Splits(t, "&") # {} -> Both(CHOOSE i \in Splits(t, "&") : TRUE, /\)
        [] OTHER ->
             CASE t[1] = "!" -> {~x : x \in Meaning(Tail(t), accepted)}
               [] t[1] = "(" /\ t[Len(t)] = ")" /\ Len(t) > 2 -> Meaning(SubSeq(t, 2, Len(t) - 1), accepted)
               [] Len(t) = 1 /\ t[1] \notin Punctuation -> {t[1] \in accepted}
               [] OTHER -> {}
=============================================================================
