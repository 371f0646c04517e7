----------------------------- MODULE EventExpr -----------------------------
(***************************************************************************)
(* Event expressions (src/event/event_expr.cpp, and the same code again in *)
(* src/event/event_analyzer.cpp): three-valued logic over values with      *)
(* unknown bits, and the recursive-descent parser that evaluates as it     *)
(* reads.  An expression is a sequence of tokens, a value its bits from    *)
(* the left: "0", "1" or "x" (x and z are treated alike).                  *)
(***************************************************************************)
EXTENDS Integers, Sequences, SequencesExt

Has(bits, level) == \E i \in DOMAIN bits : bits[i] = level

\* Mutant of TriNot: what is not true is false.
TriNotTwoValued(v) == IF v = "T" THEN "F" ELSE "T"

\* tri_not, tri_and, tri_or: false "F", true "T", unknown "U".
TriNot(v) == CASE v = "T" -> "F" [] v = "F" -> "T" [] v = "U" -> "U"

TriAnd(l, r) == CASE l = "F" \/ r = "F" -> "F" [] l = "T" /\ r = "T" -> "T" [] OTHER -> "U"
TriOr(l, r)  == CASE l = "T" \/ r = "T" -> "T" [] l = "F" /\ r = "F" -> "F" [] OTHER -> "U"

\* truth_value, of a text's bits; the digits of a decimal literal that are not
\* bits are not among them.
Truth(bits) ==
  CASE bits = << >> \/ Has(bits, "x") -> "U"
    [] bits # << >> /\ ~Has(bits, "x") -> IF Has(bits, "1") THEN "T" ELSE "F"

\* normalize_for_compare: without leading zeros, and padded to the wider text.
Stripped(bits) ==
  LET first == SelectInSeq(bits, LAMBDA b : b # "0")
  IN IF first = 0 THEN <<"0">> ELSE SubSeq(bits, first, Len(bits))
Padded(bits, width) == IF Len(bits) < width THEN [i \in 1 .. (width - Len(bits)) |-> "0"] \o bits ELSE bits
Normalized(bits, width) == Padded(Stripped(bits), width)

\* A value: its bits, and the bits among its text's characters.
Signal(bits) == [bits |-> bits, text |-> bits]

Equal(ln, rn) ==
  IF Has(ln, "x") \/ Has(rn, "x") THEN "U" ELSE IF ln = rn THEN "T" ELSE "F"

Compare(l, r) ==
  LET width == IF Len(l.text) > Len(r.text) THEN Len(l.text) ELSE Len(r.text)
  IN Equal(Normalized(l.bits, width), Normalized(r.bits, width))
-----------------------------------------------------------------------------
(* The parser.  A parse ends at a position with a value, or it fails; it     *)
(* does not skip an operand because of a value.                              *)

Failed == [ok |-> FALSE, at |-> 0, val |-> "F"]
Parsed(at, val) == [ok |-> TRUE, at |-> at, val |-> val]
At(toks, at, token) == at <= Len(toks) /\ toks[at] = token

\* parse_atom knows an alias, a field or a literal by the names in env.
Atom(toks, at, env) == at <= Len(toks) /\ toks[at] \in DOMAIN env

\* After a parenthesis, after a !, and after the right operand of && and ||.
Closed(toks, r) == IF r.ok /\ At(toks, r.at, ")") THEN [r EXCEPT !.at = @ + 1] ELSE Failed
Negated(r) == IF r.ok THEN [r EXCEPT !.val = TriNot(@)] ELSE Failed
Both(l, r) == IF r.ok THEN Parsed(r.at, TriAnd(l.val, r.val)) ELSE Failed
Either(l, r) == IF r.ok THEN Parsed(r.at, TriOr(l.val, r.val)) ELSE Failed

\* The atom at a position, alone or compared with the one after an operator.
Compares(toks, at) == \E token \in {"==", "=", "!="} : At(toks, at, token)
ParseValue(toks, at, env) ==
  IF ~Compares(toks, at + 1) THEN Parsed(at + 1, Truth(env[toks[at]].text))
  ELSE IF ~Atom(toks, at + 2, env) THEN Failed
  ELSE LET eq == Compare(env[toks[at]], env[toks[at + 2]])
       IN Parsed(at + 3, IF toks[at + 1] = "!=" THEN TriNot(eq) ELSE eq)

RECURSIVE ParseOr(_, _, _), ParseAnd(_, _, _), ParseUnary(_, _, _), MoreOr(_, _, _), MoreAnd(_, _, _)

\* parse_primary: parentheses, a comparison, or a value's truth.
ParsePrimary(toks, at, env) ==
  IF At(toks, at, "(") THEN Closed(toks, ParseOr(toks, at + 1, env))
  ELSE IF Atom(toks, at, env) THEN ParseValue(toks, at, env) ELSE Failed

ParseUnary(toks, at, env) ==
  IF At(toks, at, "!") THEN Negated(ParseUnary(toks, at + 1, env)) ELSE ParsePrimary(toks, at, env)

\* The loops of parse_and and parse_or, from what has been read so far.
MoreAnd(toks, l, env) ==
  IF l.ok /\ At(toks, l.at, "&&")
  THEN MoreAnd(toks, Both(l, ParseUnary(toks, l.at + 1, env)), env) ELSE l
ParseAnd(toks, at, env) == MoreAnd(toks, ParseUnary(toks, at, env), env)

MoreOr(toks, l, env) ==
  IF l.ok /\ At(toks, l.at, "||")
  THEN MoreOr(toks, Either(l, ParseAnd(toks, l.at + 1, env)), env) ELSE l

\* Mutant of ParseOr: || takes one operand on its right, so a && after it is
\* applied to the whole of what came before.
ParseOrFlat(toks, at, env) ==
  LET l == ParseAnd(toks, at, env) IN
  IF ~(l.ok /\ At(toks, l.at, "||")) THEN l
  ELSE MoreAnd(toks, Either(l, ParseUnary(toks, l.at + 1, env)), env)

ParseOr(toks, at, env) == MoreOr(toks, ParseAnd(toks, at, env), env)

\* eval: the whole text must be read.
Outcome(toks, r) == IF r.ok /\ r.at = Len(toks) + 1 THEN r.val ELSE "error"
Evaluated(toks, env) == Outcome(toks, ParseOr(toks, 1, env))
-----------------------------------------------------------------------------
(* What the text means, by its syntax tree: || below && below !              *)

RECURSIVE TokensOf(_), Meaning(_, _), IdsIn(_)

Paren(toks) == <<"(">> \o toks \o <<")">>
Rank(tree) == CASE tree.op = "or" -> 1 [] tree.op = "and" -> 2 [] tree.op = "not" -> 3 [] OTHER -> 4
TokensAt(tree, rank) == IF Rank(tree) < rank THEN Paren(TokensOf(tree)) ELSE TokensOf(tree)

TokensOf(tree) ==
  CASE tree.op = "is" -> <<tree.l>>
    [] tree.op \in {"==", "!="} -> <<tree.l, tree.op, tree.r>>
    [] tree.op = "not" -> <<"!">> \o TokensAt(tree.l, 3)
    [] tree.op = "and" -> TokensAt(tree.l, 2) \o <<"&&">> \o TokensAt(tree.r, 3)
    [] tree.op = "or" -> TokensAt(tree.l, 1) \o <<"||">> \o TokensAt(tree.r, 2)

IdsIn(tree) ==
  CASE tree.op \in {"and", "or"} -> IdsIn(tree.l) \cup IdsIn(tree.r)
    [] tree.op = "not" -> IdsIn(tree.l)
    [] tree.op \in {"==", "!="} -> {tree.l, tree.r}
    [] tree.op = "is" -> {tree.l}

\* Strong Kleene logic as numbers: 0 false, 1 unknown, 2 true.  A comparison is of
\* numbers, and unknown when a bit is.
Number(bits) == FoldLeft(LAMBDA n, b : 2 * n + (IF b = "1" THEN 1 ELSE 0), 0, bits)
Same(l, r) ==
  IF Has(l.bits, "x") \/ Has(r.bits, "x") THEN 1 ELSE IF Number(l.bits) = Number(r.bits) THEN 2 ELSE 0
Least(a, b) == IF a < b THEN a ELSE b

Meaning(tree, env) ==
  CASE tree.op = "is" -> (LET bits == env[tree.l].text
                          IN IF bits = << >> \/ Has(bits, "x") THEN 1 ELSE IF Number(bits) = 0 THEN 0 ELSE 2)
    [] tree.op = "==" -> Same(env[tree.l], env[tree.r])
    [] tree.op = "!=" -> 2 - Same(env[tree.l], env[tree.r])
    [] tree.op = "not" -> 2 - Meaning(tree.l, env)
    [] tree.op = "and" -> Least(Meaning(tree.l, env), Meaning(tree.r, env))
    [] tree.op = "or" -> 2 - Least(2 - Meaning(tree.l, env), 2 - Meaning(tree.r, env))
=============================================================================
