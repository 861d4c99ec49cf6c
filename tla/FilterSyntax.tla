---------------------------- MODULE FilterSyntax ----------------------------
(***************************************************************************)
(* The expressions of $filter, the text a client writes for them, and the  *)
(* tokenizer and recursive-descent parser of internal/query that read the  *)
(* text back.  Text is a sequence of lexemes, and values are small numbers:*)
(* 0 is also the empty string, and StrOf(p) is the string that spells the  *)
(* path p.                                                                 *)
(***************************************************************************)
EXTENDS Integers, Sequences, FiniteSets, SequencesExt

(* Expressions, as the client writes them and as the parser builds them.   *)
Id(p) == [k |-> "id", p |-> p]
Lit(n) == [k |-> "lit", n |-> n, name |-> <<>>]
StrOf(p) == 8
Quoted(p) == [k |-> "lit", n |-> StrOf(p), name |-> p]
Nil == [k |-> "nil"]
Fn(f, x) == [k |-> "fn", f |-> f, x |-> x]
Arith(op, l, r) == [k |-> "arith", op |-> op, l |-> l, r |-> r]
Cmp(op, l, r) == [k |-> "cmp", op |-> op, l |-> l, r |-> r]
In(l, vs) == [k |-> "in", l |-> l, vs |-> vs]
Like(x, v) == [k |-> "like", x |-> x, v |-> v]
Bin(op, l, r) == [k |-> "bin", op |-> op, l |-> l, r |-> r]
Not(x) == [k |-> "not", x |-> x]
Group(x) == [k |-> "group", x |-> x]
NoPred == [k |-> "nopred"]
Lambda(op, nav, var, x) == [k |-> "lambda", op |-> op, nav |-> nav, var |-> var, x |-> x]

-----------------------------------------------------------------------------
(* The text a client writes: parentheses only where the precedence of OData *)
(* needs them.  Keywords may be in upper case.                             *)

Word(w) == [c |-> "word", w |-> w, n |-> 0, glued |-> FALSE]
Call(w) == [c |-> "word", w |-> w, n |-> 0, glued |-> TRUE]
Special(w) == [c |-> "special", w |-> w, n |-> 0, glued |-> FALSE]

Level(e) ==
  CASE e.k = "bin"   -> IF e.op = "or" THEN 1 ELSE 2
    [] e.k = "not"   -> 3
    [] e.k \in {"cmp", "in"} -> 4
    [] e.k = "arith" -> IF e.op = "add" THEN 5 ELSE 6
    [] OTHER         -> 7

PathText(p) == FlattenSeq([i \in DOMAIN p |->
                 IF i = 1 THEN <<Word(p[i])>> ELSE <<Special("/"), Word(p[i])>>])

RECURSIVE Text(_, _)
Text(e, level) ==
  LET inner ==
        CASE e.k = "id"     -> PathText(e.p)
          [] e.k = "lit"    -> <<[c |-> IF e.name = <<>> THEN "digits" ELSE "quoted",
                                  w |-> "", n |-> e.n, glued |-> FALSE,
                                  name |-> e.name]>>
          [] e.k = "nil"    -> <<Word("null")>>
          [] e.k = "fn"     -> <<Call(e.f), Special("(")>> \o Text(e.x, 1) \o <<Special(")")>>
          [] e.k = "like"   -> <<Call("contains"), Special("(")>> \o Text(e.x, 1)
                               \o <<Special(",")>> \o Text(e.v, 1) \o <<Special(")")>>
          [] e.k = "cmp"    -> Text(e.l, 5) \o <<Word(e.op)>> \o Text(e.r, 5)
          [] e.k = "in"     -> Text(e.l, 5) \o <<Word("in"), Special("(")>>
                               \o FlattenSeq([i \in DOMAIN e.vs |->
                                    (IF i = 1 THEN <<>> ELSE <<Special(",")>>) \o Text(e.vs[i], 7)])
                               \o <<Special(")")>>
          [] e.k \in {"bin", "arith"} ->
               Text(e.l, Level(e)) \o <<Word(e.op)>> \o Text(e.r, Level(e) + 1)
          [] e.k = "not"    -> <<Word("not")>> \o Text(e.x, 4)
          [] e.k = "lambda" -> PathText(e.nav) \o <<Special("/"), Call(e.op), Special("(")>>
                               \o (IF e.x = NoPred THEN <<>>
                                   ELSE <<Word(e.var), Special(":")>> \o Text(e.x, 1))
                               \o <<Special(")")>>
  IN IF Level(e) < level THEN <<Special("(")>> \o inner \o <<Special(")")>> ELSE inner

-----------------------------------------------------------------------------
(* Tokens.                                                                 *)

Comparisons == {"eq", "ne", "gt", "ge", "lt", "le"}
Arithmetics == {"add", "sub", "mul", "div", "mod", "divby"}
Callable == {"add", "sub", "mul", "div", "mod", "has"}

\* classifyKeywordFast: keywords are recognised in any case under 4.01 and
\* only in lower case under 4.0.
Keyword(w, recognised) ==
  CASE ~recognised                    -> "identifier"
    [] w \in {"and", "or"}            -> "logical"
    [] w = "not"                      -> "not"
    [] w \in Comparisons \cup {"in", "has"} -> "operator"
    [] w \in Arithmetics              -> "arithmetic"
    [] w = "null"                     -> "null"
    [] OTHER                          -> "identifier"

\* tokenizeIdentifierOrKeyword: an arithmetic word that touches a parenthesis
\* is the name of a function.
WordToken(x, recognised) ==
  [t |-> IF x.glued /\ x.w \in Callable THEN "identifier" ELSE Keyword(x.w, recognised),
   w |-> x.w, n |-> 0, name |-> <<>>]

NextToken(x, recognised) ==
  CASE x.c = "word"    -> WordToken(x, recognised)
    [] x.c = "special" -> [t |-> x.w, w |-> x.w, n |-> 0, name |-> <<>>]
    [] OTHER           -> [t |-> x.c, w |-> "", n |-> x.n, name |-> x.name]

TokenizeAll(text, recognised) == [i \in DOMAIN text |-> NextToken(text[i], recognised)]

-----------------------------------------------------------------------------
(* The parser.  A result is the node and the index of the next token.      *)

Got(n, i) == [ok |-> TRUE, n |-> n, i |-> i]
Failed == [ok |-> FALSE]
IsToken(ts, i, t) == i <= Len(ts) /\ ts[i].t = t
IsWord(ts, i, t, ws) == IsToken(ts, i, t) /\ ts[i].w \in ws

RECURSIVE parseOr(_, _), parseAnd(_, _), parseNot(_, _), parseComparison(_, _),
          parseArithmetic(_, _), parseTerm(_, _), parsePrimary(_, _), Chain(_, _, _),
          parseCollection(_, _, _), parsePropertyPath(_, _, _)

\* What is made of a result: nothing of a failure, and of a node that is not
\* followed by the closing parenthesis neither.
Then(x, Make(_)) == IF x.ok THEN Got(Make(x.n), x.i) ELSE Failed
Closed(ts, x, Make(_)) == IF x.ok /\ IsToken(ts, x.i, ")") THEN Got(Make(x.n), x.i + 1) ELSE Failed

\* The loop shared by the four left-associative levels.
Operators(level) ==
  CASE level = "or"  -> {"or"}
    [] level = "and" -> {"and"}
    [] level = "add" -> {"add", "sub"}
    [] level = "mul" -> {"mul", "div", "divby", "mod"}
parseOperand(ts, i, level) ==
  CASE level = "or"  -> parseAnd(ts, i)
    [] level = "and" -> parseNot(ts, i)
    [] level = "add" -> parseTerm(ts, i)
    [] level = "mul" -> parsePrimary(ts, i)
Logical(level) == level \in {"or", "and"}
Joint(op, l, r, level) == IF Logical(level) THEN Bin(op, l, r) ELSE Arith(op, l, r)
Chain(ts, left, level) ==
  IF ~left.ok \/ ~IsWord(ts, left.i, IF Logical(level) THEN "logical" ELSE "arithmetic", Operators(level)) THEN left
  ELSE Chain(ts, Then(parseOperand(ts, left.i + 1, level), LAMBDA r : Joint(ts[left.i].w, left.n, r, level)), level)

parseOr(ts, i) == Chain(ts, parseAnd(ts, i), "or")
parseAnd(ts, i) == Chain(ts, parseNot(ts, i), "and")

parseNot(ts, i) ==
  IF IsToken(ts, i, "not") THEN Then(parseComparison(ts, i + 1), Not) ELSE parseComparison(ts, i)

Compared(ts, l) ==
  CASE ~l.ok \/ ~IsToken(ts, l.i, "operator") -> l
    [] l.ok /\ IsWord(ts, l.i, "operator", {"in"}) ->
         IF IsToken(ts, l.i + 1, "(") THEN Then(parseCollection(ts, l.i + 2, <<>>), LAMBDA c : In(l.n, c)) ELSE Failed
    [] OTHER -> Then(parseArithmetic(ts, l.i + 1), LAMBDA r : Cmp(ts[l.i].w, l.n, r))
parseComparison(ts, i) == Compared(ts, parseArithmetic(ts, i))

Collected(ts, v, vs) ==
  IF v.ok /\ IsToken(ts, v.i, ",") THEN parseCollection(ts, v.i + 1, Append(vs, v.n))
  ELSE Closed(ts, v, LAMBDA n : Append(vs, n))
parseCollection(ts, i, vs) ==
  IF vs = <<>> /\ IsToken(ts, i, ")") THEN Got(vs, i + 1) ELSE Collected(ts, parsePrimary(ts, i), vs)

parseArithmetic(ts, i) == Chain(ts, parseTerm(ts, i), "add")
parseTerm(ts, i) == Chain(ts, parsePrimary(ts, i), "mul")

\* parseFunctionCall, for the functions of one and of two arguments.
Called(ts, f, x) ==
  CASE f # "contains" -> Closed(ts, x, LAMBDA n : Fn(f, n))
    [] f = "contains" -> IF x.ok /\ IsToken(ts, x.i, ",")
                         THEN Closed(ts, parseOr(ts, x.i + 1), LAMBDA v : Like(x.n, v)) ELSE Failed
parseFunctionCall(ts, f, i) == Called(ts, f, parseOr(ts, i))

parseLambdaExpression(ts, p, op, i) ==
  CASE IsToken(ts, i, ")") -> Got(Lambda(op, p, "", NoPred), i + 1)
    [] IsToken(ts, i, "identifier") /\ IsToken(ts, i + 1, ":") ->
         Closed(ts, parseOr(ts, i + 2), LAMBDA x : Lambda(op, p, ts[i].w, x))
    [] OTHER -> Failed

\* parsePropertyPath: any or all before a parenthesis makes a lambda.
parsePropertyPath(ts, p, i) ==
  CASE ~IsToken(ts, i, "/") -> Got(Id(p), i)
    [] IsToken(ts, i, "/") /\ ~IsToken(ts, i + 1, "identifier") -> Failed
    [] OTHER -> IF ts[i + 1].w \in {"any", "all"} /\ IsToken(ts, i + 2, "(")
                THEN parseLambdaExpression(ts, p, ts[i + 1].w, i + 3)
                ELSE parsePropertyPath(ts, Append(p, ts[i + 1].w), i + 2)

parsePrimary(ts, i) ==
  CASE i > Len(ts) -> Failed
    [] IsToken(ts, i, "(") -> Closed(ts, parseOr(ts, i + 1), Group)
    [] i <= Len(ts) /\ ts[i].t \in {"digits", "quoted"} ->
         Got([k |-> "lit", n |-> ts[i].n, name |-> ts[i].name], i + 1)
    [] IsToken(ts, i, "null") -> Got(Nil, i + 1)
    [] IsToken(ts, i, "identifier") ->
         IF IsToken(ts, i + 1, "(") THEN parseFunctionCall(ts, ts[i].w, i + 2)
         ELSE parsePropertyPath(ts, <<ts[i].w>>, i + 1)
    [] OTHER -> Failed

\* Parse: every token must have been consumed.
Complete(ts, x) == IF x.ok /\ x.i = Len(ts) + 1 THEN x ELSE Failed
Parse(ts) == Complete(ts, parseOr(ts, 1))
=============================================================================
