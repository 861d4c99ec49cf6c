---------------------------- MODULE FilterQuery -----------------------------
(***************************************************************************)
(* A collection request with $filter, from the text to the rows it         *)
(* selects: the conversion of the parsed expression (internal/query), then *)
(* either the WHERE condition of apply_filter.go under the three-valued    *)
(* logic of SQL, or the two-valued evaluator that entity_cache.go runs     *)
(* over a cached snapshot.  What a filter means is stated on the           *)
(* expression itself (Meaning) and compared with what was selected.        *)
(***************************************************************************)
EXTENDS FilterSyntax

CONSTANTS
  Filters,   \* the expressions clients send
  Rows,      \* rows of the table: [a, b, ref, items]
  Trimmed    \* what the SQL function TRIM makes of each value

Null == -1
NoRef == [none |-> TRUE]

ASSUME FilterAssumption == \A r \in Rows : {r.a, r.b} \subseteq DOMAIN Trimmed \cup {Null}

VARIABLES
  filter,     \* the expression the client means
  odata401,   \* the request negotiated OData 4.01
  upper,      \* the client writes keywords in upper case
  cached,     \* the entity set has a fresh snapshot
  pc,
  tree,       \* the parsed expression
  expr,       \* the converted FilterExpression
  selected    \* the rows of the answer

vars == <<filter, odata401, upper, cached, pc, tree, expr, selected>>

-----------------------------------------------------------------------------
(* Conversion of the syntax tree to a FilterExpression.                    *)

Error == [k |-> "error"]
Value(n, name) == [k |-> "value", n |-> n, name |-> name]
None == [k |-> "none"]
Columns == {<<"a">>, <<"b">>}
RefColumns == {<<"ref", "a">>}
CountPath == <<"items", "$count">>

\* replaceRangeVariableInAST: the prefix goes, also inside a nested lambda.
RECURSIVE Unprefixed(_, _)
Unprefixed(e, var) ==
  CASE e.k = "id"  -> IF e.p = <<var>> THEN Id(<<"$it">>)
                      ELSE IF Head(e.p) = var THEN Id(Tail(e.p)) ELSE e
    [] e.k \in {"bin", "arith", "cmp"} ->
         [e EXCEPT !.l = Unprefixed(e.l, var), !.r = Unprefixed(e.r, var)]
    [] e.k \in {"not", "group", "fn", "like"} -> [e EXCEPT !.x = Unprefixed(e.x, var)]
    [] e.k = "in"     -> [e EXCEPT !.l = Unprefixed(e.l, var)]
    [] e.k = "lambda" -> [e EXCEPT !.nav = Unprefixed(Id(e.nav), var).p,
                                   !.x = IF e.x = NoPred THEN NoPred
                                         ELSE Unprefixed(e.x, var)]
    [] OTHER -> e

RECURSIVE Ungrouped(_)
Ungrouped(e) == IF e.k = "group" THEN Ungrouped(e.x) ELSE e

\* propertyAllowedInFilter; without metadata, in a lambda, everything is.
Allowed(p, inLambda) == inLambda \/ p \in Columns \cup RefColumns \cup {CountPath}

RECURSIVE Converted(_, _), ConvertedCall(_, _)

\* convertFunctionCallExprWithContext: a single-argument function keeps only
\* the property of a nested call, contains keeps the call.
ConvertedCall(e, inLambda) ==
  LET x == e.x
  IN CASE x.k = "id" -> IF Allowed(x.p, inLambda) /\ (inLambda \/ x.p # CountPath)
                        THEN [k |-> "fn", f |-> IF e.k = "fn" THEN e.f ELSE "contains", p |-> x.p]
                        ELSE Error
       [] x.k = "fn" -> LET inner == ConvertedCall(x, inLambda)
                        IN IF inner = Error THEN Error
                           ELSE IF e.k = "fn" THEN [inner EXCEPT !.f = e.f] ELSE inner
       [] OTHER -> Error

\* convertBinaryArithmeticExprWithContext.  A left operand that is neither a
\* property nor arithmetic leaves no trace.
RECURSIVE ConvertedArithmetic(_, _)
ConvertedArithmetic(e, inLambda) ==
  LET l == IF e.l.k = "group" THEN e.l.x ELSE e.l
      r == IF e.r.k = "group" THEN e.r.x ELSE e.r
      left == IF l.k = "arith" THEN ConvertedArithmetic(l, inLambda) ELSE None
      right == IF r.k = "arith" THEN ConvertedArithmetic(r, inLambda) ELSE None
  IN IF \/ l.k = "id" /\ ~Allowed(l.p, inLambda)
        \/ r.k \notin {"lit", "nil", "id", "arith"} \/ Error \in {left, right}
     THEN Error
     ELSE [k |-> "arith", op |-> e.op, p |-> IF l.k = "id" THEN l.p ELSE <<>>,
           v |-> CASE r.k = "lit" -> Value(r.n, r.name)
                   [] r.k = "id"  -> Value(StrOf(r.p), r.p)
                   [] OTHER       -> None,
           l |-> left, r |-> right]

\* extractValueFromComparisonWithContext: a property on the right is its name.
RightValue(e, inLambda) ==
  CASE e.k = "lit" -> Value(e.n, e.name)
    [] e.k = "nil" -> None
    [] e.k = "id"  -> Value(StrOf(e.p), e.p)
    [] e.k = "fn"  -> ConvertedCall(e, inLambda)
    [] OTHER       -> Error

\* convertComparisonExprWithContext.
ConvertedComparison(e, inLambda) ==
  LET l == Ungrouped(e.l)
      v == RightValue(e.r, inLambda)
      left == CASE l.k = "fn"    -> ConvertedCall(l, inLambda)
                [] l.k = "like"  -> LET call == ConvertedCall(l, inLambda)
                                    IN IF call = Error THEN Error
                                       ELSE [call EXCEPT !.f = "contains"]
                [] l.k = "arith" -> ConvertedArithmetic(l, inLambda)
                [] OTHER         -> None
  IN CASE Error \in {v, left} -> Error
       [] left # None -> [k |-> "fun", left |-> left, op |-> e.op, v |-> v, not |-> FALSE]
       [] l.k = "id" /\ Allowed(l.p, inLambda) ->
            [k |-> "cmp", p |-> l.p, op |-> e.op, v |-> v, not |-> FALSE]
       [] OTHER -> Error

ConvertedIn(e, inLambda) ==
  LET l == Ungrouped(e.l)
  IN IF \/ l.k # "id" \/ e.vs = <<>> \/ ~Allowed(l.p, inLambda)
        \/ \E i \in DOMAIN e.vs : e.vs[i].k \notin {"lit", "nil"}
     THEN Error
     ELSE [k |-> "in", p |-> l.p, not |-> FALSE,
           vs |-> {IF e.vs[i].k = "nil" THEN Null ELSE e.vs[i].n : i \in DOMAIN e.vs}]

ConvertedContains(e, inLambda) ==
  LET call == ConvertedCall(e, inLambda)
  IN IF call = Error \/ e.v.k \notin {"lit", "id"} THEN Error
     ELSE [k |-> "like", not |-> FALSE,
           left |-> IF e.x.k = "fn" THEN call ELSE None, p |-> call.p,
           v |-> IF e.v.k = "lit" THEN Value(e.v.n, e.v.name) ELSE Value(StrOf(e.v.p), e.v.p)]

ConvertedLambda(e) ==
  LET x == IF e.x = NoPred THEN None ELSE Converted(Unprefixed(e.x, e.var), TRUE)
  IN IF x = Error THEN Error
     ELSE [k |-> "lambda", op |-> e.op, nav |-> e.nav, x |-> x, not |-> FALSE]

NegatedLeaf(x) == IF x.k = "logical" THEN x ELSE [x EXCEPT !.not = TRUE]

\* convertUnaryExprWithContext: IsNot is set, whatever it was.
Negated(x) == [x EXCEPT !.not = TRUE]

Converted(e, inLambda) ==
  CASE e.k \in {"bin", "arith"} ->
         LET l == Converted(e.l, inLambda)
             r == Converted(e.r, inLambda)
         IN IF Error \in {l, r} THEN Error
            ELSE [k |-> "logical", op |-> e.op, l |-> l, r |-> r, not |-> FALSE]
    [] e.k = "not"    -> LET x == Converted(e.x, inLambda)
                         IN IF x = Error THEN Error ELSE Negated(x)
    [] e.k = "cmp"    -> ConvertedComparison(e, inLambda)
    [] e.k = "in"     -> ConvertedIn(e, inLambda)
    [] e.k = "like"   -> ConvertedContains(e, inLambda)
    [] e.k = "lambda" -> ConvertedLambda(e)
    [] e.k = "group"  -> Converted(e.x, inLambda)
    [] e.k = "id"     -> [k |-> "cmp", p |-> e.p, op |-> "eq", v |-> Value(1, <<>>), not |-> FALSE]
    [] e.k \in {"lit", "nil"} -> [k |-> "bare", not |-> FALSE]
    [] e.k = "fn"     -> IF ConvertedCall(e, inLambda) = Error THEN Error
                         ELSE [k |-> "call", not |-> FALSE]

-----------------------------------------------------------------------------
(* The condition in SQL.  Besides true, false and unknown, a condition can *)
(* be missing: alone it is no WHERE at all, inside another condition the   *)
(* statement does not parse.                                               *)

Missing == "missing"
Broken == "broken"
Sound == {"T", "F", "U"}
Truth(b) == IF b THEN "T" ELSE "F"

And3(x, y) == IF "F" \in {x, y} THEN "F" ELSE IF "U" \in {x, y} THEN "U" ELSE "T"
Or3(x, y) == IF "T" \in {x, y} THEN "T" ELSE IF "U" \in {x, y} THEN "U" ELSE "F"
Not3(x) == IF x = "U" THEN "U" ELSE Truth(x = "F")
Join3(op, x, y) == IF op = "and" THEN And3(x, y) ELSE Or3(x, y)

Ordered(op, x, y) ==
  CASE op = "eq" -> x = y  [] op = "ne" -> x # y
    [] op = "lt" -> x < y  [] op = "le" -> x <= y
    [] op = "gt" -> x > y  [] op = "ge" -> x >= y

Compare3(op, x, y) == IF Null \in {x, y} THEN "U" ELSE Truth(Ordered(op, x, y))

\* addNavigationJoins: a missing related row makes the joined columns NULL.
ColumnOf(p, row) ==
  CASE p = <<"a">> -> row.a
    [] p = <<"b">> -> row.b
    [] p \in RefColumns -> IF row.ref = NoRef THEN Null ELSE row.ref.a
    [] p = CountPath -> Cardinality(row.items)
    [] OTHER -> Null

\* buildFunctionSQL, for a string function and one that keeps its argument.
FunctionOf(f, x) == IF x = Null THEN Null ELSE IF f = "trim" THEN Trimmed[x] ELSE x

\* buildArithmeticSQL; a string counts 0 and a zero divisor makes NULL.
Computed(op, x, y) ==
  IF Null \in {x, y} \/ (op = "div" /\ y = 0) THEN Null
  ELSE CASE op = "add" -> x + y [] op = "sub" -> x - y
         [] op = "mul" -> x * y [] op = "div" -> x \div y

NoSQL == -9

\* buildComputeExpressionSQLWithArgs, clause by clause.
RECURSIVE ArithmeticOf(_, _)
ArithmeticOf(e, row) ==
  LET bound == IF e.v.name = <<>> THEN e.v.n ELSE 0
      l == ArithmeticOf(e.l, row)
      r == ArithmeticOf(e.r, row)
      whole == e.l = None /\ e.r = None
  IN CASE whole /\ e.v # None /\ e.p = <<>> -> bound
       [] whole /\ e.v # None /\ e.p \in Columns -> Computed(e.op, ColumnOf(e.p, row), bound)
       [] e.l # None /\ e.r = None /\ e.v # None ->
            IF l = NoSQL THEN NoSQL ELSE Computed(e.op, l, bound)
       [] e.l # None /\ e.r # None ->
            IF NoSQL \in {l, r} THEN NoSQL ELSE Computed(e.op, l, r)
       [] OTHER -> NoSQL

LeftOf(e, row) ==
  CASE e.k = "arith" -> ArithmeticOf(e, row)
    [] e.f = "contains" -> NoSQL
    [] OTHER -> FunctionOf(e.f, ColumnOf(e.p, row))

Matches(x, v) == IF x = Null THEN "U" ELSE Truth(v = 0 \/ x = v)
IsIn(x, vs) == IF x = Null THEN "U" ELSE IF x \in vs THEN "T"
               ELSE IF Null \in vs THEN "U" ELSE "F"

\* buildStandardComparison and tryBuildRightSideFunctionComparison: a string
\* that names a property is that property.
StandardComparison(e, row) ==
  LET x == ColumnOf(e.p, row)
  IN CASE e.v.k = "fn" -> Compare3(e.op, x, FunctionOf(e.v.f, ColumnOf(e.v.p, row)))
       [] e.v = None   -> IF e.op \in {"eq", "ne"} THEN Truth((x = Null) = (e.op = "eq")) ELSE "U"
       [] e.v.name \in Columns \cup RefColumns -> Compare3(e.op, x, ColumnOf(e.v.name, row))
       [] OTHER -> Compare3(e.op, x, e.v.n)

\* buildFunctionComparison; null is bound like any other value.
FunctionComparison(e, row) ==
  LET x == LeftOf(e.left, row)
  IN CASE x = NoSQL     -> Missing
       [] e.v.k = "fn"  -> Compare3(e.op, x, FunctionOf(e.v.f, ColumnOf(e.v.p, row)))
       [] e.v = None    -> "U"
       [] e.v.name \in Columns \cup RefColumns -> Compare3(e.op, x, ColumnOf(e.v.name, row))
       [] OTHER -> Compare3(e.op, x, e.v.n)

\* Whether a statement parses does not depend on the rows it meets.
Probe == [a |-> 0, b |-> 0, ref |-> NoRef, items |-> {}]

\* buildLogicalCondition of both kinds.
Connected(op, x, y) ==
  CASE op \notin {"and", "or"} -> Missing
    [] op \in {"and", "or"} /\ {x, y} \subseteq Sound -> Join3(op, x, y)
    [] OTHER -> Broken

RECURSIVE LambdaCondition(_, _), LambdaSQL(_, _)

\* buildFilterConditionForLambda: plain columns only, and IsNot is not read.
LambdaSQL(e, row) ==
  CASE e.k = "logical" -> Connected(e.op, LambdaSQL(e.l, row), LambdaSQL(e.r, row))
    [] e.k = "lambda" -> LambdaCondition(e, row)
    [] e.k \in {"in", "call"} -> Missing
    [] e.k = "bare" -> Broken
    [] e.k = "fun" -> LET x == LeftOf(e.left, row)
                      IN CASE x = NoSQL -> Missing
                           [] e.v = None -> "U"
                           [] e.v.k = "fn" -> Broken
                           [] OTHER -> Compare3(e.op, x, e.v.n)
    [] e.k = "like" -> Matches(IF e.left = None THEN ColumnOf(e.p, row) ELSE LeftOf(e.left, row), e.v.n)
    [] e.k = "cmp" -> CASE e.p \notin Columns \/ e.v.k = "fn" -> Broken
                        [] e.v = None -> IF e.op \in {"eq", "ne"}
                                         THEN Truth((row[e.p[1]] = Null) = (e.op = "eq")) ELSE "U"
                        [] OTHER -> Compare3(e.op, row[e.p[1]], e.v.n)

\* buildLambdaCondition: EXISTS, and NOT EXISTS of a counterexample.
Exists(e, status, row) ==
  CASE status \notin Sound -> status
    [] status \in Sound /\ e.op = "any" -> Truth(\E c \in row.items : LambdaSQL(e.x, c) = "T")
    [] status \in Sound /\ e.op = "all" -> Truth(~\E c \in row.items : LambdaSQL(e.x, c) = "F")
LambdaCondition(e, row) ==
  CASE e.nav # <<"items">> -> Missing
    [] e.nav = <<"items">> /\ e.x = None -> Truth(e.op = "all" \/ row.items # {})
    [] OTHER -> Exists(e, LambdaSQL(e.x, Probe), row)

\* buildComparisonConditionWithDB.
ComparisonCondition(e, row) ==
  CASE e.k = "lambda" -> LambdaCondition(e, row)
    [] e.k = "fun"    -> FunctionComparison(e, row)
    [] e.k = "like"   -> Matches(IF e.left = None THEN ColumnOf(e.p, row) ELSE LeftOf(e.left, row), e.v.n)
    [] e.k = "in"     -> IsIn(ColumnOf(e.p, row), e.vs)
    [] e.k = "cmp"    -> StandardComparison(e, row)
    [] OTHER          -> Missing

RECURSIVE FilterCondition(_, _)

\* buildFilterConditionWithDB and buildLogicalConditionWithDB.
Signed(e, plain) ==
  CASE ~e.not \/ (e.k = "logical" /\ plain = Missing) -> plain
    [] e.not /\ plain \in Sound -> Not3(plain)
    [] OTHER -> Broken
FilterCondition(e, row) ==
  Signed(e, IF e.k = "logical" THEN Connected(e.op, FilterCondition(e.l, row), FilterCondition(e.r, row))
            ELSE ComparisonCondition(e, row))

-----------------------------------------------------------------------------
(* The evaluator over a cached snapshot.                                   *)

\* filterSupported and resolveScalarPropertyIndex; b is a string.  What is on
\* the right is not looked at.
RECURSIVE Supported(_)
Supported(e) ==
  CASE e.k = "logical" -> e.op \in {"and", "or"} /\ Supported(e.l) /\ Supported(e.r)
    [] e.k \in {"cmp", "in"} -> e.p \in Columns
    [] e.k = "like" -> e.left = None /\ e.p = <<"b">>
    [] OTHER -> FALSE

\* compareMapValue: what is no number is compared as text, and the text of a
\* NULL is <nil>, which sorts after the digits and before the letters.
Printed(x) == IF x = Null THEN 7 ELSE x
PrintedValue(v) == IF v = None THEN 7 ELSE IF v.k = "fn" THEN 9 ELSE v.n

\* prepareFilter and evalPreparedFilter: two-valued.
RECURSIVE Holds(_, _)
HoldsLeafNot(e, row) ==
  CASE e.k = "logical" -> IF e.op = "and" THEN Holds(e.l, row) /\ Holds(e.r, row)
                          ELSE Holds(e.l, row) \/ Holds(e.r, row)
    [] e.k = "in"   -> (row[e.p[1]] \in e.vs) # e.not
    [] e.k = "cmp"  -> Ordered(e.op, Printed(row[e.p[1]]), PrintedValue(e.v)) # e.not
    [] e.k = "like" -> (e.v.n \in {0, row[e.p[1]]}) # e.not

Holds(e, row) ==
  LET x == IF e.k = "logical" THEN 0 ELSE Printed(row[e.p[1]])
      plain == CASE e.k = "logical" -> IF e.op = "and" THEN Holds(e.l, row) /\ Holds(e.r, row)
                                       ELSE Holds(e.l, row) \/ Holds(e.r, row)
                 [] e.k = "in"   -> \E v \in e.vs : x = Printed(v)
                 [] e.k = "cmp"  -> Ordered(e.op, x, PrintedValue(e.v))
                 [] e.k = "like" -> e.v.n = 0 \/ x = e.v.n
  IN plain # e.not

-----------------------------------------------------------------------------
(* A request.                                                              *)

Init ==
  /\ filter \in Filters
  /\ odata401 \in BOOLEAN /\ upper \in BOOLEAN /\ cached \in BOOLEAN
  /\ pc = "received"
  /\ tree = None /\ expr = None /\ selected = {}

Read == Parse(TokenizeAll(Text(filter, 1), odata401 \/ ~upper))

\* parseFilter: text that cannot be read is a 400.
ParseFilter ==
  /\ pc = "received"
  /\ \E x \in {Read} :
       IF x.ok THEN tree' = x.n /\ pc' = "parsed"
       ELSE tree' = None /\ pc' = "rejected"
  /\ UNCHANGED <<filter, odata401, upper, cached, expr, selected>>

\* ASTToFilterExpressionWithComputed: what cannot be converted is a 400.
ConvertFilter ==
  /\ pc = "parsed"
  /\ \E e \in {Converted(tree, FALSE)} :
       IF e = Error THEN expr' = None /\ pc' = "rejected"
       ELSE expr' = e /\ pc' = "converted"
  /\ UNCHANGED <<filter, odata401, upper, cached, tree, selected>>

\* queryCollectionSnapshot.
AnswerFromCache ==
  /\ pc = "converted" /\ cached /\ Supported(expr)
  /\ selected' = {r \in Rows : Holds(expr, r)}
  /\ pc' = "answered"
  /\ UNCHANGED <<filter, odata401, upper, cached, tree, expr>>

\* applyFilter: no condition is no WHERE, one that does not parse is a 500.
AnswerFromSQL ==
  /\ pc = "converted" /\ ~(cached /\ Supported(expr))
  /\ \E status \in {FilterCondition(expr, Probe)} :
       IF status = Broken THEN selected' = {} /\ pc' = "failed"
       ELSE /\ selected' = {r \in Rows : status = Missing \/ FilterCondition(expr, r) = "T"}
            /\ pc' = "answered"
  /\ UNCHANGED <<filter, odata401, upper, cached, tree, expr>>

Next == ParseFilter \/ ConvertFilter \/ AnswerFromCache \/ AnswerFromSQL

Spec == Init /\ [][Next]_vars

-----------------------------------------------------------------------------
(* What a filter means, on the expression itself.  env binds the range     *)
(* variables of the lambdas around it.                                     *)

Resolved(p, row, env) ==
  IF Head(p) \in DOMAIN env THEN ColumnOf(Tail(p), env[Head(p)]) ELSE ColumnOf(p, row)

RECURSIVE ValueOf(_, _, _), Meaning(_, _, _)
ValueOf(e, row, env) ==
  CASE e.k = "lit"   -> e.n
    [] e.k = "nil"   -> Null
    [] e.k = "id"    -> Resolved(e.p, row, env)
    [] e.k = "fn"    -> FunctionOf(e.f, ValueOf(e.x, row, env))
    [] e.k = "arith" -> Computed(e.op, ValueOf(e.l, row, env), ValueOf(e.r, row, env))

Meaning(e, row, env) ==
  CASE e.k = "bin"  -> Join3(e.op, Meaning(e.l, row, env), Meaning(e.r, row, env))
    [] e.k = "not"  -> Not3(Meaning(e.x, row, env))
    [] e.k = "cmp"  -> LET x == ValueOf(e.l, row, env)
                           y == ValueOf(e.r, row, env)
                       IN IF e.r = Nil /\ e.op \in {"eq", "ne"} THEN Truth((x = Null) = (e.op = "eq"))
                          ELSE Compare3(e.op, x, y)
    [] e.k = "in"   -> IsIn(ValueOf(e.l, row, env), {ValueOf(e.vs[i], row, env) : i \in DOMAIN e.vs})
    [] e.k = "like" -> Matches(ValueOf(e.x, row, env), ValueOf(e.v, row, env))
    [] e.k = "id"   -> Compare3("eq", Resolved(e.p, row, env), 1)
    [] e.k = "lambda" ->
         LET of == IF Head(e.nav) \in DOMAIN env THEN env[Head(e.nav)].items ELSE row.items
             In3(c) == Meaning(e.x, row, [v \in DOMAIN env \cup {e.var} |->
                                            IF v = e.var THEN c ELSE env[v]])
         IN CASE e.x = NoPred  -> Truth(e.op = "all" \/ of # {})
              [] e.op = "any" -> Truth(\E c \in of : In3(c) = "T")
              [] e.op = "all" -> Truth(\A c \in of : In3(c) # "F")

\* The fragment the library translates exactly.  vars are the range variables
\* in scope, the last the innermost.
Operand(e, vs) == IF vs = <<>> THEN e.p \in Columns \cup RefColumns \cup {CountPath}
                  ELSE Len(e.p) = 2 /\ Head(e.p) = Last(vs) /\ Tail(e.p) \in Columns

RECURSIVE ArithmeticPlain(_, _)
ArithmeticPlain(e, vs) ==
  /\ e.k = "arith" /\ e.r.k = "lit"
  /\ \/ e.l.k = "id" /\ Operand(e.l, vs) /\ (vs = <<>> => e.l.p \in Columns)
     \/ ArithmeticPlain(e.l, vs)

LeftPlain(e, vs) ==
  \/ e.k = "id" /\ Operand(e, vs)
  \/ e.k = "fn" /\ e.x.k = "id" /\ Operand(e.x, vs) /\ e.x.p # CountPath
  \/ ArithmeticPlain(e, vs)

RightPlain(e, vs) ==
  \/ e.k = "lit" /\ e.name = <<>>
  \/ vs = <<>> /\ e.k = "id" /\ e.p \in Columns
  \/ vs = <<>> /\ e.k = "fn" /\ e.x.k = "id" /\ e.x.p \in Columns

RECURSIVE Plain(_, _)
Plain(e, vs) ==
  CASE e.k = "bin" -> Plain(e.l, vs) /\ Plain(e.r, vs)
    [] e.k = "not" -> vs = <<>> /\ e.x.k # "not" /\ Plain(e.x, vs)
    [] e.k = "cmp" -> /\ LeftPlain(e.l, vs)
                      /\ RightPlain(e.r, vs) \/ (e.r = Nil /\ e.l.k = "id")
    [] e.k = "in"  -> vs = <<>> /\ e.vs # <<>> /\ e.l.k = "id" /\ Operand(e.l, vs)
    [] e.k = "like" -> e.x.k = "id" /\ Operand(e.x, vs) /\ e.x.p # CountPath /\ e.v.k = "lit"
    [] e.k = "lambda" -> /\ IF vs = <<>> THEN e.nav = <<"items">> ELSE e.nav = <<Last(vs), "items">>
                         /\ e.x # NoPred => Plain(e.x, Append(vs, e.var))
    [] OTHER -> FALSE

-----------------------------------------------------------------------------
(* Properties.                                                             *)

RECURSIVE Bare(_)
Bare(e) ==
  CASE e.k = "group" -> Bare(e.x)
    [] e.k \in {"bin", "arith", "cmp"} -> [e EXCEPT !.l = Bare(e.l), !.r = Bare(e.r)]
    [] e.k \in {"not", "fn", "like"} -> [e EXCEPT !.x = Bare(e.x)]
    [] e.k = "in" -> [e EXCEPT !.l = Bare(e.l)]
    [] e.k = "lambda" /\ e.x # NoPred -> [e EXCEPT !.x = Bare(e.x)]
    [] OTHER -> e

(* Precedence and associativity: whatever tree the parser builds from the  *)
(* text of an expression written with no more parentheses than OData's     *)
(* precedence rules ask for, it is that expression, and only keywords the  *)
(* negotiated version does not know can make it a 400.                     *)
ParserInverts ==
  /\ tree # None => Bare(tree) = filter
  /\ pc = "rejected" /\ tree = None => upper /\ ~odata401

(* An answered request selects the rows on which its filter is true, not   *)
(* those on which it is false or unknown, through the parser, conversion,  *)
(* three-valued SQL, EXISTS subqueries and negation, for every filter of   *)
(* the fragment the library translates exactly; such a filter is never     *)
(* rejected by the conversion and never a statement the database refuses.  *)
(* And the parser inverts the way every filter is written (ParserInverts). *)
FilterMeansWhatItSays ==
  /\ ParserInverts
  /\ Plain(filter, <<>>) =>
       /\ pc # "failed" /\ (pc = "rejected" => tree = None)
       /\ pc = "answered" /\ ~(cached /\ Supported(expr)) =>
            selected = {r \in Rows : Meaning(filter, r, [v \in {} |-> r]) = "T"}

\* Comparisons on which text order and SQL disagree: a NULL on either side and
\* a right-hand side that is not a literal.
RECURSIVE LiteralOnly(_)
LiteralOnly(e) ==
  CASE e.k = "logical" -> LiteralOnly(e.l) /\ LiteralOnly(e.r)
    [] e.k = "cmp" -> e.v.k = "value" /\ e.v.name = <<>>
    [] e.k = "like" -> e.v.name = <<>>
    [] e.k = "in" -> Null \notin e.vs

(* A snapshot answers like the table: on rows without NULLs the in-memory  *)
(* evaluator accepts exactly the rows the WHERE condition selects, for     *)
(* every filter it claims to support that compares with literals.          *)
SnapshotAgreesWithSQL ==
  pc = "answered" /\ cached /\ Supported(expr) /\ LiteralOnly(expr) =>
    \A r \in Rows : Null \notin {r.a, r.b} =>
      (r \in selected <=> FilterCondition(expr, r) = "T")
=============================================================================
