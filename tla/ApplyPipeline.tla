--------------------------- MODULE ApplyPipeline ----------------------------
(***************************************************************************)
(* A collection request with $apply.  internal/query folds the whole       *)
(* pipeline into the clauses of one SQL statement; the handler runs concat,*)
(* join and rollup itself and applies what follows them in memory.         *)
(* Sequential is what the pipeline means: every transformation takes the   *)
(* rows of the one before it.                                              *)
(***************************************************************************)
EXTENDS Integers, Sequences, FiniteSets, SequencesExt, Bags

CONSTANTS
  Tables,     \* tables: sequences of rows [k, g, m, kids]
  Requests    \* [apply, options]: a pipeline and the other options [filter,
              \* orderby, skip, top], each a sequence of at most one

Null == -1
NoLimit == -1

VARIABLES
  table, apply, options, pc,
  branches,   \* pipelines that still have to run as SQL
  todo,       \* what is left of the current one
  stmt,       \* its statement so far
  rows,       \* rows collected so far
  tail,       \* transformations to apply in memory
  count       \* the value of $count

vars == <<table, apply, options, pc, branches, todo, stmt, rows, tail, count>>

-----------------------------------------------------------------------------
(* Rows are functions from column names to values.                         *)

Val(row, col) == IF col \in DOMAIN row THEN row[col] ELSE Null
With(row, col, v) == [c \in DOMAIN row \cup {col} |-> IF c = col THEN v ELSE row[c]]
Only(row, cols) == [c \in cols |-> Val(row, c)]
Where(rs, P(_)) == SelectSeq(rs, P)

\* Unknown is not true: a NULL passes no filter of SQL.
Passes(p, row) == LET v == Val(row, p.col)
                  IN v # Null /\ IF p.op = "gt" THEN v > p.v ELSE v = p.v

\* compareMapValue: in memory a NULL is the text <nil>, which sorts after
\* every number; a column that is not there passes nothing.
PassesInMemory(p, row) ==
  /\ p.col \in DOMAIN row
  /\ IF p.op = "gt" THEN row[p.col] = Null \/ row[p.col] > p.v ELSE row[p.col] = p.v

Precedes(order, a, b) ==
  \E i \in DOMAIN order :
    /\ \A j \in 1..(i - 1) : Val(a, order[j].col) = Val(b, order[j].col)
    /\ IF order[i].desc THEN Val(a, order[i].col) > Val(b, order[i].col)
       ELSE Val(a, order[i].col) < Val(b, order[i].col)

Sorted(rs, Before(_, _)) ==
  LET perm == SetToSortSeq(DOMAIN rs, LAMBDA i, j :
                Before(rs[i], rs[j]) \/ (~Before(rs[j], rs[i]) /\ i < j))
  IN [i \in DOMAIN rs |-> rs[perm[i]]]

Nat0(n) == IF n > 0 THEN n ELSE 0
Slice(rs, offset, limit) ==
  LET from == SubSeq(rs, offset + 1, Len(rs))
  IN IF limit = NoLimit \/ limit >= Len(from) THEN from ELSE SubSeq(from, 1, limit)

Total(vs) == FoldLeft(LAMBDA a, v : a + v, 0, vs)
Known(rs, col) == SelectSeq([i \in DOMAIN rs |-> Val(rs[i], col)], LAMBDA v : v # Null)

\* buildAggregateSQLInternal: SUM and MAX of nothing are NULL.
Aggregated(a, rs) ==
  LET vs == Known(rs, a.col)
  IN CASE a.method = "$count"        -> Len(rs)
       [] a.method = "count"         -> Len(vs)
       [] a.method = "countdistinct" -> Cardinality(ToSet(vs))
       [] vs = <<>>                  -> Null
       [] a.method = "sum"           -> Total(vs)
       [] a.method = "max"           -> CHOOSE v \in ToSet(vs) : \A w \in ToSet(vs) : w <= v

\* applyMapAggregate: the sum of nothing is 0.
AggregatedInMemory(a, rs) ==
  IF a.method = "sum" THEN Total(Known(rs, a.col)) ELSE Aggregated(a, rs)

Summary(aggs, rs, Agg(_, _)) ==
  [c \in {aggs[i].as : i \in DOMAIN aggs} |->
     Agg(aggs[CHOOSE i \in DOMAIN aggs : aggs[i].as = c], rs)]

Merged(a, b) == [c \in DOMAIN a \cup DOMAIN b |-> IF c \in DOMAIN b THEN b[c] ELSE a[c]]

\* The groups in order of first appearance, each a sequence of rows.
Groups(rs, props) ==
  LET key(i) == Only(rs[i], props)
      firsts == SelectSeq([i \in DOMAIN rs |-> i],
                          LAMBDA i : \A j \in 1..(i - 1) : key(j) # key(i))
  IN [n \in DOMAIN firsts |-> SelectSeq(rs, LAMBDA r : Only(r, props) = key(firsts[n]))]

CountAll == <<[method |-> "$count", col |-> "k", as |-> "$count"]>>
AggregatesOf(nested) ==
  IF nested = <<>> THEN CountAll
  ELSE FlattenSeq([i \in DOMAIN nested |-> IF nested[i].t = "aggregate" THEN nested[i].aggs ELSE <<>>])

-----------------------------------------------------------------------------
(* The statement.                                                          *)

Columns == {"k", "g", "m"}

Empty == [where |-> <<>>, keys |-> <<>>, group |-> {}, aggs |-> <<>>, compute |-> <<>>,
          having |-> <<>>, order |-> <<>>, offset |-> 0, limit |-> NoLimit,
          grouped |-> FALSE, rollup |-> <<>>]

\* The SELECT list applies to a row, GORM's Select having replaced the one before.
Projected(s, row) ==
  FoldLeft(LAMBDA r, c : With(r, c.as, IF Val(row, c.col) = Null THEN Null ELSE Val(row, c.col) + c.n),
           Only(row, Columns), s.compute)

PassAll(ps, row) == \A i \in DOMAIN ps : Passes(ps[i], row)
Base(s, rs) ==
  Where([i \in DOMAIN rs |-> Projected(s, rs[i])],
        LAMBDA r : PassAll(s.where, r) /\ \A i \in DOMAIN s.keys : r["k"] \in s.keys[i])
GroupRows(s, gs) ==
  [i \in DOMAIN gs |-> Merged(Only(gs[i][1], s.props), Summary(s.aggs, gs[i], Aggregated))]
Grouped(s, rs) ==
  CASE s.group # {}                     -> GroupRows(s, Groups(rs, s.group))
    [] s.group = {} /\ s.aggs # <<>>    -> <<Summary(s.aggs, rs, Aggregated)>>
    [] OTHER                            -> rs
Executed(s, rs) ==
  Slice(Sorted(Where(Grouped(s, Base(s, rs)), LAMBDA r : PassAll(s.having, r)),
               LAMBDA a, b : Precedes(s.order, a, b)),
        s.offset, s.limit)

applyFilterBelow(s, p) == [s EXCEPT !.where = Append(@, p)]

\* applyFilter or, once the pipeline has grouped, applyHavingFilter.
applyFilter(s, p) == IF s.grouped THEN [s EXCEPT !.having = Append(@, p)]
                     ELSE [s EXCEPT !.where = Append(@, p)]

applyOrderBy(s, o) == [s EXCEPT !.order = Append(@, o)]

\* applyOffsetWithLimit and Limit: each replaces the value before.
applySkip(s, n) == [s EXCEPT !.offset = n]
applyTop(s, n) == [s EXCEPT !.limit = n]

\* applySetMeasureOrder appends to the ORDER BY that is already there.
applyCountSet(s, t) ==
  applyTop(applyOrderBy(s, [col |-> t.col, desc |-> t.kind = "topcount"]), t.n)

\* applySumThresholdSetTransformation runs the statement built so far.
SumsOf(rs, col) == [i \in DOMAIN rs |-> Total([j \in 1..i |-> Nat0(Val(rs[j], col))])]
FirstReaching(sums, n) ==
  IF \E i \in DOMAIN sums : sums[i] >= n
  THEN CHOOSE i \in DOMAIN sums : sums[i] >= n /\ \A j \in 1..(i - 1) : sums[j] < n
  ELSE Len(sums)
ReachingSum(s, t, found) ==
  IF found = <<>> THEN applyTop(s, 0)
  ELSE [s EXCEPT !.keys = Append(@, {found[i]["k"] : i \in 1..FirstReaching(SumsOf(found, t.col), t.n)})]
RunFor(s, t, rs) == ReachingSum(s, t, Executed(s, rs))
applySumSet(s, t, rs) ==
  IF t.n <= 0 THEN applyTop(s, 0)
  ELSE RunFor(applyOrderBy(s, [col |-> t.col, desc |-> t.kind = "topsum"]), t, rs)

\* applyGroupBy, applyGroupByAll and the nested transformations: GROUP BY
\* columns accumulate, the SELECT list is replaced, a nested filter is HAVING.
applyGroupBy(s, t) ==
  LET aggs == AggregatesOf(t.nested)
      selected == [s EXCEPT !.group = @ \cup t.props, !.aggs = aggs, !.grouped = TRUE]
      withProps == [c \in DOMAIN selected \cup {"props"} |-> IF c = "props" THEN t.props ELSE selected[c]]
  IN FoldLeft(LAMBDA x, n : CASE n.t = "filter"  -> applyFilter(x, n.p)
                              [] n.t = "orderby" -> applyOrderBy(x, n.o)
                              [] n.t = "skip"    -> applySkip(x, n.n)
                              [] n.t = "top"     -> applyTop(x, n.n)
                              [] OTHER           -> x,
              withProps, t.nested)

applyAggregate(s, t) == [s EXCEPT !.aggs = t.aggs, !.grouped = TRUE]

applyCompute(s, t) == [s EXCEPT !.compute = <<[col |-> t.col, n |-> t.n, as |-> t.as]>>]

\* applyGroupByWithRollup only leaves a note for the handler.
applyRollup(s, t) == [s EXCEPT !.rollup = <<t>>]

\* applyTransformations: what has no clause leaves the statement as it is.
applyTransformation(s, t, rs) ==
  CASE t.t = "filter"    -> applyFilter(s, t.p)
    [] t.t = "groupby"   -> applyGroupBy(s, t)
    [] t.t = "rollup"    -> applyRollup(s, t)
    [] t.t = "aggregate" -> applyAggregate(s, t)
    [] t.t = "compute"   -> applyCompute(s, t)
    [] t.t = "orderby"   -> applyOrderBy(s, t.o)
    [] t.t = "skip"      -> applySkip(s, t.n)
    [] t.t = "top"       -> applyTop(s, t.n)
    [] t.t = "countset"  -> applyCountSet(s, t)
    [] t.t = "sumset"    -> applySumSet(s, t, rs)
    [] OTHER             -> s

-----------------------------------------------------------------------------
(* In memory.                                                              *)

\* applyMapGroupBy: the nested transformations run on the rows of each group.
MapGroup(g, props, nested) ==
  LET step(acc, n) ==
        CASE n.t = "filter" -> [acc EXCEPT !.rs = Where(@, LAMBDA r : PassesInMemory(n.p, r))]
          [] n.t = "aggregate" -> LET s == Summary(n.aggs, acc.rs, AggregatedInMemory)
                                  IN [rs |-> <<s>>, row |-> Merged(acc.row, s)]
  IN FoldLeft(step, [rs |-> g, row |-> Only(g[1], props)], nested)

MapGroups(gs, props, nested) ==
  SelectSeq([i \in DOMAIN gs |-> MapGroup(gs[i], props, nested)], LAMBDA o : nested = <<>> \/ o.rs # <<>>)
RowsOf(outs) == [i \in DOMAIN outs |-> outs[i].row]
MapGroupBy(rs, props, nested) == RowsOf(MapGroups(Groups(rs, props), props, nested))

\* applyMapGroupByRollup: one pass per level, the rolled up columns NULL.
Padded(rs, cols) == [i \in DOMAIN rs |-> [c \in DOMAIN rs[i] \cup cols |-> Val(rs[i], c)]]
MapRollup(rs, t) ==
  FlattenSeq([i \in 1..(Len(t.levels) + IF t.total THEN 1 ELSE 0) |->
    Padded(MapGroupBy(rs, ToSet(SubSeq(t.levels, 1, Len(t.levels) - i + 1)), t.nested), ToSet(t.levels))])

\* evaluateMapComputeExpression: a property with an operator and a literal has
\* no children, so it is a property lookup.
MapCompute(rs, t) == [i \in DOMAIN rs |-> With(rs[i], t.as, Val(rs[i], t.col))]

MapAggregate(rs, t) == <<Summary(t.aggs, rs, AggregatedInMemory)>>

\* compareMapValues: <nil> sorts after the numbers, a missing column first.
MapPrecedes(o, a, b) ==
  LET rank(r) == CASE o.col \notin DOMAIN r -> -2 [] Val(r, o.col) = Null -> 99 [] OTHER -> r[o.col]
  IN IF o.desc THEN rank(a) > rank(b) ELSE rank(a) < rank(b)
MapOrderBy(rs, o) == Sorted(rs, LAMBDA a, b : MapPrecedes(o, a, b))

\* executeJoinApplyPipelineForMetadata: one row for each child, and for a
\* parent without children one row in an outer join.
MapJoin(rs, t) ==
  FlattenSeq([i \in DOMAIN rs |->
    LET kids == rs[i]["kids"]
        base == Only(rs[i], Columns)
    IN IF kids = <<>> THEN IF t.outer THEN <<With(base, "kid", Null)>> ELSE <<>>
       ELSE [j \in DOMAIN kids |-> With(base, "kid", kids[j])]])

Supported == {"identity", "filter", "orderby", "skip", "top", "aggregate", "groupby", "compute"}

\* applySupportedTailTransformations.
ApplyTail(rs, t) ==
  CASE t.t = "filter"    -> Where(rs, LAMBDA r : PassesInMemory(t.p, r))
    [] t.t = "orderby"   -> MapOrderBy(rs, t.o)
    [] t.t = "skip"      -> Slice(rs, t.n, NoLimit)
    [] t.t = "top"       -> Slice(rs, 0, t.n)
    [] t.t = "aggregate" -> MapAggregate(rs, t)
    [] t.t = "groupby"   -> MapGroupBy(rs, t.props, t.nested)
    [] t.t = "compute"   -> MapCompute(rs, t)
    [] OTHER             -> rs

-----------------------------------------------------------------------------
(* The parser.  Names are those of the entity type and, for filter and     *)
(* orderby, the aliases that earlier transformations introduced.           *)

extractAliases(t) ==
  CASE t.t \in {"groupby", "rollup"} -> {"$count"} \cup {a.as : a \in ToSet(AggregatesOf(t.nested))}
    [] t.t = "aggregate" -> {a.as : a \in ToSet(t.aggs)}
    [] t.t = "compute"   -> {t.as}
    [] OTHER             -> {}

parseAggregate(t) == t.aggs # <<>> /\ \A i \in DOMAIN t.aggs : t.aggs[i].col \in Columns
parseSetTransformation(t) == t.col \in Columns /\ (t.t = "countset" => t.n > 0)
parseOrderByTransformation(t, aliases) == t.o.col \in Columns \cup aliases
parseFilterTransformation(t, aliases) == t.p.col \in Columns \cup aliases
parseCompute(t) == t.col \in Columns

\* parseApplyWithCaseSensitivity; a nested sequence starts without aliases.
RECURSIVE ParseApply(_)
parseGroupBy(t) == t.props \subseteq Columns /\ (t.nested # <<>> => ParseApply(t.nested))
parseRollupSpec(t) == /\ t.levels # <<>> /\ ToSet(t.levels) \subseteq Columns
                      /\ t.nested # <<>> => ParseApply(t.nested)
parseConcatTransformation(t) == t.seqs # <<>> /\ \A i \in DOMAIN t.seqs : ParseApply(t.seqs[i])

parseTransformation(t, aliases) ==
  CASE t.t = "groupby"   -> parseGroupBy(t)
    [] t.t = "rollup"    -> parseRollupSpec(t)
    [] t.t = "aggregate" -> parseAggregate(t)
    [] t.t = "filter"    -> parseFilterTransformation(t, aliases)
    [] t.t = "compute"   -> parseCompute(t)
    [] t.t = "orderby"   -> parseOrderByTransformation(t, aliases)
    [] t.t \in {"countset", "sumset"} -> parseSetTransformation(t)
    [] t.t = "concat"    -> parseConcatTransformation(t)
    [] t.t \in {"skip", "top"} -> t.n >= 0
    [] OTHER             -> TRUE

ParseApply(ts) ==
  /\ ts # <<>>
  /\ \A i \in DOMAIN ts : parseTransformation(ts[i], UNION {extractAliases(ts[j]) : j \in 1..(i - 1)})

-----------------------------------------------------------------------------
(* The request.                                                            *)

Structural == {"concat", "join"}
findFirstStructural(ts) ==
  IF \E i \in DOMAIN ts : ts[i].t \in Structural
  THEN CHOOSE i \in DOMAIN ts : ts[i].t \in Structural /\ \A j \in 1..(i - 1) : ts[j].t \notin Structural
  ELSE 0

Init ==
  /\ table \in Tables
  /\ \E r \in Requests : apply = r.apply /\ options = r.options
  /\ pc = "parse" /\ branches = <<>> /\ todo = <<>> /\ stmt = Empty
  /\ rows = <<>> /\ tail = <<>> /\ count = Null

Parse ==
  /\ pc = "parse"
  /\ pc' = IF ParseApply(apply) THEN "plan" ELSE "rejected"
  /\ UNCHANGED <<table, apply, options, branches, todo, stmt, rows, tail, count>>

\* fetchResults with promoteConcatToLeading: a concat runs one pipeline for
\* each of its sequences, with what precedes it; a join runs what precedes it.
Plan ==
  /\ pc = "plan"
  /\ LET i == findFirstStructural(apply)
         before == SubSeq(apply, 1, i - 1)
         after == SubSeq(apply, i + 1, Len(apply))
     IN CASE i = 0 -> branches' = <<apply>> /\ tail' = <<>>
          [] i > 0 /\ apply[i].t = "concat" ->
               /\ branches' = [n \in DOMAIN apply[i].seqs |-> before \o apply[i].seqs[n]]
               /\ tail' = after
          [] i > 0 /\ apply[i].t = "join" ->
               /\ branches' = IF i = 1 THEN <<>> ELSE <<before>>
               /\ tail' = after
  /\ pc' = IF branches' = <<>> THEN "join" ELSE "branch"
  /\ UNCHANGED <<table, apply, options, todo, stmt, rows, count>>

Joining == findFirstStructural(apply) > 0 /\ apply[findFirstStructural(apply)].t = "join"
Plain == findFirstStructural(apply) = 0

StartBranch ==
  /\ pc = "branch" /\ branches # <<>>
  /\ todo' = Head(branches) /\ branches' = Tail(branches)
  /\ stmt' = Empty /\ pc' = "build"
  /\ UNCHANGED <<table, apply, options, rows, tail, count>>

Build ==
  /\ pc = "build" /\ todo # <<>>
  /\ stmt' = applyTransformation(stmt, Head(todo), table)
  /\ todo' = Tail(todo)
  /\ UNCHANGED <<table, apply, options, pc, branches, rows, tail, count>>

\* ApplyQueryOptionsWithFTS after applyTransformations; the LIMIT of $top is
\* one more than asked for.
WithFilter(s) == FoldLeft(applyFilter, s, options.filter)
WithOrder(s) == FoldLeft(applyOrderBy, s, options.orderby)
WithPage(s) == FoldLeft(LAMBDA x, n : applyTop(x, n + 1), FoldLeft(applySkip, s, options.skip), options.top)
WithOptions(s) == WithPage(WithOrder(WithFilter(s)))

\* The rows a join starts from are entities, with their children.
Entities(ks) == SelectSeq(table, LAMBDA r : \E i \in DOMAIN ks : ks[i]["k"] = r["k"])
Rolled(s, found) == IF s.rollup # <<>> THEN MapRollup(found, s.rollup[1]) ELSE found
RowsFound(s, found) ==
  CASE Joining -> Entities(found) [] Plain -> Rolled(s, found) [] OTHER -> rows \o found
Found(s) == RowsFound(s, Executed(s, table))

Run ==
  /\ pc = "build" /\ todo = <<>>
  /\ rows' = Found(IF Plain THEN WithOptions(stmt) ELSE WithFilter(stmt))
  /\ pc' = IF Joining THEN "join" ELSE IF branches = <<>> THEN "tail" ELSE "branch"
  /\ UNCHANGED <<table, apply, options, branches, todo, stmt, tail, count>>

Join ==
  /\ pc = "join"
  /\ LET i == findFirstStructural(apply)
     IN rows' = MapJoin(IF i = 1 THEN table ELSE rows, apply[i])
  /\ pc' = "tail"
  /\ UNCHANGED <<table, apply, options, branches, todo, stmt, tail, count>>

\* A transformation the handler does not know after a structural one is a 400.
TailStep ==
  /\ pc = "tail" /\ tail # <<>>
  /\ IF Head(tail).t \in Supported
     THEN rows' = ApplyTail(rows, Head(tail)) /\ tail' = Tail(tail) /\ pc' = pc
     ELSE rows' = <<>> /\ tail' = <<>> /\ pc' = "rejected"
  /\ UNCHANGED <<table, apply, options, branches, todo, stmt, count>>

\* trimResults, and for a structural pipeline $orderby, $skip and $top.
Answer ==
  /\ pc = "tail" /\ tail = <<>>
  /\ LET sorted == IF Plain THEN rows ELSE FoldLeft(MapOrderBy, rows, options.orderby)
         skipped == IF Plain THEN sorted ELSE FoldLeft(LAMBDA r, n : Slice(r, n, NoLimit), sorted, options.skip)
     IN rows' = FoldLeft(LAMBDA r, n : Slice(r, 0, n), skipped, options.top)
  /\ pc' = "counting"
  /\ UNCHANGED <<table, apply, options, branches, todo, stmt, tail, count>>

\* countTransformedEntities: $apply and $filter through the statement builder.
Counted(s) == Len(Rolled(s, Executed(s, table)))
Count ==
  /\ pc = "counting"
  /\ count' = Counted(WithFilter(FoldLeft(LAMBDA x, t : applyTransformation(x, t, table), Empty, apply)))
  /\ pc' = "answered"
  /\ UNCHANGED <<table, apply, options, branches, todo, stmt, rows, tail>>

Next == Parse \/ Plan \/ StartBranch \/ Build \/ Run \/ Join \/ TailStep \/ Answer \/ Count

Spec == Init /\ [][Next]_vars

-----------------------------------------------------------------------------
(* What a pipeline means.                                                  *)

SummaryOf(aggs, rs) == Summary(aggs, rs, Aggregated)

RECURSIVE Sequential(_, _), Step(_, _)
Step(rs, t) ==
  CASE t.t = "filter"    -> Where(rs, LAMBDA r : Passes(t.p, r))
    [] t.t = "orderby"   -> Sorted(rs, LAMBDA a, b : Precedes(<<t.o>>, a, b))
    [] t.t = "skip"      -> Slice(rs, t.n, NoLimit)
    [] t.t = "top"       -> Slice(rs, 0, t.n)
    [] t.t = "compute"   -> [i \in DOMAIN rs |-> With(rs[i], t.as,
                               IF Val(rs[i], t.col) = Null THEN Null ELSE Val(rs[i], t.col) + t.n)]
    [] t.t = "aggregate" -> <<SummaryOf(t.aggs, rs)>>
    [] t.t = "groupby" /\ t.props = {} -> <<SummaryOf(AggregatesOf(t.nested), rs)>>
    [] t.t = "groupby"   ->
         LET gs == Groups(rs, t.props)
             of(g) == LET out == Sequential(g, IF t.nested = <<>> THEN <<[t |-> "aggregate", aggs |-> CountAll]>>
                                               ELSE t.nested)
                      IN [i \in DOMAIN out |-> Merged(Only(g[1], t.props), out[i])]
         IN FlattenSeq([i \in DOMAIN gs |-> of(gs[i])])
    [] t.t = "rollup"    ->
         FlattenSeq([i \in 1..(Len(t.levels) + IF t.total THEN 1 ELSE 0) |->
           LET kept == ToSet(SubSeq(t.levels, 1, Len(t.levels) - i + 1))
               out == IF kept = {} /\ rs # <<>> THEN <<SummaryOf(AggregatesOf(t.nested), rs)>>
                      ELSE Step(rs, [t |-> "groupby", props |-> kept, nested |-> t.nested])
           IN IF rs = <<>> THEN <<>>
              ELSE [j \in DOMAIN out |-> [c \in DOMAIN out[j] \cup ToSet(t.levels) |-> Val(out[j], c)]]])
    [] t.t = "countset"  -> Slice(Sorted(rs, LAMBDA a, b :
                               Precedes(<<[col |-> t.col, desc |-> t.kind = "topcount"]>>, a, b)), 0, t.n)
    [] t.t = "sumset"    ->
         LET s == Sorted(rs, LAMBDA a, b : Precedes(<<[col |-> t.col, desc |-> t.kind = "topsum"]>>, a, b))
         IN SelectSeq(s, LAMBDA r : LET i == CHOOSE i \in DOMAIN s : s[i] = r
                                    IN Total([j \in 1..(i - 1) |-> Nat0(Val(s[j], t.col))]) < t.n)
    [] t.t = "concat"    -> FlattenSeq([i \in DOMAIN t.seqs |-> Sequential(rs, t.seqs[i])])
    [] t.t = "join"      -> MapJoin(rs, t)
    [] OTHER             -> rs

Sequential(rs, ts) == FoldLeft(Step, rs, ts)

OptionSteps ==
  [i \in DOMAIN options.filter |-> [t |-> "filter", p |-> options.filter[i]]]
  \o [i \in DOMAIN options.orderby |-> [t |-> "orderby", o |-> options.orderby[i]]]
  \o [i \in DOMAIN options.skip |-> [t |-> "skip", n |-> options.skip[i]]]
  \o [i \in DOMAIN options.top |-> [t |-> "top", n |-> options.top[i]]]

\* The clause of SELECT each transformation lands in, in the order SQL
\* evaluates them; the pipelines that name them in this order mean the same to
\* both.
Clause(ts, i) ==
  LET grouped == \E j \in 1..(i - 1) : ts[j].t \in {"groupby", "aggregate"}
  IN CASE ts[i].t = "identity" -> 0
       [] ts[i].t \in {"filter", "sumset", "compute"} -> IF grouped THEN 3 ELSE 1
       [] ts[i].t \in {"groupby", "aggregate", "rollup"} -> 2
       [] ts[i].t = "orderby" -> 4
       [] ts[i].t = "skip" -> 5
       [] ts[i].t \in {"top", "countset"} -> 6
       [] OTHER -> 9

NestedInOrder(t) == \/ t.t \notin {"groupby", "rollup"}
                    \/ t.nested = <<>>
                    \/ /\ t.nested[1].t = "aggregate"
                       /\ \A i \in 2..Len(t.nested) : t.t = "groupby" /\ t.nested[i].t = "filter"

InClauseOrder(ts) ==
  /\ \A i, j \in DOMAIN ts : i < j /\ Clause(ts, i) # 0 /\ Clause(ts, j) # 0 =>
       \/ Clause(ts, i) < Clause(ts, j)
       \/ Clause(ts, i) = Clause(ts, j) /\ Clause(ts, i) \in {1, 3} /\ "compute" \notin {ts[i].t, ts[j].t}
       \/ {ts[i].t, ts[j].t} = {"filter", "compute"}
  /\ \A i \in DOMAIN ts : Clause(ts, i) # 9 /\ NestedInOrder(ts[i])
  /\ \A i \in DOMAIN ts : ts[i].t = "countset" => \A j \in 1..(i - 1) : ts[j].t \notin {"orderby", "skip"}
  /\ \A i \in DOMAIN ts : ts[i].t = "sumset" => \A j \in (i + 1)..Len(ts) :
       ts[j].t \in {"identity", "filter", "compute"} \/ (ts[j].t = "groupby" /\ ts[j].props # {})
  /\ \A i \in DOMAIN ts : Clause(ts, i) = 3 => ts[i].t = "filter"
  /\ \A i \in DOMAIN ts : ts[i].t = "rollup" => i = Len(ts)

NoNulls == \A i \in DOMAIN table : Null \notin {table[i]["g"], table[i]["m"]}

\* A pipeline with a concat or a join in it: each part in clause order, and in
\* memory no compute, no NULL (a missing column is one), no sum of what may be
\* nothing, and no $filter.
Sums(t) ==
  LET aggs == CASE t.t = "aggregate" -> t.aggs [] t.t = "groupby" -> AggregatesOf(t.nested) [] OTHER -> <<>>
  IN \E i \in DOMAIN aggs : aggs[i].method = "sum"
MemoryExact ==
  LET i == findFirstStructural(apply)
      before == SubSeq(apply, 1, i - 1)
  IN /\ NoNulls /\ options.filter = <<>>
     /\ apply[i].t = "concat" => \A n \in DOMAIN apply[i].seqs : InClauseOrder(before \o apply[i].seqs[n])
     /\ apply[i].t = "concat" /\ (i < Len(apply) \/ options.orderby # <<>>) =>
          \A n \in DOMAIN apply[i].seqs : \A j \in DOMAIN apply[i].seqs[n] :
            apply[i].seqs[n][j].t \notin {"groupby", "aggregate", "compute"}
     /\ apply[i].t = "join" => \A n \in 1..(i - 1) : before[n].t = "filter"
     /\ \A n \in (i + 1)..Len(apply) :
          /\ apply[n].t # "compute" /\ ~Sums(apply[n])
          /\ apply[n].t = "groupby" => apply[n].nested # <<>>

Exact ==
  IF Plain THEN /\ InClauseOrder(apply \o OptionSteps)
                /\ \A n \in DOMAIN apply : apply[n].t = "rollup" => NoNulls
  ELSE MemoryExact

BagOf(rs) == [r \in {Only(rs[i], DOMAIN rs[i] \ {"kids"}) : i \in DOMAIN rs} |->
                Cardinality({i \in DOMAIN rs : Only(rs[i], DOMAIN rs[i] \ {"kids"}) = r})]

(* One SQL statement, or several and a pass in memory, give the rows the   *)
(* pipeline means when each transformation takes the rows of the one       *)
(* before: for every pipeline whose transformations come in the order in   *)
(* which SQL evaluates its clauses, with $filter, $orderby, $skip and $top *)
(* after it.                                                               *)
PipelineMeansItsSteps ==
  pc \in {"counting", "answered"} /\ Exact =>
    BagOf(rows) = BagOf(Sequential(table, apply \o OptionSteps))

(* The number $count reports is the number of rows the pipeline and        *)
(* $filter yield, whatever the order of the transformations, and a page of *)
(* $top rows is short only when there are no more: count and data go       *)
(* through the same fold.  A rollup under $top and a limit of the pipeline *)
(* itself, which $top replaces, are left out.                              *)
CountIsOfTheResult ==
  pc = "answered" /\ Plain /\ options.skip = <<>> =>
    \/ options.top = <<>> /\ Len(rows) = count
    \/ /\ options.top # <<>>
       /\ \/ \E i \in DOMAIN apply : apply[i].t \in {"rollup", "top", "countset"}
          \/ stmt.limit = 0
          \/ Len(rows) = IF options.top[1] < count THEN options.top[1] ELSE count

\* The rows of a pipeline and the count of them are those it means.
PipelineIsAnswered == PipelineMeansItsSteps /\ CountIsOfTheResult
=============================================================================
