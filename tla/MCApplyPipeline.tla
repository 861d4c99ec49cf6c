-------------------------- MODULE MCApplyPipeline ---------------------------
EXTENDS ApplyPipeline

Row(k, g, m, kids) == [k |-> k, g |-> g, m |-> m, kids |-> kids]
MCTables ==
  {<<>>,
   <<Row(1, 1, 2, <<1, 2>>), Row(2, 2, 1, <<>>), Row(3, 1, 1, <<2>>)>>,
   <<Row(1, 2, 1, <<1>>), Row(2, 1, 3, <<2>>), Row(3, 2, 2, <<>>), Row(4, 1, 1, <<1>>)>>,
   <<Row(1, 1, Null, <<>>), Row(2, Null, 2, <<1>>), Row(3, 1, Null, <<>>)>>}

F(col, op, v) == [t |-> "filter", p |-> [col |-> col, op |-> op, v |-> v]]
Agg(method, col, as) == [method |-> method, col |-> col, as |-> as]
Sum == [t |-> "aggregate", aggs |-> <<Agg("sum", "m", "s"), Agg("countdistinct", "g", "d")>>]
Largest == [t |-> "aggregate", aggs |-> <<Agg("max", "m", "s"), Agg("count", "m", "n")>>]
GroupBy(props, nested) == [t |-> "groupby", props |-> props, nested |-> nested]
OrderBy(col, desc) == [t |-> "orderby", o |-> [col |-> col, desc |-> desc]]
Skip(n) == [t |-> "skip", n |-> n]
Top(n) == [t |-> "top", n |-> n]
Compute == [t |-> "compute", col |-> "m", n |-> 1, as |-> "x"]
ByCount(kind, n) == [t |-> "countset", kind |-> kind, n |-> n, col |-> "m"]
BySum(kind, n) == [t |-> "sumset", kind |-> kind, n |-> n, col |-> "m"]
Rollup(levels, total, nested) == [t |-> "rollup", levels |-> levels, total |-> total, nested |-> nested]
Identity == [t |-> "identity"]

\* Transformations of one row at a time, of groups, and of the result.
OneFilter == {F("m", "gt", 1), F("g", "eq", 1)}
Groupings == {GroupBy({"g"}, <<>>), GroupBy({"g"}, <<Sum>>), GroupBy({"g"}, <<Sum, F("s", "gt", 1)>>),
              GroupBy({"g"}, <<F("m", "gt", 1), Sum>>), GroupBy({"g", "m"}, <<Largest>>), GroupBy({}, <<Sum>>), Sum, Largest}
Limits == {OrderBy("m", TRUE), Skip(1), Top(1), ByCount("topcount", 2), ByCount("bottomcount", 1)}
Parts == OneFilter \cup {Compute, BySum("topsum", 3), BySum("bottomsum", 1), Identity}
Single == Parts \cup Groupings \cup Limits

Runnable(ts) == \A i \in DOMAIN ts : \A j \in 1..(i - 1) :
  ts[j] \in Groupings => /\ ts[i].t \notin {"compute", "sumset", "orderby", "countset"}
                         /\ ts[i].t = "filter" => ts[j].t = "groupby" /\ ts[j].props # {}
                                                  /\ ts[i].p.col \in ts[j].props
Pairs == {ts \in {<<x, y>> : x \in Single, y \in Single} : Runnable(ts)}
Triples == {<<x, y, z>> : x \in OneFilter \cup {Compute, Top(1)}, y \in {GroupBy({"g"}, <<Sum>>), OrderBy("m", TRUE)},
                          z \in {Skip(1), Top(1)}}
           \cup {<<GroupBy({"g"}, <<Sum>>), F("s", "gt", 2), OrderBy("s", TRUE)>>,
                 <<Compute, F("x", "gt", 2), Top(1)>>}
Rollups == {Rollup(<<"g", "m">>, TRUE, <<Largest>>), Rollup(<<"g">>, FALSE, <<Sum>>), Rollup(<<"g">>, TRUE, <<Sum>>)}
Concat(a, b) == [t |-> "concat", seqs |-> <<a, b>>]
Joins == {[t |-> "join", outer |-> o] : o \in BOOLEAN}
Concats == {Concat(<<F("g", "eq", 1)>>, <<F("m", "gt", 1), OrderBy("m", TRUE), Top(1)>>), Concat(<<F("g", "eq", 1)>>, <<Sum>>), Concat(<<GroupBy({"g"}, <<Sum>>)>>, <<Compute, Top(1)>>)}
Tails == {<<>>} \cup {<<t>> : t \in {F("m", "gt", 1), OrderBy("m", FALSE), Skip(1), Top(2), Sum, Largest, Compute, ByCount("topcount", 1),
                                    Identity, GroupBy({"g"}, <<Sum>>), GroupBy({"g"}, <<Largest>>), GroupBy({"g"}, <<F("m", "gt", 1), Largest>>)}}
StructuralOnes == {<<s>> \o t : s \in Concats \cup Joins, t \in Tails}
                  \cup {<<F("m", "gt", 1), s>> \o t : s \in Concats \cup Joins, t \in Tails}

\* Names that are not there, or not there yet.
Misnamed == {<<F("s", "gt", 1), GroupBy({"g"}, <<Sum>>)>>, <<GroupBy({"x"}, <<Sum>>)>>, <<ByCount("topcount", 0)>>,
             <<Concat(<<Sum>>, <<Sum>>), F("s", "gt", 1)>>, <<Compute, F("x", "gt", 2)>>, <<Compute, OrderBy("x", TRUE), Top(1)>>}

MCPipelines == Misnamed \cup {<<s>> : s \in Single} \cup Pairs \cup Triples \cup {<<r>> : r \in Rollups}
               \cup {<<F("m", "gt", 1), r>> : r \in Rollups} \cup StructuralOnes

None == <<>>
MCOptions == {[filter |-> f, orderby |-> o, skip |-> s, top |-> t] :
                f \in {None, <<[col |-> "g", op |-> "eq", v |-> 1]>>}, o \in {None, <<[col |-> "g", desc |-> TRUE]>>},
                s \in {None, <<1>>}, t \in {None, <<1>>, <<2>>}}

\* Without groups there is no column left to filter or to order by.
Summarised(ts) == \E i \in DOMAIN ts : ts[i].t = "aggregate" \/ (ts[i].t = "groupby" /\ ts[i].props = {})
MCRequests == {r \in [apply : MCPipelines, options : MCOptions] :
                 Summarised(r.apply) => r.options.filter = None /\ r.options.orderby = None}
=============================================================================
