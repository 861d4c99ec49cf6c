------------------------------ MODULE MCQuery -------------------------------
(* What becomes of the query string of one request: its options, $filter,  *)
(* $apply, $search and $expand, and the index behind $search.  Each is     *)
(* checked on its own, so a behaviour is about one of them and the others  *)
(* stay put.                                                               *)
EXTENDS MCFilterQuery, SearchIndex, ExpandTree, QueryOptions, TLC

-----------------------------------------------------------------------------
(* Tables and values of $expand.                                           *)

MCEntityKeys == 1..4
Rec(up, val) == [up |-> up, val |-> val]
MCTables == {<<Rec(NoKey, 1), Rec(NoKey, 1), Rec(1, 1), Rec(1, 0)>>,     \* two parents, two children
             <<Rec(NoKey, 1), Rec(1, 1), Rec(2, 1)>>,                 \* a chain
             <<Rec(NoKey, 1), Rec(NoKey, 1), Rec(NoKey, 1), Rec(2, 1)>>}  \* more parents than a batch takes

\* Options as they are written, with the nested ones inside, and their positions.
Opt(nav, by, desc, skip, top, select, levels, nested) ==
  [opt |-> [nav |-> nav, filter |-> by, desc |-> desc, skip |-> skip, top |-> top, select |-> select, levels |-> levels],
   nested |-> nested]
RECURSIVE Positions(_)
Positions(opts) == UNION {{<<i>>} \cup {<<i>> \o q : q \in Positions(opts[i].nested)} : i \in DOMAIN opts}
RECURSIVE OptionAt(_, _)
OptionAt(opts, q) == IF Len(q) = 1 THEN opts[q[1]].opt ELSE OptionAt(opts[q[1]].nested, Tail(q))
Tree(opts) == [q \in Positions(opts) |-> OptionAt(opts, q)]

Kids(skip, top, nested) == Opt("Children", {}, FALSE, skip, top, FALSE, 0, nested)
Up == Opt("Parent", {}, FALSE, 0, NoTop, FALSE, 0, <<>>)

Flat == {<<Opt("Children", fd[1], fd[2], s, t, FALSE, 0, <<>>)>> :
           fd \in {<<{}, FALSE>>, <<{}, TRUE>>, <<{"val"}, FALSE>>}, s \in {0, 1}, t \in {NoTop, 0, 1}}
Deeper == {<<Kids(0, t, <<n>>)>> : t \in {NoTop, 1}, n \in {Kids(0, 1, <<>>), Kids(1, NoTop, <<>>), Up}}
Levels == {<<Opt("Children", {}, FALSE, 0, t, FALSE, l, <<>>)>> : t \in {NoTop, 1}, l \in {2, 3, AllLevels}}
MixedOptions == {<<Opt("Children", {}, FALSE, 0, 1, FALSE, 2, <<Kids(0, 0, <<>>)>>)>>,
          <<Opt("Children", {}, FALSE, 0, NoTop, TRUE, 0, <<Kids(0, 1, <<>>)>>)>>,
          <<Opt("Children", {}, FALSE, 0, NoTop, FALSE, AllLevels, <<Up>>)>>,
          <<Kids(0, NoTop, <<>>), Up>>, <<Kids(0, NoTop, <<Kids(0, NoTop, <<Up>>)>>)>>}
MCExpands == {Tree(opts) : opts \in Flat \cup Deeper \cup Levels \cup MixedOptions}

-----------------------------------------------------------------------------
(* Query strings.                                                          *)

MCDeclared == {"Name"}
MCNavigations == {"Product", "Category"}

NoText == [is |-> "empty"]
Ref == [is |-> "ref", to |-> "p"]
Nowhere == [is |-> "ref", to |-> "nowhere"]
PropsVal(s) == [is |-> "props", props |-> s]
NumVal(n) == [is |-> "int", n |-> n]
ItemOf(nav, sub, nested) == [nav |-> nav, sub |-> sub, nested |-> nested]
SelectVal(items) == [is |-> "select", items |-> items]
ExpandVal(opts) == [is |-> "expand", opts |-> opts]
OpenTo(nav, sub) == [nav |-> nav, select |-> sub]
PipeVal(steps) == [is |-> "apply", steps |-> steps]
StepOf(kind, alias) == [kind |-> kind, alias |-> alias]
Param(name, form, val) == [name |-> name, form |-> form, val |-> val]

\* One option in every spelling, right and wrong values, with and without "@p".
Spellings == {Param("top", f, v) : f \in {"dollar", "mixed", "bare"}, v \in {NumVal(1), NumVal(-1), NoText, Ref}}
OtherOptions ==
  {Param("filter", "dollar", v) : v \in {PropsVal({"Name"}), PropsVal({"Total"}), NoText, Ref}}
  \cup {Param("orderby", "bare", v) : v \in {PropsVal({"Name", "Total"}), PropsVal({"$count"}), NoText}}
  \cup {Param("select", "dollar", SelectVal(<<ItemOf("", s, FALSE)>>)) : s \in {"Name", "Total"}}
  \cup {Param("select", "dollar", SelectVal(<<ItemOf("Address", "City", FALSE)>>)),
        Param("expand", "mixed", ExpandVal(<<OpenTo("Product", {})>>)),
        Param("expand", "dollar", ExpandVal(<<OpenTo("Name", {})>>)),
        Param("skip", "dollar", NumVal(0)), Param("skiptoken", "dollar", [is |-> "text"]),
        Param("skiptoken", "dollar", Ref), Param("search", "dollar", Nowhere),
        Param("count", "dollar", [is |-> "bool", b |-> TRUE]), Param("count", "bare", NumVal(1)),
        Param("search", "dollar", [is |-> "blank"]),
        Param("index", "dollar", NoText), Param("index", "dollar", NumVal(1)),
        Param("schemaversion", "dollar", NoText), Param("schemaversion", "bare", [is |-> "text"]),
        Param("compute", "dollar", [is |-> "compute", alias |-> "Total"]),
        Param("apply", "dollar", PipeVal(<<StepOf("compute", "Net"), StepOf("compute", "Total")>>)),
        Param("apply", "dollar", PipeVal(<<StepOf("aggregate", "Net"), StepOf("aggregate", "Total")>>)),
        Param("apply", "dollar", PipeVal(<<StepOf("groupby", "$count")>>)),
        Param("nosuch", "dollar", NumVal(1)), Param("note", "bare", NumVal(1)),
        Param("note", "bare", Nowhere)}
OneOption == Spellings \cup OtherOptions
AliasDefinitions == {<<>>, <<Param("p", "alias", NumVal(1))>>, <<Param("p", "alias", PropsVal({"Name"}))>>,
                     <<Param("p", "alias", NumVal(1)), Param("p", "alias", NumVal(2))>>}

ChosenItems == {ItemOf("", "Name", FALSE), ItemOf("Product", "Name", FALSE), ItemOf("Category", "Title", FALSE),
                ItemOf("Product", "Id", TRUE)}
OpenedOptions == {OpenTo("Product", {}), OpenTo("Product", {"Id"}), OpenTo("Category", {})}
MCSelections == UNION {[1..n -> ChosenItems] : n \in 1..3}
MCOpenings == UNION {[1..n -> OpenedOptions] : n \in 1..2}

MCURLs ==
  {<<s>> \o d : s \in OneOption, d \in AliasDefinitions}
  \cup {<<s, t>> \o d : s \in OneOption, t \in OtherOptions, d \in {<<>>, <<Param("p", "alias", NumVal(1))>>}}
  \cup {<<Param("select", "dollar", SelectVal(s))>> : s \in MCSelections}
  \cup {<<Param("select", "dollar", SelectVal(s)), Param("expand", "dollar", ExpandVal(e))>> :
          s \in MCSelections, e \in MCOpenings}

-----------------------------------------------------------------------------

VARIABLES
  part,     \* "options", "filter", "apply", "search", "expand" or "index"
  applyTable, apply, applyOptions, applyPc, branches, todo, stmt, applyRows, tail, count,
  asked, searchTail, tokens, node, text, stage
applyVars == <<applyTable, apply, applyOptions, applyPc, branches, todo, stmt, applyRows, tail, count>>
searchVars == <<asked, searchTail, tokens, node, text, stage>>

Pipelines == INSTANCE MCApplyPipeline
  WITH Tables <- {}, Requests <- {}, table <- applyTable, options <- applyOptions,
       pc <- applyPc, rows <- applyRows
Apply == INSTANCE ApplyPipeline
  WITH Tables <- Pipelines!MCTables, Requests <- Pipelines!MCRequests,
       table <- applyTable, options <- applyOptions,
       pc <- applyPc, rows <- applyRows
Phrases == INSTANCE MCSearchLanguage
  WITH Expressions <- {}, Texts <- {}, tail <- searchTail
Search == INSTANCE SearchLanguage
  WITH Expressions <- Phrases!MCExpressions, Texts <- Phrases!MCTexts, tail <- searchTail

MCInitialRows == [k \in Keys |-> IF k = 1 THEN Wanted ELSE Absent]
Symmetric == Permutations(Searches)

OptionsOff ==
  /\ url = <<>> /\ reading = "off" /\ params = <<>> /\ options = Nothing /\ expansion = <<>>
  /\ expandMap = Nothing /\ spare = 0 /\ moved = FALSE /\ navSelects = {}
FilterOff ==
  /\ filter = A /\ odata401 = FALSE /\ upper = FALSE /\ cached = FALSE
  /\ pc = "received" /\ tree = None /\ expr = None /\ selected = {}
ApplyOff ==
  /\ applyTable = <<>> /\ apply = <<>> /\ applyOptions = <<>> /\ applyPc = "off" /\ branches = <<>>
  /\ todo = <<>> /\ stmt = <<>> /\ applyRows = <<>> /\ tail = <<>> /\ count = 0
SearchOff ==
  asked = <<>> /\ searchTail = "" /\ tokens = <<>> /\ node = <<>> /\ text = <<>> /\ stage = "off"
ExpandOff ==
  /\ expandTable = <<>> /\ expandWrites = 0 /\ permit = "all" /\ phase = "off"
  /\ expand = <<>> /\ frames = <<>> /\ fields = {} /\ states = {} /\ reply = <<>>
IndexOff == IndexInit /\ dialect = "sqlite"

QueryInit ==
  \/ part = "options" /\ UrlInit /\ FilterOff /\ ApplyOff /\ SearchOff /\ ExpandOff /\ IndexOff
  \/ part = "filter" /\ Init /\ OptionsOff /\ ApplyOff /\ SearchOff /\ ExpandOff /\ IndexOff
  \/ part = "apply" /\ Apply!Init /\ OptionsOff /\ FilterOff /\ SearchOff /\ ExpandOff /\ IndexOff
  \/ part = "search" /\ Search!Init /\ OptionsOff /\ FilterOff /\ ApplyOff /\ ExpandOff /\ IndexOff
  \/ part = "expand" /\ ExpandInit /\ OptionsOff /\ FilterOff /\ ApplyOff /\ SearchOff /\ IndexOff
  \/ part = "index" /\ IndexInit /\ OptionsOff /\ FilterOff /\ ApplyOff /\ SearchOff /\ ExpandOff
OptionsStep == part = "options" /\ UrlNext /\ UNCHANGED <<part, vars, applyVars, searchVars, expandVars, indexVars>>
FilterStep == part = "filter" /\ Next /\ UNCHANGED <<part, urlVars, applyVars, searchVars, expandVars, indexVars>>
ApplyStep == part = "apply" /\ Apply!Next /\ UNCHANGED <<part, urlVars, vars, searchVars, expandVars, indexVars>>
SearchStep == part = "search" /\ Search!Next /\ UNCHANGED <<part, urlVars, vars, applyVars, expandVars, indexVars>>
ExpandStep == part = "expand" /\ ExpandNext /\ UNCHANGED <<part, urlVars, vars, applyVars, searchVars, indexVars>>
IndexStep == part = "index" /\ IndexNext /\ UNCHANGED <<part, urlVars, vars, applyVars, searchVars, expandVars>>
QueryNext == OptionsStep \/ FilterStep \/ ApplyStep \/ SearchStep \/ ExpandStep \/ IndexStep
QuerySpec == QueryInit /\ [][QueryNext]_<<part, urlVars, vars, applyVars, searchVars, expandVars, indexVars>>

\* $apply: the SQL of a pipeline means its transformations, one after another,
\* and $count is the number of rows of the result (apply_transform.go,
\* collection_count.go).
PipelineIsAnswered == part = "apply" => Apply!PipelineIsAnswered
\* $search: the parser builds the expression the text was written for, and the
\* databases match the rows the in-memory evaluator matches
\* (search_expression.go, search.go).
SearchMeansWhatItSays == part = "search" => Search!SearchMeansWhatItSays
=============================================================================
