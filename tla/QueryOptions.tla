---------------------------- MODULE QueryOptions ----------------------------
(***************************************************************************)
(* From a query string to QueryOptions (internal/query/parser.go):         *)
(* parameter aliases are replaced, option names normalized, duplicates and *)
(* unknown options refused, every option parsed in a fixed order, and last *)
(* the navigation paths of $select merged into the options of $expand.     *)
(*                                                                         *)
(* The merge ranges over a Go map, so its order is the runtime's choice,   *)
(* and writes through pointers into the array options.Expand had before    *)
(* anything was appended to it.                                            *)
(***************************************************************************)
EXTENDS Integers, Sequences, FiniteSets, SequencesExt

CONSTANTS
  URLs,        \* query strings: sequences of parameters [name, form, val]
  Declared,    \* the structural properties of the entity type
  Navigations  \* its navigation properties

\* The form of a name: "$top" is dollar, "$TOP" mixed, "top" bare, "@p" alias.
\* Values are records with a field is; [is |-> "ref"] is a use of an alias.
SelectItem == [nav : STRING, sub : STRING, nested : BOOLEAN]
ExpandOption == [nav : STRING, select : SUBSET STRING]
PipelineStep == [kind : STRING, alias : STRING]
IsParameter(p) ==
  /\ p = [name |-> p.name, form |-> p.form, val |-> p.val]
  /\ p.form \in {"dollar", "mixed", "bare", "alias"}
  /\ p.val.is = "select" => p.val.items \in Seq(SelectItem)
  /\ p.val.is = "expand" => p.val.opts \in Seq(ExpandOption)
  /\ p.val.is = "apply" => p.val.steps \in Seq(PipelineStep)

ASSUME QueryOptionsAssumption == \A q \in URLs : \A i \in DOMAIN q : IsParameter(q[i])

VARIABLES
  url,
  reading,     \* "received", "resolved", "validated", "merging", "parsed" or "rejected"
  params,      \* place in url -> the parameter after aliases and names were dealt with
  options,     \* QueryOptions without Expand: option -> value
  expansion,   \* options.Expand: a sequence of [nav, select]; {} selects everything
  expandMap,   \* navigation property -> its place in the array of before
  spare,       \* how many more options that array has room for
  moved,       \* append has moved options.Expand to another array
  navSelects   \* the navigation properties whose paths are not merged yet
parsing == <<options, expansion, expandMap, spare, moved, navSelects>>
urlVars == <<url, reading, params, parsing>>

validQueryOptions ==
  {"filter", "select", "expand", "orderby", "top", "skip", "count", "search", "format",
   "compute", "index", "schemaversion", "apply", "deltatoken", "skiptoken"}
Nothing == [o \in {} |-> 0]

UrlInit ==
  /\ url \in URLs /\ reading = "received" /\ params = url
  /\ options = Nothing /\ expansion = <<>> /\ expandMap = Nothing
  /\ spare = 0 /\ moved = FALSE /\ navSelects = {}

RejectUrl == reading' = "rejected" /\ UNCHANGED <<url, params, parsing>>

-----------------------------------------------------------------------------
(* Parameter aliases and names.                                            *)

\* extractParameterAliases: the values given to an alias.
Aliases(q) == {q[i].name : i \in {j \in DOMAIN q : q[j].form = "alias"}}
Definitions(q, a) == {i \in DOMAIN q : q[i].form = "alias" /\ q[i].name = a}

\* resolveAliasesInString replaces a use once: what it puts in is not searched.
Undefined(q, v) == v.is = "ref" /\ v.to \notin Aliases(q)
Substituted(q, v) == IF v.is = "ref" /\ ~Undefined(q, v)
                     THEN q[CHOOSE i \in Definitions(q, v.to) : TRUE].val ELSE v

\* Without a definition every value stays as it is; with one, an undefined use
\* is an error, whatever parameter it stands in.
ResolveAliases ==
  /\ reading = "received"
  /\ LET uses == {i \in DOMAIN params : params[i].form # "alias"}
     IN IF \/ \E a \in Aliases(params) : \E i, j \in Definitions(params, a) : i # j
           \/ Aliases(params) # {} /\ \E i \in uses : Undefined(params, params[i].val)
        THEN RejectUrl
        ELSE /\ params' = [i \in uses |-> [params[i] EXCEPT !.val = Substituted(params, @)]]
             /\ reading' = "resolved"
             /\ UNCHANGED <<url, parsing>>

\* $TOP and top become $top; an unknown name keeps its spelling.
NormalizedDollarOnly(p) == IF p.name \in validQueryOptions /\ p.form # "bare" THEN [p EXCEPT !.form = "dollar"] ELSE p
normalizeQueryOptionKey(p) == IF p.name \in validQueryOptions THEN [p EXCEPT !.form = "dollar"] ELSE p

\* Only names that begin with $ are looked at; the others are the application's.
ValidateQueryOptions ==
  /\ reading = "resolved"
  /\ LET named == [i \in DOMAIN params |-> normalizeQueryOptionKey(params[i])]
         system == {i \in DOMAIN named : named[i].form \in {"dollar", "mixed"}}
     IN IF \/ \E i \in system : named[i].name \notin validQueryOptions
           \/ \E i, j \in system : i # j /\ named[i].name = named[j].name
        THEN RejectUrl
        ELSE reading' = "validated" /\ params' = [i \in system |-> named[i]] /\ UNCHANGED <<url, parsing>>

-----------------------------------------------------------------------------
(* The options, in the order of ParseQueryOptionsWithConfig...             *)

IsGiven(o) == \E i \in DOMAIN params : params[i].name = o
Get(o) == params[CHOOSE i \in DOMAIN params : params[i].name = o].val

\* extractComputedAliases: the alias of the first compute( of a pipeline, those
\* of every aggregate(, and $count after groupby(.
ComputedAliases ==
  (IF IsGiven("compute") /\ Get("compute").is = "compute" THEN {Get("compute").alias} ELSE {})
  \cup IF ~IsGiven("apply") \/ Get("apply").is # "apply" THEN {}
       ELSE LET steps == Get("apply").steps
                kinds(k) == {i \in DOMAIN steps : steps[i].kind = k}
                first == {i \in kinds("compute") : \A j \in kinds("compute") : i <= j}
            IN {steps[i].alias : i \in first \cup kinds("aggregate")} \cup {"$count" : i \in kinds("groupby")}

\* An item of $select: a name, a path nav/sub, or nav($select=sub).
Selectable(item, known) == IF item.nav = "" THEN item.sub \in known ELSE item.nav \in Navigations

\* Most options are absent when they are empty.
IsAbsent(o, v) == v.is = "empty" /\ o \notin {"filter", "index", "schemaversion"}

\* What each option's parser accepts.
Accepts(o, v, known) ==
  IsAbsent(o, v) \/
  CASE o \in {"filter", "orderby"} -> v.is = "props" /\ v.props \subseteq known
    [] o = "select" -> v.is = "select" /\ \A i \in DOMAIN v.items : Selectable(v.items[i], known)
    [] o = "expand" -> v.is = "expand" /\ \A i \in DOMAIN v.opts : v.opts[i].nav \in Navigations
    [] o \in {"top", "skip"} -> v.is = "int" /\ v.n >= 0
    [] o = "count" -> v.is = "bool"
    [] o \in {"search", "schemaversion"} -> v.is \notin {"blank", "empty"}
    [] o = "index" -> v.is = "empty"
    [] o = "compute" -> v.is = "compute"
    [] o = "apply" -> v.is = "apply"
    [] OTHER -> TRUE

IsPresent(o) == IsGiven(o) /\ ~IsAbsent(o, Get(o))

\* parseSelectWithNestedOptions and mergeExpandOptions: the nested items become
\* expand options, in the order in which their navigation properties first come,
\* and a later item of the same one adds its selection.
NestedSelects(items) ==
  LET nested == {i \in DOMAIN items : items[i].nested}
      same(i) == {j \in nested : items[j].nav = items[i].nav}
      first == {i \in nested : \A j \in same(i) : i <= j}
      order == CHOOSE s \in SetToSeqs(first) : \A i, j \in DOMAIN s : i < j => s[i] < s[j]
  IN [k \in DOMAIN order |-> [nav |-> items[order[k]].nav, select |-> {items[j].sub : j \in same(order[k])}]]
Items == IF IsPresent("select") THEN Get("select").items ELSE <<>>
\* navSelects: what the paths of $select name below a navigation property.
Below(n) == {Items[i].sub : i \in {j \in DOMAIN Items : Items[j].nav = n /\ ~Items[j].nested}}
Paths == {n \in Navigations : Below(n) # {}}

\* $expand replaces what the nested items of $select put into options.Expand;
\* applyExpandLevels makes an array without room, appending leaves some.
ParseOptions ==
  /\ reading = "validated"
  /\ IF \/ \E o \in validQueryOptions : IsGiven(o) /\ ~Accepts(o, Get(o), Declared \cup ComputedAliases)
        \/ IsPresent("skip") /\ IsPresent("skiptoken")
     THEN RejectUrl
     ELSE LET opts == IF IsPresent("expand") THEN Get("expand").opts ELSE NestedSelects(Items)
          IN /\ options' = [o \in {p \in validQueryOptions \ {"expand"} : IsPresent(p)} |-> Get(o)]
             /\ expansion' = opts
             /\ expandMap' = [n \in {opts[i].nav : i \in DOMAIN opts} |-> SelectLastInSeq(opts, LAMBDA e : e.nav = n)]
             /\ spare' \in IF IsPresent("expand") THEN {0} ELSE 0..Len(opts)
             /\ navSelects' = Paths
             /\ reading' = IF Paths = {} THEN "parsed" ELSE "merging"
             /\ UNCHANGED <<url, params, moved>>

\* mergeNavigationSelects, one navigation property of the map: an option that
\* was there is written through its pointer, another one is appended.
Merged(n) == expansion' = [expansion EXCEPT ![expandMap[n]].select = @ \cup Below(n)]
MergeSelect(n) ==
  /\ reading = "merging" /\ n \in navSelects
  /\ IF n \in DOMAIN expandMap
     THEN /\ IF moved THEN UNCHANGED expansion ELSE Merged(n)
          /\ UNCHANGED <<spare, moved>>
     ELSE /\ expansion' = Append(expansion, [nav |-> n, select |-> Below(n)])
          /\ moved' = (moved \/ spare = 0)
          /\ spare' = IF spare = 0 THEN 0 ELSE spare - 1
  /\ navSelects' = navSelects \ {n}
  /\ reading' = IF navSelects' = {} THEN "parsed" ELSE "merging"
  /\ UNCHANGED <<url, params, options, expandMap>>

UrlNext == ResolveAliases \/ ValidateQueryOptions \/ ParseOptions \/ \E n \in Navigations : MergeSelect(n)
UrlSpec == UrlInit /\ [][UrlNext]_urlVars

-----------------------------------------------------------------------------
(* Properties.                                                             *)

\* What the query string says: every use of an option, in any spelling.
Saying(o) == {i \in DOMAIN url : url[i].name = o /\ url[i].form # "alias"}
Said(o) == Substituted(url, url[CHOOSE i \in Saying(o) : TRUE].val)
Says(o) == Saying(o) # {} /\ ~IsAbsent(o, Said(o))
EveryAlias ==
  {Said("compute").alias : i \in {j \in Saying("compute") : Said("compute").is = "compute"}}
  \cup UNION {LET steps == Said("apply").steps
              IN {steps[k].alias : k \in {j \in DOMAIN steps : steps[j].kind \in {"compute", "aggregate"}}}
                 \cup {"$count" : k \in {j \in DOMAIN steps : steps[j].kind = "groupby"}} :
               i \in {j \in Saying("apply") : Said("apply").is = "apply"}}

WellFormed ==
  /\ \A i \in DOMAIN url : url[i].form \in {"dollar", "mixed"} => url[i].name \in validQueryOptions
  /\ \A o \in validQueryOptions : \A i, j \in Saying(o) : i = j
  /\ \A a \in Aliases(url) : \A i, j \in Definitions(url, a) : i = j
  /\ \A o \in validQueryOptions : Saying(o) # {} => Accepts(o, Said(o), Declared \cup EveryAlias)
  /\ ~(Says("skip") /\ Says("skiptoken"))

\* Two peculiarities of the parser: once an alias is defined, an @ in a
\* parameter of the application or in an option of free text is taken for an
\* alias, and the aliases of the second compute( of a pipeline are not known to
\* $filter, $orderby, $select.
FreeText == {"search", "format", "schemaversion", "deltatoken", "skiptoken"}
Peculiar ==
  \/ Aliases(url) # {}
     /\ \E i \in DOMAIN url : /\ url[i].form # "alias" /\ Undefined(url, url[i].val)
                            /\ url[i].name \notin validQueryOptions \ FreeText
  \/ Says("apply") /\ Said("apply").is = "apply"
     /\ \E i, j \in DOMAIN Said("apply").steps :
          i < j /\ Said("apply").steps[i].kind = "compute" /\ Said("apply").steps[j].kind = "compute"

\* The options are those the query string says, in whatever spelling, order
\* and indirection it says them, and nothing well-formed is refused.
\* (ParseQueryOptionsWithConfigAndCaseSensitivity.)
OptionsAreRead ==
  /\ reading = "parsed" =>
       /\ WellFormed
       /\ options = [o \in {p \in validQueryOptions \ {"expand"} : Says(p)} |-> Said(o)]
  /\ reading = "rejected" => ~WellFormed \/ Peculiar

\* What the query string selects below a navigation property.
SelectedBelow(n) ==
  IF ~Says("select") THEN {}
  ELSE LET items == Said("select").items
       IN {items[i].sub : i \in {j \in DOMAIN items : items[j].nav = n /\ (Says("expand") => ~items[j].nested)}}
Selected(n) == \E i \in DOMAIN expansion : expansion[i].nav = n /\ SelectedBelow(n) \subseteq expansion[i].select

\* A property selected through a navigation path is in the selection of that
\* navigation property's expansion (mergeNavigationSelects).
NavigationSelectsAreMerged == reading = "parsed" => \A n \in Navigations : SelectedBelow(n) # {} => Selected(n)

\* They are when the paths of $select are all expanded or none of them is.
UnmixedSelectsAreMerged ==
  ~(\E m, n \in Paths : m \in DOMAIN expandMap /\ n \notin DOMAIN expandMap) => NavigationSelectsAreMerged

\* The request is read as it was written (parser.go).
ReadAsWritten == OptionsAreRead /\ UnmixedSelectsAreMerged

-----------------------------------------------------------------------------
(* The inductive invariant.                                                *)

Uses == {i \in DOMAIN url : url[i].form # "alias"}
IsRead == reading \in {"merging", "parsed"}

\* What the parameters are at each stage.
ParamsInv ==
  /\ url \in URLs /\ reading \in {"received", "resolved", "validated", "merging", "parsed", "rejected"}
  /\ reading \in {"received", "resolved", "validated"} => ~moved
  /\ reading = "received" => params = url
  /\ reading = "resolved" =>
       params = [i \in Uses |-> [url[i] EXCEPT !.val = Substituted(url, @)]]
  /\ reading = "validated" \/ IsRead =>
       /\ DOMAIN params = {i \in Uses : url[i].name \in validQueryOptions}
       /\ \A i \in DOMAIN params : params[i].name = url[i].name /\ params[i].val = Substituted(url, url[i].val)
       /\ \A i \in Uses : url[i].form # "bare" => url[i].name \in validQueryOptions
       /\ \A o \in validQueryOptions : \A i, j \in Saying(o) : i = j
  /\ reading \notin {"received", "rejected"} => \A a \in Aliases(url) : \A i, j \in Definitions(url, a) : i = j

\* OptionsAreRead, from the moment the options are there.
OptionsInv ==
  /\ IsRead => /\ WellFormed
               /\ options = [o \in {p \in validQueryOptions \ {"expand"} : Says(p)} |-> Said(o)]
  /\ reading = "rejected" => ~WellFormed \/ Peculiar

\* What nested items of $select name below a navigation property.
NestedBelow(n) == {Items[i].sub : i \in {j \in DOMAIN Items : Items[j].nav = n /\ Items[j].nested}}

\* While paths are merged, every option that was there keeps its selection; the
\* paths merged so far are in it unless the array moved, and it moves only for
\* a navigation property that was not there.
MergeInv ==
  IsRead =>
    /\ expansion \in Seq(ExpandOption) /\ spare \in Nat
    /\ \A n \in DOMAIN expandMap : expandMap[n] \in DOMAIN expansion /\ expansion[expandMap[n]].nav = n
    /\ ~Says("expand") =>
         \A n \in Navigations : NestedBelow(n) # {} =>
           n \in DOMAIN expandMap /\ NestedBelow(n) \subseteq expansion[expandMap[n]].select
    /\ navSelects \subseteq Paths /\ (reading = "parsed" => navSelects = {})
    /\ moved => Paths \ DOMAIN expandMap # {}
    /\ \A n \in Paths \ navSelects :
         IF n \in DOMAIN expandMap
         THEN Paths \ DOMAIN expandMap # {} \/ Below(n) \subseteq expansion[expandMap[n]].select
         ELSE \E i \in DOMAIN expansion : expansion[i].nav = n /\ Below(n) \subseteq expansion[i].select

UrlInv == ParamsInv /\ OptionsInv /\ MergeInv
=============================================================================
