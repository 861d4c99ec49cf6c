----------------------------- MODULE ExpandTree -----------------------------
(***************************************************************************)
(* $expand of a collection.  ApplyPerParentExpand runs after the parents   *)
(* were read: for every option it collects the keys of the parents, reads  *)
(* the children of all of them in batches of one statement each, groups    *)
(* the children by parent, cuts the page of each parent and descends into  *)
(* the nested options before it takes the next one.  The response layer    *)
(* then hides the row that was read ahead.  Nothing holds a transaction,   *)
(* so writers run between any two statements.                              *)
(*                                                                         *)
(* The entity type is a tree: Children is the to-many navigation property  *)
(* (foreign key up on the child), Parent the to-one property over the same *)
(* column.  The options are a tree too, kept as a function from positions: *)
(* <<2, 1>> is the first option nested in the second one of the request.   *)
(***************************************************************************)
EXTENDS Integers, Sequences, FiniteSets, SequencesExt

CONSTANTS
  EntityKeys,     \* keys, integers
  Tables,         \* initial tables: functions from some of them to [up, val]
  Expands,        \* values of $expand: functions from positions to options
  Permits,        \* row filters a policy may add: "all", or "val" for val = 1
  MaxExpandDepth,
  BatchSize,      \* maxBatchSize(1): parent keys in one statement
  MaxExpandWrites

NoKey == 0
NoTop == -1
AllLevels == -1
OptionTypes ==
  [nav : {"Children", "Parent"}, filter : SUBSET {"val"}, desc : BOOLEAN, skip : Nat, top : Nat \cup {NoTop},
   select : BOOLEAN, levels : Nat \cup {AllLevels}]
IsExpand(e) ==
  IsFiniteSet(DOMAIN e) /\ DOMAIN e \subseteq Seq(Nat) \ {<<>>} /\ \A q \in DOMAIN e : e[q] \in OptionTypes
IsTable(t) == DOMAIN t \subseteq EntityKeys /\ \A r \in DOMAIN t : t[r] \in [up : Int, val : {0, 1}]

ASSUME ExpandAssumption ==
  /\ IsFiniteSet(EntityKeys) /\ EntityKeys \subseteq Int \ {NoKey}
  /\ \A t \in Tables : IsTable(t)
  /\ \A e \in Expands : IsExpand(e)
  /\ Permits \subseteq {"all", "val"}
  /\ MaxExpandDepth \in Nat \ {0} /\ BatchSize \in Nat \ {0} /\ MaxExpandWrites \in Nat

VARIABLES
  expandTable,   \* the rows of the database
  expandWrites,  \* writes so far
  permit,        \* the policy's row filter for this request
  phase,         \* "asked", "unrolling", "parsed", "reading", "done", "failed" or "rejected"
  expand,        \* the options of the request
  frames,        \* call stack of ApplyPerParentExpand, innermost first
  fields,        \* navigation fields set so far: [at, nav, rows, opt]
  states,        \* every table since the parents were read
  reply          \* how the answer is written: [metadataLevel, maps]
expandVars == <<expandTable, expandWrites, permit, phase, expand, frames, fields, states, reply>>

-----------------------------------------------------------------------------
(* Sequences: the members at some places, in their order.                  *)

InOrder(P) == CHOOSE s \in SetToSeqs(P) : \A i, j \in DOMAIN s : i < j => s[i] < s[j]
Pick(s, P) == LET order == InOrder(P) IN [i \in 1..Cardinality(P) |-> s[order[i]]]

-----------------------------------------------------------------------------
(* Parsing: an option is [nav, filter, desc, skip, top, select, levels];   *)
(* select stands for what makes maps of its objects: a nested $select or,  *)
(* in an option of the request, $compute.                                  *)

\* parseExpandWithConfig: a list at depth d is refused from MaxExpandDepth on.
TooDeep(e) == \E q \in DOMAIN e : Len(q) > MaxExpandDepth

\* resolveExpandLevels; 0 stands for an option without $levels.
LevelsRefused(e) == \E q \in DOMAIN e : e[q].levels > MaxExpandDepth
resolveExpandLevels(n) == IF n = AllLevels THEN MaxExpandDepth ELSE n

Nested(e, list) == {q \in DOMAIN e : Front(q) = list}
Under(e, q) == {r \in DOMAIN e : IsPrefix(q, r)}

\* buildLevelsExpansion: the option and what is nested in it come again as the
\* last of its nested options, and there again, n levels in all.
buildLevelsExpansion(e, q, n) ==
  LET again == Cardinality(Nested(e, q)) + 1
      copy(k, r) == q \o [j \in 1..k |-> again] \o SubSeq(r, Len(q) + 1, Len(r))
      copies == (1..(n - 1)) \X Under(e, q)
      Origin(s) == IF s \in DOMAIN e THEN s ELSE (CHOOSE c \in copies : copy(c[1], c[2]) = s)[2]
  IN [s \in DOMAIN e \cup {copy(c[1], c[2]) : c \in copies} |->
        IF Origin(s) = q THEN [e[q] EXCEPT !.levels = 0] ELSE e[Origin(s)]]

\* applyPolicyFiltersToExpand: the policy's filter joins that of every option.
WithPolicy(opt, p) == [opt EXCEPT !.filter = @ \cup ({p} \ {"all"})]
PolicyAtTopOnly(e, p) == [q \in DOMAIN e |-> IF Len(q) = 1 THEN WithPolicy(e[q], p) ELSE e[q]]
applyPolicyFiltersToExpand(e, p) == [q \in DOMAIN e |-> WithPolicy(e[q], p)]

\* FindExpandOption: the response layer works with the first option of a name.
FindExpandOption(list, nav) ==
  LET found == {q \in Nested(expand, list) : expand[q].nav = nav}
  IN IF found = {} THEN <<>> ELSE CHOOSE q \in found : \A r \in found : Last(q) <= Last(r)

-----------------------------------------------------------------------------
(* Reading: an object is the struct scanned from a row, with its columns   *)
(* of that moment and the places of the result tree it stands at.  A place *)
(* is the steps from the root, each [nav, pos, row].                       *)

Object(t, r, at) == [row |-> r, up |-> t[r].up, at |-> at]
Hop(nav, pos, row) == [nav |-> nav, pos |-> pos, row |-> row]

PassesFilter(filter, rec) == "val" \in filter => rec.val = 1
\* The orders a statement may return its rows in: without $orderby any.
Orders(t, S, opt) == {s \in SetToSeqs(S) : opt.desc => \A i, j \in DOMAIN s : i < j => t[s[i]].val >= t[s[j]].val}

\* collectParentKeyValues: parents without a key are left out, equal keys once.
KeyOf(obj, nav) == IF nav = "Children" THEN obj.row ELSE obj.up
collectParentKeyValues(objs, nav) ==
  LET firsts == {i \in DOMAIN objs : KeyOf(objs[i], nav) # NoKey /\ \A j \in 1..(i - 1) : KeyOf(objs[j], nav) # KeyOf(objs[i], nav)}
  IN Pick([i \in DOMAIN objs |-> KeyOf(objs[i], nav)], firsts)

\* The key a child is grouped under.
ParentKey(t, r, nav) == IF nav = "Children" THEN t[r].up ELSE r
GroupKey(child, nav) == IF nav = "Children" THEN child.up ELSE child.row

\* The rows of a page: one more than $top, to see if there are more.
Window(s, opt) ==
  SubSeq(s, opt.skip + 1, IF opt.top = NoTop \/ opt.skip + opt.top + 1 > Len(s) THEN Len(s) ELSE opt.skip + opt.top + 1)

\* One statement of fetchChildrenByParentKeys; $skip and $top are stripped.
ChildRows(t, opt, keys) == {r \in DOMAIN t : ParentKey(t, r, opt.nav) \in keys /\ PassesFilter(opt.filter, t[r])}
Scan(t, s) == [i \in DOMAIN s |-> Object(t, s[i], {})]
ChildStatementPaged(t, opt, keys) == {Scan(t, Window(s, opt)) : s \in Orders(t, ChildRows(t, opt, keys), opt)}
ChildStatement(t, opt, keys) == {Scan(t, s) : s \in Orders(t, ChildRows(t, opt, keys), opt)}

\* A call of ApplyPerParentExpand, at the option At of the list it was given.
At(frame) == Append(frame.list, frame.next)
Frame(objs, list, next) ==
  [objs |-> objs, list |-> list, next |-> next, got |-> <<>>,
   keys |-> IF Append(list, next) \in DOMAIN expand THEN collectParentKeyValues(objs, expand[Append(list, next)].nav) ELSE <<>>]
Returns(frame) == At(frame) \notin DOMAIN expand \/ frame.objs = <<>>
Unfinished(stack) == Pick(stack, {i \in DOMAIN stack : ~Returns(stack[i])})

\* groupChildrenByParentKey and applyPerParentPagination: the page of the
\* parents with key k; a to-one property takes the first row.
PageOf(frame, k) ==
  LET opt == expand[At(frame)]
      mine == Pick(frame.got, {i \in DOMAIN frame.got : GroupKey(frame.got[i], opt.nav) = k})
      page == Window(mine, opt)
  IN IF opt.nav = "Parent" /\ page # <<>> THEN <<page[1]>> ELSE page
ParentKeys(frame) == {KeyOf(frame.objs[i], expand[At(frame)].nav) : i \in DOMAIN frame.objs} \ {NoKey}
Places(frame, k) == UNION {frame.objs[i].at : i \in {j \in DOMAIN frame.objs : KeyOf(frame.objs[j], expand[At(frame)].nav) = k}}

\* setNavigationValue.  A field that is set again loses the objects below it.
NewFields(frame) ==
  UNION {{[at |-> p, nav |-> expand[At(frame)].nav, opt |-> At(frame),
           rows |-> [i \in DOMAIN PageOf(frame, k) |-> PageOf(frame, k)[i].row]] : p \in Places(frame, k)} : k \in ParentKeys(frame)}
Replaces(new, f) ==
  \/ f.at = new.at /\ f.nav = new.nav
  \/ Len(f.at) > Len(new.at) /\ IsPrefix(new.at, f.at) /\ f.at[Len(new.at) + 1].nav = new.nav
SetFields(frame) == {f \in fields : \A n \in NewFields(frame) : ~Replaces(n, f)} \cup NewFields(frame)

\* The recursive calls, one per group; a map decides their order.
Children(frame, k) ==
  LET page == PageOf(frame, k)
  IN [i \in DOMAIN page |->
        [page[i] EXCEPT !.at = {Append(p, Hop(expand[At(frame)].nav, i, page[i].row)) : p \in Places(frame, k)}]]
Calls(frame) ==
  IF Append(At(frame), 1) \notin DOMAIN expand THEN {<<>>}
  ELSE {[i \in DOMAIN s |-> Frame(Children(frame, s[i]), At(frame), 1)] : s \in SetToSeqs(ParentKeys(frame))}

-----------------------------------------------------------------------------
\* The metadata level of the answer, and whether a $select of the request or a
\* $compute of one of its options made maps of the parents.
Replies == [metadataLevel : {"full", "minimal", "none"}, maps : BOOLEAN]

ExpandInit ==
  /\ expandTable \in Tables /\ permit \in Permits /\ expand \in Expands
  /\ expandWrites = 0 /\ phase = "asked" /\ frames = <<>> /\ fields = {} /\ states = {}
  /\ reply = [metadataLevel |-> "minimal", maps |-> FALSE]

\* parseExpandWithConfig, and what $levels may ask for.
ParseExpand ==
  /\ phase = "asked"
  /\ phase' = IF TooDeep(expand) \/ LevelsRefused(expand) THEN "rejected" ELSE "unrolling"
  /\ UNCHANGED <<expandTable, expandWrites, permit, expand, frames, fields, states, reply>>

\* The loop of applyExpandLevels: an option with $levels after what it holds.
applyExpandLevels(q) ==
  /\ phase = "unrolling" /\ expand[q].levels # 0
  /\ \A r \in Under(expand, q) : expand[r].levels = 0 \/ r = q
  /\ expand' = buildLevelsExpansion(expand, q, resolveExpandLevels(expand[q].levels))
  /\ UNCHANGED <<expandTable, expandWrites, permit, phase, frames, fields, states, reply>>

\* The policy, before any read.
Authorize ==
  /\ phase = "unrolling" /\ \A q \in DOMAIN expand : expand[q].levels = 0
  /\ phase' = "parsed" /\ expand' = applyPolicyFiltersToExpand(expand, permit)
  /\ UNCHANGED <<expandTable, expandWrites, permit, frames, fields, states, reply>>

\* fetchResults: the statement of the parents, under the policy's filter.
ReadParents ==
  /\ phase = "parsed"
  /\ \E s \in SetToSeqs({r \in DOMAIN expandTable : expandTable[r].up = NoKey /\ (permit = "all" \/ expandTable[r].val = 1)}) :
       frames' = Unfinished(<<Frame([i \in DOMAIN s |-> Object(expandTable, s[i], {<<Hop("root", i, s[i])>>})], <<>>, 1)>>)
  /\ phase' = "reading" /\ states' = {expandTable}
  /\ UNCHANGED <<expandTable, expandWrites, permit, expand, fields, reply>>

\* fetchChildrenByParentKeys: the statement of the next batch.
ReadBatch ==
  /\ phase = "reading" /\ frames # <<>> /\ frames[1].keys # <<>>
  /\ LET keys == frames[1].keys
         n == IF BatchSize < Len(keys) THEN BatchSize ELSE Len(keys)
     IN \E s \in ChildStatement(expandTable, expand[At(frames[1])], {keys[i] : i \in 1..n}) :
          frames' = [frames EXCEPT ![1].got = @ \o s, ![1].keys = SubSeq(@, n + 1, Len(@))]
  /\ UNCHANGED <<expandTable, expandWrites, permit, phase, expand, fields, states, reply>>

\* All batches are read: set the fields, make the nested calls, next option.
Assign ==
  /\ phase = "reading" /\ frames # <<>> /\ frames[1].keys = <<>>
  /\ fields' = SetFields(frames[1])
  /\ \E calls \in Calls(frames[1]) :
       frames' = Unfinished(calls \o <<Frame(frames[1].objs, frames[1].list, frames[1].next + 1)>> \o Tail(frames))
  /\ UNCHANGED <<expandTable, expandWrites, permit, phase, expand, states, reply>>

\* Everything is read: the answer is written as the request asked for.
Respond ==
  /\ phase = "reading" /\ frames = <<>>
  /\ phase' = "done" /\ reply' \in Replies
  /\ UNCHANGED <<expandTable, expandWrites, permit, expand, frames, fields, states>>

\* An error of any statement ends the request; nothing of it is answered.
Abort ==
  /\ phase \in {"parsed", "reading"}
  /\ phase' = "failed" /\ frames' = <<>> /\ fields' = {}
  /\ UNCHANGED <<expandTable, expandWrites, permit, expand, states, reply>>

\* Another request moves, changes or deletes a row, or inserts one.
OtherWrite ==
  /\ phase \in {"parsed", "reading"} /\ expandWrites < MaxExpandWrites
  /\ \/ \E r \in DOMAIN expandTable, p \in DOMAIN expandTable \cup {NoKey} : r # p /\ expandTable' = [expandTable EXCEPT ![r].up = p]
     \/ \E r \in DOMAIN expandTable : expandTable' = [expandTable EXCEPT ![r].val = 1 - @]
     \/ \E r \in DOMAIN expandTable : expandTable' = [s \in DOMAIN expandTable \ {r} |-> expandTable[s]]
     \/ \E r \in EntityKeys \ DOMAIN expandTable, p \in DOMAIN expandTable :
          expandTable' = [s \in DOMAIN expandTable \cup {r} |-> IF s = r THEN [up |-> p, val |-> 1] ELSE expandTable[s]]
  /\ expandTable' # expandTable
  /\ expandWrites' = expandWrites + 1 /\ states' = states \cup (IF phase = "reading" THEN {expandTable'} ELSE {})
  /\ UNCHANGED <<permit, phase, expand, frames, fields, reply>>

ExpandNext ==
  \/ ParseExpand \/ Authorize \/ ReadParents \/ ReadBatch \/ Assign \/ Respond \/ Abort \/ OtherWrite
  \/ \E q \in DOMAIN expand : applyExpandLevels(q)
ExpandSpec == ExpandInit /\ [][ExpandNext]_expandVars

-----------------------------------------------------------------------------
(* The response: what ApplyExpandOptionToValue makes of the fields.        *)

\* The list of options for the fields of the objects at a place.
OptionsAt(at) ==
  CHOOSE list \in {<<>>} \cup DOMAIN expand :
    /\ Len(list) = Len(at) - 1
    /\ \A k \in 1..Len(list) : SubSeq(list, 1, k) = FindExpandOption(SubSeq(list, 1, k - 1), at[k + 1].nav)

\* Only the fields of a struct are truncated, not those of a map.  At the full
\* level nothing at all is done below a parent that is a map.
Truncates(list) ==
  IF list = <<>> THEN ~reply.maps
  ELSE ~expand[list].select /\ ~(reply.maps /\ reply.metadataLevel = "full")

\* TruncateExpandedCollectionToTop, and the next link of a parent's collection.
Shown(f) ==
  LET list == OptionsAt(f.at)
      opt == expand[FindExpandOption(list, f.nav)]
      cut == f.nav = "Children" /\ opt.top # NoTop /\ Len(f.rows) > opt.top /\ Truncates(list)
  IN [rows |-> IF cut THEN SubSeq(f.rows, 1, opt.top) ELSE f.rows,
      link |-> cut /\ list = <<>> /\ reply.metadataLevel # "none"]

\* The level repeats a name when $levels meets a nested $expand of the same property.
NamesTwice == \E q, r \in DOMAIN expand : q # r /\ Front(q) = Front(r) /\ expand[q].nav = expand[r].nav
\* The field is of a map, or below a parent that is one.
UnderMaps(f) == reply.maps \/ \E q \in DOMAIN expand : q = Front(f.opt) /\ expand[q].select

-----------------------------------------------------------------------------
(* What one parent's page is: the rows after $skip, at most $top, of the   *)
(* parent's own matching children in an order $orderby allows.             *)

Page(s, opt) ==
  SubSeq(s, opt.skip + 1, IF opt.top = NoTop \/ opt.skip + opt.top > Len(s) THEN Len(s) ELSE opt.skip + opt.top)

\* Whatever writers do between the statements, and however the parents fall
\* into batches, the collection of a to-many property is the page its parent had
\* in one state of the database during the read, below maps perhaps with the one
\* row that was read ahead; and a next link is given exactly when that state had
\* more rows, at the top, outside maps and above the metadata level none
\* (expand_per_parent.go:392-520, expand_annotations.go:275-366,
\* navigation_links.go:402-466).  Not claimed where $levels and $expand name one
\* property twice: the response layer takes the options of the first for both.
EachPageIsOneState ==
  phase = "done" /\ ~NamesTwice =>
    \A f \in fields : f.nav = "Children" =>
      LET opt == expand[f.opt] IN
      \E t \in states : \E s \in Orders(t, ChildRows(t, opt, {Last(f.at).row}), opt) :
        LET more == opt.top # NoTop /\ Len(s) > opt.skip + opt.top IN
        /\ Shown(f).rows = Page(s, opt) \/ (UnderMaps(f) /\ Shown(f).rows = Window(s, opt))
        /\ Shown(f).link <=> more /\ Len(f.at) = 1 /\ ~reply.maps /\ reply.metadataLevel # "none"

\* The row read ahead to see if there are more is for the server alone: no
\* expanded collection holds more than its $top.
ExpandedPagesAreCut ==
  phase = "done" /\ ~NamesTwice =>
    \A f \in fields : f.nav = "Children" /\ expand[f.opt].top # NoTop =>
      Len(Shown(f).rows) <= expand[f.opt].top

\* No row appears anywhere in the tree that the policy's filter excluded in
\* every state of the read: the filter reaches nested options and the levels
\* that $levels unrolls (auth.go:95-120).
PolicyReachesEveryLevel ==
  phase = "done" /\ permit = "val" =>
    \A f \in fields : \A i \in DOMAIN f.rows : \E t \in states : f.rows[i] \in DOMAIN t /\ t[f.rows[i]].val = 1

-----------------------------------------------------------------------------
(* The inductive invariant behind both.                                    *)

Hops == [nav : {"root", "Children", "Parent"}, pos : Nat, row : Int]
Objects == [row : Int, up : Int, at : SUBSET Seq(Hops)]

\* A place in the result stands below the options of a list: each step is the
\* navigation property of the option it was taken for.
StandsBelow(p, list) ==
  /\ Len(p) = Len(list) + 1
  /\ \A k \in 1..Len(list) : SubSeq(list, 1, k) \in DOMAIN expand /\ expand[SubSeq(list, 1, k)].nav = p[k + 1].nav

Mine(frame, k) == {i \in DOMAIN frame.got : GroupKey(frame.got[i], expand[At(frame)].nav) = k}
\* The children of k are all there, once each, in an order of table t.
WereRead(frame, k, t) ==
  LET opt == expand[At(frame)] IN
  /\ {frame.got[i].row : i \in Mine(frame, k)} = ChildRows(t, opt, {k})
  /\ \A i, j \in Mine(frame, k) :
       i < j => /\ frame.got[i].row # frame.got[j].row
                /\ opt.desc => t[frame.got[i].row].val >= t[frame.got[j].row].val

Frames == [objs : Seq(Objects), list : Seq(Nat), next : Nat, got : Seq(Objects), keys : Seq(Int)]
FrameTypes(frame) ==
  /\ frame \in Frames
  /\ \A i \in DOMAIN frame.objs : \A p \in frame.objs[i].at :
       StandsBelow(p, frame.list) /\ Last(p).row = frame.objs[i].row
\* The keys are the parents', once each: what is still to be read has not been,
\* the rest was read in one statement.
BatchesAgree(frame) ==
  /\ \A i, j \in DOMAIN frame.keys : i # j => frame.keys[i] # frame.keys[j]
  /\ ToSet(frame.keys) \subseteq ParentKeys(frame)
  /\ \A k \in ParentKeys(frame) :
       IF k \in ToSet(frame.keys) THEN Mine(frame, k) = {} ELSE \E t \in states : WereRead(frame, k, t)
FrameInv(frame) == FrameTypes(frame) /\ At(frame) \in DOMAIN expand /\ BatchesAgree(frame)

\* A field is the page of its parent in one state, of rows that passed the filter.
FieldsAgree(f) ==
  /\ f.opt \in DOMAIN expand /\ f.nav = expand[f.opt].nav
  /\ f.at \in Seq(Hops) /\ StandsBelow(f.at, Front(f.opt))
  /\ f.nav = "Children" =>
       \E t \in states : \E s \in Orders(t, ChildRows(t, expand[f.opt], {Last(f.at).row}), expand[f.opt]) :
         f.rows = Window(s, expand[f.opt])
  /\ \A i \in DOMAIN f.rows : \E t \in states :
       f.rows[i] \in DOMAIN t /\ PassesFilter(expand[f.opt].filter, t[f.rows[i]])

ExpandInv ==
  /\ permit \in Permits /\ IsTable(expandTable) /\ IsExpand(expand) /\ \A t \in states : IsTable(t)
  /\ phase \in {"asked", "unrolling", "parsed"} => states = {}
  /\ phase = "reading" => expandTable \in states
  /\ phase \notin {"reading", "done"} => frames = <<>> /\ fields = {}
  /\ phase \in {"parsed", "reading", "done"} /\ permit = "val" => \A q \in DOMAIN expand : "val" \in expand[q].filter
  /\ frames \in Seq(Frames) /\ \A frame \in ToSet(frames) : FrameInv(frame)
  /\ \A f \in fields : FieldsAgree(f)
=============================================================================
