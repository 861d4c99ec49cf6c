--------------------------- MODULE CollectionRead ---------------------------
(***************************************************************************)
(* One client walks an entity set page by page, following every            *)
(* @odata.nextLink, while writers change the table: handleGetCollection    *)
(* and executeCollectionQuery of internal/handlers, the skip token of      *)
(* internal/skiptoken and the parts of internal/query that order and limit *)
(* the query.                                                              *)
(*                                                                         *)
(* The count and the page are two queries and nothing ties them, or two    *)
(* pages, to one state of the table: each runs against the rows of its own *)
(* moment.  A page is read with one row more than asked for; the surplus   *)
(* row is what makes the server offer a link.                              *)
(***************************************************************************)
EXTENDS Integers, Sequences, FiniteSets

CONSTANTS
  KeySets,     \* the possible sets of keys; a key is a sequence of key values
  Values,      \* values of the property clients order by
  Requests,    \* first requests of a walk
  Matching,    \* keys of the rows that $search or the type cast keeps
  Exact,       \* largest key value a JSON number carries exactly
  MaxWrites    \* bound on the writes that happen during the walk

None == -1     \* a nil pointer: the option is absent
Null == -2     \* SQL NULL, sorted before every value

\* The shape of the fetched rows decides what a skip token can be built from:
\* whole structs; structs whose order column $select left out; maps without
\* the order property ($select with $expand); structs without json tags.
Shapes == {"struct", "flat", "map", "untagged"}
Orders == {"none", "asc", "desc"}

\* A skip token names a row; a client may also send one that does not decode.
Token(k, r, o) == [kind |-> "row", k |-> k, r |-> r, o |-> o]
NoToken == [kind |-> "none"]
Garbage == [kind |-> "garbage"]
NoLink == [kind |-> "none"]

Number == Nat \cup {None}
Tokens == {NoToken, Garbage} \cup
          [kind : {"row"}, k : Nat, r : Nat, o : Nat \cup {None, Null}]
Options == [orderby : Orders, shape : Shapes, restrict : {"none", "db", "memory"},
            top : Number, skip : Number, token : Tokens, count : BOOLEAN,
            maxpage : Number, entityTop : Number, serviceTop : Number]

\* A table has finitely many rows and one number of key columns.  A walk
\* begins at the first page: a first request that has a token has a $skip as
\* well and is refused.
ASSUME CollectionReadAssumption ==
  /\ \A ks \in KeySets :
       /\ IsFiniteSet(ks)
       /\ \A k \in ks : k \in Seq(Nat) /\ k # <<>>
       /\ \A j, k \in ks : Len(j) = Len(k)
  /\ 0 \in Values /\ Values \subseteq Nat
  /\ Requests \subseteq Options
  /\ \A r \in Requests : r.token.kind = "row" => r.skip # None
  /\ Exact \in Nat /\ MaxWrites \in Nat

VARIABLES
  keys,      \* the key set of this table
  nullable,  \* the order property is a pointer
  rows,      \* the table: key -> value of the order property
  pc,        \* step of the request in hand
  req,       \* its query options
  top,       \* Top after the preference and the defaults
  total,     \* what the last count query returned
  page,      \* what the fetch returned, in order
  link,      \* options of the next link, or NoLink
  returned,  \* how often the client saw each key, saturating at 2
  passed,    \* keys that $skip of the first page passed over
  touched,   \* keys written since the walk began
  clean      \* order values have been distinct and not null all the time

walk == <<req, top, total, page, link, returned, passed>>
table == <<keys, nullable, rows, touched, clean>>
vars == <<keys, nullable, rows, pc, req, top, total, page, link, returned,
          passed, touched, clean>>

Column == IF nullable THEN Values \cup {Null} ELSE Values
ZeroValue == IF nullable THEN Null ELSE 0
Distinct(t) == /\ \A k \in DOMAIN t : t[k] # Null
               /\ \A j, k \in DOMAIN t : t[j] = t[k] => j = k

Init ==
  /\ keys \in KeySets
  /\ nullable \in BOOLEAN
  /\ rows \in UNION {[S -> Column] : S \in SUBSET keys}
  /\ pc = "begun"
  /\ req \in Requests
  /\ top = None /\ total = None /\ link = NoLink
  /\ page = <<>>
  /\ returned = [k \in keys |-> 0]
  /\ passed = {} /\ touched = {}
  /\ clean = Distinct(rows)

-----------------------------------------------------------------------------
(* Ordering and the skip token.                                            *)

LexLess(j, k) ==
  \E i \in DOMAIN j : j[i] < k[i] /\ \A h \in 1..(i - 1) : j[h] = k[h]

\* The implicit order by every key column, or ORDER BY the property alone:
\* nothing breaks a tie.
Before(j, k, order) ==
  CASE order = "none" -> LexLess(j, k)
    [] order = "asc"  -> rows[j] < rows[k]
    [] order = "desc" -> rows[k] < rows[j]

\* Every sequence the database may return for the rows S.
Orderings(S, order) ==
  {s \in [1..Cardinality(S) -> S] :
     /\ \A i, j \in DOMAIN s : i # j => s[i] # s[j]
     /\ \A i, j \in DOMAIN s : i < j => ~Before(s[j], s[i], order)}

\* A number that went through JSON is a float64: beyond Exact only every
\* second integer is left, ties go to the even mantissa.
Float(n) == IF n <= Exact \/ n % 2 = 0 THEN n
            ELSE IF n % 4 = 1 THEN n - 1 ELSE n + 1

\* ExtractFromEntity and Encode, then Decode on the next request.  With
\* several key properties the reader picks one of the decoded key values by
\* ranging over a map: r.
TokensOf(row, order, shape) ==
  IF shape = "untagged" \/ (shape = "map" /\ order # "none") THEN {}
  ELSE {Token(Float(row.k[1]), Float(row.k[i]), IF order = "none" THEN None ELSE row.v) :
          i \in DOMAIN row.k}

AfterTokenInclusive(k, t, order) ==
  \/ t = NoToken
  \/ t # NoToken /\ order = "none" /\ k[1] >= t.k
  \/ t # NoToken /\ order # "none" /\ rows[k] >= t.o

\* applySkipTokenFilter: the comparison is SQL, so NULL matches nothing.
AfterToken(k, t, order) ==
  \/ t = NoToken
  \/ t # NoToken /\ order = "none" /\ k[1] > t.k
  \/ /\ t # NoToken /\ order # "none" /\ rows[k] # Null /\ t.o # Null
     /\ \/ order = "asc" /\ rows[k] > t.o
        \/ order = "desc" /\ rows[k] < t.o
        \/ rows[k] = t.o /\ k[1] > t.r

Limit(s, n) == IF n = None \/ n >= Len(s) THEN s ELSE SubSeq(s, 1, n)
Offset(s, n) == IF n = None THEN s ELSE SubSeq(s, n + 1, Len(s))
Restricted(k, how) == how = "none" \/ k \in Matching

\* What is left of s, in its order, when the rows that match are picked in
\* memory.
Selections(s) ==
  LET S == {s[i] : i \in DOMAIN s} \cap Matching
  IN {t \in [1..Cardinality(S) -> S] :
        \A i, j \in DOMAIN t : i < j =>
          \E g, h \in DOMAIN s : g < h /\ s[g] = t[i] /\ s[h] = t[j]}

-----------------------------------------------------------------------------
(* The request.                                                            *)

\* parseSkipTokenOption and validateSkipToken.
ValidOptions == /\ req.skip = None \/ req.token = NoToken
                /\ req.token # Garbage

\* applyMaxPageSize, then applyDefaultMaxTop.
PageSize(o) ==
  LET asked == IF o.maxpage # None /\ (o.top = None \/ o.top > o.maxpage)
               THEN o.maxpage ELSE o.top
  IN IF asked # None THEN asked
     ELSE IF o.entityTop # None THEN o.entityTop ELSE o.serviceTop

\* parseCollectionQueryOptions and beforeReadCollection: 400 for bad options,
\* 403 when a policy or a hook refuses.
ParseQueryOptions ==
  /\ pc = "begun"
  /\ \/ ValidOptions /\ pc' = "count" /\ top' = PageSize(req)
     \/ pc' = "failed" /\ top' = top
  /\ UNCHANGED <<table, req, total, page, link, returned, passed>>

CountRows == Cardinality({k \in DOMAIN rows : Restricted(k, req.restrict)})

\* countEntities: neither $top, $skip nor the token counts; a restriction
\* the database cannot evaluate is applied to all rows in memory.
CountEntities ==
  /\ pc = "count"
  /\ \/ /\ pc' = "fetch"
        /\ total' = IF req.count
                    THEN CountRows
                    ELSE None
     \/ req.count /\ pc' = "failed" /\ UNCHANGED total
  /\ UNCHANGED <<table, req, top, page, link, returned, passed>>

\* applySelect: a column that is not selected is not read, and the field of
\* the struct stays at its zero value.
Fetched(k) == IF req.shape = "flat" THEN ZeroValue ELSE rows[k]

\* fetchResults: WHERE, ORDER BY, OFFSET, LIMIT top + 1, and only then the
\* restriction the database did not evaluate.
FetchResults ==
  /\ pc = "fetch"
  /\ \/ /\ pc' = "fetched"
        /\ \E s \in Orderings({k \in DOMAIN rows :
                                 /\ AfterToken(k, req.token, req.orderby)
                                 /\ req.restrict = "db" => k \in Matching},
                              req.orderby) :
             LET rest == Offset(s, req.skip)
                 read == Limit(rest, IF top = None THEN None ELSE top + 1)
             IN /\ \E kept \in IF req.restrict = "memory" THEN Selections(read) ELSE {read} :
                     page' = [i \in DOMAIN kept |-> [k |-> kept[i], v |-> Fetched(kept[i])]]
                /\ passed' = IF link = NoLink
                             THEN {s[i] : i \in DOMAIN s} \ {rest[i] : i \in DOMAIN rest}
                             ELSE passed
     \/ pc' = "failed" /\ UNCHANGED <<page, passed>>
  /\ UNCHANGED <<table, req, top, total, link, returned>>

NextLinksKeepSkip ==
  IF top = None \/ Len(page) <= top THEN {NoLink}
  ELSE {[req EXCEPT !.token = t] : t \in TokensOf(page[1], req.orderby, req.shape)}

\* calculateNextLink: the token of the last row of the page, or $skip when
\* there is no such row or no token for it.  Both links keep the other
\* options of the request.
NextLinks ==
  IF top = None \/ Len(page) <= top THEN {NoLink}
  ELSE LET tokens == IF top = 0 THEN {} ELSE TokensOf(page[top], req.orderby, req.shape)
           skip == (IF req.skip = None THEN 0 ELSE req.skip) + top
       IN IF tokens # {}
          THEN {[req EXCEPT !.skip = None, !.token = t] : t \in tokens}
          ELSE {[req EXCEPT !.skip = skip, !.token = NoToken]}

\* trimResults, the after-read hook (403 when it refuses) and the response.
WriteResponse ==
  /\ pc = "fetched"
  /\ \/ /\ \E l \in NextLinks : /\ link' = l
                                /\ pc' = IF l = NoLink THEN "ended" ELSE "answered"
        /\ LET seen == Limit(page, top)
           IN returned' = [k \in keys |->
                IF \E i \in DOMAIN seen : seen[i].k = k
                THEN IF returned[k] = 2 THEN 2 ELSE returned[k] + 1
                ELSE returned[k]]
     \/ pc' = "failed" /\ UNCHANGED <<link, returned>>
  /\ UNCHANGED <<table, req, top, total, page, passed>>

FollowLink ==
  /\ pc = "answered"
  /\ pc' = "begun"
  /\ req' = link
  /\ UNCHANGED <<table, top, total, page, link, returned, passed>>

-----------------------------------------------------------------------------
(* Other clients: an insert, an update of the order property or a delete.  *)

Write(k) ==
  /\ pc \notin {"ended", "failed"}
  /\ Cardinality(touched) < MaxWrites
  /\ k \notin touched
  /\ \/ /\ k \in DOMAIN rows
        /\ rows' = [j \in DOMAIN rows \ {k} |-> rows[j]]
     \/ \E v \in Column :
          rows' = [j \in DOMAIN rows \cup {k} |-> IF j = k THEN v ELSE rows[j]]
  /\ touched' = touched \cup {k}
  /\ clean' = (clean /\ Distinct(rows'))
  /\ UNCHANGED <<keys, nullable, pc, walk>>

ServerStep == \/ ParseQueryOptions
              \/ CountEntities
              \/ FetchResults
              \/ WriteResponse

Next ==
  \/ ServerStep
  \/ FollowLink
  \/ \E k \in keys : Write(k)

Spec == Init /\ [][Next]_vars

\* A handler runs to its end, and the client under consideration follows
\* every link it is given.
FairSpec == Spec /\ WF_vars(ServerStep) /\ WF_vars(FollowLink)

-----------------------------------------------------------------------------
(* Properties.                                                             *)

\* Every variable keeps its type; the request and the link are query options,
\* and a page is a sequence of keys of the table's key set.
TypeOK ==
  /\ keys \in KeySets /\ nullable \in BOOLEAN
  /\ \E S \in SUBSET keys : rows \in [S -> Column]
  /\ pc \in {"begun", "count", "fetch", "fetched", "answered", "ended", "failed"}
  /\ req.orderby \in Orders /\ req.shape \in Shapes /\ req.skip \in Nat \cup {None}
  /\ link # NoLink => link.skip = None \/ link.token = NoToken
  /\ \A i \in DOMAIN page : page[i].k \in keys
  /\ total \in Nat \cup {None} /\ top \in Nat \cup {None}
  /\ returned \in [keys -> 0..2]
  /\ passed \subseteq keys /\ touched \subseteq keys

\* What the keyset cursor needs in order to resume where the page ended: one
\* key column whose values survive JSON, a page of at least one row, no
\* restriction left to memory, and, under $orderby, whole rows with order
\* values that tell the rows apart.
Resumable ==
  /\ \A k \in keys : Len(k) = 1 /\ Float(k[1]) = k[1]
  /\ top # 0 /\ (req.restrict = "memory" => top = None)
  /\ req.shape \in {"struct", "flat"} \/ (req.shape = "map" /\ req.orderby = "none")
  /\ req.orderby # "none" => req.shape = "struct" /\ clean

\* A page by $skip is only as stable as the table: nothing was written and
\* the order leaves no choice.
Countable == /\ req.shape = "untagged" \/ (req.shape = "map" /\ req.orderby # "none")
             /\ touched = {}
             /\ top # 0 /\ (req.restrict = "memory" => top = None)
             /\ req.orderby # "none" => clean

\* When the walk has ended, a row that was there from beginning to end and
\* that nobody wrote was returned exactly once, whatever was inserted,
\* deleted or moved around it - provided the cursor is resumable or the
\* table stood still.  (applySkipTokenFilter, calculateNextLink.)
UntouchedRowsExactlyOnce ==
  pc = "ended" /\ (Resumable \/ Countable) =>
    \A k \in DOMAIN rows \ touched :
      Restricted(k, req.restrict) /\ k \notin passed => returned[k] = 1

\* The count the client was told on the last page is the number of rows the
\* whole walk returned or $skip passed over, when nobody wrote: the count
\* query and the page queries restrict the rows in the same way.
\* (countEntities against fetchResults.)
CountMatchesWalk ==
  pc = "ended" /\ total # None /\ touched = {} /\ (Resumable \/ Countable) =>
    total = Cardinality({k \in keys : returned[k] > 0} \cup
                        {k \in passed : Restricted(k, req.restrict)})

\* A walk over pages loses and repeats no row and agrees with its count, and
\* its links and pages are well-formed (collection_read.go).
WalkIsExact == TypeOK /\ UntouchedRowsExactlyOnce /\ CountMatchesWalk

-----------------------------------------------------------------------------
(* The inductive invariant.                                                *)

\* A row that a walk over the present table owes its client.
Due(k) == k \in DOMAIN rows \ touched /\ Restricted(k, req.restrict)

Selected(r) == {k \in DOMAIN rows : r.restrict = "db" => k \in Matching}
Rank(k, r) == Cardinality({j \in Selected(r) : Before(j, k, r.orderby)})

\* The row lies ahead of where the request r of a link resumes the walk.
Ahead(k, r) == IF r.token # NoToken THEN AfterToken(k, r.token, r.orderby)
               ELSE Rank(k, r) >= r.skip

Handled(k) == returned[k] = 1 \/ k \in passed

Asking == pc \in {"begun", "count", "fetch"}

\* A link asks for the same rows as the request it was made for.
SameWalk(l, r) == l \in Options /\ l = [r EXCEPT !.skip = l.skip, !.token = l.token]

\* A link goes on with a token where there can be one, with $skip elsewhere.
Cursor(l) == /\ l.token = NoToken \/ (l.token.kind = "row" /\ l.skip = None)
             /\ l.token # NoToken \/ l.skip # None
             /\ Resumable => l.token # NoToken
             /\ Countable => l.token = NoToken

\* Requests and links are of one walk.
LinksAgree ==
  /\ req \in Options
  /\ link # NoLink => SameWalk(link, req) /\ Cursor(link)
  /\ link # NoLink /\ Asking => req = link
  /\ link # NoLink \/ pc \notin {"begun", "failed"} => top = PageSize(req)
  /\ link = NoLink => /\ Asking => returned = [k \in keys |-> 0] /\ passed = {}
                      /\ pc = "begun" => req \in Requests
                      /\ pc \in {"count", "fetch"} => req.token = NoToken
  /\ pc = "answered" => link # NoLink

\* Between two pages: what lies ahead has not been returned, what lies
\* behind has been.
WalkContinues ==
  link # NoLink /\ (Asking \/ pc = "answered") /\ (Resumable \/ Countable) =>
    \A k \in keys : Due(k) =>
      IF Ahead(k, link) THEN returned[k] = 0 ELSE Handled(k)

Shown(k) == \E i \in DOMAIN page : page[i].k = k /\ (top = None \/ i <= top)

\* With a page in hand: the rows on it are new to the client, and its link
\* leaves behind exactly them and what was left behind before.
PageAdvances ==
  pc = "fetched" /\ (Resumable \/ Countable) =>
    \A k \in keys, l \in NextLinks : Due(k) =>
      IF Shown(k) THEN returned[k] = 0 /\ (l # NoLink => ~Ahead(k, l))
      ELSE IF l # NoLink /\ Ahead(k, l) THEN returned[k] = 0
      ELSE Handled(k)

WalkIsDone ==
  pc = "ended" /\ (Resumable \/ Countable) => \A k \in keys : Due(k) => Handled(k)

\* While nobody writes, all that was counted, read and returned is of the
\* one table there is.
StillTable ==
  touched = {} =>
    /\ total # None => total = CountRows
    /\ passed \subseteq DOMAIN rows
    /\ \A k \in keys : returned[k] > 0 => k \in DOMAIN rows /\ Restricted(k, req.restrict)
    /\ pc = "fetched" => \A i \in DOMAIN page :
         page[i].k \in DOMAIN rows /\ Restricted(page[i].k, req.restrict)

\* A page is a sequence of rows of the table's key set, and clean means what
\* it says.
PageOK == /\ page \in Seq([k : keys, v : Column])
          /\ clean => Distinct(rows)

\* The rows ahead of a walk are those it has not returned.
WalkInv == TypeOK /\ PageOK /\ LinksAgree /\ WalkContinues /\ PageAdvances
             /\ WalkIsDone /\ StillTable

\* A client that follows a resumable cursor comes to the end of the set: no
\* page leads back to an earlier one.  (BuildNextLinkWithSkipToken.)
WalkEnds == (pc = "begun" /\ Resumable) ~> (pc \in {"ended", "failed"} \/ ~Resumable)
=============================================================================
