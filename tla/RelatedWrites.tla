--------------------------- MODULE RelatedWrites ---------------------------
(***************************************************************************)
(* Writes that touch more than the addressed row: $ref requests            *)
(* (internal/handlers/navigation_properties.go), @odata.bind (bind.go),    *)
(* inline entities (deep_update.go, collection_write.go), stream and media *)
(* content (stream_properties.go, entity_media.go), singletons             *)
(* (singleton.go), and the plain writes they meet.                         *)
(*                                                                         *)
(* A product refers to at most one category by its link column, which is   *)
(* the single-valued Category of a product and the collection Products of  *)
(* a category.  POST, PATCH and DELETE of an entity run in a transaction   *)
(* and record a change event; every other handler reads with one statement *)
(* and writes with another on the shared connection, and records nothing.  *)
(* The database is external: it enforces no foreign keys, and GORM's Save  *)
(* and associations are modelled by the statements they issue.             *)
(***************************************************************************)
EXTENDS TLC

CONSTANTS
  Products,   \* keys of products
  Me,         \* the singleton: one row that is never deleted
  Categories, \* keys of categories
  Clients,    \* each sends one request; also the values they write
  LinkRequests,   \* what they may ask for
  InitialProducts, InitialCategories, \* the rows at the start
  DbMayFail   \* whether a statement or a commit may fail

None == "none"     \* SQL NULL or a zero value
Gone == "gone"     \* no such row
Kept == "kept"     \* the value a row has at the start
Cols == {"name", "link", "photo", "media"}

\* What a request that is not refused names: rows of the sets it is about, and
\* a link that comes with it in one of the ways its kind knows.
LinkWays(kind) ==
  CASE kind = "post" -> {"bind", "fk", "inline"} [] kind = "patch" -> {"bind", "fk"} [] OTHER -> {"fk"}
WellFormed(q) ==
  /\ q.kind \in {"post", "patch", "put", "putRef", "addRef", "removeRef", "deleteRef", "putStream",
                 "putMedia", "delete"} => q.p \in Products
  /\ q.kind \in {"patchMe", "putMe"} => q.p = Me
  /\ q.kind \in {"putRef", "addRef", "removeRef", "postCategory", "patchCategory", "deleteCategory"}
       => q.c \in Categories
  /\ q.kind \in {"postCategory", "patchCategory"} => q.ps \subseteq Products
  /\ q.kind \in {"post", "patch", "put"} =>
       \/ q.by = "none" /\ q.link = None
       \/ q.by \in LinkWays(q.kind) /\ q.link \in Categories

ASSUME RelatedAssumption ==
  /\ Me \notin Products /\ None \notin Products /\ Products \cap Categories = {}
  /\ \A q \in LinkRequests : q.form = "ok" => WellFormed(q)
  /\ InitialProducts \subseteq Products
  /\ InitialCategories \subseteq Categories
  /\ {None, Gone, Kept} \cap (Clients \cup Categories) = {}
  /\ DbMayFail \in BOOLEAN

Rows    == Products \cup {Me}
Values  == Clients \cup Categories \cup {None, Kept}
NoRow   == [x \in Cols |-> Gone]
Blank   == [x \in Cols |-> None]
FirstRow == [Blank EXCEPT !.name = Kept, !.photo = Kept, !.media = Kept]

VARIABLES
  product,  \* the table of products, and the singleton's row
  category, \* the table of categories: the name of each
  step,       \* step of each client's request
  req,      \* the request
  entity,   \* the rows its handler read, NoRow for the others
  pending,  \* its changeEvents: at most one
  told,     \* per row what the change feed said last
  status,   \* its answer
  \* history
  last,     \* per product, the value each column was last asked to have
  clobbered,\* products whose row was written from a stale or partial read
  unfed,    \* rows last changed by a write that records no event of them
  overtaken,\* rows committed again before an earlier commit's event
  deleted,  \* categories that were deleted
  unchecked \* links written without looking for their target

relatedVars == <<product, category, step, req, entity, pending, told, status, last,
          clobbered, unfed, overtaken, deleted, unchecked>>

tables  == <<product, category>>
history == <<last, clobbered, unfed, overtaken, deleted, unchecked>>

NoRequest == [kind |-> None]
NothingRead == [p \in Rows |-> NoRow]
NoEvent == [row |-> None, value |-> NoRow]

RelatedInit ==
  /\ product = [p \in Rows |->
       IF p \in InitialProducts \cup {Me} THEN FirstRow ELSE NoRow]
  /\ category = [c \in Categories |->
       IF c \in InitialCategories THEN Kept ELSE Gone]
  /\ step = [x \in Clients |-> "idle"]
  /\ req = [x \in Clients |-> NoRequest]
  /\ entity = [x \in Clients |-> NothingRead]
  /\ pending = [x \in Clients |-> NoEvent]
  /\ told = [r \in Products \cup Categories |->
       IF r \in Products THEN product[r] ELSE category[r]]
  /\ status = [x \in Clients |-> None]
  /\ last = product
  /\ clobbered = {} /\ unfed = {} /\ overtaken = {}
  /\ deleted = {} /\ unchecked = {}

-----------------------------------------------------------------------------
(* Statements GORM issues.                                                 *)

\* Updates of named columns: UPDATE ... WHERE key; no row, no change.
Updates(row, new) ==
  IF row = NoRow THEN row
  ELSE [x \in Cols |-> IF x \in DOMAIN new THEN new[x] ELSE row[x]]

\* One column and its new value.
Only(column, value) == [k \in {column} |-> value]

\* Save: UPDATE of every column; INSERT when no row was updated.
Save(row, value) == value

\* Append and Replace on a one-to-many association insert the target as it
\* was read, and on conflict set the foreign key only.
UpsertLink(row, read, c) ==
  [(IF row = NoRow THEN read ELSE row) EXCEPT !.link = c]

\* Replace also clears the foreign key of the category's other products.
ReplaceProducts(c, P, read) ==
  [p \in Rows |-> IF p \in P THEN UpsertLink(product[p], read[p], c)
                  ELSE IF product[p].link = c
                       THEN [product[p] EXCEPT !.link = None]
                       ELSE product[p]]

-----------------------------------------------------------------------------
(* The request.                                                            *)

\* The answer ends the request and, with it, its local variables.
Answer(x, s) ==
  /\ status' = [status EXCEPT ![x] = s]
  /\ step' = [step EXCEPT ![x] = "done"]
  /\ req' = [req EXCEPT ![x] = NoRequest]
  /\ entity' = [entity EXCEPT ![x] = NothingRead]

Step(x, next) ==
  /\ step' = [step EXCEPT ![x] = next]
  /\ UNCHANGED <<status, req>>

\* Answers before any statement: permission, an unknown navigation property,
\* one of the wrong multiplicity for the method, a body without @odata.id, and
\* an @odata.id of another entity set.
Refusal(form) ==
  [auth |-> "403", nav |-> "404", kind |-> "400", body |-> "400",
   id |-> "400"][form]

\* Handlers that read the addressed row first; the others begin with targets.
ReadsRow == {"patch", "put", "putRef", "deleteRef", "putStream", "putMedia",
             "patchMe", "putMe", "delete"}
ReadsCategory == {"addRef", "removeRef", "patchCategory", "deleteCategory"}

HandleRequest(x) ==
  /\ step[x] = "idle"
  /\ \E q \in LinkRequests :
       IF q.form = "ok"
       THEN /\ req' = [req EXCEPT ![x] = q]
            /\ step' = [step EXCEPT ![x] =
                  IF q.kind \in ReadsRow \cup ReadsCategory
                  THEN "read" ELSE "target"]
            /\ UNCHANGED <<entity, status>>
       ELSE Answer(x, Refusal(q.form))
  /\ UNCHANGED <<tables, pending, told, history>>

\* First of the addressed row.  A stream property's handler selects the key
\* and the stream's columns only.
FetchRow(x) ==
  LET q == req[x]
      row == product[q.p] IN
  /\ step[x] = "read" /\ q.kind \in ReadsRow
  /\ IF row = NoRow
     THEN Answer(x, IF q.kind \in {"putRef", "deleteRef"} THEN "500"
                    ELSE "404")
     ELSE /\ entity' = [entity EXCEPT ![x][q.p] =
                          IF q.kind = "putStream"
                          THEN [Blank EXCEPT !.photo = row.photo] ELSE row]
          /\ Step(x, "target")
  /\ UNCHANGED <<tables, pending, told, history>>

\* First of the addressed category.
FetchCategory(x) ==
  LET q == req[x] IN
  /\ step[x] = "read" /\ q.kind \in ReadsCategory
  /\ IF category[q.c] = Gone
     THEN Answer(x, IF q.kind \in {"addRef", "removeRef"} THEN "500"
                    ELSE "404")
     ELSE Step(x, "target") /\ UNCHANGED entity
  /\ UNCHANGED <<tables, pending, told, history>>

-----------------------------------------------------------------------------
(* The rows a request refers to.                                           *)

\* bindSingleNavigationProperty: the target must exist.
BindSingle(q) == q.by = "bind" => category[q.link] # Gone

ConstraintsIgnored(q) == TRUE

\* validateReferentialConstraints: a foreign key in the body of a POST.
ValidateConstraints(q) == q.by = "fk" => category[q.link] # Gone

\* The link a PATCH leaves in its entity: the bind sets it, a foreign key
\* in the body does not.
LinkAfterBind(x) ==
  IF req[x].by = "bind" THEN req[x].link ELSE entity[x][req[x].p].link

\* performDeepUpdateSingleNavProp: the inline data's entity, found by the link.
DeepTarget(x) ==
  req[x].deep => /\ LinkAfterBind(x) # None
                 /\ category[LinkAfterBind(x)] # Gone

\* What the targets are for each kind, and the answer when one is missing.
TargetsFound(x) ==
  LET q == req[x] IN
  CASE q.kind = "post"  -> BindSingle(q) /\ ValidateConstraints(q)
    [] q.kind = "patch" -> BindSingle(q) /\ DeepTarget(x)
    [] q.kind = "putRef" -> category[q.c] # Gone
    [] q.kind \in {"addRef", "removeRef"} -> product[q.p] # NoRow
    [] q.kind \in {"postCategory", "patchCategory"} ->
         \A p \in q.ps : product[p] # NoRow
    [] OTHER -> TRUE

TargetRows(q) ==
  IF q.kind \in {"addRef", "removeRef"} THEN {q.p}
  ELSE IF q.kind \in {"postCategory", "patchCategory"} THEN q.ps ELSE {}

FetchTargets(x) ==
  LET q == req[x] IN
  /\ step[x] = "target"
  /\ IF TargetsFound(x)
     THEN /\ entity' = [entity EXCEPT ![x] = [p \in Rows |->
                          IF p \in TargetRows(q) THEN product[p] ELSE @[p]]]
          /\ Step(x, "write")
     ELSE Answer(x, IF q.kind \in {"putRef", "addRef", "removeRef"}
                    THEN "500" ELSE "400")
  /\ UNCHANGED <<tables, pending, told, history>>

-----------------------------------------------------------------------------
(* The write.  P and C are the tables it leaves, asked the values it was    *)
(* asked to give to columns, unsafe the rows written from a stale or        *)
(* partial read, event what its transaction notes for the change feed.      *)

Ask(p, new) == [r \in Rows |-> IF r = p THEN new ELSE << >>]
Event(r, v) == [row |-> r, value |-> v]

CommitRow(x, P, C, asked, unsafe, event) ==
  LET changed == {p \in Products : P[p] # product[p]}
                   \cup {c \in Categories : C[c] # category[c]}
      r == event.row
      fresh == {p \in Rows : product[p] = NoRow} IN
  /\ product' = P /\ category' = C
  /\ pending' = [pending EXCEPT ![x] = event]
  /\ last' = [p \in Rows |->
                IF P[p] = NoRow \/ p \in fresh THEN P[p]
                ELSE Updates(last[p], asked[p])]
  /\ clobbered' = (clobbered \ fresh) \cup unsafe
  /\ unfed' = (unfed \cup changed) \ {r}
  /\ overtaken' = IF \E y \in Clients \ {x} : pending[y].row = r /\ r # None
                  THEN overtaken \cup {r} ELSE overtaken \ {r}
  /\ deleted' = deleted \cup {c \in Categories :
                                category[c] # Gone /\ C[c] = Gone}
  /\ unchecked' = IF req[x].kind \in {"patch", "put"} /\ req[x].by = "fk"
                  THEN unchecked \cup {req[x].link} ELSE unchecked
  /\ UNCHANGED told

\* A transaction is followed by its change events, a bare statement by the answer.
ThenRecord(x) == Step(x, "event") /\ UNCHANGED entity

Writing(x, kinds) == step[x] = "write" /\ req[x].kind \in kinds

\* POST of a product, perhaps with an inline category, which Create inserts
\* unless there is one.
CreateEntity(x) ==
  LET q == req[x]
      row == [Blank EXCEPT !.name = x, !.link = q.link]
      P == [product EXCEPT ![q.p] = row]
      C == IF q.by = "inline"
           THEN [category EXCEPT ![q.link] = IF @ = Gone THEN x ELSE @]
           ELSE category IN
  /\ Writing(x, {"post"})
  /\ product[q.p] = NoRow
  /\ CommitRow(x, P, C, Ask(q.p, << >>), {}, Event(q.p, row))
  /\ ThenRecord(x)

CreateDuplicate(x) ==
  /\ Writing(x, {"post"})
  /\ product[req[x].p] # NoRow
  /\ Answer(x, "409")
  /\ UNCHANGED <<tables, pending, told, history>>

\* The columns of a PATCH body and of its bind.
PatchColumns(x) ==
  [k \in (IF req[x].name THEN {"name"} ELSE {}) \cup (IF req[x].by # "none" THEN {"link"} ELSE {}) |->
     IF k = "name" THEN x ELSE req[x].link]

\* A PATCH that wrote the whole row it had read.
PatchWholeRow(x) ==
  PatchColumns(x) @@ [k \in Cols |-> entity[x][req[x].p][k]]

UpdateData(x) == PatchColumns(x)

\* PATCH and PUT read the row again for its event.  A row deleted meanwhile has
\* none, and neither has one whose refresh fails, which is logged and no more:
\* the write is committed all the same.
Refreshed(r, isThere, value, failed) ==
  IF isThere /\ ~failed THEN Event(r, value) ELSE NoEvent

PatchEntity(x) ==
  LET q == req[x]
      P == [product EXCEPT ![q.p] = Updates(@, UpdateData(x))]
      C == IF q.deep
           THEN [category EXCEPT ![LinkAfterBind(x)] =
                   IF @ = Gone THEN @ ELSE x]
           ELSE category IN
  /\ Writing(x, {"patch"})
  /\ \E failed \in {FALSE, DbMayFail} :
       CommitRow(x, P, C, Ask(q.p, PatchColumns(x)), {},
            Refreshed(q.p, P[q.p] # NoRow, P[q.p], failed))
  /\ ThenRecord(x)

Replacement(x, link) == [Blank EXCEPT !.name = x, !.link = link]

\* PUT replaces every column; it reads no bind and checks no foreign key.
PutEntity(x) ==
  LET q == req[x]
      new == Replacement(x, q.link)
      P == [product EXCEPT ![q.p] = Updates(@, new)] IN
  /\ Writing(x, {"put"})
  /\ \E failed \in {FALSE, DbMayFail} :
       CommitRow(x, P, category, Ask(q.p, new), {},
            Refreshed(q.p, P[q.p] # NoRow, P[q.p], failed))
  /\ ThenRecord(x)

DeleteEntity(x) ==
  LET q == req[x] IN
  /\ Writing(x, {"delete"})
  /\ CommitRow(x, [product EXCEPT ![q.p] = NoRow], category,
            Ask(q.p, << >>), {}, Event(q.p, NoRow))
  /\ ThenRecord(x)

DeleteCategory(x) ==
  LET q == req[x] IN
  /\ Writing(x, {"deleteCategory"})
  /\ CommitRow(x, product, [category EXCEPT ![q.c] = Gone],
            Ask(None, << >>), {}, Event(q.c, Gone))
  /\ ThenRecord(x)

\* POST or PATCH of a category that binds its collection of products.
BindProducts(x) ==
  LET q == req[x]
      C == IF q.kind = "postCategory"
           THEN [category EXCEPT ![q.c] = x] ELSE category
      asked == [p \in Rows |->
                  IF p \in q.ps THEN Only("link", q.c)
                  ELSE IF product[p].link = q.c THEN Only("link", None)
                  ELSE << >>] IN
  /\ Writing(x, {"postCategory", "patchCategory"})
  /\ q.kind = "postCategory" => category[q.c] = Gone
  /\ \E failed \in {FALSE, DbMayFail /\ q.kind = "patchCategory"} :
       CommitRow(x, ReplaceProducts(q.c, q.ps, entity[x]), C, asked,
            {p \in q.ps : product[p] = NoRow},
            Refreshed(q.c, C[q.c] # Gone, C[q.c], failed))
  /\ ThenRecord(x)

CategoryExists(x) ==
  /\ Writing(x, {"postCategory"})
  /\ category[req[x].c] # Gone
  /\ Answer(x, "409")
  /\ UNCHANGED <<tables, pending, told, history>>

-----------------------------------------------------------------------------
(* Writes outside a transaction.                                           *)

\* PUT and DELETE of a single-valued $ref: Save of the row that was read.
SaveRef(x) ==
  LET q == req[x]
      link == IF q.kind = "putRef" THEN q.c ELSE None
      row == Save(product[q.p], [entity[x][q.p] EXCEPT !.link = link]) IN
  /\ Writing(x, {"putRef", "deleteRef"})
  /\ CommitRow(x, [product EXCEPT ![q.p] = row], category,
            Ask(q.p, Only("link", link)),
            {q.p} \ {p \in Rows : entity[x][p] = product[p]}, NoEvent)
  /\ Answer(x, "204")

\* POST to a collection's $ref.
AppendRef(x) ==
  LET q == req[x] IN
  /\ Writing(x, {"addRef"})
  /\ CommitRow(x, [product EXCEPT ![q.p] =
                  UpsertLink(@, entity[x][q.p], q.c)], category,
            Ask(q.p, Only("link", q.c)),
            {q.p} \cap {p \in Rows : product[p] = NoRow}, NoEvent)
  /\ Answer(x, "204")

\* DELETE of an entry of a collection's $ref: only if it is still linked here.
RemoveRef(x) ==
  LET q == req[x]
      new == IF product[q.p].link = q.c THEN Only("link", None) ELSE << >> IN
  /\ Writing(x, {"removeRef"})
  /\ CommitRow(x, [product EXCEPT ![q.p] = Updates(@, new)], category,
            Ask(q.p, new), {}, NoEvent)
  /\ Answer(x, "204")

\* PUT of a stream property: Save of a row of which only the stream was read.
SaveStream(x) ==
  LET q == req[x] IN
  /\ Writing(x, {"putStream"})
  /\ CommitRow(x, [product EXCEPT ![q.p] =
                  Save(@, [entity[x][q.p] EXCEPT !.photo = x])], category,
            Ask(q.p, Only("photo", x)), {q.p}, NoEvent)
  /\ Answer(x, "204")

\* PUT of $value of a media entity: the media columns only.
UpdateMedia(x) ==
  LET q == req[x] IN
  /\ Writing(x, {"putMedia"})
  /\ CommitRow(x, [product EXCEPT ![q.p] = Updates(@, Only("media", x))], category,
            Ask(q.p, Only("media", x)), {}, NoEvent)
  /\ Answer(x, "204")

\* PATCH and PUT of the singleton.
UpdateSingleton(x) ==
  LET q == req[x]
      new == IF q.kind = "patchMe" THEN Only("name", x) ELSE Replacement(x, None) IN
  /\ Writing(x, {"patchMe", "putMe"})
  /\ CommitRow(x, [product EXCEPT ![Me] = Updates(@, new)], category,
            Ask(Me, new), {}, NoEvent)
  /\ Answer(x, "204")

\* The statement or its commit fails: the transaction is rolled back.
WriteFails(x) ==
  /\ DbMayFail
  /\ step[x] = "write"
  /\ Answer(x, "500")
  /\ UNCHANGED <<tables, pending, told, history>>

\* Deletions not recorded.
RecordNoDeletion(e) ==
  IF e.row \notin Products \/ e.value = NoRow THEN told
  ELSE [told EXCEPT ![e.row] = e.value]

\* finalizeChangeEvents: what the feed says after an event.
FinalizeEvents(e) ==
  IF e.row = None THEN told ELSE [told EXCEPT ![e.row] = e.value]

\* The events, then the answer.
RecordChange(x) ==
  /\ step[x] = "event"
  /\ told' = FinalizeEvents(pending[x])
  /\ pending' = [pending EXCEPT ![x] = NoEvent]
  /\ Answer(x, IF req[x].kind \in {"post", "postCategory"} THEN "201"
               ELSE "204")
  /\ UNCHANGED <<tables, history>>

-----------------------------------------------------------------------------
RelatedNext ==
  \E x \in Clients :
    \/ HandleRequest(x) \/ FetchRow(x) \/ FetchCategory(x) \/ FetchTargets(x)
    \/ CreateEntity(x) \/ CreateDuplicate(x) \/ PatchEntity(x)
    \/ PutEntity(x) \/ DeleteEntity(x) \/ DeleteCategory(x)
    \/ BindProducts(x) \/ CategoryExists(x)
    \/ SaveRef(x) \/ AppendRef(x) \/ RemoveRef(x)
    \/ SaveStream(x) \/ UpdateMedia(x) \/ UpdateSingleton(x)
    \/ WriteFails(x) \/ RecordChange(x)

RelatedSpec == RelatedInit /\ [][RelatedNext]_relatedVars

-----------------------------------------------------------------------------
(* Properties.                                                             *)

\* Whatever runs beside it, a write changes the columns its request names and
\* no others: every column holds what was last asked of it.  The exceptions are
\* the rows a handler saved as a whole after reading them in another statement:
\* by PUT or DELETE of a $ref when the row changed in between, by any write
\* that inserts again a row deleted in between, and always by PUT of a stream
\* property, which saves columns it has not read.
OnlyNamedColumnsChange ==
  \A p \in Rows \ clobbered : product[p] = last[p]

\* A link names a category that exists or once existed: $ref, @odata.bind and
\* POST look for their target first.  Only a foreign key in the body of a PATCH
\* or PUT is taken as it is.
LinksWereChecked ==
  \A p \in Rows, c \in Categories :
    product[p].link = c /\ category[c] = Gone => c \in deleted \cup unchecked

\* A client of the change feed knows every row as it is, once the events of
\* committed transactions are recorded, unless the row was last changed by a
\* write that records none of it ($ref, stream, media, a bound collection, an
\* inline entity, or a PATCH or PUT whose refresh of the row failed after it had
\* been written) or two commits raced to record theirs.
FeedTellsTheTables ==
  \A r \in (Products \cup Categories) \ (unfed \cup overtaken) :
    (\A x \in Clients : pending[x].row # r) =>
      IF r \in Products THEN told[r] = product[r] ELSE told[r] = category[r]

-----------------------------------------------------------------------------
(* The inductive invariant behind the three.                               *)

ColumnValues == Values \cup {Gone}
Row == [Cols -> ColumnValues]
Name == Clients \cup {Kept, Gone}
Fed == Products \cup Categories

RelatedTypeOK ==
  /\ product \in [Rows -> Row] /\ category \in [Categories -> Name]
  /\ step \in [Clients -> {"idle", "read", "target", "write", "event", "done"}]
  /\ req \in [Clients -> LinkRequests \cup {NoRequest}]
  /\ entity \in [Clients -> [Rows -> Row]]
  /\ DOMAIN pending = Clients /\ \A x \in Clients : pending[x].row \in Fed \cup {None}
  /\ DOMAIN told = Fed /\ last \in [Rows -> Row]

\* A request in progress was not refused; only its last step has an event.
RequestsAgree ==
  \A x \in Clients :
    /\ step[x] \in {"read", "target", "write", "event"} =>
         req[x] \in LinkRequests /\ req[x].form = "ok"
    /\ step[x] # "event" => pending[x] = NoEvent

\* A category that exists, existed, or was never looked for.
Checked(c) == category[c] # Gone \/ c \in deleted \cup unchecked
LinkIsChecked(row) == \A c \in Categories : row.link = c => Checked(c)
TargetsAreChecked(x) ==
  LET q == req[x] IN
  /\ step[x] = "write" /\ q.kind \in {"post", "patch"} /\ q.by = "bind" => Checked(q.link)
  /\ step[x] = "write" /\ q.kind = "post" /\ q.by = "fk" => Checked(q.link)
  /\ step[x] = "write" /\ q.kind = "putRef" => Checked(q.c)
  /\ step[x] \in {"target", "write"} /\ q.kind \in ReadsCategory => Checked(q.c)
LinksAreChecked ==
  /\ \A p \in Rows : LinkIsChecked(product[p])
  /\ \A x \in Clients : TargetsAreChecked(x) /\ \A p \in Rows : LinkIsChecked(entity[x][p])

\* The one event that is still to come tells the row.
Current(r) == IF r \in Products THEN product[r] ELSE category[r]
EventsAreCurrent ==
  \A r \in Fed \ (unfed \cup overtaken) :
    \A x \in Clients : pending[x].row = r => pending[x].value = Current(r)

RelatedInv ==
  /\ RelatedTypeOK /\ RequestsAgree /\ LinksAreChecked /\ EventsAreCurrent
  /\ OnlyNamedColumnsChange /\ FeedTellsTheTables
=============================================================================
