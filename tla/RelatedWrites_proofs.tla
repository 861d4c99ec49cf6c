------------------------ MODULE RelatedWrites_proofs ------------------------
(* The three invariants of the writes that reach related entities, for any *)
(* number of clients, products and categories and any set of requests.     *)
EXTENDS RelatedWrites, TLAPS

Steps == {"idle", "read", "target", "write", "event", "done"}

-----------------------------------------------------------------------------
(* Rows.                                                                   *)

\* The rows the handlers build have every column.
LEMMA RowsAreRows ==
  /\ NoRow \in Row /\ Blank \in Row /\ FirstRow \in Row
  /\ NothingRead \in [Rows -> Row]
  /\ \A p \in Rows : NothingRead[p] = NoRow
BY DEF NoRow, Blank, FirstRow, NothingRead, Row, ColumnValues, Values, Cols

\* UPDATE changes the columns that are named and leaves the others.
LEMMA UpdatesKeepsRows ==
  ASSUME NEW row \in Row, NEW new, \A k \in DOMAIN new \cap Cols : new[k] \in ColumnValues
  PROVE  /\ Updates(row, new) \in Row
         /\ row = NoRow => Updates(row, new) = NoRow
         /\ row # NoRow => Updates(row, new).link =
              IF "link" \in DOMAIN new THEN new["link"] ELSE row.link
BY DEF Updates, Row, Cols

\* Naming no column changes nothing.
LEMMA UpdatesOfNothing ==
  ASSUME NEW row \in Row
  PROVE  Updates(row, << >>) = row
<1>1. row = [k \in Cols |-> row[k]]
  BY DEF Row
<1>2. DOMAIN << >> = {}
  OBVIOUS
<1> QED
  BY <1>1, <1>2 DEF Updates

-----------------------------------------------------------------------------
(* A step of one client's request.                                         *)

\* What a step of x leaves of the others' requests.
Moves(x) ==
  /\ step' \in [Clients -> Steps] /\ req' \in [Clients -> LinkRequests \cup {NoRequest}]
  /\ entity' \in [Clients -> [Rows -> Row]]
  /\ \A y \in Clients \ {x} :
       step'[y] = step[y] /\ req'[y] = req[y] /\ entity'[y] = entity[y]

\* The answer empties the request's variables.
LEMMA AnswerMoves ==
  ASSUME RelatedTypeOK, NEW x \in Clients, NEW s, Answer(x, s)
  PROVE  Moves(x) /\ step'[x] = "done" /\ entity'[x] = NothingRead
BY RowsAreRows DEF RelatedTypeOK, Answer, Moves, Steps

\* The next step of a request keeps the request.
LEMMA StepMoves ==
  ASSUME RelatedTypeOK, NEW x \in Clients, NEW next \in Steps, Step(x, next),
         entity' \in [Clients -> [Rows -> Row]],
         \A y \in Clients \ {x} : entity'[y] = entity[y]
  PROVE  Moves(x) /\ step'[x] = next /\ req'[x] = req[x]
BY DEF RelatedTypeOK, Step, Moves, Steps

\* A request in progress is well formed.
LEMMA InProgressIsWellFormed ==
  ASSUME RelatedAssumption, RelatedInv, NEW x \in Clients,
         step[x] \in {"read", "target", "write", "event"}
  PROVE  WellFormed(req[x])
BY DEF RelatedInv, RequestsAgree, RelatedAssumption

\* The targets of a request that were looked for name categories.
LEMMA TargetsAreCategories ==
  ASSUME NEW q, WellFormed(q)
  PROVE  /\ q.kind = "post" /\ q.by \in {"bind", "fk", "inline"} => q.link \in Categories
         /\ q.kind = "patch" /\ q.by \in {"bind", "fk"} => q.link \in Categories
         /\ q.kind = "putRef" => q.c \in Categories
BY DEF WellFormed

\* What was looked for stays looked for: a step of one request leaves the
\* targets of the others checked.
LEMMA LinksStayChecked ==
  ASSUME RelatedAssumption, RelatedInv, NEW x \in Clients, Moves(x),
         \A c \in Categories : Checked(c) => Checked(c)',
         \A p \in Rows : LinkIsChecked(product[p])',
         TargetsAreChecked(x)', \A p \in Rows : LinkIsChecked(entity[x][p])'
  PROVE  LinksAreChecked'
<1>1. ASSUME NEW y \in Clients, y # x PROVE TargetsAreChecked(y)'
  <2>1. step'[y] = step[y] /\ req'[y] = req[y] /\ TargetsAreChecked(y)
    BY <1>1 DEF RelatedInv, LinksAreChecked, Moves
  <2>2. CASE step[y] \in {"target", "write"}
    <3>1. WellFormed(req[y])
      BY <2>2, InProgressIsWellFormed
    <3>2. req[y].kind \in ReadsCategory => req[y].c \in Categories
      BY <3>1 DEF WellFormed, ReadsCategory
    <3> QED
      BY <2>1, <3>1, <3>2, TargetsAreCategories DEF TargetsAreChecked
  <2> QED
    BY <2>1, <2>2 DEF TargetsAreChecked
<1>2. ASSUME NEW y \in Clients, NEW p \in Rows, y # x PROVE LinkIsChecked(entity[y][p])'
  <2>1. entity'[y] = entity[y] /\ LinkIsChecked(entity[y][p])
    BY <1>2 DEF RelatedInv, LinksAreChecked, Moves
  <2> QED
    BY <2>1 DEF LinkIsChecked
<1> QED
  BY <1>1, <1>2 DEF LinksAreChecked

-----------------------------------------------------------------------------
(* Steps that write no table.                                              *)

\* A step that reads, answers or fails keeps the invariant if what it read
\* was there.
LEMMA QuietStep ==
  ASSUME RelatedAssumption, RelatedInv, NEW x \in Clients, Moves(x),
         UNCHANGED <<tables, pending, told, history>>,
         step[x] # "event", step'[x] # "event",
         step'[x] \in {"read", "target", "write"} =>
           req'[x] \in LinkRequests /\ req'[x].form = "ok",
         TargetsAreChecked(x)', \A p \in Rows : LinkIsChecked(entity[x][p])'
  PROVE  RelatedInv'
<1> USE DEF tables, history
<1>1. RelatedTypeOK'
  BY DEF RelatedInv, RelatedTypeOK, Moves, Steps
<1>2. RequestsAgree'
  <2> SUFFICES ASSUME NEW y \in Clients
               PROVE  (/\ step[y] \in {"read", "target", "write", "event"} =>
                            req[y] \in LinkRequests /\ req[y].form = "ok"
                       /\ step[y] # "event" => pending[y] = NoEvent)'
    BY DEF RequestsAgree
  <2> QED
    BY y = x \/ y \in Clients \ {x} DEF RelatedInv, RequestsAgree, Moves, NoEvent, NoRow
<1>3. \A c \in Categories : Checked(c) => Checked(c)'
  BY DEF Checked
<1>4. \A p \in Rows : LinkIsChecked(product[p])'
  BY DEF RelatedInv, LinksAreChecked, LinkIsChecked, Checked
<1>5. LinksAreChecked'
  BY <1>3, <1>4, LinksStayChecked
<1>6. EventsAreCurrent'
  BY DEF RelatedInv, EventsAreCurrent, Current
<1>7. OnlyNamedColumnsChange' /\ FeedTellsTheTables'
  BY DEF RelatedInv, OnlyNamedColumnsChange, FeedTellsTheTables
<1> QED
  BY <1>1, <1>2, <1>5, <1>6, <1>7 DEF RelatedInv

\* An answer without a write.
LEMMA AnswerKeeps ==
  ASSUME RelatedAssumption, RelatedInv, NEW x \in Clients, NEW s, Answer(x, s),
         step[x] # "event", UNCHANGED <<tables, pending, told, history>>
  PROVE  RelatedInv'
<1>1. Moves(x) /\ step'[x] = "done" /\ entity'[x] = NothingRead
  BY AnswerMoves DEF RelatedInv
<1>2. TargetsAreChecked(x)'
  BY <1>1 DEF TargetsAreChecked
<1>3. \A p \in Rows : LinkIsChecked(entity[x][p])'
  BY <1>1, RowsAreRows DEF LinkIsChecked, NoRow, Cols, RelatedAssumption
<1> QED
  BY <1>1, <1>2, <1>3, QuietStep

\* A request that is refused, by its user, its path or its body, reads nothing.
LEMMA HandleRequestKeeps ==
  ASSUME RelatedAssumption, RelatedInv, NEW x \in Clients, HandleRequest(x)
  PROVE  RelatedInv'
<1> PICK q \in LinkRequests :
      IF q.form = "ok"
      THEN /\ req' = [req EXCEPT ![x] = q]
           /\ step' = [step EXCEPT ![x] =
                 IF q.kind \in ReadsRow \cup ReadsCategory THEN "read" ELSE "target"]
           /\ UNCHANGED <<entity, status>>
      ELSE Answer(x, Refusal(q.form))
  BY DEF HandleRequest
<1>0. step[x] = "idle" /\ UNCHANGED <<tables, pending, told, history>>
  BY DEF HandleRequest
<1>1. CASE q.form # "ok"
  BY <1>0, <1>1, AnswerKeeps
<1>2. CASE q.form = "ok"
  <2> DEFINE next == IF q.kind \in ReadsRow \cup ReadsCategory THEN "read" ELSE "target"
  <2>a. next \in {"read", "target"} /\ step' = [step EXCEPT ![x] = next]
    BY <1>2
  <2> HIDE DEF next
  <2>b. req' = [req EXCEPT ![x] = q] /\ UNCHANGED entity
    BY <1>2
  <2>c. RelatedTypeOK
    BY DEF RelatedInv
  <2>1. Moves(x) /\ req'[x] = q
    BY <2>a, <2>b, <2>c DEF Moves, Steps, RelatedTypeOK
  <2>2. step'[x] = next
    BY <2>a, <2>c DEF RelatedTypeOK
  <2>3. TargetsAreChecked(x)'
    <3>1. q.kind \in ReadsCategory => next = "read"
      BY DEF next
    <3> QED
      BY <2>a, <2>1, <2>2, <3>1 DEF TargetsAreChecked
  <2>4. \A p \in Rows : LinkIsChecked(entity[x][p])'
    BY <1>0, <1>2 DEF RelatedInv, LinksAreChecked, LinkIsChecked, Checked, tables, history
  <2> QED
    BY <1>0, <1>2, <2>a, <2>1, <2>2, <2>3, <2>4, QuietStep
<1> QED
  BY <1>1, <1>2

\* The rows and categories a handler reads are checked ones.
LEMMA FetchRowKeeps ==
  ASSUME RelatedAssumption, RelatedInv, NEW x \in Clients, FetchRow(x)
  PROVE  RelatedInv'
<1> DEFINE q == req[x]
           read == IF q.kind = "putStream"
                   THEN [Blank EXCEPT !.photo = product[q.p].photo] ELSE product[q.p]
<1>0. /\ step[x] = "read" /\ q.kind \in ReadsRow
      /\ UNCHANGED <<tables, pending, told, history>>
  BY DEF FetchRow
<1>1. CASE product[q.p] = NoRow
  <2>1. PICK s : Answer(x, s)
    BY <1>1 DEF FetchRow
  <2> QED
    BY <1>0, <2>1, AnswerKeeps
<1>2. CASE product[q.p] # NoRow
  <2>1. entity' = [entity EXCEPT ![x][q.p] = read] /\ Step(x, "target")
    BY <1>2 DEF FetchRow
  <2>2. RelatedTypeOK /\ LinksAreChecked /\ RequestsAgree
    BY DEF RelatedInv
  <2>3. q \in LinkRequests /\ q.form = "ok" /\ WellFormed(q)
    BY <1>0, <2>2, InProgressIsWellFormed DEF RequestsAgree
  <2>4. q.p \in Rows
    BY <1>0, <2>3 DEF WellFormed, ReadsRow, Rows
  <2>5. /\ read \in Row
        /\ \A c \in Categories : read.link = c => Checked(c)
    <3>1. product[q.p] \in Row /\ LinkIsChecked(product[q.p])
      BY <2>2, <2>4 DEF RelatedTypeOK, LinksAreChecked
    <3>2. CASE q.kind = "putStream"
      <4>1. read = [k \in Cols |-> IF k = "photo" THEN product[q.p].photo ELSE None]
        BY <3>2 DEF Blank, Cols
      <4>2. product[q.p].photo \in ColumnValues /\ None \in ColumnValues
        BY <3>1 DEF Row, Cols, ColumnValues, Values
      <4>3. read.link = None
        BY <4>1 DEF Cols
      <4> QED
        BY <4>1, <4>2, <4>3 DEF Row, RelatedAssumption
    <3>3. CASE q.kind # "putStream"
      BY <3>1, <3>3 DEF LinkIsChecked
    <3> QED
      BY <3>2, <3>3
  <2> HIDE DEF read
  <2>6. entity' \in [Clients -> [Rows -> Row]]
    BY <2>1, <2>2, <2>4, <2>5 DEF RelatedTypeOK
  <2>7. \A y \in Clients \ {x} : entity'[y] = entity[y]
    BY <2>1, <2>2 DEF RelatedTypeOK
  <2>8. Moves(x) /\ step'[x] = "target" /\ req'[x] = q
    BY <2>1, <2>2, <2>6, <2>7, StepMoves DEF Steps
  <2>9. TargetsAreChecked(x)'
    BY <1>0, <2>8 DEF TargetsAreChecked, ReadsRow, ReadsCategory
  <2>10. \A p \in Rows : LinkIsChecked(entity[x][p])'
    <3> SUFFICES ASSUME NEW p \in Rows, NEW c \in Categories, entity'[x][p].link = c
                 PROVE  Checked(c)'
      BY DEF LinkIsChecked
    <3>1. entity'[x][p] = IF p = q.p THEN read ELSE entity[x][p]
      BY <2>1, <2>2, <2>4 DEF RelatedTypeOK
    <3>2. LinkIsChecked(entity[x][p])
      BY <2>2 DEF LinksAreChecked
    <3>3. Checked(c)
      BY <2>5, <3>1, <3>2 DEF LinkIsChecked
    <3> QED
      BY <1>0, <3>3 DEF Checked, tables, history
  <2> QED
    BY <1>0, <2>3, <2>8, <2>9, <2>10, QuietStep
<1> QED
  BY <1>1, <1>2

\* A category that was read was there.
LEMMA FetchCategoryKeeps ==
  ASSUME RelatedAssumption, RelatedInv, NEW x \in Clients, FetchCategory(x)
  PROVE  RelatedInv'
<1> DEFINE q == req[x]
<1>0. /\ step[x] = "read" /\ q.kind \in ReadsCategory
      /\ UNCHANGED <<tables, pending, told, history>>
  BY DEF FetchCategory
<1>1. CASE category[q.c] = Gone
  <2>1. PICK s : Answer(x, s)
    BY <1>1 DEF FetchCategory
  <2> QED
    BY <1>0, <2>1, AnswerKeeps
<1>2. CASE category[q.c] # Gone
  <2>1. Step(x, "target") /\ UNCHANGED entity
    BY <1>2 DEF FetchCategory
  <2>2. RelatedTypeOK /\ LinksAreChecked /\ RequestsAgree
    BY DEF RelatedInv
  <2>3. q \in LinkRequests /\ q.form = "ok"
    BY <1>0, <2>2 DEF RequestsAgree
  <2>4. entity' \in [Clients -> [Rows -> Row]]
    BY <2>1, <2>2 DEF RelatedTypeOK
  <2>5. Moves(x) /\ step'[x] = "target" /\ req'[x] = q
    BY <2>1, <2>2, <2>4, StepMoves DEF Steps
  <2>6. TargetsAreChecked(x)'
    BY <1>0, <1>2, <2>5 DEF TargetsAreChecked, Checked, tables
  <2>7. \A p \in Rows : LinkIsChecked(entity[x][p])'
    BY <1>0, <2>1, <2>2 DEF LinksAreChecked, LinkIsChecked, Checked, tables, history
  <2> QED
    BY <1>0, <2>3, <2>5, <2>6, <2>7, QuietStep
<1> QED
  BY <1>1, <1>2

\* A request that goes on to write has looked for what it refers to: the
\* target of a $ref or a bind, the foreign key of a POST.
LEMMA FetchTargetsKeeps ==
  ASSUME RelatedAssumption, RelatedInv, NEW x \in Clients, FetchTargets(x)
  PROVE  RelatedInv'
<1> DEFINE q == req[x]
<1>0. /\ step[x] = "target" /\ UNCHANGED <<tables, pending, told, history>>
  BY DEF FetchTargets
<1>1. CASE ~TargetsFound(x)
  <2>1. PICK s : Answer(x, s)
    BY <1>1 DEF FetchTargets
  <2> QED
    BY <1>0, <2>1, AnswerKeeps
<1>2. CASE TargetsFound(x)
  <2>1. /\ entity' = [entity EXCEPT ![x] = [p \in Rows |->
                        IF p \in TargetRows(q) THEN product[p] ELSE entity[x][p]]]
        /\ Step(x, "write")
    BY <1>2 DEF FetchTargets
  <2>2. RelatedTypeOK /\ LinksAreChecked /\ RequestsAgree
    BY DEF RelatedInv
  <2>3. q \in LinkRequests /\ q.form = "ok"
    BY <1>0, <2>2 DEF RequestsAgree
  <2>4. entity' \in [Clients -> [Rows -> Row]]
    BY <2>1, <2>2 DEF RelatedTypeOK
  <2>5. /\ \A y \in Clients \ {x} : entity'[y] = entity[y]
        /\ \A p \in Rows : entity'[x][p] =
             IF p \in TargetRows(q) THEN product[p] ELSE entity[x][p]
    BY <2>1, <2>2 DEF RelatedTypeOK
  <2>6. Moves(x) /\ step'[x] = "write" /\ req'[x] = q
    BY <2>1, <2>2, <2>4, <2>5, StepMoves DEF Steps
  <2>7. TargetsAreChecked(x)'
    <3>1. q.kind \in {"post", "patch"} /\ q.by = "bind" => Checked(q.link)
      BY <1>2 DEF TargetsFound, BindSingle, Checked
    <3>2. q.kind = "post" /\ q.by = "fk" => Checked(q.link)
      BY <1>2 DEF TargetsFound, ValidateConstraints, Checked
    <3>3. q.kind = "putRef" => Checked(q.c)
      BY <1>2 DEF TargetsFound, Checked
    <3>4. q.kind \in ReadsCategory => Checked(q.c)
      BY <1>0, <2>2 DEF LinksAreChecked, TargetsAreChecked
    <3> QED
      BY <1>0, <2>6, <3>1, <3>2, <3>3, <3>4 DEF TargetsAreChecked, Checked, tables, history
  <2>8. \A p \in Rows : LinkIsChecked(entity[x][p])'
    <3> SUFFICES ASSUME NEW p \in Rows PROVE LinkIsChecked(entity[x][p])'
      OBVIOUS
    <3>1. LinkIsChecked(product[p]) /\ LinkIsChecked(entity[x][p])
      BY <2>2 DEF LinksAreChecked
    <3> QED
      BY <1>0, <2>5, <3>1 DEF LinkIsChecked, Checked, tables, history
  <2> QED
    BY <1>0, <2>3, <2>6, <2>7, <2>8, QuietStep
<1> QED
  BY <1>1, <1>2

\* The answers that end a write without one: the row is there already, the
\* statement fails.
LEMMA RefusedWriteKeeps ==
  ASSUME RelatedAssumption, RelatedInv, NEW x \in Clients,
         CreateDuplicate(x) \/ CategoryExists(x) \/ WriteFails(x)
  PROVE  RelatedInv'
<1>1. PICK s : Answer(x, s)
  BY DEF CreateDuplicate, CategoryExists, WriteFails
<1>2. step[x] = "write" /\ UNCHANGED <<tables, pending, told, history>>
  BY DEF CreateDuplicate, CategoryExists, WriteFails, Writing
<1> QED
  BY <1>1, <1>2, AnswerKeeps
-----------------------------------------------------------------------------
(* A write.  What every write must show: the columns it was asked for and  *)
(* no others change, the links it leaves were looked for, and the event    *)
(* it notes is the row it leaves.                                          *)

Told(P, C, r) == IF r \in Products THEN P[r] ELSE C[r]

\* What a write owes the columns that nobody asked it to change.
WritesWhatIsAsked(P, asked, unsafe) ==
  \A p \in Rows : product[p] # NoRow /\ P[p] # NoRow =>
    /\ \A k \in DOMAIN asked[p] \cap Cols : asked[p][k] \in ColumnValues
    /\ p \in unsafe \/ P[p] = Updates(product[p], asked[p])

\* What it owes the categories its rows refer to: they were there, or it
\* writes them, or nobody ever looks for them.
LinksExist(x, P, C) ==
  \A p \in Rows, c \in Categories : P[p].link = c =>
    \/ Checked(c) \/ C[c] # Gone
    \/ req[x].kind \in {"patch", "put"} /\ req[x].by = "fk" /\ c = req[x].link

\* What it owes the change feed.
TellsWhatItWrites(P, C, event) ==
  /\ event.row \in Fed \cup {None}
  /\ event.row \in Fed => event.value = Told(P, C, event.row)

\* The columns: every row holds what was last asked of it.
LEMMA CommitKeepsColumns ==
  ASSUME RelatedInv, NEW x \in Clients, NEW P \in [Rows -> Row], NEW C, NEW asked,
         NEW unsafe, NEW event, CommitRow(x, P, C, asked, unsafe, event),
         WritesWhatIsAsked(P, asked, unsafe)
  PROVE  last' \in [Rows -> Row] /\ OnlyNamedColumnsChange'
<1> DEFINE fresh == {p \in Rows : product[p] = NoRow}
<1>1. /\ product' = P
      /\ last' = [p \in Rows |-> IF P[p] = NoRow \/ p \in fresh THEN P[p]
                                 ELSE Updates(last[p], asked[p])]
      /\ clobbered' = (clobbered \ fresh) \cup unsafe
  BY DEF CommitRow
<1>2. last \in [Rows -> Row] /\ OnlyNamedColumnsChange
  BY DEF RelatedInv, RelatedTypeOK
<1>3. ASSUME NEW p \in Rows PROVE last'[p] \in Row
  <2>1. CASE P[p] = NoRow \/ p \in fresh
    BY <1>1, <1>3, <2>1
  <2>2. CASE ~(P[p] = NoRow \/ p \in fresh)
    <3>1. \A k \in DOMAIN asked[p] \cap Cols : asked[p][k] \in ColumnValues
      BY <1>3, <2>2 DEF WritesWhatIsAsked
    <3>2. Updates(last[p], asked[p]) \in Row
      BY <1>2, <1>3, <3>1, UpdatesKeepsRows
    <3> QED
      BY <1>1, <1>3, <2>2, <3>2
  <2> QED
    BY <2>1, <2>2
<1>4. ASSUME NEW p \in Rows, p \notin clobbered' PROVE product'[p] = last'[p]
  <2>1. CASE P[p] = NoRow \/ p \in fresh
    BY <1>1, <1>4, <2>1
  <2>2. CASE ~(P[p] = NoRow \/ p \in fresh)
    <3>1. product[p] = last[p]
      BY <1>1, <1>2, <1>4, <2>2 DEF OnlyNamedColumnsChange
    <3>2. P[p] = Updates(product[p], asked[p])
      BY <1>1, <1>4, <2>2 DEF WritesWhatIsAsked
    <3> QED
      BY <1>1, <1>4, <2>2, <3>1, <3>2
  <2> QED
    BY <2>1, <2>2
<1> QED
  BY <1>1, <1>3, <1>4 DEF OnlyNamedColumnsChange

\* The feed: what changed without an event is unfed, what another request
\* still has an event of is overtaken, and the rest is as it was told.
LEMMA CommitKeepsFeed ==
  ASSUME RelatedAssumption, RelatedInv, NEW x \in Clients, step[x] = "write",
         NEW P \in [Rows -> Row], NEW C \in [Categories -> Name], NEW asked,
         NEW unsafe, NEW event, CommitRow(x, P, C, asked, unsafe, event),
         TellsWhatItWrites(P, C, event)
  PROVE  EventsAreCurrent' /\ FeedTellsTheTables'
<1> DEFINE changed == {p \in Products : P[p] # product[p]}
                        \cup {c \in Categories : C[c] # category[c]}
<1>1. /\ product' = P /\ category' = C /\ told' = told
      /\ pending' = [pending EXCEPT ![x] = event]
      /\ unfed' = (unfed \cup changed) \ {event.row}
      /\ overtaken' = IF \E y \in Clients \ {x} : pending[y].row = event.row /\ event.row # None
                      THEN overtaken \cup {event.row} ELSE overtaken \ {event.row}
  BY DEF CommitRow
<1>2. /\ DOMAIN pending = Clients /\ pending[x].row = None
      /\ EventsAreCurrent /\ FeedTellsTheTables
  BY DEF RelatedInv, RelatedTypeOK, RequestsAgree, NoEvent
<1>3. None \notin Fed
  BY DEF RelatedAssumption, Fed
<1>4. pending'[x] = event /\ \A y \in Clients \ {x} : pending'[y] = pending[y]
  BY <1>1, <1>2
\* A row it has no event of and that no other request races for is as it was.
<1>5. ASSUME NEW r \in Fed \ (unfed' \cup overtaken'), r # event.row
      PROVE  r \notin unfed \cup overtaken /\ Current(r)' = Current(r)
  <2>1. r \notin unfed \cup overtaken /\ r \notin changed
    BY <1>1, <1>5
  <2> QED
    BY <1>1, <2>1 DEF Current, Fed
<1>6. ASSUME NEW r \in Fed \ (unfed' \cup overtaken'), NEW y \in Clients,
             pending'[y].row = r
      PROVE  pending'[y].value = Current(r)'
  <2>1. CASE y = x
    BY <1>1, <1>4, <1>6, <2>1 DEF TellsWhatItWrites, Told, Current
  <2>2. CASE y # x
    <3>1. pending'[y] = pending[y] /\ pending[y].row = r
      BY <1>4, <1>6, <2>2
    <3>2. r # event.row
      BY <1>1, <1>3, <1>6, <2>2, <3>1
    <3>3. r \notin unfed \cup overtaken /\ Current(r)' = Current(r)
      BY <1>5, <1>6, <3>2
    <3> QED
      BY <1>2, <1>6, <3>1, <3>3 DEF EventsAreCurrent
  <2> QED
    BY <2>1, <2>2
<1>7. ASSUME NEW r \in Fed \ (unfed' \cup overtaken'), \A y \in Clients : pending'[y].row # r
      PROVE  told'[r] = Current(r)'
  <2>1. r # event.row
    BY <1>4, <1>7
  <2>2. r \notin unfed \cup overtaken /\ Current(r)' = Current(r)
    BY <1>5, <1>7, <2>1
  <2>3. \A y \in Clients : pending[y].row # r
    BY <1>2, <1>3, <1>4, <1>7
  <2> QED
    BY <1>1, <1>2, <2>2, <2>3 DEF FeedTellsTheTables, Current, Fed
<1>8. EventsAreCurrent'
  BY <1>6 DEF EventsAreCurrent
<1>9. FeedTellsTheTables'
  BY <1>7 DEF FeedTellsTheTables, Current, Fed
<1> QED
  BY <1>8, <1>9
\* The links: a category that was looked for stays looked for, and those a
\* write newly refers to were, too.
LEMMA CommitKeepsChecked ==
  ASSUME RelatedInv, NEW x \in Clients, NEW P \in [Rows -> Row],
         NEW C \in [Categories -> Name], NEW asked, NEW unsafe, NEW event,
         CommitRow(x, P, C, asked, unsafe, event), LinksExist(x, P, C)
  PROVE  /\ \A c \in Categories : Checked(c) => Checked(c)'
         /\ \A p \in Rows : LinkIsChecked(product[p])'
<1>1. /\ product' = P /\ category' = C
      /\ deleted' = deleted \cup {c \in Categories : category[c] # Gone /\ C[c] = Gone}
      /\ unchecked' = IF req[x].kind \in {"patch", "put"} /\ req[x].by = "fk"
                      THEN unchecked \cup {req[x].link} ELSE unchecked
  BY DEF CommitRow
<1>2. \A c \in Categories : Checked(c) => Checked(c)'
  BY <1>1 DEF Checked
<1>3. ASSUME NEW p \in Rows, NEW c \in Categories, P[p].link = c
      PROVE  Checked(c)'
  <2>1. CASE Checked(c)
    BY <1>2, <2>1
  <2>2. CASE C[c] # Gone
    BY <1>1, <2>2 DEF Checked
  <2>3. CASE req[x].kind \in {"patch", "put"} /\ req[x].by = "fk" /\ c = req[x].link
    BY <1>1, <2>3 DEF Checked
  <2> QED
    BY <1>3, <2>1, <2>2, <2>3 DEF LinksExist
<1> QED
  BY <1>1, <1>2, <1>3 DEF LinkIsChecked

\* A write that owes nothing keeps the invariant, whether its event follows
\* or its answer.
LEMMA CommitKeeps ==
  ASSUME RelatedAssumption, RelatedInv, NEW x \in Clients, step[x] = "write",
         NEW P \in [Rows -> Row], NEW C \in [Categories -> Name], NEW asked,
         NEW unsafe, NEW event, CommitRow(x, P, C, asked, unsafe, event),
         WritesWhatIsAsked(P, asked, unsafe), LinksExist(x, P, C),
         TellsWhatItWrites(P, C, event),
         ThenRecord(x) \/ (event = NoEvent /\ \E s : Answer(x, s))
  PROVE  RelatedInv'
<1>1. product' = P /\ category' = C /\ told' = told /\ pending' = [pending EXCEPT ![x] = event]
  BY DEF CommitRow
<1>2. /\ RelatedTypeOK /\ RequestsAgree /\ LinksAreChecked
      /\ req[x] \in LinkRequests /\ req[x].form = "ok"
  BY DEF RelatedInv, RequestsAgree
<1>3. \/ Moves(x) /\ step'[x] = "event" /\ req'[x] = req[x] /\ entity' = entity
      \/ Moves(x) /\ step'[x] = "done" /\ entity'[x] = NothingRead /\ event = NoEvent
  <2>1. CASE ThenRecord(x)
    <3>1. Step(x, "event") /\ entity' = entity
      BY <2>1 DEF ThenRecord
    <3>2. "event" \in Steps /\ entity \in [Clients -> [Rows -> Row]]
      BY <1>2 DEF Steps, RelatedTypeOK
    <3> QED
      BY <1>2, <3>1, <3>2, StepMoves
  <2>2. CASE event = NoEvent /\ \E s : Answer(x, s)
    BY <1>2, <2>2, AnswerMoves
  <2> QED
    BY <2>1, <2>2
<1>4. pending'[x] = event /\ \A y \in Clients \ {x} : pending'[y] = pending[y]
  BY <1>1, <1>2 DEF RelatedTypeOK
<1>5. last' \in [Rows -> Row] /\ OnlyNamedColumnsChange'
  BY CommitKeepsColumns
<1>6. EventsAreCurrent' /\ FeedTellsTheTables'
  BY CommitKeepsFeed
<1>7. /\ \A c \in Categories : Checked(c) => Checked(c)'
      /\ \A p \in Rows : LinkIsChecked(product[p])'
  BY CommitKeepsChecked
<1>8. TargetsAreChecked(x)'
  BY <1>3 DEF TargetsAreChecked
<1>9. ASSUME NEW p \in Rows PROVE LinkIsChecked(entity[x][p])'
  <2>1. CASE entity' = entity
    <3>1. LinkIsChecked(entity[x][p])
      BY <1>2, <1>9 DEF LinksAreChecked
    <3> QED
      BY <1>7, <2>1, <3>1 DEF LinkIsChecked
  <2>2. CASE entity'[x] = NothingRead
    BY <2>2, RowsAreRows DEF LinkIsChecked, NoRow, Cols, RelatedAssumption
  <2> QED
    BY <1>3, <2>1, <2>2
<1>10. LinksAreChecked'
  BY <1>3, <1>7, <1>8, <1>9, LinksStayChecked
<1>11. RequestsAgree'
  <2> SUFFICES ASSUME NEW y \in Clients
               PROVE  (/\ step[y] \in {"read", "target", "write", "event"} =>
                            req[y] \in LinkRequests /\ req[y].form = "ok"
                       /\ step[y] # "event" => pending[y] = NoEvent)'
    BY DEF RequestsAgree
  <2>1. CASE y = x
    BY <1>2, <1>3, <1>4, <2>1
  <2>2. CASE y # x
    BY <1>2, <1>3, <1>4, <2>2 DEF RequestsAgree, Moves
  <2> QED
    BY <2>1, <2>2
<1>12. RelatedTypeOK'
  <2>1. DOMAIN pending' = Clients /\ \A y \in Clients : pending'[y].row \in Fed \cup {None}
    BY <1>1, <1>2, <1>4 DEF RelatedTypeOK, TellsWhatItWrites
  <2> QED
    BY <1>1, <1>2, <1>3, <1>5, <2>1 DEF RelatedTypeOK, Moves, Steps
<1> QED
  BY <1>5, <1>6, <1>10, <1>11, <1>12 DEF RelatedInv
-----------------------------------------------------------------------------
(* The writes.                                                             *)

\* What a write of one row owes is about that row.
LEMMA OneRow ==
  ASSUME RelatedInv, NEW p \in Rows, NEW row, NEW new, NEW unsafe, NEW P,
         P[p] = row, \A o \in Rows \ {p} : P[o] = product[o],
         product[p] # NoRow /\ row # NoRow =>
           /\ \A k \in DOMAIN new \cap Cols : new[k] \in ColumnValues
           /\ p \in unsafe \/ row = Updates(product[p], new)
  PROVE  WritesWhatIsAsked(P, Ask(p, new), unsafe)
<1> SUFFICES ASSUME NEW o \in Rows, product[o] # NoRow, P[o] # NoRow
             PROVE  /\ \A k \in DOMAIN Ask(p, new)[o] \cap Cols : Ask(p, new)[o][k] \in ColumnValues
                    /\ o \in unsafe \/ P[o] = Updates(product[o], Ask(p, new)[o])
  BY DEF WritesWhatIsAsked
<1>1. CASE o = p
  <2>1. Ask(p, new)[o] = new
    BY <1>1 DEF Ask
  <2> QED
    BY <1>1, <2>1
<1>2. CASE o # p
  <2>1. Ask(p, new)[o] = << >> /\ DOMAIN << >> = {}
    BY <1>2 DEF Ask
  <2>2. Updates(product[o], << >>) = product[o]
    BY UpdatesOfNothing DEF RelatedInv, RelatedTypeOK
  <2> QED
    BY <1>2, <2>1, <2>2
<1> QED
  BY <1>1, <1>2

\* The links a write of one row leaves.
LEMMA OneRowLinks ==
  ASSUME RelatedInv, NEW x \in Clients, NEW p \in Rows, NEW row \in Row, NEW P, NEW C,
         P[p] = row, \A o \in Rows \ {p} : P[o] = product[o],
         \A c \in Categories : row.link = c =>
           \/ Checked(c) \/ C[c] # Gone
           \/ req[x].kind \in {"patch", "put"} /\ req[x].by = "fk" /\ c = req[x].link
  PROVE  LinksExist(x, P, C)
<1>1. \A o \in Rows : LinkIsChecked(product[o])
  BY DEF RelatedInv, LinksAreChecked
<1> QED
  BY <1>1 DEF LinksExist, LinkIsChecked

\* What a request that is about to write can rely on.
LEMMA WritingRequest ==
  ASSUME RelatedAssumption, RelatedInv, NEW x \in Clients, NEW kinds, Writing(x, kinds)
  PROVE  /\ step[x] = "write" /\ req[x].kind \in kinds /\ WellFormed(req[x])
         /\ TargetsAreChecked(x) /\ \A p \in Rows : LinkIsChecked(entity[x][p])
         /\ product \in [Rows -> Row] /\ category \in [Categories -> Name]
         /\ entity[x] \in [Rows -> Row]
<1>1. step[x] = "write" /\ req[x].kind \in kinds
  BY DEF Writing
<1> QED
  BY <1>1, InProgressIsWellFormed DEF RelatedInv, RelatedTypeOK, LinksAreChecked

\* A row without a link refers to nothing.
LEMMA NoLink ==
  ASSUME RelatedAssumption
  PROVE  None \notin Categories /\ Kept \notin Categories /\ Gone \notin Categories
BY DEF RelatedAssumption

\* POST refers to a category it found or one it inserts itself.
LEMMA CreateEntityKeeps ==
  ASSUME RelatedAssumption, RelatedInv, NEW x \in Clients, CreateEntity(x)
  PROVE  RelatedInv'
<1> DEFINE q == req[x]
           row == [Blank EXCEPT !.name = x, !.link = q.link]
           P == [product EXCEPT ![q.p] = row]
           C == IF q.by = "inline"
                THEN [category EXCEPT ![q.link] = IF @ = Gone THEN x ELSE @]
                ELSE category
<1>1. /\ Writing(x, {"post"}) /\ product[q.p] = NoRow
      /\ CommitRow(x, P, C, Ask(q.p, << >>), {}, Event(q.p, row)) /\ ThenRecord(x)
  BY DEF CreateEntity
<1>2. /\ step[x] = "write" /\ q.kind = "post" /\ WellFormed(q) /\ TargetsAreChecked(x)
      /\ product \in [Rows -> Row] /\ category \in [Categories -> Name]
  BY <1>1, WritingRequest
<1>3. /\ q.p \in Products /\ q.p \in Rows
      /\ \/ q.by = "none" /\ q.link = None
         \/ q.by \in {"bind", "fk", "inline"} /\ q.link \in Categories
  BY <1>2 DEF WellFormed, LinkWays, Rows
<1>4. row \in Row /\ row.link = q.link
  BY <1>3 DEF Blank, Row, Cols, ColumnValues, Values
<1>b. C \in [Categories -> Name] /\ (q.by = "inline" => C[q.link] # Gone)
  BY <1>2, <1>3 DEF Name, RelatedAssumption
<1>a. P = [product EXCEPT ![q.p] = row]
  OBVIOUS
<1> HIDE DEF P, row, C
<1>5. P \in [Rows -> Row] /\ P[q.p] = row /\ \A o \in Rows \ {q.p} : P[o] = product[o]
  BY <1>2, <1>3, <1>4, <1>a
<1>6. WritesWhatIsAsked(P, Ask(q.p, << >>), {})
  BY <1>1, <1>3, <1>5, OneRow
<1>7. LinksExist(x, P, C)
  <2>1. ASSUME NEW c \in Categories, row.link = c PROVE Checked(c) \/ C[c] # Gone
    BY <1>2, <1>3, <1>4, <1>b, <2>1, NoLink DEF TargetsAreChecked
  <2> QED
    BY <1>3, <1>4, <1>5, <2>1, OneRowLinks
<1>8. TellsWhatItWrites(P, C, Event(q.p, row))
  BY <1>3, <1>5 DEF TellsWhatItWrites, Told, Event, Fed
<1> QED
  BY <1>1, <1>2, <1>b, <1>5, <1>6, <1>7, <1>8, CommitKeeps

\* The columns a PATCH asks for.
LEMMA PatchColumnsAre ==
  ASSUME RelatedAssumption, NEW x \in Clients, WellFormed(req[x]), req[x].kind = "patch"
  PROVE  /\ \A k \in DOMAIN PatchColumns(x) \cap Cols : PatchColumns(x)[k] \in ColumnValues
         /\ "link" \in DOMAIN PatchColumns(x) <=> req[x].by # "none"
         /\ req[x].by # "none" => PatchColumns(x)["link"] = req[x].link
<1>1. req[x].link \in ColumnValues /\ x \in ColumnValues
  BY DEF WellFormed, ColumnValues, Values
<1> QED
  BY <1>1 DEF PatchColumns

\* PATCH updates the columns of its body and of its bind in the row as it is
\* now, whatever was written since the row was read.
LEMMA PatchEntityKeeps ==
  ASSUME RelatedAssumption, RelatedInv, NEW x \in Clients, PatchEntity(x)
  PROVE  RelatedInv'
<1> DEFINE q == req[x]
           row == Updates(product[q.p], PatchColumns(x))
           P == [product EXCEPT ![q.p] = Updates(@, UpdateData(x))]
           C == IF q.deep
                THEN [category EXCEPT ![LinkAfterBind(x)] = IF @ = Gone THEN @ ELSE x]
                ELSE category
<1>0. PICK failed \in {FALSE, DbMayFail} :
        /\ Writing(x, {"patch"}) /\ ThenRecord(x)
        /\ CommitRow(x, P, C, Ask(q.p, PatchColumns(x)), {},
                     Refreshed(q.p, P[q.p] # NoRow, P[q.p], failed))
  BY DEF PatchEntity
<1> DEFINE event == Refreshed(q.p, P[q.p] # NoRow, P[q.p], failed)
<1>1. /\ Writing(x, {"patch"}) /\ ThenRecord(x)
      /\ CommitRow(x, P, C, Ask(q.p, PatchColumns(x)), {}, event)
  BY <1>0
<1>2. /\ step[x] = "write" /\ q.kind = "patch" /\ WellFormed(q) /\ TargetsAreChecked(x)
      /\ product \in [Rows -> Row] /\ category \in [Categories -> Name]
  BY <1>1, WritingRequest
<1>3. /\ q.p \in Products /\ q.p \in Rows
      /\ \/ q.by = "none" /\ q.link = None
         \/ q.by \in {"bind", "fk"} /\ q.link \in Categories
  BY <1>2 DEF WellFormed, LinkWays, Rows
<1>4. /\ \A k \in DOMAIN PatchColumns(x) \cap Cols : PatchColumns(x)[k] \in ColumnValues
      /\ "link" \in DOMAIN PatchColumns(x) <=> q.by # "none"
      /\ q.by # "none" => PatchColumns(x)["link"] = q.link
  BY <1>2, PatchColumnsAre
<1>5. /\ product[q.p] \in Row /\ row \in Row /\ (product[q.p] = NoRow => row = NoRow)
      /\ product[q.p] # NoRow =>
           row.link = IF q.by # "none" THEN q.link ELSE product[q.p].link
  BY <1>2, <1>3, <1>4, UpdatesKeepsRows
<1>6. C \in [Categories -> Name]
  BY <1>2 DEF Name
<1>7. P = [product EXCEPT ![q.p] = row]
  BY DEF UpdateData
<1>8. event = NoEvent \/ event = Event(q.p, P[q.p])
  BY DEF Refreshed
<1>h. row = Updates(product[q.p], PatchColumns(x))
  OBVIOUS
<1> HIDE DEF P, C, row, event
<1>9. P \in [Rows -> Row] /\ P[q.p] = row /\ \A o \in Rows \ {q.p} : P[o] = product[o]
  BY <1>2, <1>3, <1>5, <1>7
<1>10. WritesWhatIsAsked(P, Ask(q.p, PatchColumns(x)), {})
  BY <1>3, <1>4, <1>9, <1>h, OneRow
<1>11. LinksExist(x, P, C)
  <2>1. ASSUME NEW c \in Categories, row.link = c
        PROVE  Checked(c) \/ (q.kind \in {"patch", "put"} /\ q.by = "fk" /\ c = q.link)
    <3>1. LinkIsChecked(product[q.p])
      BY <1>3 DEF RelatedInv, LinksAreChecked
    <3>2. CASE product[q.p] = NoRow
      BY <1>5, <2>1, <3>2, NoLink DEF NoRow, Cols
    <3>3. CASE product[q.p] # NoRow /\ q.by = "none"
      BY <1>5, <2>1, <3>1, <3>3 DEF LinkIsChecked
    <3>4. CASE product[q.p] # NoRow /\ q.by # "none"
      BY <1>2, <1>3, <1>5, <2>1, <3>4 DEF TargetsAreChecked
    <3> QED
      BY <3>2, <3>3, <3>4
  <2> QED
    BY <1>3, <1>5, <1>9, <2>1, OneRowLinks
<1>12. TellsWhatItWrites(P, C, event)
  BY <1>3, <1>8, NoLink DEF TellsWhatItWrites, Told, Event, NoEvent, Fed, RelatedAssumption
<1> QED
  BY <1>1, <1>2, <1>6, <1>9, <1>10, <1>11, <1>12, CommitKeeps
\* A write of one row that leaves the categories alone.
LEMMA OneRowWriteKeeps ==
  ASSUME RelatedAssumption, RelatedInv, NEW x \in Clients, step[x] = "write",
         NEW p \in Rows, NEW row \in Row, NEW P, P = [product EXCEPT ![p] = row],
         NEW new, NEW unsafe, NEW event,
         CommitRow(x, P, category, Ask(p, new), unsafe, event),
         product[p] # NoRow /\ row # NoRow =>
           /\ \A k \in DOMAIN new \cap Cols : new[k] \in ColumnValues
           /\ p \in unsafe \/ row = Updates(product[p], new),
         \A c \in Categories : row.link = c =>
           \/ Checked(c)
           \/ req[x].kind \in {"patch", "put"} /\ req[x].by = "fk" /\ c = req[x].link,
         \/ event = NoEvent /\ (ThenRecord(x) \/ \E s : Answer(x, s))
         \/ event = Event(p, row) /\ p \in Products /\ ThenRecord(x)
  PROVE  RelatedInv'
<1>1. product \in [Rows -> Row] /\ category \in [Categories -> Name]
  BY DEF RelatedInv, RelatedTypeOK
<1>2. P \in [Rows -> Row] /\ P[p] = row /\ \A o \in Rows \ {p} : P[o] = product[o]
  BY <1>1
<1>3. WritesWhatIsAsked(P, Ask(p, new), unsafe)
  BY <1>2, OneRow
<1>4. LinksExist(x, P, category)
  <2>1. \A o \in Rows : LinkIsChecked(product[o])
    BY DEF RelatedInv, LinksAreChecked
  <2> QED
    BY <1>2, <2>1 DEF LinksExist, LinkIsChecked
<1>5. TellsWhatItWrites(P, category, event)
  BY <1>2, NoLink DEF TellsWhatItWrites, Told, Event, NoEvent, Fed, RelatedAssumption
<1> QED
  BY <1>1, <1>2, <1>3, <1>4, <1>5, CommitKeeps

\* What a PUT replaces a row by.
LEMMA ReplacementIsRow ==
  ASSUME NEW x \in Clients, NEW link \in Categories \cup {None}
  PROVE  /\ Replacement(x, link) \in Row /\ Replacement(x, link).link = link
         /\ DOMAIN Replacement(x, link) = Cols /\ Replacement(x, link)["link"] = link
         /\ \A k \in Cols : Replacement(x, link)[k] \in ColumnValues
BY DEF Replacement, Blank, Row, Cols, ColumnValues, Values

\* PUT asks for every column, and takes a foreign key as it is.
LEMMA PutEntityKeeps ==
  ASSUME RelatedAssumption, RelatedInv, NEW x \in Clients, PutEntity(x)
  PROVE  RelatedInv'
<1> DEFINE q == req[x]
           new == Replacement(x, q.link)
           row == Updates(product[q.p], new)
           P == [product EXCEPT ![q.p] = Updates(@, new)]
<1>0. PICK failed \in {FALSE, DbMayFail} :
        /\ Writing(x, {"put"}) /\ ThenRecord(x)
        /\ CommitRow(x, P, category, Ask(q.p, new), {},
                     Refreshed(q.p, P[q.p] # NoRow, P[q.p], failed))
  BY DEF PutEntity
<1> DEFINE event == Refreshed(q.p, P[q.p] # NoRow, P[q.p], failed)
<1>1. /\ Writing(x, {"put"}) /\ ThenRecord(x)
      /\ CommitRow(x, P, category, Ask(q.p, new), {}, event)
  BY <1>0
<1>2. /\ step[x] = "write" /\ q.kind = "put" /\ WellFormed(q)
      /\ product \in [Rows -> Row]
  BY <1>1, WritingRequest
<1>3. /\ q.p \in Products /\ q.p \in Rows
      /\ q.link \in Categories => q.by = "fk"
      /\ q.link \in Categories \cup {None}
  BY <1>2, NoLink DEF WellFormed, LinkWays, Rows
<1>4. /\ \A k \in DOMAIN new \cap Cols : new[k] \in ColumnValues
      /\ "link" \in DOMAIN new /\ new["link"] = q.link
  BY <1>3, ReplacementIsRow DEF Cols
<1> HIDE DEF new
<1>5. /\ product[q.p] \in Row /\ row \in Row /\ (product[q.p] = NoRow => row = NoRow)
      /\ product[q.p] # NoRow => row.link = q.link
  BY <1>2, <1>3, <1>4, UpdatesKeepsRows
<1>6. ASSUME NEW c \in Categories, row.link = c
      PROVE  q.kind \in {"patch", "put"} /\ q.by = "fk" /\ c = q.link
  BY <1>2, <1>3, <1>5, <1>6, NoLink DEF NoRow, Cols
<1>7. P = [product EXCEPT ![q.p] = row] /\ row = Updates(product[q.p], new)
  OBVIOUS
<1>8. event = NoEvent \/ event = Event(q.p, row)
  BY <1>2, <1>3, <1>5 DEF Refreshed
<1> HIDE DEF P, row, event
<1> QED
  BY <1>1, <1>2, <1>3, <1>4, <1>5, <1>6, <1>7, <1>8, OneRowWriteKeeps

\* DELETE of a product leaves nothing to refer from.
LEMMA DeleteEntityKeeps ==
  ASSUME RelatedAssumption, RelatedInv, NEW x \in Clients, DeleteEntity(x)
  PROVE  RelatedInv'
<1> DEFINE q == req[x]
           row == NoRow
           P == [product EXCEPT ![q.p] = row]
           new == << >>
           unsafe == {}
           event == Event(q.p, row)
<1>1. /\ Writing(x, {"delete"}) /\ ThenRecord(x)
      /\ CommitRow(x, P, category, Ask(q.p, new), unsafe, event)
  BY DEF DeleteEntity
<1>2. step[x] = "write" /\ q.kind = "delete" /\ WellFormed(q)
  BY <1>1, WritingRequest
<1>3. q.p \in Products /\ q.p \in Rows
  BY <1>2 DEF WellFormed, Rows
<1>4. row = NoRow /\ row \in Row /\ \A c \in Categories : row.link # c
  BY RowsAreRows, NoLink DEF NoRow, Cols
<1>5. P = [product EXCEPT ![q.p] = row] /\ event = Event(q.p, row)
  OBVIOUS
<1> HIDE DEF P, row, new, unsafe, event
<1>6. product[q.p] # NoRow /\ row # NoRow =>
        /\ \A k \in DOMAIN new \cap Cols : new[k] \in ColumnValues
        /\ q.p \in unsafe \/ row = Updates(product[q.p], new)
  BY <1>4
<1>7. \A c \in Categories : row.link = c =>
        \/ Checked(c)
        \/ req[x].kind \in {"patch", "put"} /\ req[x].by = "fk" /\ c = req[x].link
  BY <1>4
<1> QED
  BY <1>1, <1>2, <1>3, <1>4, <1>5, <1>6, <1>7, OneRowWriteKeeps
\* DELETE of a category leaves links that were looked for before.
LEMMA DeleteCategoryKeeps ==
  ASSUME RelatedAssumption, RelatedInv, NEW x \in Clients, DeleteCategory(x)
  PROVE  RelatedInv'
<1> DEFINE q == req[x]
           P == product
           C == [category EXCEPT ![q.c] = Gone]
           asked == Ask(None, << >>)
           unsafe == {}
           event == Event(q.c, Gone)
<1>1. /\ Writing(x, {"deleteCategory"}) /\ ThenRecord(x)
      /\ CommitRow(x, P, C, asked, unsafe, event)
  BY DEF DeleteCategory
<1>2. /\ step[x] = "write" /\ q.kind = "deleteCategory" /\ WellFormed(q)
      /\ product \in [Rows -> Row] /\ category \in [Categories -> Name]
  BY <1>1, WritingRequest
<1>3. q.c \in Categories /\ q.c \notin Products
  BY <1>2 DEF WellFormed, RelatedAssumption
<1>4. C \in [Categories -> Name] /\ C[q.c] = Gone
  BY <1>2, <1>3 DEF Name
<1>5. WritesWhatIsAsked(P, asked, unsafe)
  <2>1. \A p \in Rows : asked[p] = << >> /\ DOMAIN asked[p] = {}
    BY DOMAIN << >> = {} DEF Ask
  <2>2. \A p \in Rows : Updates(product[p], << >>) = product[p]
    BY <1>2, UpdatesOfNothing
  <2> QED
    BY <2>1, <2>2 DEF WritesWhatIsAsked
<1>6. LinksExist(x, P, C)
  BY DEF LinksExist, LinkIsChecked, RelatedInv, LinksAreChecked
<1>7. TellsWhatItWrites(P, C, event)
  BY <1>3, <1>4 DEF TellsWhatItWrites, Told, Event, Fed
<1>8. P \in [Rows -> Row]
  BY <1>2
<1> HIDE DEF P, C, asked, unsafe, event
<1> QED
  BY <1>1, <1>2, <1>4, <1>5, <1>6, <1>7, <1>8, CommitKeeps

-----------------------------------------------------------------------------
(* The writes outside a transaction note no event.                         *)

\* UPDATE of one column.
LEMMA UpdatesOnly ==
  ASSUME NEW column \in Cols, NEW value \in ColumnValues, NEW row \in Row
  PROVE  /\ \A k \in DOMAIN Only(column, value) \cap Cols : Only(column, value)[k] \in ColumnValues
         /\ row # NoRow => Updates(row, Only(column, value)) =
              [k \in Cols |-> IF k = column THEN value ELSE row[k]]
BY DEF Updates, Only

\* Save writes a row as it was read, which is what was asked of the row only
\* if nothing was written in between.
LEMMA SaveRefKeeps ==
  ASSUME RelatedAssumption, RelatedInv, NEW x \in Clients, SaveRef(x)
  PROVE  RelatedInv'
<1> DEFINE q == req[x]
           link == IF q.kind = "putRef" THEN q.c ELSE None
           row == [entity[x][q.p] EXCEPT !.link = link]
           P == [product EXCEPT ![q.p] = row]
           new == Only("link", link)
           unsafe == {q.p} \ {p \in Rows : entity[x][p] = product[p]}
<1>1. /\ Writing(x, {"putRef", "deleteRef"}) /\ \E s : Answer(x, s)
      /\ CommitRow(x, P, category, Ask(q.p, new), unsafe, NoEvent)
  BY DEF SaveRef, Save
<1>2. /\ step[x] = "write" /\ q.kind \in {"putRef", "deleteRef"} /\ WellFormed(q)
      /\ TargetsAreChecked(x) /\ entity[x] \in [Rows -> Row] /\ product \in [Rows -> Row]
  BY <1>1, WritingRequest
<1>3. q.p \in Rows /\ (q.kind = "putRef" => q.c \in Categories)
  BY <1>2 DEF WellFormed, Rows
<1>4. link \in ColumnValues /\ (link = None \/ (q.kind = "putRef" /\ link = q.c))
  <2>1. CASE q.kind = "putRef"
    BY <1>3, <2>1 DEF ColumnValues, Values
  <2>2. CASE q.kind # "putRef"
    BY <2>2 DEF ColumnValues, Values
  <2> QED
    BY <2>1, <2>2
<1>5. entity[x][q.p] \in Row /\ product[q.p] \in Row /\ "link" \in Cols
  BY <1>2, <1>3 DEF Cols
<1> HIDE DEF link
<1>6. row \in Row /\ row = [k \in Cols |-> IF k = "link" THEN link ELSE entity[x][q.p][k]]
  BY <1>4, <1>5 DEF Row
<1>7. row.link = link
  BY <1>6 DEF Cols
<1>8. product[q.p] # NoRow /\ row # NoRow =>
        /\ \A k \in DOMAIN new \cap Cols : new[k] \in ColumnValues
        /\ q.p \in unsafe \/ row = Updates(product[q.p], new)
  <2>1. CASE q.p \in unsafe
    BY <1>4, <1>5, <2>1, UpdatesOnly
  <2>2. CASE q.p \notin unsafe
    <3>1. entity[x][q.p] = product[q.p]
      BY <1>3, <2>2
    <3> QED
      BY <1>4, <1>5, <1>6, <3>1, UpdatesOnly
  <2> QED
    BY <2>1, <2>2
<1>9. \A c \in Categories : row.link = c =>
        \/ Checked(c)
        \/ req[x].kind \in {"patch", "put"} /\ req[x].by = "fk" /\ c = req[x].link
  BY <1>2, <1>4, <1>7, NoLink DEF TargetsAreChecked
<1>10. P = [product EXCEPT ![q.p] = row]
  OBVIOUS
<1> HIDE DEF P, row, new, unsafe
<1> QED
  BY <1>1, <1>2, <1>3, <1>6, <1>8, <1>9, <1>10, OneRowWriteKeeps

\* POST to a collection's $ref changes the link of the row there is, and
\* inserts the row again as it was read only if it was deleted.
LEMMA AppendRefKeeps ==
  ASSUME RelatedAssumption, RelatedInv, NEW x \in Clients, AppendRef(x)
  PROVE  RelatedInv'
<1> DEFINE q == req[x]
           row == UpsertLink(product[q.p], entity[x][q.p], q.c)
           P == [product EXCEPT ![q.p] = row]
           new == Only("link", q.c)
           unsafe == {q.p} \cap {p \in Rows : product[p] = NoRow}
<1>1. /\ Writing(x, {"addRef"}) /\ \E s : Answer(x, s)
      /\ CommitRow(x, P, category, Ask(q.p, new), unsafe, NoEvent)
  BY DEF AppendRef
<1>2. /\ step[x] = "write" /\ q.kind = "addRef" /\ WellFormed(q)
      /\ TargetsAreChecked(x) /\ entity[x] \in [Rows -> Row] /\ product \in [Rows -> Row]
  BY <1>1, WritingRequest
<1>3. q.p \in Rows /\ q.c \in Categories /\ q.c \in ColumnValues /\ Checked(q.c)
  BY <1>2 DEF WellFormed, Rows, TargetsAreChecked, ReadsCategory, ColumnValues, Values
<1>4. entity[x][q.p] \in Row /\ product[q.p] \in Row /\ "link" \in Cols
  BY <1>2, <1>3 DEF Cols
<1>5. /\ row \in Row /\ row.link = q.c
      /\ product[q.p] # NoRow =>
           row = [k \in Cols |-> IF k = "link" THEN q.c ELSE product[q.p][k]]
  BY <1>3, <1>4 DEF UpsertLink, Row, Cols
<1>6. product[q.p] # NoRow /\ row # NoRow =>
        /\ \A k \in DOMAIN new \cap Cols : new[k] \in ColumnValues
        /\ q.p \in unsafe \/ row = Updates(product[q.p], new)
  BY <1>3, <1>4, <1>5, UpdatesOnly
<1>7. \A c \in Categories : row.link = c =>
        \/ Checked(c)
        \/ req[x].kind \in {"patch", "put"} /\ req[x].by = "fk" /\ c = req[x].link
  BY <1>3, <1>5
<1>8. P = [product EXCEPT ![q.p] = row]
  OBVIOUS
<1> HIDE DEF P, row, new, unsafe
<1> QED
  BY <1>1, <1>2, <1>3, <1>5, <1>6, <1>7, <1>8, OneRowWriteKeeps
\* DELETE from a collection's $ref changes the link if it is still this one.
LEMMA RemoveRefKeeps ==
  ASSUME RelatedAssumption, RelatedInv, NEW x \in Clients, RemoveRef(x)
  PROVE  RelatedInv'
<1> DEFINE q == req[x]
           new == IF product[q.p].link = q.c THEN Only("link", None) ELSE << >>
           row == Updates(product[q.p], new)
           P == [product EXCEPT ![q.p] = row]
           unsafe == {}
<1>1. /\ Writing(x, {"removeRef"}) /\ \E s : Answer(x, s)
      /\ CommitRow(x, P, category, Ask(q.p, new), unsafe, NoEvent)
  BY DEF RemoveRef
<1>2. step[x] = "write" /\ q.kind = "removeRef" /\ WellFormed(q) /\ product \in [Rows -> Row]
  BY <1>1, WritingRequest
<1>3. q.p \in Rows /\ product[q.p] \in Row /\ None \in ColumnValues /\ "link" \in Cols
  BY <1>2 DEF WellFormed, Rows, ColumnValues, Values, Cols
<1>4. /\ \A k \in DOMAIN new \cap Cols : new[k] \in ColumnValues
      /\ "link" \in DOMAIN new => new["link"] = None
  <2>1. CASE product[q.p].link = q.c
    BY <2>1, <1>3, UpdatesOnly DEF Only
  <2>2. CASE product[q.p].link # q.c
    BY <2>2, DOMAIN << >> = {}
  <2> QED
    BY <2>1, <2>2
<1> HIDE DEF new
<1>5. /\ row \in Row /\ (product[q.p] = NoRow => row = NoRow)
      /\ product[q.p] # NoRow =>
           row.link = IF "link" \in DOMAIN new THEN new["link"] ELSE product[q.p].link
  BY <1>3, <1>4, UpdatesKeepsRows
<1>6. product[q.p] # NoRow /\ row # NoRow =>
        /\ \A k \in DOMAIN new \cap Cols : new[k] \in ColumnValues
        /\ q.p \in unsafe \/ row = Updates(product[q.p], new)
  BY <1>4
<1>7. \A c \in Categories : row.link = c =>
        \/ Checked(c)
        \/ req[x].kind \in {"patch", "put"} /\ req[x].by = "fk" /\ c = req[x].link
  <2>1. LinkIsChecked(product[q.p])
    BY <1>3 DEF RelatedInv, LinksAreChecked
  <2>2. row.link = product[q.p].link \/ row.link = None
    BY <1>4, <1>5
  <2> QED
    BY <2>1, <2>2, NoLink DEF LinkIsChecked
<1>8. P = [product EXCEPT ![q.p] = row]
  OBVIOUS
<1> HIDE DEF P, row, unsafe
<1> QED
  BY <1>1, <1>2, <1>3, <1>5, <1>6, <1>7, <1>8, OneRowWriteKeeps

\* The columns of a stream's row that were not read are written all the same:
\* the row is one of those written from a partial read.
LEMMA SaveStreamKeeps ==
  ASSUME RelatedAssumption, RelatedInv, NEW x \in Clients, SaveStream(x)
  PROVE  RelatedInv'
<1> DEFINE q == req[x]
           row == [entity[x][q.p] EXCEPT !.photo = x]
           P == [product EXCEPT ![q.p] = row]
           new == Only("photo", x)
           unsafe == {q.p}
<1>1. /\ Writing(x, {"putStream"}) /\ \E s : Answer(x, s)
      /\ CommitRow(x, P, category, Ask(q.p, new), unsafe, NoEvent)
  BY DEF SaveStream, Save
<1>2. /\ step[x] = "write" /\ q.kind = "putStream" /\ WellFormed(q)
      /\ entity[x] \in [Rows -> Row] /\ product \in [Rows -> Row]
      /\ \A p \in Rows : LinkIsChecked(entity[x][p])
  BY <1>1, WritingRequest
<1>3. /\ q.p \in Rows /\ product[q.p] \in Row /\ entity[x][q.p] \in Row
      /\ x \in ColumnValues /\ "photo" \in Cols
  BY <1>2 DEF WellFormed, Rows, ColumnValues, Values, Cols
<1>4. row \in Row /\ row.link = entity[x][q.p].link
  BY <1>3 DEF Row, Cols
<1>5. product[q.p] # NoRow /\ row # NoRow =>
        /\ \A k \in DOMAIN new \cap Cols : new[k] \in ColumnValues
        /\ q.p \in unsafe \/ row = Updates(product[q.p], new)
  BY <1>3, UpdatesOnly
<1>6. \A c \in Categories : row.link = c =>
        \/ Checked(c)
        \/ req[x].kind \in {"patch", "put"} /\ req[x].by = "fk" /\ c = req[x].link
  BY <1>2, <1>3, <1>4 DEF LinkIsChecked
<1>7. P = [product EXCEPT ![q.p] = row]
  OBVIOUS
<1> HIDE DEF P, row, new, unsafe
<1> QED
  BY <1>1, <1>2, <1>3, <1>4, <1>5, <1>6, <1>7, OneRowWriteKeeps

\* PUT of a media entity's content names its columns.
LEMMA UpdateMediaKeeps ==
  ASSUME RelatedAssumption, RelatedInv, NEW x \in Clients, UpdateMedia(x)
  PROVE  RelatedInv'
<1> DEFINE q == req[x]
           new == Only("media", x)
           row == Updates(product[q.p], new)
           P == [product EXCEPT ![q.p] = row]
           unsafe == {}
<1>1. /\ Writing(x, {"putMedia"}) /\ \E s : Answer(x, s)
      /\ CommitRow(x, P, category, Ask(q.p, new), unsafe, NoEvent)
  BY DEF UpdateMedia
<1>2. step[x] = "write" /\ q.kind = "putMedia" /\ WellFormed(q) /\ product \in [Rows -> Row]
  BY <1>1, WritingRequest
<1>3. /\ q.p \in Rows /\ product[q.p] \in Row /\ x \in ColumnValues /\ "media" \in Cols
      /\ LinkIsChecked(product[q.p])
  <2>1. q.p \in Rows
    BY <1>2 DEF WellFormed, Rows
  <2> QED
    BY <1>2, <2>1 DEF ColumnValues, Values, Cols, RelatedInv, LinksAreChecked
<1>4. /\ \A k \in DOMAIN new \cap Cols : new[k] \in ColumnValues
      /\ "link" \notin DOMAIN new
  BY <1>3 DEF Only
<1> HIDE DEF new
<1>5. row \in Row /\ row.link = product[q.p].link
  BY <1>3, <1>4, UpdatesKeepsRows
<1>6. product[q.p] # NoRow /\ row # NoRow =>
        /\ \A k \in DOMAIN new \cap Cols : new[k] \in ColumnValues
        /\ q.p \in unsafe \/ row = Updates(product[q.p], new)
  BY <1>4
<1>7. \A c \in Categories : row.link = c =>
        \/ Checked(c)
        \/ req[x].kind \in {"patch", "put"} /\ req[x].by = "fk" /\ c = req[x].link
  BY <1>3, <1>5 DEF LinkIsChecked
<1>8. P = [product EXCEPT ![q.p] = row]
  OBVIOUS
<1> HIDE DEF P, row, unsafe
<1> QED
  BY <1>1, <1>2, <1>3, <1>5, <1>6, <1>7, <1>8, OneRowWriteKeeps

\* The singleton refers to nothing.
LEMMA UpdateSingletonKeeps ==
  ASSUME RelatedAssumption, RelatedInv, NEW x \in Clients, UpdateSingleton(x)
  PROVE  RelatedInv'
<1> DEFINE q == req[x]
           new == IF q.kind = "patchMe" THEN Only("name", x) ELSE Replacement(x, None)
           row == Updates(product[Me], new)
           P == [product EXCEPT ![Me] = row]
           unsafe == {}
<1>1. /\ Writing(x, {"patchMe", "putMe"}) /\ \E s : Answer(x, s)
      /\ CommitRow(x, P, category, Ask(Me, new), unsafe, NoEvent)
  BY DEF UpdateSingleton
<1>2. step[x] = "write" /\ product \in [Rows -> Row]
  BY <1>1, WritingRequest
<1>3. /\ Me \in Rows /\ product[Me] \in Row /\ x \in ColumnValues /\ "name" \in Cols
      /\ LinkIsChecked(product[Me])
  <2>1. Me \in Rows
    BY DEF Rows
  <2> QED
    BY <1>2, <2>1 DEF ColumnValues, Values, Cols, RelatedInv, LinksAreChecked
<1>4. /\ \A k \in DOMAIN new \cap Cols : new[k] \in ColumnValues
      /\ "link" \in DOMAIN new => new["link"] = None
  <2>1. CASE q.kind = "patchMe"
    BY <1>3, <2>1 DEF Only
  <2>2. CASE q.kind # "patchMe"
    BY <2>2, ReplacementIsRow DEF Cols
  <2> QED
    BY <2>1, <2>2
<1> HIDE DEF new
<1>5. /\ row \in Row /\ (product[Me] = NoRow => row = NoRow)
      /\ product[Me] # NoRow =>
           row.link = IF "link" \in DOMAIN new THEN new["link"] ELSE product[Me].link
  BY <1>3, <1>4, UpdatesKeepsRows
<1>6. product[Me] # NoRow /\ row # NoRow =>
        /\ \A k \in DOMAIN new \cap Cols : new[k] \in ColumnValues
        /\ Me \in unsafe \/ row = Updates(product[Me], new)
  BY <1>4
<1>7. \A c \in Categories : row.link = c =>
        \/ Checked(c)
        \/ req[x].kind \in {"patch", "put"} /\ req[x].by = "fk" /\ c = req[x].link
  <2>1. row.link = product[Me].link \/ row.link = None
    BY <1>4, <1>5
  <2> QED
    BY <1>3, <2>1, NoLink DEF LinkIsChecked
<1>8. P = [product EXCEPT ![Me] = row]
  OBVIOUS
<1> HIDE DEF P, row, unsafe
<1> QED
  BY <1>1, <1>2, <1>3, <1>5, <1>6, <1>7, <1>8, OneRowWriteKeeps
-----------------------------------------------------------------------------
(* The binding of a collection writes many rows.                           *)

\* A row with another link.
Linked(row, link) == [row EXCEPT !.link = link]

\* Setting the link of a row is UPDATE of that column.
LEMMA LinkIsUpdated ==
  ASSUME NEW row \in Row, NEW link \in ColumnValues
  PROVE  /\ Linked(row, link) \in Row /\ Linked(row, link).link = link
         /\ \A k \in DOMAIN Only("link", link) \cap Cols : Only("link", link)[k] \in ColumnValues
         /\ row # NoRow => Updates(row, Only("link", link)) = Linked(row, link)
<1>1. Linked(row, link) = [k \in Cols |-> IF k = "link" THEN link ELSE row[k]]
  BY DEF Row, Linked
<1>2. "link" \in Cols
  BY DEF Cols
<1> QED
  BY <1>1, <1>2, UpdatesOnly DEF Row

\* A bound collection links its products, unlinks the others, and records the
\* event of the category only.
LEMMA BindProductsKeeps ==
  ASSUME RelatedAssumption, RelatedInv, NEW x \in Clients, BindProducts(x)
  PROVE  RelatedInv'
<1> DEFINE q == req[x]
           P == ReplaceProducts(q.c, q.ps, entity[x])
           C == IF q.kind = "postCategory" THEN [category EXCEPT ![q.c] = x] ELSE category
           asked == [p \in Rows |->
                       IF p \in q.ps THEN Only("link", q.c)
                       ELSE IF product[p].link = q.c THEN Only("link", None) ELSE << >>]
           unsafe == {p \in q.ps : product[p] = NoRow}
<1>0. /\ Writing(x, {"postCategory", "patchCategory"}) /\ ThenRecord(x)
      /\ \E failed \in {FALSE, DbMayFail /\ q.kind = "patchCategory"} :
           CommitRow(x, P, C, asked, unsafe, Refreshed(q.c, C[q.c] # Gone, C[q.c], failed))
  BY DEF BindProducts
<1> HIDE DEF P, C, asked, unsafe
<1>f. PICK failed :
        CommitRow(x, P, C, asked, unsafe, Refreshed(q.c, C[q.c] # Gone, C[q.c], failed))
  BY <1>0
<1> DEFINE event == Refreshed(q.c, C[q.c] # Gone, C[q.c], failed)
<1>1. /\ Writing(x, {"postCategory", "patchCategory"}) /\ ThenRecord(x)
      /\ CommitRow(x, P, C, asked, unsafe, event)
  BY <1>0, <1>f
<1> USE DEF P, C, asked, unsafe
<1>2. /\ step[x] = "write" /\ q.kind \in {"postCategory", "patchCategory"} /\ WellFormed(q)
      /\ TargetsAreChecked(x) /\ entity[x] \in [Rows -> Row]
      /\ product \in [Rows -> Row] /\ category \in [Categories -> Name]
      /\ \A p \in Rows : LinkIsChecked(product[p])
  BY <1>1, WritingRequest DEF RelatedInv, LinksAreChecked
<1>3. /\ q.c \in Categories /\ q.c \notin Products /\ q.ps \subseteq Products
      /\ q.c \in ColumnValues /\ None \in ColumnValues
  BY <1>2 DEF WellFormed, RelatedAssumption, ColumnValues, Values
<1>4. C \in [Categories -> Name] /\ (q.kind = "postCategory" => C[q.c] # Gone)
  BY <1>2, <1>3 DEF Name, RelatedAssumption
<1>5. event = NoEvent \/ event = Event(q.c, C[q.c])
  BY DEF Refreshed
<1> HIDE DEF C, event
\* The rows of the collection, those that leave it, and the rest.
<1>6. ASSUME NEW p \in Rows
      PROVE  /\ P[p] = IF p \in q.ps THEN UpsertLink(product[p], entity[x][p], q.c)
                       ELSE IF product[p].link = q.c
                            THEN Linked(product[p], None) ELSE product[p]
             /\ product[p] \in Row /\ entity[x][p] \in Row
             /\ UpsertLink(product[p], entity[x][p], q.c) =
                  IF product[p] = NoRow THEN Linked(entity[x][p], q.c)
                  ELSE Linked(product[p], q.c)
  BY <1>2, <1>6 DEF ReplaceProducts, UpsertLink, Linked
<1>7. ASSUME NEW p \in Rows
      PROVE  /\ P[p] \in Row
             /\ P[p].link = q.c \/ P[p].link = None \/ P[p].link = product[p].link
  <2>1. /\ Linked(entity[x][p], q.c) \in Row /\ Linked(entity[x][p], q.c).link = q.c
        /\ Linked(product[p], q.c) \in Row /\ Linked(product[p], q.c).link = q.c
        /\ Linked(product[p], None) \in Row /\ Linked(product[p], None).link = None
    BY <1>3, <1>6, <1>7, LinkIsUpdated
  <2> HIDE DEF P
  <2> QED
    BY <1>6, <1>7, <2>1
<1>8. P \in [Rows -> Row]
  <2>1. \E F : P = [p \in Rows |-> F[p]]
    <3>1. P = [p \in Rows |-> P[p]]
      BY DEF ReplaceProducts
    <3> QED
      BY <3>1
  <2> QED
    BY <1>7, <2>1
<1>9. WritesWhatIsAsked(P, asked, unsafe)
  <2> SUFFICES ASSUME NEW p \in Rows, product[p] # NoRow, P[p] # NoRow
               PROVE  /\ \A k \in DOMAIN asked[p] \cap Cols : asked[p][k] \in ColumnValues
                      /\ p \in unsafe \/ P[p] = Updates(product[p], asked[p])
    BY DEF WritesWhatIsAsked
  <2> HIDE DEF P
  <2>1. CASE p \in q.ps
    <3>1. asked[p] = Only("link", q.c) /\ P[p] = Linked(product[p], q.c)
      BY <1>6, <2>1
    <3> QED
      BY <1>3, <1>6, <3>1, LinkIsUpdated
  <2>2. CASE p \notin q.ps /\ product[p].link = q.c
    <3>1. asked[p] = Only("link", None) /\ P[p] = Linked(product[p], None)
      BY <1>6, <2>2
    <3> QED
      BY <1>3, <1>6, <3>1, LinkIsUpdated
  <2>3. CASE p \notin q.ps /\ product[p].link # q.c
    <3>1. asked[p] = << >> /\ DOMAIN << >> = {}
      BY <2>3
    <3>2. P[p] = product[p]
      BY <1>6, <2>3
    <3> QED
      BY <1>6, <3>1, <3>2, UpdatesOfNothing
  <2> QED
    BY <2>1, <2>2, <2>3
<1> HIDE DEF P, asked, unsafe
<1>10. LinksExist(x, P, C)
  <2> SUFFICES ASSUME NEW p \in Rows, NEW c \in Categories, P[p].link = c
               PROVE  Checked(c) \/ C[c] # Gone
    BY DEF LinksExist
  <2>1. CASE c = q.c
    BY <1>2, <1>4, <2>1 DEF TargetsAreChecked, ReadsCategory
  <2>2. CASE c # q.c
    BY <1>2, <1>7, <2>2, NoLink DEF LinkIsChecked
  <2> QED
    BY <2>1, <2>2
<1>11. TellsWhatItWrites(P, C, event)
  BY <1>3, <1>5, NoLink DEF TellsWhatItWrites, Told, Event, NoEvent, Fed, RelatedAssumption
<1> QED
  BY <1>1, <1>2, <1>4, <1>8, <1>9, <1>10, <1>11, CommitKeeps
-----------------------------------------------------------------------------
(* The event of a committed write, and the system as a whole.              *)

\* The feed is told the row as it is, unless it was overtaken.
LEMMA RecordChangeKeeps ==
  ASSUME RelatedAssumption, RelatedInv, NEW x \in Clients, RecordChange(x)
  PROVE  RelatedInv'
<1>1. /\ step[x] = "event" /\ told' = FinalizeEvents(pending[x])
      /\ pending' = [pending EXCEPT ![x] = NoEvent] /\ UNCHANGED <<tables, history>>
      /\ \E s : Answer(x, s)
  BY DEF RecordChange
<1>2. RelatedTypeOK /\ RequestsAgree /\ LinksAreChecked /\ EventsAreCurrent /\ FeedTellsTheTables
  BY DEF RelatedInv
<1>3. Moves(x) /\ step'[x] = "done" /\ entity'[x] = NothingRead
  BY <1>1, <1>2, AnswerMoves
<1>4. /\ product' = product /\ category' = category /\ last' = last /\ clobbered' = clobbered
      /\ unfed' = unfed /\ overtaken' = overtaken /\ deleted' = deleted /\ unchecked' = unchecked
  BY <1>1 DEF tables, history
<1>5. pending'[x] = NoEvent /\ \A y \in Clients \ {x} : pending'[y] = pending[y]
  BY <1>1, <1>2 DEF RelatedTypeOK
<1>6. None \notin Fed
  BY DEF RelatedAssumption, Fed
<1>7. DOMAIN told' = Fed /\ \A r \in Fed :
        told'[r] = IF r = pending[x].row THEN pending[x].value ELSE told[r]
  BY <1>1, <1>2, <1>6 DEF FinalizeEvents, RelatedTypeOK
<1>8. RelatedTypeOK'
  <2>1. DOMAIN pending' = Clients /\ \A y \in Clients : pending'[y].row \in Fed \cup {None}
    BY <1>1, <1>2, <1>5 DEF RelatedTypeOK, NoEvent
  <2> QED
    BY <1>2, <1>3, <1>4, <1>7, <2>1 DEF RelatedTypeOK, Moves, Steps
<1>9. RequestsAgree'
  <2> SUFFICES ASSUME NEW y \in Clients
               PROVE  (/\ step[y] \in {"read", "target", "write", "event"} =>
                            req[y] \in LinkRequests /\ req[y].form = "ok"
                       /\ step[y] # "event" => pending[y] = NoEvent)'
    BY DEF RequestsAgree
  <2>1. CASE y = x
    <3>1. NoEvent' = NoEvent
      BY DEF NoEvent, NoRow
    <3> QED
      BY <1>3, <1>5, <2>1, <3>1
  <2>2. CASE y # x
    BY <1>2, <1>3, <1>5, <2>2 DEF RequestsAgree, Moves
  <2> QED
    BY <2>1, <2>2
<1>10. LinksAreChecked'
  <2>1. \A c \in Categories : Checked(c) => Checked(c)'
    BY <1>4 DEF Checked
  <2>2. \A p \in Rows : LinkIsChecked(product[p])'
    BY <1>2, <1>4 DEF LinksAreChecked, LinkIsChecked, Checked
  <2>3. TargetsAreChecked(x)'
    BY <1>3 DEF TargetsAreChecked
  <2>4. \A p \in Rows : LinkIsChecked(entity[x][p])'
    BY <1>3, RowsAreRows, NoLink DEF LinkIsChecked, NoRow, Cols
  <2> QED
    BY <1>3, <2>1, <2>2, <2>3, <2>4, LinksStayChecked
<1>11. EventsAreCurrent'
  <2> SUFFICES ASSUME NEW r \in Fed \ (unfed \cup overtaken), NEW y \in Clients,
                      pending'[y].row = r
               PROVE  pending'[y].value = Current(r)'
    BY <1>4 DEF EventsAreCurrent
  <2>1. y # x /\ pending'[y] = pending[y]
    BY <1>5, <1>6 DEF NoEvent
  <2> QED
    BY <1>2, <1>4, <2>1 DEF EventsAreCurrent, Current
<1>12. FeedTellsTheTables'
  <2> SUFFICES ASSUME NEW r \in Fed \ (unfed \cup overtaken), \A y \in Clients : pending'[y].row # r
               PROVE  told'[r] = Current(r)
    BY <1>4 DEF FeedTellsTheTables, Current, Fed
  <2>1. CASE pending[x].row = r
    BY <1>2, <1>7, <2>1 DEF EventsAreCurrent
  <2>2. CASE pending[x].row # r
    <3>1. \A y \in Clients : pending[y].row # r
      BY <1>5, <2>2
    <3> QED
      BY <1>2, <1>7, <2>2, <3>1 DEF FeedTellsTheTables, Current, Fed
  <2> QED
    BY <2>1, <2>2
<1>13. OnlyNamedColumnsChange'
  BY <1>4 DEF RelatedInv, OnlyNamedColumnsChange
<1> QED
  BY <1>8, <1>9, <1>10, <1>11, <1>12, <1>13 DEF RelatedInv

\* The tables start with rows that refer to nothing, and a feed that knows them.
LEMMA RelatedInitHolds ==
  ASSUME RelatedAssumption, RelatedInit
  PROVE  RelatedInv
<1> USE DEF RelatedInit
<1>1. product \in [Rows -> Row] /\ category \in [Categories -> Name]
  BY RowsAreRows DEF Name
<1>2. \A p \in Rows : product[p] = NoRow \/ product[p] = FirstRow
  OBVIOUS
<1>3. NoRow.link = Gone /\ FirstRow.link = None
  BY DEF NoRow, FirstRow, Blank, Cols
<1>4. \A p \in Rows : LinkIsChecked(product[p])
  BY <1>2, <1>3, NoLink DEF LinkIsChecked
<1>5. \A x \in Clients, p \in Rows : LinkIsChecked(entity[x][p])
  BY <1>3, RowsAreRows, NoLink DEF LinkIsChecked
<1>6. RelatedTypeOK
  BY <1>1, RowsAreRows DEF RelatedTypeOK, Fed, NoEvent
<1>7. RequestsAgree /\ LinksAreChecked
  BY <1>4, <1>5 DEF RequestsAgree, LinksAreChecked, TargetsAreChecked
<1>8. EventsAreCurrent
  BY DEF EventsAreCurrent, NoEvent, RelatedAssumption, Fed
<1>9. OnlyNamedColumnsChange /\ FeedTellsTheTables
  BY DEF OnlyNamedColumnsChange, FeedTellsTheTables
<1> QED
  BY <1>6, <1>7, <1>8, <1>9 DEF RelatedInv

\* The inductive invariant: a request in progress is one that was not refused,
\* every link a row has or a handler read was looked for, and the events that
\* are still to come tell the rows as they are.
THEOREM RelatedInvariant == RelatedSpec => []RelatedInv
<1>1. RelatedInit => RelatedInv
  BY RelatedAssumption, RelatedInitHolds
<1>2. RelatedInv /\ [RelatedNext]_relatedVars => RelatedInv'
  <2> SUFFICES ASSUME RelatedInv, [RelatedNext]_relatedVars PROVE RelatedInv'
    OBVIOUS
  <2> USE RelatedAssumption
  <2>1. CASE UNCHANGED relatedVars
    BY <2>1 DEF relatedVars, RelatedInv, RelatedTypeOK, RequestsAgree, LinksAreChecked,
         LinkIsChecked, TargetsAreChecked, Checked, EventsAreCurrent, Current,
         OnlyNamedColumnsChange, FeedTellsTheTables
  <2>2. ASSUME NEW x \in Clients,
               HandleRequest(x) \/ FetchRow(x) \/ FetchCategory(x) \/ FetchTargets(x)
        PROVE  RelatedInv'
    BY <2>2, HandleRequestKeeps, FetchRowKeeps, FetchCategoryKeeps, FetchTargetsKeeps
  <2>3. ASSUME NEW x \in Clients,
               \/ CreateEntity(x) \/ PatchEntity(x) \/ PutEntity(x) \/ DeleteEntity(x)
               \/ DeleteCategory(x) \/ BindProducts(x)
        PROVE  RelatedInv'
    BY <2>3, CreateEntityKeeps, PatchEntityKeeps, PutEntityKeeps, DeleteEntityKeeps,
       DeleteCategoryKeeps, BindProductsKeeps
  <2>4. ASSUME NEW x \in Clients,
               \/ SaveRef(x) \/ AppendRef(x) \/ RemoveRef(x)
               \/ SaveStream(x) \/ UpdateMedia(x) \/ UpdateSingleton(x)
        PROVE  RelatedInv'
    BY <2>4, SaveRefKeeps, AppendRefKeeps, RemoveRefKeeps, SaveStreamKeeps,
       UpdateMediaKeeps, UpdateSingletonKeeps
  <2>5. ASSUME NEW x \in Clients,
               \/ CreateDuplicate(x) \/ CategoryExists(x) \/ WriteFails(x)
               \/ RecordChange(x)
        PROVE  RelatedInv'
    BY <2>5, RefusedWriteKeeps, RecordChangeKeeps
  <2> QED
    BY <2>1, <2>2, <2>3, <2>4, <2>5 DEF RelatedNext
<1> QED
  BY <1>1, <1>2, PTL DEF RelatedSpec

\* Whatever runs beside it, a write changes the columns its request names and
\* no others, but for the rows saved from a stale or partial read.
THEOREM ColumnsAreNamed == RelatedSpec => []OnlyNamedColumnsChange
<1>1. RelatedInv => OnlyNamedColumnsChange
  BY DEF RelatedInv
<1> QED
  BY <1>1, RelatedInvariant, PTL

\* No row refers to a category that nobody looked for, whichever requests
\* delete categories between another's look and its write, but for a foreign
\* key in the body of a PATCH or PUT.
THEOREM LinksWereLookedFor == RelatedSpec => []LinksWereChecked
<1>1. RelatedInv => LinksWereChecked
  BY DEF RelatedInv, LinksAreChecked, LinkIsChecked, Checked, LinksWereChecked
<1> QED
  BY <1>1, RelatedInvariant, PTL

\* A client of the change feed knows every row that only transactions wrote,
\* once their events are recorded, unless two commits raced to record theirs.
THEOREM RelatedFeed == RelatedSpec => []FeedTellsTheTables
<1>1. RelatedInv => FeedTellsTheTables
  BY DEF RelatedInv
<1> QED
  BY <1>1, RelatedInvariant, PTL
=============================================================================
