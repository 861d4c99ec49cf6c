---------------------------- MODULE EntityWrite ----------------------------
(***************************************************************************)
(* Concurrent writes to one entity of an entity set: POST of               *)
(* internal/handlers/collection_write.go, PATCH, PUT and DELETE of         *)
(* entity_write.go, with their ETag preconditions and change events.       *)
(*                                                                         *)
(* Each request runs one transaction: it reads the row, checks, executes   *)
(* one statement by key and commits; afterwards it records its change      *)
(* event and answers.  The database is external: it locks the row from the *)
(* statement to the end of the transaction, and its isolation level        *)
(* decides what a statement does to a row that changed since it was read.  *)
(***************************************************************************)
EXTENDS Integers, Sequences

CONSTANTS
  RowRequests, \* write requests, each sent by a client of its own
  Props,       \* the properties of the entity besides key and ETag property
  Immutable,   \* those annotated Core.Immutable
  EtagKind,    \* of the ETag property: "int", "other", or "none" without one
  Isolations,  \* the isolation levels the database may run at
  FirstTags,   \* the values a POST gives the ETag property
  Forms,       \* the forms of preconditions that clients send
  RowMayFail   \* whether statements and commits may fail

ASSUME WriteAssumption ==
  /\ "nobody" \notin RowRequests
  /\ Immutable \subseteq Props
  /\ EtagKind \in {"int", "other", "none"}
  /\ Isolations \subseteq {"snapshot", "readCommitted"}
  /\ FirstTags \subseteq Nat
  /\ Forms \subseteq {"none", "matchAny", "noneMatchAny", "match", "noneMatch"}
  /\ RowMayFail \in BOOLEAN

VARIABLES
  isolation,    \* the isolation level of the database
  db,           \* the committed row, its number of changes and of creations
  lock,         \* the request whose statement locks the row, or Nobody
  stage,        \* step of each request
  ask,          \* what each request asks for
  seen,         \* history: the version its client has read, NoVersion if none
  fetched,      \* the version its transaction read
  effect,       \* the row its transaction leaves behind
  pendingEvent, \* its changeEvents: at most one
  feed,         \* the events recorded so far
  reply,        \* its answer
  replaced,     \* history: stamp of the version its commit replaced
  outrun,       \* history: a commit fell between another commit and its event
  unrefreshed   \* history: requests that could not read back what they wrote

rowVars == <<isolation, db, lock, stage, ask, seen, fetched, effect, pendingEvent,
             feed, reply, replaced, outrun, unrefreshed>>

Nobody == "nobody"
Writings == RowRequests \cup {"init"}
Entities   == [etag : Nat, props : [Props -> Writings]]
NoEntity  == [etag |-> -1, props |-> [p \in Props |-> "init"]]
Absent == [row |-> NoEntity, changes |-> 0, births |-> 0]
NoStamp == [changes |-> -1, births |-> -1]
NoVersion == [row |-> NoEntity, changes |-> -1, births |-> -1]
Stamp(v) == [changes |-> v.changes, births |-> v.births]
InitialRow == [etag |-> 1, props |-> [p \in Props |-> "init"]]

\* A precondition header: absent, "*" or a list of ETags.
NoHeader  == [any |-> FALSE, tags |-> {}]
Star      == [any |-> TRUE, tags |-> {}]
Tags(T)   == [any |-> FALSE, tags |-> T]
NotAsked == [method |-> "none", ifMatch |-> NoHeader,
              ifNoneMatch |-> NoHeader, body |-> {}]
NoRowEvent   == [kind |-> "none", by |-> Nobody, row |-> NoEntity]

RowInit ==
  /\ isolation \in Isolations
  /\ db \in {Absent, [row |-> InitialRow, changes |-> 0, births |-> 0]}
  /\ lock = Nobody
  /\ stage = [r \in RowRequests |-> "idle"]
  /\ ask = [r \in RowRequests |-> NotAsked]
  /\ seen = [r \in RowRequests |-> NoVersion]
  /\ fetched = [r \in RowRequests |-> NoVersion]
  /\ effect = [r \in RowRequests |-> NoEntity]
  /\ pendingEvent = [r \in RowRequests |-> NoRowEvent]
  /\ feed = << >>
  /\ reply = [r \in RowRequests |-> "none"]
  /\ replaced = [r \in RowRequests |-> NoStamp]
  /\ outrun = FALSE
  /\ unrefreshed = {}

-----------------------------------------------------------------------------
(* ETags: internal/etag/etag.go.  The hash of a value stands for it.       *)

MatchAlways(h, tag) == TRUE

\* If-Match: no header, "*" with a tag, or a listed tag.
Match(h, tag) == h = NoHeader \/ h.any \/ tag \in h.tags

\* If-None-Match: no header, or neither "*" nor a listed tag.
NoneMatch(h, tag) == h = NoHeader \/ ~(h.any \/ tag \in h.tags)

IfMatchOnly(r, row) == EtagKind # "none" => Match(ask[r].ifMatch, row.etag)

\* The checks of the write handlers; without an ETag property there are none.
PreconditionHolds(r, row) ==
  EtagKind # "none" =>
    Match(ask[r].ifMatch, row.etag) /\ NoneMatch(ask[r].ifNoneMatch, row.etag)

\* incrementETagProperty: integer kinds only.
IncrementETag(tag) == IF EtagKind = "int" THEN tag + 1 ELSE tag

-----------------------------------------------------------------------------
(* The client.                                                             *)

\* GET of the entity answers it with its ETag.
HandleGet(r) ==
  /\ stage[r] = "idle"
  /\ seen[r] = NoVersion
  /\ db.row # NoEntity
  /\ seen' = [seen EXCEPT ![r] = db]
  /\ UNCHANGED <<isolation, db, lock, stage, ask, fetched, effect, pendingEvent, feed,
                 reply, replaced, outrun, unrefreshed>>

\* The preconditions a client may send: the ETag it has read, or, when it has
\* read none, "*" or nothing.
Preconditions(r) ==
  LET tag == Tags({seen[r].row.etag})
      headers == IF seen[r] = NoVersion
                 THEN [none |-> <<NoHeader, NoHeader>>,
                       matchAny |-> <<Star, NoHeader>>,
                       noneMatchAny |-> <<NoHeader, Star>>]
                 ELSE [match |-> <<tag, NoHeader>>,
                       noneMatch |-> <<NoHeader, tag>>]
  IN {headers[f] : f \in Forms \cap DOMAIN headers}

Bodies(m) ==
  IF m = "PATCH" THEN {{p} : p \in Props}
  ELSE IF m = "DELETE" THEN {{}} ELSE {Props}

Send(r) ==
  /\ stage[r] = "idle"
  /\ \E m \in {"POST", "PATCH", "PUT", "DELETE"}, c \in Preconditions(r) :
       \E b \in Bodies(m) :
         /\ m = "POST" => c = <<NoHeader, NoHeader>>
         /\ ask' = [ask EXCEPT ![r] = [method |-> m, ifMatch |-> c[1],
                                       ifNoneMatch |-> c[2], body |-> b]]
  /\ stage' = [stage EXCEPT ![r] = "begin"]
  /\ UNCHANGED <<isolation, db, lock, seen, fetched, effect, pendingEvent, feed,
                 reply, replaced, outrun, unrefreshed>>

-----------------------------------------------------------------------------
(* Reading and checking.                                                   *)

\* The answer ends the request and, with it, its local variables.
AnswerWith(r, s) ==
  /\ reply' = [reply EXCEPT ![r] = s]
  /\ stage' = [stage EXCEPT ![r] = "answered"]
  /\ ask' = [ask EXCEPT ![r] = NotAsked]
  /\ seen' = [seen EXCEPT ![r] = NoVersion]
  /\ replaced' = [replaced EXCEPT ![r] = NoStamp]
  /\ fetched' = [fetched EXCEPT ![r] = NoVersion]
  /\ effect' = [effect EXCEPT ![r] = NoEntity]
  /\ pendingEvent' = [pendingEvent EXCEPT ![r] = NoRowEvent]

\* Restrictions, policy, content type, body, validation, binding or the
\* Before hook reject the request, or the row cannot be read; an open
\* transaction is rolled back before it has executed its statement.
Refuse(r) ==
  /\ stage[r] \in {"begin", "checked"}
  /\ AnswerWith(r, "refused")
  /\ UNCHANGED <<isolation, db, lock, feed, outrun, unrefreshed>>

\* A POST is checked against its body alone.
PostChecks(r) ==
  /\ stage[r] = "begin" /\ ask[r].method = "POST"
  /\ stage' = [stage EXCEPT ![r] = "checked"]
  /\ UNCHANGED <<isolation, db, lock, ask, seen, fetched, effect, pendingEvent, feed,
                 reply, replaced, outrun, unrefreshed>>

\* The transaction reads the row: 404 without one, 412 when a precondition
\* fails on what it read.
FetchAndCheck(r) ==
  /\ stage[r] = "begin"
  /\ \/ db.row = NoEntity /\ AnswerWith(r, "notFound")
     \/ /\ db.row # NoEntity /\ ~PreconditionHolds(r, db.row)
        /\ AnswerWith(r, "preconditionFailed")
     \/ /\ db.row # NoEntity /\ PreconditionHolds(r, db.row)
        /\ fetched' = [fetched EXCEPT ![r] = db]
        /\ stage' = [stage EXCEPT ![r] = "checked"]
        /\ UNCHANGED <<ask, seen, effect, pendingEvent, reply, replaced>>
  /\ UNCHANGED <<isolation, db, lock, feed, outrun, unrefreshed>>

FetchForDelete(r) == ask[r].method = "DELETE" /\ FetchAndCheck(r)
FetchForPut(r)    == ask[r].method = "PUT" /\ FetchAndCheck(r)

FetchForPatch(r)  == ask[r].method = "PATCH" /\ FetchAndCheck(r)

\* validatePropertiesExist refuses immutable properties in a PATCH.
PatchBodyAllowed(r) == ask[r].body \cap Immutable = {}

-----------------------------------------------------------------------------
(* The statement, by key, and what follows in the transaction.             *)

\* Under snapshot isolation a statement on a row that changed since it was
\* read fails.
UpToDate(r) == isolation = "snapshot" => fetched[r].changes = db.changes

Executed(r, event) ==
  /\ stage[r] = "checked"
  /\ pendingEvent' = [pendingEvent EXCEPT ![r] = event]
  /\ stage' = [stage EXCEPT ![r] = "written"]
  /\ UNCHANGED <<isolation, db, ask, seen, fetched, feed, reply, replaced,
                 outrun>>

\* The statement changes the row and locks it until the transaction ends.
Wrote(r, row, event) ==
  /\ lock = Nobody
  /\ lock' = r
  /\ effect' = [effect EXCEPT ![r] = row]
  /\ Executed(r, event)

RowEvent(kind, r, row) == [kind |-> kind, by |-> r, row |-> row]

\* INSERT; the body may hold a first value of the ETag property.  A row that
\* is there already is a conflict, see StatementFails.
CreateStatement(r) ==
  /\ ask[r].method = "POST"
  /\ db.row = NoEntity
  /\ \E e \in FirstTags :
       LET row == [etag |-> e, props |-> [p \in Props |-> r]]
       IN Wrote(r, row, RowEvent("added", r, row))
  /\ UNCHANGED unrefreshed

UpdateStatementWithStaleEvent(r, row) ==
  /\ Wrote(r, row, RowEvent("updated", r, fetched[r].row))
  /\ UNCHANGED unrefreshed

\* The UPDATE, and the read of the updated row for its event.  When that read
\* fails the error is logged and the transaction goes on without an event.
UpdateStatement(r, row) ==
  \/ /\ Wrote(r, row, RowEvent("updated", r, row))
     /\ UNCHANGED unrefreshed
  \/ /\ RowMayFail
     /\ Wrote(r, row, NoRowEvent)
     /\ unrefreshed' = unrefreshed \cup {r}

\* UPDATE of the given properties and of the ETag property, which is set to
\* the successor of what was read.
Updated(r) ==
  [etag |-> IncrementETag(fetched[r].row.etag),
   props |-> [p \in Props |-> IF p \in ask[r].body THEN r
                              ELSE db.row.props[p]]]

PatchStatement(r) ==
  /\ ask[r].method = "PATCH"
  /\ PatchBodyAllowed(r)
  /\ UpToDate(r)
  /\ db.row # NoEntity
  /\ UpdateStatement(r, Updated(r))

\* The replacement: immutable properties from what was read, the others from
\* the body.
Replaced(r) ==
  [etag |-> IncrementETag(fetched[r].row.etag),
   props |-> [p \in Props |-> IF p \in Immutable THEN fetched[r].row.props[p]
                              ELSE r]]

PutStatement(r) ==
  /\ ask[r].method = "PUT"
  /\ UpToDate(r)
  /\ db.row # NoEntity
  /\ UpdateStatement(r, Replaced(r))

DeleteStatement(r) ==
  /\ ask[r].method = "DELETE"
  /\ UpToDate(r)
  /\ db.row # NoEntity
  /\ Wrote(r, NoEntity, RowEvent("deleted", r, NoEntity))
  /\ UNCHANGED unrefreshed

\* The row is gone since it was read.  That is no error: nothing is changed
\* or locked.  The refresh after an update finds nothing, so it appends no
\* event; a DELETE appends its event all the same.
StatementMisses(r) ==
  /\ \/ ask[r].method = "PATCH" /\ PatchBodyAllowed(r)
     \/ ask[r].method \in {"PUT", "DELETE"}
  /\ UpToDate(r)
  /\ db.row = NoEntity
  /\ Executed(r, IF ask[r].method = "DELETE" THEN RowEvent("deleted", r, NoEntity)
                 ELSE NoRowEvent)
  /\ UNCHANGED <<lock, effect, unrefreshed>>

\* The statement fails - because of a conflict, or for any other reason -
\* and the transaction is rolled back.
StatementFails(r) ==
  /\ stage[r] = "checked"
  /\ \/ RowMayFail
     \/ ask[r].method = "POST" /\ lock = Nobody /\ db.row # NoEntity
     \/ ask[r].method # "POST" /\ ~UpToDate(r)
  /\ AnswerWith(r, "databaseError")
  /\ UNCHANGED <<isolation, db, lock, feed, outrun, unrefreshed>>

-----------------------------------------------------------------------------
(* The end of the transaction and of the request.                          *)

Release(r) == IF lock = r THEN Nobody ELSE lock

\* The database after a transaction that changed the row.
After(r) ==
  [row |-> effect[r],
   changes |-> db.changes + 1,
   births |-> IF db.row = NoEntity THEN db.births + 1 ELSE db.births]

CommitChange(r) ==
  /\ stage[r] = "written"
  /\ IF lock = r
     THEN /\ db' = After(r)
          /\ replaced' = [replaced EXCEPT ![r] = Stamp(db)]
     ELSE UNCHANGED <<db, replaced>>
  /\ outrun' = (outrun \/ \E q \in RowRequests : stage[q] = "committed")
  /\ lock' = Release(r)
  /\ stage' = [stage EXCEPT ![r] = "committed"]
  /\ UNCHANGED <<isolation, ask, seen, fetched, effect, pendingEvent, feed, reply,
                 unrefreshed>>

\* The commit, or the collection bindings that follow the statement, fail: 500,
\* and the events of the transaction are dropped.
CommitChangeFails(r) ==
  /\ RowMayFail
  /\ stage[r] = "written"
  /\ lock' = Release(r)
  /\ AnswerWith(r, "databaseError")
  /\ UNCHANGED <<isolation, db, feed, outrun, unrefreshed>>

\* finalizeChangeEvents outside a changeset: recordChange for each event.
FinalizeChangeEvents(r) ==
  /\ stage[r] = "committed"
  /\ feed' = IF pendingEvent[r] = NoRowEvent THEN feed ELSE Append(feed, pendingEvent[r])
  /\ UNCHANGED <<isolation, db, lock, outrun, unrefreshed>>

\* POST and DELETE are answered with what they have.
FinishCreate(r) ==
  ask[r].method = "POST" /\ FinalizeChangeEvents(r) /\ AnswerWith(r, "created")

FinishDelete(r) ==
  ask[r].method = "DELETE" /\ FinalizeChangeEvents(r) /\ AnswerWith(r, "deleted")

FinishUpdate(r) ==
  /\ ask[r].method \in {"PATCH", "PUT"}
  /\ FinalizeChangeEvents(r)
  /\ stage' = [stage EXCEPT ![r] = "recorded"]
  /\ UNCHANGED <<ask, seen, fetched, effect, pendingEvent, reply, replaced>>

\* 204 needs nothing more; to return the representation the row is read once
\* more, which fails when it is gone.
WriteUpdateResponse(r) ==
  /\ stage[r] = "recorded"
  /\ \/ AnswerWith(r, "updated")
     \/ (db.row = NoEntity \/ RowMayFail) /\ AnswerWith(r, "responseError")
  /\ UNCHANGED <<isolation, db, lock, feed, outrun, unrefreshed>>

RowNext ==
  \E r \in RowRequests :
    \/ HandleGet(r) \/ Send(r) \/ Refuse(r)
    \/ PostChecks(r) \/ FetchForDelete(r) \/ FetchForPatch(r) \/ FetchForPut(r)
    \/ CreateStatement(r) \/ PatchStatement(r) \/ PutStatement(r)
    \/ DeleteStatement(r) \/ StatementMisses(r) \/ StatementFails(r)
    \/ CommitChange(r) \/ CommitChangeFails(r)
    \/ FinishCreate(r) \/ FinishDelete(r) \/ FinishUpdate(r)
    \/ WriteUpdateResponse(r)

RowSpec == RowInit /\ [][RowNext]_rowVars

-----------------------------------------------------------------------------
(* Properties.                                                             *)

Steps == {"idle", "begin", "checked", "written", "committed", "recorded",
          "answered"}
Replies == {"none", "refused", "notFound", "preconditionFailed",
             "databaseError", "created", "updated", "deleted",
             "responseError"}
RowMethods == {"POST", "PATCH", "PUT", "DELETE"}
Versions == [row : Entities \cup {NoEntity}, changes : Nat, births : Nat]
Headers == [any : BOOLEAN, tags : SUBSET Nat]
RequestType == [method : RowMethods, ifMatch : Headers, ifNoneMatch : Headers,
                body : SUBSET Props]
EventType == [kind : {"added", "updated", "deleted"}, by : RowRequests,
              row : Entities \cup {NoEntity}]

\* The row, its lock, the requests and the feed keep their types.
RowTypeOK ==
  /\ isolation \in Isolations
  /\ db \in Versions
  /\ lock \in RowRequests \cup {Nobody}
  /\ stage \in [RowRequests -> Steps]
  /\ ask \in [RowRequests -> RequestType \cup {NotAsked}]
  /\ seen \in [RowRequests -> Versions \cup {NoVersion}]
  /\ fetched \in [RowRequests -> Versions \cup {NoVersion}]
  /\ effect \in [RowRequests -> Entities \cup {NoEntity}]
  /\ pendingEvent \in [RowRequests -> EventType \cup {NoRowEvent}]
  /\ feed \in Seq(EventType)
  /\ reply \in [RowRequests -> Replies]
  /\ replaced \in [RowRequests -> [changes : Nat, births : Nat] \cup {NoStamp}]
  /\ outrun \in BOOLEAN
  /\ unrefreshed \subseteq RowRequests

\* r carried the ETag its client had read, and its transaction changed a row
\* of the same creation: then it replaced exactly the version that was read.
ReplacedWhatWasSeen(r) ==
  /\ ask[r].ifMatch.tags # {}
  /\ replaced[r] # NoStamp
  /\ replaced[r].births = seen[r].births
  => replaced[r].changes = seen[r].changes

\* With an integer ETag property, on a database that refuses to update a row
\* which changed since it was read, a write with If-Match never overwrites a
\* change its client has not seen.
ConditionalWritesAreSafe ==
  EtagKind = "int" /\ isolation = "snapshot" =>
    \A r \in RowRequests : ReplacedWhatWasSeen(r)

\* documentation/advanced-features.md: "ETags enable optimistic concurrency
\* control, preventing concurrent updates from overwriting each other's
\* changes".
NoConcurrentOverwrite == \A r \in RowRequests : ReplacedWhatWasSeen(r)

\* From the creation of the row to its deletion no PATCH and no PUT changes
\* an immutable property.
ImmutableIsKept ==
  [][isolation = "snapshot" /\ db.row # NoEntity /\ db'.row # NoEntity
       => \A p \in Immutable : db'.row.props[p] = db.row.props[p]]_rowVars

EventsOf(r) == {i \in 1 .. Len(feed) : feed[i].by = r}

\* A request that changed the row and is past finalizeChangeEvents has exactly
\* one event in the feed, unless it could not read the row back; one whose
\* transaction did not commit has none.
ChangesAreRecorded ==
  \A r \in RowRequests :
    /\ \A i, k \in EventsOf(r) : i = k
    /\ stage[r] = "recorded" /\ replaced[r] # NoStamp
         => r \in unrefreshed \/ EventsOf(r) # {}
    /\ reply[r] \in {"created", "deleted"} => EventsOf(r) # {}
    /\ reply[r] \in {"refused", "notFound", "preconditionFailed",
                      "databaseError"} => EventsOf(r) = {}

\* Unless a commit overtook the event of another, the last event of the feed
\* tells the state of the row whenever no event is outstanding.
FeedFollowsTheRow ==
  isolation = "snapshot" /\ ~outrun /\ unrefreshed = {} /\ feed # << >>
    /\ (\A r \in RowRequests : stage[r] # "committed")
  => feed[Len(feed)].row = db.row

\* The feed tells the row: no commit is missing from it unless the row could not
\* be read back, and it ends with the row unless an event was overtaken.
FeedTellsTheRow == ChangesAreRecorded /\ FeedFollowsTheRow

-----------------------------------------------------------------------------
(* The inductive invariant behind ConditionalWritesAreSafe and             *)
(* ImmutableIsKept.                                                        *)

\* v was the committed version at some time: no version in between has its
\* number of changes, and from one creation to the next deletion the ETag
\* property counts the changes.
Known(v) ==
  v # NoVersion =>
    /\ v.row # NoEntity
    /\ v.changes <= db.changes /\ v.births <= db.births
    /\ v.changes = db.changes => v = db
    /\ EtagKind = "int" /\ db.row # NoEntity /\ v.births = db.births
         => db.row.etag - v.row.etag = db.changes - v.changes

ReadsAreVersions == \A r \in RowRequests : Known(seen[r]) /\ Known(fetched[r])

\* What the holder of the lock will leave behind continues the current row.
Continues(r) ==
  \/ db.row = NoEntity /\ ask[r].ifMatch.tags = {}
  \/ /\ fetched[r] = db
     /\ effect[r] # NoEntity =>
          /\ \A p \in Immutable : effect[r].props[p] = db.row.props[p]
          /\ EtagKind = "int" => effect[r].etag = db.row.etag + 1

LockHolderContinues == \A r \in RowRequests : lock = r => Continues(r)

\* A transaction that passed If-Match has read the version its client saw.
MatchedIsSeen ==
  EtagKind = "int" =>
    \A r \in RowRequests :
      /\ fetched[r] # NoVersion
      /\ ask[r].ifMatch.tags # {}
      /\ fetched[r].births = seen[r].births
      => fetched[r].changes = seen[r].changes

\* Clients send the ETag they have seen, and none with a POST; a request that
\* has not been sent has done nothing; the lock belongs to a transaction past
\* its statement; and clients, updates and deletions start from a row.
Orderly(r) ==
  /\ ask[r].ifMatch.tags # {} =>
       /\ ask[r].method # "POST"
       /\ seen[r] # NoVersion
       /\ ask[r].ifMatch = Tags({seen[r].row.etag})
  /\ seen[r] # NoVersion => seen[r].row # NoEntity
  /\ stage[r] = "idle" =>
       /\ ask[r] = NotAsked /\ fetched[r] = NoVersion
       /\ replaced[r] = NoStamp
  /\ lock = r => stage[r] = "written"
  /\ stage[r] = "checked" /\ ask[r].method # "POST" =>
       fetched[r] # NoVersion /\ fetched[r].row # NoEntity

RequestsAreOrderly == \A r \in RowRequests : Orderly(r)

RowInv ==
  /\ RowTypeOK
  /\ RequestsAreOrderly
  /\ isolation = "snapshot" =>
       /\ ReadsAreVersions
       /\ LockHolderContinues
       /\ MatchedIsSeen
  /\ ConditionalWritesAreSafe
-----------------------------------------------------------------------------
(* The inductive invariant behind FeedTellsTheRow, on top of RowInv.         *)

Unanswered == {"idle", "begin", "checked", "written", "committed"}

\* An event is recorded in the step after the commit, once: until then there is
\* none, and the transaction that is about to commit holds it in pendingEvent.
EventsAreHeld(r) ==
  /\ \A i, k \in EventsOf(r) : i = k
  /\ pendingEvent[r] # NoRowEvent => pendingEvent[r].by = r
  /\ stage[r] \in Unanswered => EventsOf(r) = {}
  /\ stage[r] # "answered" => reply[r] = "none"
  /\ stage[r] \notin {"committed", "recorded"} => replaced[r] = NoStamp
  /\ stage[r] \in {"written", "committed"} /\ ask[r].method \in {"POST", "DELETE"}
       => pendingEvent[r] # NoRowEvent
  /\ (stage[r] = "written" /\ lock = r) \/ (stage[r] = "committed" /\ replaced[r] # NoStamp)
       => pendingEvent[r] # NoRowEvent \/ r \in unrefreshed

\* On a database that refuses stale statements, a transaction past its statement
\* holds the lock, and its event tells the row it will leave behind.
LockHolderTellsItsRow ==
  \A r \in RowRequests : stage[r] = "written" =>
    /\ lock = r
    /\ pendingEvent[r] # NoRowEvent => pendingEvent[r].row = effect[r]

\* Until a commit overtakes an event, only one event is outstanding, and it, or
\* else the feed, tells the row.
OutstandingIsLast ==
  ~outrun =>
    /\ \A r, q \in RowRequests : stage[r] = "committed" /\ stage[q] = "committed" => r = q
    /\ unrefreshed = {} => \A r \in RowRequests : stage[r] = "committed" =>
         pendingEvent[r] # NoRowEvent /\ pendingEvent[r].row = db.row

FeedIInv ==
  /\ \A r \in RowRequests : EventsAreHeld(r)
  /\ isolation = "snapshot" => LockHolderTellsItsRow /\ OutstandingIsLast
  /\ FeedTellsTheRow

-----------------------------------------------------------------------------
(* What the writes promise, and why they keep it.                          *)

\* How far a request has come, as its client could know.
Phases ==
  [r \in RowRequests |->
     CASE stage[r] = "idle" -> "new"
       [] stage[r] = "answered" -> "answered"
       [] OTHER -> IF replaced[r] = NoStamp THEN "asked" ELSE "applied"]

Atomic == INSTANCE AtomicRow WITH
  Requests <- RowRequests, NoRow <- NoEntity, NoRequest <- NotAsked,
  row <- db.row, asked <- ask, phase <- Phases, status <- reply

\* On a database that refuses to update a row which changed since it was read,
\* every request takes effect as one step between its request and its answer:
\* preconditions, immutable properties and the next ETag are those of the row it
\* replaces, though all three were taken from an earlier read, and a success is
\* answered exactly when something was changed (entity_write.go:250-340).
WritesAreAtomic ==
  Atomic!Init /\ [][isolation = "snapshot" => Atomic!Next]_(Atomic!vars)

\* The transaction of r read a row that met its preconditions; what its
\* statement leaves behind is what r asks of the current row; and having
\* committed it has changed the row.
TakesEffect(r) ==
  /\ stage[r] = "checked" /\ ask[r].method # "POST" => PreconditionHolds(r, fetched[r].row)
  /\ stage[r] = "written" => Atomic!Takes(ask[r], r, db.row, effect[r])
  /\ stage[r] \in {"committed", "recorded"} => replaced[r] # NoStamp

\* A request that is served asks for something, until it is answered.
IsAsked(r) ==
  /\ ask[r] # NotAsked <=> stage[r] \notin {"idle", "answered"}
  /\ stage[r] = "recorded" => ask[r].method \in {"PATCH", "PUT"}

AtomicInv ==
  /\ \A r \in RowRequests : IsAsked(r)
  /\ isolation = "snapshot" => \A r \in RowRequests : TakesEffect(r)
=============================================================================
