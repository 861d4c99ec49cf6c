------------------------- MODULE EntityWrite_proofs -------------------------
(***************************************************************************)
(* Proofs about EntityWrite for every set of requests, properties and      *)
(* preconditions, with or without failures of the database.  From the      *)
(* inductive invariants RowInv, FeedIInv and AtomicInv follow that           *)
(* conditional writes lose no update, that immutable properties are kept,  *)
(* that the feed tells the row and that writes are atomic, on a database   *)
(* which refuses to update a row that changed since it was read.           *)
(***************************************************************************)
EXTENDS EntityWrite, TLAPS

USE DEF Nobody

\* The tags of rows are naturals, so NoEntity and NoVersion stand for themselves.
LEMMA Markers ==
  /\ NoEntity \notin Entities /\ NoVersion \notin Versions
  /\ NoEntity.etag = -1 /\ NoEntity.props \in [Props -> Writings]
  /\ NoVersion.changes = -1 /\ NoVersion.row = NoEntity
  /\ NotAsked.ifMatch.tags = {}
  /\ NoHeader \in Headers /\ Star \in Headers
  /\ NoHeader.tags = {} /\ Star.tags = {}
  BY DEF NoEntity, Entities, NoVersion, Versions, Writings, NotAsked, NoHeader, Star,
         Headers

\* Initially the row is absent or InitialRow, and both are versions.
LEMMA InitialVersions ==
  /\ Absent \in Versions
  /\ [row |-> InitialRow, changes |-> 0, births |-> 0] \in Versions
  BY DEF Absent, Versions, InitialRow, Entities, NoEntity, Writings

\* RowTypeOK without the Boolean, which the provers treat apart.
DataTypeOK ==
  /\ isolation \in Isolations
  /\ db \in Versions
  /\ lock \in RowRequests \cup {Nobody}
  /\ stage \in [RowRequests -> Steps]
  /\ ask \in [RowRequests -> RequestType \cup {NotAsked}]
  /\ seen \in [RowRequests -> Versions \cup {NoVersion}]
  /\ fetched \in [RowRequests -> Versions \cup {NoVersion}]
  /\ effect \in [RowRequests -> Entities \cup {NoEntity}]
  /\ pendingEvent \in [RowRequests -> EventType \cup {NoRowEvent}]
  /\ feed \in Seq(EventType)
  /\ reply \in [RowRequests -> Replies]
  /\ replaced \in [RowRequests -> [changes : Nat, births : Nat] \cup {NoStamp}]
  /\ unrefreshed \subseteq RowRequests

\* Before any request is sent the invariant holds.
LEMMA InvInit == RowInit => RowInv
<1> SUFFICES ASSUME RowInit PROVE RowInv
  OBVIOUS
<1> USE WriteAssumption DEF RowInit
<1>1. RowTypeOK
  <2>1. DataTypeOK
    BY InitialVersions DEF DataTypeOK, Steps, Replies
  <2>2. outrun \in BOOLEAN
    OBVIOUS
  <2> QED BY <2>1, <2>2 DEF RowTypeOK, DataTypeOK
<1>2. RequestsAreOrderly
  BY Markers DEF RequestsAreOrderly, Orderly
<1>3. ReadsAreVersions /\ LockHolderContinues /\ MatchedIsSeen
  BY DEF ReadsAreVersions, Known, LockHolderContinues, MatchedIsSeen
<1>4. ConditionalWritesAreSafe
  BY DEF ConditionalWritesAreSafe, ReplacedWhatWasSeen
<1> QED BY <1>1, <1>2, <1>3, <1>4 DEF RowInv

-----------------------------------------------------------------------------
(* Types.                                                                  *)

\* What the answer of a request stores has the right types.
LEMMA AnswerTypes ==
  ASSUME DataTypeOK, NEW r \in RowRequests, NEW s \in Replies, AnswerWith(r, s)
  PROVE  /\ stage' \in [RowRequests -> Steps]
         /\ ask' \in [RowRequests -> RequestType \cup {NotAsked}]
         /\ seen' \in [RowRequests -> Versions \cup {NoVersion}]
         /\ fetched' \in [RowRequests -> Versions \cup {NoVersion}]
         /\ effect' \in [RowRequests -> Entities \cup {NoEntity}]
         /\ pendingEvent' \in [RowRequests -> EventType \cup {NoRowEvent}]
         /\ reply' \in [RowRequests -> Replies]
         /\ replaced' \in
              [RowRequests -> [changes : Nat, births : Nat] \cup {NoStamp}]
  BY DEF DataTypeOK, AnswerWith, Steps

\* The headers a client sends are headers, and the only tag in If-Match is
\* the one the client has seen.
LEMMA PreconditionTypes ==
  ASSUME RowInv, NEW r \in RowRequests, NEW c \in Preconditions(r)
  PROVE  /\ c[1] \in Headers /\ c[2] \in Headers
         /\ c[1].tags # {} =>
              seen[r] # NoVersion /\ c[1] = Tags({seen[r].row.etag})
<1>1. CASE seen[r] = NoVersion
  <2>1. c[1] \in {NoHeader, Star} /\ c[2] \in {NoHeader, Star}
    BY <1>1 DEF Preconditions
  <2> QED BY <2>1, Markers
<1>2. CASE seen[r] # NoVersion
  <2> DEFINE tag == Tags({seen[r].row.etag})
  <2>1. c \in {<<tag, NoHeader>>, <<NoHeader, tag>>}
    BY <1>2 DEF Preconditions
  <2>2. seen[r] \in Versions /\ seen[r].row # NoEntity
    BY <1>2 DEF RowInv, RowTypeOK, RequestsAreOrderly, Orderly
  <2>3. tag \in Headers /\ tag.tags # {}
    BY <2>2 DEF Versions, Entities, Tags, Headers
  <2> QED BY <1>2, <2>1, <2>3, Markers
<1> QED BY <1>1, <1>2

\* Every step keeps the types; a statement starts from a row, so what it
\* leaves behind is one.
LEMMA DataTypeNext == RowInv /\ [RowNext]_rowVars => DataTypeOK'
<1> SUFFICES ASSUME RowInv, [RowNext]_rowVars PROVE DataTypeOK'
  OBVIOUS
<1>0. DataTypeOK
  BY DEF RowInv, RowTypeOK, DataTypeOK
<1> USE <1>0, WriteAssumption
<1>1. ASSUME NEW r \in RowRequests, HandleGet(r) PROVE DataTypeOK'
  BY <1>1 DEF HandleGet, DataTypeOK
<1>2. ASSUME NEW r \in RowRequests, Send(r) PROVE DataTypeOK'
  <2>1. PICK m \in {"POST", "PATCH", "PUT", "DELETE"}, c \in Preconditions(r) :
          \E b \in Bodies(m) :
            ask' = [ask EXCEPT ![r] = [method |-> m, ifMatch |-> c[1],
                                       ifNoneMatch |-> c[2], body |-> b]]
    BY <1>2 DEF Send
  <2>2. PICK b \in Bodies(m) :
            ask' = [ask EXCEPT ![r] = [method |-> m, ifMatch |-> c[1],
                                       ifNoneMatch |-> c[2], body |-> b]]
    BY <2>1
  <2>3. b \in SUBSET Props
    BY DEF Bodies
  <2>4. c[1] \in Headers /\ c[2] \in Headers
    BY PreconditionTypes
  <2>5. ask' \in [RowRequests -> RequestType \cup {NotAsked}]
    BY <2>2, <2>3, <2>4 DEF DataTypeOK, RequestType, RowMethods
  <2> QED BY <1>2, <2>5 DEF Send, DataTypeOK, Steps
<1>3. ASSUME NEW r \in RowRequests, Refuse(r) PROVE DataTypeOK'
  <2>1. AnswerWith(r, "refused") /\ "refused" \in Replies
    BY <1>3 DEF Refuse, Replies
  <2> QED BY <1>3, <2>1, AnswerTypes DEF Refuse, DataTypeOK
<1>4. ASSUME NEW r \in RowRequests, PostChecks(r) PROVE DataTypeOK'
  BY <1>4 DEF PostChecks, DataTypeOK, Steps
<1>5. ASSUME NEW r \in RowRequests, FetchAndCheck(r) PROVE DataTypeOK'
  <2>1. ASSUME NEW s \in {"notFound", "preconditionFailed"}, AnswerWith(r, s)
        PROVE  DataTypeOK'
    BY <1>5, <2>1, AnswerTypes DEF FetchAndCheck, DataTypeOK, Replies
  <2>2. CASE fetched' = [fetched EXCEPT ![r] = db]
             /\ stage' = [stage EXCEPT ![r] = "checked"]
             /\ UNCHANGED <<ask, seen, effect, pendingEvent, reply, replaced>>
    BY <1>5, <2>2 DEF FetchAndCheck, DataTypeOK, Steps
  <2> QED BY <1>5, <2>1, <2>2 DEF FetchAndCheck
<1>6. ASSUME NEW r \in RowRequests, NEW row \in Entities \cup {NoEntity},
             NEW e \in EventType \cup {NoRowEvent}, Wrote(r, row, e),
             unrefreshed' \subseteq RowRequests
      PROVE  DataTypeOK'
  BY <1>6 DEF Wrote, Executed, DataTypeOK, Steps
<1>7. ASSUME NEW r \in RowRequests, CreateStatement(r) PROVE DataTypeOK'
  <2>1. PICK e \in FirstTags :
          LET row == [etag |-> e, props |-> [p \in Props |-> r]]
          IN Wrote(r, row, RowEvent("added", r, row))
    BY <1>7 DEF CreateStatement
  <2> DEFINE row == [etag |-> e, props |-> [p \in Props |-> r]]
  <2>2. row \in Entities
    BY DEF Entities, Writings
  <2>3. RowEvent("added", r, row) \in EventType
    BY <2>2 DEF RowEvent, EventType
  <2> HIDE DEF row
  <2> QED BY <1>6, <1>7, <2>1, <2>2, <2>3 DEF CreateStatement, DataTypeOK, row
<1>8. ASSUME NEW r \in RowRequests, NEW row \in Entities, UpdateStatement(r, row)
      PROVE  DataTypeOK'
  <2>1. RowEvent("updated", r, row) \in EventType
    BY DEF RowEvent, EventType
  <2> QED BY <1>6, <1>8, <2>1 DEF UpdateStatement, DataTypeOK
<1>9. ASSUME NEW r \in RowRequests, stage[r] = "checked", ask[r].method # "POST"
      PROVE  fetched[r].row \in Entities /\ IncrementETag(fetched[r].row.etag) \in Nat
  <2>1. fetched[r] \in Versions /\ fetched[r].row # NoEntity
    BY <1>9 DEF RowInv, RequestsAreOrderly, Orderly, DataTypeOK
  <2> QED BY <2>1 DEF Versions, Entities, IncrementETag
<1>10. ASSUME NEW r \in RowRequests, PatchStatement(r) PROVE DataTypeOK'
  <2>1. UpdateStatement(r, Updated(r)) /\ db.row \in Entities
    BY <1>10 DEF PatchStatement, DataTypeOK, Versions
  <2>2. stage[r] = "checked" /\ ask[r].method # "POST"
    BY <1>10 DEF PatchStatement, UpdateStatement, Wrote, Executed
  <2>3. Updated(r) \in Entities
    BY <1>9, <2>1, <2>2 DEF Updated, Entities, Writings
  <2> QED BY <1>8, <2>1, <2>3
<1>11. ASSUME NEW r \in RowRequests, PutStatement(r) PROVE DataTypeOK'
  <2>1. UpdateStatement(r, Replaced(r))
    BY <1>11 DEF PutStatement
  <2>2. stage[r] = "checked" /\ ask[r].method # "POST"
    BY <1>11 DEF PutStatement, UpdateStatement, Wrote, Executed
  <2>3. Replaced(r) \in Entities
    BY <1>9, <2>2 DEF Replaced, Entities, Writings
  <2> QED BY <1>8, <2>1, <2>3
<1>12. ASSUME NEW r \in RowRequests PROVE RowEvent("deleted", r, NoEntity) \in EventType
  BY DEF RowEvent, EventType
<1>13. ASSUME NEW r \in RowRequests, DeleteStatement(r) PROVE DataTypeOK'
  BY <1>6, <1>12, <1>13 DEF DeleteStatement, DataTypeOK
<1>14. ASSUME NEW r \in RowRequests, StatementMisses(r) PROVE DataTypeOK'
  <2>1. pendingEvent' \in [RowRequests -> EventType \cup {NoRowEvent}]
    BY <1>12, <1>14 DEF StatementMisses, Executed, DataTypeOK
  <2> QED BY <1>14, <2>1 DEF StatementMisses, Executed, DataTypeOK, Steps
<1>15. ASSUME NEW r \in RowRequests, StatementFails(r) \/ CommitChangeFails(r)
       PROVE  DataTypeOK'
  <2>1. AnswerWith(r, "databaseError") /\ "databaseError" \in Replies
    BY <1>15 DEF StatementFails, CommitChangeFails, Replies
  <2> QED BY <1>15, <2>1, AnswerTypes
          DEF StatementFails, CommitChangeFails, Release, DataTypeOK
<1>16. ASSUME NEW r \in RowRequests, CommitChange(r) PROVE DataTypeOK'
  <2>1. After(r) \in Versions /\ Stamp(db) \in [changes : Nat, births : Nat]
    BY DEF After, Stamp, Versions, DataTypeOK
  <2>2. db' \in Versions
    BY <1>16, <2>1 DEF CommitChange, DataTypeOK
  <2>3. replaced' \in [RowRequests -> [changes : Nat, births : Nat] \cup {NoStamp}]
    BY <1>16, <2>1 DEF CommitChange, DataTypeOK
  <2>4. lock' \in RowRequests \cup {Nobody} /\ stage' \in [RowRequests -> Steps]
    BY <1>16 DEF CommitChange, Release, DataTypeOK, Steps
  <2> QED BY <1>16, <2>2, <2>3, <2>4 DEF CommitChange, DataTypeOK
<1>17. ASSUME NEW r \in RowRequests, FinalizeChangeEvents(r)
       PROVE  feed' \in Seq(EventType)
  BY <1>17 DEF FinalizeChangeEvents, DataTypeOK
<1>18. ASSUME NEW r \in RowRequests, FinishCreate(r) \/ FinishDelete(r)
       PROVE  DataTypeOK'
  <2>1. PICK s \in Replies : AnswerWith(r, s)
    BY <1>18 DEF FinishCreate, FinishDelete, Replies
  <2> QED BY <1>17, <1>18, <2>1, AnswerTypes
          DEF FinishCreate, FinishDelete, FinalizeChangeEvents, DataTypeOK
<1>19. ASSUME NEW r \in RowRequests, FinishUpdate(r) PROVE DataTypeOK'
  BY <1>17, <1>19 DEF FinishUpdate, FinalizeChangeEvents, DataTypeOK, Steps
<1>20. ASSUME NEW r \in RowRequests, WriteUpdateResponse(r) PROVE DataTypeOK'
  <2>1. PICK s \in Replies : AnswerWith(r, s)
    BY <1>20 DEF WriteUpdateResponse, Replies
  <2> QED BY <1>20, <2>1, AnswerTypes DEF WriteUpdateResponse, DataTypeOK
<1>21. CASE UNCHANGED rowVars
  BY <1>21 DEF rowVars, DataTypeOK
<1> QED
  BY <1>1, <1>2, <1>3, <1>4, <1>5, <1>7, <1>10, <1>11, <1>13, <1>14, <1>15,
     <1>16, <1>18, <1>19, <1>20, <1>21
  DEF RowNext, FetchForDelete, FetchForPatch, FetchForPut

\* Only a commit touches the row and the histories of commits, and the
\* isolation level is fixed.
LEMMA OnlyCommit ==
  ASSUME [RowNext]_rowVars
  PROVE  \/ UNCHANGED <<isolation, db, outrun>>
         \/ \E r \in RowRequests : CommitChange(r)
<1>1. ASSUME NEW r \in RowRequests,
             \/ HandleGet(r) \/ Send(r) \/ Refuse(r) \/ PostChecks(r)
             \/ FetchForDelete(r) \/ FetchForPatch(r) \/ FetchForPut(r)
      PROVE  UNCHANGED <<isolation, db, outrun>>
  BY <1>1 DEF HandleGet, Send, Refuse, PostChecks, FetchForDelete,
     FetchForPatch, FetchForPut, FetchAndCheck
<1>2. ASSUME NEW r \in RowRequests, NEW e, Executed(r, e)
      PROVE  UNCHANGED <<isolation, db, outrun>>
  BY <1>2 DEF Executed
<1>3. ASSUME NEW r \in RowRequests,
             \/ CreateStatement(r) \/ PatchStatement(r) \/ PutStatement(r)
             \/ DeleteStatement(r) \/ StatementMisses(r)
      PROVE  UNCHANGED <<isolation, db, outrun>>
  BY <1>2, <1>3 DEF CreateStatement, PatchStatement, PutStatement,
     DeleteStatement, UpdateStatement, Wrote, StatementMisses
<1>4. ASSUME NEW r \in RowRequests,
             \/ StatementFails(r) \/ CommitChangeFails(r) \/ FinishCreate(r)
             \/ FinishDelete(r) \/ FinishUpdate(r) \/ WriteUpdateResponse(r)
      PROVE  UNCHANGED <<isolation, db, outrun>>
  BY <1>4 DEF StatementFails, CommitChangeFails, FinishCreate, FinishDelete,
     FinishUpdate, FinalizeChangeEvents, WriteUpdateResponse
<1> QED BY <1>1, <1>3, <1>4 DEF RowNext, rowVars

\* outrun stays a Boolean.
LEMMA OvertakenNext == RowTypeOK /\ [RowNext]_rowVars => outrun' \in BOOLEAN
<1> SUFFICES ASSUME RowTypeOK, [RowNext]_rowVars PROVE outrun' \in BOOLEAN
  OBVIOUS
<1>1. ASSUME NEW r \in RowRequests, CommitChange(r) PROVE outrun' \in BOOLEAN
  BY <1>1 DEF CommitChange
<1>2. CASE UNCHANGED outrun
  BY <1>2 DEF RowTypeOK
<1> QED BY <1>1, <1>2, OnlyCommit

\* A request of which nothing changes stays orderly.
LEMMA OrderlyKept ==
  ASSUME RequestsAreOrderly, NEW q \in RowRequests,
         stage'[q] = stage[q], ask'[q] = ask[q], seen'[q] = seen[q],
         fetched'[q] = fetched[q], replaced'[q] = replaced[q],
         lock' = q => lock = q
  PROVE  Orderly(q)'
<1>1. Orderly(q)
  BY DEF RequestsAreOrderly
<1> QED BY <1>1 DEF Orderly, Tags

\* The four groups of steps that differ in what they do to the requests:
\* reading and sending, answering, executing a statement, and the rest.
LEMMA OrderlyNext == RowInv /\ [RowNext]_rowVars => RequestsAreOrderly'
<1> SUFFICES ASSUME RowInv, [RowNext]_rowVars PROVE RequestsAreOrderly'
  OBVIOUS
<1>0. RowTypeOK /\ RequestsAreOrderly
  BY DEF RowInv
<1> USE <1>0, Markers, WriteAssumption DEF RowTypeOK
<1>1. ASSUME NEW r \in RowRequests, HandleGet(r) PROVE RequestsAreOrderly'
  <2>1. Orderly(r)'
    BY <1>1 DEF HandleGet, RequestsAreOrderly, Orderly
  <2>2. ASSUME NEW q \in RowRequests, q # r PROVE Orderly(q)'
    <3>1. seen'[q] = seen[q] /\ UNCHANGED <<stage, ask, fetched, replaced, lock>>
      BY <1>1, <2>2 DEF HandleGet
    <3> QED BY <3>1, OrderlyKept
  <2> QED BY <2>1, <2>2 DEF RequestsAreOrderly
<1>2. ASSUME NEW r \in RowRequests, Send(r) PROVE RequestsAreOrderly'
  <2>1. PICK m \in {"POST", "PATCH", "PUT", "DELETE"}, c \in Preconditions(r) :
          \E b \in Bodies(m) :
            /\ m = "POST" => c = <<NoHeader, NoHeader>>
            /\ ask' = [ask EXCEPT ![r] = [method |-> m, ifMatch |-> c[1],
                                          ifNoneMatch |-> c[2], body |-> b]]
    BY <1>2 DEF Send
  <2>2. PICK b \in Bodies(m) :
            ask' = [ask EXCEPT ![r] = [method |-> m, ifMatch |-> c[1],
                                       ifNoneMatch |-> c[2], body |-> b]]
    BY <2>1
  <2>3. m = "POST" => c[1].tags = {}
    BY <2>1
  <2>4. c[1].tags # {} =>
          seen[r] # NoVersion /\ c[1] = Tags({seen[r].row.etag})
    BY PreconditionTypes
  <2>5. ask'[r].ifMatch = c[1] /\ ask'[r].method = m
    BY <2>2
  <2>6. \A q \in RowRequests : q # r => ask'[q] = ask[q]
    BY <2>2
  <2>7. Orderly(r)'
    BY <1>2, <2>3, <2>4, <2>5 DEF Send, RequestsAreOrderly, Orderly
  <2>8. ASSUME NEW q \in RowRequests, q # r PROVE Orderly(q)'
    <3>1. /\ stage'[q] = stage[q] /\ ask'[q] = ask[q] /\ seen'[q] = seen[q]
          /\ fetched'[q] = fetched[q] /\ replaced'[q] = replaced[q]
          /\ lock' = lock
      BY <1>2, <2>6, <2>8 DEF Send
    <3> QED BY <3>1, OrderlyKept
  <2> QED BY <2>7, <2>8 DEF RequestsAreOrderly
<1>3. ASSUME NEW r \in RowRequests, NEW s, AnswerWith(r, s), lock' # r,
             lock' \in {lock, Nobody}
      PROVE  RequestsAreOrderly'
  <2>1. Orderly(r)'
    BY <1>3 DEF AnswerWith, Orderly
  <2>2. ASSUME NEW q \in RowRequests, q # r PROVE Orderly(q)'
    <3>1. /\ stage'[q] = stage[q] /\ ask'[q] = ask[q] /\ seen'[q] = seen[q]
          /\ fetched'[q] = fetched[q] /\ replaced'[q] = replaced[q]
      BY <1>3, <2>2 DEF AnswerWith
    <3>2. lock' = q => lock = q
      BY <1>3
    <3> QED BY <3>1, <3>2, OrderlyKept
  <2> QED BY <2>1, <2>2 DEF RequestsAreOrderly
<1>4. ASSUME NEW r \in RowRequests, lock = r PROVE stage[r] = "written"
  BY <1>4 DEF RequestsAreOrderly, Orderly
<1>5. ASSUME NEW r \in RowRequests, Refuse(r) \/ StatementFails(r)
      PROVE  RequestsAreOrderly'
  BY <1>3, <1>4, <1>5 DEF Refuse, StatementFails
<1>6. ASSUME NEW r \in RowRequests, CommitChangeFails(r) PROVE RequestsAreOrderly'
  BY <1>3, <1>6 DEF CommitChangeFails, Release
<1>7. ASSUME NEW r \in RowRequests, PostChecks(r) PROVE RequestsAreOrderly'
  BY <1>7 DEF PostChecks, RequestsAreOrderly, Orderly
<1>8. ASSUME NEW r \in RowRequests, FetchAndCheck(r) PROVE RequestsAreOrderly'
  <2>1. ASSUME NEW s, AnswerWith(r, s) PROVE RequestsAreOrderly'
    BY <1>3, <1>4, <1>8, <2>1 DEF FetchAndCheck
  <2>2. CASE /\ db.row # NoEntity
             /\ fetched' = [fetched EXCEPT ![r] = db]
             /\ stage' = [stage EXCEPT ![r] = "checked"]
             /\ UNCHANGED <<ask, seen, effect, pendingEvent, reply, replaced>>
    BY <1>8, <2>2 DEF FetchAndCheck, RequestsAreOrderly, Orderly
  <2> QED BY <1>8, <2>1, <2>2 DEF FetchAndCheck
<1>9. ASSUME NEW r \in RowRequests, NEW e, Executed(r, e), lock' \in {lock, r}
      PROVE  RequestsAreOrderly'
  <2>1. Orderly(r)'
    BY <1>9 DEF Executed, RequestsAreOrderly, Orderly
  <2>2. ASSUME NEW q \in RowRequests, q # r PROVE Orderly(q)'
    <3>1. /\ stage'[q] = stage[q] /\ UNCHANGED <<ask, seen, fetched, replaced>>
          /\ lock' = q => lock = q
      BY <1>9, <2>2 DEF Executed
    <3> QED BY <3>1, OrderlyKept
  <2> QED BY <2>1, <2>2 DEF RequestsAreOrderly
<1>10. ASSUME NEW r \in RowRequests,
              \/ CreateStatement(r) \/ PatchStatement(r) \/ PutStatement(r)
              \/ DeleteStatement(r) \/ StatementMisses(r)
       PROVE  RequestsAreOrderly'
  BY <1>9, <1>10 DEF CreateStatement, PatchStatement, PutStatement,
     DeleteStatement, UpdateStatement, Wrote, StatementMisses
<1>11. ASSUME NEW r \in RowRequests, CommitChange(r) PROVE RequestsAreOrderly'
  <2>1. Orderly(r)'
    BY <1>11 DEF CommitChange, Release, RequestsAreOrderly, Orderly
  <2>2. ASSUME NEW q \in RowRequests, q # r PROVE Orderly(q)'
    <3>1. /\ stage'[q] = stage[q] /\ replaced'[q] = replaced[q]
          /\ UNCHANGED <<ask, seen, fetched>>
      BY <1>11, <2>2 DEF CommitChange
    <3>2. lock' = q => lock = q
      BY <1>11 DEF CommitChange, Release
    <3> QED BY <3>1, <3>2, OrderlyKept
  <2> QED BY <2>1, <2>2 DEF RequestsAreOrderly
<1>12. ASSUME NEW r \in RowRequests, FinishCreate(r) \/ FinishDelete(r)
       PROVE  RequestsAreOrderly'
  BY <1>3, <1>4, <1>12 DEF FinishCreate, FinishDelete, FinalizeChangeEvents
<1>13. ASSUME NEW r \in RowRequests, FinishUpdate(r) PROVE RequestsAreOrderly'
  BY <1>13 DEF FinishUpdate, FinalizeChangeEvents, RequestsAreOrderly, Orderly
<1>14. ASSUME NEW r \in RowRequests, WriteUpdateResponse(r)
       PROVE  RequestsAreOrderly'
  BY <1>3, <1>4, <1>14 DEF WriteUpdateResponse
<1>15. CASE UNCHANGED rowVars
  BY <1>15 DEF rowVars, RequestsAreOrderly, Orderly
<1> QED
  BY <1>1, <1>2, <1>5, <1>6, <1>7, <1>8, <1>10, <1>11, <1>12, <1>13, <1>14,
     <1>15 DEF RowNext, FetchForDelete, FetchForPatch, FetchForPut

-----------------------------------------------------------------------------
(* What a transaction read, and what it leaves behind.                     *)

\* Of all steps only a CommitChange by the holder of the lock changes the row.
LEMMA RowChanges ==
  ASSUME RowTypeOK, [RowNext]_rowVars, db' # db
  PROVE  \E r \in RowRequests :
           /\ CommitChange(r) /\ lock = r /\ db' = After(r)
           /\ UNCHANGED <<seen, fetched, ask, effect>>
<1>1. PICK r \in RowRequests : CommitChange(r)
  BY OnlyCommit
<1>2. lock = r /\ db' = After(r) /\ UNCHANGED <<seen, fetched, ask, effect>>
  BY <1>1 DEF CommitChange
<1> QED BY <1>1, <1>2

\* The isolation level is fixed.
LEMMA IsolationFixed == ASSUME [RowNext]_rowVars PROVE isolation' = isolation
  BY OnlyCommit DEF CommitChange

\* A request forgets the version it has read, or reads the current one, or
\* leaves it alone.
LEMMA VersionsRead ==
  ASSUME RowTypeOK, [RowNext]_rowVars, NEW q \in RowRequests
  PROVE  /\ \/ seen'[q] \in {seen[q], NoVersion}
            \/ seen'[q] = db /\ db.row # NoEntity
         /\ \/ fetched'[q] \in {fetched[q], NoVersion}
            \/ fetched'[q] = db /\ db.row # NoEntity
<1>0. seen \in [RowRequests -> Versions \cup {NoVersion}]
      /\ fetched \in [RowRequests -> Versions \cup {NoVersion}]
  BY DEF RowTypeOK
<1>1. ASSUME NEW r \in RowRequests, NEW s, AnswerWith(r, s)
      PROVE  /\ seen'[q] \in {seen[q], NoVersion}
             /\ fetched'[q] \in {fetched[q], NoVersion}
  BY <1>0, <1>1 DEF AnswerWith
<1>2. ASSUME NEW r \in RowRequests, HandleGet(r)
      PROVE  /\ seen'[q] = seen[q] \/ (seen'[q] = db /\ db.row # NoEntity)
             /\ fetched'[q] = fetched[q]
  BY <1>0, <1>2 DEF HandleGet
<1>3. ASSUME NEW r \in RowRequests, db.row # NoEntity,
             fetched' = [fetched EXCEPT ![r] = db], UNCHANGED seen
      PROVE  /\ seen'[q] = seen[q]
             /\ fetched'[q] = fetched[q] \/ (fetched'[q] = db /\ db.row # NoEntity)
  BY <1>0, <1>3
<1>4. ASSUME NEW r \in RowRequests,
             \/ FetchAndCheck(r) \/ Refuse(r) \/ StatementFails(r)
             \/ CommitChangeFails(r) \/ FinishCreate(r) \/ FinishDelete(r)
             \/ WriteUpdateResponse(r)
      PROVE  \/ \E s : AnswerWith(r, s)
             \/ /\ db.row # NoEntity /\ fetched' = [fetched EXCEPT ![r] = db]
                /\ UNCHANGED seen
  BY <1>4 DEF FetchAndCheck, Refuse, StatementFails, CommitChangeFails, FinishCreate,
     FinishDelete, WriteUpdateResponse
<1>5. ASSUME NEW r \in RowRequests,
             \/ Send(r) \/ PostChecks(r) \/ CreateStatement(r)
             \/ PatchStatement(r) \/ PutStatement(r) \/ DeleteStatement(r)
             \/ StatementMisses(r) \/ CommitChange(r) \/ FinishUpdate(r)
      PROVE  UNCHANGED <<seen, fetched>>
  BY <1>5 DEF Send, PostChecks, CreateStatement, PatchStatement, PutStatement,
     DeleteStatement, UpdateStatement, Wrote, Executed, StatementMisses,
     CommitChange, FinishUpdate
<1> QED
  BY <1>1, <1>2, <1>3, <1>4, <1>5 DEF RowNext, rowVars, FetchForDelete,
     FetchForPatch, FetchForPut

\* A commit that continues the row keeps every version known.
LEMMA KnownAfterCommit ==
  ASSUME RowInv, isolation = "snapshot", NEW r \in RowRequests, lock = r,
         db' = After(r), NEW v \in Versions \cup {NoVersion}, Known(v)
  PROVE  Known(v)'
<1> SUFFICES ASSUME v # NoVersion PROVE Known(v)'
  BY DEF Known
<1>1. db \in Versions /\ effect[r] \in Entities \cup {NoEntity} /\ v \in Versions
  BY DEF RowInv, RowTypeOK
<1>2. Continues(r)
  BY DEF RowInv, LockHolderContinues
<1>3. /\ db'.row = effect[r] /\ db'.changes = db.changes + 1
      /\ db'.births = IF db.row = NoEntity THEN db.births + 1 ELSE db.births
  BY DEF After
<1>4. v.row # NoEntity /\ v.changes <= db.changes /\ v.births <= db.births
  BY DEF Known
<1>5. v.changes \in Nat /\ v.births \in Nat /\ db.changes \in Nat
      /\ db.births \in Nat
  BY <1>1 DEF Versions
<1>6. v.changes < db'.changes /\ v.births <= db'.births
  BY <1>3, <1>4, <1>5
<1>7. ASSUME EtagKind = "int", db'.row # NoEntity, v.births = db'.births
      PROVE  db'.row.etag - v.row.etag = db'.changes - v.changes
  <2>1. db.row # NoEntity /\ v.births = db.births
    BY <1>3, <1>4, <1>5, <1>7
  <2>2. effect[r].etag = db.row.etag + 1
    BY <1>2, <1>3, <1>7, <2>1 DEF Continues
  <2>3. db.row.etag - v.row.etag = db.changes - v.changes
    BY <1>7, <2>1 DEF Known
  <2>4. db.row.etag \in Nat /\ v.row.etag \in Nat
    BY <1>1, <1>4, <2>1 DEF Versions, Entities
  <2> QED BY <1>3, <1>5, <2>2, <2>3, <2>4
<1>8. db'.changes \in Nat
  BY <1>3, <1>5
<1> QED BY <1>4, <1>5, <1>6, <1>7, <1>8 DEF Known

\* What clients and transactions have read stays known.
LEMMA ReadsNext ==
  RowInv /\ isolation = "snapshot" /\ [RowNext]_rowVars => ReadsAreVersions'
<1> SUFFICES ASSUME RowInv, isolation = "snapshot", [RowNext]_rowVars,
                    NEW q \in RowRequests
             PROVE  Known(seen[q])' /\ Known(fetched[q])'
  BY DEF ReadsAreVersions
<1>0. RowTypeOK /\ db \in Versions
  BY DEF RowInv, RowTypeOK
<1>1. Known(seen[q]) /\ Known(fetched[q])
  BY DEF RowInv, ReadsAreVersions
<1>2. CASE db' = db
  <2>1. ASSUME NEW v, Known(v) PROVE Known(v)'
    BY <1>2, <2>1 DEF Known
  <2>2. db.row # NoEntity => Known(db)
    BY <1>0 DEF Known, Versions, Entities
  <2>3. Known(NoVersion)
    BY DEF Known
  <2> QED BY <1>0, <1>1, <2>1, <2>2, <2>3, VersionsRead
<1>3. CASE db' # db
  <2>1. PICK r \in RowRequests :
          /\ CommitChange(r) /\ lock = r /\ db' = After(r)
          /\ UNCHANGED <<seen, fetched, ask, effect>>
    BY <1>0, <1>3, RowChanges
  <2>2. /\ seen[q] \in Versions \cup {NoVersion}
        /\ fetched[q] \in Versions \cup {NoVersion}
    BY <1>0 DEF RowTypeOK
  <2> QED BY <1>1, <2>1, <2>2, KnownAfterCommit
<1> QED BY <1>2, <1>3

\* A statement that takes the lock starts from the current row, and while the
\* lock is held neither the row nor what its holder knows changes.
LEMMA LockNext ==
  RowInv /\ isolation = "snapshot" /\ [RowNext]_rowVars => LockHolderContinues'
<1> SUFFICES ASSUME RowInv, isolation = "snapshot", [RowNext]_rowVars,
                    NEW q \in RowRequests, lock' = q
             PROVE  Continues(q)'
  BY DEF LockHolderContinues
<1>0. /\ RowTypeOK /\ RequestsAreOrderly /\ ReadsAreVersions
      /\ LockHolderContinues
  BY DEF RowInv
<1> USE <1>0, WriteAssumption
<1>1. lock = q => Continues(q) /\ stage[q] = "written"
  BY DEF LockHolderContinues, RequestsAreOrderly, Orderly
<1>2. ASSUME NEW r \in RowRequests, NEW s, AnswerWith(r, s), UNCHANGED <<db, lock>>,
             stage[r] # "written"
      PROVE  Continues(q)'
  <2>1. lock = q /\ q # r
    BY <1>1, <1>2
  <2>2. ask'[q] = ask[q] /\ fetched'[q] = fetched[q] /\ effect'[q] = effect[q]
    BY <1>2, <2>1 DEF AnswerWith, RowTypeOK
  <2> QED BY <1>1, <1>2, <2>1, <2>2 DEF Continues
<1>3. ASSUME lock = q, UNCHANGED <<db, ask, fetched, effect>>
      PROVE  Continues(q)'
  BY <1>1, <1>3 DEF Continues
<1>4. ASSUME NEW r \in RowRequests, Send(r) PROVE Continues(q)'
  <2>1. lock = q /\ q # r
    BY <1>1, <1>4 DEF Send
  <2>2. ask'[q] = ask[q]
    BY <1>4, <2>1 DEF Send, RowTypeOK
  <2> QED BY <1>1, <1>4, <2>1, <2>2 DEF Continues, Send
<1>5. ASSUME NEW r \in RowRequests, FetchAndCheck(r) PROVE Continues(q)'
  <2>1. lock = q /\ q # r
    BY <1>1, <1>5 DEF FetchAndCheck
  <2>2. ASSUME NEW s, AnswerWith(r, s) PROVE Continues(q)'
    BY <1>2, <1>5, <2>2 DEF FetchAndCheck
  <2>3. CASE fetched' = [fetched EXCEPT ![r] = db] /\ UNCHANGED <<ask, effect>>
    <3>1. fetched'[q] = fetched[q]
      BY <2>1, <2>3 DEF RowTypeOK
    <3> QED BY <1>1, <1>5, <2>1, <2>3, <3>1 DEF Continues, FetchAndCheck
  <2> QED BY <1>5, <2>2, <2>3 DEF FetchAndCheck
<1>6. ASSUME NEW r \in RowRequests, NEW row, NEW e, Wrote(r, row, e)
      PROVE  /\ r = q /\ effect'[q] = row /\ stage[r] = "checked"
             /\ UNCHANGED <<db, ask, fetched>>
  BY <1>6 DEF Wrote, Executed, RowTypeOK
<1>7. ASSUME NEW r \in RowRequests, CreateStatement(r) PROVE Continues(q)'
  <2>1. db.row = NoEntity /\ ask[r].ifMatch.tags = {}
    BY <1>7 DEF CreateStatement, RequestsAreOrderly, Orderly
  <2>2. r = q /\ UNCHANGED <<db, ask>>
    BY <1>6, <1>7 DEF CreateStatement
  <2> QED BY <2>1, <2>2 DEF Continues
<1>8. ASSUME NEW r \in RowRequests, UpToDate(r) PROVE fetched[r] = db
  <2>1. fetched[r] \in Versions \cup {NoVersion} /\ db.changes \in Nat
    BY DEF RowTypeOK, Versions
  <2>2. fetched[r].changes = db.changes
    BY <1>8 DEF UpToDate
  <2> QED BY <2>1, <2>2, Markers DEF ReadsAreVersions, Known
<1>9. ASSUME NEW r \in RowRequests, NEW row, UpdateStatement(r, row), UpToDate(r),
             \A p \in Immutable : row.props[p] = db.row.props[p],
             EtagKind = "int" => row.etag = db.row.etag + 1
      PROVE  Continues(q)'
  <2>1. r = q /\ effect'[q] = row /\ UNCHANGED <<db, ask, fetched>>
    BY <1>6, <1>9 DEF UpdateStatement
  <2> QED BY <1>8, <1>9, <2>1 DEF Continues
<1>10. ASSUME NEW r \in RowRequests, PatchStatement(r) PROVE Continues(q)'
  <2>1. UpToDate(r) /\ UpdateStatement(r, Updated(r))
    BY <1>10 DEF PatchStatement
  <2>2. \A p \in Immutable : Updated(r).props[p] = db.row.props[p]
    BY <1>10 DEF PatchStatement, PatchBodyAllowed, Updated
  <2>3. EtagKind = "int" => Updated(r).etag = db.row.etag + 1
    BY <1>8, <2>1 DEF Updated, IncrementETag
  <2> QED BY <1>9, <2>1, <2>2, <2>3
<1>11. ASSUME NEW r \in RowRequests, PutStatement(r) PROVE Continues(q)'
  <2>1. UpToDate(r) /\ UpdateStatement(r, Replaced(r))
    BY <1>11 DEF PutStatement
  <2>2. \A p \in Immutable : Replaced(r).props[p] = db.row.props[p]
    BY <1>8, <2>1 DEF Replaced
  <2>3. EtagKind = "int" => Replaced(r).etag = db.row.etag + 1
    BY <1>8, <2>1 DEF Replaced, IncrementETag
  <2> QED BY <1>9, <2>1, <2>2, <2>3
<1>12. ASSUME NEW r \in RowRequests, DeleteStatement(r) PROVE Continues(q)'
  <2>1. UpToDate(r) /\ Wrote(r, NoEntity, RowEvent("deleted", r, NoEntity))
    BY <1>12 DEF DeleteStatement
  <2>2. r = q /\ effect'[q] = NoEntity /\ UNCHANGED <<db, ask, fetched>>
    BY <1>6, <2>1
  <2> QED BY <1>8, <2>1, <2>2 DEF Continues
<1>13. ASSUME NEW r \in RowRequests, CommitChange(r) \/ CommitChangeFails(r)
       PROVE  Continues(q)'
  <2>1. lock = q /\ r # q
    BY <1>13 DEF CommitChange, CommitChangeFails, Release
  <2>2. CASE CommitChange(r)
    BY <1>3, <2>1, <2>2 DEF CommitChange
  <2>3. CASE CommitChangeFails(r)
    <3>1. ask'[q] = ask[q] /\ fetched'[q] = fetched[q] /\ effect'[q] = effect[q]
      BY <2>1, <2>3 DEF CommitChangeFails, AnswerWith, RowTypeOK
    <3> QED BY <1>1, <2>1, <2>3, <3>1 DEF Continues, CommitChangeFails
  <2> QED BY <1>13, <2>2, <2>3
<1>14. ASSUME NEW r \in RowRequests,
              \/ Refuse(r) \/ StatementFails(r) \/ FinishCreate(r)
              \/ FinishDelete(r) \/ WriteUpdateResponse(r)
       PROVE  Continues(q)'
  BY <1>2, <1>14 DEF Refuse, StatementFails, FinishCreate, FinishDelete,
     FinalizeChangeEvents, WriteUpdateResponse
<1>15. ASSUME NEW r \in RowRequests,
              \/ HandleGet(r) \/ PostChecks(r) \/ StatementMisses(r)
              \/ FinishUpdate(r)
       PROVE  Continues(q)'
  BY <1>3, <1>15 DEF HandleGet, PostChecks, StatementMisses, Executed,
     FinishUpdate, FinalizeChangeEvents
<1>16. CASE UNCHANGED rowVars
  BY <1>3, <1>16 DEF rowVars
<1> QED
  BY <1>4, <1>5, <1>7, <1>10, <1>11, <1>12, <1>13, <1>14, <1>15, <1>16
  DEF RowNext, FetchForDelete, FetchForPatch, FetchForPut

\* A precondition holds only for the ETag its client has seen, and with
\* integer ETags that identifies the version since the row was created.
LEMMA MatchedNext ==
  RowInv /\ isolation = "snapshot" /\ [RowNext]_rowVars => MatchedIsSeen'
<1> SUFFICES ASSUME RowInv, isolation = "snapshot", [RowNext]_rowVars,
                    EtagKind = "int", NEW q \in RowRequests,
                    fetched'[q] # NoVersion, ask'[q].ifMatch.tags # {},
                    fetched'[q].births = seen'[q].births
             PROVE  fetched'[q].changes = seen'[q].changes
  BY DEF MatchedIsSeen
<1>0. RowTypeOK /\ RequestsAreOrderly /\ ReadsAreVersions /\ MatchedIsSeen
  BY DEF RowInv
<1> USE <1>0, WriteAssumption
<1>1. CASE ask'[q] = ask[q] /\ fetched'[q] = fetched[q] /\ seen'[q] = seen[q]
  BY <1>1 DEF MatchedIsSeen
<1>2. ASSUME NEW r \in RowRequests, HandleGet(r) \/ Send(r)
      PROVE  ask'[q] = ask[q] /\ fetched'[q] = fetched[q] /\ seen'[q] = seen[q]
  <2>1. fetched[r] = NoVersion /\ fetched' = fetched
    BY <1>2 DEF HandleGet, Send, RequestsAreOrderly, Orderly
  <2>2. r # q
    BY <2>1
  <2> QED BY <1>2, <2>1, <2>2 DEF HandleGet, Send, RowTypeOK
<1>3. ASSUME NEW r \in RowRequests, NEW s, AnswerWith(r, s)
      PROVE  ask'[q] = ask[q] /\ fetched'[q] = fetched[q] /\ seen'[q] = seen[q]
  <2>1. r # q
    BY <1>3 DEF AnswerWith, RowTypeOK
  <2> QED BY <1>3, <2>1 DEF AnswerWith, RowTypeOK
<1>4. ASSUME NEW r \in RowRequests, FetchAndCheck(r), ~\E s : AnswerWith(r, s)
      PROVE  fetched'[q].changes = seen'[q].changes
  <2>1. /\ db.row # NoEntity /\ PreconditionHolds(r, db.row)
        /\ fetched' = [fetched EXCEPT ![r] = db] /\ UNCHANGED <<ask, seen>>
    BY <1>4 DEF FetchAndCheck
  <2>2. CASE r # q
    BY <1>1, <2>1, <2>2 DEF RowTypeOK
  <2>3. CASE r = q
    <3>1. fetched'[q] = db /\ seen'[q] = seen[q] /\ ask'[q] = ask[q]
      BY <2>1, <2>3 DEF RowTypeOK
    <3>2. seen[q] # NoVersion /\ ask[q].ifMatch = Tags({seen[q].row.etag})
      BY <3>1 DEF RequestsAreOrderly, Orderly
    <3>3. db.row.etag = seen[q].row.etag
      BY <2>1, <2>3, <3>2
      DEF PreconditionHolds, Match, Tags, NoHeader
    <3>4. db.row.etag - seen[q].row.etag = db.changes - seen[q].changes
      BY <2>1, <3>1, <3>2 DEF ReadsAreVersions, Known
    <3>5. seen[q] \in Versions /\ db \in Versions /\ db.row \in Entities
      BY <2>1, <3>2 DEF RowTypeOK, Versions
    <3> QED BY <3>1, <3>3, <3>4, <3>5 DEF Versions, Entities
  <2> QED BY <2>2, <2>3
<1>5. ASSUME NEW r \in RowRequests,
             \/ Refuse(r) \/ StatementFails(r) \/ CommitChangeFails(r)
             \/ FinishCreate(r) \/ FinishDelete(r) \/ WriteUpdateResponse(r)
      PROVE  \E s : AnswerWith(r, s)
  BY <1>5 DEF Refuse, StatementFails, CommitChangeFails, FinishCreate, FinishDelete,
     WriteUpdateResponse
<1>6. ASSUME NEW r \in RowRequests,
             \/ PostChecks(r) \/ CreateStatement(r)
             \/ PatchStatement(r) \/ PutStatement(r) \/ DeleteStatement(r)
             \/ StatementMisses(r) \/ CommitChange(r) \/ FinishUpdate(r)
      PROVE  UNCHANGED <<ask, seen, fetched>>
  BY <1>6 DEF PostChecks, CreateStatement, PatchStatement, PutStatement,
     DeleteStatement, UpdateStatement, Wrote, Executed, StatementMisses,
     CommitChange, FinishUpdate
<1>7. CASE UNCHANGED <<ask, seen, fetched>>
  BY <1>1, <1>7
<1>8. CASE \E r \in RowRequests : \E s : AnswerWith(r, s)
  BY <1>1, <1>3, <1>8
<1> QED
  BY <1>1, <1>2, <1>4, <1>5, <1>6, <1>7, <1>8
  DEF RowNext, rowVars, FetchForDelete, FetchForPatch, FetchForPut

\* A commit replaces the version its transaction read, which is the one its
\* client had seen.
LEMMA SafeNext == RowInv /\ [RowNext]_rowVars => ConditionalWritesAreSafe'
<1>0. ASSUME RowInv, [RowNext]_rowVars PROVE isolation' = isolation
  BY <1>0, IsolationFixed DEF RowInv
<1> SUFFICES ASSUME RowInv, [RowNext]_rowVars, isolation = "snapshot",
                    EtagKind = "int", NEW q \in RowRequests,
                    ask'[q].ifMatch.tags # {}, replaced'[q] # NoStamp,
                    replaced'[q].births = seen'[q].births
             PROVE  replaced'[q].changes = seen'[q].changes
  BY <1>0 DEF ConditionalWritesAreSafe, ReplacedWhatWasSeen
<1>1. /\ RowTypeOK /\ RequestsAreOrderly /\ LockHolderContinues
      /\ MatchedIsSeen /\ ReplacedWhatWasSeen(q)
  BY DEF RowInv, ConditionalWritesAreSafe
<1> USE <1>1, WriteAssumption
<1>2. CASE /\ ask'[q] = ask[q] /\ seen'[q] = seen[q]
           /\ replaced'[q] = replaced[q]
  BY <1>2 DEF ReplacedWhatWasSeen
<1>3. ASSUME NEW r \in RowRequests, HandleGet(r) \/ Send(r)
      PROVE  ask'[q] = ask[q] /\ seen'[q] = seen[q] /\ replaced' = replaced
  <2>1. replaced[r] = NoStamp /\ replaced' = replaced
    BY <1>3 DEF HandleGet, Send, RequestsAreOrderly, Orderly
  <2>2. r # q
    BY <2>1
  <2> QED BY <1>3, <2>1, <2>2 DEF HandleGet, Send, RowTypeOK
<1>4. ASSUME NEW r \in RowRequests, NEW s, AnswerWith(r, s)
      PROVE  /\ ask'[q] = ask[q] /\ seen'[q] = seen[q]
             /\ replaced'[q] = replaced[q]
  <2>1. r # q
    BY <1>4 DEF AnswerWith, RowTypeOK
  <2> QED BY <1>4, <2>1 DEF AnswerWith, RowTypeOK
<1>5. ASSUME NEW r \in RowRequests, CommitChange(r), r = q, lock = r
      PROVE  replaced'[q].changes = seen'[q].changes
  <2>1. replaced'[q] = Stamp(db) /\ UNCHANGED <<ask, seen>>
    BY <1>5 DEF CommitChange, RowTypeOK
  <2>2. fetched[q] = db
    BY <1>5, <2>1 DEF LockHolderContinues, Continues
  <2>3. fetched[q] # NoVersion
    BY <2>2, Markers DEF RowTypeOK
  <2> QED BY <2>1, <2>2, <2>3 DEF Stamp, MatchedIsSeen
<1>6. ASSUME NEW r \in RowRequests, CommitChange(r), r # q \/ lock # r
      PROVE  /\ ask'[q] = ask[q] /\ seen'[q] = seen[q]
             /\ replaced'[q] = replaced[q]
  BY <1>6 DEF CommitChange, RowTypeOK
<1>7. ASSUME NEW r \in RowRequests,
             \/ Refuse(r) \/ StatementFails(r) \/ CommitChangeFails(r)
             \/ FinishCreate(r) \/ FinishDelete(r) \/ WriteUpdateResponse(r)
      PROVE  \E s : AnswerWith(r, s)
  BY <1>7 DEF Refuse, StatementFails, CommitChangeFails, FinishCreate, FinishDelete,
     WriteUpdateResponse
<1>8. ASSUME NEW r \in RowRequests,
             \/ PostChecks(r) \/ CreateStatement(r)
             \/ PatchStatement(r) \/ PutStatement(r) \/ DeleteStatement(r)
             \/ StatementMisses(r) \/ FinishUpdate(r)
             \/ FetchAndCheck(r) /\ ~\E s : AnswerWith(r, s)
      PROVE  UNCHANGED <<ask, seen, replaced>>
  BY <1>8 DEF PostChecks, CreateStatement, PatchStatement, PutStatement,
     DeleteStatement, UpdateStatement, Wrote, Executed, StatementMisses,
     FinishUpdate, FetchAndCheck
<1>9. CASE UNCHANGED <<ask, seen, replaced>>
  BY <1>2, <1>9
<1>10. CASE \E r \in RowRequests : \E s : AnswerWith(r, s)
  BY <1>2, <1>4, <1>10
<1> QED
  BY <1>2, <1>3, <1>5, <1>6, <1>7, <1>8, <1>9, <1>10
  DEF RowNext, rowVars, FetchForDelete, FetchForPatch, FetchForPut

-----------------------------------------------------------------------------
(* The theorems.                                                           *)

\* RowInv is an invariant: every read is of a version that was committed, the
\* holder of the lock continues the current row, and requests are orderly.
THEOREM WriteInvariance == RowSpec => []RowInv
<1>1. RowInv /\ [RowNext]_rowVars => RowInv'
  <2> SUFFICES ASSUME RowInv, [RowNext]_rowVars PROVE RowInv'
    OBVIOUS
  <2>1. RowTypeOK'
    BY DataTypeNext, OvertakenNext DEF RowInv, RowTypeOK, DataTypeOK
  <2>2. isolation' = isolation
    BY IsolationFixed DEF RowInv
  <2> QED BY <2>1, <2>2, OrderlyNext, ReadsNext, LockNext, MatchedNext,
             SafeNext DEF RowInv
<1> QED BY InvInit, <1>1, PTL DEF RowSpec

\* The state of the handlers and of the row keeps its types.
THEOREM WriteTypeCorrect == RowSpec => []RowTypeOK
<1>1. RowInv => RowTypeOK
  BY DEF RowInv
<1> QED BY WriteInvariance, <1>1, PTL

\* On a database that refuses to update a row which changed since it was
\* read, a write with If-Match replaces exactly the version its client saw.
THEOREM NoLostUpdate == RowSpec => []ConditionalWritesAreSafe
<1>1. RowInv => ConditionalWritesAreSafe
  BY DEF RowInv
<1> QED BY WriteInvariance, <1>1, PTL

\* No PATCH and no PUT changes an immutable property there: the only step that
\* changes the row commits what continues it.
THEOREM ImmutableStays == RowSpec => ImmutableIsKept
<1> DEFINE Kept ==
      isolation = "snapshot" /\ db.row # NoEntity /\ db'.row # NoEntity
        => \A p \in Immutable : db'.row.props[p] = db.row.props[p]
<1>1. RowInv /\ [RowNext]_rowVars => [Kept]_rowVars
  <2> SUFFICES ASSUME RowInv, [RowNext]_rowVars, isolation = "snapshot",
                      db.row # NoEntity, db'.row # NoEntity, db' # db,
                      NEW p \in Immutable
               PROVE  db'.row.props[p] = db.row.props[p]
    OBVIOUS
  <2>1. PICK r \in RowRequests : lock = r /\ db' = After(r)
    BY RowChanges DEF RowInv
  <2>2. Continues(r)
    BY <2>1 DEF RowInv, LockHolderContinues
  <2> QED BY <2>1, <2>2 DEF Continues, After
<1> QED BY WriteInvariance, <1>1, PTL DEF RowSpec, ImmutableIsKept
-----------------------------------------------------------------------------
(* The feed.                                                               *)

\* What ChangesAreRecorded says of one request.
IsRecorded(r) ==
  /\ stage[r] = "recorded" /\ replaced[r] # NoStamp => r \in unrefreshed \/ EventsOf(r) # {}
  /\ reply[r] \in {"created", "deleted"} => EventsOf(r) # {}
  /\ reply[r] \in {"refused", "notFound", "preconditionFailed", "databaseError"} => EventsOf(r) = {}

Held(r) == EventsAreHeld(r) /\ IsRecorded(r)

\* Nothing happens to the other requests.
Others(r) ==
  \A q \in RowRequests \ {r} :
    /\ stage'[q] = stage[q] /\ ask'[q] = ask[q] /\ pendingEvent'[q] = pendingEvent[q]
    /\ reply'[q] = reply[q] /\ replaced'[q] = replaced[q] /\ effect'[q] = effect[q]

\* A step of one request leaves what is known of the others, as long as it does
\* not hand them the lock and records no event of theirs.
LEMMA OthersAreHeld ==
  ASSUME NEW r \in RowRequests, Others(r), NEW q \in RowRequests \ {r}, Held(q),
         EventsOf(q)' = EventsOf(q), lock' = q => lock = q, unrefreshed \subseteq unrefreshed'
  PROVE  Held(q)'
<1>1. /\ stage'[q] = stage[q] /\ ask'[q] = ask[q] /\ pendingEvent'[q] = pendingEvent[q]
      /\ reply'[q] = reply[q] /\ replaced'[q] = replaced[q]
  BY DEF Others
<1>2. q \in unrefreshed => q \in unrefreshed'
  OBVIOUS
<1>3. EventsAreHeld(q)'
  BY <1>1, <1>2 DEF Held, EventsAreHeld
<1>4. IsRecorded(q)'
  BY <1>1, <1>2 DEF Held, IsRecorded
<1> QED BY <1>3, <1>4 DEF Held

\* An answer forgets the request.
LEMMA AnswerForgets ==
  ASSUME DataTypeOK, NEW r \in RowRequests, NEW s, AnswerWith(r, s)
  PROVE  /\ stage'[r] = "answered" /\ reply'[r] = s
         /\ pendingEvent'[r] = NoRowEvent /\ replaced'[r] = NoStamp
         /\ Others(r)
  BY DEF DataTypeOK, AnswerWith, Others

\* Before its statement a request has neither an event nor a change to record,
\* and no answer of a failure follows an event.
LEMMA NothingToRecord ==
  ASSUME NEW r \in RowRequests, Held(r), EventsOf(r)' = EventsOf(r),
         \/ /\ stage[r] \in {"idle", "begin", "checked"} /\ stage'[r] \in {"idle", "begin", "checked"}
            /\ pendingEvent'[r] = pendingEvent[r] /\ reply'[r] = reply[r] /\ replaced'[r] = replaced[r]
         \/ /\ stage[r] \in Unanswered /\ stage'[r] = "answered"
            /\ pendingEvent'[r] = NoRowEvent /\ replaced'[r] = NoStamp
            /\ reply'[r] \in {"refused", "notFound", "preconditionFailed", "databaseError"}
  PROVE  Held(r)'
  BY DEF Held, EventsAreHeld, IsRecorded, Unanswered

\* A statement leaves its event in pendingEvent, or marks the row as not read back.
LEMMA StatementHolds ==
  ASSUME NEW r \in RowRequests, Held(r), EventsOf(r)' = EventsOf(r),
         stage[r] = "checked", stage'[r] = "written", UNCHANGED <<ask, reply, replaced>>,
         pendingEvent'[r] # NoRowEvent => pendingEvent'[r].by = r,
         ask[r].method \in {"POST", "DELETE"} => pendingEvent'[r] # NoRowEvent,
         lock' = r => pendingEvent'[r] # NoRowEvent \/ r \in unrefreshed'
  PROVE  Held(r)'
  BY DEF Held, EventsAreHeld, IsRecorded, Unanswered

\* What the five statements do to the request and to what it holds.
LEMMA StatementStep ==
  ASSUME RowInv, NEW r \in RowRequests,
         \/ CreateStatement(r) \/ PatchStatement(r) \/ PutStatement(r)
         \/ DeleteStatement(r) \/ StatementMisses(r)
  PROVE  /\ stage[r] = "checked" /\ stage'[r] = "written" /\ Others(r)
         /\ UNCHANGED <<isolation, db, ask, feed, reply, replaced, outrun>>
         /\ unrefreshed \subseteq unrefreshed'
         /\ pendingEvent'[r] # NoRowEvent => pendingEvent'[r].by = r
         /\ ask[r].method \in {"POST", "DELETE"} => pendingEvent'[r] # NoRowEvent
         /\ \/ /\ lock = Nobody /\ lock' = r
               /\ pendingEvent'[r] = NoRowEvent => r \in unrefreshed'
               /\ pendingEvent'[r] # NoRowEvent => pendingEvent'[r].row = effect'[r]
            \/ /\ lock' = lock /\ lock # r
               /\ ask[r].method # "POST" /\ UpToDate(r) /\ db.row = NoEntity
<1>1. DataTypeOK /\ RequestsAreOrderly
  BY DEF RowInv, RowTypeOK, DataTypeOK
<1>2. ASSUME NEW e, Executed(r, e), effect' = effect \/ \E row : effect' = [effect EXCEPT ![r] = row]
      PROVE  /\ stage[r] = "checked" /\ stage'[r] = "written" /\ Others(r) /\ pendingEvent'[r] = e
             /\ UNCHANGED <<isolation, db, ask, feed, reply, replaced, outrun>>
  <2>1. /\ stage[r] = "checked" /\ stage' = [stage EXCEPT ![r] = "written"]
        /\ pendingEvent' = [pendingEvent EXCEPT ![r] = e]
        /\ UNCHANGED <<isolation, db, ask, feed, reply, replaced, outrun>>
    BY <1>2 DEF Executed
  <2>2. \A q \in RowRequests \ {r} : effect'[q] = effect[q]
    BY <1>1, <1>2 DEF DataTypeOK
  <2> QED BY <1>1, <2>1, <2>2 DEF DataTypeOK, Others
<1>3. ASSUME NEW row, NEW e, Wrote(r, row, e)
      PROVE  /\ stage[r] = "checked" /\ stage'[r] = "written" /\ Others(r) /\ pendingEvent'[r] = e
             /\ UNCHANGED <<isolation, db, ask, feed, reply, replaced, outrun>>
             /\ lock = Nobody /\ lock' = r /\ effect'[r] = row
  BY <1>1, <1>2, <1>3 DEF Wrote, DataTypeOK
<1>4. \A kind, row : RowEvent(kind, r, row) # NoRowEvent /\ RowEvent(kind, r, row).by = r
                     /\ RowEvent(kind, r, row).row = row
  BY WriteAssumption DEF RowEvent, NoRowEvent
<1>5. CASE CreateStatement(r)
  <2>1. PICK e \in FirstTags : LET row == [etag |-> e, props |-> [p \in Props |-> r]]
                               IN Wrote(r, row, RowEvent("added", r, row))
    BY <1>5 DEF CreateStatement
  <2> DEFINE row == [etag |-> e, props |-> [p \in Props |-> r]]
  <2>2. Wrote(r, row, RowEvent("added", r, row))
    BY <2>1
  <2> HIDE DEF row
  <2> QED BY <1>3, <1>4, <1>5, <2>2 DEF CreateStatement
<1>6. ASSUME NEW row, UpdateStatement(r, row)
      PROVE  /\ stage[r] = "checked" /\ stage'[r] = "written" /\ Others(r)
             /\ UNCHANGED <<isolation, db, ask, feed, reply, replaced, outrun>>
             /\ unrefreshed \subseteq unrefreshed'
             /\ lock = Nobody /\ lock' = r /\ effect'[r] = row
             /\ \/ pendingEvent'[r] = RowEvent("updated", r, row)
                \/ pendingEvent'[r] = NoRowEvent /\ r \in unrefreshed'
  BY <1>3, <1>6 DEF UpdateStatement
<1>7. CASE PatchStatement(r)
  BY <1>4, <1>6, <1>7 DEF PatchStatement
<1>8. CASE PutStatement(r)
  BY <1>4, <1>6, <1>8 DEF PutStatement
<1>9. CASE DeleteStatement(r)
  BY <1>3, <1>4, <1>9 DEF DeleteStatement
<1>10. CASE StatementMisses(r)
  <2> DEFINE e == IF ask[r].method = "DELETE" THEN RowEvent("deleted", r, NoEntity) ELSE NoRowEvent
  <2>1. Executed(r, e) /\ UNCHANGED <<lock, effect, unrefreshed>> /\ UpToDate(r) /\ db.row = NoEntity
        /\ ask[r].method # "POST"
    BY <1>10 DEF StatementMisses
  <2>2. (e # NoRowEvent => e.by = r) /\ (ask[r].method = "DELETE" => e # NoRowEvent)
    BY <1>4
  <2> HIDE DEF e
  <2>3. /\ stage[r] = "checked" /\ stage'[r] = "written" /\ Others(r) /\ pendingEvent'[r] = e
        /\ UNCHANGED <<isolation, db, ask, feed, reply, replaced, outrun>>
    BY <1>2, <2>1
  <2>4. lock # r
    BY <1>1, <2>3 DEF RequestsAreOrderly, Orderly
  <2> QED BY <2>1, <2>2, <2>3, <2>4
<1> QED BY <1>5, <1>7, <1>8, <1>9, <1>10

\* finalizeChangeEvents appends the one pending event, if there is one.
LEMMA EventIsAppended ==
  ASSUME RowTypeOK, NEW r \in RowRequests, Held(r), FinalizeChangeEvents(r)
  PROVE  /\ \A q \in RowRequests \ {r} : EventsOf(q)' = EventsOf(q)
         /\ \A i, k \in EventsOf(r)' : i = k
         /\ pendingEvent[r] # NoRowEvent => EventsOf(r)' # {} /\ feed' # << >> /\ feed'[Len(feed')] = pendingEvent[r]
<1>1. stage[r] = "committed" /\ EventsOf(r) = {}
  BY DEF Held, EventsAreHeld, Unanswered, FinalizeChangeEvents
<1>2. CASE pendingEvent[r] = NoRowEvent
  BY <1>1, <1>2 DEF FinalizeChangeEvents, EventsOf
<1>3. CASE pendingEvent[r] # NoRowEvent
  <2>1. pendingEvent[r].by = r /\ feed \in Seq(EventType) /\ pendingEvent[r] \in EventType
    BY <1>3 DEF Held, EventsAreHeld, RowTypeOK
  <2>2. feed' = Append(feed, pendingEvent[r])
    BY <1>3 DEF FinalizeChangeEvents
  <2>3. /\ Len(feed) \in Nat /\ Len(feed') = Len(feed) + 1 /\ feed'[Len(feed) + 1] = pendingEvent[r]
        /\ \A i \in 1 .. Len(feed) : feed'[i] = feed[i]
        /\ feed' # << >>
    BY <2>1, <2>2
  <2>4. \A q \in RowRequests \ {r} : EventsOf(q)' = EventsOf(q)
    BY <2>1, <2>3 DEF EventsOf
  <2>5. EventsOf(r)' = {Len(feed) + 1}
    BY <1>1, <2>1, <2>3 DEF EventsOf
  <2> QED BY <2>3, <2>4, <2>5
<1> QED BY <1>2, <1>3

\* A step that neither commits nor records: what it may do to the request, its
\* lock and its event.
QuietStep(r) ==
  /\ Others(r)
  /\ UNCHANGED <<isolation, db, feed, outrun>> /\ unrefreshed \subseteq unrefreshed'
  /\ stage[r] # "committed" /\ stage'[r] # "committed"
  /\ stage'[r] = "written" /\ isolation = "snapshot" =>
       lock' = r /\ (pendingEvent'[r] # NoRowEvent => pendingEvent'[r].row = effect'[r])
  /\ \A q \in RowRequests \ {r} : lock = q <=> lock' = q
  /\ Held(r)'

\* Requests that read, check, fail or answer take quiet steps.
LEMMA ReadersAreQuiet ==
  ASSUME RowInv, NEW r \in RowRequests, Held(r),
         \/ HandleGet(r) \/ Send(r) \/ Refuse(r) \/ PostChecks(r) \/ FetchAndCheck(r)
         \/ StatementFails(r) \/ CommitChangeFails(r)
  PROVE  QuietStep(r)
<1>0. DataTypeOK
  BY DEF RowInv, RowTypeOK, DataTypeOK
<1>1. CASE HandleGet(r) \/ Send(r) \/ PostChecks(r)
  <2>1. /\ stage[r] \in {"idle", "begin"} /\ stage'[r] \in {"idle", "begin", "checked"} /\ Others(r)
        /\ UNCHANGED <<isolation, db, lock, pendingEvent, feed, reply, replaced, outrun, unrefreshed>>
    BY <1>0, <1>1 DEF HandleGet, Send, PostChecks, DataTypeOK, Others
  <2>2. EventsOf(r)' = EventsOf(r)
    BY <2>1 DEF EventsOf
  <2> QED BY <2>1, <2>2, NothingToRecord DEF QuietStep
<1>2. ASSUME stage[r] \in {"begin", "checked", "written"},
             NEW s \in {"refused", "notFound", "preconditionFailed", "databaseError"}, AnswerWith(r, s),
             UNCHANGED <<isolation, db, feed, outrun, unrefreshed>>, lock' \in {lock, Release(r)}
      PROVE  QuietStep(r)
  <2>1. /\ stage'[r] = "answered" /\ reply'[r] = s /\ pendingEvent'[r] = NoRowEvent /\ replaced'[r] = NoStamp
        /\ Others(r)
    BY <1>0, <1>2, AnswerForgets
  <2>2. EventsOf(r)' = EventsOf(r)
    BY <1>2 DEF EventsOf
  <2>3. Held(r)'
    BY <1>2, <2>1, <2>2, NothingToRecord DEF Unanswered
  <2>4. \A q \in RowRequests \ {r} : lock = q <=> lock' = q
    BY <1>2, WriteAssumption DEF Release
  <2> QED BY <1>2, <2>1, <2>3, <2>4 DEF QuietStep
<1>3. CASE Refuse(r) \/ StatementFails(r) \/ CommitChangeFails(r)
  BY <1>2, <1>3 DEF Refuse, StatementFails, CommitChangeFails
<1>4. CASE FetchAndCheck(r)
  <2>1. CASE AnswerWith(r, "notFound") \/ AnswerWith(r, "preconditionFailed")
    BY <1>2, <1>4, <2>1 DEF FetchAndCheck
  <2>2. CASE /\ fetched' = [fetched EXCEPT ![r] = db]
             /\ stage' = [stage EXCEPT ![r] = "checked"]
             /\ UNCHANGED <<ask, seen, effect, pendingEvent, reply, replaced>>
    <3>1. /\ stage[r] = "begin" /\ stage'[r] = "checked" /\ Others(r)
          /\ UNCHANGED <<isolation, db, lock, pendingEvent, feed, reply, replaced, outrun, unrefreshed>>
      BY <1>0, <1>4, <2>2 DEF FetchAndCheck, DataTypeOK, Others
    <3>2. EventsOf(r)' = EventsOf(r)
      BY <3>1 DEF EventsOf
    <3> QED BY <3>1, <3>2, NothingToRecord DEF QuietStep
  <2> QED BY <1>4, <2>1, <2>2 DEF FetchAndCheck
<1> QED BY <1>1, <1>3, <1>4

\* So do statements: on a database that refuses stale ones, none misses its row.
LEMMA StatementsAreQuiet ==
  ASSUME RowInv, NEW r \in RowRequests, Held(r),
         \/ CreateStatement(r) \/ PatchStatement(r) \/ PutStatement(r)
         \/ DeleteStatement(r) \/ StatementMisses(r)
  PROVE  QuietStep(r)
<1>1. /\ stage[r] = "checked" /\ stage'[r] = "written" /\ Others(r)
      /\ UNCHANGED <<isolation, db, ask, feed, reply, replaced, outrun>>
      /\ unrefreshed \subseteq unrefreshed'
      /\ pendingEvent'[r] # NoRowEvent => pendingEvent'[r].by = r
      /\ ask[r].method \in {"POST", "DELETE"} => pendingEvent'[r] # NoRowEvent
      /\ \/ /\ lock = Nobody /\ lock' = r
            /\ pendingEvent'[r] = NoRowEvent => r \in unrefreshed'
            /\ pendingEvent'[r] # NoRowEvent => pendingEvent'[r].row = effect'[r]
         \/ /\ lock' = lock /\ lock # r
            /\ ask[r].method # "POST" /\ UpToDate(r) /\ db.row = NoEntity
  BY StatementStep
<1>2. EventsOf(r)' = EventsOf(r)
  BY <1>1 DEF EventsOf
<1>3. Held(r)'
  BY <1>1, <1>2, StatementHolds
<1>4. isolation = "snapshot" /\ ask[r].method # "POST" /\ UpToDate(r) => db.row # NoEntity
  <2> SUFFICES ASSUME isolation = "snapshot", ask[r].method # "POST", UpToDate(r)
               PROVE  db.row # NoEntity
    OBVIOUS
  <2>1. fetched[r] # NoVersion /\ fetched[r].row # NoEntity /\ fetched[r].changes = db.changes
    BY <1>1 DEF RowInv, RequestsAreOrderly, Orderly, UpToDate
  <2> QED BY <2>1 DEF RowInv, ReadsAreVersions, Known
<1>5. \A q \in RowRequests \ {r} : lock = q <=> lock' = q
  BY <1>1, WriteAssumption
<1> QED BY <1>1, <1>3, <1>4, <1>5 DEF QuietStep

\* The feed and the outstanding event tell the row.
FeedTells ==
  isolation = "snapshot" => LockHolderTellsItsRow /\ OutstandingIsLast /\ FeedFollowsTheRow

AllHeld == \A r \in RowRequests : Held(r)

\* A quiet step changes neither the feed nor what is outstanding.
LEMMA QuietKeeps ==
  ASSUME AllHeld, FeedTells, NEW r \in RowRequests, QuietStep(r)
  PROVE  AllHeld' /\ FeedTells'
<1> USE DEF QuietStep
<1>1. \A q \in RowRequests : EventsOf(q)' = EventsOf(q)
  BY DEF EventsOf
<1>2. AllHeld'
  <2>1. ASSUME NEW q \in RowRequests \ {r} PROVE Held(q)'
    BY <1>1, <2>1, OthersAreHeld DEF AllHeld
  <2> QED BY <2>1 DEF AllHeld
<1>3. ASSUME isolation = "snapshot"
      PROVE  LockHolderTellsItsRow' /\ OutstandingIsLast' /\ FeedFollowsTheRow'
  <2>1. LockHolderTellsItsRow'
    BY <1>3 DEF FeedTells, LockHolderTellsItsRow, Others
  <2>2. \A q \in RowRequests : stage'[q] = "committed" <=> stage[q] = "committed"
    BY DEF Others
  <2>3. \A q \in RowRequests : stage[q] = "committed" => pendingEvent'[q] = pendingEvent[q]
    BY DEF Others
  <2>4. unrefreshed' = {} => unrefreshed = {}
    OBVIOUS
  <2>5. OutstandingIsLast'
    BY <1>3, <2>2, <2>3, <2>4 DEF FeedTells, OutstandingIsLast
  <2>6. FeedFollowsTheRow'
    BY <1>3, <2>2, <2>4 DEF FeedTells, FeedFollowsTheRow
  <2> QED BY <2>1, <2>5, <2>6
<1> QED BY <1>2, <1>3 DEF FeedTells

\* A commit makes its event the outstanding one.
LEMMA CommitKeeps ==
  ASSUME RowInv, AllHeld, FeedTells, NEW r \in RowRequests, CommitChange(r)
  PROVE  AllHeld' /\ FeedTells'
<1>0. DataTypeOK
  BY DEF RowInv, RowTypeOK, DataTypeOK
<1>1. /\ stage[r] = "written" /\ stage'[r] = "committed" /\ Others(r)
      /\ UNCHANGED <<isolation, ask, seen, fetched, effect, pendingEvent, feed, reply, unrefreshed>>
      /\ \A q \in RowRequests \ {r} : lock' = q <=> lock = q
      /\ lock # r => replaced' = replaced
  BY <1>0, WriteAssumption DEF CommitChange, Release, DataTypeOK, Others
<1>2. \A q \in RowRequests : EventsOf(q)' = EventsOf(q)
  BY <1>1 DEF EventsOf
<1>3. Held(r)'
  <2>1. EventsAreHeld(r)'
    BY <1>1, <1>2 DEF AllHeld, Held, EventsAreHeld, Unanswered
  <2>2. IsRecorded(r)'
    BY <1>1, <1>2 DEF AllHeld, Held, IsRecorded
  <2> QED BY <2>1, <2>2 DEF Held
<1>4. AllHeld'
  <2>1. ASSUME NEW q \in RowRequests \ {r} PROVE Held(q)'
    BY <1>1, <1>2, <2>1, OthersAreHeld DEF AllHeld
  <2> QED BY <1>3, <2>1 DEF AllHeld
<1>5. ASSUME isolation = "snapshot"
      PROVE  LockHolderTellsItsRow' /\ OutstandingIsLast' /\ FeedFollowsTheRow'
  <2>1. lock = r /\ (pendingEvent[r] # NoRowEvent => pendingEvent[r].row = effect[r])
    BY <1>1, <1>5 DEF FeedTells, LockHolderTellsItsRow
  <2>2. \A q \in RowRequests \ {r} : stage'[q] # "written"
    BY <1>1, <1>5, <2>1 DEF FeedTells, LockHolderTellsItsRow, Others
  <2>3. LockHolderTellsItsRow'
    BY <1>1, <2>2 DEF LockHolderTellsItsRow
  <2>4. /\ db'.row = effect[r]
        /\ ~outrun' => \A q \in RowRequests : stage[q] # "committed"
    <3>1. db' = After(r)
      BY <2>1 DEF CommitChange
    <3>2. ~outrun' => \A q \in RowRequests : stage[q] # "committed"
      BY Zenon DEF CommitChange
    <3> QED BY <3>1, <3>2 DEF After
  <2>5. pendingEvent[r] # NoRowEvent \/ r \in unrefreshed
    BY <1>1, <2>1 DEF AllHeld, Held, EventsAreHeld
  <2>6. OutstandingIsLast'
    BY <1>1, <2>1, <2>4, <2>5 DEF OutstandingIsLast, Others
  <2> QED BY <1>1, <2>3, <2>6 DEF FeedFollowsTheRow
<1> QED BY <1>1, <1>4, <1>5 DEF FeedTells

\* Recording the outstanding event lets the feed end with the row.
LEMMA FinishKeeps ==
  ASSUME RowInv, AllHeld, FeedTells, NEW r \in RowRequests,
         FinishCreate(r) \/ FinishDelete(r) \/ FinishUpdate(r)
  PROVE  AllHeld' /\ FeedTells'
<1>0. DataTypeOK /\ RowTypeOK /\ Held(r)
  BY DEF RowInv, RowTypeOK, DataTypeOK, AllHeld
<1>1. FinalizeChangeEvents(r)
  BY DEF FinishCreate, FinishDelete, FinishUpdate
<1>2. /\ \A q \in RowRequests \ {r} : EventsOf(q)' = EventsOf(q)
      /\ \A i, k \in EventsOf(r)' : i = k
      /\ pendingEvent[r] # NoRowEvent => EventsOf(r)' # {} /\ feed' # << >> /\ feed'[Len(feed')] = pendingEvent[r]
  BY <1>0, <1>1, EventIsAppended
<1>3. stage[r] = "committed" /\ UNCHANGED <<isolation, db, lock, outrun, unrefreshed>>
  BY <1>1 DEF FinalizeChangeEvents
<1>4. ASSUME FinishCreate(r) \/ FinishDelete(r)
      PROVE  Others(r) /\ Held(r)' /\ stage'[r] \in {"answered", "recorded"}
  <2>1. PICK s \in {"created", "deleted"} : AnswerWith(r, s)
    BY <1>4 DEF FinishCreate, FinishDelete
  <2>2. /\ stage'[r] = "answered" /\ reply'[r] = s /\ pendingEvent'[r] = NoRowEvent /\ replaced'[r] = NoStamp
        /\ Others(r)
    BY <1>0, <2>1, AnswerForgets
  <2>3. pendingEvent[r] # NoRowEvent
    BY <1>0, <1>3, <1>4 DEF Held, EventsAreHeld, FinishCreate, FinishDelete
  <2>4. Held(r)'
    BY <1>2, <2>2, <2>3 DEF Held, EventsAreHeld, IsRecorded, Unanswered
  <2> QED BY <2>2, <2>4
<1>5. ASSUME FinishUpdate(r)
      PROVE  Others(r) /\ Held(r)' /\ stage'[r] \in {"answered", "recorded"}
  <2>1. /\ stage'[r] = "recorded" /\ Others(r)
        /\ UNCHANGED <<ask, pendingEvent, reply, replaced>>
    BY <1>0, <1>5 DEF FinishUpdate, DataTypeOK, Others
  <2>2. Held(r)'
    BY <1>0, <1>2, <1>3, <2>1 DEF Held, EventsAreHeld, IsRecorded, Unanswered
  <2> QED BY <2>1, <2>2
<1>6. Others(r) /\ Held(r)' /\ stage'[r] \in {"answered", "recorded"}
  BY <1>4, <1>5
<1>7. AllHeld'
  <2>1. ASSUME NEW q \in RowRequests \ {r} PROVE Held(q)'
    BY <1>2, <1>3, <1>6, <2>1, OthersAreHeld DEF AllHeld
  <2> QED BY <1>6, <2>1 DEF AllHeld
<1>8. ASSUME isolation = "snapshot"
      PROVE  LockHolderTellsItsRow' /\ OutstandingIsLast' /\ FeedFollowsTheRow'
  <2>1. LockHolderTellsItsRow'
    BY <1>3, <1>6, <1>8 DEF FeedTells, LockHolderTellsItsRow, Others
  <2>2. ~outrun => \A q \in RowRequests : stage'[q] # "committed"
    BY <1>3, <1>6, <1>8 DEF FeedTells, OutstandingIsLast, Others
  <2>3. OutstandingIsLast'
    BY <1>3, <2>2 DEF OutstandingIsLast
  <2>4. ~outrun /\ unrefreshed = {} => pendingEvent[r] # NoRowEvent /\ pendingEvent[r].row = db.row
    BY <1>3, <1>8 DEF FeedTells, OutstandingIsLast
  <2>5. FeedFollowsTheRow'
    BY <1>2, <1>3, <2>4 DEF FeedFollowsTheRow
  <2> QED BY <2>1, <2>3, <2>5
<1> QED BY <1>3, <1>7, <1>8 DEF FeedTells

\* The response after an update records nothing.
LEMMA ResponseIsQuiet ==
  ASSUME RowInv, NEW r \in RowRequests, Held(r), WriteUpdateResponse(r)
  PROVE  QuietStep(r)
<1>0. DataTypeOK
  BY DEF RowInv, RowTypeOK, DataTypeOK
<1>1. PICK s \in {"updated", "responseError"} : AnswerWith(r, s)
  BY DEF WriteUpdateResponse
<1>2. /\ stage'[r] = "answered" /\ reply'[r] = s /\ pendingEvent'[r] = NoRowEvent /\ replaced'[r] = NoStamp
      /\ Others(r)
  BY <1>0, <1>1, AnswerForgets
<1>3. stage[r] = "recorded" /\ UNCHANGED <<isolation, db, lock, feed, outrun, unrefreshed>>
  BY DEF WriteUpdateResponse
<1>4. EventsOf(r)' = EventsOf(r)
  BY <1>3 DEF EventsOf
<1>5. Held(r)'
  BY <1>2, <1>3, <1>4 DEF Held, EventsAreHeld, IsRecorded, Unanswered
<1> QED BY <1>2, <1>3, <1>5 DEF QuietStep

\* FeedIInv is AllHeld and FeedTells, where the feed is only promised to follow
\* the row on a database that refuses stale statements.
LEMMA FeedInvariants == FeedIInv <=> AllHeld /\ FeedTells
<1>1. FeedIInv => AllHeld /\ FeedTells
  BY DEF FeedIInv, AllHeld, Held, IsRecorded, FeedTells, FeedTellsTheRow, ChangesAreRecorded
<1>2. AllHeld /\ FeedTells => FeedIInv
  <2> SUFFICES ASSUME AllHeld, FeedTells PROVE FeedIInv
    OBVIOUS
  <2>1. FeedFollowsTheRow
    BY DEF FeedTells, FeedFollowsTheRow
  <2>2. ChangesAreRecorded
    BY DEF AllHeld, Held, EventsAreHeld, IsRecorded, ChangesAreRecorded
  <2>3. \A r \in RowRequests : EventsAreHeld(r)
    BY DEF AllHeld, Held
  <2> QED BY <2>1, <2>2, <2>3 DEF FeedTells, FeedIInv, FeedTellsTheRow
<1> QED BY <1>1, <1>2

\* Nothing is recorded before the first request.
LEMMA FeedStarts == RowInit => FeedIInv
<1> SUFFICES ASSUME RowInit PROVE FeedIInv
  OBVIOUS
<1>1. \A r \in RowRequests : EventsOf(r) = {}
  <2>1. Len(feed) = 0
    BY DEF RowInit
  <2> QED BY <2>1 DEF EventsOf
<1>2. AllHeld
  BY <1>1 DEF RowInit, AllHeld, Held, EventsAreHeld, IsRecorded
<1>3. FeedTells
  BY DEF RowInit, FeedTells, LockHolderTellsItsRow, OutstandingIsLast, FeedFollowsTheRow
<1> QED BY <1>2, <1>3, FeedInvariants

\* Every step of a request keeps the feed in order.
LEMMA FeedNext == RowInv /\ FeedIInv /\ [RowNext]_rowVars => FeedIInv'
<1> SUFFICES ASSUME RowInv, AllHeld, FeedTells, [RowNext]_rowVars PROVE AllHeld' /\ FeedTells'
  BY FeedInvariants, PTL
<1>1. ASSUME NEW r \in RowRequests, QuietStep(r) PROVE AllHeld' /\ FeedTells'
  BY <1>1, QuietKeeps
<1>2. ASSUME NEW r \in RowRequests PROVE Held(r)
  BY <1>2 DEF AllHeld
<1>3. CASE UNCHANGED rowVars
  BY <1>3 DEF rowVars, AllHeld, Held, EventsAreHeld, IsRecorded, EventsOf, FeedTells,
     LockHolderTellsItsRow, OutstandingIsLast, FeedFollowsTheRow
<1> QED
  BY <1>1, <1>2, <1>3, ReadersAreQuiet, StatementsAreQuiet, ResponseIsQuiet, CommitKeeps, FinishKeeps
  DEF RowNext, FetchForDelete, FetchForPatch, FetchForPut

\* However requests interleave and fail, each committed change has one event
\* unless it could not be read back, failed requests have none, and the feed
\* ends with the row until a commit overtakes an event.
THEOREM FeedIsComplete == RowSpec => []FeedTellsTheRow
<1>1. FeedIInv => FeedTellsTheRow
  BY DEF FeedIInv
<1> QED BY WriteInvariance, FeedStarts, FeedNext, <1>1, PTL DEF RowSpec

-----------------------------------------------------------------------------
(* Writes are atomic.                                                      *)

\* The checks of the handlers and the promise read the same headers.
LEMMA MeetsPreconditions ==
  ASSUME RowTypeOK, NEW r \in RowRequests, ask[r] # NotAsked, NEW row
  PROVE  PreconditionHolds(r, row) <=> Atomic!Meets(ask[r], row.etag)
<1>1. ask[r].ifMatch \in Headers /\ ask[r].ifNoneMatch \in Headers
  BY DEF RowTypeOK, RequestType
<1>2. \A h \in Headers : h = NoHeader <=> ~Atomic!Given(h)
  BY DEF Headers, NoHeader, Atomic!Given
<1> QED BY <1>1, <1>2 DEF PreconditionHolds, Match, NoneMatch, Atomic!Meets, Atomic!Lists

\* A step of r leaves the other requests, and the row unless r holds the lock.
Own(r) ==
  /\ \A q \in RowRequests \ {r} :
       /\ stage'[q] = stage[q] /\ ask'[q] = ask[q] /\ reply'[q] = reply[q]
       /\ replaced'[q] = replaced[q] /\ effect'[q] = effect[q] /\ fetched'[q] = fetched[q]
  /\ db' = db \/ lock = r
  /\ isolation' = isolation

Moves(r) ==
  \/ Atomic!Ask(r) \/ Atomic!Apply(r) \/ Atomic!Fail(r) \/ Atomic!Succeed(r)
  \/ UNCHANGED Atomic!vars

\* What there is to show of a step.
IsAtomic(r) ==
  /\ Own(r) /\ IsAsked(r)'
  /\ isolation = "snapshot" => TakesEffect(r)' /\ Moves(r)

\* The progress of one request changes.
LEMMA ProgressMoves ==
  ASSUME NEW r \in RowRequests, Own(r)
  PROVE  /\ Phases' = [Phases EXCEPT ![r] = Phases'[r]]
         /\ Phases'[r] = (IF stage'[r] = "idle" THEN "new" ELSE IF stage'[r] = "answered" THEN "answered"
                            ELSE IF replaced'[r] = NoStamp THEN "asked" ELSE "applied")
         /\ Phases[r] = (IF stage[r] = "idle" THEN "new" ELSE IF stage[r] = "answered" THEN "answered"
                           ELSE IF replaced[r] = NoStamp THEN "asked" ELSE "applied")
  BY DEF Phases, Own

\* A step that neither commits nor answers nor asks is none for the client.
LEMMA StutterMoves ==
  ASSUME NEW r \in RowRequests, Own(r), UNCHANGED <<ask, reply, replaced, db>>,
         \/ stage'[r] = stage[r]
         \/ stage[r] \notin {"idle", "answered"} /\ stage'[r] \notin {"idle", "answered"}
  PROVE  UNCHANGED Atomic!vars
<1>1. Phases'[r] = Phases[r]
  BY ProgressMoves
<1>2. Phases' = Phases
  <2>1. Phases = [q \in RowRequests |-> Phases[q]]
    BY DEF Phases
  <2> QED BY <1>1, <2>1, ProgressMoves
<1> QED BY <1>2 DEF Atomic!vars

\* An answer.
LEMMA AnswerMoves ==
  ASSUME RowTypeOK, NEW r \in RowRequests, NEW s, AnswerWith(r, s), UNCHANGED <<db, isolation>>
  PROVE  Own(r) /\ IsAsked(r)' /\ TakesEffect(r)' /\ Atomic!Answer(r, s)
<1>1. /\ stage'[r] = "answered" /\ ask'[r] = NotAsked /\ Own(r)
      /\ reply' = [reply EXCEPT ![r] = s] /\ ask' = [ask EXCEPT ![r] = NotAsked]
  BY DEF AnswerWith, RowTypeOK, Own
<1>2. IsAsked(r)' /\ TakesEffect(r)'
  BY <1>1 DEF IsAsked, TakesEffect
<1>3. Atomic!Answer(r, s)
  BY <1>1, ProgressMoves DEF Atomic!Answer
<1> QED BY <1>1, <1>2, <1>3

\* Reading, asking and failing.
LEMMA ReadersAreAtomic ==
  ASSUME RowInv, FeedIInv, AtomicInv, NEW r \in RowRequests,
         \/ HandleGet(r) \/ Send(r) \/ Refuse(r) \/ PostChecks(r) \/ FetchAndCheck(r)
         \/ StatementFails(r) \/ CommitChangeFails(r)
  PROVE  IsAtomic(r)
<1>0. RowTypeOK /\ IsAsked(r) /\ (stage[r] \in Unanswered \ {"committed"} => replaced[r] = NoStamp)
  BY DEF RowInv, AtomicInv, FeedIInv, EventsAreHeld, Unanswered
<1>1. CASE HandleGet(r)
  <2>1. stage[r] = "idle" /\ Own(r) /\ UNCHANGED <<stage, ask, reply, replaced, db, isolation>>
    BY <1>1 DEF HandleGet, Own
  <2>2. IsAsked(r)' /\ TakesEffect(r)'
    BY <1>0, <2>1 DEF IsAsked, TakesEffect
  <2> QED BY <2>1, <2>2, StutterMoves DEF IsAtomic, Moves
<1>2. CASE Send(r)
  <2>1. /\ stage[r] = "idle" /\ stage' = [stage EXCEPT ![r] = "begin"]
        /\ ask' = [ask EXCEPT ![r] = ask'[r]] /\ ask'[r].method \in RowMethods
        /\ UNCHANGED <<isolation, db, lock, fetched, effect, reply, replaced>>
    BY <1>0, <1>2 DEF Send, RowTypeOK, RowMethods
  <2>2. stage'[r] = "begin" /\ Own(r)
    BY <1>0, <2>1 DEF RowTypeOK, Own
  <2>3. ask'[r] # NotAsked
    BY <2>1 DEF NotAsked, RowMethods
  <2>4. IsAsked(r)' /\ TakesEffect(r)'
    BY <2>2, <2>3 DEF IsAsked, TakesEffect
  <2>5. Phases[r] = "new" /\ Phases'[r] = "asked"
    BY <1>0, <2>1, <2>2, ProgressMoves DEF Unanswered
  <2>6. Atomic!Ask(r)
    BY <2>1, <2>2, <2>3, <2>5, ProgressMoves DEF Atomic!Ask
  <2> QED BY <2>2, <2>4, <2>6 DEF IsAtomic, Moves
<1>3. CASE PostChecks(r)
  <2>1. /\ stage[r] = "begin" /\ stage'[r] = "checked" /\ ask[r].method = "POST" /\ Own(r)
        /\ UNCHANGED <<ask, reply, replaced, db, isolation>>
    BY <1>0, <1>3 DEF PostChecks, RowTypeOK, Own
  <2>2. IsAsked(r)' /\ TakesEffect(r)'
    BY <1>0, <2>1 DEF IsAsked, TakesEffect
  <2> QED BY <2>1, <2>2, StutterMoves DEF IsAtomic, Moves
<1>4. ASSUME stage[r] \in {"begin", "checked", "written"}, NEW s, AnswerWith(r, s), UNCHANGED <<db, isolation>>,
             \/ s \in {"refused", "databaseError"}
             \/ s = "notFound" /\ db.row = NoEntity
             \/ s = "preconditionFailed" /\ db.row # NoEntity /\ ~PreconditionHolds(r, db.row)
      PROVE  IsAtomic(r)
  <2>1. Own(r) /\ IsAsked(r)' /\ TakesEffect(r)' /\ Atomic!Answer(r, s)
    BY <1>0, <1>4, AnswerMoves
  <2>2. Phases[r] = "asked" /\ ask[r] # NotAsked
    BY <1>0, <1>4, <2>1, ProgressMoves DEF Unanswered, IsAsked
  <2>3. s = "preconditionFailed" => ~Atomic!Meets(ask[r], db.row.etag)
    BY <1>0, <1>4, <2>2, MeetsPreconditions
  <2>4. Atomic!Fail(r)
    BY <1>4, <2>1, <2>2, <2>3 DEF Atomic!Fail
  <2> QED BY <2>1, <2>4 DEF IsAtomic, Moves
<1>5. CASE Refuse(r) \/ StatementFails(r) \/ CommitChangeFails(r)
  BY <1>4, <1>5 DEF Refuse, StatementFails, CommitChangeFails
<1>6. CASE FetchAndCheck(r)
  <2>1. CASE AnswerWith(r, "notFound") \/ AnswerWith(r, "preconditionFailed")
    <3>1. AnswerWith(r, "notFound") => db.row = NoEntity
      BY <1>0, <1>6 DEF FetchAndCheck, AnswerWith, RowTypeOK
    <3>2. AnswerWith(r, "preconditionFailed") => db.row # NoEntity /\ ~PreconditionHolds(r, db.row)
      BY <1>0, <1>6 DEF FetchAndCheck, AnswerWith, RowTypeOK
    <3> QED BY <1>4, <1>6, <2>1, <3>1, <3>2 DEF FetchAndCheck
  <2>2. CASE /\ db.row # NoEntity /\ PreconditionHolds(r, db.row)
             /\ fetched' = [fetched EXCEPT ![r] = db]
             /\ stage' = [stage EXCEPT ![r] = "checked"]
             /\ UNCHANGED <<ask, seen, effect, pendingEvent, reply, replaced>>
    <3>1. /\ stage[r] = "begin" /\ stage'[r] = "checked" /\ fetched'[r] = db /\ Own(r)
          /\ UNCHANGED <<ask, reply, replaced, db, isolation>>
      BY <1>0, <1>6, <2>2 DEF FetchAndCheck, RowTypeOK, Own
    <3>2. IsAsked(r)'
      BY <1>0, <3>1 DEF IsAsked
    <3>3. TakesEffect(r)'
      BY <2>2, <3>1 DEF TakesEffect, PreconditionHolds
    <3> QED BY <3>1, <3>2, <3>3, StutterMoves DEF IsAtomic, Moves
  <2> QED BY <1>6, <2>1, <2>2 DEF FetchAndCheck
<1> QED BY <1>1, <1>2, <1>3, <1>5, <1>6

\* A statement that is not refused works on the version its transaction read,
\* and so leaves behind what the request asks of the current row.
LEMMA StatementsAreAtomic ==
  ASSUME RowInv, FeedIInv, AtomicInv, NEW r \in RowRequests,
         \/ CreateStatement(r) \/ PatchStatement(r) \/ PutStatement(r)
         \/ DeleteStatement(r) \/ StatementMisses(r)
  PROVE  IsAtomic(r)
<1>0. RowTypeOK /\ IsAsked(r) /\ RequestsAreOrderly /\ AllHeld
  BY FeedInvariants DEF RowInv, AtomicInv
<1>1. /\ stage[r] = "checked" /\ stage'[r] = "written" /\ Others(r)
      /\ UNCHANGED <<isolation, db, ask, reply, replaced>>
  BY StatementStep
<1>2. UNCHANGED fetched
  BY DEF CreateStatement, PatchStatement, PutStatement, DeleteStatement, StatementMisses,
     UpdateStatement, Wrote, Executed
<1>3. Own(r) /\ IsAsked(r)'
  BY <1>0, <1>1, <1>2 DEF Own, Others, IsAsked
<1>4. UNCHANGED Atomic!vars
  BY <1>1, <1>3, StutterMoves
<1>5. ASSUME isolation = "snapshot" PROVE Atomic!Takes(ask[r], r, db.row, effect'[r])
  <2>1. /\ ask[r] # NotAsked
        /\ ask[r].method # "POST" /\ UpToDate(r) =>
             fetched[r] = db /\ db.row # NoEntity /\ PreconditionHolds(r, db.row)
    <3>1. ask[r].method # "POST" => fetched[r] # NoVersion /\ fetched[r].row # NoEntity
      BY <1>0, <1>1 DEF RequestsAreOrderly, Orderly
    <3>2. fetched[r] # NoVersion /\ fetched[r].changes = db.changes => fetched[r] = db
      BY <1>5 DEF RowInv, ReadsAreVersions, Known
    <3>3. ask[r].method # "POST" => PreconditionHolds(r, fetched[r].row)
      BY <1>1, <1>5 DEF AtomicInv, TakesEffect
    <3> QED BY <1>0, <1>1, <1>5, <3>1, <3>2, <3>3 DEF UpToDate, IsAsked
  <2>2. ASSUME NEW row, NEW e, Wrote(r, row, e) PROVE effect'[r] = row
    BY <1>0, <2>2 DEF Wrote, RowTypeOK
  <2>3. CASE CreateStatement(r)
    BY <2>2, <2>3 DEF CreateStatement, Atomic!Takes, Atomic!Create
  <2>4. CASE PatchStatement(r)
    <3>1. effect'[r] = Updated(r) /\ ask[r].method = "PATCH" /\ ask[r].body \cap Immutable = {} /\ UpToDate(r)
      BY <2>2, <2>4 DEF PatchStatement, UpdateStatement, PatchBodyAllowed
    <3>2. fetched[r] = db /\ db.row # NoEntity /\ Atomic!Meets(ask[r], db.row.etag)
      BY <1>0, <2>1, <3>1, MeetsPreconditions
    <3> QED BY <3>1, <3>2 DEF Updated, IncrementETag, Atomic!Takes, Atomic!Change, Atomic!NextTag
  <2>5. CASE PutStatement(r)
    <3>1. effect'[r] = Replaced(r) /\ ask[r].method = "PUT" /\ UpToDate(r)
      BY <2>2, <2>5 DEF PutStatement, UpdateStatement
    <3>2. fetched[r] = db /\ db.row # NoEntity /\ Atomic!Meets(ask[r], db.row.etag)
      BY <1>0, <2>1, <3>1, MeetsPreconditions
    <3> QED BY <3>1, <3>2 DEF Replaced, IncrementETag, Atomic!Takes, Atomic!Change, Atomic!NextTag
  <2>6. CASE DeleteStatement(r)
    <3>1. effect'[r] = NoEntity /\ ask[r].method = "DELETE" /\ UpToDate(r)
      BY <2>2, <2>6 DEF DeleteStatement
    <3>2. db.row # NoEntity /\ Atomic!Meets(ask[r], db.row.etag)
      BY <1>0, <2>1, <3>1, MeetsPreconditions
    <3> QED BY <3>1, <3>2 DEF Atomic!Takes, Atomic!Change
  <2>7. CASE StatementMisses(r)
    <3>1. ask[r].method # "POST" /\ UpToDate(r) /\ db.row = NoEntity
      BY <2>7 DEF StatementMisses
    <3> QED BY <2>1, <3>1
  <2> QED BY <2>3, <2>4, <2>5, <2>6, <2>7
<1>6. isolation = "snapshot" => TakesEffect(r)'
  BY <1>1, <1>5 DEF TakesEffect
<1> QED BY <1>3, <1>4, <1>6 DEF IsAtomic, Moves

\* The commit is the moment the request takes effect.
LEMMA CommitIsAtomic ==
  ASSUME RowInv, FeedIInv, AtomicInv, NEW r \in RowRequests, CommitChange(r)
  PROVE  IsAtomic(r)
<1>0. RowTypeOK /\ IsAsked(r) /\ replaced[r] = NoStamp
  BY DEF RowInv, AtomicInv, FeedIInv, EventsAreHeld, CommitChange
<1>1. /\ stage[r] = "written" /\ stage'[r] = "committed" /\ Own(r)
      /\ UNCHANGED <<isolation, ask, effect, reply>>
  BY <1>0 DEF CommitChange, RowTypeOK, Own
<1>2. IsAsked(r)'
  BY <1>0, <1>1 DEF IsAsked
<1>3. ASSUME isolation = "snapshot" PROVE TakesEffect(r)' /\ Moves(r)
  <2>1. lock = r
    BY <1>1, <1>3 DEF FeedIInv, LockHolderTellsItsRow
  <2>2. db' = After(r) /\ replaced'[r] = Stamp(db)
    BY <1>0, <2>1 DEF CommitChange, RowTypeOK
  <2>3. Stamp(db) # NoStamp
    BY <1>0 DEF RowTypeOK, Versions, Stamp, NoStamp
  <2>4. TakesEffect(r)'
    BY <1>1, <2>2, <2>3 DEF TakesEffect
  <2>5. Phases[r] = "asked" /\ Phases'[r] = "applied"
    BY <1>0, <1>1, <2>2, <2>3, ProgressMoves
  <2>6. Atomic!Takes(ask[r], r, db.row, db'.row)
    <3>1. db'.row = effect[r]
      BY <2>2 DEF After
    <3> QED BY <1>1, <1>3, <3>1 DEF AtomicInv, TakesEffect
  <2>7. Atomic!Apply(r)
    BY <1>1, <2>5, <2>6, ProgressMoves DEF Atomic!Apply
  <2> QED BY <2>4, <2>7 DEF Moves
<1> QED BY <1>1, <1>2, <1>3 DEF IsAtomic

\* What comes after the commit only tells that it happened.
LEMMA FinishIsAtomic ==
  ASSUME RowInv, FeedIInv, AtomicInv, NEW r \in RowRequests,
         FinishCreate(r) \/ FinishDelete(r) \/ FinishUpdate(r) \/ WriteUpdateResponse(r)
  PROVE  IsAtomic(r)
<1>0. RowTypeOK /\ IsAsked(r) /\ (isolation = "snapshot" => TakesEffect(r))
  BY DEF RowInv, AtomicInv
<1>1. /\ UNCHANGED <<db, isolation>>
      /\ stage[r] = IF WriteUpdateResponse(r) THEN "recorded" ELSE "committed"
  BY DEF FinishCreate, FinishDelete, FinishUpdate, FinalizeChangeEvents, WriteUpdateResponse
<1>2. ASSUME NEW s, AnswerWith(r, s), stage[r] \in {"committed", "recorded"},
             \/ ask[r].method = "POST" /\ s = "created"
             \/ ask[r].method = "DELETE" /\ s = "deleted"
             \/ ask[r].method \in {"PATCH", "PUT"} /\ s \in {"updated", "responseError"}
      PROVE  IsAtomic(r)
  <2>1. Own(r) /\ IsAsked(r)' /\ TakesEffect(r)' /\ Atomic!Answer(r, s)
    BY <1>0, <1>1, <1>2, AnswerMoves
  <2>2. isolation = "snapshot" => Phases[r] = "applied"
    BY <1>0, <1>2, <2>1, ProgressMoves DEF TakesEffect
  <2>3. isolation = "snapshot" => Atomic!Succeed(r)
    BY <1>2, <2>1, <2>2 DEF Atomic!Succeed
  <2> QED BY <2>1, <2>3 DEF IsAtomic, Moves
<1>3. CASE FinishCreate(r) \/ FinishDelete(r)
  BY <1>2, <1>3 DEF FinishCreate, FinishDelete, FinalizeChangeEvents
<1>4. CASE WriteUpdateResponse(r)
  <2>1. stage[r] = "recorded" /\ (AnswerWith(r, "updated") \/ AnswerWith(r, "responseError"))
    BY <1>4 DEF WriteUpdateResponse
  <2> QED BY <1>0, <1>2, <2>1 DEF IsAsked
<1>5. CASE FinishUpdate(r)
  <2>1. /\ stage[r] = "committed" /\ stage'[r] = "recorded" /\ ask[r].method \in {"PATCH", "PUT"} /\ Own(r)
        /\ UNCHANGED <<ask, reply, replaced, db, isolation>>
    BY <1>0, <1>5 DEF FinishUpdate, FinalizeChangeEvents, RowTypeOK, Own
  <2>2. IsAsked(r)' /\ (isolation = "snapshot" => TakesEffect(r)')
    BY <1>0, <2>1 DEF IsAsked, TakesEffect
  <2> QED BY <2>1, <2>2, StutterMoves DEF IsAtomic, Moves
<1> QED BY <1>3, <1>4, <1>5

\* One request at a time: what the others are about to do is still what they ask.
LEMMA AtomicKeeps ==
  ASSUME RowInv, FeedIInv, AtomicInv, NEW r \in RowRequests, IsAtomic(r)
  PROVE  AtomicInv'
<1>1. Own(r) /\ isolation' = isolation
  BY DEF IsAtomic, Own
<1>2. ASSUME NEW q \in RowRequests PROVE IsAsked(q)'
  BY <1>1, <1>2 DEF IsAtomic, Own, AtomicInv, IsAsked
<1>3. ASSUME isolation = "snapshot", NEW q \in RowRequests PROVE TakesEffect(q)'
  <2>1. CASE q = r
    BY <1>3, <2>1 DEF IsAtomic
  <2>2. CASE q # r
    <3>1. /\ stage'[q] = stage[q] /\ ask'[q] = ask[q] /\ replaced'[q] = replaced[q]
          /\ effect'[q] = effect[q] /\ fetched'[q] = fetched[q]
      BY <1>1, <2>2 DEF Own
    <3>2. TakesEffect(q)
      BY <1>3 DEF AtomicInv
    <3>3. stage[q] = "written" => db' = db
      BY <1>1, <1>3, <2>2 DEF FeedIInv, LockHolderTellsItsRow, Own
    <3> QED BY <3>1, <3>2, <3>3 DEF TakesEffect, PreconditionHolds
  <2> QED BY <2>1, <2>2
<1> QED BY <1>1, <1>2, <1>3 DEF AtomicInv

\* Every step is a step of the promise, or none.
LEMMA AtomicNext ==
  ASSUME RowInv, FeedIInv, AtomicInv, [RowNext]_rowVars
  PROVE  AtomicInv' /\ [isolation = "snapshot" => Atomic!Next]_(Atomic!vars)
<1>1. ASSUME NEW r \in RowRequests, IsAtomic(r)
      PROVE  AtomicInv' /\ [isolation = "snapshot" => Atomic!Next]_(Atomic!vars)
  BY <1>1, AtomicKeeps DEF IsAtomic, Moves, Atomic!Next
<1>2. CASE UNCHANGED rowVars
  <2>1. AtomicInv'
    BY <1>2 DEF rowVars, AtomicInv, IsAsked, TakesEffect, PreconditionHolds
  <2>2. UNCHANGED Atomic!vars
    BY <1>2 DEF rowVars, Atomic!vars, Phases
  <2> QED BY <2>1, <2>2
<1> QED
  BY <1>1, <1>2, ReadersAreAtomic, StatementsAreAtomic, CommitIsAtomic, FinishIsAtomic
  DEF RowNext, FetchForDelete, FetchForPatch, FetchForPut

\* Nothing has been asked yet.
LEMMA AtomicStarts == RowInit => AtomicInv /\ Atomic!Init
<1> SUFFICES ASSUME RowInit PROVE AtomicInv /\ Atomic!Init
  OBVIOUS
<1>1. AtomicInv
  BY DEF RowInit, AtomicInv, IsAsked, TakesEffect
<1>2. db.row # NoEntity => db.row.etag = 1
  BY DEF RowInit, Absent, InitialRow
<1>3. Phases = [r \in RowRequests |-> "new"]
  BY DEF RowInit, Phases
<1> QED BY <1>1, <1>2, <1>3 DEF RowInit, Atomic!Init

\* However requests interleave and fail, on a database that refuses stale
\* statements each takes effect at most once, at its commit, on a row that meets
\* its preconditions then, and is answered a success exactly if it did
\* (entity_write.go:250-340, collection_write.go).
THEOREM WritesTakeEffectAtomically == RowSpec => WritesAreAtomic
<1>1. RowInit => FeedIInv /\ AtomicInv /\ Atomic!Init
  BY FeedStarts, AtomicStarts
<1>2. RowInv /\ FeedIInv /\ AtomicInv /\ [RowNext]_rowVars
        => FeedIInv' /\ AtomicInv' /\ [isolation = "snapshot" => Atomic!Next]_(Atomic!vars)
  BY FeedNext, AtomicNext
<1> QED BY WriteInvariance, <1>1, <1>2, PTL DEF RowSpec, WritesAreAtomic

\* A database that only knows such statements makes the handlers an atomic row.
THEOREM ImplementsAtomicRow ==
  ASSUME Isolations = {"snapshot"}
  PROVE  RowSpec => Atomic!Spec
<1>1. RowTypeOK => isolation = "snapshot"
  BY DEF RowTypeOK
<1>2. RowTypeOK /\ [isolation = "snapshot" => Atomic!Next]_(Atomic!vars) => [Atomic!Next]_(Atomic!vars)
  BY <1>1
<1> QED BY WriteTypeCorrect, WritesTakeEffectAtomically, <1>2, PTL DEF WritesAreAtomic, Atomic!Spec
=============================================================================
