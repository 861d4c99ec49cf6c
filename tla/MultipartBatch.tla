--------------------------- MODULE MultipartBatch ---------------------------
(***************************************************************************)
(* A multipart/mixed batch request: HandleBatch, processChangeset and      *)
(* executeRequestInTransaction of internal/handlers/batch.go.              *)
(*                                                                         *)
(* Parts are executed while the body is still being read, so nothing is    *)
(* known of a part before the ones in front of it have had their effects.  *)
(* The requests of a changeset run in one transaction; their change events *)
(* are kept until it commits.  One action models one part; what the body   *)
(* holds, what a handler answers and whether Begin and Commit succeed are  *)
(* choices.  Change tracking is on, and every successful write has its     *)
(* event (EntityWrite tells when it has none).                             *)
(***************************************************************************)
EXTENDS Naturals, Sequences, FiniteSets

CONSTANTS
  ContentIDs,     \* values of the Content-ID header
  NoID,           \* no Content-ID, and a URL which is not a reference
  MaxBatchSize,   \* BatchHandler.maxBatchSize
  MaxParts        \* bound on the parts of a body, nested ones included

ASSUME MultipartAssumption ==
  /\ NoID \notin ContentIDs
  /\ MaxBatchSize \in Nat
  /\ MaxParts \in Nat

VARIABLES
  phase,       \* "start", "batch", "changeset" (inside one) or "done"
  answer,      \* the answer to the batch: 200, 400, 413, or none
  parts,       \* the number of parts read
  changesets,  \* the number of changesets begun
  responses,   \* responses of HandleBatch
  inner,       \* responses of processChangeset
  seenContentIDs,
  contentIDLocations,  \* per Content-ID: the request whose entity it names
  staged,         \* writes in the open transaction
  pendingEvents,  \* change events waiting for its commit
  log,            \* history: the requests executed so far
  durable,        \* the writes that are committed
  events,         \* the change events recorded, in order
  undone          \* history: requests answered by a failed commit alone

outer == <<phase, answer, parts, changesets, responses>>
changeset == <<inner, seenContentIDs, contentIDLocations, staged,
               pendingEvents>>
effects == <<log, durable, events, undone>>
vars == <<outer, changeset, effects>>

Methods == {"create", "modify", "read"}
IDs == ContentIDs \cup {NoID}

\* An executed request; requests are known by their index in the log.
Entry == [changeset : Nat, id : IDs, method : Methods, ref : IDs,
          target : Nat, ok : BOOLEAN]
Requests == 1 .. Len(log)
This == Len(log) + 1

\* A response belongs to a changeset (0: none) and answers a request (0: a
\* part that was not executed).
Response(c, request, status) ==
  [changeset |-> c, request |-> request, status |-> status]

NoLocations == [i \in ContentIDs |-> 0]

Init ==
  /\ phase = "start" /\ answer = "none"
  /\ parts = 0 /\ changesets = 0
  /\ responses = << >> /\ inner = << >>
  /\ seenContentIDs = {} /\ contentIDLocations = NoLocations
  /\ staged = {} /\ pendingEvents = << >>
  /\ log = << >> /\ durable = {} /\ events = << >> /\ undone = 0

-----------------------------------------------------------------------------
(* HandleBatch: the loop over the parts of the body.                       *)

\* Not a POST, no multipart type, or no boundary.
RejectBatch ==
  /\ phase = "start"
  /\ phase' = "done" /\ answer' = "badRequest"
  /\ UNCHANGED <<parts, changesets, responses, changeset, effects>>

StartBatch ==
  /\ phase = "start"
  /\ phase' = "batch"
  /\ UNCHANGED <<answer, parts, changesets, responses, changeset, effects>>

ReadPart(in) ==
  /\ phase = in
  /\ parts < MaxParts
  /\ parts' = parts + 1

Respond(r) ==
  /\ responses' = Append(responses, r)
  /\ UNCHANGED <<phase, answer, changesets, changeset>>

\* The body cannot be read further: 400, whatever was executed before.
BatchUnreadable ==
  /\ phase = "batch"
  /\ phase' = "done" /\ answer' = "badRequest"
  /\ UNCHANGED <<parts, changesets, responses, changeset, effects>>

\* A part whose Content-Type cannot be parsed, or a changeset without a
\* boundary: answered 400 without a look at the size limit.
RejectPart ==
  /\ ReadPart("batch")
  /\ Respond(Response(0, 0, "error"))
  /\ UNCHANGED effects

HasRoom == Len(responses) + 1 <= MaxBatchSize

\* One part too many: 413, whatever was executed before.
BatchTooLarge ==
  /\ ReadPart("batch")
  /\ ~HasRoom
  /\ phase' = "done" /\ answer' = "tooLarge"
  /\ UNCHANGED <<changesets, responses, changeset, effects>>

\* A part that is neither a changeset nor a request, or whose request cannot
\* be parsed.
AnswerUnparsed ==
  /\ ReadPart("batch")
  /\ HasRoom
  /\ Respond(Response(0, 0, "error"))
  /\ UNCHANGED effects

\* executeRequest: the request is served as if it had come by itself; a write
\* commits and records its change before the response is there.
ExecuteRequest ==
  \E m \in Methods, ok \in BOOLEAN :
    LET written == IF ok /\ m # "read" THEN {This} ELSE {}
    IN /\ ReadPart("batch")
       /\ HasRoom
       /\ log' = Append(log, [changeset |-> 0, id |-> NoID, method |-> m,
                              ref |-> NoID, target |-> 0, ok |-> ok])
       /\ durable' = durable \cup written
       /\ events' = IF written = {} THEN events ELSE Append(events, This)
       /\ Respond(Response(0, This, IF ok THEN "ok" ELSE "error"))
       /\ UNCHANGED undone

\* All parts are read: the responses are written.
WriteBatchResponse ==
  /\ phase = "batch"
  /\ phase' = "done" /\ answer' = "ok"
  /\ UNCHANGED <<parts, changesets, responses, changeset, effects>>

-----------------------------------------------------------------------------
(* processChangeset.                                                       *)

OpenChangesetKeepingLocations ==
  /\ ReadPart("batch")
  /\ phase' = "changeset"
  /\ changesets' = changesets + 1
  /\ inner' = << >>
  /\ seenContentIDs' = {}
  /\ staged' = {} /\ pendingEvents' = << >>
  /\ UNCHANGED <<answer, responses, contentIDLocations, effects>>

\* Begin, with a new collector of events and new maps of Content-IDs.
OpenChangeset ==
  /\ ReadPart("batch")
  /\ phase' = "changeset"
  /\ changesets' = changesets + 1
  /\ inner' = << >>
  /\ seenContentIDs' = {} /\ contentIDLocations' = NoLocations
  /\ staged' = {} /\ pendingEvents' = << >>
  /\ UNCHANGED <<answer, responses, effects>>

\* Begin fails: one response for the whole changeset.
BeginFails ==
  /\ ReadPart("batch")
  /\ Respond(Response(0, 0, "error"))
  /\ UNCHANGED effects

\* The changeset's responses go to the batch, which reads on.
LeaveChangeset(rs) ==
  /\ phase' = "batch"
  /\ responses' = responses \o rs
  /\ inner' = << >>
  /\ UNCHANGED <<answer, changesets, seenContentIDs, contentIDLocations>>

RollbackFlushing ==
  /\ staged' = {} /\ pendingEvents' = << >>
  /\ events' = events \o pendingEvents
  /\ UNCHANGED <<durable, undone>>

\* The writes and their events are dropped.
Rollback ==
  /\ staged' = {} /\ pendingEvents' = << >>
  /\ UNCHANGED <<durable, events, undone>>

\* A part of the changeset that cannot be read.
ChangesetUnreadable ==
  /\ phase = "changeset"
  /\ Rollback
  /\ LeaveChangeset(Append(inner, Response(changesets, 0, "error")))
  /\ UNCHANGED <<parts, log>>

HasCapacity == Len(responses) + Len(inner) + 1 <= MaxBatchSize

\* One request too many: the changeset is rolled back and the batch answered
\* with 413.
ChangesetTooLarge ==
  /\ ReadPart("changeset")
  /\ ~HasCapacity
  /\ Rollback
  /\ phase' = "done" /\ answer' = "tooLarge"
  /\ UNCHANGED <<changesets, responses, inner, seenContentIDs,
                 contentIDLocations, log>>

DuplicateID(id) == id \in seenContentIDs

\* A Content-ID used before in the changeset, a request that cannot be
\* parsed, or a read that is no reference: not executed.
RejectInChangeset ==
  \E id \in IDs, fault \in {"unparsed", "method", "duplicate"} :
    /\ ReadPart("changeset")
    /\ HasCapacity
    /\ DuplicateID(id) <=> fault = "duplicate"
    /\ Rollback
    /\ LeaveChangeset(Append(inner, Response(changesets, 0, "error")))
    /\ UNCHANGED log

\* resolveContentIDReference: the request whose entity the URL names, 0 for
\* a URL that is no reference or names an id without a location.
Resolved(ref) == IF ref = NoID THEN 0 ELSE contentIDLocations[ref]

\* What is not rejected: a new Content-ID, and a modification or a reference.
Admitted(id, m, ref) ==
  /\ HasCapacity
  /\ ~DuplicateID(id)
  /\ m = "read" => ref # NoID

\* The path leads to an entity set.  A reference that was not resolved still
\* begins with "$" and leads nowhere.
Routable(ref) == ref = NoID \/ Resolved(ref) # 0

\* executeRequestInTransaction: the request is served by handlers that use
\* the transaction; whether they succeed is up to them.
Dispatch(id, m, ref, ok) ==
  /\ ReadPart("changeset")
  /\ Admitted(id, m, ref)
  /\ ok => Routable(ref)
  /\ log' = Append(log, [changeset |-> changesets, id |-> id, method |-> m,
                         ref |-> ref, target |-> Resolved(ref), ok |-> ok])

\* A write in the transaction leaves its event with the collector.
Stage(m) ==
  /\ staged' = IF m = "read" THEN staged ELSE staged \cup {This}
  /\ pendingEvents' = IF m = "read" THEN pendingEvents
                      ELSE Append(pendingEvents, This)

\* The request succeeds: its write waits for the commit, and the Location of a
\* new entity is kept under its Content-ID.
RequestSucceeds ==
  \E id \in IDs, m \in Methods, ref \in IDs :
    /\ Dispatch(id, m, ref, TRUE)
    /\ inner' = Append(inner, Response(changesets, This, "ok"))
    /\ seenContentIDs' = seenContentIDs \cup ({id} \ {NoID})
    /\ contentIDLocations' =
         [i \in ContentIDs |-> IF i = id /\ m = "create" THEN This
                               ELSE contentIDLocations[i]]
    /\ Stage(m)
    /\ UNCHANGED <<phase, answer, changesets, responses, durable, events,
                   undone>>

RequestFailsGoingOn ==
  \E id \in IDs, m \in Methods, ref \in IDs :
    /\ Dispatch(id, m, ref, FALSE)
    /\ inner' = Append(inner, Response(changesets, This, "error"))
    /\ UNCHANGED <<phase, answer, changesets, responses, seenContentIDs,
                   contentIDLocations, staged, pendingEvents, durable,
                   events, undone>>

\* It fails: the transaction is rolled back and the rest of the changeset is
\* not read.  The responses of its earlier requests stay as they are.
RequestFails ==
  \E id \in IDs, m \in Methods, ref \in IDs :
    /\ Dispatch(id, m, ref, FALSE)
    /\ Rollback
    /\ LeaveChangeset(Append(inner, Response(changesets, This, "error")))

\* The changeset ends without an error: Commit, then the events are flushed.
Commit ==
  /\ phase = "changeset"
  /\ durable' = durable \cup staged
  /\ events' = events \o pendingEvents
  /\ staged' = {} /\ pendingEvents' = << >>
  /\ LeaveChangeset(inner)
  /\ UNCHANGED <<parts, log, undone>>

\* Commit fails: one response replaces those of the changeset.
CommitFails ==
  /\ phase = "changeset"
  /\ staged' = {} /\ pendingEvents' = << >>
  /\ undone' = undone + Len(inner)
  /\ LeaveChangeset(<<Response(changesets, 0, "error")>>)
  /\ UNCHANGED <<parts, log, durable, events>>

\* httptest.NewRequest panics on a method or URL it cannot parse (the query of
\* a changeset request is not escaped).  Nothing recovers: the connection is
\* dropped, and an open transaction ends with the context of the request.
NewRequestPanics ==
  /\ \/ ReadPart("batch") /\ HasRoom
     \/ ReadPart("changeset") /\ HasCapacity
  /\ Rollback
  /\ phase' = "done"
  /\ UNCHANGED <<answer, changesets, responses, inner, seenContentIDs,
                 contentIDLocations, log>>

Next ==
  \/ RejectBatch \/ StartBatch
  \/ BatchUnreadable \/ RejectPart \/ BatchTooLarge \/ AnswerUnparsed
  \/ ExecuteRequest \/ WriteBatchResponse
  \/ OpenChangeset \/ BeginFails
  \/ ChangesetUnreadable \/ ChangesetTooLarge \/ RejectInChangeset
  \/ RequestSucceeds \/ RequestFails
  \/ Commit \/ CommitFails
  \/ NewRequestPanics

Spec == Init /\ [][Next]_vars
-----------------------------------------------------------------------------
(* Properties.                                                             *)

ResponseType == [changeset : Nat, request : Nat, status : {"ok", "error"}]
IsWrite(n) == log[n].method # "read"
Increasing(s) == \A j, k \in 1 .. Len(s) : j < k => s[j] < s[k]
Elements(s) == {s[k] : k \in 1 .. Len(s)}
Of(c) == {n \in Requests : log[n].changeset = c}

\* The variables keep their types; what is staged, pending, durable, recorded
\* or named by a Content-ID is an executed request.
TypeOK ==
  /\ phase \in {"start", "batch", "changeset", "done"}
  /\ answer \in {"none", "ok", "badRequest", "tooLarge"}
  /\ parts \in 0 .. MaxParts
  /\ changesets \in Nat
  /\ responses \in Seq(ResponseType)
  /\ inner \in Seq(ResponseType)
  /\ seenContentIDs \subseteq ContentIDs
  /\ contentIDLocations \in [ContentIDs -> 0 .. Len(log)]
  /\ staged \subseteq Requests
  /\ pendingEvents \in Seq(Requests)
  /\ log \in Seq(Entry)
  /\ durable \subseteq Requests
  /\ events \in Seq(Requests)
  /\ undone \in Nat

\* A changeset takes effect as a whole: when one of its writes is committed
\* then all its requests succeeded and all its writes are committed, also
\* when a request fails, the limit is reached, the body ends early, Commit
\* fails or the handler panics.
ChangesetIsAtomic ==
  \A c \in 1 .. changesets :
    Of(c) \cap durable # {} =>
      \A n \in Of(c) : log[n].ok /\ (IsWrite(n) => n \in durable)

\* Exactly the committed writes are recorded as changes, each once and in
\* the order of execution, although those of a changeset are held back.
CommittedIsRecorded ==
  /\ durable = Elements(events)
  /\ Increasing(events)

\* A client that is told of a write's success finds it committed, unless a
\* later response of the same changeset is an error.
SuccessIsCommitted ==
  \A k \in 1 .. Len(responses) :
    LET r == responses[k]
    IN r.status = "ok" /\ IsWrite(r.request) =>
         \/ r.request \in durable
         \/ \E j \in k + 1 .. Len(responses) :
              /\ responses[j].changeset = r.changeset
              /\ responses[j].status = "error"

\* A $<Content-ID> reference leads to the entity created under that id by an
\* earlier request of the same changeset, and by no other one of it.
ReferencesStayInside ==
  \A n \in Requests : log[n].target # 0 =>
    LET m == log[n].target
    IN /\ m < n
       /\ log[m].changeset = log[n].changeset
       /\ log[m].id = log[n].ref
       /\ log[m].method = "create" /\ log[m].ok
       /\ \A k \in Of(log[n].changeset) : log[k].id = log[n].ref => k = m

\* The number of requests executed stays within maxBatchSize, counting those
\* of all changesets and rejected parts; only a failed commit, whose single
\* response stands for many requests, makes room for more.
ExecutedWithinLimit == Len(log) <= MaxBatchSize + undone
-----------------------------------------------------------------------------
(* The inductive invariant of the proofs.                                  *)

\* No request belongs to a changeset that is still to come, and references
\* occur in changesets only.
LogIsOrderly ==
  \A n \in Requests :
    /\ log[n].changeset <= changesets
    /\ log[n].target # 0 => log[n].changeset > 0 /\ log[n].ref # NoID

\* Outside a changeset no transaction is open.
NothingStaged ==
  /\ phase # "changeset" => staged = {} /\ pendingEvents = << >>
  /\ phase \in {"start", "batch"} => inner = << >>

\* The requests of the open changeset have all succeeded, its writes are
\* staged, none is committed, and each is answered as successful.
OpenIsStaged ==
  phase = "changeset" =>
    /\ changesets > 0
    /\ staged = {n \in Of(changesets) : IsWrite(n)}
    /\ \A n \in Of(changesets) : log[n].ok
    /\ \A k \in 1 .. Len(inner) :
         /\ inner[k].changeset = changesets
         /\ inner[k].request \in Of(changesets)

\* The events of the open changeset are those of its writes, in order, and
\* come after everything that is committed.
EventsWait ==
  phase = "changeset" =>
    /\ Elements(pendingEvents) = staged
    /\ Increasing(pendingEvents)
    /\ \A n \in durable, m \in Of(changesets) : n < m

\* The Content-IDs of the open changeset are the ones seen, each belongs to
\* one request, and a location is that of the request which bears the id.
IDsAreSeen ==
  phase = "changeset" =>
    /\ \A n \in Of(changesets) : log[n].id \in seenContentIDs \cup {NoID}
    /\ \A m, n \in Of(changesets) :
         log[m].id = log[n].id /\ log[m].id # NoID => m = n
    /\ \A i \in ContentIDs : contentIDLocations[i] # 0 =>
         LET m == contentIDLocations[i]
         IN /\ m \in Of(changesets)
            /\ log[m].id = i /\ log[m].method = "create" /\ log[m].ok

\* Every request executed has its response or fell to a failed commit.
RunsAreAnswered == Len(log) <= Len(responses) + Len(inner) + undone

\* A successful response is about an executed request.
SuccessIsExecuted ==
  \A k \in 1 .. Len(responses) :
    responses[k].status = "ok" => responses[k].request \in Requests

IInv ==
  /\ TypeOK
  /\ LogIsOrderly /\ NothingStaged /\ OpenIsStaged /\ EventsWait
  /\ IDsAreSeen /\ RunsAreAnswered /\ SuccessIsExecuted
  /\ ChangesetIsAtomic /\ CommittedIsRecorded /\ SuccessIsCommitted
  /\ ReferencesStayInside /\ ExecutedWithinLimit
=============================================================================
