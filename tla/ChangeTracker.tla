--------------------------- MODULE ChangeTracker ---------------------------
(***************************************************************************)
(* The change history of one entity set: internal/trackchanges/tracker.go. *)
(*                                                                         *)
(* RecordChange assigns a version and appends the event under the mutex,   *)
(* then - in a persistent tracker - inserts a row into _odata_change_log   *)
(* outside it, and takes the version back when that fails.  Delta clients  *)
(* obtain a token (CurrentToken) and ask for what happened since           *)
(* (ChangesSince).  A crash loses the memory; NewTrackerWithDB reloads it. *)
(***************************************************************************)
EXTENDS Integers, Sequences, FiniteSets

CONSTANTS
  Changes,      \* the changes that are recorded, one RecordChange each
  Pollers,      \* delta clients
  Persistent,   \* NewTrackerWithDB rather than NewTracker
  LogMayFail,    \* whether an insert into the log may fail
  MaxReloads    \* bound on the number of restarts

ASSUME TrackerAssumption ==
  /\ Persistent \in BOOLEAN
  /\ LogMayFail \in BOOLEAN
  /\ MaxReloads \in Nat

VARIABLES
  version,      \* entityHistory.Version
  events,       \* entityHistory.Events
  log,          \* rows of _odata_change_log
  writer,       \* step of each RecordChange
  assigned,     \* the event each RecordChange built
  token,        \* version in the delta token each client holds, -1 if none
  owed,         \* history: changes recorded since a client's first token
  delivered,    \* history: how often each change was delivered (saturates)
  reloads       \* number of restarts so far

trackerVars == <<version, events, log, writer, assigned>>
pollerVars  == <<token, owed, delivered>>
historyVars == <<trackerVars, pollerVars, reloads>>

Event(v, w) == [version |-> v, change |-> w]
NoEvent == [version |-> 0, change |-> "none"]

TrackerInit ==
  /\ version = 0
  /\ events = << >>
  /\ log = {}
  /\ writer = [w \in Changes |-> "idle"]
  /\ assigned = [w \in Changes |-> NoEvent]
  /\ token = [c \in Pollers |-> -1]
  /\ owed = [c \in Pollers |-> {}]
  /\ delivered = [c \in Pollers |-> [w \in Changes |-> 0]]
  /\ reloads = 0

-----------------------------------------------------------------------------
(* RecordChange.                                                           *)

\* Under the mutex: next version, event appended.
RecordInMemory(w) ==
  /\ writer[w] = "idle"
  /\ version' = version + 1
  /\ events' = Append(events, Event(version', w))
  /\ assigned' = [assigned EXCEPT ![w] = Event(version', w)]
  /\ owed' = [c \in Pollers |-> IF token[c] >= 0 THEN owed[c] \cup {w}
                                ELSE owed[c]]
  /\ writer' = [writer EXCEPT ![w] = IF Persistent THEN "persisting"
                                     ELSE "done"]
  /\ UNCHANGED <<log, token, delivered, reloads>>

\* persistEvent inserts the row; there is no unique index on the version.
PersistEvent(w) ==
  /\ writer[w] = "persisting"
  /\ log' = log \cup {assigned[w]}
  /\ writer' = [writer EXCEPT ![w] = "done"]
  /\ UNCHANGED <<version, events, assigned, pollerVars, reloads>>

\* The insert fails.
PersistFails(w) ==
  /\ LogMayFail
  /\ writer[w] = "persisting"
  /\ writer' = [writer EXCEPT ![w] = "undoing"]
  /\ UNCHANGED <<version, events, log, assigned, pollerVars, reloads>>

\* Under the mutex again: one version back, and the last event - whosever it
\* is by now - is dropped.
UndoRecord(w) ==
  /\ writer[w] = "undoing"
  /\ version' = version - 1
  /\ events' = IF events = << >> THEN events
               ELSE SubSeq(events, 1, Len(events) - 1)
  /\ writer' = [writer EXCEPT ![w] = "failed"]
  /\ UNCHANGED <<log, assigned, pollerVars, reloads>>

-----------------------------------------------------------------------------
(* Delta clients.                                                          *)

\* A collection request with Prefer: odata.track-changes gets the current
\* version as its token.
CurrentToken(c) ==
  /\ token[c] = -1
  /\ token' = [token EXCEPT ![c] = version]
  /\ UNCHANGED <<trackerVars, owed, delivered, reloads>>

EventsSince(v) == {events[i].change :
                     i \in {k \in 1 .. Len(events) : events[k].version > v}}

ChangesSinceInclusive(c) ==
  /\ token[c] >= 0
  /\ delivered' = [delivered EXCEPT ![c] =
       [w \in Changes |-> IF w \in EventsSince(token[c] - 1) /\ @[w] < 2
                          THEN @[w] + 1 ELSE @[w]]]
  /\ token' = [token EXCEPT ![c] = version]
  /\ UNCHANGED <<trackerVars, owed, reloads>>

ChangesSinceSkippingOne(c) ==
  /\ token[c] >= 0
  /\ token' = [token EXCEPT ![c] = version + 1]
  /\ delivered' = [delivered EXCEPT ![c] =
       [w \in Changes |-> IF w \in EventsSince(token[c]) /\ @[w] < 2
                          THEN @[w] + 1 ELSE @[w]]]
  /\ UNCHANGED <<trackerVars, owed, reloads>>

\* ChangesSince, under the read lock: the events with a larger version, and
\* the current version as the next token.
ChangesSince(c) ==
  /\ token[c] >= 0
  /\ delivered' = [delivered EXCEPT ![c] =
       [w \in Changes |-> IF w \in EventsSince(token[c]) /\ @[w] < 2
                          THEN @[w] + 1 ELSE @[w]]]
  /\ token' = [token EXCEPT ![c] = version]
  /\ UNCHANGED <<trackerVars, owed, reloads>>

-----------------------------------------------------------------------------
(* Crash and restart.                                                      *)

CountOfRows(rows) == Cardinality(rows)

MaxVersion(rows) ==
  IF rows = {} THEN 0
  ELSE CHOOSE v \in {r.version : r \in rows} : \A r \in rows : r.version <= v

\* The memory is lost, and loadFromDatabase rebuilds it in version order
\* (rows with equal versions in any order).
Reload ==
  /\ reloads < MaxReloads
  /\ reloads' = reloads + 1
  /\ version' = MaxVersion(log)
  /\ \E s \in [1 .. Cardinality(log) -> log] :
       /\ \A i, k \in DOMAIN s : i < k => s[i] # s[k]
                                          /\ s[i].version <= s[k].version
       /\ events' = s
  /\ UNCHANGED <<log, assigned, pollerVars>>

\* The RecordChange calls in flight end with the process.
Restart ==
  /\ Reload
  /\ writer' = [w \in Changes |->
                  IF writer[w] \in {"persisting", "undoing"} THEN "lost"
                  ELSE writer[w]]

TrackerNext ==
  \/ \E w \in Changes : RecordInMemory(w) \/ PersistEvent(w)
                        \/ PersistFails(w) \/ UndoRecord(w)
  \/ \E c \in Pollers : CurrentToken(c) \/ ChangesSince(c)
  \/ Restart

TrackerSpec == TrackerInit /\ [][TrackerNext]_historyVars

-----------------------------------------------------------------------------
(* Properties.                                                             *)

WriterSteps == {"idle", "persisting", "undoing", "done", "failed", "lost"}
EventType == [version : Int, change : Changes]

\* The history, the log, the tokens and the writers keep their types.
TrackerTypeOK ==
  /\ version \in Nat
  /\ events \in Seq(EventType)
  /\ log \subseteq EventType
  /\ writer \in [Changes -> WriterSteps]
  /\ assigned \in [Changes -> EventType \cup {NoEvent}]
  /\ token \in [Pollers -> Nat \cup {-1}]
  /\ owed \in [Pollers -> SUBSET Changes]
  /\ delivered \in [Pollers -> [Changes -> 0 .. 2]]
  /\ reloads \in 0 .. MaxReloads

InHistory(w) == \E i \in 1 .. Len(events) : events[i].change = w

\* No insert into the log has failed so far.
NoInsertFailed == \A w \in Changes : writer[w] \notin {"undoing", "failed"}

\* Neither a restart nor a failing insert so far.
Undisturbed == reloads = 0 /\ NoInsertFailed

\* Once RecordChange has returned, its row is in the log of a persistent
\* tracker, whatever other calls took back meanwhile; and unless an insert
\* failed the change is in the history, also one rebuilt from the log (a
\* tracker without a log starts again from nothing).
ReturnedIsDurable ==
  \A w \in Changes : writer[w] = "done" =>
    /\ Persistent => assigned[w] \in log
    /\ NoInsertFailed /\ (Persistent \/ reloads = 0) => InHistory(w)

\* However concurrent calls record and take back, the version counts the
\* events of the history until a restart: a token never points past it.
VersionCountsEvents == reloads = 0 => version = Len(events)

\* No two changes in the history share a version, across restarts and
\* crashed calls: a delta token means one point in the history.
VersionsAreUnique ==
  NoInsertFailed =>
    \A i, k \in 1 .. Len(events) :
      events[i].version = events[k].version => i = k

\* However calls of RecordChange interleave, fail and crash, the history stays
\* one sequence of versions that loses nothing that was acknowledged.
HistoryIsSound == TrackerTypeOK /\ ReturnedIsDurable /\ VersionCountsEvents /\ VersionsAreUnique

\* No change is delivered to a client twice.
DeliveredOnce ==
  Undisturbed => \A c \in Pollers : \A w \in Changes : delivered[c][w] <= 1

\* A change recorded after a client's first token is eventually delivered to
\* it.
OwedIsDelivered ==
  \A c \in Pollers : \A w \in Changes :
    w \in owed[c] ~> delivered[c][w] > 0 \/ ~Undisturbed

-----------------------------------------------------------------------------
(* The inductive invariant behind HistoryIsSound.                          *)

\* The calls that may still take their version back.
InFlight == {w \in Changes : writer[w] \in {"persisting", "undoing"}}

\* The version pays for every call that may take it back: it never gets
\* negative.
VersionCoversCalls ==
  IsFiniteSet(InFlight) /\ Cardinality(InFlight) <= version

\* A call that has its version keeps it, for its own change.
CallsKeepTheirEvent ==
  \A w \in Changes : writer[w] \in {"persisting", "undoing", "done"} =>
    assigned[w] \in EventType /\ assigned[w].change = w /\ assigned[w].version >= 1

\* The log is what calls inserted one by one: finite, with a largest version.
LogIsBounded ==
  /\ IsFiniteSet(log)
  /\ \A r \in log : r.version >= 1
  /\ log # {} => \E r \in log : \A q \in log : q.version <= r.version

\* Until a version is taken back, versions are given once: to the rows, to the
\* history and to the calls that have not inserted theirs, all up to the
\* current one.
VersionsAreGivenOnce ==
  (\A w \in Changes : writer[w] # "failed") =>
    /\ \A i \in 1 .. Len(events) : events[i].version <= version
    /\ \A i, k \in 1 .. Len(events) : events[i].version = events[k].version => i = k
    /\ \A r \in log : r.version <= version
    /\ \A r, q \in log : r.version = q.version => r = q
    /\ \A w \in InFlight :
         /\ assigned[w].version <= version
         /\ \A r \in log : r.version # assigned[w].version
         /\ \A x \in InFlight : assigned[x].version = assigned[w].version => x = w

\* A change is in the history before its row is in the log.
RecordedIsInHistory ==
  NoInsertFailed /\ (Persistent \/ reloads = 0) =>
    \A w \in Changes : writer[w] \in {"persisting", "done"} => InHistory(w)

TrackerInv ==
  /\ TrackerTypeOK
  /\ VersionCoversCalls
  /\ CallsKeepTheirEvent
  /\ LogIsBounded
  /\ VersionsAreGivenOnce
  /\ RecordedIsInHistory
  /\ ReturnedIsDurable
  /\ VersionCountsEvents

=============================================================================
