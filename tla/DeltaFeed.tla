----------------------------- MODULE DeltaFeed -----------------------------
(***************************************************************************)
(* Change tracking end to end: the write handlers commit a change to an    *)
(* entity and record it afterwards (finalizeChangeEvents), a collection    *)
(* request reads the rows and takes its delta token afterwards             *)
(* (collectionResponseWriter), and the client polls with its token.        *)
(* Composes ChangeTracker with the table and the requests around it.       *)
(***************************************************************************)
EXTENDS ChangeTracker

VARIABLES
  committed,  \* the changes whose transaction is committed
  read,       \* per client: whether the collection request read the rows
  late        \* history, per client: changes committed since its first token

feedVars == <<historyVars, committed, read, late>>

FeedInit ==
  /\ TrackerInit
  /\ committed = {}
  /\ read = [c \in Pollers |-> FALSE]
  /\ late = [c \in Pollers |-> {}]

\* A write handler's transaction commits.
Commit(w) ==
  /\ w \notin committed
  /\ committed' = committed \cup {w}
  /\ late' = [c \in Pollers |-> IF token[c] >= 0 THEN late[c] \cup {w}
                                ELSE late[c]]
  /\ UNCHANGED <<historyVars, read>>

\* After the commit, finalizeChangeEvents or flushPendingChangeEvents calls
\* recordChange.
Record(w) ==
  /\ w \in committed
  /\ RecordInMemory(w)
  /\ UNCHANGED <<committed, read, late>>

\* The rest of RecordChange; an error it returns is only logged.
Persist(w) ==
  /\ PersistEvent(w) \/ PersistFails(w) \/ UndoRecord(w)
  /\ UNCHANGED <<committed, read, late>>

\* FetchFunc: the collection request reads the rows...
ReadRows(c) ==
  /\ ~read[c]
  /\ read' = [read EXCEPT ![c] = TRUE]
  /\ UNCHANGED <<historyVars, committed, late>>

\* ... and WriteResponse takes the token.
TakeToken(c) ==
  /\ read[c]
  /\ CurrentToken(c)
  /\ UNCHANGED <<committed, read, late>>

\* A request with $deltatoken.
Poll(c) ==
  /\ ChangesSince(c)
  /\ UNCHANGED <<committed, read, late>>

\* A crash also ends the write handlers that have committed and not yet
\* recorded, and the collection requests without a token.
CrashAndRestart ==
  /\ Reload
  /\ writer' = [w \in Changes |->
                  IF \/ writer[w] \in {"persisting", "undoing"}
                     \/ writer[w] = "idle" /\ w \in committed
                  THEN "lost" ELSE writer[w]]
  /\ read' = [c \in Pollers |-> read[c] /\ token[c] >= 0]
  /\ UNCHANGED <<committed, late>>

FeedNext ==
  \/ \E w \in Changes : Commit(w) \/ Record(w) \/ Persist(w)
  \/ \E c \in Pollers : ReadRows(c) \/ TakeToken(c) \/ Poll(c)
  \/ CrashAndRestart

FeedSpec == FeedInit /\ [][FeedNext]_feedVars

\* RecordChange runs to its end, and each client keeps polling.
FeedFairness ==
  /\ \A w \in Changes : WF_feedVars(Persist(w))
  /\ \A c \in Pollers : WF_feedVars(Poll(c))

-----------------------------------------------------------------------------
(* Properties.                                                             *)

\* A delta response never reports a change that was not committed.
OnlyCommittedIsDelivered ==
  \A c \in Pollers : \A w \in Changes : delivered[c][w] > 0 => w \in committed

\* A change committed after a client's token was issued, and recorded, has
\* been delivered or is in the next delta response.
LaterCommitIsDelivered ==
  Undisturbed =>
    \A c \in Pollers : \A w \in late[c] : writer[w] = "done" =>
      delivered[c][w] > 0 \/ w \in EventsSince(token[c])

\* What a client's delta requests bring, in an undisturbed service, is exactly
\* the changes committed and recorded since its token, each of them once.
FeedIsExact == DeliveredOnce /\ OnlyCommittedIsDelivered /\ LaterCommitIsDelivered

-----------------------------------------------------------------------------
(* The inductive invariant behind FeedIsExact.                             *)

FeedTypeOK ==
  /\ committed \subseteq Changes
  /\ read \in [Pollers -> BOOLEAN]
  /\ late \in [Pollers -> SUBSET Changes]

\* Only what a transaction has committed is recorded, logged or delivered.
OnlyCommittedIsRecorded ==
  /\ \A w \in Changes : writer[w] # "idle" => w \in committed
  /\ \A i \in 1 .. Len(events) : events[i].change \in committed
  /\ \A r \in log : r.change \in committed

\* A client without a token is owed nothing; undisturbed, its token is behind
\* the version, what it was told is behind its token, and what it was not told
\* is ahead of it.
TokensDivideTheHistory ==
  /\ \A c \in Pollers : token[c] = -1 => late[c] = {}
  /\ Undisturbed =>
       /\ \A i \in 1 .. Len(events) : writer[events[i].change] # "idle"
       /\ \A c \in Pollers :
            /\ token[c] <= version
            /\ \A w \in Changes : delivered[c][w] > 0 =>
                 /\ delivered[c][w] = 1 /\ writer[w] # "idle"
                 /\ \A i \in 1 .. Len(events) :
                      events[i].change = w => events[i].version <= token[c]
            /\ \A w \in late[c] : writer[w] \in {"persisting", "done"} =>
                 delivered[c][w] > 0 \/ w \in EventsSince(token[c])

FeedInv ==
  /\ FeedTypeOK
  /\ OnlyCommittedIsRecorded
  /\ OnlyCommittedIsDelivered
  /\ TokensDivideTheHistory

=============================================================================
