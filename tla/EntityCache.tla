---------------------------- MODULE EntityCache ----------------------------
(***************************************************************************)
(* The full-dataset cache of one entity set: internal/cache/cache.go, read *)
(* through cacheSnapshot of internal/handlers/entity_cache.go.  POST,      *)
(* PATCH, PUT and DELETE of an entity of the set invalidate it; every      *)
(* other write that reaches rows of the set leaves it as it is.            *)
(*                                                                         *)
(* The dataset is abstracted to the number of commits it reflects.  A      *)
(* reader that finds no valid snapshot refreshes it under refreshMu; the   *)
(* snapshot pointer itself is loaded and stored without a lock, so         *)
(* Invalidate may fall anywhere inside a refresh.                          *)
(***************************************************************************)
EXTENDS Integers, FiniteSets

CONSTANTS
  Readers,     \* concurrent read requests, each repeated for ever
  Writers,     \* POST, PATCH, PUT and DELETE of an entity of the set
  QuietWriters,\* other writes that commit rows of the set and are answered
               \* without invalidating its cache: requests of a changeset, $ref,
               \* PUT of a stream or of media, and what a write of an entity of
               \* another set inserts, updates or links here
  TTL,         \* lifetime of a snapshot, in ticks
  DbMayFail    \* whether the query of a refresh may fail

ASSUME CacheAssumption ==
  /\ TTL \in Nat \ {0}
  /\ DbMayFail \in BOOLEAN
  /\ IsFiniteSet(Writers \cup QuietWriters)
  /\ Writers \cap QuietWriters = {}

VARIABLES
  db,        \* number of commits to the primary database
  writer,    \* step of each write request
  acked,     \* commits that were there when the cache was last invalidated
  snap,      \* commits the published snapshot reflects, NoSnap if nil
  age,       \* ticks since it was published, saturating at TTL
  lock,      \* refreshMu: the reader holding it, or Nobody
  reader,    \* step of each read request
  found,     \* what its Find returned
  value,     \* commits reflected by what it answered
  floor,     \* acked when it began
  \* history
  raced,     \* reads whose rows were loaded before an invalidation and are
             \* published or answered after it
  overtaken  \* whether the published snapshot was loaded so

vars == <<db, writer, acked, snap, age, lock, reader, found, value, floor,
          raced, overtaken>>
history == <<raced, overtaken>>

NoSnap == -1
Nobody == "nobody"

Init ==
  /\ db = 0
  /\ writer = [w \in Writers \cup QuietWriters |-> "idle"]
  /\ acked = 0
  /\ snap = NoSnap
  /\ age = 0
  /\ lock = Nobody
  /\ reader = [r \in Readers |-> "idle"]
  /\ found = [r \in Readers |-> NoSnap]
  /\ value = [r \in Readers |-> 0]
  /\ floor = [r \in Readers |-> 0]
  /\ raced = {} /\ overtaken = FALSE

\* Current / IsValid: published and not expired.
Valid == snap # NoSnap /\ age < TTL

-----------------------------------------------------------------------------
(* Writers.                                                                *)

CommitWrite(w) ==
  /\ writer[w] = "idle"
  /\ db' = db + 1
  /\ writer' = [writer EXCEPT ![w] = "committed"]
  /\ UNCHANGED <<acked, snap, age, lock, reader, found, value, floor, history>>

InvalidateNothing(w) ==
  /\ w \in Writers
  /\ writer[w] = "committed"
  /\ writer' = [writer EXCEPT ![w] = "answered"]
  /\ acked' = db
  /\ UNCHANGED <<db, snap, age, lock, reader, found, value, floor, history>>

\* invalidateCache after the commit, then the answer.
InvalidateAndAnswer(w) ==
  /\ w \in Writers
  /\ writer[w] = "committed"
  /\ snap' = NoSnap
  /\ age' = 0
  /\ raced' = raced \cup {r \in Readers : reader[r] = "found"}
  /\ overtaken' = FALSE
  /\ writer' = [writer EXCEPT ![w] = "answered"]
  /\ acked' = db
  /\ UNCHANGED <<db, lock, reader, found, value, floor>>

\* The handlers of a changeset carry no cache, and those of $ref, of streams
\* and of media do not call invalidateCache: the answer is all that follows.
AnswerQuietly(w) ==
  /\ w \in QuietWriters
  /\ writer[w] = "committed"
  /\ writer' = [writer EXCEPT ![w] = "answered"]
  /\ UNCHANGED <<db, acked, snap, age, lock, reader, found, value, floor,
                 history>>

-----------------------------------------------------------------------------
(* Readers: cacheSnapshot.                                                 *)

Answer(r, v) ==
  /\ value' = [value EXCEPT ![r] = v]
  /\ reader' = [reader EXCEPT ![r] = "answered"]

BeginRead(r) ==
  /\ reader[r] = "idle"
  /\ floor' = [floor EXCEPT ![r] = acked]
  /\ reader' = [reader EXCEPT ![r] = "looking"]
  /\ UNCHANGED <<db, writer, acked, snap, age, lock, found, value, history>>

\* Current() hits.
ReadSnapshot(r) ==
  /\ reader[r] \in {"looking", "refreshed"}
  /\ Valid
  /\ Answer(r, snap)
  /\ raced' = IF overtaken THEN raced \cup {r} ELSE raced
  /\ UNCHANGED <<db, writer, acked, snap, age, lock, found, floor, overtaken>>

\* Current() misses: Refresh waits for the mutex...
NeedRefresh(r) ==
  /\ reader[r] = "looking"
  /\ ~Valid
  /\ reader' = [reader EXCEPT ![r] = "waiting"]
  /\ UNCHANGED <<db, writer, acked, snap, age, lock, found, value, floor,
                 history>>

LockRefresh(r) ==
  /\ reader[r] = "waiting"
  /\ lock = Nobody
  /\ lock' = r
  /\ reader' = [reader EXCEPT ![r] = "locked"]
  /\ UNCHANGED <<db, writer, acked, snap, age, found, value, floor, history>>

\* ... reuses the result of another refresh...
ReuseRefresh(r) ==
  /\ reader[r] = "locked"
  /\ Valid
  /\ lock' = Nobody
  /\ reader' = [reader EXCEPT ![r] = "refreshed"]
  /\ UNCHANGED <<db, writer, acked, snap, age, found, value, floor, history>>

\* ... or loads the dataset...
FindAll(r) ==
  /\ reader[r] = "locked"
  /\ ~Valid
  /\ found' = [found EXCEPT ![r] = db]
  /\ reader' = [reader EXCEPT ![r] = "found"]
  /\ UNCHANGED <<db, writer, acked, snap, age, lock, value, floor, history>>

FindFailsKeepingLock(r) ==
  /\ DbMayFail
  /\ reader[r] = "locked"
  /\ ~Valid
  /\ reader' = [reader EXCEPT ![r] = "fallback"]
  /\ UNCHANGED <<db, writer, acked, snap, age, lock, found, value, floor,
                 history>>

\* ... which may fail: the read falls back to the database.
FindFails(r) ==
  /\ DbMayFail
  /\ reader[r] = "locked"
  /\ ~Valid
  /\ lock' = Nobody
  /\ reader' = [reader EXCEPT ![r] = "fallback"]
  /\ UNCHANGED <<db, writer, acked, snap, age, found, value, floor, history>>

\* The snapshot is stored whatever happened since the load, its lifetime
\* starting now, and the mutex is released.
StoreSnapshot(r) ==
  /\ reader[r] = "found"
  /\ snap' = found[r]
  /\ age' = 0
  /\ lock' = Nobody
  /\ reader' = [reader EXCEPT ![r] = "refreshed"]
  /\ overtaken' = (r \in raced)
  /\ raced' = raced \ {r}
  /\ UNCHANGED <<db, writer, acked, found, value, floor>>

\* The second Current() misses because the snapshot was invalidated or
\* expired meanwhile: the read falls back to the database.
MissAgain(r) ==
  /\ reader[r] = "refreshed"
  /\ ~Valid
  /\ reader' = [reader EXCEPT ![r] = "fallback"]
  /\ UNCHANGED <<db, writer, acked, snap, age, lock, found, value, floor,
                 history>>

ReadDatabase(r) ==
  /\ reader[r] = "fallback"
  /\ Answer(r, db)
  /\ UNCHANGED <<db, writer, acked, snap, age, lock, found, floor, history>>

NextRead(r) ==
  /\ reader[r] = "answered"
  /\ reader' = [reader EXCEPT ![r] = "idle"]
  /\ found' = [found EXCEPT ![r] = NoSnap]
  /\ value' = [value EXCEPT ![r] = 0]
  /\ floor' = [floor EXCEPT ![r] = 0]
  /\ raced' = raced \ {r}
  /\ UNCHANGED <<db, writer, acked, snap, age, lock, overtaken>>

\* Time passes for the published snapshot.
Tick ==
  /\ snap # NoSnap /\ age < TTL
  /\ age' = age + 1
  /\ UNCHANGED <<db, writer, acked, snap, lock, reader, found, value, floor,
                 history>>

ReaderStep(r) ==
  \/ BeginRead(r) \/ ReadSnapshot(r) \/ NeedRefresh(r) \/ LockRefresh(r)
  \/ ReuseRefresh(r) \/ FindAll(r) \/ FindFails(r) \/ StoreSnapshot(r)
  \/ MissAgain(r) \/ ReadDatabase(r) \/ NextRead(r)

Next ==
  \/ \E w \in Writers \cup QuietWriters : CommitWrite(w)
  \/ \E w \in Writers : InvalidateAndAnswer(w)
  \/ \E w \in QuietWriters : AnswerQuietly(w)
  \/ \E r \in Readers : ReaderStep(r)
  \/ Tick

Spec == Init /\ [][Next]_vars

(***************************************************************************)
(* Fairness: a request that began is carried through (the mutex is handed  *)
(* to every waiter in the end), clients keep reading and time passes.      *)
(***************************************************************************)
FairSpec ==
  /\ Spec
  /\ \A r \in Readers : WF_vars(ReaderStep(r)) /\ SF_vars(LockRefresh(r))
  /\ \A w \in Writers : WF_vars(InvalidateAndAnswer(w))
  /\ WF_vars(Tick)

-----------------------------------------------------------------------------
(* Properties.                                                             *)

ReaderSteps == {"idle", "looking", "waiting", "locked", "found", "refreshed",
                "fallback", "answered"}

\* The database, the snapshot, the mutex and the requests keep their types.
TypeOK ==
  /\ db \in Nat
  /\ writer \in [Writers \cup QuietWriters -> {"idle", "committed", "answered"}]
  /\ acked \in 0 .. db
  /\ snap \in Nat \cup {NoSnap}
  /\ age \in 0 .. TTL
  /\ lock \in Readers \cup {Nobody}
  /\ reader \in [Readers -> ReaderSteps]
  /\ found \in [Readers -> Nat \cup {NoSnap}]
  /\ value \in [Readers -> Nat]
  /\ floor \in [Readers -> Nat]
  /\ raced \subseteq Readers /\ overtaken \in BOOLEAN

\* Whatever other writes run beside it, a read reflects all that was committed
\* when the cache was last invalidated before it began, and so every POST, PATCH,
\* PUT and DELETE of an entity answered by then.  The exception are the rows a
\* refresh had loaded before an invalidation and published after it.
FreshUnlessRaced ==
  \A r \in Readers \ raced : reader[r] = "answered" => value[r] >= floor[r]

\* The snapshot, the mutex and the requests keep their types, and reads are
\* fresh.
SnapshotsAreFresh == TypeOK /\ FreshUnlessRaced

\* The caching guide says that the cache is invalidated whenever a write
\* succeeds: when the last write under way is answered, readers are not served,
\* from a snapshot that has not expired, rows older than it.
WritesAreSeen ==
  [][\A w \in Writers \cup QuietWriters :
       /\ writer[w] = "committed" /\ writer'[w] = "answered"
       /\ \A o \in Writers \cup QuietWriters : writer'[o] # "committed"
       => (Valid' => snap' = db')]_vars

\* Whatever invalidations are lost, the lifetime of the snapshots brings
\* every reader up to date once the writes are over.
StalenessIsTransient ==
  <>[](\A r \in Readers : reader[r] = "answered" => value[r] = db)

\* Every read that began is answered.
ReadsAreAnswered ==
  \A r \in Readers : reader[r] = "looking" ~> reader[r] = "answered"

\* A cached entity set serves every read, and serves the current rows once the
\* writes are over: a refresh that fails or was raced holds nobody up for good.
ReadersCatchUp == StalenessIsTransient /\ ReadsAreAnswered

-----------------------------------------------------------------------------
(* The inductive invariant behind SnapshotsAreFresh.                       *)

\* What is published, what a refresh has loaded and what was answered are not
\* behind the last invalidation (for an answer, the last before it began), unless
\* they were loaded before it.
NothingIsBehind ==
  /\ snap # NoSnap /\ ~overtaken => snap >= acked
  /\ \A r \in Readers \ raced : reader[r] = "found" => found[r] >= acked
  /\ FreshUnlessRaced

CacheInv ==
  /\ TypeOK
  /\ \A r \in Readers : floor[r] <= acked
  /\ NothingIsBehind

=============================================================================
