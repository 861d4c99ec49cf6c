---------------------------- MODULE SearchIndex -----------------------------
(***************************************************************************)
(* The full-text index behind $search (internal/query/fts.go): built by    *)
(* the first search, kept up to date by triggers, remembered in memory by  *)
(* the FTSManager and stored in the database.  Searches build it statement *)
(* by statement while other requests write, statements fail and the        *)
(* process restarts.                                                       *)
(***************************************************************************)
EXTENDS Integers, Sequences, FiniteSets

CONSTANTS
  Keys, Searches,
  Contents,      \* what the searchable columns of a row may hold
  Wanted,        \* the content the searches look for
  Absent,
  InitialRows,   \* the rows a fresh or reseeded table holds
  Dialects,      \* a subset of {"sqlite", "postgres"}
  MaxBuilds, MaxWrites, MaxRestarts

ASSUME SearchAssumption ==
  /\ Wanted \in Contents /\ Absent \notin Contents
  /\ InitialRows \in [Keys -> Contents \cup {Absent}]
  /\ Dialects \subseteq {"sqlite", "postgres"}
  /\ {MaxBuilds, MaxWrites, MaxRestarts} \subseteq Nat

VARIABLES
  dialect,
  rows,        \* the entity table
  table,       \* the index table exists
  index,       \* per key, the contents of its entries in the index table
  triggers,    \* the triggers on the entity table
  ftsTables,   \* the manager's note that the index is there
  at,          \* per search: "idle", "building", "populated", "built" or "memory"
  step,        \* per search: the statement of the build it runs next, or 0
  negated,     \* per search: its expression has a NOT
  answer,      \* per search: the rows returned, and those that matched in that state
  builds, writes, restarts,
  clean        \* no build met an index, another build, or a write to its table
indexVars == <<dialect, rows, table, index, triggers, ftsTables, at, step, negated, answer, builds, writes, restarts, clean>>
database == <<rows, table, index, triggers>>

NoEntries == [k \in Keys |-> <<>>]
NoAnswer == [got |-> [k \in Keys |-> 0], due |-> {}, clean |-> TRUE]
Present == {k \in Keys : rows[k] # Absent}

Entries(k) == Len(index[k])
EntriesThat(k, S) == Cardinality({i \in DOMAIN index[k] : index[k][i] \in S})

Events == {"insert", "update", "delete"}
\* createSQLiteFTSTable and createPostgresFTSTable, statement by statement.
createFTSTable ==
  IF dialect = "sqlite" THEN <<"table", "insert", "delete", "update", "populate">>
  ELSE <<"table", "drop insert", "drop update", "drop delete", "insert", "update", "delete", "populate">>
Dropped(stmt) == CASE stmt = "drop insert" -> {"insert"} [] stmt = "drop update" -> {"update"}
                   [] stmt = "drop delete" -> {"delete"} [] OTHER -> {}

IndexInit ==
  /\ dialect \in Dialects /\ rows = InitialRows
  /\ table = FALSE /\ index = NoEntries /\ triggers = {} /\ ftsTables = FALSE
  /\ at = [s \in Searches |-> "idle"] /\ step = [s \in Searches |-> 0] /\ negated = [s \in Searches |-> FALSE]
  /\ answer = [s \in Searches |-> NoAnswer]
  /\ builds = 0 /\ writes = 0 /\ restarts = 0 /\ clean = TRUE

-----------------------------------------------------------------------------
(* ApplyFTSSearch.                                                         *)

Building(s) == at[s] = "building"
AtHand(s) == createFTSTable[step[s]]
\* The build has a trigger and has not yet copied the rows.
Exposed(s) == Building(s) /\ \E t \in Events : t \in triggers

\* EnsureFTSTable looks the index up.
Begin(s) ==
  /\ at[s] = "idle"
  /\ ftsTables \/ builds < MaxBuilds
  /\ \E n \in BOOLEAN : negated' = [negated EXCEPT ![s] = n]
  /\ at' = [at EXCEPT ![s] = IF ftsTables THEN "built" ELSE "building"]
  /\ step' = [step EXCEPT ![s] = IF ftsTables THEN 0 ELSE 1]
  /\ builds' = IF ftsTables THEN builds ELSE builds + 1
  /\ clean' = (clean /\ (ftsTables \/ (~table /\ \A t \in Searches \ {s} : ~Building(t))))
  /\ UNCHANGED <<dialect, database, ftsTables, answer, writes, restarts>>

\* What the statement at a step of the build does.
Refused(stmt) ==
  \/ stmt \in triggers /\ dialect = "postgres"
  \/ stmt = "populate" /\ (~table \/ (dialect = "postgres" /\ \E k \in Present : Entries(k) > 0))

populateFTSTable(stmt) ==
  IF stmt # "populate" THEN index
  ELSE [k \in Keys |-> IF rows[k] = Absent THEN index[k] ELSE Append(index[k], rows[k])]

createFTSTriggers(stmt) == (triggers \ Dropped(stmt)) \cup ({stmt} \cap Events)

Statement(s) ==
  /\ Building(s) /\ ~Refused(AtHand(s))
  /\ LET stmt == AtHand(s) IN
     /\ table' = (table \/ stmt = "table")
     /\ triggers' = createFTSTriggers(stmt)
     /\ index' = populateFTSTable(stmt)
     /\ at' = [at EXCEPT ![s] = IF stmt = "populate" THEN "populated" ELSE @]
     /\ step' = [step EXCEPT ![s] = IF stmt = "populate" THEN 0 ELSE @ + 1]
  /\ UNCHANGED <<dialect, rows, ftsTables, negated, answer, builds, writes, restarts, clean>>

\* A statement the database refuses, or that fails: the search goes on in memory.
\* The DROP TRIGGER statements alone may fail without ending the build.
StatementFails(s) ==
  /\ Building(s)
  /\ LET ignored == Dropped(AtHand(s)) # {} IN
     /\ at' = [at EXCEPT ![s] = IF ignored THEN @ ELSE "memory"]
     /\ step' = [step EXCEPT ![s] = IF ignored THEN @ + 1 ELSE 0]
  /\ UNCHANGED <<dialect, database, ftsTables, negated, answer, builds, writes, restarts, clean>>

Mark(s) ==
  /\ at[s] = "populated"
  /\ ftsTables' = TRUE /\ at' = [at EXCEPT ![s] = "built"]
  /\ UNCHANGED <<dialect, database, step, negated, answer, builds, writes, restarts, clean>>

Suits(s, c) == (c = Wanted) # negated[s]

\* One statement: the entity table joined with the matching entries.  On SQLite
\* a search with a NOT keeps the join and filters the rows in memory.
ByIndex(s) ==
  [k \in Keys |-> IF rows[k] = Absent THEN 0
                  ELSE IF dialect = "sqlite" /\ negated[s]
                  THEN IF Suits(s, rows[k]) THEN Entries(k) ELSE 0
                  ELSE EntriesThat(k, {c \in Contents : Suits(s, c)})]
InMemory(s) == [k \in Keys |-> IF rows[k] # Absent /\ Suits(s, rows[k]) THEN 1 ELSE 0]

Answer(s) ==
  /\ at[s] \in {"built", "memory"}
  /\ answer' = [answer EXCEPT ![s] =
       [got |-> IF at[s] = "built" THEN ByIndex(s) ELSE InMemory(s),
        due |-> {k \in Present : Suits(s, rows[k])}, clean |-> clean]]
  /\ at' = [at EXCEPT ![s] = "idle"]
  /\ UNCHANGED <<dialect, database, ftsTables, step, negated, builds, writes, restarts, clean>>

-----------------------------------------------------------------------------
(* Writes of other requests, with the triggers that fire in them.          *)

TriggeredAdds(k, c) ==
  IF c = Absent \/ triggers = {} THEN index[k] ELSE Append(index[k], c)

\* The insert trigger adds an entry, the update trigger rewrites the row's
\* entries, the delete trigger removes them.
Triggered(k, c) ==
  LET event == IF rows[k] = Absent THEN "insert" ELSE IF c = Absent THEN "delete" ELSE "update"
  IN IF event \notin triggers THEN index[k]
     ELSE CASE event = "insert" -> Append(index[k], c)
            [] event = "delete" -> <<>>
            [] event = "update" -> [i \in DOMAIN index[k] |-> c]
Write(k, c) ==
  /\ writes < MaxWrites /\ rows[k] # c
  /\ triggers # {} => table
  /\ ~(dialect = "postgres" /\ rows[k] = Absent /\ "insert" \in triggers /\ Entries(k) > 0)
  /\ rows' = [rows EXCEPT ![k] = c]
  /\ index' = [index EXCEPT ![k] = Triggered(k, c)]
  /\ writes' = writes + 1
  /\ clean' = (clean /\ \A s \in Searches : ~Exposed(s))
  /\ UNCHANGED <<dialect, table, triggers, ftsTables, at, step, negated, answer, builds, restarts>>

\* A reseed drops the tables, and with them the triggers, loads the first rows
\* and calls ResetFTS, while no request runs.  Only on SQLite is the index
\* table among those dropped.
Reseed ==
  /\ \A s \in Searches : at[s] = "idle"
  /\ rows # InitialRows
  /\ rows' = InitialRows /\ triggers' = {} /\ ftsTables' = FALSE
  /\ table' = (table /\ dialect # "sqlite")
  /\ index' = IF dialect = "sqlite" THEN NoEntries ELSE index
  /\ UNCHANGED <<dialect, at, step, negated, answer, builds, writes, restarts, clean>>

\* A new process has a new FTSManager over the same database.
Restart ==
  /\ restarts < MaxRestarts
  /\ restarts' = restarts + 1 /\ ftsTables' = FALSE
  /\ at' = [s \in Searches |-> "idle"] /\ step' = [s \in Searches |-> 0]
  /\ answer' = [s \in Searches |-> NoAnswer]
  /\ UNCHANGED <<dialect, database, negated, builds, writes, clean>>

IndexNext ==
  \/ \E s \in Searches : Begin(s) \/ Statement(s) \/ StatementFails(s) \/ Mark(s) \/ Answer(s)
  \/ \E k \in Keys, c \in Contents \cup {Absent} : Write(k, c)
  \/ Reseed
  \/ Restart
IndexSpec == IndexInit /\ [][IndexNext]_indexVars

-----------------------------------------------------------------------------
(* Properties.                                                             *)

(* On SQLite no search misses a row: whatever statement of a build fails,  *)
(* whoever else builds or writes meanwhile, and after any number of        *)
(* restarts over the stored index, every row that matches is returned      *)
(* (fts.go:159-194, 352-410).                                              *)
NoMatchIsLost ==
  dialect = "sqlite" => \A s \in Searches : \A k \in answer[s].due : answer[s].got[k] > 0

(* The index is the table: as long as each build found no index and met    *)
(* neither another build nor a write between its first trigger and its     *)
(* copy of the rows, a search returns every matching row once and no       *)
(* other, on both databases, with or without NOT.  A restart, which makes  *)
(* the next build copy the rows again, ends that: nothing in fts.go empties*)
(* an index it finds, nor looks whether it is filled (fts.go:397-410).     *)
FoundExactlyOnce ==
  \A s \in Searches : answer[s].clean =>
    answer[s].got = [k \in Keys |-> IF k \in answer[s].due THEN 1 ELSE 0]

\* The two promises of the index: no row is missed, none is found twice.
IndexFindsWhatMatches == NoMatchIsLost /\ FoundExactlyOnce

-----------------------------------------------------------------------------
(* The inductive invariant.                                                *)

Stages == {"idle", "building", "populated", "built", "memory"}

IndexTypeOK ==
  /\ dialect \in {"sqlite", "postgres"} /\ rows \in [Keys -> Contents \cup {Absent}]
  /\ index \in [Keys -> Seq(Contents)] /\ triggers \subseteq Events
  /\ {table, ftsTables, clean} \subseteq BOOLEAN
  /\ at \in [Searches -> Stages] /\ negated \in [Searches -> BOOLEAN]
  /\ step \in [Searches -> Nat]
  /\ answer \in [Searches -> [got : [Keys -> Nat], due : SUBSET Keys, clean : BOOLEAN]]

\* The index can be searched, or will be once the build has marked it.
Filled(s) == at[s] \in {"populated", "built"}
Ready == ftsTables \/ \E s \in Searches : Filled(s)

\* Nothing is in a database without the index table.
NothingWithoutTable == ~table => triggers = {} /\ index = NoEntries

\* A build that no other disturbs has what its statements made.
BuildsAdvance ==
  \A s \in Searches : Building(s) =>
    /\ step[s] \in DOMAIN createFTSTable
    /\ step[s] > 1 => table
    /\ dialect = "sqlite" \/ clean =>
         \A i \in 1..(step[s] - 1) : createFTSTable[i] \in Events => createFTSTable[i] \in triggers

\* On SQLite an index that can be searched has an entry of every row as it is.
NothingIsMissing ==
  dialect = "sqlite" /\ Ready =>
    /\ triggers = Events
    /\ \A k \in Present : \E i \in DOMAIN index[k] : index[k][i] = rows[k]

\* A build that found no index is the only one, and the table is empty until it
\* copies the rows.
BuildsAlone ==
  clean => \A s \in Searches : Building(s) =>
    /\ ~Ready /\ index = NoEntries
    /\ \A t \in Searches \ {s} : ~Building(t)

\* From then on the index is the table.
IndexIsTable ==
  clean /\ Ready =>
    /\ triggers = Events
    /\ \A k \in Keys : index[k] = IF rows[k] = Absent THEN <<>> ELSE <<rows[k]>>

IndexInv == IndexTypeOK /\ NothingWithoutTable /\ BuildsAdvance /\ NothingIsMissing
              /\ BuildsAlone /\ IndexIsTable /\ IndexFindsWhatMatches
=============================================================================
