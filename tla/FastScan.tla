------------------------------ MODULE FastScan ------------------------------
(***************************************************************************)
(* The compiled scan plan of internal/fastscan that replaces GORM's Find   *)
(* and First, shared by every request of a schema.  A column whose value   *)
(* it cannot scan is poisoned for a while and read through GORM; entries   *)
(* and their count are kept with separate atomic operations.  A binding    *)
(* set is private to a query, so it leaves no state behind.                *)
(***************************************************************************)
EXTENDS Integers, FiniteSets

CONSTANTS
  Columns, Scans,
  Lists,        \* the column lists clients select
  Fragile,      \* the columns that hold other values than plain ones
  Stored,       \* the values they hold
  MaxWrites

Values == {"ok", "null", "odd", "bad"}
ASSUME FastScanAssumption ==
  /\ IsFiniteSet(Columns) /\ IsFiniteSet(Scans) /\ Lists \subseteq SUBSET Columns
  /\ Fragile \subseteq Columns /\ Stored \subseteq Values /\ MaxWrites \in Nat

VARIABLES
  poisoned,     \* per column: 0, or the stamp of the time it was poisoned at
  expired,      \* the poisoned columns whose poisonRetryWindow has passed
  poisonCount,
  row,          \* per column: "ok", "null", "odd" (only GORM converts it) or "bad"
  writes,
  pc,           \* per reader: the operation it is at
  wants,        \* per reader: the selected columns
  selects,      \* per reader: the statement has an explicit column list
  todo,         \* per reader: the columns it has still to check or to poison
  stamp,        \* per reader: the entry isPoisoned loaded
  fetched,      \* per reader: the row its statement returned
  answer,       \* per reader: the values, or an error for each
  seen          \* per reader: the rows stored during the read
scanVars == <<poisoned, expired, poisonCount, row, writes, pc, wants, selects, todo, stamp, fetched, answer, seen>>
plan == <<poisoned, expired, poisonCount>>
statement == <<wants, selects, seen>>

Stamps == 0..(Cardinality(Scans) + 1)
None == [c \in {} |-> "ok"]
Failed == [c \in Columns |-> "error"]

ScanInit ==
  /\ poisoned = [c \in Columns |-> 0] /\ expired = {} /\ poisonCount = 0
  /\ row \in {t \in [Columns -> Stored \cup {"ok"}] : \A c \in Columns \ Fragile : t[c] = "ok"} /\ writes = 0
  /\ pc = [r \in Scans |-> "idle"] /\ wants = [r \in Scans |-> {}]
  /\ selects = [r \in Scans |-> FALSE] /\ todo = [r \in Scans |-> {}]
  /\ stamp = [r \in Scans |-> 0] /\ fetched = [r \in Scans |-> None]
  /\ answer = [r \in Scans |-> None] /\ seen = [r \in Scans |-> {}]

Goto(r, p) == pc' = [pc EXCEPT ![r] = p]
NextColumn(r) == CHOOSE c \in todo[r] : TRUE

-----------------------------------------------------------------------------
(* Find and First.                                                         *)

\* A read of some columns, listed or not; without a list it reads them all.
Start(r, cols, listed) ==
  /\ pc[r] = "idle"
  /\ wants' = [wants EXCEPT ![r] = cols] /\ selects' = [selects EXCEPT ![r] = listed]
  /\ seen' = [seen EXCEPT ![r] = {[c \in cols |-> row[c]]}]
  /\ Goto(r, "likely")
  /\ UNCHANGED <<plan, row, writes, todo, stamp, fetched, answer>>

\* likelyTouchesPoisoned: without a column list the count alone decides.
LikelyTouchesPoisoned(r) ==
  /\ pc[r] = "likely"
  /\ \/ poisonCount <= 0 /\ Goto(r, "rows") /\ UNCHANGED todo
     \/ poisonCount > 0 /\ ~selects[r] /\ Goto(r, "gorm") /\ UNCHANGED todo
     \/ poisonCount > 0 /\ selects[r] /\ Goto(r, "check before")
        /\ todo' = [todo EXCEPT ![r] = wants[r]]
  /\ UNCHANGED <<plan, row, writes, statement, stamp, fetched, answer>>

Rows(r) ==
  /\ pc[r] = "rows" /\ Goto(r, "any")
  /\ fetched' = [fetched EXCEPT ![r] = [c \in wants[r] |-> row[c]]]
  /\ UNCHANGED <<plan, row, writes, statement, todo, stamp, answer>>

AnyPoisoned(r) ==
  /\ pc[r] = "any"
  /\ Goto(r, IF poisonCount <= 0 THEN "scan" ELSE "check after")
  /\ todo' = [todo EXCEPT ![r] = IF poisonCount <= 0 THEN {} ELSE wants[r]]
  /\ UNCHANGED <<plan, row, writes, statement, stamp, fetched, answer>>

\* isPoisoned, the load.  A stale entry is removed by the two steps after it.
Checking(r) == pc[r] \in {"check before", "check after"}
Checked(r) == IF pc[r] \in {"check before", "expire before", "uncount before"} THEN "rows" ELSE "scan"
NeverStale(c) == FALSE
IsStale(c) == poisoned[c] # 0 /\ c \in expired
Load(r) ==
  /\ Checking(r)
  /\ \/ todo[r] = {} /\ Goto(r, Checked(r)) /\ UNCHANGED <<todo, stamp>>
     \/ /\ todo[r] # {} /\ poisoned[NextColumn(r)] = 0
        /\ todo' = [todo EXCEPT ![r] = @ \ {NextColumn(r)}] /\ UNCHANGED <<pc, stamp>>
     \/ /\ todo[r] # {} /\ poisoned[NextColumn(r)] # 0 /\ ~IsStale(NextColumn(r))
        /\ todo' = [todo EXCEPT ![r] = {}] /\ Goto(r, "gorm") /\ UNCHANGED stamp
     \/ /\ todo[r] # {} /\ IsStale(NextColumn(r))
        /\ stamp' = [stamp EXCEPT ![r] = poisoned[NextColumn(r)]]
        /\ Goto(r, IF pc[r] = "check before" THEN "expire before" ELSE "expire after") /\ UNCHANGED todo
  /\ UNCHANGED <<plan, row, writes, statement, fetched, answer>>

\* CompareAndDelete fails when another reader poisoned the column again.
CompareAndDelete(r) ==
  /\ pc[r] \in {"expire before", "expire after"}
  /\ LET c == NextColumn(r)
         before == pc[r] = "expire before" IN
     IF poisoned[c] = stamp[r]
     THEN /\ poisoned' = [poisoned EXCEPT ![c] = 0] /\ expired' = expired \ {c}
          /\ Goto(r, IF before THEN "uncount before" ELSE "uncount after") /\ UNCHANGED todo
     ELSE /\ Goto(r, IF before THEN "check before" ELSE "check after")
          /\ todo' = [todo EXCEPT ![r] = @ \ {c}] /\ UNCHANGED <<poisoned, expired>>
  /\ stamp' = [stamp EXCEPT ![r] = 0]
  /\ UNCHANGED <<poisonCount, row, writes, statement, fetched, answer>>

Uncount(r) ==
  /\ pc[r] \in {"uncount before", "uncount after"}
  /\ poisonCount' = poisonCount - 1
  /\ Goto(r, IF pc[r] = "uncount before" THEN "check before" ELSE "check after")
  /\ todo' = [todo EXCEPT ![r] = @ \ {NextColumn(r)}]
  /\ UNCHANGED <<poisoned, expired, row, writes, statement, stamp, fetched, answer>>

\* What GORM makes of a row, and what the plan makes of the values it takes.
Converted(t, cols) ==
  IF \E c \in cols : t[c] = "bad" THEN Failed
  ELSE [c \in cols |-> IF t[c] = "null" THEN "zero" ELSE "value"]
Unscannable(r) == {c \in wants[r] : fetched[r][c] \in {"odd", "bad"}}

RecordAndFail(r) ==
  Goto(r, "done") /\ answer' = [answer EXCEPT ![r] = [c \in wants[r] |-> "zero"]] /\ UNCHANGED todo

\* recordScanFailure: the error names its column, or every column is poisoned.
\* When the request was cancelled the error is returned as it is.
RecordScanFailure(r) ==
  \/ /\ Goto(r, "poison") /\ UNCHANGED answer
     /\ \E cols \in {{c} : c \in Unscannable(r)} \cup {Columns} : todo' = [todo EXCEPT ![r] = cols]
  \/ Goto(r, "done") /\ answer' = [answer EXCEPT ![r] = Failed] /\ UNCHANGED todo
ScanRow(r) ==
  /\ pc[r] = "scan"
  /\ IF Unscannable(r) = {}
     THEN Goto(r, "done") /\ answer' = [answer EXCEPT ![r] = Converted(fetched[r], wants[r])] /\ UNCHANGED todo
     ELSE RecordScanFailure(r)
  /\ fetched' = [fetched EXCEPT ![r] = None]
  /\ UNCHANGED <<plan, row, writes, statement, stamp>>

\* poisonColumn: Swap, then Add(1) if there was no entry.
CountsAlways(c) == TRUE
Counts(c) == poisoned[c] = 0
Swap(r) ==
  /\ pc[r] = "poison" /\ todo[r] # {}
  /\ LET c == NextColumn(r) IN
     /\ poisoned' = [poisoned EXCEPT ![c] = CHOOSE n \in Stamps \ {0} :
                                                \A q \in Scans : stamp[q] # n]
     /\ expired' = expired \ {c}
     /\ todo' = [todo EXCEPT ![r] = @ \ {c}]
     /\ Goto(r, IF Counts(c) THEN "count" ELSE "poison")
  /\ UNCHANGED <<poisonCount, row, writes, statement, stamp, fetched, answer>>

Count(r) ==
  /\ pc[r] = "count" /\ poisonCount' = poisonCount + 1 /\ Goto(r, "poison")
  /\ UNCHANGED <<poisoned, expired, row, writes, statement, todo, stamp, fetched, answer>>

AllPoisoned(r) ==
  /\ pc[r] = "poison" /\ todo[r] = {} /\ Goto(r, "gorm")
  /\ UNCHANGED <<plan, row, writes, statement, todo, stamp, fetched, answer>>

\* The statement again, or for the first time, through GORM.
Gorm(r) ==
  /\ pc[r] = "gorm" /\ Goto(r, "done")
  /\ answer' = [answer EXCEPT ![r] = Converted(row, wants[r])]
  /\ fetched' = [fetched EXCEPT ![r] = None]
  /\ UNCHANGED <<plan, row, writes, statement, todo, stamp>>

Return(r) ==
  /\ pc[r] = "done" /\ Goto(r, "idle")
  /\ wants' = [wants EXCEPT ![r] = {}] /\ selects' = [selects EXCEPT ![r] = FALSE]
  /\ answer' = [answer EXCEPT ![r] = None] /\ seen' = [seen EXCEPT ![r] = {}]
  /\ UNCHANGED <<plan, row, writes, todo, stamp, fetched>>

Step(r) ==
  \/ LikelyTouchesPoisoned(r) \/ Rows(r) \/ AnyPoisoned(r) \/ Load(r) \/ CompareAndDelete(r) \/ Uncount(r)
  \/ ScanRow(r) \/ Swap(r) \/ Count(r) \/ AllPoisoned(r) \/ Gorm(r) \/ Return(r)

-----------------------------------------------------------------------------
\* poisonRetryWindow passes for an entry.
Expire(c) ==
  /\ poisoned[c] # 0 /\ c \notin expired /\ expired' = expired \cup {c}
  /\ UNCHANGED <<poisoned, poisonCount, row, writes, pc, statement, todo, stamp, fetched, answer>>

\* Another request stores a value.
Write(c, v) ==
  /\ writes < MaxWrites /\ c \in Fragile /\ row[c] # v
  /\ row' = [row EXCEPT ![c] = v] /\ writes' = writes + 1
  /\ seen' = [r \in Scans |-> IF pc[r] \in {"idle", "done"} THEN seen[r] ELSE seen[r] \cup {[d \in wants[r] |-> row'[d]]}]
  /\ UNCHANGED <<plan, pc, wants, selects, todo, stamp, fetched, answer>>

ScanNext ==
  \/ \E r \in Scans : Step(r) \/ Start(r, Columns, FALSE) \/ \E cols \in Lists : Start(r, cols, TRUE)
  \/ \E c \in Columns : Expire(c) \/ \E v \in Stored : Write(c, v)

ScanSpec == ScanInit /\ [][ScanNext]_scanVars

\* A read goes on, a window passes, and whatever else they ask for, clients keep
\* asking for the lists.
FairScanSpec ==
  /\ ScanSpec
  /\ \A r \in Scans : WF_scanVars(Step(r)) /\ \A cols \in Lists : SF_scanVars(Start(r, cols, TRUE))
  /\ \A c \in Columns : WF_scanVars(Expire(c))

-----------------------------------------------------------------------------
(* Properties.                                                             *)

Entries == {c \in Columns : poisoned[c] # 0}

(* The count is exact up to the operations in flight: an entry is added    *)
(* before it is counted and removed before it is uncounted, and however    *)
(* readers interleave no entry is counted twice or uncounted for another's *)
(* (fastscan.go:87-119).  A count that stays above the entries would keep  *)
(* every read without a column list off the plan for good, one below them  *)
(* would hide a poisoned column.                                           *)
CountIsExact ==
  poisonCount = Cardinality(Entries) - Cardinality({r \in Scans : pc[r] = "count"})
                + Cardinality({r \in Scans : pc[r] \in {"uncount before", "uncount after"}})

(* The plan is invisible: a finished read that was not cancelled has the   *)
(* values GORM gives for the row as it was at one moment of the read,      *)
(* including the values only GORM converts (fastscan.go:164-244).          *)
ReadsLikeGorm ==
  \A r \in Scans : pc[r] = "done" /\ answer[r] # Failed =>
    \E t \in seen[r] : answer[r] = Converted(t, wants[r])

(* A poisoned column is given another chance: an entry does not outlive   *)
(* the values that do not scan, as long as some read names the column.     *)
(* Reads without a column list never look at the entries, so they alone    *)
(* would keep one for ever (fastscan.go:85-98, 367-386).                   *)
PoisonWearsOff ==
  \A c \in UNION Lists : []<>(poisoned[c] = 0 \/ \E d \in Columns : row[d] \in {"odd", "bad"})
-----------------------------------------------------------------------------
(* The inductive invariant behind CountIsExact and ReadsLikeGorm.          *)

Fetched == {"any", "check after", "expire after", "uncount after", "scan"}
Expiring == {"expire before", "expire after"}
Uncounting == {"uncount before", "uncount after"}
ScanSteps == Fetched \cup Expiring \cup Uncounting
               \cup {"idle", "likely", "check before", "rows", "poison", "count", "gorm", "done"}

ScanTypeOK ==
  /\ poisoned \in [Columns -> Stamps] /\ poisonCount \in Int
  /\ pc \in [Scans -> ScanSteps]
  /\ wants \in [Scans -> SUBSET Columns] /\ todo \in [Scans -> SUBSET Columns]
  /\ stamp \in [Scans -> Stamps]
  /\ DOMAIN seen = Scans /\ DOMAIN fetched = Scans /\ DOMAIN answer = Scans

\* A reader removes or uncounts an entry it has loaded, for a column at hand.
EntriesAreAtHand ==
  \A r \in Scans :
    /\ pc[r] \in Expiring \cup Uncounting => todo[r] # {}
    /\ pc[r] \in Expiring => stamp[r] # 0

\* What a reader has fetched, and what it may still fetch, was there during its
\* read.
RowsAreSeen ==
  \A r \in Scans :
    /\ pc[r] \notin {"idle", "done"} => [c \in wants[r] |-> row[c]] \in seen[r]
    /\ pc[r] \in Fetched => fetched[r] \in seen[r]

ScanInv == ScanTypeOK /\ EntriesAreAtHand /\ RowsAreSeen /\ CountIsExact /\ ReadsLikeGorm

=============================================================================
