--------------------------- MODULE ReadPath_proofs ---------------------------
(***************************************************************************)
(* Proofs about what stands between a read and the database: the snapshots *)
(* of a cached entity set (EntityCache), the scan plan (FastScan), the     *)
(* statements of an $expand (ExpandTree) and the options of a query string *)
(* (QueryOptions), for every set of readers, writers, columns and rows,    *)
(* every tree of options, every query string, every lifetime of a          *)
(* snapshot, every size of a batch and with or without failing queries.    *)
(***************************************************************************)
EXTENDS EntityCache, FastScan, ExpandTree, QueryOptions, FiniteSetTheorems, SequenceTheorems, TLAPS

(***************************************************************************)
(* The cache.                                                              *)
(***************************************************************************)

\* Without a snapshot and without a request nothing is behind.
LEMMA CacheInit == Init => CacheInv
<1> SUFFICES ASSUME Init PROVE CacheInv
  OBVIOUS
<1> USE CacheAssumption DEF Init
<1>1. TypeOK
  <2>1. raced \subseteq Readers /\ overtaken \in BOOLEAN
    OBVIOUS
  <2>2. db \in Nat /\ acked \in 0 .. db /\ snap \in Nat \cup {NoSnap} /\ age \in 0 .. TTL
    BY DEF NoSnap
  <2>3. /\ writer \in [Writers \cup QuietWriters -> {"idle", "committed", "answered"}]
        /\ reader \in [Readers -> ReaderSteps] /\ lock \in Readers \cup {Nobody}
    BY DEF ReaderSteps
  <2>4. /\ found \in [Readers -> Nat \cup {NoSnap}]
        /\ value \in [Readers -> Nat] /\ floor \in [Readers -> Nat]
    OBVIOUS
  <2> QED BY <2>1, <2>2, <2>3, <2>4 DEF TypeOK
<1>2. NothingIsBehind /\ \A r \in Readers : floor[r] <= acked
  BY DEF NothingIsBehind, FreshUnlessRaced
<1> QED BY <1>1, <1>2 DEF CacheInv

\* A commit promises nothing until the cache is invalidated.
LEMMA CacheCommits ==
  ASSUME CacheInv, NEW w \in Writers \cup QuietWriters, CommitWrite(w)
  PROVE  CacheInv'
<1> USE DEF CommitWrite, history
<1>1. TypeOK'
  BY DEF CacheInv, TypeOK
<1>2. NothingIsBehind'
  BY DEF CacheInv, NothingIsBehind, FreshUnlessRaced
<1> QED BY <1>1, <1>2 DEF CacheInv

\* An invalidation clears the snapshot and overtakes the refreshes that have
\* loaded the dataset by then; what was answered before keeps its floor.
LEMMA CacheInvalidates ==
  ASSUME CacheInv, NEW w \in Writers, InvalidateAndAnswer(w)
  PROVE  CacheInv'
<1> USE DEF InvalidateAndAnswer
<1>1. TypeOK'
  <2>1. raced' \subseteq Readers /\ overtaken' \in BOOLEAN
    BY DEF CacheInv, TypeOK
  <2> QED BY <2>1, CacheAssumption DEF CacheInv, TypeOK
<1>2. \A r \in Readers : floor'[r] <= acked'
  BY DEF CacheInv, TypeOK
<1>3. \A r \in Readers \ raced' : r \notin raced /\ reader'[r] # "found"
  OBVIOUS
<1>4. NothingIsBehind'
  BY <1>3 DEF CacheInv, NothingIsBehind, FreshUnlessRaced
<1> QED BY <1>1, <1>2, <1>4 DEF CacheInv

\* A write that is answered quietly moves nothing a read depends on.
LEMMA CacheAnswersQuietly ==
  ASSUME CacheInv, NEW w \in QuietWriters, AnswerQuietly(w)
  PROVE  CacheInv'
<1> USE DEF AnswerQuietly, history
<1>1. TypeOK'
  BY DEF CacheInv, TypeOK
<1>2. NothingIsBehind'
  BY DEF CacheInv, NothingIsBehind, FreshUnlessRaced
<1> QED BY <1>1, <1>2 DEF CacheInv

\* A step of a reader: what it publishes or answers is not behind what it read.
LEMMA CacheIsRead ==
  ASSUME CacheInv, NEW r \in Readers, ReaderStep(r)
  PROVE  CacheInv'
<1>0. TypeOK /\ NothingIsBehind /\ \A q \in Readers : floor[q] <= acked
  BY DEF CacheInv
<1>1. UNCHANGED <<db, writer, acked>>
  BY DEF ReaderStep, BeginRead, ReadSnapshot, NeedRefresh, LockRefresh, ReuseRefresh, FindAll,
     FindFails, StoreSnapshot, MissAgain, ReadDatabase, NextRead
<1> USE DEF TypeOK, history
<1>3. CASE BeginRead(r)
  BY <1>0, <1>1, <1>3 DEF BeginRead, CacheInv, NothingIsBehind, FreshUnlessRaced, ReaderSteps
<1>4. CASE ReadSnapshot(r)
  <2>1. /\ value' = [value EXCEPT ![r] = snap] /\ reader' = [reader EXCEPT ![r] = "answered"]
        /\ UNCHANGED <<snap, age, lock, found, floor, overtaken>> /\ snap # NoSnap
        /\ raced \subseteq raced' /\ raced' \subseteq raced \cup {r} /\ (overtaken => r \in raced')
    BY <1>4 DEF ReadSnapshot, Answer, Valid
  <2>2. TypeOK'
    BY <1>0, <1>1, <2>1 DEF ReaderSteps
  <2>3. r \notin raced' => value'[r] >= floor[r]
    BY <1>0, <2>1 DEF NothingIsBehind
  <2>4. NothingIsBehind'
    BY <1>0, <1>1, <2>1, <2>3 DEF NothingIsBehind, FreshUnlessRaced
  <2> QED BY <1>0, <1>1, <2>1, <2>2, <2>4 DEF CacheInv
<1>5. CASE NeedRefresh(r) \/ LockRefresh(r) \/ ReuseRefresh(r) \/ FindFails(r) \/ MissAgain(r)
  <2>1. /\ UNCHANGED <<snap, age, found, value, floor, raced, overtaken>> /\ lock' \in {lock, r, Nobody}
        /\ \E s \in {"waiting", "locked", "refreshed", "fallback"} : reader' = [reader EXCEPT ![r] = s]
    BY <1>5 DEF NeedRefresh, LockRefresh, ReuseRefresh, FindFails, MissAgain
  <2>2. PICK s \in {"waiting", "locked", "refreshed", "fallback"} : reader' = [reader EXCEPT ![r] = s]
    BY <2>1
  <2>3. TypeOK'
    BY <1>0, <1>1, <2>1, <2>2 DEF ReaderSteps
  <2>4. NothingIsBehind'
    BY <1>0, <1>1, <2>1, <2>2 DEF NothingIsBehind, FreshUnlessRaced
  <2> QED BY <1>0, <1>1, <2>1, <2>3, <2>4 DEF CacheInv
<1>6. CASE FindAll(r)
  <2>1. TypeOK'
    BY <1>0, <1>1, <1>6 DEF FindAll, ReaderSteps
  <2>2. NothingIsBehind'
    BY <1>0, <1>1, <1>6 DEF FindAll, NothingIsBehind, FreshUnlessRaced
  <2> QED BY <1>0, <1>1, <1>6, <2>1, <2>2 DEF FindAll, CacheInv
<1>7. CASE StoreSnapshot(r)
  <2>1. TypeOK'
    BY <1>0, <1>1, <1>7, CacheAssumption DEF StoreSnapshot, ReaderSteps
  <2>2. ~overtaken' => snap' >= acked'
    BY <1>0, <1>1, <1>7 DEF StoreSnapshot, NothingIsBehind
  <2>3. \A q \in Readers \ raced' : q \notin raced \/ (q = r /\ reader'[q] = "refreshed")
    BY <1>0, <1>7 DEF StoreSnapshot
  <2>4. NothingIsBehind'
    BY <1>0, <1>1, <1>7, <2>2, <2>3 DEF StoreSnapshot, NothingIsBehind, FreshUnlessRaced
  <2> QED BY <1>0, <1>1, <1>7, <2>1, <2>4 DEF StoreSnapshot, CacheInv
<1>8. CASE ReadDatabase(r)
  <2>1. value' = [value EXCEPT ![r] = db] /\ reader' = [reader EXCEPT ![r] = "answered"]
        /\ UNCHANGED <<snap, age, lock, found, floor, raced, overtaken>>
    BY <1>8 DEF ReadDatabase, Answer
  <2>2. TypeOK'
    BY <1>0, <1>1, <2>1 DEF ReaderSteps
  <2>3. NothingIsBehind'
    BY <1>0, <1>1, <2>1 DEF NothingIsBehind, FreshUnlessRaced
  <2> QED BY <1>0, <1>1, <2>1, <2>2, <2>3 DEF CacheInv
<1>9. CASE NextRead(r)
  <2>1. TypeOK'
    BY <1>0, <1>1, <1>9 DEF NextRead, ReaderSteps
  <2>2. \A q \in Readers \ raced' : q \notin raced \/ (q = r /\ reader'[q] = "idle")
    BY <1>0, <1>9 DEF NextRead
  <2>3. NothingIsBehind'
    BY <1>0, <1>1, <1>9, <2>2 DEF NextRead, NothingIsBehind, FreshUnlessRaced
  <2> QED BY <1>0, <1>1, <1>9, <2>1, <2>3 DEF NextRead, CacheInv
<1> QED BY <1>3, <1>4, <1>5, <1>6, <1>7, <1>8, <1>9 DEF ReaderStep

\* Every step of the cache, its readers and its writers keeps the invariant.
LEMMA CacheNext == CacheInv /\ [Next]_vars => CacheInv'
<1> SUFFICES ASSUME CacheInv, [Next]_vars PROVE CacheInv'
  OBVIOUS
<1>1. CASE Tick
  <2> USE DEF history
  <2>1. TypeOK'
    BY <1>1, CacheAssumption DEF CacheInv, TypeOK, Tick
  <2>2. NothingIsBehind'
    BY <1>1 DEF CacheInv, NothingIsBehind, FreshUnlessRaced, Tick
  <2> QED BY <1>1, <2>1, <2>2 DEF CacheInv, Tick
<1>2. CASE UNCHANGED vars
  BY <1>2 DEF vars, CacheInv, TypeOK, NothingIsBehind, FreshUnlessRaced
<1> QED BY <1>1, <1>2, CacheCommits, CacheInvalidates, CacheAnswersQuietly, CacheIsRead DEF Next

\* A read of a cached entity set reflects all that was committed when the cache
\* was last invalidated before it began, whatever else writes to the set without
\* invalidating it, unless its rows were loaded before that invalidation and
\* published after it.
THEOREM CacheIsFresh == Spec => []SnapshotsAreFresh
<1>1. CacheInv => SnapshotsAreFresh
  BY DEF CacheInv, NothingIsBehind, SnapshotsAreFresh
<1> QED BY CacheInit, CacheNext, <1>1, PTL DEF Spec

(***************************************************************************)
(* The scan plan.                                                          *)
(***************************************************************************)

Counting == {r \in Scans : pc[r] = "count"}
Removing == {r \in Scans : pc[r] \in Uncounting}

\* The count in terms of the readers at work on the entries.
LEMMA CountIs ==
  CountIsExact <=> poisonCount = Cardinality(Entries) - Cardinality(Counting) + Cardinality(Removing)
  BY DEF CountIsExact, Counting, Removing, Uncounting

\* The sets whose sizes are compared are finite.
LEMMA SetsAreFinite ==
  /\ IsFiniteSet(Entries) /\ IsFiniteSet(Counting) /\ IsFiniteSet(Removing)
  /\ Cardinality(Entries) \in Nat /\ Cardinality(Counting) \in Nat /\ Cardinality(Removing) \in Nat
<1>1. /\ Entries \in SUBSET Columns /\ Counting \in SUBSET Scans /\ Removing \in SUBSET Scans
      /\ IsFiniteSet(Columns) /\ IsFiniteSet(Scans)
  BY FastScanAssumption DEF Entries, Counting, Removing
<1>2. IsFiniteSet(Entries) /\ IsFiniteSet(Counting) /\ IsFiniteSet(Removing)
  BY <1>1, FS_Subset
<1> QED BY <1>2, FS_CardinalityType

\* There are more stamps than readers hold: poisonColumn finds a time no reader
\* has loaded.
LEMMA FreshStamp ==
  ASSUME ScanTypeOK
  PROVE  \E n \in Stamps \ {0} : \A q \in Scans : stamp[q] # n
<1>1. IsFiniteSet(Scans) /\ Cardinality(Scans) \in Nat
  BY FastScanAssumption, FS_CardinalityType
<1> DEFINE N == Cardinality(Scans) + 1
<1>2. IsFiniteSet(1 .. N) /\ Cardinality(1 .. N) = N
  BY <1>1, FS_Interval
<1> SUFFICES ASSUME \A n \in 1 .. N : \E q \in Scans : stamp[q] = n PROVE FALSE
  BY <1>1 DEF Stamps
<1> DEFINE holder == [n \in 1 .. N |-> CHOOSE q \in Scans : stamp[q] = n]
<1>3. holder \in [1 .. N -> Scans] /\ \A n \in 1 .. N : stamp[holder[n]] = n
  OBVIOUS
<1> HIDE DEF holder
<1>4. PICK x, y \in 1 .. N : x # y /\ holder[x] = holder[y]
  BY <1>1, <1>2, <1>3, FS_PigeonHole
<1> QED BY <1>3, <1>4

\* What the invariant says of one reader.
ReaderInv(r) ==
  /\ pc[r] \in Expiring \cup Uncounting => todo[r] # {}
  /\ pc[r] \in Expiring => stamp[r] # 0
  /\ pc[r] \notin {"idle", "done"} => [c \in wants[r] |-> row[c]] \in seen[r]
  /\ pc[r] \in Fetched => fetched[r] \in seen[r]
  /\ pc[r] = "done" /\ answer[r] # Failed => \E t \in seen[r] : answer[r] = Converted(t, wants[r])

\* A step of one reader leaves the others alone.
OtherReaders(r) ==
  \A q \in Scans \ {r} :
    /\ pc'[q] = pc[q] /\ wants'[q] = wants[q] /\ todo'[q] = todo[q] /\ stamp'[q] = stamp[q]
    /\ fetched'[q] = fetched[q] /\ answer'[q] = answer[q] /\ seen'[q] = seen[q]

\* ScanInv is the types, the count, and ReaderInv of each reader.
LEMMA ScanInvariants == ScanInv <=> ScanTypeOK /\ CountIsExact /\ \A r \in Scans : ReaderInv(r)
  BY DEF ScanInv, EntriesAreAtHand, RowsAreSeen, ReadsLikeGorm, ReaderInv

\* A reader that is left alone keeps what is known of it.
LEMMA OtherReadersKeep ==
  ASSUME NEW r \in Scans, OtherReaders(r), row' = row, NEW q \in Scans \ {r}, ReaderInv(q)
  PROVE  ReaderInv(q)'
<1>1. /\ pc'[q] = pc[q] /\ wants'[q] = wants[q] /\ todo'[q] = todo[q] /\ stamp'[q] = stamp[q]
      /\ fetched'[q] = fetched[q] /\ answer'[q] = answer[q] /\ seen'[q] = seen[q]
  BY DEF OtherReaders
<1>2. (\E t \in seen[q] : answer[q] = Converted(t, wants[q]))
        => \E t \in seen'[q] : answer'[q] = Converted(t, wants'[q])
  BY <1>1
<1> QED BY <1>1, <1>2 DEF ReaderInv

\* What Converted makes of the whole row it makes of the selected columns.
LEMMA ConvertedSelection ==
  ASSUME NEW t, NEW cols
  PROVE  Converted(t, cols) = Converted([c \in cols |-> t[c]], cols)
<1>1. \A c \in cols : [d \in cols |-> t[d]][c] = t[c]
  OBVIOUS
<1> QED BY <1>1 DEF Converted

\* Before a step of one reader the invariant, and what is to show after it.
LEMMA ReaderKeeps ==
  ASSUME ScanInv, NEW r \in Scans, OtherReaders(r), row' = row,
         ScanTypeOK', CountIsExact', ReaderInv(r)'
  PROVE  ScanInv'
<1>1. \A q \in Scans : ReaderInv(q)
  BY ScanInvariants
<1>2. \A q \in Scans : ReaderInv(q)'
  BY <1>1, OtherReadersKeep
<1> QED BY <1>2 DEF ScanInv, EntriesAreAtHand, RowsAreSeen, ReadsLikeGorm, ReaderInv

\* The count is kept by a step that neither enters nor leaves the operations on
\* the entries.
LEMMA CountIsKept ==
  ASSUME ScanInv, NEW r \in Scans, OtherReaders(r), UNCHANGED <<poisoned, poisonCount>>,
         {pc[r], pc'[r]} \cap ({"count"} \cup Uncounting) = {}
  PROVE  CountIsExact'
<1>1. \A q \in Scans : (pc'[q] = "count" <=> pc[q] = "count") /\ (pc'[q] \in Uncounting <=> pc[q] \in Uncounting)
  BY DEF OtherReaders
<1>2. Entries' = Entries /\ Counting' = Counting /\ Removing' = Removing
  BY <1>1 DEF Entries, Counting, Removing
<1>3. CountIsExact
  BY DEF ScanInv
<1> QED BY <1>2, <1>3 DEF CountIsExact, Counting, Removing, Uncounting

\* The next column is one of those at hand.
LEMMA NextColumnIsAtHand ==
  ASSUME ScanTypeOK, NEW r \in Scans, todo[r] # {}
  PROVE  NextColumn(r) \in todo[r] /\ NextColumn(r) \in Columns
  BY DEF ScanTypeOK, NextColumn

\* At first no column is poisoned and no read has begun.
LEMMA ScanStarts == ScanInit => ScanInv
<1> SUFFICES ASSUME ScanInit PROVE ScanInv
  OBVIOUS
<1> USE DEF ScanInit
<1>1. Cardinality(Scans) \in Nat
  BY FastScanAssumption, FS_CardinalityType
<1>2. ScanTypeOK
  BY <1>1 DEF ScanTypeOK, ScanSteps, Stamps
<1>3. Entries = {} /\ Counting = {} /\ Removing = {}
  BY DEF Entries, Counting, Removing, Uncounting
<1>4. CountIsExact
  <2>1. Cardinality(Entries) = 0 /\ Cardinality(Counting) = 0 /\ Cardinality(Removing) = 0
    BY <1>3, FS_EmptySet
  <2> HIDE DEF ScanInit
  <2>2. poisonCount = 0
    BY DEF ScanInit
  <2> QED BY <2>1, <2>2, CountIs
<1>5. \A r \in Scans : ReaderInv(r)
  BY DEF ReaderInv, Expiring, Uncounting, Fetched
<1> QED BY <1>2, <1>4, <1>5, ScanInvariants

\* A step that does not work on the entries keeps the invariant when it keeps
\* what is known of its reader.
LEMMA PlainStep ==
  ASSUME ScanInv, NEW r \in Scans, OtherReaders(r), UNCHANGED <<poisoned, poisonCount, row>>,
         {pc[r], pc'[r]} \cap ({"count"} \cup Uncounting) = {}, ScanTypeOK', ReaderInv(r)'
  PROVE  ScanInv'
<1>1. CountIsExact'
  BY CountIsKept
<1> QED BY <1>1, ReaderKeeps

\* A read starts with the row it could fetch now.
LEMMA ScanBegins ==
  ASSUME ScanInv, NEW r \in Scans, NEW cols \in SUBSET Columns, NEW listed, Start(r, cols, listed)
  PROVE  ScanInv'
<1>0. ScanTypeOK
  BY ScanInvariants
<1>1. /\ UNCHANGED <<poisoned, poisonCount, row, todo, stamp, fetched, answer>>
      /\ pc[r] = "idle" /\ pc' = [pc EXCEPT ![r] = "likely"] /\ wants' = [wants EXCEPT ![r] = cols]
      /\ seen' = [seen EXCEPT ![r] = {[c \in cols |-> row[c]]}]
  BY DEF Start, Goto, plan
<1>2. pc'[r] = "likely" /\ wants'[r] = cols /\ seen'[r] = {[c \in cols |-> row[c]]} /\ OtherReaders(r)
  BY <1>0, <1>1 DEF OtherReaders, ScanTypeOK
<1>3. ScanTypeOK'
  BY <1>0, <1>1 DEF ScanTypeOK, ScanSteps
<1>4. [c \in wants'[r] |-> row'[c]] \in seen'[r]
  BY <1>1, <1>2
<1>5. ReaderInv(r)'
  BY <1>2, <1>4 DEF ReaderInv, Expiring, Uncounting, Fetched
<1> QED BY <1>1, <1>2, <1>3, <1>5, PlainStep DEF Uncounting

\* Its checks of the entries change nothing but where it goes on.
LEMMA ScanChecks ==
  ASSUME ScanInv, NEW r \in Scans,
         LikelyTouchesPoisoned(r) \/ AnyPoisoned(r) \/ Load(r) \/ AllPoisoned(r)
  PROVE  ScanInv'
<1>0. ScanTypeOK /\ ReaderInv(r)
  BY ScanInvariants
<1>1. UNCHANGED <<poisoned, poisonCount, row, wants, seen, fetched, answer>>
  BY DEF LikelyTouchesPoisoned, AnyPoisoned, Load, AllPoisoned, plan, statement
<1>2. /\ pc' \in [Scans -> ScanSteps] /\ todo' \in [Scans -> SUBSET Columns]
      /\ stamp' \in [Scans -> Stamps] /\ OtherReaders(r)
      /\ pc'[r] \in Fetched => pc[r] \in Fetched
      /\ pc[r] \notin {"idle", "done"} /\ pc'[r] \notin {"idle", "done"}
      /\ {pc[r], pc'[r]} \cap ({"count"} \cup Uncounting) = {}
      /\ pc'[r] \in Expiring => todo'[r] # {} /\ stamp'[r] # 0
  <2> USE <1>0, <1>1 DEF ScanTypeOK, Goto, OtherReaders, Uncounting, Expiring
  <2>1. CASE LikelyTouchesPoisoned(r)
    <3>1. pc[r] = "likely" /\ stamp' = stamp
      BY <2>1 DEF LikelyTouchesPoisoned
    <3>2. PICK p \in {"rows", "gorm", "check before"} : pc' = [pc EXCEPT ![r] = p]
      BY <2>1 DEF LikelyTouchesPoisoned
    <3>3. todo' = todo \/ todo' = [todo EXCEPT ![r] = wants[r]]
      BY <2>1 DEF LikelyTouchesPoisoned
    <3> QED BY <3>1, <3>2, <3>3 DEF ScanSteps, Fetched
  <2>2. CASE AnyPoisoned(r)
    <3>1. pc[r] = "any" /\ stamp' = stamp
      BY <2>2 DEF AnyPoisoned
    <3>2. PICK p \in {"scan", "check after"} : pc' = [pc EXCEPT ![r] = p]
      BY <2>2 DEF AnyPoisoned
    <3>3. PICK t \in {{}, wants[r]} : todo' = [todo EXCEPT ![r] = t]
      BY <2>2 DEF AnyPoisoned
    <3> QED BY <3>1, <3>2, <3>3 DEF ScanSteps, Fetched
  <2>3. CASE AllPoisoned(r)
    BY <2>3 DEF AllPoisoned, ScanSteps, Fetched
  <2>4. CASE Load(r)
    <3> DEFINE c == NextColumn(r)
    <3>1. pc[r] \in {"check before", "check after"}
      BY <2>4 DEF Load, Checking
    <3>2. CASE todo[r] = {}
      BY <2>4, <3>1, <3>2 DEF Load, Checked, ScanSteps, Fetched
    <3>3. CASE todo[r] # {} /\ poisoned[c] = 0
      <4>1. todo' = [todo EXCEPT ![r] = todo[r] \ {c}] /\ UNCHANGED <<pc, stamp>>
        BY <2>4, <3>3 DEF Load, IsStale
      <4> QED BY <3>1, <4>1
    <3>4. CASE todo[r] # {} /\ poisoned[c] # 0 /\ ~IsStale(c)
      <4>1. todo' = [todo EXCEPT ![r] = {}] /\ pc' = [pc EXCEPT ![r] = "gorm"] /\ UNCHANGED stamp
        BY <2>4, <3>4 DEF Load
      <4> QED BY <3>1, <4>1 DEF ScanSteps, Fetched
    <3>5. CASE todo[r] # {} /\ IsStale(c)
      <4>1. poisoned[c] # 0 /\ c \in Columns
        BY <3>5, NextColumnIsAtHand DEF IsStale
      <4>2. /\ stamp' = [stamp EXCEPT ![r] = poisoned[c]] /\ UNCHANGED todo
            /\ pc' = [pc EXCEPT ![r] = IF pc[r] = "check before" THEN "expire before" ELSE "expire after"]
        BY <2>4, <3>5, <4>1 DEF Load
      <4> QED BY <3>1, <3>5, <4>1, <4>2 DEF ScanSteps, Fetched
    <3> QED BY <2>4, <3>2, <3>3, <3>4, <3>5 DEF Load
  <2> QED BY <2>1, <2>2, <2>3, <2>4
<1>3. ScanTypeOK'
  BY <1>0, <1>1, <1>2 DEF ScanTypeOK
<1>4. [c \in wants'[r] |-> row'[c]] = [c \in wants[r] |-> row[c]]
  BY <1>1
<1>5. ReaderInv(r)'
  BY <1>0, <1>1, <1>2, <1>4 DEF ReaderInv
<1> QED BY <1>1, <1>2, <1>3, <1>5, PlainStep

\* What it fetches and answers is a row that was there.
LEMMA ScanAnswers ==
  ASSUME ScanInv, NEW r \in Scans, Rows(r) \/ ScanRow(r) \/ Gorm(r) \/ Return(r)
  PROVE  ScanInv'
<1>0. ScanTypeOK /\ ReaderInv(r)
  BY ScanInvariants
<1> USE <1>0
<1>1. UNCHANGED <<poisoned, poisonCount, row, stamp>>
  BY DEF Rows, ScanRow, Gorm, Return, plan
<1>2. CASE Rows(r)
  <2>1. /\ pc[r] = "rows" /\ pc' = [pc EXCEPT ![r] = "any"] /\ UNCHANGED <<wants, seen, todo, answer>>
        /\ fetched' = [fetched EXCEPT ![r] = [c \in wants[r] |-> row[c]]]
    BY <1>2 DEF Rows, Goto, statement
  <2>2. ScanTypeOK' /\ OtherReaders(r) /\ pc'[r] = "any"
        /\ fetched'[r] = [c \in wants[r] |-> row[c]]
    BY <1>1, <2>1 DEF ScanTypeOK, ScanSteps, Fetched, OtherReaders
  <2>3. ReaderInv(r)'
    BY <1>1, <2>1, <2>2 DEF ReaderInv, Expiring, Uncounting
  <2> QED BY <1>1, <2>1, <2>2, <2>3, PlainStep DEF Uncounting
<1>3. CASE ScanRow(r)
  <2>1. /\ pc[r] = "scan" /\ UNCHANGED <<wants, seen>> /\ fetched' = [fetched EXCEPT ![r] = None]
    BY <1>3 DEF ScanRow, statement
  <2>2. CASE Unscannable(r) = {}
    <3>1. /\ pc' = [pc EXCEPT ![r] = "done"] /\ UNCHANGED todo
          /\ answer' = [answer EXCEPT ![r] = Converted(fetched[r], wants[r])]
      BY <1>3, <2>2 DEF ScanRow, Goto
    <3>2. ScanTypeOK' /\ OtherReaders(r) /\ pc'[r] = "done"
          /\ answer'[r] = Converted(fetched[r], wants'[r]) /\ fetched[r] \in seen'[r]
      BY <1>1, <2>1, <3>1 DEF ScanTypeOK, ScanSteps, OtherReaders, ReaderInv, Fetched
    <3>3. ReaderInv(r)'
      BY <3>2 DEF ReaderInv, Expiring, Uncounting, Fetched
    <3> QED BY <1>1, <2>1, <3>2, <3>3, PlainStep DEF Uncounting
  <2>3. CASE Unscannable(r) # {} /\ pc' = [pc EXCEPT ![r] = "done"]
             /\ answer' = [answer EXCEPT ![r] = Failed] /\ UNCHANGED todo
    <3>1. ScanTypeOK' /\ OtherReaders(r) /\ pc'[r] = "done" /\ answer'[r] = Failed'
      BY <1>1, <2>1, <2>3 DEF ScanTypeOK, ScanSteps, OtherReaders, Failed
    <3>2. ReaderInv(r)'
      BY <3>1 DEF ReaderInv, Expiring, Uncounting, Fetched
    <3> QED BY <1>1, <2>1, <3>1, <3>2, PlainStep DEF Uncounting
  <2>4. CASE /\ pc' = [pc EXCEPT ![r] = "poison"] /\ UNCHANGED answer
             /\ \E cols \in {{c} : c \in Unscannable(r)} \cup {Columns} : todo' = [todo EXCEPT ![r] = cols]
    <3>1. PICK cols \in {{c} : c \in Unscannable(r)} \cup {Columns} : todo' = [todo EXCEPT ![r] = cols]
      BY <2>4
    <3>2. cols \in SUBSET Columns
      BY DEF ScanTypeOK, Unscannable
    <3>3. ScanTypeOK' /\ OtherReaders(r) /\ pc'[r] = "poison"
      BY <1>1, <2>1, <2>4, <3>1, <3>2 DEF ScanTypeOK, ScanSteps, OtherReaders
    <3>4. [c \in wants'[r] |-> row'[c]] \in seen'[r]
      BY <1>1, <2>1 DEF ReaderInv
    <3>5. ReaderInv(r)'
      BY <3>3, <3>4 DEF ReaderInv, Expiring, Uncounting, Fetched
    <3> QED BY <1>1, <2>1, <3>3, <3>5, PlainStep DEF Uncounting
  <2> QED BY <1>3, <2>2, <2>3, <2>4 DEF ScanRow, RecordScanFailure, Goto
<1>4. CASE Gorm(r)
  <2>1. /\ pc[r] = "gorm" /\ pc' = [pc EXCEPT ![r] = "done"] /\ UNCHANGED <<wants, seen, todo>>
        /\ answer' = [answer EXCEPT ![r] = Converted(row, wants[r])]
        /\ fetched' = [fetched EXCEPT ![r] = None]
    BY <1>4 DEF Gorm, Goto, statement
  <2> DEFINE t == [c \in wants[r] |-> row[c]]
  <2>2. ScanTypeOK' /\ OtherReaders(r) /\ pc'[r] = "done" /\ answer'[r] = Converted(row, wants[r])
        /\ t \in seen'[r]
    BY <1>1, <2>1 DEF ScanTypeOK, ScanSteps, OtherReaders, ReaderInv
  <2>3. answer'[r] = Converted(t, wants'[r])
    BY <2>1, <2>2, ConvertedSelection
  <2> HIDE DEF t
  <2>4. ReaderInv(r)'
    BY <2>2, <2>3 DEF ReaderInv, Expiring, Uncounting, Fetched
  <2> QED BY <1>1, <2>1, <2>2, <2>4, PlainStep DEF Uncounting
<1>5. CASE Return(r)
  <2>1. /\ pc[r] = "done" /\ pc' = [pc EXCEPT ![r] = "idle"] /\ UNCHANGED <<todo, fetched>>
        /\ wants' = [wants EXCEPT ![r] = {}] /\ answer' = [answer EXCEPT ![r] = None]
        /\ seen' = [seen EXCEPT ![r] = {}]
    BY <1>5 DEF Return, Goto
  <2>2. ScanTypeOK' /\ OtherReaders(r) /\ pc'[r] = "idle"
    BY <1>1, <2>1 DEF ScanTypeOK, ScanSteps, OtherReaders
  <2>3. ReaderInv(r)'
    BY <2>2 DEF ReaderInv, Expiring, Uncounting, Fetched
  <2> QED BY <1>1, <2>1, <2>2, <2>3, PlainStep DEF Uncounting
<1> QED BY <1>2, <1>3, <1>4, <1>5

\* A step on the entries keeps the row its reader may still fetch.
LEMMA EntryStep ==
  ASSUME ScanInv, NEW r \in Scans,
         CompareAndDelete(r) \/ Uncount(r) \/ Swap(r) \/ Count(r)
  PROVE  /\ UNCHANGED <<row, wants, seen, fetched, answer>> /\ OtherReaders(r)
         /\ pc[r] \in Expiring \cup Uncounting \cup {"poison", "count"}
         /\ pc'[r] \in Uncounting \cup {"check before", "check after", "poison", "count"}
         /\ pc'[r] \in Fetched => pc[r] \in Fetched
         /\ pc' \in [Scans -> ScanSteps] /\ todo' \in [Scans -> SUBSET Columns]
<1>0. ScanTypeOK
  BY ScanInvariants
<1>1. /\ UNCHANGED <<row, wants, seen, fetched, answer>>
      /\ \A q \in Scans \ {r} : todo'[q] = todo[q] /\ stamp'[q] = stamp[q]
      /\ todo' \in [Scans -> SUBSET Columns]
  BY <1>0 DEF CompareAndDelete, Uncount, Swap, Count, statement, ScanTypeOK
<1>2. PICK p : pc' = [pc EXCEPT ![r] = p]
  BY DEF CompareAndDelete, Uncount, Swap, Count, Goto
<1>3. pc'[r] = p /\ \A q \in Scans \ {r} : pc'[q] = pc[q]
  BY <1>0, <1>2 DEF ScanTypeOK
<1>4. /\ pc[r] \in Expiring \cup Uncounting \cup {"poison", "count"}
      /\ p \in Uncounting \cup {"check before", "check after", "poison", "count"}
      /\ p \in Fetched => pc[r] \in Fetched
  BY <1>0, <1>3 DEF CompareAndDelete, Uncount, Swap, Count, Goto, Expiring, Uncounting, Fetched, ScanTypeOK
<1>5. pc' \in [Scans -> ScanSteps]
  BY <1>0, <1>2, <1>4 DEF ScanTypeOK, ScanSteps, Uncounting, Fetched
<1> QED BY <1>1, <1>3, <1>4, <1>5 DEF OtherReaders

\* With the entries and the count in order, so is the rest after such a step.
LEMMA EntryStepKeeps ==
  ASSUME ScanInv, NEW r \in Scans,
         CompareAndDelete(r) \/ Uncount(r) \/ Swap(r) \/ Count(r),
         pc'[r] \in Uncounting => todo'[r] # {},
         poisoned' \in [Columns -> Stamps], poisonCount' \in Int, stamp' \in [Scans -> Stamps],
         CountIsExact'
  PROVE  ScanInv'
<1>0. ScanTypeOK /\ ReaderInv(r)
  BY ScanInvariants
<1>1. /\ UNCHANGED <<row, wants, seen, fetched, answer>> /\ OtherReaders(r)
      /\ pc[r] \in Expiring \cup Uncounting \cup {"poison", "count"}
      /\ pc'[r] \in Uncounting \cup {"check before", "check after", "poison", "count"}
      /\ pc'[r] \in Fetched => pc[r] \in Fetched
      /\ pc' \in [Scans -> ScanSteps] /\ todo' \in [Scans -> SUBSET Columns]
  BY EntryStep
<1>2. ScanTypeOK'
  BY <1>0, <1>1 DEF ScanTypeOK
<1>3. [c \in wants'[r] |-> row'[c]] = [c \in wants[r] |-> row[c]]
  BY <1>1
<1>4. pc[r] \notin {"idle", "done"} /\ pc'[r] \notin Expiring \cup {"done"}
  BY <1>1 DEF Expiring, Uncounting
<1>5. ReaderInv(r)'
  BY <1>0, <1>1, <1>3, <1>4 DEF ReaderInv
<1> QED BY <1>1, <1>2, <1>5, ReaderKeeps

\* What a step on the entries does to the three sets.
LEMMA CountIsExactAfter ==
  ASSUME poisonCount' = Cardinality(Entries') - Cardinality(Counting') + Cardinality(Removing')
  PROVE  CountIsExact'
  BY DEF CountIsExact, Counting, Removing, Uncounting

\* A stale entry is removed by the reader whose stamp it still has, which then
\* owes the count one.
LEMMA ScanRemoves ==
  ASSUME ScanInv, NEW r \in Scans, CompareAndDelete(r)
  PROVE  ScanInv'
<1>0. ScanTypeOK /\ ReaderInv(r) /\ CountIsExact
  BY ScanInvariants
<1> DEFINE c == NextColumn(r)
<1>1. pc[r] \in Expiring /\ c \in Columns /\ stamp[r] # 0 /\ todo[r] # {}
  BY <1>0, NextColumnIsAtHand DEF CompareAndDelete, ReaderInv, Expiring
<1>2. /\ OtherReaders(r) /\ stamp' = [stamp EXCEPT ![r] = 0] /\ poisonCount' = poisonCount
      /\ 0 \in Stamps
  <2>1. Cardinality(Scans) \in Nat
    BY FastScanAssumption, FS_CardinalityType
  <2>2. OtherReaders(r)
    BY EntryStep
  <2>3. 0 \in Stamps
    BY <2>1 DEF Stamps
  <2>4. stamp' = [stamp EXCEPT ![r] = 0] /\ poisonCount' = poisonCount
    BY DEF CompareAndDelete
  <2> QED BY <2>2, <2>3, <2>4
<1>3. CASE poisoned[c] = stamp[r]
  <2>1. /\ poisoned' = [poisoned EXCEPT ![c] = 0] /\ UNCHANGED todo
        /\ pc' = [pc EXCEPT ![r] = IF pc[r] = "expire before" THEN "uncount before" ELSE "uncount after"]
    BY <1>3 DEF CompareAndDelete, Goto
  <2> HIDE DEF c
  <2>2. /\ Entries' = Entries \ {c} /\ c \in Entries
        /\ Counting' = Counting
        /\ Removing' = Removing \cup {r} /\ r \notin Removing
    <3>1. Entries' = Entries \ {c} /\ c \in Entries
      BY <1>0, <1>1, <1>2, <1>3, <2>1 DEF Entries, ScanTypeOK
    <3>2. Counting' = Counting
      BY <1>0, <1>1, <1>2, <1>3, <2>1 DEF Counting, Expiring, ScanTypeOK, OtherReaders
    <3>3. pc'[r] \in Uncounting /\ pc[r] \notin Uncounting
      BY <1>0, <1>1, <2>1 DEF Uncounting, Expiring, ScanTypeOK
    <3>4. \A q \in Scans \ {r} : pc'[q] = pc[q]
      BY <1>0, <2>1 DEF ScanTypeOK
    <3>5. Removing' = Removing \cup {r} /\ r \notin Removing
      BY <3>3, <3>4 DEF Removing
    <3> QED BY <3>1, <3>2, <3>5
  <2>3. /\ Cardinality(Entries') = Cardinality(Entries) - 1
        /\ Cardinality(Removing') = Cardinality(Removing) + 1
    BY <2>2, SetsAreFinite, FS_AddElement, FS_RemoveElement
  <2>4. CountIsExact'
    BY <1>0, <1>2, <2>2, <2>3, CountIs, SetsAreFinite, CountIsExactAfter
  <2> QED BY <1>0, <1>1, <1>2, <2>1, <2>4, EntryStepKeeps DEF ScanTypeOK
<1>4. CASE poisoned[c] # stamp[r]
  <2>1. /\ UNCHANGED poisoned /\ pc'[r] \in {"check before", "check after"}
    BY <1>0, <1>4 DEF CompareAndDelete, Goto, ScanTypeOK
  <2>2. CountIsExact'
    BY <1>1, <1>2, <2>1, CountIsKept DEF Expiring, Uncounting
  <2> QED BY <1>0, <1>1, <1>2, <2>1, <2>2, EntryStepKeeps DEF ScanTypeOK, Uncounting
<1> QED BY <1>3, <1>4

\* The count is settled by the reader that owes it.
LEMMA ScanCounts ==
  ASSUME ScanInv, NEW r \in Scans, Uncount(r) \/ Count(r)
  PROVE  ScanInv'
<1>0. ScanTypeOK /\ ReaderInv(r) /\ CountIsExact
  BY ScanInvariants
<1>1. /\ OtherReaders(r) /\ UNCHANGED <<poisoned, stamp>>
      /\ poisoned' \in [Columns -> Stamps] /\ stamp' \in [Scans -> Stamps]
  BY <1>0, EntryStep DEF Uncount, Count, ScanTypeOK
<1>2. Entries' = Entries /\ poisonCount \in Int
  BY <1>0, <1>1 DEF Entries, ScanTypeOK
<1>3. CASE Uncount(r)
  <2>0. poisonCount' = poisonCount - 1
    BY <1>3 DEF Uncount
  <2>1. pc[r] \in Uncounting /\ pc'[r] \in {"check before", "check after"}
    BY <1>0, <1>3 DEF Uncount, Goto, Uncounting, ScanTypeOK
  <2>2. Counting' = Counting /\ Removing' = Removing \ {r} /\ r \in Removing
    BY <1>1, <2>1 DEF Counting, Removing, Uncounting, OtherReaders
  <2>3. Cardinality(Removing') = Cardinality(Removing) - 1
    BY <2>2, SetsAreFinite, FS_RemoveElement
  <2>4. CountIsExact'
    BY <1>0, <1>2, <2>0, <2>2, <2>3, CountIs, SetsAreFinite, CountIsExactAfter
  <2>5. poisonCount' \in Int
    BY <1>2, <2>0
  <2>6. pc'[r] \notin Uncounting
    BY <2>1 DEF Uncounting
  <2> QED BY <1>1, <2>4, <2>5, <2>6, EntryStepKeeps
<1>4. CASE Count(r)
  <2>1. pc[r] = "count" /\ pc'[r] = "poison" /\ poisonCount' = poisonCount + 1
    BY <1>0, <1>4 DEF Count, Goto, ScanTypeOK
  <2>2. Removing' = Removing /\ Counting' = Counting \ {r} /\ r \in Counting
    BY <1>1, <2>1 DEF Counting, Removing, Uncounting, OtherReaders
  <2>3. Cardinality(Counting') = Cardinality(Counting) - 1
    BY <2>2, SetsAreFinite, FS_RemoveElement
  <2>4. CountIsExact'
    BY <1>0, <1>2, <2>1, <2>2, <2>3, CountIs, SetsAreFinite, CountIsExactAfter
  <2>5. poisonCount' \in Int /\ pc'[r] \notin Uncounting
    BY <1>2, <2>1 DEF Uncounting
  <2> QED BY <1>1, <2>4, <2>5, EntryStepKeeps
<1> QED BY <1>3, <1>4

\* poisonColumn replaces an entry or adds one, and counts only what it added.
LEMMA ScanPoisons ==
  ASSUME ScanInv, NEW r \in Scans, Swap(r)
  PROVE  ScanInv'
<1>0. ScanTypeOK /\ ReaderInv(r) /\ CountIsExact
  BY ScanInvariants
<1> DEFINE c == NextColumn(r)
           n == CHOOSE k \in Stamps \ {0} : \A q \in Scans : stamp[q] # k
<1>1. n \in Stamps \ {0}
  BY <1>0, FreshStamp
<1>2. c \in Columns /\ pc[r] = "poison"
  BY <1>0, NextColumnIsAtHand DEF Swap
<1>3. /\ OtherReaders(r) /\ UNCHANGED <<poisonCount, stamp>> /\ poisoned' = [poisoned EXCEPT ![c] = n]
      /\ pc' = [pc EXCEPT ![r] = IF Counts(c) THEN "count" ELSE "poison"]
  BY EntryStep DEF Swap, Goto
<1> HIDE DEF c, n
<1>4. poisoned' \in [Columns -> Stamps]
  BY <1>0, <1>1, <1>3 DEF ScanTypeOK
<1>5. CASE poisoned[c] = 0
  <2>1. /\ Entries' = Entries \cup {c} /\ c \notin Entries
        /\ Removing' = Removing
        /\ Counting' = Counting \cup {r} /\ r \notin Counting
    <3>1. Entries' = Entries \cup {c} /\ c \notin Entries
      BY <1>0, <1>1, <1>2, <1>3, <1>5 DEF Entries, ScanTypeOK
    <3>2. Removing' = Removing
      BY <1>0, <1>1, <1>2, <1>3, <1>5 DEF Removing, Uncounting, Counts, ScanTypeOK, OtherReaders
    <3>3. Counting' = Counting \cup {r} /\ r \notin Counting
      BY <1>0, <1>1, <1>2, <1>3, <1>5 DEF Counting, Counts, ScanTypeOK, OtherReaders
    <3> QED BY <3>1, <3>2, <3>3
  <2>2. /\ Cardinality(Entries') = Cardinality(Entries) + 1
        /\ Cardinality(Counting') = Cardinality(Counting) + 1
    BY <2>1, SetsAreFinite, FS_AddElement
  <2>3. CountIsExact'
    BY <1>0, <1>3, <2>1, <2>2, CountIs, SetsAreFinite, CountIsExactAfter
  <2>4. pc'[r] = "count"
    BY <1>0, <1>3, <1>5 DEF ScanTypeOK, Counts
  <2> QED BY <1>0, <1>3, <1>4, <2>3, <2>4, EntryStepKeeps DEF ScanTypeOK, Uncounting
<1>6. CASE poisoned[c] # 0
  <2>1. Entries' = Entries /\ Counting' = Counting /\ Removing' = Removing /\ pc'[r] = "poison"
    <3>1. Entries' = Entries
      BY <1>0, <1>1, <1>2, <1>3, <1>6 DEF Entries, ScanTypeOK
    <3>2. Removing' = Removing
      BY <1>0, <1>1, <1>2, <1>3, <1>6 DEF Removing, Uncounting, Counts, ScanTypeOK, OtherReaders
    <3>3. Counting' = Counting
      BY <1>0, <1>1, <1>2, <1>3, <1>6 DEF Counting, Counts, ScanTypeOK, OtherReaders
    <3>4. pc'[r] = "poison"
      BY <1>0, <1>2, <1>3, <1>6 DEF Counts, ScanTypeOK
    <3> QED BY <3>1, <3>2, <3>3, <3>4
  <2>2. CountIsExact'
    BY <1>0, <1>3, <2>1, CountIs, CountIsExactAfter
  <2> QED BY <1>0, <1>3, <1>4, <2>1, <2>2, EntryStepKeeps DEF ScanTypeOK, Uncounting
<1> QED BY <1>5, <1>6

\* A window that passes and a row that is stored change neither the entries nor
\* the readers; a stored row is one that every read under way has seen.
LEMMA ScanSurroundings ==
  ASSUME ScanInv,
         \/ \E c \in Columns : Expire(c) \/ \E v \in Stored : Write(c, v)
         \/ UNCHANGED scanVars
  PROVE  ScanInv'
<1>0. ScanTypeOK /\ CountIsExact /\ \A r \in Scans : ReaderInv(r)
  BY ScanInvariants
<1>1. UNCHANGED <<poisoned, poisonCount, pc, wants, todo, stamp, fetched, answer>>
  BY DEF Expire, Write, plan, statement, scanVars
<1>2. CountIsExact'
  BY <1>0, <1>1 DEF CountIsExact, Entries
<1>3. CASE UNCHANGED <<row, seen>>
  <2>1. ScanTypeOK' /\ \A r \in Scans : ReaderInv(r)'
    BY <1>0, <1>1, <1>3 DEF ScanTypeOK, ReaderInv, Converted, Failed
  <2> QED BY <1>2, <2>1 DEF ScanInv, EntriesAreAtHand, RowsAreSeen, ReadsLikeGorm, ReaderInv
<1>4. ASSUME NEW c \in Columns, NEW v \in Stored, Write(c, v) PROVE ScanInv'
  <2>1. seen' = [r \in Scans |-> IF pc[r] \in {"idle", "done"} THEN seen[r]
                                 ELSE seen[r] \cup {[d \in wants[r] |-> row'[d]]}]
    BY <1>4 DEF Write
  <2>2. ASSUME NEW r \in Scans PROVE ReaderInv(r)'
    <3>1. ReaderInv(r)
      BY <1>0
    <3>2. seen[r] \subseteq seen'[r] /\ (pc[r] = "done" => seen'[r] = seen[r])
      BY <2>1
    <3>3. pc[r] \notin {"idle", "done"} => [d \in wants[r] |-> row'[d]] \in seen'[r]
      BY <2>1
    <3>4. pc[r] = "done" /\ answer[r] # Failed => \E t \in seen'[r] : answer[r] = Converted(t, wants[r])
      BY <3>1, <3>2 DEF ReaderInv
    <3> QED BY <1>1, <3>1, <3>2, <3>3, <3>4 DEF ReaderInv
  <2>3. ScanTypeOK'
    BY <1>0, <1>1, <2>1 DEF ScanTypeOK
  <2> QED BY <1>2, <2>2, <2>3 DEF ScanInv, EntriesAreAtHand, RowsAreSeen, ReadsLikeGorm, ReaderInv
<1> QED BY <1>3, <1>4 DEF Expire, plan, statement, scanVars

\* Every step of a reader and of its surroundings keeps the invariant.
LEMMA ScanNextKeeps == ScanInv /\ [ScanNext]_scanVars => ScanInv'
<1> SUFFICES ASSUME ScanInv, [ScanNext]_scanVars PROVE ScanInv'
  OBVIOUS
<1>1. ASSUME NEW r \in Scans, Step(r) PROVE ScanInv'
  BY <1>1, ScanChecks, ScanAnswers, ScanRemoves, ScanCounts, ScanPoisons DEF Step
<1>2. ASSUME NEW r \in Scans, Start(r, Columns, FALSE) \/ \E cols \in Lists : Start(r, cols, TRUE)
      PROVE  ScanInv'
  BY <1>2, ScanBegins, FastScanAssumption
<1> QED BY <1>1, <1>2, ScanSurroundings DEF ScanNext

\* However readers interleave on the entries, their count is exact up to the
\* operations in flight.
THEOREM PoisonCountIsExact == ScanSpec => []CountIsExact
<1>1. ScanInv => CountIsExact
  BY DEF ScanInv
<1> QED BY ScanStarts, ScanNextKeeps, <1>1, PTL DEF ScanSpec

\* Whichever way a read takes through the plan, it answers what GORM gives for
\* the row at one moment of the read.
THEOREM PlanIsInvisible == ScanSpec => []ReadsLikeGorm
<1>1. ScanInv => ReadsLikeGorm
  BY DEF ScanInv
<1> QED BY ScanStarts, ScanNextKeeps, <1>1, PTL DEF ScanSpec

-----------------------------------------------------------------------------
(* Places of a sequence, in their order.                                   *)

\* Of some natural numbers one is the least.
LEMMA OneIsLeast ==
  ASSUME NEW S \in SUBSET Nat, S # {}
  PROVE  \E n \in S : \A m \in S : n <= m
<1>1. PICK n \in S : \A m \in S : ~(<<m, n>> \in OpToRel(<, Nat))
  BY NatLessThanWellFounded, WFMin
<1>2. \A m \in S : ~(m < n)
  BY <1>1 DEF OpToRel
<1>3. \A m \in S : m \in Nat /\ n \in Nat
  OBVIOUS
<1> QED BY <1>2, <1>3

\* What holds at 0 and passes from each number to the next holds of all.
LEMMA NoneIsMissing ==
  ASSUME NEW S, 0 \in S, \A n \in Nat : n \in S => n + 1 \in S
  PROVE  Nat \subseteq S
<1> SUFFICES ASSUME Nat \ S # {} PROVE FALSE
  OBVIOUS
<1>1. PICK n \in Nat \ S : \A m \in Nat \ S : n <= m
  BY OneIsLeast
<1>2. n # 0 /\ n - 1 \in Nat /\ n - 1 + 1 = n
  BY <1>1
<1>3. n - 1 \in S
  BY <1>1, <1>2
<1> QED BY <1>1, <1>2, <1>3

\* A listing of a finite set: every member once.
LEMMA ListsAll ==
  ASSUME NEW S, IsFiniteSet(S), NEW s \in SetToSeqs(S)
  PROVE  /\ Cardinality(S) \in Nat /\ DOMAIN s = 1..Cardinality(S) /\ s \in Seq(S) /\ Len(s) = Cardinality(S)
         /\ \A i \in DOMAIN s : s[i] \in S
         /\ \A i, j \in DOMAIN s : i # j => s[i] # s[j]
         /\ \A x \in S : \E i \in DOMAIN s : s[i] = x
<1>1. Cardinality(S) \in Nat
  BY FS_CardinalityType
<1>2. /\ s \in [1..Cardinality(S) -> S]
      /\ \A i, j \in 1..Cardinality(S) : i # j => s[i] # s[j]
  BY DEF SetToSeqs
<1>3. s \in Injection(1..Cardinality(S), S)
  BY <1>2 DEF Injection, IsInjective
<1>4. IsFiniteSet(1..Cardinality(S)) /\ Cardinality(1..Cardinality(S)) = Cardinality(S)
  BY <1>1, FS_Interval
<1>5. s \in Surjection(1..Cardinality(S), S)
  BY <1>3, <1>4, FS_Injection
<1>6. \A x \in S : \E i \in DOMAIN s : s[i] = x
  BY <1>2, <1>5 DEF Surjection
<1>7. s \in Seq(S) /\ Len(s) = Cardinality(S)
  BY <1>1, <1>2
<1> QED BY <1>1, <1>2, <1>6, <1>7

\* One to one from 1..n onto a set: a listing of it.
LEMMA IsListing ==
  ASSUME NEW S, NEW n \in Nat, NEW s \in [1..n -> S],
         \A i, j \in 1..n : i # j => s[i] # s[j], \A x \in S : \E i \in 1..n : s[i] = x
  PROVE  IsFiniteSet(S) /\ Cardinality(S) = n /\ s \in SetToSeqs(S)
<1>1. s \in Bijection(1..n, S)
  BY DEF Bijection, Injection, Surjection, IsInjective
<1>2. IsFiniteSet(1..n) /\ Cardinality(1..n) = n
  BY FS_Interval
<1>3. IsFiniteSet(S) /\ Cardinality(S) = n
  BY <1>1, <1>2, FS_Bijection DEF ExistsBijection
<1> QED BY <1>3 DEF SetToSeqs

Increases(s) == \A i, j \in DOMAIN s : i < j => s[i] < s[j]

\* Some numbers up to n can be listed in increasing order.
LEMMA SomeOrder ==
  ASSUME NEW n \in Nat, NEW P \in SUBSET (1..n)
  PROVE  IsFiniteSet(P) /\ \E s \in SetToSeqs(P) : Increases(s)
<1> DEFINE Good == {m \in Nat : \A Q \in SUBSET (1..m) : IsFiniteSet(Q) /\ \E s \in SetToSeqs(Q) : Increases(s)}
<1>1. 0 \in Good
  <2> SUFFICES ASSUME NEW Q \in SUBSET (1..0) PROVE IsFiniteSet(Q) /\ \E s \in SetToSeqs(Q) : Increases(s)
    OBVIOUS
  <2> DEFINE s == [i \in 1..0 |-> 0]
  <2>1. Q = {} /\ s \in [1..0 -> Q]
    OBVIOUS
  <2>2. (\A i, j \in 1..0 : i # j => s[i] # s[j]) /\ \A x \in Q : \E i \in 1..0 : s[i] = x
    BY <2>1
  <2>3. IsFiniteSet(Q) /\ s \in SetToSeqs(Q)
    BY <2>1, <2>2, IsListing
  <2>4. Increases(s)
    BY DEF Increases
  <2> QED BY <2>3, <2>4
<1>2. ASSUME NEW m \in Nat, m \in Good PROVE m + 1 \in Good
  <2> SUFFICES ASSUME NEW Q \in SUBSET (1..(m + 1)) PROVE IsFiniteSet(Q) /\ \E s \in SetToSeqs(Q) : Increases(s)
    OBVIOUS
  <2>1. CASE m + 1 \notin Q
    <3>1. Q \in SUBSET (1..m)
      BY <2>1
    <3> QED BY <3>1, <1>2
  <2>2. CASE m + 1 \in Q
    <3> DEFINE R == Q \ {m + 1}
    <3>1. R \in SUBSET (1..m)
      OBVIOUS
    <3>2. IsFiniteSet(R)
      BY <3>1, <1>2
    <3>3. PICK s \in SetToSeqs(R) : Increases(s)
      BY <3>1, <1>2
    <3> DEFINE c == Cardinality(R)
    <3> HIDE DEF R
    <3> DEFINE t == [i \in 1..(c + 1) |-> IF i = c + 1 THEN m + 1 ELSE s[i]]
    <3>4. /\ c \in Nat /\ DOMAIN s = 1..c /\ \A i \in 1..c : s[i] \in R
          /\ \A x \in R : \E i \in 1..c : s[i] = x
      BY <3>2, ListsAll
    <3> HIDE DEF c
    <3>a. R \subseteq 1..m
      BY <3>1
    <3>5. DOMAIN t = 1..(c + 1) /\ t[c + 1] = m + 1 /\ \A i \in 1..c : t[i] = s[i]
      BY <3>4
    <3> HIDE DEF t
    <3>6. Increases(t)
      <4> SUFFICES ASSUME NEW i \in 1..(c + 1), NEW j \in 1..(c + 1), i < j PROVE t[i] < t[j]
        BY <3>5 DEF Increases
      <4>1. i \in 1..c /\ s[i] \in R /\ t[i] = s[i] /\ s[i] \in Nat /\ s[i] < m + 1
        <5>1. i \in 1..c
          BY <3>4
        <5>2. s[i] \in R /\ s[i] \in 1..m
          BY <3>4, <5>1, <3>a
        <5> QED BY <3>5, <5>1, <5>2
      <4>2. CASE j = c + 1
        BY <4>1, <4>2, <3>5
      <4>3. CASE j # c + 1
        <5>1. j \in 1..c
          BY <4>3, <3>4
        <5>2. s[i] < s[j]
          BY <4>1, <5>1, <3>3, <3>4 DEF Increases
        <5> QED BY <4>1, <5>1, <5>2, <3>5
      <4> QED BY <4>2, <4>3
    <3>7. t \in [1..(c + 1) -> Q]
      BY <3>4, <3>5, <2>2 DEF R, t
    <3>8. \A x \in Q : \E i \in 1..(c + 1) : t[i] = x
      <4> SUFFICES ASSUME NEW x \in Q PROVE \E i \in 1..(c + 1) : t[i] = x
        OBVIOUS
      <4>1. CASE x = m + 1
        BY <4>1, <3>4, <3>5
      <4>2. CASE x # m + 1
        <5>1. PICK i \in 1..c : s[i] = x
          BY <4>2, <3>4 DEF R
        <5> QED BY <5>1, <3>4, <3>5
      <4> QED BY <4>1, <4>2
    <3>9. \A i, j \in 1..(c + 1) : i # j => t[i] # t[j]
      <4> SUFFICES ASSUME NEW i \in 1..(c + 1), NEW j \in 1..(c + 1), i # j PROVE t[i] # t[j]
        OBVIOUS
      <4>1. t[i] \in Int /\ t[j] \in Int /\ (t[i] < t[j] \/ t[j] < t[i])
        <5>1. i < j \/ j < i
          BY <3>4
        <5>2. t[i] \in 1..(m + 1) /\ t[j] \in 1..(m + 1)
          BY <3>7
        <5>3. t[i] < t[j] \/ t[j] < t[i]
          BY <3>5, <3>6, <5>1 DEF Increases
        <5> QED BY <5>2, <5>3
      <4> QED BY <4>1
    <3>b. c + 1 \in Nat
      BY <3>4
    <3>10. IsFiniteSet(Q) /\ t \in SetToSeqs(Q)
      BY <3>b, <3>7, <3>8, <3>9, IsListing
    <3> QED BY <3>6, <3>10
  <2> QED BY <2>1, <2>2
<1>3. n \in Good
  BY <1>1, <1>2, NoneIsMissing
<1> QED BY <1>3

\* InOrder lists some numbers up to n upwards, each once.
LEMMA InOrderLists ==
  ASSUME NEW n \in Nat, NEW P \in SUBSET (1..n)
  PROVE  /\ Cardinality(P) \in Nat /\ DOMAIN InOrder(P) = 1..Cardinality(P)
         /\ \A i \in 1..Cardinality(P) : InOrder(P)[i] \in P
         /\ \A i, j \in 1..Cardinality(P) : i < j => InOrder(P)[i] < InOrder(P)[j]
         /\ \A p \in P : \E i \in 1..Cardinality(P) : InOrder(P)[i] = p
<1>1. IsFiniteSet(P) /\ \E s \in SetToSeqs(P) : \A i, j \in DOMAIN s : i < j => s[i] < s[j]
  BY SomeOrder DEF Increases
<1>2. InOrder(P) \in SetToSeqs(P) /\ \A i, j \in DOMAIN InOrder(P) : i < j => InOrder(P)[i] < InOrder(P)[j]
  BY <1>1 DEF InOrder
<1> DEFINE s == InOrder(P)
<1>3. s \in SetToSeqs(P)
  BY <1>2
<1> HIDE DEF s
<1>4. /\ Cardinality(P) \in Nat /\ DOMAIN s = 1..Cardinality(P)
      /\ \A i \in DOMAIN s : s[i] \in P
      /\ \A x \in P : \E i \in DOMAIN s : s[i] = x
  BY <1>1, <1>3, ListsAll
<1> QED BY <1>2, <1>4 DEF s

\* Picked at some places, a sequence keeps what stands there, in its order.
LEMMA PickKeeps ==
  ASSUME NEW S, NEW s \in Seq(S), NEW P \in SUBSET DOMAIN s
  PROVE  /\ Cardinality(P) \in Nat /\ Pick(s, P) \in Seq(S)
         /\ DOMAIN Pick(s, P) = 1..Cardinality(P) /\ Len(Pick(s, P)) = Cardinality(P)
         /\ \A i \in 1..Cardinality(P) : InOrder(P)[i] \in P /\ Pick(s, P)[i] = s[InOrder(P)[i]]
         /\ \A i, j \in 1..Cardinality(P) : i < j => InOrder(P)[i] < InOrder(P)[j]
         /\ \A p \in P : \E i \in 1..Cardinality(P) : InOrder(P)[i] = p /\ Pick(s, P)[i] = s[p]
<1>1. Len(s) \in Nat /\ P \in SUBSET (1..Len(s)) /\ \A i \in P : s[i] \in S
  OBVIOUS
<1>2. /\ Cardinality(P) \in Nat
      /\ \A i \in 1..Cardinality(P) : InOrder(P)[i] \in P
      /\ \A i, j \in 1..Cardinality(P) : i < j => InOrder(P)[i] < InOrder(P)[j]
      /\ \A p \in P : \E i \in 1..Cardinality(P) : InOrder(P)[i] = p
  BY <1>1, InOrderLists
<1>3. DOMAIN Pick(s, P) = 1..Cardinality(P) /\ \A i \in 1..Cardinality(P) : Pick(s, P)[i] = s[InOrder(P)[i]]
  BY DEF Pick
<1>4. Pick(s, P) \in [1..Cardinality(P) -> S]
  BY <1>1, <1>2, <1>3 DEF Pick
<1>5. Pick(s, P) \in Seq(S) /\ Len(Pick(s, P)) = Cardinality(P)
  BY <1>2, <1>4
<1>6. \A p \in P : \E i \in 1..Cardinality(P) : InOrder(P)[i] = p /\ Pick(s, P)[i] = s[p]
  BY <1>2, <1>3
<1> QED BY <1>2, <1>3, <1>5, <1>6

-----------------------------------------------------------------------------
(* Tables and options keep their form.                                     *)

\* Whatever another request writes, the rows stay rows.
LEMMA WriteKeepsTable == IsTable(expandTable) /\ OtherWrite => IsTable(expandTable')
<1> SUFFICES ASSUME IsTable(expandTable), OtherWrite PROVE IsTable(expandTable')
  OBVIOUS
<1> DEFINE t == expandTable
           Recs == [up : Int, val : {0, 1}]
<1>0. DOMAIN t \subseteq Int \ {NoKey} /\ \A r \in DOMAIN t : t[r] \in Recs /\ r \in EntityKeys
  BY ExpandAssumption DEF IsTable
<1>1. ASSUME NEW r \in DOMAIN t, NEW p \in DOMAIN t \cup {NoKey}, t' = [t EXCEPT ![r].up = p] PROVE IsTable(t')
  <2>1. p \in Int
    BY <1>0, <1>1 DEF NoKey
  <2>2. [t[r] EXCEPT !.up = p] \in Recs
    BY <1>0, <2>1
  <2>3. DOMAIN t' = DOMAIN t /\ \A s \in DOMAIN t : t'[s] = IF s = r THEN [t[r] EXCEPT !.up = p] ELSE t[s]
    BY <1>1
  <2> QED BY <1>0, <2>2, <2>3 DEF IsTable
<1>2. ASSUME NEW r \in DOMAIN t, t' = [t EXCEPT ![r].val = 1 - @] PROVE IsTable(t')
  <2>1. [t[r] EXCEPT !.val = 1 - t[r].val] \in Recs
    <3>1. t[r].val \in {0, 1} /\ t[r] \in Recs
      BY <1>0
    <3>2. 1 - t[r].val \in {0, 1}
      BY <3>1
    <3> QED BY <3>1, <3>2
  <2>2. DOMAIN t' = DOMAIN t /\ \A s \in DOMAIN t : t'[s] = IF s = r THEN [t[r] EXCEPT !.val = 1 - t[r].val] ELSE t[s]
    BY <1>2
  <2> QED BY <1>0, <2>1, <2>2 DEF IsTable
<1>3. ASSUME NEW r \in DOMAIN t, t' = [s \in DOMAIN t \ {r} |-> t[s]] PROVE IsTable(t')
  BY <1>0, <1>3 DEF IsTable
<1>4. ASSUME NEW r \in EntityKeys \ DOMAIN t, NEW p \in DOMAIN t,
             t' = [s \in DOMAIN t \cup {r} |-> IF s = r THEN [up |-> p, val |-> 1] ELSE t[s]]
      PROVE  IsTable(t')
  <2>1. [up |-> p, val |-> 1] \in Recs
    BY <1>0
  <2> QED BY <1>0, <1>4, <2>1 DEF IsTable
<1> QED BY <1>1, <1>2, <1>3, <1>4 DEF OtherWrite

\* Unrolling $levels makes options of options, at positions of the tree.
LEMMA UnrollKeepsOptions ==
  ASSUME NEW e, IsExpand(e), NEW q \in DOMAIN e, NEW n \in Nat
  PROVE  IsExpand(buildLevelsExpansion(e, q, n))
<1> DEFINE again == Cardinality(Nested(e, q)) + 1
           copy(k, r) == q \o [j \in 1..k |-> again] \o SubSeq(r, Len(q) + 1, Len(r))
           copies == (1..(n - 1)) \X Under(e, q)
           Origin(s) == IF s \in DOMAIN e THEN s ELSE (CHOOSE c \in copies : copy(c[1], c[2]) = s)[2]
           new == {copy(c[1], c[2]) : c \in copies}
           all == buildLevelsExpansion(e, q, n)
<1>0. IsFiniteSet(DOMAIN e) /\ DOMAIN e \subseteq Seq(Nat) \ {<<>>} /\ \A r \in DOMAIN e : e[r] \in OptionTypes
  BY DEF IsExpand
<1>1. again \in Nat
  BY <1>0, FS_Subset, FS_CardinalityType DEF Nested
<1>2. Under(e, q) \subseteq DOMAIN e /\ IsFiniteSet(Under(e, q))
  BY <1>0, FS_Subset DEF Under
<1>3. IsFiniteSet(copies)
  <2>1. n - 1 \in Int /\ 1 \in Int
    OBVIOUS
  <2>2. IsFiniteSet(1..(n - 1))
    BY <2>1, FS_Interval
  <2> QED BY <1>2, <2>2, FS_Product
<1>4. IsFiniteSet(new)
  <2> DEFINE f == [c \in copies |-> copy(c[1], c[2])]
  <2>1. f \in Surjection(copies, new)
    BY DEF Surjection
  <2> HIDE DEF f, copies, new
  <2> QED BY <1>3, <2>1, FS_Surjection
<1>5. ASSUME NEW k \in Nat, NEW r \in DOMAIN e PROVE copy(k, r) \in Seq(Nat) \ {<<>>}
  <2>1. q \in Seq(Nat) /\ Len(q) \in Nat \ {0} /\ r \in Seq(Nat)
    BY <1>0, EmptySeq
  <2>2. [j \in 1..k |-> again] \in Seq(Nat)
    BY <1>1
  <2>3. SubSeq(r, Len(q) + 1, Len(r)) \in Seq(Nat)
    BY <2>1, SubSeqProperties
  <2> DEFINE agains == [j \in 1..k |-> again]
             below == SubSeq(r, Len(q) + 1, Len(r))
  <2> HIDE DEF again, agains, below
  <2>4. q \o agains \in Seq(Nat) /\ Len(q \o agains) \in Nat \ {0}
    <3>1. agains \in Seq(Nat)
      BY <2>2 DEF agains
    <3>2. q \o agains \in Seq(Nat) /\ Len(q \o agains) = Len(q) + Len(agains) /\ Len(agains) \in Nat
      BY <2>1, <3>1, ConcatProperties
    <3> QED BY <2>1, <3>2
  <2>5. q \o agains \o below \in Seq(Nat) /\ Len(q \o agains \o below) \in Nat \ {0}
    <3>1. below \in Seq(Nat)
      BY <2>3 DEF below
    <3>2. /\ q \o agains \o below \in Seq(Nat) /\ Len(below) \in Nat
          /\ Len(q \o agains \o below) = Len(q \o agains) + Len(below)
      BY <2>4, <3>1, ConcatProperties
    <3> QED BY <2>4, <3>2
  <2>6. q \o agains \o below \in Seq(Nat) \ {<<>>}
    BY <2>5, EmptySeq
  <2> QED BY <2>6 DEF agains, below
<1>6. \A c \in copies : c[1] \in Nat /\ c[2] \in DOMAIN e
  BY <1>2
<1>7. new \subseteq Seq(Nat) \ {<<>>}
  <2>1. \A c \in copies : copy(c[1], c[2]) \in Seq(Nat) \ {<<>>}
    BY <1>5, <1>6
  <2> HIDE DEF copies, copy
  <2> QED BY <2>1
<1>8. \A s \in DOMAIN e \cup new : Origin(s) \in DOMAIN e
  <2> SUFFICES ASSUME NEW s \in new, s \notin DOMAIN e PROVE Origin(s) \in DOMAIN e
    OBVIOUS
  <2>1. \E c \in copies : copy(c[1], c[2]) = s
    OBVIOUS
  <2> DEFINE c == CHOOSE c \in copies : copy(c[1], c[2]) = s
  <2>2. c \in copies
    BY <2>1
  <2>3. Origin(s) = c[2]
    OBVIOUS
  <2> HIDE DEF c, copies, Origin
  <2> QED BY <1>6, <2>2, <2>3
<1>9. all = [s \in DOMAIN e \cup new |-> IF Origin(s) = q THEN [e[q] EXCEPT !.levels = 0] ELSE e[Origin(s)]]
  BY Zenon DEF buildLevelsExpansion
<1>10. [e[q] EXCEPT !.levels = 0] \in OptionTypes
  BY <1>0 DEF OptionTypes
<1> HIDE DEF all, Origin, new, copies
<1>11. IsFiniteSet(DOMAIN e \cup new)
  BY <1>0, <1>4, FS_Union
<1>12. IsExpand(all)
  BY <1>0, <1>7, <1>8, <1>9, <1>10, <1>11 DEF IsExpand
<1> QED BY <1>12 DEF all

\* The policy's filter is one an option may have, and every option has it.
LEMMA PolicyKeepsOptions ==
  ASSUME NEW e, IsExpand(e), NEW p \in {"all", "val"}
  PROVE  /\ IsExpand(applyPolicyFiltersToExpand(e, p))
         /\ p = "val" => \A q \in DOMAIN applyPolicyFiltersToExpand(e, p) : "val" \in applyPolicyFiltersToExpand(e, p)[q].filter
<1> DEFINE g == applyPolicyFiltersToExpand(e, p)
<1>1. g = [q \in DOMAIN e |-> WithPolicy(e[q], p)]
  BY DEF applyPolicyFiltersToExpand
<1>2. ASSUME NEW opt \in OptionTypes
      PROVE  WithPolicy(opt, p) \in OptionTypes /\ (p = "val" => "val" \in WithPolicy(opt, p).filter)
  <2>1. opt.filter \cup ({p} \ {"all"}) \in SUBSET {"val"}
    BY DEF OptionTypes
  <2>2. WithPolicy(opt, p) = [opt EXCEPT !.filter = opt.filter \cup ({p} \ {"all"})]
    BY DEF WithPolicy
  <2>3. WithPolicy(opt, p) \in OptionTypes /\ WithPolicy(opt, p).filter = opt.filter \cup ({p} \ {"all"})
    BY <2>1, <2>2 DEF OptionTypes
  <2> QED BY <2>3
<1>3. \A q \in DOMAIN e : e[q] \in OptionTypes
  BY DEF IsExpand
<1> HIDE DEF g
<1>4. IsExpand(g)
  BY <1>1, <1>2, <1>3 DEF IsExpand
<1>5. p = "val" => \A q \in DOMAIN g : "val" \in g[q].filter
  BY <1>1, <1>2, <1>3
<1> QED BY <1>4, <1>5 DEF g

-----------------------------------------------------------------------------
(* The frames of ApplyPerParentExpand.                                     *)

\* collectParentKeyValues: every key of a parent, each once.
LEMMA KeysOnce ==
  ASSUME NEW objs \in Seq(Objects), NEW nav
  PROVE  /\ collectParentKeyValues(objs, nav) \in Seq(Int)
         /\ \A i, j \in DOMAIN collectParentKeyValues(objs, nav) :
              i # j => collectParentKeyValues(objs, nav)[i] # collectParentKeyValues(objs, nav)[j]
         /\ ToSet(collectParentKeyValues(objs, nav)) = {KeyOf(objs[i], nav) : i \in DOMAIN objs} \ {NoKey}
<1> DEFINE all == [i \in DOMAIN objs |-> KeyOf(objs[i], nav)]
           firsts == {i \in DOMAIN objs : KeyOf(objs[i], nav) # NoKey /\ \A j \in 1..(i - 1) : KeyOf(objs[j], nav) # KeyOf(objs[i], nav)}
           keys == collectParentKeyValues(objs, nav)
           c == Cardinality(firsts)
           order == InOrder(firsts)
<1>1. Len(objs) \in Nat /\ DOMAIN objs = 1..Len(objs) /\ \A i \in 1..Len(objs) : KeyOf(objs[i], nav) \in Int
  <2>1. Len(objs) \in Nat /\ DOMAIN objs = 1..Len(objs) /\ \A i \in 1..Len(objs) : objs[i] \in Objects
    OBVIOUS
  <2>2. \A o \in Objects : KeyOf(o, nav) \in Int
    BY DEF Objects, KeyOf
  <2> QED BY <2>1, <2>2
<1>2. all \in Seq(Int) /\ DOMAIN all = DOMAIN objs /\ \A i \in DOMAIN objs : all[i] = KeyOf(objs[i], nav)
  BY <1>1
<1>3. firsts \in SUBSET DOMAIN all
  BY <1>2
<1>4. keys = Pick(all, firsts)
  BY DEF collectParentKeyValues
<1>5. \A i \in firsts : i \in DOMAIN objs /\ i \in Nat /\ all[i] # NoKey /\ \A j \in 1..(i - 1) : all[j] # all[i]
  BY <1>1, <1>2
<1>6. \A i \in DOMAIN objs : all[i] # NoKey => \E j \in firsts : all[j] = all[i]
  <2> SUFFICES ASSUME NEW i \in DOMAIN objs, all[i] # NoKey PROVE \E j \in firsts : all[j] = all[i]
    OBVIOUS
  <2> DEFINE Same == {j \in DOMAIN objs : all[j] = all[i]}
  <2>1. Same \in SUBSET Nat /\ Same # {}
    BY <1>1
  <2>2. PICK j \in Same : \A m \in Same : j <= m
    BY <2>1, OneIsLeast
  <2>3. \A m \in 1..(j - 1) : m \in DOMAIN objs /\ m \notin Same
    BY <1>1, <2>2
  <2>4. j \in firsts
    BY <1>1, <1>2, <2>2, <2>3
  <2> QED BY <2>2, <2>4
<1> HIDE DEF all, firsts, keys
<1>7. /\ c \in Nat /\ keys \in Seq(Int) /\ DOMAIN keys = 1..c
      /\ \A i \in 1..c : order[i] \in firsts /\ keys[i] = all[order[i]]
      /\ \A i, j \in 1..c : i < j => order[i] < order[j]
      /\ \A p \in firsts : \E i \in 1..c : order[i] = p /\ keys[i] = all[p]
  <2>1. all \in Seq(Int) /\ firsts \in SUBSET DOMAIN all /\ keys = Pick(all, firsts)
    BY <1>2, <1>3, <1>4
  <2> HIDE <1>2, <1>3, <1>4
  <2> QED BY <2>1, PickKeeps
<1> HIDE DEF c, order
<1>7a. c \in Nat
  BY <1>7
<1>8. ASSUME NEW i \in 1..c, NEW j \in 1..c, i < j PROVE keys[i] # keys[j]
  <2>1. order[i] < order[j] /\ order[i] \in firsts /\ order[j] \in firsts
    BY <1>7, <1>8
  <2>2. order[i] \in 1..(order[j] - 1)
    <3>1. order[i] \in 1..Len(objs) /\ order[j] \in 1..Len(objs)
      BY <1>1, <1>5, <2>1
    <3> QED BY <1>1, <2>1, <3>1
  <2>3. all[order[i]] # all[order[j]]
    BY <1>5, <2>1, <2>2
  <2>4. keys[i] = all[order[i]] /\ keys[j] = all[order[j]]
    BY <1>7
  <2> QED BY <2>3, <2>4
<1>9. \A i, j \in DOMAIN keys : i # j => keys[i] # keys[j]
  <2> SUFFICES ASSUME NEW i \in 1..c, NEW j \in 1..c, i # j PROVE keys[i] # keys[j]
    BY <1>7
  <2>1. i < j \/ j < i
    BY <1>7a
  <2> QED BY <2>1, <1>8
<1>10. ToSet(keys) = {all[i] : i \in DOMAIN objs} \ {NoKey}
  <2>1. ASSUME NEW i \in DOMAIN keys PROVE keys[i] \in {all[m] : m \in DOMAIN objs} \ {NoKey}
    <3>1. order[i] \in firsts /\ keys[i] = all[order[i]]
      BY <1>7
    <3>2. order[i] \in DOMAIN objs /\ all[order[i]] # NoKey
      BY <1>5, <3>1
    <3> QED BY <3>1, <3>2
  <2>2. ASSUME NEW m \in DOMAIN objs, all[m] # NoKey PROVE \E i \in DOMAIN keys : keys[i] = all[m]
    <3>1. PICK j \in firsts : all[j] = all[m]
      BY <1>6, <2>2
    <3>2. PICK i \in 1..c : keys[i] = all[j]
      BY <1>7, <3>1
    <3>3. i \in DOMAIN keys
      BY <1>7
    <3> QED BY <3>1, <3>2, <3>3
  <2> QED BY <2>1, <2>2 DEF ToSet
<1>11. {all[i] : i \in DOMAIN objs} = {KeyOf(objs[i], nav) : i \in DOMAIN objs}
  BY <1>2
<1> QED BY <1>7, <1>9, <1>10, <1>11 DEF keys

\* A frame starts with every key unread.
LEMMA FrameStarts ==
  ASSUME NEW objs \in Seq(Objects), NEW list \in Seq(Nat), NEW next \in Nat,
         \A i \in DOMAIN objs : \A p \in objs[i].at : StandsBelow(p, list) /\ Last(p).row = objs[i].row,
         Append(list, next) \in DOMAIN expand
  PROVE  FrameInv(Frame(objs, list, next))
<1> DEFINE f == Frame(objs, list, next)
           nav == expand[Append(list, next)].nav
<1>1. /\ f.objs = objs /\ f.list = list /\ f.next = next /\ f.got = <<>>
      /\ f.keys = collectParentKeyValues(objs, nav)
  BY DEF Frame
<1>2. At(f) = Append(list, next)
  BY <1>1 DEF At
<1> HIDE DEF f
<1>3. /\ f.keys \in Seq(Int)
      /\ \A i, j \in DOMAIN f.keys : i # j => f.keys[i] # f.keys[j]
      /\ ToSet(f.keys) = {KeyOf(objs[i], nav) : i \in DOMAIN objs} \ {NoKey}
  BY <1>1, KeysOnce
<1>4. FrameTypes(f)
  <2> DEFINE keys == collectParentKeyValues(objs, nav)
  <2>1. f = [objs |-> objs, list |-> list, next |-> next, got |-> <<>>, keys |-> keys]
    BY DEF Frame, f
  <2> HIDE DEF keys
  <2>4. keys \in Seq(Int)
    BY <1>1, <1>3 DEF keys
  <2>2. <<>> \in Seq(Objects)
    BY EmptySeq
  <2>3. f \in Frames
    BY <2>1, <2>2, <2>4 DEF Frames
  <2> QED BY <1>1, <2>3 DEF FrameTypes
<1>5. ParentKeys(f) = ToSet(f.keys)
  BY <1>1, <1>2, <1>3 DEF ParentKeys
<1>6. \A k : Mine(f, k) = {}
  BY <1>1 DEF Mine
<1>7. BatchesAgree(f)
  BY <1>3, <1>5, <1>6 DEF BatchesAgree
<1> QED BY <1>2, <1>4, <1>7 DEF FrameInv, f

\* Frames that are put aside stay as they are while only rows change.
LEMMA FrameStays ==
  ASSUME UNCHANGED expand, states \subseteq states', NEW f, FrameInv(f)
  PROVE  FrameInv(f)'
<1>1. FrameTypes(f)'
  BY DEF FrameInv, FrameTypes, StandsBelow
<1>2. ParentKeys(f)' = ParentKeys(f) /\ \A k : Mine(f, k)' = Mine(f, k)
  BY DEF ParentKeys, Mine
<1>3. \A k, t : WereRead(f, k, t) => WereRead(f, k, t)'
  <2> SUFFICES ASSUME NEW k, NEW t, WereRead(f, k, t) PROVE WereRead(f, k, t)'
    OBVIOUS
  <2> QED BY <1>2 DEF WereRead
<1>4. BatchesAgree(f)'
  BY <1>2, <1>3 DEF FrameInv, BatchesAgree
<1> QED BY <1>1, <1>4 DEF FrameInv

\* So do the fields.
LEMMA FieldStays ==
  ASSUME UNCHANGED expand, states \subseteq states', NEW f, FieldsAgree(f)
  PROVE  FieldsAgree(f)'
<1>1. f.opt \in DOMAIN expand' /\ f.nav = expand'[f.opt].nav /\ f.at \in Seq(Hops) /\ StandsBelow(f.at, Front(f.opt))'
  BY DEF FieldsAgree, StandsBelow
<1>2. f.nav = "Children" =>
        \E t \in states' : \E s \in Orders(t, ChildRows(t, expand'[f.opt], {Last(f.at).row}), expand'[f.opt]) :
          f.rows = Window(s, expand'[f.opt])
  BY DEF FieldsAgree
<1>3. \A i \in DOMAIN f.rows : \E t \in states' : f.rows[i] \in DOMAIN t /\ PassesFilter(expand'[f.opt].filter, t[f.rows[i]])
  BY DEF FieldsAgree
<1> QED BY <1>1, <1>2, <1>3 DEF FieldsAgree

\* The stack keeps the frames that are not finished, in their order.
LEMMA StackKeeps ==
  ASSUME NEW stack \in Seq(Frames), \A i \in DOMAIN stack : ~Returns(stack[i]) => FrameInv(stack[i])
  PROVE  /\ Unfinished(stack) \in Seq(Frames)
         /\ \A i \in DOMAIN Unfinished(stack) : FrameInv(Unfinished(stack)[i])
<1> DEFINE P == {i \in DOMAIN stack : ~Returns(stack[i])}
           u == Unfinished(stack)
<1>1. u = Pick(stack, P) /\ P \in SUBSET DOMAIN stack
  BY DEF Unfinished
<1>2. P \subseteq DOMAIN stack /\ \A i \in P : FrameInv(stack[i])
  OBVIOUS
<1> HIDE DEF u, P
<1>3. /\ u \in Seq(Frames) /\ DOMAIN u = 1..Cardinality(P)
      /\ \A i \in 1..Cardinality(P) : InOrder(P)[i] \in P /\ u[i] = stack[InOrder(P)[i]]
  BY <1>1, PickKeeps
<1>4. \A i \in DOMAIN u : FrameInv(u[i])
  BY <1>2, <1>3
<1> QED BY <1>3, <1>4 DEF u

-----------------------------------------------------------------------------
(* The page of a parent.                                                   *)

\* A page stands in the sequence it is cut from, after the rows skipped.
LEMMA WindowCuts ==
  ASSUME NEW S, NEW s \in Seq(S), NEW opt \in OptionTypes
  PROVE  /\ Window(s, opt) \in Seq(S)
         /\ \A i \in DOMAIN Window(s, opt) : i \in Nat \ {0} /\ opt.skip + i \in DOMAIN s /\ Window(s, opt)[i] = s[opt.skip + i]
<1> DEFINE m == opt.skip + 1
           n == IF opt.top = NoTop \/ opt.skip + opt.top + 1 > Len(s) THEN Len(s) ELSE opt.skip + opt.top + 1
           w == Window(s, opt)
<1>1. opt.skip \in Nat /\ (opt.top \in Nat \/ opt.top = NoTop)
  BY DEF OptionTypes
<1>2. Len(s) \in Nat /\ DOMAIN s = 1..Len(s) /\ \A i \in 1..Len(s) : s[i] \in S
  OBVIOUS
<1>3. m \in Nat \ {0} /\ n \in Nat /\ n <= Len(s)
  BY <1>1, <1>2
<1>4. w = SubSeq(s, m, n)
  BY DEF Window
<1> HIDE DEF n, w
<1>5. \A i \in m..n : s[i] \in S
  BY <1>1, <1>2, <1>3
<1>6. w \in Seq(S) /\ Len(w) = (IF m <= n THEN n - m + 1 ELSE 0) /\ \A i \in 1..(n - m + 1) : w[i] = s[m + i - 1]
  BY <1>3, <1>4, <1>5, SubSeqProperties
<1>7. ASSUME NEW i \in DOMAIN w PROVE i \in Nat \ {0} /\ opt.skip + i \in DOMAIN s /\ w[i] = s[opt.skip + i]
  <2>1. DOMAIN w = 1..Len(w)
    BY <1>6
  <2>2. i \in 1..(n - m + 1)
    BY <1>3, <1>6, <2>1
  <2>3. i \in Nat \ {0} /\ opt.skip + i <= n
    BY <1>1, <1>3, <2>2
  <2>4. opt.skip + i \in 1..Len(s) /\ m + i - 1 = opt.skip + i
    BY <1>1, <1>2, <1>3, <2>3
  <2> QED BY <1>2, <1>6, <2>2, <2>3, <2>4
<1> QED BY <1>6, <1>7 DEF w

RowsOf(s) == [i \in DOMAIN s |-> s[i].row]

\* The rows of objects.
LEMMA RowsAreKeys ==
  ASSUME NEW s \in Seq(Objects)
  PROVE  RowsOf(s) \in Seq(Int) /\ Len(RowsOf(s)) = Len(s) /\ DOMAIN RowsOf(s) = DOMAIN s /\ \A i \in DOMAIN s : RowsOf(s)[i] = s[i].row
<1>1. Len(s) \in Nat /\ DOMAIN s = 1..Len(s) /\ \A i \in 1..Len(s) : s[i].row \in Int
  <2>1. Len(s) \in Nat /\ DOMAIN s = 1..Len(s) /\ \A i \in 1..Len(s) : s[i] \in Objects
    OBVIOUS
  <2> QED BY <2>1 DEF Objects
<1>2. RowsOf(s) = [i \in 1..Len(s) |-> s[i].row]
  BY <1>1 DEF RowsOf
<1>3. RowsOf(s) \in [1..Len(s) -> Int]
  BY <1>1, <1>2
<1>4. RowsOf(s) \in Seq(Int) /\ Len(RowsOf(s)) = Len(s)
  BY <1>1, <1>3
<1> QED BY <1>1, <1>2, <1>4

\* The rows of a page are the page of the rows.
LEMMA WindowOfRows ==
  ASSUME NEW s \in Seq(Objects), NEW opt \in OptionTypes
  PROVE  RowsOf(Window(s, opt)) = Window(RowsOf(s), opt)
<1> DEFINE r == RowsOf(s)
           w == Window(s, opt)
           n == IF opt.top = NoTop \/ opt.skip + opt.top + 1 > Len(s) THEN Len(s) ELSE opt.skip + opt.top + 1
           m == opt.skip + 1
<1>1. opt.skip \in Nat /\ (opt.top \in Nat \/ opt.top = NoTop)
  BY DEF OptionTypes
<1>2. r \in Seq(Int) /\ Len(r) = Len(s) /\ DOMAIN r = DOMAIN s /\ \A i \in DOMAIN s : r[i] = s[i].row
  BY RowsAreKeys
<1>3. Len(s) \in Nat /\ DOMAIN s = 1..Len(s) /\ \A i \in 1..Len(s) : s[i] \in Objects /\ r[i] \in Int
  BY <1>2
<1>4. m \in Nat \ {0} /\ n \in Nat /\ n <= Len(s)
  BY <1>1, <1>3
<1>5. w = SubSeq(s, m, n) /\ Window(r, opt) = SubSeq(r, m, n)
  BY <1>2 DEF Window
<1> HIDE DEF n, m, w, r
<1>6. \A i \in m..n : i \in 1..Len(s)
  BY <1>3, <1>4
<1>7. w \in Seq(Objects) /\ Len(w) = (IF m <= n THEN n - m + 1 ELSE 0) /\ \A i \in 1..(n - m + 1) : w[i] = s[m + i - 1]
  BY <1>3, <1>4, <1>5, <1>6, SubSeqProperties
<1>8. /\ SubSeq(r, m, n) \in Seq(Int) /\ Len(SubSeq(r, m, n)) = (IF m <= n THEN n - m + 1 ELSE 0)
      /\ \A i \in 1..(n - m + 1) : SubSeq(r, m, n)[i] = r[m + i - 1]
  BY <1>3, <1>4, <1>6, SubSeqProperties
<1>9. RowsOf(w) \in Seq(Int) /\ Len(RowsOf(w)) = Len(w) /\ \A i \in 1..Len(w) : RowsOf(w)[i] = w[i].row
  BY <1>7, RowsAreKeys
<1>10. \A i \in 1..Len(w) : RowsOf(w)[i] = SubSeq(r, m, n)[i]
  <2> SUFFICES ASSUME NEW i \in 1..Len(w) PROVE RowsOf(w)[i] = SubSeq(r, m, n)[i]
    OBVIOUS
  <2>1. i \in 1..(n - m + 1) /\ m + i - 1 \in m..n
    BY <1>4, <1>7
  <2>2. r[m + i - 1] = s[m + i - 1].row
    BY <1>2, <1>3, <1>6, <2>1
  <2> QED BY <1>7, <1>8, <1>9, <2>1, <2>2
<1>11. RowsOf(w) = SubSeq(r, m, n)
  BY <1>7, <1>8, <1>9, <1>10, SeqEqual
<1> QED BY <1>5, <1>11 DEF w, r

\* The children of a parent that were read in one statement, picked in their
\* order, are its rows in an order the statement may give.
LEMMA MineAreOrdered ==
  ASSUME NEW fr, fr.got \in Seq(Objects), NEW k, NEW t, WereRead(fr, k, t), IsTable(t),
         expand[At(fr)] \in OptionTypes
  PROVE  RowsOf(Pick(fr.got, Mine(fr, k))) \in Orders(t, ChildRows(t, expand[At(fr)], {k}), expand[At(fr)])
<1> DEFINE opt == expand[At(fr)]
           P == Mine(fr, k)
           C == ChildRows(t, opt, {k})
           mine == Pick(fr.got, P)
           r == RowsOf(mine)
           c == Cardinality(P)
           order == InOrder(P)
<1>1. P \in SUBSET DOMAIN fr.got
  BY DEF Mine
<1>2. /\ {fr.got[i].row : i \in P} = C
      /\ \A i, j \in P : i < j => fr.got[i].row # fr.got[j].row /\ (opt.desc => t[fr.got[i].row].val >= t[fr.got[j].row].val)
  BY DEF WereRead
<1> HIDE DEF P, C, mine, opt
<1>3. /\ c \in Nat /\ mine \in Seq(Objects) /\ DOMAIN mine = 1..c
      /\ \A i \in 1..c : order[i] \in P /\ mine[i] = fr.got[order[i]]
      /\ \A i, j \in 1..c : i < j => order[i] < order[j]
      /\ \A p \in P : \E i \in 1..c : order[i] = p /\ mine[i] = fr.got[p]
  BY <1>1, PickKeeps DEF mine
<1> HIDE DEF c, order
<1>4. DOMAIN r = 1..c /\ \A i \in 1..c : r[i] = fr.got[order[i]].row
  BY <1>3 DEF RowsOf
<1>5. \A i \in 1..c : r[i] \in C
  BY <1>2, <1>3, <1>4
<1>6. r \in [1..c -> C]
  BY <1>4, <1>5 DEF RowsOf
<1>7. \A i, j \in 1..c : i < j => r[i] # r[j] /\ (opt.desc => t[r[i]].val >= t[r[j]].val)
  <2> SUFFICES ASSUME NEW i \in 1..c, NEW j \in 1..c, i < j
               PROVE  r[i] # r[j] /\ (opt.desc => t[r[i]].val >= t[r[j]].val)
    OBVIOUS
  <2>1. order[i] \in P /\ order[j] \in P /\ order[i] < order[j]
    BY <1>3
  <2>2. r[i] = fr.got[order[i]].row /\ r[j] = fr.got[order[j]].row
    BY <1>4
  <2> QED BY <1>2, <2>1, <2>2
<1>8. \A i, j \in 1..c : i # j => r[i] # r[j]
  <2> SUFFICES ASSUME NEW i \in 1..c, NEW j \in 1..c, i # j PROVE r[i] # r[j]
    OBVIOUS
  <2>0. c \in Nat
    BY <1>3
  <2>1. i < j \/ j < i
    BY <2>0
  <2> HIDE DEF r
  <2> QED BY <2>1, <1>7
<1>9. \A x \in C : \E i \in 1..c : r[i] = x
  BY <1>2, <1>3, <1>4
<1>10. r \in SetToSeqs(C)
  <2>1. c \in Nat
    BY <1>3
  <2> HIDE DEF r
  <2> QED BY <1>6, <1>8, <1>9, <2>1, IsListing
<1> HIDE DEF r
<1>11. r \in Orders(t, C, opt)
  BY <1>4, <1>7, <1>10 DEF Orders
<1> QED BY <1>11 DEF r, mine, C, P, opt

\* PageOf: objects that were read, the rows of one of the parent's pages.
LEMMA PageRows ==
  ASSUME NEW fr, fr.got \in Seq(Objects), NEW k, expand[At(fr)] \in OptionTypes
  PROVE  /\ PageOf(fr, k) \in Seq(Objects)
         /\ \A i \in DOMAIN PageOf(fr, k) : \E j \in Mine(fr, k) : PageOf(fr, k)[i] = fr.got[j]
         /\ expand[At(fr)].nav = "Children" => RowsOf(PageOf(fr, k)) = Window(RowsOf(Pick(fr.got, Mine(fr, k))), expand[At(fr)])
<1> DEFINE opt == expand[At(fr)]
           P == Mine(fr, k)
           mine == Pick(fr.got, P)
           page == Window(mine, opt)
<1>1. PageOf(fr, k) = IF opt.nav = "Parent" /\ page # <<>> THEN <<page[1]>> ELSE page
  BY DEF PageOf, Mine
<1>2. P \in SUBSET DOMAIN fr.got
  BY DEF Mine
<1> HIDE DEF P, mine, opt
<1>3. /\ mine \in Seq(Objects) /\ DOMAIN mine = 1..Cardinality(P)
      /\ \A i \in 1..Cardinality(P) : InOrder(P)[i] \in P /\ mine[i] = fr.got[InOrder(P)[i]]
  <2>1. mine = Pick(fr.got, P)
    BY DEF mine
  <2> QED BY <1>2, <2>1, PickKeeps
<1>4. opt \in OptionTypes
  BY DEF opt
<1>5. page \in Seq(Objects) /\ \A i \in DOMAIN page : opt.skip + i \in DOMAIN mine /\ page[i] = mine[opt.skip + i]
  <2> HIDE DEF page
  <2>1. page = Window(mine, opt)
    BY DEF page
  <2>2. mine \in Seq(Objects)
    BY <1>3
  <2>3. /\ Window(mine, opt) \in Seq(Objects)
        /\ \A i \in DOMAIN Window(mine, opt) : opt.skip + i \in DOMAIN mine /\ Window(mine, opt)[i] = mine[opt.skip + i]
    BY <1>4, <2>2, WindowCuts
  <2> QED BY <2>1, <2>3
<1>6. RowsOf(page) = Window(RowsOf(mine), opt)
  BY <1>3, <1>4, WindowOfRows
<1> HIDE DEF page
<1>7. \A i \in DOMAIN page : \E j \in P : page[i] = fr.got[j]
  BY <1>3, <1>5
<1>8. CASE opt.nav = "Parent" /\ page # <<>>
  <2>1. Len(page) \in Nat \ {0} /\ 1 \in DOMAIN page /\ page[1] \in Objects
    BY <1>5, <1>8, EmptySeq
  <2>2. PageOf(fr, k) = <<page[1]>> /\ DOMAIN <<page[1]>> = {1} /\ <<page[1]>>[1] = page[1]
    BY <1>1, <1>8
  <2>3. <<page[1]>> \in Seq(Objects)
    BY <2>1
  <2> QED BY <1>7, <1>8, <2>1, <2>2, <2>3 DEF P, opt
<1>9. CASE ~(opt.nav = "Parent" /\ page # <<>>)
  <2>1. PageOf(fr, k) = page
    BY <1>1, <1>9
  <2> QED BY <1>5, <1>6, <1>7, <2>1 DEF P, mine, opt
<1> QED BY <1>8, <1>9

-----------------------------------------------------------------------------
(* Reading a batch.                                                        *)

\* A statement returns every child of its keys once, as a row of the table.
LEMMA StatementRows ==
  ASSUME NEW t, IsTable(t), NEW opt, NEW keys, NEW s \in ChildStatement(t, opt, keys)
  PROVE  /\ s \in Seq(Objects) /\ Len(s) \in Nat
         /\ \A i \in 1..Len(s) : s[i].row \in ChildRows(t, opt, keys) /\ GroupKey(s[i], opt.nav) = ParentKey(t, s[i].row, opt.nav)
         /\ \A r \in ChildRows(t, opt, keys) : \E i \in 1..Len(s) : s[i].row = r
         /\ \A i, j \in 1..Len(s) : i < j => s[i].row # s[j].row /\ (opt.desc => t[s[i].row].val >= t[s[j].row].val)
<1> DEFINE C == ChildRows(t, opt, keys)
<1>1. PICK o \in Orders(t, C, opt) : s = Scan(t, o)
  BY DEF ChildStatement
<1>2. IsFiniteSet(C) /\ C \subseteq DOMAIN t /\ \A r \in DOMAIN t : r \in Int /\ t[r].up \in Int
  BY ExpandAssumption, FS_Subset DEF IsTable, ChildRows
<1>3. o \in SetToSeqs(C) /\ \A i, j \in DOMAIN o : i < j => (opt.desc => t[o[i]].val >= t[o[j]].val)
  BY <1>1 DEF Orders
<1> HIDE DEF C
<1>4. /\ Cardinality(C) \in Nat /\ DOMAIN o = 1..Cardinality(C) /\ \A i \in DOMAIN o : o[i] \in C
      /\ \A i, j \in DOMAIN o : i # j => o[i] # o[j]
      /\ \A x \in C : \E i \in DOMAIN o : o[i] = x
  BY <1>2, <1>3, ListsAll
<1>5. DOMAIN s = 1..Cardinality(C) /\ \A i \in 1..Cardinality(C) : s[i] = [row |-> o[i], up |-> t[o[i]].up, at |-> {}]
  BY <1>1, <1>4 DEF Scan, Object
<1>6. \A i \in 1..Cardinality(C) : s[i] \in Objects
  BY <1>2, <1>4, <1>5 DEF Objects
<1>7. s \in [1..Cardinality(C) -> Objects]
  BY <1>1, <1>4, <1>5, <1>6 DEF Scan
<1>8. s \in Seq(Objects) /\ Len(s) = Cardinality(C)
  BY <1>4, <1>7
<1>9. \A i \in 1..Len(s) : s[i].row = o[i] /\ s[i].up = t[o[i]].up
  BY <1>5, <1>8
<1>10. \A i \in 1..Len(s) : GroupKey(s[i], opt.nav) = ParentKey(t, s[i].row, opt.nav)
  BY <1>9 DEF GroupKey, ParentKey
<1>11. \A i, j \in 1..Len(s) : i < j => s[i].row # s[j].row /\ (opt.desc => t[s[i].row].val >= t[s[j].row].val)
  BY <1>3, <1>4, <1>8, <1>9
<1> QED BY <1>4, <1>8, <1>9, <1>10, <1>11 DEF C

\* The keys left after the first n: the others, still once each.
LEMMA KeysLeft ==
  ASSUME NEW keys \in Seq(Int), NEW n \in 0..Len(keys),
         \A i, j \in DOMAIN keys : i # j => keys[i] # keys[j]
  PROVE  /\ \A i, j \in DOMAIN SubSeq(keys, n + 1, Len(keys)) :
              i # j => SubSeq(keys, n + 1, Len(keys))[i] # SubSeq(keys, n + 1, Len(keys))[j]
         /\ ToSet(SubSeq(keys, n + 1, Len(keys))) = ToSet(keys) \ {keys[i] : i \in 1..n}
<1> DEFINE left == SubSeq(keys, n + 1, Len(keys))
           K == {keys[i] : i \in 1..n}
           l == Len(keys)
<1>1. l \in Nat /\ DOMAIN keys = 1..l /\ \A i \in 1..l : keys[i] \in Int
  OBVIOUS
<1>0. l \in Nat /\ n \in 0..l
  OBVIOUS
<1> HIDE DEF left, K, l
<1> DEFINE d == l - n
<1>2. n + 1 \in Int /\ l \in Int /\ n <= l /\ d \in Nat /\ (IF n + 1 <= l THEN l - (n + 1) + 1 ELSE 0) = d /\ l - (n + 1) + 1 = d
  BY <1>0
<1>3. \A i \in (n + 1)..l : keys[i] \in Int
  BY <1>1
<1>4. /\ left \in Seq(Int) /\ Len(left) = (IF n + 1 <= l THEN l - (n + 1) + 1 ELSE 0)
      /\ \A i \in 1..(l - (n + 1) + 1) : left[i] = keys[n + 1 + i - 1]
  <2>1. left = SubSeq(keys, n + 1, l)
    BY DEF left, l
  <2> QED BY <1>2, <1>3, <2>1, SubSeqProperties
<1> HIDE DEF d
<1>5. \A i \in 1..d : n + i \in 1..l /\ n + 1 + i - 1 = n + i
  BY <1>1, <1>2
<1>6. DOMAIN left = 1..d
  BY <1>2, <1>4
<1>7. \A i \in 1..d : n + i \in 1..l /\ left[i] = keys[n + i]
  BY <1>2, <1>4, <1>5
<1>8. \A i, j \in 1..d : i # j => n + i # n + j
  BY <1>2
<1>9. \A i, j \in DOMAIN left : i # j => left[i] # left[j]
  BY <1>1, <1>6, <1>7, <1>8
<1>10. ASSUME NEW i \in 1..d PROVE left[i] \in ToSet(keys) \ K
  <2>1. n + i \in 1..l /\ \A j \in 1..n : j \in 1..l /\ j # n + i
    BY <1>2, <1>5
  <2>2. keys[n + i] \in ToSet(keys) /\ keys[n + i] \notin K
    BY <1>1, <2>1 DEF ToSet, K
  <2> QED BY <1>7, <2>2
<1>11. ASSUME NEW j \in 1..l, keys[j] \notin K PROVE \E i \in 1..d : left[i] = keys[j]
  <2>1. j \notin 1..n
    BY <1>11 DEF K
  <2>2. j - n \in 1..d /\ n + (j - n) = j
    BY <1>2, <2>1
  <2> QED BY <1>7, <2>2
<1>12. ToSet(left) = ToSet(keys) \ K
  <2>1. ToSet(left) = {left[i] : i \in 1..d} /\ ToSet(keys) = {keys[i] : i \in 1..l}
    BY <1>1, <1>6 DEF ToSet
  <2> QED BY <1>10, <1>11, <2>1
<1> QED BY <1>9, <1>12 DEF left, K, l

\* Two runs of objects, one behind the other.
LEMMA Behind ==
  ASSUME NEW S, NEW got \in Seq(S), NEW s \in Seq(S)
  PROVE  /\ \A i \in 1..Len(got) : i \in DOMAIN (got \o s) /\ (got \o s)[i] = got[i]
         /\ \A i \in 1..Len(s) : Len(got) + i \in DOMAIN (got \o s) /\ (got \o s)[Len(got) + i] = s[i]
         /\ \A i \in DOMAIN (got \o s) : i \in 1..Len(got) \/ \E j \in 1..Len(s) : i = Len(got) + j
<1> DEFINE g == got \o s
           l == Len(got)
           m == Len(s)
<1>1. l \in Nat /\ m \in Nat
  OBVIOUS
<1>2. g \in Seq(S) /\ Len(g) = l + m /\ \A i \in 1..(l + m) : g[i] = IF i <= l THEN got[i] ELSE s[i - l]
  BY ConcatProperties
<1>3. DOMAIN g = 1..(l + m)
  BY <1>2
<1> HIDE DEF g, l, m
<1>4. \A i \in 1..l : i \in DOMAIN g /\ g[i] = got[i]
  BY <1>1, <1>2, <1>3
<1>5. ASSUME NEW i \in 1..m PROVE l + i \in DOMAIN g /\ g[l + i] = s[i]
  <2> DEFINE j == l + i
  <2>1. j \in 1..(l + m) /\ ~(j <= l) /\ j - l = i
    BY <1>1
  <2> HIDE DEF j
  <2>2. g[j] = s[i]
    BY <1>2, <2>1
  <2> QED BY <1>3, <2>1, <2>2 DEF j
<1>6. ASSUME NEW i \in DOMAIN g PROVE i \in 1..l \/ \E j \in 1..m : i = l + j
  <2>1. i \in 1..l \/ (i - l \in 1..m /\ i = l + (i - l))
    BY <1>1, <1>3
  <2> QED BY <2>1
<1> QED BY <1>4, <1>5, <1>6 DEF g, l, m

BatchAdded(fr, new, n, s) ==
  /\ new \in Frames /\ new.objs = fr.objs /\ new.list = fr.list /\ new.next = fr.next
  /\ new.got = fr.got \o s /\ new.keys = SubSeq(fr.keys, n + 1, Len(fr.keys))

\* With the next batch read, its keys have all their children, and the others
\* what they had.
LEMMA BatchIsRead ==
  ASSUME NEW fr, FrameInv(fr), expandTable \in states, IsTable(expandTable),
         NEW n \in 0..Len(fr.keys),
         NEW s \in ChildStatement(expandTable, expand[At(fr)], {fr.keys[i] : i \in 1..n}),
         NEW new, BatchAdded(fr, new, n, s)
  PROVE  FrameInv(new)
<1> DEFINE opt == expand[At(fr)]
           keys == fr.keys
           K == {keys[i] : i \in 1..n}
           t == expandTable
           G == Len(fr.got)
<1>1. At(new) = At(fr) /\ ParentKeys(new) = ParentKeys(fr)
  BY DEF At, ParentKeys, BatchAdded
<1>2. FrameTypes(new)
  BY DEF FrameInv, FrameTypes, BatchAdded
<1>3. /\ fr.got \in Seq(Objects) /\ keys \in Seq(Int) /\ G \in Nat /\ Len(keys) \in Nat /\ DOMAIN keys = 1..Len(keys)
      /\ DOMAIN fr.got = 1..G
  BY DEF FrameInv, FrameTypes, Frames
<1>4. /\ \A i, j \in DOMAIN keys : i # j => keys[i] # keys[j]
      /\ ToSet(keys) \subseteq ParentKeys(fr)
      /\ \A k \in ParentKeys(fr) : IF k \in ToSet(keys) THEN Mine(fr, k) = {} ELSE \E u \in states : WereRead(fr, k, u)
  BY DEF FrameInv, BatchesAgree
<1>5. /\ s \in Seq(Objects) /\ Len(s) \in Nat
      /\ \A i \in 1..Len(s) : s[i].row \in ChildRows(t, opt, K) /\ GroupKey(s[i], opt.nav) = ParentKey(t, s[i].row, opt.nav)
      /\ \A r \in ChildRows(t, opt, K) : \E i \in 1..Len(s) : s[i].row = r
      /\ \A i, j \in 1..Len(s) : i < j => s[i].row # s[j].row /\ (opt.desc => t[s[i].row].val >= t[s[j].row].val)
  BY StatementRows
<1> HIDE DEF opt, keys, K, t, G
<1>6. /\ \A i \in 1..G : i \in DOMAIN new.got /\ new.got[i] = fr.got[i]
      /\ \A i \in 1..Len(s) : G + i \in DOMAIN new.got /\ new.got[G + i] = s[i]
      /\ \A i \in DOMAIN new.got : i \in 1..G \/ \E j \in 1..Len(s) : i = G + j
  <2>1. new.got = fr.got \o s
    BY DEF BatchAdded
  <2> QED BY <1>3, <1>5, <2>1, Behind DEF G
<1>7. /\ \A i, j \in DOMAIN new.keys : i # j => new.keys[i] # new.keys[j]
      /\ ToSet(new.keys) = ToSet(keys) \ K
  <2>1. new.keys = SubSeq(keys, n + 1, Len(keys)) /\ n \in 0..Len(keys)
    BY DEF keys, BatchAdded
  <2> QED BY <1>3, <1>4, <2>1, KeysLeft DEF K
<1>8. \A k : Mine(new, k) = {i \in DOMAIN new.got : GroupKey(new.got[i], opt.nav) = k}
  BY <1>1 DEF Mine, opt
<1>9. \A k : Mine(fr, k) = {i \in 1..G : GroupKey(fr.got[i], opt.nav) = k}
  BY <1>3 DEF Mine, opt
<1>10. \A i \in 1..Len(s) : GroupKey(s[i], opt.nav) \in K
  BY <1>5 DEF ChildRows
<1>11. ASSUME NEW k \in K, k \in ToSet(keys) PROVE WereRead(new, k, t)
  <2>1. k \in ParentKeys(fr) /\ Mine(fr, k) = {}
    BY <1>4, <1>11
  <2>2. ASSUME NEW i \in Mine(new, k)
        PROVE  \E j \in 1..Len(s) : i = G + j /\ new.got[i] = s[j] /\ GroupKey(s[j], opt.nav) = k
    <3>1. i \in DOMAIN new.got /\ GroupKey(new.got[i], opt.nav) = k
      BY <1>8
    <3>2. i \notin 1..G
      BY <1>6, <1>9, <2>1, <3>1
    <3> QED BY <1>6, <3>1, <3>2
  <2>3. {new.got[i].row : i \in Mine(new, k)} = ChildRows(t, opt, {k})
    <3>1. ASSUME NEW i \in Mine(new, k) PROVE new.got[i].row \in ChildRows(t, opt, {k})
      <4>1. PICK j \in 1..Len(s) : new.got[i] = s[j] /\ GroupKey(s[j], opt.nav) = k
        BY <2>2
      <4> QED BY <1>5, <4>1 DEF ChildRows
    <3>2. ASSUME NEW r \in ChildRows(t, opt, {k}) PROVE \E i \in Mine(new, k) : new.got[i].row = r
      <4>1. r \in ChildRows(t, opt, K) /\ ParentKey(t, r, opt.nav) = k
        BY DEF ChildRows
      <4>2. PICK i \in 1..Len(s) : s[i].row = r
        BY <1>5, <4>1
      <4>3. GroupKey(s[i], opt.nav) = k
        BY <1>5, <4>1, <4>2
      <4>4. G + i \in Mine(new, k) /\ new.got[G + i].row = r
        BY <1>6, <1>8, <4>2, <4>3
      <4> QED BY <4>4
    <3> QED BY <3>1, <3>2
  <2>4. ASSUME NEW i \in Mine(new, k), NEW j \in Mine(new, k), i < j
        PROVE  new.got[i].row # new.got[j].row /\ (opt.desc => t[new.got[i].row].val >= t[new.got[j].row].val)
    <3>1. PICK p \in 1..Len(s) : i = G + p /\ new.got[i] = s[p]
      BY <2>2
    <3>2. PICK q \in 1..Len(s) : j = G + q /\ new.got[j] = s[q]
      BY <2>2
    <3>3. p < q
      BY <1>3, <1>5, <2>4, <3>1, <3>2
    <3> QED BY <1>5, <3>1, <3>2, <3>3
  <2> QED BY <1>1, <2>3, <2>4 DEF WereRead, opt
<1>12. ASSUME NEW k, k \notin K
       PROVE  Mine(new, k) = Mine(fr, k) /\ \A i \in Mine(fr, k) : new.got[i] = fr.got[i]
  <2>1. ASSUME NEW i \in Mine(new, k) PROVE i \in Mine(fr, k)
    <3>1. i \in DOMAIN new.got /\ GroupKey(new.got[i], opt.nav) = k
      BY <1>8
    <3>2. i \in 1..G
      BY <1>6, <1>10, <1>12, <3>1
    <3> QED BY <1>6, <1>9, <3>1, <3>2
  <2>2. ASSUME NEW i \in Mine(fr, k) PROVE i \in Mine(new, k) /\ new.got[i] = fr.got[i]
    BY <1>6, <1>8, <1>9
  <2> QED BY <2>1, <2>2
<1>13. ASSUME NEW k, k \notin K, NEW u \in states, WereRead(fr, k, u) PROVE WereRead(new, k, u)
  <2>1. /\ {fr.got[i].row : i \in Mine(fr, k)} = ChildRows(u, opt, {k})
        /\ \A i, j \in Mine(fr, k) : i < j => fr.got[i].row # fr.got[j].row /\ (opt.desc => u[fr.got[i].row].val >= u[fr.got[j].row].val)
    BY <1>13 DEF WereRead, opt
  <2>2. Mine(new, k) = Mine(fr, k) /\ \A i \in Mine(fr, k) : new.got[i] = fr.got[i]
    BY <1>12, <1>13
  <2>3. {new.got[i].row : i \in Mine(new, k)} = ChildRows(u, opt, {k})
    <3>1. {new.got[i].row : i \in Mine(fr, k)} = {fr.got[i].row : i \in Mine(fr, k)}
      BY <2>2
    <3> QED BY <2>1, <2>2, <3>1
  <2>4. \A i, j \in Mine(new, k) : i < j => new.got[i].row # new.got[j].row /\ (opt.desc => u[new.got[i].row].val >= u[new.got[j].row].val)
    BY <2>1, <2>2
  <2> QED BY <1>1, <2>3, <2>4 DEF WereRead, opt
<1>14. ASSUME NEW k \in ParentKeys(fr)
       PROVE  IF k \in ToSet(new.keys) THEN Mine(new, k) = {} ELSE \E u \in states : WereRead(new, k, u)
  <2>1. CASE k \in K
    <3>1. k \in ToSet(keys)
      <4>1. \A i \in 1..n : i \in DOMAIN keys
        BY <1>3 DEF keys
      <4> QED BY <2>1, <4>1 DEF K, ToSet
    <3> QED BY <1>7, <1>11, <2>1, <3>1 DEF t
  <2>2. CASE k \notin K
    BY <1>4, <1>7, <1>12, <1>13, <1>14, <2>2
  <2> QED BY <2>1, <2>2
<1>15. BatchesAgree(new)
  BY <1>1, <1>4, <1>7, <1>14 DEF BatchesAgree
<1> QED BY <1>1, <1>2, <1>15 DEF FrameInv

-----------------------------------------------------------------------------
(* Setting the fields and calling deeper.                                  *)

\* A frame has its form, whether or not there is an option for it.
LEMMA FrameHasForm ==
  ASSUME NEW objs \in Seq(Objects), NEW list \in Seq(Nat), NEW next \in Nat
  PROVE  Frame(objs, list, next) \in Frames /\ At(Frame(objs, list, next)) = Append(list, next)
<1> DEFINE keys == IF Append(list, next) \in DOMAIN expand THEN collectParentKeyValues(objs, expand[Append(list, next)].nav) ELSE <<>>
<1>1. Frame(objs, list, next) = [objs |-> objs, list |-> list, next |-> next, got |-> <<>>, keys |-> keys]
  BY DEF Frame
<1>2. keys \in Seq(Int)
  BY KeysOnce, EmptySeq
<1>3. <<>> \in Seq(Objects)
  BY EmptySeq
<1> HIDE DEF keys
<1> QED BY <1>1, <1>2, <1>3 DEF Frames, At

\* One step deeper in the result is one option deeper in the list.
LEMMA StandsDeeper ==
  ASSUME NEW p \in Seq(Hops), NEW list \in Seq(Nat), StandsBelow(p, list), NEW next \in Nat,
         Append(list, next) \in DOMAIN expand, NEW h \in Hops, h.nav = expand[Append(list, next)].nav
  PROVE  /\ Append(p, h) \in Seq(Hops) /\ StandsBelow(Append(p, h), Append(list, next)) /\ Last(Append(p, h)) = h
<1> DEFINE q == Append(list, next)
           d == Append(p, h)
           l == Len(list)
<1>1. l \in Nat /\ Len(p) = l + 1 /\ \A k \in 1..l : SubSeq(list, 1, k) \in DOMAIN expand /\ expand[SubSeq(list, 1, k)].nav = p[k + 1].nav
  BY DEF StandsBelow
<1>2. /\ q \in Seq(Nat) /\ Len(q) = l + 1
      /\ d \in Seq(Hops) /\ Len(d) = l + 2 /\ d[l + 2] = h /\ \A k \in 1..(l + 1) : d[k] = p[k]
  BY <1>1, AppendProperties
<1>3. SubSeq(q, 1, l + 1) = q
  BY <1>2, SubSeqFull
<1>4. \A k \in 1..l : SubSeq(q, 1, k) = SubSeq(list, 1, k)
  <2>1. <<next>> \in Seq(Nat) /\ q = list \o <<next>>
    BY AppendIsConcat
  <2> SUFFICES ASSUME NEW k \in 1..l PROVE SubSeq(q, 1, k) = SubSeq(list, 1, k)
    OBVIOUS
  <2>2. 1 \in 1..l
    BY <1>1
  <2> QED BY <2>1, <2>2, SubSeqOfConcat1
<1> HIDE DEF q, d, l
<1>5. ASSUME NEW k \in 1..(l + 1) PROVE SubSeq(q, 1, k) \in DOMAIN expand /\ expand[SubSeq(q, 1, k)].nav = d[k + 1].nav
  <2>1. CASE k = l + 1
    <3>1. k + 1 = l + 2
      BY <1>1, <2>1
    <3> QED BY <1>2, <1>3, <2>1, <3>1 DEF q
  <2>2. CASE k # l + 1
    <3>1. k \in 1..l /\ k + 1 \in 1..(l + 1)
      BY <1>1, <2>2
    <3> QED BY <1>1, <1>2, <1>4, <3>1
  <2> QED BY <2>1, <2>2
<1>6. StandsBelow(d, q)
  <2>1. Len(d) = Len(q) + 1
    BY <1>1, <1>2
  <2> QED BY <1>2, <1>5, <2>1 DEF StandsBelow
<1>7. Last(d) = h
  BY <1>2 DEF Last
<1> QED BY <1>2, <1>6, <1>7 DEF d, q

\* With nothing left to read every parent has its children.
LEMMA AllAreRead ==
  ASSUME NEW fr, FrameInv(fr), fr.keys = <<>>, NEW k \in ParentKeys(fr)
  PROVE  \E t \in states : WereRead(fr, k, t)
<1>1. k \notin ToSet(fr.keys)
  BY DEF ToSet
<1> QED BY <1>1 DEF FrameInv, BatchesAgree

\* A field that is set is the page of its parent in one state.
LEMMA NewFieldsAgree ==
  ASSUME NEW fr, FrameInv(fr), fr.keys = <<>>, IsExpand(expand), \A t \in states : IsTable(t), NEW f \in NewFields(fr)
  PROVE  FieldsAgree(f)
<1> DEFINE opt == expand[At(fr)]
<1>0. PICK k \in ParentKeys(fr) :
        \E p \in Places(fr, k) : f = [at |-> p, nav |-> opt.nav, opt |-> At(fr), rows |-> RowsOf(PageOf(fr, k))]
  BY DEF NewFields, RowsOf
<1>1. PICK p \in Places(fr, k) : f = [at |-> p, nav |-> opt.nav, opt |-> At(fr), rows |-> RowsOf(PageOf(fr, k))]
  BY <1>0
<1>2. f.at = p /\ f.nav = opt.nav /\ f.opt = At(fr) /\ f.rows = RowsOf(PageOf(fr, k))
  BY <1>1
<1>3. PICK i \in DOMAIN fr.objs : KeyOf(fr.objs[i], opt.nav) = k /\ p \in fr.objs[i].at
  BY DEF Places
<1>4. At(fr) \in DOMAIN expand /\ opt \in OptionTypes /\ fr \in Frames
  BY DEF FrameInv, IsExpand, FrameTypes
<1>5. StandsBelow(p, fr.list) /\ Last(p).row = fr.objs[i].row
  BY <1>3 DEF FrameInv, FrameTypes
<1>6. p \in Seq(Hops)
  <2>1. fr.objs \in Seq(Objects)
    BY <1>4 DEF Frames
  <2>2. fr.objs[i] \in Objects
    BY <2>1
  <2> QED BY <1>3, <2>2 DEF Objects
<1>7. Front(At(fr)) = fr.list
  <2>1. fr.list \in Seq(Nat) /\ fr.next \in Nat /\ At(fr) = Append(fr.list, fr.next)
    BY <1>4 DEF Frames, At
  <2> QED BY <2>1 DEF Front
<1>8. PICK t \in states : WereRead(fr, k, t)
  BY AllAreRead
<1>9. IsTable(t) /\ fr.got \in Seq(Objects)
  BY <1>4 DEF Frames
<1> DEFINE s == RowsOf(Pick(fr.got, Mine(fr, k)))
<1>10. s \in Orders(t, ChildRows(t, opt, {k}), opt)
  BY <1>4, <1>8, <1>9, MineAreOrdered
<1>11. /\ PageOf(fr, k) \in Seq(Objects)
       /\ \A j \in DOMAIN PageOf(fr, k) : \E m \in Mine(fr, k) : PageOf(fr, k)[j] = fr.got[m]
       /\ opt.nav = "Children" => RowsOf(PageOf(fr, k)) = Window(s, opt)
  BY <1>4, <1>9, PageRows
<1> HIDE DEF s, opt
<1>12. f.nav = "Children" => Last(f.at).row = k
  BY <1>2, <1>3, <1>5 DEF KeyOf
<1>13. \A j \in DOMAIN f.rows : f.rows[j] \in DOMAIN t /\ PassesFilter(opt.filter, t[f.rows[j]])
  <2> SUFFICES ASSUME NEW j \in DOMAIN f.rows PROVE f.rows[j] \in DOMAIN t /\ PassesFilter(opt.filter, t[f.rows[j]])
    OBVIOUS
  <2>1. j \in DOMAIN PageOf(fr, k) /\ f.rows[j] = PageOf(fr, k)[j].row
    BY <1>2, <1>11 DEF RowsOf
  <2>2. PICK m \in Mine(fr, k) : PageOf(fr, k)[j] = fr.got[m]
    BY <1>11, <2>1
  <2>3. f.rows[j] \in ChildRows(t, opt, {k})
    BY <1>8, <2>1, <2>2 DEF WereRead, opt
  <2> QED BY <2>3 DEF ChildRows
<1>14. f.nav = "Children" => \E u \in states : \E o \in Orders(u, ChildRows(u, opt, {Last(f.at).row}), opt) : f.rows = Window(o, opt)
  BY <1>2, <1>8, <1>10, <1>11, <1>12
<1> QED BY <1>2, <1>4, <1>5, <1>6, <1>7, <1>13, <1>14 DEF FieldsAgree, opt

\* The objects of a page stand where their parents' field puts them.
LEMMA ChildrenStand ==
  ASSUME NEW fr, FrameInv(fr), IsExpand(expand), NEW k
  PROVE  /\ Children(fr, k) \in Seq(Objects)
         /\ \A i \in DOMAIN Children(fr, k) : \A p \in Children(fr, k)[i].at :
              StandsBelow(p, At(fr)) /\ Last(p).row = Children(fr, k)[i].row
<1> DEFINE opt == expand[At(fr)]
           page == PageOf(fr, k)
           objs == Children(fr, k)
<1>1. At(fr) \in DOMAIN expand /\ opt \in OptionTypes /\ fr \in Frames /\ At(fr) = Append(fr.list, fr.next)
  BY DEF FrameInv, IsExpand, FrameTypes, At
<1>2. fr.got \in Seq(Objects) /\ fr.list \in Seq(Nat) /\ fr.next \in Nat /\ fr.objs \in Seq(Objects)
  BY <1>1 DEF Frames
<1>3. page \in Seq(Objects)
  BY <1>1, <1>2, PageRows
<1>4. objs = [i \in DOMAIN page |-> [page[i] EXCEPT !.at = {Append(p, Hop(opt.nav, i, page[i].row)) : p \in Places(fr, k)}]]
  BY DEF Children
<1>5. \A p \in Places(fr, k) : p \in Seq(Hops) /\ StandsBelow(p, fr.list)
  <2> SUFFICES ASSUME NEW p \in Places(fr, k) PROVE p \in Seq(Hops) /\ StandsBelow(p, fr.list)
    OBVIOUS
  <2>1. PICK i \in DOMAIN fr.objs : p \in fr.objs[i].at
    BY DEF Places
  <2>2. fr.objs[i] \in Objects
    BY <1>2
  <2> QED BY <2>1, <2>2 DEF FrameInv, FrameTypes, Objects
<1> HIDE DEF page, objs, opt
<1>6. Len(page) \in Nat /\ DOMAIN page = 1..Len(page) /\ \A i \in 1..Len(page) : page[i] \in Objects
  BY <1>3
<1>7. ASSUME NEW i \in 1..Len(page), NEW p \in Places(fr, k)
      PROVE  LET d == Append(p, Hop(opt.nav, i, page[i].row)) IN d \in Seq(Hops) /\ StandsBelow(d, At(fr)) /\ Last(d).row = page[i].row
  <2> DEFINE h == Hop(opt.nav, i, page[i].row)
  <2>1. opt.nav \in {"Children", "Parent"} /\ page[i].row \in Int /\ i \in Nat
    BY <1>1, <1>6 DEF OptionTypes, Objects
  <2>2. h \in Hops /\ h.nav = opt.nav /\ h.row = page[i].row
    BY <2>1 DEF Hop, Hops
  <2> HIDE DEF h
  <2>3. Append(p, h) \in Seq(Hops) /\ StandsBelow(Append(p, h), At(fr)) /\ Last(Append(p, h)) = h
    BY <1>1, <1>2, <1>5, <2>2, StandsDeeper DEF opt
  <2> QED BY <2>2, <2>3 DEF h
<1>8. ASSUME NEW i \in 1..Len(page)
      PROVE  /\ objs[i] \in Objects
             /\ \A p \in objs[i].at : StandsBelow(p, At(fr)) /\ Last(p).row = objs[i].row
  <2> DEFINE at == {Append(p, Hop(opt.nav, i, page[i].row)) : p \in Places(fr, k)}
  <2>1. at \in SUBSET Seq(Hops) /\ \A d \in at : StandsBelow(d, At(fr)) /\ Last(d).row = page[i].row
    BY <1>7
  <2>2. objs[i] = [page[i] EXCEPT !.at = at]
    BY <1>4, <1>6
  <2>3. page[i] \in Objects
    BY <1>6
  <2> HIDE DEF at
  <2>4. objs[i] \in Objects /\ objs[i].at = at /\ objs[i].row = page[i].row
    BY <2>1, <2>2, <2>3 DEF Objects
  <2> QED BY <2>1, <2>4
<1>9. DOMAIN objs = 1..Len(page)
  BY <1>4, <1>6
<1>10. objs \in [1..Len(page) -> Objects]
  BY <1>4, <1>6, <1>8, <1>9
<1>11. objs \in Seq(Objects)
  BY <1>6, <1>10
<1> QED BY <1>8, <1>9, <1>11 DEF objs

\* The calls start with their keys unread.
LEMMA CallsStart ==
  ASSUME NEW fr, FrameInv(fr), IsExpand(expand), NEW calls \in Calls(fr)
  PROVE  calls \in Seq(Frames) /\ \A i \in DOMAIN calls : ~Returns(calls[i]) => FrameInv(calls[i])
<1>1. CASE Append(At(fr), 1) \notin DOMAIN expand
  <2>1. calls = <<>>
    BY <1>1 DEF Calls
  <2>2. <<>> \in Seq(Frames) /\ DOMAIN <<>> = {}
    BY EmptySeq
  <2> QED BY <2>1, <2>2
<1>2. CASE Append(At(fr), 1) \in DOMAIN expand
  <2>1. PICK s \in SetToSeqs(ParentKeys(fr)) : calls = [i \in DOMAIN s |-> Frame(Children(fr, s[i]), At(fr), 1)]
    BY <1>2 DEF Calls
  <2>2. fr.objs \in Seq(Objects) /\ fr.list \in Seq(Nat) /\ fr.next \in Nat
    BY DEF FrameInv, FrameTypes, Frames
  <2>3. At(fr) \in Seq(Nat)
    BY <2>2 DEF At
  <2>4. IsFiniteSet(ParentKeys(fr))
    <3> DEFINE keyOf == [i \in 1..Len(fr.objs) |-> KeyOf(fr.objs[i], expand[At(fr)].nav)]
               T == {KeyOf(fr.objs[i], expand[At(fr)].nav) : i \in 1..Len(fr.objs)}
    <3>1. keyOf \in Surjection(1..Len(fr.objs), T)
      BY DEF Surjection
    <3>2. IsFiniteSet(1..Len(fr.objs))
      <4>1. 1 \in Int /\ Len(fr.objs) \in Int
        BY <2>2
      <4> QED BY <4>1, FS_Interval
    <3>3. ParentKeys(fr) \subseteq T
      BY <2>2 DEF ParentKeys
    <3> HIDE DEF keyOf, T
    <3>4. IsFiniteSet(T)
      BY <3>1, <3>2, FS_Surjection
    <3> QED BY <3>3, <3>4, FS_Subset
  <2>5. Len(s) \in Nat /\ DOMAIN s = 1..Len(s)
    BY <2>4, ListsAll
  <2>6. ASSUME NEW k PROVE LET f == Frame(Children(fr, k), At(fr), 1) IN f \in Frames /\ (~Returns(f) => FrameInv(f))
    <3> DEFINE f == Frame(Children(fr, k), At(fr), 1)
    <3>1. /\ Children(fr, k) \in Seq(Objects)
          /\ \A i \in DOMAIN Children(fr, k) : \A p \in Children(fr, k)[i].at :
               StandsBelow(p, At(fr)) /\ Last(p).row = Children(fr, k)[i].row
      BY ChildrenStand
    <3>2. f \in Frames
      BY <2>3, <3>1, FrameHasForm
    <3>3. FrameInv(f)
      BY <1>2, <2>3, <3>1, FrameStarts
    <3> QED BY <3>2, <3>3
  <2>7. DOMAIN calls = 1..Len(s) /\ \A i \in 1..Len(s) : calls[i] \in Frames /\ (~Returns(calls[i]) => FrameInv(calls[i]))
    BY <2>1, <2>5, <2>6
  <2>8. calls \in [1..Len(s) -> Frames]
    BY <2>1, <2>5, <2>7
  <2> QED BY <2>5, <2>7, <2>8
<1> QED BY <1>1, <1>2

-----------------------------------------------------------------------------
(* Every step keeps the invariant.                                         *)

\* Before the request is parsed nothing is read and nothing answered.
LEMMA ExpandStarts == ExpandInit => ExpandInv
<1> SUFFICES ASSUME ExpandInit PROVE ExpandInv
  OBVIOUS
<1>1. permit \in Permits /\ IsTable(expandTable) /\ IsExpand(expand)
  BY ExpandAssumption DEF ExpandInit
<1>2. frames = <<>> /\ fields = {} /\ states = {} /\ phase = "asked"
  BY DEF ExpandInit
<1>3. <<>> \in Seq(Frames) /\ ToSet(<<>>) = {}
  BY EmptySeq DEF ToSet
<1> QED BY <1>1, <1>2, <1>3 DEF ExpandInv

\* Parsing, unrolling and the policy only change the options.
LEMMA ExpandPrepares ==
  ExpandInv /\ (ParseExpand \/ Authorize \/ \E q \in DOMAIN expand : applyExpandLevels(q)) => ExpandInv'
<1> SUFFICES ASSUME ExpandInv, ParseExpand \/ Authorize \/ \E q \in DOMAIN expand : applyExpandLevels(q) PROVE ExpandInv'
  OBVIOUS
<1>1. /\ permit \in Permits /\ IsTable(expandTable) /\ IsExpand(expand) /\ frames = <<>> /\ fields = {} /\ states = {}
      /\ phase \in {"asked", "unrolling"}
  BY DEF ExpandInv, ParseExpand, Authorize, applyExpandLevels
<1>2. UNCHANGED <<permit, expandTable, frames, fields, states>>
  BY DEF ParseExpand, Authorize, applyExpandLevels
<1>3. <<>> \in Seq(Frames) /\ ToSet(<<>>) = {}
  BY EmptySeq DEF ToSet
<1>4. CASE ParseExpand
  <2>1. phase' \in {"rejected", "unrolling"} /\ UNCHANGED expand
    BY <1>4 DEF ParseExpand
  <2> QED BY <1>1, <1>2, <1>3, <2>1 DEF ExpandInv
<1>5. CASE Authorize
  <2>1. phase' = "parsed" /\ expand' = applyPolicyFiltersToExpand(expand, permit)
    BY <1>5 DEF Authorize
  <2>2. permit \in {"all", "val"}
    BY <1>1, ExpandAssumption
  <2>3. IsExpand(expand') /\ (permit = "val" => \A q \in DOMAIN expand' : "val" \in expand'[q].filter)
    BY <1>1, <2>1, <2>2, PolicyKeepsOptions
  <2> QED BY <1>1, <1>2, <1>3, <2>1, <2>3 DEF ExpandInv
<1>6. ASSUME NEW q \in DOMAIN expand, applyExpandLevels(q) PROVE ExpandInv'
  <2>1. /\ phase = "unrolling" /\ phase' = "unrolling" /\ expand[q].levels # 0
        /\ expand' = buildLevelsExpansion(expand, q, resolveExpandLevels(expand[q].levels))
    BY <1>6 DEF applyExpandLevels
  <2>2. resolveExpandLevels(expand[q].levels) \in Nat
    <3>1. expand[q].levels \in Nat \cup {AllLevels}
      BY <1>1 DEF IsExpand, OptionTypes
    <3> QED BY <3>1, ExpandAssumption DEF resolveExpandLevels
  <2>3. IsExpand(expand')
    BY <1>1, <2>1, <2>2, UnrollKeepsOptions
  <2> QED BY <1>1, <1>2, <1>3, <2>1, <2>3 DEF ExpandInv
<1> QED BY <1>4, <1>5, <1>6

\* A stack whose frames hold, with the fields that were there, while no option
\* changes.
LEMMA ReadingGoesOn ==
  ASSUME ExpandInv, UNCHANGED <<permit, expand>>, states \subseteq states', IsTable(expandTable'), \A t \in states' : IsTable(t),
         phase' = "reading", expandTable' \in states',
         phase \in {"parsed", "reading"},
         frames' \in Seq(Frames), \A frame \in ToSet(frames)' : FrameInv(frame), \A f \in fields' : FieldsAgree(f)
  PROVE  ExpandInv'
<1>1. permit' \in Permits /\ IsExpand(expand')
  BY DEF ExpandInv
<1>2. permit' = "val" => \A q \in DOMAIN expand' : "val" \in expand'[q].filter
  BY DEF ExpandInv
<1>3. \A frame \in ToSet(frames)' : FrameInv(frame)'
  BY FrameStays
<1>4. \A f \in fields' : FieldsAgree(f)'
  BY FieldStays
<1> QED BY <1>1, <1>2, <1>3, <1>4 DEF ExpandInv

\* ReadParents: the first call, one place for each parent.
LEMMA ParentsAreRead == ExpandInv /\ ReadParents => ExpandInv'
<1> SUFFICES ASSUME ExpandInv, ReadParents PROVE ExpandInv'
  OBVIOUS
<1> DEFINE Roots == {r \in DOMAIN expandTable : expandTable[r].up = NoKey /\ (permit = "all" \/ expandTable[r].val = 1)}
<1>1. PICK s \in SetToSeqs(Roots) :
        frames' = Unfinished(<<Frame([i \in DOMAIN s |-> Object(expandTable, s[i], {<<Hop("root", i, s[i])>>})], <<>>, 1)>>)
  BY DEF ReadParents
<1>2. /\ phase = "parsed" /\ phase' = "reading" /\ states' = {expandTable} /\ UNCHANGED <<permit, expand, expandTable, fields>>
      /\ states = {} /\ fields = {} /\ IsTable(expandTable)
  BY DEF ReadParents, ExpandInv
<1>3. IsFiniteSet(Roots) /\ \A r \in Roots : r \in Int /\ expandTable[r].up \in Int
  BY <1>2, ExpandAssumption, FS_Subset DEF IsTable
<1> HIDE DEF Roots
<1>4. Len(s) \in Nat /\ DOMAIN s = 1..Len(s) /\ \A i \in 1..Len(s) : s[i] \in Roots
  BY <1>3, ListsAll
<1> DEFINE place(i) == <<Hop("root", i, s[i])>>
           objs == [i \in DOMAIN s |-> Object(expandTable, s[i], {place(i)})]
<1>5. ASSUME NEW i \in 1..Len(s)
      PROVE  place(i) \in Seq(Hops) /\ StandsBelow(place(i), <<>>) /\ Last(place(i)).row = s[i]
  <2>1. Hop("root", i, s[i]) \in Hops /\ Hop("root", i, s[i]).row = s[i]
    BY <1>3, <1>4 DEF Hop, Hops
  <2>2. place(i) \in Seq(Hops) /\ Len(place(i)) = 1 /\ place(i)[1] = Hop("root", i, s[i])
    BY <2>1
  <2>3. Len(<<>>) = 0
    BY EmptySeq
  <2> HIDE DEF place
  <2>4. StandsBelow(place(i), <<>>)
    BY <2>2, <2>3 DEF StandsBelow
  <2> QED BY <2>1, <2>2, <2>4 DEF Last
<1> HIDE DEF place
<1>6. ASSUME NEW i \in 1..Len(s)
      PROVE  objs[i] \in Objects /\ \A p \in objs[i].at : StandsBelow(p, <<>>) /\ Last(p).row = objs[i].row
  <2>1. objs[i] = [row |-> s[i], up |-> expandTable[s[i]].up, at |-> {place(i)}]
    BY <1>4 DEF Object
  <2>2. s[i] \in Int /\ expandTable[s[i]].up \in Int /\ {place(i)} \in SUBSET Seq(Hops)
    BY <1>3, <1>4, <1>5
  <2> HIDE DEF objs
  <2>3. objs[i] \in Objects
    BY <2>1, <2>2 DEF Objects
  <2>4. objs[i].at = {place(i)} /\ objs[i].row = s[i]
    BY <2>1
  <2> QED BY <1>5, <2>3, <2>4
<1>7. DOMAIN objs = 1..Len(s) /\ objs \in [1..Len(s) -> Objects]
  BY <1>4, <1>6
<1>8. objs \in Seq(Objects)
  BY <1>4, <1>7
<1>9. frames' = Unfinished(<<Frame(objs, <<>>, 1)>>)
  BY <1>1 DEF place
<1> HIDE DEF objs
<1>10. <<>> \in Seq(Nat) /\ 1 \in Nat
  BY EmptySeq
<1> DEFINE f == Frame(objs, <<>>, 1)
<1>11. f \in Frames /\ (~Returns(f) => FrameInv(f))
  <2>1. f \in Frames /\ At(f) = Append(<<>>, 1)
    BY <1>8, <1>10, FrameHasForm
  <2>2. ~Returns(f) => Append(<<>>, 1) \in DOMAIN expand
    BY <2>1 DEF Returns
  <2>3. \A i \in DOMAIN objs : \A p \in objs[i].at : StandsBelow(p, <<>>) /\ Last(p).row = objs[i].row
    BY <1>6, <1>7
  <2>4. ~Returns(f) => FrameInv(f)
    BY <1>8, <1>10, <2>2, <2>3, FrameStarts
  <2> QED BY <2>1, <2>4
<1> HIDE DEF f
<1>12. <<f>> \in Seq(Frames) /\ \A i \in DOMAIN <<f>> : ~Returns(<<f>>[i]) => FrameInv(<<f>>[i])
  BY <1>11
<1>13. Unfinished(<<f>>) \in Seq(Frames) /\ \A i \in DOMAIN Unfinished(<<f>>) : FrameInv(Unfinished(<<f>>)[i])
  BY <1>12, StackKeeps
<1>14. frames' \in Seq(Frames) /\ \A frame \in ToSet(frames)' : FrameInv(frame)
  BY <1>9, <1>13 DEF ToSet, f
<1> QED BY <1>2, <1>14, ReadingGoesOn

\* ReadBatch: the innermost call gets the children of its next keys.
LEMMA BatchKeeps == ExpandInv /\ ReadBatch => ExpandInv'
<1> SUFFICES ASSUME ExpandInv, ReadBatch PROVE ExpandInv'
  OBVIOUS
<1> DEFINE fr == frames[1]
           keys == fr.keys
           n == IF BatchSize < Len(keys) THEN BatchSize ELSE Len(keys)
           new(s) == [fr EXCEPT !.got = @ \o s, !.keys = SubSeq(@, n + 1, Len(@))]
<1>1. /\ phase = "reading" /\ phase' = "reading" /\ UNCHANGED <<permit, expand, expandTable, fields, states>>
      /\ frames # <<>> /\ expandTable \in states /\ IsTable(expandTable) /\ \A t \in states : IsTable(t)
      /\ \A f \in fields : FieldsAgree(f)
  BY DEF ReadBatch, ExpandInv
<1>2. PICK s \in ChildStatement(expandTable, expand[At(fr)], {keys[i] : i \in 1..n}) :
        frames' = [frames EXCEPT ![1].got = @ \o s, ![1].keys = SubSeq(@, n + 1, Len(@))]
  BY DEF ReadBatch
<1>3. frames \in Seq(Frames) /\ 1 \in 1..Len(frames) /\ DOMAIN frames = 1..Len(frames)
  BY <1>1, EmptySeq DEF ExpandInv
<1>4. \A i \in DOMAIN frames : FrameInv(frames[i])
  BY DEF ExpandInv, ToSet
<1>5. fr \in Frames /\ FrameInv(fr)
  BY <1>3, <1>4
<1>6. frames' = [frames EXCEPT ![1] = new(s)]
  BY <1>2
<1> HIDE DEF fr
<1>7. keys \in Seq(Int) /\ n \in 0..Len(keys)
  <2>1. keys \in Seq(Int)
    BY <1>5 DEF Frames
  <2> HIDE DEF keys
  <2> QED BY <2>1, ExpandAssumption
<1>8. s \in Seq(Objects)
  BY <1>1, StatementRows
<1>9. BatchAdded(fr, new(s), n, s)
  <2>1. fr.got \o s \in Seq(Objects)
    BY <1>5, <1>8, ConcatProperties DEF Frames
  <2>2. SubSeq(keys, n + 1, Len(keys)) \in Seq(Int)
    BY <1>7, SubSeqProperties
  <2> HIDE DEF n
  <2>3. new(s) = [[fr EXCEPT !.got = fr.got \o s] EXCEPT !.keys = SubSeq(fr.keys, n + 1, Len(fr.keys))]
    BY <1>5 DEF Frames
  <2> QED BY <1>5, <2>1, <2>2, <2>3 DEF BatchAdded, Frames
<1>10. FrameInv(new(s))
  BY <1>1, <1>5, <1>7, <1>9, BatchIsRead
<1> HIDE DEF new
<1>11. new(s) \in Frames
  BY <1>9 DEF BatchAdded
<1>12. frames' \in Seq(Frames) /\ DOMAIN frames' = DOMAIN frames /\ \A i \in DOMAIN frames : frames'[i] = IF i = 1 THEN new(s) ELSE frames[i]
  BY <1>3, <1>6, <1>11
<1>13. \A frame \in ToSet(frames)' : FrameInv(frame)
  BY <1>4, <1>10, <1>12 DEF ToSet
<1> QED BY <1>1, <1>12, <1>13, ReadingGoesOn

\* Assign: new fields, new calls, and the next option of the list.
LEMMA AssignKeeps == ExpandInv /\ Assign => ExpandInv'
<1> SUFFICES ASSUME ExpandInv, Assign PROVE ExpandInv'
  OBVIOUS
<1> DEFINE fr == frames[1]
           next == Frame(fr.objs, fr.list, fr.next + 1)
<1>1. /\ phase = "reading" /\ phase' = "reading" /\ UNCHANGED <<permit, expand, expandTable, states>>
      /\ frames # <<>> /\ fr.keys = <<>> /\ expandTable \in states /\ IsTable(expandTable) /\ IsExpand(expand)
      /\ \A t \in states : IsTable(t)
  BY DEF Assign, ExpandInv
<1>2. PICK calls \in Calls(fr) : frames' = Unfinished(calls \o <<next>> \o Tail(frames))
  BY DEF Assign
<1>3. frames \in Seq(Frames) /\ 1 \in 1..Len(frames) /\ DOMAIN frames = 1..Len(frames)
  BY <1>1, EmptySeq DEF ExpandInv
<1>4. \A i \in DOMAIN frames : frames[i] \in Frames /\ FrameInv(frames[i])
  BY <1>3 DEF ExpandInv, ToSet
<1>5. fr \in Frames /\ FrameInv(fr)
  BY <1>3, <1>4
<1>6. \A f \in fields' : FieldsAgree(f)
  <2>1. fields' \subseteq fields \cup NewFields(fr)
    BY DEF Assign, SetFields
  <2>2. \A f \in NewFields(fr) : FieldsAgree(f)
    BY <1>1, <1>5, NewFieldsAgree
  <2>3. \A f \in fields : FieldsAgree(f)
    BY DEF ExpandInv
  <2> QED BY <2>1, <2>2, <2>3
<1> HIDE DEF fr
<1>7. calls \in Seq(Frames) /\ \A i \in DOMAIN calls : ~Returns(calls[i]) => FrameInv(calls[i])
  BY <1>1, <1>5, CallsStart
<1>8. next \in Frames /\ (~Returns(next) => FrameInv(next))
  <2>1. fr.objs \in Seq(Objects) /\ fr.list \in Seq(Nat) /\ fr.next + 1 \in Nat
    BY <1>5 DEF Frames
  <2>2. next \in Frames /\ At(next) = Append(fr.list, fr.next + 1)
    BY <2>1, FrameHasForm
  <2>3. ~Returns(next) => Append(fr.list, fr.next + 1) \in DOMAIN expand
    BY <2>2 DEF Returns
  <2>4. \A i \in DOMAIN fr.objs : \A p \in fr.objs[i].at : StandsBelow(p, fr.list) /\ Last(p).row = fr.objs[i].row
    BY <1>5 DEF FrameInv, FrameTypes
  <2>5. ~Returns(next) => FrameInv(next)
    BY <2>1, <2>3, <2>4, FrameStarts
  <2> QED BY <2>2, <2>5
<1> HIDE DEF next
<1> DEFINE Good == {f \in Frames : ~Returns(f) => FrameInv(f)}
<1>9. calls \in Seq(Good) /\ <<next>> \in Seq(Good) /\ Tail(frames) \in Seq(Good)
  <2>1. \A i \in 1..Len(calls) : calls[i] \in Good
    BY <1>7
  <2>2. calls \in Seq(Good)
    BY <1>7, <2>1
  <2>3. frames \in Seq(Good)
    <3>1. \A i \in 1..Len(frames) : frames[i] \in Good
      BY <1>3, <1>4
    <3> QED BY <1>3, <3>1
  <2>4. next \in Good
    BY <1>8
  <2> HIDE DEF Good
  <2>5. Tail(frames) \in Seq(Good)
    BY <1>1, <2>3, HeadTailProperties
  <2> QED BY <2>2, <2>4, <2>5
<1> DEFINE stack == calls \o <<next>> \o Tail(frames)
<1>10. stack \in Seq(Good)
  <2> HIDE DEF Good
  <2>1. calls \o <<next>> \in Seq(Good)
    BY <1>9, ConcatProperties
  <2> QED BY <1>9, <2>1, ConcatProperties
<1> HIDE DEF stack
<1>11. stack \in Seq(Frames) /\ \A i \in DOMAIN stack : ~Returns(stack[i]) => FrameInv(stack[i])
  <2>1. DOMAIN stack = 1..Len(stack) /\ \A i \in 1..Len(stack) : stack[i] \in Good
    BY <1>10
  <2>2. Good \subseteq Frames
    OBVIOUS
  <2>3. stack \in Seq(Frames)
    BY <1>10, <2>2, SeqMonotonic
  <2> QED BY <2>1, <2>3
<1>12. Unfinished(stack) \in Seq(Frames) /\ \A i \in DOMAIN Unfinished(stack) : FrameInv(Unfinished(stack)[i])
  BY <1>11, StackKeeps
<1>13. frames' \in Seq(Frames) /\ \A frame \in ToSet(frames)' : FrameInv(frame)
  BY <1>2, <1>12 DEF ToSet, stack
<1> QED BY <1>1, <1>6, <1>13, ReadingGoesOn

\* The answer, an error, other requests.
LEMMA ExpandSurroundings == ExpandInv /\ (Respond \/ Abort \/ OtherWrite \/ UNCHANGED expandVars) => ExpandInv'
<1> SUFFICES ASSUME ExpandInv, Respond \/ Abort \/ OtherWrite \/ UNCHANGED expandVars PROVE ExpandInv'
  OBVIOUS
<1>1. UNCHANGED expand /\ states \subseteq states' /\ permit' = permit
  BY DEF Respond, Abort, OtherWrite, expandVars
<1>2. (\A frame \in ToSet(frames) : FrameInv(frame)') /\ \A f \in fields : FieldsAgree(f)'
  BY <1>1, FrameStays, FieldStays DEF ExpandInv
<1>3. CASE Respond \/ UNCHANGED expandVars
  <2>1. UNCHANGED <<frames, fields, states, expandTable, permit, expand>> /\ (phase' = phase \/ (phase = "reading" /\ phase' = "done"))
    <3>1. CASE Respond
      BY <3>1 DEF Respond
    <3>2. CASE UNCHANGED expandVars
      BY <3>2 DEF expandVars
    <3> QED BY <1>3, <3>1, <3>2
  <2>2. (\A frame \in ToSet(frames)' : FrameInv(frame)') /\ \A f \in fields' : FieldsAgree(f)'
    BY <1>2, <2>1
  <2> QED BY <2>1, <2>2 DEF ExpandInv
<1>4. CASE Abort
  <2>1. phase' = "failed" /\ frames' = <<>> /\ fields' = {} /\ UNCHANGED <<states, expandTable, permit, expand>>
    BY <1>4 DEF Abort
  <2>2. <<>> \in Seq(Frames) /\ ToSet(<<>>) = {}
    BY EmptySeq DEF ToSet
  <2> QED BY <2>1, <2>2 DEF ExpandInv
<1>5. CASE OtherWrite
  <2>1. /\ phase \in {"parsed", "reading"} /\ UNCHANGED <<permit, phase, expand, frames, fields>>
        /\ states' = states \cup (IF phase = "reading" THEN {expandTable'} ELSE {})
    BY <1>5 DEF OtherWrite
  <2>2. IsTable(expandTable')
    BY <1>5, WriteKeepsTable DEF ExpandInv
  <2>3. (\A frame \in ToSet(frames)' : FrameInv(frame)') /\ \A f \in fields' : FieldsAgree(f)'
    BY <1>2, <2>1
  <2> QED BY <2>1, <2>2, <2>3 DEF ExpandInv
<1> QED BY <1>3, <1>4, <1>5

\* Every step of the request and of its surroundings keeps the invariant.
LEMMA ExpandKeeps == ExpandInv /\ [ExpandNext]_expandVars => ExpandInv'
BY ExpandPrepares, ParentsAreRead, BatchKeeps, AssignKeeps, ExpandSurroundings DEF ExpandNext

\* Whatever writers do between the statements of an $expand, every key is read
\* in one batch, and every field is a page of one state.
THEOREM ExpandInvariant == ExpandSpec => []ExpandInv
BY ExpandStarts, ExpandKeeps, PTL DEF ExpandSpec

\* The policy's filter reaches every level: no row the policy excludes in every
\* state of the read appears below any parent.
THEOREM PolicyIsEverywhere == ExpandSpec => []PolicyReachesEveryLevel
<1>1. ExpandInv => PolicyReachesEveryLevel
  <2> SUFFICES ASSUME ExpandInv, phase = "done", permit = "val", NEW f \in fields, NEW i \in DOMAIN f.rows
               PROVE  \E t \in states : f.rows[i] \in DOMAIN t /\ t[f.rows[i]].val = 1
    BY DEF PolicyReachesEveryLevel
  <2>1. FieldsAgree(f) /\ \A q \in DOMAIN expand : "val" \in expand[q].filter
    BY DEF ExpandInv
  <2>2. PICK t \in states : f.rows[i] \in DOMAIN t /\ PassesFilter(expand[f.opt].filter, t[f.rows[i]])
    BY <2>1 DEF FieldsAgree
  <2>3. "val" \in expand[f.opt].filter
    BY <2>1 DEF FieldsAgree
  <2> QED BY <2>2, <2>3 DEF PassesFilter
<1> QED BY ExpandInvariant, <1>1, PTL

-----------------------------------------------------------------------------
(* The response shows what was read.                                       *)

\* Where no name repeats, the option of a name in a list is found.
LEMMA OptionIsFound ==
  ASSUME IsExpand(expand), ~NamesTwice, NEW q \in DOMAIN expand
  PROVE  FindExpandOption(Front(q), expand[q].nav) = q
<1> DEFINE named == {r \in Nested(expand, Front(q)) : expand[r].nav = expand[q].nav}
<1>1. named = {q}
  BY DEF Nested, NamesTwice
<1>2. Last(q) \in Nat
  <2>1. q \in Seq(Nat) /\ Len(q) \in Nat \ {0}
    BY EmptySeq DEF IsExpand
  <2> QED BY <2>1 DEF Last
<1>3. FindExpandOption(Front(q), expand[q].nav) = CHOOSE r \in named : \A o \in named : Last(r) <= Last(o)
  BY <1>1 DEF FindExpandOption
<1> HIDE DEF named
<1>4. Last(q) <= Last(q)
  BY <1>2
<1> QED BY <1>1, <1>3, <1>4

\* So the response layer works with the list the fields were read for.
LEMMA ListIsFound ==
  ASSUME IsExpand(expand), ~NamesTwice, NEW list \in Seq(Nat), NEW p \in Seq(Hops), StandsBelow(p, list)
  PROVE  OptionsAt(p) = list
<1> DEFINE Fits(l) == /\ Len(l) = Len(p) - 1
                      /\ \A k \in 1..Len(l) : SubSeq(l, 1, k) = FindExpandOption(SubSeq(l, 1, k - 1), p[k + 1].nav)
           Candidates == {<<>>} \cup DOMAIN expand
<1>1. OptionsAt(p) = CHOOSE l \in Candidates : Fits(l)
  BY DEF OptionsAt
<1>2. Len(list) \in Nat /\ Len(p) = Len(list) + 1 /\ \A k \in 1..Len(list) : SubSeq(list, 1, k) \in DOMAIN expand /\ expand[SubSeq(list, 1, k)].nav = p[k + 1].nav
  BY DEF StandsBelow
<1>3. Candidates \subseteq Seq(Nat)
  BY EmptySeq DEF IsExpand
<1>4. list \in Candidates
  <2>1. CASE list = <<>>
    BY <2>1
  <2>2. CASE list # <<>>
    <3>1. Len(list) \in 1..Len(list)
      BY <2>2, EmptySeq
    <3>2. SubSeq(list, 1, Len(list)) = list
      BY SubSeqFull
    <3> QED BY <1>2, <3>1, <3>2
  <2> QED BY <2>1, <2>2
<1>5. \A k \in 1..Len(list) : Front(SubSeq(list, 1, k)) = SubSeq(list, 1, k - 1)
  <2> SUFFICES ASSUME NEW k \in 1..Len(list) PROVE Front(SubSeq(list, 1, k)) = SubSeq(list, 1, k - 1)
    OBVIOUS
  <2> QED BY DEF Front
<1>6. Fits(list)
  <2> SUFFICES ASSUME NEW k \in 1..Len(list) PROVE SubSeq(list, 1, k) = FindExpandOption(SubSeq(list, 1, k - 1), p[k + 1].nav)
    BY <1>2
  <2> DEFINE q == SubSeq(list, 1, k)
  <2>1. q \in DOMAIN expand /\ expand[q].nav = p[k + 1].nav /\ Front(q) = SubSeq(list, 1, k - 1)
    BY <1>2, <1>5
  <2> HIDE DEF q
  <2>2. FindExpandOption(Front(q), expand[q].nav) = q
    BY <2>1, OptionIsFound
  <2> QED BY <2>1, <2>2 DEF q
<1>7. ASSUME NEW l \in Seq(Nat), Fits(l), NEW k \in Nat, k + 1 <= Len(l)
      PROVE  SubSeq(l, 1, k + 1) = FindExpandOption(SubSeq(l, 1, k), p[k + 2].nav)
  <2> DEFINE j == k + 1
  <2>1. j \in 1..Len(l) /\ j - 1 = k /\ j + 1 = k + 2
    BY <1>7
  <2> HIDE DEF j
  <2>2. SubSeq(l, 1, j) = FindExpandOption(SubSeq(l, 1, j - 1), p[j + 1].nav)
    BY <1>7, <2>1
  <2>3. SubSeq(l, 1, j) = FindExpandOption(SubSeq(l, 1, k), p[k + 2].nav)
    BY <2>1, <2>2
  <2> QED BY <2>3 DEF j
<1>8. ASSUME NEW l \in Candidates, Fits(l) PROVE l = list
  <2>1. l \in Seq(Nat) /\ Len(l) = Len(list)
    BY <1>2, <1>3, <1>8
  <2> DEFINE Same == {k \in Nat : k <= Len(list) => SubSeq(l, 1, k) = SubSeq(list, 1, k)}
  <2>2. 0 \in Same
    <3>1. SubSeq(l, 1, 0) = <<>> /\ SubSeq(list, 1, 0) = <<>>
      BY SubSeqEmpty
    <3> QED BY <3>1
  <2>3. ASSUME NEW k \in Nat, k \in Same PROVE k + 1 \in Same
    <3> SUFFICES ASSUME k + 1 <= Len(list) PROVE SubSeq(l, 1, k + 1) = SubSeq(list, 1, k + 1)
      OBVIOUS
    <3>1. k <= Len(list)
      BY <1>2
    <3>2. SubSeq(l, 1, k) = SubSeq(list, 1, k)
      BY <2>3, <3>1
    <3>3. SubSeq(l, 1, k + 1) = FindExpandOption(SubSeq(l, 1, k), p[k + 2].nav)
      BY <1>8, <1>7, <2>1
    <3>4. SubSeq(list, 1, k + 1) = FindExpandOption(SubSeq(list, 1, k), p[k + 2].nav)
      BY <1>6, <1>7
    <3> QED BY <3>2, <3>3, <3>4
  <2> HIDE DEF Same
  <2>4. Len(list) \in Same
    BY <1>2, <2>2, <2>3, NoneIsMissing
  <2>5. SubSeq(l, 1, Len(l)) = l /\ SubSeq(list, 1, Len(list)) = list
    BY <2>1, SubSeqFull
  <2>6. Len(list) \in Nat /\ Len(list) <= Len(list)
    OBVIOUS
  <2>7. SubSeq(l, 1, Len(list)) = SubSeq(list, 1, Len(list))
    BY <2>4, <2>6 DEF Same
  <2> QED BY <2>1, <2>5, <2>7
<1> HIDE DEF Fits, Candidates
<1> QED BY <1>1, <1>4, <1>6, <1>8

\* Cutting a page to $top hides the row that was read ahead and nothing else.
LEMMA CutIsPage ==
  ASSUME NEW s \in Seq(Int), NEW opt \in OptionTypes, opt.top # NoTop
  PROVE  /\ Len(Window(s, opt)) > opt.top <=> Len(s) > opt.skip + opt.top
         /\ Page(s, opt) = IF Len(s) > opt.skip + opt.top THEN SubSeq(Window(s, opt), 1, opt.top) ELSE Window(s, opt)
<1> DEFINE l == Len(s)
           a == opt.skip
           b == opt.top
           w == Window(s, opt)
<1>1. a \in Nat /\ b \in Nat /\ l \in Nat /\ \A i \in 1..l : s[i] \in Int
  BY DEF OptionTypes
<1>2. w = SubSeq(s, a + 1, IF a + b + 1 > l THEN l ELSE a + b + 1) /\ Page(s, opt) = SubSeq(s, a + 1, IF a + b > l THEN l ELSE a + b)
  BY DEF Window, Page
<1> HIDE DEF a, b, w, l
<1>3. CASE l > a + b
  <2>1. w = SubSeq(s, a + 1, a + b + 1) /\ Page(s, opt) = SubSeq(s, a + 1, a + b)
    BY <1>1, <1>2, <1>3
  <2>2. \A i \in (a + 1)..(a + b + 1) : s[i] \in Int
    BY <1>1, <1>3
  <2>3. /\ w \in Seq(Int) /\ Len(w) = b + 1 /\ \A i \in 1..(b + 1) : w[i] = s[a + i]
    <3>1. /\ w \in Seq(Int) /\ Len(w) = (IF a + 1 <= a + b + 1 THEN a + b + 1 - (a + 1) + 1 ELSE 0)
          /\ \A i \in 1..(a + b + 1 - (a + 1) + 1) : w[i] = s[a + 1 + i - 1]
      BY <1>1, <2>1, <2>2, SubSeqProperties
    <3>2. (IF a + 1 <= a + b + 1 THEN a + b + 1 - (a + 1) + 1 ELSE 0) = b + 1 /\ a + b + 1 - (a + 1) + 1 = b + 1
      BY <1>1
    <3>3. \A i \in 1..(b + 1) : a + 1 + i - 1 = a + i
      BY <1>1
    <3> QED BY <3>1, <3>2, <3>3
  <2>4. /\ Page(s, opt) \in Seq(Int) /\ Len(Page(s, opt)) = b /\ \A i \in 1..b : Page(s, opt)[i] = s[a + i]
    <3>0. \A i \in (a + 1)..(a + b) : s[i] \in Int
      BY <1>1, <1>3
    <3>1. /\ Page(s, opt) \in Seq(Int) /\ Len(Page(s, opt)) = (IF a + 1 <= a + b THEN a + b - (a + 1) + 1 ELSE 0)
          /\ \A i \in 1..(a + b - (a + 1) + 1) : Page(s, opt)[i] = s[a + 1 + i - 1]
      BY <1>1, <2>1, <3>0, SubSeqProperties
    <3>2. (IF a + 1 <= a + b THEN a + b - (a + 1) + 1 ELSE 0) = b /\ a + b - (a + 1) + 1 = b
      BY <1>1
    <3>3. \A i \in 1..b : a + 1 + i - 1 = a + i
      BY <1>1
    <3> QED BY <3>1, <3>2, <3>3
  <2>5. /\ SubSeq(w, 1, b) \in Seq(Int) /\ Len(SubSeq(w, 1, b)) = b /\ \A i \in 1..b : SubSeq(w, 1, b)[i] = w[i]
    <3>0. \A i \in 1..b : w[i] \in Int /\ i \in 1..(b + 1)
      BY <1>1, <2>3
    <3>1. /\ SubSeq(w, 1, b) \in Seq(Int) /\ Len(SubSeq(w, 1, b)) = (IF 1 <= b THEN b - 1 + 1 ELSE 0)
          /\ \A i \in 1..(b - 1 + 1) : SubSeq(w, 1, b)[i] = w[1 + i - 1]
      BY <1>1, <3>0, SubSeqProperties
    <3>2. (IF 1 <= b THEN b - 1 + 1 ELSE 0) = b /\ b - 1 + 1 = b /\ \A i \in 1..b : 1 + i - 1 = i
      BY <1>1
    <3> QED BY <3>1, <3>2
  <2>6. \A i \in 1..b : Page(s, opt)[i] = SubSeq(w, 1, b)[i]
    <3>1. \A i \in 1..b : i \in 1..(b + 1)
      BY <1>1
    <3> QED BY <2>3, <2>4, <2>5, <3>1
  <2>7. Page(s, opt) = SubSeq(w, 1, b)
    BY <2>4, <2>5, <2>6, SeqEqual
  <2>8. Len(w) > b
    BY <1>1, <2>3
  <2> QED BY <1>3, <2>7, <2>8 DEF w, b, a, l
<1>4. CASE ~(l > a + b)
  <2>1. w = SubSeq(s, a + 1, l) /\ Page(s, opt) = SubSeq(s, a + 1, l)
    <3>1. (IF a + b + 1 > l THEN l ELSE a + b + 1) = l /\ (IF a + b > l THEN l ELSE a + b) = l
      BY <1>1, <1>4
    <3> QED BY <1>2, <3>1
  <2>2. \A i \in (a + 1)..l : s[i] \in Int
    BY <1>1
  <2>3. Len(w) = (IF a + 1 <= l THEN l - (a + 1) + 1 ELSE 0)
    BY <1>1, <2>1, <2>2, SubSeqProperties
  <2>4. ~(Len(w) > b)
    BY <1>1, <1>4, <2>3
  <2> QED BY <1>4, <2>1, <2>4 DEF w, b, a, l
<1> QED BY <1>3, <1>4

\* A list of children, in any order, is a list of rows.
LEMMA OrdersAreRows ==
  ASSUME NEW t, IsTable(t), NEW opt, NEW keys, NEW s \in Orders(t, ChildRows(t, opt, keys), opt)
  PROVE  s \in Seq(Int)
<1>1. IsFiniteSet(ChildRows(t, opt, keys)) /\ ChildRows(t, opt, keys) \subseteq Int
  BY ExpandAssumption, FS_Subset DEF IsTable, ChildRows
<1>2. s \in SetToSeqs(ChildRows(t, opt, keys))
  BY DEF Orders
<1>3. s \in Seq(ChildRows(t, opt, keys))
  BY <1>1, <1>2, ListsAll
<1> QED BY <1>1, <1>3, SeqMonotonic

\* Whatever writers do between the statements, and however the parents fall
\* into batches, the collection of a to-many property is the page its parent had
\* in one state of the read, below maps perhaps with the row that was read ahead,
\* with a next link exactly when there were more rows, where one is given at all.
THEOREM PagesAreOneState == ExpandSpec => []EachPageIsOneState
<1>1. ExpandInv => EachPageIsOneState
  <2> SUFFICES ASSUME ExpandInv, ~NamesTwice, NEW f \in fields, f.nav = "Children"
               PROVE  LET opt == expand[f.opt] IN
                      \E t \in states : \E s \in Orders(t, ChildRows(t, opt, {Last(f.at).row}), opt) :
                        LET more == opt.top # NoTop /\ Len(s) > opt.skip + opt.top IN
                        /\ Shown(f).rows = Page(s, opt) \/ (UnderMaps(f) /\ Shown(f).rows = Window(s, opt))
                        /\ Shown(f).link <=> more /\ Len(f.at) = 1 /\ ~reply.maps /\ reply.metadataLevel # "none"
    BY DEF EachPageIsOneState
  <2> DEFINE q == f.opt
             list == Front(q)
             opt == expand[q]
             long == opt.top # NoTop /\ Len(f.rows) > opt.top
             linked == ~reply.maps /\ reply.metadataLevel # "none"
  <2>1. FieldsAgree(f) /\ IsExpand(expand) /\ \A t \in states : IsTable(t)
    BY DEF ExpandInv
  <2>2. q \in DOMAIN expand /\ f.nav = opt.nav /\ f.at \in Seq(Hops) /\ StandsBelow(f.at, list)
    BY <2>1 DEF FieldsAgree
  <2>3. q \in Seq(Nat) /\ q # <<>> /\ opt \in OptionTypes
    BY <2>1, <2>2 DEF IsExpand
  <2>4. list \in Seq(Nat) /\ Len(f.at) = Len(list) + 1
    BY <2>2, <2>3 DEF Front, StandsBelow
  <2>5. PICK t \in states : \E s \in Orders(t, ChildRows(t, opt, {Last(f.at).row}), opt) : f.rows = Window(s, opt)
    BY <2>1 DEF FieldsAgree
  <2>6. PICK s \in Orders(t, ChildRows(t, opt, {Last(f.at).row}), opt) : f.rows = Window(s, opt)
    BY <2>5
  <2>7. s \in Seq(Int)
    BY <2>1, OrdersAreRows
  <2>8. OptionsAt(f.at) = list
    BY <2>1, <2>2, <2>4, ListIsFound
  <2>9. FindExpandOption(list, f.nav) = q
    BY <2>1, <2>2, OptionIsFound
  \* The options of a field below the top are nested in one of the request.
  <2>10. list # <<>> => list \in DOMAIN expand
    <3>1. CASE list # <<>>
      <4>1. Len(list) \in 1..Len(list) /\ SubSeq(list, 1, Len(list)) = list
        BY <2>4, <3>1, EmptySeq, SubSeqFull
      <4> QED BY <2>2, <4>1 DEF StandsBelow
    <3> QED BY <3>1
  <2>11. ~Truncates(list) => UnderMaps(f)
    <3>1. CASE list = <<>>
      BY <3>1 DEF Truncates, UnderMaps
    <3>2. CASE list # <<>>
      BY <2>10, <3>2 DEF Truncates, UnderMaps
    <3> QED BY <3>1, <3>2
  <2>12. Len(f.at) = 1 <=> list = <<>>
    <3>1. CASE list = <<>>
      <4>1. Len(<<>>) = 0
        BY EmptySeq
      <4> QED BY <2>4, <3>1, <4>1
    <3>2. CASE list # <<>>
      <4>1. Len(list) \in Nat \ {0}
        BY <2>4, <3>2, EmptySeq
      <4>2. Len(list) + 1 # 1
        BY <4>1
      <4> QED BY <2>4, <3>2, <4>2
    <3> QED BY <3>1, <3>2
  <2>13. list = <<>> /\ ~reply.maps => Truncates(list)
    BY DEF Truncates
  <2>14. list = <<>> /\ Truncates(list) => ~reply.maps
    BY DEF Truncates
  <2> HIDE DEF list, opt, q
  <2>15. /\ Shown(f).rows = (IF long /\ Truncates(list) THEN SubSeq(f.rows, 1, opt.top) ELSE f.rows)
         /\ Shown(f).link <=> long /\ Truncates(list) /\ list = <<>> /\ reply.metadataLevel # "none"
    <3> DEFINE cut == f.nav = "Children" /\ opt.top # NoTop /\ Len(f.rows) > opt.top /\ Truncates(list)
               link == cut /\ list = <<>> /\ reply.metadataLevel # "none"
               rows == IF cut THEN SubSeq(f.rows, 1, opt.top) ELSE f.rows
    <3>1. Shown(f) = [rows |-> rows, link |-> link]
      BY <2>8, <2>9, Zenon DEF Shown, opt
    <3>2. cut <=> long /\ Truncates(list)
      OBVIOUS
    <3> HIDE DEF cut, long
    <3>3. rows = IF long /\ Truncates(list) THEN SubSeq(f.rows, 1, opt.top) ELSE f.rows
      BY <3>2
    <3>4. link <=> long /\ Truncates(list) /\ list = <<>> /\ reply.metadataLevel # "none"
      BY <3>2
    <3> HIDE DEF rows, link
    <3>5. Shown(f).rows = rows
      BY <3>1
    <3>6. Shown(f).link = link
      <4>1. \A b : [rows |-> rows, link |-> b].link = b
        OBVIOUS
      <4> QED BY <3>1, <4>1
    <3> QED BY <3>3, <3>4, <3>5, <3>6
  <2> DEFINE more == opt.top # NoTop /\ Len(s) > opt.skip + opt.top
  \* What is cut is what is more than a page.
  <2>16. /\ long <=> more
         /\ ~long => f.rows = Page(s, opt)
         /\ long => SubSeq(f.rows, 1, opt.top) = Page(s, opt)
    <3>1. CASE opt.top = NoTop
      <4>1. Window(s, opt) = Page(s, opt)
        BY <3>1 DEF Window, Page
      <4> QED BY <2>6, <3>1, <4>1
    <3>2. CASE opt.top # NoTop
      <4>1. /\ Len(Window(s, opt)) > opt.top <=> Len(s) > opt.skip + opt.top
            /\ Page(s, opt) = IF Len(s) > opt.skip + opt.top THEN SubSeq(Window(s, opt), 1, opt.top) ELSE Window(s, opt)
        BY <2>3, <2>7, <3>2, CutIsPage
      <4> QED BY <2>6, <3>2, <4>1
    <3> QED BY <3>1, <3>2
  <2> HIDE DEF long, more
  <2>17. Shown(f).rows = Page(s, opt) \/ (UnderMaps(f) /\ Shown(f).rows = Window(s, opt))
    BY <2>6, <2>11, <2>15, <2>16
  <2>18. Shown(f).link <=> more /\ Len(f.at) = 1 /\ ~reply.maps /\ reply.metadataLevel # "none"
    BY <2>12, <2>13, <2>14, <2>15, <2>16
  <2> QED BY <2>6, <2>17, <2>18 DEF opt, q, more
<1> QED BY ExpandInvariant, <1>1, PTL

-----------------------------------------------------------------------------
(* The options of a query string.                                          *)

\* Replacing the value of a parameter leaves its name and form.
LEMMA ValueIsReplaced ==
  ASSUME NEW p, IsParameter(p), NEW v
  PROVE  /\ [p EXCEPT !.val = v] = [name |-> p.name, form |-> p.form, val |-> v]
         /\ [p EXCEPT !.val = v].name = p.name /\ [p EXCEPT !.val = v].form = p.form
         /\ [p EXCEPT !.val = v].val = v
<1>1. p = [name |-> p.name, form |-> p.form, val |-> p.val]
  BY DEF IsParameter
<1> DEFINE n == p.name
           f == p.form
           w == p.val
           q == [name |-> n, form |-> f, val |-> w]
<1>2. p = q
  BY <1>1
<1> HIDE DEF n, f, w
<1>3. [q EXCEPT !.val = v] = [name |-> n, form |-> f, val |-> v]
  OBVIOUS
<1> QED BY <1>2, <1>3 DEF n, f

\* Normalizing the name of a parameter leaves its name and value.
LEMMA FormIsReplaced ==
  ASSUME NEW n, NEW f, NEW v
  PROVE  LET p == [name |-> n, form |-> f, val |-> v]
         IN normalizeQueryOptionKey(p) =
              [name |-> n, form |-> IF n \in validQueryOptions THEN "dollar" ELSE f, val |-> v]
<1> HIDE DEF validQueryOptions
<1> DEFINE p == [name |-> n, form |-> f, val |-> v]
<1>1. p.name = n /\ [p EXCEPT !.form = "dollar"] = [name |-> n, form |-> "dollar", val |-> v]
  OBVIOUS
<1> QED BY <1>1 DEF normalizeQueryOptionKey

\* Every parameter of a query string is one.
LEMMA UrlOfParameters == url \in URLs => \A i \in DOMAIN url : IsParameter(url[i])
  BY QueryOptionsAssumption

\* An option is given when the query string says it, and has the value said.
LEMMA GivenIsSaid ==
  ASSUME ParamsInv, reading = "validated" \/ IsRead, NEW o \in validQueryOptions
  PROVE  /\ IsGiven(o) <=> Saying(o) # {}
         /\ IsGiven(o) => Get(o) = Said(o)
         /\ IsPresent(o) <=> Says(o)
         /\ Says(o) => IsPresent(o) /\ Get(o) = Said(o)
<1> HIDE DEF validQueryOptions
<1>1. /\ DOMAIN params = {i \in Uses : url[i].name \in validQueryOptions}
      /\ \A i \in DOMAIN params : params[i].name = url[i].name /\ params[i].val = Substituted(url, url[i].val)
      /\ \A i, j \in Saying(o) : i = j
  BY DEF ParamsInv
<1>2. \A i : i \in Saying(o) <=> i \in DOMAIN params /\ params[i].name = o
  BY <1>1 DEF Saying, Uses
<1>3. IsGiven(o) <=> Saying(o) # {}
  BY <1>2 DEF IsGiven
<1>4. ASSUME IsGiven(o) PROVE Get(o) = Said(o)
  <2> DEFINE i == CHOOSE x \in DOMAIN params : params[x].name = o
             j == CHOOSE x \in Saying(o) : TRUE
  <2>1. i \in DOMAIN params /\ params[i].name = o
    BY <1>4 DEF IsGiven
  <2>2. j \in Saying(o)
    BY <1>3, <1>4
  <2>3. i = j
    BY <1>1, <1>2, <2>1, <2>2
  <2>4. Get(o) = params[i].val /\ Said(o) = Substituted(url, url[j].val)
    BY DEF Get, Said
  <2> HIDE DEF i, j
  <2> QED BY <1>1, <2>1, <2>3, <2>4
<1> QED BY <1>3, <1>4 DEF IsPresent, Says

\* A use of an alias fits no option whose value is parsed.
LEMMA RefsAreRefused ==
  ASSUME NEW o \in validQueryOptions \ FreeText, NEW v, v.is = "ref", NEW known
  PROVE  ~Accepts(o, v, known)
<1>1. o \in {"filter", "select", "expand", "orderby", "top", "skip", "count", "compute", "index", "apply"}
  BY DEF validQueryOptions, FreeText
<1> QED BY <1>1 DEF Accepts, IsAbsent

\* What is said of the query string stays said of it.
LEMMA UrlStays ==
  ASSUME url' = url
  PROVE  /\ Uses' = Uses /\ EveryAlias' = EveryAlias
         /\ \A o : Saying(o)' = Saying(o) /\ Said(o)' = Said(o) /\ (Says(o)' <=> Says(o))
         /\ WellFormed' <=> WellFormed
         /\ Peculiar' <=> Peculiar
<1>1. Uses' = Uses
  BY DEF Uses
<1>2. \A o : Saying(o)' = Saying(o)
  BY DEF Saying
<1>3. \A o : Said(o)' = Said(o)
  BY <1>2 DEF Said
<1>4. \A o : Says(o)' <=> Says(o)
  BY <1>2, <1>3 DEF Says
<1>5. EveryAlias' = EveryAlias
  BY <1>2, <1>3 DEF EveryAlias
<1>6. WellFormed' <=> WellFormed
  BY <1>2, <1>3, <1>4, <1>5 DEF WellFormed
<1>7. Peculiar' <=> Peculiar
  BY <1>3, <1>4 DEF Peculiar
<1> QED BY <1>1, <1>2, <1>3, <1>4, <1>5, <1>6, <1>7

\* Resolving the aliases refuses only what is ill-formed or peculiar.
LEMMA AliasesResolved == UrlInv /\ ResolveAliases => UrlInv'
<1> SUFFICES ASSUME UrlInv, ResolveAliases PROVE UrlInv'
  OBVIOUS
<1> HIDE DEF validQueryOptions
<1>1. /\ url \in URLs /\ params = url /\ reading = "received"
      /\ url' = url /\ moved' = moved /\ ~moved /\ reading' \in {"resolved", "rejected"}
  BY DEF UrlInv, ParamsInv, ResolveAliases, RejectUrl, parsing
<1>2. ~IsRead' /\ MergeInv'
  BY <1>1 DEF MergeInv, IsRead
<1> DEFINE clear == \A a \in Aliases(url) : \A i, j \in Definitions(url, a) : i = j
           undefined == Aliases(url) # {} /\ \E i \in Uses : Undefined(url, url[i].val)
<1>3. CASE ~clear \/ undefined
  <2>1. reading' = "rejected"
    BY <1>1, <1>3 DEF ResolveAliases, RejectUrl, Uses
  <2>2. ParamsInv'
    BY <1>1, <2>1, <1>2 DEF ParamsInv
  <2>3. CASE ~clear
    <3>1. ~WellFormed
      BY <2>3 DEF WellFormed
    <3>2. ~WellFormed'
      BY <3>1, <1>1, UrlStays
    <3> QED BY <1>2, <2>1, <2>2, <3>2 DEF UrlInv, OptionsInv
  <2>4. CASE undefined /\ clear
    <3>1. PICK i \in Uses : Undefined(url, url[i].val)
      BY <2>4
    <3>2. i \in DOMAIN url /\ url[i].form # "alias" /\ url[i].val.is = "ref"
      BY <3>1 DEF Uses, Undefined
    <3>3. ~WellFormed \/ Peculiar
      <4>1. CASE url[i].name \notin validQueryOptions \ FreeText
        BY <3>1, <3>2, <4>1, <2>4 DEF Peculiar
      <4>2. CASE url[i].name \in validQueryOptions \ FreeText
        <5> DEFINE o == url[i].name
        <5>1. i \in Saying(o)
          BY <3>2 DEF Saying
        <5>2. ASSUME WellFormed PROVE FALSE
          <6>1. \A j, k \in Saying(o) : j = k
            BY <4>2, <5>2 DEF WellFormed
          <6>2. (CHOOSE j \in Saying(o) : TRUE) = i
            BY <5>1, <6>1
          <6>3. Said(o) = url[i].val
            BY <3>1, <6>2 DEF Said, Substituted
          <6>4. Accepts(o, Said(o), Declared \cup EveryAlias)
            BY <4>2, <5>1, <5>2 DEF WellFormed
          <6> QED BY <3>2, <4>2, <6>3, <6>4, RefsAreRefused
        <5> QED BY <5>2
      <4> QED BY <4>1, <4>2
    <3>4. (~WellFormed \/ Peculiar)'
      BY <3>3, <1>1, UrlStays
    <3> QED BY <1>2, <2>1, <2>2, <3>4 DEF UrlInv, OptionsInv
  <2> QED BY <1>3, <2>3, <2>4
<1>4. CASE clear /\ ~undefined
  <2>1. /\ reading' = "resolved"
        /\ params' = [i \in Uses |-> [url[i] EXCEPT !.val = Substituted(url, @)]]
    BY <1>1, <1>4 DEF ResolveAliases, RejectUrl, Uses
  <2>2. Uses' = Uses /\ clear'
    BY <1>1, <1>4 DEF Uses
  <2>3. ParamsInv'
    BY <1>1, <1>2, <2>1, <2>2 DEF ParamsInv
  <2> QED BY <1>2, <2>1, <2>3 DEF UrlInv, OptionsInv
<1> QED BY <1>3, <1>4

\* Validating the names refuses only unknown options and repeated ones.
LEMMA NamesValidated == UrlInv /\ ValidateQueryOptions => UrlInv'
<1> SUFFICES ASSUME UrlInv, ValidateQueryOptions PROVE UrlInv'
  OBVIOUS
<1> HIDE DEF validQueryOptions
<1> DEFINE named == [i \in DOMAIN params |-> normalizeQueryOptionKey(params[i])]
           system == {i \in DOMAIN named : named[i].form \in {"dollar", "mixed"}}
           unknown == \E i \in system : named[i].name \notin validQueryOptions
           repeated == \E i, j \in system : i # j /\ named[i].name = named[j].name
<1>1. /\ url \in URLs /\ url' = url /\ moved' = moved /\ ~moved /\ reading = "resolved"
      /\ params = [i \in Uses |-> [url[i] EXCEPT !.val = Substituted(url, @)]]
      /\ \A a \in Aliases(url) : \A i, j \in Definitions(url, a) : i = j
  BY DEF UrlInv, ParamsInv, ValidateQueryOptions, RejectUrl, parsing
<1>2. /\ unknown \/ repeated => reading' = "rejected"
      /\ ~(unknown \/ repeated) => reading' = "validated" /\ params' = [i \in system |-> named[i]]
  BY DEF ValidateQueryOptions, RejectUrl
<1>3. DOMAIN named = Uses /\ \A i \in Uses :
        named[i] = [name |-> url[i].name,
                    form |-> IF url[i].name \in validQueryOptions THEN "dollar" ELSE url[i].form,
                    val |-> Substituted(url, url[i].val)]
  <2>1. DOMAIN params = Uses
    BY <1>1
  <2> SUFFICES ASSUME NEW i \in Uses
               PROVE  named[i] = [name |-> url[i].name,
                                  form |-> IF url[i].name \in validQueryOptions THEN "dollar" ELSE url[i].form,
                                  val |-> Substituted(url, url[i].val)]
    BY <2>1
  <2>2. params[i] = [url[i] EXCEPT !.val = Substituted(url, url[i].val)]
    BY <1>1
  <2>3. IsParameter(url[i])
    BY <1>1, UrlOfParameters DEF Uses
  <2>4. params[i] = [name |-> url[i].name, form |-> url[i].form, val |-> Substituted(url, url[i].val)]
    BY <2>2, <2>3, ValueIsReplaced
  <2>5. named[i] = normalizeQueryOptionKey(params[i])
    BY <2>1
  <2> QED BY <2>4, <2>5, FormIsReplaced
<1>4. /\ \A i \in Uses : named[i].name = url[i].name /\ named[i].val = Substituted(url, url[i].val)
      /\ \A i \in Uses : named[i].form = IF url[i].name \in validQueryOptions THEN "dollar" ELSE url[i].form
  BY <1>3
<1>5. DOMAIN named = Uses
  BY <1>3
<1> HIDE DEF named
<1>6. \A i \in Uses : i \in DOMAIN url /\ url[i].form \in {"dollar", "mixed", "bare"}
  BY <1>1, UrlOfParameters DEF Uses, IsParameter
<1>7. system = {i \in Uses : url[i].name \in validQueryOptions \/ url[i].form # "bare"}
  BY <1>4, <1>5, <1>6
<1>8. reading' \in {"validated", "rejected"}
  BY <1>2
<1>9. ~IsRead' /\ MergeInv'
  BY <1>8 DEF MergeInv, IsRead
<1>10. \A o : Saying(o) = {i \in Uses : url[i].name = o}
  BY DEF Saying, Uses
<1>11. CASE unknown \/ repeated
  <2>1. ~WellFormed
    <3>1. CASE unknown
      <4>1. PICK i \in Uses : url[i].name \notin validQueryOptions /\ url[i].form # "bare"
        BY <3>1, <1>4, <1>7
      <4> QED BY <4>1, <1>6 DEF WellFormed
    <3>2. CASE repeated /\ ~unknown
      <4>1. PICK i \in system, j \in system : i # j /\ named[i].name = named[j].name
        BY <3>2
      <4>2. i \in Saying(url[i].name) /\ j \in Saying(url[i].name) /\ url[i].name \in validQueryOptions
        BY <3>2, <4>1, <1>4, <1>7, <1>10
      <4> QED BY <4>1, <4>2 DEF WellFormed
    <3> QED BY <1>11, <3>1, <3>2
  <2>2. ~WellFormed'
    BY <2>1, <1>1, UrlStays
  <2>3. reading' = "rejected"
    BY <1>2, <1>11
  <2> HIDE DEF system
  <2>4. ParamsInv'
    BY <1>1, <1>9, <2>3 DEF ParamsInv
  <2> QED BY <1>9, <2>2, <2>3, <2>4 DEF UrlInv, OptionsInv
<1>12. CASE ~unknown /\ ~repeated
  <2>1. reading' = "validated" /\ params' = [i \in system |-> named[i]]
    BY <1>2, <1>12
  <2>2. system = {i \in Uses : url[i].name \in validQueryOptions}
    BY <1>4, <1>7, <1>12
  <2>3. \A i \in Uses : url[i].form # "bare" => url[i].name \in validQueryOptions
    BY <1>4, <1>7, <1>12
  <2>4. \A o \in validQueryOptions : \A i, j \in Saying(o) : i = j
    BY <1>4, <1>7, <1>10, <1>12
  <2>5. \A i \in system : named[i].name = url[i].name /\ named[i].val = Substituted(url, url[i].val)
    BY <1>4, <2>2
  <2> HIDE DEF system
  <2>6. Uses' = Uses /\ \A o : Saying(o)' = Saying(o)
    BY <1>1, UrlStays
  <2>7. ParamsInv'
    BY <1>1, <1>9, <2>1, <2>2, <2>3, <2>4, <2>5, <2>6 DEF ParamsInv
  <2> QED BY <1>9, <2>1, <2>7 DEF UrlInv, OptionsInv
<1> QED BY <1>11, <1>12

\* What the query string says of an option is a value written in it.
LEMMA ValuesAreWritten ==
  ASSUME url \in URLs, NEW o, Saying(o) # {}
  PROVE  /\ Said(o).is = "select" => Said(o).items \in Seq(SelectItem)
         /\ Said(o).is = "expand" => Said(o).opts \in Seq(ExpandOption)
         /\ Said(o).is = "apply" => Said(o).steps \in Seq(PipelineStep)
<1>1. PICK i \in Saying(o) : Said(o) = Substituted(url, url[i].val)
  BY DEF Said
<1>2. PICK k \in DOMAIN url : Said(o) = url[k].val
  <2>1. CASE url[i].val.is = "ref" /\ ~Undefined(url, url[i].val)
    <3>1. Definitions(url, url[i].val.to) # {}
      BY <2>1 DEF Undefined, Aliases, Definitions
    <3>2. (CHOOSE k \in Definitions(url, url[i].val.to) : TRUE) \in DOMAIN url
      BY <3>1 DEF Definitions
    <3> QED BY <1>1, <2>1, <3>2 DEF Substituted
  <2>2. CASE ~(url[i].val.is = "ref" /\ ~Undefined(url, url[i].val))
    BY <1>1, <2>2 DEF Substituted, Saying
  <2> QED BY <2>1, <2>2
<1>3. IsParameter(url[k])
  BY UrlOfParameters
<1> QED BY <1>2, <1>3 DEF IsParameter

\* The aliases the parser knows are among those the query string defines, and
\* without a second compute( they are all of them.
LEMMA AliasesAreKnown ==
  ASSUME UrlInv, reading = "validated"
  PROVE  ComputedAliases \subseteq EveryAlias /\ (~Peculiar => ComputedAliases = EveryAlias)
<1> HIDE DEF validQueryOptions
<1>1. "compute" \in validQueryOptions /\ "apply" \in validQueryOptions
  BY DEF validQueryOptions
<1>2. \A o \in {"compute", "apply"} :
        (IsGiven(o) <=> Saying(o) # {}) /\ (IsGiven(o) => Get(o) = Said(o))
  BY <1>1, GivenIsSaid DEF UrlInv
<1> DEFINE steps == Said("apply").steps
           kinds(k) == {i \in DOMAIN steps : steps[i].kind = k}
           first == {i \in kinds("compute") : \A j \in kinds("compute") : i <= j}
           asked == Saying("apply") # {} /\ Said("apply").is = "apply"
           computed == IF Saying("compute") # {} /\ Said("compute").is = "compute"
                       THEN {Said("compute").alias} ELSE {}
           known == {steps[i].alias : i \in first \cup kinds("aggregate")} \cup {"$count" : i \in kinds("groupby")}
           every == {steps[i].alias : i \in kinds("compute") \cup kinds("aggregate")}
                      \cup {"$count" : i \in kinds("groupby")}
<1>3. ComputedAliases = computed \cup IF asked THEN known ELSE {}
  <2>1. (IF IsGiven("compute") /\ Get("compute").is = "compute" THEN {Get("compute").alias} ELSE {}) = computed
    BY <1>2
  <2>2. CASE asked
    <3>1. IsGiven("apply") /\ Get("apply") = Said("apply")
      BY <1>2, <2>2
    <3> QED BY <2>1, <2>2, <3>1 DEF ComputedAliases
  <2>3. CASE ~asked
    <3>1. ~IsGiven("apply") \/ Get("apply").is # "apply"
      BY <1>2, <2>3
    <3> QED BY <2>1, <2>3, <3>1 DEF ComputedAliases
  <2> QED BY <2>2, <2>3
<1>4. EveryAlias = computed \cup IF asked THEN every ELSE {}
  <2>1. {Said("compute").alias : i \in {j \in Saying("compute") : Said("compute").is = "compute"}} = computed
    OBVIOUS
  <2> DEFINE each == {steps[k].alias : k \in {j \in DOMAIN steps : steps[j].kind \in {"compute", "aggregate"}}}
                       \cup {"$count" : k \in {j \in DOMAIN steps : steps[j].kind = "groupby"}}
  <2>2. each = every
    OBVIOUS
  <2>3. UNION {each : i \in {j \in Saying("apply") : Said("apply").is = "apply"}} = IF asked THEN each ELSE {}
    <3> HIDE DEF each
    <3> QED OBVIOUS
  <2>4. EveryAlias = {Said("compute").alias : i \in {j \in Saying("compute") : Said("compute").is = "compute"}}
                       \cup UNION {each : i \in {j \in Saying("apply") : Said("apply").is = "apply"}}
    BY DEF EveryAlias
  <2> QED BY <2>1, <2>2, <2>3, <2>4
<1>5. known \subseteq every
  OBVIOUS
<1>6. ASSUME ~Peculiar, asked PROVE known = every
  <2>1. Says("apply")
    BY <1>6 DEF Says, IsAbsent
  <2>2. ~\E i, j \in DOMAIN steps : i < j /\ steps[i].kind = "compute" /\ steps[j].kind = "compute"
    BY <1>6, <2>1 DEF Peculiar
  <2>3. steps \in Seq(PipelineStep)
    BY <1>6, ValuesAreWritten DEF UrlInv, ParamsInv
  <2>4. DOMAIN steps \subseteq Int
    BY <2>3
  <2>5. first = kinds("compute")
    BY <2>2, <2>4
  <2> QED BY <2>5
<1> HIDE DEF known, every, asked, computed
<1> QED BY <1>3, <1>4, <1>5, <1>6

\* An option's parser that knows more accepts more.
LEMMA KnowingMoreAcceptsMore ==
  ASSUME NEW o \in validQueryOptions, NEW v, NEW known, NEW more, known \subseteq more, Accepts(o, v, known)
  PROVE  Accepts(o, v, more)
<1>1. CASE IsAbsent(o, v)
  BY <1>1 DEF Accepts
<1>2. CASE ~IsAbsent(o, v) /\ o \in {"filter", "orderby"}
  BY <1>2 DEF Accepts
<1>3. CASE ~IsAbsent(o, v) /\ o = "select"
  BY <1>3 DEF Accepts, Selectable
<1>4. CASE ~IsAbsent(o, v) /\ o \notin {"filter", "orderby", "select"}
  BY <1>4 DEF Accepts, validQueryOptions
<1> QED BY <1>1, <1>2, <1>3, <1>4

\* The nested items of $select become one option for each navigation property
\* they name, with all that they select below it.
LEMMA NestedAreMerged ==
  ASSUME NEW items, items \in Seq(SelectItem)
  PROVE  LET opts == NestedSelects(items)
             below(n) == {items[j].sub : j \in {k \in DOMAIN items : items[k].nested /\ items[k].nav = n}}
         IN /\ opts \in Seq(ExpandOption)
            /\ \A k \in DOMAIN opts : opts[k].select = below(opts[k].nav)
            /\ \A j \in DOMAIN items : items[j].nested => \E k \in DOMAIN opts : opts[k].nav = items[j].nav
<1> DEFINE opts == NestedSelects(items)
           below(n) == {items[j].sub : j \in {k \in DOMAIN items : items[k].nested /\ items[k].nav = n}}
           nested == {i \in DOMAIN items : items[i].nested}
           same(i) == {j \in nested : items[j].nav = items[i].nav}
           first == {i \in nested : \A j \in same(i) : i <= j}
           order == CHOOSE s \in SetToSeqs(first) : \A i, j \in DOMAIN s : i < j => s[i] < s[j]
<1>1. /\ Len(items) \in Nat /\ DOMAIN items = 1..Len(items)
      /\ \A i \in DOMAIN items : items[i].nav \in STRING /\ items[i].sub \in STRING
  <2>1. Len(items) \in Nat /\ DOMAIN items = 1..Len(items) /\ \A i \in DOMAIN items : items[i] \in SelectItem
    OBVIOUS
  <2> QED BY <2>1 DEF SelectItem
<1>2. first \in SUBSET (1..Len(items))
  BY <1>1
<1>3. IsFiniteSet(first) /\ \E s \in SetToSeqs(first) : \A i, j \in DOMAIN s : i < j => s[i] < s[j]
  <2> HIDE DEF first
  <2> QED BY <1>1, <1>2, SomeOrder DEF Increases
<1>4. order \in SetToSeqs(first)
  BY <1>3
<1>5. opts = [k \in DOMAIN order |-> [nav |-> items[order[k]].nav, select |-> {items[j].sub : j \in same(order[k])}]]
  BY DEF NestedSelects
<1> HIDE DEF opts, order
<1>6. /\ Cardinality(first) \in Nat /\ DOMAIN order = 1..Cardinality(first)
      /\ \A k \in DOMAIN order : order[k] \in first
      /\ \A i \in first : \E k \in DOMAIN order : order[k] = i
  <2> HIDE DEF first
  <2> QED BY <1>3, <1>4, ListsAll
<1>7. DOMAIN opts = 1..Cardinality(first) /\ \A k \in DOMAIN opts :
        opts[k] = [nav |-> items[order[k]].nav, select |-> {items[j].sub : j \in same(order[k])}]
  BY <1>5, <1>6
<1>8. \A k \in DOMAIN opts : /\ order[k] \in DOMAIN items
                             /\ opts[k].nav = items[order[k]].nav
                             /\ opts[k].select = {items[j].sub : j \in same(order[k])}
  BY <1>6, <1>7
<1>9. \A k \in DOMAIN opts : opts[k].select = below(opts[k].nav)
  BY <1>8
<1>10. \A k \in DOMAIN opts : opts[k] \in ExpandOption
  <2> SUFFICES ASSUME NEW k \in DOMAIN opts PROVE opts[k] \in ExpandOption
    OBVIOUS
  <2>1. items[order[k]].nav \in STRING /\ {items[j].sub : j \in same(order[k])} \in SUBSET STRING
    BY <1>1, <1>8
  <2> QED BY <1>7, <2>1 DEF ExpandOption
<1>11. opts \in Seq(ExpandOption)
  <2>1. opts \in [1..Cardinality(first) -> ExpandOption]
    BY <1>5, <1>7, <1>10
  <2> DEFINE c == Cardinality(first)
  <2>2. c \in Nat /\ opts \in [1..c -> ExpandOption]
    BY <1>6, <2>1
  <2> HIDE DEF c
  <2> QED BY <2>2
<1>12. ASSUME NEW j \in DOMAIN items, items[j].nested PROVE \E k \in DOMAIN opts : opts[k].nav = items[j].nav
  <2>1. j \in same(j) /\ same(j) \in SUBSET Nat
    BY <1>1, <1>12
  <2>2. PICK i \in same(j) : \A k \in same(j) : i <= k
    <3> HIDE DEF same
    <3> QED BY <2>1, OneIsLeast
  <2>3. i \in first /\ items[i].nav = items[j].nav
    BY <2>2
  <2>4. PICK k \in DOMAIN order : order[k] = i
    BY <1>6, <2>3
  <2> QED BY <1>6, <1>7, <1>8, <2>3, <2>4
<1> QED BY <1>9, <1>11, <1>12 DEF opts

\* Of the options of a navigation property there is a last one.
LEMMA LastIsFound ==
  ASSUME NEW S, NEW opts \in Seq(S), NEW n, \E i \in DOMAIN opts : opts[i].nav = n
  PROVE  LET i == SelectLastInSeq(opts, LAMBDA e : e.nav = n) IN i \in DOMAIN opts /\ opts[i].nav = n
<1> DEFINE places == {i \in 1..Len(opts) : opts[i].nav = n}
           before == {Len(opts) - i : i \in places}
<1>1. Len(opts) \in Nat /\ DOMAIN opts = 1..Len(opts)
  OBVIOUS
<1>2. places # {} /\ before # {} /\ before \in SUBSET Nat
  BY <1>1
<1>3. PICK m \in before : \A k \in before : m <= k
  <2> HIDE DEF before
  <2> QED BY <1>2, OneIsLeast
<1>4. PICK i \in places : m = Len(opts) - i
  OBVIOUS
<1>5. \A j \in places : i >= j
  <2> SUFFICES ASSUME NEW j \in places PROVE i >= j
    OBVIOUS
  <2>1. m <= Len(opts) - j
    BY <1>3
  <2>2. i \in Nat /\ j \in Nat
    BY <1>1
  <2> QED BY <1>1, <1>4, <2>1, <2>2
<1>6. Max(places) \in places
  <2> HIDE DEF places
  <2> QED BY <1>5, <1>4 DEF Max
<1>7. SelectLastInSeq(opts, LAMBDA e : e.nav = n) = Max(places)
  BY <1>2 DEF SelectLastInSeq
<1> HIDE DEF places
<1>8. Max(places) \in DOMAIN opts /\ opts[Max(places)].nav = n
  <2>1. \A j \in places : j \in DOMAIN opts /\ opts[j].nav = n
    BY <1>1 DEF places
  <2> QED BY <1>6, <2>1
<1> QED BY <1>7, <1>8

\* What $select names stays so while the parameters do.
LEMMA ParamsStay ==
  ASSUME params' = params
  PROVE  /\ Items' = Items /\ Paths' = Paths
         /\ \A n : Below(n)' = Below(n) /\ NestedBelow(n)' = NestedBelow(n)
<1>1. \A o : (IsGiven(o)' <=> IsGiven(o)) /\ Get(o)' = Get(o)
  BY DEF IsGiven, Get
<1>2. \A o : IsPresent(o)' <=> IsPresent(o)
  BY <1>1 DEF IsPresent
<1>3. Items' = Items
  BY <1>1, <1>2 DEF Items
<1>4. \A n : Below(n)' = Below(n) /\ NestedBelow(n)' = NestedBelow(n)
  BY <1>3 DEF Below, NestedBelow
<1>5. Paths' = Paths
  BY <1>4 DEF Paths
<1> QED BY <1>3, <1>4, <1>5

\* The items of a well-formed $select are items.
LEMMA ItemsAreTyped ==
  ASSUME ParamsInv, reading = "validated" \/ IsRead, WellFormed
  PROVE  Items \in Seq(SelectItem)
<1> HIDE DEF validQueryOptions
<1>1. "select" \in validQueryOptions
  BY DEF validQueryOptions
<1>2. CASE IsPresent("select")
  <2>1. Says("select") /\ Saying("select") # {} /\ Get("select") = Said("select")
    BY <1>1, <1>2, GivenIsSaid DEF Says
  <2>2. Accepts("select", Said("select"), Declared \cup EveryAlias) /\ ~IsAbsent("select", Said("select"))
    BY <1>1, <2>1 DEF WellFormed, Says
  <2>3. Said("select").is = "select"
    BY <2>2 DEF Accepts
  <2>4. url \in URLs
    BY DEF ParamsInv
  <2> QED BY <1>2, <2>1, <2>3, <2>4, ValuesAreWritten DEF Items
<1>3. CASE ~IsPresent("select")
  BY <1>3 DEF Items
<1> QED BY <1>2, <1>3

\* A query string is refused for what is ill-formed or peculiar, and read as
\* it says; the nested items of $select are in the expansion.
LEMMA OptionsParsed == UrlInv /\ ParseOptions => UrlInv'
<1> SUFFICES ASSUME UrlInv, ParseOptions PROVE UrlInv'
  OBVIOUS
<1> HIDE DEF validQueryOptions
<1> DEFINE refused == \E o \in validQueryOptions : IsGiven(o) /\ ~Accepts(o, Get(o), Declared \cup ComputedAliases)
           both == IsPresent("skip") /\ IsPresent("skiptoken")
           opts == IF IsPresent("expand") THEN Get("expand").opts ELSE NestedSelects(Items)
<1>1. url \in URLs /\ url' = url /\ params' = params /\ reading = "validated" /\ moved' = moved /\ ~moved
  BY DEF UrlInv, ParamsInv, ParseOptions, RejectUrl, parsing
<1>2. refused \/ both => reading' = "rejected"
  BY DEF ParseOptions, RejectUrl
<1>3. ~refused /\ ~both =>
        /\ options' = [o \in {p \in validQueryOptions \ {"expand"} : IsPresent(p)} |-> Get(o)]
        /\ expansion' = opts
        /\ expandMap' = [n \in {opts[i].nav : i \in DOMAIN opts} |-> SelectLastInSeq(opts, LAMBDA e : e.nav = n)]
        /\ spare' \in IF IsPresent("expand") THEN {0} ELSE 0..Len(opts)
        /\ navSelects' = Paths
        /\ reading' \in {"parsed", "merging"}
        /\ reading' = "parsed" => Paths = {}
  BY DEF ParseOptions
<1>4. /\ {"skip", "skiptoken", "select", "expand"} \subseteq validQueryOptions
      /\ \A o \in validQueryOptions : /\ IsGiven(o) <=> Saying(o) # {}
                                      /\ IsGiven(o) => Get(o) = Said(o)
                                      /\ IsPresent(o) <=> Says(o)
                                      /\ Says(o) => IsPresent(o) /\ Get(o) = Said(o)
  BY <1>1, GivenIsSaid DEF UrlInv, validQueryOptions
<1>5. ComputedAliases \subseteq EveryAlias /\ (~Peculiar => ComputedAliases = EveryAlias)
  BY <1>1, AliasesAreKnown
<1>6. ParamsInv'
  <2>1. Uses' = Uses /\ \A o : Saying(o)' = Saying(o)
    BY <1>1, UrlStays
  <2>2. reading' \in {"parsed", "merging", "rejected"}
    BY <1>2, <1>3
  <2> QED BY <1>1, <2>1, <2>2 DEF ParamsInv, UrlInv, IsRead
<1>7. CASE refused \/ both
  <2>1. ~WellFormed \/ Peculiar
    <3>1. CASE refused
      <4>1. PICK o \in validQueryOptions : IsGiven(o) /\ ~Accepts(o, Get(o), Declared \cup ComputedAliases)
        BY <3>1
      <4>2. Saying(o) # {} /\ Get(o) = Said(o)
        BY <1>4, <4>1
      <4>3. ASSUME ~Peculiar PROVE ~WellFormed
        BY <1>5, <4>1, <4>2, <4>3 DEF WellFormed
      <4> QED BY <4>3
    <3>2. CASE both
      BY <1>4, <3>2 DEF WellFormed
    <3> QED BY <1>7, <3>1, <3>2
  <2>2. (~WellFormed \/ Peculiar)'
    BY <1>1, <2>1, UrlStays
  <2>3. reading' = "rejected"
    BY <1>2, <1>7
  <2> QED BY <1>6, <2>2, <2>3 DEF UrlInv, OptionsInv, MergeInv, IsRead
<1>8. CASE ~refused /\ ~both
  <2> DEFINE present == {p \in validQueryOptions \ {"expand"} : IsPresent(p)}
             said == {p \in validQueryOptions \ {"expand"} : Says(p)}
  <2>1. WellFormed
    <3>1. \A i \in DOMAIN url : url[i].form \in {"dollar", "mixed"} => url[i].name \in validQueryOptions
      BY <1>1 DEF UrlInv, ParamsInv, Uses
    <3>2. \A o \in validQueryOptions : \A i, j \in Saying(o) : i = j
      BY <1>1 DEF UrlInv, ParamsInv
    <3>3. \A a \in Aliases(url) : \A i, j \in Definitions(url, a) : i = j
      BY <1>1 DEF UrlInv, ParamsInv
    <3>4. ASSUME NEW o \in validQueryOptions, Saying(o) # {} PROVE Accepts(o, Said(o), Declared \cup EveryAlias)
      <4>1. Accepts(o, Said(o), Declared \cup ComputedAliases)
        BY <1>4, <1>8, <3>4
      <4>2. Declared \cup ComputedAliases \subseteq Declared \cup EveryAlias
        BY <1>5
      <4> QED BY <4>1, <4>2, KnowingMoreAcceptsMore
    <3>5. ~(Says("skip") /\ Says("skiptoken"))
      BY <1>4, <1>8
    <3> QED BY <3>1, <3>2, <3>3, <3>4, <3>5 DEF WellFormed
  <2>2. options' = [o \in said |-> Said(o)]
    <3>1. present = said /\ \A o \in said : Get(o) = Said(o)
      BY <1>4
    <3>2. options' = [o \in present |-> Get(o)]
      BY <1>3, <1>8
    <3> HIDE DEF present, said
    <3> QED BY <3>1, <3>2
  <2>3. reading' \in {"parsed", "merging"}
    BY <1>3, <1>8
  <2>4. OptionsInv'
    <3>1. WellFormed' /\ \A o : (Says(o)' <=> Says(o)) /\ Said(o)' = Said(o)
      BY <1>1, <2>1, UrlStays
    <3>2. {p \in validQueryOptions \ {"expand"} : Says(p)}' = said
      BY <3>1
    <3>3. [o \in {p \in validQueryOptions \ {"expand"} : Says(p)} |-> Said(o)]' = [o \in said |-> Said(o)]
      BY <3>1, <3>2
    <3> QED BY <2>2, <2>3, <3>1, <3>3 DEF OptionsInv
  <2>5. Items \in Seq(SelectItem)
    BY <1>1, <2>1, ItemsAreTyped DEF UrlInv
  <2>6. opts \in Seq(ExpandOption)
    <3>1. CASE IsPresent("expand")
      <4>1. Says("expand") /\ Saying("expand") # {} /\ Get("expand") = Said("expand")
        BY <1>4, <3>1 DEF Says
      <4>2. Accepts("expand", Said("expand"), Declared \cup EveryAlias) /\ ~IsAbsent("expand", Said("expand"))
        BY <1>4, <2>1, <4>1 DEF WellFormed, Says
      <4>3. Said("expand").is = "expand"
        BY <4>2 DEF Accepts
      <4> QED BY <1>1, <3>1, <4>1, <4>3, ValuesAreWritten
    <3>2. CASE ~IsPresent("expand")
      BY <2>5, <3>2, NestedAreMerged
    <3> QED BY <3>1, <3>2
  <2>7. ~IsPresent("expand") =>
          /\ \A k \in DOMAIN opts : opts[k].select = NestedBelow(opts[k].nav)
          /\ \A n : NestedBelow(n) # {} => \E k \in DOMAIN opts : opts[k].nav = n
    <3> SUFFICES ASSUME ~IsPresent("expand")
                 PROVE  /\ \A k \in DOMAIN opts : opts[k].select = NestedBelow(opts[k].nav)
                        /\ \A n : NestedBelow(n) # {} => \E k \in DOMAIN opts : opts[k].nav = n
      OBVIOUS
    <3> DEFINE below(n) == {Items[j].sub : j \in {k \in DOMAIN Items : Items[k].nested /\ Items[k].nav = n}}
    <3>1. opts = NestedSelects(Items)
      OBVIOUS
    <3>2. \A n : below(n) = NestedBelow(n)
      BY DEF NestedBelow
    <3>3. /\ \A k \in DOMAIN NestedSelects(Items) : NestedSelects(Items)[k].select = below(NestedSelects(Items)[k].nav)
          /\ \A j \in DOMAIN Items : Items[j].nested =>
               \E k \in DOMAIN NestedSelects(Items) : NestedSelects(Items)[k].nav = Items[j].nav
      BY <2>5, NestedAreMerged
    <3>4. \A n : NestedBelow(n) # {} => \E j \in DOMAIN Items : Items[j].nested /\ Items[j].nav = n
      BY DEF NestedBelow
    <3> HIDE DEF opts, below
    <3>5. \A k \in DOMAIN opts : opts[k].select = NestedBelow(opts[k].nav)
      BY <3>1, <3>2, <3>3
    <3>6. \A n : NestedBelow(n) # {} => \E k \in DOMAIN opts : opts[k].nav = n
      BY <3>1, <3>3, <3>4
    <3> QED BY <3>5, <3>6
  <2>8. expansion' = opts /\ spare' \in IF IsPresent("expand") THEN {0} ELSE 0..Len(opts)
    BY <1>3, <1>8
  <2>9. /\ DOMAIN expandMap' = {opts[i].nav : i \in DOMAIN opts}
        /\ \A n \in DOMAIN expandMap' : expandMap'[n] \in DOMAIN opts /\ opts[expandMap'[n]].nav = n
    <3> HIDE DEF opts
    <3>1. expandMap' = [n \in {opts[i].nav : i \in DOMAIN opts} |-> SelectLastInSeq(opts, LAMBDA e : e.nav = n)]
      BY <1>3, <1>8
    <3>2. ASSUME NEW n \in DOMAIN expandMap' PROVE expandMap'[n] \in DOMAIN opts /\ opts[expandMap'[n]].nav = n
      <4>1. \E i \in DOMAIN opts : opts[i].nav = n
        BY <3>1
      <4>2. LET i == SelectLastInSeq(opts, LAMBDA e : e.nav = n) IN i \in DOMAIN opts /\ opts[i].nav = n
        BY <2>6, <4>1, LastIsFound
      <4>3. expandMap'[n] = SelectLastInSeq(opts, LAMBDA e : e.nav = n)
        BY <3>1
      <4> QED BY <4>2, <4>3
    <3> QED BY <3>1, <3>2
  <2>10. spare' \in Nat
    <3>1. Len(opts) \in Nat
      <4> HIDE DEF opts
      <4> QED BY <2>6
    <3> HIDE DEF opts
    <3> QED BY <2>8, <3>1
  <2>11. /\ navSelects' = Paths /\ (reading' = "parsed" => navSelects' = {})
         /\ Paths' = Paths /\ \A n : NestedBelow(n)' = NestedBelow(n)
         /\ Says("expand")' <=> IsPresent("expand")
    BY <1>1, <1>3, <1>4, <1>8, ParamsStay, UrlStays
  <2> HIDE DEF opts
  <2>12. Paths' \ navSelects' = {}
    BY <2>11
  <2>13. ASSUME NEW n \in Navigations, ~IsPresent("expand"), NestedBelow(n) # {}
         PROVE  n \in DOMAIN expandMap' /\ NestedBelow(n) \subseteq opts[expandMap'[n]].select
    <3>1. n \in DOMAIN expandMap'
      BY <2>7, <2>9, <2>13
    <3>2. opts[expandMap'[n]].select = NestedBelow(n)
      BY <2>7, <2>9, <2>13, <3>1
    <3> QED BY <3>1, <3>2
  <2>14. MergeInv'
    BY <1>1, <2>6, <2>8, <2>9, <2>10, <2>11, <2>12, <2>13 DEF MergeInv
  <2> QED BY <1>6, <2>4, <2>14 DEF UrlInv
<1> QED BY <1>7, <1>8

\* Merging the paths of one navigation property keeps what is merged already.
LEMMA PathsMerged ==
  ASSUME UrlInv, NEW n \in Navigations, MergeSelect(n)
  PROVE  UrlInv'
<1>1. /\ url \in URLs /\ url' = url /\ params' = params /\ options' = options /\ expandMap' = expandMap
      /\ reading = "merging" /\ reading' \in {"merging", "parsed"} /\ IsRead /\ IsRead'
      /\ n \in navSelects /\ navSelects' = navSelects \ {n} /\ (reading' = "parsed" => navSelects' = {})
  BY DEF UrlInv, ParamsInv, MergeSelect, IsRead
<1>2. /\ Uses' = Uses /\ (WellFormed' <=> WellFormed)
      /\ \A o : Saying(o)' = Saying(o) /\ Said(o)' = Said(o) /\ (Says(o)' <=> Says(o))
  BY <1>1, UrlStays
<1>3. Paths' = Paths /\ \A m : Below(m)' = Below(m) /\ NestedBelow(m)' = NestedBelow(m)
  BY <1>1, ParamsStay
<1>4. ParamsInv'
  <2> HIDE DEF validQueryOptions
  <2> QED BY <1>1, <1>2 DEF UrlInv, ParamsInv
<1>5. OptionsInv'
  <2> HIDE DEF validQueryOptions
  <2> DEFINE said == {p \in validQueryOptions \ {"expand"} : Says(p)}
  <2>1. said' = said
    BY <1>2
  <2>2. [o \in said |-> Said(o)]' = [o \in said |-> Said(o)]
    BY <1>2, <2>1
  <2>3. WellFormed /\ options = [o \in said |-> Said(o)]
    BY <1>1 DEF UrlInv, OptionsInv
  <2> HIDE DEF said
  <2>4. WellFormed' /\ options' = [o \in said |-> Said(o)]'
    BY <1>1, <1>2, <2>2, <2>3
  <2> QED BY <1>1, <2>4 DEF OptionsInv, said
<1>6. Below(n) \in SUBSET STRING
  <2>1. Items \in Seq(SelectItem)
    BY <1>1, ItemsAreTyped DEF UrlInv, OptionsInv
  <2>2. \A j \in DOMAIN Items : Items[j].sub \in STRING
    <3> SUFFICES ASSUME NEW j \in DOMAIN Items PROVE Items[j].sub \in STRING
      OBVIOUS
    <3>1. Items[j] \in SelectItem
      BY <2>1
    <3> QED BY <3>1 DEF SelectItem
  <2> QED BY <2>2 DEF Below
<1>7. /\ expansion \in Seq(ExpandOption) /\ spare \in Nat
      /\ \A m \in DOMAIN expandMap : expandMap[m] \in DOMAIN expansion /\ expansion[expandMap[m]].nav = m
      /\ ~Says("expand") =>
           \A m \in Navigations : NestedBelow(m) # {} =>
             m \in DOMAIN expandMap /\ NestedBelow(m) \subseteq expansion[expandMap[m]].select
      /\ navSelects \subseteq Paths
      /\ moved => Paths \ DOMAIN expandMap # {}
      /\ \A m \in Paths \ navSelects :
           IF m \in DOMAIN expandMap
           THEN Paths \ DOMAIN expandMap # {} \/ Below(m) \subseteq expansion[expandMap[m]].select
           ELSE \E i \in DOMAIN expansion : expansion[i].nav = m /\ Below(m) \subseteq expansion[i].select
  BY <1>1 DEF UrlInv, MergeInv
\* What the step does to the options: none loses anything.
<1> DEFINE grows == /\ expansion' \in Seq(ExpandOption) /\ DOMAIN expansion \subseteq DOMAIN expansion'
                    /\ \A i \in DOMAIN expansion : /\ expansion'[i].nav = expansion[i].nav
                                                   /\ expansion[i].select \subseteq expansion'[i].select
           here == IF n \in DOMAIN expandMap
                   THEN Paths \ DOMAIN expandMap # {} \/ Below(n) \subseteq expansion'[expandMap[n]].select
                   ELSE \E i \in DOMAIN expansion' : expansion'[i].nav = n /\ Below(n) \subseteq expansion'[i].select
           surroundings == spare' \in Nat /\ (moved' => Paths \ DOMAIN expandMap # {})
<1>8. grows /\ here /\ surroundings
  <2>1. CASE n \in DOMAIN expandMap /\ moved
    <3>1. expansion' = expansion /\ spare' = spare /\ moved' = moved
      BY <2>1 DEF MergeSelect
    <3> QED BY <1>7, <2>1, <3>1
  <2>2. CASE n \in DOMAIN expandMap /\ ~moved
    <3> DEFINE p == expandMap[n]
    <3>1. expansion' = [expansion EXCEPT ![p].select = @ \cup Below(n)] /\ spare' = spare /\ moved' = moved
      BY <2>2 DEF MergeSelect, Merged
    <3>2. p \in DOMAIN expansion /\ expansion[p] \in ExpandOption
      BY <1>7, <2>2
    <3> HIDE DEF p
    <3>3. DOMAIN expansion' = DOMAIN expansion /\ \A i \in DOMAIN expansion : i # p => expansion'[i] = expansion[i]
      BY <3>1
    <3>4. expansion'[p] = [expansion[p] EXCEPT !.select = @ \cup Below(n)]
      BY <3>1, <3>2
    <3>5. /\ expansion'[p] \in ExpandOption /\ expansion'[p].nav = expansion[p].nav
          /\ expansion'[p].select = expansion[p].select \cup Below(n)
      BY <1>6, <3>2, <3>4 DEF ExpandOption
    <3>6. Len(expansion) \in Nat /\ DOMAIN expansion = 1..Len(expansion) /\ \A i \in DOMAIN expansion : expansion[i] \in ExpandOption
      BY <1>7
    <3>7. expansion' \in Seq(ExpandOption)
      <4> DEFINE c == Len(expansion)
                 s == expansion'
      <4>1. expansion' = [i \in DOMAIN expansion |-> s[i]]
        BY <3>1
      <4>2. \A i \in 1..c : s[i] \in ExpandOption
        BY <3>3, <3>5, <3>6
      <4>3. c \in Nat /\ s = [i \in 1..c |-> s[i]]
        BY <3>6, <4>1
      <4> HIDE DEF c, s
      <4>4. s \in [1..c -> ExpandOption]
        BY <4>2, <4>3
      <4>5. s \in Seq(ExpandOption)
        BY <4>3, <4>4
      <4> QED BY <4>5 DEF s
    <3>8. grows
      BY <3>3, <3>5, <3>7
    <3>9. here
      BY <2>2, <3>5 DEF p
    <3> QED BY <1>7, <3>1, <3>8, <3>9
  <2>3. CASE n \notin DOMAIN expandMap
    <3> DEFINE e == [nav |-> n, select |-> Below(n)]
    <3>1. /\ expansion' = Append(expansion, e)
          /\ spare' = IF spare = 0 THEN 0 ELSE spare - 1
      BY <2>3 DEF MergeSelect
    <3>2. n \in Paths
      BY <1>1, <1>7
    <3>3. n \in STRING
      <4>1. PICK j \in DOMAIN Items : Items[j].nav = n
        BY <3>2 DEF Paths, Below
      <4>2. Items \in Seq(SelectItem)
        BY <1>1, ItemsAreTyped DEF UrlInv, OptionsInv
      <4>3. Items[j] \in SelectItem
        BY <4>2
      <4> QED BY <4>1, <4>3 DEF SelectItem
    <3>4. e \in ExpandOption /\ e.nav = n /\ e.select = Below(n)
      BY <1>6, <3>3 DEF ExpandOption
    <3> HIDE DEF e
    <3>5. /\ expansion' \in Seq(ExpandOption) /\ Len(expansion') = Len(expansion) + 1
          /\ \A i \in 1..Len(expansion) : expansion'[i] = expansion[i]
          /\ expansion'[Len(expansion) + 1] = e
      BY <1>7, <3>1, <3>4
    <3>6. /\ Len(expansion) \in Nat /\ DOMAIN expansion = 1..Len(expansion)
          /\ DOMAIN expansion' = 1..(Len(expansion) + 1)
      BY <1>7, <3>5
    <3>7. grows
      BY <3>5, <3>6
    <3>8. here
      BY <2>3, <3>4, <3>5, <3>6
    <3>9. surroundings
      BY <1>7, <2>3, <3>1, <3>2
    <3> QED BY <3>7, <3>8, <3>9
  <2> QED BY <2>1, <2>2, <2>3
<1>9. \A m \in DOMAIN expandMap : expandMap[m] \in DOMAIN expansion' /\ expansion'[expandMap[m]].nav = m
  BY <1>7, <1>8
<1>10. \A m \in Paths \ navSelects' :
         IF m \in DOMAIN expandMap
         THEN Paths \ DOMAIN expandMap # {} \/ Below(m) \subseteq expansion'[expandMap[m]].select
         ELSE \E i \in DOMAIN expansion' : expansion'[i].nav = m /\ Below(m) \subseteq expansion'[i].select
  <2> SUFFICES ASSUME NEW m \in Paths \ navSelects'
               PROVE  IF m \in DOMAIN expandMap
                      THEN Paths \ DOMAIN expandMap # {} \/ Below(m) \subseteq expansion'[expandMap[m]].select
                      ELSE \E i \in DOMAIN expansion' : expansion'[i].nav = m /\ Below(m) \subseteq expansion'[i].select
    OBVIOUS
  <2>1. CASE m = n
    BY <1>8, <2>1
  <2>2. CASE m # n
    <3>1. m \in Paths \ navSelects
      BY <1>1, <2>2
    <3>2. CASE m \in DOMAIN expandMap
      <4>1. Paths \ DOMAIN expandMap # {} \/ Below(m) \subseteq expansion[expandMap[m]].select
        BY <1>7, <3>1, <3>2
      <4> QED BY <1>7, <1>8, <3>2, <4>1
    <3>3. CASE m \notin DOMAIN expandMap
      <4>1. PICK i \in DOMAIN expansion : expansion[i].nav = m /\ Below(m) \subseteq expansion[i].select
        BY <1>7, <3>1, <3>3
      <4> QED BY <1>8, <3>3, <4>1
    <3> QED BY <3>2, <3>3
  <2> QED BY <2>1, <2>2
<1>11. ~Says("expand") =>
         \A m \in Navigations : NestedBelow(m) # {} =>
           m \in DOMAIN expandMap /\ NestedBelow(m) \subseteq expansion'[expandMap[m]].select
  <2> SUFFICES ASSUME ~Says("expand"), NEW m \in Navigations, NestedBelow(m) # {}
               PROVE  m \in DOMAIN expandMap /\ NestedBelow(m) \subseteq expansion'[expandMap[m]].select
    OBVIOUS
  <2>1. m \in DOMAIN expandMap /\ NestedBelow(m) \subseteq expansion[expandMap[m]].select
    BY <1>7
  <2> QED BY <1>7, <1>8, <2>1
<1> HIDE DEF here
<1>12. MergeInv'
  BY <1>1, <1>2, <1>3, <1>7, <1>8, <1>9, <1>10, <1>11 DEF MergeInv
<1> QED BY <1>4, <1>5, <1>12 DEF UrlInv

\* Nothing is said of a query string before it is read.
LEMMA UrlStarts == UrlInit => UrlInv
  BY DEF UrlInit, UrlInv, ParamsInv, OptionsInv, MergeInv, IsRead

\* What the invariant speaks of stays when the variables do.
LEMMA UrlStutters == UrlInv /\ UNCHANGED urlVars => UrlInv'
<1> SUFFICES ASSUME UrlInv, UNCHANGED urlVars PROVE UrlInv'
  OBVIOUS
<1>1. /\ url' = url /\ reading' = reading /\ params' = params /\ options' = options
      /\ expansion' = expansion /\ expandMap' = expandMap /\ spare' = spare /\ moved' = moved /\ navSelects' = navSelects
  BY DEF urlVars, parsing
<1>2. /\ Uses' = Uses /\ (WellFormed' <=> WellFormed) /\ (Peculiar' <=> Peculiar)
      /\ \A o : Saying(o)' = Saying(o) /\ Said(o)' = Said(o) /\ (Says(o)' <=> Says(o))
  BY <1>1, UrlStays
<1>3. Paths' = Paths /\ \A m : Below(m)' = Below(m) /\ NestedBelow(m)' = NestedBelow(m)
  BY <1>1, ParamsStay
<1>4. IsRead' <=> IsRead
  BY <1>1 DEF IsRead
<1> HIDE DEF validQueryOptions
<1>5. ParamsInv'
  BY <1>1, <1>2, <1>4 DEF UrlInv, ParamsInv
<1>6. OptionsInv'
  <2> DEFINE said == {p \in validQueryOptions \ {"expand"} : Says(p)}
  <2>1. said' = said
    BY <1>2
  <2>2. [o \in said |-> Said(o)]' = [o \in said |-> Said(o)]
    BY <1>2, <2>1
  <2> HIDE DEF said
  <2>3. IsRead => WellFormed /\ options = [o \in said |-> Said(o)]
    BY DEF UrlInv, OptionsInv, said
  <2>4. reading = "rejected" => ~WellFormed \/ Peculiar
    BY DEF UrlInv, OptionsInv
  <2>5. IsRead' => WellFormed' /\ options' = [o \in said |-> Said(o)]'
    BY <1>1, <1>2, <1>4, <2>2, <2>3
  <2>6. reading' = "rejected" => ~WellFormed' \/ Peculiar'
    BY <1>1, <1>2, <2>4
  <2> QED BY <2>5, <2>6 DEF OptionsInv, said
<1>7. MergeInv'
  BY <1>1, <1>2, <1>3, <1>4 DEF UrlInv, MergeInv
<1> QED BY <1>5, <1>6, <1>7 DEF UrlInv

\* Every step keeps the invariant.
LEMMA UrlNextKeeps == UrlInv /\ [UrlNext]_urlVars => UrlInv'
<1> SUFFICES ASSUME UrlInv, [UrlNext]_urlVars PROVE UrlInv'
  OBVIOUS
<1> QED BY AliasesResolved, NamesValidated, OptionsParsed, PathsMerged, UrlStutters DEF UrlNext

\* What the query string selects below a navigation property: by a path or,
\* unless $expand replaces it, by a nested item.
LEMMA SelectedIsNamed ==
  ASSUME UrlInv, IsRead, NEW n
  PROVE  SelectedBelow(n) \subseteq Below(n) \cup IF Says("expand") THEN {} ELSE NestedBelow(n)
<1> HIDE DEF validQueryOptions
<1>1. "select" \in validQueryOptions
  BY DEF validQueryOptions
<1>2. CASE Says("select")
  <2>1. Items = Said("select").items
    BY <1>1, <1>2, GivenIsSaid DEF UrlInv, Items
  <2>2. SelectedBelow(n) = {Items[i].sub : i \in {j \in DOMAIN Items : Items[j].nav = n /\ (Says("expand") => ~Items[j].nested)}}
    BY <1>2, <2>1 DEF SelectedBelow
  <2> QED BY <2>2 DEF Below, NestedBelow
<1>3. CASE ~Says("select")
  BY <1>3 DEF SelectedBelow
<1> QED BY <1>2, <1>3

\* The invariant implies what is promised of a query string.
LEMMA InvReadsAsWritten == UrlInv => ReadAsWritten
<1> SUFFICES ASSUME UrlInv PROVE ReadAsWritten
  OBVIOUS
<1>1. OptionsAreRead
  <2> HIDE DEF validQueryOptions
  <2> QED BY DEF UrlInv, OptionsInv, OptionsAreRead, IsRead
<1>2. UnmixedSelectsAreMerged
  <2> SUFFICES ASSUME ~(\E m, k \in Paths : m \in DOMAIN expandMap /\ k \notin DOMAIN expandMap),
                      reading = "parsed", NEW n \in Navigations, SelectedBelow(n) # {}
               PROVE  Selected(n)
    BY DEF UnmixedSelectsAreMerged, NavigationSelectsAreMerged
  <2> DEFINE named == IF Says("expand") THEN {} ELSE NestedBelow(n)
  <2>1. IsRead
    BY DEF IsRead
  <2>2. SelectedBelow(n) \subseteq Below(n) \cup named
    BY <2>1, SelectedIsNamed
  <2>3. /\ \A m \in DOMAIN expandMap : expandMap[m] \in DOMAIN expansion /\ expansion[expandMap[m]].nav = m
        /\ ~Says("expand") =>
             \A m \in Navigations : NestedBelow(m) # {} =>
               m \in DOMAIN expandMap /\ NestedBelow(m) \subseteq expansion[expandMap[m]].select
        /\ navSelects = {}
        /\ \A m \in Paths \ navSelects :
             IF m \in DOMAIN expandMap
             THEN Paths \ DOMAIN expandMap # {} \/ Below(m) \subseteq expansion[expandMap[m]].select
             ELSE \E i \in DOMAIN expansion : expansion[i].nav = m /\ Below(m) \subseteq expansion[i].select
    BY <2>1 DEF UrlInv, MergeInv
  <2>4. named # {} => n \in DOMAIN expandMap /\ named \subseteq expansion[expandMap[n]].select
    BY <2>3
  <2>5. CASE n \in DOMAIN expandMap
    <3>1. named \subseteq expansion[expandMap[n]].select
      BY <2>4
    <3>2. Below(n) \subseteq expansion[expandMap[n]].select
      <4>1. CASE n \in Paths
        <5>1. Paths \ DOMAIN expandMap = {}
          BY <2>5, <4>1
        <5> QED BY <2>3, <2>5, <4>1, <5>1
      <4>2. CASE n \notin Paths
        BY <4>2 DEF Paths
      <4> QED BY <4>1, <4>2
    <3> QED BY <2>2, <2>3, <2>5, <3>1, <3>2 DEF Selected
  <2>6. CASE n \notin DOMAIN expandMap
    <3>1. named = {} /\ Below(n) # {}
      BY <2>2, <2>4, <2>6
    <3>2. n \in Paths
      BY <3>1 DEF Paths
    <3>3. PICK i \in DOMAIN expansion : expansion[i].nav = n /\ Below(n) \subseteq expansion[i].select
      BY <2>3, <2>6, <3>2
    <3> QED BY <2>2, <3>1, <3>3 DEF Selected
  <2> QED BY <2>5, <2>6
<1> QED BY <1>1, <1>2 DEF ReadAsWritten

\* The inductive invariant of the option parser.
THEOREM UrlInvariant == UrlSpec => []UrlInv
<1> QED BY UrlStarts, UrlNextKeeps, PTL DEF UrlSpec

\* Whatever the query string, the options that come out are those it says, in
\* any spelling, order and indirection; what is refused is ill-formed or one of
\* the peculiarities; and its selections below a navigation property reach the
\* expansion when all of its paths or none of them go to expanded ones
\* (ParseQueryOptionsWithConfigAndCaseSensitivity, mergeNavigationSelects).
THEOREM OptionsAreReadAsWritten == UrlSpec => []ReadAsWritten
<1> QED BY UrlInvariant, InvReadsAsWritten, PTL
=============================================================================
