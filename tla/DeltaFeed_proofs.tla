-------------------------- MODULE DeltaFeed_proofs --------------------------
(***************************************************************************)
(* Proofs about the change tracker, and about the delta feed around it,    *)
(* for every set of changes and clients, with or without a log, failing    *)
(* inserts and restarts.  TrackerInv is inductive for both specifications: *)
(* a step of the feed is a step of the tracker, a restart that also ends   *)
(* the write handlers, or leaves the tracker alone.  FeedInv is inductive  *)
(* beside it.                                                              *)
(***************************************************************************)
EXTENDS DeltaFeed, FiniteSetTheorems, SequenceTheorems, TLAPS

-----------------------------------------------------------------------------
(* Operators.                                                              *)

\* The event of a change is one.
LEMMA EventIsTyped ==
  ASSUME NEW v \in Int, NEW w \in Changes
  PROVE  /\ Event(v, w) \in EventType
         /\ Event(v, w).version = v /\ Event(v, w).change = w
  BY DEF Event, EventType

\* The version a reload starts from is that of a row, and no row's is larger.
LEMMA MaxVersionIsReached ==
  ASSUME TrackerTypeOK, LogIsBounded
  PROVE  /\ MaxVersion(log) \in Nat
         /\ \A r \in log : r.version <= MaxVersion(log)
<1>1. CASE log = {}
  BY <1>1 DEF MaxVersion
<1>2. CASE log # {}
  <2> DEFINE V == {r.version : r \in log}
             IsMax(v) == \A r \in log : r.version <= v
  <2>1. PICK m \in log : \A q \in log : q.version <= m.version
    BY <1>2 DEF LogIsBounded
  <2>2. m.version \in V /\ IsMax(m.version)
    BY <2>1
  <2>3. MaxVersion(log) = CHOOSE v \in V : IsMax(v)
    BY <1>2 DEF MaxVersion
  <2>4. MaxVersion(log) \in V /\ IsMax(MaxVersion(log))
    BY <2>2, <2>3
  <2>5. \A r \in log : r.version \in Int /\ r.version >= 1
    BY DEF TrackerTypeOK, EventType, LogIsBounded
  <2> QED BY <2>4, <2>5
<1> QED BY <1>1, <1>2

\* A reload takes in every row of the log once.
LEMMA ReloadIsComplete ==
  ASSUME TrackerTypeOK, LogIsBounded,
         NEW s \in [1 .. Cardinality(log) -> log],
         \A i, k \in DOMAIN s : i < k => s[i] # s[k]
  PROVE  /\ s \in Seq(EventType) /\ Len(s) = Cardinality(log)
         /\ \A i, k \in 1 .. Len(s) : s[i] = s[k] => i = k
         /\ \A r \in log : \E i \in 1 .. Len(s) : s[i] = r
<1> DEFINE n == Cardinality(log)
<1>1. IsFiniteSet(log) /\ n \in Nat
  BY FS_CardinalityType DEF LogIsBounded
<1>2. DOMAIN s = 1 .. n /\ s \in Seq(log) /\ Len(s) = n
  BY <1>1
<1>3. s \in Seq(EventType)
  BY <1>2, SeqMonotonic DEF TrackerTypeOK
<1>4. \A i, k \in 1 .. n : s[i] = s[k] => i = k
  <2> SUFFICES ASSUME NEW i \in 1 .. n, NEW k \in 1 .. n, s[i] = s[k], i # k
               PROVE  FALSE
    OBVIOUS
  <2>1. i < k \/ k < i
    BY <1>1
  <2> QED BY <2>1, <1>2
<1>5. s \in Injection(1 .. n, log)
  BY <1>4 DEF Injection, IsInjective
<1>6. Cardinality(1 .. n) = n
  BY <1>1, FS_Interval
<1>7. s \in Surjection(1 .. n, log)
  BY <1>1, <1>5, <1>6, FS_Injection
<1>8. \A r \in log : \E i \in 1 .. n : s[i] = r
  BY <1>7 DEF Surjection
<1> QED BY <1>2, <1>3, <1>4, <1>8

-----------------------------------------------------------------------------
(* The tracker.                                                            *)

\* The history starts empty, and nothing is in flight.
LEMMA TrackerStarts == TrackerInit => TrackerInv
<1> SUFFICES ASSUME TrackerInit PROVE TrackerInv
  OBVIOUS
<1> USE TrackerAssumption DEF TrackerInit
<1>1. TrackerTypeOK
  BY DEF TrackerTypeOK, WriterSteps
<1>2. InFlight = {}
  BY DEF InFlight
<1>3. VersionCoversCalls
  BY <1>2, FS_EmptySet DEF VersionCoversCalls
<1>4. CallsKeepTheirEvent
  BY DEF CallsKeepTheirEvent
<1>5. LogIsBounded
  BY FS_EmptySet DEF LogIsBounded
<1>6. VersionsAreGivenOnce
  BY <1>2 DEF VersionsAreGivenOnce
<1>7. RecordedIsInHistory /\ ReturnedIsDurable /\ VersionCountsEvents
  BY DEF RecordedIsInHistory, ReturnedIsDurable, VersionCountsEvents
<1> QED BY <1>1, <1>3, <1>4, <1>5, <1>6, <1>7 DEF TrackerInv

\* A new version is larger than all before it, and its event the last.
LEMMA TrackerRecords ==
  ASSUME TrackerInv, NEW w \in Changes, RecordInMemory(w)
  PROVE  TrackerInv'
<1> USE DEF TrackerInv, RecordInMemory
<1>0. /\ version \in Nat /\ version' \in Nat /\ events \in Seq(EventType)
      /\ Event(version', w) \in EventType
      /\ Event(version', w).version = version + 1 /\ Event(version', w).change = w
  BY EventIsTyped DEF TrackerTypeOK
<1>1. /\ Len(events') = Len(events) + 1 /\ events' \in Seq(EventType)
      /\ \A i \in 1 .. Len(events) : events'[i] = events[i]
      /\ events'[Len(events) + 1] = Event(version', w)
  BY <1>0
<1>2. TrackerTypeOK'
  <2>1. writer' \in [Changes -> WriterSteps]
    BY DEF TrackerTypeOK, WriterSteps
  <2>2. assigned' \in [Changes -> EventType \cup {NoEvent}]
    BY <1>0 DEF TrackerTypeOK
  <2>3. owed' \in [Pollers -> SUBSET Changes]
    BY DEF TrackerTypeOK
  <2> QED BY <1>0, <1>1, <2>1, <2>2, <2>3 DEF TrackerTypeOK
<1>3. InFlight' = IF Persistent THEN InFlight \cup {w} ELSE InFlight
  BY DEF InFlight, TrackerTypeOK
<1>4. w \notin InFlight
  BY DEF InFlight
<1>5. VersionCoversCalls'
  <2>1. IsFiniteSet(InFlight) /\ Cardinality(InFlight) \in Nat /\ Cardinality(InFlight) <= version
    BY FS_CardinalityType DEF VersionCoversCalls
  <2>2. /\ IsFiniteSet(InFlight \cup {w})
        /\ Cardinality(InFlight \cup {w}) = Cardinality(InFlight) + 1
    BY <1>4, <2>1, FS_AddElement
  <2>3. IsFiniteSet(InFlight') /\ Cardinality(InFlight') <= version'
    BY <1>0, <1>3, <2>1, <2>2
  <2> QED BY <2>3 DEF VersionCoversCalls
<1>6. CallsKeepTheirEvent'
  BY <1>0, <1>2 DEF CallsKeepTheirEvent, TrackerTypeOK
<1>7. LogIsBounded'
  BY DEF LogIsBounded
<1>8. VersionsAreGivenOnce'
  <2> SUFFICES ASSUME \A x \in Changes : writer'[x] # "failed"
               PROVE  /\ \A i \in 1 .. Len(events') : events'[i].version <= version'
                      /\ \A i, k \in 1 .. Len(events') :
                           events'[i].version = events'[k].version => i = k
                      /\ \A r \in log : r.version <= version'
                      /\ \A r, q \in log : r.version = q.version => r = q
                      /\ \A x \in InFlight' :
                           /\ assigned'[x].version <= version'
                           /\ \A r \in log : r.version # assigned'[x].version
                           /\ \A y \in InFlight' :
                                assigned'[y].version = assigned'[x].version => y = x
    BY DEF VersionsAreGivenOnce
  <2>1. \A x \in Changes : writer[x] # "failed"
    BY DEF TrackerTypeOK
  <2>2. \A i \in 1 .. Len(events) : events[i].version \in Int /\ events[i].version <= version
    <3>1. \A i \in 1 .. Len(events) : events[i] \in EventType
      BY <1>0
    <3> QED BY <3>1, <2>1 DEF VersionsAreGivenOnce, EventType
  <2>3. \A r \in log : r.version \in Int /\ r.version <= version
    BY <2>1 DEF VersionsAreGivenOnce, EventType, TrackerTypeOK
  <2>4. \A x \in InFlight : /\ assigned'[x] = assigned[x]
                            /\ assigned[x].version \in Int /\ assigned[x].version <= version
    BY <1>4, <2>1 DEF VersionsAreGivenOnce, CallsKeepTheirEvent, EventType, TrackerTypeOK, InFlight
  <2>5. assigned'[w].version = version + 1
    BY <1>0 DEF TrackerTypeOK
  <2>6. \A i \in 1 .. Len(events') : events'[i].version <= version'
    BY <1>0, <1>1, <2>2
  <2>7. \A i, k \in 1 .. Len(events') : events'[i].version = events'[k].version => i = k
    BY <1>0, <1>1, <2>1, <2>2 DEF VersionsAreGivenOnce
  <2>8. \A r \in log : r.version <= version'
    BY <1>0, <2>3
  <2>9. \A r, q \in log : r.version = q.version => r = q
    BY <2>1 DEF VersionsAreGivenOnce
  <2>10. \A x \in InFlight' :
           /\ assigned'[x].version <= version'
           /\ \A r \in log : r.version # assigned'[x].version
           /\ \A y \in InFlight' : assigned'[y].version = assigned'[x].version => y = x
    BY <1>0, <1>3, <2>1, <2>3, <2>4, <2>5 DEF VersionsAreGivenOnce
  <2> QED BY <2>6, <2>7, <2>8, <2>9, <2>10
<1>9. \A x \in Changes : InHistory(x) \/ x = w => InHistory(x)'
  BY <1>0, <1>1 DEF InHistory
<1>10. /\ \A x \in Changes \ {w} : writer'[x] = writer[x] /\ assigned'[x] = assigned[x]
       /\ writer'[w] = IF Persistent THEN "persisting" ELSE "done"
  BY DEF TrackerTypeOK
<1>11. RecordedIsInHistory' /\ ReturnedIsDurable'
  BY <1>9, <1>10 DEF RecordedIsInHistory, ReturnedIsDurable, NoInsertFailed
<1>12. VersionCountsEvents'
  BY <1>1 DEF VersionCountsEvents
<1> QED BY <1>2, <1>5, <1>6, <1>7, <1>8, <1>11, <1>12 DEF TrackerInv

\* A row in the log is paid for: its call can no longer take its version back.
LEMMA TrackerPersists ==
  ASSUME TrackerInv, NEW w \in Changes, PersistEvent(w)
  PROVE  TrackerInv'
<1> USE DEF TrackerInv, PersistEvent
<1>1. assigned[w] \in EventType /\ assigned[w].change = w /\ assigned[w].version >= 1
  BY DEF CallsKeepTheirEvent
<1>2. TrackerTypeOK'
  <2>1. log' \subseteq EventType /\ writer' \in [Changes -> WriterSteps]
    BY <1>1 DEF TrackerTypeOK, WriterSteps
  <2> QED BY <2>1 DEF TrackerTypeOK, pollerVars
<1>3. InFlight' = InFlight \ {w} /\ w \in InFlight
  BY DEF InFlight, TrackerTypeOK
<1>4. VersionCoversCalls'
  <2>1. /\ IsFiniteSet(InFlight) /\ Cardinality(InFlight) \in Nat
        /\ Cardinality(InFlight) <= version /\ version \in Nat
    BY FS_CardinalityType DEF VersionCoversCalls, TrackerTypeOK
  <2>2. /\ IsFiniteSet(InFlight \ {w})
        /\ Cardinality(InFlight \ {w}) = Cardinality(InFlight) - 1
    BY <1>3, <2>1, FS_RemoveElement
  <2>3. IsFiniteSet(InFlight') /\ Cardinality(InFlight') <= version'
    BY <1>3, <2>1, <2>2
  <2> QED BY <2>3 DEF VersionCoversCalls
<1>5. CallsKeepTheirEvent'
  BY <1>1 DEF CallsKeepTheirEvent, TrackerTypeOK
<1>6. LogIsBounded'
  <2>1. IsFiniteSet(log')
    BY FS_AddElement DEF LogIsBounded
  <2>2. \A r \in log' : r.version \in Int /\ r.version >= 1
    BY <1>1, <1>2 DEF LogIsBounded, TrackerTypeOK, EventType
  <2>3. \E r \in log' : \A q \in log' : q.version <= r.version
    <3>1. CASE log = {}
      BY <2>2, <3>1
    <3>2. CASE log # {}
      <4>1. PICK r \in log : \A q \in log : q.version <= r.version
        BY <3>2 DEF LogIsBounded
      <4>2. CASE assigned[w].version <= r.version
        BY <2>2, <4>1, <4>2
      <4>3. CASE ~(assigned[w].version <= r.version)
        <5>1. \A q \in log' : q.version <= assigned[w].version
          BY <2>2, <4>1, <4>3
        <5> QED BY <5>1
      <4> QED BY <4>2, <4>3
    <3> QED BY <3>1, <3>2
  <2> QED BY <2>1, <2>2, <2>3 DEF LogIsBounded
<1>7. VersionsAreGivenOnce'
  <2> SUFFICES ASSUME \A x \in Changes : writer'[x] # "failed"
               PROVE  /\ \A i \in 1 .. Len(events) : events[i].version <= version
                      /\ \A i, k \in 1 .. Len(events) :
                           events[i].version = events[k].version => i = k
                      /\ \A r \in log' : r.version <= version
                      /\ \A r, q \in log' : r.version = q.version => r = q
                      /\ \A x \in InFlight' :
                           /\ assigned[x].version <= version
                           /\ \A r \in log' : r.version # assigned[x].version
                           /\ \A y \in InFlight' :
                                assigned[y].version = assigned[x].version => y = x
    BY DEF VersionsAreGivenOnce
  <2>1. \A x \in Changes : writer[x] # "failed"
    BY DEF TrackerTypeOK
  <2>2. /\ assigned[w].version <= version
        /\ \A r \in log : r.version # assigned[w].version
        /\ \A x \in InFlight \ {w} : assigned[x].version # assigned[w].version
    BY <1>3, <2>1 DEF VersionsAreGivenOnce
  <2> QED BY <1>3, <2>1, <2>2 DEF VersionsAreGivenOnce
<1>8. \A x \in Changes \ {w} : writer'[x] = writer[x]
  BY DEF TrackerTypeOK
<1>9. /\ writer'[w] = "done"
      /\ NoInsertFailed' => NoInsertFailed
      /\ \A x \in Changes : InHistory(x)' <=> InHistory(x)
  BY <1>8 DEF NoInsertFailed, InHistory, TrackerTypeOK
<1>10. RecordedIsInHistory' /\ ReturnedIsDurable'
  BY <1>8, <1>9 DEF RecordedIsInHistory, ReturnedIsDurable
<1>11. VersionCountsEvents'
  BY DEF VersionCountsEvents
<1> QED BY <1>2, <1>4, <1>5, <1>6, <1>7, <1>10, <1>11 DEF TrackerInv

\* Until it is taken back, the version of a failed insert stays.
LEMMA TrackerFailsToPersist ==
  ASSUME TrackerInv, NEW w \in Changes, PersistFails(w)
  PROVE  TrackerInv'
<1> USE DEF TrackerInv, PersistFails
<1>1. TrackerTypeOK'
  BY DEF TrackerTypeOK, WriterSteps, pollerVars
<1>2. InFlight' = InFlight
  BY DEF InFlight, TrackerTypeOK
<1>3. VersionCoversCalls' /\ LogIsBounded' /\ VersionCountsEvents'
  BY <1>2 DEF VersionCoversCalls, LogIsBounded, VersionCountsEvents
<1>4. CallsKeepTheirEvent'
  BY DEF CallsKeepTheirEvent, TrackerTypeOK
<1>5. VersionsAreGivenOnce'
  <2>1. (\A x \in Changes : writer'[x] # "failed") => \A x \in Changes : writer[x] # "failed"
    BY DEF TrackerTypeOK
  <2> QED BY <1>2, <2>1 DEF VersionsAreGivenOnce
<1>6. ~NoInsertFailed'
  BY DEF NoInsertFailed, TrackerTypeOK
<1>7. RecordedIsInHistory' /\ ReturnedIsDurable'
  BY <1>6 DEF RecordedIsInHistory, ReturnedIsDurable, TrackerTypeOK
<1> QED BY <1>1, <1>3, <1>4, <1>5, <1>7 DEF TrackerInv

\* Taking a version back never makes it negative, nor shortens the history
\* below it; from then on versions may repeat.
LEMMA TrackerUndoes ==
  ASSUME TrackerInv, NEW w \in Changes, UndoRecord(w)
  PROVE  TrackerInv'
<1> USE DEF TrackerInv, UndoRecord
<1>1. InFlight' = InFlight \ {w} /\ w \in InFlight
  BY DEF InFlight, TrackerTypeOK
<1>2. /\ IsFiniteSet(InFlight) /\ Cardinality(InFlight) \in Nat
      /\ Cardinality(InFlight) <= version /\ version \in Nat
  BY FS_CardinalityType DEF VersionCoversCalls, TrackerTypeOK
<1>3. /\ IsFiniteSet(InFlight \ {w}) /\ Cardinality(InFlight \ {w}) \in Nat
      /\ Cardinality(InFlight \ {w}) = Cardinality(InFlight) - 1
  <2>1. IsFiniteSet(InFlight \ {w}) /\ Cardinality(InFlight \ {w}) = Cardinality(InFlight) - 1
    BY <1>1, <1>2, FS_RemoveElement
  <2> QED BY <2>1, FS_CardinalityType
<1>4. version' \in Nat /\ version >= 1
  BY <1>2, <1>3
<1>5. VersionCoversCalls'
  BY <1>1, <1>2, <1>3 DEF VersionCoversCalls
<1>6. events' \in Seq(EventType) /\ (events # << >> => Len(events') = Len(events) - 1)
  <2>1. CASE events = << >>
    BY <2>1 DEF TrackerTypeOK
  <2>2. CASE events # << >>
    <3>1. events \in Seq(EventType) /\ Len(events) \in Nat /\ Len(events) >= 1
      BY <2>2, EmptySeq DEF TrackerTypeOK
    <3>2. /\ 1 \in Int /\ Len(events) - 1 \in Int
          /\ \A i \in 1 .. Len(events) - 1 : events[i] \in EventType
      BY <3>1
    <3>3. /\ SubSeq(events, 1, Len(events) - 1) \in Seq(EventType)
          /\ Len(SubSeq(events, 1, Len(events) - 1)) = Len(events) - 1
      <4> DEFINE n == Len(events) - 1
      <4>1. n \in Int /\ n >= 0 /\ \A i \in 1 .. n : events[i] \in EventType
        BY <3>1, <3>2
      <4> HIDE DEF n
      <4>2. /\ SubSeq(events, 1, n) \in Seq(EventType)
            /\ Len(SubSeq(events, 1, n)) = IF 1 <= n THEN n - 1 + 1 ELSE 0
        BY <4>1, SubSeqProperties
      <4>3. SubSeq(events, 1, n) \in Seq(EventType) /\ Len(SubSeq(events, 1, n)) = n
        BY <4>1, <4>2
      <4> QED BY <4>3 DEF n
    <3> QED BY <2>2, <3>3
  <2> QED BY <2>1, <2>2
<1>7. TrackerTypeOK'
  <2>1. writer' \in [Changes -> WriterSteps]
    BY DEF TrackerTypeOK, WriterSteps
  <2> QED BY <1>4, <1>6, <2>1 DEF TrackerTypeOK, pollerVars
<1>8. CallsKeepTheirEvent' /\ LogIsBounded'
  BY DEF CallsKeepTheirEvent, LogIsBounded, TrackerTypeOK
<1>9. writer'[w] = "failed" /\ \A x \in Changes \ {w} : writer'[x] = writer[x]
  BY DEF TrackerTypeOK
<1>10. VersionsAreGivenOnce' /\ RecordedIsInHistory' /\ ReturnedIsDurable'
  BY <1>9 DEF VersionsAreGivenOnce, RecordedIsInHistory, ReturnedIsDurable, NoInsertFailed
<1>11. VersionCountsEvents'
  <2>1. reloads = 0 => events # << >>
    BY <1>4 DEF VersionCountsEvents
  <2> QED BY <1>6, <2>1 DEF VersionCountsEvents
<1> QED BY <1>5, <1>7, <1>8, <1>10, <1>11 DEF TrackerInv

\* Clients do not touch the tracker.
LEMMA TrackerIsRead ==
  ASSUME TrackerInv, NEW c \in Pollers, CurrentToken(c) \/ ChangesSince(c)
  PROVE  TrackerInv'
<1> USE DEF TrackerInv
<1>1. UNCHANGED <<trackerVars, owed, reloads>>
  BY DEF CurrentToken, ChangesSince
<1>2. TrackerTypeOK'
  <2>1. token' \in [Pollers -> Nat \cup {-1}]
    BY DEF TrackerTypeOK, CurrentToken, ChangesSince
  <2>2. delivered' \in [Pollers -> [Changes -> 0 .. 2]]
    BY DEF TrackerTypeOK, CurrentToken, ChangesSince
  <2> QED BY <1>1, <2>1, <2>2 DEF TrackerTypeOK, trackerVars
<1>3. /\ VersionCoversCalls' /\ CallsKeepTheirEvent' /\ LogIsBounded' /\ VersionsAreGivenOnce'
      /\ RecordedIsInHistory' /\ ReturnedIsDurable' /\ VersionCountsEvents'
  BY <1>1 DEF trackerVars, VersionCoversCalls, CallsKeepTheirEvent, LogIsBounded,
              VersionsAreGivenOnce, RecordedIsInHistory, ReturnedIsDurable,
              VersionCountsEvents, InFlight, NoInsertFailed, InHistory
<1> QED BY <1>2, <1>3 DEF TrackerInv

\* After a restart nothing is in flight, and the history is the log.
LEMMA TrackerReloads ==
  ASSUME TrackerInv, Reload,
         writer' \in [Changes -> WriterSteps],
         \A w \in Changes : writer'[w] \notin {"persisting", "undoing"},
         \A w \in Changes : writer'[w] = "done" => writer[w] = "done",
         \A w \in Changes : writer[w] = "failed" => writer'[w] = "failed"
  PROVE  TrackerInv'
<1> USE DEF TrackerInv
<1>1. PICK s \in [1 .. Cardinality(log) -> log] :
        /\ \A i, k \in DOMAIN s : i < k => s[i] # s[k] /\ s[i].version <= s[k].version
        /\ events' = s
  BY DEF Reload
<1>2. \A i, k \in DOMAIN s : i < k => s[i] # s[k]
  BY <1>1
<1>3. /\ s \in Seq(EventType) /\ Len(s) = Cardinality(log)
      /\ \A i, k \in 1 .. Len(s) : s[i] = s[k] => i = k
      /\ \A r \in log : \E i \in 1 .. Len(s) : s[i] = r
  BY <1>2, ReloadIsComplete
<1>4. MaxVersion(log) \in Nat /\ \A r \in log : r.version <= MaxVersion(log)
  BY MaxVersionIsReached
<1>5. /\ version' = MaxVersion(log) /\ reloads' = reloads + 1 /\ reloads < MaxReloads
      /\ UNCHANGED <<log, assigned, token, owed, delivered>>
  BY DEF Reload, pollerVars
<1>6. \A i \in 1 .. Len(s) : s[i] \in log
  BY <1>3
<1>7. TrackerTypeOK'
  BY <1>1, <1>3, <1>4, <1>5, TrackerAssumption DEF TrackerTypeOK
<1>8. InFlight' = {}
  BY DEF InFlight
<1>9. VersionCoversCalls'
  BY <1>4, <1>5, <1>8, FS_EmptySet DEF VersionCoversCalls
<1>10. CallsKeepTheirEvent' /\ LogIsBounded'
  BY <1>5 DEF CallsKeepTheirEvent, LogIsBounded
<1>11. VersionsAreGivenOnce'
  <2>1. (\A w \in Changes : writer'[w] # "failed") => \A w \in Changes : writer[w] # "failed"
    OBVIOUS
  <2>2. (\A w \in Changes : writer'[w] # "failed") =>
          \A r, q \in log : r.version = q.version => r = q
    BY <2>1 DEF VersionsAreGivenOnce
  <2> QED BY <1>1, <1>3, <1>4, <1>5, <1>6, <1>8, <2>2 DEF VersionsAreGivenOnce
<1>12. RecordedIsInHistory' /\ ReturnedIsDurable'
  <2>1. reloads' # 0
    BY <1>5 DEF TrackerTypeOK
  <2>2. \A w \in Changes : Persistent /\ writer'[w] = "done" =>
          assigned[w] \in log /\ assigned[w].change = w
    BY DEF ReturnedIsDurable, CallsKeepTheirEvent
  <2>3. \A w \in Changes : Persistent /\ writer'[w] = "done" => InHistory(w)'
    BY <1>1, <1>3, <2>2 DEF InHistory
  <2> QED BY <1>5, <2>1, <2>2, <2>3 DEF RecordedIsInHistory, ReturnedIsDurable
<1>13. VersionCountsEvents'
  BY <1>5 DEF VersionCountsEvents, TrackerTypeOK
<1> QED BY <1>7, <1>9, <1>10, <1>11, <1>12, <1>13 DEF TrackerInv

\* A step that leaves the tracker alone keeps its invariant.
LEMMA TrackerUnchanged ==
  ASSUME TrackerInv, UNCHANGED historyVars PROVE TrackerInv'
  BY DEF historyVars, trackerVars, pollerVars, TrackerInv, TrackerTypeOK, VersionCoversCalls,
         CallsKeepTheirEvent, LogIsBounded, VersionsAreGivenOnce, RecordedIsInHistory,
         ReturnedIsDurable, VersionCountsEvents, InFlight, NoInsertFailed, InHistory

\* What the invariant is for.
LEMMA TrackerInvImplies == TrackerInv => HistoryIsSound
<1> SUFFICES ASSUME TrackerInv PROVE HistoryIsSound
  OBVIOUS
<1>1. VersionsAreUnique
  BY DEF TrackerInv, VersionsAreGivenOnce, VersionsAreUnique, NoInsertFailed
<1> QED BY <1>1 DEF TrackerInv, HistoryIsSound

\* Every step of RecordChange, of a client and of the process keeps it.
LEMMA TrackerSteps == TrackerInv /\ [TrackerNext]_historyVars => TrackerInv'
<1> SUFFICES ASSUME TrackerInv, [TrackerNext]_historyVars PROVE TrackerInv'
  OBVIOUS
<1>1. ASSUME NEW w \in Changes, RecordInMemory(w) PROVE TrackerInv'
  BY <1>1, TrackerRecords
<1>2. ASSUME NEW w \in Changes, PersistEvent(w) PROVE TrackerInv'
  BY <1>2, TrackerPersists
<1>3. ASSUME NEW w \in Changes, PersistFails(w) PROVE TrackerInv'
  BY <1>3, TrackerFailsToPersist
<1>4. ASSUME NEW w \in Changes, UndoRecord(w) PROVE TrackerInv'
  BY <1>4, TrackerUndoes
<1>5. ASSUME NEW c \in Pollers, CurrentToken(c) \/ ChangesSince(c) PROVE TrackerInv'
  BY <1>5, TrackerIsRead
<1>6. CASE Restart
  <2>1. writer \in [Changes -> WriterSteps]
    BY DEF TrackerInv, TrackerTypeOK
  <2>2. /\ writer' \in [Changes -> WriterSteps]
        /\ \A w \in Changes : writer'[w] \notin {"persisting", "undoing"}
        /\ \A w \in Changes : writer'[w] = "done" => writer[w] = "done"
        /\ \A w \in Changes : writer[w] = "failed" => writer'[w] = "failed"
    BY <1>6, <2>1 DEF Restart, WriterSteps
  <2> QED BY <1>6, <2>2, TrackerReloads DEF Restart
<1>7. CASE UNCHANGED historyVars
  BY <1>7, TrackerUnchanged
<1> QED BY <1>1, <1>2, <1>3, <1>4, <1>5, <1>6, <1>7 DEF TrackerNext

\* The tracker by itself: however calls of RecordChange interleave, fail and
\* crash, what they acknowledged is in the log and in the history, and no two
\* changes share a version unless one was taken back.
THEOREM TrackerHistory == TrackerSpec => []HistoryIsSound
<1>1. TrackerSpec => []TrackerInv
  BY TrackerStarts, TrackerSteps, PTL DEF TrackerSpec
<1> QED BY <1>1, TrackerInvImplies, PTL

-----------------------------------------------------------------------------
(* The feed.                                                               *)

\* What RecordChange appends to is a sequence of numbered changes.
LEMMA HistoryIsTyped ==
  ASSUME NEW s \in Seq(EventType)
  PROVE  /\ Len(s) \in Nat
         /\ \A i \in 1 .. Len(s) : s[i].change \in Changes /\ s[i].version \in Int
<1>1. Len(s) \in Nat /\ \A i \in 1 .. Len(s) : s[i] \in EventType
  OBVIOUS
<1> QED BY <1>1 DEF EventType

\* The collection starts with an empty history and clients without a token.
LEMMA FeedInvInit == FeedInit => TrackerInv /\ FeedInv
<1> SUFFICES ASSUME FeedInit PROVE TrackerInv /\ FeedInv
  OBVIOUS
<1>1. TrackerInv
  BY TrackerStarts DEF FeedInit
<1>2. FeedTypeOK /\ OnlyCommittedIsRecorded /\ OnlyCommittedIsDelivered
  BY DEF FeedInit, TrackerInit, FeedTypeOK, OnlyCommittedIsRecorded, OnlyCommittedIsDelivered
<1>3. TokensDivideTheHistory
  BY DEF FeedInit, TrackerInit, TokensDivideTheHistory
<1> QED BY <1>1, <1>2, <1>3 DEF FeedInv

\* A commit comes before everything else that happens to a change.
LEMMA FeedCommits ==
  ASSUME TrackerInv, FeedInv, NEW w \in Changes, Commit(w)
  PROVE  TrackerInv' /\ FeedInv'
<1> USE DEF FeedInv, Commit
<1>1. TrackerInv'
  BY TrackerUnchanged
<1>2. UNCHANGED <<version, events, log, writer, assigned, token, owed, delivered, reloads, read>>
  BY DEF historyVars, trackerVars, pollerVars
<1>3. FeedTypeOK'
  BY <1>2 DEF FeedTypeOK
<1>4. OnlyCommittedIsRecorded' /\ OnlyCommittedIsDelivered'
  BY <1>2 DEF OnlyCommittedIsRecorded, OnlyCommittedIsDelivered
<1>5. writer[w] = "idle"
  BY DEF OnlyCommittedIsRecorded
<1>6. \A c \in Pollers : late'[c] \subseteq late[c] \cup {w} /\ (token[c] = -1 => late'[c] = late[c])
  BY DEF FeedTypeOK
<1>7. TokensDivideTheHistory'
  BY <1>2, <1>5, <1>6 DEF TokensDivideTheHistory, Undisturbed, NoInsertFailed, EventsSince
<1> QED BY <1>1, <1>3, <1>4, <1>7 DEF FeedInv

\* The new event is ahead of every token, and is the first of its change.
LEMMA FeedRecords ==
  ASSUME TrackerInv, FeedInv, NEW w \in Changes, Record(w)
  PROVE  TrackerInv' /\ FeedInv'
<1> USE DEF FeedInv
<1>1. TrackerInv' /\ RecordInMemory(w) /\ w \in committed /\ UNCHANGED <<committed, read, late>>
  BY TrackerRecords DEF Record
<1>2. /\ version \in Nat /\ version' = version + 1 /\ events \in Seq(EventType)
      /\ UNCHANGED <<log, token, delivered, reloads>>
      /\ \A x \in Changes \ {w} : writer'[x] = writer[x]
      /\ writer[w] = "idle" /\ writer'[w] \in {"persisting", "done"}
      /\ Event(version', w).version = version + 1 /\ Event(version', w).change = w
      /\ Event(version', w) \in EventType
  BY <1>1, EventIsTyped DEF RecordInMemory, TrackerInv, TrackerTypeOK
<1>3. /\ Len(events') = Len(events) + 1 /\ Len(events) \in Nat
      /\ \A i \in 1 .. Len(events) : events'[i] = events[i]
      /\ events'[Len(events) + 1] = Event(version', w)
  BY <1>1, <1>2 DEF RecordInMemory
<1>4. FeedTypeOK' /\ OnlyCommittedIsRecorded' /\ OnlyCommittedIsDelivered'
  BY <1>1, <1>2, <1>3 DEF FeedTypeOK, OnlyCommittedIsRecorded, OnlyCommittedIsDelivered
<1>5. Undisturbed' => Undisturbed
  BY <1>2 DEF Undisturbed, NoInsertFailed
<1>6. \A i \in 1 .. Len(events) : events[i].change \in Changes /\ events[i].version \in Int
  BY <1>2, HistoryIsTyped
<1>7. Undisturbed' => \A i \in 1 .. Len(events') : writer'[events'[i].change] # "idle"
  BY <1>2, <1>3, <1>5, <1>6 DEF TokensDivideTheHistory
<1>8. \A c \in Pollers : Undisturbed' => token'[c] <= version' /\ token[c] <= version
  BY <1>2, <1>5 DEF TokensDivideTheHistory, TrackerInv, TrackerTypeOK
<1>9. \A c \in Pollers : \A x \in Changes : Undisturbed' /\ delivered'[c][x] > 0 =>
        /\ delivered'[c][x] = 1 /\ writer'[x] # "idle"
        /\ \A i \in 1 .. Len(events') : events'[i].change = x => events'[i].version <= token'[c]
  BY <1>2, <1>3, <1>5 DEF TokensDivideTheHistory
<1>10. \A c \in Pollers : EventsSince(token[c]) \subseteq EventsSince(token[c])'
  <2> SUFFICES ASSUME NEW c \in Pollers, NEW x \in EventsSince(token[c])
               PROVE  x \in EventsSince(token[c])'
    OBVIOUS
  <2>1. PICK i \in 1 .. Len(events) : events[i].version > token[c] /\ events[i].change = x
    BY DEF EventsSince
  <2>2. i \in 1 .. Len(events') /\ events'[i].version > token'[c] /\ events'[i].change = x
    BY <1>2, <1>3, <2>1
  <2> QED BY <2>2 DEF EventsSince
<1>11. \A c \in Pollers : Undisturbed' => w \in EventsSince(token[c])'
  <2> SUFFICES ASSUME NEW c \in Pollers, Undisturbed' PROVE w \in EventsSince(token[c])'
    OBVIOUS
  <2>1. token[c] \in Int /\ token[c] <= version /\ token'[c] = token[c]
    BY <1>2, <1>8 DEF TrackerInv, TrackerTypeOK
  <2>2. /\ Len(events) + 1 \in 1 .. Len(events')
        /\ events'[Len(events) + 1].version > token'[c]
        /\ events'[Len(events) + 1].change = w
    BY <1>2, <1>3, <2>1
  <2> QED BY <2>2 DEF EventsSince
<1>12. TokensDivideTheHistory'
  <2>1. \A c \in Pollers : Undisturbed' => \A x \in late'[c] : writer'[x] \in {"persisting", "done"} =>
          delivered'[c][x] > 0 \/ x \in EventsSince(token[c])'
    BY <1>1, <1>2, <1>5, <1>10, <1>11 DEF TokensDivideTheHistory, FeedTypeOK
  <2>2. \A c \in Pollers : token'[c] = -1 => late'[c] = {}
    BY <1>1, <1>2 DEF TokensDivideTheHistory
  <2>3. \A c \in Pollers : Undisturbed' => token'[c] <= version'
    BY <1>8
  <2> QED BY <1>7, <1>9, <2>1, <2>2, <2>3 DEF TokensDivideTheHistory
<1> QED BY <1>1, <1>4, <1>12 DEF FeedInv

\* Inserting the row changes nothing for the clients; a failing insert ends
\* what is promised to them.
LEMMA FeedPersists ==
  ASSUME TrackerInv, FeedInv, NEW w \in Changes, Persist(w)
  PROVE  TrackerInv' /\ FeedInv'
<1> USE DEF FeedInv
<1>1. TrackerInv' /\ UNCHANGED <<committed, read, late, token, delivered, reloads>>
  BY TrackerPersists, TrackerFailsToPersist, TrackerUndoes
     DEF Persist, PersistEvent, PersistFails, UndoRecord, pollerVars
<1>2. /\ writer[w] # "idle" /\ writer'[w] # "idle"
      /\ \A x \in Changes \ {w} : writer'[x] = writer[x]
  BY DEF Persist, PersistEvent, PersistFails, UndoRecord, TrackerInv, TrackerTypeOK
<1>3. \A i \in 1 .. Len(events') : i \in 1 .. Len(events) /\ events'[i] = events[i]
  <2>1. CASE UNCHANGED events
    BY <2>1
  <2>2. CASE events # << >> /\ events' = SubSeq(events, 1, Len(events) - 1)
    <3>1. events \in Seq(EventType) /\ Len(events) \in Nat
      BY DEF TrackerInv, TrackerTypeOK
    <3> DEFINE n == Len(events) - 1
    <3>2. n \in Int /\ n >= 0 /\ n < Len(events) /\ \A i \in 1 .. n : events[i] \in EventType
      BY <2>2, <3>1, EmptySeq
    <3>3. events' = SubSeq(events, 1, n)
      BY <2>2
    <3> HIDE DEF n
    <3>4. /\ Len(SubSeq(events, 1, n)) = IF 1 <= n THEN n - 1 + 1 ELSE 0
          /\ \A i \in 1 .. n - 1 + 1 : SubSeq(events, 1, n)[i] = events[1 + i - 1]
      BY <3>2, SubSeqProperties
    <3> QED BY <3>1, <3>2, <3>3, <3>4
  <2> QED BY <2>1, <2>2 DEF Persist, PersistEvent, PersistFails, UndoRecord
<1>4. FeedTypeOK' /\ OnlyCommittedIsDelivered'
  BY <1>1 DEF FeedTypeOK, OnlyCommittedIsDelivered
<1>5. OnlyCommittedIsRecorded'
  <2>1. \A r \in log' : r \in log \/ (writer[w] = "persisting" /\ r = assigned[w])
    BY DEF Persist, PersistEvent, PersistFails, UndoRecord
  <2>2. writer[w] = "persisting" => assigned[w].change = w
    BY DEF TrackerInv, CallsKeepTheirEvent
  <2> QED BY <1>1, <1>2, <1>3, <2>1, <2>2 DEF OnlyCommittedIsRecorded
<1>6. CASE PersistEvent(w)
  <2>1. /\ UNCHANGED <<version, events>> /\ writer[w] = "persisting"
        /\ Undisturbed' => Undisturbed
    BY <1>1, <1>2, <1>6 DEF PersistEvent, Undisturbed, NoInsertFailed
  <2>2. \A i \in 1 .. Len(events) : events[i].change \in Changes
    BY HistoryIsTyped DEF TrackerInv, TrackerTypeOK
  <2>3. TokensDivideTheHistory'
    BY <1>1, <1>2, <2>1, <2>2 DEF TokensDivideTheHistory, FeedTypeOK, EventsSince
  <2> QED BY <1>1, <1>4, <1>5, <2>3 DEF FeedInv
<1>7. CASE PersistFails(w) \/ UndoRecord(w)
  <2>1. ~Undisturbed'
    BY <1>7 DEF PersistFails, UndoRecord, Undisturbed, NoInsertFailed, TrackerInv, TrackerTypeOK
  <2>2. TokensDivideTheHistory'
    BY <1>1, <2>1 DEF TokensDivideTheHistory
  <2> QED BY <1>1, <1>4, <1>5, <2>2 DEF FeedInv
<1> QED BY <1>6, <1>7 DEF Persist

\* Whatever leaves the history, the tokens and what was delivered alone leaves
\* the feed alone: reading the rows is such a step.
LEMMA FeedUnchanged ==
  ASSUME TrackerInv, FeedInv, UNCHANGED <<historyVars, committed, late>>,
         read' \in [Pollers -> BOOLEAN]
  PROVE  TrackerInv' /\ FeedInv'
<1> USE DEF FeedInv
<1>1. TrackerInv'
  BY TrackerUnchanged
<1>2. UNCHANGED <<version, events, log, writer, assigned, token, owed, delivered, reloads,
                  committed, late>>
  BY DEF historyVars, trackerVars, pollerVars
<1>3. FeedTypeOK' /\ OnlyCommittedIsRecorded' /\ OnlyCommittedIsDelivered'
  BY <1>2 DEF FeedTypeOK, OnlyCommittedIsRecorded, OnlyCommittedIsDelivered
<1>4. TokensDivideTheHistory'
  BY <1>2 DEF TokensDivideTheHistory, Undisturbed, NoInsertFailed, EventsSince
<1> QED BY <1>1, <1>3, <1>4 DEF FeedInv

\* A first token is the current version: nothing was promised before it, and
\* nothing delivered lies beyond it.
LEMMA FeedGivesToken ==
  ASSUME TrackerInv, FeedInv, NEW c \in Pollers, TakeToken(c)
  PROVE  TrackerInv' /\ FeedInv'
<1> USE DEF FeedInv
<1>1. TrackerInv'
  BY TrackerIsRead DEF TakeToken
<1>2. /\ UNCHANGED <<version, events, log, writer, assigned, owed, delivered, reloads,
                     committed, read, late>>
      /\ token[c] = -1 /\ token' = [token EXCEPT ![c] = version]
      /\ token \in [Pollers -> Nat \cup {-1}] /\ version \in Nat
  BY DEF TakeToken, CurrentToken, trackerVars, TrackerInv, TrackerTypeOK
<1>3. FeedTypeOK' /\ OnlyCommittedIsRecorded' /\ OnlyCommittedIsDelivered'
  BY <1>2 DEF FeedTypeOK, OnlyCommittedIsRecorded, OnlyCommittedIsDelivered
<1>4. /\ token'[c] = version /\ late[c] = {}
      /\ \A d \in Pollers \ {c} : token'[d] = token[d]
      /\ \A d \in Pollers : token[d] <= token'[d]  \/ ~Undisturbed
  BY <1>2 DEF TokensDivideTheHistory
<1>5. Undisturbed' <=> Undisturbed
  BY <1>2 DEF Undisturbed, NoInsertFailed
<1>6. \A i \in 1 .. Len(events) : events[i].version \in Int
  BY HistoryIsTyped DEF TrackerInv, TrackerTypeOK
<1>7. \A d \in Pollers : \A w \in Changes : Undisturbed /\ delivered[d][w] > 0 =>
        \A i \in 1 .. Len(events) : events[i].change = w => events[i].version <= token'[d]
  BY <1>2, <1>4, <1>6 DEF TokensDivideTheHistory
<1>8. \A d \in Pollers : \A w \in late[d] :
        w \in EventsSince(token[d]) => w \in EventsSince(token[d])'
  BY <1>2, <1>4 DEF EventsSince
<1>9. TokensDivideTheHistory'
  <2>1. \A d \in Pollers : token'[d] = -1 => late'[d] = {}
    BY <1>2, <1>4 DEF TokensDivideTheHistory
  <2>2. \A d \in Pollers : Undisturbed => token'[d] <= version'
    BY <1>2, <1>4 DEF TokensDivideTheHistory
  <2>3. \A d \in Pollers : Undisturbed =>
          \A w \in late'[d] : writer'[w] \in {"persisting", "done"} =>
            delivered'[d][w] > 0 \/ w \in EventsSince(token[d])'
    BY <1>2, <1>8 DEF TokensDivideTheHistory
  <2> QED BY <1>2, <1>5, <1>7, <2>1, <2>2, <2>3 DEF TokensDivideTheHistory
<1> QED BY <1>1, <1>3, <1>9 DEF FeedInv

\* A delta request brings what lies between two tokens, and nothing that an
\* earlier one brought.
LEMMA FeedPolls ==
  ASSUME TrackerInv, FeedInv, NEW c \in Pollers, Poll(c)
  PROVE  TrackerInv' /\ FeedInv'
<1> USE DEF FeedInv
<1>1. TrackerInv'
  BY TrackerIsRead DEF Poll
<1> DEFINE Sent == EventsSince(token[c])
           Count(w) == IF w \in Sent /\ delivered[c][w] < 2 THEN delivered[c][w] + 1
                       ELSE delivered[c][w]
<1>2. /\ UNCHANGED <<version, events, log, writer, assigned, owed, reloads, committed, read, late>>
      /\ token[c] >= 0 /\ token' = [token EXCEPT ![c] = version]
      /\ token \in [Pollers -> Nat \cup {-1}] /\ version \in Nat
      /\ delivered \in [Pollers -> [Changes -> 0 .. 2]]
      /\ writer \in [Changes -> WriterSteps]
  BY DEF Poll, ChangesSince, trackerVars, TrackerInv, TrackerTypeOK
<1>3. delivered' = [delivered EXCEPT ![c] = [w \in Changes |-> Count(w)]]
  BY <1>2 DEF Poll, ChangesSince
<1> HIDE DEF Count
<1>4. /\ token'[c] = version
      /\ \A d \in Pollers \ {c} : token'[d] = token[d] /\ delivered'[d] = delivered[d]
      /\ \A w \in Changes : delivered'[c][w] = Count(w)
  BY <1>2, <1>3
<1>5. \A w \in Changes :
        /\ w \notin Sent => delivered'[c][w] = delivered[c][w]
        /\ w \in Sent /\ delivered[c][w] <= 0 => delivered'[c][w] = 1
        /\ w \in Sent => delivered'[c][w] > 0
  <2> SUFFICES ASSUME NEW w \in Changes
               PROVE  /\ w \notin Sent => Count(w) = delivered[c][w]
                      /\ w \in Sent /\ delivered[c][w] <= 0 => Count(w) = 1
                      /\ w \in Sent => Count(w) > 0
    BY <1>4
  <2>1. delivered[c][w] \in 0 .. 2
    BY <1>2
  <2> HIDE DEF Sent
  <2> QED BY <2>1 DEF Count
<1>6. \A i \in 1 .. Len(events) : events[i].change \in Changes /\ events[i].version \in Int
  BY HistoryIsTyped DEF TrackerInv, TrackerTypeOK
<1>7. \A w \in Sent : \E i \in 1 .. Len(events) : events[i].change = w /\ events[i].version > token[c]
  BY DEF EventsSince
<1> HIDE DEF Sent
<1>8. FeedTypeOK' /\ OnlyCommittedIsRecorded'
  BY <1>2 DEF FeedTypeOK, OnlyCommittedIsRecorded
<1>9. OnlyCommittedIsDelivered'
  <2>1. \A w \in Sent : w \in committed
    BY <1>7 DEF OnlyCommittedIsRecorded
  <2> QED BY <1>2, <1>4, <1>5, <2>1 DEF OnlyCommittedIsDelivered
<1>10. TokensDivideTheHistory'
  <2>1. (Undisturbed' <=> Undisturbed) /\ (Undisturbed =>
          \A w \in Changes : writer[w] # "failed")
    BY <1>2 DEF Undisturbed, NoInsertFailed
  <2>2. \A d \in Pollers : token'[d] = -1 => late'[d] = {}
    BY <1>2, <1>4 DEF TokensDivideTheHistory
  <2>3. \A d \in Pollers : Undisturbed => token'[d] <= version'
    BY <1>2, <1>4 DEF TokensDivideTheHistory
  <2>4. Undisturbed => \A w \in Changes : w \in Sent => delivered[c][w] <= 0
    <3> SUFFICES ASSUME Undisturbed, NEW w \in Changes, w \in Sent, delivered[c][w] > 0
                 PROVE  FALSE
      BY <1>2
    <3>1. PICK i \in 1 .. Len(events) : events[i].change = w /\ events[i].version > token[c]
      BY <1>7
    <3>2. events[i].version <= token[c]
      BY <3>1 DEF TokensDivideTheHistory
    <3> QED BY <1>2, <1>6, <3>1, <3>2
  <2>5. Undisturbed => \A w \in Changes : delivered'[c][w] > 0 =>
          /\ delivered'[c][w] = 1 /\ writer[w] # "idle"
          /\ \A i \in 1 .. Len(events) : events[i].change = w => events[i].version <= version
    <3> SUFFICES ASSUME Undisturbed, NEW w \in Changes, delivered'[c][w] > 0
                 PROVE  /\ delivered'[c][w] = 1 /\ writer[w] # "idle"
                        /\ \A i \in 1 .. Len(events) :
                             events[i].change = w => events[i].version <= version
      OBVIOUS
    <3>1. \A i \in 1 .. Len(events) : events[i].version <= version
      BY <2>1 DEF TrackerInv, VersionsAreGivenOnce
    <3>2. delivered'[c][w] = 1 /\ writer[w] # "idle"
      BY <1>5, <1>7, <2>4 DEF TokensDivideTheHistory
    <3> QED BY <3>1, <3>2
  <2>6. Undisturbed => \A w \in late[c] : writer[w] \in {"persisting", "done"} =>
          delivered'[c][w] > 0
    BY <1>5 DEF TokensDivideTheHistory, FeedTypeOK, Sent
  <2>7. \A d \in Pollers \ {c} : EventsSince(token[d])' = EventsSince(token[d])
    BY <1>2, <1>4 DEF EventsSince
  <2>8. Undisturbed => \A d \in Pollers \ {c} :
          /\ \A w \in Changes : delivered'[d][w] > 0 =>
               /\ delivered'[d][w] = 1 /\ writer[w] # "idle"
               /\ \A i \in 1 .. Len(events) :
                    events[i].change = w => events[i].version <= token'[d]
          /\ \A w \in late[d] : writer[w] \in {"persisting", "done"} =>
               delivered'[d][w] > 0 \/ w \in EventsSince(token[d])'
    BY <1>4, <2>7 DEF TokensDivideTheHistory
  <2>9. Undisturbed => \A i \in 1 .. Len(events) : writer[events[i].change] # "idle"
    BY DEF TokensDivideTheHistory
  <2> QED BY <1>2, <1>4, <2>1, <2>2, <2>3, <2>5, <2>6, <2>8, <2>9 DEF TokensDivideTheHistory
<1> QED BY <1>1, <1>8, <1>9, <1>10 DEF FeedInv

\* A restart keeps the log, hence only what was committed, and ends what is
\* promised to the clients of the old process.
LEMMA FeedRestarts ==
  ASSUME TrackerInv, FeedInv, CrashAndRestart
  PROVE  TrackerInv' /\ FeedInv'
<1> USE DEF FeedInv
<1>1. writer \in [Changes -> WriterSteps]
  BY DEF TrackerInv, TrackerTypeOK
<1>2. /\ Reload /\ UNCHANGED <<committed, late>>
      /\ read' = [c \in Pollers |-> read[c] /\ token[c] >= 0]
      /\ writer' \in [Changes -> WriterSteps]
      /\ \A w \in Changes : writer'[w] \notin {"persisting", "undoing"}
      /\ \A w \in Changes : writer'[w] = "done" => writer[w] = "done"
      /\ \A w \in Changes : writer[w] = "failed" => writer'[w] = "failed"
      /\ \A w \in Changes : writer'[w] # "idle" => writer[w] # "idle" \/ w \in committed
  BY <1>1 DEF CrashAndRestart, WriterSteps
<1>3. TrackerInv'
  BY <1>2, TrackerReloads
<1>4. UNCHANGED <<log, assigned, token, owed, delivered>> /\ reloads' = reloads + 1
  BY <1>2 DEF Reload, pollerVars
<1>5. \A i \in 1 .. Len(events') : events'[i] \in log
  <2>1. PICK s \in [1 .. Cardinality(log) -> log] :
          /\ \A i, k \in DOMAIN s : i < k => s[i] # s[k] /\ s[i].version <= s[k].version
          /\ events' = s
    BY <1>2 DEF Reload
  <2>2. \A i, k \in DOMAIN s : i < k => s[i] # s[k]
    BY <2>1
  <2>3. Len(s) = Cardinality(log)
    BY <2>2, ReloadIsComplete DEF TrackerInv
  <2> QED BY <2>1, <2>3
<1>6. FeedTypeOK'
  BY <1>2 DEF FeedTypeOK
<1>7. OnlyCommittedIsRecorded' /\ OnlyCommittedIsDelivered'
  BY <1>2, <1>4, <1>5 DEF OnlyCommittedIsRecorded, OnlyCommittedIsDelivered
<1>8. TokensDivideTheHistory'
  <2>1. ~Undisturbed'
    BY <1>4 DEF Undisturbed, TrackerInv, TrackerTypeOK
  <2> QED BY <1>2, <1>4, <2>1 DEF TokensDivideTheHistory
<1> QED BY <1>3, <1>6, <1>7, <1>8 DEF FeedInv

\* Every step of the writers, the clients and the process keeps the invariant.
LEMMA FeedStep == TrackerInv /\ FeedInv /\ [FeedNext]_feedVars => TrackerInv' /\ FeedInv'
<1> SUFFICES ASSUME TrackerInv, FeedInv, [FeedNext]_feedVars PROVE TrackerInv' /\ FeedInv'
  OBVIOUS
<1>1. ASSUME NEW w \in Changes, Commit(w) PROVE TrackerInv' /\ FeedInv'
  BY <1>1, FeedCommits
<1>2. ASSUME NEW w \in Changes, Record(w) PROVE TrackerInv' /\ FeedInv'
  BY <1>2, FeedRecords
<1>3. ASSUME NEW w \in Changes, Persist(w) PROVE TrackerInv' /\ FeedInv'
  BY <1>3, FeedPersists
<1>4. ASSUME NEW c \in Pollers, ReadRows(c) PROVE TrackerInv' /\ FeedInv'
  <2>1. read' \in [Pollers -> BOOLEAN]
    BY <1>4 DEF ReadRows, FeedInv, FeedTypeOK
  <2> QED BY <1>4, <2>1, FeedUnchanged DEF ReadRows
<1>5. ASSUME NEW c \in Pollers, TakeToken(c) PROVE TrackerInv' /\ FeedInv'
  BY <1>5, FeedGivesToken
<1>6. ASSUME NEW c \in Pollers, Poll(c) PROVE TrackerInv' /\ FeedInv'
  BY <1>6, FeedPolls
<1>7. CASE CrashAndRestart
  BY <1>7, FeedRestarts
<1>8. CASE UNCHANGED feedVars
  BY <1>8, FeedUnchanged DEF feedVars, FeedInv, FeedTypeOK
<1> QED BY <1>1, <1>2, <1>3, <1>4, <1>5, <1>6, <1>7, <1>8 DEF FeedNext

\* What is delivered and promised follows from where the tokens stand.
LEMMA FeedInvImplies == TrackerInv /\ FeedInv => FeedIsExact
<1> SUFFICES ASSUME TrackerInv, FeedInv PROVE FeedIsExact
  OBVIOUS
<1>1. delivered \in [Pollers -> [Changes -> 0 .. 2]] /\ late \in [Pollers -> SUBSET Changes]
  BY DEF TrackerInv, TrackerTypeOK, FeedInv, FeedTypeOK
<1>2. DeliveredOnce
  <2> SUFFICES ASSUME Undisturbed, NEW c \in Pollers, NEW w \in Changes
               PROVE  delivered[c][w] <= 1
    BY DEF DeliveredOnce
  <2>1. delivered[c][w] \in 0 .. 2
    BY <1>1
  <2>2. delivered[c][w] > 0 => delivered[c][w] = 1
    BY DEF FeedInv, TokensDivideTheHistory
  <2> QED BY <2>1, <2>2
<1>3. LaterCommitIsDelivered
  BY DEF FeedInv, TokensDivideTheHistory, LaterCommitIsDelivered
<1> QED BY <1>2, <1>3 DEF FeedInv, FeedIsExact

\* The tracker keeps its history also where requests and transactions surround
\* it: record after commit, token after read, crashes in between.
THEOREM FeedHistory == FeedSpec => []HistoryIsSound
<1>1. FeedSpec => [](TrackerInv /\ FeedInv)
  BY FeedInvInit, FeedStep, PTL DEF FeedSpec
<1> QED BY <1>1, TrackerInvImplies, PTL

\* For any number of writers and clients a delta client gets, until a restart
\* or a failing insert, what was committed and recorded since its token, once.
THEOREM FeedExact == FeedSpec => []FeedIsExact
<1>1. FeedSpec => [](TrackerInv /\ FeedInv)
  BY FeedInvInit, FeedStep, PTL DEF FeedSpec
<1> QED BY <1>1, FeedInvImplies, PTL

=============================================================================
