---------------------------- MODULE Batch_proofs ----------------------------
(***************************************************************************)
(* Proofs about the two batch formats.  MultipartBatch: for every set of   *)
(* Content-IDs, every size limit and bodies of any number of parts, IInv   *)
(* is inductive.  JsonBatch: for every envelope and every limit, groups    *)
(* settle, only the requests that may run do, and a group none of whose    *)
(* requests is skipped is atomic.                                          *)
(***************************************************************************)
EXTENDS MultipartBatch, JsonBatch, SequenceTheorems, FiniteSetTheorems, TLAPS

-----------------------------------------------------------------------------
(* MultipartBatch.                                                         *)

\* The properties that speak of executed requests only.
HistoryOK ==
  LogIsOrderly /\ ChangesetIsAtomic /\ CommittedIsRecorded
    /\ ReferencesStayInside

\* The properties of an open changeset.
OpenOK == NothingStaged /\ OpenIsStaged /\ EventsWait /\ IDsAreSeen

\* The properties of the responses.
AnswersOK ==
  RunsAreAnswered /\ SuccessIsExecuted /\ SuccessIsCommitted
    /\ ExecutedWithinLimit

\* The parts of the inductive invariant.
LEMMA IInvParts == IInv <=> TypeOK /\ HistoryOK /\ OpenOK /\ AnswersOK
  BY DEF IInv, HistoryOK, OpenOK, AnswersOK

\* Before the first part is read the invariant holds.
LEMMA InvInit == Init => IInv
<1> SUFFICES ASSUME Init PROVE IInv
  OBVIOUS
<1> USE MultipartAssumption DEF Init
<1>1. TypeOK
  BY DEF TypeOK, NoLocations, Requests
<1>2. HistoryOK
  BY DEF HistoryOK, LogIsOrderly, ChangesetIsAtomic, CommittedIsRecorded,
         ReferencesStayInside, Requests, Elements, Increasing
<1>3. OpenOK
  BY DEF OpenOK, NothingStaged, OpenIsStaged, EventsWait, IDsAreSeen
<1>4. AnswersOK
  BY DEF AnswersOK, RunsAreAnswered, SuccessIsExecuted, SuccessIsCommitted,
         ExecutedWithinLimit
<1> QED BY <1>1, <1>2, <1>3, <1>4, IInvParts

\* A step that executes and commits nothing keeps what is known of the past.
LEMMA HistoryKept ==
  ASSUME HistoryOK, UNCHANGED <<log, durable, events, changesets>>
  PROVE  HistoryOK'
  BY DEF HistoryOK, LogIsOrderly, ChangesetIsAtomic, CommittedIsRecorded,
         ReferencesStayInside, Requests, Elements, Increasing, Of, IsWrite

\* Outside a changeset only NothingStaged says something.
LEMMA NoneOpen ==
  ASSUME phase' # "changeset", staged' = {}, pendingEvents' = << >>,
         phase' = "done" \/ inner' = << >>
  PROVE  OpenOK'
  BY DEF OpenOK, NothingStaged, OpenIsStaged, EventsWait, IDsAreSeen

\* No new response and nothing executed or committed.
LEMMA AnswersKept ==
  ASSUME AnswersOK, UNCHANGED <<log, durable, responses, inner, undone>>
  PROVE  AnswersOK'
  BY DEF AnswersOK, RunsAreAnswered, SuccessIsExecuted, SuccessIsCommitted,
         ExecutedWithinLimit, Requests, IsWrite

\* The batch ends, or begins, and nothing is executed.
LEMMA QuietSteps ==
  ASSUME IInv,
         \/ RejectBatch \/ StartBatch \/ BatchUnreadable \/ BatchTooLarge
         \/ WriteBatchResponse
  PROVE  IInv'
<1> USE MultipartAssumption
<1>1. /\ UNCHANGED <<log, durable, events, changesets, responses, changeset,
                     undone>>
      /\ phase' \in {"done", "batch"} /\ phase \in {"start", "batch"}
      /\ answer' \in {answer, "ok", "badRequest", "tooLarge"}
      /\ parts' = parts \/ (parts < MaxParts /\ parts' = parts + 1)
  BY DEF RejectBatch, StartBatch, BatchUnreadable, BatchTooLarge, ReadPart,
         WriteBatchResponse, effects
<1>2. TypeOK'
  BY <1>1 DEF IInv, TypeOK, changeset, Requests
<1>3. HistoryOK'
  BY <1>1, HistoryKept, IInvParts
<1>4. OpenOK'
  BY <1>1, NoneOpen DEF IInv, NothingStaged, changeset
<1>5. AnswersOK'
  BY <1>1, AnswersKept, IInvParts DEF changeset
<1> QED BY <1>2, <1>3, <1>4, <1>5
        DEF IInv, HistoryOK, OpenOK, AnswersOK

\* What executing a request does to the log.
LEMMA LogGrows ==
  ASSUME NEW e \in Entry, log \in Seq(Entry), log' = Append(log, e)
  PROVE  /\ log' \in Seq(Entry) /\ Len(log') = Len(log) + 1
         /\ This \in Nat /\ This \notin Requests
         /\ Requests' = Requests \cup {This}
         /\ log'[This] = e
         /\ \A n \in Requests : log'[n] = log[n] /\ n < This /\ n \in Nat
  BY DEF Requests, This

\* Appending is concatenating a sequence of one response.
LEMMA AppendResponse ==
  ASSUME NEW s \in Seq(ResponseType), NEW r \in ResponseType
  PROVE  /\ Append(s, r) = s \o <<r>>
         /\ <<r>> \in Seq(ResponseType) /\ Len(<<r>>) = 1 /\ <<r>>[1] = r
<1>1. <<r>> \in Seq(ResponseType) /\ Len(<<r>>) = 1 /\ <<r>>[1] = r
  OBVIOUS
<1>2. Append(s, r) = s \o <<r>>
  BY AppendIsConcat
<1> QED BY <1>1, <1>2

\* New responses keep the promise about successful writes when each of them
\* does.
LEMMA ResponsesGrow ==
  ASSUME TypeOK, SuccessIsExecuted, SuccessIsCommitted,
         NEW rs \in Seq(ResponseType),
         responses' = responses \o rs,
         log' = log \/ \E e \in Entry : log' = Append(log, e),
         durable \subseteq durable',
         \A k \in 1 .. Len(rs) : rs[k].status = "ok" =>
           /\ rs[k].request \in 1 .. Len(log')
           /\ \/ log'[rs[k].request].method = "read"
              \/ rs[k].request \in durable'
              \/ \E j \in k + 1 .. Len(rs) :
                   /\ rs[j].changeset = rs[k].changeset
                   /\ rs[j].status = "error"
  PROVE  SuccessIsExecuted' /\ SuccessIsCommitted'
<1>1. /\ Len(log') \in Nat /\ Len(log) \in Nat /\ Len(log) <= Len(log')
      /\ \A n \in 1 .. Len(log) : log'[n] = log[n]
  <2>1. CASE log' = log
    BY <2>1 DEF TypeOK
  <2>2. ASSUME NEW e \in Entry, log' = Append(log, e)
        PROVE  /\ Len(log') = Len(log) + 1
               /\ \A n \in 1 .. Len(log) : log'[n] = log[n]
    BY <2>2 DEF TypeOK
  <2>3. Len(log) \in Nat
    BY DEF TypeOK
  <2> QED BY <2>1, <2>2, <2>3
<1>2. /\ Len(responses') = Len(responses) + Len(rs)
      /\ Len(responses) \in Nat /\ Len(rs) \in Nat
      /\ \A k \in 1 .. Len(responses) : responses'[k] = responses[k]
      /\ \A k \in 1 .. Len(rs) : responses'[Len(responses) + k] = rs[k]
  BY DEF TypeOK
<1>3. SuccessIsExecuted'
  <2> SUFFICES ASSUME NEW k \in 1 .. Len(responses'),
                      responses'[k].status = "ok"
               PROVE  responses'[k].request \in 1 .. Len(log')
    BY DEF SuccessIsExecuted, Requests
  <2>1. CASE k \in 1 .. Len(responses)
    BY <2>1, <1>1, <1>2 DEF SuccessIsExecuted, Requests
  <2>2. CASE k \notin 1 .. Len(responses)
    <3>1. /\ k - Len(responses) \in 1 .. Len(rs)
          /\ responses'[k] = rs[k - Len(responses)]
      BY <2>2, <1>2
    <3> QED BY <3>1
  <2> QED BY <2>1, <2>2
<1>4. SuccessIsCommitted'
  <2> SUFFICES ASSUME NEW k \in 1 .. Len(responses'),
                      responses'[k].status = "ok",
                      log'[responses'[k].request].method # "read",
                      responses'[k].request \notin durable'
               PROVE  \E j \in k + 1 .. Len(responses') :
                        /\ responses'[j].changeset = responses'[k].changeset
                        /\ responses'[j].status = "error"
    BY DEF SuccessIsCommitted, IsWrite
  <2>1. CASE k \in 1 .. Len(responses)
    <3>1. /\ responses[k].status = "ok"
          /\ log[responses[k].request].method # "read"
          /\ responses[k].request \notin durable
      BY <2>1, <1>1, <1>2 DEF SuccessIsExecuted, Requests
    <3>2. PICK j \in k + 1 .. Len(responses) :
            /\ responses[j].changeset = responses[k].changeset
            /\ responses[j].status = "error"
      BY <2>1, <3>1 DEF SuccessIsCommitted, IsWrite
    <3>3. j \in 1 .. Len(responses) /\ j \in k + 1 .. Len(responses')
      BY <2>1, <1>2
    <3>4. responses'[j] = responses[j] /\ responses'[k] = responses[k]
      BY <2>1, <3>3, <1>2
    <3> QED BY <3>2, <3>3, <3>4
  <2>2. CASE k \notin 1 .. Len(responses)
    <3> DEFINE i == k - Len(responses)
    <3>1. i \in 1 .. Len(rs) /\ responses'[k] = rs[i]
      BY <2>2, <1>2
    <3>2. PICK j \in i + 1 .. Len(rs) :
            /\ rs[j].changeset = rs[i].changeset
            /\ rs[j].status = "error"
      BY <3>1
    <3>3. Len(responses) + j \in k + 1 .. Len(responses')
      BY <3>1, <3>2, <1>2
    <3>4. responses'[Len(responses) + j] = rs[j]
      BY <3>1, <3>2, <1>2
    <3> QED BY <3>1, <3>2, <3>3, <3>4
  <2> QED BY <2>1, <2>2
<1> QED BY <1>3, <1>4

\* A part is answered with an error and nothing is executed.
LEMMA RejectSteps ==
  ASSUME IInv, RejectPart \/ AnswerUnparsed \/ BeginFails
  PROVE  IInv'
<1> USE MultipartAssumption
<1> DEFINE r == Response(0, 0, "error")
<1>1. /\ UNCHANGED <<log, durable, events, changesets, changeset, undone,
                     phase, answer>>
      /\ phase = "batch"
      /\ responses' = Append(responses, r)
      /\ parts < MaxParts /\ parts' = parts + 1
  BY DEF RejectPart, AnswerUnparsed, BeginFails, ReadPart, Respond, effects
<1>2. r \in ResponseType /\ r.status = "error"
  BY DEF ResponseType, Response
<1>3. TypeOK'
  BY <1>1, <1>2 DEF IInv, TypeOK, changeset, Requests
<1>4. HistoryOK'
  BY <1>1, HistoryKept, IInvParts
<1>5. OpenOK'
  BY <1>1, NoneOpen DEF IInv, NothingStaged, changeset
<1>6. /\ responses' = responses \o <<r>>
      /\ <<r>> \in Seq(ResponseType) /\ Len(<<r>>) = 1 /\ <<r>>[1] = r
  BY <1>1, <1>2, AppendResponse DEF IInv, TypeOK
<1>7. SuccessIsExecuted' /\ SuccessIsCommitted'
  <2> HIDE DEF r
  <2>1. \A k \in 1 .. Len(<<r>>) : <<r>>[k].status # "ok"
    BY <1>2, <1>6
  <2> QED BY <1>1, <1>6, <2>1, ResponsesGrow DEF IInv
<1>8. RunsAreAnswered' /\ ExecutedWithinLimit'
  BY <1>1 DEF IInv, TypeOK, RunsAreAnswered, ExecutedWithinLimit, changeset
<1> QED BY <1>3, <1>4, <1>5, <1>7, <1>8
        DEF IInv, HistoryOK, OpenOK, AnswersOK

\* When a changeset fails, its last response tells so.
LEMMA FailureIsTold ==
  ASSUME TypeOK, OpenIsStaged, SuccessIsExecuted, SuccessIsCommitted,
         phase = "changeset",
         NEW r \in ResponseType, r.changeset = changesets, r.status = "error",
         responses' = responses \o Append(inner, r),
         log' = log \/ \E e \in Entry : log' = Append(log, e),
         UNCHANGED durable
  PROVE  SuccessIsExecuted' /\ SuccessIsCommitted'
<1> DEFINE rs == Append(inner, r)
<1>1. /\ Len(inner) \in Nat
      /\ rs \in Seq(ResponseType) /\ Len(rs) = Len(inner) + 1
      /\ \A k \in 1 .. Len(inner) : rs[k] = inner[k]
      /\ rs[Len(inner) + 1] = r
  BY DEF TypeOK
<1>2. Len(log) \in Nat /\ Len(log') \in Nat /\ Len(log) <= Len(log')
  <2>1. CASE log' = log
    BY <2>1 DEF TypeOK
  <2>2. ASSUME NEW e \in Entry, log' = Append(log, e)
        PROVE  Len(log') = Len(log) + 1
    BY <2>2 DEF TypeOK
  <2>3. Len(log) \in Nat
    BY DEF TypeOK
  <2> QED BY <2>1, <2>2, <2>3
<1>3. ASSUME NEW k \in 1 .. Len(rs), rs[k].status = "ok"
      PROVE  /\ rs[k].request \in 1 .. Len(log')
             /\ \E j \in k + 1 .. Len(rs) :
                  /\ rs[j].changeset = rs[k].changeset
                  /\ rs[j].status = "error"
  <2>1. k \in 1 .. Len(inner) /\ Len(inner) + 1 \in k + 1 .. Len(rs)
    BY <1>1, <1>3
  <2>2. /\ rs[k].request \in Of(changesets)
        /\ rs[k].changeset = changesets
    BY <1>1, <2>1 DEF OpenIsStaged
  <2>3. rs[k].request \in 1 .. Len(log')
    BY <1>2, <2>2 DEF Of, Requests
  <2> HIDE DEF rs
  <2> QED BY <1>1, <2>1, <2>2, <2>3
<1> HIDE DEF rs
<1>4. responses' = responses \o rs
  BY DEF rs
<1> QED BY <1>1, <1>3, <1>4, ResponsesGrow

\* A request dispatched in a changeset leads to what its reference names, and
\* does not disturb what is known of the earlier ones.
LEMMA DispatchKeepsHistory ==
  ASSUME IInv,
         NEW id \in IDs, NEW m \in Methods, NEW ref \in IDs,
         NEW ok \in BOOLEAN,
         Dispatch(id, m, ref, ok),
         UNCHANGED <<durable, events, changesets>>
  PROVE  /\ HistoryOK'
         /\ \E e \in Entry :
              /\ log' = Append(log, e)
              /\ e.changeset = changesets /\ e.id = id /\ e.method = m
              /\ e.ok = ok
<1> DEFINE e == [changeset |-> changesets, id |-> id, method |-> m,
                 ref |-> ref, target |-> Resolved(ref), ok |-> ok]
<1> USE MultipartAssumption
<1>1. /\ phase = "changeset" /\ log' = Append(log, e)
      /\ id \notin seenContentIDs
      /\ log \in Seq(Entry) /\ changesets \in Nat /\ changesets > 0
  BY DEF Dispatch, Admitted, ReadPart, DuplicateID, IInv, TypeOK,
         OpenIsStaged
<1>2. Resolved(ref) \in 0 .. Len(log)
  BY DEF Resolved, IInv, TypeOK, IDs
<1>3. e \in Entry
  BY <1>1, <1>2 DEF Entry
<1>4. /\ e.changeset = changesets /\ e.id = id /\ e.method = m
      /\ e.ok = ok /\ e.ref = ref /\ e.target = Resolved(ref)
  OBVIOUS
<1> HIDE DEF e
<1>5. /\ This \in Nat /\ This \notin Requests
      /\ Requests' = Requests \cup {This}
      /\ log'[This] = e
      /\ \A n \in Requests : log'[n] = log[n] /\ n < This /\ n \in Nat
  BY <1>1, <1>3, LogGrows
<1>6. LogIsOrderly'
  <2>1. Resolved(ref) # 0 => ref # NoID
    BY DEF Resolved
  <2>2. /\ e.changeset <= changesets'
        /\ e.target # 0 => e.changeset > 0 /\ e.ref # NoID
    BY <1>1, <1>4, <2>1
  <2>3. \A n \in Requests :
          /\ log[n].changeset <= changesets'
          /\ log[n].target # 0 => log[n].changeset > 0 /\ log[n].ref # NoID
    BY DEF IInv, LogIsOrderly
  <2> QED BY <1>5, <2>2, <2>3 DEF LogIsOrderly
<1>7. ChangesetIsAtomic'
  <2>1. \A n \in Requests : log[n].changeset = changesets => n \notin durable
    BY <1>1, <1>5 DEF IInv, EventsWait, TypeOK, Of
  <2>2. This \notin durable
    BY <1>5 DEF IInv, TypeOK
  <2> SUFFICES ASSUME NEW c \in 1 .. changesets,
                      NEW n \in Requests', log'[n].changeset = c,
                      n \in durable,
                      NEW k \in Requests', log'[k].changeset = c
               PROVE  log'[k].ok /\ (log'[k].method # "read" => k \in durable)
    BY DEF ChangesetIsAtomic, Of, IsWrite
  <2>3. n \in Requests /\ c # changesets /\ k \in Requests
    BY <1>4, <1>5, <2>1, <2>2
  <2> QED BY <2>3, <1>5 DEF IInv, ChangesetIsAtomic, Of, IsWrite
<1>8. CommittedIsRecorded'
  BY DEF IInv, CommittedIsRecorded, Elements, Increasing
<1>9. ReferencesStayInside'
  <2> SUFFICES ASSUME NEW n \in Requests', log'[n].target # 0
               PROVE  LET t == log'[n].target
                      IN /\ t < n
                         /\ log'[t].changeset = log'[n].changeset
                         /\ log'[t].id = log'[n].ref
                         /\ log'[t].method = "create" /\ log'[t].ok
                         /\ \A k \in Requests' :
                              /\ log'[k].changeset = log'[n].changeset
                              /\ log'[k].id = log'[n].ref
                              => k = t
    BY DEF ReferencesStayInside, Of
  <2>1. CASE n = This
    <3> DEFINE t == contentIDLocations[ref]
    <3>1. /\ log'[n] = e /\ ref \in ContentIDs /\ ref # NoID
          /\ e.target = t /\ t # 0
      BY <2>1, <1>4, <1>5 DEF Resolved, IDs
    <3>2. /\ t \in Of(changesets)
          /\ log[t].id = ref /\ log[t].method = "create" /\ log[t].ok
      BY <3>1, <1>1 DEF IInv, IDsAreSeen
    <3>3. t \in Requests /\ log[t].changeset = changesets
      BY <3>2 DEF Of
    <3>4. ref \in seenContentIDs
      BY <3>1, <3>2, <1>1 DEF IInv, IDsAreSeen
    <3>5. \A k \in Requests : log[k].changeset = changesets /\ log[k].id = ref
                                => k = t
      BY <3>1, <3>2, <1>1 DEF IInv, IDsAreSeen, Of
    <3> HIDE DEF t
    <3>6. t < n /\ log'[t] = log[t]
      BY <2>1, <3>3, <1>5
    <3>7. \A k \in Requests' :
            log'[k].changeset = changesets /\ log'[k].id = ref => k = t
      BY <3>4, <3>5, <1>1, <1>4, <1>5
    <3> QED BY <3>1, <3>2, <3>3, <3>6, <3>7, <1>4
  <2>2. CASE n \in Requests
    <3> DEFINE t == log[n].target
    <3>1. /\ log'[n] = log[n] /\ log[n] \in Entry /\ n \in Nat /\ t # 0
          /\ t \in Nat
      <4>1. log'[n] = log[n] /\ n \in Nat
        BY <2>2, <1>5
      <4>2. log[n] \in Entry
        BY <2>2, <1>1 DEF Requests
      <4> QED BY <4>1, <4>2 DEF Entry
    <3>2. /\ t < n /\ log[t].changeset = log[n].changeset
          /\ log[t].id = log[n].ref
          /\ log[t].method = "create" /\ log[t].ok
          /\ \A k \in Requests :
               log[k].changeset = log[n].changeset /\ log[k].id = log[n].ref
                 => k = t
      BY <2>2, <3>1 DEF IInv, ReferencesStayInside, Of
    <3>3. t \in Requests /\ log'[t] = log[t]
      <4>1. n <= Len(log) /\ Len(log) \in Nat
        BY <2>2, <1>1 DEF Requests
      <4>2. t \in Requests
        BY <4>1, <3>1, <3>2 DEF Requests
      <4> QED BY <4>2, <1>5
    <3>4. log[n].changeset = changesets => log[n].ref \in seenContentIDs
      <4> SUFFICES ASSUME log[n].changeset = changesets
                   PROVE  log[n].ref \in seenContentIDs
        OBVIOUS
      <4>1. log[n].ref # NoID
        BY <2>2, <3>1 DEF IInv, LogIsOrderly
      <4>2. t \in Of(changesets)
        BY <3>2, <3>3 DEF Of
      <4> QED BY <4>1, <4>2, <3>2, <1>1 DEF IInv, IDsAreSeen
    <3> HIDE DEF t
    <3>5. \A k \in Requests' :
            log'[k].changeset = log[n].changeset /\ log'[k].id = log[n].ref
              => k = t
      <4>1. \A k \in Requests :
              log'[k].changeset = log[n].changeset /\ log'[k].id = log[n].ref
                => k = t
        BY <3>2, <1>5
      <4>2. ~(log'[This].changeset = log[n].changeset
                /\ log'[This].id = log[n].ref)
        BY <3>4, <1>1, <1>4, <1>5
      <4> QED BY <4>1, <4>2, <1>5
    <3> QED BY <3>1, <3>2, <3>3, <3>5 DEF t
  <2> QED BY <2>1, <2>2, <1>5
<1> QED BY <1>1, <1>3, <1>4, <1>6, <1>7, <1>8, <1>9 DEF HistoryOK

\* The changeset fails without executing another request.
LEMMA FailSteps ==
  ASSUME IInv, ChangesetUnreadable \/ RejectInChangeset
  PROVE  IInv'
<1> USE MultipartAssumption
<1> DEFINE r == Response(changesets, 0, "error")
<1>1. /\ UNCHANGED <<log, durable, events, changesets, undone, answer,
                     seenContentIDs, contentIDLocations>>
      /\ phase = "changeset" /\ phase' = "batch"
      /\ responses' = responses \o Append(inner, r)
      /\ inner' = << >> /\ staged' = {} /\ pendingEvents' = << >>
      /\ parts' = parts \/ (parts < MaxParts /\ parts' = parts + 1)
  BY DEF ChangesetUnreadable, RejectInChangeset, Rollback, LeaveChangeset,
         ReadPart
<1>2. r \in ResponseType /\ r.status = "error" /\ r.changeset = changesets
  BY DEF ResponseType, Response, IInv, TypeOK
<1> HIDE DEF r
<1>3. /\ Append(inner, r) \in Seq(ResponseType)
      /\ Len(Append(inner, r)) = Len(inner) + 1 /\ Len(inner) \in Nat
  BY <1>2 DEF IInv, TypeOK
<1>4. /\ responses' \in Seq(ResponseType) /\ Len(responses) \in Nat
      /\ Len(responses') = Len(responses) + Len(inner) + 1
  BY <1>1, <1>3 DEF IInv, TypeOK
<1>5. TypeOK'
  BY <1>1, <1>4 DEF IInv, TypeOK, Requests
<1>6. HistoryOK'
  BY <1>1, HistoryKept, IInvParts
<1>7. OpenOK'
  BY <1>1, NoneOpen
<1>8. SuccessIsExecuted' /\ SuccessIsCommitted'
  BY <1>1, <1>2, FailureIsTold DEF IInv
<1>9. RunsAreAnswered' /\ ExecutedWithinLimit'
  BY <1>1, <1>4 DEF IInv, TypeOK, RunsAreAnswered, ExecutedWithinLimit
<1> QED BY <1>5, <1>6, <1>7, <1>8, <1>9
        DEF IInv, HistoryOK, OpenOK, AnswersOK

\* A request of the changeset fails.
LEMMA RequestFailsStep ==
  ASSUME IInv, RequestFails
  PROVE  IInv'
<1> USE MultipartAssumption
<1>1. PICK id \in IDs, m \in Methods, ref \in IDs :
        /\ Dispatch(id, m, ref, FALSE)
        /\ Rollback
        /\ LeaveChangeset(Append(inner, Response(changesets, This, "error")))
  BY DEF RequestFails
<1> DEFINE r == Response(changesets, This, "error")
<1>2. /\ UNCHANGED <<durable, events, changesets, undone, answer,
                     seenContentIDs, contentIDLocations>>
      /\ phase = "changeset" /\ phase' = "batch"
      /\ responses' = responses \o Append(inner, r)
      /\ inner' = << >> /\ staged' = {} /\ pendingEvents' = << >>
      /\ parts < MaxParts /\ parts' = parts + 1
      /\ Len(responses) + Len(inner) + 1 <= MaxBatchSize
  BY <1>1 DEF Dispatch, Admitted, Rollback, LeaveChangeset, ReadPart,
              HasCapacity
<1>3. /\ HistoryOK'
      /\ \E e \in Entry : log' = Append(log, e)
  BY <1>1, <1>2, DispatchKeepsHistory
<1>4. /\ log' \in Seq(Entry) /\ Len(log') = Len(log) + 1 /\ This \in Nat
      /\ Requests' = Requests \cup {This} /\ Len(log) \in Nat
  BY <1>3, LogGrows DEF IInv, TypeOK
<1>5. r \in ResponseType /\ r.status = "error" /\ r.changeset = changesets
  BY <1>4 DEF ResponseType, Response, IInv, TypeOK
<1> HIDE DEF r
<1>6. /\ Append(inner, r) \in Seq(ResponseType)
      /\ Len(Append(inner, r)) = Len(inner) + 1 /\ Len(inner) \in Nat
  BY <1>5 DEF IInv, TypeOK
<1>7. /\ responses' \in Seq(ResponseType) /\ Len(responses) \in Nat
      /\ Len(responses') = Len(responses) + Len(inner) + 1
  BY <1>2, <1>6 DEF IInv, TypeOK
<1>8. TypeOK'
  <2>1. events' \in Seq(Requests')
    BY <1>2, <1>4 DEF IInv, TypeOK
  <2>2. contentIDLocations' \in [ContentIDs -> 0 .. Len(log')]
    BY <1>2, <1>4 DEF IInv, TypeOK
  <2>3. durable' \subseteq Requests'
    BY <1>2, <1>4 DEF IInv, TypeOK
  <2> QED BY <1>2, <1>4, <1>7, <2>1, <2>2, <2>3 DEF IInv, TypeOK
<1>9. OpenOK'
  BY <1>2, NoneOpen
<1>10. SuccessIsExecuted' /\ SuccessIsCommitted'
  BY <1>2, <1>3, <1>5, FailureIsTold DEF IInv
<1>11. RunsAreAnswered' /\ ExecutedWithinLimit'
  BY <1>2, <1>4, <1>7
     DEF IInv, TypeOK, RunsAreAnswered, ExecutedWithinLimit
<1> QED BY <1>3, <1>8, <1>9, <1>10, <1>11
        DEF IInv, HistoryOK, OpenOK, AnswersOK

\* A request outside of changesets: a successful write commits at once and
\* is recorded after everything that is committed.
LEMMA ExecuteStep ==
  ASSUME IInv, ExecuteRequest
  PROVE  IInv'
<1> USE MultipartAssumption
<1>1. PICK m \in Methods, ok \in BOOLEAN :
        LET written == IF ok /\ m # "read" THEN {This} ELSE {}
        IN /\ ReadPart("batch")
           /\ HasRoom
           /\ log' = Append(log, [changeset |-> 0, id |-> NoID, method |-> m,
                                  ref |-> NoID, target |-> 0, ok |-> ok])
           /\ durable' = durable \cup written
           /\ events' = IF written = {} THEN events ELSE Append(events, This)
           /\ Respond(Response(0, This, IF ok THEN "ok" ELSE "error"))
           /\ UNCHANGED undone
  BY DEF ExecuteRequest
<1> DEFINE written == IF ok /\ m # "read" THEN {This} ELSE {}
           e == [changeset |-> 0, id |-> NoID, method |-> m,
                 ref |-> NoID, target |-> 0, ok |-> ok]
           r == Response(0, This, IF ok THEN "ok" ELSE "error")
<1>2. /\ UNCHANGED <<changesets, changeset, undone, phase, answer>>
      /\ phase = "batch"
      /\ responses' = Append(responses, r)
      /\ parts < MaxParts /\ parts' = parts + 1
      /\ Len(responses) + 1 <= MaxBatchSize
      /\ log' = Append(log, e)
  BY <1>1 DEF ReadPart, Respond, HasRoom
<1>3. /\ e \in Entry /\ e.changeset = 0 /\ e.target = 0 /\ e.method = m
  BY DEF Entry, IDs
<1>4. /\ durable' = durable \cup written
      /\ written \in SUBSET {This}
      /\ written = {} => events' = events
      /\ written = {This} => events' = Append(events, This)
      /\ ok /\ m # "read" => This \in written
  BY <1>1
<1> HIDE DEF e, written
<1>5. /\ log' \in Seq(Entry) /\ Len(log') = Len(log) + 1
      /\ This \in Nat /\ This \notin Requests
      /\ Requests' = Requests \cup {This}
      /\ log'[This] = e
      /\ \A n \in Requests : log'[n] = log[n] /\ n < This /\ n \in Nat
      /\ Len(log) \in Nat
  <2>1. log \in Seq(Entry) /\ Len(log) \in Nat
    BY DEF IInv, TypeOK
  <2>2. log' = Append(log, e) /\ e \in Entry
    BY <1>2, <1>3
  <2> QED BY <2>1, <2>2, LogGrows
<1>6. /\ r \in ResponseType /\ r.request = This
      /\ r.status = "ok" => ok
  BY <1>5 DEF ResponseType, Response
<1> HIDE DEF r
<1>7. events' \in Seq(Requests') /\ CommittedIsRecorded'
  <2>1. events \in Seq(Requests) /\ durable = Elements(events)
        /\ Increasing(events)
    BY DEF IInv, TypeOK, CommittedIsRecorded
  <2>2. CASE written = {}
    BY <2>1, <2>2, <1>4, <1>5 DEF CommittedIsRecorded, Elements, Increasing
  <2>3. CASE written = {This}
    <3> DEFINE new == This
    <3>0. events' = Append(events, new) /\ new \in Requests'
          /\ events \in Seq(Requests')
      BY <2>1, <2>3, <1>4, <1>5
    <3> HIDE DEF new
    <3>1. /\ Len(events) \in Nat /\ Len(events') = Len(events) + 1
          /\ \A k \in 1 .. Len(events) :
               events'[k] = events[k] /\ events[k] \in Requests
          /\ events'[Len(events) + 1] = new
          /\ events' \in Seq(Requests')
      BY <2>1, <3>0
    <3>2. Elements(events') = Elements(events) \cup {new}
      BY <3>1 DEF Elements
    <3>3. Increasing(events')
      <4>1. \A k \in 1 .. Len(events) : events[k] < new
        BY <3>1, <1>5 DEF new
      <4> QED BY <2>1, <3>1, <4>1 DEF Increasing
    <3> QED BY <2>1, <2>3, <3>1, <3>2, <3>3, <1>4
            DEF CommittedIsRecorded, Elements, Increasing, new
  <2> QED BY <2>2, <2>3, <1>4
<1>8. TypeOK'
  <2>1. responses' \in Seq(ResponseType)
    BY <1>2, <1>6 DEF IInv, TypeOK
  <2>2. contentIDLocations' \in [ContentIDs -> 0 .. Len(log')]
    BY <1>2, <1>5 DEF IInv, TypeOK, changeset
  <2>3. durable' \subseteq Requests' /\ staged' \subseteq Requests'
    BY <1>2, <1>4, <1>5 DEF IInv, TypeOK, changeset
  <2>4. pendingEvents' \in Seq(Requests')
    BY <1>2, <1>5 DEF IInv, TypeOK, changeset
  <2> QED BY <1>2, <1>5, <1>7, <2>1, <2>2, <2>3, <2>4
          DEF IInv, TypeOK, changeset
<1>9. HistoryOK'
  <2>1. LogIsOrderly'
    <3>1. e.changeset <= changesets' /\ e.target = 0
      BY <1>2, <1>3 DEF IInv, TypeOK
    <3>2. \A n \in Requests :
            /\ log[n].changeset <= changesets'
            /\ log[n].target # 0 => log[n].changeset > 0 /\ log[n].ref # NoID
      BY <1>2 DEF IInv, LogIsOrderly
    <3> QED BY <3>1, <3>2, <1>5 DEF LogIsOrderly
  <2>2. ChangesetIsAtomic'
    <3> SUFFICES ASSUME NEW c \in 1 .. changesets,
                        NEW n \in Requests', log'[n].changeset = c,
                        n \in durable',
                        NEW k \in Requests', log'[k].changeset = c
                 PROVE  log'[k].ok
                          /\ (log'[k].method # "read" => k \in durable')
      BY <1>2 DEF ChangesetIsAtomic, Of, IsWrite
    <3>1. c # 0
      BY DEF IInv, TypeOK
    <3>2. n \in Requests /\ k \in Requests /\ n \in durable
      BY <3>1, <1>3, <1>4, <1>5
    <3> QED BY <3>2, <1>4, <1>5 DEF IInv, ChangesetIsAtomic, Of, IsWrite
  <2>3. ReferencesStayInside'
    <3> SUFFICES ASSUME NEW n \in Requests', log'[n].target # 0
                 PROVE  LET t == log'[n].target
                        IN /\ t < n
                           /\ log'[t].changeset = log'[n].changeset
                           /\ log'[t].id = log'[n].ref
                           /\ log'[t].method = "create" /\ log'[t].ok
                           /\ \A k \in Requests' :
                                /\ log'[k].changeset = log'[n].changeset
                                /\ log'[k].id = log'[n].ref
                                => k = t
      BY DEF ReferencesStayInside, Of
    <3> DEFINE t == log[n].target
    <3>1. /\ n \in Requests /\ log'[n] = log[n] /\ n \in Nat /\ t # 0
      BY <1>3, <1>5
    <3>2. log[n] \in Entry
      BY <3>1 DEF Requests, IInv, TypeOK
    <3>3. /\ t < n /\ log[t].changeset = log[n].changeset
          /\ log[t].id = log[n].ref
          /\ log[t].method = "create" /\ log[t].ok
          /\ \A k \in Requests :
               log[k].changeset = log[n].changeset /\ log[k].id = log[n].ref
                 => k = t
      BY <3>1 DEF IInv, ReferencesStayInside, Of
    <3>4. log[n].changeset > 0
      BY <3>1 DEF IInv, LogIsOrderly
    <3>5. t \in Requests
      <4>1. n <= Len(log) /\ t \in Nat
        BY <3>1, <3>2 DEF Requests, Entry
      <4> QED BY <4>1, <3>1, <3>3, <1>5 DEF Requests
    <3> HIDE DEF t
    <3>6. \A k \in Requests' :
            log'[k].changeset = log[n].changeset /\ log'[k].id = log[n].ref
              => k = t
      BY <3>3, <3>4, <1>3, <1>5
    <3>7. log'[t] = log[t]
      BY <3>5, <1>5
    <3> QED BY <3>1, <3>3, <3>6, <3>7 DEF t
  <2> QED BY <2>1, <2>2, <2>3, <1>7 DEF HistoryOK
<1>10. OpenOK'
  BY <1>2, NoneOpen DEF IInv, NothingStaged, changeset
<1>11. SuccessIsExecuted' /\ SuccessIsCommitted'
  <2>1. /\ responses' = responses \o <<r>>
        /\ <<r>> \in Seq(ResponseType) /\ Len(<<r>>) = 1 /\ <<r>>[1] = r
    BY <1>2, <1>6, AppendResponse DEF IInv, TypeOK
  <2>2. r.status = "ok" => /\ r.request \in 1 .. Len(log')
                           /\ \/ log'[r.request].method = "read"
                              \/ r.request \in durable'
    BY <1>3, <1>4, <1>5, <1>6 DEF This
  <2>3. durable \subseteq durable'
    BY <1>4
  <2> DEFINE rs == <<r>>
  <2>4. \A k \in 1 .. Len(rs) : rs[k].status = "ok" =>
           /\ rs[k].request \in 1 .. Len(log')
           /\ \/ log'[rs[k].request].method = "read"
              \/ rs[k].request \in durable'
    BY <2>1, <2>2
  <2> HIDE DEF rs
  <2>5. responses' = responses \o rs /\ rs \in Seq(ResponseType)
    BY <2>1 DEF rs
  <2> QED BY <1>2, <1>3, <2>3, <2>4, <2>5, ResponsesGrow DEF IInv
<1>12. RunsAreAnswered' /\ ExecutedWithinLimit'
  <2>1. Len(responses') = Len(responses) + 1 /\ Len(responses) \in Nat
    BY <1>2 DEF IInv, TypeOK
  <2>2. inner = << >> /\ inner' = << >>
    BY <1>2 DEF IInv, NothingStaged, changeset
  <2> QED BY <1>2, <1>5, <2>1, <2>2
          DEF IInv, TypeOK, RunsAreAnswered, ExecutedWithinLimit
<1> QED BY <1>8, <1>9, <1>10, <1>11, <1>12
        DEF IInv, HistoryOK, OpenOK, AnswersOK

\* A changeset begins with nothing in it.
LEMMA OpenStep ==
  ASSUME IInv, OpenChangeset
  PROVE  IInv'
<1> USE MultipartAssumption
<1>1. /\ UNCHANGED <<log, durable, events, undone, answer, responses>>
      /\ phase = "batch" /\ phase' = "changeset"
      /\ changesets' = changesets + 1 /\ changesets \in Nat
      /\ inner' = << >> /\ seenContentIDs' = {}
      /\ contentIDLocations' = NoLocations
      /\ staged' = {} /\ pendingEvents' = << >>
      /\ parts < MaxParts /\ parts' = parts + 1
      /\ inner = << >>
  BY DEF OpenChangeset, ReadPart, effects, IInv, TypeOK, NothingStaged
<1>2. TypeOK'
  <2>1. contentIDLocations' \in [ContentIDs -> 0 .. Len(log')]
    BY <1>1 DEF NoLocations, IInv, TypeOK
  <2> QED BY <1>1, <2>1 DEF IInv, TypeOK, Requests
<1>3. \A n \in Requests : log[n].changeset \in Nat
                           /\ log[n].changeset <= changesets
  <2>1. \A n \in Requests : log[n] \in Entry
    BY DEF IInv, TypeOK, Requests
  <2> QED BY <2>1 DEF IInv, LogIsOrderly, Entry
<1>4. \A n \in Requests' : log'[n].changeset # changesets'
  BY <1>1, <1>3 DEF Requests
<1>5. HistoryOK'
  <2>1. LogIsOrderly'
    BY <1>1, <1>3 DEF IInv, LogIsOrderly, Requests
  <2>2. ChangesetIsAtomic'
    <3> SUFFICES ASSUME NEW c \in 1 .. changesets',
                        NEW n \in Requests, log[n].changeset = c,
                        n \in durable,
                        NEW k \in Requests, log[k].changeset = c
                 PROVE  log[k].ok /\ (log[k].method # "read" => k \in durable)
      BY <1>1 DEF ChangesetIsAtomic, Of, IsWrite, Requests
    <3>1. c \in 1 .. changesets
      BY <1>1, <1>3
    <3> QED BY <3>1 DEF IInv, ChangesetIsAtomic, Of, IsWrite
  <2>3. CommittedIsRecorded'
    BY <1>1 DEF IInv, CommittedIsRecorded, Elements, Increasing
  <2>4. ReferencesStayInside'
    BY <1>1 DEF IInv, ReferencesStayInside, Of, Requests
  <2> QED BY <2>1, <2>2, <2>3, <2>4 DEF HistoryOK
<1>6. OpenOK'
  <2>1. NothingStaged'
    BY <1>1 DEF NothingStaged
  <2>2. OpenIsStaged'
    BY <1>1, <1>4 DEF OpenIsStaged, Of
  <2>3. EventsWait'
    BY <1>1, <1>4 DEF EventsWait, Of, Elements, Increasing
  <2>4. IDsAreSeen'
    BY <1>1, <1>4 DEF IDsAreSeen, Of, NoLocations
  <2> QED BY <2>1, <2>2, <2>3, <2>4 DEF OpenOK
<1>7. AnswersOK'
  BY <1>1, AnswersKept, IInvParts
<1> QED BY <1>2, <1>5, <1>6, <1>7 DEF IInv, HistoryOK, OpenOK, AnswersOK

\* The changeset is dropped with the whole batch.
LEMMA AbortSteps ==
  ASSUME IInv, ChangesetTooLarge \/ NewRequestPanics
  PROVE  IInv'
<1> USE MultipartAssumption
<1>1. /\ UNCHANGED <<log, durable, events, undone, changesets, responses,
                     inner, seenContentIDs, contentIDLocations>>
      /\ phase' = "done" /\ answer' \in {answer, "tooLarge"}
      /\ staged' = {} /\ pendingEvents' = << >>
      /\ parts < MaxParts /\ parts' = parts + 1
  BY DEF ChangesetTooLarge, NewRequestPanics, ReadPart, Rollback
<1>2. TypeOK'
  BY <1>1 DEF IInv, TypeOK, Requests
<1>3. HistoryOK'
  BY <1>1, HistoryKept, IInvParts
<1>4. OpenOK'
  BY <1>1, NoneOpen
<1>5. AnswersOK'
  BY <1>1, AnswersKept, IInvParts
<1> QED BY <1>2, <1>3, <1>4, <1>5 DEF IInv, HistoryOK, OpenOK, AnswersOK

\* Commit fails: one response stands for those of the changeset.
LEMMA CommitFailsStep ==
  ASSUME IInv, CommitFails
  PROVE  IInv'
<1> USE MultipartAssumption
<1> DEFINE r == Response(changesets, 0, "error")
           rs == <<r>>
<1>1. /\ UNCHANGED <<log, durable, events, changesets, answer, parts,
                     seenContentIDs, contentIDLocations>>
      /\ phase = "changeset" /\ phase' = "batch"
      /\ responses' = responses \o rs
      /\ inner' = << >> /\ staged' = {} /\ pendingEvents' = << >>
      /\ undone' = undone + Len(inner)
  BY DEF CommitFails, LeaveChangeset
<1>2. r \in ResponseType /\ r.status = "error"
  BY DEF ResponseType, Response, IInv, TypeOK
<1> HIDE DEF r
<1>3. /\ rs \in Seq(ResponseType) /\ Len(rs) = 1 /\ rs[1] = r
      /\ Len(inner) \in Nat /\ Len(responses) \in Nat
  BY <1>2 DEF IInv, TypeOK
<1> HIDE DEF rs
<1>4. /\ responses' \in Seq(ResponseType)
      /\ Len(responses') = Len(responses) + 1
  <2>1. responses \in Seq(ResponseType)
    BY DEF IInv, TypeOK
  <2>2. /\ responses \o rs \in Seq(ResponseType)
        /\ Len(responses \o rs) = Len(responses) + Len(rs)
    <3>1. rs \in Seq(ResponseType)
      BY <1>3
    <3> QED BY <2>1, <3>1, ConcatProperties
  <2> QED BY <1>1, <1>3, <2>2
<1>5. TypeOK'
  BY <1>1, <1>3, <1>4 DEF IInv, TypeOK, Requests
<1>6. HistoryOK'
  BY <1>1, HistoryKept, IInvParts
<1>7. OpenOK'
  BY <1>1, NoneOpen
<1>8. SuccessIsExecuted' /\ SuccessIsCommitted'
  <2>1. \A k \in 1 .. Len(rs) : rs[k].status # "ok"
    BY <1>2, <1>3
  <2> QED BY <1>1, <1>3, <2>1, ResponsesGrow DEF IInv
<1>9. RunsAreAnswered' /\ ExecutedWithinLimit'
  BY <1>1, <1>3, <1>4
     DEF IInv, TypeOK, RunsAreAnswered, ExecutedWithinLimit
<1> QED BY <1>5, <1>6, <1>7, <1>8, <1>9
        DEF IInv, HistoryOK, OpenOK, AnswersOK

\* Commit: the staged writes are all the writes of the changeset, and their
\* events come after the recorded ones.
LEMMA CommitStep ==
  ASSUME IInv, Commit
  PROVE  IInv'
<1> USE MultipartAssumption
<1>1. /\ UNCHANGED <<log, undone, changesets, answer, parts,
                     seenContentIDs, contentIDLocations>>
      /\ phase = "changeset" /\ phase' = "batch"
      /\ durable' = durable \cup staged
      /\ events' = events \o pendingEvents
      /\ responses' = responses \o inner
      /\ inner' = << >> /\ staged' = {} /\ pendingEvents' = << >>
  BY DEF Commit, LeaveChangeset
<1>2. /\ responses \in Seq(ResponseType) /\ inner \in Seq(ResponseType)
      /\ Len(responses) \in Nat /\ Len(inner) \in Nat
      /\ responses' \in Seq(ResponseType)
      /\ Len(responses') = Len(responses) + Len(inner)
  BY <1>1 DEF IInv, TypeOK
<1>3. /\ events \in Seq(Requests) /\ pendingEvents \in Seq(Requests)
      /\ Len(events) \in Nat /\ Len(pendingEvents) \in Nat
      /\ events' \in Seq(Requests)
      /\ Len(events') = Len(events) + Len(pendingEvents)
      /\ \A k \in 1 .. Len(events) : events'[k] = events[k]
      /\ \A k \in 1 .. Len(pendingEvents) :
           events'[Len(events) + k] = pendingEvents[k]
  BY <1>1 DEF IInv, TypeOK
<1>4. /\ staged = {n \in Requests : log[n].changeset = changesets
                                    /\ log[n].method # "read"}
      /\ \A n \in Requests : log[n].changeset = changesets => log[n].ok
      /\ \A n \in durable : n \in Requests /\ log[n].changeset # changesets
  BY <1>1 DEF IInv, OpenIsStaged, EventsWait, Of, IsWrite, TypeOK, Requests
<1>5. CommittedIsRecorded'
  <2>1. /\ durable = Elements(events) /\ Increasing(events)
        /\ staged = Elements(pendingEvents) /\ Increasing(pendingEvents)
    BY <1>1 DEF IInv, CommittedIsRecorded, EventsWait
  <2>2. Elements(events') = Elements(events) \cup Elements(pendingEvents)
    <3>1. ASSUME NEW x \in Elements(events')
          PROVE  x \in Elements(events) \cup Elements(pendingEvents)
      <4>1. PICK k \in 1 .. Len(events') : x = events'[k]
        BY <3>1 DEF Elements
      <4>2. CASE k \in 1 .. Len(events)
        BY <4>1, <4>2, <1>3 DEF Elements
      <4>3. CASE k \notin 1 .. Len(events)
        <5>1. /\ k - Len(events) \in 1 .. Len(pendingEvents)
              /\ x = pendingEvents[k - Len(events)]
          BY <4>1, <4>3, <1>3
        <5> QED BY <5>1 DEF Elements
      <4> QED BY <4>2, <4>3
    <3>2. Elements(events) \subseteq Elements(events')
      <4> SUFFICES ASSUME NEW k \in 1 .. Len(events)
                   PROVE  events[k] \in Elements(events')
        BY DEF Elements
      <4>1. k \in 1 .. Len(events') /\ events'[k] = events[k]
        BY <1>3
      <4> QED BY <4>1 DEF Elements
    <3>3. Elements(pendingEvents) \subseteq Elements(events')
      <4> SUFFICES ASSUME NEW k \in 1 .. Len(pendingEvents)
                   PROVE  pendingEvents[k] \in Elements(events')
        BY DEF Elements
      <4>1. Len(events) + k \in 1 .. Len(events')
        BY <1>3
      <4> QED BY <4>1, <1>3 DEF Elements
    <3> QED BY <3>1, <3>2, <3>3
  <2>3. Increasing(events')
    <3> SUFFICES ASSUME NEW j \in 1 .. Len(events'),
                        NEW k \in 1 .. Len(events'), j < k
                 PROVE  events'[j] < events'[k]
      BY DEF Increasing
    <3>1. CASE k \in 1 .. Len(events)
      BY <3>1, <2>1, <1>3 DEF Increasing
    <3>2. CASE k \notin 1 .. Len(events) /\ j \in 1 .. Len(events)
      <4>0. k - Len(events) \in 1 .. Len(pendingEvents)
        BY <3>2, <1>3
      <4>1. /\ k - Len(events) \in 1 .. Len(pendingEvents)
            /\ events'[k] = pendingEvents[k - Len(events)]
        BY <4>0, <1>3
      <4>2. events'[k] \in staged /\ events'[j] \in durable
        BY <4>1, <3>2, <2>1, <1>3 DEF Elements
      <4>3. events'[k] \in Of(changesets)
        BY <4>2, <1>4 DEF Of
      <4> QED BY <4>2, <4>3, <1>1 DEF IInv, EventsWait
    <3>3. CASE j \notin 1 .. Len(events)
      <4>0. /\ k - Len(events) \in 1 .. Len(pendingEvents)
            /\ j - Len(events) \in 1 .. Len(pendingEvents)
            /\ j - Len(events) < k - Len(events)
        BY <3>3, <1>3
      <4>1. /\ events'[k] = pendingEvents[k - Len(events)]
            /\ events'[j] = pendingEvents[j - Len(events)]
        BY <4>0, <1>3
      <4> QED BY <4>0, <4>1, <2>1 DEF Increasing
    <3> QED BY <3>1, <3>2, <3>3, <1>3
  <2> QED BY <2>1, <2>2, <2>3, <1>1
          DEF CommittedIsRecorded, Elements, Increasing
<1>6. HistoryOK'
  <2>1. LogIsOrderly'
    BY <1>1 DEF IInv, LogIsOrderly, Requests
  <2>2. ChangesetIsAtomic'
    <3> SUFFICES ASSUME NEW c \in 1 .. changesets,
                        NEW n \in Requests, log[n].changeset = c,
                        n \in durable',
                        NEW k \in Requests, log[k].changeset = c
                 PROVE  log[k].ok
                          /\ (log[k].method # "read" => k \in durable')
      BY <1>1 DEF ChangesetIsAtomic, Of, IsWrite, Requests
    <3>1. CASE c = changesets
      BY <3>1, <1>1, <1>4
    <3>2. CASE c # changesets
      <4>1. n \in durable
        BY <3>2, <1>1, <1>4
      <4> QED BY <4>1, <1>1 DEF IInv, ChangesetIsAtomic, Of, IsWrite
    <3> QED BY <3>1, <3>2
  <2>3. ReferencesStayInside'
    BY <1>1 DEF IInv, ReferencesStayInside, Of, Requests
  <2> QED BY <2>1, <2>2, <2>3, <1>5 DEF HistoryOK
<1>7. OpenOK'
  BY <1>1, NoneOpen
<1>8. TypeOK'
  <2>1. durable' \subseteq Requests'
    BY <1>1 DEF IInv, TypeOK, Requests
  <2>2. events' \in Seq(Requests')
    BY <1>1, <1>3 DEF Requests
  <2> QED BY <1>1, <1>2, <2>1, <2>2 DEF IInv, TypeOK, Requests
<1>9. SuccessIsExecuted' /\ SuccessIsCommitted'
  <2>1. ASSUME NEW k \in 1 .. Len(inner)
        PROVE  /\ inner[k].request \in 1 .. Len(log')
               /\ \/ log'[inner[k].request].method = "read"
                  \/ inner[k].request \in durable'
    <3>1. /\ inner[k].request \in Requests
          /\ log[inner[k].request].changeset = changesets
      BY <1>1 DEF IInv, OpenIsStaged, Of
    <3> QED BY <3>1, <1>1, <1>4 DEF Requests
  <2>2. durable \subseteq durable'
    BY <1>1
  <2> QED BY <1>1, <1>2, <2>1, <2>2, ResponsesGrow DEF IInv
<1>10. RunsAreAnswered' /\ ExecutedWithinLimit'
  BY <1>1, <1>2 DEF IInv, TypeOK, RunsAreAnswered, ExecutedWithinLimit
<1> QED BY <1>6, <1>7, <1>8, <1>9, <1>10
        DEF IInv, HistoryOK, OpenOK, AnswersOK

\* A request of the changeset succeeds: it is staged, its event waits behind
\* the earlier ones and its Content-ID is new.
LEMMA RequestSucceedsStep ==
  ASSUME IInv, RequestSucceeds
  PROVE  IInv'
<1> USE MultipartAssumption
<1>1. PICK id \in IDs, m \in Methods, ref \in IDs :
        /\ Dispatch(id, m, ref, TRUE)
        /\ inner' = Append(inner, Response(changesets, This, "ok"))
        /\ seenContentIDs' = seenContentIDs \cup ({id} \ {NoID})
        /\ contentIDLocations' =
             [i \in ContentIDs |-> IF i = id /\ m = "create" THEN This
                                   ELSE contentIDLocations[i]]
        /\ staged' = IF m = "read" THEN staged ELSE staged \cup {This}
        /\ pendingEvents' = IF m = "read" THEN pendingEvents
                            ELSE Append(pendingEvents, This)
        /\ UNCHANGED <<phase, answer, changesets, responses, durable, events,
                       undone>>
  BY DEF RequestSucceeds, Stage
<1>2. /\ phase = "changeset" /\ phase' = "changeset"
      /\ parts < MaxParts /\ parts' = parts + 1
      /\ Len(responses) + Len(inner) + 1 <= MaxBatchSize
      /\ id \notin seenContentIDs
  BY <1>1 DEF Dispatch, Admitted, ReadPart, HasCapacity, DuplicateID
<1>3. /\ HistoryOK'
      /\ \E e \in Entry :
           /\ log' = Append(log, e)
           /\ e.changeset = changesets /\ e.id = id /\ e.method = m
           /\ e.ok = TRUE
  BY <1>1, DispatchKeepsHistory
<1>4. PICK e \in Entry :
        /\ log' = Append(log, e)
        /\ e.changeset = changesets /\ e.id = id /\ e.method = m
        /\ e.ok = TRUE
  BY <1>3
<1>5. log \in Seq(Entry) /\ Len(log) \in Nat /\ changesets \in Nat
  BY DEF IInv, TypeOK
<1>6. /\ log' \in Seq(Entry) /\ Len(log') = Len(log) + 1
      /\ This \in Nat /\ This \notin Requests
      /\ Requests' = Requests \cup {This}
      /\ log'[This] = e
      /\ \A n \in Requests : log'[n] = log[n] /\ n < This /\ n \in Nat
  BY <1>4, <1>5, LogGrows
<1> DEFINE new == This
           r == Response(changesets, new, "ok")
<1>7. new \in Nat /\ new \in 1 .. Len(log')
  BY <1>5, <1>6 DEF This
<1>8. /\ r \in ResponseType /\ r.changeset = changesets /\ r.request = new
  BY <1>5, <1>7 DEF ResponseType, Response
<1>9. inner' = Append(inner, r)
  BY <1>1
<1> HIDE DEF r
<1>10. /\ inner' \in Seq(ResponseType) /\ Len(inner) \in Nat
       /\ Len(inner') = Len(inner) + 1
       /\ \A k \in 1 .. Len(inner) : inner'[k] = inner[k]
       /\ inner'[Len(inner) + 1] = r
  BY <1>8, <1>9 DEF IInv, TypeOK
<1>11. \/ pendingEvents' = pendingEvents
       \/ pendingEvents' = Append(pendingEvents, new)
  BY <1>1
<1>12. /\ m = "read" => staged' = staged /\ pendingEvents' = pendingEvents
       /\ m # "read" => /\ staged' = staged \cup {new}
                        /\ pendingEvents' = Append(pendingEvents, new)
  BY <1>1
<1>13. pendingEvents \in Seq(Requests) /\ pendingEvents \in Seq(Requests')
  BY <1>6 DEF IInv, TypeOK
<1>14. new \in Requests'
  BY <1>6
<1> HIDE DEF new
<1>15. TypeOK'
  <2>1. pendingEvents' \in Seq(Requests')
    BY <1>11, <1>13, <1>14
  <2>2. events' \in Seq(Requests')
    BY <1>1, <1>6 DEF IInv, TypeOK
  <2>3. contentIDLocations' \in [ContentIDs -> 0 .. Len(log')]
    <3>1. contentIDLocations \in [ContentIDs -> 0 .. Len(log)]
      BY DEF IInv, TypeOK
    <3> QED BY <3>1, <1>1, <1>5, <1>6, <1>7 DEF new
  <2>4. durable' \subseteq Requests' /\ staged' \subseteq Requests'
    BY <1>1, <1>6 DEF IInv, TypeOK
  <2>5. seenContentIDs' \subseteq ContentIDs
    BY <1>1 DEF IInv, TypeOK, IDs
  <2> QED BY <1>1, <1>2, <1>6, <1>10, <2>1, <2>2, <2>3, <2>4, <2>5
          DEF IInv, TypeOK
<1>16. OpenOK'
  <2>1. NothingStaged'
    BY <1>2 DEF NothingStaged
  <2>2. \A n \in Requests' : log'[n].changeset = changesets =>
          n = new \/ (n \in Requests /\ log[n].changeset = changesets)
    BY <1>6 DEF new
  <2>3. OpenIsStaged'
    <3>1. changesets' > 0
      BY <1>1, <1>2 DEF IInv, OpenIsStaged
    <3>2. staged' = {n \in Requests' : log'[n].changeset = changesets
                                       /\ log'[n].method # "read"}
      <4>1. staged = {n \in Requests : log[n].changeset = changesets
                                       /\ log[n].method # "read"}
        BY <1>2 DEF IInv, OpenIsStaged, Of, IsWrite
      <4>2. staged' \subseteq Requests'
        BY <1>15 DEF TypeOK
      <4>3. ASSUME NEW n \in Requests'
            PROVE  n \in staged' <=> log'[n].changeset = changesets
                                     /\ log'[n].method # "read"
        <5>1. CASE n \in Requests
          BY <5>1, <4>1, <1>6, <1>12 DEF new
        <5>2. CASE n = new
          <6>1. log'[n] = e /\ n \notin staged
            BY <5>2, <4>1, <1>6 DEF new
          <6> QED BY <6>1, <5>2, <1>4, <1>12
        <5> QED BY <5>1, <5>2, <1>6 DEF new
      <4> QED BY <4>2, <4>3
    <3>3. \A n \in Requests' : log'[n].changeset = changesets => log'[n].ok
      <4>1. \A n \in Requests : log[n].changeset = changesets => log[n].ok
        BY <1>2 DEF IInv, OpenIsStaged, Of
      <4> QED BY <4>1, <1>4, <1>6
    <3>4. \A k \in 1 .. Len(inner') :
            /\ inner'[k].changeset = changesets
            /\ inner'[k].request \in Requests'
            /\ log'[inner'[k].request].changeset = changesets
      <4> SUFFICES ASSUME NEW k \in 1 .. Len(inner')
                   PROVE  /\ inner'[k].changeset = changesets
                          /\ inner'[k].request \in Requests'
                          /\ log'[inner'[k].request].changeset = changesets
        OBVIOUS
      <4>1. CASE k \in 1 .. Len(inner)
        <5>1. /\ inner[k].changeset = changesets
              /\ inner[k].request \in Requests
              /\ log[inner[k].request].changeset = changesets
          BY <4>1, <1>2 DEF IInv, OpenIsStaged, Of
        <5> QED BY <4>1, <5>1, <1>6, <1>10
      <4>2. CASE k \notin 1 .. Len(inner)
        <5>1. k = Len(inner) + 1
          BY <4>2, <1>10
        <5> QED BY <5>1, <1>4, <1>6, <1>8, <1>10 DEF new
      <4> QED BY <4>1, <4>2
    <3> QED BY <3>1, <3>2, <3>3, <3>4, <1>1 DEF OpenIsStaged, Of, IsWrite
  <2>4. EventsWait'
    <3>1. /\ Elements(pendingEvents) = staged /\ Increasing(pendingEvents)
          /\ staged \subseteq Requests
      BY <1>2 DEF IInv, EventsWait, TypeOK
    <3>2. Elements(pendingEvents') = staged' /\ Increasing(pendingEvents')
      <4>1. CASE m = "read"
        BY <4>1, <3>1, <1>12 DEF Elements, Increasing
      <4>2. CASE m # "read"
        <5>1. /\ Len(pendingEvents) \in Nat
              /\ Len(pendingEvents') = Len(pendingEvents) + 1
              /\ \A k \in 1 .. Len(pendingEvents) :
                   /\ pendingEvents'[k] = pendingEvents[k]
                   /\ pendingEvents[k] \in Requests
              /\ pendingEvents'[Len(pendingEvents) + 1] = new
          BY <4>2, <1>12, <1>13
        <5>2. Elements(pendingEvents') = Elements(pendingEvents) \cup {new}
          BY <5>1 DEF Elements
        <5>3. Increasing(pendingEvents')
          <6>1. \A k \in 1 .. Len(pendingEvents) : pendingEvents[k] < new
            BY <5>1, <1>6 DEF new
          <6> QED BY <3>1, <5>1, <6>1 DEF Increasing
        <5> QED BY <4>2, <5>2, <5>3, <3>1, <1>12
      <4> QED BY <4>1, <4>2
    <3>3. \A n \in durable, k \in Requests' :
            log'[k].changeset = changesets => n < k
      <4>1. \A n \in durable : n < new
        BY <1>6 DEF IInv, TypeOK, new
      <4>2. \A n \in durable, k \in Requests :
              log[k].changeset = changesets => n < k
        BY <1>2 DEF IInv, EventsWait, Of
      <4> QED BY <4>1, <4>2, <2>2
    <3> QED BY <3>2, <3>3, <1>1 DEF EventsWait, Of, Elements, Increasing
  <2>5. IDsAreSeen'
    <3>1. \A n \in Requests : log[n].changeset = changesets =>
            log[n].id \in seenContentIDs \cup {NoID}
      BY <1>2 DEF IInv, IDsAreSeen, Of
    <3>2. \A n \in Requests' : log'[n].changeset = changesets =>
            log'[n].id \in seenContentIDs' \cup {NoID}
      BY <3>1, <1>1, <1>4, <1>6
    <3>3. \A j, n \in Requests' :
            /\ log'[j].changeset = changesets /\ log'[n].changeset = changesets
            /\ log'[j].id = log'[n].id /\ log'[j].id # NoID
            => j = n
      <4>1. \A j, n \in Requests :
              /\ log[j].changeset = changesets /\ log[n].changeset = changesets
              /\ log[j].id = log[n].id /\ log[j].id # NoID
              => j = n
        BY <1>2 DEF IInv, IDsAreSeen, Of
      <4>2. \A n \in Requests : log[n].changeset = changesets =>
              log[n].id # id \/ id = NoID
        BY <3>1, <1>2
      <4> SUFFICES ASSUME NEW j \in Requests', NEW n \in Requests',
                          log'[j].changeset = changesets,
                          log'[n].changeset = changesets,
                          log'[j].id = log'[n].id, log'[j].id # NoID
                   PROVE  j = n
        OBVIOUS
      <4>3. CASE j \in Requests /\ n \in Requests
        BY <4>1, <4>3, <1>6
      <4>4. CASE j \in Requests /\ n = This
        BY <4>2, <4>4, <1>4, <1>6
      <4>5. CASE j = This /\ n \in Requests
        BY <4>2, <4>5, <1>4, <1>6
      <4> QED BY <4>3, <4>4, <4>5, <1>6
    <3>4. ASSUME NEW i \in ContentIDs, contentIDLocations'[i] # 0
          PROVE  LET t == contentIDLocations'[i]
                 IN /\ t \in Requests' /\ log'[t].changeset = changesets
                    /\ log'[t].id = i /\ log'[t].method = "create"
                    /\ log'[t].ok
      <4>1. CASE i = id /\ m = "create"
        <5>1. contentIDLocations'[i] = This
          BY <4>1, <1>1
        <5> QED BY <4>1, <5>1, <1>4, <1>6
      <4>2. CASE ~(i = id /\ m = "create")
        <5> DEFINE t == contentIDLocations[i]
        <5>1. contentIDLocations'[i] = t
          BY <4>2, <1>1
        <5>2. /\ t \in Requests /\ log[t].changeset = changesets
              /\ log[t].id = i /\ log[t].method = "create" /\ log[t].ok
          BY <5>1, <3>4, <1>2 DEF IInv, IDsAreSeen, Of
        <5> HIDE DEF t
        <5> QED BY <5>1, <5>2, <1>6
      <4> QED BY <4>1, <4>2
    <3> QED BY <3>2, <3>3, <3>4, <1>1 DEF IDsAreSeen, Of
  <2> QED BY <2>1, <2>3, <2>4, <2>5 DEF OpenOK
<1>17. SuccessIsExecuted' /\ SuccessIsCommitted'
  <2>1. /\ << >> \in Seq(ResponseType) /\ Len(<< >>) = 0
        /\ responses' = responses \o << >>
    BY <1>1, ConcatEmptySeq DEF IInv, TypeOK
  <2>2. durable \subseteq durable'
    BY <1>1
  <2> DEFINE rs == << >>
  <2>3. /\ rs \in Seq(ResponseType) /\ responses' = responses \o rs
        /\ \A k \in 1 .. Len(rs) : FALSE
    BY <2>1
  <2> HIDE DEF rs
  <2> QED BY <1>4, <2>2, <2>3, ResponsesGrow DEF IInv
<1>18. RunsAreAnswered' /\ ExecutedWithinLimit'
  BY <1>1, <1>2, <1>5, <1>6, <1>10
     DEF IInv, TypeOK, RunsAreAnswered, ExecutedWithinLimit
<1> QED BY <1>3, <1>15, <1>16, <1>17, <1>18
        DEF IInv, HistoryOK, OpenOK, AnswersOK

\* IInv is an invariant: what HandleBatch and processChangeset keep true
\* between any two parts of a body.
THEOREM BatchInvariance == Spec => []IInv
<1>1. Init => IInv
  BY InvInit
<1>2. IInv /\ [Next]_vars => IInv'
  <2> SUFFICES ASSUME IInv, [Next]_vars PROVE IInv'
    OBVIOUS
  <2>1. CASE UNCHANGED vars
    <3>1. UNCHANGED <<phase, answer, parts, changesets, responses, inner,
                      seenContentIDs, contentIDLocations, staged,
                      pendingEvents, log, durable, events, undone>>
      BY <2>1 DEF vars, outer, changeset, effects
    <3>2. TypeOK'
      BY <3>1 DEF IInv, TypeOK, Requests
    <3>3. HistoryOK'
      BY <3>1, HistoryKept, IInvParts
    <3>4. OpenOK'
      BY <3>1 DEF IInv, OpenOK, NothingStaged, OpenIsStaged, EventsWait,
                  IDsAreSeen, Of, IsWrite, Requests, Elements, Increasing
    <3>5. AnswersOK'
      BY <3>1, AnswersKept, IInvParts
    <3> QED BY <3>2, <3>3, <3>4, <3>5 DEF IInv, HistoryOK, OpenOK, AnswersOK
  <2>2. CASE \/ RejectBatch \/ StartBatch \/ BatchUnreadable \/ BatchTooLarge
             \/ WriteBatchResponse
    BY <2>2, QuietSteps
  <2>3. CASE RejectPart \/ AnswerUnparsed \/ BeginFails
    BY <2>3, RejectSteps
  <2>4. CASE ExecuteRequest
    BY <2>4, ExecuteStep
  <2>5. CASE OpenChangeset
    BY <2>5, OpenStep
  <2>6. CASE ChangesetUnreadable \/ RejectInChangeset
    BY <2>6, FailSteps
  <2>7. CASE RequestSucceeds
    BY <2>7, RequestSucceedsStep
  <2>8. CASE RequestFails
    BY <2>8, RequestFailsStep
  <2>9. CASE Commit
    BY <2>9, CommitStep
  <2>10. CASE CommitFails
    BY <2>10, CommitFailsStep
  <2>11. CASE ChangesetTooLarge \/ NewRequestPanics
    BY <2>11, AbortSteps
  <2> QED BY <2>1, <2>2, <2>3, <2>4, <2>5, <2>6, <2>7, <2>8, <2>9, <2>10,
             <2>11 DEF Next
<1> QED BY <1>1, <1>2, PTL DEF Spec

\* The state of a batch keeps its type.
THEOREM BatchTypeCorrect == Spec => []TypeOK
<1>1. IInv => TypeOK
  BY DEF IInv
<1> QED BY <1>1, BatchInvariance, PTL

\* Changesets take effect as a whole, whatever fails.
THEOREM ChangesetsAreAtomic == Spec => []ChangesetIsAtomic
<1>1. IInv => ChangesetIsAtomic
  BY DEF IInv
<1> QED BY <1>1, BatchInvariance, PTL

\* Exactly the committed writes are recorded, once and in order, and a client
\* told of success finds its write committed or an error behind it.
THEOREM CommitsAreReported ==
  Spec => []CommittedIsRecorded /\ []SuccessIsCommitted
<1>1. IInv => CommittedIsRecorded /\ SuccessIsCommitted
  BY DEF IInv
<1> QED BY <1>1, BatchInvariance, PTL

\* References by Content-ID do not leave their changeset.
THEOREM ReferencesAreLocal == Spec => []ReferencesStayInside
<1>1. IInv => ReferencesStayInside
  BY DEF IInv
<1> QED BY <1>1, BatchInvariance, PTL

\* The size limit holds for executed requests, save for failed commits.
THEOREM LimitHolds == Spec => []ExecutedWithinLimit
<1>1. IInv => ExecutedWithinLimit
  BY DEF IInv
<1> QED BY <1>1, BatchInvariance, PTL

-----------------------------------------------------------------------------
(* JsonBatch.                                                              *)

-----------------------------------------------------------------------------
(* The answers.                                                            *)

AnswerType == [id : STRING, group : STRING, status : Statuses]

\* A list of answers to the first requests, in order.
AnswersFirst(rs) ==
  /\ rs \in Seq(AnswerType) /\ Len(rs) <= Len(requests)
  /\ \A k \in 1 .. Len(rs) : rs[k].id = requests[k].id /\ rs[k].group = requests[k].group

\* What the loop starts from: types, and the answers so far.
LEMMA InTheLoop ==
  ASSUME JsonInv, InLoop
  PROVE  /\ requests \in Seq(Items) /\ Len(requests) \in Nat
         /\ pos \in 1 .. Len(requests) /\ item \in Items
         /\ AnswersFirst(answers) /\ Len(answers) = pos - 1
         /\ executed \subseteq 1 .. pos - 1
         /\ txState \in [Groups -> {"none", "open", "committed", "rolledBack"}]
         /\ groupFailed \in [Groups -> BOOLEAN] /\ flushed \subseteq Groups
         /\ ValidEnvelope(requests)
<1>1. requests \in Seq(Items) /\ pos \in 1 .. Len(requests)
  BY DEF JsonInv, JsonTypeOK, InLoop, Indices
<1>2. Len(requests) \in Nat /\ item \in Items
  BY <1>1 DEF item
<1>3. Len(answers) = pos - 1 /\ ValidEnvelope(requests)
  BY DEF JsonInv, Progress, InLoop
<1>4. AnswersFirst(answers)
  BY DEF JsonInv, JsonTypeOK, AnswersFirst, AnswerType
<1> QED BY <1>1, <1>2, <1>3, <1>4 DEF JsonInv, JsonTypeOK

\* An answer is added.
LEMMA AnswerAppended ==
  ASSUME requests \in Seq(Items), NEW rs, AnswersFirst(rs), NEW k \in Nat,
         k = Len(rs) + 1, k <= Len(requests), NEW s \in Statuses
  PROVE  LET new == Append(rs, JsonResponse(k, s)) IN
         /\ AnswersFirst(new) /\ Len(new) = k /\ new[k].status = s
         /\ \A i \in 1 .. Len(rs) : new[i] = rs[i]
<1> DEFINE r == JsonResponse(k, s)
           new == Append(rs, r)
<1>1. rs \in Seq(AnswerType) /\ Len(rs) \in Nat
  BY DEF AnswersFirst
<1>2. requests[k] \in Items
  BY <1>1
<1>3. r \in AnswerType /\ r.id = requests[k].id /\ r.group = requests[k].group /\ r.status = s
  BY <1>2 DEF JsonResponse, AnswerType, Items
<1> HIDE DEF r
<1>4. /\ new \in Seq(AnswerType) /\ Len(new) = k /\ new[k] = r
      /\ \A i \in 1 .. Len(rs) : new[i] = rs[i]
  BY <1>1, <1>3
<1>5. AnswersFirst(new)
  <2> SUFFICES ASSUME NEW i \in 1 .. k
               PROVE  new[i].id = requests[i].id /\ new[i].group = requests[i].group
    BY <1>4 DEF AnswersFirst
  <2>1. CASE i = k
    BY <1>3, <1>4, <2>1
  <2>2. CASE i # k
    BY <1>1, <1>4, <2>2 DEF AnswersFirst
  <2> QED BY <2>1, <2>2
<1> QED BY <1>3, <1>4, <1>5 DEF r

\* The answers of a group become 424.
LEMMA AnswersOfGroupFailed ==
  ASSUME NEW rs, AnswersFirst(rs), NEW g
  PROVE  LET new == WithGroupFailed(rs, g) IN
         /\ AnswersFirst(new) /\ Len(new) = Len(rs)
         /\ \A i \in 1 .. Len(rs) :
              new[i].status = IF requests[i].group = g THEN "failedDependency" ELSE rs[i].status
<1> DEFINE failed(i) == [rs[i] EXCEPT !.status = "failedDependency"]
           new == [i \in 1 .. Len(rs) |-> IF rs[i].group = g THEN failed(i) ELSE rs[i]]
<1>1. rs \in Seq(AnswerType) /\ Len(rs) \in Nat
  BY DEF AnswersFirst
<1>2. \A i \in 1 .. Len(rs) :
        /\ rs[i] \in AnswerType /\ failed(i) \in AnswerType /\ failed(i).id = rs[i].id
        /\ failed(i).group = rs[i].group /\ failed(i).status = "failedDependency"
  <2>1. \A i \in 1 .. Len(rs) : rs[i] \in AnswerType
    BY <1>1
  <2> QED BY <2>1 DEF AnswerType, Statuses
<1> HIDE DEF failed
<1>3. new \in Seq(AnswerType) /\ Len(new) = Len(rs)
  BY <1>1, <1>2
<1>4. \A i \in 1 .. Len(rs) :
        /\ new[i].id = requests[i].id /\ new[i].group = requests[i].group
        /\ new[i].status = IF requests[i].group = g THEN "failedDependency" ELSE rs[i].status
  BY <1>2 DEF AnswersFirst
<1>5. new = WithGroupFailed(rs, g)
  BY DEF WithGroupFailed, failed
<1> HIDE DEF new
<1> QED BY <1>3, <1>4, <1>5 DEF AnswersFirst

\* All the remaining requests are answered with 424.
LEMMA RestAnswered ==
  ASSUME requests \in Seq(Items), NEW rs, AnswersFirst(rs), NEW n \in Nat,
         Len(rs) + n <= Len(requests)
  PROVE  LET new == rs \o [k \in 1 .. n |-> JsonResponse(Len(rs) + k, "failedDependency")] IN
         /\ AnswersFirst(new) /\ Len(new) = Len(rs) + n
         /\ \A i \in 1 .. Len(rs) : new[i] = rs[i]
         /\ \A i \in Len(rs) + 1 .. Len(rs) + n : new[i].status = "failedDependency"
<1> DEFINE m == Len(rs)
           r(i) == JsonResponse(i, "failedDependency")
           tail == [k \in 1 .. n |-> r(m + k)]
           new == rs \o tail
<1>1. rs \in Seq(AnswerType) /\ m \in Nat /\ Len(requests) \in Nat
  BY DEF AnswersFirst
<1>2. \A i \in 1 .. Len(requests) :
        /\ r(i) \in AnswerType /\ r(i).id = requests[i].id
        /\ r(i).group = requests[i].group /\ r(i).status = "failedDependency"
  <2>1. \A i \in 1 .. Len(requests) : requests[i] \in Items
    OBVIOUS
  <2> QED BY <2>1 DEF JsonResponse, AnswerType, Items, Statuses
<1>3. new = rs \o [k \in 1 .. n |-> JsonResponse(Len(rs) + k, "failedDependency")]
  OBVIOUS
<1> HIDE DEF r
<1>4. \A k \in 1 .. n : m + k \in 1 .. Len(requests)
  BY <1>1 DEF m
<1>5. tail \in Seq(AnswerType) /\ Len(tail) = n
  BY <1>2, <1>4
<1>6. /\ new \in Seq(AnswerType) /\ Len(new) = m + n
      /\ \A i \in 1 .. m : new[i] = rs[i]
      /\ \A i \in m + 1 .. m + n : new[i] = tail[i - m]
  <2> HIDE DEF tail
  <2> QED BY <1>1, <1>5
<1>7. \A i \in m + 1 .. m + n : new[i] = r(i) /\ i \in 1 .. Len(requests)
  <2> SUFFICES ASSUME NEW i \in m + 1 .. m + n PROVE new[i] = r(i) /\ i \in 1 .. Len(requests)
    OBVIOUS
  <2>1. i - m \in 1 .. n /\ m + (i - m) = i /\ i \in 1 .. Len(requests)
    BY <1>1 DEF m
  <2>2. tail[i - m] = r(m + (i - m))
    BY <2>1
  <2> QED BY <1>6, <2>1, <2>2
<1> HIDE DEF new
<1>8. AnswersFirst(new)
  <2> SUFFICES ASSUME NEW i \in 1 .. m + n
               PROVE  new[i].id = requests[i].id /\ new[i].group = requests[i].group
    BY <1>1, <1>6 DEF AnswersFirst, m
  <2>1. CASE i \in 1 .. m
    BY <1>6, <2>1 DEF AnswersFirst
  <2>2. CASE i \in m + 1 .. m + n
    BY <1>2, <1>7, <2>2
  <2> QED BY <1>1, <2>1, <2>2
<1>9. \A i \in m + 1 .. m + n : new[i].status = "failedDependency"
  BY <1>2, <1>7
<1> QED BY <1>3, <1>6, <1>8, <1>9 DEF m

-----------------------------------------------------------------------------
(* What an iteration of the loop does, whichever branch it takes.          *)

Stops == ~continueOnError /\ pos' = Len(requests) + 1

\* A request answers; earlier answers change only when their group fails, and
\* later requests are only ever answered with 424.
Answers ==
  /\ AnswersFirst(answers')
  /\ \/ pos' = pos + 1 /\ Len(answers') = pos
     \/ Stops /\ Len(answers') \in pos .. Len(requests)
  /\ \A k \in 1 .. Len(answers') :
       /\ k < pos => \/ answers'[k].status = answers[k].status
                     \/ /\ InGroup /\ groupFailed'[item.group] /\ requests[k].group = item.group
                        /\ answers'[k].status = "failedDependency"
       /\ k > pos => answers'[k].status = "failedDependency"

\* What it does to the other groups: nothing.
GroupsKept ==
  /\ txState' \in [Groups -> {"none", "open", "committed", "rolledBack"}]
  /\ groupFailed' \in [Groups -> BOOLEAN] /\ flushed' \subseteq Groups
  /\ \A g \in Groups : g # item.group =>
       txState'[g] = txState[g] /\ groupFailed'[g] = groupFailed[g] /\ (g \in flushed' <=> g \in flushed)

\* And to its own: the request is skipped, the group fails, goes on or commits.
GroupSkips(g) ==
  /\ Skipped /\ txState'[g] = txState[g] /\ groupFailed'[g] = groupFailed[g]
  /\ g \in failedIDs' /\ answers'[pos].status = "failedDependency" /\ (g \in flushed' <=> g \in flushed)
  /\ pos' = pos + 1
GroupFails(g) ==
  /\ txState[g] # "committed" /\ txState'[g] \in {"none", "rolledBack"} /\ groupFailed'[g]
  /\ g \in failedIDs' /\ (g \in flushed' <=> g \in flushed)
  /\ \A k \in Members(g) : k <= pos => answers'[k].status # "ok"
GroupSucceeds(g) ==
  /\ txState[g] \in {"none", "open"} /\ ~groupFailed[g] /\ ~groupFailed'[g]
  /\ answers'[pos].status = "ok" /\ pos' = pos + 1
GroupContinues(g) ==
  /\ GroupSucceeds(g) /\ txState'[g] = "open" /\ (g \in flushed' <=> g \in flushed)
  /\ \E k \in Members(g) : k > pos
GroupIsCommitted(g) ==
  /\ GroupSucceeds(g) /\ txState'[g] = "committed" /\ g \in flushed'
  /\ \A k \in Members(g) : k <= pos

Iteration ==
  /\ InLoop /\ UNCHANGED <<requests, continueOnError, pc>>
  /\ failedIDs \subseteq failedIDs'
  /\ executed' \subseteq executed \cup {pos} /\ (pos \in executed' => ~Skipped)
  /\ Answers /\ GroupsKept
  /\ ~InGroup =>
       /\ answers'[pos].status = "ok" \/ item.id \in failedIDs'
       /\ answers'[pos].status = "error" /\ ~continueOnError => Stops
  /\ InGroup =>
       \/ GroupSkips(item.group) \/ GroupFails(item.group)
       \/ GroupContinues(item.group) \/ GroupIsCommitted(item.group)

\* A group of the request at hand is one of the groups.
LEMMA OwnGroup ==
  ASSUME JsonInv, InLoop
  PROVE  /\ InGroup <=> item.group \in Groups
         /\ InGroup => pos \in Members(item.group) /\ txState[item.group] # "committed"
<1>1. pos \in Indices
  BY DEF InLoop
<1>2. InGroup <=> item.group \in Groups
  BY <1>1 DEF InGroup, Groups, item
<1>3. ASSUME InGroup PROVE pos \in Members(item.group) /\ txState[item.group] # "committed"
  <2>1. pos \in Members(item.group)
    BY <1>1 DEF Members, item
  <2>2. pos \in Nat
    BY InTheLoop
  <2>3. txState[item.group] = "committed" => pos < pos
    BY <1>2, <1>3, <2>1 DEF JsonInv, TransactionsTell, AllProcessed
  <2> QED BY <2>1, <2>2, <2>3
<1> QED BY <1>2, <1>3

\* A request is skipped.
LEMMA Skips ==
  ASSUME JsonInv, SkipFailedDependency
  PROVE  Iteration
<1> DEFINE new == Append(answers, JsonResponse(pos, "failedDependency"))
<1>1. /\ InLoop /\ Skipped /\ answers' = new /\ pos' = pos + 1
      /\ failedIDs' = failedIDs \cup Marked(pos)
      /\ UNCHANGED <<requests, continueOnError, pc, txState, groupFailed, executed, flushed>>
  BY DEF SkipFailedDependency
<1>2. pos \in Nat /\ pos <= Len(requests) /\ Len(answers) = pos - 1 /\ pos \notin executed
  BY <1>1, InTheLoop
<1>3. /\ AnswersFirst(new) /\ Len(new) = pos /\ new[pos].status = "failedDependency"
      /\ \A i \in 1 .. Len(answers) : new[i] = answers[i]
  BY <1>1, <1>2, InTheLoop, AnswerAppended DEF Statuses
<1> HIDE DEF new
<1>4. Answers
  BY <1>1, <1>2, <1>3 DEF Answers
<1>5. GroupsKept
  BY <1>1, InTheLoop DEF GroupsKept
<1>6. item.id \in failedIDs' /\ (InGroup => item.group \in failedIDs')
  BY <1>1 DEF Marked, item, InGroup
<1>7. InGroup => GroupSkips(item.group)
  BY <1>1, <1>3, <1>6 DEF GroupSkips
<1> QED BY <1>1, <1>2, <1>3, <1>4, <1>5, <1>6, <1>7 DEF Iteration

\* A standalone request is answered, whether it ran or not.
LEMMA StandaloneAnswers ==
  ASSUME JsonInv, RejectMalformed \/ StandaloneSucceeds
  PROVE  Iteration
<1> DEFINE st == IF StandaloneSucceeds THEN "ok" ELSE "error"
           new == Append(answers, JsonResponse(pos, st))
<1>1. /\ InLoop /\ ~Skipped /\ ~InGroup /\ UNCHANGED <<requests, continueOnError, pc, txState, groupFailed, flushed>>
      /\ failedIDs \subseteq failedIDs' /\ executed' \subseteq executed \cup {pos}
      /\ pos' = pos + 1 \/ Stops
  BY DEF RejectMalformed, StandaloneSucceeds, Stops
<1>2. /\ answers' = new /\ st \in Statuses /\ (st = "ok" \/ item.id \in failedIDs')
      /\ st = "error" /\ ~continueOnError => Stops
  BY DEF RejectMalformed, StandaloneSucceeds, Marked, item, Statuses, Malformed, Stops
<1> HIDE DEF st
<1>3. pos \in Nat /\ pos <= Len(requests) /\ Len(answers) = pos - 1 /\ Len(requests) \in Nat
  BY <1>1, InTheLoop
<1>4. /\ AnswersFirst(new) /\ Len(new) = pos /\ new[pos].status = st
      /\ \A i \in 1 .. Len(answers) : new[i] = answers[i]
  BY <1>1, <1>2, <1>3, InTheLoop, AnswerAppended
<1> HIDE DEF new
<1>5. Answers
  BY <1>1, <1>2, <1>3, <1>4 DEF Answers
<1>6. GroupsKept
  BY <1>1, InTheLoop DEF GroupsKept
<1> QED BY <1>1, <1>2, <1>4, <1>5, <1>6 DEF Iteration

\* A standalone request fails; without continue-on-error the rest gets 424.
LEMMA StandaloneStops ==
  ASSUME JsonInv, StandaloneFails
  PROVE  Iteration
<1> DEFINE rest == IF continueOnError THEN {} ELSE {k \in Indices : k > pos}
           n == Cardinality(rest)
           first == Append(answers, JsonResponse(pos, "error"))
           new == first \o [k \in 1 .. n |-> JsonResponse(pos + k, "failedDependency")]
<1>1. /\ InLoop /\ ~Skipped /\ ~InGroup /\ UNCHANGED <<requests, continueOnError, pc, txState, groupFailed, flushed>>
      /\ executed' = executed \cup {pos} /\ answers' = new /\ pos' = pos + 1 + n
      /\ failedIDs \subseteq failedIDs' /\ item.id \in failedIDs'
  BY DEF StandaloneFails
<1>2. pos \in Nat /\ pos <= Len(requests) /\ Len(answers) = pos - 1 /\ Len(requests) \in Nat
  BY <1>1, InTheLoop
<1>3. n \in Nat /\ n = IF continueOnError THEN 0 ELSE Len(requests) - pos
  <2>1. CASE continueOnError
    BY <2>1, FS_EmptySet
  <2>2. CASE ~continueOnError
    <3>1. rest = pos + 1 .. Len(requests)
      BY <1>2, <2>2 DEF Indices
    <3>2. pos + 1 \in Int /\ Len(requests) \in Int
      BY <1>2
    <3>3. Cardinality(pos + 1 .. Len(requests)) =
            IF pos + 1 > Len(requests) THEN 0 ELSE Len(requests) - (pos + 1) + 1
      BY <3>2, FS_Interval
    <3> HIDE DEF rest
    <3> QED BY <1>2, <2>2, <3>1, <3>3
  <2> QED BY <2>1, <2>2
<1> HIDE DEF n
<1>4. /\ AnswersFirst(first) /\ Len(first) = pos /\ first[pos].status = "error"
      /\ \A i \in 1 .. Len(answers) : first[i] = answers[i]
  BY <1>1, <1>2, InTheLoop, AnswerAppended DEF Statuses
<1> HIDE DEF first
<1>5. /\ AnswersFirst(new) /\ Len(new) = pos + n
      /\ \A i \in 1 .. pos : new[i] = first[i]
      /\ \A i \in pos + 1 .. pos + n : new[i].status = "failedDependency"
  <2>1. pos + n <= Len(requests)
    BY <1>2, <1>3
  <2>2. new = first \o [k \in 1 .. n |-> JsonResponse(Len(first) + k, "failedDependency")]
    BY <1>4
  <2>3. requests \in Seq(Items) /\ AnswersFirst(first) /\ Len(first) = pos
    BY <1>1, <1>4, InTheLoop
  <2> HIDE DEF new
  <2> QED BY <1>3, <2>1, <2>2, <2>3, RestAnswered
<1> HIDE DEF new
<1>6. Answers
  <2>1. \/ pos' = pos + 1 /\ Len(answers') = pos
        \/ Stops /\ Len(answers') \in pos .. Len(requests)
    <3>1. pos' = pos + 1 + n /\ Len(answers') = pos + n
      BY <1>1, <1>5
    <3>2. CASE continueOnError
      BY <1>2, <1>3, <3>1, <3>2
    <3>3. CASE ~continueOnError
      <4>1. n = Len(requests) - pos
        BY <1>3, <3>3
      <4>2. pos + 1 + n = Len(requests) + 1 /\ pos + n = Len(requests)
        BY <1>2, <4>1
      <4>3. Len(requests) \in pos .. Len(requests)
        BY <1>2
      <4> QED BY <3>1, <3>3, <4>2, <4>3 DEF Stops
    <3> QED BY <3>2, <3>3
  <2>2. \A k \in 1 .. Len(answers') :
          /\ k < pos => answers'[k].status = answers[k].status
          /\ k > pos => answers'[k].status = "failedDependency"
    BY <1>1, <1>2, <1>3, <1>4, <1>5
  <2> QED BY <1>1, <1>5, <2>1, <2>2 DEF Answers
<1>7. GroupsKept
  BY <1>1, InTheLoop DEF GroupsKept
<1>8. ~continueOnError => Stops
  BY <1>1, <1>2, <1>3 DEF Stops
<1> QED BY <1>1, <1>6, <1>7, <1>8 DEF Iteration

\* A group fails before its request runs, because the request is malformed or
\* Begin fails, or after it ran: the earlier answers become 424, unless Begin
\* failed, when there is none that succeeded.
LEMMA GroupFailing ==
  ASSUME JsonInv, RejectMalformedInGroup \/ GroupBeginFails \/ GroupRequestFails
  PROVE  Iteration
<1> DEFINE g == item.group
           old == IF GroupBeginFails THEN answers ELSE WithGroupFailed(answers, g)
           new == Append(old, JsonResponse(pos, "error"))
<1>1. /\ InLoop /\ ~Skipped /\ InGroup /\ UNCHANGED <<requests, continueOnError, pc, flushed>>
      /\ failedIDs' = failedIDs \cup Marked(pos) /\ executed' \subseteq executed \cup {pos}
      /\ pos' = pos + 1 \/ Stops
      /\ groupFailed' = [groupFailed EXCEPT ![g] = TRUE]
  BY DEF RejectMalformedInGroup, GroupBeginFails, GroupRequestFails, GroupRequestRuns, Stops
<1>2. answers' = new
  BY DEF RejectMalformedInGroup, GroupBeginFails, GroupRequestFails, GroupRequestRuns, Malformed
<1>3. pos \in Nat /\ pos <= Len(requests) /\ Len(answers) = pos - 1 /\ Len(requests) \in Nat
  BY <1>1, InTheLoop
<1>4. g \in Groups /\ txState[g] # "committed"
  BY <1>1, OwnGroup
<1>5. /\ AnswersFirst(old) /\ Len(old) = Len(answers)
      /\ \A i \in 1 .. Len(answers) :
           old[i].status = IF requests[i].group = g /\ ~GroupBeginFails
                           THEN "failedDependency" ELSE answers[i].status
  <2>1. AnswersFirst(answers)
    BY <1>1, InTheLoop
  <2> QED BY <2>1, AnswersOfGroupFailed
<1>6. /\ AnswersFirst(new) /\ Len(new) = pos /\ new[pos].status = "error"
      /\ \A i \in 1 .. Len(answers) : new[i] = old[i]
  <2>1. "error" \in Statuses /\ pos = Len(old) + 1 /\ requests \in Seq(Items)
    BY <1>1, <1>3, <1>5, InTheLoop DEF Statuses
  <2> HIDE DEF old
  <2> QED BY <1>3, <1>5, <2>1, AnswerAppended
<1> HIDE DEF new, old
<1>7. groupFailed' \in [Groups -> BOOLEAN] /\ groupFailed'[g]
      /\ \A h \in Groups : h # g => groupFailed'[h] = groupFailed[h]
  BY <1>1, <1>4, InTheLoop
<1>8. /\ txState' \in [Groups -> {"none", "open", "committed", "rolledBack"}]
      /\ txState'[g] \in {"none", "rolledBack"}
      /\ \A h \in Groups : h # g => txState'[h] = txState[h]
  <2>1. txState \in [Groups -> {"none", "open", "committed", "rolledBack"}]
    BY <1>1, InTheLoop
  <2>2. \/ txState' = [txState EXCEPT ![g] = IF @ = "open" THEN "rolledBack" ELSE @]
        \/ txState' = txState /\ txState[g] = "none"
        \/ txState' = [txState EXCEPT ![g] = "rolledBack"]
    BY DEF RejectMalformedInGroup, GroupBeginFails, GroupRequestFails
  <2> QED BY <1>4, <2>1, <2>2
<1>9. Answers
  <2>1. \A k \in 1 .. Len(answers') :
          k < pos => \/ answers'[k].status = answers[k].status
                     \/ requests[k].group = g /\ answers'[k].status = "failedDependency"
    BY <1>2, <1>3, <1>5, <1>6
  <2>2. Len(answers') = pos /\ pos \in pos .. Len(requests)
    BY <1>2, <1>3, <1>6
  <2> QED BY <1>1, <1>2, <1>3, <1>6, <1>7, <2>1, <2>2 DEF Answers
<1>10. GroupsKept
  BY <1>1, <1>7, <1>8, InTheLoop DEF GroupsKept
<1>11. \A k \in Members(g) : k <= pos => answers'[k].status # "ok"
  <2> SUFFICES ASSUME NEW k \in Members(g), k <= pos PROVE answers'[k].status # "ok"
    OBVIOUS
  <2>1. k \in 1 .. pos /\ requests[k].group = g
    BY <1>3 DEF Members, Indices
  <2>2. CASE k = pos
    BY <1>2, <1>6, <2>2
  <2>3. CASE k # pos
    <3>1. k \in 1 .. Len(answers) /\ answers'[k].status = old[k].status
      BY <1>2, <1>3, <1>6, <2>1, <2>3
    <3>2. CASE ~GroupBeginFails
      BY <1>5, <2>1, <3>1, <3>2
    <3>3. CASE GroupBeginFails
      <4>1. txState[g] = "none"
        BY <3>3 DEF GroupBeginFails
      <4>2. ~AnsweredOk(k)
        BY <1>4, <4>1 DEF JsonInv, TransactionsTell
      <4>3. answers[k].status # "ok"
        BY <1>3, <3>1, <4>2 DEF AnsweredOk, Answered
      <4> QED BY <1>5, <3>1, <3>3, <4>3
    <3> QED BY <3>2, <3>3
  <2> QED BY <2>2, <2>3
<1>12. g \in failedIDs'
  BY <1>1 DEF Marked, item, InGroup
<1>13. GroupFails(g)
  BY <1>1, <1>4, <1>7, <1>8, <1>11, <1>12 DEF GroupFails
<1> QED BY <1>1, <1>9, <1>10, <1>13 DEF Iteration

\* The last request of a group succeeded, but Commit fails: all the answers of the
\* group become 424.
LEMMA GroupFailsAtCommit ==
  ASSUME JsonInv, GroupCommitFails
  PROVE  Iteration
<1> DEFINE g == item.group
           all == Append(answers, JsonResponse(pos, "ok"))
           new == WithGroupFailed(all, g)
<1>1. /\ InLoop /\ ~Skipped /\ InGroup /\ UNCHANGED <<requests, continueOnError, pc, flushed>>
      /\ failedIDs' = failedIDs \cup Marked(pos) /\ executed' \subseteq executed \cup {pos}
      /\ pos' = pos + 1 /\ answers' = new
      /\ groupFailed' = [groupFailed EXCEPT ![g] = TRUE]
      /\ txState' = [txState EXCEPT ![g] = "rolledBack"]
  BY DEF GroupCommitFails, GroupRequestRuns
<1>2. pos \in Nat /\ pos <= Len(requests) /\ Len(answers) = pos - 1 /\ Len(requests) \in Nat
  BY <1>1, InTheLoop
<1>3. g \in Groups /\ txState[g] # "committed" /\ requests[pos].group = g
  BY <1>1, OwnGroup DEF item
<1>4. /\ AnswersFirst(all) /\ Len(all) = pos
      /\ \A i \in 1 .. Len(answers) : all[i] = answers[i]
  BY <1>1, <1>2, InTheLoop, AnswerAppended DEF Statuses
<1> HIDE DEF all
<1>5. /\ AnswersFirst(new) /\ Len(new) = pos
      /\ \A i \in 1 .. pos :
           new[i].status = IF requests[i].group = g THEN "failedDependency" ELSE all[i].status
  BY <1>4, AnswersOfGroupFailed
<1> HIDE DEF new
<1>6. groupFailed' \in [Groups -> BOOLEAN] /\ groupFailed'[g]
      /\ \A h \in Groups : h # g => groupFailed'[h] = groupFailed[h]
  BY <1>1, <1>3, InTheLoop
<1>7. /\ txState' \in [Groups -> {"none", "open", "committed", "rolledBack"}]
      /\ txState'[g] = "rolledBack"
      /\ \A h \in Groups : h # g => txState'[h] = txState[h]
  BY <1>1, <1>3, InTheLoop
<1>8. Answers
  <2>1. \A k \in 1 .. Len(answers') :
          k < pos => \/ answers'[k].status = answers[k].status
                     \/ requests[k].group = g /\ answers'[k].status = "failedDependency"
    BY <1>1, <1>2, <1>4, <1>5
  <2> QED BY <1>1, <1>2, <1>5, <1>6, <2>1 DEF Answers
<1>9. GroupsKept
  BY <1>1, <1>6, <1>7, InTheLoop DEF GroupsKept
<1>10. \A k \in Members(g) : k <= pos => answers'[k].status # "ok"
  <2> SUFFICES ASSUME NEW k \in Members(g), k <= pos PROVE answers'[k].status # "ok"
    OBVIOUS
  <2>1. k \in 1 .. pos /\ requests[k].group = g
    BY <1>2 DEF Members, Indices
  <2> QED BY <1>1, <1>5, <2>1
<1>11. g \in failedIDs'
  BY <1>1 DEF Marked, item, InGroup
<1>12. GroupFails(g)
  BY <1>1, <1>3, <1>6, <1>7, <1>10, <1>11 DEF GroupFails
<1> QED BY <1>1, <1>8, <1>9, <1>12 DEF Iteration

\* A request of a group succeeds, and its transaction stays open or is committed.
LEMMA GroupGoesOn ==
  ASSUME JsonInv, GroupRequestSucceeds \/ GroupCommits
  PROVE  Iteration
<1> DEFINE g == item.group
           new == Append(answers, JsonResponse(pos, "ok"))
<1>1. /\ InLoop /\ ~Skipped /\ InGroup /\ UNCHANGED <<requests, continueOnError, pc, groupFailed, failedIDs>>
      /\ txState[g] \in {"none", "open"}
      /\ executed' \subseteq executed \cup {pos} /\ pos' = pos + 1 /\ answers' = new
  BY DEF GroupRequestSucceeds, GroupCommits, GroupRequestRuns
<1>2. pos \in Nat /\ pos <= Len(requests) /\ Len(answers) = pos - 1 /\ Len(requests) \in Nat
  BY <1>1, InTheLoop
<1>3. g \in Groups /\ ~groupFailed[g]
  BY <1>1, OwnGroup DEF Skipped
<1>4. /\ AnswersFirst(new) /\ Len(new) = pos /\ new[pos].status = "ok"
      /\ \A i \in 1 .. Len(answers) : new[i] = answers[i]
  BY <1>1, <1>2, InTheLoop, AnswerAppended DEF Statuses
<1> HIDE DEF new
<1>5. Answers
  BY <1>1, <1>2, <1>4 DEF Answers
<1>6. GroupSucceeds(g)
  BY <1>1, <1>3, <1>4 DEF GroupSucceeds
<1>7. ASSUME GroupRequestSucceeds PROVE GroupContinues(g) /\ GroupsKept
  <2>1. /\ txState' = [txState EXCEPT ![g] = "open"] /\ UNCHANGED flushed
        /\ \E k \in Members(g) : ~(k <= pos)
    BY <1>7 DEF GroupRequestSucceeds, IsLastOfGroup
  <2>2. \E k \in Members(g) : k > pos
    BY <1>2, <2>1 DEF Members, Indices
  <2>3. /\ txState' \in [Groups -> {"none", "open", "committed", "rolledBack"}]
        /\ txState'[g] = "open" /\ \A h \in Groups : h # g => txState'[h] = txState[h]
    BY <1>1, <1>3, <2>1, InTheLoop
  <2>4. GroupsKept
    BY <1>1, <2>1, <2>3, InTheLoop DEF GroupsKept
  <2> QED BY <1>6, <2>1, <2>2, <2>3, <2>4 DEF GroupContinues
<1>8. ASSUME GroupCommits PROVE GroupIsCommitted(g) /\ GroupsKept
  <2>1. /\ txState' = [txState EXCEPT ![g] = "committed"] /\ flushed' = flushed \cup {g}
        /\ \A k \in Members(g) : k <= pos
    BY <1>8 DEF GroupCommits, IsLastOfGroup
  <2>2. /\ txState' \in [Groups -> {"none", "open", "committed", "rolledBack"}]
        /\ txState'[g] = "committed" /\ \A h \in Groups : h # g => txState'[h] = txState[h]
    BY <1>1, <1>3, <2>1, InTheLoop
  <2>3. flushed' \subseteq Groups /\ \A h \in Groups : h # g => (h \in flushed' <=> h \in flushed)
    BY <1>1, <1>3, <2>1, InTheLoop
  <2>4. GroupsKept
    BY <1>1, <2>2, <2>3, InTheLoop DEF GroupsKept
  <2> QED BY <1>6, <2>1, <2>2, <2>4 DEF GroupIsCommitted
<1> QED BY <1>1, <1>5, <1>7, <1>8 DEF Iteration

-----------------------------------------------------------------------------
(* An iteration keeps the invariant.                                       *)

\* The requests stay, and the position moves on.
LEMMA LoopMovesOn ==
  ASSUME JsonInv, Iteration
  PROVE  /\ Indices' = Indices /\ Groups' = Groups
         /\ \A g \in Groups : Members(g)' = Members(g)
         /\ pos \in Nat /\ pos \in Indices /\ Len(requests) \in Nat
         /\ pos' \in pos + 1 .. Len(requests) + 1
         /\ pos' \in Indices => pos' = pos + 1
         /\ pos' = pos + 1 \/ Stops
<1>1. /\ Indices' = Indices /\ Groups' = Groups
      /\ \A g \in Groups : Members(g)' = Members(g)
  BY DEF Iteration, Indices, Groups, Members
<1>2. pos \in Nat /\ pos \in Indices /\ Len(requests) \in Nat /\ pos <= Len(requests)
  BY InTheLoop DEF Iteration, InLoop
<1>3. pos' = pos + 1 \/ Stops
  BY DEF Iteration, Answers
<1>4. pos' = pos + 1 \/ pos' = Len(requests) + 1
  BY <1>3 DEF Stops
<1>5. pos' \in pos + 1 .. Len(requests) + 1
  <2>1. pos \in Nat /\ Len(requests) \in Nat /\ pos <= Len(requests)
    BY <1>2
  <2> QED BY <1>4, <2>1
<1>6. pos' \in Indices => pos' = pos + 1
  BY <1>2, <1>4 DEF Indices
<1> QED BY <1>1, <1>2, <1>3, <1>5, <1>6

\* Which answers a step adds and takes back.
LEMMA AnswersMove ==
  ASSUME JsonInv, Iteration, NEW k \in Indices
  PROVE  /\ AnsweredOk(k)' => AnsweredOk(k) \/ (k = pos /\ answers'[pos].status = "ok")
         /\ AnsweredOk(k) => \/ AnsweredOk(k)'
                             \/ InGroup /\ groupFailed'[item.group] /\ requests[k].group = item.group
         /\ k < pos => Answered(k)
         /\ k <= pos => Answered(k)'
         /\ Answered(k)' /\ answers'[k].status = "error" =>
              k = pos \/ (k < pos /\ Answered(k) /\ answers[k].status = "error")
<1>1. pos \in Nat /\ Len(answers) = pos - 1 /\ k \in Nat /\ k >= 1
  BY InTheLoop DEF Iteration, Indices
<1>2. Len(answers') \in Nat /\ Len(answers') >= pos
  <2>1. Len(requests) \in Nat
    BY LoopMovesOn
  <2> QED BY <1>1, <2>1 DEF Iteration, Answers
<1>3. k <= Len(answers') =>
        /\ k < pos => \/ answers'[k].status = answers[k].status
                      \/ /\ InGroup /\ groupFailed'[item.group] /\ requests[k].group = item.group
                         /\ answers'[k].status = "failedDependency"
        /\ k > pos => answers'[k].status = "failedDependency"
  <2>1. k <= Len(answers') => k \in 1 .. Len(answers')
    BY <1>1, <1>2
  <2> QED BY <2>1 DEF Iteration, Answers
<1>4. /\ Answered(k) <=> k <= Len(answers)
      /\ Answered(k)' <=> k <= Len(answers')
  BY DEF Answered
<1>5. CASE k < pos
  <2>1. k <= Len(answers) /\ k <= Len(answers') /\ k # pos
    BY <1>1, <1>2, <1>5
  <2> QED BY <1>3, <1>4, <1>5, <2>1 DEF AnsweredOk
<1>6. CASE k = pos
  <2>1. ~(k <= Len(answers)) /\ k <= Len(answers') /\ ~(k < pos)
    BY <1>1, <1>2, <1>6
  <2> QED BY <1>4, <1>6, <2>1 DEF AnsweredOk
<1>7. CASE k > pos
  <2>1. ~(k <= Len(answers)) /\ ~(k < pos) /\ ~(k <= pos)
    BY <1>1, <1>7
  <2> QED BY <1>3, <1>4, <1>7, <2>1 DEF AnsweredOk
<1> QED BY <1>1, <1>5, <1>6, <1>7

\* A group that has begun and is not the one at hand is processed: the requests of
\* a group stand together.
LEMMA BegunIsProcessed ==
  ASSUME JsonInv, InLoop, NEW g \in Groups, g # item.group, txState[g] # "none"
  PROVE  AllProcessed(g)
<1>1. PICK j \in Members(g) : j < pos
  BY DEF JsonInv, TransactionsTell
<1>2. SUFFICES ASSUME NEW l \in Members(g), ~(l < pos) PROVE FALSE
  BY DEF AllProcessed
<1>3. /\ j \in 1 .. Len(requests) /\ l \in 1 .. Len(requests) /\ pos \in 1 .. Len(requests)
      /\ requests[j].group = g /\ requests[l].group = g /\ g # ""
  BY InTheLoop DEF Members, Indices, Groups
<1>4. l # pos
  BY <1>3 DEF item
<1>5. j < pos /\ pos < l
  <2>1. \A i \in 1 .. Len(requests) : i \in Int
    OBVIOUS
  <2>2. l \in Int
    BY <1>3, <2>1
  <2>3. pos \in Int
    BY <1>3, <2>1
  <2> QED BY <1>1, <1>2, <1>4, <2>2, <2>3
<1>6. requests[pos].group = g
  BY <1>3, <1>5, InTheLoop DEF ValidEnvelope
<1> QED BY <1>6 DEF item

\* Types and progress.
LEMMA IterationTypes ==
  ASSUME JsonInv, Iteration
  PROVE  JsonTypeOK' /\ Progress'
<1>1. /\ pos' \in 1 .. Len(requests) + 1 /\ Len(requests) \in Nat /\ pos \in Nat
      /\ pos' = pos + 1 \/ Stops
      /\ pos' \in pos + 1 .. Len(requests) + 1
  BY LoopMovesOn
<1>2. /\ AnswersFirst(answers') /\ Len(answers') \in pos .. Len(requests)
      /\ Len(answers') <= pos' - 1
      /\ pos' \in Indices \/ continueOnError => Len(answers') = pos' - 1
  <2>1. AnswersFirst(answers')
    BY DEF Iteration, Answers
  <2>2. CASE pos' = pos + 1 /\ Len(answers') = pos
    BY <1>1, <2>1, <2>2
  <2>3. CASE Stops /\ Len(answers') \in pos .. Len(requests)
    BY <1>1, <2>1, <2>3 DEF Stops, Indices
  <2> QED BY <2>2, <2>3 DEF Iteration, Answers
<1>3. executed' \subseteq 1 .. Len(answers')
  <2>1. executed' \subseteq executed \cup {pos} /\ executed \subseteq 1 .. pos - 1
    BY InTheLoop DEF Iteration
  <2> SUFFICES ASSUME NEW e \in executed' PROVE e \in 1 .. Len(answers')
    OBVIOUS
  <2>2. e \in 1 .. pos - 1 \/ e = pos
    BY <2>1
  <2>3. pos >= 1
    BY InTheLoop DEF Iteration
  <2>4. Len(answers') \in Nat /\ Len(answers') >= pos
    BY <1>1, <1>2
  <2> QED BY <1>1, <2>2, <2>3, <2>4
<1>4. JsonTypeOK'
  <2>1. /\ requests' \in Seq(Items) /\ continueOnError' \in BOOLEAN /\ pc' = "loop"
        /\ requests' = requests /\ Groups' = Groups
    BY LoopMovesOn DEF Iteration, JsonInv, JsonTypeOK, InLoop
  <2>2. /\ answers' \in Seq([id : STRING, group : STRING, status : Statuses])
        /\ Len(answers') <= Len(requests)
        /\ \A k \in 1 .. Len(answers') :
             answers'[k].id = requests[k].id /\ answers'[k].group = requests[k].group
    BY <1>2 DEF AnswersFirst, AnswerType
  <2> QED BY <1>1, <1>3, <2>1, <2>2 DEF JsonTypeOK, Iteration, GroupsKept
<1>5. Progress'
  <2>1. pc' = "loop" /\ ValidEnvelope(requests') /\ Indices' = Indices /\ continueOnError' = continueOnError
    BY LoopMovesOn, InTheLoop DEF Iteration, InLoop
  <2> QED BY <1>2, <2>1 DEF Progress
<1> QED BY <1>4, <1>5

\* What was skipped for a dependency stays so.
LEMMA SkippedStays ==
  ASSUME Iteration, NEW k \in Indices, SkippedByDependency(k)
  PROVE  SkippedByDependency(k)'
  BY DEF Iteration, SkippedByDependency

\* The outcome of what was processed is known.
LEMMA IterationOutcomes ==
  ASSUME JsonInv, Iteration
  PROVE  OutcomesAreKnown'
<1>1. ASSUME pos' \in Indices, NEW g \in Groups, \A k \in Members(g) : k < pos'
      PROVE  g \in failedIDs' \/ txState'[g] = "committed"
  <2>1. pos' = pos + 1 /\ pos \in Nat
    BY <1>1, LoopMovesOn
  <2>2. CASE g = item.group
    <3>1. InGroup
      BY <2>2, OwnGroup DEF Iteration
    <3>2. ~GroupContinues(g)
      <4>1. \A k \in Members(g) : ~(k > pos)
        BY <1>1, <2>1 DEF Members, Indices
      <4> QED BY <4>1 DEF GroupContinues
    <3> QED BY <2>2, <3>1, <3>2 DEF Iteration, GroupSkips, GroupFails, GroupIsCommitted
  <2>3. CASE g # item.group
    <3>1. \A k \in Members(g) : k # pos /\ k \in Nat
      BY <2>3 DEF Members, Indices, item
    <3>2. AllProcessed(g)
      BY <1>1, <2>1, <3>1 DEF AllProcessed
    <3>3. g \in failedIDs \/ txState[g] = "committed"
      BY <3>2, LoopMovesOn DEF JsonInv, OutcomesAreKnown
    <3> QED BY <2>3, <3>3 DEF Iteration, GroupsKept
  <2> QED BY <2>2, <2>3
<1>2. ASSUME pos' \in Indices, NEW i \in Indices, i < pos', requests[i].group = ""
      PROVE  requests[i].id \in failedIDs' \/ AnsweredOk(i)'
  <2>1. pos' = pos + 1 /\ pos \in Nat
    BY <1>2, LoopMovesOn
  <2>4. i \in Nat
    BY DEF Indices
  <2>5. pos \in Indices
    BY LoopMovesOn
  <2>2. CASE i = pos
    <3>1. ~InGroup
      BY <1>2, <2>2 DEF InGroup, item
    <3>2. answers'[pos].status = "ok" \/ item.id \in failedIDs'
      BY <3>1 DEF Iteration
    <3>3. i <= pos
      BY <2>1, <2>2
    <3>4. Answered(i)'
      BY <3>3, AnswersMove
    <3> QED BY <2>2, <3>2, <3>4 DEF AnsweredOk, item
  <2>3. CASE i # pos
    <3>3. i < pos
      <4>1. i < pos'
        BY <1>2
      <4> QED BY <2>1, <2>3, <2>4, <4>1
    <3>1. requests[i].id \in failedIDs \/ AnsweredOk(i)
      BY <1>2, <2>5, <3>3 DEF JsonInv, OutcomesAreKnown
    <3>2. InGroup => requests[i].group # item.group
      BY <1>2 DEF InGroup
    <3> QED BY <3>1, <3>2, AnswersMove DEF Iteration
  <2> QED BY <2>2, <2>3
<1>3. ASSUME NEW i \in Indices, ~continueOnError, requests[i].group = "", Answered(i)',
             answers'[i].status = "error"
      PROVE  pos' \notin Indices
  <2>1. CASE i = pos
    <3>1. ~InGroup
      BY <1>3, <2>1 DEF InGroup, item
    <3>2. Stops
      BY <1>3, <2>1, <3>1 DEF Iteration
    <3> QED BY <3>2, LoopMovesOn DEF Stops, Indices
  <2>2. CASE i # pos
    BY <1>3, <2>2, AnswersMove, LoopMovesOn DEF JsonInv, OutcomesAreKnown
  <2> QED BY <2>1, <2>2
<1>4. requests' = requests /\ continueOnError' = continueOnError
  BY DEF Iteration
<1>5. pos' \in Indices' =>
        /\ \A g \in Groups' : AllProcessed(g)' => g \in failedIDs' \/ txState'[g] = "committed"
        /\ \A i \in Indices' :
             i < pos' /\ requests'[i].group = "" => requests'[i].id \in failedIDs' \/ AnsweredOk(i)'
  BY <1>1, <1>2, <1>4, LoopMovesOn DEF AllProcessed
<1>6. \A i \in Indices' :
        ~continueOnError' /\ requests'[i].group = "" /\ Answered(i)' /\ answers'[i].status = "error"
          => pos' \notin Indices'
  BY <1>3, <1>4, LoopMovesOn
<1> QED BY <1>5, <1>6 DEF OutcomesAreKnown

\* What TransactionsTell says of one group.
Tells(g) ==
  /\ txState[g] = "none" => \A k \in Members(g) : ~AnsweredOk(k)
  /\ txState[g] # "none" => \E k \in Members(g) : k < pos
  /\ txState[g] = "committed" => AllProcessed(g)
  /\ ~groupFailed[g] /\ (pos \in Indices \/ txState[g] # "none") =>
       \A k \in Members(g) : k < pos => AnsweredOk(k) \/ SkippedByDependency(k)
  /\ ~groupFailed[g] /\ txState[g] \in {"open", "rolledBack"} /\ AllProcessed(g) =>
       \E k \in Members(g) : SkippedByDependency(k)

\* Requests of a group, and where the position is among them.
LEMMA MembersMove ==
  ASSUME JsonInv, Iteration, NEW g \in Groups, NEW k \in Members(g)
  PROVE  /\ k \in Indices /\ k \in Int /\ pos \in Int /\ pos' \in Int
         /\ requests[k].group = g /\ g # "" /\ (k = pos => g = item.group)
         /\ k < pos => k < pos'
         /\ k < pos' /\ pos' = pos + 1 => k <= pos
<1>1. k \in Indices /\ requests[k].group = g /\ g # "" /\ (k = pos => g = item.group)
  BY DEF Members, Groups, item
<1>2. \A i \in Indices : i \in Int
  BY DEF Indices
<1>3. pos \in Nat /\ Len(requests) \in Nat
  BY LoopMovesOn
<1>4. pos' \in pos + 1 .. Len(requests) + 1
  BY LoopMovesOn
<1>5. k \in Int
  BY <1>1, <1>2
<1>6. pos' \in Int /\ pos' > pos
  BY <1>3, <1>4
<1>7. k < pos => k < pos'
  BY <1>3, <1>5, <1>6
<1>8. k < pos' /\ pos' = pos + 1 => k <= pos
  BY <1>3, <1>5
<1>9. pos \in Int
  BY <1>3
<1> QED BY <1>1, <1>5, <1>6, <1>7, <1>8, <1>9

\* Another group than the one at hand.
LEMMA OthersTell ==
  ASSUME JsonInv, Iteration, NEW g \in Groups, g # item.group
  PROVE  Tells(g)'
<1>1. /\ txState'[g] = txState[g] /\ groupFailed'[g] = groupFailed[g] /\ InLoop
      /\ Members(g)' = Members(g) /\ pos \in Indices /\ Indices' = Indices
  BY LoopMovesOn DEF Iteration, GroupsKept
<1>2. Tells(g)
  BY DEF JsonInv, TransactionsTell, Tells
<1>3. \A k \in Members(g) :
        /\ k \in Indices /\ k # pos /\ (k < pos => k < pos')
        /\ AnsweredOk(k)' <=> AnsweredOk(k)
        /\ SkippedByDependency(k) => SkippedByDependency(k)'
  <2> SUFFICES ASSUME NEW k \in Members(g)
               PROVE  /\ k \in Indices /\ k # pos /\ (k < pos => k < pos')
                      /\ AnsweredOk(k)' <=> AnsweredOk(k)
                      /\ SkippedByDependency(k) => SkippedByDependency(k)'
    OBVIOUS
  <2>1. k \in Indices /\ k # pos /\ (k < pos => k < pos') /\ requests[k].group # item.group
    BY MembersMove
  <2>2. AnsweredOk(k)' <=> AnsweredOk(k)
    BY <2>1, AnswersMove
  <2> QED BY <2>1, <2>2, SkippedStays
<1>4. txState[g] # "none" => AllProcessed(g)
  BY <1>1, BegunIsProcessed
<1>5. pos' \in Indices =>
        \A k \in Members(g) : k < pos' => k < pos
  <2> SUFFICES ASSUME pos' \in Indices, NEW k \in Members(g), k < pos' PROVE k < pos
    OBVIOUS
  <2>1. pos' = pos + 1
    BY LoopMovesOn
  <2>2. k <= pos /\ k # pos /\ k \in Int /\ pos \in Int
    BY <1>3, <2>1, MembersMove
  <2> QED BY <2>2
<1>6. txState'[g] = "none" => \A k \in Members(g) : ~AnsweredOk(k)'
  BY <1>1, <1>2, <1>3 DEF Tells
<1>7. txState'[g] # "none" => \E k \in Members(g) : k < pos'
  BY <1>1, <1>2, <1>3 DEF Tells
<1>8. txState'[g] = "committed" => \A k \in Members(g) : k < pos'
  BY <1>1, <1>2, <1>3 DEF Tells, AllProcessed
<1>9. ~groupFailed'[g] /\ (pos' \in Indices \/ txState'[g] # "none") =>
        \A k \in Members(g) : k < pos' => AnsweredOk(k)' \/ SkippedByDependency(k)'
  <2> SUFFICES ASSUME ~groupFailed'[g], pos' \in Indices \/ txState'[g] # "none",
                      NEW k \in Members(g), k < pos'
               PROVE  AnsweredOk(k)' \/ SkippedByDependency(k)'
    OBVIOUS
  <2>1. k < pos
    BY <1>1, <1>4, <1>5 DEF AllProcessed
  <2>2. AnsweredOk(k) \/ SkippedByDependency(k)
    BY <1>1, <1>2, <2>1 DEF Tells
  <2> QED BY <1>3, <2>2
<1>10. ~groupFailed'[g] /\ txState'[g] \in {"open", "rolledBack"} =>
         \E k \in Members(g) : SkippedByDependency(k)'
  <2> SUFFICES ASSUME ~groupFailed'[g], txState'[g] \in {"open", "rolledBack"}
               PROVE  \E k \in Members(g) : SkippedByDependency(k)'
    OBVIOUS
  <2>1. \E k \in Members(g) : SkippedByDependency(k)
    BY <1>1, <1>2, <1>4 DEF Tells
  <2> QED BY <1>3, <2>1
<1> QED BY <1>1, <1>6, <1>7, <1>8, <1>9, <1>10 DEF Tells, AllProcessed

\* The group at hand, when its request is skipped.
LEMMA SkippedGroupTells ==
  ASSUME JsonInv, Iteration, NEW g \in Groups, g = item.group, GroupSkips(g)
  PROVE  Tells(g)'
<1>1. /\ txState'[g] = txState[g] /\ groupFailed'[g] = groupFailed[g] /\ InLoop /\ InGroup
      /\ Members(g)' = Members(g) /\ pos \in Indices /\ Indices' = Indices /\ pos' = pos + 1
      /\ answers'[pos].status = "failedDependency" /\ Skipped
  BY LoopMovesOn, OwnGroup DEF Iteration, GroupSkips
<1>2. Tells(g)
  BY DEF JsonInv, TransactionsTell, Tells
<1>3. pos \in Members(g) /\ txState[g] # "committed"
  BY <1>1, OwnGroup
<1>0. PICK p \in Members(g) : p = pos
  BY <1>3
<1>4. ~groupFailed[g] => SkippedByDependency(p)'
  <2>1. ~groupFailed[g] => SkippedByDependency(p)
    BY <1>0, <1>1 DEF Skipped, SkippedByDependency, item
  <2>2. p \in Indices
    BY <1>0, <1>1
  <2> QED BY <2>1, <2>2, SkippedStays
<1>5. \A k \in Members(g) :
        /\ k < pos => k < pos'
        /\ k < pos' => k < pos \/ k = pos
        /\ AnsweredOk(k)' => AnsweredOk(k)
        /\ ~groupFailed[g] /\ AnsweredOk(k) => AnsweredOk(k)'
        /\ SkippedByDependency(k) => SkippedByDependency(k)'
  <2> SUFFICES ASSUME NEW k \in Members(g)
               PROVE  /\ k < pos => k < pos'
                      /\ k < pos' => k < pos \/ k = pos
                      /\ AnsweredOk(k)' => AnsweredOk(k)
                      /\ ~groupFailed[g] /\ AnsweredOk(k) => AnsweredOk(k)'
                      /\ SkippedByDependency(k) => SkippedByDependency(k)'
    OBVIOUS
  <2>1. k \in Indices /\ (k < pos => k < pos')
    BY MembersMove
  <2>2. k < pos' => k <= pos /\ k \in Int /\ pos \in Int
    BY <1>1, MembersMove
  <2>3. k < pos' => k < pos \/ k = pos
    BY <2>2
  <2>4. AnsweredOk(k)' => AnsweredOk(k)
    BY <1>1, <2>1, AnswersMove
  <2>5. ~groupFailed[g] /\ AnsweredOk(k) => AnsweredOk(k)'
    BY <1>1, <2>1, AnswersMove
  <2> QED BY <2>1, <2>3, <2>4, <2>5, SkippedStays
<1>6. txState'[g] = "none" => \A k \in Members(g) : ~AnsweredOk(k)'
  BY <1>1, <1>2, <1>5 DEF Tells
<1>7. txState'[g] # "none" => \E k \in Members(g) : k < pos'
  BY <1>1, <1>2, <1>5 DEF Tells
<1>8. ~groupFailed'[g] =>
        \A k \in Members(g) : k < pos' => AnsweredOk(k)' \/ SkippedByDependency(k)'
  BY <1>0, <1>1, <1>2, <1>4, <1>5 DEF Tells
<1>9. ~groupFailed'[g] => \E k \in Members(g) : SkippedByDependency(k)'
  BY <1>1, <1>4
<1> QED BY <1>1, <1>3, <1>6, <1>7, <1>8, <1>9 DEF Tells, AllProcessed

\* The group at hand, when it fails.
LEMMA FailedGroupTells ==
  ASSUME JsonInv, Iteration, NEW g \in Groups, g = item.group, GroupFails(g)
  PROVE  Tells(g)'
<1>1. /\ Members(g)' = Members(g) /\ pos \in Members(g) /\ pos < pos'
      /\ txState'[g] \in {"none", "rolledBack"} /\ groupFailed'[g]
  <2>1. pos \in Members(g)
    BY OwnGroup DEF Iteration
  <2>2. pos \in Nat /\ pos' \in pos + 1 .. Len(requests) + 1 /\ Len(requests) \in Nat
    BY LoopMovesOn
  <2>3. pos < pos'
    BY <2>2
  <2> QED BY <2>1, <2>3, LoopMovesOn DEF GroupFails
<1>2. \A k \in Members(g) : ~AnsweredOk(k)'
  <2> SUFFICES ASSUME NEW k \in Members(g), AnsweredOk(k)' PROVE FALSE
    OBVIOUS
  <2>1. k \in Indices /\ k \in Int /\ pos \in Int
    BY MembersMove
  <2>2. AnsweredOk(k) \/ k = pos
    BY <2>1, AnswersMove
  <2>3. AnsweredOk(k) => k <= pos
    <3>1. Len(answers) = pos - 1
      BY InTheLoop DEF Iteration
    <3> QED BY <2>1, <3>1 DEF AnsweredOk, Answered
  <2>4. k <= pos
    BY <2>1, <2>2, <2>3
  <2> QED BY <2>4 DEF AnsweredOk, GroupFails
<1> QED BY <1>1, <1>2 DEF Tells, AllProcessed

\* The group at hand, when its request succeeds.
LEMMA SucceedingGroupTells ==
  ASSUME JsonInv, Iteration, NEW g \in Groups, g = item.group,
         GroupContinues(g) \/ GroupIsCommitted(g)
  PROVE  Tells(g)'
<1>1. /\ Members(g)' = Members(g) /\ Indices' = Indices /\ pos' = pos + 1
      /\ ~groupFailed[g] /\ ~groupFailed'[g] /\ answers'[pos].status = "ok" /\ pos \in Indices
  BY LoopMovesOn DEF GroupContinues, GroupIsCommitted, GroupSucceeds
<1>2. Tells(g)
  BY DEF JsonInv, TransactionsTell, Tells
<1>3. PICK p \in Members(g) : p = pos
  BY OwnGroup DEF Iteration
<1>4. p \in Indices /\ p \in Int /\ p < pos' /\ pos \in Int
  <2>1. p \in Indices /\ p \in Int /\ pos \in Int
    BY MembersMove
  <2> QED BY <1>1, <1>3, <2>1
<1>5. AnsweredOk(p)'
  <2>1. p <= pos
    BY <1>3, <1>4
  <2>2. Answered(p)'
    BY <1>4, <2>1, AnswersMove
  <2> QED BY <1>1, <1>3, <2>2 DEF AnsweredOk
<1>6. \A k \in Members(g) : k < pos' => AnsweredOk(k)' \/ SkippedByDependency(k)'
  <2> SUFFICES ASSUME NEW k \in Members(g), k < pos', k # p
               PROVE  AnsweredOk(k)' \/ SkippedByDependency(k)'
    BY <1>5
  <2>1. k \in Indices /\ k \in Int /\ k <= pos
    BY <1>1, MembersMove
  <2>2. k < pos
    BY <1>3, <1>4, <2>1
  <2>3. AnsweredOk(k) \/ SkippedByDependency(k)
    BY <1>1, <1>2, <2>2 DEF Tells
  <2>4. AnsweredOk(k) => AnsweredOk(k)'
    BY <1>1, <2>1, AnswersMove
  <2> QED BY <2>1, <2>3, <2>4, SkippedStays
<1>7. CASE GroupContinues(g)
  <2>1. PICK k \in Members(g) : k > pos
    BY <1>7 DEF GroupContinues
  <2>2. k \in Int
    BY MembersMove
  <2>3. ~(k < pos')
    BY <1>1, <1>4, <2>1, <2>2
  <2>4. txState'[g] = "open"
    BY <1>7 DEF GroupContinues
  <2> QED BY <1>1, <1>4, <1>6, <2>3, <2>4 DEF Tells, AllProcessed
<1>8. CASE GroupIsCommitted(g)
  <2>1. \A k \in Members(g) : k < pos'
    <3> SUFFICES ASSUME NEW k \in Members(g) PROVE k < pos'
      OBVIOUS
    <3>1. k <= pos /\ k \in Int
      BY <1>8, MembersMove DEF GroupIsCommitted
    <3> QED BY <1>1, <1>4, <3>1
  <2>2. txState'[g] = "committed"
    BY <1>8 DEF GroupIsCommitted
  <2> QED BY <1>1, <1>4, <1>6, <2>1, <2>2 DEF Tells, AllProcessed
<1> QED BY <1>7, <1>8

\* Every group.
LEMMA IterationTells ==
  ASSUME JsonInv, Iteration
  PROVE  TransactionsTell'
<1>1. Groups' = Groups
  BY LoopMovesOn
<1>2. ASSUME NEW g \in Groups PROVE Tells(g)'
  <2>1. CASE g # item.group
    BY <2>1, OthersTell
  <2>2. CASE g = item.group
    <3>1. InGroup
      BY <2>2, OwnGroup DEF Iteration
    <3> QED BY <2>2, <3>1, SkippedGroupTells, FailedGroupTells, SucceedingGroupTells DEF Iteration
  <2> QED BY <2>1, <2>2
<1> QED BY <1>1, <1>2 DEF TransactionsTell, Tells

\* Transactions and events agree, and a failed group leaves nothing.
LEMMA IterationSettles ==
  ASSUME JsonInv, Iteration
  PROVE  GroupsSettle'
<1>1. pc' = "loop" /\ Groups' = Groups /\ \A g \in Groups : Members(g)' = Members(g)
  BY LoopMovesOn DEF Iteration, InLoop
<1>2. ASSUME NEW g \in Groups
      PROVE  g \in flushed' <=> txState'[g] = "committed"
  <2>1. g \in flushed <=> txState[g] = "committed"
    BY DEF JsonInv, GroupsSettle, TransactionsSettle
  <2>2. CASE g # item.group
    BY <2>1, <2>2 DEF Iteration, GroupsKept
  <2>3. CASE g = item.group
    <3>1. InGroup
      BY <2>3, OwnGroup DEF Iteration
    <3> QED BY <2>1, <2>3, <3>1
            DEF Iteration, GroupSkips, GroupFails, GroupContinues, GroupIsCommitted, GroupSucceeds
  <2> QED BY <2>2, <2>3
<1>3. ASSUME NEW g \in Groups, groupFailed'[g]
      PROVE  /\ txState'[g] \in {"none", "rolledBack"} /\ g \notin flushed'
             /\ \A k \in Members(g) : ~AnsweredOk(k)'
  <2>1. CASE g # item.group
    <3>1. groupFailed[g] /\ txState'[g] = txState[g]
      BY <1>3, <2>1 DEF Iteration, GroupsKept
    <3>2. txState[g] \in {"none", "rolledBack"} /\ \A k \in Members(g) : ~AnsweredOk(k)
      BY <3>1 DEF JsonInv, GroupsSettle, FailedGroupLeavesNothing, AnsweredOk
    <3>3. ASSUME NEW k \in Members(g) PROVE ~AnsweredOk(k)'
      <4>1. k \in Indices /\ k # pos
        BY <2>1, MembersMove
      <4> QED BY <3>2, <4>1, AnswersMove
    <3> QED BY <1>2, <3>1, <3>2, <3>3
  <2>2. CASE g = item.group
    <3>1. InGroup
      BY <2>2, OwnGroup DEF Iteration
    <3>2. CASE GroupFails(g)
      <4>1. txState'[g] \in {"none", "rolledBack"}
        BY <3>2 DEF GroupFails
      <4>2. ASSUME NEW k \in Members(g), AnsweredOk(k)' PROVE FALSE
        <5>1. k \in Indices /\ k \in Int /\ pos \in Int
          BY MembersMove
        <5>2. AnsweredOk(k) \/ k = pos
          BY <4>2, <5>1, AnswersMove
        <5>3. AnsweredOk(k) => k <= pos
          <6>1. Len(answers) = pos - 1
            BY InTheLoop DEF Iteration
          <6> QED BY <5>1, <6>1 DEF AnsweredOk, Answered
        <5>4. k <= pos
          BY <5>1, <5>2, <5>3
        <5> QED BY <3>2, <4>2, <5>4 DEF AnsweredOk, GroupFails
      <4> QED BY <1>2, <4>1, <4>2
    <3>3. CASE GroupSkips(g)
      <4>1. groupFailed[g] /\ txState'[g] = txState[g] /\ answers'[pos].status = "failedDependency"
        BY <1>3, <3>3 DEF GroupSkips
      <4>2. txState[g] \in {"none", "rolledBack"} /\ \A k \in Members(g) : ~AnsweredOk(k)
        BY <4>1 DEF JsonInv, GroupsSettle, FailedGroupLeavesNothing, AnsweredOk
      <4>3. ASSUME NEW k \in Members(g) PROVE ~AnsweredOk(k)'
        <5>1. k \in Indices
          BY MembersMove
        <5> QED BY <4>1, <4>2, <5>1, AnswersMove
      <4> QED BY <1>2, <4>1, <4>2, <4>3
    <3> QED BY <1>3, <2>2, <3>1, <3>2, <3>3
            DEF Iteration, GroupContinues, GroupIsCommitted, GroupSucceeds
  <2> QED BY <2>1, <2>2
<1>4. TransactionsSettle'
  BY <1>1, <1>2 DEF TransactionsSettle
<1>5. FailedGroupLeavesNothing'
  BY <1>1, <1>3 DEF FailedGroupLeavesNothing, AnsweredOk
<1> QED BY <1>4, <1>5 DEF GroupsSettle

\* A dependency comes before the request at hand: a processed group, or a request.
LEMMA DependencyIsBefore ==
  ASSUME JsonInv, InLoop, NEW dep \in item.dependsOn
  PROVE  /\ dep \in Groups => AllProcessed(dep)
         /\ \A i \in Indices : requests[i].id = dep => i < pos
<1>1. pos \in 1 .. Len(requests) /\ ValidEnvelope(requests) /\ Len(requests) \in Nat
  BY InTheLoop
<1>2. DependencyPrecedes(requests, pos, dep)
  BY <1>1 DEF ValidEnvelope, item
<1>3. ASSUME dep \in Groups PROVE AllProcessed(dep)
  <2>1. PICK j \in Indices : requests[j].group = dep
    BY <1>3 DEF Groups
  <2>2. \A k \in 1 .. pos - 1 : requests[k].id # dep
    <3> SUFFICES ASSUME NEW k \in 1 .. pos - 1 PROVE requests[k].id # dep
      OBVIOUS
    <3>1. k \in 1 .. Len(requests)
      BY <1>1
    <3> QED BY <1>1, <2>1, <3>1 DEF ValidEnvelope, Indices
  <2>3. EndsBefore(requests, dep, pos)
    BY <1>2, <2>2 DEF DependencyPrecedes
  <2> QED BY <2>3 DEF EndsBefore, AllProcessed, Members, Indices
<1>4. ASSUME NEW i \in Indices, requests[i].id = dep PROVE i < pos
  <2>1. ~EndsBefore(requests, dep, pos)
    BY <1>1, <1>4 DEF EndsBefore, ValidEnvelope, Indices
  <2>2. PICK k \in 1 .. pos - 1 : requests[k].id = dep
    BY <1>2, <2>1 DEF DependencyPrecedes
  <2>3. k \in 1 .. Len(requests) /\ k < pos
    BY <1>1, <2>2
  <2>4. i = k
    BY <1>1, <1>4, <2>2, <2>3 DEF ValidEnvelope, Indices
  <2> QED BY <2>3, <2>4
<1> QED BY <1>3, <1>4

\* What ran had its dependencies, and still has them.
LEMMA IterationHonours ==
  ASSUME JsonInv, Iteration
  PROVE  DependencyHonoured'
<1>1. /\ requests' = requests /\ Groups' = Groups /\ Indices' = Indices /\ InLoop
      /\ executed' \subseteq executed \cup {pos} /\ pos \in Indices
      /\ executed \subseteq 1 .. pos - 1
  BY LoopMovesOn, InTheLoop DEF Iteration
<1>2. ASSUME NEW g \in Groups, txState[g] = "committed" PROVE txState'[g] = "committed"
  <2>1. g # item.group
    BY <1>1, <1>2, OwnGroup
  <2> QED BY <1>2, <2>1 DEF Iteration, GroupsKept
<1>3. ASSUME NEW i \in Indices, requests[i].group = "", AnsweredOk(i) PROVE AnsweredOk(i)'
  BY <1>3, AnswersMove DEF InGroup
<1>4. ASSUME NEW k \in executed', NEW dep \in requests[k].dependsOn
      PROVE  /\ dep \in Groups => txState[dep] = "committed"
             /\ \A i \in Indices : requests[i].id = dep /\ requests[i].group = "" => AnsweredOk(i)
  <2>1. CASE k \in executed
    BY <2>1 DEF JsonInv, DependencyHonoured, AnsweredOk
  <2>2. CASE k \notin executed
    <3>1. k = pos /\ ~Skipped
      BY <1>1, <1>4, <2>2 DEF Iteration
    <3>2. dep \in item.dependsOn /\ dep \notin failedIDs
      BY <3>1 DEF Skipped, item
    <3>3. dep \in Groups => txState[dep] = "committed"
      BY <1>1, <3>2, DependencyIsBefore DEF JsonInv, OutcomesAreKnown
    <3>4. \A i \in Indices : requests[i].id = dep /\ requests[i].group = "" => AnsweredOk(i)
      BY <1>1, <3>2, DependencyIsBefore DEF JsonInv, OutcomesAreKnown
    <3> QED BY <3>3, <3>4
  <2> QED BY <2>1, <2>2
<1> QED BY <1>1, <1>2, <1>3, <1>4 DEF DependencyHonoured, AnsweredOk

\* The batch stopped where it had to.
LEMMA IterationStops ==
  ASSUME JsonInv, Iteration
  PROVE  StopsAtFirstFailure'
<1>1. ASSUME NEW i \in Indices, ~continueOnError, requests[i].group = "", Answered(i)',
             answers'[i].status = "error", NEW k \in executed'
      PROVE  k <= i
  <2>1. i = pos
    <3>1. i = pos \/ (Answered(i) /\ answers[i].status = "error")
      BY <1>1, AnswersMove
    <3>2. pos \in Indices
      BY LoopMovesOn
    <3> QED BY <1>1, <3>1, <3>2 DEF JsonInv, OutcomesAreKnown
  <2>2. k \in executed \/ k = pos
    BY <1>1 DEF Iteration
  <2>3. executed \subseteq 1 .. pos - 1 /\ pos \in Nat
    BY InTheLoop DEF Iteration
  <2>4. k \in executed => k < pos
    <3>1. \A e \in 1 .. pos - 1 : e < pos
      BY <2>3
    <3> QED BY <2>3, <3>1
  <2>5. k \in executed => k \in Int
    BY <2>3
  <2> QED BY <2>1, <2>2, <2>3, <2>4, <2>5
<1>2. requests' = requests /\ Indices' = Indices /\ continueOnError' = continueOnError
  BY LoopMovesOn DEF Iteration
<1> QED BY <1>1, <1>2 DEF StopsAtFirstFailure

-----------------------------------------------------------------------------
(* Before and after the loop, and the theorems.                            *)

\* The state a request starts in.
LEMMA JsonStarts == JsonInit => JsonInv
<1> SUFFICES ASSUME JsonInit PROVE JsonInv
  OBVIOUS
<1> USE DEF JsonInit
<1>1. requests \in Seq(Items) /\ Len(requests) \in Nat /\ Len(answers) = 0
  BY BatchAssumption
<1>2. /\ pc = "validate" /\ pos = 1 /\ answers = << >> /\ executed = {} /\ flushed = {} /\ failedIDs = {}
      /\ \A g \in Groups : txState[g] = "none" /\ ~groupFailed[g]
  OBVIOUS
<1>3. \A k : ~(k \in Indices /\ Answered(k))
  BY <1>1 DEF Answered, Indices
<1>4. \A g \in Groups : Members(g) \subseteq Indices /\ Members(g) # {}
  BY DEF Members, Groups
<1>5. \A k \in Indices : ~(k < pos)
  BY <1>1, <1>2 DEF Indices
<1>6. JsonTypeOK
  BY <1>1 DEF JsonTypeOK
<1>7. Progress
  BY <1>1, <1>2 DEF Progress, Fresh
<1>8. OutcomesAreKnown
  BY <1>3, <1>4, <1>5 DEF OutcomesAreKnown, AllProcessed
<1>9. TransactionsTell
  BY <1>2, <1>3, <1>4, <1>5 DEF TransactionsTell, AnsweredOk, AllProcessed
<1>10. GroupsSettle
  BY <1>2 DEF GroupsSettle, TransactionsSettle, FailedGroupLeavesNothing
<1>11. DependencyHonoured /\ StopsAtFirstFailure
  BY <1>2 DEF DependencyHonoured, StopsAtFirstFailure
<1> QED BY <1>6, <1>7, <1>8, <1>9, <1>10, <1>11 DEF JsonInv

\* What ran stays justified while the answers and the committed groups stay.
LEMMA RunsKept ==
  ASSUME JsonInv, UNCHANGED <<requests, continueOnError, answers, executed>>,
         \A g \in Groups : txState[g] = "committed" => txState'[g] = "committed"
  PROVE  DependencyHonoured' /\ StopsAtFirstFailure'
<1>1. Indices' = Indices /\ Groups' = Groups /\ \A i : Answered(i)' <=> Answered(i)
  BY DEF Indices, Groups, Answered
<1>2. DependencyHonoured /\ StopsAtFirstFailure
  BY DEF JsonInv
<1>3. ASSUME NEW k \in executed, NEW dep \in requests[k].dependsOn
      PROVE  /\ dep \in Groups => txState'[dep] = "committed"
             /\ \A i \in Indices : requests[i].id = dep /\ requests[i].group = ""
                  => Answered(i) /\ answers[i].status = "ok"
  BY <1>2 DEF DependencyHonoured
<1>4. DependencyHonoured'
  <2>1. requests' = requests /\ answers' = answers /\ executed' = executed
    OBVIOUS
  <2>2. \A k \in executed : \A dep \in requests[k].dependsOn :
          /\ dep \in Groups => txState'[dep] = "committed"
          /\ \A i \in Indices : requests[i].id = dep /\ requests[i].group = ""
               => Answered(i)' /\ answers[i].status = "ok"
    BY <1>3, <2>1 DEF Answered
  <2>3. \A k \in executed' : \A dep \in requests'[k].dependsOn :
          /\ dep \in Groups' => txState'[dep] = "committed"
          /\ \A i \in Indices' : requests'[i].id = dep /\ requests'[i].group = ""
               => Answered(i)' /\ answers'[i].status = "ok"
    BY <1>1, <2>1, <2>2, Zenon
  <2> QED BY <2>3, Zenon DEF DependencyHonoured
<1>5. StopsAtFirstFailure'
  BY <1>1, <1>2 DEF StopsAtFirstFailure
<1> QED BY <1>4, <1>5

\* The envelope is judged, and nothing else happens.
LEMMA EnvelopeIsJudged ==
  ASSUME JsonInv, Reject \/ RejectTooLarge \/ Accept
  PROVE  JsonInv'
<1>1. /\ pc = "validate" /\ pc' \in {"rejected", "tooLarge", "loop"}
      /\ pc' = "loop" => ValidEnvelope(requests)
      /\ UNCHANGED <<requests, continueOnError, pos, failedIDs, txState, groupFailed, answers,
                     executed, flushed>>
  BY DEF Reject, RejectTooLarge, Accept
<1>2. Indices' = Indices /\ Groups' = Groups /\ \A g : Members(g)' = Members(g)
  BY <1>1 DEF Indices, Groups, Members
<1>3. JsonTypeOK'
  BY <1>1, <1>2 DEF JsonInv, JsonTypeOK
<1>4. Progress'
  BY <1>1, <1>2 DEF JsonInv, Progress, Fresh
<1>5. OutcomesAreKnown' /\ TransactionsTell'
  BY <1>1, <1>2 DEF JsonInv, OutcomesAreKnown, TransactionsTell, AnsweredOk, Answered,
                    AllProcessed, SkippedByDependency
<1>6. GroupsSettle'
  BY <1>1, <1>2 DEF JsonInv, GroupsSettle, TransactionsSettle, FailedGroupLeavesNothing, Answered
<1>7. DependencyHonoured' /\ StopsAtFirstFailure'
  BY <1>1, RunsKept
<1> QED BY <1>3, <1>4, <1>5, <1>6, <1>7 DEF JsonInv

\* What is still open is rolled back.
LEMMA BatchIsFinished ==
  ASSUME JsonInv, Finish
  PROVE  JsonInv'
<1>1. /\ pc = "loop" /\ pos \notin Indices /\ pc' = "written"
      /\ txState' = [g \in Groups |-> IF txState[g] = "open" /\ ~groupFailed[g]
                                      THEN "rolledBack" ELSE txState[g]]
      /\ UNCHANGED <<requests, continueOnError, pos, failedIDs, groupFailed, answers, executed, flushed>>
  BY DEF Finish
<1>2. Indices' = Indices /\ Groups' = Groups /\ \A g : Members(g)' = Members(g)
  BY <1>1 DEF Indices, Groups, Members
<1>3. /\ txState' \in [Groups -> {"none", "open", "committed", "rolledBack"}]
      /\ \A g \in Groups :
           /\ txState'[g] # "open"
           /\ txState'[g] = "none" <=> txState[g] = "none"
           /\ txState'[g] = "committed" <=> txState[g] = "committed"
           /\ groupFailed[g] => txState'[g] = txState[g]
           /\ txState'[g] = "rolledBack" => txState[g] \in {"open", "rolledBack"}
  <2>1. txState \in [Groups -> {"none", "open", "committed", "rolledBack"}]
    BY DEF JsonInv, JsonTypeOK
  <2>2. \A g \in Groups : groupFailed[g] => txState[g] # "open"
    BY DEF JsonInv, GroupsSettle, FailedGroupLeavesNothing
  <2> QED BY <1>1, <2>1, <2>2
<1>4. JsonTypeOK'
  BY <1>1, <1>2, <1>3 DEF JsonInv, JsonTypeOK
<1>5. Progress'
  <2>1. pos = Len(requests) + 1
    <3>1. pos \in 1 .. Len(requests) + 1 /\ Len(requests) \in Nat
      BY DEF JsonInv, JsonTypeOK
    <3> QED BY <1>1, <3>1 DEF Indices
  <2> QED BY <1>1, <1>2, <2>1 DEF JsonInv, Progress
<1>6. OutcomesAreKnown'
  BY <1>1, <1>2 DEF JsonInv, OutcomesAreKnown, Answered
<1>7. TransactionsTell'
  <2> SUFFICES ASSUME NEW g \in Groups PROVE Tells(g)'
    BY <1>2 DEF TransactionsTell, Tells
  <2>1. Tells(g)
    BY DEF JsonInv, TransactionsTell, Tells
  <2> QED BY <1>1, <1>2, <1>3, <2>1 DEF Tells, AnsweredOk, Answered, AllProcessed, SkippedByDependency
<1>8. GroupsSettle'
  BY <1>1, <1>2, <1>3 DEF JsonInv, GroupsSettle, TransactionsSettle, FailedGroupLeavesNothing, Answered
<1>9. DependencyHonoured' /\ StopsAtFirstFailure'
  BY <1>1, <1>3, RunsKept
<1> QED BY <1>4, <1>5, <1>6, <1>7, <1>8, <1>9 DEF JsonInv

\* A stutter.
LEMMA JsonStutters ==
  ASSUME JsonInv, UNCHANGED jsonVars
  PROVE  JsonInv'
<1>1. UNCHANGED <<requests, continueOnError, pc, pos, failedIDs, txState, groupFailed, answers,
                  executed, flushed>>
  BY DEF jsonVars
<1>2. Indices' = Indices /\ Groups' = Groups /\ \A g : Members(g)' = Members(g)
  BY <1>1 DEF Indices, Groups, Members
<1>3. JsonTypeOK' /\ Progress'
  BY <1>1, <1>2 DEF JsonInv, JsonTypeOK, Progress, Fresh
<1>4. OutcomesAreKnown' /\ TransactionsTell'
  BY <1>1, <1>2 DEF JsonInv, OutcomesAreKnown, TransactionsTell, AnsweredOk, Answered,
                    AllProcessed, SkippedByDependency
<1>5. GroupsSettle'
  BY <1>1, <1>2 DEF JsonInv, GroupsSettle, TransactionsSettle, FailedGroupLeavesNothing, Answered
<1>6. DependencyHonoured' /\ StopsAtFirstFailure'
  BY <1>1, RunsKept
<1> QED BY <1>3, <1>4, <1>5, <1>6 DEF JsonInv

\* No step of a batch breaks the invariant.
LEMMA JsonStep == JsonInv /\ [JsonNext]_jsonVars => JsonInv'
<1> SUFFICES ASSUME JsonInv, [JsonNext]_jsonVars PROVE JsonInv'
  OBVIOUS
<1>1. CASE Iteration
  BY <1>1, IterationTypes, IterationOutcomes, IterationTells, IterationSettles, IterationHonours,
     IterationStops DEF JsonInv
<1>2. CASE Reject \/ RejectTooLarge \/ Accept
  BY <1>2, EnvelopeIsJudged
<1>3. CASE Finish
  BY <1>3, BatchIsFinished
<1>4. CASE UNCHANGED jsonVars
  BY <1>4, JsonStutters
<1>5. CASE SkipFailedDependency
  BY <1>1, <1>5, Skips
<1>6. CASE RejectMalformed \/ StandaloneSucceeds
  BY <1>1, <1>6, StandaloneAnswers
<1>7. CASE StandaloneFails
  BY <1>1, <1>7, StandaloneStops
<1>8. CASE RejectMalformedInGroup \/ GroupBeginFails \/ GroupRequestFails
  BY <1>1, <1>8, GroupFailing
<1>9. CASE GroupCommitFails
  BY <1>1, <1>9, GroupFailsAtCommit
<1>10. CASE GroupRequestSucceeds \/ GroupCommits
  BY <1>1, <1>10, GroupGoesOn
<1> QED BY <1>2, <1>3, <1>4, <1>5, <1>6, <1>7, <1>8, <1>9, <1>10 DEF JsonNext

\* The inductive invariant holds of every reachable state.
THEOREM JsonInvariant == JsonSpec => []JsonInv
  BY JsonStarts, JsonStep, PTL DEF JsonSpec

\* Every transaction a batch begins is committed or rolled back when its answers
\* are written, its events are published exactly when it committed, and a group
\* that failed leaves no effect and no answer of success (handleJSONBatch).
THEOREM GroupsAreSettled == JsonSpec => []GroupsSettle
<1>1. JsonInv => GroupsSettle
  BY DEF JsonInv
<1> QED BY <1>1, JsonInvariant, PTL

\* A handler runs only when what it depends on succeeded, none runs after the
\* failure that stops the batch, and by default every request is answered.
THEOREM RightRequestsRun == JsonSpec => []OnlyWhatMayRunRuns
<1>1. JsonInv => OnlyWhatMayRunRuns
  <2> SUFFICES ASSUME JsonInv PROVE AllAnsweredByDefault
    BY DEF JsonInv, OnlyWhatMayRunRuns
  <2> SUFFICES ASSUME pc = "written", continueOnError PROVE Len(answers) = Len(requests)
    BY DEF AllAnsweredByDefault
  <2>1. Len(answers) = pos - 1 /\ pos = Len(requests) + 1
    BY DEF JsonInv, Progress
  <2>2. Len(requests) \in Nat
    BY DEF JsonInv, JsonTypeOK
  <2> QED BY <2>1, <2>2
<1> QED BY <1>1, JsonInvariant, PTL

\* A group none of whose requests is skipped for a dependency is all or nothing.
THEOREM GroupsAreAtomic == JsonSpec => []UnskippedGroupIsAtomic
<1>1. JsonInv => UnskippedGroupIsAtomic
  <2> SUFFICES ASSUME JsonInv, pc = "written", NEW g \in Groups,
                      \A k \in Members(g) : ~SkippedByDependency(k)
               PROVE  \/ txState[g] = "committed" /\ \A k \in Members(g) : AnsweredOk(k)
                      \/ txState[g] # "committed" /\ \A k \in Members(g) : ~AnsweredOk(k)
    BY DEF UnskippedGroupIsAtomic, AnsweredOk, SkippedByDependency
  <2>1. Tells(g)
    BY DEF JsonInv, TransactionsTell, Tells
  <2>2. AllProcessed(g)
    <3>1. pos = Len(requests) + 1 /\ Len(requests) \in Nat
      BY DEF JsonInv, Progress, JsonTypeOK
    <3> QED BY <3>1 DEF AllProcessed, Members, Indices
  <2>3. groupFailed[g] => \A k \in Members(g) : ~AnsweredOk(k)
    BY DEF JsonInv, GroupsSettle, FailedGroupLeavesNothing, AnsweredOk
  <2>4. groupFailed[g] => txState[g] # "committed"
    BY DEF JsonInv, GroupsSettle, FailedGroupLeavesNothing
  <2>5. txState[g] \in {"none", "committed", "rolledBack"}
    BY DEF JsonInv, JsonTypeOK, GroupsSettle, TransactionsSettle
  <2> QED BY <2>1, <2>2, <2>3, <2>4, <2>5 DEF Tells, AllProcessed
<1> QED BY <1>1, JsonInvariant, PTL

\* Whichever requests are skipped, fail or fail to commit, every group is settled
\* and, unless one of its requests was skipped, all or nothing.
THEOREM GroupsStayWhole == JsonSpec => []GroupsAreWhole
  BY GroupsAreSettled, GroupsAreAtomic, PTL DEF GroupsAreWhole
=============================================================================
