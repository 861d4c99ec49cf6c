----------------------------- MODULE JsonBatch -----------------------------
(***************************************************************************)
(* A JSON batch request: handleJSONBatch of internal/handlers/batch.go.    *)
(*                                                                         *)
(* The envelope is validated as a whole, then its requests are processed   *)
(* in order.  The requests of an atomicity group run in one transaction    *)
(* that is committed when the last of them succeeds.  One action models    *)
(* one iteration of the loop; what a sub-request answers, and whether      *)
(* Begin and Commit succeed, is up to the handlers and the database.       *)
(***************************************************************************)
EXTENDS Naturals, Sequences, FiniteSets

CONSTANTS
  Envelopes,      \* the "requests" arrays: sequences of items
  MaxRequests     \* BatchHandler.maxBatchSize

\* An item has an id, a group ("" when standalone), the set of names it
\* depends on and whether jsonItemToBatchRequest rejects it (no method or
\* url).
Items == [id : STRING, group : STRING, dependsOn : SUBSET STRING,
          malformed : BOOLEAN]

ASSUME BatchAssumption ==
  /\ MaxRequests \in Nat
  /\ Envelopes \subseteq Seq(Items)

VARIABLES
  requests,         \* envelope.Requests
  continueOnError,  \* the Prefer: continue-on-error preference
  pc,               \* "validate", "loop", "rejected", "tooLarge", "written"
  pos,              \* index of the request the loop is about to process
  failedIDs,        \* ids and group ids marked as failed
  txState,          \* per group: jsonGroupState.tx, from Begin to its end
  groupFailed,      \* per group: jsonGroupState.failed
  answers,        \* the responses array: id, group and status
  executed,         \* history: indices whose handler ran
  flushed           \* groups whose pending change events were flushed

jsonVars == <<requests, continueOnError, pc, pos, failedIDs, txState,
          groupFailed, answers, executed, flushed>>

Indices == 1 .. Len(requests)
Groups == {requests[k].group : k \in Indices} \ {""}
Members(g) == {k \in Indices : requests[k].group = g}
item == requests[pos]

-----------------------------------------------------------------------------
(* Validation of the envelope, before anything is executed.                *)

\* groupLastIdx[g] < i
EndsBefore(e, g, i) ==
  /\ \E k \in 1 .. Len(e) : e[k].group = g
  /\ \A k \in 1 .. Len(e) : e[k].group = g => k < i

DependencyExists(e, i, dep) ==
  \E k \in 1 .. Len(e) : e[k].id = dep \/ (dep # "" /\ e[k].group = dep)

DependencyPrecedes(e, i, dep) ==
  \/ \E k \in 1 .. i - 1 : e[k].id = dep
  \/ dep # "" /\ EndsBefore(e, dep, i)

ValidEnvelope(e) ==
  LET I == 1 .. Len(e)
  IN /\ \A i \in I : e[i].id # ""
     /\ \A i, k \in I : e[i].id = e[k].id => i = k
     /\ \A i, k \in I : e[i].group # e[k].id
     /\ \A i, k, l \in I :
          i < k /\ k < l /\ e[i].group = e[l].group /\ e[i].group # ""
            => e[k].group = e[i].group
     /\ \A i \in I : \A dep \in e[i].dependsOn : DependencyPrecedes(e, i, dep)

JsonInit ==
  /\ requests \in Envelopes
  /\ continueOnError \in BOOLEAN
  /\ pc = "validate"
  /\ pos = 1
  /\ failedIDs = {}
  /\ txState = [g \in Groups |-> "none"]
  /\ groupFailed = [g \in Groups |-> FALSE]
  /\ answers = << >>
  /\ executed = {}
  /\ flushed = {}

Reject ==
  /\ pc = "validate"
  /\ ~ValidEnvelope(requests)
  /\ pc' = "rejected"
  /\ UNCHANGED <<requests, continueOnError, pos, failedIDs, txState,
                 groupFailed, answers, executed, flushed>>

RejectTooLarge ==
  /\ pc = "validate"
  /\ ValidEnvelope(requests)
  /\ Len(requests) > MaxRequests
  /\ pc' = "tooLarge"
  /\ UNCHANGED <<requests, continueOnError, pos, failedIDs, txState,
                 groupFailed, answers, executed, flushed>>

Accept ==
  /\ pc = "validate"
  /\ ValidEnvelope(requests)
  /\ Len(requests) <= MaxRequests
  /\ pc' = "loop"
  /\ UNCHANGED <<requests, continueOnError, pos, failedIDs, txState,
                 groupFailed, answers, executed, flushed>>

-----------------------------------------------------------------------------
(* The loop over the requests.                                             *)

JsonResponse(k, status) ==
  [id |-> requests[k].id, group |-> requests[k].group, status |-> status]

\* The group's earlier answers are changed to 424.
WithGroupFailed(rs, g) ==
  [k \in 1 .. Len(rs) |->
     IF rs[k].group = g THEN [rs[k] EXCEPT !.status = "failedDependency"]
     ELSE rs[k]]

Marked(k) == {requests[k].id} \cup ({requests[k].group} \ {""})

InLoop == pc = "loop" /\ pos \in Indices
InGroup == item.group # ""

\* jsonItemToBatchRequest finds no method or no url.
Malformed == item.malformed

Skipped ==
  \/ item.dependsOn \cap failedIDs # {}
  \/ InGroup /\ groupFailed[item.group]

\* A dependency or the request's own group has failed: 424.  A skipped
\* request marks its group as failed for its dependents, not for the group.
SkipFailedDependency ==
  /\ InLoop /\ Skipped
  /\ failedIDs' = failedIDs \cup Marked(pos)
  /\ answers' = Append(answers, JsonResponse(pos, "failedDependency"))
  /\ pos' = pos + 1
  /\ UNCHANGED <<requests, continueOnError, pc, txState, groupFailed,
                 executed, flushed>>

\* A standalone request without method or url: 400; without
\* continue-on-error the loop ends here.
RejectMalformed ==
  /\ InLoop /\ ~Skipped /\ Malformed /\ ~InGroup
  /\ failedIDs' = failedIDs \cup Marked(pos)
  /\ answers' = Append(answers, JsonResponse(pos, "error"))
  /\ pos' = IF continueOnError THEN pos + 1 ELSE Len(requests) + 1
  /\ UNCHANGED <<requests, continueOnError, pc, txState, groupFailed,
                 executed, flushed>>

\* The same in a group, whose transaction is rolled back.
RejectMalformedInGroup ==
  LET g == item.group
  IN /\ InLoop /\ ~Skipped /\ Malformed /\ InGroup
     /\ failedIDs' = failedIDs \cup Marked(pos)
     /\ txState' = [txState EXCEPT ![g] = IF @ = "open" THEN "rolledBack"
                                          ELSE @]
     /\ groupFailed' = [groupFailed EXCEPT ![g] = TRUE]
     /\ answers' = Append(WithGroupFailed(answers, g),
                            JsonResponse(pos, "error"))
     /\ pos' = IF continueOnError THEN pos + 1 ELSE Len(requests) + 1
     /\ UNCHANGED <<requests, continueOnError, pc, executed, flushed>>

\* The group's transaction cannot be started: 500.
GroupBeginFails ==
  LET g == item.group
  IN /\ InLoop /\ ~Skipped /\ ~Malformed /\ InGroup
     /\ txState[g] = "none"
     /\ groupFailed' = [groupFailed EXCEPT ![g] = TRUE]
     /\ failedIDs' = failedIDs \cup Marked(pos)
     /\ answers' = Append(answers, JsonResponse(pos, "error"))
     /\ pos' = IF continueOnError THEN pos + 1 ELSE Len(requests) + 1
     /\ UNCHANGED <<requests, continueOnError, pc, txState, executed, flushed>>

\* A request of a group runs in the group's transaction, which Begin opens
\* for the first of them.
GroupRequestRuns ==
  /\ InLoop /\ ~Skipped /\ ~Malformed /\ InGroup
  /\ txState[item.group] \in {"none", "open"}
  /\ executed' = executed \cup {pos}

GroupRequestFailsKeepingEarlier ==
  LET g == item.group
  IN /\ GroupRequestRuns
     /\ txState' = [txState EXCEPT ![g] = "rolledBack"]
     /\ groupFailed' = [groupFailed EXCEPT ![g] = TRUE]
     /\ failedIDs' = failedIDs \cup Marked(pos)
     /\ answers' = Append(answers, JsonResponse(pos, "error"))
     /\ pos' = pos + 1
     /\ UNCHANGED <<requests, continueOnError, pc, flushed>>

\* ... fails: the transaction is rolled back and the group's earlier
\* answers become 424.
GroupRequestFails ==
  LET g == item.group
  IN /\ GroupRequestRuns
     /\ txState' = [txState EXCEPT ![g] = "rolledBack"]
     /\ groupFailed' = [groupFailed EXCEPT ![g] = TRUE]
     /\ failedIDs' = failedIDs \cup Marked(pos)
     /\ answers' = Append(WithGroupFailed(answers, g),
                            JsonResponse(pos, "error"))
     /\ pos' = pos + 1
     /\ UNCHANGED <<requests, continueOnError, pc, flushed>>

IsLastOfGroup == \A k \in Members(item.group) : k <= pos

\* ... succeeds and more of the group is to come.
GroupRequestSucceeds ==
  /\ GroupRequestRuns
  /\ ~IsLastOfGroup
  /\ txState' = [txState EXCEPT ![item.group] = "open"]
  /\ answers' = Append(answers, JsonResponse(pos, "ok"))
  /\ pos' = pos + 1
  /\ UNCHANGED <<requests, continueOnError, pc, failedIDs, groupFailed,
                 flushed>>

\* ... succeeds as the last of its group: commit, then flush the group's
\* pending change events.
GroupCommits ==
  /\ GroupRequestRuns
  /\ IsLastOfGroup
  /\ txState' = [txState EXCEPT ![item.group] = "committed"]
  /\ flushed' = flushed \cup {item.group}
  /\ answers' = Append(answers, JsonResponse(pos, "ok"))
  /\ pos' = pos + 1
  /\ UNCHANGED <<requests, continueOnError, pc, failedIDs, groupFailed>>

\* ... but the commit fails: all the group's answers become 424.
GroupCommitFails ==
  LET g == item.group
  IN /\ GroupRequestRuns
     /\ IsLastOfGroup
     /\ txState' = [txState EXCEPT ![g] = "rolledBack"]
     /\ groupFailed' = [groupFailed EXCEPT ![g] = TRUE]
     /\ failedIDs' = failedIDs \cup Marked(pos)
     /\ answers' = WithGroupFailed(Append(answers, JsonResponse(pos, "ok")), g)
     /\ pos' = pos + 1
     /\ UNCHANGED <<requests, continueOnError, pc, flushed>>

\* A standalone request succeeds.
StandaloneSucceeds ==
  /\ InLoop /\ ~Skipped /\ ~Malformed /\ ~InGroup
  /\ executed' = executed \cup {pos}
  /\ answers' = Append(answers, JsonResponse(pos, "ok"))
  /\ pos' = pos + 1
  /\ UNCHANGED <<requests, continueOnError, pc, failedIDs, txState,
                 groupFailed, flushed>>

\* A standalone request fails.  Without continue-on-error all the remaining
\* requests are answered 424 and the loop ends.
StandaloneFails ==
  LET rest == IF continueOnError THEN {} ELSE {k \in Indices : k > pos}
  IN /\ InLoop /\ ~Skipped /\ ~Malformed /\ ~InGroup
     /\ executed' = executed \cup {pos}
     /\ failedIDs' = failedIDs \cup {item.id}
                       \cup {requests[k].id : k \in rest}
     /\ answers' =
          LET answered == Append(answers, JsonResponse(pos, "error"))
          IN answered \o [k \in 1 .. Cardinality(rest) |->
                            JsonResponse(pos + k, "failedDependency")]
     /\ pos' = pos + 1 + Cardinality(rest)
     /\ UNCHANGED <<requests, continueOnError, pc, txState, groupFailed,
                    flushed>>

\* After the loop: transactions neither committed nor failed are rolled
\* back, and the answers are written.
Finish ==
  /\ pc = "loop" /\ pos \notin Indices
  /\ txState' = [g \in Groups |->
                   IF txState[g] = "open" /\ ~groupFailed[g]
                   THEN "rolledBack" ELSE txState[g]]
  /\ pc' = "written"
  /\ UNCHANGED <<requests, continueOnError, pos, failedIDs, groupFailed,
                 answers, executed, flushed>>

JsonNext ==
  \/ Reject \/ RejectTooLarge \/ Accept
  \/ SkipFailedDependency \/ RejectMalformed \/ RejectMalformedInGroup
  \/ GroupBeginFails \/ GroupRequestFails \/ GroupRequestSucceeds
  \/ GroupCommits \/ GroupCommitFails
  \/ StandaloneSucceeds \/ StandaloneFails
  \/ Finish

JsonSpec == JsonInit /\ [][JsonNext]_jsonVars

-----------------------------------------------------------------------------
(* Properties.                                                             *)

Statuses == {"ok", "error", "failedDependency"}
Answered(k) == k <= Len(answers)

\* The state of the loop keeps its type and the answers written so far
\* answer the first requests, in order, each with its own id and group.
JsonTypeOK ==
  /\ requests \in Seq(Items)
  /\ continueOnError \in BOOLEAN
  /\ pc \in {"validate", "loop", "rejected", "tooLarge", "written"}
  /\ pos \in 1 .. Len(requests) + 1
  /\ txState \in [Groups -> {"none", "open", "committed", "rolledBack"}]
  /\ groupFailed \in [Groups -> BOOLEAN]
  /\ answers \in Seq([id : STRING, group : STRING, status : Statuses])
  /\ Len(answers) <= Len(requests)
  /\ \A k \in 1 .. Len(answers) :
       /\ answers[k].id = requests[k].id
       /\ answers[k].group = requests[k].group
  /\ executed \subseteq 1 .. Len(answers)
  /\ flushed \subseteq Groups

\* Every Begin is paired with Commit or Rollback by the time the response is
\* written, whichever branch ended the loop, and change events are published
\* exactly for the groups that committed.
TransactionsSettle ==
  \A g \in Groups :
    /\ pc = "written" => txState[g] # "open"
    /\ g \in flushed <=> txState[g] = "committed"

\* A group that failed at any point has no effect and no witness: its
\* transaction did not commit, its change events were not published, and no
\* response of it still reports success.
FailedGroupLeavesNothing ==
  \A g \in Groups : groupFailed[g] =>
    /\ txState[g] \in {"none", "rolledBack"}
    /\ g \notin flushed
    /\ \A k \in Members(g) : Answered(k) => answers[k].status # "ok"

\* No transaction of a group outlives the batch or its failure: what its
\* answers, its events and the database say agree, however the loop ended.
GroupsSettle == TransactionsSettle /\ FailedGroupLeavesNothing

\* A handler runs only if each atomicity group it depends on committed and
\* each standalone request it depends on succeeded.
DependencyHonoured ==
  \A k \in executed : \A dep \in requests[k].dependsOn :
    /\ dep \in Groups => txState[dep] = "committed"
    /\ \A i \in Indices : requests[i].id = dep /\ requests[i].group = ""
         => Answered(i) /\ answers[i].status = "ok"

\* With continue-on-error=false nothing runs after a standalone request that
\* failed.
StopsAtFirstFailure ==
  \A i \in Indices :
    ~continueOnError /\ requests[i].group = "" /\ Answered(i)
      /\ answers[i].status = "error"
    => \A k \in executed : k <= i

\* With continue-on-error (the default) every request gets its response.
AllAnsweredByDefault ==
  pc = "written" /\ continueOnError => Len(answers) = Len(requests)

\* Which handlers run: never one whose dependencies did not succeed, none after
\* the failure that stops the batch, and every other request is answered, in
\* the order of the requests.
OnlyWhatMayRunRuns == JsonTypeOK /\ DependencyHonoured /\ StopsAtFirstFailure /\ AllAnsweredByDefault

\* A group none of whose requests is skipped for a failed dependency is
\* all-or-nothing: all its requests are answered as successful and its
\* transaction is committed, or none is and it is not.
UnskippedGroupIsAtomic ==
  pc = "written" =>
    \A g \in Groups :
      (\A k \in Members(g) : requests[k].dependsOn \cap failedIDs = {}) =>
        \/ /\ txState[g] = "committed"
           /\ \A k \in Members(g) : Answered(k) /\ answers[k].status = "ok"
        \/ /\ txState[g] # "committed"
           /\ \A k \in Members(g) : Answered(k) => answers[k].status # "ok"

\* However the loop ends, the transaction of a group is settled and its requests
\* share one outcome, which answers, change events and the database all tell.
GroupsAreWhole == GroupsSettle /\ UnskippedGroupIsAtomic

\* The comment of handleJSONBatch: "all requests sharing a group name run in
\* a single database transaction; if any individual request fails the
\* transaction is rolled back and all responses for that group ... are
\* changed to 424".
GroupIsAtomic ==
  pc = "written" =>
    \A g \in Groups :
      (\E k \in Members(g) : Answered(k) /\ answers[k].status # "ok") =>
        /\ txState[g] # "committed"
        /\ \A k \in Members(g) : Answered(k) => answers[k].status # "ok"

-----------------------------------------------------------------------------
(* The inductive invariant behind GroupsAreWhole and OnlyWhatMayRunRuns.   *)

\* Nothing happens before the envelope is accepted; the loop then answers one
\* request after the other until it is done or stopped.
Fresh ==
  /\ pos = 1 /\ failedIDs = {} /\ answers = << >> /\ executed = {} /\ flushed = {}
  /\ \A g \in Groups : txState[g] = "none" /\ ~groupFailed[g]
Progress ==
  /\ pc \notin {"loop", "written"} => Fresh
  /\ pc \in {"loop", "written"} => ValidEnvelope(requests)
  /\ pc = "written" => pos = Len(requests) + 1
  /\ Len(answers) <= pos - 1
  /\ pos \in Indices \/ continueOnError => Len(answers) = pos - 1

AnsweredOk(k) == Answered(k) /\ answers[k].status = "ok"
SkippedByDependency(k) == requests[k].dependsOn \cap failedIDs # {}
AllProcessed(g) == \A k \in Members(g) : k < pos

\* While the loop goes on, whoever depends on what was processed can tell from
\* failedIDs how it ended; a failure that stops the batch leaves nothing to do.
OutcomesAreKnown ==
  /\ pos \in Indices =>
       /\ \A g \in Groups : AllProcessed(g) => g \in failedIDs \/ txState[g] = "committed"
       /\ \A i \in Indices :
            i < pos /\ requests[i].group = "" => requests[i].id \in failedIDs \/ AnsweredOk(i)
  /\ \A i \in Indices :
       ~continueOnError /\ requests[i].group = "" /\ Answered(i) /\ answers[i].status = "error"
         => pos \notin Indices

\* What a group's transaction tells of its answers.
TransactionsTell ==
  \A g \in Groups :
    /\ txState[g] = "none" => \A k \in Members(g) : ~AnsweredOk(k)
    /\ txState[g] # "none" => \E k \in Members(g) : k < pos
    /\ txState[g] = "committed" => AllProcessed(g)
    /\ ~groupFailed[g] /\ (pos \in Indices \/ txState[g] # "none") =>
         \A k \in Members(g) : k < pos => AnsweredOk(k) \/ SkippedByDependency(k)
    /\ ~groupFailed[g] /\ txState[g] \in {"open", "rolledBack"} /\ AllProcessed(g) =>
         \E k \in Members(g) : SkippedByDependency(k)

JsonInv ==
  /\ JsonTypeOK /\ Progress /\ OutcomesAreKnown /\ TransactionsTell
  /\ GroupsSettle /\ DependencyHonoured /\ StopsAtFirstFailure
=============================================================================
