---------------------------- MODULE AsyncJobSpec ----------------------------
(***************************************************************************)
(* What asynchronous processing promises a client that polls a monitor: a  *)
(* job is accepted, obtains one result that never changes, and is          *)
(* eventually forgotten.                                                   *)
(***************************************************************************)
CONSTANTS JobIds, Results

VARIABLE view   \* what the monitor of each job shows

Init == view = [j \in JobIds |-> "unknown"]

Accept(j) ==
  /\ view[j] = "unknown"
  /\ view' = [view EXCEPT ![j] = "accepted"]

Resolve(j) ==
  /\ view[j] = "accepted"
  /\ \E r \in Results : view' = [view EXCEPT ![j] = r]

\* The cleanup may prune several rows at once.
Forget ==
  /\ \E J \in SUBSET {j \in JobIds : view[j] \in Results} :
       view' = [j \in JobIds |-> IF j \in J THEN "gone" ELSE view[j]]

Next == (\E j \in JobIds : Accept(j) \/ Resolve(j)) \/ Forget

Spec == Init /\ [][Next]_view

FairSpec == Spec /\ \A j \in JobIds : WF_view(Resolve(j))
=============================================================================
