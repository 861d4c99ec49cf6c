------------------------------ MODULE AtomicRow ------------------------------
(***************************************************************************)
(* What concurrent writes to one entity promise, on a database that refuses*)
(* to update a row which changed since it was read: each write takes effect*)
(* at most once, at one moment between its request and its answer, on a row*)
(* that meets its preconditions at that moment, and its answer tells       *)
(* whether it did.                                                         *)
(***************************************************************************)
EXTENDS Integers

CONSTANTS Requests, Props, Immutable, EtagKind, FirstTags, NoRow, NoRequest

VARIABLES
  row,     \* the row of the entity, or NoRow
  asked,   \* what each request asks for while it is served
  phase,   \* of each request: "new", "asked", "applied" or "answered"
  status   \* its answer
vars == <<row, asked, phase, status>>

Init ==
  /\ row # NoRow => row.etag = 1
  /\ asked = [r \in Requests |-> NoRequest]
  /\ phase = [r \in Requests |-> "new"]
  /\ status = [r \in Requests |-> "none"]

\* A header that lists nothing and is no "*" asks nothing.
Given(h) == h.any \/ h.tags # {}
Lists(h, tag) == h.any \/ tag \in h.tags
Meets(q, tag) ==
  \/ EtagKind = "none"
  \/ /\ Given(q.ifMatch) => Lists(q.ifMatch, tag)
     /\ Given(q.ifNoneMatch) => ~Lists(q.ifNoneMatch, tag)

NextTag(tag) == IF EtagKind = "int" THEN tag + 1 ELSE tag

\* The request q of r makes the row new out of the row old.
Create(q, r, old, new) ==
  /\ q.method = "POST" /\ old = NoRow
  /\ \E tag \in FirstTags : new = [etag |-> tag, props |-> [p \in Props |-> r]]
Change(q, r, old, new) ==
  /\ old # NoRow /\ Meets(q, old.etag)
  /\ \/ /\ q.method = "PATCH" /\ q.body \cap Immutable = {}
        /\ new = [etag |-> NextTag(old.etag),
                  props |-> [p \in Props |-> IF p \in q.body THEN r ELSE old.props[p]]]
     \/ /\ q.method = "PUT"
        /\ new = [etag |-> NextTag(old.etag),
                  props |-> [p \in Props |-> IF p \in Immutable THEN old.props[p] ELSE r]]
     \/ q.method = "DELETE" /\ new = NoRow
Takes(q, r, old, new) == Create(q, r, old, new) \/ Change(q, r, old, new)

\* What a request asks for is up to its client.
Ask(r) ==
  /\ phase[r] = "new" /\ phase' = [phase EXCEPT ![r] = "asked"]
  /\ asked'[r] # NoRequest /\ asked' = [asked EXCEPT ![r] = asked'[r]]
  /\ UNCHANGED <<row, status>>

Apply(r) ==
  /\ phase[r] = "asked" /\ phase' = [phase EXCEPT ![r] = "applied"]
  /\ Takes(asked[r], r, row, row')
  /\ UNCHANGED <<asked, status>>

Answer(r, s) ==
  /\ phase' = [phase EXCEPT ![r] = "answered"]
  /\ status' = [status EXCEPT ![r] = s]
  /\ asked' = [asked EXCEPT ![r] = NoRequest]
  /\ UNCHANGED row

\* A failure is answered to a request that changed nothing; 404 and 412 are
\* true when they are decided.
Fail(r) ==
  /\ phase[r] = "asked"
  /\ \/ Answer(r, "refused") \/ Answer(r, "databaseError")
     \/ row = NoRow /\ Answer(r, "notFound")
     \/ row # NoRow /\ ~Meets(asked[r], row.etag) /\ Answer(r, "preconditionFailed")

\* An update that took effect may fail to be read back for its response.
Succeed(r) ==
  /\ phase[r] = "applied"
  /\ \/ asked[r].method = "POST" /\ Answer(r, "created")
     \/ asked[r].method = "DELETE" /\ Answer(r, "deleted")
     \/ asked[r].method \in {"PATCH", "PUT"} /\ (Answer(r, "updated") \/ Answer(r, "responseError"))

Next == \E r \in Requests : Ask(r) \/ Apply(r) \/ Fail(r) \/ Succeed(r)

Spec == Init /\ [][Next]_vars
=============================================================================
