------------------------------ MODULE MCWrites -------------------------------
(* Requests that write: to one row for EntityWrite, bodies of a few parts  *)
(* for MultipartBatch, small families of envelopes for JsonBatch, and      *)
(* requests that reach related entities for RelatedWrites.  A behaviour is *)
(* about one of the four, and the others stay where they start.            *)
EXTENDS EntityWrite, MultipartBatch, JsonBatch, RelatedWrites

-----------------------------------------------------------------------------
(* Envelopes.                                                              *)

Item(id, g, deps, bad) ==
  [id |-> id, group |-> g, dependsOn |-> deps, malformed |-> bad]

AtMostOne(S) == {{}} \cup {{x} : x \in S}

\* Four requests, at most one dependency each, one group, any malformed.
OneGroup ==
  {<<Item("1", g1, {}, b1), Item("2", g2, d2, b2), Item("3", g3, d3, b3),
     Item("4", g4, d4, FALSE)>> :
     g1, g2, g3, g4 \in {"", "g"}, b1, b2, b3 \in BOOLEAN,
     d2 \in AtMostOne({"1"}), d3 \in AtMostOne({"1", "2", "g"}),
     d4 \in AtMostOne({"1", "3", "g"})}

\* Two groups, the second may depend on the first or on a part of it.
TwoGroups ==
  {<<Item("1", "g", {}, FALSE), Item("2", g2, d2, FALSE),
     Item("3", "h", d3, FALSE), Item("4", g4, d4, FALSE)>> :
     g2 \in {"", "g", "h"}, g4 \in {"", "h"},
     d2 \in AtMostOne({"1"}), d3 \in AtMostOne({"1", "2", "g"}),
     d4 \in AtMostOne({"2", "3", "g", "h"})}

\* Envelopes that break the rules on ids, groups and dependencies, and one
\* that is too long.
Irregular ==
  {<<Item(i1, g1, d1, FALSE), Item("2", g2, {}, FALSE),
     Item(i3, g3, d3, FALSE)>> :
     i1, i3 \in {"", "1", "2", "3"}, g1, g2, g3 \in {"", "g", "2"},
     d1, d3 \in AtMostOne({"1", "3", "g"})}
  \cup {[k \in 1 .. 5 |-> Item(<<"1", "2", "3", "4", "5">>[k], "", {}, FALSE)],
        << >>}

MCEnvelopes == OneGroup \cup TwoGroups \cup Irregular

-----------------------------------------------------------------------------
(* Requests that read or write a link: every kind, two at a time.           *)

Ok(q) == q @@ "form" :> "ok"

OnProduct(p) ==
  {[kind |-> "post", p |-> p, link |-> c, by |-> b] :
      c \in Categories, b \in {"bind", "fk", "inline"}}
  \cup {[kind |-> "post", p |-> p, link |-> None, by |-> "none"]}
  \cup {[kind |-> "patch", p |-> p, name |-> n, link |-> c, by |-> b,
         deep |-> d] : n \in BOOLEAN, c \in Categories, b \in {"bind", "fk"},
                       d \in BOOLEAN}
  \cup {[kind |-> "patch", p |-> p, name |-> TRUE, link |-> None,
         by |-> "none", deep |-> d] : d \in BOOLEAN}
  \cup {[kind |-> "put", p |-> p, link |-> None, by |-> "none"]}
  \cup {[kind |-> "put", p |-> p, link |-> c, by |-> "fk"] : c \in Categories}
  \cup {[kind |-> k, p |-> p, c |-> c] :
          k \in {"putRef", "addRef", "removeRef"}, c \in Categories}
  \cup {[kind |-> k, p |-> p] :
          k \in {"deleteRef", "putStream", "putMedia", "delete"}}

OnCategory(c) ==
  {[kind |-> k, c |-> c, ps |-> ps] :
      k \in {"postCategory", "patchCategory"}, ps \in SUBSET Products}
  \cup {[kind |-> "deleteCategory", c |-> c]}

MCRequests ==
  {Ok(q) : q \in UNION {OnProduct(p) : p \in Products}
                 \cup UNION {OnCategory(c) : c \in Categories}
                 \cup {[kind |-> k, p |-> Me] : k \in {"patchMe", "putMe"}}}
  \cup {[kind |-> "putRef", form |-> f] :
          f \in {"auth", "nav", "kind", "body", "id"}}

\* Each part may rename its own model values.  To rename those of all parts at
\* once, odd permutations with odd ones, is enough, as only one part moves.
Odd(f) == Cardinality({x \in DOMAIN f : f[x] # x}) = 2
Symmetry ==
  {p @@ i @@ c : <<p, i, c>> \in
     {f \in Permutations(RowRequests) \X Permutations(ContentIDs) \X Permutations(Clients) :
        Odd(f[1]) = Odd(f[2]) /\ Odd(f[2]) = Odd(f[3])}}

-----------------------------------------------------------------------------
VARIABLE part     \* "row", "multipart", "json" or "related"
writesVars == <<part, rowVars, vars, jsonVars, relatedVars>>

\* A database without the row, and the JSON loop over no requests.
RowOff == RowInit /\ db = Absent /\ isolation = CHOOSE i \in Isolations : TRUE
JsonOff ==
  /\ requests = <<>> /\ continueOnError = FALSE /\ pc = "validate" /\ pos = 1 /\ failedIDs = {}
  /\ txState = <<>> /\ groupFailed = <<>> /\ answers = <<>> /\ executed = {} /\ flushed = {}

WritesInit ==
  /\ part \in {"row", "multipart", "json", "related"}
  /\ Init /\ RelatedInit
  /\ IF part = "row" THEN RowInit ELSE RowOff
  /\ IF part = "json" THEN JsonInit ELSE JsonOff
RowStep == part = "row" /\ RowNext /\ UNCHANGED <<part, vars, jsonVars, relatedVars>>
MultipartStep ==
  part = "multipart" /\ Next /\ UNCHANGED <<part, rowVars, jsonVars, relatedVars>>
JsonStep == part = "json" /\ JsonNext /\ UNCHANGED <<part, rowVars, vars, relatedVars>>
RelatedStep == part = "related" /\ RelatedNext /\ UNCHANGED <<part, rowVars, vars, jsonVars>>
WritesNext == RowStep \/ MultipartStep \/ JsonStep \/ RelatedStep
WritesSpec == WritesInit /\ [][WritesNext]_writesVars
=============================================================================
