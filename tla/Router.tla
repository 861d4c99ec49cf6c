------------------------------- MODULE Router -------------------------------
(***************************************************************************)
(* From a request to what serves it: version gate, service resources,      *)
(* unbound operations, the URL parser, the router's dispatch over keys,    *)
(* properties and bound operations, and the choice of an overload          *)
(* (internal/service/router, internal/response, internal/service/          *)
(* operations, internal/actions).  A path is a sequence of segments; a     *)
(* segment has a qualifier, a name and what it has in parentheses.         *)
(***************************************************************************)
EXTENDS Integers, Sequences, FiniteSets

CONSTANTS
  Namespace,    \* the schema namespace of the service
  Handlers,     \* per entity set or singleton: its properties
  Overloads,    \* the registered operations, in the order of registration
  Paths, Ids,   \* the paths asked for, and the URLs in $id
  Parameters,   \* the sets of parameters a request gives, and of system options
  Options,
  Versions      \* the values of OData-MaxVersion

\* The shapes of what is registered and of what is asked for.
Segments == [ns : STRING, name : STRING, call : STRING]
Definitions ==
  [kind : {"action", "function"}, name : STRING, bound : BOOLEAN, set : STRING,
   required : SUBSET STRING, optional : SUBSET STRING, many : BOOLEAN]
ASSUME RouterAssumption ==
  Overloads \in Seq(Definitions) /\ Paths \subseteq Seq(Segments) /\ Ids \subseteq Seq(Segments)

VARIABLES request, route, version
routerVars == <<request, route, version>>

-----------------------------------------------------------------------------
(* Segments.                                                               *)

Unset == ""                                    \* no qualifier, no set, no marker
Blank == "none"                                \* no parentheses
Seg(ns, name, call) == [ns |-> ns, name |-> name, call |-> call]
Word(name) == Seg(Unset, name, Blank)
Markers == {"$count", "$ref", "$value"}
IsMarker(seg) == seg.ns = Unset /\ seg.call = Blank /\ seg.name \in Markers
Exactly(seg, names) == seg.ns = Unset /\ seg.call = Blank /\ seg.name \in names

\* What serves a request: a handler with its arguments, or a status code.
Reply(to, set, key, seg, mark) ==
  [to |-> to, set |-> set, key |-> key, seg |-> seg, mark |-> mark, cast |-> Unset, def |-> 0]
Whole(to, set, key) == Reply(to, set, key, Word(Unset), Unset)
Status(code) == Whole(code, Unset, <<>>)

IsNavigationProperty(h, seg) == seg.ns = Unset /\ seg.name \in DOMAIN Handlers[h].nav
IsCollectionNavigationProperty(h, seg) == IsNavigationProperty(h, seg) /\ Handlers[h].nav[seg.name].many
IsStructuralProperty(h, seg) == Exactly(seg, Handlers[h].structural)
IsStreamProperty(h, seg) == Exactly(seg, Handlers[h].streams)
IsComplexTypeProperty(h, seg) == Exactly(seg, Handlers[h].complex)
IsProperty(h, seg) ==
  IsNavigationProperty(h, seg) \/ IsStructuralProperty(h, seg)
    \/ IsStreamProperty(h, seg) \/ IsComplexTypeProperty(h, seg)
NavigationTargetSet(h, seg) == Handlers[h].nav[seg.name].to

isActionOrFunction(name) == \E i \in DOMAIN Overloads : Overloads[i].name = name

\* Any qualifier but the service's own fails to resolve.
resolves(seg) == seg.ns \in {Unset, Namespace}
resolveBoundName(seg) == IF resolves(seg) THEN seg.name ELSE Unset
isBoundOperationSegment(seg) == resolves(seg) /\ isActionOrFunction(resolveBoundName(seg))
\* The places that look the segment up as it is spelled.
isOperationAsSpelled(seg) == seg.ns = Unset /\ isActionOrFunction(seg.name)
isUnresolvableQualifiedOperation(seg) == ~resolves(seg) /\ isActionOrFunction(seg.name)

-----------------------------------------------------------------------------
(* The version gate.                                                       *)

LessThanOrEqual(v, w) == v[1] < w[1] \/ (v[1] = w[1] /\ v[2] <= w[2])
NoVersion == <<>>                                 \* no OData-MaxVersion; <<0, 0>> is an unreadable one
NegotiateVersion(max) ==
  IF max = NoVersion \/ LessThanOrEqual(<<4, 1>>, max) THEN <<4, 1>> ELSE <<4, 0>>
Rejected(max) == max # NoVersion /\ max[1] > 0 /\ max[1] < 4

-----------------------------------------------------------------------------
(* Operations: the overload that answers.                                  *)

Known(def) == def.required \cup def.optional

\* Parameters in the URL: the parentheses of the path's LAST segment, whatever
\* it is.  A key there, which names no parameter, is an invalid pair.
InParentheses(req) == req.path[Len(req.path)].call
PathParameters(req) == {InParentheses(req)} \cap UNION Parameters
InvalidPair(req) == InParentheses(req) \notin {Blank, "()"} \cup UNION Parameters
Provided(req) ==
  IF req.method = "POST" THEN req.body ELSE PathParameters(req) \cup req.params

NamesMatch(def, provided) == def.required \subseteq provided /\ provided \subseteq Known(def)

\* A function is refused for an invalid pair.  One candidate ignores what it does
\* not know; several need the exact names, system query options included.
Candidates(kind, name, bound, set) ==
  {i \in DOMAIN Overloads : LET d == Overloads[i] IN
     d.kind = kind /\ d.name = name /\ d.bound = bound /\ (bound => d.set = set)}
MatchingSubset(req, candidates) == {i \in candidates : Overloads[i].required \subseteq Provided(req)}
Matching(req, candidates) ==
  IF req.method # "POST" /\ InvalidPair(req) THEN {}
  ELSE IF Cardinality(candidates) = 1
    THEN {i \in candidates : Overloads[i].required \subseteq Provided(req)}
    ELSE {i \in candidates :
            NamesMatch(Overloads[i], Provided(req) \cup (IF req.method = "POST" THEN {} ELSE req.system))}
First(ids) == CHOOSE i \in ids : \A j \in ids : i <= j

resolveInvocation(req, kind, name, bound, set) ==
  LET matching == Matching(req, Candidates(kind, name, bound, set)) IN
  IF ~\E i \in DOMAIN Overloads : Overloads[i].kind = kind /\ Overloads[i].name = name THEN -404
  ELSE IF matching = {} THEN -400 ELSE First(matching)

HandleActionOrFunction(req, name, key, bound, set, count) ==
  LET kind == IF req.method = "POST" THEN "action" ELSE "function"
      def == resolveInvocation(req, kind, name, bound, set) IN
  IF count /\ req.method = "POST" THEN Status("400")
  ELSE IF req.method \notin {"GET", "POST"} THEN Status("405")
  ELSE IF def = -404 THEN Status("404")
  ELSE IF def = -400 \/ (count /\ ~Overloads[def].many) THEN Status("400")
  ELSE [Reply(kind, set, key, Word(name), IF count THEN "$count" ELSE Unset) EXCEPT !.def = def]

-----------------------------------------------------------------------------
(* ParseODataURLComponents.                                                *)

Rest(path, i) == SubSeq(path, i, Len(path))
isTypeCastSegment(seg) == seg.ns # Unset /\ seg.call = Blank
Has(marker, segs) == \E i \in DOMAIN segs : segs[i] = Word(marker)

\* The segments that are no markers, in their order.
NonMarkers(segs) ==
  LET kept == {i \in DOMAIN segs : ~IsMarker(segs[i])}
      place(k) == CHOOSE i \in kept : Cardinality({j \in kept : j <= i}) = k
  IN [k \in 1..Cardinality(kept) |-> segs[place(k)]]

ParseODataURLComponents(path) ==
  LET cast == Len(path) > 1 /\ isTypeCastSegment(path[2])
      rest == Rest(path, IF cast THEN 3 ELSE 2)
      \* a marker in the first place hides everything after it
      seen == IF rest # <<>> /\ IsMarker(rest[1]) THEN <<rest[1]>> ELSE rest
  IN  [set |-> IF path[1].ns = Unset THEN path[1].name ELSE Unset,
       key |-> IF path[1].call \in {Blank, "()"} THEN <<>> ELSE <<path[1].call>>,
       cast |-> IF cast THEN <<path[2]>> ELSE <<>>,
       segs |-> NonMarkers(seen),
       count |-> Has("$count", seen), ref |-> Has("$ref", seen), value |-> Has("$value", seen)]

\* A qualified operation without parentheses looks like a type cast.
Reinterpreted(c) ==
  IF c.cast # <<>> /\ c.segs = <<>> /\ isBoundOperationSegment(c.cast[1])
    THEN [c EXCEPT !.cast = <<>>, !.segs = <<Word(c.cast[1].name)>>] ELSE c

-----------------------------------------------------------------------------
(* Dispatch.                                                               *)

\* Two segments that are a collection and the key of one of its entities.
isNavigationWithKey(h, segs) ==
  /\ Len(segs) = 2 /\ IsCollectionNavigationProperty(h, segs[1])
  /\ ~IsProperty(h, segs[2]) /\ ~isOperationAsSpelled(segs[2])
endsInOperation(segs) == LET last == segs[Len(segs)] IN resolves(last) /\ isActionOrFunction(last.name)

\* The last step of handlePropertyRequest, at the entity it has come to.
servePropertyRequest(req, h, key, segs, flags) ==
  LET first == segs[1] last == segs[Len(segs)]
      navigation(seg) ==
        IF flags.value THEN Status("400")
        ELSE Reply("navigation", h, key, seg, IF flags.ref THEN "$ref" ELSE Unset) IN
  IF isBoundOperationSegment(first)
    THEN HandleActionOrFunction(req, resolveBoundName(first), key, TRUE, h, FALSE)
  ELSE IF isNavigationWithKey(h, segs)
    THEN navigation([first EXCEPT !.call = IF @ = Blank THEN last.name ELSE "malformed"])
  ELSE IF Len(segs) > 1 /\ IsNavigationProperty(h, first)
    THEN IF endsInOperation(segs)
           THEN HandleActionOrFunction(req, last.name, <<>>, TRUE, NavigationTargetSet(h, first), FALSE)
           ELSE Status("500")
  ELSE IF IsNavigationProperty(h, first)
    THEN navigation(first)
  ELSE IF ~IsProperty(h, first) THEN Status("404")
  ELSE IF flags.ref THEN Status("400")
  ELSE Reply(IF IsStreamProperty(h, first) THEN "stream"
             ELSE IF IsStructuralProperty(h, first) THEN "structural" ELSE "complex",
             h, key, first, IF flags.value THEN "$value" ELSE Unset)

\* It calls itself for the entity a single-valued navigation leads to.
chains(h, segs) ==
  /\ ~isBoundOperationSegment(segs[1]) /\ ~isNavigationWithKey(h, segs) /\ ~endsInOperation(segs)
  /\ Len(segs) > 1 /\ IsNavigationProperty(h, segs[1])
  /\ segs[1].call = Blank /\ ~IsCollectionNavigationProperty(h, segs[1])
handlePropertyRequest(req, h, key, segs, flags) ==
  LET set[i \in 1..Len(segs)] == IF i = 1 THEN h ELSE NavigationTargetSet(set[i - 1], segs[i - 1])
      ends(i) == ~chains(set[i], Rest(segs, i))
      n == CHOOSE i \in 1..Len(segs) : ends(i) /\ \A j \in 1..(i - 1) : ~ends(j)
  IN servePropertyRequest(req, set[n], key \o [i \in 1..(n - 1) |-> segs[i].name], Rest(segs, n),
                          [flags EXCEPT !.value = @ /\ n = 1])

resolveKeyKeepingIt(h, c) ==
  IF /\ c.key = <<>> /\ ~Handlers[h].singleton /\ c.segs # <<>>
     /\ ~IsProperty(h, c.segs[1]) /\ ~isBoundOperationSegment(c.segs[1])
    THEN [c EXCEPT !.key = <<c.segs[1].name>>] ELSE c
\* Key-as-segment: a first segment that is no property and no operation.
resolveKeyAsSegment(h, c) ==
  IF /\ c.key = <<>> /\ ~Handlers[h].singleton /\ c.segs # <<>>
     /\ ~IsProperty(h, c.segs[1]) /\ ~isBoundOperationSegment(c.segs[1])
    THEN [c EXCEPT !.key = <<c.segs[1].name>>, !.segs = Tail(c.segs)] ELSE c

routeRequest(req, h, parsed) ==
  LET c == resolveKeyAsSegment(h, parsed) IN
  IF c.count
    THEN IF c.key # <<>> /\ c.segs # <<>>
           THEN IF isOperationAsSpelled(c.segs[1])
                  THEN HandleActionOrFunction(req, c.segs[1].name, c.key, TRUE, h, TRUE)
                  ELSE Reply("navigation count", h, c.key, c.segs[1], Unset)
         ELSE IF c.key = <<>> /\ c.segs = <<>> THEN Whole("count", h, <<>>) ELSE Status("400")
  ELSE IF c.ref /\ c.segs = <<>>
    THEN Whole(IF c.key = <<>> THEN "collection ref" ELSE "entity ref", h, c.key)
  ELSE IF c.segs # <<>> /\ (c.ref \/ Handlers[h].singleton \/ c.key # <<>>)
    THEN handlePropertyRequest(req, h, c.key, c.segs, [ref |-> c.ref, value |-> c.value])
  ELSE IF Handlers[h].singleton THEN Whole("singleton", h, <<>>)
  ELSE IF c.key # <<>>
    THEN Whole(IF c.value THEN "media" ELSE "entity", h, c.key)
  ELSE IF c.value THEN Status("400")
  ELSE IF c.segs = <<>> THEN Whole("collection", h, <<>>)
  ELSE IF isBoundOperationSegment(c.segs[1])
    THEN HandleActionOrFunction(req, resolveBoundName(c.segs[1]), <<>>, TRUE, h, FALSE)
  ELSE Status("404")

\* The operations at the service root, before any parsing.
UnboundParameterless(name) ==
  \E i \in DOMAIN Overloads :
    LET d == Overloads[i] IN d.kind = "function" /\ d.name = name /\ ~d.bound /\ Known(d) = {}
AtRoot(req) ==
  LET path == req.path alone == Len(path) = 1 IN
  isBoundOperationSegment(path[1]) /\
    CASE req.method = "GET" ->
           path[1].call # Blank \/ (alone /\ UnboundParameterless(path[1].name) /\ req.params = {})
      [] req.method = "POST" -> alone /\ path[1].call = Blank
      [] OTHER -> alone \/ path[1].call # Blank
Composed(path) == Len(path) > 1 /\ path[Len(path)] = Word("$count") /\ path[Len(path) - 1].call # Blank

ServiceResource(path) ==
  CASE path = <<>> -> "service document"
    [] path = <<Word("$metadata")>> -> "metadata"
    [] path = <<Word("$batch")>> -> "batch"
    [] path = <<Word("$entity")>> -> "dereference"
    [] OTHER -> "none"

Resource(req) ==
  LET c == Reinterpreted(ParseODataURLComponents(req.path)) IN
  IF AtRoot(req)
    THEN HandleActionOrFunction(req, resolveBoundName(req.path[1]), <<>>, FALSE, Unset,
                                req.method = "GET" /\ Composed(req.path))
  ELSE IF c.set \notin DOMAIN Handlers THEN Status("404")
  ELSE IF c.cast # <<>> /\ c.segs = <<>> /\ isUnresolvableQualifiedOperation(c.cast[1]) THEN Status("404")
  ELSE LET r == routeRequest(req, c.set, c) IN
       IF c.cast = <<>> THEN r ELSE [r EXCEPT !.cast = c.cast[1].name]

\* $entity answers for the URL of $id; its own $id is not looked at again.
handleEntityDereference(req) ==
  IF req.method # "GET" THEN Status("405")
  ELSE IF req.id = <<>> THEN Status("400")
  ELSE LET target == [req EXCEPT !.path = req.id, !.id = <<>>] IN
       CASE ServiceResource(target.path) = "none" -> Resource(target)
         [] ServiceResource(target.path) = "dereference" -> Status("400")
         [] OTHER -> Status(ServiceResource(target.path))

ServeHTTP(req) ==
  IF Rejected(req.max) THEN Status("406")
  ELSE CASE ServiceResource(req.path) = "none" -> Resource(req)
         [] ServiceResource(req.path) = "dereference" -> handleEntityDereference(req)
         [] OTHER -> Status(ServiceResource(req.path))

-----------------------------------------------------------------------------
Nothing == [path |-> <<>>]
RouterInit == request = Nothing /\ route = Status(Unset) /\ version = NoVersion
Serve(req) ==
  /\ request' = req
  /\ route' = ServeHTTP(req) /\ version' = NegotiateVersion(req.max)
RouterNext ==
  request = Nothing /\
  \E method \in {"GET", "POST", "PUT"}, path \in Paths, given \in Parameters,
    system \in Options, max \in Versions, id \in Ids :
    /\ path # <<Word("$entity")>> => id = <<>>
    /\ Serve([method |-> method, path |-> path, id |-> id, system |-> system, max |-> max,
              params |-> IF method = "GET" THEN given ELSE {}, body |-> IF method = "POST" THEN given ELSE {}])
RouterSpec == RouterInit /\ [][RouterNext]_routerVars

-----------------------------------------------------------------------------
(* Properties.                                                             *)

Served == request # Nothing
Invoked == Served /\ route.to \in {"action", "function"}

\* The key in parentheses and the key as a segment (OData 4.01) name the same
\* resource: same handler, same arguments, same errors, whatever follows.  Left
\* out are keys and entity sets that bear the name of something else (a property,
\* an operation or a marker is what the router takes them for), a qualified
\* segment after the key, never read as a type cast behind a key segment, and
\* segments after a marker, which only one spelling drops.
Respelled(req) == [req EXCEPT !.path = <<Word(@[1].name), Word(@[1].call)>> \o Tail(@)]
IsOnlyAKey(h, key) == ~IsProperty(h, key) /\ ~IsMarker(key) /\ ~isActionOrFunction(key.name)
HasBothSpellings(path) ==
  LET head == path[1] IN
  /\ head.ns = Unset /\ head.name \in DOMAIN Handlers /\ ~Handlers[head.name].singleton
  /\ ~isActionOrFunction(head.name)
  /\ head.call \notin {Blank, "()"} /\ IsOnlyAKey(head.name, Word(head.call))
  /\ ~(Len(path) > 1 /\ isTypeCastSegment(path[2]))
  /\ \A i \in 1..(Len(path) - 1) : ~IsMarker(path[i])
SpellingsAgree ==
  (Served /\ request.path # <<>> /\ HasBothSpellings(request.path))
    => route = ServeHTTP(Respelled(request))

\* The request that is answered: $entity stands for the URL in $id.
Dereferenced == IF request.path = <<Word("$entity")>> THEN [request EXCEPT !.path = request.id] ELSE request

\* Wherever an operation is invoked, some segment of the path names it, bare or
\* under the service's own namespace: no other qualifier reaches it.
InvokedByItsName ==
  Invoked =>
    \E i \in DOMAIN Dereferenced.path :
      Dereferenced.path[i].name = route.seg.name /\ Dereferenced.path[i].ns \in {Unset, Namespace}

\* A call that gives exactly the parameters one overload requires is answered by
\* an overload that takes these and no others, whatever else is registered.
ExactOverloadAnswers ==
  Invoked /\ request.system = {} =>
    LET d == Overloads[route.def] same == Candidates(d.kind, d.name, d.bound, d.set) IN
    (\E i \in same : Overloads[i].required = Provided(Dereferenced)) => NamesMatch(d, Provided(Dereferenced))

\* Which operation a request invokes is told by its path and its parameters.
RightOperationAnswers == InvokedByItsName /\ ExactOverloadAnswers

=============================================================================
