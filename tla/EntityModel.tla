---------------------------- MODULE EntityModel ----------------------------
(***************************************************************************)
(* From Go structs to the model a service exposes: AnalyzeEntity and its   *)
(* variants read the fields and their tags (internal/metadata/analyzer.go),*)
(* the Register calls of odata.go put the result into the registry, and    *)
(* every registered entity keeps an index of its own, from names to        *)
(* entities, with which it resolves navigation.                            *)
(*                                                                         *)
(* An index is built by ranging over the registry, a Go map, and brought   *)
(* up to date one entity at a time by later registrations.                 *)
(***************************************************************************)
EXTENDS Integers, Sequences, FiniteSets, SequencesExt

CONSTANTS
  Structs,    \* Go type -> [set, base, fields]; a field is described below
  Exposures,  \* calls: [how, type, name]; how: "entity", "singleton" or "virtual"
  MaxRegistrations,   \* bound: how many of them it makes
  PropertyPaths       \* property paths: sequences of names

\* A field: name, json (its JSON name, "-" for none), type (a struct, "string",
\* "int" or "uint"), pointer, many, tags (parts of odata:"..."), gorm (parts of
\* gorm:"..."), prefix (embeddedPrefix) and backs: the stream property whose
\* name with ContentType or Content added is the name of the field.
FieldTypes ==
  [name : STRING, json : STRING, type : STRING, pointer : BOOLEAN, many : BOOLEAN,
   tags : SUBSET STRING, gorm : SUBSET STRING, prefix : STRING, backs : STRING]
\* What Go gives: structs with fields, exposed types that are structs.
ASSUME ModelAssumption ==
  /\ \A type \in DOMAIN Structs : Structs[type].fields \in Seq(FieldTypes)
  /\ \A e \in Exposures : e.type \in DOMAIN Structs
  /\ PropertyPaths \subseteq Seq(STRING \ {"-"})

VARIABLES
  entities,  \* Service.entities: name -> metadata
  targets,     \* name -> its navigationTargetIndex: name -> name in entities
  pending    \* the calls not yet made
modelVars == <<entities, targets, pending>>

NoEntities == [n \in {} |-> {}]

-----------------------------------------------------------------------------
(* The fields of a struct.                                                 *)

Nullable(f) == f.pointer \/ f.many

\* analyzeNavigationProperty: a struct is a navigation property when its gorm
\* tag relates it, a complex property when it is embedded.
Relates(f) == f.type \in DOMAIN Structs /\ f.gorm \cap {"foreignKey", "references", "many2many"} # {}
Embeds(f) == f.type \in DOMAIN Structs /\ ~Relates(f) /\ "embedded" \in f.gorm

\* isDatabaseGeneratedKey.
Generated(f) ==
  /\ "autoIncrement:false" \notin f.gorm
  /\ f.type = "uint" \/ (f.type = "int" /\ "autoIncrement" \in f.gorm)

Excluded(f) == "-" \in f.tags \/ (f.json = "-" /\ f.tags = {})
KeptFields(fields) == {i \in DOMAIN fields : ~Excluded(fields[i])}

\* analyzeODataTags: where no field before it is a key, the field ID becomes one.
IsKey(fields, i) ==
  \/ "key" \in fields[i].tags
  \/ /\ fields[i].name = "ID"
     /\ \A j \in KeptFields(fields) : j < i => "key" \notin fields[j].tags /\ fields[j].name # "ID"

\* What analyzeField refuses.
RefusesField(f, key) ==
  \/ "generate=unknown" \in f.tags
  \/ "generate=uuid" \in f.tags /\ ~key
  \/ "nullable" \in f.tags /\ ~Relates(f) /\ ~Nullable(f)

autoDetectNullability(f) ==
  IF Relates(f) THEN "unset"
  ELSE IF "nullable" \in f.tags THEN "yes"
  ELSE IF "nullable=false" \in f.tags \/ ~Nullable(f) \/ "not null" \in f.gorm THEN "no" ELSE "unset"
autoDetectPropertyAnnotations(f, generated) == generated \/ f.tags \cap {"auto", "computed", "etag"} # {}

\* analyzeField, with the flags of processODataTagPart.
Property(f, key) ==
  LET generated == key /\ "generate=uuid" \notin f.tags /\ Generated(f)
  IN [name |-> f.name, json |-> f.json, type |-> f.type, many |-> f.many, prefix |-> f.prefix,
      nav |-> Relates(f), complex |-> Embeds(f), key |-> key, etag |-> "etag" \in f.tags,
      nullable |-> autoDetectNullability(f), generated |-> generated,
      computed |-> autoDetectPropertyAnnotations(f, generated)]

\* The loop over the fields; a property stands at the position of its field.
PropertiesOf(fields) == [i \in KeptFields(fields) |-> Property(fields[i], IsKey(fields, i))]
\* upsertKeyProperty takes its copy before the annotations are detected.
upsertKeyProperty(fields) ==
  [i \in {j \in KeptFields(fields) : IsKey(fields, j)} |-> [Property(fields[i], TRUE) EXCEPT !.computed = FALSE]]

FieldsOf(type) == {Structs[type].fields[i] : i \in DOMAIN Structs[type].fields}

\* detectStreamProperties: the backing fields are looked up in the struct.
Streams(type) ==
  {[name |-> f.name, backed |-> {g.name : g \in {h \in FieldsOf(type) : h.backs = f.name}}] :
     f \in {h \in FieldsOf(type) : "stream" \in h.tags /\ ~Excluded(h)}}

\* AnalyzeEntity and AnalyzeVirtualEntity want a key, AnalyzeSingleton does not
\* and looks for no streams.
Fails(e) ==
  LET fields == Structs[e.type].fields IN
  \/ \E i \in KeptFields(fields) : RefusesField(fields[i], IsKey(fields, i))
  \/ /\ e.how # "singleton"
     /\ \/ DOMAIN upsertKeyProperty(fields) = {} /\ Structs[e.type].base = ""
        \/ \E i \in KeptFields(fields) : {"fuzziness", "similarity"} \subseteq fields[i].tags
Metadata(e) ==
  [type |-> e.type, how |-> e.how, name |-> IF e.how = "singleton" THEN e.name ELSE Structs[e.type].set,
   properties |-> PropertiesOf(Structs[e.type].fields), keys |-> upsertKeyProperty(Structs[e.type].fields),
   streams |-> IF e.how = "singleton" THEN {} ELSE Streams(e.type)]
Analyses == [e \in Exposures |-> IF Fails(e) THEN {} ELSE {Metadata(e)}]

-----------------------------------------------------------------------------
(* The registry.                                                           *)

\* An index leads to an entity by its type and by its set name.
NamesOf(m) == {m.type, m.name}
AddBySetName(ix, m) == [n \in (DOMAIN ix) \cup {m.name} |-> IF n = m.name THEN m.name ELSE ix[n]]
AddEntityToRegistry(ix, m) == [n \in (DOMAIN ix) \cup NamesOf(m) |-> IF n \in NamesOf(m) THEN m.name ELSE ix[n]]

\* SetEntitiesRegistry, for one order of the map: of the entities that have a
\* name, the one visited last keeps it.
SetEntitiesRegistry(all, order) ==
  LET visits(n) == {i \in DOMAIN order : n \in NamesOf(all[order[i]])}
  IN [n \in UNION {NamesOf(all[k]) : k \in DOMAIN all} |-> all[order[Max(visits(n))]].name]

ModelInit == entities = NoEntities /\ targets = NoEntities /\ pending = Exposures

\* RegisterEntity, RegisterSingleton, RegisterVirtualEntity.  A cache that cannot
\* be configured is an error for the caller, but the entity stays registered.
RegisterEntity(e) ==
  /\ e \in pending /\ Cardinality(Exposures \ pending) < MaxRegistrations
  /\ pending' = pending \ {e}
  /\ IF \A m \in Analyses[e] : m.name \in DOMAIN entities
     THEN UNCHANGED <<entities, targets>>
     ELSE \E m \in Analyses[e] :
          LET all == [n \in DOMAIN entities \cup {m.name} |-> IF n = m.name THEN m ELSE entities[n]]
          IN /\ entities' = all
             /\ \E order \in SetToSeqs(DOMAIN all) :
                  targets' = [n \in DOMAIN all |-> IF n = m.name THEN SetEntitiesRegistry(all, order)
                                                 ELSE AddEntityToRegistry(targets[n], m)]

ModelNext == \E e \in Exposures : RegisterEntity(e)
ModelSpec == ModelInit /\ [][ModelNext]_modelVars

-----------------------------------------------------------------------------
(* Names and paths.                                                        *)

\* What is not found is the empty set.
FirstOf(P) == {i \in P : \A j \in P : i <= j}
FinalOf(P) == {i \in P : \A j \in P : j <= i}

\* FindProperty: the first property with that name or JSON name.
FindProperty(m, name) ==
  {m.properties[i] : i \in FirstOf({j \in DOMAIN m.properties : name \in {m.properties[j].name, m.properties[j].json}})}
FindNavigationProperty(m, name) == {p \in FindProperty(m, name) : p.nav}

\* analyzeComplexTypeFields writes both names to a map: the last field stays.
ComplexTypeField(fields, name) ==
  FinalOf({i \in DOMAIN fields : name = fields[i].name \/ (name = fields[i].json /\ name # "-")})
FindComplexField(p, name) ==
  IF ~p.complex THEN {}
  ELSE {Property(Structs[p.type].fields[i], FALSE) : i \in ComplexTypeField(Structs[p.type].fields, name)}

\* ResolvePropertyPath: the property and the prefixes of its column.
Outermost(m, name) == {[prop |-> p, prefixes |-> <<>>] : p \in FindProperty(m, name)}
FieldsWithin(reached, name) ==
  UNION {{[prop |-> p, prefixes |-> Append(r.prefixes, r.prop.prefix)] : p \in FindComplexField(r.prop, name)} : r \in reached}
Reached(m, path) ==
  LET to[i \in 1..Len(path)] == IF i = 1 THEN Outermost(m, path[1]) ELSE FieldsWithin(to[i - 1], path[i]) IN to
ResolvePropertyPath(m, path) == Reached(m, path)[Len(path)]

ResolveNavigationTarget(n, p) == {targets[n][type] : type \in {p.type} \cap DOMAIN targets[n]}

\* ResolveSingleEntityNavigationPath: navigation as far as it goes, without
\* collections; at least one step, and something must remain.
Single(n, name) == UNION {ResolveNavigationTarget(n, p) : p \in {q \in FindNavigationProperty(entities[n], name) : ~q.many}}
SingleOf(S, name) == UNION {Single(n, name) : n \in S}
Passes(n, path) ==
  LET at[i \in 0..Len(path)] == IF i = 0 THEN {n} ELSE SingleOf(at[i - 1], path[i]) IN at
ResolveSingleEntityNavigationPath(n, path) ==
  UNION {{[at |-> k, rest |-> SubSeq(path, h + 1, Len(path))] :
            k \in {l \in Passes(n, path)[h] : FindNavigationProperty(entities[l], path[h + 1]) = {}}} : h \in 1..(Len(path) - 1)}

\* IsSingleEntityNavigationPath, with what the path leads to.
Leads(n, path) ==
  UNION {{[name |-> q.prop.name, at |-> r.at, prefixes |-> q.prefixes] :
            q \in {s \in ResolvePropertyPath(entities[r.at], r.rest) : ~s.prop.nav}} :
           r \in ResolveSingleEntityNavigationPath(n, path)}

-----------------------------------------------------------------------------
(* What the declarations mean.                                             *)

Tagged(type) == {f \in FieldsOf(type) : ~Excluded(f) /\ "key" \in f.tags}
\* ID stands before the fields tagged as keys, and becomes a part of the key.
IDComesFirst(type) ==
  LET fields == Structs[type].fields IN
  \E i \in KeptFields(fields) : fields[i].name = "ID" /\ \A j \in KeptFields(fields) : "key" \in fields[j].tags => i < j

\* The key is what is tagged, and ID where nothing is.
KeysAreDeclared ==
  \A n \in DOMAIN entities :
    LET m == entities[n]
    IN Tagged(m.type) = {} \/ ~IDComesFirst(m.type) =>
         {m.keys[i].name : i \in DOMAIN m.keys} =
           IF Tagged(m.type) # {} THEN {f.name : f \in Tagged(m.type)}
           ELSE {f.name : f \in {g \in FieldsOf(m.type) : g.name = "ID" /\ ~Excluded(g)}}

Exposing(type) == {n \in DOMAIN entities : entities[n].type = type}
\* The name of an entity of one type is the name of another type.
Shadowed(type) == type \in DOMAIN entities /\ entities[type].type # type

\* Every entity resolves navigation to an entity of the target type when there
\* is one, and to nothing otherwise, whatever was registered before or after it.
TargetsResolve ==
  \A n \in DOMAIN entities : \A i \in DOMAIN entities[n].properties :
    LET p == entities[n].properties[i]
    IN p.nav /\ ~Shadowed(p.type) =>
         IF Exposing(p.type) = {} THEN ResolveNavigationTarget(n, p) = {}
         ELSE \E k \in Exposing(p.type) : ResolveNavigationTarget(n, p) = {k}

\* The field a client means by a name, which for it is the JSON name; no other
\* field may have it as its Go name.
Meant(type, name) == {f \in (IF type \in DOMAIN Structs THEN FieldsOf(type) ELSE {}) : f.json = name}
Clear(type, name) == \A f \in FieldsOf(type) : f.name = name => f.json = name
MeantIn(fields, name) == UNION {Meant(f.type, name) : f \in fields}
FieldsAlong(type, path) ==
  LET at[i \in 1..Len(path)] == IF i = 1 THEN Meant(type, path[1]) ELSE MeantIn(at[i - 1], path[i]) IN at
Singly(f) == Relates(f) /\ ~f.many /\ ~Excluded(f)

\* The paths that go over h single navigation properties, then embedded structs,
\* to a structural field: fields are the fields named, one by each name.
Passed(m, i) == IF i = 1 THEN m.type ELSE m.fields[i - 1].type
Sound(m) ==
  \A i \in 1..Len(m.path) : FieldsAlong(m.type, m.path)[i] = {m.fields[i]} /\ Clear(Passed(m, i), m.path[i])
Follows(m) ==
  /\ \A i \in 1..m.h : Singly(m.fields[i])
  /\ \A i \in (m.h + 1)..(Len(m.path) - 1) : Embeds(m.fields[i])
  /\ ~Relates(m.fields[Len(m.path)]) /\ ~Excluded(m.fields[m.h + 1])
Meaning(w) ==
  [type |-> w.type, path |-> w.path, h |-> w.h,
   fields |-> [i \in 1..Len(w.path) |-> CHOOSE f \in FieldsAlong(w.type, w.path)[i] : TRUE]]
Meanings ==
  {m \in {Meaning(w) : w \in {v \in UNION {[type : DOMAIN Structs, path : {q}, h : 1..(Len(q) - 1)] : q \in PropertyPaths} :
                              \A i \in 1..Len(v.path) : FieldsAlong(v.type, v.path)[i] # {}}} :
     Sound(m) /\ Follows(m)}

\* Such a path leads to the column of its last field, in the entity it passes last.
PathsResolve ==
  \A n \in DOMAIN entities : \A m \in {w \in Meanings : w.type = entities[n].type} : \A k \in Exposing(Passed(m, m.h + 1)) :
    (\A i \in 1..m.h : Cardinality(Exposing(m.fields[i].type)) = 1 /\ ~Shadowed(m.fields[i].type)) =>
      Leads(n, m.path) =
        {[name |-> m.fields[Len(m.path)].name, at |-> k,
          prefixes |-> [i \in 1..(Len(m.path) - m.h - 1) |-> m.fields[m.h + i].prefix]]}

\* What the tags declare is what clients find: the keys, the targets of
\* navigation and the columns of paths do not depend on the order in which the
\* application registers its types, nor on that of a map (analyzer.go, odata.go).
ModelFollowsDeclarations == KeysAreDeclared /\ TargetsResolve /\ PathsResolve
-----------------------------------------------------------------------------
(* The inductive invariant behind it.                                      *)

\* Every index has every name of every entity, and leads to one that has it.
IndexesAreComplete ==
  \A n \in DOMAIN entities :
    /\ DOMAIN targets[n] = UNION {NamesOf(entities[k]) : k \in DOMAIN entities}
    /\ \A t \in DOMAIN targets[n] :
         targets[n][t] \in DOMAIN entities /\ t \in NamesOf(entities[targets[n][t]])
\* Whatever the call that registered it, metadata is that of its struct.
IsDeclared(m) ==
  /\ m.type \in DOMAIN Structs
  /\ m.properties = PropertiesOf(Structs[m.type].fields) /\ m.keys = upsertKeyProperty(Structs[m.type].fields)
RegistryInv ==
  /\ IsFiniteSet(DOMAIN entities) /\ DOMAIN targets = DOMAIN entities
  /\ \A n \in DOMAIN entities : entities[n].name = n /\ IsDeclared(entities[n])
  /\ IndexesAreComplete
=============================================================================
