-------------------------- MODULE MetadataDocument --------------------------
(***************************************************************************)
(* $metadata in its two formats, the CSDL XML and the CSDL JSON document   *)
(* (internal/handlers/metadata_*.go): what a client that reads a document  *)
(* is told, as a set of facts.  The XML document is a list of elements;    *)
(* the JSON document is an object in which a later definition replaces an  *)
(* earlier one of the same name, and a member left out has a default.      *)
(***************************************************************************)
EXTENDS Naturals, FiniteSets, Sequences

CONSTANT Models      \* the registered models whose documents are read

VARIABLES model, xml, json
metadataVars == <<model, xml, json>>

-----------------------------------------------------------------------------
(* The model both documents are built from.                                *)

Properties(meta) == {meta.props[p] : p \in DOMAIN meta.props}
Regular(props) == {p \in DOMAIN props : props[p].kind # "navigation"}
Navigations(props) == {p \in DOMAIN props : props[p].kind = "navigation"}
Metas(m) == {m.entities[e] : e \in DOMAIN m.entities}
qualifiedTypeName(m, type) == <<m.namespace, type>>

OfKind(m, kind) == {p \in UNION {Properties(meta) : meta \in Metas(m)} : p.kind = kind}
\* An enumeration has the members and flags of any property of the type.
EnumInfo(m, name) ==
  LET same == {p \in OfKind(m, "enum") : p.type = name} IN
  [members |-> UNION {p.members : p \in same}, flags |-> \E p \in same : p.flags]
sortedEnumDefinitions(m) ==
  {name \in {p.type : p \in OfKind(m, "enum")} : EnumInfo(m, name).members # {}}
sortedTypeDefinitions(m) == {p.type : p \in OfKind(m, "typedef")}
collectComplexTypes(m) == {p \in OfKind(m, "complex") : DOMAIN p.fields # {}}

\* The reverse map of types to sets depends on the order of a map's iteration.
entityTypeToSetNameMap(m) ==
  LET types == {meta.type : meta \in Metas(m)} IN
  {f \in [types -> DOMAIN m.entities] : \A t \in types : m.entities[f[t]].type = t}
getEntitySetNameForType(reverse, type) ==
  IF type \in DOMAIN reverse THEN reverse[type] ELSE <<"plural of", type>>

propertyEdmType(m, p) ==
  IF p.kind \in {"enum", "typedef", "complex"} THEN qualifiedTypeName(m, p.type) ELSE <<"Edm", p.type>>
Facets(m, p) ==
  {f \in p.facets : \/ f = "DefaultValue"
                    \/ f = "MaxLength" /\ propertyEdmType(m, p) \in {<<"Edm", "String">>, <<"Edm", "Binary">>}
                    \/ f \in {"Precision", "Scale"} /\ propertyEdmType(m, p) = <<"Edm", "Decimal">>}
\* What a property says of null, and whether it says so for certain.
propertyNullable(p) ==
  IF p.nullable # "unset" THEN [value |-> p.nullable = "yes", include |-> TRUE]
  ELSE IF ~p.required THEN [value |-> TRUE, include |-> TRUE] ELSE [value |-> FALSE, include |-> FALSE]

navigationBindings(m, meta, reverse) ==
  LET Bindings(path, props) ==
        {<<Append(path, p), getEntitySetNameForType(reverse, props[p].type)>> : p \in Navigations(props)}
  IN  Bindings(<<>>, meta.props)
        \cup UNION {Bindings(<<p>>, meta.props[p].fields) : p \in Regular(meta.props)}
operationBindingType(m, set) ==
  IF set \in DOMAIN m.entities THEN qualifiedTypeName(m, m.entities[set].type) ELSE <<"Edm", "String">>

\* An overload: its binding parameter, its own, its result.
Overload(m, def) ==
  [bound |-> def.bound, binding |-> IF def.bound THEN operationBindingType(m, def.set) ELSE <<>>,
   parameters |-> def.parameters, returns |-> def.returns]
OverloadsOf(m, kind) ==
  UNION {{<<kind, name, Overload(m, m[kind][name][i])>> : i \in DOMAIN m[kind][name]} : name \in DOMAIN m[kind]}
OperationFacts(m) == OverloadsOf(m, "functions") \cup OverloadsOf(m, "actions")
Imports(m) == {<<"import", o[1], o[2]>> : o \in {o \in OperationFacts(m) : ~o[3].bound}}
Addressable(m) == {e \in DOMAIN m.entities : ~m.entities[e].hidden}
Exposure(m, e) ==
  <<IF m.entities[e].singleton THEN "singleton" ELSE "set", e, qualifiedTypeName(m, m.entities[e].type)>>
Navigation(m, owner, p, prop) ==
  <<"navigation", owner, p, qualifiedTypeName(m, prop.type), prop.many, prop.contained>>
Constraints(owner, p, prop) == {<<"constraint", owner, p, c>> : c \in prop.constraints}

-----------------------------------------------------------------------------
(* The XML document: every definition is an element.                       *)

StreamFields(meta) == UNION {meta.streams[s] : s \in DOMAIN meta.streams}
XMLProperty(m, owner, p, prop) ==
  <<"property", owner, p, propertyEdmType(m, prop), propertyNullable(prop).value, Facets(m, prop)>>
buildComplexType(m, p) ==
  {<<"complex", p.type>>}
    \cup {XMLProperty(m, p.type, f, p.fields[f]) : f \in Regular(p.fields)}
    \cup {Navigation(m, p.type, f, p.fields[f]) : f \in Navigations(p.fields)}
buildRegularProperties(m, meta) ==
  {XMLProperty(m, meta.type, p, meta.props[p]) : p \in Regular(meta.props) \ StreamFields(meta)}
    \cup {<<"property", meta.type, s, <<"Edm", "Stream">>, TRUE, {}>> : s \in DOMAIN meta.streams}
buildNavigationProperties(m, meta) ==
  UNION {{Navigation(m, meta.type, p, meta.props[p])} \cup Constraints(meta.type, p, meta.props[p]) :
           p \in Navigations(meta.props)}
TypeHead(meta) == <<"type", meta.type, meta.base, meta.abstract, meta.open>>
TypeKeys(meta) == IF meta.base = "" THEN {<<"key", meta.type, k>> : k \in meta.keys} ELSE {}
buildEntityType(m, meta) ==
  {TypeHead(meta)} \cup TypeKeys(meta) \cup (IF meta.media THEN {<<"media", meta.type>>} ELSE {})
    \cup buildRegularProperties(m, meta) \cup buildNavigationProperties(m, meta)
buildEntityContainer(m, reverse) ==
  (UNION {{Exposure(m, e)} \cup {<<"binding", e, b>> : b \in navigationBindings(m, m.entities[e], reverse)} :
           e \in Addressable(m)})
    \cup Imports(m)
\* The annotations of the container, of a set, and of a type and its properties.
ContainerNotes(m) == {<<"note", <<"Container">>, n>> : n \in m.notes}
SetNotes(m, e) == {<<"note", <<"Container", e>>, n>> : n \in m.entities[e].setNotes}
TypeNotes(meta) ==
  {<<"note", <<meta.type>>, n>> : n \in meta.notes}
    \cup UNION {{<<"note", <<meta.type, p>>, n>> : n \in meta.props[p].notes} : p \in DOMAIN meta.props}
buildAnnotations(m) ==
  (IF m.schemaVersion = "" THEN {} ELSE {<<"note", <<m.namespace>>, m.schemaVersion>>})
    \cup ContainerNotes(m)
    \cup UNION {SetNotes(m, e) \cup TypeNotes(m.entities[e]) : e \in DOMAIN m.entities}
buildMetadataDocument(m, reverse) ==
  {<<"enum", name, EnumInfo(m, name)>> : name \in sortedEnumDefinitions(m)}
    \cup {<<"typedef", name>> : name \in sortedTypeDefinitions(m)}
    \cup (UNION {buildComplexType(m, p) : p \in collectComplexTypes(m)})
    \cup (UNION {buildEntityType(m, meta) : meta \in Metas(m)})
    \cup OperationFacts(m) \cup buildEntityContainer(m, reverse) \cup buildAnnotations(m)

-----------------------------------------------------------------------------
(* The JSON document.                                                      *)

\* A member that is left out reads as not nullable.
JSONNullableByDefault(p) == propertyNullable(p).include => propertyNullable(p).value
JSONNullable(p) == propertyNullable(p).include /\ propertyNullable(p).value
buildJSONPropertyDefinition(m, owner, p, prop) ==
  {<<"property", owner, p, propertyEdmType(m, prop), JSONNullable(prop), Facets(m, prop)>>}
    \cup {<<"note", <<owner, p>>, n>> : n \in prop.notes}
buildJSONNavigationProperty(m, owner, p, prop) ==
  {Navigation(m, owner, p, prop)} \cup Constraints(owner, p, prop)
Members(m, owner, props) ==
  (UNION {buildJSONPropertyDefinition(m, owner, p, props[p]) : p \in Regular(props)})
    \cup UNION {buildJSONNavigationProperty(m, owner, p, props[p]) : p \in Navigations(props)}
buildJSONEntityType(m, meta) ==
  {TypeHead(meta)} \cup TypeKeys(meta) \cup {<<"note", <<meta.type>>, n>> : n \in meta.notes}
    \cup Members(m, meta.type, meta.props)

\* The schema object is filled layer by layer; the last of a name stays.
Layers(m) ==
  <<sortedEnumDefinitions(m), sortedTypeDefinitions(m), {p.type : p \in collectComplexTypes(m)},
    DOMAIN m.functions, DOMAIN m.actions, {meta.type : meta \in Metas(m)}, {"Container"}>>
Kept(m, layer) ==
  Layers(m)[layer] \ UNION {Layers(m)[i] : i \in (layer + 1)..Len(Layers(m))}
\* A set or singleton of the container gives way to an import of its name, and
\* a function's import to an action's.
ImportNames(m, kind) == {i[3] : i \in {i \in Imports(m) : i[2] = kind}}
buildJSONEntityContainer(m, reverse) ==
  ContainerNotes(m)
    \cup (UNION {{Exposure(m, e)} \cup SetNotes(m, e)
                  \cup {<<"binding", e, b>> : b \in navigationBindings(m, m.entities[e], reverse)} :
                e \in Addressable(m) \ (ImportNames(m, "functions") \cup ImportNames(m, "actions"))})
    \cup {i \in Imports(m) : i[2] = "actions" \/ i[3] \notin ImportNames(m, "actions")}
buildMetadataJSON(m, reverse) ==
  {<<"enum", name, EnumInfo(m, name)>> : name \in Kept(m, 1)}
    \cup {<<"typedef", name>> : name \in Kept(m, 2)}
    \cup (UNION {{<<"complex", p.type>>} \cup Members(m, p.type, p.fields) :
                  p \in {p \in collectComplexTypes(m) : p.type \in Kept(m, 3)}})
    \cup {o \in OperationFacts(m) : o[2] \in (IF o[1] = "functions" THEN Kept(m, 4) ELSE Kept(m, 5))}
    \cup (UNION {buildJSONEntityType(m, meta) : meta \in {meta \in Metas(m) : meta.type \in Kept(m, 6)}})
    \cup buildJSONEntityContainer(m, reverse)

-----------------------------------------------------------------------------
Unread == [entities |-> {}]
MetadataInit == model = Unread /\ xml = {} /\ json = {}
Read(m) ==
  /\ model' = m
  /\ \E reverse \in entityTypeToSetNameMap(m) : xml' = buildMetadataDocument(m, reverse)
  /\ \E reverse \in entityTypeToSetNameMap(m) : json' = buildMetadataJSON(m, reverse)
MetadataNext == model = Unread /\ \E m \in Models : Read(m)
MetadataSpec == MetadataInit /\ [][MetadataNext]_metadataVars

-----------------------------------------------------------------------------
(* Properties.                                                             *)

\* Names the two documents cannot both keep apart, and what one of them has no
\* place for: streams, the schema version, notes on navigations, on fields of
\* complex types and on sets a client cannot address, constraints in complex types.
NamesApart(m) ==
  /\ \A i, j \in DOMAIN Layers(m) : i # j => Layers(m)[i] \cap Layers(m)[j] = {}
  /\ \A i \in Imports(m) : i[3] \notin DOMAIN m.entities
  /\ \A e, f \in DOMAIN m.entities : m.entities[e].type = m.entities[f].type => e = f
Shared(m) ==
  /\ m.schemaVersion = ""
  /\ \A meta \in Metas(m) :
       /\ ~meta.media /\ DOMAIN meta.streams = {} /\ (meta.hidden => meta.setNotes = {})
       /\ \A p \in Properties(meta) :
            /\ p.kind = "navigation" => p.notes = {}
            /\ p.kind = "complex" =>
                 \A f \in DOMAIN p.fields : p.fields[f].notes = {} /\ p.fields[f].constraints = {}

\* A client learns the same from either format: types, properties and whether
\* they may be null, keys, navigation and its bindings, operations with their
\* overloads, the container and every annotation.
DocumentsAgree == model # Unread /\ NamesApart(model) /\ Shared(model) => xml = json

=============================================================================
