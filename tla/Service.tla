------------------------------ MODULE Service ------------------------------
(***************************************************************************)
(* The service facade (odata.go): what an application registers and sets,  *)
(* the copies of a setting the metadata handler, the operations, the       *)
(* router and every entity handler keep, and the documents cached from     *)
(* them (metadata_handler.go, metadata_xml.go, service_document.go).       *)
(* Registrations come between requests; SetNamespace and SetSchemaVersion  *)
(* may be called while documents are read, as the metadata handler says.   *)
(***************************************************************************)
EXTENDS Naturals, FiniteSets

CONSTANTS
  Names, Operations,            \* operations: [name, set], the set "" when unbound
  Notes,                        \* annotations
  Namespaces, SchemaVersions,   \* the values set
  Tops,                         \* page sizes; 0 removes the limit
  Readers, Formats,
  MaxCalls                      \* bound: calls of the application

ASSUME ServiceAssumption == Formats \subseteq {"xml", "json"} /\ MaxCalls \in Nat

VARIABLES
  config,      \* the service's own settings
  handlers,    \* per registered name: its handler and entity metadata
  operations, notes,
  metadata,    \* the metadata handler's namespace and schema version
  elsewhere,   \* the namespace of the operations handler and the router
  cache,       \* per format: the cached metadata document, if any
  listing,     \* the cached service document, if any
  setter,      \* the setter call in progress
  reader,      \* per reader of $metadata: how far it is
  suspect,     \* per format: the builder of the cached document was overtaken
  calls
vars == <<config, handlers, operations, notes, metadata, elsewhere, cache, listing,
          setter, reader, suspect, calls>>

-----------------------------------------------------------------------------
Empty == "empty"
DefaultNamespace == "ODataService"
Idle == [at |-> "idle"]
NoSetter == [at |-> "idle"]
Registered == DOMAIN handlers
Quiet == setter = NoSetter /\ \A r \in Readers : reader[r] = Idle
Call == calls < MaxCalls /\ calls' = calls + 1

Init ==
  /\ config = [namespace |-> DefaultNamespace, schemaVersion |-> "", maxTop |-> 0]
  /\ handlers = [n \in {} |-> Empty] /\ operations = {} /\ notes = {}
  /\ metadata = [namespace |-> DefaultNamespace, schemaVersion |-> ""]
  /\ elsewhere = DefaultNamespace
  /\ cache = [f \in Formats |-> {}] /\ listing = {}
  /\ setter = NoSetter /\ reader = [r \in Readers |-> Idle]
  /\ suspect = [f \in Formats |-> FALSE] /\ calls = 0

-----------------------------------------------------------------------------
(* Registration.                                                           *)

\* A new handler copies the service's settings.  Its adapter, which names the
\* types of the entities it returns, is built by the first collection request.
NewHandlerUnversioned(ok) ==
  [ok |-> ok, namespace |-> config.namespace, schemaVersion |-> "",
   maxTop |-> config.maxTop, top |-> 0, adapter |-> Empty]
NewHandler(ok) ==
  [ok |-> ok, namespace |-> config.namespace, schemaVersion |-> config.schemaVersion,
   maxTop |-> config.maxTop, top |-> 0, adapter |-> Empty]

\* Entities, singletons and virtual entities alike.  A cache level an entity does
\* not support is reported after everything is in place, before the cached
\* service document is dropped.
Register(n, ok) ==
  /\ Quiet /\ Call /\ n \notin Registered
  /\ handlers' = [m \in Registered \cup {n} |-> IF m = n THEN NewHandler(ok) ELSE handlers[m]]
  /\ listing' = IF ok THEN {} ELSE listing
  /\ UNCHANGED <<config, operations, notes, metadata, elsewhere, cache, setter, reader, suspect>>

\* A bound operation needs its set; a known signature is refused.
RegisterOperation(op) ==
  /\ Quiet /\ Call /\ op \notin operations /\ op.set \in Registered \cup {""}
  /\ operations' = operations \cup {op}
  /\ UNCHANGED <<config, handlers, notes, metadata, elsewhere, cache, listing, setter, reader, suspect>>

\* Annotations go to a registered name, or to the container.
ClearXML(c) == [c EXCEPT !["xml"] = {}]
ClearCache(c) == [f \in Formats |-> {}]
RegisterAnnotation(target, note) ==
  /\ Quiet /\ Call /\ target \in Registered \cup {""}
  /\ notes' = notes \cup {<<target, note>>}
  /\ cache' = ClearCache(cache) /\ suspect' = [f \in Formats |-> suspect[f] /\ cache'[f] # {}]
  /\ UNCHANGED <<config, handlers, operations, metadata, elsewhere, listing, setter, reader>>

-----------------------------------------------------------------------------
(* Page sizes: the entity's own, else the service's.                       *)

Limit(h) == IF h.top # 0 THEN h.top ELSE h.maxTop
SetDefaultMaxTop(t) ==
  /\ Quiet /\ Call /\ config' = [config EXCEPT !.maxTop = t]
  /\ handlers' = [n \in Registered |->
                    IF handlers[n].top # 0 THEN handlers[n] ELSE [handlers[n] EXCEPT !.maxTop = t]]
  /\ UNCHANGED <<operations, notes, metadata, elsewhere, cache, listing, setter, reader, suspect>>
SetEntityDefaultMaxTop(n, t) ==
  /\ Quiet /\ Call /\ n \in Registered
  /\ handlers' = [handlers EXCEPT ![n].top = t, ![n].maxTop = IF t = 0 THEN config.maxTop ELSE @]
  /\ UNCHANGED <<config, operations, notes, metadata, elsewhere, cache, listing, setter, reader, suspect>>

-----------------------------------------------------------------------------
(* The setters, step by step: the service's field, the metadata handler    *)
(* and its two caches under its lock, then every other copy.               *)

Locked == setter.at \in {"xml", "json"}
SetNamespace(ns) ==
  /\ setter = NoSetter /\ Call /\ ns # config.namespace
  /\ config' = [config EXCEPT !.namespace = ns]
  /\ setter' = [what |-> "namespace", at |-> "metadata", left |-> Registered]
  /\ UNCHANGED <<handlers, operations, notes, metadata, elsewhere, cache, listing, reader, suspect>>
SetSchemaVersion(v) ==
  /\ setter = NoSetter /\ Call
  /\ config' = [config EXCEPT !.schemaVersion = v]
  /\ setter' = [what |-> "schemaVersion", at |-> "metadata", left |-> Registered]
  /\ UNCHANGED <<handlers, operations, notes, metadata, elsewhere, cache, listing, reader, suspect>>

\* Under the write lock; whoever is building read the old settings.
SetMetadata ==
  /\ setter.at = "metadata"
  /\ metadata' = [namespace |-> config.namespace, schemaVersion |-> config.schemaVersion]
  /\ reader' = [r \in Readers |-> IF reader[r] = Idle THEN Idle ELSE [reader[r] EXCEPT !.overtaken = TRUE]]
  /\ setter' = [setter EXCEPT !.at = "xml"]
  /\ UNCHANGED <<config, handlers, operations, notes, elsewhere, cache, listing, suspect, calls>>
ClearFormat(f, next) ==
  /\ setter.at = f /\ setter' = [setter EXCEPT !.at = next]
  /\ cache' = [cache EXCEPT ![f] = {}] /\ suspect' = [suspect EXCEPT ![f] = FALSE]
  /\ UNCHANGED <<config, handlers, operations, notes, metadata, elsewhere, listing, reader, calls>>
SetElsewhere ==
  /\ setter.at = "elsewhere" /\ setter' = [setter EXCEPT !.at = "handlers"]
  /\ elsewhere' = config.namespace
  /\ UNCHANGED <<config, handlers, operations, notes, metadata, cache, listing, reader, suspect, calls>>
SetHandler(n) ==
  /\ setter.at = "handlers" /\ n \in setter.left
  /\ handlers' = IF setter.what = "namespace" THEN [handlers EXCEPT ![n].namespace = config.namespace]
                 ELSE [handlers EXCEPT ![n].schemaVersion = config.schemaVersion]
  /\ setter' = [setter EXCEPT !.left = @ \ {n}]
  /\ UNCHANGED <<config, operations, notes, metadata, elsewhere, cache, listing, reader, suspect, calls>>
SetterReturns ==
  /\ setter.at = "handlers" /\ setter.left = {} /\ setter' = NoSetter
  /\ UNCHANGED <<config, handlers, operations, notes, metadata, elsewhere, cache, listing, reader, suspect, calls>>

-----------------------------------------------------------------------------
(* Requests.                                                               *)

\* $metadata when the cache has nothing for the format.
Ask(r, f) ==
  /\ reader[r] = Idle /\ cache[f] = {}
  /\ reader' = [reader EXCEPT ![r] = [at |-> "schema", format |-> f, overtaken |-> FALSE]]
  /\ UNCHANGED <<config, handlers, operations, notes, metadata, elsewhere, cache, listing, setter, suspect, calls>>
\* newMetadataModel reads the schema version and the namespace under two locks.
ReadSchemaVersion(r) ==
  /\ reader[r].at = "schema" /\ ~Locked
  /\ reader' = [reader EXCEPT ![r] = [at |-> "namespace", format |-> @.format, overtaken |-> FALSE,
                                      schemaVersion |-> metadata.schemaVersion]]
  /\ UNCHANGED <<config, handlers, operations, notes, metadata, elsewhere, cache, listing, setter, suspect, calls>>
ReadNamespace(r) ==
  /\ reader[r].at = "namespace" /\ ~Locked
  /\ reader' = [reader EXCEPT ![r] = [at |-> "types", format |-> @.format, overtaken |-> @.overtaken,
                                      schemaVersion |-> @.schemaVersion, namespace |-> metadata.namespace]]
  /\ UNCHANGED <<config, handlers, operations, notes, metadata, elsewhere, cache, listing, setter, suspect, calls>>
\* getEdmTypeName takes the namespace of an operation's types once more.  The
\* document is stored unless another builder's is there already.
Document(r, ns) ==
  [schemaVersion |-> reader[r].schemaVersion, namespace |-> reader[r].namespace, types |-> ns,
   sets |-> Registered, operations |-> operations, notes |-> notes]
BuildTypes(r) ==
  /\ reader[r].at = "types" /\ ~Locked
  /\ reader' = [reader EXCEPT ![r] = [at |-> "store", format |-> @.format, overtaken |-> @.overtaken,
                                      document |-> Document(r, metadata.namespace)]]
  /\ UNCHANGED <<config, handlers, operations, notes, metadata, elsewhere, cache, listing, setter, suspect, calls>>
StoreDocument(r) ==
  LET f == reader[r].format IN
  /\ reader[r].at = "store"
  /\ IF cache[f] # {} THEN UNCHANGED <<cache, suspect>>
     ELSE /\ cache' = [cache EXCEPT ![f] = {reader[r].document}]
          /\ suspect' = [suspect EXCEPT ![f] = reader[r].overtaken]
  /\ reader' = [reader EXCEPT ![r] = Idle]
  /\ UNCHANGED <<config, handlers, operations, notes, metadata, elsewhere, listing, setter, calls>>

ServiceDocument ==
  /\ listing = {} /\ listing' = {Registered}
  /\ UNCHANGED <<config, handlers, operations, notes, metadata, elsewhere, cache, setter, reader, suspect, calls>>
\* The first collection request makes the handler's adapter, once and for all.
ServeCollection(n) ==
  /\ n \in Registered /\ handlers[n].adapter = Empty
  /\ handlers' = [handlers EXCEPT ![n].adapter = handlers[n].namespace]
  /\ UNCHANGED <<config, operations, notes, metadata, elsewhere, cache, listing, setter, reader, suspect, calls>>

-----------------------------------------------------------------------------
Application ==
  \/ \E n \in Names, ok \in BOOLEAN : Register(n, ok)
  \/ \E op \in Operations : RegisterOperation(op)
  \/ \E target \in Names \cup {""}, note \in Notes : RegisterAnnotation(target, note)
  \/ \E t \in Tops : SetDefaultMaxTop(t)
  \/ \E n \in Names, t \in Tops : SetEntityDefaultMaxTop(n, t)
  \/ \E ns \in Namespaces : SetNamespace(ns)
  \/ \E v \in SchemaVersions : SetSchemaVersion(v)
Setter ==
  \/ SetMetadata
  \/ ClearFormat("xml", "json")
  \/ ClearFormat("json", IF setter.what = "namespace" THEN "elsewhere" ELSE "handlers")
  \/ SetElsewhere
  \/ \E n \in Names : SetHandler(n)
  \/ SetterReturns
Request ==
  \/ \E r \in Readers, f \in Formats : Ask(r, f)
  \/ \E r \in Readers : ReadSchemaVersion(r) \/ ReadNamespace(r) \/ BuildTypes(r) \/ StoreDocument(r)
  \/ ServiceDocument
  \/ \E n \in Names : ServeCollection(n)
Next == Application \/ Setter \/ Request
Spec == Init /\ [][Next]_vars

-----------------------------------------------------------------------------
(* Properties.                                                             *)

\* Between setter calls every part works with the service's settings, whether it
\* was registered before the setting was made or after it, and whatever entity
\* limits came and went meanwhile.
ConfigurationIsUniform ==
  setter = NoSetter =>
    /\ metadata = [namespace |-> config.namespace, schemaVersion |-> config.schemaVersion]
    /\ elsewhere = config.namespace
    /\ \A n \in Registered :
         LET h == handlers[n] IN
         /\ h.namespace = config.namespace /\ h.schemaVersion = config.schemaVersion
         /\ Limit(h) = IF h.top # 0 THEN h.top ELSE config.maxTop

\* What is cached tells the current settings and annotations, unless a setter
\* overtook the builder, and speaks of one namespace; the service document lists
\* every name whose registration succeeded.
CachedIsCurrent ==
  /\ \A f \in Formats : \A d \in cache[f] :
       ~suspect[f] /\ setter.at # "metadata" /\ ~Locked =>
         /\ d.namespace = metadata.namespace /\ d.types = metadata.namespace
         /\ d.schemaVersion = metadata.schemaVersion /\ d.notes = notes
         /\ d.sets \subseteq Registered /\ d.operations \subseteq operations
  /\ \A l \in listing : {n \in Registered : handlers[n].ok} \subseteq l /\ l \subseteq Registered

-----------------------------------------------------------------------------
(* The inductive invariant behind ConfigurationIsUniform and               *)
(* CachedIsCurrent.                                                        *)

NamespaceValues == Namespaces \cup {DefaultNamespace}
VersionValues == SchemaVersions \cup {""}
TopValues == Tops \cup {0}
HandlerType ==
  [ok : BOOLEAN, namespace : NamespaceValues, schemaVersion : VersionValues,
   maxTop : TopValues, top : TopValues, adapter : NamespaceValues \cup {Empty}]
SetterType ==
  [what : {"namespace", "schemaVersion"},
   at : {"metadata", "xml", "json", "elsewhere", "handlers"}, left : SUBSET Names]
NoteType == (Names \cup {""}) \X Notes
DocumentType ==
  [schemaVersion : VersionValues, namespace : NamespaceValues, types : NamespaceValues,
   sets : SUBSET Names, operations : SUBSET Operations, notes : SUBSET NoteType]
Asked == [at : {"schema"}, format : Formats, overtaken : BOOLEAN]
VersionRead == [at : {"namespace"}, format : Formats, overtaken : BOOLEAN, schemaVersion : VersionValues]
NamespaceRead ==
  [at : {"types"}, format : Formats, overtaken : BOOLEAN, schemaVersion : VersionValues,
   namespace : NamespaceValues]
Built == [at : {"store"}, format : Formats, overtaken : BOOLEAN, document : DocumentType]
Builders == Asked \cup VersionRead \cup NamespaceRead \cup Built

ServiceTypeOK ==
  /\ config \in [namespace : NamespaceValues, schemaVersion : VersionValues, maxTop : TopValues]
  /\ Registered \subseteq Names /\ handlers \in [Registered -> HandlerType]
  /\ operations \subseteq Operations /\ notes \subseteq NoteType
  /\ metadata \in [namespace : NamespaceValues, schemaVersion : VersionValues]
  /\ elsewhere \in NamespaceValues
  /\ cache \in [Formats -> SUBSET DocumentType] /\ listing \subseteq SUBSET Names
  /\ setter \in SetterType \cup {NoSetter}
  /\ reader \in [Readers -> Builders \cup {Idle}]
  /\ suspect \in [Formats -> BOOLEAN]

\* A setter in progress is what keeps a copy apart from the service's settings:
\* the copies it has still to make.
BeingTold(n, what) == setter # NoSetter /\ setter.what = what /\ n \in setter.left
SettingsSpread ==
  /\ setter.at # "metadata" =>
       metadata = [namespace |-> config.namespace, schemaVersion |-> config.schemaVersion]
  /\ elsewhere # config.namespace =>
       setter.at \in {"metadata", "xml", "json", "elsewhere"} /\ setter.what = "namespace"
  /\ \A n \in Registered :
       /\ handlers[n].namespace # config.namespace => BeingTold(n, "namespace")
       /\ handlers[n].schemaVersion # config.schemaVersion => BeingTold(n, "schemaVersion")
       /\ handlers[n].top = 0 => handlers[n].maxTop = config.maxTop
  /\ setter # NoSetter =>
       /\ setter.left \subseteq Registered
       /\ setter.at # "handlers" => setter.left = Registered

\* A document and a builder that was not overtaken tell the settings of the
\* metadata handler.
Current(d) ==
  /\ d.namespace = metadata.namespace /\ d.types = metadata.namespace
  /\ d.schemaVersion = metadata.schemaVersion
Within(d) == d.notes = notes /\ d.sets \subseteq Registered /\ d.operations \subseteq operations
BuilderIsCurrent(b) ==
  /\ b \in VersionRead \cup NamespaceRead /\ ~b.overtaken => b.schemaVersion = metadata.schemaVersion
  /\ b \in NamespaceRead /\ ~b.overtaken => b.namespace = metadata.namespace
  /\ b \in Built => Within(b.document) /\ (~b.overtaken => Current(b.document))
BuildersAreCurrent == \A r \in Readers : BuilderIsCurrent(reader[r])

\* Between SetMetadata and the two clearings a cached document may be outdated.
CachesAreCurrent ==
  \A f \in Formats : \A d \in cache[f] :
    /\ Within(d)
    /\ suspect[f] \/ setter.at = "xml" \/ (setter.at = "json" /\ f = "json") \/ Current(d)

ListingIsComplete ==
  \A l \in listing : {n \in Registered : handlers[n].ok} \subseteq l /\ l \subseteq Registered

ServiceInv ==
  ServiceTypeOK /\ SettingsSpread /\ BuildersAreCurrent /\ CachesAreCurrent /\ ListingIsComplete

=============================================================================
