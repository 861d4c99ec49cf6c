---------------------------- MODULE Service_proofs ----------------------------
(***************************************************************************)
(* Proofs about what the service keeps and reads beside its entities, for  *)
(* every set of names, operations, settings, readers, rows, searches,      *)
(* models and paths: the settings of the facade reach every part and the   *)
(* cached documents tell them, the full-text index finds the rows of its   *)
(* table, both metadata documents say the same, the registry follows the   *)
(* declarations of its types, and the router reads a request as it is      *)
(* written.                                                                *)
(***************************************************************************)
EXTENDS Service, SearchIndex, MetadataDocument, EntityModel, Router, FiniteSetTheorems,
        SequenceTheorems, WellFoundedInduction, NaturalsInduction, FunctionTheorems, TLAPS

-----------------------------------------------------------------------------
(* The facade.                                                             *)

\* A setter in progress and a reader at work are told apart from idle ones by
\* the step they are at.
LEMMA SteppingIsNotIdle ==
  /\ \A s \in SetterType : s.at # "idle" /\ s # NoSetter
  /\ NoSetter.at = "idle"
  /\ Idle.at = "idle"
  /\ \A b \in Asked : b.at = "schema"
  /\ \A b \in VersionRead : b.at = "namespace"
  /\ \A b \in NamespaceRead : b.at = "types"
  /\ \A b \in Built : b.at = "store"
  BY DEF SetterType, NoSetter, Idle, Asked, VersionRead, NamespaceRead, Built

\* Which builder a reader is, by its step.
LEMMA BuilderAt ==
  ASSUME ServiceTypeOK, NEW r \in Readers
  PROVE  /\ reader[r].at = "idle" <=> reader[r] = Idle
         /\ reader[r].at = "schema" <=> reader[r] \in Asked
         /\ reader[r].at = "namespace" <=> reader[r] \in VersionRead
         /\ reader[r].at = "types" <=> reader[r] \in NamespaceRead
         /\ reader[r].at = "store" <=> reader[r] \in Built
<1>1. reader[r] \in Asked \cup VersionRead \cup NamespaceRead \cup Built \cup {Idle}
  BY DEF ServiceTypeOK, Builders
<1> QED BY <1>1, SteppingIsNotIdle

\* The state before any call.
LEMMA ServiceStarts == Init => ServiceInv
<1> SUFFICES ASSUME Init PROVE ServiceInv
  OBVIOUS
<1> USE DEF Init
<1>1. Registered = {}
  BY DEF Registered
<1>2. handlers \in [Registered -> HandlerType]
  BY <1>1
<1>3. cache \in [Formats -> SUBSET DocumentType] /\ suspect \in [Formats -> BOOLEAN]
  OBVIOUS
<1>4. ServiceTypeOK
  BY <1>1, <1>2, <1>3 DEF ServiceTypeOK, NamespaceValues, VersionValues, TopValues
<1>5. SettingsSpread
  BY <1>1, SteppingIsNotIdle DEF SettingsSpread, NoSetter
<1>6. BuildersAreCurrent
  BY SteppingIsNotIdle DEF BuildersAreCurrent, BuilderIsCurrent
<1>7. CachesAreCurrent /\ ListingIsComplete
  BY DEF CachesAreCurrent, ListingIsComplete
<1> QED BY <1>4, <1>5, <1>6, <1>7 DEF ServiceInv

-----------------------------------------------------------------------------
(* What a step may leave alone.                                            *)

\* Builders stay current while the settings and annotations they read do, and
\* while names and operations are only added.
LEMMA BuildersKept ==
  ASSUME BuildersAreCurrent, UNCHANGED <<reader, metadata, notes>>,
         Registered \subseteq Registered', operations \subseteq operations'
  PROVE  BuildersAreCurrent'
  BY DEF BuildersAreCurrent, BuilderIsCurrent, Within, Current

\* The same for the cached documents.
LEMMA CachesKept ==
  ASSUME CachesAreCurrent, UNCHANGED <<cache, suspect, metadata, notes>>,
         setter.at \notin {"xml", "json"},
         Registered \subseteq Registered', operations \subseteq operations'
  PROVE  CachesAreCurrent'
<1> SUFFICES ASSUME NEW f \in Formats, NEW d \in cache[f]
             PROVE  Within(d)' /\ (suspect[f] \/ Current(d)')
  BY Zenon DEF CachesAreCurrent
<1>1. Within(d) /\ (suspect[f] \/ Current(d))
  BY DEF CachesAreCurrent
<1> QED BY <1>1 DEF Within, Current

\* And where the setter does not move.
LEMMA CachesUntouched ==
  ASSUME CachesAreCurrent, UNCHANGED <<cache, suspect, metadata, notes, operations, setter>>,
         Registered' = Registered
  PROVE  CachesAreCurrent'
  BY DEF CachesAreCurrent, Within, Current

\* Settings stay where they are.
LEMMA SettingsKept ==
  ASSUME SettingsSpread, UNCHANGED <<config, handlers, metadata, elsewhere, setter>>
  PROVE  SettingsSpread'
  BY DEF SettingsSpread, BeingTold, Registered

\* So does the service document, whatever else a handler is told.
LEMMA ListingKept ==
  ASSUME ListingIsComplete, UNCHANGED listing, Registered' = Registered,
         \A n \in Registered : handlers'[n].ok = handlers[n].ok
  PROVE  ListingIsComplete'
  BY DEF ListingIsComplete

-----------------------------------------------------------------------------
(* Registrations and limits: between requests.                             *)

\* Between requests no setter is in progress and no document is being built.
LEMMA QuietMeans ==
  ASSUME ServiceInv, Quiet
  PROVE  /\ setter = NoSetter /\ setter.at = "idle"
         /\ metadata = [namespace |-> config.namespace, schemaVersion |-> config.schemaVersion]
         /\ elsewhere = config.namespace
         /\ \A n \in Registered :
              /\ handlers[n].namespace = config.namespace
              /\ handlers[n].schemaVersion = config.schemaVersion
              /\ handlers[n].top = 0 => handlers[n].maxTop = config.maxTop
<1>1. setter = NoSetter /\ setter.at = "idle"
  BY SteppingIsNotIdle DEF Quiet
<1> QED BY <1>1 DEF ServiceInv, SettingsSpread, BeingTold

\* Conversely, without a setter these make the settings spread.
LEMMA UniformSpreads ==
  ASSUME setter' = NoSetter, setter'.at = "idle",
         metadata' = [namespace |-> config'.namespace, schemaVersion |-> config'.schemaVersion],
         elsewhere' = config'.namespace,
         \A n \in Registered' :
           /\ handlers'[n].namespace = config'.namespace
           /\ handlers'[n].schemaVersion = config'.schemaVersion
           /\ handlers'[n].top = 0 => handlers'[n].maxTop = config'.maxTop
  PROVE  SettingsSpread'
  BY DEF SettingsSpread, BeingTold

\* A new handler starts with the service's settings.
LEMMA Registers ==
  ASSUME ServiceInv, NEW n \in Names, NEW ok \in BOOLEAN, Register(n, ok)
  PROVE  ServiceInv'
<1> DEFINE h == NewHandler(ok)
<1>1. /\ handlers' = [m \in Registered \cup {n} |-> IF m = n THEN h ELSE handlers[m]]
      /\ listing' = IF ok THEN {} ELSE listing
      /\ UNCHANGED <<config, operations, notes, metadata, elsewhere, cache, setter, reader, suspect>>
      /\ n \notin Registered
  BY DEF Register
<1>2. /\ setter = NoSetter /\ setter.at = "idle"
      /\ metadata = [namespace |-> config.namespace, schemaVersion |-> config.schemaVersion]
      /\ elsewhere = config.namespace
      /\ \A m \in Registered :
           /\ handlers[m].namespace = config.namespace
           /\ handlers[m].schemaVersion = config.schemaVersion
           /\ handlers[m].top = 0 => handlers[m].maxTop = config.maxTop
  BY QuietMeans DEF Register
<1>3. /\ Registered' = Registered \cup {n} /\ handlers'[n] = h
      /\ \A m \in Registered : handlers'[m] = handlers[m]
  BY <1>1 DEF Registered
<1>4. /\ h \in HandlerType /\ h.namespace = config.namespace
      /\ h.schemaVersion = config.schemaVersion /\ h.maxTop = config.maxTop /\ h.ok = ok
  BY DEF NewHandler, HandlerType, ServiceInv, ServiceTypeOK, TopValues
<1> HIDE DEF h
<1>5. ServiceTypeOK'
  <2>1. handlers' \in [Registered' -> HandlerType]
    BY <1>1, <1>3, <1>4 DEF ServiceInv, ServiceTypeOK
  <2> QED BY <1>1, <1>3, <2>1 DEF ServiceInv, ServiceTypeOK
<1>6. SettingsSpread'
  BY <1>1, <1>2, <1>3, <1>4, UniformSpreads
<1>7. BuildersAreCurrent' /\ CachesAreCurrent'
  BY <1>1, <1>2, <1>3, BuildersKept, CachesKept DEF ServiceInv
<1>8. ListingIsComplete'
  <2>1. CASE ok
    BY <1>1, <2>1 DEF ListingIsComplete
  <2>2. CASE ~ok
    BY <1>1, <1>3, <1>4, <2>2 DEF ServiceInv, ListingIsComplete
  <2> QED BY <2>1, <2>2
<1> QED BY <1>5, <1>6, <1>7, <1>8 DEF ServiceInv

\* An operation adds to what documents tell; an annotation clears them.
LEMMA RegistersOther ==
  ASSUME ServiceInv,
         \/ \E op \in Operations : RegisterOperation(op)
         \/ \E target \in Names \cup {""}, note \in Notes : RegisterAnnotation(target, note)
  PROVE  ServiceInv'
<1>1. UNCHANGED <<config, handlers, metadata, elsewhere, listing, setter, reader>> /\ Quiet
  BY DEF RegisterOperation, RegisterAnnotation
<1>2. setter = NoSetter /\ setter.at = "idle" /\ Registered' = Registered
  BY <1>1, QuietMeans DEF Registered
<1>3. SettingsSpread' /\ ListingIsComplete'
  BY <1>1, <1>2, SettingsKept, ListingKept DEF ServiceInv
<1>4. ASSUME NEW op \in Operations, RegisterOperation(op) PROVE ServiceInv'
  <2>1. operations' = operations \cup {op} /\ UNCHANGED <<notes, cache, suspect>>
    BY <1>4 DEF RegisterOperation
  <2>2. ServiceTypeOK'
    BY <1>1, <1>2, <2>1 DEF ServiceInv, ServiceTypeOK
  <2>3. BuildersAreCurrent' /\ CachesAreCurrent'
    BY <1>1, <1>2, <2>1, BuildersKept, CachesKept DEF ServiceInv
  <2> QED BY <1>3, <2>2, <2>3 DEF ServiceInv
<1>5. ASSUME NEW target \in Names \cup {""}, NEW note \in Notes, RegisterAnnotation(target, note)
      PROVE  ServiceInv'
  <2>1. /\ notes' = notes \cup {<<target, note>>} /\ UNCHANGED operations
        /\ cache' = [f \in Formats |-> {}]
        /\ suspect' = [f \in Formats |-> suspect[f] /\ cache'[f] # {}]
    BY <1>5 DEF RegisterAnnotation, ClearCache
  <2>2. suspect' \in [Formats -> BOOLEAN] /\ cache' \in [Formats -> SUBSET DocumentType]
    BY <2>1
  <2>3. notes' \subseteq NoteType
    <3>1. <<target, note>> \in NoteType
      BY DEF NoteType
    <3>2. notes \subseteq NoteType
      BY DEF ServiceInv, ServiceTypeOK
    <3> QED BY <2>1, <3>1, <3>2
  <2>4. ServiceTypeOK'
    BY <1>1, <1>2, <2>1, <2>2, <2>3 DEF ServiceInv, ServiceTypeOK
  <2>5. \A r \in Readers : reader'[r] = Idle
    BY <1>1 DEF Quiet
  <2>6. BuildersAreCurrent'
    BY <2>5, SteppingIsNotIdle DEF BuildersAreCurrent, BuilderIsCurrent
  <2>7. CachesAreCurrent'
    BY <2>1 DEF CachesAreCurrent
  <2> QED BY <1>3, <2>4, <2>6, <2>7 DEF ServiceInv
<1> QED BY <1>4, <1>5

\* A call that changes no handler but for its limit keeps the rest.
LEMMA LimitsKept ==
  ASSUME ServiceInv, Quiet,
         UNCHANGED <<operations, notes, metadata, elsewhere, cache, listing, setter, reader, suspect>>,
         config'.namespace = config.namespace, config'.schemaVersion = config.schemaVersion,
         config' \in [namespace : NamespaceValues, schemaVersion : VersionValues, maxTop : TopValues],
         Registered' = Registered, handlers' \in [Registered -> HandlerType],
         \A n \in Registered :
           /\ handlers'[n].namespace = handlers[n].namespace
           /\ handlers'[n].schemaVersion = handlers[n].schemaVersion
           /\ handlers'[n].ok = handlers[n].ok
           /\ handlers'[n].top = 0 => handlers'[n].maxTop = config'.maxTop
  PROVE  ServiceInv'
<1>1. /\ setter = NoSetter /\ setter.at = "idle"
      /\ metadata = [namespace |-> config.namespace, schemaVersion |-> config.schemaVersion]
      /\ elsewhere = config.namespace
      /\ \A n \in Registered :
           /\ handlers[n].namespace = config.namespace
           /\ handlers[n].schemaVersion = config.schemaVersion
           /\ handlers[n].top = 0 => handlers[n].maxTop = config.maxTop
  BY QuietMeans
<1>2. ServiceTypeOK'
  BY DEF ServiceInv, ServiceTypeOK
<1>3. SettingsSpread'
  BY <1>1, UniformSpreads
<1>4. BuildersAreCurrent' /\ CachesAreCurrent' /\ ListingIsComplete'
  BY <1>1, BuildersKept, CachesKept, ListingKept DEF ServiceInv
<1> QED BY <1>2, <1>3, <1>4 DEF ServiceInv

\* The service's limit reaches the handlers without one of their own.
LEMMA SetsDefaultLimit ==
  ASSUME ServiceInv, NEW t \in Tops, SetDefaultMaxTop(t)
  PROVE  ServiceInv'
<1> DEFINE told(n) == [handlers[n] EXCEPT !.maxTop = t]
<1>1. /\ config' = [config EXCEPT !.maxTop = t] /\ t \in TopValues /\ Quiet
      /\ handlers' = [n \in Registered |-> IF handlers[n].top # 0 THEN handlers[n] ELSE told(n)]
      /\ UNCHANGED <<operations, notes, metadata, elsewhere, cache, listing, setter, reader, suspect>>
  BY DEF SetDefaultMaxTop, TopValues
<1>2. config \in [namespace : NamespaceValues, schemaVersion : VersionValues, maxTop : TopValues]
  BY DEF ServiceInv, ServiceTypeOK
<1>3. /\ config'.namespace = config.namespace /\ config'.schemaVersion = config.schemaVersion
      /\ config'.maxTop = t
      /\ config' \in [namespace : NamespaceValues, schemaVersion : VersionValues, maxTop : TopValues]
  BY <1>1, <1>2
<1>4. \A n \in Registered :
        /\ handlers[n] \in HandlerType /\ told(n) \in HandlerType
        /\ told(n).namespace = handlers[n].namespace
        /\ told(n).schemaVersion = handlers[n].schemaVersion
        /\ told(n).ok = handlers[n].ok /\ told(n).maxTop = t
  <2>1. \A n \in Registered : handlers[n] \in HandlerType
    BY DEF ServiceInv, ServiceTypeOK
  <2> QED BY <1>1, <2>1 DEF HandlerType
<1> HIDE DEF told
<1>5. /\ Registered' = Registered /\ handlers' \in [Registered -> HandlerType]
      /\ \A n \in Registered : handlers'[n] = IF handlers[n].top # 0 THEN handlers[n] ELSE told(n)
  BY <1>1, <1>4 DEF Registered
<1>6. \A n \in Registered :
        /\ handlers'[n].namespace = handlers[n].namespace
        /\ handlers'[n].schemaVersion = handlers[n].schemaVersion
        /\ handlers'[n].ok = handlers[n].ok
        /\ handlers'[n].top = 0 => handlers'[n].maxTop = config'.maxTop
  BY <1>3, <1>4, <1>5
<1> QED BY <1>1, <1>3, <1>5, <1>6, LimitsKept

\* An entity's own limit, and the return to the service's when it is taken away.
LEMMA SetsEntityLimit ==
  ASSUME ServiceInv, NEW n \in Names, NEW t \in Tops, SetEntityDefaultMaxTop(n, t)
  PROVE  ServiceInv'
<1> DEFINE h == [handlers[n] EXCEPT !.top = t, !.maxTop = IF t = 0 THEN config.maxTop ELSE @]
<1>1. /\ Quiet /\ n \in Registered
      /\ handlers' = [handlers EXCEPT ![n].top = t, ![n].maxTop = IF t = 0 THEN config.maxTop ELSE @]
      /\ UNCHANGED <<config, operations, notes, metadata, elsewhere, cache, listing, setter, reader, suspect>>
  BY DEF SetEntityDefaultMaxTop
<1>2. /\ config \in [namespace : NamespaceValues, schemaVersion : VersionValues, maxTop : TopValues]
      /\ handlers \in [Registered -> HandlerType] /\ t \in TopValues
  BY DEF ServiceInv, ServiceTypeOK, TopValues
<1>3. /\ h \in HandlerType /\ h.namespace = handlers[n].namespace
      /\ h.schemaVersion = handlers[n].schemaVersion /\ h.ok = handlers[n].ok
      /\ h.top = 0 => h.maxTop = config.maxTop
  <2>1. handlers[n] \in HandlerType /\ config.maxTop \in TopValues
    BY <1>1, <1>2
  <2> QED BY <1>2, <2>1 DEF HandlerType
<1>4. handlers' = [handlers EXCEPT ![n] = h]
  BY <1>1, <1>2
<1> HIDE DEF h
<1>5. /\ Registered' = Registered /\ handlers' \in [Registered -> HandlerType]
      /\ handlers'[n] = h /\ \A m \in Registered \ {n} : handlers'[m] = handlers[m]
  BY <1>1, <1>2, <1>3, <1>4 DEF Registered
<1>6. \A m \in Registered : handlers[m].top = 0 => handlers[m].maxTop = config.maxTop
  BY <1>1, QuietMeans
<1>7. \A m \in Registered :
        /\ handlers'[m].namespace = handlers[m].namespace
        /\ handlers'[m].schemaVersion = handlers[m].schemaVersion
        /\ handlers'[m].ok = handlers[m].ok
        /\ handlers'[m].top = 0 => handlers'[m].maxTop = config'.maxTop
  BY <1>1, <1>3, <1>5, <1>6
<1> QED BY <1>1, <1>2, <1>5, <1>7, LimitsKept

-----------------------------------------------------------------------------
(* The setters.                                                            *)

\* SetNamespace and SetSchemaVersion begin: every other copy is still to be made.
LEMMA SetterBegins ==
  ASSUME ServiceInv,
         \/ \E ns \in Namespaces : SetNamespace(ns)
         \/ \E v \in SchemaVersions : SetSchemaVersion(v)
  PROVE  ServiceInv'
<1> DEFINE begun(w) == [what |-> w, at |-> "metadata", left |-> Registered]
<1>1. /\ setter = NoSetter
      /\ UNCHANGED <<handlers, operations, notes, metadata, elsewhere, cache, listing, reader, suspect>>
      /\ Registered' = Registered
  BY DEF SetNamespace, SetSchemaVersion, Registered
<1>2. /\ config' \in [namespace : NamespaceValues, schemaVersion : VersionValues, maxTop : TopValues]
      /\ config'.maxTop = config.maxTop
      /\ \/ setter' = begun("namespace") /\ config'.schemaVersion = config.schemaVersion
         \/ setter' = begun("schemaVersion") /\ config'.namespace = config.namespace
  BY DEF SetNamespace, SetSchemaVersion, ServiceInv, ServiceTypeOK, NamespaceValues, VersionValues
<1>3. \A w \in {"namespace", "schemaVersion"} :
        /\ begun(w) \in SetterType /\ begun(w).what = w /\ begun(w).at = "metadata"
        /\ begun(w).left = Registered /\ begun(w) # NoSetter
  BY DEF ServiceInv, ServiceTypeOK, SetterType, NoSetter
<1> HIDE DEF begun
<1>4. /\ elsewhere = config.namespace
      /\ \A n \in Registered :
           /\ handlers[n].namespace = config.namespace
           /\ handlers[n].schemaVersion = config.schemaVersion
           /\ handlers[n].top = 0 => handlers[n].maxTop = config.maxTop
  BY <1>1, SteppingIsNotIdle DEF ServiceInv, SettingsSpread, BeingTold
<1>5. ServiceTypeOK'
  BY <1>1, <1>2, <1>3 DEF ServiceInv, ServiceTypeOK
<1>6. SettingsSpread'
  BY <1>1, <1>2, <1>3, <1>4 DEF SettingsSpread, BeingTold
<1>7. BuildersAreCurrent' /\ CachesAreCurrent' /\ ListingIsComplete'
  BY <1>1, SteppingIsNotIdle, BuildersKept, CachesKept, ListingKept DEF ServiceInv
<1> QED BY <1>5, <1>6, <1>7 DEF ServiceInv

\* A builder that is told it was overtaken stays the builder it was.
LEMMA OvertakenBuilder ==
  ASSUME NEW b \in Builders
  PROVE  LET c == [b EXCEPT !.overtaken = TRUE] IN
         /\ c \in Builders /\ c.overtaken
         /\ c \in Built => b \in Built /\ c.document = b.document
<1> DEFINE c == [b EXCEPT !.overtaken = TRUE]
<1>1. CASE b \in Asked
  BY <1>1 DEF Builders, Asked, Built
<1>2. CASE b \in VersionRead
  BY <1>2 DEF Builders, VersionRead, Built
<1>3. CASE b \in NamespaceRead
  BY <1>3 DEF Builders, NamespaceRead, Built
<1>4. CASE b \in Built
  BY <1>4 DEF Builders, Built
<1> QED BY <1>1, <1>2, <1>3, <1>4 DEF Builders

\* The metadata handler takes the new settings, overtaking every builder.
LEMMA MetadataIsTold ==
  ASSUME ServiceInv, SetMetadata
  PROVE  ServiceInv'
<1> DEFINE overtake(r) == [reader[r] EXCEPT !.overtaken = TRUE]
<1>1. /\ setter.at = "metadata"
      /\ metadata' = [namespace |-> config.namespace, schemaVersion |-> config.schemaVersion]
      /\ reader' = [r \in Readers |-> IF reader[r] = Idle THEN Idle ELSE overtake(r)]
      /\ setter' = [setter EXCEPT !.at = "xml"]
      /\ UNCHANGED <<config, handlers, operations, notes, elsewhere, cache, listing, suspect>>
      /\ Registered' = Registered
  BY DEF SetMetadata, Registered
<1>2. setter \in SetterType /\ setter # NoSetter
  BY <1>1, SteppingIsNotIdle DEF ServiceInv, ServiceTypeOK
<1>3. /\ setter' \in SetterType /\ setter' # NoSetter /\ setter'.at = "xml"
      /\ setter'.what = setter.what /\ setter'.left = setter.left
  BY <1>1, <1>2 DEF SetterType, NoSetter
<1>4. \A r \in Readers : reader[r] # Idle =>
        /\ reader[r] \in Builders /\ overtake(r) \in Builders /\ overtake(r).overtaken
        /\ overtake(r) \in Built => reader[r] \in Built /\ overtake(r).document = reader[r].document
  <2>1. \A r \in Readers : reader[r] # Idle => reader[r] \in Builders
    BY DEF ServiceInv, ServiceTypeOK
  <2> QED BY <2>1, OvertakenBuilder
<1> HIDE DEF overtake
<1>5. ServiceTypeOK'
  <2>1. reader' \in [Readers -> Builders \cup {Idle}]
    BY <1>1, <1>4
  <2>2. metadata' \in [namespace : NamespaceValues, schemaVersion : VersionValues]
    BY <1>1 DEF ServiceInv, ServiceTypeOK
  <2> QED BY <1>1, <1>3, <2>1, <2>2 DEF ServiceInv, ServiceTypeOK
<1>6. SettingsSpread'
  BY <1>1, <1>2, <1>3 DEF ServiceInv, SettingsSpread, BeingTold
<1>7. BuildersAreCurrent'
  <2> SUFFICES ASSUME NEW r \in Readers PROVE BuilderIsCurrent(reader[r])'
    BY DEF BuildersAreCurrent
  <2>1. CASE reader[r] = Idle
    BY <1>1, <2>1, SteppingIsNotIdle DEF BuilderIsCurrent
  <2>2. CASE reader[r] # Idle
    <3>1. reader'[r] = overtake(r)
      BY <1>1, <2>2
    <3>2. reader'[r] \in Built => Within(reader'[r].document)
      BY <1>4, <2>2, <3>1 DEF ServiceInv, BuildersAreCurrent, BuilderIsCurrent
    <3>3. reader'[r] \in Built => Within(reader[r].document)'
      BY <1>1, <3>2 DEF Within
    <3>4. reader'[r].overtaken
      BY <1>4, <2>2, <3>1
    <3> QED BY <3>3, <3>4 DEF BuilderIsCurrent
  <2> QED BY <2>1, <2>2
<1>8. CachesAreCurrent'
  BY <1>1, <1>3 DEF ServiceInv, CachesAreCurrent, Within
<1>9. ListingIsComplete'
  BY <1>1, ListingKept DEF ServiceInv
<1> QED BY <1>5, <1>6, <1>7, <1>8, <1>9 DEF ServiceInv

\* It drops the two cached documents, one after the other.
LEMMA FormatIsCleared ==
  ASSUME ServiceInv,
         \/ ClearFormat("xml", "json")
         \/ ClearFormat("json", IF setter.what = "namespace" THEN "elsewhere" ELSE "handlers")
  PROVE  ServiceInv'
<1>1. PICK f \in {"xml", "json"}, next \in {"json", "elsewhere", "handlers"} :
        /\ f = "xml" => next = "json"
        /\ f = "json" => next = IF setter.what = "namespace" THEN "elsewhere" ELSE "handlers"
        /\ ClearFormat(f, next)
  BY Zenon
<1>2. /\ setter.at = f /\ setter' = [setter EXCEPT !.at = next]
      /\ cache' = [cache EXCEPT ![f] = {}] /\ suspect' = [suspect EXCEPT ![f] = FALSE]
      /\ UNCHANGED <<config, handlers, operations, notes, metadata, elsewhere, listing, reader>>
      /\ Registered' = Registered
  BY <1>1 DEF ClearFormat, Registered
<1>3. setter \in SetterType /\ setter # NoSetter
  BY <1>1, <1>2, SteppingIsNotIdle DEF ServiceInv, ServiceTypeOK
<1>4. /\ setter' \in SetterType /\ setter' # NoSetter /\ setter'.at = next
      /\ setter'.what = setter.what /\ setter'.left = setter.left
  BY <1>1, <1>2, <1>3 DEF SetterType, NoSetter
<1>5. ServiceTypeOK'
  <2>1. cache' \in [Formats -> SUBSET DocumentType] /\ suspect' \in [Formats -> BOOLEAN]
    BY <1>2 DEF ServiceInv, ServiceTypeOK
  <2> QED BY <1>2, <1>4, <2>1 DEF ServiceInv, ServiceTypeOK
<1>6. SettingsSpread'
  <2>1. setter.what \in {"namespace", "schemaVersion"}
    BY <1>3 DEF SetterType
  <2>2. /\ metadata = [namespace |-> config.namespace, schemaVersion |-> config.schemaVersion]
        /\ elsewhere # config.namespace => setter.what = "namespace"
        /\ setter.left = Registered
    BY <1>1, <1>2, <1>3 DEF ServiceInv, SettingsSpread
  <2>3. elsewhere # config.namespace => next \in {"json", "elsewhere"}
    BY <1>1, <2>2
  <2> QED BY <1>2, <1>3, <1>4, <2>2, <2>3 DEF ServiceInv, SettingsSpread, BeingTold
<1>7. BuildersAreCurrent' /\ ListingIsComplete'
  BY <1>2, BuildersKept, ListingKept DEF ServiceInv
<1>8. CachesAreCurrent'
  <2> SUFFICES ASSUME NEW g \in Formats, NEW d \in cache'[g]
               PROVE  /\ Within(d)'
                      /\ \/ suspect'[g]
                         \/ setter'.at = "xml" \/ (setter'.at = "json" /\ g = "json")
                         \/ Current(d)'
    BY Zenon DEF CachesAreCurrent
  <2>1. g # f /\ d \in cache[g] /\ suspect'[g] = suspect[g]
    BY <1>2 DEF ServiceInv, ServiceTypeOK
  <2>2. /\ Within(d)
        /\ suspect[g] \/ setter.at = "xml" \/ (setter.at = "json" /\ g = "json") \/ Current(d)
    BY <2>1 DEF ServiceInv, CachesAreCurrent
  <2>3. Within(d)' /\ (Current(d) => Current(d)')
    BY <1>2, <2>2 DEF Within, Current
  <2>4. f = "xml" => g = "json"
    BY <2>1, ServiceAssumption
  <2> QED BY <1>1, <1>2, <1>4, <2>1, <2>2, <2>3, <2>4
<1> QED BY <1>5, <1>6, <1>7, <1>8 DEF ServiceInv

\* The operations handler and the router take the namespace.
LEMMA ElsewhereIsTold ==
  ASSUME ServiceInv, SetElsewhere
  PROVE  ServiceInv'
<1>1. /\ setter.at = "elsewhere" /\ setter' = [setter EXCEPT !.at = "handlers"]
      /\ elsewhere' = config.namespace
      /\ UNCHANGED <<config, handlers, operations, notes, metadata, cache, listing, reader, suspect>>
      /\ Registered' = Registered
  BY DEF SetElsewhere, Registered
<1>2. setter \in SetterType /\ setter # NoSetter
  BY <1>1, SteppingIsNotIdle DEF ServiceInv, ServiceTypeOK
<1>3. /\ setter' \in SetterType /\ setter' # NoSetter /\ setter'.at = "handlers"
      /\ setter'.what = setter.what /\ setter'.left = setter.left
  BY <1>1, <1>2 DEF SetterType, NoSetter
<1>4. ServiceTypeOK'
  BY <1>1, <1>3 DEF ServiceInv, ServiceTypeOK
<1>5. SettingsSpread'
  BY <1>1, <1>2, <1>3 DEF ServiceInv, SettingsSpread, BeingTold
<1>6. BuildersAreCurrent' /\ CachesAreCurrent' /\ ListingIsComplete'
  BY <1>1, BuildersKept, CachesKept, ListingKept DEF ServiceInv
<1> QED BY <1>4, <1>5, <1>6 DEF ServiceInv

\* A handler takes the setting that is being spread.
LEMMA HandlerIsTold ==
  ASSUME ServiceInv, NEW n \in Names, SetHandler(n)
  PROVE  ServiceInv'
<1> DEFINE h == IF setter.what = "namespace" THEN [handlers[n] EXCEPT !.namespace = config.namespace]
                ELSE [handlers[n] EXCEPT !.schemaVersion = config.schemaVersion]
<1>1. /\ setter.at = "handlers" /\ n \in setter.left
      /\ setter' = [setter EXCEPT !.left = @ \ {n}]
      /\ handlers' = [handlers EXCEPT ![n] = h]
      /\ UNCHANGED <<config, operations, notes, metadata, elsewhere, cache, listing, reader, suspect>>
  BY DEF SetHandler
<1>2. setter \in SetterType /\ setter # NoSetter
  BY <1>1, SteppingIsNotIdle DEF ServiceInv, ServiceTypeOK
<1>3. /\ setter' \in SetterType /\ setter' # NoSetter /\ setter'.at = "handlers"
      /\ setter'.what = setter.what /\ setter'.left = setter.left \ {n}
  BY <1>1, <1>2 DEF SetterType, NoSetter
<1>4. n \in Registered /\ setter.left \subseteq Registered
  BY <1>1, <1>2 DEF ServiceInv, SettingsSpread
<1>5. /\ h \in HandlerType /\ h.ok = handlers[n].ok /\ h.top = handlers[n].top
      /\ h.maxTop = handlers[n].maxTop
      /\ setter.what = "namespace" =>
           h.namespace = config.namespace /\ h.schemaVersion = handlers[n].schemaVersion
      /\ setter.what = "schemaVersion" =>
           h.schemaVersion = config.schemaVersion /\ h.namespace = handlers[n].namespace
  <2>1. /\ handlers[n] \in HandlerType
        /\ config.namespace \in NamespaceValues /\ config.schemaVersion \in VersionValues
    BY <1>4 DEF ServiceInv, ServiceTypeOK
  <2> QED BY <2>1 DEF HandlerType
<1> HIDE DEF h
<1>6. /\ Registered' = Registered /\ handlers' \in [Registered -> HandlerType]
      /\ handlers'[n] = h /\ \A m \in Registered \ {n} : handlers'[m] = handlers[m]
  BY <1>1, <1>4, <1>5 DEF ServiceInv, ServiceTypeOK, Registered
<1>7. ServiceTypeOK'
  BY <1>1, <1>3, <1>6 DEF ServiceInv, ServiceTypeOK
<1>8. SettingsSpread'
  <2>1. ASSUME NEW m \in Registered
        PROVE  /\ handlers'[m].namespace # config.namespace =>
                    setter.what = "namespace" /\ m \in setter'.left
               /\ handlers'[m].schemaVersion # config.schemaVersion =>
                    setter.what = "schemaVersion" /\ m \in setter'.left
               /\ handlers'[m].top = 0 => handlers'[m].maxTop = config.maxTop
    <3>1. /\ handlers[m].namespace # config.namespace =>
               setter.what = "namespace" /\ m \in setter.left
          /\ handlers[m].schemaVersion # config.schemaVersion =>
               setter.what = "schemaVersion" /\ m \in setter.left
          /\ handlers[m].top = 0 => handlers[m].maxTop = config.maxTop
      BY DEF ServiceInv, SettingsSpread, BeingTold
    <3>2. setter.what \in {"namespace", "schemaVersion"}
      BY <1>2 DEF SetterType
    <3>3. CASE m = n
      BY <1>5, <1>6, <3>1, <3>2, <3>3
    <3>4. CASE m # n
      BY <1>3, <1>6, <3>1, <3>4
    <3> QED BY <3>3, <3>4
  <2>2. /\ metadata = [namespace |-> config.namespace, schemaVersion |-> config.schemaVersion]
        /\ elsewhere = config.namespace
    BY <1>1 DEF ServiceInv, SettingsSpread
  <2> QED BY <1>1, <1>3, <1>4, <1>6, <2>1, <2>2 DEF SettingsSpread, BeingTold
<1>9. BuildersAreCurrent' /\ CachesAreCurrent'
  BY <1>1, <1>3, <1>6, BuildersKept, CachesKept DEF ServiceInv
<1>10. ListingIsComplete'
  <2>1. \A m \in Registered : handlers'[m].ok = handlers[m].ok
    BY <1>5, <1>6
  <2> QED BY <1>1, <1>6, <2>1, ListingKept DEF ServiceInv
<1> QED BY <1>7, <1>8, <1>9, <1>10 DEF ServiceInv

\* The setter returns when every handler was told.
LEMMA SetterIsDone ==
  ASSUME ServiceInv, SetterReturns
  PROVE  ServiceInv'
<1>1. /\ setter.at = "handlers" /\ setter.left = {} /\ setter' = NoSetter
      /\ UNCHANGED <<config, handlers, operations, notes, metadata, elsewhere, cache, listing, reader, suspect>>
      /\ Registered' = Registered
  BY DEF SetterReturns, Registered
<1>2. setter'.at = "idle"
  BY <1>1, SteppingIsNotIdle
<1>3. ServiceTypeOK'
  BY <1>1 DEF ServiceInv, ServiceTypeOK
<1>4. SettingsSpread'
  BY <1>1, <1>2, UniformSpreads DEF ServiceInv, SettingsSpread, BeingTold
<1>5. BuildersAreCurrent' /\ CachesAreCurrent' /\ ListingIsComplete'
  BY <1>1, BuildersKept, CachesKept, ListingKept DEF ServiceInv
<1> QED BY <1>3, <1>4, <1>5 DEF ServiceInv

-----------------------------------------------------------------------------
(* Requests.                                                               *)

\* A reader's own step keeps the invariant when what it read is current.
LEMMA ReaderMoves ==
  ASSUME ServiceInv, NEW r \in Readers, NEW b \in Builders \cup {Idle}, BuilderIsCurrent(b),
         reader' = [reader EXCEPT ![r] = b],
         UNCHANGED <<config, handlers, operations, notes, metadata, elsewhere, cache, listing,
                     setter, suspect>>
  PROVE  ServiceInv'
<1>1. Registered' = Registered
  BY DEF Registered
<1>2. reader \in [Readers -> Builders \cup {Idle}]
  BY DEF ServiceInv, ServiceTypeOK
<1>3. ServiceTypeOK'
  BY <1>1, <1>2 DEF ServiceInv, ServiceTypeOK
<1>4. SettingsSpread' /\ CachesAreCurrent' /\ ListingIsComplete'
  BY <1>1, SettingsKept, CachesUntouched, ListingKept DEF ServiceInv
<1>5. BuildersAreCurrent'
  <2> SUFFICES ASSUME NEW q \in Readers PROVE BuilderIsCurrent(reader[q])'
    BY DEF BuildersAreCurrent
  <2>1. reader'[q] = b \/ reader'[q] = reader[q]
    BY <1>2
  <2>2. BuilderIsCurrent(reader'[q])
    BY <2>1 DEF ServiceInv, BuildersAreCurrent
  <2> QED BY <1>1, <2>2 DEF BuilderIsCurrent, Within, Current
<1> QED BY <1>3, <1>4, <1>5 DEF ServiceInv

\* A reader that finds no cached document starts to build one.
LEMMA ReaderAsks ==
  ASSUME ServiceInv, NEW r \in Readers, NEW f \in Formats, Ask(r, f)
  PROVE  ServiceInv'
<1> DEFINE b == [at |-> "schema", format |-> f, overtaken |-> FALSE]
<1>1. b \in Asked
  BY DEF Asked
<1>2. b \in Builders \cup {Idle} /\ BuilderIsCurrent(b)
  BY <1>1, SteppingIsNotIdle DEF Builders, BuilderIsCurrent
<1> QED BY <1>2, ReaderMoves DEF Ask

\* The schema version it reads is the one the metadata handler has.
LEMMA ReaderReadsVersion ==
  ASSUME ServiceInv, NEW r \in Readers, ReadSchemaVersion(r)
  PROVE  ServiceInv'
<1> DEFINE b == [at |-> "namespace", format |-> reader[r].format, overtaken |-> FALSE,
                 schemaVersion |-> metadata.schemaVersion]
<1>1. reader[r] \in Asked
  BY BuilderAt DEF ReadSchemaVersion, ServiceInv
<1>2. b \in VersionRead /\ b.schemaVersion = metadata.schemaVersion
  BY <1>1 DEF Asked, VersionRead, ServiceInv, ServiceTypeOK
<1>3. reader' = [reader EXCEPT ![r] = b]
  BY DEF ReadSchemaVersion, ServiceInv, ServiceTypeOK
<1> HIDE DEF b
<1>4. b \in Builders \cup {Idle} /\ BuilderIsCurrent(b)
  BY <1>2, SteppingIsNotIdle DEF Builders, BuilderIsCurrent
<1> QED BY <1>3, <1>4, ReaderMoves DEF ReadSchemaVersion

\* And so is the namespace, unless a setter came between the two reads.
LEMMA ReaderReadsNamespace ==
  ASSUME ServiceInv, NEW r \in Readers, ReadNamespace(r)
  PROVE  ServiceInv'
<1> DEFINE b == [at |-> "types", format |-> reader[r].format, overtaken |-> reader[r].overtaken,
                 schemaVersion |-> reader[r].schemaVersion, namespace |-> metadata.namespace]
<1>1. reader[r] \in VersionRead
  BY BuilderAt DEF ReadNamespace, ServiceInv
<1>2. /\ b \in NamespaceRead /\ b.schemaVersion = reader[r].schemaVersion
      /\ b.namespace = metadata.namespace /\ b.overtaken = reader[r].overtaken
  BY <1>1 DEF VersionRead, NamespaceRead, ServiceInv, ServiceTypeOK
<1>3. reader' = [reader EXCEPT ![r] = b]
  BY DEF ReadNamespace, ServiceInv, ServiceTypeOK
<1> HIDE DEF b
<1>4. ~reader[r].overtaken => reader[r].schemaVersion = metadata.schemaVersion
  BY <1>1 DEF ServiceInv, BuildersAreCurrent, BuilderIsCurrent
<1>5. b \in Builders \cup {Idle} /\ BuilderIsCurrent(b)
  BY <1>2, <1>4, SteppingIsNotIdle DEF Builders, BuilderIsCurrent
<1> QED BY <1>3, <1>5, ReaderMoves DEF ReadNamespace

\* The document tells both and the third read of the namespace, and every name,
\* operation and annotation there is.
LEMMA ReaderBuilds ==
  ASSUME ServiceInv, NEW r \in Readers, BuildTypes(r)
  PROVE  ServiceInv'
<1> DEFINE d == Document(r, metadata.namespace)
           b == [at |-> "store", format |-> reader[r].format, overtaken |-> reader[r].overtaken,
                 document |-> d]
<1>1. reader[r] \in NamespaceRead
  BY BuilderAt DEF BuildTypes, ServiceInv
<1>2. /\ d \in DocumentType /\ Within(d) /\ d.types = metadata.namespace
      /\ d.namespace = reader[r].namespace /\ d.schemaVersion = reader[r].schemaVersion
  <2>1. reader[r].namespace \in NamespaceValues /\ reader[r].schemaVersion \in VersionValues
    BY <1>1 DEF NamespaceRead
  <2> QED BY <2>1 DEF Document, DocumentType, Within, ServiceInv, ServiceTypeOK
<1> HIDE DEF d
<1>3. b \in Built /\ b.document = d /\ b.overtaken = reader[r].overtaken
  BY <1>1, <1>2 DEF NamespaceRead, Built
<1>4. reader' = [reader EXCEPT ![r] = b]
  BY DEF BuildTypes, ServiceInv, ServiceTypeOK, d
<1> HIDE DEF b
<1>5. ~reader[r].overtaken =>
        reader[r].schemaVersion = metadata.schemaVersion /\ reader[r].namespace = metadata.namespace
  BY <1>1 DEF ServiceInv, BuildersAreCurrent, BuilderIsCurrent
<1>6. b \in Builders \cup {Idle} /\ BuilderIsCurrent(b)
  BY <1>2, <1>3, <1>5, SteppingIsNotIdle DEF Builders, BuilderIsCurrent, Current
<1> QED BY <1>4, <1>6, ReaderMoves DEF BuildTypes

\* The cache takes the document unless it has one, and is marked when the builder
\* was overtaken.
LEMMA ReaderStores ==
  ASSUME ServiceInv, NEW r \in Readers, StoreDocument(r)
  PROVE  ServiceInv'
<1> DEFINE f == reader[r].format
           d == reader[r].document
<1>1. reader[r] \in Built
  BY BuilderAt DEF StoreDocument, ServiceInv
<1>2. /\ f \in Formats /\ d \in DocumentType /\ reader[r].overtaken \in BOOLEAN
      /\ Within(d) /\ (reader[r].overtaken \/ Current(d))
  BY <1>1 DEF Built, ServiceInv, BuildersAreCurrent, BuilderIsCurrent
<1>3. /\ IF cache[f] # {} THEN UNCHANGED <<cache, suspect>>
         ELSE /\ cache' = [cache EXCEPT ![f] = {d}]
              /\ suspect' = [suspect EXCEPT ![f] = reader[r].overtaken]
      /\ reader' = [reader EXCEPT ![r] = Idle]
      /\ UNCHANGED <<config, handlers, operations, notes, metadata, elsewhere, listing, setter>>
      /\ Registered' = Registered
  BY DEF StoreDocument, Registered
<1> HIDE DEF f, d
<1>4. /\ reader \in [Readers -> Builders \cup {Idle}] /\ suspect \in [Formats -> BOOLEAN]
      /\ cache \in [Formats -> SUBSET DocumentType]
  BY DEF ServiceInv, ServiceTypeOK
<1>5. ServiceTypeOK'
  <2>1. cache' \in [Formats -> SUBSET DocumentType] /\ suspect' \in [Formats -> BOOLEAN]
    <3>1. CASE cache[f] # {}
      BY <1>3, <1>4, <3>1
    <3>2. CASE cache[f] = {}
      BY <1>2, <1>3, <1>4, <3>2
    <3> QED BY <3>1, <3>2
  <2>2. reader' \in [Readers -> Builders \cup {Idle}]
    BY <1>3, <1>4
  <2> QED BY <1>3, <2>1, <2>2 DEF ServiceInv, ServiceTypeOK
<1>6. SettingsSpread' /\ ListingIsComplete'
  BY <1>3, SettingsKept, ListingKept DEF ServiceInv
<1>7. BuildersAreCurrent'
  <2> SUFFICES ASSUME NEW q \in Readers PROVE BuilderIsCurrent(reader[q])'
    BY DEF BuildersAreCurrent
  <2>1. reader'[q] = Idle \/ reader'[q] = reader[q]
    BY <1>3, <1>4
  <2>2. BuilderIsCurrent(reader'[q])
    BY <2>1, SteppingIsNotIdle DEF ServiceInv, BuildersAreCurrent, BuilderIsCurrent
  <2> QED BY <1>3, <2>2 DEF BuilderIsCurrent, Within, Current
<1>8. CachesAreCurrent'
  <2>1. CASE cache[f] # {}
    BY <1>3, <2>1, CachesUntouched DEF ServiceInv
  <2>2. CASE cache[f] = {}
    <3> SUFFICES ASSUME NEW g \in Formats, NEW e \in cache'[g]
                 PROVE  /\ Within(e)'
                        /\ \/ suspect'[g]
                           \/ setter'.at = "xml" \/ (setter'.at = "json" /\ g = "json")
                           \/ Current(e)'
      BY Zenon DEF CachesAreCurrent
    <3>1. CASE g = f
      <4>1. e = d /\ (suspect'[g] <=> reader[r].overtaken)
        BY <1>2, <1>3, <1>4, <2>2, <3>1
      <4> QED BY <1>2, <1>3, <4>1 DEF Within, Current
    <3>2. CASE g # f
      <4>1. e \in cache[g] /\ suspect'[g] = suspect[g]
        BY <1>2, <1>3, <1>4, <2>2, <3>2
      <4>2. /\ Within(e)
            /\ suspect[g] \/ setter.at = "xml" \/ (setter.at = "json" /\ g = "json") \/ Current(e)
        BY <4>1 DEF ServiceInv, CachesAreCurrent
      <4> QED BY <1>3, <4>1, <4>2 DEF Within, Current
    <3> QED BY <3>1, <3>2
  <2> QED BY <2>1, <2>2
<1> QED BY <1>5, <1>6, <1>7, <1>8 DEF ServiceInv

\* The service document lists every registered name; a collection request only
\* makes its handler's adapter.
LEMMA ServiceIsListed ==
  ASSUME ServiceInv, ServiceDocument
  PROVE  ServiceInv'
<1>1. /\ listing' = {Registered} /\ Registered' = Registered
      /\ UNCHANGED <<config, handlers, operations, notes, metadata, elsewhere, cache, setter, reader, suspect>>
  BY DEF ServiceDocument, Registered
<1>2. ServiceTypeOK'
  BY <1>1 DEF ServiceInv, ServiceTypeOK
<1>3. SettingsSpread' /\ BuildersAreCurrent' /\ CachesAreCurrent'
  BY <1>1, SettingsKept, BuildersKept, CachesUntouched DEF ServiceInv
<1>4. ListingIsComplete'
  BY <1>1 DEF ListingIsComplete
<1> QED BY <1>2, <1>3, <1>4 DEF ServiceInv

\* The adapter is made.
LEMMA CollectionIsServed ==
  ASSUME ServiceInv, NEW n \in Names, ServeCollection(n)
  PROVE  ServiceInv'
<1> DEFINE h == [handlers[n] EXCEPT !.adapter = handlers[n].namespace]
<1>1. /\ n \in Registered /\ handlers' = [handlers EXCEPT ![n] = h]
      /\ UNCHANGED <<config, operations, notes, metadata, elsewhere, cache, listing, setter, reader, suspect>>
  BY DEF ServeCollection
<1>2. handlers \in [Registered -> HandlerType]
  BY DEF ServiceInv, ServiceTypeOK
<1>3. /\ h \in HandlerType /\ h.ok = handlers[n].ok /\ h.top = handlers[n].top
      /\ h.maxTop = handlers[n].maxTop /\ h.namespace = handlers[n].namespace
      /\ h.schemaVersion = handlers[n].schemaVersion
  <2>1. handlers[n] \in HandlerType
    BY <1>1, <1>2
  <2> QED BY <2>1 DEF HandlerType
<1> HIDE DEF h
<1>4. /\ Registered' = Registered /\ handlers' \in [Registered -> HandlerType]
      /\ \A m \in Registered : handlers'[m] = IF m = n THEN h ELSE handlers[m]
  BY <1>1, <1>2, <1>3 DEF Registered
<1>5. \A m \in Registered :
        /\ handlers'[m].ok = handlers[m].ok /\ handlers'[m].top = handlers[m].top
        /\ handlers'[m].maxTop = handlers[m].maxTop
        /\ handlers'[m].namespace = handlers[m].namespace
        /\ handlers'[m].schemaVersion = handlers[m].schemaVersion
  BY <1>3, <1>4
<1>6. ServiceTypeOK'
  BY <1>1, <1>4 DEF ServiceInv, ServiceTypeOK
<1>7. SettingsSpread'
  BY <1>1, <1>4, <1>5 DEF ServiceInv, SettingsSpread, BeingTold
<1>8. BuildersAreCurrent' /\ CachesAreCurrent' /\ ListingIsComplete'
  BY <1>1, <1>4, <1>5, BuildersKept, CachesUntouched, ListingKept DEF ServiceInv
<1> QED BY <1>6, <1>7, <1>8 DEF ServiceInv

\* A stutter.
LEMMA ServiceStutters ==
  ASSUME ServiceInv, UNCHANGED vars
  PROVE  ServiceInv'
<1>1. /\ UNCHANGED <<config, handlers, operations, notes, metadata, elsewhere, cache, listing,
                     setter, reader, suspect>>
      /\ Registered' = Registered
  BY DEF vars, Registered
<1>2. ServiceTypeOK'
  BY <1>1 DEF ServiceInv, ServiceTypeOK
<1> QED BY <1>1, <1>2, SettingsKept, BuildersKept, CachesUntouched, ListingKept DEF ServiceInv

-----------------------------------------------------------------------------
(* The theorems.                                                           *)

\* No step of the application, a setter or a request breaks the invariant.
LEMMA ServiceStep == ServiceInv /\ [Next]_vars => ServiceInv'
<1> SUFFICES ASSUME ServiceInv, [Next]_vars PROVE ServiceInv'
  OBVIOUS
<1>1. CASE Application
  BY <1>1, Registers, RegistersOther, SetsDefaultLimit, SetsEntityLimit, SetterBegins
     DEF Application
<1>2. CASE Setter
  BY <1>2, MetadataIsTold, FormatIsCleared, ElsewhereIsTold, HandlerIsTold, SetterIsDone DEF Setter
<1>3. CASE Request
  BY <1>3, ReaderAsks, ReaderReadsVersion, ReaderReadsNamespace, ReaderBuilds, ReaderStores,
     ServiceIsListed, CollectionIsServed DEF Request
<1>4. CASE UNCHANGED vars
  BY <1>4, ServiceStutters
<1> QED BY <1>1, <1>2, <1>3, <1>4 DEF Next

\* The inductive invariant holds of every reachable state.
THEOREM ServiceInvariant == Spec => []ServiceInv
  BY ServiceStarts, ServiceStep, PTL DEF Spec

\* Whatever the order of registrations, setters, entity limits and requests,
\* between setter calls the metadata handler, the operations, the router and every
\* handler work with the service's settings (SetNamespace and its kind, odata.go).
THEOREM SettingsReachEveryPart == Spec => []ConfigurationIsUniform
<1>1. ServiceInv => ConfigurationIsUniform
  <2> SUFFICES ASSUME ServiceInv, setter = NoSetter
               PROVE  /\ metadata = [namespace |-> config.namespace,
                                     schemaVersion |-> config.schemaVersion]
                      /\ elsewhere = config.namespace
                      /\ \A n \in Registered :
                           /\ handlers[n].namespace = config.namespace
                           /\ handlers[n].schemaVersion = config.schemaVersion
                           /\ handlers[n].top = 0 => handlers[n].maxTop = config.maxTop
    BY DEF ConfigurationIsUniform, Limit
  <2> QED BY SteppingIsNotIdle DEF ServiceInv, SettingsSpread, BeingTold
<1> QED BY <1>1, ServiceInvariant, PTL

\* The cached $metadata and service documents tell the current settings, names and
\* annotations, unless a setter overtook the builder (metadata_handler.go).
THEOREM DocumentsAreCurrent == Spec => []CachedIsCurrent
<1>1. ServiceInv => CachedIsCurrent
  BY DEF ServiceInv, CachesAreCurrent, ListingIsComplete, CachedIsCurrent, Locked, Within, Current
<1> QED BY <1>1, ServiceInvariant, PTL

-----------------------------------------------------------------------------
(* The full-text index.                                                    *)

\* What the statements of a build are, on either database.
LEMMA StatementsOfBuild ==
  ASSUME IndexTypeOK
  PROVE  \E n \in Nat :
           /\ n > 1 /\ DOMAIN createFTSTable = 1..n
           /\ createFTSTable[1] = "table" /\ createFTSTable[n] = "populate"
           /\ \A i \in 1..n : createFTSTable[i] = "populate" => i = n
           /\ \A e \in Events : \E i \in 1..(n - 1) : createFTSTable[i] = e
           /\ \A i \in 1..n : Dropped(createFTSTable[i]) # {} =>
                i < n /\ dialect = "postgres" /\ createFTSTable[i] \notin Events /\ i > 1
                /\ \A j \in 1..i : createFTSTable[j] \notin Events
<1>1. CASE dialect = "sqlite"
  <2> DEFINE b == <<"table", "insert", "delete", "update", "populate">>
  <2>1. createFTSTable = b
    BY <1>1 DEF createFTSTable
  <2>2. /\ DOMAIN b = 1..5 /\ b[1] = "table" /\ b[2] = "insert" /\ b[3] = "delete"
        /\ b[4] = "update" /\ b[5] = "populate"
    OBVIOUS
  <2>3. \A i \in 1..5 : i = 1 \/ i = 2 \/ i = 3 \/ i = 4 \/ i = 5
    OBVIOUS
  <2> HIDE DEF b
  <2>4. \A i \in 1..5 : Dropped(b[i]) = {} /\ (b[i] = "populate" => i = 5)
    BY <2>2, <2>3 DEF Dropped
  <2>5. \A e \in Events : \E i \in 1..4 : b[i] = e
    BY <2>2 DEF Events
  <2> QED BY <2>1, <2>2, <2>4, <2>5
<1>2. CASE dialect = "postgres"
  <2> DEFINE b == <<"table", "drop insert", "drop update", "drop delete",
                    "insert", "update", "delete", "populate">>
  <2>1. createFTSTable = b
    BY <1>2 DEF createFTSTable
  <2>2. /\ DOMAIN b = 1..8 /\ b[1] = "table" /\ b[2] = "drop insert"
        /\ b[3] = "drop update" /\ b[4] = "drop delete" /\ b[5] = "insert"
        /\ b[6] = "update" /\ b[7] = "delete" /\ b[8] = "populate"
    OBVIOUS
  <2>3. \A i \in 1..8 : i = 1 \/ i = 2 \/ i = 3 \/ i = 4 \/ i = 5 \/ i = 6 \/ i = 7 \/ i = 8
    OBVIOUS
  <2> HIDE DEF b
  <2>4. \A i \in 1..8 : /\ Dropped(b[i]) # {} => i \in 2..4
                        /\ b[i] = "populate" => i = 8
                        /\ i <= 4 => b[i] \notin Events
    <3> SUFFICES ASSUME NEW i \in 1..8
                 PROVE  /\ Dropped(b[i]) # {} => i \in 2..4
                        /\ b[i] = "populate" => i = 8
                        /\ i <= 4 => b[i] \notin Events
      OBVIOUS
    <3>1. Dropped(b[i]) # {} => b[i] \in {"drop insert", "drop update", "drop delete"}
      BY DEF Dropped
    <3>2. CASE i \in {1, 2, 3, 4}
      <4>1. b[i] \in {"table", "drop insert", "drop update", "drop delete"}
        BY <2>2, <3>2
      <4>2. i = 1 => b[i] = "table"
        BY <2>2
      <4>3. b[i] # "populate" /\ b[i] \notin Events
        BY <4>1 DEF Events
      <4>4. i # 1 => i \in 2..4
        BY <3>2
      <4>5. i = 1 => Dropped(b[i]) = {}
        BY <3>1, <4>2
      <4> QED BY <4>3, <4>4, <4>5, Zenon
    <3>3. CASE i \in {5, 6, 7}
      <4>1. b[i] \in Events
        BY <2>2, <3>3 DEF Events
      <4>2. b[i] # "populate" /\ Dropped(b[i]) = {}
        BY <3>1, <4>1 DEF Events
      <4>3. ~(i <= 4)
        BY <3>3
      <4> QED BY <4>2, <4>3
    <3>4. CASE i = 8
      <4>1. b[i] = "populate"
        BY <2>2, <3>4
      <4>2. Dropped(b[i]) = {}
        BY <3>1, <4>1
      <4>3. ~(i <= 4)
        BY <3>4
      <4> QED BY <3>4, <4>2, <4>3
    <3> QED BY <2>3, <3>2, <3>3, <3>4
  <2>5. \A e \in Events : \E i \in 1..7 : b[i] = e
    <3> SUFFICES ASSUME NEW e \in Events PROVE \E i \in 1..7 : b[i] = e
      OBVIOUS
    <3>1. b[5] = "insert" /\ b[6] = "update" /\ b[7] = "delete"
      BY <2>2
    <3> QED BY <3>1 DEF Events
  <2>6. \A i \in 1..8 : Dropped(b[i]) # {} =>
          i < 8 /\ b[i] \notin Events /\ i > 1 /\ \A j \in 1..i : b[j] \notin Events
    BY <2>4
  <2>7. /\ 8 \in Nat /\ 8 > 1 /\ 8 - 1 = 7
        /\ \A i \in 1..8 : b[i] = "populate" => i = 8
    BY <2>4
  <2> WITNESS 8 \in Nat
  <2> QED BY <1>2, <2>1, <2>2, <2>5, <2>6, <2>7
<1> QED BY <1>1, <1>2 DEF IndexTypeOK

\* Entries are counted with natural numbers.
LEMMA EntriesAreCounted ==
  ASSUME IndexTypeOK, NEW k \in Keys
  PROVE  /\ Entries(k) \in Nat /\ DOMAIN index[k] = 1..Entries(k)
         /\ \A S : /\ IsFiniteSet({i \in DOMAIN index[k] : index[k][i] \in S})
                   /\ EntriesThat(k, S) \in Nat
                   /\ (\E i \in DOMAIN index[k] : index[k][i] \in S) => EntriesThat(k, S) > 0
<1>1. index[k] \in Seq(Contents) /\ Entries(k) \in Nat /\ DOMAIN index[k] = 1..Entries(k)
  BY LenProperties DEF IndexTypeOK, Entries
<1>2. ASSUME NEW S
      PROVE  /\ IsFiniteSet({i \in DOMAIN index[k] : index[k][i] \in S})
             /\ EntriesThat(k, S) \in Nat
             /\ (\E i \in DOMAIN index[k] : index[k][i] \in S) => EntriesThat(k, S) > 0
  <2> DEFINE T == {i \in DOMAIN index[k] : index[k][i] \in S}
  <2>1. IsFiniteSet(1..Entries(k)) /\ T \subseteq 1..Entries(k)
    BY <1>1, FS_Interval
  <2>2. IsFiniteSet(T) /\ Cardinality(T) \in Nat
    BY <2>1, FS_Subset, FS_CardinalityType
  <2>3. T # {} => Cardinality(T) > 0
    BY <2>2, FS_EmptySet
  <2> QED BY <2>2, <2>3 DEF EntriesThat
<1> QED BY <1>1, <1>2

\* Nothing is indexed before the first build.
LEMMA IndexStarts == IndexInit => IndexInv
<1> SUFFICES ASSUME IndexInit PROVE IndexInv
  OBVIOUS
<1> USE SearchAssumption DEF IndexInit
<1>1. IndexTypeOK
  <2>1. NoAnswer \in [got : [Keys -> Nat], due : SUBSET Keys, clean : BOOLEAN]
    BY DEF NoAnswer
  <2>2. NoEntries \in [Keys -> Seq(Contents)]
    BY DEF NoEntries
  <2> QED BY <2>1, <2>2 DEF IndexTypeOK, Stages
<1>2. NothingWithoutTable /\ BuildsAdvance /\ NothingIsMissing /\ BuildsAlone /\ IndexIsTable
  BY DEF NothingWithoutTable, BuildsAdvance, NothingIsMissing, BuildsAlone, IndexIsTable,
         Building, Ready, Filled
<1>3. IndexFindsWhatMatches
  BY DEF IndexFindsWhatMatches, NoMatchIsLost, FoundExactlyOnce, NoAnswer
<1> QED BY <1>1, <1>2, <1>3 DEF IndexInv

\* An answer stays as it was given.
LEMMA AnswersStay ==
  ASSUME IndexFindsWhatMatches, dialect' = dialect, answer' = answer
  PROVE  IndexFindsWhatMatches'
BY DEF IndexFindsWhatMatches, NoMatchIsLost, FoundExactlyOnce

\* EnsureFTSTable looks the index up or begins a build.
LEMMA BeginKeeps == ASSUME NEW s \in Searches, IndexInv, Begin(s) PROVE IndexInv'
<1> USE DEF IndexInv
<1>0. /\ at[s] = "idle"
      /\ at' = [at EXCEPT ![s] = IF ftsTables THEN "built" ELSE "building"]
      /\ step' = [step EXCEPT ![s] = IF ftsTables THEN 0 ELSE 1]
      /\ clean' = (clean /\ (ftsTables \/ (~table /\ \A t \in Searches \ {s} : ~Building(t))))
      /\ \E n \in BOOLEAN : negated' = [negated EXCEPT ![s] = n]
      /\ UNCHANGED <<dialect, rows, table, index, triggers, ftsTables, answer>>
  BY DEF Begin, database
<1>1. IndexTypeOK'
  BY <1>0 DEF IndexTypeOK, Stages
<1>2. at'[s] = (IF ftsTables THEN "built" ELSE "building") /\ step'[s] = (IF ftsTables THEN 0 ELSE 1)
      /\ \A t \in Searches \ {s} : at'[t] = at[t] /\ step'[t] = step[t]
  BY <1>0 DEF IndexTypeOK
<1>3. Ready' <=> Ready
  <2>1. \A t \in Searches \ {s} : Filled(t)' <=> Filled(t)
    BY <1>2 DEF Filled
  <2>2. ~Filled(s) /\ (Filled(s)' => ftsTables)
    BY <1>0, <1>2 DEF Filled
  <2> QED BY <1>0, <2>1, <2>2 DEF Ready
<1>4. NothingWithoutTable' /\ NothingIsMissing' /\ IndexIsTable'
  BY <1>0, <1>3 DEF NothingWithoutTable, NothingIsMissing, IndexIsTable, Present, NoEntries
<1>5. createFTSTable' = createFTSTable
  BY <1>0 DEF createFTSTable
<1>6. BuildsAdvance'
  <2> SUFFICES ASSUME NEW t \in Searches, Building(t)'
               PROVE  /\ step'[t] \in DOMAIN createFTSTable
                      /\ step'[t] > 1 => table
                      /\ dialect = "sqlite" \/ clean' =>
                           \A i \in 1..(step'[t] - 1) :
                             createFTSTable[i] \in Events => createFTSTable[i] \in triggers
    BY <1>0, <1>5 DEF BuildsAdvance
  <2>1. CASE t = s
    <3>1. step'[t] = 1
      BY <1>2, <2>1 DEF Building
    <3> QED BY <1>1, <1>5, <3>1, StatementsOfBuild
  <2>2. CASE t # s
    BY <1>0, <1>2, <2>2 DEF BuildsAdvance, Building
  <2> QED BY <2>1, <2>2
<1>7. BuildsAlone'
  <2> SUFFICES ASSUME clean', NEW t \in Searches, Building(t)'
               PROVE  /\ ~Ready' /\ index = NoEntries
                      /\ \A u \in Searches \ {t} : ~Building(u)'
    BY <1>0 DEF BuildsAlone, NoEntries
  <2>1. CASE ftsTables
    <3>1. t # s /\ Building(t)
      BY <1>2, <2>1 DEF Building
    <3> QED BY <1>0, <2>1, <3>1 DEF BuildsAlone, Ready
  <2>2. CASE ~ftsTables
    <3>1. ~table /\ \A u \in Searches \ {s} : ~Building(u)
      BY <1>0, <2>2
    <3>2. t = s /\ \A u \in Searches \ {s} : ~Building(u)'
      BY <1>2, <3>1 DEF Building
    <3>3. index = NoEntries /\ triggers = {}
      BY <3>1 DEF NothingWithoutTable
    <3>4. ~Ready
      BY <1>0, <3>3 DEF IndexIsTable, Events
    <3> QED BY <1>3, <3>2, <3>3, <3>4
  <2> QED BY <2>1, <2>2
<1> QED BY <1>0, <1>1, <1>4, <1>6, <1>7, AnswersStay

\* The build s and what it is about to run.
LEMMA BuildIsUnderWay ==
  ASSUME NEW s \in Searches, IndexInv, Building(s)
  PROVE  \E n \in Nat :
           /\ n > 1 /\ DOMAIN createFTSTable = 1..n /\ step[s] \in 1..n
           /\ AtHand(s) = "populate" <=> step[s] = n
           /\ step[s] = 1 => AtHand(s) = "table"
           /\ Dropped(AtHand(s)) # {} =>
                /\ dialect = "postgres" /\ AtHand(s) \notin Events
                /\ \A j \in 1..step[s] : createFTSTable[j] \notin Events
           /\ step[s] = n /\ (dialect = "sqlite" \/ clean) => triggers = Events
<1>1. IndexTypeOK /\ BuildsAdvance
  BY DEF IndexInv
<1>2. PICK n \in Nat :
           /\ n > 1 /\ DOMAIN createFTSTable = 1..n
           /\ createFTSTable[1] = "table" /\ createFTSTable[n] = "populate"
           /\ \A i \in 1..n : createFTSTable[i] = "populate" => i = n
           /\ \A e \in Events : \E i \in 1..(n - 1) : createFTSTable[i] = e
           /\ \A i \in 1..n : Dropped(createFTSTable[i]) # {} =>
                i < n /\ dialect = "postgres" /\ createFTSTable[i] \notin Events /\ i > 1
                /\ \A j \in 1..i : createFTSTable[j] \notin Events
  BY <1>1, StatementsOfBuild
<1>3. step[s] \in 1..n
  BY <1>1, <1>2 DEF BuildsAdvance
<1>4. step[s] = n /\ (dialect = "sqlite" \/ clean) => triggers = Events
  <2> SUFFICES ASSUME step[s] = n, dialect = "sqlite" \/ clean PROVE Events \subseteq triggers
    BY <1>1 DEF IndexTypeOK
  <2>1. \A i \in 1..(n - 1) : createFTSTable[i] \in Events => createFTSTable[i] \in triggers
    BY <1>1 DEF BuildsAdvance
  <2> QED BY <1>2, <2>1
<1> QED BY <1>2, <1>3, <1>4 DEF AtHand

\* The last statement of a build copies the rows.
LEMMA PopulateKeeps ==
  ASSUME NEW s \in Searches, IndexInv, Statement(s), AtHand(s) = "populate"
  PROVE  IndexInv'
<1> USE DEF IndexInv
<1>0. /\ Building(s) /\ table /\ table' = table /\ triggers' = triggers
      /\ index' = [k \in Keys |-> IF rows[k] = Absent THEN index[k] ELSE Append(index[k], rows[k])]
      /\ at' = [at EXCEPT ![s] = "populated"] /\ step' = [step EXCEPT ![s] = 0]
      /\ UNCHANGED <<dialect, rows, ftsTables, negated, answer, clean>>
  <2>1. IndexTypeOK
    OBVIOUS
  <2>2. createFTSTriggers("populate") = triggers
    BY DEF createFTSTriggers, Dropped, Events
  <2> QED BY <2>1, <2>2 DEF Statement, Refused, populateFTSTable, IndexTypeOK
<1>1. IndexTypeOK'
  <2>1. \A k \in Keys : rows[k] # Absent => Append(index[k], rows[k]) \in Seq(Contents)
    BY AppendProperties DEF IndexTypeOK
  <2>2. index' \in [Keys -> Seq(Contents)]
    BY <1>0, <2>1 DEF IndexTypeOK
  <2> QED BY <1>0, <2>2 DEF IndexTypeOK, Stages
<1>2. /\ at'[s] = "populated" /\ at[s] = "building"
      /\ \A t \in Searches \ {s} : at'[t] = at[t] /\ step'[t] = step[t]
  BY <1>0 DEF IndexTypeOK, Building
<1>3. createFTSTable' = createFTSTable
  BY <1>0 DEF createFTSTable
<1>4. (dialect = "sqlite" \/ clean) => triggers = Events
  BY <1>0, BuildIsUnderWay
<1>5. NothingWithoutTable'
  BY <1>0 DEF NothingWithoutTable
<1>6. BuildsAdvance'
  BY <1>0, <1>2, <1>3 DEF BuildsAdvance, Building
<1>7. NothingIsMissing'
  <2> SUFFICES ASSUME dialect = "sqlite", NEW k \in Keys, rows[k] # Absent
               PROVE  \E i \in DOMAIN index'[k] : index'[k][i] = rows[k]
    BY <1>0, <1>4 DEF NothingIsMissing, Present
  <2>1. index'[k] = Append(index[k], rows[k]) /\ index[k] \in Seq(Contents) /\ rows[k] \in Contents
    BY <1>0 DEF IndexTypeOK
  <2>2. Len(index[k]) + 1 \in DOMAIN index'[k] /\ index'[k][Len(index[k]) + 1] = rows[k]
    BY <2>1, AppendProperties
  <2> QED BY <2>2
<1>8. BuildsAlone'
  BY <1>0, <1>2 DEF BuildsAlone, Building
<1>9. IndexIsTable'
  <2> SUFFICES ASSUME clean, NEW k \in Keys
               PROVE  index'[k] = IF rows[k] = Absent THEN <<>> ELSE <<rows[k]>>
    BY <1>0, <1>4 DEF IndexIsTable
  <2>1. index[k] = <<>>
    BY <1>0 DEF BuildsAlone, NoEntries
  <2>2. \A c : Append(<<>>, c) = <<c>>
    OBVIOUS
  <2> QED BY <1>0, <2>1, <2>2
<1> QED BY <1>0, <1>1, <1>5, <1>6, <1>7, <1>8, <1>9, AnswersStay

\* The others make the table and the triggers.
LEMMA StatementKeeps ==
  ASSUME NEW s \in Searches, IndexInv, Statement(s), AtHand(s) # "populate"
  PROVE  IndexInv'
<1> USE DEF IndexInv
<1> DEFINE stmt == AtHand(s)
<1>0. /\ Building(s) /\ table' = (table \/ stmt = "table")
      /\ triggers' = (triggers \ Dropped(stmt)) \cup ({stmt} \cap Events)
      /\ at' = at /\ step' = [step EXCEPT ![s] = @ + 1]
      /\ UNCHANGED <<dialect, rows, index, ftsTables, negated, answer, clean>>
  BY DEF Statement, populateFTSTable, createFTSTriggers, IndexTypeOK
<1>1. PICK n \in Nat :
           /\ n > 1 /\ DOMAIN createFTSTable = 1..n /\ step[s] \in 1..n
           /\ stmt = "populate" <=> step[s] = n
           /\ step[s] = 1 => stmt = "table"
           /\ Dropped(stmt) # {} =>
                /\ dialect = "postgres" /\ stmt \notin Events
                /\ \A j \in 1..step[s] : createFTSTable[j] \notin Events
  BY <1>0, BuildIsUnderWay
<1>2. IndexTypeOK'
  BY <1>0, <1>1 DEF IndexTypeOK
<1>3. step'[s] = step[s] + 1 /\ \A t \in Searches \ {s} : step'[t] = step[t]
  BY <1>0 DEF IndexTypeOK
<1>4. createFTSTable' = createFTSTable /\ (Ready' <=> Ready)
  BY <1>0 DEF createFTSTable, Ready, Filled
<1>5. table'
  <2>1. step[s] = 1 \/ step[s] > 1
    BY <1>1
  <2>2. step[s] > 1 => table
    BY <1>0 DEF BuildsAdvance
  <2> QED BY <1>0, <1>1, <2>1, <2>2
<1>6. NothingWithoutTable'
  BY <1>5 DEF NothingWithoutTable
<1>7. dialect = "sqlite" => triggers \subseteq triggers'
  BY <1>0, <1>1, SearchAssumption
<1>8. BuildsAdvance'
  <2> SUFFICES ASSUME NEW t \in Searches, Building(t)
               PROVE  /\ step'[t] \in 1..n
                      /\ dialect = "sqlite" \/ clean =>
                           \A i \in 1..(step'[t] - 1) :
                             createFTSTable[i] \in Events => createFTSTable[i] \in triggers'
    BY <1>0, <1>1, <1>4, <1>5 DEF BuildsAdvance, Building
  <2>1. CASE t = s
    <3>1. step'[t] \in 1..n /\ step'[t] - 1 = step[s]
      BY <1>1, <1>3, <2>1
    <3> SUFFICES ASSUME dialect = "sqlite" \/ clean, NEW i \in 1..step[s],
                        createFTSTable[i] \in Events
                 PROVE  createFTSTable[i] \in triggers'
      BY <3>1
    <3>2. Dropped(stmt) = {}
      BY <1>1
    <3>3. i # step[s] => createFTSTable[i] \in triggers
      <4>1. step[s] \in Nat /\ (i # step[s] => i \in 1..(step[s] - 1))
        BY <1>1
      <4> QED BY <1>0, <4>1 DEF BuildsAdvance
    <3> QED BY <1>0, <3>2, <3>3 DEF AtHand
  <2>2. CASE t # s
    <3>1. step'[t] = step[t]
      BY <1>3, <2>2
    <3>2. ~clean
      BY <1>0, <2>2 DEF BuildsAlone
    <3> QED BY <1>1, <1>7, <3>1, <3>2 DEF BuildsAdvance
  <2> QED BY <2>1, <2>2
<1>9. NothingIsMissing'
  BY <1>0, <1>2, <1>4, <1>7 DEF NothingIsMissing, Present, IndexTypeOK
<1>10. BuildsAlone'
  BY <1>0, <1>4 DEF BuildsAlone, Building, NoEntries
<1>11. IndexIsTable'
  BY <1>0, <1>4 DEF BuildsAlone, IndexIsTable
<1> QED BY <1>0, <1>2, <1>6, <1>8, <1>9, <1>10, <1>11, AnswersStay

\* A statement that fails changes no table.
LEMMA FailureKeeps ==
  ASSUME NEW s \in Searches, IndexInv, StatementFails(s) PROVE IndexInv'
<1> USE DEF IndexInv
<1> DEFINE ignored == Dropped(AtHand(s)) # {}
<1>0. /\ Building(s)
      /\ at' = [at EXCEPT ![s] = IF ignored THEN @ ELSE "memory"]
      /\ step' = [step EXCEPT ![s] = IF ignored THEN @ + 1 ELSE 0]
      /\ UNCHANGED <<dialect, rows, table, index, triggers, ftsTables, negated, answer, clean>>
  BY DEF StatementFails, database
<1>1. PICK n \in Nat :
           /\ n > 1 /\ DOMAIN createFTSTable = 1..n /\ step[s] \in 1..n
           /\ AtHand(s) = "populate" <=> step[s] = n
           /\ step[s] = 1 => AtHand(s) = "table"
           /\ Dropped(AtHand(s)) # {} =>
                /\ dialect = "postgres" /\ AtHand(s) \notin Events
                /\ \A j \in 1..step[s] : createFTSTable[j] \notin Events
  BY <1>0, BuildIsUnderWay
<1>2. IndexTypeOK'
  BY <1>0, <1>1 DEF IndexTypeOK, Stages
<1>3. /\ at'[s] = (IF ignored THEN "building" ELSE "memory") /\ at[s] = "building"
      /\ step'[s] = IF ignored THEN step[s] + 1 ELSE 0
      /\ \A t \in Searches \ {s} : at'[t] = at[t] /\ step'[t] = step[t]
  BY <1>0 DEF IndexTypeOK, Building
<1>4. createFTSTable' = createFTSTable
  BY <1>0 DEF createFTSTable
<1>5. \A t \in Searches : (Filled(t)' <=> Filled(t)) /\ (Building(t)' => Building(t))
  BY <1>3 DEF Filled, Building
<1>6. Ready' <=> Ready
  BY <1>0, <1>5 DEF Ready
<1>7. NothingWithoutTable' /\ NothingIsMissing' /\ IndexIsTable'
  BY <1>0, <1>6 DEF NothingWithoutTable, NothingIsMissing, IndexIsTable, Present, NoEntries
<1>8. BuildsAlone'
  BY <1>0, <1>5, <1>6 DEF BuildsAlone, NoEntries
<1>9. BuildsAdvance'
  <2> SUFFICES ASSUME NEW t \in Searches, Building(t)'
               PROVE  /\ step'[t] \in 1..n
                      /\ step'[t] > 1 => table
                      /\ dialect = "sqlite" \/ clean =>
                           \A i \in 1..(step'[t] - 1) :
                             createFTSTable[i] \in Events => createFTSTable[i] \in triggers
    BY <1>0, <1>1, <1>4 DEF BuildsAdvance
  <2>1. CASE t = s
    <3>1. ignored /\ step'[s] = step[s] + 1
      BY <1>3, <2>1 DEF Building
    <3>2. AtHand(s) # "table" /\ AtHand(s) # "populate"
      BY <3>1 DEF Dropped
    <3>3. step[s] > 1 /\ step[s] < n /\ step[s] + 1 \in 1..n /\ step[s] + 1 - 1 = step[s]
      BY <1>1, <3>2
    <3>4. table
      BY <1>0, <3>3 DEF BuildsAdvance
    <3> QED BY <1>1, <2>1, <3>1, <3>3, <3>4
  <2>2. CASE t # s
    BY <1>1, <1>3, <1>5, <2>2 DEF BuildsAdvance
  <2> QED BY <2>1, <2>2
<1> QED BY <1>0, <1>2, <1>7, <1>8, <1>9, AnswersStay

\* The manager notes an index that has been filled.
LEMMA MarkKeeps == ASSUME NEW s \in Searches, IndexInv, Mark(s) PROVE IndexInv'
<1> USE DEF IndexInv
<1>0. /\ at[s] = "populated" /\ ftsTables' = TRUE /\ at' = [at EXCEPT ![s] = "built"]
      /\ UNCHANGED <<dialect, rows, table, index, triggers, step, negated, answer, clean>>
  BY DEF Mark, database
<1>1. IndexTypeOK'
  BY <1>0 DEF IndexTypeOK, Stages
<1>2. at'[s] = "built" /\ \A t \in Searches \ {s} : at'[t] = at[t]
  BY <1>0 DEF IndexTypeOK
<1>3. Ready /\ Ready' /\ createFTSTable' = createFTSTable
  BY <1>0 DEF Ready, Filled, createFTSTable
<1>4. NothingWithoutTable' /\ NothingIsMissing' /\ IndexIsTable'
  BY <1>0, <1>3 DEF NothingWithoutTable, NothingIsMissing, IndexIsTable, Present, NoEntries
<1>5. \A t \in Searches : Building(t)' => Building(t)
  BY <1>2 DEF Building
<1>6. BuildsAdvance' /\ BuildsAlone'
  BY <1>0, <1>3, <1>5 DEF BuildsAdvance, BuildsAlone
<1> QED BY <1>0, <1>1, <1>4, <1>6, AnswersStay

\* What the index finds, where the index is the table or misses no row.
LEMMA IndexFinds ==
  ASSUME NEW s \in Searches, IndexInv, Ready
  PROVE  /\ ByIndex(s) \in [Keys -> Nat]
         /\ dialect = "sqlite" => \A k \in Present : Suits(s, rows[k]) => ByIndex(s)[k] > 0
         /\ clean => ByIndex(s) = InMemory(s)
<1> USE DEF IndexInv
<1> DEFINE S == {c \in Contents : Suits(s, c)}
<1>1. \A k \in Keys : /\ Entries(k) \in Nat /\ EntriesThat(k, S) \in Nat
                      /\ DOMAIN index[k] = 1..Entries(k)
                      /\ (\E i \in DOMAIN index[k] : index[k][i] \in S) => EntriesThat(k, S) > 0
  BY EntriesAreCounted
<1>2. \A k \in Present : rows[k] \in Contents
  BY DEF Present, IndexTypeOK
<1>3. ByIndex(s) \in [Keys -> Nat]
  BY <1>1 DEF ByIndex
<1>4. ASSUME dialect = "sqlite", NEW k \in Present, Suits(s, rows[k])
      PROVE  ByIndex(s)[k] > 0
  <2>1. PICK i \in DOMAIN index[k] : index[k][i] = rows[k]
    BY <1>4 DEF NothingIsMissing
  <2>2. Entries(k) > 0
    <3>1. k \in Keys /\ Entries(k) \in Nat /\ i \in 1..Entries(k)
      BY <1>1, <2>1 DEF Present
    <3> QED BY <3>1
  <2>3. EntriesThat(k, S) > 0
    BY <1>1, <1>2, <1>4, <2>1 DEF Present
  <2> QED BY <1>4, <2>2, <2>3 DEF ByIndex, Present
<1>5. ASSUME clean PROVE ByIndex(s) = InMemory(s)
  <2> SUFFICES ASSUME NEW k \in Keys, rows[k] # Absent
               PROVE  /\ Entries(k) = 1
                      /\ EntriesThat(k, S) = IF Suits(s, rows[k]) THEN 1 ELSE 0
    BY DEF ByIndex, InMemory
  <2>1. index[k] = <<rows[k]>>
    BY <1>5 DEF IndexIsTable
  <2>2. Entries(k) = 1 /\ DOMAIN index[k] = {1} /\ index[k][1] = rows[k]
    BY <2>1 DEF Entries
  <2>3. {i \in DOMAIN index[k] : index[k][i] \in S} = IF Suits(s, rows[k]) THEN {1} ELSE {}
    BY <1>2, <2>2 DEF Present
  <2>4. Cardinality({1}) = 1 /\ Cardinality({}) = 0
    BY FS_Singleton, FS_EmptySet
  <2> QED BY <2>2, <2>3, <2>4 DEF EntriesThat
<1> QED BY <1>3, <1>4, <1>5

\* A search that went on in memory reads the rows themselves.
LEMMA AnswerKeeps == ASSUME NEW s \in Searches, IndexInv, Answer(s) PROVE IndexInv'
<1> USE DEF IndexInv
<1> DEFINE got == IF at[s] = "built" THEN ByIndex(s) ELSE InMemory(s)
           due == {k \in Present : Suits(s, rows[k])}
<1>0. /\ at[s] \in {"built", "memory"} /\ at' = [at EXCEPT ![s] = "idle"]
      /\ answer' = [answer EXCEPT ![s] = [got |-> got, due |-> due, clean |-> clean]]
      /\ UNCHANGED <<dialect, rows, table, index, triggers, ftsTables, step, negated, clean>>
  BY DEF Answer, database
<1>1. at[s] = "built" => Ready
  BY DEF Ready, Filled
<1>2. InMemory(s) \in [Keys -> Nat] /\ InMemory(s) = [k \in Keys |-> IF k \in due THEN 1 ELSE 0]
  BY DEF InMemory, Present
<1>3. /\ got \in [Keys -> Nat]
      /\ dialect = "sqlite" => \A k \in due : got[k] > 0
      /\ clean => got = [k \in Keys |-> IF k \in due THEN 1 ELSE 0]
  <2>1. CASE at[s] = "built"
    BY <1>1, <1>2, <2>1, IndexFinds
  <2>2. CASE at[s] = "memory"
    BY <1>2, <2>2 DEF Present
  <2> QED BY <1>0, <2>1, <2>2
<1>4. due \subseteq Keys
  BY DEF Present
<1> HIDE DEF got, due
<1>5. IndexTypeOK'
  BY <1>0, <1>3, <1>4 DEF IndexTypeOK, Stages
<1>6. /\ answer'[s] = [got |-> got, due |-> due, clean |-> clean]
      /\ \A t \in Searches \ {s} : answer'[t] = answer[t] /\ at'[t] = at[t]
      /\ at'[s] = "idle"
  BY <1>0 DEF IndexTypeOK
<1>7. createFTSTable' = createFTSTable /\ (Ready' => Ready)
      /\ \A t \in Searches : Building(t)' => Building(t)
  BY <1>0, <1>6 DEF createFTSTable, Ready, Filled, Building
<1>8. NothingWithoutTable' /\ NothingIsMissing' /\ IndexIsTable'
  BY <1>0, <1>7 DEF NothingWithoutTable, NothingIsMissing, IndexIsTable, Present, NoEntries
<1>9. BuildsAdvance' /\ BuildsAlone'
  BY <1>0, <1>7 DEF BuildsAdvance, BuildsAlone, NoEntries
<1>10. NoMatchIsLost' /\ FoundExactlyOnce'
  BY <1>0, <1>3, <1>6 DEF IndexFindsWhatMatches, NoMatchIsLost, FoundExactlyOnce
<1> QED BY <1>5, <1>8, <1>9, <1>10 DEF IndexFindsWhatMatches

\* A write fires the triggers there are.
LEMMA WriteKeeps ==
  ASSUME NEW k \in Keys, NEW c \in Contents \cup {Absent}, IndexInv, Write(k, c)
  PROVE  IndexInv'
<1> USE SearchAssumption DEF IndexInv
<1>0. /\ rows[k] # c /\ rows' = [rows EXCEPT ![k] = c]
      /\ index' = [index EXCEPT ![k] = Triggered(k, c)]
      /\ clean' = (clean /\ \A s \in Searches : ~Exposed(s))
      /\ UNCHANGED <<dialect, table, triggers, ftsTables, at, step, negated, answer>>
  BY DEF Write
<1>1. /\ rows'[k] = c /\ index'[k] = Triggered(k, c)
      /\ \A j \in Keys \ {k} : rows'[j] = rows[j] /\ index'[j] = index[j]
      /\ index[k] \in Seq(Contents)
  BY <1>0 DEF IndexTypeOK
<1>2. triggers = {} => index' = index
  BY <1>0 DEF Triggered, IndexTypeOK
<1>3. /\ rows[k] = Absent => c \in Contents
      /\ rows[k] = Absent /\ "insert" \in triggers => Triggered(k, c) = Append(index[k], c)
      /\ rows[k] # Absent /\ c = Absent /\ "delete" \in triggers => Triggered(k, c) = <<>>
      /\ rows[k] # Absent /\ c # Absent /\ "update" \in triggers =>
           c \in Contents /\ Triggered(k, c) = [i \in DOMAIN index[k] |-> c]
      /\ Triggered(k, c) \in {index[k], Append(index[k], c), <<>>, [i \in DOMAIN index[k] |-> c]}
  BY <1>0 DEF Triggered
<1>4. IndexTypeOK'
  <2>1. Triggered(k, c) \in Seq(Contents)
    <3>1. c \in Contents => Append(index[k], c) \in Seq(Contents)
      BY <1>1, AppendProperties
    <3>2. c \in Contents => [i \in DOMAIN index[k] |-> c] \in Seq(Contents)
      <4>1. Len(index[k]) \in Nat /\ DOMAIN index[k] = 1..Len(index[k])
        BY <1>1, LenProperties
      <4> QED BY <4>1
    <3>3. c \notin Contents => Triggered(k, c) \in {index[k], <<>>}
      BY <1>3 DEF Triggered
    <3>4. <<>> \in Seq(Contents)
      OBVIOUS
    <3> QED BY <1>1, <1>3, <3>1, <3>2, <3>3, <3>4
  <2>2. index' \in [Keys -> Seq(Contents)] /\ rows' \in [Keys -> Contents \cup {Absent}]
    BY <1>0, <2>1 DEF IndexTypeOK
  <2> QED BY <1>0, <2>2 DEF IndexTypeOK
<1>5. createFTSTable' = createFTSTable /\ (Ready' <=> Ready) /\ \A s \in Searches : Building(s)' <=> Building(s)
  BY <1>0 DEF createFTSTable, Ready, Filled, Building
<1>6. NothingWithoutTable'
  BY <1>0, <1>2 DEF NothingWithoutTable, NoEntries
<1>7. BuildsAdvance'
  BY <1>0, <1>5 DEF BuildsAdvance
<1>8. NothingIsMissing'
  <2> SUFFICES ASSUME dialect = "sqlite", Ready, NEW j \in Keys, rows'[j] # Absent
               PROVE  \E i \in DOMAIN index'[j] : index'[j][i] = rows'[j]
    BY <1>0, <1>5 DEF NothingIsMissing, Present
  <2>1. triggers = Events /\ (rows[j] # Absent => \E i \in DOMAIN index[j] : index[j][i] = rows[j])
    BY DEF NothingIsMissing, Present
  <2>2. CASE j # k
    BY <1>1, <2>1, <2>2
  <2>3. CASE j = k /\ rows[k] = Absent
    <3>1. index'[k] = Append(index[k], c) /\ c \in Contents
      BY <1>1, <1>3, <2>1, <2>3 DEF Events
    <3>2. Len(index[k]) + 1 \in DOMAIN index'[k] /\ index'[k][Len(index[k]) + 1] = c
      BY <1>1, <3>1, AppendProperties
    <3> QED BY <1>1, <2>3, <3>2
  <2>4. CASE j = k /\ rows[k] # Absent
    BY <1>1, <1>3, <2>1, <2>4 DEF Events
  <2> QED BY <2>2, <2>3, <2>4
<1>9. BuildsAlone'
  <2> SUFFICES ASSUME clean', NEW s \in Searches, Building(s)
               PROVE  index' = NoEntries /\ ~Ready /\ \A t \in Searches \ {s} : ~Building(t)
    BY <1>5 DEF BuildsAlone, NoEntries
  <2>1. clean /\ triggers = {}
    BY <1>0 DEF Exposed, IndexTypeOK
  <2> QED BY <1>2, <2>1 DEF BuildsAlone
<1>10. IndexIsTable'
  <2> SUFFICES ASSUME clean, Ready, NEW j \in Keys
               PROVE  index'[j] = IF rows'[j] = Absent THEN <<>> ELSE <<rows'[j]>>
    BY <1>0, <1>5 DEF IndexIsTable
  <2>1. triggers = Events /\ index[j] = IF rows[j] = Absent THEN <<>> ELSE <<rows[j]>>
    BY DEF IndexIsTable
  <2>2. CASE j # k
    BY <1>1, <2>1, <2>2
  <2>3. CASE j = k /\ rows[k] = Absent
    <3>1. index'[k] = Append(<<>>, c)
      BY <1>1, <1>3, <2>1, <2>3 DEF Events
    <3>2. Append(<<>>, c) = <<c>>
      OBVIOUS
    <3> QED BY <1>0, <1>1, <2>3, <3>1, <3>2
  <2>4. CASE j = k /\ rows[k] # Absent /\ c = Absent
    BY <1>1, <1>3, <2>1, <2>4 DEF Events
  <2>5. CASE j = k /\ rows[k] # Absent /\ c # Absent
    <3>1. index'[k] = [i \in DOMAIN index[k] |-> c] /\ index[k] = <<rows[k]>>
      BY <1>1, <1>3, <2>1, <2>5 DEF Events
    <3>2. DOMAIN <<rows[k]>> = 1..1 /\ <<c>> = [i \in 1..1 |-> c]
      OBVIOUS
    <3> QED BY <1>1, <2>5, <3>1, <3>2
  <2> QED BY <2>2, <2>3, <2>4, <2>5
<1> QED BY <1>0, <1>4, <1>6, <1>7, <1>8, <1>9, <1>10, AnswersStay

\* Where no search is under way and nothing is noted, little is claimed.
LEMMA ReseedKeeps == ASSUME IndexInv, Reseed PROVE IndexInv'
<1> USE SearchAssumption DEF IndexInv, Reseed
<1>1. index' \in [Keys -> Seq(Contents)] /\ (~table' => index' = NoEntries)
  <2>1. NoEntries \in [Keys -> Seq(Contents)]
    BY DEF NoEntries
  <2> QED BY <2>1 DEF IndexTypeOK, NothingWithoutTable
<1>2. IndexTypeOK'
  BY <1>1 DEF IndexTypeOK
<1>3. ~Ready' /\ \A s \in Searches : ~Building(s)'
  BY DEF Ready, Filled, Building
<1>4. NothingWithoutTable' /\ NothingIsMissing' /\ IndexIsTable' /\ BuildsAdvance' /\ BuildsAlone'
  BY <1>1, <1>3 DEF NothingWithoutTable, NothingIsMissing, IndexIsTable, BuildsAdvance, BuildsAlone, NoEntries
<1> QED BY <1>2, <1>4, AnswersStay

\* A restart leaves the database and forgets the rest.
LEMMA RestartKeeps == ASSUME IndexInv, Restart PROVE IndexInv'
<1> USE DEF IndexInv, Restart, database
<1>1. NoAnswer \in [got : [Keys -> Nat], due : SUBSET Keys, clean : BOOLEAN]
  BY DEF NoAnswer
<1>2. IndexTypeOK'
  BY <1>1 DEF IndexTypeOK, Stages
<1>3. ~Ready' /\ \A s \in Searches : ~Building(s)'
  BY DEF Ready, Filled, Building
<1>4. NothingWithoutTable' /\ NothingIsMissing' /\ IndexIsTable' /\ BuildsAdvance' /\ BuildsAlone'
  BY <1>3 DEF NothingWithoutTable, NothingIsMissing, IndexIsTable, BuildsAdvance, BuildsAlone, NoEntries
<1>5. IndexFindsWhatMatches'
  BY DEF IndexFindsWhatMatches, NoMatchIsLost, FoundExactlyOnce, NoAnswer
<1> QED BY <1>2, <1>4, <1>5

\* A step that changes nothing.
LEMMA IndexStutters == ASSUME IndexInv, UNCHANGED indexVars PROVE IndexInv'
<1> USE DEF IndexInv, indexVars
<1>1. IndexTypeOK'
  BY DEF IndexTypeOK
<1>2. createFTSTable' = createFTSTable /\ (Ready' <=> Ready) /\ \A s \in Searches : Building(s)' <=> Building(s)
  BY DEF createFTSTable, Ready, Filled, Building
<1>3. NothingWithoutTable' /\ NothingIsMissing' /\ IndexIsTable'
  BY <1>2 DEF NothingWithoutTable, NothingIsMissing, IndexIsTable, Present, NoEntries
<1>4. BuildsAdvance' /\ BuildsAlone'
  BY <1>2 DEF BuildsAdvance, BuildsAlone, NoEntries
<1> QED BY <1>1, <1>3, <1>4, AnswersStay

\* Whatever statement of a build fails, whoever else builds or writes and however
\* often the process restarts: a build has what its statements made, one that met
\* nobody is alone, and then the index is the table (fts.go:159-410).
THEOREM IndexInvariant == IndexSpec => []IndexInv
<1>1. IndexInit => IndexInv
  BY IndexStarts
<1>2. IndexInv /\ [IndexNext]_indexVars => IndexInv'
  <2> SUFFICES ASSUME IndexInv, [IndexNext]_indexVars PROVE IndexInv'
    OBVIOUS
  <2>1. CASE \E s \in Searches : Begin(s) \/ Statement(s) \/ StatementFails(s) \/ Mark(s) \/ Answer(s)
    BY <2>1, BeginKeeps, PopulateKeeps, StatementKeeps, FailureKeeps, MarkKeeps, AnswerKeeps
  <2>2. CASE \E k \in Keys, c \in Contents \cup {Absent} : Write(k, c)
    BY <2>2, WriteKeeps
  <2>3. CASE Reseed
    BY <2>3, ReseedKeeps
  <2>4. CASE Restart
    BY <2>4, RestartKeeps
  <2>5. CASE UNCHANGED indexVars
    BY <2>5, IndexStutters
  <2> QED BY <2>1, <2>2, <2>3, <2>4, <2>5 DEF IndexNext
<1> QED BY <1>1, <1>2, PTL DEF IndexSpec

\* A search misses no row on SQLite, and finds each row that matches once and no
\* other while no build met another build, an index or a write (fts.go:352-410).
THEOREM SearchFindsEachRowOnce == IndexSpec => []IndexFindsWhatMatches
<1>1. IndexInv => IndexFindsWhatMatches
  BY DEF IndexInv
<1> QED BY <1>1, IndexInvariant, PTL

-----------------------------------------------------------------------------
(* The metadata documents.                                                 *)

\* Both documents say of every property the same about null: the JSON member
\* that is left out means no, and so does what it is left out for.
LEMMA NullIsNull == ASSUME NEW p PROVE JSONNullable(p) = propertyNullable(p).value
<1>1. CASE p.nullable # "unset"
  BY <1>1 DEF JSONNullable, propertyNullable
<1>2. CASE p.nullable = "unset" /\ ~p.required
  BY <1>2 DEF JSONNullable, propertyNullable
<1>3. CASE p.nullable = "unset" /\ p.required
  BY <1>3 DEF JSONNullable, propertyNullable
<1> QED BY <1>1, <1>2, <1>3

\* A property is one fact, and in JSON its annotations too.
LEMMA PropertyIsOneFact ==
  ASSUME NEW m, NEW owner, NEW p, NEW prop
  PROVE  buildJSONPropertyDefinition(m, owner, p, prop)
           = {XMLProperty(m, owner, p, prop)} \cup {<<"note", <<owner, p>>, n>> : n \in prop.notes}
  BY NullIsNull DEF buildJSONPropertyDefinition, XMLProperty

\* Where types have their own names, only one set can be that of a type.
LEMMA ReverseIsUnique ==
  ASSUME NEW m, NamesApart(m),
         NEW f \in entityTypeToSetNameMap(m), NEW g \in entityTypeToSetNameMap(m)
  PROVE  f = g
<1> DEFINE T == {meta.type : meta \in Metas(m)}
<1>1. f \in [T -> DOMAIN m.entities] /\ g \in [T -> DOMAIN m.entities]
  BY DEF entityTypeToSetNameMap
<1>2. \A t \in T : m.entities[f[t]].type = m.entities[g[t]].type
  BY DEF entityTypeToSetNameMap
<1>3. \A t \in T : f[t] = g[t]
  BY <1>1, <1>2 DEF NamesApart
<1> QED BY <1>1, <1>3

\* And then no layer of the schema object replaces anything of another.
LEMMA NothingIsReplaced ==
  ASSUME NEW m, NamesApart(m), NEW i \in 1 .. 7
  PROVE  Kept(m, i) = Layers(m)[i]
<1>1. Len(Layers(m)) = 7 /\ DOMAIN Layers(m) = 1 .. 7
  BY DEF Layers
<1>2. \A k \in (i + 1) .. 7 : Layers(m)[i] \cap Layers(m)[k] = {}
  BY <1>1 DEF NamesApart
<1>3. Layers(m)[i] \cap UNION {Layers(m)[k] : k \in (i + 1) .. 7} = {}
  BY <1>2
<1> QED BY <1>1, <1>3 DEF Kept

\* Every operation is in both documents.
LEMMA OperationsAreKept ==
  ASSUME NEW m, NamesApart(m), NEW o \in OperationFacts(m)
  PROVE  o[2] \in (IF o[1] = "functions" THEN Kept(m, 4) ELSE Kept(m, 5))
<1>1. PICK kind \in {"functions", "actions"} : o \in OverloadsOf(m, kind)
  BY DEF OperationFacts
<1>2. o[1] = kind /\ o[2] \in DOMAIN m[kind]
  BY <1>1 DEF OverloadsOf
<1>3. Layers(m)[4] = DOMAIN m.functions /\ Layers(m)[5] = DOMAIN m.actions
  BY DEF Layers
<1>4. kind = "functions" => m[kind] = m.functions
  OBVIOUS
<1>5. kind = "actions" => m[kind] = m.actions
  OBVIOUS
<1> QED BY <1>1, <1>2, <1>3, <1>4, <1>5, NothingIsReplaced

\* So is every import: a function and an action do not share a name, and
\* neither has that of a set.
LEMMA ImportsAreKept ==
  ASSUME NEW m, NamesApart(m)
  PROVE  /\ {i \in Imports(m) : i[2] = "actions" \/ i[3] \notin ImportNames(m, "actions")} = Imports(m)
         /\ Addressable(m) \ (ImportNames(m, "functions") \cup ImportNames(m, "actions")) = Addressable(m)
<1>1. \A i \in Imports(m) :
        \E o \in OperationFacts(m) : i[2] = o[1] /\ i[3] = o[2]
  BY DEF Imports
<1>2. \A o \in OperationFacts(m) :
        \/ o[1] = "functions" /\ o[2] \in DOMAIN m["functions"]
        \/ o[1] = "actions" /\ o[2] \in DOMAIN m["actions"]
  BY DEF OperationFacts, OverloadsOf
<1>3. DOMAIN m["functions"] \cap DOMAIN m["actions"] = {}
  <2>1. Layers(m)[4] = DOMAIN m.functions /\ Layers(m)[5] = DOMAIN m.actions /\ DOMAIN Layers(m) = 1 .. 7
    BY DEF Layers
  <2>2. Layers(m)[4] \cap Layers(m)[5] = {}
    BY <2>1 DEF NamesApart
  <2> QED BY <2>1, <2>2
<1>4. \A i \in Imports(m) : i[2] = "actions" \/ i[3] \notin ImportNames(m, "actions")
  BY <1>1, <1>2, <1>3 DEF ImportNames
<1>5. \A e \in Addressable(m) : e \notin ImportNames(m, "functions") \cup ImportNames(m, "actions")
  BY DEF Addressable, ImportNames, NamesApart
<1> QED BY <1>4, <1>5

\* The annotations of the XML document, sorted by what they are about.
LEMMA AnnotationsAreOfSomething ==
  ASSUME NEW m, Shared(m)
  PROVE  buildAnnotations(m) =
           ContainerNotes(m) \cup (UNION {SetNotes(m, e) : e \in DOMAIN m.entities})
             \cup UNION {TypeNotes(meta) : meta \in Metas(m)}
<1> DEFINE Both(e) == SetNotes(m, e) \cup TypeNotes(m.entities[e])
<1>1. buildAnnotations(m) = ContainerNotes(m) \cup UNION {Both(e) : e \in DOMAIN m.entities}
  BY DEF buildAnnotations, Shared
<1>2. UNION {TypeNotes(meta) : meta \in Metas(m)} = UNION {TypeNotes(m.entities[e]) : e \in DOMAIN m.entities}
  BY DEF Metas
<1>3. UNION {Both(e) : e \in DOMAIN m.entities}
        = (UNION {SetNotes(m, e) : e \in DOMAIN m.entities})
            \cup UNION {TypeNotes(m.entities[e]) : e \in DOMAIN m.entities}
  OBVIOUS
<1> QED BY <1>1, <1>2, <1>3

\* A complex type is told alike, its fields having no annotations.
LEMMA ComplexTypesAgree ==
  ASSUME NEW m, Shared(m), NEW p \in collectComplexTypes(m)
  PROVE  buildComplexType(m, p) = {<<"complex", p.type>>} \cup Members(m, p.type, p.fields)
<1>1. \A f \in DOMAIN p.fields : p.fields[f].notes = {} /\ p.fields[f].constraints = {}
  BY DEF collectComplexTypes, OfKind, Shared
<1>2. \A f \in Regular(p.fields) :
        buildJSONPropertyDefinition(m, p.type, f, p.fields[f]) = {XMLProperty(m, p.type, f, p.fields[f])}
  BY <1>1, PropertyIsOneFact DEF Regular
<1>3. \A f \in Navigations(p.fields) :
        buildJSONNavigationProperty(m, p.type, f, p.fields[f]) = {Navigation(m, p.type, f, p.fields[f])}
  BY <1>1 DEF Navigations, buildJSONNavigationProperty, Constraints
<1>4. UNION {buildJSONPropertyDefinition(m, p.type, f, p.fields[f]) : f \in Regular(p.fields)}
        = {XMLProperty(m, p.type, f, p.fields[f]) : f \in Regular(p.fields)}
  BY <1>2
<1>5. UNION {buildJSONNavigationProperty(m, p.type, f, p.fields[f]) : f \in Navigations(p.fields)}
        = {Navigation(m, p.type, f, p.fields[f]) : f \in Navigations(p.fields)}
  BY <1>3
<1> QED BY <1>4, <1>5 DEF buildComplexType, Members

\* An entity type is told alike, with the annotations XML lists elsewhere.
LEMMA EntityTypesAgree ==
  ASSUME NEW m, Shared(m), NEW meta \in Metas(m)
  PROVE  buildEntityType(m, meta) \cup TypeNotes(meta) = buildJSONEntityType(m, meta)
<1> DEFINE X(p) == XMLProperty(m, meta.type, p, meta.props[p])
           N(p) == {<<"note", <<meta.type, p>>, n>> : n \in meta.props[p].notes}
           V(p) == {Navigation(m, meta.type, p, meta.props[p])} \cup Constraints(meta.type, p, meta.props[p])
<1>1. ~meta.media /\ DOMAIN meta.streams = {} /\ StreamFields(meta) = {}
  BY DEF Shared, StreamFields
<1>2. \A p \in Navigations(meta.props) : N(p) = {}
  BY DEF Shared, Navigations, Properties
<1>3. DOMAIN meta.props = Regular(meta.props) \cup Navigations(meta.props)
  BY DEF Regular, Navigations
<1>4. buildRegularProperties(m, meta) = {X(p) : p \in Regular(meta.props)}
  BY <1>1 DEF buildRegularProperties
<1>5. buildNavigationProperties(m, meta) = UNION {V(p) : p \in Navigations(meta.props)}
  BY DEF buildNavigationProperties
<1>6. Members(m, meta.type, meta.props)
        = (UNION {{X(p)} \cup N(p) : p \in Regular(meta.props)}) \cup UNION {V(p) : p \in Navigations(meta.props)}
  BY PropertyIsOneFact DEF Members, buildJSONNavigationProperty
<1>7. UNION {{X(p)} \cup N(p) : p \in Regular(meta.props)}
        = {X(p) : p \in Regular(meta.props)} \cup UNION {N(p) : p \in Regular(meta.props)}
  OBVIOUS
<1>8. UNION {N(p) : p \in DOMAIN meta.props} = UNION {N(p) : p \in Regular(meta.props)}
  BY <1>2, <1>3
<1>9. TypeNotes(meta) = {<<"note", <<meta.type>>, n>> : n \in meta.notes} \cup UNION {N(p) : p \in DOMAIN meta.props}
  BY DEF TypeNotes
<1> HIDE DEF X, N, V
<1> QED BY <1>1, <1>4, <1>5, <1>6, <1>7, <1>8, <1>9 DEF buildEntityType, buildJSONEntityType

\* The container is told alike, with its annotations and those of its sets.
LEMMA ContainersAgree ==
  ASSUME NEW m, NamesApart(m), Shared(m), NEW reverse
  PROVE  buildJSONEntityContainer(m, reverse) =
           buildEntityContainer(m, reverse) \cup ContainerNotes(m)
             \cup UNION {SetNotes(m, e) : e \in DOMAIN m.entities}
<1> DEFINE B(e) == {<<"binding", e, b>> : b \in navigationBindings(m, m.entities[e], reverse)}
<1>1. \A e \in DOMAIN m.entities : e \notin Addressable(m) => SetNotes(m, e) = {}
  BY DEF Addressable, Shared, SetNotes, Metas
<1>2. Addressable(m) \subseteq DOMAIN m.entities
  BY DEF Addressable
<1>3. UNION {SetNotes(m, e) : e \in DOMAIN m.entities} = UNION {SetNotes(m, e) : e \in Addressable(m)}
  BY <1>1, <1>2
<1>4. buildJSONEntityContainer(m, reverse) =
        ContainerNotes(m) \cup (UNION {{Exposure(m, e)} \cup SetNotes(m, e) \cup B(e) : e \in Addressable(m)})
          \cup Imports(m)
  BY ImportsAreKept DEF buildJSONEntityContainer, ContainerNotes, SetNotes
<1>5. buildEntityContainer(m, reverse) =
        (UNION {{Exposure(m, e)} \cup B(e) : e \in Addressable(m)}) \cup Imports(m)
  BY DEF buildEntityContainer
<1> HIDE DEF B
<1>6. UNION {{Exposure(m, e)} \cup SetNotes(m, e) \cup B(e) : e \in Addressable(m)}
        = (UNION {{Exposure(m, e)} \cup B(e) : e \in Addressable(m)}) \cup UNION {SetNotes(m, e) : e \in Addressable(m)}
  OBVIOUS
<1> QED BY <1>3, <1>4, <1>5, <1>6

\* The two documents of such a model are the same facts, whichever way each
\* ranged over the map of the sets.
LEMMA BuildersAgree ==
  ASSUME NEW m, NamesApart(m), Shared(m),
         NEW f \in entityTypeToSetNameMap(m), NEW g \in entityTypeToSetNameMap(m)
  PROVE  buildMetadataDocument(m, f) = buildMetadataJSON(m, g)
<1> DEFINE Enums == {<<"enum", name, EnumInfo(m, name)>> : name \in sortedEnumDefinitions(m)}
           Typedefs == {<<"typedef", name>> : name \in sortedTypeDefinitions(m)}
           Complexes == UNION {buildComplexType(m, p) : p \in collectComplexTypes(m)}
           Types == UNION {buildEntityType(m, meta) : meta \in Metas(m)}
           TypesNotes == UNION {TypeNotes(meta) : meta \in Metas(m)}
           SetsNotes == UNION {SetNotes(m, e) : e \in DOMAIN m.entities}
<1>1. f = g
  BY ReverseIsUnique
<1>2. buildMetadataDocument(m, f) =
        Enums \cup Typedefs \cup Complexes \cup Types \cup OperationFacts(m)
          \cup buildEntityContainer(m, f) \cup ContainerNotes(m) \cup SetsNotes \cup TypesNotes
  BY AnnotationsAreOfSomething DEF buildMetadataDocument
<1>3. Kept(m, 1) = sortedEnumDefinitions(m) /\ Kept(m, 2) = sortedTypeDefinitions(m)
  BY NothingIsReplaced DEF Layers
<1>4. Kept(m, 3) = {p.type : p \in collectComplexTypes(m)} /\ Kept(m, 6) = {meta.type : meta \in Metas(m)}
  BY NothingIsReplaced DEF Layers
<1>5. {p \in collectComplexTypes(m) : p.type \in Kept(m, 3)} = collectComplexTypes(m)
  BY <1>4
<1>6. {meta \in Metas(m) : meta.type \in Kept(m, 6)} = Metas(m)
  BY <1>4
<1>7. UNION {{<<"complex", p.type>>} \cup Members(m, p.type, p.fields) :
               p \in {p \in collectComplexTypes(m) : p.type \in Kept(m, 3)}} = Complexes
  BY <1>5, ComplexTypesAgree
<1>8. UNION {buildJSONEntityType(m, meta) : meta \in {meta \in Metas(m) : meta.type \in Kept(m, 6)}}
        = Types \cup TypesNotes
  <2>1. UNION {buildEntityType(m, meta) \cup TypeNotes(meta) : meta \in Metas(m)} = Types \cup TypesNotes
    OBVIOUS
  <2> QED BY <1>6, <2>1, EntityTypesAgree
<1>9. {o \in OperationFacts(m) : o[2] \in (IF o[1] = "functions" THEN Kept(m, 4) ELSE Kept(m, 5))}
        = OperationFacts(m)
  BY OperationsAreKept
<1>10. buildMetadataJSON(m, g) =
         Enums \cup Typedefs \cup Complexes \cup OperationFacts(m) \cup (Types \cup TypesNotes)
           \cup (buildEntityContainer(m, g) \cup ContainerNotes(m) \cup SetsNotes)
  BY <1>3, <1>7, <1>8, <1>9, ContainersAgree DEF buildMetadataJSON
<1> HIDE DEF Enums, Typedefs, Complexes, Types, TypesNotes, SetsNotes
<1> QED BY <1>1, <1>2, <1>10

\* A client learns the same from either format of $metadata, of every model
\* whose names stay apart and that has nothing one format has no place for
\* (metadata_xml.go, metadata_json.go).
THEOREM FormatsAgree == MetadataSpec => []DocumentsAgree
<1> DEFINE Told == model # Unread =>
             \E f, g \in entityTypeToSetNameMap(model) :
               xml = buildMetadataDocument(model, f) /\ json = buildMetadataJSON(model, g)
<1>1. MetadataInit => Told
  BY DEF MetadataInit
<1>2. Told /\ [MetadataNext]_metadataVars => Told'
  BY DEF MetadataNext, Read, metadataVars
<1>3. Told => DocumentsAgree
  BY BuildersAgree DEF DocumentsAgree
<1> QED BY <1>1, <1>2, <1>3, PTL DEF MetadataSpec

-----------------------------------------------------------------------------
(* The registry of entities, and the index each of them keeps of it.       *)

\* Of some natural numbers one is the least.
LEMMA LeastOf ==
  ASSUME NEW S \in SUBSET Nat, S # {}
  PROVE  \E n \in S : \A m \in S : n <= m
<1>1. PICK n \in S : \A m \in S : ~(<<m, n>> \in OpToRel(<, Nat))
  BY NatLessThanWellFounded, WFMin
<1>2. \A m \in S : ~(m < n)
  BY <1>1 DEF OpToRel
<1>3. \A m \in S : m \in Nat /\ n \in Nat
  OBVIOUS
<1> QED BY <1>2, <1>3

\* The last place of a name in an order of the map.
LEMMA LastPlace ==
  ASSUME NEW n \in Nat, NEW T \in SUBSET (1 .. n), T # {}
  PROVE  Max(T) \in T
<1> DEFINE F == {n - i : i \in T}
<1>1. F \in SUBSET Nat /\ F # {}
  <2>1. \A i \in T : n - i \in Nat
    OBVIOUS
  <2> QED BY <2>1
<1>2. PICK x \in F : \A y \in F : ~(<<y, x>> \in OpToRel(<, Nat))
  BY <1>1, NatLessThanWellFounded, WFMin
<1>3. \A y \in F : ~(y < x)
  BY <1>1, <1>2 DEF OpToRel
<1>4. PICK k \in T : x = n - k
  OBVIOUS
<1>5. \A i \in T : k >= i
  <2> TAKE i \in T
  <2>1. ~(n - i < n - k)
    BY <1>3, <1>4
  <2> QED BY <2>1
<1> QED BY <1>5 DEF Max

\* Every name of every entity is in the index that the last visit leaves, and
\* leads to an entity that has it.
LEMMA IndexFromAnyOrder ==
  ASSUME NEW all, IsFiniteSet(DOMAIN all), \A n \in DOMAIN all : all[n].name = n,
         NEW order \in SetToSeqs(DOMAIN all),
         NEW ix, ix = SetEntitiesRegistry(all, order)
  PROVE  /\ DOMAIN ix = UNION {NamesOf(all[k]) : k \in DOMAIN all}
         /\ \A t \in DOMAIN ix : ix[t] \in DOMAIN all /\ t \in NamesOf(all[ix[t]])
<1> DEFINE N == Cardinality(DOMAIN all)
           names == UNION {NamesOf(all[k]) : k \in DOMAIN all}
           visits(t) == {i \in DOMAIN order : t \in NamesOf(all[order[i]])}
<1>1. N \in Nat /\ order \in [1 .. N -> DOMAIN all] /\ \A i, j \in 1 .. N : i # j => order[i] # order[j]
  BY FS_CardinalityType DEF SetToSeqs
<1>2. order \in Injection(1 .. N, DOMAIN all)
  BY <1>1 DEF Injection, IsInjective
<1>3. Cardinality(1 .. N) = N
  BY <1>1, FS_Interval
<1>4. order \in Surjection(1 .. N, DOMAIN all)
  BY <1>2, <1>3, FS_Injection
<1>5. ASSUME NEW t \in names PROVE Max(visits(t)) \in visits(t)
  <2>1. PICK k \in DOMAIN all : t \in NamesOf(all[k])
    OBVIOUS
  <2>2. PICK i \in 1 .. N : order[i] = k
    BY <1>4 DEF Surjection
  <2>3. visits(t) \in SUBSET (1 .. N) /\ visits(t) # {}
    BY <1>1, <2>1, <2>2
  <2> QED BY <1>1, <2>3, LastPlace
<1>6. SetEntitiesRegistry(all, order) = [t \in names |-> all[order[Max(visits(t))]].name]
  BY DEF SetEntitiesRegistry
<1>7. ASSUME NEW t \in names
      PROVE  /\ all[order[Max(visits(t))]].name \in DOMAIN all
             /\ t \in NamesOf(all[all[order[Max(visits(t))]].name])
  <2>1. Max(visits(t)) \in 1 .. N /\ t \in NamesOf(all[order[Max(visits(t))]])
    BY <1>1, <1>5
  <2> QED BY <1>1, <2>1
<1> HIDE DEF names, visits
<1> QED BY <1>6, <1>7 DEF names

\* Registering an entity leaves every index complete, the new one built from the
\* map in any order and the others brought up to date.
LEMMA RegisterKeepsIndexes ==
  ASSUME RegistryInv, NEW e \in Exposures, RegisterEntity(e)
  PROVE  RegistryInv'
<1>1. CASE UNCHANGED <<entities, targets>>
  BY <1>1 DEF RegistryInv, IndexesAreComplete
<1>2. ASSUME NEW m, m.name \notin DOMAIN entities, IsDeclared(m),
             NEW order \in SetToSeqs(DOMAIN entities \cup {m.name}),
             entities' = [n \in (DOMAIN entities) \cup {m.name} |-> IF n = m.name THEN m ELSE entities[n]],
             targets' = [n \in (DOMAIN entities) \cup {m.name} |->
                           IF n = m.name THEN SetEntitiesRegistry(entities', order)
                           ELSE AddEntityToRegistry(targets[n], m)]
      PROVE  RegistryInv'
  <2> DEFINE D == (DOMAIN entities) \cup {m.name}
  <2>1. DOMAIN entities' = D /\ DOMAIN targets' = D /\ IsFiniteSet(D)
    BY <1>2, FS_AddElement DEF RegistryInv
  <2>2. \A n \in D : entities'[n].name = n /\ IsDeclared(entities'[n])
    BY <1>2 DEF RegistryInv
  <2>3. UNION {NamesOf(entities'[k]) : k \in D}
          = (UNION {NamesOf(entities[k]) : k \in DOMAIN entities}) \cup NamesOf(m)
    BY <1>2
  <2>4. ASSUME NEW n \in D
        PROVE  /\ DOMAIN targets'[n] = UNION {NamesOf(entities'[k]) : k \in D}
               /\ \A t \in DOMAIN targets'[n] : targets'[n][t] \in D /\ t \in NamesOf(entities'[targets'[n][t]])
    <3>1. CASE n = m.name
      <4>1. targets'[n] = SetEntitiesRegistry(entities', order)
        BY <1>2, <3>1
      <4>2. order \in SetToSeqs(DOMAIN entities')
        BY <2>1
      <4>3. IsFiniteSet(DOMAIN entities') /\ \A k \in DOMAIN entities' : entities'[k].name = k
        BY <2>1, <2>2
      <4>4. /\ DOMAIN targets'[n] = UNION {NamesOf(entities'[k]) : k \in DOMAIN entities'}
            /\ \A t \in DOMAIN targets'[n] :
                 targets'[n][t] \in DOMAIN entities' /\ t \in NamesOf(entities'[targets'[n][t]])
        BY <4>1, <4>2, <4>3, IndexFromAnyOrder
      <4> QED BY <2>1, <4>4
    <3>2. CASE n # m.name
      <4>1. n \in DOMAIN entities /\ targets'[n] = AddEntityToRegistry(targets[n], m)
        BY <1>2, <3>2
      <4>2. /\ DOMAIN targets[n] = UNION {NamesOf(entities[k]) : k \in DOMAIN entities}
            /\ \A t \in DOMAIN targets[n] :
                 targets[n][t] \in DOMAIN entities /\ t \in NamesOf(entities[targets[n][t]])
        BY <4>1 DEF RegistryInv, IndexesAreComplete
      <4>3. DOMAIN targets'[n] = (DOMAIN targets[n]) \cup NamesOf(m)
        BY <4>1 DEF AddEntityToRegistry
      <4>4. \A t \in DOMAIN targets'[n] :
              targets'[n][t] = IF t \in NamesOf(m) THEN m.name ELSE targets[n][t]
        BY <4>1, <4>3 DEF AddEntityToRegistry
      <4>5. \A k \in DOMAIN entities : entities'[k] = entities[k]
        BY <1>2
      <4>6. entities'[m.name] = m
        BY <1>2
      <4> QED BY <2>3, <4>2, <4>3, <4>4, <4>5, <4>6
    <3> QED BY <3>1, <3>2
  <2> QED BY <2>1, <2>2, <2>4 DEF RegistryInv, IndexesAreComplete
<1>3. CASE ~UNCHANGED <<entities, targets>>
  <2> DEFINE all(m) == [n \in (DOMAIN entities) \cup {m.name} |-> IF n = m.name THEN m ELSE entities[n]]
  <2>1. \E m \in Analyses[e] :
          /\ m.name \notin DOMAIN entities
          /\ entities' = all(m)
          /\ \E order \in SetToSeqs(DOMAIN all(m)) :
               targets' = [n \in DOMAIN all(m) |->
                             IF n = m.name THEN SetEntitiesRegistry(all(m), order)
                             ELSE AddEntityToRegistry(targets[n], m)]
    <3>1. \A m, k \in Analyses[e] : m = k
      BY DEF Analyses
    <3> QED BY <1>3, <3>1 DEF RegisterEntity
  <2>2. PICK m \in Analyses[e] :
          /\ m.name \notin DOMAIN entities
          /\ entities' = all(m)
          /\ \E order \in SetToSeqs(DOMAIN all(m)) :
               targets' = [n \in DOMAIN all(m) |->
                             IF n = m.name THEN SetEntitiesRegistry(all(m), order)
                             ELSE AddEntityToRegistry(targets[n], m)]
    BY <2>1
  <2>3. DOMAIN all(m) = (DOMAIN entities) \cup {m.name}
    OBVIOUS
  <2> HIDE DEF all
  <2>4. PICK order \in SetToSeqs((DOMAIN entities) \cup {m.name}) :
          targets' = [n \in (DOMAIN entities) \cup {m.name} |->
                        IF n = m.name THEN SetEntitiesRegistry(entities', order)
                        ELSE AddEntityToRegistry(targets[n], m)]
    BY <2>2, <2>3
  <2>5. IsDeclared(m)
    <3>1. m = Metadata(e)
      BY <2>2 DEF Analyses
    <3>2. e.type \in DOMAIN Structs
      BY ModelAssumption
    <3> QED BY <3>1, <3>2 DEF Metadata, IsDeclared
  <2> QED BY <2>2, <2>4, <2>5, <1>2 DEF all
<1> QED BY <1>1, <1>3

\* Every entity is found by its type in every index, unless a name hides it.
LEMMA TargetsAreFound == RegistryInv => TargetsResolve
<1> SUFFICES ASSUME RegistryInv, NEW n \in DOMAIN entities,
                    NEW p, p.nav, ~Shadowed(p.type)
             PROVE  IF Exposing(p.type) = {} THEN ResolveNavigationTarget(n, p) = {}
                    ELSE \E k \in Exposing(p.type) : ResolveNavigationTarget(n, p) = {k}
  BY DEF TargetsResolve
<1>1. /\ DOMAIN targets[n] = UNION {NamesOf(entities[k]) : k \in DOMAIN entities}
      /\ \A t \in DOMAIN targets[n] :
           targets[n][t] \in DOMAIN entities /\ t \in NamesOf(entities[targets[n][t]])
  BY DEF RegistryInv, IndexesAreComplete
<1>2. CASE p.type \in DOMAIN targets[n]
  <2> DEFINE k == targets[n][p.type]
  <2>1. k \in DOMAIN entities /\ p.type \in {entities[k].type, entities[k].name} /\ entities[k].name = k
    BY <1>1, <1>2 DEF NamesOf, RegistryInv
  <2>2. entities[k].type = p.type
    BY <2>1 DEF Shadowed
  <2>3. k \in Exposing(p.type)
    BY <2>1, <2>2 DEF Exposing
  <2>4. ResolveNavigationTarget(n, p) = {k}
    BY <1>2 DEF ResolveNavigationTarget
  <2> QED BY <2>3, <2>4
<1>3. CASE p.type \notin DOMAIN targets[n]
  <2>1. Exposing(p.type) = {}
    BY <1>1, <1>3 DEF Exposing, NamesOf
  <2> QED BY <1>3, <2>1 DEF ResolveNavigationTarget
<1> QED BY <1>2, <1>3

\* Counting on from 0 reaches every number.
LEMMA CountingOn ==
  ASSUME NEW S \in SUBSET Nat, 0 \in S, \A n \in S : n + 1 \in S
  PROVE  \A n \in Nat : n \in S
<1> SUFFICES ASSUME Nat \ S # {} PROVE FALSE
  OBVIOUS
<1>1. PICK n \in Nat \ S : \A m \in Nat \ S : n <= m
  BY LeastOf
<1>2. n # 0 /\ n - 1 \in Nat
  BY <1>1
<1>3. n - 1 \in S
  BY <1>1, <1>2
<1> QED BY <1>1, <1>2, <1>3

\* The fields of a struct stand at numbers.
LEMMA FieldsHavePlaces ==
  ASSUME NEW t \in DOMAIN Structs
  PROVE  /\ \E n \in Nat : DOMAIN Structs[t].fields = 1 .. n
         /\ KeptFields(Structs[t].fields) \in SUBSET (DOMAIN Structs[t].fields)
         /\ DOMAIN Structs[t].fields \in SUBSET Nat
<1>1. Structs[t].fields \in Seq(FieldTypes)
  BY ModelAssumption
<1>2. PICK n \in Nat : DOMAIN Structs[t].fields = 1 .. n
  BY <1>1, LenProperties
<1> QED BY <1>2 DEF KeptFields

\* The keys of an entity are the fields tagged as such, or the field ID.
LEMMA KeysAreFound == RegistryInv => KeysAreDeclared
<1> SUFFICES ASSUME RegistryInv, NEW n \in DOMAIN entities,
                    Tagged(entities[n].type) = {} \/ ~IDComesFirst(entities[n].type)
             PROVE  {entities[n].keys[i].name : i \in DOMAIN entities[n].keys} =
                      IF Tagged(entities[n].type) # {} THEN {f.name : f \in Tagged(entities[n].type)}
                      ELSE {f.name : f \in {g \in FieldsOf(entities[n].type) : g.name = "ID" /\ ~Excluded(g)}}
  BY DEF KeysAreDeclared
<1> DEFINE t == entities[n].type
           fields == Structs[t].fields
           tagged(i) == "key" \in fields[i].tags
           named(i) == fields[i].name = "ID"
           keys == {i \in KeptFields(fields) : IsKey(fields, i)}
<1>1. t \in DOMAIN Structs /\ entities[n].keys = upsertKeyProperty(fields)
  BY DEF RegistryInv, IsDeclared
<1>2. KeptFields(fields) \in SUBSET (DOMAIN fields) /\ DOMAIN fields \in SUBSET Nat
  BY <1>1, FieldsHavePlaces
<1>3. DOMAIN entities[n].keys = keys /\ \A i \in keys : entities[n].keys[i].name = fields[i].name
  <2>1. ASSUME NEW f PROVE Property(f, TRUE).name = f.name /\ "name" \in DOMAIN Property(f, TRUE)
    BY DEF Property
  <2>2. \A f : [Property(f, TRUE) EXCEPT !.computed = FALSE].name = f.name
    BY <2>1
  <2>3. entities[n].keys = [i \in keys |-> [Property(fields[i], TRUE) EXCEPT !.computed = FALSE]]
    BY <1>1 DEF upsertKeyProperty
  <2> QED BY <2>2, <2>3
<1>4. {entities[n].keys[i].name : i \in DOMAIN entities[n].keys} = {fields[i].name : i \in keys}
  BY <1>3
<1>5. \A i \in KeptFields(fields) : IsKey(fields, i) <=>
        tagged(i) \/ (named(i) /\ \A j \in KeptFields(fields) : j < i => ~tagged(j) /\ ~named(j))
  BY DEF IsKey
<1>6. Tagged(t) = {fields[i] : i \in {j \in KeptFields(fields) : tagged(j)}}
  BY DEF Tagged, FieldsOf, KeptFields
<1>7. CASE Tagged(t) # {}
  <2>1. ASSUME NEW i \in KeptFields(fields), named(i) PROVE \E j \in KeptFields(fields) : tagged(j) /\ ~(i < j)
    BY <1>7, <2>1 DEF IDComesFirst
  <2>2. keys = {j \in KeptFields(fields) : tagged(j)}
    <3> SUFFICES ASSUME NEW i \in KeptFields(fields) PROVE IsKey(fields, i) <=> tagged(i)
      OBVIOUS
    <3>1. ASSUME ~tagged(i), named(i) PROVE \E j \in KeptFields(fields) : j < i /\ tagged(j)
      <4>1. PICK j \in KeptFields(fields) : tagged(j) /\ ~(i < j)
        BY <2>1, <3>1
      <4>2. i \in Nat /\ j \in Nat /\ i # j
        BY <1>2, <3>1, <4>1
      <4> QED BY <4>1, <4>2
    <3> QED BY <1>5, <3>1
  <2>3. {fields[i].name : i \in keys} = {f.name : f \in Tagged(t)}
    BY <1>6, <2>2
  <2> QED BY <1>4, <1>7, <2>3
<1>8. CASE Tagged(t) = {}
  <2> DEFINE ids == {i \in KeptFields(fields) : named(i)}
             meant == {g \in FieldsOf(t) : g.name = "ID" /\ ~Excluded(g)}
  <2>1. \A i \in KeptFields(fields) : ~tagged(i)
    BY <1>6, <1>8
  <2>2. meant = {fields[i] : i \in ids}
    BY DEF FieldsOf, KeptFields
  <2>3. keys = {i \in ids : \A j \in ids : ~(j < i)}
    BY <1>5, <2>1
  <2>4. CASE ids = {}
    BY <1>4, <1>8, <2>2, <2>3, <2>4
  <2>5. CASE ids # {}
    <3>1. ids \in SUBSET Nat
      BY <1>2
    <3>2. PICK i \in ids : \A j \in ids : i <= j
      BY <2>5, <3>1, LeastOf
    <3>3. i \in keys
      BY <2>3, <3>1, <3>2
    <3>4. {fields[j].name : j \in keys} = {"ID"}
      BY <2>3, <3>3
    <3>5. {f.name : f \in meant} = {"ID"}
      BY <2>2, <3>2
    <3> QED BY <1>4, <1>8, <3>4, <3>5
  <2> QED BY <2>4, <2>5
<1> QED BY <1>7, <1>8

\* What a path names, name after name.
LEMMA ReadByStep ==
  ASSUME NEW type, NEW path, Len(path) \in Nat
  PROVE  /\ 1 <= Len(path) => FieldsAlong(type, path)[1] = Meant(type, path[1])
         /\ \A i \in 2 .. Len(path) : FieldsAlong(type, path)[i] = MeantIn(FieldsAlong(type, path)[i - 1], path[i])
<1> DEFINE next(i, before) == MeantIn(before, path[i])
           first == Meant(type, path[1])
           good == {m \in Nat : \E w : w = [i \in 1 .. m |-> IF i = 1 THEN first ELSE next(i, w[i - 1])]}
<1> HIDE DEF next, first
<1>1. 0 \in good
  <2> DEFINE w == [i \in 1 .. 0 |-> first]
  <2>1. w = [i \in 1 .. 0 |-> IF i = 1 THEN first ELSE next(i, w[i - 1])]
    OBVIOUS
  <2> QED BY <2>1
<1>2. ASSUME NEW m \in good PROVE m + 1 \in good
  <2>1. PICK w : w = [i \in 1 .. m |-> IF i = 1 THEN first ELSE next(i, w[i - 1])]
    BY <1>2
  <2> DEFINE on == [i \in 1 .. (m + 1) |-> IF i = m + 1 THEN (IF i = 1 THEN first ELSE next(i, w[m])) ELSE w[i]]
  <2>2. \A i \in 1 .. m : on[i] = w[i]
    OBVIOUS
  <2>3. \A i \in 1 .. (m + 1) : on[i] = IF i = 1 THEN first ELSE next(i, on[i - 1])
    <3> SUFFICES ASSUME NEW i \in 1 .. (m + 1) PROVE on[i] = IF i = 1 THEN first ELSE next(i, on[i - 1])
      OBVIOUS
    <3>1. CASE i = m + 1
      <4>1. CASE i = 1
        BY <3>1, <4>1
      <4>2. CASE i # 1
        <5>1. on[i - 1] = w[m]
          BY <2>2, <3>1, <4>2
        <5> QED BY <3>1, <4>2, <5>1
      <4> QED BY <4>1, <4>2
    <3>2. CASE i # m + 1
      <4>1. i \in 1 .. m
        BY <3>2
      <4>2. i # 1 => on[i - 1] = w[i - 1]
        BY <2>2, <4>1
      <4>3. w[i] = IF i = 1 THEN first ELSE next(i, w[i - 1])
        BY <2>1, <4>1
      <4> QED BY <2>2, <4>1, <4>2, <4>3
    <3> QED BY <3>1, <3>2
  <2>4. on = [i \in 1 .. (m + 1) |-> IF i = 1 THEN first ELSE next(i, on[i - 1])]
    BY <2>3
  <2> HIDE DEF on
  <2>5. \E v : v = [i \in 1 .. (m + 1) |-> IF i = 1 THEN first ELSE next(i, v[i - 1])]
    BY <2>4, Zenon
  <2>6. m + 1 \in Nat
    OBVIOUS
  <2> QED BY <2>5, <2>6, Zenon
<1>3. good \in SUBSET Nat
  OBVIOUS
<1> HIDE DEF good
<1>4. Len(path) \in good
  BY <1>1, <1>2, <1>3, CountingOn
<1>5. \E w : w = [i \in 1 .. Len(path) |->
                  IF i = 1 THEN Meant(type, path[1]) ELSE MeantIn(w[i - 1], path[i])]
  BY <1>4 DEF good, next, first
<1>6. FieldsAlong(type, path) =
        CHOOSE w : w = [i \in 1 .. Len(path) |->
                  IF i = 1 THEN Meant(type, path[1]) ELSE MeantIn(w[i - 1], path[i])]
  BY DEF FieldsAlong
<1>7. FieldsAlong(type, path) =
        [i \in 1 .. Len(path) |->
           IF i = 1 THEN Meant(type, path[1]) ELSE MeantIn(FieldsAlong(type, path)[i - 1], path[i])]
  BY <1>5, <1>6
<1> HIDE DEF good, next, first
<1>8. \A i \in 1 .. Len(path) : FieldsAlong(type, path)[i] = IF i = 1 THEN Meant(type, path[1]) ELSE MeantIn(FieldsAlong(type, path)[i - 1], path[i])
  BY <1>7
<1>9. 1 <= Len(path) => FieldsAlong(type, path)[1] = Meant(type, path[1])
  BY <1>8
<1>10. ASSUME NEW i \in 2 .. Len(path) PROVE FieldsAlong(type, path)[i] = MeantIn(FieldsAlong(type, path)[i - 1], path[i])
  BY <1>8
<1> QED BY <1>9, <1>10

\* The entities a path passes, name after name.
LEMMA PassesByStep ==
  ASSUME NEW n, NEW path, Len(path) \in Nat
  PROVE  /\ Passes(n, path)[0] = {n}
         /\ \A i \in 1 .. Len(path) : Passes(n, path)[i] = SingleOf(Passes(n, path)[i - 1], path[i])
<1> DEFINE next(i, before) == SingleOf(before, path[i])
           first == {n}
           good == {m \in Nat : \E w : w = [i \in 0 .. m |-> IF i = 0 THEN first ELSE next(i, w[i - 1])]}
<1> HIDE DEF next, first
<1>1. 0 \in good
  <2> DEFINE w == [i \in 0 .. 0 |-> first]
  <2>1. w = [i \in 0 .. 0 |-> IF i = 0 THEN first ELSE next(i, w[i - 1])]
    OBVIOUS
  <2> QED BY <2>1
<1>2. ASSUME NEW m \in good PROVE m + 1 \in good
  <2>1. PICK w : w = [i \in 0 .. m |-> IF i = 0 THEN first ELSE next(i, w[i - 1])]
    BY <1>2
  <2> DEFINE on == [i \in 0 .. (m + 1) |-> IF i = m + 1 THEN (IF i = 0 THEN first ELSE next(i, w[m])) ELSE w[i]]
  <2>2. \A i \in 0 .. m : on[i] = w[i]
    OBVIOUS
  <2>3. \A i \in 0 .. (m + 1) : on[i] = IF i = 0 THEN first ELSE next(i, on[i - 1])
    <3> SUFFICES ASSUME NEW i \in 0 .. (m + 1) PROVE on[i] = IF i = 0 THEN first ELSE next(i, on[i - 1])
      OBVIOUS
    <3>1. CASE i = m + 1
      <4>1. CASE i = 0
        BY <3>1, <4>1
      <4>2. CASE i # 0
        <5>1. on[i - 1] = w[m]
          BY <2>2, <3>1, <4>2
        <5> QED BY <3>1, <4>2, <5>1
      <4> QED BY <4>1, <4>2
    <3>2. CASE i # m + 1
      <4>1. i \in 0 .. m
        BY <3>2
      <4>2. i # 0 => on[i - 1] = w[i - 1]
        BY <2>2, <4>1
      <4>3. w[i] = IF i = 0 THEN first ELSE next(i, w[i - 1])
        BY <2>1, <4>1
      <4> QED BY <2>2, <4>1, <4>2, <4>3
    <3> QED BY <3>1, <3>2
  <2>4. on = [i \in 0 .. (m + 1) |-> IF i = 0 THEN first ELSE next(i, on[i - 1])]
    BY <2>3
  <2> HIDE DEF on
  <2>5. \E v : v = [i \in 0 .. (m + 1) |-> IF i = 0 THEN first ELSE next(i, v[i - 1])]
    BY <2>4, Zenon
  <2>6. m + 1 \in Nat
    OBVIOUS
  <2> QED BY <2>5, <2>6, Zenon
<1>3. good \in SUBSET Nat
  OBVIOUS
<1> HIDE DEF good
<1>4. Len(path) \in good
  BY <1>1, <1>2, <1>3, CountingOn
<1>5. \E w : w = [i \in 0 .. Len(path) |->
                  IF i = 0 THEN {n} ELSE SingleOf(w[i - 1], path[i])]
  BY <1>4 DEF good, next, first
<1>6. Passes(n, path) =
        CHOOSE w : w = [i \in 0 .. Len(path) |->
                  IF i = 0 THEN {n} ELSE SingleOf(w[i - 1], path[i])]
  BY DEF Passes
<1>7. Passes(n, path) =
        [i \in 0 .. Len(path) |->
           IF i = 0 THEN {n} ELSE SingleOf(Passes(n, path)[i - 1], path[i])]
  BY <1>5, <1>6
<1> HIDE DEF good, next, first
<1>8. \A i \in 0 .. Len(path) : Passes(n, path)[i] = IF i = 0 THEN {n} ELSE SingleOf(Passes(n, path)[i - 1], path[i])
  BY <1>7
<1>9. Passes(n, path)[0] = {n}
  BY <1>8
<1>10. ASSUME NEW i \in 1 .. Len(path) PROVE Passes(n, path)[i] = SingleOf(Passes(n, path)[i - 1], path[i])
  BY <1>8
<1> QED BY <1>9, <1>10

\* The properties a path reaches in an entity, name after name.
LEMMA ReachedByStep ==
  ASSUME NEW e, NEW path, Len(path) \in Nat
  PROVE  /\ 1 <= Len(path) => Reached(e, path)[1] = Outermost(e, path[1])
         /\ \A i \in 2 .. Len(path) : Reached(e, path)[i] = FieldsWithin(Reached(e, path)[i - 1], path[i])
<1> DEFINE next(i, before) == FieldsWithin(before, path[i])
           first == Outermost(e, path[1])
           good == {m \in Nat : \E w : w = [i \in 1 .. m |-> IF i = 1 THEN first ELSE next(i, w[i - 1])]}
<1> HIDE DEF next, first
<1>1. 0 \in good
  <2> DEFINE w == [i \in 1 .. 0 |-> first]
  <2>1. w = [i \in 1 .. 0 |-> IF i = 1 THEN first ELSE next(i, w[i - 1])]
    OBVIOUS
  <2> QED BY <2>1
<1>2. ASSUME NEW m \in good PROVE m + 1 \in good
  <2>1. PICK w : w = [i \in 1 .. m |-> IF i = 1 THEN first ELSE next(i, w[i - 1])]
    BY <1>2
  <2> DEFINE on == [i \in 1 .. (m + 1) |-> IF i = m + 1 THEN (IF i = 1 THEN first ELSE next(i, w[m])) ELSE w[i]]
  <2>2. \A i \in 1 .. m : on[i] = w[i]
    OBVIOUS
  <2>3. \A i \in 1 .. (m + 1) : on[i] = IF i = 1 THEN first ELSE next(i, on[i - 1])
    <3> SUFFICES ASSUME NEW i \in 1 .. (m + 1) PROVE on[i] = IF i = 1 THEN first ELSE next(i, on[i - 1])
      OBVIOUS
    <3>1. CASE i = m + 1
      <4>1. CASE i = 1
        BY <3>1, <4>1
      <4>2. CASE i # 1
        <5>1. on[i - 1] = w[m]
          BY <2>2, <3>1, <4>2
        <5> QED BY <3>1, <4>2, <5>1
      <4> QED BY <4>1, <4>2
    <3>2. CASE i # m + 1
      <4>1. i \in 1 .. m
        BY <3>2
      <4>2. i # 1 => on[i - 1] = w[i - 1]
        BY <2>2, <4>1
      <4>3. w[i] = IF i = 1 THEN first ELSE next(i, w[i - 1])
        BY <2>1, <4>1
      <4> QED BY <2>2, <4>1, <4>2, <4>3
    <3> QED BY <3>1, <3>2
  <2>4. on = [i \in 1 .. (m + 1) |-> IF i = 1 THEN first ELSE next(i, on[i - 1])]
    BY <2>3
  <2> HIDE DEF on
  <2>5. \E v : v = [i \in 1 .. (m + 1) |-> IF i = 1 THEN first ELSE next(i, v[i - 1])]
    BY <2>4, Zenon
  <2>6. m + 1 \in Nat
    OBVIOUS
  <2> QED BY <2>5, <2>6, Zenon
<1>3. good \in SUBSET Nat
  OBVIOUS
<1> HIDE DEF good
<1>4. Len(path) \in good
  BY <1>1, <1>2, <1>3, CountingOn
<1>5. \E w : w = [i \in 1 .. Len(path) |->
                  IF i = 1 THEN Outermost(e, path[1]) ELSE FieldsWithin(w[i - 1], path[i])]
  BY <1>4 DEF good, next, first
<1>6. Reached(e, path) =
        CHOOSE w : w = [i \in 1 .. Len(path) |->
                  IF i = 1 THEN Outermost(e, path[1]) ELSE FieldsWithin(w[i - 1], path[i])]
  BY DEF Reached
<1>7. Reached(e, path) =
        [i \in 1 .. Len(path) |->
           IF i = 1 THEN Outermost(e, path[1]) ELSE FieldsWithin(Reached(e, path)[i - 1], path[i])]
  BY <1>5, <1>6
<1> HIDE DEF good, next, first
<1>8. \A i \in 1 .. Len(path) : Reached(e, path)[i] = IF i = 1 THEN Outermost(e, path[1]) ELSE FieldsWithin(Reached(e, path)[i - 1], path[i])
  BY <1>7
<1>9. 1 <= Len(path) => Reached(e, path)[1] = Outermost(e, path[1])
  BY <1>8
<1>10. ASSUME NEW i \in 2 .. Len(path) PROVE Reached(e, path)[i] = FieldsWithin(Reached(e, path)[i - 1], path[i])
  BY <1>8
<1> QED BY <1>9, <1>10

\* What of a field its property keeps.
LEMMA PropertyOfField ==
  ASSUME NEW f, NEW key \in BOOLEAN, NEW p, p = Property(f, key)
  PROVE  /\ p.name = f.name /\ p.json = f.json /\ p.type = f.type /\ p.prefix = f.prefix
         /\ p.many = f.many /\ p.nav = Relates(f) /\ p.complex = Embeds(f)
  BY DEF Property

\* A name that means one field of a struct finds its property in an entity.
LEMMA MeantIsFound ==
  ASSUME RegistryInv, NEW n \in DOMAIN entities, NEW name, NEW f,
         Meant(entities[n].type, name) = {f}, Clear(entities[n].type, name), ~Excluded(f)
  PROVE  \E key \in BOOLEAN : FindProperty(entities[n], name) = {Property(f, key)}
<1> DEFINE t == entities[n].type
           fields == Structs[t].fields
           properties == entities[n].properties
           P == {j \in DOMAIN properties : name \in {properties[j].name, properties[j].json}}
<1>1. t \in DOMAIN Structs /\ properties = PropertiesOf(fields)
  BY DEF RegistryInv, IsDeclared
<1>2. DOMAIN properties = KeptFields(fields)
      /\ \A j \in KeptFields(fields) : properties[j] = Property(fields[j], IsKey(fields, j))
  BY <1>1 DEF PropertiesOf
<1>3. \A j \in KeptFields(fields) : IsKey(fields, j) \in BOOLEAN
  BY DEF IsKey
<1>4. KeptFields(fields) \in SUBSET (DOMAIN fields) /\ DOMAIN fields \in SUBSET Nat
  BY <1>1, FieldsHavePlaces
<1>5. P = {j \in KeptFields(fields) : name \in {fields[j].name, fields[j].json}}
  BY <1>2, <1>3, PropertyOfField
<1>6. \A j \in P : fields[j] = f
  <2> SUFFICES ASSUME NEW j \in KeptFields(fields), name \in {fields[j].name, fields[j].json} PROVE fields[j] = f
    BY <1>5
  <2>1. fields[j] \in FieldsOf(t)
    BY <1>4 DEF FieldsOf
  <2>2. fields[j].json = name
    BY <2>1 DEF Clear
  <2> QED BY <1>1, <2>1, <2>2 DEF Meant
<1>7. P # {}
  <2>1. f \in FieldsOf(t) /\ f.json = name
    BY <1>1 DEF Meant
  <2>2. PICK i \in DOMAIN fields : fields[i] = f
    BY <2>1 DEF FieldsOf
  <2>3. i \in KeptFields(fields)
    BY <2>2 DEF KeptFields
  <2> QED BY <1>5, <2>1, <2>2, <2>3
<1>8. P \in SUBSET Nat
  BY <1>4, <1>5
<1>9. PICK j \in P : \A i \in P : j <= i
  BY <1>7, <1>8, LeastOf
<1>10. FirstOf(P) = {j}
  BY <1>8, <1>9 DEF FirstOf
<1>11. FindProperty(entities[n], name) = {properties[j]}
  BY <1>10 DEF FindProperty
<1>12. j \in KeptFields(fields) /\ properties[j] = Property(f, IsKey(fields, j))
  BY <1>2, <1>5, <1>6, <1>9
<1> QED BY <1>3, <1>11, <1>12

\* The greatest of some places in a sequence.
LEMMA GreatestOf ==
  ASSUME NEW n \in Nat, NEW P \in SUBSET (1 .. n), P # {}
  PROVE  \E j \in P : \A i \in P : i <= j
<1> DEFINE F == {n - i : i \in P}
<1>1. F \in SUBSET Nat /\ F # {}
  <2>1. \A i \in P : n - i \in Nat
    OBVIOUS
  <2> QED BY <2>1
<1>2. PICK x \in F : \A y \in F : x <= y
  BY <1>1, LeastOf
<1>3. PICK k \in P : x = n - k
  OBVIOUS
<1>4. \A i \in P : i <= k
  <2> TAKE i \in P
  <2>1. n - k <= n - i
    BY <1>2, <1>3
  <2>2. i \in 1 .. n /\ k \in 1 .. n
    OBVIOUS
  <2> HIDE DEF F
  <2> QED BY <2>1, <2>2
<1> QED BY <1>4

\* A name that means one field of an embedded struct finds it there.
LEMMA MeantIsEmbedded ==
  ASSUME NEW p, p.complex, NEW name, name # "-", NEW f,
         Meant(p.type, name) = {f}, Clear(p.type, name)
  PROVE  FindComplexField(p, name) = {Property(f, FALSE)}
<1> DEFINE fields == Structs[p.type].fields
           P == {i \in DOMAIN fields : name = fields[i].name \/ (name = fields[i].json /\ name # "-")}
<1>1. p.type \in DOMAIN Structs /\ f \in FieldsOf(p.type) /\ f.json = name
  BY DEF Meant
<1>2. PICK m \in Nat : DOMAIN fields = 1 .. m
  BY <1>1, FieldsHavePlaces
<1>3. \A i \in P : fields[i] = f
  BY <1>1 DEF Clear, Meant, FieldsOf
<1>4. P # {}
  BY <1>1 DEF FieldsOf
<1>5. PICK j \in P : \A i \in P : i <= j
  BY <1>2, <1>4, GreatestOf
<1>6. FinalOf(P) = {j}
  BY <1>2, <1>5 DEF FinalOf
<1>7. ComplexTypeField(fields, name) = {j}
  BY <1>6 DEF ComplexTypeField
<1> QED BY <1>3, <1>7 DEF FindComplexField

\* A single navigation leads to the one entity of its type.
LEMMA StepLeads ==
  ASSUME RegistryInv, NEW n \in DOMAIN entities, NEW name, NEW f,
         Meant(entities[n].type, name) = {f}, Clear(entities[n].type, name), Singly(f),
         NEW k, Exposing(f.type) = {k}, ~Shadowed(f.type)
  PROVE  /\ FindNavigationProperty(entities[n], name) # {}
         /\ Single(n, name) = {k}
<1>1. PICK key \in BOOLEAN : FindProperty(entities[n], name) = {Property(f, key)}
  BY MeantIsFound DEF Singly
<1> DEFINE p == Property(f, key)
<1>2. p.nav /\ ~p.many /\ p.type = f.type
  BY PropertyOfField DEF Singly
<1> HIDE DEF p
<1>3. FindNavigationProperty(entities[n], name) = {p}
  BY <1>1, <1>2 DEF FindNavigationProperty, p
<1>4. p \in {entities[n].properties[i] : i \in DOMAIN entities[n].properties}
  BY <1>1 DEF FindProperty, FirstOf, p
<1>5. ResolveNavigationTarget(n, p) = {k}
  BY <1>2, <1>4, TargetsAreFound DEF TargetsResolve
<1>6. Single(n, name) = {k}
  BY <1>2, <1>3, <1>5 DEF Single
<1> QED BY <1>3, <1>6

\* What is known of a path that a model gives a meaning.
LEMMA MeaningsRead ==
  ASSUME NEW m \in Meanings
  PROVE  /\ Len(m.path) \in Nat /\ m.h \in 1 .. (Len(m.path) - 1)
         /\ m.path \in Seq(STRING) /\ \A i \in 1 .. Len(m.path) : m.path[i] # "-"
         /\ \A i \in 1 .. Len(m.path) :
              /\ Meant(Passed(m, i), m.path[i]) = {m.fields[i]}
              /\ Clear(Passed(m, i), m.path[i])
         /\ Follows(m)
<1>1. PICK q \in PropertyPaths : m.path = q /\ m.h \in 1 .. (Len(q) - 1)
  BY DEF Meanings, Meaning
<1>2. q \in Seq(STRING \ {"-"})
  BY ModelAssumption
<1>3. Len(q) \in Nat /\ q \in Seq(STRING) /\ \A i \in 1 .. Len(q) : q[i] # "-"
  <2> DEFINE S == STRING \ {"-"}
  <2>1. q \in Seq(S)
    BY <1>2
  <2>2. S \in SUBSET STRING /\ \A x \in S : x # "-"
    OBVIOUS
  <2> HIDE DEF S
  <2>3. q \in [1 .. Len(q) -> S] /\ Len(q) \in Nat
    BY <2>1, LenProperties
  <2>4. \A i \in 1 .. Len(q) : q[i] \in S
    BY <2>3
  <2>5. q \in Seq(STRING)
    <3>1. q \in [1 .. Len(q) -> STRING]
      BY <2>2, <2>3
    <3> QED BY <2>3, <3>1, SeqDef
  <2> QED BY <2>2, <2>3, <2>4, <2>5
<1>4. Sound(m) /\ Follows(m)
  BY DEF Meanings
<1>5. ASSUME NEW i \in 1 .. Len(q) PROVE Meant(Passed(m, i), m.path[i]) = {m.fields[i]}
  <2>1. FieldsAlong(m.type, q)[i] = {m.fields[i]}
    BY <1>1, <1>4 DEF Sound
  <2>2. CASE i = 1
    <3>1. FieldsAlong(m.type, q)[1] = Meant(m.type, q[1])
      BY <1>3, <2>2, ReadByStep
    <3>2. Passed(m, i) = m.type
      BY <2>2 DEF Passed
    <3> QED BY <1>1, <2>1, <2>2, <3>1, <3>2
  <2>3. CASE i # 1
    <3>1. i - 1 \in 1 .. Len(q)
      BY <1>3, <2>3
    <3>2. FieldsAlong(m.type, q)[i - 1] = {m.fields[i - 1]}
      BY <1>1, <1>4, <3>1 DEF Sound
    <3>3. FieldsAlong(m.type, q)[i] = MeantIn(FieldsAlong(m.type, q)[i - 1], q[i])
      BY <1>3, <2>3, ReadByStep
    <3>4. FieldsAlong(m.type, q)[i] = Meant(m.fields[i - 1].type, q[i])
      BY <3>2, <3>3 DEF MeantIn
    <3> QED BY <1>1, <2>1, <2>3, <3>4 DEF Passed
  <2> QED BY <2>2, <2>3
<1> QED BY <1>1, <1>3, <1>4, <1>5 DEF Sound

\* The entities such a path passes: one after each navigation, and none after the last.
LEMMA PathPasses ==
  ASSUME RegistryInv, NEW m \in Meanings,
         NEW n \in Exposing(m.type),
         \A i \in 1 .. m.h : (\E k : Exposing(m.fields[i].type) = {k}) /\ ~Shadowed(m.fields[i].type)
  PROVE  /\ \A i \in 1 .. m.h : Passes(n, m.path)[i] = Exposing(m.fields[i].type)
         /\ \A i \in 1 .. (m.h - 1) : \A l \in Passes(n, m.path)[i] :
              FindNavigationProperty(entities[l], m.path[i + 1]) # {}
         /\ \A l \in Passes(n, m.path)[m.h] :
              FindNavigationProperty(entities[l], m.path[m.h + 1]) = {}
         /\ \A i \in (m.h + 1) .. Len(m.path) : Passes(n, m.path)[i] = {}
<1> DEFINE path == m.path
           L == Len(path)
           h == m.h
           passed == Passes(n, path)
<1>1. \A i \in 1 .. h : (\E k : Exposing(m.fields[i].type) = {k}) /\ ~Shadowed(m.fields[i].type)
  OBVIOUS
<1>2. L \in Nat /\ h \in 1 .. (L - 1)
  BY MeaningsRead
<1>3. Follows(m)
  BY MeaningsRead
<1>4. ASSUME NEW i \in 1 .. L
      PROVE  Meant(Passed(m, i), path[i]) = {m.fields[i]} /\ Clear(Passed(m, i), path[i])
  BY MeaningsRead
<1> HIDE DEF path
<1>5. L \in Nat
  BY <1>2
<1>6. passed[0] = {n} /\ \A i \in 1 .. L : passed[i] = SingleOf(passed[i - 1], path[i])
  BY <1>5, PassesByStep
<1> HIDE DEF passed, L, h
<1>7. n \in DOMAIN entities /\ entities[n].type = Passed(m, 1)
  BY DEF Exposing, Passed
<1>8. ASSUME NEW i \in 1 .. h, NEW l \in DOMAIN entities, entities[l].type = Passed(m, i), passed[i - 1] = {l}
      PROVE  passed[i] = Exposing(m.fields[i].type) /\ FindNavigationProperty(entities[l], path[i]) # {}
  <2>1. i \in 1 .. L
    BY <1>2
  <2>2. PICK k : Exposing(m.fields[i].type) = {k}
    BY <1>1
  <2>3. Singly(m.fields[i])
    BY <1>2, <1>3 DEF Follows, path, L, h
  <2>4. /\ Meant(entities[l].type, path[i]) = {m.fields[i]}
        /\ Clear(entities[l].type, path[i])
        /\ ~Shadowed(m.fields[i].type)
    BY <1>8, <1>4, <1>1, <2>1
  <2>5. Single(l, path[i]) = {k} /\ FindNavigationProperty(entities[l], path[i]) # {}
    <3> DEFINE f == m.fields[i]
               name == path[i]
    <3> HIDE DEF f, name
    <3> SUFFICES Single(l, name) = {k} /\ FindNavigationProperty(entities[l], name) # {}
      BY DEF name
    <3> QED BY <2>2, <2>3, <2>4, StepLeads DEF f, name
  <2> QED BY <1>6, <1>8, <2>1, <2>2, <2>5 DEF SingleOf
<1>9. ASSUME NEW i \in 1 .. h, passed[i] = Exposing(m.fields[i].type)
      PROVE  \E l \in DOMAIN entities : entities[l].type = Passed(m, i + 1) /\ passed[i] = {l}
  <2>1. PICK k : Exposing(m.fields[i].type) = {k}
    BY <1>1
  <2>2. k \in DOMAIN entities /\ entities[k].type = m.fields[i].type
    BY <2>1 DEF Exposing
  <2>3. Passed(m, i + 1) = m.fields[i].type
    BY <1>2 DEF Passed
  <2> QED BY <1>9, <2>1, <2>2, <2>3
<1>10. \A i \in 1 .. h : passed[i] = Exposing(m.fields[i].type)
  <2> DEFINE good == {i \in Nat : i + 1 <= h => passed[i + 1] = Exposing(m.fields[i + 1].type)}
  <2>1. 0 \in good
    <3>1. 1 \in 1 .. h
      BY <1>2
    <3>2. passed[1] = Exposing(m.fields[1].type)
      BY <1>6, <1>7, <1>8, <3>1
    <3> QED BY <3>2
  <2>2. ASSUME NEW i \in good PROVE i + 1 \in good
    <3> SUFFICES ASSUME (i + 1) + 1 <= h PROVE passed[(i + 1) + 1] = Exposing(m.fields[(i + 1) + 1].type)
      OBVIOUS
    <3>1. i + 1 \in 1 .. h /\ i + 2 \in 1 .. h /\ (i + 2) - 1 = i + 1 /\ (i + 1) + 1 = i + 2
      BY <1>2
    <3>2. passed[i + 1] = Exposing(m.fields[i + 1].type)
      BY <3>1
    <3>3. PICK l \in DOMAIN entities : entities[l].type = Passed(m, i + 2) /\ passed[i + 1] = {l}
      BY <1>9, <3>1, <3>2
    <3>4. passed[i + 2] = Exposing(m.fields[i + 2].type)
      BY <1>8, <3>1, <3>3
    <3> QED BY <3>1, <3>4
  <2>3. good \in SUBSET Nat
    OBVIOUS
  <2> HIDE DEF good
  <2>4. \A i \in Nat : i \in good
    BY <2>1, <2>2, <2>3, CountingOn
  <2> SUFFICES ASSUME NEW i \in 1 .. h PROVE passed[i] = Exposing(m.fields[i].type)
    OBVIOUS
  <2>5. i - 1 \in Nat /\ (i - 1) + 1 = i /\ i <= h
    BY <1>2
  <2> QED BY <2>4, <2>5 DEF good
<1>11. ASSUME NEW i \in 1 .. (h - 1), NEW l \in passed[i]
      PROVE  FindNavigationProperty(entities[l], path[i + 1]) # {}
  <2>1. i \in 1 .. h /\ i + 1 \in 1 .. h /\ (i + 1) - 1 = i
    BY <1>2
  <2> QED BY <1>8, <1>9, <1>10, <2>1
<1>12. ASSUME NEW l \in passed[h] PROVE FindNavigationProperty(entities[l], path[h + 1]) = {}
  <2> DEFINE f == m.fields[h + 1]
  <2>1. h \in 1 .. h /\ h + 1 \in 1 .. L
    BY <1>2
  <2>2. l \in DOMAIN entities /\ entities[l].type = Passed(m, h + 1)
    BY <1>9, <1>10, <2>1
  <2>3. ~Relates(f)
    <3>1. CASE h + 1 = L
      BY <1>2, <1>3, <3>1 DEF Follows, path, L, h
    <3>2. CASE h + 1 # L
      <4>1. h + 1 \in (h + 1) .. (L - 1)
        BY <1>2, <3>2
      <4> QED BY <1>2, <1>3, <4>1 DEF Follows, Embeds, path, L, h
    <3> QED BY <3>1, <3>2
  <2>4. ~Excluded(f)
    BY <1>2, <1>3 DEF Follows, path, L, h
  <2>5. PICK key \in BOOLEAN : FindProperty(entities[l], path[h + 1]) = {Property(f, key)}
    <3>1. Meant(entities[l].type, path[h + 1]) = {f} /\ Clear(entities[l].type, path[h + 1])
      BY <1>4, <2>1, <2>2
    <3> DEFINE name == path[h + 1]
    <3> HIDE DEF f, name
    <3> SUFFICES \E key \in BOOLEAN : FindProperty(entities[l], name) = {Property(f, key)}
      BY DEF name
    <3> QED BY <2>2, <2>4, <3>1, MeantIsFound DEF name
  <2>6. ~Property(f, key).nav
    BY <2>3, PropertyOfField
  <2> QED BY <2>5, <2>6 DEF FindNavigationProperty
<1>13. \A i \in (h + 1) .. L : passed[i] = {}
  <2> DEFINE good == {i \in Nat : (h + 1) + i <= L => passed[(h + 1) + i] = {}}
  <2>1. 0 \in good
    <3>1. h + 1 \in 1 .. L /\ (h + 1) - 1 = h
      BY <1>2
    <3>2. \A l \in passed[h] : Single(l, path[h + 1]) = {}
      BY <1>12 DEF Single
    <3>3. passed[h + 1] = {}
      BY <1>6, <3>1, <3>2 DEF SingleOf
    <3>4. (h + 1) + 0 = h + 1
      BY <1>2
    <3> QED BY <3>3, <3>4
  <2>2. ASSUME NEW i \in good PROVE i + 1 \in good
    <3> SUFFICES ASSUME (h + 1) + (i + 1) <= L PROVE passed[(h + 1) + (i + 1)] = {}
      OBVIOUS
    <3>1. (h + 1) + (i + 1) \in 1 .. L /\ (h + 1) + i <= L /\ ((h + 1) + (i + 1)) - 1 = (h + 1) + i
      BY <1>2
    <3>2. passed[(h + 1) + i] = {}
      BY <3>1
    <3> QED BY <1>6, <3>1, <3>2 DEF SingleOf
  <2>3. good \in SUBSET Nat
    OBVIOUS
  <2> HIDE DEF good
  <2>4. \A i \in Nat : i \in good
    BY <2>1, <2>2, <2>3, CountingOn
  <2> SUFFICES ASSUME NEW i \in (h + 1) .. L PROVE passed[i] = {}
    OBVIOUS
  <2>5. i - (h + 1) \in Nat /\ (h + 1) + (i - (h + 1)) = i /\ i <= L
    BY <1>2
  <2> QED BY <2>4, <2>5 DEF good
<1> QED BY <1>10, <1>11, <1>12, <1>13 DEF passed, path, L, h

\* The navigations of such a path are the ones before its first property.
LEMMA PathEnds ==
  ASSUME RegistryInv, NEW m \in Meanings,
         NEW n \in Exposing(m.type),
         \A i \in 1 .. m.h : (\E l : Exposing(m.fields[i].type) = {l}) /\ ~Shadowed(m.fields[i].type),
         NEW k, Exposing(m.fields[m.h].type) = {k}
  PROVE  ResolveSingleEntityNavigationPath(n, m.path) =
           {[at |-> k, rest |-> SubSeq(m.path, m.h + 1, Len(m.path))]}
<1> DEFINE path == m.path
           L == Len(path)
           h == m.h
           stops(j) == {l \in Passes(n, path)[j] : FindNavigationProperty(entities[l], path[j + 1]) = {}}
           ends(j) == {[at |-> l, rest |-> SubSeq(path, j + 1, L)] : l \in stops(j)}
<1>1. L \in Nat /\ h \in 1 .. (L - 1)
  BY MeaningsRead
<1>2. ResolveSingleEntityNavigationPath(n, path) = UNION {ends(j) : j \in 1 .. (L - 1)}
  BY DEF ResolveSingleEntityNavigationPath
<1>3. /\ Passes(n, path)[h] = {k}
      /\ \A i \in 1 .. (h - 1) : \A l \in Passes(n, path)[i] :
           FindNavigationProperty(entities[l], path[i + 1]) # {}
      /\ \A l \in Passes(n, path)[h] : FindNavigationProperty(entities[l], path[h + 1]) = {}
      /\ \A i \in (h + 1) .. L : Passes(n, path)[i] = {}
  <2>1. h \in 1 .. h
    BY <1>1
  <2> QED BY <2>1, PathPasses
<1> HIDE DEF path, L, h
<1>4. stops(h) = {k}
  BY <1>3
<1>5. ASSUME NEW j \in 1 .. (L - 1), j # h PROVE stops(j) = {}
  <2>1. CASE j < h
    <3>1. j \in 1 .. (h - 1)
      BY <1>1, <2>1
    <3> QED BY <1>3, <3>1
  <2>2. CASE ~(j < h)
    <3>1. j \in (h + 1) .. L
      BY <1>1, <1>5, <2>2
    <3> QED BY <1>3, <3>1
  <2> QED BY <2>1, <2>2
<1> HIDE DEF stops
<1>6. ends(h) = {[at |-> k, rest |-> SubSeq(path, h + 1, L)]}
  BY <1>4
<1>7. \A j \in 1 .. (L - 1) : j # h => ends(j) = {}
  BY <1>5
<1> HIDE DEF ends
<1>8. UNION {ends(j) : j \in 1 .. (L - 1)} = ends(h)
  BY <1>1, <1>7
<1> QED BY <1>2, <1>6, <1>8 DEF path, L, h

\* What remains of it reaches the property of its last field.
LEMMA PathReaches ==
  ASSUME RegistryInv, NEW m \in Meanings,
         NEW k \in DOMAIN entities, entities[k].type = Passed(m, m.h + 1)
  PROVE  \E key \in BOOLEAN :
           ResolvePropertyPath(entities[k], SubSeq(m.path, m.h + 1, Len(m.path))) =
             {[prop |-> Property(m.fields[Len(m.path)], key),
               prefixes |-> [i \in 1 .. (Len(m.path) - m.h - 1) |-> m.fields[m.h + i].prefix]]}
<1> DEFINE path == m.path
           L == Len(path)
           h == m.h
           rest == SubSeq(path, h + 1, L)
           reached == Reached(entities[k], rest)
           before(j) == [i \in 1 .. (j - 1) |-> m.fields[h + i].prefix]
           place(j, key) == [prop |-> Property(m.fields[h + j], key), prefixes |-> before(j)]
           good == {j \in Nat : j + 1 <= L - h => \E key \in BOOLEAN : reached[j + 1] = {place(j + 1, key)}}
<1>1. L \in Nat /\ h \in 1 .. (L - 1) /\ path \in Seq(STRING) /\ \A i \in 1 .. L : path[i] # "-"
  BY MeaningsRead
<1>2. Follows(m)
  BY MeaningsRead
<1>3. ASSUME NEW i \in 1 .. L
      PROVE  Meant(Passed(m, i), path[i]) = {m.fields[i]} /\ Clear(Passed(m, i), path[i])
  BY MeaningsRead
<1>4. \A i \in (h + 1) .. (L - 1) : Embeds(m.fields[i])
  BY <1>2 DEF Follows
<1>5. ~Excluded(m.fields[h + 1])
  BY <1>2 DEF Follows
<1> HIDE DEF path, L, h
<1>6. Len(rest) = L - h /\ \A j \in 1 .. (L - h) : rest[j] = path[h + j]
  <2>1. h + 1 \in 1 .. L + 1 /\ L \in h .. L /\ L - (h + 1) + 1 = L - h
    BY <1>1
  <2>2. Len(rest) = L - h
    BY <1>1, SubSeqProperties DEF L
  <2>3. \A j \in 1 .. (L - h) : rest[j] = path[h + j]
    BY <1>1, <2>2 DEF L
  <2> QED BY <2>2, <2>3
<1>7. 1 \in 1 .. (L - h) /\ L - h \in Nat
  BY <1>1
<1> HIDE DEF rest
<1>8. reached[1] = Outermost(entities[k], rest[1])
  BY <1>6, <1>7, ReachedByStep
<1>9. \A j \in 2 .. (L - h) : reached[j] = FieldsWithin(reached[j - 1], rest[j])
  BY <1>6, <1>7, ReachedByStep
<1> HIDE DEF reached
<1>10. 0 \in good
  <2> DEFINE f == m.fields[h + 1]
             name == path[h + 1]
  <2>1. h + 1 \in 1 .. L /\ rest[1] = path[h + 1]
    BY <1>1, <1>6, <1>7
  <2>2. Meant(entities[k].type, name) = {f} /\ Clear(entities[k].type, name)
    BY <1>3, <2>1 DEF h
  <2>3. PICK key \in BOOLEAN : FindProperty(entities[k], name) = {Property(f, key)}
    <3> HIDE DEF f, name
    <3> QED BY <1>5, <2>2, MeantIsFound DEF f
  <2>4. Outermost(entities[k], name) = {[prop |-> Property(f, key), prefixes |-> <<>>]}
    BY <2>3 DEF Outermost
  <2>5. before(1) = <<>>
    OBVIOUS
  <2>6. reached[1] = {place(1, key)}
    BY <1>8, <2>1, <2>4, <2>5
  <2> HIDE DEF before, place
  <2> QED BY <2>6
<1>11. ASSUME NEW j \in good PROVE j + 1 \in good
  <2> SUFFICES ASSUME (j + 1) + 1 <= L - h PROVE \E key \in BOOLEAN : reached[(j + 1) + 1] = {place((j + 1) + 1, key)}
    OBVIOUS
  <2> DEFINE f == m.fields[h + (j + 1)]
             g == m.fields[h + (j + 2)]
             name == path[h + (j + 2)]
  <2>1. /\ j \in Nat /\ j + 1 <= L - h /\ j + 2 \in 2 .. (L - h) /\ (j + 2) - 1 = j + 1 /\ (j + 1) + 1 = j + 2
        /\ h + (j + 1) \in (h + 1) .. (L - 1) /\ h + (j + 2) \in 1 .. L /\ h + (j + 2) # 1
        /\ (h + (j + 2)) - 1 = h + (j + 1)
    BY <1>1
  <2>2. PICK key \in BOOLEAN : reached[j + 1] = {place(j + 1, key)}
    <3> HIDE DEF place
    <3>1. j + 1 <= L - h => \E key \in BOOLEAN : reached[j + 1] = {place(j + 1, key)}
      BY DEF good
    <3> QED BY <2>1, <3>1
  <2> DEFINE p == Property(f, key)
  <2>3. p.complex /\ p.type = f.type /\ p.prefix = f.prefix
    BY <1>4, <2>1, PropertyOfField
  <2>4. Meant(p.type, name) = {g} /\ Clear(p.type, name)
    <3>1. Passed(m, h + (j + 2)) = f.type
      BY <2>1 DEF Passed
    <3> QED BY <1>3, <2>1, <2>3, <3>1
  <2>5. FindComplexField(p, name) = {Property(g, FALSE)}
    <3>1. name # "-"
      BY <1>1, <2>1
    <3> HIDE DEF p, name, g
    <3> QED BY <2>3, <2>4, <3>1, MeantIsEmbedded
  <2>6. Append(before(j + 1), f.prefix) = before(j + 2)
    <3> DEFINE S == {m.fields[h + i].prefix : i \in 1 .. j}
    <3>1. before(j + 1) = [i \in 1 .. j |-> m.fields[h + i].prefix]
      BY <2>1
    <3>2. before(j + 1) \in Seq(S) /\ Len(before(j + 1)) = j
      <4>1. before(j + 1) \in [1 .. j -> S]
        BY <3>1
      <4> HIDE DEF before, S
      <4> QED BY <2>1, <4>1
    <3>3. Append(before(j + 1), f.prefix) = [i \in 1 .. (j + 1) |-> IF i = j + 1 THEN f.prefix ELSE before(j + 1)[i]]
      <4> HIDE DEF before, S, f
      <4> QED BY <2>1, <3>2
    <3>4. before(j + 2) = [i \in 1 .. (j + 1) |-> m.fields[h + i].prefix]
      BY <2>1
    <3> QED BY <2>1, <3>1, <3>3, <3>4
  <2>7. FieldsWithin(reached[j + 1], name) = {[prop |-> Property(g, FALSE), prefixes |-> before(j + 2)]}
    <3> DEFINE r == place(j + 1, key)
    <3>1. r.prop = p /\ r.prefixes = before(j + 1)
      OBVIOUS
    <3> HIDE DEF before, r, p, g, name, place
    <3>2. reached[j + 1] = {r}
      BY <2>2 DEF r
    <3>3. Append(r.prefixes, r.prop.prefix) = before(j + 2)
      BY <2>3, <2>6, <3>1
    <3> DEFINE inner == Property(g, FALSE)
               after == before(j + 2)
    <3> HIDE DEF inner, after
    <3>4. FindComplexField(r.prop, name) = {inner}
      BY <2>5, <3>1 DEF inner
    <3>5. {[prop |-> q, prefixes |-> Append(r.prefixes, r.prop.prefix)] : q \in FindComplexField(r.prop, name)} =
            {[prop |-> inner, prefixes |-> after]}
      BY <3>3, <3>4 DEF after
    <3>6. FieldsWithin({r}, name) =
            {[prop |-> q, prefixes |-> Append(r.prefixes, r.prop.prefix)] : q \in FindComplexField(r.prop, name)}
      BY Zenon DEF FieldsWithin
    <3> QED BY <3>2, <3>5, <3>6 DEF inner, after
  <2>8. reached[j + 2] = {place(j + 2, FALSE)}
    <3>1. reached[j + 2] = FieldsWithin(reached[j + 1], rest[j + 2])
      BY <1>9, <2>1
    <3>2. rest[j + 2] = name
      BY <1>6, <2>1
    <3> QED BY <2>7, <3>1, <3>2
  <2> HIDE DEF place
  <2> QED BY <2>1, <2>8
<1>12. good \in SUBSET Nat
  OBVIOUS
<1> HIDE DEF good
<1>13. \A j \in Nat : j \in good
  BY <1>10, <1>11, <1>12, CountingOn
<1>14. (L - h) - 1 \in Nat /\ ((L - h) - 1) + 1 = L - h /\ h + (L - h) = L
  BY <1>1
<1>15. \E key \in BOOLEAN : reached[L - h] = {place(L - h, key)}
  <2>1. ((L - h) - 1) \in good
    BY <1>13, <1>14
  <2> HIDE DEF place
  <2> QED BY <1>1, <1>14, <2>1 DEF good
<1>16. ResolvePropertyPath(entities[k], rest) = reached[L - h]
  BY <1>6 DEF ResolvePropertyPath, reached
<1> QED BY <1>14, <1>15, <1>16 DEF path, L, h, rest

\* Paths lead where the declarations say.
LEMMA PathsAreFound == RegistryInv => PathsResolve
<1> SUFFICES ASSUME RegistryInv, NEW m \in Meanings,
                    NEW n \in Exposing(m.type), NEW k \in Exposing(Passed(m, m.h + 1)),
                    \A i \in 1 .. m.h : Cardinality(Exposing(m.fields[i].type)) = 1
                                        /\ ~Shadowed(m.fields[i].type)
             PROVE  Leads(n, m.path) =
                      {[name |-> m.fields[Len(m.path)].name, at |-> k,
                        prefixes |-> [i \in 1 .. (Len(m.path) - m.h - 1) |-> m.fields[m.h + i].prefix]]}
  BY DEF PathsResolve, Exposing
<1> DEFINE L == Len(m.path)
           rest == SubSeq(m.path, m.h + 1, L)
           f == m.fields[L]
           before == [i \in 1 .. (L - m.h - 1) |-> m.fields[m.h + i].prefix]
<1>1. L \in Nat /\ m.h \in 1 .. (L - 1) /\ Follows(m)
  BY MeaningsRead
<1>2. ASSUME NEW i \in 1 .. m.h PROVE \E l : Exposing(m.fields[i].type) = {l}
  <2>1. IsFiniteSet(Exposing(m.fields[i].type))
    <3>1. IsFiniteSet(DOMAIN entities)
      BY DEF RegistryInv
    <3> QED BY <3>1, FS_Subset DEF Exposing
  <2>2. Cardinality(Exposing(m.fields[i].type)) = 1
    OBVIOUS
  <2> HIDE DEF L, rest, f, before
  <2> QED BY <2>1, <2>2, FS_Singleton
<1>3. Passed(m, m.h + 1) = m.fields[m.h].type /\ m.h \in 1 .. m.h
  BY <1>1 DEF Passed
<1>4. Exposing(m.fields[m.h].type) = {k}
  BY <1>2, <1>3
<1>5. k \in DOMAIN entities /\ entities[k].type = Passed(m, m.h + 1)
  BY DEF Exposing
<1>6. ResolveSingleEntityNavigationPath(n, m.path) = {[at |-> k, rest |-> rest]}
  BY <1>2, <1>4, PathEnds
<1>7. PICK key \in BOOLEAN : ResolvePropertyPath(entities[k], rest) =
                               {[prop |-> Property(f, key), prefixes |-> before]}
  BY <1>5, PathReaches
<1>8. ~Property(f, key).nav /\ Property(f, key).name = f.name
  BY <1>1, PropertyOfField DEF Follows
<1> HIDE DEF L, rest, f, before
<1> DEFINE p == Property(f, key)
<1> HIDE DEF p
<1>9. {s \in ResolvePropertyPath(entities[k], rest) : ~s.prop.nav} = {[prop |-> p, prefixes |-> before]}
  BY <1>7, <1>8 DEF p
<1>10. p.name = f.name
  BY <1>8 DEF p
<1>11. Leads(n, m.path) = {[name |-> f.name, at |-> k, prefixes |-> before]}
  <2> DEFINE r == [at |-> k, rest |-> rest]
             s == [prop |-> p, prefixes |-> before]
  <2>1. r.at = k /\ r.rest = rest /\ s.prop = p /\ s.prefixes = before
    OBVIOUS
  <2> HIDE DEF r, s
  <2>2. ResolveSingleEntityNavigationPath(n, m.path) = {r}
    BY <1>6 DEF r
  <2>3. {x \in ResolvePropertyPath(entities[r.at], r.rest) : ~x.prop.nav} = {s}
    BY <1>9, <2>1 DEF s
  <2> QED BY <1>10, <2>1, <2>2, <2>3 DEF Leads
<1> QED BY <1>11 DEF L, f, before

\* The inductive invariant holds of every registry, whatever was registered.
THEOREM RegistryInvariant == ModelSpec => []RegistryInv
<1>1. ModelInit => RegistryInv
  <2> SUFFICES ASSUME ModelInit PROVE RegistryInv
    OBVIOUS
  <2>1. DOMAIN entities = {} /\ DOMAIN targets = {}
    BY DEF ModelInit, NoEntities
  <2> QED BY <2>1, FS_EmptySet DEF RegistryInv, IndexesAreComplete
<1>2. RegistryInv /\ [ModelNext]_(modelVars) => RegistryInv'
  <2>1. RegistryInv /\ UNCHANGED modelVars => RegistryInv'
    BY DEF modelVars, RegistryInv, IndexesAreComplete
  <2> QED BY <2>1, RegisterKeepsIndexes DEF ModelNext
<1> QED BY <1>1, <1>2, PTL DEF ModelSpec

\* In whatever order types are registered and maps are ranged over, the keys of
\* an entity are the fields declared as such, navigation leads to an entity of
\* its target type where one is registered, and a path of single navigations and
\* embedded structs leads to the column of its last field (AnalyzeEntity,
\* SetEntitiesRegistry, ResolveSingleEntityNavigationPath).
THEOREM DeclarationsAreFollowed == ModelSpec => []ModelFollowsDeclarations
<1>1. RegistryInv => ModelFollowsDeclarations
  BY KeysAreFound, TargetsAreFound, PathsAreFound DEF ModelFollowsDeclarations
<1>2. ModelSpec => []RegistryInv
  BY RegistryInvariant
<1> QED BY <1>1, <1>2, PTL

-----------------------------------------------------------------------------
(* The router.                                                             *)

\* The first of some overloads is one of them.
LEMMA FirstIsOne ==
  ASSUME NEW S \in SUBSET Nat, S # {}
  PROVE  First(S) \in S
BY LeastOf DEF First

\* An overload that is tried: it has the name, the kind and the binding asked for.
LEMMA CandidatesAreOverloads ==
  ASSUME RouterAssumption, NEW kind, NEW name, NEW bound, NEW set
  PROVE  Candidates(kind, name, bound, set) \in SUBSET Nat
BY DEF RouterAssumption, Candidates

\* What matches is among what was tried.
LEMMA MatchingAreCandidates ==
  ASSUME NEW req, NEW candidates
  PROVE  Matching(req, candidates) \subseteq candidates
BY DEF Matching

\* What a request with exactly the parameters of a candidate is answered by.
LEMMA MatchingFits ==
  ASSUME RouterAssumption, NEW req, req.system = {},
         NEW S, IsFiniteSet(S), NEW m \in Matching(req, S),
         NEW i \in S, Overloads[i].required = Provided(req)
  PROVE  NamesMatch(Overloads[m], Provided(req))
<1>1. CASE Cardinality(S) = 1
  <2>1. m = i
    BY <1>1, FS_Singleton DEF Matching
  <2> QED BY <2>1 DEF NamesMatch, Known
<1>2. CASE Cardinality(S) # 1
  <2>1. Provided(req) \cup (IF req.method = "POST" THEN {} ELSE req.system) = Provided(req)
    OBVIOUS
  <2> QED BY <1>2, <2>1 DEF Matching
<1> QED BY <1>1, <1>2

\* The overload that is chosen is one of those that match.
LEMMA ResolvedMatches ==
  ASSUME RouterAssumption, NEW req, NEW kind, NEW name, NEW bound, NEW set,
         NEW def, def = resolveInvocation(req, kind, name, bound, set), def # -404, def # -400
  PROVE  def \in Matching(req, Candidates(kind, name, bound, set))
<1> DEFINE S == Candidates(kind, name, bound, set)
<1>1. Matching(req, S) # {} /\ def = First(Matching(req, S))
  BY DEF resolveInvocation
<1>2. S \in SUBSET Nat
  BY CandidatesAreOverloads
<1>3. Matching(req, S) \subseteq S
  BY MatchingAreCandidates
<1>4. Matching(req, S) \in SUBSET Nat
  BY <1>2, <1>3
<1> QED BY <1>1, <1>4, FirstIsOne

\* An answer from HandleActionOrFunction: an operation of that name, chosen among
\* the overloads by the parameters, or an error.
LEMMA OperationAnswer ==
  ASSUME RouterAssumption, NEW req, NEW name, NEW key, NEW bound, NEW set, NEW count,
         NEW r, r = HandleActionOrFunction(req, name, key, bound, set, count),
         r.to \in {"action", "function"}
  PROVE  /\ r.seg.name = name
         /\ \E kind : r.def \in Matching(req, Candidates(kind, name, bound, set))
<1>1. PICK kind, def, mark :
        /\ r = [Reply(kind, set, key, Word(name), mark) EXCEPT !.def = def]
        /\ def = resolveInvocation(req, kind, name, bound, set)
        /\ def # -404 /\ def # -400
  <2> DEFINE kind == IF req.method = "POST" THEN "action" ELSE "function"
             mark == IF count THEN "$count" ELSE Unset
             def == resolveInvocation(req, kind, name, bound, set)
  <2>1. /\ r = [Reply(kind, set, key, Word(name), mark) EXCEPT !.def = def]
        /\ def # -404 /\ def # -400
    BY DEF HandleActionOrFunction, Status, Whole, Reply
  <2>2. def = resolveInvocation(req, kind, name, bound, set)
    OBVIOUS
  <2> HIDE DEF kind, mark, def
  <2> QED BY <2>1, <2>2
<1>2. r.seg = Word(name) /\ r.def = def
  BY <1>1 DEF Reply
<1>3. r.seg.name = name
  BY <1>2 DEF Word, Seg
<1>4. def \in Matching(req, Candidates(kind, name, bound, set))
  BY <1>1, ResolvedMatches
<1> QED BY <1>2, <1>3, <1>4

\* The k-th member of a set of places, by the number of members up to it.
LEMMA PlacesAreCounted ==
  ASSUME NEW n \in Nat, NEW S \in SUBSET (1 .. n), NEW k \in 1 .. Cardinality(S)
  PROVE  \E i \in S : Cardinality({j \in S : j <= i}) = k
<1> DEFINE Upto(i) == {j \in S : j <= i}
           f == [i \in S |-> Cardinality(Upto(i))]
<1>1. IsFiniteSet(S) /\ Cardinality(S) \in Nat
  <2>1. IsFiniteSet(1 .. n)
    BY FS_Interval
  <2>2. IsFiniteSet(S)
    BY <2>1, FS_Subset
  <2> QED BY <2>2, FS_CardinalityType
<1>2. \A i \in S : IsFiniteSet(Upto(i)) /\ Cardinality(Upto(i)) \in 1 .. Cardinality(S)
  <2> TAKE i \in S
  <2>1. Upto(i) \in SUBSET S /\ i \in Upto(i)
    OBVIOUS
  <2>2. IsFiniteSet(Upto(i)) /\ Cardinality(Upto(i)) <= Cardinality(S)
    BY <1>1, <2>1, FS_Subset
  <2>3. Cardinality(Upto(i)) \in Nat /\ Cardinality(Upto(i)) # 0
    BY <2>1, <2>2, FS_CardinalityType, FS_EmptySet
  <2> HIDE DEF Upto
  <2> QED BY <1>1, <2>2, <2>3
<1>3. \A i, l \in S : i < l => Cardinality(Upto(i)) # Cardinality(Upto(l))
  <2> SUFFICES ASSUME NEW i \in S, NEW l \in S, i < l
               PROVE  Cardinality(Upto(i)) # Cardinality(Upto(l))
    OBVIOUS
  <2>1. Upto(i) \in SUBSET Upto(l)
    <3>1. i \in Nat /\ l \in Nat /\ \A j \in S : j \in Nat
      OBVIOUS
    <3>2. \A j \in S : j <= i => j <= l
      BY <3>1
    <3> QED BY <3>2
  <2>2. l \in Upto(l) /\ l \notin Upto(i)
    OBVIOUS
  <2>3. Upto(i) # Upto(l)
    BY <2>2
  <2>4. IsFiniteSet(Upto(l))
    BY <1>2
  <2> HIDE DEF Upto
  <2> QED BY <2>1, <2>3, <2>4, FS_Subset
<1>4. f \in Injection(S, 1 .. Cardinality(S))
  <2>1. f \in [S -> 1 .. Cardinality(S)]
    BY <1>2
  <2>2. \A i, l \in S : i \in Nat /\ l \in Nat
    OBVIOUS
  <2> HIDE DEF Upto
  <2>3. \A i, l \in S : f[i] = f[l] => i = l
    BY <1>3, <2>2
  <2> HIDE DEF f
  <2> QED BY <2>1, <2>3, Fun_IsInj
<1>5. IsFiniteSet(1 .. Cardinality(S)) /\ Cardinality(1 .. Cardinality(S)) = Cardinality(S)
  BY <1>1, FS_Interval
<1>6. f \in Surjection(S, 1 .. Cardinality(S))
  <2> HIDE DEF f
  <2> QED BY <1>4, <1>5, FS_Injection
<1>7. \E i \in S : f[i] = k
  <2> HIDE DEF f
  <2> QED BY <1>6 DEF Surjection
<1> QED BY <1>7

\* What is left of a path without its markers is some of its segments.
LEMMA NonMarkersAreSegments ==
  ASSUME NEW segs \in Seq(Segments)
  PROVE  /\ NonMarkers(segs) \in Seq(Segments)
         /\ \A k \in DOMAIN NonMarkers(segs) : \E i \in DOMAIN segs : NonMarkers(segs)[k] = segs[i]
<1> DEFINE kept == {i \in DOMAIN segs : ~IsMarker(segs[i])}
           place(k) == CHOOSE i \in kept : Cardinality({j \in kept : j <= i}) = k
<1>1. Len(segs) \in Nat /\ kept \in SUBSET (1 .. Len(segs)) /\ DOMAIN segs = 1 .. Len(segs)
  OBVIOUS
<1>2. Cardinality(kept) \in Nat
  <2>1. IsFiniteSet(1 .. Len(segs))
    BY <1>1, FS_Interval
  <2>2. IsFiniteSet(kept)
    <3> HIDE DEF kept
    <3> QED BY <1>1, <2>1, FS_Subset
  <2> HIDE DEF kept
  <2> QED BY <2>2, FS_CardinalityType
<1>3. \A k \in 1 .. Cardinality(kept) : place(k) \in kept
  <2> TAKE k \in 1 .. Cardinality(kept)
  <2>1. \E i \in kept : Cardinality({j \in kept : j <= i}) = k
    <3> HIDE DEF kept
    <3> QED BY <1>1, PlacesAreCounted
  <2> HIDE DEF kept
  <2> QED BY <2>1
<1>4. NonMarkers(segs) = [k \in 1 .. Cardinality(kept) |-> segs[place(k)]]
  BY DEF NonMarkers
<1>5. \A i \in kept : i \in DOMAIN segs /\ segs[i] \in Segments
  OBVIOUS
<1> HIDE DEF kept, place
<1>6. DOMAIN NonMarkers(segs) = 1 .. Cardinality(kept)
  BY <1>4
<1>7. \A k \in DOMAIN NonMarkers(segs) : NonMarkers(segs)[k] = segs[place(k)]
  BY <1>4, <1>6
<1>8. NonMarkers(segs) \in Seq(Segments)
  <2>1. NonMarkers(segs) \in [1 .. Cardinality(kept) -> Segments]
    BY <1>3, <1>4, <1>5
  <2> HIDE DEF Segments
  <2> QED BY <1>2, <2>1
<1> QED BY <1>3, <1>5, <1>6, <1>7, <1>8

\* What is to be shown of an answer: an operation it invokes is named by the path
\* and fits the parameters.
Shaped(r) ==
  r = [to |-> r.to, set |-> r.set, key |-> r.key, seg |-> r.seg, mark |-> r.mark,
       cast |-> r.cast, def |-> r.def]
Invokes(r) == r.to \in {"action", "function"}
NamedIn(path, name) == \E i \in DOMAIN path : path[i].name = name /\ path[i].ns \in {Unset, Namespace}
Fits(req, r) ==
  LET d == Overloads[r.def] same == Candidates(d.kind, d.name, d.bound, d.set) IN
  (\E i \in same : Overloads[i].required = Provided(req)) => NamesMatch(d, Provided(req))
IsRight(req, r) ==
  Shaped(r) /\ (Invokes(r) => NamedIn(req.path, r.seg.name) /\ (req.system = {} => Fits(req, r)))

\* A reply has all the parts of one.
LEMMA RepliesAreShaped ==
  ASSUME NEW to, NEW set, NEW key, NEW seg, NEW mark
  PROVE  /\ Shaped(Reply(to, set, key, seg, mark))
         /\ \A x : Shaped([Reply(to, set, key, seg, mark) EXCEPT !.def = x])
         /\ Reply(to, set, key, seg, mark).to = to
BY DEF Shaped, Reply

\* An error or a handler that is no operation.
LEMMA OtherRepliesAreRight ==
  ASSUME NEW req, NEW to, to \notin {"action", "function"}, NEW set, NEW key, NEW seg, NEW mark
  PROVE  IsRight(req, Reply(to, set, key, seg, mark))
BY RepliesAreShaped DEF IsRight, Invokes

\* An error is no operation.
LEMMA StatusIsRight ==
  ASSUME NEW req, NEW code, code \notin {"action", "function"}
  PROVE  IsRight(req, Status(code))
BY OtherRepliesAreRight DEF Status, Whole

\* Nor is a handler of a whole set, entity or singleton.
LEMMA WholeIsRight ==
  ASSUME NEW req, NEW to, to \notin {"action", "function"}, NEW set, NEW key
  PROVE  IsRight(req, Whole(to, set, key))
BY OtherRepliesAreRight DEF Whole

\* Of the candidates for one call each is a candidate for any of them.
LEMMA SameCandidates ==
  ASSUME NEW kind, NEW name, NEW bound \in BOOLEAN, NEW set,
         NEW m \in Candidates(kind, name, bound, set)
  PROVE  LET d == Overloads[m] IN
         Candidates(d.kind, d.name, d.bound, d.set) = Candidates(kind, name, bound, set)
BY DEF Candidates

\* An invocation under a name of the path is as it is to be.
LEMMA OperationIsRight ==
  ASSUME RouterAssumption, NEW req, NEW name, NEW key, NEW bound \in BOOLEAN, NEW set, NEW count,
         NamedIn(req.path, name)
  PROVE  IsRight(req, HandleActionOrFunction(req, name, key, bound, set, count))
<1> DEFINE r == HandleActionOrFunction(req, name, key, bound, set, count)
<1>1. Shaped(r)
  <2>1. \A to, k, sg, mark, x : Shaped(Reply(to, set, k, sg, mark)) /\ Shaped(Reply(to, Unset, k, sg, mark))
                       /\ Shaped([Reply(to, set, k, sg, mark) EXCEPT !.def = x])
    BY RepliesAreShaped
  <2> QED BY <2>1 DEF HandleActionOrFunction, Status, Whole
<1>2. ASSUME Invokes(r)
      PROVE  NamedIn(req.path, r.seg.name) /\ (req.system = {} => Fits(req, r))
  <2>1. r.seg.name = name
    BY <1>2, OperationAnswer DEF Invokes
  <2>2. PICK kind : r.def \in Matching(req, Candidates(kind, name, bound, set))
    BY <1>2, OperationAnswer DEF Invokes
  <2> DEFINE S == Candidates(kind, name, bound, set)
  <2>3. r.def \in S /\ IsFiniteSet(S)
    <3>1. S \subseteq 1 .. Len(Overloads) /\ Len(Overloads) \in Nat
      BY DEF Candidates, RouterAssumption
    <3>2. IsFiniteSet(1 .. Len(Overloads))
      BY <3>1, FS_Interval
    <3> QED BY <2>2, <3>1, <3>2, FS_Subset, MatchingAreCandidates
  <2>4. req.system = {} => Fits(req, r)
    <3> SUFFICES ASSUME req.system = {}, NEW i \in S, Overloads[i].required = Provided(req)
                 PROVE  NamesMatch(Overloads[r.def], Provided(req))
      BY <2>3, SameCandidates DEF Fits
    <3> HIDE DEF r, S
    <3> QED BY <2>2, <2>3, MatchingFits DEF S
  <2> QED BY <2>1, <2>4
<1> HIDE DEF r
<1> QED BY <1>1, <1>2 DEF r, IsRight

-----------------------------------------------------------------------------
(* What the router reads of a path stands in it.                           *)

\* A segment that stands in the path, as it is spelled or read as bare.
StandsIn(path, seg) ==
  \E i \in DOMAIN path : path[i].name = seg.name
    /\ (path[i].ns = seg.ns \/ (seg.ns = Unset /\ path[i].ns = Namespace))
Pieces == Segments \cup {Word(name) : name \in STRING}
AllStandIn(path, segs) == segs \in Seq(Pieces) /\ \A k \in DOMAIN segs : StandsIn(path, segs[k])

\* A segment that resolves names an operation as the property asks.
LEMMA ResolvedSegmentNames ==
  ASSUME NEW path, NEW seg, StandsIn(path, seg), resolves(seg)
  PROVE  NamedIn(path, seg.name)
BY DEF StandsIn, resolves, NamedIn

\* The last step of handlePropertyRequest.
LEMMA PropertyRequestIsRight ==
  ASSUME RouterAssumption, NEW req, NEW h, NEW key, NEW flags,
         NEW segs, segs # <<>>, AllStandIn(req.path, segs)
  PROVE  IsRight(req, servePropertyRequest(req, h, key, segs, flags))
<1> DEFINE r == servePropertyRequest(req, h, key, segs, flags)
           first == segs[1]
           last == segs[Len(segs)]
<1>1. StandsIn(req.path, first) /\ StandsIn(req.path, last)
  BY DEF AllStandIn
<1>2. CASE isBoundOperationSegment(first)
  <2>1. r = HandleActionOrFunction(req, resolveBoundName(first), key, TRUE, h, FALSE)
    BY <1>2 DEF servePropertyRequest
  <2>2. NamedIn(req.path, resolveBoundName(first))
    BY <1>1, <1>2, ResolvedSegmentNames DEF isBoundOperationSegment, resolveBoundName
  <2> QED BY <2>1, <2>2, OperationIsRight
<1>3. CASE /\ ~isBoundOperationSegment(first) /\ ~isNavigationWithKey(h, segs)
           /\ Len(segs) > 1 /\ IsNavigationProperty(h, first) /\ endsInOperation(segs)
  <2>1. r = HandleActionOrFunction(req, last.name, <<>>, TRUE, NavigationTargetSet(h, first), FALSE)
    BY <1>3 DEF servePropertyRequest
  <2>2. NamedIn(req.path, last.name)
    BY <1>1, <1>3, ResolvedSegmentNames DEF endsInOperation
  <2> QED BY <2>1, <2>2, OperationIsRight
<1>4. CASE /\ ~isBoundOperationSegment(first)
           /\ ~(/\ ~isNavigationWithKey(h, segs) /\ Len(segs) > 1
                /\ IsNavigationProperty(h, first) /\ endsInOperation(segs))
  <2>1. PICK seg, mark, to, code :
          /\ to \notin {"action", "function"} /\ code \notin {"action", "function"}
          /\ r = Reply(to, h, key, seg, mark) \/ r = Status(code)
    <3> DEFINE seg == IF isNavigationWithKey(h, segs)
                        THEN [first EXCEPT !.call = IF @ = Blank THEN last.name ELSE "malformed"] ELSE first
               to == IF IsNavigationProperty(h, first) \/ isNavigationWithKey(h, segs) THEN "navigation"
                     ELSE IF IsStreamProperty(h, first) THEN "stream"
                     ELSE IF IsStructuralProperty(h, first) THEN "structural" ELSE "complex"
               ref == IF flags.ref THEN "$ref" ELSE Unset
               value == IF flags.value THEN "$value" ELSE Unset
    <3>1. to \notin {"action", "function"}
      OBVIOUS
    <3>2. r \in {Status("400"), Status("500"), Status("404"), Reply(to, h, key, seg, ref),
                 Reply(to, h, key, seg, value)}
      BY <1>4 DEF servePropertyRequest, IsProperty, isNavigationWithKey
    <3> HIDE DEF to, seg, ref, value, r
    <3> QED BY <3>1, <3>2
  <2>2. IsRight(req, Status(code)) /\ IsRight(req, Reply(to, h, key, seg, mark))
    BY <2>1, StatusIsRight, OtherRepliesAreRight
  <2> QED BY <2>1, <2>2
<1> QED BY <1>2, <1>3, <1>4

\* The entity that a chain of single-valued navigations leads to.
LEMMA ChainEnds ==
  ASSUME NEW h, NEW segs \in Seq(Pieces), segs # <<>>, NEW set
  PROVE  \E n \in 1 .. Len(segs) : /\ ~chains(set[n], Rest(segs, n))
                                   /\ \A j \in 1 .. (n - 1) : chains(set[j], Rest(segs, j))
<1> DEFINE E == {n \in 1 .. Len(segs) : ~chains(set[n], Rest(segs, n))}
<1>1. Len(segs) \in Nat /\ Len(segs) >= 1
  OBVIOUS
<1>2. Len(segs) \in E
  <2>1. Rest(segs, Len(segs)) = SubSeq(segs, Len(segs), Len(segs))
    BY DEF Rest
  <2> HIDE DEF Pieces
  <2>2. Len(Rest(segs, Len(segs))) = 1
    BY <1>1, <2>1
  <2>3. ~chains(set[Len(segs)], Rest(segs, Len(segs)))
    BY <2>2 DEF chains
  <2> QED BY <1>1, <2>3
<1>3. E \in SUBSET Nat /\ E # {}
  BY <1>2
<1>4. PICK n \in E : \A m \in E : n <= m
  <2> HIDE DEF E
  <2> QED BY <1>3, LeastOf
<1>5. \A j \in 1 .. (n - 1) : j \in 1 .. Len(segs) /\ ~(n <= j)
  BY <1>1
<1> QED BY <1>4, <1>5

\* What is left behind a chain stands in the path, too.
LEMMA RestsStandIn ==
  ASSUME NEW path, NEW segs, AllStandIn(path, segs), NEW n \in 1 .. Len(segs)
  PROVE  Rest(segs, n) # <<>> /\ AllStandIn(path, Rest(segs, n))
<1>1. segs \in Seq(Pieces) /\ Len(segs) \in Nat
  BY DEF AllStandIn
<1> DEFINE rest == SubSeq(segs, n, Len(segs))
<1>2. rest \in Seq(Pieces) /\ Len(rest) = Len(segs) - n + 1 /\ \A k \in 1 .. Len(rest) : rest[k] = segs[n + k - 1]
  <2> HIDE DEF Pieces
  <2> QED BY <1>1
<1>3. \A k \in DOMAIN rest : rest[k] = segs[n + k - 1] /\ n + k - 1 \in DOMAIN segs
  <2> HIDE DEF rest, Pieces
  <2> QED BY <1>1, <1>2
<1>4. rest # <<>>
  <2> HIDE DEF rest
  <2> QED BY <1>1, <1>2
<1> HIDE DEF rest
<1>5. AllStandIn(path, rest)
  BY <1>2, <1>3 DEF AllStandIn
<1> QED BY <1>4, <1>5 DEF rest, Rest

\* handlePropertyRequest, wherever its chain ends.
LEMMA ChainedRequestIsRight ==
  ASSUME RouterAssumption, NEW req, NEW h, NEW key, NEW flags,
         NEW segs, segs # <<>>, AllStandIn(req.path, segs)
  PROVE  IsRight(req, handlePropertyRequest(req, h, key, segs, flags))
<1>1. PICK n, g, k, f :
        n \in 1 .. Len(segs) /\
        handlePropertyRequest(req, h, key, segs, flags) = servePropertyRequest(req, g, k, Rest(segs, n), f)
  <2> DEFINE set[i \in 1..Len(segs)] == IF i = 1 THEN h ELSE NavigationTargetSet(set[i - 1], segs[i - 1])
             ends(i) == ~chains(set[i], Rest(segs, i))
             n == CHOOSE i \in 1..Len(segs) : ends(i) /\ \A j \in 1..(i - 1) : ~ends(j)
             k == key \o [i \in 1..(n - 1) |-> segs[i].name]
             f == [flags EXCEPT !.value = @ /\ n = 1]
  <2>1. handlePropertyRequest(req, h, key, segs, flags) = servePropertyRequest(req, set[n], k, Rest(segs, n), f)
    BY DEF handlePropertyRequest
  <2> HIDE DEF set
  <2>2. n \in 1 .. Len(segs)
    BY ChainEnds DEF AllStandIn
  <2> HIDE DEF n, k, f
  <2> QED BY <2>1, <2>2
<1>2. Rest(segs, n) # <<>> /\ AllStandIn(req.path, Rest(segs, n))
  BY <1>1, RestsStandIn
<1> QED BY <1>1, <1>2, PropertyRequestIsRight

\* What the parser makes of a path has these parts.
Components(c) ==
  c = [set |-> c.set, key |-> c.key, cast |-> c.cast, segs |-> c.segs,
       count |-> c.count, ref |-> c.ref, value |-> c.value]

\* The segments that the parser keeps stand in the path.
LEMMA SegmentsOfPath ==
  ASSUME NEW path \in Seq(Segments), path # <<>>
  PROVE  LET c == Reinterpreted(ParseODataURLComponents(path)) IN
         Components(c) /\ AllStandIn(path, c.segs)
<1> DEFINE p == ParseODataURLComponents(path)
           cast == Len(path) > 1 /\ isTypeCastSegment(path[2])
           from == IF cast THEN 3 ELSE 2
           rest == Rest(path, from)
           seen == IF rest # <<>> /\ IsMarker(rest[1]) THEN <<rest[1]>> ELSE rest
<1>1. /\ Components(p) /\ p.segs = NonMarkers(seen) /\ p.cast = (IF cast THEN <<path[2]>> ELSE <<>>)
  BY DEF ParseODataURLComponents, Components
<1>2. Len(path) \in Nat /\ Len(path) >= 1 /\ (cast => Len(path) >= 2)
  OBVIOUS
<1>3. rest \in Seq(Segments) /\ \A k \in DOMAIN rest : \E i \in DOMAIN path : rest[k] = path[i]
  <2>1. from \in 1 .. (Len(path) + 1)
    BY <1>2
  <2> HIDE DEF from, Segments
  <2>2. rest = SubSeq(path, from, Len(path))
    BY DEF Rest
  <2>3. rest \in Seq(Segments) /\ \A k \in 1 .. Len(rest) : rest[k] = path[from + k - 1]
    BY <1>2, <2>1, <2>2
  <2>4. Len(rest) = Len(path) - from + 1
    BY <1>2, <2>1, <2>2
  <2> HIDE DEF rest
  <2> QED BY <1>2, <2>1, <2>3, <2>4
<1>4. seen \in Seq(Segments) /\ \A k \in DOMAIN seen : \E i \in DOMAIN path : seen[k] = path[i]
  <2> HIDE DEF rest, Segments
  <2> QED BY <1>3
<1>5. AllStandIn(path, p.segs)
  <2> HIDE DEF p, rest, seen, Segments
  <2>1. p.segs \in Seq(Segments)
    BY <1>1, <1>4, NonMarkersAreSegments
  <2>2. \A k \in DOMAIN p.segs : \E i \in DOMAIN path : p.segs[k] = path[i]
    BY <1>1, <1>4, NonMarkersAreSegments
  <2>3. p.segs \in Seq(Pieces)
    <3>1. Segments \subseteq Pieces
      BY DEF Pieces
    <3> HIDE DEF Pieces
    <3> QED BY <2>1, <3>1
  <2> HIDE DEF Pieces
  <2> QED BY <2>2, <2>3 DEF AllStandIn, StandsIn
<1>6. CASE p.cast # <<>> /\ p.segs = <<>> /\ isBoundOperationSegment(p.cast[1])
  <2>1. cast /\ p.cast = <<path[2]>> /\ path[2] \in Segments /\ 2 \in DOMAIN path
    BY <1>1, <1>2, <1>6
  <2>2. resolves(path[2])
    BY <1>6, <2>1 DEF isBoundOperationSegment
  <2>3. Reinterpreted(p) = [p EXCEPT !.cast = <<>>, !.segs = <<Word(path[2].name)>>]
    BY <1>6, <2>1 DEF Reinterpreted
  <2> HIDE DEF p
  <2>4. Components(Reinterpreted(p)) /\ Reinterpreted(p).segs = <<Word(path[2].name)>>
    BY <1>1, <2>3 DEF Components
  <2>5. Word(path[2].name) \in Pieces
    BY <2>1 DEF Segments, Pieces
  <2>6. StandsIn(path, Word(path[2].name))
    BY <2>1, <2>2 DEF StandsIn, Word, Seg, resolves
  <2>7. AllStandIn(path, <<Word(path[2].name)>>)
    <3> HIDE DEF Pieces
    <3> QED BY <2>5, <2>6 DEF AllStandIn
  <2> QED BY <2>4, <2>7 DEF p
<1>7. CASE ~(p.cast # <<>> /\ p.segs = <<>> /\ isBoundOperationSegment(p.cast[1]))
  <2>1. Reinterpreted(p) = p
    BY <1>7 DEF Reinterpreted
  <2> QED BY <1>1, <1>5, <2>1
<1> QED BY <1>6, <1>7

\* Reading the first segment as the key leaves segments of the path.
LEMMA KeyAsSegmentKeepsSegments ==
  ASSUME NEW path, NEW h, NEW c, Components(c), AllStandIn(path, c.segs)
  PROVE  AllStandIn(path, resolveKeyAsSegment(h, c).segs)
<1>1. CASE resolveKeyAsSegment(h, c) = c
  BY <1>1
<1>2. CASE /\ resolveKeyAsSegment(h, c) = [c EXCEPT !.key = <<c.segs[1].name>>, !.segs = Tail(c.segs)]
           /\ c.segs # <<>>
  <2>1. resolveKeyAsSegment(h, c).segs = Tail(c.segs)
    BY <1>2 DEF Components
  <2>2. c.segs \in Seq(Pieces)
    BY DEF AllStandIn
  <2> HIDE DEF Pieces
  <2>3. /\ Tail(c.segs) \in Seq(Pieces)
        /\ \A k \in DOMAIN Tail(c.segs) : k + 1 \in DOMAIN c.segs /\ Tail(c.segs)[k] = c.segs[k + 1]
    BY <1>2, <2>2
  <2> QED BY <2>1, <2>3 DEF AllStandIn
<1> QED BY <1>1, <1>2 DEF resolveKeyAsSegment

\* Dispatch, over keys, markers, properties and operations.
LEMMA RoutedRequestIsRight ==
  ASSUME RouterAssumption, NEW req, NEW h, NEW parsed, Components(parsed), AllStandIn(req.path, parsed.segs)
  PROVE  IsRight(req, routeRequest(req, h, parsed))
<1> DEFINE c == resolveKeyAsSegment(h, parsed)
           r == routeRequest(req, h, parsed)
<1>1. AllStandIn(req.path, c.segs)
  BY KeyAsSegmentKeepsSegments
<1>2. c.segs # <<>> => StandsIn(req.path, c.segs[1])
  <2> HIDE DEF c, Pieces
  <2> QED BY <1>1 DEF AllStandIn
<1>3. CASE /\ c.count /\ c.key # <<>> /\ c.segs # <<>> /\ isOperationAsSpelled(c.segs[1])
  <2>1. r = HandleActionOrFunction(req, c.segs[1].name, c.key, TRUE, h, TRUE)
    BY <1>3 DEF routeRequest
  <2>2. NamedIn(req.path, c.segs[1].name)
    BY <1>2, <1>3, ResolvedSegmentNames DEF isOperationAsSpelled, resolves
  <2> QED BY <2>1, <2>2, OperationIsRight
<1>4. CASE /\ ~c.count /\ ~(c.ref /\ c.segs = <<>>)
           /\ c.segs # <<>> /\ (c.ref \/ Handlers[h].singleton \/ c.key # <<>>)
  <2>1. r = handlePropertyRequest(req, h, c.key, c.segs, [ref |-> c.ref, value |-> c.value])
    BY <1>4 DEF routeRequest
  <2> HIDE DEF c, r
  <2> QED BY <1>1, <1>4, <2>1, ChainedRequestIsRight DEF r
<1>5. CASE /\ ~c.count /\ ~c.ref /\ ~Handlers[h].singleton /\ c.key = <<>> /\ ~c.value
           /\ c.segs # <<>> /\ isBoundOperationSegment(c.segs[1])
  <2>1. r = HandleActionOrFunction(req, resolveBoundName(c.segs[1]), <<>>, TRUE, h, FALSE)
    BY <1>5 DEF routeRequest
  <2>2. NamedIn(req.path, resolveBoundName(c.segs[1]))
    BY <1>2, <1>5, ResolvedSegmentNames DEF isBoundOperationSegment, resolveBoundName
  <2> QED BY <2>1, <2>2, OperationIsRight
<1>6. CASE /\ ~(c.count /\ c.key # <<>> /\ c.segs # <<>> /\ isOperationAsSpelled(c.segs[1]))
           /\ ~(/\ ~c.count /\ ~(c.ref /\ c.segs = <<>>)
                /\ c.segs # <<>> /\ (c.ref \/ Handlers[h].singleton \/ c.key # <<>>))
           /\ ~(/\ ~c.count /\ ~c.ref /\ ~Handlers[h].singleton /\ c.key = <<>> /\ ~c.value
                /\ c.segs # <<>> /\ isBoundOperationSegment(c.segs[1]))
  <2>1. r \in {Reply("navigation count", h, c.key, c.segs[1], Unset), Whole("count", h, <<>>),
               Status("400"), Status("404"), Whole("collection ref", h, c.key), Whole("entity ref", h, c.key),
               Whole("singleton", h, <<>>), Whole("media", h, c.key), Whole("entity", h, c.key),
               Whole("collection", h, <<>>)}
    <3> DEFINE ref == IF c.key = <<>> THEN "collection ref" ELSE "entity ref"
               one == IF c.value THEN "media" ELSE "entity"
    <3>1. r \in {Reply("navigation count", h, c.key, c.segs[1], Unset), Whole("count", h, <<>>),
               Status("400"), Status("404"), Whole(ref, h, c.key),
               Whole("singleton", h, <<>>), Whole(one, h, c.key),
               Whole("collection", h, <<>>)}
      <4> HIDE DEF c
      <4> QED BY <1>6 DEF routeRequest, c
    <3>2. ref \in {"collection ref", "entity ref"} /\ one \in {"media", "entity"}
      OBVIOUS
    <3> HIDE DEF ref, one, r, c
    <3> QED BY <3>1, <3>2
  <2> HIDE DEF r, c
  <2>2. IsRight(req, r)
    BY <2>1, OtherRepliesAreRight, WholeIsRight, StatusIsRight
  <2> QED BY <2>2 DEF r
<1> QED BY <1>3, <1>4, <1>5, <1>6

\* A request for anything but a resource of the service itself.
LEMMA ResourceIsRight ==
  ASSUME RouterAssumption, NEW req, req.path \in Seq(Segments), req.path # <<>>
  PROVE  IsRight(req, Resource(req))
<1> DEFINE c == Reinterpreted(ParseODataURLComponents(req.path))
           r == Resource(req)
<1>1. Components(c) /\ AllStandIn(req.path, c.segs)
  BY SegmentsOfPath
<1>2. CASE AtRoot(req)
  <2>1. resolves(req.path[1]) /\ 1 \in DOMAIN req.path
    BY <1>2 DEF AtRoot, isBoundOperationSegment
  <2>2. NamedIn(req.path, resolveBoundName(req.path[1]))
    BY <2>1 DEF NamedIn, resolves, resolveBoundName
  <2>3. r = HandleActionOrFunction(req, resolveBoundName(req.path[1]), <<>>, FALSE, Unset,
                                   req.method = "GET" /\ Composed(req.path))
    BY <1>2 DEF Resource
  <2> HIDE DEF r
  <2> QED BY <2>2, <2>3, OperationIsRight DEF r
<1>3. CASE ~AtRoot(req)
  <2> DEFINE routed == routeRequest(req, c.set, c)
  <2>1. IsRight(req, routed)
    <3> HIDE DEF c
    <3> QED BY <1>1, RoutedRequestIsRight
  <2>2. r = Status("404") \/ r = routed \/ r = [routed EXCEPT !.cast = c.cast[1].name]
    <3> HIDE DEF c
    <3> QED BY <1>3 DEF Resource, c
  <2>3. IsRight(req, Status("404"))
    BY StatusIsRight
  <2> HIDE DEF routed, r, c
  <2>4. ASSUME r = [routed EXCEPT !.cast = c.cast[1].name]
        PROVE  IsRight(req, r)
    <3>1. Shaped(r) /\ r.to = routed.to /\ r.seg = routed.seg /\ r.def = routed.def
      BY <2>1, <2>4 DEF IsRight, Shaped
    <3> QED BY <2>1, <3>1 DEF IsRight, Invokes, Fits
  <2> QED BY <2>1, <2>2, <2>3, <2>4 DEF r
<1> QED BY <1>2, <1>3

\* The resources of the service itself are told by single segments.
LEMMA ServiceResources ==
  ASSUME NEW path
  PROVE  /\ ServiceResource(path) \notin {"action", "function"}
         /\ ServiceResource(path) = "dereference" <=> path = <<Word("$entity")>>
         /\ ServiceResource(path) = "none" => path # <<>>
<1>1. Word("$metadata") # Word("$entity") /\ Word("$batch") # Word("$entity")
  BY DEF Word, Seg
<1> QED BY <1>1 DEF ServiceResource

\* The requests that are served, with what each has.
RequestShaped(req) ==
  /\ req = [method |-> req.method, path |-> req.path, id |-> req.id, system |-> req.system,
            max |-> req.max, params |-> req.params, body |-> req.body]
  /\ req.path \in Seq(Segments) /\ req.id \in Seq(Segments)
  /\ req.method \in {"GET", "POST", "PUT"}

\* $entity is answered like the URL of its $id.
LEMMA DereferenceIsRight ==
  ASSUME RouterAssumption, NEW req, RequestShaped(req)
  PROVE  IsRight([req EXCEPT !.path = req.id], handleEntityDereference(req))
<1> DEFINE target == [req EXCEPT !.path = req.id, !.id = <<>>]
           named == [req EXCEPT !.path = req.id]
           r == handleEntityDereference(req)
<1>1. /\ target.path = req.id /\ named.path = req.id
      /\ target.method = req.method /\ named.method = req.method
      /\ target.params = req.params /\ named.params = req.params
      /\ target.body = req.body /\ named.body = req.body
      /\ target.system = req.system /\ named.system = req.system
  BY DEF RequestShaped
<1>2. \/ r \in {Status("405"), Status("400"), Status(ServiceResource(req.id))}
      \/ req.id # <<>> /\ r = Resource(target)
  <2> HIDE DEF target
  <2> QED BY <1>1 DEF handleEntityDereference, target
<1> HIDE DEF target, named, r
<1>3. CASE r \in {Status("405"), Status("400"), Status(ServiceResource(req.id))}
  BY <1>3, StatusIsRight, ServiceResources DEF named, r
<1>4. CASE req.id # <<>> /\ r = Resource(target)
  <2>1. IsRight(target, r)
    BY <1>1, <1>4, ResourceIsRight DEF RequestShaped
  <2>2. Provided(target) = Provided(named)
    BY <1>1 DEF Provided, PathParameters, InParentheses
  <2>3. IsRight(named, r)
    BY <1>1, <2>1, <2>2 DEF IsRight, Fits
  <2> QED BY <2>3 DEF named, r
<1> QED BY <1>2, <1>3, <1>4

\* What a request is read as: $entity stands for its $id.
Target(req) == IF req.path = <<Word("$entity")>> THEN [req EXCEPT !.path = req.id] ELSE req

\* Every request is answered as it is to be.
LEMMA ServedRequestIsRight ==
  ASSUME RouterAssumption, NEW req, RequestShaped(req)
  PROVE  IsRight(Target(req), ServeHTTP(req))
<1>1. CASE Rejected(req.max)
  BY <1>1, StatusIsRight DEF ServeHTTP
<1>2. CASE ~Rejected(req.max) /\ ServiceResource(req.path) = "none"
  <2>1. ServeHTTP(req) = Resource(req)
    BY <1>2 DEF ServeHTTP
  <2>2. req.path # <<>> /\ Target(req) = req
    BY <1>2, ServiceResources DEF Target
  <2> QED BY <2>1, <2>2, ResourceIsRight DEF RequestShaped
<1>3. CASE ~Rejected(req.max) /\ ServiceResource(req.path) = "dereference"
  <2>1. ServeHTTP(req) = handleEntityDereference(req)
    BY <1>3 DEF ServeHTTP
  <2>2. Target(req) = [req EXCEPT !.path = req.id]
    BY <1>3, ServiceResources DEF Target
  <2> QED BY <2>1, <2>2, DereferenceIsRight
<1>4. CASE ~Rejected(req.max) /\ ServiceResource(req.path) \notin {"none", "dereference"}
  <2>1. ServeHTTP(req) = Status(ServiceResource(req.path))
    BY <1>4 DEF ServeHTTP
  <2> QED BY <2>1, ServiceResources, StatusIsRight
<1> QED BY <1>1, <1>2, <1>3, <1>4

\* A served request is one that may be asked, and its route is what it is served.
Routed == Served => RequestShaped(request) /\ route = ServeHTTP(request)

\* It holds of every state: a request is served once, in one step.
LEMMA RoutedInvariant ==
  ASSUME RouterAssumption
  PROVE  RouterSpec => []Routed
<1>1. RouterInit => Routed
  BY DEF RouterInit, Routed, Served
<1>2. Routed /\ [RouterNext]_routerVars => Routed'
  <2> SUFFICES ASSUME Routed, [RouterNext]_routerVars PROVE Routed'
    OBVIOUS
  <2>1. CASE RouterNext
    <3>1. PICK method \in {"GET", "POST", "PUT"}, path \in Paths, given \in Parameters,
               system \in Options, max \in Versions, id \in Ids :
            Serve([method |-> method, path |-> path, id |-> id, system |-> system, max |-> max,
                   params |-> IF method = "GET" THEN given ELSE {},
                   body |-> IF method = "POST" THEN given ELSE {}])
      BY <2>1 DEF RouterNext
    <3>2. path \in Seq(Segments) /\ id \in Seq(Segments)
      BY DEF RouterAssumption
    <3>3. RequestShaped(request') /\ route' = ServeHTTP(request')
      BY <3>1, <3>2 DEF Serve, RequestShaped
    <3> QED BY <3>3 DEF Routed
  <2>2. CASE UNCHANGED routerVars
    BY <2>2 DEF Routed, Served, routerVars
  <2> QED BY <2>1, <2>2
<1> QED BY <1>1, <1>2, PTL DEF RouterSpec

\* Which operation a request invokes is told by its path and its parameters:
\* some segment names it under no foreign qualifier, and a call that gives what
\* an overload requires is answered by one that takes just that (routeRequest,
\* ResolveFunctionOverload).
THEOREM OperationsAreRight == RouterSpec => []RightOperationAnswers
<1>1. Routed => RightOperationAnswers
  <2> SUFFICES ASSUME Routed, Invoked PROVE InvokedByItsName /\ ExactOverloadAnswers
    BY DEF RightOperationAnswers, InvokedByItsName, ExactOverloadAnswers
  <2>1. IsRight(Dereferenced, route)
    BY RouterAssumption, ServedRequestIsRight DEF Routed, Invoked, Target, Dereferenced
  <2>2. NamedIn(Dereferenced.path, route.seg.name) /\ (Dereferenced.system = {} => Fits(Dereferenced, route))
    BY <2>1 DEF IsRight, Invoked, Invokes
  <2>3. Dereferenced.system = request.system
    BY DEF Routed, Invoked, Dereferenced, RequestShaped
  <2> QED BY <2>2, <2>3 DEF NamedIn, Fits, InvokedByItsName, ExactOverloadAnswers
<1> QED BY <1>1, RouterAssumption, RoutedInvariant, PTL

-----------------------------------------------------------------------------
(* The two spellings of a key.                                             *)

\* Two requests with the same method that provide an operation with the same
\* parameters, or the same invalid pair: all that resolving one asks of a request.
Alike(req, other) ==
  /\ other.method = req.method /\ other.system = req.system
  /\ Provided(other) = Provided(req) /\ InvalidPair(other) = InvalidPair(req)

\* The same overloads match.
LEMMA AlikeMatch ==
  ASSUME NEW req, NEW other, Alike(req, other)
  PROVE  \A S : Matching(other, S) = Matching(req, S)
BY DEF Alike, Matching

\* The same invocations are answered alike.
LEMMA AlikeAnswers ==
  ASSUME NEW req, NEW other, Alike(req, other)
  PROVE  \A name, key, bound, set, count :
           HandleActionOrFunction(other, name, key, bound, set, count) =
             HandleActionOrFunction(req, name, key, bound, set, count)
<1>1. \A kind, name, bound, set :
        resolveInvocation(other, kind, name, bound, set) = resolveInvocation(req, kind, name, bound, set)
  BY AlikeMatch DEF resolveInvocation
<1> QED BY <1>1 DEF Alike, HandleActionOrFunction

\* So is the last step of handlePropertyRequest.
LEMMA AlikeServed ==
  ASSUME NEW req, NEW other, Alike(req, other), NEW h, NEW key, NEW segs, NEW flags
  PROVE  servePropertyRequest(other, h, key, segs, flags) = servePropertyRequest(req, h, key, segs, flags)
<1> DEFINE first == segs[1]
           last == segs[Len(segs)]
<1>0. \A name, k, bound, set, count :
        HandleActionOrFunction(other, name, k, bound, set, count) =
          HandleActionOrFunction(req, name, k, bound, set, count)
  BY AlikeAnswers
<1>1. /\ HandleActionOrFunction(other, resolveBoundName(first), key, TRUE, h, FALSE) =
           HandleActionOrFunction(req, resolveBoundName(first), key, TRUE, h, FALSE)
      /\ HandleActionOrFunction(other, last.name, <<>>, TRUE, NavigationTargetSet(h, first), FALSE) =
           HandleActionOrFunction(req, last.name, <<>>, TRUE, NavigationTargetSet(h, first), FALSE)
  BY <1>0
<1>2. CASE isBoundOperationSegment(first)
  BY <1>1, <1>2 DEF servePropertyRequest
<1>3. CASE /\ ~isBoundOperationSegment(first) /\ ~isNavigationWithKey(h, segs)
           /\ Len(segs) > 1 /\ IsNavigationProperty(h, first) /\ endsInOperation(segs)
  BY <1>1, <1>3 DEF servePropertyRequest
<1>4. CASE /\ ~isBoundOperationSegment(first)
           /\ ~(/\ ~isNavigationWithKey(h, segs) /\ Len(segs) > 1
                /\ IsNavigationProperty(h, first) /\ endsInOperation(segs))
  BY <1>4, Zenon DEF servePropertyRequest
<1> QED BY <1>2, <1>3, <1>4

\* And all of it.
LEMMA AlikeChained ==
  ASSUME NEW req, NEW other, Alike(req, other), NEW h, NEW key, NEW segs, NEW flags
  PROVE  handlePropertyRequest(other, h, key, segs, flags) = handlePropertyRequest(req, h, key, segs, flags)
<1>1. \A g, k, sg, f : servePropertyRequest(other, g, k, sg, f) = servePropertyRequest(req, g, k, sg, f)
  BY AlikeServed
<1> QED BY <1>1 DEF handlePropertyRequest

\* The same components make for the same route: after the entity with nothing
\* behind it no operation is called.
LEMMA SameComponentsSameRoute ==
  ASSUME NEW req, NEW other, NEW h, NEW c, NEW d,
         resolveKeyAsSegment(h, c) = resolveKeyAsSegment(h, d),
         LET e == resolveKeyAsSegment(h, c) IN e.key # <<>> /\ (e.segs # <<>> => Alike(req, other)),
         ~Handlers[h].singleton
  PROVE  routeRequest(other, h, c) = routeRequest(req, h, d)
<1> DEFINE e == resolveKeyAsSegment(h, c)
<1>1. CASE e.segs = <<>>
  <2> HIDE DEF e
  <2> QED BY <1>1 DEF routeRequest, e
<1>2. CASE e.segs # <<>>
  <2> DEFINE flags == [ref |-> e.ref, value |-> e.value]
  <2>1. /\ HandleActionOrFunction(other, e.segs[1].name, e.key, TRUE, h, TRUE) =
             HandleActionOrFunction(req, e.segs[1].name, e.key, TRUE, h, TRUE)
        /\ handlePropertyRequest(other, h, e.key, e.segs, flags) = handlePropertyRequest(req, h, e.key, e.segs, flags)
    <3>1. \A name, k, bound, set, count :
             HandleActionOrFunction(other, name, k, bound, set, count) =
               HandleActionOrFunction(req, name, k, bound, set, count)
      BY <1>2, AlikeAnswers
    <3>2. \A k, segs, f : handlePropertyRequest(other, h, k, segs, f) = handlePropertyRequest(req, h, k, segs, f)
      BY <1>2, AlikeChained
    <3> HIDE DEF e, flags
    <3> QED BY <3>1, <3>2
  <2>2. CASE e.count
    BY <1>2, <2>1, <2>2 DEF routeRequest
  <2>3. CASE ~e.count
    <3>1. routeRequest(other, h, c) = handlePropertyRequest(other, h, e.key, e.segs, flags)
      BY <1>2, <2>3 DEF routeRequest
    <3>2. routeRequest(req, h, d) = handlePropertyRequest(req, h, e.key, e.segs, flags)
      BY <1>2, <2>3 DEF routeRequest
    <3> HIDE DEF e, flags
    <3> QED BY <2>1, <3>1, <3>2
  <2> QED BY <2>2, <2>3
<1> QED BY <1>1, <1>2

\* Without markers but at the end, what is left is the path up to there.
LEMMA MarkersAtTheEnd ==
  ASSUME NEW segs \in Seq(Pieces), NEW n \in Nat, n <= Len(segs),
         \A i \in 1 .. Len(segs) : IsMarker(segs[i]) <=> i > n
  PROVE  NonMarkers(segs) = [k \in 1 .. n |-> segs[k]]
<1> DEFINE kept == {i \in DOMAIN segs : ~IsMarker(segs[i])}
           place(k) == CHOOSE i \in kept : Cardinality({j \in kept : j <= i}) = k
<1>1. kept = 1 .. n
  <2> HIDE DEF Pieces
  <2>1. Len(segs) \in Nat /\ DOMAIN segs = 1 .. Len(segs)
    OBVIOUS
  <2> QED BY <2>1
<1>2. Cardinality(kept) = n
  <2>1. Cardinality(1 .. n) = n
    BY FS_Interval
  <2> HIDE DEF kept
  <2> QED BY <1>1, <2>1
<1>3. \A i \in 1 .. n : Cardinality({j \in kept : j <= i}) = i
  <2> TAKE i \in 1 .. n
  <2> HIDE DEF kept
  <2>1. {j \in kept : j <= i} = 1 .. i
    BY <1>1
  <2>2. Cardinality(1 .. i) = i
    BY FS_Interval
  <2> QED BY <2>1, <2>2
<1>4. \A k \in 1 .. n : place(k) = k
  <2> HIDE DEF kept
  <2> QED BY <1>1, <1>3
<1>5. NonMarkers(segs) = [k \in 1 .. Cardinality(kept) |-> segs[place(k)]]
  BY DEF NonMarkers
<1> HIDE DEF kept, place
<1> QED BY <1>2, <1>4, <1>5

\* What comes behind the first segment, and the key in it.
Behind(path) == SubSeq(path, 2, Len(path))

\* Behind the key there are no markers but one at the end.
LEMMA BehindTheKey ==
  ASSUME NEW path \in Seq(Segments), path # <<>>,
         \A i \in 1 .. (Len(path) - 1) : ~IsMarker(path[i])
  PROVE  /\ Behind(path) \in Seq(Pieces) /\ Len(Behind(path)) = Len(path) - 1
         /\ \A i \in 1 .. Len(Behind(path)) : Behind(path)[i] = path[i + 1]
         /\ Tail(path) = Behind(path)
         /\ \E n \in Nat : n <= Len(Behind(path))
              /\ \A i \in 1 .. Len(Behind(path)) : IsMarker(Behind(path)[i]) <=> i > n
         /\ \A i \in 1 .. (Len(Behind(path)) - 1) : ~IsMarker(Behind(path)[i])
<1>1. Len(path) \in Nat /\ Len(path) >= 1
  OBVIOUS
<1>2. /\ Behind(path) \in Seq(Segments) /\ Len(Behind(path)) = Len(path) - 1
      /\ \A i \in 1 .. Len(Behind(path)) : Behind(path)[i] = path[i + 1]
  <2> HIDE DEF Segments
  <2>1. /\ Behind(path) \in Seq(Segments)
        /\ Len(Behind(path)) = IF 2 <= Len(path) THEN Len(path) - 2 + 1 ELSE 0
        /\ \A i \in 1 .. Len(path) - 2 + 1 : Behind(path)[i] = path[2 + i - 1]
    BY <1>1, SubSeqProperties DEF Behind
  <2>2. Len(Behind(path)) = Len(path) - 1
    <3>1. Len(Behind(path)) = IF 2 <= Len(path) THEN Len(path) - 2 + 1 ELSE 0
      BY <2>1
    <3> DEFINE l == Len(path) b == Len(Behind(path))
    <3>2. l \in Nat /\ l >= 1 /\ b = IF 2 <= l THEN l - 2 + 1 ELSE 0
      BY <1>1, <3>1
    <3>3. b = l - 1
      <4> HIDE DEF l, b
      <4> QED BY <3>2
    <3> QED BY <3>3
  <2>3. \A i \in 1 .. Len(Behind(path)) : i \in 1 .. Len(path) - 2 + 1 /\ 2 + i - 1 = i + 1
    BY <1>1, <2>2
  <2> HIDE DEF Behind
  <2> QED BY <2>1, <2>2, <2>3
<1>3. Behind(path) \in Seq(Pieces)
  <2>1. Segments \subseteq Pieces
    BY DEF Pieces
  <2> HIDE DEF Pieces, Segments
  <2> QED BY <1>2, <2>1
<1>4. Tail(path) = Behind(path)
  <2> HIDE DEF Segments
  <2>1. Tail(path) \in Seq(Segments) /\ Len(Tail(path)) = Len(path) - 1
        /\ \A i \in 1 .. Len(Tail(path)) : Tail(path)[i] = path[i + 1]
    BY <1>1
  <2> QED BY <1>1, <1>2, <2>1, SeqEqual
<1>5. \A i \in 1 .. (Len(Behind(path)) - 1) : ~IsMarker(Behind(path)[i])
  BY <1>1, <1>2
<1>6. \E n \in Nat : n <= Len(Behind(path))
        /\ \A i \in 1 .. Len(Behind(path)) : IsMarker(Behind(path)[i]) <=> i > n
  <2> DEFINE m == Len(Behind(path))
  <2>1. m \in Nat
    BY <1>1, <1>2
  <2>2. CASE m > 0 /\ IsMarker(Behind(path)[m])
    <3>1. m - 1 \in Nat /\ m - 1 <= m
      BY <2>1, <2>2
    <3>2. \A i \in 1 .. m : IsMarker(Behind(path)[i]) <=> i > m - 1
      BY <1>5, <2>1, <2>2
    <3> QED BY <3>1, <3>2
  <2>3. CASE ~(m > 0 /\ IsMarker(Behind(path)[m]))
    <3>1. \A i \in 1 .. m : IsMarker(Behind(path)[i]) <=> i > m
      BY <1>5, <2>1, <2>3
    <3> WITNESS m \in Nat
    <3> QED BY <2>1, <3>1
  <2> QED BY <2>2, <2>3
<1> QED BY <1>2, <1>3, <1>4, <1>5, <1>6

\* A key segment before them stays before them.
LEMMA KeyStaysInFront ==
  ASSUME NEW segs \in Seq(Pieces), NEW n \in Nat, n <= Len(segs),
         \A i \in 1 .. Len(segs) : IsMarker(segs[i]) <=> i > n,
         NEW w \in Pieces, ~IsMarker(w)
  PROVE  LET kept == NonMarkers(<<w>> \o segs) IN
         kept # <<>> /\ kept[1] = w /\ Tail(kept) = NonMarkers(segs)
<1> DEFINE longer == <<w>> \o segs
<1> HIDE DEF Pieces
<1>1. /\ longer \in Seq(Pieces) /\ Len(longer) = Len(segs) + 1 /\ longer[1] = w
      /\ \A i \in 1 .. Len(segs) : longer[i + 1] = segs[i]
  OBVIOUS
<1> HIDE DEF longer
<1>2. Len(segs) \in Nat
  OBVIOUS
<1>3. \A i \in 1 .. Len(longer) : IsMarker(longer[i]) <=> i > n + 1
  <2> TAKE i \in 1 .. Len(longer)
  <2>1. CASE i = 1
    BY <1>1, <1>2, <2>1
  <2>2. CASE i # 1
    <3>1. i - 1 \in 1 .. Len(segs) /\ longer[(i - 1) + 1] = segs[i - 1] /\ (i - 1) + 1 = i
      BY <1>1, <1>2, <2>2
    <3>2. IsMarker(segs[i - 1]) <=> i - 1 > n
      BY <3>1
    <3> QED BY <1>2, <3>1, <3>2
  <2> QED BY <2>1, <2>2
<1>4. NonMarkers(longer) = [k \in 1 .. (n + 1) |-> longer[k]]
  <2>1. n + 1 \in Nat /\ n + 1 <= Len(longer)
    BY <1>1, <1>2
  <2> QED BY <1>1, <1>3, <2>1, MarkersAtTheEnd
<1>5. NonMarkers(segs) = [k \in 1 .. n |-> segs[k]]
  BY MarkersAtTheEnd
<1>6. \A k \in 1 .. n : k \in 1 .. Len(segs) /\ segs[k] \in Pieces /\ longer[k + 1] = segs[k]
  BY <1>1, <1>2
<1>7. \A k \in 1 .. (n + 1) : longer[k] \in Pieces
  BY <1>1, <1>2
<1>8. NonMarkers(longer) \in Seq(Pieces) /\ Len(NonMarkers(longer)) = n + 1
  BY <1>4, <1>7
<1>9. NonMarkers(segs) \in Seq(Pieces) /\ Len(NonMarkers(segs)) = n
  BY <1>5, <1>6
<1>10. NonMarkers(longer) # <<>> /\ NonMarkers(longer)[1] = w
  <2>1. 1 \in 1 .. (n + 1) /\ n + 1 # 0
    OBVIOUS
  <2>2. NonMarkers(longer)[1] = longer[1]
    BY <1>4, <2>1
  <2> QED BY <1>1, <1>8, <2>1, <2>2
<1>11. Tail(NonMarkers(longer)) = NonMarkers(segs)
  <2>1. /\ Tail(NonMarkers(longer)) \in Seq(Pieces) /\ Len(Tail(NonMarkers(longer))) = n
        /\ \A k \in 1 .. n : Tail(NonMarkers(longer))[k] = NonMarkers(longer)[k + 1]
    BY <1>8, <1>10
  <2>2. \A k \in 1 .. n : NonMarkers(longer)[k + 1] = longer[k + 1] /\ NonMarkers(segs)[k] = segs[k]
    BY <1>4, <1>5
  <2> QED BY <1>6, <1>9, <2>1, <2>2, SeqEqual
<1> QED BY <1>10, <1>11 DEF longer

\* Both spellings are taken apart into the same components, but for the key, which
\* is still a segment in one of them.
LEMMA SpellingsHaveSameParts ==
  ASSUME NEW path \in Seq(Segments), path # <<>>, HasBothSpellings(path),
         NEW other, other = <<Word(path[1].name), Word(path[1].call)>> \o Tail(path)
  PROVE  LET c == ParseODataURLComponents(path) d == ParseODataURLComponents(other) w == Word(path[1].call) IN
         /\ Components(c) /\ Components(d)
         /\ c.set = path[1].name /\ d.set = path[1].name
         /\ c.key = <<path[1].call>> /\ d.key = <<>>
         /\ c.cast = <<>> /\ d.cast = <<>>
         /\ d.segs # <<>> /\ d.segs[1] = w /\ c.segs = Tail(d.segs)
         /\ c.count = d.count /\ c.ref = d.ref /\ c.value = d.value
         /\ (c.segs # <<>> => Len(path) > 1)
<1> DEFINE w == Word(path[1].call)
           rest == Behind(path)
           longer == <<w>> \o rest
<1>1. /\ rest \in Seq(Pieces) /\ Len(rest) = Len(path) - 1
      /\ \A i \in 1 .. Len(rest) : rest[i] = path[i + 1]
      /\ Tail(path) = rest
      /\ \A i \in 1 .. (Len(rest) - 1) : ~IsMarker(rest[i])
  BY BehindTheKey DEF HasBothSpellings
<1>2. PICK n \in Nat : n <= Len(rest) /\ \A i \in 1 .. Len(rest) : IsMarker(rest[i]) <=> i > n
  BY BehindTheKey DEF HasBothSpellings
<1>3. path[1] \in Segments /\ Len(path) \in Nat /\ Len(path) >= 1
  OBVIOUS
<1>4. w \in Pieces /\ Word(path[1].name) \in Pieces
  BY <1>3 DEF Segments, Pieces
<1>5. ~IsMarker(w) /\ w.ns = Unset /\ w.call = Blank
  BY DEF HasBothSpellings, IsOnlyAKey, Word, Seg
<1>6. ~(Len(path) > 1 /\ isTypeCastSegment(path[2])) /\ path[1].ns = Unset /\ path[1].call \notin {Blank, "()"}
  BY DEF HasBothSpellings
<1> HIDE DEF w
<1>7. /\ longer \in Seq(Pieces) /\ Len(longer) = Len(rest) + 1 /\ longer[1] = w
      /\ \A i \in 1 .. Len(rest) : longer[i + 1] = rest[i]
  <2> HIDE DEF rest, Pieces
  <2> QED BY <1>1, <1>4
<1>8. /\ Len(other) = Len(path) + 1 /\ other[1] = Word(path[1].name) /\ other[2] = w
      /\ SubSeq(other, 2, Len(other)) = longer
  <2> HIDE DEF rest, Pieces, longer
  <2> DEFINE name == Word(path[1].name)
  <2> HIDE DEF name
  <2>1. other = <<name, w>> \o rest
    BY <1>1 DEF name, w
  <2>2. name \in Pieces
    BY <1>4 DEF name
  <2>3. /\ other \in Seq(Pieces) /\ Len(other) = Len(rest) + 2 /\ other[1] = name /\ other[2] = w
        /\ \A i \in 1 .. Len(rest) : other[i + 2] = rest[i]
    <3> DEFINE two == <<name, w>>
    <3>1. two \in Seq(Pieces) /\ Len(two) = 2 /\ two[1] = name /\ two[2] = w
      BY <1>4, <2>2
    <3>2. other = two \o rest
      BY <2>1
    <3> HIDE DEF two
    <3>3. /\ other \in Seq(Pieces) /\ Len(other) = Len(two) + Len(rest)
          /\ \A i \in 1 .. Len(two) + Len(rest) :
                other[i] = IF i <= Len(two) THEN two[i] ELSE rest[i - Len(two)]
      <4>1. rest \in Seq(Pieces)
        BY <1>1
      <4>2. /\ two \o rest \in Seq(Pieces) /\ Len(two \o rest) = Len(two) + Len(rest)
            /\ \A i \in 1 .. Len(two) + Len(rest) :
                  (two \o rest)[i] = IF i <= Len(two) THEN two[i] ELSE rest[i - Len(two)]
        BY <3>1, <4>1, ConcatProperties
      <4> QED BY <3>2, <4>2
    <3>4. Len(rest) \in Nat
      BY <1>1
    <3>5. \A i \in 1 .. Len(rest) : i + 2 \in 1 .. 2 + Len(rest) /\ ~(i + 2 <= 2) /\ (i + 2) - 2 = i
      BY <3>4
    <3>6. 1 \in 1 .. 2 + Len(rest) /\ 2 \in 1 .. 2 + Len(rest)
      BY <3>4
    <3>7. \A i \in 1 .. 2 + Len(rest) : other[i] = IF i <= 2 THEN two[i] ELSE rest[i - 2]
      BY <3>1, <3>3
    <3>8. \A i \in 1 .. Len(rest) : other[i + 2] = rest[i]
      BY <3>5, <3>7
    <3>9. other[1] = two[1] /\ other[2] = two[2]
      BY <3>6, <3>7
    <3>10. Len(other) = Len(rest) + 2
      BY <3>1, <3>3, <3>4
    <3> QED BY <3>1, <3>3, <3>8, <3>9, <3>10
  <2>4. Len(rest) \in Nat
    BY <1>1
  <2> DEFINE part == SubSeq(other, 2, Len(other))
  <2>5. /\ part \in Seq(Pieces) /\ Len(part) = Len(rest) + 1
        /\ \A i \in 1 .. (Len(rest) + 1) : part[i] = other[2 + i - 1]
    <3>1. \A i \in 2 .. Len(other) : other[i] \in Pieces
      BY <2>3, <2>4
    <3>2. 2 \in Int /\ Len(other) \in Int /\ Len(other) - 2 + 1 = Len(rest) + 1 /\ 2 <= Len(other)
      BY <2>3, <2>4
    <3> QED BY <3>1, <3>2, SubSeqProperties
  <2> HIDE DEF part
  <2>6. \A i \in 1 .. (Len(rest) + 1) : part[i] = longer[i]
    <3> TAKE i \in 1 .. (Len(rest) + 1)
    <3>1. CASE i = 1
      BY <1>7, <2>3, <2>4, <2>5, <3>1
    <3>2. CASE i # 1
      <4>1. i - 1 \in 1 .. Len(rest) /\ 2 + i - 1 = (i - 1) + 2 /\ i = (i - 1) + 1
        BY <2>4, <3>2
      <4>2. other[(i - 1) + 2] = rest[i - 1] /\ longer[(i - 1) + 1] = rest[i - 1]
        BY <1>7, <2>3, <4>1
      <4> QED BY <2>5, <4>1, <4>2
    <3> QED BY <3>1, <3>2
  <2>7. part = longer
    BY <1>7, <2>5, <2>6, SeqEqual
  <2> QED BY <1>1, <2>3, <2>7 DEF name, part
<1>9. LET kept == NonMarkers(longer) IN
      kept # <<>> /\ kept[1] = w /\ Tail(kept) = NonMarkers(rest)
  BY <1>1, <1>2, <1>4, <1>5, KeyStaysInFront
<1>10. \A m \in Markers : Has(m, longer) <=> Has(m, rest)
  <2> TAKE m \in Markers
  <2>1. w # Word(m)
    BY <1>5 DEF IsMarker, Word, Seg
  <2> HIDE DEF longer, rest, Pieces
  <2>2. DOMAIN rest = 1 .. Len(rest) /\ DOMAIN longer = 1 .. Len(longer) /\ Len(rest) \in Nat
    BY <1>1, <1>7
  <2>3. ASSUME Has(m, rest) PROVE Has(m, longer)
    <3>1. PICK i \in 1 .. Len(rest) : rest[i] = Word(m)
      BY <2>2, <2>3 DEF Has
    <3>2. i + 1 \in 1 .. Len(longer) /\ longer[i + 1] = Word(m)
      BY <1>7, <2>2, <3>1
    <3> QED BY <2>2, <3>2 DEF Has
  <2>4. ASSUME Has(m, longer) PROVE Has(m, rest)
    <3>1. PICK i \in 1 .. Len(longer) : longer[i] = Word(m)
      BY <2>2, <2>4 DEF Has
    <3>2. i # 1
      BY <1>7, <2>1, <3>1
    <3>3. i - 1 \in 1 .. Len(rest) /\ longer[(i - 1) + 1] = rest[i - 1] /\ (i - 1) + 1 = i
      BY <1>7, <2>2, <3>2
    <3> QED BY <2>2, <3>1, <3>3 DEF Has
  <2> QED BY <2>3, <2>4
<1>11. NonMarkers(rest) # <<>> => Len(path) > 1
  <2>1. n = 0 => NonMarkers(rest) = <<>>
    <3> SUFFICES ASSUME n = 0 PROVE NonMarkers(rest) = <<>>
      OBVIOUS
    <3>1. NonMarkers(rest) = [k \in 1 .. n |-> rest[k]]
      BY <1>1, <1>2, MarkersAtTheEnd
    <3>2. 1 .. n = {}
      OBVIOUS
    <3> HIDE DEF rest
    <3> QED BY <3>1, <3>2
  <2> HIDE DEF rest
  <2> QED BY <1>1, <1>2, <1>3, <2>1
<1> DEFINE c == ParseODataURLComponents(path)
           d == ParseODataURLComponents(other)
<1>12. c = [set |-> path[1].name, key |-> <<path[1].call>>, cast |-> <<>>, segs |-> NonMarkers(rest),
            count |-> Has("$count", rest), ref |-> Has("$ref", rest), value |-> Has("$value", rest)]
  <2>1. rest # <<>> /\ IsMarker(rest[1]) => rest = <<rest[1]>>
    <3> SUFFICES ASSUME rest # <<>>, IsMarker(rest[1]) PROVE rest = <<rest[1]>>
      OBVIOUS
    <3> HIDE DEF rest, Pieces
    <3>1. Len(rest) = 1
      BY <1>1
    <3> QED BY <1>1, <3>1
  <2>2. Rest(path, 2) = rest
    BY DEF Rest, Behind
  <2> HIDE DEF rest
  <2> QED BY <1>6, <2>1, <2>2 DEF ParseODataURLComponents
<1>13. d = [set |-> path[1].name, key |-> <<>>, cast |-> <<>>, segs |-> NonMarkers(longer),
            count |-> Has("$count", longer), ref |-> Has("$ref", longer), value |-> Has("$value", longer)]
  <2>1. ~isTypeCastSegment(other[2]) /\ other[1].ns = Unset /\ other[1].call = Blank /\ other[1].name = path[1].name
    BY <1>5, <1>8 DEF isTypeCastSegment, Word, Seg
  <2>2. Rest(other, 2) = longer
    BY <1>8 DEF Rest
  <2>3. ~IsMarker(longer[1])
    BY <1>5, <1>7
  <2> HIDE DEF longer
  <2> QED BY <2>1, <2>2, <2>3 DEF ParseODataURLComponents
<1> HIDE DEF c, d, rest, longer
<1>14. Components(c) /\ Components(d)
  BY <1>12, <1>13 DEF Components
<1>15. c.count = d.count /\ c.ref = d.ref /\ c.value = d.value
  BY <1>10, <1>12, <1>13 DEF Markers, Has
<1>16. /\ c.set = path[1].name /\ c.key = <<path[1].call>> /\ c.cast = <<>>
       /\ c.segs = NonMarkers(rest)
  BY <1>12
<1>17. /\ d.set = path[1].name /\ d.key = <<>> /\ d.cast = <<>> /\ d.segs = NonMarkers(longer)
  BY <1>13
<1>18. d.segs # <<>> /\ d.segs[1] = w /\ c.segs = Tail(d.segs) /\ (c.segs # <<>> => Len(path) > 1)
  BY <1>9, <1>11, <1>16, <1>17
<1> QED BY <1>14, <1>15, <1>16, <1>17, <1>18 DEF c, d, w

\* Components with another key.
LEMMA KeyReplaced ==
  ASSUME NEW set, NEW key, NEW cast, NEW segs, NEW count, NEW ref, NEW value, NEW k, NEW r,
         r = [set |-> set, key |-> key, cast |-> cast, segs |-> segs, count |-> count, ref |-> ref, value |-> value]
  PROVE  [r EXCEPT !.key = k] =
         [set |-> set, key |-> k, cast |-> cast, segs |-> segs, count |-> count, ref |-> ref, value |-> value]
OBVIOUS

\* Once the key segment is read, the two spellings are one.
LEMMA SpellingsResolveAlike ==
  ASSUME NEW path \in Seq(Segments), path # <<>>, HasBothSpellings(path),
         NEW other, other = <<Word(path[1].name), Word(path[1].call)>> \o Tail(path)
  PROVE  LET c == ParseODataURLComponents(path) d == ParseODataURLComponents(other) h == path[1].name IN
         resolveKeyAsSegment(h, c) = c /\ resolveKeyAsSegment(h, d) = c
<1> DEFINE c == ParseODataURLComponents(path)
           d == ParseODataURLComponents(other)
           w == Word(path[1].call)
           h == path[1].name
<1>1. /\ Components(c) /\ Components(d)
      /\ c.set = h /\ d.set = h /\ c.key = <<path[1].call>> /\ d.key = <<>> /\ c.cast = <<>> /\ d.cast = <<>>
      /\ d.segs # <<>> /\ d.segs[1] = w /\ c.segs = Tail(d.segs)
      /\ c.count = d.count /\ c.ref = d.ref /\ c.value = d.value
  BY SpellingsHaveSameParts
<1>2. ~IsProperty(h, w) /\ ~isBoundOperationSegment(w) /\ w.name = path[1].call /\ ~Handlers[h].singleton
  BY DEF HasBothSpellings, IsOnlyAKey, isBoundOperationSegment, resolveBoundName, resolves, Word, Seg
<1> HIDE DEF c, d, w, h
<1>3. <<path[1].call>> # <<>>
  OBVIOUS
<1>4. resolveKeyAsSegment(h, c) = c
  BY <1>1, <1>3 DEF resolveKeyAsSegment
<1>5. resolveKeyAsSegment(h, d) = [d EXCEPT !.key = <<w.name>>, !.segs = Tail(d.segs)]
  BY <1>1, <1>2 DEF resolveKeyAsSegment
<1>6. [d EXCEPT !.key = <<w.name>>, !.segs = Tail(d.segs)] = c
  <2>1. c = [set |-> c.set, key |-> c.key, cast |-> c.cast, segs |-> c.segs,
             count |-> c.count, ref |-> c.ref, value |-> c.value]
    BY <1>1 DEF Components
  <2>2. d = [set |-> d.set, key |-> d.key, cast |-> d.cast, segs |-> d.segs,
             count |-> d.count, ref |-> d.ref, value |-> d.value]
    BY <1>1 DEF Components
  <2>3. [d EXCEPT !.key = <<w.name>>, !.segs = Tail(d.segs)] =
          [set |-> d.set, key |-> <<w.name>>, cast |-> d.cast, segs |-> Tail(d.segs),
             count |-> d.count, ref |-> d.ref, value |-> d.value]
    <3> DEFINE k == <<w.name>>
               rest == Tail(d.segs)
               set == d.set cast == d.cast count == d.count ref == d.ref value == d.value
               keyed == [d EXCEPT !.key = k]
    <3>1. keyed = [set |-> set, key |-> k, cast |-> cast, segs |-> d.segs,
                   count |-> count, ref |-> ref, value |-> value]
      BY <2>2, KeyReplaced
    <3> DEFINE segs == d.segs
    <3>2. keyed = [set |-> set, key |-> k, cast |-> cast, segs |-> segs,
                   count |-> count, ref |-> ref, value |-> value]
      BY <3>1
    <3> HIDE DEF keyed, k, rest, set, cast, count, ref, value, segs
    <3>3. [keyed EXCEPT !.segs = rest] =
            [set |-> set, key |-> k, cast |-> cast, segs |-> rest,
             count |-> count, ref |-> ref, value |-> value]
      BY <3>2
    <3> QED BY <3>3 DEF keyed, k, rest, set, cast, count, ref, value
  <2> QED BY <1>1, <1>2, <2>1, <2>3
<1> QED BY <1>4, <1>5, <1>6 DEF c, d, h

\* Behind the key both paths end in the same segment.
LEMMA RespelledIsAlike ==
  ASSUME NEW req, RequestShaped(req), Len(req.path) > 1
  PROVE  Alike(req, Respelled(req))
<1> DEFINE path == req.path
           head == <<Word(path[1].name), Word(path[1].call)>>
           longer == head \o Tail(path)
           S == Segments \cup {Word(path[1].name), Word(path[1].call)}
<1>1. path \in Seq(S) /\ Len(path) \in Nat /\ Len(path) > 1
  <2>1. path \in Seq(Segments)
    BY DEF RequestShaped
  <2>2. Segments \subseteq S
    OBVIOUS
  <2> HIDE DEF Segments, S, path
  <2>3. path \in Seq(S) /\ Len(path) \in Nat
    BY <2>1, <2>2
  <2> QED BY <2>3 DEF path
<1>2. head \in Seq(S) /\ Len(head) = 2
  OBVIOUS
<1> HIDE DEF head, S
<1>3. /\ Tail(path) \in Seq(S) /\ Len(Tail(path)) = Len(path) - 1
      /\ \A i \in 1 .. (Len(path) - 1) : Tail(path)[i] = path[i + 1]
  <2> HIDE DEF path
  <2> QED BY <1>1
<1>4. /\ Len(longer) = Len(path) + 1
      /\ \A i \in 1 .. Len(head) + Len(Tail(path)) : longer[i] =
           IF i <= Len(head) THEN head[i] ELSE Tail(path)[i - Len(head)]
  <2> HIDE DEF path
  <2>1. /\ Len(longer) = Len(head) + Len(Tail(path))
        /\ \A i \in 1 .. Len(head) + Len(Tail(path)) : longer[i] =
             IF i <= Len(head) THEN head[i] ELSE Tail(path)[i - Len(head)]
    BY <1>2, <1>3, ConcatProperties
  <2>2. Len(head) + Len(Tail(path)) = Len(path) + 1
    BY <1>1, <1>2, <1>3
  <2> QED BY <2>1, <2>2
<1>5. longer[Len(longer)] = path[Len(path)]
  <2> HIDE DEF path
  <2> DEFINE l == Len(path)
  <2>1. l \in Nat /\ l > 1
    BY <1>1
  <2>2. l + 1 \in 1 .. Len(head) + Len(Tail(path)) /\ ~(l + 1 <= Len(head)) /\ (l + 1) - Len(head) = l - 1
    BY <1>2, <1>3, <2>1
  <2>3. longer[l + 1] = Tail(path)[l - 1]
    BY <1>4, <2>2
  <2>4. Tail(path)[l - 1] = path[l]
    <3>1. l - 1 \in 1 .. (l - 1) /\ (l - 1) + 1 = l
      BY <2>1
    <3> QED BY <1>3, <3>1
  <2> HIDE DEF longer
  <2> QED BY <1>4, <2>3, <2>4
<1>6. /\ Respelled(req).path = longer /\ Respelled(req).method = req.method
      /\ Respelled(req).system = req.system /\ Respelled(req).params = req.params
      /\ Respelled(req).body = req.body
  BY DEF RequestShaped, Respelled, head
<1>7. /\ PathParameters(Respelled(req)) = PathParameters(req)
      /\ InvalidPair(Respelled(req)) = InvalidPair(req)
  <2> HIDE DEF longer
  <2>1. InParentheses(Respelled(req)) = InParentheses(req)
    BY <1>5, <1>6 DEF InParentheses
  <2> QED BY <2>1 DEF PathParameters, InvalidPair
<1> HIDE DEF longer
<1> QED BY <1>6, <1>7 DEF Alike, Provided

\* Both spellings are served alike, whatever else the request has.
LEMMA SpellingsAreServedAlike ==
  ASSUME NEW req, RequestShaped(req), req.path # <<>>, HasBothSpellings(req.path)
  PROVE  ServeHTTP(Respelled(req)) = ServeHTTP(req)
<1> DEFINE path == req.path
           other == Respelled(req)
           longer == <<Word(path[1].name), Word(path[1].call)>> \o Tail(path)
           h == path[1].name
           c == ParseODataURLComponents(path)
           d == ParseODataURLComponents(longer)
<1>1. /\ other.path = longer /\ other.method = req.method /\ other.max = req.max
  BY DEF RequestShaped, Respelled
<1>2. path \in Seq(Segments) /\ 1 \in DOMAIN path /\ path[1] \in Segments
  BY DEF RequestShaped
<1>3. /\ longer # <<>> /\ longer[1] = Word(h) /\ Len(longer) = Len(path) + 1 /\ Len(longer) > 1
  <2> DEFINE head == <<Word(h), Word(path[1].call)>>
             S == Segments \cup {Word(h), Word(path[1].call)}
  <2>1. Tail(path) \in Seq(S) /\ Len(Tail(path)) = Len(path) - 1 /\ Len(path) \in Nat /\ Len(path) >= 1
    <3>1. Segments \subseteq S
      OBVIOUS
    <3> HIDE DEF Segments, S, path
    <3>2. path \in Seq(S) /\ path # <<>>
      BY <1>2, <3>1 DEF path
    <3> QED BY <3>2
  <2>2. head \in Seq(S) /\ Len(head) = 2 /\ head[1] = Word(h)
    OBVIOUS
  <2> HIDE DEF head, S, path, h
  <2>3. /\ head \o Tail(path) \in Seq(S) /\ Len(head \o Tail(path)) = Len(head) + Len(Tail(path))
        /\ \A i \in 1 .. Len(head) + Len(Tail(path)) : (head \o Tail(path))[i] =
             IF i <= Len(head) THEN head[i] ELSE Tail(path)[i - Len(head)]
    BY <2>1, <2>2, ConcatProperties
  <2>4. 1 \in 1 .. Len(head) + Len(Tail(path)) /\ 1 <= Len(head)
    BY <2>1, <2>2
  <2>5. /\ (head \o Tail(path))[1] = Word(h) /\ Len(head \o Tail(path)) = Len(path) + 1
        /\ Len(head \o Tail(path)) > 1 /\ head \o Tail(path) # <<>>
    BY <2>1, <2>2, <2>3, <2>4
  <2> QED BY <2>5 DEF head, h, path
<1>4. ~isActionOrFunction(h) /\ h \in DOMAIN Handlers /\ ~Handlers[h].singleton /\ path[1].call # Blank
  BY DEF HasBothSpellings
<1>5. ServiceResource(path) = "none" /\ ServiceResource(longer) = "none"
  <2>1. \A name : path # <<Word(name)>>
    BY <1>4 DEF Word, Seg
  <2>2. \A name : longer # <<Word(name)>>
    <3> SUFFICES ASSUME NEW name, longer = <<Word(name)>> PROVE FALSE
      OBVIOUS
    <3> HIDE DEF longer
    <3>1. Len(longer) = 1
      OBVIOUS
    <3> QED BY <1>3, <3>1
  <2> HIDE DEF longer
  <2> QED BY <1>3, <2>1, <2>2 DEF ServiceResource
<1>6. ~AtRoot(req) /\ ~AtRoot(other)
  <2>1. path[1].name = h /\ longer[1].name = h
    BY <1>3 DEF Word, Seg
  <2>2. ~isBoundOperationSegment(path[1]) /\ ~isBoundOperationSegment(longer[1])
    BY <1>4, <2>1 DEF isBoundOperationSegment, resolveBoundName
  <2> HIDE DEF other, longer
  <2> QED BY <1>1, <2>2 DEF AtRoot
<1>7. /\ c.set = h /\ d.set = h /\ c.key = <<path[1].call>> /\ c.cast = <<>> /\ d.cast = <<>>
      /\ (c.segs # <<>> => Len(path) > 1)
  BY <1>2, SpellingsHaveSameParts
<1>8. resolveKeyAsSegment(h, c) = c /\ resolveKeyAsSegment(h, d) = c
  BY <1>2, SpellingsResolveAlike
<1> HIDE DEF other, longer, path, c, d, h
<1>9. Reinterpreted(c) = c /\ Reinterpreted(d) = d
  BY <1>7 DEF Reinterpreted
<1>10. Resource(req) = routeRequest(req, h, c)
  BY <1>4, <1>6, <1>7, <1>9 DEF Resource, c, path
<1>11. Resource(other) = routeRequest(other, h, d)
  BY <1>1, <1>4, <1>6, <1>7, <1>9 DEF Resource, d
<1>12. c.segs # <<>> => Alike(req, other)
  BY <1>7, RespelledIsAlike DEF path, other
<1>13. routeRequest(other, h, d) = routeRequest(req, h, c)
  <2>1. c.key # <<>>
    BY <1>7
  <2>2. ~Handlers[h].singleton
    BY <1>4
  <2> QED BY <1>8, <1>12, <2>1, <2>2, SameComponentsSameRoute
<1>14. ServeHTTP(other) = IF Rejected(req.max) THEN Status("406") ELSE Resource(other)
  BY <1>1, <1>5 DEF ServeHTTP
<1>15. ServeHTTP(req) = IF Rejected(req.max) THEN Status("406") ELSE Resource(req)
  BY <1>5 DEF ServeHTTP, path
<1> QED BY <1>10, <1>11, <1>13, <1>14, <1>15 DEF other

\* The key in parentheses and the key as a segment name the same resource,
\* whatever stands behind them (resolveKeyAsSegment).
THEOREM SpellingsAreOne == RouterSpec => []SpellingsAgree
<1>1. Routed => SpellingsAgree
  BY SpellingsAreServedAlike DEF Routed, SpellingsAgree
<1> QED BY <1>1, RouterAssumption, RoutedInvariant, PTL
=============================================================================
