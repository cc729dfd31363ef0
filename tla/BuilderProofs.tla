--------------------------- MODULE BuilderProofs ----------------------------
(***************************************************************************)
(* Builder's properties, for all sets of names, IDs and disabled lists.    *)
(* Before Build the registrations are exactly the capabilities that were   *)
(* attempted, unless an error was recorded; the catalog's checks hold of   *)
(* them and therefore of every subset, which is what is left after         *)
(* disabling.  Of what the worker decodes they hold as long as no two IDs  *)
(* have become one.                                                        *)
(***************************************************************************)
EXTENDS Builder, TLAPS

Open ==
  ~built =>
    /\ server = NoServer
    /\ errors = {} => registrations = {EntryOf(c) : c \in attempted}

Served ==
  Live =>
    /\ server.enabled = {EntryOf(c) : c \in {d \in attempted :
                           \A i \in DOMAIN options.disabled : options.disabled[i] # EntryOf(d).id}}
    /\ ManifestAccepted(server.enabled)

BuilderInv == TypeOK /\ Open /\ Served /\ server.stage # "manifest"

\* A capability's entry is an entry: its ID, given or the default, is an ID.
LEMMA EntryType == \A c \in Capabilities : EntryOf(c) \in Entries
BY IDsAssumption DEF EntryOf, Capabilities, Entries

\* The manifest's checks are inherited by what is left after disabling.
LEMMA FilterKeepsValidity ==
  ASSUME NEW E, NEW list, CatalogAccepts(E, list)
  PROVE  ManifestAccepted(filterEnabled(E, list))
BY DEF CatalogAccepts, ManifestAccepted, filterEnabled, IdentitiesUnique, NamespaceCollisionFree

\* The initial states.
LEMMA InitBuilder == Init => BuilderInv
<1> SUFFICES ASSUME Init PROVE BuilderInv
  OBVIOUS
<1>1. {EntryOf(c) : c \in attempted} = {}
  BY DEF Init
<1>2. TypeOK
  BY DEF Init, TypeOK, NoServer
<1>3. Open
  BY <1>1 DEF Init, Open
<1>4. Served /\ server.stage # "manifest"
  BY DEF Init, Served, Live, NoServer
<1> QED
  BY <1>2, <1>3, <1>4 DEF BuilderInv

\* Register: the entry joins the registrations, or the error is kept.
LEMMA RegisterKeeps ==
  ASSUME BuilderInv, NEW c \in Capabilities, Register(c)
  PROVE  BuilderInv'
<1> USE DEF BuilderInv
<1>1. TypeOK'
  BY EntryType DEF Register, TypeOK, recordRegistrationError
<1>2. Open'
  <2>1. CASE Accepted(c)
    BY <2>1 DEF Open, Register, NoServer
  <2>2. CASE ~Accepted(c)
    <3>1. errors' # {}
      BY <2>2 DEF Register, recordRegistrationError
    <3> QED
      BY <3>1 DEF Open, Register, NoServer
  <2> QED
    BY <2>1, <2>2
<1>3. ~Live'
  BY DEF Register, Open, NoServer, Live
<1> QED
  BY <1>1, <1>2, <1>3 DEF Served, Open, Register, NoServer

\* Build: the manifest stage never fails, and a server has what the catalog checked.
LEMMA BuildKeeps ==
  ASSUME BuilderInv, Build
  PROVE  BuilderInv'
<1> USE DEF BuilderInv
<1>1. Enabled \subseteq Entries
  BY DEF Enabled, filterEnabled, TypeOK
<1>2. built' = TRUE /\ UNCHANGED <<options, attempted>> /\ registrations' = {} /\ errors' = {}
  BY DEF Build, Closed
<1>3. CASE \E stage \in {"errors", "catalog", "sizes", "caps", "probe"} : Closed(stage, {})
  BY <1>2, <1>3 DEF Closed, TypeOK, Open, Served, Live
<1>4. CASE errors = {} /\ CatalogAccepts(registrations, options.disabled) /\ Closed("server", Enabled)
  <2>1. ManifestAccepted(Enabled)
    BY <1>4, FilterKeepsValidity DEF Enabled
  <2>2. registrations = {EntryOf(c) : c \in attempted}
    BY <1>4 DEF Open, Build
  <2>3. Enabled = {EntryOf(c) : c \in {d \in attempted :
                     \A i \in DOMAIN options.disabled : options.disabled[i] # EntryOf(d).id}}
    BY <2>2 DEF Enabled, filterEnabled
  <2>4. server' = [stage |-> "server", enabled |-> Enabled]
    BY <1>4 DEF Closed
  <2>5. Served'
    BY <1>2, <2>1, <2>3, <2>4 DEF Served, ManifestAccepted, IdentitiesUnique, NamespaceCollisionFree
  <2> QED
    BY <1>1, <1>2, <2>4, <2>5 DEF TypeOK, Open
<1>5. CASE CatalogAccepts(registrations, options.disabled) /\ ~ManifestAccepted(Enabled)
           /\ Closed("manifest", {})
  BY <1>5, FilterKeepsValidity DEF Enabled
<1>6. CASE errors = {} /\ CatalogAccepts(registrations, options.disabled)
  BY <1>3, <1>4, <1>5, <1>6 DEF Build
<1>7. CASE ~(errors = {} /\ CatalogAccepts(registrations, options.disabled))
  BY <1>3, <1>7 DEF Build
<1> QED
  BY <1>6, <1>7

\* Every step preserves the invariant.
LEMMA BuilderStep == BuilderInv /\ [Next]_vars => BuilderInv'
<1> SUFFICES ASSUME BuilderInv, [Next]_vars PROVE BuilderInv'
  OBVIOUS
<1>1. CASE UNCHANGED vars
  BY <1>1 DEF vars, BuilderInv, TypeOK, Open, Served, Live
<1> QED
  BY <1>1, RegisterKeeps, BuildKeeps DEF Next, RegisterClosed, BuildClosed

\* The invariant holds.
THEOREM BuilderInvariance == Spec => []BuilderInv
BY InitBuilder, BuilderStep, PTL DEF Spec

\* A server has exactly what was registered and not disabled by ID.
THEOREM ExactServer == Spec => []ServerIsExact
<1>1. BuilderInv => ServerIsExact
  BY DEF BuilderInv, Served, ServerIsExact
<1> QED
  BY <1>1, BuilderInvariance, PTL

\* What the decoded manifest holds of an entry, and of nothing else.
LEMMA DecodedEntries ==
  ASSUME TypeOK
  PROVE  /\ \A w \in Decoded(server.enabled) :
              \E e \in server.enabled : w = [id |-> OnWire[e.id], name |-> e.name]
         /\ \A e \in server.enabled :
              [id |-> OnWire[e.id], name |-> e.name] \in Decoded(server.enabled)
         /\ \A e \in server.enabled : e = [id |-> e.id, name |-> e.name] /\ e.id \in IDs
BY DEF Decoded, TypeOK, Entries

\* Decoding changes no name, and so neither their validity nor their namespaces.
LEMMA DecodedNames ==
  ASSUME TypeOK, ManifestAccepted(server.enabled)
  PROVE  /\ \A w \in Decoded(server.enabled) : ValidEntry(w)
         /\ NamespaceCollisionFree(Decoded(server.enabled))
BY DecodedEntries DEF ManifestAccepted, ValidEntry, NamespaceCollisionFree

\* The worker refuses a manifest for IDs that have become one, and for nothing else.
LEMMA WorkerRefusesMergedIDs ==
  ASSUME TypeOK, ManifestAccepted(server.enabled)
  PROVE  WorkerAccepts <=> \A e, f \in server.enabled : OnWire[e.id] = OnWire[f.id] => e = f
<1> DEFINE D(e) == [id |-> OnWire[e.id], name |-> e.name]
<1>1. \A e, f \in server.enabled : e.name = f.name => e = f
  BY DEF ManifestAccepted, IdentitiesUnique, Clashes
<1>2. ASSUME WorkerAccepts, NEW e \in server.enabled, NEW f \in server.enabled, OnWire[e.id] = OnWire[f.id]
      PROVE  e = f
  <2>1. D(e) \in Decoded(server.enabled) /\ D(f) \in Decoded(server.enabled)
    BY DecodedEntries
  <2>2. D(e) = D(f)
    BY <1>2, <2>1 DEF WorkerAccepts, ManifestAccepted, IdentitiesUnique, Clashes
  <2>3. D(e).name = D(f).name
    BY <2>2
  <2> QED
    BY <1>1, <2>3
<1>3. ASSUME \A e, f \in server.enabled : OnWire[e.id] = OnWire[f.id] => e = f
      PROVE  IdentitiesUnique(Decoded(server.enabled))
  <2> SUFFICES ASSUME NEW v \in Decoded(server.enabled), NEW w \in Decoded(server.enabled), Clashes(v, w)
               PROVE  v = w
    BY DEF IdentitiesUnique
  <2>1. PICK e \in server.enabled : v = D(e)
    BY DecodedEntries
  <2>2. PICK f \in server.enabled : w = D(f)
    BY DecodedEntries
  <2>3. OnWire[e.id] = OnWire[f.id] \/ e.name = f.name
    BY <2>1, <2>2 DEF Clashes
  <2>4. e = f
    BY <1>1, <1>3, <2>3
  <2> QED
    BY <2>1, <2>2, <2>4
<1> QED
  BY <1>2, <1>3, DecodedNames DEF WorkerAccepts, ManifestAccepted

\* No enabled capability is hidden by a namespace, and a call by its name arrives at it
\* if its ID is UTF-8, and at none otherwise.
THEOREM CallsArrive == Spec => []CallsReachTheirCapability
<1>1. BuilderInv => CallsReachTheirCapability
  <2> SUFFICES ASSUME BuilderInv, Live, WorkerAccepts, NEW e \in server.enabled
               PROVE  /\ Callable(e.name) # {}
                      /\ Reached(e.name) = IF OnWire[e.id] = e.id THEN {e} ELSE {}
    BY DEF CallsReachTheirCapability
  <2> DEFINE w == [id |-> OnWire[e.id], name |-> e.name]
  <2>1. TypeOK /\ ManifestAccepted(server.enabled)
    BY DEF BuilderInv, Served
  <2>2. \A f \in server.enabled : OnWire[e.id] = OnWire[f.id] => e = f
    BY <2>1, WorkerRefusesMergedIDs
  <2>3. Callable(e.name) = {w}
    <3>1. w \in Callable(e.name)
      BY <2>1, DecodedEntries DEF Callable, ManifestAccepted, NamespaceCollisionFree
    <3>2. ASSUME NEW v \in Callable(e.name) PROVE v = w
      <4>1. v \in Decoded(server.enabled) /\ v.name = e.name
        BY DEF Callable
      <4>2. PICK f \in server.enabled : v = [id |-> OnWire[f.id], name |-> f.name]
        BY <2>1, <4>1, DecodedEntries
      <4>3. f = e
        BY <2>1, <4>1, <4>2 DEF ManifestAccepted, IdentitiesUnique, Clashes
      <4> QED
        BY <4>2, <4>3
    <3> QED
      BY <3>1, <3>2
  <2>4. OnWire[OnWire[e.id]] = OnWire[e.id]
    BY <2>1, DecodedEntries, OnWireAssumption
  <2>5. Reached(e.name) = LookupID(OnWire[e.id])
    BY <2>3, <2>4 DEF Reached
  <2>6. CASE OnWire[e.id] = e.id
    BY <2>1, <2>3, <2>5, <2>6 DEF LookupID, ManifestAccepted, IdentitiesUnique, Clashes
  <2>7. CASE OnWire[e.id] # e.id
    <3>1. ASSUME NEW f \in server.enabled, f.id = OnWire[e.id] PROVE FALSE
      BY <2>2, <2>4, <2>7, <3>1
    <3> QED
      BY <2>3, <2>5, <2>7, <3>1 DEF LookupID
  <2> QED
    BY <2>6, <2>7
<1> QED
  BY <1>1, BuilderInvariance, PTL

\* The runner accepts what the catalog accepted, and so does the worker unless two
\* enabled IDs are one once they are decoded.
THEOREM ManifestFollows == Spec => []CatalogImpliesManifest
<1>1. BuilderInv => CatalogImpliesManifest
  BY WorkerRefusesMergedIDs DEF BuilderInv, Served, CatalogImpliesManifest
<1> QED
  BY <1>1, BuilderInvariance, PTL
=============================================================================
