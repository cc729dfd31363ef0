------------------------------ MODULE Builder -------------------------------
(***************************************************************************)
(* From registrations to the names a program can call: Builder.Register    *)
(* and Build, catalog.Build, worker.NewRunner and, in the worker process,  *)
(* the engine's namespace.  Three places validate the same set of          *)
(* capabilities (catalog, manifest, engine bindings), the second and third *)
(* only what is left of it after disabling, and the third after JSON has   *)
(* carried it to the worker process.                                       *)
(*                                                                         *)
(* A dotted name is the sequence of its segments; an ID is of the same     *)
(* kind, because an empty ID defaults to the name.  A Builder is           *)
(* single-threaded: Register and Build are one step each.                  *)
(***************************************************************************)
EXTENDS Naturals, Sequences, FiniteSets

CONSTANTS
  IDs,                  \* stable identities; <<>> is the empty one
  Names,                \* dotted names
  OnWire,               \* what an ID is once JSON has carried it
  ReservedRoots,        \* roots of the Starlark universe
  DisabledLists,        \* what Options.DisabledCapabilities may hold
  MaxRegistrations      \* maxSupportedRegistrations

ASSUME NamesAssumption == \A n \in Names : n \in Seq(STRING) /\ n # <<>>
ASSUME IDsAssumption == Names \subseteq IDs /\ <<>> \notin IDs
\* JSON replaces the bytes of a string that are not UTF-8, once and for all; a
\* dotted name of Starlark identifiers has none.
ASSUME OnWireAssumption ==
  /\ OnWire \in [IDs -> IDs]
  /\ \A id \in IDs : OnWire[OnWire[id]] = OnWire[id]
  /\ \A n \in Names : OnWire[n] = n
ASSUME DisabledAssumption == DisabledLists \subseteq Seq(IDs)
ASSUME MaxRegistrationsAssumption == MaxRegistrations \in Nat

\* What is passed to Register; wellFormed stands for handler, types and metadata.
Capabilities == [id : IDs \cup {<<>>}, name : Names, wellFormed : BOOLEAN]

\* What the catalog keeps of it.
Entries == [id : IDs, name : Names]

VARIABLES
  options,        \* Options: the disabled list; whether authorizer and limits are valid
  registrations,  \* Builder.registrations
  errors,         \* Builder.registrationErrors, by the capability they are about
  built,          \* Builder.built
  server,         \* the entries of the server, or the stage at which Build failed
  attempted       \* history: the capabilities Register was called with, in time

vars == <<options, registrations, errors, built, server, attempted>>

NoServer == [stage |-> "none", enabled |-> {}]

Init ==
  /\ options \in [disabled : DisabledLists, valid : BOOLEAN]
  /\ registrations = {} /\ errors = {} /\ built = FALSE
  /\ server = NoServer /\ attempted = {}

-----------------------------------------------------------------------------
(* Registration *)

\* The ID defaults to the name.
EntryOf(c) == [id |-> IF c.id = <<>> THEN c.name ELSE c.id, name |-> c.name]

isDottedName(n) == Len(n) >= 2

\* ValidateRegistration, without the metadata.
ValidEntry(e) == isDottedName(e.name) /\ Head(e.name) \notin ReservedRoots

ClashesByName(e, f) == e.name = f.name
Clashes(e, f) == e.id = f.id \/ e.name = f.name

\* The checks of Register, in the order of the code.
Accepted(c) ==
  /\ c.wellFormed /\ ValidEntry(EntryOf(c))
  /\ \A f \in registrations : ~Clashes(EntryOf(c), f)

SilentlySkipped(c) == errors
recordRegistrationError(c) == errors \cup {c}

Register(c) ==
  /\ ~built
  /\ attempted' = attempted \cup {c}
  /\ IF Accepted(c)
       THEN registrations' = registrations \cup {EntryOf(c)} /\ UNCHANGED errors
       ELSE errors' = recordRegistrationError(c) /\ UNCHANGED registrations
  /\ UNCHANGED <<options, built, server>>

\* Register panics on a closed builder.
RegisterClosed(c) == built /\ UNCHANGED vars

-----------------------------------------------------------------------------
(* The catalog *)

\* The proper prefixes of a name are the namespaces it needs.
Namespaces(n) == {SubSeq(n, 1, k) : k \in 1..(Len(n) - 1)}

\* validateNamespaceCollisions of the catalog, the manifest and the engine.
CollisionsAllowed(E) == TRUE
NamespaceCollisionFree(E) == \A e, f \in E : e.name \notin Namespaces(f.name)

IdentitiesUnique(E) == \A e, f \in E : Clashes(e, f) => e = f

\* validateDisabled: every ID known and given once.
DisabledKnown(list, E) ==
  /\ \A i, j \in DOMAIN list : list[i] = list[j] => i = j
  /\ \A i \in DOMAIN list : \E e \in E : e.id = list[i]

FilterByName(E, list) == {e \in E : \A i \in DOMAIN list : list[i] # e.name}
filterEnabled(E, list) == {e \in E : \A i \in DOMAIN list : list[i] # e.id}

\* catalog.Build on the registrations, before any of them is disabled.  Sizes of
\* search metadata, which may refuse as well, are left to Build.
CatalogIgnoresNamespaces(E, list) ==
  /\ Cardinality(E) <= MaxRegistrations
  /\ \A e \in E : ValidEntry(e)
  /\ IdentitiesUnique(E)
  /\ DisabledKnown(list, E)
CatalogAccepts(E, list) ==
  /\ Cardinality(E) <= MaxRegistrations
  /\ \A e \in E : ValidEntry(e)
  /\ IdentitiesUnique(E)
  /\ NamespaceCollisionFree(E)
  /\ DisabledKnown(list, E)

\* validateManifest in NewRunner, and in the worker process on what it decoded.
ManifestAccepted(E) ==
  /\ \A e \in E : ValidEntry(e)
  /\ IdentitiesUnique(E)
  /\ NamespaceCollisionFree(E)

-----------------------------------------------------------------------------
(* Build *)

Closed(stage, enabled) ==
  /\ built' = TRUE
  /\ registrations' = {} /\ errors' = {}
  /\ server' = [stage |-> stage, enabled |-> enabled]
  /\ UNCHANGED <<options, attempted>>

Enabled == filterEnabled(registrations, options.disabled)

\* Build: registration errors, the authorizer and the limits are reported together;
\* then catalog, runner and probe, each of which may refuse for reasons of its own
\* (sizes, payload caps, the worker).
Build ==
  /\ ~built
  /\ \/ /\ errors # {} \/ ~options.valid
        /\ Closed("errors", {})
     \/ /\ errors = {} /\ options.valid
        /\ \/ ~CatalogAccepts(registrations, options.disabled) /\ Closed("catalog", {})
           \/ /\ CatalogAccepts(registrations, options.disabled)
              /\ \/ IF ManifestAccepted(Enabled)
                      THEN Closed("server", Enabled)
                      ELSE Closed("manifest", {})
                 \/ \E stage \in {"sizes", "caps", "probe"} : Closed(stage, {})

\* A second Build reports an error and changes nothing.
BuildClosed == built /\ UNCHANGED vars

Next ==
  \/ \E c \in Capabilities : Register(c) \/ RegisterClosed(c)
  \/ Build \/ BuildClosed

Spec == Init /\ [][Next]_vars

-----------------------------------------------------------------------------
(* The live server *)

Live == server.stage = "server"

\* A manifest as the worker process decodes it.  Nothing before asks an ID to be
\* UTF-8, so two IDs may have become one.
Decoded(E) == {[id |-> OnWire[e.id], name |-> e.name] : e \in E}

\* decodeExec and serveExec validate it again, for every execution.
WorkerAccepts == ManifestAccepted(Decoded(server.enabled))

\* buildPredeclared and freezeModule: where a module has a function and a namespace
\* of one name, the namespace is what a program sees.
Callable(name) ==
  {w \in Decoded(server.enabled) :
     w.name = name /\ \A f \in server.enabled : name \notin Namespaces(f.name)}

\* LookupID over the enabled entries.
LookupID(id) == {e \in server.enabled : e.id = id}

\* Where the call of a name arrives: the worker sends the ID that it has bound to the
\* name, and dispatch looks up what the parent decodes.
Reached(name) == UNION {LookupID(OnWire[w.id]) : w \in Callable(name)}

-----------------------------------------------------------------------------
(* Properties *)

\* Type correctness.
TypeOK ==
  /\ options \in [disabled : DisabledLists, valid : BOOLEAN]
  /\ registrations \subseteq Entries /\ errors \subseteq Capabilities
  /\ built \in BOOLEAN /\ attempted \subseteq Capabilities
  /\ server \in [stage : {"none", "errors", "catalog", "manifest", "sizes", "caps", "probe", "server"},
                 enabled : SUBSET Entries]

\* A server has exactly what was registered, except what was disabled by ID: no
\* capability is dropped in silence, whatever registrations failed before Build, and
\* disabling an ID does not touch a capability that merely has that name.
ServerIsExact ==
  Live => server.enabled = {EntryOf(c) : c \in {d \in attempted :
                              \A i \in DOMAIN options.disabled : options.disabled[i] # EntryOf(d).id}}

\* A call in an execution that the worker lets begin reaches the capability of that
\* name and no other: no capability is hidden by a namespace, and the ID that arrives
\* resolves to the capability when it is UTF-8.  One that is not UTF-8 resolves to
\* nothing, even if what JSON makes of it is the ID of another capability.
CallsReachTheirCapability ==
  Live /\ WorkerAccepts =>
    \A e \in server.enabled :
      /\ Callable(e.name) # {}
      /\ Reached(e.name) = IF OnWire[e.id] = e.id THEN {e} ELSE {}

\* What the catalog accepted, the runner accepts: its validation of the enabled rest
\* never fails a Build.  The worker process, which validates what it decoded in every
\* execution, accepts it unless two enabled IDs have become one on the way, so always
\* when the IDs are UTF-8.
CatalogImpliesManifest ==
  /\ server.stage # "manifest"
  /\ Live => (WorkerAccepts <=>
                \A e, f \in server.enabled : OnWire[e.id] = OnWire[f.id] => e = f)
=============================================================================
