------------------------------- MODULE MCHub --------------------------------
(***************************************************************************)
(* The hub on small instances: its control plane with the edge that        *)
(* follows it (ControlPlane), admin requests (AdminAPI) and the            *)
(* configuration (GateConfig). A behaviour explores one of the three; the  *)
(* variables of the others are 0 throughout.                               *)
(***************************************************************************)
EXTENDS MCControl, AdminAPI, MCConfig

VARIABLE part   \* the component this behaviour explores

controlOff ==
  /\ cfg = 0 /\ store = 0 /\ cached = 0 /\ gen = 0 /\ look = 0 /\ op = 0 /\ queue = 0
  /\ relayed = 0 /\ watch = 0 /\ stream = 0 /\ edge = 0 /\ kept = 0 /\ fill = 0 /\ gap = 0
  /\ flight = 0 /\ missed = 0 /\ calm = 0 /\ done = 0
adminOff ==
  /\ rec = 0 /\ legacy = 0 /\ tier = 0 /\ owned = 0 /\ minted = 0 /\ calls = 0 /\ called = 0
  /\ log = 0 /\ deleting = 0 /\ overlap = 0 /\ halfway = 0 /\ again = 0
configOff ==
  /\ file = 0 /\ active = 0 /\ live = 0 /\ resp = 0 /\ req = 0 /\ asked = 0 /\ mixed = 0

HubInit ==
  \/ part = "control" /\ ControlInit /\ adminOff /\ configOff
  \/ part = "admin" /\ AdminInit /\ controlOff /\ configOff
  \/ part = "config" /\ ConfigInit /\ controlOff /\ adminOff

OnlyControl == part = "control" /\ UNCHANGED << part, adminVars, configVars >>
OnlyAdmin == part = "admin" /\ UNCHANGED << part, controlVars, configVars >>
OnlyConfig == part = "config" /\ UNCHANGED << part, controlVars, adminVars >>
HubNext ==
  \/ OnlyControl /\ (\E h \in Replicas : Reload(h))
  \/ OnlyControl /\ (\E h \in Replicas, t \in Tiers \cup {None}, effect, ok \in BOOLEAN : Assign(h, t, effect, ok))
  \/ OnlyControl /\ (\E h \in Replicas : Invalidate(h))
  \/ OnlyControl /\ (\E h \in Replicas, sent, ok \in BOOLEAN : Publish(h, sent, ok))
  \/ OnlyControl /\ (\E h \in Replicas : Deliver(h))
  \/ OnlyControl /\ (\E h \in Replicas : Relay(h))
  \/ OnlyControl /\ (\E h \in Replicas : Forward(h))
  \/ OnlyControl /\ (\E h \in Replicas : Resubscribe(h))
  \/ OnlyControl /\ (\E h \in Replicas : Connect(h))
  \/ OnlyControl /\ Snapshot
  \/ OnlyControl /\ End
  \/ OnlyControl /\ Receive
  \/ OnlyControl /\ Miss
  \/ OnlyControl /\ Fill
  \/ OnlyControl /\ (\E h \in Replicas : AskHub(h))
  \/ OnlyControl /\ (\E h \in Replicas : Lookup(h))
  \/ OnlyControl /\ (\E h \in Replicas : Keep(h))
  \/ OnlyControl /\ (\E h \in Replicas, arrives \in BOOLEAN : Answer(h, arrives))
  \/ OnlyControl /\ Lapse
  \/ OnlyControl /\ LapseResponse
  \/ OnlyControl /\ (\E h \in Replicas : LapseAt(h))
  \/ OnlyAdmin /\ (\E p \in Callers, t \in Plans : Create(p, t))
  \/ OnlyAdmin /\ (\E p \in Callers, t \in Plans, o \in BOOLEAN : Update(p, t, o))
  \/ OnlyAdmin /\ (\E p \in Callers : Rotate(p))
  \/ OnlyAdmin /\ (\E p \in Callers : Delete(p))
  \/ OnlyAdmin /\ (\E p \in Callers : Migrate(p))
  \/ OnlyAdmin /\ (\E p \in Callers, t \in Plans \cup {""} : Retier(p, t))
  \/ OnlyAdmin /\ (\E p \in Callers : Write(p))
  \/ OnlyAdmin /\ (\E p \in Callers, effect \in BOOLEAN : Fail(p, effect))
  \/ OnlyConfig /\ (\E f \in Updates : Edit(f))
  \/ OnlyConfig /\ (\E p \in Handlers, kind \in {"file", "payload"}, f \in Updates \cup {file} : Resolve(p, kind, f))
  \/ OnlyConfig /\ (\E p \in Handlers : Activate(p))
  \/ OnlyConfig /\ (\E p \in Handlers : PublishConfig(p))
  \/ OnlyConfig /\ (\E k \in ServicesOf(live) : Serve(k))

HubSpec == HubInit /\ [][HubNext]_<< part, controlVars, adminVars, configVars >>

Scope == (part = "control" => ControlScope) /\ (part = "config" => ConfigScope)

----------------------------------------------------------------------------
\* The properties of the component modules, each of the behaviours that explore its component.

\* A hub's cached tier is the one in Redis, unless a change is on its way to it or never will
\* be (CachedTiers).
HubCacheCoherent == part = "control" => CacheCoherent

\* An edge that has read its stream has its hub's configuration (Watch).
HubEdgeFollowsHub == part = "control" => EdgeFollowsHub

\* While the stream holds, no cached response of an older configuration is served, but for
\* one whose request was under way (Apply).
HubResponsesFollow == part = "control" => ResponsesFollow

\* Whatever write of a request fails, the only secret that works is the one on record
\* (deleteKey, createKey).
HubOnlyRecordedSecretWorks == part = "admin" => OnlyRecordedSecretWorks

\* A key nobody deletes has a record, through failed, repeated and concurrent migrations
\* (MigrateKeyLayout).
HubMigrationKeepsKey == part = "admin" => MigrationKeepsKey

\* Reloads one at a time leave no response behind that the present settings would not produce
\* (analyzeConfigUpdate).
HubResponsesCurrent == part = "config" => ResponsesCurrent

\* Converted to the file format and compiled again, the active configuration means what it
\* meant (FromInternal).
HubMigrationKeepsMeaning == part = "config" => MigrationKeepsMeaning

\* A caller that names no tier has one, it is defined, and every request costs something
\* (validateAuth).
HubEveryCallerLimited == part = "config" => EveryCallerLimited
=============================================================================
