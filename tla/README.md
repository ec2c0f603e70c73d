# keycloak-operator: a TLA+ verification project

The keycloak-operator reconciles Kubernetes custom resources (Realm, Client,
ClientScope, RealmRole, IdentityProvider, Group) with a Keycloak server through
its Admin API. This directory holds TLA+ models of its Go code, TLC
configurations that model-check them, and proofs checked by TLAPS.

`PROJECT.json` is the index: it maps definitions to source lines and lists runs,
mutants, hazards, findings and theorems. Paths below are relative to the
repository; `engine.go` and the drivers are in `internal/controller/`.

## 1. The system

| Part | State | Operations |
|---|---|---|
| Engine (`engine.go`), called by six thin reconcilers | none of its own: the object in the API server (finalizer, last-applied annotation, status), its copy in the informer cache, the work queue with one timer, the resource on the server | one pass: deletion, connection, finalizer, protection, payload, Get, then create or adopt/update, PostApply, annotation, two status patches |
| Drivers (`driver_*.go`) | resources, ids, assignments and mappers on the server; the output Secret | Get, Create, Update, Delete, marker, PreparePayload, PostApply |
| Payload (`lastapplied.go`) | none: functions on JSON values | EffectivePayload, PayloadDiffers, MergePayload |
| Admin API client (`internal/keycloak/client.go`) | mutex, cached token and its expiry | Token, invalidate, Do |
| Provider (`internal/keycloak/provider.go`) | mutex, one cached client per connection with the versions it was built from | For |
| Connection controller | Ready condition, server version, `connection_up` gauge, timer | one pass: For, Token, ServerInfo, status patch |
| Manager (`cmd/main.go`) | flags | start, restart |
| Installer (`install.sh`) | the Deployment and the CRDs | uninstall, with or without the CRDs |
| Test server (`internal/keycloak/fake/server.go`) | in-memory Keycloak | the part of the Admin API that the operator calls |

How they interact. A watch without predicates puts an object into the queue on
every change, the operator's own writes included. The kind's single worker reads
the object from the informer cache, which lags but never goes back. The engine
obtains a client from the provider, which all workers share, and makes one call
after another. Between any two of them users edit or delete the object,
administrators change the server, the informer delivers, a call fails with or
without having taken effect, or the process restarts. Writes to the object are
Updates, which fail on a resourceVersion conflict, or merge patches, which do not;
the answer of either replaces the object in memory.

What is hard to get right, and was the guide to the properties (all hazards, with
their lines, are in `PROJECT.json`): stale copies against deletion and recreation;
passes that stop half way; answers that are lost; resources replaced between a
read and a write; status written in two patches from one base; passes that trigger
themselves; shared caches of clients and tokens; lists enforced item by item;
comparisons that never settle.

## 2. Modules

| Module | Models | Variables and actions |
|---|---|---|
| `Drivers` | what the engine can tell apart of the six kinds | per kind: marker, addressed by id, reads Secrets, guarded, and what PostApply does (nothing, what the spec declares, reads and enforces what is declared, enforces exactly) |
| `Engine` | `engine.go`, `managed.go`, the reconcilers | `api`/`cache`/`obj`: the object stored, cached, in memory; `remote`: the server by key; `pc`: the next call of the pass; `queued`, `timer`; one action per call (`Start`, `Connect`, `AddFinalizer`, `GetRemote`, ... `WriteSynced`) and per act of the environment |
| `EngineProperties` | | what the engine promises, and when it is at rest |
| `Lifecycle` | an abstract specification: one custom resource seen from outside | `object` (key, policy, held, being deleted), `server` (nobody's, foreign, ours); `User`, `Administrator`, `Operator` |
| `EngineLifecycle` | | what `Lifecycle` sees of the state of `Engine` |
| `Fleet` | many objects and their controllers against one server | `obj`, `server` by kind, realm and name, `pc` per object, `due`, `deployed`; one action per request, plus users, administrators, crashes, uninstallation |
| `Payload` | `lastapplied.go` with stamping and secret injection | `spec`, `secret`, `last`, `server`; a pass is one step |
| `AdminClient` | `client.go` | the mutex, the cached token, each goroutine's progress, the server's tokens |
| `Connection` | `provider.go`, `keycloakconnection_controller.go` | connection, Secret, their cached copies, the provider's entry, each caller's progress, condition, gauge, timer |
| `Enforcement` | PostApply of roles, groups and clients | items by name and id, lists held, wanted and being worked on |
| `OutputSecret` | `ensureOutputSecret` and `status.secretName` | Secrets, their cached copies, the Client, the client secret |
| `Mappers` | PostApply of identity providers | mappers by name and id, the list that was read, what is left to do |
| `EngineProofs`, `LifecycleProofs`, `PayloadProofs`, `FleetProofs`, `ConnectionProofs`, `EnforcementProofs`, `OutputSecretProofs`, `KeycloakProofs` (of `AdminClient` and `Mappers`) | | theorems (section 5) |
| `MC*` | | the constants of the runs |

How they fit together. `Engine` has the hooks as single calls that succeed or fail
(`PostApply`, `Prepare`) and one representation field that is set, reset or absent.
What the hooks do call by call is in `Enforcement`, `OutputSecret` and `Mappers`;
what the comparison does with nested values is in `Payload`. `Engine` has the
connection as up or down; `Connection` says when it is which. `Connection` has the
token call as one step, answered from the client's cache or by a grant; `AdminClient`
has what happens inside.

Two modules look at a pass from further away. `Lifecycle` says what one object's
users and the server's administrators may rely on, without passes, caches or
failures; that `Engine` implements it is checked (`ImplementsLifecycle`) and proved.
`Fleet` composes the passes of several objects: they meet on the server, in a realm
that one of them makes, through the lists in which they name each other, and where
two name one resource.

### Abstractions worth knowing

- *resourceVersions.* They are only compared for equality, so `Engine` keeps "this
  copy is current" in place of numbers. `Connection` keeps the numbers, because the
  provider's cache is keyed by them.
- *Calls that fail.* A failing write may or may not have taken effect. A restart is
  possible at any step and loses everything in memory.
- *Conditions.* A condition has its reason and the generation it observed. Reason
  `Succeeded` comes with two messages; both are kept, since a changed message is a
  write.
- *Annotation.* A user may drop the last-applied annotation or make it unreadable
  (`Garbled`, engine.go:182-185). Encoding a typed spec (170-179) cannot fail and is
  no branch of the model.
- *Timers.* A `RequeueAfter` or resync that expires during a pass takes effect when
  the pass ends, because the queue does not hand out a key that is being worked on;
  `TimerFires` and `InformerResync` therefore wait for `idle`.
- *Budgets and loads.* Users, administrators and faults spend what a run gives them.
  A run starts from any of several budgets, each a combination taken as far as it
  goes, so that a run need not afford all of them at once.
- *Left out of `Engine`.* Events and reconcile metrics.
- *Fleet.* A pass reads the object as it is and writes its status at once (`Engine`
  has the rest), and each kind has one worker, as controller-runtime does by default.
  What is on the server was made by the operator: it carries the marker and any object
  may go on managing it, identity providers excepted, which have no marker and are
  known to an object by its annotation only. `cascades` chooses
  between a server that drops a realm's contents and the assignments of what it
  deletes, and the test server, which keeps both.
- *Enforcement.* A group's realm roles come first, roles added before others are
  removed. Then the roles of clients that `clientRoles` no longer names are removed,
  client by client, and after them the clients that it names are gone through, in any
  order, since both are Go maps. The default and the optional scopes of a client are
  two independent lists, and removing a scope whose id is dead answers 204, as in the
  test server.
- *Payload.* `managedValueEqual` calls itself on nested values. The model calls a
  constant operator there, `NestedEqual`, which a run makes `ManagedValueEqual` itself
  and a proof knows only by `RecursionAssumption`: on the values that occur, it is
  `ManagedValueEqual`. So the comparison is the code's at every depth, and can be
  reasoned about. `Values` are the JSON values that occur, and `Depth` any measure
  that falls with nesting. What the server keeps of a value that it is sent is one of
  `Norms`: as it is, an array in another order, objects with an id added; it may leave
  cleared fields out.
- *Mappers.* Equal configurations stand for `mappersDiffer` being false.
- *Connection.* `kc.Token` answers from the token that the client has, if any, and
  otherwise asks for one with the client's credentials. So a client whose credentials
  no longer work may pass for working until its token lapses. Clients that nobody
  refers to any more are forgotten, and their tokens with them.

## 3. Runs

All bounds are constants of the modules, spent by guards.

| Run | Bounds | States | Shows |
|---|---|---|---|
| `engine_safety` | Group driver, CreateOnly + Delete; (user, administrator, fault) = (3,0,0), (2,1,1) or (1,3,0) | 0.9 M | `DeletionNeverRaces`, `NoLeak`, `NeverDisowns`, `TakeoverNeedsConsent` |
| `engine_live` | Client driver, two keys, each adoption and each deletion policy; eight budgets: two user actions that change policy or key, or that meet a fault, or one with up to three actions of administrators | 0.55 M | `RecordsOnlyEnforced`, `Converges`, `DeletionCompletes`, `GoesQuiet`, `ImplementsLifecycle` |
| `fleet` | a realm and two objects in it, six ways; seventeen loads | 0.2 M | `NothingLeft`, `DeletionsComplete`, `Settles` |
| `payload_settle` | 3 edits over nested specs, servers, Secret values | 28 k | `SpecEnforced`, `Settled`, `ScalarsReset`, `OthersKept` |
| `admin_client` | 2 goroutines, 4 calls, 2 revocations or expiries, 1 fault | 0.2 M | `OneGrantAtATime`, `SecondTokenIsNew`, `CallsReturn` |
| `connection` | controller and 1 reconciler with 1 event, or the controller with 2 | 0.7 M | `ClientMatchesRead`, `ReportsTruth` |
| `enforcement` | 3 kinds, 2 names, a group's roles of 2 clients, 2 edits, 3 administrator actions (2 for a group), 1 fault | 0.3 M | `SuccessEnforces`, `GrantsKept`, `UnsetUntouched`, `Enforced` |
| `output_secret` | 2 names, 2 keys, 2 values, 2 user actions, 1 rotation, 1 fault | 0.2 M | `ForeignKept`, `EntriesKept`, `InPlaceKept`, `Exported`, `Settles` |
| `mappers` | 2 names, 2 configurations, 1 edit, 2 administrator actions, 1 fault | 0.1 M | `SuccessEnforces`, `OnlyRepairs`, `Enforced` |
| `foreign_deleted`, `disowned`, `teardown` | see section 6 | | violations |

Why the bounds are enough. Two user actions create an object and then edit or
delete it; the third creates it again under the same name. The shortest takeover
takes three administrator actions: a change that a pass whose copy of the object has
no annotation yet finds, and, between its Get and its Update, the deletion of the
resource and the creation of another; the mutant of `TakeoverNeedsConsent` needs
them. The liveness properties have to heal a fault, an
administrator's change, and a refusal whose cause goes away, also one that the status
has on record already, which takes two or three changes; the policies are not crossed
with each other, each being edited to and from the default. Two goroutines are what a race over
a token needs; the proofs cover any number. Three administrator actions delete an
item, recreate it and assign it. A fleet of a realm and two of its contents has
every relation between two objects that the code knows: container and content, one
listing the other, both listing each other, both naming one resource, with a marker
and without.

Every property has a mutant in `PROJECT.json`: a change to one mapped definition,
of the kind a bug in that code would be, under which TLC finds the property
violated. Mutants are defined next to the definition they change.

Runs with `CHECK_DEADLOCK FALSE` are of systems that come to rest when nobody acts.

## 4. Fairness

- `Engine`: weak fairness of the worker, the informer's deliveries and resync, and
  the timer, each of which controller-runtime keeps going. The resync is the informer's
  own, every ten hours unless the manager sets another period, which `cmd/main.go` does
  not: it is what remains of "or the periodic resync" (the repository's
  README.md:187-189) after a terminal error, which schedules nothing itself. Nobody has
  to edit, repair, fail or restart anything.
- `AdminClient`: strong fairness of each goroutine. HTTP requests end (30 s
  timeout), and Go's mutex does not starve a waiter.
- `Connection`: weak fairness of the controller, of calls of `For` that have begun,
  of deliveries and of the timer. The token of the cached client lapses some time: it
  has an expiry. No reconciler has to call.
- `Fleet`: weak fairness of a pass that has begun and of the deletion of the CRDs;
  strong fairness of beginning a pass over each object that is due, because a kind's
  worker is busy now and then and its queue is first in, first out; the informer's
  resync of each object, as in `Engine`.
- `Enforcement`, `Mappers`, `OutputSecret`: passes recur, because success is
  followed by the resync and an error by a retry; watches deliver; the garbage
  collector runs.

Liveness is stated as "eventually for good", which covers the case that users and
faults stop; the bounds make them stop. What is reached for good is a state of rest,
and says more than that the outcome is right: `AtRest` (`Engine`, `Fleet`), `InPlace`
(`Enforcement`, `OutputSecret`, `Mappers`) and `UpToDate /\ Told` (`Connection`) also
say where caches and passes may be, which is what makes them last. Section 5 proves
that they do.

## 5. Proofs

TLAPS proves, for every value of the constants (any number of keys, names, values,
specs, objects, callers or goroutines, and any bounds):

| Theorem | Statement | Needs |
|---|---|---|
| `EngineProofs!TypeCorrect` | `Spec => []TypeOK` | `IdResolves` |
| `EngineProofs!NoDeletionRace` | `Spec => []DeletionNeverRaces` | `RaceInv` |
| `EngineProofs!NothingRecordedEarly` | `Spec => []RecordsOnlyEnforced` | `RaceInv`, `RecordInv` |
| `EngineProofs!MarkerNeverDisowns` | `Spec => NeverDisowns`, for kinds with a marker | `OwnInv` |
| `EngineProofs!ConsentById` | `Spec => TakeoverNeedsConsent`, for kinds addressed by id | `OwnInv` |
| `EngineProofs!NothingLeaks` | `Spec => []NoLeak`, for specs that keep one key and the Delete policy | `RaceInv`, `LeakInv` |
| `LifecycleProofs!LifecycleImplemented` | `Spec => ImplementsLifecycle` | `RaceInv`, `DeletionInv` |
| `EngineProofs!OnePassSuffices` | an undisturbed pass from a current copy ends with spec, server, annotation and conditions in agreement | `PassInv` |
| `EngineProofs!NextPassConfirms` | the one after it writes nothing to the server and observes the generation | `AgainInv` |
| `EngineProofs!RestIsClosed` | `AtRest` lasts, with object and server untouched, until somebody acts | `TypeOK` |
| `PayloadProofs!Reflexive` | a value equals itself, at any depth | `Depth` |
| `PayloadProofs!EqualCarries` | what compares equal carries what is wanted, at any depth | `Depth` |
| `PayloadProofs!CarriesEqual` | what carries what is wanted compares equal, at any depth | `Depth`, `ElementsAssumption` |
| `PayloadProofs!SpecEnforcedAlways` | `Spec => SpecEnforced` | `EqualCarries` |
| `PayloadProofs!SettledAlways` | `Spec => Settled` | `CarriesEqual`, `NormsAssumption` |
| `PayloadProofs!ScalarsResetAlways` | `Spec => ScalarsReset` | types |
| `PayloadProofs!OthersKeptAlways` | `Spec => OthersKept` | types |
| `FleetProofs!FleetTypes` | `Spec => []TypeOK` | itself |
| `FleetProofs!NothingOutlives` | `Spec => []NothingLeft` | `Exclusive`, `Settled`, `Contained` |
| `FleetProofs!NobodyForgotten` | `Spec => []Attended` | itself, `TypeOK` |
| `FleetProofs!RestIsKept` | `AtRest` lasts, with objects and server untouched, until somebody acts | `TypeOK` |
| `KeycloakProofs!ClientTyped` | `ClientSpec => []ClientTypeOK` | itself |
| `KeycloakProofs!OneGrant` | `ClientSpec => []OneGrantAtATime` | `ClientTypeOK` |
| `KeycloakProofs!SecondTokenNew` | `ClientSpec => []SecondTokenIsNew` | `NewInv` |
| `KeycloakProofs!CallsAdvance` | whoever acts, a call under way comes closer to its end or is not touched; it has nine steps at most | `OneRetry` |
| `ConnectionProofs!ConnectionTypes` | `Spec => []TypeOK` | `IInv` |
| `ConnectionProofs!ClientOfRead` | `Spec => []ClientMatchesRead` | `OneHistory` |
| `ConnectionProofs!OnePassTells` | an undisturbed pass from current copies, and no outdated token, ends with `Told` | `UpToDate`, `BaseCurrent` |
| `ConnectionProofs!TruthIsKept` | `UpToDate /\ Told` lasts, with the connection unwritten, until something happens | `UpToDate` |
| `ConnectionProofs!AlwaysRevalidated` | `Spec => []Scheduled` | `VersionsGrow` |
| `EnforcementProofs!EnforcementTypes` | `Spec => []TypeOK` | `IInv` |
| `EnforcementProofs!UndisturbedExact` | `Spec => []SuccessEnforces` | `Undisturbed` |
| `EnforcementProofs!GrantsStay` | `Spec => GrantsKept` | `Working` |
| `EnforcementProofs!UnsetStays` | `Spec => UnsetUntouched` | `Working` |
| `EnforcementProofs!AloneSucceeds` | an undisturbed pass whose names all exist succeeds | `Undisturbed` |
| `EnforcementProofs!InPlaceIsKept` | `InPlace` lasts, with the lists untouched, until somebody acts | `Working` |
| `OutputSecretProofs!OutputTypes` | `Spec => []TypeOK` | `IInv` |
| `OutputSecretProofs!ForeignUntouched` | `Spec => ForeignKept` | `CopyCurrent`, `Working` |
| `OutputSecretProofs!OtherEntriesKept` | `Spec => EntriesKept` | `CopyCurrent`, `Working` |
| `OutputSecretProofs!OnePassExports` | an undisturbed pass from current copies ends with the value exported and its name reported | `ExportInv` |
| `OutputSecretProofs!ExportIsKept` | `Spec => InPlaceKept` | `IInv` |
| `KeycloakProofs!MappersTypes` | `Spec => []TypeOK` | `IInv` |
| `KeycloakProofs!UndisturbedEnforces` | `Spec => []SuccessEnforces` | `Undisturbed` |
| `KeycloakProofs!PassesOnlyRepair` | `Spec => OnlyRepairs` | `IInv` |
| `KeycloakProofs!AloneSucceeds` | an undisturbed pass succeeds | `Undisturbed` |
| `KeycloakProofs!InPlaceIsKept` | `InPlace` lasts, with the mappers untouched, until somebody acts | `IInv` |

Assumptions are named in the modules that declare the constants, and TLC evaluates
them in the runs: the constants have their types, bounds are natural numbers, `None`
(and `Garbled`, `Free`) is none of the values it stands beside, and in `OutputSecret`
there are a name, a key and a value. `Payload` assumes more, of the values that
occur: each has one JSON type and is nested to a finite depth, none is the mask, a
spec has no null, attributes and the object with the credentials are objects, and the
credentials come from the Secret; what the server keeps carries what it was sent, and
an object with entries is not emptied; elements of an array are told apart by what
they say. See `ValuesAssumption` and the five after it. The driver of `Engine` is any
member of `KindType`, not only one of the six kinds'.

The arguments, in short.

*Types of the engine.* `TypeOK` says that a pass that updates has a resource in hand.
That needs `IdResolves`: while a pass may still use the id it resolved, a live id
belongs to the resource under the object's key.

*No deletion race.* `DeletionNeverRaces` is about the object in the API server, and
the pass knows only a copy of it, read from a cache. `RaceInv` is what a copy is
worth: one that says "held by the finalizer, not being deleted" may be wrong about
the deletion but not about the object's existence. It is preserved because only a
pass takes the finalizer off, because it does so by an Update that demands the
current resourceVersion, and because the copy it started from was the cache's,
which therefore is current as well: no other copy can still say "live".

*Records.* A status patch carries a generation only if the pass set it, which it does
after enforcing it. The danger is a patch that reaches another object of the same
name, since merge patches carry no resourceVersion at first. `RecordInv` says that
whoever has a generation to record works for an object that is held, and a held
object is not replaced behind a pass.

*Ownership.* `OwnInv`: the marker tells the operator's resources from foreign ones;
what a pass read is what is there as long as the id it resolved is live; and a pass
that updates has adopted, or found the marker or the annotation. Kinds without a
marker do disown (section 6), and kinds addressed by name do take over.

*Nothing leaks.* `LeakInv` adds that what the operator owns is held by an object
with its key; that a pass about to release the finalizer leaves nothing behind;
and that a pass that looked for the id and found none has nothing to delete. A
Create or an Update that makes a resource the operator's happens in a state where
`RaceInv` says that the object is held. A key that is edited is outside the theorem
and outside what the code does: see section 6.

*Lifecycle.* Every action of `Engine` is mapped to one of `Lifecycle`'s or to a
stutter. `Release` is the hard one: it needs that the copy the pass decided on is
current, so that the policy it acted on is the object's, and that what the pass
deleted has not been made the operator's again since. A stale copy may run a
deletion again that had completed; `DeletionInv` says that nothing of the operator's
is left for it to delete, because nothing is served before the cache has moved on.

*Fleet.* Two objects may name one resource. The one that is removed deletes it and
then releases its finalizer, and nothing may create it again in between: the two are
of one kind, and a kind has one worker (`Exclusive`), so the resource is gone at the
release (`Settled`). Deleting a realm removes its contents, and they are not created
without it (`Contained`), so a resource never survives for want of a realm to ask.

*Second token.* After a goroutine dropped the cached token, neither the cache nor an
answer under way holds a token that was dead then. An answer is under way only to
the holder of the mutex, and invalidate waits for the mutex: that is why dropping a
newer token, which `invalidate` may do, is harmless, and why it must lock.

*Clients.* `For` reads under no lock, looks the client up under one and inserts it
under another. `OneHistory`: there is one history of the Secret, from versions to
credentials, that the Secret, its copies, what callers read, the cached client and
every client handed out agree with. A client of the version a caller read is
therefore one of the credentials it read, whoever built it.

*Lists.* Roles are removed by ids that were read in an earlier call. `Working` says
that ids are not used again, so an item that was read and is alive still has the id
that was resolved under its name: it is not among those removed. `Undisturbed` says
how far an undisturbed pass has come with each list, call by call.

*Output Secret.* Update demands the resourceVersion that was read, and Create that
there is nothing; `CopyCurrent` makes of the first that the copy the decision was
taken on is what is there at the moment of the write.

*Mappers.* Updates and deletions go by the id that was listed, and ids are not used
again, so a mapper that was replaced since is not met. What an update does meet gets
the spec's configuration, which leaves one that is right as it is; a creation is refused
where there is one; and what is deleted has a name that the spec does not have.

*Payload.* `Reflexive`, `EqualCarries` and `CarriesEqual` are inductions over the depth of a value:
of the values for which the statement fails, if there are any, one is shallowest
(`Shallowest`, from the well-foundedness of the natural numbers), and for what is
nested in it the statement holds. The greedy scan of `managedValueEqual` over a list
is the point of all three. For `Reflexive`: the first place that is left when an
element looks for its equal is its own. For `EqualCarries`: elements take distinct
places, so the scan is a one-to-one matching. For `CarriesEqual`: given a matching, a
place that the scan gives to another element was that of an equal one, so that there
is one left for each. `Settled` then needs that what the server shows back carries what
was sent, cleared fields kept or left out and the credentials masked, and that the
payload computed from the new annotation asks for no more than the one before.

*One pass, and rest.* What liveness says is split. That something happens at all is
fairness, and is TLC's. What is proved is the rest of the argument. A pass that
nobody disturbs does all there is to do, from whatever state it finds
(`OnePassSuffices`, `OnePassExports`, `OnePassTells`; for `Enforcement` and `Mappers`,
`AloneSucceeds` together with `SuccessEnforces`). Once it is done, it stays done and
nothing is written again (`RestIsClosed`, `RestIsKept`, `InPlaceIsKept`,
`ExportIsKept`, `TruthIsKept`). And nobody is left without a pass to come
(`NobodyForgotten`, `AlwaysRevalidated`), and no call of the Admin API client is ever
sent back by another's (`CallsAdvance`). In the first group the hypothesis is a state
in which a pass has begun with current copies (`Begins`; such states are reachable in
the runs' instances) and the step relation is `Next` without anybody's interference;
other passes, callers, caches and timers go on.

Each needs to say what the copies in flight are worth. In `Engine`, `PassInv` follows
a pass call by call: what the copy says of the object (`CopyInv`), what the server
has by then (`ServerInv`). The two status patches are computed from one base, so the
second must be shown not to undo the first. In `Connection` the reconcilers may at
any time replace the cached client by one of older versions; the controller's client
is nevertheless of the credentials it read, because that is `ClientMatchesRead`. In
`OutputSecret` the passes after the first may work from caches that do not show its
write yet: their Create or Update then fails on the resourceVersion, and the value
stays.

*Nobody forgotten.* An object that is being deleted is queued or its deletion is under
way; a live one is queued or worked on, unless it was refused as another's, which
schedules nothing. Proved by cases of how a pass ends: it drops the object, reports
with a requeue, goes on, or refuses. A removal during a pass over the live object is
covered by the watch, which queues what is not the same as before.

Only model-checked: the liveness properties themselves (`Converges`,
`DeletionCompletes`, `GoesQuiet`, `CallsReturn`, `ReportsTruth`, `Enforced`,
`Exported`, `Settles`, `DeletionsComplete`), since the prover has neither fairness
nor `ENABLED`; what is proved of each is above. `NeverDisowns` and
`TakeoverNeedsConsent` are proved for the kinds for which they hold.

## 6. Where code and documents disagree

Three runs show a documented statement violated by what the code does; the quotes
are in `PROJECT.json`.

- `foreign_deleted`: deleting an object under the Delete policy deletes the resource
  with its key, also one the operator refused to manage (engine.go:351).
- `disowned`: an identity provider whose creating pass stopped before the annotation
  was written is refused as foreign from then on (engine.go:261).
- `teardown`: `install.sh uninstall --purge-crds` removes the operator before the
  objects, whose finalizers nobody takes off any more: objects and CRDs stay, and so
  do the resources on the server (install.sh:350, :357).

Also seen while modelling, without a run:

- Terminal errors schedule no further pass (engine.go:165, 219, 256, 272, 294); the
  configured resync follows success only. If the status says so already, nothing is
  written and nothing queues the object either. When the cause goes away on the server,
  what remains is the informer's resync, every ten hours, and not the interval that the
  operator is configured with. `Converges` and `Settles` count on it.
- An object that names an identity provider that another object manages is refused and
  waits in the same way after the other is gone; of any other kind, both objects manage
  the resource.
- A pass that is overtaken by an edit stamps the two conditions with the generation that
  the annotation's patch answered with (engine.go:331-345), which it has not enforced.
  `observedGeneration` and the annotation are right, and the pass that the edit queues
  makes the conditions right.
- An update replaces what it sends as a whole (MergePayload): entries that others have
  put into an object the payload has too (`attributes`, which always has the marker; an
  identity provider's `config`) are gone after an update, though they are no reason for
  one. lastapplied.go:119-122 calls them "not ours to enforce", and docs/design.md:57-58
  says that "Fields the spec does not model are never touched on the server."
  `OthersKept` is about fields outside such objects.
- A number that leaves the spec stays on the server, which lastapplied.go:30-31 says,
  and so do the entries of an object that leaves it, until another field differs: the
  empty object compares equal to any. The repository's README.md:44-45 says that
  "removing a field from a spec resets it on the server". `ScalarsReset` is about
  strings, booleans and arrays.
- Lists are matched greedily (lastapplied.go:136-155). Of two wanted elements where one
  says all that the other says and less, it may take the place of the other, and the
  update be repeated at every pass; so would one of an object that the server empties.
  `ElementsAssumption` and `NormsAssumption` exclude both.
- What becomes of a scope that is assigned to one of a client's lists while it is in
  the other is Keycloak's affair and not in the repository; the test server keeps both.
- A rotated value behind a masked field is not sent until another field differs
  (lastapplied.go:160).
- A server that keeps a deleted realm's contents, as the test server does, keeps them
  for good when the objects are deleted after the realm's: the requests are answered
  with 404. `NothingLeft` is about a server that drops them.
- Deletion does not consult `Protected` either.
- Roles, realms and identity providers are updated by name: a resource replaced
  between Get and Update is taken over. Kinds addressed by id are not exposed, which
  is what `TakeoverNeedsConsent` shows.
- After a failing re-Get only Ready is written (engine.go:233-237); Synced keeps
  what it said before.
- The outcome metric looks at Ready only: a pass that returns an error counts as
  terminal, never as error (engine.go:110-120).
- Editing the key leaves the resource under the old key behind.
- When a connection is deleted, the gauge and the cached client stay.
- A role's composites are cleared when the spec does not set them, and so are an
  identity provider's mappers, unlike the lists of groups and clients.
- `status.secretName` is not cleared when `secretOutput` is removed.

## 7. Not modelled

- Flags, probes, certificates and leader election of the manager: process set-up. A
  second operator that still runs after losing its lease would be a model of the
  lease's timing, which is not in this code.
- Schema validation by the API server (CEL rules, enums): the models start from specs
  that it accepts.
- Group paths, the SMTP block of a realm beyond its Secret, protocol mappers nested
  in a payload: data that no decision of the engine depends on, compared as `Payload`
  compares any value.
- Counters and histograms, which nothing reads; body limits and TLS settings; URL
  building and decoding.
- Version information, generated deep copies, charts, manifests, the release script,
  and the installer other than its uninstallation.

Reasons are with the components in `PROJECT.json`.

## 8. Where to go on

1. A kind with several workers (`MaxConcurrentReconciles`), should the manager ever
   set it: `Exclusive` is what `NothingOutlives` would lose.
2. `Fleet` with foreign resources and adoption, to follow a takeover between two
   objects rather than between an object and an administrator.
3. A refinement from `Engine` to one object of `Fleet`, which would make the
   abstraction of a pass in `Fleet` a checked one.

## 9. Running

    tlc -workers 2 -config MCEngine_safety.cfg MCEngine
    tlapm EngineProofs.tla

On two cores each run finishes within two minutes or so; the proofs take about ten
minutes for `EngineProofs`, three for `EnforcementProofs` and one or two for each of
the others. A proof step that names no prover is tried with the chain at the head of
its module, quick attempts first.
