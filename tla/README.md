# infrena-provider-gcp in TLA+

A TLA+ model of the GCP provider for infrena: the runtime in
`internal/gcprov`, which turns the host's four verbs (create, read, update,
delete) and its scan for existing resources (discover) into calls of Google's
REST APIs, and the generator in `internal/gen`, which derives from Google's
published documents the urls, verbs and names those calls use. TLC checks the models
on small instances; TLAPS proves the most important properties for every value of the constants.

Contents: [the system](#the-system) · [modules](#modules) ·
[runs](#runs) · [fairness](#fairness) · [proofs](#proofs) ·
[what the models found](#what-the-models-found) ·
[not modelled](#not-modelled) · [plan](#plan)

## The system

The host (infrena) holds a **record** of every resource: its type, provider id
and attributes. It plans by comparing configuration with the record it has just
refreshed, and calls the plugin, which runs the provider in this repository.
The provider is stateless apart from caches; everything that can go wrong comes
from the network, from GCP's asynchronous and eventually consistent APIs, from
other users of the same project, from a caller's context that ends, and from
how GCP writes what it was sent.

| component | source | state it keeps | operations | what makes it correct |
|---|---|---|---|---|
| Rate limiter | `backoff.go` | the token bucket, shared by all goroutines that use one (project, API) | `Wait`, `take` | never more than the rate and one burst; nobody sleeps too long; `Wait` returns |
| HTTP client | `client.go`, `errors.go` | limiters by key; one call's attempt | `Do`, `DoLongPoll`, `ClassifyError` | a retry never repeats a mutation that happened; what an error says is true of all attempts |
| Operation waits | `await.go` | the operation as last seen | `awaitAs`, `operationError` | reports what became of the operation; is not abandoned with the caller; ends |
| Create | `crud.go`, `setters.go` | none beyond the call | POST, await, `readAfterCreate`, `setAfterCreate`, `bestEffortState` | an error means that nothing was made: the host drops the result of a failed create |
| Delete | `crud.go` | none | `clearBeforeDelete`, DELETE, await, `confirmGone` | no record dropped while the resource exists; destroy converges |
| Update | `patch.go`, `setters.go` | none | PATCH, PUT (`readForPut`), one field at a time, setters, `readAfterPatch` | what others wrote survives; an error means that nothing changed; repeated plans converge |
| Read, import, state | `crud.go`, `listread.go` | none | `Read`, `Import`, `stateFrom`, `readByListingParent` | a 404 is believed late enough; the state is comparable with configuration |
| Reconciliation | `reconcile.go`, `projects.go` | the cached number of the instance's project | `attrs`, `value`, `object`, `list`, `projectAliases` | equality with configuration means no drift, and nothing else |
| Masks and bodies | `patch.go`, `crud.go` | none | `BuildMask`, `buildNested`, `mergeChanged`, `requestBody` | a planned change is sent, a removed attribute is not |
| Discovery | `discover.go`, `systemowned.go` | one scan's collections | `Discover`, `discoverViaCAI`, `discoverViaList`, `listOneType` | fails open, reports each resource once, ends |
| Identities, urls, names | `ids.go`, `urls.go`, `names.go` | none | `ProviderID`, `ParseProviderID`, `expandURL`, `schemaAttrs` | an id parses back to what it was made from |
| Catalog | `internal/catalog` | the embedded types, read-only | lookups | a type's templates and verbs fit its API |
| Plugin | `internal/gcpplugin`, `provider.go`, `cmd/infrena-plugin-gcp` | settings | registration, credentials | wiring |
| Generator | `internal/gen`, `internal/mmv1`, `internal/disco`, `cmd/gen-gcp`, `cmd/gen-docs` | the lock of names, a file | `Build`: match, classify, resolve collisions, `Assign`, `Lock.Save`, `buildType`, `checkNamesAreUnique` | a type it ships can be created, found again, changed and deleted; a released name never moves to another type; refuses contradictions |

How they interact. Every handler (create, read, update, delete, discover) calls
`Client.Do` for each request; `Do` waits for the limiter, sends, classifies the
answer, and retries what is safe to retry. A mutation's answer is an operation
that `awaitAs` polls with `Do` or `DoLongPoll`, under a context of its own that the
caller's cancellation does not reach. Every handler ends with `Read`, whose answer goes
through `reconciler.attrs` and becomes the host's record, which is the
reference of the next reconciliation and the left-hand side of the next diff.
Where each request goes is in the type: the generator matches every collection of
Google's discovery documents with its magic-modules resource, takes what one of the two
says of its urls, verbs and ids, repairs what does not fit the published methods, and gives the
type a name that the lock keeps for good. The runtime expands the type's templates with attributes,
settings and what an id parses to.

What is hard here, and to test: callers interleaved on a bucket; retries and lost
answers; a context that ends between two requests; operations that outlive
their wait, fail after having acted, or vanish; reads that lag behind writes;
optimistic locks moved on by others, or by one's own previous request; page tokens
that come round; one step of several failing; plans that never converge
because an answer is spelled differently; and facts of two sources that disagree about one API, where
a wrong address is a 404 that is believed. `PROJECT.json` lists them as
`hazards`, each at its line.

## Modules

| module | models | how |
|---|---|---|
| `TokenBucket` | | abstract: a bucket filled at every tick |
| `Limiter` | `backoff.go` | `take` under its mutex is one action (`Grant` or `Refuse`); `Wake` and `GiveUp` are the two arms of `Wait`'s select; floats are scaled to integers, the clock to ticks |
| `LimiterWindow` | | `Limiter` with a history variable that counts the grants of any window of time |
| `ApiErrors` | `errors.go`, `operationError`, `isNotFound` | pure operators: the kinds of failures the handlers tell apart, `ClassifyError`, how an operation's cause is rendered |
| `RemoteCall` | | abstract: what a handler may rely on when a call returns "ok", "refused" or "unknown" |
| `Client` | `Do`, `do`, `doOnce`, `sleepBeforeRetry` | one call; requests travel in `wire` and may be handled after the client gave up |
| `Await` | `awaitAs` and the waits of each completion kind | one wait; `phase` is the operation in the cloud, `view` the last answer |
| `Mutation` | what `crud.go`, `patch.go` and `setters.go` do with every POST, PATCH, PUT and DELETE | `Client` and `Await` composed: the request, then the wait for the operation it started, under one caller's context |
| `Create` | `Create`, `readAfterCreate`, `createdID`, `Read`'s patience, `setAfterCreate` | one create against an eventually consistent API |
| `Delete` | `Delete`, `clearBeforeDelete`, `confirmGone` | with the host that repeats destroys |
| `Update` | `Update`, `readForPut`, `patchOneFieldAtATime`, `updateThroughSetters`, `readAfterPatch` | with the host that repeats updates |
| `Discovery` | `Discover` and its two scans | pages, tokens and failures of every request |
| `Reconcile` | `reconcile.go`, `BuildMask` | pure operators over leaves, maps and lists; what an operator does to the values inside its own is a constant (`innerValue`, ...), which every `.cfg` gives that same operator |
| `Refresh` | `stateFrom`, `Import`, `Update`'s empty diff, `projects.go` | one resource under the host's plan: create, import, refresh, edit, update, changes by others, each answer reconciled with `Reconcile`; `Attrs` and `Depth` say how attributes nest |
| `Maps` | Go's maps | one map extended by another |
| `Templates` | `urls.go`, the segments of `ids.go` | url templates as sequences of segments (a literal, one value, a rest), their expansion, escaping, matching and captures |
| `Identity` | `ids.go`, `names.go`, and the urls, bodies and states of `crud.go`, `listread.go` | pure operators over a type: `ProviderID`, `ParseProviderID`, `CreatedID`, bindings, `ItemURL`, `RequestBody`, `StateFrom` |
| `Addresses` | `gen/build.go`, `gen/createid.go` | what `buildType` derives of a collection's create, item and delete addresses, create ids and their attributes |
| `UpdatePath` | `gen/build.go`, `gen/patchlimits.go`, `gen/setters.go`, `gen/methods.go` | the update verb, url, mask and wrapper, restricted patches, setters, and the whole built type (`BuiltType`) |
| `Collections` | `gen/build.go`, `gen/tier.go`, `gen/collisions.go` | matching with magic-modules, what ships, which of two collections with one name is kept and what the others are called |
| `Naming` | `gen/names.go`, `checkNamesAreUnique` | a state machine: the lock, its file (which a save tears before it writes it), a generation that names, saves, publishes or dies |
| `Catalog` | `Build`, and `Create`, `Read`, `Import`, `Update`, `Delete` as single steps | releases follow one another, and under a served type one resource lives in an API described by the documents' methods |
| `CatalogFits` | | what a type and the API it was derived from agree on (`Fits`), what its requests need of the API's methods (`RequestsFit`), how its fields come back (`FieldsFit`) and what a key keeps from release to release (`TypesAgree`): the hypotheses under which `Catalog` is proved, evaluated by TLC in `MCCatalog` |
| `*Proofs` | | the theorems about a module (`RemoteCallProofs`: `Client`, `Await` and `Mutation`; `CatalogProofs`: `Naming`, `Catalog` and `Templates`; `RefreshProofs`: `Reconcile` and `Refresh`) |
| `MC*` | | the module's instance for TLC |

The layers meet at `RemoteCall`. `Client` is shown to implement it
(`IsRemoteCall`), a wait of `Await` takes its steps (`FollowsTheOperation`), request
and wait together are one again (`MutationIsARemoteCall` of `Mutation`), and
`Create`, `Delete` and `Update` take a request or a wait as one step with the
three outcomes it allows. `Create` implements `RemoteCall` in turn
(`TellsTheTruth`): seen from the host, a create is again a call that is
answered, refused or unknown. `Limiter` implements `TokenBucket` (`EagerBucket`).
`Catalog` composes the generator with the runtime: `Naming` gives the names, `Collections` and `UpdatePath` the
types, `Identity` the requests and records. A call is one step there, since what happens inside of one is what the
other modules are about; and `Catalog` implements `Naming` (`CatalogIsANaming`).

**The documents and the API.** A collection in `Catalog` is what a discovery document and magic-modules say of it, with
the API they describe (`api`, external): which methods do what, where it learns a new resource's id from, how it spells names and links, which
fields a patch honours. `MCCatalog` writes down some 35 collections, each with the shape of a family of Google's
APIs that the generator has code for.

**Faults are a constant.** Each module names the things its environment may do
wrong (`AllFaults`, `Habits`); a run chooses a subset, and where the host
comes back again and again `MaxTrouble` bounds how many happen over a whole
behaviour, so that "when the trouble is over" can be said.

**Abstractions.** A name, message or payload is a model value or a member
of a small set. A leaf of `Reconcile` is what it says (`text`) and how it is
written (`spelling`): the string work of the seven equivalence rules
(`port_range`, `self_link`, ...) is reduced to whether two leaves say the same. Which
catalog type an asset belongs to is a constant of `Discovery`. A page token is the
number of the page it leads to, and pages are numbered as a listing comes by them.
A text of `Templates` is a sequence of words and separators, so that a value with a slash in it, its escaped form and a
full name differ; singular forms, camel case and id parameters of the words in use are constants.

**Mutants.** Definitions with a suffix (`Refuse_RefillLost`) are plausible bugs of
the definition they are named for: one for every checked property, to
show that the property notices. `PROJECT.json` pairs them up.

## Runs

| run | bounds | checks |
|---|---|---|
| `limiter` | 3 callers, 2 calls each, 3/2 requests per second in half-second ticks, windows of up to 3 ticks | `EagerBucket`, `RateBound`, `NoOversleep`, `WaitReturns` |
| `mutation` | 3 attempts, every API error, none of them after the server acted; the four kinds of completion, three errors a poll can end with | `IsRemoteCall`, `AtMostOnce`, `ThrottleIsRetried`, `FollowsTheOperation`, `NotAbandoned`, `DoneIsTaken`, `MutationIsARemoteCall`, `MutationReturns` |
| `create` | every fault, two setters | `TellsTheTruth`, `RecordsItsOwn`, `CreateReturns` |
| `create_unread` | only the readback fails | refutes `NoOrphan` |
| `delete` | two fields to clear, 3 faults over all destroys, every kind but `getless` | `NothingForgotten`, `NotFoundIsSuccess`, `DestroyConverges` |
| `delete_getless` | a type with no get, an expired operation | refutes `NothingForgotten` |
| `update` | two fields, two locked setters, 2 faults over all calls, every style but `bareput` | `EarlyErrorChangedNothing`, `NeverStaleTwice`, `KeepsOthers`, `OneCallSuffices`, `UpdateConverges`, `TypeOK` |
| `discovery` | two projects, three types, four resources, every arrangement of up to three pages | `EachOnce`, `FailsOpen`, `DiscoverReturns` |
| `refresh` | three schemas (an object, of which configurations name more and less; an unordered and an ordered list; leaves of every kind), 3 edits or changes by others; imports of the first two; GCP answers in every way but with elements of an unordered list respelled | `TypeOK`, `NoPhantomDrift` (but for a project lookup that failed), `DriftIsSeen`, `UpdateSettles` |
| `refresh_respelled` | the schema of lists, with that way too | refutes `NoPhantomDrift` |
| `catalog` | eight histories of corpora: flat APIs (compute), APIs with an id in path, query or body (storage, Cloud SQL, BigQuery, Dataproc), resource-oriented ones, enveloped ones, collections that magic-modules names apart, collections with rulings, folders, and three releases with a withdrawal in between and a type that grows; one resource | `RequestsArePublished`, `RecordIsTheObject`, `OneIdPerResource`, `NothingDrifts`, `CreatedIsRecorded`, `DeleteDeletes`, `NamesAreDistinct`, `NamesIgnoreTheOrder`, `ReleasedNamesAreKept` |
| `catalog_escaped` | one type whose names have a separator (`gcp.logging.metric`) | refutes `RecordIsTheObject` |

The type invariants of `Update` and `Refresh` are checked by their runs and proved; those of the other modules are only proved
(below), and no run repeats them. Why the bounds are enough:

- `limiter`: with 3/2 tokens in the bucket a burst leaves half a token, the
  case in which a caller sleeps for a fraction; three callers are one more than
  the bucket serves at once, so that one is overtaken. A window of
  three ticks is longer than the second that fills the bucket.
- `mutation`: three attempts are a first, a middle and a last one; one wait has no counter, and its states are complete but for the
  choice of three errors of a poll, one of each class the callers treat differently.
- `create`: one create has no loop but the setters', bounded by two (a first and
  a last) and the polling of a get, which has no counter.
- `delete`, `update`: two fields and two setters make every order and the case that
  the first request moves the lock of the second; a fault in the first call, one
  in the second and one more between them are three for `delete`. `update` is limited to two
  because five styles multiply its states; the proofs cover any number.
- `discovery`: three pages are the smallest listing whose tokens can lead back to an earlier page than the last.
- `refresh`: three changes let a resource be edited, drift and be edited again;
  states and references form a finite set that is explored completely.
- `catalog`: no counter; each history is explored completely. One resource is enough, since requests depend on no other; the listing of a
  parent holds two more with ids that resemble it. One history has three releases, so that a name is given, its collection withdrawn, and the
  name asked for again; a generation may die, or its save, at any point of any release.

`CHECK_DEADLOCK FALSE` everywhere: a call that has returned stops, and a
bounded user comes to an end.

## Fairness

Only what the code or its environment guarantees, as weak fairness:

- the goroutine of a call runs (`WF(Step)`, `WF(Running)`): Go schedules runnable goroutines;
- time passes and due timers fire (`Tick`, `PatienceEnds`, `Expire`);
- an HTTP round trip ends, because `Do` bounds it (`Timeout`, `longPollBound`):
  `Client`'s `Step` includes giving up; behind it the wait runs, up to the type's timeout (`Waiting`, `TimingOut`);
- GCP handles a request and ends an operation (`Handle`, `Finish`). Where it does
  not, the bounds above end the wait, and that is a fault of its own
  (`lost`, `untracked`);
- the user comes back to a plan that failed (`Refresh`, `Observe`).

Nothing is assumed about the order in which waiting callers of the limiter are
served: it has no queue. `WaitReturns` therefore holds for a bounded number of calls
(`MaxCalls`); under endless competition a caller may lose every race.
A rate below one request per second would never grant anything, since the bucket holds at most one
second's worth; the plugin leaves the rate at zero (unlimited) and nothing sets it lower.
No fairness is assumed in `Catalog`, whose steps are whole calls, nor in `Refresh`: what there is of convergence are the safety
properties that one patch is enough (`UpdateSettles`) and that a plan for which nothing is sent is about nothing configuration says (`DriftIsSeen`).

## Proofs

TLAPS checks these for every value of the constants that satisfies the
module's named assumption (`LimiterAssumption`, `ClientAssumption`, ...).

| theorem | says | along |
|---|---|---|
| `LimiterTypeCorrect`, `LimiterIsATokenBucket` | the bucket's bounds, and that it implements `TokenBucket` | the lazily refilled level is what the eager bucket holds; one lemma per action on the cap |
| `RateIsBounded` | `RateBound` for any window | grants in the window plus what is in the bucket never exceed burst plus accrual: the inductive invariant |
| `NobodyOversleeps` | `NoOversleep` | the timer was computed from the level, which others can only lower |
| `ClientTypeCorrect`, `ActsAtMostOnce`, `DoIsARemoteCall`, `ThrottlesAreRetried` | no mutation happens twice, `Do` implements `RemoteCall`, and a throttle is told only after the last attempt | `OnlyThisAttempt`: before an attempt is sent all earlier ones were answered, and answered with something that is safe to retry |
| `AwaitTypeCorrect`, `AwaitAbandonsNothing`, `AwaitTakesDone`, `AwaitFollowsTheOperation` | the wait reports what became of the operation | what is in view has happened, and an operation's end is final |
| `MutationTellsTheTruth` | request and wait together implement `RemoteCall` | both modules' invariants, and that nobody looks at the operation before the request is answered |
| `CreateTypeCorrect`, `CreateTellsTheTruth`, `CreateRecordsItsOwn`, `CalmCreateOrphansNothing` | `Create` implements `RemoteCall` under every fault | the location in `Create` bounds what can be made |
| `DeleteTypeCorrect`, `DeleteForgetsNothing`, `DeleteOfTheGoneSucceeds` | `NothingForgotten`, `NotFoundIsSuccess` | nil on its way back implies that the resource is gone, which is final; what was gone at the start leaves no operation to wait for |
| `UpdateTypeCorrect`, `UpdateEarlyErrors`, `UpdateNeverStaleTwice`, `UpdateKeepsOthers`, `UpdateNeedsOneCall` | an early error changed nothing; one stale refusal per call; what others wrote survives; undisturbed, one call does it all | one part per property, over the locations of `Update`; for the last, what is still to be sent carries a lock that is not stale, and what is not applied is still to be sent |
| `DiscoveryTypeCorrect`, `DiscoveryReportsOnce`, `DiscoveryFailsOpen` | each resource is reported once, and exactly if a scan that tells of it was not given up | what is collected of a listing lies on the pages before its token, of a project on the types already listed, of the whole on the projects already scanned; a search whose token came round never ends, so nothing of it is kept |
| `NamingTypeCorrect`, `NamesStayDistinct`, `OrderIsIgnored`, `ReleasedNamesStay`, `CatalogIsANaming` | two candidates never share a name, a released name never passes to another key, for any corpora and releases, with a crash at any point | `NamingInv`: the lock and what is being assigned are distinct together, the lock contains what was published, nothing is assigned when nobody names; every step of `Catalog` is a step of `Naming` or leaves it alone |
| `RefreshTypeCorrect`, `NoPhantomDriftHolds` | for every configuration, way of answering and schema without unordered lists: an untouched resource plans nothing, unless the project's number was looked up in vain | one law per operator of the round trip, each by induction over `Depth` (see below); `Faithful`, the invariant |
| `UpdateSettlesHolds`, `DriftIsSeenHolds` | whatever left the state, an import or a configuration that names less included: one patch makes GCP hold all that configuration says, and GCP holds it already when there is nothing to send | what a patch leaves reads as configuration under *every* answer (`PatchReads`), and what every answer reads as is what is held (`ReadIsHeld`); nothing to send is the patch that changes nothing |
| `EscapedValueIsOneSegment` | a value in a url is one segment and is read back as it was | elementwise over the text |
| `IdParsesBack`, `IdsAreDistinct` | an expanded path matches itself and captures what it was expanded with, so that different values give different ids; for paths and values of any length | `Segments` and `Joined` undo each other (`SegmentsOfJoined`, `JoinedSegments`), by induction over the text and over the segments |
| `OwnIdIsParsed`, `ReadAtItsOwnId` | an id that a type's own path made is parsed by that path, whichever import accepts it too, and the resource is then addressed at the type's prefix and that id | the path has the first turn; its segments are the id's, so that the collection's segments and the id's last one make up the same url |
| `ParsedIdIsMadeAgain` | an id that a path accepts is the one that the path makes of what it captured | the segments of the id, one by one, and the rest as a whole |
| `FoundAtItsFullName`, `ReadNamesTheResource` | a resource of a type that fits its API is found at its full name; under whatever name it is asked for, the state records that one | the get's path and `self_link` have one shape, so that what one captures the other expands; a full name in an answer, or a link reduced by the prefix, is taken before anything is computed |
| `CreatedIdIsTheKey` | the id recorded of a create is the full name of what it made, with whatever the create is answered | by the answer: the resource, nothing, a link to it, a link to what it is in; the last is recognized since the computed collection is longer than the parent's name |
| `RecordStaysTheObject`, `OneIdAlways` | `RecordIsTheObject` and `OneIdPerResource`, over every history of releases of types that fit | `LifeInv`, one lemma per action of `Catalog` |
| `EveryRequestIsPublished` | `RequestsArePublished`: whatever is sent, a method of the API takes it, at that url, with that query and that body | what a template says of a value is one segment (`AcceptedOneByOne`, `SaidOfItem`), so that the url has the segments of the method's path (`MethodIsPublished`); one lemma per kind of request |
| `WhatIsCreatedIsRecorded` | `CreatedIsRecorded` | the create's request is published, so that GCP acts on it, and `CreatedIdIsTheKey` names what it made |
| `WhatIsDeletedIsGone` | `DeleteDeletes` | by `LifeInv` the recorded id is the resource's full name; both forms of a delete, at that name or with its last segment in the query, are about it (`DeleteIsAboutTheItem`) |
| `NothingEverDrifts` | `NothingDrifts`: no attribute is planned again for ever, after whatever creates, imports, reads and changes, under whatever release's type | `DriftInv` (see below); what an answer shows of a resource attribute by attribute (`AnswerShows`, `ReadShows`), what a create sends (`CreateHolds`), a change leaves (`ChangeHolds`) and a later type still shows (`HoldsStill`) |

Assumptions of single theorems, beyond the modules' own:

- `DoIsARemoteCall` and `MutationTellsTheTruth` suppose `ActedErrors = {}`, an API error answer means that the server
  did not act; `ActsAtMostOnce` only that the answers that are *retried* do.
- `CalmCreateOrphansNothing` supposes `Faults = {}`.
- `DeleteForgetsNothing` supposes that the type has a get method (`"getless"` is no
  fault): the run `delete_getless` shows why.
- `EscapedValueIsOneSegment` supposes a value that was not escaped twice before.
- `IdParsesBack` supposes a path with a reserved placeholder only at its end (`IsTemplate`; every type of `MCCatalog` has such a path), a value for every placeholder,
  a first segment that is not empty, and a rest that does not start with a separator (`Fills`).
- `ReadAtItsOwnId` is about types without a template of their own for the request. Where the url is made of the collection (`InItsCollection`), it supposes that collection and
  path call a value by the same name and that nothing in the id's last segment is escaped: the run `catalog_escaped` shows why.
- The theorems of `Refresh` suppose `Recursive`: the constants `inner...` are the operators they stand for, on the attributes there are. This is
  what the configurations bind. TLC cannot evaluate it, since it speaks of every value; such operators exist, because each call is about an attribute of lesser `Depth`.
- They suppose `Ordered`, no unordered lists: matching elements across orders stays with TLC, whose run `refresh` has such a list.
- `RecordStaysTheObject` and `OneIdAlways` suppose `EverythingFits` of `CatalogFits`, the lemmas before them its parts. Every type is read by its own get at the API's one host;
  its paths are templates that ask for a value once, and its prefix is the API's (`FitsItsApi`); answers tell the full name, or a link that the prefix reduces to it (`AnswersTell`);
  nothing in the last segment of a full name is escaped (`IsResource`); a create is answered with the resource inside of its collection (`IsToldInside`), or the provider's own
  computation and the API's agree on what the resource is called (`ComputesTheID`); a key's get keeps its path from release to release. All this is about one type and one
  request: nothing is supposed of states or of histories. `MostTypesFit` of `MCCatalog` has TLC evaluate it for every type of every release of the runs, under every name: they all fit, but
  the one that is read through a list, those at a regional host, and the escaped metric of `catalog_escaped`. Of those the two properties stay with TLC.
- `EveryRequestIsPublished`, `WhatIsCreatedIsRecorded` and `WhatIsDeletedIsGone` suppose also `EveryRequestFits`, again of one type at a time: each role has a method whose path has the shape of the
  type's own template, literals first, and which takes the keys of that template's query and that form of body; a mask that an update's method requires is among what the type sends; a delete is sent to the resource's own
  address, or to what that is in with the last segment in the query; what a create's request says names what it makes. That a template's *expansion* then lands on the method, with every value escaped, and
  is about the recorded resource after any releases is what is proved. `MostTypesFit` has TLC evaluate this too, with the same exceptions.
- `NothingEverDrifts` supposes `EveryFieldFits` as well. Of one type (`FieldsFit`): an attribute is the only one of its field, and no field is spelt as another attribute; a field that changes in place
  is honoured by the method that changes it, which is about the item; what is configured is sent in the create's body, or only the id says it and says that, or nothing but the create takes it, or it is
  the name in one of the two forms in which an answer tells it (`ComesBack`); another name for the resource says of it what the full name says (`OtherNamesAgree`). Of two types (`TypesAgree`): a key that is
  released again keeps `self_link`, and its attributes with their fields, though there may be more of them and an output may become settable; its answers tell name and link as before. `MostTypesFit` has TLC
  evaluate all of it, over histories in which a type is withdrawn, comes back, and comes back with another attribute. It says what one create sends; that it is still so after any changes,
  reads under other names and later types is what is proved.
- `UpdateKeepsOthers` supposes that a PUT's body carries a lock (`"bareput"` is no style).

Folds. `Segments` and `Joined` are folds of the library, which defines a fold as a function of sets of places; `FoldExists` shows that there is such a function, and
induction is stated about a set (`CountingUp`, `Appending`) instead of about a predicate.

Why strengthen. None of the safety properties is inductive by itself: each is about the end
of a call (`result = "error" => ...`), and says nothing about the states on the way
there. The invariants relate the location in the handler to what the cloud can have done
by then; TLC was used to find them before they were proved.

The argument for `Refresh`. The recursion of `reconcile.go` is over the schema. `ByDepth` turns "a law holds of an attribute if it holds of what is inside" into
"it holds of every attribute"; the law for an object or a list then follows from the law of its fields or its element, and a leaf is a case of its own.
GCP's side has the laws `Strips`, `Fills`, `Merges` and `Changes` (what is sent, defaulted and merged still fits the schema, and defaulting twice is defaulting once), the provider's
the laws `Takes` (what was sent whole reads back as sent, in whichever way it is written), `Sees` (what an answer shows agrees with what is held) and `Patches`
(a patch of what differs from a faithful state makes every answer read as configuration). `NoPhantomDrift` is not inductive: the state says nothing of the next answer.
`Faithful` adds that the state is what some answer showed of what is held, and that, after an apply that nobody has disturbed, *every* answer reads as configuration.
Schemas are `WellFormed`, which is what the generator writes, and one assumption about the API: every object has a field that GCP fills in.

The argument for records. Neither property is inductive: they speak of types while these are served, and a type may be withdrawn and come back, made anew by a later release.
`LifeInv` says of every state, whatever is served: the record's id is the full name of what GCP has (equality, where the properties say "leads to"); its type's name is published for a
key, and every type that was ever offered under that key would accept the full name; what is served was offered, under a published name. With `NamingInv`,
by which a published name has one key, a type that comes back accepts what its predecessor recorded. A create establishes the equality by `CreatedIdIsTheKey`, an import and a read by
`ReadNamesTheResource`, a change leaves name and id alone, a delete ends both, since the resource is found at its full name.
For requests the same invariant is enough: a request is about the recorded id, or about the values of a create, and `StepSends` has of every step that it sends nothing or something published.

The argument for drift. State agrees with configuration only as long as every read shows it again, and what a read shows depends on the resource, its id and the type of the day; so the property is not
inductive. `DriftInv` says that the *resource* holds the configuration: what its answer and its full name say together, attribute by attribute, is what is configured, or the attribute is one that
only a create takes and state carries (`Holds`); and that some release so far would show it so. It keeps the place in the history (`IsAt`): what is served is of that release, and a type of a later
release shows of the resource what the earlier one did (`HoldsStill`, by `TypesAgree`). A create establishes `Holds` by what its body and url say, an import by what the answer says, under whatever name
the resource was known; a change moves one field in the resource and one attribute in the configuration, and nothing else says that field; a read keeps both (`ReadKeeps`). The short name that state shows
of a full one is a case of its own: shown once and written down, it is shown again (`ShownNameIsShown`).

Only model-checked: everything under fairness (`...Returns`, `...Converges`); the unordered lists of `Refresh`;
and, of `Catalog`, the types that do not fit in the sense of `CatalogFits`. These hold for the shapes of API that `MCCatalog` lists and not for every document one could write.

## What the models found

Four disagreements between what the code does and what it says of itself
(`findings` in `PROJECT.json` quotes the lines), each with the run that shows it:

1. `create_unread`: after a successful create, a readback that fails with
   anything but a 404 returns an error, and the host forgets the resource.
2. `delete_getless`: `confirmGone` GETs an item url that a type read through its parent's list does not have: the 404
   is taken for success.
3. `catalog_escaped`: `itemURL` escapes the last segment of an id whose segments are escaped already. A logging metric called `team/errors` is
   recorded as `projects/p/metrics/team%2Ferrors` and asked for at `.../team%252Ferrors`: the next read believes it absent and the plan creates
   it again, and a delete takes the 404 for success. Found as a hypothesis that the proof of `ReadAtItsOwnId` could not do without.
4. `refresh_respelled`: two elements of an unordered list that GCP answers in another order *and* another spelling read as drift on a resource
   that nobody touched: an element takes its spelling from the reference element at its position, a sibling (`reconcile.go:426`). The comments at
   lines 57 and 420 say that this has no effect.

### Known limits

What the models hold and no run refutes: a `google.longrunning` delete
that ends NOT_FOUND is returned as an error, because `operationError` renders its cause as the number 5,
which `isNotFound` does not know (`ApiErrors`; the next destroy finds the resource gone); the asset search compares a page token
only with the one just used, and follows one that leads back by two pages for ever (`LongCycle`, the exception of `DiscoverReturns`); a create's POST whose answer is lost, or that is out when the caller goes, leaves an
unknown outcome (`postErr = "unknown"`); a create whose operation is lost track of and is not
yet readable is an error; a taken name may be adopted by the readback of a failed create (`Adopted`);
a 404 of a clearing patch is returned by `Delete`, and the next destroy settles it; a PATCH whose answer is lost is
returned as an error although it may have taken effect (`unanswered`); a PUT without
an etag overwrites what others wrote since it was read; a failed project lookup is kept for
the life of the process, and what it leaves unequal reads as drift, as `projects.go:75` says and prefers (`aliases = "unknown"`, excepted in `NoPhantomDrift`); an id below
the resource that an operation names is recorded where the type's collection does not match its `self_link` (`crud.go:271`, excepted in `RecordsItsOwn`).

A plan may come again for ever although there is nothing to send for it (`patch.go:290`): the planner compares whole objects, and the diff only what configuration names. After an import an
object holds all that GCP reports, and configuration that names less is planned as a change: the diff is empty, `Update` returns the same state, and the plan comes back. Removing a nested field
from configuration, or adding an object that GCP had defaulted, has the same effect. The comments of `reconcile.go` call that "the single worst failure this provider can have" (line 25) of a
raw comparison and do not promise that it never happens, so that no run refutes a claim. What is checked, with such imports and configurations, is that it is harmless: when nothing is sent, GCP holds
everything that configuration says, at every depth (`DriftIsSeen`), and when something is, one patch is enough (`UpdateSettles`).

Of names: what the lock keeps is the name of a key, and a key is service, scope and resource (`names.go:36`). After a collection was
withdrawn, another of the same leaf has its key and takes its name; and when a collection of the same leaf appears, `disambiguateByPath` gives a released
collection a longer key, so that its name changes. `ReleasedNamesAreKept` is about keys for that reason.

Of types that ship (met while the collections of `MCCatalog` were written, from the documents in the repository):

- a `self_link` with a placeholder that neither the create url nor an attribute supplies makes `Create` fail after the POST succeeded, against `crud.go:31`
  (row access policies, routines, response policies and their rules, SQL ssl certs);
- a declared PATCH never asks whether the patch is restricted (`patchlimits.go:60` is consulted where magic-modules is silent);
- `checkNamesAreUnique` runs after the lock was saved, so a build it refuses has extended the lock.

## Not modelled

- `explainQuotaProject`, urls and limiter keys: wording and string work.
- Jitter and lengths of backoffs: a delay either passes or the context ends.
- The pages of `readByListingParent` (one step of `Catalog`): it follows page tokens without a guard.
- Of the generator: the attributes made of schemas (`attrs.go`), timeouts and operation facts (`facts.go`), references between types (`resolveRefs`,
  `dropRefs`), sensitive and observed fields, operation paths, endpoints beyond a regional host, the loading of overlays,
  and `send_with_update`: the one overlay with it is about an option inside a block (`overlay.yaml:126`), below the attributes of `Catalog`, to which `in_place` and `all_force_new` do apply. A template that changes between two releases while a record holds an id of the old one.
- Whether a name that cannot change is ForceNew: `fixed` in `MCCatalog` says what the API refuses, and `Change` does not try it.
- Which type an asset is, and which are Google's own (`SystemOwned`); an empty project
  is skipped and a repeated one scanned twice, which `Discovery` leaves out by taking `Projects` as a set.
- In `Refresh`: ForceNew replacements, and with them the import of a type with an attribute that only a create takes
  (no answer shows it, so that configuration that says it replaces the resource), attributes carried by setters or identifying the url,
  request options, and failing requests (which `Create` and `Update` have). `Reconcile` keeps no
  path for values whose kind contradicts their contents.
- Two locked setters that share one lock: none is in the catalog.
- Nested names (`names.go` below the top level), the decoding of the catalog and the plugin's wiring. Parsers of vendored documents and the Markdown generator have
  neither state nor ordering.

The host, GCP and its users are external: they are modelled from how the code in this
repository calls and describes them (for the planner, the comments in `reconcile.go`).

## Plan

Done: the limiter, client, waits, create, delete, update, discovery and reconciliation (all with proofs); identities, urls and
the generator with its names (proofs about the names, about ids that parse back and lead to their resource, about the record of a resource over every history of releases, about every request sent meanwhile, and about what state then shows of the configuration). Next, in this order:

1. `Bodies`: `BuildMask` with setters, url-identifying attributes and request
   options, `mergeChanged` for a PUT inside nested objects; checked against a reference
   ("what configuration does not mention keeps GCP's value") over bounded objects.
2. `Projects`: concurrent readers and the one lookup (`sync.Once`, the first caller's context).
3. Attributes made of schemas (`attrs.go`) and references between types, as inputs of `BuiltType` instead of constants.
4. An abstract host record (`exists`/`tracked`) that `Create`, `Update` and `Delete`
   implement together.
