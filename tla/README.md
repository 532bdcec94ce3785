# A TLA+ model of nelm-operator

nelm-operator reconciles a custom resource, `Release`, into a Helm release: it
fetches a chart through Flux source objects and installs, upgrades, rolls back
and uninstalls it with nelm. This directory holds TLA+ modules for the control
logic of the operator, TLC configurations that check them on small instances,
and TLAPS proofs of the main safety properties for every value of the
constants. Paths and line numbers refer to the repository at the commit this
directory was written against; `RC` is
`src/internal/controller/release_controller.go`.

## 1. The system

| Component | State it keeps | Operations | Model |
|---|---|---|---|
| Release reconciler (`RC`) | none in memory: the Release's status and finalizer, the Helm release storage | `Reconcile`, `reconcileInstall`, `reconcileDelete`, `handleSuccess`, `handleFailure`, `attemptRollback`, `stampOwnershipMarker`, `projectStatusFromStorage` | `ReleaseReconciler`, `Backoff`, `ReleaseLifecycle` |
| Inline chart source phase machine (`RC` 147-432) | `status.chartSourcePhase`, `lastAppliedChartSource`, `candidateChartSource`; an annotation on each shared source | `resolveChartRef`, `ensureChartSourceRef`, `cleanupChartSourceRef`, `ensureHelmChart`, `cleanupHelmChart` | `ChartSource`, `SharedSources` |
| Watches and triggers (`release_manager.go`, `release_indexer.go`, `predicates/source.go`) | informer caches, the work queue | Release, HelmChart, OCIRepository, ConfigMap and Secret watches, their predicates and map functions | `SourceWatch`; `CacheSync` and `ChartEvent` of `ReleaseReconciler`; `FluxEvent` and `MetadataEvent` of `DeployInputs` |
| Artifact resolution (`source/source.go`) | none | read the source, check readiness, download | `ResolveChartRef`, `SourceNotReady`, `ResolveChartRefFails` of `ReleaseReconciler` and `DeployInputs` |
| Values resolution (`values/values.go`) | none | `Resolve`: chart files, inline values, ConfigMap and Secret references | `DeployInputs` |
| Source builders (`source/builders_*.go`) | none | source spec to object, HelmChart and hashed name | `ChartBuilders` |
| nelm option builders (`RC` 797-1126) | none | Release fields to nelm options | plan and install options: `DeployInputs`; the rest is one value of `Wants` |
| API types, process set-up | none | - | fields the control flow uses; set-up not modelled |
| nelm, Flux, API server, controller-runtime | release storage, sources, objects, queue | - | external, from how the operator uses them |

How they interact. Users write Releases; the informer copies them into a cache
and enqueues them when their generation changes. A worker takes a key and runs
`Reconcile`: it reads the Release from the cache, and from then on makes one
call after another to the API server, to nelm and to the source. A call may
fail, the process may die between two of them, and while one runs the Release,
the storage and the source may all change. The only memory between two
reconciles is what was written: `status` (under optimistic locking), the
finalizer (merge patches, without it), the labels of stored revisions, and the
annotation on shared sources. What makes the operator come back is a queued key,
a `RequeueAfter` timer, or a watch event.

What is hard in it, and listed line by line as hazards in `PROJECT.json`:

* the cache is stale: a worker may deploy, or uninstall, for a Release that has
  since been edited, deleted, or created again;
* install and the status write that reports it are two steps, deletion is four,
  a source switch is six; any of them can fail, conflict or be cut by a crash;
* waiting for a watch event instead of a timer is right only if the event's
  predicate and map function let it through;
* retries are counted across reconciles and the delay is a shifted `int64`;
* several Releases share a source and are reconciled concurrently;
* the inputs of a deployment are read one by one, through caches that trail the
  watches which announce their changes, and from sources whose readiness may
  still be that of an older spec.

What makes each component correct:

* reconciler: nothing it deployed outlives its Release; it uninstalls only what is
  being deleted; a Ready condition is true; a promised retry comes; edits, drift
  and new charts end up deployed; deleted Releases go;
* phase machine: a Release settled on a source has it, no source is deleted while
  it is used, every Release settles, no source is left over;
* triggers: no event is needed that is filtered out, or that the index misses;
* values, builders and options: what is deployed has every input the spec
  requires; a change of any input is deployed in the end; plan and install agree,
  so that installs stop when nothing changes.

## 2. Modules

**`ReleaseReconciler`** is one Release with `spec.chartRef`. `rel` is the object
in the API server, `cache` the informer's copy; `cacheCurrent` and `viewCurrent`
stand for equality of resourceVersions. `storage` is the latest revision per
release namespace: its number, whether it carries the ownership marker, its
content, whether the cluster still matches it, and what a rollback would restore.
`chart`, `chartSeen` and `chartEvents` are the source, and what its informer has
and has not handled. `queued` and `timer` are the work queue (deduplicated) and a
pending `RequeueAfter`. The worker has `pc`, naming the external call it makes
next, and the Go variables `view` (`rel`), `preRel` and `foreignChange`.

| Code (`RC`) | Actions |
|---|---|
| `Reconcile` 71-96, early returns | `ReconcileSkip`, `ReconcileNew`, `ReconcileLive`, `ReconcileDeleted`, `AddFinalizer` |
| `Reconcile` 104-140 | `GetRelease`, `GetReleaseFails`, `ResolveChartRef`, `ResolveChartRefFails`, `SourceNotReady`, `WriteNotReady` |
| `reconcileInstall` | `PlanUpToDate`, `PlanChanges`, `PlanFails`, `StampOwnershipMarker`, `StampFails`, `Install`, `InstallFails` |
| `handleSuccess`, `handleFailure`, `attemptRollback` | `HandleSuccess`, `HandleFailure`, `ProjectSuccess`, `ProjectFailure`, `Rollback`, `ProjectRollback`, `WriteSuccess`, `WriteFailure` |
| `reconcileDelete` | `WriteUninstalling`, `Uninstall`, `WriteUninstalled`, `RemoveFinalizer` |
| watches, predicates, map functions | `CacheSync`, `ChartEvent` (with `SourceWatch!Enqueues`), `TimerFire` |

Everything else is a *disturbance* and spends a unit of `budget`: edits of
values, of `targetNamespace` and of `suspend`, deletion and creation, other Helm
clients that deploy or uninstall, drift, new artifacts, source outages, failing
reads, nelm calls and writes, crashes. `verified` is a history variable: what
nelm last confirmed or installed. `Backoff` computes the retry delay as the Go
expression does, with the sign and the loss of the high bits of the `int64`.

**`ReleaseLifecycle`** is the abstract specification: a phase and whether
anything owned exists. `ReleaseReconciler!Lifecycle` maps the phase to
`rel.phase` and ownership to a marked revision in some namespace.

**`ChartSource`** is a set of Releases with `spec.chart`, the sources they share
and the concurrent reconciles that join and leave them, one API call per step,
`retry.RetryOnConflict` included. It covers `resolveChartRef` and the parts of
`Reconcile` and `reconcileDelete` around it: what the reconcile does with the
resolved chart is `ReleaseReconciler`'s subject. The list of users in a source's
annotation is a set of names; joining an empty list and splitting it again gives
one empty name, as `strings.Join` and `strings.Split` do.

**`SharedSources`** is the abstract specification of the sharing: which sources are
live, and the Releases that each lists. Releases join and leave one at a time, and
a source goes only when it has no users. `ChartSource!Sharing` maps both to the
annotations of the sources that are not going away.

**`SourceWatch`** is what makes an update of a source enqueue a Release: the
predicate of the two source watches and their map functions. `ReleaseReconciler`
and `DeployInputs` both instantiate it.

**`ChartBuilders`** is the step from `spec.chart` to Flux objects, as operators:
which fields make up the spec of each kind of source, and with it the hashed
name; the HelmChart; the reference that `resolveChartRef` returns; and the index
that `SetupWithManager` registers. Fields that are only handed through are one
value.

**`DeployInputs`** composes the two with `values.Resolve` and the option builders.
It is one Release with `spec.chart`, the Flux objects made for it, and the
ConfigMaps and Secrets it refers to. `data` is what these hold, `typed` what the
informer shows that `Resolve` reads from, `unseen` the metadata events that are
still to come. `flux` is the HelmChart or OCIRepository behind each reference:
its spec, the artifact last built, and its Ready condition, which belong together
only when Flux is done. `deployed` is what nelm was last given, and the parity of
its revision. A content is the chart and the sequences of values, secret values
and keys in the order nelm gets them, so a missing, doubled or misplaced input
makes a difference.

| Code | Actions |
|---|---|
| `RC` 71-101, `resolveChartRef` | `Reconcile`, `SwitchSource`, `SwitchConflict`, `EnsureHelmChart` |
| `source.go` `ResolveChartRef` | `ResolveChartRef`, `SourceNotReady`, `ResolveChartRefFails` |
| `values.go` `Resolve` | `FetchReference`, `FetchSkipped`, `FetchFails` |
| `reconcileInstall`, `build*Options` | `PlanUpToDate`, `Install` |
| `handleSuccess`, `handleFailure`, source not ready | `WriteSuccess`, `WriteFailure`, `WriteNotReady` |
| watches | `CacheSync`, `FluxEvent`, `MetadataEvent`, `TypedSync`, `TimerFire` |

**`ReleaseReconcilerProofs`** and **`RetryProofs`** hold the theorems about
`ReleaseReconciler`, **`ChartSourceProofs`** and **`DeployInputsProofs`** those about
the modules they are named after; the one about `ChartBuilders` is in that module.
**`MCReleaseReconciler`**,
**`MCChartSource`** and **`MCDeployInputs`** have what only TLC needs (a later start
for one run, symmetry, the specs of a small instance).

Definitions marked "Faulty variant" are mutations of the definition after them;
each one breaks the property that `PROJECT.json` pairs it with.

## 3. Runs

Passing:

| Run | Checks | Shows |
|---|---|---|
| `release_safety` | `TypeOK`, `NoOrphan`, `RetryScheduled`, `UninstallOnlyDeleted`, `KeepsLifecycle` | three disturbances, two namespaces: what the operator owns never outlives its Release, `RetryPending` is kept, and the operator implements `ReleaseLifecycle` |
| `release_liveness` | `Converges`, `DeletionCompletes` | with a HelmChart that stays ready and two retries, every Release ends deployed as spec and source ask, every deletion ends |
| `release_oci` | `ReadyTruthful`, `Converges` | with an OCIRepository, outages, namespace changes, no retries and an interval of 0s, so that only watch events bring the worker back: a current Ready condition is never a lie, and the Release converges or stalls; under the assumption on Flux below |
| `chart_safety` | `TypeOK`, `AppliedSourceLive`, `DeletedOnlyUnlisted`, `KeepsSharing` | two Releases, two sources, failures and crashes: phase Ready means a live source that lists the Release, and the concurrent updates of the annotations implement `SharedSources` |
| `chart_liveness` | `Settles` | two Releases, `spec.chart` and `spec.chartRef`, slow finalizers: all settle |
| `inputs` | `TypeOK`, `ReadyComplete`, `InputsDeployed`, `RevisionSettles` | a Release that may move between a Git and an OCI chart, with a watched and an unwatched object, failing reads and crashes: Ready means that every required input was given, every change of an input is deployed in the end, and the installs stop |

Violations. Each run states what the repository says of itself and shows a
behaviour of the code that does otherwise (`findings` in `PROJECT.json` quotes
the lines):

| Run | Violated | What happens |
|---|---|---|
| `release_backoff` | `RetryScheduled` | the 30th failure computes a negative delay, so `retries: 30` or more stops retrying without stalling |
| `release_move` | `NoOrphan` | after a change of `targetNamespace` the old namespace's release is never uninstalled |
| `release_lostwakeup` | `Converges` | an unready HelmChart ends the reconcile without a timer, and the event of its recovery is filtered out: an edit made meanwhile is never applied |
| `chart_leak` | `NoSourceLeft` | a Release deleted while its source is only a candidate leaves the source behind |
| `chart_revert` | `RestingSourceLive` | from `spec.chart` to `spec.chartRef` and back before the status is written: the source is gone, phase Ready says it is there |
| `inputs_artifact` | `ReadyArtifact` | after an edit of the chart's version the HelmChart is still Ready with the old artifact, which is installed and reported Ready at the new generation |

These explain restrictions of the passing runs: `release_safety` has no
namespace changes, `release_liveness` no source outages, and `chart_safety`
neither `spec.chartRef` nor slow finalizers (a Release may join a source that is
still terminating, the second way to violate `RestingSourceLive`). `inputs` allows
one edit of the spec (`MaxEdits`), because `release_lostwakeup` has a second form
there: with an edit to the OCI chart and one back, the status write of the OCI
install conflicts with the second edit, so the recorded artifact revision is still
that of the HelmChart; the HelmChart was not ready while its source was gone, and
the event of its recovery is filtered out. The OCI chart stays deployed.

Two external assumptions are stated where they are used. `Converges` in
`release_oci` rests on what Flux records for an OCIRepository: the digest in an
artifact's revision, which `release_indexer.go` 111 compares, is the manifest's, and
the digest that `source.go` 130 reads and the status keeps is the stored tarball's.
`SourceWatch` keeps the comparison and says with `extractDigest` and
`ArtifactDigest` that the two never agree; the mutant of this property drops just
that, and the run then fails as `release_lostwakeup` does. And `spec.interval` may be
`0s`, which schedules nothing (`WriteSuccess`). `release_oci` has it; there is no drift
in that run, since nothing but the interval makes the operator look at the cluster.
`release_liveness` has an interval, and `InputsDeployed` asks for one.

Three hazards of `PROJECT.json` violate properties of the runs above along a path
that the run's own counterexample does not take. TLC shows them with these changes
of the instances:

| Hazard | Property | Instance |
|---|---|---|
| `RC` 289, a Release joins a source that is being finalized | `RestingSourceLive` | `chart_revert` with `FluxFinalizer = TRUE` and `Sources` and `Specs` both `{s1, s2}`: from `s1` to `s2` and back |
| `RC` 211, a candidate joined and then replaced is left behind | `NoSourceLeft` | `chart_leak` with `Sources` and `Specs` both `{s1, s2}` and `CONSTRAINT NobodyDeleted` |
| `builders_common.go` 10, an edit of `spec.interval` renames the source | `InputsDeployed` | `inputs` with `Specs <- TwoIntervals`: the lost wakeup once more, and with it a change of data made before |

Stalling. `Converges` and `InputsDeployed` accept a stalled Release, since that is
what `spec.install.retries`, 0 by default, asks for. Two transient situations are
enough for it: of two Releases that create the same source at once the loser gets
`AlreadyExists`, which `RetryOnConflict` does not retry; and the metadata event of
an object that a Release was waiting for may come before the typed cache has the
object. `chart_liveness` and `inputs` therefore have retries.

### Bounds

`MaxDisturbances` (2 or 3 for a Release, 1 or 2 for sources) bounds what the
environment does, never what the operator does in answer. The failures found
need one or two disturbances; three allow delete, create and a crash or failing
call in one behaviour, which is the longest pattern the stale cache allows (an
old copy, a new object, and something that keeps the worker from noticing). Two
values of `Wants` and two artifacts make old and new differ; two namespaces are
needed only where one is changed or where a stale copy could name the wrong one.
Two Releases and two sources suffice for sharing and switching. `RetrySteps` is
2 (5 in client-go): one retry and one exhaustion. Generations, revisions and the
failure counter are bounded by the disturbances, not by the model. A run without
retries (`MaxRetries = 0`), with one and with two covers both branches of
`handleFailure` and the step between them. `release_backoff` starts after 28
failures, a state that 28 rounds of failed installs lead to, and takes two more.
In `inputs` two objects give one that is watched and required and one that is
neither, two contents and their absence an old and a new state of each; the OCI
spec reads one object twice, so that it can change between the two reads; two
disturbances of four kinds allow an edit or a change of data together with a
crash or a failed read. Deployed revisions count modulo 2: `RevisionSettles` asks
only whether they go on changing.
Deadlock is not checked: the system is at rest when nothing is left to do.

### Fairness

`FairSpec` assumes that the worker keeps running and its calls end (nelm's have
timeouts, `RC` 1027-1110), that a queued key is taken, that informers catch up and
that timers fire; for sources also that source-controller finalizes what was
deleted. These are promises of controller-runtime and the Go scheduler. Nothing
is assumed of users, of Flux's fetches, of other clients, of crashes, or of
`Resync` in `ChartSource`. In `DeployInputs` the
typed informer and the metadata watch of an object catch up each on its own, in
either order, and Flux may never build anything: `InputsDeployed` speaks of
behaviours in which it has. Each behaviour has finitely many disturbances, so
"eventually" means "once the disturbances end".

## 4. Proofs

TLAPS checks these for all values of the constants, under the named assumptions of
the modules they are about (numbers are naturals, sets that must have an element
do, `None` is none of the values, the specs are ones the CRD admits). Every
invariant and every action property of a passing run is stated by one of them.

| Module | Theorem | States |
|---|---|---|
| `ReleaseReconcilerProofs` | `TypeCorrect` | `Spec => []TypeOK` |
| | `NeverOrphaned` | `Spec => []NoOrphan` if `"move" \notin Disturbances` |
| | `ImplementsLifecycle` | `Spec => KeepsLifecycle`, same condition |
| | `ReadyIsTruthful` | `Spec => []ReadyTruthful`, all disturbances |
| | `UninstallsOnlyDeleted` | `Spec => UninstallOnlyDeleted`, all disturbances |
| `RetryProofs` | `RetriesComing` | `Spec => []RetryScheduled` if `MaxRetries < 30` and, for a HelmChart, `"flap" \notin Disturbances` |
| `ChartSourceProofs` | `TypeCorrect` | `Spec => [](TypeOK /\ Targets)` |
| | `LockInvariant` | `Spec => [](TypeInv /\ LockInv)` |
| | `NeverDeletedInUse` | `Spec => DeletedOnlyUnlisted` |
| | `ImplementsSharing` | `Spec => KeepsSharing` |
| | `AppliedSourcesStay` | `Spec => []AppliedSourceLive` if `ChartRef \notin Specs` and `~FluxFinalizer` |
| `DeployInputsProofs` | `TypeCorrect` | `Spec => []TypeOK` |
| | `ReadyIsComplete` | `Spec => []ReadyComplete` |
| `ChartBuilders` | `IndexFindsResolved` | the index key is the reference that is read |

Each condition is needed, and TLC has the counterexample to the theorem without it:
`release_move` for `"move"` (a Release that goes while something owned is left is no
step of `ReleaseLifecycle` either); `release_backoff` for 30 retries; the behaviour of
`release_lostwakeup` for outages of a HelmChart; `chart_revert` for `spec.chartRef`;
and for `FluxFinalizer` a Release that joins a source which is already terminating.
The conditions are hypotheses of single theorems, not assumptions of the modules.

*Ownership.* `NoOrphan` is not inductive: whether the last finalizer goes while
something is deployed depends on what an old copy may still make the worker do.
`OwnershipInv` says which copies can exist. `Copies`: a cached live Release with
the finalizer is one that still has it, in the same namespace, and a cached
deletion excludes a new Release with the finalizer (the finalizer of a new
Release is added only by a worker whose cache has seen it). `WorkerCopies`: the
same for the worker's copy at each `pc`, in particular that a worker past the
first status write of `reconcileDelete` works for an object that is being
deleted now, since that write was made under optimistic locking. `Marks`: a
marked revision implies a Release with the finalizer. The refinement follows from
the same invariant, one step per action.

*Readiness.* `ReadyInv` adds to `ReadyTruthful` that while a Ready condition is
current no copy of an older spec is left to deploy from (`ReadyCopies`), that a
pending success write reports what was verified (`PendingStatus`), and that
observed generations do not run ahead (`Observed`).

*Deletion.* `UninstallOnlyDeleted` needs less than ownership, and so holds when
`targetNamespace` changes too. `LeavingDeleted` says that a worker past the first
status write of `reconcileDelete` works for an object that is being deleted. With
`ReadyInv`, by which a current copy is the object, it is inductive: the write is
accepted only from a current copy, and nobody but the worker ends a deletion.

*Retries.* `RetryScheduled` lets a pending retry hang on a watch event, so the
invariant has to know which event that is. `Attentive`: an idle Release that
reports `RetryPending` has a timer, a queued key, a stale cache, or is `Expecting`,
and so is one whose reconcile is about to end because the source is not ready.
`Expecting`: a version of the source that is not ready is the last one handled or
among those to come, so the ready one after it passes
`SourceRevisionChangePredicate`; and no artifact is recorded that would make the
map function drop it. `Versions` ties the pending versions to the source as it is,
so an empty queue of events and a ready source contradict `Expecting`.
`NeverTried` is where outages matter: without them a HelmChart that is not ready
has never had an artifact, so none is recorded. `Generations` says that a copy of
the current generation of a live Release is not one `Reconcile` returns early on,
and `RetriesLeft` that `reconciling` is reported only up to `MaxRetries` failures and
never with a success (whose timer an interval of 0s does not set),
for which `BackoffPositive` shows the delay to be positive.

*Shared sources.* `LockInv` is optimistic locking: a worker whose copy of a source
is current has read the users the source lists now, and one about to delete it
knows that it lists nobody. `DeletedOnlyUnlisted` follows from it for each step
(`SourceStep`), and so does the refinement: a step changes at most one source, by
one name or as a whole, from what the source is now (`OneSource`), and each such
change is a step of `SharedSources` or one it does not see (`SharingStep`).
`AppliedSourceLive` is not inductive: a worker with an old copy
might leave the very source the Release has settled on since. For each Release,
`CopyInv` and `WorkInv` say what the cached copy and the worker's can be. A status
is only written from a current copy, so a copy is at most one status behind
(`Behind`), and the status that makes a worker leave a source, Disconnecting, is
followed by Ready on another one. `Holds` follows the candidate from the update
that joined it to the status that applies it.

*Inputs.* `ReadyComplete` compares what was deployed with the sequence the spec
asks for. `Resolving` says that the inputs collected so far are those of the
references before `at`, for some reads each of which found what is required;
`Applied` says that the HelmChart a reconcile goes on to read is the one it has
applied, so that the chart's values files are the spec's; `Conditions` carries
completeness to the deployed content and the status write, and says, as
`ReadyCopies` does, that a current Ready condition leaves no copy of an older spec;
`Copies` ties the copies to the object. The sequence is built with `Pick`, the elements at a set
of positions in order, defined without recursion: that it returns the elements
asked for, and that picking commutes with appending (`NthLemma`, `PickAppend`), is
proved by counting, with the pigeonhole theorem of the library in the place of an
induction.

`IndexFindsResolved` holds for every Release with exactly one of `spec.chart` and
`spec.chartRef`, which the CRD requires: the index key under which the watches look
it up is the reference that `resolveChartRef` returns. The two are computed by
different code (`release_manager.go` 22-56, `RC` 177-182 and 361-404); the proof is
by cases on the kind of source.

The inductive invariants were checked with TLC, on instances like those of the
runs, before they were proved.

Only model-checked: liveness (`Converges`, `DeletionCompletes`, `Settles`,
`InputsDeployed`, `RevisionSettles`), which rests on fairness and is out of the
prover's reach; and the violations, which are counterexamples.

## 5. Abstractions

* `gen` stands for uid and `metadata.generation` together: the code compares it
  only with `observedGeneration`.
* A value of `Wants` stands for everything in the spec that decides what nelm
  deploys; the plan is empty when the deployed content is the desired one and
  the cluster matches it.
* A failed uninstall leaves the storage as it was, a failed install may leave a
  failed revision, and a crash during an install may too.
* Nobody edits finalizers, sources or annotations by hand.
* For an OCIRepository, the digest that the map function compares is the
  manifest's and the recorded one the artifact's; they never agree, so no event
  is filtered (`requestsForOCIRepositoryChange`, an assumption on Flux, section 3).
* `Interval` is the same for every spec of a Release in `ReleaseReconciler`; in
  `DeployInputs` it belongs to the spec. Only whether it is 0 matters to the timer.
* A pending `RequeueAfter` stays pending when its key is enqueued by something else.
  A work queue that merges the two behaves as if `TimerFire` came right after the
  event, which the model allows at any time.
* The events of `foreignChange` are not recorded; the variable is kept because
  it decides them.
* In `ChartSource` Releases start with their finalizers, the status writes of a
  deletion are one write, a Release's HelmChart is reduced to the source it
  points at, and `Resync` enqueues a Release at any time.
* In `ChartBuilders` the hash of a spec is the spec: collisions are left out.
* In `DeployInputs` the three phases of a change of source are one step,
  `SwitchSource` (`ChartSource` has them one by one), so a source exists exactly
  when it is the one last applied; nelm's plan is empty when the plan's options
  describe what is deployed, and install and plan do not fail (`ReleaseReconciler`
  has both). A chart from a Helm repository has its version for an artifact
  revision, one from Git or OCI a revision of its own. An object that lacks the
  key a reference names is as good as missing. `spec.install.retries` is the same
  for all specs.

## 6. Not modelled

* The HTTP download of an artifact, with its retries, and temporary files: I/O. Its
  failure is `ResolveChartRefFails`.
* The options that come from the spec alone (connection, tracking, validation,
  patches, rollback, uninstall): a translation field by field, without control.
* Events, logging, metrics, flags and process set-up: sequential wiring. A restart
  of the process is `Crash`; the deployment manifests enable leader election, so
  one process is modelled.
* nelm's process-global secret key under concurrent workers: the variable is set
  in nelm, whose code is not part of the repository; `cmd/main.go` 124 warns of it.
* Generated deep copies.

## 7. Plan

Done: `Backoff`, `ReleaseReconciler`, `ReleaseLifecycle`, `ChartSource`,
`SharedSources`, `SourceWatch`, `ChartBuilders`, `DeployInputs`, their runs, and the
proofs of section 4, which state every safety property of the passing runs. Next:

1. An action property on `foreignChange`, with the events it decides.
2. For `ReleaseReconciler`, the failure counter: a Release stalls only after
   `MaxRetries` failures of the generation it has observed.
