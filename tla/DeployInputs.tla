----------------------------- MODULE DeployInputs -----------------------------
(***************************************************************************)
(* Where the content of a deployment comes from, and what brings a changed *)
(* input to the cluster.  One Release with spec.chart: the Flux objects    *)
(* the operator builds from it (ChartBuilders), the artifact Flux makes of *)
(* them, the ConfigMaps and Secrets that values.Resolve reads one by one,  *)
(* the options handed to nelm, and the three kinds of watch (SourceWatch)  *)
(* with the timers that bring the worker back.                             *)
(*                                                                         *)
(* ConfigMaps and Secrets are watched as metadata and read as typed        *)
(* objects: two informers, which catch up independently.  Flux objects and *)
(* their readiness are read past the cache.                                *)
(*                                                                         *)
(* Deletion, rollback, nelm's failures and the release storage are the     *)
(* subject of ReleaseReconciler; the phases of a change of source, done by *)
(* SwitchSource in one step, that of ChartSource.                          *)
(***************************************************************************)
EXTENDS Naturals, Sequences, FiniteSets, Backoff

CONSTANTS
  Specs,             \* what users write: [interval, chart, values, refs]
  Self,              \* metadata.name of the Release
  Objects,           \* ConfigMaps and Secrets of its namespace
  Contents,          \* what their data keys can hold
  Missing,           \* no such object, or no such key in it
  None,              \* a nil field
  Watched,           \* the objects DependencyWatchLabelSelector matches
  MaxRetries,        \* spec.install.retries
  Disturbances,      \* the kinds of disturbance that may happen
  MaxDisturbances,   \* bound on the number of disturbances
  MaxEdits           \* bound on the edits of the spec among them

INSTANCE SourceWatch
INSTANCE ChartBuilders

(***************************************************************************)
(* spec.refs has the references to ConfigMaps and Secrets in the order of  *)
(* Resolve: values, secretKey, secretValues, keyring.  Only values may be  *)
(* optional.                                                               *)
(***************************************************************************)
ValuesReference == [use: {"values", "secretValues"}, object: Objects, optional: BOOLEAN]

SecretKeyReference == [use: {"secretKey", "keyring"}, object: Objects, optional: {FALSE}]

ValuesFiles(s) == {s.chart.valuesFiles[i] : i \in DOMAIN s.chart.valuesFiles}

ASSUME ObjectsAssumption ==
  Watched \subseteq Objects /\ Missing \notin Contents /\ Contents # {}
ASSUME SpecsAssumption ==
  /\ Specs # {}
  /\ \A s \in Specs :
       /\ s.interval \in Nat /\ s.chart # None /\ ReleaseChart(s.chart)
       /\ s.chart.valuesFiles \in Seq(ValuesFiles(s))
       /\ s.refs \in Seq(ValuesReference \cup SecretKeyReference)
ASSUME CountsAssumption == {MaxRetries, MaxDisturbances, MaxEdits} \subseteq Nat
ASSUME DisturbanceAssumption ==
  Disturbances \subseteq {"edit", "data", "readError", "crash"}

VARIABLES
  rel,            \* the Release in the API server
  cache,          \* the informer's copy
  cacheCurrent,   \* no write to the Release since `cache` was taken
  data,           \* the data of each ConfigMap and Secret
  typed,          \* the copies in the typed informers, which Resolve reads
  unseen,         \* watched objects with a metadata event not handled yet
  flux,           \* the HelmChart or OCIRepository behind each reference
  events,         \* updates of those that passed the predicate, not handled yet
  queued,         \* the Release's key is in the work queue
  timer,          \* a RequeueAfter is pending
  deployed,       \* what nelm last installed, and the parity of its revision
  pc,             \* the external call the worker makes next
  view,           \* Reconcile's `rel`
  viewCurrent,    \* its resourceVersion is the API server's
  artifact,       \* Reconcile's `chartResult`
  resolved,       \* Resolve's `result`
  at,             \* the reference Resolve fetches next
  budget          \* disturbances left

object == <<rel, cache, cacheCurrent>>
config == <<data, typed, unseen>>
source == <<flux, events>>
queue  == <<queued, timer>>
worker == <<pc, view, viewCurrent, artifact, resolved, at>>
vars   == <<object, config, source, queue, deployed, worker, budget>>

-----------------------------------------------------------------------------
(***************************************************************************)
(* The elements of a sequence at some positions, in order: SelectSeq,      *)
(* without a recursion.                                                    *)
(***************************************************************************)
Nth(S, k) == CHOOSE i \in S : Cardinality({j \in S : j <= i}) = k

Pick(seq, S) == [k \in 1 .. Cardinality(S) |-> seq[Nth(S, k)]]

(***************************************************************************)
(* The Release as the builders see it.                                     *)
(***************************************************************************)
AsRelease(s) ==
  [ns |-> "default", name |-> Self, interval |-> s.interval, chart |-> s.chart,
   chartRef |-> None]

SourceOf == [s \in Specs |-> ChartSourceReference(AsRelease(s))]

RefOf == [s \in Specs |-> ResolvedRef(AsRelease(s))]

IndexOf == [s \in Specs |-> IndexSourceRef(AsRelease(s))]

IsOCI(s) == s.chart.kind = "OCIRepository"

(***************************************************************************)
(* The spec of the object Reconcile reads the chart from, and the artifact *)
(* Flux makes of it.  A chart from a Helm repository has its version for a *)
(* revision, wherever it comes from.                                       *)
(***************************************************************************)
SpecOf ==
  [s \in Specs |-> IF IsOCI(s) THEN BuildChartSourceFromRelease(AsRelease(s))
                               ELSE HelmChartFor(AsRelease(s))]

HashedSpec(ref) == ref.name[2]

ArtifactOf(kind, spec) ==
  IF kind = "OCIRepository"
    THEN [url |-> spec.url, ref |-> spec.ref, chart |-> None, version |-> None]
    ELSE [url |-> HashedSpec(spec.source).url, ref |-> HashedSpec(spec.source).ref,
          chart |-> spec.chart, version |-> spec.version]

Revision(a) ==
  IF a # None /\ a.version # None
    THEN [a EXCEPT !.url = None, !.ref = None, !.chart = None] ELSE a

WantedArtifact == [s \in Specs |-> ArtifactOf(RefOf[s].kind, SpecOf[s])]

Refs == {RefOf[s] : s \in Specs}

Artifacts == {WantedArtifact[s] : s \in Specs}

NoObject == [spec |-> None, built |-> None, ready |-> FALSE]

(***************************************************************************)
(* One input of a deployment: a values file that the chart brings, the     *)
(* inline values, or the data of a reference.                              *)
(***************************************************************************)
Uses == {"values", "secretKey", "secretValues", "keyring"}

Input == [use: Uses \cup {"chart", "inline"}, from: Objects \cup {None},
          data: Contents \cup {s.values : s \in Specs}
                         \cup UNION {ValuesFiles(s) : s \in Specs}]

Content == [chart: Artifacts, keyring: Seq(Input), values: Seq(Input),
            secret: [key: Seq(Input), files: Seq(Input)]]

Status == [obs: Nat, ready: BOOLEAN, reconciling: BOOLEAN, stalled: BOOLEAN, failures: Nat,
           attempted: {Revision(a) : a \in Artifacts} \cup {None},
           last: {SourceOf[s] : s \in Specs} \cup {None}]

Release == [gen: Nat, spec: Specs, st: Status]

Seen == [ready: BOOLEAN, art: {Revision(a) : a \in Artifacts} \cup {None}]

Pcs == {"idle", "switch", "helm", "source", "fetch", "plan",
        "writeNotReady", "writeSuccess", "writeFailure"}

TypeOK ==
  /\ rel \in Release /\ cache \in Release /\ view \in Release \cup {None}
  /\ cacheCurrent \in BOOLEAN /\ viewCurrent \in BOOLEAN
  /\ data \in [Objects -> Contents \cup {Missing}]
  /\ typed \in [Objects -> Contents \cup {Missing}] /\ unseen \subseteq Watched
  /\ flux \in [Refs -> [spec: {SpecOf[s] : s \in Specs} \cup {None},
                        built: Artifacts \cup {None}, ready: BOOLEAN]]
  /\ events \in Seq([ref: Refs, old: Seen, new: Seen])
  /\ queued \in BOOLEAN /\ timer \in BOOLEAN
  /\ deployed \in [parity: {0, 1}, content: Content \cup {None}]
  /\ pc \in Pcs /\ artifact \in Artifacts \cup {None}
  /\ resolved \in Seq(Input) /\ at \in Nat /\ budget \in Nat

NoStatus == [obs |-> 0, ready |-> FALSE, reconciling |-> FALSE, stalled |-> FALSE,
             failures |-> 0, attempted |-> None, last |-> None]

(***************************************************************************)
(* A Release just created, its finalizer added, and the objects it refers  *)
(* to.  Contents are alike: which one an object has at first makes no      *)
(* difference.  ChangeData may remove it before the first reconcile.       *)
(***************************************************************************)
FirstContent == CHOOSE c \in Contents : TRUE

Init ==
  /\ rel \in {[gen |-> 1, spec |-> s, st |-> NoStatus] : s \in Specs}
  /\ cache = rel /\ cacheCurrent = TRUE
  /\ data = [o \in Objects |-> FirstContent] /\ typed = data /\ unseen = {}
  /\ flux = [q \in Refs |-> NoObject] /\ events = << >>
  /\ queued = TRUE /\ timer = FALSE
  /\ deployed = [parity |-> 0, content |-> None]
  /\ pc = "idle" /\ view = None /\ viewCurrent = FALSE
  /\ artifact = None /\ resolved = << >> /\ at = 0
  /\ budget = MaxDisturbances

Spend(kind) == kind \in Disturbances /\ budget > 0 /\ budget' = budget - 1

FailsBecause(cond, kind) == IF cond THEN UNCHANGED budget ELSE Spend(kind)

-----------------------------------------------------------------------------
(***************************************************************************)
(* What the worker's steps are made of.                                    *)
(***************************************************************************)
Return(requeue) ==
  /\ pc' = "idle" /\ view' = None /\ viewCurrent' = FALSE
  /\ artifact' = None /\ resolved' = << >> /\ at' = 0
  /\ queued' = (queued \/ requeue)

Goto(label) == pc' = label /\ UNCHANGED queue

(***************************************************************************)
(* r.Status().Update, refused when the Release was written since the read. *)
(***************************************************************************)
StatusUpdated ==
  /\ viewCurrent
  /\ rel' = [rel EXCEPT !.st = view.st]
  /\ cacheCurrent' = (cacheCurrent /\ rel.st = view.st)
  /\ UNCHANGED cache

StatusRejected == ~viewCurrent /\ UNCHANGED object

Exhausted(st) == st.failures > MaxRetries

Counted(r) == [r.st EXCEPT !.failures = @ + 1, !.obs = r.gen]

HandleFailure(r) ==
  LET st == Counted(r)
  IN  [r EXCEPT !.st = [st EXCEPT !.ready = FALSE, !.stalled = Exhausted(st),
                                  !.reconciling = ~Exhausted(st)]]

HandleSuccess(r) ==
  [r EXCEPT !.st = [r.st EXCEPT !.failures = 0, !.obs = r.gen, !.ready = TRUE,
                                !.reconciling = FALSE, !.stalled = FALSE]]

Fail ==
  /\ view' = HandleFailure(view)
  /\ Goto("writeFailure")
  /\ artifact' = None /\ resolved' = << >> /\ at' = 0
  /\ UNCHANGED <<object, config, source, deployed, viewCurrent>>

-----------------------------------------------------------------------------
(***************************************************************************)
(* Reconcile reads the cached Release; resolveChartRef compares its source *)
(* with the one last applied.                                              *)
(***************************************************************************)
Reconcile ==
  /\ pc = "idle" /\ queued /\ queued' = FALSE
  /\ view' = cache /\ viewCurrent' = cacheCurrent
  /\ pc' = CASE cache.st.last # SourceOf[cache.spec] -> "switch"
             [] cache.st.last = SourceOf[cache.spec] /\ IsOCI(cache.spec) -> "source"
             [] OTHER -> "helm"
  /\ UNCHANGED <<object, config, source, timer, deployed, artifact, resolved, at, budget>>

(***************************************************************************)
(* The phases Pending, Disconnecting and Ready: the new source is created, *)
(* the one it replaces is deleted, the HelmChart is left as it is.  Each   *)
(* phase ends with a status write and a requeue; a conflict in the first   *)
(* one leaves everything as it was.                                        *)
(***************************************************************************)
SourceReplaced(s) ==
  [q \in Refs |-> CASE q = SourceOf[s]       -> [NoObject EXCEPT !.spec = SpecOf[s]]
                    [] q.kind = "HelmChart" -> flux[q]
                    [] OTHER                -> NoObject]

\* Faulty variant: the status records the reference Reconcile reads from.
SwitchSourceMisrecorded ==
  /\ pc = "switch" /\ viewCurrent
  /\ rel' = [rel EXCEPT !.st.last = RefOf[view.spec]]
  /\ cacheCurrent' = FALSE
  /\ flux' = SourceReplaced(view.spec)
  /\ Return(TRUE)
  /\ UNCHANGED <<cache, config, events, timer, deployed, budget>>

SwitchSource ==
  /\ pc = "switch" /\ viewCurrent
  /\ rel' = [rel EXCEPT !.st.last = SourceOf[view.spec]]
  /\ cacheCurrent' = FALSE
  /\ flux' = SourceReplaced(view.spec)
  /\ Return(TRUE)
  /\ UNCHANGED <<cache, config, events, timer, deployed, budget>>

SwitchConflict ==
  /\ pc = "switch" /\ ~viewCurrent
  /\ Return(TRUE)
  /\ UNCHANGED <<object, config, source, timer, deployed, budget>>

(***************************************************************************)
(* ensureHelmChart: a server-side apply that carries no resourceVersion    *)
(* and leaves the status of the HelmChart alone.                           *)
(***************************************************************************)
EnsureHelmChart ==
  /\ pc = "helm"
  /\ flux' = [flux EXCEPT ![RefOf[view.spec]].spec = SpecOf[view.spec]]
  /\ Goto("source")
  /\ UNCHANGED <<object, config, events, deployed, view, viewCurrent, artifact, resolved, at,
                 budget>>

(***************************************************************************)
(* source.ResolveChartRef: checkReadyCondition looks at the status of the  *)
(* Ready condition only.  Then reconcileInstall begins, and Resolve with   *)
(* the chart's values files and the inline values.                         *)
(***************************************************************************)
ChartFiles(spec) ==
  IF "valuesFiles" \notin DOMAIN spec THEN << >>
  ELSE [i \in DOMAIN spec.valuesFiles |->
          [use |-> "chart", from |-> None, data |-> spec.valuesFiles[i]]]

InlineValues(s) ==
  IF s.values = None THEN << >>
  ELSE <<[use |-> "inline", from |-> None, data |-> s.values]>>

ResolveStart(files, s) == files \o InlineValues(s)

NextFetch(i) == IF i > Len(view.spec.refs) THEN "plan" ELSE "fetch"

NewAttempt(r) == IF r.st.obs # r.gen THEN [r EXCEPT !.st.failures = 0] ELSE r

ResolveChartRef ==
  /\ pc = "source"
  /\ LET o == flux[RefOf[view.spec]]
     IN  /\ o.ready
         /\ artifact' = o.built
         /\ view' = NewAttempt([view EXCEPT !.st.attempted = Revision(o.built)])
         /\ resolved' = ResolveStart(ChartFiles(o.spec), view.spec)
  /\ at' = 1
  /\ Goto(NextFetch(1))
  /\ UNCHANGED <<object, config, source, deployed, viewCurrent, budget>>

SourceNotReady ==
  /\ pc = "source"
  /\ flux[RefOf[view.spec]].spec # None /\ ~flux[RefOf[view.spec]].ready
  /\ Goto("writeNotReady")
  /\ UNCHANGED <<object, config, source, deployed, view, viewCurrent, artifact, resolved, at,
                 budget>>

ResolveChartRefFails ==
  /\ pc \in {"helm", "source"}
  /\ FailsBecause(pc = "source" /\ flux[RefOf[view.spec]].spec = None, "readError")
  /\ Fail

(***************************************************************************)
(* values.Resolve: one read of the typed cache per reference.  An error of *)
(* any kind skips an optional reference and fails the reconcile otherwise. *)
(***************************************************************************)
Reference == view.spec.refs[at]

Fetched(ref, d) == [use |-> ref.use, from |-> ref.object, data |-> d]

FetchReference ==
  /\ pc = "fetch" /\ typed[Reference.object] # Missing
  /\ resolved' = Append(resolved, Fetched(Reference, typed[Reference.object]))
  /\ at' = at + 1
  /\ Goto(NextFetch(at + 1))
  /\ UNCHANGED <<object, config, source, deployed, view, viewCurrent, artifact, budget>>

\* Faulty variant: every reference is optional.
FetchSkippedAlways ==
  /\ pc = "fetch"
  /\ FailsBecause(typed[Reference.object] = Missing, "readError")
  /\ at' = at + 1
  /\ Goto(NextFetch(at + 1))
  /\ UNCHANGED <<object, config, source, deployed, view, viewCurrent, artifact, resolved>>

FetchSkipped ==
  /\ pc = "fetch" /\ Reference.optional
  /\ FailsBecause(typed[Reference.object] = Missing, "readError")
  /\ at' = at + 1
  /\ Goto(NextFetch(at + 1))
  /\ UNCHANGED <<object, config, source, deployed, view, viewCurrent, artifact, resolved>>

FetchFails ==
  /\ pc = "fetch" /\ ~Reference.optional
  /\ FailsBecause(typed[Reference.object] = Missing, "readError")
  /\ Fail

(***************************************************************************)
(* The options of the plan and of the install, each built from the         *)
(* resolved values; nelm plans nothing when the options of the plan        *)
(* describe what is deployed.                                              *)
(***************************************************************************)
Of(uses, inputs) == Pick(inputs, {i \in DOMAIN inputs : inputs[i].use \in uses})

buildValuesOptions(inputs) == Of({"chart", "inline", "values"}, inputs)

buildSecretValuesOptions(inputs) ==
  [key |-> Of({"secretKey"}, inputs), files |-> Of({"secretValues"}, inputs)]

buildInstallOptions(a, inputs) ==
  [chart |-> a, keyring |-> Of({"keyring"}, inputs),
   values |-> buildValuesOptions(inputs), secret |-> buildSecretValuesOptions(inputs)]

\* Faulty variant: the plan is made without the secret values.
buildPlanInstallOptionsPublic(a, inputs) ==
  [chart |-> a, keyring |-> Of({"keyring"}, inputs),
   values |-> buildValuesOptions(inputs), secret |-> buildSecretValuesOptions(<< >>)]

buildPlanInstallOptions(a, inputs) ==
  [chart |-> a, keyring |-> Of({"keyring"}, inputs),
   values |-> buildValuesOptions(inputs), secret |-> buildSecretValuesOptions(inputs)]

Planned == buildPlanInstallOptions(artifact, resolved) # deployed.content

Succeed ==
  /\ view' = HandleSuccess(view)
  /\ Goto("writeSuccess")
  /\ artifact' = None /\ resolved' = << >> /\ at' = 0
  /\ UNCHANGED <<object, config, source, viewCurrent, budget>>

PlanUpToDate ==
  /\ pc = "plan" /\ ~Planned
  /\ Succeed
  /\ UNCHANGED deployed

Install ==
  /\ pc = "plan" /\ Planned
  /\ deployed' = [parity |-> 1 - deployed.parity,
                  content |-> buildInstallOptions(artifact, resolved)]
  /\ Succeed

(***************************************************************************)
(* The three ways a reconcile ends.                                        *)
(***************************************************************************)
WriteNotReady ==
  /\ pc = "writeNotReady"
  /\ \/ StatusUpdated /\ Return(FALSE)
     \/ StatusRejected /\ Return(TRUE)
  /\ UNCHANGED <<config, source, timer, deployed, budget>>

WriteSuccess ==
  /\ pc = "writeSuccess"
  /\ \/ StatusUpdated /\ Return(FALSE) /\ timer' = (timer \/ view.spec.interval > 0)
     \/ StatusRejected /\ Return(TRUE) /\ UNCHANGED timer
  /\ UNCHANGED <<config, source, deployed, budget>>

WriteFailure ==
  /\ pc = "writeFailure"
  /\ \/ /\ StatusUpdated /\ Return(FALSE)
        /\ timer' = (timer \/ (~Exhausted(view.st) /\ Retries(view.st.failures)))
     \/ StatusRejected /\ Return(TRUE) /\ UNCHANGED timer
  /\ UNCHANGED <<config, source, deployed, budget>>

WorkerStep ==
  \/ SwitchSource \/ SwitchConflict \/ EnsureHelmChart
  \/ ResolveChartRef \/ SourceNotReady \/ ResolveChartRefFails
  \/ FetchReference \/ FetchSkipped \/ FetchFails
  \/ PlanUpToDate \/ Install
  \/ WriteNotReady \/ WriteSuccess \/ WriteFailure

-----------------------------------------------------------------------------
(***************************************************************************)
(* Watches and timers.                                                     *)
(***************************************************************************)
CacheSync ==
  /\ ~cacheCurrent
  /\ cache' = rel /\ cacheCurrent' = TRUE
  /\ queued' = (queued \/ cache.gen # rel.gen)
  /\ UNCHANGED <<rel, config, source, timer, deployed, worker, budget>>

(***************************************************************************)
(* An update of a HelmChart or an OCIRepository, looked up in the index of *)
(* the cached Release and judged by its cached status.                     *)
(***************************************************************************)
FluxEvent ==
  /\ events # << >>
  /\ events' = Tail(events)
  /\ LET e == Head(events)
     IN  queued' = (queued \/ (/\ IndexOf[cache.spec] = e.ref
                               /\ Enqueues(e.ref.kind, e.old, e.new, cache.st)))
  /\ UNCHANGED <<object, config, flux, timer, deployed, worker, budget>>

(***************************************************************************)
(* requestsForConfigDependency: the metadata event of an object enqueues   *)
(* the Releases whose cached spec refers to it.                            *)
(***************************************************************************)
configDependencyIndex(s) == {s.refs[i].object : i \in DOMAIN s.refs}

MetadataEvent(o) ==
  /\ o \in unseen
  /\ unseen' = unseen \ {o}
  /\ queued' = (queued \/ o \in configDependencyIndex(cache.spec))
  /\ UNCHANGED <<object, data, typed, source, timer, deployed, worker, budget>>

TypedSync(o) ==
  /\ typed[o] # data[o]
  /\ typed' = [typed EXCEPT ![o] = data[o]]
  /\ UNCHANGED <<object, data, unseen, source, queue, deployed, worker, budget>>

TimerFire ==
  /\ timer
  /\ timer' = FALSE /\ queued' = TRUE
  /\ UNCHANGED <<object, config, source, deployed, worker, budget>>

-----------------------------------------------------------------------------
(***************************************************************************)
(* Flux.  It may show that it is at work on an object before it is done; a *)
(* HelmChart is built when the source it names exists, which for the one   *)
(* Release of this namespace is the source last applied.                   *)
(***************************************************************************)
Buildable(q) == q.kind = "HelmChart" => flux[q].spec.source = rel.st.last

Outdated(q) ==
  flux[q].spec # None /\ (flux[q].built # ArtifactOf(q.kind, flux[q].spec) \/ ~Buildable(q))

FluxBuildStarts(q) ==
  /\ flux[q].ready /\ Outdated(q)
  /\ flux' = [flux EXCEPT ![q].ready = FALSE]
  /\ UNCHANGED <<object, config, events, queue, deployed, worker, budget>>

Shown(o) == [ready |-> o.ready, art |-> Revision(o.built)]

FluxBuilds(q) ==
  /\ flux[q].spec # None /\ Buildable(q) /\ (Outdated(q) \/ ~flux[q].ready)
  /\ flux' = [flux EXCEPT ![q].built = ArtifactOf(q.kind, flux[q].spec), ![q].ready = TRUE]
  /\ LET old == Shown(flux[q])  new == Shown(flux'[q])
     IN  events' = IF RevisionChange(old, new)
                     THEN Append(events, [ref |-> q, old |-> old, new |-> new]) ELSE events
  /\ UNCHANGED <<object, config, queue, deployed, worker, budget>>

(***************************************************************************)
(* Disturbances.                                                           *)
(***************************************************************************)
EditSpec ==
  /\ Spend("edit") /\ rel.gen <= MaxEdits
  /\ \E s \in Specs \ {rel.spec} : rel' = [rel EXCEPT !.spec = s, !.gen = @ + 1]
  /\ cacheCurrent' = FALSE /\ viewCurrent' = FALSE
  /\ UNCHANGED <<cache, config, source, queue, deployed, pc, view, artifact, resolved, at>>

ChangeData(o) ==
  /\ Spend("data")
  /\ \E c \in (Contents \cup {Missing}) \ {data[o]} : data' = [data EXCEPT ![o] = c]
  /\ unseen' = unseen \cup ({o} \cap Watched)
  /\ UNCHANGED <<object, typed, source, queue, deployed, worker>>

Crash ==
  /\ Spend("crash")
  /\ cache' = rel /\ cacheCurrent' = TRUE
  /\ typed' = data /\ unseen' = {} /\ events' = << >>
  /\ timer' = FALSE /\ queued' = TRUE
  /\ pc' = "idle" /\ view' = None /\ viewCurrent' = FALSE
  /\ artifact' = None /\ resolved' = << >> /\ at' = 0
  /\ UNCHANGED <<rel, data, flux, deployed>>

Flux == \E q \in Refs : FluxBuildStarts(q) \/ FluxBuilds(q)

Environment == EditSpec \/ (\E o \in Objects : ChangeData(o)) \/ Crash

Next ==
  \/ WorkerStep \/ Reconcile \/ CacheSync \/ FluxEvent \/ TimerFire
  \/ (\E o \in Watched : MetadataEvent(o)) \/ (\E o \in Objects : TypedSync(o))
  \/ Flux \/ Environment

Spec == Init /\ [][Next]_vars

(***************************************************************************)
(* The worker runs, queued keys are taken, each informer catches up, timers*)
(* fire.  Nothing is assumed of Flux or of users.                          *)
(***************************************************************************)
Fairness ==
  /\ WF_vars(WorkerStep) /\ WF_vars(Reconcile)
  /\ WF_vars(CacheSync) /\ WF_vars(FluxEvent) /\ WF_vars(TimerFire)
  /\ \A o \in Watched : WF_vars(MetadataEvent(o))
  /\ \A o \in Objects : WF_vars(TypedSync(o))

FairSpec == Spec /\ Fairness

-----------------------------------------------------------------------------
(***************************************************************************)
(* What spec s asks for when reference i reads d[i].                       *)
(***************************************************************************)
WantedInputs(s, d) ==
  ResolveStart(ChartFiles(SpecOf[s]), s)
    \o Pick([i \in DOMAIN s.refs |-> Fetched(s.refs[i], d[i])],
            {i \in DOMAIN s.refs : d[i] # Missing})

Wanted(s, a, d) == buildInstallOptions(a, WantedInputs(s, d))

Current == rel.st.obs = rel.gen

(***************************************************************************)
(* A Ready condition at the current generation means that the cluster was  *)
(* given every input the current spec requires, in the spec's order, with  *)
(* nothing left out but optional references: whatever was edited, missing  *)
(* or unreadable while Resolve went through the references, and however    *)
(* old the copy of the spec it went through (values.Resolve).              *)
(***************************************************************************)
ReadyComplete ==
  rel.st.ready /\ Current =>
    \E d \in [DOMAIN rel.spec.refs -> Contents \cup {Missing}], a \in Artifacts :
       /\ \A i \in DOMAIN rel.spec.refs : d[i] = Missing => rel.spec.refs[i].optional
       /\ deployed.content = Wanted(rel.spec, a, d)

(***************************************************************************)
(* Every change of an input reaches the cluster.  Once users are done, and *)
(* as long as Flux has built what it was given and no required object is   *)
(* missing, the Release is stalled or deployed is what its spec, its chart *)
(* and the objects it refers to say now, watched or not (the watches of    *)
(* SetupWithManager, spec.interval).  An interval of 0s is left out: it    *)
(* asks for no reconcile but those of the watches.                         *)
(***************************************************************************)
DataNow(s) == [i \in DOMAIN s.refs |-> data[s.refs[i].object]]

FluxDone ==
  \A q \in Refs : flux[q].spec # None /\ Buildable(q) => flux[q].ready /\ ~Outdated(q)

Resolvable ==
  \A i \in DOMAIN rel.spec.refs :
    rel.spec.refs[i].optional \/ DataNow(rel.spec)[i] # Missing

UpToDate ==
  deployed.content = Wanted(rel.spec, WantedArtifact[rel.spec], DataNow(rel.spec))

Stalled == rel.st.stalled /\ Current

InputsDeployed ==
  <>[](FluxDone /\ Resolvable /\ rel.spec.interval > 0 => Stalled \/ UpToDate)

(***************************************************************************)
(* The operator comes to rest: it does not install revision after revision *)
(* when nothing changes any more, which it would if the plan were made     *)
(* from other options than the install (reconcileInstall).                 *)
(***************************************************************************)
RevisionSettles == <>[][deployed'.parity = deployed.parity]_vars

(***************************************************************************)
(* The operator "waits for the artifact, and then runs the Nelm install":  *)
(* a Release that is Ready at the current generation has the chart of its  *)
(* current spec.  The code does not keep this: checkReadyCondition ignores *)
(* observedGeneration.                                                     *)
(***************************************************************************)
ReadyArtifact ==
  rel.st.ready /\ Current => deployed.content.chart = WantedArtifact[rel.spec]
=============================================================================
