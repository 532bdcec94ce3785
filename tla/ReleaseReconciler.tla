-------------------------- MODULE ReleaseReconciler --------------------------
(***************************************************************************)
(* The life of one Release under the operator: the API object, the         *)
(* informer's copy of it, the Helm release storage that nelm reads and     *)
(* writes, the Flux source the chart comes from, the controller's work     *)
(* queue, and the worker that runs Reconcile one external call at a time.  *)
(*                                                                         *)
(* The worker keeps the Go variables of one Reconcile call: its copy `view`*)
(* of the Release, `preRel` and `foreignChange`; pc names the external     *)
(* call it makes next, so everything between two calls is one step.  The   *)
(* Release uses spec.chartRef; the phase machine that spec.chart adds to   *)
(* Reconcile is the module ChartSource.                                    *)
(*                                                                         *)
(* Users, Flux, other Helm clients, failing calls and crashes are the      *)
(* disturbances.  Each one spends a unit of `budget`, so that every        *)
(* behaviour has finitely many of them and liveness can be stated.         *)
(***************************************************************************)
EXTENDS Naturals, Sequences, Backoff

CONSTANTS
  Wants,             \* contents of spec.values and friends, what to deploy
  Artifacts,         \* chart artifact revisions the source can serve
  Namespaces,        \* values of GetReleaseNamespace()
  None,              \* no artifact, no content
  SourceKind,        \* kind of spec.chartRef
  Interval,          \* spec.interval, in seconds
  MaxRetries,        \* spec.install.retries
  AutoRollback,      \* spec.install.autoRollback
  Disturbances,      \* the kinds of disturbance that may happen
  MaxDisturbances    \* bound on the number of disturbances

Kinds == {"edit", "move", "suspend", "delete", "create", "deploy", "uninstall",
          "drift", "publish", "flap", "readError", "nelmError", "writeError", "crash"}

ASSUME IntervalAssumption    == Interval \in Nat
ASSUME RetriesAssumption     == MaxRetries \in Nat
ASSUME RollbackAssumption    == AutoRollback \in BOOLEAN
ASSUME KindAssumption        == SourceKind \in {"HelmChart", "OCIRepository"}
ASSUME DisturbanceAssumption == Disturbances \subseteq Kinds /\ MaxDisturbances \in Nat
ASSUME NoneAssumption        == None \notin Artifacts /\ None \notin Wants \X Artifacts
ASSUME NonEmptyAssumption    == Wants # {} /\ Namespaces # {}

INSTANCE SourceWatch

VARIABLES
  rel,            \* the Release in the API server
  cache,          \* the informer's copy, which r.Get and r.List read
  cacheCurrent,   \* no write to the Release since `cache` was taken
  storage,        \* latest stored Helm revision, per release namespace
  chart,          \* the Flux source object
  chartSeen,      \* the last version of it the informer has handled
  chartEvents,    \* later versions, not handled yet
  queued,         \* the Release's key is in the work queue
  timer,          \* a RequeueAfter is pending
  pc,             \* the external call the worker makes next
  view,           \* Reconcile's `rel`
  viewCurrent,    \* its resourceVersion is the API server's
  preRel,         \* Reconcile's `preRel`
  foreignChange,  \* Reconcile's `foreignChange`
  verified,       \* history: what nelm last confirmed or installed, and where
  budget          \* disturbances left

object  == <<rel, cache, cacheCurrent>>
flux    == <<chart, chartSeen, chartEvents>>
queue   == <<queued, timer>>
worker  == <<pc, view, viewCurrent, preRel, foreignChange>>
vars    == <<object, storage, flux, queue, worker, verified, budget>>

-----------------------------------------------------------------------------
(***************************************************************************)
(* Data.                                                                   *)
(*                                                                         *)
(* gen stands for the pair of uid and metadata.generation: the code only   *)
(* compares it with ObservedGeneration, so a Release created again under   *)
(* the same name continues the count.                                      *)
(***************************************************************************)
Content == Wants \X Artifacts

Contents == (Wants \X (Artifacts \cup {None})) \cup {None}

Status == [obs: Nat, ready: BOOLEAN, reconciling: BOOLEAN, stalled: BOOLEAN,
           rev: Nat, failures: Nat, attempted: Artifacts \cup {None},
           lastAction: {"", "install", "rollback", "uninstall"}]

Release == [phase: {"none", "live", "deleting"}, fin: BOOLEAN, gen: Nat,
            suspend: BOOLEAN, want: Wants, ns: Namespaces, st: Status]

(***************************************************************************)
(* One stored revision, rev = 0 when there is none.  synced: it is the     *)
(* deployed one and the cluster still matches it; good: the content of the *)
(* last revision that was deployed, what a rollback goes back to.          *)
(***************************************************************************)
Stored == [rev: Nat, marked: BOOLEAN, synced: BOOLEAN,
           content: Contents, good: Contents]

Chart == [ready: BOOLEAN, art: Artifacts \cup {None}]

EmptyStatus == [obs |-> 0, ready |-> FALSE, reconciling |-> FALSE,
                stalled |-> FALSE, rev |-> 0, failures |-> 0,
                attempted |-> None, lastAction |-> ""]

Absent == [rev |-> 0, marked |-> FALSE, synced |-> FALSE,
           content |-> None, good |-> None]

AnyWant == CHOOSE w \in Wants : TRUE
AnyNs   == CHOOSE n \in Namespaces : TRUE

Gone(g) == [phase |-> "none", fin |-> FALSE, gen |-> g, suspend |-> FALSE,
            want |-> AnyWant, ns |-> AnyNs, st |-> EmptyStatus]

Fresh(g, w, n) == [Gone(g) EXCEPT !.phase = "live", !.want = w, !.ns = n]

InstallPcs == {"get", "source", "plan", "stamp", "install"}
WritePcs   == {"writeNotReady", "writeSuccess", "writeFailure"}
AfterPcs   == {"projectSuccess", "projectFailure", "rollback", "projectRollback"}
DeletePcs  == {"writeUninstalling", "uninstall", "writeUninstalled", "unfinalize"}

Pcs == {"idle", "finalizer"} \cup InstallPcs \cup WritePcs \cup AfterPcs \cup DeletePcs

TypeOK ==
  /\ rel \in Release /\ cache \in Release /\ view \in Release
  /\ cacheCurrent \in BOOLEAN /\ viewCurrent \in BOOLEAN
  /\ storage \in [Namespaces -> Stored] /\ preRel \in Stored
  /\ chart \in Chart /\ chartSeen \in Chart /\ chartEvents \in Seq(Chart)
  /\ queued \in BOOLEAN /\ timer \in BOOLEAN /\ foreignChange \in BOOLEAN
  /\ pc \in Pcs
  /\ verified \in (Wants \X Namespaces) \cup {None}
  /\ budget \in Nat

Init ==
  /\ rel \in {Fresh(1, w, n) : w \in Wants, n \in Namespaces}
  /\ cache = Gone(0) /\ cacheCurrent = FALSE
  /\ storage = [n \in Namespaces |-> Absent]
  /\ chart = [ready |-> FALSE, art |-> None]
  /\ chartSeen = chart /\ chartEvents = << >>
  /\ queued = FALSE /\ timer = FALSE
  /\ pc = "idle" /\ view = Gone(0) /\ viewCurrent = FALSE
  /\ preRel = Absent /\ foreignChange = FALSE
  /\ verified = None
  /\ budget = MaxDisturbances

Spend(kind) ==
  /\ kind \in Disturbances
  /\ budget > 0
  /\ budget' = budget - 1

(***************************************************************************)
(* A call fails because cond makes it fail, or for a reason of its own.    *)
(***************************************************************************)
FailsBecause(cond, kind) == IF cond THEN UNCHANGED budget ELSE Spend(kind)

-----------------------------------------------------------------------------
(***************************************************************************)
(* What the worker's steps are made of.                                    *)
(***************************************************************************)

(***************************************************************************)
(* Reconcile returns: Requeue or an error puts the key back in the queue,  *)
(* an empty Result does not.  A RequeueAfter that is pending stays so.  In *)
(* a queue that merges it with an earlier entry for the key, that entry is *)
(* followed by TimerFire at once.                                          *)
(***************************************************************************)
Return(requeue) ==
  /\ pc' = "idle" /\ view' = Gone(0) /\ viewCurrent' = FALSE
  /\ preRel' = Absent /\ foreignChange' = FALSE
  /\ queued' = (queued \/ requeue)

(***************************************************************************)
(* r.Status().Update: rejected with a conflict when the object was written *)
(* since the copy was taken; a write that changes nothing leaves the       *)
(* resourceVersion, and so the informer's copy, current.                   *)
(***************************************************************************)
\* Faulty variant: the status is put on whatever the object is by now.
StatusReapplied ==
  /\ rel.phase # "none"
  /\ rel' = [rel EXCEPT !.st = [view.st EXCEPT !.obs = rel.gen]]
  /\ cacheCurrent' = (cacheCurrent /\ rel.st = rel'.st)
  /\ UNCHANGED <<cache, budget>>

StatusUpdated ==
  /\ viewCurrent
  /\ rel' = [rel EXCEPT !.st = view.st]
  /\ cacheCurrent' = (cacheCurrent /\ rel.st = view.st)
  /\ UNCHANGED <<cache, budget>>

StatusRejected ==
  /\ FailsBecause(~viewCurrent, "writeError")
  /\ UNCHANGED object

\* Faulty variant: the error is swallowed.
ReturnNothing ==
  /\ Return(FALSE)
  /\ UNCHANGED timer

ReturnError ==
  /\ Return(TRUE)
  /\ UNCHANGED timer

Goto(label) ==
  /\ pc' = label
  /\ UNCHANGED queue

(***************************************************************************)
(* projectStatusFromStorage with a captured release.                       *)
(***************************************************************************)
Project(r, captured) == [r EXCEPT !.st = [r.st EXCEPT !.rev = captured.rev]]

Attempted(r, art) == [r EXCEPT !.st = [r.st EXCEPT !.attempted = art]]

Acted(r, what) == [r EXCEPT !.st = [r.st EXCEPT !.lastAction = what]]

detectForeignChange(recorded, stored) ==
  recorded # 0 /\ (stored.rev = 0 \/ stored.rev > recorded \/ ~stored.marked)

(***************************************************************************)
(* handleFailure after its projection: the counter, then the conditions of *)
(* either branch.  handleSuccess likewise.                                 *)
(***************************************************************************)
Exhausted(r) == r.st.failures > MaxRetries

Counted(r) == 
  [r EXCEPT !.st = [r.st EXCEPT !.failures = r.st.failures + 1, !.obs = r.gen]]

FailureConditions(r) ==
  [r EXCEPT !.st = [r.st EXCEPT !.ready = FALSE,
                             !.stalled = Exhausted(r),
                             !.reconciling = ~Exhausted(r)]]

HandleFailure(r) == FailureConditions(Counted(r))

\* Faulty variant: a success takes back one failure instead of all.
HandleSuccessDecrements(r) ==
  [r EXCEPT !.st = [r.st EXCEPT !.failures = r.st.failures - 1, !.obs = r.gen, !.ready = TRUE,
                             !.reconciling = FALSE, !.stalled = FALSE]]

HandleSuccess(r) ==
  [r EXCEPT !.st = [r.st EXCEPT !.failures = 0, !.obs = r.gen, !.ready = TRUE,
                             !.reconciling = FALSE, !.stalled = FALSE]]

(***************************************************************************)
(* A call before the install failed: handleFailure(..., captured, false).  *)
(***************************************************************************)
FailBefore(cond, r, captured) ==
  /\ FailsBecause(cond, "readError")
  /\ view' = HandleFailure(Project(r, captured))
  /\ Goto("writeFailure")
  /\ UNCHANGED <<object, storage, flux, viewCurrent, preRel, foreignChange, verified>>

(***************************************************************************)
(* nelm, from how the operator uses it.  Every revision it stores carries  *)
(* the operator's labels; a failed install may leave a failed revision.    *)
(***************************************************************************)
Desired(r) == <<r.want, r.st.attempted>>

UpToDate(s, c) == s.rev # 0 /\ s.synced /\ s.content = c

Deployed(s, c) ==
  [rev |-> s.rev + 1, marked |-> TRUE, synced |-> TRUE, content |-> c, good |-> c]

Stamped(s, rev) == [s EXCEPT !.marked = s.marked \/ s.rev = rev]

FailedRevision(s, c) ==
  [s EXCEPT !.rev = s.rev + 1, !.marked = TRUE, !.synced = FALSE, !.content = c]

-----------------------------------------------------------------------------
(***************************************************************************)
(* Reconcile up to its first external write or read: r.Get from the cache  *)
(* and the early returns.                                                  *)
(***************************************************************************)
Dequeue == pc = "idle" /\ queued /\ queued' = FALSE

ReconcileSkip ==
  /\ Dequeue
  /\ \/ cache.phase = "none"
     \/ cache.phase = "deleting" /\ ~cache.fin
     \/ cache.phase = "live" /\ cache.suspend
  /\ UNCHANGED <<object, storage, flux, timer, worker, verified, budget>>

Begin(label, copy) ==
  /\ Dequeue
  /\ pc' = label
  /\ view' = copy
  /\ viewCurrent' = cacheCurrent
  /\ UNCHANGED <<object, storage, flux, timer, preRel, foreignChange, verified, budget>>

ReconcileNew ==
  /\ cache.phase = "live" /\ ~cache.suspend /\ ~cache.fin
  /\ Begin("finalizer", cache)

\* Faulty variant: the finalizer check is lost.
ReconcileUnguarded ==
  /\ cache.phase = "live" /\ ~cache.suspend
  /\ Begin("get", cache)

ReconcileLive ==
  /\ cache.phase = "live" /\ ~cache.suspend /\ cache.fin
  /\ Begin("get", cache)

ReconcileDeleted ==
  /\ cache.phase = "deleting" /\ cache.fin
  /\ Begin("writeUninstalling",
           [cache EXCEPT !.st = [cache.st EXCEPT !.reconciling = TRUE, !.obs = cache.gen]])

(***************************************************************************)
(* The finalizer is added with a merge patch, which carries no             *)
(* resourceVersion: it applies to whatever the object is by now, and the   *)
(* API server refuses it only when the object is gone or being deleted.    *)
(***************************************************************************)
AddFinalizer ==
  /\ pc = "finalizer"
  /\ \/ /\ rel.phase = "live"
        /\ rel' = [rel EXCEPT !.fin = TRUE]
        /\ cacheCurrent' = (cacheCurrent /\ rel.fin)
        /\ UNCHANGED <<cache, budget>>
     \/ /\ FailsBecause(rel.phase # "live", "writeError")
        /\ UNCHANGED object
  /\ Return(TRUE)
  /\ UNCHANGED <<storage, flux, timer, verified>>

(***************************************************************************)
(* getRelease.  When it or MkdirTemp fails, handleFailure is given a nil   *)
(* release to project.                                                     *)
(***************************************************************************)
GetRelease ==
  /\ pc = "get"
  /\ preRel' = storage[view.ns]
  /\ foreignChange' = detectForeignChange(view.st.rev, storage[view.ns])
  /\ Goto("source")
  /\ UNCHANGED <<object, storage, flux, view, viewCurrent, verified, budget>>

GetReleaseFails ==
  /\ pc = "get"
  /\ FailBefore(FALSE, view, Absent)

(***************************************************************************)
(* source.ResolveChartRef reads the source past the cache and downloads    *)
(* its artifact; a source that is not ready ends the reconcile.            *)
(***************************************************************************)
ResolveChartRef ==
  /\ pc = "source" /\ chart.ready
  /\ view' = Attempted(view, chart.art)
  /\ Goto("plan")
  /\ UNCHANGED <<object, storage, flux, viewCurrent, preRel, foreignChange, verified, budget>>

SourceNotReady ==
  /\ pc = "source" /\ ~chart.ready
  /\ view' = Project(view, preRel)
  /\ Goto("writeNotReady")
  /\ UNCHANGED <<object, storage, flux, viewCurrent, preRel, foreignChange, verified, budget>>

ResolveChartRefFails ==
  /\ pc = "source"
  /\ FailBefore(FALSE, view, preRel)

(***************************************************************************)
(* reconcileInstall: forget the failures of an older generation, resolve   *)
(* the values, plan.  An empty plan is a success; otherwise install.       *)
(***************************************************************************)
NewAttempt(r) ==
  IF r.st.obs # r.gen THEN [r EXCEPT !.st = [r.st EXCEPT !.failures = 0]] ELSE r

PlanUpToDate ==
  /\ pc = "plan" /\ UpToDate(storage[view.ns], Desired(view))
  /\ verified' = <<view.want, view.ns>>
  /\ IF preRel.rev # 0 /\ ~preRel.marked
       THEN view' = NewAttempt(view) /\ Goto("stamp")
       ELSE /\ view' = HandleSuccess(Project(NewAttempt(view), preRel))
            /\ Goto("writeSuccess")
  /\ UNCHANGED <<object, storage, flux, viewCurrent, preRel, foreignChange, budget>>

PlanChanges ==
  /\ pc = "plan" /\ ~UpToDate(storage[view.ns], Desired(view))
  /\ view' = NewAttempt(view)
  /\ Goto("install")
  /\ UNCHANGED <<object, storage, flux, viewCurrent, preRel, foreignChange, verified, budget>>

PlanFails ==
  /\ pc = "plan"
  /\ FailBefore(FALSE, NewAttempt(view), preRel)

(***************************************************************************)
(* stampOwnershipMarker labels revision preRel.Revision, which need not be *)
(* the latest one any more; it fails when that revision is gone.           *)
(***************************************************************************)
StampOwnershipMarker ==
  /\ pc = "stamp" /\ storage[view.ns].rev >= preRel.rev
  /\ storage' = [storage EXCEPT ![view.ns] = Stamped(@, preRel.rev)]
  /\ view' = HandleSuccess(Project(view, preRel))
  /\ Goto("writeSuccess")
  /\ UNCHANGED <<object, flux, viewCurrent, preRel, foreignChange, verified, budget>>

StampFails ==
  /\ pc = "stamp"
  /\ FailBefore(storage[view.ns].rev < preRel.rev, view, preRel)

Install ==
  /\ pc = "install"
  /\ storage' = [storage EXCEPT ![view.ns] = Deployed(@, Desired(view))]
  /\ view' = Acted(view, "install")
  /\ verified' = <<view.want, view.ns>>
  /\ Goto("projectSuccess")
  /\ UNCHANGED <<object, flux, viewCurrent, preRel, foreignChange, budget>>

InstallFails ==
  /\ pc = "install"
  /\ Spend("nelmError")
  /\ \/ UNCHANGED storage
     \/ storage' = [storage EXCEPT ![view.ns] = FailedRevision(@, Desired(view))]
  /\ Goto("projectFailure")
  /\ UNCHANGED <<object, flux, view, viewCurrent, preRel, foreignChange, verified>>

(***************************************************************************)
(* projectStatusFromStorage with refetch: a failed read leaves the fields. *)
(***************************************************************************)
Refetched ==
  \/ view' = Project(view, storage[view.ns]) /\ UNCHANGED budget
  \/ view' = view /\ Spend("readError")

ProjectSuccess ==
  /\ pc = "projectSuccess"
  /\ \/ view' = HandleSuccess(Project(view, storage[view.ns])) /\ UNCHANGED budget
     \/ view' = HandleSuccess(view) /\ Spend("readError")
  /\ Goto("writeSuccess")
  /\ UNCHANGED <<object, storage, flux, viewCurrent, preRel, foreignChange, verified>>

ProjectFailure ==
  /\ pc = "projectFailure"
  /\ \/ view' = HandleFailure(Project(view, storage[view.ns])) /\ UNCHANGED budget
     \/ view' = HandleFailure(view) /\ Spend("readError")
  /\ Goto(IF AutoRollback /\ Exhausted(Counted(view)) THEN "rollback" ELSE "writeFailure")
  /\ UNCHANGED <<object, storage, flux, viewCurrent, preRel, foreignChange, verified>>

(***************************************************************************)
(* attemptRollback: its own failure is only logged.                        *)
(***************************************************************************)
Rollback ==
  /\ pc = "rollback"
  /\ \/ /\ storage[view.ns].good # None
        /\ storage' = [storage EXCEPT ![view.ns] = Deployed(@, @.good)]
        /\ view' = Acted(view, "rollback")
        /\ Goto("projectRollback")
        /\ UNCHANGED budget
     \/ /\ FailsBecause(storage[view.ns].good = None, "nelmError")
        /\ Goto("writeFailure")
        /\ UNCHANGED <<storage, view>>
  /\ UNCHANGED <<object, flux, viewCurrent, preRel, foreignChange, verified>>

ProjectRollback ==
  /\ pc = "projectRollback"
  /\ Refetched
  /\ Goto("writeFailure")
  /\ UNCHANGED <<object, storage, flux, viewCurrent, preRel, foreignChange, verified>>

(***************************************************************************)
(* The three ways a reconcile of a live Release ends.  A RequeueAfter of 0 *)
(* or less schedules nothing; the CRD admits an interval of 0s.            *)
(***************************************************************************)
WriteNotReady ==
  /\ pc = "writeNotReady"
  /\ \/ StatusUpdated /\ Return(FALSE)
     \/ StatusRejected /\ Return(TRUE)
  /\ UNCHANGED <<storage, flux, timer, verified>>

\* Faulty variant: spec.interval is forgotten.
WriteSuccessOnce ==
  /\ pc = "writeSuccess"
  /\ \/ StatusUpdated /\ Return(FALSE)
     \/ StatusRejected /\ Return(TRUE)
  /\ UNCHANGED <<storage, flux, timer, verified>>

WriteSuccess ==
  /\ pc = "writeSuccess"
  /\ \/ StatusUpdated /\ Return(FALSE) /\ timer' = (timer \/ Interval > 0)
     \/ StatusRejected /\ Return(TRUE) /\ UNCHANGED timer
  /\ UNCHANGED <<storage, flux, verified>>

\* Faulty variant: the backoff is computed and not returned.
WriteFailureOnce ==
  /\ pc = "writeFailure"
  /\ \/ StatusUpdated /\ Return(FALSE)
     \/ StatusRejected /\ Return(TRUE)
  /\ UNCHANGED <<storage, flux, timer, verified>>

WriteFailure ==
  /\ pc = "writeFailure"
  /\ \/ /\ StatusUpdated
        /\ Return(FALSE)
        /\ timer' = (timer \/ (~Exhausted(view) /\ Retries(view.st.failures)))
     \/ StatusRejected /\ Return(TRUE) /\ UNCHANGED timer
  /\ UNCHANGED <<storage, flux, verified>>

(***************************************************************************)
(* reconcileDelete.                                                        *)
(***************************************************************************)
\* Faulty variant: the error of the first status write is only logged.
WriteUninstallingLoose ==
  /\ pc = "writeUninstalling"
  /\ StatusUpdated \/ StatusRejected
  /\ Goto("uninstall")
  /\ UNCHANGED <<storage, flux, view, viewCurrent, preRel, foreignChange, verified>>

WriteUninstalling ==
  /\ pc = "writeUninstalling"
  /\ \/ /\ StatusUpdated
        /\ Goto("uninstall")
        /\ UNCHANGED <<view, viewCurrent, preRel, foreignChange>>
     \/ StatusRejected /\ ReturnError
  /\ UNCHANGED <<storage, flux, verified>>

\* Faulty variant: a failed uninstall does not stop the deletion.
UninstallBestEffort ==
  /\ pc = "uninstall"
  /\ \/ storage' = [storage EXCEPT ![view.ns] = Absent] /\ UNCHANGED budget
     \/ Spend("nelmError") /\ UNCHANGED storage
  /\ view' = Acted(view, "uninstall")
  /\ Goto("writeUninstalled")
  /\ UNCHANGED <<object, flux, viewCurrent, preRel, foreignChange, verified>>

Uninstall ==
  /\ pc = "uninstall"
  /\ \/ /\ storage' = [storage EXCEPT ![view.ns] = Absent]
        /\ view' = Acted(view, "uninstall")
        /\ Goto("writeUninstalled")
        /\ UNCHANGED <<viewCurrent, preRel, foreignChange, budget>>
     \/ Spend("nelmError") /\ ReturnError /\ UNCHANGED storage
  /\ UNCHANGED <<object, flux, verified>>

WriteUninstalled ==
  /\ pc = "writeUninstalled"
  /\ \/ /\ StatusUpdated
        /\ Goto("unfinalize")
        /\ UNCHANGED <<view, viewCurrent, preRel, foreignChange>>
     \/ StatusRejected /\ ReturnError
  /\ UNCHANGED <<storage, flux, verified>>

RemoveFinalizer ==
  /\ pc = "unfinalize"
  /\ \/ /\ rel.phase # "none"
        /\ rel' = IF rel.phase = "deleting" THEN Gone(rel.gen) ELSE [rel EXCEPT !.fin = FALSE]
        /\ cacheCurrent' = FALSE
        /\ Return(FALSE)
        /\ UNCHANGED <<cache, timer, budget>>
     \/ FailsBecause(rel.phase = "none", "writeError") /\ ReturnError /\ UNCHANGED object
  /\ UNCHANGED <<storage, flux, verified>>

WorkerStep ==
  \/ AddFinalizer
  \/ GetRelease \/ GetReleaseFails
  \/ ResolveChartRef \/ SourceNotReady \/ ResolveChartRefFails
  \/ PlanUpToDate \/ PlanChanges \/ PlanFails
  \/ StampOwnershipMarker \/ StampFails
  \/ Install \/ InstallFails
  \/ ProjectSuccess \/ ProjectFailure \/ Rollback \/ ProjectRollback
  \/ WriteNotReady \/ WriteSuccess \/ WriteFailure
  \/ WriteUninstalling \/ Uninstall \/ WriteUninstalled \/ RemoveFinalizer

Reconcile == ReconcileSkip \/ ReconcileNew \/ ReconcileLive \/ ReconcileDeleted

-----------------------------------------------------------------------------
(***************************************************************************)
(* The controller's watches and timers.                                    *)
(***************************************************************************)

(***************************************************************************)
(* The informer catches up with the Release; GenerationChangedPredicate    *)
(* lets creations, deletions and new generations through.                  *)
(***************************************************************************)
CacheSync ==
  /\ ~cacheCurrent
  /\ cache' = rel /\ cacheCurrent' = TRUE
  /\ queued' = (queued \/ cache.gen # rel.gen \/ cache.phase # rel.phase)
  /\ UNCHANGED <<rel, storage, flux, timer, worker, verified, budget>>

(***************************************************************************)
(* The watch of the source handles its next version.  A Release that the   *)
(* informer does not show is not in the index.                             *)
(***************************************************************************)
ChartEvent ==
  /\ chartEvents # << >>
  /\ chartSeen' = Head(chartEvents)
  /\ chartEvents' = Tail(chartEvents)
  /\ queued' = (queued \/ (/\ cache.phase # "none"
                           /\ Enqueues(SourceKind, chartSeen, Head(chartEvents), cache.st)))
  /\ UNCHANGED <<object, storage, chart, timer, worker, verified, budget>>

TimerFire ==
  /\ timer
  /\ timer' = FALSE /\ queued' = TRUE
  /\ UNCHANGED <<object, storage, flux, worker, verified, budget>>

-----------------------------------------------------------------------------
(***************************************************************************)
(* Disturbances.                                                           *)
(***************************************************************************)
Written ==
  /\ cacheCurrent' = FALSE /\ viewCurrent' = FALSE
  /\ UNCHANGED <<cache, storage, flux, queue, pc, view, preRel, foreignChange, verified>>

EditValues ==
  /\ rel.phase # "none" /\ Spend("edit")
  /\ \E w \in Wants \ {rel.want} : rel' = [rel EXCEPT !.want = w, !.gen = @ + 1]
  /\ Written

EditTargetNamespace ==
  /\ rel.phase # "none" /\ Spend("move")
  /\ \E n \in Namespaces \ {rel.ns} : rel' = [rel EXCEPT !.ns = n, !.gen = @ + 1]
  /\ Written

ToggleSuspend ==
  /\ rel.phase # "none" /\ Spend("suspend")
  /\ rel' = [rel EXCEPT !.suspend = ~@, !.gen = @ + 1]
  /\ Written

(***************************************************************************)
(* Deleting: the API server keeps the object while it has a finalizer.     *)
(***************************************************************************)
DeleteRelease ==
  /\ rel.phase = "live" /\ Spend("delete")
  /\ rel' = IF rel.fin THEN [rel EXCEPT !.phase = "deleting", !.gen = @ + 1]
                       ELSE Gone(rel.gen)
  /\ Written

CreateRelease ==
  /\ rel.phase = "none" /\ Spend("create")
  /\ \E w \in Wants, n \in Namespaces : rel' = Fresh(rel.gen + 1, w, n)
  /\ Written

(***************************************************************************)
(* Other Helm clients: helm does not carry custom labels to a revision.    *)
(***************************************************************************)
ForeignDeploy ==
  /\ Spend("deploy")
  /\ \E n \in Namespaces, c \in Content :
       storage' = [storage EXCEPT ![n] = [Deployed(@, c) EXCEPT !.marked = FALSE]]
  /\ UNCHANGED <<object, flux, queue, worker, verified>>

ForeignUninstall ==
  /\ Spend("uninstall")
  /\ \E n \in Namespaces : storage' = [storage EXCEPT ![n] = Absent]
  /\ UNCHANGED <<object, flux, queue, worker, verified>>

Drift ==
  /\ Spend("drift")
  /\ \E n \in Namespaces :
       storage[n].rev # 0 /\ storage' = [storage EXCEPT ![n] = [@ EXCEPT !.synced = FALSE]]
  /\ UNCHANGED <<object, flux, queue, worker, verified>>

(***************************************************************************)
(* Flux: the first artifact is no disturbance, a new revision is; a fetch  *)
(* that fails clears Ready and keeps the artifact.                         *)
(***************************************************************************)
ChartBecomes(c) ==
  /\ chart' = c /\ chartEvents' = Append(chartEvents, c)
  /\ UNCHANGED <<object, storage, chartSeen, queue, worker, verified>>

Publish ==
  /\ IF chart.art = None THEN UNCHANGED budget ELSE Spend("publish")
  /\ \E a \in Artifacts \ {chart.art} : ChartBecomes([ready |-> TRUE, art |-> a])

SourceFails ==
  /\ chart.ready /\ Spend("flap")
  /\ ChartBecomes([chart EXCEPT !.ready = FALSE])

SourceRecovers ==
  /\ ~chart.ready /\ chart.art # None /\ UNCHANGED budget
  /\ ChartBecomes([chart EXCEPT !.ready = TRUE])

(***************************************************************************)
(* The operator dies and starts again: fresh informers, which enqueue      *)
(* every Release they list, and an empty queue otherwise.  An install that *)
(* was running may have stored its revision.                               *)
(***************************************************************************)
Crash ==
  /\ Spend("crash")
  /\ \/ UNCHANGED storage
     \/ /\ pc = "install"
        /\ storage' = [storage EXCEPT ![view.ns] = FailedRevision(@, Desired(view))]
  /\ cache' = rel /\ cacheCurrent' = TRUE
  /\ chartSeen' = chart /\ chartEvents' = << >>
  /\ timer' = FALSE /\ queued' = (rel.phase # "none")
  /\ pc' = "idle" /\ view' = Gone(0) /\ viewCurrent' = FALSE
  /\ preRel' = Absent /\ foreignChange' = FALSE
  /\ UNCHANGED <<rel, chart, verified>>

User == EditValues \/ EditTargetNamespace \/ ToggleSuspend \/ DeleteRelease \/ CreateRelease

Cluster == ForeignDeploy \/ ForeignUninstall \/ Drift \/ Publish \/ SourceFails \/ SourceRecovers

Next == WorkerStep \/ Reconcile \/ CacheSync \/ ChartEvent \/ TimerFire \/ User \/ Cluster \/ Crash

Spec == Init /\ [][Next]_vars

(***************************************************************************)
(* Fairness: the one worker this key has keeps running and each of nelm's  *)
(* calls ends (they have timeouts); a queued key is taken; informers catch *)
(* up; timers fire.  Nothing is assumed of users, Flux or other clients.   *)
(***************************************************************************)
Fairness ==
  /\ WF_vars(WorkerStep) /\ WF_vars(Reconcile)
  /\ WF_vars(CacheSync) /\ WF_vars(ChartEvent) /\ WF_vars(TimerFire)

FairSpec == Spec /\ Fairness

-----------------------------------------------------------------------------
(***************************************************************************)
(* Safety.                                                                 *)
(***************************************************************************)

(***************************************************************************)
(* The finalizer does its work: once a Release is gone from the API server *)
(* no Helm release that carries the operator's ownership marker is left,   *)
(* whatever the informer showed the worker, whatever was in flight when it *)
(* was deleted (Reconcile 80-96, reconcileDelete).                         *)
(***************************************************************************)
NoOrphan ==
  rel.phase = "none" => \A n \in Namespaces : ~storage[n].marked

(***************************************************************************)
(* A Ready condition observed at the current generation tells the truth:   *)
(* nelm's last confirmation or install was for exactly the spec the        *)
(* Release has now, although the worker reads specs from a stale cache and *)
(* writes the condition long after it read them (handleSuccess).           *)
(***************************************************************************)
ReadyTruthful ==
  rel.phase = "live" /\ rel.st.ready /\ rel.st.obs = rel.gen
    => verified = <<rel.want, rel.ns>>

(***************************************************************************)
(* A Release that reports RetryPending does have a retry coming: a timer,  *)
(* a queued key, a running reconcile, or a watch event still on its way    *)
(* (the backoff of handleFailure, and the filters of the watches).         *)
(***************************************************************************)
RetryPending == rel.phase = "live" /\ rel.st.reconciling

RetryScheduled ==
  RetryPending /\ ~rel.suspend /\ chart.ready
    => \/ timer \/ queued \/ pc # "idle"
       \/ cache.gen # rel.gen \/ chartEvents # << >>

(***************************************************************************)
(* The operator uninstalls only a Release that is being deleted now: not   *)
(* one created again under the name of a deleted one that its cache still  *)
(* shows (the status write with which reconcileDelete begins).             *)
(***************************************************************************)
UninstallOnlyDeleted ==
  [][pc = "uninstall" /\ storage' # storage /\ pc' = "writeUninstalled"
       => rel.phase = "deleting"]_vars

(***************************************************************************)
(* The operator keeps the life cycle of ReleaseLifecycle: no step of the   *)
(* worker, however late, deploys for a Release that is gone or lets one go *)
(* while something owned is left.                                          *)
(***************************************************************************)
Lifecycle == INSTANCE ReleaseLifecycle
  WITH phase <- rel.phase, owned <- \E n \in Namespaces : storage[n].marked

KeepsLifecycle == Lifecycle!Spec

(***************************************************************************)
(* Liveness.                                                               *)
(***************************************************************************)

(***************************************************************************)
(* After the last disturbance a live Release that is neither suspended nor *)
(* stalled, and whose source is ready, is deployed: the cluster has its    *)
(* values and the source's artifact, and the status says so.  Edits and    *)
(* new artifacts are repaired by a watch, drift and what other Helm        *)
(* clients do by the interval, so it holds with an Interval of 0 only if   *)
(* these are not among the Disturbances.  For an OCIRepository that may    *)
(* fail it rests on the assumption about Flux's digests in SourceWatch;    *)
(* for a HelmChart that may fail it does not hold (release_lostwakeup).    *)
(***************************************************************************)
Stalled == rel.st.stalled /\ rel.st.obs = rel.gen

InSync ==
  /\ rel.st.ready /\ rel.st.obs = rel.gen
  /\ UpToDate(storage[rel.ns], <<rel.want, chart.art>>)

Converges ==
  <>[](rel.phase = "live" /\ ~rel.suspend /\ chart.ready => Stalled \/ InSync)

(***************************************************************************)
(* A deleted Release goes away.                                            *)
(***************************************************************************)
DeletionCompletes == rel.phase = "deleting" ~> rel.phase # "deleting"

=============================================================================
