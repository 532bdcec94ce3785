----------------------------- MODULE ChartSource -----------------------------
(***************************************************************************)
(* The Flux source objects behind spec.chart.  Releases with the same      *)
(* inline source share one object (its name is a hash of its spec), whose  *)
(* annotation lists the releases that use it.  Each Release moves through  *)
(* status.chartSourcePhase: it records a candidate (Pending), joins it     *)
(* (Disconnecting), leaves the source it used before, and is Ready.        *)
(*                                                                         *)
(* The releases are reconciled concurrently (MaxConcurrentReconciles), one *)
(* API call at a time: source objects are read past the cache and updated  *)
(* under optimistic locking with retries, the Release is read from the     *)
(* cache and its status written under optimistic locking.  What Reconcile  *)
(* does with the chart once it is resolved is the module ReleaseReconciler.*)
(***************************************************************************)
EXTENDS Naturals, FiniteSets

CONSTANTS
  Releases,          \* names of the Releases of one namespace
  Sources,           \* source objects spec.chart can stand for
  ChartRef,          \* spec.chartRef is set instead of spec.chart
  Specs,             \* what users write: sources, and ChartRef or not
  None,              \* a nil reference
  Blank,             \* the empty name, what strings.Split makes of ""
  RetrySteps,        \* attempts of retry.DefaultRetry
  StallOnFailure,    \* spec.install.retries is 0, its default
  FluxFinalizer,     \* source-controller keeps deleted sources for a while
  Faults,            \* API calls may fail
  MaxDisturbances    \* bound on edits, deletions, touches, faults, crashes

ASSUME SpecsAssumption ==
  Specs \subseteq Sources \cup {ChartRef} /\ Specs # {} /\ ChartRef \notin Sources
ASSUME NamesAssumption == None \notin Sources \cup {ChartRef} /\ Blank \notin Releases
ASSUME StepsAssumption == RetrySteps \in Nat \ {0} /\ MaxDisturbances \in Nat
ASSUME FlagsAssumption ==
  StallOnFailure \in BOOLEAN /\ FluxFinalizer \in BOOLEAN /\ Faults \in BOOLEAN

VARIABLES
  obj,            \* each Release in the API server
  cache,          \* the informer's copies
  cacheCurrent,   \* the Releases not written since their copy was taken
  bumped,         \* those with a generation, or a removal, their copy does not show
  src,            \* the source objects
  helmChart,      \* the source each Release's HelmChart points at, or None
  queued,         \* the Releases whose key is in the work queue
  pc,             \* per Release: the API call its reconcile makes next
  view,           \* Reconcile's `rel`
  viewCurrent,    \* the Releases whose `rel` has the current resourceVersion
  target,         \* the source ensure or cleanup works on
  then,           \* what follows that work
  refs,           \* the names read from the source's annotation
  fresh,          \* the Releases whose copy of the target is current
  tries,          \* attempts RetryOnConflict has left
  budget          \* disturbances left

objects == <<obj, cache, cacheCurrent, bumped>>
local   == <<view, viewCurrent, target, then, refs, fresh, tries>>
vars    == <<objects, src, helmChart, queued, pc, local, budget>>

-----------------------------------------------------------------------------
Ref == Sources \cup {None}

Release == [state: {"live", "deleting", "none"}, spec: Sources \cup {ChartRef},
            phase: {"", "Pending", "Disconnecting", "Ready"}, last: Ref, cand: Ref]

Names == Releases \cup {Blank}

Source == [state: {"absent", "live", "terminating"}, refs: SUBSET Names]

Pcs == {"idle", "ensureGet", "ensureCreate", "ensureUpdate", "cleanGet",
        "cleanUpdate", "cleanDelete", "write", "helmApply", "helmDelete", "fail",
        "unfinalize"}

Thens == {"none", "requeue", "helmDelete", "cleanup", "pending", "disconnect",
          "leaveLast", "leaveCand", "delete"}

NoRelease == [state |-> "none", spec |-> ChartRef, phase |-> "", last |-> None, cand |-> None]

NoSource == [state |-> "absent", refs |-> {}]

TypeOK ==
  /\ obj \in [Releases -> Release] /\ cache \in [Releases -> Release]
  /\ view \in [Releases -> Release]
  /\ cacheCurrent \subseteq Releases /\ viewCurrent \subseteq Releases
  /\ bumped \subseteq Releases \ cacheCurrent
  /\ src \in [Sources -> Source] /\ helmChart \in [Releases -> Ref]
  /\ queued \subseteq Releases /\ fresh \subseteq Releases
  /\ pc \in [Releases -> Pcs] /\ then \in [Releases -> Thens]
  /\ target \in [Releases -> Ref] /\ refs \in [Releases -> SUBSET Names]
  /\ tries \in [Releases -> 0 .. RetrySteps]
  /\ budget \in Nat

(***************************************************************************)
(* Releases just created, their finalizers added.                          *)
(***************************************************************************)
Init ==
  /\ obj \in [Releases -> {[NoRelease EXCEPT !.state = "live", !.spec = s] : s \in Specs}]
  /\ cache = obj /\ cacheCurrent = Releases /\ bumped = {}
  /\ src = [s \in Sources |-> NoSource]
  /\ helmChart = [r \in Releases |-> None]
  /\ queued = Releases
  /\ pc = [r \in Releases |-> "idle"] /\ view = [r \in Releases |-> NoRelease]
  /\ viewCurrent = {} /\ fresh = {}
  /\ target = [r \in Releases |-> None] /\ then = [r \in Releases |-> "none"]
  /\ refs = [r \in Releases |-> {}] /\ tries = [r \in Releases |-> 0]
  /\ budget = MaxDisturbances

Spend == budget > 0 /\ budget' = budget - 1

Fault == Faults /\ Spend

-----------------------------------------------------------------------------
(***************************************************************************)
(* Steps of the worker of r.                                               *)
(***************************************************************************)
Goto(r, label) == pc' = [pc EXCEPT ![r] = label]

Return(r, requeue) ==
  /\ Goto(r, "idle")
  /\ view' = [view EXCEPT ![r] = NoRelease] /\ viewCurrent' = viewCurrent \ {r}
  /\ target' = [target EXCEPT ![r] = None] /\ then' = [then EXCEPT ![r] = "none"]
  /\ refs' = [refs EXCEPT ![r] = {}] /\ fresh' = fresh \ {r}
  /\ tries' = [tries EXCEPT ![r] = 0]
  /\ queued' = IF requeue THEN queued \cup {r} ELSE queued

(***************************************************************************)
(* Go on with v as `rel`, label as the next call, working on source s.     *)
(***************************************************************************)
Continue(r, label, v, s, k) ==
  /\ Goto(r, label)
  /\ view' = [view EXCEPT ![r] = v]
  /\ target' = [target EXCEPT ![r] = s] /\ then' = [then EXCEPT ![r] = k]
  /\ refs' = [refs EXCEPT ![r] = {}]
  /\ tries' = [tries EXCEPT ![r] = RetrySteps]

(***************************************************************************)
(* An error: reconcileDelete returns it, resolveChartRef first records it  *)
(* with handleFailure.                                                     *)
(***************************************************************************)
Fails(r) ==
  IF view[r].state = "deleting"
    THEN Return(r, TRUE)
    ELSE /\ Continue(r, "fail", view[r], None, "none")
         /\ fresh' = fresh \ {r}
         /\ UNCHANGED <<queued, viewCurrent>>

(***************************************************************************)
(* What follows a cleanupChartSourceRef, by its call site.                 *)
(***************************************************************************)
AfterCleanup(r) ==
  CASE then[r] = "leaveLast" /\ view[r].cand # None ->
         Continue(r, "cleanGet", view[r], view[r].cand, "leaveCand")
    [] (then[r] = "leaveLast" /\ view[r].cand = None) \/ then[r] = "leaveCand" ->
         Continue(r, "write", [view[r] EXCEPT !.last = None, !.cand = None, !.phase = ""],
                  None, "helmDelete")
    [] then[r] = "disconnect" ->
         Continue(r, "write", [view[r] EXCEPT !.last = view[r].cand, !.phase = "Ready"],
                  None, "requeue")
    [] OTHER ->
         Continue(r, "unfinalize", view[r], None, "none")

(***************************************************************************)
(* The annotation is a comma-separated list: joining no names gives the    *)
(* empty string, and splitting that gives one empty name.                  *)
(***************************************************************************)
Join(names) == IF names = {} THEN {Blank} ELSE names

(***************************************************************************)
(* A write to source s leaves nobody else's copy of it current.            *)
(***************************************************************************)
Others(r, s) == {q \in fresh \ {r} : target[q] # s}

-----------------------------------------------------------------------------
(***************************************************************************)
(* Reconcile up to its first API call, by what the cached Release says.    *)
(***************************************************************************)
Begin(r, label, v, s, k) ==
  /\ pc[r] = "idle" /\ r \in queued /\ queued' = queued \ {r}
  /\ Continue(r, label, v, s, k)
  /\ fresh' = fresh \ {r}
  /\ viewCurrent' = IF r \in cacheCurrent THEN viewCurrent \cup {r} ELSE viewCurrent \ {r}
  /\ UNCHANGED <<objects, src, helmChart, budget>>

Live(r, specs, phases) ==
  cache[r].state = "live" /\ cache[r].spec \in specs /\ cache[r].phase \in phases

(***************************************************************************)
(* Nothing to resolve: the Release is gone, or uses spec.chartRef and left *)
(* no inline source behind.                                                *)
(***************************************************************************)
NothingToResolve(r) ==
  /\ pc[r] = "idle" /\ r \in queued /\ queued' = queued \ {r}
  /\ \/ cache[r].state = "none"
     \/ cache[r].state = "live" /\ cache[r].spec = ChartRef
        /\ cache[r].last = None /\ cache[r].cand = None
  /\ UNCHANGED <<objects, src, helmChart, pc, local, budget>>

LeaveSpecChart(r) ==
  /\ Live(r, {ChartRef}, {"", "Pending", "Disconnecting", "Ready"})
  /\ \/ cache[r].last # None /\ Begin(r, "cleanGet", cache[r], cache[r].last, "leaveLast")
     \/ cache[r].last = None /\ cache[r].cand # None
        /\ Begin(r, "cleanGet", cache[r], cache[r].cand, "leaveCand")

MarkPending(r) ==
  /\ Live(r, Sources, {"", "Ready"}) /\ cache[r].last # cache[r].spec
  /\ Begin(r, "write", [cache[r] EXCEPT !.phase = "Pending", !.cand = cache[r].spec], None, "requeue")

ReplaceCandidate(r) ==
  /\ Live(r, Sources, {"Pending"}) /\ cache[r].cand # cache[r].spec
  /\ Begin(r, "write", [cache[r] EXCEPT !.cand = cache[r].spec], None, "requeue")

JoinCandidate(r) ==
  /\ Live(r, Sources, {"Pending"}) /\ cache[r].cand = cache[r].spec
  /\ Begin(r, "ensureGet", cache[r], cache[r].cand, "pending")

DisconnectLast(r) ==
  /\ Live(r, Sources, {"Disconnecting"})
  /\ cache[r].last # None /\ cache[r].last # cache[r].cand
  /\ Begin(r, "cleanGet", cache[r], cache[r].last, "disconnect")

MarkReady(r) ==
  /\ Live(r, Sources, {"Disconnecting"})
  /\ cache[r].last = None \/ cache[r].last = cache[r].cand
  /\ Begin(r, "write", [cache[r] EXCEPT !.last = cache[r].cand, !.phase = "Ready"], None, "requeue")

UseApplied(r) ==
  /\ Live(r, Sources, {"", "Ready"}) /\ cache[r].last = cache[r].spec
  /\ Begin(r, "helmApply", cache[r], None, "none")

(***************************************************************************)
(* reconcileDelete: its status writes, the last of them before it leaves   *)
(* the source, are one write here.                                         *)
(***************************************************************************)
DeleteReconcile(r) ==
  /\ cache[r].state = "deleting"
  /\ Begin(r, "write", cache[r], None, "cleanup")

-----------------------------------------------------------------------------
(***************************************************************************)
(* ensureChartSourceRef.                                                   *)
(***************************************************************************)
EnsureGet(r) ==
  /\ pc[r] = "ensureGet"
  /\ Goto(r, IF src[target[r]].state = "absent" THEN "ensureCreate" ELSE "ensureUpdate")
  /\ refs' = [refs EXCEPT ![r] = src[target[r]].refs]
  /\ fresh' = fresh \cup {r}
  /\ UNCHANGED <<objects, src, helmChart, queued, view, viewCurrent, target, then, tries, budget>>

(***************************************************************************)
(* Create: AlreadyExists is no conflict, so it is not retried.             *)
(***************************************************************************)
\* Faulty variant: a phase that resolveChartRef does not know.
JoinedMistyped(r) == Continue(r, "write", [view[r] EXCEPT !.phase = "Disconnected"], None, "requeue")

Joined(r) == Continue(r, "write", [view[r] EXCEPT !.phase = "Disconnecting"], None, "requeue")

EnsureCreate(r) ==
  /\ pc[r] = "ensureCreate"
  /\ IF src[target[r]].state = "absent"
       THEN /\ src' = [src EXCEPT ![target[r]] = [state |-> "live", refs |-> {r}]]
            /\ Joined(r)
            /\ fresh' = Others(r, target[r])
            /\ UNCHANGED <<queued, viewCurrent>>
       ELSE Fails(r) /\ UNCHANGED src
  /\ UNCHANGED <<objects, helmChart, budget>>

(***************************************************************************)
(* Update: an annotation that stays the same leaves the resourceVersion.   *)
(***************************************************************************)
\* Faulty variant: no optimistic lock, the last writer wins.
EnsureUpdateBlind(r) ==
  /\ pc[r] = "ensureUpdate" /\ src[target[r]].state # "absent"
  /\ src' = [src EXCEPT ![target[r]].refs = refs[r] \cup {r}]
  /\ Joined(r)
  /\ fresh' = fresh \ {r}
  /\ UNCHANGED <<objects, helmChart, queued, viewCurrent, budget>>

EnsureUpdate(r) ==
  /\ pc[r] = "ensureUpdate" /\ r \in fresh
  /\ src' = [src EXCEPT ![target[r]].refs = refs[r] \cup {r}]
  /\ Joined(r)
  /\ fresh' = IF r \in refs[r] THEN fresh \ {r} ELSE Others(r, target[r])
  /\ UNCHANGED <<objects, helmChart, queued, viewCurrent, budget>>

(***************************************************************************)
(* RetryOnConflict: read again, or give up after RetrySteps attempts.  An  *)
(* Update of a source that is gone fails with NotFound, which it does not  *)
(* retry.                                                                  *)
(***************************************************************************)
Retry(r, label) ==
  /\ r \notin fresh
  /\ IF tries[r] > 1 /\ src[target[r]].state # "absent"
       THEN /\ Goto(r, label)
            /\ tries' = [tries EXCEPT ![r] = @ - 1]
            /\ refs' = [refs EXCEPT ![r] = {}]
            /\ UNCHANGED <<queued, view, viewCurrent, target, then, fresh>>
       ELSE Fails(r)
  /\ UNCHANGED <<objects, src, helmChart, budget>>

EnsureConflict(r) == pc[r] = "ensureUpdate" /\ Retry(r, "ensureGet")

-----------------------------------------------------------------------------
(***************************************************************************)
(* cleanupChartSourceRef: leave the annotation, then delete the source if  *)
(* no name was left, on condition that it did not change since.            *)
(***************************************************************************)
CleanGet(r) ==
  /\ pc[r] = "cleanGet"
  /\ IF src[target[r]].state = "absent" \/ r \notin src[target[r]].refs
       THEN AfterCleanup(r) /\ fresh' = fresh \ {r}
       ELSE /\ Goto(r, "cleanUpdate")
            /\ refs' = [refs EXCEPT ![r] = src[target[r]].refs]
            /\ fresh' = fresh \cup {r}
            /\ UNCHANGED <<view, target, then, tries>>
  /\ UNCHANGED <<objects, src, helmChart, queued, viewCurrent, budget>>

CleanUpdate(r) ==
  /\ pc[r] = "cleanUpdate" /\ r \in fresh
  /\ src' = [src EXCEPT ![target[r]].refs = Join(refs[r] \ {r})]
  /\ IF refs[r] \ {r} = {}
       THEN /\ Goto(r, "cleanDelete")
            /\ refs' = [refs EXCEPT ![r] = {}]
            /\ fresh' = Others(r, target[r]) \cup {r}
            /\ UNCHANGED <<view, target, then, tries>>
       ELSE AfterCleanup(r) /\ fresh' = Others(r, target[r])
  /\ UNCHANGED <<objects, helmChart, queued, viewCurrent, budget>>

CleanConflict(r) == pc[r] = "cleanUpdate" /\ Retry(r, "cleanGet")

\* Faulty variant: the delete carries no preconditions.
CleanDeleteBlind(r) ==
  /\ pc[r] = "cleanDelete"
  /\ src' = [src EXCEPT ![target[r]] = IF FluxFinalizer THEN [@ EXCEPT !.state = "terminating"] ELSE NoSource]
  /\ fresh' = Others(r, target[r])
  /\ AfterCleanup(r)
  /\ UNCHANGED <<objects, helmChart, queued, viewCurrent, budget>>

CleanDelete(r) ==
  /\ pc[r] = "cleanDelete"
  /\ CASE r \in fresh ->
              /\ src' = [src EXCEPT ![target[r]] =
                           IF FluxFinalizer THEN [@ EXCEPT !.state = "terminating"] ELSE NoSource]
              /\ fresh' = Others(r, target[r])
              /\ AfterCleanup(r)
              /\ UNCHANGED <<queued, viewCurrent>>
       [] r \notin fresh /\ src[target[r]].state = "absent" ->
              /\ AfterCleanup(r)
              /\ fresh' = fresh \ {r}
              /\ UNCHANGED <<src, queued, viewCurrent>>
       [] OTHER ->
              Fails(r) /\ UNCHANGED src
  /\ UNCHANGED <<objects, helmChart, budget>>

-----------------------------------------------------------------------------
(***************************************************************************)
(* r.Status().Update at the end of a phase, and what follows it.           *)
(***************************************************************************)
StatusUpdated(r) ==
  /\ obj' = [obj EXCEPT ![r].phase = view[r].phase, ![r].last = view[r].last,
                        ![r].cand = view[r].cand]
  /\ cacheCurrent' = cacheCurrent \ {r}
  /\ UNCHANGED <<cache, bumped>>

Write(r) ==
  /\ pc[r] = "write" /\ r \in viewCurrent
  /\ StatusUpdated(r)
  /\ CASE then[r] = "requeue" -> Return(r, TRUE)
       [] then[r] = "helmDelete" ->
            Continue(r, "helmDelete", view[r], None, "none") /\ UNCHANGED <<fresh, queued, viewCurrent>>
       [] then[r] = "cleanup" /\ view[r].last # None ->
            Continue(r, "cleanGet", view[r], view[r].last, "delete") /\ UNCHANGED <<fresh, queued, viewCurrent>>
       [] OTHER ->
            Continue(r, "unfinalize", view[r], None, "none") /\ UNCHANGED <<fresh, queued, viewCurrent>>
  /\ UNCHANGED <<src, helmChart, budget>>

\* Faulty variant: the conflict is ignored.
WriteConflictDropped(r) ==
  /\ pc[r] \in {"write", "fail"} /\ r \notin viewCurrent
  /\ Return(r, FALSE)
  /\ UNCHANGED <<objects, src, helmChart, budget>>

WriteConflict(r) ==
  /\ pc[r] \in {"write", "fail"} /\ r \notin viewCurrent
  /\ Return(r, TRUE)
  /\ UNCHANGED <<objects, src, helmChart, budget>>

(***************************************************************************)
(* handleFailure: its status write, then a retry or, when there are none   *)
(* (left), nothing.                                                        *)
(***************************************************************************)
HandleFailure(r) ==
  /\ pc[r] = "fail" /\ r \in viewCurrent
  /\ StatusUpdated(r)
  /\ Return(r, ~StallOnFailure)
  /\ UNCHANGED <<src, helmChart, budget>>

(***************************************************************************)
(* ensureHelmChart applies the Release's HelmChart on every reconcile that *)
(* gets that far; cleanupHelmChart deletes it when spec.chart is left.     *)
(***************************************************************************)
EnsureHelmChart(r) ==
  /\ pc[r] = "helmApply"
  /\ helmChart' = [helmChart EXCEPT ![r] = view[r].spec]
  /\ Return(r, FALSE)
  /\ UNCHANGED <<objects, src, budget>>

CleanupHelmChart(r) ==
  /\ pc[r] = "helmDelete"
  /\ helmChart' = [helmChart EXCEPT ![r] = None]
  /\ Return(r, TRUE)
  /\ UNCHANGED <<objects, src, budget>>

(***************************************************************************)
(* The finalizer goes, the Release with it, and with the Release, by its   *)
(* owner reference, the HelmChart.                                         *)
(***************************************************************************)
RemoveFinalizer(r) ==
  /\ pc[r] = "unfinalize"
  /\ obj' = [obj EXCEPT ![r] = NoRelease]
  /\ cacheCurrent' = cacheCurrent \ {r} /\ bumped' = bumped \cup {r}
  /\ helmChart' = [helmChart EXCEPT ![r] = None]
  /\ Return(r, FALSE)
  /\ UNCHANGED <<cache, src, budget>>

(***************************************************************************)
(* Any of the API calls fails.                                             *)
(***************************************************************************)
CallFails(r) ==
  /\ Fault
  /\ \/ pc[r] \in {"write", "fail", "unfinalize"} /\ Return(r, TRUE)
     \/ pc[r] \in Pcs \ {"idle", "write", "fail", "unfinalize"} /\ Fails(r)
  /\ UNCHANGED <<objects, src, helmChart>>

Reconcile(r) ==
  \/ NothingToResolve(r) \/ LeaveSpecChart(r) \/ MarkPending(r) \/ ReplaceCandidate(r)
  \/ JoinCandidate(r) \/ DisconnectLast(r) \/ MarkReady(r) \/ UseApplied(r)
  \/ DeleteReconcile(r)

WorkerStep(r) ==
  \/ EnsureGet(r) \/ EnsureCreate(r) \/ EnsureUpdate(r) \/ EnsureConflict(r)
  \/ CleanGet(r) \/ CleanUpdate(r) \/ CleanConflict(r) \/ CleanDelete(r)
  \/ Write(r) \/ WriteConflict(r) \/ HandleFailure(r)
  \/ EnsureHelmChart(r) \/ CleanupHelmChart(r) \/ RemoveFinalizer(r)

-----------------------------------------------------------------------------
(***************************************************************************)
(* The informer; only a new generation enqueues the Release.  Resync: the  *)
(* interval of the Release, or an event of its source, enqueues it.        *)
(***************************************************************************)
CacheSync(r) ==
  /\ r \notin cacheCurrent
  /\ cache' = [cache EXCEPT ![r] = obj[r]]
  /\ cacheCurrent' = cacheCurrent \cup {r} /\ bumped' = bumped \ {r}
  /\ queued' = IF r \in bumped THEN queued \cup {r} ELSE queued
  /\ UNCHANGED <<obj, src, helmChart, pc, local, budget>>

Resync(r) ==
  /\ r \notin queued /\ obj[r].state # "none"
  /\ queued' = queued \cup {r}
  /\ UNCHANGED <<objects, src, helmChart, pc, local, budget>>

Edited(r, new) ==
  /\ Spend
  /\ obj' = [obj EXCEPT ![r] = new]
  /\ cacheCurrent' = cacheCurrent \ {r} /\ bumped' = bumped \cup {r}
  /\ viewCurrent' = viewCurrent \ {r}
  /\ UNCHANGED <<cache, src, helmChart, queued, pc, view, target, then, refs, fresh, tries>>

EditChart(r) ==
  /\ obj[r].state = "live"
  /\ \E s \in Specs \ {obj[r].spec} : Edited(r, [obj[r] EXCEPT !.spec = s])

DeleteRelease(r) ==
  /\ obj[r].state = "live"
  /\ Edited(r, [obj[r] EXCEPT !.state = "deleting"])

(***************************************************************************)
(* source-controller writes the status of a source, and finalizes it.      *)
(***************************************************************************)
Touch(s) ==
  /\ src[s].state # "absent" /\ Spend
  /\ fresh' = {q \in fresh : target[q] # s}
  /\ UNCHANGED <<objects, src, helmChart, queued, pc, view, viewCurrent, target, then, refs, tries>>

Finalized(s) ==
  /\ src[s].state = "terminating"
  /\ src' = [src EXCEPT ![s] = NoSource]
  /\ fresh' = {q \in fresh : target[q] # s}
  /\ UNCHANGED <<objects, helmChart, queued, pc, view, viewCurrent, target, then, refs, tries, budget>>

Crash ==
  /\ Spend
  /\ cache' = obj /\ cacheCurrent' = Releases /\ bumped' = {}
  /\ queued' = {r \in Releases : obj[r].state # "none"}
  /\ pc' = [r \in Releases |-> "idle"] /\ view' = [r \in Releases |-> NoRelease]
  /\ viewCurrent' = {} /\ fresh' = {}
  /\ target' = [r \in Releases |-> None] /\ then' = [r \in Releases |-> "none"]
  /\ refs' = [r \in Releases |-> {}] /\ tries' = [r \in Releases |-> 0]
  /\ UNCHANGED <<obj, src, helmChart>>

Next ==
  \/ \E r \in Releases :
       \/ Reconcile(r) \/ WorkerStep(r) \/ CallFails(r) \/ CacheSync(r) \/ Resync(r)
       \/ EditChart(r) \/ DeleteRelease(r)
  \/ \E s \in Sources : Touch(s) \/ Finalized(s)
  \/ Crash

Spec == Init /\ [][Next]_vars

(***************************************************************************)
(* Every worker keeps running, queued keys are taken, informers catch up,  *)
(* source-controller finalizes what was deleted.                           *)
(***************************************************************************)
Fairness ==
  /\ \A r \in Releases :
       WF_vars(Reconcile(r)) /\ WF_vars(WorkerStep(r)) /\ WF_vars(CacheSync(r))
  /\ \A s \in Sources : WF_vars(Finalized(s))

FairSpec == Spec /\ Fairness

-----------------------------------------------------------------------------
(***************************************************************************)
(* A Release that has settled on a source (phase Ready) has it: the object *)
(* exists, is not going away, and lists the Release, however the other     *)
(* Releases that share it come and go (resolveChartRef joins the candidate *)
(* before it leaves the old source; cleanupChartSourceRef).                *)
(***************************************************************************)
HasSource(r, s) == src[s].state = "live" /\ r \in src[s].refs

AppliedSourceLive ==
  \A r \in Releases :
    obj[r].state = "live" /\ obj[r].phase = "Ready" => HasSource(r, obj[r].last)

(***************************************************************************)
(* The same for a Release at rest, whose status and spec agree: "the       *)
(* operator manages the source objects for you".  Nothing would repair it, *)
(* since a Release that is Ready on its source never joins it again.       *)
(***************************************************************************)
AtRest(r) == pc[r] = "idle" /\ r \notin queued /\ r \in cacheCurrent

RestingSourceLive ==
  \A r \in Releases :
    AtRest(r) /\ obj[r].state = "live" /\ obj[r].phase = "Ready" /\ obj[r].last = obj[r].spec
      => HasSource(r, obj[r].last)

(***************************************************************************)
(* No source is deleted while a Release is on its list: the delete of the  *)
(* last leaver loses against anyone who joined after its update.           *)
(***************************************************************************)
DeletedOnlyUnlisted ==
  [][\A s \in Sources :
       src[s].state = "live" /\ src'[s].state # "live" => src[s].refs \cap Releases = {}]_vars

(***************************************************************************)
(* The workers share sources as SharedSources says: whatever they read     *)
(* before, and however their updates interleave, none overwrites the name  *)
(* another one has added or removed since (the resourceVersion of the      *)
(* updates in ensureChartSourceRef and cleanupChartSourceRef, and of the   *)
(* delete).  A source that is going away has no users.                     *)
(***************************************************************************)
LiveSources == {s \in Sources : src[s].state = "live"}

UsersOf(s) == IF src[s].state = "live" THEN src[s].refs \cap Releases ELSE {}

Sharing == INSTANCE SharedSources
  WITH live <- LiveSources, users <- [s \in Sources |-> UsersOf(s)]

KeepsSharing == Sharing!Spec

(***************************************************************************)
(* After the last disturbance every live Release settles on the source its *)
(* spec asks for, its HelmChart points there; one with spec.chartRef has   *)
(* left its inline source; one being deleted goes.                         *)
(***************************************************************************)
Settled(r) ==
  \/ obj[r].state = "none"
  \/ obj[r].state = "live" /\ obj[r].spec = ChartRef /\ obj[r].last = None /\ obj[r].cand = None
  \/ /\ obj[r].state = "live" /\ obj[r].spec # ChartRef
     /\ obj[r].phase = "Ready" /\ obj[r].last = obj[r].spec /\ helmChart[r] = obj[r].spec

Settles == <>[](\A r \in Releases : Settled(r))

(***************************************************************************)
(* Once everything has settled, a source object that is left is one that a *)
(* Release uses.                                                           *)
(***************************************************************************)
NoSourceLeft ==
  (\A r \in Releases : AtRest(r) /\ Settled(r)) => \A s \in Sources :
             src[s].state = "live" => \E r \in Releases : obj[r].last = s
=============================================================================
