----------------------------- MODULE RetryProofs -----------------------------
(***************************************************************************)
(* Machine-checked proof about ReleaseReconciler: a Release that reports   *)
(* RetryPending has a retry coming (RetryScheduled).  Two runs show what   *)
(* it needs: with 30 retries or more the backoff overflows, and the filter *)
(* of the HelmChart watch loses the recovery of a source that failed.      *)
(***************************************************************************)
EXTENDS ReleaseReconcilerProofs

RetryAssumptions ==
  /\ MaxRetries < 30
  /\ SourceKind = "HelmChart" => "flap" \notin Disturbances

(***************************************************************************)
(* The versions of the source: a ready one has an artifact, and the last   *)
(* one the informer has yet to handle is the source as it is.              *)
(***************************************************************************)
Versions ==
  /\ chart.ready => chart.art # None
  /\ chartSeen.ready => chartSeen.art # None
  /\ \A i \in DOMAIN chartEvents : chartEvents[i].ready => chartEvents[i].art # None
  /\ chartEvents = << >> => chartSeen = chart
  /\ chartEvents # << >> => chartEvents[Len(chartEvents)] = chart

\* Without failing fetches, a HelmChart that is not ready was never tried.
NeverTried ==
  SourceKind = "HelmChart" =>
    /\ chart.art # None => chart.ready
    /\ chart.art = None =>
         \A st \in {rel.st, cache.st, view.st} : st.attempted = None
    /\ pc = "writeNotReady" => view.st.attempted = None

(***************************************************************************)
(* The copies of the Release: one of the current generation of a live      *)
(* Release shows that it is live and whether it is suspended.              *)
(***************************************************************************)
Generations ==
  /\ cache.gen <= rel.gen
  /\ rel.phase = "live" /\ cache.gen = rel.gen
       => cache.phase = "live" /\ cache.suspend = rel.suspend
  /\ cacheCurrent => cache.phase = rel.phase
  /\ viewCurrent => view.phase = rel.phase
  /\ pc \in DeletePcs => view.phase = "deleting"
  /\ pc \in Leaving => rel.phase = "deleting"

\* RetryPending is reported only while retries are left, never with a success.
RetriesLeft ==
  /\ pc \in {"rollback", "projectRollback", "writeFailure"} =>
       (view.st.reconciling => view.st.failures <= MaxRetries)
  /\ pc = "writeSuccess" => ~view.st.reconciling

(***************************************************************************)
(* What will bring the worker back when nothing else does: a version of    *)
(* the source that is not ready comes before the ready one, so an event    *)
(* that passes the predicate, and that no filter holds back, is coming.    *)
(***************************************************************************)
Unready == ~chartSeen.ready \/ \E i \in DOMAIN chartEvents : ~chartEvents[i].ready

Expecting ==
  /\ Unready
  /\ SourceKind = "HelmChart" => rel.st.attempted = None /\ cache.st.attempted = None

Attentive ==
  /\ pc = "idle" /\ RetryPending /\ ~rel.suspend
       => timer \/ queued \/ cache.gen # rel.gen \/ Expecting
  /\ pc = "writeNotReady" /\ rel.phase = "live"
       => queued \/ cache.gen # rel.gen \/ Expecting

RetryInv == Versions /\ NeverTried /\ Generations /\ RetriesLeft /\ Attentive

-----------------------------------------------------------------------------
(***************************************************************************)
(* The delay, and what the worker's updates of its copy do to the fields   *)
(* the invariant speaks of.                                                *)
(***************************************************************************)
\* The backoff is positive before the shift overflows.
LEMMA BackoffPositive ==
  ASSUME NEW f \in Nat, f < 30
  PROVE  Retries(f)
<1>1. ~Negative(f) /\ ~Vanishes(f)
  BY DEF Negative, Vanishes
<1>2. CASE f <= 4
  <2>1. 2 ^ 0 = 1 /\ 2 ^ 1 = 2 /\ 2 ^ 2 = 4 /\ 2 ^ 3 = 8 /\ 2 ^ 4 = 16
    BY SMT
  <2>2. f = 0 \/ f = 1 \/ f = 2 \/ f = 3 \/ f = 4
    BY <1>2
  <2>3. BackoffSeconds(f) = 15 * 2 ^ f
    BY <1>1, <1>2 DEF BackoffSeconds
  <2>4. 15 * 2 ^ f > 0
    <3>1. CASE f = 0
      BY <2>1, <3>1
    <3>2. CASE f = 1
      BY <2>1, <3>2
    <3>3. CASE f = 2
      BY <2>1, <3>3
    <3>4. CASE f = 3
      BY <2>1, <3>4
    <3>5. CASE f = 4
      BY <2>1, <3>5
    <3>6. QED
      BY <2>2, <3>1, <3>2, <3>3, <3>4, <3>5
  <2>5. QED
    BY <2>3, <2>4 DEF Retries
<1>3. CASE ~(f <= 4)
  BY <1>1, <1>3 DEF Retries, BackoffSeconds, BackoffCap
<1>4. QED
  BY <1>2, <1>3

\* What was attempted, and whether a retry is pending and left.
Tells(new, old) ==
  /\ new.phase = old.phase /\ new.st.attempted = old.st.attempted

RetryFields(new, old) ==
  /\ Tells(new, old) /\ new.st.reconciling = old.st.reconciling
  /\ new.st.failures = old.st.failures

LEMMA ProjectTells ==
  ASSUME NEW r \in Release, NEW c \in Stored
  PROVE  Project(r, c) \in Release /\ RetryFields(Project(r, c), r)
  BY DEF Project, Release, Status, Stored, RetryFields, Tells

LEMMA ActedTells ==
  ASSUME NEW r \in Release, NEW a \in {"install", "rollback", "uninstall"}
  PROVE  Acted(r, a) \in Release /\ RetryFields(Acted(r, a), r)
  BY DEF Acted, Release, Status, RetryFields, Tells

LEMMA NewAttemptTells ==
  ASSUME NEW r \in Release
  PROVE  NewAttempt(r) \in Release /\ Tells(NewAttempt(r), r)
  BY DEF NewAttempt, Release, Status, Tells

LEMMA HandleSuccessTells ==
  ASSUME NEW r \in Release
  PROVE  Tells(HandleSuccess(r), r) /\ ~HandleSuccess(r).st.reconciling
  BY DEF HandleSuccess, Release, Status, Tells

\* handleFailure reports RetryPending only while retries are left.
LEMMA HandleFailureTells ==
  ASSUME NEW r \in Release
  PROVE  LET new == HandleFailure(r)
         IN  Tells(new, r) /\ (new.st.reconciling => new.st.failures <= MaxRetries)
<1> DEFINE st == [r.st EXCEPT !.failures = r.st.failures + 1, !.obs = r.gen]
           failed == Counted(r).st.failures > MaxRetries
<1>1. r.st \in Status /\ r.st.failures \in Nat /\ r.gen \in Nat
  BY DEF Release, Status
<1>2. r.st.failures + 1 \in Nat
  BY <1>1
<1>3. st \in Status /\ st.attempted = r.st.attempted /\ st.failures \in Nat
  BY <1>1, <1>2 DEF Status
<1>4. Counted(r) = [r EXCEPT !.st = st]
  BY DEF Counted
<1>5. Counted(r) \in Release /\ Counted(r).phase = r.phase /\ Counted(r).st = st
  BY <1>3, <1>4 DEF Release
<1>6. failed \in BOOLEAN /\ (~failed => st.failures <= MaxRetries)
  BY <1>3, <1>5, RetriesAssumption
<1> HIDE DEF st, failed
<1> DEFINE fin == [st EXCEPT !.ready = FALSE, !.stalled = failed, !.reconciling = ~failed]
<1>7. fin.attempted = r.st.attempted /\ fin.failures = st.failures /\ fin.reconciling = ~failed
  BY <1>3, <1>6 DEF Status
<1>8. HandleFailure(r) = [Counted(r) EXCEPT !.st = fin]
  BY <1>5 DEF HandleFailure, FailureConditions, Exhausted, failed
<1> HIDE DEF fin
<1>9. HandleFailure(r).phase = r.phase /\ HandleFailure(r).st = fin
  BY <1>5, <1>8 DEF Release
<1>10. QED
  BY <1>6, <1>7, <1>9 DEF Tells

\* The same after a projection.
LEMMA ProjectedFailureTells ==
  ASSUME NEW r \in Release, NEW c \in Stored
  PROVE  LET new == HandleFailure(Project(r, c))
         IN  Tells(new, r) /\ (new.st.reconciling => new.st.failures <= MaxRetries)
<1> DEFINE p == Project(r, c)
<1>1. p \in Release /\ Tells(p, r)
  BY ProjectTells DEF RetryFields
<1> HIDE DEF p
<1>2. Tells(HandleFailure(p), p)
      /\ (HandleFailure(p).st.reconciling => HandleFailure(p).st.failures <= MaxRetries)
  BY <1>1, HandleFailureTells
<1>3. Tells(HandleFailure(p), r)
  BY <1>1, <1>2 DEF Tells
<1>4. QED
  BY <1>2, <1>3 DEF p

LEMMA ProjectedSuccessTells ==
  ASSUME NEW r \in Release, NEW c \in Stored
  PROVE  Tells(HandleSuccess(Project(r, c)), r)
<1> DEFINE p == Project(r, c)
<1>1. p \in Release /\ Tells(p, r)
  BY ProjectTells DEF RetryFields
<1> HIDE DEF p
<1>2. Tells(HandleSuccess(p), p)
  BY <1>1, HandleSuccessTells
<1>3. Tells(HandleSuccess(p), r)
  BY <1>1, <1>2 DEF Tells
<1>4. QED
  BY <1>3 DEF p

-----------------------------------------------------------------------------
(***************************************************************************)
(* The invariant.                                                          *)
(***************************************************************************)
\* Where it starts: a new Release reports nothing.
LEMMA RetryInit == Init => RetryInv
<1> SUFFICES ASSUME Init PROVE RetryInv
  OBVIOUS
<1>1. rel.phase = "live" /\ rel.gen = 1 /\ rel.st = EmptyStatus
  <2>1. PICK w \in Wants, n \in Namespaces : rel = Fresh(1, w, n)
    BY DEF Init
  <2>2. QED
    BY <2>1 DEF Fresh, Gone
<1>2. cache.gen = 0 /\ cache.st = EmptyStatus /\ view.st = EmptyStatus
  BY GoneLemma DEF Init
<1>3. EmptyStatus.attempted = None /\ EmptyStatus.reconciling = FALSE
  BY DEF EmptyStatus
<1>4. Versions /\ NeverTried
  BY <1>1, <1>2, <1>3 DEF Init, Versions, NeverTried
<1>5. Generations /\ RetriesLeft /\ Attentive
  BY <1>1, <1>2, <1>3 DEF Init, Generations, RetriesLeft, Attentive, RetryPending, DeletePcs, Leaving
<1>6. QED
  BY <1>4, <1>5 DEF RetryInv

\* Nothing the invariant speaks of changes.
LEMMA RetryFrame ==
  ASSUME RetryInv, UNCHANGED <<object, flux, queue, pc, view, viewCurrent>>
  PROVE  RetryInv'
<1>1. Versions' /\ NeverTried'
  BY DEF RetryInv, Versions, NeverTried, object, flux
<1>2. Generations' /\ RetriesLeft'
  BY DEF RetryInv, Generations, RetriesLeft, object
<1>3. Attentive'
  BY DEF RetryInv, Attentive, RetryPending, Expecting, Unready, object, flux, queue
<1>4. QED
  BY <1>1, <1>2, <1>3 DEF RetryInv

\* A step of the worker within a reconcile.
LEMMA RetryLocal ==
  ASSUME RetryInv, UNCHANGED <<object, flux, viewCurrent>>,
         pc' \notin {"idle", "writeNotReady"},
         view'.phase = view.phase,
         view'.st.attempted = view.st.attempted \/ chart.art # None,
         RetriesLeft', pc' \in DeletePcs => pc \in DeletePcs, pc' \in Leaving => pc \in Leaving
  PROVE  RetryInv'
<1>1. Versions'
  BY DEF RetryInv, Versions, flux
<1>2. NeverTried'
  BY DEF RetryInv, NeverTried, object, flux
<1>3. Generations'
  BY DEF RetryInv, Generations, object
<1>4. Attentive'
  BY DEF Attentive
<1>5. QED
  BY <1>1, <1>2, <1>3, <1>4 DEF RetryInv

\* The end of a reconcile.
LEMMA RetryIdle ==
  ASSUME RetryInv, UNCHANGED <<cache, flux>>, pc' = "idle", view' = Gone(0),
         viewCurrent' = FALSE, cacheCurrent' => cacheCurrent,
         rel'.gen = rel.gen,
         (rel'.phase = rel.phase /\ rel'.suspend = rel.suspend)
           \/ (rel'.phase = "none" /\ cacheCurrent' = FALSE),
         rel'.st.attempted \in {rel.st.attempted, view.st.attempted, None},
         RetryPending' /\ ~rel'.suspend =>
           timer' \/ queued' \/ cache.gen # rel.gen \/ Expecting'
  PROVE  RetryInv'
<1>1. Versions'
  BY DEF RetryInv, Versions, flux
<1>2. view'.st.attempted = None
  BY DEF Gone, EmptyStatus
<1>3. NeverTried'
  BY <1>2 DEF RetryInv, NeverTried, flux
<1>4. Generations'
  BY DEF RetryInv, Generations, DeletePcs, Leaving
<1>5. RetriesLeft' /\ Attentive'
  BY DEF RetriesLeft, Attentive
<1>6. QED
  BY <1>1, <1>3, <1>4, <1>5 DEF RetryInv

\* A reconcile that ends with an error or a requeue.
LEMMA RetryRequeue ==
  ASSUME RetryInv, Return(TRUE), UNCHANGED <<object, flux>>
  PROVE  RetryInv'
<1>1. /\ pc' = "idle" /\ view' = Gone(0) /\ viewCurrent' = FALSE /\ queued' = TRUE
      /\ UNCHANGED <<rel, cache, cacheCurrent>>
  BY DEF Return, object
<1>2. QED
  BY <1>1, RetryIdle

\* The source as the informer will show it is the source itself.
LEMMA UnreadySource ==
  ASSUME TypeOK, Versions, ~chart.ready
  PROVE  Unready
<1>1. CASE chartEvents = << >>
  BY <1>1 DEF Versions, Unready
<1>2. CASE chartEvents # << >>
  <2>1. chartEvents \in Seq(Chart)
    BY DEF TypeOK
  <2>2. Len(chartEvents) \in DOMAIN chartEvents
    BY <1>2, <2>1
  <2>3. chartEvents[Len(chartEvents)] = chart
    BY <1>2 DEF Versions
  <2> QED
    BY <2>2, <2>3 DEF Unready
<1>3. QED
  BY <1>1, <1>2

-----------------------------------------------------------------------------
(***************************************************************************)
(* The worker.                                                             *)
(***************************************************************************)
\* A failure before the install.
LEMMA RetryFail ==
  ASSUME RetryInv, NEW c, NEW r \in Release, NEW s \in Stored, Tells(r, view),
         FailBefore(c, r, s)
  PROVE  RetryInv'
<1>1. view' = HandleFailure(Project(r, s)) /\ pc' = "writeFailure"
      /\ UNCHANGED <<object, flux, viewCurrent>>
  BY DEF FailBefore, Goto
<1>2. Tells(view', r) /\ (view'.st.reconciling => view'.st.failures <= MaxRetries)
  BY <1>1, ProjectedFailureTells
<1>3. view'.phase = view.phase /\ view'.st.attempted = view.st.attempted
  BY <1>2 DEF Tells
<1>4. RetriesLeft'
  BY <1>1, <1>2 DEF RetriesLeft
<1>5. pc' \notin {"idle", "writeNotReady"} /\ pc' \notin DeletePcs /\ pc' \notin Leaving
  BY <1>1 DEF DeletePcs, Leaving
<1>6. QED
  BY <1>1, <1>3, <1>4, <1>5, RetryLocal

\* The calls that can end the attempt before the install.
LEMMA RetryFails ==
  ASSUME TypeOK, RetryInv, GetReleaseFails \/ ResolveChartRefFails \/ PlanFails \/ StampFails
  PROVE  RetryInv'
<1>1. view \in Release /\ preRel \in Stored /\ Absent \in Stored /\ Tells(view, view)
  BY DEF TypeOK, Absent, Stored, Contents, Tells
<1>2. NewAttempt(view) \in Release /\ Tells(NewAttempt(view), view)
  BY <1>1, NewAttemptTells
<1>3. CASE GetReleaseFails
  BY <1>1, <1>3, RetryFail DEF GetReleaseFails
<1>4. CASE ResolveChartRefFails
  BY <1>1, <1>4, RetryFail DEF ResolveChartRefFails
<1>5. CASE PlanFails
  BY <1>1, <1>2, <1>5, RetryFail DEF PlanFails
<1>6. CASE StampFails
  BY <1>1, <1>6, RetryFail DEF StampFails
<1>7. QED
  BY <1>3, <1>4, <1>5, <1>6

\* The way to an install, and what follows it.
LEMMA RetryAttempt ==
  ASSUME TypeOK, RetryInv,
         \/ GetRelease \/ ResolveChartRef \/ PlanUpToDate \/ PlanChanges
         \/ StampOwnershipMarker \/ Install \/ InstallFails \/ ProjectSuccess
  PROVE  RetryInv'
<1>1. view \in Release /\ preRel \in Stored /\ storage[view.ns] \in Stored
  BY DEF TypeOK, Release
<1>2. UNCHANGED <<object, flux, viewCurrent>>
  BY DEF GetRelease, ResolveChartRef, PlanUpToDate, PlanChanges, StampOwnershipMarker,
         Install, InstallFails, ProjectSuccess
<1>3. pc' \in {"source", "plan", "stamp", "writeSuccess", "install", "projectSuccess",
               "projectFailure"}
  BY DEF GetRelease, ResolveChartRef, PlanUpToDate, PlanChanges, StampOwnershipMarker,
         Install, InstallFails, ProjectSuccess, Goto
<1>4. /\ pc' \notin {"idle", "writeNotReady"} /\ pc' \notin DeletePcs /\ pc' \notin Leaving
      /\ pc' \notin {"rollback", "projectRollback", "writeFailure"}
  BY <1>3 DEF DeletePcs, Leaving
<1>5. view'.phase = view.phase /\ (view'.st.attempted = view.st.attempted \/ chart.art # None)
  <2>1. CASE GetRelease \/ InstallFails
    BY <2>1 DEF GetRelease, InstallFails
  <2>2. CASE ResolveChartRef
    <3>1. chart.art # None
      BY <2>2 DEF ResolveChartRef, RetryInv, Versions
    <3>2. view'.phase = view.phase
      BY <1>1, <2>2 DEF ResolveChartRef, Attempted, Release
    <3>3. QED
      BY <3>1, <3>2
  <2>3. CASE PlanUpToDate \/ PlanChanges
    <3>1. NewAttempt(view) \in Release /\ Tells(NewAttempt(view), view)
      BY <1>1, NewAttemptTells
    <3>2. Tells(HandleSuccess(Project(NewAttempt(view), preRel)), NewAttempt(view))
      BY <1>1, <3>1, ProjectedSuccessTells
    <3>3. view' = NewAttempt(view) \/ view' = HandleSuccess(Project(NewAttempt(view), preRel))
      BY <2>3 DEF PlanUpToDate, PlanChanges
    <3>4. QED
      BY <3>1, <3>2, <3>3 DEF Tells
  <2>4. CASE StampOwnershipMarker
    BY <1>1, <2>4, ProjectedSuccessTells DEF StampOwnershipMarker, Tells
  <2>5. CASE Install
    BY <1>1, <2>5, ActedTells DEF Install, RetryFields, Tells
  <2>6. CASE ProjectSuccess
    BY <1>1, <2>6, ProjectedSuccessTells, HandleSuccessTells DEF ProjectSuccess, Tells
  <2>7. QED
    BY <2>1, <2>2, <2>3, <2>4, <2>5, <2>6
<1>6. RetriesLeft'
  <2>1. NewAttempt(view) \in Release
    BY <1>1, NewAttemptTells
  <2>2. pc' = "writeSuccess" => \E r \in Release : view' = HandleSuccess(r)
    <3>1. CASE PlanUpToDate
      BY <1>1, <2>1, <3>1, ProjectTells DEF PlanUpToDate, Goto
    <3>2. CASE StampOwnershipMarker \/ ProjectSuccess
      BY <1>1, <3>2, ProjectTells DEF StampOwnershipMarker, ProjectSuccess
    <3>3. CASE GetRelease \/ ResolveChartRef \/ PlanChanges \/ Install \/ InstallFails
      BY <3>3 DEF GetRelease, ResolveChartRef, PlanChanges, Install, InstallFails, Goto
    <3>4. QED
      BY <3>1, <3>2, <3>3
  <2>3. pc' = "writeSuccess" => ~view'.st.reconciling
    BY <2>2, HandleSuccessTells
  <2>4. QED
    BY <1>4, <2>3 DEF RetriesLeft
<1>7. QED
  BY <1>2, <1>4, <1>5, <1>6, RetryLocal

\* handleFailure after a failed install, and the rollback.
LEMMA RetryAfterFailure ==
  ASSUME TypeOK, RetryInv, ProjectFailure \/ Rollback \/ ProjectRollback
  PROVE  RetryInv'
<1>1. view \in Release /\ storage[view.ns] \in Stored
  BY DEF TypeOK, Release
<1>2. UNCHANGED <<object, flux, viewCurrent>>
  BY DEF ProjectFailure, Rollback, ProjectRollback
<1>3. pc' \in {"rollback", "projectRollback", "writeFailure"}
  BY DEF ProjectFailure, Rollback, ProjectRollback, Goto
<1>4. pc' \notin {"idle", "writeNotReady"} /\ pc' \notin DeletePcs /\ pc' \notin Leaving
  BY <1>3 DEF DeletePcs, Leaving
<1>5. Tells(view', view) /\ (view'.st.reconciling => view'.st.failures <= MaxRetries)
  <2>1. CASE ProjectFailure
    BY <1>1, <2>1, ProjectedFailureTells, HandleFailureTells DEF ProjectFailure
  <2>2. CASE Rollback \/ ProjectRollback
    <3>1. RetryFields(view', view)
      BY <1>1, <2>2, ActedTells, ProjectTells
      DEF Rollback, ProjectRollback, Refetched, RetryFields, Tells
    <3>2. view.st.reconciling => view.st.failures <= MaxRetries
      BY <2>2 DEF Rollback, ProjectRollback, RetryInv, RetriesLeft
    <3>3. QED
      BY <3>1, <3>2 DEF RetryFields
  <2>3. QED
    BY <2>1, <2>2
<1>6. RetriesLeft'
  BY <1>3, <1>5 DEF RetriesLeft
<1>7. QED
  BY <1>2, <1>4, <1>5, <1>6, RetryLocal DEF Tells

\* A source that is not ready will still show its recovery.
LEMMA RetryNotReady ==
  ASSUME TypeOK, RetryInv, SourceNotReady
  PROVE  RetryInv'
<1>1. UNCHANGED <<object, flux, viewCurrent>> /\ pc' = "writeNotReady"
  BY DEF SourceNotReady, Goto
<1>2. view'.phase = view.phase /\ view'.st.attempted = view.st.attempted
  BY ProjectTells DEF SourceNotReady, TypeOK, RetryFields, Tells
<1>3. SourceKind = "HelmChart" =>
        /\ rel.st.attempted = None /\ cache.st.attempted = None /\ view.st.attempted = None
  BY DEF SourceNotReady, RetryInv, NeverTried
<1>4. Expecting
  BY <1>3, UnreadySource DEF SourceNotReady, RetryInv, Expecting
<1>5. Versions' /\ NeverTried'
  BY <1>1, <1>2, <1>3 DEF RetryInv, Versions, NeverTried, object, flux
<1>6. Generations' /\ RetriesLeft'
  BY <1>1, <1>2 DEF RetryInv, Generations, RetriesLeft, object, DeletePcs, Leaving
<1>7. Attentive'
  BY <1>1, <1>4 DEF Attentive, Expecting, Unready, object, flux
<1>8. QED
  BY <1>5, <1>6, <1>7 DEF RetryInv

\* The finalizer is not what the invariant speaks of.
LEMMA RetryFinalizer ==
  ASSUME TypeOK, RetryInv, AddFinalizer
  PROVE  RetryInv'
<1>1. /\ pc' = "idle" /\ view' = Gone(0) /\ viewCurrent' = FALSE /\ queued' = TRUE
      /\ UNCHANGED flux
  BY DEF AddFinalizer, Return
<1>2. /\ rel'.phase = rel.phase /\ rel'.suspend = rel.suspend /\ rel'.gen = rel.gen
      /\ rel'.st = rel.st /\ cache' = cache /\ (cacheCurrent' => cacheCurrent)
  BY DEF AddFinalizer, object, TypeOK, Release
<1>3. QED
  BY <1>1, <1>2, RetryIdle

\* What a status write changes.
LEMMA UpdatedTells ==
  ASSUME TypeOK, StatusUpdated
  PROVE  /\ rel'.phase = rel.phase /\ rel'.suspend = rel.suspend /\ rel'.gen = rel.gen
         /\ rel'.st = view.st /\ cache' = cache /\ (cacheCurrent' => cacheCurrent)
  BY DEF StatusUpdated, TypeOK, Release

\* The three ways a reconcile of a live Release ends.
LEMMA RetryWrite ==
  ASSUME TypeOK, RetryInv, RetryAssumptions, WriteNotReady \/ WriteSuccess \/ WriteFailure
  PROVE  RetryInv'
<1>0. UNCHANGED flux
  BY DEF WriteNotReady, WriteSuccess, WriteFailure
<1>1. CASE StatusRejected /\ Return(TRUE)
  BY <1>0, <1>1, RetryRequeue DEF StatusRejected
<1>2. CASE /\ StatusUpdated /\ Return(FALSE)
           /\ \/ pc \in {"writeNotReady", "writeSuccess"}
              \/ /\ pc = "writeFailure"
                 /\ timer' = (timer \/ (~Exhausted(view) /\ Retries(view.st.failures)))
  <2>1. /\ rel'.phase = rel.phase /\ rel'.suspend = rel.suspend /\ rel'.gen = rel.gen
        /\ rel'.st = view.st /\ cache' = cache /\ (cacheCurrent' => cacheCurrent)
    BY <1>2, UpdatedTells
  <2>2. /\ pc' = "idle" /\ view' = Gone(0) /\ viewCurrent' = FALSE
        /\ queued' = (queued \/ FALSE)
    BY <1>2 DEF Return
  <2>3. CASE pc = "writeNotReady"
    <3>1. SourceKind = "HelmChart" => view.st.attempted = None
      BY <2>3 DEF RetryInv, NeverTried
    <3>2. Expecting => Expecting'
      BY <1>0, <2>1, <3>1 DEF Expecting, Unready, flux
    <3>3. rel.phase = "live" => queued \/ cache.gen # rel.gen \/ Expecting
      BY <2>3 DEF RetryInv, Attentive
    <3>4. RetryPending' => queued' \/ cache.gen # rel.gen \/ Expecting'
      BY <2>1, <2>2, <3>2, <3>3 DEF RetryPending
    <3>5. QED
      BY <1>0, <2>1, <2>2, <3>4, RetryIdle
  <2>4. CASE pc = "writeSuccess"
    <3>1. ~RetryPending'
      BY <2>1, <2>4 DEF RetryInv, RetriesLeft, RetryPending
    <3>2. QED
      BY <1>0, <2>1, <2>2, <3>1, RetryIdle
  <2>5. CASE /\ pc = "writeFailure"
             /\ timer' = (timer \/ (~Exhausted(view) /\ Retries(view.st.failures)))
    <3>1. view.st.reconciling => view.st.failures <= MaxRetries
      BY <2>5 DEF RetryInv, RetriesLeft
    <3>2. view.st.failures \in Nat
      BY DEF TypeOK, Release, Status
    <3>3. view.st.reconciling => view.st.failures < 30 /\ ~Exhausted(view)
      BY <3>1, <3>2, RetriesAssumption DEF RetryAssumptions, Exhausted
    <3>4. view.st.reconciling => Retries(view.st.failures)
      BY <3>2, <3>3, BackoffPositive
    <3>5. RetryPending' => timer'
      BY <2>1, <2>5, <3>3, <3>4 DEF RetryPending
    <3>6. QED
      BY <1>0, <2>1, <2>2, <3>5, RetryIdle
  <2>6. QED
    BY <1>2, <2>3, <2>4, <2>5
<1>3. QED
  BY <1>1, <1>2 DEF WriteNotReady, WriteSuccess, WriteFailure

\* reconcileDelete, which only a Release that is being deleted gets through.
LEMMA RetryDelete ==
  ASSUME TypeOK, RetryInv,
         WriteUninstalling \/ Uninstall \/ WriteUninstalled \/ RemoveFinalizer
  PROVE  RetryInv'
<1>0. UNCHANGED flux
  BY DEF WriteUninstalling, Uninstall, WriteUninstalled, RemoveFinalizer
<1>1. CASE ReturnError /\ UNCHANGED object
  BY <1>0, <1>1, RetryRequeue DEF ReturnError
<1>2. CASE Uninstall /\ ~(ReturnError /\ UNCHANGED object)
  <2>1. /\ UNCHANGED <<object, viewCurrent>> /\ pc = "uninstall" /\ pc' = "writeUninstalled"
        /\ view' = Acted(view, "uninstall")
    BY <1>2 DEF Uninstall, Goto
  <2>2. view'.phase = view.phase /\ view'.st.attempted = view.st.attempted
    BY <2>1, ActedTells DEF TypeOK, RetryFields, Tells
  <2>3. RetriesLeft'
    BY <2>1 DEF RetriesLeft
  <2>4. pc \in DeletePcs /\ pc \in Leaving
    BY <2>1 DEF DeletePcs, Leaving
  <2>5. QED
    BY <1>0, <2>1, <2>2, <2>3, <2>4, RetryLocal
<1>3. CASE (WriteUninstalling \/ WriteUninstalled) /\ ~(ReturnError /\ UNCHANGED object)
  <2>1. /\ StatusUpdated /\ UNCHANGED <<view, viewCurrent>> /\ viewCurrent
        /\ pc \in {"writeUninstalling", "writeUninstalled"} /\ pc' \in {"uninstall", "unfinalize"}
    BY <1>3 DEF WriteUninstalling, WriteUninstalled, Goto, StatusUpdated, StatusRejected
  <2>2. /\ rel'.phase = rel.phase /\ rel'.suspend = rel.suspend /\ rel'.gen = rel.gen
        /\ rel'.st = view.st /\ cache' = cache /\ (cacheCurrent' => cacheCurrent)
    BY <2>1, UpdatedTells
  <2>3. view.phase = "deleting" /\ rel.phase = "deleting"
    BY <2>1 DEF RetryInv, Generations, DeletePcs
  <2>4. Versions' /\ NeverTried'
    BY <1>0, <2>1, <2>2 DEF RetryInv, Versions, NeverTried, flux
  <2>5. Generations'
    BY <2>1, <2>2, <2>3 DEF RetryInv, Generations
  <2>6. RetriesLeft' /\ Attentive'
    BY <2>1 DEF RetriesLeft, Attentive
  <2>7. QED
    BY <2>4, <2>5, <2>6 DEF RetryInv
<1>4. CASE RemoveFinalizer /\ ~(ReturnError /\ UNCHANGED object)
  <2>1. rel.phase = "deleting"
    BY <1>4 DEF RemoveFinalizer, RetryInv, Generations, Leaving
  <2>2. /\ rel' = Gone(rel.gen) /\ cacheCurrent' = FALSE /\ cache' = cache
        /\ pc' = "idle" /\ view' = Gone(0) /\ viewCurrent' = FALSE
    BY <1>4, <2>1 DEF RemoveFinalizer, Return
  <2>3. rel.gen \in Nat
    BY DEF TypeOK, Release
  <2>4. rel'.phase = "none" /\ rel'.gen = rel.gen /\ rel'.st = EmptyStatus
    BY <2>2, <2>3, GoneLemma
  <2>5. rel'.st.attempted = None
    BY <2>2 DEF Gone, EmptyStatus
  <2>6. ~RetryPending'
    BY <2>4 DEF RetryPending
  <2>7. QED
    BY <1>0, <2>2, <2>4, <2>5, <2>6, RetryIdle
<1>5. QED
  BY <1>1, <1>2, <1>3, <1>4

LEMMA RetryWorker == TypeOK /\ RetryInv /\ RetryAssumptions /\ WorkerStep => RetryInv'
  BY RetryFinalizer, RetryFails, RetryAttempt, RetryAfterFailure, RetryNotReady, RetryWrite,
     RetryDelete DEF WorkerStep

-----------------------------------------------------------------------------
(***************************************************************************)
(* The queue, the watches and the disturbances.                            *)
(***************************************************************************)
\* Taking the key: a copy that makes Reconcile return is an old one.
LEMMA RetrySkip ==
  ASSUME RetryInv, ReconcileSkip
  PROVE  RetryInv'
<1>1. /\ pc = "idle" /\ UNCHANGED <<object, flux, timer, pc, view, viewCurrent>>
      /\ cache.phase # "live" \/ cache.suspend
  BY DEF ReconcileSkip, Dequeue, worker
<1>2. Versions' /\ NeverTried' /\ Generations' /\ RetriesLeft'
  BY <1>1 DEF RetryInv, Versions, NeverTried, Generations, RetriesLeft, object, flux
<1>3. rel.phase = "live" /\ ~rel.suspend => cache.gen # rel.gen
  BY <1>1 DEF RetryInv, Generations
<1>4. Attentive'
  BY <1>1, <1>3 DEF Attentive, RetryPending, object
<1>5. QED
  BY <1>2, <1>4 DEF RetryInv

\* Starting to work on the copy the cache shows.
LEMMA RetryBegin ==
  ASSUME TypeOK, RetryInv, ReconcileNew \/ ReconcileLive \/ ReconcileDeleted
  PROVE  RetryInv'
<1>1. /\ pc' \in {"finalizer", "get", "writeUninstalling"} /\ UNCHANGED <<object, flux>>
      /\ viewCurrent' = cacheCurrent
  BY DEF ReconcileNew, ReconcileLive, ReconcileDeleted, Begin
<1>2. /\ view'.phase = cache.phase /\ view'.st.attempted = cache.st.attempted
      /\ pc' = "writeUninstalling" => cache.phase = "deleting"
  <2>1. CASE ReconcileNew \/ ReconcileLive
    BY <2>1 DEF ReconcileNew, ReconcileLive, Begin
  <2>2. CASE ReconcileDeleted
    BY <2>2 DEF ReconcileDeleted, Begin, TypeOK, Release, Status
  <2>3. QED
    BY <2>1, <2>2
<1>3. Versions' /\ NeverTried'
  BY <1>1, <1>2 DEF RetryInv, Versions, NeverTried, object, flux
<1>4. Generations'
  BY <1>1, <1>2 DEF RetryInv, Generations, object, DeletePcs, Leaving
<1>5. RetriesLeft' /\ Attentive'
  BY <1>1 DEF RetriesLeft, Attentive
<1>6. QED
  BY <1>3, <1>4, <1>5 DEF RetryInv

\* The informer catches up.
LEMMA RetrySync ==
  ASSUME TypeOK, RetryInv, CacheSync
  PROVE  RetryInv'
<1>1. /\ cache' = rel /\ UNCHANGED <<rel, flux, timer, pc, view, viewCurrent>>
      /\ queued' = (queued \/ cache.gen # rel.gen \/ cache.phase # rel.phase)
  BY DEF CacheSync, worker
<1>2. rel.gen \in Nat
  BY DEF TypeOK, Release
<1>3. Versions' /\ NeverTried'
  BY <1>1 DEF RetryInv, Versions, NeverTried, flux
<1>4. Generations' /\ RetriesLeft'
  BY <1>1, <1>2 DEF RetryInv, Generations, RetriesLeft
<1>5. Expecting => Expecting'
  BY <1>1 DEF Expecting, Unready, flux
<1>6. Attentive'
  BY <1>1, <1>5 DEF RetryInv, Attentive, RetryPending
<1>7. QED
  BY <1>3, <1>4, <1>6 DEF RetryInv

\* A sequence without a tail has one element.
LEMMA NoLength == \A t : t = << >> => Len(t) = 0
  OBVIOUS

LEMMA LastOne ==
  ASSUME NEW q \in Seq(Chart), q # << >>, Tail(q) = << >>
  PROVE  Len(q) = 1
<1> DEFINE t == Tail(q)
           n == Len(q)
<1>1. t = << >> /\ Len(t) = n - 1 /\ n \in Nat
  OBVIOUS
<1> HIDE DEF t, n
<1>2. Len(t) = 0
  BY <1>1, NoLength, Zenon
<1>3. n = 1
  BY <1>1, <1>2
<1>4. QED
  BY <1>3 DEF n

\* The version of a source that ends a wait enqueues the Release.
LEMMA EventTells ==
  ASSUME TypeOK, RetryInv, ChartEvent, Expecting, cache.phase # "none"
  PROVE  queued' \/ Expecting'
<1> DEFINE e == Head(chartEvents)
<1>1. /\ chartEvents # << >> /\ chartSeen' = e /\ chartEvents' = Tail(chartEvents)
      /\ queued' = (queued \/ Enqueues(SourceKind, chartSeen, e, cache.st))
      /\ rel' = rel /\ cache' = cache
  BY DEF ChartEvent, object
<1>2. chartEvents \in Seq(Chart)
  BY DEF TypeOK
<1>3. 1 \in DOMAIN chartEvents /\ e = chartEvents[1] /\ e \in Chart
  BY <1>1, <1>2
<1>4. e.ready => e.art # None
  BY <1>3 DEF RetryInv, Versions
<1> HIDE DEF e
<1>5. CASE ~e.ready
  BY <1>1, <1>5 DEF Expecting, Unready
<1>6. CASE e.ready /\ \E i \in DOMAIN chartEvents : ~chartEvents[i].ready
  <2>1. PICK i \in DOMAIN chartEvents : ~chartEvents[i].ready
    BY <1>6
  <2>2. i # 1
    BY <1>3, <1>6, <2>1
  <2>3. i - 1 \in DOMAIN Tail(chartEvents) /\ Tail(chartEvents)[i - 1] = chartEvents[i]
    BY <1>1, <1>2, <2>1, <2>2
  <2>4. Unready'
    BY <1>1, <2>1, <2>3 DEF Unready
  <2>5. QED
    BY <1>1, <2>4 DEF Expecting
<1>7. CASE e.ready /\ \A i \in DOMAIN chartEvents : chartEvents[i].ready
  <2>1. ~chartSeen.ready
    BY <1>7 DEF Expecting, Unready
  <2>2. RevisionChange(chartSeen, e)
    BY <1>7, <2>1 DEF RevisionChange
  <2>3. Requests(SourceKind, e, cache.st)
    BY <1>4, <1>7, KindAssumption
    DEF Requests, requestsForHelmChartChange, requestsForOCIRepositoryChange, extractDigest,
        ArtifactDigest, Expecting
  <2>4. QED
    BY <1>1, <2>2, <2>3 DEF Enqueues
<1>8. QED
  BY <1>5, <1>6, <1>7

\* The watch of the source.
LEMMA RetryEvent ==
  ASSUME TypeOK, RetryInv, ChartEvent
  PROVE  RetryInv'
<1>1. /\ chartEvents # << >> /\ chartSeen' = Head(chartEvents)
      /\ chartEvents' = Tail(chartEvents)
      /\ UNCHANGED <<object, chart, timer, pc, view, viewCurrent>> /\ (queued => queued')
  BY DEF ChartEvent, worker
<1>2. chartEvents \in Seq(Chart) /\ Len(chartEvents) \in Nat \ {0}
  BY <1>1 DEF TypeOK
<1>3. Head(chartEvents) = chartEvents[1] /\ 1 \in DOMAIN chartEvents
  BY <1>1, <1>2
<1>4. \A i \in DOMAIN Tail(chartEvents) :
        i + 1 \in DOMAIN chartEvents /\ Tail(chartEvents)[i] = chartEvents[i + 1]
  BY <1>1, <1>2
<1>5. Len(Tail(chartEvents)) = Len(chartEvents) - 1
  BY <1>1, <1>2
<1>6. Versions'
  <2>1. \A i \in DOMAIN chartEvents' : chartEvents'[i].ready => chartEvents'[i].art # None
    BY <1>1, <1>4 DEF RetryInv, Versions
  <2>2. chartSeen'.ready => chartSeen'.art # None
    BY <1>1, <1>3 DEF RetryInv, Versions
  <2>3. chartEvents[Len(chartEvents)] = chart
    BY <1>1 DEF RetryInv, Versions
  <2>4. chartEvents' = << >> => chartSeen' = chart
    <3>1. SUFFICES ASSUME chartEvents' = << >> PROVE chartSeen' = chart
      OBVIOUS
    <3>2. Len(chartEvents) = 1
      BY <1>1, <1>2, <3>1, LastOne
    <3>3. QED
      BY <1>1, <1>3, <2>3, <3>2
  <2>5. chartEvents' # << >> => chartEvents'[Len(chartEvents')] = chart
    <3>1. SUFFICES ASSUME chartEvents' # << >> PROVE chartEvents'[Len(chartEvents')] = chart
      OBVIOUS
    <3>2. Tail(chartEvents) \in Seq(Chart) /\ Tail(chartEvents) # << >>
      BY <1>1, <1>2, <3>1
    <3>3. Len(chartEvents') \in DOMAIN Tail(chartEvents)
      BY <1>1, <3>2
    <3>4. QED
      BY <1>1, <1>2, <1>4, <1>5, <2>3, <3>3
  <2>6. QED
    BY <1>1, <2>1, <2>2, <2>4, <2>5 DEF RetryInv, Versions
<1>7. NeverTried' /\ Generations' /\ RetriesLeft'
  BY <1>1 DEF RetryInv, NeverTried, Generations, RetriesLeft, object
<1>8. rel.phase = "live" /\ Expecting => queued' \/ Expecting' \/ cache.gen # rel.gen
  BY EventTells DEF RetryInv, Generations
<1>9. Attentive'
  BY <1>1, <1>8 DEF RetryInv, Attentive, RetryPending, object
<1>10. QED
  BY <1>6, <1>7, <1>9 DEF RetryInv

\* A timer.
LEMMA RetryTimer ==
  ASSUME RetryInv, TimerFire
  PROVE  RetryInv'
<1>1. UNCHANGED <<object, flux, pc, view, viewCurrent>> /\ queued' = TRUE
  BY DEF TimerFire, worker
<1>2. Versions' /\ NeverTried' /\ Generations' /\ RetriesLeft'
  BY <1>1 DEF RetryInv, Versions, NeverTried, Generations, RetriesLeft, object, flux
<1>3. Attentive'
  BY <1>1 DEF Attentive
<1>4. QED
  BY <1>2, <1>3 DEF RetryInv

\* Users: a Release that goes on has a generation no copy shows.
LEMMA RetryUser ==
  ASSUME TypeOK, RetryInv, User
  PROVE  RetryInv'
<1>1. rel.gen \in Nat /\ rel.gen + 1 \in Nat /\ cache.gen \in Nat
  BY DEF TypeOK, Release
<1>2. Written /\ cacheCurrent' = FALSE /\ viewCurrent' = FALSE
      /\ UNCHANGED <<cache, flux, queue, pc, view>>
  BY DEF User, EditValues, EditTargetNamespace, ToggleSuspend, DeleteRelease, CreateRelease,
         Written
<1>3. /\ rel'.gen = rel.gen + 1 \/ (rel'.gen = rel.gen /\ rel'.phase = "none")
      /\ rel'.st.attempted \in {rel.st.attempted, None}
      /\ rel.phase = "deleting" => rel'.phase = "deleting"
  <2>1. CASE EditValues \/ EditTargetNamespace \/ ToggleSuspend
    BY <1>1, <2>1 DEF EditValues, EditTargetNamespace, ToggleSuspend, TypeOK, Release
  <2>2. CASE DeleteRelease
    <3>1. Gone(rel.gen).gen = rel.gen /\ Gone(rel.gen).phase = "none"
          /\ Gone(rel.gen).st.attempted = None
      BY DEF Gone, EmptyStatus
    <3>2. rel.phase = "live"
      BY <2>2 DEF DeleteRelease
    <3>3. CASE rel.fin
      BY <2>2, <3>2, <3>3 DEF DeleteRelease, TypeOK, Release
    <3>4. CASE ~rel.fin
      BY <2>2, <3>1, <3>2, <3>4 DEF DeleteRelease
    <3>5. QED
      BY <3>3, <3>4
  <2>3. CASE CreateRelease
    <3>1. PICK w \in Wants, n \in Namespaces : rel' = Fresh(rel.gen + 1, w, n)
      BY <2>3 DEF CreateRelease
    <3>2. rel'.gen = rel.gen + 1 /\ rel'.st.attempted = None /\ rel.phase = "none"
      BY <2>3, <3>1 DEF CreateRelease, Fresh, Gone, EmptyStatus
    <3>3. QED
      BY <3>2
  <2>4. QED
    BY <2>1, <2>2, <2>3 DEF User
<1>4. Versions' /\ NeverTried' /\ RetriesLeft'
  BY <1>2, <1>3 DEF RetryInv, Versions, NeverTried, RetriesLeft, flux
<1>5. cache.gen <= rel'.gen /\ (rel'.phase # "none" => cache.gen # rel'.gen)
  BY <1>1, <1>3 DEF RetryInv, Generations
<1>6. Generations'
  BY <1>2, <1>3, <1>5 DEF RetryInv, Generations
<1>7. Attentive'
  BY <1>2, <1>5 DEF Attentive, RetryPending
<1>8. QED
  BY <1>4, <1>6, <1>7 DEF RetryInv

\* A new version of the source.
LEMMA RetrySource ==
  ASSUME TypeOK, RetryInv, NEW c \in Chart, ChartBecomes(c), c.ready => c.art # None,
         SourceKind = "HelmChart" => c.ready
  PROVE  RetryInv'
<1>1. /\ chart' = c /\ chartEvents' = Append(chartEvents, c)
      /\ UNCHANGED <<object, chartSeen, queue, pc, view, viewCurrent>>
  BY DEF ChartBecomes, worker
<1>2. chartEvents \in Seq(Chart) /\ Len(chartEvents) \in Nat
  BY DEF TypeOK
<1>3. /\ DOMAIN Append(chartEvents, c) = 1 .. Len(chartEvents) + 1
      /\ Len(Append(chartEvents, c)) = Len(chartEvents) + 1
      /\ Append(chartEvents, c)[Len(chartEvents) + 1] = c
      /\ DOMAIN chartEvents = 1 .. Len(chartEvents)
      /\ \A i \in 1 .. Len(chartEvents) : Append(chartEvents, c)[i] = chartEvents[i]
  BY <1>2
<1>4. \A i \in 1 .. Len(chartEvents) + 1 : i \in 1 .. Len(chartEvents) \/ i = Len(chartEvents) + 1
  BY <1>2
<1>5. Versions'
  <2>1. \A i \in DOMAIN chartEvents' : chartEvents'[i].ready => chartEvents'[i].art # None
    BY <1>1, <1>3, <1>4 DEF RetryInv, Versions
  <2>2. chartEvents' # << >> /\ chartEvents'[Len(chartEvents')] = chart'
    BY <1>1, <1>2, <1>3
  <2>3. QED
    BY <1>1, <2>1, <2>2 DEF RetryInv, Versions
<1>6. NeverTried'
  BY <1>1 DEF RetryInv, NeverTried, object
<1>7. Generations' /\ RetriesLeft'
  BY <1>1 DEF RetryInv, Generations, RetriesLeft, object
<1>8. Unready => Unready'
  <2>1. ASSUME NEW i \in DOMAIN chartEvents, ~chartEvents[i].ready PROVE Unready'
    BY <1>1, <1>2, <1>3, <2>1 DEF Unready
  <2>2. QED
    BY <1>1, <2>1 DEF Unready
<1>9. Expecting => Expecting'
  BY <1>1, <1>8 DEF Expecting, object
<1>10. Attentive'
  BY <1>1, <1>9 DEF RetryInv, Attentive, RetryPending, object, queue
<1>11. QED
  BY <1>5, <1>6, <1>7, <1>10 DEF RetryInv

\* Other clients do not touch what the invariant speaks of; Flux may.
LEMMA RetryCluster ==
  ASSUME TypeOK, RetryInv, RetryAssumptions, Cluster
  PROVE  RetryInv'
<1>1. CASE ForeignDeploy \/ ForeignUninstall \/ Drift
  BY <1>1, RetryFrame DEF ForeignDeploy, ForeignUninstall, Drift, worker
<1>2. CASE Publish
  <2>1. PICK a \in Artifacts \ {chart.art} : ChartBecomes([ready |-> TRUE, art |-> a])
    BY <1>2 DEF Publish
  <2> DEFINE c == [ready |-> TRUE, art |-> a]
  <2>2. c \in Chart /\ c.ready /\ c.art # None
    BY NoneAssumption DEF Chart
  <2> HIDE DEF c
  <2>3. ChartBecomes(c)
    BY <2>1 DEF c
  <2>4. QED
    BY <2>2, <2>3, RetrySource
<1>3. CASE SourceFails
  <2> DEFINE c == [chart EXCEPT !.ready = FALSE]
  <2>1. c \in Chart /\ ~c.ready
    BY DEF TypeOK, Chart
  <2>2. ChartBecomes(c) /\ SourceKind # "HelmChart"
    BY <1>3 DEF SourceFails, Spend, RetryAssumptions
  <2> HIDE DEF c
  <2>3. QED
    BY <2>1, <2>2, RetrySource
<1>4. CASE SourceRecovers
  <2> DEFINE c == [chart EXCEPT !.ready = TRUE]
  <2>1. c \in Chart /\ c.ready /\ c.art = chart.art
    BY DEF TypeOK, Chart
  <2>2. ChartBecomes(c) /\ chart.art # None
    BY <1>4 DEF SourceRecovers
  <2> HIDE DEF c
  <2>3. QED
    BY <2>1, <2>2, RetrySource
<1>5. QED
  BY <1>1, <1>2, <1>3, <1>4 DEF Cluster

\* A restart lists every Release and enqueues it.
LEMMA RetryCrash ==
  ASSUME TypeOK, RetryInv, Crash
  PROVE  RetryInv'
<1>1. /\ cache' = rel /\ rel' = rel /\ chart' = chart /\ chartSeen' = chart
      /\ chartEvents' = << >> /\ pc' = "idle" /\ view' = Gone(0) /\ viewCurrent' = FALSE
      /\ queued' = (rel.phase # "none")
  BY DEF Crash
<1>2. view'.st.attempted = None
  BY <1>1 DEF Gone, EmptyStatus
<1>3. rel.gen \in Nat
  BY DEF TypeOK, Release
<1>4. Versions' /\ NeverTried'
  BY <1>1, <1>2 DEF RetryInv, Versions, NeverTried
<1>5. Generations' /\ RetriesLeft'
  BY <1>1, <1>3 DEF Generations, RetriesLeft, DeletePcs, Leaving
<1>6. Attentive'
  BY <1>1 DEF Attentive, RetryPending
<1>7. QED
  BY <1>4, <1>5, <1>6 DEF RetryInv

LEMMA RetryStep ==
  ASSUME TypeOK, RetryInv, RetryAssumptions, [Next]_vars
  PROVE  RetryInv'
<1>1. CASE UNCHANGED vars
  BY <1>1, RetryFrame DEF vars, worker
<1>2. CASE Reconcile
  BY <1>2, RetrySkip, RetryBegin DEF Reconcile
<1>3. QED
  BY <1>1, <1>2, RetryWorker, RetrySync, RetryEvent, RetryTimer, RetryUser, RetryCluster,
     RetryCrash DEF Next

\* The invariant holds the property: a source that is ready has been shown,
\* or will be.
LEMMA RetryInvImplies == TypeOK /\ RetryInv => RetryScheduled
<1> SUFFICES ASSUME TypeOK, RetryInv, RetryPending, ~rel.suspend, chart.ready,
                    pc = "idle", chartEvents = << >>
             PROVE  timer \/ queued \/ cache.gen # rel.gen
  BY DEF RetryScheduled
<1>1. ~Unready
  BY DEF RetryInv, Versions, Unready
<1>2. QED
  BY <1>1 DEF RetryInv, Attentive, Expecting

(***************************************************************************)
(* A Release that reports RetryPending has a retry coming, for any number  *)
(* of values, artifacts, namespaces and disturbances: the backoff of       *)
(* handleFailure while 1 << failures does not overflow, and otherwise a    *)
(* queued key, a stale cache or a watch event that the predicate and the   *)
(* map function let through (handleFailure, writeNotReady's empty Result,  *)
(* SourceRevisionChangePredicate, requestsFor...Change).                   *)
(***************************************************************************)
THEOREM RetriesComing == ASSUME RetryAssumptions PROVE Spec => []RetryScheduled
<1>1. Init => RetryInv
  BY RetryInit
<1>2. TypeOK /\ RetryInv /\ [Next]_vars => RetryInv'
  BY RetryStep
<1>3. TypeOK /\ RetryInv => RetryScheduled
  BY RetryInvImplies
<1>4. QED
  BY <1>1, <1>2, <1>3, TypeCorrect, PTL DEF Spec
=============================================================================
