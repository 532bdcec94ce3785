------------------------ MODULE ReleaseReconcilerProofs ------------------------
(***************************************************************************)
(* Machine-checked proofs about ReleaseReconciler: its type invariant, that*)
(* a Release never goes and leaves an owned Helm release behind (NoOrphan),*)
(* that it keeps the life cycle of ReleaseLifecycle, that a current Ready  *)
(* condition tells the truth (ReadyTruthful), and that only a Release that *)
(* is being deleted is uninstalled (UninstallOnlyDeleted).                 *)
(***************************************************************************)
EXTENDS ReleaseReconciler, TLAPS

(***************************************************************************)
(* Ownership.  NoOrphan is not inductive: whether the last finalizer goes  *)
(* while something is deployed depends on what a stale cache may still make*)
(* the worker do.  The invariant says which stale copies can exist: one    *)
(* that shows a live Release with the finalizer is of a Release that still *)
(* has it, and once the worker deletes, no such copy is left.              *)
(***************************************************************************)
Deploying == InstallPcs \cup AfterPcs

Leaving == {"uninstall", "writeUninstalled", "unfinalize"}

Held(r) == rel.phase # "none" /\ rel.fin /\ rel.ns = r.ns

SameSpec(r) ==
  /\ r.phase = rel.phase /\ r.fin = rel.fin /\ r.gen = rel.gen
  /\ r.want = rel.want /\ r.ns = rel.ns

Copies ==
  /\ cacheCurrent => cache = rel
  /\ viewCurrent => SameSpec(view) /\ SameSpec(cache)
  /\ cache.phase = "live" /\ cache.fin => Held(cache)
  /\ cache.phase = "deleting" => ~(rel.phase = "live" /\ rel.fin)

WorkerCopies ==
  /\ pc \in Deploying => Held(view)
  /\ pc = "finalizer" => cache.phase # "deleting" \/ rel.phase = "deleting"
  /\ pc \in DeletePcs => /\ view.phase = "deleting" /\ view.fin
                         /\ ~(cache.phase = "live" /\ cache.fin)
                         /\ ~(rel.phase = "live" /\ rel.fin)
  /\ pc \in Leaving => rel.phase = "deleting" /\ rel.fin /\ rel.ns = view.ns

Marks ==
  /\ \A n \in Namespaces : storage[n].marked => rel.phase # "none" /\ rel.fin /\ rel.ns = n
  /\ pc \in {"writeUninstalled", "unfinalize"} => ~storage[view.ns].marked

OwnershipInv == Copies /\ WorkerCopies /\ Marks

(***************************************************************************)
(* Readiness.  A current Ready condition also means that no copy of an     *)
(* older spec is left for the worker to deploy from.                       *)
(***************************************************************************)
CurrentReady == rel.phase = "live" /\ rel.st.ready /\ rel.st.obs = rel.gen

SameWant(r) == r.want = rel.want /\ r.ns = rel.ns

Observed ==
  /\ rel.st.obs <= rel.gen /\ cache.st.obs <= cache.gen /\ view.st.obs <= view.gen
  /\ viewCurrent => SameSpec(view) /\ SameSpec(cache)
  /\ cacheCurrent => cache = rel

ReadyCopies ==
  CurrentReady => /\ verified = <<rel.want, rel.ns>>
                  /\ SameWant(cache)
                  /\ pc # "idle" => SameWant(view)

PendingStatus ==
  /\ pc \in {"stamp", "projectSuccess", "writeSuccess"} => verified = <<view.want, view.ns>>
  /\ pc \in {"writeFailure", "rollback", "projectRollback"} => ~view.st.ready
  /\ pc \in DeletePcs => view.phase = "deleting"
  /\ viewCurrent /\ pc \in InstallPcs \cup {"writeNotReady"}
       => view.st.ready = rel.st.ready /\ view.st.obs = rel.st.obs

ReadyInv == Observed /\ ReadyCopies /\ PendingStatus

-----------------------------------------------------------------------------
(***************************************************************************)
(* The operators on releases and revisions: their types, and what they     *)
(* leave alone.                                                            *)
(***************************************************************************)
Keeps(new, old) ==
  /\ new.phase = old.phase /\ new.fin = old.fin /\ new.gen = old.gen
  /\ new.want = old.want /\ new.ns = old.ns

\* A recorded revision is the only thing projectStatusFromStorage changes.
LEMMA ProjectLemma ==
  ASSUME NEW r \in Release, NEW c \in Stored
  PROVE  /\ Project(r, c) \in Release /\ Keeps(Project(r, c), r)
         /\ Project(r, c).st.ready = r.st.ready /\ Project(r, c).st.obs = r.st.obs
  BY DEF Project, Release, Status, Stored, Keeps

\* handleFailure never leaves Ready, and observes the generation it saw.
LEMMA HandleFailureLemma ==
  ASSUME NEW r \in Release
  PROVE  /\ HandleFailure(r) \in Release /\ Keeps(HandleFailure(r), r)
         /\ HandleFailure(r).st.ready = FALSE /\ HandleFailure(r).st.obs = r.gen
<1> DEFINE st == [r.st EXCEPT !.failures = r.st.failures + 1, !.obs = r.gen]
           failed == Counted(r).st.failures > MaxRetries
<1>1. r.st \in Status /\ r.st.failures \in Nat /\ r.gen \in Nat
  BY DEF Release, Status
<1>2. r.st.failures + 1 \in Nat
  BY <1>1
<1>3. st \in Status /\ st.obs = r.gen /\ st.failures \in Nat
  BY <1>1, <1>2 DEF Status
<1>4. Counted(r) = [r EXCEPT !.st = st]
  BY DEF Counted
<1>5. Counted(r) \in Release /\ Keeps(Counted(r), r) /\ Counted(r).st = st
  BY <1>3, <1>4 DEF Release, Keeps
<1>6. failed \in BOOLEAN
  BY <1>3, <1>5, RetriesAssumption
<1> HIDE DEF st, failed
<1> DEFINE fin == [st EXCEPT !.ready = FALSE, !.stalled = failed, !.reconciling = ~failed]
<1>7. fin \in Status /\ fin.ready = FALSE /\ fin.obs = r.gen
  BY <1>3, <1>6 DEF Status
<1>8. HandleFailure(r) = [Counted(r) EXCEPT !.st = fin]
  BY <1>5 DEF HandleFailure, FailureConditions, Exhausted, failed
<1> HIDE DEF fin
<1>9. QED
  BY <1>5, <1>7, <1>8 DEF Release, Keeps

\* handleSuccess observes the generation it saw.
LEMMA HandleSuccessLemma ==
  ASSUME NEW r \in Release
  PROVE  /\ HandleSuccess(r) \in Release /\ Keeps(HandleSuccess(r), r)
         /\ HandleSuccess(r).st.ready = TRUE /\ HandleSuccess(r).st.obs = r.gen
  BY DEF HandleSuccess, Release, Status, Keeps

\* Either of them after a projection, as the code always calls them.
LEMMA ProjectedFailure ==
  ASSUME NEW r \in Release, NEW c \in Stored
  PROVE  /\ HandleFailure(Project(r, c)) \in Release /\ Keeps(HandleFailure(Project(r, c)), r)
         /\ HandleFailure(Project(r, c)).st.ready = FALSE
         /\ HandleFailure(Project(r, c)).st.obs = r.gen
<1> DEFINE p == Project(r, c)
<1>1. p \in Release /\ Keeps(p, r)
  BY ProjectLemma
<1> HIDE DEF p
<1>2. /\ HandleFailure(p) \in Release /\ Keeps(HandleFailure(p), p)
      /\ HandleFailure(p).st.ready = FALSE /\ HandleFailure(p).st.obs = p.gen
  BY <1>1, HandleFailureLemma
<1>3. Keeps(HandleFailure(p), r) /\ p.gen = r.gen
  BY <1>1, <1>2 DEF Keeps
<1>4. QED
  BY <1>2, <1>3 DEF p

\* The same for a success.
LEMMA ProjectedSuccess ==
  ASSUME NEW r \in Release, NEW c \in Stored
  PROVE  /\ HandleSuccess(Project(r, c)) \in Release /\ Keeps(HandleSuccess(Project(r, c)), r)
         /\ HandleSuccess(Project(r, c)).st.ready = TRUE
         /\ HandleSuccess(Project(r, c)).st.obs = r.gen
<1> DEFINE p == Project(r, c)
<1>1. p \in Release /\ Keeps(p, r)
  BY ProjectLemma
<1> HIDE DEF p
<1>2. /\ HandleSuccess(p) \in Release /\ Keeps(HandleSuccess(p), p)
      /\ HandleSuccess(p).st.ready = TRUE /\ HandleSuccess(p).st.obs = p.gen
  BY <1>1, HandleSuccessLemma
<1>3. Keeps(HandleSuccess(p), r) /\ p.gen = r.gen
  BY <1>1, <1>2 DEF Keeps
<1>4. QED
  BY <1>2, <1>3 DEF p

\* Keeping the spec composes.
LEMMA KeepsTransitive ==
  ASSUME NEW r, NEW s, NEW t, Keeps(r, s), Keeps(s, t)
  PROVE  Keeps(r, t)
  BY DEF Keeps

\* Starting an attempt touches the failure counter only.
LEMMA NewAttemptLemma ==
  ASSUME NEW r \in Release
  PROVE  /\ NewAttempt(r) \in Release /\ Keeps(NewAttempt(r), r)
         /\ NewAttempt(r).st.ready = r.st.ready /\ NewAttempt(r).st.obs = r.st.obs
  BY DEF NewAttempt, Release, Status, Keeps

\* The placeholders for a Release that is gone or new are releases.
LEMMA GoneLemma ==
  ASSUME NEW g \in Nat
  PROVE  /\ Gone(g) \in Release /\ Gone(g).phase = "none" /\ Gone(g).fin = FALSE
         /\ Gone(g).gen = g /\ Gone(g).st = EmptyStatus
<1>1. AnyWant \in Wants /\ AnyNs \in Namespaces
  BY NonEmptyAssumption DEF AnyWant, AnyNs
<1>2. EmptyStatus \in Status
  BY DEF EmptyStatus, Status
<1>3. QED
  BY <1>1, <1>2 DEF Gone, Release

\* A new Release has its spec and an empty status.
LEMMA FreshLemma ==
  ASSUME NEW g \in Nat, NEW w \in Wants, NEW n \in Namespaces
  PROVE  /\ Fresh(g, w, n) \in Release /\ Fresh(g, w, n).phase = "live"
         /\ Fresh(g, w, n).fin = FALSE /\ Fresh(g, w, n).gen = g
         /\ Fresh(g, w, n).want = w /\ Fresh(g, w, n).ns = n
         /\ Fresh(g, w, n).st = EmptyStatus
<1>1. Gone(g) \in Release /\ Gone(g).fin = FALSE /\ Gone(g).gen = g /\ Gone(g).st = EmptyStatus
  BY GoneLemma
<1>2. QED
  BY <1>1 DEF Fresh, Release

\* What nelm stores.
LEMMA StoredLemma ==
  ASSUME NEW s \in Stored, NEW c \in Contents
  PROVE  /\ \A v \in Nat : Stamped(s, v) \in Stored
         /\ Deployed(s, c) \in Stored /\ FailedRevision(s, c) \in Stored
         /\ Deployed(s, c).marked = TRUE /\ FailedRevision(s, c).marked = TRUE
         /\ Absent \in Stored /\ Absent.marked = FALSE
<1>1. s.rev \in Nat /\ s.rev + 1 \in Nat
  BY DEF Stored
<1>2. Deployed(s, c) \in Stored /\ Deployed(s, c).marked = TRUE
  BY <1>1 DEF Deployed, Stored
<1>3. FailedRevision(s, c) \in Stored /\ FailedRevision(s, c).marked = TRUE
  BY <1>1 DEF FailedRevision, Stored
<1>4. ASSUME NEW v \in Nat PROVE Stamped(s, v) \in Stored
  BY <1>1 DEF Stamped, Stored
<1>5. Absent \in Stored /\ Absent.marked = FALSE
  BY DEF Absent, Stored, Contents
<1>6. QED
  BY <1>2, <1>3, <1>4, <1>5

\* The two remaining local updates of status.
LEMMA ActedLemma ==
  ASSUME NEW r \in Release, NEW a \in {"install", "rollback", "uninstall"}
  PROVE  /\ Acted(r, a) \in Release /\ Keeps(Acted(r, a), r)
         /\ Acted(r, a).st.ready = r.st.ready /\ Acted(r, a).st.obs = r.st.obs
  BY DEF Acted, Release, Status, Keeps

-----------------------------------------------------------------------------
(***************************************************************************)
(* Types.                                                                  *)
(***************************************************************************)
\* Where it starts.
LEMMA TypeInit == Init => TypeOK
<1> SUFFICES ASSUME Init PROVE TypeOK
  OBVIOUS
<1>1. rel \in Release
  <2>1. PICK w \in Wants, n \in Namespaces : rel = Fresh(1, w, n)
    BY DEF Init
  <2>2. QED
    BY <2>1, FreshLemma
<1>2. Gone(0) \in Release
  BY GoneLemma
<1>3. Absent \in Stored
  BY DEF Absent, Stored, Contents
<1>4. chart \in Chart /\ chartSeen \in Chart /\ chartEvents \in Seq(Chart)
  BY DEF Init, Chart
<1>5. storage \in [Namespaces -> Stored]
  BY <1>3 DEF Init
<1>6. cache \in Release /\ view \in Release /\ preRel \in Stored /\ budget \in Nat
  BY <1>2, <1>3, DisturbanceAssumption DEF Init
<1>7. QED
  BY <1>1, <1>4, <1>5, <1>6 DEF Init, TypeOK, Pcs

\* The budget of disturbances stays a number.
LEMMA SpendLemma ==
  ASSUME budget \in Nat, NEW k, Spend(k)
  PROVE  budget' \in Nat
  BY DEF Spend

\* The steps that end a reconcile, and the failures before an install.
LEMMA TypeReturn ==
  ASSUME TypeOK, NEW b \in BOOLEAN, Return(b)
  PROVE  /\ pc' \in Pcs /\ view' \in Release /\ viewCurrent' \in BOOLEAN
         /\ preRel' \in Stored /\ foreignChange' \in BOOLEAN /\ queued' \in BOOLEAN
<1>1. Gone(0) \in Release
  BY GoneLemma
<1>2. Absent \in Stored
  BY DEF Absent, Stored, Contents
<1>3. QED
  BY <1>1, <1>2 DEF TypeOK, Return, Pcs

\* A status write, accepted or not.
LEMMA TypeStatus ==
  ASSUME TypeOK, StatusUpdated \/ StatusRejected
  PROVE  /\ rel' \in Release /\ cache' \in Release /\ cacheCurrent' \in BOOLEAN
         /\ budget' \in Nat
<1>1. CASE StatusUpdated
  BY <1>1 DEF TypeOK, StatusUpdated, Release
<1>2. CASE StatusRejected
  BY <1>2, SpendLemma DEF TypeOK, StatusRejected, FailsBecause, object
<1>3. QED
  BY <1>1, <1>2

\* A failure before the install.
LEMMA TypeFailBefore ==
  ASSUME TypeOK, NEW c, NEW r \in Release, NEW s \in Stored, FailBefore(c, r, s)
  PROVE  TypeOK'
<1>1. view' \in Release
  BY ProjectLemma, HandleFailureLemma DEF FailBefore
<1>2. budget' \in Nat
  BY SpendLemma DEF FailBefore, FailsBecause, TypeOK
<1>3. QED
  BY <1>1, <1>2 DEF FailBefore, TypeOK, Goto, Pcs, WritePcs, object, flux, queue

\* Every external call of the worker.
LEMMA TypeWorker == TypeOK /\ WorkerStep => TypeOK'
<1> SUFFICES ASSUME TypeOK, WorkerStep PROVE TypeOK'
  OBVIOUS
<1> USE DEF Pcs, InstallPcs, WritePcs, AfterPcs, DeletePcs
<1>0. storage[view.ns] \in Stored /\ Absent \in Stored
  BY DEF TypeOK, Release, Absent, Stored, Contents
<1>1. CASE AddFinalizer
  <2>1. rel' \in Release /\ cacheCurrent' \in BOOLEAN /\ cache' \in Release
    BY <1>1 DEF AddFinalizer, TypeOK, Release, object
  <2>2. budget' \in Nat
    BY <1>1, SpendLemma DEF AddFinalizer, TypeOK, FailsBecause
  <2>3. QED
    BY <1>1, <2>1, <2>2, TypeReturn DEF AddFinalizer, TypeOK, flux
<1>2. CASE GetRelease
  BY <1>2, <1>0 DEF GetRelease, TypeOK, Goto, object, flux, queue, detectForeignChange
<1>3. CASE GetReleaseFails
  BY <1>3, <1>0, TypeFailBefore DEF GetReleaseFails, TypeOK
<1>4. CASE ResolveChartRef
  <2>1. view' \in Release
    BY <1>4 DEF ResolveChartRef, Attempted, TypeOK, Release, Status, Chart
  <2>2. QED
    BY <1>4, <2>1 DEF ResolveChartRef, TypeOK, Goto, object, flux, queue
<1>5. CASE SourceNotReady
  <2>1. view' \in Release
    BY <1>5, ProjectLemma DEF SourceNotReady, TypeOK
  <2>2. QED
    BY <1>5, <2>1 DEF SourceNotReady, TypeOK, Goto, object, flux, queue
<1>6. CASE ResolveChartRefFails
  BY <1>6, TypeFailBefore DEF ResolveChartRefFails, TypeOK
<1>7. CASE PlanUpToDate
  <2>1. view' \in Release
    BY <1>7, ProjectLemma, NewAttemptLemma, HandleSuccessLemma DEF PlanUpToDate, TypeOK
  <2>2. verified' \in Wants \X Namespaces
    BY <1>7 DEF PlanUpToDate, TypeOK, Release
  <2>3. QED
    BY <1>7, <2>1, <2>2 DEF PlanUpToDate, TypeOK, Goto, object, flux, queue
<1>8. CASE PlanChanges
  <2>1. view' \in Release
    BY <1>8, NewAttemptLemma DEF PlanChanges, TypeOK
  <2>2. QED
    BY <1>8, <2>1 DEF PlanChanges, TypeOK, Goto, object, flux, queue
<1>9. CASE PlanFails
  <2>1. NewAttempt(view) \in Release
    BY NewAttemptLemma DEF TypeOK
  <2>2. QED
    BY <1>9, <2>1, TypeFailBefore DEF PlanFails, TypeOK
<1>10. CASE StampOwnershipMarker
  <2>1. view' \in Release
    BY <1>10, ProjectLemma, HandleSuccessLemma DEF StampOwnershipMarker, TypeOK
  <2>2. Stamped(storage[view.ns], preRel.rev) \in Stored
    BY <1>0, StoredLemma DEF TypeOK, Stored
  <2>3. storage' \in [Namespaces -> Stored]
    BY <1>10, <2>2 DEF StampOwnershipMarker, TypeOK
  <2>4. QED
    BY <1>10, <2>1, <2>3 DEF StampOwnershipMarker, TypeOK, Goto, object, flux, queue
<1>11. CASE StampFails
  BY <1>11, TypeFailBefore DEF StampFails, TypeOK
<1>12. CASE Install \/ InstallFails
  <2>1. Desired(view) \in Contents /\ <<view.want, view.ns>> \in Wants \X Namespaces
    BY DEF TypeOK, Release, Status, Desired, Contents
  <2>2. storage' \in [Namespaces -> Stored]
    BY <1>12, <1>0, <2>1, StoredLemma DEF Install, InstallFails, TypeOK
  <2>3. view' \in Release /\ verified' \in (Wants \X Namespaces) \cup {None} /\ budget' \in Nat
    BY <1>12, <2>1, ActedLemma, SpendLemma DEF Install, InstallFails, TypeOK
  <2>4. QED
    BY <1>12, <2>2, <2>3 DEF Install, InstallFails, TypeOK, Goto, object, flux, queue
<1>13. CASE ProjectSuccess \/ ProjectFailure
  <2>1. view' \in Release
    BY <1>13, <1>0, ProjectLemma, HandleSuccessLemma, HandleFailureLemma
    DEF ProjectSuccess, ProjectFailure, TypeOK
  <2>2. budget' \in Nat
    BY <1>13, SpendLemma DEF ProjectSuccess, ProjectFailure, TypeOK
  <2>3. QED
    BY <1>13, <2>1, <2>2 DEF ProjectSuccess, ProjectFailure, TypeOK, Goto, object, flux, queue
<1>14. CASE Rollback
  <2>0. storage[view.ns].good \in Contents
    BY <1>0 DEF Stored
  <2>1. storage' \in [Namespaces -> Stored]
    BY <1>14, <1>0, <2>0, StoredLemma DEF Rollback, TypeOK
  <2>2. view' \in Release /\ budget' \in Nat
    BY <1>14, ActedLemma, SpendLemma DEF Rollback, FailsBecause, TypeOK
  <2>3. QED
    BY <1>14, <2>1, <2>2 DEF Rollback, TypeOK, Goto, object, flux, queue
<1>15. CASE ProjectRollback
  <2>1. view' \in Release /\ budget' \in Nat
    BY <1>15, <1>0, ProjectLemma, SpendLemma DEF ProjectRollback, Refetched, TypeOK
  <2>2. QED
    BY <1>15, <2>1 DEF ProjectRollback, TypeOK, Goto, object, flux, queue
<1>16. CASE WriteNotReady \/ WriteSuccess \/ WriteFailure
  <2>1. timer' \in BOOLEAN
    BY <1>16 DEF WriteNotReady, WriteSuccess, WriteFailure, TypeOK
  <2>2. QED
    BY <1>16, <2>1, TypeReturn, TypeStatus DEF WriteNotReady, WriteSuccess, WriteFailure, TypeOK, flux
<1>17. CASE WriteUninstalling \/ WriteUninstalled
  BY <1>17, TypeReturn, TypeStatus
  DEF WriteUninstalling, WriteUninstalled, ReturnError, TypeOK, Goto, flux, queue
<1>18. CASE Uninstall
  <2>1. storage' \in [Namespaces -> Stored]
    BY <1>18, <1>0 DEF Uninstall, TypeOK
  <2>2. view' \in Release /\ budget' \in Nat
    BY <1>18, ActedLemma, SpendLemma, TypeReturn DEF Uninstall, ReturnError, TypeOK
  <2>3. QED
    BY <1>18, <2>1, <2>2, TypeReturn DEF Uninstall, ReturnError, TypeOK, Goto, object, flux, queue
<1>19. CASE RemoveFinalizer
  <2>0. Gone(rel.gen) \in Release /\ [rel EXCEPT !.fin = FALSE] \in Release
    <3>1. rel.gen \in Nat
      BY DEF TypeOK, Release
    <3>2. QED
      BY <3>1, GoneLemma DEF TypeOK, Release
  <2>1. rel' \in Release
    BY <1>19, <2>0 DEF RemoveFinalizer, TypeOK, object
  <2>2. budget' \in Nat
    BY <1>19, SpendLemma DEF RemoveFinalizer, FailsBecause, TypeOK
  <2>3. QED
    BY <1>19, <2>1, <2>2, TypeReturn DEF RemoveFinalizer, ReturnError, TypeOK, object, flux
<1>20. QED
  BY <1>1, <1>2, <1>3, <1>4, <1>5, <1>6, <1>7, <1>8, <1>9, <1>10, <1>11, <1>12, <1>13,
     <1>14, <1>15, <1>16, <1>17, <1>18, <1>19 DEF WorkerStep

\* The watches, the timers and the disturbances.
LEMMA TypeOthers ==
  TypeOK /\ (Reconcile \/ CacheSync \/ ChartEvent \/ TimerFire \/ User \/ Cluster \/ Crash) => TypeOK'
<1> SUFFICES ASSUME TypeOK, Reconcile \/ CacheSync \/ ChartEvent \/ TimerFire \/ User \/ Cluster \/ Crash
             PROVE  TypeOK'
  OBVIOUS
<1> USE DEF Pcs, InstallPcs, WritePcs, AfterPcs, DeletePcs
<1>1. CASE ReconcileSkip
  BY <1>1 DEF ReconcileSkip, Dequeue, TypeOK, object, flux, worker
<1>2. CASE ReconcileNew \/ ReconcileLive
  BY <1>2 DEF ReconcileNew, ReconcileLive, Begin, Dequeue, TypeOK, object, flux
<1>3. CASE ReconcileDeleted
  <2>1. view' \in Release
    BY <1>3 DEF ReconcileDeleted, Begin, TypeOK, Release, Status
  <2>2. QED
    BY <1>3, <2>1 DEF ReconcileDeleted, Begin, Dequeue, TypeOK, object, flux
<1>4. CASE CacheSync \/ TimerFire
  BY <1>4 DEF CacheSync, TimerFire, TypeOK, object, flux, worker
<1>5. CASE ChartEvent
  <2>1. chartSeen' \in Chart /\ chartEvents' \in Seq(Chart)
    BY <1>5 DEF ChartEvent, TypeOK
  <2>2. queued' \in BOOLEAN
    BY <1>5 DEF ChartEvent, TypeOK
  <2>3. QED
    BY <1>5, <2>1, <2>2 DEF ChartEvent, TypeOK, object, worker
<1>6. CASE User
  <2>1. rel.gen \in Nat /\ rel.gen + 1 \in Nat
    BY DEF TypeOK, Release
  <2>2. budget' \in Nat /\ Written
    BY <1>6, SpendLemma DEF User, EditValues, EditTargetNamespace, ToggleSuspend, DeleteRelease, CreateRelease, TypeOK
  <2>3. rel' \in Release
    <3>1. CASE EditValues \/ EditTargetNamespace \/ ToggleSuspend
      BY <3>1, <2>1 DEF EditValues, EditTargetNamespace, ToggleSuspend, TypeOK, Release
    <3>2. CASE DeleteRelease
      <4>1. Gone(rel.gen) \in Release
        BY <2>1, GoneLemma
      <4>2. [rel EXCEPT !.phase = "deleting", !.gen = rel.gen + 1] \in Release
        BY <2>1 DEF TypeOK, Release
      <4>3. QED
        BY <3>2, <4>1, <4>2 DEF DeleteRelease
    <3>3. CASE CreateRelease
      <4>1. PICK w \in Wants, n \in Namespaces : rel' = Fresh(rel.gen + 1, w, n)
        BY <3>3 DEF CreateRelease
      <4>2. QED
        BY <4>1, <2>1, FreshLemma
    <3>4. QED
      BY <1>6, <3>1, <3>2, <3>3 DEF User
  <2>4. QED
    BY <2>2, <2>3 DEF Written, TypeOK, flux, queue
<1>7. CASE ForeignDeploy \/ ForeignUninstall \/ Drift
  <2>1. Absent \in Stored
    BY DEF Absent, Stored, Contents
  <2>2. ASSUME NEW n \in Namespaces, NEW c \in Content
        PROVE  [Deployed(storage[n], c) EXCEPT !.marked = FALSE] \in Stored
    <3>1. c \in Contents /\ storage[n] \in Stored
      BY DEF Content, Contents, TypeOK
    <3>2. Deployed(storage[n], c) \in Stored
      BY <3>1, StoredLemma
    <3>3. QED
      BY <3>2 DEF Stored
  <2>3. ASSUME NEW n \in Namespaces PROVE [storage[n] EXCEPT !.synced = FALSE] \in Stored
    BY DEF TypeOK, Stored
  <2>4. storage' \in [Namespaces -> Stored]
    BY <1>7, <2>1, <2>2, <2>3 DEF ForeignDeploy, ForeignUninstall, Drift, TypeOK
  <2>5. budget' \in Nat
    BY <1>7, SpendLemma DEF ForeignDeploy, ForeignUninstall, Drift, TypeOK
  <2>6. QED
    BY <1>7, <2>4, <2>5 DEF ForeignDeploy, ForeignUninstall, Drift, TypeOK, object, flux, queue, worker
<1>8. CASE Publish \/ SourceFails \/ SourceRecovers
  <2>1. PICK c \in Chart : ChartBecomes(c)
    BY <1>8 DEF Publish, SourceFails, SourceRecovers, TypeOK, Chart
  <2>2. budget' \in Nat
    BY <1>8, SpendLemma DEF Publish, SourceFails, SourceRecovers, TypeOK
  <2>3. chartEvents' \in Seq(Chart)
    BY <2>1 DEF ChartBecomes, TypeOK
  <2>4. QED
    BY <2>1, <2>2, <2>3 DEF ChartBecomes, TypeOK, object, queue, worker
<1>9. CASE Crash
  <2>1. Gone(0) \in Release /\ Absent \in Stored
    BY GoneLemma DEF Absent, Stored, Contents
  <2>2. Desired(view) \in Contents /\ storage[view.ns] \in Stored
    BY DEF TypeOK, Release, Status, Desired, Contents
  <2>3. storage' \in [Namespaces -> Stored]
    BY <1>9, <2>2, StoredLemma DEF Crash, TypeOK
  <2>4. budget' \in Nat
    BY <1>9, SpendLemma DEF Crash, TypeOK
  <2>5. chartEvents' \in Seq(Chart) /\ queued' \in BOOLEAN
    BY <1>9 DEF Crash
  <2>6. QED
    BY <1>9, <2>1, <2>3, <2>4, <2>5 DEF Crash, TypeOK
<1>10. QED
  BY <1>1, <1>2, <1>3, <1>4, <1>5, <1>6, <1>7, <1>8, <1>9 DEF Reconcile, Cluster

(***************************************************************************)
(* The model is well typed: every step of the worker, the watches and the  *)
(* disturbances keeps each variable in its domain, for any number of       *)
(* values, artifacts, namespaces, retries and disturbances.                *)
(***************************************************************************)
THEOREM TypeCorrect == Spec => []TypeOK
<1>1. TypeOK /\ [Next]_vars => TypeOK'
  <2> SUFFICES ASSUME TypeOK, [Next]_vars PROVE TypeOK'
    OBVIOUS
  <2>1. CASE UNCHANGED vars
    BY <2>1 DEF TypeOK, vars, object, flux, queue, worker
  <2>2. QED
    BY <2>1, TypeWorker, TypeOthers DEF Next
<1>2. QED
  BY <1>1, TypeInit, PTL DEF Spec

-----------------------------------------------------------------------------
(***************************************************************************)
(* Ownership.                                                              *)
(***************************************************************************)
LEMMA OwnershipInit == Init => OwnershipInv
<1> SUFFICES ASSUME Init PROVE OwnershipInv
  OBVIOUS
<1>1. PICK w \in Wants, n \in Namespaces : rel = Fresh(1, w, n)
  BY DEF Init
<1>2. rel.phase = "live" /\ rel.fin = FALSE
  BY <1>1 DEF Fresh, Gone
<1>3. cache.phase = "none"
  BY GoneLemma DEF Init
<1>4. \A m \in Namespaces : storage[m].marked = FALSE
  BY DEF Init, Absent
<1>5. QED
  BY <1>2, <1>3, <1>4
  DEF Init, OwnershipInv, Copies, WorkerCopies, Marks, Deploying, Leaving, InstallPcs, AfterPcs, DeletePcs

(***************************************************************************)
(* A step on the way to or after an install: the worker's copy keeps its   *)
(* spec, and only the namespace it deploys to may gain a mark.             *)
(***************************************************************************)
LEMMA OwnershipDeploy ==
  ASSUME OwnershipInv, UNCHANGED object, UNCHANGED viewCurrent, Keeps(view', view),
         pc \in Deploying, pc' \in Deploying \cup WritePcs,
         \A n \in Namespaces : storage'[n].marked => storage[n].marked \/ n = view.ns
  PROVE  OwnershipInv'
<1>1. Held(view) /\ pc' \notin DeletePcs /\ pc' # "finalizer" /\ pc' \notin Leaving
  BY DEF OwnershipInv, WorkerCopies, Deploying, InstallPcs, AfterPcs, WritePcs, DeletePcs, Leaving
<1>2. Copies'
  BY DEF OwnershipInv, Copies, SameSpec, Held, Keeps, object
<1>3. WorkerCopies'
  BY <1>1 DEF WorkerCopies, Held, Keeps, object
<1>4. Marks'
  BY <1>1 DEF OwnershipInv, Marks, Held, Keeps, object, Leaving
<1>5. QED
  BY <1>2, <1>3, <1>4 DEF OwnershipInv

(***************************************************************************)
(* A status write touches neither the spec nor the finalizer.              *)
(***************************************************************************)
LEMMA StatusKeeps ==
  ASSUME TypeOK, StatusUpdated
  PROVE  Keeps(rel', rel) /\ (cacheCurrent' => cacheCurrent /\ rel' = rel)
  BY DEF TypeOK, StatusUpdated, Release, Keeps

(***************************************************************************)
(* The end of a reconcile, with or without a status write.                 *)
(***************************************************************************)
LEMMA OwnershipReturn ==
  ASSUME TypeOK, OwnershipInv, NEW b, Return(b), UNCHANGED storage,
         StatusUpdated \/ UNCHANGED object
  PROVE  OwnershipInv'
<1>1. Keeps(rel', rel) /\ (cacheCurrent' => cacheCurrent /\ rel' = rel) /\ cache' = cache
  BY StatusKeeps DEF StatusUpdated, object, Keeps
<1>2. pc' = "idle" /\ viewCurrent' = FALSE
  BY DEF Return
<1>3. Copies'
  BY <1>1, <1>2 DEF OwnershipInv, Copies, SameSpec, Held, Keeps
<1>4. WorkerCopies'
  BY <1>2 DEF WorkerCopies, Deploying, InstallPcs, AfterPcs, DeletePcs, Leaving
<1>5. Marks'
  BY <1>1, <1>2 DEF OwnershipInv, Marks, Keeps
<1>6. QED
  BY <1>3, <1>4, <1>5 DEF OwnershipInv

(***************************************************************************)
(* A status write in reconcileDelete: the object is the one in hand, being *)
(* deleted.                                                                *)
(***************************************************************************)
LEMMA OwnershipDeleteWrite ==
  ASSUME TypeOK, OwnershipInv, StatusUpdated, UNCHANGED <<storage, view, viewCurrent>>,
         \/ pc = "writeUninstalling" /\ pc' = "uninstall"
         \/ pc = "writeUninstalled" /\ pc' = "unfinalize"
  PROVE  OwnershipInv'
<1>1. Keeps(rel', rel) /\ (cacheCurrent' => cacheCurrent /\ rel' = rel) /\ cache' = cache
  BY StatusKeeps DEF StatusUpdated
<1>2. pc \in DeletePcs /\ pc' \in DeletePcs /\ pc' \notin Deploying /\ pc' # "finalizer"
  BY DEF DeletePcs, Deploying, InstallPcs, AfterPcs
<1>3. view.phase = "deleting" /\ view.fin /\ SameSpec(view)
  BY <1>2 DEF StatusUpdated, OwnershipInv, WorkerCopies, Copies
<1>4. Copies'
  BY <1>1 DEF OwnershipInv, Copies, SameSpec, Held, Keeps
<1>5. WorkerCopies'
  BY <1>1, <1>2, <1>3 DEF OwnershipInv, WorkerCopies, SameSpec, Keeps
<1>6. Marks'
  BY <1>1, <1>2 DEF OwnershipInv, Marks, Keeps
<1>7. QED
  BY <1>4, <1>5, <1>6 DEF OwnershipInv

\* A failure before the install deploys nothing.
LEMMA OwnershipFail ==
  ASSUME TypeOK, OwnershipInv, pc \in Deploying, NEW c, NEW r \in Release, NEW s \in Stored,
         Keeps(r, view), FailBefore(c, r, s)
  PROVE  OwnershipInv'
<1>1. Keeps(view', view)
  <2>1. Keeps(HandleFailure(Project(r, s)), r)
    BY ProjectedFailure
  <2>2. view' = HandleFailure(Project(r, s))
    BY DEF FailBefore
  <2>3. QED
    BY <2>1, <2>2, KeepsTransitive
<1>2. QED
  BY <1>1, OwnershipDeploy DEF FailBefore, Goto, WritePcs

\* Every external call of the worker.
LEMMA OwnershipWorker == TypeOK /\ OwnershipInv /\ WorkerStep => OwnershipInv'
<1> SUFFICES ASSUME TypeOK, OwnershipInv, WorkerStep PROVE OwnershipInv'
  OBVIOUS
<1>0. /\ storage[view.ns] \in Stored /\ Absent \in Stored /\ view \in Release /\ preRel \in Stored
      /\ Keeps(view, view)
  BY DEF TypeOK, Release, Absent, Stored, Contents, Keeps
<1> DEFINE Far == \A n \in Namespaces : storage'[n].marked => storage[n].marked \/ n = view.ns
<1>1. CASE AddFinalizer
  <2>1. CASE UNCHANGED object
    BY <1>1, <2>1, OwnershipReturn DEF AddFinalizer
  <2>2. CASE ~ UNCHANGED object
    <3>1. rel.phase = "live" /\ rel' = [rel EXCEPT !.fin = TRUE] /\ cache' = cache
      BY <1>1, <2>2 DEF AddFinalizer
    <3>2. cacheCurrent' => cacheCurrent /\ rel' = rel
      BY <1>1, <2>2, <3>1 DEF AddFinalizer, TypeOK, Release
    <3>3. /\ rel'.phase = "live" /\ rel'.fin /\ rel'.ns = rel.ns /\ cache.phase # "deleting"
          /\ pc' = "idle" /\ viewCurrent' = FALSE /\ UNCHANGED storage
      BY <1>1, <3>1 DEF AddFinalizer, Return, TypeOK, Release, OwnershipInv, WorkerCopies
    <3>4. Copies'
      BY <3>1, <3>2, <3>3 DEF OwnershipInv, Copies, Held
    <3>5. WorkerCopies' /\ Marks'
      BY <3>3 DEF OwnershipInv, WorkerCopies, Marks, Deploying, InstallPcs, AfterPcs, DeletePcs, Leaving
    <3>6. QED
      BY <3>4, <3>5 DEF OwnershipInv
  <2>3. QED
    BY <2>1, <2>2
<1>2. CASE GetReleaseFails \/ ResolveChartRefFails \/ PlanFails \/ StampFails
  <2>1. pc \in Deploying
    BY <1>2 DEF GetReleaseFails, ResolveChartRefFails, PlanFails, StampFails, Deploying, InstallPcs
  <2>2. CASE GetReleaseFails
    BY <1>0, <2>1, <2>2, OwnershipFail DEF GetReleaseFails
  <2>3. CASE ResolveChartRefFails
    BY <1>0, <2>1, <2>3, OwnershipFail DEF ResolveChartRefFails
  <2>4. CASE PlanFails
    <3>1. NewAttempt(view) \in Release /\ Keeps(NewAttempt(view), view)
      BY <1>0, NewAttemptLemma
    <3>2. QED
      BY <1>0, <2>1, <2>4, <3>1, OwnershipFail DEF PlanFails
  <2>5. CASE StampFails
    BY <1>0, <2>1, <2>5, OwnershipFail DEF StampFails
  <2>6. QED
    BY <1>2, <2>2, <2>3, <2>4, <2>5
<1>3. CASE GetRelease \/ ResolveChartRef \/ SourceNotReady \/ PlanUpToDate \/ PlanChanges
  <2>1. pc \in Deploying /\ pc' \in Deploying \cup WritePcs
    BY <1>3 DEF GetRelease, ResolveChartRef, SourceNotReady, PlanUpToDate, PlanChanges, Goto,
                Deploying, InstallPcs, WritePcs
  <2>2. Keeps(view', view)
    <3>1. CASE ResolveChartRef
      BY <1>0, <3>1 DEF ResolveChartRef, Attempted, Release, Keeps
    <3>2. CASE GetRelease
      BY <1>0, <3>2 DEF GetRelease
    <3>3. CASE SourceNotReady
      BY <1>0, <3>3, ProjectLemma DEF SourceNotReady
    <3>4. CASE PlanUpToDate \/ PlanChanges
      <4>1. NewAttempt(view) \in Release /\ Keeps(NewAttempt(view), view)
        BY <1>0, NewAttemptLemma
      <4>2. Keeps(HandleSuccess(Project(NewAttempt(view), preRel)), NewAttempt(view))
        BY <1>0, <4>1, ProjectedSuccess
      <4>3. Keeps(HandleSuccess(Project(NewAttempt(view), preRel)), view)
        BY <4>1, <4>2, KeepsTransitive
      <4>4. QED
        BY <3>4, <4>1, <4>3 DEF PlanUpToDate, PlanChanges
    <3>5. QED
      BY <1>3, <3>1, <3>2, <3>3, <3>4
  <2>3. UNCHANGED <<object, storage, viewCurrent>>
    BY <1>3 DEF GetRelease, ResolveChartRef, SourceNotReady, PlanUpToDate, PlanChanges
  <2>4. QED
    BY <2>1, <2>2, <2>3, OwnershipDeploy
<1>4. CASE StampOwnershipMarker \/ Install \/ InstallFails \/ Rollback
  <2>1. pc \in Deploying /\ pc' \in Deploying \cup WritePcs
    BY <1>4 DEF StampOwnershipMarker, Install, InstallFails, Rollback, Goto,
                Deploying, InstallPcs, AfterPcs, WritePcs
  <2>2. Keeps(view', view)
    <3>1. /\ Keeps(HandleSuccess(Project(view, preRel)), view)
          /\ Keeps(Acted(view, "install"), view) /\ Keeps(Acted(view, "rollback"), view)
      BY <1>0, ProjectedSuccess, ActedLemma
    <3>2. QED
      BY <1>0, <1>4, <3>1 DEF StampOwnershipMarker, Install, InstallFails, Rollback
  <2>3. UNCHANGED <<object, viewCurrent>>
    BY <1>4 DEF StampOwnershipMarker, Install, InstallFails, Rollback
  <2>4. Far
    BY <1>4 DEF StampOwnershipMarker, Install, InstallFails, Rollback, TypeOK
  <2>5. QED
    BY <2>1, <2>2, <2>3, <2>4, OwnershipDeploy
<1>5. CASE ProjectSuccess \/ ProjectFailure \/ ProjectRollback
  <2>1. pc \in Deploying /\ pc' \in Deploying \cup WritePcs
    BY <1>5 DEF ProjectSuccess, ProjectFailure, ProjectRollback, Goto, Deploying, AfterPcs, WritePcs
  <2>2. Keeps(view', view)
    <3>1. /\ Keeps(HandleSuccess(Project(view, storage[view.ns])), view)
          /\ Keeps(HandleFailure(Project(view, storage[view.ns])), view)
          /\ Keeps(Project(view, storage[view.ns]), view)
      BY <1>0, ProjectedSuccess, ProjectedFailure, ProjectLemma
    <3>2. Keeps(HandleSuccess(view), view) /\ Keeps(HandleFailure(view), view)
      BY <1>0, HandleSuccessLemma, HandleFailureLemma
    <3>3. QED
      BY <1>0, <1>5, <3>1, <3>2 DEF ProjectSuccess, ProjectFailure, ProjectRollback, Refetched
  <2>3. UNCHANGED <<object, storage, viewCurrent>>
    BY <1>5 DEF ProjectSuccess, ProjectFailure, ProjectRollback
  <2>4. QED
    BY <2>1, <2>2, <2>3, OwnershipDeploy
<1>6. CASE WriteNotReady \/ WriteSuccess \/ WriteFailure
  BY <1>6, OwnershipReturn DEF WriteNotReady, WriteSuccess, WriteFailure, StatusRejected
<1>7. CASE WriteUninstalling \/ WriteUninstalled
  <2>1. CASE StatusRejected /\ ReturnError
    BY <1>7, <2>1, OwnershipReturn DEF WriteUninstalling, WriteUninstalled, StatusRejected, ReturnError
  <2>2. CASE ~(StatusRejected /\ ReturnError)
    BY <1>7, <2>2, OwnershipDeleteWrite DEF WriteUninstalling, WriteUninstalled, Goto
  <2>3. QED
    BY <2>1, <2>2
<1>8. CASE Uninstall
  <2>1. CASE ReturnError /\ UNCHANGED storage
    BY <1>8, <2>1, OwnershipReturn DEF Uninstall, ReturnError
  <2>2. CASE ~(ReturnError /\ UNCHANGED storage)
    <3>1. /\ storage' = [storage EXCEPT ![view.ns] = Absent] /\ view' = Acted(view, "uninstall")
          /\ pc = "uninstall" /\ pc' = "writeUninstalled" /\ UNCHANGED <<object, viewCurrent>>
      BY <1>8, <2>2 DEF Uninstall, Goto
    <3>2. Keeps(view', view)
      BY <1>0, <3>1, ActedLemma
    <3>3. /\ \A n \in Namespaces : storage'[n].marked => storage[n].marked
          /\ storage'[view.ns].marked = FALSE
      BY <1>0, <3>1 DEF TypeOK, Absent, Release
    <3>4. Copies'
      BY <3>1, <3>2 DEF OwnershipInv, Copies, SameSpec, Held, Keeps, object
    <3>5. WorkerCopies'
      BY <3>1, <3>2
      DEF OwnershipInv, WorkerCopies, Deploying, InstallPcs, AfterPcs, DeletePcs, Leaving, Keeps, object
    <3>6. Marks'
      BY <3>1, <3>2, <3>3 DEF OwnershipInv, Marks, Keeps, object
    <3>7. QED
      BY <3>4, <3>5, <3>6 DEF OwnershipInv
  <2>3. QED
    BY <2>1, <2>2
<1>9. CASE RemoveFinalizer
  <2>1. CASE UNCHANGED object
    BY <1>9, <2>1, OwnershipReturn DEF RemoveFinalizer, ReturnError
  <2>2. CASE ~ UNCHANGED object
    <3>1. /\ pc = "unfinalize" /\ pc' = "idle" /\ cacheCurrent' = FALSE /\ viewCurrent' = FALSE
          /\ cache' = cache /\ UNCHANGED storage
      BY <1>9, <2>2 DEF RemoveFinalizer, Return
    <3>2. /\ rel.phase = "deleting" /\ rel.ns = view.ns /\ ~storage[view.ns].marked
          /\ ~(cache.phase = "live" /\ cache.fin)
      BY <3>1 DEF OwnershipInv, WorkerCopies, Marks, Leaving, DeletePcs
    <3>3. rel' = Gone(rel.gen) /\ rel.gen \in Nat
      BY <1>9, <2>2, <3>2 DEF RemoveFinalizer, TypeOK, Release
    <3>4. rel'.phase = "none" /\ rel'.fin = FALSE
      BY <3>3, GoneLemma
    <3>5. Copies' /\ WorkerCopies'
      BY <3>1, <3>2, <3>4
      DEF Copies, WorkerCopies, Held, Deploying, InstallPcs, AfterPcs, DeletePcs, Leaving
    <3>6. Marks'
      BY <3>1, <3>2 DEF OwnershipInv, Marks
    <3>7. QED
      BY <3>5, <3>6 DEF OwnershipInv
  <2>3. QED
    BY <2>1, <2>2
<1>10. QED
  BY <1>1, <1>2, <1>3, <1>4, <1>5, <1>6, <1>7, <1>8, <1>9 DEF WorkerStep
(***************************************************************************)
(* The steps that leave the worker's copies and the marks alone.           *)
(***************************************************************************)
LEMMA OwnershipStutter ==
  ASSUME OwnershipInv, UNCHANGED <<object, storage, pc, view, viewCurrent>>
  PROVE  OwnershipInv'
<1>1. UNCHANGED <<rel, cache, cacheCurrent, storage, pc, view, viewCurrent>>
  BY DEF object
<1>2. QED
  BY <1>1 DEF OwnershipInv, Copies, WorkerCopies, Marks, Held, SameSpec

\* Other clients add no mark.
LEMMA OwnershipForeign ==
  ASSUME TypeOK, OwnershipInv, ForeignDeploy \/ ForeignUninstall \/ Drift
  PROVE  OwnershipInv'
<1>1. UNCHANGED <<rel, cache, cacheCurrent, pc, view, viewCurrent>>
  BY DEF ForeignDeploy, ForeignUninstall, Drift, object, worker
<1>2. \A n \in Namespaces : storage'[n].marked => storage[n].marked
  <2>1. CASE ForeignDeploy
    BY <2>1 DEF ForeignDeploy, Deployed, TypeOK
  <2>2. CASE ForeignUninstall
    BY <2>2 DEF ForeignUninstall, Absent, TypeOK
  <2>3. CASE Drift
    BY <2>3 DEF Drift, TypeOK, Stored
  <2>4. QED
    BY <2>1, <2>2, <2>3
<1>3. Copies' /\ WorkerCopies'
  BY <1>1 DEF OwnershipInv, Copies, WorkerCopies, Held, SameSpec
<1>4. Marks'
  <2>1. pc \in {"writeUninstalled", "unfinalize"} => view.ns \in Namespaces
    BY DEF TypeOK, Release
  <2>2. QED
    BY <1>1, <1>2, <2>1 DEF OwnershipInv, Marks
<1>5. QED
  BY <1>3, <1>4 DEF OwnershipInv

\* The start of a reconcile: what the cache shows is what the worker may do.
LEMMA OwnershipReconcile ==
  ASSUME TypeOK, OwnershipInv, Reconcile
  PROVE  OwnershipInv'
<1>0. cache \in Release
  BY DEF TypeOK
<1>1. CASE ReconcileSkip
  BY <1>1, OwnershipStutter DEF ReconcileSkip, worker
<1>2. CASE ~ReconcileSkip
  <2>1. /\ UNCHANGED <<rel, cache, cacheCurrent, storage>> /\ viewCurrent' = cacheCurrent
        /\ Keeps(view', cache)
    <3>1. CASE ReconcileNew \/ ReconcileLive
      BY <3>1 DEF ReconcileNew, ReconcileLive, Begin, object, Keeps
    <3>2. CASE ReconcileDeleted
      BY <1>0, <3>2 DEF ReconcileDeleted, Begin, object, Keeps, Release
    <3>3. QED
      BY <1>2, <3>1, <3>2 DEF Reconcile
  <2>2. Copies'
    BY <2>1 DEF OwnershipInv, Copies, Keeps, Held, SameSpec
  <2>3. WorkerCopies' /\ Marks'
    <3>1. CASE ReconcileNew
      <4>1. pc' = "finalizer" /\ cache.phase = "live"
        BY <3>1 DEF ReconcileNew, Begin
      <4>2. QED
        BY <2>1, <4>1
        DEF OwnershipInv, WorkerCopies, Marks, Deploying, InstallPcs, AfterPcs, DeletePcs, Leaving
    <3>2. CASE ReconcileLive
      <4>1. pc' = "get" /\ cache.phase = "live" /\ cache.fin
        BY <3>2 DEF ReconcileLive, Begin
      <4>2. Held(view)'
        BY <2>1, <4>1 DEF OwnershipInv, Copies, Held, Keeps
      <4>3. QED
        BY <2>1, <4>1, <4>2 DEF OwnershipInv, WorkerCopies, Marks, DeletePcs, Leaving
    <3>3. CASE ReconcileDeleted
      <4>1. pc' = "writeUninstalling" /\ cache.phase = "deleting" /\ cache.fin
        BY <3>3 DEF ReconcileDeleted, Begin
      <4>2. QED
        BY <2>1, <4>1
        DEF OwnershipInv, Copies, WorkerCopies, Marks, Deploying, InstallPcs, AfterPcs, DeletePcs,
            Leaving, Keeps
    <3>4. QED
      BY <1>2, <3>1, <3>2, <3>3 DEF Reconcile
  <2>4. QED
    BY <2>2, <2>3 DEF OwnershipInv
<1>3. QED
  BY <1>1, <1>2

\* Users: the API server keeps a deleted object as long as its finalizer.
LEMMA OwnershipUser ==
  ASSUME TypeOK, OwnershipInv, User, "move" \notin Disturbances
  PROVE  OwnershipInv'
<1>0. /\ rel \in Release /\ rel.gen \in Nat /\ rel.gen + 1 \in Nat
      /\ rel.fin \in BOOLEAN /\ cache.fin \in BOOLEAN
  BY DEF TypeOK, Release
<1>1. /\ UNCHANGED <<cache, storage, pc, view>> /\ cacheCurrent' = FALSE /\ viewCurrent' = FALSE
  BY DEF User, EditValues, EditTargetNamespace, ToggleSuspend, DeleteRelease, CreateRelease, Written
<1>2. ~EditTargetNamespace
  BY DEF EditTargetNamespace, Spend
<1>3. CASE EditValues \/ ToggleSuspend
  <2>1. rel'.phase = rel.phase /\ rel'.fin = rel.fin /\ rel'.ns = rel.ns
    BY <1>0, <1>3 DEF EditValues, ToggleSuspend, Release
  <2>2. QED
    BY <1>1, <2>1 DEF OwnershipInv, Copies, WorkerCopies, Marks, Held
<1>4. CASE DeleteRelease /\ rel.fin
  <2>1. rel.phase = "live" /\ rel'.phase = "deleting" /\ rel'.fin = rel.fin /\ rel'.ns = rel.ns
    BY <1>0, <1>4 DEF DeleteRelease, Release
  <2>2. pc \notin Leaving
    BY <2>1 DEF OwnershipInv, WorkerCopies
  <2>3. Copies' /\ WorkerCopies'
    BY <1>1, <2>1, <2>2 DEF OwnershipInv, Copies, WorkerCopies, Held
  <2>4. Marks'
    BY <1>1, <2>1 DEF OwnershipInv, Marks
  <2>5. QED
    BY <2>3, <2>4 DEF OwnershipInv
<1>5. CASE (DeleteRelease /\ ~rel.fin) \/ CreateRelease
  <2>1. rel.phase # "deleting" /\ (rel.phase = "none" \/ ~rel.fin)
    BY <1>5 DEF DeleteRelease, CreateRelease
  <2>2. rel'.phase # "deleting" /\ rel'.fin = FALSE
    <3>1. CASE CreateRelease
      BY <3>1 DEF CreateRelease, Fresh, Gone
    <3>2. CASE DeleteRelease /\ ~rel.fin
      BY <3>2 DEF DeleteRelease, Gone
    <3>3. QED
      BY <1>5, <3>1, <3>2
  <2>3. /\ ~(cache.phase = "live" /\ cache.fin) /\ pc \notin Deploying /\ pc \notin Leaving
        /\ pc = "finalizer" => cache.phase # "deleting"
        /\ \A n \in Namespaces : ~storage[n].marked
    BY <2>1 DEF OwnershipInv, Copies, WorkerCopies, Marks, Held
  <2>4. Copies'
    BY <1>1, <2>2, <2>3 DEF Copies
  <2>5. WorkerCopies'
    BY <1>1, <2>2, <2>3 DEF OwnershipInv, WorkerCopies
  <2>6. Marks'
    BY <1>1, <2>3 DEF Marks, Leaving
  <2>7. QED
    BY <2>4, <2>5, <2>6 DEF OwnershipInv
<1>6. QED
  BY <1>2, <1>3, <1>4, <1>5 DEF User

\* A restart drops the worker; an install it interrupts was for the owner.
LEMMA OwnershipCrash ==
  ASSUME TypeOK, OwnershipInv, Crash
  PROVE  OwnershipInv'
<1>1. /\ rel' = rel /\ cache' = rel /\ pc' = "idle" /\ viewCurrent' = FALSE
  BY DEF Crash
<1>2. \A n \in Namespaces : storage'[n].marked => rel.phase # "none" /\ rel.fin /\ rel.ns = n
  <2>1. CASE UNCHANGED storage
    BY <2>1 DEF OwnershipInv, Marks
  <2>2. CASE ~UNCHANGED storage
    <3>1. pc = "install"
          /\ storage' = [storage EXCEPT ![view.ns] = FailedRevision(storage[view.ns], Desired(view))]
      BY <2>2 DEF Crash
    <3>2. Held(view)
      BY <3>1 DEF OwnershipInv, WorkerCopies, Deploying, InstallPcs
    <3>3. \A n \in Namespaces : n # view.ns => storage'[n] = storage[n]
      BY <3>1 DEF TypeOK
    <3>4. QED
      BY <3>2, <3>3 DEF OwnershipInv, Marks, Held
  <2>3. QED
    BY <2>1, <2>2
<1>3. Copies'
  BY <1>1 DEF Copies, Held
<1>4. WorkerCopies' /\ Marks'
  BY <1>1, <1>2 DEF WorkerCopies, Marks, Deploying, InstallPcs, AfterPcs, DeletePcs, Leaving
<1>5. QED
  BY <1>3, <1>4 DEF OwnershipInv

\* The informer catches up with the object.
LEMMA OwnershipSync ==
  ASSUME TypeOK, OwnershipInv, CacheSync
  PROVE  OwnershipInv'
<1>1. UNCHANGED <<rel, storage, pc, view, viewCurrent>> /\ cache' = rel
  BY DEF CacheSync, worker
<1>2. Copies'
  BY <1>1 DEF OwnershipInv, Copies, Held, SameSpec
<1>3. WorkerCopies'
  BY <1>1 DEF OwnershipInv, WorkerCopies, Held
<1>4. Marks'
  BY <1>1 DEF OwnershipInv, Marks
<1>5. QED
  BY <1>2, <1>3, <1>4 DEF OwnershipInv

\* The ownership invariant is inductive.
LEMMA OwnershipStep ==
  ASSUME "move" \notin Disturbances, TypeOK, OwnershipInv, [Next]_vars
  PROVE  OwnershipInv'
<1>1. CASE WorkerStep
  BY <1>1, OwnershipWorker
<1>2. CASE Reconcile \/ CacheSync \/ User \/ Crash
  BY <1>2, OwnershipReconcile, OwnershipSync, OwnershipUser, OwnershipCrash
<1>3. CASE ForeignDeploy \/ ForeignUninstall \/ Drift
  BY <1>3, OwnershipForeign
<1>4. CASE ChartEvent \/ TimerFire \/ Publish \/ SourceFails \/ SourceRecovers \/ UNCHANGED vars
  <2>1. UNCHANGED <<object, storage, pc, view, viewCurrent>>
    BY <1>4 DEF ChartEvent, TimerFire, Publish, SourceFails, SourceRecovers, ChartBecomes, vars, worker
  <2>2. QED
    BY <2>1, OwnershipStutter
<1>5. QED
  BY <1>1, <1>2, <1>3, <1>4 DEF Next, Cluster

(***************************************************************************)
(* The ownership invariant, while nobody changes spec.targetNamespace: a   *)
(* stale copy that lets the worker deploy is of a Release that still holds *)
(* its finalizer in the same namespace (Reconcile 80-96).                  *)
(***************************************************************************)
THEOREM OwnershipInvariant ==
  ASSUME "move" \notin Disturbances
  PROVE  Spec => []OwnershipInv
<1>1. TypeOK /\ OwnershipInv /\ [Next]_vars => OwnershipInv'
  BY OwnershipStep
<1>2. QED
  BY <1>1, OwnershipInit, TypeCorrect, PTL DEF Spec

(***************************************************************************)
(* No orphan: while nobody changes spec.targetNamespace (the run           *)
(* release_move shows what happens then), a Release never leaves the API   *)
(* server before the last Helm release that carries its ownership marker is*)
(* uninstalled.  This is what the finalizer of Reconcile and               *)
(* reconcileDelete is for.                                                 *)
(***************************************************************************)
THEOREM NeverOrphaned ==
  ASSUME "move" \notin Disturbances
  PROVE  Spec => []NoOrphan
<1>1. OwnershipInv => NoOrphan
  BY DEF OwnershipInv, Marks, NoOrphan
<1>2. QED
  BY <1>1, OwnershipInvariant, PTL

-----------------------------------------------------------------------------
(***************************************************************************)
(* Refinement of ReleaseLifecycle.                                         *)
(***************************************************************************)
Owned == \E n \in Namespaces : storage[n].marked

\* Only three steps change the phase of the Release, and none of them deploys.
LEMMA PhaseSteps ==
  ASSUME TypeOK, [Next]_vars, rel'.phase # rel.phase
  PROVE  /\ storage' = storage
         /\ <<rel.phase, rel'.phase>> \in {<<"none", "live">>, <<"live", "none">>,
                                           <<"live", "deleting">>, <<"deleting", "none">>}
<1>0. rel \in Release /\ rel.phase \in {"none", "live", "deleting"}
  BY DEF TypeOK, Release
<1>1. CASE RemoveFinalizer
  <2>1. rel.phase = "deleting" /\ rel' = Gone(rel.gen) /\ storage' = storage
    BY <1>0, <1>1 DEF RemoveFinalizer, object, Release
  <2>2. QED
    BY <2>1 DEF Gone
<1>2. CASE DeleteRelease
  <2>1. /\ rel.phase = "live" /\ storage' = storage
        /\ rel'.phase = "deleting" \/ rel' = Gone(rel.gen)
    BY <1>0, <1>2 DEF DeleteRelease, Written, Release
  <2>2. QED
    BY <2>1 DEF Gone
<1>3. CASE CreateRelease
  <2>1. rel.phase = "none" /\ storage' = storage
    BY <1>3 DEF CreateRelease, Written
  <2>2. rel'.phase = "live"
    BY <1>3 DEF CreateRelease, Fresh, Gone
  <2>3. QED
    BY <2>1, <2>2
<1>4. CASE EditValues \/ EditTargetNamespace \/ ToggleSuspend
  BY <1>0, <1>4 DEF EditValues, EditTargetNamespace, ToggleSuspend, Release
<1>5. CASE AddFinalizer
  BY <1>0, <1>5 DEF AddFinalizer, object, Release
<1>6. CASE WriteNotReady \/ WriteSuccess \/ WriteFailure \/ WriteUninstalling \/ WriteUninstalled
  <2>1. StatusUpdated \/ StatusRejected
    BY <1>6 DEF WriteNotReady, WriteSuccess, WriteFailure, WriteUninstalling, WriteUninstalled
  <2>2. QED
    BY <1>0, <2>1 DEF StatusUpdated, StatusRejected, object, Release
<1>7. CASE \/ GetRelease \/ GetReleaseFails \/ ResolveChartRef \/ SourceNotReady
           \/ ResolveChartRefFails \/ PlanUpToDate \/ PlanChanges \/ PlanFails
           \/ StampOwnershipMarker \/ StampFails \/ Install \/ InstallFails
           \/ ProjectSuccess \/ ProjectFailure \/ Rollback \/ ProjectRollback \/ Uninstall
  BY <1>7 DEF GetRelease, GetReleaseFails, ResolveChartRef, SourceNotReady, ResolveChartRefFails,
              PlanUpToDate, PlanChanges, PlanFails, StampOwnershipMarker, StampFails, Install,
              InstallFails, ProjectSuccess, ProjectFailure, Rollback, ProjectRollback, Uninstall,
              FailBefore, object
<1>8. CASE Reconcile \/ CacheSync \/ ChartEvent \/ TimerFire \/ Cluster \/ Crash \/ UNCHANGED vars
  BY <1>8 DEF Reconcile, ReconcileSkip, ReconcileNew, ReconcileLive, ReconcileDeleted, Begin,
              CacheSync, ChartEvent, TimerFire, Cluster, ForeignDeploy, ForeignUninstall, Drift,
              Publish, SourceFails, SourceRecovers, ChartBecomes, Crash, vars, object
<1>9. QED
  BY <1>1, <1>2, <1>3, <1>4, <1>5, <1>6, <1>7, <1>8 DEF Next, WorkerStep, User

(***************************************************************************)
(* The operator implements the life cycle: with caches, retries, conflicts *)
(* and crashes, each of its steps is one of ReleaseLifecycle's or leaves   *)
(* the phase and the ownership alone (Reconcile, reconcileDelete).         *)
(***************************************************************************)
THEOREM ImplementsLifecycle ==
  ASSUME "move" \notin Disturbances
  PROVE  Spec => KeepsLifecycle
<1>1. Init => Lifecycle!Init
  <2> SUFFICES ASSUME Init PROVE Lifecycle!Init
    OBVIOUS
  <2>1. rel.phase = "live"
    <3>1. PICK w \in Wants, n \in Namespaces : rel = Fresh(1, w, n)
      BY DEF Init
    <3>2. QED
      BY <3>1 DEF Fresh, Gone
  <2>2. ~Owned
    BY DEF Init, Owned, Absent
  <2>3. QED
    BY <2>1, <2>2 DEF Lifecycle!Init, Owned
<1>2. TypeOK /\ NoOrphan /\ NoOrphan' /\ [Next]_vars => [Lifecycle!Next]_(Lifecycle!vars)
  <2> SUFFICES ASSUME TypeOK, NoOrphan, NoOrphan', [Next]_vars
               PROVE  [Lifecycle!Next]_(Lifecycle!vars)
    OBVIOUS
  <2>0. Owned \in BOOLEAN /\ Owned' \in BOOLEAN
    BY DEF Owned
  <2>1. CASE rel'.phase = rel.phase
    <3>1. Owned' => rel.phase # "none"
      BY <2>1 DEF NoOrphan, Owned
    <3>2. QED
      BY <2>0, <2>1, <3>1
      DEF Lifecycle!Next, Lifecycle!Deploy, Lifecycle!Disown, Lifecycle!vars, Owned
  <2>2. CASE rel'.phase # rel.phase
    <3>1. UNCHANGED Owned
      BY <2>2, PhaseSteps DEF Owned
    <3>2. rel'.phase = "none" => ~Owned
      BY <3>1 DEF NoOrphan, Owned
    <3>3. QED
      BY <2>2, <3>1, <3>2, PhaseSteps
      DEF Lifecycle!Next, Lifecycle!Create, Lifecycle!Discard, Lifecycle!Delete, Lifecycle!Finish, Owned
  <2>3. QED
    BY <2>1, <2>2
<1>3. QED
  BY <1>1, <1>2, TypeCorrect, NeverOrphaned, PTL DEF Spec, KeepsLifecycle, Lifecycle!Spec
-----------------------------------------------------------------------------
(***************************************************************************)
(* Readiness.                                                              *)
(***************************************************************************)
LEMMA EmptyLemma == EmptyStatus.obs = 0 /\ EmptyStatus.ready = FALSE
  BY DEF EmptyStatus

\* A new Release is not Ready.
LEMMA ReadyInit == Init => ReadyInv
<1> SUFFICES ASSUME Init PROVE ReadyInv
  OBVIOUS
<1>1. PICK w \in Wants, n \in Namespaces : rel = Fresh(1, w, n)
  BY DEF Init
<1>2. rel.st = EmptyStatus /\ rel.gen = 1
  BY <1>1 DEF Fresh, Gone
<1>3. rel.st.obs = 0 /\ rel.st.ready = FALSE
  BY <1>2, EmptyLemma
<1>4. /\ cache.st.obs = 0 /\ cache.gen = 0 /\ view.st.obs = 0 /\ view.gen = 0
  BY DEF Init, Gone, EmptyStatus
<1>5. QED
  BY <1>2, <1>3, <1>4
  DEF Init, ReadyInv, Observed, ReadyCopies, CurrentReady, PendingStatus, DeletePcs

(***************************************************************************)
(* A step between two external calls of one reconcile: it writes no object *)
(* and whatever nelm confirms is for the spec in hand.                     *)
(***************************************************************************)
LEMMA ReadyLocal ==
  ASSUME ReadyInv, UNCHANGED <<object, viewCurrent>>, Keeps(view', view),
         view'.st.obs = view.st.obs \/ view'.st.obs = view.gen, view.gen \in Nat,
         pc # "idle", verified' \in {verified, <<view.want, view.ns>>}, PendingStatus'
  PROVE  ReadyInv'
<1>1. UNCHANGED <<rel, cache, cacheCurrent>>
  BY DEF object
<1>2. Observed'
  BY <1>1 DEF ReadyInv, Observed, SameSpec, Keeps
<1>3. ReadyCopies'
  BY <1>1 DEF ReadyInv, ReadyCopies, CurrentReady, SameWant, Keeps
<1>4. QED
  BY <1>2, <1>3 DEF ReadyInv

\* The end of a reconcile that writes nothing.
LEMMA ReadyReturn ==
  ASSUME ReadyInv, NEW b, Return(b), UNCHANGED <<object, verified>>
  PROVE  ReadyInv'
<1>1. UNCHANGED <<rel, cache, cacheCurrent>>
  BY DEF object
<1>2. pc' = "idle" /\ viewCurrent' = FALSE /\ view'.st.obs = 0 /\ view'.gen = 0
  BY DEF Return, Gone, EmptyStatus
<1>3. Observed' /\ ReadyCopies'
  BY <1>1, <1>2 DEF ReadyInv, Observed, ReadyCopies, CurrentReady, SameWant
<1>4. PendingStatus'
  BY <1>2 DEF PendingStatus, DeletePcs, InstallPcs
<1>5. QED
  BY <1>3, <1>4 DEF ReadyInv

(***************************************************************************)
(* A status write: it succeeds only on the object that was read, so what it*)
(* says of the spec it says of the current one.                            *)
(***************************************************************************)
LEMMA ReadyWrite ==
  ASSUME TypeOK, ReadyInv, StatusUpdated, UNCHANGED verified,
         pc \in WritePcs \cup DeletePcs
  PROVE  /\ SameSpec(view) /\ SameSpec(cache) /\ Keeps(rel', rel) /\ cache' = cache
         /\ rel'.st.obs <= rel'.gen /\ (cacheCurrent' => cache' = rel')
         /\ CurrentReady' => verified = <<rel.want, rel.ns>>
<1>1. SameSpec(view) /\ SameSpec(cache) /\ cache' = cache /\ viewCurrent
  BY DEF StatusUpdated, ReadyInv, Observed
<1>2. /\ Keeps(rel', rel) /\ rel'.st = view.st
      /\ (cacheCurrent' => cacheCurrent /\ rel' = rel)
  BY StatusKeeps DEF StatusUpdated, TypeOK, Release
<1>3. rel'.st.obs <= rel'.gen /\ (cacheCurrent' => cache' = rel')
  BY <1>1, <1>2 DEF ReadyInv, Observed, SameSpec, Keeps
<1>4. ASSUME CurrentReady' PROVE verified = <<rel.want, rel.ns>>
  <2>1. rel.phase = "live" /\ view.st.ready /\ view.st.obs = rel.gen
    BY <1>2, <1>4 DEF CurrentReady, Keeps
  <2>2. CASE pc = "writeNotReady"
    BY <1>1, <2>1, <2>2 DEF ReadyInv, PendingStatus, ReadyCopies, CurrentReady
  <2>3. CASE pc = "writeSuccess"
    BY <1>1, <2>3 DEF ReadyInv, PendingStatus, SameSpec
  <2>4. CASE pc = "writeFailure"
    BY <2>1, <2>4 DEF ReadyInv, PendingStatus
  <2>5. CASE pc \in DeletePcs
    BY <1>1, <2>1, <2>5 DEF ReadyInv, PendingStatus, SameSpec
  <2>6. QED
    BY <2>2, <2>3, <2>4, <2>5 DEF WritePcs
<1>5. QED
  BY <1>1, <1>2, <1>3, <1>4

\* The status write that ends a reconcile of a live Release.
LEMMA ReadyWriteReturn ==
  ASSUME TypeOK, ReadyInv, StatusUpdated, UNCHANGED verified, pc \in WritePcs, NEW b, Return(b)
  PROVE  ReadyInv'
<1>1. /\ SameSpec(cache) /\ Keeps(rel', rel) /\ cache' = cache
      /\ rel'.st.obs <= rel'.gen /\ (cacheCurrent' => cache' = rel')
      /\ CurrentReady' => verified = <<rel.want, rel.ns>>
  BY ReadyWrite
<1>2. pc' = "idle" /\ viewCurrent' = FALSE /\ view'.st.obs = 0 /\ view'.gen = 0
  BY DEF Return, Gone, EmptyStatus
<1>3. Observed'
  BY <1>1, <1>2 DEF ReadyInv, Observed
<1>4. ReadyCopies'
  BY <1>1, <1>2 DEF ReadyCopies, SameSpec, SameWant, Keeps
<1>5. PendingStatus'
  BY <1>2 DEF PendingStatus, DeletePcs, InstallPcs
<1>6. QED
  BY <1>3, <1>4, <1>5 DEF ReadyInv

\* The status writes of reconcileDelete.
LEMMA ReadyDeleteWrite ==
  ASSUME TypeOK, ReadyInv, StatusUpdated, UNCHANGED <<verified, view, viewCurrent>>,
         pc \in DeletePcs, pc' \in DeletePcs
  PROVE  ReadyInv'
<1>1. /\ SameSpec(view) /\ SameSpec(cache) /\ Keeps(rel', rel) /\ cache' = cache
      /\ rel'.st.obs <= rel'.gen /\ (cacheCurrent' => cache' = rel')
      /\ CurrentReady' => verified = <<rel.want, rel.ns>>
  BY ReadyWrite
<1>2. Observed'
  BY <1>1 DEF ReadyInv, Observed, SameSpec, Keeps
<1>3. ReadyCopies'
  BY <1>1 DEF ReadyCopies, SameSpec, SameWant, Keeps
<1>4. PendingStatus'
  BY DEF ReadyInv, PendingStatus, DeletePcs, InstallPcs
<1>5. QED
  BY <1>2, <1>3, <1>4 DEF ReadyInv
\* A failure before the install: the copy to be written is not Ready.
LEMMA ReadyFail ==
  ASSUME TypeOK, ReadyInv, pc # "idle", NEW c, NEW r \in Release, NEW s \in Stored,
         Keeps(r, view), FailBefore(c, r, s)
  PROVE  ReadyInv'
<1>1. view' = HandleFailure(Project(r, s)) /\ pc' = "writeFailure"
  BY DEF FailBefore, Goto
<1>2. /\ Keeps(view', r) /\ view'.st.ready = FALSE /\ view'.st.obs = r.gen
  BY <1>1, ProjectedFailure
<1>3. Keeps(view', view) /\ view'.st.obs = view.gen /\ view.gen \in Nat
  BY <1>2, KeepsTransitive DEF Keeps, TypeOK, Release
<1>4. PendingStatus'
  BY <1>1, <1>2 DEF PendingStatus, DeletePcs, InstallPcs
<1>5. UNCHANGED <<object, viewCurrent, verified>>
  BY DEF FailBefore
<1>6. QED
  BY <1>3, <1>4, <1>5, ReadyLocal

\* Every external call of the worker.
LEMMA ReadyWorker == TypeOK /\ ReadyInv /\ WorkerStep => ReadyInv'
<1> SUFFICES ASSUME TypeOK, ReadyInv, WorkerStep PROVE ReadyInv'
  OBVIOUS
<1>0. /\ storage[view.ns] \in Stored /\ Absent \in Stored /\ view \in Release /\ preRel \in Stored
      /\ Keeps(view, view) /\ view.gen \in Nat
  BY DEF TypeOK, Release, Absent, Stored, Contents, Keeps
<1> DEFINE Quiet == Keeps(view', view) /\ view'.st.ready = view.st.ready /\ view'.st.obs = view.st.obs
<1>1. CASE AddFinalizer
  <2>1. CASE UNCHANGED object
    BY <1>1, <2>1, ReadyReturn DEF AddFinalizer
  <2>2. CASE ~ UNCHANGED object
    <3>1. rel' = [rel EXCEPT !.fin = TRUE] /\ cache' = cache /\ verified' = verified
      BY <1>1, <2>2 DEF AddFinalizer
    <3>2. cacheCurrent' => cacheCurrent /\ rel' = rel
      BY <1>1, <2>2, <3>1 DEF AddFinalizer, TypeOK, Release
    <3>3. /\ rel'.phase = rel.phase /\ rel'.gen = rel.gen /\ rel'.st = rel.st
          /\ rel'.want = rel.want /\ rel'.ns = rel.ns
      BY <3>1 DEF TypeOK, Release
    <3>4. pc' = "idle" /\ viewCurrent' = FALSE /\ view'.st.obs = 0 /\ view'.gen = 0
      BY <1>1 DEF AddFinalizer, Return, Gone, EmptyStatus
    <3>5. Observed' /\ ReadyCopies'
      BY <3>1, <3>2, <3>3, <3>4 DEF ReadyInv, Observed, ReadyCopies, CurrentReady, SameWant
    <3>6. PendingStatus'
      BY <3>4 DEF PendingStatus, DeletePcs, InstallPcs
    <3>7. QED
      BY <3>5, <3>6 DEF ReadyInv
  <2>3. QED
    BY <2>1, <2>2
<1>2. CASE GetReleaseFails \/ ResolveChartRefFails \/ PlanFails \/ StampFails
  <2>1. pc # "idle"
    BY <1>2 DEF GetReleaseFails, ResolveChartRefFails, PlanFails, StampFails
  <2>2. CASE GetReleaseFails
    BY <1>0, <2>1, <2>2, ReadyFail DEF GetReleaseFails
  <2>3. CASE ResolveChartRefFails
    BY <1>0, <2>1, <2>3, ReadyFail DEF ResolveChartRefFails
  <2>4. CASE PlanFails
    <3>1. NewAttempt(view) \in Release /\ Keeps(NewAttempt(view), view)
      BY <1>0, NewAttemptLemma
    <3>2. QED
      BY <1>0, <2>1, <2>4, <3>1, ReadyFail DEF PlanFails
  <2>5. CASE StampFails
    BY <1>0, <2>1, <2>5, ReadyFail DEF StampFails
  <2>6. QED
    BY <1>2, <2>2, <2>3, <2>4, <2>5
<1>3. CASE GetRelease \/ ResolveChartRef \/ SourceNotReady \/ PlanChanges
  <2>1. /\ pc \in InstallPcs /\ pc' \in {"source", "plan", "install", "writeNotReady"}
        /\ UNCHANGED <<object, viewCurrent, verified>>
    BY <1>3 DEF GetRelease, ResolveChartRef, SourceNotReady, PlanChanges, Goto, InstallPcs
  <2>2. Quiet
    <3>1. CASE GetRelease
      BY <1>0, <3>1 DEF GetRelease
    <3>2. CASE ResolveChartRef
      BY <1>0, <3>2 DEF ResolveChartRef, Attempted, Release, Status, Keeps
    <3>3. CASE SourceNotReady
      BY <1>0, <3>3, ProjectLemma DEF SourceNotReady
    <3>4. CASE PlanChanges
      BY <1>0, <3>4, NewAttemptLemma DEF PlanChanges
    <3>5. QED
      BY <1>3, <3>1, <3>2, <3>3, <3>4
  <2>3. PendingStatus'
    BY <2>1, <2>2 DEF ReadyInv, PendingStatus, InstallPcs, DeletePcs, object
  <2>4. pc # "idle"
    BY <2>1 DEF InstallPcs
  <2>5. QED
    BY <1>0, <2>1, <2>2, <2>3, <2>4, ReadyLocal
<1>4. CASE PlanUpToDate
  <2>1. /\ pc = "plan" /\ verified' = <<view.want, view.ns>> /\ UNCHANGED <<object, viewCurrent>>
    BY <1>4 DEF PlanUpToDate
  <2>2. CASE view' = NewAttempt(view) /\ pc' = "stamp"
    <3>1. Quiet
      BY <1>0, <2>2, NewAttemptLemma
    <3>2. PendingStatus'
      BY <2>1, <2>2, <3>1 DEF ReadyInv, PendingStatus, InstallPcs, DeletePcs, Keeps, object
    <3>3. QED
      BY <1>0, <2>1, <3>1, <3>2, ReadyLocal
  <2>3. CASE view' = HandleSuccess(Project(NewAttempt(view), preRel)) /\ pc' = "writeSuccess"
    <3>1. NewAttempt(view) \in Release /\ Keeps(NewAttempt(view), view)
      BY <1>0, NewAttemptLemma
    <3>2. Keeps(view', NewAttempt(view)) /\ view'.st.obs = NewAttempt(view).gen
      BY <1>0, <2>3, <3>1, ProjectedSuccess
    <3>3. Keeps(view', view) /\ view'.st.obs = view.gen
      BY <3>1, <3>2, KeepsTransitive DEF Keeps
    <3>4. PendingStatus'
      BY <2>1, <2>3, <3>3 DEF PendingStatus, InstallPcs, DeletePcs, Keeps
    <3>5. QED
      BY <1>0, <2>1, <3>3, <3>4, ReadyLocal
  <2>4. QED
    BY <1>4, <2>2, <2>3 DEF PlanUpToDate, Goto
<1>5. CASE StampOwnershipMarker
  <2>1. /\ pc = "stamp" /\ pc' = "writeSuccess" /\ view' = HandleSuccess(Project(view, preRel))
        /\ UNCHANGED <<object, viewCurrent, verified>>
    BY <1>5 DEF StampOwnershipMarker, Goto
  <2>2. Keeps(view', view) /\ view'.st.obs = view.gen
    BY <1>0, <2>1, ProjectedSuccess
  <2>3. PendingStatus'
    BY <2>1, <2>2 DEF ReadyInv, PendingStatus, InstallPcs, DeletePcs, Keeps
  <2>4. QED
    BY <1>0, <2>1, <2>2, <2>3, ReadyLocal
<1>6. CASE Install \/ InstallFails
  <2>1. /\ pc = "install" /\ UNCHANGED <<object, viewCurrent>>
        /\ \/ pc' = "projectSuccess" /\ verified' = <<view.want, view.ns>>
           \/ pc' = "projectFailure" /\ verified' = verified
    BY <1>6 DEF Install, InstallFails, Goto
  <2>2. Quiet
    BY <1>0, <1>6, ActedLemma DEF Install, InstallFails
  <2>3. PendingStatus'
    BY <2>1, <2>2 DEF PendingStatus, InstallPcs, DeletePcs, Keeps
  <2>4. QED
    BY <1>0, <2>1, <2>2, <2>3, ReadyLocal
<1>7. CASE ProjectSuccess
  <2>1. pc = "projectSuccess" /\ pc' = "writeSuccess" /\ UNCHANGED <<object, viewCurrent, verified>>
    BY <1>7 DEF ProjectSuccess, Goto
  <2>2. Keeps(view', view) /\ view'.st.obs = view.gen
    BY <1>0, <1>7, ProjectedSuccess, HandleSuccessLemma DEF ProjectSuccess
  <2>3. PendingStatus'
    BY <2>1, <2>2 DEF ReadyInv, PendingStatus, InstallPcs, DeletePcs, Keeps
  <2>4. QED
    BY <1>0, <2>1, <2>2, <2>3, ReadyLocal
<1>8. CASE ProjectFailure
  <2>1. /\ pc = "projectFailure" /\ pc' \in {"rollback", "writeFailure"}
        /\ UNCHANGED <<object, viewCurrent, verified>>
    BY <1>8 DEF ProjectFailure, Goto
  <2>2. Keeps(view', view) /\ view'.st.obs = view.gen /\ view'.st.ready = FALSE
    <3>1. CASE view' = HandleFailure(Project(view, storage[view.ns]))
      BY <1>0, <3>1, ProjectedFailure
    <3>2. CASE view' = HandleFailure(view)
      BY <1>0, <3>2, HandleFailureLemma
    <3>3. QED
      BY <1>8, <3>1, <3>2 DEF ProjectFailure
  <2>3. PendingStatus'
    BY <2>1, <2>2 DEF PendingStatus, InstallPcs, DeletePcs
  <2>4. QED
    BY <1>0, <2>1, <2>2, <2>3, ReadyLocal
<1>9. CASE Rollback \/ ProjectRollback
  <2>1. /\ pc \in {"rollback", "projectRollback"} /\ pc' \in {"projectRollback", "writeFailure"}
        /\ UNCHANGED <<object, viewCurrent, verified>>
    BY <1>9 DEF Rollback, ProjectRollback, Goto
  <2>2. Quiet
    <3>1. CASE Rollback
      BY <1>0, <3>1, ActedLemma DEF Rollback
    <3>2. CASE ProjectRollback
      BY <1>0, <3>2, ProjectLemma DEF ProjectRollback, Refetched
    <3>3. QED
      BY <1>9, <3>1, <3>2
  <2>3. PendingStatus'
    BY <2>1, <2>2 DEF ReadyInv, PendingStatus, InstallPcs, DeletePcs
  <2>4. QED
    BY <1>0, <2>1, <2>2, <2>3, ReadyLocal
<1>10. CASE WriteNotReady \/ WriteSuccess \/ WriteFailure
  <2>1. pc \in WritePcs /\ UNCHANGED verified /\ (Return(TRUE) \/ Return(FALSE))
    BY <1>10 DEF WriteNotReady, WriteSuccess, WriteFailure, WritePcs
  <2>2. CASE StatusUpdated
    BY <2>1, <2>2, ReadyWriteReturn
  <2>3. CASE StatusRejected
    BY <2>1, <2>3, ReadyReturn DEF StatusRejected
  <2>4. QED
    BY <1>10, <2>2, <2>3 DEF WriteNotReady, WriteSuccess, WriteFailure
<1>11. CASE WriteUninstalling \/ WriteUninstalled
  <2>1. CASE StatusRejected /\ ReturnError
    BY <1>11, <2>1, ReadyReturn DEF WriteUninstalling, WriteUninstalled, StatusRejected, ReturnError
  <2>2. CASE ~(StatusRejected /\ ReturnError)
    BY <1>11, <2>2, ReadyDeleteWrite DEF WriteUninstalling, WriteUninstalled, Goto, DeletePcs
  <2>3. QED
    BY <2>1, <2>2
<1>12. CASE Uninstall
  <2>1. CASE ReturnError
    BY <1>12, <2>1, ReadyReturn DEF Uninstall, ReturnError
  <2>2. CASE ~ReturnError
    <3>1. /\ view' = Acted(view, "uninstall") /\ pc = "uninstall" /\ pc' = "writeUninstalled"
          /\ UNCHANGED <<object, viewCurrent, verified>>
      BY <1>12, <2>2 DEF Uninstall, Goto
    <3>2. Quiet
      BY <1>0, <3>1, ActedLemma
    <3>3. PendingStatus'
      BY <3>1, <3>2 DEF ReadyInv, PendingStatus, InstallPcs, DeletePcs, Keeps
    <3>4. QED
      BY <1>0, <3>1, <3>2, <3>3, ReadyLocal
  <2>3. QED
    BY <2>1, <2>2
<1>13. CASE RemoveFinalizer
  <2>1. CASE UNCHANGED object
    BY <1>13, <2>1, ReadyReturn DEF RemoveFinalizer, ReturnError
  <2>2. CASE ~ UNCHANGED object
    <3>0. Return(FALSE) /\ cacheCurrent' = FALSE /\ cache' = cache /\ verified' = verified
      BY <1>13, <2>2 DEF RemoveFinalizer
    <3>1. pc' = "idle" /\ viewCurrent' = FALSE /\ view'.st.obs = 0 /\ view'.gen = 0
      BY <3>0 DEF Return, Gone, EmptyStatus
    <3>2. rel' = Gone(rel.gen) \/ rel' = [rel EXCEPT !.fin = FALSE]
      BY <1>13, <2>2 DEF RemoveFinalizer
    <3>3. rel.gen \in Nat /\ rel \in Release
      BY DEF TypeOK, Release
    <3>4. CASE rel' = Gone(rel.gen)
      <4>1. rel'.phase = "none" /\ rel'.st = EmptyStatus /\ rel'.gen = rel.gen
        BY <3>4 DEF Gone
      <4>2. rel'.st.obs = 0
        BY <4>1, EmptyLemma
      <4>3. Observed' /\ ReadyCopies'
        BY <3>0, <3>1, <3>3, <4>1, <4>2 DEF ReadyInv, Observed, ReadyCopies, CurrentReady
      <4>4. QED
        BY <3>1, <4>3 DEF ReadyInv, PendingStatus, DeletePcs, InstallPcs
    <3>5. CASE rel' = [rel EXCEPT !.fin = FALSE]
      <4>1. /\ rel'.phase = rel.phase /\ rel'.gen = rel.gen /\ rel'.st = rel.st
            /\ rel'.want = rel.want /\ rel'.ns = rel.ns
        BY <3>3, <3>5 DEF Release
      <4>2. Observed' /\ ReadyCopies'
        BY <3>0, <3>1, <4>1 DEF ReadyInv, Observed, ReadyCopies, CurrentReady, SameWant
      <4>3. QED
        BY <3>1, <4>2 DEF ReadyInv, PendingStatus, DeletePcs, InstallPcs
    <3>6. QED
      BY <3>2, <3>4, <3>5
  <2>3. QED
    BY <2>1, <2>2
<1>14. QED
  BY <1>1, <1>2, <1>3, <1>4, <1>5, <1>6, <1>7, <1>8, <1>9, <1>10, <1>11, <1>12, <1>13
  DEF WorkerStep
\* Steps that leave the objects, the worker and the history alone.
LEMMA ReadyStutter ==
  ASSUME ReadyInv, UNCHANGED <<object, pc, view, viewCurrent, verified>>
  PROVE  ReadyInv'
<1>1. UNCHANGED <<rel, cache, cacheCurrent, pc, view, viewCurrent, verified>>
  BY DEF object
<1>2. QED
  BY <1>1 DEF ReadyInv, Observed, ReadyCopies, PendingStatus, CurrentReady, SameSpec, SameWant

\* The start of a reconcile: the worker's copy is the informer's.
LEMMA ReadyReconcile ==
  ASSUME TypeOK, ReadyInv, Reconcile
  PROVE  ReadyInv'
<1>0. cache \in Release /\ cache.gen \in Nat
  BY DEF TypeOK, Release
<1>1. CASE ReconcileSkip
  BY <1>1, ReadyStutter DEF ReconcileSkip, worker
<1>2. CASE ReconcileNew \/ ReconcileLive
  <2>1. /\ UNCHANGED <<rel, cache, cacheCurrent, verified>> /\ viewCurrent' = cacheCurrent
        /\ view' = cache /\ pc' \in {"finalizer", "get"}
    BY <1>2 DEF ReconcileNew, ReconcileLive, Begin, object
  <2>2. Observed' /\ ReadyCopies'
    BY <2>1 DEF ReadyInv, Observed, ReadyCopies, CurrentReady, SameSpec, SameWant
  <2>3. PendingStatus'
    BY <2>1 DEF ReadyInv, Observed, PendingStatus, InstallPcs, DeletePcs
  <2>4. QED
    BY <2>2, <2>3 DEF ReadyInv
<1>3. CASE ReconcileDeleted
  <2>1. /\ UNCHANGED <<rel, cache, cacheCurrent, verified>> /\ viewCurrent' = cacheCurrent
        /\ pc' = "writeUninstalling" /\ cache.phase = "deleting"
    BY <1>3 DEF ReconcileDeleted, Begin, object
  <2>2. Keeps(view', cache) /\ view'.st.obs = cache.gen
    BY <1>0, <1>3 DEF ReconcileDeleted, Begin, Keeps, Release, Status
  <2>3. Observed'
    BY <1>0, <2>1, <2>2 DEF ReadyInv, Observed, SameSpec, Keeps
  <2>4. ReadyCopies'
    BY <2>1, <2>2 DEF ReadyInv, ReadyCopies, CurrentReady, SameWant, Keeps
  <2>5. PendingStatus'
    BY <2>1, <2>2 DEF PendingStatus, InstallPcs, Keeps
  <2>6. QED
    BY <2>3, <2>4, <2>5 DEF ReadyInv
<1>4. QED
  BY <1>1, <1>2, <1>3 DEF Reconcile

\* A user's write is a new generation, which no status has observed yet.
LEMMA ReadyUser ==
  ASSUME TypeOK, ReadyInv, User
  PROVE  ReadyInv'
<1>0. /\ rel \in Release /\ rel.gen \in Nat /\ rel.gen + 1 \in Nat /\ rel.st.obs \in Nat
      /\ rel.st.obs <= rel.gen
  <2>1. rel \in Release /\ rel.st.obs \in Nat /\ rel.gen \in Nat
    BY DEF TypeOK, Release, Status
  <2>2. rel.st.obs <= rel.gen
    BY DEF ReadyInv, Observed
  <2>3. QED
    BY <2>1, <2>2
<1>1. /\ UNCHANGED <<cache, pc, view, verified>> /\ cacheCurrent' = FALSE /\ viewCurrent' = FALSE
  BY DEF User, EditValues, EditTargetNamespace, ToggleSuspend, DeleteRelease, CreateRelease, Written
<1>2. rel'.st.obs <= rel'.gen /\ ~CurrentReady'
  <2>1. CASE EditValues \/ EditTargetNamespace \/ ToggleSuspend
    <3>1. rel'.st = rel.st /\ rel'.gen = rel.gen + 1
      BY <1>0, <2>1 DEF EditValues, EditTargetNamespace, ToggleSuspend, Release
    <3>2. QED
      BY <1>0, <3>1 DEF CurrentReady
  <2>2. CASE DeleteRelease /\ rel.fin
    <3>1. rel'.st = rel.st /\ rel'.gen = rel.gen + 1 /\ rel'.phase = "deleting"
      BY <1>0, <2>2 DEF DeleteRelease, Release
    <3>2. QED
      BY <1>0, <3>1 DEF CurrentReady
  <2>3. CASE DeleteRelease /\ ~rel.fin
    <3>1. rel'.st = EmptyStatus /\ rel'.gen = rel.gen /\ rel'.phase = "none"
      BY <2>3 DEF DeleteRelease, Gone
    <3>2. QED
      BY <1>0, <3>1, EmptyLemma DEF CurrentReady
  <2>4. CASE CreateRelease
    <3>1. PICK w \in Wants, n \in Namespaces : rel' = Fresh(rel.gen + 1, w, n)
      BY <2>4 DEF CreateRelease
    <3>2. rel'.st = EmptyStatus /\ rel'.gen = rel.gen + 1
      BY <3>1 DEF Fresh, Gone
    <3>3. QED
      BY <1>0, <3>2, EmptyLemma DEF CurrentReady
  <2>5. QED
    BY <2>1, <2>2, <2>3, <2>4 DEF User
<1>3. Observed' /\ ReadyCopies'
  BY <1>1, <1>2 DEF ReadyInv, Observed, ReadyCopies
<1>4. PendingStatus'
  BY <1>1 DEF ReadyInv, PendingStatus
<1>5. QED
  BY <1>3, <1>4 DEF ReadyInv

\* A restart, or the informer catching up: the copy is the object itself.
LEMMA ReadySync ==
  ASSUME TypeOK, ReadyInv, CacheSync \/ Crash
  PROVE  ReadyInv'
<1>1. UNCHANGED <<rel, verified>> /\ cache' = rel
  BY DEF CacheSync, Crash
<1>2. CASE CacheSync
  <2>1. UNCHANGED <<pc, view, viewCurrent>>
    BY <1>2 DEF CacheSync, worker
  <2>2. QED
    BY <1>1, <2>1
    DEF ReadyInv, Observed, ReadyCopies, PendingStatus, CurrentReady, SameSpec, SameWant
<1>3. CASE Crash
  <2>1. pc' = "idle" /\ viewCurrent' = FALSE /\ view'.st.obs = 0 /\ view'.gen = 0
    BY <1>3 DEF Crash, Gone, EmptyStatus
  <2>2. Observed' /\ ReadyCopies'
    BY <1>1, <2>1 DEF ReadyInv, Observed, ReadyCopies, CurrentReady, SameWant
  <2>3. PendingStatus'
    BY <2>1 DEF PendingStatus, DeletePcs, InstallPcs
  <2>4. QED
    BY <2>2, <2>3 DEF ReadyInv
<1>4. QED
  BY <1>2, <1>3

(***************************************************************************)
(* The readiness invariant, with every disturbance: the status that a      *)
(* worker is about to write fits the spec of its copy, and a copy that is  *)
(* current is the object (r.Status().Update).                              *)
(***************************************************************************)
THEOREM ReadyInvariant == Spec => []ReadyInv
<1>1. TypeOK /\ ReadyInv /\ [Next]_vars => ReadyInv'
  <2> SUFFICES ASSUME TypeOK, ReadyInv, [Next]_vars PROVE ReadyInv'
    OBVIOUS
  <2>1. CASE WorkerStep
    BY <2>1, ReadyWorker
  <2>2. CASE Reconcile \/ User \/ CacheSync \/ Crash
    BY <2>2, ReadyReconcile, ReadyUser, ReadySync
  <2>3. CASE ChartEvent \/ TimerFire \/ Cluster \/ UNCHANGED vars
    <3>1. UNCHANGED <<object, pc, view, viewCurrent, verified>>
      BY <2>3 DEF ChartEvent, TimerFire, Cluster, ForeignDeploy, ForeignUninstall, Drift, Publish,
                  SourceFails, SourceRecovers, ChartBecomes, vars, worker
    <3>2. QED
      BY <3>1, ReadyStutter
  <2>4. QED
    BY <2>1, <2>2, <2>3 DEF Next
<1>2. QED
  BY <1>1, ReadyInit, TypeCorrect, PTL DEF Spec

(***************************************************************************)
(* Ready tells the truth: whatever the worker's cache showed and whenever  *)
(* its status write arrives, a Ready condition at the current generation   *)
(* means that nelm last confirmed or installed exactly the current spec    *)
(* (handleSuccess and the optimistic lock of r.Status().Update).  It holds *)
(* for every disturbance, changes of spec.targetNamespace included.        *)
(***************************************************************************)
THEOREM ReadyIsTruthful == Spec => []ReadyTruthful
<1>1. ReadyInv => ReadyTruthful
  BY DEF ReadyInv, ReadyCopies, CurrentReady, ReadyTruthful
<1>2. QED
  BY <1>1, ReadyInvariant, PTL

-----------------------------------------------------------------------------
(***************************************************************************)
(* Deletion.  Past its first status write reconcileDelete works for an     *)
(* object that is being deleted: the write was accepted, so the copy was   *)
(* the object, and nothing but the worker itself ends a deletion.          *)
(***************************************************************************)
LeavingDeleted == pc \in Leaving => rel.phase = "deleting"

\* A worker that goes on deleting does so for the object it began with.
LEMMA LeavingWorker ==
  ASSUME TypeOK, ReadyInv, LeavingDeleted, WorkerStep
  PROVE  LeavingDeleted'
<1>0. rel \in Release
  BY DEF TypeOK
<1>1. CASE WriteUninstalling
  <2>1. pc' \in Leaving => StatusUpdated
    BY <1>1 DEF WriteUninstalling, ReturnError, Return, Leaving
  <2>2. view.phase = "deleting"
    BY <1>1 DEF WriteUninstalling, ReadyInv, PendingStatus, DeletePcs
  <2>3. StatusUpdated => rel.phase = view.phase /\ rel'.phase = rel.phase
    BY <1>0 DEF StatusUpdated, ReadyInv, Observed, SameSpec, Release
  <2>4. QED
    BY <2>1, <2>2, <2>3 DEF LeavingDeleted
<1>2. CASE Uninstall
  BY <1>2 DEF Uninstall, LeavingDeleted, Leaving, object
<1>3. CASE WriteUninstalled
  <2>1. pc' \in Leaving => StatusUpdated /\ rel.phase = "deleting"
    BY <1>3 DEF WriteUninstalled, ReturnError, Return, LeavingDeleted, Leaving
  <2>2. StatusUpdated => rel'.phase = rel.phase
    BY <1>0 DEF StatusUpdated, Release
  <2>3. QED
    BY <2>1, <2>2 DEF LeavingDeleted
<1>4. CASE RemoveFinalizer \/ AddFinalizer \/ WriteNotReady \/ WriteSuccess \/ WriteFailure
  <2>1. pc' = "idle"
    BY <1>4 DEF RemoveFinalizer, AddFinalizer, WriteNotReady, WriteSuccess, WriteFailure,
                ReturnError, Return
  <2>2. QED
    BY <2>1 DEF LeavingDeleted, Leaving
<1>5. CASE \/ GetRelease \/ GetReleaseFails \/ ResolveChartRef \/ SourceNotReady
           \/ ResolveChartRefFails \/ PlanUpToDate \/ PlanChanges \/ PlanFails
           \/ StampOwnershipMarker \/ StampFails \/ Install \/ InstallFails
           \/ ProjectSuccess \/ ProjectFailure \/ Rollback \/ ProjectRollback
  <2>1. pc' \notin Leaving
    BY <1>5 DEF GetRelease, GetReleaseFails, ResolveChartRef, SourceNotReady, ResolveChartRefFails,
                PlanUpToDate, PlanChanges, PlanFails, StampOwnershipMarker, StampFails, Install,
                InstallFails, ProjectSuccess, ProjectFailure, Rollback, ProjectRollback,
                FailBefore, Goto, Leaving
  <2>2. QED
    BY <2>1 DEF LeavingDeleted
<1>6. QED
  BY <1>1, <1>2, <1>3, <1>4, <1>5 DEF WorkerStep

\* Nobody else ends a deletion, and a restart begins anew.
LEMMA LeavingOthers ==
  ASSUME TypeOK, LeavingDeleted, [Next]_vars, ~WorkerStep
  PROVE  LeavingDeleted'
<1>0. rel \in Release
  BY DEF TypeOK
<1>1. CASE ReconcileNew \/ ReconcileLive \/ ReconcileDeleted \/ Crash
  <2>1. pc' \notin Leaving
    BY <1>1 DEF ReconcileNew, ReconcileLive, ReconcileDeleted, Crash, Begin, Leaving
  <2>2. QED
    BY <2>1 DEF LeavingDeleted
<1>2. CASE ReconcileSkip \/ CacheSync \/ ChartEvent \/ TimerFire \/ Cluster \/ UNCHANGED vars
  BY <1>2 DEF ReconcileSkip, CacheSync, ChartEvent, TimerFire, Cluster, ForeignDeploy,
              ForeignUninstall, Drift, Publish, SourceFails, SourceRecovers, ChartBecomes,
              LeavingDeleted, vars, object, worker
<1>3. CASE User
  <2>1. pc' = pc
    BY <1>3 DEF User, EditValues, EditTargetNamespace, ToggleSuspend, DeleteRelease,
                CreateRelease, Written
  <2>2. rel.phase = "deleting" => rel'.phase = "deleting"
    BY <1>0, <1>3 DEF User, EditValues, EditTargetNamespace, ToggleSuspend, DeleteRelease,
                      CreateRelease, Release
  <2>3. QED
    BY <2>1, <2>2 DEF LeavingDeleted
<1>4. QED
  BY <1>1, <1>2, <1>3 DEF Next, Reconcile

(***************************************************************************)
(* reconcileDelete uninstalls only for a Release that is being deleted at  *)
(* that moment, although it acts on a cached copy: its first status write  *)
(* fails unless the copy is the object.  It holds for every disturbance,   *)
(* changes of spec.targetNamespace included.                               *)
(***************************************************************************)
THEOREM UninstallsOnlyDeleted == Spec => UninstallOnlyDeleted
<1>1. Init => LeavingDeleted
  BY DEF Init, LeavingDeleted, Leaving
<1>2. TypeOK /\ ReadyInv /\ LeavingDeleted /\ [Next]_vars => LeavingDeleted'
  BY LeavingWorker, LeavingOthers
<1>3. LeavingDeleted /\ [Next]_vars
        => [pc = "uninstall" /\ storage' # storage /\ pc' = "writeUninstalled"
              => rel.phase = "deleting"]_vars
  BY DEF LeavingDeleted, Leaving
<1>4. QED
  BY <1>1, <1>2, <1>3, TypeCorrect, ReadyInvariant, PTL DEF Spec, UninstallOnlyDeleted
=============================================================================
