-------------------------- MODULE ChartSourceProofs --------------------------
(***************************************************************************)
(* Machine-checked proofs about ChartSource, for any number of Releases    *)
(* and sources: its type invariant, that no source is deleted while a      *)
(* Release is on its list (DeletedOnlyUnlisted), that it implements        *)
(* SharedSources, and that a Release that is Ready on a source has it      *)
(* (AppliedSourceLive).                                                    *)
(***************************************************************************)
EXTENDS ChartSource, TLAPS

Ensuring == {"ensureGet", "ensureCreate", "ensureUpdate"}

Cleaning == {"cleanGet", "cleanUpdate", "cleanDelete"}

(***************************************************************************)
(* ensureChartSourceRef and cleanupChartSourceRef are never called on a    *)
(* nil reference, nor ensureHelmChart without spec.chart.                  *)
(***************************************************************************)
Targets ==
  \A r \in Releases :
    /\ pc[r] \in Ensuring \cup Cleaning => target[r] \in Sources
    /\ pc[r] = "helmApply" => view[r].spec \in Sources

TypeInv == TypeOK /\ Targets

(***************************************************************************)
(* Optimistic locking.  A worker whose copy of the source is current read  *)
(* the names the source has now; one about to delete it knows that it      *)
(* lists nobody.                                                           *)
(***************************************************************************)
Locked(r) ==
  /\ pc[r] \in {"ensureUpdate", "cleanUpdate"} =>
       src[target[r]].state # "absent" /\ refs[r] = src[target[r]].refs
  /\ pc[r] = "cleanDelete" => src[target[r]].refs = {Blank}

LockInv == \A r \in fresh : Locked(r)

(***************************************************************************)
(* The types of what a worker keeps, without fresh and the queue.          *)
(***************************************************************************)
WorkerOK ==
  /\ view \in [Releases -> Release] /\ pc \in [Releases -> Pcs]
  /\ then \in [Releases -> Thens] /\ target \in [Releases -> Ref]
  /\ refs \in [Releases -> SUBSET Names] /\ tries \in [Releases -> 0 .. RetrySteps]
  /\ Targets

-----------------------------------------------------------------------------
(***************************************************************************)
(* Type correctness.                                                       *)
(***************************************************************************)
\* The values the actions write are releases and sources.
LEMMA RecordTypes ==
  /\ NoRelease \in Release /\ NoSource \in Source
  /\ \A v \in Release, p \in {"", "Pending", "Disconnecting", "Ready"}, l, c \in Ref :
       /\ [v EXCEPT !.phase = p] \in Release /\ [v EXCEPT !.cand = c] \in Release
       /\ [v EXCEPT !.phase = p, !.cand = c] \in Release
       /\ [v EXCEPT !.last = l, !.phase = p] \in Release
       /\ [v EXCEPT !.last = l, !.cand = c, !.phase = p] \in Release
<1>1. NoRelease \in Release
  BY DEF NoRelease, Release, Ref
<1>2. NoSource \in Source
  BY DEF NoSource, Source
<1>3. ASSUME NEW v \in Release, NEW p \in {"", "Pending", "Disconnecting", "Ready"},
             NEW l \in Ref, NEW c \in Ref
      PROVE  /\ [v EXCEPT !.phase = p] \in Release /\ [v EXCEPT !.cand = c] \in Release
             /\ [v EXCEPT !.phase = p, !.cand = c] \in Release
             /\ [v EXCEPT !.last = l, !.phase = p] \in Release
             /\ [v EXCEPT !.last = l, !.cand = c, !.phase = p] \in Release
  <2>1. \A w \in Release : [w EXCEPT !.phase = p] \in Release
    BY DEF Release
  <2>2. \A w \in Release : [w EXCEPT !.cand = c] \in Release
    BY DEF Release
  <2>3. \A w \in Release : [w EXCEPT !.last = l] \in Release
    BY DEF Release
  <2> QED
    BY <2>1, <2>2, <2>3
<1>4. QED
  BY <1>1, <1>2, <1>3

\* The specification starts well typed.
LEMMA TypeInit == Init => TypeInv
<1> SUFFICES ASSUME Init PROVE TypeInv
  OBVIOUS
<1>1. \A s \in Specs : [NoRelease EXCEPT !.state = "live", !.spec = s] \in Release
  BY SpecsAssumption DEF NoRelease, Release, Ref
<1>2. obj \in [Releases -> Release] /\ cache \in [Releases -> Release]
  <2> DEFINE S == {[NoRelease EXCEPT !.state = "live", !.spec = s] : s \in Specs}
  <2>1. S \subseteq Release
    BY <1>1
  <2>2. obj \in [Releases -> S] /\ cache = obj
    BY DEF Init
  <2> HIDE DEF S
  <2> QED
    BY <2>1, <2>2
<1>3. view \in [Releases -> Release] /\ src \in [Sources -> Source]
  BY RecordTypes DEF Init
<1>4. /\ pc \in [Releases -> Pcs] /\ then \in [Releases -> Thens]
      /\ target \in [Releases -> Ref] /\ helmChart \in [Releases -> Ref]
      /\ refs \in [Releases -> SUBSET Names] /\ tries \in [Releases -> 0 .. RetrySteps]
  <2>1. "idle" \in Pcs /\ "none" \in Thens /\ None \in Ref /\ 0 \in 0 .. RetrySteps
    BY StepsAssumption DEF Pcs, Thens, Ref
  <2> QED
    BY <2>1 DEF Init
<1>5. Targets
  BY DEF Init, Targets, Ensuring, Cleaning
<1>6. QED
  BY <1>2, <1>3, <1>4, <1>5, StepsAssumption DEF Init, TypeInv, TypeOK

\* A return leaves the worker's variables well typed.
LEMMA TypeReturn ==
  ASSUME TypeInv, NEW r \in Releases, NEW q \in BOOLEAN, Return(r, q)
  PROVE  /\ WorkerOK' /\ queued' \subseteq Releases
         /\ viewCurrent' \subseteq Releases /\ fresh' \subseteq Releases
<1>1. view' \in [Releases -> Release]
  BY RecordTypes DEF Return, TypeInv, TypeOK
<1>2. pc' \in [Releases -> Pcs] /\ target' \in [Releases -> Ref]
  BY DEF Return, Goto, TypeInv, TypeOK, Ref, Pcs
<1>3. then' \in [Releases -> Thens] /\ tries' \in [Releases -> 0 .. RetrySteps]
  BY StepsAssumption DEF Return, TypeInv, TypeOK, Thens
<1>4. refs' \in [Releases -> SUBSET Names]
  BY DEF Return, TypeInv, TypeOK
<1>5. Targets'
  BY DEF Return, Goto, TypeInv, TypeOK, Targets, Ensuring, Cleaning
<1>6. queued' \subseteq Releases /\ viewCurrent' \subseteq Releases /\ fresh' \subseteq Releases
  BY DEF Return, TypeInv, TypeOK
<1>7. QED
  BY <1>1, <1>2, <1>3, <1>4, <1>5, <1>6 DEF WorkerOK

\* So does going on with a release, on a source where one is needed.
LEMMA TypeContinue ==
  ASSUME TypeInv, NEW r \in Releases, NEW label \in Pcs, NEW v \in Release, NEW s \in Ref,
         NEW k \in Thens, Continue(r, label, v, s, k),
         label \in Ensuring \cup Cleaning => s \in Sources,
         label = "helmApply" => v.spec \in Sources
  PROVE  WorkerOK'
<1>1. /\ view' \in [Releases -> Release] /\ pc' \in [Releases -> Pcs]
      /\ target' \in [Releases -> Ref] /\ then' \in [Releases -> Thens]
  BY DEF Continue, Goto, TypeInv, TypeOK
<1>2. refs' \in [Releases -> SUBSET Names] /\ tries' \in [Releases -> 0 .. RetrySteps]
  BY StepsAssumption DEF Continue, TypeInv, TypeOK
<1>3. Targets'
  BY DEF Continue, Goto, TypeInv, TypeOK, Targets
<1>4. QED
  BY <1>1, <1>2, <1>3 DEF WorkerOK

\* And the two ways an error goes.
LEMMA TypeFails ==
  ASSUME TypeInv, NEW r \in Releases, Fails(r)
  PROVE  /\ WorkerOK' /\ queued' \subseteq Releases
         /\ viewCurrent' \subseteq Releases /\ fresh' \subseteq Releases
<1>1. CASE view[r].state = "deleting"
  BY <1>1, TypeReturn DEF Fails
<1>2. CASE view[r].state # "deleting"
  <2>1. /\ Continue(r, "fail", view[r], None, "none") /\ UNCHANGED <<queued, viewCurrent>>
        /\ fresh' = fresh \ {r}
    BY <1>2 DEF Fails
  <2>2. view[r] \in Release /\ None \in Ref /\ "none" \in Thens /\ "fail" \in Pcs
        /\ "fail" \notin Ensuring \cup Cleaning
    BY DEF TypeInv, TypeOK, Ref, Thens, Pcs, Ensuring, Cleaning
  <2>3. WorkerOK'
    BY <2>1, <2>2, TypeContinue
  <2> QED
    BY <2>1, <2>3 DEF TypeInv, TypeOK
<1>3. QED
  BY <1>1, <1>2

\* And what follows a cleanup.
LEMMA TypeAfterCleanup ==
  ASSUME TypeInv, NEW r \in Releases, AfterCleanup(r)
  PROVE  WorkerOK'
<1> USE DEF Ref, Thens, Pcs, Ensuring, Cleaning
<1>1. view[r] \in Release /\ view[r].cand \in Ref /\ None \in Ref
  BY DEF TypeInv, TypeOK, Release
<1>2. CASE then[r] = "leaveLast" /\ view[r].cand # None
  <2>1. Continue(r, "cleanGet", view[r], view[r].cand, "leaveCand")
    BY <1>2 DEF AfterCleanup
  <2> QED
    BY <2>1, <1>1, <1>2, TypeContinue
<1>3. CASE (then[r] = "leaveLast" /\ view[r].cand = None) \/ then[r] = "leaveCand"
  <2> DEFINE v == [view[r] EXCEPT !.last = None, !.cand = None, !.phase = ""]
  <2>1. v \in Release
    BY <1>1, RecordTypes
  <2>2. Continue(r, "write", v, None, "helmDelete")
    BY <1>3 DEF AfterCleanup
  <2> HIDE DEF v
  <2> QED
    BY <1>1, <2>1, <2>2, TypeContinue
<1>4. CASE then[r] = "disconnect"
  <2> DEFINE v == [view[r] EXCEPT !.last = view[r].cand, !.phase = "Ready"]
  <2>1. v \in Release
    BY <1>1, RecordTypes
  <2>2. Continue(r, "write", v, None, "requeue")
    BY <1>4 DEF AfterCleanup
  <2> HIDE DEF v
  <2> QED
    BY <1>1, <2>1, <2>2, TypeContinue
<1>5. CASE then[r] \notin {"leaveLast", "leaveCand", "disconnect"}
  <2>1. Continue(r, "unfinalize", view[r], None, "none")
    BY <1>5 DEF AfterCleanup
  <2> QED
    BY <1>1, <2>1, TypeContinue
<1>6. QED
  BY <1>2, <1>3, <1>4, <1>5

\* TypeInv, by who changes what.
LEMMA TypeParts ==
  ASSUME obj' \in [Releases -> Release], cache' \in [Releases -> Release],
         cacheCurrent' \subseteq Releases, bumped' \subseteq Releases \ cacheCurrent',
         src' \in [Sources -> Source], helmChart' \in [Releases -> Ref],
         queued' \subseteq Releases, viewCurrent' \subseteq Releases, fresh' \subseteq Releases,
         WorkerOK', budget' \in Nat
  PROVE  TypeInv'
  BY DEF TypeInv, TypeOK, WorkerOK

\* Reconcile's first step.
LEMMA TypeReconcile ==
  ASSUME TypeInv, NEW r \in Releases, Reconcile(r)
  PROVE  TypeInv'
<1> USE DEF Ref, Thens, Pcs, Ensuring, Cleaning
<1>1. cache[r] \in Release /\ cache[r].last \in Ref /\ cache[r].cand \in Ref /\ None \in Ref
  BY DEF TypeInv, TypeOK, Release
<1>2. ASSUME NEW label \in Pcs, NEW v \in Release, NEW s \in Ref, NEW k \in Thens,
             Begin(r, label, v, s, k),
             label \in Ensuring \cup Cleaning => s \in Sources,
             label = "helmApply" => v.spec \in Sources
      PROVE  TypeInv'
  <2>1. WorkerOK'
    BY <1>2, TypeContinue DEF Begin
  <2>2. queued' \subseteq Releases /\ viewCurrent' \subseteq Releases /\ fresh' \subseteq Releases
    BY <1>2 DEF Begin, TypeInv, TypeOK
  <2> QED
    BY <1>2, <2>1, <2>2, TypeParts DEF Begin, objects, TypeInv, TypeOK
<1>3. CASE NothingToResolve(r)
  BY <1>3 DEF NothingToResolve, objects, local, TypeInv, TypeOK, Targets
<1>4. CASE LeaveSpecChart(r)
  BY <1>1, <1>2, <1>4 DEF LeaveSpecChart
<1>5. CASE MarkPending(r)
  <2> DEFINE v == [cache[r] EXCEPT !.phase = "Pending", !.cand = cache[r].spec]
  <2>1. cache[r].spec \in Sources /\ Begin(r, "write", v, None, "requeue")
    BY <1>5 DEF MarkPending, Live
  <2>2. v \in Release
    BY <1>1, <2>1, RecordTypes
  <2> HIDE DEF v
  <2> QED
    BY <1>1, <1>2, <2>1, <2>2
<1>6. CASE ReplaceCandidate(r)
  <2> DEFINE v == [cache[r] EXCEPT !.cand = cache[r].spec]
  <2>1. cache[r].spec \in Sources /\ Begin(r, "write", v, None, "requeue")
    BY <1>6 DEF ReplaceCandidate, Live
  <2>2. v \in Release
    BY <1>1, <2>1, RecordTypes
  <2> HIDE DEF v
  <2> QED
    BY <1>1, <1>2, <2>1, <2>2
<1>7. CASE JoinCandidate(r)
  BY <1>1, <1>2, <1>7 DEF JoinCandidate, Live
<1>8. CASE DisconnectLast(r)
  BY <1>1, <1>2, <1>8 DEF DisconnectLast, Live
<1>9. CASE MarkReady(r)
  <2> DEFINE v == [cache[r] EXCEPT !.last = cache[r].cand, !.phase = "Ready"]
  <2>1. v \in Release
    BY <1>1, RecordTypes
  <2>2. Begin(r, "write", v, None, "requeue")
    BY <1>9 DEF MarkReady
  <2> HIDE DEF v
  <2> QED
    BY <1>1, <1>2, <2>1, <2>2
<1>10. CASE UseApplied(r)
  BY <1>1, <1>2, <1>10 DEF UseApplied, Live
<1>11. CASE DeleteReconcile(r)
  BY <1>1, <1>2, <1>11 DEF DeleteReconcile
<1>12. QED
  BY <1>3, <1>4, <1>5, <1>6, <1>7, <1>8, <1>9, <1>10, <1>11 DEF Reconcile

\* ensureChartSourceRef.
LEMMA TypeEnsure ==
  ASSUME TypeInv, NEW r \in Releases, EnsureGet(r) \/ EnsureCreate(r) \/ EnsureUpdate(r)
  PROVE  TypeInv'
<1>1. view[r] \in Release /\ src[target[r]] \in Source /\ target[r] \in Sources
  BY DEF EnsureGet, EnsureCreate, EnsureUpdate, TypeInv, TypeOK, Targets, Ensuring
<1>2. src[target[r]].refs \subseteq Names /\ refs[r] \subseteq Names /\ r \in Names
  BY <1>1 DEF Source, TypeInv, TypeOK, Names
<1>3. Others(r, target[r]) \subseteq Releases
  BY DEF Others, TypeInv, TypeOK
<1>4. ASSUME Joined(r) PROVE WorkerOK'
  <2> DEFINE v == [view[r] EXCEPT !.phase = "Disconnecting"]
  <2>1. v \in Release
    <3>1. None \in Ref
      BY DEF Ref
    <3> QED
      BY <1>1, <3>1, RecordTypes
  <2>2. Continue(r, "write", v, None, "requeue")
    BY <1>4 DEF Joined
  <2> HIDE DEF v
  <2> QED
    BY <2>1, <2>2, TypeContinue DEF Ref, Thens, Pcs, Ensuring, Cleaning
<1>5. CASE EnsureGet(r)
  <2>1. pc' \in [Releases -> Pcs] /\ refs' \in [Releases -> SUBSET Names] /\ Targets'
    BY <1>1, <1>2, <1>5
       DEF EnsureGet, Goto, TypeInv, TypeOK, Targets, Pcs, Ensuring, Cleaning
  <2>2. WorkerOK'
    BY <1>5, <2>1 DEF EnsureGet, WorkerOK, TypeInv, TypeOK
  <2> QED
    BY <1>5, <2>2, TypeParts DEF EnsureGet, objects, TypeInv, TypeOK
<1>6. CASE EnsureCreate(r)
  <2>1. CASE src[target[r]].state = "absent"
    <3>1. [state |-> "live", refs |-> {r}] \in Source
      BY <1>2 DEF Source
    <3>2. src' \in [Sources -> Source] /\ Joined(r) /\ fresh' \subseteq Releases
          /\ UNCHANGED <<queued, viewCurrent>>
      BY <1>3, <1>6, <2>1, <3>1 DEF EnsureCreate, TypeInv, TypeOK
    <3> QED
      BY <1>4, <1>6, <3>2, TypeParts DEF EnsureCreate, objects, TypeInv, TypeOK
  <2>2. CASE src[target[r]].state # "absent"
    <3>1. Fails(r) /\ UNCHANGED src
      BY <1>6, <2>2 DEF EnsureCreate
    <3> QED
      BY <1>6, <3>1, TypeFails, TypeParts DEF EnsureCreate, objects, TypeInv, TypeOK
  <2> QED
    BY <2>1, <2>2
<1>7. CASE EnsureUpdate(r)
  <2>1. [src[target[r]] EXCEPT !.refs = refs[r] \cup {r}] \in Source
    BY <1>1, <1>2 DEF Source
  <2>2. src' \in [Sources -> Source]
    BY <1>1, <1>7, <2>1 DEF EnsureUpdate, TypeInv, TypeOK
  <2>3. fresh' \subseteq Releases
    BY <1>3, <1>7 DEF EnsureUpdate, TypeInv, TypeOK
  <2> QED
    BY <1>4, <1>7, <2>2, <2>3, TypeParts DEF EnsureUpdate, objects, TypeInv, TypeOK
<1>8. QED
  BY <1>5, <1>6, <1>7

\* RetryOnConflict.
LEMMA TypeConflict ==
  ASSUME TypeInv, NEW r \in Releases, EnsureConflict(r) \/ CleanConflict(r)
  PROVE  TypeInv'
<1> DEFINE label == IF pc[r] = "ensureUpdate" THEN "ensureGet" ELSE "cleanGet"
<1>1. Retry(r, label) /\ target[r] \in Sources /\ label \in Pcs /\ label # "helmApply"
  BY DEF EnsureConflict, CleanConflict, TypeInv, TypeOK, Targets, Ensuring, Cleaning, Pcs
<1> HIDE DEF label
<1>2. CASE tries[r] > 1 /\ src[target[r]].state # "absent"
  <2>1. /\ pc' = [pc EXCEPT ![r] = label] /\ tries' = [tries EXCEPT ![r] = @ - 1]
        /\ refs' = [refs EXCEPT ![r] = {}]
        /\ UNCHANGED <<queued, view, viewCurrent, target, then, fresh, objects, src, helmChart, budget>>
    BY <1>1, <1>2 DEF Retry, Goto
  <2>2. tries' \in [Releases -> 0 .. RetrySteps] /\ refs' \in [Releases -> SUBSET Names]
    BY <1>2, <2>1, StepsAssumption DEF TypeInv, TypeOK
  <2>3. pc' \in [Releases -> Pcs] /\ Targets'
    BY <1>1, <2>1 DEF TypeInv, TypeOK, Targets
  <2> QED
    BY <2>1, <2>2, <2>3, TypeParts DEF WorkerOK, objects, TypeInv, TypeOK
<1>3. CASE ~(tries[r] > 1 /\ src[target[r]].state # "absent")
  <2>1. Fails(r) /\ UNCHANGED <<objects, src, helmChart, budget>>
    BY <1>1, <1>3 DEF Retry
  <2> QED
    BY <2>1, TypeFails, TypeParts DEF objects, TypeInv, TypeOK
<1>4. QED
  BY <1>2, <1>3

\* cleanupChartSourceRef.
LEMMA TypeClean ==
  ASSUME TypeInv, NEW r \in Releases, CleanGet(r) \/ CleanUpdate(r) \/ CleanDelete(r)
  PROVE  TypeInv'
<1>1. src[target[r]] \in Source /\ target[r] \in Sources
  BY DEF CleanGet, CleanUpdate, CleanDelete, TypeInv, TypeOK, Targets, Cleaning
<1>2. src[target[r]].refs \subseteq Names /\ refs[r] \subseteq Names
  BY <1>1 DEF Source, TypeInv, TypeOK
<1>3. Others(r, target[r]) \subseteq Releases
  BY DEF Others, TypeInv, TypeOK
<1>4. CASE CleanGet(r)
  <2>1. queued' \subseteq Releases /\ viewCurrent' \subseteq Releases /\ fresh' \subseteq Releases
    BY <1>4 DEF CleanGet, TypeInv, TypeOK
  <2>2. WorkerOK'
    <3>1. CASE AfterCleanup(r)
      BY <3>1, TypeAfterCleanup
    <3>2. CASE /\ Goto(r, "cleanUpdate")
               /\ refs' = [refs EXCEPT ![r] = src[target[r]].refs]
               /\ UNCHANGED <<view, target, then, tries>>
      BY <1>1, <1>2, <3>2 DEF Goto, WorkerOK, TypeInv, TypeOK, Targets, Pcs, Cleaning, Ensuring
    <3> QED
      BY <1>4, <3>1, <3>2 DEF CleanGet
  <2> QED
    BY <1>4, <2>1, <2>2, TypeParts DEF CleanGet, objects, TypeInv, TypeOK
<1>5. CASE CleanUpdate(r)
  <2>1. Join(refs[r] \ {r}) \subseteq Names
    BY <1>2 DEF Join, Names
  <2>2. [src[target[r]] EXCEPT !.refs = Join(refs[r] \ {r})] \in Source
    BY <1>1, <2>1 DEF Source
  <2>3. src' \in [Sources -> Source]
    BY <1>1, <1>5, <2>2 DEF CleanUpdate, TypeInv, TypeOK
  <2>4. fresh' \subseteq Releases
    BY <1>3, <1>5 DEF CleanUpdate
  <2>5. WorkerOK'
    <3>1. CASE AfterCleanup(r)
      BY <3>1, TypeAfterCleanup
    <3>2. CASE /\ Goto(r, "cleanDelete")
               /\ refs' = [refs EXCEPT ![r] = {}]
               /\ UNCHANGED <<view, target, then, tries>>
      BY <1>1, <3>2 DEF Goto, WorkerOK, TypeInv, TypeOK, Targets, Pcs, Cleaning, Ensuring
    <3> QED
      BY <1>5, <3>1, <3>2 DEF CleanUpdate
  <2> QED
    BY <1>5, <2>3, <2>4, <2>5, TypeParts DEF CleanUpdate, objects, TypeInv, TypeOK
<1>6. CASE CleanDelete(r)
  <2>1. CASE r \in fresh
    <3>1. [src[target[r]] EXCEPT !.state = "terminating"] \in Source /\ NoSource \in Source
      BY <1>1, RecordTypes DEF Source
    <3>2. src' \in [Sources -> Source]
      BY <1>1, <1>6, <2>1, <3>1 DEF CleanDelete, TypeInv, TypeOK
    <3>3. AfterCleanup(r) /\ fresh' \subseteq Releases /\ UNCHANGED <<queued, viewCurrent>>
      BY <1>3, <1>6, <2>1 DEF CleanDelete
    <3> QED
      BY <1>6, <3>2, <3>3, TypeAfterCleanup, TypeParts DEF CleanDelete, objects, TypeInv, TypeOK
  <2>2. CASE r \notin fresh /\ src[target[r]].state = "absent"
    <3>1. AfterCleanup(r) /\ fresh' \subseteq Releases /\ UNCHANGED <<src, queued, viewCurrent>>
      BY <1>6, <2>2 DEF CleanDelete, TypeInv, TypeOK
    <3> QED
      BY <1>6, <3>1, TypeAfterCleanup, TypeParts DEF CleanDelete, objects, TypeInv, TypeOK
  <2>3. CASE r \notin fresh /\ src[target[r]].state # "absent"
    <3>1. Fails(r) /\ UNCHANGED src
      BY <1>6, <2>3 DEF CleanDelete
    <3> QED
      BY <1>6, <3>1, TypeFails, TypeParts DEF CleanDelete, objects, TypeInv, TypeOK
  <2> QED
    BY <2>1, <2>2, <2>3
<1>7. QED
  BY <1>4, <1>5, <1>6

\* The status writes, the HelmChart, the finalizer.
LEMMA TypeWrites ==
  ASSUME TypeInv, NEW r \in Releases,
         \/ Write(r) \/ WriteConflict(r) \/ HandleFailure(r)
         \/ EnsureHelmChart(r) \/ CleanupHelmChart(r) \/ RemoveFinalizer(r)
  PROVE  TypeInv'
<1>1. view[r] \in Release /\ obj[r] \in Release
  BY DEF TypeInv, TypeOK
<1>2. ASSUME StatusUpdated(r)
      PROVE  /\ obj' \in [Releases -> Release] /\ cache' \in [Releases -> Release]
             /\ cacheCurrent' \subseteq Releases /\ bumped' \subseteq Releases \ cacheCurrent'
  <2>1. [obj[r] EXCEPT !.phase = view[r].phase, !.last = view[r].last,
                       !.cand = view[r].cand] \in Release
    <3>1. view[r].phase \in {"", "Pending", "Disconnecting", "Ready"}
          /\ view[r].last \in Ref /\ view[r].cand \in Ref
      BY <1>1 DEF Release
    <3>2. \A w \in Release : [w EXCEPT !.phase = view[r].phase] \in Release
      BY <3>1 DEF Release
    <3>3. \A w \in Release : [w EXCEPT !.last = view[r].last] \in Release
      BY <3>1 DEF Release
    <3>4. \A w \in Release : [w EXCEPT !.cand = view[r].cand] \in Release
      BY <3>1 DEF Release
    <3> QED
      BY <1>1, <3>2, <3>3, <3>4
  <2>2. obj' = [obj EXCEPT ![r] = [obj[r] EXCEPT !.phase = view[r].phase, !.last = view[r].last,
                                                 !.cand = view[r].cand]]
    BY <1>2 DEF StatusUpdated, TypeInv, TypeOK
  <2>3. obj' \in [Releases -> Release]
    BY <2>1, <2>2 DEF TypeInv, TypeOK
  <2> QED
    BY <1>2, <2>3 DEF StatusUpdated, TypeInv, TypeOK
<1>3. CASE Write(r)
  <2> USE DEF Ref, Thens, Pcs, Ensuring, Cleaning
  <2>1. StatusUpdated(r) /\ UNCHANGED <<src, helmChart, budget>>
    BY <1>3 DEF Write
  <2>2. ASSUME NEW label \in Pcs, NEW s \in Ref, NEW k \in Thens,
               label \in Ensuring \cup Cleaning => s \in Sources, label # "helmApply",
               Continue(r, label, view[r], s, k), UNCHANGED <<fresh, queued, viewCurrent>>
        PROVE  TypeInv'
    BY <1>1, <1>2, <2>1, <2>2, TypeContinue, TypeParts DEF TypeInv, TypeOK
  <2>3. CASE then[r] = "requeue"
    <3>1. Return(r, TRUE)
      BY <1>3, <2>3 DEF Write
    <3> QED
      BY <1>2, <2>1, <3>1, TypeReturn, TypeParts DEF TypeInv, TypeOK
  <2>4. CASE then[r] = "helmDelete"
    BY <1>3, <2>2, <2>4 DEF Write
  <2>5. CASE then[r] = "cleanup" /\ view[r].last # None
    <3>1. view[r].last \in Sources
      BY <1>1, <2>5 DEF Release
    <3>2. Continue(r, "cleanGet", view[r], view[r].last, "delete")
          /\ UNCHANGED <<fresh, queued, viewCurrent>>
      BY <1>3, <2>5 DEF Write
    <3> QED
      BY <2>2, <3>1, <3>2
  <2>6. CASE then[r] \notin {"requeue", "helmDelete"} /\ ~(then[r] = "cleanup" /\ view[r].last # None)
    <3>1. Continue(r, "unfinalize", view[r], None, "none")
          /\ UNCHANGED <<fresh, queued, viewCurrent>>
      BY <1>3, <2>6 DEF Write
    <3> QED
      BY <2>2, <3>1
  <2> QED
    BY <2>3, <2>4, <2>5, <2>6
<1>4. CASE WriteConflict(r)
  BY <1>4, TypeReturn, TypeParts DEF WriteConflict, objects, TypeInv, TypeOK
<1>5. CASE HandleFailure(r)
  <2>1. (~StallOnFailure) \in BOOLEAN
    BY FlagsAssumption
  <2> QED
    BY <1>2, <1>5, <2>1, TypeReturn, TypeParts DEF HandleFailure, TypeInv, TypeOK
<1>6. CASE EnsureHelmChart(r)
  <2>1. view[r].spec \in Ref
    BY <1>6 DEF EnsureHelmChart, TypeInv, Targets, Ref
  <2>2. helmChart' \in [Releases -> Ref]
    BY <1>6, <2>1 DEF EnsureHelmChart, TypeInv, TypeOK
  <2> QED
    BY <1>6, <2>2, TypeReturn, TypeParts DEF EnsureHelmChart, objects, TypeInv, TypeOK
<1>7. CASE CleanupHelmChart(r)
  <2>1. helmChart' \in [Releases -> Ref]
    BY <1>7 DEF CleanupHelmChart, TypeInv, TypeOK, Ref
  <2> QED
    BY <1>7, <2>1, TypeReturn, TypeParts DEF CleanupHelmChart, objects, TypeInv, TypeOK
<1>8. CASE RemoveFinalizer(r)
  <2>1. helmChart' \in [Releases -> Ref]
    BY <1>8 DEF RemoveFinalizer, TypeInv, TypeOK, Ref
  <2>2. obj' \in [Releases -> Release]
    BY <1>8, RecordTypes DEF RemoveFinalizer, TypeInv, TypeOK
  <2>3. cacheCurrent' \subseteq Releases /\ bumped' \subseteq Releases \ cacheCurrent'
    BY <1>8 DEF RemoveFinalizer, TypeInv, TypeOK
  <2> QED
    BY <1>8, <2>1, <2>2, <2>3, TypeReturn, TypeParts DEF RemoveFinalizer, TypeInv, TypeOK
<1>9. QED
  BY <1>3, <1>4, <1>5, <1>6, <1>7, <1>8

\* A step of the bound on disturbances.
LEMMA SpendLemma ==
  ASSUME TypeInv, Spend
  PROVE  budget' \in Nat
  BY DEF Spend, TypeInv, TypeOK

\* What the worker does not do: failing calls, watches, users, Flux, a crash.
LEMMA TypeOthers ==
  ASSUME TypeInv,
         \/ \E r \in Releases : \/ CallFails(r) \/ CacheSync(r) \/ Resync(r)
                                \/ EditChart(r) \/ DeleteRelease(r)
         \/ \E s \in Sources : Touch(s) \/ Finalized(s)
         \/ Crash
  PROVE  TypeInv'
<1>1. ASSUME NEW r \in Releases, CallFails(r) PROVE TypeInv'
  <2>1. budget' \in Nat
    BY <1>1, SpendLemma DEF CallFails, Fault
  <2>2. Return(r, TRUE) \/ Fails(r)
    BY <1>1 DEF CallFails
  <2> QED
    BY <1>1, <2>1, <2>2, TypeReturn, TypeFails, TypeParts DEF CallFails, objects, TypeInv, TypeOK
<1>2. ASSUME NEW r \in Releases, CacheSync(r) PROVE TypeInv'
  <2>1. cache' \in [Releases -> Release]
    BY <1>2 DEF CacheSync, TypeInv, TypeOK
  <2>2. /\ cacheCurrent' \subseteq Releases /\ bumped' \subseteq Releases \ cacheCurrent'
        /\ queued' \subseteq Releases
    BY <1>2 DEF CacheSync, TypeInv, TypeOK
  <2>3. WorkerOK'
    BY <1>2 DEF CacheSync, local, WorkerOK, TypeInv, TypeOK, Targets
  <2> QED
    BY <1>2, <2>1, <2>2, <2>3, TypeParts DEF CacheSync, local, TypeInv, TypeOK
<1>3. ASSUME NEW r \in Releases, Resync(r) PROVE TypeInv'
  BY <1>3 DEF Resync, objects, local, TypeInv, TypeOK, Targets
<1>4. ASSUME NEW r \in Releases, NEW new \in Release, Edited(r, new) PROVE TypeInv'
  <2>1. budget' \in Nat
    BY <1>4, SpendLemma DEF Edited
  <2>2. /\ obj' \in [Releases -> Release] /\ cacheCurrent' \subseteq Releases
        /\ bumped' \subseteq Releases \ cacheCurrent' /\ viewCurrent' \subseteq Releases
    BY <1>4 DEF Edited, TypeInv, TypeOK
  <2>3. WorkerOK'
    BY <1>4 DEF Edited, WorkerOK, TypeInv, TypeOK, Targets
  <2> QED
    BY <1>4, <2>1, <2>2, <2>3, TypeParts DEF Edited, TypeInv, TypeOK
<1>5. ASSUME NEW r \in Releases, EditChart(r) PROVE TypeInv'
  <2>1. PICK s \in Specs : Edited(r, [obj[r] EXCEPT !.spec = s])
    BY <1>5 DEF EditChart
  <2>2. obj[r] \in Release /\ s \in Sources \cup {ChartRef}
    BY SpecsAssumption DEF TypeInv, TypeOK
  <2>3. [obj[r] EXCEPT !.spec = s] \in Release
    BY <2>2 DEF Release
  <2> QED
    BY <1>4, <2>1, <2>3
<1>6. ASSUME NEW r \in Releases, DeleteRelease(r) PROVE TypeInv'
  <2>1. obj[r] \in Release
    BY DEF TypeInv, TypeOK
  <2>2. [obj[r] EXCEPT !.state = "deleting"] \in Release
    BY <2>1 DEF Release
  <2> QED
    BY <1>4, <1>6, <2>2 DEF DeleteRelease
<1>7. ASSUME NEW s \in Sources, Touch(s) PROVE TypeInv'
  <2>1. budget' \in Nat
    BY <1>7, SpendLemma DEF Touch
  <2>2. WorkerOK' /\ fresh' \subseteq Releases
    BY <1>7 DEF Touch, WorkerOK, TypeInv, TypeOK, Targets
  <2> QED
    BY <1>7, <2>1, <2>2, TypeParts DEF Touch, objects, TypeInv, TypeOK
<1>8. ASSUME NEW s \in Sources, Finalized(s) PROVE TypeInv'
  <2>1. src' \in [Sources -> Source]
    BY <1>8, RecordTypes DEF Finalized, TypeInv, TypeOK
  <2>2. WorkerOK' /\ fresh' \subseteq Releases
    BY <1>8 DEF Finalized, WorkerOK, TypeInv, TypeOK, Targets
  <2> QED
    BY <1>8, <2>1, <2>2, TypeParts DEF Finalized, objects, TypeInv, TypeOK
<1>9. ASSUME Crash PROVE TypeInv'
  <2>1. budget' \in Nat
    BY <1>9, SpendLemma DEF Crash
  <2>2. cache' \in [Releases -> Release] /\ view' \in [Releases -> Release]
    BY <1>9, RecordTypes DEF Crash, TypeInv, TypeOK
  <2>3. "idle" \in Pcs /\ "none" \in Thens /\ None \in Ref /\ 0 \in 0 .. RetrySteps
    BY StepsAssumption DEF Pcs, Thens, Ref
  <2>4. /\ pc' \in [Releases -> Pcs] /\ then' \in [Releases -> Thens]
        /\ target' \in [Releases -> Ref] /\ refs' \in [Releases -> SUBSET Names]
        /\ tries' \in [Releases -> 0 .. RetrySteps]
    BY <1>9, <2>3 DEF Crash
  <2>5. Targets'
    BY <1>9 DEF Crash, Targets, Ensuring, Cleaning
  <2>6. WorkerOK'
    BY <2>2, <2>4, <2>5 DEF WorkerOK
  <2>7. /\ queued' \subseteq Releases /\ viewCurrent' = {} /\ fresh' = {}
        /\ cacheCurrent' = Releases /\ bumped' = {} /\ UNCHANGED <<obj, src, helmChart>>
    BY <1>9 DEF Crash
  <2> QED
    BY <2>1, <2>2, <2>6, <2>7, TypeParts DEF TypeInv, TypeOK
<1>10. QED
  BY <1>1, <1>2, <1>3, <1>5, <1>6, <1>7, <1>8, <1>9

\* Every step keeps the types and the targets.
LEMMA TypeStep == TypeInv /\ [Next]_vars => TypeInv'
<1> SUFFICES ASSUME TypeInv, [Next]_vars PROVE TypeInv'
  OBVIOUS
<1>1. ASSUME NEW r \in Releases, WorkerStep(r) PROVE TypeInv'
  BY <1>1, TypeEnsure, TypeConflict, TypeClean, TypeWrites DEF WorkerStep
<1>2. ASSUME NEW r \in Releases, Reconcile(r) PROVE TypeInv'
  BY <1>2, TypeReconcile
<1>3. CASE UNCHANGED vars
  BY <1>3 DEF vars, objects, local, TypeInv, TypeOK, Targets
<1>4. QED
  BY <1>1, <1>2, <1>3, TypeOthers DEF Next

(***************************************************************************)
(* Every reachable state is well typed and no source is worked on that     *)
(* spec.chart cannot stand for.                                            *)
(***************************************************************************)
THEOREM TypeCorrect == Spec => [](TypeOK /\ Targets)
  BY TypeInit, TypeStep, PTL DEF Spec, TypeInv

-----------------------------------------------------------------------------
(***************************************************************************)
(* How a worker moves: it leaves the other workers alone.                  *)
(***************************************************************************)
OnlyWorker(r) ==
  \A q \in Releases \ {r} :
    /\ pc'[q] = pc[q] /\ view'[q] = view[q] /\ target'[q] = target[q]
    /\ then'[q] = then[q] /\ refs'[q] = refs[q]

\* Updating or deleting under a lock.
Locking == {"ensureUpdate", "cleanUpdate", "cleanDelete"}

\* A return drops the copies.
LEMMA ReturnMoves ==
  ASSUME TypeInv, NEW r \in Releases, NEW q, Return(r, q)
  PROVE  /\ OnlyWorker(r) /\ pc'[r] = "idle"
         /\ viewCurrent' = viewCurrent \ {r} /\ fresh' = fresh \ {r}
  BY DEF Return, Goto, OnlyWorker, TypeInv, TypeOK

\* Going on sets the worker's variables.
LEMMA ContinueMoves ==
  ASSUME TypeInv, NEW r \in Releases, NEW label, NEW v, NEW s, NEW k, Continue(r, label, v, s, k)
  PROVE  /\ OnlyWorker(r) /\ pc'[r] = label /\ view'[r] = v /\ target'[r] = s /\ then'[r] = k
  BY DEF Continue, Goto, OnlyWorker, TypeInv, TypeOK

\* An error ends the reconcile, or goes on to record it.
LEMMA FailsMoves ==
  ASSUME TypeInv, NEW r \in Releases, Fails(r)
  PROVE  /\ OnlyWorker(r) /\ fresh' = fresh \ {r}
         /\ \/ /\ view[r].state = "deleting" /\ pc'[r] = "idle"
               /\ viewCurrent' = viewCurrent \ {r}
            \/ /\ view[r].state # "deleting" /\ pc'[r] = "fail" /\ view'[r] = view[r]
               /\ viewCurrent' = viewCurrent
<1>1. CASE view[r].state = "deleting"
  <2>1. Return(r, TRUE)
    BY <1>1 DEF Fails
  <2> QED
    BY <1>1, <2>1, ReturnMoves
<1>2. CASE view[r].state # "deleting"
  <2>1. /\ Continue(r, "fail", view[r], None, "none") /\ fresh' = fresh \ {r}
        /\ UNCHANGED <<queued, viewCurrent>>
    BY <1>2 DEF Fails
  <2> QED
    BY <1>2, <2>1, ContinueMoves
<1>3. QED
  BY <1>1, <1>2

\* After a cleanup comes another cleanup, a status write, or the finalizer.
LEMMA AfterCleanupMoves ==
  ASSUME TypeInv, NEW r \in Releases, AfterCleanup(r)
  PROVE  /\ OnlyWorker(r)
         /\ pc'[r] \in {"cleanGet", "write", "unfinalize"}
         /\ then[r] = "disconnect" =>
              /\ pc'[r] = "write" /\ then'[r] = "requeue"
              /\ view'[r] = [view[r] EXCEPT !.last = view[r].cand, !.phase = "Ready"]
<1>1. CASE then[r] = "leaveLast" /\ view[r].cand # None
  <2>1. Continue(r, "cleanGet", view[r], view[r].cand, "leaveCand")
    BY <1>1 DEF AfterCleanup
  <2> QED
    BY <1>1, <2>1, ContinueMoves
<1>2. CASE (then[r] = "leaveLast" /\ view[r].cand = None) \/ then[r] = "leaveCand"
  <2> DEFINE v == [view[r] EXCEPT !.last = None, !.cand = None, !.phase = ""]
  <2>1. Continue(r, "write", v, None, "helmDelete")
    BY <1>2 DEF AfterCleanup
  <2> HIDE DEF v
  <2> QED
    BY <1>2, <2>1, ContinueMoves
<1>3. CASE then[r] = "disconnect"
  <2> DEFINE v == [view[r] EXCEPT !.last = view[r].cand, !.phase = "Ready"]
  <2>1. Continue(r, "write", v, None, "requeue")
    BY <1>3 DEF AfterCleanup
  <2>2. /\ OnlyWorker(r) /\ pc'[r] = "write" /\ view'[r] = v /\ then'[r] = "requeue"
    <3> HIDE DEF v
    <3> QED
      BY <2>1, ContinueMoves
  <2> QED
    BY <2>2
<1>4. CASE then[r] \notin {"leaveLast", "leaveCand", "disconnect"}
  <2>1. Continue(r, "unfinalize", view[r], None, "none")
    BY <1>4 DEF AfterCleanup
  <2> QED
    BY <1>4, <2>1, ContinueMoves
<1>5. QED
  BY <1>1, <1>2, <1>3, <1>4

-----------------------------------------------------------------------------
(***************************************************************************)
(* What a step may do to a source: create it, add or remove the name of    *)
(* the Release whose worker holds the lock, delete it when it lists nobody,*)
(* or finalize it.                                                         *)
(***************************************************************************)
SourceStep(s) ==
  \/ src'[s] = src[s]
  \/ src[s].state = "absent" /\ src'[s].state = "live"
  \/ src'[s].state = src[s].state /\ src[s].refs \subseteq src'[s].refs
  \/ /\ src'[s].state = src[s].state
     /\ \E q \in Releases : /\ pc[q] = "cleanUpdate" /\ target[q] = s
                            /\ src[s].refs \ {q} \subseteq src'[s].refs
  \/ src[s].refs = {Blank} /\ src'[s].state = IF FluxFinalizer THEN "terminating" ELSE "absent"
  \/ src[s].state = "terminating" /\ src'[s].state = "absent"

\* Whoever moves, the others' locks hold if their sources did not change.
LEMMA LockFrame ==
  ASSUME TypeInv, LockInv, NEW r \in Releases, OnlyWorker(r),
         \A q \in fresh' \ {r} :
           q \in fresh /\ (target[q] \in Sources => src'[target[q]] = src[target[q]]),
         r \in fresh' => Locked(r)'
  PROVE  LockInv'
<1> SUFFICES ASSUME NEW q \in fresh', q # r PROVE Locked(q)'
  BY DEF LockInv
<1>1. q \in fresh /\ q \in Releases /\ Locked(q)
  BY DEF LockInv, TypeInv, TypeOK
<1>2. /\ pc'[q] = pc[q] /\ target'[q] = target[q] /\ refs'[q] = refs[q]
      /\ target[q] \in Sources => src'[target[q]] = src[target[q]]
  BY <1>1 DEF OnlyWorker
<1>3. pc[q] \in Locking => target[q] \in Sources
  BY <1>1 DEF TypeInv, Targets, Ensuring, Cleaning, Locking
<1>4. QED
  BY <1>1, <1>2, <1>3 DEF Locked, Locking

\* In particular if no source changed and r is not about to write one.
LEMMA LockQuiet ==
  ASSUME TypeInv, LockInv, NEW r \in Releases, OnlyWorker(r), UNCHANGED src,
         fresh' \subseteq fresh \cup {r}, pc'[r] \in Locking => r \notin fresh'
  PROVE  LockInv' /\ \A s \in Sources : SourceStep(s)
<1>1. r \in fresh' => Locked(r)'
  BY DEF Locked, Locking
<1>2. LockInv'
  BY <1>1, LockFrame
<1>3. QED
  BY <1>2 DEF SourceStep

\* ensureChartSourceRef writes only what nobody wrote since it read it.
LEMMA LockEnsure ==
  ASSUME TypeInv, LockInv, NEW r \in Releases, EnsureGet(r) \/ EnsureCreate(r) \/ EnsureUpdate(r)
  PROVE  LockInv' /\ \A s \in Sources : SourceStep(s)
<1>1. src[target[r]] \in Source /\ target[r] \in Sources
  BY DEF EnsureGet, EnsureCreate, EnsureUpdate, TypeInv, TypeOK, Targets, Ensuring
<1>2. ASSUME Joined(r) PROVE OnlyWorker(r) /\ pc'[r] = "write"
  <2> DEFINE v == [view[r] EXCEPT !.phase = "Disconnecting"]
  <2>1. Continue(r, "write", v, None, "requeue")
    BY <1>2 DEF Joined
  <2> HIDE DEF v
  <2> QED
    BY <2>1, ContinueMoves
<1>3. CASE EnsureGet(r)
  <2>1. /\ OnlyWorker(r) /\ UNCHANGED <<src, target>> /\ refs'[r] = src[target[r]].refs
        /\ pc'[r] = IF src[target[r]].state = "absent" THEN "ensureCreate" ELSE "ensureUpdate"
        /\ fresh' = fresh \cup {r}
    BY <1>3 DEF EnsureGet, Goto, OnlyWorker, TypeInv, TypeOK
  <2>2. Locked(r)'
    BY <1>1, <2>1 DEF Locked
  <2>3. LockInv'
    BY <2>1, <2>2, LockFrame
  <2> QED
    BY <2>1, <2>3 DEF SourceStep
<1>4. CASE EnsureCreate(r)
  <2>1. CASE src[target[r]].state = "absent"
    <3>1. /\ src' = [src EXCEPT ![target[r]] = [state |-> "live", refs |-> {r}]]
          /\ Joined(r) /\ fresh' = Others(r, target[r])
      BY <1>4, <2>1 DEF EnsureCreate
    <3>2. \A q \in fresh' \ {r} :
            q \in fresh /\ (target[q] \in Sources => src'[target[q]] = src[target[q]])
      BY <3>1 DEF Others, TypeInv, TypeOK
    <3>3. LockInv'
      BY <1>2, <3>1, <3>2, LockFrame DEF Others
    <3>4. \A s \in Sources : SourceStep(s)
      BY <1>1, <2>1, <3>1 DEF SourceStep, TypeInv, TypeOK
    <3> QED
      BY <3>3, <3>4
  <2>2. CASE src[target[r]].state # "absent"
    <3>1. Fails(r) /\ UNCHANGED src
      BY <1>4, <2>2 DEF EnsureCreate
    <3> QED
      BY <3>1, FailsMoves, LockQuiet
  <2> QED
    BY <2>1, <2>2
<1>5. CASE EnsureUpdate(r)
  <2> DEFINE s == target[r]
  <2>1. /\ Locked(r) /\ src' = [src EXCEPT ![s].refs = refs[r] \cup {r}]
        /\ Joined(r) /\ pc[r] = "ensureUpdate" /\ r \in fresh
        /\ fresh' = IF r \in refs[r] THEN fresh \ {r} ELSE Others(r, s)
    BY <1>5 DEF EnsureUpdate, LockInv
  <2>2. refs[r] = src[s].refs
    BY <2>1 DEF Locked
  <2>3. src'[s] = [src[s] EXCEPT !.refs = src[s].refs \cup {r}]
        /\ \A t \in Sources \ {s} : src'[t] = src[t]
    BY <1>1, <2>1, <2>2 DEF TypeInv, TypeOK
  <2>4. r \in refs[r] => src'[s] = src[s]
    <3>1. r \in refs[r] => src[s].refs \cup {r} = src[s].refs
      BY <2>2
    <3> QED
      BY <1>1, <2>3, <3>1 DEF Source
  <2>5. r \notin fresh' /\ \A q \in fresh' : q \in fresh
        /\ (target[q] \in Sources => src'[target[q]] = src[target[q]])
    BY <2>1, <2>3, <2>4 DEF Others
  <2>6. LockInv'
    BY <1>2, <2>1, <2>5, LockFrame
  <2>7. src'[s].state = src[s].state /\ src[s].refs \subseteq src'[s].refs
    BY <1>1, <2>3 DEF Source
  <2>8. \A t \in Sources : SourceStep(t)
    BY <2>3, <2>7 DEF SourceStep
  <2> QED
    BY <2>6, <2>8
<1>6. QED
  BY <1>3, <1>4, <1>5

\* cleanupChartSourceRef likewise.
LEMMA LockClean ==
  ASSUME TypeInv, LockInv, NEW r \in Releases, CleanGet(r) \/ CleanUpdate(r) \/ CleanDelete(r)
  PROVE  LockInv' /\ \A s \in Sources : SourceStep(s)
<1>1. src[target[r]] \in Source /\ target[r] \in Sources
  BY DEF CleanGet, CleanUpdate, CleanDelete, TypeInv, TypeOK, Targets, Cleaning
<1>2. CASE CleanGet(r)
  <2>1. CASE src[target[r]].state = "absent" \/ r \notin src[target[r]].refs
    <3>1. AfterCleanup(r) /\ fresh' = fresh \ {r} /\ UNCHANGED src
      BY <1>2, <2>1 DEF CleanGet
    <3> QED
      BY <3>1, AfterCleanupMoves, LockQuiet
  <2>2. CASE ~(src[target[r]].state = "absent" \/ r \notin src[target[r]].refs)
    <3>1. OnlyWorker(r) /\ UNCHANGED <<src, target>> /\ refs'[r] = src[target[r]].refs
          /\ pc'[r] = "cleanUpdate" /\ fresh' = fresh \cup {r}
      BY <1>2, <2>2 DEF CleanGet, Goto, OnlyWorker, TypeInv, TypeOK
    <3>2. Locked(r)'
      BY <2>2, <3>1 DEF Locked
    <3>3. LockInv'
      BY <3>1, <3>2, LockFrame
    <3> QED
      BY <3>1, <3>3 DEF SourceStep
  <2> QED
    BY <2>1, <2>2
<1>3. CASE CleanUpdate(r)
  <2> DEFINE s == target[r]
  <2>1. /\ Locked(r) /\ src' = [src EXCEPT ![s].refs = Join(refs[r] \ {r})]
        /\ pc[r] = "cleanUpdate" /\ r \in fresh
    BY <1>3 DEF CleanUpdate, LockInv
  <2>2. refs[r] = src[s].refs
    BY <2>1 DEF Locked
  <2>3. src'[s] = [src[s] EXCEPT !.refs = Join(src[s].refs \ {r})]
        /\ \A t \in Sources \ {s} : src'[t] = src[t]
    BY <1>1, <2>1, <2>2 DEF TypeInv, TypeOK
  <2>4. src'[s].state = src[s].state /\ src'[s].refs = Join(src[s].refs \ {r})
    BY <1>1, <2>3 DEF Source
  <2>5. src[s].refs \ {r} \subseteq src'[s].refs
    BY <2>4 DEF Join
  <2>6. \A t \in Sources : SourceStep(t)
    BY <2>1, <2>3, <2>4, <2>5 DEF SourceStep
  <2>7. \A q \in Others(r, s) :
          q \in fresh /\ q # r /\ (target[q] \in Sources => src'[target[q]] = src[target[q]])
    BY <2>3 DEF Others
  <2>8. CASE refs[r] \ {r} = {}
    <3>1. OnlyWorker(r) /\ UNCHANGED target /\ pc'[r] = "cleanDelete"
          /\ fresh' = Others(r, s) \cup {r}
      BY <1>3, <2>8 DEF CleanUpdate, Goto, OnlyWorker, TypeInv, TypeOK
    <3>2. Locked(r)'
      BY <2>2, <2>4, <2>8, <3>1 DEF Locked, Join
    <3> QED
      BY <2>6, <2>7, <3>1, <3>2, LockFrame
  <2>9. CASE refs[r] \ {r} # {}
    <3>1. AfterCleanup(r) /\ fresh' = Others(r, s)
      BY <1>3, <2>9 DEF CleanUpdate
    <3> QED
      BY <2>6, <2>7, <3>1, AfterCleanupMoves, LockFrame
  <2> QED
    BY <2>8, <2>9
<1>4. CASE CleanDelete(r)
  <2> DEFINE s == target[r]
             new == IF FluxFinalizer THEN [src[s] EXCEPT !.state = "terminating"] ELSE NoSource
  <2>1. CASE r \in fresh
    <3>1. /\ AfterCleanup(r) /\ fresh' = Others(r, s) /\ src' = [src EXCEPT ![s] = new]
          /\ src[s].refs = {Blank}
      BY <1>4, <2>1 DEF CleanDelete, LockInv, Locked
    <3>2. new.state = IF FluxFinalizer THEN "terminating" ELSE "absent"
      BY <1>1 DEF NoSource, Source
    <3> HIDE DEF new
    <3>3. src'[s] = new /\ \A t \in Sources \ {s} : src'[t] = src[t]
      BY <1>1, <3>1 DEF TypeInv, TypeOK
    <3>4. \A t \in Sources : SourceStep(t)
      BY <3>1, <3>2, <3>3 DEF SourceStep
    <3>5. \A q \in fresh' :
            q \in fresh /\ q # r /\ (target[q] \in Sources => src'[target[q]] = src[target[q]])
      BY <3>1, <3>3 DEF Others
    <3> QED
      BY <3>1, <3>4, <3>5, AfterCleanupMoves, LockFrame
  <2>2. CASE r \notin fresh /\ src[target[r]].state = "absent"
    <3>1. AfterCleanup(r) /\ fresh' = fresh \ {r} /\ UNCHANGED src
      BY <1>4, <2>2 DEF CleanDelete
    <3> QED
      BY <3>1, AfterCleanupMoves, LockQuiet
  <2>3. CASE r \notin fresh /\ src[target[r]].state # "absent"
    <3>1. Fails(r) /\ UNCHANGED src
      BY <1>4, <2>3 DEF CleanDelete
    <3> QED
      BY <3>1, FailsMoves, LockQuiet
  <2> QED
    BY <2>1, <2>2, <2>3
<1>5. QED
  BY <1>2, <1>3, <1>4

\* The worker's other steps write no source.
LEMMA LockWrites ==
  ASSUME TypeInv, LockInv, NEW r \in Releases,
         \/ EnsureConflict(r) \/ CleanConflict(r)
         \/ Write(r) \/ WriteConflict(r) \/ HandleFailure(r)
         \/ EnsureHelmChart(r) \/ CleanupHelmChart(r) \/ RemoveFinalizer(r) \/ CallFails(r)
  PROVE  LockInv' /\ \A s \in Sources : SourceStep(s)
<1>1. UNCHANGED src
  BY DEF EnsureConflict, CleanConflict, Retry, Write, WriteConflict, HandleFailure,
         EnsureHelmChart, CleanupHelmChart, RemoveFinalizer, CallFails
<1>2. ASSUME Return(r, TRUE) \/ Return(r, FALSE) \/ Return(r, ~StallOnFailure) \/ Fails(r)
      PROVE  LockInv' /\ \A s \in Sources : SourceStep(s)
  BY <1>1, <1>2, ReturnMoves, FailsMoves, LockQuiet DEF Locking
<1>3. CASE EnsureConflict(r) \/ CleanConflict(r)
  <2>1. CASE tries[r] > 1 /\ src[target[r]].state # "absent"
    <3>1. OnlyWorker(r) /\ fresh' = fresh /\ r \notin fresh
      BY <1>3, <2>1 DEF EnsureConflict, CleanConflict, Retry, Goto, OnlyWorker, TypeInv, TypeOK
    <3> QED
      BY <1>1, <3>1, LockQuiet
  <2>2. CASE ~(tries[r] > 1 /\ src[target[r]].state # "absent")
    BY <1>2, <1>3, <2>2 DEF EnsureConflict, CleanConflict, Retry
  <2> QED
    BY <2>1, <2>2
<1>4. CASE Write(r)
  <2>1. ASSUME NEW label \in {"helmDelete", "cleanGet", "unfinalize"}, NEW s, NEW k,
               Continue(r, label, view[r], s, k), UNCHANGED fresh
        PROVE  LockInv' /\ \A t \in Sources : SourceStep(t)
    BY <1>1, <2>1, ContinueMoves, LockQuiet DEF Locking
  <2>2. CASE then[r] = "requeue"
    BY <1>2, <1>4, <2>2 DEF Write
  <2>3. CASE then[r] = "helmDelete"
    BY <1>4, <2>1, <2>3 DEF Write
  <2>4. CASE then[r] = "cleanup" /\ view[r].last # None
    BY <1>4, <2>1, <2>4 DEF Write
  <2>5. CASE then[r] \notin {"requeue", "helmDelete"} /\ ~(then[r] = "cleanup" /\ view[r].last # None)
    BY <1>4, <2>1, <2>5 DEF Write
  <2> QED
    BY <2>2, <2>3, <2>4, <2>5
<1>5. CASE \/ WriteConflict(r) \/ HandleFailure(r) \/ EnsureHelmChart(r)
           \/ CleanupHelmChart(r) \/ RemoveFinalizer(r) \/ CallFails(r)
  BY <1>2, <1>5 DEF WriteConflict, HandleFailure, EnsureHelmChart, CleanupHelmChart,
                    RemoveFinalizer, CallFails
<1>6. QED
  BY <1>3, <1>4, <1>5

\* Nor does the beginning of a reconcile, or anybody else but Flux.
LEMMA LockOthers ==
  ASSUME TypeInv, LockInv,
         \/ \E r \in Releases : \/ Reconcile(r) \/ CacheSync(r) \/ Resync(r)
                                \/ EditChart(r) \/ DeleteRelease(r)
         \/ \E s \in Sources : Touch(s) \/ Finalized(s)
         \/ Crash
         \/ UNCHANGED vars
  PROVE  LockInv' /\ \A s \in Sources : SourceStep(s)
<1>1. ASSUME NEW r \in Releases, NEW label \in {"cleanGet", "write", "ensureGet", "helmApply"},
             NEW v, NEW s, NEW k, Begin(r, label, v, s, k)
      PROVE  LockInv' /\ \A t \in Sources : SourceStep(t)
  <2>1. Continue(r, label, v, s, k) /\ fresh' = fresh \ {r} /\ UNCHANGED src
    BY <1>1 DEF Begin
  <2> QED
    BY <2>1, ContinueMoves, LockQuiet DEF Locking
<1>2. ASSUME UNCHANGED <<src, pc, target, refs, fresh>>
      PROVE  LockInv' /\ \A t \in Sources : SourceStep(t)
  BY <1>2 DEF LockInv, Locked, SourceStep
<1>3. ASSUME NEW r \in Releases, Reconcile(r)
      PROVE  LockInv' /\ \A s \in Sources : SourceStep(s)
  <2>1. CASE NothingToResolve(r)
    BY <1>2, <2>1 DEF NothingToResolve, local
  <2>2. CASE LeaveSpecChart(r)
    BY <1>1, <2>2 DEF LeaveSpecChart
  <2>3. CASE MarkPending(r) \/ ReplaceCandidate(r)
    BY <1>1, <2>3 DEF MarkPending, ReplaceCandidate
  <2>4. CASE JoinCandidate(r) \/ DisconnectLast(r)
    BY <1>1, <2>4 DEF JoinCandidate, DisconnectLast
  <2>5. CASE MarkReady(r) \/ UseApplied(r) \/ DeleteReconcile(r)
    BY <1>1, <2>5 DEF MarkReady, UseApplied, DeleteReconcile
  <2> QED
    BY <1>3, <2>1, <2>2, <2>3, <2>4, <2>5 DEF Reconcile
<1>4. ASSUME NEW r \in Releases,
             CacheSync(r) \/ Resync(r) \/ EditChart(r) \/ DeleteRelease(r)
      PROVE  LockInv' /\ \A s \in Sources : SourceStep(s)
  BY <1>2, <1>4 DEF CacheSync, Resync, EditChart, DeleteRelease, Edited, local
<1>5. ASSUME NEW s \in Sources, Touch(s)
      PROVE  LockInv' /\ \A t \in Sources : SourceStep(t)
  BY <1>5 DEF Touch, LockInv, Locked, SourceStep
<1>6. ASSUME NEW s \in Sources, Finalized(s)
      PROVE  LockInv' /\ \A t \in Sources : SourceStep(t)
  <2>1. /\ src[s].state = "terminating" /\ src'[s].state = "absent"
        /\ \A t \in Sources \ {s} : src'[t] = src[t]
    BY <1>6 DEF Finalized, NoSource, TypeInv, TypeOK
  <2>2. LockInv'
    BY <1>6, <2>1
       DEF Finalized, LockInv, Locked, TypeInv, TypeOK, Targets, Ensuring, Cleaning
  <2> QED
    BY <2>1, <2>2 DEF SourceStep
<1>7. ASSUME Crash
      PROVE  LockInv' /\ \A s \in Sources : SourceStep(s)
  BY <1>7 DEF Crash, LockInv, SourceStep
<1>8. ASSUME UNCHANGED vars
      PROVE  LockInv' /\ \A s \in Sources : SourceStep(s)
  BY <1>2, <1>8 DEF vars, local
<1>9. QED
  BY <1>3, <1>4, <1>5, <1>6, <1>7, <1>8

\* Every step keeps the locks and does to a source what it may.
LEMMA LockStep ==
  ASSUME TypeInv, LockInv, [Next]_vars
  PROVE  LockInv' /\ \A s \in Sources : SourceStep(s)
  BY LockEnsure, LockClean, LockWrites, LockOthers DEF Next, WorkerStep

(***************************************************************************)
(* Updates under optimistic locking: whoever is about to update or delete  *)
(* a source with a current copy has read what it holds now.                *)
(***************************************************************************)
THEOREM LockInvariant == Spec => [](TypeInv /\ LockInv)
<1>1. Init => TypeInv /\ LockInv
  BY TypeInit DEF Init, LockInv
<1>2. TypeInv /\ LockInv /\ [Next]_vars => (TypeInv /\ LockInv)'
  BY TypeStep, LockStep
<1>3. QED
  BY <1>1, <1>2, PTL DEF Spec

(***************************************************************************)
(* No source is deleted while a Release is on its list, for any number of  *)
(* Releases, workers, retries and disturbances, with and without Flux's    *)
(* finalizer: cleanupChartSourceRef's delete carries the resourceVersion.  *)
(***************************************************************************)
THEOREM NeverDeletedInUse == Spec => DeletedOnlyUnlisted
<1>1. ASSUME TypeInv, LockInv, [Next]_vars, NEW s \in Sources,
             src[s].state = "live", src'[s].state # "live"
      PROVE  src[s].refs \cap Releases = {}
  <2>1. SourceStep(s)
    BY <1>1, LockStep
  <2>2. src[s].refs = {Blank}
    BY <1>1, <2>1 DEF SourceStep
  <2> QED
    BY <2>2, NamesAssumption
<1>2. TypeInv /\ LockInv /\ [Next]_vars =>
        [\A s \in Sources :
           src[s].state = "live" /\ src'[s].state # "live" => src[s].refs \cap Releases = {}]_vars
  BY <1>1
<1>3. QED
  BY <1>2, LockInvariant, PTL DEF Spec, DeletedOnlyUnlisted

-----------------------------------------------------------------------------
(***************************************************************************)
(* Refinement of SharedSources.                                            *)
(***************************************************************************)
\* What the holder of a lock, or Flux, does to source s.
Changed(s) ==
  \/ src[s].state = "absent" /\ \E r \in Releases : src'[s] = [state |-> "live", refs |-> {r}]
  \/ /\ src'[s].state = src[s].state
     /\ \E r \in Releases : \/ src'[s].refs = src[s].refs \cup {r}
                            \/ src'[s].refs = Join(src[s].refs \ {r})
  \/ src[s].refs = {Blank} /\ src'[s].state # "live"
  \/ src[s].state = "terminating" /\ src'[s].state = "absent"

OneChanged ==
  \E s \in Sources : Changed(s) /\ \A t \in Sources \ {s} : src'[t] = src[t]

\* A step changes one source at most, from what it is now.
LEMMA OneSource ==
  ASSUME TypeInv, LockInv, [Next]_vars
  PROVE  UNCHANGED src \/ OneChanged
<1>0. ASSUME NEW r \in Releases, pc[r] \in Ensuring \cup Cleaning
      PROVE  target[r] \in Sources /\ src[target[r]] \in Source
  BY <1>0 DEF TypeInv, TypeOK, Targets
<1>1. ASSUME NEW r \in Releases, EnsureCreate(r) PROVE UNCHANGED src \/ OneChanged
  <2>1. target[r] \in Sources
    BY <1>0, <1>1 DEF EnsureCreate, Ensuring
  <2>2. CASE src[target[r]].state = "absent"
    <3>1. /\ src'[target[r]] = [state |-> "live", refs |-> {r}]
          /\ \A t \in Sources \ {target[r]} : src'[t] = src[t]
      BY <1>1, <2>1, <2>2 DEF EnsureCreate, TypeInv, TypeOK
    <3> QED
      BY <2>1, <2>2, <3>1 DEF OneChanged, Changed
  <2>3. CASE src[target[r]].state # "absent"
    BY <1>1, <2>3 DEF EnsureCreate
  <2> QED
    BY <2>2, <2>3
<1>2. ASSUME NEW r \in Releases, EnsureUpdate(r) \/ CleanUpdate(r) PROVE OneChanged
  <2> DEFINE s == target[r]
  <2>1. s \in Sources /\ src[s] \in Source
    BY <1>0, <1>2 DEF EnsureUpdate, CleanUpdate, Ensuring, Cleaning
  <2>2. refs[r] = src[s].refs
    BY <1>2 DEF EnsureUpdate, CleanUpdate, LockInv, Locked
  <2>3. \/ src' = [src EXCEPT ![s].refs = src[s].refs \cup {r}]
        \/ src' = [src EXCEPT ![s].refs = Join(src[s].refs \ {r})]
    BY <1>2, <2>2 DEF EnsureUpdate, CleanUpdate
  <2>4. /\ src'[s].state = src[s].state
        /\ src'[s].refs = src[s].refs \cup {r} \/ src'[s].refs = Join(src[s].refs \ {r})
        /\ \A t \in Sources \ {s} : src'[t] = src[t]
    BY <2>1, <2>3 DEF TypeInv, TypeOK, Source
  <2> QED
    BY <2>1, <2>4 DEF OneChanged, Changed
<1>3. ASSUME NEW r \in Releases, CleanDelete(r) PROVE UNCHANGED src \/ OneChanged
  <2> DEFINE s == target[r]
             new == IF FluxFinalizer THEN [src[s] EXCEPT !.state = "terminating"] ELSE NoSource
  <2>1. s \in Sources /\ src[s] \in Source
    BY <1>0, <1>3 DEF CleanDelete, Cleaning
  <2>2. CASE r \in fresh
    <3>1. src' = [src EXCEPT ![s] = new] /\ src[s].refs = {Blank}
      BY <1>3, <2>2 DEF CleanDelete, LockInv, Locked
    <3>2. new.state # "live"
      BY <2>1 DEF NoSource, Source
    <3> HIDE DEF new
    <3>3. src'[s] = new /\ \A t \in Sources \ {s} : src'[t] = src[t]
      BY <2>1, <3>1 DEF TypeInv, TypeOK
    <3> QED
      BY <2>1, <3>1, <3>2, <3>3 DEF OneChanged, Changed
  <2>3. CASE r \notin fresh
    BY <1>3, <2>3 DEF CleanDelete
  <2> QED
    BY <2>2, <2>3
<1>4. ASSUME NEW s \in Sources, Finalized(s) PROVE OneChanged
  <2>1. /\ src[s].state = "terminating" /\ src'[s].state = "absent"
        /\ \A t \in Sources \ {s} : src'[t] = src[t]
    BY <1>4 DEF Finalized, NoSource, TypeInv, TypeOK
  <2> QED
    BY <2>1 DEF OneChanged, Changed
<1>5. ASSUME NEW r \in Releases,
             \/ EnsureGet(r) \/ EnsureConflict(r) \/ CleanGet(r) \/ CleanConflict(r)
             \/ Write(r) \/ WriteConflict(r) \/ HandleFailure(r)
             \/ EnsureHelmChart(r) \/ CleanupHelmChart(r) \/ RemoveFinalizer(r) \/ CallFails(r)
      PROVE  UNCHANGED src
  BY <1>5 DEF EnsureGet, EnsureConflict, CleanGet, CleanConflict, Retry, Write, WriteConflict,
              HandleFailure, EnsureHelmChart, CleanupHelmChart, RemoveFinalizer, CallFails
<1>6. ASSUME NEW r \in Releases, Reconcile(r) PROVE UNCHANGED src
  BY <1>6 DEF Reconcile, NothingToResolve, LeaveSpecChart, MarkPending, ReplaceCandidate,
              JoinCandidate, DisconnectLast, MarkReady, UseApplied, DeleteReconcile, Begin
<1>7. ASSUME NEW r \in Releases, CacheSync(r) \/ Resync(r) \/ EditChart(r) \/ DeleteRelease(r)
      PROVE  UNCHANGED src
  BY <1>7 DEF CacheSync, Resync, EditChart, DeleteRelease, Edited
<1>8. ASSUME (\E s \in Sources : Touch(s)) \/ Crash \/ UNCHANGED vars
      PROVE  UNCHANGED src
  BY <1>8 DEF Touch, Crash, vars
<1>9. QED
  BY <1>1, <1>2, <1>3, <1>4, <1>5, <1>6, <1>7, <1>8 DEF Next, WorkerStep

\* Such a change is a step of SharedSources, or one it does not see.
LEMMA SharingStep ==
  ASSUME TypeInv, NEW s \in Sources, Changed(s), \A t \in Sources \ {s} : src'[t] = src[t]
  PROVE  [Sharing!Next]_(Sharing!vars)
<1> DEFINE U == [t \in Sources |-> UsersOf(t)]
<1>0. /\ \A t \in Sources \ {s} : U'[t] = U[t] /\ (t \in LiveSources' <=> t \in LiveSources)
      /\ LiveSources \subseteq Sources /\ LiveSources' \subseteq Sources
      /\ DOMAIN U = Sources /\ DOMAIN U' = Sources /\ U[s] = UsersOf(s) /\ U'[s] = UsersOf(s)'
      /\ s \in LiveSources <=> src[s].state = "live"
      /\ s \in LiveSources' <=> src'[s].state = "live"
  BY DEF UsersOf, LiveSources
<1>1. \A X : U'[s] = X => U' = [U EXCEPT ![s] = X]
  BY <1>0 DEF UsersOf
<1>2. CASE ~(s \in LiveSources) /\ ~(s \in LiveSources')
  <2>1. LiveSources' = LiveSources
    BY <1>0, <1>2
  <2>2. U' = U
    BY <1>0, <1>2 DEF UsersOf
  <2> QED
    BY <2>1, <2>2 DEF Sharing!vars
<1>3. CASE ~(s \in LiveSources) /\ s \in LiveSources'
  <2>1. PICK r \in Releases : src'[s] = [state |-> "live", refs |-> {r}]
    BY <1>0, <1>3 DEF Changed
  <2>2. U'[s] = {r}
    BY <1>0, <2>1 DEF UsersOf
  <2>3. U' = [U EXCEPT ![s] = {r}] /\ LiveSources' = LiveSources \cup {s}
    BY <1>0, <1>1, <1>3, <2>2
  <2> QED
    BY <1>3, <2>3 DEF Sharing!Next, Sharing!Create
<1>4. CASE s \in LiveSources /\ ~(s \in LiveSources')
  <2>1. src[s].refs = {Blank}
    BY <1>0, <1>4 DEF Changed
  <2>2. U[s] = {} /\ U'[s] = {}
    BY <1>0, <1>4, <2>1, NamesAssumption DEF UsersOf
  <2>3. U' = U /\ LiveSources' = LiveSources \ {s}
    BY <1>0, <1>1, <1>4, <2>2 DEF UsersOf
  <2> QED
    BY <1>4, <2>2, <2>3 DEF Sharing!Next, Sharing!Delete
<1>5. CASE s \in LiveSources /\ s \in LiveSources'
  <2>1. PICK r \in Releases : \/ src'[s].refs = src[s].refs \cup {r}
                              \/ src'[s].refs = Join(src[s].refs \ {r})
    BY <1>0, <1>5 DEF Changed
  <2>2. U[s] = src[s].refs \cap Releases /\ U'[s] = src'[s].refs \cap Releases
    BY <1>0, <1>5 DEF UsersOf
  <2>3. U'[s] = U[s] \cup {r} \/ U'[s] = U[s] \ {r}
    BY <2>1, <2>2, NamesAssumption DEF Join
  <2>4. LiveSources' = LiveSources
    BY <1>0, <1>5
  <2>5. U' = [U EXCEPT ![s] = U[s] \cup {r}] \/ U' = [U EXCEPT ![s] = U[s] \ {r}]
    BY <1>1, <2>3
  <2> QED
    BY <1>5, <2>4, <2>5 DEF Sharing!Next, Sharing!Join, Sharing!Leave
<1>6. QED
  BY <1>2, <1>3, <1>4, <1>5

(***************************************************************************)
(* ChartSource implements SharedSources: for any number of Releases and    *)
(* sources, with conflicts, retries, failures, restarts and slow           *)
(* finalizers, the workers' updates of a source's annotation and their     *)
(* deletes are joins, leaves and deletes of an unused source, one at a time*)
(* (ensureChartSourceRef, cleanupChartSourceRef).                          *)
(***************************************************************************)
THEOREM ImplementsSharing == Spec => KeepsSharing
<1>1. Init => Sharing!Init
  <2> SUFFICES ASSUME Init PROVE Sharing!Init
    OBVIOUS
  <2>1. \A s \in Sources : src[s].state = "absent"
    BY DEF Init, NoSource
  <2>2. LiveSources = {} /\ \A s \in Sources : UsersOf(s) = {}
    BY <2>1 DEF LiveSources, UsersOf
  <2> QED
    BY <2>2 DEF Sharing!Init
<1>2. TypeInv /\ LockInv /\ [Next]_vars => [Sharing!Next]_(Sharing!vars)
  <2> SUFFICES ASSUME TypeInv, LockInv, [Next]_vars PROVE [Sharing!Next]_(Sharing!vars)
    OBVIOUS
  <2>1. CASE UNCHANGED src
    BY <2>1 DEF Sharing!vars, LiveSources, UsersOf
  <2>2. CASE OneChanged
    BY <2>2, SharingStep DEF OneChanged
  <2> QED
    BY <2>1, <2>2, OneSource
<1>3. QED
  BY <1>1, <1>2, LockInvariant, PTL DEF Spec, KeepsSharing, Sharing!Spec

-----------------------------------------------------------------------------
(***************************************************************************)
(* Applied sources.  AppliedSourceLive is not inductive: a worker with an  *)
(* old copy of the Release might leave the very source the Release has     *)
(* settled on since.  It cannot, because a status is only written from a   *)
(* copy that is current: a copy is at most one status behind (Behind), and *)
(* the one status that makes a worker leave a source is followed by Ready  *)
(* on another.  The invariant also follows the candidate from the update   *)
(* that joined it to the status that applies it (Holds).                   *)
(***************************************************************************)
Behind(c, o) ==
  c.phase = "Disconnecting" =>
    \/ o.phase = "Disconnecting" /\ o.last = c.last /\ o.cand = c.cand
    \/ o.phase = "Ready" /\ o.last = c.cand

Holds(r, o) ==
  /\ o.phase = "Disconnecting" => o.cand \in Sources /\ HasSource(r, o.cand)
  /\ o.phase = "Ready" => o.last \in Sources /\ HasSource(r, o.last)

CopyInv(r) ==
  /\ r \in cacheCurrent => cache[r] = obj[r]
  /\ r \in viewCurrent => pc[r] # "idle"
  /\ cache[r].state = "live" => cache[r].spec \in Sources
  /\ obj[r].state = "live" =>
       /\ obj[r].spec \in Sources /\ cache[r].state = "live"
       /\ Behind(cache[r], obj[r])
       /\ r \in viewCurrent => cache[r] = obj[r]

WorkInv(r) ==
  obj[r].state = "live" /\ pc[r] # "idle" =>
    /\ view[r].state = "live"
    /\ pc[r] \in {"write", "fail", "helmApply"} \cup Ensuring \cup Cleaning
    /\ pc[r] = "write" => then[r] = "requeue"
    /\ pc[r] = "write" /\ r \in viewCurrent => Behind(obj[r], view[r]) /\ Holds(r, view[r])
    /\ pc[r] # "write" /\ r \in viewCurrent => view[r] = obj[r]
    /\ pc[r] \in Ensuring => view[r].phase = "Pending" /\ target[r] = view[r].cand
    /\ pc[r] \in Cleaning =>
         /\ then[r] = "disconnect" /\ view[r].phase = "Disconnecting"
         /\ target[r] = view[r].last /\ view[r].last # view[r].cand
         /\ Behind(view[r], obj[r])

AppliedInv(r) ==
  CopyInv(r) /\ WorkInv(r) /\ (obj[r].state = "live" => Holds(r, obj[r]))

SourceInv ==
  /\ \A s \in Sources : src[s].state # "terminating"
  /\ \A r \in Releases : AppliedInv(r)

(***************************************************************************)
(* When AppliedSourceLive holds: nobody goes from spec.chart to            *)
(* spec.chartRef and back, and a deleted source goes at once.  TLC finds   *)
(* it violated without either: the run chart_revert does so for the first, *)
(* and ensureChartSourceRef may join a source that is already terminating. *)
(***************************************************************************)
InlineOnly == ChartRef \notin Specs /\ ~FluxFinalizer

\* After the step, r still has the source its status o says.
HeldNext(r, o) ==
  /\ o.phase = "Disconnecting" =>
       o.cand \in Sources /\ src'[o.cand].state = "live" /\ r \in src'[o.cand].refs
  /\ o.phase = "Ready" =>
       o.last \in Sources /\ src'[o.last].state = "live" /\ r \in src'[o.last].refs

\* Only the worker of r takes r off a source.
LEMMA KeepsSource ==
  ASSUME SourceInv, InlineOnly, NEW r \in Releases, NEW s \in Sources,
         SourceStep(s), HasSource(r, s), ~(pc[r] = "cleanUpdate" /\ target[r] = s)
  PROVE  src'[s].state = "live" /\ r \in src'[s].refs
<1>1. src[s].state = "live" /\ r \in src[s].refs /\ r # Blank /\ ~FluxFinalizer
  BY NamesAssumption DEF HasSource, InlineOnly
<1>2. QED
  BY <1>1 DEF SourceStep

\* And never off the source it has, or is about to say it has.
LEMMA StillHeld ==
  ASSUME TypeInv, LockInv, SourceInv, InlineOnly, [Next]_vars,
         NEW r \in Releases, obj[r].state = "live"
  PROVE  /\ HeldNext(r, obj[r])
         /\ pc[r] = "write" /\ r \in viewCurrent => HeldNext(r, view[r])
<1>1. \A s \in Sources : SourceStep(s)
  BY LockStep
<1>2. Holds(r, obj[r]) /\ WorkInv(r)
  BY DEF SourceInv, AppliedInv
<1>3. \A s \in Sources : HasSource(r, s) /\ ~(pc[r] = "cleanUpdate" /\ target[r] = s)
                          => src'[s].state = "live" /\ r \in src'[s].refs
  BY <1>1, KeepsSource
<1>4. pc[r] = "cleanUpdate" =>
        /\ obj[r].phase = "Disconnecting" => obj[r].cand # target[r]
        /\ obj[r].phase = "Ready" => obj[r].last # target[r]
  BY <1>2 DEF WorkInv, Behind, Cleaning
<1>5. HeldNext(r, obj[r])
  BY <1>2, <1>3, <1>4 DEF Holds, HeldNext
<1>6. pc[r] = "write" /\ r \in viewCurrent => Holds(r, view[r])
  BY <1>2 DEF WorkInv
<1>7. pc[r] = "write" /\ r \in viewCurrent => HeldNext(r, view[r])
  BY <1>3, <1>6 DEF Holds, HeldNext
<1>8. QED
  BY <1>5, <1>7

\* What a step must show of a Release whose status it leaves alone.
LEMMA AppliedKept ==
  ASSUME TypeInv, LockInv, SourceInv, InlineOnly, [Next]_vars, NEW r \in Releases,
         obj'[r] = obj[r], cache'[r] = cache[r],
         r \in cacheCurrent' => r \in cacheCurrent,
         r \in viewCurrent' => r \in viewCurrent /\ pc'[r] # "idle",
         WorkInv(r)'
  PROVE  AppliedInv(r)'
<1>1. CopyInv(r)'
  BY DEF SourceInv, AppliedInv, CopyInv, Behind
<1>2. ASSUME obj'[r].state = "live" PROVE Holds(r, obj[r])'
  <2>1. HeldNext(r, obj[r])
    BY <1>2, StillHeld
  <2> QED
    BY <2>1 DEF HeldNext, Holds, HasSource
<1>3. QED
  BY <1>1, <1>2 DEF AppliedInv

\* The Releases a step is not about.
LEMMA AppliedFrame ==
  ASSUME TypeInv, LockInv, SourceInv, InlineOnly, [Next]_vars, NEW r \in Releases,
         obj'[r] = obj[r], cache'[r] = cache[r],
         r \in cacheCurrent' => r \in cacheCurrent,
         r \in viewCurrent' => r \in viewCurrent,
         pc'[r] = pc[r], view'[r] = view[r], target'[r] = target[r], then'[r] = then[r]
  PROVE  AppliedInv(r)'
<1>1. WorkInv(r) /\ CopyInv(r)
  BY DEF SourceInv, AppliedInv
<1>2. obj[r].state = "live" /\ pc[r] = "write" /\ r \in viewCurrent => HeldNext(r, view[r])
  BY StillHeld
<1>3. obj[r].state = "live" /\ pc[r] = "write" /\ r \in viewCurrent => Holds(r, view[r])'
  BY <1>2 DEF HeldNext, Holds, HasSource
<1>4. WorkInv(r)'
  BY <1>1, <1>3 DEF WorkInv, Behind
<1>5. QED
  BY <1>1, <1>4, AppliedKept DEF CopyInv

\* The end of a reconcile.
LEMMA AppliedReturn ==
  ASSUME TypeInv, LockInv, SourceInv, InlineOnly, [Next]_vars, NEW r \in Releases,
         UNCHANGED <<obj, cache, cacheCurrent>>, pc'[r] = "idle", r \notin viewCurrent'
  PROVE  AppliedInv(r)'
<1>1. WorkInv(r)'
  BY DEF WorkInv
<1>2. QED
  BY <1>1, AppliedKept

\* An error of a call other than a status write.
LEMMA AppliedFails ==
  ASSUME TypeInv, LockInv, SourceInv, InlineOnly, [Next]_vars, NEW r \in Releases,
         UNCHANGED objects, pc[r] \notin {"idle", "write"}, Fails(r)
  PROVE  AppliedInv(r)'
<1>1. UNCHANGED <<obj, cache, cacheCurrent>>
  BY DEF objects
<1>2. CASE view[r].state = "deleting"
  <2>1. pc'[r] = "idle" /\ r \notin viewCurrent'
    BY <1>2, FailsMoves
  <2> QED
    BY <1>1, <2>1, AppliedReturn
<1>3. CASE view[r].state # "deleting"
  <2>1. pc'[r] = "fail" /\ view'[r] = view[r] /\ viewCurrent' = viewCurrent
    BY <1>3, FailsMoves
  <2>2. WorkInv(r)
    BY DEF SourceInv, AppliedInv
  <2>3. WorkInv(r)'
    BY <1>1, <2>1, <2>2 DEF WorkInv, Ensuring, Cleaning
  <2> QED
    BY <1>1, <2>1, <2>3, AppliedKept
<1>4. QED
  BY <1>2, <1>3

\* The end of a cleanup.
LEMMA AppliedAfterCleanup ==
  ASSUME TypeInv, LockInv, SourceInv, InlineOnly, [Next]_vars, NEW r \in Releases,
         UNCHANGED objects, UNCHANGED viewCurrent, pc[r] \in Cleaning, AfterCleanup(r)
  PROVE  AppliedInv(r)'
<1>1. UNCHANGED <<obj, cache, cacheCurrent>>
  BY DEF objects
<1>2. WorkInv(r)
  BY DEF SourceInv, AppliedInv
<1>3. pc'[r] # "idle"
  BY AfterCleanupMoves
<1>4. ASSUME obj[r].state = "live" PROVE WorkInv(r)'
  <2>1. then[r] = "disconnect" /\ view[r].state = "live" /\ pc[r] # "write"
        /\ view[r].phase = "Disconnecting"
    BY <1>2, <1>4 DEF WorkInv, Cleaning
  <2>2. /\ pc'[r] = "write" /\ then'[r] = "requeue"
        /\ view'[r] = [view[r] EXCEPT !.last = view[r].cand, !.phase = "Ready"]
    BY <2>1, AfterCleanupMoves
  <2>3. view[r] \in Release
    BY DEF TypeInv, TypeOK
  <2>4. view'[r].state = "live" /\ view'[r].phase = "Ready" /\ view'[r].last = view[r].cand
    BY <2>1, <2>2, <2>3 DEF Release
  <2>5. ASSUME r \in viewCurrent PROVE Behind(obj[r], view[r])' /\ Holds(r, view[r])'
    <3>1. view[r] = obj[r] /\ HeldNext(r, obj[r])
      BY <1>2, <1>4, <2>1, <2>5, StillHeld DEF WorkInv, Cleaning
    <3> QED
      BY <1>1, <2>1, <2>4, <3>1 DEF Behind, Holds, HeldNext, HasSource
  <2> QED
    BY <2>2, <2>4, <2>5 DEF WorkInv, Ensuring, Cleaning
<1>5. WorkInv(r)'
  BY <1>1, <1>4 DEF WorkInv
<1>6. QED
  BY <1>1, <1>3, <1>5, AppliedKept

\* Reconcile's first step.
LEMMA AppliedReconcile ==
  ASSUME TypeInv, LockInv, SourceInv, InlineOnly, [Next]_vars, NEW r \in Releases, Reconcile(r)
  PROVE  AppliedInv(r)'
<1>1. CopyInv(r) /\ cache[r] \in Release /\ (obj[r].state = "live" => Holds(r, obj[r]))
  BY DEF SourceInv, AppliedInv, TypeInv, TypeOK
<1>2. ASSUME NEW label, NEW v, NEW s, NEW k, Begin(r, label, v, s, k)
      PROVE  /\ UNCHANGED <<obj, cache, cacheCurrent>>
             /\ pc'[r] = label /\ view'[r] = v /\ target'[r] = s /\ then'[r] = k
             /\ r \in viewCurrent' => cache[r] = obj[r]
  BY <1>1, <1>2, ContinueMoves DEF Begin, objects, CopyInv
<1>3. ASSUME NEW label, NEW v, NEW s, NEW k, Begin(r, label, v, s, k), label # "idle", WorkInv(r)'
      PROVE  AppliedInv(r)'
  <2>1. /\ UNCHANGED <<obj, cache, cacheCurrent>> /\ pc'[r] # "idle"
        /\ r \in viewCurrent' => cache[r] = obj[r]
    BY <1>2, <1>3
  <2>2. CopyInv(r)'
    BY <1>1, <2>1 DEF CopyInv, Behind
  <2>3. ASSUME obj'[r].state = "live" PROVE Holds(r, obj[r])'
    <3>1. HeldNext(r, obj[r])
      BY <2>1, <2>3, StillHeld
    <3> QED
      BY <2>1, <3>1 DEF HeldNext, Holds, HasSource
  <2> QED
    BY <1>3, <2>2, <2>3 DEF AppliedInv
<1>4. ASSUME NEW v \in Release, Begin(r, "write", v, None, "requeue"), v.state = "live",
             obj[r].state = "live" /\ cache[r] = obj[r] => Behind(obj[r], v) /\ HeldNext(r, v)
      PROVE  AppliedInv(r)'
  <2>1. /\ UNCHANGED <<obj, cache, cacheCurrent>>
        /\ pc'[r] = "write" /\ view'[r] = v /\ then'[r] = "requeue"
        /\ r \in viewCurrent' => cache[r] = obj[r]
    BY <1>2, <1>4
  <2>2. ASSUME obj[r].state = "live", r \in viewCurrent'
        PROVE  Behind(obj[r], view[r])' /\ Holds(r, view[r])'
    BY <1>4, <2>1, <2>2 DEF Behind, Holds, HeldNext, HasSource
  <2>3. WorkInv(r)'
    BY <1>4, <2>1, <2>2 DEF WorkInv, Ensuring, Cleaning
  <2> QED
    BY <1>3, <1>4, <2>3
<1>5. CASE NothingToResolve(r)
  BY <1>5, AppliedFrame DEF NothingToResolve, objects, local
<1>6. CASE LeaveSpecChart(r)
  BY <1>1, <1>6, SpecsAssumption DEF LeaveSpecChart, Live, CopyInv
<1>7. CASE MarkPending(r)
  <2> DEFINE v == [cache[r] EXCEPT !.phase = "Pending", !.cand = cache[r].spec]
  <2>1. /\ cache[r].spec \in Ref /\ Begin(r, "write", v, None, "requeue")
        /\ cache[r].phase \in {"", "Ready"} /\ cache[r].state = "live"
    BY <1>7 DEF MarkPending, Live, Ref
  <2>2. v \in Release
    BY <1>1, <2>1, RecordTypes
  <2>3. v.state = "live" /\ v.phase = "Pending"
    BY <1>1, <2>1 DEF Release
  <2>4. cache[r] = obj[r] => Behind(obj[r], v) /\ HeldNext(r, v)
    BY <2>1, <2>3 DEF Behind, HeldNext
  <2> HIDE DEF v
  <2> QED
    BY <1>4, <2>1, <2>2, <2>3, <2>4
<1>8. CASE ReplaceCandidate(r)
  <2> DEFINE v == [cache[r] EXCEPT !.cand = cache[r].spec]
  <2>1. /\ cache[r].spec \in Ref /\ Begin(r, "write", v, None, "requeue")
        /\ cache[r].phase = "Pending" /\ cache[r].state = "live"
    BY <1>8 DEF ReplaceCandidate, Live, Ref
  <2>2. v \in Release
    BY <1>1, <2>1, RecordTypes
  <2>3. v.state = "live" /\ v.phase = "Pending"
    BY <1>1, <2>1 DEF Release
  <2>4. cache[r] = obj[r] => Behind(obj[r], v) /\ HeldNext(r, v)
    BY <2>1, <2>3 DEF Behind, HeldNext
  <2> HIDE DEF v
  <2> QED
    BY <1>4, <2>1, <2>2, <2>3, <2>4
<1>9. CASE JoinCandidate(r)
  <2>1. /\ Begin(r, "ensureGet", cache[r], cache[r].cand, "pending")
        /\ cache[r].state = "live" /\ cache[r].phase = "Pending"
    BY <1>9 DEF JoinCandidate, Live
  <2>2. /\ UNCHANGED <<obj, cache, cacheCurrent>> /\ pc'[r] = "ensureGet"
        /\ view'[r] = cache[r] /\ target'[r] = cache[r].cand
        /\ r \in viewCurrent' => cache[r] = obj[r]
    BY <1>2, <2>1
  <2>3. WorkInv(r)'
    BY <2>1, <2>2 DEF WorkInv, Ensuring, Cleaning
  <2> QED
    BY <1>3, <2>1, <2>3
<1>10. CASE DisconnectLast(r)
  <2>1. /\ Begin(r, "cleanGet", cache[r], cache[r].last, "disconnect")
        /\ cache[r].state = "live" /\ cache[r].phase = "Disconnecting"
        /\ cache[r].last # cache[r].cand
    BY <1>10 DEF DisconnectLast, Live
  <2>2. /\ UNCHANGED <<obj, cache, cacheCurrent>> /\ pc'[r] = "cleanGet"
        /\ view'[r] = cache[r] /\ target'[r] = cache[r].last /\ then'[r] = "disconnect"
        /\ r \in viewCurrent' => cache[r] = obj[r]
    BY <1>2, <2>1
  <2>3. WorkInv(r)'
    BY <1>1, <2>1, <2>2 DEF WorkInv, Ensuring, Cleaning, CopyInv, Behind
  <2> QED
    BY <1>3, <2>1, <2>3
<1>11. CASE MarkReady(r)
  <2> DEFINE v == [cache[r] EXCEPT !.last = cache[r].cand, !.phase = "Ready"]
  <2>1. /\ cache[r].cand \in Ref /\ Begin(r, "write", v, None, "requeue")
        /\ cache[r].phase = "Disconnecting" /\ cache[r].state = "live"
    BY <1>1, <1>11 DEF MarkReady, Live, Release
  <2>2. v \in Release
    BY <1>1, <2>1, RecordTypes
  <2>3. v.state = "live" /\ v.phase = "Ready" /\ v.last = cache[r].cand
    BY <1>1, <2>1 DEF Release
  <2>4. ASSUME obj[r].state = "live", cache[r] = obj[r]
        PROVE  Behind(obj[r], v) /\ HeldNext(r, v)
    <3>1. HeldNext(r, obj[r])
      BY <2>4, StillHeld
    <3> QED
      BY <2>1, <2>3, <2>4, <3>1 DEF Behind, HeldNext
  <2> HIDE DEF v
  <2> QED
    BY <1>4, <2>1, <2>2, <2>3, <2>4
<1>12. CASE UseApplied(r)
  <2>1. /\ Begin(r, "helmApply", cache[r], None, "none") /\ cache[r].state = "live"
    BY <1>12 DEF UseApplied, Live
  <2>2. /\ UNCHANGED <<obj, cache, cacheCurrent>> /\ pc'[r] = "helmApply" /\ view'[r] = cache[r]
        /\ r \in viewCurrent' => cache[r] = obj[r]
    BY <1>2, <2>1
  <2>3. WorkInv(r)'
    BY <2>1, <2>2 DEF WorkInv, Ensuring, Cleaning
  <2> QED
    BY <1>3, <2>1, <2>3
<1>13. CASE DeleteReconcile(r)
  <2>1. Begin(r, "write", cache[r], None, "cleanup") /\ obj[r].state # "live"
    BY <1>1, <1>13 DEF DeleteReconcile, CopyInv
  <2>2. UNCHANGED obj
    BY <1>2, <2>1
  <2>3. WorkInv(r)'
    BY <2>1, <2>2 DEF WorkInv
  <2> QED
    BY <1>3, <2>1, <2>3
<1>14. QED
  BY <1>5, <1>6, <1>7, <1>8, <1>9, <1>10, <1>11, <1>12, <1>13 DEF Reconcile

\* ensureChartSourceRef: the candidate is joined before the status says so.
LEMMA AppliedEnsure ==
  ASSUME TypeInv, LockInv, SourceInv, InlineOnly, [Next]_vars, NEW r \in Releases,
         EnsureGet(r) \/ EnsureCreate(r) \/ EnsureUpdate(r) \/ EnsureConflict(r)
  PROVE  AppliedInv(r)'
<1>1. /\ UNCHANGED objects /\ UNCHANGED <<obj, cache, cacheCurrent>>
      /\ pc[r] \in Ensuring /\ target[r] \in Sources
      /\ src[target[r]] \in Source /\ view[r] \in Release
  BY DEF EnsureGet, EnsureCreate, EnsureUpdate, EnsureConflict, Retry, objects, Ensuring,
         TypeInv, TypeOK, Targets
<1>2. WorkInv(r) /\ src[target[r]].state # "terminating"
  BY <1>1 DEF SourceInv, AppliedInv
<1>3. ASSUME UNCHANGED <<view, viewCurrent, target>>, pc'[r] \in Ensuring PROVE AppliedInv(r)'
  <2>1. WorkInv(r)'
    BY <1>1, <1>2, <1>3 DEF WorkInv, Ensuring, Cleaning
  <2> QED
    BY <1>1, <1>3, <2>1, AppliedKept DEF Ensuring
<1>4. ASSUME Joined(r), UNCHANGED viewCurrent,
             src'[target[r]].state = "live", r \in src'[target[r]].refs
      PROVE  AppliedInv(r)'
  <2> DEFINE v == [view[r] EXCEPT !.phase = "Disconnecting"]
  <2>1. Continue(r, "write", v, None, "requeue")
    BY <1>4 DEF Joined
  <2>2. v.state = view[r].state /\ v.phase = "Disconnecting" /\ v.cand = view[r].cand
    BY <1>1 DEF Release
  <2> HIDE DEF v
  <2>3. pc'[r] = "write" /\ view'[r] = v /\ then'[r] = "requeue"
    BY <2>1, ContinueMoves
  <2>4. ASSUME obj[r].state = "live"
        PROVE  /\ view[r].state = "live" /\ target[r] = view[r].cand
               /\ r \in viewCurrent => obj[r].phase = "Pending"
    BY <1>1, <1>2, <2>4 DEF WorkInv, Ensuring
  <2>5. WorkInv(r)'
    BY <1>1, <1>4, <2>2, <2>3, <2>4
       DEF WorkInv, Ensuring, Cleaning, Behind, Holds, HasSource
  <2> QED
    BY <1>1, <1>4, <2>3, <2>5, AppliedKept
<1>5. CASE EnsureGet(r)
  <2>1. UNCHANGED <<view, viewCurrent, target>> /\ pc'[r] \in Ensuring
    BY <1>5 DEF EnsureGet, Goto, Ensuring, TypeInv, TypeOK
  <2> QED
    BY <1>3, <2>1
<1>6. CASE EnsureCreate(r)
  <2>1. CASE src[target[r]].state = "absent"
    <3>1. src'[target[r]] = [state |-> "live", refs |-> {r}] /\ Joined(r) /\ UNCHANGED viewCurrent
      BY <1>1, <1>6, <2>1 DEF EnsureCreate, TypeInv, TypeOK
    <3> QED
      BY <1>4, <3>1
  <2>2. CASE src[target[r]].state # "absent"
    <3>1. Fails(r) /\ pc[r] \notin {"idle", "write"}
      BY <1>6, <2>2 DEF EnsureCreate
    <3> QED
      BY <1>1, <3>1, AppliedFails
  <2> QED
    BY <2>1, <2>2
<1>7. CASE EnsureUpdate(r)
  <2>1. /\ Joined(r) /\ UNCHANGED viewCurrent /\ Locked(r) /\ pc[r] = "ensureUpdate"
        /\ src'[target[r]] = [src[target[r]] EXCEPT !.refs = refs[r] \cup {r}]
    BY <1>1, <1>7 DEF EnsureUpdate, LockInv, TypeInv, TypeOK
  <2>2. src[target[r]].state = "live"
    BY <1>1, <1>2, <2>1 DEF Locked, Source
  <2>3. src'[target[r]].state = "live" /\ r \in src'[target[r]].refs
    BY <1>1, <2>1, <2>2 DEF Source
  <2> QED
    BY <1>4, <2>1, <2>3
<1>8. CASE EnsureConflict(r)
  <2>1. CASE tries[r] > 1 /\ src[target[r]].state # "absent"
    <3>1. UNCHANGED <<view, viewCurrent, target>> /\ pc'[r] \in Ensuring
      BY <1>8, <2>1 DEF EnsureConflict, Retry, Goto, Ensuring, TypeInv, TypeOK
    <3> QED
      BY <1>3, <3>1
  <2>2. CASE ~(tries[r] > 1 /\ src[target[r]].state # "absent")
    <3>1. Fails(r) /\ pc[r] \notin {"idle", "write"}
      BY <1>8, <2>2 DEF EnsureConflict, Retry
    <3> QED
      BY <1>1, <3>1, AppliedFails
  <2> QED
    BY <2>1, <2>2
<1>9. QED
  BY <1>5, <1>6, <1>7, <1>8

\* cleanupChartSourceRef: what it leaves is not what the status says.
LEMMA AppliedClean ==
  ASSUME TypeInv, LockInv, SourceInv, InlineOnly, [Next]_vars, NEW r \in Releases,
         CleanGet(r) \/ CleanUpdate(r) \/ CleanDelete(r) \/ CleanConflict(r)
  PROVE  AppliedInv(r)'
<1>1. /\ UNCHANGED objects /\ UNCHANGED <<obj, cache, cacheCurrent>>
      /\ pc[r] \in Cleaning /\ pc[r] \notin {"idle", "write"}
  BY DEF CleanGet, CleanUpdate, CleanDelete, CleanConflict, Retry, objects, Cleaning
<1>2. WorkInv(r)
  BY DEF SourceInv, AppliedInv
<1>3. ASSUME UNCHANGED <<view, viewCurrent, target, then>>, pc'[r] \in Cleaning
      PROVE  AppliedInv(r)'
  <2>1. WorkInv(r)'
    BY <1>1, <1>2, <1>3 DEF WorkInv, Behind, Ensuring, Cleaning
  <2> QED
    BY <1>1, <1>3, <2>1, AppliedKept DEF Cleaning
<1>4. ASSUME AfterCleanup(r), UNCHANGED viewCurrent PROVE AppliedInv(r)'
  BY <1>1, <1>4, AppliedAfterCleanup
<1>5. ASSUME Fails(r) PROVE AppliedInv(r)'
  BY <1>1, <1>5, AppliedFails
<1>6. CASE CleanGet(r)
  <2>1. CASE src[target[r]].state = "absent" \/ r \notin src[target[r]].refs
    BY <1>4, <1>6, <2>1 DEF CleanGet
  <2>2. CASE ~(src[target[r]].state = "absent" \/ r \notin src[target[r]].refs)
    <3>1. UNCHANGED <<view, viewCurrent, target, then>> /\ pc'[r] = "cleanUpdate"
      BY <1>6, <2>2 DEF CleanGet, Goto, TypeInv, TypeOK
    <3> QED
      BY <1>3, <3>1 DEF Cleaning
  <2> QED
    BY <2>1, <2>2
<1>7. CASE CleanUpdate(r)
  <2>1. CASE refs[r] \ {r} = {}
    <3>1. UNCHANGED <<view, viewCurrent, target, then>> /\ pc'[r] = "cleanDelete"
      BY <1>7, <2>1 DEF CleanUpdate, Goto, TypeInv, TypeOK
    <3> QED
      BY <1>3, <3>1 DEF Cleaning
  <2>2. CASE refs[r] \ {r} # {}
    BY <1>4, <1>7, <2>2 DEF CleanUpdate
  <2> QED
    BY <2>1, <2>2
<1>8. CASE CleanDelete(r)
  <2>1. CASE r \in fresh
    BY <1>4, <1>8, <2>1 DEF CleanDelete
  <2>2. CASE r \notin fresh /\ src[target[r]].state = "absent"
    BY <1>4, <1>8, <2>2 DEF CleanDelete
  <2>3. CASE r \notin fresh /\ src[target[r]].state # "absent"
    BY <1>5, <1>8, <2>3 DEF CleanDelete
  <2> QED
    BY <2>1, <2>2, <2>3
<1>9. CASE CleanConflict(r)
  <2>1. CASE tries[r] > 1 /\ src[target[r]].state # "absent"
    <3>1. UNCHANGED <<view, viewCurrent, target, then>> /\ pc'[r] = "cleanGet"
      BY <1>9, <2>1 DEF CleanConflict, Retry, Goto, TypeInv, TypeOK
    <3> QED
      BY <1>3, <3>1 DEF Cleaning
  <2>2. CASE ~(tries[r] > 1 /\ src[target[r]].state # "absent")
    BY <1>5, <1>9, <2>2 DEF CleanConflict, Retry
  <2> QED
    BY <2>1, <2>2
<1>10. QED
  BY <1>6, <1>7, <1>8, <1>9

\* The status writes, the HelmChart, the finalizer.
LEMMA AppliedWrites ==
  ASSUME TypeInv, LockInv, SourceInv, InlineOnly, [Next]_vars, NEW r \in Releases,
         \/ Write(r) \/ WriteConflict(r) \/ HandleFailure(r)
         \/ EnsureHelmChart(r) \/ CleanupHelmChart(r) \/ RemoveFinalizer(r)
  PROVE  AppliedInv(r)'
<1>1. /\ CopyInv(r) /\ WorkInv(r) /\ obj[r] \in Release /\ r \in DOMAIN obj
  BY DEF SourceInv, AppliedInv, TypeInv, TypeOK
<1>2. ASSUME StatusUpdated(r)
      PROVE  /\ obj'[r].state = obj[r].state /\ obj'[r].spec = obj[r].spec
             /\ obj'[r].phase = view[r].phase /\ obj'[r].last = view[r].last
             /\ obj'[r].cand = view[r].cand /\ cache' = cache /\ r \notin cacheCurrent'
  BY <1>1, <1>2 DEF StatusUpdated, Release
<1>3. ASSUME StatusUpdated(r), pc'[r] = "idle", r \notin viewCurrent',
             obj[r].state = "live" =>
               /\ r \in viewCurrent
               /\ Behind(obj[r], view[r]) /\ HeldNext(r, view[r])
      PROVE  AppliedInv(r)'
  <2>1. CopyInv(r)'
    BY <1>1, <1>2, <1>3 DEF CopyInv, Behind
  <2>2. WorkInv(r)'
    BY <1>3 DEF WorkInv
  <2>3. obj'[r].state = "live" => Holds(r, obj[r])'
    BY <1>2, <1>3 DEF Holds, HeldNext, HasSource
  <2> QED
    BY <2>1, <2>2, <2>3 DEF AppliedInv
<1>4. CASE Write(r)
  <2>1. StatusUpdated(r) /\ pc[r] = "write" /\ r \in viewCurrent
    BY <1>4 DEF Write
  <2>2. CASE then[r] = "requeue"
    <3>1. Return(r, TRUE)
      BY <1>4, <2>2 DEF Write
    <3>2. pc'[r] = "idle" /\ r \notin viewCurrent'
      BY <3>1, ReturnMoves
    <3>3. obj[r].state = "live" => Behind(obj[r], view[r]) /\ HeldNext(r, view[r])
      BY <1>1, <2>1, StillHeld DEF WorkInv
    <3> QED
      BY <1>3, <2>1, <3>2, <3>3
  <2>3. CASE then[r] # "requeue"
    <3>1. obj[r].state # "live"
      BY <1>1, <2>1, <2>3 DEF WorkInv
    <3>2. pc'[r] # "idle"
      <4>1. \/ Continue(r, "helmDelete", view[r], None, "none")
            \/ Continue(r, "cleanGet", view[r], view[r].last, "delete")
            \/ Continue(r, "unfinalize", view[r], None, "none")
        BY <1>4, <2>3 DEF Write
      <4> QED
        BY <4>1, ContinueMoves
    <3>3. CopyInv(r)' /\ WorkInv(r)'
      BY <1>1, <1>2, <2>1, <3>1, <3>2 DEF CopyInv, WorkInv
    <3> QED
      BY <1>2, <2>1, <3>1, <3>3 DEF AppliedInv
  <2> QED
    BY <2>2, <2>3
<1>5. CASE HandleFailure(r)
  <2>1. StatusUpdated(r) /\ pc[r] = "fail" /\ r \in viewCurrent /\ Return(r, ~StallOnFailure)
    BY <1>5 DEF HandleFailure
  <2>2. pc'[r] = "idle" /\ r \notin viewCurrent'
    BY <2>1, ReturnMoves
  <2>3. obj[r].state = "live" => view[r] = obj[r] /\ HeldNext(r, obj[r])
    BY <1>1, <2>1, StillHeld DEF WorkInv
  <2>4. obj[r].state = "live" => Behind(obj[r], view[r]) /\ HeldNext(r, view[r])
    BY <2>3 DEF Behind
  <2> QED
    BY <1>3, <2>1, <2>2, <2>4
<1>6. CASE WriteConflict(r) \/ EnsureHelmChart(r) \/ CleanupHelmChart(r)
  <2>1. UNCHANGED <<obj, cache, cacheCurrent>> /\ (Return(r, TRUE) \/ Return(r, FALSE))
    BY <1>6 DEF WriteConflict, EnsureHelmChart, CleanupHelmChart, objects
  <2>2. pc'[r] = "idle" /\ r \notin viewCurrent'
    BY <2>1, ReturnMoves
  <2> QED
    BY <2>1, <2>2, AppliedReturn
<1>7. CASE RemoveFinalizer(r)
  <2>1. /\ obj'[r] = NoRelease /\ cache' = cache /\ r \notin cacheCurrent' /\ Return(r, FALSE)
    BY <1>1, <1>7 DEF RemoveFinalizer
  <2>2. pc'[r] = "idle" /\ r \notin viewCurrent'
    BY <2>1, ReturnMoves
  <2>3. NoRelease.state # "live"
    BY DEF NoRelease
  <2> QED
    BY <1>1, <2>1, <2>2, <2>3 DEF AppliedInv, CopyInv, WorkInv
<1>8. QED
  BY <1>4, <1>5, <1>6, <1>7

\* A failing call.
LEMMA AppliedCallFails ==
  ASSUME TypeInv, LockInv, SourceInv, InlineOnly, [Next]_vars, NEW r \in Releases, CallFails(r)
  PROVE  AppliedInv(r)'
<1>1. UNCHANGED <<obj, cache, cacheCurrent>> /\ UNCHANGED objects
  BY DEF CallFails, objects
<1>2. CASE Return(r, TRUE)
  <2>1. pc'[r] = "idle" /\ r \notin viewCurrent'
    BY <1>2, ReturnMoves
  <2> QED
    BY <1>1, <2>1, AppliedReturn
<1>3. CASE pc[r] \notin {"idle", "write"} /\ Fails(r)
  BY <1>1, <1>3, AppliedFails
<1>4. QED
  BY <1>2, <1>3 DEF CallFails

\* The informer and the users.
LEMMA AppliedUsers ==
  ASSUME TypeInv, LockInv, SourceInv, InlineOnly, [Next]_vars, NEW r \in Releases,
         CacheSync(r) \/ EditChart(r) \/ DeleteRelease(r)
  PROVE  AppliedInv(r)'
<1>1. /\ CopyInv(r) /\ WorkInv(r) /\ obj[r] \in Release /\ r \in DOMAIN obj /\ r \in DOMAIN cache
  BY DEF SourceInv, AppliedInv, TypeInv, TypeOK
<1>2. obj[r].state = "live" =>
        /\ HeldNext(r, obj[r])
        /\ pc[r] = "write" /\ r \in viewCurrent => HeldNext(r, view[r])
  BY StillHeld
<1>3. CASE CacheSync(r)
  <2>1. /\ cache'[r] = obj[r] /\ UNCHANGED <<obj, pc, view, viewCurrent, target, then>>
    BY <1>1, <1>3 DEF CacheSync, local
  <2>2. CopyInv(r)'
    BY <1>1, <2>1 DEF CopyInv, Behind
  <2>3. obj[r].state = "live" =>
          /\ Holds(r, obj[r])'
          /\ pc[r] = "write" /\ r \in viewCurrent => Holds(r, view[r])'
    BY <1>2, <2>1 DEF HeldNext, Holds, HasSource
  <2>4. WorkInv(r)'
    BY <1>1, <2>1, <2>3 DEF WorkInv, Behind
  <2> QED
    BY <2>1, <2>2, <2>3, <2>4 DEF AppliedInv
<1>4. ASSUME NEW new, Edited(r, new), obj[r].state = "live",
             new.state = "live" => new.spec \in Sources,
             new.phase = obj[r].phase, new.last = obj[r].last, new.cand = obj[r].cand
      PROVE  AppliedInv(r)'
  <2>1. /\ obj'[r] = new /\ cache' = cache /\ r \notin cacheCurrent' /\ r \notin viewCurrent'
        /\ UNCHANGED <<pc, view, target, then>>
    BY <1>1, <1>4 DEF Edited
  <2>2. CopyInv(r)'
    BY <1>1, <1>4, <2>1 DEF CopyInv, Behind
  <2>3. WorkInv(r)'
    BY <1>1, <1>4, <2>1 DEF WorkInv, Behind
  <2>4. Holds(r, obj[r])'
    BY <1>2, <1>4, <2>1 DEF HeldNext, Holds, HasSource
  <2> QED
    BY <2>2, <2>3, <2>4 DEF AppliedInv
<1>5. CASE EditChart(r)
  <2>1. PICK s \in Specs : Edited(r, [obj[r] EXCEPT !.spec = s])
    BY <1>5 DEF EditChart
  <2>2. s \in Sources /\ obj[r].state = "live"
    BY <1>5, SpecsAssumption DEF InlineOnly, EditChart
  <2> DEFINE new == [obj[r] EXCEPT !.spec = s]
  <2>3. /\ new.spec = s /\ new.phase = obj[r].phase /\ new.last = obj[r].last
        /\ new.cand = obj[r].cand /\ Edited(r, new)
    BY <1>1, <2>1 DEF Release
  <2> HIDE DEF new
  <2> QED
    BY <1>4, <2>2, <2>3
<1>6. CASE DeleteRelease(r)
  <2> DEFINE new == [obj[r] EXCEPT !.state = "deleting"]
  <2>1. /\ new.state = "deleting" /\ new.phase = obj[r].phase /\ new.last = obj[r].last
        /\ new.cand = obj[r].cand /\ Edited(r, new) /\ obj[r].state = "live"
    BY <1>1, <1>6 DEF DeleteRelease, Release
  <2> HIDE DEF new
  <2> QED
    BY <1>4, <2>1
<1>7. QED
  BY <1>3, <1>5, <1>6

\* A restart takes the copies anew.
LEMMA AppliedCrash ==
  ASSUME TypeInv, LockInv, SourceInv, InlineOnly, [Next]_vars, NEW r \in Releases, Crash
  PROVE  AppliedInv(r)'
<1>1. cache' = obj /\ UNCHANGED obj /\ pc'[r] = "idle" /\ viewCurrent' = {}
  BY DEF Crash
<1>2. CopyInv(r)' /\ WorkInv(r)'
  BY <1>1 DEF SourceInv, AppliedInv, CopyInv, WorkInv, Behind
<1>3. obj[r].state = "live" => HeldNext(r, obj[r])
  BY StillHeld
<1>4. QED
  BY <1>1, <1>2, <1>3 DEF AppliedInv, Holds, HeldNext, HasSource

\* The step of one Release's worker, informer or user leaves the others alone.
LEMMA OthersAlone ==
  ASSUME TypeInv, NEW r \in Releases, NEW q \in Releases \ {r},
         \/ Reconcile(r) \/ WorkerStep(r) \/ CallFails(r) \/ CacheSync(r) \/ Resync(r)
         \/ EditChart(r) \/ DeleteRelease(r)
  PROVE  /\ obj'[q] = obj[q] /\ cache'[q] = cache[q]
         /\ q \in cacheCurrent' => q \in cacheCurrent
         /\ q \in viewCurrent' => q \in viewCurrent
         /\ pc'[q] = pc[q] /\ view'[q] = view[q] /\ target'[q] = target[q] /\ then'[q] = then[q]
<1> DEFINE Alone == /\ obj'[q] = obj[q] /\ cache'[q] = cache[q]
                    /\ q \in cacheCurrent' => q \in cacheCurrent
           Idle == /\ q \in viewCurrent' => q \in viewCurrent
                   /\ pc'[q] = pc[q] /\ view'[q] = view[q] /\ target'[q] = target[q]
                   /\ then'[q] = then[q]
<1>1. ASSUME NEW b, Return(r, b) PROVE Idle
  BY <1>1, ReturnMoves DEF OnlyWorker
<1>2. ASSUME NEW label, NEW v, NEW s, NEW k, Continue(r, label, v, s, k),
             viewCurrent' \ {r} \subseteq viewCurrent
      PROVE  Idle
  BY <1>2, ContinueMoves DEF OnlyWorker
<1>3. ASSUME Fails(r) PROVE Idle
  BY <1>3, FailsMoves DEF OnlyWorker
<1>4. ASSUME AfterCleanup(r), UNCHANGED viewCurrent PROVE Idle
  BY <1>4, AfterCleanupMoves DEF OnlyWorker
<1>5. ASSUME NEW label, Goto(r, label), UNCHANGED <<view, viewCurrent, target, then>> PROVE Idle
  BY <1>5 DEF Goto, TypeInv, TypeOK
<1>6. ASSUME NEW label, NEW v, NEW s, NEW k, Begin(r, label, v, s, k) PROVE Alone /\ Idle
  BY <1>2, <1>6 DEF Begin, objects
<1>7. ASSUME StatusUpdated(r) PROVE Alone
  BY <1>7 DEF StatusUpdated, TypeInv, TypeOK
<1>8. ASSUME UNCHANGED objects PROVE Alone
  BY <1>8 DEF objects
<1>9. ASSUME UNCHANGED local, UNCHANGED pc PROVE Idle
  BY <1>9 DEF local
<1>10. CASE Reconcile(r)
  <2>1. CASE NothingToResolve(r)
    BY <1>8, <1>9, <2>1 DEF NothingToResolve
  <2>2. CASE LeaveSpecChart(r)
    BY <1>6, <2>2 DEF LeaveSpecChart
  <2>3. CASE MarkPending(r) \/ ReplaceCandidate(r) \/ MarkReady(r)
    BY <1>6, <2>3 DEF MarkPending, ReplaceCandidate, MarkReady
  <2>4. CASE JoinCandidate(r) \/ DisconnectLast(r) \/ UseApplied(r) \/ DeleteReconcile(r)
    BY <1>6, <2>4 DEF JoinCandidate, DisconnectLast, UseApplied, DeleteReconcile
  <2> QED
    BY <1>10, <2>1, <2>2, <2>3, <2>4 DEF Reconcile
<1>11. CASE EnsureGet(r) \/ EnsureCreate(r) \/ EnsureUpdate(r)
  <2>1. UNCHANGED objects
    BY <1>11 DEF EnsureGet, EnsureCreate, EnsureUpdate
  <2>2. ASSUME Joined(r), UNCHANGED viewCurrent PROVE Idle
    BY <1>2, <2>2 DEF Joined
  <2>3. CASE EnsureGet(r)
    BY <1>8, <2>1, <1>5, <2>3 DEF EnsureGet
  <2>4. CASE EnsureCreate(r)
    BY <1>8, <2>1, <1>3, <2>2, <2>4 DEF EnsureCreate
  <2>5. CASE EnsureUpdate(r)
    BY <1>8, <2>1, <2>2, <2>5 DEF EnsureUpdate
  <2> QED
    BY <1>8, <1>11, <2>1, <2>3, <2>4, <2>5
<1>12. CASE CleanGet(r) \/ CleanUpdate(r) \/ CleanDelete(r)
  <2>1. UNCHANGED objects
    BY <1>12 DEF CleanGet, CleanUpdate, CleanDelete
  <2>2. CASE CleanGet(r)
    BY <1>8, <2>1, <1>4, <1>5, <2>2 DEF CleanGet
  <2>3. CASE CleanUpdate(r)
    BY <1>8, <2>1, <1>4, <1>5, <2>3 DEF CleanUpdate
  <2>4. CASE CleanDelete(r)
    <3>1. CASE r \in fresh
      BY <1>8, <2>1, <1>4, <2>4, <3>1 DEF CleanDelete
    <3>2. CASE r \notin fresh /\ src[target[r]].state = "absent"
      BY <1>8, <2>1, <1>4, <2>4, <3>2 DEF CleanDelete
    <3>3. CASE r \notin fresh /\ src[target[r]].state # "absent"
      BY <1>8, <2>1, <1>3, <2>4, <3>3 DEF CleanDelete
    <3> QED
      BY <3>1, <3>2, <3>3
  <2> QED
    BY <1>8, <1>12, <2>1, <2>2, <2>3, <2>4
<1>13. CASE EnsureConflict(r) \/ CleanConflict(r)
  BY <1>3, <1>5, <1>8, <1>13 DEF EnsureConflict, CleanConflict, Retry
<1>14. CASE Write(r)
  <2>1. Alone
    BY <1>7, <1>14 DEF Write
  <2>2. \/ Return(r, TRUE)
        \/ /\ UNCHANGED viewCurrent
           /\ \/ Continue(r, "helmDelete", view[r], None, "none")
              \/ Continue(r, "cleanGet", view[r], view[r].last, "delete")
              \/ Continue(r, "unfinalize", view[r], None, "none")
    BY <1>14 DEF Write
  <2>3. Idle
    BY <1>1, <1>2, <2>2
  <2> QED
    BY <2>1, <2>3
<1>15. CASE WriteConflict(r) \/ HandleFailure(r) \/ EnsureHelmChart(r) \/ CleanupHelmChart(r)
  BY <1>1, <1>7, <1>8, <1>15 DEF WriteConflict, HandleFailure, EnsureHelmChart, CleanupHelmChart
<1>16. CASE RemoveFinalizer(r)
  BY <1>1, <1>16 DEF RemoveFinalizer, TypeInv, TypeOK
<1>17. CASE CallFails(r)
  BY <1>1, <1>3, <1>8, <1>17 DEF CallFails
<1>18. CASE CacheSync(r)
  BY <1>9, <1>18 DEF CacheSync, TypeInv, TypeOK
<1>19. CASE Resync(r)
  BY <1>8, <1>9, <1>19 DEF Resync
<1>20. CASE EditChart(r) \/ DeleteRelease(r)
  <2>1. PICK new : Edited(r, new)
    BY <1>20 DEF EditChart, DeleteRelease
  <2> QED
    BY <2>1 DEF Edited, TypeInv, TypeOK
<1>21. QED
  BY <1>10, <1>11, <1>12, <1>13, <1>14, <1>15, <1>16, <1>17, <1>18, <1>19, <1>20 DEF WorkerStep

\* Every step keeps the invariant of applied sources.
LEMMA SourceStepInv ==
  ASSUME TypeInv, LockInv, SourceInv, InlineOnly, [Next]_vars
  PROVE  SourceInv'
<1>1. ASSUME NEW s \in Sources PROVE src'[s].state # "terminating"
  <2>1. SourceStep(s) /\ src[s].state # "terminating" /\ ~FluxFinalizer
    BY LockStep DEF SourceInv, InlineOnly
  <2> QED
    BY <2>1 DEF SourceStep
<1>2. ASSUME NEW r \in Releases,
             \/ Reconcile(r) \/ WorkerStep(r) \/ CallFails(r) \/ CacheSync(r) \/ Resync(r)
             \/ EditChart(r) \/ DeleteRelease(r)
      PROVE  \A q \in Releases : AppliedInv(q)'
  <2>1. ASSUME NEW q \in Releases \ {r} PROVE AppliedInv(q)'
    BY <1>2, OthersAlone, AppliedFrame
  <2>2. CASE Resync(r)
    BY <2>2, AppliedFrame DEF Resync, objects, local
  <2>3. ASSUME WorkerStep(r) PROVE AppliedInv(r)'
    <3>1. CASE EnsureGet(r) \/ EnsureCreate(r) \/ EnsureUpdate(r) \/ EnsureConflict(r)
      BY <3>1, AppliedEnsure
    <3>2. CASE CleanGet(r) \/ CleanUpdate(r) \/ CleanDelete(r) \/ CleanConflict(r)
      BY <3>2, AppliedClean
    <3>3. CASE \/ Write(r) \/ WriteConflict(r) \/ HandleFailure(r)
               \/ EnsureHelmChart(r) \/ CleanupHelmChart(r) \/ RemoveFinalizer(r)
      BY <3>3, AppliedWrites
    <3> QED
      BY <2>3, <3>1, <3>2, <3>3 DEF WorkerStep
  <2>4. AppliedInv(r)'
    BY <1>2, <2>2, <2>3, AppliedReconcile, AppliedCallFails, AppliedUsers
  <2> QED
    BY <2>1, <2>4
<1>3. ASSUME \/ \E s \in Sources : Touch(s) \/ Finalized(s)
             \/ UNCHANGED vars
      PROVE  \A q \in Releases : AppliedInv(q)'
  <2>1. UNCHANGED <<obj, cache, cacheCurrent, viewCurrent, pc, view, target, then>>
    BY <1>3 DEF Touch, Finalized, objects, vars, local
  <2> QED
    BY <2>1, AppliedFrame
<1>4. ASSUME Crash PROVE \A q \in Releases : AppliedInv(q)'
  BY <1>4, AppliedCrash
<1>5. \A q \in Releases : AppliedInv(q)'
  BY <1>2, <1>3, <1>4 DEF Next
<1>6. QED
  BY <1>1, <1>5 DEF SourceInv

\* It holds at the beginning: no Release has a source yet.
LEMMA SourceInit == Init /\ InlineOnly => SourceInv
<1> SUFFICES ASSUME Init, InlineOnly PROVE SourceInv
  OBVIOUS
<1>1. \A s \in Sources : src[s].state # "terminating"
  BY DEF Init, NoSource
<1>2. ASSUME NEW r \in Releases PROVE AppliedInv(r)
  <2>1. PICK s \in Specs : obj[r] = [NoRelease EXCEPT !.state = "live", !.spec = s]
    BY DEF Init
  <2>2. obj[r].state = "live" /\ obj[r].spec = s /\ obj[r].phase = "" /\ s \in Sources
    BY <2>1, SpecsAssumption DEF NoRelease, InlineOnly
  <2>3. cache[r] = obj[r] /\ pc[r] = "idle" /\ viewCurrent = {}
    BY DEF Init
  <2> QED
    BY <2>2, <2>3 DEF AppliedInv, CopyInv, WorkInv, Holds, Behind
<1>3. QED
  BY <1>1, <1>2 DEF SourceInv

(***************************************************************************)
(* A Release that is Ready on a source has it: the object exists and lists *)
(* the Release, for any number of Releases that share sources and come and *)
(* go concurrently, with stale caches, failing calls and restarts.         *)
(***************************************************************************)
THEOREM AppliedSourcesStay ==
  ASSUME ChartRef \notin Specs, ~FluxFinalizer
  PROVE  Spec => []AppliedSourceLive
<1>1. InlineOnly
  BY DEF InlineOnly
<1>2. Init => TypeInv /\ LockInv /\ SourceInv
  BY <1>1, TypeInit, SourceInit DEF Init, LockInv
<1>3. TypeInv /\ LockInv /\ SourceInv /\ [Next]_vars => (TypeInv /\ LockInv /\ SourceInv)'
  BY <1>1, TypeStep, LockStep, SourceStepInv
<1>4. TypeInv /\ LockInv /\ SourceInv => AppliedSourceLive
  BY DEF SourceInv, AppliedInv, Holds, AppliedSourceLive
<1>5. QED
  BY <1>2, <1>3, <1>4, PTL DEF Spec
=============================================================================
