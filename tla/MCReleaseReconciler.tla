------------------------- MODULE MCReleaseReconciler -------------------------
(***************************************************************************)
(* Small instances of ReleaseReconciler for TLC.                           *)
(***************************************************************************)
EXTENDS ReleaseReconciler

(***************************************************************************)
(* A Release whose installs have failed 28 times, each time before a       *)
(* revision was stored, and that waits for its next retry: the state that  *)
(* 28 rounds of InstallFails, ProjectFailure, WriteFailure and TimerFire   *)
(* lead to.  Starting there spares TLC those rounds.                       *)
(***************************************************************************)
PastFailures == 28

Retrying(r) ==
  [r EXCEPT !.fin = TRUE,
            !.st = [EmptyStatus EXCEPT !.obs = r.gen, !.reconciling = TRUE,
                                       !.failures = PastFailures,
                                       !.attempted = chart.art]]

InitRetrying ==
  /\ chart \in {[ready |-> TRUE, art |-> a] : a \in Artifacts}
  /\ rel \in {Retrying(Fresh(1, w, n)) : w \in Wants, n \in Namespaces}
  /\ cache = rel /\ cacheCurrent = TRUE
  /\ storage = [n \in Namespaces |-> Absent]
  /\ chartSeen = chart /\ chartEvents = << >>
  /\ queued = FALSE /\ timer = TRUE
  /\ pc = "idle" /\ view = Gone(0) /\ viewCurrent = FALSE
  /\ preRel = Absent /\ foreignChange = FALSE
  /\ verified = None
  /\ budget = MaxDisturbances

RetryingSpec == InitRetrying /\ [][Next]_vars
=============================================================================
