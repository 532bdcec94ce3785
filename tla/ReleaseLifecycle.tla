--------------------------- MODULE ReleaseLifecycle ---------------------------
(***************************************************************************)
(* What the operator promises about a Release and the Helm release it owns,*)
(* without caches, queues, retries or crashes: something owned exists only *)
(* while its Release does, and a Release being deleted stays until nothing *)
(* owned is left, then goes.                                               *)
(***************************************************************************)
VARIABLES
  phase,    \* of the Release: "none", "live" or "deleting"
  owned     \* a Helm release carries the operator's ownership marker

vars == <<phase, owned>>

Init == phase = "live" /\ owned = FALSE

Create == phase = "none" /\ phase' = "live" /\ UNCHANGED owned

(***************************************************************************)
(* Nothing was deployed yet, so there is nothing to wait for.              *)
(***************************************************************************)
Discard == phase = "live" /\ ~owned /\ phase' = "none" /\ UNCHANGED owned

Delete == phase = "live" /\ phase' = "deleting" /\ UNCHANGED owned

(***************************************************************************)
(* A deploy that was running when the Release was deleted may still end.   *)
(***************************************************************************)
Deploy == phase # "none" /\ owned' = TRUE /\ UNCHANGED phase

(***************************************************************************)
(* By the operator, or by another client that uninstalls or takes over.    *)
(***************************************************************************)
Disown == owned' = FALSE /\ UNCHANGED phase

Finish == phase = "deleting" /\ ~owned /\ phase' = "none" /\ UNCHANGED owned

Next == Create \/ Discard \/ Delete \/ Deploy \/ Disown \/ Finish

Spec == Init /\ [][Next]_vars
=============================================================================
