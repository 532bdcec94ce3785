---------------------------- MODULE SharedSources ----------------------------
(***************************************************************************)
(* What the operator promises about the sources that Releases share,       *)
(* without caches, locks, conflicts or crashes: Releases join and leave a  *)
(* source one at a time, nobody's name is lost or restored by somebody     *)
(* else, and a source goes only when nobody uses it.                       *)
(***************************************************************************)
CONSTANTS Releases, Sources

VARIABLES
  live,     \* the sources that exist and are not going away
  users     \* for each source, the Releases it lists while it is live

vars == <<live, users>>

Init == live = {} /\ users = [s \in Sources |-> {}]

Create(r, s) ==
  /\ s \notin live
  /\ live' = live \cup {s} /\ users' = [users EXCEPT ![s] = {r}]

Join(r, s) ==
  /\ s \in live
  /\ users' = [users EXCEPT ![s] = @ \cup {r}] /\ UNCHANGED live

Leave(r, s) ==
  /\ s \in live
  /\ users' = [users EXCEPT ![s] = @ \ {r}] /\ UNCHANGED live

Delete(s) ==
  /\ s \in live /\ users[s] = {}
  /\ live' = live \ {s} /\ UNCHANGED users

Next ==
  \E s \in Sources :
    Delete(s) \/ \E r \in Releases : Create(r, s) \/ Join(r, s) \/ Leave(r, s)

Spec == Init /\ [][Next]_vars
=============================================================================
