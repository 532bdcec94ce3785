---------------------------- MODULE MCChartSource ----------------------------
(***************************************************************************)
(* Small instances of ChartSource for TLC.                                 *)
(***************************************************************************)
EXTENDS ChartSource, TLC

\* Releases and sources are interchangeable.
ReleaseSymmetry == Permutations(Releases) \cup Permutations(Sources)

\* A constraint: behaviours in which no Release is deleted.
NobodyDeleted == \A r \in Releases : obj[r].state = "live"
=============================================================================
