----------------------------- MODULE SourceWatch -----------------------------
(***************************************************************************)
(* What makes an update of a Flux source enqueue a Release: the predicate  *)
(* of the two source watches and their map functions.  A source c is its   *)
(* Ready condition and the revision of its artifact, st the status of the  *)
(* Release as the informer shows it.                                       *)
(***************************************************************************)

CONSTANT None       \* no artifact

(***************************************************************************)
(* SourceRevisionChangePredicate.Update; creations and deletions of a      *)
(* source are never let through.                                           *)
(***************************************************************************)
RevisionChange(old, new) ==
  \/ old.art = None /\ new.art # None
  \/ old.art # None /\ new.art # None /\ old.art # new.art
  \/ ~old.ready /\ new.ready

isReadyOrReconciling(st) == st.ready \/ st.reconciling

(***************************************************************************)
(* External assumption on Flux, for an OCIRepository: the digest in the    *)
(* revision of an artifact, which extractDigest takes, is the one of the   *)
(* OCI manifest; the artifact's own digest, which Reconcile records as     *)
(* LastAttemptedArtifactDigest, is the one of the tarball in storage.      *)
(* They are digests of different files, so the two are never equal.  Were  *)
(* they, the watch would filter as the one of a HelmChart does.            *)
(***************************************************************************)
extractDigest(art) == <<"manifest", art>>

ArtifactDigest(art) == <<"tarball", art>>

(***************************************************************************)
(* The map functions, called with the old and with the new version of the  *)
(* source, for a Release that the index finds.  st.attempted is the        *)
(* artifact last attempted, recorded by its revision and its digest.       *)
(***************************************************************************)
requestsForHelmChartChange(c, st) ==
  /\ c.art # None
  /\ ~(isReadyOrReconciling(st) /\ st.attempted = c.art)

\* Faulty variant: the digest of the revision compared with its own record.
requestsForOCIRepositoryFiltered(c, st) ==
  /\ c.art # None
  /\ ~(isReadyOrReconciling(st) /\ extractDigest(c.art) = extractDigest(st.attempted))

requestsForOCIRepositoryChange(c, st) ==
  /\ c.art # None
  /\ ~(isReadyOrReconciling(st) /\ extractDigest(c.art) = ArtifactDigest(st.attempted))

Requests(kind, c, st) ==
  CASE kind = "HelmChart" -> requestsForHelmChartChange(c, st)
    [] kind = "OCIRepository" -> requestsForOCIRepositoryChange(c, st)

(***************************************************************************)
(* An update event as the watch of its kind handles it.                    *)
(***************************************************************************)
Enqueues(kind, old, new, st) ==
  /\ RevisionChange(old, new)
  /\ Requests(kind, old, st) \/ Requests(kind, new, st)
=============================================================================
