---------------------------- MODULE ChartBuilders ----------------------------
(***************************************************************************)
(* From spec.chart to the Flux objects that stand for it, and to the names *)
(* under which Reconcile and the index of the watches find them.           *)
(*                                                                         *)
(* A Release r is [ns, name, interval, chart, chartRef], one of the last   *)
(* two None.  A chart source is [kind, url, ref, path, version, verify,    *)
(* valuesFiles, interval]: url stands for what says where it is, ref for   *)
(* the selectors of a git or OCI reference (None if there are none), path  *)
(* for the chart's name or path in it.  Fields that the builders only hand *)
(* through (credentials, timeouts, ignore rules) go with url.              *)
(***************************************************************************)

CONSTANT None       \* a nil field

(***************************************************************************)
(* What the CRD admits as spec.chart: one kind of source, with the fields  *)
(* that kind has.                                                          *)
(***************************************************************************)
GitRepositoryChartSource(c) ==
  c.kind = "GitRepository" /\ c.ref # None /\ c.path # None /\ c.version = None

HelmRepositoryChartSource(c) ==
  c.kind = "HelmRepository" /\ c.ref = None /\ c.path # None

BucketChartSource(c) ==
  c.kind = "Bucket" /\ c.ref = None /\ c.path # None /\ c.version = None /\ c.verify = None

OCIRepositoryChartSource(c) ==
  /\ c.kind = "OCIRepository" /\ c.ref # None
  /\ c.path = None /\ c.version = None /\ c.valuesFiles = << >>

ReleaseChart(c) ==
  \/ GitRepositoryChartSource(c) \/ HelmRepositoryChartSource(c)
  \/ BucketChartSource(c) \/ OCIRepositoryChartSource(c)

getNoneZeroDuration(d, fallback) == IF d = 0 THEN fallback ELSE d

(***************************************************************************)
(* The source objects: which fields of spec.chart are part of the source's *)
(* spec, and so of its identity.                                           *)
(***************************************************************************)
SourceSpec(r, ref, verify) ==
  [url |-> r.chart.url, ref |-> ref, verify |-> verify,
   interval |-> getNoneZeroDuration(r.chart.interval, r.interval)]

buildGitRepository(r) == SourceSpec(r, r.chart.ref, r.chart.verify)

buildHelmRepository(r) == SourceSpec(r, None, None)

buildBucket(r) == SourceSpec(r, None, None)

buildOCIRepository(r) == SourceSpec(r, r.chart.ref, r.chart.verify)

(***************************************************************************)
(* The name is a prefix and a hash of the spec: equal specs share a name,  *)
(* and a collision of the hash is left out.                                *)
(***************************************************************************)
GetObjectHashedName(r, spec) == <<r.ns, spec>>

BuildChartSourceFromRelease(r) ==
  CASE r.chart.kind = "GitRepository"  -> buildGitRepository(r)
    [] r.chart.kind = "HelmRepository" -> buildHelmRepository(r)
    [] r.chart.kind = "Bucket"         -> buildBucket(r)
    [] r.chart.kind = "OCIRepository"  -> buildOCIRepository(r)

ChartSourceReference(r) ==
  [kind |-> r.chart.kind, ns |-> r.ns,
   name |-> GetObjectHashedName(r, BuildChartSourceFromRelease(r))]

(***************************************************************************)
(* The HelmChart, one per Release, that turns a source into a chart.       *)
(***************************************************************************)
GetHelmChartHashedName(ns, name) == <<ns, name>>

buildHelmChart(r, version, verify) ==
  [source |-> ChartSourceReference(r), chart |-> r.chart.path, version |-> version,
   verify |-> IF r.chart.kind = "HelmRepository" THEN verify ELSE None,
   valuesFiles |-> r.chart.valuesFiles,
   interval |-> getNoneZeroDuration(r.chart.interval, r.interval)]

BuildHelmChartForHelmRepositorySource(r) ==
  buildHelmChart(r, r.chart.version, r.chart.verify)

BuildHelmChartForGitRepositorySource(r) == buildHelmChart(r, None, None)

BuildHelmChartForBucketSource(r) == buildHelmChart(r, None, None)

HelmChartFor(r) ==
  CASE r.chart.kind = "GitRepository"  -> BuildHelmChartForGitRepositorySource(r)
    [] r.chart.kind = "HelmRepository" -> BuildHelmChartForHelmRepositorySource(r)
    [] r.chart.kind = "Bucket"         -> BuildHelmChartForBucketSource(r)

(***************************************************************************)
(* Where Reconcile reads the chart: what resolveChartRef returns for       *)
(* spec.chartRef, and ensureHelmChart for spec.chart.                      *)
(***************************************************************************)
InNamespace(ref, r) == [ref EXCEPT !.ns = IF ref.ns = "" THEN r.ns ELSE ref.ns]

ResolvedRef(r) ==
  IF r.chart = None THEN InNamespace(r.chartRef, r)
  ELSE IF r.chart.kind = "OCIRepository" THEN ChartSourceReference(r)
  ELSE [kind |-> "HelmChart", ns |-> r.ns, name |-> GetHelmChartHashedName(r.ns, r.name)]

(***************************************************************************)
(* Where the watches look a Release up: the function of indexSourceRef.    *)
(***************************************************************************)
\* Faulty variant: every inline chart is taken to have a HelmChart.
IndexSourceRefHelmChart(r) ==
  IF r.chartRef # None THEN InNamespace(r.chartRef, r)
  ELSE [kind |-> "HelmChart", ns |-> r.ns, name |-> GetHelmChartHashedName(r.ns, r.name)]

IndexSourceRef(r) ==
  IF r.chartRef # None THEN InNamespace(r.chartRef, r)
  ELSE IF r.chart.kind = "OCIRepository"
    THEN [kind |-> "OCIRepository", ns |-> r.ns,
          name |-> GetObjectHashedName(r, BuildChartSourceFromRelease(r))]
  ELSE [kind |-> "HelmChart", ns |-> r.ns, name |-> GetHelmChartHashedName(r.ns, r.name)]

(***************************************************************************)
(* A watch event of the object that Reconcile reads its chart from always  *)
(* finds the Release: the index of SetupWithManager and the reference that *)
(* resolveChartRef returns are computed apart and agree, for spec.chart of *)
(* every kind and for spec.chartRef with and without a namespace, given    *)
(* the CRD's rule that exactly one of the two is set.                      *)
(***************************************************************************)
THEOREM IndexFindsResolved ==
  ASSUME NEW r, r.chart = None <=> r.chartRef # None
  PROVE  IndexSourceRef(r) = ResolvedRef(r)
<1>1. CASE r.chart = None
  BY <1>1 DEF IndexSourceRef, ResolvedRef
<1>2. CASE r.chart # None /\ r.chart.kind = "OCIRepository"
  BY <1>2 DEF IndexSourceRef, ResolvedRef, ChartSourceReference
<1>3. CASE r.chart # None /\ r.chart.kind # "OCIRepository"
  BY <1>3 DEF IndexSourceRef, ResolvedRef
<1> QED
  BY <1>1, <1>2, <1>3
=============================================================================
