-------------------------- MODULE DeployInputsProofs --------------------------
(***************************************************************************)
(* Machine-checked proofs about DeployInputs, for any specs, objects and   *)
(* contents: its type invariant, and that a Release that is Ready at the   *)
(* current generation was deployed with every input its spec requires      *)
(* (ReadyComplete).                                                        *)
(***************************************************************************)
EXTENDS DeployInputs, FiniteSetTheorems, SequenceTheorems, TLAPS

(***************************************************************************)
(* Pick.                                                                   *)
(***************************************************************************)
\* How many positions of S are not after i.
Rank(S, i) == Cardinality({j \in S : j <= i})

\* Positions are finite sets of numbers.
LEMMA PositionsFinite ==
  ASSUME NEW n \in Nat, NEW S \in SUBSET (1 .. n)
  PROVE  /\ IsFiniteSet(S) /\ Cardinality(S) \in Nat
         /\ \A i \in S : Rank(S, i) \in 1 .. Cardinality(S)
<1>1. IsFiniteSet(S) /\ Cardinality(S) \in Nat
  <2>1. IsFiniteSet(1 .. n)
    BY FS_Interval
  <2>2. IsFiniteSet(S)
    BY <2>1, FS_Subset
  <2> QED
    BY <2>2, FS_CardinalityType
<1>2. ASSUME NEW i \in S PROVE Rank(S, i) \in 1 .. Cardinality(S)
  <2> DEFINE T == {j \in S : j <= i}
  <2>1. T \in SUBSET S /\ i \in T
    OBVIOUS
  <2> HIDE DEF T
  <2>2. IsFiniteSet(T) /\ Cardinality(T) <= Cardinality(S)
    BY <1>1, <2>1, FS_Subset
  <2>3. Cardinality(T) \in Nat /\ Cardinality(T) # 0
    BY <2>1, <2>2, FS_CardinalityType, FS_EmptySet
  <2> QED
    BY <1>1, <2>2, <2>3 DEF Rank, T
<1>3. QED
  BY <1>1, <1>2

\* Later positions have higher ranks.
LEMMA RankInjective ==
  ASSUME NEW n \in Nat, NEW S \in SUBSET (1 .. n), NEW i \in S, NEW j \in S, i < j
  PROVE  Rank(S, i) # Rank(S, j)
<1> DEFINE A == {k \in S : k <= i}
           B == {k \in S : k <= j}
<1>1. A \in SUBSET B /\ B \in SUBSET S /\ j \in B /\ j \notin A
  <2>1. \A k \in S : k \in Int
    OBVIOUS
  <2>2. \A k \in S : k <= i => k <= j
    BY <2>1
  <2>3. j <= j /\ ~(j <= i)
    BY <2>1
  <2> QED
    BY <2>2, <2>3
<1> HIDE DEF A, B
<1>2. IsFiniteSet(B)
  BY <1>1, PositionsFinite, FS_Subset
<1>3. Cardinality(B) # Cardinality(A)
  BY <1>1, <1>2, FS_Subset
<1>4. QED
  BY <1>3 DEF Rank, A, B

\* Every rank is that of some position: Nth finds it.
LEMMA NthLemma ==
  ASSUME NEW n \in Nat, NEW S \in SUBSET (1 .. n), NEW k \in 1 .. Cardinality(S)
  PROVE  Nth(S, k) \in S
<1> DEFINE c == Cardinality(S)
           T == (1 .. c) \ {k}
           f == [i \in S |-> Rank(S, i)]
<1>1. IsFiniteSet(S) /\ c \in Nat /\ \A i \in S : Rank(S, i) \in 1 .. c
  BY PositionsFinite
<1>2. IsFiniteSet(T) /\ Cardinality(T) < c
  <2>1. IsFiniteSet(1 .. c) /\ Cardinality(1 .. c) = c
    BY <1>1, FS_Interval
  <2>2. IsFiniteSet(T) /\ Cardinality(T) = c - 1
    BY <1>1, <2>1, FS_RemoveElement
  <2> QED
    BY <1>1, <2>2
<1>3. \E i \in S : Rank(S, i) = k
  <2> SUFFICES ASSUME \A i \in S : Rank(S, i) # k PROVE FALSE
    OBVIOUS
  <2>1. f \in [S -> T]
    BY <1>1
  <2>2. \A i, j \in S : i # j => f[i] # f[j]
    <3> SUFFICES ASSUME NEW i \in S, NEW j \in S, i # j PROVE Rank(S, i) # Rank(S, j)
      OBVIOUS
    <3>1. i < j \/ j < i
      OBVIOUS
    <3> QED
      BY <3>1, RankInjective
  <2> HIDE DEF T, f, c
  <2>3. \E x, y \in S : x # y /\ f[x] = f[y]
    BY <1>1, <1>2, <2>1, FS_PigeonHole DEF c
  <2> QED
    BY <2>2, <2>3
<1>4. QED
  BY <1>3 DEF Nth, Rank

\* What is picked from a sequence is a sequence of its elements.
LEMMA PickType ==
  ASSUME NEW T, NEW s \in Seq(T), NEW S \in SUBSET (DOMAIN s)
  PROVE  Pick(s, S) \in Seq(T)
<1>1. Len(s) \in Nat /\ S \in SUBSET (1 .. Len(s)) /\ \A i \in 1 .. Len(s) : s[i] \in T
  BY LenProperties, ElementOfSeq
<1>2. Cardinality(S) \in Nat
  BY <1>1, PositionsFinite
<1>3. \A k \in 1 .. Cardinality(S) : s[Nth(S, k)] \in T
  BY <1>1, NthLemma
<1>4. QED
  BY <1>2, <1>3, IsASeq DEF Pick

\* What is picked depends on the picked positions only.
LEMMA PickSame ==
  ASSUME NEW n \in Nat, NEW S \in SUBSET (1 .. n), NEW f, NEW g, \A i \in S : g[i] = f[i]
  PROVE  Pick(g, S) = Pick(f, S)
<1>1. \A k \in 1 .. Cardinality(S) : Nth(S, k) \in S
  BY NthLemma
<1>2. QED
  BY <1>1 DEF Pick

\* Positions before p.
Before(S, p) == p \in Nat \ {0} /\ S \in SUBSET (1 .. p - 1)

\* One more position after the others appends its element.
LEMMA PickAppend ==
  ASSUME NEW g, NEW p, NEW S, Before(S, p)
  PROVE  Pick(g, S \cup {p}) = Append(Pick(g, S), g[p])
<1> DEFINE n == p - 1
           R == S \cup {p}
           c == Cardinality(S)
           T == {g[i] : i \in R}
<1> n \in Nat /\ p = n + 1 /\ S \in SUBSET (1 .. n)
  BY DEF Before
<1> HIDE DEF n
<1>0. p \notin S /\ p \in Nat /\ \A i \in S : i \in Nat /\ i <= n
  OBVIOUS
<1>1. IsFiniteSet(S) /\ c \in Nat
  BY PositionsFinite
<1>2. Cardinality(R) = c + 1
  BY <1>0, <1>1, FS_AddElement
<1>3. \A k \in 1 .. c : Nth(S, k) \in S
  BY NthLemma
<1>4. Pick(g, S) = [k \in 1 .. c |-> g[Nth(S, k)]]
  BY DEF Pick
<1>5. Pick(g, S) \in Seq(T) /\ Len(Pick(g, S)) = c
  <2>1. \A k \in 1 .. c : g[Nth(S, k)] \in T
    BY <1>3
  <2> HIDE DEF T, c
  <2> QED
    BY <1>1, <1>4, <2>1, IsASeq, LenProperties
<1>6. g[p] \in T
  OBVIOUS
<1> HIDE DEF T
<1>7. \A i \in S : {j \in R : j <= i} = {j \in S : j <= i}
  <2>1. \A i \in S : ~(p <= i)
    BY <1>0
  <2> QED
    BY <2>1
<1>8. {j \in R : j <= p} = R
  <2>1. \A j \in R : j <= p
    BY <1>0
  <2> QED
    BY <2>1
<1>9. \A k \in 1 .. c + 1 : {i \in R : Rank(R, i) = k} =
        IF k = c + 1 THEN {p} ELSE {i \in S : Rank(S, i) = k}
  <2>1. Rank(R, p) = c + 1
    BY <1>2, <1>8 DEF Rank
  <2>2. \A i \in S : Rank(R, i) = Rank(S, i) /\ Rank(S, i) \in 1 .. c
    BY <1>7, PositionsFinite DEF Rank
  <2>3. \A i \in S : Rank(R, i) # c + 1
    <3>1. \A k \in 1 .. c : k # c + 1
      BY <1>1
    <3> QED
      BY <2>2, <3>1
  <2> QED
    BY <1>0, <2>1, <2>2, <2>3
<1>10. ASSUME NEW k \in 1 .. c PROVE Nth(R, k) = Nth(S, k)
  <2>1. {i \in R : Rank(R, i) = k} = {i \in S : Rank(S, i) = k}
    <3>1. k \in 1 .. c + 1 /\ k # c + 1
      BY <1>1
    <3> QED
      BY <1>9, <3>1
  <2> QED
    BY <2>1 DEF Nth, Rank
<1>11. Nth(R, c + 1) = p
  <2>1. c + 1 \in 1 .. c + 1
    BY <1>1
  <2>2. {i \in R : Rank(R, i) = c + 1} = {p}
    BY <1>9, <2>1
  <2> QED
    BY <2>2 DEF Nth, Rank
<1>12. Pick(g, R) = Append(Pick(g, S), g[p])
  <2>1. Pick(g, R) = [k \in 1 .. c + 1 |-> g[Nth(R, k)]]
    BY <1>2 DEF Pick
  <2>2. \A k \in 1 .. c : g[Nth(R, k)] = Pick(g, S)[k]
    BY <1>3, <1>4, <1>10
  <2>3. Append(Pick(g, S), g[p]) =
          [k \in 1 .. c + 1 |-> IF k = c + 1 THEN g[p] ELSE Pick(g, S)[k]]
    BY <1>1, <1>5, <1>6, AppendProperties
  <2>4. \A k \in 1 .. c + 1 : k # c + 1 => k \in 1 .. c
    BY <1>1
  <2> QED
    BY <1>11, <2>1, <2>2, <2>3, <2>4
<1>13. QED
  BY <1>12

-----------------------------------------------------------------------------
(***************************************************************************)
(* The specs and the objects built from them.                              *)
(***************************************************************************)
\* What the CRD's kinds make of the references.
LEMMA KindLemma ==
  ASSUME NEW s \in Specs
  PROVE  /\ SourceOf[s].kind = s.chart.kind
         /\ IsOCI(s) => RefOf[s] = SourceOf[s]
         /\ ~IsOCI(s) => RefOf[s].kind = "HelmChart"
                         /\ s.chart.kind \in {"GitRepository", "HelmRepository", "Bucket"}
<1> DEFINE r == AsRelease(s)
<1>1. r.chart = s.chart /\ r.chart # None /\ ReleaseChart(s.chart)
  BY SpecsAssumption DEF AsRelease
<1>2. SourceOf[s] = ChartSourceReference(r) /\ RefOf[s] = ResolvedRef(r)
  BY DEF SourceOf, RefOf
<1> HIDE DEF r
<1>3. SourceOf[s].kind = s.chart.kind
  BY <1>1, <1>2 DEF ChartSourceReference
<1>4. IsOCI(s) => RefOf[s] = SourceOf[s]
  BY <1>1, <1>2 DEF IsOCI, ResolvedRef
<1>5. ~IsOCI(s) => RefOf[s].kind = "HelmChart"
  BY <1>1, <1>2 DEF IsOCI, ResolvedRef
<1>6. ~IsOCI(s) => s.chart.kind \in {"GitRepository", "HelmRepository", "Bucket"}
  BY <1>1 DEF IsOCI, ReleaseChart, GitRepositoryChartSource, HelmRepositoryChartSource,
              BucketChartSource, OCIRepositoryChartSource
<1>7. QED
  BY <1>3, <1>4, <1>5, <1>6

\* A source that Reconcile reads from is an OCIRepository: its own.
LEMMA SourceIsRef ==
  ASSUME NEW s \in Specs, NEW q \in Refs, q = SourceOf[s]
  PROVE  IsOCI(s) /\ RefOf[s] = q
<1>1. PICK t \in Specs : q = RefOf[t]
  BY DEF Refs
<1>2. q.kind \in {"HelmChart", "OCIRepository"}
  BY <1>1, KindLemma DEF IsOCI
<1>3. q.kind = s.chart.kind
  BY KindLemma
<1>4. QED
  BY <1>2, <1>3, KindLemma DEF IsOCI

\* The values files of the object built for a spec.
LEMMA ChartFilesLemma ==
  ASSUME NEW s \in Specs
  PROVE  /\ ChartFiles(SpecOf[s]) \in Seq(Input)
         /\ IsOCI(s) => ChartFiles(SpecOf[s]) = << >>
<1> DEFINE r == AsRelease(s)
<1>1. r.chart = s.chart /\ ReleaseChart(s.chart) /\ s.chart.valuesFiles \in Seq(ValuesFiles(s))
  BY SpecsAssumption DEF AsRelease
<1>2. SpecOf[s] = IF IsOCI(s) THEN BuildChartSourceFromRelease(r) ELSE HelmChartFor(r)
  BY DEF SpecOf
<1> HIDE DEF r
<1>3. CASE IsOCI(s)
  <2>1. SpecOf[s] = SourceSpec(r, r.chart.ref, r.chart.verify)
    BY <1>1, <1>2, <1>3 DEF IsOCI, BuildChartSourceFromRelease, buildOCIRepository
  <2>2. "valuesFiles" \notin DOMAIN SpecOf[s]
    BY <2>1 DEF SourceSpec
  <2>3. ChartFiles(SpecOf[s]) = << >>
    BY <2>2 DEF ChartFiles
  <2> QED
    BY <1>3, <2>3, EmptySeq
<1>4. CASE ~IsOCI(s)
  <2>1. r.chart.kind \in {"GitRepository", "HelmRepository", "Bucket"}
    BY <1>1, <1>4, KindLemma
  <2>2. \E v, w : SpecOf[s] = buildHelmChart(r, v, w)
    <3>1. CASE r.chart.kind = "GitRepository"
      BY <1>2, <1>4, <3>1 DEF HelmChartFor, BuildHelmChartForGitRepositorySource
    <3>2. CASE r.chart.kind = "HelmRepository"
      BY <1>2, <1>4, <3>2 DEF HelmChartFor, BuildHelmChartForHelmRepositorySource
    <3>3. CASE r.chart.kind = "Bucket"
      BY <1>2, <1>4, <3>3 DEF HelmChartFor, BuildHelmChartForBucketSource
    <3> QED
      BY <2>1, <3>1, <3>2, <3>3
  <2>3. "valuesFiles" \in DOMAIN SpecOf[s] /\ SpecOf[s].valuesFiles = s.chart.valuesFiles
    BY <1>1, <2>2 DEF buildHelmChart
  <2> DEFINE files == s.chart.valuesFiles
  <2>4. ChartFiles(SpecOf[s]) =
          [i \in DOMAIN files |-> [use |-> "chart", from |-> None, data |-> files[i]]]
    BY <2>3 DEF ChartFiles
  <2>5. DOMAIN files = 1 .. Len(files) /\ Len(files) \in Nat
    BY <1>1, LenProperties
  <2>6. \A i \in DOMAIN files : [use |-> "chart", from |-> None, data |-> files[i]] \in Input
    <3>1. \A i \in DOMAIN files : files[i] \in UNION {ValuesFiles(t) : t \in Specs}
      BY DEF ValuesFiles
    <3> QED
      BY <3>1 DEF Input
  <2> QED
    BY <1>4, <2>4, <2>5, <2>6, IsASeq
<1>5. QED
  BY <1>3, <1>4

\* The inputs Resolve starts with.
LEMMA ResolveStartLemma ==
  ASSUME NEW s \in Specs, NEW files \in Seq(Input)
  PROVE  ResolveStart(files, s) \in Seq(Input)
<1>1. InlineValues(s) \in Seq(Input)
  <2>1. [use |-> "inline", from |-> None, data |-> s.values] \in Input
    BY DEF Input
  <2> QED
    BY <2>1 DEF InlineValues
<1>2. QED
  BY <1>1 DEF ResolveStart

\* What a reference reads is an input.
LEMMA FetchedLemma ==
  ASSUME NEW s \in Specs, NEW i \in DOMAIN s.refs, NEW c \in Contents
  PROVE  /\ Fetched(s.refs[i], c) \in Input /\ s.refs[i].object \in Objects
         /\ s.refs[i].optional \in BOOLEAN
<1>1. s.refs[i] \in ValuesReference \cup SecretKeyReference
  BY SpecsAssumption, ElementOfSeq, LenProperties
<1>2. QED
  BY <1>1 DEF ValuesReference, SecretKeyReference, Fetched, Input, Uses

\* The references are a sequence.
LEMMA RefsLemma ==
  ASSUME NEW s \in Specs
  PROVE  Len(s.refs) \in Nat /\ DOMAIN s.refs = 1 .. Len(s.refs)
  BY SpecsAssumption, LenProperties

\* nelm's options are typed, for the plan as for the install, and the same.
LEMMA OptionsLemma ==
  ASSUME NEW a \in Artifacts, NEW inputs \in Seq(Input)
  PROVE  /\ buildInstallOptions(a, inputs) \in Content
         /\ buildPlanInstallOptions(a, inputs) = buildInstallOptions(a, inputs)
<1>1. ASSUME NEW uses PROVE Of(uses, inputs) \in Seq(Input)
  <2>1. {i \in DOMAIN inputs : inputs[i].use \in uses} \in SUBSET (DOMAIN inputs)
    OBVIOUS
  <2> QED
    BY <2>1, PickType DEF Of
<1>2. buildInstallOptions(a, inputs) \in Content
  BY <1>1 DEF buildInstallOptions, buildValuesOptions, buildSecretValuesOptions, Content
<1>3. QED
  BY <1>2 DEF buildInstallOptions, buildPlanInstallOptions

-----------------------------------------------------------------------------
(***************************************************************************)
(* The Release's status.                                                   *)
(***************************************************************************)
Keeps(new, old) == new.gen = old.gen /\ new.spec = old.spec

\* handleFailure is never Ready, and observes the generation it saw.
LEMMA HandleFailureLemma ==
  ASSUME NEW r \in Release
  PROVE  /\ HandleFailure(r) \in Release /\ Keeps(HandleFailure(r), r)
         /\ HandleFailure(r).st.ready = FALSE /\ HandleFailure(r).st.obs = r.gen
<1> DEFINE st == [r.st EXCEPT !.failures = r.st.failures + 1, !.obs = r.gen]
           over == Exhausted(st)
<1>1. r.st \in Status /\ r.st.failures + 1 \in Nat /\ r.gen \in Nat
  BY DEF Release, Status
<1>2. st \in Status /\ st.obs = r.gen
  BY <1>1 DEF Status
<1>3. over \in BOOLEAN
  BY DEF Exhausted
<1>4. HandleFailure(r) = [r EXCEPT !.st = [st EXCEPT !.ready = FALSE, !.stalled = over,
                                                     !.reconciling = ~over]]
  BY DEF HandleFailure, Counted
<1> HIDE DEF st, over
<1> DEFINE new == [st EXCEPT !.ready = FALSE, !.stalled = over, !.reconciling = ~over]
<1>5. new \in Status /\ new.ready = FALSE /\ new.obs = r.gen
  BY <1>2, <1>3 DEF Status
<1> HIDE DEF new
<1>6. HandleFailure(r) = [r EXCEPT !.st = new]
  BY <1>4 DEF new
<1>7. QED
  BY <1>5, <1>6 DEF Release, Keeps

\* handleSuccess is Ready, and observes the generation it saw.
LEMMA HandleSuccessLemma ==
  ASSUME NEW r \in Release
  PROVE  /\ HandleSuccess(r) \in Release /\ Keeps(HandleSuccess(r), r)
         /\ HandleSuccess(r).st.ready = TRUE /\ HandleSuccess(r).st.obs = r.gen
<1> DEFINE new == [r.st EXCEPT !.failures = 0, !.obs = r.gen, !.ready = TRUE,
                               !.reconciling = FALSE, !.stalled = FALSE]
<1>1. r.st \in Status /\ r.gen \in Nat
  BY DEF Release
<1>2. new \in Status /\ new.ready = TRUE /\ new.obs = r.gen
  BY <1>1 DEF Status
<1>3. HandleSuccess(r) = [r EXCEPT !.st = new]
  BY DEF HandleSuccess
<1> HIDE DEF new
<1>4. QED
  BY <1>2, <1>3 DEF Release, Keeps

\* An attempt that begins keeps the conditions.
LEMMA NewAttemptLemma ==
  ASSUME NEW r \in Release, NEW a \in {Revision(b) : b \in Artifacts} \cup {None}
  PROVE  LET new == NewAttempt([r EXCEPT !.st.attempted = a])
         IN  /\ new \in Release /\ Keeps(new, r)
             /\ new.st.ready = r.st.ready /\ new.st.obs = r.st.obs
<1> DEFINE st == [r.st EXCEPT !.attempted = a]
           v == [r EXCEPT !.st = st]
<1>1. st \in Status /\ st.ready = r.st.ready /\ st.obs = r.st.obs
  BY DEF Release, Status
<1> HIDE DEF st
<1>2. v \in Release /\ Keeps(v, r) /\ v.st = st
  BY <1>1 DEF Release, Keeps
<1>3. [r EXCEPT !.st.attempted = a] = v
  BY DEF st
<1> HIDE DEF v
<1> DEFINE st2 == [v.st EXCEPT !.failures = 0]
           v2 == [v EXCEPT !.st = st2]
<1>4. st2 \in Status /\ st2.ready = r.st.ready /\ st2.obs = r.st.obs
  BY <1>1, <1>2 DEF Status
<1> HIDE DEF st2
<1>5. v2 \in Release /\ Keeps(v2, r) /\ v2.st = st2
  BY <1>2, <1>4 DEF Release, Keeps
<1>6. [v EXCEPT !.st.failures = 0] = v2
  BY DEF st2
<1> HIDE DEF v2
<1>7. NewAttempt(v) = v \/ NewAttempt(v) = v2
  BY <1>6 DEF NewAttempt
<1>8. QED
  BY <1>1, <1>2, <1>3, <1>4, <1>5, <1>7

-----------------------------------------------------------------------------
(***************************************************************************)
(* Types.  What Flux holds under a reference is an object built for it,    *)
(* which is ready only with an artifact.                                   *)
(***************************************************************************)
FluxObject(q) ==
  \/ flux[q].spec = None /\ ~flux[q].ready
  \/ /\ \E s \in Specs : RefOf[s] = q /\ flux[q].spec = SpecOf[s]
     /\ flux[q].ready => flux[q].built \in Artifacts

WorkerTyped ==
  /\ pc # "idle" => view \in Release
  /\ pc \in {"fetch", "plan"} =>
       /\ artifact \in Artifacts
       /\ at \in 1 .. Len(view.spec.refs) + 1
       /\ pc = IF at <= Len(view.spec.refs) THEN "fetch" ELSE "plan"

TypeInv == TypeOK /\ WorkerTyped /\ \A q \in Refs : FluxObject(q)

(***************************************************************************)
(* Readiness.  ReadyComplete is not inductive: it depends on what Resolve  *)
(* has collected so far, on the spec the HelmChart was applied with, and   *)
(* on no copy of an older spec being left once a current Ready condition   *)
(* is written.                                                             *)
(***************************************************************************)
\* nelm's options hold every input s requires.
Complete(s, content) ==
  \E d \in [DOMAIN s.refs -> Contents \cup {Missing}], a \in Artifacts :
     /\ \A i \in DOMAIN s.refs : d[i] = Missing => s.refs[i].optional
     /\ content = Wanted(s, a, d)

\* What Resolve has after the references before n, when they read d.
Collected(s, n, d) ==
  ResolveStart(ChartFiles(SpecOf[s]), s)
    \o Pick([i \in 1 .. n - 1 |-> Fetched(s.refs[i], d[i])], {i \in 1 .. n - 1 : d[i] # Missing})

Resolving ==
  pc \in {"fetch", "plan"} =>
    \E d \in [1 .. at - 1 -> Contents \cup {Missing}] :
       /\ \A i \in 1 .. at - 1 : d[i] = Missing => view.spec.refs[i].optional
       /\ resolved = Collected(view.spec, at, d)

Applied ==
  pc = "source" /\ ~IsOCI(view.spec) => flux[RefOf[view.spec]].spec = SpecOf[view.spec]

SameSpec(r) == r.gen = rel.gen /\ r.spec = rel.spec

Copies ==
  /\ rel.st.obs <= rel.gen /\ cache.st.obs <= cache.gen
  /\ pc # "idle" => view.st.obs <= view.gen
  /\ cacheCurrent => cache = rel
  /\ viewCurrent => pc # "idle" /\ SameSpec(view) /\ SameSpec(cache)

Conditions ==
  /\ rel.st.ready /\ Current =>
       /\ Complete(rel.spec, deployed.content)
       /\ cache.spec = rel.spec /\ (pc # "idle" => view.spec = rel.spec)
  /\ pc = "writeSuccess" => Complete(view.spec, deployed.content)
  /\ pc = "writeFailure" => ~view.st.ready
  /\ viewCurrent /\ pc \in {"switch", "helm", "source", "writeNotReady"} => view.st = rel.st

ReadyInv == Resolving /\ Applied /\ Copies /\ Conditions

-----------------------------------------------------------------------------
(***************************************************************************)
(* Type correctness.                                                       *)
(***************************************************************************)
\* Spending a disturbance, or none, leaves a number.
LEMMA BudgetLemma ==
  ASSUME budget \in Nat, NEW cond, NEW kind, FailsBecause(cond, kind) \/ Spend(kind)
  PROVE  budget' \in Nat
  BY DEF FailsBecause, Spend

\* A Release that just was created is one.
LEMMA NoStatusLemma ==
  ASSUME NEW s \in Specs
  PROVE  [gen |-> 1, spec |-> s, st |-> NoStatus] \in Release /\ NoStatus.ready = FALSE
                                                              /\ NoStatus.obs = 0
<1>1. NoStatus \in Status /\ NoStatus.ready = FALSE /\ NoStatus.obs = 0
  BY DEF NoStatus, Status
<1>2. QED
  BY <1>1 DEF Release

\* The initial states are typed.
LEMMA TypeInit == Init => TypeInv
<1> SUFFICES ASSUME Init PROVE TypeInv
  OBVIOUS
<1>1. rel \in Release /\ cache \in Release
  BY NoStatusLemma DEF Init
<1>2. data \in [Objects -> Contents \cup {Missing}] /\ typed = data
  <2>1. FirstContent \in Contents
    BY ObjectsAssumption DEF FirstContent
  <2> QED
    BY <2>1 DEF Init
<1>3. \A q \in Refs : FluxObject(q)
  BY DEF Init, FluxObject, NoObject
<1>4. flux \in [Refs -> [spec: {SpecOf[s] : s \in Specs} \cup {None},
                         built: Artifacts \cup {None}, ready: BOOLEAN]]
  BY DEF Init, NoObject
<1>5. deployed \in [parity: {0, 1}, content: Content \cup {None}]
  BY DEF Init
<1>6. budget \in Nat /\ WorkerTyped
  BY CountsAssumption DEF Init, WorkerTyped
<1>7. events \in Seq([ref: Refs, old: Seen, new: Seen]) /\ resolved \in Seq(Input)
  BY DEF Init
<1>8. TypeOK
  BY <1>1, <1>2, <1>4, <1>5, <1>6, <1>7 DEF Init, TypeOK, Pcs
<1>9. QED
  BY <1>3, <1>6, <1>8 DEF TypeInv

\* Nothing about types depends on what a stuttering step leaves alone.
LEMMA TypeStutter == TypeInv /\ UNCHANGED vars => TypeInv'
<1> SUFFICES ASSUME TypeInv, UNCHANGED vars PROVE TypeInv'
  OBVIOUS
<1>1. TypeOK'
  BY DEF TypeInv, TypeOK, vars, object, config, source, queue, worker
<1>2. WorkerTyped' /\ \A q \in Refs : FluxObject(q)'
  BY DEF TypeInv, WorkerTyped, FluxObject, vars, object, config, source, queue, worker
<1>3. QED
  BY <1>1, <1>2 DEF TypeInv

\* Where the worker stands after a reconcile.
LEMMA ReturnLemma ==
  ASSUME NEW requeue \in BOOLEAN, queued \in BOOLEAN, Return(requeue)
  PROVE  /\ pc' = "idle" /\ view' = None /\ viewCurrent' = FALSE
         /\ artifact' = None /\ resolved' = << >> /\ at' = 0 /\ queued' \in BOOLEAN
         /\ WorkerTyped'
  BY DEF Return, WorkerTyped

\* The result of a status update.
LEMMA StatusUpdatedLemma ==
  ASSUME TypeInv, pc # "idle", StatusUpdated
  PROVE  /\ rel' \in Release /\ Keeps(rel', rel) /\ rel'.st = view.st
         /\ cacheCurrent' = (cacheCurrent /\ rel.st = view.st) /\ cache' = cache
<1>1. view \in Release /\ rel \in Release
  BY DEF TypeInv, WorkerTyped, TypeOK
<1>2. view.st \in Status
  BY <1>1 DEF Release
<1>3. rel' = [rel EXCEPT !.st = view.st]
  BY DEF StatusUpdated
<1>4. rel' \in Release /\ Keeps(rel', rel) /\ rel'.st = view.st
  BY <1>1, <1>2, <1>3 DEF Release, Keeps
<1>5. QED
  BY <1>4 DEF StatusUpdated

\* A failed step leads to writeFailure.
LEMMA TypeFail ==
  ASSUME TypeInv, pc # "idle", Fail, budget' \in Nat
  PROVE  TypeInv'
<1>1. view \in Release /\ view' = HandleFailure(view) /\ view' \in Release
  BY HandleFailureLemma DEF TypeInv, WorkerTyped, Fail
<1>2. WorkerTyped'
  BY <1>1 DEF Fail, Goto, WorkerTyped
<1>3. \A q \in Refs : FluxObject(q)'
  BY DEF TypeInv, Fail, source, FluxObject
<1>4. TypeOK'
  BY <1>1 DEF TypeInv, TypeOK, Fail, Goto, object, config, source, queue, Pcs
<1>5. QED
  BY <1>2, <1>3, <1>4 DEF TypeInv

LEMMA TypeReconcile == TypeInv /\ Reconcile => TypeInv'
<1> SUFFICES ASSUME TypeInv, Reconcile PROVE TypeInv'
  OBVIOUS
<1>1. pc' \in {"switch", "source", "helm"} /\ view' \in Release
  BY DEF Reconcile, TypeInv, TypeOK
<1>2. WorkerTyped'
  BY <1>1 DEF WorkerTyped
<1>3. \A q \in Refs : FluxObject(q)'
  BY DEF TypeInv, Reconcile, source, FluxObject
<1>4. TypeOK'
  BY <1>1 DEF TypeInv, TypeOK, Reconcile, object, config, source, Pcs
<1>5. QED
  BY <1>2, <1>3, <1>4 DEF TypeInv

\* What the change of source leaves behind each reference.
LEMMA SourceReplacedLemma ==
  ASSUME NEW s \in Specs, NEW q \in Refs
  PROVE  SourceReplaced(s)[q] = IF q = SourceOf[s] THEN [NoObject EXCEPT !.spec = SpecOf[s]]
                                ELSE IF q.kind = "HelmChart" THEN flux[q] ELSE NoObject
<1>1. q = SourceOf[s] => q.kind # "HelmChart"
  BY SourceIsRef, KindLemma DEF IsOCI
<1>2. CASE q = SourceOf[s]
  BY <1>1, <1>2 DEF SourceReplaced
<1>3. CASE q # SourceOf[s] /\ q.kind = "HelmChart"
  BY <1>3 DEF SourceReplaced
<1>4. CASE q # SourceOf[s] /\ q.kind # "HelmChart"
  BY <1>4 DEF SourceReplaced
<1>5. QED
  BY <1>2, <1>3, <1>4

LEMMA TypeSwitchSource == TypeInv /\ SwitchSource => TypeInv'
<1> SUFFICES ASSUME TypeInv, SwitchSource PROVE TypeInv'
  OBVIOUS
<1>1. view \in Release /\ rel \in Release /\ pc # "idle"
  BY DEF SwitchSource, TypeInv, WorkerTyped, TypeOK
<1>2. view.spec \in Specs /\ rel.st \in Status
  BY <1>1 DEF Release
<1>3. rel' \in Release
  <2> DEFINE st == [rel.st EXCEPT !.last = SourceOf[view.spec]]
  <2>1. st \in Status
    BY <1>2 DEF Status
  <2>2. rel' = [rel EXCEPT !.st = st]
    BY DEF SwitchSource
  <2> HIDE DEF st
  <2> QED
    BY <1>1, <2>1, <2>2 DEF Release
<1>4. Return(TRUE) /\ queued \in BOOLEAN
  BY DEF SwitchSource, TypeInv, TypeOK
<1> DEFINE Held == [spec: {SpecOf[s] : s \in Specs} \cup {None},
                    built: Artifacts \cup {None}, ready: BOOLEAN]
           new == [NoObject EXCEPT !.spec = SpecOf[view.spec]]
<1>5. NoObject \in Held /\ new \in Held /\ new.spec = SpecOf[view.spec] /\ new.ready = FALSE
  BY <1>2 DEF NoObject
<1>6. flux' = SourceReplaced(view.spec) /\ flux \in [Refs -> Held]
  BY DEF SwitchSource, TypeInv, TypeOK
<1> HIDE DEF new, Held
<1>7. \A q \in Refs : flux'[q] = IF q = SourceOf[view.spec] THEN new
                                 ELSE IF q.kind = "HelmChart" THEN flux[q] ELSE NoObject
  BY <1>2, <1>6, SourceReplacedLemma DEF new
<1>8. flux' \in [Refs -> Held]
  <2>1. \A q \in Refs : flux'[q] \in Held
    BY <1>5, <1>6, <1>7
  <2>2. flux' = [q \in Refs |-> flux'[q]]
    BY <1>6 DEF SourceReplaced
  <2> QED
    BY <2>1, <2>2
<1>9. ASSUME NEW q \in Refs PROVE FluxObject(q)'
  <2>1. CASE q = SourceOf[view.spec]
    <3>1. RefOf[view.spec] = q
      BY <1>2, <2>1, SourceIsRef
    <3>2. flux'[q] = new
      BY <1>7, <2>1
    <3> QED
      BY <1>2, <1>5, <3>1, <3>2 DEF FluxObject
  <2>2. CASE q # SourceOf[view.spec] /\ flux'[q] = flux[q]
    BY <2>2 DEF TypeInv, FluxObject
  <2>3. CASE q # SourceOf[view.spec] /\ flux'[q] = NoObject
    BY <2>3 DEF NoObject, FluxObject
  <2> QED
    BY <1>7, <2>1, <2>2, <2>3
<1>10. TypeOK' /\ WorkerTyped'
  <2>1. WorkerTyped' /\ pc' = "idle" /\ view' = None /\ viewCurrent' = FALSE
        /\ artifact' = None /\ resolved' = << >> /\ at' = 0 /\ queued' \in BOOLEAN
    BY <1>4, ReturnLemma
  <2>2. cacheCurrent' = FALSE /\ UNCHANGED <<cache, config, events, timer, deployed, budget>>
    BY DEF SwitchSource
  <2>3. resolved' \in Seq(Input) /\ at' \in Nat /\ pc' \in Pcs
    BY <2>1 DEF Pcs
  <2>4. TypeOK'
    BY <1>3, <1>8, <2>1, <2>2, <2>3 DEF TypeInv, TypeOK, config, Held
  <2> QED
    BY <2>1, <2>4
<1>11. QED
  BY <1>9, <1>10 DEF TypeInv

LEMMA TypeSwitchConflict == TypeInv /\ SwitchConflict => TypeInv'
<1> SUFFICES ASSUME TypeInv, SwitchConflict PROVE TypeInv'
  OBVIOUS
<1>1. Return(TRUE) /\ queued \in BOOLEAN
  BY DEF SwitchConflict, TypeInv, TypeOK
<1>2. WorkerTyped' /\ pc' = "idle" /\ view' = None /\ viewCurrent' = FALSE
      /\ artifact' = None /\ resolved' = << >> /\ at' = 0 /\ queued' \in BOOLEAN
  BY <1>1, ReturnLemma
<1>3. \A q \in Refs : FluxObject(q)'
  BY DEF TypeInv, SwitchConflict, source, FluxObject
<1>4. resolved' \in Seq(Input) /\ at' \in Nat /\ pc' \in Pcs
  BY <1>2 DEF Pcs
<1>5. TypeOK'
  BY <1>2, <1>4 DEF TypeInv, TypeOK, SwitchConflict, object, config, source
<1>6. QED
  BY <1>2, <1>3, <1>5 DEF TypeInv

\* An object with one more field set is still one that Flux can hold.
LEMMA TypeEnsureHelmChart == TypeInv /\ EnsureHelmChart => TypeInv'
<1> SUFFICES ASSUME TypeInv, EnsureHelmChart PROVE TypeInv'
  OBVIOUS
<1> DEFINE ref == RefOf[view.spec]
           Held == [spec: {SpecOf[s] : s \in Specs} \cup {None},
                    built: Artifacts \cup {None}, ready: BOOLEAN]
           new == [flux[ref] EXCEPT !.spec = SpecOf[view.spec]]
<1>1. view \in Release /\ view.spec \in Specs /\ ref \in Refs
  <2>1. view \in Release
    BY DEF EnsureHelmChart, TypeInv, WorkerTyped
  <2> QED
    BY <2>1 DEF Release, Refs
<1>2. flux \in [Refs -> Held] /\ flux[ref] \in Held
  BY <1>1 DEF TypeInv, TypeOK
<1>3. new \in Held /\ new.spec = SpecOf[view.spec] /\ new.built = flux[ref].built
      /\ new.ready = flux[ref].ready
  BY <1>1, <1>2
<1>4. flux' = [flux EXCEPT ![ref] = new]
  BY DEF EnsureHelmChart
<1> HIDE DEF new, Held
<1>5. flux' \in [Refs -> Held]
  BY <1>2, <1>3, <1>4
<1>6. ASSUME NEW q \in Refs PROVE FluxObject(q)'
  <2>1. CASE q = ref
    <3>1. flux'[q] = new
      BY <1>1, <1>2, <1>4, <2>1
    <3>2. flux[q].ready => flux[q].built \in Artifacts
      BY DEF TypeInv, FluxObject
    <3> HIDE DEF ref
    <3>3. RefOf[view.spec] = q
      BY <2>1 DEF ref
    <3> QED
      BY <1>1, <1>3, <2>1, <3>1, <3>2, <3>3 DEF FluxObject
  <2>2. CASE q # ref
    <3>1. flux'[q] = flux[q]
      BY <1>2, <1>4, <2>2
    <3> QED
      BY <3>1 DEF TypeInv, FluxObject
  <2> QED
    BY <2>1, <2>2
<1>7. WorkerTyped'
  BY <1>1 DEF EnsureHelmChart, Goto, WorkerTyped
<1>8. TypeOK'
  BY <1>1, <1>5 DEF TypeInv, TypeOK, EnsureHelmChart, Goto, object, config, queue, Pcs, Held
<1>9. QED
  BY <1>6, <1>7, <1>8 DEF TypeInv

\* The artifact a reconcile goes on with.
LEMMA ReadyObject ==
  ASSUME TypeInv, pc = "source", flux[RefOf[view.spec]].ready
  PROVE  LET o == flux[RefOf[view.spec]]
         IN  /\ view \in Release /\ view.spec \in Specs /\ o.built \in Artifacts
             /\ \E s \in Specs : RefOf[s] = RefOf[view.spec] /\ o.spec = SpecOf[s]
<1>1. view \in Release /\ view.spec \in Specs
  <2>1. view \in Release
    BY DEF TypeInv, WorkerTyped
  <2> QED
    BY <2>1 DEF Release
<1>2. FluxObject(RefOf[view.spec])
  BY <1>1 DEF TypeInv, Refs
<1>3. QED
  BY <1>1, <1>2 DEF FluxObject

LEMMA TypeResolveChartRef == TypeInv /\ ResolveChartRef => TypeInv'
<1> SUFFICES ASSUME TypeInv, ResolveChartRef PROVE TypeInv'
  OBVIOUS
<1> DEFINE o == flux[RefOf[view.spec]]
<1>1. pc = "source" /\ o.ready
  BY DEF ResolveChartRef
<1>2. view \in Release /\ view.spec \in Specs /\ o.built \in Artifacts
      /\ \E s \in Specs : o.spec = SpecOf[s]
  BY <1>1, ReadyObject
<1>3. artifact' = o.built /\ view' = NewAttempt([view EXCEPT !.st.attempted = Revision(o.built)])
      /\ resolved' = ResolveStart(ChartFiles(o.spec), view.spec)
      /\ at' = 1 /\ pc' = NextFetch(1) /\ UNCHANGED queue
      /\ UNCHANGED <<object, config, source, deployed, viewCurrent, budget>>
  BY DEF ResolveChartRef, Goto
<1>4. view' \in Release /\ view'.spec = view.spec
  BY <1>2, <1>3, NewAttemptLemma DEF Keeps
<1>5. resolved' \in Seq(Input)
  <2>1. ChartFiles(o.spec) \in Seq(Input)
    BY <1>2, ChartFilesLemma
  <2> QED
    BY <1>2, <1>3, <2>1, ResolveStartLemma
<1>6. Len(view.spec.refs) \in Nat
  BY <1>2, RefsLemma
<1> HIDE DEF o
<1>7. WorkerTyped'
  BY <1>2, <1>3, <1>4, <1>6 DEF WorkerTyped, NextFetch
<1>8. \A q \in Refs : FluxObject(q)'
  BY <1>3 DEF TypeInv, source, FluxObject
<1>9. pc' \in Pcs /\ at' \in Nat
  BY <1>3 DEF NextFetch, Pcs
<1>10. TypeOK'
  BY <1>2, <1>3, <1>4, <1>5, <1>9 DEF TypeInv, TypeOK, object, config, source, queue
<1>11. QED
  BY <1>7, <1>8, <1>10 DEF TypeInv

LEMMA TypeSourceNotReady == TypeInv /\ SourceNotReady => TypeInv'
<1> SUFFICES ASSUME TypeInv, SourceNotReady PROVE TypeInv'
  OBVIOUS
<1>1. WorkerTyped'
  BY DEF TypeInv, SourceNotReady, Goto, WorkerTyped
<1>2. \A q \in Refs : FluxObject(q)'
  BY DEF TypeInv, SourceNotReady, source, FluxObject
<1>3. TypeOK'
  BY DEF TypeInv, TypeOK, SourceNotReady, Goto, object, config, source, queue, Pcs
<1>4. QED
  BY <1>1, <1>2, <1>3 DEF TypeInv

LEMMA TypeFailures ==
  TypeInv /\ (ResolveChartRefFails \/ FetchFails) => TypeInv'
<1> SUFFICES ASSUME TypeInv, ResolveChartRefFails \/ FetchFails PROVE TypeInv'
  OBVIOUS
<1>1. budget \in Nat
  BY DEF TypeInv, TypeOK
<1>2. Fail /\ pc # "idle" /\ \E cond : FailsBecause(cond, "readError")
  BY DEF ResolveChartRefFails, FetchFails
<1>3. budget' \in Nat
  BY <1>1, <1>2, BudgetLemma
<1>4. QED
  BY <1>2, <1>3, TypeFail

\* A reference fetched or skipped.
LEMMA TypeFetch ==
  ASSUME TypeInv, pc = "fetch", at' = at + 1, Goto(NextFetch(at + 1)),
         resolved' \in Seq(Input), budget' \in Nat,
         UNCHANGED <<object, config, source, deployed, view, viewCurrent, artifact>>
  PROVE  TypeInv'
<1>1. view \in Release /\ view.spec \in Specs /\ at \in 1 .. Len(view.spec.refs) + 1
      /\ at <= Len(view.spec.refs) /\ artifact \in Artifacts
  <2>1. view \in Release
    BY DEF TypeInv, WorkerTyped
  <2>2. at \in 1 .. Len(view.spec.refs) + 1 /\ artifact \in Artifacts
        /\ pc = IF at <= Len(view.spec.refs) THEN "fetch" ELSE "plan"
    BY DEF TypeInv, WorkerTyped
  <2> QED
    BY <2>1, <2>2 DEF Release
<1>2. Len(view.spec.refs) \in Nat
  BY <1>1, RefsLemma
<1>3. at' \in 1 .. Len(view'.spec.refs) + 1
      /\ pc' = IF at' <= Len(view'.spec.refs) THEN "fetch" ELSE "plan"
  BY <1>1, <1>2 DEF Goto, NextFetch
<1>4. WorkerTyped'
  BY <1>1, <1>3 DEF WorkerTyped
<1>5. \A q \in Refs : FluxObject(q)'
  BY DEF TypeInv, source, FluxObject
<1>6. pc' \in Pcs /\ at' \in Nat
  BY <1>1, <1>2, <1>3 DEF Pcs
<1>7. TypeOK'
  BY <1>6 DEF TypeInv, TypeOK, Goto, object, config, source, queue
<1>8. QED
  BY <1>4, <1>5, <1>7 DEF TypeInv

\* The reference at hand.
LEMMA ReferenceLemma ==
  ASSUME TypeInv, pc = "fetch"
  PROVE  /\ view \in Release /\ view.spec \in Specs /\ at \in DOMAIN view.spec.refs
         /\ at \in Nat /\ DOMAIN view.spec.refs = 1 .. Len(view.spec.refs)
         /\ Len(view.spec.refs) \in Nat
<1>1. view \in Release
  BY DEF TypeInv, WorkerTyped
<1>2. view.spec \in Specs
  BY <1>1 DEF Release
<1>3. at \in 1 .. Len(view.spec.refs) + 1
      /\ pc = IF at <= Len(view.spec.refs) THEN "fetch" ELSE "plan"
  BY DEF TypeInv, WorkerTyped
<1>4. QED
  BY <1>1, <1>2, <1>3, RefsLemma

LEMMA TypeFetchReference == TypeInv /\ FetchReference => TypeInv'
<1> SUFFICES ASSUME TypeInv, FetchReference PROVE TypeInv'
  OBVIOUS
<1>1. pc = "fetch" /\ typed[Reference.object] # Missing
  BY DEF FetchReference
<1>2. view.spec \in Specs /\ at \in DOMAIN view.spec.refs
  BY <1>1, ReferenceLemma
<1>3. Reference.object \in Objects
  BY <1>2, FetchedLemma, ObjectsAssumption DEF Reference
<1>4. typed[Reference.object] \in Contents
  BY <1>1, <1>3 DEF TypeInv, TypeOK
<1>5. Fetched(Reference, typed[Reference.object]) \in Input
  BY <1>2, <1>4, FetchedLemma DEF Reference
<1>6. resolved' \in Seq(Input)
  BY <1>5 DEF FetchReference, TypeInv, TypeOK
<1>7. budget' \in Nat
  BY DEF FetchReference, TypeInv, TypeOK
<1>8. QED
  BY <1>1, <1>6, <1>7, TypeFetch DEF FetchReference

LEMMA TypeFetchSkipped == TypeInv /\ FetchSkipped => TypeInv'
<1> SUFFICES ASSUME TypeInv, FetchSkipped PROVE TypeInv'
  OBVIOUS
<1>1. budget \in Nat /\ resolved' \in Seq(Input)
  BY DEF FetchSkipped, TypeInv, TypeOK
<1>2. budget' \in Nat
  BY <1>1, BudgetLemma DEF FetchSkipped
<1>3. QED
  BY <1>1, <1>2, TypeFetch DEF FetchSkipped

\* What nelm installs is typed, whether it plans anything or not.
LEMMA TypePlan == TypeInv /\ (PlanUpToDate \/ Install) => TypeInv'
<1> SUFFICES ASSUME TypeInv, PlanUpToDate \/ Install PROVE TypeInv'
  OBVIOUS
<1>1. pc = "plan" /\ Succeed
  BY DEF PlanUpToDate, Install
<1>2. view \in Release /\ artifact \in Artifacts /\ resolved \in Seq(Input)
  BY <1>1 DEF TypeInv, WorkerTyped, TypeOK
<1>3. view' \in Release
  BY <1>1, <1>2, HandleSuccessLemma DEF Succeed
<1>4. deployed' \in [parity: {0, 1}, content: Content \cup {None}]
  <2>1. deployed \in [parity: {0, 1}, content: Content \cup {None}]
    BY DEF TypeInv, TypeOK
  <2>2. buildInstallOptions(artifact, resolved) \in Content
    BY <1>2, OptionsLemma
  <2>3. CASE PlanUpToDate
    BY <2>1, <2>3 DEF PlanUpToDate
  <2>4. CASE Install
    BY <2>1, <2>2, <2>4 DEF Install
  <2> QED
    BY <2>3, <2>4
<1>5. WorkerTyped'
  BY <1>1, <1>3 DEF Succeed, Goto, WorkerTyped
<1>6. \A q \in Refs : FluxObject(q)'
  BY <1>1 DEF TypeInv, Succeed, source, FluxObject
<1>7. TypeOK'
  BY <1>1, <1>3, <1>4 DEF TypeInv, TypeOK, Succeed, Goto, object, config, source, queue, Pcs
<1>8. QED
  BY <1>5, <1>6, <1>7 DEF TypeInv

\* The three ways a reconcile ends.
LEMMA TypeWrite ==
  TypeInv /\ (WriteNotReady \/ WriteSuccess \/ WriteFailure) => TypeInv'
<1> SUFFICES ASSUME TypeInv, WriteNotReady \/ WriteSuccess \/ WriteFailure PROVE TypeInv'
  OBVIOUS
<1>1. /\ pc # "idle" /\ \E requeue \in BOOLEAN : Return(requeue)
      /\ StatusUpdated \/ StatusRejected
      /\ timer' = (timer \/ view.spec.interval > 0) \/ UNCHANGED timer
         \/ timer' = (timer \/ (~Exhausted(view.st) /\ Retries(view.st.failures)))
      /\ UNCHANGED <<config, source, deployed, budget>>
  BY DEF WriteNotReady, WriteSuccess, WriteFailure
<1>2. timer' \in BOOLEAN
  BY <1>1 DEF TypeInv, TypeOK
<1>3. queued \in BOOLEAN
  BY DEF TypeInv, TypeOK
<1>4. WorkerTyped' /\ pc' = "idle" /\ view' = None /\ viewCurrent' = FALSE
      /\ artifact' = None /\ resolved' = << >> /\ at' = 0 /\ queued' \in BOOLEAN
  BY <1>1, <1>3, ReturnLemma
<1>5. rel' \in Release /\ cache' \in Release /\ cacheCurrent' \in BOOLEAN
  <2>1. rel \in Release /\ cache \in Release /\ cacheCurrent \in BOOLEAN
    BY DEF TypeInv, TypeOK
  <2>2. CASE StatusUpdated
    BY <1>1, <2>1, <2>2, StatusUpdatedLemma
  <2>3. CASE StatusRejected
    BY <2>1, <2>3 DEF StatusRejected, object
  <2> QED
    BY <1>1, <2>2, <2>3
<1>6. \A q \in Refs : FluxObject(q)'
  BY <1>1 DEF TypeInv, source, FluxObject
<1>7. resolved' \in Seq(Input) /\ at' \in Nat /\ pc' \in Pcs
  BY <1>4 DEF Pcs
<1>8. TypeOK'
  BY <1>1, <1>2, <1>4, <1>5, <1>7 DEF TypeInv, TypeOK, config, source
<1>9. QED
  BY <1>4, <1>6, <1>8 DEF TypeInv

\* A step that leaves the worker and Flux alone.
LEMMA TypeFrame ==
  ASSUME TypeInv, UNCHANGED <<worker, flux>>
  PROVE  WorkerTyped' /\ \A q \in Refs : FluxObject(q)'
<1>1. WorkerTyped'
  BY DEF TypeInv, worker, WorkerTyped
<1>2. \A q \in Refs : FluxObject(q)'
  BY DEF TypeInv, FluxObject
<1>3. QED
  BY <1>1, <1>2

LEMMA TypeWatches ==
  ASSUME TypeInv,
         \/ CacheSync \/ FluxEvent \/ TimerFire
         \/ \E o \in Watched : MetadataEvent(o)
         \/ \E o \in Objects : TypedSync(o)
  PROVE  TypeInv'
<1>1. CASE CacheSync
  <2>1. TypeOK'
    BY <1>1 DEF TypeInv, TypeOK, CacheSync, config, source, worker
  <2> QED
    BY <1>1, <2>1, TypeFrame DEF TypeInv, CacheSync, source
<1>2. CASE FluxEvent
  <2>1. queued' \in BOOLEAN
    BY <1>2 DEF FluxEvent
  <2>2. events' \in Seq([ref: Refs, old: Seen, new: Seen])
    BY <1>2 DEF FluxEvent, TypeInv, TypeOK
  <2>3. TypeOK'
    BY <1>2, <2>1, <2>2 DEF TypeInv, TypeOK, FluxEvent, object, config, worker
  <2> QED
    BY <1>2, <2>3, TypeFrame DEF TypeInv, FluxEvent
<1>3. CASE TimerFire
  <2>1. TypeOK'
    BY <1>3 DEF TypeInv, TypeOK, TimerFire, object, config, source, worker
  <2> QED
    BY <1>3, <2>1, TypeFrame DEF TypeInv, TimerFire, source
<1>4. ASSUME NEW o \in Watched, MetadataEvent(o) PROVE TypeInv'
  <2>1. TypeOK'
    BY <1>4 DEF TypeInv, TypeOK, MetadataEvent, object, source, worker
  <2> QED
    BY <1>4, <2>1, TypeFrame DEF TypeInv, MetadataEvent, source
<1>5. ASSUME NEW o \in Objects, TypedSync(o) PROVE TypeInv'
  <2>1. typed' \in [Objects -> Contents \cup {Missing}]
    BY <1>5 DEF TypedSync, TypeInv, TypeOK
  <2>2. TypeOK'
    BY <1>5, <2>1 DEF TypeInv, TypeOK, TypedSync, object, source, queue, worker
  <2> QED
    BY <1>5, <2>2, TypeFrame DEF TypeInv, TypedSync, source
<1>6. QED
  BY <1>1, <1>2, <1>3, <1>4, <1>5

\* What an event shows of an object.
LEMMA ShownLemma ==
  ASSUME NEW o, o.ready \in BOOLEAN, o.built \in Artifacts \cup {None}
  PROVE  Shown(o) \in Seen
<1>1. Revision(None) = None
  BY DEF Revision
<1>2. Revision(o.built) \in {Revision(a) : a \in Artifacts} \cup {None}
  BY <1>1
<1>3. QED
  BY <1>2 DEF Shown, Seen

LEMMA TypeFlux ==
  ASSUME TypeInv, NEW q \in Refs, FluxBuildStarts(q) \/ FluxBuilds(q)
  PROVE  TypeInv'
<1> DEFINE Held == [spec: {SpecOf[s] : s \in Specs} \cup {None},
                    built: Artifacts \cup {None}, ready: BOOLEAN]
<1>1. flux \in [Refs -> Held] /\ flux[q] \in Held /\ FluxObject(q)
      /\ events \in Seq([ref: Refs, old: Seen, new: Seen])
  BY DEF TypeInv, TypeOK
<1>2. ASSUME NEW new \in Held, flux' = [flux EXCEPT ![q] = new], new.spec = flux[q].spec,
             new.spec = None => new.ready = FALSE, new.ready = TRUE => new.built \in Artifacts,
             events' \in Seq([ref: Refs, old: Seen, new: Seen]),
             UNCHANGED <<object, config, queue, deployed, worker, budget>>
      PROVE  TypeInv'
  <2> HIDE DEF Held
  <2>1. flux' \in [Refs -> Held]
    BY <1>1, <1>2
  <2>2. ASSUME NEW p \in Refs PROVE FluxObject(p)'
    <3>1. CASE p = q
      <4>1. flux'[p] = new
        BY <1>1, <1>2, <3>1
      <4>2. new.ready \in BOOLEAN
        BY DEF Held
      <4> QED
        BY <1>1, <1>2, <3>1, <4>1, <4>2 DEF FluxObject
    <3>2. CASE p # q
      <4>1. flux'[p] = flux[p]
        BY <1>1, <1>2, <3>2
      <4> QED
        BY <4>1 DEF TypeInv, FluxObject
    <3> QED
      BY <3>1, <3>2
  <2>3. WorkerTyped'
    BY <1>2 DEF TypeInv, worker, WorkerTyped
  <2>4. TypeOK'
    BY <1>2, <2>1 DEF TypeInv, TypeOK, object, config, queue, worker, Held
  <2> QED
    BY <2>2, <2>3, <2>4 DEF TypeInv
<1>3. CASE FluxBuildStarts(q)
  <2> DEFINE new == [flux[q] EXCEPT !.ready = FALSE]
  <2>1. new \in Held /\ new.spec = flux[q].spec /\ new.ready = FALSE
    BY <1>1
  <2>2. flux' = [flux EXCEPT ![q] = new] /\ events' = events
        /\ UNCHANGED <<object, config, queue, deployed, worker, budget>>
    BY <1>3 DEF FluxBuildStarts
  <2> HIDE DEF new, Held
  <2> QED
    BY <1>1, <1>2, <2>1, <2>2
<1>4. CASE FluxBuilds(q)
  <2> DEFINE a == ArtifactOf(q.kind, flux[q].spec)
             new == [flux[q] EXCEPT !.built = a, !.ready = TRUE]
  <2>1. PICK s \in Specs : RefOf[s] = q /\ flux[q].spec = SpecOf[s]
    BY <1>1, <1>4 DEF FluxBuilds, FluxObject
  <2>2. flux[q].spec # None /\ a \in Artifacts
    <3>1. a = WantedArtifact[s]
      BY <2>1 DEF WantedArtifact
    <3> QED
      BY <1>4, <3>1 DEF FluxBuilds, Artifacts
  <2> HIDE DEF a
  <2>3. new \in Held /\ new.spec = flux[q].spec /\ new.built = a /\ new.ready = TRUE
    BY <1>1, <2>2
  <2>4. flux' = [flux EXCEPT ![q] = new]
        /\ UNCHANGED <<object, config, queue, deployed, worker, budget>>
    BY <1>4 DEF FluxBuilds, a
  <2>5. flux'[q] = new
    BY <1>1, <2>4
  <2>6. Shown(flux[q]) \in Seen /\ Shown(flux'[q]) \in Seen
    <3>1. flux[q].ready \in BOOLEAN /\ flux[q].built \in Artifacts \cup {None}
      BY <1>1
    <3>2. new.ready \in BOOLEAN /\ new.built \in Artifacts \cup {None}
      BY <2>2, <2>3
    <3> HIDE DEF new
    <3>3. Shown(flux[q]) \in Seen
      BY <3>1, ShownLemma
    <3>4. Shown(new) \in Seen
      BY <3>2, ShownLemma
    <3> QED
      BY <2>5, <3>3, <3>4
  <2>7. events' \in Seq([ref: Refs, old: Seen, new: Seen])
    <3> DEFINE Event == [ref: Refs, old: Seen, new: Seen]
               e == [ref |-> q, old |-> Shown(flux[q]), new |-> Shown(flux'[q])]
    <3>1. e \in Event /\ events \in Seq(Event)
      BY <1>1, <2>6
    <3>2. events' = events \/ events' = Append(events, e)
      BY <1>4 DEF FluxBuilds
    <3> HIDE DEF e, Event
    <3>3. events' \in Seq(Event)
      BY <3>1, <3>2
    <3> QED
      BY <3>3 DEF Event
  <2> HIDE DEF new, Held
  <2> QED
    BY <1>2, <2>2, <2>3, <2>4, <2>7
<1>5. QED
  BY <1>3, <1>4

LEMMA TypeDisturbance ==
  ASSUME TypeInv, EditSpec \/ (\E o \in Objects : ChangeData(o)) \/ Crash
  PROVE  TypeInv'
<1>0. budget \in Nat
  BY DEF TypeInv, TypeOK
<1>1. CASE EditSpec
  <2>1. budget' \in Nat
    BY <1>0, <1>1, BudgetLemma DEF EditSpec
  <2>2. rel' \in Release
    <3>1. rel \in Release
      BY DEF TypeInv, TypeOK
    <3>2. PICK s \in Specs : rel' = [rel EXCEPT !.spec = s, !.gen = rel.gen + 1]
      BY <1>1 DEF EditSpec
    <3> DEFINE g == rel.gen + 1
    <3>3. g \in Nat
      BY <3>1 DEF Release
    <3>4. rel' = [rel EXCEPT !.spec = s, !.gen = g]
      BY <3>2
    <3> HIDE DEF g
    <3> QED
      BY <3>1, <3>3, <3>4 DEF Release
  <2>3. TypeOK'
    BY <1>1, <2>1, <2>2 DEF TypeInv, TypeOK, EditSpec, config, source, queue
  <2>4. WorkerTyped' /\ \A q \in Refs : FluxObject(q)'
    BY <1>1 DEF TypeInv, EditSpec, source, WorkerTyped, FluxObject
  <2> QED
    BY <2>3, <2>4 DEF TypeInv
<1>2. ASSUME NEW o \in Objects, ChangeData(o) PROVE TypeInv'
  <2>1. budget' \in Nat
    BY <1>0, <1>2, BudgetLemma DEF ChangeData
  <2>2. data' \in [Objects -> Contents \cup {Missing}]
    BY <1>2 DEF ChangeData, TypeInv, TypeOK
  <2>3. unseen' \subseteq Watched
    BY <1>2 DEF ChangeData, TypeInv, TypeOK
  <2>4. TypeOK'
    BY <1>2, <2>1, <2>2, <2>3 DEF TypeInv, TypeOK, ChangeData, object, source, queue, worker
  <2> QED
    BY <1>2, <2>4, TypeFrame DEF TypeInv, ChangeData, source
<1>3. CASE Crash
  <2>1. budget' \in Nat
    BY <1>0, <1>3, BudgetLemma DEF Crash
  <2>2. resolved' \in Seq(Input) /\ events' \in Seq([ref: Refs, old: Seen, new: Seen])
        /\ at' \in Nat /\ pc' \in Pcs
    BY <1>3 DEF Crash, Pcs
  <2>3. TypeOK'
    BY <1>3, <2>1, <2>2 DEF TypeInv, TypeOK, Crash
  <2>4. WorkerTyped' /\ \A q \in Refs : FluxObject(q)'
    BY <1>3 DEF TypeInv, Crash, WorkerTyped, FluxObject
  <2> QED
    BY <2>3, <2>4 DEF TypeInv
<1>4. QED
  BY <1>1, <1>2, <1>3

\* Every step keeps the types.
LEMMA TypeStep == TypeInv /\ [Next]_vars => TypeInv'
<1> SUFFICES ASSUME TypeInv, [Next]_vars PROVE TypeInv'
  OBVIOUS
<1>1. CASE WorkerStep
  BY <1>1, TypeSwitchSource, TypeSwitchConflict, TypeEnsureHelmChart, TypeResolveChartRef,
     TypeSourceNotReady, TypeFailures, TypeFetchReference, TypeFetchSkipped, TypePlan, TypeWrite
     DEF WorkerStep
<1>2. CASE Flux
  BY <1>2, TypeFlux DEF Flux
<1>3. CASE Environment
  BY <1>3, TypeDisturbance DEF Environment
<1>4. QED
  BY <1>1, <1>2, <1>3, TypeReconcile, TypeWatches, TypeStutter DEF Next

(***************************************************************************)
(* DeployInputs is type-correct, for every set of specs the CRD admits: in *)
(* particular nelm is given artifacts that Flux built from a spec of a     *)
(* user, and inputs that some spec asks for (TypeOK).                      *)
(***************************************************************************)
THEOREM TypeCorrect == Spec => []TypeOK
<1>1. Spec => []TypeInv
  BY TypeInit, TypeStep, PTL DEF Spec
<1>2. TypeInv => TypeOK
  BY DEF TypeInv
<1>3. QED
  BY <1>1, <1>2, PTL

-----------------------------------------------------------------------------
(***************************************************************************)
(* Readiness.                                                              *)
(***************************************************************************)
LEMMA ReadyInit == Init => ReadyInv
<1> SUFFICES ASSUME Init PROVE ReadyInv
  OBVIOUS
<1>1. rel.st = NoStatus /\ rel.gen = 1 /\ cache = rel /\ pc = "idle" /\ viewCurrent = FALSE
  BY DEF Init
<1>2. NoStatus.ready = FALSE /\ NoStatus.obs = 0
  BY DEF NoStatus
<1>3. QED
  BY <1>1, <1>2 DEF ReadyInv, Resolving, Applied, Copies, Conditions, Current

\* Nothing the invariant speaks of changes.
LEMMA ReadyFrame ==
  ASSUME ReadyInv, UNCHANGED <<object, flux, deployed, worker>>
  PROVE  ReadyInv'
<1>1. Resolving' /\ Applied'
  BY DEF ReadyInv, Resolving, Applied, worker
<1>2. Copies' /\ Conditions'
  BY DEF ReadyInv, Copies, Conditions, SameSpec, Current, object, worker
<1>3. QED
  BY <1>1, <1>2 DEF ReadyInv

\* The worker gives up what it has.
LEMMA ReadyIdle ==
  ASSUME ReadyInv, pc' = "idle", viewCurrent' = FALSE, UNCHANGED <<object, deployed>>
  PROVE  ReadyInv'
<1>1. Resolving' /\ Applied'
  BY DEF Resolving, Applied
<1>2. Copies' /\ Conditions'
  BY DEF ReadyInv, Copies, Conditions, Current, object
<1>3. QED
  BY <1>1, <1>2 DEF ReadyInv

LEMMA ReadyReconcile == TypeInv /\ ReadyInv /\ Reconcile => ReadyInv'
<1> SUFFICES ASSUME TypeInv, ReadyInv, Reconcile PROVE ReadyInv'
  OBVIOUS
<1>1. /\ pc' \in {"switch", "source", "helm"} /\ (pc' = "source" => IsOCI(cache.spec))
      /\ view' = cache /\ viewCurrent' = cacheCurrent
      /\ UNCHANGED <<rel, cache, cacheCurrent, deployed>>
  BY DEF Reconcile, object
<1>2. Resolving' /\ Applied'
  BY <1>1 DEF Resolving, Applied
<1>3. Copies' /\ Conditions'
  BY <1>1 DEF ReadyInv, Copies, Conditions, SameSpec, Current
<1>4. QED
  BY <1>2, <1>3 DEF ReadyInv

LEMMA ReadySwitchSource == TypeInv /\ ReadyInv /\ SwitchSource => ReadyInv'
<1> SUFFICES ASSUME TypeInv, ReadyInv, SwitchSource PROVE ReadyInv'
  OBVIOUS
<1>1. pc' = "idle" /\ viewCurrent' = FALSE /\ cacheCurrent' = FALSE
      /\ UNCHANGED <<cache, deployed>>
  BY DEF SwitchSource, Return
<1>2. Keeps(rel', rel) /\ rel'.st.ready = rel.st.ready /\ rel'.st.obs = rel.st.obs
  <2> DEFINE st == [rel.st EXCEPT !.last = SourceOf[view.spec]]
  <2>1. rel \in Release /\ rel.st \in Status
    BY DEF TypeInv, TypeOK, Release
  <2>2. st.ready = rel.st.ready /\ st.obs = rel.st.obs
    BY <2>1 DEF Status
  <2>3. rel' = [rel EXCEPT !.st = st]
    BY DEF SwitchSource
  <2> HIDE DEF st
  <2> QED
    BY <2>1, <2>2, <2>3 DEF Release, Keeps
<1>3. Resolving' /\ Applied'
  BY <1>1 DEF Resolving, Applied
<1>4. Copies' /\ Conditions'
  BY <1>1, <1>2 DEF ReadyInv, Copies, Conditions, Current, Keeps
<1>5. QED
  BY <1>3, <1>4 DEF ReadyInv

LEMMA ReadyEnsureHelmChart == TypeInv /\ ReadyInv /\ EnsureHelmChart => ReadyInv'
<1> SUFFICES ASSUME TypeInv, ReadyInv, EnsureHelmChart PROVE ReadyInv'
  OBVIOUS
<1>1. pc = "helm" /\ pc' = "source" /\ UNCHANGED <<object, deployed, view, viewCurrent>>
      /\ flux' = [flux EXCEPT ![RefOf[view.spec]].spec = SpecOf[view.spec]]
  BY DEF EnsureHelmChart, Goto
<1>2. Applied'
  <2>1. RefOf[view.spec] \in DOMAIN flux
    BY <1>1 DEF TypeInv, WorkerTyped, TypeOK, Release, Refs
  <2>2. flux[RefOf[view.spec]] \in [spec: {SpecOf[s] : s \in Specs} \cup {None},
                                    built: Artifacts \cup {None}, ready: BOOLEAN]
    BY <2>1 DEF TypeInv, TypeOK
  <2> QED
    BY <1>1, <2>1, <2>2 DEF Applied
<1>3. Resolving'
  BY <1>1 DEF Resolving
<1>4. Copies' /\ Conditions'
  BY <1>1 DEF ReadyInv, Copies, Conditions, SameSpec, Current, object
<1>5. QED
  BY <1>2, <1>3, <1>4 DEF ReadyInv

LEMMA ReadySourceNotReady == TypeInv /\ ReadyInv /\ SourceNotReady => ReadyInv'
<1> SUFFICES ASSUME TypeInv, ReadyInv, SourceNotReady PROVE ReadyInv'
  OBVIOUS
<1>1. pc = "source" /\ pc' = "writeNotReady" /\ UNCHANGED <<object, deployed, view, viewCurrent>>
  BY DEF SourceNotReady, Goto
<1>2. Resolving' /\ Applied'
  BY <1>1 DEF Resolving, Applied
<1>3. Copies' /\ Conditions'
  BY <1>1 DEF ReadyInv, Copies, Conditions, SameSpec, Current, object
<1>4. QED
  BY <1>2, <1>3 DEF ReadyInv

LEMMA ReadyFail == TypeInv /\ ReadyInv /\ pc # "idle" /\ Fail => ReadyInv'
<1> SUFFICES ASSUME TypeInv, ReadyInv, pc # "idle", Fail PROVE ReadyInv'
  OBVIOUS
<1>1. view \in Release /\ view' = HandleFailure(view)
      /\ pc' = "writeFailure" /\ UNCHANGED <<object, deployed, viewCurrent>>
  BY DEF TypeInv, WorkerTyped, Fail, Goto
<1>2. Keeps(view', view) /\ view'.st.ready = FALSE /\ view'.st.obs = view.gen /\ view.gen \in Nat
  BY <1>1, HandleFailureLemma DEF Release
<1>3. Resolving' /\ Applied'
  BY <1>1 DEF Resolving, Applied
<1>4. Copies' /\ Conditions'
  BY <1>1, <1>2 DEF ReadyInv, Copies, Conditions, SameSpec, Current, object, Keeps
<1>5. QED
  BY <1>3, <1>4 DEF ReadyInv

-----------------------------------------------------------------------------
(***************************************************************************)
(* What Resolve collects.                                                  *)
(***************************************************************************)
\* At first: the chart's values files and the inline values.
LEMMA CollectedStart ==
  ASSUME NEW s \in Specs, NEW d
  PROVE  Collected(s, 1, d) = ResolveStart(ChartFiles(SpecOf[s]), s)
<1> DEFINE f == [i \in 1 .. 1 - 1 |-> Fetched(s.refs[i], d[i])]
           S == {i \in 1 .. 1 - 1 : d[i] # Missing}
           start == ResolveStart(ChartFiles(SpecOf[s]), s)
<1>1. S = {}
  OBVIOUS
<1>2. Pick(f, S) = << >>
  <2> HIDE DEF f, S
  <2>1. Cardinality(S) = 0
    BY <1>1, FS_EmptySet
  <2> QED
    BY <2>1 DEF Pick
<1>3. start \in Seq(Input)
  BY ChartFilesLemma, ResolveStartLemma
<1>4. Collected(s, 1, d) = start \o Pick(f, S)
  BY DEF Collected
<1> HIDE DEF f, S, start
<1>5. Collected(s, 1, d) = start
  BY <1>2, <1>3, <1>4, ConcatEmptySeq
<1>6. QED
  BY <1>5 DEF start

\* Then one input per reference, but for those that are missing.
LEMMA CollectedNext ==
  ASSUME NEW s \in Specs, NEW n \in DOMAIN s.refs,
         NEW d \in [1 .. n - 1 -> Contents \cup {Missing}], NEW c \in Contents \cup {Missing}
  PROVE  LET e == [i \in 1 .. n |-> IF i = n THEN c ELSE d[i]]
         IN  Collected(s, n + 1, e) = IF c = Missing THEN Collected(s, n, d)
                                      ELSE Append(Collected(s, n, d), Fetched(s.refs[n], c))
<1> DEFINE m == n - 1
           e == [i \in 1 .. n |-> IF i = n THEN c ELSE d[i]]
           f == [i \in 1 .. m |-> Fetched(s.refs[i], d[i])]
           g == [i \in 1 .. n |-> Fetched(s.refs[i], e[i])]
           S == {i \in 1 .. m : d[i] # Missing}
           start == ResolveStart(ChartFiles(SpecOf[s]), s)
<1>1. n \in Nat /\ m \in Nat /\ m + 1 = n /\ (n + 1) - 1 = n
      /\ 1 .. n = (1 .. m) \cup {n} /\ n \notin 1 .. m /\ 1 .. m \subseteq DOMAIN s.refs
  BY RefsLemma
<1>2. Collected(s, n, d) = start \o Pick(f, S)
  BY DEF Collected
<1>3. Collected(s, n + 1, e) = start \o Pick(g, {i \in 1 .. n : e[i] # Missing})
  BY <1>1 DEF Collected
<1>4. {i \in 1 .. n : e[i] # Missing} = IF c = Missing THEN S ELSE S \cup {n}
  <2>1. \A i \in 1 .. m : i \in 1 .. n /\ e[i] = d[i]
    BY <1>1
  <2>2. e[n] = c /\ n \in 1 .. n
    BY <1>1
  <2> HIDE DEF e, m
  <2>3. \A i \in 1 .. n : i \in 1 .. m \/ i = n
    BY <1>1
  <2> QED
    BY <1>1, <2>1, <2>2, <2>3
<1> DEFINE T == Input \cup {g[i] : i \in 1 .. n}
<1>5. m \in Nat /\ S \in SUBSET (1 .. m) /\ g \in [1 .. n -> T]
  BY <1>1
<1>6. start \in Seq(T)
  <2>1. start \in Seq(Input)
    BY ChartFilesLemma, ResolveStartLemma
  <2> HIDE DEF start, g
  <2> QED
    BY <2>1
<1>7. \A i \in S : g[i] = f[i]
  <2>1. ASSUME NEW i \in S PROVE g[i] = f[i]
    <3>1. i \in 1 .. m /\ i \in 1 .. n /\ e[i] = d[i]
      BY <1>1
    <3>2. g[i] = Fetched(s.refs[i], e[i]) /\ f[i] = Fetched(s.refs[i], d[i])
      BY <3>1
    <3> QED
      BY <3>1, <3>2
  <2> QED
    BY <2>1
<1>8. g[n] = Fetched(s.refs[n], c) /\ g[n] \in T
  BY <1>1
<1> HIDE DEF e, f, g, S, T, start, m
<1>9. Pick(g, S) = Pick(f, S)
  BY <1>5, <1>7, PickSame
<1>10. Pick(g, S) \in Seq(T) /\ Pick(g, S \cup {n}) = Append(Pick(g, S), g[n])
  <2>1. Before(S, n)
    BY <1>1, <1>5 DEF Before, m
  <2>2. g \in Seq(T) /\ S \in SUBSET (DOMAIN g)
    <3>1. n \in Nat /\ g \in [1 .. n -> T]
      BY <1>1, <1>5
    <3>2. \A i \in 1 .. n : g[i] \in T
      BY <3>1
    <3>3. [i \in 1 .. n |-> g[i]] \in Seq(T) /\ g = [i \in 1 .. n |-> g[i]]
      BY <3>1, <3>2, IsASeq
    <3> QED
      BY <1>1, <1>5, <3>3
  <2>3. Pick(g, S) \in Seq(T)
    BY <2>2, PickType
  <2> QED
    BY <2>1, <2>3, PickAppend, Zenon
<1>11. CASE c = Missing
  <2>1. Collected(s, n + 1, e) = Collected(s, n, d)
    BY <1>2, <1>3, <1>4, <1>9, <1>11
  <2> QED
    BY <1>11, <2>1 DEF e
<1>12. CASE c # Missing
  <2>1. Collected(s, n + 1, e) = start \o Append(Pick(g, S), g[n])
    BY <1>3, <1>4, <1>10, <1>12
  <2>2. start \o Append(Pick(g, S), g[n]) = Append(start \o Pick(g, S), g[n])
    BY <1>6, <1>8, <1>10
  <2>3. Collected(s, n + 1, e) = Append(Collected(s, n, d), Fetched(s.refs[n], c))
    BY <1>2, <1>8, <1>9, <2>1, <2>2
  <2> QED
    BY <1>12, <2>3 DEF e
<1>13. QED
  BY <1>11, <1>12

\* After the last reference: what the spec asks for.
LEMMA CollectedAll ==
  ASSUME NEW s \in Specs, NEW d
  PROVE  Collected(s, Len(s.refs) + 1, d) = WantedInputs(s, d)
<1>1. DOMAIN s.refs = 1 .. (Len(s.refs) + 1) - 1
  BY RefsLemma
<1>2. QED
  BY <1>1 DEF Collected, WantedInputs

\* The object Flux holds has the values files of the spec Reconcile works on.
LEMMA SameFiles ==
  ASSUME TypeInv, ReadyInv, pc = "source", flux[RefOf[view.spec]].ready
  PROVE  ChartFiles(flux[RefOf[view.spec]].spec) = ChartFiles(SpecOf[view.spec])
<1>1. view.spec \in Specs
  BY ReadyObject
<1>2. PICK t \in Specs : RefOf[t] = RefOf[view.spec] /\ flux[RefOf[view.spec]].spec = SpecOf[t]
  BY ReadyObject
<1>3. CASE IsOCI(view.spec)
  <2>1. RefOf[view.spec].kind = "OCIRepository"
    BY <1>1, <1>3, KindLemma DEF IsOCI
  <2>2. IsOCI(t)
    BY <1>2, <2>1, KindLemma
  <2> QED
    BY <1>1, <1>2, <1>3, <2>2, ChartFilesLemma
<1>4. CASE ~IsOCI(view.spec)
  BY <1>4 DEF ReadyInv, Applied
<1>5. QED
  BY <1>3, <1>4

LEMMA ReadyResolveChartRef == TypeInv /\ ReadyInv /\ ResolveChartRef => ReadyInv'
<1> SUFFICES ASSUME TypeInv, ReadyInv, ResolveChartRef PROVE ReadyInv'
  OBVIOUS
<1> DEFINE o == flux[RefOf[view.spec]]
<1>1. pc = "source" /\ o.ready
  BY DEF ResolveChartRef
<1>2. view \in Release /\ view.spec \in Specs /\ o.built \in Artifacts
  BY <1>1, ReadyObject
<1>3. view' = NewAttempt([view EXCEPT !.st.attempted = Revision(o.built)])
      /\ resolved' = ResolveStart(ChartFiles(o.spec), view.spec)
      /\ at' = 1 /\ pc' = NextFetch(1) /\ UNCHANGED <<object, deployed, viewCurrent>>
  BY DEF ResolveChartRef, Goto
<1>4. Keeps(view', view) /\ view'.st.obs = view.st.obs
  BY <1>2, <1>3, NewAttemptLemma
<1>5. ChartFiles(o.spec) = ChartFiles(SpecOf[view.spec])
  BY <1>1, SameFiles
<1> HIDE DEF o
<1>6. pc' \in {"fetch", "plan"}
  BY <1>3 DEF NextFetch
<1>7. Resolving'
  <2> DEFINE d == [i \in 1 .. 0 |-> Missing]
  <2>1. resolved' = Collected(view.spec, 1, d)
    BY <1>2, <1>3, <1>5, CollectedStart
  <2>2. resolved' = Collected(view'.spec, at', d)
    BY <1>3, <1>4, <2>1 DEF Keeps
  <2>3. at' - 1 = 0
    BY <1>3
  <2>4. d \in [1 .. at' - 1 -> Contents \cup {Missing}]
        /\ \A i \in 1 .. at' - 1 : d[i] = Missing => view'.spec.refs[i].optional
    BY <2>3
  <2> HIDE DEF d
  <2> QED
    BY <2>2, <2>4 DEF Resolving
<1>8. Applied'
  BY <1>6 DEF Applied
<1>9. Copies' /\ Conditions'
  BY <1>1, <1>3, <1>4, <1>6 DEF ReadyInv, Copies, Conditions, SameSpec, Current, object, Keeps
<1>10. QED
  BY <1>7, <1>8, <1>9 DEF ReadyInv

\* Resolve goes on to the next reference with what the last one read.
LEMMA ReadyFetch ==
  ASSUME TypeInv, ReadyInv, pc = "fetch", at' = at + 1, Goto(NextFetch(at + 1)),
         UNCHANGED <<object, deployed, view, viewCurrent>>,
         NEW c \in Contents \cup {Missing}, c = Missing => Reference.optional,
         resolved' = IF c = Missing THEN resolved ELSE Append(resolved, Fetched(Reference, c))
  PROVE  ReadyInv'
<1>1. view.spec \in Specs /\ at \in DOMAIN view.spec.refs /\ at \in Nat
      /\ DOMAIN view.spec.refs = 1 .. Len(view.spec.refs) /\ Len(view.spec.refs) \in Nat
  BY ReferenceLemma
<1>2. PICK d \in [1 .. at - 1 -> Contents \cup {Missing}] :
        /\ \A i \in 1 .. at - 1 : d[i] = Missing => view.spec.refs[i].optional
        /\ resolved = Collected(view.spec, at, d)
  BY DEF ReadyInv, Resolving
<1> DEFINE e == [i \in 1 .. at |-> IF i = at THEN c ELSE d[i]]
<1>3. Collected(view.spec, at + 1, e) =
        IF c = Missing THEN resolved ELSE Append(resolved, Fetched(view.spec.refs[at], c))
  BY <1>1, <1>2, CollectedNext
<1>4. at' - 1 = at /\ \A i \in 1 .. at : i # at => i \in 1 .. at - 1
  BY <1>1
<1>5. e \in [1 .. at' - 1 -> Contents \cup {Missing}]
  BY <1>4
<1>6. \A i \in 1 .. at' - 1 : e[i] = Missing => view'.spec.refs[i].optional
  BY <1>2, <1>4 DEF Reference
<1> HIDE DEF e
<1>7. resolved' = Collected(view'.spec, at', e)
  BY <1>3 DEF Reference
<1>8. Resolving'
  BY <1>5, <1>6, <1>7 DEF Resolving
<1>9. pc' \in {"fetch", "plan"}
  BY DEF Goto, NextFetch
<1>10. Applied'
  BY <1>9 DEF Applied
<1>11. Copies' /\ Conditions'
  BY <1>9 DEF ReadyInv, Copies, Conditions, SameSpec, Current, object
<1>12. QED
  BY <1>8, <1>10, <1>11 DEF ReadyInv

LEMMA ReadyFetchReference == TypeInv /\ ReadyInv /\ FetchReference => ReadyInv'
<1> SUFFICES ASSUME TypeInv, ReadyInv, FetchReference PROVE ReadyInv'
  OBVIOUS
<1> DEFINE c == typed[Reference.object]
<1>1. pc = "fetch" /\ c # Missing /\ at' = at + 1 /\ Goto(NextFetch(at + 1))
      /\ resolved' = Append(resolved, Fetched(Reference, c))
      /\ UNCHANGED <<object, deployed, view, viewCurrent>>
  BY DEF FetchReference
<1>2. view.spec \in Specs /\ at \in DOMAIN view.spec.refs
  BY <1>1, ReferenceLemma
<1>3. Reference.object \in Objects
  BY <1>2, FetchedLemma, ObjectsAssumption DEF Reference
<1>4. c \in Contents \cup {Missing}
  BY <1>3 DEF TypeInv, TypeOK
<1> HIDE DEF c
<1>5. QED
  BY <1>1, <1>4, ReadyFetch

LEMMA ReadyFetchSkipped == TypeInv /\ ReadyInv /\ FetchSkipped => ReadyInv'
<1> SUFFICES ASSUME TypeInv, ReadyInv, FetchSkipped PROVE ReadyInv'
  OBVIOUS
<1>1. pc = "fetch" /\ Reference.optional /\ at' = at + 1 /\ Goto(NextFetch(at + 1))
      /\ resolved' = resolved /\ UNCHANGED <<object, deployed, view, viewCurrent>>
  BY DEF FetchSkipped
<1>2. Missing \in Contents \cup {Missing}
  OBVIOUS
<1>3. QED
  BY <1>1, <1>2, ReadyFetch

\* nelm deploys, or finds deployed, what Resolve has collected.
LEMMA ReadyPlan == TypeInv /\ ReadyInv /\ (PlanUpToDate \/ Install) => ReadyInv'
<1> SUFFICES ASSUME TypeInv, ReadyInv, PlanUpToDate \/ Install PROVE ReadyInv'
  OBVIOUS
<1>1. pc = "plan" /\ Succeed
  BY DEF PlanUpToDate, Install
<1>2. view \in Release /\ view.spec \in Specs /\ artifact \in Artifacts
      /\ resolved \in Seq(Input) /\ at \in 1 .. Len(view.spec.refs) + 1
      /\ ~(at <= Len(view.spec.refs))
  <2>1. view \in Release /\ artifact \in Artifacts /\ resolved \in Seq(Input)
    BY <1>1 DEF TypeInv, WorkerTyped, TypeOK
  <2>2. at \in 1 .. Len(view.spec.refs) + 1
        /\ pc = IF at <= Len(view.spec.refs) THEN "fetch" ELSE "plan"
    BY <1>1 DEF TypeInv, WorkerTyped
  <2>3. view.spec \in Specs
    BY <2>1 DEF Release
  <2> QED
    BY <1>1, <2>1, <2>2, <2>3
<1>3. Len(view.spec.refs) \in Nat /\ DOMAIN view.spec.refs = 1 .. Len(view.spec.refs)
  BY <1>2, RefsLemma
<1>4. at = Len(view.spec.refs) + 1 /\ 1 .. at - 1 = DOMAIN view.spec.refs
  BY <1>2, <1>3
<1>5. PICK d \in [1 .. at - 1 -> Contents \cup {Missing}] :
        /\ \A i \in 1 .. at - 1 : d[i] = Missing => view.spec.refs[i].optional
        /\ resolved = Collected(view.spec, at, d)
  BY <1>1 DEF ReadyInv, Resolving
<1>6. deployed'.content = buildInstallOptions(artifact, resolved)
  <2>1. CASE PlanUpToDate
    BY <1>2, <2>1, OptionsLemma DEF PlanUpToDate, Planned
  <2>2. CASE Install
    BY <2>2 DEF Install
  <2> QED
    BY <2>1, <2>2
<1>7. Complete(view.spec, deployed'.content)
  <2>1. resolved = WantedInputs(view.spec, d)
    BY <1>2, <1>4, <1>5, CollectedAll
  <2>2. deployed'.content = Wanted(view.spec, artifact, d)
    BY <1>6, <2>1 DEF Wanted
  <2>3. d \in [DOMAIN view.spec.refs -> Contents \cup {Missing}]
    BY <1>4
  <2>4. \A i \in DOMAIN view.spec.refs : d[i] = Missing => view.spec.refs[i].optional
    BY <1>4, <1>5
  <2> QED
    BY <1>2, <2>2, <2>3, <2>4 DEF Complete
<1>8. view' = HandleSuccess(view) /\ pc' = "writeSuccess" /\ UNCHANGED <<object, viewCurrent>>
  BY <1>1 DEF Succeed, Goto
<1>9. Keeps(view', view) /\ view'.st.obs = view.gen /\ view.gen \in Nat
  BY <1>2, <1>8, HandleSuccessLemma DEF Release
<1>10. Resolving' /\ Applied'
  BY <1>8 DEF Resolving, Applied
<1>11. Copies' /\ Conditions'
  BY <1>1, <1>7, <1>8, <1>9 DEF ReadyInv, Copies, Conditions, SameSpec, Current, object, Keeps
<1>12. QED
  BY <1>10, <1>11 DEF ReadyInv

\* A status write, accepted only for the generation it was made for.
LEMMA ReadyWrite ==
  TypeInv /\ ReadyInv /\ (WriteNotReady \/ WriteSuccess \/ WriteFailure) => ReadyInv'
<1> SUFFICES ASSUME TypeInv, ReadyInv, WriteNotReady \/ WriteSuccess \/ WriteFailure
             PROVE  ReadyInv'
  OBVIOUS
<1>1. /\ pc \in {"writeNotReady", "writeSuccess", "writeFailure"}
      /\ pc' = "idle" /\ viewCurrent' = FALSE /\ UNCHANGED deployed
      /\ StatusUpdated \/ StatusRejected
  BY DEF WriteNotReady, WriteSuccess, WriteFailure, Return
<1>2. CASE StatusRejected
  BY <1>1, <1>2, ReadyIdle DEF StatusRejected
<1>3. CASE StatusUpdated
  <2>1. /\ rel' \in Release /\ Keeps(rel', rel) /\ rel'.st = view.st
        /\ cacheCurrent' = (cacheCurrent /\ rel.st = view.st) /\ cache' = cache
    BY <1>1, <1>3, StatusUpdatedLemma
  <2>2. viewCurrent /\ rel \in Release
    BY <1>3 DEF StatusUpdated, TypeInv, TypeOK
  <2>3. SameSpec(view) /\ SameSpec(cache) /\ view.st.obs <= view.gen
    BY <1>1, <2>2 DEF ReadyInv, Copies
  <2>4. Resolving' /\ Applied'
    BY <1>1 DEF Resolving, Applied
  <2>5. cacheCurrent' => cache' = rel'
    <3> SUFFICES ASSUME cacheCurrent' PROVE cache' = rel'
      OBVIOUS
    <3>1. cacheCurrent /\ rel.st = view.st
      BY <2>1
    <3>2. rel' = rel
      BY <2>2, <3>1, <1>3 DEF StatusUpdated, Release
    <3> QED
      BY <2>1, <3>1, <3>2 DEF ReadyInv, Copies
  <2>6. Copies'
    <3>1. cache.st.obs <= cache.gen
      BY DEF ReadyInv, Copies
    <3> QED
      BY <1>1, <2>1, <2>3, <2>5, <3>1 DEF Copies, SameSpec, Keeps
  <2>7. rel'.st.ready /\ Current' => Complete(rel'.spec, deployed'.content)
    <3>1. CASE pc = "writeSuccess"
      <4>1. Complete(view.spec, deployed.content)
        BY <3>1 DEF ReadyInv, Conditions
      <4> QED
        BY <1>1, <2>1, <2>3, <4>1 DEF SameSpec, Keeps
    <3>2. CASE pc = "writeFailure"
      BY <2>1, <3>2 DEF ReadyInv, Conditions
    <3>3. CASE pc = "writeNotReady"
      <4>1. view.st = rel.st
        BY <2>2, <3>3 DEF ReadyInv, Conditions
      <4>2. rel'.st.ready /\ Current' => rel.st.ready /\ Current
        BY <2>1, <4>1 DEF Current, Keeps
      <4>3. rel.st.ready /\ Current => Complete(rel.spec, deployed.content)
        BY DEF ReadyInv, Conditions
      <4> QED
        BY <1>1, <2>1, <4>2, <4>3 DEF Keeps
    <3> QED
      BY <1>1, <3>1, <3>2, <3>3
  <2>8. Conditions'
    BY <1>1, <2>1, <2>3, <2>7 DEF Conditions, SameSpec, Keeps
  <2> QED
    BY <2>4, <2>6, <2>8 DEF ReadyInv
<1>4. QED
  BY <1>1, <1>2, <1>3

LEMMA ReadyCacheSync == TypeInv /\ ReadyInv /\ CacheSync => ReadyInv'
<1> SUFFICES ASSUME TypeInv, ReadyInv, CacheSync PROVE ReadyInv'
  OBVIOUS
<1>1. cache' = rel /\ cacheCurrent' = TRUE /\ UNCHANGED <<rel, flux, deployed, worker>>
  BY DEF CacheSync, source
<1>2. Resolving' /\ Applied'
  BY <1>1 DEF ReadyInv, Resolving, Applied, worker
<1>3. Copies' /\ Conditions'
  BY <1>1 DEF ReadyInv, Copies, Conditions, SameSpec, Current, worker
<1>4. QED
  BY <1>2, <1>3 DEF ReadyInv

\* Flux builds artifacts; it leaves the specs alone.
LEMMA ReadyFlux ==
  ASSUME TypeInv, ReadyInv, NEW q \in Refs, FluxBuildStarts(q) \/ FluxBuilds(q)
  PROVE  ReadyInv'
<1> DEFINE Held == [spec: {SpecOf[s] : s \in Specs} \cup {None},
                    built: Artifacts \cup {None}, ready: BOOLEAN]
<1>1. flux \in [Refs -> Held] /\ flux[q] \in Held
  BY DEF TypeInv, TypeOK
<1>2. \E new : flux' = [flux EXCEPT ![q] = new] /\ new.spec = flux[q].spec
  <2>1. CASE FluxBuildStarts(q)
    <3> DEFINE new == [flux[q] EXCEPT !.ready = FALSE]
    <3>1. new.spec = flux[q].spec
      BY <1>1
    <3>2. flux' = [flux EXCEPT ![q] = new]
      BY <2>1 DEF FluxBuildStarts
    <3> QED
      BY <3>1, <3>2
  <2>2. CASE FluxBuilds(q)
    <3> DEFINE new == [flux[q] EXCEPT !.built = ArtifactOf(q.kind, flux[q].spec), !.ready = TRUE]
    <3>1. new.spec = flux[q].spec
      BY <1>1
    <3>2. flux' = [flux EXCEPT ![q] = new]
      BY <2>2 DEF FluxBuilds
    <3> QED
      BY <3>1, <3>2
  <2> QED
    BY <2>1, <2>2
<1>3. \A p \in Refs : flux'[p].spec = flux[p].spec
  BY <1>1, <1>2
<1>4. UNCHANGED <<object, deployed, worker>>
  BY DEF FluxBuildStarts, FluxBuilds
<1>5. Applied'
  <2> SUFFICES ASSUME pc = "source", ~IsOCI(view.spec)
               PROVE  flux'[RefOf[view.spec]].spec = SpecOf[view.spec]
    BY <1>4 DEF Applied, worker
  <2>1. view \in Release
    BY DEF TypeInv, WorkerTyped
  <2>2. RefOf[view.spec] \in Refs
    BY <2>1 DEF Release, Refs
  <2>3. flux[RefOf[view.spec]].spec = SpecOf[view.spec]
    BY DEF ReadyInv, Applied
  <2> QED
    BY <1>3, <2>2, <2>3
<1>6. Resolving'
  BY <1>4 DEF ReadyInv, Resolving, worker
<1>7. Copies' /\ Conditions'
  BY <1>4 DEF ReadyInv, Copies, Conditions, SameSpec, Current, object, worker
<1>8. QED
  BY <1>5, <1>6, <1>7 DEF ReadyInv

\* The edit of a spec: no condition is current any more.
LEMMA ReadyEditSpec == TypeInv /\ ReadyInv /\ EditSpec => ReadyInv'
<1> SUFFICES ASSUME TypeInv, ReadyInv, EditSpec PROVE ReadyInv'
  OBVIOUS
<1>1. /\ cacheCurrent' = FALSE /\ viewCurrent' = FALSE
      /\ UNCHANGED <<cache, flux, deployed, pc, view, artifact, resolved, at>>
  BY DEF EditSpec, source
<1>2. rel'.gen = rel.gen + 1 /\ rel'.st = rel.st /\ rel.gen \in Nat /\ rel.st.obs \in Nat
  <2>1. rel \in Release
    BY DEF TypeInv, TypeOK
  <2>2. rel.gen \in Nat /\ rel.st.obs \in Nat
    BY <2>1 DEF Release, Status
  <2>3. PICK s \in Specs : rel' = [rel EXCEPT !.spec = s, !.gen = rel.gen + 1]
    BY DEF EditSpec
  <2> QED
    BY <2>1, <2>2, <2>3 DEF Release
<1>3. rel'.st.obs <= rel'.gen /\ ~Current'
  <2>1. rel.st.obs <= rel.gen
    BY DEF ReadyInv, Copies
  <2> QED
    BY <1>2, <2>1 DEF Current
<1>4. Resolving' /\ Applied'
  BY <1>1 DEF ReadyInv, Resolving, Applied
<1>5. Copies' /\ Conditions'
  BY <1>1, <1>3 DEF ReadyInv, Copies, Conditions
<1>6. QED
  BY <1>4, <1>5 DEF ReadyInv

LEMMA ReadyCrash == TypeInv /\ ReadyInv /\ Crash => ReadyInv'
<1> SUFFICES ASSUME TypeInv, ReadyInv, Crash PROVE ReadyInv'
  OBVIOUS
<1>1. cache' = rel /\ pc' = "idle" /\ viewCurrent' = FALSE /\ UNCHANGED <<rel, deployed>>
  BY DEF Crash
<1>2. Resolving' /\ Applied'
  BY <1>1 DEF Resolving, Applied
<1>3. Copies' /\ Conditions'
  BY <1>1 DEF ReadyInv, Copies, Conditions, Current
<1>4. QED
  BY <1>2, <1>3 DEF ReadyInv

\* Every step keeps the invariant.
LEMMA ReadyStep == TypeInv /\ ReadyInv /\ [Next]_vars => ReadyInv'
<1> SUFFICES ASSUME TypeInv, ReadyInv, [Next]_vars PROVE ReadyInv'
  OBVIOUS
<1>1. CASE SwitchConflict
  BY <1>1, ReadyIdle DEF SwitchConflict, Return
<1>2. CASE ResolveChartRefFails \/ FetchFails
  BY <1>2, ReadyFail DEF ResolveChartRefFails, FetchFails
<1>3. CASE WorkerStep
  BY <1>1, <1>2, <1>3, ReadySwitchSource, ReadyEnsureHelmChart, ReadyResolveChartRef,
     ReadySourceNotReady, ReadyFetchReference, ReadyFetchSkipped, ReadyPlan, ReadyWrite
     DEF WorkerStep
<1>4. CASE Flux
  BY <1>4, ReadyFlux DEF Flux
<1>5. CASE FluxEvent \/ TimerFire \/ UNCHANGED vars
  BY <1>5, ReadyFrame DEF FluxEvent, TimerFire, vars, source
<1>6. ASSUME NEW o \in Watched, MetadataEvent(o) PROVE ReadyInv'
  BY <1>6, ReadyFrame DEF MetadataEvent, source
<1>7. ASSUME NEW o \in Objects, TypedSync(o) \/ ChangeData(o) PROVE ReadyInv'
  BY <1>7, ReadyFrame DEF TypedSync, ChangeData, source
<1>8. CASE Environment
  BY <1>7, <1>8, ReadyEditSpec, ReadyCrash DEF Environment
<1>9. QED
  BY <1>3, <1>4, <1>5, <1>6, <1>7, <1>8, ReadyReconcile, ReadyCacheSync DEF Next

(***************************************************************************)
(* A Ready condition at the current generation means that the cluster was  *)
(* given every input the current spec requires, in the spec's order:       *)
(* whatever was edited, missing or unreadable meanwhile, and however often *)
(* the operator crashed (ReadyComplete; values.Resolve, reconcileInstall,  *)
(* handleSuccess).                                                         *)
(***************************************************************************)
THEOREM ReadyIsComplete == Spec => []ReadyComplete
<1>1. Init => TypeInv /\ ReadyInv
  BY TypeInit, ReadyInit
<1>2. TypeInv /\ ReadyInv /\ [Next]_vars => (TypeInv /\ ReadyInv)'
  BY TypeStep, ReadyStep
<1>3. ReadyInv => ReadyComplete
  BY DEF ReadyInv, Conditions, Complete, ReadyComplete
<1>4. Spec => [](TypeInv /\ ReadyInv)
  BY <1>1, <1>2, PTL DEF Spec
<1>5. QED
  BY <1>3, <1>4, PTL
=============================================================================
