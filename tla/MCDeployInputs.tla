---------------------------- MODULE MCDeployInputs ----------------------------
(***************************************************************************)
(* Small instances of DeployInputs for TLC: Release specs over the kinds   *)
(* of chart source and of reference.                                       *)
(***************************************************************************)
EXTENDS DeployInputs

CONSTANTS o1, o2     \* the two objects

Needs(use, o)  == [use |-> use, object |-> o, optional |-> FALSE]
Allows(use, o) == [use |-> use, object |-> o, optional |-> TRUE]

Chart(kind, ref, path, version, files) ==
  [kind |-> kind, url |-> kind, ref |-> ref, path |-> path, version |-> version,
   verify |-> None, valuesFiles |-> files, interval |-> 0]

Written(chart, values, refs) ==
  [interval |-> 60, chart |-> chart, values |-> values, refs |-> refs]

Git == Chart("GitRepository", "main", "charts/app", None, <<"prod.yaml">>)

Oci == Chart("OCIRepository", "latest", None, None, << >>)

Repo(version) == Chart("HelmRepository", None, "app", version, << >>)

(***************************************************************************)
(* A chart read through a HelmChart and one read from its source.          *)
(***************************************************************************)
GitAndOci ==
  {Written(Git, None, <<Needs("values", o1), Allows("secretValues", o2)>>),
   Written(Oci, "inline", <<Allows("values", o2), Needs("secretKey", o1),
                            Needs("keyring", o1)>>)}

TwoVersions == {Written(Repo(v), None, << >>) : v \in {"1.0.0", "2.0.0"}}

(***************************************************************************)
(* Specs that differ in spec.interval alone, and with it in the hashed     *)
(* name of their source.                                                   *)
(***************************************************************************)
TwoIntervals ==
  {[Written(Git, None, <<Needs("values", o1)>>) EXCEPT !.interval = i] : i \in {60, 120}}
=============================================================================
