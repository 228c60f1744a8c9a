---------------------------- MODULE MCProvision ----------------------------
(***************************************************************************)
(* Captures of two readers, one without a configuration, one with two      *)
(* matrices.                                                               *)
(***************************************************************************)
EXTENDS ProvisionProperties, TLC

MCCaptures == {"first", "second", "matrixOnly", "ambiguous"}
MCVersions == 1 .. 2
MCConfigs == "first" :> {1} @@ "second" :> {2} @@ "matrixOnly" :> {} @@ "ambiguous" :> {1}
MCMatrices == "first" :> {1} @@ "second" :> {2} @@ "matrixOnly" :> {1} @@ "ambiguous" :> {1, 2}
=============================================================================
