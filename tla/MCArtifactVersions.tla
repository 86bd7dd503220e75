------------------------- MODULE MCArtifactVersions -------------------------
(***************************************************************************)
(* Two callers, three saves and a delete, in each of the services.         *)
(***************************************************************************)
EXTENDS ArtifactVersions, TLC

CONSTANTS t1, t2, s1, s2, s3

Callers == Permutations({t1, t2}) \cup Permutations({s1, s2, s3})
=============================================================================
