-------------------------- MODULE MC_ArtifactReader --------------------------
(***************************************************************************)
(* ArtifactReader for TLC: the client fetches the raw report, or the model *)
(* that an error status may serve from a run directory.                    *)
(***************************************************************************)
EXTENDS ArtifactReader

MC_Files == {"model", "rawReport"}
=============================================================================
