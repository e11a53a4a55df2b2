-------------------------- MODULE MC_ProjectService --------------------------
(***************************************************************************)
(* ProjectService for TLC, with the two files a sync cannot do without.    *)
(***************************************************************************)
EXTENDS ProjectService

MC_Files == {"rawReport"}
=============================================================================
