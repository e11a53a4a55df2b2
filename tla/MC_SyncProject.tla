--------------------------- MODULE MC_SyncProject ---------------------------
(***************************************************************************)
(* SyncProject for TLC.  The followed files keep one of each kind: one     *)
(* written locally, one of each tool, and the effective report.            *)
(***************************************************************************)
EXTENDS SyncProject

MC_Files == {"activity", "model", "rawReport", "report"}
\* The fewest: the raw report Load reads and the report made from it.
MC_FewFiles == {"rawReport", "report"}
=============================================================================
