--------------------------- MODULE ArtifactReader ---------------------------
(***************************************************************************)
(* A client of the HTTP API that fetches one artifact of the project again *)
(* and again (Server.serveFile), next to the sync pipeline that rewrites   *)
(* it.  A handler looks the path up in the state store and reads the file  *)
(* afterwards, without a lock: anything may happen in between.             *)
(***************************************************************************)
EXTENDS SyncProject

VARIABLES
    watched,    \* the artifact the client fetches
    path,       \* the path the handler has looked up, NoPath between requests
    seen        \* the run whose artifact the client was last served whole

readerVars == <<watched, path, seen>>
allVars == <<vars, readerVars>>

ReaderInit ==
    /\ Init
    /\ watched \in Files
    /\ path = NoPath
    /\ seen = 0

\* The status is read and the artifact's path picked.  (Without a status or a
\* path the handler answers 404, which changes nothing.)
PickPath ==
    /\ path = NoPath
    /\ store.paths[watched] # NoPath
    /\ path' = store.paths[watched]
    /\ UNCHANGED <<vars, watched, seen>>

\* The file is read and served.  A torn file is served too, an absent one
\* answers 500; the client learns of a run from a whole one.
ReadFile ==
    /\ path # NoPath
    /\ path' = NoPath
    /\ seen' = IF Contents(path) \in Attempts THEN Contents(path) ELSE seen
    /\ UNCHANGED <<vars, watched>>

\* A restart also ends the request under way.
RestartServer ==
    /\ Restart
    /\ path' = NoPath
    /\ UNCHANGED <<watched, seen>>

ReaderNext ==
    \/ SyncStep /\ UNCHANGED readerVars
    \/ RestartServer
    \/ PickPath
    \/ ReadFile

ReaderSpec == ReaderInit /\ [][ReaderNext]_allVars

-----------------------------------------------------------------------------
\* Type invariant of the client and the handler that serves it.
ReaderTypeOK ==
    /\ TypeOK
    /\ watched \in Files
    /\ path \in Paths
    /\ seen \in {0} \cup Attempts

\* A client that has seen an artifact of one run is never again served that
\* artifact of an older run, across syncs that fail at any stage with "latest"
\* half refreshed, the paths such a sync leaves in the status, and restarts.
\* (When run directories are not shared: DistinctSeconds.)
MonotonicReads == [][seen' >= seen]_seen
=============================================================================
