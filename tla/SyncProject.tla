---------------------------- MODULE SyncProject ----------------------------
(***************************************************************************)
(* One project's sync pipeline: Orchestrator.SyncProject, the project's    *)
(* entry in the in-memory state store, and its directory tree on disk (one *)
(* run directory per sync, named by the second the sync started in, and    *)
(* the directory "latest" that a successful sync refreshes file by file).  *)
(*                                                                         *)
(* What a file holds is abstracted to the number of the sync attempt that  *)
(* wrote it; attempts are numbered from 1.                                 *)
(***************************************************************************)
EXTENDS Naturals

CONSTANTS
    MaxSyncs,         \* bound: number of sync attempts
    MaxSecond,        \* bound: number of wall-clock seconds (run directory names)
    Files,            \* the artifacts this instance follows
    Torn,             \* content of a file only part of which was written
    ToolsHonest,      \* a tool that exits 0 has written all its outputs
    DistinctSeconds   \* no sync starts in a second an earlier one has started in

(***************************************************************************)
(* The artifacts, named after the path fields of state.ProjectStatus.      *)
(***************************************************************************)
AllFiles == {"topology", "activity", "model", "snapshot",
             "rawReport", "rawSummary", "report", "summary"}

ASSUME BoundsAssumption == MaxSyncs \in Nat /\ MaxSecond \in Nat

ASSUME FilesAssumption ==
    /\ Files \subseteq AllFiles
    /\ "rawReport" \in Files
    /\ "summary" \in Files => "rawSummary" \in Files

ASSUME TornAssumption == Torn \notin Nat

ASSUME EnvironmentAssumption ==
    /\ ToolsHonest \in BOOLEAN
    /\ DistinctSeconds \in BOOLEAN

VARIABLES
    pc,         \* the stage SyncProject is in, "idle" when no sync runs
    attempt,    \* the number of the latest attempt
    started,    \* startedAt of the latest attempt, to the second
    expired,    \* has the sync's context expired?
    previous,   \* the status read from the store when the sync began
    report,     \* the report loaded in memory: the attempt that produced it
    todo,       \* the files refreshLatest still has to copy
    copying,    \* the file refreshLatest has truncated and is writing
    store,      \* the project's entry in the state store
    disk        \* disk[d][f]: what file f of directory d holds, 0 if absent

vars == <<pc, attempt, started, expired, previous, report, todo, copying, store, disk>>

-----------------------------------------------------------------------------
(***************************************************************************)
(* Statuses, paths and directories.                                        *)
(***************************************************************************)
Latest == 0
Seconds == 1..MaxSecond
Dirs == {Latest} \cup Seconds
Attempts == 1..MaxSyncs
Content == {0, Torn} \cup Attempts

Fields == Files \cup {"runDir"}
NoPath == [dir |-> Latest, file |-> "none"]
Paths == [dir : Dirs, file : AllFiles \cup {"none", "runDir"}]
NoPaths == [f \in Fields |-> NoPath]

Statuses == [state : {"none", "running", "ok", "error"},
             report : {0} \cup Attempts,
             paths : [Fields -> Paths]]
NoStatus == [state |-> "none", report |-> 0, paths |-> NoPaths]

(***************************************************************************)
(* The stages in the order SyncProject runs them.                          *)
(***************************************************************************)
Rank == [idle |-> 0, resolve |-> 1, capture |-> 2, mkdir |-> 3, build |-> 4,
         activity |-> 5, topology |-> 6, bering |-> 7, sheaft |-> 8, load |-> 9,
         effective |-> 10, summary |-> 11, refresh |-> 12]

\* The stages that wait for another process: the Coroot API and the tools.
\* They run under the sync's context; the others are local computation and files.
External == {"resolve", "capture", "bering", "sheaft"}

\* The stage that writes a file into the run directory.
WrittenBy == [activity |-> "activity", topology |-> "topology",
              model |-> "bering", snapshot |-> "bering",
              rawReport |-> "sheaft", rawSummary |-> "sheaft",
              report |-> "effective", summary |-> "summary"]

Writes(stage) == {f \in Files : WrittenBy[f] = stage}
Written(stage) == {f \in Files : Rank[WrittenBy[f]] < Rank[stage]}

-----------------------------------------------------------------------------
(***************************************************************************)
(* What a sync leaves behind when it fails.  "own" are the path fields the *)
(* error branch of the stage fills in; restorePrevious fills the empty     *)
(* ones, and the report, from the status that preceded the sync.           *)
(***************************************************************************)
\* Faulty: the tools' files are announced although a tool failed.
OwnFields_BeforeWritten(stage) ==
    CASE stage \in {"bering", "sheaft", "load", "refresh"} ->
            {"runDir", "topology", "model", "snapshot", "report", "summary"}
      [] OTHER -> {}

OwnFields(stage) ==
    CASE stage \in {"bering", "sheaft"} -> {"runDir", "topology"}
      [] stage \in {"load", "refresh"}  -> {"runDir", "topology", "model", "snapshot",
                                            "report", "summary"}
      [] OTHER -> {}

\* ReportPath and SummaryPath are set to the paths of the toolchain's result.
OwnFile == [f \in AllFiles \cup {"runDir"} |->
    CASE f = "report"  -> "rawReport"
      [] f = "summary" -> "rawSummary"
      [] OTHER -> f]

OwnPath(stage, f) ==
    IF f \in OwnFields(stage) THEN [dir |-> started, file |-> OwnFile[f]] ELSE NoPath

\* Faulty: only a status "ok" is restored, so a second failure loses the result.
RestorePrevious_OnlyOk(status) ==
    IF previous.state # "ok"
    THEN status
    ELSE [status EXCEPT
            !.report = previous.report,
            !.paths = [f \in Fields |->
                IF status.paths[f] = NoPath THEN previous.paths[f] ELSE status.paths[f]]]

\* Faulty: restores the directory "latest", not what the status before offered.
RestorePrevious_Latest(status) ==
    IF previous.report = 0
    THEN status
    ELSE [status EXCEPT
            !.report = previous.report,
            !.paths = [f \in Fields |->
                IF status.paths[f] = NoPath
                THEN [dir |-> Latest, file |-> f]
                ELSE status.paths[f]]]

RestorePrevious(status) ==
    IF previous.report = 0
    THEN status
    ELSE [status EXCEPT
            !.report = previous.report,
            !.paths = [f \in Fields |->
                IF status.paths[f] = NoPath THEN previous.paths[f] ELSE status.paths[f]]]

FailedStatus(stage) ==
    RestorePrevious([state |-> "error", report |-> 0,
                     paths |-> [f \in Fields |-> OwnPath(stage, f)]])

LatestPath(f) == [dir |-> Latest, file |-> f]
OkStatus == [state |-> "ok", report |-> report,
             paths |-> [f \in Fields |-> LatestPath(f)]]

-----------------------------------------------------------------------------
(***************************************************************************)
(* Files.  An output is whole (it belongs to the run whose data it was     *)
(* made from), or torn when its writer was stopped midway.                 *)
(***************************************************************************)
Output(f) ==
    CASE f = "report"  -> report
      [] f = "summary" -> disk[started]["rawSummary"]
      [] OTHER -> attempt

InputReady(stage) ==
    CASE stage \in {"load", "effective"} -> disk[started]["rawReport"] \in Attempts
      [] stage = "summary" /\ "rawSummary" \in Files -> disk[started]["rawSummary"] # 0
      [] OTHER -> TRUE

WriteRun(torn, whole) ==
    disk' = [disk EXCEPT ![started] = [f \in Files |->
                IF f \in torn THEN Torn
                ELSE IF f \in whole THEN Output(f)
                ELSE disk[started][f]]]

\* The stage succeeds: its files are written.  A tool that is not honest may
\* exit 0 and leave some of its outputs as they were.
WriteOutputs(stage) ==
    \E kept \in SUBSET Writes(stage) :
        /\ stage \notin {"bering", "sheaft"} \/ ToolsHonest => kept = {}
        /\ WriteRun({}, Writes(stage) \ kept)

\* The stage is given up: each of its files is untouched, torn or whole.
WriteLeftovers(stage) ==
    \E torn \in SUBSET Writes(stage) : \E whole \in SUBSET (Writes(stage) \ torn) :
        /\ torn \cup whole # {} => InputReady(stage)
        /\ WriteRun(torn, whole)

-----------------------------------------------------------------------------
Init ==
    /\ pc = "idle"
    /\ attempt = 0
    /\ started = Latest
    /\ expired = FALSE
    /\ previous = NoStatus
    /\ report = 0
    /\ todo = {}
    /\ copying = "none"
    /\ store = NoStatus
    /\ disk = [d \in Dirs |-> [f \in Files |-> 0]]

\* Read the previous status, then publish a bare "running" status.  startedAt
\* names the run directory, so two syncs of the same second share one.
Begin ==
    /\ pc = "idle"
    /\ attempt < MaxSyncs
    /\ attempt' = attempt + 1
    /\ \E second \in Seconds :
        /\ DistinctSeconds => second > started
        /\ started' = second
    /\ previous' = store
    /\ store' = [state |-> "running", report |-> 0, paths |-> NoPaths]
    /\ pc' = "resolve"
    /\ UNCHANGED <<expired, report, todo, copying, disk>>

\* Faulty: the deadline covers the API calls and not the tools.
Expire_ApiOnly ==
    /\ pc \in {"resolve", "capture"}
    /\ ~expired
    /\ expired' = TRUE
    /\ UNCHANGED <<pc, attempt, started, previous, report, todo, copying, store, disk>>

\* The context.WithTimeout of the sync runs out.
Expire ==
    /\ pc # "idle"
    /\ ~expired
    /\ expired' = TRUE
    /\ UNCHANGED <<pc, attempt, started, previous, report, todo, copying, store, disk>>

Proceed(from, to) ==
    /\ pc = from
    /\ from \in External => ~expired
    /\ pc' = to
    /\ UNCHANGED <<attempt, started, expired, previous, copying, store>>

Resolve    == Proceed("resolve", "capture") /\ UNCHANGED <<report, todo, disk>>
Capture    == Proceed("capture", "mkdir") /\ UNCHANGED <<report, todo, disk>>
MakeRunDir == Proceed("mkdir", "build") /\ UNCHANGED <<report, todo, disk>>
Build      == Proceed("build", "activity") /\ UNCHANGED <<report, todo, disk>>

Produce(from, to) ==
    /\ Proceed(from, to)
    /\ InputReady(from)
    /\ WriteOutputs(from)
    /\ UNCHANGED report

WriteActivity == Produce("activity", "topology") /\ UNCHANGED todo
WriteTopology == Produce("topology", "bering") /\ UNCHANGED todo
RunBering     == Produce("bering", "sheaft") /\ UNCHANGED todo
RunSheaft     == Produce("sheaft", "load") /\ UNCHANGED todo

\* reporting.Load and ApplyRuntimeImpact: the effective report, in memory.
Load ==
    /\ Proceed("load", "effective")
    /\ InputReady("load")
    /\ report' = disk[started]["rawReport"]
    /\ UNCHANGED <<todo, disk>>

SaveEffective == Produce("effective", "summary") /\ UNCHANGED todo
WriteSummary  == Produce("summary", "refresh") /\ todo' = Files

-----------------------------------------------------------------------------
(***************************************************************************)
(* refreshLatest: the files are copied one by one, in the order a Go map   *)
(* is ranged over.  copyFile reads the source, then os.WriteFile truncates *)
(* the destination and writes it: a reader or a crash may come in between. *)
(***************************************************************************)
\* Faulty: a source that does not exist is copied as an empty file.
CopyOpen_Missing(f) ==
    /\ pc = "refresh"
    /\ copying = "none"
    /\ f \in todo
    /\ copying' = f
    /\ disk' = [disk EXCEPT ![Latest][f] = Torn]
    /\ UNCHANGED <<pc, attempt, started, expired, previous, report, todo, store>>

CopyOpen(f) ==
    /\ pc = "refresh"
    /\ copying = "none"
    /\ f \in todo
    /\ disk[started][f] # 0
    /\ copying' = f
    /\ disk' = [disk EXCEPT ![Latest][f] = Torn]
    /\ UNCHANGED <<pc, attempt, started, expired, previous, report, todo, store>>

\* Faulty: the file is not closed.
CopyWrite_KeepsOpen ==
    /\ pc = "refresh"
    /\ copying # "none"
    /\ disk' = [disk EXCEPT ![Latest][copying] = disk[started][copying]]
    /\ todo' = todo \ {copying}
    /\ UNCHANGED <<pc, attempt, started, expired, previous, report, copying, store>>

CopyWrite ==
    /\ pc = "refresh"
    /\ copying # "none"
    /\ disk' = [disk EXCEPT ![Latest][copying] = disk[started][copying]]
    /\ todo' = todo \ {copying}
    /\ copying' = "none"
    /\ UNCHANGED <<pc, attempt, started, expired, previous, report, store>>

-----------------------------------------------------------------------------
\* SyncProject returns: its local variables and its context are gone.
Return ==
    /\ pc' = "idle"
    /\ expired' = FALSE
    /\ previous' = NoStatus
    /\ report' = 0
    /\ todo' = {}
    /\ copying' = "none"
    /\ UNCHANGED <<attempt, started>>

\* Faulty: the status is published while "latest" is still being refreshed.
Publish_Early ==
    /\ pc = "refresh"
    /\ store' = OkStatus
    /\ UNCHANGED disk
    /\ Return

Publish ==
    /\ pc = "refresh"
    /\ todo = {}
    /\ store' = OkStatus
    /\ UNCHANGED disk
    /\ Return

\* The error branch of the stage the sync is in.
Fail ==
    /\ pc # "idle"
    /\ pc = "refresh" /\ Files = AllFiles => todo # {}
    /\ WriteLeftovers(pc)
    /\ store' = FailedStatus(pc)
    /\ Return

\* The process stops, at any point, and is started again: the store is in
\* memory and is lost, the files stay as they are.
Restart ==
    /\ WriteLeftovers(pc)
    /\ store' = NoStatus
    /\ Return

Advance ==
    \/ Resolve \/ Capture \/ MakeRunDir \/ Build
    \/ WriteActivity \/ WriteTopology \/ RunBering \/ RunSheaft
    \/ Load \/ SaveEffective \/ WriteSummary
    \/ \E f \in Files : CopyOpen(f)
    \/ CopyWrite
    \/ Publish

SyncStep == Begin \/ Expire \/ Advance \/ Fail

Next == SyncStep \/ Restart

(***************************************************************************)
(* Local computation goes on until it succeeds or fails.  The Coroot API   *)
(* and the tools need not answer; what bounds them is the deadline: when   *)
(* the context has expired, the call they run under returns an error.      *)
(* ProjectService states the fairness of this step and of Expire.          *)
(***************************************************************************)
Settle ==
    /\ pc \in External => expired
    /\ Advance \/ Fail

Spec == Init /\ [][Next]_vars

-----------------------------------------------------------------------------
(***************************************************************************)
(* Properties.                                                             *)
(***************************************************************************)

\* Type invariant: what each variable of a sync, the store and the disk holds.
TypeOK ==
    /\ pc \in DOMAIN Rank
    /\ attempt \in 0..MaxSyncs
    /\ started \in Dirs
    /\ pc # "idle" => started \in Seconds /\ attempt \in Attempts
    /\ expired \in BOOLEAN
    /\ previous \in Statuses
    /\ report \in {0} \cup Attempts
    /\ todo \subseteq Files
    /\ copying \in todo \cup {"none"}
    /\ store \in Statuses
    /\ disk \in [Dirs -> [Files -> Content]]

Contents(path) == disk[path.dir][path.file]

\* A status "ok" is about one run: the report in memory (the metrics) and every
\* artifact the status points to (the HTTP API) come from the same sync, whole,
\* whatever failed syncs and crashes left behind in the directories it used.
OkServesOneRun ==
    store.state = "ok" =>
        \A f \in Files : Contents(store.paths[f]) = store.report

\* The strengthening that makes OkServesOneRun inductive: what the run directory,
\* the report in memory and the directory "latest" hold as the sync goes through
\* its stages.  (A file the sync has not written is not there, or is of any run.)
RunDirIsOneRun ==
    pc # "idle" =>
        /\ \A f \in Written(pc) : disk[started][f] \in {0, attempt}
        /\ DistinctSeconds => \A f \in Files \ Written(pc) : disk[started][f] = 0
        /\ pc \in {"effective", "summary", "refresh"} => report = attempt

FutureIsEmpty ==
    DistinctSeconds =>
        \A d \in Seconds : d > started => \A f \in Files : disk[d][f] = 0

RefreshedIsOneRun ==
    /\ pc = "refresh" => \A f \in Files \ todo : disk[Latest][f] = attempt
    /\ copying # "none" => pc = "refresh" /\ disk[started][copying] = attempt

StoreFollowsSync ==
    /\ pc # "idle" <=> store.state = "running"
    /\ store.state = "ok" => store.paths = [f \in Fields |-> LatestPath(f)]

IInv ==
    /\ TypeOK
    /\ RunDirIsOneRun
    /\ FutureIsEmpty
    /\ RefreshedIsOneRun
    /\ StoreFollowsSync
    /\ OkServesOneRun

\* Every path a status offers, also after a failure that mixes its own paths
\* with those of the status before it, names a file that was written: the HTTP
\* API answers 404 for an artifact it lacks, never 500 for one it announced.
OfferedPathsExist ==
    \A f \in Files : store.paths[f] # NoPath => Contents(store.paths[f]) # 0

\* While a sync runs, the last result is in the local variable "previous".
LastResult == IF pc = "idle" THEN store.report ELSE previous.report

Register == INSTANCE GateRegister WITH
    Attempts <- MaxSyncs,
    status <- store.state,
    result <- LastResult

\* The stored gate result is a register: a sync that succeeds stores its own
\* result, one that fails at any stage keeps the last one, only a restart drops it.
ImplementsRegister == Register!Spec

\* docs/architecture.md: "It exports latest results as Prometheus metrics".
\* Once a sync has succeeded, metrics have a report to export until a restart.
LatestResultExported == LastResult # 0 => store.report # 0

\* README: "/api/v1/projects/{project}/report: effective runtime-adjusted
\* report".  Whatever is served as the report is an effective report.
ReportPathIsEffective == store.paths["report"].file \in {"none", "report"}
=============================================================================
