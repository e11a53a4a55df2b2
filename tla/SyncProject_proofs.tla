------------------------- MODULE SyncProject_proofs -------------------------
(***************************************************************************)
(* Proofs about SyncProject, for any number of syncs, seconds and followed *)
(* files: type correctness, that a status "ok" is about one run, that the  *)
(* stored gate result is a register, and that the paths a status offers    *)
(* name files that are there; and about ArtifactReader: that a client      *)
(* never goes back to an older run.  Each states what it assumes of the    *)
(* environment: that the tools write what they promise (ToolsHonest), that *)
(* no run directory is used twice (DistinctSeconds), or one of the two     *)
(* (Reliable).                                                             *)
(***************************************************************************)
EXTENDS ArtifactReader, TLAPS

Reliable == ToolsHonest \/ DistinctSeconds

-----------------------------------------------------------------------------
(***************************************************************************)
(* Facts about stages, files and statuses.                                 *)
(***************************************************************************)

\* The order of the stages, as numbers.
LEMMA Ranks ==
    /\ Rank["resolve"] = 1 /\ Rank["capture"] = 2 /\ Rank["mkdir"] = 3
    /\ Rank["build"] = 4 /\ Rank["activity"] = 5 /\ Rank["topology"] = 6
    /\ Rank["bering"] = 7 /\ Rank["sheaft"] = 8 /\ Rank["load"] = 9
    /\ Rank["effective"] = 10 /\ Rank["summary"] = 11 /\ Rank["refresh"] = 12
    /\ Rank["idle"] = 0
  BY DEF Rank

\* Which stage writes each file.
LEMMA Writers ==
    /\ WrittenBy["activity"] = "activity" /\ WrittenBy["topology"] = "topology"
    /\ WrittenBy["model"] = "bering" /\ WrittenBy["snapshot"] = "bering"
    /\ WrittenBy["rawReport"] = "sheaft" /\ WrittenBy["rawSummary"] = "sheaft"
    /\ WrittenBy["report"] = "effective" /\ WrittenBy["summary"] = "summary"
  BY DEF WrittenBy

LEMMA EachFile ==
    ASSUME NEW f \in Files
    PROVE  f \in {"topology", "activity", "model", "snapshot",
                  "rawReport", "rawSummary", "report", "summary"}
  BY FilesAssumption DEF AllFiles

\* Which of the followed files are written when a stage is entered.
LEMMA WrittenStages ==
    /\ Written("resolve") = {}
    /\ Written("capture") = {}
    /\ Written("mkdir") = {}
    /\ Written("build") = {}
    /\ Written("activity") = {}
    /\ Written("topology") = Written("activity") \cup Writes("activity")
    /\ Written("bering") = Written("topology") \cup Writes("topology")
    /\ Written("sheaft") = Written("bering") \cup Writes("bering")
    /\ Written("load") = Written("sheaft") \cup Writes("sheaft")
    /\ Written("effective") = Written("load")
    /\ Written("summary") = Written("effective") \cup Writes("effective")
    /\ Written("refresh") = Written("summary") \cup Writes("summary")
  <1>1. \A f \in Files : Rank[WrittenBy[f]] \in {5, 6, 7, 8, 10, 11}
    BY EachFile, Ranks, Writers
  <1>2. \A f \in Files :
          /\ Rank[WrittenBy[f]] = 5 <=> WrittenBy[f] = "activity"
          /\ Rank[WrittenBy[f]] = 6 <=> WrittenBy[f] = "topology"
          /\ Rank[WrittenBy[f]] = 7 <=> WrittenBy[f] = "bering"
          /\ Rank[WrittenBy[f]] = 8 <=> WrittenBy[f] = "sheaft"
          /\ Rank[WrittenBy[f]] = 10 <=> WrittenBy[f] = "effective"
          /\ Rank[WrittenBy[f]] = 11 <=> WrittenBy[f] = "summary"
    BY EachFile, Ranks, Writers
  <1> QED
    BY <1>1, <1>2, Ranks DEF Written, Writes

\* The raw files are written before the stages that read them, and every
\* followed file is written when the refresh begins.
LEMMA WrittenInputs ==
    /\ "rawReport" \in Written("load")
    /\ Written("refresh") = Files
    /\ "summary" \in Writes("summary") => "rawSummary" \in Written("summary")
    /\ \A f \in Writes("effective") : f = "report"
    /\ \A f \in Writes("summary") : f = "summary"
    /\ \A stage \in {"activity", "topology", "bering", "sheaft"} :
          \A f \in Writes(stage) : f # "report" /\ f # "summary"
  <1>1. "rawReport" \in Written("load")
    BY FilesAssumption, Ranks, Writers DEF Written
  <1>2. Written("refresh") = Files
    BY EachFile, Ranks, Writers DEF Written
  <1>3. "summary" \in Writes("summary") => "rawSummary" \in Written("summary")
    BY FilesAssumption, Ranks, Writers DEF Written, Writes
  <1>4. \A f \in Writes("effective") : f = "report"
    BY EachFile, Writers DEF Writes
  <1>5. \A f \in Writes("summary") : f = "summary"
    BY EachFile, Writers DEF Writes
  <1>6. \A stage \in {"activity", "topology", "bering", "sheaft"} :
           \A f \in Writes(stage) : f # "report" /\ f # "summary"
    BY Writers DEF Writes
  <1> QED
    BY <1>1, <1>2, <1>3, <1>4, <1>5, <1>6

\* Names in the stage table.
LEMMA StageNames ==
    DOMAIN Rank = {"idle", "resolve", "capture", "mkdir", "build", "activity",
                   "topology", "bering", "sheaft", "load", "effective", "summary",
                   "refresh"}
  BY DEF Rank

LEMMA WritesAreFiles == \A stage : Writes(stage) \subseteq Files
  BY DEF Writes

LEMMA IdleWritesNothing == Writes("idle") = {}
  BY EachFile, Writers DEF Writes

-----------------------------------------------------------------------------
(***************************************************************************)
(* Type correctness.                                                       *)
(***************************************************************************)

LEMMA NoStatusType == NoStatus \in Statuses /\ NoPath \in Paths
  BY DEF NoStatus, Statuses, NoPaths, NoPath, Paths, Dirs, Latest

\* Writing some files of the run directory changes nothing else on disk.
LEMMA WriteRunShape ==
    ASSUME TypeOK, NEW torn \in SUBSET Files, NEW whole \in SUBSET Files,
           WriteRun(torn, whole)
    PROVE  /\ DOMAIN disk' = Dirs
           /\ \A d \in Dirs : d # started => disk'[d] = disk[d]
           /\ disk'[started] = [f \in Files |->
                                  IF f \in torn THEN Torn
                                  ELSE IF f \in whole THEN Output(f)
                                  ELSE disk[started][f]]
  BY DEF TypeOK, WriteRun

\* What a stage writes is a content.
LEMMA OutputType ==
    ASSUME TypeOK, NEW f \in Writes(pc)
    PROVE  Output(f) \in Content
  <1>1. pc # "idle" /\ attempt \in Attempts
    BY IdleWritesNothing DEF TypeOK
  <1>2. f = "summary" => "rawSummary" \in Files
    BY FilesAssumption DEF Writes
  <1>3. started \in Dirs
    BY DEF TypeOK
  <1>4. f = "summary" => disk[started]["rawSummary"] \in Content
    BY <1>2, <1>3 DEF TypeOK
  <1> QED
    BY <1>1, <1>4 DEF Output, Content, TypeOK

LEMMA WriteRunType ==
    ASSUME TypeOK, NEW torn \in SUBSET Writes(pc), NEW whole \in SUBSET Writes(pc),
           WriteRun(torn, whole)
    PROVE  disk' \in [Dirs -> [Files -> Content]]
  <1>1. torn \in SUBSET Files /\ whole \in SUBSET Files
    BY WritesAreFiles
  <1>2. \A f \in whole : Output(f) \in Content
    BY OutputType
  <1>3. Torn \in Content /\ started \in Dirs
    BY DEF Content, TypeOK
  <1>4. disk'[started] \in [Files -> Content]
    <2>1. disk'[started] = [f \in Files |->
                              IF f \in torn THEN Torn
                              ELSE IF f \in whole THEN Output(f)
                              ELSE disk[started][f]]
      BY <1>1, WriteRunShape
    <2>2. \A f \in Files : disk[started][f] \in Content
      BY <1>3 DEF TypeOK
    <2> QED
      BY <2>1, <2>2, <1>2, <1>3
  <1>5. \A d \in Dirs : disk'[d] \in [Files -> Content]
    BY <1>1, <1>4, WriteRunShape DEF TypeOK
  <1>6. disk' = [d \in Dirs |-> disk'[d]]
    BY DEF WriteRun, TypeOK
  <1> QED
    BY <1>5, <1>6

LEMMA OutputsType ==
    ASSUME TypeOK, WriteOutputs(pc)
    PROVE  disk' \in [Dirs -> [Files -> Content]]
  BY WriteRunType DEF WriteOutputs

LEMMA LeftoversType ==
    ASSUME TypeOK, WriteLeftovers(pc)
    PROVE  disk' \in [Dirs -> [Files -> Content]]
  BY WriteRunType DEF WriteLeftovers

\* A sync that fails stores a well-formed status with the previous report.
LEMMA FailedStatusType ==
    ASSUME TypeOK, pc # "idle"
    PROVE  /\ FailedStatus(pc) \in Statuses
           /\ FailedStatus(pc).report = previous.report
           /\ FailedStatus(pc).state = "error"
  <1> DEFINE own == [f \in Fields |-> OwnPath(pc, f)]
             status == [state |-> "error", report |-> 0, paths |-> own]
  <1>1. \A f \in Fields : f \in AllFiles \cup {"runDir"}
    BY FilesAssumption DEF Fields
  <1>2. \A f \in AllFiles \cup {"runDir"} : OwnFile[f] \in AllFiles \cup {"runDir"}
    BY DEF OwnFile, AllFiles
  <1>3. started \in Dirs
    BY DEF TypeOK
  <1>4. own \in [Fields -> Paths]
    BY <1>1, <1>2, <1>3, NoStatusType DEF OwnPath, Paths
  <1>5. status \in Statuses
    BY <1>4 DEF Statuses
  <1>6. previous.paths \in [Fields -> Paths] /\ previous.report \in {0} \cup Attempts
    BY DEF TypeOK, Statuses
  <1>7. CASE previous.report = 0
    BY <1>5, <1>7 DEF FailedStatus, RestorePrevious
  <1>8. CASE previous.report # 0
    <2> DEFINE merged == [f \in Fields |-> IF status.paths[f] = NoPath
                                           THEN previous.paths[f] ELSE status.paths[f]]
    <2>1. merged \in [Fields -> Paths]
      BY <1>4, <1>6
    <2>2. FailedStatus(pc) = [state |-> "error", report |-> previous.report,
                              paths |-> merged]
      BY <1>8 DEF FailedStatus, RestorePrevious
    <2> QED
      BY <2>1, <2>2, <1>6 DEF Statuses
  <1> QED
    BY <1>7, <1>8

LEMMA TypeInit == Init => TypeOK
  <1> SUFFICES ASSUME Init PROVE TypeOK
    OBVIOUS
  <1>1. store \in Statuses /\ previous \in Statuses
    BY NoStatusType DEF Init
  <1>2. disk \in [Dirs -> [Files -> Content]]
    BY DEF Init, Content
  <1>3. pc \in DOMAIN Rank /\ attempt \in 0..MaxSyncs /\ started \in Dirs
    BY StageNames, BoundsAssumption DEF Init, Dirs
  <1> QED
    BY <1>1, <1>2, <1>3 DEF Init, TypeOK

\* The stages a sync goes through, as far as its types are concerned.
LEMMA TypeAdvance ==
    ASSUME TypeOK, Advance
    PROVE  TypeOK'
  <1> USE DEF TypeOK
  <1>1. ASSUME Resolve \/ Capture \/ MakeRunDir \/ Build PROVE TypeOK'
    BY <1>1, StageNames DEF Resolve, Capture, MakeRunDir, Build, Proceed
  <1>2. ASSUME NEW from, NEW to \in DOMAIN Rank \ {"idle"},
               from # "idle", Produce(from, to), todo' = todo \/ todo' = Files
        PROVE  TypeOK'
    <2>1. pc = from /\ disk' \in [Dirs -> [Files -> Content]]
      BY <1>2, OutputsType DEF Produce, Proceed
    <2> QED
      BY <1>2, <2>1 DEF Produce, Proceed
  <1>3. CASE Load
    <2>1. disk[started]["rawReport"] \in Attempts
      BY <1>3 DEF Load, InputReady
    <2> QED
      BY <1>3, <2>1, StageNames DEF Load, Proceed
  <1>4. ASSUME NEW f \in Files, CopyOpen(f) PROVE TypeOK'
    BY <1>4 DEF CopyOpen, Content, Dirs
  <1>5. CASE CopyWrite
    <2>1. copying \in Files /\ started \in Dirs
      BY <1>5 DEF CopyWrite
    <2> QED
      BY <1>5, <2>1 DEF CopyWrite, Dirs
  <1>6. CASE Publish
    <2>1. OkStatus \in Statuses
      BY FilesAssumption DEF OkStatus, LatestPath, Statuses, Paths, Fields, Dirs
    <2> QED
      BY <1>6, <2>1, NoStatusType, StageNames DEF Publish, Return
  <1>7. ASSUME WriteActivity \/ WriteTopology \/ RunBering \/ RunSheaft \/ SaveEffective
        PROVE  TypeOK'
    <2>1. \E from, to \in DOMAIN Rank \ {"idle"} : Produce(from, to) /\ todo' = todo
      BY <1>7, StageNames
         DEF WriteActivity, WriteTopology, RunBering, RunSheaft, SaveEffective
    <2> QED
      BY <2>1, <1>2
  <1>8. CASE WriteSummary
    BY <1>8, <1>2, StageNames DEF WriteSummary
  <1> QED
    BY <1>1, <1>3, <1>4, <1>5, <1>6, <1>7, <1>8 DEF Advance

LEMMA TypeStep == TypeOK /\ [Next]_vars => TypeOK'
  <1> SUFFICES ASSUME TypeOK, [Next]_vars PROVE TypeOK'
    OBVIOUS
  <1>1. CASE Begin
    <2>1. [state |-> "running", report |-> 0, paths |-> NoPaths] \in Statuses
      BY NoStatusType DEF Statuses, NoPaths
    <2>2. started' \in Seconds /\ attempt' \in Attempts
      BY <1>1, BoundsAssumption DEF Begin, TypeOK, Attempts
    <2> QED
      BY <1>1, <2>1, <2>2, StageNames, BoundsAssumption DEF Begin, TypeOK, Dirs, Attempts
  <1>2. CASE Expire
    BY <1>2 DEF Expire, TypeOK
  <1>3. CASE Advance
    BY <1>3, TypeAdvance
  <1>4. CASE Fail
    <2>1. disk' \in [Dirs -> [Files -> Content]] /\ store' \in Statuses
      BY <1>4, LeftoversType, FailedStatusType DEF Fail
    <2> QED
      BY <1>4, <2>1, NoStatusType, StageNames DEF Fail, Return, TypeOK
  <1>5. CASE Restart
    <2>1. disk' \in [Dirs -> [Files -> Content]] /\ store' \in Statuses
      BY <1>5, LeftoversType, NoStatusType DEF Restart
    <2> QED
      BY <1>5, <2>1, NoStatusType, StageNames DEF Restart, Return, TypeOK
  <1>6. CASE UNCHANGED vars
    BY <1>6 DEF vars, TypeOK
  <1> QED
    BY <1>1, <1>2, <1>3, <1>4, <1>5, <1>6 DEF Next, SyncStep

\* The store only ever holds well-formed statuses, the disk well-formed files,
\* and the program counter one of SyncProject's stages.
THEOREM TypeCorrect == Spec => []TypeOK
  BY TypeInit, TypeStep, PTL DEF Spec

-----------------------------------------------------------------------------
(***************************************************************************)
(* A status "ok" is about one run.                                         *)
(***************************************************************************)

LEMMA SecondsAreNotLatest == Latest \notin Seconds
  BY BoundsAssumption DEF Latest, Seconds

\* What a stage writes, it makes of this run's data.
LEMMA OutputOfRun ==
    ASSUME TypeOK, RunDirIsOneRun, pc # "idle", NEW f \in Writes(pc)
    PROVE  Output(f) \in {0, attempt}
  <1>1. CASE f = "report"
    <2>1. pc = "effective"
      BY <1>1, Writers DEF Writes
    <2> QED
      BY <1>1, <2>1 DEF RunDirIsOneRun, Output
  <1>2. CASE f = "summary"
    <2>1. pc = "summary"
      BY <1>2, Writers DEF Writes
    <2>2. disk[started]["rawSummary"] \in {0, attempt}
      BY <1>2, <2>1, WrittenInputs DEF RunDirIsOneRun
    <2> QED
      BY <1>2, <2>2 DEF Output
  <1>3. CASE f # "report" /\ f # "summary"
    BY <1>3 DEF Output
  <1> QED
    BY <1>1, <1>2, <1>3

\* After a stage has succeeded, its files too are absent or of this run: a tool
\* that exits 0 without writing finds nothing older in a fresh directory.
LEMMA OutputsOfRun ==
    ASSUME Reliable, TypeOK, RunDirIsOneRun, pc # "idle", WriteOutputs(pc)
    PROVE  /\ \A f \in Written(pc) \cup Writes(pc) : disk'[started][f] \in {0, attempt}
           /\ DistinctSeconds =>
                \A f \in Files \ (Written(pc) \cup Writes(pc)) : disk'[started][f] = 0
           /\ disk'[Latest] = disk[Latest]
  <1>1. PICK kept \in SUBSET Writes(pc) :
          /\ pc \notin {"bering", "sheaft"} \/ ToolsHonest => kept = {}
          /\ WriteRun({}, Writes(pc) \ kept)
    BY Zenon DEF WriteOutputs
  <1> DEFINE whole == Writes(pc) \ kept
  <1>2. {} \in SUBSET Files /\ whole \in SUBSET Files /\ Written(pc) \subseteq Files
    BY WritesAreFiles DEF Written
  <1>3. \A f \in Files :
          disk'[started][f] = IF f \in whole THEN Output(f) ELSE disk[started][f]
    <2>1. disk'[started] = [f \in Files |->
                              IF f \in {} THEN Torn
                              ELSE IF f \in whole THEN Output(f)
                              ELSE disk[started][f]]
      BY <1>1, <1>2, WriteRunShape
    <2> HIDE DEF whole
    <2> QED
      BY <2>1
  <1>4. disk'[Latest] = disk[Latest]
    BY <1>1, <1>2, WriteRunShape, SecondsAreNotLatest DEF TypeOK, Dirs
  <1>5. \A f \in whole : disk'[started][f] \in {0, attempt}
    BY <1>2, <1>3, OutputOfRun
  <1>6. \A f \in Written(pc) : disk'[started][f] \in {0, attempt}
    BY <1>2, <1>3, <1>5 DEF RunDirIsOneRun
  <1>7. \A f \in kept \ Written(pc) : disk'[started][f] \in {0, attempt}
    <2>1. SUFFICES ASSUME NEW f \in kept \ Written(pc)
                   PROVE  disk'[started][f] \in {0, attempt}
      OBVIOUS
    <2>2. DistinctSeconds /\ f \in Files
      BY <1>1, WritesAreFiles DEF Reliable
    <2> QED
      BY <1>3, <2>2 DEF RunDirIsOneRun
  <1>8. DistinctSeconds =>
          \A f \in Files \ (Written(pc) \cup Writes(pc)) : disk'[started][f] = 0
    BY <1>3 DEF RunDirIsOneRun
  <1> QED
    BY <1>4, <1>5, <1>6, <1>7, <1>8

LEMMA LeftoversKeepLatest ==
    ASSUME TypeOK, pc # "idle", WriteLeftovers(pc)
    PROVE  disk'[Latest] = disk[Latest]
  BY WriteRunShape, WritesAreFiles, SecondsAreNotLatest DEF WriteLeftovers, TypeOK, Dirs

\* Files are only written in the sync's own run directory and in "latest", so
\* the directories of seconds to come stay empty.
LEMMA FutureStep ==
    ASSUME TypeOK, FutureIsEmpty, [Next]_vars
    PROVE  FutureIsEmpty'
  <1> DEFINE Elsewhere == \A d \in Seconds : d > started => disk'[d] = disk[d]
  <1>1. Seconds \subseteq Nat /\ started \in Nat /\ Seconds \subseteq Dirs /\ Latest \in Dirs
    BY BoundsAssumption DEF TypeOK, Dirs, Latest, Seconds
  <1>2. ASSUME started' = started, Elsewhere PROVE FutureIsEmpty'
    BY <1>2 DEF FutureIsEmpty
  <1>3. ASSUME NEW torn \in SUBSET Writes(pc), NEW whole \in SUBSET Writes(pc),
               WriteRun(torn, whole)
        PROVE  Elsewhere
    <2>1. torn \in SUBSET Files /\ whole \in SUBSET Files
      BY WritesAreFiles
    <2>2. \A d \in Dirs : d # started => disk'[d] = disk[d]
      BY <1>3, <2>1, WriteRunShape
    <2> QED
      BY <1>1, <2>2
  <1>4. CASE Begin
    <2>1. /\ disk' = disk /\ started' \in Seconds
          /\ DistinctSeconds => started' > started
      BY <1>4 DEF Begin
    <2>2. DistinctSeconds => \A d \in Seconds : d > started' => d > started
      BY <1>1, <2>1
    <2>3. DistinctSeconds =>
            \A d \in Seconds : d > started' => \A f \in Files : disk[d][f] = 0
      BY <2>2 DEF FutureIsEmpty
    <2> QED
      BY <2>1, <2>3 DEF FutureIsEmpty
  <1>5. CASE Expire
    BY <1>2, <1>5 DEF Expire
  <1>6. CASE Resolve \/ Capture \/ MakeRunDir \/ Build \/ Load
    BY <1>2, <1>6 DEF Resolve, Capture, MakeRunDir, Build, Load, Proceed
  <1>7. CASE \/ WriteActivity \/ WriteTopology \/ RunBering \/ RunSheaft
             \/ SaveEffective \/ WriteSummary
    <2>1. started' = started /\ WriteOutputs(pc)
      BY <1>7 DEF WriteActivity, WriteTopology, RunBering, RunSheaft, SaveEffective,
                  WriteSummary, Produce, Proceed
    <2>2. \E kept \in SUBSET Writes(pc) : WriteRun({}, Writes(pc) \ kept)
      BY <2>1 DEF WriteOutputs
    <2>3. {} \in SUBSET Writes(pc)
          /\ \A kept \in SUBSET Writes(pc) : Writes(pc) \ kept \in SUBSET Writes(pc)
      OBVIOUS
    <2>4. Elsewhere
      BY <1>3, <2>2, <2>3, Zenon
    <2> QED
      BY <1>2, <2>1, <2>4
  <1>8. CASE (\E f \in Files : CopyOpen(f)) \/ CopyWrite
    <2>1. /\ started' = started
          /\ \A d \in Dirs : d # Latest => disk'[d] = disk[d]
      BY <1>8 DEF CopyOpen, CopyWrite, TypeOK
    <2> QED
      BY <1>1, <1>2, <2>1, SecondsAreNotLatest
  <1>9. CASE Publish
    BY <1>2, <1>9 DEF Publish, Return
  <1>10. CASE Fail \/ Restart
    <2>1. started' = started /\ WriteLeftovers(pc)
      BY <1>10 DEF Fail, Restart, Return
    <2>2. \E torn \in SUBSET Writes(pc) : \E whole \in SUBSET Writes(pc) :
            WriteRun(torn, whole)
      BY <2>1 DEF WriteLeftovers
    <2> QED
      BY <1>2, <1>3, <2>1, <2>2
  <1>11. CASE UNCHANGED vars
    BY <1>2, <1>11 DEF vars
  <1> QED
    BY <1>4, <1>5, <1>6, <1>7, <1>8, <1>9, <1>10, <1>11 DEF Next, SyncStep, Advance

LEMMA IInvInit == Init => IInv
  <1> SUFFICES ASSUME Init PROVE IInv
    OBVIOUS
  <1>1. TypeOK
    BY TypeInit
  <1> QED
    BY <1>1 DEF Init, IInv, RunDirIsOneRun, FutureIsEmpty, RefreshedIsOneRun,
                StoreFollowsSync, OkServesOneRun, NoStatus, Dirs

\* The stages that write into the run directory.
LEMMA IInvProduce ==
    ASSUME Reliable, IInv, TypeOK', FutureIsEmpty', NEW from, NEW to,
           from # "idle", to # "idle", from # "refresh",
           Produce(from, to),
           Written(to) = Written(from) \cup Writes(from),
           to \in {"effective", "summary", "refresh"} =>
               from \in {"effective", "summary", "refresh"},
           IF to = "refresh" THEN todo' = Files ELSE todo' = todo
    PROVE  IInv'
  <1> USE DEF IInv
  <1>1. pc = from /\ pc' = to /\ WriteOutputs(pc)
    BY DEF Produce, Proceed
  <1>2. UNCHANGED <<attempt, started, report, copying, store, previous, expired>>
    BY DEF Produce, Proceed
  <1>3. disk'[Latest] = disk[Latest]
    BY <1>1, OutputsOfRun
  <1>4. RunDirIsOneRun'
    BY <1>1, <1>2, OutputsOfRun DEF RunDirIsOneRun, Written
  <1>5. RefreshedIsOneRun'
    BY <1>1, <1>2 DEF RefreshedIsOneRun
  <1>6. StoreFollowsSync' /\ OkServesOneRun'
    BY <1>1, <1>2 DEF StoreFollowsSync, OkServesOneRun, LatestPath
  <1> QED
    BY <1>4, <1>5, <1>6

\* The refresh of "latest", file by file, and the publication of the status.
LEMMA IInvRefresh ==
    ASSUME Reliable, IInv, TypeOK', FutureIsEmpty',
           (\E f \in Files : CopyOpen(f)) \/ CopyWrite \/ Publish
    PROVE  IInv'
  <1> USE DEF IInv
  <1>1. pc = "refresh" /\ started \in Dirs /\ started # Latest /\ Latest \in Dirs
    BY SecondsAreNotLatest DEF CopyOpen, CopyWrite, Publish, TypeOK, Dirs
  <1>2. \A f \in Files : disk[started][f] \in {0, attempt}
    BY <1>1, WrittenInputs DEF RunDirIsOneRun
  <1>3. ASSUME NEW f \in Files, CopyOpen(f) PROVE IInv'
    <2>1. /\ UNCHANGED <<pc, attempt, started, report, todo, store>>
          /\ copying' = f /\ f \in todo /\ disk[started][f] = attempt
      BY <1>2, <1>3 DEF CopyOpen
    <2>2. /\ disk'[started] = disk[started]
          /\ \A g \in Files \ {f} : disk'[Latest][g] = disk[Latest][g]
      BY <1>1, <1>3 DEF CopyOpen, TypeOK
    <2>3. RunDirIsOneRun'
      BY <1>1, <2>1, <2>2 DEF RunDirIsOneRun, Written
    <2>4. RefreshedIsOneRun'
      BY <1>1, <2>1, <2>2 DEF RefreshedIsOneRun
    <2>5. StoreFollowsSync' /\ OkServesOneRun'
      BY <1>1, <2>1 DEF StoreFollowsSync, OkServesOneRun, LatestPath
    <2> QED
      BY <2>3, <2>4, <2>5
  <1>4. CASE CopyWrite
    <2>1. /\ UNCHANGED <<pc, attempt, started, report, store>>
          /\ copying' = "none" /\ todo' = todo \ {copying}
          /\ disk[started][copying] = attempt
      BY <1>4 DEF CopyWrite, RefreshedIsOneRun
    <2>2. /\ disk'[started] = disk[started]
          /\ \A g \in Files :
               disk'[Latest][g] = IF g = copying THEN attempt ELSE disk[Latest][g]
      BY <1>1, <1>4, <2>1 DEF CopyWrite, TypeOK
    <2>3. RunDirIsOneRun'
      BY <1>1, <2>1, <2>2 DEF RunDirIsOneRun, Written
    <2>4. RefreshedIsOneRun'
      BY <1>1, <2>1, <2>2 DEF RefreshedIsOneRun
    <2>5. StoreFollowsSync' /\ OkServesOneRun'
      BY <1>1, <2>1 DEF StoreFollowsSync, OkServesOneRun, LatestPath
    <2> QED
      BY <2>3, <2>4, <2>5
  <1>5. CASE Publish
    <2>1. /\ pc' = "idle" /\ copying' = "none" /\ store' = OkStatus
          /\ disk' = disk /\ report = attempt
      BY <1>1, <1>5 DEF Publish, Return, RunDirIsOneRun
    <2>2. \A f \in Files : disk[Latest][f] = attempt
      BY <1>1, <1>5 DEF Publish, RefreshedIsOneRun
    <2>3. StoreFollowsSync'
      BY <2>1 DEF StoreFollowsSync, OkStatus, LatestPath
    <2>4. \A f \in Files : store'.paths[f] = LatestPath(f) /\ store'.report = attempt
      BY <2>1 DEF OkStatus, Fields
    <2>5. \A f : LatestPath(f).dir = Latest /\ LatestPath(f).file = f
      BY DEF LatestPath
    <2>6. \A f \in Files : store'.paths[f].dir = Latest /\ store'.paths[f].file = f
      BY <2>4, <2>5, Zenon
    <2>7. \A f \in Files : Contents(store.paths[f])' = store'.report
      BY <2>1, <2>2, <2>4, <2>6 DEF Contents
    <2>8. OkServesOneRun'
      BY <2>7 DEF OkServesOneRun
    <2> QED
      BY <2>1, <2>3, <2>8 DEF RunDirIsOneRun, RefreshedIsOneRun
  <1> QED
    BY <1>3, <1>4, <1>5

LEMMA IInvAdvance ==
    ASSUME Reliable, IInv, Advance
    PROVE  IInv'
  <1>1. TypeOK' /\ FutureIsEmpty'
    BY TypeAdvance, FutureStep DEF IInv, Next, SyncStep
  <1>2. CASE Resolve \/ Capture \/ MakeRunDir \/ Build
    <2>1. /\ UNCHANGED <<attempt, started, report, todo, copying, store, disk>>
          /\ pc # "idle" /\ pc' # "idle" /\ pc # "refresh" /\ pc' # "refresh"
          /\ pc' \notin {"effective", "summary", "refresh"}
          /\ Written(pc) = {} /\ Written(pc') = {}
      BY <1>2, WrittenStages DEF Resolve, Capture, MakeRunDir, Build, Proceed
    <2>2. RunDirIsOneRun'
      BY <2>1 DEF IInv, RunDirIsOneRun, Written
    <2> QED
      BY <1>1, <2>1, <2>2
         DEF IInv, RefreshedIsOneRun, StoreFollowsSync, OkServesOneRun, LatestPath
  <1>3. CASE WriteActivity
    BY <1>1, <1>3, IInvProduce, WrittenStages DEF WriteActivity
  <1>4. CASE WriteTopology
    BY <1>1, <1>4, IInvProduce, WrittenStages DEF WriteTopology
  <1>5. CASE RunBering
    BY <1>1, <1>5, IInvProduce, WrittenStages DEF RunBering
  <1>6. CASE RunSheaft
    BY <1>1, <1>6, IInvProduce, WrittenStages DEF RunSheaft
  <1>7. CASE Load
    <2>1. /\ UNCHANGED <<attempt, started, todo, copying, store, disk>>
          /\ pc = "load" /\ pc' = "effective"
          /\ report' = disk[started]["rawReport"] /\ report' \in Attempts
      BY <1>7 DEF Load, Proceed, InputReady
    <2>2. report' = attempt
      BY <2>1, WrittenInputs DEF IInv, RunDirIsOneRun, Attempts
    <2>3. RunDirIsOneRun'
      BY <2>1, <2>2, WrittenStages DEF IInv, RunDirIsOneRun, Written
    <2> QED
      BY <1>1, <2>1, <2>3
         DEF IInv, RefreshedIsOneRun, StoreFollowsSync, OkServesOneRun, LatestPath
  <1>8. CASE SaveEffective
    BY <1>1, <1>8, IInvProduce, WrittenStages DEF SaveEffective
  <1>9. CASE WriteSummary
    BY <1>1, <1>9, IInvProduce, WrittenStages DEF WriteSummary
  <1> QED
    BY <1>1, <1>2, <1>3, <1>4, <1>5, <1>6, <1>7, <1>8, <1>9, IInvRefresh DEF Advance

LEMMA IInvStep ==
    ASSUME Reliable, IInv, [Next]_vars
    PROVE  IInv'
  <1>1. TypeOK' /\ FutureIsEmpty'
    BY TypeStep, FutureStep DEF IInv
  <1>2. CASE Begin
    <2>1. /\ pc' = "resolve" /\ started' \in Seconds /\ disk' = disk
          /\ DistinctSeconds => started' > started
          /\ store'.state = "running"
          /\ UNCHANGED <<todo, copying>> /\ pc = "idle"
      BY <1>2 DEF Begin
    <2>2. DistinctSeconds => \A f \in Files : disk[started'][f] = 0
      BY <2>1 DEF IInv, FutureIsEmpty
    <2>3. RunDirIsOneRun'
      BY <2>1, <2>2, WrittenStages DEF RunDirIsOneRun, Written
    <2> QED
      BY <1>1, <2>1, <2>3 DEF IInv, RefreshedIsOneRun, StoreFollowsSync, OkServesOneRun
  <1>3. CASE Expire
    BY <1>1, <1>3 DEF Expire, IInv, RunDirIsOneRun, RefreshedIsOneRun, StoreFollowsSync,
                      OkServesOneRun, Contents, Written, LatestPath
  <1>4. CASE Advance
    BY <1>4, IInvAdvance
  <1>5. CASE Fail
    <2>1. pc' = "idle" /\ copying' = "none" /\ store'.state = "error"
      BY <1>5, FailedStatusType DEF Fail, Return, IInv
    <2> QED
      BY <1>1, <2>1 DEF IInv, RunDirIsOneRun, RefreshedIsOneRun, StoreFollowsSync,
                        OkServesOneRun
  <1>6. CASE Restart
    <2>1. pc' = "idle" /\ copying' = "none" /\ store'.state = "none"
      BY <1>6 DEF Restart, Return, NoStatus
    <2> QED
      BY <1>1, <2>1 DEF IInv, RunDirIsOneRun, RefreshedIsOneRun, StoreFollowsSync,
                        OkServesOneRun
  <1>7. CASE UNCHANGED vars
    BY <1>1, <1>7 DEF vars, IInv, RunDirIsOneRun, RefreshedIsOneRun, StoreFollowsSync,
                      OkServesOneRun, Contents, Written, LatestPath
  <1> QED
    BY <1>2, <1>3, <1>4, <1>5, <1>6, <1>7 DEF Next, SyncStep

\* The inductive invariant holds of every behaviour.
THEOREM Inductive == ASSUME Reliable PROVE Spec => []IInv
  <1>1. Init => IInv
    BY IInvInit
  <1>2. IInv /\ [Next]_vars => IInv'
    BY IInvStep
  <1> QED
    BY <1>1, <1>2, PTL DEF Spec

\* Everything a status "ok" offers, in memory and on disk, is of the run that
\* published it, whatever earlier syncs, failures and crashes left on disk.
THEOREM OkIsOneRun == ASSUME Reliable PROVE Spec => []OkServesOneRun
  <1>1. IInv => OkServesOneRun
    BY DEF IInv
  <1> QED
    BY <1>1, Inductive, PTL

-----------------------------------------------------------------------------
\* A status tells of the latest attempt: "ok" carries its own report, and "error" the
\* report of an earlier one, or none.
LatestStatus ==
    /\ pc # "idle" => previous.report < attempt
    /\ store.report <= attempt
    /\ store.state = "ok" => store.report = attempt
    /\ store.state = "error" => store.report < attempt

LEMMA LatestStatusStep == IInv /\ LatestStatus /\ [Next]_vars => LatestStatus'
  <1> SUFFICES ASSUME IInv, LatestStatus, [Next]_vars PROVE LatestStatus'
    OBVIOUS
  <1>1. TypeOK /\ attempt \in Nat /\ store.report \in Nat /\ previous.report \in Nat
    BY BoundsAssumption DEF IInv, TypeOK, Statuses, Attempts
  <1>2. CASE Begin
    <2>1. attempt' = attempt + 1 /\ previous' = store
          /\ store'.report = 0 /\ store'.state = "running"
      BY <1>2 DEF Begin
    <2> QED
      BY <1>1, <2>1 DEF LatestStatus
  <1>3. CASE Expire
    BY <1>3 DEF Expire, LatestStatus
  <1>4. CASE Advance /\ ~Publish
    <2>1. /\ pc # "idle" /\ attempt' = attempt /\ previous' = previous /\ store' = store
      BY <1>4 DEF Advance, Resolve, Capture, MakeRunDir, Build, WriteActivity,
                  WriteTopology, RunBering, RunSheaft, Load, SaveEffective, WriteSummary,
                  Produce, Proceed, CopyOpen, CopyWrite
    <2> QED
      BY <2>1 DEF LatestStatus
  <1>5. CASE Publish
    <2>1. /\ pc' = "idle" /\ attempt' = attempt
          /\ store'.state = "ok" /\ store'.report = attempt
      BY <1>5 DEF Publish, Return, OkStatus, IInv, RunDirIsOneRun
    <2> QED
      BY <1>1, <2>1 DEF LatestStatus
  <1>6. CASE Fail
    <2>1. /\ pc # "idle" /\ pc' = "idle" /\ attempt' = attempt
          /\ store'.state = "error" /\ store'.report = previous.report
      BY <1>1, <1>6, FailedStatusType DEF Fail, Return
    <2> QED
      BY <1>1, <2>1 DEF LatestStatus
  <1>7. CASE Restart
    <2>1. pc' = "idle" /\ attempt' = attempt /\ store'.state = "none" /\ store'.report = 0
      BY <1>7 DEF Restart, Return, NoStatus
    <2> QED
      BY <1>1, <2>1 DEF LatestStatus
  <1>8. CASE UNCHANGED vars
    BY <1>8 DEF vars, LatestStatus
  <1> QED
    BY <1>2, <1>3, <1>4, <1>5, <1>6, <1>7, <1>8 DEF Next, SyncStep

\* Every status is that of the latest attempt, and the store shows "running" exactly
\* while a sync runs.
THEOREM StatusIsLatest ==
    ASSUME Reliable PROVE Spec => [](LatestStatus /\ StoreFollowsSync)
  <1>1. Init => LatestStatus
    BY DEF Init, LatestStatus, NoStatus
  <1>2. IInv => StoreFollowsSync
    BY DEF IInv
  <1> QED
    BY <1>1, <1>2, LatestStatusStep, Inductive, PTL DEF Spec

-----------------------------------------------------------------------------
(***************************************************************************)
(* The stored gate result is a register.                                   *)
(***************************************************************************)

LEMMA RegisterInit == Init => Register!Init
  BY DEF Init, Register!Init, LastResult, NoStatus

LEMMA RegisterStep ==
    ASSUME IInv, [Next]_vars
    PROVE  [Register!Next]_(Register!vars)
  <1> USE DEF Register!Next, Register!vars, LastResult
  <1>1. CASE Begin
    <2>1. /\ pc = "idle" /\ pc' # "idle"
          /\ attempt < MaxSyncs /\ attempt' = attempt + 1
          /\ store.state # "running" /\ store'.state = "running"
          /\ previous'.report = store.report
      BY <1>1 DEF Begin, IInv, StoreFollowsSync
    <2> QED
      BY <2>1 DEF Register!Begin
  <1>2. ASSUME pc # "idle", pc' # "idle", attempt' = attempt, previous' = previous,
               store' = store
        PROVE  UNCHANGED Register!vars
    BY <1>2
  <1>3. CASE Expire
    BY <1>2, <1>3 DEF Expire
  <1>4. CASE Advance /\ ~Publish
    <2>1. /\ pc # "idle" /\ pc' # "idle" /\ attempt' = attempt /\ previous' = previous
          /\ store' = store
      BY <1>4 DEF Advance, Resolve, Capture, MakeRunDir, Build, WriteActivity,
                  WriteTopology, RunBering, RunSheaft, Load, SaveEffective, WriteSummary,
                  Produce, Proceed, CopyOpen, CopyWrite
    <2> QED
      BY <1>2, <2>1
  <1>5. CASE Publish
    <2>1. /\ pc # "idle" /\ pc' = "idle" /\ attempt' = attempt
          /\ store.state = "running" /\ store'.state = "ok" /\ store'.report = attempt
      BY <1>5 DEF Publish, Return, OkStatus, IInv, RunDirIsOneRun, StoreFollowsSync
    <2> QED
      BY <2>1 DEF Register!Succeed
  <1>6. CASE Fail
    <2>1. /\ pc # "idle" /\ pc' = "idle" /\ attempt' = attempt
          /\ store.state = "running" /\ store'.state = "error"
          /\ store'.report = previous.report
      BY <1>6, FailedStatusType DEF Fail, Return, IInv, StoreFollowsSync
    <2> QED
      BY <2>1 DEF Register!Fail
  <1>7. CASE Restart
    <2>1. /\ pc' = "idle" /\ attempt' = attempt
          /\ store'.state = "none" /\ store'.report = 0
      BY <1>7 DEF Restart, Return, NoStatus
    <2> QED
      BY <2>1 DEF Register!Restart
  <1>8. CASE UNCHANGED vars
    BY <1>8 DEF vars
  <1> QED
    BY <1>1, <1>3, <1>4, <1>5, <1>6, <1>7, <1>8 DEF Next, SyncStep

\* A sync that succeeds stores its own result, one that fails keeps the last
\* result, whatever the stage it fails in, and only a restart drops it.
THEOREM RegisterImplemented == ASSUME Reliable PROVE Spec => ImplementsRegister
  <1>1. Init => Register!Init
    BY RegisterInit
  <1>2. IInv /\ [Next]_vars => [Register!Next]_(Register!vars)
    BY RegisterStep
  <1> QED
    BY <1>1, <1>2, Inductive, PTL DEF Spec, ImplementsRegister, Register!Spec
-----------------------------------------------------------------------------
(***************************************************************************)
(* The paths a status offers name files that were written.  What the proof *)
(* adds to IInv: the stages a sync has passed have left their files in its *)
(* run directory, and the status before the sync, which a failure falls    *)
(* back on, offers only what was written too.  No file ever goes away.     *)
(***************************************************************************)
PathsExist(paths, files) ==
    \A f \in Files : paths[f] # NoPath =>
        paths[f].file \in Files /\ files[paths[f].dir][paths[f].file] # 0

PathsInv ==
    /\ IInv
    /\ pc # "idle" => \A f \in Written(pc) : disk[started][f] # 0
    /\ PathsExist(store.paths, disk)
    /\ PathsExist(previous.paths, disk)

\* No file goes away.
FilesKept == \A d \in Dirs : \A f \in Files : disk[d][f] # 0 => disk'[d][f] # 0

\* What a failing stage announces as its own is written before the stage.
LEMMA OwnIsWritten ==
    ASSUME TypeOK, NEW f \in Files, f \in OwnFields(pc)
    PROVE  OwnFile[f] \in Written(pc)
  <1>1. f \in AllFiles
    BY FilesAssumption
  <1>2. CASE pc \in {"bering", "sheaft"}
    <2>1. f = "topology"
      BY <1>1, <1>2 DEF OwnFields, AllFiles
    <2>2. OwnFile[f] = "topology"
      BY <1>1, <2>1 DEF OwnFile
    <2> QED
      BY <1>2, <2>1, <2>2, Ranks, Writers DEF Written
  <1>3. CASE pc \in {"load", "refresh"}
    <2>1. f \in {"topology", "model", "snapshot", "report", "summary"}
      BY <1>1, <1>3 DEF OwnFields, AllFiles
    <2>2. OwnFile[f] = IF f = "report" THEN "rawReport"
                       ELSE IF f = "summary" THEN "rawSummary" ELSE f
      BY <1>1 DEF OwnFile
    <2>3. OwnFile[f] \in Files
      BY <2>2, FilesAssumption
    <2> QED
      BY <1>3, <2>1, <2>2, <2>3, Ranks, Writers DEF Written
  <1>4. pc \in {"bering", "sheaft", "load", "refresh"}
    BY DEF OwnFields
  <1> QED
    BY <1>2, <1>3, <1>4

\* The paths of a failed sync: its own where the stage has one, else those of
\* the status before it.
LEMMA FailedPaths ==
    ASSUME TypeOK, pc # "idle", NEW f \in Files
    PROVE  FailedStatus(pc).paths[f] =
             IF f \in OwnFields(pc) THEN [dir |-> started, file |-> OwnFile[f]]
             ELSE IF previous.report = 0 THEN NoPath
             ELSE previous.paths[f]
  <1> DEFINE own == [g \in Fields |-> OwnPath(pc, g)]
             status == [state |-> "error", report |-> 0, paths |-> own]
  <1>1. f \in Fields /\ status.paths[f] = OwnPath(pc, f)
    BY DEF Fields
  <1>2. f \in OwnFields(pc) =>
          OwnPath(pc, f) = [dir |-> started, file |-> OwnFile[f]] /\ OwnPath(pc, f) # NoPath
    <2>1. started # Latest
      BY SecondsAreNotLatest DEF TypeOK
    <2> QED
      BY <2>1 DEF OwnPath, NoPath
  <1>3. f \notin OwnFields(pc) => OwnPath(pc, f) = NoPath
    BY DEF OwnPath
  <1>4. previous.report = 0 => FailedStatus(pc) = status
    BY DEF FailedStatus, RestorePrevious
  <1>5. previous.report # 0 =>
          FailedStatus(pc).paths =
            [g \in Fields |-> IF status.paths[g] = NoPath
                              THEN previous.paths[g] ELSE status.paths[g]]
    BY DEF FailedStatus, RestorePrevious
  <1> QED
    BY <1>1, <1>2, <1>3, <1>4, <1>5

\* No stage writes an absent file.
LEMMA OutputExists ==
    ASSUME PathsInv, NEW f \in Writes(pc)
    PROVE  Output(f) # 0
  <1>1. pc # "idle" /\ attempt # 0
    BY IdleWritesNothing DEF PathsInv, IInv, TypeOK, Attempts
  <1>2. CASE f = "report"
    <2>1. pc = "effective"
      BY <1>2, Writers DEF Writes
    <2> QED
      BY <1>1, <1>2, <2>1 DEF Output, PathsInv, IInv, RunDirIsOneRun
  <1>3. CASE f = "summary"
    <2>1. pc = "summary"
      BY <1>3, Writers DEF Writes
    <2>2. disk[started]["rawSummary"] # 0
      BY <1>3, <2>1, WrittenInputs DEF PathsInv
    <2> QED
      BY <1>3, <2>2 DEF Output
  <1>4. CASE f # "report" /\ f # "summary"
    BY <1>1, <1>4 DEF Output
  <1> QED
    BY <1>2, <1>3, <1>4

\* Writing into the run directory removes nothing, and leaves what it writes.
LEMMA WriteRunExists ==
    ASSUME PathsInv, NEW torn \in SUBSET Writes(pc), NEW whole \in SUBSET Writes(pc),
           WriteRun(torn, whole)
    PROVE  /\ FilesKept
           /\ \A f \in torn \cup whole : disk'[started][f] # 0
  <1>1. torn \in SUBSET Files /\ whole \in SUBSET Files
    BY WritesAreFiles
  <1>2. TypeOK
    BY DEF PathsInv, IInv
  <1>3. /\ \A d \in Dirs : d # started => disk'[d] = disk[d]
        /\ disk'[started] = [f \in Files |->
                               IF f \in torn THEN Torn
                               ELSE IF f \in whole THEN Output(f)
                               ELSE disk[started][f]]
    BY <1>1, <1>2, WriteRunShape
  <1>4. Torn # 0
    BY TornAssumption
  <1>5. \A f \in whole : Output(f) # 0
    BY OutputExists
  <1> QED
    BY <1>1, <1>3, <1>4, <1>5 DEF FilesKept

\* With tools that write what they promise, a stage that succeeds leaves all its
\* files.
LEMMA OutputsExist ==
    ASSUME ToolsHonest, PathsInv, WriteOutputs(pc)
    PROVE  /\ FilesKept
           /\ \A f \in Writes(pc) : disk'[started][f] # 0
  <1>1. WriteRun({}, Writes(pc))
    BY DEF WriteOutputs
  <1> QED
    BY <1>1, WriteRunExists

LEMMA LeftoversKept ==
    ASSUME PathsInv, WriteLeftovers(pc)
    PROVE  FilesKept
  <1>1. \E torn \in SUBSET Writes(pc) : \E whole \in SUBSET Writes(pc) :
          WriteRun(torn, whole)
    BY DEF WriteLeftovers
  <1> QED
    BY <1>1, WriteRunExists

\* Paths that are not changed go on naming files.
LEMMA PathsKept ==
    ASSUME FilesKept, NEW paths \in [Fields -> Paths], PathsExist(paths, disk)
    PROVE  PathsExist(paths, disk')
  <1>1. \A f \in Files : f \in Fields
    BY DEF Fields
  <1>2. \A f \in Files : paths[f].dir \in Dirs
    BY <1>1 DEF Paths
  <1> QED
    BY <1>2 DEF PathsExist, FilesKept

LEMMA PathsInvInit == Init => PathsInv
  <1> SUFFICES ASSUME Init PROVE PathsInv
    OBVIOUS
  <1>1. IInv
    BY IInvInit
  <1>2. PathsExist(NoPaths, disk)
    BY DEF PathsExist, NoPaths, Fields
  <1> QED
    BY <1>1, <1>2 DEF Init, PathsInv, NoStatus

\* The stages of a sync, as long as its status is not published.
LEMMA PathsInvAdvance ==
    ASSUME ToolsHonest, PathsInv, IInv', Advance, ~Publish
    PROVE  PathsInv'
  <1>1. /\ store.paths \in [Fields -> Paths] /\ previous.paths \in [Fields -> Paths]
    BY DEF PathsInv, IInv, TypeOK, Statuses
  <1>2. ASSUME FilesKept, UNCHANGED <<store, previous, started>>,
               pc' # "idle" => \A f \in Written(pc') : disk'[started][f] # 0
        PROVE  PathsInv'
    <2>1. PathsExist(store.paths, disk') /\ PathsExist(previous.paths, disk')
      BY <1>1, <1>2, PathsKept DEF PathsInv
    <2> QED
      BY <1>2, <2>1 DEF PathsInv, Written
  <1>3. CASE Resolve \/ Capture \/ MakeRunDir \/ Build \/ Load
    <2>1. /\ UNCHANGED <<store, previous, started, disk>> /\ pc # "idle"
          /\ Written(pc') = Written(pc)
      BY <1>3, WrittenStages DEF Resolve, Capture, MakeRunDir, Build, Load, Proceed
    <2> QED
      BY <1>2, <2>1 DEF PathsInv, FilesKept
  <1>4. CASE \/ WriteActivity \/ WriteTopology \/ RunBering \/ RunSheaft
             \/ SaveEffective \/ WriteSummary
    <2>1. /\ UNCHANGED <<store, previous, started>> /\ pc # "idle" /\ WriteOutputs(pc)
          /\ Written(pc') = Written(pc) \cup Writes(pc)
      BY <1>4, WrittenStages DEF WriteActivity, WriteTopology, RunBering, RunSheaft,
                  SaveEffective, WriteSummary, Produce, Proceed
    <2>2. FilesKept /\ \A f \in Writes(pc) : disk'[started][f] # 0
      BY <2>1, OutputsExist
    <2>3. \A f \in Written(pc) : disk'[started][f] # 0
      BY <2>1, <2>2 DEF PathsInv, IInv, TypeOK, FilesKept, Written
    <2> QED
      BY <1>2, <2>1, <2>2, <2>3
  <1>5. CASE (\E f \in Files : CopyOpen(f)) \/ CopyWrite
    <2>1. /\ UNCHANGED <<store, previous, started, pc>> /\ pc # "idle"
          /\ started \in Dirs
      BY <1>5 DEF CopyOpen, CopyWrite, PathsInv, IInv, TypeOK
    <2>2. ASSUME NEW f \in Files, CopyOpen(f) PROVE FilesKept
      <3>1. Torn # 0
        BY TornAssumption
      <3> QED
        BY <2>2, <3>1 DEF CopyOpen, FilesKept, PathsInv, IInv, TypeOK
    <2>3. ASSUME CopyWrite PROVE FilesKept
      <3>1. disk[started][copying] # 0
        BY <2>3 DEF CopyWrite, PathsInv, IInv, RefreshedIsOneRun, TypeOK, Attempts
      <3> QED
        BY <2>3, <3>1 DEF CopyWrite, FilesKept, PathsInv, IInv, TypeOK
    <2>4. FilesKept
      BY <1>5, <2>2, <2>3
    <2> QED
      BY <1>2, <2>1, <2>4 DEF PathsInv, FilesKept, Written
  <1> QED
    BY <1>3, <1>4, <1>5 DEF Advance

LEMMA PathsInvStep ==
    ASSUME ToolsHonest, PathsInv, [Next]_vars
    PROVE  PathsInv'
  <1>1. IInv'
    BY IInvStep DEF PathsInv, Reliable
  <1>2. /\ store.paths \in [Fields -> Paths] /\ previous.paths \in [Fields -> Paths]
    BY DEF PathsInv, IInv, TypeOK, Statuses
  <1>3. \A files : PathsExist(NoPaths, files)
    BY DEF PathsExist, NoPaths, Fields
  <1>4. CASE Begin
    <2>1. /\ disk' = disk /\ previous' = store /\ store'.paths = NoPaths /\ pc' = "resolve"
      BY <1>4 DEF Begin
    <2> QED
      BY <1>1, <1>3, <2>1, WrittenStages DEF PathsInv, Written
  <1>5. CASE Expire
    BY <1>1, <1>5 DEF Expire, PathsInv, Written
  <1>6. CASE Advance /\ ~Publish
    BY <1>1, <1>6, PathsInvAdvance
  <1>7. CASE Publish
    <2>1. /\ disk' = disk /\ previous'.paths = NoPaths /\ pc' = "idle"
          /\ store'.paths = [f \in Fields |-> LatestPath(f)]
      BY <1>7 DEF Publish, Return, OkStatus, NoStatus
    <2>2. \A f \in Files : disk[Latest][f] # 0
      BY <1>7 DEF Publish, PathsInv, IInv, RefreshedIsOneRun, TypeOK, Attempts
    <2>3. PathsExist(store'.paths, disk')
      BY <2>1, <2>2 DEF PathsExist, LatestPath, Fields
    <2> QED
      BY <1>1, <1>3, <2>1, <2>3 DEF PathsInv
  <1>8. CASE Fail
    <2>1. /\ previous'.paths = NoPaths /\ pc' = "idle" /\ pc # "idle"
          /\ store' = FailedStatus(pc) /\ FilesKept
      BY <1>8, LeftoversKept DEF Fail, Return, NoStatus
    <2>2. PathsExist(previous.paths, disk')
      BY <1>2, <2>1, PathsKept DEF PathsInv
    <2>3. ASSUME NEW f \in Files, f \in OwnFields(pc)
          PROVE  OwnFile[f] \in Files /\ disk'[started][OwnFile[f]] # 0
      BY <2>1, <2>3, OwnIsWritten DEF PathsInv, IInv, TypeOK, Written, FilesKept
    <2>4. \A f \in Files : store'.paths[f] =
             IF f \in OwnFields(pc) THEN [dir |-> started, file |-> OwnFile[f]]
             ELSE IF previous.report = 0 THEN NoPath
             ELSE previous.paths[f]
      BY <2>1, FailedPaths DEF PathsInv, IInv
    <2>5. PathsExist(store'.paths, disk')
      <3> SUFFICES ASSUME NEW f \in Files, store'.paths[f] # NoPath
                   PROVE  /\ store'.paths[f].file \in Files
                          /\ disk'[store'.paths[f].dir][store'.paths[f].file] # 0
        BY DEF PathsExist
      <3>1. CASE f \in OwnFields(pc)
        <4>1. store'.paths[f] = [dir |-> started, file |-> OwnFile[f]]
          BY <3>1, <2>4
        <4>2. store'.paths[f].dir = started /\ store'.paths[f].file = OwnFile[f]
          BY <4>1
        <4> QED
          BY <4>2, <3>1, <2>3
      <3>2. CASE f \notin OwnFields(pc)
        <4>1. store'.paths[f] = previous.paths[f]
          BY <3>2, <2>4
        <4> QED
          BY <4>1, <2>2 DEF PathsExist
      <3> QED
        BY <3>1, <3>2
    <2> QED
      BY <1>1, <1>3, <2>1, <2>5 DEF PathsInv
  <1>9. CASE Restart
    BY <1>1, <1>3, <1>9 DEF Restart, Return, NoStatus, PathsInv
  <1>10. CASE UNCHANGED vars
    BY <1>1, <1>10 DEF vars, PathsInv, Written
  <1> QED
    BY <1>4, <1>5, <1>6, <1>7, <1>8, <1>9, <1>10 DEF Next, SyncStep

\* With tools that write what they promise, whatever syncs fail, at whatever
\* stage, and whenever the process is restarted, every path a status offers
\* names a file that is there.
THEOREM OfferedIsThere == ASSUME ToolsHonest PROVE Spec => []OfferedPathsExist
  <1>1. PathsInv => OfferedPathsExist
    BY DEF PathsInv, PathsExist, OfferedPathsExist, Contents
  <1>2. PathsInv /\ [Next]_vars => PathsInv'
    BY PathsInvStep
  <1> QED
    BY <1>1, <1>2, PathsInvInit, PTL DEF Spec
-----------------------------------------------------------------------------
(***************************************************************************)
(* What a client of the HTTP API sees.  The reader changes nothing of the  *)
(* pipeline, so IInv holds next to it.  A path leads to at most one run at *)
(* a time; the proof relates the run each path leads to, the one being     *)
(* served, the one the status offers, the one a failure would fall back    *)
(* on, to the newest run the client has seen.                              *)
(***************************************************************************)
Run(p, files) == IF p = NoPath THEN {} ELSE {files[p.dir][p.file]} \cap Attempts

\* The run the client has seen, and the one it is about to see.
Known == {seen} \cup Run(path, disk)

Recent(p) == \A n \in Run(p, disk), m \in Known : m <= n

\* The files for which a sync that fails while it refreshes "latest" announces
\* the one in its run directory.
LateOwn == {"topology", "model", "snapshot", "report", "summary"}

NoFutureRun == \A d \in Dirs, f \in Files : disk[d][f] \in Attempts => disk[d][f] <= attempt

\* Paths in use lead to "latest" or to run directories no sync writes into.
PathInUse(p) ==
    /\ p # NoPath => p.file \in Files
    /\ p.dir <= started
    /\ pc # "idle" => p.dir # started
    /\ watched \notin LateOwn => p \in {NoPath, LatestPath(watched)}

PathsInUse ==
    /\ PathInUse(path)
    /\ PathInUse(store.paths[watched])
    /\ PathInUse(previous.paths[watched])
    /\ pc # "idle" => store.paths[watched] = NoPath
    /\ pc = "idle" => previous.paths[watched] = NoPath

\* A failure while "latest" is refreshed does not fall back on the status before
\* for the files of LateOwn: only then may that status be out of date.
NothingGoesBack ==
    /\ \A n \in Run(path, disk) : seen <= n
    /\ Recent(store.paths[watched])
    /\ (pc = "refresh" /\ watched \in LateOwn) \/ Recent(previous.paths[watched])

ReaderInv ==
    /\ IInv
    /\ ReaderTypeOK
    /\ NoFutureRun
    /\ seen <= attempt
    /\ PathsInUse
    /\ NothingGoesBack

LEMMA ReaderTypes ==
    ASSUME ReaderTypeOK
    PROVE  /\ store.paths[watched] \in Paths
           /\ previous.paths[watched] \in Paths
           /\ path.dir \in Dirs
           /\ store.paths[watched].dir \in Dirs
           /\ previous.paths[watched].dir \in Dirs
           /\ Dirs \subseteq Nat /\ Attempts \subseteq Nat /\ attempt \in Nat /\ seen \in Nat
  <1>1. watched \in Fields
    BY DEF ReaderTypeOK, Fields
  <1>2. store.paths[watched] \in Paths /\ previous.paths[watched] \in Paths
    BY <1>1 DEF ReaderTypeOK, TypeOK, Statuses
  <1>3. \A p \in Paths : p.dir \in Dirs
    BY DEF Paths
  <1>4. Dirs \subseteq Nat /\ Attempts \subseteq Nat /\ attempt \in Nat /\ seen \in Nat
    BY BoundsAssumption DEF Dirs, Seconds, Latest, Attempts, ReaderTypeOK, TypeOK
  <1> QED
    BY <1>2, <1>3, <1>4 DEF ReaderTypeOK

\* A step of the service is a step of the pipeline, or leaves it alone.
LEMMA ReaderStepIsStep == [ReaderNext]_allVars => [Next]_vars
  BY DEF ReaderNext, allVars, RestartServer, PickPath, ReadFile, Next

LEMMA ReaderTypeInit == ReaderInit => ReaderTypeOK
  BY TypeInit, NoStatusType DEF ReaderInit, ReaderTypeOK

LEMMA ReaderTypeStep ==
    ASSUME ReaderTypeOK, [ReaderNext]_allVars
    PROVE  ReaderTypeOK'
  <1>1. TypeOK'
    BY TypeStep, ReaderStepIsStep DEF ReaderTypeOK
  <1>2. CASE UNCHANGED readerVars
    BY <1>1, <1>2 DEF ReaderTypeOK, readerVars
  <1>3. CASE RestartServer
    BY <1>1, <1>3, NoStatusType DEF RestartServer, ReaderTypeOK
  <1>4. CASE PickPath
    BY <1>1, <1>4, ReaderTypes DEF PickPath, ReaderTypeOK
  <1>5. CASE ReadFile
    BY <1>1, <1>5, NoStatusType DEF ReadFile, ReaderTypeOK
  <1> QED
    BY <1>2, <1>3, <1>4, <1>5 DEF ReaderNext, allVars

\* The client and its handler are well formed next to the pipeline.
THEOREM ReaderTypeCorrect == ReaderSpec => []ReaderTypeOK
  BY ReaderTypeInit, ReaderTypeStep, PTL DEF ReaderSpec

\* What is left behind in the run directory by a sync that is given up is torn
\* or its own, and what its earlier stages wrote is untouched.
LEMMA LeftoversOfRun ==
    ASSUME IInv, NoFutureRun, WriteLeftovers(pc)
    PROVE  /\ \A d \in Dirs : d # started => disk'[d] = disk[d]
           /\ \A f \in Written(pc) : disk'[started][f] = disk[started][f]
           /\ \A d \in Dirs, f \in Files : disk'[d][f] \in Attempts => disk'[d][f] <= attempt
  <1>1. PICK torn \in SUBSET Writes(pc), whole \in SUBSET Writes(pc) : WriteRun(torn, whole)
    BY Zenon DEF WriteLeftovers
  <1>2. torn \in SUBSET Files /\ whole \in SUBSET Files
    BY WritesAreFiles
  <1>3. /\ \A d \in Dirs : d # started => disk'[d] = disk[d]
        /\ disk'[started] = [f \in Files |->
                               IF f \in torn THEN Torn
                               ELSE IF f \in whole THEN Output(f)
                               ELSE disk[started][f]]
    BY <1>1, <1>2, WriteRunShape DEF IInv
  <1>4. \A f \in Written(pc) : f \in Files /\ f \notin Writes(pc)
    <2>1. pc \in DOMAIN Rank
      BY DEF IInv, TypeOK
    <2>2. Rank[pc] \in Nat
      BY <2>1, StageNames, Ranks
    <2> QED
      BY <2>2 DEF Written, Writes
  <1>5. \A f \in whole : Output(f) \in {0, attempt}
    BY OutputOfRun, IdleWritesNothing DEF IInv
  <1>6. Torn \notin Attempts /\ 0 \notin Attempts /\ attempt <= attempt
    BY TornAssumption, BoundsAssumption DEF Attempts, IInv, TypeOK
  <1>7. \A f \in Files : disk'[started][f] \in Attempts => disk'[started][f] <= attempt
    <2>1. started \in Dirs
      BY DEF IInv, TypeOK
    <2>2. \A f \in Files : disk[started][f] \in Attempts => disk[started][f] <= attempt
      BY <2>1 DEF NoFutureRun
    <2> QED
      BY <1>3, <1>5, <1>6, <2>2
  <1> QED
    BY <1>3, <1>4, <1>7 DEF NoFutureRun

\* Stages that write nothing, or only into the run directory, leave every run
\* a path in use leads to as it is.
LEMMA RunDirIsNotInUse ==
    ASSUME ReaderInv, NEW p, PathInUse(p), p.dir \in Dirs, pc # "idle",
           \A d \in Dirs : d # started => disk'[d] = disk[d]
    PROVE  Run(p, disk') = Run(p, disk)
  BY DEF PathInUse, Run

LEMMA ReaderInvInit == ReaderInit => ReaderInv
  <1> SUFFICES ASSUME ReaderInit PROVE ReaderInv
    OBVIOUS
  <1>1. IInv /\ ReaderTypeOK
    BY IInvInit, ReaderTypeInit DEF ReaderInit
  <1>2. watched \in Fields
    BY DEF ReaderInit, Fields
  <1>3. /\ path = NoPath /\ store.paths[watched] = NoPath /\ previous.paths[watched] = NoPath
        /\ disk = [d \in Dirs |-> [f \in Files |-> 0]]
        /\ pc = "idle" /\ started = Latest /\ seen = 0 /\ attempt = 0
    BY <1>2 DEF ReaderInit, Init, NoStatus, NoPaths
  <1>4. NoFutureRun
    BY <1>3 DEF NoFutureRun, Attempts
  <1>5. PathsInUse
    BY <1>3 DEF PathsInUse, PathInUse, NoPath, Latest
  <1>6. NothingGoesBack
    BY <1>3 DEF NothingGoesBack, Recent, Run
  <1> QED
    BY <1>1, <1>3, <1>4, <1>5, <1>6 DEF ReaderInv

\* Within a sync, before "latest" is touched.
LEMMA ReaderInvInRun ==
    ASSUME ReaderInv, IInv', ReaderTypeOK', UNCHANGED readerVars,
           pc # "idle", pc # "refresh", pc' # "idle",
           UNCHANGED <<attempt, started, store, previous>>,
           \A d \in Dirs : d # started => disk'[d] = disk[d],
           \A f \in Files : disk'[started][f] \in Attempts => disk'[started][f] <= attempt
    PROVE  ReaderInv'
  <1>1. NoFutureRun'
    BY DEF ReaderInv, NoFutureRun
  <1>2. PathsInUse'
    BY DEF ReaderInv, PathsInUse, PathInUse, readerVars, LatestPath
  <1>3. /\ Run(path, disk') = Run(path, disk)
        /\ Run(store.paths[watched], disk') = Run(store.paths[watched], disk)
        /\ Run(previous.paths[watched], disk') = Run(previous.paths[watched], disk)
    BY RunDirIsNotInUse, ReaderTypes DEF ReaderInv, PathsInUse
  <1>4. Recent(store.paths[watched])' /\ Recent(previous.paths[watched])'
    BY <1>3 DEF ReaderInv, NothingGoesBack, Recent, Known, readerVars
  <1>5. NothingGoesBack'
    BY <1>3, <1>4 DEF ReaderInv, NothingGoesBack, readerVars
  <1> QED
    BY <1>1, <1>2, <1>5 DEF ReaderInv, readerVars

\* The refresh of "latest": what a path leads to is replaced by the running sync's.
LEMMA ReaderInvRefresh ==
    ASSUME ReaderInv, IInv', ReaderTypeOK', UNCHANGED readerVars,
           (\E f \in Files : CopyOpen(f)) \/ CopyWrite
    PROVE  ReaderInv'
  <1>1. /\ pc = "refresh" /\ pc' = pc /\ started # Latest /\ Latest \in Dirs
        /\ UNCHANGED <<attempt, started, store, previous, watched, path, seen>>
    BY SecondsAreNotLatest
       DEF CopyOpen, CopyWrite, readerVars, ReaderInv, IInv, TypeOK, Dirs
  <1>2. \A d \in Dirs, f \in Files :
          \/ disk'[d][f] = disk[d][f]
          \/ disk'[d][f] = Torn
          \/ disk'[d][f] = attempt
    <2>1. ASSUME NEW g \in Files, CopyOpen(g)
          PROVE  \A d \in Dirs, f \in Files : disk'[d][f] \in {disk[d][f], Torn}
      BY <2>1 DEF CopyOpen, ReaderInv, IInv, TypeOK
    <2>2. ASSUME CopyWrite
          PROVE  \A d \in Dirs, f \in Files : disk'[d][f] \in {disk[d][f], attempt}
      BY <2>2 DEF CopyWrite, ReaderInv, IInv, TypeOK, RefreshedIsOneRun
    <2> QED
      BY <2>1, <2>2
  <1>3. Torn \notin Attempts
    BY TornAssumption, BoundsAssumption DEF Attempts
  <1>4. NoFutureRun'
    BY <1>1, <1>2, <1>3, ReaderTypes DEF ReaderInv, NoFutureRun
  <1>5. PathsInUse'
    BY <1>1 DEF ReaderInv, PathsInUse, PathInUse, LatestPath
  <1>6. \A p : PathInUse(p) /\ p.dir \in Dirs => Run(p, disk') \subseteq Run(p, disk) \cup {attempt}
    BY <1>2, <1>3 DEF PathInUse, Run
  <1>7. store.paths[watched] = NoPath /\ PathInUse(path) /\ PathInUse(previous.paths[watched])
    BY <1>1 DEF ReaderInv, PathsInUse
  <1>8. \A n \in Run(path, disk') : seen <= n
    BY <1>6, <1>7, ReaderTypes DEF ReaderInv, NothingGoesBack
  <1>9. Recent(store.paths[watched])'
    BY <1>1, <1>7 DEF Recent, Run
  <1>10. ASSUME watched \notin LateOwn PROVE Recent(previous.paths[watched])'
    <2>1. \A n \in Run(previous.paths[watched], disk') : seen <= n
      BY <1>1, <1>6, <1>7, <1>10, ReaderTypes DEF ReaderInv, NothingGoesBack, Recent, Known
    <2>2. \A n \in Run(previous.paths[watched], disk'), m \in Run(path, disk') : m <= n
      <3>1. \A p, q : p = q => Run(p, disk') = Run(q, disk')
        OBVIOUS
      <3>2. Run(path, disk') = {} \/ Run(previous.paths[watched], disk') = {}
            \/ path = previous.paths[watched]
        BY <1>7, <1>10 DEF PathInUse, Run
      <3>3. \A n, m \in Run(path, disk') : n = m /\ n \in Nat
        BY ReaderTypes DEF Run, ReaderInv
      <3> QED
        BY <3>1, <3>2, <3>3
    <2> QED
      BY <1>1, <2>1, <2>2 DEF Recent, Known
  <1>11. NothingGoesBack'
    BY <1>1, <1>8, <1>9, <1>10 DEF NothingGoesBack
  <1> QED
    BY <1>1, <1>4, <1>5, <1>11 DEF ReaderInv

\* The end of a sync: the paths it publishes lead to its own run, or it falls
\* back on the status before.
LEMMA ReaderInvPublish ==
    ASSUME ReaderInv, IInv', ReaderTypeOK', UNCHANGED readerVars, Publish
    PROVE  ReaderInv'
  <1>1. /\ pc = "refresh" /\ pc' = "idle" /\ started \in Nat /\ Latest <= started
        /\ UNCHANGED <<attempt, started, disk, watched, path, seen>>
        /\ store' = OkStatus /\ previous' = NoStatus /\ watched \in Fields
    BY BoundsAssumption DEF Publish, Return, readerVars, ReaderInv, IInv, TypeOK,
       ReaderTypeOK, Fields, Dirs, Latest, Seconds
  <1>2. store'.paths[watched] = LatestPath(watched) /\ previous'.paths[watched] = NoPath
    BY <1>1 DEF OkStatus, NoStatus, NoPaths
  <1>3. LatestPath(watched).dir = Latest /\ LatestPath(watched).file = watched
    BY DEF LatestPath
  <1>4. NoFutureRun'
    BY <1>1 DEF ReaderInv, NoFutureRun
  <1>5. PathsInUse'
    BY <1>1, <1>2, <1>3 DEF ReaderInv, PathsInUse, PathInUse, NoPath, ReaderTypeOK, LatestPath
  <1>6. Run(store'.paths[watched], disk') \subseteq {attempt}
    <2>1. disk[Latest][watched] = attempt
      BY <1>1 DEF Publish, ReaderInv, IInv, RefreshedIsOneRun, ReaderTypeOK
    <2> QED
      BY <1>1, <1>2, <1>3, <2>1 DEF Run
  <1>7. \A m \in Known : m <= attempt
    BY DEF Known, Run, ReaderInv, NoFutureRun, PathsInUse, PathInUse, ReaderTypeOK, Paths
  <1>8. NothingGoesBack'
    BY <1>1, <1>2, <1>6, <1>7 DEF ReaderInv, NothingGoesBack, Recent, Known, Run
  <1> QED
    BY <1>1, <1>4, <1>5, <1>8 DEF ReaderInv

LEMMA ReaderInvFail ==
    ASSUME ReaderInv, IInv', ReaderTypeOK', UNCHANGED readerVars, Fail
    PROVE  ReaderInv'
  <1>1. /\ pc # "idle" /\ pc' = "idle" /\ started \in Seconds /\ started \in Nat
        /\ UNCHANGED <<attempt, started, watched, path, seen>>
        /\ WriteLeftovers(pc)
        /\ store' = FailedStatus(pc) /\ previous' = NoStatus
        /\ watched \in Files /\ watched \in Fields
    BY BoundsAssumption DEF Fail, Return, readerVars, ReaderInv, IInv, TypeOK,
       ReaderTypeOK, Fields, Seconds
  <1>2. /\ \A d \in Dirs : d # started => disk'[d] = disk[d]
        /\ \A f \in Written(pc) : disk'[started][f] = disk[started][f]
        /\ NoFutureRun'
    BY <1>1, LeftoversOfRun DEF ReaderInv, NoFutureRun
  <1>3. /\ Run(path, disk') = Run(path, disk)
        /\ Run(previous.paths[watched], disk') = Run(previous.paths[watched], disk)
    BY <1>1, <1>2, RunDirIsNotInUse, ReaderTypes DEF ReaderInv, PathsInUse
  <1>4. \A m \in Known : m <= attempt
    BY DEF Known, Run, ReaderInv, NoFutureRun, PathsInUse, PathInUse, ReaderTypeOK, Paths
  <1>5. store'.paths[watched] =
           IF watched \in OwnFields(pc) THEN [dir |-> started, file |-> OwnFile[watched]]
           ELSE IF previous.report = 0 THEN NoPath
           ELSE previous.paths[watched]
    BY <1>1, FailedPaths DEF ReaderInv, IInv
  <1>6. previous'.paths[watched] = NoPath
    BY <1>1 DEF NoStatus, NoPaths
  <1>7. watched \in OwnFields(pc) => watched \in LateOwn
    <2>1. watched # "runDir"
      BY <1>1, FilesAssumption DEF AllFiles
    <2> QED
      BY <2>1 DEF OwnFields, LateOwn
  <1>8. PathInUse(store.paths[watched])' /\ Recent(store.paths[watched])'
    <2>1. CASE watched \in OwnFields(pc)
      <3>1. /\ store'.paths[watched].dir = started
            /\ store'.paths[watched].file = OwnFile[watched]
        BY <2>1, <1>5
      <3>2. OwnFile[watched] \in Written(pc) /\ OwnFile[watched] \in Files
        BY <1>1, <2>1, OwnIsWritten DEF ReaderInv, IInv, Written
      <3>3. disk'[started][OwnFile[watched]] \in {0, attempt}
        BY <1>1, <1>2, <3>2 DEF ReaderInv, IInv, RunDirIsOneRun
      <3>4. Run(store'.paths[watched], disk') \subseteq {attempt}
        BY <3>1, <3>3 DEF Run, Attempts
      <3>5. Recent(store.paths[watched])'
        BY <1>1, <1>3, <1>4, <3>4 DEF Recent, Known
      <3> QED
        BY <1>1, <1>7, <2>1, <3>1, <3>2, <3>5 DEF PathInUse
    <2>2. CASE watched \notin OwnFields(pc) /\ previous.report # 0
      <3>1. store'.paths[watched] = previous.paths[watched]
        BY <1>5, <2>2
      <3>2. Recent(previous.paths[watched])
        BY <2>2, <1>1, FilesAssumption
           DEF ReaderInv, NothingGoesBack, OwnFields, LateOwn
      <3>3. Recent(store.paths[watched])'
        BY <1>1, <1>3, <3>1, <3>2 DEF Recent, Known
      <3> QED
        BY <1>1, <3>1, <3>3 DEF PathInUse, ReaderInv, PathsInUse, LatestPath
    <2>3. CASE watched \notin OwnFields(pc) /\ previous.report = 0
      <3>1. store'.paths[watched] = NoPath
        BY <1>5, <2>3
      <3> QED
        BY <1>1, <3>1 DEF PathInUse, Recent, Run, NoPath, Latest
    <2> QED
      BY <2>1, <2>2, <2>3
  <1>9. PathsInUse'
    <2>1. PathInUse(path)'
      BY <1>1 DEF ReaderInv, PathsInUse, PathInUse, LatestPath
    <2>2. PathInUse(previous.paths[watched])'
      BY <1>1, <1>6 DEF PathInUse, NoPath, Latest
    <2> QED
      BY <1>1, <1>6, <1>8, <2>1, <2>2 DEF PathsInUse
  <1>10. NothingGoesBack'
    <2>1. Recent(previous.paths[watched])'
      BY <1>1, <1>6 DEF Recent, Run
    <2> QED
      BY <1>1, <1>3, <1>8, <2>1 DEF ReaderInv, NothingGoesBack
  <1> QED
    BY <1>1, <1>2, <1>9, <1>10 DEF ReaderInv

\* The pipeline's steps.
LEMMA ReaderInvSync ==
    ASSUME DistinctSeconds, ReaderInv, SyncStep, UNCHANGED readerVars
    PROVE  ReaderInv'
  <1>1. IInv' /\ ReaderTypeOK'
    BY IInvStep, ReaderTypeStep DEF ReaderInv, Reliable, Next, ReaderNext
  <1>2. CASE Begin
    <2>1. /\ pc = "idle" /\ pc' = "resolve" /\ disk' = disk
          /\ started' \in Seconds /\ started' > started /\ started' \in Nat
          /\ attempt' = attempt + 1 /\ UNCHANGED <<watched, path, seen>>
          /\ previous' = store /\ store'.paths = NoPaths /\ watched \in Fields
      BY <1>2, BoundsAssumption DEF Begin, readerVars, ReaderInv, ReaderTypeOK, Fields, Seconds
    <2>2. store'.paths[watched] = NoPath
      BY <2>1 DEF NoPaths
    <2>3. \A m \in Nat : m <= attempt => m <= attempt'
      BY <2>1, ReaderTypes DEF ReaderInv
    <2>4. NoFutureRun'
      BY <2>1, <2>3, ReaderTypes DEF ReaderInv, NoFutureRun
    <2>5. \A d \in Dirs : d <= started => d <= started' /\ d # started'
      BY <2>1, ReaderTypes DEF ReaderInv, ReaderTypeOK, TypeOK
    <2>6. PathInUse(path)' /\ PathInUse(previous.paths[watched])'
      BY <2>1, <2>5, ReaderTypes DEF ReaderInv, PathsInUse, PathInUse, LatestPath
    <2>7. PathsInUse'
      BY <2>1, <2>2, <2>6 DEF PathsInUse, PathInUse, NoPath, Latest, Seconds
    <2>8. NothingGoesBack'
      BY <2>1, <2>2 DEF ReaderInv, NothingGoesBack, Recent, Known, Run
    <2> QED
      BY <1>1, <2>1, <2>3, <2>4, <2>7, <2>8, ReaderTypes DEF ReaderInv
  <1>3. CASE Expire
    BY <1>1, <1>3 DEF Expire, ReaderInv, NoFutureRun, PathsInUse, PathInUse, NothingGoesBack,
                      Recent, Known, Run, readerVars, LatestPath
  <1>4. CASE Resolve \/ Capture \/ MakeRunDir \/ Build \/ Load
    <2>1. /\ pc # "idle" /\ pc # "refresh" /\ pc' # "idle"
          /\ UNCHANGED <<attempt, started, store, previous, disk>>
      BY <1>4 DEF Resolve, Capture, MakeRunDir, Build, Load, Proceed
    <2>2. started \in Dirs
      BY DEF ReaderInv, ReaderTypeOK, TypeOK
    <2> QED
      BY <1>1, <2>1, <2>2, ReaderInvInRun DEF ReaderInv, NoFutureRun
  <1>5. CASE \/ WriteActivity \/ WriteTopology \/ RunBering \/ RunSheaft
             \/ SaveEffective \/ WriteSummary
    <2>1. /\ pc # "idle" /\ pc # "refresh" /\ pc' # "idle" /\ WriteOutputs(pc)
          /\ UNCHANGED <<attempt, started, store, previous>>
      BY <1>5 DEF WriteActivity, WriteTopology, RunBering, RunSheaft, SaveEffective,
                  WriteSummary, Produce, Proceed
    <2>2. \A f \in Files : disk'[started][f] \in {0, attempt}
      BY <2>1, OutputsOfRun DEF ReaderInv, IInv, Reliable
    <2>3. \A f \in Files : disk'[started][f] \in Attempts => disk'[started][f] <= attempt
      BY <2>2, BoundsAssumption, ReaderTypes DEF ReaderInv, Attempts
    <2>4. \A d \in Dirs : d # started => disk'[d] = disk[d]
      <3>1. \E kept \in SUBSET Writes(pc) : WriteRun({}, Writes(pc) \ kept)
        BY <2>1 DEF WriteOutputs
      <3> QED
        BY <3>1, WriteRunShape, WritesAreFiles DEF ReaderInv, IInv
    <2> QED
      BY <1>1, <2>1, <2>3, <2>4, ReaderInvInRun
  <1> QED
    BY <1>1, <1>2, <1>3, <1>4, <1>5, ReaderInvRefresh, ReaderInvPublish, ReaderInvFail
       DEF SyncStep, Advance

LEMMA ReaderInvStep ==
    ASSUME DistinctSeconds, ReaderInv, [ReaderNext]_allVars
    PROVE  ReaderInv'
  <1>1. IInv' /\ ReaderTypeOK'
    BY IInvStep, ReaderTypeStep, ReaderStepIsStep DEF ReaderInv, Reliable
  <1>2. CASE SyncStep /\ UNCHANGED readerVars
    BY <1>2, ReaderInvSync
  <1>3. CASE RestartServer
    <2>1. /\ pc' = "idle" /\ path' = NoPath /\ store' = NoStatus /\ previous' = NoStatus
          /\ UNCHANGED <<attempt, started, watched, seen>> /\ WriteLeftovers(pc)
          /\ watched \in Fields /\ started \in Nat
      BY <1>3, ReaderTypes
         DEF RestartServer, Restart, Return, ReaderInv, ReaderTypeOK, TypeOK, Fields
    <2>2. store'.paths[watched] = NoPath /\ previous'.paths[watched] = NoPath
      BY <2>1 DEF NoStatus, NoPaths
    <2>3. NoFutureRun'
      BY <2>1, LeftoversOfRun DEF ReaderInv, NoFutureRun
    <2>4. PathsInUse'
      BY <2>1, <2>2 DEF PathsInUse, PathInUse, NoPath, Latest
    <2>5. NothingGoesBack'
      BY <2>1, <2>2 DEF NothingGoesBack, Recent, Run
    <2> QED
      BY <1>1, <2>1, <2>3, <2>4, <2>5 DEF ReaderInv
  <1>4. CASE PickPath
    <2>1. /\ path' = store.paths[watched] /\ store.paths[watched] # NoPath /\ path = NoPath
          /\ UNCHANGED <<vars, watched, seen>>
      BY <1>4 DEF PickPath
    <2>2. UNCHANGED <<pc, attempt, started, previous, store, disk>> /\ pc = "idle"
      BY <2>1 DEF vars, ReaderInv, PathsInUse
    <2>3. previous.paths[watched] = NoPath
      BY <2>2 DEF ReaderInv, PathsInUse
    <2>4. NoFutureRun'
      BY <2>2 DEF ReaderInv, NoFutureRun
    <2>5. PathsInUse'
      BY <2>1, <2>2 DEF ReaderInv, PathsInUse, PathInUse, LatestPath
    <2>6. NothingGoesBack'
      <3>1. Recent(store.paths[watched])'
        <4>1. \A n, m \in Run(store.paths[watched], disk) : n = m /\ n \in Nat
          BY ReaderTypes DEF ReaderInv, Run
        <4> QED
          BY <2>1, <2>2, <4>1 DEF ReaderInv, NothingGoesBack, Recent, Known
      <3>2. \A n \in Run(store.paths[watched], disk) : seen <= n
        BY DEF ReaderInv, NothingGoesBack, Recent, Known
      <3> QED
        BY <2>1, <2>2, <2>3, <3>1, <3>2 DEF NothingGoesBack, Recent, Run
    <2> QED
      BY <1>1, <2>1, <2>2, <2>4, <2>5, <2>6 DEF ReaderInv
  <1>5. CASE ReadFile
    <2>1. /\ path # NoPath /\ path' = NoPath
          /\ UNCHANGED <<pc, attempt, started, previous, store, disk, watched>>
          /\ seen' \in Known
      BY <1>5 DEF ReadFile, vars, Known, Run, Contents
    <2>2. NoFutureRun'
      BY <2>1 DEF ReaderInv, NoFutureRun
    <2>3. PathsInUse'
      BY <2>1, ReaderTypes
         DEF ReaderInv, PathsInUse, PathInUse, NoPath, Latest, LatestPath, Dirs, Seconds,
             ReaderTypeOK, TypeOK
    <2>4. NothingGoesBack'
      BY <2>1 DEF ReaderInv, NothingGoesBack, Recent, Known, Run
    <2>5. \A m \in Known : m <= attempt
      BY DEF Known, Run, ReaderInv, NoFutureRun, PathsInUse, PathInUse, ReaderTypeOK, Paths
    <2> QED
      BY <1>1, <2>1, <2>2, <2>3, <2>4, <2>5 DEF ReaderInv
  <1>6. CASE UNCHANGED allVars
    BY <1>1, <1>6 DEF allVars, vars, readerVars, ReaderInv, NoFutureRun, PathsInUse, PathInUse,
                      NothingGoesBack, Recent, Known, Run, LatestPath
  <1> QED
    BY <1>2, <1>3, <1>4, <1>5, <1>6 DEF ReaderNext

\* Where run directories are not shared, a client never goes back: what it is
\* served, if whole, is of a run at least as recent as what it was served before,
\* whichever failures, refreshes and restarts come between and during requests.
THEOREM ReadsAreMonotonic == ASSUME DistinctSeconds PROVE ReaderSpec => MonotonicReads
  <1>1. ReaderInv /\ [ReaderNext]_allVars => [seen' >= seen]_seen
    <2> SUFFICES ASSUME ReaderInv, [ReaderNext]_allVars, seen' # seen PROVE seen' >= seen
      BY DEF ReaderInv
    <2>1. ReadFile
      BY DEF ReaderNext, allVars, readerVars, RestartServer, PickPath
    <2>2. seen' \in Run(path, disk)
      BY <2>1 DEF ReadFile, Run, Contents
    <2> QED
      BY <2>2, ReaderTypes DEF ReaderInv, NothingGoesBack, Run
  <1>2. ReaderInv /\ [ReaderNext]_allVars => ReaderInv'
    BY ReaderInvStep
  <1> QED
    BY <1>1, <1>2, ReaderInvInit, PTL DEF ReaderSpec, MonotonicReads
=============================================================================
