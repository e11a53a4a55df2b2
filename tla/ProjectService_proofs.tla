------------------------ MODULE ProjectService_proofs ------------------------
(***************************************************************************)
(* For every interval, every choice of artifacts and any number of syncs:  *)
(* what is proved of a part in a module of its own holds of it in the      *)
(* service, and what the store shows follows what the loop does.           *)
(***************************************************************************)
EXTENDS ProjectService, Sequences, TLAPS

-----------------------------------------------------------------------------
(***************************************************************************)
(* Every step of the service is a step of the loop or leaves it alone, and *)
(* the same of the pipeline.                                               *)
(***************************************************************************)
LEMMA LoopStep == [Next]_vars => [Loop!Next]_loopVars
  <1> SUFFICES ASSUME [Next]_vars PROVE [Loop!Next]_loopVars
    OBVIOUS
  <1> USE DEF Loop!Next
  <1>1. CASE StartSync
    BY <1>1 DEF StartSync
  <1>2. CASE EndSync
    BY <1>2 DEF EndSync
  <1>3. CASE InSync
    BY <1>3 DEF InSync
  <1>4. CASE Server
    BY <1>4 DEF Server
  <1>5. CASE Exit
    BY <1>5 DEF Exit
  <1>6. CASE UNCHANGED vars
    BY <1>6 DEF vars
  <1> QED
    BY <1>1, <1>2, <1>3, <1>4, <1>5, <1>6 DEF Next

LEMMA SyncStep == [Next]_vars => [Sync!Next]_syncVars
  <1> SUFFICES ASSUME [Next]_vars PROVE [Sync!Next]_syncVars
    OBVIOUS
  <1> USE DEF Sync!Next, Sync!SyncStep
  <1>1. CASE StartSync
    BY <1>1 DEF StartSync
  <1>2. CASE EndSync
    BY <1>2 DEF EndSync, Sync!Advance
  <1>3. CASE InSync
    BY <1>3 DEF InSync
  <1>4. CASE Server
    BY <1>4 DEF Server
  <1>5. CASE Exit
    BY <1>5 DEF Exit
  <1>6. CASE UNCHANGED vars
    BY <1>6 DEF vars
  <1> QED
    BY <1>1, <1>2, <1>3, <1>4, <1>5, <1>6 DEF Next

-----------------------------------------------------------------------------
(***************************************************************************)
(* What is proved of the parts.  L and S are the parts again, with their   *)
(* proofs: the same definitions under other names, and no client reading.  *)
(***************************************************************************)
L == INSTANCE ProjectLoop_proofs
S == INSTANCE SyncProject_proofs WITH watched <- "rawReport", path <- Sync!NoPath, seen <- 0

LEMMA SameLoop ==
    /\ L!Init <=> Loop!Init
    /\ [L!Next]_(L!vars) <=> [Loop!Next]_loopVars
    /\ L!TypeOK <=> Loop!TypeOK
    /\ L!DroppedTriggerIsCovered <=> Loop!DroppedTriggerIsCovered
  BY DEF L!HandlerReasons, L!Reasons, L!vars, loopVars, L!Capacity, L!Init, L!Trigger,
         L!StartupTrigger, L!Request, L!Cancel, L!Exit, L!Boot, L!Tick, L!SelectTick,
         L!SelectTrigger, L!SelectDone, L!SyncReturns, L!Next, L!TypeOK,
         L!DroppedTriggerIsCovered, Loop!HandlerReasons, Loop!Reasons, Loop!vars,
         Loop!Capacity, Loop!Init, Loop!Trigger, Loop!StartupTrigger, Loop!Request,
         Loop!Cancel, Loop!Exit, Loop!Boot, Loop!Tick, Loop!SelectTick,
         Loop!SelectTrigger, Loop!SelectDone, Loop!SyncReturns, Loop!Next, Loop!TypeOK,
         Loop!DroppedTriggerIsCovered

LEMMA SameSync ==
    /\ S!Init <=> Sync!Init
    /\ [S!Next]_(S!vars) <=> [Sync!Next]_syncVars
    /\ S!TypeOK <=> Sync!TypeOK
    /\ S!OkServesOneRun <=> Sync!OkServesOneRun
    /\ S!StoreFollowsSync <=> Sync!StoreFollowsSync
  BY DEF S!AllFiles, S!vars, syncVars, S!Latest, S!Seconds, S!Dirs, S!Attempts,
         S!Content, S!Fields, S!NoPath, S!Paths, S!NoPaths, S!Statuses, S!NoStatus,
         S!Rank, S!External, S!WrittenBy, S!Writes, S!Written, S!OwnFields, S!OwnFile,
         S!OwnPath, S!RestorePrevious, S!FailedStatus, S!LatestPath, S!OkStatus,
         S!Output, S!InputReady, S!WriteRun, S!WriteOutputs, S!WriteLeftovers, S!Init,
         S!Begin, S!Expire, S!Proceed, S!Resolve, S!Capture, S!MakeRunDir, S!Build,
         S!Produce, S!WriteActivity, S!WriteTopology, S!RunBering, S!RunSheaft, S!Load,
         S!SaveEffective, S!WriteSummary, S!CopyOpen, S!CopyWrite, S!Return, S!Publish,
         S!Fail, S!Restart, S!Advance, S!SyncStep, S!Next, S!TypeOK, Sync!AllFiles,
         Sync!vars, Sync!Latest, Sync!Seconds, Sync!Dirs, Sync!Attempts, Sync!Content,
         Sync!Fields, Sync!NoPath, Sync!Paths, Sync!NoPaths, Sync!Statuses,
         Sync!NoStatus, Sync!Rank, Sync!External, Sync!WrittenBy, Sync!Writes,
         Sync!Written, Sync!OwnFields, Sync!OwnFile, Sync!OwnPath, Sync!RestorePrevious,
         Sync!FailedStatus, Sync!LatestPath, Sync!OkStatus, Sync!Output,
         Sync!InputReady, Sync!WriteRun, Sync!WriteOutputs, Sync!WriteLeftovers,
         Sync!Init, Sync!Begin, Sync!Expire, Sync!Proceed, Sync!Resolve, Sync!Capture,
         Sync!MakeRunDir, Sync!Build, Sync!Produce, Sync!WriteActivity,
         Sync!WriteTopology, Sync!RunBering, Sync!RunSheaft, Sync!Load,
         Sync!SaveEffective, Sync!WriteSummary, Sync!CopyOpen, Sync!CopyWrite,
         Sync!Return, Sync!Publish, Sync!Fail, Sync!Restart, Sync!Advance,
         Sync!SyncStep, Sync!Next, Sync!TypeOK, S!OkServesOneRun, Sync!OkServesOneRun,
         S!Contents, Sync!Contents, S!StoreFollowsSync, Sync!StoreFollowsSync

LEMMA PartSpecs == Spec => L!Spec /\ S!Spec
  <1>1. Init => L!Init /\ S!Init
    BY SameLoop, SameSync DEF Init
  <1>2. [Next]_vars => [L!Next]_(L!vars) /\ [S!Next]_(S!vars)
    BY LoopStep, SyncStep, SameLoop, SameSync
  <1> QED
    BY <1>1, <1>2, PTL DEF Spec, L!Spec, S!Spec

LEMMA LoopTyped == Spec => []Loop!TypeOK
  <1>1. L!Spec => []L!TypeOK
    BY L!LoopTypeCorrect, ServiceAssumption DEF Loop!IntervalAssumption
  <1>2. L!TypeOK => Loop!TypeOK
    BY SameLoop
  <1> QED
    BY <1>1, <1>2, PartSpecs, PTL

LEMMA SyncTyped == Spec => []Sync!TypeOK
  <1>1. S!Spec => []S!TypeOK
    BY S!TypeCorrect, ServiceAssumption
    DEF Sync!BoundsAssumption, Sync!FilesAssumption, Sync!TornAssumption,
        Sync!EnvironmentAssumption, S!AllFiles, Sync!AllFiles
  <1>2. S!TypeOK => Sync!TypeOK
    BY SameSync
  <1> QED
    BY <1>1, <1>2, PartSpecs, PTL

-----------------------------------------------------------------------------
(***************************************************************************)
(* The coupling of the parts: the pipeline runs exactly while the loop     *)
(* waits for it.  It needs that a server that is down has no loop, for     *)
(* otherwise a new start would leave the pipeline running without one.     *)
(***************************************************************************)
Coupled ==
    /\ loop = "syncing" <=> pc # "idle"
    /\ server = "down" => loop = "stopped"

\* Within SyncProject a step begins in a stage, and the call goes on or returns.
LEMMA AdvanceRuns == Sync!Advance => pc # "idle"
  BY DEF Sync!Advance, Sync!Resolve, Sync!Capture, Sync!MakeRunDir, Sync!Build,
         Sync!WriteActivity, Sync!WriteTopology, Sync!RunBering, Sync!RunSheaft, Sync!Load,
         Sync!SaveEffective, Sync!WriteSummary, Sync!CopyOpen, Sync!CopyWrite, Sync!Publish,
         Sync!Produce, Sync!Proceed

LEMMA CoupledStep == Coupled /\ [Next]_vars => Coupled'
  <1> SUFFICES ASSUME Coupled, [Next]_vars PROVE Coupled'
    OBVIOUS
  <1> USE DEF Coupled
  <1>1. CASE StartSync
    BY <1>1 DEF StartSync, Loop!SelectTrigger, Sync!Begin
  <1>2. CASE EndSync
    BY <1>2 DEF EndSync, Loop!SyncReturns, Sync!Publish, Sync!Fail, Sync!Return
  <1>3. CASE InSync
    BY <1>3, AdvanceRuns DEF InSync, Sync!Expire, loopVars
  <1>4. CASE Server
    BY <1>4 DEF Server, syncVars, Loop!StartupTrigger, Loop!Request, Loop!Cancel, Loop!Tick,
                Loop!SelectTick, Loop!SelectDone, Loop!Boot
  <1>5. CASE Exit
    BY <1>5 DEF Exit, Loop!Exit, Sync!Restart, Sync!Return
  <1>6. CASE UNCHANGED vars
    BY <1>6 DEF vars, loopVars, syncVars
  <1> QED
    BY <1>1, <1>2, <1>3, <1>4, <1>5, <1>6 DEF Next

\* The types of both parts, and their coupling: SyncProject is never entered
\* while a sync of the project runs, and never runs without a loop that waits.
THEOREM ServiceTypeCorrect == Spec => []TypeOK
  <1>1. Init => Coupled
    BY DEF Init, Loop!Init, Sync!Init, Coupled
  <1>2. Loop!TypeOK /\ Sync!TypeOK /\ Coupled => TypeOK
    BY DEF TypeOK, Coupled
  <1> QED
    BY <1>1, <1>2, CoupledStep, LoopTyped, SyncTyped, PTL DEF Spec

\* In the running service no trigger is lost, and a status "ok" is about one run,
\* however the server's end cuts a sync off: each part meets in the other's
\* company what it promises alone.
THEOREM ServiceKeepsPromises ==
    ASSUME ToolsHonest \/ DistinctSeconds
    PROVE  Spec => [](Loop!DroppedTriggerIsCovered /\ Sync!OkServesOneRun)
  <1>1. L!Spec => []L!DroppedTriggerIsCovered
    BY L!NoTriggerIsLost, ServiceAssumption DEF Loop!IntervalAssumption
  <1>2. S!Spec => []S!OkServesOneRun
    BY S!OkIsOneRun, ServiceAssumption
    DEF Sync!BoundsAssumption, Sync!FilesAssumption, Sync!TornAssumption,
        Sync!EnvironmentAssumption, S!AllFiles, Sync!AllFiles, S!Reliable
  <1>3. /\ L!DroppedTriggerIsCovered => Loop!DroppedTriggerIsCovered
        /\ S!OkServesOneRun => Sync!OkServesOneRun
    BY SameLoop, SameSync
  <1> QED
    BY <1>1, <1>2, <1>3, PartSpecs, PTL

-----------------------------------------------------------------------------
(***************************************************************************)
(* The status follows the loop.                                            *)
(***************************************************************************)
\* A process that serves and has not shown a status yet has been asked for one.
Asked == server = "serving" /\ store.state = "none" => ch # <<>>

\* Within SyncProject, between its beginning and its end, the status stays.
LEMMA InSyncKeepsStore == InSync => store' = store
  BY DEF InSync, Sync!Expire, Sync!Advance, Sync!Resolve, Sync!Capture, Sync!MakeRunDir,
         Sync!Build, Sync!WriteActivity, Sync!WriteTopology, Sync!RunBering,
         Sync!RunSheaft, Sync!Load, Sync!SaveEffective, Sync!WriteSummary, Sync!CopyOpen,
         Sync!CopyWrite, Sync!Publish, Sync!Return, Sync!Produce, Sync!Proceed

\* A trigger leaves the channel with something in it.
LEMMA TriggerFills ==
    ASSUME Loop!TypeOK, NEW reason \in Loop!Reasons, Loop!Trigger(reason)
    PROVE  ch' # <<>>
  <1>1. ch \in Seq(Loop!Reasons) /\ Len(ch) \in Nat
    BY DEF Loop!TypeOK
  <1>2. CASE Len(ch) < 1
    <2>1. ch' = Append(ch, reason)
      BY <1>2 DEF Loop!Trigger, Loop!Capacity
    <2>2. Len(ch') = Len(ch) + 1
      BY <1>1, <2>1
    <2> QED
      BY <1>1, <2>2
  <1>3. CASE ~(Len(ch) < 1)
    BY <1>1, <1>3 DEF Loop!Trigger, Loop!Capacity
  <1> QED
    BY <1>2, <1>3

LEMMA AskedStep ==
    Loop!TypeOK /\ Coupled /\ Asked /\ [Next]_vars => Asked'
  <1> SUFFICES ASSUME Loop!TypeOK, Coupled, Asked, [Next]_vars PROVE Asked'
    OBVIOUS
  <1> USE DEF Asked
  <1>1. CASE StartSync
    BY <1>1 DEF StartSync, Sync!Begin
  <1>2. CASE EndSync
    <2>1. Sync!FailedStatus(pc).state = "error"
      BY DEF Sync!FailedStatus, Sync!RestorePrevious
    <2>2. store'.state \in {"ok", "error"}
      BY <1>2, <2>1 DEF EndSync, Sync!Publish, Sync!Fail, Sync!OkStatus
    <2> QED
      BY <2>2
  <1>3. CASE InSync
    BY <1>3, InSyncKeepsStore DEF InSync, loopVars
  <1>4. CASE Server
    <2>1. store' = store
      BY <1>4 DEF Server, syncVars
    <2>2. CASE Loop!StartupTrigger \/ (\E reason \in Loop!HandlerReasons : Loop!Request(reason))
               \/ Loop!SelectTick
      BY <2>2, TriggerFills DEF Loop!StartupTrigger, Loop!Request, Loop!SelectTick,
                                Loop!HandlerReasons, Loop!Reasons
    <2>3. CASE Loop!Cancel \/ Loop!Tick \/ Loop!SelectDone \/ Loop!Boot
      BY <2>1, <2>3 DEF Loop!Cancel, Loop!Tick, Loop!SelectDone, Loop!Boot
    <2> QED
      BY <1>4, <2>2, <2>3 DEF Server
  <1>5. CASE Exit
    BY <1>5 DEF Exit, Loop!Exit
  <1>6. CASE UNCHANGED vars
    BY <1>6 DEF vars, loopVars, syncVars
  <1> QED
    BY <1>1, <1>2, <1>3, <1>4, <1>5, <1>6 DEF Next

\* A process that is down has left no status.
Gone == server = "down" => store.state = "none"

LEMMA GoneStep == Coupled /\ Gone /\ [Next]_vars => Gone'
  <1> SUFFICES ASSUME Coupled, Gone, [Next]_vars PROVE Gone'
    OBVIOUS
  <1> USE DEF Gone, Coupled
  <1>1. CASE StartSync
    BY <1>1 DEF StartSync, Loop!SelectTrigger
  <1>2. CASE EndSync
    BY <1>2 DEF EndSync, Loop!SyncReturns
  <1>3. CASE InSync
    BY <1>3, InSyncKeepsStore DEF InSync, loopVars
  <1>4. CASE Server
    BY <1>4 DEF Server, syncVars, Loop!StartupTrigger, Loop!Request, Loop!Cancel, Loop!Tick,
                Loop!SelectTick, Loop!SelectDone, Loop!Boot
  <1>5. CASE Exit
    BY <1>5 DEF Exit, Sync!Restart, Sync!NoStatus
  <1>6. CASE UNCHANGED vars
    BY <1>6 DEF vars, loopVars, syncVars
  <1> QED
    BY <1>1, <1>2, <1>3, <1>4, <1>5, <1>6 DEF Next

\* What the store shows follows the loop: no "running" without a sync behind it,
\* no end of a sync but the latest, and no silence that is not about to end.
THEOREM StatusIsFollowing ==
    ASSUME ToolsHonest \/ DistinctSeconds
    PROVE  Spec => []StatusFollowsLoop
  <1>1. S!Spec => [](S!LatestStatus /\ S!StoreFollowsSync)
    BY S!StatusIsLatest, ServiceAssumption
    DEF Sync!BoundsAssumption, Sync!FilesAssumption, Sync!TornAssumption,
        Sync!EnvironmentAssumption, S!AllFiles, Sync!AllFiles, S!Reliable
  <1>2. Init => Coupled /\ Asked /\ Gone
    BY DEF Init, Loop!Init, Sync!Init, Coupled, Asked, Gone
  <1>3. S!LatestStatus /\ S!StoreFollowsSync /\ Coupled /\ Asked /\ Gone => StatusFollowsLoop
    BY SameSync DEF S!LatestStatus, Sync!StoreFollowsSync, Coupled, Asked, Gone,
                    StatusFollowsLoop
  <1> QED
    BY <1>1, <1>2, <1>3, PartSpecs, LoopTyped, CoupledStep, AskedStep, GoneStep, PTL DEF Spec
=============================================================================
