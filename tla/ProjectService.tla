--------------------------- MODULE ProjectService ---------------------------
(***************************************************************************)
(* One project of a running coroot-graft: the server's projectLoop and     *)
(* handlers (ProjectLoop) calling the sync pipeline (SyncProject).  The    *)
(* loop's "syncing" is the pipeline's run from Begin to Publish or Fail,   *)
(* and the end of the process cuts both off.                               *)
(***************************************************************************)
EXTENDS Naturals

CONSTANTS Interval, MaxSyncs, MaxSecond, Files, Torn, ToolsHonest, DistinctSeconds

VARIABLES server, cancelled, loop, ch, ticked, owed,
          pc, attempt, started, expired, previous, report, todo, copying, store, disk

loopVars == <<server, cancelled, loop, ch, ticked, owed>>
syncVars == <<pc, attempt, started, expired, previous, report, todo, copying, store, disk>>
vars == <<loopVars, syncVars>>

Loop == INSTANCE ProjectLoop
Sync == INSTANCE SyncProject

\* What the parts assume of their constants.
ASSUME ServiceAssumption ==
    /\ Loop!IntervalAssumption
    /\ Sync!BoundsAssumption
    /\ Sync!FilesAssumption
    /\ Sync!TornAssumption
    /\ Sync!EnvironmentAssumption

Init == Loop!Init /\ Sync!Init

\* The loop receives a reason and calls SyncProject.
StartSync == Loop!SelectTrigger /\ Sync!Begin

\* Faulty: SyncProject returns without a status when its context has ended.
EndSync_Silent ==
    /\ Loop!SyncReturns
    /\ IF expired THEN Sync!Return /\ UNCHANGED <<store, disk>> ELSE Sync!Publish \/ Sync!Fail

\* SyncProject returns and the loop goes back to its select.
EndSync == Loop!SyncReturns /\ (Sync!Publish \/ Sync!Fail)

\* A step within SyncProject.
InSync == (Sync!Expire \/ (Sync!Advance /\ pc' # "idle")) /\ UNCHANGED loopVars

\* Handlers, signals, timer and the other cases of the loop's select.
Server ==
    /\ \/ Loop!StartupTrigger
       \/ \E reason \in Loop!HandlerReasons : Loop!Request(reason)
       \/ Loop!Cancel
       \/ Loop!Tick
       \/ Loop!SelectTick
       \/ Loop!SelectDone
       \/ Loop!Boot
    /\ UNCHANGED syncVars

\* Faulty: a sync goes on after the process has ended.
Exit_SyncGoesOn == Loop!Exit /\ UNCHANGED syncVars

\* The process ends, with whatever it was doing; its memory is lost.
Exit == Loop!Exit /\ Sync!Restart

Next == StartSync \/ EndSync \/ InSync \/ Server \/ Exit

\* The fairness of the parts, as far as they can proceed together: the loop
\* waits for SyncProject, and it is SyncProject's fairness that makes it return.
Fairness ==
    /\ WF_vars(Server /\ Loop!StartupTrigger)
    /\ WF_vars(cancelled /\ server = "serving" /\ Exit)
    /\ SF_vars(StartSync)
    /\ SF_vars(Server /\ Loop!SelectTick)
    /\ SF_vars(Server /\ Loop!SelectDone)
    /\ WF_vars(InSync /\ Sync!Expire)
    /\ WF_vars((InSync \/ EndSync) /\ Sync!Settle)

Spec == Init /\ [][Next]_vars
FairSpec == Spec /\ Fairness

-----------------------------------------------------------------------------
\* Type invariant, with the coupling of the parts: the pipeline runs exactly
\* while the loop waits for it.
TypeOK ==
    /\ Loop!TypeOK
    /\ Sync!TypeOK
    /\ loop = "syncing" <=> pc # "idle"

\* The stored status follows the loop, through failures, deadlines, signals and ends of
\* the process at any moment.  "running" is shown exactly while the loop of a live
\* process waits for SyncProject, and never left behind; what is shown otherwise is the
\* end of the latest sync: an "ok" has that sync's own report, an "error" never has.
\* As long as a serving process shows nothing, a reason for its first sync is queued.
StatusFollowsLoop ==
    /\ store.state = "running" <=> loop = "syncing"
    /\ server = "down" => loop = "stopped" /\ store.state = "none"
    /\ store.state = "ok" => store.report = attempt
    /\ store.state = "error" => store.report < attempt
    /\ server = "serving" /\ store.state = "none" => ch # <<>>

\* Every sync ends, with the API and the tools free never to answer: the sync
\* timeout covers every stage that waits for another process.  (This discharges
\* the fairness ProjectLoop assumes of SyncReturns.)
SyncFinishes == loop = "syncing" ~> loop = "select" \/ server = "down"

\* A trigger accepted while attempt n is the latest (running or finished) leads
\* to a finished status of a later attempt, one that began after the trigger,
\* even if the API and the tools hang, unless the server is told to stop.
TriggerIsServed ==
    \A n \in 0..(MaxSyncs - 1) :
        (owed # {} /\ attempt = n)
            ~> \/ attempt > n /\ store.state \in {"ok", "error"}
               \/ cancelled
               \/ server = "down"
=============================================================================
