---------------------------- MODULE ProjectLoop ----------------------------
(***************************************************************************)
(* One project in the server: the goroutine projectLoop, its channel of    *)
(* trigger reasons (one place, non-blocking sends), its interval ticker,   *)
(* the handlers that trigger it, and the start and the end of Serve as far *)
(* as this project sees them.  A sync is the interval in which SyncProject *)
(* has been called and has not returned.                                   *)
(***************************************************************************)
EXTENDS Naturals, Sequences

CONSTANT Interval    \* the project's interval, 0 for no ticker

ASSUME IntervalAssumption == Interval \in Nat

HandlerReasons == {"manual", "coroot-webhook"}
Reasons == HandlerReasons \cup {"startup", "interval"}

VARIABLES
    server,      \* Serve: "starting" the projects, "serving" HTTP, or "down"
    cancelled,   \* is the context of the signal handler done?
    loop,        \* projectLoop: in its "select", "syncing", or "stopped"
    ch,          \* the trigger channel, a sequence of reasons
    ticked,      \* does ticker.C hold a tick?
    owed         \* the reasons triggered since the last sync began (history)

vars == <<server, cancelled, loop, ch, ticked, owed>>

Capacity == 1

Init ==
    /\ server = "starting"
    /\ cancelled = FALSE
    /\ loop = "select"
    /\ ch = <<>>
    /\ ticked = FALSE
    /\ owed = {}

\* Faulty: the channel has no bound.
Trigger_Unbounded(reason) ==
    /\ ch' = Append(ch, reason)
    /\ owed' = owed \cup {reason}

\* Server.trigger: a send that would block is dropped.
Trigger(reason) ==
    /\ ch' = IF Len(ch) < Capacity THEN Append(ch, reason) ELSE ch
    /\ owed' = owed \cup {reason}

-----------------------------------------------------------------------------
(***************************************************************************)
(* Serve and the HTTP handlers.                                            *)
(***************************************************************************)

\* Serve has started the loop, tried to install the dashboard, and triggers
\* the first sync before it goes on to listen.
StartupTrigger ==
    /\ server = "starting"
    /\ Trigger("startup")
    /\ server' = "serving"
    /\ UNCHANGED <<cancelled, loop, ticked>>

\* POST .../sync and POST /webhooks/coroot/...; the answer is {"queued": true}.
Request(reason) ==
    /\ server = "serving"
    /\ Trigger(reason)
    /\ UNCHANGED <<server, cancelled, loop, ticked>>

\* SIGINT or SIGTERM.
Cancel ==
    /\ ~cancelled
    /\ cancelled' = TRUE
    /\ UNCHANGED <<server, loop, ch, ticked, owed>>

\* The process ends: Serve returns, after Shutdown or because ListenAndServe
\* failed, or it is killed at any point.  The project loops are not waited for:
\* a sync under way is cut off.
Exit ==
    /\ server # "down"
    /\ server' = "down"
    /\ loop' = "stopped"
    /\ UNCHANGED <<cancelled, ch, ticked, owed>>

\* The process is started again: a new server, a new channel, a new ticker.
Boot ==
    /\ server = "down"
    /\ server' = "starting"
    /\ cancelled' = FALSE
    /\ loop' = "select"
    /\ ch' = <<>>
    /\ ticked' = FALSE
    /\ owed' = {}

-----------------------------------------------------------------------------
(***************************************************************************)
(* The ticker and projectLoop.  When several cases of a select are ready,  *)
(* Go picks one at random.                                                 *)
(***************************************************************************)

\* The timer fires; ticker.C has one place, ticks that find it full are dropped.
Tick ==
    /\ Interval > 0
    /\ server # "down"
    /\ ticked' = TRUE
    /\ UNCHANGED <<server, cancelled, loop, ch, owed>>

\* Faulty: the tick is received and triggers nothing.
SelectTick_NoTrigger ==
    /\ loop = "select"
    /\ ticked
    /\ ticked' = FALSE
    /\ UNCHANGED <<server, cancelled, loop, ch, owed>>

SelectTick ==
    /\ loop = "select"
    /\ ticked
    /\ ticked' = FALSE
    /\ Trigger("interval")
    /\ UNCHANGED <<server, cancelled, loop>>

\* Faulty: each reason starts a sync of its own, whether or not one is running.
SelectTrigger_Concurrent ==
    /\ loop # "stopped"
    /\ ch # <<>>
    /\ ch' = Tail(ch)
    /\ owed' = {}
    /\ loop' = "syncing"
    /\ UNCHANGED <<server, cancelled, ticked>>

\* A reason is received and SyncProject is called with it.
SelectTrigger ==
    /\ loop = "select"
    /\ ch # <<>>
    /\ ch' = Tail(ch)
    /\ owed' = {}
    /\ loop' = "syncing"
    /\ UNCHANGED <<server, cancelled, ticked>>

SelectDone ==
    /\ loop = "select"
    /\ cancelled
    /\ loop' = "stopped"
    /\ UNCHANGED <<server, cancelled, ch, ticked, owed>>

\* Faulty: what was queued during the sync is thrown away as answered.
SyncReturns_Drains ==
    /\ loop = "syncing"
    /\ loop' = "select"
    /\ ch' = <<>>
    /\ UNCHANGED <<server, cancelled, ticked, owed>>

\* Faulty: the loop queues a reason again when its sync has ended.
SyncReturns_Requeues ==
    /\ loop = "syncing"
    /\ loop' = "select"
    /\ ch' = IF ch = <<>> THEN <<"interval">> ELSE ch
    /\ UNCHANGED <<server, cancelled, ticked, owed>>

SyncReturns ==
    /\ loop = "syncing"
    /\ loop' = "select"
    /\ UNCHANGED <<server, cancelled, ch, ticked, owed>>

Next ==
    \/ StartupTrigger
    \/ \E reason \in HandlerReasons : Request(reason)
    \/ Cancel
    \/ Exit
    \/ Boot
    \/ Tick
    \/ SelectTick
    \/ SelectTrigger
    \/ SelectDone
    \/ SyncReturns

(***************************************************************************)
(* Serve's calls before the first trigger are bounded by the HTTP client's *)
(* timeout, Shutdown by its own ten seconds, a sync by the sync timeout    *)
(* (SyncProject!SyncFinishes).  The timer fires.  A select with a ready    *)
(* case proceeds; because the choice is random and independent each time,  *)
(* a case that is ready again and again is taken in the end.               *)
(***************************************************************************)
Fairness ==
    /\ WF_vars(StartupTrigger)
    /\ WF_vars(cancelled /\ server = "serving" /\ Exit)
    /\ WF_vars(Tick)
    /\ SF_vars(SelectTick)
    /\ SF_vars(SelectTrigger)
    /\ SF_vars(SelectDone)
    /\ WF_vars(SyncReturns)

Spec == Init /\ [][Next]_vars
FairSpec == Spec /\ Fairness

-----------------------------------------------------------------------------
\* Type invariant: the channel never holds more than it has room for.
TypeOK ==
    /\ server \in {"starting", "serving", "down"}
    /\ cancelled \in BOOLEAN
    /\ loop \in {"select", "syncing", "stopped"}
    /\ ch \in Seq(Reasons) /\ Len(ch) <= Capacity
    /\ ticked \in BOOLEAN
    /\ owed \subseteq Reasons

\* Server.trigger drops a reason when the channel is full, and the handlers say
\* "queued" all the same.  The answer is true: as long as a trigger has not been
\* followed by the beginning of a sync, a reason is in the channel to cause one.
DroppedTriggerIsCovered == owed # {} => ch # <<>>

\* The reason a sync will report as its trigger was given since the last sync
\* began: no sync is run, or attributed, to a trigger already answered.
QueuedReasonIsOwed == \A i \in DOMAIN ch : ch[i] \in owed

Requests == INSTANCE SyncRequests WITH
    up <- ~cancelled /\ server # "down",
    wanted <- owed # {},
    running <- loop = "syncing"

\* Triggers are merged and never lost, syncs of the project do not overlap, none
\* runs unasked, and while the server is up each trigger is followed by a sync.
ImplementsRequests == Requests!Spec

\* docs/architecture.md: the snapshot is collected on every interval.  With an
\* interval, syncs go on for ever unless the server stops; the self-trigger of
\* the loop and the triggers of the handlers never block each other out.
KeepsSyncing == Interval > 0 => []<>(loop = "syncing" \/ cancelled \/ server = "down")
=============================================================================
