-------------------------- MODULE CaptureSnapshot --------------------------
(***************************************************************************)
(* Orchestrator.captureSnapshot: the services of a project over the long   *)
(* topology window, and which of them Coroot observed in the short         *)
(* activity window.  The overview of the activity window may leave out a   *)
(* service that was observed, so each service it does not list is looked   *)
(* up by itself.  Any call may fail.                                       *)
(*                                                                         *)
(* Both windows end when the sync began: what was observed in them does    *)
(* not change while the calls are made.                                    *)
(***************************************************************************)
EXTENDS Naturals

CONSTANTS
    Services,       \* the services Coroot may know
    Windows         \* lengths a window may be configured to, 0 for not at all

ASSUME WindowsAssumption == Windows \subseteq Nat

VARIABLES
    observed,   \* the services with instances in the activity window, in truth
    stage,      \* the calls to come: "windows", "overview", "applications", "probe",
                \* or the outcome: "captured", "failed"
    listed,     \* overviewApps
    todo,       \* those of them the current loop has still to look up
    apps,       \* the services loaded for the snapshot
    active      \* activeServices

vars == <<observed, stage, listed, todo, apps, active>>

-----------------------------------------------------------------------------
Init ==
    /\ observed \in SUBSET Services
    /\ stage = "windows"
    /\ listed = {}
    /\ todo = {}
    /\ apps = {}
    /\ active = {}

\* The windows of the project, else of the configuration, else the default.
DefaultTimeWindow == 60
DefaultActivityWindow == 2
Effective(project, global, default) ==
    IF project > 0 THEN project ELSE IF global > 0 THEN global ELSE default

ChooseWindows ==
    /\ stage = "windows"
    /\ \E time, globalTime, activity, globalActivity \in Windows :
        stage' = IF Effective(activity, globalActivity, DefaultActivityWindow)
                     > Effective(time, globalTime, DefaultTimeWindow)
                 THEN "failed"
                 ELSE "overview"
    /\ UNCHANGED <<observed, listed, todo, apps, active>>

\* Without a map, the services of the search index are taken.
Overview ==
    /\ stage = "overview"
    /\ \E map \in SUBSET Services : \E search \in SUBSET Services :
        listed' = IF map # {} THEN map ELSE search
    /\ todo' = listed'
    /\ stage' = "applications"
    /\ UNCHANGED <<observed, apps, active>>

\* A service is loaded, with its dependencies; a failing trace look-up is ignored.
LoadApplication(s) ==
    /\ stage = "applications"
    /\ s \in todo
    /\ apps' = apps \cup {s}
    /\ todo' = todo \ {s}
    /\ UNCHANGED <<observed, stage, listed, active>>

ActivityOverview ==
    /\ stage = "applications"
    /\ todo = {}
    /\ \E shown \in SUBSET observed :
        /\ active' = shown
        /\ todo' = listed \ shown
    /\ stage' = "probe"
    /\ UNCHANGED <<observed, listed, apps>>

\* Faulty: a service whose look-up fails is passed over, whatever the error.
Probe_AnyError(s) ==
    /\ stage = "probe"
    /\ s \in todo
    /\ active' \in {active, active \cup ({s} \cap observed)}
    /\ todo' = todo \ {s}
    /\ UNCHANGED <<observed, stage, listed, apps>>

\* A look-up that succeeds tells the truth; for a service that was not observed
\* the API answers with no instances, or with 404.
Probe(s) ==
    /\ stage = "probe"
    /\ s \in todo
    /\ active' = active \cup ({s} \cap observed)
    /\ todo' = todo \ {s}
    /\ UNCHANGED <<observed, stage, listed, apps>>

Return ==
    /\ stage = "probe"
    /\ todo = {}
    /\ stage' = "captured"
    /\ UNCHANGED <<observed, listed, todo, apps, active>>

\* A call fails: an overview, or the look-up of a service other than by 404.
Fail ==
    /\ stage \in {"overview", "applications"} \/ (stage = "probe" /\ todo # {})
    /\ stage' = "failed"
    /\ UNCHANGED <<observed, listed, todo, apps, active>>

Next ==
    \/ ChooseWindows
    \/ Overview
    \/ \E s \in Services : LoadApplication(s)
    \/ ActivityOverview
    \/ \E s \in Services : Probe(s)
    \/ Return
    \/ Fail

Spec == Init /\ [][Next]_vars

-----------------------------------------------------------------------------
\* A snapshot takes a service for inactive exactly if Coroot did not observe it:
\* an incomplete overview and failing calls may cost the sync, but never make a
\* running service look stopped, which would fail the gate of its endpoints.
ActivityIsObserved ==
    stage = "captured" => apps = listed /\ active \cap apps = observed \cap apps

\* The strengthening that makes it inductive: in the second loop, an observed
\* service is known to be active or still to be looked up.
Progress ==
    /\ active \subseteq observed
    /\ stage \in {"windows", "overview"} => apps = {}
    /\ stage = "applications" => apps \cup todo = listed
    /\ stage \in {"probe", "captured"} =>
        apps = listed /\ observed \cap listed \subseteq active \cup todo
    /\ stage = "captured" => todo = {}
=============================================================================
