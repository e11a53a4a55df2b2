---------------------------- MODULE ServeStartup ----------------------------
(***************************************************************************)
(* The start of a server of several projects: Serve registers each         *)
(* project's channel, starts its loop, installs its dashboard through the  *)
(* Coroot client (CorootClient) and triggers its first sync, one project   *)
(* after the other, before it listens.  The loops started already use the  *)
(* same client.  Coroot, its dashboards and the requests still on their    *)
(* way to it outlive the process.                                          *)
(***************************************************************************)
EXTENDS Naturals, Sequences

CONSTANTS
    N,              \* number of configured projects
    Installs,       \* those with dashboard.install
    Ticking,        \* those with an interval
    MaxRestarts,    \* bound on the restarts of the process
    MaxSessions, MaxRevocations

ASSUME StartupAssumption ==
    /\ MaxSessions \in Nat \ {0} /\ MaxRevocations \in Nat
    /\ N \in Nat \ {0}
    /\ Installs \subseteq 1..N
    /\ Ticking \subseteq 1..N
    /\ MaxRestarts \in Nat

\* Projects in the order of the configuration.  No two of them name the same
\* dashboard of the same Coroot project.
Projects == 1..N

\* The goroutines that use the client: Serve itself and the loop of each project.
Main == 0
Callers == {Main} \cup Projects

VARIABLES
    jar, valid, revocations, call, quiet,   \* CorootClient
    incarnation,   \* the current start of the process
    main,          \* where Serve is, and with which project
    looping,       \* the projects whose loop runs
    started,       \* those whose startup trigger has been given
    installed,     \* those whose dashboard this process reported installed
    boards,        \* Coroot: per project, the dashboards with the target's name
    stray          \* requests Serve gave up on that Coroot may still carry out

clientVars == <<jar, valid, revocations, call, quiet>>
serveVars == <<incarnation, main, looping, started, installed>>
corootVars == <<boards, stray>>

Client == INSTANCE CorootClient

vars == <<clientVars, serveVars, corootVars>>

\* The requests of InstallDashboard in the order it makes them: either "meta" or
\* "create", never both.
Requests == {"resolve", "list", "meta", "create", "save"}
Stages == {"register", "trigger", "listening"} \cup Requests

Empty == 0      \* the content of a dashboard that has been created and not saved

\* content: the start of the process that saved it.  late (history): was it
\* created, or was its content saved, by a request Serve had given up on?
Board == [content : 0..(MaxRestarts + 1), createdLate : BOOLEAN, savedLate : BOOLEAN]

Init ==
    /\ Client!Init
    /\ incarnation = 1
    /\ main = [stage |-> "register", project |-> 1, target |-> 0]
    /\ looping = {} /\ started = {} /\ installed = {}
    /\ boards = [p \in Projects |-> <<>>]
    /\ stray = {}

-----------------------------------------------------------------------------
(***************************************************************************)
(* What a request of InstallDashboard does to the dashboards, when Serve   *)
(* still waits for it (late = FALSE) or has given up on it.                *)
(***************************************************************************)

Created(late) == [content |-> Empty, createdLate |-> late, savedLate |-> FALSE]

\* Only "create" and "save" change what is said of a dashboard here; "meta"
\* writes its name and description and leaves the configuration alone.
Effect(request, late) ==
    LET p == request.project IN
    boards' = CASE request.stage = "create" ->
                    [boards EXCEPT ![p] = Append(@, Created(late))]
                [] request.stage = "save" ->
                    [boards EXCEPT ![p][request.target] =
                        [@ EXCEPT !.content = request.by, !.savedLate = late]]
                [] OTHER -> boards

\* The request Serve is waiting for.
Current == [stage |-> main.stage, project |-> main.project, target |-> main.target,
            by |-> incarnation]

\* If Serve stops waiting for its request while that is on its way.
LeftBehind ==
    IF /\ main.stage \in {"create", "save"}
       /\ call[Main].at = "sent" /\ call[Main].cookie \in valid
    THEN {Current} ELSE {}

-----------------------------------------------------------------------------
(***************************************************************************)
(* Serve.                                                                  *)
(***************************************************************************)

\* s.triggers[project.Name] = ch, and go s.projectLoop(...).
Register ==
    /\ main.stage = "register"
    /\ looping' = looping \cup {main.project}
    /\ main' = [main EXCEPT !.stage =
                  IF main.project \in Installs THEN "resolve" ELSE "trigger"]
    /\ UNCHANGED <<clientVars, incarnation, started, installed, corootVars>>

\* Serve's goroutine calls the client, and the client's steps for it.  The
\* answer to "list" is read from the dashboards as they are when it is made.
Request ==
    /\ main.stage \in Requests
    /\ \/ Client!Call(Main) \/ Client!Deny(Main) \/ Client!Login(Main)
       \/ Client!StoreCookie(Main) \/ Client!Resend(Main)
    /\ UNCHANGED <<serveVars, corootVars>>

Carry ==
    /\ Client!Execute(Main)
    /\ Effect(Current, FALSE)
    /\ \/ /\ main.stage = "list"
          /\ IF boards[main.project] = <<>>
             THEN main' = [main EXCEPT !.target = 0]
             ELSE \E i \in DOMAIN boards[main.project] : main' = [main EXCEPT !.target = i]
       \/ /\ main.stage = "create"
          /\ main' = [main EXCEPT !.target = Len(boards[main.project]) + 1]
       \/ /\ main.stage \notin {"list", "create"}
          /\ UNCHANGED main
    /\ UNCHANGED <<incarnation, looping, started, installed, stray>>

GiveUp ==
    /\ Client!GiveUp(Main)
    /\ stray' = stray \cup LeftBehind
    /\ UNCHANGED <<serveVars, boards>>

\* Faulty: a dashboard of that name is taken for installed.
AfterAnswer_KeepsFound ==
    CASE main.stage = "resolve" -> "list"
      [] main.stage = "list" -> IF main.target = 0 THEN "create" ELSE "meta"
      [] main.stage = "create" -> "save"
      [] OTHER -> "trigger"

\* InstallDashboard and UpsertDashboard: the next request after a good answer.
AfterAnswer ==
    CASE main.stage = "resolve" -> "list"
      [] main.stage = "list" -> IF main.target = 0 THEN "create" ELSE "meta"
      [] main.stage \in {"create", "meta"} -> "save"
      [] OTHER -> "trigger"

\* Serve takes the result: any error ends the install, which is logged, and the
\* start goes on.  (The answer to "resolve" may be one that names no project.)
Continue ==
    /\ main.stage \in Requests
    /\ Client!Return(Main)
    /\ \/ /\ call[Main].at = "ok"
          /\ main' = [main EXCEPT !.stage = AfterAnswer]
          /\ installed' = IF AfterAnswer = "trigger" THEN installed \cup {main.project}
                                                     ELSE installed
       \/ /\ call[Main].at # "ok" \/ main.stage = "resolve"
          /\ main' = [main EXCEPT !.stage = "trigger"]
          /\ UNCHANGED installed
    /\ UNCHANGED <<incarnation, looping, started, corootVars>>

\* s.trigger(project.Name, "startup"), and on to the next project or to listen.
Trigger ==
    /\ main.stage = "trigger"
    /\ started' = started \cup {main.project}
    /\ main' = IF main.project = N
               THEN [stage |-> "listening", project |-> N, target |-> 0]
               ELSE [stage |-> "register", project |-> main.project + 1, target |-> 0]
    /\ UNCHANGED <<clientVars, incarnation, looping, installed, corootVars>>

Serve == Register \/ Request \/ Carry \/ GiveUp \/ Continue \/ Trigger

-----------------------------------------------------------------------------
(***************************************************************************)
(* The loops that run already, as far as the client sees them: a sync is   *)
(* one call after the other.  What causes a sync is ProjectLoop's subject; *)
(* here a project with an interval may sync as soon as its loop runs, one  *)
(* without after its startup trigger.                                      *)
(***************************************************************************)
InSync(p) ==
    /\ p \in looping
    /\ \/ Client!Call(p) /\ p \in Ticking \cup started
       \/ Client!Execute(p) \/ Client!Deny(p) \/ Client!Login(p) \/ Client!StoreCookie(p)
       \/ Client!Resend(p) \/ Client!GiveUp(p) \/ Client!Return(p)
    /\ UNCHANGED <<serveVars, corootVars>>

-----------------------------------------------------------------------------
(***************************************************************************)
(* Coroot, and the end of the process.                                     *)
(***************************************************************************)
Revoke == Client!Revoke /\ UNCHANGED <<serveVars, corootVars>>

\* Coroot carries out a request nobody waits for any more.
CarryLate(request) ==
    /\ request \in stray
    /\ stray' = stray \ {request}
    /\ Effect(request, TRUE)
    /\ UNCHANGED <<clientVars, serveVars>>

\* ... or never does.
Lose(request) ==
    /\ request \in stray
    /\ stray' = stray \ {request}
    /\ UNCHANGED <<clientVars, serveVars, boards>>

\* Faulty: what the process has done already is remembered.
Restart_Remembers ==
    /\ incarnation <= MaxRestarts
    /\ incarnation' = incarnation + 1
    /\ Client!Forget
    /\ stray' = stray \cup LeftBehind
    /\ main' = [stage |-> "register", project |-> 1, target |-> 0]
    /\ looping' = {}
    /\ UNCHANGED <<boards, started, installed>>

\* The process ends and is started again.  One of its ends is the runtime's
\* "concurrent map read and map write": Register writes s.triggers while a loop
\* whose ticker fired may read it in s.trigger.
Restart ==
    /\ incarnation <= MaxRestarts
    /\ incarnation' = incarnation + 1
    /\ Client!Forget
    /\ stray' = stray \cup LeftBehind
    /\ main' = [stage |-> "register", project |-> 1, target |-> 0]
    /\ looping' = {} /\ started' = {} /\ installed' = {}
    /\ UNCHANGED boards

Next ==
    \/ Serve
    \/ \E p \in Projects : InSync(p)
    \/ Revoke
    \/ \E request \in stray : CarryLate(request) \/ Lose(request)
    \/ Restart

(***************************************************************************)
(* Serve's goroutine runs, and http_timeout, which the configuration makes *)
(* positive, ends an exchange Coroot does not answer.  Of Coroot nothing   *)
(* is assumed.  The process stays up once MaxRestarts restarts are over.    *)
(***************************************************************************)
Fairness ==
    /\ WF_vars(Register)
    /\ WF_vars(Request)
    /\ WF_vars(GiveUp)
    /\ WF_vars(Continue)
    /\ WF_vars(Trigger)

Spec == Init /\ [][Next]_vars
FairSpec == Spec /\ Fairness

-----------------------------------------------------------------------------
\* Type invariant.
TypeOK ==
    /\ Client!TypeOK
    /\ incarnation \in 1..(MaxRestarts + 1)
    /\ main \in [stage : Stages, project : Projects, target : Nat]
    /\ installed \subseteq looping /\ started \subseteq looping /\ looping \subseteq Projects
    /\ installed \subseteq Installs
    /\ boards \in [Projects -> Seq(Board)]
    /\ \A r \in stray : r.stage \in {"create", "save"}

\* The client's promise, in the company it keeps here.
DeniedOnlyIfRevoked == Client!DeniedOnlyIfRevoked

\* Lost answers, time-outs and restarts do not multiply the managed dashboard:
\* UpsertDashboard never creates a second one, apart from a create Coroot carries
\* out after graft has given up on it.
OneDashboard ==
    \A p \in Projects : \A i, j \in DOMAIN boards[p] :
        ~boards[p][i].createdLate /\ ~boards[p][j].createdLate => i = j

\* "dashboard installed" is true: the configuration Coroot holds is the one of
\* this process, also when an earlier process died between create and save or
\* when the dashboard was an old one, unless an older save arrives later still.
InstalledIsCurrent ==
    \A p \in installed : \E i \in DOMAIN boards[p] :
        boards[p][i].content = incarnation \/ boards[p][i].savedLate

\* A Coroot that answers late, wrongly or never cannot keep a project from its
\* first sync: once the process stays up, every project gets its startup trigger.
EveryProjectStarts == []<>(started = Projects)
=============================================================================
