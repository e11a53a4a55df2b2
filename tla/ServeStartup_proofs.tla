------------------------- MODULE ServeStartup_proofs -------------------------
(***************************************************************************)
(* For any number of projects, restarts, sessions and revocations: one     *)
(* login is enough for the callers of the shared client, alone and in the  *)
(* server's company; starts of the server do not multiply the managed      *)
(* dashboard; and a start that reports an installation has left it current.*)
(***************************************************************************)
EXTENDS ServeStartup, TLAPS

-----------------------------------------------------------------------------
(***************************************************************************)
(* The shared client, for any number of callers, of sessions and of times  *)
(* Coroot drops some.                                                      *)
(***************************************************************************)
Sent(c) == call[c].at = "sent" /\ ~call[c].tryLogin

\* While Coroot has dropped no session since the client was last quiet, a call
\* that has logged in cannot fail for want of a session: its cookie, or the one
\* in the jar when it is about to be sent again, is accepted, no matter whose it is.
NothingDropped ==
    quiet = revocations =>
        \A c \in Callers :
            /\ call[c].at # "denied"
            /\ call[c].at = "loggedIn" \/ Sent(c) => call[c].cookie \in valid
            /\ call[c].at = "retry" => jar \in valid

\* A caller that has logged in does not log in again.
LogsInOnce ==
    \A c \in Callers : call[c].at \in {"login", "loggedIn", "retry"} => ~call[c].tryLogin

ClientInv == Client!TypeOK /\ quiet <= revocations /\ LogsInOnce /\ NothingDropped

LEMMA ResultType ==
    ASSUME Client!TypeOK, NEW c \in Callers, NEW result \in Client!Results, Client!Result(c, result)
    PROVE  /\ call' \in [Callers -> Client!Calls]
           /\ \A d \in Callers : d # c => call'[d] = call[d]
           /\ call'[c].at = result
  BY DEF Client!TypeOK, Client!Result, Client!Calls, Client!Idle, Client!Results

\* One step of one caller keeps the type invariant.
LEMMA CallerTyped ==
    ASSUME Client!TypeOK, NEW c \in Callers,
           \/ Client!Call(c) \/ Client!Execute(c) \/ Client!Deny(c) \/ Client!Login(c)
           \/ Client!StoreCookie(c) \/ Client!Resend(c) \/ Client!GiveUp(c) \/ Client!Return(c)
    PROVE  Client!TypeOK'
  <1> USE DEF Client!TypeOK, Client!Calls, Client!Waiting, Client!Results
  <1>1. CASE Client!Call(c)
    BY <1>1 DEF Client!Call
  <1>2. CASE Client!Execute(c)
    BY <1>2, ResultType DEF Client!Execute
  <1>3. CASE Client!Deny(c)
    <2>1. CASE Client!Result(c, "denied")
      BY <1>3, <2>1, ResultType DEF Client!Deny
    <2>2. CASE call' = [call EXCEPT ![c].at = "login", ![c].tryLogin = FALSE]
      BY <1>3, <2>2 DEF Client!Deny
    <2> QED
      BY <1>3, <2>1, <2>2 DEF Client!Deny
  <1>4. CASE Client!Login(c)
    <2> DEFINE fresh == Client!Sessions \ (valid \cup {jar} \cup {call[d].cookie : d \in Callers})
               new == CHOOSE s \in fresh : TRUE
    <2>1. new \in Client!Sessions
      BY <1>4 DEF Client!Login
    <2>2. /\ valid' = valid \cup {new}
          /\ call' = [call EXCEPT ![c].at = "loggedIn", ![c].cookie = new]
          /\ UNCHANGED <<jar, revocations, quiet>>
      BY <1>4 DEF Client!Login
    <2> HIDE DEF new
    <2> QED
      BY <2>1, <2>2
  <1>5. CASE Client!StoreCookie(c)
    BY <1>5 DEF Client!StoreCookie
  <1>6. CASE Client!Resend(c)
    BY <1>6 DEF Client!Resend
  <1>7. CASE Client!GiveUp(c)
    BY <1>7, ResultType DEF Client!GiveUp
  <1>8. CASE Client!Return(c)
    BY <1>8 DEF Client!Return, Client!Idle
  <1> QED
    BY <1>1, <1>2, <1>3, <1>4, <1>5, <1>6, <1>7, <1>8

LEMMA ClientTypedStep == Client!TypeOK /\ [Client!Next]_clientVars => Client!TypeOK'
  <1> SUFFICES ASSUME Client!TypeOK, [Client!Next]_clientVars PROVE Client!TypeOK'
    OBVIOUS
  <1>1. CASE Client!Revoke
    BY <1>1, StartupAssumption DEF Client!Revoke, Client!TypeOK
  <1>2. CASE Client!Forget
    BY <1>2 DEF Client!Forget, Client!TypeOK, Client!Calls, Client!Idle
  <1>3. CASE UNCHANGED clientVars
    BY <1>3 DEF clientVars, Client!TypeOK
  <1> QED
    BY <1>1, <1>2, <1>3, CallerTyped DEF Client!Next

LEMMA InitClientInv == Client!Init => ClientInv
  BY StartupAssumption
  DEF Client!Init, ClientInv, Client!TypeOK, Client!Calls, Client!Idle, LogsInOnce,
      NothingDropped, Sent

\* One step of one caller keeps the invariant.
LEMMA CallerInv ==
    ASSUME ClientInv, NEW c \in Callers,
           \/ Client!Call(c) \/ Client!Execute(c) \/ Client!Deny(c) \/ Client!Login(c)
           \/ Client!StoreCookie(c) \/ Client!Resend(c) \/ Client!GiveUp(c) \/ Client!Return(c)
    PROVE  ClientInv'
  <1>1. Client!TypeOK' /\ Client!TypeOK
    BY CallerTyped DEF ClientInv
  <1> USE DEF ClientInv, LogsInOnce, NothingDropped, Sent
  <1>2. CASE Client!Call(c)
    <2>1. quiet' <= revocations'
      BY <1>2, <1>1 DEF Client!Call, Client!TypeOK
    <2>2. call' = [call EXCEPT ![c] = [at |-> "sent", tryLogin |-> TRUE, cookie |-> jar]]
      BY <1>2 DEF Client!Call
    <2>3. quiet' = revocations' => quiet = revocations \/ Client!Quiet
      BY <1>2 DEF Client!Call
    <2>4. NothingDropped'
      BY <1>2, <1>1, <2>2, <2>3 DEF Client!Call, Client!Quiet, Client!TypeOK, Client!Calls
    <2> QED
      BY <1>1, <1>2, <2>1, <2>2, <2>4 DEF Client!TypeOK, Client!Calls
  <1>3. CASE \E result \in Client!Results :
               /\ Client!Result(c, result)
               /\ result = "denied" => ~call[c].tryLogin /\ call[c].at = "sent"
                                         /\ call[c].cookie \notin valid
               /\ UNCHANGED <<jar, valid, revocations, quiet>>
    BY <1>1, <1>3, ResultType DEF Client!Results
  <1>4. CASE Client!Execute(c)
    BY <1>3, <1>4 DEF Client!Execute, Client!Results
  <1>5. CASE Client!Deny(c)
    <2>1. CASE Client!Result(c, "denied") /\ ~call[c].tryLogin
      BY <1>3, <1>5, <2>1 DEF Client!Deny, Client!Results
    <2>2. CASE call' = [call EXCEPT ![c].at = "login", ![c].tryLogin = FALSE]
      BY <1>1, <1>5, <2>2 DEF Client!Deny, Client!TypeOK, Client!Calls
    <2> QED
      BY <1>5, <2>1, <2>2 DEF Client!Deny
  <1>6. CASE Client!Login(c)
    <2>1. PICK new \in Client!Sessions :
            /\ valid' = valid \cup {new}
            /\ call' = [call EXCEPT ![c].at = "loggedIn", ![c].cookie = new]
      <3> DEFINE fresh == Client!Sessions \ (valid \cup {jar} \cup {call[d].cookie : d \in Callers})
      <3>1. (CHOOSE s \in fresh : TRUE) \in Client!Sessions
        BY <1>6 DEF Client!Login
      <3> QED
        BY <1>6, <3>1 DEF Client!Login
    <2> QED
      BY <1>1, <1>6, <2>1 DEF Client!Login, Client!TypeOK, Client!Calls
  <1>7. CASE Client!StoreCookie(c)
    BY <1>1, <1>7 DEF Client!StoreCookie, Client!TypeOK, Client!Calls
  <1>8. CASE Client!Resend(c)
    BY <1>1, <1>8 DEF Client!Resend, Client!TypeOK, Client!Calls
  <1>9. CASE Client!GiveUp(c)
    BY <1>3, <1>9 DEF Client!GiveUp, Client!Results
  <1>10. CASE Client!Return(c)
    BY <1>1, <1>10 DEF Client!Return, Client!Idle, Client!TypeOK, Client!Calls
  <1> QED
    BY <1>2, <1>4, <1>5, <1>6, <1>7, <1>8, <1>9, <1>10

LEMMA NextClientInv == ClientInv /\ [Client!Next]_clientVars => ClientInv'
  <1> SUFFICES ASSUME ClientInv, [Client!Next]_clientVars PROVE ClientInv'
    OBVIOUS
  <1>1. Client!TypeOK'
    BY ClientTypedStep DEF ClientInv
  <1>2. CASE Client!Revoke
    BY <1>1, <1>2 DEF Client!Revoke, ClientInv, Client!TypeOK, LogsInOnce, NothingDropped
  <1>3. CASE Client!Forget
    BY <1>1, <1>3 DEF Client!Forget, Client!Idle, ClientInv, LogsInOnce, NothingDropped, Sent
  <1>4. CASE UNCHANGED clientVars
    BY <1>1, <1>4 DEF clientVars, ClientInv, LogsInOnce, NothingDropped, Sent
  <1> QED
    BY <1>2, <1>3, <1>4, CallerInv DEF Client!Next

\* A caller is refused for want of a session only if Coroot has dropped sessions
\* since no call was last under way, however many goroutines share the client.
THEOREM OneLoginIsEnough == Client!Spec => []Client!DeniedOnlyIfRevoked
  <1> USE DEF clientVars, Client!clientVars
  <1>1. Client!Init => ClientInv
    BY InitClientInv
  <1>2. ClientInv /\ [Client!Next]_clientVars => ClientInv'
    BY NextClientInv
  <1>3. ClientInv => Client!DeniedOnlyIfRevoked
    BY DEF ClientInv, Client!TypeOK, NothingDropped, Client!DeniedOnlyIfRevoked
  <1> QED
    BY <1>1, <1>2, <1>3, PTL DEF Client!Spec

-----------------------------------------------------------------------------
(***************************************************************************)
(* Every step of the server is a step of the client or leaves it alone.    *)
(***************************************************************************)
LEMMA ClientStep == [Next]_vars => [Client!Next]_clientVars
  <1> SUFFICES ASSUME [Next]_vars PROVE [Client!Next]_clientVars
    OBVIOUS
  <1> USE DEF clientVars
  <1>1. Main \in Callers /\ \A p \in Projects : p \in Callers
    BY DEF Callers
  <1>2. CASE Serve
    <2>1. CASE Register \/ Trigger
      BY <2>1 DEF Register, Trigger
    <2>2. CASE Request \/ Carry \/ GiveUp \/ Continue
      BY <1>1, <2>2 DEF Request, Carry, GiveUp, Continue, Client!Next
    <2> QED
      BY <1>2, <2>1, <2>2 DEF Serve
  <1>3. ASSUME NEW p \in Projects, InSync(p) PROVE Client!Next
    BY <1>1, <1>3 DEF InSync, Client!Next
  <1>4. CASE Revoke
    BY <1>4 DEF Revoke, Client!Revoke, Client!Next
  <1>5. ASSUME NEW request \in stray, CarryLate(request) \/ Lose(request)
        PROVE  UNCHANGED clientVars
    BY <1>5 DEF CarryLate, Lose
  <1>6. CASE Restart
    BY <1>6 DEF Restart, Client!Forget, Client!Next, Client!Idle,
                Client!NoCookie
  <1>7. CASE UNCHANGED vars
    BY <1>7 DEF vars
  <1> QED
    BY <1>2, <1>3, <1>4, <1>5, <1>6, <1>7 DEF Next

\* A goroutine is refused for want of a session only if Coroot has dropped some
\* since no call was under way, whatever the loops and the start do at once.
THEOREM StartupOneLogin == Spec => []DeniedOnlyIfRevoked
  <1>1. Init => Client!Init
    BY DEF Init, Client!Init, Client!Idle, Client!NoCookie
  <1>2. Client!Init => ClientInv
    BY InitClientInv
  <1>3. ClientInv /\ [Next]_vars => ClientInv'
    BY ClientStep, NextClientInv
  <1>4. ClientInv => DeniedOnlyIfRevoked
    BY DEF ClientInv, Client!TypeOK, NothingDropped, DeniedOnlyIfRevoked, Client!DeniedOnlyIfRevoked
  <1> QED
    BY <1>1, <1>2, <1>3, <1>4, PTL DEF Spec

-----------------------------------------------------------------------------
(***************************************************************************)
(* One dashboard.                                                          *)
(***************************************************************************)
Starts == 1..(MaxRestarts + 1)

Shape ==
    /\ call \in [Callers -> Client!Calls]
    /\ main \in [stage : Stages, project : Projects, target : Nat]
    /\ boards \in [Projects -> Seq(Board)]
    /\ incarnation \in Starts
    /\ \A r \in stray : r.stage \in {"create", "save"} /\ r.project \in Projects /\ r.by \in Starts

\* The project has only dashboards that were created late, if any.
OnlyLate(p) == \A i \in DOMAIN boards[p] : boards[p][i].createdLate

\* From a list without the dashboard until Coroot has carried out the create, and
\* afterwards never again, the project has none but late ones.
AboutToCreate ==
    \/ main.stage = "list" /\ call[Main].at = "ok" /\ main.target = 0
    \/ main.stage = "create" /\ call[Main].at \notin {"ok", "error", "denied"}

CreatesOnce == AboutToCreate => OnlyLate(main.project)

DashInv == Shape /\ CreatesOnce /\ OneDashboard

\* What the client does for one caller leaves the calls of the others alone.
LEMMA OtherCalls ==
    ASSUME Shape, NEW c \in Callers, NEW d \in Callers, c # d,
           \/ Client!Call(c) \/ Client!Execute(c) \/ Client!Deny(c) \/ Client!Login(c)
           \/ Client!StoreCookie(c) \/ Client!Resend(c) \/ Client!GiveUp(c) \/ Client!Return(c)
    PROVE  call'[d] = call[d]
  BY DEF Shape, Client!Call, Client!Execute, Client!Deny, Client!Login, Client!StoreCookie,
         Client!Resend, Client!GiveUp, Client!Return, Client!Result

LEMMA Element == ASSUME NEW B, NEW s \in Seq(B), NEW i \in DOMAIN s PROVE s[i] \in B
  OBVIOUS

\* A request adds a dashboard only as a "create", and is late if Serve has given up on it.
LEMMA EffectShape ==
    ASSUME Shape, NEW r, r.project \in Projects, r.by \in Starts, NEW late \in BOOLEAN,
           Effect(r, late)
    PROVE  /\ boards' \in [Projects -> Seq(Board)]
           /\ \A p \in Projects : \A i \in DOMAIN boards[p] :
                 i \in DOMAIN boards'[p] /\ boards'[p][i].createdLate = boards[p][i].createdLate
           /\ \A p \in Projects : \A i \in DOMAIN boards'[p] \ DOMAIN boards[p] :
                 /\ r.stage = "create" /\ p = r.project
                 /\ i = Len(boards[p]) + 1
                 /\ boards'[p][i].createdLate = late
  <1> DEFINE B == Board
             q == r.project
  <1>1. boards \in [Projects -> Seq(B)] /\ boards[q] \in Seq(B)
    BY DEF Shape
  <1>2. CASE r.stage = "create"
    <2>1. boards' = [boards EXCEPT ![q] = Append(boards[q], Created(late))] /\ Created(late) \in B
      BY <1>1, <1>2, StartupAssumption DEF Effect, Created, Empty, Board
    <2>2. Append(boards[q], Created(late)) \in Seq(B)
      BY <1>1, <2>1
    <2>3. /\ DOMAIN Append(boards[q], Created(late)) = 1..(Len(boards[q]) + 1)
          /\ DOMAIN boards[q] = 1..Len(boards[q]) /\ Len(boards[q]) \in Nat
          /\ \A i \in DOMAIN boards[q] : Append(boards[q], Created(late))[i] = boards[q][i]
          /\ Append(boards[q], Created(late))[Len(boards[q]) + 1] = Created(late)
      BY <1>1, <2>1
    <2> QED
      BY <1>1, <1>2, <2>1, <2>2, <2>3 DEF Created
  <1>3. CASE r.stage = "save"
    <2> DEFINE t == r.target
               new == [boards[q][t] EXCEPT !.content = r.by, !.savedLate = late]
               row == [boards[q] EXCEPT ![t] = new]
    <2>1. boards' = [boards EXCEPT ![q] = row]
      BY <1>3 DEF Effect
    <2>2. row \in Seq(B)
      <3>1. CASE t \in DOMAIN boards[q]
        <4>1. boards[q][t] \in B
          BY <1>1, <3>1, Element
        <4>2. new \in B
          <5>1. r.by \in 0..(MaxRestarts + 1)
            BY StartupAssumption DEF Starts
          <5> QED
            BY <4>1, <5>1 DEF Board
        <4> QED
          BY <1>1, <3>1, <4>2
      <3>2. CASE t \notin DOMAIN boards[q]
        <4>1. row = boards[q]
          BY <1>1, <3>2
        <4> QED
          BY <1>1, <4>1
      <3> QED
        BY <3>1, <3>2
    <2>3. DOMAIN row = DOMAIN boards[q]
      OBVIOUS
    <2>4. \A i \in DOMAIN boards[q] : row[i].createdLate = boards[q][i].createdLate
      <3>1. \A i \in DOMAIN boards[q] : boards[q][i] \in B
        BY <1>1, Element
      <3> QED
        BY <3>1 DEF Board
    <2> QED
      BY <1>1, <2>1, <2>2, <2>3, <2>4
  <1>4. CASE r.stage \notin {"create", "save"}
    BY <1>1, <1>4 DEF Effect
  <1> QED
    BY <1>2, <1>3, <1>4

\* Such a request leaves one dashboard, unless it is a "create" Serve waits for
\* while there is one.
LEMMA EffectOne ==
    ASSUME Shape, OneDashboard, NEW r, r.project \in Projects, r.by \in Starts,
           NEW late \in BOOLEAN,
           Effect(r, late), late \/ r.stage # "create" \/ OnlyLate(r.project)
    PROVE  /\ OneDashboard'
           /\ late \/ r.stage # "create" =>
                 \A p \in Projects : OnlyLate(p) => OnlyLate(p)'
  <1> DEFINE Old(p, i) == /\ i \in DOMAIN boards[p]
                          /\ boards'[p][i].createdLate = boards[p][i].createdLate
             New(p, i) == /\ r.stage = "create" /\ p = r.project /\ i = Len(boards[p]) + 1
                          /\ boards'[p][i].createdLate = late
  <1>1. \A p \in Projects : \A i \in DOMAIN boards'[p] : Old(p, i) \/ New(p, i)
    BY EffectShape
  <1>2. ASSUME NEW p \in Projects, NEW i \in DOMAIN boards'[p], NEW j \in DOMAIN boards'[p],
               ~boards'[p][i].createdLate, ~boards'[p][j].createdLate
        PROVE  i = j
    <2>1. CASE Old(p, i) /\ Old(p, j)
      BY <1>2, <2>1 DEF OneDashboard
    <2>2. CASE New(p, i) /\ New(p, j)
      BY <2>2
    <2>3. CASE Old(p, i) /\ New(p, j)
      BY <1>2, <2>3 DEF OnlyLate
    <2>4. CASE New(p, i) /\ Old(p, j)
      BY <1>2, <2>4 DEF OnlyLate
    <2> QED
      BY <1>1, <2>1, <2>2, <2>3, <2>4
  <1>3. ASSUME late \/ r.stage # "create", NEW p \in Projects, OnlyLate(p) PROVE OnlyLate(p)'
    BY <1>1, <1>3 DEF OnlyLate
  <1> QED
    BY <1>2, <1>3 DEF OneDashboard

LEMMA InitDashInv == Init => DashInv
  BY StartupAssumption
  DEF Init, DashInv, Shape, CreatesOnce, AboutToCreate, OneDashboard, Client!Init, Projects,
      Client!Idle, Client!NoCookie, Client!Calls, Stages, Starts

\* A step that leaves the dashboards alone.
LEMMA BoardsKept ==
    ASSUME DashInv, Shape', UNCHANGED boards,
           AboutToCreate' => AboutToCreate /\ main'.project = main.project
    PROVE  DashInv'
  BY DEF DashInv, CreatesOnce, OnlyLate, OneDashboard

LEMMA InitTyped == Init => Client!TypeOK
  BY StartupAssumption, InitClientInv
  DEF ClientInv, Init, Client!Init, Client!Idle,
      Client!NoCookie

LEMMA NextTyped == Client!TypeOK /\ [Next]_vars => Client!TypeOK'
  BY ClientStep, ClientTypedStep

\* Until Coroot has carried a request out, Serve's call has no good answer.
LEMMA RequestUnderWay ==
    ASSUME Shape, Request
    PROVE  call[Main].at \notin {"ok", "error", "denied"} /\ call'[Main].at # "ok"
  <1>1. call[Main].at \notin {"ok", "error", "denied"}
    BY DEF Request, Client!Call, Client!Deny, Client!Login, Client!StoreCookie, Client!Resend
  <1>2. Main \in Callers /\ call[Main] \in Client!Calls
    BY DEF Callers, Shape
  <1> USE <1>2 DEF Shape, Client!Calls
  <1>3. CASE Client!Call(Main)
    BY <1>3 DEF Client!Call
  <1>4. CASE Client!Deny(Main)
    BY <1>4 DEF Client!Deny, Client!Result, Client!Idle
  <1>5. CASE Client!Login(Main)
    BY <1>5 DEF Client!Login
  <1>6. CASE Client!StoreCookie(Main)
    BY <1>6 DEF Client!StoreCookie
  <1>7. CASE Client!Resend(Main)
    BY <1>7 DEF Client!Resend
  <1> QED
    BY <1>1, <1>3, <1>4, <1>5, <1>6, <1>7 DEF Request

LEMMA NextDashInv == Client!TypeOK /\ DashInv /\ [Next]_vars => DashInv'
  <1> SUFFICES ASSUME Client!TypeOK, DashInv, [Next]_vars PROVE DashInv'
    OBVIOUS
  <1>0. call' \in [Callers -> Client!Calls]
    BY NextTyped DEF Client!TypeOK
  <1>1. Shape /\ CreatesOnce /\ OneDashboard
    BY DEF DashInv
  <1>2. Main \in Callers /\ \A p \in Projects : p \in Callers /\ p # Main
    BY StartupAssumption DEF Callers, Projects, Main
  <1>3. CASE Register
    <2>1. Shape' /\ ~AboutToCreate' /\ UNCHANGED boards
      BY <1>1, <1>3 DEF Register, Shape, AboutToCreate, clientVars, corootVars, Stages, Requests
    <2> QED
      BY <2>1, BoardsKept
  <1>4. CASE Request
    <2>1. Shape' /\ UNCHANGED <<main, boards>>
      BY <1>0, <1>1, <1>4 DEF Request, Shape, serveVars, corootVars
    <2>2. call[Main].at \notin {"ok", "error", "denied"} /\ call'[Main].at # "ok"
      BY <1>1, <1>4, RequestUnderWay
    <2>4. AboutToCreate' => AboutToCreate
      BY <2>1, <2>2 DEF AboutToCreate
    <2> QED
      BY <2>1, <2>4, BoardsKept
  <1>5. CASE Carry
    <2>1. call[Main].at = "sent" /\ call'[Main].at \in {"ok", "error"}
      BY <1>1, <1>2, <1>5 DEF Carry, Shape, Client!Execute, Client!Result, Client!Idle
    <2>2. /\ Effect(Current, FALSE) /\ Current.project = main.project
          /\ Current.stage = main.stage /\ Current.by \in Starts /\ main.project \in Projects
      BY <1>1, <1>5 DEF Carry, Current, Shape
    <2>6. /\ main'.project = main.project /\ main'.stage = main.stage
          /\ main' \in [stage : Stages, project : Projects, target : Nat]
      <3>1. boards[main.project] \in
               Seq(Board)
        BY <1>1 DEF Shape
      <3>2. /\ Len(boards[main.project]) + 1 \in Nat
            /\ \A i \in DOMAIN boards[main.project] : i \in Nat
        BY <3>1
      <3>3. main' = main \/ \E i \in Nat : main' = [main EXCEPT !.target = i]
        BY <1>5, <3>2 DEF Carry
      <3> QED
        BY <1>1, <3>3 DEF Shape
    <2>3. Shape'
      BY <1>0, <1>1, <1>5, <2>2, <2>6, EffectShape DEF Carry, Shape
    <2>4. CASE main.stage = "create"
      <3>1. OnlyLate(main.project)
        BY <1>1, <2>1, <2>4 DEF CreatesOnce, AboutToCreate
      <3>2. ~AboutToCreate'
        BY <2>1, <2>4, <2>6 DEF AboutToCreate
      <3>3. OneDashboard'
        BY <1>1, <2>2, <3>1, EffectOne
      <3> QED
        BY <2>3, <3>2, <3>3 DEF DashInv, CreatesOnce
    <2>5. CASE main.stage # "create"
      <3>1. OneDashboard'
        BY <1>1, <2>2, <2>5, EffectOne
      <3>2. CASE main.stage = "list"
        <4>1. boards' = boards
          BY <2>2, <3>2 DEF Effect
        <4>2. main'.target = 0 => boards[main.project] = <<>>
          <5>1. boards[main.project] \in
                   Seq(Board)
            BY <1>1 DEF Shape
          <5>2. 0 \notin DOMAIN boards[main.project]
            BY <5>1
          <5>3. boards[main.project] # <<>> =>
                   \E i \in DOMAIN boards[main.project] : main' = [main EXCEPT !.target = i]
            BY <1>5, <3>2 DEF Carry
          <5> QED
            BY <1>1, <5>2, <5>3 DEF Shape
        <4>3. CreatesOnce'
          BY <2>6, <3>2, <4>1, <4>2 DEF CreatesOnce, AboutToCreate, OnlyLate
        <4> QED
          BY <2>3, <3>1, <4>3 DEF DashInv
      <3>3. CASE main.stage # "list"
        BY <2>3, <2>5, <2>6, <3>1, <3>3 DEF DashInv, CreatesOnce, AboutToCreate
      <3> QED
        BY <3>2, <3>3
    <2> QED
      BY <2>4, <2>5
  <1>6. CASE GiveUp
    <2>1. call'[Main].at = "error"
      BY <1>1, <1>2, <1>6 DEF GiveUp, Shape, Client!GiveUp, Client!Result, Client!Idle
    <2>2. \A r \in LeftBehind :
             r.stage \in {"create", "save"} /\ r.project \in Projects /\ r.by \in Starts
      BY <1>1 DEF LeftBehind, Current, Shape
    <2>3. Shape' /\ UNCHANGED <<main, boards>>
      BY <1>0, <1>1, <1>6, <2>2 DEF GiveUp, Shape, serveVars
    <2>4. ~AboutToCreate'
      BY <2>1 DEF AboutToCreate
    <2> QED
      BY <2>3, <2>4, BoardsKept
  <1>7. CASE Continue
    <2>1. call'[Main].at = "idle"
      BY <1>1, <1>2, <1>7 DEF Continue, Shape, Client!Return, Client!Idle
    <2>2. \/ call[Main].at = "ok" /\ main' = [main EXCEPT !.stage = AfterAnswer]
          \/ main' = [main EXCEPT !.stage = "trigger"]
      BY <1>7 DEF Continue
    <2>5. AfterAnswer \in Stages
      BY DEF AfterAnswer, Stages, Requests
    <2>6. "trigger" \in Stages
      BY DEF Stages
    <2>7. Shape' /\ UNCHANGED boards /\ main'.project = main.project
      BY <1>0, <1>1, <1>7, <2>2, <2>5, <2>6 DEF Continue, Shape, corootVars
    <2>3. main'.stage = "create" => main.stage = "list" /\ main.target = 0 /\ call[Main].at = "ok"
      BY <1>1, <2>2 DEF AfterAnswer, Shape
    <2>4. AboutToCreate' => AboutToCreate
      BY <2>1, <2>3 DEF AboutToCreate
    <2> QED
      BY <2>4, <2>7, BoardsKept
  <1>8. CASE Trigger
    <2>1. Shape' /\ ~AboutToCreate' /\ UNCHANGED boards
      BY <1>1, <1>8, StartupAssumption
      DEF Trigger, Shape, AboutToCreate, clientVars, corootVars, Projects, Stages
    <2> QED
      BY <2>1, BoardsKept
  <1>9. ASSUME NEW p \in Projects, InSync(p) PROVE DashInv'
    <2>1. call'[Main] = call[Main]
      BY <1>1, <1>2, <1>9, OtherCalls DEF InSync
    <2>2. Shape' /\ UNCHANGED <<main, boards>>
      BY <1>0, <1>1, <1>9 DEF InSync, Shape, serveVars, corootVars
    <2>3. AboutToCreate' => AboutToCreate
      BY <2>1, <2>2 DEF AboutToCreate
    <2> QED
      BY <2>2, <2>3, BoardsKept
  <1>10. CASE Revoke
    <2>1. Shape' /\ UNCHANGED <<main, call, boards>>
      BY <1>0, <1>1, <1>10 DEF Revoke, Client!Revoke, Shape, serveVars, corootVars
    <2>2. AboutToCreate' => AboutToCreate
      BY <2>1 DEF AboutToCreate
    <2> QED
      BY <2>1, <2>2, BoardsKept
  <1>11. ASSUME NEW r \in stray, CarryLate(r) PROVE DashInv'
    <2>1. Effect(r, TRUE) /\ r.project \in Projects /\ r.by \in Starts
          /\ UNCHANGED <<main, call, incarnation>> /\ stray' \subseteq stray
      BY <1>1, <1>11 DEF CarryLate, Shape, clientVars, serveVars
    <2>2. Shape'
      BY <1>0, <1>1, <2>1, EffectShape DEF Shape
    <2>3. \A q \in Projects : OnlyLate(q) => OnlyLate(q)'
      BY <1>1, <2>1, EffectOne
    <2>4. CreatesOnce'
      BY <1>1, <2>1, <2>3 DEF CreatesOnce, AboutToCreate, OnlyLate, Shape
    <2>5. OneDashboard'
      BY <1>1, <2>1, EffectOne
    <2> QED
      BY <2>2, <2>4, <2>5 DEF DashInv
  <1>12. ASSUME NEW r \in stray, Lose(r) PROVE DashInv'
    <2>1. Shape' /\ UNCHANGED <<main, call, boards>>
      BY <1>0, <1>1, <1>12 DEF Lose, Shape, clientVars, serveVars
    <2>2. AboutToCreate' => AboutToCreate
      BY <2>1 DEF AboutToCreate
    <2> QED
      BY <2>1, <2>2, BoardsKept
  <1>13. CASE Restart
    <2>1. \A r \in LeftBehind :
             r.stage \in {"create", "save"} /\ r.project \in Projects /\ r.by \in Starts
      BY <1>1 DEF LeftBehind, Current, Shape
    <2>2. Shape' /\ ~AboutToCreate' /\ UNCHANGED boards
      BY <1>0, <1>1, <1>13, <2>1, StartupAssumption
      DEF Restart, Client!Forget, Shape, AboutToCreate, Projects, Stages, Starts
    <2> QED
      BY <2>2, BoardsKept
  <1>14. CASE UNCHANGED vars
    <2>1. Shape' /\ UNCHANGED <<main, call, boards>>
      BY <1>0, <1>1, <1>14 DEF vars, Shape, clientVars, serveVars, corootVars
    <2>2. AboutToCreate' => AboutToCreate
      BY <2>1 DEF AboutToCreate
    <2> QED
      BY <2>1, <2>2, BoardsKept
  <1> QED
    BY <1>3, <1>4, <1>5, <1>6, <1>7, <1>8, <1>9, <1>10, <1>11, <1>12, <1>13, <1>14
    DEF Next, Serve

\* However often the server starts, and wherever a start or an answer was cut off:
\* graft creates one dashboard per project, but for creates it had given up on.
THEOREM StartupOneDashboard == Spec => []OneDashboard
  <1>1. DashInv => OneDashboard
    BY DEF DashInv
  <1> QED
    BY <1>1, InitTyped, InitDashInv, NextTyped, NextDashInv, PTL DEF Spec
-----------------------------------------------------------------------------
(***************************************************************************)
(* Types: what the loops, the triggers and the installs have in common is  *)
(* the project Serve is at.                                                *)
(***************************************************************************)
Progress ==
    /\ looping \subseteq Projects
    /\ started \subseteq looping
    /\ installed \subseteq looping \cap Installs
    /\ main.stage \in Requests => main.project \in looping \cap Installs
    /\ main.stage = "trigger" => main.project \in looping

LEMMA NextProgress == Shape /\ Progress /\ [Next]_vars => Progress'
  <1> SUFFICES ASSUME Shape, Progress, [Next]_vars PROVE Progress'
    OBVIOUS
  <1> USE DEF Progress
  <1>1. main \in [stage : Stages, project : Projects, target : Nat]
    BY DEF Shape
  <1>2. CASE Register
    <2>1. /\ main'.project = main.project /\ main'.stage \in {"resolve", "trigger"}
          /\ main'.stage = "resolve" => main.project \in Installs
      BY <1>1, <1>2 DEF Register
    <2> QED
      BY <1>1, <1>2, <2>1 DEF Register, Requests
  <1>3. CASE Continue
    <2>1. main.project \in looping \cap Installs
      BY <1>3 DEF Continue
    <2>2. main'.project = main.project /\ installed' \subseteq installed \cup {main.project}
      BY <1>1, <1>3 DEF Continue
    <2> QED
      BY <1>3, <2>1, <2>2 DEF Continue
  <1>4. CASE Trigger
    <2>1. main.project \in looping /\ main'.stage \in {"listening", "register"}
      BY <1>4 DEF Trigger
    <2> QED
      BY <1>4, <2>1 DEF Trigger, Requests
  <1>5. CASE Carry
    <2>1. main'.project = main.project /\ main'.stage = main.stage
      BY <1>1, <1>5 DEF Carry
    <2> QED
      BY <1>5, <2>1 DEF Carry
  <1>6. CASE Restart
    BY <1>6 DEF Restart, Requests
  <1>7. CASE UNCHANGED serveVars
    BY <1>7 DEF serveVars
  <1> QED
    BY <1>2, <1>3, <1>4, <1>5, <1>6, <1>7
    DEF Next, Serve, Request, GiveUp, InSync, Revoke, CarryLate, Lose, vars

LEMMA InitProgress == Init => Progress
  BY DEF Init, Progress, Requests

\* Through any number of starts, what Serve and the loops hold and what is on its
\* way to Coroot keep their types: the installed and the started projects are
\* among those whose loop runs.
THEOREM StartupTyped == Spec => []TypeOK
  <1>1. Client!TypeOK /\ Shape /\ Progress => TypeOK
    BY DEF TypeOK, Shape, Progress, Starts
  <1>2. DashInv => Shape
    BY DEF DashInv
  <1> QED
    BY <1>1, <1>2, InitTyped, InitDashInv, InitProgress, NextTyped, NextDashInv,
       NextProgress, PTL DEF Spec

-----------------------------------------------------------------------------
(***************************************************************************)
(* An installed dashboard is current.                                      *)
(***************************************************************************)

\* The dashboard holds this process's configuration, or an older save came late.
Holds(p, i) == boards[p][i].content = incarnation \/ boards[p][i].savedLate

\* From the answer that named a dashboard until the end of the save.
HasTarget ==
    \/ main.stage = "list" /\ call[Main].at = "ok" /\ main.target # 0
    \/ main.stage = "create" /\ call[Main].at = "ok"
    \/ main.stage \in {"meta", "save"}

CurrentInv ==
    /\ HasTarget => main.target \in DOMAIN boards[main.project]
    /\ main.stage = "save" /\ call[Main].at = "ok" => Holds(main.project, main.target)
    /\ InstalledIsCurrent

\* What a request does leaves the dashboards that hold the configuration so.
LEMMA EffectHolds ==
    ASSUME Shape, NEW r, r.project \in Projects, r.by \in Starts, NEW late \in BOOLEAN,
           Effect(r, late), late \/ r.by = incarnation, incarnation' = incarnation
    PROVE  /\ \A p \in Projects : \A i \in DOMAIN boards[p] : Holds(p, i) => Holds(p, i)'
           /\ r.stage = "save" /\ r.target \in DOMAIN boards[r.project]
                => Holds(r.project, r.target)'
  <1> DEFINE q == r.project
             t == r.target
  <1>1. boards \in [Projects -> Seq(Board)] /\ boards[q] \in Seq(Board)
    BY DEF Shape
  <1>2. CASE r.stage = "create"
    <2>1. boards' = [boards EXCEPT ![q] = Append(boards[q], Created(late))]
      BY <1>2 DEF Effect
    <2>2. \A i \in DOMAIN boards[q] : Append(boards[q], Created(late))[i] = boards[q][i]
      BY <1>1
    <2>3. \A p \in Projects : \A i \in DOMAIN boards[p] : boards'[p][i] = boards[p][i]
      BY <1>1, <2>1, <2>2
    <2> QED
      BY <1>2, <2>3 DEF Holds
  <1>3. CASE r.stage = "save"
    <2> DEFINE new == [boards[q][t] EXCEPT !.content = r.by, !.savedLate = late]
               row == [boards[q] EXCEPT ![t] = new]
    <2>1. boards' = [boards EXCEPT ![q] = row]
      BY <1>3 DEF Effect
    <2>2. ASSUME t \in DOMAIN boards[q] PROVE new.content = r.by /\ new.savedLate = late
      <3>1. boards[q][t] \in Board
        BY <1>1, <2>2, Element
      <3> QED
        BY <3>1 DEF Board
    <2>3. \A p \in Projects : \A i \in DOMAIN boards[p] :
             boards'[p][i] = IF p = q /\ i = t THEN new ELSE boards[p][i]
      BY <1>1, <2>1
    <2> HIDE DEF new, row
    <2>4. ASSUME NEW p \in Projects, NEW i \in DOMAIN boards[p], Holds(p, i)
          PROVE  Holds(p, i)'
      BY <2>2, <2>3, <2>4 DEF Holds
    <2>5. ASSUME t \in DOMAIN boards[q] PROVE Holds(q, t)'
      BY <2>2, <2>3, <2>5 DEF Holds
    <2> QED
      BY <2>4, <2>5
  <1>4. CASE r.stage \notin {"create", "save"}
    BY <1>4 DEF Effect, Holds
  <1> QED
    BY <1>2, <1>3, <1>4

\* A step that leaves the dashboards and what is installed alone.
LEMMA CurrentKept ==
    ASSUME CurrentInv, UNCHANGED <<boards, installed, incarnation>>,
           HasTarget' => HasTarget /\ main'.target = main.target /\ main'.project = main.project,
           main'.stage = "save" /\ call'[Main].at = "ok" => UNCHANGED <<main, call[Main]>>
    PROVE  CurrentInv'
  BY DEF CurrentInv, Holds, InstalledIsCurrent

LEMMA InitCurrent == Init => CurrentInv
  BY DEF Init, CurrentInv, HasTarget, InstalledIsCurrent

LEMMA NextCurrent ==
    ASSUME Shape, Progress, CurrentInv, [Next]_vars
    PROVE  CurrentInv'
  <1>1. Main \in Callers /\ \A p \in Projects : p \in Callers /\ p # Main
    BY StartupAssumption DEF Callers, Projects, Main
  <1>2. main \in [stage : Stages, project : Projects, target : Nat]
    BY DEF Shape
  <1>3. CASE Register
    BY <1>2, <1>3, CurrentKept DEF Register, HasTarget, clientVars, corootVars
  <1>4. CASE Request
    <2>1. UNCHANGED <<main, boards, installed, incarnation>> /\ call'[Main].at # "ok"
      BY <1>4, RequestUnderWay DEF Request, serveVars, corootVars
    <2> QED
      BY <2>1, CurrentKept DEF HasTarget
  <1>5. CASE Carry
    <2>1. /\ Effect(Current, FALSE) /\ Current.project = main.project /\ main.project \in Projects
          /\ Current.stage = main.stage /\ Current.target = main.target
          /\ Current.by = incarnation /\ Current.by \in Starts
          /\ UNCHANGED <<installed, incarnation>>
      BY <1>2, <1>5 DEF Carry, Current, Shape
    <2>2. \A p \in Projects : \A i \in DOMAIN boards[p] : i \in DOMAIN boards'[p]
      BY <2>1, EffectShape
    <2>3. /\ \A p \in Projects : \A i \in DOMAIN boards[p] : Holds(p, i) => Holds(p, i)'
          /\ main.stage = "save" /\ main.target \in DOMAIN boards[main.project]
               => \/ boards'[main.project][main.target].content = incarnation'
                  \/ boards'[main.project][main.target].savedLate
      BY <2>1, EffectHolds DEF Holds
    <2>4. InstalledIsCurrent'
      <3>1. installed \subseteq Projects
        BY DEF Progress
      <3> QED
        BY <2>1, <2>2, <2>3, <3>1 DEF CurrentInv, InstalledIsCurrent, Holds
    <2>5. CASE main.stage = "list"
      <3>1. /\ main'.stage = "list" /\ main'.project = main.project
            /\ main'.target # 0 => main'.target \in DOMAIN boards[main.project]
        BY <1>2, <1>5, <2>5 DEF Carry
      <3> QED
        BY <2>1, <2>2, <2>4, <3>1 DEF CurrentInv, HasTarget
    <2>6. CASE main.stage = "create"
      <3>1. /\ main'.stage = "create" /\ main'.project = main.project
            /\ main'.target = Len(boards[main.project]) + 1
        <4>1. Len(boards[main.project]) + 1 \in Nat
          BY <2>1 DEF Shape
        <4> QED
          BY <1>2, <1>5, <2>6, <4>1 DEF Carry
      <3>2. boards'[main.project] = Append(boards[main.project], Created(FALSE))
        BY <2>1, <2>6 DEF Effect, Shape
      <3>3. Len(boards[main.project]) + 1 \in DOMAIN boards'[main.project]
        <4>1. boards[main.project] \in Seq(Board)
          BY <2>1 DEF Shape
        <4>2. DOMAIN Append(boards[main.project], Created(FALSE))
                  = 1..(Len(boards[main.project]) + 1)
          BY <4>1
        <4>3. Len(boards[main.project]) \in Nat
          BY <4>1
        <4> QED
          BY <3>2, <4>2, <4>3
      <3> QED
        BY <2>4, <3>1, <3>3 DEF CurrentInv
    <2>7. CASE main.stage \notin {"list", "create"}
      <3>1. main' = main
        BY <1>5, <2>7 DEF Carry
      <3>2. main.stage \in {"meta", "save"} => main.target \in DOMAIN boards[main.project]
        BY DEF CurrentInv, HasTarget
      <3> QED
        BY <2>1, <2>2, <2>3, <2>4, <2>7, <3>1, <3>2 DEF CurrentInv, HasTarget, Holds
    <2> QED
      BY <2>5, <2>6, <2>7
  <1>6. CASE GiveUp
    <2>1. call'[Main].at = "error"
      BY <1>1, <1>6 DEF GiveUp, Shape, Client!GiveUp, Client!Result, Client!Idle
    <2>2. UNCHANGED <<main, boards, installed, incarnation>>
      BY <1>6 DEF GiveUp, serveVars
    <2> QED
      BY <2>1, <2>2, CurrentKept DEF HasTarget
  <1>7. CASE Continue
    <2>1. call'[Main].at = "idle" /\ UNCHANGED <<boards, incarnation>>
      BY <1>1, <1>7 DEF Continue, Shape, Client!Return, Client!Idle, corootVars
    <2>2. CASE main' = [main EXCEPT !.stage = "trigger"] /\ installed' = installed
      BY <1>2, <2>1, <2>2, CurrentKept DEF HasTarget
    <2>3. CASE /\ call[Main].at = "ok"
               /\ main' = [main EXCEPT !.stage = AfterAnswer]
               /\ installed' = IF AfterAnswer = "trigger" THEN installed \cup {main.project}
                                                          ELSE installed
      <3>1. /\ main'.stage = AfterAnswer /\ main'.target = main.target
            /\ main'.project = main.project
        BY <1>2, <2>3
      <3>2. HasTarget' => HasTarget
        BY <2>1, <2>3, <3>1 DEF HasTarget, AfterAnswer
      <3>3. AfterAnswer = "trigger" => main.stage = "save"
        BY <1>7 DEF Continue, AfterAnswer, Requests
      <3>4. \A p \in installed' : \E i \in DOMAIN boards[p] : Holds(p, i)
        BY <2>3, <3>3 DEF CurrentInv, HasTarget, InstalledIsCurrent, Holds
      <3> QED
        BY <2>1, <3>1, <3>2, <3>4 DEF CurrentInv, InstalledIsCurrent, Holds
    <2> QED
      BY <1>7, <2>2, <2>3 DEF Continue
  <1>8. CASE Trigger
    BY <1>2, <1>8, CurrentKept DEF Trigger, HasTarget, clientVars, corootVars
  <1>9. ASSUME NEW p \in Projects, InSync(p) PROVE CurrentInv'
    <2>1. call'[Main] = call[Main]
      BY <1>1, <1>9, OtherCalls DEF InSync
    <2>2. UNCHANGED <<main, boards, installed, incarnation>>
      BY <1>9 DEF InSync, serveVars, corootVars
    <2> QED
      BY <2>1, <2>2, CurrentKept DEF HasTarget
  <1>10. CASE Revoke \/ (\E request \in stray : Lose(request)) \/ UNCHANGED vars
    <2>1. UNCHANGED <<main, call, boards, installed, incarnation>>
      BY <1>10
      DEF Revoke, Client!Revoke, Lose, vars, clientVars, serveVars, corootVars
    <2> QED
      BY <2>1, CurrentKept DEF HasTarget
  <1>11. ASSUME NEW r \in stray, CarryLate(r) PROVE CurrentInv'
    <2>1. /\ Effect(r, TRUE) /\ r.project \in Projects /\ r.by \in Starts
          /\ UNCHANGED <<main, call, installed, incarnation>>
      BY <1>11 DEF CarryLate, Shape, clientVars, serveVars
    <2>2. \A p \in Projects : \A i \in DOMAIN boards[p] : i \in DOMAIN boards'[p]
      BY <2>1, EffectShape
    <2>3. \A p \in Projects : \A i \in DOMAIN boards[p] : Holds(p, i) => Holds(p, i)'
      BY <2>1, EffectHolds
    <2>4. InstalledIsCurrent'
      <3>1. installed \subseteq Projects
        BY DEF Progress
      <3> QED
        BY <2>1, <2>2, <2>3, <3>1 DEF CurrentInv, InstalledIsCurrent, Holds
    <2> QED
      BY <1>2, <2>1, <2>2, <2>3, <2>4 DEF CurrentInv, HasTarget
  <1>12. CASE Restart
    BY <1>12 DEF Restart, CurrentInv, HasTarget, InstalledIsCurrent
  <1> QED
    BY <1>3, <1>4, <1>5, <1>6, <1>7, <1>8, <1>9, <1>10, <1>11, <1>12 DEF Next, Serve

\* A dashboard reported installed holds the configuration of the process that
\* reports it, whichever answers were lost and wherever earlier starts stopped,
\* unless a save that graft had given up on arrives later still.
THEOREM StartupInstallsCurrent == Spec => []InstalledIsCurrent
  <1>1. CurrentInv => InstalledIsCurrent
    BY DEF CurrentInv
  <1>2. DashInv => Shape
    BY DEF DashInv
  <1> QED
    BY <1>1, <1>2, InitTyped, InitDashInv, InitProgress, InitCurrent, NextTyped, NextDashInv,
       NextProgress, NextCurrent, PTL DEF Spec
=============================================================================
