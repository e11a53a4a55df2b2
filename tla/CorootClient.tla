---------------------------- MODULE CorootClient ----------------------------
(***************************************************************************)
(* The one Coroot API client of a coroot-graft process (internal/coroot,   *)
(* doBytes and Login), shared by the goroutines that call it.  Its cookie  *)
(* jar is shared too: a request carries the session cookie the jar holds   *)
(* when it is sent, a request answered 401 logs in once and is sent again, *)
(* and the http_timeout ends each exchange Coroot does not answer.  Coroot *)
(* itself is external: a set of valid sessions, from which it may drop     *)
(* some at any time; a login adds one and ends none.                       *)
(***************************************************************************)
EXTENDS Naturals

CONSTANTS
    Callers,          \* the goroutines that use the client
    MaxSessions,      \* bound: sessions that can be told apart at a time
    MaxRevocations    \* bound on the times Coroot drops sessions

ClientAssumption ==
    /\ MaxSessions \in Nat \ {0}
    /\ MaxRevocations \in Nat

VARIABLES
    jar,          \* the session cookie in the jar, NoCookie before any login
    valid,        \* Coroot: the sessions it accepts
    revocations,  \* how often Coroot has dropped sessions (history)
    call,         \* per caller, its call of doBytes
    quiet         \* revocations when no caller was last in a call (history)

clientVars == <<jar, valid, revocations, call, quiet>>

NoCookie == 0
Sessions == 1..MaxSessions

\* A call that waits for Coroot or has to be sent again, and one that returned.
Waiting == {"sent", "login", "loggedIn", "retry"}
Results == {"ok", "error", "denied"}

\* cookie: the one the request carries or the login answered with.
Calls == [at : Waiting \cup Results \cup {"idle"}, tryLogin : BOOLEAN,
          cookie : Sessions \cup {NoCookie}]

Idle == [at |-> "idle", tryLogin |-> FALSE, cookie |-> NoCookie]

Quiet == \A c \in Callers : call[c].at = "idle"

Init ==
    /\ jar = NoCookie
    /\ valid = {}
    /\ revocations = 0
    /\ call = [c \in Callers |-> Idle]
    /\ quiet = 0

-----------------------------------------------------------------------------
(***************************************************************************)
(* A call of doBytes by c.                                                 *)
(***************************************************************************)

\* The first round of the loop: the request is sent with the jar's cookie.
Call(c) ==
    /\ call[c].at = "idle"
    /\ call' = [call EXCEPT ![c] = [at |-> "sent", tryLogin |-> TRUE, cookie |-> jar]]
    /\ quiet' = IF Quiet THEN revocations ELSE quiet
    /\ UNCHANGED <<jar, valid, revocations>>

\* The end of a call.
Result(c, result) == call' = [call EXCEPT ![c] = [Idle EXCEPT !.at = result]]

\* Faulty: a request whose answer is lost is sent again.
Execute_Resent(c) ==
    /\ call[c].at = "sent"
    /\ call[c].cookie \in valid
    /\ \/ Result(c, "ok")
       \/ call' = [call EXCEPT ![c].at = "retry"]
    /\ UNCHANGED <<jar, valid, revocations, quiet>>

\* Coroot accepts the session and carries the request out.  The answer arrives
\* and can be read, or it is lost: the caller cannot tell that from GiveUp.
Execute(c) ==
    /\ call[c].at = "sent"
    /\ call[c].cookie \in valid
    /\ Result(c, "ok") \/ Result(c, "error")
    /\ UNCHANGED <<jar, valid, revocations, quiet>>

\* 401: a login the first time, an HTTPError the second.
Deny(c) ==
    /\ call[c].at = "sent"
    /\ call[c].cookie \notin valid
    /\ \/ /\ call[c].tryLogin
          /\ call' = [call EXCEPT ![c].at = "login", ![c].tryLogin = FALSE]
       \/ /\ ~call[c].tryLogin
          /\ Result(c, "denied")
    /\ UNCHANGED <<jar, valid, revocations, quiet>>

\* Coroot accepts the login and answers with the cookie of a new session: any
\* number nobody holds, they are all alike.
Login(c) ==
    /\ call[c].at = "login"
    /\ LET fresh == Sessions \ (valid \cup {jar} \cup {call[d].cookie : d \in Callers})
           new == CHOOSE s \in fresh : TRUE
       IN  /\ fresh # {}
           /\ valid' = valid \cup {new}
           /\ call' = [call EXCEPT ![c].at = "loggedIn", ![c].cookie = new]
    /\ UNCHANGED <<jar, revocations, quiet>>

\* The answer arrives: http.Client puts the cookie into the jar.
StoreCookie(c) ==
    /\ call[c].at = "loggedIn"
    /\ jar' = call[c].cookie
    /\ call' = [call EXCEPT ![c].at = "retry"]
    /\ UNCHANGED <<valid, revocations, quiet>>

\* Faulty: the retry is sent with the cookie of the first attempt.
Resend_FirstCookie(c) ==
    /\ call[c].at = "retry"
    /\ call' = [call EXCEPT ![c].at = "sent", ![c].cookie = NoCookie]
    /\ UNCHANGED <<jar, valid, revocations, quiet>>

\* The second round of the loop: the jar may hold another caller's cookie by now.
Resend(c) ==
    /\ call[c].at = "retry"
    /\ call' = [call EXCEPT ![c].at = "sent", ![c].cookie = jar]
    /\ UNCHANGED <<jar, valid, revocations, quiet>>

\* Faulty: no timeout on the exchange; only what Coroot does ends a call.
GiveUp_Never(c) == FALSE

\* The request or its login ends in another error: http_timeout, a connection
\* that breaks, an HTTP status of 400 or above, a context that is done.
GiveUp(c) ==
    /\ call[c].at \in Waiting
    /\ Result(c, "error")
    /\ UNCHANGED <<jar, valid, revocations, quiet>>

\* The caller takes the result.
Return(c) ==
    /\ call[c].at \in Results
    /\ call' = [call EXCEPT ![c] = Idle]
    /\ UNCHANGED <<jar, valid, revocations, quiet>>

-----------------------------------------------------------------------------
\* Coroot drops some of its sessions: they expire, or it is restarted.
Revoke ==
    /\ revocations < MaxRevocations
    /\ \E dropped \in SUBSET valid \ {{}} : valid' = valid \ dropped
    /\ revocations' = revocations + 1
    /\ UNCHANGED <<jar, call, quiet>>

\* The process ends and is started again: the jar and the calls are in memory,
\* and nobody holds a cookie of the old sessions any more.
Forget ==
    /\ jar' = NoCookie
    /\ valid' = {}
    /\ call' = [c \in Callers |-> Idle]
    /\ UNCHANGED <<revocations, quiet>>

Next ==
    \/ \E c \in Callers :
          \/ Call(c)
          \/ Execute(c)
          \/ Deny(c)
          \/ Login(c)
          \/ StoreCookie(c)
          \/ Resend(c)
          \/ GiveUp(c)
          \/ Return(c)
    \/ Revoke
    \/ Forget

Spec == Init /\ [][Next]_clientVars

-----------------------------------------------------------------------------
\* Type invariant.
TypeOK ==
    /\ jar \in Sessions \cup {NoCookie}
    /\ valid \subseteq Sessions
    /\ revocations \in 0..MaxRevocations
    /\ call \in [Callers -> Calls]
    /\ quiet \in 0..MaxRevocations

\* One login per call is enough, whoever else logs in meanwhile: a caller sees 401
\* only if Coroot has dropped sessions since no call was last under way.  (Not
\* since its own call began: the answer to another's login may arrive late and put
\* a cookie into the jar that was dropped before.)
DeniedOnlyIfRevoked ==
    (\E c \in Callers : call[c].at = "denied") => revocations > quiet
=============================================================================
