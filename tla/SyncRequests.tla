---------------------------- MODULE SyncRequests ----------------------------
(***************************************************************************)
(* What the server promises to those who ask for a sync of a project (the  *)
(* startup, the interval timer, the manual endpoint, Coroot's webhook):    *)
(* requests are merged, never lost.  A sync begins only if one was asked   *)
(* for since the last one began, it answers all that were asked for, one   *)
(* sync runs at a time, and while the server is up a request is answered.  *)
(***************************************************************************)
VARIABLES
    up,         \* TRUE until the server is told to stop
    wanted,     \* has a sync been asked for since the last one began?
    running     \* is a sync under way?

vars == <<up, wanted, running>>

Init ==
    /\ up = TRUE
    /\ wanted = FALSE
    /\ running = FALSE

Ask ==
    /\ wanted' = TRUE
    /\ UNCHANGED <<up, running>>

Start ==
    /\ wanted
    /\ ~running
    /\ wanted' = FALSE
    /\ running' = TRUE
    /\ UNCHANGED up

Finish ==
    /\ running
    /\ running' = FALSE
    /\ UNCHANGED <<up, wanted>>

\* The server is told to stop; once it is, a sync under way may be cut off.
Stop ==
    /\ up' = FALSE
    /\ running' \in {running, FALSE}
    /\ UNCHANGED wanted

\* The process has stopped and is started again.
Boot ==
    /\ ~up
    /\ up' = TRUE
    /\ wanted' = FALSE
    /\ running' = FALSE

Next == Ask \/ Start \/ Finish \/ Stop \/ Boot

Answered == wanted ~> (~wanted \/ ~up)

SafeSpec == Init /\ [][Next]_vars
Spec == SafeSpec /\ Answered
=============================================================================
