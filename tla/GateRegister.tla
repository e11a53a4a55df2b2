---------------------------- MODULE GateRegister ----------------------------
(***************************************************************************)
(* What a project's sync promises to everyone who reads the state store:   *)
(* the gate result of a project is a register.  A sync attempt that        *)
(* succeeds stores its own result, an attempt that fails leaves the        *)
(* register as it was, and only a restart of the process (the store is     *)
(* kept in memory) empties it.  SyncProject implements this module.        *)
(***************************************************************************)
EXTENDS Naturals

CONSTANT Attempts   \* bound on the number of sync attempts

VARIABLES
    status,         \* the project's status: "none", "running", "ok" or "error"
    attempt,        \* number of attempts begun so far; names the latest one
    result          \* the attempt whose result is stored, 0 if there is none

vars == <<status, attempt, result>>

Init ==
    /\ status = "none"
    /\ attempt = 0
    /\ result = 0

Begin ==
    /\ status # "running"
    /\ attempt < Attempts
    /\ status' = "running"
    /\ attempt' = attempt + 1
    /\ UNCHANGED result

Succeed ==
    /\ status = "running"
    /\ status' = "ok"
    /\ result' = attempt
    /\ UNCHANGED attempt

Fail ==
    /\ status = "running"
    /\ status' = "error"
    /\ UNCHANGED <<attempt, result>>

Restart ==
    /\ status' = "none"
    /\ result' = 0
    /\ UNCHANGED attempt

Next == Begin \/ Succeed \/ Fail \/ Restart

Spec == Init /\ [][Next]_vars
=============================================================================
