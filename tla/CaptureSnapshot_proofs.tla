----------------------- MODULE CaptureSnapshot_proofs -----------------------
(***************************************************************************)
(* For any set of services: a captured snapshot tells what was observed.   *)
(***************************************************************************)
EXTENDS CaptureSnapshot, TLAPS

LEMMA InitProgress == Init => Progress
  BY DEF Init, Progress

LEMMA NextProgress == Progress /\ [Next]_vars => Progress'
  <1> SUFFICES ASSUME Progress, [Next]_vars PROVE Progress'
    OBVIOUS
  <1> USE DEF Progress
  <1>1. CASE ChooseWindows
    <2>1. stage' \in {"failed", "overview"}
      BY <1>1 DEF ChooseWindows
    <2> QED
      BY <1>1, <2>1 DEF ChooseWindows
  <1>2. CASE Overview
    BY <1>2 DEF Overview
  <1>3. ASSUME NEW s \in Services, LoadApplication(s) PROVE Progress'
    BY <1>3 DEF LoadApplication
  <1>4. CASE ActivityOverview
    BY <1>4 DEF ActivityOverview
  <1>5. ASSUME NEW s \in Services, Probe(s) PROVE Progress'
    BY <1>5 DEF Probe
  <1>6. CASE Return
    BY <1>6 DEF Return
  <1>7. CASE Fail
    BY <1>7 DEF Fail
  <1>8. CASE UNCHANGED vars
    BY <1>8 DEF vars
  <1> QED
    BY <1>1, <1>2, <1>3, <1>4, <1>5, <1>6, <1>7, <1>8 DEF Next

\* A captured snapshot takes a service for inactive exactly if it was not observed.
THEOREM CaptureTellsTheTruth == Spec => []ActivityIsObserved
  <1>1. Progress => ActivityIsObserved
    BY DEF Progress, ActivityIsObserved
  <1> QED
    BY <1>1, InitProgress, NextProgress, PTL DEF Spec
=============================================================================
