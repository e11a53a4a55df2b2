------------------------- MODULE ProjectLoop_proofs -------------------------
(***************************************************************************)
(* Proofs about ProjectLoop: a trigger the channel had no room for is      *)
(* covered by one it holds, and the loop implements merged requests (the   *)
(* safety part; that requests are answered stays with TLC).                *)
(***************************************************************************)
EXTENDS ProjectLoop, SequenceTheorems, TLAPS

\* The inductive invariant: the channel and the triggers owed mirror each other.
LoopInv ==
    /\ TypeOK
    /\ DroppedTriggerIsCovered
    /\ QueuedReasonIsOwed

LEMMA TriggerKeepsInv ==
    ASSUME LoopInv, NEW reason \in Reasons, Trigger(reason)
    PROVE  /\ ch' \in Seq(Reasons) /\ Len(ch') <= Capacity /\ owed' \subseteq Reasons
           /\ owed' # {} /\ ch' # <<>>
           /\ \A i \in DOMAIN ch' : ch'[i] \in owed'
  <1> USE DEF LoopInv, TypeOK, Capacity
  <1>1. owed' = owed \cup {reason}
    BY DEF Trigger
  <1>2. CASE Len(ch) < Capacity
    <2>1. Len(ch) = 0 /\ ch = <<>>
      BY <1>2, EmptySeq
    <2>2. ch' = Append(ch, reason)
      BY <1>2 DEF Trigger
    <2>3. /\ ch' \in Seq(Reasons) /\ ch' # <<>> /\ Len(ch') = 1
          /\ ch'[1] = reason /\ DOMAIN ch' = 1..1
      BY <2>1, <2>2, AppendProperties, LenProperties
    <2> QED
      BY <1>1, <2>3
  <1>3. CASE ~(Len(ch) < Capacity)
    <2>1. ch' = ch /\ ch # <<>>
      BY <1>3 DEF Trigger
    <2> QED
      BY <1>1, <2>1 DEF QueuedReasonIsOwed
  <1> QED
    BY <1>2, <1>3

LEMMA EmptyChannel ==
    ASSUME NEW c, c = <<>>
    PROVE  c \in Seq(Reasons) /\ Len(c) = 0 /\ \A i \in DOMAIN c : FALSE
  <1>1. c \in Seq(Reasons) /\ Len(c) = 0
    BY EmptySeq
  <1>2. DOMAIN c = 1..0
    BY <1>1, LenProperties
  <1>3. \A i \in DOMAIN c : FALSE
    BY <1>2
  <1> QED
    BY <1>1, <1>3

LEMMA LoopInvInit == Init => LoopInv
  <1> SUFFICES ASSUME Init PROVE LoopInv
    OBVIOUS
  <1>1. ch \in Seq(Reasons) /\ Len(ch) = 0 /\ \A i \in DOMAIN ch : FALSE
    BY EmptyChannel DEF Init
  <1>2. owed = {} /\ server = "starting" /\ loop = "select"
    BY DEF Init
  <1>3. cancelled \in BOOLEAN /\ ticked \in BOOLEAN
    BY Zenon DEF Init
  <1> QED
    BY <1>1, <1>2, <1>3 DEF LoopInv, TypeOK, DroppedTriggerIsCovered, QueuedReasonIsOwed, Capacity

LEMMA LoopInvStep == LoopInv /\ [Next]_vars => LoopInv'
  <1> SUFFICES ASSUME LoopInv, [Next]_vars PROVE LoopInv'
    OBVIOUS
  <1> USE DEF LoopInv, TypeOK, DroppedTriggerIsCovered, QueuedReasonIsOwed
  <1>1. ASSUME NEW reason \in Reasons, Trigger(reason),
               server' \in {"starting", "serving", "down"}, cancelled' \in BOOLEAN,
               loop' \in {"select", "syncing", "stopped"}, ticked' \in BOOLEAN
        PROVE  LoopInv'
    BY <1>1, TriggerKeepsInv
  <1>2. CASE StartupTrigger
    BY <1>1, <1>2 DEF StartupTrigger, Reasons
  <1>3. ASSUME NEW reason \in HandlerReasons, Request(reason) PROVE LoopInv'
    BY <1>1, <1>3 DEF Request, Reasons
  <1>4. CASE SelectTick
    BY <1>1, <1>4 DEF SelectTick, Reasons
  <1>5. CASE SelectTrigger
    <2>1. owed' = {} /\ ch' = Tail(ch) /\ ch # <<>>
      BY <1>5 DEF SelectTrigger
    <2>2. ch' \in Seq(Reasons) /\ Len(ch') = Len(ch) - 1
      BY <2>1, HeadTailProperties
    <2>3. Len(ch') = 0
      BY <2>1, <2>2, EmptySeq DEF Capacity
    <2>4. \A i \in DOMAIN ch' : FALSE
      BY <2>2, <2>3, LenProperties
    <2> QED
      BY <1>5, <2>1, <2>2, <2>3, <2>4 DEF SelectTrigger, Capacity
  <1>6. CASE Cancel \/ Exit \/ Tick \/ SelectDone \/ SyncReturns
    BY <1>6 DEF Cancel, Exit, Tick, SelectDone, SyncReturns
  <1>7. CASE Boot
    <2>1. ch' \in Seq(Reasons) /\ Len(ch') = 0 /\ \A i \in DOMAIN ch' : FALSE
      BY <1>7, EmptyChannel DEF Boot
    <2>2. owed' = {} /\ server' = "starting" /\ loop' = "select"
      BY <1>7 DEF Boot
    <2>3. cancelled' \in BOOLEAN /\ ticked' \in BOOLEAN
      BY <1>7, Zenon DEF Boot
    <2> QED
      BY <2>1, <2>2, <2>3 DEF Capacity
  <1>8. CASE UNCHANGED vars
    BY <1>8 DEF vars
  <1> QED
    BY <1>2, <1>3, <1>4, <1>5, <1>6, <1>7, <1>8 DEF Next

\* Types, and the bound on the channel, hold in every behaviour.
THEOREM LoopTypeCorrect == Spec => []TypeOK
  <1>1. LoopInv => TypeOK
    BY DEF LoopInv
  <1> QED
    BY <1>1, LoopInvInit, LoopInvStep, PTL DEF Spec

\* No trigger is lost to a full channel: as long as one is owed a sync, the
\* channel holds a reason that will cause it.
THEOREM NoTriggerIsLost == Spec => []DroppedTriggerIsCovered
  <1>1. LoopInv => DroppedTriggerIsCovered
    BY DEF LoopInv
  <1> QED
    BY <1>1, LoopInvInit, LoopInvStep, PTL DEF Spec

\* No sync runs for a trigger that was already answered: the reason it will
\* report was given since the last sync began.
THEOREM NoSyncIsUnasked == Spec => []QueuedReasonIsOwed
  <1>1. LoopInv => QueuedReasonIsOwed
    BY DEF LoopInv
  <1> QED
    BY <1>1, LoopInvInit, LoopInvStep, PTL DEF Spec

LEMMA RequestsStep ==
    ASSUME LoopInv, [Next]_vars
    PROVE  [Requests!Next]_(Requests!vars)
  <1> USE DEF Requests!Next, Requests!vars
  <1>1. ASSUME NEW reason \in Reasons, Trigger(reason),
               UNCHANGED <<cancelled, loop>>, server # "down", server' # "down"
        PROVE  Requests!Ask
    BY <1>1 DEF Trigger, Requests!Ask
  <1>2. CASE StartupTrigger
    BY <1>1, <1>2 DEF StartupTrigger, Reasons
  <1>3. ASSUME NEW reason \in HandlerReasons, Request(reason) PROVE Requests!Ask
    BY <1>1, <1>3 DEF Request, Reasons
  <1>4. CASE Cancel
    BY <1>4 DEF Cancel, Requests!Stop
  <1>5. CASE Exit
    BY <1>5 DEF Exit, Requests!Stop
  <1>6. CASE Boot
    BY <1>6 DEF Boot, Requests!Boot
  <1>7. CASE SelectTick
    BY <1>7 DEF SelectTick, Trigger, Requests!Ask
  <1>8. CASE SelectTrigger
    <2>1. owed # {}
      BY <1>8 DEF SelectTrigger, LoopInv, QueuedReasonIsOwed, TypeOK
    <2> QED
      BY <1>8, <2>1 DEF SelectTrigger, Requests!Start
  <1>9. CASE SyncReturns
    BY <1>9 DEF SyncReturns, Requests!Finish
  <1>10. CASE Tick \/ SelectDone
    BY <1>10 DEF Tick, SelectDone
  <1>11. CASE UNCHANGED vars
    BY <1>11 DEF vars
  <1> QED
    BY <1>2, <1>3, <1>4, <1>5, <1>6, <1>7, <1>8, <1>9, <1>10, <1>11 DEF Next

\* Syncs of a project never overlap, none begins that was not asked for, and
\* asking is never undone but by the beginning of a sync (or the process's end).
THEOREM RequestsImplemented == Spec => Requests!SafeSpec
  <1>1. Init => Requests!Init
    BY DEF Init, Requests!Init
  <1>2. LoopInv /\ [Next]_vars => [Requests!Next]_(Requests!vars)
    BY RequestsStep
  <1> QED
    BY <1>1, <1>2, LoopInvInit, LoopInvStep, PTL DEF Spec, Requests!SafeSpec
=============================================================================
