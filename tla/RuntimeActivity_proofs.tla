----------------------- MODULE RuntimeActivity_proofs -----------------------
(***************************************************************************)
(* Proofs about RuntimeActivity: for every graph, every set of active      *)
(* services and every list of endpoints, the search records exactly the    *)
(* inactive services of each endpoint's dependency closure.  That it ends  *)
(* is a liveness property and stays with TLC; what is proved of it is that *)
(* each step descends, and that one is possible until the end.             *)
(***************************************************************************)
EXTENDS RuntimeActivity, SequenceTheorems, FiniteSetTheorems, TLAPS

-----------------------------------------------------------------------------
(***************************************************************************)
(* The dependency closure is the least closed set that has the entry.      *)
(***************************************************************************)

LEMMA RequiredType ==
    ASSUME TypeOK, NEW service
    PROVE  Required(service) \subseteq Nodes
  BY DEF TypeOK, Required, RequiredEdges, Edges

LEMMA ClosureHasEntry ==
    ASSUME NEW entry \in Nodes
    PROVE  entry \in Closure(entry)
  BY DEF Closure

LEMMA ClosureIsClosed ==
    ASSUME TypeOK, NEW entry \in Nodes, NEW s \in Closure(entry)
    PROVE  Required(s) \subseteq Closure(entry)
  BY RequiredType DEF Closure, Closed

LEMMA ClosureIsLeast ==
    ASSUME NEW entry, NEW S \in SUBSET Nodes, entry \in S, Closed(S)
    PROVE  Closure(entry) \subseteq S
  BY DEF Closure

LEMMA ClosureOfSameEdges ==
    ASSUME edges' = edges, NEW entry
    PROVE  Closure(entry)' = Closure(entry)
  BY DEF Closure, Closed, Required, RequiredEdges

-----------------------------------------------------------------------------
(***************************************************************************)
(* The stack.                                                              *)
(***************************************************************************)

LEMMA Pop ==
    ASSUME stack \in Seq(Nodes), stack # <<>>
    PROVE  /\ Top \in Nodes
           /\ Rest \in Seq(Nodes)
           /\ Range(stack) = {Top} \cup Range(Rest)
  <1>1. Len(stack) \in Nat \ {0} /\ DOMAIN stack = 1..Len(stack)
    BY EmptySeq, LenProperties
  <1>2. Top \in Nodes
    BY <1>1, LenProperties DEF Top
  <1>3. Rest \in Seq(Nodes) /\ Len(Rest) = Len(stack) - 1
    BY <1>1, SubSeqProperties DEF Rest
  <1>4. DOMAIN Rest = 1..(Len(stack) - 1)
    BY <1>3, LenProperties
  <1>5. \A i \in 1..(Len(stack) - 1) : Rest[i] = stack[i]
    BY <1>1, SubSeqProperties DEF Rest
  <1>6. \A i \in DOMAIN stack : i = Len(stack) \/ i \in DOMAIN Rest
    BY <1>1, <1>4
  <1>7. Len(stack) \in DOMAIN stack /\ \A i \in DOMAIN Rest : i \in DOMAIN stack
    BY <1>1, <1>4
  <1>8. Range(stack) \subseteq {Top} \cup Range(Rest)
    BY <1>4, <1>5, <1>6 DEF Range, Top
  <1>9. {Top} \cup Range(Rest) \subseteq Range(stack)
    BY <1>4, <1>5, <1>7 DEF Range, Top
  <1> QED
    BY <1>2, <1>3, <1>8, <1>9

LEMMA Push ==
    ASSUME NEW s \in Seq(Nodes), NEW S \in SUBSET Nodes, NEW order \in Orders(S)
    PROVE  /\ s \o order \in Seq(Nodes)
           /\ Range(s \o order) = Range(s) \cup S
  <1>1. Cardinality(S) \in Nat
    BY InputAssumption, FS_Subset, FS_CardinalityType
  <1>2. order \in Seq(Nodes) /\ DOMAIN order = 1..Cardinality(S)
    BY <1>1 DEF Orders
  <1>3. Range(order) = S
    BY <1>2 DEF Orders, Range
  <1>4. s \o order \in Seq(Nodes)
    BY <1>2, ConcatProperties
  <1>5. Range(s \o order) = Range(s) \cup Range(order)
    BY <1>2, RangeConcatenation
  <1> QED
    BY <1>3, <1>4, <1>5

-----------------------------------------------------------------------------
(***************************************************************************)
(* The inductive invariant: the search for endpoint e stays in the closure *)
(* of its entry, has visited or will visit the entry and whatever a        *)
(* visited service requires, and has collected what it visited.            *)
(***************************************************************************)
SearchInv ==
    e \in DOMAIN Entries =>
        /\ Entries[e] \in seen \cup Range(stack)
        /\ seen \cup Range(stack) \subseteq Closure(Entries[e])
        /\ \A s \in seen : Required(s) \subseteq seen \cup Range(stack)
        /\ missing = seen \cap Inactive

IInv ==
    /\ TypeOK
    /\ SearchInv
    /\ ImpactIsClosure

LEMMA EntriesType == \A i \in DOMAIN Entries : Entries[i] \in Nodes
  BY InputAssumption, ElementOfSeq, LenProperties

LEMMA EntriesDomain == DOMAIN Entries = 1..Len(Entries) /\ Len(Entries) \in Nat
  BY InputAssumption, LenProperties

\* The stack a search starts with.
LEMMA EntryStack ==
    ASSUME NEW i \in Nat
    PROVE  /\ EntryOf(i) \in Seq(Nodes)
           /\ i \in DOMAIN Entries => Range(EntryOf(i)) = {Entries[i]}
  <1>1. CASE i \in DOMAIN Entries
    <2>1. EntryOf(i) = <<Entries[i]>> /\ Entries[i] \in Nodes
      BY <1>1, EntriesType DEF EntryOf
    <2> QED
      BY <1>1, <2>1 DEF Range
  <1>2. CASE i \notin DOMAIN Entries
    BY <1>2, EmptySeq DEF EntryOf
  <1> QED
    BY <1>1, <1>2

LEMMA EmptyRange == ASSUME NEW s, s = <<>> PROVE Range(s) = {}
  <1>1. s \in Seq(Nodes) /\ Len(s) = 0
    BY EmptySeq
  <1>2. DOMAIN s = 1..0
    BY <1>1, LenProperties
  <1> QED
    BY <1>2 DEF Range

LEMMA NewSearch ==
    ASSUME NEW i \in Nat, NEW S, i \in DOMAIN Entries, S = Range(EntryOf(i))
    PROVE  Entries[i] \in S /\ S \subseteq Closure(Entries[i])
  BY EntryStack, EntriesType, ClosureHasEntry

LEMMA InitInv == Init => IInv
  <1> SUFFICES ASSUME Init PROVE IInv
    OBVIOUS
  <1>1. TypeOK
    BY InputAssumption, EntryStack, EntriesDomain DEF Init, TypeOK
  <1>2. SearchInv
    BY NewSearch DEF Init, SearchInv
  <1>3. ImpactIsClosure
    BY DEF Init, ImpactIsClosure
  <1> QED
    BY <1>1, <1>2, <1>3 DEF IInv

\* What was recorded stays right while edges and activity do not change.
LEMMA RecordedStays ==
    ASSUME IInv, UNCHANGED <<edges, active, e, impacted>>
    PROVE  ImpactIsClosure'
  BY ClosureOfSameEdges DEF IInv, ImpactIsClosure, Inactive

LEMMA SkipInv == IInv /\ Skip => IInv'
  <1> SUFFICES ASSUME IInv, Skip PROVE IInv'
    OBVIOUS
  <1>1. /\ stack \in Seq(Nodes) /\ stack # <<>> /\ Top \in seen /\ stack' = Rest
        /\ UNCHANGED <<edges, active, e, seen, missing, impacted>>
    BY DEF Skip, IInv, TypeOK
  <1>2. stack' \in Seq(Nodes) /\ Range(stack) = {Top} \cup Range(stack')
    BY <1>1, Pop
  <1>3. TypeOK'
    BY <1>1, <1>2 DEF IInv, TypeOK
  <1>4. seen' \cup Range(stack') = seen \cup Range(stack)
    BY <1>1, <1>2
  <1>5. SearchInv'
    BY <1>1, <1>4, ClosureOfSameEdges
       DEF IInv, SearchInv, Required, RequiredEdges, Inactive
  <1> QED
    BY <1>1, <1>3, <1>5, RecordedStays DEF IInv

LEMMA VisitInv == IInv /\ Visit => IInv'
  <1> SUFFICES ASSUME IInv, Visit PROVE IInv'
    OBVIOUS
  <1>1. /\ stack \in Seq(Nodes) /\ stack # <<>>
        /\ seen' = seen \cup {Top}
        /\ missing' = missing \cup ({Top} \cap Inactive)
        /\ UNCHANGED <<edges, active, e, impacted>>
    BY DEF Visit, IInv, TypeOK
  <1>2. PICK order \in Orders(Required(Top)) : stack' = Rest \o order
    BY DEF Visit
  <1>3. Required(Top) \in SUBSET Nodes
    BY RequiredType DEF IInv
  <1>4. /\ Top \in Nodes /\ Rest \in Seq(Nodes)
        /\ Range(stack) = {Top} \cup Range(Rest)
    BY <1>1, Pop
  <1>5. stack' \in Seq(Nodes) /\ Range(stack') = Range(Rest) \cup Required(Top)
    BY <1>2, <1>3, <1>4, Push
  <1>6. seen' \cup Range(stack') = seen \cup Range(stack) \cup Required(Top)
    BY <1>1, <1>4, <1>5
  <1>7. TypeOK'
    BY <1>1, <1>4, <1>5 DEF IInv, TypeOK, Inactive
  <1>8. SearchInv'
    <2>1. SUFFICES ASSUME e \in DOMAIN Entries
                   PROVE  /\ Entries[e] \in seen' \cup Range(stack')
                          /\ seen' \cup Range(stack') \subseteq Closure(Entries[e])
                          /\ \A s \in seen' : Required(s) \subseteq seen' \cup Range(stack')
                          /\ missing' = seen' \cap Inactive
      BY <1>1, ClosureOfSameEdges DEF SearchInv, Required, RequiredEdges, Inactive
    <2>2. /\ Entries[e] \in seen \cup Range(stack)
          /\ seen \cup Range(stack) \subseteq Closure(Entries[e])
          /\ \A s \in seen : Required(s) \subseteq seen \cup Range(stack)
          /\ missing = seen \cap Inactive
      BY <2>1 DEF IInv, SearchInv
    <2>3. Top \in Closure(Entries[e])
      BY <2>2, <1>4
    <2>4. Required(Top) \subseteq Closure(Entries[e])
      BY <2>1, <2>3, EntriesType, ClosureIsClosed DEF IInv
    <2> QED
      BY <1>1, <1>6, <2>2, <2>4
  <1> QED
    BY <1>1, <1>7, <1>8, RecordedStays DEF IInv

LEMMA NextEndpointInv == IInv /\ NextEndpoint => IInv'
  <1> SUFFICES ASSUME IInv, NextEndpoint PROVE IInv'
    OBVIOUS
  <1>1. /\ stack = <<>> /\ e \in DOMAIN Entries /\ e \in Nat /\ e' = e + 1
        /\ impacted' = [impacted EXCEPT ![e] = missing]
        /\ stack' = EntryOf(e + 1) /\ seen' = {} /\ missing' = {}
        /\ UNCHANGED <<edges, active>>
    BY EntriesDomain DEF NextEndpoint
  <1>2. TypeOK'
    <2>1. e' \in 1..(Len(Entries) + 1) /\ e' \in Nat /\ stack' = EntryOf(e')
      BY <1>1, EntriesDomain
    <2>2. impacted' \in [DOMAIN Entries -> SUBSET Services]
      BY <1>1 DEF IInv, TypeOK
    <2>3. stack' \in Seq(Nodes)
      BY <2>1, EntryStack, Zenon
    <2> QED
      BY <1>1, <2>1, <2>2, <2>3 DEF IInv, TypeOK
  <1>3. SearchInv'
    <2>1. SUFFICES ASSUME e' \in DOMAIN Entries
                   PROVE  /\ Entries[e'] \in (seen \cup Range(stack))'
                          /\ (seen \cup Range(stack))' \subseteq Closure(Entries[e])'
      BY <1>1 DEF SearchInv, Inactive
    <2>2. e' \in Nat /\ stack' = EntryOf(e') /\ seen' = {}
      BY <1>1
    <2>3. Entries[e'] \in Range(EntryOf(e')) /\ Range(EntryOf(e')) \subseteq Closure(Entries[e'])
      BY <2>1, <2>2, NewSearch, Zenon
    <2>4. Closure(Entries[e])' = Closure(Entries[e'])
      BY <1>1 DEF Closure, Closed, Required, RequiredEdges
    <2> QED
      BY <2>2, <2>3, <2>4
  <1>4. missing = Closure(Entries[e]) \cap Inactive
    <2>1. Range(stack) = {}
      BY <1>1, EmptyRange
    <2>2. /\ Entries[e] \in seen /\ seen \subseteq Closure(Entries[e])
          /\ \A s \in seen : Required(s) \subseteq seen
          /\ missing = seen \cap Inactive
      BY <1>1, <2>1 DEF IInv, SearchInv
    <2>3. Closure(Entries[e]) \subseteq seen
      BY <2>2, ClosureIsLeast DEF Closed, IInv, TypeOK
    <2> QED
      BY <2>2, <2>3
  <1>5. ImpactIsClosure'
    <2>1. SUFFICES ASSUME NEW i \in 1..e
                   PROVE  impacted'[i] = Closure(Entries[i]) \cap Inactive
      BY <1>1, ClosureOfSameEdges DEF ImpactIsClosure, Inactive
    <2>2. i \in DOMAIN impacted
      BY <1>1, EntriesDomain DEF IInv, TypeOK
    <2>3. CASE i = e
      BY <1>1, <1>4, <2>2, <2>3
    <2>4. CASE i # e
      BY <1>1, <2>2, <2>4 DEF IInv, ImpactIsClosure
    <2> QED
      BY <2>3, <2>4
  <1> QED
    BY <1>2, <1>3, <1>5 DEF IInv

LEMMA StepInv == IInv /\ [Next]_vars => IInv'
  <1> SUFFICES ASSUME IInv, [Next]_vars PROVE IInv'
    OBVIOUS
  <1>1. CASE UNCHANGED vars
    <2>1. UNCHANGED <<edges, active, e, stack, seen, missing, impacted>>
      BY <1>1 DEF vars
    <2> QED
      BY <2>1, RecordedStays, ClosureOfSameEdges
         DEF IInv, TypeOK, SearchInv, Required, RequiredEdges, Inactive
  <1> QED
    BY <1>1, SkipInv, VisitInv, NextEndpointInv DEF Next

\* For every graph, also a cyclic one, and every activity, the services recorded
\* for an endpoint are the inactive ones of its dependency closure.
THEOREM ImpactCorrect == Spec => []ImpactIsClosure
  <1>1. IInv => ImpactIsClosure
    BY DEF IInv
  <1> QED
    BY <1>1, InitInv, StepInv, PTL DEF Spec

\* The search never leaves the types of its variables.
THEOREM SearchTypeCorrect == Spec => []TypeOK
  <1>1. IInv => TypeOK
    BY DEF IInv
  <1> QED
    BY <1>1, InitInv, StepInv, PTL DEF Spec

-----------------------------------------------------------------------------
(***************************************************************************)
(* Why the search ends, but for fairness: a step is always possible before *)
(* the last endpoint is done, and each step descends in a well-founded     *)
(* order: endpoints left, then nodes not visited, then services to visit.  *)
(***************************************************************************)
EndpointsLeft == Len(Entries) + 1 - e
Unseen == Nodes \ seen

Descends ==
    /\ EndpointsLeft \in Nat /\ Cardinality(Unseen) \in Nat /\ Len(stack) \in Nat
    /\ \/ EndpointsLeft' < EndpointsLeft
       \/ UNCHANGED EndpointsLeft /\ Cardinality(Unseen)' < Cardinality(Unseen)
       \/ UNCHANGED <<EndpointsLeft, Unseen>> /\ Len(stack)' < Len(stack)

LEMMA MeasureType ==
    ASSUME TypeOK
    PROVE  EndpointsLeft \in Nat /\ IsFiniteSet(Unseen) /\ Cardinality(Unseen) \in Nat
           /\ Len(stack) \in Nat
  <1>1. e \in 1..(Len(Entries) + 1) /\ Len(Entries) \in Nat /\ stack \in Seq(Nodes)
    BY EntriesDomain DEF TypeOK
  <1>2. IsFiniteSet(Unseen) /\ Cardinality(Unseen) \in Nat
    BY InputAssumption, FS_Subset, FS_CardinalityType DEF Unseen
  <1> QED
    BY <1>1, <1>2, LenProperties DEF EndpointsLeft

\* Whatever the graph, no step of the search, popping a service for the second time
\* included, leaves as much to do as there was: a cycle cannot keep it busy.
THEOREM SearchDescends == Spec => [][Descends]_vars
  <1>1. ASSUME TypeOK, Next PROVE Descends
    <2>1. /\ EndpointsLeft \in Nat /\ IsFiniteSet(Unseen) /\ Cardinality(Unseen) \in Nat
          /\ Len(stack) \in Nat
      BY <1>1, MeasureType
    <2>2. stack \in Seq(Nodes) /\ e \in 1..(Len(Entries) + 1) /\ Len(Entries) \in Nat
      BY <1>1, EntriesDomain DEF TypeOK
    <2>3. CASE Skip
      <3>1. stack # <<>> /\ stack' = Rest /\ UNCHANGED <<e, seen>>
        BY <2>3 DEF Skip
      <3>2. Len(stack) > 0 /\ Len(Rest) = Len(stack) - 1
        <4>1. Len(stack) \in Nat \ {0}
          BY <2>2, <3>1, EmptySeq, LenProperties
        <4> QED
          BY <2>2, <4>1, SubSeqProperties DEF Rest
      <3>3. UNCHANGED <<EndpointsLeft, Unseen>>
        BY <3>1 DEF EndpointsLeft, Unseen
      <3> QED
        BY <2>1, <3>1, <3>2, <3>3 DEF Descends
    <2>4. CASE Visit
      <3>1. stack # <<>> /\ Top \notin seen /\ seen' = seen \cup {Top} /\ UNCHANGED e
        BY <2>4 DEF Visit
      <3>2. Top \in Unseen /\ Unseen' = Unseen \ {Top}
        BY <2>2, <3>1, Pop DEF Unseen
      <3>3. Cardinality(Unseen') = Cardinality(Unseen) - 1
        BY <2>1, <3>2, FS_RemoveElement
      <3>4. UNCHANGED EndpointsLeft
        BY <3>1 DEF EndpointsLeft
      <3>5. Cardinality(Unseen)' < Cardinality(Unseen)
        BY <2>1, <3>3
      <3> QED
        BY <2>1, <3>4, <3>5 DEF Descends
    <2>5. CASE NextEndpoint
      <3>1. EndpointsLeft' < EndpointsLeft
        BY <2>2, <2>5 DEF NextEndpoint, EndpointsLeft
      <3> QED
        BY <2>1, <3>1 DEF Descends
    <2> QED
      BY <1>1, <2>3, <2>4, <2>5 DEF Next
  <1>2. IInv => TypeOK
    BY DEF IInv
  <1> QED
    BY <1>1, <1>2, InitInv, StepInv, PTL DEF Spec

\* The services an endpoint needs can be pushed in some order.
LEMMA OrdersThere == ASSUME NEW S, IsFiniteSet(S) PROVE Orders(S) # {}
  <1>1. PICK order \in Bijection(1..Cardinality(S), S) : TRUE
    BY FS_CardinalityType DEF ExistsBijection
  <1>2. order \in Orders(S)
    BY <1>1 DEF Bijection, Injection, Surjection, Orders
  <1> QED
    BY <1>2

\* The guard of one of the three steps.
GoesOn ==
    \/ stack # <<>> /\ Top \in seen
    \/ stack # <<>> /\ Top \notin seen /\ Orders(Required(Top)) # {}
    \/ stack = <<>> /\ e \in DOMAIN Entries

\* The search does not stop before every endpoint has its result.
THEOREM SearchGoesOn == Spec => [](e <= Len(Entries) => GoesOn)
  <1>1. ASSUME TypeOK, e <= Len(Entries) PROVE GoesOn
    <2>1. e \in DOMAIN Entries
      BY <1>1, EntriesDomain DEF TypeOK
    <2>2. Orders(Required(Top)) # {}
      BY <1>1, RequiredType, InputAssumption, FS_Subset, OrdersThere
    <2> QED
      BY <2>1, <2>2 DEF GoesOn
  <1>2. IInv => (e <= Len(Entries) => GoesOn)
    BY <1>1 DEF IInv
  <1> QED
    BY <1>2, InitInv, StepInv, PTL DEF Spec
=============================================================================
