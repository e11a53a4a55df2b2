------------------------ MODULE TopologyBuild_proofs ------------------------
(***************************************************************************)
(* For every configuration and snapshot: the topology that Build returns   *)
(* is the reference's, and an override has the last word.                  *)
(***************************************************************************)
EXTENDS TopologyBuild, TLAPS

\* The overrides of a pair that have been applied, and those that state a field.
Done(pair) == {i \in OverridesOf(pair) : i <= applied}
DoneStating(pair, field) == {i \in Done(pair) : input.overrides[i][field] # Unset}

\* While the applications are added: the edges of those added so far, inferred.
AppsInv ==
    stage = "apps" =>
        /\ applied = 0
        /\ services = Kept \ todo
        /\ DOMAIN edges = {pair \in services \X Kept : input.links[pair] # Unset}
        /\ \A pair \in DOMAIN edges : edges[pair] = InferEdge(pair)

\* While the overrides are applied: an edge none of them has touched is still the
\* inferred one, another is the reference for the overrides applied so far.
KindSoFar(pair) ==
    IF DoneStating(pair, "kind") # {}
    THEN \A i \in Last(DoneStating(pair, "kind")) : edges[pair].kind = input.overrides[i].kind
    ELSE edges[pair].kind = "sync"

BlockingSoFar(pair) ==
    IF DoneStating(pair, "blocking") # {}
    THEN \A i \in Last(DoneStating(pair, "blocking")) :
            edges[pair].blocking <=> input.overrides[i].blocking = "yes"
    ELSE edges[pair].blocking <=>
            \/ input.links[pair] # Unset
            \/ \A i \in First(Done(pair)) : input.overrides[i].kind # "async"

OverridesInv ==
    stage \in {"overrides", "done"} =>
        /\ services = Kept
        /\ DOMAIN edges = {pair \in Kept \X Kept : input.links[pair] # Unset \/ Done(pair) # {}}
        /\ \A pair \in DOMAIN edges :
              IF Done(pair) = {} THEN edges[pair] = InferEdge(pair)
                                 ELSE KindSoFar(pair) /\ BlockingSoFar(pair)

FilterInv == stage = "filter" => applied = 0 /\ services = {} /\ DOMAIN edges = {}

Complete == stage = "done" => applied = Len(input.overrides)

IInv == TypeOK /\ FilterInv /\ AppsInv /\ OverridesInv /\ Complete

-----------------------------------------------------------------------------
LEMMA InferEdgeType ==
    ASSUME NEW pair
    PROVE  InferEdge(pair) \in Edge
  BY DEF InferEdge, Edge

LEMMA OverrideFields ==
    ASSUME TypeOK, NEW i \in DOMAIN input.overrides
    PROVE  /\ input.overrides[i] \in Overrides
           /\ i \in Nat
  BY DEF TypeOK, Input

LEMMA InitIInv == Init => IInv
  <1> SUFFICES ASSUME Init PROVE IInv
    OBVIOUS
  <1>1. input \in Input
    BY BuildAssumption DEF Init
  <1>2. DOMAIN edges = {} /\ DOMAIN endpoints = {}
    BY DEF Init
  <1>3. applied \in 0..Len(input.overrides)
    BY <1>1 DEF Init, Input
  <1> QED
    BY <1>1, <1>2, <1>3 DEF Init, IInv, TypeOK, FilterInv, AppsInv, OverridesInv, Complete

LEMMA NextTypeOK == TypeOK /\ [Next]_vars => TypeOK'
  <1> SUFFICES ASSUME TypeOK, [Next]_vars PROVE TypeOK'
    OBVIOUS
  <1> USE DEF TypeOK
  <1>1. input' = input /\ Kept' = Kept
    BY DEF Next, Filter, AddApp, AppsDone, ApplyOverride, Finish, vars, Kept, Keeps
  <1>2. Len(input.overrides) \in Nat
    BY DEF Input
  <1>3. CASE Filter
    BY <1>1, <1>3 DEF Filter
  <1>4. ASSUME NEW a \in todo, AddApp(a) PROVE TypeOK'
    <2>1. DOMAIN edges' = DOMAIN edges \cup Observed(a) /\ Observed(a) \subseteq Kept \X Kept
      BY <1>4 DEF AddApp, Observed
    <2>2. \A pair \in DOMAIN edges' : edges'[pair] \in Edge
      BY <1>4, InferEdgeType DEF AddApp
    <2>3. \A id \in DOMAIN endpoints' : endpoints'[id] \in services'
      BY <1>4 DEF AddApp
    <2> QED
      BY <1>1, <1>4, <2>1, <2>2, <2>3 DEF AddApp
  <1>5. CASE AppsDone
    BY <1>1, <1>5 DEF AppsDone
  <1>6. CASE ApplyOverride
    <2> DEFINE ov == input.overrides[applied + 1]
    <2>1. applied + 1 \in DOMAIN input.overrides
      BY <1>2, <1>6 DEF ApplyOverride, Input
    <2>2. ov \in Overrides
      BY <2>1, OverrideFields
    <2>3. DOMAIN edges' \subseteq Kept \X Kept
      BY <1>6 DEF ApplyOverride, Override
    <2>4. \A pair \in DOMAIN edges' : edges'[pair] \in Edge
      <3>1. CASE ov.from \in Kept /\ ov.to \in Kept
        <4>1. Override(ov)
          BY <1>6, <3>1 DEF ApplyOverride
        <4> QED
          BY <2>2, <4>1 DEF Override, Edge, Overrides
      <3>2. CASE ~(ov.from \in Kept /\ ov.to \in Kept)
        BY <1>6, <3>2 DEF ApplyOverride
      <3> QED
        BY <3>1, <3>2
    <2> QED
      BY <1>1, <1>2, <1>6, <2>3, <2>4 DEF ApplyOverride
  <1>7. CASE Finish
    BY <1>1, <1>7 DEF Finish
  <1>8. CASE UNCHANGED vars
    BY <1>1, <1>8 DEF vars
  <1> QED
    BY <1>3, <1>4, <1>5, <1>6, <1>7, <1>8 DEF Next

\* Build never changes its input, nor what is derived from it alone.
LEMMA InputKept ==
    ASSUME [Next]_vars
    PROVE  /\ input' = input
           /\ Kept' = Kept
           /\ \A pair : OverridesOf(pair)' = OverridesOf(pair)
           /\ \A pair : InferEdge(pair)' = InferEdge(pair)
  <1>1. input' = input
    BY DEF Next, Filter, AddApp, AppsDone, ApplyOverride, Finish, vars
  <1> QED
    BY <1>1 DEF Kept, Keeps, OverridesOf, InferEdge

LEMMA NextAppsInv == TypeOK /\ FilterInv /\ AppsInv /\ [Next]_vars => AppsInv'
  <1> SUFFICES ASSUME TypeOK, FilterInv, AppsInv, [Next]_vars, stage' = "apps"
               PROVE  /\ applied' = 0
                      /\ services' = Kept' \ todo'
                      /\ DOMAIN edges' = {pair \in services' \X Kept' : input'.links[pair] # Unset}
                      /\ \A pair \in DOMAIN edges' : edges'[pair] = InferEdge(pair)'
    BY DEF AppsInv
  <1>1. input' = input /\ Kept' = Kept /\ \A pair : InferEdge(pair)' = InferEdge(pair)
    BY InputKept
  <1>2. CASE Filter
    BY <1>1, <1>2 DEF Filter, FilterInv
  <1>3. ASSUME NEW a \in todo, AddApp(a)
        PROVE  /\ applied' = 0
               /\ services' = Kept' \ todo'
               /\ DOMAIN edges' = {pair \in services' \X Kept' : input'.links[pair] # Unset}
               /\ \A pair \in DOMAIN edges' : edges'[pair] = InferEdge(pair)'
    <2>1. a \in Kept
      BY DEF TypeOK
    <2>2. DOMAIN edges' = DOMAIN edges \cup Observed(a)
      BY <1>3 DEF AddApp
    <2>3. services' = services \cup {a} /\ services' = Kept' \ todo' /\ applied' = 0
      BY <1>1, <1>3, <2>1 DEF AddApp, AppsInv
    <2>4. DOMAIN edges' = {pair \in services' \X Kept' : input'.links[pair] # Unset}
      BY <1>1, <1>3, <2>2, <2>3 DEF AddApp, AppsInv, Observed
    <2>5. \A pair \in DOMAIN edges' : edges'[pair] = InferEdge(pair)
      BY <1>3 DEF AddApp, AppsInv
    <2> QED
      BY <1>1, <2>3, <2>4, <2>5
  <1>4. CASE AppsDone \/ ApplyOverride \/ Finish
    BY <1>4 DEF AppsDone, ApplyOverride, Finish
  <1>5. CASE UNCHANGED vars
    BY <1>1, <1>5 DEF vars, AppsInv
  <1> QED
    BY <1>2, <1>3, <1>4, <1>5 DEF Next

\* What one more override does to the overrides of a pair that have been applied.
LEMMA DoneGrows ==
    ASSUME TypeOK, [Next]_vars, applied' = applied + 1, applied < Len(input.overrides),
           NEW pair
    PROVE  /\ applied + 1 \in OverridesOf(pair) => Done(pair)' = Done(pair) \cup {applied + 1}
           /\ applied + 1 \notin OverridesOf(pair) => Done(pair)' = Done(pair)
           /\ \A i \in Done(pair) : i \in Nat /\ i < applied + 1
           /\ applied + 1 \notin Done(pair)
  <1>1. OverridesOf(pair)' = OverridesOf(pair)
    BY InputKept
  <1>2. \A i \in OverridesOf(pair) : i \in Nat
    BY OverrideFields DEF OverridesOf
  <1>3. applied \in Nat
    BY DEF TypeOK, Input
  <1> QED
    BY <1>1, <1>2, <1>3 DEF Done

\* The next override, applied to its pair.
LEMMA OverrideStep ==
    ASSUME TypeOK, OverridesInv, ApplyOverride,
           NEW pair \in Kept \X Kept, applied + 1 \in OverridesOf(pair)
    PROVE  KindSoFar(pair)' /\ BlockingSoFar(pair)'
  <1> DEFINE n == applied + 1
             ov == input.overrides[n]
  <1>1. /\ applied' = applied + 1 /\ applied < Len(input.overrides) /\ input' = input
        /\ [Next]_vars
    BY DEF ApplyOverride, Next
  <1>2. ov \in Overrides /\ pair = <<ov.from, ov.to>> /\ n \in Nat
    BY OverrideFields DEF OverridesOf
  <1>0. applied \in Nat
    BY DEF TypeOK, Input
  <1>3. /\ Done(pair)' = Done(pair) \cup {n}
        /\ \A i \in Done(pair) : i \in Nat /\ i < n
    BY <1>1, DoneGrows
  <1>4. DoneStating(pair, "kind")' = IF ov.kind = Unset THEN DoneStating(pair, "kind")
                                     ELSE DoneStating(pair, "kind") \cup {n}
    BY <1>1, <1>3 DEF DoneStating
  <1>5. DoneStating(pair, "blocking")' = IF ov.blocking = Unset THEN DoneStating(pair, "blocking")
                                         ELSE DoneStating(pair, "blocking") \cup {n}
    BY <1>1, <1>3 DEF DoneStating
  <1> DEFINE old == IF pair \in DOMAIN edges THEN edges[pair]
                    ELSE [kind |-> "sync", blocking |-> ov.kind # "async"]
  <1>6. edges'[pair] = [kind |-> IF ov.kind = Unset THEN old.kind ELSE ov.kind,
                        blocking |-> IF ov.blocking = Unset THEN old.blocking
                                                            ELSE ov.blocking = "yes"]
    <2>1. Override(ov)
      BY <1>2 DEF ApplyOverride
    <2> QED
      BY <1>2, <2>1 DEF Override
  <1>11. KindSoFar(pair)' <=>
           IF DoneStating(pair, "kind")' # {}
           THEN \A i \in Last(DoneStating(pair, "kind")') :
                   edges'[pair].kind = input.overrides[i].kind
           ELSE edges'[pair].kind = "sync"
    BY <1>1 DEF KindSoFar, Last
  <1>12. BlockingSoFar(pair)' <=>
           IF DoneStating(pair, "blocking")' # {}
           THEN \A i \in Last(DoneStating(pair, "blocking")') :
                   edges'[pair].blocking <=> input.overrides[i].blocking = "yes"
           ELSE edges'[pair].blocking <=>
                   \/ input.links[pair] # Unset
                   \/ \A i \in First(Done(pair)') : input.overrides[i].kind # "async"
    BY <1>1 DEF BlockingSoFar, Last, First
  <1>7. \A f \in {"kind", "blocking"} :
           /\ ov[f] # Unset => Last(DoneStating(pair, f) \cup {n}) = {n}
           /\ n \notin DoneStating(pair, f)
    BY <1>2, <1>3 DEF Last, DoneStating
  <1>8. pair \in DOMAIN edges <=> input.links[pair] # Unset \/ Done(pair) # {}
    BY DEF OverridesInv, ApplyOverride
  <1>9. CASE Done(pair) = {}
    <2>1. DoneStating(pair, "kind") = {} /\ DoneStating(pair, "blocking") = {}
      BY <1>9 DEF DoneStating
    <2>2. First(OverridesOf(pair)) = {n}
      <3>1. \A i \in OverridesOf(pair) : i \in Nat /\ i > applied
        BY <1>0, <1>1, <1>9, OverrideFields DEF Done, OverridesOf
      <3> QED
        BY <1>0, <1>2, <3>1 DEF First
    <2>3. First(Done(pair)') = {n}
      BY <1>2, <1>3, <1>9 DEF First
    <2>4. pair \in DOMAIN edges =>
             edges[pair] = [kind |-> IF ov.kind = "async" THEN "async" ELSE "sync",
                            blocking |-> ov.blocking # "no"]
      BY <1>9, <2>2 DEF InferEdge, OverridesInv, ApplyOverride
    <2>5. KindSoFar(pair)'
      <3>1. CASE ov.kind = Unset
        BY <1>4, <1>6, <1>8, <1>9, <1>11, <2>1, <2>4, <3>1, BuildAssumption
      <3>2. CASE ov.kind # Unset
        <4>1. Last(DoneStating(pair, "kind")') = {n} /\ DoneStating(pair, "kind")' # {}
          BY <1>4, <1>7, <3>2
        <4>2. edges'[pair].kind = ov.kind
          BY <1>6, <3>2
        <4> QED
          BY <1>11, <4>1, <4>2
      <3> QED
        BY <3>1, <3>2
    <2>6. CASE ov.blocking # Unset
      <3>1. /\ Last(DoneStating(pair, "blocking")') = {n}
            /\ DoneStating(pair, "blocking")' # {}
        BY <1>5, <1>7, <2>6
      <3>2. edges'[pair].blocking <=> ov.blocking = "yes"
        <4>1. edges'[pair].blocking = (ov.blocking = "yes")
          BY <1>6, <2>6
        <4> QED
          BY <4>1
      <3> QED
        BY <1>12, <2>5, <3>1, <3>2
    <2>7. CASE ov.blocking = Unset
      <3>1. edges'[pair].blocking <=> input.links[pair] # Unset \/ ov.kind # "async"
        <4>1. edges'[pair].blocking = (input.links[pair] # Unset \/ ov.kind # "async")
          BY <1>6, <1>8, <1>9, <2>4, <2>7, BuildAssumption
        <4> QED
          BY <4>1
      <3>2. DoneStating(pair, "blocking")' = {}
        BY <1>5, <2>1, <2>7
      <3> QED
        BY <1>12, <2>5, <2>3, <3>1, <3>2
    <2> QED
      BY <2>5, <2>6, <2>7
  <1>10. CASE Done(pair) # {}
    <2>1. old = edges[pair] /\ KindSoFar(pair) /\ BlockingSoFar(pair)
      BY <1>8, <1>10 DEF OverridesInv, ApplyOverride
    <2>2. KindSoFar(pair)'
      <3>1. CASE ov.kind = Unset
        BY <1>4, <1>6, <1>11, <2>1, <3>1 DEF KindSoFar
      <3>2. CASE ov.kind # Unset
        <4>1. Last(DoneStating(pair, "kind")') = {n} /\ DoneStating(pair, "kind")' # {}
          BY <1>4, <1>7, <3>2
        <4>2. edges'[pair].kind = ov.kind
          BY <1>6, <3>2
        <4> QED
          BY <1>11, <4>1, <4>2
      <3> QED
        BY <3>1, <3>2
    <2>3. CASE ov.blocking # Unset
      <3>1. /\ Last(DoneStating(pair, "blocking")') = {n}
            /\ DoneStating(pair, "blocking")' # {}
        BY <1>5, <1>7, <2>3
      <3>2. edges'[pair].blocking <=> ov.blocking = "yes"
        <4>1. edges'[pair].blocking = (ov.blocking = "yes")
          BY <1>6, <2>3
        <4> QED
          BY <4>1
      <3> QED
        BY <1>12, <2>2, <3>1, <3>2
    <2>4. CASE ov.blocking = Unset
      <3>1. First(Done(pair)') = First(Done(pair))
        BY <1>2, <1>3, <1>10 DEF First
      <3>2. edges'[pair].blocking = edges[pair].blocking
        BY <1>6, <2>1, <2>4
      <3> QED
        BY <1>5, <1>12, <2>1, <2>2, <2>4, <3>1, <3>2 DEF BlockingSoFar
    <2> QED
      BY <2>2, <2>3, <2>4
  <1> QED
    BY <1>9, <1>10

\* An override leaves the other pairs alone.
LEMMA OverrideFrame ==
    ASSUME TypeOK, OverridesInv, ApplyOverride, NEW pair, applied + 1 \notin OverridesOf(pair)
    PROVE  /\ Done(pair)' = Done(pair)
           /\ pair \in DOMAIN edges' <=> pair \in DOMAIN edges
           /\ pair \in DOMAIN edges =>
                 /\ edges'[pair] = edges[pair]
                 /\ KindSoFar(pair)' <=> KindSoFar(pair)
                 /\ BlockingSoFar(pair)' <=> BlockingSoFar(pair)
  <1> DEFINE ov == input.overrides[applied + 1]
  <1>1. /\ applied' = applied + 1 /\ applied < Len(input.overrides) /\ input' = input
        /\ [Next]_vars
    BY DEF ApplyOverride, Next
  <1>2. Done(pair)' = Done(pair)
    BY <1>1, DoneGrows
  <1>3. applied + 1 \in DOMAIN input.overrides
    BY <1>1 DEF TypeOK, Input
  <1>4. pair # <<ov.from, ov.to>>
    BY <1>3 DEF OverridesOf
  <1>5. /\ pair \in DOMAIN edges' <=> pair \in DOMAIN edges
        /\ pair \in DOMAIN edges => edges'[pair] = edges[pair]
    BY <1>4 DEF ApplyOverride, Override
  <1>6. pair \in DOMAIN edges =>
           /\ KindSoFar(pair)' <=> KindSoFar(pair)
           /\ BlockingSoFar(pair)' <=> BlockingSoFar(pair)
    BY <1>1, <1>2, <1>5 DEF KindSoFar, BlockingSoFar, DoneStating, Last, First
  <1> QED
    BY <1>2, <1>5, <1>6

LEMMA NextOverridesInv == IInv /\ [Next]_vars => OverridesInv'
  <1> SUFFICES ASSUME IInv, [Next]_vars, stage' \in {"overrides", "done"}
               PROVE  /\ services' = Kept'
                      /\ DOMAIN edges' = {pair \in Kept' \X Kept' :
                                             input'.links[pair] # Unset \/ Done(pair)' # {}}
                      /\ \A pair \in DOMAIN edges' :
                            IF Done(pair)' = {} THEN edges'[pair] = InferEdge(pair)'
                            ELSE KindSoFar(pair)' /\ BlockingSoFar(pair)'
    BY DEF OverridesInv
  <1>1. /\ input' = input /\ Kept' = Kept
        /\ \A pair : InferEdge(pair)' = InferEdge(pair)
        /\ \A pair : OverridesOf(pair)' = OverridesOf(pair)
    BY InputKept
  <1>2. CASE AppsDone
    <2>1. services = Kept /\ applied = 0 /\ UNCHANGED <<applied, services, edges>>
      BY <1>2 DEF AppsDone, IInv, AppsInv
    <2>2. \A pair : Done(pair)' = {}
      <3>1. \A pair : \A i \in OverridesOf(pair) : i \in Nat /\ i > 0
        BY DEF OverridesOf, IInv, TypeOK, Input
      <3> QED
        BY <1>1, <2>1, <3>1 DEF Done
    <2> QED
      BY <1>1, <1>2, <2>1, <2>2 DEF AppsDone, IInv, AppsInv
  <1>3. CASE ApplyOverride
    <2>1. TypeOK /\ OverridesInv
      BY DEF IInv
    <2> DEFINE ov == input.overrides[applied + 1]
    <2>2. applied + 1 \in DOMAIN input.overrides /\ ov \in Overrides
      <3>1. applied + 1 \in DOMAIN input.overrides
        BY <1>3, <2>1 DEF ApplyOverride, TypeOK, Input
      <3> QED
        BY <2>1, <3>1, OverrideFields
    <2>3. services' = Kept'
      BY <1>1, <1>3, <2>1 DEF ApplyOverride, OverridesInv
    <2>4. ASSUME NEW pair \in Kept \X Kept
          PROVE  pair \in DOMAIN edges' <=> input.links[pair] # Unset \/ Done(pair)' # {}
      <3>1. CASE applied + 1 \in OverridesOf(pair)
        <4>1. Done(pair)' # {}
          <5>1. [Next]_vars /\ applied' = applied + 1 /\ applied < Len(input.overrides)
            BY <1>3 DEF ApplyOverride
          <5> QED
            BY <2>1, <3>1, <5>1, DoneGrows
        <4>2. pair = <<ov.from, ov.to>>
          BY <3>1 DEF OverridesOf
        <4>3. pair \in DOMAIN edges'
          BY <1>3, <4>2 DEF ApplyOverride, Override
        <4> QED
          BY <4>1, <4>3
      <3>2. CASE applied + 1 \notin OverridesOf(pair)
        BY <1>3, <2>1, <3>2, OverrideFrame DEF OverridesInv, ApplyOverride
      <3> QED
        BY <3>1, <3>2
    <2>5. DOMAIN edges' \subseteq Kept \X Kept
      BY <1>3, <2>1 DEF ApplyOverride, Override, TypeOK
    <2>6. ASSUME NEW pair \in DOMAIN edges'
          PROVE  IF Done(pair)' = {} THEN edges'[pair] = InferEdge(pair)'
                 ELSE KindSoFar(pair)' /\ BlockingSoFar(pair)'
      <3>1. pair \in Kept \X Kept
        BY <2>5
      <3>2. CASE applied + 1 \in OverridesOf(pair)
        <4>1. Done(pair)' # {}
          <5>1. [Next]_vars /\ applied' = applied + 1 /\ applied < Len(input.overrides)
            BY <1>3 DEF ApplyOverride
          <5> QED
            BY <2>1, <3>2, <5>1, DoneGrows
        <4> QED
          BY <1>3, <2>1, <3>1, <3>2, <4>1, OverrideStep
      <3>3. CASE applied + 1 \notin OverridesOf(pair)
        BY <1>1, <1>3, <2>1, <3>3, OverrideFrame DEF OverridesInv, ApplyOverride
      <3> QED
        BY <3>2, <3>3
    <2> QED
      BY <1>1, <2>3, <2>4, <2>5, <2>6
  <1>4. CASE Finish \/ UNCHANGED vars
    <2>1. /\ UNCHANGED <<services, edges, applied, input>>
          /\ stage \in {"overrides", "done"}
      BY <1>4 DEF Finish, vars
    <2>2. ASSUME NEW pair
          PROVE  /\ Done(pair)' = Done(pair)
                 /\ KindSoFar(pair)' <=> KindSoFar(pair)
                 /\ BlockingSoFar(pair)' <=> BlockingSoFar(pair)
      <3>1. Done(pair)' = Done(pair)
        BY <1>1, <2>1 DEF Done
      <3>2. KindSoFar(pair)' <=> KindSoFar(pair)
        BY <2>1, <3>1 DEF KindSoFar, DoneStating, Last
      <3>3. BlockingSoFar(pair)' <=> BlockingSoFar(pair)
        BY <2>1, <3>1 DEF BlockingSoFar, DoneStating, Last, First
      <3> QED
        BY <3>1, <3>2, <3>3
    <2> QED
      BY <1>1, <2>1, <2>2 DEF IInv, OverridesInv
  <1>5. CASE Filter \/ \E a \in todo : AddApp(a)
    BY <1>5 DEF Filter, AddApp
  <1> QED
    BY <1>2, <1>3, <1>4, <1>5 DEF Next

LEMMA NextIInv == IInv /\ [Next]_vars => IInv'
  <1> SUFFICES ASSUME IInv, [Next]_vars PROVE IInv'
    OBVIOUS
  <1>1. TypeOK' /\ AppsInv' /\ OverridesInv'
    BY NextTypeOK, NextAppsInv, NextOverridesInv DEF IInv
  <1>2. FilterInv'
    BY DEF IInv, FilterInv, Next, Filter, AddApp, AppsDone, ApplyOverride, Finish, vars
  <1>3. Complete'
    BY DEF IInv, Complete, Next, Filter, AddApp, AppsDone, ApplyOverride, Finish, vars
  <1> QED
    BY <1>1, <1>2, <1>3 DEF IInv

\* When all the overrides have been applied, the overrides applied are all of them.
LEMMA Reference == IInv => EdgesAreReference
  <1> SUFFICES ASSUME IInv, stage = "done" PROVE EdgesAreReference
    BY DEF EdgesAreReference
  <1>1. applied = Len(input.overrides)
    BY DEF IInv, Complete
  <1>2. ASSUME NEW pair PROVE Done(pair) = OverridesOf(pair)
    BY <1>1 DEF Done, OverridesOf, IInv, TypeOK, Input
  <1>3. ASSUME NEW pair, NEW field PROVE DoneStating(pair, field) = Stating(pair, field)
    BY <1>2 DEF DoneStating, Stating
  <1>4. /\ services = Kept
        /\ DOMAIN edges = {pair \in Kept \X Kept :
                             input.links[pair] # Unset \/ OverridesOf(pair) # {}}
    BY <1>2 DEF IInv, OverridesInv
  <1>5. ASSUME NEW pair \in DOMAIN edges PROVE EdgeIsReference(pair)
    <2>1. CASE OverridesOf(pair) = {}
      <3>1. edges[pair] = InferEdge(pair)
        BY <1>2, <2>1 DEF IInv, OverridesInv
      <3>2. Stating(pair, "kind") = {} /\ Stating(pair, "blocking") = {}
        BY <2>1 DEF Stating
      <3>3. edges[pair] = IF input.links[pair] = "queue"
                          THEN [kind |-> "async", blocking |-> FALSE]
                          ELSE [kind |-> "sync", blocking |-> TRUE]
        BY <2>1, <3>1 DEF InferEdge
      <3>4. edges[pair].blocking <=> input.links[pair] # "queue"
        BY <3>3
      <3>5. edges[pair].kind = IF input.links[pair] = "queue" THEN "async" ELSE "sync"
        BY <3>3
      <3> QED
        BY <2>1, <3>2, <3>4, <3>5 DEF EdgeIsReference
    <2>2. CASE OverridesOf(pair) # {}
      <3>1. KindSoFar(pair) /\ BlockingSoFar(pair)
        BY <1>2, <2>2 DEF IInv, OverridesInv
      <3>2. Done(pair) = OverridesOf(pair)
        BY <1>2
      <3> QED
        BY <1>3, <2>2, <3>1, <3>2 DEF EdgeIsReference, KindSoFar, BlockingSoFar
    <2> QED
      BY <2>1, <2>2
  <1> QED
    BY <1>4, <1>5 DEF EdgesAreReference

\* The reference leaves the last word to a single override.
LEMMA SingleOverride == IInv /\ EdgesAreReference => OverridesWin
  <1> SUFFICES ASSUME IInv, EdgesAreReference, stage = "done",
                      NEW pair \in Kept \X Kept, NEW i \in OverridesOf(pair),
                      OverridesOf(pair) = {i}
               PROVE  IsRequired(pair) <=> /\ input.overrides[i].kind # "async"
                                           /\ input.overrides[i].blocking # "no"
    BY DEF OverridesWin
  <1>1. input.overrides[i] \in Overrides /\ i \in Nat
    BY OverrideFields DEF IInv, OverridesOf
  <1>2. pair \in DOMAIN edges /\ EdgeIsReference(pair)
    BY DEF EdgesAreReference
  <1>3. /\ \A f \in {"kind", "blocking"} :
              Stating(pair, f) = IF input.overrides[i][f] = Unset THEN {} ELSE {i}
        /\ Last({i}) = {i} /\ First({i}) = {i}
    BY <1>1 DEF Stating, Last, First
  <1>4. edges[pair].kind = IF input.overrides[i].kind = Unset THEN "sync"
                                                              ELSE input.overrides[i].kind
    BY <1>2, <1>3 DEF EdgeIsReference
  <1>5. CASE input.overrides[i].blocking # Unset
    <2>1. edges[pair].blocking <=> input.overrides[i].blocking = "yes"
      BY <1>2, <1>3, <1>5 DEF EdgeIsReference
    <2> QED
      BY <1>1, <1>2, <1>4, <1>5, <2>1, BuildAssumption DEF IsRequired, Overrides
  <1>6. CASE input.overrides[i].blocking = Unset
    <2>1. edges[pair].blocking <=> \/ input.links[pair] # Unset
                                  \/ input.overrides[i].kind # "async"
      BY <1>2, <1>3, <1>6 DEF EdgeIsReference
    <2> QED
      BY <1>1, <1>2, <1>4, <1>6, <2>1, BuildAssumption DEF IsRequired, Overrides
  <1> QED
    BY <1>5, <1>6

\* Build's state keeps its type; in particular the edges and the endpoints never
\* name a service that was filtered out.
THEOREM BuildTyped == Spec => []TypeOK
  <1>1. IInv => TypeOK
    BY DEF IInv
  <1> QED
    BY <1>1, InitIInv, NextIInv, PTL DEF Spec

\* Whatever the configuration and the snapshot, the edges are the reference's.
THEOREM BuildIsReference == Spec => []EdgesAreReference
  <1> QED
    BY InitIInv, NextIInv, Reference, PTL DEF Spec

\* Whatever Coroot observed, a single override decides what is required.
THEOREM BuildObeysOverrides == Spec => []OverridesWin
  <1> QED
    BY InitIInv, NextIInv, Reference, SingleOverride, PTL DEF Spec

\* The endpoints are those of the services added so far, each under its own name.
EntriesInv ==
    /\ stage = "filter" => services = {}
    /\ \A id \in DOMAIN endpoints :
          /\ endpoints[id] = id[1]
          /\ \E a \in services : \E ep \in EndpointsOf(a) : id = <<a, ep>>
    /\ \A a \in services : \A ep \in EndpointsOf(a) : <<a, ep>> \in DOMAIN endpoints

LEMMA NextEntriesInv == EntriesInv /\ [Next]_vars => EntriesInv'
  <1> SUFFICES ASSUME EntriesInv, [Next]_vars PROVE EntriesInv'
    OBVIOUS
  <1>1. \A a : EndpointsOf(a)' = EndpointsOf(a)
    BY InputKept DEF EndpointsOf, Routes
  <1>2. ASSUME NEW x \in todo, AddApp(x) PROVE EntriesInv'
    <2>1. services' = services \cup {x} /\ stage' # "filter"
      BY <1>2 DEF AddApp
    <2>2. IDsOf(x) = {<<x, ep>> : ep \in EndpointsOf(x)}
      BY DEF IDsOf, StableID
    <2>3. DOMAIN endpoints' = DOMAIN endpoints \cup IDsOf(x)
      BY <1>2 DEF AddApp
    <2>4. \A id \in DOMAIN endpoints' :
             endpoints'[id] = IF id \in IDsOf(x) THEN x ELSE endpoints[id]
      BY <1>2 DEF AddApp
    <2>5. \A id \in DOMAIN endpoints' :
             /\ endpoints'[id] = id[1]
             /\ \E a \in services' : \E ep \in EndpointsOf(a) : id = <<a, ep>>
      BY <2>1, <2>2, <2>3, <2>4 DEF EntriesInv
    <2>6. \A a \in services' : \A ep \in EndpointsOf(a) : <<a, ep>> \in DOMAIN endpoints'
      BY <2>1, <2>2, <2>3 DEF EntriesInv
    <2> QED
      BY <1>1, <2>1, <2>5, <2>6 DEF EntriesInv
  <1>3. CASE Filter \/ AppsDone \/ ApplyOverride \/ Finish \/ UNCHANGED vars
    BY <1>1, <1>3 DEF EntriesInv, Filter, AppsDone, ApplyOverride, Finish, vars
  <1> QED
    BY <1>2, <1>3 DEF Next

\* Routes that services share stay apart, whatever the traces hold: the endpoints
\* of a service are its own, and no service is without one.
THEOREM BuildWatchesEveryService == Spec => []EveryServiceHasAnEntry
  <1>1. Init => EntriesInv
    BY DEF Init, EntriesInv
  <1>2. IInv /\ EntriesInv => EveryServiceHasAnEntry
    <2> SUFFICES ASSUME IInv, EntriesInv, stage = "done", NEW a \in Kept
                 PROVE  {id[2] : id \in {k \in DOMAIN endpoints : endpoints[k] = a}}
                           = EndpointsOf(a)
      BY DEF EveryServiceHasAnEntry
    <2>1. a \in services
      BY DEF IInv, OverridesInv
    <2>2. \A ep \in EndpointsOf(a) :
             <<a, ep>> \in DOMAIN endpoints /\ endpoints[<<a, ep>>] = a
      BY <2>1 DEF EntriesInv
    <2>3. \A id \in DOMAIN endpoints : endpoints[id] = a => id[2] \in EndpointsOf(a)
      BY DEF EntriesInv
    <2> DEFINE own == {k \in DOMAIN endpoints : endpoints[k] = a}
    <2>4. \A ep \in EndpointsOf(a) : \E k \in own : k[2] = ep
      <3> TAKE ep \in EndpointsOf(a)
      <3>1. <<a, ep>> \in own
        BY <2>2
      <3> HIDE DEF own
      <3> QED
        BY <3>1
    <2> QED
      BY <2>3, <2>4
  <1> QED
    BY <1>1, <1>2, InitIInv, NextIInv, NextEntriesInv, PTL DEF Spec
=============================================================================
