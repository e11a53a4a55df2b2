--------------------------- MODULE RuntimeActivity ---------------------------
(***************************************************************************)
(* topology.EvaluateRuntimeActivity: which endpoints of the stable         *)
(* topology are unavailable because a service they need was not observed   *)
(* in the activity window.  For each endpoint in turn, a depth-first       *)
(* search from its entry service along the required edges collects the     *)
(* services that are missing.                                              *)
(*                                                                         *)
(* The edges form an arbitrary graph, with cycles and with edges to        *)
(* services the topology does not know.                                    *)
(***************************************************************************)
EXTENDS Naturals, Sequences, FiniteSets

CONSTANTS
    Services,     \* input.Services, by ID
    Nodes,        \* the services, and what else an edge or an endpoint may name
    Entries,      \* input.Endpoints: the sequence of their entry services
    EdgeSets      \* the sets of edges considered as input.Edges

Edges == [from : Nodes, to : Nodes, blocking : BOOLEAN, kind : {"sync", "async"}]

ASSUME InputAssumption ==
    /\ Services \subseteq Nodes
    /\ Entries \in Seq(Nodes)
    /\ EdgeSets \subseteq SUBSET Edges
    /\ IsFiniteSet(Nodes)

VARIABLES
    edges,      \* input.Edges, an input
    active,     \* activity.ActiveServices, an input
    e,          \* the endpoint being evaluated, an index of Entries or past them
    stack,      \* the services still to visit, the next one last
    seen,       \* the services visited
    missing,    \* those of them that are known and not active
    impacted    \* ImpactedEndpoints: the missing services of each endpoint

vars == <<edges, active, e, stack, seen, missing, impacted>>

Inactive == Services \ active

RequiredEdges == {edge \in edges : edge.blocking /\ edge.kind # "async"}

\* required[service]
Required(service) == {edge.to : edge \in {r \in RequiredEdges : r.from = service}}

\* The orders in which required[service] may list its services.  (A service
\* listed twice is skipped the second time it is popped.)
Orders(S) == {order \in [1..Cardinality(S) -> S] :
                 \A s \in S : \E i \in DOMAIN order : order[i] = s}

\* The stack on which the search for an endpoint starts.
EntryOf(i) == IF i \in DOMAIN Entries THEN <<Entries[i]>> ELSE <<>>

Init ==
    /\ edges \in EdgeSets
    /\ active \in SUBSET Services
    /\ e = 1
    /\ stack = EntryOf(1)
    /\ seen = {}
    /\ missing = {}
    /\ impacted = [i \in DOMAIN Entries |-> {}]

Top == stack[Len(stack)]
Rest == SubSeq(stack, 1, Len(stack) - 1)

\* Faulty: a service visited before is looked at again before it is popped.
Skip_BeforePop ==
    /\ stack # <<>>
    /\ Top \in seen
    /\ UNCHANGED vars

Skip ==
    /\ stack # <<>>
    /\ Top \in seen
    /\ stack' = Rest
    /\ UNCHANGED <<edges, active, e, seen, missing, impacted>>

\* Faulty: every service without activity is missing, known or not.
Visit_Unknown ==
    /\ stack # <<>>
    /\ Top \notin seen
    /\ seen' = seen \cup {Top}
    /\ missing' = missing \cup ({Top} \ active)
    /\ \E order \in Orders(Required(Top)) : stack' = Rest \o order
    /\ UNCHANGED <<edges, active, e, impacted>>

Visit ==
    /\ stack # <<>>
    /\ Top \notin seen
    /\ seen' = seen \cup {Top}
    /\ missing' = missing \cup ({Top} \cap Inactive)
    /\ \E order \in Orders(Required(Top)) : stack' = Rest \o order
    /\ UNCHANGED <<edges, active, e, impacted>>

\* Faulty: one set of visited services serves all the searches.
NextEndpoint_SharedSeen ==
    /\ stack = <<>>
    /\ e \in DOMAIN Entries
    /\ impacted' = [impacted EXCEPT ![e] = missing]
    /\ e' = e + 1
    /\ stack' = EntryOf(e + 1)
    /\ missing' = {}
    /\ UNCHANGED <<edges, active, seen>>

\* The search is over: its result is recorded and the next endpoint's search
\* starts with variables of its own.
NextEndpoint ==
    /\ stack = <<>>
    /\ e \in DOMAIN Entries
    /\ impacted' = [impacted EXCEPT ![e] = missing]
    /\ e' = e + 1
    /\ stack' = EntryOf(e + 1)
    /\ seen' = {}
    /\ missing' = {}
    /\ UNCHANGED <<edges, active>>

Next == Skip \/ Visit \/ NextEndpoint

Spec == Init /\ [][Next]_vars
FairSpec == Spec /\ WF_vars(Next)

-----------------------------------------------------------------------------
\* Type invariant of the search.
TypeOK ==
    /\ edges \subseteq Edges
    /\ active \subseteq Services
    /\ e \in 1..(Len(Entries) + 1)
    /\ stack \in Seq(Nodes)
    /\ seen \subseteq Nodes
    /\ missing \subseteq Services
    /\ impacted \in [DOMAIN Entries -> SUBSET Services]

(***************************************************************************)
(* The services an entry depends on: those in every set of services that   *)
(* has the entry and, with a service, what it requires.                    *)
(***************************************************************************)
Closed(S) == \A s \in S : Required(s) \subseteq S
Closure(entry) ==
    {n \in Nodes : \A S \in SUBSET Nodes : entry \in S /\ Closed(S) => n \in S}

\* The comment of EvaluateRuntimeActivity: "An endpoint is unavailable when its
\* entry service or a transitively required blocking synchronous dependency was
\* not observed."  The services recorded for an endpoint are exactly those of its
\* dependency closure that are known and inactive, in graphs with cycles, shared
\* dependencies, asynchronous and non-blocking edges, and unknown services.
ImpactIsClosure ==
    \A i \in 1..(e - 1) : impacted[i] = Closure(Entries[i]) \cap Inactive

\* The search ends, also on cyclic graphs.
Terminates == <>(e > Len(Entries))
=============================================================================
