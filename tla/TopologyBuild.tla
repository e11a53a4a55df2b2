---------------------------- MODULE TopologyBuild ----------------------------
(***************************************************************************)
(* topology.Build: the stable topology of a project from its configuration *)
(* and the snapshot of Coroot's applications.  The applications are        *)
(* filtered; each one kept becomes a service with its edges and endpoints; *)
(* then the edge overrides of the configuration are applied in order.      *)
(* Replicas and weights are carried along unchanged and left out.          *)
(***************************************************************************)
EXTENDS Naturals, Sequences

CONSTANTS
    Apps,       \* the IDs of the snapshot's applications
    Spans,      \* trace spans, as [method, path], either of which may be Unset
    Unset,      \* an attribute that is not there, a setting not given
    Inputs      \* the configurations and snapshots considered

Overrides == [from : Apps, to : Apps,
              kind : {Unset, "sync", "async"}, blocking : {Unset, "yes", "no"}]

\* links: how one application depends on another in Coroot; "queue" if a label
\* or the identifier names a message broker.
Input == [external : SUBSET Apps,          \* whose ID starts with "external:"
          excluded : SUBSET Apps,          \* whose category is in exclude_categories
          listed : SUBSET Apps,            \* which match a pattern of include_apps
          includeApps : BOOLEAN,           \* is include_apps given?
          includeExternal : BOOLEAN,
          links : [Apps \X Apps -> {Unset, "plain", "queue"}],
          spans : [Apps -> SUBSET Spans],
          overrides : Seq(Overrides)]

ASSUME BuildAssumption ==
    /\ Inputs \subseteq Input
    /\ Unset \notin {"sync", "async", "yes", "no", "plain", "queue"}

VARIABLES
    input,      \* project and snapshot, never changed
    stage,      \* how far Build is
    todo,       \* the applications kept that are still to be added
    applied,    \* how many overrides have been applied
    services,   \* input.Services
    edges,      \* edgesByKey: per pair of services, the kind and blocking
    endpoints   \* endpointsByID: the entry service of each endpoint

vars == <<input, stage, todo, applied, services, edges, endpoints>>

Edge == [kind : {"sync", "async"}, blocking : BOOLEAN]

\* filterApplications: an application that a pattern of include_apps matches is
\* kept, whatever else is said of it.
Keeps(a) ==
    IF input.includeApps
    THEN a \in input.listed
    ELSE /\ input.includeExternal \/ a \notin input.external
         /\ a \notin input.excluded

Kept == {a \in Apps : Keeps(a)}

Init ==
    /\ input \in Inputs
    /\ stage = "filter"
    /\ todo = {} /\ applied = 0 /\ services = {}
    /\ edges = <<>> /\ endpoints = <<>>

-----------------------------------------------------------------------------
(***************************************************************************)
(* Edges and endpoints of one application.                                 *)
(***************************************************************************)

\* The overrides for a pair, by their position in the configuration.
OverridesOf(pair) ==
    {i \in DOMAIN input.overrides :
        input.overrides[i].from = pair[1] /\ input.overrides[i].to = pair[2]}

First(S) == {i \in S : \A j \in S : i <= j}

\* inferEdge: the first override of the pair, or else the heuristics.
InferEdge(pair) ==
    IF OverridesOf(pair) # {}
    THEN LET first == First(OverridesOf(pair)) IN
         [kind |-> IF \E i \in first : input.overrides[i].kind = "async"
                   THEN "async" ELSE "sync",
          blocking |-> \A i \in first : input.overrides[i].blocking # "no"]
    ELSE IF input.links[pair] = "queue"
         THEN [kind |-> "async", blocking |-> FALSE]
         ELSE [kind |-> "sync", blocking |-> TRUE]

\* Faulty: dependencies on applications that were filtered out come along.
Observed_Any(a) == {pair \in {a} \X Apps : input.links[pair] # Unset}

\* The dependencies of a on applications that are kept.
Observed(a) == {pair \in {a} \X Kept : input.links[pair] # Unset}

\* syntheticEndpoint has neither.
Synthetic == [method |-> Unset, path |-> Unset]

\* TraceHTTPEndpoints: one route per method and path; none if tracing is off or failed.
Routes(a) == {span \in input.spans[a] : span.method # Unset /\ span.path # Unset}

EndpointsOf(a) == IF Routes(a) = {} THEN {Synthetic} ELSE Routes(a)

\* Faulty: a route is known by what the trace calls it, "GET /path".
StableID_Route(a, ep) == IF ep = Synthetic THEN <<a, ep>> ELSE <<"route", ep>>

\* endpointStableID: "entry::service" or "service:METHOD /path".
StableID(a, ep) == <<a, ep>>

IDsOf(a) == {StableID(a, ep) : ep \in EndpointsOf(a)}

\* Faulty: only an edge Coroot has observed can be overridden.
Override_ObservedOnly(ov) ==
    LET pair == <<ov.from, ov.to>>
    IN  IF pair \notin DOMAIN edges
        THEN UNCHANGED edges
        ELSE edges' = [edges EXCEPT
                ![pair].kind = IF ov.kind = Unset THEN @ ELSE ov.kind,
                ![pair].blocking = IF ov.blocking = Unset THEN @ ELSE ov.blocking = "yes"]

\* Faulty: an override that says nothing of blocking sets it by the kind.
Override_Restated(ov) ==
    LET pair == <<ov.from, ov.to>>
        new == [kind |-> IF ov.kind = Unset THEN "sync" ELSE ov.kind,
                blocking |-> ov.blocking # "no"]
    IN  edges' = [p \in DOMAIN edges \cup {pair} |-> IF p = pair THEN new ELSE edges[p]]

\* applyEdgeOverrides, one override: what it states replaces what the edge has.
\* An edge it has to create is sync and blocking where it does not say otherwise,
\* but not blocking if all it says is async.
Override(ov) ==
    LET pair == <<ov.from, ov.to>>
        old == IF pair \in DOMAIN edges
               THEN edges[pair]
               ELSE [kind |-> "sync", blocking |-> ov.kind # "async"]
        new == [kind |-> IF ov.kind = Unset THEN old.kind ELSE ov.kind,
                blocking |-> IF ov.blocking = Unset THEN old.blocking
                                                    ELSE ov.blocking = "yes"]
    IN  edges' = [p \in DOMAIN edges \cup {pair} |-> IF p = pair THEN new ELSE edges[p]]

-----------------------------------------------------------------------------
(***************************************************************************)
(* Build.                                                                  *)
(***************************************************************************)

\* An error if nothing is left.
Filter ==
    /\ stage = "filter"
    /\ stage' = IF Kept = {} THEN "failed" ELSE "apps"
    /\ todo' = Kept
    /\ UNCHANGED <<input, applied, services, edges, endpoints>>

\* One application.  The maps make the order irrelevant, so any order is taken.
AddApp(a) ==
    /\ stage = "apps"
    /\ a \in todo
    /\ todo' = todo \ {a}
    /\ services' = services \cup {a}
    /\ edges' = [pair \in DOMAIN edges \cup Observed(a) |->
                    IF pair \in Observed(a) THEN InferEdge(pair) ELSE edges[pair]]
    /\ endpoints' = [id \in DOMAIN endpoints \cup IDsOf(a) |->
                        IF id \in IDsOf(a) THEN a ELSE endpoints[id]]
    /\ UNCHANGED <<input, stage, applied>>

AppsDone ==
    /\ stage = "apps"
    /\ todo = {}
    /\ stage' = "overrides"
    /\ UNCHANGED <<input, todo, applied, services, edges, endpoints>>

\* The next override; one that names an application that is not kept is skipped.
ApplyOverride ==
    /\ stage = "overrides"
    /\ applied < Len(input.overrides)
    /\ applied' = applied + 1
    /\ LET ov == input.overrides[applied + 1]
       IN  IF ov.from \in Kept /\ ov.to \in Kept THEN Override(ov) ELSE UNCHANGED edges
    /\ UNCHANGED <<input, stage, todo, services, endpoints>>

Finish ==
    /\ stage = "overrides"
    /\ applied = Len(input.overrides)
    /\ stage' = "done"
    /\ UNCHANGED <<input, todo, applied, services, edges, endpoints>>

Next == Filter \/ (\E a \in todo : AddApp(a)) \/ AppsDone \/ ApplyOverride \/ Finish

Spec == Init /\ [][Next]_vars

-----------------------------------------------------------------------------
\* Type invariant.
TypeOK ==
    /\ input \in Input
    /\ stage \in {"filter", "failed", "apps", "overrides", "done"}
    /\ todo \subseteq Kept /\ services \subseteq Kept
    /\ applied \in 0..Len(input.overrides)
    /\ DOMAIN edges \subseteq Kept \X Kept
    /\ \A pair \in DOMAIN edges : edges[pair] \in Edge
    /\ \A id \in DOMAIN endpoints : endpoints[id] \in services

\* The overrides of a pair that state a field.
Stating(pair, field) == {i \in OverridesOf(pair) : input.overrides[i][field] # Unset}

Last(S) == {i \in S : \A j \in S : j <= i}

\* What an edge is, when Coroot's view and the configuration are put side by side.
\* For the kind and for blocking alike the last override that states it decides.
\* Where none does: sync, and blocking; for an edge nobody overrides, what the
\* heuristics say; and for one Coroot does not know, not blocking if the first
\* override makes it async.
EdgeIsReference(pair) ==
    /\ IF Stating(pair, "kind") # {}
       THEN \A i \in Last(Stating(pair, "kind")) : edges[pair].kind = input.overrides[i].kind
       ELSE edges[pair].kind =
               IF OverridesOf(pair) = {} /\ input.links[pair] = "queue" THEN "async" ELSE "sync"
    /\ IF Stating(pair, "blocking") # {}
       THEN \A i \in Last(Stating(pair, "blocking")) :
               edges[pair].blocking <=> input.overrides[i].blocking = "yes"
       ELSE edges[pair].blocking <=>
               IF OverridesOf(pair) = {}
               THEN input.links[pair] # "queue"
               ELSE \/ input.links[pair] # Unset
                    \/ \A i \in First(OverridesOf(pair)) : input.overrides[i].kind # "async"

\* However the two passes over the overrides (inferEdge, applyEdgeOverrides) and
\* the filter meet: the topology has an edge for exactly the pairs of services
\* that Coroot or the configuration names, each with the reference's attributes.
EdgesAreReference ==
    stage = "done" =>
        /\ services = Kept
        /\ DOMAIN edges = {pair \in Kept \X Kept :
                              input.links[pair] # Unset \/ OverridesOf(pair) # {}}
        /\ \A pair \in DOMAIN edges : EdgeIsReference(pair)

\* RuntimeActivity!RequiredEdges.
IsRequired(pair) ==
    pair \in DOMAIN edges /\ edges[pair].blocking /\ edges[pair].kind # "async"

\* docs/architecture.md: explicit edge_overrides win over heuristics.  A single
\* override alone says whether a service needs another, be the dependency
\* observed, taken for a queue or unknown to Coroot.
OverridesWin ==
    stage = "done" =>
        \A pair \in Kept \X Kept : \A i \in OverridesOf(pair) :
            OverridesOf(pair) = {i} =>
                (IsRequired(pair) <=> /\ input.overrides[i].kind # "async"
                                      /\ input.overrides[i].blocking # "no")

\* Every service that is kept is watched: its routes, or its synthetic endpoint,
\* are endpoints of the topology, also when services have routes in common.
EveryServiceHasAnEntry ==
    stage = "done" =>
        \A a \in Kept :
            {id[2] : id \in {k \in DOMAIN endpoints : endpoints[k] = a}} = EndpointsOf(a)
=============================================================================
