------------------------- MODULE MC_RuntimeActivity -------------------------
(***************************************************************************)
(* RuntimeActivity for TLC: three services and a name the topology does    *)
(* not know, two endpoints, and all graphs of a few edges.                 *)
(***************************************************************************)
EXTENDS RuntimeActivity

CONSTANTS a, b, c, unknown

MC_Services == {a, b, c}
MC_Nodes == {a, b, c, unknown}
MC_Entries == <<a, b>>

\* Edges from a service, of the three sorts that matter to the search.
MC_Edges ==
    {edge \in Edges : edge.from # unknown /\ (edge.kind = "async" => edge.blocking)}

\* All sets of up to three edges: cycles, diamonds cut short, dead ends.
MC_EdgeSets == {{}} \cup {{x, y, z} : x, y, z \in MC_Edges}
=============================================================================
