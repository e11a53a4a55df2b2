-------------------------- MODULE MC_TopologyBuild --------------------------
(***************************************************************************)
(* TopologyBuild for TLC: two families of inputs for three applications.   *)
(***************************************************************************)
EXTENDS TopologyBuild

CONSTANTS a, b, c

MC_Apps == {a, b, c}
MC_Spans == {[method |-> m, path |-> "/x"] : m \in {Unset, "GET"}}

Plain == [external |-> {}, excluded |-> {}, listed |-> {},
          includeApps |-> FALSE, includeExternal |-> FALSE,
          links |-> [pair \in MC_Apps \X MC_Apps |-> Unset],
          spans |-> [x \in MC_Apps |-> {}], overrides |-> <<>>]

\* a depends on b and on c in every way; overrides of a -> b, a -> c and c -> a,
\* at most two of them, or three of a -> b.
OverridesFor(pairs) ==
    {ov \in [from : MC_Apps, to : MC_Apps,
             kind : {Unset, "sync", "async"}, blocking : {Unset, "yes", "no"}] :
        <<ov.from, ov.to>> \in pairs}

Sequences == {<<>>} \cup [1..1 -> OverridesFor({<<a, b>>, <<a, c>>, <<c, a>>})]
                    \cup [1..2 -> OverridesFor({<<a, b>>, <<a, c>>, <<c, a>>})]
                    \cup [1..3 -> OverridesFor({<<a, b>>})]

EdgeInputs ==
    {[Plain EXCEPT !.overrides = os, !.external = external,
                   !.links[<<a, b>>] = ab, !.links[<<a, c>>] = ac] :
        os \in Sequences, external \in {{}, {c}},
        ab \in {Unset, "plain", "queue"}, ac \in {Unset, "queue"}}

\* Every filter, with routes that two services share and an override that may
\* name an application that is left out.
FilterInputs ==
    {[Plain EXCEPT !.external = external, !.excluded = excluded, !.listed = listed,
                   !.includeApps = includeApps, !.includeExternal = includeExternal,
                   !.links[<<b, a>>] = "plain", !.spans = spans,
                   !.overrides = <<[from |-> a, to |-> c, kind |-> "async",
                                    blocking |-> Unset]>>] :
        external \in SUBSET {b, c}, excluded \in SUBSET {a, c}, listed \in SUBSET MC_Apps,
        includeApps \in BOOLEAN, includeExternal \in BOOLEAN,
        spans \in [MC_Apps -> {{}, MC_Spans}]}

MC_Inputs == EdgeInputs \cup FilterInputs
=============================================================================
