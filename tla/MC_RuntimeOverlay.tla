------------------------- MODULE MC_RuntimeOverlay -------------------------
(***************************************************************************)
(* RuntimeOverlay for TLC: two endpoints and up to two profiles.  Sheaft   *)
(* is external: its reports are taken to be such that the results at the   *)
(* top are those of the profiles, the aggregates are the means of the      *)
(* availabilities, the summary is that of the first profile and of the     *)
(* mean of all, and the fields across profiles are left out without them.  *)
(* Its decisions may be any.  One profile's aggregate has a threshold, and *)
(* so has the one across profiles.                                         *)
(***************************************************************************)
EXTENDS RuntimeOverlay

MC_Endpoints == {"browse", "cart"}
MC_Weights == {[browse |-> 1, cart |-> w] : w \in {1, 3}}

MC_Results(name, availability, mode) ==
    LET order == SetToSeq(DOMAIN availability) IN
    [i \in DOMAIN order |->
        [profile |-> name, endpoint |-> order[i], availability |-> availability[order[i]],
         status |-> IF availability[order[i]] < 2 THEN RuntimeStatus(mode) ELSE "pass"]]

MC_Availabilities == UNION {[S -> {1, 2}] : S \in SUBSET MC_Endpoints \ {{}}}

MC_Profiles(name, mode) ==
    {[name |-> name, availability |-> a, weights |-> w, results |-> MC_Results(name, a, mode),
      decision |-> d, weighted |-> Weighted(a, w), unweighted |-> Unweighted(a)] :
        a \in MC_Availabilities, w \in MC_Weights, d \in {"pass", "fail"}}

MC_Report(mode, decision, results, profiles, summary) ==
    [mode |-> mode, decision |-> decision, results |-> results, profiles |-> profiles,
     failedEndpoints |-> {}, failedProfiles |-> {}, summary |-> summary]

MC_Single(mode, decision) ==
    {LET mean == Unweighted(a) IN
     MC_Report(mode, decision, MC_Results("", a, mode), <<>>,
        [overall |-> mean, weighted |-> mean, risk |-> OneMinus(mean),
         cross |-> Absent, crossWeighted |-> Absent]) : a \in MC_Availabilities}

MC_Multi(mode, decision) ==
    {MC_Report(mode, decision, p.results \o q.results, <<p, q>>,
        [overall |-> p.unweighted, weighted |-> p.weighted, risk |-> OneMinus(p.weighted),
         cross |-> Mean(<<p.unweighted, q.unweighted>>),
         crossWeighted |-> Mean(<<p.weighted, q.weighted>>)]) :
        p \in MC_Profiles("steady", mode), q \in MC_Profiles("peak", mode)}

MC_Aggregate(availability, threshold, mode) ==
    [availability |-> availability, threshold |-> threshold,
     status |-> IF threshold = Absent \/ AtMost(threshold, availability) THEN "pass"
                ELSE RuntimeStatus(mode)]

MC_Unread(r) ==
    [reasons |-> {},
     cross |-> IF r.summary.crossWeighted = Absent THEN Absent
               ELSE MC_Aggregate(r.summary.crossWeighted, Fraction(3, 4), r.mode),
     profiles |-> [i \in DOMAIN r.profiles |->
        [reasons |-> {},
         below |-> NonPassing(r.profiles[i].results),
         aggregate |-> MC_Aggregate(r.profiles[i].weighted,
            IF r.profiles[i].name = "steady" THEN Fraction(3, 4) ELSE Absent, r.mode)]]]

MC_Reports ==
    UNION {MC_Single(m, d) \cup MC_Multi(m, d) : m \in Modes, d \in {"pass", "warn", "fail"}}
MC_SingleReports == UNION {MC_Single(m, d) : m \in Modes, d \in Decisions}
=============================================================================
