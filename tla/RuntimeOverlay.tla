--------------------------- MODULE RuntimeOverlay ---------------------------
(***************************************************************************)
(* From Sheaft's report to the effective one: ApplyRuntimeImpact overlays  *)
(* the endpoints that the runtime activity takes down onto the report in   *)
(* memory (which the metrics export), and SaveEffective patches the same   *)
(* into Sheaft's JSON document (which the HTTP API serves).                *)
(*                                                                         *)
(* A report says the same thing in several places: the endpoint results at *)
(* the top and in each profile, a profile's availabilities and aggregates, *)
(* decisions, the lists of what failed, and the summary.  Availability is  *)
(* counted in parts of Full; an aggregate is a fraction, never rounded.    *)
(*                                                                         *)
(* Load decodes the fields the report has.  What the document has besides  *)
(* and SaveEffective writes (reasons, counts, aggregates with a threshold) *)
(* is kept in a variable of its own, rest.  The thresholds of endpoints    *)
(* are left out.                                                           *)
(***************************************************************************)
EXTENDS Integers, Sequences, FiniteSets, Functions, SequencesExt

CONSTANTS
    Endpoints,      \* the endpoints the runtime activity may name
    Full,           \* an availability of 1
    Absent,         \* a field that Sheaft left out
    Reports,        \* the reports Sheaft may have written
    Unread(_)       \* what Sheaft's document holds besides a report's fields

Modes == {"warn", "fail", "report"}
Decisions == {"pass", "report", "warn", "fail"}

IsRecord(r, fields) == r = [f \in fields |-> r[f]]
ReportFields == {"mode", "decision", "results", "profiles", "failedEndpoints",
                 "failedProfiles", "summary"}
ProfileFields == {"name", "availability", "weights", "results", "decision", "weighted",
                  "unweighted"}

\* The form of a report.  (Go decodes what else it finds to the zero value.)
ASSUME ReportsAssumption ==
    /\ Full \in Nat \ {0}
    /\ \A r \in Reports :
        /\ IsRecord(r, ReportFields)
        /\ r.mode \in Modes
        /\ r.decision \in Decisions
        /\ \A i \in DOMAIN r.profiles :
            /\ IsRecord(r.profiles[i], ProfileFields)
            /\ r.profiles[i].decision \in Decisions

ResultFields == {"profile", "endpoint", "availability", "status"}

IsResults(results) ==
    /\ results \in Seq(Range(results))
    /\ \A i \in DOMAIN results : IsRecord(results[i], ResultFields)

\* No result has the key of another, as SaveEffective builds keys.
Keyed(results) ==
    \A i, j \in DOMAIN results :
        /\ results[i].endpoint = results[j].endpoint
        /\ results[i].profile \in {"", results[j].profile}
        => i = j

VARIABLES
    raw,        \* Sheaft's document, an input
    impacted,   \* the endpoints of impact.ImpactedEndpoints, an input
    stage,      \* what comes next: "endpoints", "summary", "policy", "patch", "saved"
    hit,        \* impactedProfiles
    report,     \* the report in memory
    document,   \* the document SaveEffective writes: the fields of a report
    rest        \* the document SaveEffective writes: the fields Load does not read

vars == <<raw, impacted, stage, hit, report, document, rest>>

-----------------------------------------------------------------------------
(***************************************************************************)
(* Statuses, decisions and fractions.                                      *)
(***************************************************************************)
RuntimeStatus(mode) == IF mode = "fail" THEN "fail" ELSE "warn"
RuntimeDecision(mode) == IF mode \in {"fail", "report"} THEN mode ELSE "warn"

Severity == [pass |-> 0, report |-> 1, warn |-> 2, fail |-> 3]

\* Faulty: what the runtime says replaces what Sheaft said.
WorseDecision_Replaced(current, runtime) == runtime

WorseDecision(current, runtime) ==
    IF Severity[current] >= Severity[runtime] THEN current ELSE runtime

Fraction(n, d) == [num |-> n, den |-> d]
Zero == Fraction(0, 1)
Plus(p, q) == Fraction(p.num * q.den + q.num * p.den, p.den * q.den)
Over(p, n) == Fraction(p.num, p.den * n)
OneMinus(p) == Fraction(p.den - p.num, p.den)
AtMost(p, q) == p.num * q.den <= q.num * p.den

Sum(f) == SumFunctionOnSet(f, DOMAIN f)
Unweighted(avail) ==
    IF avail = <<>> THEN Zero ELSE Fraction(Sum(avail), Full * Cardinality(DOMAIN avail))

\* Faulty: an endpoint that is down does not weigh.
Weighted_Up(avail, weights) ==
    LET weighing == {x \in DOMAIN avail \cap DOMAIN weights : avail[x] > 0}
        total == Sum([x \in weighing |-> weights[x]])
    IN  IF total = 0
        THEN Unweighted(avail)
        ELSE Fraction(Sum([x \in weighing |-> avail[x] * weights[x]]), Full * total)

Weighted(avail, weights) ==
    LET weighing == {x \in DOMAIN avail \cap DOMAIN weights : weights[x] > 0}
        total == Sum([x \in weighing |-> weights[x]])
    IN  IF total = 0
        THEN Unweighted(avail)
        ELSE Fraction(Sum([x \in weighing |-> avail[x] * weights[x]]), Full * total)

\* Sheaft is external.  The results of a report, and those of each profile, are
\* lists without two of a key, profiles have different names, and the endpoints of
\* a profile's results are those it has an availability for.
ASSUME KeysAssumption ==
    \A r \in Reports :
        /\ IsResults(r.results) /\ Keyed(r.results)
        /\ r.profiles \in Seq(Range(r.profiles))
        /\ \A i, j \in DOMAIN r.profiles : r.profiles[i].name = r.profiles[j].name => i = j
        /\ \A p \in Range(r.profiles) :
            /\ IsResults(p.results) /\ Keyed(p.results)
            /\ \A i \in DOMAIN p.results : p.results[i].endpoint \in DOMAIN p.availability

\* Availabilities lie between 0 and 1, and a profile's aggregates are the means of
\* its own.
ASSUME MeansAssumption ==
    \A r \in Reports :
        /\ \A i \in DOMAIN r.results : r.results[i].availability \in 0..Full
        /\ \A p \in Range(r.profiles) :
            /\ IsFiniteSet(DOMAIN p.availability)
            /\ p.availability \in [DOMAIN p.availability -> 0..Full]
            /\ \A x \in DOMAIN p.weights : p.weights[x] \in Nat
            /\ p.weighted = Weighted(p.availability, p.weights)
            /\ p.unweighted = Unweighted(p.availability)

\* countNonPassing, which counts in a list.
NonPassing(results) == Cardinality({i \in DOMAIN results : results[i].status # "pass"})

\* An aggregate that was not left out is of the given availability, and passes
\* exactly if that reaches its threshold, unless the threshold was left out.
IsAggregate(aggregate, availability) ==
    aggregate # Absent =>
        /\ IsRecord(aggregate, {"availability", "threshold", "status"})
        /\ aggregate.availability = availability
        /\ aggregate.threshold # Absent =>
            /\ aggregate.threshold.num \in Nat
            /\ aggregate.threshold.den \in Nat \ {0}
            /\ aggregate.status = "pass" <=> AtMost(aggregate.threshold, availability)

\* What Sheaft derives from a report is derived from its numbers.
ASSUME UnreadAssumption ==
    \A r \in Reports :
        /\ IsRecord(Unread(r), {"reasons", "cross", "profiles"})
        /\ Unread(r).cross # Absent => r.summary.crossWeighted # Absent
        /\ IsAggregate(Unread(r).cross, r.summary.crossWeighted)
        /\ DOMAIN Unread(r).profiles = DOMAIN r.profiles
        /\ \A i \in DOMAIN r.profiles :
            LET own == Unread(r).profiles[i] IN
            /\ IsRecord(own, {"reasons", "below", "aggregate"})
            /\ own.below = NonPassing(r.profiles[i].results)
            /\ IsAggregate(own.aggregate, r.profiles[i].weighted)

-----------------------------------------------------------------------------
(***************************************************************************)
(* ApplyRuntimeImpact.                                                     *)
(***************************************************************************)
\* Faulty: a result that does not pass anyway is left as it is.
Down_PassingOnly(result, mode) ==
    IF result.endpoint \in impacted /\ result.status = "pass"
    THEN [result EXCEPT !.availability = 0, !.status = RuntimeStatus(mode)]
    ELSE result

Down(result, mode) ==
    IF result.endpoint \in impacted
    THEN [result EXCEPT !.availability = 0, !.status = RuntimeStatus(mode)]
    ELSE result

DownAll(results, mode) == [i \in DOMAIN results |-> Down(results[i], mode)]

\* Faulty: every profile is concerned by every impact.
Concerned_Any(profile) == impacted # {}

Concerned(profile) ==
    \E x \in impacted :
        \/ x \in DOMAIN profile.availability
        \/ \E i \in DOMAIN profile.results : profile.results[i].endpoint = x

DownProfile(profile, mode) ==
    LET availability == [x \in DOMAIN profile.availability |->
            IF x \in impacted THEN 0 ELSE profile.availability[x]]
    IN  [profile EXCEPT
            !.availability = availability,
            !.results = DownAll(profile.results, mode),
            !.weighted = Weighted(availability, profile.weights),
            !.unweighted = Unweighted(availability),
            !.decision = IF Concerned(profile)
                         THEN WorseDecision(profile.decision, RuntimeDecision(mode))
                         ELSE profile.decision]

\* Load decodes the document: a number that was left out is 0.
Decoded(r) ==
    [r EXCEPT !.summary = [f \in DOMAIN r.summary |->
        IF r.summary[f] = Absent THEN Zero ELSE r.summary[f]]]

Init ==
    /\ raw \in Reports
    /\ impacted \in SUBSET Endpoints
    /\ stage = "endpoints"
    /\ hit = {}
    /\ report = Decoded(raw)
    /\ document = raw
    /\ rest = Unread(raw)

NothingImpacted ==
    /\ stage = "endpoints"
    /\ impacted = {}
    /\ stage' = "patch"
    /\ UNCHANGED <<raw, impacted, hit, report, document, rest>>

OverlayEndpoints ==
    /\ stage = "endpoints"
    /\ impacted # {}
    /\ report' = [report EXCEPT
            !.results = DownAll(@, report.mode),
            !.profiles = [i \in DOMAIN @ |-> DownProfile(@[i], report.mode)]]
    /\ hit' = {report.profiles[i].name :
                  i \in {j \in DOMAIN report.profiles : Concerned(report.profiles[j])}}
    /\ stage' = "summary"
    /\ UNCHANGED <<raw, impacted, document, rest>>

\* Without profiles, the last result of each endpoint counts.
ResultOf(results) ==
    [x \in {results[i].endpoint : i \in DOMAIN results} |->
        results[SelectLastInSeq(results, LAMBDA r : r.endpoint = x)].availability]

Mean(fractions) == Over(FoldLeft(Plus, Zero, fractions), Len(fractions))

\* The numbers of the summary that are recomputed.
Means(r) ==
    IF r.profiles # <<>>
    THEN LET first == r.profiles[1] IN
         [overall |-> first.unweighted,
          weighted |-> first.weighted,
          risk |-> OneMinus(first.weighted),
          crossWeighted |-> Mean([i \in DOMAIN r.profiles |-> r.profiles[i].weighted]),
          cross |-> Mean([i \in DOMAIN r.profiles |-> r.profiles[i].unweighted])]
    ELSE LET mean == Unweighted(ResultOf(r.results)) IN
         [overall |-> mean, weighted |-> mean, risk |-> OneMinus(mean)]

\* What Sheaft's summary holds of these is what its results and profiles give.  The
\* risk is never left out.
ASSUME SummaryAssumption ==
    \A r \in Reports :
        /\ DOMAIN r.summary = {"overall", "weighted", "risk", "cross", "crossWeighted"}
        /\ r.summary.risk # Absent
        /\ \A f \in DOMAIN r.summary :
            r.summary[f] # Absent => f \in DOMAIN Means(r) /\ r.summary[f] = Means(r)[f]

\* The numbers that are not recomputed stay.
Updated(summary, means) ==
    [f \in DOMAIN summary |-> IF f \in DOMAIN means THEN means[f] ELSE summary[f]]

Summarise ==
    /\ stage = "summary"
    /\ report' = [report EXCEPT !.summary = Updated(@, Means(report))]
    /\ stage' = "policy"
    /\ UNCHANGED <<raw, impacted, hit, document, rest>>

Decide ==
    /\ stage = "policy"
    /\ report' = [report EXCEPT
            !.failedEndpoints = @ \cup impacted,
            !.failedProfiles = @ \cup hit,
            !.decision = WorseDecision(@, RuntimeDecision(report.mode))]
    /\ stage' = "patch"
    /\ UNCHANGED <<raw, impacted, hit, document, rest>>

-----------------------------------------------------------------------------
(***************************************************************************)
(* SaveEffective: the document is read again and patched by key and name.  *)
(***************************************************************************)

\* Faulty: results are looked up by their endpoint alone.
Key_EndpointOnly(result, results) ==
    SelectLastInSeq(results, LAMBDA r : r.endpoint = result.endpoint)

\* byKey: a result without a profile is looked up by its endpoint alone.
Key(result, results) ==
    SelectLastInSeq(results, LAMBDA r :
        r.endpoint = result.endpoint /\ result.profile \in {"", r.profile})

PatchResults(results, new) ==
    [i \in DOMAIN results |->
        LET k == Key(results[i], new) IN
        IF k = 0 THEN results[i]
        ELSE [results[i] EXCEPT !.availability = new[k].availability,
                                !.status = new[k].status]]

\* profilesByName.
Named(name, profiles) == SelectLastInSeq(profiles, LAMBDA p : p.name = name)

PatchProfile(profile, profiles) ==
    LET k == Named(profile.name, profiles) IN
    IF k = 0 THEN profile
    ELSE [profiles[k] EXCEPT !.results = PatchResults(profile.results, @)]

\* A reason for each endpoint that is down; at the gate, it names no profile ("").
RuntimeReasons(profile) ==
    {[id |-> "runtime_dependency_unobserved", profile |-> profile, endpoint |-> x,
      status |-> RuntimeStatus(report.mode)] : x \in impacted}

PatchAggregate(aggregate, availability) ==
    IF aggregate = Absent THEN Absent
    ELSE [aggregate EXCEPT
            !.availability = availability,
            !.status = IF aggregate.threshold = Absent THEN @
                       ELSE IF AtMost(aggregate.threshold, availability) THEN "pass"
                       ELSE RuntimeStatus(report.mode)]

\* Every profile is given a reason for every endpoint that is down, its own or not.
PatchUnreadProfile(own, name) ==
    LET k == Named(name, report.profiles) IN
    IF k = 0 THEN own
    ELSE [reasons |-> own.reasons \cup RuntimeReasons(name),
          below |-> NonPassing(report.profiles[k].results),
          aggregate |-> PatchAggregate(own.aggregate, report.profiles[k].weighted)]

PatchUnread(unread) ==
    [reasons |-> unread.reasons \cup RuntimeReasons(""),
     cross |-> PatchAggregate(unread.cross, report.summary.crossWeighted),
     profiles |-> [i \in DOMAIN unread.profiles |->
        PatchUnreadProfile(unread.profiles[i], raw.profiles[i].name)]]

Patch ==
    /\ stage = "patch"
    /\ document' = [document EXCEPT
            !.results = PatchResults(@, report.results),
            !.summary = report.summary,
            !.decision = report.decision,
            !.failedEndpoints = report.failedEndpoints,
            !.failedProfiles = report.failedProfiles,
            !.profiles = [i \in DOMAIN @ |-> PatchProfile(@[i], report.profiles)]]
    /\ rest' = PatchUnread(rest)
    /\ stage' = "saved"
    /\ UNCHANGED <<raw, impacted, hit, report>>

-----------------------------------------------------------------------------
(***************************************************************************)
(* Collect: the gauges that are exported of the report in memory.  (The    *)
(* report's runtime activity is the input impacted.)                       *)
(***************************************************************************)
Exported ==
    {report.results[i].endpoint : i \in DOMAIN report.results}
        \cup UNION {DOMAIN report.profiles[i].availability : i \in DOMAIN report.profiles}

\* endpoint_runtime_available
RuntimeGauge == [x \in Exported |-> IF x \in impacted THEN 0 ELSE 1]

ProfileLabel(result) == IF result.profile = "" THEN "default" ELSE result.profile

\* endpoint_availability and endpoint_status, by labels; a status that none of the
\* three status gauges stands for leaves them all 0.
ResultGauges ==
    [i \in DOMAIN report.results |->
        LET r == report.results[i] IN
        [profile |-> ProfileLabel(r),
         endpoint |-> r.endpoint,
         availability |-> r.availability,
         one |-> {r.status} \cap {"pass", "warn", "fail"}]]

-----------------------------------------------------------------------------
Next == NothingImpacted \/ OverlayEndpoints \/ Summarise \/ Decide \/ Patch

Spec == Init /\ [][Next]_vars

-----------------------------------------------------------------------------
(***************************************************************************)
(* Properties of the result, for reports as Sheaft writes them.            *)
(***************************************************************************)

\* The API and the metrics agree: the document that is served and the report
\* that is exported say the same of each endpoint, each profile and the gate in
\* all that a report has, although one is overlaid and the other patched by keys
\* and names.
DocumentIsReport == stage = "saved" => document = report

\* The overlay never improves a decision, whatever the mode ("report" included),
\* and the gate never passes while an endpoint is down.
GateNeverBetter ==
    stage = "saved" =>
        /\ Severity[report.decision] >= Severity[raw.decision]
        /\ impacted # {} => report.decision # "pass"
        /\ \A i \in DOMAIN raw.profiles :
            Severity[report.profiles[i].decision] >= Severity[raw.profiles[i].decision]

\* Nor does it improve a number: recomputed from what is left in the report, each
\* aggregate is at most Sheaft's, with and without weights and profiles.
NumbersNeverBetter ==
    stage = "saved" =>
        /\ \A i \in DOMAIN raw.profiles :
            /\ AtMost(report.profiles[i].weighted, raw.profiles[i].weighted)
            /\ AtMost(report.profiles[i].unweighted, raw.profiles[i].unweighted)
        /\ \A f \in {"overall", "weighted", "cross", "crossWeighted"} :
            raw.summary[f] # Absent => AtMost(report.summary[f], raw.summary[f])
        /\ AtMost(raw.summary.risk, report.summary.risk)

\* An aggregate of the document, of a profile or of all, is never given a pass that
\* Sheaft did not give it, although SaveEffective decides the status of each anew,
\* by a threshold Load does not read, and whether or not an endpoint is down.
AggregatesNeverPassAnew ==
    stage = "saved" =>
        /\ \A i \in DOMAIN raw.profiles :
            LET now == rest.profiles[i].aggregate
                was == Unread(raw).profiles[i].aggregate
            IN  now # Absent /\ now.status = "pass" => was.status = "pass"
        /\ rest.cross # Absent /\ rest.cross.status = "pass"
                => Unread(raw).cross.status = "pass"

\* A profile is lowered exactly if it has an endpoint that is down.  Otherwise, what
\* the document says of it is as Sheaft wrote it (all but the reasons, and which word
\* an aggregate that does not pass is given), whatever happens to the endpoints of
\* other profiles, and although its count and aggregate are written anew.  If it has
\* one, it does not pass, it is listed as failed, and it counts no fewer below.
ProfilesStandAlone ==
    stage = "saved" =>
        \A i \in DOMAIN raw.profiles :
            LET now == document.profiles[i]
                was == raw.profiles[i]
                nowUnread == rest.profiles[i]
                wasUnread == Unread(raw).profiles[i]
            IN  IF DOMAIN was.availability \cap impacted = {}
                THEN /\ now = was
                     /\ was.name \in document.failedProfiles => was.name \in raw.failedProfiles
                     /\ nowUnread.below = wasUnread.below
                     /\ nowUnread.aggregate # Absent =>
                            /\ nowUnread.aggregate.availability =
                                    wasUnread.aggregate.availability
                            /\ nowUnread.aggregate.status = "pass" <=>
                                    wasUnread.aggregate.status = "pass"
                ELSE /\ now.decision # "pass"
                     /\ was.name \in document.failedProfiles
                     /\ nowUnread.below >= wasUnread.below

\* The gauges of one scrape agree with one another, with the document and with Sheaft:
\* an endpoint that the runtime gauge shows as down has no availability left under any
\* profile and no passing status, and the document lists it as failed; the gauges of any
\* other endpoint are Sheaft's numbers, each under the profile Sheaft gave it for.
GaugesAgree ==
    stage = "saved" =>
        /\ \A x \in Exported : RuntimeGauge[x] = 0 => x \in document.failedEndpoints
        /\ \A i \in DOMAIN ResultGauges :
            LET g == ResultGauges[i] IN
            IF RuntimeGauge[g.endpoint] = 0
            THEN g.availability = 0 /\ "pass" \notin g.one
            ELSE \E r \in {raw.results[j] : j \in DOMAIN raw.results} :
                    /\ r.endpoint = g.endpoint
                    /\ ProfileLabel(r) = g.profile
                    /\ r.availability = g.availability
                    /\ r.status \in {"pass", "warn", "fail"} => g.one = {r.status}

\* SaveEffective's comment: it patches "only the fields changed by the runtime
\* activity overlay".  Without an impact, the summary is as Sheaft wrote it.
UnchangedSummaryIsKept ==
    stage = "saved" /\ impacted = {} => document.summary = raw.summary
=============================================================================
