----------------------- MODULE RuntimeOverlay_proofs -----------------------
(***************************************************************************)
(* For all sets of impacted endpoints and all modes.  Of any report: the   *)
(* overlay never improves a decision.  If keys and names are unique        *)
(* (KeysAssumption): the document is the report, and the gauges agree with *)
(* it.  If moreover the aggregates are the means of the availabilities     *)
(* (MeansAssumption, SummaryAssumption, UnreadAssumption): profiles are    *)
(* lowered apart from one another, no number improves, and no aggregate    *)
(* passes that did not.                                                    *)
(***************************************************************************)
EXTENDS RuntimeOverlay, FiniteSetTheorems, SequenceTheorems, TLAPS

\* How far the decisions of the gate and of the profiles have come.
Form ==
    /\ raw \in Reports
    /\ IsRecord(report, ReportFields)
    /\ report.mode = raw.mode
    /\ DOMAIN report.profiles = DOMAIN raw.profiles

Gate ==
    IF stage \in {"patch", "saved"}
    THEN /\ Severity[report.decision] >= Severity[raw.decision]
         /\ impacted # {} => report.decision # "pass"
    ELSE report.decision = raw.decision

Profiles ==
    IF stage = "endpoints"
    THEN report.profiles = raw.profiles
    ELSE \A i \in DOMAIN raw.profiles :
            Severity[report.profiles[i].decision] >= Severity[raw.profiles[i].decision]

Inv == Form /\ Gate /\ Profiles

-----------------------------------------------------------------------------
\* worseDecision returns a decision that is as severe as both of its arguments.
LEMMA WorseDecisionIsWorse ==
    ASSUME NEW c \in Decisions, NEW r \in Decisions
    PROVE  /\ WorseDecision(c, r) \in Decisions
           /\ Severity[WorseDecision(c, r)] >= Severity[c]
           /\ Severity[WorseDecision(c, r)] >= Severity[r]
  BY DEF WorseDecision, Decisions, Severity

\* runtimeDecision never says "pass".
LEMMA RuntimeDecisionIsNoPass ==
    ASSUME NEW mode \in Modes
    PROVE  RuntimeDecision(mode) \in Decisions /\ RuntimeDecision(mode) # "pass"
  BY DEF RuntimeDecision, Modes, Decisions

\* A profile that is overlaid is no better than it was.
LEMMA ProfileNeverBetter ==
    ASSUME NEW profile, IsRecord(profile, ProfileFields), profile.decision \in Decisions,
           NEW mode \in Modes
    PROVE  Severity[DownProfile(profile, mode).decision] >= Severity[profile.decision]
  <1> DEFINE worse == WorseDecision(profile.decision, RuntimeDecision(mode))
  <1>1. DownProfile(profile, mode).decision \in {worse, profile.decision}
    BY DEF DownProfile, IsRecord, ProfileFields
  <1>2. Severity[worse] >= Severity[profile.decision]
    BY WorseDecisionIsWorse, RuntimeDecisionIsNoPass
  <1>3. Severity[profile.decision] >= Severity[profile.decision]
    BY DEF Severity, Decisions
  <1> QED
    BY <1>1, <1>2, <1>3

LEMMA InitInv == Init => Inv
  <1> SUFFICES ASSUME Init PROVE Inv
    OBVIOUS
  <1>1. raw \in Reports /\ IsRecord(raw, ReportFields)
    BY ReportsAssumption DEF Init
  <1>2. /\ IsRecord(report, ReportFields)
        /\ report.mode = raw.mode
        /\ report.decision = raw.decision
        /\ report.profiles = raw.profiles
    BY <1>1 DEF Init, Decoded, IsRecord, ReportFields
  <1> QED
    BY <1>1, <1>2 DEF Init, Inv, Form, Gate, Profiles

LEMMA NextInv == Inv /\ [Next]_vars => Inv'
  <1> SUFFICES ASSUME Inv, [Next]_vars PROVE Inv'
    OBVIOUS
  <1>1. /\ raw \in Reports
        /\ raw.mode \in Modes
        /\ raw.decision \in Decisions
        /\ \A i \in DOMAIN raw.profiles :
            /\ IsRecord(raw.profiles[i], ProfileFields)
            /\ raw.profiles[i].decision \in Decisions
    BY ReportsAssumption DEF Inv, Form
  <1>2. IsRecord(report, ReportFields) /\ report.mode = raw.mode
    BY DEF Inv, Form
  <1>3. \A d \in Decisions : Severity[d] >= Severity[d]
    BY DEF Severity, Decisions
  <1>4. CASE NothingImpacted
    <2>1. Form'
      BY <1>4 DEF NothingImpacted, Inv, Form
    <2>2. Gate'
      BY <1>1, <1>3, <1>4 DEF NothingImpacted, Inv, Gate
    <2>3. Profiles'
      BY <1>1, <1>3, <1>4 DEF NothingImpacted, Inv, Profiles
    <2> QED
      BY <2>1, <2>2, <2>3 DEF Inv
  <1>5. CASE OverlayEndpoints
    <2>1. /\ report.profiles = raw.profiles
          /\ report.decision = raw.decision
      BY <1>5 DEF OverlayEndpoints, Inv, Gate, Profiles
    <2>2. /\ IsRecord(report', ReportFields)
          /\ report'.mode = raw.mode
          /\ report'.decision = raw.decision
          /\ report'.profiles =
                [i \in DOMAIN raw.profiles |-> DownProfile(raw.profiles[i], raw.mode)]
      BY <1>2, <1>5, <2>1 DEF OverlayEndpoints, IsRecord, ReportFields
    <2>3. \A i \in DOMAIN raw.profiles :
            Severity[report'.profiles[i].decision] >= Severity[raw.profiles[i].decision]
      BY <1>1, <2>2, ProfileNeverBetter
    <2> QED
      BY <1>5, <2>2, <2>3 DEF OverlayEndpoints, Inv, Form, Gate, Profiles
  <1>6. CASE Summarise
    <2>1. /\ IsRecord(report', ReportFields)
          /\ report'.mode = report.mode
          /\ report'.decision = report.decision
          /\ report'.profiles = report.profiles
      BY <1>2, <1>6 DEF Summarise, IsRecord, ReportFields
    <2> QED
      BY <1>6, <2>1 DEF Summarise, Inv, Form, Gate, Profiles
  <1>7. CASE Decide
    <2>1. report.decision = raw.decision
      BY <1>7 DEF Decide, Inv, Gate
    <2>2. /\ IsRecord(report', ReportFields)
          /\ report'.mode = report.mode
          /\ report'.decision = WorseDecision(raw.decision, RuntimeDecision(raw.mode))
          /\ report'.profiles = report.profiles
      BY <1>2, <1>7, <2>1 DEF Decide, IsRecord, ReportFields
    <2>3. RuntimeDecision(raw.mode) \in Decisions /\ RuntimeDecision(raw.mode) # "pass"
      BY <1>1, RuntimeDecisionIsNoPass
    <2>4. /\ Severity[report'.decision] >= Severity[raw.decision]
          /\ Severity[report'.decision] >= Severity[RuntimeDecision(raw.mode)]
      BY <1>1, <2>2, <2>3, WorseDecisionIsWorse
    <2>5. report'.decision # "pass"
      BY <2>3, <2>4 DEF Severity, Decisions
    <2> QED
      BY <1>7, <2>2, <2>4, <2>5 DEF Decide, Inv, Form, Gate, Profiles
  <1>8. CASE Patch
    BY <1>8 DEF Patch, Inv, Form, Gate, Profiles
  <1>9. CASE UNCHANGED vars
    BY <1>9 DEF vars, Inv, Form, Gate, Profiles
  <1> QED
    BY <1>4, <1>5, <1>6, <1>7, <1>8, <1>9 DEF Next

\* The effective report never shows a better decision than Sheaft's, for the gate
\* and for each profile, and the gate does not pass while an endpoint is down.
THEOREM GateIsNeverBetter == Spec => []GateNeverBetter
  <1>1. Inv => GateNeverBetter
    BY DEF Inv, Gate, Profiles, GateNeverBetter
  <1> QED
    BY <1>1, InitInv, NextInv, PTL DEF Spec

-----------------------------------------------------------------------------
(***************************************************************************)
(* Results and profiles, for reports whose keys and names are unique: what *)
(* is patched by keys and names is what was overlaid by position.          *)
(***************************************************************************)
DownResults == DownAll(raw.results, raw.mode)

DownProfiles ==
    IF impacted = {} THEN raw.profiles
    ELSE [i \in DOMAIN raw.profiles |-> DownProfile(raw.profiles[i], raw.mode)]

DownNames ==
    {raw.profiles[i].name : i \in {j \in DOMAIN raw.profiles : Concerned(raw.profiles[j])}}

Overlaid ==
    IF stage = "endpoints"
    THEN report.results = raw.results /\ report.profiles = raw.profiles /\ hit = {}
    ELSE report.results = DownResults /\ report.profiles = DownProfiles /\ hit = DownNames

Failed ==
    IF stage \in {"patch", "saved"}
    THEN /\ report.failedEndpoints = raw.failedEndpoints \cup impacted
         /\ report.failedProfiles = raw.failedProfiles \cup hit
    ELSE /\ report.failedEndpoints = raw.failedEndpoints
         /\ report.failedProfiles = raw.failedProfiles

Served == document = IF stage = "saved" THEN report ELSE raw

FullInv == Inv /\ Overlaid /\ Failed /\ Served

\* The rest of the document.
RestInv == rest = IF stage = "saved" THEN PatchUnread(Unread(raw)) ELSE Unread(raw)

-----------------------------------------------------------------------------
\* The two functions that look a key or a name up find the place it came from.
LEMMA MaxOfOne == ASSUME NEW i \in Nat PROVE Max({i}) = i
  BY DEF Max

LEMMA ListShape ==
    ASSUME NEW s, s \in Seq(Range(s))
    PROVE  Len(s) \in Nat /\ DOMAIN s = 1..Len(s) /\ s = [i \in DOMAIN s |-> s[i]]
  BY LenProperties, SeqDef

LEMMA ImageLen ==
    ASSUME NEW s, s \in Seq(Range(s)), NEW t, t = [i \in DOMAIN s |-> t[i]]
    PROVE  Len(t) = Len(s)
  <1>1. t \in [1..Len(s) -> Range(t)] /\ Len(s) \in Nat
    BY ListShape DEF Range
  <1>2. t \in Seq(Range(t))
    BY <1>1, SeqDef
  <1> QED
    BY <1>1, <1>2, LenProperties

LEMMA KeyIsOwn ==
    ASSUME NEW old, IsResults(old), Keyed(old),
           NEW new, new = [i \in DOMAIN old |-> new[i]],
           \A i \in DOMAIN old : /\ new[i].endpoint = old[i].endpoint
                                 /\ new[i].profile = old[i].profile,
           NEW i \in DOMAIN old
    PROVE  Key(old[i], new) = i
  <1>1. Len(new) = Len(old) /\ Len(old) \in Nat /\ DOMAIN old = 1..Len(old)
    BY ImageLen, ListShape DEF IsResults
  <1> DEFINE I == {j \in 1..Len(new) : new[j].endpoint = old[i].endpoint
                                         /\ old[i].profile \in {"", new[j].profile}}
  <1>2. I = {i}
    BY <1>1 DEF Keyed
  <1>3. Key(old[i], new) = IF I # {} THEN Max(I) ELSE 0
    BY DEF Key, SelectLastInSeq
  <1> HIDE DEF I
  <1> QED
    BY <1>1, <1>2, <1>3, MaxOfOne

\* Patched by keys, the results are those overlaid by position.
LEMMA PatchIsDown ==
    ASSUME NEW results, IsResults(results), Keyed(results), NEW mode
    PROVE  PatchResults(results, DownAll(results, mode)) = DownAll(results, mode)
  <1> DEFINE new == DownAll(results, mode)
  <1>1. new = [i \in DOMAIN results |-> new[i]]
    BY DEF DownAll
  <1>2. ASSUME NEW i \in DOMAIN results
        PROVE  /\ new[i].endpoint = results[i].endpoint /\ new[i].profile = results[i].profile
               /\ new[i] = [results[i] EXCEPT !.availability = new[i].availability,
                                             !.status = new[i].status]
    BY <1>2 DEF IsResults, IsRecord, ResultFields, DownAll, Down
  <1> HIDE DEF new
  <1>3. \A i \in DOMAIN results : Key(results[i], new) = i
    BY <1>1, <1>2, KeyIsOwn
  <1>4. \A i \in DOMAIN results : i # 0
    BY ListShape DEF IsResults
  <1>5. PatchResults(results, new) = [i \in DOMAIN results |-> new[i]]
    BY <1>2, <1>3, <1>4 DEF PatchResults
  <1> QED
    BY <1>1, <1>5 DEF new

\* Without an impact on it, a list of results stays what it is.
LEMMA DownOfNothing ==
    ASSUME NEW results, IsResults(results), NEW mode,
           \A i \in DOMAIN results : results[i].endpoint \notin impacted
    PROVE  DownAll(results, mode) = results
  <1>1. results = [i \in DOMAIN results |-> results[i]]
    BY ListShape DEF IsResults
  <1> QED
    BY <1>1 DEF DownAll, Down

\* What is known of a profile of a report.
LEMMA ProfileForm ==
    ASSUME NEW r \in Reports, NEW i \in DOMAIN r.profiles
    PROVE  /\ IsRecord(r.profiles[i], ProfileFields)
           /\ IsResults(r.profiles[i].results) /\ Keyed(r.profiles[i].results)
           /\ \A j \in DOMAIN r.profiles[i].results :
                 r.profiles[i].results[j].endpoint \in DOMAIN r.profiles[i].availability
  <1>1. r.profiles[i] \in Range(r.profiles)
    BY DEF Range
  <1> QED
    BY <1>1, ReportsAssumption, KeysAssumption

LEMMA ProfileMeans ==
    ASSUME NEW r \in Reports, NEW i \in DOMAIN r.profiles
    PROVE  /\ r.profiles[i].availability =
                 [x \in DOMAIN r.profiles[i].availability |-> r.profiles[i].availability[x]]
           /\ r.profiles[i].weighted =
                 Weighted(r.profiles[i].availability, r.profiles[i].weights)
           /\ r.profiles[i].unweighted = Unweighted(r.profiles[i].availability)
  <1>1. r.profiles[i] \in Range(r.profiles)
    BY DEF Range
  <1> QED
    BY <1>1, MeansAssumption

\* A profile without an endpoint that is down is left as it is.
LEMMA UnconcernedStays ==
    ASSUME NEW r \in Reports, NEW i \in DOMAIN r.profiles, NEW mode,
           DOMAIN r.profiles[i].availability \cap impacted = {}
    PROVE  ~Concerned(r.profiles[i]) /\ DownProfile(r.profiles[i], mode) = r.profiles[i]
  <1> DEFINE p == r.profiles[i]
             availability == [x \in DOMAIN p.availability |->
                                 IF x \in impacted THEN 0 ELSE p.availability[x]]
  <1>1. ~Concerned(p)
    BY ProfileForm DEF Concerned
  <1>2. availability = p.availability
    <2>1. p.availability = [x \in DOMAIN p.availability |-> p.availability[x]]
      BY ProfileMeans
    <2> QED
      BY <2>1
  <1>3. DownAll(p.results, mode) = p.results
    BY ProfileForm, DownOfNothing
  <1>4. DownProfile(p, mode) =
            [p EXCEPT !.availability = availability,
                      !.results = DownAll(p.results, mode),
                      !.weighted = Weighted(availability, p.weights),
                      !.unweighted = Unweighted(availability),
                      !.decision = p.decision]
    BY <1>1 DEF DownProfile
  <1>5. /\ p.weighted = Weighted(p.availability, p.weights)
        /\ p.unweighted = Unweighted(p.availability)
        /\ IsRecord(p, ProfileFields)
    BY ProfileForm, ProfileMeans
  <1> HIDE DEF p, availability
  <1>6. DownProfile(p, mode) =
            [p EXCEPT !.availability = p.availability, !.results = p.results,
                      !.weighted = p.weighted, !.unweighted = p.unweighted,
                      !.decision = p.decision]
    BY <1>2, <1>3, <1>4, <1>5
  <1>7. DownProfile(p, mode) = p
    BY <1>5, <1>6 DEF IsRecord, ProfileFields
  <1> QED
    BY <1>1, <1>7 DEF p

\* What DownProfile does to the fields that are not recomputed.
LEMMA DownProfileForm ==
    ASSUME NEW r \in Reports, NEW i \in DOMAIN r.profiles, NEW mode
    PROVE  /\ IsRecord(DownProfile(r.profiles[i], mode), ProfileFields)
           /\ DownProfile(r.profiles[i], mode).name = r.profiles[i].name
           /\ DownProfile(r.profiles[i], mode).results = DownAll(r.profiles[i].results, mode)
  <1> DEFINE p == r.profiles[i]
  <1>1. IsRecord(p, ProfileFields)
    BY ProfileForm
  <1> HIDE DEF p
  <1>2. /\ IsRecord(DownProfile(p, mode), ProfileFields)
        /\ DownProfile(p, mode).name = p.name
        /\ DownProfile(p, mode).results = DownAll(p.results, mode)
    BY <1>1 DEF IsRecord, ProfileFields, DownProfile
  <1> QED
    BY <1>2 DEF p

\* A name is that of the profile in its own place.
LEMMA NamedIsOwn ==
    ASSUME NEW r \in Reports, NEW new, new = [i \in DOMAIN r.profiles |-> new[i]],
           \A i \in DOMAIN r.profiles : new[i].name = r.profiles[i].name,
           NEW i \in DOMAIN r.profiles
    PROVE  Named(r.profiles[i].name, new) = i /\ i # 0
  <1> DEFINE I == {j \in 1..Len(new) : new[j].name = r.profiles[i].name}
  <1>1. /\ Len(new) = Len(r.profiles) /\ Len(r.profiles) \in Nat
        /\ DOMAIN r.profiles = 1..Len(r.profiles)
    BY KeysAssumption, ImageLen, ListShape
  <1>2. I = {i}
    BY <1>1, KeysAssumption
  <1>3. Named(r.profiles[i].name, new) = IF I # {} THEN Max(I) ELSE 0
    BY DEF Named, SelectLastInSeq
  <1> HIDE DEF I
  <1> QED
    BY <1>1, <1>2, <1>3, MaxOfOne

\* A profile is patched with the profile in its own place.
LEMMA PatchProfileIsOwn ==
    ASSUME NEW r \in Reports, NEW mode, NEW new, new = [i \in DOMAIN r.profiles |-> new[i]],
           \A i \in DOMAIN r.profiles :
              /\ IsRecord(new[i], ProfileFields)
              /\ new[i].name = r.profiles[i].name
              /\ new[i].results = DownAll(r.profiles[i].results, mode),
           NEW i \in DOMAIN r.profiles
    PROVE  PatchProfile(r.profiles[i], new) = new[i]
  <1> DEFINE p == r.profiles[i]
  <1>1. Named(p.name, new) = i /\ i # 0
    BY NamedIsOwn
  <1>2. PatchProfile(p, new) = [new[i] EXCEPT !.results = PatchResults(p.results, @)]
    BY <1>1 DEF PatchProfile
  <1>3. PatchResults(p.results, new[i].results) = new[i].results
    <2>1. IsResults(p.results) /\ Keyed(p.results)
      BY ProfileForm
    <2>2. PatchResults(p.results, DownAll(p.results, mode)) = DownAll(p.results, mode)
      <3> HIDE DEF p
      <3> QED
        BY <2>1, PatchIsDown
    <2>3. new[i].results = DownAll(p.results, mode)
      OBVIOUS
    <2> HIDE DEF p
    <2> QED
      BY <2>2, <2>3
  <1>4. PatchProfile(p, new) = [new[i] EXCEPT !.results = new[i].results]
    BY <1>2, <1>3
  <1>5. IsRecord(new[i], ProfileFields)
    OBVIOUS
  <1> HIDE DEF p
  <1> QED
    BY <1>4, <1>5 DEF IsRecord, ProfileFields, p

-----------------------------------------------------------------------------
\* What is overlaid depends on the inputs only.
LEMMA InputsFixed ==
    ASSUME UNCHANGED <<raw, impacted>>
    PROVE  UNCHANGED <<DownResults, DownProfiles, DownNames>>
  <1>1. \A results, mode : DownAll(results, mode)' = DownAll(results, mode)
    BY DEF DownAll, Down
  <1>2. \A p : Concerned(p)' <=> Concerned(p)
    BY DEF Concerned
  <1>3. \A p, mode : DownProfile(p, mode)' = DownProfile(p, mode)
    BY <1>1, <1>2 DEF DownProfile
  <1>4. DownResults' = DownResults
    BY DEF DownResults, DownAll, Down
  <1>5. DownProfiles' = DownProfiles
    BY <1>3 DEF DownProfiles
  <1>6. DownNames' = DownNames
    BY <1>2 DEF DownNames
  <1> QED
    BY <1>4, <1>5, <1>6

LEMMA InitFullInv == Init => FullInv
  <1> SUFFICES ASSUME Init PROVE FullInv
    OBVIOUS
  <1>1. raw \in Reports /\ IsRecord(raw, ReportFields)
    BY ReportsAssumption DEF Init
  <1>2. /\ report.results = raw.results
        /\ report.profiles = raw.profiles
        /\ report.failedEndpoints = raw.failedEndpoints
        /\ report.failedProfiles = raw.failedProfiles
    BY <1>1 DEF Init, Decoded, IsRecord, ReportFields
  <1> QED
    BY <1>2, InitInv DEF FullInv, Init, Overlaid, Failed, Served

\* What the report holds when the document is patched.
LEMMA BeforePatch ==
    ASSUME FullInv, stage # "endpoints"
    PROVE  /\ report.results = DownAll(raw.results, raw.mode)
           /\ \A i \in DOMAIN raw.profiles :
                 /\ IsRecord(report.profiles[i], ProfileFields)
                 /\ report.profiles[i].name = raw.profiles[i].name
                 /\ report.profiles[i].results = DownAll(raw.profiles[i].results, raw.mode)
           /\ report.profiles = [i \in DOMAIN raw.profiles |-> report.profiles[i]]
  <1>1. /\ raw \in Reports
        /\ report.results = DownResults
        /\ report.profiles = DownProfiles
    BY DEF FullInv, Inv, Form, Overlaid
  <1>2. raw.profiles = [i \in DOMAIN raw.profiles |-> raw.profiles[i]]
    BY <1>1, KeysAssumption, ListShape
  <1>3. CASE impacted = {}
    <2>1. report.profiles = raw.profiles
      BY <1>1, <1>3 DEF DownProfiles
    <2>2. \A i \in DOMAIN raw.profiles :
            /\ IsRecord(raw.profiles[i], ProfileFields)
            /\ IsResults(raw.profiles[i].results)
      BY <1>1, ProfileForm
    <2>3. ASSUME NEW i \in DOMAIN raw.profiles
          PROVE  DownAll(raw.profiles[i].results, raw.mode) = raw.profiles[i].results
      BY <1>3, <2>2, <2>3, DownOfNothing
    <2> QED
      BY <1>1, <1>2, <2>1, <2>2, <2>3 DEF DownResults
  <1>4. CASE impacted # {}
    <2>1. report.profiles = [i \in DOMAIN raw.profiles |-> DownProfile(raw.profiles[i], raw.mode)]
      BY <1>1, <1>4 DEF DownProfiles
    <2>2. ASSUME NEW i \in DOMAIN raw.profiles
          PROVE  /\ IsRecord(report.profiles[i], ProfileFields)
                 /\ report.profiles[i].name = raw.profiles[i].name
                 /\ report.profiles[i].results = DownAll(raw.profiles[i].results, raw.mode)
      <3>1. report.profiles[i] = DownProfile(raw.profiles[i], raw.mode)
        BY <2>1, <2>2
      <3> QED
        BY <1>1, <2>2, <3>1, DownProfileForm
    <2> QED
      BY <1>1, <2>1, <2>2 DEF DownResults
  <1> QED
    BY <1>3, <1>4

\* The document that is patched is the report.
LEMMA PatchedIsReport ==
    ASSUME FullInv, Patch
    PROVE  document' = report
  <1> USE DEF ReportFields
  <1>1. /\ raw \in Reports /\ document = raw /\ stage = "patch"
        /\ IsRecord(report, ReportFields) /\ report.mode = raw.mode
    BY DEF Patch, FullInv, Inv, Form, Served
  <1>2. IsRecord(raw, ReportFields)
    BY <1>1, ReportsAssumption
  <1>3. PatchResults(raw.results, report.results) = report.results
    <2>1. IsResults(raw.results) /\ Keyed(raw.results)
      BY <1>1, KeysAssumption
    <2>2. PatchResults(raw.results, DownAll(raw.results, raw.mode)) = DownAll(raw.results, raw.mode)
      BY <2>1, PatchIsDown
    <2> QED
      BY <1>1, <2>2, BeforePatch
  <1>4. \A i \in DOMAIN raw.profiles :
            PatchProfile(raw.profiles[i], report.profiles) = report.profiles[i]
    <2> DEFINE new == report.profiles
    <2>1. /\ new = [i \in DOMAIN raw.profiles |-> new[i]]
          /\ \A i \in DOMAIN raw.profiles :
                /\ IsRecord(new[i], ProfileFields)
                /\ new[i].name = raw.profiles[i].name
                /\ new[i].results = DownAll(raw.profiles[i].results, raw.mode)
      BY <1>1, BeforePatch
    <2> HIDE DEF new
    <2>2. \A i \in DOMAIN raw.profiles : PatchProfile(raw.profiles[i], new) = new[i]
      BY <1>1, <2>1, PatchProfileIsOwn
    <2> QED
      BY <2>2 DEF new
  <1>5. [i \in DOMAIN raw.profiles |-> PatchProfile(raw.profiles[i], report.profiles)]
            = report.profiles
    BY <1>1, <1>4, BeforePatch
  <1>6. document' = [raw EXCEPT
            !.results = report.results,
            !.summary = report.summary,
            !.decision = report.decision,
            !.failedEndpoints = report.failedEndpoints,
            !.failedProfiles = report.failedProfiles,
            !.profiles = report.profiles]
    BY <1>1, <1>3, <1>5 DEF Patch
  <1> QED
    BY <1>1, <1>2, <1>6 DEF IsRecord

LEMMA NextFullInv == FullInv /\ [Next]_vars => FullInv'
  <1> SUFFICES ASSUME FullInv, [Next]_vars PROVE FullInv'
    OBVIOUS
  <1>1. Inv /\ Inv' /\ raw \in Reports
    BY NextInv DEF FullInv, Inv, Form
  <1>2. IsRecord(report, ReportFields) /\ report.mode = raw.mode
    BY <1>1 DEF Inv, Form
  <1>3. CASE NothingImpacted
    <2>1. impacted = {} /\ stage = "endpoints" /\ stage' = "patch"
          /\ UNCHANGED <<raw, impacted, hit, report, document>>
      BY <1>3 DEF NothingImpacted
    <2>2. report.results = raw.results /\ report.profiles = raw.profiles /\ hit = {}
      BY <2>1 DEF FullInv, Overlaid
    <2>3. DownAll(raw.results, raw.mode) = raw.results
      BY <1>1, <2>1, KeysAssumption, DownOfNothing
    <2>4. DownResults = raw.results /\ DownProfiles = raw.profiles /\ DownNames = {}
      BY <2>1, <2>3 DEF DownResults, DownProfiles, DownNames, Concerned
    <2>5. Overlaid'
      BY <2>1, <2>2, <2>4, InputsFixed DEF Overlaid
    <2>6. Failed' /\ Served'
      BY <2>1, <2>2 DEF FullInv, Failed, Served
    <2> QED
      BY <1>1, <2>5, <2>6 DEF FullInv
  <1>4. CASE OverlayEndpoints
    <2>1. /\ impacted # {} /\ stage = "endpoints" /\ stage' = "summary"
          /\ report.results = raw.results /\ report.profiles = raw.profiles
          /\ UNCHANGED <<raw, impacted, document>>
      BY <1>4 DEF OverlayEndpoints, FullInv, Overlaid
    <2>2. /\ report'.results = DownResults
          /\ report'.profiles = DownProfiles
          /\ report'.failedEndpoints = report.failedEndpoints
          /\ report'.failedProfiles = report.failedProfiles
      BY <1>2, <1>4, <2>1
      DEF OverlayEndpoints, IsRecord, ReportFields, DownResults, DownProfiles
    <2>3. hit' = DownNames
      BY <1>4, <2>1 DEF OverlayEndpoints, DownNames
    <2>4. Overlaid'
      BY <2>1, <2>2, <2>3, InputsFixed DEF Overlaid
    <2>5. Failed' /\ Served'
      BY <2>1, <2>2 DEF FullInv, Failed, Served
    <2> QED
      BY <1>1, <2>4, <2>5 DEF FullInv
  <1>5. ASSUME stage # "endpoints", stage' \notin {"endpoints"},
               UNCHANGED <<raw, impacted, hit, report.results, report.profiles>>
        PROVE  Overlaid'
    BY <1>5, InputsFixed DEF FullInv, Overlaid
  <1>6. CASE Summarise
    <2>1. /\ stage = "summary" /\ stage' = "policy"
          /\ UNCHANGED <<raw, impacted, hit, document>>
      BY <1>6 DEF Summarise
    <2>2. UNCHANGED <<report.results, report.profiles, report.failedEndpoints,
                      report.failedProfiles>>
      BY <1>2, <1>6 DEF Summarise, IsRecord, ReportFields
    <2>3. Failed' /\ Served'
      BY <2>1, <2>2 DEF FullInv, Failed, Served
    <2> QED
      BY <1>1, <1>5, <2>1, <2>2, <2>3 DEF FullInv
  <1>7. CASE Decide
    <2>1. /\ stage = "policy" /\ stage' = "patch"
          /\ UNCHANGED <<raw, impacted, hit, document>>
      BY <1>7 DEF Decide
    <2>2. /\ UNCHANGED <<report.results, report.profiles>>
          /\ report'.failedEndpoints = report.failedEndpoints \cup impacted
          /\ report'.failedProfiles = report.failedProfiles \cup hit
      BY <1>2, <1>7 DEF Decide, IsRecord, ReportFields
    <2>3. Failed' /\ Served'
      BY <2>1, <2>2 DEF FullInv, Failed, Served
    <2> QED
      BY <1>1, <1>5, <2>1, <2>2, <2>3 DEF FullInv
  <1>8. CASE Patch
    <2>1. /\ stage = "patch" /\ stage' = "saved"
          /\ UNCHANGED <<raw, impacted, hit, report>>
      BY <1>8 DEF Patch
    <2>2. Failed' /\ Served'
      BY <1>8, <2>1, PatchedIsReport DEF FullInv, Failed, Served
    <2> QED
      BY <1>1, <1>5, <2>1, <2>2 DEF FullInv
  <1>9. CASE UNCHANGED vars
    <2>1. Overlaid'
      BY <1>9, InputsFixed DEF vars, FullInv, Overlaid
    <2> QED
      BY <1>1, <1>9, <2>1 DEF vars, FullInv, Failed, Served
  <1> QED
    BY <1>3, <1>4, <1>6, <1>7, <1>8, <1>9 DEF Next

\* The document the API serves is the report the metrics export, although one is
\* patched by keys and names and the other was overlaid by position.
THEOREM DocumentAgrees == Spec => []DocumentIsReport
  <1>1. FullInv => DocumentIsReport
    BY DEF FullInv, Served, DocumentIsReport
  <1> QED
    BY <1>1, InitFullInv, NextFullInv, PTL DEF Spec

\* A profile with an endpoint that is down does not pass.
LEMMA ConcernedFails ==
    ASSUME NEW r \in Reports, NEW i \in DOMAIN r.profiles, Concerned(r.profiles[i])
    PROVE  DownProfile(r.profiles[i], r.mode).decision # "pass"
  <1> DEFINE p == r.profiles[i]
             worse == WorseDecision(p.decision, RuntimeDecision(r.mode))
  <1>1. IsRecord(p, ProfileFields) /\ p.decision \in Decisions /\ r.mode \in Modes
    BY ReportsAssumption
  <1>2. worse # "pass"
    BY <1>1, WorseDecisionIsWorse, RuntimeDecisionIsNoPass DEF Severity, Decisions
  <1>3. DownProfile(p, r.mode).decision = worse
    <2> HIDE DEF p
    <2> QED
      BY <1>1 DEF DownProfile, IsRecord, ProfileFields, p
  <1> QED
    BY <1>2, <1>3

LEMMA InitRestInv == Init => RestInv
  BY DEF Init, RestInv

LEMMA NextRestInv == RestInv /\ [Next]_vars => RestInv'
  <1> SUFFICES ASSUME RestInv, [Next]_vars PROVE RestInv'
    OBVIOUS
  <1>1. ASSUME UNCHANGED <<raw, impacted, report>>
        PROVE  PatchUnread(Unread(raw))' = PatchUnread(Unread(raw))
    BY <1>1 DEF PatchUnread, PatchUnreadProfile, PatchAggregate, RuntimeReasons
  <1>2. CASE NothingImpacted \/ OverlayEndpoints \/ Summarise \/ Decide
    BY <1>2 DEF NothingImpacted, OverlayEndpoints, Summarise, Decide, RestInv
  <1>3. CASE Patch
    <2>1. /\ rest = Unread(raw) /\ rest' = PatchUnread(rest) /\ stage' = "saved"
          /\ UNCHANGED <<raw, impacted, report>>
      BY <1>3 DEF Patch, RestInv
    <2> QED
      BY <1>1, <2>1 DEF RestInv
  <1>4. CASE UNCHANGED vars
    BY <1>1, <1>4 DEF vars, RestInv
  <1> QED
    BY <1>2, <1>3, <1>4 DEF Next

\* What is written of a profile beside the fields of a report is derived from the
\* profile in its own place.
LEMMA RestOfProfile ==
    ASSUME FullInv, RestInv, stage = "saved", NEW i \in DOMAIN raw.profiles
    PROVE  /\ rest.profiles[i].below = NonPassing(report.profiles[i].results)
           /\ rest.profiles[i].aggregate =
                 PatchAggregate(Unread(raw).profiles[i].aggregate, report.profiles[i].weighted)
  <1>1. raw \in Reports /\ rest = PatchUnread(Unread(raw))
    BY DEF FullInv, Inv, Form, RestInv
  <1>2. Named(raw.profiles[i].name, report.profiles) = i /\ i # 0
    BY <1>1, BeforePatch, NamedIsOwn
  <1>3. i \in DOMAIN Unread(raw).profiles
    BY <1>1, UnreadAssumption
  <1>4. rest.profiles[i] = PatchUnreadProfile(Unread(raw).profiles[i], raw.profiles[i].name)
    BY <1>1, <1>3 DEF PatchUnread
  <1> QED
    BY <1>2, <1>4 DEF PatchUnreadProfile

\* An aggregate that is patched passes if it did, without a threshold, or if its
\* availability reaches the threshold.
LEMMA PatchedAggregate ==
    ASSUME NEW a, NEW v, NEW w, IsAggregate(a, v), a # Absent
    PROVE  /\ PatchAggregate(a, w).availability = w
           /\ a.threshold = Absent => PatchAggregate(a, w).status = a.status
           /\ a.threshold # Absent =>
                 (PatchAggregate(a, w).status = "pass" <=> AtMost(a.threshold, w))
  <1>1. IsRecord(a, {"availability", "threshold", "status"})
    BY DEF IsAggregate
  <1>2. RuntimeStatus(report.mode) # "pass"
    BY DEF RuntimeStatus
  <1> DEFINE status == IF a.threshold = Absent THEN a.status
                       ELSE IF AtMost(a.threshold, w) THEN "pass"
                       ELSE RuntimeStatus(report.mode)
  <1>3. PatchAggregate(a, w) = [a EXCEPT !.availability = w, !.status = status]
    BY DEF PatchAggregate
  <1>4. PatchAggregate(a, w).availability = w /\ PatchAggregate(a, w).status = status
    <2> HIDE DEF status
    <2> QED
      BY <1>1, <1>3 DEF IsRecord
  <1> QED
    BY <1>2, <1>4

\* A list that is overlaid has no fewer results that do not pass.
LEMMA NonPassingGrows ==
    ASSUME NEW results, IsResults(results), NEW mode
    PROVE  NonPassing(DownAll(results, mode)) >= NonPassing(results)
  <1> DEFINE was == {i \in DOMAIN results : results[i].status # "pass"}
             now == {i \in DOMAIN results : DownAll(results, mode)[i].status # "pass"}
  <1>1. ASSUME NEW i \in was PROVE i \in now
    <2>1. IsRecord(results[i], ResultFields) /\ i \in DOMAIN results
      BY DEF IsResults
    <2>2. CASE results[i].endpoint \in impacted
      <3>1. DownAll(results, mode)[i] =
                [results[i] EXCEPT !.availability = 0, !.status = RuntimeStatus(mode)]
        BY <2>1, <2>2 DEF DownAll, Down
      <3>2. DownAll(results, mode)[i].status = RuntimeStatus(mode)
        BY <2>1, <3>1 DEF IsRecord, ResultFields
      <3> QED
        BY <2>1, <3>2 DEF RuntimeStatus
    <2>3. CASE results[i].endpoint \notin impacted
      BY <2>1, <2>3 DEF DownAll, Down
    <2> QED
      BY <2>2, <2>3
  <1>2. IsFiniteSet(DOMAIN results)
    BY ListShape, FS_Interval DEF IsResults
  <1>3. IsFiniteSet(now) /\ was \subseteq now
    BY <1>1, <1>2, FS_Subset
  <1>4. Cardinality(was) \in Nat /\ Cardinality(now) \in Nat /\ Cardinality(was) <= Cardinality(now)
    <2> HIDE DEF was, now
    <2> QED
      BY <1>3, FS_Subset, FS_CardinalityType
  <1>5. NonPassing(results) = Cardinality(was)
        /\ NonPassing(DownAll(results, mode)) = Cardinality(now)
    BY DEF NonPassing, DownAll
  <1> HIDE DEF was, now
  <1> QED
    BY <1>4, <1>5

\* A profile is lowered exactly if it has an endpoint that is down: otherwise what the
\* document says of it, reasons aside, is what Sheaft said, what is derived of it
\* anew included, and it is not added to the failed ones.
THEOREM ProfilesAreApart == Spec => []ProfilesStandAlone
  <1>1. FullInv /\ RestInv => ProfilesStandAlone
    <2> SUFFICES ASSUME FullInv, RestInv, stage = "saved", NEW i \in DOMAIN raw.profiles
                 PROVE  LET now == document.profiles[i]
                            was == raw.profiles[i]
                            nowUnread == rest.profiles[i]
                            wasUnread == Unread(raw).profiles[i]
                        IN  IF DOMAIN was.availability \cap impacted = {}
                            THEN /\ now = was
                                 /\ was.name \in document.failedProfiles
                                        => was.name \in raw.failedProfiles
                                 /\ nowUnread.below = wasUnread.below
                                 /\ nowUnread.aggregate # Absent =>
                                        /\ nowUnread.aggregate.availability =
                                                wasUnread.aggregate.availability
                                        /\ nowUnread.aggregate.status = "pass" <=>
                                                wasUnread.aggregate.status = "pass"
                            ELSE /\ now.decision # "pass"
                                 /\ was.name \in document.failedProfiles
                                 /\ nowUnread.below >= wasUnread.below
      BY DEF ProfilesStandAlone
    <2> DEFINE was == raw.profiles[i]
               aggregate == Unread(raw).profiles[i].aggregate
    <2>1. /\ raw \in Reports /\ document = report
          /\ report.profiles = DownProfiles
          /\ report.failedProfiles = raw.failedProfiles \cup DownNames
      BY DEF FullInv, Inv, Form, Served, Overlaid, Failed
    <2>2. ASSUME NEW j \in DOMAIN raw.profiles, raw.profiles[j].name = raw.profiles[i].name
          PROVE  j = i
      BY <2>1, <2>2, KeysAssumption
    <2>3. /\ rest.profiles[i].below = NonPassing(report.profiles[i].results)
          /\ rest.profiles[i].aggregate =
                PatchAggregate(aggregate, report.profiles[i].weighted)
      BY RestOfProfile
    <2>4. /\ Unread(raw).profiles[i].below = NonPassing(was.results)
          /\ IsAggregate(aggregate, was.weighted)
      BY <2>1, UnreadAssumption
    <2>5. CASE DOMAIN was.availability \cap impacted = {}
      <3>1. ~Concerned(was) /\ DownProfile(was, raw.mode) = was
        BY <2>1, <2>5, UnconcernedStays
      <3>2. report.profiles[i] = was
        BY <2>1, <3>1 DEF DownProfiles
      <3>3. was.name \notin DownNames
        BY <2>2, <3>1 DEF DownNames
      <3>4. ASSUME rest.profiles[i].aggregate # Absent
            PROVE  /\ rest.profiles[i].aggregate.availability = aggregate.availability
                   /\ rest.profiles[i].aggregate.status = "pass" <=> aggregate.status = "pass"
        <4>1. rest.profiles[i].aggregate = PatchAggregate(aggregate, was.weighted)
          BY <2>3, <3>2
        <4>2. aggregate # Absent
          BY <3>4, <4>1 DEF PatchAggregate
        <4> HIDE DEF aggregate, was
        <4>3. /\ PatchAggregate(aggregate, was.weighted).availability = was.weighted
              /\ aggregate.threshold = Absent =>
                    PatchAggregate(aggregate, was.weighted).status = aggregate.status
              /\ aggregate.threshold # Absent =>
                    (PatchAggregate(aggregate, was.weighted).status = "pass"
                        <=> AtMost(aggregate.threshold, was.weighted))
          BY <2>4, <4>2, PatchedAggregate
        <4>4. /\ aggregate.availability = was.weighted
              /\ aggregate.threshold # Absent =>
                    (aggregate.status = "pass" <=> AtMost(aggregate.threshold, was.weighted))
          BY <2>4, <4>2 DEF IsAggregate
        <4> QED
          BY <4>1, <4>3, <4>4
      <3> QED
        BY <2>1, <2>3, <2>4, <2>5, <3>2, <3>3, <3>4
    <2>6. CASE DOMAIN was.availability \cap impacted # {}
      <3>1. Concerned(was) /\ impacted # {}
        BY <2>6 DEF Concerned
      <3>2. report.profiles[i] = DownProfile(was, raw.mode)
        BY <2>1, <3>1 DEF DownProfiles
      <3>3. report.profiles[i].decision # "pass"
        BY <2>1, <3>1, <3>2, ConcernedFails
      <3>4. was.name \in DownNames
        BY <3>1 DEF DownNames
      <3>5. report.profiles[i].results = DownAll(was.results, raw.mode) /\ IsResults(was.results)
        BY <2>1, BeforePatch, ProfileForm
      <3>6. rest.profiles[i].below >= Unread(raw).profiles[i].below
        <4> HIDE DEF was
        <4> QED
          BY <2>3, <2>4, <3>5, NonPassingGrows
      <3> QED
        BY <2>1, <2>6, <3>3, <3>4, <3>6
    <2> QED
      BY <2>5, <2>6
  <1> QED
    BY <1>1, InitFullInv, NextFullInv, InitRestInv, NextRestInv, PTL DEF Spec

\* The gauges of a scrape agree with one another and with the document, and for
\* endpoints that are up with Sheaft.
THEOREM GaugesAgreeAlways == Spec => []GaugesAgree
  <1>1. FullInv => GaugesAgree
    <2> SUFFICES ASSUME FullInv, stage = "saved" PROVE GaugesAgree
      BY DEF GaugesAgree
    <2>1. /\ raw \in Reports /\ document = report
          /\ report.results = DownAll(raw.results, raw.mode)
          /\ report.failedEndpoints = raw.failedEndpoints \cup impacted
      BY DEF FullInv, Inv, Form, Served, Overlaid, Failed, DownResults
    <2>2. IsResults(raw.results)
      BY <2>1, KeysAssumption
    <2>3. ASSUME NEW x \in Exported PROVE RuntimeGauge[x] = 0 <=> x \in impacted
      BY <2>3 DEF RuntimeGauge
    <2>4. ASSUME NEW i \in DOMAIN ResultGauges
          PROVE  LET g == ResultGauges[i] IN
                 IF RuntimeGauge[g.endpoint] = 0
                 THEN g.availability = 0 /\ "pass" \notin g.one
                 ELSE \E r \in {raw.results[j] : j \in DOMAIN raw.results} :
                         /\ r.endpoint = g.endpoint
                         /\ ProfileLabel(r) = g.profile
                         /\ r.availability = g.availability
                         /\ r.status \in {"pass", "warn", "fail"} => g.one = {r.status}
      <3> DEFINE was == raw.results[i]
                 now == report.results[i]
      <3>1. /\ i \in DOMAIN raw.results /\ i \in DOMAIN report.results
            /\ IsRecord(was, ResultFields)
        BY <2>1, <2>2 DEF ResultGauges, DownAll, IsResults
      <3>2. ResultGauges[i] = [profile |-> ProfileLabel(now), endpoint |-> now.endpoint,
                               availability |-> now.availability,
                               one |-> {now.status} \cap {"pass", "warn", "fail"}]
        BY <3>1 DEF ResultGauges
      <3>3. now.endpoint \in Exported
        BY <3>1 DEF Exported
      <3>4. now = Down(was, raw.mode)
        BY <2>1, <3>1 DEF DownAll
      <3>5. now.endpoint = was.endpoint
        BY <3>1, <3>4 DEF Down, IsRecord, ResultFields
      <3>6. CASE was.endpoint \in impacted
        <4>1. now.availability = 0 /\ now.status = RuntimeStatus(raw.mode)
          <5>1. now = [was EXCEPT !.availability = 0, !.status = RuntimeStatus(raw.mode)]
            BY <3>4, <3>6 DEF Down
          <5> HIDE DEF now, was
          <5> QED
            BY <3>1, <5>1 DEF IsRecord, ResultFields
        <4>2. now.status \in {"warn", "fail"}
          BY <4>1 DEF RuntimeStatus
        <4>3. RuntimeGauge[now.endpoint] = 0
          BY <2>3, <3>3, <3>5, <3>6
        <4> HIDE DEF now
        <4> QED
          BY <3>2, <4>1, <4>2, <4>3
      <3>7. CASE was.endpoint \notin impacted
        <4>1. now = was
          BY <3>4, <3>7 DEF Down
        <4>2. RuntimeGauge[now.endpoint] # 0
          BY <2>3, <3>3, <3>5, <3>7
        <4>3. was \in {raw.results[j] : j \in DOMAIN raw.results}
          BY <3>1
        <4> DEFINE g == ResultGauges[i]
        <4>4. /\ was.endpoint = g.endpoint /\ ProfileLabel(was) = g.profile
              /\ was.availability = g.availability
              /\ was.status \in {"pass", "warn", "fail"} => g.one = {was.status}
          <5>1. g = [profile |-> ProfileLabel(was), endpoint |-> was.endpoint,
                     availability |-> was.availability,
                     one |-> {was.status} \cap {"pass", "warn", "fail"}]
            <6> HIDE DEF now, was
            <6> QED
              BY <3>2, <4>1
          <5> HIDE DEF was, g
          <5>2. /\ was.endpoint = g.endpoint /\ ProfileLabel(was) = g.profile
                /\ was.availability = g.availability
                /\ g.one = {was.status} \cap {"pass", "warn", "fail"}
            BY <5>1
          <5> QED
            BY <5>2
        <4>5. RuntimeGauge[g.endpoint] # 0
          BY <4>1, <4>2, <4>4
        <4> HIDE DEF now, was, g
        <4>6. \E r \in {raw.results[j] : j \in DOMAIN raw.results} :
                /\ r.endpoint = g.endpoint
                /\ ProfileLabel(r) = g.profile
                /\ r.availability = g.availability
                /\ r.status \in {"pass", "warn", "fail"} => g.one = {r.status}
          BY <4>3, <4>4
        <4> QED
          BY <4>5, <4>6 DEF g
      <3> QED
        BY <3>6, <3>7
    <2> QED
      BY <2>1, <2>3, <2>4 DEF GaugesAgree
  <1> QED
    BY <1>1, InitFullInv, NextFullInv, PTL DEF Spec

-----------------------------------------------------------------------------
(***************************************************************************)
(* Induction over the subsets of a finite set, and with it: a function     *)
(* defined by recursion over them exists.  Facts about sets of subsets and *)
(* about functions, not about operators, so that they can be instantiated. *)
(***************************************************************************)
\* From each subset but the empty one, less leads to a smaller one.
Shrinks(less, S) == \A s \in SUBSET S : s # {} => less[s] \in SUBSET s /\ less[s] # s

\* What holds of {}, and of s if it holds of less[s], holds of every subset.
LEMMA SubsetInduction ==
    ASSUME NEW S, IsFiniteSet(S), NEW less, Shrinks(less, S),
           NEW P, {} \in P,
           \A s \in SUBSET S : s # {} /\ less[s] \in P => s \in P
    PROVE  SUBSET S \subseteq P
  <1> SUFFICES ASSUME (SUBSET S) \ P # {} PROVE FALSE
    OBVIOUS
  <1> DEFINE R == StrictSubsetOrdering(S)
             T == (SUBSET S) \ P
  <1>1. IsWellFoundedOn(R, SUBSET S)
    BY FS_StrictSubsetOrderingWellFounded, FS_FiniteSubsetsOfFinite
  <1>2. PICK s \in T : \A t \in T : ~(<<t, s>> \in R)
    <2>1. T \subseteq SUBSET S /\ T # {}
      OBVIOUS
    <2> HIDE DEF R, T
    <2> QED
      BY <1>1, <2>1, WFMin
  <1>3. s # {}
    OBVIOUS
  <1>4. less[s] \in SUBSET S /\ less[s] \in SUBSET s /\ less[s] # s
    BY <1>3 DEF Shrinks
  <1>5. <<less[s], s>> \in R
    BY <1>4 DEF StrictSubsetOrdering
  <1> QED
    BY <1>2, <1>3, <1>4, <1>5

\* The same over the numbers.
LEMMA NatSetInduction ==
    ASSUME NEW T, 0 \in T, \A n \in Nat : n \in T => n + 1 \in T
    PROVE  Nat \subseteq T
  <1> SUFFICES ASSUME Nat \ T # {} PROVE FALSE
    OBVIOUS
  <1> DEFINE R == {p \in Nat \X Nat : p[1] < p[2]}
             U == Nat \ T
  <1>1. PICK m \in U : \A k \in U : ~(<<k, m>> \in R)
    <2>1. IsWellFoundedOn(R, Nat)
      BY NatLessThanWellFounded DEF OpToRel
    <2>2. U \subseteq Nat /\ U # {}
      OBVIOUS
    <2> HIDE DEF R, U
    <2> QED
      BY <2>1, <2>2, WFMin
  <1>2. m # 0 /\ m - 1 \in Nat /\ <<m - 1, m>> \in R
    OBVIOUS
  <1> QED
    BY <1>1, <1>2

\* One unfolding of a recursion over the subsets of S along less.
Step(S, base, less, F, g) ==
    [s \in SUBSET S |-> IF s = {} THEN base ELSE F[s][g[less[s]]]]

StepsIn(F, S, V) == \A s \in SUBSET S, v \in V : s # {} => F[s][v] \in V

HasRecursion(S, V, base, less, F) ==
    \E g \in [SUBSET S -> V] : g = Step(S, base, less, F, g)

\* The recursion has a solution: one for all subsets of up to n elements can be
\* extended to those of n + 1.
LEMMA RecursionExists ==
    ASSUME NEW S, IsFiniteSet(S), NEW V, NEW base \in V, NEW less, Shrinks(less, S),
           NEW F, StepsIn(F, S, V)
    PROVE  HasRecursion(S, V, base, less, F)
  <1> DEFINE Good(g, n) == \A s \in SUBSET S : Cardinality(s) <= n =>
                              g[s] = IF s = {} THEN base ELSE F[s][g[less[s]]]
             T == {n \in Nat : \E g \in [SUBSET S -> V] : Good(g, n)}
  <1>0. \A s \in SUBSET S : IsFiniteSet(s) /\ Cardinality(s) \in Nat
    BY FS_Subset, FS_CardinalityType
  <1>1. 0 \in T
    <2> DEFINE g == [s \in SUBSET S |-> base]
    <2>1. \A s \in SUBSET S : Cardinality(s) <= 0 => s = {}
      BY <1>0, FS_EmptySet
    <2>2. g \in [SUBSET S -> V] /\ Good(g, 0)
      BY <2>1
    <2> QED
      BY <2>2
  <1>2. ASSUME NEW n \in Nat, n \in T PROVE n + 1 \in T
    <2>1. PICK g \in [SUBSET S -> V] : Good(g, n)
      BY <1>2
    <2> DEFINE h == Step(S, base, less, F, g)
    <2>2. \A s \in SUBSET S : s # {} => less[s] \in SUBSET S /\ g[less[s]] \in V
      BY DEF Shrinks
    <2>3. h \in [SUBSET S -> V]
      BY <2>2 DEF Step, StepsIn
    <2>4. ASSUME NEW s \in SUBSET S, s # {}, Cardinality(s) <= n + 1
          PROVE  g[less[s]] = h[less[s]]
      <3>1. less[s] \in SUBSET S /\ less[s] \in SUBSET s /\ less[s] # s
        BY <2>4 DEF Shrinks
      <3>2. Cardinality(less[s]) < Cardinality(s)
        BY <1>0, <3>1, FS_Subset
      <3>3. Cardinality(less[s]) <= n
        BY <1>0, <2>4, <3>1, <3>2
      <3> QED
        BY <2>1, <3>1, <3>3 DEF Step
    <2>5. Good(h, n + 1)
      BY <2>4 DEF Step
    <2> QED
      BY <2>3, <2>5
  <1>3. Nat \subseteq T
    <2> HIDE DEF T
    <2> QED
      BY <1>1, <1>2, NatSetInduction
  <1>4. PICK g \in [SUBSET S -> V] : Good(g, Cardinality(S))
    BY <1>0, <1>3
  <1>5. \A s \in SUBSET S : Cardinality(s) <= Cardinality(S)
    BY FS_Subset
  <1>6. g = Step(S, base, less, F, g)
    BY <1>4, <1>5 DEF Step
  <1> QED
    BY <1>6 DEF HasRecursion

-----------------------------------------------------------------------------
(***************************************************************************)
(* The folds of the overlay: a sum is the value of such a recursion, and so*)
(* is a total of fractions.  Both are monotone.                            *)
(***************************************************************************)
\* Sum takes the elements as they come.
SumRest(S) == [s \in SUBSET S |-> s \ {CHOOSE x \in s : TRUE}]
SumStep(f, S) == [s \in SUBSET S |-> [v \in Nat |-> f[CHOOSE x \in s : TRUE] + v]]

IsSum(h, f, S) ==
    h = [s \in SUBSET S |-> IF s = {} THEN 0
                            ELSE f[CHOOSE x \in s : TRUE] + h[s \ {CHOOSE x \in s : TRUE}]]

LEMMA SumRestShrinks == \A S : Shrinks(SumRest(S), S)
  BY DEF Shrinks, SumRest

\* recomputeAggregates: the sum is that of a solution, whatever CHOOSE takes.
LEMMA SumIsThere ==
    ASSUME NEW S, IsFiniteSet(S), NEW f \in [S -> Nat]
    PROVE  \E h : IsSum(h, f, S) /\ Sum(f) = h[S]
  <1>1. Sum(f) = (CHOOSE h : IsSum(h, f, S))[S]
    BY DEF Sum, SumFunctionOnSet, FoldFunctionOnSet, MapThenFoldSet, IsSum
  <1>2. StepsIn(SumStep(f, S), S, Nat)
    BY DEF StepsIn, SumStep
  <1>3. PICK g \in [SUBSET S -> Nat] : g = Step(S, 0, SumRest(S), SumStep(f, S), g)
    <2> DEFINE zero == 0
               N == Nat
    <2>1. zero \in N /\ StepsIn(SumStep(f, S), S, N)
      BY <1>2
    <2>2. HasRecursion(S, N, zero, SumRest(S), SumStep(f, S))
      <3> HIDE DEF zero, N
      <3> QED
        BY <2>1, SumRestShrinks, RecursionExists
    <2> QED
      BY <2>2 DEF HasRecursion
  <1>4. IsSum(g, f, S)
    BY <1>3 DEF IsSum, SumStep, SumRest, Step
  <1> QED
    BY <1>1, <1>4

LEMMA MulMono ==
    ASSUME NEW x \in Int, NEW y \in Int, NEW k \in Nat, x <= y
    PROVE  x * k <= y * k
  OBVIOUS

\* Smaller terms have a smaller sum.
LEMMA SumMono ==
    ASSUME NEW S, IsFiniteSet(S), NEW f \in [S -> Nat], NEW g \in [S -> Nat],
           \A x \in S : f[x] <= g[x]
    PROVE  Sum(f) \in Nat /\ Sum(g) \in Nat /\ Sum(f) <= Sum(g)
  <1>1. PICK h : IsSum(h, f, S) /\ Sum(f) = h[S]
    BY SumIsThere
  <1>2. PICK k : IsSum(k, g, S) /\ Sum(g) = k[S]
    BY SumIsThere
  <1> DEFINE P == {s \in SUBSET S : h[s] \in Nat /\ k[s] \in Nat /\ h[s] <= k[s]}
             less == SumRest(S)
  <1>3. {} \in P
    BY <1>1, <1>2 DEF IsSum
  <1>4. ASSUME NEW s \in SUBSET S, s # {}, less[s] \in P
        PROVE  s \in P
    <2> DEFINE x == CHOOSE x \in s : TRUE
    <2>1. x \in S /\ less[s] = s \ {x}
      BY <1>4 DEF SumRest
    <2>2. h[s] = f[x] + h[less[s]] /\ k[s] = g[x] + k[less[s]]
      BY <1>1, <1>2, <1>4, <2>1 DEF IsSum
    <2> HIDE DEF x, less
    <2> QED
      BY <1>4, <2>1, <2>2
  <1>5. SUBSET S \subseteq P
    <2> HIDE DEF P
    <2> QED
      BY <1>3, <1>4, SumRestShrinks, SubsetInduction
  <1> QED
    BY <1>1, <1>2, <1>5

Fractions == [num : Nat, den : Nat \ {0}]

\* At most, with one denominator, as fractions of one set of endpoints have.
Below(p, q) == p \in Fractions /\ q \in Fractions /\ p.den = q.den /\ p.num <= q.num

\* Below is AtMost, and the risk goes the other way.
LEMMA BelowIsAtMost ==
    ASSUME NEW p, NEW q, Below(p, q)
    PROVE  AtMost(p, q) /\ AtMost(OneMinus(q), OneMinus(p))
  <1>1. /\ p.num \in Nat /\ q.num \in Nat /\ p.den \in Nat /\ q.den = p.den /\ p.num <= q.num
    BY DEF Below, Fractions
  <1>2. p.num * p.den <= q.num * p.den
    BY <1>1, MulMono
  <1>3. (q.den - q.num) * p.den <= (p.den - p.num) * p.den
    BY <1>1, MulMono
  <1> QED
    BY <1>1, <1>2, <1>3 DEF AtMost, OneMinus, Fraction

\* Plus and Over respect it.
LEMMA PlusBelow ==
    ASSUME NEW p, NEW q, Below(p, q), NEW r, NEW t, Below(r, t)
    PROVE  Below(Plus(p, r), Plus(q, t))
  <1>1. /\ p.num \in Nat /\ q.num \in Nat /\ p.den \in Nat \ {0} /\ q.den = p.den
        /\ r.num \in Nat /\ t.num \in Nat /\ r.den \in Nat \ {0} /\ t.den = r.den
        /\ p.num <= q.num /\ r.num <= t.num
    BY DEF Below, Fractions
  <1>2. p.num * r.den <= q.num * r.den /\ r.num * p.den <= t.num * p.den
    BY <1>1, MulMono
  <1>3. /\ p.num * r.den \in Nat /\ q.num * r.den \in Nat
        /\ r.num * p.den \in Nat /\ t.num * p.den \in Nat
        /\ p.den * r.den \in Nat \ {0}
    BY <1>1
  <1> QED
    BY <1>1, <1>2, <1>3 DEF Below, Plus, Fraction, Fractions

LEMMA OverBelow ==
    ASSUME NEW p, NEW q, Below(p, q), NEW n \in Nat \ {0}
    PROVE  Below(Over(p, n), Over(q, n))
  <1>1. /\ p.num \in Nat /\ q.num \in Nat /\ p.den \in Nat \ {0} /\ q.den = p.den
        /\ p.num <= q.num
    BY DEF Below, Fractions
  <1>2. p.den * n \in Nat \ {0}
    BY <1>1
  <1> QED
    BY <1>1, <1>2 DEF Below, Over, Fraction, Fractions

LEMMA ZeroBelow == Below(Zero, Zero)
  BY DEF Below, Zero, Fraction, Fractions

\* A set of positions that is not empty has a last one.
LEMMA MaxIsIn ==
    ASSUME NEW n \in Nat, NEW s \in SUBSET (1..n), s # {}
    PROVE  Max(s) \in s
  <1> DEFINE S == 1..n
             P == {t \in SUBSET S : t # {} => \E m \in t : \A y \in t : m >= y}
             less == SumRest(S)
  <1>1. {} \in P
    OBVIOUS
  <1>2. ASSUME NEW t \in SUBSET S, t # {}, less[t] \in P
        PROVE  t \in P
    <2>1. PICK x \in t : less[t] = t \ {x}
      BY <1>2 DEF SumRest
    <2>2. CASE less[t] = {}
      <3>1. \A y \in t : x >= y
        BY <2>1, <2>2
      <3> QED
        BY <3>1
    <2>3. CASE less[t] # {}
      <3>1. PICK m \in t \ {x} : \A y \in t \ {x} : m >= y
        BY <1>2, <2>1, <2>3
      <3>2. CASE m >= x
        <4>1. \A y \in t : m >= y
          BY <3>1, <3>2
        <4> QED
          BY <3>1, <4>1
      <3>3. CASE ~(m >= x)
        <4>1. \A y \in t : x >= y
          BY <3>1, <3>3
        <4> QED
          BY <4>1
      <3> QED
        BY <3>2, <3>3
    <2> QED
      BY <2>2, <2>3
  <1>3. IsFiniteSet(S)
    BY FS_Interval
  <1>4. SUBSET S \subseteq P
    <2> HIDE DEF P, S
    <2> QED
      BY <1>1, <1>2, <1>3, SumRestShrinks, SubsetInduction
  <1>5. \E m \in s : \A y \in s : m >= y
    BY <1>4
  <1> QED
    BY <1>5 DEF Max

\* FoldLeft takes the last element first.
MaxRest(S) == [s \in SUBSET S |-> s \ {Max(s)}]
PlusStep(p, S) == [s \in SUBSET S |-> [v \in Fractions |-> Plus(v, p[Max(s)])]]

IsTotal(h, p) ==
    h = [s \in SUBSET DOMAIN p |->
            IF s = {} THEN Zero ELSE Plus(h[s \ {Max(s)}], p[Max(s)])]

LEMMA MaxRestShrinks ==
    ASSUME NEW n \in Nat
    PROVE  Shrinks(MaxRest(1..n), 1..n)
  BY MaxIsIn DEF Shrinks, MaxRest

\* A total of fractions is that of a solution.
LEMMA TotalIsThere ==
    ASSUME NEW n \in Nat, NEW p, DOMAIN p = 1..n, \A i \in 1..n : p[i] \in Fractions
    PROVE  \E h : IsTotal(h, p) /\ FoldLeft(Plus, Zero, p) = h[1..n]
  <1> DEFINE S == 1..n
  <1>1. FoldLeft(Plus, Zero, p) = (CHOOSE h : IsTotal(h, p))[S]
    BY DEF FoldLeft, MapThenFoldSet, IsTotal
  <1>2. \A v, w \in Fractions : Plus(v, w) \in Fractions
    <2>1. \A v \in Fractions : Below(v, v)
      BY DEF Below, Fractions
    <2> QED
      BY <2>1, PlusBelow DEF Below
  <1>3. StepsIn(PlusStep(p, S), S, Fractions)
    BY <1>2, MaxIsIn DEF StepsIn, PlusStep
  <1>4. HasRecursion(S, Fractions, Zero, MaxRest(S), PlusStep(p, S))
    BY <1>3, MaxRestShrinks, FS_Interval, ZeroBelow, RecursionExists DEF Below
  <1>5. PICK g \in [SUBSET S -> Fractions] :
            g = Step(S, Zero, MaxRest(S), PlusStep(p, S), g)
    BY <1>4 DEF HasRecursion
  <1>6. \A s \in SUBSET S : s # {} => s \ {Max(s)} \in SUBSET S /\ g[s \ {Max(s)}] \in Fractions
    OBVIOUS
  <1>7. IsTotal(g, p)
    BY <1>5, <1>6 DEF IsTotal, PlusStep, MaxRest, Step
  <1> QED
    BY <1>1, <1>7

\* The mean across profiles respects Below.
LEMMA MeanBelow ==
    ASSUME NEW p, NEW q, p \in Seq(Range(p)), q \in Seq(Range(q)), DOMAIN q = DOMAIN p,
           DOMAIN p # {}, \A i \in DOMAIN p : Below(p[i], q[i])
    PROVE  Below(Mean(p), Mean(q))
  <1>1. PICK n \in Nat : DOMAIN p = 1..n /\ Len(p) = n /\ Len(q) = n
    BY LenProperties
  <1>2. PICK h : IsTotal(h, p) /\ FoldLeft(Plus, Zero, p) = h[1..n]
    BY <1>1, TotalIsThere DEF Below
  <1>3. PICK k : IsTotal(k, q) /\ FoldLeft(Plus, Zero, q) = k[1..n]
    BY <1>1, TotalIsThere DEF Below
  <1> DEFINE S == 1..n
             P == {s \in SUBSET S : Below(h[s], k[s])}
             less == MaxRest(S)
  <1>4. {} \in P
    BY <1>1, <1>2, <1>3, ZeroBelow DEF IsTotal
  <1>5. ASSUME NEW s \in SUBSET S, s # {}, less[s] \in P
        PROVE  s \in P
    <2>1. Max(s) \in S /\ less[s] = s \ {Max(s)}
      BY <1>5, MaxIsIn DEF MaxRest
    <2>2. h[s] = Plus(h[less[s]], p[Max(s)]) /\ k[s] = Plus(k[less[s]], q[Max(s)])
      BY <1>1, <1>2, <1>3, <1>5, <2>1 DEF IsTotal
    <2>3. Below(h[less[s]], k[less[s]]) /\ Below(p[Max(s)], q[Max(s)])
      BY <1>1, <1>5, <2>1
    <2>4. Below(h[s], k[s])
      BY <2>2, <2>3, PlusBelow
    <2> QED
      BY <2>4
  <1>6. SUBSET S \subseteq P
    <2>1. IsFiniteSet(S)
      <3>1. 1 \in Int /\ n \in Int
        OBVIOUS
      <3> QED
        BY <3>1, FS_Interval
    <2>2. Shrinks(less, S)
      BY MaxRestShrinks
    <2> HIDE DEF P, S, less
    <2> QED
      BY <1>4, <1>5, <2>1, <2>2, SubsetInduction
  <1>7. Below(h[S], k[S])
    BY <1>6
  <1>8. n \in Nat \ {0}
    BY <1>1
  <1> QED
    BY <1>1, <1>2, <1>3, <1>7, <1>8, OverBelow DEF Mean

\* Availabilities of the same endpoints, none of them higher.
Lower(a, b) ==
    /\ IsFiniteSet(DOMAIN b)
    /\ a \in [DOMAIN b -> Nat] /\ b \in [DOMAIN b -> Nat]
    /\ \A x \in DOMAIN b : a[x] <= b[x]

\* Nor are their means, as recomputeAggregates computes them.
LEMMA UnweightedBelow ==
    ASSUME NEW a, NEW b, Lower(a, b)
    PROVE  Below(Unweighted(a), Unweighted(b))
  <1> DEFINE S == DOMAIN b
  <1>1. IsFiniteSet(S) /\ a \in [S -> Nat] /\ b \in [S -> Nat] /\ DOMAIN a = S
    BY DEF Lower
  <1>2. CASE S = {}
    <2>1. a = b
      BY <1>1, <1>2
    <2>2. Cardinality(S) = 0 /\ Sum(b) \in Nat
      BY <1>1, <1>2, FS_EmptySet, SumMono
    <2>3. b = <<>>
      <3>1. b \in Seq(Nat) /\ Len(b) = 0
        BY <1>1, <1>2
      <3> QED
        BY <3>1, EmptySeq
    <2>4. Unweighted(a) = Zero /\ Unweighted(b) = Zero
      BY <2>1, <2>3 DEF Unweighted
    <2> QED
      BY <2>4, ZeroBelow
  <1>3. CASE S # {}
    <2>1. a # <<>> /\ b # <<>>
      BY <1>1, <1>3
    <2>2. Sum(a) \in Nat /\ Sum(b) \in Nat /\ Sum(a) <= Sum(b)
      BY <1>1, SumMono DEF Lower
    <2>3. Cardinality(S) \in Nat \ {0}
      BY <1>1, <1>3, FS_EmptySet, FS_CardinalityType
    <2>4. Full * Cardinality(S) \in Nat \ {0}
      BY <2>3, ReportsAssumption
    <2> QED
      BY <1>1, <2>1, <2>2, <2>4 DEF Unweighted, Fraction, Fractions, Below
  <1> QED
    BY <1>2, <1>3

LEMMA WeightedBelow ==
    ASSUME NEW a, NEW b, Lower(a, b), NEW w, \A x \in DOMAIN w : w[x] \in Nat
    PROVE  Below(Weighted(a, w), Weighted(b, w))
  <1> DEFINE W == {x \in DOMAIN b \cap DOMAIN w : w[x] > 0}
             weights == [x \in W |-> w[x]]
             f == [x \in W |-> a[x] * w[x]]
             g == [x \in W |-> b[x] * w[x]]
             total == Sum(weights)
  <1>1. DOMAIN a = DOMAIN b
    BY DEF Lower
  <1>2. IsFiniteSet(W)
    BY FS_Subset DEF Lower
  <1>3. \A x \in W : /\ a[x] \in Nat /\ b[x] \in Nat /\ w[x] \in Nat /\ a[x] <= b[x]
                     /\ a[x] * w[x] \in Nat /\ b[x] * w[x] \in Nat
                     /\ a[x] * w[x] <= b[x] * w[x]
    BY MulMono DEF Lower
  <1>4. weights \in [W -> Nat] /\ f \in [W -> Nat] /\ g \in [W -> Nat]
        /\ \A x \in W : weights[x] <= weights[x] /\ f[x] <= g[x]
    BY <1>3
  <1>5. total \in Nat
    <2> HIDE DEF W, weights
    <2> QED
      BY <1>2, <1>4, SumMono
  <1>6. Sum(f) \in Nat /\ Sum(g) \in Nat /\ Sum(f) <= Sum(g)
    <2> HIDE DEF W, f, g
    <2> QED
      BY <1>2, <1>4, SumMono
  <1>7. Weighted(a, w) = (IF total = 0 THEN Unweighted(a) ELSE Fraction(Sum(f), Full * total))
    BY <1>1 DEF Weighted
  <1>8. Weighted(b, w) = (IF total = 0 THEN Unweighted(b) ELSE Fraction(Sum(g), Full * total))
    BY DEF Weighted
  <1> HIDE DEF W, f, g, total
  <1>9. CASE total = 0
    BY <1>7, <1>8, <1>9, UnweightedBelow
  <1>10. CASE total # 0
    <2>1. Full * total \in Nat \ {0}
      BY <1>5, <1>10, ReportsAssumption
    <2> QED
      BY <1>6, <1>7, <1>8, <1>10, <2>1 DEF Fraction, Fractions, Below
  <1> QED
    BY <1>9, <1>10

-----------------------------------------------------------------------------
(***************************************************************************)
(* No number of the effective report is better than Sheaft's, and no       *)
(* verdict that is derived from one.                                       *)
(***************************************************************************)
\* What is recomputed of the summary, and when.
SummaryInv ==
    /\ stage \in {"summary", "policy"} => impacted # {}
    /\ report.summary = IF stage \in {"endpoints", "summary"} \/ impacted = {}
                        THEN Decoded(raw).summary
                        ELSE Updated(Decoded(raw).summary, Means(report))

LEMMA InitSummaryInv == Init => SummaryInv
  BY DEF Init, SummaryInv

\* The means are those of the results and the profiles.
LEMMA MeansFixed ==
    ASSUME UNCHANGED <<report.results, report.profiles>>
    PROVE  Means(report)' = Means(report)
  BY DEF Means

LEMMA NextSummaryInv == FullInv /\ SummaryInv /\ [Next]_vars => SummaryInv'
  <1> SUFFICES ASSUME FullInv, SummaryInv, [Next]_vars PROVE SummaryInv'
    OBVIOUS
  <1>1. IsRecord(report, ReportFields)
    BY DEF FullInv, Inv, Form
  <1>2. UNCHANGED raw => UNCHANGED Decoded(raw)
    BY DEF Decoded
  <1>3. CASE NothingImpacted
    BY <1>2, <1>3 DEF NothingImpacted, SummaryInv
  <1>4. CASE OverlayEndpoints
    <2>1. report'.summary = report.summary
      BY <1>1, <1>4 DEF OverlayEndpoints, IsRecord, ReportFields
    <2> QED
      BY <1>2, <1>4, <2>1 DEF OverlayEndpoints, SummaryInv
  <1>5. CASE Summarise
    <2>1. /\ report'.summary = Updated(report.summary, Means(report))
          /\ UNCHANGED <<report.results, report.profiles>>
      BY <1>1, <1>5 DEF Summarise, IsRecord, ReportFields
    <2>2. Means(report)' = Means(report)
      BY <2>1, MeansFixed
    <2> QED
      BY <1>2, <1>5, <2>1, <2>2 DEF Summarise, SummaryInv
  <1>6. CASE Decide
    <2>1. UNCHANGED <<report.summary, report.results, report.profiles>>
      BY <1>1, <1>6 DEF Decide, IsRecord, ReportFields
    <2>2. Means(report)' = Means(report)
      BY <2>1, MeansFixed
    <2> QED
      BY <1>2, <1>6, <2>1, <2>2 DEF Decide, SummaryInv
  <1>7. CASE Patch
    <2>1. Means(report)' = Means(report)
      BY <1>7, MeansFixed DEF Patch
    <2> QED
      BY <1>2, <1>7, <2>1 DEF Patch, SummaryInv
  <1>8. CASE UNCHANGED vars
    <2>1. Means(report)' = Means(report)
      BY <1>8, MeansFixed DEF vars
    <2> QED
      BY <1>2, <1>8, <2>1 DEF vars, SummaryInv
  <1> QED
    BY <1>3, <1>4, <1>5, <1>6, <1>7, <1>8 DEF Next

\* Without profiles: the availabilities that are averaged.
LEMMA ResultOfIsLower ==
    ASSUME NEW results, IsResults(results),
           \A i \in DOMAIN results : results[i].availability \in 0..Full,
           NEW mode
    PROVE  Lower(ResultOf(DownAll(results, mode)), ResultOf(results))
  <1> DEFINE new == DownAll(results, mode)
             D == {results[i].endpoint : i \in DOMAIN results}
             At(x) == {i \in DOMAIN results : results[i].endpoint = x}
  <1>1. PICK n \in Nat : DOMAIN results = 1..n /\ Len(results) = n
    BY ListShape DEF IsResults
  <1>2. new = [i \in DOMAIN results |-> new[i]] /\ DOMAIN new = DOMAIN results
    BY DEF DownAll
  <1>3. Len(new) = n
    <2> HIDE DEF new
    <2> QED
      BY <1>1, <1>2, ImageLen DEF IsResults
  <1>4. ASSUME NEW i \in DOMAIN results
        PROVE  /\ new[i].endpoint = results[i].endpoint
               /\ new[i].availability \in Nat /\ results[i].availability \in Nat
               /\ new[i].availability <= results[i].availability
    <2>1. results[i].availability \in 0..Full /\ Full \in Nat
      BY <1>4, ReportsAssumption
    <2> QED
      BY <1>4, <2>1 DEF IsResults, IsRecord, ResultFields, DownAll, Down
  <1> HIDE DEF new
  <1>5. ASSUME NEW x \in D
        PROVE  /\ Max(At(x)) \in DOMAIN results
               /\ SelectLastInSeq(results, LAMBDA r : r.endpoint = x) = Max(At(x))
               /\ SelectLastInSeq(new, LAMBDA r : r.endpoint = x) = Max(At(x))
    <2>1. At(x) # {} /\ At(x) \in SUBSET (1..n)
      BY <1>1, <1>5
    <2>2. Max(At(x)) \in At(x)
      <3> HIDE DEF At
      <3> QED
        BY <2>1, MaxIsIn
    <2>3. {i \in 1..n : results[i].endpoint = x} = At(x)
      BY <1>1
    <2>4. {i \in 1..n : new[i].endpoint = x} = At(x)
      BY <1>1, <1>4
    <2> QED
      BY <1>1, <1>3, <2>1, <2>2, <2>3, <2>4 DEF SelectLastInSeq
  <1>6. {new[i].endpoint : i \in DOMAIN new} = D
    BY <1>2, <1>4
  <1>7. ResultOf(results) = [x \in D |-> results[Max(At(x))].availability]
    BY <1>5 DEF ResultOf
  <1>8. ResultOf(new) = [x \in D |-> new[Max(At(x))].availability]
    BY <1>5, <1>6 DEF ResultOf
  <1>9. IsFiniteSet(D)
    <2> DEFINE f == [i \in 1..n |-> results[i].endpoint]
    <2>1. f \in Surjection(1..n, D)
      BY <1>1 DEF Surjection
    <2>2. IsFiniteSet(1..n)
      <3>1. 1 \in Int /\ n \in Int
        OBVIOUS
      <3> QED
        BY <3>1, FS_Interval
    <2> HIDE DEF f, D
    <2> QED
      BY <2>1, <2>2, FS_Surjection
  <1> HIDE DEF D, At
  <1> QED
    BY <1>4, <1>5, <1>7, <1>8, <1>9 DEF Lower, new

\* A profile's numbers, overlaid or as they were.
LEMMA ProfileNumbers ==
    ASSUME FullInv, stage # "endpoints", NEW i \in DOMAIN raw.profiles
    PROVE  /\ Below(report.profiles[i].weighted, raw.profiles[i].weighted)
           /\ Below(report.profiles[i].unweighted, raw.profiles[i].unweighted)
  <1> DEFINE p == raw.profiles[i]
             low == [x \in DOMAIN p.availability |->
                        IF x \in impacted THEN 0 ELSE p.availability[x]]
  <1>1. raw \in Reports /\ report.profiles = DownProfiles
    BY DEF FullInv, Inv, Form, Overlaid
  <1>2. /\ IsFiniteSet(DOMAIN p.availability)
        /\ p.availability \in [DOMAIN p.availability -> 0..Full]
        /\ \A x \in DOMAIN p.weights : p.weights[x] \in Nat
        /\ p.weighted = Weighted(p.availability, p.weights)
        /\ p.unweighted = Unweighted(p.availability)
    BY <1>1, MeansAssumption DEF Range
  <1>3. Lower(p.availability, p.availability) /\ Lower(low, p.availability)
    BY <1>2, ReportsAssumption DEF Lower
  <1>4. CASE impacted = {}
    <2>1. report.profiles[i] = p
      BY <1>1, <1>4 DEF DownProfiles
    <2> HIDE DEF p
    <2> QED
      BY <1>2, <1>3, <2>1, WeightedBelow, UnweightedBelow DEF p
  <1>5. CASE impacted # {}
    <2>1. report.profiles[i] = DownProfile(p, raw.mode)
      BY <1>1, <1>5 DEF DownProfiles
    <2>2. IsRecord(p, ProfileFields)
      BY <1>1, ReportsAssumption
    <2> HIDE DEF p
    <2>3. /\ report.profiles[i].weighted = Weighted(low, p.weights)
          /\ report.profiles[i].unweighted = Unweighted(low)
      BY <2>1, <2>2 DEF DownProfile, IsRecord, ProfileFields
    <2> HIDE DEF low
    <2>4. /\ Below(report.profiles[i].weighted, p.weighted)
          /\ Below(report.profiles[i].unweighted, p.unweighted)
      BY <1>2, <1>3, <2>3, WeightedBelow, UnweightedBelow
    <2> QED
      BY <2>4 DEF p
  <1> QED
    BY <1>4, <1>5

\* The recomputed means are at most those of Sheaft's results and profiles.
LEMMA MeansBelow ==
    ASSUME FullInv, stage # "endpoints"
    PROVE  /\ \A f \in DOMAIN Means(raw) \ {"risk"} : Below(Means(report)[f], Means(raw)[f])
           /\ AtMost(Means(raw).risk, Means(report).risk)
           /\ DOMAIN Means(report) = DOMAIN Means(raw)
  <1>1. raw \in Reports /\ report.results = DownAll(raw.results, raw.mode)
    BY DEF FullInv, Inv, Form, Overlaid, DownResults
  <1>2. report.profiles = [i \in DOMAIN raw.profiles |-> report.profiles[i]]
    BY BeforePatch
  <1>3. raw.profiles \in Seq(Range(raw.profiles))
    BY <1>1, KeysAssumption
  <1>4. CASE raw.profiles = <<>>
    <2>1. report.profiles = <<>>
      BY <1>2, <1>4
    <2>2. Below(Unweighted(ResultOf(report.results)), Unweighted(ResultOf(raw.results)))
      BY <1>1, KeysAssumption, MeansAssumption, ResultOfIsLower, UnweightedBelow
    <2> QED
      BY <1>4, <2>1, <2>2, BelowIsAtMost DEF Means
  <1>5. CASE raw.profiles # <<>>
    <2>1. PICK n \in Nat \ {0} : DOMAIN raw.profiles = 1..n
      BY <1>3, <1>5, LenProperties, EmptySeq
    <2>2. report.profiles # <<>>
      BY <1>2, <2>1
    <2> DEFINE u == [i \in 1..n |-> report.profiles[i].unweighted]
               v == [i \in 1..n |-> raw.profiles[i].unweighted]
               w == [i \in 1..n |-> report.profiles[i].weighted]
               x == [i \in 1..n |-> raw.profiles[i].weighted]
    <2>3. \A i \in 1..n : Below(u[i], v[i]) /\ Below(w[i], x[i])
      BY <2>1, ProfileNumbers
    <2>4. /\ u \in Seq(Range(u)) /\ v \in Seq(Range(v))
          /\ w \in Seq(Range(w)) /\ x \in Seq(Range(x))
      BY SeqDef DEF Range
    <2>5. 1..n # {} /\ DOMAIN u = 1..n /\ DOMAIN v = 1..n /\ DOMAIN w = 1..n /\ DOMAIN x = 1..n
      OBVIOUS
    <2>6. /\ Means(raw) = [overall |-> v[1], weighted |-> x[1], risk |-> OneMinus(x[1]),
                           crossWeighted |-> Mean(x), cross |-> Mean(v)]
          /\ Means(report) = [overall |-> u[1], weighted |-> w[1], risk |-> OneMinus(w[1]),
                              crossWeighted |-> Mean(w), cross |-> Mean(u)]
      <3>1. 1 \in 1..n /\ DOMAIN report.profiles = 1..n
        BY <1>2, <2>1
      <3>2. /\ raw.profiles[1].unweighted = v[1] /\ raw.profiles[1].weighted = x[1]
            /\ report.profiles[1].unweighted = u[1] /\ report.profiles[1].weighted = w[1]
        BY <3>1
      <3>3. Means(raw) = [overall |-> raw.profiles[1].unweighted,
                          weighted |-> raw.profiles[1].weighted,
                          risk |-> OneMinus(raw.profiles[1].weighted),
                          crossWeighted |-> Mean(x), cross |-> Mean(v)]
        BY <1>5, <2>1 DEF Means
      <3>4. Means(report) = [overall |-> report.profiles[1].unweighted,
                             weighted |-> report.profiles[1].weighted,
                             risk |-> OneMinus(report.profiles[1].weighted),
                             crossWeighted |-> Mean(w), cross |-> Mean(u)]
        BY <2>2, <3>1 DEF Means
      <3> QED
        BY <3>2, <3>3, <3>4
    <2> HIDE DEF u, v, w, x
    <2>7. Below(Mean(u), Mean(v)) /\ Below(Mean(w), Mean(x))
      BY <2>3, <2>4, <2>5, MeanBelow
    <2>8. 1 \in 1..n
      OBVIOUS
    <2> QED
      BY <2>3, <2>6, <2>7, <2>8, BelowIsAtMost
  <1> QED
    BY <1>4, <1>5

\* What the summary holds was computed from what is left, and so is at most Sheaft's.
LEMMA SummaryBelow ==
    ASSUME FullInv, SummaryInv, stage = "saved"
    PROVE  /\ \A f \in {"overall", "weighted", "cross", "crossWeighted"} :
                 raw.summary[f] # Absent => Below(report.summary[f], raw.summary[f])
           /\ AtMost(raw.summary.risk, report.summary.risk)
  <1> DEFINE fields == {"overall", "weighted", "risk", "cross", "crossWeighted"}
  <1>1. raw \in Reports
    BY DEF FullInv, Inv, Form
  <1>2. /\ DOMAIN raw.summary = fields
        /\ raw.summary.risk # Absent
        /\ \A f \in fields : raw.summary[f] # Absent =>
              f \in DOMAIN Means(raw) /\ raw.summary[f] = Means(raw)[f]
    BY <1>1, SummaryAssumption
  <1>3. \A f \in fields : Decoded(raw).summary[f] =
              IF raw.summary[f] = Absent THEN Zero ELSE raw.summary[f]
    <2>1. IsRecord(raw, ReportFields)
      BY <1>1, ReportsAssumption
    <2> QED
      BY <1>2, <2>1 DEF Decoded, IsRecord, ReportFields
  <1>4. ASSUME NEW f \in fields, raw.summary[f] # Absent
        PROVE  report.summary[f] = Means(report)[f]
    <2>1. f \in DOMAIN Means(raw) /\ raw.summary[f] = Means(raw)[f]
      BY <1>2, <1>4
    <2>2. CASE impacted = {}
      <3>1. report.profiles = raw.profiles
        BY <2>2 DEF FullInv, Overlaid, DownProfiles
      <3>2. report.results = raw.results
        BY <1>1, <2>2, KeysAssumption, DownOfNothing DEF FullInv, Overlaid, DownResults
      <3>3. Means(report) = Means(raw)
        BY <3>1, <3>2 DEF Means
      <3> QED
        BY <1>3, <1>4, <2>1, <2>2, <3>3 DEF SummaryInv
    <2>3. CASE impacted # {}
      <3>1. report.summary = Updated(Decoded(raw).summary, Means(report))
        BY <2>3 DEF SummaryInv
      <3>2. f \in DOMAIN Means(report)
        BY <2>1, MeansBelow
      <3>3. f \in DOMAIN Decoded(raw).summary
        <4>1. IsRecord(raw, ReportFields)
          BY <1>1, ReportsAssumption
        <4> QED
          BY <1>2, <4>1 DEF Decoded, IsRecord, ReportFields
      <3> QED
        BY <3>1, <3>2, <3>3 DEF Updated
    <2> QED
      BY <2>2, <2>3
  <1>5. ASSUME NEW f \in fields \ {"risk"}, raw.summary[f] # Absent
        PROVE  Below(report.summary[f], raw.summary[f])
    <2>1. report.summary[f] = Means(report)[f] /\ raw.summary[f] = Means(raw)[f]
          /\ f \in DOMAIN Means(raw) \ {"risk"}
      BY <1>2, <1>4, <1>5
    <2> QED
      BY <2>1, MeansBelow
  <1>6. AtMost(raw.summary.risk, report.summary.risk)
    <2>1. report.summary["risk"] = Means(report)["risk"]
          /\ raw.summary["risk"] = Means(raw)["risk"]
      BY <1>2, <1>4
    <2> QED
      BY <2>1, MeansBelow
  <1> QED
    BY <1>5, <1>6

\* No aggregate of the effective report, of a profile or of the summary, with or
\* without weights and profiles, is better than Sheaft's, and no risk is lower.
THEOREM NumbersAreNeverBetter == Spec => []NumbersNeverBetter
  <1>1. FullInv /\ SummaryInv => NumbersNeverBetter
    <2> SUFFICES ASSUME FullInv, SummaryInv, stage = "saved" PROVE NumbersNeverBetter
      BY DEF NumbersNeverBetter
    <2>1. /\ \A f \in {"overall", "weighted", "cross", "crossWeighted"} :
                raw.summary[f] # Absent => AtMost(report.summary[f], raw.summary[f])
          /\ AtMost(raw.summary.risk, report.summary.risk)
      BY SummaryBelow, BelowIsAtMost
    <2>2. \A i \in DOMAIN raw.profiles :
            /\ AtMost(report.profiles[i].weighted, raw.profiles[i].weighted)
            /\ AtMost(report.profiles[i].unweighted, raw.profiles[i].unweighted)
      BY ProfileNumbers, BelowIsAtMost
    <2> QED
      BY <2>1, <2>2 DEF NumbersNeverBetter
  <1> QED
    BY <1>1, InitFullInv, NextFullInv, InitSummaryInv, NextSummaryInv, PTL DEF Spec

\* An aggregate that is patched with a lower availability passes only if it did.
LEMMA NoNewPass ==
    ASSUME NEW a, NEW v, NEW w, IsAggregate(a, v), a # Absent, Below(w, v),
           PatchAggregate(a, w).status = "pass"
    PROVE  a.status = "pass"
  <1>1. CASE a.threshold = Absent
    BY <1>1, PatchedAggregate
  <1>2. CASE a.threshold # Absent
    <2>1. /\ a.threshold.num \in Nat /\ a.threshold.den \in Nat
          /\ a.status = "pass" <=> AtMost(a.threshold, v)
      BY <1>2 DEF IsAggregate
    <2>2. AtMost(a.threshold, w)
      BY <1>2, PatchedAggregate
    <2>3. w.num \in Nat /\ v.num \in Nat /\ w.den = v.den /\ w.den \in Nat /\ w.num <= v.num
      BY DEF Below, Fractions
    <2>4. a.threshold.num * w.den <= w.num * a.threshold.den
      BY <2>2 DEF AtMost
    <2>5. w.num * a.threshold.den <= v.num * a.threshold.den
      BY <2>1, <2>3, MulMono
    <2>6. a.threshold.num * v.den <= v.num * a.threshold.den
      BY <2>1, <2>3, <2>4, <2>5
    <2> QED
      BY <2>1, <2>6 DEF AtMost
  <1> QED
    BY <1>1, <1>2

\* No aggregate of the document, of a profile or of all, is given a pass that Sheaft
\* did not give it.
THEOREM AggregatesNeverPass == Spec => []AggregatesNeverPassAnew
  <1>1. FullInv /\ SummaryInv /\ RestInv => AggregatesNeverPassAnew
    <2> SUFFICES ASSUME FullInv, SummaryInv, RestInv, stage = "saved"
                 PROVE  AggregatesNeverPassAnew
      BY DEF AggregatesNeverPassAnew
    <2>1. raw \in Reports /\ rest = PatchUnread(Unread(raw))
      BY DEF FullInv, Inv, Form, RestInv
    <2>2. ASSUME NEW i \in DOMAIN raw.profiles,
                 rest.profiles[i].aggregate # Absent,
                 rest.profiles[i].aggregate.status = "pass"
          PROVE  Unread(raw).profiles[i].aggregate.status = "pass"
      <3> DEFINE a == Unread(raw).profiles[i].aggregate
      <3>1. rest.profiles[i].aggregate = PatchAggregate(a, report.profiles[i].weighted)
        BY RestOfProfile
      <3>2. IsAggregate(a, raw.profiles[i].weighted)
        BY <2>1, UnreadAssumption
      <3>3. Below(report.profiles[i].weighted, raw.profiles[i].weighted)
        BY ProfileNumbers
      <3>4. a # Absent
        BY <2>2, <3>1 DEF PatchAggregate
      <3> HIDE DEF a
      <3>5. a.status = "pass"
        BY <2>2, <3>1, <3>2, <3>3, <3>4, NoNewPass
      <3> QED
        BY <3>5 DEF a
    <2>3. ASSUME rest.cross # Absent, rest.cross.status = "pass"
          PROVE  Unread(raw).cross.status = "pass"
      <3> DEFINE a == Unread(raw).cross
      <3>1. rest.cross = PatchAggregate(a, report.summary.crossWeighted)
        BY <2>1 DEF PatchUnread
      <3>2. IsAggregate(a, raw.summary.crossWeighted)
            /\ (a # Absent => raw.summary.crossWeighted # Absent)
        BY <2>1, UnreadAssumption
      <3>3. a # Absent
        BY <2>3, <3>1 DEF PatchAggregate
      <3>4. Below(report.summary.crossWeighted, raw.summary.crossWeighted)
        BY <3>2, <3>3, SummaryBelow
      <3> HIDE DEF a
      <3>5. a.status = "pass"
        BY <2>3, <3>1, <3>2, <3>3, <3>4, NoNewPass
      <3> QED
        BY <3>5 DEF a
    <2> QED
      BY <2>2, <2>3 DEF AggregatesNeverPassAnew
  <1> QED
    BY <1>1, InitFullInv, NextFullInv, InitSummaryInv, NextSummaryInv,
       InitRestInv, NextRestInv, PTL DEF Spec
=============================================================================
