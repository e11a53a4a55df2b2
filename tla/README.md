# coroot-graft: a TLA+ model of the sync pipeline and the server around it

`coroot-graft` reads the topology of a project from Coroot, runs the tools
Bering and Sheaft on it, lowers the resulting gate report by what Coroot
currently observes, and serves the result as files and metrics.  This directory
holds TLA+ modules for the parts of it that keep state, run concurrently or can
fail half-way, the TLC configurations that check them on small instances, and
proofs checked by TLAPS for every value of the constants.

Paths below are relative to the repository (`internal/...` is `src/internal/...`).

## Inventory

| part | state | operations | hard behaviour |
|---|---|---|---|
| sync pipeline, `orchestrator.SyncProject` | local: previous status, report; on disk: a run directory per sync, `latest` | resolve, capture, mkdir, build, activity, topology, Bering, Sheaft, load, effective report, summary, refresh, publish; an error branch at each | failing at any stage, deadline, crash at any point, `latest` refreshed file by file |
| state store, `state.Store` | one `ProjectStatus` per project, in memory | `Put`, `Get`, `List` under a lock | lost on restart; status and files are not written together |
| tool runner, `toolchain.Runner` | files in the run directory | `Run`: Bering, then Sheaft | a tool may hang, leave half a file, or exit 0 without writing |
| project loop, `server.projectLoop` | trigger channel (one place), ticker | trigger, tick, sync, stop | non-blocking sends, random `select`, the loop triggers itself |
| server, `server.Serve` | triggers map, HTTP server | start-up of each project, sync and webhook handlers, artifact handlers, shutdown | loops run while later projects start, and are not waited for at shutdown |
| artifact endpoints, `server.serveFile` | none | look the path up, read the file | two steps, no lock in between |
| runtime activity, `topology.EvaluateRuntimeActivity` | local stack and sets | depth-first search per endpoint | cycles, edges to unknown services |
| effective report, `reporting.ApplyRuntimeImpact`, `SaveEffective` | the report in memory and its JSON document | overlay, patch | several views of the same facts must agree |
| topology construction, `topology.Build` | local maps of edges and endpoints | filter, services, edges, endpoints, overrides | overrides applied in two passes, names of filtered applications, IDs shared by services |
| snapshot capture, `captureSnapshot` | none | two overviews, one or two look-ups per service | an error must not look like an inactive service |
| Coroot client, `coroot.Client` | cookie jar | login, get, post, one retry after 401 | shared by all loops, sessions that expire, answers that are lost or late |
| dashboard install, `InstallDashboard` | a dashboard in Coroot | resolve, list, create or rename, fill | duplicates, half-filled dashboards, restarts |
| metrics collector, `Collect` | none | reads the store | shows what the store holds at that moment; the same endpoint in several gauges |
| configuration, command line | none | load, validate; `serve`, `sync`, `install-dashboard` | |

What makes each part correct is stated with its module below; every hazard, with
the line where it bites and the property that covers it, is in `PROJECT.json`.

The parts interact as follows.  Handlers, the ticker and the start-up call
`trigger`, which puts a reason into the project's channel.  The project's loop
receives it and calls `SyncProject`, and nothing else until that returns.
`SyncProject` calls the Coroot API and the tools, writes the run directory,
copies it to `latest`, and puts statuses into the store: `running` at the
beginning, `ok` or `error` at the end.  All projects share one Coroot client; at the
start `Serve` calls it too, to install dashboards, while the loops of the projects
before already run.  Handlers and metrics read the store at
any time, and the artifact handlers then read the files the status names.

## Modules

| module | models | role |
|---|---|---|
| `SyncProject` | `orchestrator.go`, `store.go`, `runner.go` | the pipeline of one project with its store entry and its directories |
| `GateRegister` | what the pipeline promises | abstract: a register for the gate result |
| `ArtifactReader` | `server.go` `serveFile` | extends `SyncProject` with a client that fetches an artifact |
| `ProjectLoop` | `server.go` `projectLoop`, `trigger`, `Serve`; `main.go` `runServe` | the loop of one project and all who trigger it |
| `SyncRequests` | what the loop promises | abstract: merged requests |
| `ProjectService` | the two together | composes `ProjectLoop` and `SyncProject` |
| `RuntimeActivity` | `topology.go` `EvaluateRuntimeActivity` | the search, as an algorithm |
| `RuntimeOverlay` | `reporting/runtime.go`, `report.go` | the overlay on the report, and the patch of the document |
| `CorootClient` | `coroot/client.go` `doBytes`, `Login` | the client and its session, shared by any number of callers |
| `ServeStartup` | `server.go` `Serve`, `dashboard_install.go`, `client.go` `UpsertDashboard` | composes `CorootClient` with the start of several projects and Coroot's dashboards |
| `TopologyBuild` | `topology.go` `Build`, `endpoints.go` | the topology from configuration and snapshot |
| `CaptureSnapshot` | `orchestrator.go` `captureSnapshot` | the calls that make a snapshot, and which services count as active |
| `*_proofs` | | theorems about the module of that name; `SyncProject_proofs` also those about `ArtifactReader`, `ServeStartup_proofs` also those about `CorootClient` |
| `MC_*` | | values of the constants for TLC |

Operators named `X_Something` that a comment calls faulty are not part of a
specification.  Each is a form `X` would have if the code had a plausible bug,
and serves to see that a property notices it (`PROJECT.json`, "mutants").

### SyncProject

`pc` is the stage `SyncProject` is in, in the order of the code (`Rank`), and
`idle` when no sync runs.  Attempts are numbered, and what a file holds is the
number of the attempt whose data it was made from, 0 when there is no file and
`Torn` when its writer was stopped midway.  `disk[d][f]` is file `f` of
directory `d`: `Latest`, or a second of the clock, since a run directory is named
by the second the sync started in (`orchestrator.go:147`).  `store` is the status
in the state store: its state, the attempt whose report it carries, and for each
path field a directory and a file.  `previous`, `report`, `todo` and `copying`
are local variables of `SyncProject`, `refreshLatest` and `copyFile`.

There is an action per stage (`Resolve` ... `WriteSummary`), `CopyOpen` and
`CopyWrite` for the two halves of `os.WriteFile` in `copyFile`, `Publish` for
the final `Put`, `Fail` for the error branch of whatever stage `pc` names,
`Expire` for the deadline, and `Restart` for the end of the process and its next
start.  `Fail` and `Restart` may leave each file of the current stage untouched,
torn or whole.  `OwnFields` and `OwnFile` are the fields each error branch fills
in itself; `RestorePrevious` is the closure of that name.  A stage that reads a
file another process should have written (`InputReady`) can succeed only if the
file is there.

Two assumptions about the environment are constants.  `ToolsHonest`: a tool that
exits 0 has written its files; when it is FALSE, each may be left as it was.
`DistinctSeconds`: no sync starts in a second an earlier one has started in (nor, by
a clock set back, before it); when it is FALSE, run directories are shared as the
code allows.

Properties:

- `OkServesOneRun`: a status `ok` is about one run; its report and every file its
  paths name come from the same sync and are whole, whatever earlier syncs left.
- `OfferedPathsExist`: a path in a status names a file that was written, although
  an error status mixes its own paths with those of the status before.
- `ImplementsRegister`: the stored gate result behaves as `GateRegister`: success
  replaces it, failure at any stage keeps it, only a restart drops it.  The
  abstract status is the stored one; while it is `running` the result is in
  `previous`.
- `LatestResultExported`, `ReportPathIsEffective`: what the documentation says and
  the code does not do; see Findings.

### ArtifactReader

A client that fetches one artifact again and again.  `PickPath` is the look-up in
the store, `ReadFile` the read, and the pipeline runs in between.  `MonotonicReads`:
who has seen an artifact of a run is never again served that artifact of an older
one.  It is checked with run directories that are not shared.  When they are, it
does not hold: an error status may point into a run directory, and a later sync
of the same second rewrites that directory and may fail there, so a path picked
before serves first the new file and, with the next status, `latest` again.

### ProjectLoop

`server` and `cancelled` are the life of `Serve` and of its context, `loop` is
where `projectLoop` stands, `ch` the channel, `ticked` the ticker's one place.
`owed` is a history variable: the reasons triggered since the last sync began.
One action per case of the `select`, per caller of `trigger`, and for signals, the
end of the process (`Exit`: `Serve` does not wait for the loop) and the next start.

- `DroppedTriggerIsCovered`: a trigger dropped on a full channel is not lost: until
  the next sync begins there is a reason in the channel that will cause it.
- `QueuedReasonIsOwed`: no sync is run, or attributed, to a reason already answered.
- `ImplementsRequests`: the loop implements `SyncRequests`: merged requests, no sync
  unasked, never two at once, and every request answered while the server is up.
- `KeepsSyncing`: with an interval, syncs go on for ever; the loop's send to its own
  channel and the handlers never block it.

### ProjectService

`StartSync` is the loop's receive together with the pipeline's `Begin`; `EndSync`
its return with `Publish` or `Fail`; `Exit` the end of the process with the
pipeline's `Restart`.  By construction its steps are steps of the parts, which is how
the parts' theorems carry over.

- `StatusFollowsLoop`: what the store shows is what the loop is doing.  `running` is
  shown exactly while the loop of a live process waits for a sync, and is never left
  behind by a failure, a deadline or the end of the process; `ok` and `error` are the end
  of the latest sync; and a server that has nothing to show has its first sync queued.
- `SyncFinishes`: every sync ends, although the API and the tools need not answer; it
  discharges the fairness `ProjectLoop` assumes of `SyncReturns`.
- `TriggerIsServed`: a trigger accepted while attempt n is the latest leads to a
  finished status of an attempt that began after it.

### RuntimeActivity

One step per turn of the inner loop (`Skip`, `Visit`) and one per endpoint
(`NextEndpoint`).  The graph, the active services and the order of edges are
arbitrary.  `ImpactIsClosure`: the services recorded for an endpoint are exactly
those of its dependency closure that are known and inactive, with the closure
defined as the intersection of all closed sets, not by a search.  `Terminates`: the
search ends on cyclic graphs.  Endpoints have IDs of their own: what the code does
when two endpoints have one ID (the later result replaces the earlier one) is not
modelled, since `Build` collects endpoints in a map by that ID.

### CaptureSnapshot

One action per call of the Coroot API: the overview of the topology window, the
look-up of each service, the overview of the activity window, and the look-up of
each listed service that it leaves out.  `observed` is the truth: the services that
had instances in the activity window, which lies in the past and does not change.
The API is external and taken to be truthful but incomplete: the overview lists
some of the observed services, a look-up that succeeds tells whether a service was
observed, with 404 only for one that was not, and any call may fail otherwise.
`ActivityIsObserved`: a captured snapshot takes a service for inactive exactly if it
was not observed.  Traces and the data carried along are left out.

### RuntimeOverlay

The life of one report from `Load` to `SaveEffective`: `OverlayEndpoints` for the
two loops of `ApplyRuntimeImpact`, `Summarise`, `Decide`, and `Patch` for
`patchEffectiveDocument`.  `report` is what the metrics export, `document` what the
API serves of the fields `Load` decodes.  `Load` does not read all that `Patch` writes:
`rest` holds the reasons, each profile's count of results that do not pass, and the
optional aggregates with a threshold, of a profile and across profiles; `Unread` gives
what Sheaft wrote there.  These are written for every profile, also for one that has no
endpoint that is down (`runtime.go:66-77`): the count and the aggregate anew, and the
reasons of all endpoints that are down, each with that profile's name, are added.
Availabilities are counted in parts of `Full` and aggregates are exact fractions, so
rounding is not modelled: the code sums floats in map order, and an aggregate exactly at
its threshold may come out on either side of it.  Left out are the thresholds of endpoints, differences from a
threshold, and the texts of reasons.

- `DocumentIsReport`: the API and the metrics say the same, of all that a report has.
- `GateNeverBetter`: no decision, of the gate or of a profile, is better than Sheaft's,
  and the gate does not pass while an endpoint is down.
- `NumbersNeverBetter`: no availability of a profile or of the summary is higher, and
  the risk is not lower.
- `AggregatesNeverPassAnew`: no aggregate passes that did not, although each is decided anew.
- `ProfilesStandAlone`: a profile is lowered exactly if it has an impacted endpoint; one
  that has none keeps what the document says of it: its decision and results, its
  count, and the availability and verdict of its aggregate, which are all written anew.
  Excepted are its reasons, and which word an aggregate that does not pass is given.
- `GaugesAgree`: `Exported`, `RuntimeGauge` and `ResultGauges` are the gauges of
  endpoints that `Collect` (`metrics.go:175-251`) exports; in one scrape they do not
  contradict one another, nor the document, nor, for endpoints that are up, Sheaft.
- `UnchangedSummaryIsKept`: what a comment says and the code does not do.

Statuses are not ordered that way: that of an endpoint that is down is replaced by the
one the mode gives (`runtime.go:187`, so `fail` becomes `warn` in a report whose mode is
not `fail`), and so is that of an aggregate that does not pass (`runtime.go:109`).

Sheaft is external, and what the properties need of its reports are assumptions on the
constant `Reports`, which TLC evaluates on those it tries: `KeysAssumption` (results and
profiles are listed once, and a profile's results are of endpoints it has an availability
for), `MeansAssumption` (a profile's aggregates are the means of its availabilities),
`SummaryAssumption` (so is the summary, which leaves the fields across profiles out when there are
no profiles) and `UnreadAssumption` (counts and aggregates are derived from the same
numbers, an aggregate passes exactly if it reaches its threshold, and there is none across
profiles without that number in the summary: the code would write 0 into it).
`KeysAssumption` also excludes results that name no profile beside named ones of the
same endpoint.  For such a report `patchEndpointResults` would find, under the key
without a profile, the last result of that endpoint whatever its profile, and serve that
one's availability.  Decisions may be any.  In TLC's reports the results at the top are
those of the profiles, and there is no profile named "default" beside results that name
none, which `Collect` would export with the same labels.

### CorootClient

`jar` is the cookie in the shared jar, `valid` the sessions Coroot accepts, and
`call[c]` where the call of `doBytes` by goroutine `c` is: `sent` with the cookie the
jar held at that moment, at the `login` a 401 led to, `loggedIn` with its answer on the
way, about to `retry`, or over.  `StoreCookie` is a step of its own because two
goroutines may log in at once and `http.Client` stores each cookie when its answer
arrives.  `Execute` may lose the answer, `GiveUp` stands for every other error, the
timeout among them.  Numbers of sessions nobody holds are used again.  `quiet`
and `revocations` are history variables.

`DeniedOnlyIfRevoked`: a call ends with the second 401 only if Coroot has dropped
sessions since no call was under way.  One retry is thus enough however many
goroutines log in at once.  That rests on Coroot: a login ends no other session.

### ServeStartup

`main` is where `Serve` is and with which project: `register` (the channel and the
loop), the requests of `InstallDashboard` one by one, `trigger`, and then the next
project, or `listening`.  `Carry` is the moment Coroot carries out the request,
`Continue` the moment `Serve` sees the result: any error ends the install, is
logged, and the start goes on.  `InSync` are the calls that loops started already
make with the same client.  `boards` is Coroot's: per project the dashboards that have
the configured name, each with the start of the process (`incarnation`) that last
filled it, `Empty` after create.  A request that `Serve` has given up on, or that was
under way when the process ended, goes on as one of `stray`: Coroot carries it out
later (`CarryLate`) or never (`Lose`).  `Restart` ends the process anywhere.

- `OneDashboard`: restarts, timeouts and lost answers never make graft create a second
  dashboard, except for a create that Coroot carries out after graft gave up on it.
- `InstalledIsCurrent`: when the log says "dashboard installed", Coroot has this
  process's configuration, also if an earlier one died between create and fill.
- `DeniedOnlyIfRevoked`: the client's promise, in this company.
- `EveryProjectStarts`: whatever Coroot does, every project gets its first trigger.

Of Coroot it is assumed that its list names the dashboards there are, and of the
configuration that no two projects name the same dashboard of the same Coroot
project.  `Validate` does not check the latter: projects of one Coroot project that
keep the default name would fill one dashboard in turn, the last one to start wins.
The data race on the triggers map (`server.go:43` and `205`) ends, if it does, in the end
of the process, which `Restart` may be at any moment.

### TopologyBuild

`input` is the configuration together with the snapshot; patterns, categories and
labels are reduced to what they decide (`listed`, `excluded`, `links[pair] = "queue"`).
`Filter` is `filterApplications`, `AddApp` one turn of the loop in `Build`,
`ApplyOverride` one of that in `applyEdgeOverrides`.  `Routes` is
`TraceHTTPEndpoints`, `StableID` the key endpoints are kept under.

- `EdgesAreReference`: the edges are given by one definition that looks at what
  Coroot observed and all overrides of a pair at once; for each attribute the last
  override that states it decides.
- `OverridesWin`: a single override decides whether a service requires another,
  whether the dependency is observed, taken for a queue, or unknown to Coroot.  (With
  several overrides of one pair that may depend on whether it was observed:
  `applyEdgeOverrides` takes the default for blocking from the first override it
  meets, as `EdgesAreReference` says.)
- `EveryServiceHasAnEntry`: the endpoints of a service are its own, also when
  services have a route in common.
- `TypeOK`: among the rest, edges and endpoints name only services that were kept.

## Runs

| run | instance | shows | distinct states |
|---|---|---|---|
| `sync_pipeline` | 3 syncs, 2 seconds, 4 files | `TypeOK`, `OkServesOneRun`, `OfferedPathsExist`, `ImplementsRegister` with shared run directories | 585,737 |
| `metrics_gap`, `raw_report_path` | 2 syncs, 2 files | violated: the findings | |
| `artifact_reader` | 3 syncs, 3 seconds, 2 files, tools that may not write | `MonotonicReads`, and `IInv`, the invariant of the proofs | 166,560 |
| `project_loop` | a ticker, all reasons | all properties of the loop; the state space is finite without a bound | 302 |
| `project_service` | 2 syncs, 1 file | `StatusFollowsLoop`, `SyncFinishes`, `TriggerIsServed` | 21,394 |
| `activity_graphs` | 3 services and an unknown one, 2 endpoints, all graphs of up to 3 edges | `ImpactIsClosure`, `Terminates` | 365,048 |
| `overlay` | 2 endpoints, 2 profiles or none, 2 weights, all modes and impacts | `DocumentIsReport`, `GateNeverBetter`, `NumbersNeverBetter`, `AggregatesNeverPassAnew`, `ProfilesStandAlone`, `GaugesAgree` | 167,184 |
| `overlay_summary` | the same without profiles | violated: a finding | |
| `capture_snapshot` | 3 services | `ActivityIsObserved` | 1,134 |
| `serve_startup` | 2 projects, the first with an interval, the second with a dashboard; 3 sessions, 1 revocation, 1 restart | `DeniedOnlyIfRevoked`, `OneDashboard`, `InstalledIsCurrent`, `EveryProjectStarts` | 514,476 |
| `topology_build` | 3 applications, 2 kinds of span, two families of configurations (`MC_Inputs`) | `EdgesAreReference`, `OverridesWin`, `EveryServiceHasAnEntry` | 233,992 |

The bounds.  Three syncs are a result, a failure after it and a failure after
that, which is what it takes to lose a result that is handed on from status to
status; two are one that was interrupted and one that finds its remains.  One or
two seconds make syncs share a run directory, three give each its own.  Four files
are one of each kind that the code treats differently: written locally
(`activity`), by Bering (`model`), by Sheaft (`rawReport`), and made from another
file (`report`); `refreshLatest` treats all eight alike and in any order, and the
proofs hold for all eight.  Three edges give every cycle through three services
and two paths to one service.  Two profiles are one that has an impacted
endpoint and one that has not, or the same endpoint with two availabilities;
three services are one that the activity overview lists, one that only a look-up
finds, and one that was not observed.

The dashboard belongs to the second project so that the first one's loop, which the
interval lets sync at once, uses the client during the install; three sessions are one
for each of two goroutines that log in at once and one to follow a revocation; one
restart is an install that is cut off and one that finds its remains, with a request of
the first still on its way.  `MC_Inputs` is the union of two families: `EdgeInputs`
has up to two overrides of three pairs in every combination, or three of one pair, over
dependencies that are observed, taken for queues or unknown; `FilterInputs` has every
filter, with routes that services share and an override that may name an application
left out.  Their product is beyond TLC, and the theorems hold for it.

Deadlock is checked in every run except those of `RuntimeActivity`,
`RuntimeOverlay`, `CaptureSnapshot` and `TopologyBuild`, where the function returns,
and of `ServeStartup`, which may end listening, with no interval and restarts used up.

## Fairness

`ProjectService`: stages of local computation and of files end by themselves
(`Settle` of `SyncProject`).  Stages that wait for the Coroot API or a tool (`External`) need never
end, but the deadline expires (`Expire`), and then the call returns an error,
because HTTP requests and `exec.CommandContext` take the sync's context
(`orchestrator.go:123`).  For the tools this supposes that none leaves a child
behind that keeps its output pipe open: `cmd.Run` would go on waiting, since no
`WaitDelay` is set (`runner.go:117`).  A tool that is started through another program can
leave one when that is killed, as `go run` in `orchestrator_test.go:293-297`; for such a
configuration `SyncFinishes` and `TriggerIsServed` do not hold by what is shown here.

`ProjectLoop`: a `select` with several ready cases chooses at random each time, so
a case that is ready again and again is taken (strong fairness of the three
cases); the timer fires; `Serve`'s calls before the first trigger are bounded by
the HTTP client's timeout, its shutdown by ten seconds; a sync ends.  In
`ProjectService` that last assumption is replaced by the fairness of the pipeline,
and `SyncFinishes` shows that it follows.

`ServeStartup`: `Serve`'s goroutine runs (`Register`, `Request`, `Continue`,
`Trigger`), and `GiveUp` ends a wait, because `http_timeout` is positive
(`config.go:117-119`, `251`).  Nothing is assumed of Coroot, and nothing of the loops.
Restarts are bounded by `MaxRestarts`: the property is about a process that stays up.
It discharges what `ProjectLoop` assumes of the time before the first trigger.

The liveness half of `SyncRequests` is the formula `Answered` and not a fairness
condition: that is what callers rely on, and TLC cannot evaluate ENABLED under the
substitution.

## Proofs

`SyncProject_proofs`, for any number of syncs, seconds and any set of files that
has the raw report:

- `TypeCorrect`: `Spec => []TypeOK`, without further assumption.
- `Inductive`, `OkIsOneRun`: `Spec => []IInv` and `Spec => []OkServesOneRun`, if
  `Reliable`: the tools are honest or run directories are not shared.  The
  invariant `IInv` says what `OkServesOneRun` alone does not carry from step to
  step: the files written so far into the run directory are of this attempt or
  absent, and those not yet written are absent if the directory is the sync's own
  (`RunDirIsOneRun`), which it is because the directories of seconds to come are
  empty (`FutureIsEmpty`); the files already copied are of this attempt, and so is the
  one being copied (`RefreshedIsOneRun`); the store is `running` during a sync, and
  a status `ok` points to `latest` (`StoreFollowsSync`).  The first is where
  `Reliable` is needed: with shared directories and tools that may not write, the
  files of an earlier sync of that second would be served as the new ones.
- `OfferedIsThere`: `Spec => []OfferedPathsExist`, if the tools are honest.  Its invariant
  (`PathsInv`): a stage that is over left its files, the paths of the previous status
  exist, and no step makes a file go away.
- `RegisterImplemented`: every step of the pipeline is a step of `GateRegister` or
  leaves it unchanged.  It needs `IInv` for two facts: the stored status is
  `running` exactly while a sync runs, and when a sync publishes, the report in
  memory is its own.
- `StatusIsLatest`: between syncs the stored status is the end of the latest one, an `ok`
  with that attempt's report and an `error` with an earlier one's, if `Reliable`.
- `ReaderTypeCorrect` and `ReadsAreMonotonic`, of `ArtifactReader`, the latter if run
  directories are not shared.  Its invariant (`ReaderInv`) follows every path that may
  still be read, in the store, in `previous` and in the reader's hand: each leads to
  `latest`, or to a run directory that no sync will write again, and nowhere to
  anything older than what the reader has seen.

`ProjectLoop_proofs`, for any interval: `LoopTypeCorrect`, `NoTriggerIsLost`
(`DroppedTriggerIsCovered`), `NoSyncIsUnasked` (`QueuedReasonIsOwed`) and
`RequestsImplemented`, the safety half of `ImplementsRequests`.  Of the channel the
proof uses only that its capacity is at least one place that is filled before a send
is dropped.

`ProjectService_proofs`: `ServiceTypeCorrect` has the invariant `Coupled`: the loop is in
its sync exactly while the pipeline is not idle, also through the end of the process.
`LoopStep` and `SyncStep` say that a step of the composition is a step of each part or
leaves it alone; `L` and `S` are instances of the parts' proof modules, and `SameLoop` and
`SameSync` say that their definitions are those of the composition.  With these, what is
proved of the parts holds in it: `ServiceKeepsPromises`, and in `StatusIsFollowing`
(`StatusFollowsLoop`, if `Reliable`) the `StatusIsLatest` of the pipeline.  What that one
needs of both parts together is `Gone` (when the process is down the loop has stopped
and nothing is stored) and `Asked` (a server past its start with nothing stored has a
reason in its channel): a reason is only taken out by the step that stores `running`.

`RuntimeActivity_proofs`, for any services, endpoints and graphs:
`SearchTypeCorrect` and `ImpactCorrect`.  The invariant has two parts: everything
seen or on the stack is in every closed set that has the entry, and what a seen
service requires is seen or on the stack.  When the stack is empty, the second
makes the set seen closed, and the first makes it the least closed set.
`SearchDescends` and `SearchGoesOn` are the argument for `Terminates` on any graph, but for
fairness: each step lowers, in this order, the endpoints left, the nodes not visited or
the length of the stack, and until the last endpoint is done one of the three steps is
possible.

`RuntimeOverlay_proofs`, for any impact:

- `GateIsNeverBetter`, of any reports.  The invariant says, stage by stage, which
  decisions are still Sheaft's and which are already lowered.
- `DocumentAgrees`, `ProfilesAreApart`, `GaugesAgreeAlways`, of reports as
  `KeysAssumption` has them (`ProfilesAreApart` with `MeansAssumption` and
  `UnreadAssumption`, since all aggregates and counts are written anew, also those of
  profiles left alone; `RestInv` says that the document's other fields are Sheaft's until
  they are saved).  `FullInv` says of
  every part of the report what has been overlaid so far (`Overlaid`, `Failed`) and
  that the document is Sheaft's until it is saved; `KeyIsOwn` and `PatchProfileIsOwn` that
  a look-up by key or name finds the place it came from.
- `NumbersAreNeverBetter`, with `SummaryAssumption` too.  The sums are folds over sets, so it
  rests on an induction.  The library's induction theorems take a predicate as an operator,
  which the provers cannot instantiate; `SubsetInduction` takes a set of subsets instead and
  follows from the well-foundedness of strict inclusion.  With it, `RecursionExists`
  shows that a recursion over subsets has a solution, so that the fold, a `CHOOSE` among
  the solutions, is one; `SumMono` and `MeanBelow`, that lower terms give a lower sum and
  a lower mean.
- `AggregatesNeverPass`, from the same and `UnreadAssumption`: an aggregate that reaches its
  threshold now reached it in Sheaft's report (`NoNewPass`).

`CaptureSnapshot_proofs`, for any services: `CaptureTellsTheTruth`.  The invariant
`Progress` says that an observed service is known to be active or still to be
looked up.

`ServeStartup_proofs`, for any number of callers, projects, restarts and any bounds:

- `OneLoginIsEnough`, of `CorootClient` by itself.  The invariant (`NothingDropped`,
  `LogsInOnce`) says what a cookie is worth at each stage: unless Coroot has dropped
  sessions since no call was under way, whoever has logged in, or is sent a second
  time, holds a valid cookie, and when someone is about to be sent again the jar holds
  one, whoever's it is.
- `StartupOneLogin`: each step of the start is a step of the client for its callers, or
  leaves it alone (`ClientStep`), so the theorem holds there.
- `StartupTyped`, with the invariant `Progress` about which projects have been reached.
- `StartupOneDashboard`.  The invariant (`CreatesOnce`) says that from an answer that
  lists no dashboard until Coroot has carried out the create, and never after that,
  the project has none but those created late; it is lost exactly when a request can
  be carried out twice, which is why the client must not send one again on its own.
- `StartupInstallsCurrent`.  `CurrentInv`: from the answer that names a dashboard until the
  end of the save that dashboard is there, and once Coroot has carried out the save it
  has this process's content, unless a save of an earlier process came later.

`TopologyBuild_proofs`, for every configuration and snapshot: `BuildTyped`,
`BuildIsReference`, `BuildObeysOverrides`, `BuildWatchesEveryService`.  The invariant
says of each edge, after so many overrides, what the reference says with only
those overrides applied on top of what `inferEdge` gave (`KindSoFar`,
`BlockingSoFar`); the positions of overrides replace an induction over their list.

Every safety property of the runs is thus a theorem.  Only model-checked is all
liveness (`SyncFinishes`, `Answered`, `KeepsSyncing`, `TriggerIsServed`, `Terminates`,
`EveryProjectStarts`), which TLAPS cannot prove under fairness, the half of
`ImplementsRequests` that is `Answered` included.

## Findings

All are between documentation or comments and code.

- `metrics_gap`: the status `running` has no report and no paths
  (`orchestrator.go:115-121`), so while a sync runs, gate metrics disappear and
  artifacts answer 404 although a result was stored; `docs/architecture.md:27`
  says that the latest results are exported.
- `raw_report_path`: two error branches put the raw Sheaft report into
  `ReportPath` and the raw summary into `SummaryPath` (`orchestrator.go:213-214`,
  `247-248`), which are served as the effective ones; `README.md:225`.
- `overlay_summary`: `patchSummary` writes every number of the summary, so one that
  Sheaft left out becomes 0 in the effective report even if nothing is impacted;
  the comment at `internal/reporting/report.go:102-103`.

## Not modelled

- What is inside the files, except for the topology, the search and the overlay.
- Two syncing projects' pipelines side by side: they share the client (`ServeStartup`)
  and the process, not the directories or the status.
- A `sync` or `install-dashboard` command that runs next to a server.  Nothing in the
  code keeps two processes apart on one storage directory or one dashboard: their
  files mix, and both may create a dashboard neither found.
- Partial reads: a reader sees a file as it was at one moment.
- `SyncAll`, a loop over `SyncProject` that returns the first error.
- Configuration: reading, defaults, validation.  Pure; what it guarantees
  (`http_timeout`, `sync_timeout`, unique names) appears as assumptions.
- `BuildDashboard`: a template with the names of the project filled in.
- Glob patterns, normalisation of paths, replicas and weights of the topology.
- Arguments of tools, HTTP status codes other than 401 and 404, the webhook's secret,
  error texts, and the metrics that copy one field of a status or a report.

## Plan

Done: the pipeline, the loop and their composition, the client and the start of several
projects, the topology and its evaluation, the snapshot, the overlay and the gauges.
All safety properties are proved.  Next:

1. Two processes on one storage directory, with what each may then serve.
2. `SyncAll` and the ends of several loops at shutdown.
