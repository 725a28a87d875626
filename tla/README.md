# Wharfinger: verification project

TLA+ models of the parts of Wharfinger where order, failure and time matter,
the TLC runs that check them on small instances, and TLAPS proofs of the
results that must hold for every instance. Every definition is translated from
the source under `src/`; `PROJECT.json` names the lines of each.

- [1 The system](#1-the-system) - [2 The modules](#2-the-modules) -
  [3 The runs](#3-the-runs) - [4 Fairness](#4-fairness) -
  [5 What is proved](#5-what-is-proved) -
  [6 What the runs found](#6-what-the-runs-found) -
  [7 Not modelled](#7-not-modelled) - [8 Plan](#8-plan)

To check everything by hand, in this directory:

    tlc -workers 2 -config MCJobQueue.cfg MCJobQueue      # and each other .cfg
    tlapm DeployPipelineProofs.tla                        # and each other *Proofs.tla

## 1 The system

One **hub** process (SvelteKit, `src/src`) keeps all state in a database
(SQLite, or SurrealDB) and serves the status page, the admin, webhooks and the
agents. One **agent** (Go, `src/agent`) runs on each host: it sends samples and
claims jobs. They talk by HTTP requests of the agent (`/ingress/...`) and, for
samples, over a websocket the agent dials.

| Component | State it keeps | Operations | What makes it correct |
|---|---|---|---|
| Durable job queue `jobs/queue.ts` | `jobs` rows: status, lease, attempts, log | enqueue, claim, heartbeat, progress, start, succeed, fail, recover, reconcile, prune | no double execution; retries bounded; a silent holder loses the job |
| Job ingress `routes/ingress/jobs` | none | claim, actions, reconcile: the agent's requests become queue calls and settlements | an outcome reaches job and release, in any order |
| Deploy trigger and releases `deploy/trigger.ts`, `deploy/store.ts` | `deploy_releases` rows | triggerDeploy, settleDeployJob, rollback | one live release; a release agrees with its job |
| Deploy executor `agent/internal/deploy` | journal files, containers, lease | Execute, Reconcile after a restart | zero gap: a proven container serves through failures and crashes; the hub is told what happened |
| Uptime monitor `monitor/*.ts`, `store/incidents.ts` | timers, permits, flap counters, status, incident rows | start, reload, stop, runOne, onTransition | no permit or service lost; flap protection; one incident per outage |
| Telemetry ingest `telemetry/*.ts` | duplicate window, spool files, relay buffer | envelope and store routes, flush, relay pump | bounded, ordered, nothing accepted is lost, one row per event id |
| PR previews `deploy/preview.ts`, `agent/internal/deploy/teardown.go` | preview apps, deploy and teardown jobs, containers | open, close, sweep, delete with the parent, teardown | one preview per pull request; none is closed, swept or deleted with its parent without its teardown job, none stays for ever; what can leave a container behind is known |
| Vulnerability scans `scan/*.ts` | reports, recommendations | trigger, markRunning, settle, sync, setStatus, prune | a report is done only if its job succeeded; verdicts and answers stand; no scan blocks its app for ever |
| Notification dispatcher `notify/*.ts` | queue promise, cooldowns | transition to sends | the last state of a service is announced |
| Agent sender `agent/internal/send`, the loop of `main.go` | ring buffer, post gate, connection | tick, deliver, post, dial, backfill | one post at a time; nothing unsent is lost or doubled while the agent runs; the backlog drains |
| Agent ingestion and alerts `ingress/agents.ts`, `ingress/alerts.ts` | the agent's row: last_seen_at, alerts, muted_until | POST /ingress, tick, mute, revoke | alerts settle on what the live samples say, whoever overwrites the map late |
| Edge proxy, checkers, snapshot and SSE, accounts and authentication, configuration, storage drivers, chat, anomaly engine, AI/MCP, web interface, Traefik plugin | see `PROJECT.json` | | |

**How they interact.** `triggerDeploy()` writes a release row and a job; an
agent claims the job, executes it step by step with heartbeats, and reports;
the action route writes the outcome to the job and `settleDeployJob()` carries
it to the release. After a crash the agent posts its journal to the reconcile
route. `runtime.ts` wires the rest: at boot and on every reload it calls
`monitor.reload()`; once a minute it sweeps the queue; it starts the telemetry
flush. Monitor transitions go to incidents, dispatcher and snapshot by events.

**What is hard.** Nothing in the hub locks: each `await` between two statements
is a place where any other handler runs. Every request of an agent may time out
at the agent and take effect later. Hub and agent may stop between any two
steps and come back with rows, files and containers but no memory. Reloads
replace timers and waiters under checks in flight. `PROJECT.json` lists the
hazards at their lines and the properties that would catch them.

## 2 The modules

    JobContract  <-implements-  JobQueue  <-EXTENDS-  DeployPipeline  -implements->  Deploys
                                                            ^                          ^
                                                   DeployPipelineProofs  -INSTANCE->  DeploysProofs
    Monitor     Telemetry     AgentSender     Previews     AgentAlerts     Scans
       ^            ^              ^             ^              ^            ^
              and for each of these its theorems, in a module named ...Proofs

An `MC*` module extends its specification and holds nothing else; bounds stand
in the `.cfg` files. A definition commented `Mutant` is a plausible bug of the
definition below it; `PROJECT.json` says which property it must break. No model
uses it.

**JobContract** is what the queue promises, job by job: a job waits, is granted
to a holder a bounded number of times, begins, and is handed back, settled, or
lost. It is never granted while an earlier holder may still be at work, and a
lost job gets an outcome only by a report.

**JobQueue** is the queue. Columns are functions of the job id; `left` is
`lease_until - now`, so time needs no bound. Every SQL statement is one action;
`fail()` is two (`FailRead`, `FailWrite`) and `recover()` is two
(`RecoverRequeue`, `RecoverUnknown`), because they await in between. Callers may
present any token ever handed out, at any time: that is the code's whole view of
late, repeated and zombie requests. `ContractView` maps the rows to the contract.

**Deploys** is the hub's side of deploys of one app. A call of `triggerDeploy()`
is a record in `triggers` with its program counter (`check`, `create`,
`enqueue`, `link`: one step per await), so calls interleave with each other,
with settlements, with `prune()` and with restarts. Of a job it keeps a phase.

**DeployPipeline** extends JobQueue with the releases and the agent. The agent
has a program counter over the steps of `Execute()`, a journal and containers
(`box`), and loses all but the last two in a crash. A request it gave up on
either never reached the hub or is in `late` and may take effect at any later
moment. A step that fails removes the new container first (`StepFails`) and
notes the failure in the journal after that (`FailureNoted`); the agent may die
between the two, and `cut` remembers the jobs whose journal then passes for a
success. `D!Spec` (Deploys) is what its releases must do: `KeepsReleases`.

**Monitor** models `monitor.ts` with `service-state.ts` and `incidents.ts`. A
chain is what `schedule()` keeps going; `stop()` can clear only the timer it
finds in the map, so a service may have several. Places of a chain are those of
`runOne()`: timer, waiting for a permit, checking, and the awaits of
`onTransition()`. `driver` says which of them let other chains run: with SQLite
statements complete before another check goes on; with SurrealDB each is a
round trip, and the incident properties are stated for SQLite only.

**Telemetry** models ingest in local and queue mode: the envelope route, the
duplicate window, `persistItem()`, the spool and its flush. The route looks an
envelope up by the id of its payload or else of its header (`RouteDup`),
`persistItem()` by that of its payload only (`ItemDup`): an `Anonymous` envelope
has none in the payload, and one in `HeaderOnly` has it in the header. A file
that cannot be read or parsed is deleted (`Unreadable`). The mode and the
project are read before the body is awaited, so a request may act on what was
true earlier: `loaded` and `admitted` are what it may have seen.

**AgentSender** models the loop that samples and sends, on the agent's side.
A tick is `Collect` (sample, dial, drain), one `Flush` per drained payload and
`DeliverLive`; between them posts return, connections break and the hub comes
and goes. A goroutine that posts is `posting`, then a member of `posted` until
the result channel `done` has room; only then is the gate released, as the
deferred `Release()` is. Samples are ids that are used again, so runs have no
bound.

**Previews** models the hub's handlers for pull request previews, one action per
statement, in `Slots`: a slot is a request or sweep under way, and a restart
empties all. A job is its kind, app and fate, for what a lease is worth is
JobQueue's subject. `HubSpec` is the hub alone, for liveness; `Spec` adds the
agent: the claim route's two queries with the await between them (`ClaimFirst`,
`ClaimSecond`; `asked` notes how many jobs there were at the first), execution,
leases that run out under it, and answers that are lost (`Drop`). A teardown
reports success whether or not its removals worked (`failed` remembers those that
did not), and the DELETE route takes a preview's own id too (`DeleteOwn`,
remembered in `deleted`), which queues no teardown.

**AgentAlerts** models one agent's row under `POST /ingress` and the silence
detector. A request keeps the alert map it read at the gate and writes the whole
map later; so does a tick; `Slots` requests, the tick and the administrator's
actions interleave between any two statements. A reading is low, mid or high
against its rule's threshold and hysteresis. Time is in minutes of the detector.

**Scans** models the reports of one app, their jobs and one recommendation. The
triggers and the job routes are handlers in `Slots`; a job here is its status,
attempts and result, with the transitions of JobQueue's statements. `order` is
the order by `started_at`, which `markRunning()` renews, and by which
`activeForApp()` and `prune()` choose. A job that succeeded may still fail its
report: the result may not parse, or be about another app.

## 3 The runs

| Run | Checks | Shows |
|---|---|---|
| `queue_one` | `TypeOK LeaseInv NoDoubleExecution LogInAttemptOrder UnstartedIsRetried KeepsContract SilentHolderLosesLease` | the queue is safe under every order of requests, sweeps and restarts, implements its contract, and frees jobs of silent holders |
| `deploys` | `TypeOK OneLive ReleaseTellsOutcome ReleaseInv OutcomeReachesRelease` | releases agree with jobs through interleaved triggers, rollbacks and settlements |
| `pipeline` | `PipelineInv PrevKept LiveWasProven LiveIsUp KeepsReleases` | zero gap (`Served`, in `PipelineInv`): with late requests, lost leases and a crash a proven container is up, and hub and host agree, but for a deploy cut off between the removal of its container and its journal (section 6) |
| `pipeline_live` | `DeployEnds` | a queued deploy ends or is given up as unknown |
| `monitor` | `MonitorInv OneOpenIncident IncidentTracksStatus FlapProtected ServiceChecked` | permits (`PermitsAccounted`, in `MonitorInv`), chains, incidents and flap protection survive boots, reloads, restarts and thrown checks |
| `spool` | `SpoolInv SpoolOrder AnonymousKept StoredOnce SpoolDrained` | the spool is bounded, ordered and drained; one row per id in the payload; what has none there is kept unless its project is off or its file unreadable |
| `sender` | `SenderInv NothingLost DrainsOverLink` | an unsent sample is in one place and leaves it only in its own frame, by its answered post, or pushed out of a full buffer; with a connection that stays the backlog drains |
| `previews` | `PreviewInv EveryPreviewEnds` | one preview per pull request, none closed, swept or deleted with its parent without its one teardown job; every preview is removed, through restarts and lost close events |
| `previews_agent` | `StrandedOnlyLate` | a removed preview's container stays only through a deploy queued after the teardown's claim began, a teardown lost track of or unable to remove it, or a DELETE of the preview by its own id |
| `alerts` | `AlertInv AlertsSettle SilenceTold` | an agent never seen raises nothing; calm live samples end all alerts; silence ends as an alert on the row and "down" as the last word |
| `scans` | `ScanInv VerdictsStand ScanEnds` | a report is done only if its job succeeded, none is forgotten until the hub stops, verdicts and answers stand, every scan ends |
| `spool_dedupe` | `AcceptedIsKept` | a violation: section 6 |

A type invariant is a conjunct of each module's invariant (`PipelineInv`,
`MonitorInv`, `SpoolInv`, `SenderInv`, `PreviewInv`, `AlertInv`, `ScanInv`), or a
property of its own where a theorem names it.

**Bounds, and why they are enough.**

- `queue_one`: one job, two attempts at most, a lease of one tick, one tick
  between the two UPDATEs, one `fail()` in flight. Jobs never look at each other
  except at enqueue (`job_key`) and in the order of a claim: `deploys`, with two
  jobs, tries the duplicate key, `pipeline` the order, and the safety results are
  proved for every number of jobs. One call in flight meets every other action
  between its read and its write. A second attempt is what a zombie needs.
- `deploys`: two jobs and two releases (an older and a newer outcome, a rollback
  to the first), two calls and one delivery (the duplicate), one hub restart.
  The safety results are proved for all.
- `pipeline`: two deploys of one app, one crash, one request under way that the
  agent gave up on, one caller, `Lease = 0` (a lease may run out at once), no
  hub restart. Two deploys give a previous container, a queued deploy with a
  stale `prevRelease` and a rollback. The same instance with one hub restart
  (5.4 million states) passes too but is too slow for a routine run.
  `pipeline_live` has one deploy, one crash and one hub restart.
- `monitor`: one service with up to three chains and two permits, two reloads,
  one restart, thresholds of two. Services share nothing but the permits, and
  three chains contend for two of them. A configuration without the service
  stands for one with other services only (the schema asks for at least one).
- `spool`: one envelope with its id in the payload and one with it in the header
  only (one with no id at all, which the window never sees, is in `spool_dedupe`
  and in the proofs), three arrivals for a cap of
  two files, a batch of one, so a drain leaves files behind; one reload or
  change of the project, one restart. `MaxRows` ends the repeats of a failing
  release marker.

- `sender`: a buffer of three, two drained per tick, six ids: one more than the
  agent can hold at once. The buffer overflows, and a backfill can stop at its
  first and at its second payload with a sample still behind it in the buffer.
- `previews`: two pull requests, two previews in all, three pushes, two handlers,
  one restart. Two handlers race on one pull request or on two; the cap is two.
  An open that would need a third id waits in `Create` for good.
- `previews_agent`: one pull request and two pushes, the first to bring the
  container up and the second to come late (3.7 million states).
- `alerts`: one rule, two requests at a time, silence after one minute, one
  change by an administrator or restart. Rules do not look at each other, and a
  late write needs one other writer to undo.
- `scans`: two reports, two handlers, two attempts as in the code, one restart.
  Two triggers can queue two scans, and one can close the other's report.

Deadlock is checked in `queue_one`, `sender` and `alerts`. The others may stop
for good: with releases and jobs spent, with no service configured, or with no
request to come.

## 4 Fairness

- `JobQueue`: time passes and the sweep, a `setInterval`, runs. The second
  UPDATE is strongly fair: it is disabled while no sweep is under way.
- `Deploys`: a handler that was started goes on, unless the hub restarts.
- `DeployPipeline`: the hub's clock, sweep and handlers go on; the supervisor
  restarts a dead agent; each step of a job ends (`deployTimeout` and the
  contexts of the docker calls); not every claim goes unanswered.
- `Monitor`: strong fairness of each chain's step. A check has a timeout, a
  waiter is woken in order, and with SQLite a chain that waits for another's
  statements gets its turn.
- `Telemetry`: the flush timer fires; the statements of the sink are strongly
  fair: a store that fails does not fail for ever. Nothing is assumed of clients
  or of requests in local mode.
- `AgentSender`: the ticker fires, a tick's handling goes on, a post returns (it
  has a timeout), the goroutine reports. Reading the result channel is strongly
  fair: `select` picks at random among what is ready. Nothing is assumed of hub
  or network: `DrainsOverLink` has a lasting connection as its premise.
- `Previews` (`HubSpec`): handlers go on, time passes, the sweep's interval fires.
- `AgentAlerts`: handlers go on, time passes, the detector runs. Nothing is
  assumed of the agent: that live samples arrive again and again is a premise of
  `AlertsSettle` (`LiveSamples`), for the agent may send backfill alone for as
  long as its posts are slow (section 6), and a backfill evaluates no rule.
- `Scans`: handlers go on and the cleanup's interval fires. Nothing is assumed of
  the agent, which may never come back.

## 5 What is proved

Every safety property that a run checks, invariants and action properties alike,
is proved for every value of the constants; each theorem names its property in
`PROJECT.json`. The assumptions are the named ones of each module: ids and slots
are natural numbers, bounds and times are in `Nat`, sets that are counted are
finite, `NULL` lies outside the data, and limits that the code and its
configuration keep positive (attempts, thresholds, permits, buffer) are positive.
There are no others. The bounds of the runs (`MaxJobs`, `MaxCrashes`, `MaxArrivals`, ...)
are constants too: a result for every bound is a result for every finite history.

Each proof has the same shape: an inductive invariant, which TLC has checked on
the instance of the runs; a lemma that `Init` implies it; per part a lemma that
each action keeps it; and the properties as its consequences. What follows says
for each module why the properties are not inductive and what makes them so.

**DeployPipelineProofs, part 1: the queue.** `TypeCorrect`; `LeaseInvariant`:
`Spec => []LeaseInv`; `SingleExecution`: `Spec => []NoDoubleExecution`;
`UnstartedRetried`: `Spec => UnstartedIsRetried`; `LogInOrder`:
`Spec => []LogInAttemptOrder`; `ImplementsContract`: `Spec => KeepsContract`.

`NoDoubleExecution` says that at most one token has begun without handing the
job back. That is not inductive: one must know that a `queued` or `claimed` job
has no worker left, that a row names the newest token, and that a `fail()` which
read "attempts left" before a sweep cannot requeue a later holder's job.
`LeaseInv` has these as named parts (`OwnerIsNewest`, `WorkersKnown`,
`AttemptsCounted`, `CallsCurrent`, `SweepTookAll`). The last says that between
the two UPDATEs nothing unstarted with attempts left is stale by the sweep's
clock reading; `UnstartedIsRetried` follows from it. The proof goes part by
part: one lemma for what an action does to one job (`JobStep`), one for calls
(`CallsStep`), one for the sweep (`SweepStep`). For the log one adds that no
entry is of a token that was never granted (`LogInv`): a chunk is appended by
the row's own token, which is the newest. `ContractStep` maps every action to a
step of the contract or a stutter.

**DeploysProofs.** `TypeCorrect`; `ReleaseInvariant`: `Spec => []ReleaseInv`; and
from it `SingleLive`, `ReleaseAgreesWithJob`, `ReleaseDecidedByJob`. That one
release is live, and agrees with its job, rests on who owns a release id: a call
in progress owns the id it drew until it has enqueued (`TriggersOwn`), then one
job names it (`JobsOwn`). Without these a second job could write a release that
the first decided.

**DeployPipelineProofs, part 2: the pipeline.** `PipelineInvariant`:
`PSpec => []IInv`; from it `PipelineHolds` (types and the zero-gap rule
`Served`), `PreviousIsKept`, `LiveIsProven`, `LiveStaysUp`; the refinements
`ImplementsQueue`: `PSpec => Spec` and `ImplementsDeploys`:
`PSpec => KeepsReleases`; and, with part 1, `DeploysKeepContract` and
`DeployedOnce`: no deploy is granted to an executor twice.

Every step of the pipeline is a step of the queue (`StepOfQueue`) and one of the
releases' bookkeeping (`StepOfReleases`), so `LeaseInv` and `ReleaseInv` are kept
by what is proved of the two parts alone. What is left is `AgentInv`. Its core is
`OneTry`: all that points to a job's failure (an early journal entry, a request
to fail it still under way, a `fail()` in progress, the row) and all that points
to its success never stand together; the row cannot say `failed` while the agent
has swapped. Around it `InHand` ties the agent's program counter to its journal,
lease and container, `UnderWay` says whose requests may still arrive,
`SuccessProven` and `Spare` give a success its healthy container, beside the one
the agent may yet remove, and `PrevWasLive` and `SettledOnce` say that what a
deploy stops is what was live before it. `Served` alone says nothing of the
container that the next step removes. Between that removal and the journal the
container is gone while the journal may say `stopping_prev`: as long as the
agent lives, the job is its current one and at `cleanup` (`CurMoves`,
`CleanupEnds`), and its release is not live yet; if the agent dies there, the
job is in `cut` for good (`Dropped`, `DroppedStays`), it has stopped nothing, and
what was live before it is still up (`CutIsOver`, `CutIsOverStep`). So `Served` and
`LiveIsUp` except the releases of `CutOff` and no others.

**MonitorProofs.** `Inductive`; `MonitorHolds` (`MonitorInv`), `OneIncident`
(`OneOpenIncident`), `IncidentFollowsStatus` (`IncidentTracksStatus`),
`FlapIsProtected`: `Spec => FlapProtected`. A permit is handed to the first
waiter without being counted down, so that the count is right needs each chain to
wait at one place (`WaitOnce`); the counting is by the cardinality theorems. With
SQLite one chain at a time is past its outcome (`OneWriter`), and what it is
about to write fits the status (`WriterKnows`). `Tracked` is
`IncidentTracksStatus` also for services that were removed from the
configuration and may come back. Flap protection rests on `Counted`: the two
counters say how the latest results end, whichever chains they came from.

**TelemetryProofs.** `Inductive`; `SpoolHolds` (`SpoolInv`), `OrderSurvives`
(`SpoolOrder`), `AnonymousIsKept` (`AnonymousKept`), `StoredAtMostOnce`
(`StoredOnce`). `Files`: the spool is in arrival order, `drain()` works through a
beginning of it, and what a local-mode request writes was never spooled. What
`drain()` takes off the spool is its oldest file, read or not (`ConsumeTakes`).
`RowsBeforeFiles`: no row of a spooled envelope is younger than a file, so the
row of the oldest file may be written, and written again after a crash.
`MarkerStored`: an envelope whose marker is being written is stored. `Once` says of
each id the window holds and a payload carries that one arrival at most is stored
or about to be: two requests in flight, a flush between lookup and row, and a row
are three places for one id, and the window is marked before all of them.

**AgentSenderProofs.** `TypeCorrect`; `SenderHolds` (`SenderInv`);
`NothingIsLost`: `Spec => NothingLost`, where what is sent is the payload the tick
is at (`Handed`) and not any other. `Gated` ties the gate to the one
goroutine, which posts or holds its result; `Ticking` to the tick's own sample
and backlog. A payload is in one place (`OnePlace`) and the buffer within its
capacity. `PushAll` is a recursive function; `PushAllSheds` says what a paused
backlog that is pushed back keeps, by taking the least number of rounds at which
it would not. `Collect` takes a fresh id, hence `SampleAssumption`: there are
more ids than an agent can hold at once.

**PreviewsProofs.** `TypeCorrect`; `PreviewsHold` and `PreviewsHoldHub`
(`PreviewInv`, of `Spec` and of `HubSpec`); `StrandedLate`
(`StrandedOnlyLate`). `Handlers` says what a request's program counter implies
of its app, in particular that a handler that is about to delete a row finds the
teardown queued; `OneTeardown` and `Removed` follow from the job key and this. A
preview deleted by its own id is excused, and only that.
`StrandedOnlyLate` needs the order of the jobs: between the two kinds of a claim
the agent runs nothing and no deploy is left of those there were when it began
(`Asking`), so the deploys a teardown's claim saw are over when it runs
(`DrainedFirst`), and what is up after it came later (`BroughtUpLate`) or is what
it failed to remove.

**ScansProofs.** `TypeCorrect`; `ScansSettled` (`ScanInv`); `VerdictsAreFinal`:
`Spec => VerdictsStand`. A report is `done` only by its job (`DoneByJob`), and
none is in flight that nothing will settle (`Settled`): a trigger that has yet to
enqueue is the report's only one (`Enqueuing`), a queued job has attempts left
and an ended one its result (`Attempts`), and a route's handler is about a job
that is there (`Handled`). `Bounded` and `Fresh` are about ids not given out.

**AgentAlertsProofs.** `TypeCorrect`; `NothingKnownInvariant`; `AlertsQuiet`
(`AlertInv`). That nothing is alerted of an agent that has never reported is not
inductive, for a late request or tick may still save a map: `NothingKnown` says
that until the first sample none of them holds one.

**Only model-checked.** All liveness (`SilentHolderLosesLease`,
`OutcomeReachesRelease`, `DeployEnds`, `ServiceChecked`, `SpoolDrained`,
`DrainsOverLink`, `EveryPreviewEnds`, `AlertsSettle`, `SilenceTold`, `ScanEnds`):
liveness under fairness needs `ENABLED`, which the prover does not handle. The
violation of `AcceptedIsKept` is a counterexample and has no theorem.
`DecidedByJob`, `DeployedOnce` and the inductive invariants are the other way
round: proved, with no run of their own. The induction theorems of the library
take an operator as a parameter, which the provers here cannot instantiate; where
an induction is needed (a least element of a set, the rounds of `PushAll`) it is
by `LeastNumber`, from the well-foundedness of `<`. No module has a RECURSIVE
operator.

## 6 What the runs found

`spool_dedupe` ends in a violation by what the code does: in queue mode the route
marks the event id, and the flush then takes the spooled envelope for its own
duplicate and deletes it. The test "queue mode end to end"
(`telemetry-pipeline.test.ts:415`) passes because it goes past the route.
`StoredOnce` and `SpoolDrained` hold all the same: what is lost is stored at most
once, and drained.

**Disagreements** between the code and what a comment or document says of it, met
while modelling. The models do what the code does, and their properties are
stated so that they hold of it.

- `fail()` selects a job by id and owner only, so a job the sweep has put in
  `unknown` gets a final status as its answer, while the UPDATE matches nothing:
  "the final failure lands in 'failed'" (`queue.ts:245`).
- Two deliveries of one webhook can both pass `byKey()` before either has
  enqueued; two releases are linked to one job: "must not mint a second release"
  (`trigger.ts:99`).
- `Reconcile()` removes every journal entry it posted, applied or not. An agent
  back within its lease posts while the hub still has the job running, and the
  journal is gone: "removed once the hub has the outcome" (`executor.go:324`).
- `fail()` removes the new container and only then notes the failure: an agent
  cancelled in the drain after the healthcheck, and killed between the two
  (`executor.go:211`, `:335-337`), leaves `stopping_prev` in its journal, which
  `reconcileItem()` reports as succeeded (`:724`). The hub shows the release as
  live, its container is gone and, at a first deploy, nothing serves: "Steps at or
  past the zero-gap point had already proven health before the agent stopped, so
  the swap outcome is success" (`executor.go:722-723`). `Served` and `LiveIsUp`
  except exactly these releases (`CutOff`).
- Settlements carry no order: when two deploys of an app succeed and the first
  one's settlement comes last, the older release is the live one. `OneLive` holds.
- `apply()` and the boot pipeline both start the monitor, so each service has two
  chains of checks: "so checks do not double-fire" (`ha.md:22`).
- From operational, a hard failure followed by a degraded result gives
  `degraded`: "treat any hard failure within the streak as a real outage"
  (`service-state.ts:36`).
- After one failed post, REST alone may never empty the buffer, although the hub
  is reachable again: when posts take longer than the pause of 25 ms
  (`main.go:378`), the oldest payload holds the gate, and the live sample finds it
  busy and is buffered. From then on all samples arrive as backfill, which raises
  no threshold alert: "flush as backfill on recovery" (`main.go:121`). It ends
  with the next websocket connection, hence the premise of `DrainsOverLink`.
- `PushAll()` puts a paused backlog behind what the cap left in the buffer:
  "requeues a partially flushed backlog preserving order" (`buffer.go:39`).
- `teardown()` is two statements: "in one step" (`preview.ts:87`). A push between
  them, or one that read the preview's row before, may queue a deploy after the
  teardown, and its container stays.
- The claim route awaits between two kinds: a deploy and then a teardown queued
  between its two queries are drained the wrong way round: "a queued deploy
  always drains before a teardown" (`client.go:57-58`). `StrandedOnlyLate` says
  what remains true.
- The agent reports a teardown that could not list or remove a container as
  succeeded (`teardown.go:56-64`, `:100`), and nothing retries a success: "retries
  converge instead of failing" (`teardown.go:17`). A preview that an administrator
  deletes by its own DELETE gets no teardown job (`apps/[id]/+server.ts:70`), nor do
  the containers of a parent. `RemovedByOneJob` and `StrandedOnlyLate` name these
  exceptions.
- An event id that stands in the envelope's header only is marked by the route in
  queue mode, and nobody else looks at it: in local mode such an envelope is stored
  as often as it comes, and the flush stores it again when `markRelease()` fails
  after `record()`: "a small LRU collapses duplicate event_ids before any store
  write" (`pipeline.ts:23`). `StoredOnce` is about ids in the payload.
- `drain()` deletes a file it cannot read (`spool.ts:99-104`) whatever the reason,
  with nothing stored and nothing counted.
- Two triggers queue two scans ("dedupes instead of queueing a second agent run",
  `scan/trigger.ts:87-88`), and a trigger that comes between the other's
  `createReport()` and `enqueue()` fails its report as lost.
- A scan job in `unknown` is never reconciled, for the scan executor keeps no
  journal, and `byKey()` still finds it: the app is blocked until the report is
  pruned after 90 days ("so the app is not blocked from scanning forever",
  `scan/trigger.ts:104-105`). `ScanEnds` holds by the prune.

## 7 Not modelled

Per component in `PROJECT.json`. In short: presentation, parsing and
cryptography have no protocol to check; the edge proxy is a data plane; the
configuration, the storage drivers and the checkers enter the models only by
what other components see of them (a reload, what is atomic, a result). Most of
the source is of this kind: Svelte pages, checkers for single protocols, schemas
and CRUD routes whose statements touch one row and whose order does not matter.

The **dispatcher** is not modelled: its queue chains promises that are already
running (`dispatcher.ts:67`), so the sends of two transitions overlap and what
the reader sees last is up to the remote endpoints. The cooldown is recorded
before the send (`dispatcher.ts:146`) and its key is target, service and event,
so all rules of one agent share one cooldown. No order of sends is promised by
the code that a model could check, beyond the comment at line 53.

Within the modelled components: Kubernetes, static sites and agent tasks are left
out of the executor; failing journal writes out of the pipeline; relay mode, rate
limits, the deletion of projects and a clock that steps back out of the telemetry
model; ports, domains and commit statuses out of previews; findings and the rules
of `recommend.ts` out of scans; authentication, the binding of machines and the
series out of ingestion; self-update out of the agent's loop (`Restart` stands
for it). The queue never loses a committed row in any model: the database is
trusted.

## 8 Plan

Done, in this order: the queue and its contract (the core: every job of the
product goes through it), releases, the pipeline that composes both with the
agent, monitor, telemetry, proofs for the first two; then the agent's sender,
previews with their teardowns, alerts of agents, scans.

Then the proofs of the other modules, until every safety property of the runs had
its theorem (section 5).

Next, the proofs: what the invariants give and no run states, such as what a
step that makes progress (a sweep, a settlement, a drain) achieves without any
fairness.

Next, the model, where runs are free: what every answer 200 of telemetry promises
(the 429 after marking, a failed `record()`) and relay mode; agent tasks; the
dispatcher's cooldown.
