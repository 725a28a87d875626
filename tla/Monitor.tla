------------------------------- MODULE Monitor -------------------------------
(***************************************************************************)
(* The uptime monitor (src/lib/server/monitor/monitor.ts), the flap        *)
(* protection of service-state.ts and the automatic incidents of           *)
(* store/incidents.ts.                                                     *)
(*                                                                         *)
(* A chain is what schedule() keeps going: a timer, then runOne(), then    *)
(* the timer again.  stop() can only clear the timer it finds in `timers`, *)
(* so a service may have several chains.  runOne() waits for one of        *)
(* `concurrency` permits.  release() wakes a waiter by a promise: nothing  *)
(* but timers calls acquire(), so the waiter has its permit before the     *)
(* next call of acquire() and the two are one step here.                   *)
(*                                                                         *)
(* With SQLite the awaits of runOne() after the outcome give way to no     *)
(* other check; with SurrealDB every statement is a round trip, and other  *)
(* chains run meanwhile.  What a check does on the network is left out:    *)
(* only its result counts.                                                 *)
(***************************************************************************)
EXTENDS Integers, Sequences, FiniteSets

CONSTANTS
  Services,
  Concurrency,   \* monitor.concurrency
  Failures,      \* monitor.failure_threshold
  Recoveries,    \* monitor.recovery_threshold
  Drivers,       \* the storage drivers considered
  MaxChains,     \* bound: chains of one service
  MaxReloads,    \* bound: config reloads
  MaxRestarts    \* bound: hub restarts

ASSUME ThresholdAssumption ==
  Concurrency \in Nat \ {0} /\ Failures \in Nat \ {0} /\ Recoveries \in Nat \ {0}
ASSUME MonitorBounds == MaxChains \in Nat \ {0} /\ MaxReloads \in Nat /\ MaxRestarts \in Nat
ASSUME DriverAssumption == Drivers \subseteq {"sqlite", "surreal"}

VARIABLES
  driver,    \* [storage] driver
  config,    \* the services configured now
  booted,    \* start() at the end of the boot pipeline has run
  at,        \* where each chain is
  timer,     \* timers: the chain whose timeout stop() can clear; 0 for none
  waiting,   \* queue: the chains waiting for a permit
  inFlight,  \* permits in use
  status,    \* ServiceState.status, and the same word in serviceStatus
  bad, good, \* ServiceState's counters, up to the thresholds
  open,      \* open incidents of a service
  reloads, restarts,
  recent,    \* history: the latest results a ServiceState was given
  excused    \* history: services whose incidents an operator, a restart, a
             \* removal or a failed statement took out of the monitor's hands

sched == <<driver, config, booted, at, timer, waiting, inFlight>>
flap == <<status, bad, good, recent>>
mvars == <<sched, flap, open, excused, reloads, restarts>>

Chains == 1..MaxChains
Results == {"good", "degraded", "bad"}
ServiceStatus == {"unknown", "operational", "degraded", "major_outage"}
Bad == {"degraded", "major_outage"}

\* The awaits of runOne(); in the last five the chain holds a permit.
Holding == {"checking", "opening", "inserting", "closing", "done"}
Places == {"none", "timer", "waiting"} \cup Holding

Span == IF Failures > Recoveries THEN Failures ELSE Recoveries

TypeOK ==
  /\ driver \in Drivers
  /\ config \subseteq Services
  /\ booted \in BOOLEAN
  /\ at \in [Services -> [Chains -> Places]]
  /\ timer \in [Services -> Chains \cup {0}]
  /\ waiting \in Seq(Services \X Chains)
  /\ inFlight \in 0..Concurrency
  /\ status \in [Services -> ServiceStatus]
  /\ bad \in [Services -> 0..Failures]
  /\ good \in [Services -> 0..Recoveries]
  /\ open \in [Services -> Nat]
  /\ reloads \in 0..MaxReloads /\ restarts \in 0..MaxRestarts
  /\ recent \in [Services -> Seq(Results)]
  /\ excused \subseteq Services

------------------------------------------------------------------------------
(* schedule(), start(), stop() *)

Nowhere == [s \in Services |-> [n \in Chains |-> "none"]]

\* stop(): what its clearTimeout() and queue.length = 0 leave of the chains.
\* A waiter that is dropped is never resolved.
Stopped(places) ==
  [s \in Services |-> [n \in Chains |->
     IF places[s][n] = "waiting" \/ (places[s][n] = "timer" /\ timer[s] = n)
     THEN "none" ELSE places[s][n]]]

Free(places, s) == {n \in Chains : places[s][n] = "none"}
FirstFree(places, s) ==
  CHOOSE n \in Free(places, s) : \A m \in Free(places, s) : n <= m

\* start(): a new chain for every service of cfg, and its timer in the map.
Schedule(places, cfg) ==
  /\ \A s \in cfg : Free(places, s) # {}
  /\ at' = [s \in Services |-> IF s \in cfg
             THEN [places[s] EXCEPT ![FirstFree(places, s)] = "timer"] ELSE places[s]]
  /\ timer' = [s \in Services |-> IF s \in cfg THEN FirstFree(places, s) ELSE 0]

\* A new ServiceState for the services in S.
Fresh(S) ==
  /\ status' = [s \in Services |-> IF s \in S THEN "unknown" ELSE status[s]]
  /\ bad' = [s \in Services |-> IF s \in S THEN 0 ELSE bad[s]]
  /\ good' = [s \in Services |-> IF s \in S THEN 0 ELSE good[s]]
  /\ recent' = [s \in Services |-> IF s \in S THEN <<>> ELSE recent[s]]

\* The incidents of the services in S are no longer followed.
Excuse(S) == excused' = excused \cup {s \in S : open[s] > 0}

Init ==
  /\ driver \in Drivers
  /\ config \in SUBSET Services
  /\ booted = FALSE
  /\ at = [s \in Services |-> [n \in Chains |->
             IF s \in config /\ n = 1 THEN "timer" ELSE "none"]]
  /\ timer = [s \in Services |-> IF s \in config THEN 1 ELSE 0]
  /\ waiting = <<>> /\ inFlight = 0
  /\ status = [s \in Services |-> "unknown"]
  /\ bad = [s \in Services |-> 0] /\ good = [s \in Services |-> 0]
  /\ open = [s \in Services |-> 0]
  /\ reloads = 0 /\ restarts = 0
  /\ recent = [s \in Services |-> <<>>]
  /\ excused = {}

\* No check is between two statements of a store that does not give way.
Quiet == driver = "sqlite" => \A s \in Services, n \in Chains :
                                at[s][n] \notin {"opening", "inserting", "closing", "done"}

\* The boot pipeline: apply() has reloaded and so started the monitor, then
\* it is started again.
BootStart ==
  /\ ~booted /\ Quiet
  /\ booted' = TRUE
  /\ Schedule(at, config)
  /\ UNCHANGED <<driver, config, waiting, inFlight, flap, open, excused, reloads, restarts>>

\* Mutant of Reload: the permits are reset with the queue.
ReloadForgettingPermits(cfg) ==
  /\ reloads < MaxReloads /\ Quiet
  /\ reloads' = reloads + 1
  /\ config' = cfg
  /\ Schedule(Stopped(at), cfg)
  /\ waiting' = <<>> /\ inFlight' = 0
  /\ Fresh(Services \ (config \cap cfg))
  /\ Excuse(config \ cfg)
  /\ UNCHANGED <<driver, booted, open, restarts>>

\* reload(): state is carried over for the services that remain.
Reload(cfg) ==
  /\ reloads < MaxReloads /\ Quiet
  /\ reloads' = reloads + 1
  /\ config' = cfg
  /\ Schedule(Stopped(at), cfg)
  /\ waiting' = <<>>
  /\ Fresh(Services \ (config \cap cfg))
  /\ Excuse(config \ cfg)
  /\ UNCHANGED <<driver, booted, inFlight, open, restarts>>

\* The process stops and starts: only the incidents are left.
Restart ==
  /\ restarts < MaxRestarts
  /\ restarts' = restarts + 1
  /\ booted' = FALSE
  /\ Schedule(Nowhere, config)
  /\ waiting' = <<>> /\ inFlight' = 0
  /\ Fresh(Services)
  /\ Excuse(Services)
  /\ UNCHANGED <<driver, config, open, reloads>>

------------------------------------------------------------------------------
(* runOne() *)

Goto(s, n, place) == at' = [at EXCEPT ![s][n] = place]

\* acquire(): a permit, or a place in the queue.
Fire(s, n) ==
  /\ at[s][n] = "timer" /\ Quiet
  /\ \/ /\ inFlight < Concurrency
        /\ inFlight' = inFlight + 1
        /\ Goto(s, n, "checking")
        /\ UNCHANGED waiting
     \/ /\ inFlight >= Concurrency
        /\ waiting' = Append(waiting, <<s, n>>)
        /\ Goto(s, n, "waiting")
        /\ UNCHANGED inFlight
  /\ UNCHANGED <<driver, config, booted, timer, flap, open, excused, reloads, restarts>>

Least(a, b) == IF a < b THEN a ELSE b

\* Mutant of GoodAfter: a failure does not end a streak of good results.
GoodKept(s, result) == IF result = "good" THEN Least(good[s] + 1, Recoveries) ELSE good[s]

\* apply(): counts the result ...
BadAfter(s, result) == IF result = "good" THEN 0 ELSE Least(bad[s] + 1, Failures)
GoodAfter(s, result) == IF result = "good" THEN Least(good[s] + 1, Recoveries) ELSE 0

\* ... and says what the status is then.
Observed(result) ==
  CASE result = "good" -> "operational"
    [] result = "degraded" -> "degraded"
    [] result = "bad" -> "major_outage"
NextStatus(s, result) ==
  IF BadAfter(s, result) = Failures
  THEN IF status[s] = "major_outage" THEN "major_outage" ELSE Observed(result)
  ELSE IF GoodAfter(s, result) = Recoveries \/ status[s] = "unknown"
       THEN Observed(result) ELSE status[s]

\* Mutant of IncidentStep: a degraded service had no incident.
IncidentOfOutage(before, after) ==
  IF before \notin Bad /\ after \in Bad THEN "opening"
  ELSE IF before = "major_outage" /\ after \notin Bad THEN "closing" ELSE "done"

\* onTransition(): what is to be done about the incident.
IncidentStep(before, after) ==
  IF before \notin Bad /\ after \in Bad THEN "opening"
  ELSE IF before \in Bad /\ after \notin Bad THEN "closing" ELSE "done"

Latest(s, result) ==
  LET all == Append(recent[s], result) IN
  IF Len(all) > Span THEN Tail(all) ELSE all

\* The outcome arrives and is recorded; a service that is gone has no state.
Outcome(s, n, result) ==
  /\ at[s][n] = "checking" /\ Quiet
  /\ \/ /\ s \in config
        /\ status' = [status EXCEPT ![s] = NextStatus(s, result)]
        /\ bad' = [bad EXCEPT ![s] = BadAfter(s, result)]
        /\ good' = [good EXCEPT ![s] = GoodAfter(s, result)]
        /\ recent' = [recent EXCEPT ![s] = Latest(s, result)]
        /\ Goto(s, n, IncidentStep(status[s], NextStatus(s, result)))
     \/ /\ s \notin config
        /\ Goto(s, n, "done")
        /\ UNCHANGED flap
  /\ UNCHANGED <<driver, config, booted, timer, waiting, inFlight>>
  /\ UNCHANGED <<open, excused, reloads, restarts>>

\* Mutant of OpenRead: inserts whatever it found.
OpenBlindly(s, n) ==
  /\ at[s][n] = "opening"
  /\ Goto(s, n, "inserting")
  /\ UNCHANGED <<driver, config, booted, timer, waiting, inFlight, flap>>
  /\ UNCHANGED <<open, excused, reloads, restarts>>

\* open() reads, and inserts if it found none.
OpenRead(s, n) ==
  /\ at[s][n] = "opening"
  /\ Goto(s, n, IF open[s] > 0 THEN "done" ELSE "inserting")
  /\ excused' = IF open[s] > 0 THEN excused \ {s} ELSE excused
  /\ UNCHANGED <<driver, config, booted, timer, waiting, inFlight, flap>>
  /\ UNCHANGED <<open, reloads, restarts>>

OpenInsert(s, n) ==
  /\ at[s][n] = "inserting"
  /\ open' = [open EXCEPT ![s] = @ + 1]
  /\ excused' = excused \ {s}
  /\ Goto(s, n, "done")
  /\ UNCHANGED <<driver, config, booted, timer, waiting, inFlight, flap, reloads, restarts>>

CloseUpdate(s, n) ==
  /\ at[s][n] = "closing"
  /\ open' = [open EXCEPT ![s] = 0]
  /\ excused' = excused \ {s}
  /\ Goto(s, n, "done")
  /\ UNCHANGED <<driver, config, booted, timer, waiting, inFlight, flap, reloads, restarts>>

\* Mutant of Crash: the error goes past the calls that end a check.
CrashForGood(s, n) ==
  /\ at[s][n] \in {"checking", "opening", "inserting", "closing"}
  /\ Goto(s, n, "none")
  /\ excused' = excused \cup {s}
  /\ UNCHANGED <<driver, config, booted, timer, waiting, inFlight, flap>>
  /\ UNCHANGED <<open, reloads, restarts>>

\* runCheck() or a statement throws: the rest of runOne() is skipped.
Crash(s, n) ==
  /\ at[s][n] \in {"checking", "opening", "inserting", "closing"}
  /\ at[s][n] = "checking" => Quiet
  /\ excused' = IF at[s][n] = "checking" THEN excused ELSE excused \cup {s}
  /\ Goto(s, n, "done")
  /\ UNCHANGED <<driver, config, booted, timer, waiting, inFlight, flap>>
  /\ UNCHANGED <<open, reloads, restarts>>

\* release(), then schedule() of the chain that is done.
Release(s, n) ==
  /\ at[s][n] = "done"
  /\ timer' = [timer EXCEPT ![s] = n]
  /\ \/ /\ waiting = <<>>
        /\ inFlight' = inFlight - 1
        /\ Goto(s, n, "timer")
        /\ UNCHANGED waiting
     \/ /\ waiting # <<>>
        /\ waiting' = Tail(waiting)
        /\ LET w == Head(waiting) IN
           at' = [at EXCEPT ![s][n] = "timer", ![w[1]][w[2]] = "checking"]
        /\ UNCHANGED inFlight
  /\ UNCHANGED <<driver, config, booted, flap, open, excused, reloads, restarts>>

RunOne(s, n) ==
  \/ Fire(s, n)
  \/ \E result \in Results : Outcome(s, n, result)
  \/ OpenRead(s, n) \/ OpenInsert(s, n) \/ CloseUpdate(s, n)
  \/ Crash(s, n)
  \/ Release(s, n)

\* An operator closes an incident by hand.
Resolve(s) ==
  /\ open[s] > 0 /\ Quiet
  /\ open' = [open EXCEPT ![s] = @ - 1]
  /\ excused' = excused \cup {s}
  /\ UNCHANGED <<sched, flap, reloads, restarts>>

Next ==
  \/ BootStart
  \/ \E cfg \in SUBSET Services : Reload(cfg)
  \/ Restart
  \/ \E s \in Services, n \in Chains : RunOne(s, n)
  \/ \E s \in Services : Resolve(s)

Spec == Init /\ [][Next]_mvars

\* Timers fire and checks end: every checker has a timeout.  Strong fairness,
\* because with SQLite a chain waits for the statements of another one, which
\* end, and may have to do so again and again.
FairSpec == Spec /\ \A s \in Services, n \in Chains : SF_mvars(RunOne(s, n))

------------------------------------------------------------------------------
(* Properties *)

HoldingChains == {c \in Services \X Chains : at[c[1]][c[2]] \in Holding}

\* No permit is lost or lent twice, whatever reload() drops: the counter is the
\* number of checks running, and nobody waits while a permit is free.
PermitsAccounted ==
  /\ inFlight = Cardinality(HoldingChains)
  /\ waiting # <<>> => inFlight = Concurrency
  /\ \A s \in Services, n \in Chains :
       at[s][n] = "waiting" <=> \E i \in DOMAIN waiting : waiting[i] = <<s, n>>

\* The invariant of the monitor: typed, with every permit accounted for.
MonitorInv == TypeOK /\ PermitsAccounted

\* With SQLite a service has one open incident at a time, whatever chains,
\* reloads and restarts report about it.
OneOpenIncident == driver = "sqlite" => \A s \in Services : open[s] <= 1

\* With SQLite a configured service has an open incident exactly while its
\* status is bad: no order of results, chains and reloads leaves one behind.
IncidentTracksStatus ==
  driver = "sqlite" => \A s \in config \ excused :
    (\A n \in Chains : at[s][n] \notin {"opening", "inserting", "closing"})
      => (open[s] > 0 <=> status[s] \in Bad)

LastAre(seq, count, S) ==
  Len(seq) >= count /\ \A i \in (Len(seq) - count + 1)..Len(seq) : seq[i] \in S

FlapStep ==
  \A s \in Services : status'[s] # status[s] /\ status[s] # "unknown" =>
    \/ status'[s] = "unknown"
    \/ status'[s] = "operational" /\ LastAre(recent'[s], Recoveries, {"good"})
    \/ status'[s] \in Bad /\ LastAre(recent'[s], Failures, {"degraded", "bad"})

\* "A service only changes public status after `threshold` consecutive results
\* in that direction" (service-state.ts:4), however many chains feed it.
FlapProtected == [][FlapStep]_mvars

\* Every configured service is checked again and again, whatever reload() did
\* to its timer or its place in the queue.
ServiceChecked ==
  \A s \in Services : []<>(s \notin config \/ \E n \in Chains : at[s][n] = "done")
==============================================================================
