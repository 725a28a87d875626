--------------------------- MODULE DeployPipeline ---------------------------
(***************************************************************************)
(* A deploy from the trigger to the swap of containers: the hub's job      *)
(* queue (JobQueue), its releases (Deploys), and the agent that executes   *)
(* (agent/internal/deploy/executor.go, journal.go, client.go and the       *)
(* worker loop of agent/cmd/wharfinger-agent/main.go).                     *)
(*                                                                         *)
(* One app on one host.  Its agent works on one job at a time.  A request  *)
(* of the agent is answered, or the agent gives up on it: then the hub may *)
(* never see it, or act on it at any later moment.  The agent may die at   *)
(* any point and comes back with its journal and the containers; the hub   *)
(* may die at any point and comes back with its rows.  Journal writes are  *)
(* taken to succeed.  Progress reports and late heartbeats change nothing  *)
(* here and stay in JobQueue.                                              *)
(***************************************************************************)
EXTENDS JobQueue

CONSTANTS
  Host,         \* the agent all jobs of the app target
  Deploy,       \* the kind "deploy"
  Callers,      \* triggerDeploy() calls that may be in progress together
  MaxReleases,  \* bound: release ids ever drawn
  MaxRestarts,  \* bound: hub restarts
  MaxCrashes,   \* bound: agent crashes
  MaxLate       \* bound: requests the agent gave up on that are still under way

ASSUME HostAssumption == Host \in Agents /\ Deploy \in Kinds
ASSUME PipelineBounds ==
  MaxReleases \in Nat /\ MaxRestarts \in Nat /\ MaxCrashes \in Nat /\ MaxLate \in Nat
\* The key of a deploy is its release; its max_attempts is 1, its delay 0.
ASSUME DeployAssumption ==
  1..MaxReleases \subseteq Keys /\ NULL \notin Nat /\ 1 \in AttemptLimits /\ 0 \in Delays

VARIABLES
  relOf, rel, prev, link, triggers, nextRel, settling, restarts,  \* see Deploys
  pc,       \* what the agent is doing
  cur,      \* the job it works on, 0 for none
  tok,      \* the lease it holds for that job
  aborted,  \* the job's context is cancelled
  journal,  \* step in the job's journal file; "none" when there is no file
  box,      \* container of a release: "none", "up" or "down"
  late,     \* requests the agent gave up on
  report,   \* entries of a reconcile request the hub has yet to look at
  crashes,  \* agent crashes so far
  proven,   \* history: releases whose container passed its healthcheck
  swapped,  \* history: jobs that stopped the previous container
  cut       \* history: jobs that died with their container removed after a
            \* healthcheck, before their journal said that they had failed

releaseVars == <<relOf, rel, prev, link, triggers, nextRel, settling, restarts>>
historyVars == <<proven, swapped, cut>>
agentVars == <<pc, cur, tok, aborted, journal, box, crashes, historyVars>>
netVars == <<late, report>>
pvars == <<qvars, releaseVars, agentVars, netVars>>

Rels == 1..MaxReleases

\* What Deploys sees of the jobs table.
PhaseSeen ==
  [j \in Ids |-> IF status[j] = "absent"
                 THEN IF j < nextId THEN "forgotten" ELSE "fresh"
                 ELSE IF status[j] \in Outcomes THEN status[j] ELSE "open"]
KeySeen == [j \in Ids |-> ask[j].key]

D == INSTANCE Deploys WITH Deliveries <- {}, phase <- PhaseSeen, keyOf <- KeySeen

\* The steps the journal records; each is written before the step is done.
JournalSteps ==
  {"fetch", "build", "run", "healthcheck", "stopping_prev", "succeed", "failed"}
Executing == {"secrets", "stop", "cleanup"} \cup JournalSteps
PCs == {"off", "idle", "start", "answer", "report"} \cup Executing

Late == [op: {"claim", "start", "succeed", "fail"}, job: Ids \cup {0}, lease: Nat]

PTypeOK ==
  /\ TypeOK
  /\ D!TypeOK
  /\ pc \in PCs
  /\ cur \in Ids \cup {0} /\ tok \in Nat /\ aborted \in BOOLEAN
  /\ journal \in [Ids -> JournalSteps \cup {"none"}]
  /\ box \in [Rels -> {"none", "up", "down"}]
  /\ late \subseteq Late /\ report \subseteq Ids
  /\ crashes \in 0..MaxCrashes
  /\ proven \subseteq Rels /\ swapped \subseteq Ids /\ cut \subseteq Ids

PInit ==
  /\ Init
  /\ D!Init
  /\ pc = "idle" /\ cur = 0 /\ tok = 0 /\ aborted = FALSE
  /\ journal = [j \in Ids |-> "none"]
  /\ box = [r \in Rels |-> "none"]
  /\ late = {} /\ report = {}
  /\ crashes = 0
  /\ proven = {} /\ swapped = {} /\ cut = {}

------------------------------------------------------------------------------
(* The hub *)

TriggerDeploy(c) ==
  /\ \/ /\ UNCHANGED qvars
        /\ \/ D!BuildSpec(c, NULL)
           \/ \E target \in Rels : D!RollbackSpec(c, target)
           \/ D!Dedupe(c) \/ D!CreateRelease(c) \/ D!LinkJob(c)
     \/ /\ Enqueue(triggers[c].key, Deploy, Host, 1, 0)
        /\ D!EnqueueJob(c)
  /\ UNCHANGED <<agentVars, netVars>>

SettleRelease(j) ==
  /\ UNCHANGED qvars
  /\ D!SettleDeployJob(j)
  /\ UNCHANGED <<agentVars, netVars>>

HubClock == Tick /\ UNCHANGED <<releaseVars, agentVars, netVars>>

Sweep ==
  /\ RecoverRequeue \/ RecoverUnknown
  /\ UNCHANGED <<releaseVars, agentVars, netVars>>

\* The agent is done with the job, its journal file kept or removed.
Finished(kept) ==
  /\ pc' = "idle" /\ cur' = 0 /\ tok' = 0 /\ aborted' = FALSE
  /\ journal' = IF kept THEN journal ELSE [journal EXCEPT ![cur] = "none"]
  /\ UNCHANGED <<box, crashes, historyVars>>

\* The agent's request under way is cut off; it takes that for a failure.
HubRestart ==
  /\ Restart
  /\ D!HubRestart
  /\ report' = {}
  /\ IF pc \in {"answer", "report"} THEN Finished(TRUE) ELSE UNCHANGED agentVars
  /\ UNCHANGED late

\* Mutant: the handler forgets to settle the release.
HubSucceedOnly(j, l) == Succeed(j, l) /\ UNCHANGED releaseVars

\* The succeed action of the job route.
HubSucceed(j, l) == Succeed(j, l) /\ D!Finish(j, "succeeded")

\* The fail action: its caller settles the job even when nothing matched.
HubFail(c) ==
  /\ FailWrite(c)
  /\ \/ Holds(c.job, c.lease) /\ D!Finish(c.job, Answer(c))
     \/ ~Holds(c.job, c.lease) /\ D!FalseFinish(c.job)

------------------------------------------------------------------------------
(* The agent's worker loop *)

\* The request neither succeeds nor fails for the agent.
GiveUpOn(op) ==
  /\ Cardinality(late) < MaxLate
  /\ late' = late \cup {[op |-> op, job |-> cur, lease |-> tok]}
  /\ UNCHANGED <<qvars, releaseVars, report>>

AgentClaim ==
  /\ pc = "idle"
  /\ Claim(Deploy, Host)
  /\ \E j \in Ids : status'[j] # status[j] /\ cur' = j /\ tok' = owner'[j]
  /\ pc' = "start"
  /\ UNCHANGED <<aborted, journal, box, crashes, historyVars>>
  /\ UNCHANGED <<releaseVars, netVars>>

ClaimUnanswered == pc = "idle" /\ GiveUpOn("claim") /\ UNCHANGED agentVars

AgentStart ==
  /\ pc = "start"
  /\ Start(cur, tok)
  /\ pc' = "secrets"
  /\ UNCHANGED <<cur, tok, aborted, journal, box, crashes, historyVars>>
  /\ UNCHANGED <<releaseVars, netVars>>

\* A rejection and a failed request look the same here: the journal goes.
StartRejected ==
  /\ pc = "start" /\ ~(Holds(cur, tok) /\ status[cur] = "claimed")
  /\ Finished(FALSE)
  /\ UNCHANGED <<qvars, releaseVars, netVars>>

StartUnanswered == pc = "start" /\ GiveUpOn("start") /\ Finished(FALSE)

\* heartbeatLoop(), beside the steps of the job until its context ends.
AgentHeartbeat ==
  /\ pc \in Executing \cup {"answer"} /\ ~aborted
  /\ \/ Heartbeat(cur, tok) /\ UNCHANGED aborted
     \/ ~Holds(cur, tok) /\ aborted' = TRUE /\ UNCHANGED qvars
  /\ UNCHANGED <<pc, cur, tok, journal, box, crashes, historyVars>>
  /\ UNCHANGED <<releaseVars, netVars>>

\* jobTimeout, or the agent is told to stop.
Deadline ==
  /\ pc \in Executing /\ ~aborted /\ aborted' = TRUE
  /\ UNCHANGED <<pc, cur, tok, journal, box, crashes, historyVars>>
  /\ UNCHANGED <<qvars, releaseVars, netVars>>

------------------------------------------------------------------------------
(* Execute(): secrets, then the journaled steps up to the report *)

\* Mutant: the previous container is stopped before the healthcheck.
NextStepGap ==
  [secrets |-> "fetch", fetch |-> "build", build |-> "run", run |-> "stopping_prev",
   stopping_prev |-> "stop", stop |-> "healthcheck", healthcheck |-> "succeed"]

NextStep ==
  [secrets |-> "fetch", fetch |-> "build", build |-> "run", run |-> "healthcheck",
   healthcheck |-> "stopping_prev", stopping_prev |-> "stop", stop |-> "succeed"]

\* What doing the agent's current step does to the containers.
Mine == relOf[cur]
Boxes(step) ==
  CASE step = "run" -> [box EXCEPT ![Mine] = "up"]
    [] step = "stop" -> [r \in Rels |-> IF r = prev[Mine] /\ box[r] = "up"
                                        THEN "down" ELSE box[r]]
    [] OTHER -> box

\* The stop is best effort: its error is a warning.
StepDone ==
  /\ pc \in DOMAIN NextStep
  /\ pc # "stop" => ~aborted
  /\ pc' = NextStep[pc]
  /\ journal' = IF pc' \in JournalSteps THEN [journal EXCEPT ![cur] = pc'] ELSE journal
  /\ proven' = IF pc = "healthcheck" THEN proven \cup {Mine} ELSE proven
  /\ \/ box' = Boxes(pc) /\ swapped' = IF pc = "stop" THEN swapped \cup {cur} ELSE swapped
     \/ pc = "stop" /\ UNCHANGED <<box, swapped>>
  /\ UNCHANGED <<cur, tok, aborted, crashes, cut>>
  /\ UNCHANGED <<qvars, releaseVars, netVars>>

\* fail(): the new container is removed if the run step was over (or that
\* fails, unnoticed); a run that failed half-way may leave it up.  During the
\* drain only a cancelled context fails.  The journal does not know it yet.
StepFails ==
  /\ pc \in DOMAIN NextStep \ {"stop"}
  /\ pc = "stopping_prev" => aborted
  /\ pc' = "cleanup"
  /\ box' \in CASE pc = "run" -> {box, Boxes("run")}
                [] pc \in {"healthcheck", "stopping_prev"} ->
                     {box, [box EXCEPT ![Mine] = "none"]}
                [] OTHER -> {box}
  /\ UNCHANGED <<cur, tok, aborted, journal, crashes, historyVars>>
  /\ UNCHANGED <<qvars, releaseVars, netVars>>

\* finishOutcome() writes the failure down before it posts it.  A spec that
\* does not parse, or names no runtime, comes here before the job is started:
\* then there are no heartbeats.
FailureNoted ==
  /\ pc \in {"start", "cleanup"}
  /\ pc' = "failed"
  /\ journal' = [journal EXCEPT ![cur] = "failed"]
  /\ aborted' = (aborted \/ pc = "start")
  /\ UNCHANGED <<cur, tok, box, crashes, historyVars>>
  /\ UNCHANGED <<qvars, releaseVars, netVars>>

ReportSuccess ==
  /\ pc = "succeed"
  /\ HubSucceed(cur, tok)
  /\ Finished(FALSE)
  /\ UNCHANGED netVars

SuccessRejected ==
  /\ pc = "succeed" /\ ~Holds(cur, tok)
  /\ Finished(TRUE)
  /\ UNCHANGED <<qvars, releaseVars, netVars>>

SuccessUnanswered == pc = "succeed" /\ GiveUpOn("succeed") /\ Finished(TRUE)

\* finishFail(): any status word in the answer removes the journal file.
ReportFailure ==
  /\ pc = "failed"
  /\ \/ /\ FailRead(cur, tok, FALSE)
        /\ pc' = "answer"
        /\ UNCHANGED <<cur, tok, aborted, journal, box, crashes, historyVars>>
     \/ /\ owner[cur] # tok
        /\ Finished(FALSE)
        /\ UNCHANGED qvars
  /\ UNCHANGED <<releaseVars, netVars>>

FailureUnanswered ==
  \/ pc = "failed" /\ GiveUpOn("fail") /\ Finished(TRUE)
  \/ pc = "answer" /\ Finished(TRUE) /\ UNCHANGED <<qvars, releaseVars, netVars>>

FailureAnswered(c) ==
  /\ HubFail(c)
  /\ IF pc = "answer" /\ c.job = cur THEN Finished(FALSE) ELSE UNCHANGED agentVars
  /\ UNCHANGED netVars

------------------------------------------------------------------------------
(* Crash, restart and reconciliation *)

\* The step under way may have had its effect.
AgentCrash ==
  /\ pc # "off" /\ crashes < MaxCrashes
  /\ pc' = "off" /\ cur' = 0 /\ tok' = 0 /\ aborted' = FALSE
  /\ crashes' = crashes + 1
  /\ \/ UNCHANGED <<box, swapped>>
     \/ /\ pc \in {"run", "stop"}
        /\ box' = Boxes(pc)
        /\ swapped' = IF pc = "stop" THEN swapped \cup {cur} ELSE swapped
  /\ cut' = IF pc = "cleanup" /\ journal[cur] = "stopping_prev" /\ box[Mine] # "up"
            THEN cut \cup {cur} ELSE cut
  /\ UNCHANGED <<journal, proven>>
  /\ UNCHANGED <<qvars, releaseVars, netVars>>

Journaled == {j \in Ids : journal[j] # "none"}

\* Reconcile() posts every entry, once, before the first claim.
AgentBoot ==
  /\ pc = "off"
  /\ pc' = IF Journaled = {} THEN "idle" ELSE "report"
  /\ report' = report \cup Journaled
  /\ UNCHANGED <<cur, tok, aborted, journal, box, crashes, historyVars>>
  /\ UNCHANGED <<qvars, releaseVars, late>>

\* Mutants: the zero-gap point is taken to be one step later, or one earlier.
OutcomeOfLate(step) == IF step = "succeed" THEN "succeeded" ELSE "failed"
OutcomeOfEarly(step) ==
  IF step \in {"healthcheck", "stopping_prev", "succeed"} THEN "succeeded" ELSE "failed"

\* reconcileItem(): at or past the zero-gap point the swap is a success.
OutcomeOf(step) ==
  IF step \in {"stopping_prev", "succeed"} THEN "succeeded" ELSE "failed"

\* The reconcile route takes the entries in turn; only 'unknown' jobs change.
ReportItem(j) ==
  /\ j \in report /\ \A i \in report : j <= i
  /\ report' = report \ {j}
  /\ \/ Reconcile(j, OutcomeOf(journal[j])) /\ D!Finish(j, OutcomeOf(journal[j]))
     \/ status[j] # "unknown" /\ UNCHANGED <<qvars, releaseVars>>
  /\ UNCHANGED <<agentVars, late>>

\* Applied or not, every entry posted is dropped.
ReportAnswered ==
  /\ pc = "report" /\ report = {}
  /\ pc' = "idle"
  /\ journal' = [j \in Ids |-> "none"]
  /\ UNCHANGED <<cur, tok, aborted, box, crashes, historyVars>>
  /\ UNCHANGED <<qvars, releaseVars, netVars>>

\* The request failed, or its answer is late: the loop goes on without it.
ReportUnanswered ==
  /\ pc = "report"
  /\ pc' = "idle"
  /\ report' \in {report, {}}
  /\ UNCHANGED <<cur, tok, aborted, journal, box, crashes, historyVars>>
  /\ UNCHANGED <<qvars, releaseVars, late>>

\* The hub gets, or never gets, a request the agent gave up on.
LateRequest(m) ==
  /\ late' = late \ {m}
  /\ \/ m.op = "claim" /\ Claim(Deploy, Host) /\ UNCHANGED releaseVars
     \/ m.op = "start" /\ Start(m.job, m.lease) /\ UNCHANGED releaseVars
     \/ m.op = "succeed" /\ HubSucceed(m.job, m.lease)
     \/ m.op = "fail" /\ FailRead(m.job, m.lease, FALSE) /\ UNCHANGED releaseVars
     \/ UNCHANGED <<qvars, releaseVars>>
  /\ UNCHANGED <<agentVars, report>>

------------------------------------------------------------------------------
AgentStep ==
  \/ AgentStart \/ StartRejected
  \/ StepDone \/ StepFails \/ FailureNoted
  \/ ReportSuccess \/ SuccessRejected \/ ReportFailure

Unanswered ==
  \/ ClaimUnanswered \/ StartUnanswered \/ SuccessUnanswered
  \/ FailureUnanswered \/ ReportUnanswered

PNext ==
  \/ \E c \in Callers : TriggerDeploy(c)
  \/ \E j \in Ids : SettleRelease(j) \/ ReportItem(j)
  \/ HubClock \/ Sweep
  \/ HubRestart
  \/ AgentClaim
  \/ AgentStep
  \/ Unanswered
  \/ AgentHeartbeat \/ Deadline
  \/ \E c \in calls : FailureAnswered(c)
  \/ AgentCrash \/ AgentBoot \/ ReportAnswered
  \/ \E m \in late : LateRequest(m)

PSpec == PInit /\ [][PNext]_pvars

\* The hub's clock, sweep and handlers go on; the agent comes back after a
\* crash, every step of a job ends, and not every claim goes unanswered.
PFairSpec ==
  /\ PSpec
  /\ WF_pvars(HubClock) /\ WF_pvars(Sweep)
  /\ WF_pvars(\E c \in calls : FailureAnswered(c))
  /\ WF_pvars(\E j \in Ids : ReportItem(j))
  /\ WF_pvars(AgentBoot) /\ WF_pvars(ReportAnswered)
  /\ WF_pvars(AgentStep) /\ SF_pvars(AgentClaim)

------------------------------------------------------------------------------
(* Properties *)

\* Releases whose container is gone although their journal, left in the drain
\* by an agent that died in fail(), passes for a success (executor.go:211, 724).
CutOff == {relOf[j] : j \in cut}

\* The zero-gap rule: once the hub has had a live release, or a container was
\* swapped out, a container proven healthy is up at all times, through failed
\* deploys, rollbacks with stale specs, lost leases and crashes (Execute()'s
\* comment, executor.go:138).  A release cut off as above serves nothing, and
\* takes nothing away from the others.
Served ==
  swapped # {} \/ (\E r \in Rels \ CutOff : rel[r] \in {"live", "superseded"})
    => \E r \in proven : box[r] = "up"

\* The invariant of the pipeline: typed, and the zero-gap rule.
PipelineInv == PTypeOK /\ Served

\* Every failure report says prevKept: a job the hub records as failed never
\* stopped the previous container, even when its report is rebuilt from the
\* journal after a crash (executor.go:331, 731).
PrevKept == \A j \in swapped : status[j] # "failed"

\* The hub calls a release live only after its container passed its health
\* check on the host.
LiveWasProven == \A r \in Rels : rel[r] \in {"live", "superseded"} => r \in proven

\* The container of the live release is up, unless the agent has swapped it
\* for a release whose outcome the hub has not recorded yet, or the release was
\* cut off: nothing else, no late answer, sweep or crash, makes the hub show a
\* release as live that does not run.
LiveIsUp ==
  \A r \in Rels : rel[r] = "live" =>
    \/ box[r] = "up"
    \/ \E j \in swapped : prev[relOf[j]] = r /\ rel[relOf[j]] = "pending"
    \/ r \in CutOff

\* The hub's release bookkeeping is that of Deploys, whatever the agent does.
KeepsReleases == D!Spec

\* Whatever crashes and requests lost, a queued deploy is executed or given up:
\* it never stays claimed or running under an agent that is gone.
DeployEnds ==
  \A j \in Ids : status[j] = "queued" ~> status[j] \in Outcomes \cup {"unknown"}
==============================================================================
