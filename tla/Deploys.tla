------------------------------- MODULE Deploys -------------------------------
(***************************************************************************)
(* The hub's side of deploys of one app: triggerDeploy() and               *)
(* settleDeployJob() of src/lib/server/deploy/trigger.ts over the release  *)
(* rows of src/lib/server/deploy/store.ts.                                 *)
(*                                                                         *)
(* triggerDeploy() awaits between its database calls, so calls of it       *)
(* interleave with each other, with settlements and with hub restarts; a   *)
(* restart forgets the calls in progress and keeps the rows.  Of a job     *)
(* only what this code can see is kept: whether it exists, is open, or has *)
(* an outcome.  JobQueue.tla says how it gets there and DeployPipeline.tla *)
(* puts the two together.                                                  *)
(*                                                                         *)
(* A release id is a random string drawn once; here they are numbers, in   *)
(* the order drawn.  The key `deploy:<app>:<release>` of a deploy that no  *)
(* webhook asked for is that number too.                                   *)
(***************************************************************************)
EXTENDS Naturals, FiniteSets

CONSTANTS
  Ids,          \* job ids, ascending
  MaxReleases,  \* bound: release ids ever drawn
  Deliveries,   \* webhook delivery ids
  Callers,      \* triggerDeploy() calls that may be in progress together
  NULL,         \* no key
  MaxRestarts   \* bound: hub restarts

ASSUME IdsAssumption == Ids \subseteq Nat \ {0}
ASSUME KeyAssumption == NULL \notin Nat /\ Deliveries \cap (Nat \cup {NULL}) = {}
ASSUME CountAssumption == MaxReleases \in Nat /\ MaxRestarts \in Nat

VARIABLES
  phase,     \* what the jobs table says of a job
  keyOf,     \* jobs.job_key
  relOf,     \* releaseId in the job's frozen spec; 0 for no job
  rel,       \* deploy_releases.status; "none" when there is no row
  prev,      \* prevRelease in the release's frozen spec; 0 when absent
  link,      \* deploy_releases.job_id; 0 is SQL NULL
  triggers,  \* triggerDeploy() calls in progress
  nextRel,   \* the next release id to draw
  settling,  \* jobs for which a handler is about to run settleDeployJob()
  restarts   \* restarts so far

rows == <<phase, keyOf, relOf>>
releases == <<rel, prev, link>>
dvars == <<rows, releases, triggers, nextRel, settling, restarts>>

Rels == 1..MaxReleases
JobKeys == Deliveries \cup Rels
Outcomes == {"succeeded", "failed", "rolled_back"}
Phases == {"fresh", "open", "forgotten"} \cup Outcomes
ReleaseStatuses ==
  {"none", "pending", "live", "superseded", "failed", "rolled_back"}

Steps == {"idle", "check", "create", "enqueue", "link"}
Trigger == [at: Steps, key: JobKeys \cup {NULL}, rel: Rels \cup {0},
            prev: Rels \cup {0}, job: Ids \cup {0}]
NoTrigger == [at |-> "idle", key |-> NULL, rel |-> 0, prev |-> 0, job |-> 0]

TypeOK ==
  /\ phase \in [Ids -> Phases]
  /\ keyOf \in [Ids -> JobKeys \cup {NULL}]
  /\ relOf \in [Ids -> Rels \cup {0}]
  /\ rel \in [Rels -> ReleaseStatuses]
  /\ prev \in [Rels -> Rels \cup {0}]
  /\ link \in [Rels -> Ids \cup {0}]
  /\ triggers \in [Callers -> Trigger]
  /\ nextRel \in 1..(MaxReleases + 1)
  /\ settling \subseteq Ids
  /\ restarts \in 0..MaxRestarts

Init ==
  /\ phase = [j \in Ids |-> "fresh"]
  /\ keyOf = [j \in Ids |-> NULL]
  /\ relOf = [j \in Ids |-> 0]
  /\ rel = [r \in Rels |-> "none"]
  /\ prev = [r \in Rels |-> 0]
  /\ link = [r \in Rels |-> 0]
  /\ triggers = [c \in Callers |-> NoTrigger]
  /\ nextRel = 1
  /\ settling = {}
  /\ restarts = 0

------------------------------------------------------------------------------
(* triggerDeploy() *)

Lives == {r \in Rels : rel[r] = "live"}
LiveRelease == IF Lives = {} THEN 0 ELSE CHOOSE r \in Lives : TRUE

\* The caller draws a release id and freezes its spec with the given prev.
Freeze(c, key, previous) ==
  /\ triggers[c].at = "idle" /\ nextRel \in Rels
  /\ triggers' = [triggers EXCEPT ![c] =
       [at |-> "check", key |-> IF key = NULL THEN nextRel ELSE key,
        rel |-> nextRel, prev |-> previous, job |-> 0]]
  /\ nextRel' = nextRel + 1
  /\ UNCHANGED <<rows, releases, settling, restarts>>

\* buildSpec(): prevRelease is whatever is live now.
BuildSpec(c, key) == Freeze(c, key, LiveRelease)

\* Mutant: a rollback goes on under the target's own release id.
RollbackReusingId(c, target) ==
  /\ rel[target] # "none" /\ triggers[c].at = "idle" /\ nextRel \in Rels
  /\ triggers' = [triggers EXCEPT ![c] = [at |-> "check", key |-> nextRel,
       rel |-> target, prev |-> prev[target], job |-> 0]]
  /\ nextRel' = nextRel + 1
  /\ UNCHANGED <<rows, releases, settling, restarts>>

\* rollbackTo: the frozen spec of the target, prevRelease included.
RollbackSpec(c, target) == rel[target] # "none" /\ Freeze(c, NULL, prev[target])

\* byKey(): a delivery seen before ends the call.
Dedupe(c) ==
  LET t == triggers[c] IN
  /\ t.at = "check"
  /\ triggers' = [triggers EXCEPT ![c] =
       IF \E j \in Ids : keyOf[j] = t.key THEN NoTrigger ELSE [t EXCEPT !.at = "create"]]
  /\ UNCHANGED <<rows, releases, nextRel, settling, restarts>>

CreateRelease(c) ==
  LET t == triggers[c] IN
  /\ t.at = "create"
  /\ rel' = [rel EXCEPT ![t.rel] = "pending"]
  /\ prev' = [prev EXCEPT ![t.rel] = t.prev]
  /\ triggers' = [triggers EXCEPT ![c].at = "enqueue"]
  /\ UNCHANGED <<rows, link, nextRel, settling, restarts>>

\* INSERT OR IGNORE, then the row with that key, inserted or found.
EnqueueJob(c) ==
  LET t == triggers[c] IN
  /\ t.at = "enqueue"
  /\ \E j \in Ids :
       /\ triggers' = [triggers EXCEPT ![c] = [t EXCEPT !.at = "link", !.job = j]]
       /\ \/ /\ keyOf[j] = t.key
             /\ UNCHANGED rows
          \/ /\ \A i \in Ids : keyOf[i] # t.key
             /\ phase[j] = "fresh" /\ \A i \in Ids : phase[i] = "fresh" => j <= i
             /\ phase' = [phase EXCEPT ![j] = "open"]
             /\ keyOf' = [keyOf EXCEPT ![j] = t.key]
             /\ relOf' = [relOf EXCEPT ![j] = t.rel]
  /\ UNCHANGED <<releases, nextRel, settling, restarts>>

LinkJob(c) ==
  LET t == triggers[c] IN
  /\ t.at = "link"
  /\ link' = [link EXCEPT ![t.rel] = t.job]
  /\ triggers' = [triggers EXCEPT ![c] = NoTrigger]
  /\ UNCHANGED <<rows, rel, prev, nextRel, settling, restarts>>

TriggerStep(c) == Dedupe(c) \/ CreateRelease(c) \/ EnqueueJob(c) \/ LinkJob(c)

------------------------------------------------------------------------------
(* Settlement *)

\* Mutant: an outcome may replace an outcome.
FinishAgain(j, outcome) ==
  /\ phase[j] \in {"open"} \cup Outcomes
  /\ phase' = [phase EXCEPT ![j] = outcome]
  /\ settling' = settling \cup {j}
  /\ UNCHANGED <<keyOf, relOf, releases, triggers, nextRel, restarts>>

\* Mutant: the rolled_back action does not settle the release.
FinishSettlingSome(j, outcome) ==
  /\ phase[j] = "open"
  /\ phase' = [phase EXCEPT ![j] = outcome]
  /\ settling' = IF outcome = "rolled_back" THEN settling ELSE settling \cup {j}
  /\ UNCHANGED <<keyOf, relOf, releases, triggers, nextRel, restarts>>

\* A job handler gave the job its outcome and goes on to settle the release.
Finish(j, outcome) ==
  /\ phase[j] = "open"
  /\ phase' = [phase EXCEPT ![j] = outcome]
  /\ settling' = settling \cup {j}
  /\ UNCHANGED <<keyOf, relOf, releases, triggers, nextRel, restarts>>

\* fail() may answer 'failed' although its UPDATE matched nothing: the handler
\* goes on to settle the job as it is.
FalseFinish(j) ==
  /\ phase[j] \in {"open"} \cup Outcomes
  /\ settling' = settling \cup {j}
  /\ UNCHANGED <<rows, releases, triggers, nextRel, restarts>>

\* Mutant: the previous live release is not superseded.
MarkLiveOnly(r) == rel' = [rel EXCEPT ![r] = "live"]

\* markLive(): one transaction.
MarkLive(r) ==
  rel' = [i \in Rels |-> IF i = r THEN "live"
                         ELSE IF rel[i] = "live" THEN "superseded" ELSE rel[i]]

\* markRelease()
MarkRelease(r, s) == rel' = [rel EXCEPT ![r] = s]

\* Mutant: whatever is not a success is copied to the release.
SettleOpenJob(j) ==
  /\ j \in settling
  /\ settling' = settling \ {j}
  /\ \/ phase[j] = "succeeded" /\ MarkLive(relOf[j])
     \/ phase[j] # "succeeded" /\ MarkRelease(relOf[j], phase[j])
  /\ UNCHANGED <<rows, prev, link, triggers, nextRel, restarts>>

\* settleDeployJob(): the job's row as it is now decides.
SettleDeployJob(j) ==
  /\ j \in settling
  /\ settling' = settling \ {j}
  /\ \/ phase[j] = "succeeded" /\ MarkLive(relOf[j])
     \/ phase[j] \in {"failed", "rolled_back"} /\ MarkRelease(relOf[j], phase[j])
     \/ phase[j] \notin Outcomes /\ UNCHANGED rel
  /\ UNCHANGED <<rows, prev, link, triggers, nextRel, restarts>>

\* prune(): days later, so never while the job's handler still runs.
Forget(j) ==
  /\ phase[j] \in Outcomes /\ j \notin settling
  /\ phase' = [phase EXCEPT ![j] = "forgotten"]
  /\ keyOf' = [keyOf EXCEPT ![j] = NULL]
  /\ UNCHANGED <<relOf, releases, triggers, nextRel, settling, restarts>>

\* The hub process stops and starts again.
HubRestart ==
  /\ restarts < MaxRestarts
  /\ restarts' = restarts + 1
  /\ triggers' = [c \in Callers |-> NoTrigger]
  /\ settling' = {}
  /\ UNCHANGED <<rows, releases, nextRel>>

Next ==
  \/ \E c \in Callers, key \in Deliveries \cup {NULL} : BuildSpec(c, key)
  \/ \E c \in Callers, target \in Rels : RollbackSpec(c, target)
  \/ \E c \in Callers : TriggerStep(c)
  \/ \E j \in Ids, outcome \in Outcomes : Finish(j, outcome)
  \/ \E j \in Ids : FalseFinish(j) \/ SettleDeployJob(j) \/ Forget(j)
  \/ HubRestart

Spec == Init /\ [][Next]_dvars

\* A handler that began goes on unless the process stops.
FairSpec ==
  /\ Spec
  /\ \A c \in Callers : WF_dvars(TriggerStep(c))
  /\ \A j \in Ids : WF_dvars(SettleDeployJob(j))

------------------------------------------------------------------------------
(* Properties *)

\* markLive() supersedes "the previous live one atomically" (store.ts:748): an
\* app never has two live releases, whatever order settlements run in.
OneLive == \A r1, r2 \in Lives : r1 = r2

\* A job's release and its row tell the same story, whatever handlers and
\* restarts come between: a release is or was live only if its job succeeded,
\* and is failed or rolled back only if its job is.
ReleaseTellsOutcome ==
  \A j \in Ids : relOf[j] # 0 =>
    LET s == rel[relOf[j]] IN
    /\ s \in {"live", "superseded"} => phase[j] \in {"succeeded", "forgotten"}
    /\ s \in {"failed", "rolled_back"} => phase[j] \in {s, "forgotten"}

\* A release that left 'pending' has a job that decided it.
DecidedByJob ==
  \A r \in Rels : rel[r] \notin {"none", "pending"} => \E j \in Ids : relOf[j] = r

\* The parts that make the three inductive.  Release ids are drawn once: a call
\* in progress owns its id, and until it has enqueued no job names that id.
TriggersOwn ==
  \A c \in Callers : LET t == triggers[c] IN t.at # "idle" =>
    /\ t.rel \in Rels /\ t.rel < nextRel
    /\ \A d \in Callers \ {c} : triggers[d].at # "idle" => triggers[d].rel # t.rel
    /\ t.at # "link" => \A j \in Ids : relOf[j] # t.rel
    /\ t.at = "enqueue" => rel[t.rel] = "pending"

\* A job names one release, drawn before, and no other job names it.
JobsOwn ==
  \A j \in Ids :
    /\ phase[j] = "fresh" <=> relOf[j] = 0
    /\ relOf[j] < nextRel
    /\ \A i \in Ids \ {j} : relOf[i] = relOf[j] => relOf[j] = 0

\* Preserved by every action: who owns a release id, and what its row says.
ReleaseInv ==
  /\ TypeOK
  /\ TriggersOwn /\ JobsOwn
  /\ OneLive /\ ReleaseTellsOutcome /\ DecidedByJob

\* Unless the hub restarts, a deploy whose job has an outcome does not stay
\* pending for ever (routes/ingress/jobs/reconcile/+server.ts:49).
OutcomeReachesRelease ==
  \A j \in Ids :
    phase[j] \in Outcomes ~>
      (restarts > 0 \/ \E r \in Rels : relOf[j] = r /\ rel[r] # "pending")
==============================================================================
