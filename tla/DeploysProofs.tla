---------------------------- MODULE DeploysProofs ----------------------------
(***************************************************************************)
(* Theorems about Deploys, for every number of jobs, releases, calls and   *)
(* restarts: the types, that release ids have one owner, and with it that  *)
(* an app has one live release and each release tells its job's outcome.   *)
(***************************************************************************)
EXTENDS Deploys, TLAPS

USE IdsAssumption, CountAssumption

\* The live release, if any, is a release.
LEMMA LiveReleaseType == LiveRelease \in Rels \cup {0}
BY DEF LiveRelease, Lives

\* No step changes a type.
LEMMA TypeStep == TypeOK /\ [Next]_dvars => TypeOK'
<1> SUFFICES ASSUME TypeOK, [Next]_dvars PROVE TypeOK'
  OBVIOUS
<1> USE DEF TypeOK, rows, releases
<1>1. ASSUME NEW c \in Callers, NEW key \in JobKeys \cup {NULL},
             NEW p \in Rels \cup {0}, Freeze(c, key, p)
      PROVE TypeOK'
  BY <1>1 DEF Freeze, Trigger, Steps, JobKeys, Rels
<1>2. ASSUME NEW c \in Callers, NEW key \in Deliveries \cup {NULL}, BuildSpec(c, key)
      PROVE TypeOK'
  BY <1>1, <1>2, LiveReleaseType DEF BuildSpec, JobKeys
<1>3. ASSUME NEW c \in Callers, NEW r \in Rels, RollbackSpec(c, r) PROVE TypeOK'
  BY <1>1, <1>3 DEF RollbackSpec
<1>4. ASSUME NEW c \in Callers, Dedupe(c) PROVE TypeOK'
  BY <1>4 DEF Dedupe, Trigger, NoTrigger, Steps
<1>5. ASSUME NEW c \in Callers, CreateRelease(c) PROVE TypeOK'
  <2>1. triggers[c] \in Trigger
    OBVIOUS
  <2>2. [triggers[c] EXCEPT !.at = "enqueue"] \in Trigger
    BY <2>1 DEF Trigger, Steps
  <2>3. triggers' = [triggers EXCEPT ![c] = [triggers[c] EXCEPT !.at = "enqueue"]]
    BY <1>5 DEF CreateRelease
  <2>4. triggers' \in [Callers -> Trigger]
    BY <2>2, <2>3
  <2>5. rel' \in [Rels -> ReleaseStatuses]
    BY <1>5 DEF CreateRelease, ReleaseStatuses
  <2>6. triggers[c].prev \in Rels \cup {0}
    BY <2>1 DEF Trigger
  <2>7. prev' \in [Rels -> Rels \cup {0}]
    BY <1>5, <2>6 DEF CreateRelease
  <2>. QED  BY <1>5, <2>4, <2>5, <2>7 DEF CreateRelease
<1>6. ASSUME NEW c \in Callers, EnqueueJob(c) PROVE TypeOK'
  <2>1. PICK j \in Ids :
          /\ triggers' = [triggers EXCEPT ![c] =
               [triggers[c] EXCEPT !.at = "link", !.job = j]]
          /\ \/ UNCHANGED rows
             \/ /\ phase' = [phase EXCEPT ![j] = "open"]
                /\ keyOf' = [keyOf EXCEPT ![j] = triggers[c].key]
                /\ relOf' = [relOf EXCEPT ![j] = triggers[c].rel]
    BY <1>6 DEF EnqueueJob
  <2>2. triggers[c] \in Trigger
    OBVIOUS
  <2>3. [triggers[c] EXCEPT !.at = "link", !.job = j] \in Trigger
    BY <2>2 DEF Trigger, Steps
  <2>4. triggers' \in [Callers -> Trigger]
    BY <2>1, <2>3
  <2>5. triggers[c].key \in JobKeys \cup {NULL} /\ triggers[c].rel \in Rels \cup {0}
    BY <2>2 DEF Trigger
  <2>6. /\ phase' \in [Ids -> Phases] /\ keyOf' \in [Ids -> JobKeys \cup {NULL}]
        /\ relOf' \in [Ids -> Rels \cup {0}]
    BY <2>1, <2>5 DEF Phases
  <2>. QED  BY <1>6, <2>4, <2>6 DEF EnqueueJob
<1>7. ASSUME NEW c \in Callers, LinkJob(c) PROVE TypeOK'
  BY <1>7 DEF LinkJob, Trigger, NoTrigger, Steps
<1>8. ASSUME NEW j \in Ids, NEW outcome \in Outcomes, Finish(j, outcome) PROVE TypeOK'
  BY <1>8 DEF Finish, Phases
<1>9. ASSUME NEW j \in Ids, FalseFinish(j) PROVE TypeOK'
  BY <1>9 DEF FalseFinish
<1>10. ASSUME NEW j \in Ids, SettleDeployJob(j) PROVE TypeOK'
  BY <1>10 DEF SettleDeployJob, MarkLive, MarkRelease, ReleaseStatuses
<1>11. ASSUME NEW j \in Ids, Forget(j) PROVE TypeOK'
  BY <1>11 DEF Forget, Phases
<1>12. CASE HubRestart
  BY <1>12 DEF HubRestart, Trigger, NoTrigger, Steps
<1>13. CASE UNCHANGED dvars
  BY <1>13 DEF dvars
<1>. QED
  BY <1>2, <1>3, <1>4, <1>5, <1>6, <1>7, <1>8, <1>9, <1>10, <1>11, <1>12, <1>13
  DEF Next, TriggerStep

\* Every variable keeps its type.
THEOREM TypeCorrect == Spec => []TypeOK
<1>1. Init => TypeOK
  BY DEF Init, TypeOK, Phases, JobKeys, ReleaseStatuses, Trigger, NoTrigger, Steps, Rels
<1>2. TypeOK /\ [Next]_dvars => TypeOK'
  BY TypeStep
<1>. QED  BY <1>1, <1>2, PTL DEF Spec

------------------------------------------------------------------------------
\* A call that starts takes an id no call and no job has.
LEMMA FreezeOwns ==
  ASSUME TypeOK, TriggersOwn, JobsOwn, NEW c \in Callers,
         NEW key, NEW p, Freeze(c, key, p)
  PROVE  TriggersOwn' /\ JobsOwn'
<1> USE DEF TypeOK, Freeze, rows, releases, Trigger, Rels
<1>1. TriggersOwn'
  BY DEF TriggersOwn, JobsOwn
<1>2. JobsOwn'
  BY DEF JobsOwn
<1>. QED  BY <1>1, <1>2

\* A call that moves on keeps its id to itself; the job it enqueues takes it.
LEMMA TriggerStepOwns ==
  ASSUME TypeOK, TriggersOwn, JobsOwn, NEW c \in Callers, TriggerStep(c)
  PROVE  TriggersOwn' /\ JobsOwn'
<1> USE DEF TypeOK, rows, releases, Trigger, NoTrigger
<1>1. CASE Dedupe(c)
  <2>1. TriggersOwn'
    BY <1>1 DEF Dedupe, TriggersOwn
  <2>2. JobsOwn'
    BY <1>1 DEF Dedupe, JobsOwn
  <2>. QED  BY <2>1, <2>2
<1>2. CASE CreateRelease(c)
  <2>1. TriggersOwn'
    BY <1>2 DEF CreateRelease, TriggersOwn
  <2>2. JobsOwn'
    BY <1>2 DEF CreateRelease, JobsOwn
  <2>. QED  BY <2>1, <2>2
<1>3. CASE EnqueueJob(c)
  <2>1. TriggersOwn'
    BY <1>3 DEF EnqueueJob, TriggersOwn
  <2>2. JobsOwn'
    BY <1>3 DEF EnqueueJob, JobsOwn, TriggersOwn
  <2>. QED  BY <2>1, <2>2
<1>4. CASE LinkJob(c)
  <2>1. TriggersOwn'
    BY <1>4 DEF LinkJob, TriggersOwn
  <2>2. JobsOwn'
    BY <1>4 DEF LinkJob, JobsOwn
  <2>. QED  BY <2>1, <2>2
<1>. QED  BY <1>1, <1>2, <1>3, <1>4 DEF TriggerStep

\* Settling a job leaves the releases of calls in progress alone.
LEMMA SettleOwns ==
  ASSUME TypeOK, TriggersOwn, JobsOwn, NEW j \in Ids, SettleDeployJob(j)
  PROVE  TriggersOwn' /\ JobsOwn'
<1> USE DEF TypeOK, rows, releases, SettleDeployJob
<1>1. TriggersOwn'
  BY DEF TriggersOwn, MarkLive, MarkRelease
<1>2. JobsOwn'
  BY DEF JobsOwn
<1>. QED  BY <1>1, <1>2

\* The steps that touch neither ids nor releases.
LEMMA OtherOwns ==
  ASSUME TypeOK, TriggersOwn, JobsOwn,
         \/ \E j \in Ids, outcome \in Outcomes : Finish(j, outcome)
         \/ \E j \in Ids : FalseFinish(j) \/ Forget(j)
         \/ HubRestart
         \/ UNCHANGED dvars
  PROVE  TriggersOwn' /\ JobsOwn'
<1> USE DEF TypeOK, rows, releases, dvars
<1>1. TriggersOwn'
  BY DEF TriggersOwn, Finish, FalseFinish, Forget, HubRestart, NoTrigger
<1>2. JobsOwn'
  BY DEF JobsOwn, Finish, FalseFinish, Forget, HubRestart, Outcomes
<1>. QED  BY <1>1, <1>2

\* Every step leaves each release id with one owner.
LEMMA OwnStep ==
  ASSUME TypeOK, TriggersOwn, JobsOwn, [Next]_dvars
  PROVE  TriggersOwn' /\ JobsOwn'
BY FreezeOwns, TriggerStepOwns, SettleOwns, OtherOwns DEF Next, BuildSpec, RollbackSpec

------------------------------------------------------------------------------
\* Only a creation, with a fresh id, and a settlement write deploy_releases.status.
LEMMA WhoWritesRel ==
  ASSUME [Next]_dvars
  PROVE  \/ UNCHANGED rel
         \/ \E c \in Callers : CreateRelease(c)
         \/ \E j \in Ids : SettleDeployJob(j)
BY DEF Next, BuildSpec, RollbackSpec, Freeze, TriggerStep, Dedupe, EnqueueJob, LinkJob,
       Finish, FalseFinish, Forget, HubRestart, dvars, releases

\* markLive() supersedes what was live.
LEMMA OneLiveStep ==
  ASSUME TypeOK, OneLive, [Next]_dvars PROVE OneLive'
<1> USE DEF TypeOK, OneLive, Lives
<1>1. CASE UNCHANGED rel
  BY <1>1
<1>2. ASSUME NEW c \in Callers, CreateRelease(c) PROVE OneLive'
  BY <1>2 DEF CreateRelease
<1>3. ASSUME NEW j \in Ids, SettleDeployJob(j) PROVE OneLive'
  BY <1>3 DEF SettleDeployJob, MarkLive, MarkRelease
<1>. QED  BY <1>1, <1>2, <1>3, WhoWritesRel

\* A release that leaves 'pending' does so by the settlement of its own job.
LEMMA DecidedStep ==
  ASSUME TypeOK, JobsOwn, DecidedByJob, [Next]_dvars PROVE DecidedByJob'
<1> USE DEF TypeOK, DecidedByJob, rows
<1>1. \A j \in Ids : relOf[j] # 0 => relOf'[j] = relOf[j]
  <2>1. CASE UNCHANGED relOf
    BY <2>1
  <2>2. ASSUME NEW c \in Callers, EnqueueJob(c)
        PROVE  \A j \in Ids : relOf[j] # 0 => relOf'[j] = relOf[j]
    BY <2>2 DEF EnqueueJob, JobsOwn
  <2>. QED
    BY <2>1, <2>2
    DEF Next, BuildSpec, RollbackSpec, Freeze, TriggerStep, Dedupe, CreateRelease, LinkJob,
        Finish, FalseFinish, SettleDeployJob, Forget, HubRestart, dvars
<1>2. CASE UNCHANGED rel
  BY <1>1, <1>2 DEF Rels
<1>3. ASSUME NEW c \in Callers, CreateRelease(c) PROVE DecidedByJob'
  BY <1>1, <1>3 DEF CreateRelease, Rels
<1>4. ASSUME NEW j \in Ids, SettleDeployJob(j) PROVE DecidedByJob'
  BY <1>1, <1>4 DEF SettleDeployJob, MarkLive, MarkRelease, Rels
<1>. QED  BY <1>2, <1>3, <1>4, WhoWritesRel

\* The release of one job goes on telling that job's outcome.
LEMMA OutcomeStep ==
  ASSUME TypeOK, TriggersOwn, JobsOwn, ReleaseTellsOutcome, [Next]_dvars
  PROVE  ReleaseTellsOutcome'
<1> USE DEF TypeOK, ReleaseTellsOutcome, rows, releases, Rels
<1>1. ASSUME NEW c \in Callers, CreateRelease(c) PROVE ReleaseTellsOutcome'
  BY <1>1 DEF CreateRelease
<1>2. ASSUME NEW c \in Callers, EnqueueJob(c) PROVE ReleaseTellsOutcome'
  BY <1>2 DEF EnqueueJob, TriggersOwn, JobsOwn
<1>3. ASSUME NEW j \in Ids, SettleDeployJob(j) PROVE ReleaseTellsOutcome'
  BY <1>3 DEF SettleDeployJob, MarkLive, MarkRelease, JobsOwn, Outcomes
<1>4. ASSUME NEW j \in Ids, NEW outcome \in Outcomes, Finish(j, outcome)
      PROVE  ReleaseTellsOutcome'
  BY <1>4 DEF Finish
<1>5. ASSUME NEW j \in Ids, Forget(j) PROVE ReleaseTellsOutcome'
  BY <1>5 DEF Forget
<1>6. CASE UNCHANGED <<phase, relOf, rel>>
  BY <1>6
<1>. QED
  BY <1>1, <1>2, <1>3, <1>4, <1>5, <1>6
  DEF Next, BuildSpec, RollbackSpec, Freeze, TriggerStep, Dedupe, LinkJob, FalseFinish,
      HubRestart, dvars

------------------------------------------------------------------------------
\* ReleaseInv holds of an empty table.
LEMMA ReleaseInit == Init => ReleaseInv
<1> SUFFICES ASSUME Init PROVE ReleaseInv
  OBVIOUS
<1>1. TypeOK
  BY DEF Init, TypeOK, Phases, JobKeys, ReleaseStatuses, Trigger, NoTrigger, Steps, Rels
<1>2. TriggersOwn /\ JobsOwn
  BY DEF Init, TriggersOwn, JobsOwn, NoTrigger
<1>3. OneLive /\ ReleaseTellsOutcome /\ DecidedByJob
  BY DEF Init, OneLive, Lives, ReleaseTellsOutcome, DecidedByJob
<1>. QED  BY <1>1, <1>2, <1>3 DEF ReleaseInv

\* Every step preserves ReleaseInv.
LEMMA ReleaseStep == ReleaseInv /\ TypeOK' /\ [Next]_dvars => ReleaseInv'
BY OwnStep, OneLiveStep, DecidedStep, OutcomeStep DEF ReleaseInv

\* ReleaseInv, the inductive invariant of the hub's releases.
THEOREM ReleaseInvariant == Spec => []ReleaseInv
<1>1. Init => ReleaseInv
  BY ReleaseInit
<1>2. ReleaseInv /\ TypeOK' /\ [Next]_dvars => ReleaseInv'
  BY ReleaseStep
<1>. QED  BY <1>1, <1>2, TypeCorrect, PTL DEF Spec

\* An app never has two live releases, in whatever order settlements run.
THEOREM SingleLive == Spec => []OneLive
BY ReleaseInvariant, PTL DEF ReleaseInv

\* The release and the job of a deploy never contradict each other.
THEOREM ReleaseAgreesWithJob == Spec => []ReleaseTellsOutcome
BY ReleaseInvariant, PTL DEF ReleaseInv

\* No release leaves 'pending' without a job of its own.
THEOREM ReleaseDecidedByJob == Spec => []DecidedByJob
BY ReleaseInvariant, PTL DEF ReleaseInv
==============================================================================
