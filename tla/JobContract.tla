----------------------------- MODULE JobContract -----------------------------
(***************************************************************************)
(* What the hub's durable job queue promises about every job, whatever the *)
(* order of requests, sweeps and restarts.  .agents/skills/job-queue names *)
(* these invariants; JobQueue.tla is the mechanism that must implement     *)
(* them.                                                                   *)
(*                                                                         *)
(* The state of one job is a record:                                       *)
(*   phase   where the job stands,                                         *)
(*   grants  how many leases were handed out for it,                       *)
(*   limit   how many may be,                                              *)
(*   live    the leases under which work began and was not given back.     *)
(***************************************************************************)
EXTENDS Naturals

CONSTANTS
  Ids,      \* job ids
  Limits    \* the values max_attempts may take

VARIABLE job

Outcomes == {"succeeded", "failed", "rolled_back"}
Phases == {"fresh", "waiting", "held", "lost", "forgotten"} \cup Outcomes

JobState(phase, grants, limit, live) ==
  [phase |-> phase, grants |-> grants, limit |-> limit, live |-> live]

\* A job waits with its limit fixed; nobody holds it.
Submit(old, new) ==
  /\ old.phase = "fresh"
  /\ new.limit \in Limits
  /\ new = JobState("waiting", old.grants, new.limit, old.live)

\* A lease is granted only when no earlier holder may still be at work.
Grant(old, new) ==
  /\ old.phase = "waiting"
  /\ old.live = {}
  /\ old.grants < old.limit
  /\ new = JobState("held", old.grants + 1, old.limit, old.live)

\* The current holder begins work.
Begin(old, new) ==
  /\ old.phase = "held"
  /\ old.live = {}
  /\ new = JobState("held", old.grants, old.limit, {old.grants})

\* The job goes back for another attempt: its holder reported a failure, or
\* never began.  A job whose holder may still be at work (live stays) does not.
GiveUp(old, new) ==
  /\ old.phase = "held"
  /\ old.grants < old.limit
  /\ new = JobState("waiting", old.grants, old.limit, {})

\* A silent holder that may have worked, or the last one: nobody knows.
Lose(old, new) ==
  /\ old.phase = "held"
  /\ old.live # {} \/ old.grants = old.limit
  /\ new = JobState("lost", old.grants, old.limit, old.live)

\* An outcome comes from the holder, or from a report on a lost job.
Settle(old, new) ==
  /\ old.phase \in {"held", "lost"}
  /\ new.phase \in Outcomes
  /\ new = JobState(new.phase, old.grants, old.limit, old.live)

\* Only a settled job is dropped, and its id is never used again.
Forget(old, new) ==
  /\ old.phase \in Outcomes
  /\ new = JobState("forgotten", old.grants, 0, old.live)

Fresh == JobState("fresh", 0, 0, {})

Advance(old, new) ==
  \/ Submit(old, new) \/ Grant(old, new) \/ Begin(old, new)
  \/ GiveUp(old, new) \/ Lose(old, new)
  \/ Settle(old, new) \/ Forget(old, new)

Init == job = [j \in Ids |-> Fresh]

\* One statement of the queue may move several jobs, each by one step.
Next == \A j \in Ids : job'[j] = job[j] \/ Advance(job[j], job'[j])

Spec == Init /\ [][Next]_job
==============================================================================
