------------------------ MODULE DeployPipelineProofs ------------------------
(***************************************************************************)
(* Theorems about the durable queue and about the deploy pipeline that     *)
(* works on it, which share this module because the second part rests on   *)
(* the lemmas of the first.                                                *)
(*                                                                         *)
(* Part 1: JobQueue (Spec), for every value of its constants: the types,   *)
(* the strengthening that makes NoDoubleExecution inductive, the sweep's   *)
(* treatment of unstarted jobs, the order of the logs, and that every step *)
(* of the queue is a step of JobContract.                                  *)
(*                                                                         *)
(* Part 2: DeployPipeline (PSpec), for any number of jobs, releases,       *)
(* calls, requests the agent gave up on, and crashes.  Each step of the    *)
(* pipeline is a step of the queue and one of the releases' bookkeeping,   *)
(* so the invariants of JobQueue and Deploys hold in it; with them a third *)
(* invariant, of the agent's journal, its containers and what is under     *)
(* way, shows that no deploy leaves the app without a proven container.    *)
(***************************************************************************)
EXTENDS DeployPipeline, TLAPS

------------------------------------------------------------------------------
(* Part 1: the queue.  Types *)

USE DEF Ids

\* The log keeps its type when its tail is cut, and is no longer than MaxLog.
LEMMA KeepTailType ==
  ASSUME NEW s \in Seq(Nat)
  PROVE KeepTail(s) \in Seq(Nat) /\ Len(KeepTail(s)) <= MaxLog
<1>1. CASE Len(s) <= MaxLog
  BY <1>1 DEF KeepTail
<1>2. CASE ~(Len(s) <= MaxLog)
  <2>1. \A i \in (Len(s) - MaxLog + 1)..Len(s) : s[i] \in Nat
    BY <1>2, BoundAssumption
  <2>2. SubSeq(s, Len(s) - MaxLog + 1, Len(s)) \in Seq(Nat)
    BY <1>2, <2>1, BoundAssumption
  <2>3. Len(SubSeq(s, Len(s) - MaxLog + 1, Len(s))) = MaxLog
    BY <1>2, BoundAssumption
  <2>. QED  BY <1>2, <2>2, <2>3, BoundAssumption DEF KeepTail
<1>. QED  BY <1>1, <1>2

\* The columns of an absent row are of the right type.
LEMMA NoAskType == NoAsk \in Ask
BY DEF NoAsk, Ask

\* No step changes a type.
LEMMA TypeStep == TypeOK /\ [Next]_qvars => TypeOK'
<1> SUFFICES ASSUME TypeOK, [Next]_qvars PROVE TypeOK'
  OBVIOUS
<1> USE DEF TypeOK, leaseVars, sweepVars, history
<1>1. ASSUME NEW key \in Keys, NEW kind \in Kinds,
             NEW target \in Agents \cup {NULL}, NEW max \in AttemptLimits,
             NEW delay \in Delays, Enqueue(key, kind, target, max, delay)
      PROVE TypeOK'
  <2>1. [key |-> key, kind |-> kind, target |-> target, max |-> max] \in Ask
    BY LimitAssumption DEF Ask
  <2>2. nextId \in Ids /\ nextId' = nextId + 1
    BY <1>1 DEF Enqueue
  <2>3. nextId' \in 1..(MaxJobs + 1)
    BY <2>2, BoundAssumption
  <2>4. ask' \in [Ids -> Ask]
    BY <1>1, <2>1, <2>2 DEF Enqueue
  <2>5. status' \in [Ids -> Statuses] /\ wait' \in [Ids -> Nat]
    BY <1>1, <2>2, TimeAssumption DEF Enqueue, Statuses
  <2>6. UNCHANGED <<owner, left, attempts, granted, log, calls, sweepVars, history>>
    BY <1>1 DEF Enqueue
  <2>. QED  BY <2>3, <2>4, <2>5, <2>6
<1>2. ASSUME NEW kind \in Kinds, NEW agent \in Agents, Claim(kind, agent)
      PROVE TypeOK'
  <2>1. UNCHANGED <<ask, wait, log, nextId, calls, sweepVars, history>>
    BY <1>2 DEF Claim
  <2>2. /\ status' \in [Ids -> Statuses] /\ owner' \in [Ids -> Nat]
        /\ left' \in [Ids -> Int]
    BY <1>2, TimeAssumption DEF Claim, Ready, Statuses
  <2>3. attempts' \in [Ids -> Nat] /\ granted' \in [Ids -> Nat]
    BY <1>2 DEF Claim, Ready
  <2>. QED  BY <2>1, <2>2, <2>3
<1>3. ASSUME NEW j \in Ids, NEW l \in 1..granted[j], Request(j, l)
      PROVE TypeOK'
  <2>1. CASE Heartbeat(j, l)
    BY <2>1, TimeAssumption DEF Heartbeat
  <2>2. CASE Progress(j, l)
    <3>1. /\ KeepTail(Append(log[j], l)) \in Seq(Nat)
          /\ Len(KeepTail(Append(log[j], l))) <= MaxLog
      <4>1. Append(log[j], l) \in Seq(Nat)
        OBVIOUS
      <4>. QED  BY <4>1, KeepTailType
    <3>2. log' = [log EXCEPT ![j] = KeepTail(Append(log[j], l))]
      BY <2>2 DEF Progress
    <3>3. UNCHANGED <<ask, wait, nextId, calls, leaseVars, sweepVars, history>>
      BY <2>2 DEF Progress
    <3>4. log' \in [Ids -> Seq(Nat)] /\ \A i \in Ids : Len(log'[i]) <= MaxLog
      BY <3>1, <3>2
    <3>. QED  BY <3>3, <3>4
  <2>3. CASE Start(j, l)
    <3>1. /\ status' \in [Ids -> Statuses]
          /\ started' \in [Ids -> SUBSET Nat]
      BY <2>3 DEF Start, Statuses
    <3>2. UNCHANGED <<ask, wait, log, nextId, calls, sweepVars, conceded,
                      owner, attempts, granted>>
      BY <2>3 DEF Start
    <3>3. left' \in [Ids -> Int]
      BY <2>3, TimeAssumption DEF Start
    <3>. QED  BY <3>1, <3>2, <3>3
  <2>4. CASE Succeed(j, l)
    BY <2>4 DEF Succeed, Release, Statuses, Outcomes
  <2>5. CASE \E rolledBack \in BOOLEAN : FailRead(j, l, rolledBack)
    <3>1. PICK rb \in BOOLEAN : FailRead(j, l, rb)
      BY <2>5
    <3>2. (attempts[j] < ask[j].max) \in BOOLEAN
      OBVIOUS
    <3>3. j \in Ids /\ l \in Nat
      OBVIOUS
    <3>4. [job |-> j, lease |-> l, rolledBack |-> rb,
           retry |-> attempts[j] < ask[j].max] \in Call
      BY <3>2, <3>3 DEF Call
    <3>5. calls' \subseteq Call
      BY <3>1, <3>4 DEF FailRead
    <3>. QED  BY <3>1, <3>5 DEF FailRead
  <2>. QED  BY <1>3, <2>1, <2>2, <2>3, <2>4, <2>5 DEF Request
<1>4. ASSUME NEW c \in calls, FailWrite(c) PROVE TypeOK'
  <2>0. c \in Call
    OBVIOUS
  <2>1. c.job \in Ids /\ c.lease \in Nat
    BY <2>0 DEF Call
  <2>2. Answer(c) \in Statuses
    BY DEF Answer, Statuses, Outcomes
  <2>3. conceded' \in [Ids -> SUBSET Nat]
    <3>1. \/ conceded' = conceded
          \/ conceded' = [conceded EXCEPT ![c.job] = @ \cup {c.lease}]
      BY <1>4 DEF FailWrite
    <3>2. conceded[c.job] \cup {c.lease} \in SUBSET Nat
      BY <2>1
    <3>. QED  BY <2>1, <3>1, <3>2
  <2>4. CASE Holds(c.job, c.lease) /\ Release({c.job}, Answer(c))
    BY <1>4, <2>2, <2>3, <2>4 DEF FailWrite, Release
  <2>5. CASE UNCHANGED leaseVars
    BY <1>4, <2>3, <2>5 DEF FailWrite
  <2>. QED  BY <1>4, <2>4, <2>5 DEF FailWrite
<1>5. CASE RecoverRequeue
  BY <1>5, TimeAssumption DEF RecoverRequeue, Release, Statuses
<1>6. CASE RecoverUnknown
  BY <1>6, TimeAssumption DEF RecoverUnknown, Statuses
<1>7. ASSUME NEW j \in Ids, NEW outcome \in Outcomes, Reconcile(j, outcome)
      PROVE TypeOK'
  BY <1>7 DEF Reconcile, Statuses
<1>8. ASSUME NEW pruned \in SUBSET Ids, Prune(pruned) PROVE TypeOK'
  <2>1. log' \in [Ids -> Seq(Nat)] /\ \A j \in Ids : Len(log'[j]) <= MaxLog
    <3>1. <<>> \in Seq(Nat) /\ Len(<<>>) <= MaxLog
      BY BoundAssumption
    <3>2. \A j \in Ids : log'[j] \in {<<>>, log[j]}
      BY <1>8 DEF Prune
    <3>3. log' = [j \in Ids |-> IF j \in pruned THEN <<>> ELSE log[j]]
      BY <1>8 DEF Prune
    <3>. QED  BY <3>1, <3>2, <3>3
  <2>. QED  BY <1>8, <2>1, NoAskType DEF Prune, Statuses
<1>9. CASE Tick
  BY <1>9, TimeAssumption DEF Tick
<1>11. CASE Restart
  BY <1>11, TimeAssumption DEF Restart
<1>10. CASE UNCHANGED qvars
  BY <1>10 DEF qvars
<1>. QED
  BY <1>1, <1>2, <1>3, <1>4, <1>5, <1>6, <1>7, <1>8, <1>9, <1>10,
     <1>11 DEF Next

\* Every variable keeps its type.
THEOREM TypeCorrect == Spec => []TypeOK
<1>1. Init => TypeOK
  BY NoAskType, BoundAssumption, TimeAssumption DEF Init, TypeOK, Statuses
<1>2. TypeOK /\ [Next]_qvars => TypeOK'
  BY TypeStep
<1>. QED  BY <1>1, <1>2, PTL DEF Spec

------------------------------------------------------------------------------
\* What LeaseInv says of one job.
JobInv(j) == OwnerIsNewest(j) /\ WorkersKnown(j) /\ AttemptsCounted(j)

\* A job none of whose columns and tokens a step touches keeps its invariant.
LEMMA UntouchedJob ==
  ASSUME NEW j \in Ids, JobInv(j), nextId' \in Int, nextId \in Int, nextId' >= nextId,
         status'[j] = status[j], owner'[j] = owner[j], attempts'[j] = attempts[j],
         granted'[j] = granted[j], ask'[j] = ask[j],
         started'[j] = started[j], conceded'[j] = conceded[j]
  PROVE  JobInv(j)'
BY DEF JobInv, OwnerIsNewest, WorkersKnown, AttemptsCounted, Held

\* Handing a held job back, or settling it, keeps the invariant of the job.
LEMMA ReleasedJob ==
  ASSUME TypeOK, NEW j \in Ids, JobInv(j), Held(j), NEW s \in Statuses,
         s \notin {"absent", "claimed", "running"},
         s = "queued" => granted[j] < ask[j].max /\ started[j] \subseteq conceded'[j],
         conceded'[j] \in {conceded[j], conceded[j] \cup {granted[j]}},
         status'[j] = s, owner'[j] = 0,
         UNCHANGED <<ask, attempts, granted, started, nextId>>
  PROVE  JobInv(j)'
BY DEF TypeOK, JobInv, OwnerIsNewest, WorkersKnown, AttemptsCounted, Held

\* Every step keeps what LeaseInv says of each job.
LEMMA JobStep ==
  ASSUME TypeOK, TypeOK', [Next]_qvars, CallsCurrent,
         \A i \in Ids : JobInv(i), NEW j \in Ids
  PROVE  JobInv(j)'
<1> USE DEF TypeOK, leaseVars, sweepVars, history
<1>0. JobInv(j)
  OBVIOUS
<1>1. ASSUME NEW key \in Keys, NEW kind \in Kinds,
             NEW target \in Agents \cup {NULL}, NEW max \in AttemptLimits,
             NEW delay \in Delays, Enqueue(key, kind, target, max, delay)
      PROVE JobInv(j)'
  <2>1. CASE j = nextId
    <3>1. /\ granted'[j] = 0 /\ owner'[j] = 0 /\ status'[j] = "queued"
          /\ ask'[j].max = max /\ attempts'[j] = 0
      BY <1>0, <1>1, <2>1
      DEF Enqueue, JobInv, AttemptsCounted, OwnerIsNewest
    <3>2. UNCHANGED <<started, conceded, granted>> /\ nextId' = nextId + 1
      BY <1>1 DEF Enqueue
    <3>3. WorkersKnown(j)'
      BY <1>0, <3>1, <3>2 DEF JobInv, WorkersKnown, Held
    <3>4. OwnerIsNewest(j)' /\ AttemptsCounted(j)'
      BY <2>1, <3>1, <3>2, LimitAssumption DEF OwnerIsNewest, AttemptsCounted, Held
    <3>. QED  BY <3>3, <3>4 DEF JobInv
  <2>2. CASE j # nextId
    BY <1>0, <1>1, <2>2, UntouchedJob DEF Enqueue
  <2>. QED  BY <2>1, <2>2
<1>2. ASSUME NEW kind \in Kinds, NEW agent \in Agents, Claim(kind, agent)
      PROVE JobInv(j)'
  <2>1. PICK i \in Ready(kind, agent) :
          /\ status' = [status EXCEPT ![i] = "claimed"]
          /\ owner' = [owner EXCEPT ![i] = granted[i] + 1]
          /\ attempts' = [attempts EXCEPT ![i] = @ + 1]
          /\ granted' = [granted EXCEPT ![i] = @ + 1]
          /\ UNCHANGED <<ask, nextId, started, conceded>>
    BY <1>2 DEF Claim
  <2>2. CASE j = i
    <3>1. /\ status[j] = "queued" /\ status'[j] = "claimed"
          /\ owner'[j] = granted[j] + 1 /\ granted'[j] = granted[j] + 1
          /\ attempts'[j] = attempts[j] + 1
          /\ UNCHANGED <<ask, nextId, started, conceded>>
      BY <2>1, <2>2 DEF Ready
    <3>2. OwnerIsNewest(j)' /\ AttemptsCounted(j)'
      <4>1. ask[j].max \in Nat /\ granted[j] \in Nat /\ nextId' \in Int
        BY DEF Ask
      <4>2. OwnerIsNewest(j)'
        BY <3>1, <4>1 DEF OwnerIsNewest, Held
      <4>3. AttemptsCounted(j)'
        BY <1>0, <3>1, <4>1 DEF JobInv, AttemptsCounted
      <4>. QED  BY <4>2, <4>3
    <3>3. WorkersKnown(j)'
      <4>1. started[j] \subseteq conceded[j] /\ conceded[j] \subseteq 1..granted[j]
        BY <1>0, <3>1 DEF JobInv, WorkersKnown
      <4>2. /\ granted[j] \in Nat
            /\ granted'[j] \notin conceded[j]
            /\ 1..granted[j] \subseteq 1..granted'[j]
        <5>1. granted[j] \in Nat
          OBVIOUS
        <5>2. granted[j] + 1 \notin 1..granted[j]
          BY <5>1
        <5>3. 1..granted[j] \subseteq 1..(granted[j] + 1)
          BY <5>1
        <5>. QED  BY <3>1, <4>1, <5>1, <5>2, <5>3
      <4>3. started'[j] \cup conceded'[j] \subseteq 1..granted'[j]
        BY <3>1, <4>1, <4>2
      <4>4. started'[j] \ conceded'[j] = {}
        BY <3>1, <4>1
      <4>. QED  BY <3>1, <4>1, <4>2, <4>3, <4>4 DEF WorkersKnown, Held
    <3>. QED  BY <3>2, <3>3 DEF JobInv
  <2>3. CASE j # i
    BY <1>0, <2>1, <2>3, UntouchedJob DEF Ready
  <2>. QED  BY <2>2, <2>3
<1>3. ASSUME NEW i \in Ids, NEW l \in 1..granted[i], Request(i, l)
      PROVE JobInv(j)'
  <2>1. CASE Heartbeat(i, l)
    BY <1>0, <2>1, UntouchedJob DEF Heartbeat
  <2>2. CASE Progress(i, l)
    BY <1>0, <2>2, UntouchedJob DEF Progress
  <2>3. CASE Start(i, l)
    <3>1. CASE j = i
      BY <1>0, <2>3, <3>1
      DEF Start, Holds, Held, JobInv, AttemptsCounted, OwnerIsNewest, WorkersKnown
    <3>2. CASE j # i
      BY <1>0, <2>3, <3>2, UntouchedJob DEF Start
    <3>. QED  BY <3>1, <3>2
  <2>4. CASE Succeed(i, l)
    <3>1. CASE j = i
      BY <1>0, <2>4, <3>1, ReleasedJob DEF Succeed, Release, Holds, Statuses, Outcomes
    <3>2. CASE j # i
      BY <1>0, <2>4, <3>2, UntouchedJob DEF Succeed, Release
    <3>. QED  BY <3>1, <3>2
  <2>5. CASE \E rolledBack \in BOOLEAN : FailRead(i, l, rolledBack)
    BY <1>0, <2>5, UntouchedJob DEF FailRead
  <2>. QED  BY <1>3, <2>1, <2>2, <2>3, <2>4, <2>5 DEF Request
<1>4. ASSUME NEW c \in calls, FailWrite(c) PROVE JobInv(j)'
  <2>1. c.job \in Ids /\ c.lease \in Nat
    <3>1. c \in Call
      OBVIOUS
    <3>. QED  BY <3>1 DEF Call
  <2>2. CASE Holds(c.job, c.lease)
    <3>1. Release({c.job}, Answer(c))
      BY <1>4, <2>2 DEF FailWrite
    <3>2. CASE j = c.job
      <4>1. Answer(c) \in Statuses \ {"absent", "claimed", "running"}
        BY DEF Answer, Statuses, Outcomes
      <4>2. granted[j] = c.lease
        BY <1>0, <2>2, <3>2 DEF JobInv, OwnerIsNewest, Holds
      <4>3. Answer(c) = "queued" => c.retry
        BY DEF Answer
      <4>4. Answer(c) = "queued" => granted[j] < ask[j].max
        BY <2>2, <3>2, <4>3 DEF CallsCurrent, Holds
      <4>5. Answer(c) = "queued" => conceded'[j] = conceded[j] \cup {granted[j]}
        BY <1>4, <2>2, <3>2, <4>2 DEF FailWrite
      <4>6. Answer(c) # "queued" => conceded'[j] = conceded[j]
        BY <1>4, <2>2 DEF FailWrite
      <4>7. started[j] \subseteq conceded[j] \cup {granted[j]}
        BY <1>0 DEF JobInv, WorkersKnown
      <4>8. /\ status'[j] = Answer(c) /\ owner'[j] = 0
            /\ UNCHANGED <<ask, attempts, granted, started, nextId>>
        BY <1>4, <3>1, <3>2 DEF FailWrite, Release
      <4>9. Held(j)
        BY <2>2, <3>2 DEF Holds
      <4>. QED
        BY <1>0, <4>1, <4>4, <4>5, <4>6, <4>7, <4>8, <4>9, ReleasedJob
    <3>3. CASE j # c.job
      <4>1. conceded'[j] = conceded[j]
        BY <1>4, <2>1, <3>3 DEF FailWrite
      <4>. QED  BY <1>0, <1>4, <3>1, <3>3, <4>1, UntouchedJob DEF FailWrite, Release
    <3>. QED  BY <3>2, <3>3
  <2>3. CASE ~Holds(c.job, c.lease)
    BY <1>0, <1>4, <2>3, UntouchedJob DEF FailWrite
  <2>. QED  BY <2>2, <2>3
<1>5. CASE RecoverRequeue
  <2>1. CASE status[j] = "claimed" /\ Stale(j, 0) /\ attempts[j] < ask[j].max
    <3>1. /\ status'[j] = "queued" /\ owner'[j] = 0
          /\ UNCHANGED <<ask, attempts, granted, started, conceded, nextId>>
      BY <1>5, <2>1 DEF RecoverRequeue, Release
    <3>2. granted[j] < ask[j].max /\ started[j] \subseteq conceded[j] /\ Held(j)
      BY <1>0, <2>1 DEF JobInv, AttemptsCounted, WorkersKnown, Held
    <3>. QED  BY <1>0, <3>1, <3>2, ReleasedJob DEF Statuses
  <2>2. CASE ~(status[j] = "claimed" /\ Stale(j, 0) /\ attempts[j] < ask[j].max)
    BY <1>0, <1>5, <2>2, UntouchedJob DEF RecoverRequeue, Release
  <2>. QED  BY <2>1, <2>2
<1>6. CASE RecoverUnknown
  <2>1. CASE Held(j) /\ Stale(j, lag)
    BY <1>0, <1>6, <2>1
    DEF RecoverUnknown, Held, JobInv, AttemptsCounted, OwnerIsNewest, WorkersKnown
  <2>2. CASE ~(Held(j) /\ Stale(j, lag))
    BY <1>0, <1>6, <2>2, UntouchedJob DEF RecoverUnknown
  <2>. QED  BY <2>1, <2>2
<1>7. ASSUME NEW i \in Ids, NEW outcome \in Outcomes, Reconcile(i, outcome)
      PROVE JobInv(j)'
  <2>1. CASE j = i
    BY <1>0, <1>7, <2>1
    DEF Reconcile, Outcomes, Held, JobInv, AttemptsCounted, OwnerIsNewest, WorkersKnown
  <2>2. CASE j # i
    BY <1>0, <1>7, <2>2, UntouchedJob DEF Reconcile
  <2>. QED  BY <2>1, <2>2
<1>8. ASSUME NEW pruned \in SUBSET Ids, Prune(pruned) PROVE JobInv(j)'
  <2>1. CASE j \in pruned
    BY <1>0, <1>8, <2>1
    DEF Prune, NoAsk, Outcomes, Held, JobInv, AttemptsCounted, OwnerIsNewest, WorkersKnown
  <2>2. CASE j \notin pruned
    BY <1>0, <1>8, <2>2, UntouchedJob DEF Prune
  <2>. QED  BY <2>1, <2>2
<1>9. CASE Tick
  BY <1>0, <1>9, UntouchedJob DEF Tick
<1>11. CASE Restart
  BY <1>0, <1>11, UntouchedJob DEF Restart
<1>10. CASE UNCHANGED qvars
  BY <1>0, <1>10, UntouchedJob DEF qvars
<1>. QED
  BY <1>1, <1>2, <1>3, <1>4, <1>5, <1>6, <1>7, <1>8, <1>9, <1>10, <1>11 DEF Next

\* Every step leaves the fail() calls in flight with current knowledge.
LEMMA CallsStep ==
  ASSUME TypeOK, [Next]_qvars, CallsCurrent, \A i \in Ids : JobInv(i)
  PROVE  CallsCurrent'
<1> USE DEF TypeOK, leaseVars, sweepVars, history
<1> SUFFICES ASSUME NEW c \in calls'
             PROVE  /\ c.lease \in 1..granted'[c.job]
                    /\ c.retry /\ owner'[c.job] = c.lease
                         => granted'[c.job] < ask'[c.job].max
  BY DEF CallsCurrent
<1>0. ASSUME c \in calls
      PROVE  /\ c.job \in Ids /\ c.lease \in 1..granted[c.job]
             /\ c.retry /\ owner[c.job] = c.lease => granted[c.job] < ask[c.job].max
  <2>1. c \in Call
    BY <1>0
  <2>. QED  BY <1>0, <2>1 DEF CallsCurrent, Call
<1>a. ASSUME c \in calls, UNCHANGED <<granted, ask>>,
             owner'[c.job] \in {owner[c.job], 0}
      PROVE /\ c.lease \in 1..granted'[c.job]
            /\ c.retry /\ owner'[c.job] = c.lease
                 => granted'[c.job] < ask'[c.job].max
  BY <1>0, <1>a
<1>1. ASSUME NEW key \in Keys, NEW kind \in Kinds,
             NEW target \in Agents \cup {NULL}, NEW max \in AttemptLimits,
             NEW delay \in Delays, Enqueue(key, kind, target, max, delay)
      PROVE /\ c.lease \in 1..granted'[c.job]
            /\ c.retry /\ owner'[c.job] = c.lease
                 => granted'[c.job] < ask'[c.job].max
  <2>1. c \in calls /\ UNCHANGED <<owner, granted>>
    BY <1>1 DEF Enqueue
  <2>2. c.job # nextId
    BY <1>0, <2>1 DEF JobInv, AttemptsCounted
  <2>. QED  BY <1>0, <1>1, <2>1, <2>2 DEF Enqueue
<1>2. ASSUME NEW kind \in Kinds, NEW agent \in Agents, Claim(kind, agent)
      PROVE /\ c.lease \in 1..granted'[c.job]
            /\ c.retry /\ owner'[c.job] = c.lease
                 => granted'[c.job] < ask'[c.job].max
  <2>1. PICK i \in Ids : /\ i \in Ready(kind, agent)
                        /\ owner' = [owner EXCEPT ![i] = granted[i] + 1]
                        /\ granted' = [granted EXCEPT ![i] = granted[i] + 1]
    BY <1>2 DEF Claim, Ready
  <2>2. c \in calls /\ UNCHANGED ask
    BY <1>2 DEF Claim
  <2>3. CASE c.job = i
    BY <1>0, <2>1, <2>2, <2>3
  <2>4. CASE c.job # i
    BY <1>0, <2>1, <2>2, <2>4
  <2>. QED  BY <2>3, <2>4
<1>3. ASSUME NEW i \in Ids, NEW l \in 1..granted[i], Request(i, l)
      PROVE /\ c.lease \in 1..granted'[c.job]
            /\ c.retry /\ owner'[c.job] = c.lease
                 => granted'[c.job] < ask'[c.job].max
  <2>1. CASE Heartbeat(i, l) \/ Progress(i, l) \/ Start(i, l) \/ Succeed(i, l)
    <3>1. c \in calls /\ UNCHANGED <<granted, ask>>
      BY <2>1 DEF Heartbeat, Progress, Start, Succeed, Release
    <3>2. owner'[c.job] \in {owner[c.job], 0}
      BY <1>0, <2>1, <3>1 DEF Heartbeat, Progress, Start, Succeed, Release
    <3>. QED  BY <1>a, <3>1, <3>2
  <2>2. CASE \E rolledBack \in BOOLEAN : FailRead(i, l, rolledBack)
    <3>1. UNCHANGED <<owner, granted, ask>>
      BY <2>2 DEF FailRead
    <3>2. CASE c \in calls
      BY <1>0, <3>1, <3>2
    <3>3. CASE c \notin calls
      <4>1. /\ c.job = i /\ c.lease = l /\ c.retry = (attempts[i] < ask[i].max)
            /\ status[i] # "absent"
        BY <2>2, <3>3 DEF FailRead
      <4>. QED  BY <3>1, <4>1 DEF JobInv, AttemptsCounted
    <3>. QED  BY <3>2, <3>3
  <2>. QED  BY <1>3, <2>1, <2>2 DEF Request
<1>4. ASSUME NEW d \in calls, FailWrite(d)
      PROVE /\ c.lease \in 1..granted'[c.job]
            /\ c.retry /\ owner'[c.job] = c.lease
                 => granted'[c.job] < ask'[c.job].max
  <2>1. c \in calls /\ UNCHANGED <<granted, ask>>
    BY <1>4 DEF FailWrite, Release
  <2>2. owner'[c.job] \in {owner[c.job], 0}
    BY <1>0, <1>4, <2>1 DEF FailWrite, Release
  <2>. QED  BY <1>a, <2>1, <2>2
<1>5. CASE RecoverRequeue
  BY <1>0, <1>5 DEF RecoverRequeue, Release
<1>6. CASE RecoverUnknown
  BY <1>0, <1>6 DEF RecoverUnknown
<1>7. ASSUME NEW i \in Ids, NEW outcome \in Outcomes, Reconcile(i, outcome)
      PROVE /\ c.lease \in 1..granted'[c.job]
            /\ c.retry /\ owner'[c.job] = c.lease
                 => granted'[c.job] < ask'[c.job].max
  BY <1>0, <1>7 DEF Reconcile
<1>8. ASSUME NEW pruned \in SUBSET Ids, Prune(pruned)
      PROVE /\ c.lease \in 1..granted'[c.job]
            /\ c.retry /\ owner'[c.job] = c.lease
                 => granted'[c.job] < ask'[c.job].max
  BY <1>0, <1>8 DEF Prune
<1>9. CASE Tick
  BY <1>0, <1>9 DEF Tick
<1>11. CASE Restart
  BY <1>11 DEF Restart
<1>10. CASE UNCHANGED qvars
  BY <1>0, <1>10 DEF qvars
<1>. QED
  BY <1>1, <1>2, <1>3, <1>4, <1>5, <1>6, <1>7, <1>8, <1>9, <1>10, <1>11 DEF Next

\* Every step keeps the sweep's promise: a token drawn or renewed after the
\* clock was read is not stale by that reading, and time only moves both.
LEMMA SweepStep ==
  ASSUME TypeOK, TypeOK', [Next]_qvars, SweepTookAll,
         \A i \in Ids : JobInv(i), sweep' = "mid", NEW j \in Ids,
         status'[j] = "claimed", attempts'[j] < ask'[j].max
  PROVE  ~Stale(j, lag)'
<1> USE DEF TypeOK, leaseVars, sweepVars, history, Stale
<1>1. ASSUME NEW key \in Keys, NEW kind \in Kinds,
             NEW target \in Agents \cup {NULL}, NEW max \in AttemptLimits,
             NEW delay \in Delays, Enqueue(key, kind, target, max, delay)
      PROVE ~Stale(j, lag)'
  BY <1>1 DEF Enqueue, SweepTookAll
<1>2. ASSUME NEW kind \in Kinds, NEW agent \in Agents, Claim(kind, agent)
      PROVE ~Stale(j, lag)'
  BY <1>2, TimeAssumption DEF Claim, Ready, SweepTookAll
<1>3. ASSUME NEW i \in Ids, NEW l \in 1..granted[i], Request(i, l)
      PROVE ~Stale(j, lag)'
  <2>1. CASE Heartbeat(i, l)
    BY <2>1, TimeAssumption DEF Heartbeat, SweepTookAll
  <2>2. CASE Progress(i, l) \/ (\E rolledBack \in BOOLEAN : FailRead(i, l, rolledBack))
    BY <2>2 DEF Progress, FailRead, SweepTookAll
  <2>3. CASE Start(i, l)
    BY <2>3 DEF Start, SweepTookAll
  <2>4. CASE Succeed(i, l)
    BY <2>4 DEF Succeed, Release, SweepTookAll
  <2>. QED  BY <1>3, <2>1, <2>2, <2>3, <2>4 DEF Request
<1>4. ASSUME NEW c \in calls, FailWrite(c) PROVE ~Stale(j, lag)'
  <2>1. CASE Release({c.job}, Answer(c))
    <3>1. Answer(c) # "claimed"
      BY DEF Answer
    <3>2. UNCHANGED <<lag, sweep, ask, attempts>>
      BY <1>4, <2>1 DEF FailWrite, Release
    <3>3. status[j] = "claimed" /\ left'[j] = left[j]
      BY <2>1, <3>1 DEF Release
    <3>. QED  BY <3>2, <3>3 DEF SweepTookAll
  <2>2. CASE UNCHANGED leaseVars
    BY <1>4, <2>2 DEF FailWrite, SweepTookAll
  <2>. QED  BY <1>4, <2>1, <2>2 DEF FailWrite
<1>5. CASE RecoverRequeue
  BY <1>5 DEF RecoverRequeue, Release
<1>6. CASE RecoverUnknown
  BY <1>6 DEF RecoverUnknown
<1>7. ASSUME NEW i \in Ids, NEW outcome \in Outcomes, Reconcile(i, outcome)
      PROVE ~Stale(j, lag)'
  BY <1>7 DEF Reconcile, Outcomes, SweepTookAll
<1>8. ASSUME NEW pruned \in SUBSET Ids, Prune(pruned) PROVE ~Stale(j, lag)'
  BY <1>8 DEF Prune, SweepTookAll
<1>9. CASE Tick
  <2>1. /\ sweep = "mid" /\ status[j] = "claimed" /\ attempts[j] < ask[j].max
        /\ lag' = lag + 1
    BY <1>9 DEF Tick
  <2>2. ~Stale(j, lag)
    BY <2>1 DEF SweepTookAll
  <2>3. left'[j] >= left[j] - 1
    BY <1>9 DEF Tick
  <2>4. left[j] \in Int /\ left'[j] \in Int /\ lag \in Int
    BY TimeAssumption
  <2>. QED  BY <2>1, <2>2, <2>3, <2>4
<1>11. CASE Restart
  BY <1>11 DEF Restart
<1>10. CASE UNCHANGED qvars
  BY <1>10 DEF qvars, SweepTookAll
<1>. QED
  BY <1>1, <1>2, <1>3, <1>4, <1>5, <1>6, <1>7, <1>8, <1>9, <1>10, <1>11 DEF Next

\* Every step preserves LeaseInv.
LEMMA LeaseStep == LeaseInv /\ TypeOK' /\ [Next]_qvars => LeaseInv'
<1> SUFFICES ASSUME LeaseInv, TypeOK', [Next]_qvars PROVE LeaseInv'
  OBVIOUS
<1>1. TypeOK /\ CallsCurrent /\ SweepTookAll /\ \A j \in Ids : JobInv(j)
  BY DEF LeaseInv, JobInv
<1>2. \A j \in Ids : JobInv(j)'
  BY <1>1, JobStep
<1>3. CallsCurrent'
  BY <1>1, CallsStep
<1>4. SweepTookAll'
  BY <1>1, SweepStep DEF SweepTookAll
<1>. QED  BY <1>2, <1>3, <1>4 DEF LeaseInv, JobInv

\* LeaseInv holds of an empty table.
LEMMA LeaseInit == Init => LeaseInv
<1> SUFFICES ASSUME Init PROVE LeaseInv
  OBVIOUS
<1>1. TypeOK
  BY NoAskType, BoundAssumption, TimeAssumption DEF Init, TypeOK, Statuses
<1>2. \A j \in Ids : JobInv(j)
  BY DEF Init, NoAsk, JobInv, OwnerIsNewest, WorkersKnown, AttemptsCounted, Held
<1>3. CallsCurrent /\ SweepTookAll
  BY DEF Init, CallsCurrent, SweepTookAll
<1>. QED  BY <1>1, <1>2, <1>3 DEF LeaseInv, JobInv

\* LeaseInv, the inductive invariant of the queue, holds in every state.
THEOREM LeaseInvariant == Spec => []LeaseInv
<1>1. Init => LeaseInv
  BY LeaseInit
<1>2. LeaseInv /\ TypeOK' /\ [Next]_qvars => LeaseInv'
  BY LeaseStep
<1>. QED  BY <1>1, <1>2, TypeCorrect, PTL DEF Spec

\* No two tokens of a job are both at work: recover() and fail() never hand
\* out a job whose holder may still be executing it.
THEOREM SingleExecution == Spec => []NoDoubleExecution
<1>1. LeaseInv => NoDoubleExecution
  <2> SUFFICES ASSUME LeaseInv, NEW j \in Ids,
                      NEW l1 \in started[j] \ conceded[j],
                      NEW l2 \in started[j] \ conceded[j]
               PROVE  l1 = l2
    BY DEF NoDoubleExecution
  <2>1. started[j] \ conceded[j] \subseteq {granted[j]}
    BY DEF LeaseInv, WorkersKnown
  <2>. QED  BY <2>1
<1>. QED  BY <1>1, LeaseInvariant, PTL

\* The sweep never gives up an unstarted job that has attempts left, however
\* claims, heartbeats and clock ticks fall between its two UPDATEs.
THEOREM UnstartedRetried == Spec => UnstartedIsRetried
<1>1. LeaseInv /\ [Next]_qvars => [RetryStep]_qvars
  <2> SUFFICES ASSUME LeaseInv, Next, NEW j \in Ids, status[j] = "claimed",
                      attempts[j] < ask[j].max
               PROVE  status'[j] # "unknown"
    BY DEF RetryStep
  <2> USE DEF LeaseInv, TypeOK
  <2>1. CASE RecoverUnknown
    BY <2>1 DEF RecoverUnknown, SweepTookAll
  <2>2. CASE \E c \in calls : FailWrite(c)
    <3>1. PICK c \in calls : FailWrite(c)
      BY <2>2
    <3>2. Answer(c) # "unknown"
      BY DEF Answer
    <3>3. Release({c.job}, Answer(c)) \/ status' = status
      BY <3>1 DEF FailWrite, leaseVars
    <3>. QED  BY <3>2, <3>3 DEF Release
  <2>3. CASE ~RecoverUnknown /\ ~(\E c \in calls : FailWrite(c))
    BY <2>3 DEF Next, Enqueue, Claim, Ready, Request, Heartbeat, Progress,
                Start, Succeed, FailRead, RecoverRequeue, Reconcile, Prune,
                Tick, Restart, Release, Outcomes, leaseVars
  <2>. QED  BY <2>1, <2>2, <2>3
<1>. QED  BY <1>1, LeaseInvariant, PTL DEF Spec, UnstartedIsRetried

------------------------------------------------------------------------------
(* The order of the log *)

\* A log is in attempt order and no chunk is of a token not yet handed out.
LogInv ==
  /\ LogInAttemptOrder
  /\ \A j \in Ids : \A m \in DOMAIN log[j] : log[j][m] <= granted[j]

\* The newest token may write behind an ordered log, and the tail of an
\* ordered log is ordered.
LEMMA AppendedInOrder ==
  ASSUME NEW s \in Seq(Nat), NEW top \in Nat,
         \A m, n \in DOMAIN s : m < n => s[m] <= s[n],
         \A m \in DOMAIN s : s[m] <= top
  PROVE  LET t == KeepTail(Append(s, top)) IN
         /\ \A m, n \in DOMAIN t : m < n => t[m] <= t[n]
         /\ \A m \in DOMAIN t : t[m] <= top
<1> DEFINE all == Append(s, top)
<1>1. /\ all \in Seq(Nat) /\ Len(all) = Len(s) + 1 /\ Len(s) \in Nat
      /\ DOMAIN all = 1..Len(all) /\ DOMAIN s = 1..Len(s)
      /\ \A i \in 1..Len(s) : all[i] = s[i]
      /\ all[Len(s) + 1] = top
  OBVIOUS
<1> HIDE DEF all
<1>2. \A m \in DOMAIN all : all[m] <= top
  BY <1>1
<1>3. ASSUME NEW m \in DOMAIN all, NEW n \in DOMAIN all, m < n PROVE all[m] <= all[n]
  <2>1. CASE n = Len(all)
    BY <1>1, <1>2, <2>1
  <2>2. CASE n # Len(all)
    <3>1. m \in DOMAIN s /\ n \in DOMAIN s
      BY <1>1, <1>3, <2>2
    <3>. QED  BY <1>1, <1>3, <3>1
  <2>. QED  BY <2>1, <2>2
<1>4. CASE Len(all) <= MaxLog
  BY <1>2, <1>3, <1>4 DEF KeepTail, all
<1>5. CASE ~(Len(all) <= MaxLog)
  <2> DEFINE t == SubSeq(all, Len(all) - MaxLog + 1, Len(all))
  <2>1. /\ DOMAIN t = 1..MaxLog
        /\ \A i \in 1..MaxLog : t[i] = all[i + (Len(all) - MaxLog)]
    BY <1>1, <1>5, BoundAssumption
  <2>2. KeepTail(all) = t
    BY <1>5 DEF KeepTail
  <2> HIDE DEF t
  <2>3. \A i \in 1..MaxLog : i + (Len(all) - MaxLog) \in DOMAIN all
    BY <1>1, <1>5, BoundAssumption
  <2>4. \A m \in DOMAIN t : t[m] <= top
    BY <1>2, <2>1, <2>3
  <2>5. ASSUME NEW m \in DOMAIN t, NEW n \in DOMAIN t, m < n PROVE t[m] <= t[n]
    <3>1. m \in 1..MaxLog /\ n \in 1..MaxLog
      BY <2>1
    <3>2. m + (Len(all) - MaxLog) \in DOMAIN all /\ n + (Len(all) - MaxLog) \in DOMAIN all
      BY <2>3, <3>1
    <3>3. m + (Len(all) - MaxLog) < n + (Len(all) - MaxLog)
      BY <1>1, <2>5, <3>1, BoundAssumption
    <3>. QED  BY <1>3, <2>1, <3>1, <3>2, <3>3
  <2>. QED  BY <2>2, <2>4, <2>5 DEF all
<1>. QED  BY <1>4, <1>5

LEMMA LogStep ==
  ASSUME LeaseInv, TypeOK', LogInv, [Next]_qvars PROVE LogInv'
<1> USE DEF leaseVars, sweepVars, history
<1>1. SUFFICES ASSUME NEW j \in Ids
               PROVE  /\ \A m, n \in DOMAIN log'[j] : m < n => log'[j][m] <= log'[j][n]
                      /\ \A m \in DOMAIN log'[j] : log'[j][m] <= granted'[j]
  BY DEF LogInv, LogInAttemptOrder
<1>2. /\ log[j] \in Seq(Nat) /\ granted[j] \in Nat /\ granted'[j] \in Nat
      /\ log \in [Ids -> Seq(Nat)]
  BY DEF LeaseInv, TypeOK
<1>3. /\ \A m, n \in DOMAIN log[j] : m < n => log[j][m] <= log[j][n]
      /\ \A m \in DOMAIN log[j] : log[j][m] <= granted[j]
  BY DEF LogInv, LogInAttemptOrder
<1>4. CASE log'[j] = log[j] /\ granted[j] <= granted'[j]
  <2>1. \A m \in DOMAIN log[j] : log[j][m] \in Nat
    BY <1>2
  <2>. QED  BY <1>2, <1>3, <1>4, <2>1
<1>5. ASSUME NEW i \in Ids, NEW l \in 1..granted[i], Progress(i, l)
      PROVE  /\ \A m, n \in DOMAIN log'[j] : m < n => log'[j][m] <= log'[j][n]
             /\ \A m \in DOMAIN log'[j] : log'[j][m] <= granted'[j]
  <2>1. CASE i = j
    <3>1. l = granted[j]
      BY <1>5, <2>1 DEF Progress, Holds, LeaseInv, OwnerIsNewest
    <3>2. log'[j] = KeepTail(Append(log[j], granted[j])) /\ granted'[j] = granted[j]
      BY <1>2, <1>5, <2>1, <3>1 DEF Progress
    <3>. QED  BY <1>2, <1>3, <3>2, AppendedInOrder
  <2>2. CASE i # j
    BY <1>2, <1>4, <1>5, <2>2 DEF Progress
  <2>. QED  BY <2>1, <2>2
<1>6. ASSUME NEW pruned \in SUBSET Ids, Prune(pruned), j \in pruned
      PROVE  /\ \A m, n \in DOMAIN log'[j] : m < n => log'[j][m] <= log'[j][n]
             /\ \A m \in DOMAIN log'[j] : log'[j][m] <= granted'[j]
  BY <1>6 DEF Prune
<1>7. CASE UNCHANGED log
  <2>1. granted[j] <= granted'[j]
    <3>1. CASE UNCHANGED granted
      BY <1>2, <3>1
    <3>2. ASSUME NEW kind \in Kinds, NEW agent \in Agents, Claim(kind, agent)
          PROVE  granted[j] <= granted'[j]
      <4>1. PICK i \in Ids : granted' = [granted EXCEPT ![i] = @ + 1]
        BY <3>2 DEF Claim, Ready
      <4>. QED  BY <1>2, <4>1 DEF LeaseInv, TypeOK
    <3>. QED
      BY <3>1, <3>2
      DEF Next, Enqueue, Request, Heartbeat, Progress, Start, Succeed, FailRead, FailWrite,
          RecoverRequeue, RecoverUnknown, Reconcile, Prune, Restart, Tick, Release, qvars
  <2>. QED  BY <1>4, <1>7, <2>1
<1>8. ASSUME NEW pruned \in SUBSET Ids, Prune(pruned), j \notin pruned
      PROVE  /\ \A m, n \in DOMAIN log'[j] : m < n => log'[j][m] <= log'[j][n]
             /\ \A m \in DOMAIN log'[j] : log'[j][m] <= granted'[j]
  BY <1>2, <1>4, <1>8 DEF Prune
<1>. QED
  BY <1>5, <1>6, <1>7, <1>8
  DEF Next, Enqueue, Claim, Request, Heartbeat, Start, Succeed, FailRead, FailWrite,
      RecoverRequeue, RecoverUnknown, Reconcile, Restart, Tick, Release, qvars

\* No chunk of an earlier holder lands behind one of a later attempt, however
\* late its progress() call comes.
THEOREM LogInOrder == Spec => []LogInAttemptOrder
<1>1. Init => LogInv
  BY DEF Init, LogInv, LogInAttemptOrder
<1>2. LeaseInv /\ TypeOK' /\ LogInv /\ [Next]_qvars => LogInv'
  BY LogStep
<1>3. LogInv => LogInAttemptOrder
  BY DEF LogInv
<1>. QED  BY <1>1, <1>2, <1>3, LeaseInvariant, TypeCorrect, PTL DEF Spec

------------------------------------------------------------------------------
(* The queue implements JobContract. *)

View(j) == [phase |-> PhaseOf(j), grants |-> granted[j],
            limit |-> ask[j].max, live |-> started[j] \ conceded[j]]

\* A job whose columns and tokens do not change takes no step of the contract.
LEMMA ViewUnchanged ==
  ASSUME NEW j \in Ids, (j < nextId') <=> (j < nextId),
         status'[j] = status[j], granted'[j] = granted[j], ask'[j] = ask[j],
         started'[j] = started[j], conceded'[j] = conceded[j]
  PROVE  View(j)' = View(j)
BY DEF View, PhaseOf, Held

\* A job that leaves its holder's hands takes a step of the contract: back to
\* the queue (given up or lapsed), or to an outcome.
LEMMA ViewReleased ==
  ASSUME TypeOK, NEW j \in Ids, JobInv(j), Held(j),
         NEW s \in Outcomes \cup {"queued"}, status'[j] = s,
         UNCHANGED <<ask, granted, started, nextId>>,
         IF s = "queued"
         THEN granted[j] < ask[j].max /\ started[j] \ conceded'[j] = {}
         ELSE conceded'[j] = conceded[j]
  PROVE  Contract!Advance(View(j), View(j)')
<1>1. PhaseOf(j) = "held"
  BY DEF PhaseOf, Held
<1>2. PhaseOf(j)' = IF s = "queued" THEN "waiting" ELSE s
  BY DEF PhaseOf, Held, Outcomes
<1>3. CASE s = "queued"
  <2>1. Contract!GiveUp(View(j), View(j)')
    BY <1>1, <1>2, <1>3 DEF View, Contract!JobState, Contract!GiveUp
  <2>. QED  BY <2>1 DEF Contract!Advance
<1>4. CASE s # "queued"
  <2>1. Contract!Settle(View(j), View(j)')
    BY <1>1, <1>2, <1>4 DEF View, Contract!JobState, Contract!Settle, Contract!Outcomes, Outcomes
  <2>. QED  BY <2>1 DEF Contract!Advance
<1>. QED  BY <1>3, <1>4

\* Job by job, a step of the queue is a step of the contract or none.
LEMMA ContractStep ==
  ASSUME LeaseInv, TypeOK', [Next]_qvars, NEW j \in Ids
  PROVE  View(j)' = View(j) \/ Contract!Advance(View(j), View(j)')
<1> USE DEF TypeOK, leaseVars, sweepVars, history
<1>0. TypeOK /\ CallsCurrent /\ SweepTookAll /\ JobInv(j)
  BY DEF LeaseInv, JobInv
<1>1. ASSUME NEW key \in Keys, NEW kind \in Kinds,
             NEW target \in Agents \cup {NULL}, NEW max \in AttemptLimits,
             NEW delay \in Delays, Enqueue(key, kind, target, max, delay)
      PROVE View(j)' = View(j) \/ Contract!Advance(View(j), View(j)')
  <2>1. CASE j = nextId
    <3>1. /\ PhaseOf(j) = "fresh" /\ PhaseOf(j)' = "waiting"
          /\ ask'[j].max = max /\ UNCHANGED <<granted, started, conceded>>
      BY <1>0, <1>1, <2>1 DEF Enqueue, PhaseOf, JobInv, AttemptsCounted, Held
    <3>2. Contract!Submit(View(j), View(j)')
      BY <3>1 DEF View, Contract!JobState, Contract!Submit
    <3>. QED  BY <3>2 DEF Contract!Advance
  <2>2. CASE j # nextId
    <3>1. (j < nextId') <=> (j < nextId)
      BY <1>0, <1>1, <2>2 DEF Enqueue
    <3>2. /\ status'[j] = status[j] /\ ask'[j] = ask[j]
          /\ UNCHANGED <<granted, started, conceded>>
      BY <1>1, <2>2 DEF Enqueue
    <3>. QED  BY <3>1, <3>2, ViewUnchanged
  <2>. QED  BY <2>1, <2>2
<1>2. ASSUME NEW kind \in Kinds, NEW agent \in Agents, Claim(kind, agent)
      PROVE View(j)' = View(j) \/ Contract!Advance(View(j), View(j)')
  <2>1. PICK i \in Ready(kind, agent) :
          /\ status' = [status EXCEPT ![i] = "claimed"]
          /\ granted' = [granted EXCEPT ![i] = @ + 1]
          /\ UNCHANGED <<ask, nextId, started, conceded>>
    BY <1>2 DEF Claim
  <2>2. CASE j = i
    <3>1. /\ PhaseOf(j) = "waiting" /\ PhaseOf(j)' = "held"
          /\ granted'[j] = granted[j] + 1
          /\ UNCHANGED <<ask, started, conceded>>
      BY <2>1, <2>2 DEF Ready, PhaseOf, Held
    <3>2. granted[j] < ask[j].max /\ started[j] \ conceded[j] = {}
      BY <1>0, <2>1, <2>2 DEF Ready, JobInv, AttemptsCounted, WorkersKnown
    <3>3. Contract!Grant(View(j), View(j)')
      BY <3>1, <3>2 DEF View, Contract!JobState, Contract!Grant
    <3>. QED  BY <3>3 DEF Contract!Advance
  <2>3. CASE j # i
    BY <2>1, <2>3, ViewUnchanged DEF Ready
  <2>. QED  BY <2>2, <2>3
<1>3. ASSUME NEW i \in Ids, NEW l \in 1..granted[i], Request(i, l)
      PROVE View(j)' = View(j) \/ Contract!Advance(View(j), View(j)')
  <2>1. CASE Heartbeat(i, l)
    BY <2>1, ViewUnchanged DEF Heartbeat
  <2>2. CASE Progress(i, l)
    BY <2>2, ViewUnchanged DEF Progress
  <2>3. CASE Start(i, l)
    <3>1. CASE j = i
      <4>1. PhaseOf(j) = "held" /\ PhaseOf(j)' = "held"
        BY <2>3, <3>1 DEF Start, PhaseOf, Held
      <4>2. started[j] \ conceded[j] = {} /\ l = granted[j] /\ l \notin conceded[j]
        BY <1>0, <2>3, <3>1
        DEF Start, Holds, Held, JobInv, OwnerIsNewest, WorkersKnown
      <4>3. UNCHANGED <<ask, granted, conceded>> /\ started'[j] = started[j] \cup {l}
        BY <2>3, <3>1 DEF Start
      <4>4. started'[j] \ conceded'[j] = {granted[j]}
        BY <4>2, <4>3
      <4>5. Contract!Begin(View(j), View(j)')
        BY <4>1, <4>2, <4>3, <4>4 DEF View, Contract!JobState, Contract!Begin
      <4>. QED  BY <4>5 DEF Contract!Advance
    <3>2. CASE j # i
      BY <2>3, <3>2, ViewUnchanged DEF Start
    <3>. QED  BY <3>1, <3>2
  <2>4. CASE Succeed(i, l)
    <3>1. CASE j = i
      BY <1>0, <2>4, <3>1, ViewReleased DEF Succeed, Release, Holds, Outcomes
    <3>2. CASE j # i
      BY <2>4, <3>2, ViewUnchanged DEF Succeed, Release
    <3>. QED  BY <3>1, <3>2
  <2>5. CASE \E rolledBack \in BOOLEAN : FailRead(i, l, rolledBack)
    BY <2>5, ViewUnchanged DEF FailRead
  <2>. QED  BY <1>3, <2>1, <2>2, <2>3, <2>4, <2>5 DEF Request
<1>4. ASSUME NEW c \in calls, FailWrite(c)
      PROVE View(j)' = View(j) \/ Contract!Advance(View(j), View(j)')
  <2>1. c.job \in Ids /\ c.lease \in Nat
    <3>1. c \in Call
      BY <1>0
    <3>. QED  BY <3>1 DEF Call
  <2>2. CASE Holds(c.job, c.lease) /\ j = c.job
    <3>1. Answer(c) \in Outcomes \cup {"queued"} /\ (Answer(c) = "queued" => c.retry)
      BY DEF Answer, Outcomes
    <3>2. granted[j] = c.lease /\ Held(j)
      BY <1>0, <2>2 DEF JobInv, OwnerIsNewest, Holds
    <3>3. /\ status'[j] = Answer(c)
          /\ UNCHANGED <<ask, granted, started, nextId>>
      BY <1>4, <2>2 DEF FailWrite, Release
    <3>4. CASE Answer(c) = "queued"
      <4>1. granted[j] < ask[j].max
        BY <1>0, <2>2, <3>1, <3>4 DEF CallsCurrent, Holds
      <4>2. conceded'[j] = conceded[j] \cup {granted[j]}
        BY <1>4, <2>2, <3>2, <3>4 DEF FailWrite
      <4>3. started[j] \ conceded'[j] = {}
        BY <1>0, <4>2 DEF JobInv, WorkersKnown
      <4>. QED  BY <1>0, <3>1, <3>2, <3>3, <3>4, <4>1, <4>3, ViewReleased
    <3>5. CASE Answer(c) # "queued"
      <4>1. conceded'[j] = conceded[j]
        BY <1>4, <2>2, <3>5 DEF FailWrite
      <4>. QED  BY <1>0, <3>1, <3>2, <3>3, <3>5, <4>1, ViewReleased
    <3>. QED  BY <3>4, <3>5
  <2>3. CASE ~(Holds(c.job, c.lease) /\ j = c.job)
    <3>1. conceded'[j] = conceded[j] /\ status'[j] = status[j]
      BY <1>4, <2>1, <2>3 DEF FailWrite, Release
    <3>. QED  BY <1>4, <3>1, ViewUnchanged DEF FailWrite, Release
  <2>. QED  BY <2>2, <2>3
<1>5. CASE RecoverRequeue
  <2>1. CASE status[j] = "claimed" /\ Stale(j, 0) /\ attempts[j] < ask[j].max
    <3>1. /\ status'[j] = "queued"
          /\ UNCHANGED <<ask, granted, started, conceded, nextId>>
      BY <1>5, <2>1 DEF RecoverRequeue, Release
    <3>2. Held(j) /\ granted[j] < ask[j].max /\ started[j] \ conceded[j] = {}
      BY <1>0, <2>1 DEF JobInv, AttemptsCounted, WorkersKnown, Held
    <3>. QED  BY <1>0, <3>1, <3>2, ViewReleased
  <2>2. CASE ~(status[j] = "claimed" /\ Stale(j, 0) /\ attempts[j] < ask[j].max)
    BY <1>5, <2>2, ViewUnchanged DEF RecoverRequeue, Release
  <2>. QED  BY <2>1, <2>2
<1>6. CASE RecoverUnknown
  <2>1. CASE Held(j) /\ Stale(j, lag)
    <3>1. /\ PhaseOf(j) = "held" /\ PhaseOf(j)' = "lost"
          /\ UNCHANGED <<ask, granted, started, conceded>>
      BY <1>6, <2>1 DEF RecoverUnknown, PhaseOf, Held
    <3>2. ask[j].max \in Nat
      BY <1>0 DEF Ask
    <3>3. CASE status[j] = "running"
      <4>1. started[j] \ conceded[j] # {}
        BY <1>0, <3>3 DEF JobInv, WorkersKnown, Held
      <4>2. Contract!Lose(View(j), View(j)')
        BY <3>1, <4>1 DEF View, Contract!JobState, Contract!Lose
      <4>. QED  BY <4>2 DEF Contract!Advance
    <3>4. CASE status[j] = "claimed"
      <4>1. ~(attempts[j] < ask[j].max)
        BY <1>0, <1>6, <2>1, <3>4 DEF RecoverUnknown, SweepTookAll
      <4>2. granted[j] = ask[j].max
        <5>1. attempts[j] = granted[j] /\ granted[j] <= ask[j].max
          BY <1>0, <3>4 DEF JobInv, AttemptsCounted
        <5>2. granted[j] \in Nat
          BY <1>0
        <5>. QED  BY <3>2, <4>1, <5>1, <5>2
      <4>3. Contract!Lose(View(j), View(j)')
        BY <3>1, <4>2 DEF View, Contract!JobState, Contract!Lose
      <4>. QED  BY <4>3 DEF Contract!Advance
    <3>. QED  BY <2>1, <3>3, <3>4 DEF Held
  <2>2. CASE ~(Held(j) /\ Stale(j, lag))
    BY <1>6, <2>2, ViewUnchanged DEF RecoverUnknown
  <2>. QED  BY <2>1, <2>2
<1>7. ASSUME NEW i \in Ids, NEW outcome \in Outcomes, Reconcile(i, outcome)
      PROVE View(j)' = View(j) \/ Contract!Advance(View(j), View(j)')
  <2>1. CASE j = i
    <3>1. /\ PhaseOf(j) = "lost" /\ PhaseOf(j)' = outcome
          /\ UNCHANGED <<ask, granted, started, conceded>>
      BY <1>7, <2>1 DEF Reconcile, PhaseOf, Held, Outcomes
    <3>2. Contract!Settle(View(j), View(j)')
      BY <3>1 DEF View, Contract!JobState, Contract!Settle, Contract!Outcomes, Outcomes
    <3>. QED  BY <3>2 DEF Contract!Advance
  <2>2. CASE j # i
    BY <1>7, <2>2, ViewUnchanged DEF Reconcile
  <2>. QED  BY <2>1, <2>2
<1>8. ASSUME NEW pruned \in SUBSET Ids, Prune(pruned)
      PROVE View(j)' = View(j) \/ Contract!Advance(View(j), View(j)')
  <2>1. CASE j \in pruned
    <3>1. PhaseOf(j) \in Outcomes
      BY <1>8, <2>1 DEF Prune, PhaseOf, Held, Outcomes
    <3>2. /\ PhaseOf(j)' = "forgotten" /\ ask'[j].max = 0
          /\ UNCHANGED <<granted, started, conceded>>
      BY <1>0, <1>8, <2>1
      DEF Prune, PhaseOf, NoAsk, JobInv, AttemptsCounted, Outcomes
    <3>3. Contract!Forget(View(j), View(j)')
      BY <3>1, <3>2 DEF View, Contract!JobState, Contract!Forget, Contract!Outcomes, Outcomes
    <3>. QED  BY <3>3 DEF Contract!Advance
  <2>2. CASE j \notin pruned
    BY <1>8, <2>2, ViewUnchanged DEF Prune
  <2>. QED  BY <2>1, <2>2
<1>9. CASE Tick
  BY <1>9, ViewUnchanged DEF Tick
<1>11. CASE Restart
  BY <1>11, ViewUnchanged DEF Restart
<1>10. CASE UNCHANGED qvars
  BY <1>10, ViewUnchanged DEF qvars
<1>. QED
  BY <1>1, <1>2, <1>3, <1>4, <1>5, <1>6, <1>7, <1>8, <1>9, <1>10, <1>11 DEF Next

\* The queue implements JobContract: whatever the order of requests, sweeps,
\* reports, pruning and restarts, each job only takes steps its contract allows.
THEOREM ImplementsContract == Spec => KeepsContract
<1>1. Init => Contract!Init
  <2> SUFFICES ASSUME Init PROVE Contract!Init
    OBVIOUS
  <2>1. \A j \in Ids : View(j) = Contract!Fresh
    <3> SUFFICES ASSUME NEW j \in Ids PROVE View(j) = Contract!Fresh
      OBVIOUS
    <3>1. /\ PhaseOf(j) = "fresh" /\ granted[j] = 0 /\ ask[j].max = 0
          /\ started[j] \ conceded[j] = {}
      BY DEF Init, NoAsk, PhaseOf
    <3>. QED  BY <3>1 DEF View, Contract!JobState, Contract!Fresh
  <2>. QED  BY <2>1 DEF Contract!Init, ContractView, View
<1>2. LeaseInv /\ TypeOK' /\ [Next]_qvars => [Contract!Next]_ContractView
  <2> SUFFICES ASSUME LeaseInv, TypeOK', [Next]_qvars PROVE Contract!Next
    OBVIOUS
  <2>1. \A j \in Ids : View(j)' = View(j) \/ Contract!Advance(View(j), View(j)')
    BY ContractStep
  <2>2. \A j \in Ids : ContractView[j] = View(j) /\ ContractView'[j] = View(j)'
    BY DEF ContractView, View
  <2>. QED  BY <2>1, <2>2 DEF Contract!Next
<1>. QED
  BY <1>1, <1>2, LeaseInvariant, TypeCorrect, PTL DEF Spec, KeepsContract, Contract!Spec

------------------------------------------------------------------------------
(* Part 2: the pipeline.  The invariant *)

\* A journal at or past the zero-gap point: the swap is reported a success.
Won == {"stopping_prev", "succeed"}

Given(op, j) == \E m \in late : m.op = op /\ m.job = j

\* What can only lead to, or came of, a failed job; and of a successful one.
FailSide(j) ==
  \/ journal[j] \in JournalSteps \ Won
  \/ status[j] = "failed"
  \/ Given("fail", j)
  \/ \E c \in calls : c.job = j
SuccSide(j) ==
  \/ journal[j] \in Won
  \/ status[j] = "succeeded"
  \/ Given("succeed", j)
  \/ j \in swapped

Touched(j) == status[j] \notin {"absent", "queued"}

\* A deploy is tried once, and what its journal, its requests and its row say
\* of the outcome never points both ways.
OneTry ==
  \A j \in Ids :
    /\ status[j] # "absent" => ask[j].max = 1
    /\ j < nextId => status[j] # "absent"
    /\ status[j] # "rolled_back"
    /\ FailSide(j) \/ SuccSide(j) => Touched(j)
    /\ ~(FailSide(j) /\ SuccSide(j))

\* fail() calls in progress are of deploys that failed for good, and the agent
\* is past its own.
CallsFinal ==
  \A c \in calls : ~c.rolledBack /\ ~c.retry /\ (c.job = cur => pc = "answer")

\* Of the job in hand nothing is under way and nothing is decided.
InHand ==
  /\ cur = 0 <=> pc \in {"off", "idle", "report"}
  /\ cur # 0 =>
       /\ tok \in 1..granted[cur]
       /\ status[cur] \in {"claimed", "running", "unknown"}
       /\ \A m \in late : m.job # cur
       /\ pc # "succeed" => cur \notin swapped
       /\ pc \in {"start", "secrets"} => journal[cur] = "none"
       /\ pc = "cleanup" => journal[cur] # "succeed"
       /\ pc = "stop" => journal[cur] = "stopping_prev"
       /\ pc = "answer" => journal[cur] = "failed"
       /\ pc \in JournalSteps => journal[cur] = pc
       /\ pc \in {"healthcheck", "stop"} \cup Won => box[relOf[cur]] = "up"

\* What is under way is of jobs that were claimed, and not the one in hand.
UnderWay ==
  /\ \A m \in late :
       \/ m.op = "claim" /\ m.job = 0
       \/ m.op # "claim" /\ m.job \in Ids /\ m.lease \in 1..granted[m.job] /\ Touched(m.job)
  /\ \A j \in report : j # cur /\ journal[j] # "none"

\* A job that died in fail() after the journal had passed the zero-gap point is
\* over for the agent.
CutIsOver == \A j \in cut : j # cur /\ j \notin swapped /\ Touched(j)

\* fail() has the job in hand, or was cut off in it.
Dropped(j) == j \in cut \/ (j = cur /\ pc = "cleanup")

\* A success had a healthy container, which is up until its release is live,
\* unless fail() removes it.
SuccessProven ==
  /\ \A j \in Ids : SuccSide(j) =>
       /\ relOf[j] \in proven
       /\ rel[relOf[j]] = "pending" => box[relOf[j]] = "up" \/ Dropped(j)
  /\ \A r \in proven : \E j \in Ids : relOf[j] = r /\ Touched(j)

\* Once a deploy succeeded a proven container is up, besides the one that the
\* agent may yet have to remove.
Spare ==
  (\E j \in Ids \ ({cur} \cup cut) : SuccSide(j)) =>
    \E r \in proven : box[r] = "up" /\ (cur = 0 \/ pc = "succeed" \/ r # relOf[cur])

\* A release replaces an older one that was live when it was asked for; the
\* key of a call is the release it drew.
WasLive(p, r) == p = 0 \/ (p < r /\ rel[p] \in {"live", "superseded"})
PrevWasLive ==
  /\ \A r \in Rels : WasLive(prev[r], r) /\ (rel[r] # "none" => r < nextRel)
  /\ \A c \in Callers : triggers[c].at # "idle" =>
       triggers[c].key \in Rels /\ WasLive(triggers[c].prev, triggers[c].rel)

\* A job's release was created before it, and a success is settled once.
SettledOnce ==
  \A j \in Ids :
    /\ relOf[j] # 0 => rel[relOf[j]] # "none"
    /\ j \in settling /\ status[j] = "succeeded" => rel[relOf[j]] = "pending"

AgentInv ==
  /\ OneTry /\ CallsFinal /\ InHand /\ UnderWay /\ CutIsOver
  /\ SuccessProven /\ Spare /\ PrevWasLive /\ SettledOnce /\ LiveIsUp

\* The inductive invariant.
IInv == PTypeOK /\ LeaseInv /\ D!ReleaseInv /\ AgentInv


DP == INSTANCE DeploysProofs WITH Deliveries <- {}, phase <- PhaseSeen, keyOf <- KeySeen

USE DEF Rels, historyVars

------------------------------------------------------------------------------
(* The pipeline is the queue and the releases, put together. *)

\* What the assumptions of Deploys say here.
LEMMA JobIds == Ids \subseteq Nat \ {0}
BY BoundAssumption
LEMMA OwnKeys == NULL \notin Nat /\ {} \cap (Nat \cup {NULL}) = {}
BY DeployAssumption
LEMMA Counts == MaxReleases \in Nat /\ MaxRestarts \in Nat
BY PipelineBounds

\* The two instances of Deploys say the same.
LEMMA SameDeploys ==
  /\ D!dvars = DP!dvars
  /\ D!Next <=> DP!Next
  /\ D!ReleaseInv <=> DP!ReleaseInv
  /\ D!TypeOK <=> DP!TypeOK
  /\ D!Init <=> DP!Init
<1>1. D!dvars = DP!dvars
  BY Zenon DEF D!dvars, DP!dvars, D!rows, DP!rows, D!releases, DP!releases
<1>2. D!Next <=> DP!Next
  BY SMTT(30)
  DEF D!dvars, DP!dvars, D!rows, DP!rows, D!releases, DP!releases, D!Next, DP!Next,
      D!BuildSpec, DP!BuildSpec, D!RollbackSpec, DP!RollbackSpec, D!Freeze, DP!Freeze,
      D!TriggerStep, DP!TriggerStep, D!Dedupe, DP!Dedupe, D!CreateRelease, DP!CreateRelease,
      D!EnqueueJob, DP!EnqueueJob, D!LinkJob, DP!LinkJob, D!Finish, DP!Finish,
      D!FalseFinish, DP!FalseFinish, D!SettleDeployJob, DP!SettleDeployJob,
      D!MarkLive, DP!MarkLive, D!MarkRelease, DP!MarkRelease, D!Forget, DP!Forget,
      D!HubRestart, DP!HubRestart, D!NoTrigger, DP!NoTrigger, D!Rels, DP!Rels,
      D!LiveRelease, DP!LiveRelease, D!Lives, DP!Lives, D!Outcomes, DP!Outcomes
<1>3. D!TypeOK <=> DP!TypeOK
  BY Zenon
  DEF D!TypeOK, DP!TypeOK, D!Phases, DP!Phases, D!JobKeys, DP!JobKeys,
      D!ReleaseStatuses, DP!ReleaseStatuses, D!Trigger, DP!Trigger, D!Rels, DP!Rels,
      D!Steps, DP!Steps, D!Outcomes, DP!Outcomes
<1>4. D!ReleaseInv <=> DP!ReleaseInv
  BY <1>3, Zenon
  DEF D!ReleaseInv, DP!ReleaseInv, D!Rels, DP!Rels, D!TriggersOwn, DP!TriggersOwn,
      D!JobsOwn, DP!JobsOwn, D!OneLive, DP!OneLive, D!Lives, DP!Lives,
      D!ReleaseTellsOutcome, DP!ReleaseTellsOutcome, D!DecidedByJob, DP!DecidedByJob
<1>5. D!Init <=> DP!Init
  BY Zenon DEF D!Init, DP!Init, D!NoTrigger, DP!NoTrigger, D!Rels, DP!Rels
<1>. QED  BY <1>1, <1>2, <1>3, <1>4, <1>5

\* What DeploysProofs shows of the releases, in the words of this module.
LEMMA ReleasesKeep ==
  ASSUME D!ReleaseInv, [D!Next]_D!dvars
  PROVE  D!ReleaseInv'
<1>1. DP!ReleaseInv /\ [DP!Next]_DP!dvars
  BY SameDeploys, Zenon
  DEF D!dvars, DP!dvars, D!rows, DP!rows, D!releases, DP!releases
<1>2. DP!TypeOK
  BY <1>1 DEF DP!ReleaseInv
<1>3. DP!TypeOK'
  BY <1>1, <1>2, DP!TypeStep, JobIds, OwnKeys, Counts, Zenon
<1>4. DP!ReleaseInv'
  BY <1>1, <1>3, DP!ReleaseStep, JobIds, OwnKeys, Counts, Zenon
<1>. QED  BY <1>4, SameDeploys, PTL


\* A job that was claimed names a release.
LEMMA ReleaseOfJob ==
  ASSUME IInv, NEW j \in Ids, Touched(j)
  PROVE  relOf[j] \in Rels /\ j < nextId
<1>1. PhaseSeen[j] # "fresh"
  BY DEF Touched, PhaseSeen, Outcomes
<1>2. relOf[j] # 0 /\ relOf[j] \in Rels \cup {0}
  BY <1>1 DEF IInv, D!ReleaseInv, D!JobsOwn, D!TypeOK, D!Rels
<1>3. j < nextId
  BY DEF IInv, LeaseInv, AttemptsCounted, Touched
<1>. QED  BY <1>2, <1>3

\* The agent's job and its lease.
LEMMA JobInHand ==
  ASSUME IInv, pc \notin {"off", "idle", "report"}
  PROVE  /\ cur \in Ids /\ cur # 0 /\ tok \in 1..granted[cur] /\ tok \in Nat
         /\ Touched(cur) /\ relOf[cur] \in Rels
<1>1. cur \in Ids /\ cur # 0 /\ tok \in 1..granted[cur] /\ tok \in Nat
  BY DEF IInv, AgentInv, InHand, PTypeOK
<1>2. Touched(cur)
  BY <1>1 DEF IInv, AgentInv, InHand, Touched
<1>. QED  BY <1>1, <1>2, ReleaseOfJob

\* A lease is good for one attempt, and no claim is handed back.
LEMMA OneGrant ==
  ASSUME IInv, NEW j \in Ids, status[j] # "absent"
  PROVE  /\ ask[j].max = 1 /\ granted[j] \in {0, 1} /\ attempts[j] = granted[j]
         /\ (Held(j) => granted[j] = 1 /\ owner[j] = 1)
<1>1. OwnerIsNewest(j) /\ AttemptsCounted(j) /\ granted[j] \in Nat /\ ask[j].max = 1
  BY DEF IInv, LeaseInv, TypeOK, AgentInv, OneTry
<1>2. granted[j] <= 1 /\ attempts[j] = granted[j]
  BY <1>1 DEF AttemptsCounted
<1>3. Held(j) => granted[j] = 1 /\ owner[j] = 1
  BY <1>1, <1>2 DEF OwnerIsNewest
<1>. QED  BY <1>1, <1>2, <1>3


\* Every step of the pipeline is a step of the queue, or leaves it alone.
LEMMA StepOfQueue == ASSUME IInv, PNext PROVE [Next]_qvars
<1>1. ASSUME NEW c \in Callers, TriggerDeploy(c) PROVE [Next]_qvars
  <2>1. CASE UNCHANGED qvars
    BY <2>1
  <2>2. CASE Enqueue(triggers[c].key, Deploy, Host, 1, 0) /\ D!EnqueueJob(c)
    <3>1. triggers[c].at = "enqueue"
      BY <2>2 DEF D!EnqueueJob
    <3>2. triggers[c].key \in Keys
      BY <3>1, DeployAssumption DEF IInv, AgentInv, PrevWasLive
    <3>. QED  BY <2>2, <3>2, HostAssumption, DeployAssumption DEF Next
  <2>. QED  BY <1>1, <2>1, <2>2 DEF TriggerDeploy
<1>2. ASSUME NEW j \in Ids, SettleRelease(j) \/ ReportItem(j) PROVE [Next]_qvars
  <2>1. OutcomeOf(journal[j]) \in Outcomes
    BY DEF OutcomeOf, Outcomes
  <2>. QED  BY <1>2, <2>1 DEF SettleRelease, ReportItem, Next
<1>3. CASE HubClock \/ Sweep \/ HubRestart
  BY <1>3 DEF HubClock, Sweep, HubRestart, Next
<1>4. CASE AgentClaim
  BY <1>4, HostAssumption DEF AgentClaim, Next
<1>5. CASE AgentStep
  <2>1. CASE AgentStart
    BY <2>1, JobInHand DEF AgentStart, Next, Request
  <2>2. CASE ReportSuccess
    BY <2>2, JobInHand DEF ReportSuccess, HubSucceed, Next, Request
  <2>3. CASE ReportFailure
    <3>1. FailRead(cur, tok, FALSE) \/ UNCHANGED qvars
      BY <2>3 DEF ReportFailure
    <3>2. pc = "failed"
      BY <2>3 DEF ReportFailure
    <3>. QED  BY <3>1, <3>2, JobInHand DEF Next, Request
  <2>. QED
    BY <1>5, <2>1, <2>2, <2>3
    DEF AgentStep, StartRejected, StepDone, StepFails, FailureNoted, SuccessRejected
<1>6. CASE Unanswered
  BY <1>6 DEF Unanswered, ClaimUnanswered, StartUnanswered, SuccessUnanswered,
              FailureUnanswered, ReportUnanswered, GiveUpOn
<1>7. CASE AgentHeartbeat
  <2>1. pc \notin {"off", "idle", "report"}
    BY <1>7 DEF AgentHeartbeat, Executing, JournalSteps
  <2>. QED  BY <1>7, <2>1, JobInHand DEF AgentHeartbeat, Next, Request
<1>8. CASE Deadline \/ AgentCrash \/ AgentBoot \/ ReportAnswered
  BY <1>8 DEF Deadline, AgentCrash, AgentBoot, ReportAnswered
<1>9. ASSUME NEW c \in calls, FailureAnswered(c) PROVE [Next]_qvars
  BY <1>9 DEF FailureAnswered, HubFail, Next
<1>10. ASSUME NEW m \in late, LateRequest(m) PROVE [Next]_qvars
  <2>1. \/ m.op = "claim" /\ m.job = 0
        \/ m.job \in Ids /\ m.lease \in 1..granted[m.job]
    BY DEF IInv, AgentInv, UnderWay
  <2>2. CASE UNCHANGED qvars
    BY <2>2
  <2>3. CASE m.op = "claim" /\ Claim(Deploy, Host)
    BY <2>3, HostAssumption DEF Next
  <2>4. CASE m.op # "claim" /\ \/ Start(m.job, m.lease) \/ Succeed(m.job, m.lease)
                               \/ FailRead(m.job, m.lease, FALSE)
    <3>1. m.job \in Ids /\ m.lease \in 1..granted[m.job]
      BY <2>1, <2>4
    <3>. QED  BY <2>4, <3>1 DEF Next, Request
  <2>. QED  BY <1>10, <2>2, <2>3, <2>4 DEF LateRequest, HubSucceed
<1>. QED  BY <1>1, <1>2, <1>3, <1>4, <1>5, <1>6, <1>7, <1>8, <1>9, <1>10 DEF PNext

\* So the leases stay in order.
LEMMA LeasesKeep == ASSUME IInv, PNext PROVE LeaseInv'
BY StepOfQueue, TypeStep, LeaseStep DEF IInv, LeaseInv


\* A job that stays open, or has the outcome it had, is the same to Deploys.
LEMMA SeenTheSame ==
  ASSUME UNCHANGED <<ask, nextId, releaseVars>>,
         \A j \in Ids : \/ status'[j] = status[j]
                        \/ {status[j], status'[j]} \subseteq
                             {"queued", "claimed", "running", "unknown"}
  PROVE  UNCHANGED D!dvars
<1>1. PhaseSeen' = PhaseSeen
  BY DEF PhaseSeen, Outcomes
<1>2. KeySeen' = KeySeen
  BY DEF KeySeen
<1>. QED  BY <1>1, <1>2, Zenon DEF D!dvars, D!rows, D!releases, releaseVars

\* Every step of the pipeline is one of Deploys, or leaves the releases alone.
LEMMA StepOfReleases == ASSUME IInv, PNext PROVE [D!Next]_D!dvars
<1> USE DEF qvars, leaseVars
<1>1. ASSUME NEW c \in Callers, TriggerDeploy(c) PROVE D!Next
  <2>1. CASE D!BuildSpec(c, NULL)
    BY <2>1, Zenon DEF D!Next
  <2>2. ASSUME NEW target \in Rels, D!RollbackSpec(c, target) PROVE D!Next
    BY <2>2, Zenon DEF D!Next, D!Rels
  <2>. QED  BY <1>1, <2>1, <2>2, Zenon DEF TriggerDeploy, D!Next, D!TriggerStep
<1>2. ASSUME NEW j \in Ids, SettleRelease(j) PROVE D!Next
  BY <1>2 DEF SettleRelease, D!Next
<1>3. ASSUME NEW j \in Ids, ReportItem(j) PROVE [D!Next]_D!dvars
  <2>1. CASE D!Finish(j, OutcomeOf(journal[j]))
    BY <2>1 DEF D!Next, D!Outcomes, OutcomeOf
  <2>2. CASE UNCHANGED <<qvars, releaseVars>>
    BY <2>2, SeenTheSame
  <2>. QED  BY <1>3, <2>1, <2>2 DEF ReportItem
<1>4. CASE HubClock
  BY <1>4, SeenTheSame DEF HubClock, Tick
<1>5. CASE Sweep
  <2>1. CASE RecoverRequeue
    BY <1>5, <2>1, SeenTheSame DEF Sweep, RecoverRequeue, Release
  <2>2. CASE RecoverUnknown
    BY <1>5, <2>2, SeenTheSame DEF Sweep, RecoverUnknown, Held
  <2>. QED  BY <1>5, <2>1, <2>2 DEF Sweep
<1>6. CASE HubRestart
  BY <1>6 DEF HubRestart, D!Next
<1>7. CASE AgentClaim
  BY <1>7, SeenTheSame DEF AgentClaim, Claim, Ready, IInv, LeaseInv, TypeOK
<1>8. CASE AgentStep
  <2>1. CASE AgentStart
    BY <2>1, SeenTheSame DEF AgentStart, Start, IInv, LeaseInv, TypeOK
  <2>2. CASE ReportSuccess
    BY <2>2, JobInHand DEF ReportSuccess, HubSucceed, D!Next, D!Outcomes
  <2>3. CASE ReportFailure
    BY <2>3, SeenTheSame DEF ReportFailure, FailRead
  <2>. QED
    BY <1>8, <2>1, <2>2, <2>3, SeenTheSame
    DEF AgentStep, StartRejected, StepDone, StepFails, FailureNoted, SuccessRejected
<1>9. CASE Unanswered
  BY <1>9, SeenTheSame
  DEF Unanswered, ClaimUnanswered, StartUnanswered, SuccessUnanswered,
      FailureUnanswered, ReportUnanswered, GiveUpOn
<1>10. CASE AgentHeartbeat
  BY <1>10, SeenTheSame DEF AgentHeartbeat, Heartbeat
<1>11. CASE Deadline \/ AgentCrash \/ AgentBoot \/ ReportAnswered
  BY <1>11, SeenTheSame DEF Deadline, AgentCrash, AgentBoot, ReportAnswered
<1>12. ASSUME NEW c \in calls, FailureAnswered(c) PROVE [D!Next]_D!dvars
  <2>1. Answer(c) = "failed"
    BY DEF IInv, AgentInv, CallsFinal, Answer
  <2>2. c.job \in Ids
    BY DEF IInv, LeaseInv, TypeOK, Call
  <2>. QED  BY <1>12, <2>1, <2>2 DEF FailureAnswered, HubFail, D!Next, D!Outcomes
<1>13. ASSUME NEW m \in late, LateRequest(m) PROVE [D!Next]_D!dvars
  <2>1. CASE UNCHANGED <<qvars, releaseVars>>
    BY <2>1, SeenTheSame
  <2>2. CASE Claim(Deploy, Host) /\ UNCHANGED releaseVars
    BY <2>2, SeenTheSame DEF Claim, Ready, IInv, LeaseInv, TypeOK
  <2>3. CASE m.op # "claim" /\ Start(m.job, m.lease) /\ UNCHANGED releaseVars
    BY <2>3, SeenTheSame DEF Start, IInv, LeaseInv, TypeOK
  <2>4. CASE m.op # "claim" /\ HubSucceed(m.job, m.lease)
    BY <2>4 DEF HubSucceed, D!Next, D!Outcomes, IInv, AgentInv, UnderWay
  <2>5. CASE FailRead(m.job, m.lease, FALSE) /\ UNCHANGED releaseVars
    BY <2>5, SeenTheSame DEF FailRead
  <2>. QED  BY <1>13, <2>1, <2>2, <2>3, <2>4, <2>5 DEF LateRequest
<1>. QED
  BY <1>1, <1>2, <1>3, <1>4, <1>5, <1>6, <1>7, <1>8, <1>9, <1>10, <1>11, <1>12, <1>13
  DEF PNext


------------------------------------------------------------------------------
(* Types *)

AgentTypes ==
  /\ pc \in PCs
  /\ cur \in Ids \cup {0} /\ tok \in Nat /\ aborted \in BOOLEAN
  /\ journal \in [Ids -> JournalSteps \cup {"none"}]
  /\ box \in [Rels -> {"none", "up", "down"}]
  /\ late \subseteq Late /\ report \subseteq Ids
  /\ crashes \in 0..MaxCrashes
  /\ proven \subseteq Rels /\ swapped \subseteq Ids /\ cut \subseteq Ids

\* What the current step does to the containers leaves them containers.
LEMMA BoxesType ==
  ASSUME IInv, pc \notin {"off", "idle", "report"}
  PROVE  Boxes(pc) \in [Rels -> {"none", "up", "down"}]
BY JobInHand DEF IInv, PTypeOK, Boxes, Mine

\* Being done with a job leaves every type as it is.
LEMMA FinishedTypes ==
  ASSUME AgentTypes, NEW kept \in BOOLEAN, Finished(kept),
         late' \subseteq Late, report' \subseteq Ids
  PROVE  AgentTypes'
BY DEF AgentTypes, Finished, PCs, Executing, JournalSteps

\* A request that the agent gives up on is one of the four.
LEMMA GiveUpTypes ==
  ASSUME AgentTypes, NEW op \in {"claim", "start", "succeed", "fail"}, GiveUpOn(op)
  PROVE  late' \subseteq Late /\ report' = report
BY DEF AgentTypes, GiveUpOn, Late

LEMMA StepTypes ==
  ASSUME IInv, AgentTypes, StepDone \/ StepFails PROVE AgentTypes'
<1>1. pc \in DOMAIN NextStep
  BY DEF StepDone, StepFails
<1>2. /\ pc \notin {"off", "idle", "report"} /\ NextStep[pc] \in PCs /\ NextStep[pc] # "none"
      /\ "failed" \in JournalSteps
  BY <1>1 DEF NextStep, PCs, Executing, JournalSteps
<1>3. /\ cur \in Ids /\ relOf[cur] \in Rels
      /\ Boxes(pc) \in [Rels -> {"none", "up", "down"}]
  BY <1>2, JobInHand, BoxesType
<1>4. CASE StepDone
  <2>1. pc' \in PCs /\ journal' \in [Ids -> JournalSteps \cup {"none"}]
    BY <1>2, <1>3, <1>4 DEF StepDone, AgentTypes
  <2>2. proven' \subseteq Rels /\ swapped' \subseteq Ids
    BY <1>3, <1>4 DEF StepDone, AgentTypes, Mine
  <2>3. box' \in [Rels -> {"none", "up", "down"}]
    BY <1>3, <1>4 DEF StepDone, AgentTypes
  <2>. QED  BY <1>4, <2>1, <2>2, <2>3 DEF StepDone, AgentTypes, netVars
<1>5. CASE StepFails
  <2>1. pc' \in PCs /\ journal' = journal
    BY <1>5 DEF StepFails, PCs, Executing
  <2>2. Boxes("run") \in [Rels -> {"none", "up", "down"}]
    BY <1>3 DEF AgentTypes, Boxes, Mine
  <2>3. [box EXCEPT ![Mine] = "none"] \in [Rels -> {"none", "up", "down"}]
    BY <1>3 DEF AgentTypes, Mine
  <2>4. box' \in {box, Boxes("run"), [box EXCEPT ![Mine] = "none"]}
    BY <1>5 DEF StepFails
  <2>5. box' \in [Rels -> {"none", "up", "down"}]
    BY <2>2, <2>3, <2>4 DEF AgentTypes
  <2>. QED  BY <1>5, <2>1, <2>5 DEF StepFails, AgentTypes, netVars
<1>. QED  BY <1>4, <1>5

LEMMA AgentTypesStep ==
  ASSUME IInv, AgentTypes, PNext, TypeOK' PROVE AgentTypes'
<1> USE DEF AgentTypes, agentVars, netVars, PCs, Executing
<1>1. CASE \/ \E c \in Callers : TriggerDeploy(c)
           \/ \E j \in Ids : SettleRelease(j) \/ ReportItem(j)
           \/ HubClock \/ Sweep
  BY <1>1 DEF TriggerDeploy, SettleRelease, ReportItem, HubClock, Sweep
<1>2. CASE HubRestart
  <2>1. late' = late /\ report' = {} /\ (Finished(TRUE) \/ UNCHANGED agentVars)
    BY <1>2 DEF HubRestart
  <2>2. CASE Finished(TRUE)
    BY <2>1, <2>2 DEF Finished
  <2>3. CASE UNCHANGED agentVars
    BY <2>1, <2>3
  <2>. QED  BY <2>1, <2>2, <2>3
<1>3. CASE AgentClaim
  BY <1>3 DEF AgentClaim, TypeOK
<1>4. CASE AgentStart \/ AgentHeartbeat \/ Deadline
  BY <1>4 DEF AgentStart, AgentHeartbeat, Deadline
<1>5. CASE StepDone \/ StepFails \/ FailureNoted
  <2>1. CASE FailureNoted
    <3>1. cur \in Ids
      BY <2>1, JobInHand DEF FailureNoted
    <3>2. journal' \in [Ids -> JournalSteps \cup {"none"}]
      BY <2>1, <3>1 DEF FailureNoted, JournalSteps
    <3>3. aborted' \in BOOLEAN
      BY <2>1 DEF FailureNoted
    <3>. QED  BY <2>1, <3>2, <3>3 DEF FailureNoted, JournalSteps
  <2>. QED  BY <1>5, <2>1, StepTypes
<1>6. CASE StartRejected \/ ReportSuccess \/ SuccessRejected
  BY <1>6, FinishedTypes DEF StartRejected, ReportSuccess, SuccessRejected
<1>7. CASE ReportFailure
  BY <1>7, FinishedTypes DEF ReportFailure
<1>8. CASE ClaimUnanswered
  <2>1. GiveUpOn("claim") /\ UNCHANGED agentVars
    BY <1>8 DEF ClaimUnanswered
  <2>2. late' \subseteq Late /\ report' = report
    BY <2>1, GiveUpTypes
  <2>. QED  BY <2>1, <2>2
<1>9. CASE StartUnanswered \/ SuccessUnanswered \/ FailureUnanswered
  <2>1. Finished(FALSE) \/ Finished(TRUE)
    BY <1>9 DEF StartUnanswered, SuccessUnanswered, FailureUnanswered
  <2>2. late' \subseteq Late /\ report' = report
    BY <1>9, GiveUpTypes DEF StartUnanswered, SuccessUnanswered, FailureUnanswered
  <2>. QED  BY <2>1, <2>2, FinishedTypes
<1>10. CASE ReportUnanswered \/ ReportAnswered \/ AgentBoot
  BY <1>10 DEF ReportUnanswered, ReportAnswered, AgentBoot, Journaled
<1>11. ASSUME NEW c \in calls, FailureAnswered(c) PROVE AgentTypes'
  BY <1>11, FinishedTypes DEF FailureAnswered
<1>12. CASE AgentCrash
  <2>1. /\ box' \in [Rels -> {"none", "up", "down"}] /\ swapped' \subseteq Ids
        /\ cut' \subseteq Ids
    BY <1>12, BoxesType, JobInHand DEF AgentCrash
  <2>2. crashes' \in 0..MaxCrashes
    BY <1>12, PipelineBounds DEF AgentCrash
  <2>. QED  BY <1>12, <2>1, <2>2 DEF AgentCrash
<1>13. ASSUME NEW m \in late, LateRequest(m) PROVE AgentTypes'
  BY <1>13 DEF LateRequest
<1>. QED
  BY <1>1, <1>2, <1>3, <1>4, <1>5, <1>6, <1>7, <1>8, <1>9, <1>10, <1>11, <1>12, <1>13
  DEF PNext, AgentStep, Unanswered

\* No step of the pipeline changes a type.
LEMMA TypesKeep == ASSUME IInv, PNext PROVE PTypeOK'
<1>1. TypeOK' /\ D!TypeOK'
  BY LeasesKeep, StepOfReleases, ReleasesKeep DEF IInv, LeaseInv, D!ReleaseInv
<1>2. AgentTypes
  BY DEF IInv, PTypeOK, AgentTypes
<1>. QED  BY <1>1, <1>2, AgentTypesStep DEF PTypeOK, AgentTypes


------------------------------------------------------------------------------
(* What points to a job's outcome *)

\* No evidence is added but what is derived from what there was.
Shrinks(j) == (FailSide(j)' => FailSide(j)) /\ (SuccSide(j)' => SuccSide(j))

\* Evidence is the journal, the row, the requests under way and the swap.
LEMMA ShrinkByParts ==
  ASSUME NEW j \in Ids,
         journal'[j] \in {journal[j], "none"},
         status'[j] = "failed" => FailSide(j),
         status'[j] = "succeeded" => SuccSide(j),
         Given("fail", j)' => FailSide(j),
         Given("succeed", j)' => SuccSide(j),
         (\E c \in calls' : c.job = j) => FailSide(j),
         j \in swapped' => SuccSide(j)
  PROVE  Shrinks(j)
BY DEF Shrinks, FailSide, SuccSide, Won, JournalSteps

\* The evidence that is there already.
LEMMA Evidence ==
  ASSUME NEW j \in Ids
  PROVE  /\ status[j] = "failed" => FailSide(j)
         /\ status[j] = "succeeded" => SuccSide(j)
         /\ Given("fail", j) => FailSide(j)
         /\ Given("succeed", j) => SuccSide(j)
         /\ (\E c \in calls : c.job = j) => FailSide(j)
         /\ j \in swapped => SuccSide(j)
         /\ journal[j] \in JournalSteps => FailSide(j) \/ SuccSide(j)
         /\ journal[j] = "failed" => FailSide(j)
         /\ journal[j] \in Won => SuccSide(j)
BY DEF FailSide, SuccSide, Won, JournalSteps

\* A job leaves the journal as it is or drops an entry.
LEMMA FinishedJournal ==
  ASSUME PTypeOK, NEW kept \in BOOLEAN, Finished(kept), NEW j \in Ids
  PROVE  journal'[j] \in {journal[j], "none"} /\ swapped' = swapped
BY DEF PTypeOK, Finished

\* The request that the agent gives up on tells what its journal does.
LEMMA GivenUp ==
  ASSUME IInv, NEW j \in Ids, NEW op \in {"claim", "start", "succeed", "fail"},
         GiveUpOn(op),
         op = "fail" => pc = "failed", op = "succeed" => pc = "succeed"
  PROVE  /\ Given("fail", j)' => FailSide(j)
         /\ Given("succeed", j)' => SuccSide(j)
<1>1. late' = late \cup {[op |-> op, job |-> cur, lease |-> tok]}
  BY DEF GiveUpOn
<1>2. Given("fail", j)' => Given("fail", j) \/ (op = "fail" /\ j = cur)
  BY <1>1 DEF Given
<1>3. Given("succeed", j)' => Given("succeed", j) \/ (op = "succeed" /\ j = cur)
  BY <1>1 DEF Given
<1>4. op \in {"fail", "succeed"} => journal[cur] = pc
  BY DEF IInv, AgentInv, InHand, JournalSteps
<1>. QED  BY <1>2, <1>3, <1>4, Evidence DEF Won

\* All steps but those that write the journal add no evidence.
LEMMA EvidenceShrinks ==
  ASSUME IInv, PNext, ~StepDone, ~FailureNoted, NEW j \in Ids
  PROVE  Shrinks(j)
<1> USE Evidence DEF qvars, leaseVars, agentVars, netVars
<1>1. CASE UNCHANGED <<status, calls, journal, late, swapped>>
  BY <1>1, ShrinkByParts DEF Given
<1>2. ASSUME NEW c \in Callers, TriggerDeploy(c) PROVE Shrinks(j)
  <2>1. status'[j] \in {status[j], "queued"} /\ UNCHANGED <<calls, journal, late, swapped>>
    BY <1>2 DEF TriggerDeploy, Enqueue, IInv, LeaseInv, TypeOK
  <2>. QED  BY <2>1, ShrinkByParts DEF Given
<1>3. ASSUME NEW i \in Ids, SettleRelease(i) \/ ReportItem(i) PROVE Shrinks(j)
  <2>1. CASE SettleRelease(i)
    BY <1>1, <2>1 DEF SettleRelease
  <2>2. CASE ReportItem(i)
    <3>1. journal[i] \in JournalSteps
      BY <2>2 DEF ReportItem, IInv, PTypeOK, AgentInv, UnderWay
    <3>2. status'[j] = status[j] \/ (j = i /\ status'[j] = OutcomeOf(journal[j]))
      BY <2>2 DEF ReportItem, Reconcile, IInv, LeaseInv, TypeOK
    <3>3. OutcomeOf(journal[i]) = IF journal[i] \in Won THEN "succeeded" ELSE "failed"
      BY DEF OutcomeOf, Won
    <3>4. (status'[j] = "failed" => FailSide(j)) /\ (status'[j] = "succeeded" => SuccSide(j))
      BY <3>1, <3>2, <3>3 DEF FailSide
    <3>5. UNCHANGED <<calls, journal, late, swapped>>
      BY <2>2 DEF ReportItem, Reconcile
    <3>. QED  BY <3>4, <3>5, ShrinkByParts DEF Given
  <2>. QED  BY <1>3, <2>1, <2>2
<1>4. CASE HubClock \/ Sweep
  <2>1. status'[j] \in {status[j], "queued", "unknown"}
    BY <1>4 DEF HubClock, Tick, Sweep, RecoverRequeue, RecoverUnknown, Release
  <2>2. UNCHANGED <<calls, journal, late, swapped>>
    BY <1>4 DEF HubClock, Tick, Sweep, RecoverRequeue, RecoverUnknown, Release
  <2>. QED  BY <2>1, <2>2, ShrinkByParts DEF Given
<1>5. CASE HubRestart
  <2>1. journal'[j] \in {journal[j], "none"} /\ swapped' = swapped
    BY <1>5, FinishedJournal DEF HubRestart, IInv
  <2>2. UNCHANGED <<status, late>> /\ calls' = {}
    BY <1>5 DEF HubRestart, Restart
  <2>. QED  BY <2>1, <2>2, ShrinkByParts DEF Given
<1>6. CASE AgentClaim
  <2>1. status'[j] \in {status[j], "claimed"} /\ UNCHANGED <<calls, journal, late, swapped>>
    BY <1>6 DEF AgentClaim, Claim, Ready, IInv, LeaseInv, TypeOK
  <2>. QED  BY <2>1, ShrinkByParts DEF Given
<1>7. CASE AgentStart
  <2>1. status'[j] \in {status[j], "running"} /\ UNCHANGED <<calls, journal, late, swapped>>
    BY <1>7 DEF AgentStart, Start, IInv, LeaseInv, TypeOK
  <2>. QED  BY <2>1, ShrinkByParts DEF Given
<1>8. CASE StartRejected \/ SuccessRejected
  <2>1. journal'[j] \in {journal[j], "none"} /\ swapped' = swapped
    BY <1>8, FinishedJournal DEF StartRejected, SuccessRejected, IInv
  <2>2. UNCHANGED <<status, calls, late>>
    BY <1>8 DEF StartRejected, SuccessRejected
  <2>. QED  BY <2>1, <2>2, ShrinkByParts DEF Given
<1>9. CASE ReportSuccess
  <2>1. journal'[j] \in {journal[j], "none"} /\ swapped' = swapped
    BY <1>9, FinishedJournal DEF ReportSuccess, IInv
  <2>2. /\ status'[j] = IF j = cur THEN "succeeded" ELSE status[j]
        /\ UNCHANGED <<calls, late>>
    BY <1>9 DEF ReportSuccess, HubSucceed, Succeed, Release
  <2>3. SuccSide(cur)
    BY <1>9, JobInHand DEF ReportSuccess, IInv, AgentInv, InHand, SuccSide, Won, JournalSteps
  <2>. QED  BY <2>1, <2>2, <2>3, ShrinkByParts DEF Given
<1>10. CASE ReportFailure
  <2>1. journal'[j] \in {journal[j], "none"} /\ swapped' = swapped
    BY <1>10, FinishedJournal DEF ReportFailure, IInv
  <2>2. UNCHANGED <<status, late>>
    BY <1>10 DEF ReportFailure, FailRead
  <2>3. \A c \in calls' : c \in calls \/ c.job = cur
    <3>1. CASE FailRead(cur, tok, FALSE)
      BY <3>1 DEF FailRead
    <3>2. CASE UNCHANGED qvars
      BY <3>2
    <3>. QED  BY <1>10, <3>1, <3>2 DEF ReportFailure
  <2>4. FailSide(cur)
    BY <1>10, JobInHand
    DEF ReportFailure, IInv, AgentInv, InHand, FailSide, Won, JournalSteps
  <2>. QED  BY <2>1, <2>2, <2>3, <2>4, ShrinkByParts DEF Given
<1>11. CASE Unanswered
  <2>1. journal'[j] \in {journal[j], "none"} /\ swapped' = swapped
    BY <1>11, FinishedJournal
    DEF Unanswered, ClaimUnanswered, StartUnanswered, SuccessUnanswered,
        FailureUnanswered, ReportUnanswered, IInv
  <2>2. UNCHANGED <<status, calls>>
    BY <1>11
    DEF Unanswered, ClaimUnanswered, StartUnanswered, SuccessUnanswered,
        FailureUnanswered, ReportUnanswered, GiveUpOn
  <2>3. (Given("fail", j)' => FailSide(j)) /\ (Given("succeed", j)' => SuccSide(j))
    <3>1. CASE late' = late
      BY <3>1 DEF Given
    <3>2. CASE ~(late' = late)
      BY <1>11, <3>2, GivenUp
      DEF Unanswered, ClaimUnanswered, StartUnanswered, SuccessUnanswered,
          FailureUnanswered, ReportUnanswered
    <3>. QED  BY <3>1, <3>2
  <2>. QED  BY <2>1, <2>2, <2>3, ShrinkByParts
<1>12. CASE AgentHeartbeat \/ Deadline \/ StepFails
  BY <1>1, <1>12 DEF AgentHeartbeat, Heartbeat, Deadline, StepFails
<1>13. ASSUME NEW c \in calls, FailureAnswered(c) PROVE Shrinks(j)
  <2>1. journal'[j] \in {journal[j], "none"} /\ swapped' = swapped
    BY <1>13, FinishedJournal DEF FailureAnswered, IInv
  <2>2. Answer(c) = "failed"
    BY DEF IInv, AgentInv, CallsFinal, Answer
  <2>3. status'[j] = status[j] \/ (j = c.job /\ status'[j] = "failed")
    BY <1>13, <2>2 DEF FailureAnswered, HubFail, FailWrite, Release
  <2>4. late' = late /\ calls' = calls \ {c}
    BY <1>13 DEF FailureAnswered, HubFail, FailWrite
  <2>. QED  BY <2>1, <2>3, <2>4, ShrinkByParts DEF Given
<1>14. CASE AgentCrash
  <2>1. UNCHANGED <<status, calls, journal, late>>
    BY <1>14 DEF AgentCrash
  <2>2. swapped' = swapped \/ (pc = "stop" /\ swapped' = swapped \cup {cur})
    BY <1>14 DEF AgentCrash
  <2>3. pc = "stop" => SuccSide(cur)
    BY DEF IInv, AgentInv, InHand, SuccSide, Won
  <2>. QED  BY <2>1, <2>2, <2>3, ShrinkByParts DEF Given
<1>15. CASE AgentBoot
  BY <1>1, <1>15 DEF AgentBoot
<1>16. CASE ReportAnswered
  <2>1. UNCHANGED <<status, calls, late, swapped>> /\ journal'[j] = "none"
    BY <1>16 DEF ReportAnswered
  <2>. QED  BY <2>1, ShrinkByParts DEF Given
<1>17. ASSUME NEW m \in late, LateRequest(m) PROVE Shrinks(j)
  <2>1. UNCHANGED <<journal, swapped>> /\ late' = late \ {m}
    BY <1>17 DEF LateRequest
  <2>2. /\ (\E c \in calls' : c.job = j) => (\E c \in calls : c.job = j) \/ Given("fail", j)
        /\ status'[j] = "failed" => status[j] = "failed"
        /\ status'[j] = "succeeded" => status[j] = "succeeded" \/ Given("succeed", j)
    <3>1. CASE UNCHANGED qvars
      BY <3>1
    <3>2. CASE m.op = "claim" /\ Claim(Deploy, Host)
      BY <3>2 DEF Claim, Ready, IInv, LeaseInv, TypeOK
    <3>3. CASE m.op = "start" /\ Start(m.job, m.lease)
      BY <3>3 DEF Start, IInv, LeaseInv, TypeOK
    <3>4. CASE m.op = "succeed" /\ HubSucceed(m.job, m.lease)
      BY <3>4 DEF HubSucceed, Succeed, Release, Given
    <3>5. CASE m.op = "fail" /\ FailRead(m.job, m.lease, FALSE)
      BY <3>5 DEF FailRead, Given
    <3>. QED  BY <1>17, <3>1, <3>2, <3>3, <3>4, <3>5 DEF LateRequest
  <2>. QED  BY <2>1, <2>2, ShrinkByParts DEF Given
<1>. QED
  BY <1>2, <1>3, <1>4, <1>5, <1>6, <1>7, <1>8, <1>9, <1>10, <1>11, <1>12, <1>13, <1>14,
     <1>15, <1>16, <1>17
  DEF PNext, AgentStep


------------------------------------------------------------------------------
(* OneTry *)

Queued ==
  /\ nextId \in Ids /\ nextId' = nextId + 1
  /\ status' = [status EXCEPT ![nextId] = "queued"]
  /\ ask'[nextId].max = 1 /\ \A i \in Ids \ {nextId} : ask'[i] = ask[i]

\* What a step does to the row of a job: it is inserted, claimed, started,
\* given up, or it gets its outcome; nothing puts it back in the queue.
RowAdvance(j) ==
  \/ status'[j] = status[j]
  \/ status[j] = "queued" /\ status'[j] = "claimed"
  \/ Touched(j) /\ status'[j] \in {"running", "unknown", "succeeded", "failed"}

LEMMA RowStep ==
  ASSUME IInv, PNext
  PROVE  Queued \/ (UNCHANGED <<ask, nextId>> /\ \A j \in Ids : RowAdvance(j))
<1> USE DEF qvars, leaseVars, RowAdvance, Touched
<1>1. CASE UNCHANGED <<ask, nextId, status>>
  BY <1>1
<1>2. ASSUME NEW c \in Callers, TriggerDeploy(c)
      PROVE  Queued \/ UNCHANGED <<ask, nextId, status>>
  <2>1. CASE Enqueue(triggers[c].key, Deploy, Host, 1, 0)
    BY <2>1 DEF Enqueue, Queued, IInv, LeaseInv, TypeOK
  <2>2. CASE UNCHANGED qvars
    BY <2>2
  <2>. QED  BY <1>2, <2>1, <2>2 DEF TriggerDeploy
<1>3. ASSUME NEW i \in Ids, SettleRelease(i) \/ ReportItem(i)
      PROVE  UNCHANGED <<ask, nextId>> /\ \A j \in Ids : RowAdvance(j)
  BY <1>3 DEF SettleRelease, ReportItem, Reconcile, OutcomeOf, IInv, LeaseInv, TypeOK
<1>4. CASE HubClock \/ HubRestart
  BY <1>1, <1>4 DEF HubClock, Tick, HubRestart, Restart
<1>5. CASE Sweep
  <2>1. CASE RecoverUnknown
    BY <1>5, <2>1 DEF RecoverUnknown, Held
  <2>2. CASE RecoverRequeue
    <3>1. \A j \in Ids : status[j] = "claimed" => ~(attempts[j] < ask[j].max)
      BY OneGrant DEF Held
    <3>. QED  BY <2>2, <3>1 DEF RecoverRequeue, Release, IInv, LeaseInv, TypeOK
  <2>. QED  BY <1>5, <2>1, <2>2 DEF Sweep
<1>6. CASE AgentClaim
  BY <1>6 DEF AgentClaim, Claim, Ready, IInv, LeaseInv, TypeOK
<1>7. CASE AgentStart
  BY <1>7 DEF AgentStart, Start, IInv, LeaseInv, TypeOK
<1>8. CASE ReportSuccess
  BY <1>8, JobInHand DEF ReportSuccess, HubSucceed, Succeed, Release
<1>9. CASE ReportFailure \/ AgentHeartbeat
  BY <1>1, <1>9 DEF ReportFailure, FailRead, AgentHeartbeat, Heartbeat
<1>10. ASSUME NEW c \in calls, FailureAnswered(c)
       PROVE  UNCHANGED <<ask, nextId>> /\ \A j \in Ids : RowAdvance(j)
  <2>1. Answer(c) = "failed"
    BY DEF IInv, AgentInv, CallsFinal, Answer
  <2>. QED
    BY <1>10, <2>1 DEF FailureAnswered, HubFail, FailWrite, Release, Holds, Held
<1>11. ASSUME NEW m \in late, LateRequest(m)
       PROVE  UNCHANGED <<ask, nextId>> /\ \A j \in Ids : RowAdvance(j)
  <2>1. CASE UNCHANGED qvars
    BY <1>1, <2>1
  <2>2. CASE Claim(Deploy, Host)
    BY <2>2 DEF Claim, Ready, IInv, LeaseInv, TypeOK
  <2>3. CASE Start(m.job, m.lease)
    BY <2>3 DEF Start, IInv, LeaseInv, TypeOK
  <2>4. CASE Succeed(m.job, m.lease)
    BY <2>4 DEF Succeed, Release, Holds, Held
  <2>5. CASE FailRead(m.job, m.lease, FALSE)
    BY <1>1, <2>5 DEF FailRead
  <2>. QED  BY <1>11, <2>1, <2>2, <2>3, <2>4, <2>5 DEF LateRequest, HubSucceed
<1>12. CASE \/ StepDone \/ StepFails \/ FailureNoted \/ StartRejected \/ SuccessRejected
            \/ Unanswered \/ Deadline \/ AgentCrash \/ AgentBoot \/ ReportAnswered
  BY <1>1, <1>12
  DEF StepDone, StepFails, FailureNoted, StartRejected, SuccessRejected, Unanswered,
      ClaimUnanswered,
      StartUnanswered, SuccessUnanswered, FailureUnanswered, ReportUnanswered, GiveUpOn,
      Deadline, AgentCrash, AgentBoot, ReportAnswered
<1>. QED
  BY <1>1, <1>2, <1>3, <1>4, <1>5, <1>6, <1>7, <1>8, <1>9, <1>10, <1>11, <1>12
  DEF PNext, AgentStep

\* A claimed job is never again unclaimed.
LEMMA TouchedKept ==
  ASSUME IInv, PNext, NEW j \in Ids, Touched(j) PROVE Touched(j)'
<1>1. j < nextId /\ nextId \in Nat /\ status \in [Ids -> Statuses]
  BY ReleaseOfJob DEF IInv, LeaseInv, TypeOK
<1>2. CASE Queued
  BY <1>1, <1>2 DEF Touched, Queued
<1>3. CASE RowAdvance(j)
  BY <1>3 DEF Touched, RowAdvance
<1>. QED  BY <1>2, <1>3, RowStep

\* A step of Execute() adds evidence for the job in hand only, and the kind
\* that its new journal entry says.
LEMMA EvidenceMoves ==
  ASSUME IInv, StepDone \/ FailureNoted, NEW j \in Ids
  PROVE  /\ j # cur => Shrinks(j)
         /\ j = cur => ~(FailSide(j)' /\ SuccSide(j)')
         /\ j = cur /\ SuccSide(j)' =>
              pc \in {"healthcheck", "stopping_prev", "stop"} /\ StepDone
<1>1. /\ pc \in DOMAIN NextStep \cup {"start", "cleanup"}
      /\ pc \notin {"off", "idle", "report", "answer"}
      /\ (StepDone => pc \in DOMAIN NextStep)
      /\ UNCHANGED <<status, calls, late>>
  BY DEF StepDone, FailureNoted, NextStep, qvars, leaseVars, netVars
<1>2. /\ cur \in Ids /\ status[cur] \notin {"succeeded", "failed"}
      /\ \A m \in late : m.job # cur
      /\ \A c \in calls : c.job # cur
      /\ cur \notin swapped
  <2>1. pc # "succeed"
    BY <1>1 DEF NextStep
  <2>. QED  BY <1>1, <2>1, JobInHand DEF IInv, AgentInv, InHand, CallsFinal
<1>3. \A i \in Ids : i # cur => journal'[i] = journal[i] /\ (i \in swapped' => i \in swapped)
  BY <1>2 DEF StepDone, FailureNoted, IInv, PTypeOK
<1>4. ASSUME j # cur PROVE Shrinks(j)
  BY <1>1, <1>3, <1>4, ShrinkByParts, Evidence DEF Given
<1>5. ASSUME j = cur
      PROVE  /\ ~(FailSide(j)' /\ SuccSide(j)')
             /\ SuccSide(j)' => pc \in {"healthcheck", "stopping_prev", "stop"} /\ StepDone
  <2>1. /\ FailSide(j)' <=> journal'[j] \in JournalSteps \ Won
        /\ SuccSide(j)' <=> journal'[j] \in Won \/ j \in swapped'
    BY <1>1, <1>2, <1>5 DEF FailSide, SuccSide, Given
  <2>2. CASE FailureNoted
    BY <1>2, <1>5, <2>1, <2>2 DEF FailureNoted, Won, IInv, PTypeOK
  <2>3. CASE StepDone
    <3>1. journal[cur] = "stopping_prev" \/ pc # "stop"
      BY <1>2 DEF IInv, AgentInv, InHand, PTypeOK
    <3>2. pc # "stop" => swapped' = swapped
      BY <2>3 DEF StepDone
    <3>3. pc = "stop" => journal'[cur] = "succeed"
      BY <1>2, <2>3, <3>1 DEF StepDone, NextStep, JournalSteps, IInv, PTypeOK
    <3>4. pc # "stop" => journal'[cur] = (IF NextStep[pc] \in JournalSteps THEN NextStep[pc] ELSE journal[cur])
      BY <1>2, <2>3 DEF StepDone, IInv, PTypeOK
    <3>5. pc = "stopping_prev" => journal[cur] = "stopping_prev"
      BY <1>2 DEF IInv, AgentInv, InHand, PTypeOK, JournalSteps
    <3>. QED
      BY <1>1, <1>2, <1>5, <2>1, <2>3, <3>2, <3>3, <3>4, <3>5 DEF NextStep, Won, JournalSteps
  <2>. QED  BY <2>2, <2>3
<1>. QED  BY <1>4, <1>5

\* A deploy goes on being tried once, and its evidence points one way.
LEMMA OneTryStep == ASSUME IInv, PNext PROVE OneTry'
<1> SUFFICES ASSUME NEW j \in Ids
             PROVE  /\ status'[j] # "absent" => ask'[j].max = 1
                    /\ j < nextId' => status'[j] # "absent"
                    /\ status'[j] # "rolled_back"
                    /\ FailSide(j)' \/ SuccSide(j)' => Touched(j)'
                    /\ ~(FailSide(j)' /\ SuccSide(j)')
  BY DEF OneTry
<1>1. /\ status[j] # "absent" => ask[j].max = 1
      /\ j < nextId => status[j] # "absent"
      /\ status[j] # "rolled_back"
      /\ FailSide(j) \/ SuccSide(j) => Touched(j)
      /\ ~(FailSide(j) /\ SuccSide(j))
      /\ nextId \in Nat /\ status \in [Ids -> Statuses]
  BY DEF IInv, AgentInv, OneTry, LeaseInv, TypeOK
<1>2. /\ status'[j] # "absent" => ask'[j].max = 1
      /\ j < nextId' => status'[j] # "absent"
      /\ status'[j] # "rolled_back"
  <2>1. CASE Queued
    BY <1>1, <2>1 DEF Queued
  <2>2. CASE UNCHANGED <<ask, nextId>> /\ RowAdvance(j)
    BY <1>1, <2>2 DEF RowAdvance, Touched
  <2>. QED  BY <2>1, <2>2, RowStep
<1>3. CASE StepDone \/ FailureNoted
  <2>1. CASE j = cur
    <3>1. Touched(j)
      BY <1>3, <2>1, JobInHand DEF StepDone, FailureNoted, NextStep
    <3>. QED  BY <1>2, <1>3, <2>1, <3>1, EvidenceMoves, TouchedKept
  <2>2. CASE j # cur
    BY <1>1, <1>2, <1>3, <2>2, EvidenceMoves, TouchedKept DEF Shrinks
  <2>. QED  BY <2>1, <2>2
<1>4. CASE ~StepDone /\ ~FailureNoted
  BY <1>1, <1>2, <1>4, EvidenceShrinks, TouchedKept DEF Shrinks
<1>. QED  BY <1>3, <1>4


------------------------------------------------------------------------------
(* CallsFinal, InHand, UnderWay *)

\* Leases are only ever added, and a job's frozen spec is never rewritten.
LEMMA GrantsGrow ==
  ASSUME IInv, PNext, NEW j \in Ids PROVE granted'[j] \in Nat /\ granted'[j] >= granted[j]
<1>1. granted \in [Ids -> Nat]
  BY DEF IInv, LeaseInv, TypeOK
<1>2. CASE UNCHANGED granted
  BY <1>1, <1>2
<1>3. CASE \E kind \in Kinds, agent \in Agents : Claim(kind, agent)
  BY <1>1, <1>3 DEF Claim, Ready
<1>. QED
  BY <1>2, <1>3, StepOfQueue
  DEF Next, Enqueue, Request, Heartbeat, Progress, Start, Succeed, FailRead, FailWrite,
      RecoverRequeue, RecoverUnknown, Reconcile, Prune, Restart, Tick, Release, qvars,
      leaseVars

LEMMA SpecFrozen ==
  ASSUME IInv, PNext, NEW j \in Ids, relOf[j] # 0 PROVE relOf'[j] = relOf[j]
<1>1. PhaseSeen[j] # "fresh" /\ relOf \in [Ids -> Nat]
  BY PipelineBounds DEF IInv, D!ReleaseInv, D!JobsOwn, D!TypeOK, D!Rels
<1>2. CASE \E c \in Callers : D!EnqueueJob(c)
  BY <1>1, <1>2 DEF D!EnqueueJob, D!rows
<1>3. CASE UNCHANGED relOf
  BY <1>3
<1>. QED
  BY <1>2, <1>3, StepOfReleases
  DEF D!Next, D!BuildSpec, D!RollbackSpec, D!Freeze, D!TriggerStep, D!Dedupe,
      D!CreateRelease, D!LinkJob, D!Finish, D!FalseFinish, D!SettleDeployJob, D!Forget,
      D!HubRestart, D!dvars, D!rows

\* A deploy is not retried: fail() finds no attempt left.
LEMMA NoRetry ==
  ASSUME IInv, NEW j \in Ids, NEW l \in 1..granted[j], FailRead(j, l, FALSE)
  PROVE  calls' = calls \cup {[job |-> j, lease |-> l, rolledBack |-> FALSE, retry |-> FALSE]}
<1>1. granted[j] = 1 /\ attempts[j] = 1 /\ ask[j].max = 1
  BY OneGrant DEF FailRead
<1>2. (attempts[j] < ask[j].max) = FALSE
  BY <1>1
<1>. QED  BY <1>2, Zenon DEF FailRead

\* Calls that stay are as final as they were, if the agent's job is its own.
LEMMA CallsKept ==
  ASSUME IInv, calls' \subseteq calls,
         cur' = 0 \/ (cur' = cur /\ (pc = "answer" => pc' = "answer"))
  PROVE  CallsFinal'
<1> SUFFICES ASSUME NEW c \in calls'
             PROVE  ~c.rolledBack /\ ~c.retry /\ (c.job = cur' => pc' = "answer")
  BY DEF CallsFinal
<1>1. c.job \in Ids /\ c.job # 0
  BY DEF IInv, LeaseInv, TypeOK, Call
<1>. QED  BY <1>1 DEF IInv, AgentInv, CallsFinal

LEMMA CallsFinalStep == ASSUME IInv, PNext PROVE CallsFinal'
<1> USE DEF qvars, agentVars, netVars
<1>1. CASE \/ \E c \in Callers : TriggerDeploy(c)
           \/ \E j \in Ids : SettleRelease(j) \/ ReportItem(j)
           \/ HubClock \/ Sweep
  <2>1. calls' = calls /\ UNCHANGED agentVars
    BY <1>1
    DEF TriggerDeploy, Enqueue, SettleRelease, ReportItem, Reconcile, HubClock, Tick, Sweep,
        RecoverRequeue, RecoverUnknown
  <2>. QED  BY <2>1, CallsKept
<1>2. CASE HubRestart
  BY <1>2 DEF HubRestart, Restart, CallsFinal
<1>3. CASE AgentClaim
  <2>1. PICK j \in Ids : status[j] = "queued" /\ cur' = j
    BY <1>3 DEF AgentClaim, Claim, Ready, IInv, LeaseInv, TypeOK
  <2>2. \A c \in calls : c.job # j
    BY <2>1, Evidence DEF IInv, AgentInv, OneTry, Touched
  <2>3. calls' = calls
    BY <1>3 DEF AgentClaim, Claim
  <2>. QED  BY <2>1, <2>2, <2>3 DEF CallsFinal, IInv, AgentInv
<1>4. CASE AgentStart \/ AgentHeartbeat \/ Deadline
  <2>1. /\ calls' = calls /\ cur' = cur /\ (pc = "answer" => pc' = "answer")
    BY <1>4 DEF AgentStart, Start, AgentHeartbeat, Heartbeat, Deadline
  <2>. QED  BY <2>1, CallsKept
<1>5. CASE StepDone \/ StepFails \/ FailureNoted
  <2>1. calls' = calls /\ cur' = cur /\ pc # "answer"
    BY <1>5 DEF StepDone, StepFails, FailureNoted, NextStep
  <2>. QED  BY <2>1, CallsKept
<1>6. CASE StartRejected \/ SuccessRejected \/ ReportSuccess
  <2>1. calls' = calls /\ cur' = 0
    BY <1>6 DEF StartRejected, SuccessRejected, ReportSuccess, HubSucceed, Succeed, Finished
  <2>. QED  BY <2>1, CallsKept
<1>7. CASE ReportFailure
  <2>1. CASE FailRead(cur, tok, FALSE)
    <3>1. cur \in Ids /\ tok \in 1..granted[cur]
      BY <1>7, JobInHand DEF ReportFailure
    <3>2. calls' = calls \cup
            {[job |-> cur, lease |-> tok, rolledBack |-> FALSE, retry |-> FALSE]}
      BY <2>1, <3>1, NoRetry
    <3>3. (pc' = "answer" /\ cur' = cur) \/ cur' = 0
      BY <1>7 DEF ReportFailure, Finished
    <3>4. cur # 0
      BY <3>1
    <3>. QED
      BY <3>1, <3>2, <3>3 DEF CallsFinal, IInv, AgentInv, LeaseInv, TypeOK, Call
  <2>2. CASE calls' = calls /\ Finished(FALSE)
    BY <2>2, CallsKept DEF Finished
  <2>. QED  BY <1>7, <2>1, <2>2 DEF ReportFailure
<1>8. CASE Unanswered
  <2>1. calls' = calls /\ (cur' = 0 \/ (cur' = cur /\ pc # "answer"))
    BY <1>8
    DEF Unanswered, ClaimUnanswered, StartUnanswered, SuccessUnanswered,
        FailureUnanswered, ReportUnanswered, GiveUpOn, Finished
  <2>. QED  BY <2>1, CallsKept
<1>9. ASSUME NEW c \in calls, FailureAnswered(c) PROVE CallsFinal'
  <2>1. calls' = calls \ {c} /\ (cur' = 0 \/ (cur' = cur /\ pc' = pc))
    BY <1>9 DEF FailureAnswered, HubFail, FailWrite, Finished
  <2>. QED  BY <2>1, CallsKept
<1>10. CASE AgentCrash \/ AgentBoot \/ ReportAnswered
  <2>1. calls' = calls /\ (cur' = 0 \/ (cur' = cur /\ pc # "answer"))
    BY <1>10 DEF AgentCrash, AgentBoot, ReportAnswered
  <2>. QED  BY <2>1, CallsKept
<1>11. ASSUME NEW m \in late, LateRequest(m) PROVE CallsFinal'
  <2>1. UNCHANGED agentVars
    BY <1>11 DEF LateRequest
  <2>2. CASE calls' = calls
    BY <2>1, <2>2, CallsKept
  <2>3. CASE m.op = "fail" /\ FailRead(m.job, m.lease, FALSE)
    <3>1. m.job \in Ids /\ m.lease \in 1..granted[m.job] /\ m.job # 0
      BY <2>3 DEF IInv, AgentInv, UnderWay
    <3>2. m.job # cur
      BY <3>1 DEF IInv, AgentInv, InHand
    <3>3. calls' = calls \cup
            {[job |-> m.job, lease |-> m.lease, rolledBack |-> FALSE, retry |-> FALSE]}
      BY <2>3, <3>1, NoRetry
    <3>. QED  BY <2>1, <3>2, <3>3 DEF CallsFinal, IInv, AgentInv
  <2>. QED
    BY <1>11, <2>2, <2>3 DEF LateRequest, Claim, Start, HubSucceed, Succeed
<1>. QED
  BY <1>1, <1>2, <1>3, <1>4, <1>5, <1>6, <1>7, <1>8, <1>9, <1>10, <1>11
  DEF PNext, AgentStep


\* The job in hand stays as it is while the agent does not move on.
LEMMA HandKept ==
  ASSUME IInv, PNext, UNCHANGED <<pc, cur, tok, journal, box, swapped>>,
         \A m \in late' : m \in late \/ m.job # cur,
         cur # 0 => status'[cur] \notin {"succeeded", "failed"}
  PROVE  InHand'
<1> DEFINE Busy == pc \notin {"off", "idle", "report"}
<1>1. InHand /\ PTypeOK
  BY DEF IInv, AgentInv
<1>2. cur = 0 <=> ~Busy
  BY <1>1 DEF InHand
<1>3. CASE cur = 0
  BY <1>2, <1>3 DEF InHand
<1>4. CASE cur # 0
  <2>1. /\ cur \in Ids /\ Touched(cur) /\ tok \in 1..granted[cur] /\ tok \in Nat
        /\ relOf[cur] \in Rels
    BY <1>2, <1>4, JobInHand
  <2>2. tok \in 1..granted'[cur]
    <3>1. granted'[cur] \in Nat /\ granted'[cur] >= granted[cur] /\ granted[cur] \in Nat
      BY <2>1, GrantsGrow DEF IInv, LeaseInv, TypeOK
    <3>. QED  BY <2>1, <3>1
  <2>3. relOf'[cur] = relOf[cur]
    BY <2>1, SpecFrozen
  <2>4. \A i \in Ids : i = cur => Touched(i)'
    BY <2>1, TouchedKept
  <2>5. status'[cur] \in {"claimed", "running", "unknown"}
    <3>1. cur < nextId /\ status \in [Ids -> Statuses] /\ nextId \in Nat
      BY <2>1, ReleaseOfJob DEF IInv, LeaseInv, TypeOK
    <3>2. status[cur] \in {"claimed", "running", "unknown"}
      BY <1>1, <1>4 DEF InHand
    <3>3. CASE Queued
      BY <2>1, <3>1, <3>2, <3>3 DEF Queued
    <3>4. CASE RowAdvance(cur)
      BY <1>4, <3>2, <3>4 DEF RowAdvance
    <3>. QED  BY <2>1, <3>3, <3>4, RowStep
  <2>. QED  BY <1>1, <1>2, <1>4, <2>2, <2>3, <2>5 DEF InHand
<1>. QED  BY <1>3, <1>4

\* The agent has nothing in hand.
LEMMA HandEmpty ==
  ASSUME cur' = 0, pc' \in {"off", "idle", "report"} PROVE InHand'
BY DEF InHand

\* One step of Execute() hands the job on to the next, or to fail().
LEMMA StepInHand == ASSUME IInv, PNext, StepDone \/ StepFails PROVE InHand'
<1>1. /\ pc \in DOMAIN NextStep
      /\ pc' \in {NextStep[pc], "cleanup"} /\ cur' = cur /\ tok' = tok
      /\ UNCHANGED <<qvars, releaseVars, netVars>>
  BY DEF StepDone, StepFails
<1>2. /\ pc' \in {"fetch", "build", "run", "healthcheck", "stopping_prev", "stop",
                  "succeed", "cleanup"}
      /\ pc' = "cleanup" <=> StepFails
      /\ pc' = "stop" <=> pc = "stopping_prev" /\ pc' # "cleanup"
      /\ pc' = "succeed" <=> pc = "stop" /\ pc' # "cleanup"
      /\ pc' = "healthcheck" <=> pc = "run" /\ pc' # "cleanup"
      /\ pc' = "stopping_prev" <=> pc = "healthcheck" /\ pc' # "cleanup"
  BY <1>1 DEF NextStep, StepDone, StepFails
<1>3. /\ cur \in Ids /\ cur # 0 /\ relOf[cur] \in Rels /\ pc # "succeed"
      /\ journal \in [Ids -> JournalSteps \cup {"none"}]
      /\ box \in [Rels -> {"none", "up", "down"}]
  BY <1>1, JobInHand DEF IInv, PTypeOK, NextStep
<1>4. InHand
  BY DEF IInv, AgentInv
<1>5. /\ status'[cur] \in {"claimed", "running", "unknown"} /\ tok' \in 1..granted'[cur]
      /\ \A m \in late' : m.job # cur
  BY <1>1, <1>3, <1>4 DEF InHand, qvars, leaseVars, netVars
<1>6. pc' # "succeed" => cur \notin swapped'
  <2>1. cur \notin swapped
    BY <1>3, <1>4 DEF InHand
  <2>2. CASE StepFails
    BY <2>1, <2>2 DEF StepFails
  <2>3. CASE StepDone /\ pc # "stop"
    BY <2>1, <2>3 DEF StepDone
  <2>4. CASE StepDone /\ pc = "stop"
    BY <2>4 DEF StepDone, NextStep
  <2>. QED  BY <2>2, <2>3, <2>4
<1>7. /\ pc' \in JournalSteps => journal'[cur] = pc'
      /\ pc' = "stop" => journal'[cur] = "stopping_prev"
      /\ pc' = "cleanup" => journal'[cur] # "succeed"
  <2>1. CASE StepFails
    <3>1. journal' = journal /\ pc' = "cleanup" /\ pc # "stop"
      BY <2>1 DEF StepFails
    <3>2. journal[cur] \in {"none", pc}
      BY <1>1, <1>3, <1>4, <3>1 DEF InHand, NextStep, JournalSteps
    <3>. QED  BY <1>3, <3>1, <3>2 DEF JournalSteps
  <2>2. CASE StepDone
    <3>1. pc' \in JournalSteps => journal'[cur] = pc'
      BY <1>3, <2>2 DEF StepDone
    <3>2. pc' = "stop" => pc = "stopping_prev" /\ journal' = journal
      BY <1>2, <2>2 DEF StepDone, JournalSteps
    <3>3. pc' # "cleanup"
      BY <2>2 DEF StepDone, NextStep
    <3>. QED  BY <1>3, <1>4, <3>1, <3>2, <3>3 DEF InHand, JournalSteps
  <2>. QED  BY <2>1, <2>2
<1>8. pc' \in {"healthcheck", "stopping_prev", "stop", "succeed"} => box'[relOf[cur]] = "up"
  <2>1. CASE pc' = "cleanup"
    BY <2>1
  <2>2. CASE StepDone /\ pc = "run"
    BY <1>3, <2>2 DEF StepDone, Boxes, Mine
  <2>3. CASE StepDone /\ pc \in {"healthcheck", "stopping_prev"}
    BY <1>3, <1>4, <2>3 DEF StepDone, Boxes, InHand, Won
  <2>4. CASE StepDone /\ pc = "stop"
    <3>1. prev[relOf[cur]] # relOf[cur]
      BY <1>3 DEF IInv, AgentInv, PrevWasLive, WasLive
    <3>2. box[relOf[cur]] = "up"
      BY <1>3, <1>4, <2>4 DEF InHand
    <3>. QED  BY <1>3, <2>4, <3>1, <3>2 DEF StepDone, Boxes, Mine
  <2>5. CASE StepFails
    BY <2>5 DEF StepFails
  <2>. QED  BY <1>1, <1>2, <2>1, <2>2, <2>3, <2>4, <2>5 DEF StepDone, StepFails
<1>. QED
  BY <1>1, <1>2, <1>3, <1>5, <1>6, <1>7, <1>8 DEF InHand, Won, releaseVars


LEMMA InHandStep == ASSUME IInv, PNext PROVE InHand'
<1> USE DEF qvars, leaseVars, agentVars, netVars
<1>1. InHand /\ PTypeOK /\ LeaseInv /\ UnderWay /\ OneTry
  BY DEF IInv, AgentInv
<1>2. cur # 0 => status[cur] \notin {"succeeded", "failed"}
  BY <1>1 DEF InHand
<1>3. \A m \in late : m.job # cur \/ cur = 0
  BY <1>1 DEF InHand
<1>4. CASE \/ \E c \in Callers : TriggerDeploy(c)
           \/ \E j \in Ids : SettleRelease(j)
           \/ HubClock \/ Sweep \/ AgentHeartbeat \/ Deadline
  <2>1. UNCHANGED <<pc, cur, tok, journal, box, swapped, late>>
    BY <1>4
    DEF TriggerDeploy, SettleRelease, HubClock, Sweep, AgentHeartbeat, Deadline
  <2>2. cur # 0 => cur \in Ids /\ status[cur] \notin {"succeeded", "failed"}
    BY <1>1, <1>2 DEF PTypeOK
  <2>3. cur # 0 => status'[cur] \notin {"succeeded", "failed"}
    BY <1>4, <2>2
    DEF TriggerDeploy, Enqueue, SettleRelease, HubClock, Tick, Sweep, RecoverRequeue,
        RecoverUnknown, Release, AgentHeartbeat, Heartbeat, Deadline, IInv, LeaseInv, TypeOK
  <2>. QED  BY <2>1, <2>3, HandKept
<1>5. ASSUME NEW j \in Ids, ReportItem(j) PROVE InHand'
  <2>1. UNCHANGED <<pc, cur, tok, journal, box, swapped, late>>
    BY <1>5 DEF ReportItem
  <2>2. j # cur /\ (cur # 0 => cur \in Ids)
    BY <1>1, <1>5 DEF ReportItem, UnderWay, PTypeOK
  <2>3. cur # 0 => status'[cur] = status[cur]
    BY <1>5, <2>2 DEF ReportItem, Reconcile, IInv, LeaseInv, TypeOK
  <2>. QED  BY <1>2, <2>1, <2>3, HandKept
<1>6. CASE HubRestart
  <2>1. CASE Finished(TRUE)
    BY <2>1, HandEmpty DEF Finished
  <2>2. CASE UNCHANGED agentVars
    BY <1>2, <1>6, <2>2, HandKept DEF HubRestart, Restart
  <2>. QED  BY <1>6, <2>1, <2>2 DEF HubRestart
<1>7. CASE AgentClaim
  <2>1. PICK j \in Ids :
          /\ status[j] = "queued" /\ status'[j] = "claimed" /\ cur' = j
          /\ tok' = granted'[j] /\ granted'[j] = granted[j] + 1
          /\ pc' = "start" /\ UNCHANGED <<journal, box, swapped, late>>
    <3>1. PICK j \in Ids : status'[j] # status[j] /\ cur' = j /\ tok' = owner'[j]
      BY <1>7 DEF AgentClaim
    <3>2. PICK i \in Ready(Deploy, Host) :
            /\ status' = [status EXCEPT ![i] = "claimed"]
            /\ owner' = [owner EXCEPT ![i] = granted[i] + 1]
            /\ granted' = [granted EXCEPT ![i] = @ + 1]
      BY <1>7 DEF AgentClaim, Claim
    <3>3. i \in Ids /\ status[i] = "queued"
      BY DEF Ready
    <3>4. i = j
      BY <1>1, <3>1, <3>2, <3>3 DEF LeaseInv, TypeOK
    <3>5. /\ pc' = "start" /\ UNCHANGED <<journal, box, swapped, late>>
      BY <1>7 DEF AgentClaim
    <3>6. status'[j] = "claimed" /\ granted'[j] = granted[j] + 1 /\ owner'[j] = granted[j] + 1
      BY <1>1, <3>2, <3>3, <3>4 DEF LeaseInv, TypeOK
    <3>. QED  BY <3>1, <3>3, <3>4, <3>5, <3>6
  <2>2. ~FailSide(j) /\ ~SuccSide(j) /\ ~Touched(j)
    BY <1>1, <2>1 DEF OneTry, Touched
  <2>3. journal[j] = "none" /\ j \notin swapped
    BY <1>1, <2>2, Evidence DEF PTypeOK
  <2>4. \A m \in late : m.job # j
    BY <1>1, <2>1, <2>2 DEF UnderWay
  <2>5. granted[j] \in Nat /\ j # 0
    BY <1>1, JobIds DEF LeaseInv, TypeOK
  <2>6. tok' \in 1..granted'[j]
    BY <2>1, <2>5
  <2>. QED  BY <2>1, <2>3, <2>4, <2>5, <2>6 DEF InHand, JournalSteps, Won
<1>8. CASE AgentStart
  <2>1. pc = "start" /\ pc' = "secrets" /\ UNCHANGED <<cur, tok, journal, box, swapped, late>>
    BY <1>8 DEF AgentStart
  <2>2. cur \in Ids /\ tok \in 1..granted[cur] /\ relOf[cur] \in Rels
    BY <2>1, JobInHand
  <2>3. status'[cur] = "running" /\ granted' = granted
    BY <1>1, <1>8, <2>2 DEF AgentStart, Start, LeaseInv, TypeOK
  <2>. QED  BY <1>1, <2>1, <2>2, <2>3 DEF InHand, JournalSteps, Won
<1>9. CASE StepDone \/ StepFails \/ FailureNoted
  <2>1. CASE FailureNoted
    <3>1. /\ cur \in Ids /\ cur # 0 /\ pc' = "failed" /\ pc # "succeed"
          /\ UNCHANGED <<cur, tok, status, granted, late, swapped>>
      BY <2>1, JobInHand DEF FailureNoted
    <3>2. journal'[cur] = "failed"
      BY <1>1, <2>1, <3>1 DEF FailureNoted, PTypeOK
    <3>3. tok' \in 1..granted'[cur']
      BY <1>1, <3>1 DEF InHand
    <3>. QED  BY <1>1, <3>1, <3>2, <3>3 DEF InHand, JournalSteps, Won
  <2>. QED  BY <1>9, <2>1, StepInHand
<1>10. CASE StartRejected \/ SuccessRejected \/ ReportSuccess
  BY <1>10, HandEmpty DEF StartRejected, SuccessRejected, ReportSuccess, Finished
<1>11. CASE ReportFailure
  <2>1. CASE Finished(FALSE)
    BY <2>1, HandEmpty DEF Finished
  <2>2. CASE FailRead(cur, tok, FALSE) /\ pc' = "answer"
               /\ UNCHANGED <<cur, tok, aborted, journal, box, crashes, historyVars>>
    <3>1. pc = "failed" /\ late' = late /\ UNCHANGED <<status, granted>>
      BY <1>11, <2>2 DEF ReportFailure, FailRead
    <3>. QED  BY <1>1, <2>2, <3>1 DEF InHand, JournalSteps, Won
  <2>. QED  BY <1>11, <2>1, <2>2 DEF ReportFailure
<1>12. CASE Unanswered
  <2>1. CASE ClaimUnanswered
    <3>1. cur = 0 /\ UNCHANGED <<pc, cur>>
      BY <1>1, <2>1 DEF ClaimUnanswered, InHand
    <3>. QED  BY <1>1, <3>1 DEF InHand
  <2>2. CASE ReportUnanswered
    BY <1>1, <2>2, HandEmpty DEF ReportUnanswered, InHand
  <2>3. CASE Finished(TRUE) \/ Finished(FALSE)
    BY <2>3, HandEmpty DEF Finished
  <2>. QED
    BY <1>12, <2>1, <2>2, <2>3
    DEF Unanswered, StartUnanswered, SuccessUnanswered, FailureUnanswered
<1>13. ASSUME NEW c \in calls, FailureAnswered(c) PROVE InHand'
  <2>1. CASE Finished(FALSE)
    BY <2>1, HandEmpty DEF Finished
  <2>2. CASE UNCHANGED agentVars /\ ~(pc = "answer" /\ c.job = cur)
    <3>1. c.job # cur
      BY <2>2 DEF IInv, AgentInv, CallsFinal
    <3>2. status'[cur] = status[cur] \/ cur \notin Ids
      BY <1>13, <3>1 DEF FailureAnswered, HubFail, FailWrite, Release
    <3>3. cur # 0 => status'[cur] \notin {"succeeded", "failed"}
      BY <1>1, <1>2, <3>2 DEF PTypeOK
    <3>. QED  BY <1>13, <2>2, <3>3, HandKept DEF FailureAnswered
  <2>. QED  BY <1>13, <2>1, <2>2 DEF FailureAnswered
<1>14. CASE AgentCrash \/ AgentBoot \/ ReportAnswered
  BY <1>1, <1>14, HandEmpty DEF AgentCrash, AgentBoot, ReportAnswered, InHand
<1>15. ASSUME NEW m \in late, LateRequest(m) PROVE InHand'
  <2>1. UNCHANGED agentVars /\ late' = late \ {m}
    BY <1>15 DEF LateRequest
  <2>2. cur # 0 => status'[cur] \notin {"succeeded", "failed"}
    <3> SUFFICES ASSUME cur # 0 PROVE status'[cur] \notin {"succeeded", "failed"}
      OBVIOUS
    <3>1. m.job # cur /\ cur \in Ids /\ status[cur] \notin {"succeeded", "failed"}
      BY <1>1, <1>2, <1>3 DEF PTypeOK
    <3>2. CASE HubSucceed(m.job, m.lease)
      BY <3>1, <3>2 DEF HubSucceed, Succeed, Release
    <3>3. CASE Claim(Deploy, Host) \/ Start(m.job, m.lease)
      BY <3>1, <3>3 DEF Claim, Ready, Start, IInv, LeaseInv, TypeOK
    <3>4. CASE FailRead(m.job, m.lease, FALSE) \/ UNCHANGED qvars
      BY <3>1, <3>4 DEF FailRead
    <3>. QED  BY <1>15, <3>2, <3>3, <3>4 DEF LateRequest
  <2>. QED  BY <2>1, <2>2, HandKept
<1>. QED
  BY <1>4, <1>5, <1>6, <1>7, <1>8, <1>9, <1>10, <1>11, <1>12, <1>13, <1>14, <1>15
  DEF PNext, AgentStep

\* The agent takes up a job by a claim only.
LEMMA CurMoves == ASSUME PNext PROVE AgentClaim \/ cur' \in {cur, 0}
<1>1. CASE UNCHANGED agentVars
  BY <1>1 DEF agentVars
<1>. QED
  BY <1>1
  DEF PNext, TriggerDeploy, SettleRelease, ReportItem, HubClock, Sweep, HubRestart,
      AgentStep, AgentStart, StartRejected, StepDone, StepFails, FailureNoted,
      ReportSuccess, SuccessRejected, ReportFailure, Unanswered, ClaimUnanswered,
      StartUnanswered, SuccessUnanswered, FailureUnanswered, ReportUnanswered,
      AgentHeartbeat, Deadline, FailureAnswered, AgentCrash, AgentBoot,
      ReportAnswered, LateRequest, Finished

LEMMA UnderWayStep == ASSUME IInv, PNext PROVE UnderWay'
<1> USE DEF qvars, leaseVars, agentVars, netVars
<1>1. InHand /\ PTypeOK /\ UnderWay /\ OneTry
  BY DEF IInv, AgentInv
<1>2. ASSUME NEW m \in late' PROVE \/ m.op = "claim" /\ m.job = 0
                                   \/ m.op # "claim" /\ m.job \in Ids
                                      /\ m.lease \in 1..granted[m.job] /\ Touched(m.job)
  <2>1. CASE m \in late
    BY <1>1, <2>1 DEF UnderWay
  <2>2. CASE m \notin late
    <3>1. PICK op \in {"claim", "start", "succeed", "fail"} :
            /\ GiveUpOn(op) /\ (op = "claim" => pc = "idle")
            /\ (op # "claim" => pc \in {"start", "succeed", "failed"})
      BY <2>2
      DEF PNext, TriggerDeploy, SettleRelease, ReportItem, HubClock, Sweep, HubRestart,
          AgentClaim, AgentStep, AgentStart, StartRejected, StepDone, StepFails, FailureNoted,
          ReportSuccess, SuccessRejected, ReportFailure, Unanswered, ClaimUnanswered,
          StartUnanswered, SuccessUnanswered, FailureUnanswered, ReportUnanswered,
          AgentHeartbeat, Deadline, FailureAnswered, AgentCrash, AgentBoot,
          ReportAnswered, LateRequest
    <3>2. m = [op |-> op, job |-> cur, lease |-> tok]
      BY <2>2, <3>1 DEF GiveUpOn
    <3>3. op = "claim" => cur = 0
      BY <1>1, <3>1 DEF InHand
    <3>4. op # "claim" => cur \in Ids /\ tok \in 1..granted[cur] /\ Touched(cur)
      BY <3>1, JobInHand
    <3>. QED  BY <3>2, <3>3, <3>4
  <2>. QED  BY <2>1, <2>2
<1>3. \A m \in late' : \/ m.op = "claim" /\ m.job = 0
                       \/ m.op # "claim" /\ m.job \in Ids
                          /\ m.lease \in 1..granted'[m.job] /\ Touched(m.job)'
  <2> SUFFICES ASSUME NEW m \in late', NEW j \in Ids, m.job = j, m.op # "claim",
                      m.lease \in 1..granted[j], Touched(j)
               PROVE  m.lease \in 1..granted'[j] /\ Touched(j)'
    BY <1>2 DEF Touched
  <2>1. granted[j] \in Nat /\ granted'[j] \in Nat /\ granted'[j] >= granted[j]
    BY GrantsGrow DEF IInv, LeaseInv, TypeOK
  <2>. QED  BY <2>1, TouchedKept
<1>4. ASSUME NEW j \in report' PROVE j # cur' /\ journal'[j] # "none"
  <2>1. CASE j \in report
    <3>1. j \in Ids /\ j # cur /\ journal[j] # "none" /\ j # 0
      BY <1>1, <2>1, JobIds DEF UnderWay, PTypeOK
    <3>2. Touched(j)
      BY <1>1, <3>1, Evidence DEF OneTry, PTypeOK
    <3>3. j # cur'
      <4>1. CASE AgentClaim
        <5>1. status[cur'] = "queued"
          BY <4>1 DEF AgentClaim, Claim, Ready, IInv, LeaseInv, TypeOK
        <5>. QED  BY <3>2, <5>1 DEF Touched
      <4>2. CASE cur' \in {cur, 0}
        BY <3>1, <4>2
      <4>. QED  BY <4>1, <4>2, CurMoves
    <3>4. journal'[j] = journal[j]
      <4>1. CASE ReportAnswered
        BY <2>1, <4>1 DEF ReportAnswered
      <4>2. CASE StepDone \/ StepFails \/ FailureNoted
        BY <1>1, <3>1, <4>2 DEF StepDone, StepFails, FailureNoted, PTypeOK
      <4>3. CASE journal' = journal \/ Finished(FALSE) \/ Finished(TRUE)
        BY <1>1, <3>1, <4>3 DEF Finished, PTypeOK
      <4>. QED
        BY <4>1, <4>2, <4>3
        DEF PNext, TriggerDeploy, SettleRelease, ReportItem, HubClock, Sweep, HubRestart,
            AgentClaim, AgentStep, AgentStart, StartRejected,
            ReportSuccess, SuccessRejected, ReportFailure, Unanswered, ClaimUnanswered,
            StartUnanswered, SuccessUnanswered, FailureUnanswered, ReportUnanswered,
            AgentHeartbeat, Deadline, FailureAnswered, AgentCrash, AgentBoot, LateRequest
    <3>. QED  BY <3>1, <3>3, <3>4
  <2>2. CASE j \notin report
    <3>1. AgentBoot
      BY <2>2
      DEF PNext, TriggerDeploy, SettleRelease, ReportItem, HubClock, Sweep, HubRestart,
          AgentClaim, AgentStep, AgentStart, StartRejected, StepDone, StepFails, FailureNoted,
          ReportSuccess, SuccessRejected, ReportFailure, Unanswered, ClaimUnanswered,
          StartUnanswered, SuccessUnanswered, FailureUnanswered, ReportUnanswered,
          GiveUpOn, AgentHeartbeat, Deadline, FailureAnswered, AgentCrash,
          ReportAnswered, LateRequest
    <3>2. cur' = 0 /\ journal' = journal /\ j \in Journaled
      BY <1>1, <2>2, <3>1 DEF AgentBoot, InHand
    <3>. QED  BY <3>2, JobIds DEF Journaled
  <2>. QED  BY <2>1, <2>2
<1>. QED  BY <1>3, <1>4 DEF UnderWay, Touched


------------------------------------------------------------------------------
(* PrevWasLive and SettledOnce *)

\* What the bookkeeping of Deploys says of a job and its release.
LEMMA Bookkeeping ==
  ASSUME IInv
  PROVE  /\ rel \in [Rels -> {"none", "pending", "live", "superseded", "failed", "rolled_back"}]
         /\ prev \in [Rels -> Rels \cup {0}] /\ relOf \in [Ids -> Rels \cup {0}]
         /\ nextRel \in 1..(MaxReleases + 1) /\ settling \subseteq Ids
         /\ triggers \in [Callers -> D!Trigger]
         /\ \A j \in Ids : relOf[j] # 0 =>
              /\ relOf[j] \in Rels
              /\ \A i \in Ids : relOf[i] = relOf[j] => i = j
              /\ status[j] # "absent"
              /\ rel[relOf[j]] # "none"
              /\ rel[relOf[j]] \in {"live", "superseded"} => status[j] = "succeeded"
              /\ rel[relOf[j]] \in {"failed", "rolled_back"} => status[j] \in {"failed", "rolled_back"}
         /\ \A j \in Ids : status[j] # "absent" => relOf[j] # 0
         /\ \A r \in Rels : rel[r] \notin {"none", "pending"} => \E j \in Ids : relOf[j] = r
<1>1. D!TypeOK /\ D!JobsOwn /\ D!ReleaseTellsOutcome /\ D!DecidedByJob
  BY DEF IInv, D!ReleaseInv
<1>2. \A j \in Ids : status[j] = "absent" => j >= nextId
  BY DEF IInv, AgentInv, OneTry, LeaseInv, TypeOK
<1>3. \A j \in Ids : /\ PhaseSeen[j] # "forgotten"
                     /\ PhaseSeen[j] = "fresh" <=> status[j] = "absent"
                     /\ PhaseSeen[j] = "succeeded" => status[j] = "succeeded"
                     /\ PhaseSeen[j] = "failed" => status[j] = "failed"
                     /\ PhaseSeen[j] = "rolled_back" => status[j] = "rolled_back"
  BY <1>2 DEF PhaseSeen, Outcomes, IInv, LeaseInv, TypeOK
<1>4. /\ rel \in [Rels -> {"none", "pending", "live", "superseded", "failed", "rolled_back"}]
      /\ prev \in [Rels -> Rels \cup {0}] /\ relOf \in [Ids -> Rels \cup {0}]
      /\ nextRel \in 1..(MaxReleases + 1) /\ settling \subseteq Ids
      /\ triggers \in [Callers -> D!Trigger]
  BY <1>1 DEF D!TypeOK, D!Rels, D!ReleaseStatuses
<1>5. ASSUME NEW j \in Ids, relOf[j] # 0
      PROVE  /\ relOf[j] \in Rels
             /\ \A i \in Ids : relOf[i] = relOf[j] => i = j
             /\ status[j] # "absent"
             /\ rel[relOf[j]] # "none"
             /\ rel[relOf[j]] \in {"live", "superseded"} => status[j] = "succeeded"
             /\ rel[relOf[j]] \in {"failed", "rolled_back"} =>
                  status[j] \in {"failed", "rolled_back"}
  <2>1. relOf[j] \in Rels /\ status[j] # "absent" /\ \A i \in Ids : relOf[i] = relOf[j] => i = j
    BY <1>1, <1>3, <1>4, <1>5 DEF D!JobsOwn
  <2>2. rel[relOf[j]] # "none"
    BY <1>5 DEF IInv, AgentInv, SettledOnce
  <2>3. /\ rel[relOf[j]] \in {"live", "superseded"} => status[j] = "succeeded"
        /\ rel[relOf[j]] \in {"failed", "rolled_back"} => status[j] \in {"failed", "rolled_back"}
    BY <1>1, <1>3, <1>5 DEF D!ReleaseTellsOutcome
  <2>. QED  BY <2>1, <2>2, <2>3
<1>6. \A j \in Ids : status[j] # "absent" => relOf[j] # 0
  BY <1>1, <1>3 DEF D!JobsOwn
<1>7. \A r \in Rels : rel[r] \notin {"none", "pending"} => \E j \in Ids : relOf[j] = r
  BY <1>1 DEF D!DecidedByJob, D!Rels
<1>. QED  BY <1>4, <1>5, <1>6, <1>7

\* A call that is not yet linked owns a release no job and no other names.
LEMMA CallOwns ==
  ASSUME IInv, NEW c \in Callers, triggers[c].at # "idle"
  PROVE  /\ triggers[c].rel \in Rels /\ triggers[c].rel < nextRel
         /\ triggers[c].at # "link" =>
              /\ \A j \in Ids : relOf[j] # triggers[c].rel
              /\ rel[triggers[c].rel] \in {"none", "pending"}
         /\ triggers[c].at = "enqueue" => rel[triggers[c].rel] = "pending"
<1>1. D!TriggersOwn
  BY DEF IInv, D!ReleaseInv
<1>. QED  BY <1>1, Bookkeeping DEF D!TriggersOwn, D!Rels

\* A settlement makes a pending release live, or marks it failed, or does nothing.
LEMMA Settles ==
  ASSUME IInv, NEW j \in Ids, D!SettleDeployJob(j)
  PROVE  \/ UNCHANGED rel
         \/ /\ status[j] = "succeeded" /\ relOf[j] \in Rels /\ rel[relOf[j]] = "pending"
            /\ rel' = [i \in Rels |-> IF i = relOf[j] THEN "live"
                                      ELSE IF rel[i] = "live" THEN "superseded" ELSE rel[i]]
         \/ /\ status[j] = "failed" /\ relOf[j] \in Rels
            /\ rel[relOf[j]] \notin {"none", "live", "superseded"}
            /\ rel' = [rel EXCEPT ![relOf[j]] = "failed"]
<1>1. j \in settling
  BY DEF D!SettleDeployJob
<1>2. /\ PhaseSeen[j] = "succeeded" => status[j] = "succeeded"
      /\ PhaseSeen[j] \in {"failed", "rolled_back"} => status[j] = "failed" /\ PhaseSeen[j] = "failed"
  BY DEF PhaseSeen, Outcomes, IInv, AgentInv, OneTry
<1>3. CASE PhaseSeen[j] = "succeeded" /\ D!MarkLive(relOf[j])
  <2>1. relOf[j] \in Rels /\ rel[relOf[j]] = "pending"
    BY <1>1, <1>2, <1>3, Bookkeeping DEF IInv, AgentInv, SettledOnce
  <2>. QED  BY <1>2, <1>3, <2>1 DEF D!MarkLive, D!Rels
<1>4. CASE PhaseSeen[j] \in {"failed", "rolled_back"} /\ D!MarkRelease(relOf[j], PhaseSeen[j])
  <2>1. relOf[j] \in Rels /\ rel[relOf[j]] \notin {"none", "live", "superseded"}
    BY <1>2, <1>4, Bookkeeping
  <2>. QED  BY <1>2, <1>4, <2>1 DEF D!MarkRelease
<1>. QED  BY <1>3, <1>4 DEF D!SettleDeployJob

\* What a step does to the releases, with the jobs it is about.
LEMMA ReleaseEffect ==
  ASSUME IInv, PNext
  PROVE  \/ /\ UNCHANGED releaseVars
            /\ \A j \in Ids : status'[j] = "succeeded" => status[j] = "succeeded"
         \/ \E c \in Callers : TriggerDeploy(c)
         \/ \E j \in Ids : SettleRelease(j)
         \/ \E j \in Ids, o \in {"succeeded", "failed"} :
              D!Finish(j, o) /\ status' = [status EXCEPT ![j] = o]
         \/ \E j \in Ids : D!FalseFinish(j) /\ FailSide(j) /\ UNCHANGED status
         \/ D!HubRestart /\ UNCHANGED status
<1> USE DEF qvars, leaseVars
<1> DEFINE Same == /\ UNCHANGED releaseVars
                   /\ \A j \in Ids : status'[j] = "succeeded" => status[j] = "succeeded"
           Ends == \E j \in Ids, o \in {"succeeded", "failed"} :
                     D!Finish(j, o) /\ status' = [status EXCEPT ![j] = o]
<1>1. status \in [Ids -> Statuses]
  BY DEF IInv, LeaseInv, TypeOK
<1>2. ASSUME UNCHANGED <<releaseVars, status>> PROVE Same
  BY <1>2
<1>3. ASSUME NEW j \in Ids, NEW l, HubSucceed(j, l) PROVE Ends
  <2>1. D!Finish(j, "succeeded") /\ status' = [status EXCEPT ![j] = "succeeded"]
    BY <1>1, <1>3 DEF HubSucceed, Succeed, Release
  <2>. QED  BY <2>1
<1>4. CASE HubClock \/ Sweep
  BY <1>4 DEF HubClock, Tick, Sweep, RecoverRequeue, RecoverUnknown, Release
<1>5. CASE HubRestart
  BY <1>5 DEF HubRestart, Restart
<1>6. CASE AgentClaim
  BY <1>1, <1>6 DEF AgentClaim, Claim, Ready
<1>7. CASE AgentStart
  BY <1>1, <1>7 DEF AgentStart, Start
<1>8. CASE ReportSuccess
  BY <1>3, <1>8, JobInHand DEF ReportSuccess
<1>9. CASE ReportFailure \/ AgentHeartbeat
  BY <1>9 DEF ReportFailure, FailRead, AgentHeartbeat, Heartbeat
<1>10. ASSUME NEW c \in calls, FailureAnswered(c)
       PROVE  Ends \/ \E j \in Ids : D!FalseFinish(j) /\ FailSide(j) /\ UNCHANGED status
  <2>1. Answer(c) = "failed" /\ c.job \in Ids
    BY DEF IInv, AgentInv, CallsFinal, Answer, LeaseInv, TypeOK, Call
  <2>2. CASE Holds(c.job, c.lease) /\ D!Finish(c.job, Answer(c))
    <3>1. status' = [status EXCEPT ![c.job] = "failed"]
      BY <1>1, <1>10, <2>1, <2>2 DEF FailureAnswered, HubFail, FailWrite, Release
    <3>. QED  BY <2>1, <2>2, <3>1
  <2>3. CASE ~Holds(c.job, c.lease) /\ D!FalseFinish(c.job)
    <3>1. UNCHANGED status
      BY <1>10, <2>3 DEF FailureAnswered, HubFail, FailWrite
    <3>2. FailSide(c.job)
      BY <2>1, Evidence
    <3>. QED  BY <2>1, <2>3, <3>1, <3>2
  <2>. QED  BY <1>10, <2>2, <2>3 DEF FailureAnswered, HubFail
<1>11. ASSUME NEW j \in Ids, ReportItem(j) PROVE Same \/ Ends
  <2>1. CASE UNCHANGED <<qvars, releaseVars>>
    BY <2>1
  <2>2. CASE Reconcile(j, OutcomeOf(journal[j])) /\ D!Finish(j, OutcomeOf(journal[j]))
    <3>1. OutcomeOf(journal[j]) \in {"succeeded", "failed"}
      BY DEF OutcomeOf
    <3>2. status' = [status EXCEPT ![j] = OutcomeOf(journal[j])]
      BY <2>2 DEF Reconcile
    <3>. QED  BY <2>2, <3>1, <3>2
  <2>. QED  BY <1>11, <2>1, <2>2 DEF ReportItem
<1>12. ASSUME NEW m \in late, LateRequest(m) PROVE Same \/ Ends
  <2>1. m.op # "claim" => m.job \in Ids
    BY DEF IInv, AgentInv, UnderWay
  <2>2. CASE m.op = "succeed" /\ HubSucceed(m.job, m.lease)
    BY <1>3, <2>1, <2>2
  <2>3. CASE Claim(Deploy, Host) /\ UNCHANGED releaseVars
    BY <1>1, <2>3 DEF Claim, Ready
  <2>4. CASE Start(m.job, m.lease) /\ UNCHANGED releaseVars
    BY <1>1, <2>4 DEF Start
  <2>5. CASE FailRead(m.job, m.lease, FALSE) /\ UNCHANGED releaseVars
    BY <2>5 DEF FailRead
  <2>6. CASE UNCHANGED <<qvars, releaseVars>>
    BY <2>6
  <2>. QED  BY <1>12, <2>2, <2>3, <2>4, <2>5, <2>6 DEF LateRequest
<1>13. CASE \/ StepDone \/ StepFails \/ FailureNoted \/ StartRejected \/ SuccessRejected
            \/ Unanswered \/ Deadline \/ AgentCrash \/ AgentBoot \/ ReportAnswered
  BY <1>2, <1>13
  DEF StepDone, StepFails, FailureNoted, StartRejected, SuccessRejected, Unanswered,
      ClaimUnanswered,
      StartUnanswered, SuccessUnanswered, FailureUnanswered, ReportUnanswered, GiveUpOn,
      Deadline, AgentCrash, AgentBoot, ReportAnswered
<1>. QED
  BY <1>4, <1>5, <1>6, <1>7, <1>8, <1>9, <1>10, <1>11, <1>12, <1>13 DEF PNext, AgentStep

\* Rows of releases change when a call inserts one and when a job is settled.
LEMMA RowsOfReleases ==
  ASSUME IInv, PNext
  PROVE  \/ UNCHANGED <<rel, prev>>
         \/ UNCHANGED agentVars /\ \E c \in Callers : D!CreateRelease(c)
         \/ UNCHANGED <<agentVars, prev>> /\ \E j \in Ids : D!SettleDeployJob(j)
<1>1. CASE \E c \in Callers : TriggerDeploy(c)
  BY <1>1 DEF TriggerDeploy, D!BuildSpec, D!RollbackSpec, D!Freeze, D!Dedupe, D!LinkJob,
              D!EnqueueJob, D!releases
<1>2. CASE \E j \in Ids : SettleRelease(j)
  BY <1>2 DEF SettleRelease, D!SettleDeployJob
<1>3. CASE \/ UNCHANGED releaseVars \/ D!HubRestart
           \/ \E j \in Ids, o \in {"succeeded", "failed"} : D!Finish(j, o)
           \/ \E j \in Ids : D!FalseFinish(j)
  BY <1>3 DEF releaseVars, D!HubRestart, D!Finish, D!FalseFinish, D!releases
<1>. QED  BY <1>1, <1>2, <1>3, ReleaseEffect

\* A release that was live stays one that was; a release that a job names does
\* not become pending again; a row is not deleted.
LEMMA ReleaseMoves ==
  ASSUME IInv, PNext, NEW r \in Rels
  PROVE  /\ rel[r] \in {"live", "superseded"} => rel'[r] \in {"live", "superseded"}
         /\ rel[r] # "none" => rel'[r] # "none"
         /\ (\E j \in Ids : relOf[j] = r) /\ rel'[r] = "pending" => rel[r] = "pending"
<1>1. CASE UNCHANGED rel
  BY <1>1
<1>2. ASSUME NEW c \in Callers, D!CreateRelease(c)
      PROVE  /\ rel[r] \in {"live", "superseded"} => rel'[r] \in {"live", "superseded"}
             /\ rel[r] # "none" => rel'[r] # "none"
             /\ (\E j \in Ids : relOf[j] = r) /\ rel'[r] = "pending" => rel[r] = "pending"
  <2>1. /\ triggers[c].at = "create" /\ triggers[c].rel \in Rels
        /\ rel' = [rel EXCEPT ![triggers[c].rel] = "pending"]
        /\ \A j \in Ids : relOf[j] # triggers[c].rel
        /\ rel[triggers[c].rel] \in {"none", "pending"}
    BY <1>2, CallOwns DEF D!CreateRelease
  <2>. QED  BY <2>1, Bookkeeping
<1>3. ASSUME NEW j \in Ids, D!SettleDeployJob(j)
      PROVE  /\ rel[r] \in {"live", "superseded"} => rel'[r] \in {"live", "superseded"}
             /\ rel[r] # "none" => rel'[r] # "none"
             /\ (\E i \in Ids : relOf[i] = r) /\ rel'[r] = "pending" => rel[r] = "pending"
  <2>1. rel \in [Rels -> {"none", "pending", "live", "superseded", "failed", "rolled_back"}]
    BY Bookkeeping
  <2>2. CASE /\ relOf[j] \in Rels /\ rel[relOf[j]] = "pending"
             /\ rel' = [i \in Rels |-> IF i = relOf[j] THEN "live"
                                       ELSE IF rel[i] = "live" THEN "superseded" ELSE rel[i]]
    BY <2>1, <2>2
  <2>3. CASE /\ relOf[j] \in Rels /\ rel[relOf[j]] \notin {"none", "live", "superseded"}
             /\ rel' = [rel EXCEPT ![relOf[j]] = "failed"]
    BY <2>1, <2>3
  <2>. QED  BY <1>1, <1>3, <2>2, <2>3, Settles
<1>. QED  BY <1>1, <1>2, <1>3, RowsOfReleases

LEMMA WasLiveKept ==
  ASSUME IInv, PNext, NEW p \in Rels \cup {0}, NEW r \in Rels, WasLive(p, r)
  PROVE  WasLive(p, r)'
BY ReleaseMoves DEF WasLive

\* What the calls in progress say of releases comes of an earlier step of the
\* call, or is drawn now with the release that is live.
LEMMA CallsMove ==
  ASSUME IInv, PNext, NEW c \in Callers, triggers'[c].at # "idle"
  PROVE  \/ /\ triggers[c].at # "idle" /\ triggers'[c].rel = triggers[c].rel
            /\ triggers'[c].prev = triggers[c].prev /\ triggers'[c].key = triggers[c].key
         \/ /\ triggers'[c].rel = nextRel /\ nextRel \in Rels
            /\ triggers'[c].key = nextRel
            /\ triggers'[c].prev \in Rels \cup {0} /\ WasLive(triggers'[c].prev, nextRel)
<1> DEFINE Kept == /\ triggers[c].at # "idle" /\ triggers'[c].rel = triggers[c].rel
                   /\ triggers'[c].prev = triggers[c].prev /\ triggers'[c].key = triggers[c].key
           Drawn == /\ triggers'[c].rel = nextRel /\ nextRel \in Rels
                    /\ triggers'[c].key = nextRel
                    /\ triggers'[c].prev \in Rels \cup {0} /\ WasLive(triggers'[c].prev, nextRel)
<1>1. triggers \in [Callers -> D!Trigger] /\ PrevWasLive
  BY Bookkeeping DEF IInv, AgentInv
<1>2. ASSUME NEW d \in Callers, NEW p \in Rels \cup {0}, D!Freeze(d, NULL, p), WasLive(p, nextRel)
      PROVE  Kept \/ Drawn
  <2>1. CASE c = d
    BY <1>1, <1>2, <2>1, Zenon DEF D!Freeze, D!Rels
  <2>2. CASE c # d
    BY <1>1, <1>2, <2>2 DEF D!Freeze
  <2>. QED  BY <2>1, <2>2
<1>3. ASSUME NEW d \in Callers, TriggerDeploy(d) PROVE Kept \/ Drawn
  <2>1. CASE D!BuildSpec(d, NULL)
    <3>1. D!LiveRelease = 0 \/ (D!LiveRelease \in Rels /\ rel[D!LiveRelease] = "live")
      BY DEF D!LiveRelease, D!Lives, D!Rels
    <3>2. D!LiveRelease \in Rels \cup {0} /\ WasLive(D!LiveRelease, nextRel)
      BY <1>1, <3>1 DEF WasLive, PrevWasLive
    <3>. QED  BY <1>2, <2>1, <3>2, Zenon DEF D!BuildSpec
  <2>2. ASSUME NEW t \in Rels, D!RollbackSpec(d, t) PROVE Kept \/ Drawn
    <3>1. prev[t] \in Rels \cup {0} /\ t < nextRel /\ WasLive(prev[t], t)
      BY <1>1, <2>2, Bookkeeping DEF D!RollbackSpec, PrevWasLive
    <3>2. nextRel \in Nat /\ MaxReleases \in Nat
      BY Bookkeeping, Counts
    <3>3. WasLive(prev[t], nextRel)
      BY <3>1, <3>2 DEF WasLive
    <3>. QED  BY <1>2, <2>2, <3>1, <3>3, Zenon DEF D!RollbackSpec
  <2>3. CASE D!Dedupe(d) \/ D!CreateRelease(d) \/ D!EnqueueJob(d) \/ D!LinkJob(d)
    <3>1. CASE c # d
      BY <1>1, <2>3, <3>1 DEF D!Dedupe, D!CreateRelease, D!EnqueueJob, D!LinkJob
    <3>2. CASE c = d
      <4>1. CASE D!Dedupe(d) \/ D!LinkJob(d)
        BY <1>1, <2>3, <3>2, <4>1 DEF D!Dedupe, D!LinkJob, D!NoTrigger, D!Trigger
      <4>2. CASE D!CreateRelease(d)
        BY <1>1, <3>2, <4>2 DEF D!CreateRelease, D!Trigger
      <4>3. CASE D!EnqueueJob(d)
        BY <1>1, <3>2, <4>3 DEF D!EnqueueJob, D!Trigger
      <4>. QED  BY <2>3, <4>1, <4>2, <4>3
    <3>. QED  BY <3>1, <3>2
  <2>. QED  BY <1>3, <2>1, <2>2, <2>3 DEF TriggerDeploy
<1>4. CASE UNCHANGED triggers
  BY <1>4
<1>5. CASE D!HubRestart
  BY <1>5 DEF D!HubRestart, D!NoTrigger
<1>6. UNCHANGED triggers \/ D!HubRestart \/ \E d \in Callers : TriggerDeploy(d)
  BY ReleaseEffect DEF releaseVars, SettleRelease, D!SettleDeployJob, D!Finish, D!FalseFinish
<1>. QED  BY <1>3, <1>4, <1>5, <1>6

LEMMA PrevWasLiveStep == ASSUME IInv, PNext PROVE PrevWasLive'
<1>1. PrevWasLive /\ nextRel \in Nat /\ nextRel' \in Nat /\ nextRel' >= nextRel
  <2>1. nextRel \in Nat
    BY Bookkeeping, Counts
  <2>2. nextRel' = nextRel \/ nextRel' = nextRel + 1
    BY StepOfReleases, Zenon
    DEF D!Next, D!BuildSpec, D!RollbackSpec, D!Freeze, D!TriggerStep, D!Dedupe,
        D!CreateRelease, D!EnqueueJob, D!LinkJob, D!Finish, D!FalseFinish,
        D!SettleDeployJob, D!Forget, D!HubRestart, D!dvars
  <2>. QED  BY <2>1, <2>2 DEF IInv, AgentInv
<1>2. rel \in [Rels -> {"none", "pending", "live", "superseded", "failed", "rolled_back"}]
      /\ prev \in [Rels -> Rels \cup {0}] /\ triggers \in [Callers -> D!Trigger]
  BY Bookkeeping
<1>3. ASSUME NEW r \in Rels
      PROVE  prev'[r] \in Rels \cup {0} /\ WasLive(prev'[r], r) /\ (rel'[r] # "none" => r < nextRel')
  <2>1. WasLive(prev[r], r) /\ (rel[r] # "none" => r < nextRel)
    BY <1>1 DEF PrevWasLive
  <2>2. CASE \E c \in Callers : D!CreateRelease(c)
    <3>1. PICK c \in Callers : D!CreateRelease(c)
      BY <2>2
    <3>2. /\ triggers[c].rel \in Rels /\ triggers[c].rel < nextRel
          /\ WasLive(triggers[c].prev, triggers[c].rel) /\ triggers[c].prev \in Rels \cup {0}
      BY <1>1, <1>2, <3>1, CallOwns DEF D!CreateRelease, PrevWasLive, D!Trigger, D!Rels
    <3>3. CASE r = triggers[c].rel
      BY <1>1, <1>2, <3>1, <3>2, <3>3 DEF D!CreateRelease
    <3>4. CASE r # triggers[c].rel
      BY <1>1, <1>2, <2>1, <3>1, <3>2, <3>4 DEF D!CreateRelease
    <3>. QED  BY <3>3, <3>4
  <2>3. CASE UNCHANGED prev /\ \E j \in Ids : D!SettleDeployJob(j)
    <3>1. rel'[r] # "none" => rel[r] # "none"
      BY <1>2, <2>3, Settles
    <3>. QED  BY <1>1, <1>2, <2>1, <2>3, <3>1
  <2>4. CASE UNCHANGED <<rel, prev>>
    BY <1>1, <1>2, <2>1, <2>4
  <2>. QED  BY <2>2, <2>3, <2>4, RowsOfReleases
<1>4. ASSUME NEW c \in Callers, triggers'[c].at # "idle"
      PROVE  /\ triggers'[c].key \in Rels /\ triggers'[c].rel \in Rels
             /\ triggers'[c].prev \in Rels \cup {0} /\ WasLive(triggers'[c].prev, triggers'[c].rel)
  <2>1. CASE /\ triggers[c].at # "idle" /\ triggers'[c].rel = triggers[c].rel
             /\ triggers'[c].prev = triggers[c].prev /\ triggers'[c].key = triggers[c].key
    BY <1>1, <1>2, <2>1, CallOwns DEF PrevWasLive, D!Trigger, D!Rels
  <2>. QED  BY <1>4, <2>1, CallsMove
<1>5. \A p \in Rels \cup {0}, r \in Rels : WasLive(p, r) => WasLive(p, r)'
  BY WasLiveKept
<1>. QED  BY <1>3, <1>4, <1>5 DEF PrevWasLive, WasLive

\* The job a call enqueues names the release that the call created.
LEMMA JobsNamed ==
  ASSUME IInv, PNext, NEW j \in Ids, relOf[j] = 0, relOf'[j] # 0
  PROVE  rel'[relOf'[j]] # "none"
<1>1. PICK c \in Callers : D!EnqueueJob(c)
  BY StepOfReleases
  DEF D!Next, D!BuildSpec, D!RollbackSpec, D!Freeze, D!TriggerStep, D!Dedupe,
      D!CreateRelease, D!LinkJob, D!Finish, D!FalseFinish, D!SettleDeployJob, D!Forget,
      D!HubRestart, D!dvars, D!rows
<1>2. PICK i \in Ids : UNCHANGED relOf \/ relOf' = [relOf EXCEPT ![i] = triggers[c].rel]
  BY <1>1 DEF D!EnqueueJob, D!rows
<1>3. relOf \in [Ids -> Rels \cup {0}] /\ rel' = rel
  BY <1>1, Bookkeeping DEF D!EnqueueJob, D!releases
<1>4. relOf'[j] = triggers[c].rel
  BY <1>2, <1>3
<1>5. rel[triggers[c].rel] = "pending"
  BY <1>1, CallOwns DEF D!EnqueueJob
<1>. QED  BY <1>3, <1>4, <1>5

LEMMA SettledOnceStep == ASSUME IInv, PNext PROVE SettledOnce'
<1> SUFFICES ASSUME NEW j \in Ids
             PROVE  /\ relOf'[j] # 0 => rel'[relOf'[j]] # "none"
                    /\ j \in settling' /\ status'[j] = "succeeded" =>
                         rel'[relOf'[j]] = "pending"
  BY DEF SettledOnce
<1>1. /\ status \in [Ids -> Statuses]
      /\ rel \in [Rels -> {"none", "pending", "live", "superseded", "failed", "rolled_back"}]
      /\ relOf \in [Ids -> Rels \cup {0}]
  BY Bookkeeping DEF IInv, LeaseInv, TypeOK
<1>2. relOf'[j] # 0 => rel'[relOf'[j]] # "none"
  <2>1. CASE relOf[j] # 0
    BY <1>1, <2>1, Bookkeeping, SpecFrozen, ReleaseMoves
  <2>2. CASE relOf[j] = 0
    BY <2>2, JobsNamed
  <2>. QED  BY <2>1, <2>2
<1>3. ASSUME j \in settling', status'[j] = "succeeded" PROVE rel'[relOf'[j]] = "pending"
  <2>1. j \in settling /\ status[j] = "succeeded" => relOf[j] \in Rels /\ rel[relOf[j]] = "pending"
    BY Bookkeeping DEF IInv, AgentInv, SettledOnce
  <2>2. relOf[j] # 0 => relOf'[j] = relOf[j] /\ relOf[j] \in Rels
    BY Bookkeeping, SpecFrozen
  <2>3. CASE /\ UNCHANGED releaseVars
             /\ \A i \in Ids : status'[i] = "succeeded" => status[i] = "succeeded"
    BY <1>3, <2>1, <2>3 DEF releaseVars
  <2>4. ASSUME NEW c \in Callers, TriggerDeploy(c) PROVE rel'[relOf'[j]] = "pending"
    <3>1. status[j] = "succeeded"
      BY <1>1, <1>3, <2>4 DEF TriggerDeploy, Enqueue, qvars, leaseVars
    <3>2. settling' = settling
      BY <2>4 DEF TriggerDeploy, D!BuildSpec, D!RollbackSpec, D!Freeze, D!Dedupe,
                  D!CreateRelease, D!LinkJob, D!EnqueueJob
    <3>3. rel[relOf[j]] = "pending" /\ relOf[j] \in Rels /\ relOf'[j] = relOf[j] /\ relOf[j] # 0
      BY <1>3, <2>1, <2>2, <3>1, <3>2
    <3>4. CASE UNCHANGED rel
      BY <3>3, <3>4
    <3>5. ASSUME NEW d \in Callers, D!CreateRelease(d) PROVE rel'[relOf[j]] = "pending"
      BY <1>1, <3>3, <3>5 DEF D!CreateRelease
    <3>6. ASSUME NEW i \in Ids, D!SettleDeployJob(i) PROVE FALSE
      BY <2>4, <3>2, <3>6 DEF D!SettleDeployJob
    <3>. QED  BY <3>3, <3>4, <3>5, <3>6, RowsOfReleases
  <2>5. ASSUME NEW i \in Ids, SettleRelease(i) PROVE rel'[relOf'[j]] = "pending"
    <3>1. D!SettleDeployJob(i) /\ settling' = settling \ {i} /\ UNCHANGED status
      BY <2>5 DEF SettleRelease, D!SettleDeployJob, qvars, leaseVars
    <3>2. j # i /\ rel[relOf[j]] = "pending" /\ relOf[j] \in Rels /\ relOf[j] # 0
      BY <1>3, <2>1, <3>1
    <3>3. relOf[i] # relOf[j]
      BY <3>2, Bookkeeping
    <3>4. CASE /\ relOf[i] \in Rels
               /\ rel' = [r \in Rels |-> IF r = relOf[i] THEN "live"
                                         ELSE IF rel[r] = "live" THEN "superseded" ELSE rel[r]]
      BY <2>2, <3>2, <3>3, <3>4
    <3>5. CASE UNCHANGED rel \/ rel' = [rel EXCEPT ![relOf[i]] = "failed"]
      BY <1>1, <2>2, <3>2, <3>3, <3>5
    <3>. QED  BY <3>1, <3>4, <3>5, Settles
  <2>6. ASSUME NEW i \in Ids, NEW o \in {"succeeded", "failed"},
               D!Finish(i, o), status' = [status EXCEPT ![i] = o]
        PROVE  rel'[relOf'[j]] = "pending"
    <3>1. UNCHANGED <<rel, relOf>> /\ settling' = settling \cup {i} /\ PhaseSeen[i] = "open"
      BY <2>6 DEF D!Finish, D!releases
    <3>2. CASE i # j
      BY <1>1, <1>3, <2>1, <2>6, <3>1, <3>2
    <3>3. CASE i = j
      <4>1. status[j] \notin {"absent", "succeeded", "failed", "rolled_back"}
        BY <3>1, <3>3 DEF PhaseSeen, Outcomes
      <4>2. relOf[j] # 0 /\ relOf[j] \in Rels /\ rel[relOf[j]] = "pending"
        BY <1>1, <4>1, Bookkeeping
      <4>. QED  BY <3>1, <4>2
    <3>. QED  BY <3>2, <3>3
  <2>7. ASSUME NEW i \in Ids, D!FalseFinish(i), FailSide(i), UNCHANGED status
        PROVE  rel'[relOf'[j]] = "pending"
    <3>1. UNCHANGED <<rel, relOf>> /\ settling' = settling \cup {i}
      BY <2>7 DEF D!FalseFinish, D!rows, D!releases
    <3>2. status[i] # "succeeded"
      BY <2>7, Evidence DEF IInv, AgentInv, OneTry
    <3>. QED  BY <1>3, <2>1, <2>7, <3>1, <3>2
  <2>8. CASE D!HubRestart
    BY <1>3, <2>8 DEF D!HubRestart
  <2>. QED  BY <2>3, <2>4, <2>5, <2>6, <2>7, <2>8, ReleaseEffect
<1>. QED  BY <1>2, <1>3



------------------------------------------------------------------------------
(* SuccessProven, Spare, LiveIsUp *)

\* Containers change in three steps of the agent; a stop marks its job.
LEMMA BoxMoves ==
  ASSUME PNext
  PROVE  \/ UNCHANGED box
         \/ StepFails
         \/ /\ pc = "run" /\ box' = Boxes("run")
            /\ (StepDone \/ AgentCrash) /\ UNCHANGED releaseVars
         \/ /\ pc = "stop" /\ box' = Boxes("stop") /\ swapped' = swapped \cup {cur}
            /\ (StepDone \/ AgentCrash) /\ UNCHANGED releaseVars
<1>1. CASE StepDone
  <2>1. CASE pc \in {"run", "stop"}
    BY <1>1, <2>1 DEF StepDone
  <2>2. CASE pc \notin {"run", "stop"}
    BY <1>1, <2>2 DEF StepDone, Boxes
  <2>. QED  BY <2>1, <2>2
<1>2. CASE AgentCrash
  BY <1>2 DEF AgentCrash
<1>3. CASE Finished(TRUE) \/ Finished(FALSE) \/ UNCHANGED agentVars
  BY <1>3 DEF Finished, agentVars
<1>. QED
  BY <1>1, <1>2, <1>3
  DEF PNext, TriggerDeploy, SettleRelease, ReportItem, HubClock, Sweep, HubRestart,
      AgentClaim, AgentStep, AgentStart, StartRejected, FailureNoted, ReportSuccess, SuccessRejected,
      ReportFailure, Unanswered, ClaimUnanswered, StartUnanswered, SuccessUnanswered,
      FailureUnanswered, ReportUnanswered, AgentHeartbeat, Deadline, FailureAnswered,
      AgentBoot, ReportAnswered, LateRequest

\* What was proven or swapped stays so; a proof is made by a healthcheck.
LEMMA HistoryGrows ==
  ASSUME PNext
  PROVE  /\ swapped \subseteq swapped' /\ cut \subseteq cut'
         /\ \/ swapped' = swapped
            \/ pc = "stop" /\ swapped' = swapped \cup {cur}
         /\ \/ cut' = cut
            \/ pc = "cleanup" /\ AgentCrash /\ cut' = cut \cup {cur}
         /\ \/ proven' = proven
            \/ StepDone /\ pc = "healthcheck" /\ proven' = proven \cup {Mine}
<1>1. CASE StepDone \/ StepFails \/ FailureNoted
  BY <1>1 DEF StepDone, StepFails, FailureNoted
<1>3. CASE AgentCrash
  <2>1. /\ cut' = cut \/ (pc = "cleanup" /\ cut' = cut \cup {cur})
        /\ swapped' = swapped \/ (pc = "stop" /\ swapped' = swapped \cup {cur})
        /\ proven' = proven
    BY <1>3 DEF AgentCrash
  <2>. QED  BY <1>3, <2>1
<1>2. CASE Finished(TRUE) \/ Finished(FALSE) \/ UNCHANGED agentVars
  BY <1>2 DEF Finished, agentVars
<1>. QED
  BY <1>1, <1>2, <1>3
  DEF PNext, TriggerDeploy, SettleRelease, ReportItem, HubClock, Sweep, HubRestart,
      AgentClaim, AgentStep, AgentStart, StartRejected, ReportSuccess, SuccessRejected,
      ReportFailure, Unanswered, ClaimUnanswered, StartUnanswered, SuccessUnanswered,
      FailureUnanswered, ReportUnanswered, AgentHeartbeat, Deadline, FailureAnswered,
      AgentBoot, ReportAnswered, LateRequest

\* The job in hand was not cut off, and the one that is cut off is let go.
LEMMA CutIsOverStep == ASSUME IInv, PNext PROVE CutIsOver'
<1> SUFFICES ASSUME NEW j \in cut' PROVE j # cur' /\ j \notin swapped' /\ Touched(j)'
  BY DEF CutIsOver
<1>1. CASE j \in cut
  <2>1. j \in Ids /\ j # cur /\ j \notin swapped /\ Touched(j) /\ j # 0
    BY <1>1, JobIds DEF IInv, PTypeOK, AgentInv, CutIsOver
  <2>2. j # cur'
    <3>1. CASE AgentClaim
      <4>1. status[cur'] = "queued"
        BY <3>1 DEF AgentClaim, Claim, Ready, IInv, LeaseInv, TypeOK
      <4>. QED  BY <2>1, <4>1 DEF Touched
    <3>2. CASE cur' \in {cur, 0}
      BY <2>1, <3>2
    <3>. QED  BY <3>1, <3>2, CurMoves
  <2>. QED  BY <2>1, <2>2, HistoryGrows, TouchedKept
<1>2. CASE pc = "cleanup" /\ AgentCrash /\ j = cur
  <2>1. cur \in Ids /\ cur # 0 /\ Touched(cur)
    BY <1>2, JobInHand
  <2>2. cur \notin swapped /\ swapped' = swapped /\ cur' = 0
    BY <1>2, <2>1, HistoryGrows DEF IInv, AgentInv, InHand, AgentCrash
  <2>. QED  BY <1>2, <2>1, <2>2, TouchedKept
<1>. QED  BY <1>1, <1>2, HistoryGrows

\* The release of the job in hand is pending, and is not the one it replaces.
LEMMA MineIsOpen ==
  ASSUME IInv, pc \notin {"off", "idle", "report"}
  PROVE  /\ Mine \in Rels /\ rel[Mine] = "pending"
         /\ prev[Mine] # Mine /\ (prev[Mine] \in Rels => rel[prev[Mine]] # "pending")
<1>1. /\ cur \in Ids /\ cur # 0 /\ relOf[cur] \in Rels
      /\ status[cur] \in {"claimed", "running", "unknown"}
  BY JobInHand DEF IInv, AgentInv, InHand
<1>2. relOf[cur] # 0 /\ rel[relOf[cur]] = "pending"
  BY <1>1, Bookkeeping
<1>3. WasLive(prev[relOf[cur]], relOf[cur])
  BY <1>1 DEF IInv, AgentInv, PrevWasLive
<1>. QED  BY <1>1, <1>2, <1>3 DEF Mine, WasLive

\* A success of the job in hand is told by its journal: its container is up, but
\* for fail().
LEMMA WonInHand ==
  ASSUME IInv, cur \in Ids, SuccSide(cur)
  PROVE  /\ pc \in {"stop", "cleanup"} \cup Won
         /\ pc = "cleanup" => journal[cur] = "stopping_prev"
         /\ Mine \in proven /\ Mine \in Rels
         /\ pc # "cleanup" => box[Mine] = "up"
<1>1. cur # 0 /\ InHand
  BY JobIds DEF IInv, AgentInv
<1>2. pc \notin {"off", "idle", "report"} /\ pc \in PCs
  BY <1>1 DEF InHand, IInv, PTypeOK
<1>3. /\ pc \in {"stop", "cleanup"} \cup Won
      /\ pc = "cleanup" => journal[cur] = "stopping_prev"
  BY <1>1, <1>2 DEF SuccSide, Given, InHand, PCs, Executing, JournalSteps, Won
<1>4. pc # "cleanup" => box[Mine] = "up"
  BY <1>1, <1>3 DEF InHand, Mine
<1>5. Mine \in proven
  BY DEF IInv, AgentInv, SuccessProven, Mine
<1>. QED  BY <1>2, <1>3, <1>4, <1>5, MineIsOpen

\* The stop step is past the point where its journal tells success.
LEMMA StopIsWon == ASSUME IInv, pc = "stop" PROVE cur \in Ids /\ SuccSide(cur)
BY JobInHand DEF IInv, AgentInv, InHand, SuccSide, Won

\* Nothing but a failure takes down a container whose release is pending.
LEMMA PendingStaysUp ==
  ASSUME IInv, PNext, ~StepFails, NEW r \in Rels, box[r] = "up", rel[r] = "pending"
  PROVE  box'[r] = "up"
<1>1. box \in [Rels -> {"none", "up", "down"}]
  BY DEF IInv, PTypeOK
<1>2. CASE pc = "run" /\ box' = Boxes("run")
  BY <1>1, <1>2 DEF Boxes
<1>3. CASE pc = "stop" /\ box' = Boxes("stop")
  BY <1>1, <1>3, MineIsOpen DEF Boxes
<1>. QED  BY <1>2, <1>3, BoxMoves

\* fail() is left by the journal entry or by death alone.
LEMMA CleanupEnds ==
  ASSUME IInv, PNext, pc = "cleanup"
  PROVE  FailureNoted \/ AgentCrash \/ UNCHANGED <<pc, cur, box>>
<1>1. CASE UNCHANGED agentVars
  BY <1>1 DEF agentVars
<1>. QED
  BY <1>1
  DEF PNext, TriggerDeploy, SettleRelease, ReportItem, HubClock, Sweep, HubRestart,
      AgentClaim, AgentStep, AgentStart, StartRejected, StepDone, NextStep, StepFails,
      ReportSuccess, SuccessRejected, ReportFailure, Unanswered, ClaimUnanswered,
      StartUnanswered, SuccessUnanswered, FailureUnanswered, ReportUnanswered,
      AgentHeartbeat, Deadline, FailureAnswered, AgentBoot, ReportAnswered, LateRequest

\* A success that fail() is about to undo fails, or is cut off, or had nothing
\* removed.
LEMMA DroppedStays ==
  ASSUME IInv, PNext, NEW j \in Ids, SuccSide(j), SuccSide(j)', Dropped(j)
  PROVE  Dropped(j)' \/ box'[relOf[j]] = "up"
<1>1. CASE j \in cut
  BY <1>1, HistoryGrows DEF Dropped
<1>2. CASE j = cur /\ pc = "cleanup"
  <2>1. ~FailureNoted
    BY <1>2, EvidenceMoves DEF FailureNoted, NextStep
  <2>2. CASE AgentCrash
    <3>1. journal[cur] = "stopping_prev"
      BY <1>2, WonInHand
    <3>. QED  BY <1>2, <2>2, <3>1 DEF AgentCrash, Dropped, Mine
  <2>3. CASE UNCHANGED <<pc, cur, box>>
    BY <1>2, <2>3 DEF Dropped
  <2>. QED  BY <1>2, <2>1, <2>2, <2>3, CleanupEnds
<1>. QED  BY <1>1, <1>2 DEF Dropped

LEMMA SuccessProvenStep == ASSUME IInv, PNext PROVE SuccessProven'
<1>1. ASSUME NEW r \in proven' PROVE \E j \in Ids : relOf'[j] = r /\ Touched(j)'
  <2>1. PICK j \in Ids : relOf[j] = r /\ Touched(j)
    <3>1. CASE r \in proven
      BY <3>1 DEF IInv, AgentInv, SuccessProven
    <3>2. CASE pc = "healthcheck" /\ r = Mine
      BY <3>2, JobInHand DEF Mine
    <3>. QED  BY <3>1, <3>2, HistoryGrows
  <2>2. relOf[j] # 0
    BY <2>1, Bookkeeping DEF Touched
  <2>. QED  BY <2>1, <2>2, SpecFrozen, TouchedKept
<1>2. ASSUME NEW j \in Ids, SuccSide(j)'
      PROVE  /\ relOf'[j] \in proven'
             /\ rel'[relOf'[j]] = "pending" => box'[relOf'[j]] = "up" \/ Dropped(j)'
  <2>1. CASE SuccSide(j)
    <3>1. /\ relOf[j] \in proven
          /\ rel[relOf[j]] = "pending" => box[relOf[j]] = "up" \/ Dropped(j)
          /\ Touched(j)
      BY <2>1 DEF IInv, AgentInv, SuccessProven, OneTry
    <3>2. relOf[j] \in Rels /\ relOf[j] # 0 /\ relOf'[j] = relOf[j]
      BY <3>1, ReleaseOfJob, SpecFrozen
    <3>3. relOf[j] \in proven'
      BY <3>1, HistoryGrows
    <3>4. ASSUME rel'[relOf[j]] = "pending" PROVE box'[relOf[j]] = "up" \/ Dropped(j)'
      <4>1. rel[relOf[j]] = "pending" /\ (box[relOf[j]] = "up" \/ Dropped(j))
        BY <3>1, <3>2, <3>4, ReleaseMoves
      <4>2. CASE Dropped(j)
        BY <1>2, <2>1, <4>2, DroppedStays
      <4>3. CASE box[relOf[j]] = "up" /\ ~StepFails
        BY <3>2, <4>1, <4>3, PendingStaysUp
      <4>4. CASE box[relOf[j]] = "up" /\ StepFails /\ j = cur
        BY <4>4 DEF StepFails, Dropped
      <4>5. CASE box[relOf[j]] = "up" /\ StepFails /\ j # cur
        <5>1. pc \notin {"off", "idle", "report"}
          BY <4>5 DEF StepFails, NextStep
        <5>2. Mine # relOf[j] /\ box \in [Rels -> {"none", "up", "down"}]
          BY <3>2, <4>5, <5>1, JobInHand, Bookkeeping DEF Mine, IInv, PTypeOK
        <5>. QED  BY <3>2, <4>5, <5>2 DEF StepFails, Boxes
      <4>. QED  BY <4>1, <4>2, <4>3, <4>4, <4>5
    <3>. QED  BY <3>2, <3>3, <3>4
  <2>2. CASE j = cur /\ (StepDone \/ FailureNoted)
    <3>1. pc \in {"healthcheck", "stopping_prev", "stop"} /\ StepDone
      BY <1>2, <2>2, EvidenceMoves
    <3>2. /\ cur' = cur /\ relOf' = relOf
          /\ pc' \in {"stopping_prev", "stop", "succeed"}
      BY <3>1 DEF StepDone, NextStep, releaseVars
    <3>3. box'[relOf'[cur]] = "up"
      BY <2>2, <3>1, <3>2, StepInHand, JobIds DEF InHand, Won
    <3>4. Mine \in proven'
      <4>1. CASE pc = "healthcheck"
        BY <3>1, <4>1 DEF StepDone
      <4>2. CASE pc \in {"stopping_prev", "stop"}
        <5>1. SuccSide(cur)
          BY <4>2, JobInHand DEF IInv, AgentInv, InHand, SuccSide, Won, JournalSteps
        <5>. QED  BY <2>2, <5>1, WonInHand, HistoryGrows
      <4>. QED  BY <3>1, <4>1, <4>2
    <3>. QED  BY <2>2, <3>2, <3>3, <3>4 DEF Mine
  <2>3. SuccSide(j) \/ (j = cur /\ (StepDone \/ FailureNoted))
    BY <1>2, EvidenceShrinks, EvidenceMoves DEF Shrinks
  <2>. QED  BY <2>1, <2>2, <2>3
<1>. QED  BY <1>1, <1>2 DEF SuccessProven

\* What a step does to the job in hand.
LEMMA HandMoves ==
  ASSUME IInv, PNext
  PROVE  \/ StepDone \/ StepFails \/ AgentCrash
         \/ AgentClaim /\ cur = 0 /\ UNCHANGED <<box, proven, relOf>>
         \/ UNCHANGED <<cur, box, proven>> /\ (cur # 0 /\ pc = "succeed" => pc' = "succeed")
         \/ UNCHANGED <<box, proven>> /\ cur' = 0 /\ pc # "cleanup"
<1>1. CASE (Finished(TRUE) \/ Finished(FALSE)) /\ pc # "cleanup"
  BY <1>1 DEF Finished
<1>2. CASE UNCHANGED agentVars
  BY <1>2 DEF agentVars
<1>3. CASE AgentClaim
  BY <1>3 DEF AgentClaim, IInv, AgentInv, InHand, releaseVars
<1>4. CASE \/ AgentStart \/ FailureNoted \/ AgentHeartbeat \/ Deadline
           \/ AgentBoot \/ ReportAnswered \/ ReportUnanswered
  BY <1>4 DEF AgentStart, FailureNoted, AgentHeartbeat, Deadline, AgentBoot, ReportAnswered, ReportUnanswered
<1>5. CASE ReportFailure
  <2>1. \/ Finished(FALSE) /\ pc # "cleanup"
        \/ pc = "failed" /\ UNCHANGED <<cur, box, proven>>
    BY <1>5 DEF ReportFailure
  <2>. QED  BY <1>1, <2>1
<1>. QED
  BY <1>1, <1>2, <1>3, <1>4, <1>5
  DEF PNext, TriggerDeploy, SettleRelease, ReportItem, HubClock, Sweep, HubRestart,
      AgentStep, StartRejected, ReportSuccess, SuccessRejected,
      Unanswered, ClaimUnanswered, StartUnanswered, SuccessUnanswered,
      FailureUnanswered, FailureAnswered, LateRequest

\* A success that fail() did not undo has left a proven container up.
LEMMA SomeUp ==
  ASSUME IInv, NEW j \in Ids, SuccSide(j), ~Dropped(j)
  PROVE  \E r \in proven : r \in Rels /\ box[r] = "up"
<1>1. CASE j = cur
  BY <1>1, WonInHand DEF Dropped
<1>2. CASE j # cur
  BY <1>2 DEF IInv, AgentInv, Spare, PTypeOK, Dropped
<1>. QED  BY <1>1, <1>2

LEMMA SpareStep == ASSUME IInv, PNext PROVE Spare'
<1> SUFFICES ASSUME NEW j \in Ids, j # cur', j \notin cut', SuccSide(j)'
             PROVE  \E r \in proven' :
                      box'[r] = "up" /\ (cur' = 0 \/ pc' = "succeed" \/ r # relOf'[cur'])
  BY DEF Spare
<1>1. /\ proven \subseteq proven' /\ proven \subseteq Rels /\ j # 0 /\ j \notin cut
      /\ box \in [Rels -> {"none", "up", "down"}]
  BY HistoryGrows, JobIds DEF IInv, PTypeOK
<1>2. CASE StepDone \/ StepFails
  <2>1. /\ cur' = cur /\ j # cur /\ relOf' = relOf
        /\ pc \notin {"off", "idle", "report"} /\ pc # "succeed"
    BY <1>2 DEF StepDone, StepFails, NextStep, releaseVars
  <2>2. SuccSide(j)
    BY <1>2, <2>1, EvidenceMoves, EvidenceShrinks DEF Shrinks
  <2>3. cur # 0
    BY <2>1, JobInHand
  <2>4. PICK r \in proven : box[r] = "up" /\ r # relOf[cur]
    BY <1>1, <2>1, <2>2, <2>3 DEF IInv, AgentInv, Spare
  <2>5. CASE pc = "stop"
    <3>1. cur \in Ids /\ Mine \in proven /\ Mine \in Rels /\ box[Mine] = "up" /\ prev[Mine] # Mine
      BY <2>5, StopIsWon, WonInHand, MineIsOpen
    <3>2. box'[Mine] = "up" /\ pc' = "succeed"
      BY <1>1, <1>2, <2>5, <3>1 DEF StepDone, StepFails, Boxes, NextStep
    <3>. QED  BY <1>1, <3>1, <3>2
  <2>6. CASE pc # "stop"
    <3>1. box'[r] = "up"
      BY <1>1, <1>2, <2>4, <2>6 DEF StepDone, StepFails, Boxes, Mine
    <3>. QED  BY <1>1, <2>1, <2>4, <3>1
  <2>. QED  BY <2>5, <2>6
<1>3. CASE AgentCrash
  <2>1. SuccSide(j) /\ cur' = 0
    BY <1>3, EvidenceShrinks DEF Shrinks, AgentCrash, StepDone, FailureNoted, NextStep
  <2>2. CASE pc = "stop" /\ box' = Boxes("stop")
    <3>1. cur \in Ids /\ Mine \in proven /\ Mine \in Rels /\ box[Mine] = "up" /\ prev[Mine] # Mine
      BY <2>2, StopIsWon, WonInHand, MineIsOpen
    <3>2. box'[Mine] = "up"
      BY <1>1, <2>2, <3>1 DEF Boxes
    <3>. QED  BY <1>1, <2>1, <3>1, <3>2
  <2>3. CASE box' = box \/ box' = Boxes("run")
    <3>1. PICK r \in proven : r \in Rels /\ box[r] = "up"
      <4>1. CASE Dropped(j)
        <5>1. j = cur /\ pc = "cleanup"
          BY <1>1, <4>1 DEF Dropped
        <5>2. /\ journal[cur] = "stopping_prev" /\ Mine \in proven /\ Mine \in Rels
          BY <2>1, <5>1, WonInHand
        <5>. QED  BY <1>3, <5>1, <5>2 DEF AgentCrash
      <4>2. CASE ~Dropped(j)
        BY <2>1, <4>2, SomeUp
      <4>. QED  BY <4>1, <4>2
    <3>2. box'[r] = "up"
      BY <1>1, <2>3, <3>1 DEF Boxes
    <3>. QED  BY <1>1, <2>1, <3>1, <3>2
  <2>. QED  BY <1>3, <2>2, <2>3 DEF AgentCrash
<1>4. CASE ~StepDone /\ ~StepFails /\ ~AgentCrash
  <2>1. SuccSide(j)
    <3>1. FailureNoted => cur' = cur
      BY DEF FailureNoted
    <3>. QED  BY <1>4, <3>1, EvidenceShrinks, EvidenceMoves DEF Shrinks
  <2>2. CASE AgentClaim /\ cur = 0 /\ UNCHANGED <<box, proven, relOf>>
    <3>1. PICK r \in proven : r \in Rels /\ box[r] = "up"
      BY <1>1, <2>1, <2>2, SomeUp, JobInHand DEF Dropped
    <3>2. cur' \in Ids /\ ~Touched(cur')
      BY <2>2 DEF AgentClaim, Claim, Ready, Touched, IInv, LeaseInv, TypeOK
    <3>3. PICK i \in Ids : relOf[i] = r /\ Touched(i)
      BY <3>1 DEF IInv, AgentInv, SuccessProven
    <3>4. r # relOf[cur']
      BY <3>2, <3>3, Bookkeeping, ReleaseOfJob, JobIds
    <3>. QED  BY <2>2, <3>1, <3>4
  <2>3. CASE UNCHANGED <<cur, box, proven>> /\ (cur # 0 /\ pc = "succeed" => pc' = "succeed")
    <3>1. PICK r \in proven : box[r] = "up" /\ (cur = 0 \/ pc = "succeed" \/ r # relOf[cur])
      BY <1>1, <2>1, <2>3 DEF IInv, AgentInv, Spare
    <3>2. cur # 0 => relOf'[cur] = relOf[cur]
      <4>1. cur # 0 => cur \in Ids /\ relOf[cur] # 0
        BY JobInHand, JobIds DEF IInv, AgentInv, InHand
      <4>. QED  BY <4>1, SpecFrozen
    <3>. QED  BY <2>3, <3>1, <3>2
  <2>4. CASE UNCHANGED <<box, proven>> /\ cur' = 0 /\ pc # "cleanup"
    BY <1>1, <2>1, <2>4, SomeUp DEF Dropped
  <2>. QED  BY <1>4, <2>2, <2>3, <2>4, HandMoves
<1>. QED  BY <1>2, <1>3, <1>4

LEMMA LiveIsUpStep == ASSUME IInv, PNext PROVE LiveIsUp'
<1> SUFFICES ASSUME NEW r \in Rels, rel'[r] = "live"
             PROVE  \/ box'[r] = "up"
                    \/ \E j \in swapped' : prev'[relOf'[j]] = r /\ rel'[relOf'[j]] = "pending"
                    \/ \E j \in cut' : relOf'[j] = r
  BY DEF LiveIsUp, CutOff
<1>1. /\ rel \in [Rels -> {"none", "pending", "live", "superseded", "failed", "rolled_back"}]
      /\ prev \in [Rels -> Rels \cup {0}] /\ relOf \in [Ids -> Rels \cup {0}]
      /\ box \in [Rels -> {"none", "up", "down"}] /\ swapped \subseteq Ids
  BY Bookkeeping DEF IInv, PTypeOK
<1>2. CASE rel[r] # "live"
  <2>1. PICK i \in Ids : D!SettleDeployJob(i) /\ UNCHANGED agentVars
    <3>1. ASSUME NEW c \in Callers, D!CreateRelease(c) PROVE FALSE
      BY <1>1, <1>2, <3>1 DEF D!CreateRelease
    <3>. QED  BY <1>2, <3>1, RowsOfReleases
  <2>2. relOf[i] = r /\ status[i] = "succeeded" /\ rel[r] = "pending"
    BY <1>1, <1>2, <2>1, Settles
  <2>3. box[r] = "up" \/ Dropped(i)
    BY <2>2, Evidence DEF IInv, AgentInv, SuccessProven
  <2>4. ~(i = cur /\ pc = "cleanup")
    BY <2>2, JobInHand DEF IInv, AgentInv, InHand
  <2>5. relOf'[i] = relOf[i]
    BY <2>2, SpecFrozen
  <2>. QED  BY <2>1, <2>2, <2>3, <2>4, <2>5 DEF agentVars, Dropped
<1>3. CASE rel[r] = "live" /\ box[r] = "up"
  <2>1. CASE StepFails
    <3>1. pc \notin {"off", "idle", "report"}
      BY <2>1 DEF StepFails, NextStep
    <3>2. Mine \in Rels /\ Mine # r
      BY <1>3, <3>1, MineIsOpen
    <3>. QED  BY <1>1, <1>3, <2>1, <3>2 DEF StepFails, Boxes
  <2>2. CASE pc = "run" /\ box' = Boxes("run")
    BY <1>1, <1>3, <2>2 DEF Boxes
  <2>3. CASE /\ pc = "stop" /\ box' = Boxes("stop") /\ swapped' = swapped \cup {cur}
             /\ UNCHANGED releaseVars
    <3>1. CASE r = prev[Mine]
      BY <2>3, <3>1, MineIsOpen DEF Mine, releaseVars
    <3>2. CASE r # prev[Mine]
      BY <1>1, <1>3, <2>3, <3>2 DEF Boxes
    <3>. QED  BY <3>1, <3>2
  <2>. QED  BY <1>3, <2>1, <2>2, <2>3, BoxMoves
<1>4. CASE rel[r] = "live" /\ \E j \in swapped : prev[relOf[j]] = r /\ rel[relOf[j]] = "pending"
  <2>1. PICK j \in swapped : prev[relOf[j]] = r /\ rel[relOf[j]] = "pending"
    BY <1>4
  <2>2. j \in Ids /\ j \in swapped' /\ Touched(j) /\ ~FailSide(j)
    BY <1>1, <2>1, Evidence, HistoryGrows DEF IInv, AgentInv, OneTry
  <2>3. relOf[j] \in Rels /\ relOf[j] # 0 /\ relOf'[j] = relOf[j]
    BY <2>2, ReleaseOfJob, SpecFrozen
  <2>4. CASE UNCHANGED <<rel, prev>>
    BY <2>1, <2>2, <2>3, <2>4
  <2>5. ASSUME NEW c \in Callers, D!CreateRelease(c)
        PROVE  prev'[relOf[j]] = r /\ rel'[relOf[j]] = "pending"
    <3>1. relOf[j] # triggers[c].rel
      BY <2>2, <2>5, CallOwns DEF D!CreateRelease
    <3>. QED  BY <1>1, <2>1, <2>3, <2>5, <3>1 DEF D!CreateRelease
  <2>6. ASSUME NEW i \in Ids, D!SettleDeployJob(i), UNCHANGED prev
        PROVE  prev'[relOf[j]] = r /\ rel'[relOf[j]] = "pending"
    <3>1. CASE UNCHANGED rel
      BY <2>1, <2>6, <3>1
    <3>2. CASE /\ relOf[i] \in Rels /\ rel[relOf[i]] = "pending"
               /\ rel' = [k \in Rels |-> IF k = relOf[i] THEN "live"
                                         ELSE IF rel[k] = "live" THEN "superseded" ELSE rel[k]]
      <4>1. r # relOf[i]
        BY <1>4, <3>2
      <4>2. FALSE
        BY <1>1, <1>4, <3>2, <4>1
      <4>. QED  BY <4>2
    <3>3. CASE status[i] = "failed" /\ rel' = [rel EXCEPT ![relOf[i]] = "failed"]
      <4>1. i # j
        BY <2>2, <3>3, Evidence
      <4>2. relOf[i] # relOf[j]
        BY <2>2, <2>3, <4>1, Bookkeeping
      <4>. QED  BY <1>1, <2>1, <2>3, <2>6, <3>3, <4>2
    <3>. QED  BY <2>6, <3>1, <3>2, <3>3, Settles
  <2>. QED  BY <2>2, <2>3, <2>4, <2>5, <2>6, RowsOfReleases
<1>5. CASE rel[r] = "live" /\ \E j \in cut : relOf[j] = r
  <2>1. PICK j \in cut : relOf[j] = r
    BY <1>5
  <2>2. j \in Ids /\ Touched(j)
    BY DEF IInv, PTypeOK, AgentInv, CutIsOver
  <2>3. relOf'[j] = r /\ j \in cut'
    BY <2>1, <2>2, ReleaseOfJob, SpecFrozen, HistoryGrows
  <2>. QED  BY <2>3
<1>. QED  BY <1>2, <1>3, <1>4, <1>5 DEF IInv, AgentInv, LiveIsUp, CutOff



------------------------------------------------------------------------------
(* The theorems *)

LEMMA InitIInv == PInit => IInv
<1> SUFFICES ASSUME PInit PROVE IInv
  OBVIOUS
<1>1. LeaseInv /\ TypeOK
  BY LeaseInit DEF PInit, LeaseInv
<1>2. D!ReleaseInv
  <2>1. DP!Init
    BY SameDeploys DEF PInit
  <2>2. DP!ReleaseInv
    BY <2>1, DP!ReleaseInit, JobIds, OwnKeys, Counts, Zenon
  <2>. QED  BY <2>2, SameDeploys
<1>3. PTypeOK
  <2>1. D!TypeOK /\ 0 \in 0..MaxCrashes
    BY <1>2, PipelineBounds DEF D!ReleaseInv
  <2>2. /\ journal \in [Ids -> JournalSteps \cup {"none"}]
        /\ box \in [Rels -> {"none", "up", "down"}]
    BY DEF PInit
  <2>. QED  BY <1>1, <2>1, <2>2 DEF PInit, PTypeOK, PCs
<1>4. /\ \A j \in Ids : status[j] = "absent" /\ journal[j] = "none" /\ relOf[j] = 0
      /\ \A r \in Rels : rel[r] = "none" /\ prev[r] = 0
      /\ \A c \in Callers : triggers[c].at = "idle"
      /\ calls = {} /\ late = {} /\ report = {} /\ swapped = {} /\ proven = {} /\ cut = {}
      /\ settling = {} /\ nextId = 1 /\ cur = 0 /\ pc = "idle"
  BY DEF PInit, Init, D!Init, D!NoTrigger, D!Rels
<1>5. \A j \in Ids : ~FailSide(j) /\ ~SuccSide(j)
  BY <1>4 DEF FailSide, SuccSide, Given, JournalSteps, Won
<1>6. OneTry
  BY <1>4, <1>5, BoundAssumption DEF OneTry
<1>7. CallsFinal /\ InHand /\ UnderWay /\ CutIsOver
  BY <1>4 DEF CallsFinal, InHand, UnderWay, CutIsOver
<1>8. SuccessProven /\ Spare /\ PrevWasLive /\ SettledOnce /\ LiveIsUp
  BY <1>4, <1>5 DEF SuccessProven, Spare, PrevWasLive, WasLive, SettledOnce, LiveIsUp
<1>. QED  BY <1>1, <1>2, <1>3, <1>6, <1>7, <1>8 DEF IInv, AgentInv

\* A step that changes nothing keeps the invariant.
LEMMA StutterIInv == ASSUME IInv, UNCHANGED pvars PROVE IInv'
<1> USE DEF pvars, releaseVars, agentVars, netVars
<1>1. UNCHANGED qvars /\ TypeOK
  BY DEF IInv, LeaseInv
<1>2. LeaseInv' /\ TypeOK'
  BY <1>1, TypeStep, LeaseStep DEF IInv
<1>3. D!ReleaseInv'
  <2>1. UNCHANGED D!dvars
    BY <1>1, SeenTheSame DEF qvars, leaseVars
  <2>. QED  BY <2>1, ReleasesKeep DEF IInv
<1>4. PTypeOK'
  BY <1>2, <1>3 DEF IInv, PTypeOK, D!ReleaseInv
<1> USE DEF qvars, leaseVars
<1>5. \A j \in Ids : (FailSide(j)' <=> FailSide(j)) /\ (SuccSide(j)' <=> SuccSide(j))
  BY DEF FailSide, SuccSide, Given
<1>6. OneTry' /\ CallsFinal'
  BY <1>5 DEF IInv, AgentInv, OneTry, CallsFinal, Touched
<1>7. InHand' /\ UnderWay' /\ CutIsOver'
  BY DEF IInv, AgentInv, InHand, UnderWay, CutIsOver, Touched
<1>8. SuccessProven' /\ Spare'
  BY <1>5 DEF IInv, AgentInv, SuccessProven, Spare, Touched, Dropped
<1>9. PrevWasLive' /\ SettledOnce' /\ LiveIsUp'
  BY DEF IInv, AgentInv, PrevWasLive, WasLive, SettledOnce, LiveIsUp, CutOff
<1>. QED  BY <1>2, <1>3, <1>4, <1>6, <1>7, <1>8, <1>9 DEF IInv, AgentInv

\* What holds initially and is kept by every step of the pipeline.
THEOREM PipelineInvariant == PSpec => []IInv
<1>1. PInit => IInv
  BY InitIInv
<1>2. IInv /\ [PNext]_pvars => IInv'
  <2> SUFFICES ASSUME IInv, PNext PROVE IInv'
    BY StutterIInv
  <2>1. LeaseInv' /\ PTypeOK'
    BY LeasesKeep, TypesKeep
  <2>2. D!ReleaseInv'
    BY StepOfReleases, ReleasesKeep DEF IInv
  <2>3. OneTry' /\ CallsFinal' /\ InHand' /\ UnderWay' /\ CutIsOver'
    BY OneTryStep, CallsFinalStep, InHandStep, UnderWayStep, CutIsOverStep
  <2>4. SuccessProven' /\ Spare' /\ PrevWasLive' /\ SettledOnce' /\ LiveIsUp'
    BY SuccessProvenStep, SpareStep, PrevWasLiveStep, SettledOnceStep, LiveIsUpStep
  <2>. QED  BY <2>1, <2>2, <2>3, <2>4 DEF IInv, AgentInv
<1>. QED  BY <1>1, <1>2, PTL DEF PSpec

\* A release that is or was live had a job that succeeded, and is over.
LEMMA WasLiveSucceeded ==
  ASSUME IInv, NEW r \in Rels, rel[r] \in {"live", "superseded"}
  PROVE  \E j \in Ids : relOf[j] = r /\ SuccSide(j) /\ status[j] = "succeeded"
<1>1. PICK j \in Ids : relOf[j] = r
  BY Bookkeeping
<1>2. relOf[j] # 0
  BY <1>1
<1>. QED  BY <1>1, <1>2, Bookkeeping, Evidence

\* Types, and the zero-gap rule: after the first success whose container was not
\* cut off a container proven healthy is up at all times, whatever fails, crashes
\* or gets lost.
THEOREM PipelineHolds == PSpec => []PipelineInv
<1>1. IInv => PipelineInv
  <2> SUFFICES ASSUME IInv,
                      \/ swapped # {}
                      \/ \E r \in Rels \ CutOff : rel[r] \in {"live", "superseded"}
               PROVE  \E r \in proven : box[r] = "up"
    BY DEF PipelineInv, Served, IInv
  <2>1. \E j \in Ids : SuccSide(j) /\ ~Dropped(j)
    <3>1. ASSUME NEW j \in swapped PROVE j \in Ids /\ SuccSide(j) /\ ~Dropped(j)
      BY JobInHand, Evidence DEF IInv, PTypeOK, AgentInv, CutIsOver, InHand, Dropped
    <3>2. ASSUME NEW r \in Rels \ CutOff, rel[r] \in {"live", "superseded"}
          PROVE  \E j \in Ids : SuccSide(j) /\ ~Dropped(j)
      <4>1. PICK j \in Ids : relOf[j] = r /\ SuccSide(j) /\ status[j] = "succeeded"
        BY <3>2, WasLiveSucceeded
      <4>2. ~(j = cur /\ pc = "cleanup")
        BY <4>1, JobInHand DEF IInv, AgentInv, InHand
      <4>. QED  BY <4>1, <4>2 DEF CutOff, Dropped
    <3>. QED  BY <3>1, <3>2
  <2>. QED  BY <2>1, SomeUp
<1>. QED  BY <1>1, PipelineInvariant, PTL

\* No job recorded as failed has stopped the previous container: the reports'
\* prevKept is true, also when it is rebuilt from the journal.
THEOREM PreviousIsKept == PSpec => []PrevKept
<1>1. IInv => PrevKept
  BY Evidence DEF IInv, PTypeOK, AgentInv, OneTry, PrevKept
<1>. QED  BY <1>1, PipelineInvariant, PTL

\* A release becomes live only after its container passed its healthcheck.
THEOREM LiveIsProven == PSpec => []LiveWasProven
<1>1. IInv => LiveWasProven
  BY WasLiveSucceeded DEF LiveWasProven, IInv, AgentInv, SuccessProven
<1>. QED  BY <1>1, PipelineInvariant, PTL

\* The live release's container is up until a swap the hub has yet to record, if
\* its agent was not cut off in fail().
THEOREM LiveStaysUp == PSpec => []LiveIsUp
<1>1. IInv => LiveIsUp
  BY DEF IInv, AgentInv
<1>. QED  BY <1>1, PipelineInvariant, PTL

\* Whatever the agent does, the hub's releases behave as Deploys says.
THEOREM ImplementsDeploys == PSpec => KeepsReleases
<1>1. PInit => D!Init
  BY DEF PInit
<1>2. IInv /\ [PNext]_pvars => [D!Next]_D!dvars
  <2>1. IInv /\ UNCHANGED pvars => UNCHANGED D!dvars
    BY SeenTheSame DEF pvars, qvars, leaseVars
  <2>. QED  BY <2>1, StepOfReleases
<1>. QED  BY <1>1, <1>2, PipelineInvariant, PTL DEF PSpec, KeepsReleases, D!Spec

\* Nor does anything in the pipeline step outside the job queue: what is proved
\* of JobQueue holds of the jobs of deploys.
THEOREM ImplementsQueue == PSpec => Spec
<1>1. PInit => Init
  BY DEF PInit
<1>2. IInv /\ [PNext]_pvars => [Next]_qvars
  BY StepOfQueue DEF pvars
<1>. QED  BY <1>1, <1>2, PipelineInvariant, PTL DEF PSpec, Spec


\* Two executors are never at work on one deploy, and each deploy job takes only
\* the steps the queue's contract allows.
THEOREM DeploysKeepContract == PSpec => []NoDoubleExecution /\ KeepsContract
BY ImplementsQueue, SingleExecution, ImplementsContract, PTL

\* A deploy is handed out once: no timeout, restart, sweep, late request or
\* reconciliation leads to a second execution (maxAttempts, trigger.ts:110).
THEOREM DeployedOnce == PSpec => [](\A j \in Ids : granted[j] <= 1)
<1>1. IInv => \A j \in Ids : granted[j] <= 1
  <2> SUFFICES ASSUME IInv, NEW j \in Ids PROVE granted[j] <= 1
    OBVIOUS
  <2>1. CASE status[j] = "absent"
    <3>1. ~(j < nextId)
      BY <2>1 DEF IInv, AgentInv, OneTry
    <3>2. granted[j] = 0
      BY <3>1 DEF IInv, LeaseInv, AttemptsCounted, TypeOK
    <3>. QED  BY <3>2
  <2>2. CASE status[j] # "absent"
    BY <2>2, OneGrant
  <2>. QED  BY <2>1, <2>2
<1>. QED  BY <1>1, PipelineInvariant, PTL
==============================================================================
