----------------------------- MODULE ScansProofs -----------------------------
(***************************************************************************)
(* Theorems about Scans, for every number of requests, scans, attempts and *)
(* restarts: the types, that a report tells the truth about its job and is *)
(* not forgotten, and that verdicts and answers stand.                     *)
(***************************************************************************)
EXTENDS Scans, FiniteSetTheorems, TLAPS

USE SlotAssumption, BoundAssumption DEF Ids

(* The inductive invariant. *)

\* Triggers that will still create a report have room for it.
Bounded == minted + Cardinality(Triggers) <= MaxScans

\* Ids not given out have neither report nor job.
Fresh ==
  \A i \in Ids : i > minted =>
    report[i] = "none" /\ job[i].st = "none" /\ job[i].tries = 0

\* A handler that is about to give a report its job is the only one, and the job
\* has never been there: no verdict is "done" yet.
Enqueuing ==
  \A s \in Slots : Doing(s, "enqueue") =>
    LET i == req[s].id IN
      /\ i <= minted /\ report[i] # "done"
      /\ job[i].st = "none" /\ job[i].tries = 0
      /\ \A t \in Slots : Doing(t, "enqueue") /\ req[t].id = i => t = s

\* A queued job has attempts left, one that was claimed has used one, and an
\* ended one has its result.
Used(i) ==
  /\ job[i].st = "queued" => job[i].tries < MaxAttempts
  /\ Held(i) \/ job[i].st = "unknown" => job[i].tries > 0
  /\ job[i].st \in Terminal => job[i].result = TRUE
Attempts == \A i \in Ids : Used(i)

\* The agent's requests are about jobs that are there.
Handled ==
  \A s \in Slots : req[s].op \in {"mark", "fail", "settle"} => job[req[s].id].st # "none"

IInv == TypeOK /\ Bounded /\ Fresh /\ Enqueuing /\ Attempts /\ Handled /\ DoneByJob /\ Settled

------------------------------------------------------------------------------
(* Types *)

JobRow == [st : {"none", "queued", "claimed", "running", "unknown"} \cup Terminal,
           tries : 0..MaxAttempts, result : BOOLEAN]

\* A row stays a row when its columns are updated.
LEMMA RowUpdates ==
  ASSUME NEW row \in JobRow
  PROVE  /\ \A st \in {"none", "queued", "running", "unknown"} :
              [row EXCEPT !.st = st] \in JobRow
         /\ \A n \in 0..MaxAttempts : [row EXCEPT !.st = "claimed", !.tries = n] \in JobRow
         /\ \A st \in {"queued", "succeeded", "failed"} :
              [row EXCEPT !.st = st, !.result = TRUE] \in JobRow
BY DEF JobRow, Terminal

\* What the handlers carry from one statement to the next.
LEMMA RequestFields ==
  ASSUME NEW r \in Request
  PROVE  /\ r.op \in {"key", "close", "enqueue", "mark", "settle", "fail"} => r.id \in Ids
         /\ r.op = "fail" => r.lease \in 1..MaxAttempts
         /\ r.op = "sync" => r.flaw \in BOOLEAN
         /\ r.op = "answer" => r.rec \in Nat /\ r.how \in {"applied", "dismissed"}
BY DEF Request, Idle

\* What they may carry.
LEMMA RequestShapes ==
  /\ Idle \in Request
  /\ \A op \in {"active", "create", "evaluate"} : [op |-> op] \in Request
  /\ \A op \in {"key", "close", "enqueue", "mark", "settle"}, i \in Ids :
       [op |-> op, id |-> i] \in Request
  /\ \A i \in Ids, l \in 1..MaxAttempts : [op |-> "fail", id |-> i, lease |-> l] \in Request
  /\ \A flaw \in BOOLEAN : [op |-> "sync", flaw |-> flaw] \in Request
  /\ \A n \in Nat, how \in {"applied", "dismissed"} :
       [op |-> "answer", rec |-> n, how |-> how] \in Request
BY DEF Request, Idle

\* Triggers are finitely many.
LEMMA TriggersFinite ==
  /\ IsFiniteSet(Triggers) /\ Cardinality(Triggers) \in Nat
  /\ Triggers # {} => Cardinality(Triggers) > 0
<1>1. Triggers \in SUBSET Slots
  BY DEF Triggers
<1>2. IsFiniteSet(Triggers)
  BY <1>1, FS_Subset
<1>3. Cardinality(Triggers) \in Nat
  BY <1>2, FS_CardinalityType
<1>. QED  BY <1>2, <1>3, FS_EmptySet

\* A trigger that gets to create a report finds an id for it.
LEMMA RoomToCreate ==
  ASSUME TypeOK, Bounded, NEW s \in Slots, Doing(s, "create")
  PROVE  minted + 1 \in Ids /\ minted \in Nat
<1>1. s \in Triggers
  BY DEF Triggers, Doing
<1>. QED  BY <1>1, TriggersFinite DEF Bounded, TypeOK

\* The order of reports stays one when a report gets to its end.
LEMMA MoveType ==
  ASSUME NEW q \in Seq(Ids), NEW k \in DOMAIN q, NEW i \in Ids
  PROVE  Append(RemoveAt(q, k), i) \in Seq(Ids)
<1>1. SubSeq(q, 1, k - 1) \in Seq(Ids) /\ SubSeq(q, k + 1, Len(q)) \in Seq(Ids)
  OBVIOUS
<1>. QED  BY <1>1 DEF RemoveAt

\* What the cleanup leaves of the order is one.
LEMMA SuffixType ==
  ASSUME NEW q \in Seq(Ids), NEW n \in 1..Len(q)
  PROVE  SubSeq(q, n + 1, Len(q)) \in Seq(Ids)
OBVIOUS

\* A handler's next state keeps the type of req.
LEMMA GotoType ==
  ASSUME TypeOK, NEW s \in Slots, NEW r \in Request, Goto(s, r)
  PROVE  req' \in [Slots -> Request]
BY DEF TypeOK, Goto

\* The agent's changes keep the type of a job.
LEMMA JobType ==
  ASSUME TypeOK, NEW i \in Ids, NEW row \in JobRow, job' = [job EXCEPT ![i] = row]
  PROVE  job' \in [Ids -> JobRow]
BY DEF TypeOK, JobRow

\* A verdict keeps the type of the reports.
LEMMA CompleteType ==
  ASSUME TypeOK, NEW i \in Ids, NEW verdict \in {"done", "failed"}, Complete(i, verdict)
  PROVE  report' \in [Ids -> {"none", "queued", "running", "done", "failed"}]
BY DEF TypeOK, Complete

\* The statements of a trigger keep every type.
LEMMA TriggerTypes ==
  ASSUME TypeOK, Bounded, NEW s \in Slots,
         Trigger(s) \/ FindActive(s) \/ FindJob(s) \/ CloseLost(s) \/ Create(s) \/ Enqueue(s)
  PROVE  TypeOK'
<1> USE DEF TypeOK, reports
<1>0. req[s] \in Request
  OBVIOUS
<1>1. CASE Trigger(s)
  BY <1>1, RequestShapes, GotoType DEF Trigger
<1>2. CASE FindActive(s)
  <2>1. PICK r \in Request : Goto(s, r)
    <3>1. \A k \in DOMAIN order : order[k] \in Ids
      OBVIOUS
    <3>. QED  BY <1>2, <3>1, RequestShapes DEF FindActive
  <2>. QED  BY <1>2, <2>1, GotoType DEF FindActive
<1>3. CASE FindJob(s)
  <2>1. req[s].id \in Ids
    BY <1>0, <1>3, RequestFields DEF FindJob, Doing
  <2>2. PICK r \in Request : Goto(s, r)
    BY <1>3, <2>1, RequestShapes DEF FindJob
  <2>. QED  BY <1>3, <2>2, GotoType DEF FindJob
<1>4. CASE CloseLost(s)
  <2>1. req[s].id \in Ids
    BY <1>0, <1>4, RequestFields DEF CloseLost, Doing
  <2>2. req' \in [Slots -> Request]
    BY <1>4, RequestShapes, GotoType DEF CloseLost
  <2>3. report' \in [Ids -> {"none", "queued", "running", "done", "failed"}]
    BY <1>4, <2>1, CompleteType DEF CloseLost
  <2>. QED  BY <1>4, <2>2, <2>3 DEF CloseLost
<1>5. CASE Create(s)
  <2>1. minted + 1 \in Ids /\ minted \in Nat
    BY <1>5, RoomToCreate DEF Create
  <2>2. PICK r \in Request : Goto(s, r)
    BY <1>5, <2>1, RequestShapes DEF Create
  <2>3. req' \in [Slots -> Request]
    BY <2>2, GotoType
  <2>4. /\ report' \in [Ids -> {"none", "queued", "running", "done", "failed"}]
        /\ order' \in Seq(Ids) /\ minted' \in 0..MaxScans
    <3>1. CASE UNCHANGED reports
      BY <3>1
    <3>2. CASE /\ minted' = minted + 1
               /\ report' = [report EXCEPT ![minted'] = "queued"]
               /\ order' = Append(order, minted')
      BY <2>1, <3>2
    <3>. QED  BY <1>5, <3>1, <3>2 DEF Create
  <2>. QED  BY <1>5, <2>3, <2>4 DEF Create
<1>6. CASE Enqueue(s)
  <2>1. req[s].id \in Ids
    BY <1>0, <1>6, RequestFields DEF Enqueue, Doing
  <2>2. job' = [job EXCEPT ![req[s].id] = [job[req[s].id] EXCEPT !.st = "queued"]]
    BY <1>6 DEF Enqueue
  <2>3. [job[req[s].id] EXCEPT !.st = "queued"] \in JobRow
    <3>1. job[req[s].id] \in JobRow
      BY <2>1 DEF JobRow
    <3>. QED  BY <3>1, RowUpdates, Zenon
  <2>4. job' \in [Ids -> JobRow]
    BY <2>1, <2>2, <2>3, JobType
  <2>5. req' \in [Slots -> Request]
    BY <1>6, RequestShapes, GotoType DEF Enqueue
  <2>. QED  BY <1>6, <2>4, <2>5 DEF Enqueue, JobRow
<1>. QED  BY <1>1, <1>2, <1>3, <1>4, <1>5, <1>6

\* Claims, the sweep of leases and the cleanup of jobs keep every type.
LEMMA JobTypes ==
  ASSUME TypeOK, Attempts, NEW i \in Ids, Claim(i) \/ Lapse(i) \/ PruneJob(i)
  PROVE  TypeOK'
<1> USE DEF TypeOK, reports
<1>0. job[i] \in JobRow
  BY DEF JobRow
<1>1. CASE Claim(i)
  <2>1. [job[i] EXCEPT !.st = "claimed", !.tries = job[i].tries + 1] \in JobRow
    <3>1. job[i].tries + 1 \in 0..MaxAttempts
      BY <1>0, <1>1 DEF Claim, Attempts, Used, JobRow
    <3>. QED  BY <1>0, <3>1, RowUpdates, Zenon
  <2>2. job' = [job EXCEPT ![i] = [job[i] EXCEPT !.st = "claimed",
                                                 !.tries = job[i].tries + 1]]
    BY <1>1 DEF Claim
  <2>3. job' \in [Ids -> JobRow]
    BY <2>1, <2>2, JobType
  <2>. QED  BY <1>1, <2>3 DEF Claim, JobRow
<1>2. CASE Lapse(i)
  <2>1. PICK st \in {"queued", "unknown"} : job' = [job EXCEPT ![i] = [job[i] EXCEPT !.st = st]]
    BY <1>2 DEF Lapse
  <2>2. [job[i] EXCEPT !.st = st] \in JobRow
    BY <1>0 DEF JobRow
  <2>3. job' \in [Ids -> JobRow]
    BY <2>1, <2>2, JobType
  <2>. QED  BY <1>2, <2>3 DEF Lapse, JobRow
<1>3. CASE PruneJob(i)
  <2>1. [job[i] EXCEPT !.st = "none"] \in JobRow
    BY <1>0 DEF JobRow
  <2>2. job' = [job EXCEPT ![i] = [job[i] EXCEPT !.st = "none"]]
    BY <1>3 DEF PruneJob
  <2>3. job' \in [Ids -> JobRow]
    BY <2>1, <2>2, JobType
  <2>. QED  BY <1>3, <2>3 DEF PruneJob, JobRow
<1>. QED  BY <1>1, <1>2, <1>3

\* The agent's other requests keep every type.
LEMMA AgentTypes ==
  ASSUME TypeOK, Attempts, NEW s \in Slots,
         \/ FailWrite(s) \/ MarkRunning(s)
         \/ \E i \in Ids : Start(s, i) \/ Succeed(s, i) \/ FailRead(s, i)
  PROVE  TypeOK'
<1> USE DEF TypeOK, reports
<1>0. req[s] \in Request /\ \A i \in Ids : job[i] \in JobRow
  BY DEF JobRow
<1>1. ASSUME NEW i \in Ids, Start(s, i) PROVE TypeOK'
  <2>1. [job[i] EXCEPT !.st = "running"] \in JobRow
    BY <1>0, RowUpdates, Zenon
  <2>2. job' = [job EXCEPT ![i] = [job[i] EXCEPT !.st = "running"]]
    BY <1>1 DEF Start
  <2>3. req' \in [Slots -> Request]
    BY <1>1, RequestShapes, GotoType DEF Start
  <2>4. job' \in [Ids -> JobRow]
    BY <2>1, <2>2, JobType
  <2>. QED  BY <1>1, <2>3, <2>4 DEF Start, JobRow
<1>2. ASSUME NEW i \in Ids, Succeed(s, i) PROVE TypeOK'
  <2>1. [job[i] EXCEPT !.st = "succeeded", !.result = TRUE] \in JobRow
    BY <1>0, RowUpdates, Zenon
  <2>2. job' = [job EXCEPT ![i] = [job[i] EXCEPT !.st = "succeeded", !.result = TRUE]]
    BY <1>2 DEF Succeed
  <2>3. req' \in [Slots -> Request]
    BY <1>2, RequestShapes, GotoType DEF Succeed
  <2>4. job' \in [Ids -> JobRow]
    BY <2>1, <2>2, JobType
  <2>. QED  BY <1>2, <2>3, <2>4 DEF Succeed, JobRow
<1>3. ASSUME NEW i \in Ids, FailRead(s, i) PROVE TypeOK'
  <2>1. job[i].tries \in 1..MaxAttempts
    BY <1>0, <1>3 DEF FailRead, Attempts, Used, JobRow
  <2>2. req' \in [Slots -> Request]
    BY <1>3, <2>1, RequestShapes, GotoType DEF FailRead
  <2>. QED  BY <1>3, <2>2 DEF FailRead
<1>4. CASE FailWrite(s)
  <2>1. req[s].id \in Ids
    BY <1>0, <1>4, RequestFields DEF FailWrite, Doing
  <2>2. PICK r \in Request : Goto(s, r)
    BY <1>4, <2>1, RequestShapes DEF FailWrite
  <2>3. job[req[s].id] \in JobRow
    BY <2>1 DEF JobRow
  <2>4. /\ [job[req[s].id] EXCEPT !.st = "failed", !.result = TRUE] \in JobRow
        /\ [job[req[s].id] EXCEPT !.st = "queued", !.result = TRUE] \in JobRow
    BY <2>3, RowUpdates, Zenon
  <2>5. job' \in [Ids -> JobRow]
    <3> DEFINE verdict == IF req[s].lease = MaxAttempts THEN "failed" ELSE "queued"
    <3>1. CASE job' = job
      BY <3>1 DEF JobRow
    <3>2. CASE job' = [job EXCEPT ![req[s].id].st = verdict, ![req[s].id].result = TRUE]
      <4>1. job' = [job EXCEPT ![req[s].id] =
                      [job[req[s].id] EXCEPT !.st = verdict, !.result = TRUE]]
        BY <3>2
      <4>2. [job[req[s].id] EXCEPT !.st = verdict, !.result = TRUE] \in JobRow
        BY <2>4
      <4>. QED  BY <2>1, <4>1, <4>2, JobType
    <3>. QED  BY <1>4, <3>1, <3>2 DEF FailWrite
  <2>. QED  BY <1>4, <2>2, <2>5, GotoType DEF FailWrite, JobRow
<1>5. CASE MarkRunning(s)
  <2>1. req[s].id \in Ids
    BY <1>0, <1>5, RequestFields DEF MarkRunning, Doing
  <2>2. req' \in [Slots -> Request]
    BY <1>5, RequestShapes, GotoType DEF MarkRunning
  <2>3. order' \in Seq(Ids)
    <3>1. \A k \in DOMAIN order : Append(RemoveAt(order, k), req[s].id) \in Seq(Ids)
      BY <2>1, MoveType
    <3>2. \/ order' = order
          \/ \E k \in DOMAIN order : order' = Append(RemoveAt(order, k), req[s].id)
      BY <1>5 DEF MarkRunning
    <3>3. CASE order' = order
      BY <3>3
    <3>4. ASSUME NEW k \in DOMAIN order, order' = Append(RemoveAt(order, k), req[s].id)
          PROVE  order' \in Seq(Ids)
      <4>1. Append(RemoveAt(order, k), req[s].id) \in Seq(Ids)
        BY <3>1
      <4>. QED  BY <3>4, <4>1
    <3>. QED  BY <3>2, <3>3, <3>4
  <2>4. report' \in [Ids -> {"none", "queued", "running", "done", "failed"}]
    BY <1>5, <2>1 DEF MarkRunning
  <2>. QED  BY <1>5, <2>2, <2>3, <2>4 DEF MarkRunning
<1>. QED  BY <1>1, <1>2, <1>3, <1>4, <1>5

\* Settling and the recommendation keep every type.
LEMMA SettleTypes ==
  ASSUME TypeOK, NEW s \in Slots,
         \/ Settle(s) \/ Evaluate(s) \/ Sync(s) \/ SetStatus(s)
         \/ \E how \in {"applied", "dismissed"} : Answer(s, how)
  PROVE  TypeOK'
<1> USE DEF TypeOK, reports
<1>0. req[s] \in Request
  OBVIOUS
<1>1. CASE Settle(s)
  <2>1. req[s].id \in Ids
    BY <1>0, <1>1, RequestFields DEF Settle, Doing
  <2>2. PICK r \in Request : Goto(s, r)
    BY <1>1, RequestShapes DEF Settle
  <2>3. report' \in [Ids -> {"none", "queued", "running", "done", "failed"}]
    BY <1>1, <2>1, CompleteType DEF Settle
  <2>. QED  BY <1>1, <2>2, <2>3, GotoType DEF Settle
<1>2. CASE Evaluate(s)
  BY <1>2, RequestShapes, GotoType DEF Evaluate
<1>3. CASE Sync(s)
  <2>1. rec' \in [id : Nat, st : {"none", "open", "applied", "dismissed"}]
    BY <1>3 DEF Sync
  <2>. QED  BY <1>3, <2>1, RequestShapes, GotoType DEF Sync
<1>4. CASE SetStatus(s)
  <2>1. req[s].how \in {"applied", "dismissed"}
    BY <1>0, <1>4, RequestFields DEF SetStatus, Doing
  <2>2. rec' \in [id : Nat, st : {"none", "open", "applied", "dismissed"}]
    BY <1>4, <2>1 DEF SetStatus
  <2>. QED  BY <1>4, <2>2, RequestShapes, GotoType DEF SetStatus
<1>5. ASSUME NEW how \in {"applied", "dismissed"}, Answer(s, how) PROVE TypeOK'
  BY <1>5, RequestShapes, GotoType DEF Answer
<1>. QED  BY <1>1, <1>2, <1>3, <1>4, <1>5

\* The cleanup of reports and a restart keep every type.
LEMMA CleanupTypes ==
  ASSUME TypeOK, Cleanup \/ HubRestart
  PROVE  TypeOK'
<1> USE DEF TypeOK, reports
<1>1. ASSUME NEW n \in Ids, Prune(n) PROVE TypeOK'
  <2>1. report' \in [Ids -> {"none", "queued", "running", "done", "failed"}]
    BY <1>1 DEF Prune
  <2>2. order' \in Seq(Ids)
    <3>1. n \in 1..Len(order) /\ order' = SubSeq(order, n + 1, Len(order))
      BY <1>1 DEF Prune
    <3>. QED  BY <3>1, SuffixType
  <2>3. rec' \in [id : Nat, st : {"none", "open", "applied", "dismissed"}]
    BY <1>1 DEF Prune
  <2>. QED  BY <1>1, <2>1, <2>2, <2>3 DEF Prune
<1>2. CASE HubRestart
  BY <1>2, RequestShapes DEF HubRestart
<1>. QED  BY <1>1, <1>2 DEF Cleanup

\* Every step keeps every type.
LEMMA TypeStep ==
  ASSUME TypeOK, Bounded, Attempts, [Next]_vars
  PROVE  TypeOK'
<1>1. CASE UNCHANGED vars
  BY <1>1 DEF vars, reports, TypeOK
<1>2. ASSUME NEW s \in Slots, Step(s) \/ Trigger(s) PROVE TypeOK'
  BY <1>2, TriggerTypes, AgentTypes, SettleTypes DEF Step
<1>3. ASSUME NEW s \in Slots, NEW i \in Ids, Start(s, i) \/ Succeed(s, i) \/ FailRead(s, i)
      PROVE  TypeOK'
  BY <1>3, AgentTypes
<1>4. ASSUME NEW s \in Slots, NEW how \in {"applied", "dismissed"}, Answer(s, how)
      PROVE  TypeOK'
  BY <1>4, SettleTypes
<1>5. ASSUME NEW i \in Ids, Claim(i) \/ Lapse(i) \/ PruneJob(i) PROVE TypeOK'
  BY <1>5, JobTypes
<1>6. CASE Cleanup \/ HubRestart
  BY <1>6, CleanupTypes
<1>. QED  BY <1>1, <1>2, <1>3, <1>4, <1>5, <1>6 DEF Next

------------------------------------------------------------------------------
(* The parts of the invariant, one lemma each *)

\* What the lemmas below use of the types.
LEMMA Functions ==
  ASSUME TypeOK
  PROVE  /\ report \in [Ids -> {"none", "queued", "running", "done", "failed"}]
         /\ job \in [Ids -> JobRow] /\ req \in [Slots -> Request]
         /\ minted \in Nat /\ crashes \in Nat
         /\ \A s \in Slots : req[s].op \in {"key", "close", "enqueue", "mark", "settle", "fail"}
                               => req[s].id \in Ids
<1>1. \A s \in Slots : req[s] \in Request
  BY DEF TypeOK
<1>2. \A s \in Slots : req[s].op \in {"key", "close", "enqueue", "mark", "settle", "fail"}
                         => req[s].id \in Ids
  BY <1>1, RequestFields
<1>. QED  BY <1>2 DEF TypeOK, JobRow

\* Room is kept for the triggers under way.
LEMMA BoundedStep ==
  ASSUME TypeOK, Bounded, [Next]_vars
  PROVE  Bounded'
<1>0. TypeOK /\ req \in [Slots -> Request] /\ minted \in Nat
  BY Functions
<1> USE DEF reports, Doing, Goto
<1>1. ASSUME Triggers' \subseteq Triggers, minted' = minted PROVE Bounded'
  <2>1. Triggers' \in SUBSET Triggers
    BY <1>1
  <2>2. Cardinality(Triggers') <= Cardinality(Triggers) /\ Cardinality(Triggers') \in Nat
    BY <2>1, TriggersFinite, FS_Subset, FS_CardinalityType
  <2>. QED  BY <1>0, <1>1, <2>2, TriggersFinite DEF Bounded
<1>2. ASSUME NEW s \in Slots, Trigger(s) PROVE Bounded'
  <2>1. Triggers' = Triggers \cup {s} /\ s \notin Triggers
    BY <1>0, <1>2 DEF Trigger, Triggers, Free, Idle
  <2>2. Cardinality(Triggers') = Cardinality(Triggers) + 1
    BY <2>1, TriggersFinite, FS_AddElement
  <2>. QED  BY <1>0, <1>2, <2>2, TriggersFinite DEF Trigger, Bounded
<1>3. ASSUME NEW s \in Slots, Create(s) PROVE Bounded'
  <2>1. Triggers' = Triggers \ {s} /\ s \in Triggers
    <3>1. req[s].op = "create"
      BY <1>3 DEF Create
    <3>2. \/ req' = [req EXCEPT ![s] = Idle]
          \/ req' = [req EXCEPT ![s] = [op |-> "enqueue", id |-> minted']]
      BY <1>3 DEF Create
    <3>3. req'[s].op \in {"idle", "enqueue"} /\ \A t \in Slots \ {s} : req'[t] = req[t]
      BY <1>0, <3>2 DEF Idle
    <3>. QED  BY <3>1, <3>3 DEF Triggers
  <2>2. Cardinality(Triggers') = Cardinality(Triggers) - 1
    BY <2>1, TriggersFinite, FS_RemoveElement
  <2>. QED  BY <1>0, <1>3, <2>2, TriggersFinite DEF Create, Bounded
<1>4. ASSUME NEW s \in Slots, FindActive(s) \/ FindJob(s) \/ CloseLost(s) \/ Enqueue(s)
      PROVE  Triggers' \subseteq Triggers /\ minted' = minted
  BY <1>0, <1>4 DEF FindActive, FindJob, CloseLost, Enqueue, Triggers, Idle
<1>5. ASSUME NEW s \in Slots, NEW i,
             MarkRunning(s) \/ FailWrite(s) \/ Start(s, i) \/ Succeed(s, i) \/ FailRead(s, i)
      PROVE  Triggers' \subseteq Triggers /\ minted' = minted
  BY <1>0, <1>5 DEF MarkRunning, FailWrite, Start, Succeed, FailRead, Triggers, Idle
<1>6. ASSUME NEW s \in Slots, NEW how,
             Settle(s) \/ Evaluate(s) \/ Sync(s) \/ SetStatus(s) \/ Answer(s, how)
      PROVE  Triggers' \subseteq Triggers /\ minted' = minted
  BY <1>0, <1>6 DEF Settle, Evaluate, Sync, SetStatus, Answer, Triggers, Idle
<1>7. ASSUME NEW i \in Ids, Claim(i) \/ Lapse(i) \/ PruneJob(i) \/ Prune(i)
      PROVE  Triggers' \subseteq Triggers /\ minted' = minted
  BY <1>7 DEF Claim, Lapse, PruneJob, Prune, Triggers
<1>8. ASSUME HubRestart PROVE Triggers' \subseteq Triggers /\ minted' = minted
  BY <1>8 DEF HubRestart, Triggers, Idle
<1>9. ASSUME UNCHANGED vars PROVE Triggers' \subseteq Triggers /\ minted' = minted
  BY <1>9 DEF vars, Triggers
<1>. QED
  BY <1>1, <1>2, <1>3, <1>4, <1>5, <1>6, <1>7, <1>8, <1>9 DEF Next, Step, Cleanup

\* Who writes a job, and how.
LEMMA JobWriters ==
  ASSUME TypeOK, [Next]_vars
  PROVE  \/ job' = job
         \/ \E s \in Slots : Enqueue(s) \/ FailWrite(s)
         \/ \E s \in Slots, i \in Ids : Start(s, i) \/ Succeed(s, i)
         \/ \E i \in Ids : Claim(i) \/ Lapse(i) \/ PruneJob(i)
<1> USE DEF reports
<1>1. CASE UNCHANGED vars
  BY <1>1 DEF vars
<1>2. ASSUME NEW s \in Slots, Trigger(s) \/ FindActive(s) \/ FindJob(s) \/ CloseLost(s) \/ Create(s)
      PROVE  job' = job
  BY <1>2 DEF Trigger, FindActive, FindJob, CloseLost, Create
<1>3. ASSUME NEW s \in Slots, NEW i, MarkRunning(s) \/ Settle(s) \/ FailRead(s, i)
      PROVE  job' = job
  BY <1>3 DEF MarkRunning, Settle, FailRead
<1>4. ASSUME NEW s \in Slots, NEW how, Evaluate(s) \/ Sync(s) \/ SetStatus(s) \/ Answer(s, how)
      PROVE  job' = job
  BY <1>4 DEF Evaluate, Sync, SetStatus, Answer
<1>5. ASSUME NEW n \in Ids, Prune(n) PROVE job' = job
  BY <1>5 DEF Prune
<1>6. CASE HubRestart
  BY <1>6 DEF HubRestart
<1>. QED
  BY <1>1, <1>2, <1>3, <1>4, <1>5, <1>6 DEF Next, Step, Cleanup

\* A job that is not written keeps its attempts, and so do all jobs when the one
\* written does.
LEMMA OneJobWritten ==
  ASSUME Attempts, NEW i \in Ids, \A j \in Ids \ {i} : job'[j] = job[j], Used(i)'
  PROVE  Attempts'
BY DEF Attempts, Used, Held

\* Attempts are counted right.
LEMMA AttemptsStep ==
  ASSUME TypeOK, Enqueuing, Attempts, [Next]_vars
  PROVE  Attempts'
<1>0. job \in [Ids -> JobRow]
  BY Functions
<1>1. CASE job' = job
  BY <1>1 DEF Attempts, Used, Held
<1>2. ASSUME NEW s \in Slots, Enqueue(s) PROVE Attempts'
  <2>1. PICK i \in Ids : i = req[s].id /\ job[i].tries = 0
    BY <1>2, Functions DEF Enqueue, Enqueuing, Doing
  <2>2. /\ job'[i].st = "queued" /\ job'[i].tries = 0
        /\ \A j \in Ids \ {i} : job'[j] = job[j]
    BY <1>0, <1>2, <2>1 DEF Enqueue, JobRow
  <2>3. Used(i)'
    BY <2>2 DEF Used, Held, Terminal
  <2>. QED  BY <2>2, <2>3, OneJobWritten
<1>3. ASSUME NEW s \in Slots, FailWrite(s) PROVE Attempts'
  <2>1. PICK i \in Ids : i = req[s].id
    BY <1>3, Functions DEF FailWrite, Doing
  <2>2. req[s].lease \in 1..MaxAttempts
    BY <1>3, Functions, RequestFields DEF FailWrite, Doing
  <2>3. CASE job' = job
    BY <2>3 DEF Attempts, Used, Held
  <2>4. CASE job' # job
    <3>1. job[i].tries = req[s].lease
      BY <1>3, <2>1, <2>4 DEF FailWrite
    <3>2. \E st \in {"failed", "queued"} :
            /\ job' = [job EXCEPT ![i] = [job[i] EXCEPT !.st = st, !.result = TRUE]]
            /\ st = "queued" => req[s].lease # MaxAttempts
      BY <1>3, <2>1, <2>4 DEF FailWrite
    <3>3. PICK st \in {"failed", "queued"} :
            /\ job' = [job EXCEPT ![i] = [job[i] EXCEPT !.st = st, !.result = TRUE]]
            /\ st = "queued" => req[s].lease # MaxAttempts
      BY <3>2
    <3>4. /\ job'[i].st = st /\ job'[i].tries = job[i].tries /\ job'[i].result = TRUE
          /\ \A j \in Ids \ {i} : job'[j] = job[j]
      BY <1>0, <2>1, <3>3 DEF JobRow
    <3>5. st = "queued" => job[i].tries < MaxAttempts
      BY <2>2, <3>1, <3>3
    <3>6. Used(i)'
      BY <3>4, <3>5 DEF Used, Held, Terminal
    <3>. QED  BY <2>1, <3>4, <3>6, OneJobWritten
  <2>. QED  BY <2>3, <2>4
<1>4. ASSUME NEW s \in Slots, NEW i \in Ids, Start(s, i) \/ Succeed(s, i) PROVE Attempts'
  <2>1. /\ job'[i].st \in {"running", "succeeded"} /\ job'[i].tries = job[i].tries
        /\ job'[i].st = "succeeded" => job'[i].result = TRUE
        /\ \A j \in Ids \ {i} : job'[j] = job[j]
    BY <1>0, <1>4 DEF Start, Succeed, JobRow
  <2>2. job[i].tries > 0
    BY <1>4 DEF Start, Succeed, Attempts, Used, Held
  <2>3. Used(i)'
    BY <2>1, <2>2 DEF Used, Held, Terminal
  <2>. QED  BY <2>1, <2>3, OneJobWritten
<1>5. ASSUME NEW i \in Ids, Claim(i) PROVE Attempts'
  <2>1. /\ job'[i].st = "claimed" /\ job'[i].tries = job[i].tries + 1
        /\ job[i].tries \in Nat /\ \A j \in Ids \ {i} : job'[j] = job[j]
    BY <1>0, <1>5 DEF Claim, JobRow
  <2>2. Used(i)'
    BY <2>1 DEF Used, Held, Terminal
  <2>. QED  BY <2>1, <2>2, OneJobWritten
<1>6. ASSUME NEW i \in Ids, Lapse(i) PROVE Attempts'
  <2>1. /\ job'[i].tries = job[i].tries /\ \A j \in Ids \ {i} : job'[j] = job[j]
        /\ \/ job'[i].st = "unknown"
           \/ job'[i].st = "queued" /\ job[i].tries < MaxAttempts
    BY <1>0, <1>6 DEF Lapse, JobRow
  <2>2. Used(i)'
    BY <1>6, <2>1 DEF Lapse, Attempts, Used, Held, Terminal
  <2>. QED  BY <2>1, <2>2, OneJobWritten
<1>7. ASSUME NEW i \in Ids, PruneJob(i) PROVE Attempts'
  <2>1. job'[i].st = "none" /\ \A j \in Ids \ {i} : job'[j] = job[j]
    BY <1>0, <1>7 DEF PruneJob, JobRow
  <2>2. Used(i)'
    BY <2>1 DEF Used, Held, Terminal
  <2>. QED  BY <2>1, <2>2, OneJobWritten
<1>. QED  BY <1>1, <1>2, <1>3, <1>4, <1>5, <1>6, <1>7, JobWriters

\* What a step does to a job: a handler gives it to a report, it moves on, and
\* when it ends its settlement follows, or it is removed.
JobMoves(i) ==
  \/ job'[i] = job[i]
  \/ /\ \E s \in Slots : Enqueue(s) /\ req[s].id = i
     /\ job'[i].st = "queued"
  \/ /\ job[i].st \notin {"none"} \cup Terminal /\ job'[i].st # "none" /\ report' = report
     /\ job'[i].st \in Terminal => \E s \in Slots : req'[s] = [op |-> "settle", id |-> i]
  \/ PruneJob(i) /\ job'[i].st = "none"

LEMMA JobChange ==
  ASSUME TypeOK, [Next]_vars
  PROVE  \A i \in Ids : JobMoves(i)
<1>0. job \in [Ids -> JobRow] /\ req \in [Slots -> Request]
  BY Functions
<1> USE DEF reports, Held, Terminal
<1>1. ASSUME NEW i \in Ids, job'[i] = job[i] PROVE JobMoves(i)
  BY <1>1 DEF JobMoves
<1>2. CASE job' = job
  BY <1>1, <1>2
<1>3. ASSUME NEW s \in Slots, Enqueue(s), NEW i \in Ids PROVE JobMoves(i)
  <2>1. req[s].id \in Ids
    BY <1>3, Functions DEF Enqueue, Doing
  <2>2. CASE i = req[s].id
    <3>1. job'[i].st = "queued"
      BY <1>0, <1>3, <2>1, <2>2 DEF Enqueue, JobRow
    <3>. QED  BY <1>3, <2>2, <3>1 DEF JobMoves
  <2>3. CASE i # req[s].id
    BY <1>0, <1>1, <1>3, <2>1, <2>3 DEF Enqueue
  <2>. QED  BY <2>2, <2>3
<1>4. ASSUME NEW s \in Slots, FailWrite(s), NEW i \in Ids PROVE JobMoves(i)
  <2>1. req[s].id \in Ids
    BY <1>4, Functions DEF FailWrite, Doing
  <2>2. CASE i # req[s].id \/ job' = job
    BY <1>0, <1>1, <1>4, <2>1, <2>2 DEF FailWrite
  <2>3. CASE i = req[s].id /\ job' # job
    <3>1. Held(i)
      BY <1>4, <2>3 DEF FailWrite
    <3>2. CASE req[s].lease = MaxAttempts
      <4>1. job'[i].st = "failed"
        BY <1>0, <1>4, <2>3, <3>2 DEF FailWrite, JobRow
      <4>2. req'[s] = [op |-> "settle", id |-> i]
        BY <1>0, <1>4, <2>3, <3>2 DEF FailWrite, Goto
      <4>. QED  BY <1>4, <3>1, <4>1, <4>2 DEF JobMoves, FailWrite
    <3>3. CASE req[s].lease # MaxAttempts
      <4>1. job'[i].st = "queued"
        BY <1>0, <1>4, <2>3, <3>3 DEF FailWrite, JobRow
      <4>. QED  BY <1>4, <3>1, <4>1 DEF JobMoves, FailWrite
    <3>. QED  BY <3>2, <3>3
  <2>. QED  BY <2>2, <2>3
<1>5. ASSUME NEW s \in Slots, NEW j \in Ids, Start(s, j), NEW i \in Ids PROVE JobMoves(i)
  <2>1. CASE i = j
    <3>1. job'[i].st = "running"
      BY <1>0, <1>5, <2>1 DEF Start, JobRow
    <3>. QED  BY <1>5, <2>1, <3>1 DEF Start, JobMoves
  <2>2. CASE i # j
    BY <1>0, <1>1, <1>5, <2>2 DEF Start
  <2>. QED  BY <2>1, <2>2
<1>6. ASSUME NEW s \in Slots, NEW j \in Ids, Succeed(s, j), NEW i \in Ids PROVE JobMoves(i)
  <2>1. CASE i = j
    <3>1. job'[i].st = "succeeded" /\ req'[s] = [op |-> "settle", id |-> i]
      BY <1>0, <1>6, <2>1 DEF Succeed, Goto, JobRow
    <3>. QED  BY <1>6, <2>1, <3>1 DEF Succeed, JobMoves
  <2>2. CASE i # j
    BY <1>0, <1>1, <1>6, <2>2 DEF Succeed
  <2>. QED  BY <2>1, <2>2
<1>7. ASSUME NEW j \in Ids, Claim(j) \/ Lapse(j), NEW i \in Ids PROVE JobMoves(i)
  <2>1. CASE i = j
    <3>1. job'[i].st \in {"claimed", "queued", "unknown"}
      BY <1>0, <1>7, <2>1 DEF Claim, Lapse, JobRow
    <3>. QED  BY <1>7, <2>1, <3>1 DEF Claim, Lapse, JobMoves
  <2>2. CASE i # j
    BY <1>0, <1>1, <1>7, <2>2 DEF Claim, Lapse
  <2>. QED  BY <2>1, <2>2
<1>8. ASSUME NEW j \in Ids, PruneJob(j), NEW i \in Ids PROVE JobMoves(i)
  <2>1. CASE i = j
    BY <1>0, <1>8, <2>1 DEF PruneJob, JobRow, JobMoves
  <2>2. CASE i # j
    BY <1>0, <1>1, <1>8, <2>2 DEF PruneJob
  <2>. QED  BY <2>1, <2>2
<1>. QED  BY <1>2, <1>3, <1>4, <1>5, <1>6, <1>7, <1>8, JobWriters

\* What a step does to a report: it is created, begins, ends with the verdict of
\* its job or as lost, or is removed while no handler is about to give it its job.
ReportMoves(i) ==
  \/ report'[i] = report[i]
  \/ /\ i = minted + 1 /\ minted' = minted + 1 /\ report'[i] = "queued"
     /\ \E s \in Slots : req'[s] = [op |-> "enqueue", id |-> i]
     /\ job' = job
  \/ report[i] = "queued" /\ report'[i] = "running" /\ job' = job
  \/ InFlight(i) /\ report'[i] = "failed"
  \/ InFlight(i) /\ report'[i] = "done" /\ job[i].st = "succeeded" /\ job' = job
  \/ report'[i] = "none" /\ ~Uses(i, {"enqueue"})

LEMMA ReportChange ==
  ASSUME TypeOK, Bounded, [Next]_vars
  PROVE  \A i \in Ids : ReportMoves(i)
<1>0. /\ report \in [Ids -> {"none", "queued", "running", "done", "failed"}]
      /\ req \in [Slots -> Request]
  BY Functions
<1> USE DEF reports, InFlight
<1>1. ASSUME NEW i \in Ids, report'[i] = report[i] PROVE ReportMoves(i)
  BY <1>1 DEF ReportMoves
<1>2. ASSUME NEW s \in Slots, CloseLost(s), NEW i \in Ids PROVE ReportMoves(i)
  <2>1. req[s].id \in Ids
    BY <1>2, Functions DEF CloseLost, Doing
  <2>. QED  BY <1>0, <1>2, <2>1 DEF CloseLost, Complete, ReportMoves
<1>3. ASSUME NEW s \in Slots, Create(s), NEW i \in Ids PROVE ReportMoves(i)
  <2>1. minted + 1 \in Ids
    BY <1>3, RoomToCreate DEF Create
  <2>2. CASE UNCHANGED reports
    BY <1>1, <2>2
  <2>3. CASE /\ minted' = minted + 1
             /\ report' = [report EXCEPT ![minted'] = "queued"]
             /\ Goto(s, [op |-> "enqueue", id |-> minted'])
    <3>1. req'[s] = [op |-> "enqueue", id |-> minted + 1]
      BY <1>0, <2>3 DEF Goto
    <3>2. job' = job
      BY <1>3 DEF Create
    <3>. QED  BY <1>0, <2>1, <2>3, <3>1, <3>2 DEF ReportMoves
  <2>. QED  BY <1>3, <2>2, <2>3 DEF Create
<1>4. ASSUME NEW s \in Slots, MarkRunning(s), NEW i \in Ids PROVE ReportMoves(i)
  <2>1. req[s].id \in Ids
    BY <1>4, Functions DEF MarkRunning, Doing
  <2>. QED  BY <1>0, <1>4, <2>1 DEF MarkRunning, ReportMoves
<1>5. ASSUME NEW s \in Slots, Settle(s), NEW i \in Ids PROVE ReportMoves(i)
  <2>1. req[s].id \in Ids
    BY <1>5, Functions DEF Settle, Doing
  <2>. QED  BY <1>0, <1>5, <2>1 DEF Settle, Complete, ReportMoves
<1>6. ASSUME NEW n \in Ids, Prune(n), NEW i \in Ids PROVE ReportMoves(i)
  BY <1>0, <1>6 DEF Prune, ReportMoves
<1>7. CASE report' = report
  BY <1>1, <1>7
<1>8. CASE UNCHANGED vars
  BY <1>7, <1>8 DEF vars
<1>9. ASSUME NEW s \in Slots, Trigger(s) \/ FindActive(s) \/ FindJob(s) \/ Enqueue(s)
      PROVE  report' = report
  BY <1>9 DEF Trigger, FindActive, FindJob, Enqueue
<1>10. ASSUME NEW s \in Slots, NEW i,
              FailWrite(s) \/ Start(s, i) \/ Succeed(s, i) \/ FailRead(s, i)
       PROVE  report' = report
  BY <1>10 DEF FailWrite, Start, Succeed, FailRead
<1>11. ASSUME NEW s \in Slots, NEW how,
              Evaluate(s) \/ Sync(s) \/ SetStatus(s) \/ Answer(s, how)
       PROVE  report' = report
  BY <1>11 DEF Evaluate, Sync, SetStatus, Answer
<1>12. ASSUME NEW i, Claim(i) \/ Lapse(i) \/ PruneJob(i) PROVE report' = report
  BY <1>12 DEF Claim, Lapse, PruneJob
<1>13. CASE HubRestart
  BY <1>7, <1>13 DEF HubRestart
<1>. QED
  BY <1>2, <1>3, <1>4, <1>5, <1>6, <1>7, <1>8, <1>9, <1>10, <1>11, <1>12, <1>13
  DEF Next, Step, Cleanup

\* What a step does to a handler that has to do with a job: it takes up a report
\* just created, or a job that is there, or goes from a last failure to its
\* settlement; and who gives a report its job, or settles it, is done with it.
HandlerMoves(s) ==
  \/ req'[s] = req[s]
  \/ /\ req'[s].op \notin {"enqueue", "mark", "fail", "settle"}
     /\ Doing(s, "enqueue") => Enqueue(s) \/ HubRestart
     /\ Doing(s, "settle") => Settle(s) \/ HubRestart
  \/ /\ Doing(s, "create") /\ req'[s] = [op |-> "enqueue", id |-> minted + 1]
     /\ minted' = minted + 1 /\ report' = [report EXCEPT ![minted + 1] = "queued"]
     /\ job' = job /\ \A t \in Slots \ {s} : req'[t] = req[t]
  \/ /\ req[s] = Idle /\ req'[s].op \in {"mark", "fail", "settle"} /\ req'[s].id \in Ids
     /\ job[req'[s].id].st \notin {"none", "queued"}
  \/ /\ Doing(s, "fail") /\ req'[s] = [op |-> "settle", id |-> req[s].id]

LEMMA HandlerChange ==
  ASSUME TypeOK, [Next]_vars
  PROVE  \A s \in Slots : HandlerMoves(s)
<1>0. req \in [Slots -> Request]
  BY Functions
<1> USE DEF reports, Goto, Doing
<1>1. ASSUME NEW s \in Slots, req'[s] = req[s] PROVE HandlerMoves(s)
  BY <1>1 DEF HandlerMoves
<1>2. ASSUME NEW t \in Slots, \A u \in Slots \ {t} : req'[u] = req[u],
             req'[t].op \notin {"enqueue", "mark", "fail", "settle"},
             req[t].op \notin {"enqueue", "settle"}, NEW s \in Slots
      PROVE  HandlerMoves(s)
  BY <1>2 DEF HandlerMoves
<1>3. ASSUME NEW t \in Slots, Trigger(t), NEW s \in Slots PROVE HandlerMoves(s)
  BY <1>0, <1>2, <1>3 DEF Trigger, Free, Idle
<1>4. ASSUME NEW t \in Slots, FindActive(t) \/ FindJob(t) \/ CloseLost(t), NEW s \in Slots
      PROVE  HandlerMoves(s)
  <2>1. CASE FindActive(t)
    BY <1>0, <1>2, <2>1 DEF FindActive
  <2>2. CASE FindJob(t)
    BY <1>0, <1>2, <2>2 DEF FindJob, Idle
  <2>3. CASE CloseLost(t)
    BY <1>0, <1>2, <2>3 DEF CloseLost
  <2>. QED  BY <1>4, <2>1, <2>2, <2>3
<1>5. ASSUME NEW t \in Slots, Create(t), NEW s \in Slots PROVE HandlerMoves(s)
  <2>1. CASE Goto(t, Idle)
    BY <1>0, <1>2, <1>5, <2>1 DEF Create, Idle
  <2>2. CASE /\ minted' = minted + 1
             /\ report' = [report EXCEPT ![minted'] = "queued"]
             /\ Goto(t, [op |-> "enqueue", id |-> minted'])
    BY <1>0, <1>5, <2>2 DEF Create, HandlerMoves
  <2>. QED  BY <1>5, <2>1, <2>2 DEF Create
<1>6. ASSUME NEW t \in Slots, Enqueue(t), NEW s \in Slots PROVE HandlerMoves(s)
  BY <1>0, <1>6 DEF Enqueue, HandlerMoves, Idle
<1>7. ASSUME NEW t \in Slots, MarkRunning(t) \/ Evaluate(t) \/ Sync(t) \/ SetStatus(t),
             NEW s \in Slots
      PROVE  HandlerMoves(s)
  <2>1. CASE MarkRunning(t)
    BY <1>0, <1>2, <2>1 DEF MarkRunning, Idle
  <2>2. CASE Evaluate(t)
    BY <1>0, <1>2, <2>2 DEF Evaluate
  <2>3. CASE Sync(t) \/ SetStatus(t)
    BY <1>0, <1>2, <2>3 DEF Sync, SetStatus, Idle
  <2>. QED  BY <1>7, <2>1, <2>2, <2>3
<1>8. ASSUME NEW t \in Slots, NEW i \in Ids, Start(t, i) \/ Succeed(t, i) \/ FailRead(t, i),
             NEW s \in Slots
      PROVE  HandlerMoves(s)
  <2>1. req[t] = Idle /\ job[i].st \notin {"none", "queued"}
    BY <1>8 DEF Start, Succeed, FailRead, Free, Held
  <2>2. /\ req'[t].op \in {"mark", "fail", "settle"} /\ req'[t].id = i
        /\ \A u \in Slots \ {t} : req'[u] = req[u]
    BY <1>0, <1>8 DEF Start, Succeed, FailRead
  <2>3. CASE s = t
    BY <2>1, <2>2, <2>3 DEF HandlerMoves
  <2>. QED  BY <1>1, <2>2, <2>3
<1>9. ASSUME NEW t \in Slots, FailWrite(t), NEW s \in Slots PROVE HandlerMoves(s)
  <2>1. CASE Goto(t, Idle)
    BY <1>0, <1>2, <1>9, <2>1 DEF FailWrite, Idle
  <2>2. CASE Goto(t, [op |-> "settle", id |-> req[t].id])
    BY <1>0, <1>9, <2>2 DEF FailWrite, HandlerMoves
  <2>. QED  BY <1>9, <2>1, <2>2 DEF FailWrite
<1>10. ASSUME NEW t \in Slots, Settle(t), NEW s \in Slots PROVE HandlerMoves(s)
  <2>1. /\ req[t].op = "settle" /\ req'[t].op \in {"idle", "evaluate"}
        /\ \A u \in Slots \ {t} : req'[u] = req[u]
    BY <1>0, <1>10 DEF Settle, Idle
  <2>. QED  BY <1>10, <2>1 DEF HandlerMoves
<1>11. ASSUME NEW t \in Slots, NEW how, Answer(t, how), NEW s \in Slots PROVE HandlerMoves(s)
  BY <1>0, <1>2, <1>11 DEF Answer, Free, Idle
<1>12. ASSUME HubRestart, NEW s \in Slots PROVE HandlerMoves(s)
  BY <1>12 DEF HubRestart, HandlerMoves, Idle
<1>13. CASE req' = req
  BY <1>1, <1>13
<1>14. CASE UNCHANGED vars
  BY <1>13, <1>14 DEF vars
<1>15. ASSUME NEW i, Claim(i) \/ Lapse(i) \/ PruneJob(i) \/ Prune(i) PROVE req' = req
  BY <1>15 DEF Claim, Lapse, PruneJob, Prune
<1>. QED
  BY <1>3, <1>4, <1>5, <1>6, <1>7, <1>8, <1>9, <1>10, <1>11, <1>12, <1>13, <1>14, <1>15
  DEF Next, Step, Cleanup

\* Ids are given out in order.
LEMMA MintedGrows ==
  ASSUME TypeOK, [Next]_vars
  PROVE  minted' \in Nat /\ minted' >= minted
<1>0. minted \in Nat
  BY Functions
<1>1. minted' = minted \/ minted' = minted + 1
  BY DEF Next, vars, reports, Step, Cleanup, Trigger, FindActive, FindJob, CloseLost, Create,
         Enqueue, Claim, Start, MarkRunning, Succeed, FailRead, FailWrite, Lapse, Settle,
         Evaluate, Sync, Answer, SetStatus, PruneJob, Prune, HubRestart
<1>. QED  BY <1>0, <1>1

\* The ids that were not given out stay blank.
LEMMA FreshStep ==
  ASSUME TypeOK, Bounded, Fresh, Enqueuing, Attempts, [Next]_vars
  PROVE  Fresh'
<1>1. SUFFICES ASSUME NEW i \in Ids, i > minted'
               PROVE  report'[i] = "none" /\ job'[i].st = "none" /\ job'[i].tries = 0
  BY DEF Fresh
<1>2. /\ minted \in Nat /\ minted' \in Nat /\ i > minted
      /\ report[i] = "none" /\ job[i].st = "none" /\ job[i].tries = 0
  BY <1>1, Functions, MintedGrows DEF Fresh
<1>3. report'[i] = "none"
  <2>1. ReportMoves(i)
    BY ReportChange
  <2>2. ~InFlight(i) /\ ~(i = minted + 1 /\ minted' = minted + 1)
    BY <1>1, <1>2 DEF InFlight
  <2>. QED  BY <1>2, <2>1, <2>2 DEF ReportMoves
<1>4. job'[i] = job[i]
  <2>1. ~\E s \in Slots : Enqueue(s) /\ req[s].id = i
    <3>1. \A s \in Slots : Enqueue(s) => req[s].id <= minted
      BY DEF Enqueue, Enqueuing
    <3>. QED  BY <1>2, <3>1
  <2>. QED  BY <1>2, <2>1, JobChange DEF JobMoves, PruneJob, Terminal
<1>. QED  BY <1>2, <1>3, <1>4

\* A handler keeps the report it is about to give its job to itself.
LEMMA EnqueuingStep ==
  ASSUME TypeOK, Bounded, Fresh, Enqueuing, Handled, [Next]_vars
  PROVE  Enqueuing'
<1>1. minted \in Nat /\ minted' \in Nat /\ minted <= minted'
  BY Functions, MintedGrows
<1>2. ASSUME NEW s \in Slots, req'[s].op = "enqueue"
      PROVE  \/ req'[s] = req[s]
             \/ /\ Doing(s, "create") /\ req'[s].id = minted + 1 /\ minted' = minted + 1
                /\ report' = [report EXCEPT ![minted + 1] = "queued"] /\ job' = job
                /\ \A t \in Slots \ {s} : req'[t] = req[t]
  <2>1. HandlerMoves(s)
    BY HandlerChange
  <2>. QED  BY <1>2, <2>1 DEF HandlerMoves
<1>3. ASSUME NEW s \in Slots, Doing(s, "enqueue"), req'[s] = req[s]
      PROVE  /\ req[s].id \in Ids /\ report'[req[s].id] # "done"
             /\ job'[req[s].id].st = "none" /\ job'[req[s].id].tries = 0
  <2>1. PICK i \in Ids : i = req[s].id
    BY <1>3, Functions DEF Doing
  <2>2. /\ report[i] # "done" /\ job[i].st = "none" /\ job[i].tries = 0
        /\ \A t \in Slots : Doing(t, "enqueue") /\ req[t].id = i => t = s
    BY <1>3, <2>1 DEF Enqueuing
  <2>3. report'[i] # "done"
    <3>1. ReportMoves(i)
      BY ReportChange
    <3>. QED  BY <2>2, <3>1 DEF ReportMoves
  <2>4. ~\E t \in Slots : Enqueue(t) /\ req[t].id = i
    <3>1. ~Enqueue(s)
      <4>1. req \in [Slots -> Request]
        BY Functions
      <4>. QED  BY <1>3, <4>1 DEF Enqueue, Doing, Goto, Idle
    <3>. QED  BY <2>2, <3>1 DEF Enqueue
  <2>5. job'[i] = job[i]
    <3>1. JobMoves(i)
      BY JobChange
    <3>. QED  BY <2>2, <2>4, <3>1 DEF JobMoves, PruneJob, Terminal
  <2>. QED  BY <2>1, <2>2, <2>3, <2>5
<1>4. SUFFICES ASSUME NEW s \in Slots, req'[s].op = "enqueue"
      PROVE  /\ req'[s].id <= minted' /\ report'[req'[s].id] # "done"
             /\ job'[req'[s].id].st = "none" /\ job'[req'[s].id].tries = 0
             /\ \A t \in Slots : req'[t].op = "enqueue" /\ req'[t].id = req'[s].id => t = s
  BY DEF Enqueuing, Doing
<1>5. ASSUME NEW t \in Slots, req'[t].op = "enqueue", req'[t] = req[t]
      PROVE  req[t].id <= minted
  BY <1>5 DEF Enqueuing, Doing
<1>6. CASE req'[s] = req[s]
  <2>1. Doing(s, "enqueue")
    BY <1>4, <1>6 DEF Doing
  <2>2. req[s].id <= minted /\ req[s].id \in Ids
    BY <1>3, <1>6, <2>1 DEF Enqueuing
  <2>3. ASSUME NEW t \in Slots, req'[t].op = "enqueue", req'[t].id = req'[s].id PROVE t = s
    <3>1. req'[t] = req[t]
      <4>1. req'[t].id # minted + 1
        BY <1>1, <1>6, <2>2, <2>3
      <4>. QED  BY <1>2, <2>3, <4>1
    <3>2. Doing(t, "enqueue") /\ req[t].id = req[s].id
      BY <1>6, <2>3, <3>1 DEF Doing
    <3>. QED  BY <2>1, <3>2 DEF Enqueuing
  <2>4. /\ report'[req[s].id] # "done"
        /\ job'[req[s].id].st = "none" /\ job'[req[s].id].tries = 0
    BY <1>3, <1>6, <2>1
  <2>5. req[s].id <= minted'
    BY <1>1, <2>2
  <2>. QED  BY <1>6, <2>3, <2>4, <2>5
<1>7. CASE req'[s] # req[s]
  <2>1. /\ Doing(s, "create") /\ req'[s].id = minted + 1 /\ minted' = minted + 1
        /\ report' = [report EXCEPT ![minted + 1] = "queued"] /\ job' = job
        /\ \A t \in Slots \ {s} : req'[t] = req[t]
    BY <1>2, <1>4, <1>7
  <2>2. minted + 1 \in Ids
    BY <2>1, RoomToCreate
  <2>3. report'[minted + 1] # "done"
    BY <2>1, <2>2, Functions
  <2>4. job'[minted + 1].st = "none" /\ job'[minted + 1].tries = 0
    BY <1>1, <2>1, <2>2 DEF Fresh
  <2>5. ASSUME NEW t \in Slots, req'[t].op = "enqueue", req'[t].id = req'[s].id PROVE t = s
    <3>1. ASSUME req'[t] = req[t] PROVE FALSE
      <4>1. req[t].id <= minted
        BY <1>5, <2>5, <3>1
      <4>. QED  BY <1>1, <2>1, <2>5, <3>1, <4>1
    <3>. QED  BY <2>1, <3>1
  <2>. QED  BY <1>1, <2>1, <2>3, <2>4, <2>5
<1>. QED  BY <1>6, <1>7

\* A job stays as long as a request about it is under way.
LEMMA HandledStep ==
  ASSUME TypeOK, Handled, [Next]_vars
  PROVE  Handled'
<1>1. SUFFICES ASSUME NEW s \in Slots, req'[s].op \in {"mark", "fail", "settle"}
               PROVE  job'[req'[s].id].st # "none"
  BY DEF Handled
<1>2. HandlerMoves(s)
  BY HandlerChange
<1>3. PICK i \in Ids : /\ i = req'[s].id /\ job[i].st # "none"
                       /\ req'[s] # req[s] \/ Uses(i, {"mark", "fail", "settle"})
  <2>1. CASE req'[s] = req[s]
    BY <1>1, <2>1, Functions DEF Handled, Uses
  <2>2. CASE Doing(s, "fail") /\ req'[s] = [op |-> "settle", id |-> req[s].id]
    BY <2>2, Functions DEF Handled, Uses, Doing
  <2>3. CASE req[s] = Idle /\ req'[s].id \in Ids /\ job[req'[s].id].st \notin {"none", "queued"}
    BY <1>1, <2>3 DEF Idle
  <2>. QED  BY <1>1, <1>2, <2>1, <2>2, <2>3 DEF HandlerMoves
<1>4. ~PruneJob(i)
  BY <1>3 DEF PruneJob
<1>5. JobMoves(i)
  BY JobChange
<1>. QED  BY <1>3, <1>4, <1>5 DEF JobMoves

\* Reports stay truthful.
LEMMA DoneByJobStep ==
  ASSUME TypeOK, Bounded, Enqueuing, DoneByJob, [Next]_vars
  PROVE  DoneByJob'
<1>1. SUFFICES ASSUME NEW i \in Ids, report'[i] = "done"
               PROVE  job'[i].st \in {"succeeded", "none"}
  BY DEF DoneByJob
<1>2. ReportMoves(i) /\ JobMoves(i)
  BY ReportChange, JobChange
<1>3. CASE report'[i] = report[i]
  <2>1. job[i].st \in {"succeeded", "none"}
    BY <1>1, <1>3 DEF DoneByJob
  <2>2. ~\E s \in Slots : Enqueue(s) /\ req[s].id = i
    BY <1>1, <1>3 DEF Enqueue, Enqueuing
  <2>. QED  BY <1>2, <2>1, <2>2 DEF JobMoves, Terminal
<1>4. CASE report'[i] # report[i]
  BY <1>1, <1>2, <1>4 DEF ReportMoves
<1>. QED  BY <1>3, <1>4

\* No report is forgotten.
LEMMA SettledStep ==
  ASSUME TypeOK, Bounded, Enqueuing, Attempts, Handled, Settled, [Next]_vars
  PROVE  Settled'
<1>1. SUFFICES ASSUME NEW i \in Ids, crashes' = 0, InFlight(i)', job'[i].st \in {"none"} \cup Terminal
               PROVE  Uses(i, {"enqueue", "settle"})'
  BY DEF Settled, Terminal
<1>2. crashes = 0 /\ ~HubRestart
  <2>1. crashes' = crashes \/ HubRestart
    BY DEF Next, vars, reports, Step, Cleanup, Trigger, FindActive, FindJob, CloseLost, Create,
           Enqueue, Claim, Start, MarkRunning, Succeed, FailRead, FailWrite, Lapse, Settle,
           Evaluate, Sync, Answer, SetStatus, PruneJob, Prune
  <2>2. HubRestart => crashes' # 0
    BY Functions DEF HubRestart
  <2>. QED  BY <1>1, <2>1, <2>2
<1>3. ReportMoves(i) /\ JobMoves(i) /\ \A s \in Slots : HandlerMoves(s)
  BY ReportChange, JobChange, HandlerChange
<1>4. ASSUME ~Uses(i, {"enqueue", "settle"})' PROVE InFlight(i)
  <2>1. report'[i] \in {"queued", "running"}
    BY <1>1 DEF InFlight
  <2>2. ASSUME NEW s \in Slots, req'[s] = [op |-> "enqueue", id |-> i] PROVE FALSE
    <3>1. req'[s].op = "enqueue" /\ req'[s].id = i
      BY <2>2
    <3>. QED  BY <1>4, <3>1 DEF Uses
  <2>. QED  BY <1>3, <2>1, <2>2 DEF ReportMoves, InFlight
<1>5. CASE job'[i] = job[i]
  <2>1. SUFFICES ASSUME ~Uses(i, {"enqueue", "settle"})' PROVE FALSE
    OBVIOUS
  <2>2. PICK s \in Slots : req[s].op \in {"enqueue", "settle"} /\ req[s].id = i
    BY <1>1, <1>2, <1>4, <1>5, <2>1 DEF Settled, Uses, Terminal
  <2>3. req'[s] # req[s]
    BY <2>1, <2>2 DEF Uses
  <2>4. HandlerMoves(s)
    BY <1>3
  <2>5. CASE req[s].op = "enqueue"
    <3>1. Enqueue(s)
      BY <1>2, <2>3, <2>4, <2>5 DEF HandlerMoves, Doing, Idle
    <3>2. job'[i].st = "queued"
      BY <2>2, <3>1, Functions DEF Enqueue, JobRow
    <3>. QED  BY <1>1, <3>2 DEF Terminal
  <2>6. CASE req[s].op = "settle"
    <3>1. Settle(s)
      BY <1>2, <2>3, <2>4, <2>6 DEF HandlerMoves, Doing, Idle
    <3>2. job[i].st # "none"
      BY <2>2, <2>6 DEF Handled
    <3>3. job[i].result = TRUE
      BY <1>1, <1>5, <3>2 DEF Attempts, Used
    <3>4. Complete(i, "done") \/ Complete(i, "failed")
      BY <2>2, <3>1, <3>3 DEF Settle
    <3>5. report'[i] \notin {"queued", "running"}
      BY <3>4, Functions DEF Complete, InFlight
    <3>. QED  BY <1>1, <3>5 DEF InFlight
  <2>. QED  BY <2>2, <2>5, <2>6
<1>6. CASE job'[i].st = "queued"
  BY <1>1, <1>6 DEF Terminal
<1>7. CASE job'[i].st # "none" /\ \E s \in Slots : req'[s] = [op |-> "settle", id |-> i]
  BY <1>7 DEF Uses
<1>8. CASE PruneJob(i)
  <2>1. SUFFICES ASSUME ~Uses(i, {"enqueue", "settle"})' PROVE FALSE
    OBVIOUS
  <2>2. job[i].st \in Terminal /\ ~Uses(i, {"mark", "fail", "settle"})
    BY <1>8 DEF PruneJob
  <2>3. PICK s \in Slots : req[s].op \in {"enqueue", "settle"} /\ req[s].id = i
    BY <1>2, <1>4, <2>1, <2>2 DEF Settled, Uses
  <2>4. req[s].op = "enqueue"
    BY <2>2, <2>3 DEF Uses
  <2>. QED  BY <2>2, <2>3, <2>4 DEF Enqueuing, Doing, Terminal
<1>. QED  BY <1>1, <1>3, <1>5, <1>6, <1>7, <1>8 DEF JobMoves

------------------------------------------------------------------------------
\* The inductive invariant holds.
THEOREM Inductive == Spec => []IInv
<1>1. Init => IInv
  <2> SUFFICES ASSUME Init PROVE IInv
    OBVIOUS
  <2>1. TypeOK
    <3>1. req \in [Slots -> Request]
      BY RequestShapes DEF Init
    <3>. QED  BY <3>1 DEF Init, TypeOK
  <2>2. Bounded
    <3>1. Triggers = {}
      BY DEF Init, Triggers, Idle
    <3>. QED  BY <3>1, FS_EmptySet DEF Init, Bounded
  <2>3. Fresh /\ Attempts
    BY DEF Init, Fresh, Attempts, Used, Held, Terminal
  <2>4. Enqueuing /\ Handled
    BY DEF Init, Enqueuing, Handled, Doing, Idle
  <2>5. DoneByJob /\ Settled
    BY DEF Init, DoneByJob, Settled, InFlight
  <2>. QED  BY <2>1, <2>2, <2>3, <2>4, <2>5 DEF IInv
<1>2. IInv /\ [Next]_vars => IInv'
  BY TypeStep, BoundedStep, FreshStep, EnqueuingStep, AttemptsStep, HandledStep, DoneByJobStep,
     SettledStep
  DEF IInv
<1>. QED  BY <1>1, <1>2, PTL DEF Spec

\* Every variable keeps its type.
THEOREM TypeCorrect == Spec => []TypeOK
<1>1. IInv => TypeOK
  BY DEF IInv
<1>. QED  BY <1>1, Inductive, PTL

\* The invariant of scans: a report says "done" only of a scan that succeeded
\* (trigger.ts:180-190), and as long as the hub has not stopped none in flight is
\* left without a job that will end or a handler that will close it
\* (routes/ingress/jobs/[id]/+server.ts:54-69), however the triggers, the agent's
\* requests and the cleanup interleave.
THEOREM ScansSettled == Spec => []ScanInv
<1>1. IInv => ScanInv
  BY DEF IInv, ScanInv
<1>. QED  BY <1>1, Inductive, PTL

\* Who writes the recommendation, and how.
LEMMA RecChange ==
  ASSUME TypeOK, [Next]_vars
  PROVE  \/ rec' = rec
         \/ rec.st # "open" /\ rec'.st = "none"
         \/ rec.st \in {"none", "applied"} /\ rec'.st = "open"
         \/ rec.st = "open"
<1> USE DEF reports
<1>1. ASSUME NEW s \in Slots, Sync(s)
      PROVE  \/ rec' = rec
             \/ rec.st \in {"none", "applied"} /\ rec'.st = "open"
             \/ rec.st = "open"
  <2>1. CASE rec.st = "none" /\ rec' # rec
    BY <1>1, <2>1 DEF Sync
  <2>2. CASE rec.st = "applied" /\ rec' # rec
    BY <1>1, <2>2 DEF Sync, TypeOK
  <2>3. CASE rec.st \notin {"none", "applied", "open"}
    BY <1>1, <2>3 DEF Sync
  <2>. QED  BY <2>1, <2>2, <2>3
<1>2. ASSUME NEW s \in Slots, SetStatus(s)
      PROVE  rec' = rec \/ rec.st = "open"
  BY <1>2 DEF SetStatus
<1>3. ASSUME NEW n \in Ids, Prune(n)
      PROVE  rec' = rec \/ (rec.st # "open" /\ rec'.st = "none")
  <2>1. rec \in [id : Nat, st : {"none", "open", "applied", "dismissed"}]
    BY DEF TypeOK
  <2>2. CASE rec.st = "open"
    BY <1>3, <2>2 DEF Prune
  <2>3. CASE rec.st # "open"
    <3>1. rec' = rec \/ rec' = [rec EXCEPT !.st = "none"]
      BY <1>3, <2>3 DEF Prune
    <3>. QED  BY <2>1, <2>3, <3>1
  <2>. QED  BY <2>2, <2>3
<1>4. ASSUME NEW s \in Slots, NEW i, NEW how,
             \/ Trigger(s) \/ FindActive(s) \/ FindJob(s) \/ CloseLost(s) \/ Create(s) \/ Enqueue(s)
             \/ MarkRunning(s) \/ FailWrite(s) \/ Settle(s) \/ Evaluate(s) \/ Answer(s, how)
             \/ Start(s, i) \/ Succeed(s, i) \/ FailRead(s, i)
      PROVE  rec' = rec
  BY <1>4 DEF Trigger, FindActive, FindJob, CloseLost, Create, Enqueue, MarkRunning, FailWrite,
              Settle, Evaluate, Answer, Start, Succeed, FailRead
<1>5. ASSUME NEW i, Claim(i) \/ Lapse(i) \/ PruneJob(i) PROVE rec' = rec
  BY <1>5 DEF Claim, Lapse, PruneJob
<1>6. CASE HubRestart \/ UNCHANGED vars
  BY <1>6 DEF HubRestart, vars
<1>. QED  BY <1>1, <1>2, <1>3, <1>4, <1>5, <1>6 DEF Next, Step, Cleanup

\* Verdicts and answers stand: no late, repeated or overlapping post changes an
\* ended report (store.ts:342-343), and none but a scan that finds the flaw
\* again changes an answered recommendation (store.ts:494, 506-510).
THEOREM VerdictsAreFinal == Spec => VerdictsStand
<1>1. IInv /\ [Next]_vars => [Stands]_vars
  <2> SUFFICES ASSUME IInv, [Next]_vars PROVE Stands
    OBVIOUS
  <2>1. ASSUME NEW i \in Ids, report[i] \in {"done", "failed"}
        PROVE  report'[i] \in {report[i], "none"}
    <3>1. ReportMoves(i)
      BY ReportChange DEF IInv
    <3>2. i # minted + 1
      BY <2>1, Functions DEF IInv, Fresh
    <3>. QED  BY <2>1, <3>1, <3>2 DEF ReportMoves, InFlight
  <2>2. /\ rec.st = "dismissed" => rec'.st \in {"dismissed", "none"}
        /\ rec.st = "applied" => rec'.st \in {"applied", "none", "open"}
    BY RecChange DEF IInv
  <2>. QED  BY <2>1, <2>2 DEF Stands
<1>. QED  BY <1>1, Inductive, PTL DEF Spec, VerdictsStand
==============================================================================
