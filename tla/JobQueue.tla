------------------------------ MODULE JobQueue ------------------------------
(***************************************************************************)
(* The hub's durable job queue (src/lib/server/jobs/queue.ts): the         *)
(* jobs table, the lease under which an agent works on a job, and the      *)
(* sweep that recovers jobs whose lease ran out.                           *)
(*                                                                         *)
(* Every SQL statement is atomic; a method that awaits between statements  *)
(* is as many actions as it has statements outside a transaction: fail()   *)
(* reads, then writes; recover() runs two UPDATEs.  Times are kept         *)
(* relative to now, so that no bound on the clock is needed.  A lease      *)
(* token is a random string in the code; here the n-th token drawn for a   *)
(* job is the number n, so no two are equal and only a caller that was     *)
(* handed one can present it.  Callers present any token they were ever    *)
(* handed, at any time: late, duplicated and zombie requests are all of    *)
(* this form.  Results and specs are payload and left out.                 *)
(***************************************************************************)
EXTENDS Integers, Sequences, FiniteSets

CONSTANTS
  Agents,         \* claimers; a job may be targeted at one of them
  Kinds,          \* job kinds (JOB_KINDS)
  Keys,           \* job_key values, the idempotency keys
  NULL,           \* SQL NULL
  AttemptLimits,  \* values max_attempts takes (deploy 1, scan 2, default 3)
  Delays,         \* values of not_before - now at enqueue, in ticks
  Lease,          \* DEFAULT_LEASE_MS, in ticks
  MaxJobs,        \* bound: rows ever inserted
  MaxLag,         \* bound: ticks that pass between recover()'s two UPDATEs
  MaxLog,         \* MAX_LOG_BYTES, in chunks
  MaxCalls        \* bound: fail() calls between their read and their write

ASSUME NullAssumption == NULL \notin Agents \cup Kinds \cup Keys
ASSUME LimitAssumption == AttemptLimits \subseteq Nat \ {0}
ASSUME TimeAssumption == Lease \in Nat /\ MaxLag \in Nat /\ Delays \subseteq Nat
ASSUME BoundAssumption == MaxJobs \in Nat /\ MaxLog \in Nat /\ MaxCalls \in Nat

VARIABLES
  ask,       \* columns an enqueue fixes: job_key, kind, target, max_attempts
  status,    \* column status; "absent" when no row has the id
  owner,     \* column lease_owner; 0 is SQL NULL
  left,      \* column lease_until, minus now
  wait,      \* column not_before, minus now; 0 when passed or NULL
  attempts,  \* column attempts
  log,       \* column log: who wrote each chunk
  nextId,    \* AUTOINCREMENT: ids are never reused
  granted,   \* tokens drawn for a job so far: the last one is granted[j]
  calls,     \* fail() calls that have read the row and not yet written
  sweep,     \* "idle", or "mid" between recover()'s two UPDATEs
  lag,       \* ticks since recover() read the clock
  started,   \* history: tokens under which start() succeeded
  conceded   \* history: tokens whose holder handed the job back by fail()

leaseVars == <<status, owner, left, attempts, granted>>
sweepVars == <<sweep, lag>>
history == <<started, conceded>>
qvars == <<ask, wait, log, nextId, calls, leaseVars, sweepVars, history>>

Ids == 1..MaxJobs
Outcomes == {"succeeded", "failed", "rolled_back"}
Statuses == {"absent", "queued", "claimed", "running", "unknown"} \cup Outcomes

Ask == [key: Keys \cup {NULL}, kind: Kinds \cup {NULL},
        target: Agents \cup {NULL}, max: Nat]
NoAsk == [key |-> NULL, kind |-> NULL, target |-> NULL, max |-> 0]

Call == [job: Ids, lease: Nat, rolledBack: BOOLEAN, retry: BOOLEAN]

TypeOK ==
  /\ ask \in [Ids -> Ask]
  /\ status \in [Ids -> Statuses]
  /\ owner \in [Ids -> Nat]
  /\ left \in [Ids -> Int]
  /\ wait \in [Ids -> Nat]
  /\ attempts \in [Ids -> Nat]
  /\ log \in [Ids -> Seq(Nat)] /\ \A j \in Ids : Len(log[j]) <= MaxLog
  /\ nextId \in 1..(MaxJobs + 1)
  /\ granted \in [Ids -> Nat]
  /\ calls \subseteq Call
  /\ sweep \in {"idle", "mid"}
  /\ lag \in 0..MaxLag
  /\ started \in [Ids -> SUBSET Nat]
  /\ conceded \in [Ids -> SUBSET Nat]

Init ==
  /\ ask = [j \in Ids |-> NoAsk]
  /\ status = [j \in Ids |-> "absent"]
  /\ owner = [j \in Ids |-> 0]
  /\ left = [j \in Ids |-> 0]
  /\ wait = [j \in Ids |-> 0]
  /\ attempts = [j \in Ids |-> 0]
  /\ log = [j \in Ids |-> <<>>]
  /\ nextId = 1
  /\ granted = [j \in Ids |-> 0]
  /\ calls = {}
  /\ sweep = "idle"
  /\ lag = 0
  /\ started = [j \in Ids |-> {}]
  /\ conceded = [j \in Ids |-> {}]

------------------------------------------------------------------------------
\* status IN ('claimed', 'running'): some executor is entitled to the job.
Held(j) == status[j] \in {"claimed", "running"}

\* Mutant: the UPDATE forgets lease_owner.
HoldsAnyToken(j, l) == Held(j)

\* The guard of every lease-holder UPDATE: id, lease_owner and status match.
Holds(j, l) == Held(j) /\ owner[j] = l

\* Mutant: each UPDATE of recover() reads the clock for itself.
StaleByOwnClock(j, since) == left[j] < 0

\* lease_until < now, for the `now` that recover() read `since` ticks ago.
Stale(j, since) == left[j] + since < 0

\* SET status = s, lease_owner = NULL, lease_until = NULL for the jobs in S
Release(S, s) ==
  /\ status' = [j \in Ids |-> IF j \in S THEN s ELSE status[j]]
  /\ owner' = [j \in Ids |-> IF j \in S THEN 0 ELSE owner[j]]
  /\ left' = [j \in Ids |-> IF j \in S THEN 0 ELSE left[j]]
  /\ UNCHANGED <<attempts, granted>>

\* Mutant: the cut keeps one too many.
KeepTailOneMore(s) ==
  IF Len(s) <= MaxLog + 1 THEN s ELSE SubSeq(s, Len(s) - MaxLog, Len(s))

\* slice(-MAX_LOG_BYTES)
KeepTail(s) == IF Len(s) <= MaxLog THEN s ELSE SubSeq(s, Len(s) - MaxLog + 1, Len(s))

\* INSERT OR IGNORE: with the key present nothing is inserted.
Enqueue(key, kind, target, max, delay) ==
  /\ nextId \in Ids
  /\ \A j \in Ids : ask[j].key # key
  /\ ask' = [ask EXCEPT ![nextId] =
               [key |-> key, kind |-> kind, target |-> target, max |-> max]]
  /\ status' = [status EXCEPT ![nextId] = "queued"]
  /\ wait' = [wait EXCEPT ![nextId] = delay]
  /\ nextId' = nextId + 1
  /\ UNCHANGED <<owner, left, attempts, granted, log, calls, sweepVars, history>>

\* The jobs claim(kind, agent) may pick from.
Ready(kind, agent) ==
  {j \in Ids : /\ status[j] = "queued"
               /\ ask[j].kind = kind
               /\ ask[j].target \in {agent, NULL}
               /\ wait[j] = 0}

\* One transaction: the oldest ready job gets a token nobody has seen.
Claim(kind, agent) ==
  \E j \in Ready(kind, agent) :
    /\ \A i \in Ready(kind, agent) : j <= i
    /\ status' = [status EXCEPT ![j] = "claimed"]
    /\ owner' = [owner EXCEPT ![j] = granted[j] + 1]
    /\ left' = [left EXCEPT ![j] = Lease]
    /\ attempts' = [attempts EXCEPT ![j] = @ + 1]
    /\ granted' = [granted EXCEPT ![j] = @ + 1]
    /\ UNCHANGED <<ask, wait, log, nextId, calls, sweepVars, history>>

Heartbeat(j, l) ==
  /\ Holds(j, l)
  /\ left' = [left EXCEPT ![j] = Lease]
  /\ UNCHANGED <<status, owner, attempts, granted>>
  /\ UNCHANGED <<ask, wait, log, nextId, calls, sweepVars, history>>

\* A chunk is known by the token of its writer; the log keeps its tail.
Progress(j, l) ==
  /\ Holds(j, l)
  /\ log' = [log EXCEPT ![j] = KeepTail(Append(@, l))]
  /\ UNCHANGED <<ask, wait, nextId, calls, leaseVars, sweepVars, history>>

Start(j, l) ==
  /\ Holds(j, l) /\ status[j] = "claimed"
  /\ status' = [status EXCEPT ![j] = "running"]
  /\ started' = [started EXCEPT ![j] = @ \cup {l}]
  /\ UNCHANGED <<owner, left, attempts, granted, conceded>>
  /\ UNCHANGED <<ask, wait, log, nextId, calls, sweepVars>>

Succeed(j, l) ==
  /\ Holds(j, l)
  /\ Release({j}, "succeeded")
  /\ UNCHANGED <<ask, wait, log, nextId, calls, sweepVars, history>>

\* Mutant: attempts <= max_attempts allows one attempt too many.
FailReadOneMore(j, l, rolledBack) ==
  /\ Cardinality(calls) < MaxCalls
  /\ status[j] # "absent" /\ owner[j] = l
  /\ calls' = calls \cup {[job |-> j, lease |-> l, rolledBack |-> rolledBack,
                           retry |-> attempts[j] <= ask[j].max]}
  /\ UNCHANGED <<ask, wait, log, nextId, leaseVars, sweepVars, history>>

\* fail()'s SELECT asks for the owner only, not for the status.
FailRead(j, l, rolledBack) ==
  /\ Cardinality(calls) < MaxCalls
  /\ status[j] # "absent" /\ owner[j] = l
  /\ calls' = calls \cup {[job |-> j, lease |-> l, rolledBack |-> rolledBack,
                           retry |-> attempts[j] < ask[j].max]}
  /\ UNCHANGED <<ask, wait, log, nextId, leaseVars, sweepVars, history>>

\* What fail() answers its caller, whether or not its UPDATE matched.
Answer(c) == IF c.rolledBack THEN "rolled_back"
             ELSE IF c.retry THEN "queued" ELSE "failed"

FailWrite(c) ==
  /\ calls' = calls \ {c}
  /\ \/ /\ Holds(c.job, c.lease)
        /\ Release({c.job}, Answer(c))
        /\ conceded' = IF Answer(c) = "queued"
                       THEN [conceded EXCEPT ![c.job] = @ \cup {c.lease}]
                       ELSE conceded
     \/ /\ ~Holds(c.job, c.lease)
        /\ UNCHANGED <<leaseVars, conceded>>
  /\ UNCHANGED <<ask, wait, log, nextId, sweepVars, started>>

\* Mutant: running jobs are requeued blindly.
RecoverRequeueHeld ==
  /\ sweep = "idle"
  /\ sweep' = "mid" /\ lag' = 0
  /\ Release({j \in Ids : Held(j) /\ Stale(j, 0) /\ attempts[j] < ask[j].max}, "queued")
  /\ UNCHANGED <<ask, wait, log, nextId, calls, history>>

\* recover() reads the clock and runs its first UPDATE.
RecoverRequeue ==
  /\ sweep = "idle"
  /\ sweep' = "mid" /\ lag' = 0
  /\ Release({j \in Ids : /\ status[j] = "claimed" /\ Stale(j, 0)
                          /\ attempts[j] < ask[j].max}, "queued")
  /\ UNCHANGED <<ask, wait, log, nextId, calls, history>>

\* Mutant: a last attempt that was claimed and never started is overlooked.
RecoverUnknownRunning ==
  /\ sweep = "mid"
  /\ sweep' = "idle" /\ lag' = 0
  /\ status' = [j \in Ids |-> IF status[j] = "running" /\ Stale(j, lag)
                              THEN "unknown" ELSE status[j]]
  /\ UNCHANGED <<ask, wait, log, nextId, calls, history>>
  /\ UNCHANGED <<owner, left, attempts, granted>>

\* The second UPDATE, against the clock the first one read.  The owner stays.
RecoverUnknown ==
  /\ sweep = "mid"
  /\ sweep' = "idle" /\ lag' = 0
  /\ status' = [j \in Ids |-> IF Held(j) /\ Stale(j, lag) THEN "unknown"
                              ELSE status[j]]
  /\ UNCHANGED <<ask, wait, log, nextId, calls, history>>
  /\ UNCHANGED <<owner, left, attempts, granted>>

\* Mutant: a journal's report overrides whatever the hub knows.
ReconcileAny(j, outcome) ==
  /\ status[j] # "absent"
  /\ status' = [status EXCEPT ![j] = outcome]
  /\ UNCHANGED <<owner, left, attempts, granted>>
  /\ UNCHANGED <<ask, wait, log, nextId, calls, sweepVars, history>>

Reconcile(j, outcome) ==
  /\ status[j] = "unknown"
  /\ status' = [status EXCEPT ![j] = outcome]
  /\ UNCHANGED <<owner, left, attempts, granted>>
  /\ UNCHANGED <<ask, wait, log, nextId, calls, sweepVars, history>>

\* prune(olderThan): the cutoff on updated_at selects some settled rows.
Prune(pruned) ==
  /\ pruned # {} /\ \A j \in pruned : status[j] \in Outcomes
  /\ ask' = [j \in Ids |-> IF j \in pruned THEN NoAsk ELSE ask[j]]
  /\ status' = [j \in Ids |-> IF j \in pruned THEN "absent" ELSE status[j]]
  /\ owner' = [j \in Ids |-> IF j \in pruned THEN 0 ELSE owner[j]]
  /\ left' = [j \in Ids |-> IF j \in pruned THEN 0 ELSE left[j]]
  /\ wait' = [j \in Ids |-> IF j \in pruned THEN 0 ELSE wait[j]]
  /\ attempts' = [j \in Ids |-> IF j \in pruned THEN 0 ELSE attempts[j]]
  /\ log' = [j \in Ids |-> IF j \in pruned THEN <<>> ELSE log[j]]
  /\ UNCHANGED <<nextId, granted, calls, sweepVars, history>>

\* The hub process stops and starts: the calls and the sweep in progress are
\* gone, the rows stay.  startBackground() then runs recover() again.
Restart ==
  /\ calls' = {} /\ sweep' = "idle" /\ lag' = 0
  /\ UNCHANGED <<ask, wait, log, nextId, leaseVars, history>>

\* Time passes.  Below -(MaxLag + 1) every lease is equally stale.
Tick ==
  /\ sweep = "mid" => lag < MaxLag
  /\ left' = [j \in Ids |-> IF Held(j) /\ left[j] > -(MaxLag + 1)
                            THEN left[j] - 1 ELSE left[j]]
  /\ wait' = [j \in Ids |-> IF wait[j] > 0 THEN wait[j] - 1 ELSE 0]
  /\ lag' = IF sweep = "mid" THEN lag + 1 ELSE lag
  /\ UNCHANGED <<ask, status, owner, attempts, log, nextId, granted, calls>>
  /\ UNCHANGED <<sweep, history>>

\* A request carrying a token that was handed out for the job.
Request(j, l) ==
  \/ Heartbeat(j, l) \/ Progress(j, l) \/ Start(j, l) \/ Succeed(j, l)
  \/ \E rolledBack \in BOOLEAN : FailRead(j, l, rolledBack)

Next ==
  \/ \E key \in Keys, kind \in Kinds, target \in Agents \cup {NULL},
        max \in AttemptLimits, delay \in Delays :
          Enqueue(key, kind, target, max, delay)
  \/ \E kind \in Kinds, agent \in Agents : Claim(kind, agent)
  \/ \E j \in Ids : \E l \in 1..granted[j] : Request(j, l)
  \/ \E c \in calls : FailWrite(c)
  \/ RecoverRequeue
  \/ RecoverUnknown
  \/ \E j \in Ids, outcome \in Outcomes : Reconcile(j, outcome)
  \/ \E pruned \in SUBSET Ids : Prune(pruned)
  \/ Restart
  \/ Tick

Spec == Init /\ [][Next]_qvars

\* Time passes and the 60 s sweep runs; not every sweep is cut short by a
\* restart.  Nothing is assumed of agents.
FairSpec ==
  /\ Spec
  /\ WF_qvars(Tick) /\ WF_qvars(RecoverRequeue) /\ SF_qvars(RecoverUnknown)

------------------------------------------------------------------------------
(* Properties *)

\* At most one executor has begun a job without handing it back: a stale
\* running job goes to 'unknown' "rather than a blind requeue that could
\* double-execute" (recover()), and a claim that lapsed can no longer start.
NoDoubleExecution ==
  \A j \in Ids : \A l1, l2 \in started[j] \ conceded[j] : l1 = l2

RetryStep ==
  \A j \in Ids : status[j] = "claimed" /\ attempts[j] < ask[j].max
                 => status'[j] # "unknown"

\* A claimed job that never started and has attempts left is requeued by the
\* sweep, never given up as 'unknown': both UPDATEs of recover() must judge
\* staleness by the same clock reading.
UnstartedIsRetried == [][RetryStep]_qvars

\* The log reads in attempt order: once a later attempt has written, no chunk
\* of an earlier holder (a zombie executor) lands behind it.
LogInAttemptOrder ==
  \A j \in Ids : \A m, n \in DOMAIN log[j] :
    m < n => log[j][m] <= log[j][n]

\* No job stays held by a silent executor: either it is free of holders again
\* and again, or somebody heartbeats it for ever.
SilentHolderLosesLease ==
  \A j \in Ids :
    \/ []<>~Held(j)
    \/ []<><<\E l \in 1..granted[j] : Heartbeat(j, l)>>_qvars

------------------------------------------------------------------------------
(* The inductive strengthening of NoDoubleExecution. *)

\* The row never names an old token, and a held row names the newest one.
OwnerIsNewest(j) ==
  /\ owner[j] \in {0, granted[j]}
  /\ Held(j) => owner[j] = granted[j] /\ granted[j] > 0

\* Only the newest token may have begun without handing the job back; before
\* a start nobody has, and a running holder has begun and not handed back.
WorkersKnown(j) ==
  /\ started[j] \cup conceded[j] \subseteq 1..granted[j]
  /\ started[j] \ conceded[j] \subseteq {granted[j]}
  /\ status[j] \in {"queued", "claimed"} => started[j] \subseteq conceded[j]
  /\ Held(j) => granted[j] \notin conceded[j]
  /\ status[j] = "running" => granted[j] \in started[j]

\* attempts counts the tokens, never past max_attempts; a queued job has one left.
AttemptsCounted(j) ==
  /\ status[j] # "absent" =>
       j < nextId /\ attempts[j] = granted[j] /\ granted[j] <= ask[j].max
  /\ status[j] = "queued" => granted[j] < ask[j].max
  /\ status[j] = "absent" => ask[j].max = 0 /\ attempts[j] = 0
  /\ j >= nextId => granted[j] = 0

\* A fail() in flight still knows whether its attempt was the last one.
CallsCurrent ==
  \A c \in calls :
    /\ c.lease \in 1..granted[c.job]
    /\ c.retry /\ owner[c.job] = c.lease => granted[c.job] < ask[c.job].max

\* Between the two UPDATEs no unstarted job with attempts left is stale.
SweepTookAll ==
  sweep = "mid" =>
    \A j \in Ids : status[j] = "claimed" /\ attempts[j] < ask[j].max
                   => ~Stale(j, lag)

\* The parts together are preserved by every action; they relate the jobs
\* table, the tokens in callers' hands, fail() calls in flight and the sweep.
LeaseInv ==
  /\ TypeOK
  /\ \A j \in Ids : OwnerIsNewest(j) /\ WorkersKnown(j) /\ AttemptsCounted(j)
  /\ CallsCurrent
  /\ SweepTookAll

------------------------------------------------------------------------------
(* The queue implements the contract of JobContract. *)

PhaseOf(j) ==
  LET s == status[j] IN
  IF s = "absent" THEN IF j < nextId THEN "forgotten" ELSE "fresh"
  ELSE IF s = "queued" THEN "waiting"
  ELSE IF Held(j) THEN "held"
  ELSE IF s = "unknown" THEN "lost" ELSE s

ContractView ==
  [j \in Ids |-> [phase |-> PhaseOf(j), grants |-> granted[j],
                  limit |-> ask[j].max, live |-> started[j] \ conceded[j]]]

Contract == INSTANCE JobContract WITH Limits <- AttemptLimits, job <- ContractView

\* Every step of the queue is a step of the contract, job by job.
KeepsContract == Contract!Spec
==============================================================================
