-------------------------------- MODULE Scans --------------------------------
(***************************************************************************)
(* Vulnerability scans of one app: the triggers, the job routes and the    *)
(* cleanup that write its reports and one of its recommendations           *)
(* (src/lib/server/scan/trigger.ts, scan/store.ts).  They interleave       *)
(* between any two statements and end with the hub.                        *)
(*                                                                         *)
(* The n-th report and its job have id n.  A lease is the number of its    *)
(* attempt, for every claim draws another.  A request may be handled long  *)
(* after the agent gave it up, so jobs of any number can be under way.     *)
(* Findings are left out, and the app may be edited at any time: evaluate()*)
(* finds the recommendation's condition true or false.                     *)
(***************************************************************************)
EXTENDS Naturals, Sequences, FiniteSets, SequencesExt

CONSTANTS
  Slots,        \* requests that can be under way at once
  MaxScans,     \* bound: reports created
  MaxAttempts,  \* maxAttempts of a scan job
  MaxCrashes    \* bound: restarts of the hub

ASSUME SlotAssumption == Slots \subseteq Nat /\ IsFiniteSet(Slots)
ASSUME BoundAssumption == MaxScans \in Nat /\ MaxAttempts \in Nat \ {0} /\ MaxCrashes \in Nat

VARIABLES
  report,   \* status of each report, "none" without a row
  order,    \* the reports there are, by started_at
  minted,   \* reports created so far
  job,      \* their jobs
  rec,      \* the recommendation
  req,      \* the handlers under way
  crashes

reports == <<report, order, minted>>
vars == <<reports, job, rec, req, crashes>>

Ids == 1..MaxScans
Idle == [op |-> "idle"]
Terminal == {"succeeded", "failed"}
Request ==
  {Idle} \cup [op : {"active", "create", "evaluate"}]
         \cup [op : {"key", "close", "enqueue", "mark", "settle"}, id : Ids]
         \cup [op : {"fail"}, id : Ids, lease : 1..MaxAttempts]
         \cup [op : {"sync"}, flaw : BOOLEAN]
         \cup [op : {"answer"}, rec : Nat, how : {"applied", "dismissed"}]

TypeOK ==
  /\ report \in [Ids -> {"none", "queued", "running", "done", "failed"}]
  /\ order \in Seq(Ids) /\ minted \in 0..MaxScans
  /\ job \in [Ids -> [st : {"none", "queued", "claimed", "running", "unknown"} \cup Terminal,
                      tries : 0..MaxAttempts, result : BOOLEAN]]
  /\ rec \in [id : Nat, st : {"none", "open", "applied", "dismissed"}]
  /\ req \in [Slots -> Request] /\ crashes \in 0..MaxCrashes

Init ==
  /\ report = [i \in Ids |-> "none"] /\ order = <<>> /\ minted = 0
  /\ job = [i \in Ids |-> [st |-> "none", tries |-> 0, result |-> FALSE]]
  /\ rec = [id |-> 0, st |-> "none"]
  /\ req = [s \in Slots |-> Idle] /\ crashes = 0

InFlight(i) == report[i] \in {"queued", "running"}
Held(i) == job[i].st \in {"claimed", "running"}

\* A new handler takes the first free slot.
Free(s) == req[s] = Idle /\ \A t \in Slots : t < s => req[t] # Idle
Goto(s, r) == req' = [req EXCEPT ![s] = r]
Doing(s, op) == req[s].op = op
Uses(i, ops) == \E s \in Slots : req[s].op \in ops /\ req[s].id = i

\* Mutant: the transition is not conditional.
Overwrite(i, verdict) == report' = [report EXCEPT ![i] = IF @ = "none" THEN @ ELSE verdict]

\* complete(): the conditional transition of the report.
Complete(i, verdict) == report' = [report EXCEPT ![i] = IF InFlight(i) THEN verdict ELSE @]

------------------------------------------------------------------------------
(* enqueueScan(), one action per statement *)

Triggers == {s \in Slots : req[s].op \in {"active", "key", "close", "create"}}

Trigger(s) ==
  /\ Free(s) /\ minted + Cardinality(Triggers) < MaxScans
  /\ Goto(s, [op |-> "active"])
  /\ UNCHANGED <<reports, job, rec, crashes>>

\* activeForApp(): the latest report in flight.
FindActive(s) ==
  /\ Doing(s, "active")
  /\ \/ \E k \in DOMAIN order :
          /\ InFlight(order[k]) /\ \A l \in k + 1..Len(order) : ~InFlight(order[l])
          /\ Goto(s, [op |-> "key", id |-> order[k]])
     \/ /\ \A k \in DOMAIN order : ~InFlight(order[k])
        /\ Goto(s, [op |-> "create"])
  /\ UNCHANGED <<reports, job, rec, crashes>>

\* byKey(): a report with a job dedupes the trigger.
FindJob(s) ==
  /\ Doing(s, "key")
  /\ Goto(s, IF job[req[s].id].st # "none" THEN Idle ELSE [op |-> "close", id |-> req[s].id])
  /\ UNCHANGED <<reports, job, rec, crashes>>

CloseLost(s) ==
  /\ Doing(s, "close")
  /\ Complete(req[s].id, "failed")
  /\ Goto(s, [op |-> "create"])
  /\ UNCHANGED <<order, minted, job, rec, crashes>>

\* resolveTarget() and createReport(); the former may find nothing to scan.
Create(s) ==
  /\ Doing(s, "create")
  /\ \/ /\ minted' = minted + 1
        /\ report' = [report EXCEPT ![minted'] = "queued"]
        /\ order' = Append(order, minted')
        /\ Goto(s, [op |-> "enqueue", id |-> minted'])
     \/ /\ Goto(s, Idle)
        /\ UNCHANGED reports
  /\ UNCHANGED <<job, rec, crashes>>

Enqueue(s) ==
  /\ Doing(s, "enqueue")
  /\ job' = [job EXCEPT ![req[s].id].st = "queued"]
  /\ Goto(s, Idle)
  /\ UNCHANGED <<reports, rec, crashes>>

------------------------------------------------------------------------------
(* The agent's requests: claim, start, succeed and fail *)

Claim(i) ==
  /\ job[i].st = "queued"
  /\ job' = [job EXCEPT ![i].st = "claimed", ![i].tries = @ + 1]
  /\ UNCHANGED <<reports, rec, req, crashes>>

Start(s, i) ==
  /\ Free(s) /\ job[i].st = "claimed"
  /\ job' = [job EXCEPT ![i].st = "running"]
  /\ Goto(s, [op |-> "mark", id |-> i])
  /\ UNCHANGED <<reports, rec, crashes>>

\* markRunning() starts the report's clock anew.
MarkRunning(s) ==
  /\ Doing(s, "mark")
  /\ LET i == req[s].id IN
       IF report[i] = "queued"
       THEN /\ report' = [report EXCEPT ![i] = "running"]
            /\ \E k \in DOMAIN order :
                 order[k] = i /\ order' = Append(RemoveAt(order, k), i)
       ELSE UNCHANGED <<report, order>>
  /\ Goto(s, Idle)
  /\ UNCHANGED <<minted, job, rec, crashes>>

Succeed(s, i) ==
  /\ Free(s) /\ job[i].st = "running"
  /\ job' = [job EXCEPT ![i].st = "succeeded", ![i].result = TRUE]
  /\ Goto(s, [op |-> "settle", id |-> i])
  /\ UNCHANGED <<reports, rec, crashes>>

\* fail() reads the row by its lease, which an unknown job still carries.
FailRead(s, i) ==
  /\ Free(s) /\ (Held(i) \/ job[i].st = "unknown")
  /\ Goto(s, [op |-> "fail", id |-> i, lease |-> job[i].tries])
  /\ UNCHANGED <<reports, job, rec, crashes>>

\* Mutant: the route does not settle a failure.
FailUnsettled(s) ==
  /\ Doing(s, "fail")
  /\ LET i == req[s].id
         final == req[s].lease = MaxAttempts IN
       job' = IF Held(i) /\ job[i].tries = req[s].lease
              THEN [job EXCEPT ![i].st = IF final THEN "failed" ELSE "queued", ![i].result = TRUE]
              ELSE job
  /\ Goto(s, Idle)
  /\ UNCHANGED <<reports, rec, crashes>>

\* It requeues the job while attempts remain; the last failure is settled, also
\* when the job was no longer there to fail.
FailWrite(s) ==
  /\ Doing(s, "fail")
  /\ LET i == req[s].id
         final == req[s].lease = MaxAttempts IN
       /\ job' = IF Held(i) /\ job[i].tries = req[s].lease
                 THEN [job EXCEPT ![i].st = IF final THEN "failed" ELSE "queued",
                                  ![i].result = TRUE]
                 ELSE job
       /\ Goto(s, IF final THEN [op |-> "settle", id |-> i] ELSE Idle)
  /\ UNCHANGED <<reports, rec, crashes>>

\* recover(): a scan whose lease ran out is queued again if it had not begun.
Lapse(i) ==
  /\ Held(i)
  /\ job' = [job EXCEPT ![i].st = IF @ = "claimed" /\ job[i].tries < MaxAttempts
                                  THEN "queued" ELSE "unknown"]
  /\ UNCHANGED <<reports, rec, req, crashes>>

------------------------------------------------------------------------------
(* settleScanJob() and the recommendation *)

\* The job is read before, but has its last status.  A success whose result is
\* malformed or names another scan fails the report.
Settle(s) ==
  /\ Doing(s, "settle")
  /\ LET i == req[s].id IN
       IF job[i].result
       THEN \E verdict \in {"failed"} \cup IF job[i].st = "succeeded" THEN {"done"} ELSE {} :
              /\ Complete(i, verdict)
              /\ Goto(s, IF verdict = "done" /\ report'[i] = "done"
                         THEN [op |-> "evaluate"] ELSE Idle)
       ELSE Goto(s, Idle) /\ UNCHANGED report
  /\ UNCHANGED <<order, minted, job, rec, crashes>>

\* getApp() and evaluate().
Evaluate(s) ==
  /\ Doing(s, "evaluate")
  /\ \E flaw \in BOOLEAN : Goto(s, [op |-> "sync", flaw |-> flaw])
  /\ UNCHANGED <<reports, job, rec, crashes>>

Sync(s) ==
  /\ Doing(s, "sync")
  /\ rec' = CASE req[s].flaw /\ rec.st = "none" -> [id |-> rec.id + 1, st |-> "open"]
              [] req[s].flaw /\ rec.st = "applied" -> [rec EXCEPT !.st = "open"]
              [] ~req[s].flaw /\ rec.st = "open" -> [rec EXCEPT !.st = "none"]
              [] OTHER -> rec
  /\ Goto(s, Idle)
  /\ UNCHANGED <<reports, job, crashes>>

\* An administrator applies or dismisses an open recommendation; the patch of the
\* app is one of its edits.
Answer(s, how) ==
  /\ Free(s) /\ rec.st = "open"
  /\ Goto(s, [op |-> "answer", rec |-> rec.id, how |-> how])
  /\ UNCHANGED <<reports, job, rec, crashes>>

SetStatus(s) ==
  /\ Doing(s, "answer")
  /\ rec' = IF rec.id = req[s].rec /\ rec.st = "open" THEN [rec EXCEPT !.st = req[s].how] ELSE rec
  /\ Goto(s, Idle)
  /\ UNCHANGED <<reports, job, crashes>>

------------------------------------------------------------------------------
(* Cleanup and restarts *)

\* Jobs go 30 days after their end; a handler does not last that long.
PruneJob(i) ==
  /\ job[i].st \in Terminal /\ ~Uses(i, {"mark", "fail", "settle"})
  /\ job' = [job EXCEPT ![i].st = "none"]
  /\ UNCHANGED <<reports, rec, req, crashes>>

\* Mutant: prune() keeps a report that has not ended.
PruneEnded(n) ==
  /\ n \in 1..Len(order)
  /\ \A k \in 1..n : ~InFlight(order[k])
  /\ report' = [i \in Ids |-> IF i \in {order[k] : k \in 1..n} THEN "none" ELSE report[i]]
  /\ order' = SubSeq(order, n + 1, Len(order))
  /\ rec' \in {rec} \cup IF rec.st = "open" THEN {} ELSE {[rec EXCEPT !.st = "none"]}
  /\ UNCHANGED <<minted, job, req, crashes>>

\* scans.prune(): the n reports that started 90 days ago, whatever their status,
\* and the recommendation if it was answered and is as old.
Prune(n) ==
  /\ n \in 1..Len(order)
  /\ \A k \in 1..n : ~Uses(order[k], {"enqueue"})
  /\ report' = [i \in Ids |-> IF i \in {order[k] : k \in 1..n} THEN "none" ELSE report[i]]
  /\ order' = SubSeq(order, n + 1, Len(order))
  /\ rec' \in {rec} \cup IF rec.st = "open" THEN {} ELSE {[rec EXCEPT !.st = "none"]}
  /\ UNCHANGED <<minted, job, req, crashes>>

\* The hub stops: handlers under way are gone, the rows stay.
HubRestart ==
  /\ crashes < MaxCrashes
  /\ crashes' = crashes + 1
  /\ req' = [s \in Slots |-> Idle]
  /\ UNCHANGED <<reports, job, rec>>

------------------------------------------------------------------------------
Step(s) == \/ FindActive(s) \/ FindJob(s) \/ CloseLost(s) \/ Create(s) \/ Enqueue(s)
           \/ MarkRunning(s) \/ FailWrite(s) \/ Settle(s) \/ Evaluate(s) \/ Sync(s)
           \/ SetStatus(s)

Cleanup == \E n \in Ids : Prune(n)

Next ==
  \/ \E s \in Slots :
       \/ Step(s) \/ Trigger(s)
       \/ \E i \in Ids : Start(s, i) \/ Succeed(s, i) \/ FailRead(s, i)
       \/ \E how \in {"applied", "dismissed"} : Answer(s, how)
  \/ \E i \in Ids : Claim(i) \/ Lapse(i) \/ PruneJob(i)
  \/ Cleanup \/ HubRestart

Spec == Init /\ [][Next]_vars

\* A handler goes on and the cleanup's interval fires; of the agent nothing is
\* assumed, it may never come back.
FairSpec == Spec /\ (\A s \in Slots : WF_vars(Step(s))) /\ WF_vars(Cleanup)

------------------------------------------------------------------------------
(* Properties *)

\* A report says "done" only of a scan that succeeded (trigger.ts:180-190).
DoneByJob == \A i \in Ids : report[i] = "done" => job[i].st \in {"succeeded", "none"}

\* As long as the hub has not stopped, a report in flight has a job that will
\* end or a handler about to give it one or to close it: a job never ends
\* without a settlement (routes/ingress/jobs/[id]/+server.ts:54-69).
Settled ==
  \A i \in Ids : /\ crashes = 0 /\ InFlight(i)
                 /\ job[i].st \in {"none"} \cup Terminal
                 => Uses(i, {"enqueue", "settle"})

\* The invariant of scans: typed, truthful, none forgotten.
ScanInv == TypeOK /\ DoneByJob /\ Settled

\* Verdicts and answers stand, whatever is posted twice, late or by two
\* administrators: an ended report changes only by its removal (store.ts:342-343),
\* a dismissed recommendation too, an applied one may be opened again by a scan
\* (store.ts:494, 506-510).
Stands ==
  /\ \A i \in Ids : report[i] \in {"done", "failed"} => report'[i] \in {report[i], "none"}
  /\ rec.st = "dismissed" => rec'.st \in {"dismissed", "none"}
  /\ rec.st = "applied" => rec'.st \in {"applied", "none", "open"}
VerdictsStand == [][Stands]_vars

\* No scan is in flight for ever, also when its job became unknown or its
\* settlement died with the hub: the app can be scanned again (trigger.ts:104-105).
ScanEnds == \A i \in Ids : InFlight(i) ~> ~InFlight(i)
==============================================================================
