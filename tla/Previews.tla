------------------------------- MODULE Previews -------------------------------
(***************************************************************************)
(* Pull request previews of one parent app: the requests that open, close  *)
(* and delete them and the sweep (src/lib/server/deploy/preview.ts), which *)
(* interleave between any two statements, and the agent that drains their  *)
(* deploy and teardown jobs (internal/deploy/client.go, teardown.go).      *)
(*                                                                         *)
(* Of a job only its kind, app and fate are kept: leases, releases and     *)
(* journals are the subject of JobQueue and DeployPipeline.  Every webhook *)
(* delivery has an id of its own, and the agent is one process with a      *)
(* container runtime.  Ports, domains, images and commit statuses are left *)
(* out.                                                                    *)
(***************************************************************************)
EXTENDS Naturals, Sequences, FiniteSets, FiniteSetsExt

CONSTANTS
  PRs,          \* numbers of pull requests
  Slots,        \* requests and sweeps that can be under way at once
  NULL,
  MaxPreviews,  \* MAX_PREVIEWS
  MaxApps,      \* bound: previews created
  MaxPushes,    \* bound: pushes to pull requests
  MaxCrashes    \* bound: restarts of the hub

ASSUME SetAssumption ==
  /\ IsFiniteSet(PRs) /\ NULL \notin PRs \cup Nat
  /\ Slots \subseteq Nat /\ IsFiniteSet(Slots)
ASSUME BoundAssumption ==
  {MaxPreviews, MaxApps, MaxPushes, MaxCrashes} \subseteq Nat

VARIABLES
  parent,   \* the parent's row exists
  row,      \* the pull request of each preview's row, NULL without a row
  minted,   \* app ids handed out so far
  fresh,    \* previews whose preview_expires is still to come
  deleted,  \* history: previews deleted by their own id
  jobs,     \* the jobs table, in the order of job ids
  req,      \* the handlers under way
  pushes, crashes,
  asked,    \* a claim between its two kinds: jobs there were at the first, or NULL
  run,      \* the job the agent executes, or NULL
  host,     \* apps with a container on the host
  failed    \* history: teardowns that ended without a removal they owed

rows == <<parent, row, minted, fresh, deleted>>
agent == <<asked, run, host, failed>>
pvars == <<rows, jobs, req, pushes, crashes, agent>>

Apps == 1..MaxApps
Idle == [op |-> "idle"]
Status == {"queued", "claimed", "running", "ended", "unknown"}
Job == [kind : {"deploy", "teardown"}, app : Apps, status : Status, seen : Nat]
Request ==
  {Idle}
  \cup [op : {"open"}, at : {"find", "create"}, pr : PRs]
  \cup [op : {"open"}, at : {"touch", "release", "enqueue"}, app : Apps]
  \cup [op : {"teardown"}, at : {"enqueue", "delete"}, list : SUBSET Apps, last : BOOLEAN]

TypeOK ==
  /\ parent \in BOOLEAN /\ row \in [Apps -> PRs \cup {NULL}]
  /\ minted \in 0..MaxApps /\ fresh \subseteq Apps /\ deleted \subseteq Apps
  /\ jobs \in Seq(Job) /\ req \in [Slots -> Request]
  /\ pushes \in 0..MaxPushes /\ crashes \in 0..MaxCrashes
  /\ asked \in Nat \cup {NULL} /\ run \in DOMAIN jobs \cup {NULL}
  /\ host \subseteq Apps /\ failed \subseteq DOMAIN jobs

Init ==
  /\ parent = TRUE /\ row = [a \in Apps |-> NULL] /\ minted = 0 /\ fresh = {} /\ deleted = {}
  /\ jobs = <<>> /\ req = [s \in Slots |-> Idle]
  /\ pushes = 0 /\ crashes = 0
  /\ asked = NULL /\ run = NULL /\ host = {} /\ failed = {}

Previews == {a \in Apps : row[a] # NULL}
PreviewFor(pr) == {a \in Apps : row[a] = pr}
Of(kind, a) == {j \in DOMAIN jobs : jobs[j].kind = kind /\ jobs[j].app = a}

------------------------------------------------------------------------------
(* openPreview(), one action per statement *)

\* A new handler takes the first free slot.
Free(s) == req[s] = Idle /\ \A t \in Slots : t < s => req[t] # Idle

Goto(s, r) == req' = [req EXCEPT ![s] = r]

Push(s, pr) ==
  /\ Free(s) /\ parent /\ pushes < MaxPushes
  /\ pushes' = pushes + 1
  /\ Goto(s, [op |-> "open", at |-> "find", pr |-> pr])
  /\ UNCHANGED <<rows, jobs, crashes, agent>>

At(s, op, at) == req[s].op = op /\ req[s].at = at

With(a) == [op |-> "open", at |-> "touch", app |-> a]

\* previewFor(), then the cap.  They are two reads; a request between them only
\* makes the cap, which racing creates pass anyway, more or less strict.
Find(s) ==
  /\ At(s, "open", "find")
  /\ LET found == PreviewFor(req[s].pr) IN
       Goto(s, IF found # {} THEN With(CHOOSE a \in found : TRUE)
               ELSE IF Cardinality(Previews) >= MaxPreviews THEN Idle
               ELSE [req[s] EXCEPT !.at = "create"])
  /\ UNCHANGED <<rows, jobs, pushes, crashes, agent>>

\* Mutant: the racing create is not looked for.
CreateAnyway(s) ==
  /\ At(s, "open", "create")
  /\ parent /\ minted < MaxApps
  /\ minted' = minted + 1
  /\ row' = [row EXCEPT ![minted + 1] = req[s].pr]
  /\ fresh' = fresh \cup {minted + 1}
  /\ Goto(s, With(minted + 1))
  /\ UNCHANGED <<parent, deleted, jobs, pushes, crashes, agent>>

\* The transaction of createPreviewApp().
Create(s) ==
  /\ At(s, "open", "create")
  /\ LET dup == PreviewFor(req[s].pr) IN
       \/ /\ dup # {}
          /\ Goto(s, With(CHOOSE a \in dup : TRUE))
          /\ UNCHANGED rows
       \/ /\ dup = {} /\ parent /\ minted < MaxApps
          /\ minted' = minted + 1
          /\ row' = [row EXCEPT ![minted + 1] = req[s].pr]
          /\ fresh' = fresh \cup {minted + 1}
          /\ Goto(s, With(minted + 1))
          /\ UNCHANGED <<parent, deleted>>
       \/ /\ dup = {} /\ ~parent
          /\ Goto(s, Idle)
          /\ UNCHANGED rows
  /\ UNCHANGED <<jobs, pushes, crashes, agent>>

Touch(s) ==
  /\ At(s, "open", "touch")
  /\ fresh' = IF row[req[s].app] # NULL THEN fresh \cup {req[s].app} ELSE fresh
  /\ Goto(s, [req[s] EXCEPT !.at = "release"])
  /\ UNCHANGED <<parent, row, minted, deleted, jobs, pushes, crashes, agent>>

\* triggerDeploy(): a release references the app's row, a job does not.
CreateRelease(s) ==
  /\ At(s, "open", "release")
  /\ Goto(s, IF row[req[s].app] # NULL THEN [req[s] EXCEPT !.at = "enqueue"] ELSE Idle)
  /\ UNCHANGED <<rows, jobs, pushes, crashes, agent>>

NewJob(kind, a) ==
  Append(jobs, [kind |-> kind, app |-> a, status |-> "queued", seen |-> 0])

EnqueueDeploy(s) ==
  /\ At(s, "open", "enqueue")
  /\ jobs' = NewJob("deploy", req[s].app)
  /\ Goto(s, Idle)
  /\ UNCHANGED <<rows, pushes, crashes, agent>>

------------------------------------------------------------------------------
(* teardown(), for the previews its caller listed *)

Teardown(s, list, last) ==
  /\ Free(s)
  /\ Goto(s, [op |-> "teardown", at |-> IF list = {} THEN "delete" ELSE "enqueue",
              list |-> list, last |-> last])
  /\ UNCHANGED <<rows, jobs, pushes, crashes, agent>>

\* closePreview(), closeAllPreviews() before the parent's row goes, sweepPreviews().
Close(s, pr) == parent /\ PreviewFor(pr) # {} /\ Teardown(s, PreviewFor(pr), FALSE)
DeleteParent(s) == parent /\ Teardown(s, Previews, TRUE)
Sweep(s) == Previews \ fresh # {} /\ Teardown(s, Previews \ fresh, FALSE)

\* Mutant: a job that was there already ends the teardown of that app.
EnqueueTeardownOnce(s) ==
  /\ At(s, "teardown", "enqueue")
  /\ LET a == Min(req[s].list) IN
       IF Of("teardown", a) = {}
       THEN jobs' = NewJob("teardown", a) /\ Goto(s, [req[s] EXCEPT !.at = "delete"])
       ELSE Goto(s, Idle) /\ UNCHANGED jobs
  /\ UNCHANGED <<rows, pushes, crashes, agent>>

\* One job per app id: job_key dedupes.
EnqueueTeardown(s) ==
  /\ At(s, "teardown", "enqueue")
  /\ LET a == Min(req[s].list) IN
       jobs' = IF Of("teardown", a) = {} THEN NewJob("teardown", a) ELSE jobs
  /\ Goto(s, [req[s] EXCEPT !.at = "delete"])
  /\ UNCHANGED <<rows, pushes, crashes, agent>>

\* deleteApp(), then the next preview, or the parent's own row, or the end.
DeleteRow(s) ==
  /\ At(s, "teardown", "delete") /\ req[s].list # {}
  /\ LET a == Min(req[s].list)
         rest == req[s].list \ {a} IN
       /\ row' = [row EXCEPT ![a] = NULL]
       /\ fresh' = fresh \ {a}
       /\ Goto(s, IF rest = {} /\ ~req[s].last THEN Idle
                  ELSE [req[s] EXCEPT !.list = rest,
                                      !.at = IF rest = {} THEN "delete" ELSE "enqueue"])
  /\ UNCHANGED <<parent, minted, deleted, jobs, pushes, crashes, agent>>

DeleteParentRow(s) ==
  /\ At(s, "teardown", "delete") /\ req[s].list = {}
  /\ parent' = FALSE
  /\ Goto(s, Idle)
  /\ UNCHANGED <<row, minted, fresh, deleted, jobs, pushes, crashes, agent>>

\* The DELETE route with a preview's own id: it has no previews to close, and its
\* row goes without a teardown.
DeleteOwn(a) ==
  /\ row[a] # NULL
  /\ row' = [row EXCEPT ![a] = NULL]
  /\ fresh' = fresh \ {a} /\ deleted' = deleted \cup {a}
  /\ UNCHANGED <<parent, minted, jobs, req, pushes, crashes, agent>>

\* PREVIEW_TTL_MS without a push.
Expire(a) ==
  /\ a \in fresh
  /\ fresh' = fresh \ {a}
  /\ UNCHANGED <<parent, row, minted, deleted, jobs, req, pushes, crashes, agent>>

\* The hub stops: requests and sweeps under way are gone, the rows stay.
HubRestart ==
  /\ crashes < MaxCrashes
  /\ crashes' = crashes + 1
  /\ req' = [s \in Slots |-> Idle] /\ asked' = NULL
  /\ UNCHANGED <<rows, jobs, pushes, run, host, failed>>

------------------------------------------------------------------------------
(* The agent and the jobs it is given *)

\* Mutant: the kinds are asked for the other way round.
KindsReversed == <<"teardown", "deploy">>

KindOrder == <<"deploy", "teardown">>

Queued(kind) == {j \in DOMAIN jobs : jobs[j].kind = kind /\ jobs[j].status = "queued"}

\* queue.claim().
Grant(kind, seen) ==
  /\ Queued(kind) # {}
  /\ LET j == Min(Queued(kind)) IN
       /\ jobs' = [jobs EXCEPT ![j].status = "claimed", ![j].seen = seen]
       /\ run' = j
  /\ asked' = NULL
  /\ UNCHANGED <<rows, req, pushes, crashes, host, failed>>

\* The claim route asks for one kind after the other.
ClaimFirst ==
  /\ run = NULL /\ asked = NULL
  /\ \/ Grant(KindOrder[1], Len(jobs))
     \/ /\ Queued(KindOrder[1]) = {}
        /\ asked' = Len(jobs)
        /\ UNCHANGED <<rows, jobs, req, pushes, crashes, run, host, failed>>

ClaimSecond ==
  /\ asked # NULL
  /\ \/ Grant(KindOrder[2], asked)
     \/ /\ Queued(KindOrder[2]) = {}
        /\ asked' = NULL
        /\ UNCHANGED <<rows, jobs, req, pushes, crashes, run, host, failed>>

\* The action "start".
Start ==
  /\ run # NULL /\ jobs[run].status = "claimed"
  /\ jobs' = [jobs EXCEPT ![run].status = "running"]
  /\ UNCHANGED <<rows, req, pushes, crashes, asked, run, host, failed>>

\* A deploy that does not fail brings up a container, a teardown whose removals
\* do not fail leaves none; the hub may have given the job up in the meantime.
Act ==
  /\ run # NULL /\ jobs[run].status \in {"running", "unknown"}
  /\ LET a == jobs[run].app IN
       host' = IF jobs[run].kind = "deploy" THEN host \cup {a} ELSE host \ {a}
  /\ UNCHANGED <<rows, jobs, req, pushes, crashes, asked, run, failed>>

\* The report.  A teardown reports success with a warning in its log when it
\* could not list or remove the containers.
Finish ==
  /\ run # NULL /\ jobs[run].status = "running"
  /\ failed' = IF jobs[run].kind = "teardown" /\ jobs[run].app \in host
               THEN failed \cup {run} ELSE failed
  /\ jobs' = [jobs EXCEPT ![run].status = "ended"]
  /\ run' = NULL
  /\ UNCHANGED <<rows, req, pushes, crashes, asked, host>>

\* The agent is done with a job the hub does not hear of: it stopped, the answer
\* to the claim or to a report was lost, or the hub refused the lease.
Drop ==
  /\ run # NULL
  /\ run' = NULL
  /\ UNCHANGED <<rows, jobs, req, pushes, crashes, asked, host, failed>>

\* recover(): a lease has run out.  A teardown that had not begun is queued again
\* while attempts remain, a deploy has one; "start" refuses who still holds it.
Lapse(j) ==
  /\ jobs[j].status \in {"claimed", "running"}
  /\ \E fate \in {"unknown"} \cup
                 IF jobs[j].status = "claimed" /\ jobs[j].kind = "teardown"
                 THEN {"queued"} ELSE {} :
       jobs' = [jobs EXCEPT ![j].status = fate]
  /\ run' = IF jobs[j].status = "claimed" /\ run = j THEN NULL ELSE run
  /\ UNCHANGED <<rows, req, pushes, crashes, asked, host, failed>>

------------------------------------------------------------------------------
Step(s) == \/ Find(s) \/ Create(s) \/ Touch(s) \/ CreateRelease(s) \/ EnqueueDeploy(s)
           \/ EnqueueTeardown(s) \/ DeleteRow(s) \/ DeleteParentRow(s)

HubNext ==
  \/ \E s \in Slots :
       \/ Step(s) \/ DeleteParent(s) \/ Sweep(s)
       \/ \E pr \in PRs : Push(s, pr) \/ Close(s, pr)
  \/ \E a \in Apps : Expire(a) \/ DeleteOwn(a)
  \/ HubRestart

AgentNext ==
  \/ ClaimFirst \/ ClaimSecond \/ Start \/ Act \/ Finish \/ Drop
  \/ \E j \in DOMAIN jobs : Lapse(j)

Spec == Init /\ [][HubNext \/ AgentNext]_pvars

\* The hub alone: a handler goes on, time passes, and the sweep's interval fires.
\* Nothing the hub does here reads what the agent makes of the jobs.
HubSpec ==
  /\ Init /\ [][HubNext]_pvars
  /\ \A s \in Slots : WF_pvars(Step(s))
  /\ \A a \in Apps : WF_pvars(Expire(a))
  /\ WF_pvars(\E s \in Slots : Sweep(s))

------------------------------------------------------------------------------
(* Properties *)

\* A pull request has one preview, whatever deliveries race (store.ts:490-492).
OnePerPR == \A a, b \in Previews : row[a] = row[b] => a = b

\* A preview's row goes only after a teardown job was queued for its containers,
\* unless it was deleted by its own id, and close, sweep and parent delete share
\* one job (preview.ts:98-101).
RemovedByOneJob ==
  \A a \in Apps :
    /\ Cardinality(Of("teardown", a)) <= 1
    /\ a <= minted /\ row[a] = NULL => a \in deleted \/ Of("teardown", a) # {}

\* The invariant of previews: typed, one per pull request, none closed, swept or
\* deleted with its parent without its one teardown.
PreviewInv == TypeOK /\ OnePerPR /\ RemovedByOneJob

\* A removed preview leaves a container behind, with no job left to remove it,
\* only when it was deleted by its own id and never torn down, when the hub lost
\* track of its teardown or the agent's removals failed, or through a deploy that
\* was queued after the teardown's claim began: a deploy queued earlier is
\* drained first (client.go:57-58).
Open(a) == \E j \in Of("deploy", a) \cup Of("teardown", a) :
             jobs[j].status \in {"queued", "claimed", "running"}
Stranded(a) == row[a] = NULL /\ a \in host /\ ~Open(a)
StrandedOnlyLate ==
  \A a \in Apps : Stranded(a) =>
    \/ a \in deleted /\ Of("teardown", a) = {}
    \/ \E t \in Of("teardown", a) :
         \/ jobs[t].status = "unknown" \/ t \in failed
         \/ \E d \in Of("deploy", a) : d > jobs[t].seen

\* Every preview is removed in the end, also when its close never arrives and
\* when the hub stops between teardown's two statements (preview.ts:9-12).
EveryPreviewEnds == \A a \in Apps : row[a] # NULL ~> row[a] = NULL
==============================================================================
