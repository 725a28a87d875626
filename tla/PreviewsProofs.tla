--------------------------- MODULE PreviewsProofs ---------------------------
(***************************************************************************)
(* Theorems about Previews, for every set of pull requests, number of      *)
(* requests, cap and bound: the types, that a pull request has one preview *)
(* and a preview closed, swept or deleted with its parent one teardown     *)
(* job, and in which ways only a container is left behind.                 *)
(***************************************************************************)
EXTENDS Previews, FiniteSetTheorems, WellFoundedInduction, TLAPS

USE SetAssumption, BoundAssumption

(* The inductive invariant. *)

\* Apps with a teardown job.
Torn == {a \in Apps : Of("teardown", a) # {}}

\* A request speaks of previews among the first m, has an app to queue a job for,
\* and has queued one, T being the apps that have it, before it deletes a row.
Fits(r, m, T) ==
  /\ r.op = "open" /\ r.at \in {"touch", "release", "enqueue"} => r.app <= m
  /\ r.op = "teardown" =>
       /\ \A a \in r.list : a <= m
       /\ r.at = "enqueue" => r.list # {}
       /\ r.at = "delete" /\ r.list # {} => Min(r.list) \in T
Handlers == \A s \in Slots : Fits(req[s], minted, Torn)

\* Only previews that were created have a row, a container or a job.
Minted ==
  /\ \A a \in Apps : row[a] # NULL \/ a \in host => a <= minted
  /\ \A j \in DOMAIN jobs : jobs[j].app <= minted

\* job_key dedupes, and no row goes without a job, but by the app's own id.
OneTeardown == \A a \in Apps : \A j, k \in Of("teardown", a) : j = k
Removed == \A a \in Apps : a <= minted /\ row[a] = NULL => a \in deleted \cup Torn

IInv == TypeOK /\ Handlers /\ Minted /\ OnePerPR /\ OneTeardown /\ Removed

\* Between the two kinds of a claim the agent runs nothing, and the deploys there
\* were when it began have all been claimed.
Asking ==
  asked # NULL =>
    /\ run = NULL /\ asked <= Len(jobs)
    /\ \A d \in 1..asked : jobs[d].kind = "deploy" => jobs[d].status # "queued"

\* The deploys there were when a teardown was claimed are over: they are neither
\* queued nor executed any more.
DrainedFirst ==
  \A t \in DOMAIN jobs : jobs[t].kind = "teardown" =>
    /\ jobs[t].seen <= Len(jobs)
    /\ \A d \in 1..jobs[t].seen : jobs[d].kind = "deploy" =>
         jobs[d].status # "queued" /\ run # d

\* A container of an app whose teardown ended is one that could not be removed, or
\* was brought up by a later deploy.
BroughtUpLate ==
  \A t \in DOMAIN jobs :
    jobs[t].kind = "teardown" /\ jobs[t].status = "ended" /\ jobs[t].app \in host
        /\ t \notin failed =>
      \E d \in Of("deploy", jobs[t].app) : d > jobs[t].seen

Late == Asking /\ DrainedFirst /\ BroughtUpLate

------------------------------------------------------------------------------
(* Types *)

\* A set of natural numbers that is not empty has a least one.
LEMMA LeastNumber ==
  ASSUME NEW S \in SUBSET Nat, S # {}
  PROVE  \E x \in S : \A y \in S : x <= y
<1> DEFINE R == {ss \in Nat \X Nat : ss[1] < ss[2]}
<1>1. IsWellFoundedOn(R, Nat)
  BY NatLessThanWellFounded, Zenon DEF OpToRel
<1>2. \E x \in S : \A y \in S : ~(<<y, x>> \in R)
  BY <1>1, WFMin, Zenon
<1>3. PICK x \in S : \A y \in S : ~(<<y, x>> \in R)
  BY <1>2, Zenon
<1>4. ASSUME NEW y \in S PROVE x <= y
  <2>1. <<y, x>> \in Nat \X Nat
    BY Zenon
  <2>2. ~(y < x)
    BY <1>3, <2>1
  <2>. QED  BY <2>2
<1>. QED  BY <1>4

LEMMA MinIsMember ==
  ASSUME NEW S \in SUBSET Nat, S # {}
  PROVE  Min(S) \in S
BY LeastNumber DEF Min

\* What the handlers carry from one statement to the next.
LEMMA RequestFields ==
  ASSUME NEW r \in Request
  PROVE  /\ r.op = "open" /\ r.at \in {"find", "create"} => r.pr \in PRs
         /\ r.op = "open" /\ r.at \in {"touch", "release", "enqueue"} => r.app \in Apps
         /\ r.op = "teardown" => r.list \in SUBSET Apps /\ r.last \in BOOLEAN
BY DEF Request, Idle

\* What a handler becomes when it goes on.
LEMMA RequestShapes ==
  /\ Idle \in Request
  /\ \A pr \in PRs : [op |-> "open", at |-> "find", pr |-> pr] \in Request
  /\ \A a \in Apps : With(a) \in Request
  /\ \A list \in SUBSET Apps, last \in BOOLEAN, at \in {"enqueue", "delete"} :
       [op |-> "teardown", at |-> at, list |-> list, last |-> last] \in Request
BY DEF Request, Idle, With

\* The columns of a request, by what it does.
LEMMA RequestForms ==
  ASSUME NEW r \in Request
  PROVE  /\ r.op = "open" /\ r.at = "find" =>
              r = [op |-> "open", at |-> "find", pr |-> r.pr]
         /\ r.op = "open" /\ r.at \in {"touch", "release", "enqueue"} =>
              r = [op |-> "open", at |-> r.at, app |-> r.app]
BY DEF Request, Idle

\* A request that goes on is one.
LEMMA RequestUpdates ==
  ASSUME NEW r \in Request
  PROVE  /\ r.op = "open" /\ r.at = "find" => [r EXCEPT !.at = "create"] \in Request
         /\ \A at \in {"release", "enqueue"} : r.op = "open" /\ r.at \in {"touch", "release"} =>
              [r EXCEPT !.at = at] \in Request
         /\ \A list \in SUBSET Apps, at \in {"enqueue", "delete"} : r.op = "teardown" =>
              /\ [r EXCEPT !.at = "delete"] \in Request
              /\ [r EXCEPT !.list = list, !.at = at] \in Request
<1>1. ASSUME r.op = "open", r.at = "find" PROVE [r EXCEPT !.at = "create"] \in Request
  <2>1. r = [op |-> "open", at |-> "find", pr |-> r.pr] /\ r.pr \in PRs
    BY <1>1, RequestForms, RequestFields
  <2>2. [r EXCEPT !.at = "create"] = [op |-> "open", at |-> "create", pr |-> r.pr]
    BY <2>1
  <2>. QED  BY <2>1, <2>2 DEF Request
<1>2. ASSUME NEW at \in {"release", "enqueue"}, r.op = "open", r.at \in {"touch", "release"}
      PROVE  [r EXCEPT !.at = at] \in Request
  <2>1. r = [op |-> "open", at |-> r.at, app |-> r.app] /\ r.app \in Apps
    BY <1>2, RequestForms, RequestFields
  <2>2. [r EXCEPT !.at = at] = [op |-> "open", at |-> at, app |-> r.app]
    BY <2>1
  <2>. QED  BY <2>1, <2>2 DEF Request
<1>3. ASSUME NEW list \in SUBSET Apps, NEW at \in {"enqueue", "delete"}, r.op = "teardown"
      PROVE  /\ [r EXCEPT !.at = "delete"] \in Request
             /\ [r EXCEPT !.list = list, !.at = at] \in Request
  <2> DEFINE Closing == [op : {"teardown"}, at : {"enqueue", "delete"}, list : SUBSET Apps,
                         last : BOOLEAN]
  <2>1. r \in Closing
    BY <1>3 DEF Request, Idle
  <2>2. [r EXCEPT !.at = "delete"] \in Closing /\ [r EXCEPT !.list = list, !.at = at] \in Closing
    BY <2>1
  <2>. QED  BY <2>2 DEF Request
<1>. QED  BY <1>1, <1>2, <1>3

\* A job stays one when its columns are updated.
LEMMA JobUpdates ==
  ASSUME NEW j \in Job
  PROVE  /\ \A st \in Status : [j EXCEPT !.status = st] \in Job
         /\ \A n \in Nat : [j EXCEPT !.status = "claimed", !.seen = n] \in Job
BY DEF Job, Status

LEMMA TypeInit == Init => TypeOK
<1> SUFFICES ASSUME Init PROVE TypeOK
  OBVIOUS
<1>1. req \in [Slots -> Request]
  BY RequestShapes DEF Init
<1>. QED  BY <1>1 DEF Init, TypeOK

LEMMA TypeHub == TypeOK /\ Handlers /\ HubNext => TypeOK'
<1> SUFFICES ASSUME TypeOK, Handlers, HubNext PROVE TypeOK'
  OBVIOUS
<1> USE DEF rows, agent
<1>0. /\ req \in [Slots -> Request] /\ jobs \in Seq(Job) /\ row \in [Apps -> PRs \cup {NULL}]
      /\ parent \in BOOLEAN /\ minted \in 0..MaxApps /\ fresh \subseteq Apps
  BY DEF TypeOK
<1>a. ASSUME NEW s \in Slots, NEW r \in Request, Goto(s, r) PROVE req' \in [Slots -> Request]
  BY <1>0, <1>a DEF Goto
<1>b. ASSUME NEW kind \in {"deploy", "teardown"}, NEW a \in Apps
      PROVE  NewJob(kind, a) \in Seq(Job) /\ DOMAIN jobs \subseteq DOMAIN NewJob(kind, a)
  <2>1. [kind |-> kind, app |-> a, status |-> "queued", seen |-> 0] \in Job
    BY DEF Job, Status
  <2>. QED  BY <1>0, <2>1 DEF NewJob
<1>1. ASSUME NEW s \in Slots, NEW pr \in PRs, Push(s, pr) PROVE TypeOK'
  <2>1. req' \in [Slots -> Request]
    BY <1>a, <1>1, RequestShapes DEF Push
  <2>. QED  BY <1>1, <2>1 DEF Push, TypeOK
<1>2. ASSUME NEW s \in Slots, Find(s) PROVE TypeOK'
  <2> DEFINE found == PreviewFor(req[s].pr)
  <2>1. CASE found # {}
    <3>1. (CHOOSE a \in found : TRUE) \in Apps
      BY <2>1 DEF PreviewFor
    <3>2. req' \in [Slots -> Request]
      BY <1>a, <1>2, <2>1, <3>1, RequestShapes DEF Find
    <3>. QED  BY <1>2, <3>2 DEF Find, TypeOK
  <2>2. CASE found = {}
    <3>1. Idle \in Request /\ [req[s] EXCEPT !.at = "create"] \in Request
      BY <1>0, <1>2, RequestShapes, RequestUpdates DEF Find, At
    <3>2. req' \in [Slots -> Request]
      BY <1>a, <1>2, <2>2, <3>1 DEF Find
    <3>. QED  BY <1>2, <3>2 DEF Find, TypeOK
  <2>. QED  BY <2>1, <2>2
<1>3. ASSUME NEW s \in Slots, Create(s) PROVE TypeOK'
  <2> DEFINE dup == PreviewFor(req[s].pr)
  <2>1. CASE dup # {} /\ Goto(s, With(CHOOSE a \in dup : TRUE)) /\ UNCHANGED rows
    <3>1. (CHOOSE a \in dup : TRUE) \in Apps
      BY <2>1 DEF PreviewFor
    <3>2. req' \in [Slots -> Request]
      BY <1>a, <2>1, <3>1, RequestShapes
    <3>. QED  BY <1>3, <2>1, <3>2 DEF Create, TypeOK
  <2>2. CASE /\ dup = {} /\ parent /\ minted < MaxApps
             /\ minted' = minted + 1
             /\ row' = [row EXCEPT ![minted + 1] = req[s].pr]
             /\ fresh' = fresh \cup {minted + 1}
             /\ Goto(s, With(minted + 1))
             /\ UNCHANGED <<parent, deleted>>
    <3>0. req[s] \in Request /\ req[s].op = "open" /\ req[s].at = "create"
      BY <1>0, <1>3 DEF Create, At
    <3>1. minted + 1 \in Apps /\ req[s].pr \in PRs
      BY <1>0, <2>2, <3>0, RequestFields DEF Apps
    <3>2. req' \in [Slots -> Request]
      BY <1>a, <2>2, <3>1, RequestShapes
    <3>3. row' \in [Apps -> PRs \cup {NULL}]
      BY <1>0, <2>2, <3>1
    <3>. QED  BY <1>3, <2>2, <3>1, <3>2, <3>3 DEF Create, TypeOK, Apps
  <2>3. CASE dup = {} /\ ~parent /\ Goto(s, Idle) /\ UNCHANGED rows
    <3>1. req' \in [Slots -> Request]
      BY <1>a, <2>3, RequestShapes
    <3>. QED  BY <1>3, <2>3, <3>1 DEF Create, TypeOK
  <2>. QED  BY <1>3, <2>1, <2>2, <2>3 DEF Create
<1>4. ASSUME NEW s \in Slots, Touch(s) PROVE TypeOK'
  <2>1. req[s].app \in Apps /\ [req[s] EXCEPT !.at = "release"] \in Request
    BY <1>0, <1>4, RequestFields, RequestUpdates DEF Touch, At
  <2>2. req' \in [Slots -> Request]
    BY <1>a, <1>4, <2>1 DEF Touch
  <2>. QED  BY <1>4, <2>1, <2>2 DEF Touch, TypeOK
<1>5. ASSUME NEW s \in Slots, CreateRelease(s) PROVE TypeOK'
  <2>1. Idle \in Request /\ [req[s] EXCEPT !.at = "enqueue"] \in Request
    BY <1>0, <1>5, RequestShapes, RequestUpdates DEF CreateRelease, At
  <2>2. req' \in [Slots -> Request]
    BY <1>a, <1>5, <2>1 DEF CreateRelease
  <2>. QED  BY <1>5, <2>2 DEF CreateRelease, TypeOK
<1>6. ASSUME NEW s \in Slots, EnqueueDeploy(s) PROVE TypeOK'
  <2>1. req[s].app \in Apps
    BY <1>0, <1>6, RequestFields DEF EnqueueDeploy, At
  <2>2. req' \in [Slots -> Request]
    BY <1>a, <1>6, RequestShapes DEF EnqueueDeploy
  <2>. QED  BY <1>b, <1>6, <2>1, <2>2 DEF EnqueueDeploy, TypeOK
<1>7. ASSUME NEW s \in Slots, EnqueueTeardown(s) PROVE TypeOK'
  <2>1. req' \in [Slots -> Request]
    BY <1>0, <1>a, <1>7, RequestUpdates DEF EnqueueTeardown, At
  <2>2. req[s].list \in SUBSET Apps /\ req[s].list # {}
    BY <1>0, <1>7, RequestFields DEF EnqueueTeardown, At, Handlers, Fits
  <2>3. Min(req[s].list) \in Apps
    BY <2>2, MinIsMember DEF Apps
  <2>4. jobs' \in Seq(Job) /\ DOMAIN jobs \subseteq DOMAIN jobs'
    BY <1>0, <1>b, <1>7, <2>3 DEF EnqueueTeardown
  <2>. QED  BY <1>7, <2>1, <2>4 DEF EnqueueTeardown, TypeOK
<1>8. ASSUME NEW s \in Slots, DeleteRow(s) PROVE TypeOK'
  <2> DEFINE rest == req[s].list \ {Min(req[s].list)}
             at == IF rest = {} THEN "delete" ELSE "enqueue"
  <2>1. req[s].op = "teardown" /\ rest \in SUBSET Apps
    BY <1>0, <1>8, RequestFields DEF DeleteRow, At
  <2>2. Idle \in Request /\ [req[s] EXCEPT !.list = rest, !.at = at] \in Request
    BY <1>0, <2>1, RequestShapes, RequestUpdates
  <2>3. req' \in [Slots -> Request]
    BY <1>a, <1>8, <2>2 DEF DeleteRow
  <2>. QED  BY <1>8, <2>3 DEF DeleteRow, TypeOK
<1>9. ASSUME NEW s \in Slots, DeleteParentRow(s) PROVE TypeOK'
  <2>1. req' \in [Slots -> Request]
    BY <1>a, <1>9, RequestShapes DEF DeleteParentRow
  <2>. QED  BY <1>9, <2>1 DEF DeleteParentRow, TypeOK
<1>10. ASSUME NEW s \in Slots, NEW list \in SUBSET Apps, NEW last \in BOOLEAN,
              Teardown(s, list, last)
       PROVE  TypeOK'
  <2>1. req' \in [Slots -> Request]
    BY <1>a, <1>10, RequestShapes DEF Teardown
  <2>. QED  BY <1>10, <2>1 DEF Teardown, TypeOK
<1>11. ASSUME NEW a \in Apps, Expire(a) PROVE TypeOK'
  BY <1>11 DEF Expire, TypeOK
<1>12. CASE HubRestart
  BY <1>12, RequestShapes DEF HubRestart, TypeOK
<1>13. ASSUME NEW a \in Apps, DeleteOwn(a) PROVE TypeOK'
  BY <1>13 DEF DeleteOwn, TypeOK
<1>. QED
  BY <1>1, <1>2, <1>3, <1>4, <1>5, <1>6, <1>7, <1>8, <1>9, <1>10, <1>11, <1>12, <1>13
  DEF HubNext, Step, Close, DeleteParent, Sweep, PreviewFor, Previews

LEMMA TypeAgent == TypeOK /\ AgentNext => TypeOK'
<1> SUFFICES ASSUME TypeOK, AgentNext PROVE TypeOK'
  OBVIOUS
<1> USE DEF rows
<1>0. jobs \in Seq(Job) /\ run \in DOMAIN jobs \cup {NULL} /\ asked \in Nat \cup {NULL}
  BY DEF TypeOK
<1>a. ASSUME NEW j \in DOMAIN jobs, NEW st \in Status, jobs' = [jobs EXCEPT ![j].status = st]
      PROVE  jobs' \in Seq(Job) /\ DOMAIN jobs' = DOMAIN jobs
  <2>1. jobs[j] \in Job
    BY <1>0
  <2>2. [jobs[j] EXCEPT !.status = st] \in Job
    BY <2>1, JobUpdates
  <2>. QED  BY <1>0, <1>a, <2>2
<1>b. ASSUME NEW kind, NEW seen \in Nat, Grant(kind, seen) PROVE TypeOK'
  <2> DEFINE j == Min(Queued(kind))
  <2>1. j \in DOMAIN jobs
    <3>1. Queued(kind) \in SUBSET Nat
      BY <1>0 DEF Queued
    <3>2. Queued(kind) # {}
      BY <1>b DEF Grant
    <3>3. j \in Queued(kind)
      BY <3>1, <3>2, MinIsMember
    <3>4. Queued(kind) \subseteq DOMAIN jobs
      BY DEF Queued
    <3>. QED  BY <3>3, <3>4
  <2>2. jobs[j] \in Job
    BY <1>0, <2>1
  <2>3. [jobs[j] EXCEPT !.status = "claimed", !.seen = seen] \in Job
    BY <2>2, JobUpdates, Zenon
  <2>4. jobs' = [jobs EXCEPT ![j] = [jobs[j] EXCEPT !.status = "claimed", !.seen = seen]]
    BY <1>b DEF Grant
  <2>5. jobs' \in Seq(Job) /\ DOMAIN jobs' = DOMAIN jobs
    BY <1>0, <2>1, <2>3, <2>4
  <2>. QED  BY <1>b, <2>1, <2>5 DEF Grant, TypeOK
<1>1. CASE ClaimFirst
  BY <1>0, <1>b, <1>1 DEF ClaimFirst, TypeOK
<1>2. CASE ClaimSecond
  BY <1>0, <1>b, <1>2 DEF ClaimSecond, TypeOK
<1>3. CASE Start
  <2>1. run \in DOMAIN jobs /\ "running" \in Status
    BY <1>0, <1>3 DEF Start, Status
  <2>. QED  BY <1>a, <1>3, <2>1 DEF Start, TypeOK
<1>4. CASE Act
  <2>1. run \in DOMAIN jobs
    BY <1>0, <1>4 DEF Act
  <2>2. jobs[run] \in Job
    BY <1>0, <2>1
  <2>3. jobs[run].app \in Apps
    BY <2>2 DEF Job
  <2>. QED  BY <1>4, <2>3 DEF Act, TypeOK
<1>5. CASE Finish
  <2>1. run \in DOMAIN jobs /\ "ended" \in Status
    BY <1>0, <1>5 DEF Finish, Status
  <2>. QED  BY <1>a, <1>5, <2>1 DEF Finish, TypeOK
<1>6. CASE Drop
  BY <1>6 DEF Drop, TypeOK
<1>7. ASSUME NEW j \in DOMAIN jobs, Lapse(j) PROVE TypeOK'
  <2>1. PICK fate \in Status : jobs' = [jobs EXCEPT ![j].status = fate]
    BY <1>7 DEF Lapse, Status
  <2>. QED  BY <1>a, <1>7, <2>1 DEF Lapse, TypeOK
<1>. QED  BY <1>1, <1>2, <1>3, <1>4, <1>5, <1>6, <1>7 DEF AgentNext

------------------------------------------------------------------------------
(* How the table of jobs moves *)

\* A job that is enqueued is the last one, the others stay.
LEMMA Enqueued ==
  ASSUME TypeOK, NEW kind \in {"deploy", "teardown"}, NEW a \in Apps, jobs' = NewJob(kind, a)
  PROVE  /\ Len(jobs) \in Nat /\ DOMAIN jobs = 1..Len(jobs) /\ Len(jobs') = Len(jobs) + 1
         /\ DOMAIN jobs' = DOMAIN jobs \cup {Len(jobs) + 1}
         /\ \A j \in DOMAIN jobs : jobs'[j] = jobs[j]
         /\ jobs'[Len(jobs) + 1] = [kind |-> kind, app |-> a, status |-> "queued", seen |-> 0]
BY DEF TypeOK, NewJob

\* The hub enqueues deploys, and a teardown for an app that has none.
LEMMA HubJobs ==
  ASSUME TypeOK, Handlers, HubNext
  PROVE  \/ jobs' = jobs
         \/ \E kind \in {"deploy", "teardown"}, a \in Apps :
              /\ jobs' = NewJob(kind, a) /\ a <= minted
              /\ kind = "teardown" => Of("teardown", a) = {}
<1> USE DEF agent
<1>0. req \in [Slots -> Request]
  BY DEF TypeOK
<1>1. ASSUME NEW s \in Slots, EnqueueDeploy(s)
      PROVE  req[s].app \in Apps /\ req[s].app <= minted /\ jobs' = NewJob("deploy", req[s].app)
  BY <1>0, <1>1, RequestFields DEF EnqueueDeploy, At, Handlers, Fits
<1>2. ASSUME NEW s \in Slots, EnqueueTeardown(s), jobs' # jobs
      PROVE  \E a \in Apps :
               jobs' = NewJob("teardown", a) /\ a <= minted /\ Of("teardown", a) = {}
  <2>1. /\ req[s].list \in SUBSET Apps /\ req[s].list # {}
        /\ \A a \in req[s].list : a <= minted
    BY <1>0, <1>2, RequestFields DEF EnqueueTeardown, At, Handlers, Fits
  <2>2. Min(req[s].list) \in req[s].list
    BY <2>1, MinIsMember DEF Apps
  <2>. QED  BY <1>2, <2>1, <2>2 DEF EnqueueTeardown
<1>3. ASSUME NEW s \in Slots,
             \/ Find(s) \/ Create(s) \/ Touch(s) \/ CreateRelease(s) \/ DeleteRow(s)
             \/ DeleteParentRow(s) \/ DeleteParent(s) \/ Sweep(s)
             \/ \E pr \in PRs : Push(s, pr) \/ Close(s, pr)
      PROVE  jobs' = jobs
  BY <1>3 DEF Find, Create, Touch, CreateRelease, DeleteRow, DeleteParentRow, DeleteParent,
              Sweep, Push, Close, Teardown
<1>4. ASSUME (\E a \in Apps : Expire(a) \/ DeleteOwn(a)) \/ HubRestart PROVE jobs' = jobs
  BY <1>4 DEF Expire, DeleteOwn, HubRestart
<1>. QED  BY <1>1, <1>2, <1>3, <1>4 DEF HubNext, Step

\* The agent's life of a job leaves its kind and app alone.
LEMMA AgentJobs ==
  ASSUME TypeOK, AgentNext
  PROVE  /\ DOMAIN jobs' = DOMAIN jobs
         /\ \A j \in DOMAIN jobs : jobs'[j].kind = jobs[j].kind /\ jobs'[j].app = jobs[j].app
<1>0. jobs \in Seq(Job) /\ run \in DOMAIN jobs \cup {NULL}
  BY DEF TypeOK
<1>1. ASSUME NEW kind, NEW seen, Grant(kind, seen)
      PROVE  /\ DOMAIN jobs' = DOMAIN jobs
             /\ \A j \in DOMAIN jobs : jobs'[j].kind = jobs[j].kind /\ jobs'[j].app = jobs[j].app
  <2>1. PICK i : jobs' = [jobs EXCEPT ![i].status = "claimed", ![i].seen = seen]
    BY <1>1 DEF Grant
  <2>. QED  BY <1>0, <2>1 DEF Job
<1>2. ASSUME NEW i, NEW st, jobs' = [jobs EXCEPT ![i].status = st]
      PROVE  /\ DOMAIN jobs' = DOMAIN jobs
             /\ \A j \in DOMAIN jobs : jobs'[j].kind = jobs[j].kind /\ jobs'[j].app = jobs[j].app
  BY <1>0, <1>2 DEF Job
<1>3. ASSUME Start \/ Finish \/ \E j \in DOMAIN jobs : Lapse(j)
      PROVE  \E i, st : jobs' = [jobs EXCEPT ![i].status = st]
  BY <1>3 DEF Start, Finish, Lapse
<1>4. ASSUME Act \/ Drop PROVE jobs' = jobs
  BY <1>4 DEF Act, Drop
<1>5. ASSUME ClaimFirst \/ ClaimSecond
      PROVE  jobs' = jobs \/ \E kind, seen : Grant(kind, seen)
  BY <1>5 DEF ClaimFirst, ClaimSecond
<1>. QED  BY <1>1, <1>2, <1>3, <1>4, <1>5 DEF AgentNext
\* An app keeps its jobs, and its teardown stays the only one.
LEMMA OfGrows ==
  ASSUME IInv, HubNext \/ AgentNext
  PROVE  /\ Torn \subseteq Torn' /\ OneTeardown'
         /\ \A j \in DOMAIN jobs' : jobs'[j].app \in Apps /\ jobs'[j].app <= minted
<1>0. TypeOK /\ jobs \in Seq(Job) /\ OneTeardown
  BY DEF IInv, TypeOK
<1>a. ASSUME NEW j \in DOMAIN jobs PROVE jobs[j].app \in Apps /\ jobs[j].app <= minted
  <2>1. jobs[j] \in Job
    BY <1>0
  <2>. QED  BY <2>1 DEF IInv, Minted, Job
<1>1. CASE jobs' = jobs
  <2>1. Torn' = Torn /\ OneTeardown'
    BY <1>0, <1>1 DEF Torn, OneTeardown, Of
  <2>. QED  BY <1>a, <1>1, <2>1
<1>2. ASSUME NEW kind \in {"deploy", "teardown"}, NEW a \in Apps, jobs' = NewJob(kind, a),
             a <= minted, kind = "teardown" => Of("teardown", a) = {}
      PROVE  /\ Torn \subseteq Torn' /\ OneTeardown'
             /\ \A j \in DOMAIN jobs' : jobs'[j].app \in Apps /\ jobs'[j].app <= minted
  <2> DEFINE n == Len(jobs) + 1
  <2>1. /\ DOMAIN jobs' = DOMAIN jobs \cup {n}
        /\ \A j \in DOMAIN jobs : jobs'[j] = jobs[j]
        /\ jobs'[n] = [kind |-> kind, app |-> a, status |-> "queued", seen |-> 0]
    BY <1>0, <1>2, Enqueued
  <2>2. jobs'[n].kind = kind /\ jobs'[n].app = a
    BY <2>1
  <2> HIDE DEF n
  <2>3. Torn \subseteq Torn'
    BY <2>1 DEF Torn, Of
  <2>4. ASSUME NEW b \in Apps, NEW j \in Of("teardown", b)', NEW k \in Of("teardown", b)'
        PROVE  j = k
    <3>1. CASE kind = "teardown" /\ b = a
      <4>1. j = n /\ k = n
        BY <1>2, <2>1, <2>4, <3>1 DEF Of
      <4>. QED  BY <4>1
    <3>2. CASE ~(kind = "teardown" /\ b = a)
      <4>1. j \in Of("teardown", b) /\ k \in Of("teardown", b)
        BY <2>1, <2>2, <2>4, <3>2 DEF Of
      <4>. QED  BY <1>0, <4>1 DEF OneTeardown
    <3>. QED  BY <3>1, <3>2
  <2>5. OneTeardown'
    BY <2>4 DEF OneTeardown
  <2>6. \A j \in DOMAIN jobs' : jobs'[j].app \in Apps /\ jobs'[j].app <= minted
    BY <1>2, <1>a, <2>1, <2>2
  <2>. QED  BY <2>3, <2>5, <2>6
<1>3. CASE AgentNext
  <2>1. /\ DOMAIN jobs' = DOMAIN jobs
        /\ \A j \in DOMAIN jobs : jobs'[j].kind = jobs[j].kind /\ jobs'[j].app = jobs[j].app
    BY <1>0, <1>3, AgentJobs
  <2>2. Torn \subseteq Torn' /\ OneTeardown'
    BY <1>0, <2>1 DEF Torn, OneTeardown, Of
  <2>. QED  BY <1>a, <2>1, <2>2
<1>. QED  BY <1>0, <1>1, <1>2, <1>3, HubJobs DEF IInv

------------------------------------------------------------------------------
(* The hub's promises *)

\* What fits goes on fitting while previews and teardowns are added.
LEMMA FitsOn ==
  ASSUME NEW r \in Request, NEW m \in Nat, NEW n \in Nat, m <= n, NEW T, NEW U, T \subseteq U,
         Fits(r, m, T)
  PROVE  Fits(r, n, U)
<1>1. r.op = "open" /\ r.at \in {"touch", "release", "enqueue"} => r.app \in Nat
  BY RequestFields DEF Apps
<1>2. r.op = "teardown" => r.list \subseteq Nat
  BY RequestFields DEF Apps
<1>. QED  BY <1>1, <1>2 DEF Fits

\* Handlers go on with what they announced.
LEMMA HandlersKept == IInv /\ (HubNext \/ AgentNext) => Handlers'
<1> SUFFICES ASSUME IInv, HubNext \/ AgentNext PROVE Handlers'
  OBVIOUS
<1> USE DEF rows, agent
<1>0. /\ TypeOK /\ req \in [Slots -> Request] /\ minted \in Nat /\ Torn \subseteq Torn'
      /\ Handlers
  BY OfGrows DEF IInv, TypeOK
<1>a. ASSUME NEW s \in Slots, NEW r, Goto(s, r), Fits(r, minted', Torn'),
             minted' \in Nat, minted <= minted'
      PROVE  Handlers'
  <2>1. \A t \in Slots : Fits(req[t], minted', Torn')
    BY <1>0, <1>a, FitsOn DEF Handlers
  <2>2. \A t \in Slots : req'[t] = req[t] \/ req'[t] = r
    BY <1>0, <1>a DEF Goto
  <2>3. \A t \in Slots : Fits(req'[t], minted', Torn')
    BY <1>a, <2>1, <2>2
  <2>. QED  BY <2>3 DEF Handlers
<1>b. Fits(Idle, minted', Torn')
  BY DEF Fits, Idle
<1>1. ASSUME NEW s \in Slots, NEW pr \in PRs, Push(s, pr) PROVE Handlers'
  <2>1. Fits([op |-> "open", at |-> "find", pr |-> pr], minted', Torn')
    BY DEF Fits
  <2>. QED  BY <1>0, <1>a, <1>1, <2>1 DEF Push
<1>2. ASSUME NEW s \in Slots, Find(s) PROVE Handlers'
  <2> DEFINE found == PreviewFor(req[s].pr)
  <2>1. CASE found # {}
    <3>1. PICK a \in found : Goto(s, With(a))
      BY <1>2, <2>1 DEF Find
    <3>2. a <= minted
      BY <1>0, <3>1, <1>2, RequestFields, SetAssumption
      DEF IInv, Minted, PreviewFor, Find, At
    <3>3. Fits(With(a), minted', Torn')
      BY <1>2, <3>2 DEF Fits, With, Find
    <3>. QED  BY <1>0, <1>a, <1>2, <3>1, <3>3 DEF Find
  <2>2. CASE found = {}
    <3>1. req[s] \in Request /\ req[s].op = "open" /\ req[s].at = "find"
      BY <1>0, <1>2 DEF Find, At
    <3>2. [req[s] EXCEPT !.at = "create"] = [op |-> "open", at |-> "create", pr |-> req[s].pr]
      BY <3>1, RequestForms
    <3>3. Fits([req[s] EXCEPT !.at = "create"], minted', Torn')
      BY <3>2 DEF Fits
    <3>4. Goto(s, Idle) \/ Goto(s, [req[s] EXCEPT !.at = "create"])
      BY <1>2, <2>2 DEF Find
    <3>5. minted' = minted
      BY <1>2 DEF Find
    <3>. QED  BY <1>0, <1>a, <1>b, <3>3, <3>4, <3>5
  <2>. QED  BY <2>1, <2>2

<1>3. ASSUME NEW s \in Slots, Create(s) PROVE Handlers'
  <2> DEFINE dup == PreviewFor(req[s].pr)
  <2>1. CASE dup # {} /\ Goto(s, With(CHOOSE a \in dup : TRUE)) /\ UNCHANGED rows
    <3>1. PICK a \in dup : Goto(s, With(a))
      BY <2>1
    <3>2. req[s].pr \in PRs
      <4>1. req[s] \in Request /\ req[s].op = "open" /\ req[s].at = "create"
        BY <1>0, <1>3 DEF Create, At
      <4>. QED  BY <4>1, RequestFields
    <3>3. a <= minted
      BY <3>1, <3>2 DEF IInv, Minted, PreviewFor
    <3>4. Fits(With(a), minted', Torn')
      BY <2>1, <3>3 DEF Fits, With
    <3>. QED  BY <1>0, <1>a, <2>1, <3>1, <3>4
  <2>2. CASE minted' = minted + 1 /\ Goto(s, With(minted + 1))
    <3>1. Fits(With(minted + 1), minted', Torn')
      BY <1>0, <2>2 DEF Fits, With
    <3>. QED  BY <1>0, <1>a, <2>2, <3>1
  <2>3. CASE Goto(s, Idle) /\ UNCHANGED rows
    BY <1>0, <1>a, <1>b, <2>3
  <2>. QED  BY <1>3, <2>1, <2>2, <2>3 DEF Create
<1>4. ASSUME NEW s \in Slots, NEW at \in {"release", "enqueue"}, req[s].op = "open",
             req[s].at \in {"touch", "release"}, Goto(s, [req[s] EXCEPT !.at = at]),
             minted' = minted
      PROVE  Handlers'
  <2>1. [req[s] EXCEPT !.at = at] = [op |-> "open", at |-> at, app |-> req[s].app]
    <3>1. req[s] = [op |-> "open", at |-> req[s].at, app |-> req[s].app]
      BY <1>0, <1>4, RequestForms
    <3>. QED  BY <3>1
  <2>2. req[s].app <= minted
    BY <1>0, <1>4 DEF Handlers, Fits
  <2>3. Fits([req[s] EXCEPT !.at = at], minted', Torn')
    BY <1>4, <2>1, <2>2 DEF Fits
  <2>. QED  BY <1>0, <1>a, <1>4, <2>3
<1>5. ASSUME NEW s \in Slots, Touch(s) \/ CreateRelease(s) PROVE Handlers'
  <2>1. /\ req[s].op = "open" /\ req[s].at \in {"touch", "release"}
        /\ minted' = minted
    BY <1>5 DEF Touch, CreateRelease, At
  <2>2. \/ Goto(s, [req[s] EXCEPT !.at = "release"]) \/ Goto(s, [req[s] EXCEPT !.at = "enqueue"])
        \/ Goto(s, Idle)
    BY <1>5 DEF Touch, CreateRelease
  <2>3. CASE Goto(s, Idle)
    BY <1>0, <1>a, <1>b, <2>1, <2>3
  <2>4. CASE Goto(s, [req[s] EXCEPT !.at = "release"])
    BY <1>4, <2>1, <2>4, Zenon
  <2>5. CASE Goto(s, [req[s] EXCEPT !.at = "enqueue"])
    BY <1>4, <2>1, <2>5, Zenon
  <2>. QED  BY <2>2, <2>3, <2>4, <2>5
<1>6. ASSUME NEW s \in Slots, EnqueueDeploy(s) \/ DeleteParentRow(s) PROVE Handlers'
  <2>1. Goto(s, Idle) /\ minted' = minted
    BY <1>6 DEF EnqueueDeploy, DeleteParentRow
  <2>. QED  BY <1>0, <1>a, <1>b, <2>1
<1>7. ASSUME NEW s \in Slots, EnqueueTeardown(s) PROVE Handlers'
  <2> DEFINE r == [req[s] EXCEPT !.at = "delete"]
  <2>1. /\ req[s] \in Request /\ req[s].op = "teardown" /\ req[s].at = "enqueue"
        /\ Fits(req[s], minted, Torn)
    BY <1>0, <1>7 DEF EnqueueTeardown, At, Handlers
  <2>2. req[s].list \in SUBSET Apps /\ req[s].list # {}
    BY <2>1, RequestFields DEF Fits
  <2>3. PICK a \in Apps : a = Min(req[s].list)
    BY <2>2, MinIsMember DEF Apps
  <2>4. a \in Torn'
    <3>1. CASE Of("teardown", a) = {}
      <4>1. jobs' = NewJob("teardown", a)
        BY <1>7, <2>3, <3>1 DEF EnqueueTeardown
      <4>2. /\ Len(jobs) + 1 \in DOMAIN jobs'
            /\ jobs'[Len(jobs) + 1] =
                 [kind |-> "teardown", app |-> a, status |-> "queued", seen |-> 0]
        BY <1>0, <4>1, Enqueued
      <4>3. Of("teardown", a)' # {}
        BY <4>2 DEF Of
      <4>. QED  BY <4>3 DEF Torn
    <3>2. CASE Of("teardown", a) # {}
      BY <1>0, <3>2 DEF Torn
    <3>. QED  BY <3>1, <3>2
  <2>5. r.op = "teardown" /\ r.at = "delete" /\ r.list = req[s].list
    BY <2>1 DEF Request, Idle
  <2>6. minted' = minted
    BY <1>7 DEF EnqueueTeardown
  <2>7. Fits(r, minted', Torn')
    BY <2>1, <2>3, <2>4, <2>5, <2>6 DEF Fits
  <2>. QED  BY <1>0, <1>a, <1>7, <2>6, <2>7 DEF EnqueueTeardown
<1>8. ASSUME NEW s \in Slots, DeleteRow(s) PROVE Handlers'
  <2> DEFINE rest == req[s].list \ {Min(req[s].list)}
             at == IF rest = {} THEN "delete" ELSE "enqueue"
             r == [req[s] EXCEPT !.list = rest, !.at = at]
  <2>1. req[s] \in Request /\ req[s].op = "teardown" /\ Fits(req[s], minted, Torn)
    BY <1>0, <1>8 DEF DeleteRow, At, Handlers
  <2>2. r.op = "teardown" /\ r.at = at /\ r.list = rest
    BY <2>1 DEF Request, Idle
  <2>3. \A a \in rest : a <= minted
    BY <2>1 DEF Fits
  <2>4. minted' = minted
    BY <1>8 DEF DeleteRow
  <2>5. Fits(r, minted', Torn')
    BY <2>2, <2>3, <2>4 DEF Fits
  <2>. QED  BY <1>0, <1>a, <1>b, <1>8, <2>4, <2>5 DEF DeleteRow
<1>9. ASSUME NEW s \in Slots, NEW list \in SUBSET Previews, NEW last, Teardown(s, list, last)
      PROVE  Handlers'
  <2>1. \A a \in list : a <= minted
    BY DEF IInv, Minted, Previews
  <2> DEFINE at == IF list = {} THEN "delete" ELSE "enqueue"
             r == [op |-> "teardown", at |-> at, list |-> list, last |-> last]
  <2>2. minted' = minted
    BY <1>9 DEF Teardown
  <2>3. r.op = "teardown" /\ r.at = at /\ r.list = list
    OBVIOUS
  <2>4. at = "delete" => list = {}
    OBVIOUS
  <2> HIDE DEF r, at
  <2>5. Fits(r, minted', Torn')
    <3>1. r.at = "enqueue" => r.list # {}
      BY <2>3 DEF at
    <3>. QED  BY <2>1, <2>2, <2>3, <2>4, <3>1 DEF Fits
  <2>6. Goto(s, r)
    BY <1>9 DEF Teardown, r, at
  <2>7. minted' \in Nat /\ minted <= minted'
    BY <1>0, <2>2
  <2>. QED  BY <1>a, <2>5, <2>6, <2>7, Zenon
<1>10. ASSUME NEW s \in Slots,
              DeleteParent(s) \/ Sweep(s) \/ \E pr \in PRs : Close(s, pr)
       PROVE  Handlers'
  <2>1. \A pr \in PRs : PreviewFor(pr) \subseteq Previews
    BY SetAssumption DEF PreviewFor, Previews
  <2>. QED  BY <1>9, <1>10, <2>1 DEF DeleteParent, Sweep, Close
<1>11. ASSUME req' = req, minted' = minted PROVE Handlers'
  BY <1>0, <1>11, FitsOn DEF Handlers
<1>12. CASE HubRestart
  <2>1. \A s \in Slots : req'[s] = Idle
    BY <1>12 DEF HubRestart
  <2>. QED  BY <1>b, <2>1 DEF Handlers
<1>13. CASE AgentNext
  BY <1>11, <1>13 DEF AgentNext, ClaimFirst, ClaimSecond, Grant, Start, Act, Finish, Drop, Lapse
<1>14. CASE \E a \in Apps : Expire(a) \/ DeleteOwn(a)
  BY <1>11, <1>14 DEF Expire, DeleteOwn
<1>. QED
  BY <1>1, <1>2, <1>3, <1>5, <1>6, <1>7, <1>8, <1>10, <1>12, <1>13, <1>14 DEF HubNext, Step

\* A row appears for a pull request that has none, and goes with its teardown.
LEMMA RowMoves ==
  ASSUME IInv, HubNext
  PROVE  /\ host' = host
         /\ \/ row' = row /\ minted' = minted
            \/ /\ minted' = minted + 1 /\ minted + 1 \in Apps
               /\ \E pr \in PRs : PreviewFor(pr) = {} /\ row' = [row EXCEPT ![minted + 1] = pr]
            \/ /\ minted' = minted
               /\ \E a \in Apps : row' = [row EXCEPT ![a] = NULL] /\ a \in Torn \cup deleted'
         /\ deleted \subseteq deleted'
<1> USE DEF rows, agent
<1>0. /\ TypeOK /\ req \in [Slots -> Request] /\ minted \in 0..MaxApps /\ Handlers
  BY DEF IInv, TypeOK
<1>1. ASSUME NEW s \in Slots, Create(s)
      PROVE  \/ row' = row /\ minted' = minted
             \/ /\ minted' = minted + 1 /\ minted + 1 \in Apps
                /\ \E pr \in PRs : PreviewFor(pr) = {} /\ row' = [row EXCEPT ![minted + 1] = pr]
  <2>1. req[s] \in Request /\ req[s].op = "open" /\ req[s].at = "create"
    BY <1>0, <1>1 DEF Create, At
  <2>2. req[s].pr \in PRs
    BY <2>1, RequestFields
  <2>3. minted < MaxApps => minted + 1 \in Apps
    BY <1>0 DEF Apps
  <2>. QED  BY <1>1, <2>2, <2>3 DEF Create
<1>2. ASSUME NEW s \in Slots, DeleteRow(s)
      PROVE  minted' = minted /\ \E a \in Apps : row' = [row EXCEPT ![a] = NULL] /\ a \in Torn
  <2>1. Min(req[s].list) \in Torn
    BY <1>0, <1>2 DEF DeleteRow, At, Handlers, Fits
  <2>. QED  BY <1>2, <2>1 DEF DeleteRow, Torn
<1>3. ASSUME NEW s \in Slots,
             \/ Find(s) \/ Touch(s) \/ CreateRelease(s) \/ EnqueueDeploy(s)
             \/ EnqueueTeardown(s) \/ DeleteParentRow(s) \/ DeleteParent(s) \/ Sweep(s)
             \/ \E pr \in PRs : Push(s, pr) \/ Close(s, pr)
      PROVE  row' = row /\ minted' = minted
  BY <1>3 DEF Find, Touch, CreateRelease, EnqueueDeploy, EnqueueTeardown, DeleteParentRow,
              DeleteParent, Sweep, Push, Close, Teardown
<1>4. ASSUME (\E a \in Apps : Expire(a)) \/ HubRestart PROVE row' = row /\ minted' = minted
  BY <1>4 DEF Expire, HubRestart
<1>5. host' = host
  BY DEF HubNext, Step, Find, Create, Touch, CreateRelease, EnqueueDeploy, EnqueueTeardown,
         DeleteRow, DeleteParentRow, DeleteParent, Sweep, Push, Close, Teardown, Expire,
         DeleteOwn, HubRestart
<1>6. ASSUME NEW a \in Apps, DeleteOwn(a)
      PROVE  minted' = minted /\ row' = [row EXCEPT ![a] = NULL] /\ a \in deleted'
  BY <1>6 DEF DeleteOwn
<1>7. deleted \subseteq deleted'
  BY DEF HubNext, Step, Find, Create, Touch, CreateRelease, EnqueueDeploy, EnqueueTeardown,
         DeleteRow, DeleteParentRow, DeleteParent, Sweep, Push, Close, Teardown, Expire,
         DeleteOwn, HubRestart
<1>. QED  BY <1>1, <1>2, <1>3, <1>4, <1>5, <1>6, <1>7 DEF HubNext, Step

\* The agent leaves the rows, and runs what a job asks for.
LEMMA AgentRows ==
  ASSUME TypeOK, AgentNext
  PROVE  /\ row' = row /\ minted' = minted /\ deleted' = deleted
         /\ \A a \in host' : a \in host \/ \E j \in DOMAIN jobs : jobs[j].app = a
<1>0. run \in DOMAIN jobs \cup {NULL}
  BY DEF TypeOK
<1>1. row' = row /\ minted' = minted /\ deleted' = deleted
  BY DEF AgentNext, ClaimFirst, ClaimSecond, Grant, Start, Act, Finish, Drop, Lapse, rows
<1>2. CASE Act
  BY <1>0, <1>1, <1>2 DEF Act
<1>3. CASE ~Act
  BY <1>1, <1>3 DEF AgentNext, ClaimFirst, ClaimSecond, Grant, Start, Finish, Drop, Lapse
<1>. QED  BY <1>2, <1>3

LEMMA RowsKept == IInv /\ (HubNext \/ AgentNext) => Minted' /\ OnePerPR' /\ Removed'
<1> SUFFICES ASSUME IInv, HubNext \/ AgentNext PROVE Minted' /\ OnePerPR' /\ Removed'
  OBVIOUS
<1>a. /\ Torn \subseteq Torn'
      /\ \A j \in DOMAIN jobs' : jobs'[j].app \in Apps /\ jobs'[j].app <= minted
  BY OfGrows
<1>b. TypeOK /\ row \in [Apps -> PRs \cup {NULL}] /\ minted \in Nat /\ Apps \subseteq Nat
  BY DEF IInv, TypeOK, Apps
<1>c. Torn \subseteq Apps
  BY DEF Torn
<1>0. /\ TypeOK /\ row \in [Apps -> PRs \cup {NULL}] /\ minted \in Nat /\ Apps \subseteq Nat
      /\ Torn \subseteq Torn' /\ Torn \subseteq Apps
      /\ \A j \in DOMAIN jobs' : jobs'[j].app \in Apps /\ jobs'[j].app <= minted
  BY <1>a, <1>b, <1>c
<1>1. ASSUME row' = row, minted' = minted, deleted \subseteq deleted',
             \A a \in Apps : a \in host' => a <= minted
      PROVE  Minted' /\ OnePerPR' /\ Removed'
  BY <1>0, <1>1 DEF IInv, Minted, OnePerPR, Removed, Previews
<1>2. CASE HubNext
  <2>1. /\ host' = host /\ deleted \subseteq deleted'
        /\ \A a \in Apps : a \in host => a <= minted
    BY <1>2, RowMoves DEF IInv, Minted
  <2>2. CASE row' = row /\ minted' = minted
    BY <1>1, <2>1, <2>2
  <2>3. ASSUME minted' = minted + 1, minted + 1 \in Apps, NEW pr \in PRs, PreviewFor(pr) = {},
               row' = [row EXCEPT ![minted + 1] = pr]
        PROVE  Minted' /\ OnePerPR' /\ Removed'
    <3>1. \A a \in Apps : row'[a] = IF a = minted + 1 THEN pr ELSE row[a]
      BY <1>0, <2>3
    <3>2. \A a \in Apps : row[a] # pr
      BY <2>3 DEF PreviewFor
    <3>3. Minted'
      <4>1. ASSUME NEW a \in Apps, row'[a] # NULL \/ a \in host' PROVE a <= minted + 1
        <5>1. a \in Nat /\ minted \in Nat
          BY <1>0
        <5>2. a = minted + 1 \/ row[a] # NULL \/ a \in host
          BY <2>1, <3>1, <4>1
        <5>3. row[a] # NULL \/ a \in host => a <= minted
          BY DEF IInv, Minted
        <5>. QED  BY <5>1, <5>2, <5>3
      <4>2. ASSUME NEW j \in DOMAIN jobs' PROVE jobs'[j].app <= minted + 1
        <5>1. jobs'[j].app \in Nat /\ jobs'[j].app <= minted /\ minted \in Nat
          BY <1>0
        <5>. QED  BY <5>1
      <4>. QED  BY <2>3, <4>1, <4>2 DEF Minted
    <3>4. OnePerPR'
      BY <3>1, <3>2 DEF IInv, OnePerPR, Previews
    <3>5. Removed'
      BY <1>0, <2>1, <2>3, <3>1, SetAssumption DEF IInv, Removed
    <3>. QED  BY <3>3, <3>4, <3>5
  <2>4. ASSUME minted' = minted, NEW b \in Apps, b \in Torn \cup deleted',
               row' = [row EXCEPT ![b] = NULL]
        PROVE  Minted' /\ OnePerPR' /\ Removed'
    <3>1. \A a \in Apps : row'[a] = IF a = b THEN NULL ELSE row[a]
      BY <1>0, <2>4
    <3>2. Minted'
      BY <1>0, <2>1, <2>4, <3>1 DEF IInv, Minted
    <3>3. OnePerPR'
      BY <3>1 DEF IInv, OnePerPR, Previews
    <3>4. Removed'
      BY <1>0, <2>1, <2>4, <3>1 DEF IInv, Removed
    <3>. QED  BY <3>2, <3>3, <3>4
  <2>. QED  BY <1>2, <2>2, <2>3, <2>4, RowMoves
<1>3. CASE AgentNext
  <2>1. /\ row' = row /\ minted' = minted /\ deleted' = deleted
        /\ \A a \in host' : a \in host \/ \E j \in DOMAIN jobs : jobs[j].app = a
    BY <1>0, <1>3, AgentRows
  <2>2. \A a \in Apps : a \in host' => a <= minted
    BY <2>1 DEF IInv, Minted
  <2>. QED  BY <1>1, <2>1, <2>2
<1>. QED  BY <1>2, <1>3

LEMMA InitHolds == Init => IInv
<1> SUFFICES ASSUME Init PROVE IInv
  OBVIOUS
<1>1. TypeOK
  BY TypeInit
<1>2. \A kind, a : Of(kind, a) = {}
  BY DEF Init, Of
<1>3. \A s \in Slots : req[s] = Idle
  BY DEF Init
<1>4. Handlers
  BY <1>3 DEF Handlers, Fits, Idle
<1>5. Minted /\ OnePerPR /\ OneTeardown
  BY <1>2 DEF Init, Minted, OnePerPR, OneTeardown, Previews
<1>6. Removed
  BY DEF Init, Removed, Apps
<1>. QED  BY <1>1, <1>4, <1>5, <1>6 DEF IInv

LEMMA StepKeeps == IInv /\ [HubNext \/ AgentNext]_pvars => IInv'
<1> SUFFICES ASSUME IInv, [HubNext \/ AgentNext]_pvars PROVE IInv'
  OBVIOUS
<1>1. CASE HubNext \/ AgentNext
  <2>1. TypeOK'
    BY <1>1, TypeHub, TypeAgent DEF IInv
  <2>. QED  BY <1>1, <2>1, HandlersKept, RowsKept, OfGrows DEF IInv
<1>2. CASE UNCHANGED pvars
  <2>1. TypeOK'
    BY <1>2 DEF IInv, TypeOK, pvars, rows, agent
  <2>2. Torn' = Torn /\ OneTeardown'
    BY <1>2 DEF IInv, Torn, OneTeardown, Of, pvars
  <2>3. Handlers'
    BY <1>2, <2>2 DEF IInv, Handlers, pvars, rows
  <2>4. Minted' /\ OnePerPR' /\ Removed'
    BY <1>2, <2>2 DEF IInv, Minted, OnePerPR, Removed, Previews, pvars, rows, agent
  <2>. QED  BY <2>1, <2>2, <2>3, <2>4 DEF IInv
<1>. QED  BY <1>1, <1>2

\* The invariant says what the run checks.
LEMMA InvImplies == IInv => PreviewInv
<1> SUFFICES ASSUME IInv PROVE PreviewInv
  OBVIOUS
<1>1. ASSUME NEW a \in Apps PROVE Cardinality(Of("teardown", a)) <= 1
  <2>1. CASE Of("teardown", a) = {}
    BY <2>1, FS_EmptySet
  <2>2. CASE Of("teardown", a) # {}
    <3>1. PICK j : j \in Of("teardown", a)
      BY <2>2
    <3>2. \A k \in Of("teardown", a) : k = j
      BY <3>1 DEF IInv, OneTeardown
    <3>3. Of("teardown", a) = {j}
      BY <3>1, <3>2, Zenon
    <3>4. Cardinality(Of("teardown", a)) = 1
      BY <3>3, FS_Singleton, Zenon
    <3>. QED  BY <3>4
  <2>. QED  BY <2>1, <2>2
<1>2. ASSUME NEW a \in Apps, a <= minted /\ row[a] = NULL
      PROVE  a \in deleted \/ Of("teardown", a) # {}
  BY <1>2 DEF IInv, Removed, Torn
<1>. QED  BY <1>1, <1>2 DEF IInv, PreviewInv, RemovedByOneJob

\* The inductive invariant holds, with the agent and with the hub alone.
THEOREM Inductive == Spec => []IInv
BY InitHolds, StepKeeps, PTL DEF Spec

THEOREM InductiveHub == HubSpec => []IInv
<1>1. IInv /\ [HubNext]_pvars => IInv'
  BY StepKeeps
<1>. QED  BY <1>1, InitHolds, PTL DEF HubSpec

\* Every variable keeps its type.
THEOREM TypeCorrect == Spec => []TypeOK
<1>1. IInv => TypeOK
  BY DEF IInv
<1>. QED  BY <1>1, Inductive, PTL

\* A pull request has one preview, whatever deliveries race, and a preview's row
\* goes only after the one teardown job for its containers, or by its own id.
THEOREM PreviewsHold == Spec => []PreviewInv
BY Inductive, InvImplies, PTL

\* So it is for the hub alone, whose fairness the liveness run assumes.
THEOREM PreviewsHoldHub == HubSpec => []PreviewInv
BY InductiveHub, InvImplies, PTL

------------------------------------------------------------------------------
(* What a removed preview leaves behind *)

LEMMA LateInit == Init => Late
BY DEF Init, Late, Asking, DrainedFirst, BroughtUpLate

\* The hub enqueues behind all that is there.
LEMMA LateHub == IInv /\ Late /\ HubNext => Late'
<1> SUFFICES ASSUME IInv, Late, HubNext PROVE Late'
  OBVIOUS
<1>0. /\ TypeOK /\ Handlers /\ jobs \in Seq(Job) /\ run \in DOMAIN jobs \cup {NULL}
      /\ asked \in Nat \cup {NULL}
  BY DEF IInv, TypeOK
<1>1. /\ run' = run /\ host' = host /\ (asked' = asked \/ asked' = NULL) /\ failed' = failed
  BY DEF HubNext, Step, Find, Create, Touch, CreateRelease, EnqueueDeploy, EnqueueTeardown,
         DeleteRow, DeleteParentRow, DeleteParent, Sweep, Push, Close, Teardown, Expire,
         DeleteOwn, HubRestart, agent
<1>2. CASE jobs' = jobs
  <2>1. Asking'
    BY <1>1, <1>2 DEF Late, Asking
  <2>2. DrainedFirst' /\ BroughtUpLate'
    BY <1>1, <1>2 DEF Late, DrainedFirst, BroughtUpLate, Of
  <2>. QED  BY <2>1, <2>2 DEF Late
<1>3. ASSUME NEW kind \in {"deploy", "teardown"}, NEW a \in Apps, jobs' = NewJob(kind, a)
      PROVE  Late'
  <2> DEFINE n == Len(jobs) + 1
  <2>1. /\ Len(jobs) \in Nat /\ DOMAIN jobs = 1..Len(jobs) /\ Len(jobs') = n
        /\ DOMAIN jobs' = DOMAIN jobs \cup {n}
        /\ \A j \in DOMAIN jobs : jobs'[j] = jobs[j]
        /\ jobs'[n] = [kind |-> kind, app |-> a, status |-> "queued", seen |-> 0]
    BY <1>0, <1>3, Enqueued
  <2>2. jobs'[n].status = "queued" /\ jobs'[n].seen = 0
    BY <2>1
  <2>3. \A m \in Nat : m <= Len(jobs) => 1..m \subseteq DOMAIN jobs
    BY <2>1
  <2>4. \A j \in DOMAIN jobs : jobs[j].seen \in Nat
    <3>1. \A j \in DOMAIN jobs : jobs[j] \in Job
      BY <1>0
    <3>. QED  BY <3>1 DEF Job
  <2>5. Asking'
    BY <1>0, <1>1, <2>1, <2>3, SetAssumption DEF Late, Asking
  <2>6. DrainedFirst'
    <3> SUFFICES ASSUME NEW t \in DOMAIN jobs', jobs'[t].kind = "teardown"
                 PROVE  /\ jobs'[t].seen <= Len(jobs')
                        /\ \A d \in 1..jobs'[t].seen : jobs'[d].kind = "deploy" =>
                             jobs'[d].status # "queued" /\ run' # d
      BY DEF DrainedFirst
    <3>1. CASE t = n
      BY <2>1, <2>2, <3>1
    <3>2. CASE t \in DOMAIN jobs
      <4>1. /\ jobs'[t] = jobs[t] /\ jobs[t].seen \in Nat /\ jobs[t].seen <= Len(jobs)
            /\ \A d \in 1..jobs[t].seen : jobs[d].kind = "deploy" =>
                 jobs[d].status # "queued" /\ run # d
        BY <2>1, <2>4, <3>2 DEF Late, DrainedFirst
      <4>2. 1..jobs[t].seen \subseteq DOMAIN jobs
        BY <2>3, <4>1
      <4>. QED  BY <1>1, <2>1, <4>1, <4>2
    <3>. QED  BY <2>1, <3>1, <3>2
  <2> HIDE DEF n
  <2>7. BroughtUpLate'
    <3> SUFFICES ASSUME NEW t \in DOMAIN jobs', jobs'[t].kind = "teardown",
                        jobs'[t].status = "ended", jobs'[t].app \in host',
                        t \notin failed'
                 PROVE  \E d \in DOMAIN jobs' : /\ jobs'[d].kind = "deploy"
                                                /\ jobs'[d].app = jobs'[t].app
                                                /\ d > jobs'[t].seen
      BY DEF BroughtUpLate, Of
    <3>1. t \in DOMAIN jobs /\ jobs'[t] = jobs[t]
      BY <2>1, <2>2
    <3>2. PICK d \in Of("deploy", jobs[t].app) : d > jobs[t].seen
      BY <1>1, <3>1 DEF Late, BroughtUpLate
    <3>3. d \in DOMAIN jobs' /\ jobs'[d].kind = "deploy" /\ jobs'[d].app = jobs'[t].app
      BY <2>1, <3>1, <3>2 DEF Of
    <3>. QED  BY <3>1, <3>2, <3>3
  <2>. QED  BY <2>5, <2>6, <2>7 DEF Late
<1>. QED  BY <1>0, <1>2, <1>3, HubJobs

\* What the agent does to a job that is not granted.
LEMMA AgentStatus ==
  ASSUME TypeOK, NEW i \in DOMAIN jobs, NEW st, jobs' = [jobs EXCEPT ![i].status = st]
  PROVE  /\ Len(jobs') = Len(jobs) /\ DOMAIN jobs' = DOMAIN jobs
         /\ \A j \in DOMAIN jobs : jobs'[j].kind = jobs[j].kind /\ jobs'[j].app = jobs[j].app
                                   /\ jobs'[j].seen = jobs[j].seen
         /\ jobs'[i].status = st
         /\ \A j \in DOMAIN jobs : j # i => jobs'[j].status = jobs[j].status
<1>1. jobs \in Seq(Job) /\ jobs[i] \in Job
  BY DEF TypeOK
<1> DEFINE r == [jobs[i] EXCEPT !.status = st]
<1>2. r.kind = jobs[i].kind /\ r.app = jobs[i].app /\ r.seen = jobs[i].seen /\ r.status = st
  BY <1>1 DEF Job
<1>3. jobs' = [jobs EXCEPT ![i] = r]
  OBVIOUS
<1> HIDE DEF r
<1>. QED  BY <1>1, <1>2, <1>3

\* The invariant looks at deploys that are queued or run, and teardowns that ended.
LEMMA LateFrame ==
  ASSUME TypeOK, Late, Len(jobs') = Len(jobs), DOMAIN jobs' = DOMAIN jobs,
         \A j \in DOMAIN jobs : jobs'[j].kind = jobs[j].kind /\ jobs'[j].app = jobs[j].app
                                /\ jobs'[j].seen = jobs[j].seen,
         \A j \in DOMAIN jobs : jobs[j].kind = "deploy" /\ jobs'[j].status = "queued" =>
           jobs[j].status = "queued",
         \A j \in DOMAIN jobs : jobs[j].kind = "teardown" /\ jobs'[j].status = "ended" =>
           jobs[j].status = "ended" \/ jobs[j].app \notin host' \/ j \in failed',
         failed \subseteq failed',
         run' \in {run, NULL}, asked' \in {asked, NULL},
         \A a \in host' : a \in host \/ \E d \in DOMAIN jobs :
           run = d /\ jobs[d].kind = "deploy" /\ jobs[d].app = a
  PROVE  Late'
<1>0. /\ jobs \in Seq(Job) /\ run \in DOMAIN jobs \cup {NULL} /\ asked \in Nat \cup {NULL}
      /\ Len(jobs) \in Nat /\ DOMAIN jobs = 1..Len(jobs)
  BY DEF TypeOK
<1>1. \A j \in DOMAIN jobs : jobs[j].seen \in Nat
  <2>1. \A j \in DOMAIN jobs : jobs[j] \in Job
    BY <1>0
  <2>. QED  BY <2>1 DEF Job
<1>2. \A m \in Nat : m <= Len(jobs) => 1..m \subseteq DOMAIN jobs
  BY <1>0
<1>3. Asking'
  BY <1>0, <1>2, SetAssumption DEF Late, Asking
<1>4. DrainedFirst'
  <2> SUFFICES ASSUME NEW t \in DOMAIN jobs, jobs[t].kind = "teardown"
               PROVE  /\ jobs[t].seen <= Len(jobs)
                      /\ \A d \in 1..jobs[t].seen : jobs'[d].kind = "deploy" =>
                           jobs'[d].status # "queued" /\ run' # d
    BY DEF DrainedFirst
  <2>1. jobs[t].seen \in Nat /\ jobs[t].seen <= Len(jobs)
    BY <1>1 DEF Late, DrainedFirst
  <2>2. ASSUME NEW d \in 1..jobs[t].seen, jobs'[d].kind = "deploy"
        PROVE  jobs'[d].status # "queued" /\ run' # d
    <3>1. d \in DOMAIN jobs /\ d # NULL
      BY <1>2, <2>1, SetAssumption
    <3>2. jobs[d].kind = "deploy" /\ jobs[d].status # "queued" /\ run # d
      BY <2>2, <3>1 DEF Late, DrainedFirst
    <3>. QED  BY <3>1, <3>2
  <2>. QED  BY <2>1, <2>2
<1>5. BroughtUpLate'
  <2> SUFFICES ASSUME NEW t \in DOMAIN jobs, jobs[t].kind = "teardown",
                      jobs'[t].status = "ended", jobs[t].app \in host', t \notin failed'
               PROVE  \E d \in DOMAIN jobs : /\ jobs[d].kind = "deploy"
                                             /\ jobs[d].app = jobs[t].app
                                             /\ d > jobs[t].seen
    BY DEF BroughtUpLate, Of
  <2>1. jobs[t].status = "ended" /\ t \notin failed
    OBVIOUS
  <2>2. CASE jobs[t].app \in host
    BY <2>1, <2>2 DEF Late, BroughtUpLate, Of
  <2>3. CASE jobs[t].app \notin host
    <3>1. PICK d \in DOMAIN jobs : run = d /\ jobs[d].kind = "deploy" /\ jobs[d].app = jobs[t].app
      BY <2>3
    <3>2. ~(d \in 1..jobs[t].seen)
      BY <3>1 DEF Late, DrainedFirst
    <3>3. d \in Nat /\ d >= 1 /\ jobs[t].seen \in Nat
      BY <1>0, <1>1
    <3>. QED  BY <3>1, <3>2, <3>3
  <2>. QED  BY <2>2, <2>3
<1>. QED  BY <1>3, <1>4, <1>5 DEF Late

\* A job that is granted was queued and is claimed, with what was seen.
LEMMA Granted ==
  ASSUME TypeOK, NEW kind, NEW seen \in Nat, Grant(kind, seen)
  PROVE  \E i \in DOMAIN jobs :
           /\ run' = i /\ jobs[i].kind = kind /\ jobs[i].status = "queued"
           /\ Len(jobs') = Len(jobs) /\ DOMAIN jobs' = DOMAIN jobs
           /\ jobs'[i].kind = kind /\ jobs'[i].app = jobs[i].app
           /\ jobs'[i].status = "claimed" /\ jobs'[i].seen = seen
           /\ \A j \in DOMAIN jobs : j # i => jobs'[j] = jobs[j]
<1>0. jobs \in Seq(Job)
  BY DEF TypeOK
<1>1. Queued(kind) \in SUBSET Nat /\ Queued(kind) # {}
  BY <1>0 DEF Queued, Grant
<1>2. PICK i : i = Min(Queued(kind))
  OBVIOUS
<1>3. i \in Queued(kind)
  BY <1>1, <1>2, MinIsMember
<1>4. i \in DOMAIN jobs /\ jobs[i].kind = kind /\ jobs[i].status = "queued" /\ jobs[i] \in Job
  BY <1>0, <1>3 DEF Queued
<1> DEFINE r == [jobs[i] EXCEPT !.status = "claimed", !.seen = seen]
<1>5. r.kind = kind /\ r.app = jobs[i].app /\ r.seen = seen /\ r.status = "claimed"
  BY <1>4 DEF Job
<1>6. jobs' = [jobs EXCEPT ![i] = r] /\ run' = i
  BY <1>2 DEF Grant
<1> HIDE DEF r
<1>. QED  BY <1>0, <1>4, <1>5, <1>6

\* A teardown that is claimed has seen the deploys before it off, and a deploy
\* that is claimed is behind every teardown that was.
LEMMA LateGrant ==
  ASSUME TypeOK, Late, NEW kind \in {"deploy", "teardown"}, NEW seen \in Nat, Grant(kind, seen),
         asked' = NULL, host' = host, failed' = failed,
         kind = "teardown" =>
           /\ seen <= Len(jobs)
           /\ \A d \in 1..seen : jobs[d].kind = "deploy" => jobs[d].status # "queued"
  PROVE  Late'
<1>0. jobs \in Seq(Job) /\ Len(jobs) \in Nat /\ DOMAIN jobs = 1..Len(jobs)
  BY DEF TypeOK
<1>1. PICK i \in DOMAIN jobs :
           /\ run' = i /\ jobs[i].kind = kind /\ jobs[i].status = "queued"
           /\ Len(jobs') = Len(jobs) /\ DOMAIN jobs' = DOMAIN jobs
           /\ jobs'[i].kind = kind /\ jobs'[i].app = jobs[i].app
           /\ jobs'[i].status = "claimed" /\ jobs'[i].seen = seen
           /\ \A j \in DOMAIN jobs : j # i => jobs'[j] = jobs[j]
  BY Granted
<1>2. \A j \in DOMAIN jobs : jobs'[j].kind = jobs[j].kind /\ jobs'[j].app = jobs[j].app
  BY <1>1
<1>3. \A m \in Nat : m <= Len(jobs) => 1..m \subseteq DOMAIN jobs
  BY <1>0
<1>4. \A j \in DOMAIN jobs : jobs[j].seen \in Nat
  <2>1. \A j \in DOMAIN jobs : jobs[j] \in Job
    BY <1>0
  <2>. QED  BY <2>1 DEF Job
<1>5. Asking'
  BY DEF Asking
<1>6. DrainedFirst'
  <2> SUFFICES ASSUME NEW t \in DOMAIN jobs, jobs[t].kind = "teardown"
               PROVE  /\ jobs'[t].seen <= Len(jobs)
                      /\ \A d \in 1..jobs'[t].seen : jobs'[d].kind = "deploy" =>
                           jobs'[d].status # "queued" /\ run' # d
    BY <1>1, <1>2 DEF DrainedFirst
  <2>1. CASE t = i
    <3>1. kind = "teardown" /\ jobs'[t].seen = seen /\ 1..seen \subseteq DOMAIN jobs
      BY <1>1, <1>3, <2>1
    <3>2. ASSUME NEW d \in 1..seen, jobs'[d].kind = "deploy"
          PROVE  jobs'[d].status # "queued" /\ run' # d
      <4>1. d \in DOMAIN jobs /\ d # i /\ jobs[d].kind = "deploy"
        BY <1>1, <1>2, <3>1, <3>2
      <4>. QED  BY <1>1, <3>1, <4>1
    <3>. QED  BY <3>1, <3>2
  <2>2. CASE t # i
    <3>1. /\ jobs'[t] = jobs[t] /\ jobs[t].seen \in Nat /\ jobs[t].seen <= Len(jobs)
      BY <1>1, <1>4, <2>2 DEF Late, DrainedFirst
    <3>2. ASSUME NEW d \in 1..jobs[t].seen, jobs'[d].kind = "deploy"
          PROVE  jobs'[d].status # "queued" /\ run' # d
      <4>1. d \in DOMAIN jobs
        BY <1>3, <3>1
      <4>2. jobs[d].kind = "deploy" /\ jobs[d].status # "queued"
        BY <1>2, <3>2, <4>1 DEF Late, DrainedFirst
      <4>. QED  BY <1>1, <4>1, <4>2
    <3>. QED  BY <3>1, <3>2
  <2>. QED  BY <2>1, <2>2
<1>7. BroughtUpLate'
  <2> SUFFICES ASSUME NEW t \in DOMAIN jobs, jobs[t].kind = "teardown",
                      jobs'[t].status = "ended", jobs[t].app \in host, t \notin failed
               PROVE  \E d \in DOMAIN jobs : /\ jobs[d].kind = "deploy"
                                             /\ jobs[d].app = jobs[t].app
                                             /\ d > jobs'[t].seen
    BY <1>1, <1>2 DEF BroughtUpLate, Of
  <2>1. jobs'[t] = jobs[t]
    BY <1>1
  <2>. QED  BY <2>1 DEF Late, BroughtUpLate, Of
<1>. QED  BY <1>5, <1>6, <1>7 DEF Late

LEMMA LateAgent == TypeOK /\ Late /\ AgentNext => Late'
<1> SUFFICES ASSUME TypeOK, Late, AgentNext PROVE Late'
  OBVIOUS
<1>0. /\ jobs \in Seq(Job) /\ Len(jobs) \in Nat /\ DOMAIN jobs = 1..Len(jobs)
      /\ run \in DOMAIN jobs \cup {NULL} /\ asked \in Nat \cup {NULL}
  BY DEF TypeOK
<1>1. CASE ClaimFirst
  <2>1. CASE Grant(KindOrder[1], Len(jobs))
    <3>1. Grant("deploy", Len(jobs)) /\ asked' = NULL /\ host' = host /\ failed' = failed
      BY <2>1 DEF KindOrder, Grant
    <3>. QED  BY <1>0, <3>1, LateGrant
  <2>2. CASE Queued(KindOrder[1]) = {} /\ asked' = Len(jobs)
             /\ UNCHANGED <<jobs, run, host, failed>>
    <3>1. \A d \in DOMAIN jobs : jobs[d].kind = "deploy" => jobs[d].status # "queued"
      BY <2>2 DEF Queued, KindOrder
    <3>2. Asking'
      BY <1>0, <1>1, <2>2, <3>1 DEF Asking, ClaimFirst
    <3>3. DrainedFirst' /\ BroughtUpLate'
      BY <2>2 DEF Late, DrainedFirst, BroughtUpLate, Of
    <3>. QED  BY <3>2, <3>3 DEF Late
  <2>. QED  BY <1>1, <2>1, <2>2 DEF ClaimFirst
<1>2. CASE ClaimSecond
  <2>1. CASE Grant(KindOrder[2], asked)
    <3>1. Grant("teardown", asked) /\ asked' = NULL /\ host' = host /\ failed' = failed
      BY <2>1 DEF KindOrder, Grant
    <3>2. /\ asked \in Nat /\ asked <= Len(jobs)
          /\ \A d \in 1..asked : jobs[d].kind = "deploy" => jobs[d].status # "queued"
      BY <1>0, <1>2 DEF ClaimSecond, Late, Asking
    <3>. QED  BY <3>1, <3>2, LateGrant
  <2>2. CASE asked' = NULL /\ UNCHANGED <<jobs, run, host, failed>>
    BY <2>2 DEF Late, Asking, DrainedFirst, BroughtUpLate, Of
  <2>. QED  BY <1>2, <2>1, <2>2 DEF ClaimSecond
<1>3. CASE Start
  <2>1. run \in DOMAIN jobs /\ jobs' = [jobs EXCEPT ![run].status = "running"]
    BY <1>0, <1>3 DEF Start
  <2>. QED  BY <1>3, <2>1, AgentStatus, LateFrame DEF Start
<1>4. CASE Act
  <2>1. \A a \in host' : a \in host \/ \E d \in DOMAIN jobs :
           run = d /\ jobs[d].kind = "deploy" /\ jobs[d].app = a
    BY <1>0, <1>4 DEF Act
  <2>2. jobs' = jobs /\ run' = run /\ asked' = asked /\ failed' = failed
    BY <1>4 DEF Act
  <2>. QED  BY <2>1, <2>2, LateFrame
<1>5. CASE Finish
  <2>1. run \in DOMAIN jobs /\ jobs' = [jobs EXCEPT ![run].status = "ended"]
    BY <1>0, <1>5 DEF Finish
  <2>2. \A j \in DOMAIN jobs : jobs[j].kind = "teardown" /\ jobs'[j].status = "ended" =>
           jobs[j].status = "ended" \/ jobs[j].app \notin host' \/ j \in failed'
    BY <1>5, <2>1, AgentStatus DEF Finish
  <2>3. failed \subseteq failed'
    BY <1>5 DEF Finish
  <2>. QED  BY <1>5, <2>1, <2>2, <2>3, AgentStatus, LateFrame DEF Finish
<1>6. CASE Drop
  BY <1>6, LateFrame DEF Drop
<1>7. ASSUME NEW j \in DOMAIN jobs, Lapse(j) PROVE Late'
  <2>1. PICK fate : /\ jobs' = [jobs EXCEPT ![j].status = fate]
                    /\ fate = "unknown" \/ (fate = "queued" /\ jobs[j].kind = "teardown")
    BY <1>7 DEF Lapse
  <2>2. run' \in {run, NULL} /\ asked' = asked /\ host' = host /\ failed' = failed
    BY <1>7 DEF Lapse
  <2>. QED  BY <2>1, <2>2, AgentStatus, LateFrame
<1>. QED  BY <1>1, <1>2, <1>3, <1>4, <1>5, <1>6, <1>7 DEF AgentNext

\* A teardown that is over leaves its preview's container only to a deploy that
\* came late, or when the hub lost track of it or a removal failed.
LEMMA LateImplies == IInv /\ Late => StrandedOnlyLate
<1> SUFFICES ASSUME IInv, Late, NEW a \in Apps, Stranded(a)
             PROVE  \/ a \in deleted /\ Of("teardown", a) = {}
                    \/ \E t \in Of("teardown", a) :
                         \/ jobs[t].status = "unknown" \/ t \in failed
                         \/ \E d \in Of("deploy", a) : d > jobs[t].seen
  BY DEF StrandedOnlyLate
<1>1. row[a] = NULL /\ a \in host /\ a <= minted
  BY DEF Stranded, IInv, Minted
<1> SUFFICES ASSUME ~(a \in deleted /\ Of("teardown", a) = {})
             PROVE  \E t \in Of("teardown", a) :
                      \/ jobs[t].status = "unknown" \/ t \in failed
                      \/ \E d \in Of("deploy", a) : d > jobs[t].seen
  OBVIOUS
<1>2. PICK t : t \in Of("teardown", a)
  BY <1>1 DEF IInv, Removed, Torn
<1>3. t \in DOMAIN jobs /\ jobs[t].kind = "teardown" /\ jobs[t].app = a
  BY <1>2 DEF Of
<1>4. jobs[t].status \in {"ended", "unknown"}
  <2>1. jobs[t] \in Job
    BY <1>3 DEF IInv, TypeOK
  <2>2. jobs[t].status \in Status
    BY <2>1 DEF Job
  <2>3. jobs[t].status \notin {"queued", "claimed", "running"}
    BY <1>2 DEF Stranded, Open
  <2>. QED  BY <2>2, <2>3 DEF Status
<1>5. CASE jobs[t].status = "unknown"
  BY <1>2, <1>5
<1>6. CASE jobs[t].status = "ended"
  BY <1>1, <1>2, <1>3, <1>6 DEF Late, BroughtUpLate
<1>. QED  BY <1>4, <1>5, <1>6

\* A container without its preview was brought up by a deploy that is behind its
\* teardown's claim, or its teardown is "unknown" or could not remove it, or its
\* preview was deleted by its own id: a deploy that was there when the claim was
\* made is drained first.
THEOREM StrandedLate == Spec => []StrandedOnlyLate
<1>1. Init => IInv /\ Late
  BY InitHolds, LateInit
<1>2. IInv /\ Late /\ [HubNext \/ AgentNext]_pvars => (IInv /\ Late)'
  <2> SUFFICES ASSUME IInv, Late, [HubNext \/ AgentNext]_pvars PROVE Late'
    BY StepKeeps
  <2>1. CASE HubNext
    BY <2>1, LateHub
  <2>2. CASE AgentNext
    BY <2>2, LateAgent DEF IInv
  <2>3. CASE UNCHANGED pvars
    BY <2>3 DEF Late, Asking, DrainedFirst, BroughtUpLate, Of, pvars, agent
  <2>. QED  BY <2>1, <2>2, <2>3
<1>. QED  BY <1>1, <1>2, LateImplies, PTL DEF Spec
==============================================================================
