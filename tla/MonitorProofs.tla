----------------------------- MODULE MonitorProofs -----------------------------
(***************************************************************************)
(* Theorems about Monitor, for any services, thresholds, permits, chains,  *)
(* reloads and restarts.                                                   *)
(***************************************************************************)
EXTENDS Monitor, TLAPS, FiniteSetTheorems, WellFoundedInduction

\* A chain waits at one place in the queue.
WaitOnce == \A i, j \in DOMAIN waiting : waiting[i] = waiting[j] => i = j

Permits == IsFiniteSet(HoldingChains) /\ PermitsAccounted /\ WaitOnce

\* With SQLite one chain at a time is past its outcome.
Past == {"opening", "inserting", "closing", "done"}
OneWriter ==
  driver = "sqlite" =>
    \A s, t \in Services, n, m \in Chains :
      at[s][n] \in Past /\ at[t][m] \in Past => s = t /\ n = m

\* What the one is about to do fits what the status and the incidents are.
WriterKnows ==
  driver = "sqlite" =>
    \A s \in Services, n \in Chains :
      /\ at[s][n] \in {"opening", "inserting"} => status[s] \in Bad
      /\ at[s][n] = "inserting" => open[s] = 0
      /\ at[s][n] = "closing" => status[s] \notin Bad

\* A service that is not configured has no ServiceState.
Removed == \A s \in Services \ config : status[s] = "unknown"

\* IncidentTracksStatus, also of the services that are not configured.
Tracked ==
  driver = "sqlite" => \A s \in Services \ excused :
    (\A n \in Chains : at[s][n] \notin {"opening", "inserting", "closing"})
      => (open[s] > 0 <=> status[s] \in Bad)

\* The counters of a ServiceState count its latest results.
Counted ==
  \A s \in Services :
    /\ Len(recent[s]) <= Span
    /\ LastAre(recent[s], bad[s], {"degraded", "bad"})
    /\ LastAre(recent[s], good[s], {"good"})

\* The inductive invariant.
IInv ==
  /\ TypeOK /\ Permits
  /\ Removed /\ OneWriter /\ WriterKnows /\ OneOpenIncident /\ Tracked
  /\ Counted

USE ThresholdAssumption, MonitorBounds
USE DEF Chains

------------------------------------------------------------------------------
(* Chains *)

\* A set of natural numbers that is not empty has a least one.
LEMMA LeastNumber ==
  ASSUME NEW S \in SUBSET Nat, S # {}
  PROVE  \E x \in S : \A y \in S : x <= y
<1> DEFINE R == {ss \in Nat \X Nat : ss[1] < ss[2]}
<1>1. IsWellFoundedOn(R, Nat)
  BY NatLessThanWellFounded, Zenon DEF OpToRel
<1>2. \E x \in S : \A y \in S : ~(<<y, x>> \in R)
  BY <1>1, WFMin, Zenon
<1>3. PICK x \in S : \A y \in S : ~(<<y, x>> \in R)
  BY <1>2, Zenon
<1>4. ASSUME NEW y \in S PROVE x <= y
  <2>1. <<y, x>> \in Nat \X Nat
    BY Zenon
  <2>2. ~(y < x)
    BY <1>3, <2>1
  <2>. QED  BY <2>2
<1>. QED  BY <1>4

\* schedule() takes a chain that was nowhere.
LEMMA FirstFreeIsFree ==
  ASSUME NEW places, NEW s, Free(places, s) # {}
  PROVE  FirstFree(places, s) \in Chains /\ places[s][FirstFree(places, s)] = "none"
<1>1. Free(places, s) \in SUBSET Nat
  BY DEF Free
<1>2. \E n \in Free(places, s) : \A m \in Free(places, s) : n <= m
  BY <1>1, LeastNumber
<1>3. FirstFree(places, s) \in Free(places, s)
  BY <1>2 DEF FirstFree
<1>. QED  BY <1>3 DEF Free

\* start() gives chains that were nowhere a timer, and moves no other.
LEMMA Scheduled ==
  ASSUME NEW places \in [Services -> [Chains -> Places]], NEW cfg \in SUBSET Services,
         Schedule(places, cfg)
  PROVE  /\ at' \in [Services -> [Chains -> Places]] /\ timer' \in [Services -> Chains \cup {0}]
         /\ \A s \in Services, n \in Chains :
              \/ at'[s][n] = places[s][n]
              \/ places[s][n] = "none" /\ at'[s][n] = "timer"
<1>1. \A s \in cfg : /\ FirstFree(places, s) \in Chains
                     /\ places[s][FirstFree(places, s)] = "none"
  BY FirstFreeIsFree DEF Schedule
<1>2. timer' \in [Services -> Chains \cup {0}]
  BY <1>1 DEF Schedule
<1>3. ASSUME NEW s \in Services
      PROVE  /\ at'[s] \in [Chains -> Places]
             /\ \A n \in Chains : \/ at'[s][n] = places[s][n]
                                  \/ places[s][n] = "none" /\ at'[s][n] = "timer"
  <2>1. CASE s \in cfg
    <3>1. at'[s] = [places[s] EXCEPT ![FirstFree(places, s)] = "timer"]
      BY <2>1 DEF Schedule
    <3>2. places[s] \in [Chains -> Places] /\ "timer" \in Places
      BY DEF Places
    <3>. QED  BY <1>1, <2>1, <3>1, <3>2
  <2>2. CASE s \notin cfg
    BY <2>2 DEF Schedule
  <2>. QED  BY <2>1, <2>2
<1>4. at' \in [Services -> [Chains -> Places]]
  <2>1. at' = [s \in Services |-> IF s \in cfg
             THEN [places[s] EXCEPT ![FirstFree(places, s)] = "timer"] ELSE places[s]]
    BY DEF Schedule
  <2>2. at' = [s \in Services |-> at'[s]]
    BY <2>1
  <2>. QED  BY <1>3, <2>2, Zenon
<1>. QED  BY <1>2, <1>3, <1>4

\* stop() leaves every chain where it is or nowhere, and none in the queue.
LEMMA StoppedPlaces ==
  ASSUME TypeOK
  PROVE  /\ Stopped(at) \in [Services -> [Chains -> Places]]
         /\ \A s \in Services, n \in Chains :
              /\ Stopped(at)[s][n] # "waiting"
              /\ \/ Stopped(at)[s][n] = at[s][n]
                 \/ at[s][n] \in {"waiting", "timer"} /\ Stopped(at)[s][n] = "none"
BY DEF TypeOK, Stopped, Places

LEMMA NowhereType == Nowhere \in [Services -> [Chains -> Places]]
BY DEF Nowhere, Places

\* A chain that goes somewhere leaves the others where they are.
LEMMA Went ==
  ASSUME TypeOK, NEW s \in Services, NEW n \in Chains, NEW p \in Places, Goto(s, n, p)
  PROVE  /\ at' \in [Services -> [Chains -> Places]]
         /\ \A t \in Services, m \in Chains :
              at'[t][m] = IF t = s /\ m = n THEN p ELSE at[t][m]
<1>1. at[s] \in [Chains -> Places] /\ at \in [Services -> [Chains -> Places]]
  BY DEF TypeOK
<1>2. at' = [at EXCEPT ![s] = [at[s] EXCEPT ![n] = p]]
  BY <1>1 DEF Goto
<1>3. [at[s] EXCEPT ![n] = p] \in [Chains -> Places]
  BY <1>1
<1>. QED  BY <1>1, <1>2, <1>3

\* Chain <<s, n>> hands its permit to <<t, m>>, the first in the queue.
Handed(s, n, t, m) ==
  /\ Head(waiting) = <<t, m>> /\ at[t][m] = "waiting" /\ <<t, m>> # <<s, n>>
  /\ at' \in [Services -> [Chains -> Places]]
  /\ \A u \in Services, k \in Chains :
       at'[u][k] = IF u = s /\ k = n THEN "timer"
                   ELSE IF u = t /\ k = m THEN "checking" ELSE at[u][k]

\* Whom release() wakes, and that it is another chain.
LEMMA Woken ==
  ASSUME TypeOK, PermitsAccounted, NEW s \in Services, NEW n \in Chains,
         at[s][n] = "done", waiting # <<>>,
         at' = [at EXCEPT ![s][n] = "timer", ![Head(waiting)[1]][Head(waiting)[2]] = "checking"]
  PROVE  \E t \in Services, m \in Chains : Handed(s, n, t, m)
<1>1. waiting \in Seq(Services \X Chains) /\ at \in [Services -> [Chains -> Places]]
  BY DEF TypeOK
<1>2. Len(waiting) >= 1 /\ Head(waiting) = waiting[1] /\ waiting[1] \in Services \X Chains
  BY <1>1
<1>3. PICK t \in Services, m \in Chains : Head(waiting) = <<t, m>>
  BY <1>2
<1>4. at[t][m] = "waiting"
  BY <1>2, <1>3 DEF PermitsAccounted
<1>5. <<t, m>> # <<s, n>>
  BY <1>4
<1> DEFINE mid == [at EXCEPT ![s][n] = "timer"]
<1>6. /\ mid \in [Services -> [Chains -> Places]]
      /\ \A u \in Services, k \in Chains :
           mid[u][k] = IF u = s /\ k = n THEN "timer" ELSE at[u][k]
  <2>1. at[s] \in [Chains -> Places] /\ "timer" \in Places
    BY <1>1 DEF Places
  <2>2. [at[s] EXCEPT ![n] = "timer"] \in [Chains -> Places]
    BY <2>1
  <2>. QED  BY <1>1, <2>1, <2>2
<1>7. at' = [mid EXCEPT ![t] = [mid[t] EXCEPT ![m] = "checking"]]
  <2>1. Head(waiting)[1] = t /\ Head(waiting)[2] = m
    BY <1>3
  <2>2. at' = [mid EXCEPT ![t][m] = "checking"]
    BY <2>1, Zenon
  <2>. QED  BY <2>2, Zenon
<1> HIDE DEF mid
<1>8. mid[t] \in [Chains -> Places] /\ "checking" \in Places
  BY <1>6 DEF Places, Holding
<1>9. [mid[t] EXCEPT ![m] = "checking"] \in [Chains -> Places]
  BY <1>8
<1> DEFINE row == [mid[t] EXCEPT ![m] = "checking"]
<1>10. \A k \in Chains : row[k] = IF k = m THEN "checking" ELSE mid[t][k]
  BY <1>8
<1>11. row \in [Chains -> Places] /\ at' = [mid EXCEPT ![t] = row]
  BY <1>7, <1>9
<1> HIDE DEF row
<1>12. /\ at' \in [Services -> [Chains -> Places]]
       /\ \A u \in Services : at'[u] = IF u = t THEN row ELSE mid[u]
  BY <1>6, <1>11
<1>13. ASSUME NEW u \in Services, NEW k \in Chains
       PROVE  at'[u][k] = IF u = s /\ k = n THEN "timer"
                          ELSE IF u = t /\ k = m THEN "checking" ELSE at[u][k]
  <2>1. CASE u = t
    <3>1. ~(t = s /\ m = n)
      BY <1>5
    <3>2. at'[u][k] = IF k = m THEN "checking" ELSE mid[t][k]
      BY <1>10, <1>12, <2>1, Zenon
    <3>. QED  BY <1>6, <2>1, <3>1, <3>2, Zenon
  <2>2. CASE u # t
    <3>1. at'[u][k] = mid[u][k]
      BY <1>12, <2>2, Zenon
    <3>. QED  BY <1>6, <2>2, <3>1, Zenon
  <2>. QED  BY <2>1, <2>2, Zenon
<1>14. Handed(s, n, t, m)
  BY <1>3, <1>4, <1>5, <1>12, <1>13, Zenon DEF Handed
<1>. QED  BY <1>14


------------------------------------------------------------------------------
(* Types *)

\* The part of the types that a reload or a restart gives new states to.
LEMMA FreshTypes ==
  ASSUME TypeOK, NEW S \in SUBSET Services, Fresh(S)
  PROVE  /\ status' \in [Services -> ServiceStatus]
         /\ bad' \in [Services -> 0..Failures] /\ good' \in [Services -> 0..Recoveries]
         /\ recent' \in [Services -> Seq(Results)]
<1>1. /\ status' \in [Services -> ServiceStatus]
      /\ bad' \in [Services -> 0..Failures] /\ good' \in [Services -> 0..Recoveries]
  BY DEF TypeOK, Fresh, ServiceStatus
<1>2. recent' = [s \in Services |-> IF s \in S THEN <<>> ELSE recent[s]]
      /\ recent \in [Services -> Seq(Results)]
  BY DEF TypeOK, Fresh
<1>3. <<>> \in Seq(Results)
  OBVIOUS
<1>. QED  BY <1>1, <1>2, <1>3

\* A result leaves counters within their thresholds, and a known status.
LEMMA ResultTypes ==
  ASSUME TypeOK, NEW s \in Services, NEW result \in Results
  PROVE  /\ BadAfter(s, result) \in 0..Failures /\ GoodAfter(s, result) \in 0..Recoveries
         /\ NextStatus(s, result) \in ServiceStatus \ {"unknown"}
         /\ Latest(s, result) \in Seq(Results)
<1>1. bad[s] \in 0..Failures /\ good[s] \in 0..Recoveries /\ status[s] \in ServiceStatus
      /\ recent[s] \in Seq(Results)
  BY DEF TypeOK
<1>2. BadAfter(s, result) \in 0..Failures /\ GoodAfter(s, result) \in 0..Recoveries
  BY <1>1 DEF BadAfter, GoodAfter, Least
<1>3. Observed(result) \in {"operational", "degraded", "major_outage"}
  BY DEF Observed, Results
<1>4. NextStatus(s, result) \in ServiceStatus \ {"unknown"}
  BY <1>1, <1>3 DEF NextStatus, ServiceStatus
<1>5. Append(recent[s], result) \in Seq(Results) /\ Append(recent[s], result) # <<>>
  BY <1>1
<1>6. Latest(s, result) \in Seq(Results)
  BY <1>5 DEF Latest
<1>. QED  BY <1>2, <1>4, <1>6

LEMMA TypeStep ==
  ASSUME TypeOK, Permits, [Next]_mvars PROVE TypeOK'
<1> USE DEF sched, flap
<1>1. CASE BootStart
  <2>1. at' \in [Services -> [Chains -> Places]] /\ timer' \in [Services -> Chains \cup {0}]
    BY <1>1, Scheduled DEF BootStart, TypeOK
  <2>. QED  BY <1>1, <2>1 DEF BootStart, TypeOK
<1>2. ASSUME NEW cfg \in SUBSET Services, Reload(cfg) PROVE TypeOK'
  <2>1. at' \in [Services -> [Chains -> Places]] /\ timer' \in [Services -> Chains \cup {0}]
    BY <1>2, Scheduled, StoppedPlaces DEF Reload
  <2>2. /\ status' \in [Services -> ServiceStatus]
        /\ bad' \in [Services -> 0..Failures] /\ good' \in [Services -> 0..Recoveries]
        /\ recent' \in [Services -> Seq(Results)]
    BY <1>2, FreshTypes DEF Reload
  <2>3. waiting' \in Seq(Services \X Chains) /\ excused' \subseteq Services
    BY <1>2 DEF Reload, Excuse, TypeOK
  <2>4. reloads' \in 0..MaxReloads
    BY <1>2 DEF Reload, TypeOK
  <2>. QED  BY <1>2, <2>1, <2>2, <2>3, <2>4 DEF Reload, TypeOK
<1>3. CASE Restart
  <2>1. at' \in [Services -> [Chains -> Places]] /\ timer' \in [Services -> Chains \cup {0}]
    BY <1>3, Scheduled, NowhereType DEF Restart, TypeOK
  <2>2. /\ status' \in [Services -> ServiceStatus]
        /\ bad' \in [Services -> 0..Failures] /\ good' \in [Services -> 0..Recoveries]
        /\ recent' \in [Services -> Seq(Results)]
    BY <1>3, FreshTypes DEF Restart
  <2>3. waiting' \in Seq(Services \X Chains) /\ excused' \subseteq Services
    BY <1>3 DEF Restart, Excuse, TypeOK
  <2>4. restarts' \in 0..MaxRestarts /\ inFlight' \in 0..Concurrency
    BY <1>3 DEF Restart, TypeOK
  <2>. QED  BY <1>3, <2>1, <2>2, <2>3, <2>4 DEF Restart, TypeOK
<1>4. ASSUME NEW s \in Services, NEW n \in Chains, Fire(s, n) PROVE TypeOK'
  <2>1. CASE inFlight < Concurrency /\ inFlight' = inFlight + 1 /\ Goto(s, n, "checking")
             /\ UNCHANGED waiting
    <3>1. at' \in [Services -> [Chains -> Places]]
      BY <2>1, Went DEF Places, Holding
    <3>2. inFlight' \in 0..Concurrency
      BY <2>1 DEF TypeOK
    <3>. QED  BY <1>4, <2>1, <3>1, <3>2 DEF Fire, TypeOK
  <2>2. CASE waiting' = Append(waiting, <<s, n>>) /\ Goto(s, n, "waiting") /\ UNCHANGED inFlight
    <3>1. at' \in [Services -> [Chains -> Places]]
      BY <2>2, Went DEF Places
    <3>2. waiting' \in Seq(Services \X Chains)
      BY <2>2 DEF TypeOK
    <3>. QED  BY <1>4, <2>2, <3>1, <3>2 DEF Fire, TypeOK
  <2>. QED  BY <1>4, <2>1, <2>2 DEF Fire
<1>5. ASSUME NEW s \in Services, NEW n \in Chains, NEW result \in Results, Outcome(s, n, result)
      PROVE  TypeOK'
  <2>1. IncidentStep(status[s], NextStatus(s, result)) \in Places /\ "done" \in Places
    BY DEF IncidentStep, Places, Holding
  <2>2. at' \in [Services -> [Chains -> Places]]
    <3>1. \/ Goto(s, n, IncidentStep(status[s], NextStatus(s, result)))
          \/ Goto(s, n, "done")
      BY <1>5 DEF Outcome
    <3>2. ASSUME NEW p \in Places, Goto(s, n, p) PROVE at' \in [Services -> [Chains -> Places]]
      BY <3>2, Went, Zenon
    <3>. QED  BY <2>1, <3>1, <3>2, Zenon
  <2>3. /\ status' \in [Services -> ServiceStatus]
        /\ bad' \in [Services -> 0..Failures] /\ good' \in [Services -> 0..Recoveries]
        /\ recent' \in [Services -> Seq(Results)]
    <3>1. CASE UNCHANGED flap
      BY <3>1 DEF TypeOK
    <3>2. CASE /\ status' = [status EXCEPT ![s] = NextStatus(s, result)]
               /\ bad' = [bad EXCEPT ![s] = BadAfter(s, result)]
               /\ good' = [good EXCEPT ![s] = GoodAfter(s, result)]
               /\ recent' = [recent EXCEPT ![s] = Latest(s, result)]
      <4>1. /\ BadAfter(s, result) \in 0..Failures /\ GoodAfter(s, result) \in 0..Recoveries
            /\ NextStatus(s, result) \in ServiceStatus
            /\ Latest(s, result) \in Seq(Results)
        BY ResultTypes
      <4>2. /\ status \in [Services -> ServiceStatus]
            /\ bad \in [Services -> 0..Failures] /\ good \in [Services -> 0..Recoveries]
            /\ recent \in [Services -> Seq(Results)]
        BY DEF TypeOK
      <4>. QED  BY <3>2, <4>1, <4>2
    <3>. QED  BY <1>5, <3>1, <3>2 DEF Outcome
  <2>. QED  BY <1>5, <2>2, <2>3 DEF Outcome, TypeOK
<1>6. ASSUME NEW s \in Services, NEW n \in Chains,
             \/ OpenRead(s, n) \/ OpenInsert(s, n) \/ CloseUpdate(s, n) \/ Crash(s, n)
      PROVE  TypeOK'
  <2>1. at' \in [Services -> [Chains -> Places]]
    <3>1. Goto(s, n, "done") \/ Goto(s, n, "inserting")
      BY <1>6 DEF OpenRead, OpenInsert, CloseUpdate, Crash
    <3>2. "done" \in Places /\ "inserting" \in Places
      BY DEF Places, Holding
    <3>3. ASSUME NEW p \in Places, Goto(s, n, p) PROVE at' \in [Services -> [Chains -> Places]]
      BY <3>3, Went, Zenon
    <3>. QED  BY <3>1, <3>2, <3>3, Zenon
  <2>2. open' \in [Services -> Nat] /\ excused' \subseteq Services
    <3>1. CASE OpenRead(s, n)
      BY <3>1 DEF OpenRead, TypeOK
    <3>2. CASE OpenInsert(s, n)
      BY <3>2 DEF OpenInsert, TypeOK
    <3>3. CASE CloseUpdate(s, n)
      BY <3>3 DEF CloseUpdate, TypeOK
    <3>4. CASE Crash(s, n)
      BY <3>4 DEF Crash, TypeOK
    <3>. QED  BY <1>6, <3>1, <3>2, <3>3, <3>4
  <2>. QED  BY <1>6, <2>1, <2>2 DEF OpenRead, OpenInsert, CloseUpdate, Crash, TypeOK
<1>7. ASSUME NEW s \in Services, NEW n \in Chains, Release(s, n) PROVE TypeOK'
  <2>1. timer' \in [Services -> Chains \cup {0}]
    BY <1>7 DEF Release, TypeOK
  <2>2. CASE waiting = <<>> /\ inFlight' = inFlight - 1 /\ Goto(s, n, "timer") /\ UNCHANGED waiting
    <3>1. at' \in [Services -> [Chains -> Places]]
      BY <2>2, Went DEF Places
    <3>2. <<s, n>> \in HoldingChains
      BY <1>7 DEF Release, HoldingChains, Holding
    <3>3. Cardinality(HoldingChains) # 0 /\ inFlight = Cardinality(HoldingChains)
      BY <3>2, FS_EmptySet DEF Permits, PermitsAccounted
    <3>4. inFlight' \in 0..Concurrency
      BY <2>2, <3>3 DEF TypeOK
    <3>. QED  BY <1>7, <2>1, <2>2, <3>1, <3>4 DEF Release, TypeOK
  <2>3. CASE /\ waiting # <<>> /\ waiting' = Tail(waiting) /\ UNCHANGED inFlight
             /\ at' = [at EXCEPT ![s][n] = "timer",
                                 ![Head(waiting)[1]][Head(waiting)[2]] = "checking"]
    <3>1. at' \in [Services -> [Chains -> Places]]
      BY <1>7, <2>3, Woken DEF Handed, Permits, Release
    <3>2. waiting' \in Seq(Services \X Chains)
      BY <2>3 DEF TypeOK
    <3>. QED  BY <1>7, <2>1, <2>3, <3>1, <3>2 DEF Release, TypeOK
  <2>. QED  BY <1>7, <2>2, <2>3 DEF Release
<1>8. ASSUME NEW s \in Services, Resolve(s) PROVE TypeOK'
  <2>1. open' \in [Services -> Nat] /\ excused' \subseteq Services
    BY <1>8 DEF Resolve, TypeOK
  <2>. QED  BY <1>8, <2>1 DEF Resolve, TypeOK
<1>9. CASE UNCHANGED mvars
  BY <1>9 DEF mvars, TypeOK
<1>. QED  BY <1>1, <1>2, <1>3, <1>4, <1>5, <1>6, <1>7, <1>8, <1>9 DEF Next, RunOne

------------------------------------------------------------------------------
(* Permits *)

\* A step that moves no chain into or out of a check or the queue.
LEMMA PermitsKept ==
  ASSUME Permits, UNCHANGED <<waiting, inFlight>>,
         \A s \in Services, n \in Chains :
           /\ at'[s][n] \in Holding <=> at[s][n] \in Holding
           /\ at'[s][n] = "waiting" <=> at[s][n] = "waiting"
  PROVE  Permits'
<1>1. HoldingChains' = HoldingChains
  BY DEF HoldingChains
<1>2. IsFiniteSet(HoldingChains)' /\ WaitOnce'
  BY <1>1 DEF Permits, WaitOnce
<1>3. /\ inFlight' = Cardinality(HoldingChains')
      /\ waiting' # <<>> => inFlight' = Concurrency
  BY <1>1 DEF Permits, PermitsAccounted
<1>4. \A s \in Services, n \in Chains :
        at'[s][n] = "waiting" <=> \E i \in DOMAIN waiting' : waiting'[i] = <<s, n>>
  BY DEF Permits, PermitsAccounted
<1>. QED  BY <1>2, <1>3, <1>4 DEF Permits, PermitsAccounted

\* acquire() takes a permit, or a place at the end of the queue.
LEMMA FirePermits ==
  ASSUME TypeOK, Permits, NEW s \in Services, NEW n \in Chains, Fire(s, n)
  PROVE  Permits'
<1>1. at[s][n] = "timer" /\ at[s][n] \notin Holding
  BY DEF Fire, Holding
<1>2. CASE inFlight < Concurrency /\ inFlight' = inFlight + 1 /\ Goto(s, n, "checking")
           /\ UNCHANGED waiting
  <2>1. \A t \in Services, m \in Chains :
          at'[t][m] = IF t = s /\ m = n THEN "checking" ELSE at[t][m]
    BY <1>2, Went DEF Places, Holding
  <2>2. HoldingChains' = HoldingChains \cup {<<s, n>>}
    BY <2>1 DEF HoldingChains, Holding
  <2>3. <<s, n>> \notin HoldingChains
    BY <1>1 DEF HoldingChains
  <2>4. IsFiniteSet(HoldingChains') /\ Cardinality(HoldingChains') = Cardinality(HoldingChains) + 1
    BY <2>2, <2>3, FS_AddElement, Zenon DEF Permits
  <2>5. waiting = <<>>
    BY <1>2 DEF Permits, PermitsAccounted, TypeOK
  <2>6. \A t \in Services, m \in Chains : at[t][m] # "waiting"
    BY <2>5 DEF Permits, PermitsAccounted
  <2>7. \A t \in Services, m \in Chains : at'[t][m] # "waiting"
    BY <2>1, <2>6
  <2>. QED
    BY <1>2, <2>4, <2>5, <2>7 DEF Permits, PermitsAccounted, WaitOnce
<1>3. CASE inFlight >= Concurrency /\ waiting' = Append(waiting, <<s, n>>)
           /\ Goto(s, n, "waiting") /\ UNCHANGED inFlight
  <2>1. \A t \in Services, m \in Chains :
          at'[t][m] = IF t = s /\ m = n THEN "waiting" ELSE at[t][m]
    BY <1>3, Went DEF Places
  <2>2. HoldingChains' = HoldingChains
    BY <1>1, <2>1 DEF HoldingChains, Holding
  <2>3. waiting \in Seq(Services \X Chains) /\ inFlight = Concurrency
    BY <1>3 DEF TypeOK
  <2>4. /\ DOMAIN waiting' = 1..(Len(waiting) + 1) /\ DOMAIN waiting = 1..Len(waiting)
        /\ Len(waiting) \in Nat
        /\ \A i \in 1..Len(waiting) : waiting'[i] = waiting[i]
        /\ waiting'[Len(waiting) + 1] = <<s, n>>
    BY <1>3, <2>3
  <2>5. \A i \in DOMAIN waiting : waiting[i] # <<s, n>>
    BY <1>1 DEF Permits, PermitsAccounted
  <2>6. WaitOnce'
    BY <2>4, <2>5 DEF Permits, WaitOnce
  <2>7. ASSUME NEW t \in Services, NEW m \in Chains
        PROVE  at'[t][m] = "waiting" <=> \E i \in DOMAIN waiting' : waiting'[i] = <<t, m>>
    <3>1. CASE t = s /\ m = n
      BY <2>1, <2>4, <3>1
    <3>2. CASE ~(t = s /\ m = n)
      <4>1. at[t][m] = "waiting" <=> \E i \in DOMAIN waiting : waiting[i] = <<t, m>>
        BY DEF Permits, PermitsAccounted
      <4>2. <<t, m>> # <<s, n>> /\ at'[t][m] = at[t][m]
        BY <2>1, <3>2
      <4>. QED  BY <2>4, <4>1, <4>2
    <3>. QED  BY <3>1, <3>2
  <2>. QED
    BY <1>3, <2>2, <2>3, <2>6, <2>7 DEF Permits, PermitsAccounted
<1>. QED  BY <1>2, <1>3 DEF Fire

\* release() frees the permit, or hands it to the first in the queue.
LEMMA ReleasePermits ==
  ASSUME TypeOK, Permits, NEW s \in Services, NEW n \in Chains, Release(s, n)
  PROVE  Permits'
<1>1. at[s][n] = "done" /\ <<s, n>> \in HoldingChains
  BY DEF Release, HoldingChains, Holding
<1>2. CASE waiting = <<>> /\ inFlight' = inFlight - 1 /\ Goto(s, n, "timer") /\ UNCHANGED waiting
  <2>1. \A t \in Services, m \in Chains :
          at'[t][m] = IF t = s /\ m = n THEN "timer" ELSE at[t][m]
    BY <1>2, Went DEF Places
  <2>2. HoldingChains' = HoldingChains \ {<<s, n>>}
    BY <2>1 DEF HoldingChains, Holding
  <2>3. IsFiniteSet(HoldingChains') /\ Cardinality(HoldingChains') = Cardinality(HoldingChains) - 1
    BY <1>1, <2>2, FS_RemoveElement, Zenon DEF Permits
  <2>4. \A t \in Services, m \in Chains : at[t][m] # "waiting"
    BY <1>2 DEF Permits, PermitsAccounted
  <2>5. \A t \in Services, m \in Chains : at'[t][m] # "waiting"
    BY <2>1, <2>4
  <2>. QED  BY <1>2, <2>3, <2>5 DEF Permits, PermitsAccounted, WaitOnce
<1>3. CASE /\ waiting # <<>> /\ waiting' = Tail(waiting) /\ UNCHANGED inFlight
           /\ at' = [at EXCEPT ![s][n] = "timer",
                               ![Head(waiting)[1]][Head(waiting)[2]] = "checking"]
  <2>1. PICK t \in Services, m \in Chains : Handed(s, n, t, m)
    BY <1>1, <1>3, Woken DEF Permits
  <2>2. HoldingChains' = (HoldingChains \ {<<s, n>>}) \cup {<<t, m>>}
    BY <2>1 DEF Handed, HoldingChains, Holding
  <2>3. <<t, m>> \notin HoldingChains
    BY <2>1 DEF Handed, HoldingChains, Holding
  <2> DEFINE Others == HoldingChains \ {<<s, n>>}
  <2>4. IsFiniteSet(Others) /\ Cardinality(Others) = Cardinality(HoldingChains) - 1
    BY <1>1, FS_RemoveElement, Zenon DEF Permits
  <2>5. <<t, m>> \notin Others
    BY <2>3
  <2>6. /\ IsFiniteSet(Others \cup {<<t, m>>})
        /\ Cardinality(Others \cup {<<t, m>>}) = Cardinality(Others) + 1
    BY <2>4, <2>5, FS_AddElement, Zenon
  <2>7. inFlight = Cardinality(HoldingChains) /\ inFlight = Concurrency /\ inFlight \in Int
    BY <1>3 DEF Permits, PermitsAccounted
  <2>8. IsFiniteSet(HoldingChains') /\ Cardinality(HoldingChains') = inFlight
    BY <2>2, <2>4, <2>6, <2>7
  <2>9. waiting \in Seq(Services \X Chains)
    BY DEF TypeOK
  <2>10. /\ DOMAIN waiting = 1..Len(waiting) /\ DOMAIN waiting' = 1..(Len(waiting) - 1)
         /\ Len(waiting) \in Nat \ {0} /\ waiting[1] = <<t, m>>
         /\ \A i \in 1..(Len(waiting) - 1) : waiting'[i] = waiting[i + 1]
    BY <1>3, <2>1, <2>9 DEF Handed
  <2>11. WaitOnce'
    <3>1. SUFFICES ASSUME NEW i \in 1..(Len(waiting) - 1), NEW j \in 1..(Len(waiting) - 1),
                          waiting[i + 1] = waiting[j + 1]
                   PROVE  i = j
      BY <2>10 DEF WaitOnce
    <3>2. i + 1 \in DOMAIN waiting /\ j + 1 \in DOMAIN waiting
      BY <2>10
    <3>3. i + 1 = j + 1
      BY <3>1, <3>2, Zenon DEF Permits, WaitOnce
    <3>. QED  BY <3>3
  <2>12.
       \A i \in DOMAIN waiting' : waiting'[i] # <<t, m>>
    BY <2>10 DEF Permits, WaitOnce
  <2>13. ASSUME NEW u \in Services, NEW k \in Chains
         PROVE  at'[u][k] = "waiting" <=> \E i \in DOMAIN waiting' : waiting'[i] = <<u, k>>
    <3>1. at[u][k] = "waiting" <=> \E i \in DOMAIN waiting : waiting[i] = <<u, k>>
      BY DEF Permits, PermitsAccounted
    <3>2. CASE u = t /\ k = m
      BY <2>1, <2>12, <3>2 DEF Handed
    <3>3. CASE u = s /\ k = n
      <4>1. at'[u][k] # "waiting" /\ at[u][k] # "waiting"
        BY <1>1, <2>1, <3>3 DEF Handed
      <4>2. ASSUME NEW j \in DOMAIN waiting', waiting'[j] = <<u, k>> PROVE FALSE
        <5>1. j + 1 \in DOMAIN waiting /\ waiting[j + 1] = <<u, k>>
          BY <2>10, <4>2
        <5>. QED  BY <3>1, <4>1, <5>1, Zenon
      <4>. QED  BY <4>1, <4>2
    <3>4. CASE ~(u = t /\ k = m) /\ ~(u = s /\ k = n)
      <4>1. at'[u][k] = at[u][k] /\ waiting[1] # <<u, k>>
        BY <2>1, <2>10, <3>4 DEF Handed
      <4>2. ASSUME NEW i \in DOMAIN waiting, waiting[i] = <<u, k>>
            PROVE  \E j \in DOMAIN waiting' : waiting'[j] = <<u, k>>
        <5>1. i - 1 \in DOMAIN waiting' /\ waiting'[i - 1] = <<u, k>>
          BY <2>10, <4>1, <4>2
        <5>. QED  BY <5>1
      <4>3. ASSUME NEW j \in DOMAIN waiting', waiting'[j] = <<u, k>>
            PROVE  \E i \in DOMAIN waiting : waiting[i] = <<u, k>>
        <5>1. j + 1 \in DOMAIN waiting /\ waiting[j + 1] = <<u, k>>
          BY <2>10, <4>3
        <5>. QED  BY <5>1
      <4>. QED  BY <3>1, <4>1, <4>2, <4>3
    <3>. QED  BY <3>2, <3>3, <3>4
  <2>. QED
    BY <1>3, <2>7, <2>8, <2>11, <2>13 DEF Permits, PermitsAccounted
<1>. QED  BY <1>2, <1>3 DEF Release


LEMMA PermitsStep ==
  ASSUME TypeOK, Permits, [Next]_mvars PROVE Permits'
<1> USE DEF sched
<1>1. CASE BootStart
  <2>1. \A s \in Services, n \in Chains :
          at'[s][n] = at[s][n] \/ (at[s][n] = "none" /\ at'[s][n] = "timer")
    <3>1. /\ at \in [Services -> [Chains -> Places]] /\ config \in SUBSET Services
          /\ Schedule(at, config)
      BY <1>1 DEF BootStart, TypeOK
    <3>. QED  BY <3>1, Scheduled, Zenon
  <2>2. UNCHANGED <<waiting, inFlight>>
    BY <1>1 DEF BootStart
  <2>. QED  BY <2>1, <2>2, PermitsKept DEF Holding
<1>2. ASSUME NEW cfg \in SUBSET Services, Reload(cfg) PROVE Permits'
  <2>1. \A s \in Services, n \in Chains :
          \/ at'[s][n] = Stopped(at)[s][n]
          \/ Stopped(at)[s][n] = "none" /\ at'[s][n] = "timer"
    BY <1>2, Scheduled, StoppedPlaces DEF Reload
  <2>2. \A s \in Services, n \in Chains :
          /\ at'[s][n] # "waiting"
          /\ at'[s][n] \in Holding <=> at[s][n] \in Holding
    BY <2>1, StoppedPlaces DEF Holding
  <2>3. HoldingChains' = HoldingChains
    BY <2>2 DEF HoldingChains
  <2>4. waiting' = <<>> /\ UNCHANGED inFlight
    BY <1>2 DEF Reload
  <2>. QED  BY <2>2, <2>3, <2>4 DEF Permits, PermitsAccounted, WaitOnce
<1>3. CASE Restart
  <2>1. \A s \in Services, n \in Chains : at'[s][n] \in {"none", "timer"}
    <3>1. config \in SUBSET Services /\ Schedule(Nowhere, config)
      BY <1>3 DEF Restart, TypeOK
    <3>2. \A s \in Services, n \in Chains :
            \/ at'[s][n] = Nowhere[s][n]
            \/ Nowhere[s][n] = "none" /\ at'[s][n] = "timer"
      BY <3>1, Scheduled, NowhereType, Zenon
    <3>3. \A s \in Services, n \in Chains : Nowhere[s][n] = "none"
      BY DEF Nowhere
    <3>. QED  BY <3>2, <3>3
  <2>2. HoldingChains' = {}
    BY <2>1 DEF HoldingChains, Holding
  <2>3. IsFiniteSet(HoldingChains') /\ Cardinality(HoldingChains') = 0
    BY <2>2, FS_EmptySet
  <2>4. waiting' = <<>> /\ inFlight' = 0
    BY <1>3 DEF Restart
  <2>. QED  BY <2>1, <2>3, <2>4 DEF Permits, PermitsAccounted, WaitOnce
<1>4. ASSUME NEW s \in Services, NEW n \in Chains, NEW p \in Holding,
             at[s][n] \in Holding, Goto(s, n, p), UNCHANGED <<waiting, inFlight>>
      PROVE  Permits'
  <2>1. p \in Places
    BY DEF Places
  <2>2. \A t \in Services, m \in Chains :
          at'[t][m] = IF t = s /\ m = n THEN p ELSE at[t][m]
    BY <1>4, <2>1, Went
  <2>. QED  BY <1>4, <2>2, PermitsKept DEF Holding
<1>5. ASSUME NEW s \in Services, NEW n \in Chains, NEW result \in Results, Outcome(s, n, result)
      PROVE  Permits'
  <2>1. IncidentStep(status[s], NextStatus(s, result)) \in Holding /\ "done" \in Holding
    BY DEF IncidentStep, Holding
  <2>2. at[s][n] \in Holding /\ UNCHANGED <<waiting, inFlight>>
    BY <1>5 DEF Outcome, Holding
  <2>3. \/ Goto(s, n, IncidentStep(status[s], NextStatus(s, result)))
        \/ Goto(s, n, "done")
    BY <1>5 DEF Outcome
  <2>. QED  BY <1>4, <2>1, <2>2, <2>3, Zenon
<1>6. ASSUME NEW s \in Services, NEW n \in Chains,
             \/ OpenRead(s, n) \/ OpenInsert(s, n) \/ CloseUpdate(s, n) \/ Crash(s, n)
      PROVE  Permits'
  <2>1. Goto(s, n, "done") \/ Goto(s, n, "inserting")
    BY <1>6 DEF OpenRead, OpenInsert, CloseUpdate, Crash
  <2>2. at[s][n] \in Holding /\ UNCHANGED <<waiting, inFlight>>
    BY <1>6 DEF OpenRead, OpenInsert, CloseUpdate, Crash, Holding
  <2>3. "done" \in Holding /\ "inserting" \in Holding
    BY DEF Holding
  <2>. QED  BY <1>4, <2>1, <2>2, <2>3, Zenon
<1>7. CASE (\E s \in Services : Resolve(s)) \/ UNCHANGED mvars
  <2>1. UNCHANGED <<at, waiting, inFlight>>
    BY <1>7 DEF Resolve, mvars
  <2>. QED  BY <2>1, PermitsKept
<1>. QED
  BY <1>1, <1>2, <1>3, <1>5, <1>6, <1>7, FirePermits, ReleasePermits DEF Next, RunOne

------------------------------------------------------------------------------
(* Incidents *)

Incidents == OneWriter /\ WriterKnows /\ OneOpenIncident /\ Tracked

LEMMA RemovedStep ==
  ASSUME TypeOK, Removed, [Next]_mvars PROVE Removed'
<1> USE DEF sched, flap
<1>1. ASSUME NEW cfg \in SUBSET Services, Reload(cfg) PROVE Removed'
  BY <1>1 DEF Reload, Fresh, Removed
<1>2. CASE Restart
  BY <1>2 DEF Restart, Fresh, Removed
<1>3. ASSUME NEW s \in Services, NEW n \in Chains, NEW result \in Results, Outcome(s, n, result)
      PROVE  Removed'
  <2>1. status \in [Services -> ServiceStatus] /\ UNCHANGED config
    BY <1>3 DEF TypeOK, Outcome
  <2>2. \A t \in Services \ config : status'[t] = status[t]
    BY <1>3, <2>1 DEF Outcome
  <2>. QED  BY <2>1, <2>2 DEF Removed
<1>4. CASE UNCHANGED <<config, status>>
  BY <1>4 DEF Removed
<1>. QED
  BY <1>1, <1>2, <1>3, <1>4
  DEF Next, RunOne, BootStart, Fire, OpenRead, OpenInsert, CloseUpdate, Crash, Release,
      Resolve, mvars

\* What a step that writes no incident and changes no status leaves as it is:
\* no chain gets past its outcome.
LEMMA SameWriters ==
  ASSUME Incidents, UNCHANGED <<driver, status, open, excused>>,
         \A s \in Services, n \in Chains :
           \/ at'[s][n] = at[s][n]
           \/ at[s][n] \notin {"opening", "inserting", "closing"} /\ at'[s][n] \notin Past
  PROVE  Incidents'
<1>1. OneWriter'
  BY DEF Incidents, OneWriter
<1>2. WriterKnows'
  BY DEF Incidents, WriterKnows, Past
<1>3. OneOpenIncident'
  BY DEF Incidents, OneOpenIncident
<1>4. \A s \in Services, n \in Chains :
        at'[s][n] \in {"opening", "inserting", "closing"}
          <=> at[s][n] \in {"opening", "inserting", "closing"}
  BY DEF Past
<1>5. Tracked'
  BY <1>4 DEF Incidents, Tracked
<1>. QED  BY <1>1, <1>2, <1>3, <1>5 DEF Incidents

\* The chain that writes goes on to its next statement, or ends: no other
\* chain is past its outcome.
LEMMA WriterMoves ==
  ASSUME TypeOK, OneWriter, NEW s \in Services, NEW n \in Chains, NEW p \in Past,
         Goto(s, n, p), at[s][n] \in Past \/ (at[s][n] = "checking" /\ Quiet),
         driver = "sqlite"
  PROVE  /\ at'[s][n] = p
         /\ \A t \in Services, m \in Chains :
              t # s \/ m # n => at'[t][m] = at[t][m] /\ at[t][m] \notin Past
<1>1. p \in Places
  BY DEF Past, Places, Holding
<1>2. \A t \in Services, m \in Chains : at'[t][m] = IF t = s /\ m = n THEN p ELSE at[t][m]
  BY <1>1, Went
<1>3. \A t \in Services, m \in Chains : t # s \/ m # n => at[t][m] \notin Past
  BY DEF OneWriter, Quiet, Past
<1>. QED  BY <1>2, <1>3

LEMMA QuietMeans ==
  ASSUME Quiet, driver = "sqlite"
  PROVE  \A s \in Services, n \in Chains : at[s][n] \notin Past
BY DEF Quiet, Past

\* With SQLite, after a step of the chain that writes.
LEMMA WriterStep ==
  ASSUME TypeOK, Incidents, driver = "sqlite", UNCHANGED driver,
         NEW s \in Services, NEW n \in Chains, NEW p \in Past,
         Goto(s, n, p), at[s][n] \in Past \/ (at[s][n] = "checking" /\ Quiet),
         \A t \in Services \ {s} :
           /\ status'[t] = status[t] /\ open'[t] = open[t]
           /\ t \in excused => t \in excused',
         p \in {"opening", "inserting"} => status'[s] \in Bad,
         p = "inserting" => open'[s] = 0,
         p = "closing" => status'[s] \notin Bad,
         open'[s] <= 1,
         p = "done" /\ s \notin excused' => (open'[s] > 0 <=> status'[s] \in Bad)
  PROVE  Incidents'
<1>1. /\ at'[s][n] = p
      /\ \A t \in Services, m \in Chains :
           t # s \/ m # n => at'[t][m] = at[t][m] /\ at[t][m] \notin Past
  BY WriterMoves DEF Incidents
<1>2. \A t \in Services, m \in Chains : t # s \/ m # n => at'[t][m] \notin Past
  BY <1>1
<1>3. OneWriter'
  BY <1>2 DEF OneWriter
<1>4. WriterKnows'
  BY <1>1, <1>2 DEF WriterKnows, Past
<1>5. OneOpenIncident'
  BY DEF Incidents, OneOpenIncident
<1>6. Tracked'
  <2>1. SUFFICES ASSUME NEW t \in Services, t \notin excused',
                        \A m \in Chains : at'[t][m] \notin {"opening", "inserting", "closing"}
                 PROVE  open'[t] > 0 <=> status'[t] \in Bad
    BY DEF Tracked
  <2>2. CASE t = s
    BY <1>1, <2>1, <2>2 DEF Past
  <2>3. CASE t # s
    <3>1. \A m \in Chains : at[t][m] \notin Past
      BY <1>1, <2>3
    <3>2. open[t] > 0 <=> status[t] \in Bad
      BY <2>1, <2>3, <3>1 DEF Incidents, Tracked, Past
    <3>. QED  BY <2>3, <3>2
  <2>. QED  BY <2>2, <2>3
<1>. QED  BY <1>3, <1>4, <1>5, <1>6 DEF Incidents


LEMMA ReloadIncidents ==
  ASSUME TypeOK, Removed, Incidents, driver = "sqlite",
         NEW cfg \in SUBSET Services, Reload(cfg)
  PROVE  Incidents'
<1>1. \A s \in Services, n \in Chains : at[s][n] \notin Past
  BY QuietMeans DEF Reload
<1>2. \A s \in Services, n \in Chains :
        \/ at'[s][n] = Stopped(at)[s][n]
        \/ Stopped(at)[s][n] = "none" /\ at'[s][n] = "timer"
  BY Scheduled, StoppedPlaces DEF Reload
<1>3. \A s \in Services, n \in Chains : at'[s][n] \notin Past
  BY <1>1, <1>2, StoppedPlaces DEF Past
<1>4. UNCHANGED <<driver, open>>
  BY DEF Reload
<1>5. OneWriter' /\ WriterKnows' /\ OneOpenIncident'
  BY <1>3, <1>4 DEF OneWriter, WriterKnows, Past, Incidents, OneOpenIncident
<1>6. ASSUME NEW s \in Services, s \notin excused' PROVE open[s] > 0 <=> status'[s] \in Bad
  <2>1. s \notin excused /\ (s \in config \ cfg => ~(open[s] > 0))
    BY <1>6 DEF Reload, Excuse
  <2>2. open[s] > 0 <=> status[s] \in Bad
    BY <1>1, <2>1 DEF Incidents, Tracked, Past
  <2>3. status'[s] = IF s \in Services \ (config \cap cfg) THEN "unknown" ELSE status[s]
    BY DEF Reload, Fresh
  <2>4. CASE s \in config \cap cfg
    BY <2>2, <2>3, <2>4
  <2>5. CASE s \notin config
    BY <2>2, <2>3, <2>5 DEF Removed, Bad
  <2>6. CASE s \in config \ cfg
    BY <2>1, <2>3, <2>6 DEF Bad
  <2>. QED  BY <2>4, <2>5, <2>6
<1>. QED  BY <1>4, <1>5, <1>6 DEF Incidents, Tracked

LEMMA RestartIncidents ==
  ASSUME TypeOK, Incidents, driver = "sqlite", Restart PROVE Incidents'
<1>1. \A s \in Services, n \in Chains : at'[s][n] \in {"none", "timer"}
  <2>1. config \in SUBSET Services /\ Schedule(Nowhere, config)
    BY DEF Restart, TypeOK
  <2>2. \A s \in Services, n \in Chains :
          \/ at'[s][n] = Nowhere[s][n]
          \/ Nowhere[s][n] = "none" /\ at'[s][n] = "timer"
    BY <2>1, Scheduled, NowhereType, Zenon
  <2>3. \A s \in Services, n \in Chains : Nowhere[s][n] = "none"
    BY DEF Nowhere
  <2>. QED  BY <2>2, <2>3
<1>2. UNCHANGED <<driver, open>>
  BY DEF Restart
<1>3. OneWriter' /\ WriterKnows' /\ OneOpenIncident'
  BY <1>1, <1>2 DEF OneWriter, WriterKnows, Past, Incidents, OneOpenIncident
<1>4. \A s \in Services : status'[s] \notin Bad /\ (s \notin excused' => ~(open[s] > 0))
  BY DEF Restart, Fresh, Excuse, Bad
<1>. QED  BY <1>2, <1>3, <1>4 DEF Incidents, Tracked

LEMMA OutcomeIncidents ==
  ASSUME TypeOK, Incidents, driver = "sqlite",
         NEW s \in Services, NEW n \in Chains, NEW result \in Results, Outcome(s, n, result)
  PROVE  Incidents'
<1> DEFINE after == NextStatus(s, result)
<1>1. /\ at[s][n] = "checking" /\ Quiet
      /\ UNCHANGED <<driver, open, excused>>
  BY DEF Outcome
<1>2. \A m \in Chains : at[s][m] \notin Past
  BY <1>1, QuietMeans
<1>3. s \notin excused => (open[s] > 0 <=> status[s] \in Bad)
  BY <1>2 DEF Incidents, Tracked, Past
<1>4. open[s] <= 1
  BY DEF Incidents, OneOpenIncident
<1>5. CASE s \notin config /\ Goto(s, n, "done") /\ UNCHANGED flap
  <2>1. "done" \in Past /\ UNCHANGED status
    BY <1>5 DEF Past, flap
  <2>. QED  BY <1>1, <1>3, <1>4, <1>5, <2>1, WriterStep
<1>6. CASE s \in config /\ status' = [status EXCEPT ![s] = after]
           /\ Goto(s, n, IncidentStep(status[s], after))
  <2>1. status'[s] = after /\ \A t \in Services \ {s} : status'[t] = status[t]
    BY <1>6 DEF TypeOK
  <2> HIDE DEF after
  <2>2. CASE status[s] \notin Bad /\ after \in Bad
    <3>1. Goto(s, n, "opening") /\ "opening" \in Past
      BY <1>6, <2>2 DEF IncidentStep, Past
    <3>. QED  BY <1>1, <1>4, <2>1, <2>2, <3>1, WriterStep
  <2>3. CASE status[s] \in Bad /\ after \notin Bad
    <3>1. Goto(s, n, "closing") /\ "closing" \in Past
      BY <1>6, <2>3 DEF IncidentStep, Past
    <3>. QED  BY <1>1, <1>4, <2>1, <2>3, <3>1, WriterStep
  <2>4. CASE status[s] \in Bad <=> after \in Bad
    <3>1. Goto(s, n, "done") /\ "done" \in Past
      BY <1>6, <2>4 DEF IncidentStep, Past
    <3>. QED  BY <1>1, <1>3, <1>4, <2>1, <2>4, <3>1, WriterStep
  <2>. QED  BY <2>2, <2>3, <2>4
<1>. QED  BY <1>5, <1>6 DEF Outcome

\* The statements of open() and close(), and an error in one of them.
LEMMA WritesIncidents ==
  ASSUME TypeOK, Incidents, driver = "sqlite", NEW s \in Services, NEW n \in Chains,
         \/ OpenRead(s, n) \/ OpenInsert(s, n) \/ CloseUpdate(s, n) \/ Crash(s, n)
  PROVE  Incidents'
<1> USE DEF flap
<1>1. /\ status \in [Services -> ServiceStatus] /\ open \in [Services -> Nat]
      /\ open[s] \in Nat /\ open[s] <= 1
  BY DEF TypeOK, Incidents, OneOpenIncident
<1>2. "done" \in Past /\ "inserting" \in Past
  BY DEF Past
<1>3. CASE OpenRead(s, n)
  <2>1. at[s][n] = "opening" /\ at[s][n] \in Past /\ UNCHANGED <<driver, status, open>>
    BY <1>3 DEF OpenRead, Past
  <2>2. status[s] \in Bad
    BY <2>1 DEF Incidents, WriterKnows
  <2>3. \A t \in Services \ {s} : t \in excused => t \in excused'
    BY <1>3 DEF OpenRead
  <2>4. CASE open[s] > 0
    <3>1. Goto(s, n, "done")
      BY <1>3, <2>4 DEF OpenRead
    <3>. QED  BY <1>1, <1>2, <2>1, <2>2, <2>3, <2>4, <3>1, WriterStep
  <2>5. CASE ~(open[s] > 0)
    <3>1. Goto(s, n, "inserting") /\ open[s] = 0
      BY <1>1, <1>3, <2>5 DEF OpenRead
    <3>. QED  BY <1>1, <1>2, <2>1, <2>2, <2>3, <3>1, WriterStep
  <2>. QED  BY <2>4, <2>5
<1>4. CASE OpenInsert(s, n)
  <2>1. at[s][n] = "inserting" /\ at[s][n] \in Past /\ UNCHANGED <<driver, status>>
    BY <1>4 DEF OpenInsert, Past
  <2>2. status[s] \in Bad /\ open[s] = 0
    BY <2>1 DEF Incidents, WriterKnows
  <2>3. open'[s] = 1 /\ \A t \in Services \ {s} : open'[t] = open[t]
    BY <1>1, <1>4, <2>2 DEF OpenInsert
  <2>4. Goto(s, n, "done") /\ \A t \in Services \ {s} : t \in excused => t \in excused'
    BY <1>4 DEF OpenInsert
  <2>. QED  BY <1>2, <2>1, <2>2, <2>3, <2>4, WriterStep
<1>5. CASE CloseUpdate(s, n)
  <2>1. at[s][n] = "closing" /\ at[s][n] \in Past /\ UNCHANGED <<driver, status>>
    BY <1>5 DEF CloseUpdate, Past
  <2>2. status[s] \notin Bad
    BY <2>1 DEF Incidents, WriterKnows
  <2>3. open'[s] = 0 /\ \A t \in Services \ {s} : open'[t] = open[t]
    BY <1>1, <1>5 DEF CloseUpdate
  <2>4. Goto(s, n, "done") /\ \A t \in Services \ {s} : t \in excused => t \in excused'
    BY <1>5 DEF CloseUpdate
  <2>. QED  BY <1>2, <2>1, <2>2, <2>3, <2>4, WriterStep
<1>6. CASE Crash(s, n)
  <2>1. /\ at[s][n] \in Past \/ (at[s][n] = "checking" /\ Quiet)
        /\ UNCHANGED <<driver, status, open>> /\ Goto(s, n, "done")
    BY <1>6 DEF Crash, Past
  <2>2. \A t \in Services : t \in excused => t \in excused'
    BY <1>6 DEF Crash
  <2>3. s \notin excused' => (open[s] > 0 <=> status[s] \in Bad)
    <3>1. CASE at[s][n] = "checking"
      <4>1. \A m \in Chains : at[s][m] \notin Past
        BY <1>6, <3>1, QuietMeans DEF Crash
      <4>. QED  BY <2>2, <4>1 DEF Incidents, Tracked, Past
    <3>2. CASE at[s][n] # "checking"
      BY <1>6, <3>2 DEF Crash
    <3>. QED  BY <3>1, <3>2
  <2>. QED  BY <1>1, <1>2, <2>1, <2>2, <2>3, WriterStep
<1>. QED  BY <1>3, <1>4, <1>5, <1>6

LEMMA ResolveIncidents ==
  ASSUME TypeOK, Incidents, driver = "sqlite", NEW s \in Services, Resolve(s)
  PROVE  Incidents'
<1>1. \A t \in Services, n \in Chains : at[t][n] \notin Past
  BY QuietMeans DEF Resolve
<1>2. UNCHANGED <<driver, at, status>>
  BY DEF Resolve, sched, flap
<1>3. OneWriter' /\ WriterKnows'
  BY <1>1, <1>2 DEF OneWriter, WriterKnows, Past
<1>4. \A t \in Services : open'[t] <= 1 /\ (t # s => open'[t] = open[t])
  BY DEF Resolve, TypeOK, Incidents, OneOpenIncident
<1>5. OneOpenIncident'
  BY <1>4 DEF OneOpenIncident
<1>6. Tracked'
  BY <1>2, <1>4 DEF Resolve, Incidents, Tracked
<1>. QED  BY <1>3, <1>5, <1>6 DEF Incidents

LEMMA IncidentsStep ==
  ASSUME TypeOK, Permits, Removed, Incidents, [Next]_mvars PROVE Incidents'
<1> USE DEF sched, flap
<1>1. UNCHANGED driver
  BY DEF Next, RunOne, BootStart, Reload, Restart, Fire, Outcome, OpenRead, OpenInsert,
         CloseUpdate, Crash, Release, Resolve, mvars
<1>2. CASE driver # "sqlite"
  BY <1>1, <1>2 DEF Incidents, OneWriter, WriterKnows, OneOpenIncident, Tracked
<1>3. CASE driver = "sqlite"
  <2>1. CASE BootStart
    <3>1. /\ at \in [Services -> [Chains -> Places]] /\ config \in SUBSET Services
          /\ Schedule(at, config)
      BY <2>1 DEF BootStart, TypeOK
    <3>2. \A s \in Services, n \in Chains :
            at'[s][n] = at[s][n] \/ (at[s][n] = "none" /\ at'[s][n] = "timer")
      BY <3>1, Scheduled, Zenon
    <3>3. UNCHANGED <<driver, status, open, excused>>
      BY <2>1 DEF BootStart
    <3>. QED  BY <3>2, <3>3, SameWriters DEF Past
  <2>2. ASSUME NEW s \in Services, NEW n \in Chains, Fire(s, n) PROVE Incidents'
    <3>1. (Goto(s, n, "checking") \/ Goto(s, n, "waiting")) /\ at[s][n] = "timer"
      BY <2>2 DEF Fire
    <3>2. "checking" \in Places /\ "waiting" \in Places
      BY DEF Places, Holding
    <3>3. \A t \in Services, m \in Chains :
            \/ at'[t][m] = at[t][m]
            \/ at[t][m] = "timer" /\ at'[t][m] \in {"checking", "waiting"}
      BY <3>1, <3>2, Went
    <3>4. UNCHANGED <<driver, status, open, excused>>
      BY <2>2 DEF Fire
    <3>. QED  BY <3>3, <3>4, SameWriters DEF Past
  <2>3. ASSUME NEW s \in Services, NEW n \in Chains, Release(s, n) PROVE Incidents'
    <3>1. at[s][n] = "done" /\ UNCHANGED <<driver, status, open, excused>>
      BY <2>3 DEF Release
    <3>2. \A t \in Services, m \in Chains :
            \/ at'[t][m] = at[t][m]
            \/ at[t][m] \in {"done", "waiting"} /\ at'[t][m] \in {"timer", "checking"}
      <4>1. CASE waiting = <<>> /\ Goto(s, n, "timer")
        <5>1. "timer" \in Places
          BY DEF Places
        <5>. QED  BY <3>1, <4>1, <5>1, Went
      <4>2. CASE waiting # <<>> /\ at' = [at EXCEPT ![s][n] = "timer",
                                            ![Head(waiting)[1]][Head(waiting)[2]] = "checking"]
        <5>1. PICK t \in Services, m \in Chains : Handed(s, n, t, m)
          BY <3>1, <4>2, Woken DEF Permits
        <5>. QED  BY <3>1, <5>1 DEF Handed
      <4>. QED  BY <2>3, <4>1, <4>2 DEF Release
    <3>. QED  BY <3>1, <3>2, SameWriters DEF Past
  <2>4. CASE UNCHANGED mvars
    BY <2>4, SameWriters DEF mvars
  <2>. QED
    BY <1>3, <2>1, <2>2, <2>3, <2>4, ReloadIncidents, RestartIncidents, OutcomeIncidents,
       WritesIncidents, ResolveIncidents
    DEF Next, RunOne
<1>. QED  BY <1>2, <1>3


------------------------------------------------------------------------------
(* Flap protection *)

\* One more result of a kind, when the history keeps the last Span of them.
LEMMA LatestEnds ==
  ASSUME TypeOK, NEW s \in Services, Len(recent[s]) <= Span, NEW result \in Results,
         NEW S, result \in S, NEW c \in Nat, LastAre(recent[s], c, S),
         NEW d \in Nat, d <= c + 1, d <= Span
  PROVE  LastAre(Latest(s, result), d, S)
<1> DEFINE all == Append(recent[s], result)
<1> DEFINE last == Latest(s, result)
<1>1. recent[s] \in Seq(Results) /\ Len(recent[s]) \in Nat /\ Span \in Nat
  BY DEF TypeOK, Span
<1>2. /\ all \in Seq(Results) /\ Len(all) = Len(recent[s]) + 1
      /\ \A i \in 1..Len(recent[s]) : all[i] = recent[s][i]
      /\ all[Len(recent[s]) + 1] = result
  BY <1>1
<1>3. ASSUME NEW j \in (Len(all) - d + 1)..Len(all) PROVE j \in 1..Len(all) => all[j] \in S
  <2>1. CASE j = Len(all)
    BY <1>2, <2>1
  <2>2. CASE j # Len(all) /\ j \in 1..Len(all)
    <3>1. j \in (Len(recent[s]) - c + 1)..Len(recent[s]) /\ j \in 1..Len(recent[s])
      BY <1>1, <1>2, <2>2
    <3>2. recent[s][j] \in S
      BY <3>1 DEF LastAre
    <3>. QED  BY <1>2, <3>1, <3>2
  <2>. QED  BY <2>1, <2>2
<1>4. Len(recent[s]) >= c
  BY DEF LastAre
<1>5. CASE Len(all) > Span
  <2>1. last = Tail(all)
    BY <1>5 DEF Latest
  <2>2. /\ Len(last) = Len(recent[s]) /\ Len(last) >= d
        /\ \A i \in 1..Len(last) : last[i] = all[i + 1]
    BY <1>1, <1>2, <1>5, <2>1
  <2> HIDE DEF all, last
  <2>3. ASSUME NEW i \in (Len(last) - d + 1)..Len(last) PROVE last[i] \in S
    <3>1. i + 1 \in (Len(all) - d + 1)..Len(all) /\ i + 1 \in 1..Len(all) /\ i \in 1..Len(last)
      BY <1>1, <1>2, <2>2
    <3>. QED  BY <1>3, <2>2, <3>1
  <2>. QED  BY <2>2, <2>3 DEF LastAre, last
<1>6. CASE ~(Len(all) > Span)
  <2>1. last = all
    BY <1>6 DEF Latest
  <2>2. Len(all) >= d
    BY <1>1, <1>2, <1>4
  <2> HIDE DEF all, last
  <2>3. ASSUME NEW i \in (Len(all) - d + 1)..Len(all) PROVE all[i] \in S
    <3>1. i \in 1..Len(all)
      BY <1>1, <1>2, <2>2
    <3>. QED  BY <1>3, <3>1
  <2>4. LastAre(all, d, S)
    BY <2>2, <2>3 DEF LastAre
  <2>. QED  BY <2>1, <2>4 DEF last
<1>. QED  BY <1>5, <1>6

LEMMA LatestLength ==
  ASSUME TypeOK, NEW s \in Services, Len(recent[s]) <= Span, NEW result \in Results
  PROVE  Len(Latest(s, result)) <= Span
<1>1. recent[s] \in Seq(Results) /\ Span \in Nat
  BY DEF TypeOK, Span
<1>2. Append(recent[s], result) \in Seq(Results)
      /\ Len(Append(recent[s], result)) = Len(recent[s]) + 1
  BY <1>1
<1>3. CASE Len(Append(recent[s], result)) > Span
  BY <1>1, <1>2, <1>3 DEF Latest
<1>4. CASE ~(Len(Append(recent[s], result)) > Span)
  BY <1>1, <1>2, <1>4 DEF Latest
<1>. QED  BY <1>3, <1>4

\* What a ServiceState counts after a result, and on what it changes its status.
LEMMA CountedAfter ==
  ASSUME TypeOK, Counted, NEW s \in Services, NEW result \in Results
  PROVE  /\ Len(Latest(s, result)) <= Span
         /\ LastAre(Latest(s, result), BadAfter(s, result), {"degraded", "bad"})
         /\ LastAre(Latest(s, result), GoodAfter(s, result), {"good"})
<1>1. /\ Len(recent[s]) <= Span /\ bad[s] \in 0..Failures /\ good[s] \in 0..Recoveries
      /\ LastAre(recent[s], bad[s], {"degraded", "bad"})
      /\ LastAre(recent[s], good[s], {"good"})
  BY DEF TypeOK, Counted
<1>2. Failures <= Span /\ Recoveries <= Span /\ Span \in Nat /\ Span >= 1
  BY DEF Span
<1>3. Len(Latest(s, result)) <= Span /\ Len(Latest(s, result)) \in Nat
  BY <1>1, LatestLength, ResultTypes
<1>4. LastAre(Latest(s, result), 0, {"degraded", "bad"}) /\ LastAre(Latest(s, result), 0, {"good"})
  BY <1>3 DEF LastAre
<1>5. CASE result = "good"
  <2>1. BadAfter(s, result) = 0 /\ GoodAfter(s, result) = Least(good[s] + 1, Recoveries)
    BY <1>5 DEF BadAfter, GoodAfter
  <2>2. /\ GoodAfter(s, result) \in Nat /\ GoodAfter(s, result) <= good[s] + 1
        /\ GoodAfter(s, result) <= Span /\ good[s] \in Nat
    BY <1>1, <1>2, <2>1 DEF Least
  <2>3. LastAre(Latest(s, result), GoodAfter(s, result), {"good"})
    BY <1>1, <1>5, <2>2, LatestEnds
  <2>. QED  BY <1>3, <1>4, <2>1, <2>3
<1>6. CASE result # "good"
  <2>1. GoodAfter(s, result) = 0 /\ BadAfter(s, result) = Least(bad[s] + 1, Failures)
    BY <1>6 DEF BadAfter, GoodAfter
  <2>2. /\ BadAfter(s, result) \in Nat /\ BadAfter(s, result) <= bad[s] + 1
        /\ BadAfter(s, result) <= Span /\ bad[s] \in Nat
    BY <1>1, <1>2, <2>1 DEF Least
  <2>3. result \in {"degraded", "bad"}
    BY <1>6 DEF Results
  <2>4. LastAre(Latest(s, result), BadAfter(s, result), {"degraded", "bad"})
    BY <1>1, <2>2, <2>3, LatestEnds
  <2>. QED  BY <1>3, <1>4, <2>1, <2>4
<1>. QED  BY <1>5, <1>6

LEMMA FreshCounted ==
  ASSUME TypeOK, Counted, NEW S \in SUBSET Services, Fresh(S) PROVE Counted'
<1>1. SUFFICES ASSUME NEW s \in Services
               PROVE  /\ Len(recent'[s]) <= Span
                      /\ LastAre(recent'[s], bad'[s], {"degraded", "bad"})
                      /\ LastAre(recent'[s], good'[s], {"good"})
  BY DEF Counted
<1>2. Span \in Nat
  BY DEF Span
<1>3. CASE s \in S
  BY <1>2, <1>3 DEF Fresh, LastAre
<1>4. CASE s \notin S
  <2>1. recent'[s] = recent[s] /\ bad'[s] = bad[s] /\ good'[s] = good[s]
    BY <1>4 DEF Fresh
  <2>. QED  BY <2>1 DEF Counted
<1>. QED  BY <1>3, <1>4

LEMMA CountedStep ==
  ASSUME TypeOK, Counted, [Next]_mvars PROVE Counted'
<1> USE DEF flap
<1>1. ASSUME NEW cfg \in SUBSET Services, Reload(cfg) PROVE Counted'
  BY <1>1, FreshCounted DEF Reload
<1>2. CASE Restart
  BY <1>2, FreshCounted DEF Restart
<1>3. ASSUME NEW s \in Services, NEW n \in Chains, NEW result \in Results, Outcome(s, n, result)
      PROVE  Counted'
  <2>1. CASE UNCHANGED flap
    BY <2>1 DEF Counted
  <2>2. CASE /\ bad' = [bad EXCEPT ![s] = BadAfter(s, result)]
             /\ good' = [good EXCEPT ![s] = GoodAfter(s, result)]
             /\ recent' = [recent EXCEPT ![s] = Latest(s, result)]
    <3>1. /\ bad'[s] = BadAfter(s, result) /\ good'[s] = GoodAfter(s, result)
          /\ recent'[s] = Latest(s, result)
          /\ \A t \in Services \ {s} :
               bad'[t] = bad[t] /\ good'[t] = good[t] /\ recent'[t] = recent[t]
      BY <2>2 DEF TypeOK
    <3>. QED  BY <3>1, CountedAfter DEF Counted
  <2>. QED  BY <1>3, <2>1, <2>2 DEF Outcome
<1>4. CASE UNCHANGED flap
  BY <1>4 DEF Counted
<1>. QED
  BY <1>1, <1>2, <1>3, <1>4
  DEF Next, RunOne, BootStart, Fire, OpenRead, OpenInsert, CloseUpdate, Crash, Release,
      Resolve, mvars

\* The status changes to what the latest results agree on.
LEMMA ProtectedStep ==
  ASSUME TypeOK, Counted, [Next]_mvars PROVE FlapStep
<1> USE DEF flap
<1>1. SUFFICES ASSUME NEW s \in Services, status'[s] # status[s], status[s] # "unknown"
               PROVE  \/ status'[s] = "unknown"
                      \/ status'[s] = "operational" /\ LastAre(recent'[s], Recoveries, {"good"})
                      \/ /\ status'[s] \in Bad
                         /\ LastAre(recent'[s], Failures, {"degraded", "bad"})
  BY DEF FlapStep
<1>2. ASSUME NEW cfg \in SUBSET Services, Reload(cfg) PROVE status'[s] = "unknown"
  BY <1>1, <1>2 DEF Reload, Fresh
<1>3. CASE Restart
  BY <1>3 DEF Restart, Fresh
<1>4. ASSUME NEW t \in Services, NEW n \in Chains, NEW result \in Results, Outcome(t, n, result)
      PROVE  \/ status'[s] = "operational" /\ LastAre(recent'[s], Recoveries, {"good"})
             \/ /\ status'[s] \in Bad
                /\ LastAre(recent'[s], Failures, {"degraded", "bad"})
  <2>1. /\ status' = [status EXCEPT ![t] = NextStatus(t, result)]
        /\ recent' = [recent EXCEPT ![t] = Latest(t, result)]
    BY <1>1, <1>4 DEF Outcome
  <2>2. t = s /\ status'[s] = NextStatus(s, result) /\ recent'[s] = Latest(s, result)
    BY <1>1, <2>1 DEF TypeOK
  <2>3. /\ LastAre(recent'[s], BadAfter(s, result), {"degraded", "bad"})
        /\ LastAre(recent'[s], GoodAfter(s, result), {"good"})
    BY <2>2, CountedAfter
  <2>4. CASE BadAfter(s, result) = Failures
    <3>1. result \in {"degraded", "bad"}
      BY <2>4 DEF BadAfter, Results
    <3>2. NextStatus(s, result) \in Bad
      BY <2>4, <3>1 DEF NextStatus, Observed, Bad
    <3>. QED  BY <2>2, <2>3, <2>4, <3>2
  <2>5. CASE BadAfter(s, result) # Failures /\ GoodAfter(s, result) = Recoveries
    <3>1. result = "good"
      BY <2>5 DEF GoodAfter
    <3>2. NextStatus(s, result) = "operational"
      BY <2>5, <3>1 DEF NextStatus, Observed
    <3>. QED  BY <2>2, <2>3, <2>5, <3>2
  <2>6. CASE BadAfter(s, result) # Failures /\ GoodAfter(s, result) # Recoveries
    <3>1. NextStatus(s, result) = status[s]
      BY <1>1, <2>6 DEF NextStatus
    <3>. QED  BY <1>1, <2>2, <3>1
  <2>. QED  BY <2>4, <2>5, <2>6
<1>5. CASE UNCHANGED flap
  BY <1>1, <1>5
<1>. QED
  BY <1>2, <1>3, <1>4, <1>5
  DEF Next, RunOne, BootStart, Fire, OpenRead, OpenInsert, CloseUpdate, Crash, Release,
      Resolve, mvars

------------------------------------------------------------------------------
(* The theorems *)

LEMMA InitInv == Init => IInv
<1> SUFFICES ASSUME Init PROVE IInv
  OBVIOUS
<1>1. \A s \in Services, n \in Chains : at[s][n] \in {"none", "timer"}
  BY DEF Init
<1>2. TypeOK
  <2>1. at \in [Services -> [Chains -> Places]] /\ timer \in [Services -> Chains \cup {0}]
    BY DEF Init, Places
  <2>2. /\ status \in [Services -> ServiceStatus] /\ open \in [Services -> Nat]
        /\ bad \in [Services -> 0..Failures] /\ good \in [Services -> 0..Recoveries]
    BY DEF Init, ServiceStatus
  <2>3. waiting \in Seq(Services \X Chains) /\ recent \in [Services -> Seq(Results)]
    BY DEF Init
  <2>4. driver \in Drivers /\ config \subseteq Services /\ booted \in BOOLEAN /\ excused = {}
    BY Zenon DEF Init
  <2>5. inFlight \in 0..Concurrency /\ reloads \in 0..MaxReloads /\ restarts \in 0..MaxRestarts
    <3>1. inFlight = 0 /\ reloads = 0 /\ restarts = 0
      BY Zenon DEF Init
    <3>. QED  BY <3>1
  <2>. QED  BY <2>1, <2>2, <2>3, <2>4, <2>5 DEF TypeOK
<1>3. Permits
  <2>1. HoldingChains = {}
    BY <1>1 DEF HoldingChains, Holding
  <2>2. IsFiniteSet(HoldingChains) /\ Cardinality(HoldingChains) = 0
    BY <2>1, FS_EmptySet
  <2>3. waiting = <<>> /\ inFlight = 0
    BY DEF Init
  <2>. QED  BY <1>1, <2>2, <2>3 DEF Permits, PermitsAccounted, WaitOnce
<1>4. \A s \in Services : status[s] = "unknown" /\ open[s] = 0
  BY DEF Init
<1>5. Removed /\ OneWriter /\ WriterKnows /\ OneOpenIncident /\ Tracked
  BY <1>1, <1>4 DEF Removed, OneWriter, Past, WriterKnows, OneOpenIncident, Tracked, Bad
<1>6. Counted
  BY DEF Init, Counted, LastAre, Span
<1>. QED  BY <1>2, <1>3, <1>5, <1>6 DEF IInv

LEMMA StepInv == IInv /\ [Next]_mvars => IInv'
BY TypeStep, PermitsStep, RemovedStep, IncidentsStep, CountedStep DEF IInv, Incidents

\* The inductive invariant holds in every reachable state.
THEOREM Inductive == Spec => []IInv
BY InitInv, StepInv, PTL DEF Spec

\* The monitor never loses a permit or lends one twice, and nobody waits while
\* one is free, whatever a reload drops from the timers and the queue
\* (acquire(), release(), stop()).
THEOREM MonitorHolds == Spec => []MonitorInv
<1>1. IInv => MonitorInv
  BY DEF IInv, Permits, MonitorInv
<1>. QED  BY <1>1, Inductive, PTL

\* With SQLite a service has one open incident at a time (open()).
THEOREM OneIncident == Spec => []OneOpenIncident
<1>1. IInv => OneOpenIncident
  BY DEF IInv
<1>. QED  BY <1>1, Inductive, PTL

\* With SQLite, while no check writes, the open incident of a service whose
\* incidents the monitor follows says what its status says (onTransition()).
THEOREM IncidentFollowsStatus == Spec => []IncidentTracksStatus
<1>1. IInv => IncidentTracksStatus
  BY DEF IInv, TypeOK, Tracked, IncidentTracksStatus
<1>. QED  BY <1>1, Inductive, PTL

\* A known status changes only on `threshold` results in a row, from whichever
\* chains they come (ServiceState.apply()).
THEOREM FlapIsProtected == Spec => FlapProtected
<1>1. IInv /\ [Next]_mvars => [FlapStep]_mvars
  BY ProtectedStep DEF IInv
<1>. QED  BY <1>1, Inductive, PTL DEF Spec, FlapProtected
==============================================================================
