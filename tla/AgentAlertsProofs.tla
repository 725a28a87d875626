-------------------------- MODULE AgentAlertsProofs --------------------------
(***************************************************************************)
(* Theorems about AgentAlerts, for every set of rules, number of requests, *)
(* limit and bound: the types, and that nothing is said of an agent that   *)
(* has never reported.                                                     *)
(***************************************************************************)
EXTENDS AgentAlerts, TLAPS

USE RuleAssumption, SlotAssumption, BoundAssumption

\* What a request holds that read the row and has not evaluated its sample.
LEMMA RecordType ==
  ASSUME NEW r \in Request, r.at = "record"
  PROVE  r.seen \subseteq Alert /\ r.levels \in [Rules -> Levels]
BY DEF Request, Idle

\* What a request, and the detector, is about to write.
LEMMA SaveType ==
  /\ \A r \in Request : r.at = "save" => r.alerts \subseteq Alert
  /\ \A r \in TickState : r.at = "save" => r.alerts \subseteq Alert
BY DEF Request, TickState, Idle

\* The alerts a sample leaves are alerts.
LEMMA EvaluationType ==
  ASSUME armed \subseteq Rules, NEW seen, NEW levels
  PROVE  Stays(seen, levels) \cup Raised(levels) \subseteq Alert
BY DEF Stays, Raised, Alert

\* Every variable keeps its type.
THEOREM TypeCorrect == Spec => []TypeOK
<1>1. Init => TypeOK
  <2> SUFFICES ASSUME Init PROVE TypeOK
    OBVIOUS
  <2>1. Idle \in Request /\ Idle \in TickState
    BY DEF Request, TickState
  <2>2. req \in [Slots -> Request]
    BY <2>1 DEF Init
  <2>3. age \in 0..OffAfter + 1 \cup {NULL}
    BY DEF Init
  <2>4. mute \in 0..MuteFor /\ changes \in 0..MaxChanges
    BY DEF Init
  <2>5. armed \subseteq Rules /\ alerts \subseteq Alert
    BY DEF Init
  <2>. QED  BY <2>1, <2>2, <2>3, <2>4, <2>5 DEF Init, TypeOK
<1>2. TypeOK /\ [Next]_avars => TypeOK'
  <2> SUFFICES ASSUME TypeOK, [Next]_avars PROVE TypeOK'
    OBVIOUS
  <2> USE DEF TypeOK, row, conf, hist
  <2>0. Idle \in Request /\ Idle \in TickState
    BY DEF Request, TickState
  <2>1. ASSUME NEW s \in Slots, Arrive(s) PROVE TypeOK'
    <3>1. PICK levels \in Readings :
            req' = [req EXCEPT ![s] = [at |-> "record", seen |-> alerts, levels |-> levels]]
      BY <2>1 DEF Arrive
    <3>2. levels \in [Rules -> Levels]
      BY DEF Readings, Levels
    <3>3. [at |-> "record", seen |-> alerts, levels |-> levels] \in Request
      BY <3>2 DEF Request
    <3>. QED  BY <2>1, <3>1, <3>3 DEF Arrive
  <2>2. ASSUME NEW s \in Slots, ArriveLate(s) PROVE TypeOK'
    BY <2>2 DEF ArriveLate, Request
  <2>3. ASSUME NEW s \in Slots, RecordLate(s) PROVE TypeOK'
    BY <2>3, <2>0 DEF RecordLate
  <2>4. ASSUME NEW s \in Slots, Record(s) PROVE TypeOK'
    <3> DEFINE now == Stays(req[s].seen, req[s].levels) \cup Raised(req[s].levels)
    <3>1. now \subseteq Alert
      BY EvaluationType
    <3>2. [at |-> "save", alerts |-> now] \in Request
      BY <3>1 DEF Request
    <3>3. req' = [req EXCEPT ![s] = IF now = req[s].seen THEN Idle
                                    ELSE [at |-> "save", alerts |-> now]]
      BY <2>4 DEF Record
    <3>4. req' \in [Slots -> Request]
      BY <3>2, <3>3, <2>0
    <3>. QED  BY <2>4, <3>4 DEF Record
  <2>5. ASSUME NEW s \in Slots, Save(s) PROVE TypeOK'
    BY <2>5, <2>0, SaveType DEF Save
  <2>6. CASE Scan
    <3>1. /\ alerts \cup {"offline"} \subseteq Alert
          /\ alerts \ {"offline"} \subseteq Alert
      BY DEF Alert
    <3>2. /\ [at |-> "save", alerts |-> alerts \cup {"offline"}, down |-> TRUE] \in TickState
          /\ [at |-> "save", alerts |-> alerts \ {"offline"}, down |-> FALSE] \in TickState
      BY <3>1 DEF TickState
    <3>3. tick' \in TickState
      BY <2>6, <3>2 DEF Scan
    <3>. QED  BY <2>6, <3>3 DEF Scan
  <2>7. CASE TickSaves
    <3>1. tick' \in TickState
      BY <2>7, <2>0 DEF TickSaves, TickState
    <3>. QED  BY <2>7, <3>1, SaveType DEF TickSaves
  <2>8. CASE TickFires
    BY <2>8, <2>0 DEF TickFires
  <2>9. CASE Minute
    BY <2>9 DEF Minute
  <2>10. CASE AgentChanges
    BY <2>10 DEF AgentChanges
  <2>11. CASE Mute
    BY <2>11 DEF Mute, Change
  <2>12. CASE Revoke
    BY <2>12 DEF Revoke, Change
  <2>13. CASE Reissue
    BY <2>13 DEF Reissue
  <2>14. CASE Reload
    BY <2>14 DEF Reload, Change
  <2>15. CASE HubRestart
    BY <2>15, <2>0 DEF HubRestart, Change
  <2>16. CASE UNCHANGED avars
    BY <2>16 DEF avars
  <2>. QED
    BY <2>1, <2>2, <2>3, <2>4, <2>5, <2>6, <2>7, <2>8, <2>9, <2>10, <2>11, <2>12,
       <2>13, <2>14, <2>15, <2>16
    DEF Next, Proceed, TickGoesOn
<1>. QED  BY <1>1, <1>2, PTL DEF Spec

------------------------------------------------------------------------------
\* Before the first sample no handler and no tick holds an alert either: a
\* request read an empty map and has not evaluated its sample, for that is the
\* write of last_seen_at, and the detector has found nothing to do.
NothingKnown ==
  age = NULL =>
    /\ alerts = {} /\ told = "none" /\ tick = Idle
    /\ \A s \in Slots : /\ req[s].at # "save"
                        /\ req[s].at = "record" => req[s].seen = {}

\* Nothing is known of an agent that has never reported.
THEOREM NothingKnownInvariant == Spec => []NothingKnown
<1>1. Init => NothingKnown
  BY DEF Init, NothingKnown, Idle
<1>2. TypeOK /\ NothingKnown /\ [Next]_avars => NothingKnown'
  <2> SUFFICES ASSUME TypeOK, NothingKnown, [Next]_avars PROVE NothingKnown'
    OBVIOUS
  <2> USE DEF NothingKnown, row, conf, hist
  <2>0. req \in [Slots -> Request]
    BY DEF TypeOK
  <2>1. ASSUME NEW s \in Slots, Arrive(s) PROVE NothingKnown'
    BY <2>1, <2>0 DEF Arrive
  <2>2. ASSUME NEW s \in Slots, ArriveLate(s) PROVE NothingKnown'
    BY <2>2, <2>0 DEF ArriveLate
  <2>3. ASSUME NEW s \in Slots, RecordLate(s) PROVE NothingKnown'
    BY <2>3 DEF RecordLate
  <2>4. ASSUME NEW s \in Slots, Record(s) PROVE NothingKnown'
    BY <2>4 DEF Record
  <2>5. ASSUME NEW s \in Slots, Save(s) PROVE NothingKnown'
    BY <2>5, <2>0 DEF Save, Idle
  <2>6. CASE Scan
    BY <2>6 DEF Scan, Silent
  <2>7. CASE TickSaves \/ TickFires
    BY <2>7 DEF TickSaves, TickFires, Idle
  <2>8. CASE Minute
    BY <2>8 DEF Minute, TypeOK
  <2>9. CASE AgentChanges \/ Mute \/ Reissue \/ Reload
    BY <2>9 DEF AgentChanges, Mute, Reissue, Reload
  <2>10. CASE Revoke
    BY <2>10 DEF Revoke
  <2>11. CASE HubRestart
    BY <2>11 DEF HubRestart, Idle
  <2>12. CASE UNCHANGED avars
    BY <2>12 DEF avars
  <2>. QED
    BY <2>1, <2>2, <2>3, <2>4, <2>5, <2>6, <2>7, <2>8, <2>9, <2>10, <2>11, <2>12
    DEF Next, Proceed, TickGoesOn
<1>. QED  BY <1>1, <1>2, TypeCorrect, PTL DEF Spec

\* The invariant of the alerts: typed, and no alert and no message about an agent
\* that was created and has never reported (alerts.ts:103), however requests, the
\* detector, restarts and reloads interleave.
THEOREM AlertsQuiet == Spec => []AlertInv
<1>1. TypeOK /\ NothingKnown => AlertInv
  BY DEF NothingKnown, AlertInv, NeverSeenNeverTold, Idle
<1>. QED  BY <1>1, TypeCorrect, NothingKnownInvariant, PTL
==============================================================================
