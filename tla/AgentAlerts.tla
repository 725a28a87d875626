----------------------------- MODULE AgentAlerts -----------------------------
(***************************************************************************)
(* The alerts of one agent: the metrics route (src/routes/ingress), the    *)
(* silence detector and the threshold rules (ingress/alerts.ts), over the  *)
(* agent's row (ingress/agents.ts).  Requests read the row at the gate and *)
(* overwrite its whole map of alerts later, the detector scans and then    *)
(* overwrites it, and the two interleave between any two statements.       *)
(*                                                                         *)
(* A reading is low, mid (inside the hysteresis) or high per rule.  Time   *)
(* is counted in the runtime's minutes; an agent that reports does so well *)
(* within the silence limit, and a tick ends before the next one.          *)
(* Authentication, payload checks, the binding of machines, the samples    *)
(* themselves, and the cooldown and sending of messages are left out.      *)
(***************************************************************************)
EXTENDS Naturals, FiniteSets

CONSTANTS
  Rules,        \* ThresholdRule
  Slots,        \* requests that can be under way at once
  NULL,
  OffAfter,     \* alert_offline_minutes
  MuteFor,      \* REBOOT_MUTE_MS in minutes
  MaxChanges    \* bound: restarts, reloads, reboots and revocations

ASSUME RuleAssumption == IsFiniteSet(Rules) /\ "offline" \notin Rules
ASSUME SlotAssumption == Slots \subseteq Nat /\ IsFiniteSet(Slots)
ASSUME BoundAssumption == /\ {OffAfter, MuteFor, MaxChanges} \subseteq Nat
                          /\ NULL \notin Nat

VARIABLES
  agent,     \* what the agent does: "calm", "hot" or "silent"
  armed,     \* rules whose threshold is above 0
  watching,  \* alert_offline_minutes is above 0
  alerts,    \* the alerts column
  age,       \* minutes since last_seen_at, NULL before the first sample
  mute,      \* minutes to muted_until
  revoked,   \* revoked_at is set
  req,       \* the requests under way
  tick,      \* the silence detector
  told,      \* the last message about silence: "none", "down" or "recovered"
  cut,       \* a restart came between a message and setAlerts()
  changes

row == <<alerts, age, mute, revoked>>
conf == <<armed, watching>>
hist == <<cut, changes>>
avars == <<agent, conf, row, req, tick, told, hist>>

Alert == Rules \cup {"offline"}
Levels == {"low", "mid", "high"}
Idle == [at |-> "idle"]
Request == {Idle}
  \cup [at : {"record"}, seen : SUBSET Alert, levels : [Rules -> Levels]]
  \cup [at : {"backfill"}]
  \cup [at : {"save"}, alerts : SUBSET Alert]
TickState == {Idle} \cup [at : {"fire"}]
               \cup [at : {"save"}, alerts : SUBSET Alert, down : BOOLEAN]

TypeOK ==
  /\ agent \in {"calm", "hot", "silent"}
  /\ armed \subseteq Rules /\ watching \in BOOLEAN
  /\ alerts \subseteq Alert /\ age \in 0..OffAfter + 1 \cup {NULL}
  /\ mute \in 0..MuteFor /\ revoked \in BOOLEAN
  /\ req \in [Slots -> Request] /\ tick \in TickState
  /\ told \in {"none", "down", "recovered"}
  /\ cut \in BOOLEAN /\ changes \in 0..MaxChanges

Init ==
  /\ agent \in {"calm", "hot", "silent"}
  /\ armed = Rules /\ watching = TRUE
  /\ alerts = {} /\ age = NULL /\ mute = 0 /\ revoked = FALSE
  /\ req = [s \in Slots |-> Idle] /\ tick = Idle
  /\ told = "none" /\ cut = FALSE /\ changes = 0

------------------------------------------------------------------------------
(* POST /ingress *)

\* What the agent measures.
Readings == IF agent = "hot" THEN [Rules -> Levels] ELSE {[r \in Rules |-> "low"]}

\* A new request takes the first free slot.
Free(s) == req[s] = Idle /\ \A t \in Slots : t < s => req[t] # Idle

\* gate(): the handler keeps the row it read.
Arrive(s) ==
  /\ agent # "silent" /\ ~revoked /\ Free(s)
  /\ \E levels \in Readings :
       req' = [req EXCEPT ![s] = [at |-> "record", seen |-> alerts, levels |-> levels]]
  /\ UNCHANGED <<agent, conf, row, tick, told, hist>>

ArriveLate(s) ==
  /\ agent # "silent" /\ ~revoked /\ Free(s)
  /\ req' = [req EXCEPT ![s] = [at |-> "backfill"]]
  /\ UNCHANGED <<agent, conf, row, tick, told, hist>>

\* record() of a backfill, or touch() by a report of the edge.
RecordLate(s) ==
  /\ req[s].at = "backfill"
  /\ age' = 0
  /\ req' = [req EXCEPT ![s] = Idle]
  /\ UNCHANGED <<agent, conf, alerts, mute, revoked, tick, told, hist>>

\* Alerts a sample keeps: no rule that is off or has cleared, and never "offline".
Stays(seen, levels) == {r \in armed : r \in seen /\ levels[r] # "low"}

Raised(levels) == {r \in armed : levels[r] = "high"}

\* Mutant: the silence is over in the message only.
RecordKeepingOffline(s) ==
  /\ req[s].at = "record"
  /\ age' = 0
  /\ LET seen == req[s].seen
         now == Stays(seen, req[s].levels) \cup Raised(req[s].levels) \cup (seen \ Rules) IN
       /\ req' = [req EXCEPT ![s] = IF now = seen THEN Idle ELSE [at |-> "save", alerts |-> now]]
       /\ told' = IF "offline" \in seen THEN "recovered" ELSE told
  /\ UNCHANGED <<agent, conf, alerts, mute, revoked, tick, hist>>

\* record() of a live sample, then onSample() up to its one write.
Record(s) ==
  /\ req[s].at = "record"
  /\ age' = 0
  /\ LET seen == req[s].seen
         now == Stays(seen, req[s].levels) \cup Raised(req[s].levels) IN
       /\ req' = [req EXCEPT ![s] = IF now = seen THEN Idle ELSE [at |-> "save", alerts |-> now]]
       /\ told' = IF "offline" \in seen THEN "recovered" ELSE told
  /\ UNCHANGED <<agent, conf, alerts, mute, revoked, tick, hist>>

\* setAlerts().
Save(s) ==
  /\ req[s].at = "save"
  /\ alerts' = req[s].alerts
  /\ req' = [req EXCEPT ![s] = Idle]
  /\ UNCHANGED <<agent, conf, age, mute, revoked, tick, told, hist>>

------------------------------------------------------------------------------
(* tick() *)

\* Mutant: an agent that never reported counts as last seen long ago.
SilentFromTheStart == (age # NULL => age > OffAfter) /\ mute = 0

Silent == (age # NULL /\ age > OffAfter) /\ mute = 0

\* scan(), and what the rows it read call for.
Scan ==
  /\ tick = Idle /\ ~revoked
  /\ \/ /\ watching /\ "offline" \notin alerts /\ Silent
        /\ tick' = [at |-> "save", alerts |-> alerts \cup {"offline"}, down |-> TRUE]
     \/ /\ ~watching /\ "offline" \in alerts
        /\ tick' = [at |-> "save", alerts |-> alerts \ {"offline"}, down |-> FALSE]
  /\ UNCHANGED <<agent, conf, row, req, told, hist>>

\* Mutant: the alert is only remembered, not stored.
TickKeepsToItself ==
  /\ tick.at = "save"
  /\ tick' = IF tick.down THEN [at |-> "fire"] ELSE Idle
  /\ UNCHANGED <<agent, conf, row, req, told, hist>>

TickSaves ==
  /\ tick.at = "save"
  /\ alerts' = tick.alerts
  /\ tick' = IF tick.down THEN [at |-> "fire"] ELSE Idle
  /\ UNCHANGED <<agent, conf, age, mute, revoked, req, told, hist>>

TickFires ==
  /\ tick.at = "fire"
  /\ told' = "down"
  /\ tick' = Idle
  /\ UNCHANGED <<agent, conf, row, req, hist>>

------------------------------------------------------------------------------
(* Everything else *)

\* A reporting agent is heard of before the limit has passed.
Minute ==
  /\ agent # "silent" /\ age # NULL => age < OffAfter
  /\ age' = IF age = NULL \/ age > OffAfter THEN age ELSE age + 1
  /\ mute' = IF mute = 0 THEN 0 ELSE mute - 1
  /\ UNCHANGED <<agent, conf, alerts, revoked, req, tick, told, hist>>

AgentChanges ==
  /\ agent' \in {"calm", "hot", "silent"}
  /\ UNCHANGED <<conf, row, req, tick, told, hist>>

Change == changes < MaxChanges /\ changes' = changes + 1

\* A reboot task is queued.
Mute ==
  /\ Change
  /\ mute' = MuteFor
  /\ UNCHANGED <<agent, conf, alerts, age, revoked, req, tick, told, cut>>

\* revoke(); a new token takes it back.
Revoke ==
  /\ Change /\ ~revoked
  /\ revoked' = TRUE /\ alerts' = {}
  /\ UNCHANGED <<agent, conf, age, mute, req, tick, told, cut>>

Reissue ==
  /\ revoked
  /\ revoked' = FALSE
  /\ UNCHANGED <<agent, conf, alerts, age, mute, req, tick, told, hist>>

Reload ==
  /\ Change
  /\ armed' \in SUBSET Rules /\ watching' \in BOOLEAN
  /\ UNCHANGED <<agent, row, req, tick, told, cut>>

HubRestart ==
  /\ Change
  /\ cut' = (cut \/ tick.at = "fire" \/ \E s \in Slots : req[s].at = "save")
  /\ req' = [s \in Slots |-> Idle] /\ tick' = Idle
  /\ UNCHANGED <<agent, conf, row, told>>

Proceed(s) == RecordLate(s) \/ Record(s) \/ Save(s)
TickGoesOn == Scan \/ TickSaves \/ TickFires

Next ==
  \/ \E s \in Slots : Arrive(s) \/ ArriveLate(s) \/ Proceed(s)
  \/ TickGoesOn
  \/ Minute \/ Mute \/ Revoke \/ Reissue \/ AgentChanges \/ Reload \/ HubRestart

Spec == Init /\ [][Next]_avars

\* Handlers go on, time passes, and the detector runs every minute.  Nothing is
\* assumed of the agent: all it sends may be backfill (main.go:370-386).
FairSpec ==
  /\ Spec
  /\ \A s \in Slots : WF_avars(Proceed(s))
  /\ WF_avars(TickGoesOn) /\ WF_avars(Minute)

------------------------------------------------------------------------------
(* Properties *)

\* An agent that was created and has never reported raises no alert and no
\* message, whatever is under way (alerts.ts:103).
NeverSeenNeverTold ==
  age = NULL => alerts = {} /\ told = "none" /\ tick.at # "fire"

\* The invariant of the alerts: typed, and quiet about an agent never seen.
AlertInv == TypeOK /\ NeverSeenNeverTold

\* Live samples reach the hub again and again.
LiveSamples == []<>(\E s \in Slots : req[s].at = "record")

\* An agent whose live samples are calm for good ends without an alert, whatever
\* requests and ticks had read before and overwrite late, across restarts,
\* reloads and a revocation (alerts.ts:28-31).  Without live samples an alert may
\* stay: a backfill evaluates no rule.
AlertsSettle ==
  <>[](agent = "calm" /\ ~revoked) /\ LiveSamples => <>[](alerts = {})

\* An agent that was seen and falls silent for good ends with the alert on its
\* row and "down" as the last word about it, after any mute.  Only a restart
\* between a message and its write to the row can leave it otherwise.
SilenceTold ==
  <>[](agent = "silent" /\ age # NULL /\ watching /\ mute = 0 /\ ~revoked)
    => <>[]("offline" \in alerts /\ (told = "down" \/ cut))
==============================================================================
