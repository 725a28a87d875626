----------------------------- MODULE AgentSender -----------------------------
(***************************************************************************)
(* The agent's telemetry sender: the main loop of                          *)
(* cmd/wharfinger-agent/main.go with deliver(), the store-and-forward      *)
(* buffer (internal/send/buffer.go), the gate that keeps one REST post in  *)
(* flight (internal/send/coalesce.go), the post's goroutine and the        *)
(* websocket client's connection (internal/send/ws.go).                    *)
(*                                                                         *)
(* A sample is an id that is free again once no part of the agent holds    *)
(* the sample, so runs are not bounded.  A post succeeds exactly while the *)
(* hub answers.  The dial's backoff is a free choice to dial or not; the   *)
(* handshake, hub key pinning, pings, the count of pending jobs, the flag  *)
(* of a backfilled payload and the fate of a frame behind the connection   *)
(* are left out.                                                           *)
(***************************************************************************)
EXTENDS Naturals, Sequences, FiniteSets, Functions, SequencesExt

CONSTANTS
  Samples,     \* ids, more than the agent can hold at once
  NULL,
  BufferCap,   \* BufferCap of buffer.go
  PerTick      \* backfillMaxPerTick

ASSUME SampleAssumption ==
  /\ IsFiniteSet(Samples) /\ NULL \notin Samples
  /\ Cardinality(Samples) > BufferCap + 2
ASSUME LimitAssumption == BufferCap \in Nat \ {0} /\ PerTick \in Nat \ {0}

VARIABLES
  hubUp,    \* the hub answers
  link,     \* ws.c # nil
  at,       \* the main loop: in its select, or handling a tick
  sample,   \* the sample this tick collected
  backlog,  \* what this tick drained and has not delivered yet
  buf,      \* the buffer, its head first
  gate,     \* postGate
  posting,  \* samples whose post is under way
  posted,   \* results of finished posts, which wait for room in the channel
  done      \* postDone, a channel of capacity 1

net == <<hubUp, link>>
loop == <<at, sample, backlog>>
posts == <<gate, posting, posted, done>>
svars == <<net, loop, buf, posts>>

Result == [of: Samples, err: BOOLEAN]

TypeOK ==
  /\ hubUp \in BOOLEAN /\ link \in BOOLEAN /\ gate \in BOOLEAN
  /\ at \in {"select", "tick"}
  /\ sample \in Samples \cup {NULL}
  /\ backlog \in Seq(Samples) /\ buf \in Seq(Samples)
  /\ posting \subseteq Samples /\ posted \subseteq Result
  /\ done \in Seq(Result) /\ Len(done) <= 1

Init ==
  /\ hubUp \in BOOLEAN /\ link = FALSE
  /\ at = "select" /\ sample = NULL /\ backlog = <<>>
  /\ buf = <<>>
  /\ gate = FALSE /\ posting = {} /\ posted = {} /\ done = <<>>

\* Samples some part of the agent still owes the hub.
Unsent(results) == {r.of : r \in {q \in results : q.err}}
Held == ToSet(buf) \cup ToSet(backlog) \cup ({sample} \ {NULL})
          \cup posting \cup Unsent(posted) \cup Unsent(ToSet(done))

------------------------------------------------------------------------------
(* The buffer *)

Push(b, s) == Append(IF Len(b) >= BufferCap THEN Tail(b) ELSE b, s)

PushAll(b, ss) ==
  LET queue[n \in 0..Len(ss)] == IF n = 0 THEN b ELSE Push(queue[n - 1], ss[n])
  IN queue[Len(ss)]

DrainMax(b, n) ==
  IF Len(b) <= n THEN [out |-> b, rest |-> <<>>]
  ELSE [out |-> SubSeq(b, 1, n), rest |-> SubSeq(b, n + 1, Len(b))]

------------------------------------------------------------------------------
(* deliver() *)

\* ws.Send(): the frame is written, or the connection is dropped.
SendFrame ==
  /\ link
  /\ UNCHANGED <<net, posts>>

SendFails ==
  /\ link
  /\ link' = FALSE
  /\ UNCHANGED <<hubUp, posts>>

\* A goroutine posts the sample, behind the gate.
StartPost(s) ==
  /\ ~link /\ ~gate
  /\ gate' = TRUE /\ posting' = posting \cup {s}
  /\ UNCHANGED <<net, posted, done>>

Busy ==
  /\ ~link /\ gate
  /\ UNCHANGED <<net, posts>>

Delivered(s) == SendFrame \/ StartPost(s)
Refused == SendFails \/ Busy

------------------------------------------------------------------------------
(* The main loop *)

\* A tick: collect, dial unless connected or backing off, drain.
Collect ==
  /\ at = "select"
  /\ LET s == CHOOSE s \in Samples : s \notin Held
         d == DrainMax(buf, PerTick) IN
       /\ sample' = s
       /\ backlog' = d.out /\ buf' = d.rest
  /\ link' \in IF hubUp THEN {link, TRUE} ELSE {link}
  /\ at' = "tick"
  /\ UNCHANGED <<hubUp, posts>>

\* Mutant: what follows a payload that could not be sent is forgotten.
FlushDropping ==
  /\ at = "tick" /\ backlog # <<>>
  /\ \/ Delivered(Head(backlog)) /\ backlog' = Tail(backlog) /\ buf' = buf
     \/ Refused /\ backlog' = <<>> /\ buf' = Push(buf, Head(backlog))
  /\ UNCHANGED <<at, sample>>

Flush ==
  /\ at = "tick" /\ backlog # <<>>
  /\ \/ Delivered(Head(backlog)) /\ backlog' = Tail(backlog) /\ buf' = buf
     \/ Refused /\ backlog' = <<>> /\ buf' = PushAll(buf, backlog)
  /\ UNCHANGED <<at, sample>>

\* The live sample goes last and ends the tick.
DeliverLive ==
  /\ at = "tick" /\ backlog = <<>>
  /\ \/ Delivered(sample) /\ buf' = buf
     \/ Refused /\ buf' = Push(buf, sample)
  /\ at' = "select" /\ sample' = NULL
  /\ UNCHANGED backlog

\* <-postDone: a payload whose post failed is buffered.
Receive ==
  /\ at = "select" /\ done # <<>>
  /\ buf' = IF done[1].err THEN Push(buf, done[1].of) ELSE buf
  /\ done' = <<>>
  /\ UNCHANGED <<net, loop, gate, posting, posted>>

------------------------------------------------------------------------------
(* The post's goroutine, the connection and the hub *)

\* Mutant: the gate opens when the post returns, not when its result is out.
PostReturnsReleasing ==
  \E s \in posting :
    /\ posting' = posting \ {s} /\ gate' = FALSE
    /\ posted' = posted \cup {[of |-> s, err |-> ~hubUp]}
    /\ UNCHANGED <<net, loop, buf, done>>

\* PostOnce() returns, at the latest when its timeout runs out.
PostReturns ==
  \E s \in posting :
    /\ posting' = posting \ {s}
    /\ posted' = posted \cup {[of |-> s, err |-> ~hubUp]}
    /\ UNCHANGED <<net, loop, buf, gate, done>>

\* Mutant: a post that failed returns without Release().
ReportKeepingGate ==
  \E r \in posted :
    /\ done = <<>>
    /\ done' = <<r>> /\ posted' = posted \ {r}
    /\ gate' = r.err
    /\ UNCHANGED <<net, loop, buf, posting>>

\* postDone <- result waits for room; the deferred Release() follows.
Report ==
  \E r \in posted :
    /\ done = <<>>
    /\ done' = <<r>> /\ posted' = posted \ {r}
    /\ gate' = FALSE
    /\ UNCHANGED <<net, loop, buf, posting>>

\* readLoop() ends, on an error or after two ping intervals of silence.
LinkDrops ==
  /\ link
  /\ link' = FALSE
  /\ UNCHANGED <<hubUp, loop, buf, posts>>

HubChanges ==
  /\ hubUp' = ~hubUp
  /\ UNCHANGED <<link, loop, buf, posts>>

\* The agent stops, for an update too: the buffer is memory only.
Restart ==
  /\ link' = FALSE /\ at' = "select" /\ sample' = NULL /\ backlog' = <<>>
  /\ buf' = <<>>
  /\ gate' = FALSE /\ posting' = {} /\ posted' = {} /\ done' = <<>>
  /\ UNCHANGED hubUp

Next == \/ Collect \/ Flush \/ DeliverLive \/ Receive
        \/ PostReturns \/ Report \/ LinkDrops \/ HubChanges \/ Restart

Spec == Init /\ [][Next]_svars

\* The ticker fires again and again and a tick's handling goes on; a post
\* has a timeout; select picks at random among what is ready.
FairSpec ==
  /\ Spec
  /\ WF_svars(Collect) /\ WF_svars(Flush) /\ WF_svars(DeliverLive)
  /\ WF_svars(PostReturns) /\ WF_svars(Report) /\ SF_svars(Receive)

------------------------------------------------------------------------------
(* Properties *)

\* At most one goroutine posts, and as long as it exists it holds the gate
\* (main.go:128, "at most one is in flight").
OnePost == Cardinality(posting) + Cardinality(posted) = IF gate THEN 1 ELSE 0

\* Everything the agent owes the hub is in exactly one place: the buffer, the
\* drained backlog, the tick's hand, the post, or its result.
Places == <<ToSet(buf), ToSet(backlog), {sample} \ {NULL}, posting, Unsent(posted),
            Unsent(ToSet(done))>>
OnePlace ==
  /\ IsInjective(buf) /\ IsInjective(backlog)
  /\ \A p, q \in DOMAIN Places : p # q => Places[p] \cap Places[q] = {}

\* The invariant of the sender: it is well typed, keeps one post behind the
\* gate and every unsent payload in one place, and its buffer within its cap.
SenderInv == TypeOK /\ OnePost /\ OnePlace /\ Len(buf) <= BufferCap

\* A payload the agent owes leaves it for three reasons only: the frame that
\* carries it, and no other, was written to a connection that stood; its post was
\* answered; or a push left the buffer full.  No pause of a backfill, failed post
\* or dropped connection loses one; a restart does (buffer.go:17-19).
Handed == IF backlog # <<>> THEN Head(backlog) ELSE sample
Restarted == <<at, buf, backlog, posting, posted, done>>' = <<"select", <<>>, <<>>, {}, {}, <<>>>>
SheddingStep ==
  \A s \in Held \ Held' :
    \/ at = "tick" /\ s = Handed /\ SendFrame
    \/ [of |-> s, err |-> FALSE] \in posted'
    \/ Len(buf') = BufferCap /\ s \in ToSet(buf) \cup ToSet(backlog)
    \/ Restarted
NothingLost == [][SheddingStep]_svars

\* Once the connection stays up the backlog is flushed for good and no post is
\* left behind a closed gate, whatever was in flight when it came up.
DrainsOverLink == <>[]link => <>[](buf = <<>> /\ ~gate)
==============================================================================
