------------------------------ MODULE Telemetry ------------------------------
(***************************************************************************)
(* Telemetry ingest in local and queue mode: the envelope route            *)
(* (routes/api/[project]/envelope/+server.ts), the duplicate window and    *)
(* persistItem() of telemetry/pipeline.ts, and the spool on disk with its  *)
(* flush (telemetry/spool.ts).                                             *)
(*                                                                         *)
(* One project, and envelopes with an error event.  An arrival is one      *)
(* request whose envelope was not a duplicate; arrivals are numbered.  The *)
(* event_id of an envelope is in its payload or in its header only: the    *)
(* route in queue mode looks for it in both, persistItem() in the payload. *)
(* The store may fail any statement, and a file may turn out unreadable.   *)
(* The duplicate window forgets an id when it likes: its time to live and  *)
(* its capacity are left out.  A file's name starts with Date.now(): the   *)
(* clock is taken not to step back.  Rate limits, invalid envelopes, relay *)
(* mode and the deletion of a project are left out.                        *)
(***************************************************************************)
EXTENDS Naturals, Sequences, FiniteSets, SequencesExt

CONSTANTS
  Envelopes,    \* envelopes clients send, each any number of times
  Anonymous,    \* those without an event_id in the payload
  HeaderOnly,   \* those of them with one in the header
  Modes,        \* values [telemetry.ingest].mode takes
  MaxFiles,     \* max_queue
  Batch,        \* DRAIN_BATCH
  MaxArrivals,  \* bound: arrivals
  MaxRows,      \* bound: rows with which a release marker may still fail
  MaxChanges,   \* bound: changes of mode or project
  MaxRestarts   \* bound: hub restarts

ASSUME EnvelopeAssumption == HeaderOnly \subseteq Anonymous /\ Anonymous \subseteq Envelopes
ASSUME ModeAssumption == Modes \subseteq {"local", "queue"}
ASSUME LimitAssumption == MaxFiles \in Nat /\ Batch \in Nat \ {0}
ASSUME BoundAssumption == {MaxArrivals, MaxRows, MaxChanges, MaxRestarts} \subseteq Nat

VARIABLES
  mode,      \* the configured mode
  enabled,   \* the project is not disabled
  loaded,    \* modes since the boot: what a request in flight may have read
  admitted,  \* modes with which one may have found the project enabled
  seen,      \* ids in the duplicate window
  content,   \* the envelope of each arrival
  spool,     \* files on disk, oldest first
  handlers,  \* where the local-mode request of an arrival is
  flush,     \* "off", "timer", or where drain() is with its current file
  todo,      \* files of the listing drain() has yet to take
  done,      \* files drain() has consumed
  stored,    \* rows of the store, in the order they were written
  changes, restarts,
  dropped,   \* history: arrivals dropped for their project or an unreadable file
  spooled,   \* history: arrivals that went through the spool
  forgotten  \* history: ids the duplicate window has dropped

drain == <<flush, todo, done>>
past == <<dropped, spooled, forgotten>>
config == <<mode, enabled, loaded, admitted, changes>>
tvars == <<config, seen, content, spool, handlers, drain, stored, restarts, past>>

Arrivals == 1..Len(content)
Handling == {"none", "record", "marker"}
Flushing == {"off", "timer", "lookup", "record", "marker"}

TypeOK ==
  /\ mode \in Modes
  /\ enabled \in BOOLEAN /\ loaded \subseteq Modes /\ admitted \subseteq loaded
  /\ seen \subseteq (Envelopes \ Anonymous) \cup HeaderOnly
  /\ content \in Seq(Envelopes)
  /\ Len(content) <= MaxArrivals
  /\ spool \in Seq(Arrivals) /\ todo \in Seq(Arrivals) /\ stored \in Seq(Arrivals)
  /\ handlers \in [1..MaxArrivals -> Handling]
  /\ flush \in Flushing
  /\ done \in 0..Batch
  /\ changes \in 0..MaxChanges /\ restarts \in 0..MaxRestarts
  /\ forgotten \subseteq Envelopes
  /\ dropped \subseteq Arrivals /\ spooled \subseteq Arrivals

Init ==
  /\ mode \in Modes /\ enabled = TRUE
  /\ loaded = {mode} /\ admitted = {mode}
  /\ seen = {} /\ content = <<>> /\ spool = <<>>
  /\ handlers = [n \in 1..MaxArrivals |-> "none"]
  /\ flush = "off" /\ todo = <<>> /\ done = 0
  /\ stored = <<>>
  /\ changes = 0 /\ restarts = 0
  /\ dropped = {} /\ spooled = {} /\ forgotten = {}

------------------------------------------------------------------------------
(* The routes *)

\* ingestDup() as the route calls it in queue mode, with the id of the payload
\* or else of the header: a duplicate if it was seen, and seen from now on.
RouteDup(e) == e \in seen
RouteMark(e) == IF e \in Anonymous \ HeaderOnly THEN seen ELSE seen \cup {e}

\* ingestDup() as persistItem() calls it, with the id of the payload only.
ItemDup(e) == e \in seen \ Anonymous
ItemMark(e) == IF e \in Anonymous THEN seen ELSE seen \cup {e}

\* maybeStartFlush(): the timer is only ever started, never stopped.
FlushFrom(now, files) ==
  IF now = "off" /\ (mode = "queue" \/ files # <<>>) THEN "timer" ELSE now

\* The route reads the mode, looks the project up, and then awaits the body:
\* either may have changed since.
Arrive(e, m) ==
  /\ m \in admitted
  /\ Len(content) < MaxArrivals
  /\ content' = Append(content, e)

\* A duplicate is answered 200 at once; in local mode it may start the flush.
PostDuplicate(e) ==
  /\ ItemDup(e)
  /\ "local" \in admitted
  /\ flush' = FlushFrom(flush, spool)
  /\ UNCHANGED <<config, seen, content, spool, handlers, todo, done, stored>>
  /\ UNCHANGED <<restarts, dropped, spooled, forgotten>>

\* Mutant: the size is compared after the write it is meant to prevent.
HasRoomForOneMore == Len(spool) <= MaxFiles

HasRoom == Len(spool) < MaxFiles

\* Queue mode: the id is marked, then spool.enqueue() answers 'ok' or 'full'.
PostQueue(e) ==
  /\ Arrive(e, "queue") /\ ~RouteDup(e)
  /\ seen' = RouteMark(e)
  /\ \/ /\ HasRoom
        /\ spool' = Append(spool, Len(content'))
        /\ spooled' = spooled \cup {Len(content')}
        /\ flush' = FlushFrom(flush, spool')
     \/ /\ ~HasRoom
        /\ UNCHANGED <<spool, spooled, flush>>
  /\ UNCHANGED <<config, handlers, todo, done, stored, restarts, dropped, forgotten>>

\* Local mode: persistItem() marks the id and awaits record().
PostLocal(e) ==
  /\ Arrive(e, "local") /\ ~ItemDup(e)
  /\ seen' = ItemMark(e)
  /\ handlers' = [handlers EXCEPT ![Len(content')] = "record"]
  /\ UNCHANGED <<config, spool, drain, stored, restarts, past>>

LocalRecord(n) ==
  /\ handlers[n] = "record"
  /\ stored' = Append(stored, n)
  /\ handlers' = [handlers EXCEPT ![n] = "marker"]
  /\ UNCHANGED <<config, seen, content, spool, drain, restarts, past>>

LocalMarker(n) ==
  /\ handlers[n] = "marker"
  /\ handlers' = [handlers EXCEPT ![n] = "none"]
  /\ flush' = FlushFrom(flush, spool)
  /\ UNCHANGED <<config, seen, content, spool, todo, done, stored, restarts>>
  /\ UNCHANGED <<dropped, spooled, forgotten>>

\* A statement fails: the request ends with an error.
LocalFails(n) ==
  /\ handlers[n] # "none"
  /\ handlers' = [handlers EXCEPT ![n] = "none"]
  /\ UNCHANGED <<config, seen, content, spool, drain, stored, restarts, past>>

------------------------------------------------------------------------------
(* The flush: drain() and its sink, spoolSink() *)

\* drain() takes the next file, up to its limit.
Continue(files, consumed) ==
  /\ todo' = files /\ done' = consumed
  /\ flush' = IF files = <<>> \/ consumed = Batch THEN "timer" ELSE "lookup"

FlushTick ==
  /\ flush = "timer"
  /\ Continue(spool, 0)
  /\ UNCHANGED <<config, seen, content, spool, handlers, stored, restarts, past>>

\* The file is deleted and the drain goes on.
Delete(consumed) ==
  /\ spool' = RemoveFirst(spool, Head(todo))
  /\ Continue(Tail(todo), consumed)

\* 'ok' and 'drop' delete the file.
Consume == Delete(done + 1)

\* A file that cannot be read, or is empty or oversized, is deleted without
\* being counted; one that does not parse is dropped by the sink.
Unreadable ==
  /\ flush = "lookup"
  /\ \E consumed \in {done, done + 1} : Delete(consumed)
  /\ dropped' = dropped \cup {Head(todo)}
  /\ UNCHANGED <<config, seen, content, handlers, stored, restarts>>
  /\ UNCHANGED <<spooled, forgotten>>

\* Mutant: the file is deleted when the store failed.
RetryWithoutFile ==
  /\ flush' = "timer" /\ todo' = <<>>
  /\ spool' = RemoveFirst(spool, Head(todo))
  /\ UNCHANGED <<done, seen>>

\* Mutant: the drain goes on with the file behind.
RetryOvertaken ==
  /\ Continue(Tail(todo), done)
  /\ UNCHANGED <<spool, seen>>

\* Mutant: a failure takes the id out of the duplicate window.
RetryForgetting ==
  /\ flush' = "timer" /\ todo' = <<>>
  /\ seen' = seen \ {content[Head(todo)]}
  /\ UNCHANGED <<done, spool>>

\* 'retry', or project() threw: the drain stops with the file in place.
Retry ==
  /\ flush' = "timer" /\ todo' = <<>>
  /\ UNCHANGED <<done, spool, seen>>

SinkLookup ==
  LET n == Head(todo) IN
  /\ flush = "lookup"
  /\ \/ /\ ~enabled
        /\ Consume
        /\ dropped' = dropped \cup {n}
        /\ UNCHANGED seen
     \/ /\ enabled /\ ItemDup(content[n])
        /\ Consume
        /\ UNCHANGED <<seen, dropped>>
     \/ /\ enabled /\ ~ItemDup(content[n])
        /\ seen' = ItemMark(content[n])
        /\ flush' = "record"
        /\ UNCHANGED <<todo, done, spool, dropped>>
  /\ UNCHANGED <<config, content, handlers, stored, restarts>>
  /\ UNCHANGED <<spooled, forgotten>>

SinkRecord ==
  /\ flush = "record"
  /\ stored' = Append(stored, Head(todo))
  /\ flush' = "marker"
  /\ UNCHANGED <<config, seen, content, spool, handlers, todo, done, restarts, past>>

SinkMarker ==
  /\ flush = "marker"
  /\ Consume
  /\ UNCHANGED <<config, seen, content, handlers, stored, restarts, past>>

SinkFails ==
  /\ flush \in {"lookup", "record", "marker"}
  /\ flush = "marker" => Len(stored) < MaxRows
  /\ Retry
  /\ UNCHANGED <<config, content, handlers, stored, restarts, past>>

------------------------------------------------------------------------------
(* The surroundings *)

Reload(m) ==
  /\ changes < MaxChanges /\ changes' = changes + 1
  /\ mode' = m /\ m # mode
  /\ loaded' = loaded \cup {m}
  /\ admitted' = IF enabled THEN loaded' ELSE admitted
  /\ UNCHANGED <<enabled, seen, content, spool, handlers, drain, stored, restarts, past>>

SetProject(on) ==
  /\ changes < MaxChanges /\ changes' = changes + 1
  /\ enabled' = on /\ on # enabled
  /\ admitted' = IF on THEN loaded ELSE admitted
  /\ UNCHANGED <<mode, loaded, seen, content, spool, handlers, drain, stored, restarts, past>>

Expire(e) ==
  /\ e \in seen
  /\ seen' = seen \ {e}
  /\ forgotten' = forgotten \cup {e}
  /\ UNCHANGED <<config, content, spool, handlers, drain, stored, restarts>>
  /\ UNCHANGED <<dropped, spooled>>

\* Mutant: the boot looks at the mode only, not for files left behind.
RestartByMode ==
  /\ restarts < MaxRestarts
  /\ restarts' = restarts + 1
  /\ loaded' = {mode} /\ admitted' = IF enabled THEN {mode} ELSE {}
  /\ seen' = {} /\ forgotten' = forgotten \cup seen
  /\ handlers' = [n \in 1..MaxArrivals |-> "none"]
  /\ flush' = FlushFrom("off", <<>>) /\ todo' = <<>> /\ done' = 0
  /\ UNCHANGED <<mode, enabled, changes, content, spool, stored, dropped, spooled>>

\* The hub process stops and starts: the files and the rows are left.
Restart ==
  /\ restarts < MaxRestarts
  /\ restarts' = restarts + 1
  /\ loaded' = {mode} /\ admitted' = IF enabled THEN {mode} ELSE {}
  /\ seen' = {} /\ forgotten' = forgotten \cup seen
  /\ handlers' = [n \in 1..MaxArrivals |-> "none"]
  /\ flush' = FlushFrom("off", spool) /\ todo' = <<>> /\ done' = 0
  /\ UNCHANGED <<mode, enabled, changes, content, spool, stored, dropped, spooled>>

Next ==
  \/ \E e \in Envelopes : PostDuplicate(e) \/ PostQueue(e) \/ PostLocal(e) \/ Expire(e)
  \/ \E n \in Arrivals : LocalRecord(n) \/ LocalMarker(n) \/ LocalFails(n)
  \/ FlushTick \/ Unreadable \/ SinkLookup \/ SinkRecord \/ SinkMarker \/ SinkFails
  \/ \E m \in Modes : Reload(m)
  \/ \E on \in BOOLEAN : SetProject(on)
  \/ Restart

Spec == Init /\ [][Next]_tvars

\* The timer fires, and a store that fails does not fail for ever.
FairSpec ==
  /\ Spec
  /\ WF_tvars(FlushTick)
  /\ SF_tvars(SinkLookup) /\ SF_tvars(SinkRecord) /\ SF_tvars(SinkMarker)

------------------------------------------------------------------------------
(* Properties *)

\* The spool never outgrows max_queue (spool.ts:15), in either mode and through
\* failed drains.
SpoolBounded == Len(spool) <= MaxFiles

\* The invariant of the spool: typed and bounded.
SpoolInv == TypeOK /\ SpoolBounded

\* "'retry' keeps it and stops the drain so ordering survives a store outage"
\* (spool.ts:27): rows of spooled envelopes are written in arrival order, even
\* when a failure or a restart has one of them written again.
SpoolOrder ==
  \A i, j \in DOMAIN stored :
    i < j /\ {stored[i], stored[j]} \subseteq spooled => stored[i] <= stored[j]

\* A spooled envelope without an id in its payload is on disk or in the store
\* unless its project was off or its file unreadable when drain() came to it:
\* no failed statement, restart, change of mode or duplicate loses it.
AnonymousKept ==
  \A n \in spooled : content[n] \in Anonymous => n \in Range(spool) \cup Range(stored) \cup dropped

\* "a small LRU collapses duplicate event_ids before any store write"
\* (pipeline.ts:23): an id in the payload that the window has not forgotten is
\* stored once, through concurrent requests, the spool and its retries.
StoredOnce ==
  \A e \in Envelopes \ (Anonymous \cup forgotten) :
    Cardinality({i \in DOMAIN stored : content[stored[i]] = e}) <= 1

\* Every spooled file is drained in the end, in whatever mode the hub restarts
\* (maybeStartFlush()).
SpoolDrained ==
  \A n \in 1..MaxArrivals : n \in Range(spool) ~> n \notin Range(spool)

\* "queue mode end to end: spool to disk then flush to the store"
\* (tests/unit/telemetry-pipeline.test.ts:415): what the route spooled, and so
\* answered with 200, is on disk or in the store, or its project is off or its
\* file unreadable.
AcceptedIsKept ==
  \A n \in spooled :
    n \in Range(spool) \cup dropped \/ \E i \in DOMAIN stored : content[stored[i]] = content[n]
==============================================================================
