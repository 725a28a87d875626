---------------------------- MODULE TelemetryProofs ----------------------------
(***************************************************************************)
(* Theorems about Telemetry, for any envelopes, modes, limits, arrivals,   *)
(* changes and restarts.                                                   *)
(***************************************************************************)
EXTENDS Telemetry, TLAPS, FiniteSetTheorems, SequenceTheorems

InDrain == flush \in {"lookup", "record", "marker"}

\* Files are in arrival order, drain() works through a beginning of them, and
\* what a local-mode request writes never had one.
Files ==
  /\ \A i, j \in DOMAIN spool : i < j => spool[i] < spool[j]
  /\ \A i \in DOMAIN spool : spool[i] \in spooled
  /\ Len(todo) <= Len(spool) /\ \A i \in DOMAIN todo : todo[i] = spool[i]
  /\ InDrain => todo # <<>> /\ done < Batch
  /\ \A n \in 1..MaxArrivals : handlers[n] # "none" => n \in Arrivals \ spooled

\* No row of a spooled envelope is younger than a file.
RowsBeforeFiles ==
  \A i \in DOMAIN stored, k \in DOMAIN spool : stored[i] \in spooled => stored[i] <= spool[k]

\* What drain() is about to delete has been stored.
MarkerStored == flush = "marker" => \E i \in DOMAIN stored : stored[i] = todo[1]

\* The arrival n is about to be stored.
Writing(n) ==
  \/ n \in 1..MaxArrivals /\ handlers[n] = "record"
  \/ flush = "record" /\ todo[1] = n

\* Of one id in the payload, an arrival is stored or is about to be, at most; of an id the
\* window does not know, none.
OnceOf(e) ==
  /\ \A i, j \in DOMAIN stored : content[stored[i]] = e /\ content[stored[j]] = e => i = j
  /\ \A n, m \in Arrivals :
       content[n] = e /\ content[m] = e /\ Writing(n) /\ Writing(m) => n = m
  /\ \A n \in Arrivals, i \in DOMAIN stored :
       content[n] = e /\ Writing(n) => content[stored[i]] # e
  /\ \A n \in Arrivals : content[n] = e /\ Writing(n) => e \in seen
  /\ \A i \in DOMAIN stored : content[stored[i]] = e => e \in seen

Once == \A e \in Envelopes \ (Anonymous \cup forgotten) : OnceOf(e)

\* The inductive invariant.
IInv ==
  TypeOK /\ SpoolBounded /\ Files /\ SpoolOrder /\ RowsBeforeFiles
  /\ AnonymousKept /\ MarkerStored /\ Once

USE BoundAssumption, LimitAssumption, EnvelopeAssumption

------------------------------------------------------------------------------
(* Sequences *)

\* To remove the first element by its name leaves the tail.
LEMMA RemoveHead ==
  ASSUME NEW S, NEW s \in Seq(S), s # <<>>
  PROVE  RemoveFirst(s, s[1]) = Tail(s)
<1> DEFINE I == {i \in 1..Len(s) : s[i] = s[1]}
<1>1. Len(s) \in Nat \ {0}
  OBVIOUS
<1>2. 1 \in I /\ \A i \in I : i \in Nat /\ 1 <= i
  BY <1>1
<1>3. Min(I) = 1
  <2> HIDE DEF I
  <2>. QED  BY <1>2 DEF Min
<1>4. SelectInSeq(s, LAMBDA v : v = s[1]) = 1
  BY <1>2, <1>3, Zenon DEF SelectInSeq
<1>5. RemoveFirst(s, s[1]) = RemoveAt(s, 1)
  <2>1. \E i \in 1..Len(s) : s[i] = s[1]
    BY <1>1
  <2>. QED  BY <2>1, <1>4, Zenon DEF RemoveFirst
<1>6. RemoveAt(s, 1) = Tail(s)
  BY <1>1 DEF RemoveAt
<1>. QED  BY <1>5, <1>6


LEMMA Bounds == MaxArrivals \in Nat /\ MaxRows \in Nat /\ MaxChanges \in Nat /\ MaxRestarts \in Nat
BY BoundAssumption

\* An arrival gets a number of its own, and the others keep theirs.
LEMMA Arrived ==
  ASSUME TypeOK, NEW e \in Envelopes, NEW m, Arrive(e, m)
  PROVE  /\ content' \in Seq(Envelopes) /\ Len(content') = Len(content) + 1
         /\ Len(content') \in Arrivals' \ Arrivals /\ Len(content') \in 1..MaxArrivals
         /\ content'[Len(content')] = e
         /\ Arrivals \subseteq Arrivals' /\ Seq(Arrivals) \subseteq Seq(Arrivals')
         /\ \A n \in Arrivals : content'[n] = content[n]
         /\ Arrivals' = Arrivals \cup {Len(content')}
<1>1. content \in Seq(Envelopes) /\ Len(content) \in Nat
  BY DEF TypeOK
<1>2. content' = Append(content, e) /\ Len(content) < MaxArrivals
  BY DEF Arrive
<1>3. /\ content' \in Seq(Envelopes) /\ Len(content') = Len(content) + 1
      /\ content'[Len(content) + 1] = e
      /\ \A n \in 1..Len(content) : content'[n] = content[n]
  BY <1>1, <1>2
<1>4. Arrivals = 1..Len(content) /\ Arrivals' = 1..(Len(content) + 1)
  BY <1>3 DEF Arrivals
<1>5. Arrivals \subseteq Arrivals'
  BY <1>1, <1>4
<1>6. Seq(Arrivals) \subseteq Seq(Arrivals')
  BY <1>5, SeqMonotonic, Zenon
<1>. QED  BY <1>1, <1>2, <1>3, <1>4, <1>5, <1>6, Bounds

\* drain() deletes a file, and counts it or not.
Taken == \E consumed \in {done, done + 1} : Delete(consumed)

LEMMA ConsumeTakes == (Consume => Taken) /\ (Unreadable => Taken)
BY DEF Consume, Unreadable, Taken

\* The file it deletes is the first, which is the first of the listing.
LEMMA Consumed ==
  ASSUME TypeOK, Files, InDrain, Taken
  PROVE  /\ Len(spool) \in Nat \ {0} /\ Len(todo) \in Nat \ {0}
         /\ Head(todo) = todo[1] /\ todo[1] = spool[1] /\ todo[1] \in Arrivals
         /\ spool' \in Seq(Arrivals) /\ Len(spool') = Len(spool) - 1
         /\ \A i \in 1..(Len(spool) - 1) : spool'[i] = spool[i + 1]
         /\ todo' \in Seq(Arrivals) /\ Len(todo') = Len(todo) - 1
         /\ \A i \in 1..(Len(todo) - 1) : todo'[i] = todo[i + 1]
         /\ done' \in 0..Batch
         /\ \/ flush' = "timer"
            \/ flush' = "lookup" /\ todo' # <<>> /\ done' < Batch
<1>1. spool \in Seq(Arrivals) /\ todo \in Seq(Arrivals) /\ done \in 0..Batch
  BY DEF TypeOK
<1>2. todo # <<>> /\ done < Batch /\ Len(todo) <= Len(spool)
  BY DEF Files
<1>3. /\ Len(spool) \in Nat \ {0} /\ Len(todo) \in Nat \ {0}
      /\ Head(todo) = todo[1] /\ todo[1] \in Arrivals
  BY <1>1, <1>2
<1>4. todo[1] = spool[1]
  BY <1>1, <1>3 DEF Files
<1>5. spool # <<>>
  BY <1>3
<1>0. PICK c \in {done, done + 1} : Delete(c)
  BY DEF Taken
<1>6. spool' = Tail(spool)
  <2>1. spool' = RemoveFirst(spool, spool[1])
    BY <1>0, <1>3, <1>4 DEF Delete
  <2>. QED  BY <1>1, <1>5, <2>1, RemoveHead, Zenon
<1>7. todo' = Tail(todo) /\ done' = c
  BY <1>0 DEF Delete, Continue
<1>8. flush' = IF Tail(todo) = <<>> \/ c = Batch THEN "timer" ELSE "lookup"
  BY <1>0 DEF Delete, Continue
<1>9. \/ flush' = "timer"
      \/ flush' = "lookup" /\ todo' # <<>> /\ done' < Batch
  BY <1>1, <1>2, <1>7, <1>8
<1>10. done' \in 0..Batch
  BY <1>1, <1>2, <1>7
<1>. QED  BY <1>1, <1>2, <1>3, <1>4, <1>5, <1>6, <1>7, <1>9, <1>10

\* The file drain() has in its hands.
LEMMA InHand ==
  ASSUME TypeOK, Files, InDrain
  PROVE  /\ Len(spool) \in Nat \ {0} /\ Head(todo) = todo[1] /\ todo[1] = spool[1]
         /\ todo[1] \in Arrivals /\ todo[1] \in spooled
<1>1. spool \in Seq(Arrivals) /\ todo \in Seq(Arrivals)
  BY DEF TypeOK
<1>2. todo # <<>> /\ Len(todo) <= Len(spool)
  BY DEF Files
<1>3. /\ Len(spool) \in Nat \ {0} /\ Len(todo) \in Nat \ {0}
      /\ Head(todo) = todo[1] /\ todo[1] \in Arrivals
  BY <1>1, <1>2
<1>4. todo[1] = spool[1] /\ spool[1] \in spooled
  BY <1>1, <1>3 DEF Files
<1>. QED  BY <1>3, <1>4

LEMMA FlushFromType ==
  ASSUME TypeOK, NEW files
  PROVE  /\ FlushFrom(flush, files) \in Flushing
         /\ FlushFrom(flush, files) \in {"lookup", "record", "marker"}
              => FlushFrom(flush, files) = flush
         /\ flush \in {"lookup", "record", "marker"} => FlushFrom(flush, files) = flush
BY DEF TypeOK, FlushFrom, Flushing

------------------------------------------------------------------------------
(* Types *)

\* The types of what the hub is set to and remembers ...
SetTypes ==
  /\ mode \in Modes /\ enabled \in BOOLEAN /\ loaded \subseteq Modes /\ admitted \subseteq loaded
  /\ seen \subseteq (Envelopes \ Anonymous) \cup HeaderOnly /\ forgotten \subseteq Envelopes
  /\ changes \in 0..MaxChanges /\ restarts \in 0..MaxRestarts

\* ... and of the envelopes, the files, the requests and the rows.
DataTypes ==
  /\ content \in Seq(Envelopes) /\ Len(content) <= MaxArrivals
  /\ spool \in Seq(Arrivals) /\ todo \in Seq(Arrivals) /\ stored \in Seq(Arrivals)
  /\ handlers \in [1..MaxArrivals -> Handling] /\ flush \in Flushing /\ done \in 0..Batch
  /\ dropped \subseteq Arrivals /\ spooled \subseteq Arrivals

LEMMA TypeParts == TypeOK <=> SetTypes /\ DataTypes
BY DEF TypeOK, SetTypes, DataTypes

LEMMA SetTypesStep ==
  ASSUME TypeOK, Files, [Next]_tvars PROVE SetTypes'
<1> USE DEF drain, past, config
<1>0. SetTypes
  BY TypeParts
<1>1. ASSUME NEW e \in Envelopes, PostQueue(e) \/ PostLocal(e) PROVE SetTypes'
  <2>1. UNCHANGED <<mode, enabled, loaded, admitted, changes, restarts, forgotten>>
    BY <1>1 DEF PostQueue, PostLocal
  <2>2. seen' = RouteMark(e) \/ seen' = ItemMark(e)
    BY <1>1 DEF PostQueue, PostLocal
  <2>3. seen' \subseteq (Envelopes \ Anonymous) \cup HeaderOnly
    BY <1>0, <2>2 DEF SetTypes, RouteMark, ItemMark
  <2>. QED  BY <1>0, <2>1, <2>3 DEF SetTypes
<1>2. CASE UNCHANGED <<mode, enabled, loaded, admitted, changes, restarts, forgotten, seen>>
  BY <1>0, <1>2 DEF SetTypes
<1>3. ASSUME NEW e \in Envelopes, Expire(e) PROVE SetTypes'
  BY <1>0, <1>3 DEF Expire, SetTypes
<1>4. CASE SinkLookup
  <2>1. InDrain
    BY <1>4 DEF SinkLookup, InDrain
  <2>2. Head(todo) \in Arrivals
    BY <2>1, InHand
  <2>3. content[Head(todo)] \in Envelopes
    BY <2>2 DEF Arrivals, TypeOK
  <2>4. UNCHANGED seen \/ seen' = ItemMark(content[Head(todo)])
    BY <1>4 DEF SinkLookup
  <2>5. UNCHANGED <<mode, enabled, loaded, admitted, changes, restarts, forgotten>>
    BY <1>4 DEF SinkLookup
  <2>6. seen' \subseteq (Envelopes \ Anonymous) \cup HeaderOnly
    BY <1>0, <2>3, <2>4 DEF SetTypes, ItemMark
  <2>. QED  BY <1>0, <2>5, <2>6 DEF SetTypes
<1>5. ASSUME NEW m \in Modes, Reload(m) PROVE SetTypes'
  BY <1>0, <1>5, Bounds DEF Reload, SetTypes
<1>6. ASSUME NEW on \in BOOLEAN, SetProject(on) PROVE SetTypes'
  <2>1. UNCHANGED <<mode, loaded, restarts, seen, forgotten>>
    BY <1>6 DEF SetProject
  <2>2. enabled' = on /\ (admitted' = loaded \/ admitted' = admitted)
    BY <1>6 DEF SetProject
  <2>3. changes' \in 0..MaxChanges
    BY <1>0, <1>6, Bounds DEF SetProject, SetTypes
  <2>. QED  BY <1>0, <2>1, <2>2, <2>3 DEF SetTypes
<1>7. CASE Restart
  <2>1. UNCHANGED <<mode, enabled, changes>>
    BY <1>7 DEF Restart
  <2>2. /\ loaded' = {mode} /\ admitted' \subseteq loaded'
        /\ seen' = {} /\ forgotten' = forgotten \cup seen
    BY <1>7 DEF Restart
  <2>3. restarts' \in 0..MaxRestarts
    BY <1>0, <1>7, Bounds DEF Restart, SetTypes
  <2>. QED  BY <1>0, <2>1, <2>2, <2>3 DEF SetTypes
<1>. QED
  BY <1>1, <1>2, <1>3, <1>4, <1>5, <1>6, <1>7
  DEF Next, PostDuplicate, LocalRecord, LocalMarker, LocalFails, FlushTick, Unreadable,
      SinkRecord, SinkMarker, SinkFails, Retry, tvars

LEMMA DataTypesStep ==
  ASSUME TypeOK, Files, [Next]_tvars PROVE DataTypes'
<1> USE DEF drain, past, config
<1>0. DataTypes
  BY TypeParts
<1>1. CASE UNCHANGED <<content, spool, todo, stored, handlers, done, dropped, spooled>>
           /\ flush' \in Flushing
  <2>1. Arrivals' = Arrivals
    BY <1>1 DEF Arrivals
  <2>. QED  BY <1>0, <1>1, <2>1 DEF DataTypes
<1>2. ASSUME NEW e \in Envelopes, PostQueue(e) PROVE DataTypes'
  <2>1. Arrive(e, "queue")
    BY <1>2 DEF PostQueue
  <2>2. /\ content' \in Seq(Envelopes) /\ Len(content') <= MaxArrivals
        /\ Len(content') \in Arrivals' /\ Arrivals \subseteq Arrivals'
        /\ Seq(Arrivals) \subseteq Seq(Arrivals')
    BY <2>1, Arrived, Bounds
  <2>3. UNCHANGED <<handlers, todo, done, stored, dropped>>
    BY <1>2 DEF PostQueue
  <2>4. /\ spool' = spool \/ spool' = Append(spool, Len(content'))
        /\ spooled' = spooled \/ spooled' = spooled \cup {Len(content')}
        /\ flush' = flush \/ flush' = FlushFrom(flush, spool')
    BY <1>2 DEF PostQueue
  <2>5. spool \in Seq(Arrivals') /\ todo \in Seq(Arrivals') /\ stored \in Seq(Arrivals')
    <3>1. spool \in Seq(Arrivals) /\ todo \in Seq(Arrivals) /\ stored \in Seq(Arrivals)
      BY <1>0 DEF DataTypes
    <3>2. Seq(Arrivals) \subseteq Seq(Arrivals')
      BY <2>2
    <3>. QED  BY <3>1, <3>2, Zenon
  <2>6. spool' \in Seq(Arrivals')
    <3>1. ASSUME NEW S, NEW s \in Seq(S), NEW x \in S PROVE Append(s, x) \in Seq(S)
      OBVIOUS
    <3>2. spool \in Seq(Arrivals') /\ Len(content') \in Arrivals'
      BY <2>2, <2>5
    <3>. QED  BY <2>4, <3>1, <3>2, Zenon
  <2>7. flush' \in Flushing
    BY <1>0, <2>4, FlushFromType DEF DataTypes
  <2>8. spooled' \subseteq Arrivals' /\ dropped \subseteq Arrivals'
    BY <1>0, <2>2, <2>4 DEF DataTypes
  <2>. QED  BY <1>0, <2>2, <2>3, <2>5, <2>6, <2>7, <2>8 DEF DataTypes
<1>3. ASSUME NEW e \in Envelopes, PostLocal(e) PROVE DataTypes'
  <2>1. Arrive(e, "local")
    BY <1>3 DEF PostLocal
  <2>2. /\ content' \in Seq(Envelopes) /\ Len(content') <= MaxArrivals
        /\ Arrivals \subseteq Arrivals'
        /\ Seq(Arrivals) \subseteq Seq(Arrivals')
    BY <2>1, Arrived, Bounds
  <2>3. UNCHANGED <<spool, flush, todo, done, stored, dropped, spooled>>
    BY <1>3 DEF PostLocal
  <2>4. handlers' \in [1..MaxArrivals -> Handling]
    BY <1>0, <1>3 DEF PostLocal, DataTypes, Handling
  <2>5. spool \in Seq(Arrivals') /\ todo \in Seq(Arrivals') /\ stored \in Seq(Arrivals')
    BY <1>0, <2>2, Zenon DEF DataTypes
  <2>6. spooled \subseteq Arrivals' /\ dropped \subseteq Arrivals'
    BY <1>0, <2>2 DEF DataTypes
  <2>. QED  BY <1>0, <2>2, <2>3, <2>4, <2>5, <2>6 DEF DataTypes
<1>4. ASSUME NEW n \in Arrivals, LocalRecord(n) \/ LocalMarker(n) \/ LocalFails(n)
      PROVE  DataTypes'
  <2>1. UNCHANGED <<content, spool, todo, done, dropped, spooled>> /\ Arrivals' = Arrivals
    BY <1>4 DEF LocalRecord, LocalMarker, LocalFails, Arrivals
  <2>2. handlers' \in [1..MaxArrivals -> Handling]
    <3>1. \/ handlers' = [handlers EXCEPT ![n] = "marker"]
          \/ handlers' = [handlers EXCEPT ![n] = "none"]
      BY <1>4 DEF LocalRecord, LocalMarker, LocalFails
    <3>2. handlers \in [1..MaxArrivals -> Handling]
      BY <1>0 DEF DataTypes
    <3>. QED  BY <3>1, <3>2 DEF Handling
  <2>3. stored' \in Seq(Arrivals)
    <3>1. stored' = stored \/ stored' = Append(stored, n)
      BY <1>4 DEF LocalRecord, LocalMarker, LocalFails
    <3>2. stored \in Seq(Arrivals)
      BY <1>0 DEF DataTypes
    <3>. QED  BY <3>1, <3>2
  <2>4. flush' = flush \/ flush' = FlushFrom(flush, spool)
    BY <1>4 DEF LocalRecord, LocalMarker, LocalFails
  <2>5. flush' \in Flushing
    BY <1>0, <2>4, FlushFromType DEF DataTypes
  <2>. QED  BY <1>0, <2>1, <2>2, <2>3, <2>5 DEF DataTypes
<1>5. CASE FlushTick
  <2>1. UNCHANGED <<content, spool, handlers, stored, dropped, spooled>> /\ Arrivals' = Arrivals
    BY <1>5 DEF FlushTick, Arrivals
  <2>2. todo' = spool /\ done' = 0 /\ flush' \in Flushing
    BY <1>5 DEF FlushTick, Continue, Flushing
  <2>. QED  BY <1>0, <2>1, <2>2 DEF DataTypes
<1>6. ASSUME InDrain, Taken, UNCHANGED <<content, handlers, stored, spooled>>,
             dropped' \subseteq dropped \cup {Head(todo)}
      PROVE  DataTypes'
  <2>1. Arrivals' = Arrivals
    BY <1>6 DEF Arrivals
  <2>2. /\ spool' \in Seq(Arrivals) /\ todo' \in Seq(Arrivals) /\ done' \in 0..Batch
        /\ flush' \in Flushing /\ Head(todo) \in Arrivals
    BY <1>6, Consumed DEF Flushing
  <2>. QED  BY <1>0, <1>6, <2>1, <2>2 DEF DataTypes
<1>7. CASE SinkLookup
  <2>1. InDrain /\ UNCHANGED <<content, handlers, stored, spooled>>
    BY <1>7 DEF SinkLookup, InDrain
  <2>2. CASE Consume
    BY <1>6, <1>7, <2>1, <2>2, ConsumeTakes DEF SinkLookup
  <2>3. CASE flush' = "record" /\ UNCHANGED <<todo, done, spool, dropped>>
    BY <1>1, <2>1, <2>3 DEF Flushing
  <2>. QED  BY <1>7, <2>2, <2>3 DEF SinkLookup
<1>8. CASE SinkRecord
  <2>1. InDrain /\ UNCHANGED <<content, spool, handlers, todo, done, dropped, spooled>>
    BY <1>8 DEF SinkRecord, InDrain
  <2>2. Head(todo) \in Arrivals /\ Arrivals' = Arrivals
    BY <2>1, InHand DEF Arrivals
  <2>3. stored' \in Seq(Arrivals) /\ flush' \in Flushing
    BY <1>0, <1>8, <2>2 DEF SinkRecord, DataTypes, Flushing
  <2>. QED  BY <1>0, <2>1, <2>2, <2>3 DEF DataTypes
<1>9. CASE SinkMarker
  <2>1. InDrain
    BY <1>9 DEF SinkMarker, InDrain
  <2>. QED  BY <1>6, <1>9, <2>1, ConsumeTakes DEF SinkMarker
<1>15. CASE Unreadable
  <2>1. InDrain
    BY <1>15 DEF Unreadable, InDrain
  <2>. QED  BY <1>6, <1>15, <2>1, ConsumeTakes DEF Unreadable
<1>10. ASSUME UNCHANGED <<content, spool, stored, dropped, spooled>>, todo' = <<>>,
              handlers' \in [1..MaxArrivals -> Handling], flush' \in Flushing,
              done' \in 0..Batch
       PROVE  DataTypes'
  <2>1. Arrivals' = Arrivals /\ todo' \in Seq(Arrivals)
    BY <1>10 DEF Arrivals
  <2>. QED  BY <1>0, <1>10, <2>1 DEF DataTypes
<1>11. CASE SinkFails
  BY <1>0, <1>10, <1>11 DEF SinkFails, Retry, DataTypes, Flushing
<1>12. CASE Restart
  <2>1. FlushFrom("off", spool) \in Flushing
    BY DEF FlushFrom, Flushing
  <2>2. handlers' \in [1..MaxArrivals -> Handling]
    BY <1>12 DEF Restart, Handling
  <2>. QED  BY <1>10, <1>12, <2>1, <2>2 DEF Restart
<1>13. ASSUME NEW e \in Envelopes, PostDuplicate(e) PROVE DataTypes'
  <2>1. flush' \in Flushing
    BY <1>13, FlushFromType DEF PostDuplicate
  <2>. QED  BY <1>1, <1>13, <2>1 DEF PostDuplicate
<1>14. CASE UNCHANGED <<content, spool, todo, stored, handlers, flush, done, dropped, spooled>>
  BY <1>0, <1>1, <1>14 DEF DataTypes
<1>. QED
  BY <1>2, <1>3, <1>4, <1>5, <1>7, <1>8, <1>9, <1>11, <1>12, <1>13, <1>14, <1>15
  DEF Next, Expire, Reload, SetProject, tvars

LEMMA TypeStep ==
  ASSUME TypeOK, Files, [Next]_tvars PROVE TypeOK'
<1>1. SetTypes' /\ DataTypes'
  BY SetTypesStep, DataTypesStep
<1>. QED  BY <1>1 DEF TypeOK, SetTypes, DataTypes


------------------------------------------------------------------------------
(* Files *)

LEMMA SameFiles ==
  ASSUME Files, UNCHANGED <<spool, todo, done, spooled>>, Arrivals \subseteq Arrivals',
         InDrain' => InDrain,
         \A n \in 1..MaxArrivals :
           handlers'[n] # "none" => handlers[n] # "none" \/ n \in Arrivals' \ spooled
  PROVE  Files'
BY DEF Files

LEMMA FilesConsumed ==
  ASSUME TypeOK, Files, InDrain, Taken, UNCHANGED <<content, handlers, spooled>>
  PROVE  Files'
<1>1. /\ Len(spool) \in Nat \ {0} /\ Len(todo) \in Nat \ {0}
      /\ spool' \in Seq(Arrivals) /\ Len(spool') = Len(spool) - 1
      /\ \A i \in 1..(Len(spool) - 1) : spool'[i] = spool[i + 1]
      /\ todo' \in Seq(Arrivals) /\ Len(todo') = Len(todo) - 1
      /\ \A i \in 1..(Len(todo) - 1) : todo'[i] = todo[i + 1]
      /\ \/ flush' = "timer"
         \/ flush' = "lookup" /\ todo' # <<>> /\ done' < Batch
  BY Consumed
<1>2. /\ DOMAIN spool = 1..Len(spool) /\ DOMAIN todo = 1..Len(todo)
      /\ DOMAIN spool' = 1..(Len(spool) - 1) /\ DOMAIN todo' = 1..(Len(todo) - 1)
  BY <1>1 DEF TypeOK
<1>3. \A i, j \in DOMAIN spool' : i < j => spool'[i] < spool'[j]
  <2>1. ASSUME NEW i \in 1..(Len(spool) - 1), NEW j \in 1..(Len(spool) - 1), i < j
        PROVE  spool[i + 1] < spool[j + 1]
    <3>1. i + 1 \in DOMAIN spool /\ j + 1 \in DOMAIN spool /\ i + 1 < j + 1
      BY <1>1, <1>2, <2>1
    <3>. QED  BY <3>1 DEF Files
  <2>. QED  BY <1>1, <1>2, <2>1
<1>4. \A i \in DOMAIN spool' : spool'[i] \in spooled'
  <2>1. ASSUME NEW i \in 1..(Len(spool) - 1) PROVE spool[i + 1] \in spooled
    <3>1. i + 1 \in DOMAIN spool
      BY <1>1, <1>2
    <3>. QED  BY <3>1 DEF Files
  <2>. QED  BY <1>1, <1>2, <2>1
<1>5. Len(todo) <= Len(spool)
  BY DEF Files
<1>6. \A i \in DOMAIN todo' : todo'[i] = spool'[i]
  <2>1. ASSUME NEW i \in 1..(Len(todo) - 1) PROVE todo[i + 1] = spool[i + 1]
    <3>1. i + 1 \in DOMAIN todo
      BY <1>1, <1>2
    <3>. QED  BY <3>1 DEF Files
  <2>2. \A i \in 1..(Len(todo) - 1) : i \in 1..(Len(spool) - 1)
    BY <1>1, <1>5
  <2>3. \A i \in 1..(Len(todo) - 1) : todo'[i] = todo[i + 1] /\ spool'[i] = spool[i + 1]
    BY <1>1, <2>2
  <2>. QED  BY <1>2, <2>1, <2>3, Zenon
<1>7. InDrain' => todo' # <<>> /\ done' < Batch
  BY <1>1 DEF InDrain
<1>8. \A n \in 1..MaxArrivals : handlers'[n] # "none" => n \in Arrivals' \ spooled'
  BY DEF Files, Arrivals
<1>. QED  BY <1>1, <1>3, <1>4, <1>5, <1>6, <1>7, <1>8 DEF Files

LEMMA FilesStep ==
  ASSUME TypeOK, Files, [Next]_tvars PROVE Files'
<1> USE DEF drain, past, config
<1>1. ASSUME NEW e \in Envelopes, PostDuplicate(e) PROVE Files'
  <2>1. UNCHANGED <<spool, todo, done, spooled, handlers>> /\ Arrivals' = Arrivals
    BY <1>1 DEF PostDuplicate, Arrivals
  <2>2. InDrain' => InDrain
    BY <1>1, FlushFromType DEF PostDuplicate, InDrain
  <2>. QED  BY <2>1, <2>2, SameFiles
<1>2. ASSUME NEW e \in Envelopes, PostQueue(e) PROVE Files'
  <2> DEFINE new == Len(content')
  <2>1. /\ new \in Arrivals' \ Arrivals /\ Arrivals \subseteq Arrivals'
        /\ new = Len(content) + 1 /\ Len(content) \in Nat
    BY <1>2, Arrived DEF PostQueue, TypeOK
  <2>2. UNCHANGED <<handlers, todo, done>>
    BY <1>2 DEF PostQueue
  <2>3. CASE UNCHANGED <<spool, spooled, flush>>
    BY <2>1, <2>2, <2>3, SameFiles DEF InDrain
  <2>4. CASE /\ spool' = Append(spool, new) /\ spooled' = spooled \cup {new}
             /\ flush' = FlushFrom(flush, spool')
    <3> HIDE DEF new
    <3>1. spool \in Seq(Arrivals) /\ Len(spool) \in Nat /\ DOMAIN spool = 1..Len(spool)
      BY DEF TypeOK
    <3>2. /\ DOMAIN spool' = 1..(Len(spool) + 1) /\ Len(spool') = Len(spool) + 1
          /\ \A i \in 1..Len(spool) : spool'[i] = spool[i]
          /\ spool'[Len(spool) + 1] = new
      BY <2>4, <3>1
    <3>3. \A i \in 1..Len(spool) : spool[i] \in Arrivals /\ spool[i] < new
      <4>1. \A i \in 1..Len(spool) : spool[i] \in Arrivals
        BY <3>1
      <4>. QED  BY <2>1, <4>1 DEF Arrivals
    <3>4. \A i, j \in DOMAIN spool' : i < j => spool'[i] < spool'[j]
      BY <3>1, <3>2, <3>3 DEF Files
    <3>5. \A i \in DOMAIN spool' : spool'[i] \in spooled'
      BY <2>4, <3>1, <3>2 DEF Files
    <3>6. Len(todo') <= Len(spool') /\ \A i \in DOMAIN todo' : todo'[i] = spool'[i]
      <4>1. /\ Len(todo) <= Len(spool) /\ Len(todo) \in Nat /\ DOMAIN todo = 1..Len(todo)
            /\ \A i \in DOMAIN todo : todo[i] = spool[i]
        BY DEF Files, TypeOK
      <4>. QED  BY <2>2, <3>1, <3>2, <4>1
    <3>7. InDrain' => todo' # <<>> /\ done' < Batch
      <4>1. InDrain' => InDrain
        BY <2>4, FlushFromType DEF InDrain
      <4>. QED  BY <2>2, <4>1 DEF Files
    <3>8. \A n \in 1..MaxArrivals : handlers'[n] # "none" => n \in Arrivals' \ spooled'
      BY <2>1, <2>2, <2>4 DEF Files
    <3>. QED  BY <3>4, <3>5, <3>6, <3>7, <3>8 DEF Files
  <2>. QED  BY <1>2, <2>3, <2>4 DEF PostQueue
<1>3. ASSUME NEW e \in Envelopes, PostLocal(e) PROVE Files'
  <2>1. /\ Len(content') \in Arrivals' \ Arrivals /\ Arrivals \subseteq Arrivals'
        /\ Len(content') \in 1..MaxArrivals
    BY <1>3, Arrived DEF PostLocal
  <2>2. UNCHANGED <<spool, flush, todo, done, spooled>>
    BY <1>3 DEF PostLocal
  <2>3. Len(content') \notin spooled
    BY <2>1 DEF TypeOK
  <2>4. \A n \in 1..MaxArrivals : n # Len(content') => handlers'[n] = handlers[n]
    BY <1>3, <2>1 DEF PostLocal, TypeOK
  <2>. QED  BY <2>1, <2>2, <2>3, <2>4, SameFiles DEF InDrain
<1>4. ASSUME NEW n \in Arrivals, LocalRecord(n) \/ LocalMarker(n) \/ LocalFails(n)
      PROVE  Files'
  <2>1. UNCHANGED <<content, spool, todo, done, spooled>> /\ Arrivals' = Arrivals
    BY <1>4 DEF LocalRecord, LocalMarker, LocalFails, Arrivals
  <2>2. flush' = flush \/ flush' = FlushFrom(flush, spool)
    BY <1>4 DEF LocalRecord, LocalMarker, LocalFails
  <2>3. InDrain' => InDrain
    BY <2>2, FlushFromType DEF InDrain
  <2>4. handlers[n] # "none" /\ (\/ handlers' = [handlers EXCEPT ![n] = "marker"]
                                 \/ handlers' = [handlers EXCEPT ![n] = "none"])
    BY <1>4 DEF LocalRecord, LocalMarker, LocalFails
  <2>5. \A m \in 1..MaxArrivals : handlers'[m] # "none" => handlers[m] # "none"
    BY <2>4 DEF TypeOK
  <2>. QED  BY <2>1, <2>3, <2>5, SameFiles
<1>5. CASE FlushTick
  <2>1. UNCHANGED <<content, spool, handlers, spooled>> /\ Arrivals' = Arrivals
    BY <1>5 DEF FlushTick, Arrivals
  <2>2. /\ todo' = spool /\ done' = 0
        /\ flush' = "timer" \/ (flush' = "lookup" /\ spool # <<>> /\ 0 < Batch)
    BY <1>5 DEF FlushTick, Continue
  <2>3. Len(todo') <= Len(spool') /\ \A i \in DOMAIN todo' : todo'[i] = spool'[i]
    BY <2>1, <2>2 DEF TypeOK
  <2>. QED  BY <2>1, <2>2, <2>3 DEF Files, InDrain
<1>6. CASE SinkLookup
  <2>1. InDrain /\ UNCHANGED <<content, handlers, spooled>> /\ Arrivals' = Arrivals
    BY <1>6 DEF SinkLookup, InDrain, Arrivals
  <2>2. CASE Consume
    BY <2>1, <2>2, FilesConsumed, ConsumeTakes
  <2>3. CASE UNCHANGED <<todo, done, spool>>
    BY <2>1, <2>3, SameFiles
  <2>. QED  BY <1>6, <2>2, <2>3 DEF SinkLookup
<1>7. CASE SinkRecord
  <2>1. InDrain /\ UNCHANGED <<content, spool, handlers, todo, done, spooled>>
        /\ Arrivals' = Arrivals
    BY <1>7 DEF SinkRecord, InDrain, Arrivals
  <2>. QED  BY <2>1, SameFiles
<1>8. CASE SinkMarker
  <2>1. InDrain /\ Consume /\ UNCHANGED <<content, handlers, spooled>>
    BY <1>8 DEF SinkMarker, InDrain
  <2>. QED  BY <2>1, FilesConsumed, ConsumeTakes
<1>13. CASE Unreadable
  <2>1. InDrain /\ UNCHANGED <<content, handlers, spooled>>
    BY <1>13 DEF Unreadable, InDrain
  <2>. QED  BY <1>13, <2>1, FilesConsumed, ConsumeTakes
<1>9. ASSUME UNCHANGED <<content, spool, spooled>>, todo' = <<>>, flush' \in {"off", "timer"},
             \A n \in 1..MaxArrivals : handlers'[n] # "none" => handlers[n] # "none"
      PROVE  Files'
  <2>1. Len(spool) \in Nat /\ Arrivals' = Arrivals
    BY <1>9 DEF TypeOK, Arrivals
  <2>. QED  BY <1>9, <2>1 DEF Files, InDrain
<1>10. CASE SinkFails
  BY <1>9, <1>10 DEF SinkFails, Retry
<1>11. CASE Restart
  <2>1. FlushFrom("off", spool) \in {"off", "timer"}
    BY DEF FlushFrom
  <2>. QED  BY <1>9, <1>11, <2>1 DEF Restart
<1>12. CASE UNCHANGED <<content, spool, todo, done, spooled, flush, handlers>>
  <2>1. Arrivals' = Arrivals /\ (InDrain' => InDrain)
    BY <1>12 DEF Arrivals, InDrain
  <2>. QED  BY <1>12, <2>1, SameFiles
<1>. QED
  BY <1>1, <1>2, <1>3, <1>4, <1>5, <1>6, <1>7, <1>8, <1>10, <1>11, <1>12, <1>13
  DEF Next, Expire, Reload, SetProject, tvars

LEMMA BoundedStep ==
  ASSUME TypeOK, Files, SpoolBounded, [Next]_tvars PROVE SpoolBounded'
<1> USE DEF drain, past, config
<1>1. spool \in Seq(Arrivals) /\ Len(spool) \in Nat /\ Len(spool) <= MaxFiles
  BY DEF TypeOK, SpoolBounded
<1>2. ASSUME NEW e \in Envelopes, PostQueue(e) PROVE SpoolBounded'
  <2>1. CASE UNCHANGED spool
    BY <1>1, <2>1 DEF SpoolBounded
  <2>2. CASE HasRoom /\ spool' = Append(spool, Len(content'))
    BY <1>1, <2>2 DEF SpoolBounded, HasRoom
  <2>. QED  BY <1>2, <2>1, <2>2 DEF PostQueue
<1>3. CASE Taken /\ InDrain
  BY <1>1, <1>3, Consumed DEF SpoolBounded
<1>4. CASE UNCHANGED spool
  BY <1>1, <1>4 DEF SpoolBounded
<1>5. CASE SinkLookup \/ SinkMarker \/ Unreadable
  <2>1. InDrain /\ (Taken \/ UNCHANGED spool)
    BY <1>5, ConsumeTakes DEF SinkLookup, SinkMarker, Unreadable, InDrain
  <2>. QED  BY <1>3, <1>4, <2>1
<1>. QED
  BY <1>2, <1>4, <1>5
  DEF Next, PostDuplicate, PostLocal, Expire, LocalRecord, LocalMarker, LocalFails, FlushTick,
      SinkRecord, SinkFails, Retry, Reload, SetProject, Restart, tvars


------------------------------------------------------------------------------
(* Rows *)

\* The order of the rows, and of the rows and the files.
Ordered == SpoolOrder /\ RowsBeforeFiles

\* A row more that is not of a spooled envelope.
LEMMA OrderedStored ==
  ASSUME TypeOK, Ordered, UNCHANGED <<spool, spooled>>, NEW n \in Arrivals,
         stored' = Append(stored, n),
         n \in spooled => /\ \A i \in DOMAIN stored : stored[i] \in spooled => stored[i] <= n
                          /\ \A k \in DOMAIN spool : n <= spool[k]
  PROVE  Ordered'
<1>1. stored \in Seq(Arrivals) /\ Len(stored) \in Nat /\ DOMAIN stored = 1..Len(stored)
  BY DEF TypeOK
<1>2. /\ DOMAIN stored' = 1..(Len(stored) + 1)
      /\ \A i \in 1..Len(stored) : stored'[i] = stored[i]
      /\ stored'[Len(stored) + 1] = n
  BY <1>1
<1>3. ASSUME NEW i \in DOMAIN stored', NEW j \in DOMAIN stored', i < j,
             stored'[i] \in spooled, stored'[j] \in spooled
      PROVE  stored'[i] <= stored'[j]
  <2>1. i \in DOMAIN stored
    BY <1>1, <1>2, <1>3
  <2>2. CASE j = Len(stored) + 1
    BY <1>1, <1>2, <1>3, <2>1, <2>2
  <2>3. CASE j # Len(stored) + 1
    <3>1. j \in DOMAIN stored
      BY <1>1, <1>2, <2>3
    <3>. QED  BY <1>1, <1>2, <1>3, <2>1, <3>1 DEF Ordered, SpoolOrder
  <2>. QED  BY <2>2, <2>3
<1>4. ASSUME NEW i \in DOMAIN stored', NEW k \in DOMAIN spool, stored'[i] \in spooled
      PROVE  stored'[i] <= spool[k]
  BY <1>1, <1>2, <1>4 DEF Ordered, RowsBeforeFiles
<1>. QED  BY <1>3, <1>4 DEF Ordered, SpoolOrder, RowsBeforeFiles

LEMMA OrderedConsumed ==
  ASSUME TypeOK, Files, Ordered, InDrain, Taken, UNCHANGED <<spooled, stored>>
  PROVE  Ordered'
<1>1. /\ Len(spool) \in Nat \ {0} /\ spool' \in Seq(Arrivals) /\ Len(spool') = Len(spool) - 1
      /\ \A i \in 1..(Len(spool) - 1) : spool'[i] = spool[i + 1]
  BY Consumed
<1>2. DOMAIN spool = 1..Len(spool) /\ DOMAIN spool' = 1..(Len(spool) - 1)
  BY <1>1 DEF TypeOK
<1>3. ASSUME NEW i \in DOMAIN stored, NEW k \in DOMAIN spool', stored[i] \in spooled
      PROVE  stored[i] <= spool'[k]
  <2>1. k + 1 \in DOMAIN spool /\ spool'[k] = spool[k + 1]
    BY <1>1, <1>2
  <2>. QED  BY <1>3, <2>1 DEF Ordered, RowsBeforeFiles
<1>. QED  BY <1>3 DEF Ordered, SpoolOrder, RowsBeforeFiles

LEMMA OrderedStep ==
  ASSUME TypeOK, Files, Ordered, [Next]_tvars PROVE Ordered'
<1> USE DEF drain, past, config
<1>1. CASE UNCHANGED <<spool, spooled, stored>>
  BY <1>1 DEF Ordered, SpoolOrder, RowsBeforeFiles
<1>2. ASSUME NEW e \in Envelopes, PostQueue(e) PROVE Ordered'
  <2> DEFINE new == Len(content')
  <2>1. /\ new \notin Arrivals /\ new = Len(content) + 1 /\ Len(content) \in Nat
    BY <1>2, Arrived DEF PostQueue, TypeOK
  <2>2. UNCHANGED stored
    BY <1>2 DEF PostQueue
  <2>3. CASE spool' = Append(spool, new) /\ spooled' = spooled \cup {new}
    <3> HIDE DEF new
    <3>1. \A i \in DOMAIN stored : stored[i] \in Arrivals
      BY DEF TypeOK
    <3>2. \A i \in DOMAIN stored : stored[i] < new /\ stored[i] # new
      BY <2>1, <3>1 DEF Arrivals
    <3>3. /\ DOMAIN spool' = DOMAIN spool \cup {Len(spool) + 1}
          /\ \A k \in DOMAIN spool : spool'[k] = spool[k]
          /\ spool'[Len(spool) + 1] = new
      BY <2>3 DEF TypeOK
    <3>4. SpoolOrder'
      BY <2>2, <2>3, <3>2 DEF Ordered, SpoolOrder
    <3>5. ASSUME NEW i \in DOMAIN stored, NEW k \in DOMAIN spool', stored[i] \in spooled'
          PROVE  stored[i] <= spool'[k]
      <4>1. stored[i] \in spooled
        BY <2>3, <3>2, <3>5
      <4>2. stored[i] <= new
        BY <2>1, <3>1, <3>2 DEF Arrivals
      <4>. QED  BY <3>3, <4>1, <4>2 DEF Ordered, RowsBeforeFiles
    <3>. QED  BY <2>2, <3>4, <3>5 DEF Ordered, RowsBeforeFiles
  <2>. QED  BY <1>1, <1>2, <2>2, <2>3 DEF PostQueue
<1>3. ASSUME NEW n \in Arrivals, LocalRecord(n) PROVE Ordered'
  <2>1. stored' = Append(stored, n) /\ UNCHANGED <<spool, spooled>>
    BY <1>3 DEF LocalRecord
  <2>2. n \in 1..MaxArrivals /\ handlers[n] # "none"
    BY <1>3, Bounds DEF LocalRecord, TypeOK, Arrivals
  <2>3. n \notin spooled
    BY <2>2 DEF Files
  <2>. QED  BY <2>1, <2>3, OrderedStored
<1>4. CASE SinkRecord
  <2>1. InDrain /\ stored' = Append(stored, Head(todo)) /\ UNCHANGED <<spool, spooled>>
    BY <1>4 DEF SinkRecord, InDrain
  <2>2. Len(spool) \in Nat \ {0} /\ Head(todo) = spool[1] /\ Head(todo) \in Arrivals
    BY <2>1, InHand
  <2>3. spool \in Seq(Arrivals) /\ DOMAIN spool = 1..Len(spool) /\ 1 \in DOMAIN spool
    BY <2>2 DEF TypeOK
  <2>4. \A k \in DOMAIN spool : spool[1] <= spool[k]
    <3>1. ASSUME NEW k \in DOMAIN spool PROVE spool[1] <= spool[k]
      <4>1. CASE k = 1
        BY <2>2, <4>1 DEF Arrivals
      <4>2. CASE k # 1
        <5>1. spool[1] < spool[k]
          BY <2>3, <4>2 DEF Files
        <5>2. spool[k] \in Nat /\ spool[1] \in Nat
          BY <2>3 DEF Arrivals
        <5>. QED  BY <5>1, <5>2
      <4>. QED  BY <4>1, <4>2
    <3>. QED  BY <3>1
  <2>5. \A i \in DOMAIN stored : stored[i] \in spooled => stored[i] <= spool[1]
    BY <2>3 DEF Ordered, RowsBeforeFiles
  <2>. QED  BY <2>1, <2>2, <2>4, <2>5, OrderedStored
<1>5. CASE SinkLookup \/ SinkMarker \/ Unreadable
  <2>1. InDrain /\ (Taken \/ UNCHANGED spool) /\ UNCHANGED <<spooled, stored>>
    BY <1>5, ConsumeTakes DEF SinkLookup, SinkMarker, Unreadable, InDrain
  <2>. QED  BY <1>1, <2>1, OrderedConsumed
<1>. QED
  BY <1>1, <1>2, <1>3, <1>4, <1>5
  DEF Next, PostDuplicate, PostLocal, Expire, LocalMarker, LocalFails, FlushTick,
      SinkFails, Retry, Reload, SetProject, Restart, tvars

\* What is kept of the envelopes without an id in their payload.
Kept == AnonymousKept /\ MarkerStored

LEMMA KeptConsumed ==
  ASSUME TypeOK, Files, Kept, InDrain, Taken, UNCHANGED <<content, spooled, stored>>,
         dropped \subseteq dropped',
         content[Head(todo)] \in Anonymous => Head(todo) \in dropped' \cup Range(stored)
  PROVE  Kept'
<1>1. /\ Len(spool) \in Nat \ {0} /\ Head(todo) = spool[1]
      /\ spool' \in Seq(Arrivals) /\ Len(spool') = Len(spool) - 1
      /\ \A i \in 1..(Len(spool) - 1) : spool'[i] = spool[i + 1]
      /\ flush' \in {"timer", "lookup"}
  BY Consumed
<1>2. DOMAIN spool = 1..Len(spool) /\ DOMAIN spool' = 1..(Len(spool) - 1)
  BY <1>1 DEF TypeOK
<1>3. ASSUME NEW n \in Range(spool), n # Head(todo) PROVE n \in Range(spool')
  <2>1. PICK i \in 1..Len(spool) : spool[i] = n
    BY <1>2 DEF Range
  <2>2. i - 1 \in DOMAIN spool' /\ spool'[i - 1] = n
    BY <1>1, <1>2, <1>3, <2>1
  <2>. QED  BY <2>2 DEF Range
<1>4. AnonymousKept'
  BY <1>3 DEF Kept, AnonymousKept
<1>5. MarkerStored'
  BY <1>1 DEF MarkerStored
<1>. QED  BY <1>4, <1>5 DEF Kept

LEMMA KeptStep ==
  ASSUME TypeOK, Files, Kept, [Next]_tvars PROVE Kept'
<1> USE DEF drain, past, config
<1>1. CASE UNCHANGED <<content, spool, spooled, stored, dropped>> /\ flush' # "marker"
  BY <1>1 DEF Kept, AnonymousKept, MarkerStored
<1>2. CASE UNCHANGED <<content, spool, spooled, stored, dropped, todo>>
           /\ (flush' = "marker" => flush = "marker")
  BY <1>2 DEF Kept, AnonymousKept, MarkerStored
<1>3. ASSUME NEW n \in Arrivals, stored' = Append(stored, n)
      PROVE  Range(stored') = Range(stored) \cup {n} /\ n \in Range(stored')
  <2>1. /\ DOMAIN stored' = DOMAIN stored \cup {Len(stored) + 1}
        /\ \A i \in DOMAIN stored : stored'[i] = stored[i]
        /\ stored'[Len(stored) + 1] = n
    BY <1>3 DEF TypeOK
  <2>. QED  BY <2>1 DEF Range
<1>4. ASSUME NEW e \in Envelopes, PostQueue(e) \/ PostLocal(e) PROVE Kept'
  <2>1. /\ \A n \in Arrivals : content'[n] = content[n]
        /\ Len(content') \in Arrivals'
    BY <1>4, Arrived DEF PostQueue, PostLocal
  <2>2. UNCHANGED <<stored, dropped, todo>>
    BY <1>4 DEF PostQueue, PostLocal
  <2>3. flush' = "marker" => flush = "marker"
    BY <1>4, FlushFromType DEF PostQueue, PostLocal
  <2>4. MarkerStored'
    BY <2>2, <2>3 DEF Kept, MarkerStored
  <2>5. \/ UNCHANGED <<spool, spooled>>
        \/ spool' = Append(spool, Len(content')) /\ spooled' = spooled \cup {Len(content')}
    BY <1>4 DEF PostQueue, PostLocal
  <2>6. CASE UNCHANGED <<spool, spooled>>
    BY <2>1, <2>2, <2>4, <2>6 DEF Kept, AnonymousKept, TypeOK
  <2>7. CASE spool' = Append(spool, Len(content')) /\ spooled' = spooled \cup {Len(content')}
    <3>1. /\ DOMAIN spool' = DOMAIN spool \cup {Len(spool) + 1}
          /\ \A k \in DOMAIN spool : spool'[k] = spool[k]
          /\ spool'[Len(spool) + 1] = Len(content')
      BY <2>7 DEF TypeOK
    <3>2. Range(spool') = Range(spool) \cup {Len(content')}
      BY <3>1 DEF Range
    <3>3. AnonymousKept'
      BY <2>1, <2>2, <2>7, <3>2 DEF Kept, AnonymousKept, TypeOK
    <3>. QED  BY <2>4, <3>3 DEF Kept
  <2>. QED  BY <2>5, <2>6, <2>7
<1>5. ASSUME NEW n \in Arrivals, LocalRecord(n) PROVE Kept'
  <2>1. stored' = Append(stored, n) /\ UNCHANGED <<content, spool, spooled, dropped, todo, flush>>
    BY <1>5 DEF LocalRecord
  <2>2. Range(stored') = Range(stored) \cup {n}
    BY <1>3, <2>1
  <2>3. AnonymousKept'
    BY <2>1, <2>2 DEF Kept, AnonymousKept
  <2>4. (\E i \in DOMAIN stored : stored[i] = todo[1])
          => (\E i \in DOMAIN stored' : stored'[i] = todo[1])
    BY <2>2 DEF Range
  <2>. QED  BY <2>1, <2>3, <2>4 DEF Kept, MarkerStored
<1>6. CASE SinkRecord
  <2>1. InDrain /\ UNCHANGED <<content, spool, spooled, dropped, todo>>
        /\ stored' = Append(stored, Head(todo))
    BY <1>6 DEF SinkRecord, InDrain
  <2>2. Head(todo) = todo[1] /\ todo[1] \in Arrivals
    BY <2>1, InHand
  <2>3. Range(stored') = Range(stored) \cup {Head(todo)} /\ todo[1] \in Range(stored')
    BY <1>3, <2>1, <2>2
  <2>4. AnonymousKept'
    BY <2>1, <2>3 DEF Kept, AnonymousKept
  <2>5. \E i \in DOMAIN stored' : stored'[i] = todo[1]
    BY <2>3 DEF Range
  <2>. QED  BY <2>1, <2>4, <2>5 DEF Kept, MarkerStored
<1>7. CASE SinkLookup
  <2>1. InDrain /\ UNCHANGED <<content, spooled, stored>>
    BY <1>7 DEF SinkLookup, InDrain
  <2>2. CASE Consume /\ dropped' = dropped \cup {Head(todo)}
    BY <2>1, <2>2, KeptConsumed, ConsumeTakes
  <2>3. CASE Consume /\ ItemDup(content[Head(todo)]) /\ UNCHANGED dropped
    <3>1. content[Head(todo)] \notin Anonymous
      BY <2>3 DEF ItemDup
    <3>. QED  BY <2>1, <2>3, <3>1, KeptConsumed, ConsumeTakes
  <2>4. CASE flush' = "record" /\ UNCHANGED <<todo, done, spool, dropped>>
    BY <1>1, <2>1, <2>4
  <2>. QED  BY <1>7, <2>2, <2>3, <2>4 DEF SinkLookup
<1>8. CASE SinkMarker
  <2>1. InDrain /\ Consume /\ UNCHANGED <<content, spooled, stored, dropped>> /\ flush = "marker"
    BY <1>8 DEF SinkMarker, InDrain
  <2>2. Head(todo) \in Range(stored)
    BY <2>1, InHand DEF Kept, MarkerStored, Range
  <2>. QED  BY <2>1, <2>2, KeptConsumed, ConsumeTakes
<1>15. CASE Unreadable
  <2>1. InDrain /\ UNCHANGED <<content, spooled, stored>> /\ dropped' = dropped \cup {Head(todo)}
    BY <1>15 DEF Unreadable, InDrain
  <2>. QED  BY <1>15, <2>1, KeptConsumed, ConsumeTakes
<1>9. CASE FlushTick
  BY <1>1, <1>9 DEF FlushTick, Continue
<1>10. CASE SinkFails
  BY <1>1, <1>10 DEF SinkFails, Retry
<1>11. CASE Restart
  <2>1. FlushFrom("off", spool) # "marker"
    BY DEF FlushFrom
  <2>. QED  BY <1>1, <1>11, <2>1 DEF Restart
<1>12. ASSUME NEW e \in Envelopes, PostDuplicate(e) PROVE Kept'
  BY <1>2, <1>12, FlushFromType DEF PostDuplicate
<1>13. ASSUME NEW n \in Arrivals, LocalMarker(n) PROVE Kept'
  BY <1>2, <1>13, FlushFromType DEF LocalMarker
<1>14. CASE UNCHANGED <<content, spool, spooled, stored, dropped, todo, flush>>
  BY <1>2, <1>14
<1>. QED
  BY <1>4, <1>5, <1>6, <1>7, <1>8, <1>9, <1>10, <1>11, <1>12, <1>13, <1>14, <1>15
  DEF Next, Expire, LocalFails, Reload, SetProject, tvars


------------------------------------------------------------------------------
(* Duplicates *)

\* A step after which no other arrival is about to be stored.
LEMMA OnceKept ==
  ASSUME TypeOK, Once, Arrivals \subseteq Arrivals', \A n \in Arrivals : content'[n] = content[n],
         UNCHANGED stored, forgotten \subseteq forgotten',
         \A n \in Arrivals' : Writing(n)' => n \in Arrivals /\ Writing(n),
         \A e \in seen : e \in seen' \cup forgotten'
  PROVE  Once'
<1>1. \A i \in DOMAIN stored : stored[i] \in Arrivals
  BY DEF TypeOK
<1>2. ASSUME NEW e \in Envelopes \ (Anonymous \cup forgotten') PROVE OnceOf(e)'
  <2>1. OnceOf(e)
    BY <1>2 DEF Once
  <2>. QED  BY <1>1, <1>2, <2>1 DEF OnceOf
<1>. QED  BY <1>2 DEF Once

\* An arrival of an unknown id is about to be stored: the id is known from now on.
LEMMA OnceMarked ==
  ASSUME TypeOK, Once, Arrivals \subseteq Arrivals', \A n \in Arrivals : content'[n] = content[n],
         UNCHANGED <<stored, forgotten>>,
         NEW w \in Arrivals', content'[w] \in Anonymous \/ content'[w] \in seen' \ seen,
         seen \subseteq seen',
         \A n \in Arrivals' : Writing(n)' => n = w \/ (n \in Arrivals /\ Writing(n))
  PROVE  Once'
<1>1. \A i \in DOMAIN stored : stored[i] \in Arrivals
  BY DEF TypeOK
<1>2. ASSUME NEW e \in Envelopes \ (Anonymous \cup forgotten) PROVE OnceOf(e)'
  <2>1. OnceOf(e)
    BY <1>2 DEF Once
  <2>2. CASE content'[w] = e
    <3>1. e \notin seen /\ e \in seen'
      BY <1>2, <2>2
    <3>2. \A i \in DOMAIN stored : content[stored[i]] # e
      BY <2>1, <3>1 DEF OnceOf
    <3>3. \A n \in Arrivals : content[n] = e => ~Writing(n)
      BY <2>1, <3>1 DEF OnceOf
    <3>4. \A i \in DOMAIN stored' : content'[stored'[i]] # e
      BY <1>1, <3>2
    <3>5. \A n \in Arrivals' : content'[n] = e /\ Writing(n)' => n = w
      BY <3>3
    <3>. QED  BY <3>1, <3>4, <3>5 DEF OnceOf
  <2>3. CASE content'[w] # e
    <3>1. \A n \in Arrivals' : content'[n] = e /\ Writing(n)' => n \in Arrivals /\ content[n] = e /\ Writing(n)
      BY <2>3
    <3>. QED  BY <1>1, <2>1, <3>1 DEF OnceOf
  <2>. QED  BY <2>2, <2>3
<1>. QED  BY <1>2 DEF Once

\* The row of an arrival is written.
LEMMA OnceStored ==
  ASSUME TypeOK, Once, UNCHANGED <<content, seen, forgotten>>,
         NEW w \in Arrivals, Writing(w), stored' = Append(stored, w),
         \A n \in Arrivals : Writing(n)' => n # w /\ Writing(n)
  PROVE  Once'
<1>1. /\ DOMAIN stored' = DOMAIN stored \cup {Len(stored) + 1}
      /\ \A i \in DOMAIN stored : stored'[i] = stored[i]
      /\ stored'[Len(stored) + 1] = w
  BY DEF TypeOK
<1>2. Arrivals' = Arrivals
  BY DEF Arrivals
<1>3. ASSUME NEW e \in Envelopes \ (Anonymous \cup forgotten) PROVE OnceOf(e)'
  <2>1. OnceOf(e)
    BY <1>3 DEF Once
  <2>2. CASE content[w] = e
    <3>1. e \in seen /\ \A i \in DOMAIN stored : content[stored[i]] # e
      BY <2>1, <2>2 DEF OnceOf
    <3>2. \A i \in DOMAIN stored' : content[stored'[i]] = e => i = Len(stored) + 1
      BY <1>1, <3>1
    <3>3. \A n \in Arrivals : content[n] = e => ~Writing(n)'
      BY <2>1, <2>2 DEF OnceOf
    <3>. QED  BY <1>2, <3>1, <3>2, <3>3 DEF OnceOf
  <2>3. CASE content[w] # e
    <3>1. \A i \in DOMAIN stored' : content[stored'[i]] = e => i \in DOMAIN stored /\ stored'[i] = stored[i]
      BY <1>1, <2>3
    <3>. QED  BY <1>2, <2>1, <3>1 DEF OnceOf
  <2>. QED  BY <2>2, <2>3
<1>. QED  BY <1>3 DEF Once

LEMMA OnceStep ==
  ASSUME TypeOK, Files, Once, [Next]_tvars PROVE Once'
<1> USE DEF drain, past, config
<1>1. ASSUME UNCHANGED <<content, stored>>, forgotten \subseteq forgotten',
             \A e \in seen : e \in seen' \cup forgotten',
             \A n \in 1..MaxArrivals : handlers'[n] = "record" => handlers[n] = "record",
             flush' = "record" => flush = "record" /\ todo' = todo
      PROVE  Once'
  <2>1. Arrivals' = Arrivals
    BY <1>1 DEF Arrivals
  <2>2. \A n \in Arrivals : Writing(n)' => Writing(n)
    BY <1>1 DEF Writing
  <2>. QED  BY <1>1, <2>1, <2>2, OnceKept
<1>2. ASSUME NEW e \in Envelopes, PostDuplicate(e) PROVE Once'
  <2>1. flush' = "record" => flush = "record"
    BY <1>2, FlushFromType DEF PostDuplicate
  <2>. QED  BY <1>1, <1>2, <2>1 DEF PostDuplicate
<1>3. ASSUME NEW n \in Arrivals, LocalMarker(n) \/ LocalFails(n) PROVE Once'
  <2>1. flush' = "record" => flush = "record"
    BY <1>3, FlushFromType DEF LocalMarker, LocalFails
  <2>2. UNCHANGED <<content, stored, seen, forgotten, todo>>
        /\ handlers' = [handlers EXCEPT ![n] = "none"]
    BY <1>3 DEF LocalMarker, LocalFails
  <2>3. \A m \in 1..MaxArrivals : handlers'[m] = "record" => handlers[m] = "record"
    BY <2>2 DEF TypeOK
  <2>. QED  BY <1>1, <2>1, <2>2, <2>3
<1>4. ASSUME NEW e \in Envelopes, PostQueue(e) PROVE Once'
  <2>1. /\ Len(content') \in Arrivals' \ Arrivals /\ Arrivals \subseteq Arrivals'
        /\ Arrivals' = Arrivals \cup {Len(content')}
        /\ \A n \in Arrivals : content'[n] = content[n]
    BY <1>4, Arrived DEF PostQueue
  <2>5. seen \subseteq seen'
    BY <1>4 DEF PostQueue, RouteMark
  <2>2. UNCHANGED <<handlers, todo, stored, forgotten>>
    BY <1>4 DEF PostQueue
  <2>3. flush' = "record" => flush = "record"
    BY <1>4, FlushFromType DEF PostQueue
  <2>4. ASSUME NEW n \in Arrivals', Writing(n)' PROVE n \in Arrivals /\ Writing(n)
    <3>1. Writing(n)
      BY <2>2, <2>3, <2>4 DEF Writing
    <3>2. n \in Arrivals
      BY <3>1, InHand DEF Writing, Files, InDrain
    <3>. QED  BY <3>1, <3>2
  <2>. QED  BY <2>1, <2>2, <2>4, <2>5, OnceKept
<1>5. ASSUME NEW e \in Envelopes, PostLocal(e) PROVE Once'
  <2> DEFINE new == Len(content')
  <2>1. Arrive(e, "local") /\ UNCHANGED <<flush, todo, stored, forgotten>>
        /\ handlers' = [handlers EXCEPT ![new] = "record"]
    BY <1>5 DEF PostLocal
  <2>2. /\ new \in Arrivals' \ Arrivals /\ Arrivals \subseteq Arrivals'
        /\ new \in 1..MaxArrivals
        /\ Arrivals' = Arrivals \cup {new} /\ content'[new] = e
        /\ \A n \in Arrivals : content'[n] = content[n]
    BY <2>1, Arrived
  <2>3. seen \subseteq seen' /\ (e \in Anonymous \/ e \in seen' \ seen)
    BY <1>5 DEF PostLocal, ItemDup, ItemMark
  <2> HIDE DEF new
  <2>4. \A n \in 1..MaxArrivals : n # new => handlers'[n] = handlers[n]
    BY <2>1 DEF TypeOK
  <2>5. ASSUME NEW n \in Arrivals', Writing(n)' PROVE n = new \/ (n \in Arrivals /\ Writing(n))
    BY <2>1, <2>2, <2>4, <2>5 DEF Writing
  <2>. QED  BY <2>1, <2>2, <2>3, <2>5, OnceMarked
<1>6. ASSUME NEW w \in Arrivals, LocalRecord(w) PROVE Once'
  <2>1. UNCHANGED <<content, seen, forgotten, flush, todo>> /\ stored' = Append(stored, w)
        /\ handlers[w] = "record" /\ handlers' = [handlers EXCEPT ![w] = "marker"]
    BY <1>6 DEF LocalRecord
  <2>2. w \in 1..MaxArrivals
    BY Bounds DEF TypeOK, Arrivals
  <2>3. w \notin spooled
    BY <2>1, <2>2 DEF Files
  <2>4. ~(flush = "record" /\ todo[1] = w)
    BY <2>3, InHand DEF InDrain
  <2>5. \A n \in 1..MaxArrivals : handlers'[n] = IF n = w THEN "marker" ELSE handlers[n]
    BY <2>1 DEF TypeOK
  <2>6. Writing(w) /\ \A n \in Arrivals : Writing(n)' => n # w /\ Writing(n)
    BY <2>1, <2>2, <2>4, <2>5 DEF Writing
  <2>. QED  BY <2>1, <2>6, OnceStored
<1>7. CASE SinkRecord
  <2>1. InDrain /\ flush = "record" /\ flush' = "marker"
        /\ UNCHANGED <<content, seen, forgotten, handlers>> /\ stored' = Append(stored, Head(todo))
    BY <1>7 DEF SinkRecord, InDrain
  <2>2. Head(todo) = todo[1] /\ todo[1] \in Arrivals /\ todo[1] \in spooled
    BY <2>1, InHand
  <2>3. ~(todo[1] \in 1..MaxArrivals /\ handlers[todo[1]] = "record")
    BY <2>2 DEF Files
  <2>4. Writing(todo[1]) /\ \A n \in Arrivals : Writing(n)' => n # todo[1] /\ Writing(n)
    BY <2>1, <2>3 DEF Writing
  <2>. QED  BY <2>1, <2>2, <2>4, OnceStored
<1>8. CASE SinkLookup
  <2>1. InDrain /\ UNCHANGED <<content, handlers, stored, forgotten>>
    BY <1>8 DEF SinkLookup, InDrain
  <2>2. CASE Consume /\ UNCHANGED seen
    <3>1. flush' # "record"
      BY <2>1, <2>2, Consumed, ConsumeTakes
    <3>. QED  BY <1>1, <2>1, <2>2, <3>1
  <2>3. CASE /\ ~ItemDup(content[Head(todo)]) /\ seen' = ItemMark(content[Head(todo)])
             /\ UNCHANGED todo
    <3>1. Head(todo) = todo[1] /\ todo[1] \in Arrivals /\ Arrivals' = Arrivals
      BY <2>1, InHand DEF Arrivals
    <3>2. /\ content[todo[1]] \in Anonymous \/ content[todo[1]] \in seen' \ seen
          /\ seen \subseteq seen'
      BY <2>3, <3>1 DEF ItemDup, ItemMark
    <3>3. \A n \in Arrivals : Writing(n)' => n = todo[1] \/ Writing(n)
      BY <2>1, <2>3 DEF Writing
    <3>. QED  BY <2>1, <3>1, <3>2, <3>3, OnceMarked
  <2>. QED  BY <1>8, <2>2, <2>3 DEF SinkLookup
<1>9. CASE SinkMarker
  <2>1. InDrain /\ Consume /\ UNCHANGED <<content, handlers, stored, forgotten, seen>>
    BY <1>9 DEF SinkMarker, InDrain
  <2>2. flush' # "record"
    BY <2>1, Consumed, ConsumeTakes
  <2>. QED  BY <1>1, <2>1, <2>2
<1>15. CASE Unreadable
  <2>1. InDrain /\ UNCHANGED <<content, handlers, stored, forgotten, seen>>
    BY <1>15 DEF Unreadable, InDrain
  <2>2. flush' # "record"
    BY <1>15, <2>1, Consumed, ConsumeTakes
  <2>. QED  BY <1>1, <2>1, <2>2
<1>10. CASE FlushTick
  BY <1>1, <1>10 DEF FlushTick, Continue
<1>11. CASE SinkFails
  BY <1>1, <1>11 DEF SinkFails, Retry
<1>12. CASE Restart
  <2>1. FlushFrom("off", spool) # "record"
    BY DEF FlushFrom
  <2>2. \A n \in 1..MaxArrivals : handlers'[n] # "record"
    BY <1>12 DEF Restart
  <2>. QED  BY <1>1, <1>12, <2>1, <2>2 DEF Restart
<1>13. ASSUME NEW e \in Envelopes, Expire(e) PROVE Once'
  BY <1>1, <1>13 DEF Expire
<1>14. CASE UNCHANGED <<content, stored, forgotten, seen, handlers, flush, todo>>
  BY <1>1, <1>14
<1>. QED
  BY <1>2, <1>3, <1>4, <1>5, <1>6, <1>7, <1>8, <1>9, <1>10, <1>11, <1>12, <1>13, <1>14, <1>15
  DEF Next, Reload, SetProject, tvars

------------------------------------------------------------------------------
(* The theorems *)

LEMMA InitInv == Init => IInv
<1> SUFFICES ASSUME Init PROVE IInv
  OBVIOUS
<1>1. /\ content = <<>> /\ spool = <<>> /\ todo = <<>> /\ stored = <<>> /\ flush = "off"
      /\ seen = {} /\ spooled = {} /\ handlers = [n \in 1..MaxArrivals |-> "none"]
  BY DEF Init
<1>2. SetTypes
  <2>1. /\ mode \in Modes /\ enabled \in BOOLEAN /\ loaded = {mode} /\ admitted = {mode}
        /\ seen = {} /\ forgotten = {} /\ changes = 0 /\ restarts = 0
    BY Zenon DEF Init
  <2>. QED  BY <2>1, Bounds DEF SetTypes
<1>3. DataTypes
  <2>1. done = 0 /\ dropped = {}
    BY DEF Init
  <2>. QED  BY <1>1, <2>1, Bounds DEF DataTypes, Arrivals, Handling, Flushing
<1>4. SpoolBounded /\ SpoolOrder /\ AnonymousKept
  BY <1>1 DEF SpoolBounded, SpoolOrder, AnonymousKept
<1>5. Files /\ RowsBeforeFiles /\ MarkerStored
  BY <1>1 DEF Files, InDrain, RowsBeforeFiles, MarkerStored
<1>6. Once
  BY <1>1 DEF Once, OnceOf, Arrivals
<1>. QED  BY <1>2, <1>3, <1>4, <1>5, <1>6, TypeParts DEF IInv

LEMMA StepInv == IInv /\ [Next]_tvars => IInv'
BY TypeStep, FilesStep, BoundedStep, OrderedStep, KeptStep, OnceStep DEF IInv, Ordered, Kept

\* The inductive invariant holds in every reachable state.
THEOREM Inductive == Spec => []IInv
BY InitInv, StepInv, PTL DEF Spec

\* The spool never outgrows max_queue (spool.enqueue()).
THEOREM SpoolHolds == Spec => []SpoolInv
<1>1. IInv => SpoolInv
  BY DEF IInv, SpoolInv
<1>. QED  BY <1>1, Inductive, PTL

\* The rows of spooled envelopes are in arrival order (drain() stops at a file
\* that fails).
THEOREM OrderSurvives == Spec => []SpoolOrder
<1>1. IInv => SpoolOrder
  BY DEF IInv
<1>. QED  BY <1>1, Inductive, PTL

\* No spooled envelope without an id in its payload is lost (drain() deletes a
\* file after its row is written, for its project, or because it is unreadable).
THEOREM AnonymousIsKept == Spec => []AnonymousKept
<1>1. IInv => AnonymousKept
  BY DEF IInv
<1>. QED  BY <1>1, Inductive, PTL

\* An id in the payload that the window has not forgotten is stored at most once
\* (ingestDup() as persistItem() calls it).
THEOREM StoredAtMostOnce == Spec => []StoredOnce
<1>1. IInv => StoredOnce
  <2> SUFFICES ASSUME IInv, NEW e \in Envelopes \ (Anonymous \cup forgotten)
               PROVE  Cardinality({i \in DOMAIN stored : content[stored[i]] = e}) <= 1
    BY DEF StoredOnce
  <2> DEFINE Rows == {i \in DOMAIN stored : content[stored[i]] = e}
  <2>1. \A i, j \in Rows : i = j
    BY DEF IInv, Once, OnceOf
  <2>2. CASE Rows = {}
    BY <2>2, FS_EmptySet
  <2>3. CASE Rows # {}
    <3>1. PICK i \in Rows : TRUE
      BY <2>3
    <3>2. Rows = {i}
      BY <2>1, <3>1
    <3>3. Cardinality(Rows) = 1
      <4> HIDE DEF Rows
      <4>. QED  BY <3>2, FS_Singleton, Zenon
    <3>. QED  BY <3>3
  <2>. QED  BY <2>2, <2>3
<1>. QED  BY <1>1, Inductive, PTL
==============================================================================
