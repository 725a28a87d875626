-------------------------- MODULE AgentSenderProofs --------------------------
(***************************************************************************)
(* Theorems about AgentSender, for every set of samples, capacity of the   *)
(* buffer and number of samples a tick drains: the types, that one post at *)
(* a time holds the gate and a payload is owed in one place, and how a     *)
(* payload may leave the agent.                                            *)
(***************************************************************************)
EXTENDS AgentSender, FiniteSetTheorems, WellFoundedInduction, TLAPS

USE SampleAssumption, LimitAssumption

(* The inductive invariant. *)

\* A tick has a sample in its hand until it ends, with nothing left to flush.
Ticking == IF at = "tick" THEN sample # NULL ELSE sample = NULL /\ backlog = <<>>

\* The post's goroutine holds the gate: it posts, or holds its result.
Gated ==
  \/ ~gate /\ posting = {} /\ posted = {}
  \/ gate /\ posted = {} /\ \E s \in Samples : posting = {s}
  \/ gate /\ posting = {} /\ \E r \in Result : posted = {r}

IInv == TypeOK /\ Ticking /\ Gated /\ OnePlace /\ Len(buf) <= BufferCap

------------------------------------------------------------------------------
(* Sequences of samples *)

\* A set of natural numbers that is not empty has a least one.
LEMMA LeastNumber ==
  ASSUME NEW S \in SUBSET Nat, S # {}
  PROVE  \E x \in S : \A y \in S : x <= y
<1> DEFINE R == {ss \in Nat \X Nat : ss[1] < ss[2]}
<1>1. IsWellFoundedOn(R, Nat)
  BY NatLessThanWellFounded, Zenon DEF OpToRel
<1>2. \E x \in S : \A y \in S : ~(<<y, x>> \in R)
  BY <1>1, WFMin, Zenon
<1>3. PICK x \in S : \A y \in S : ~(<<y, x>> \in R)
  BY <1>2, Zenon
<1>4. ASSUME NEW y \in S PROVE x <= y
  <2>1. <<y, x>> \in Nat \X Nat
    BY Zenon
  <2>2. ~(y < x)
    BY <1>3, <2>1
  <2>. QED  BY <2>2
<1>. QED  BY <1>4

\* A push appends, and drops the oldest sample of a full buffer only.
LEMMA PushSheds ==
  ASSUME NEW b \in Seq(Samples), Len(b) <= BufferCap, NEW s \in Samples
  PROVE  /\ Push(b, s) \in Seq(Samples)
         /\ Len(Push(b, s)) <= BufferCap /\ Len(b) <= Len(Push(b, s))
         /\ s \in ToSet(Push(b, s)) /\ ToSet(Push(b, s)) \subseteq ToSet(b) \cup {s}
         /\ ToSet(b) \subseteq ToSet(Push(b, s)) \/ Len(Push(b, s)) = BufferCap
         /\ IsInjective(b) /\ s \notin ToSet(b) => IsInjective(Push(b, s))
<1>1. CASE Len(b) >= BufferCap
  <2> DEFINE t == Tail(b)
  <2>1. /\ t \in Seq(Samples) /\ Len(t) = BufferCap - 1 /\ Len(t) \in Nat
        /\ \A i \in 1..Len(t) : t[i] = b[i + 1] /\ i + 1 \in 1..Len(b)
    BY <1>1
  <2>2. Push(b, s) = Append(t, s)
    BY <1>1 DEF Push
  <2> HIDE DEF t
  <2>3. /\ Push(b, s) \in Seq(Samples) /\ Len(Push(b, s)) = BufferCap
        /\ Push(b, s)[BufferCap] = s
        /\ \A i \in 1..BufferCap - 1 : Push(b, s)[i] = b[i + 1]
    BY <2>1, <2>2
  <2>4. s \in ToSet(Push(b, s)) /\ ToSet(Push(b, s)) \subseteq ToSet(b) \cup {s}
    BY <1>1, <2>3 DEF ToSet
  <2>5. IsInjective(b) /\ s \notin ToSet(b) => IsInjective(Push(b, s))
    BY <1>1, <2>3 DEF ToSet, IsInjective
  <2>. QED  BY <2>3, <2>4, <2>5
<1>2. CASE Len(b) < BufferCap
  <2>1. /\ Push(b, s) = Append(b, s) /\ Push(b, s) \in Seq(Samples)
        /\ Len(Push(b, s)) = Len(b) + 1 /\ Push(b, s)[Len(b) + 1] = s
        /\ \A i \in 1..Len(b) : Push(b, s)[i] = b[i]
    BY <1>2 DEF Push
  <2>2. s \in ToSet(Push(b, s)) /\ ToSet(Push(b, s)) = ToSet(b) \cup {s}
    BY <2>1 DEF ToSet
  <2>3. IsInjective(b) /\ s \notin ToSet(b) => IsInjective(Push(b, s))
    BY <2>1 DEF ToSet, IsInjective
  <2>. QED  BY <1>2, <2>1, <2>2, <2>3
<1>. QED  BY <1>1, <1>2

\* A sequence is its head and its tail.
LEMMA HeadAndTail ==
  ASSUME NEW q \in Seq(Samples), q # <<>>
  PROVE  /\ Head(q) \in Samples /\ Tail(q) \in Seq(Samples)
         /\ ToSet(q) = {Head(q)} \cup ToSet(Tail(q))
         /\ IsInjective(q) => IsInjective(Tail(q)) /\ Head(q) \notin ToSet(Tail(q))
<1> DEFINE t == Tail(q)
<1>1. /\ t \in Seq(Samples) /\ Len(t) = Len(q) - 1 /\ Len(t) \in Nat /\ Head(q) = q[1]
      /\ \A i \in 1..Len(t) : t[i] = q[i + 1]
      /\ 1 \in 1..Len(q) /\ q[1] \in Samples
  OBVIOUS
<1> HIDE DEF t
<1>2. ToSet(q) = {q[1]} \cup ToSet(t)
  <2>1. ASSUME NEW i \in 1..Len(q) PROVE q[i] \in {q[1]} \cup ToSet(t)
    <3>1. CASE i = 1
      BY <3>1
    <3>2. CASE i # 1
      <4>1. i - 1 \in 1..Len(t) /\ t[i - 1] = q[i]
        BY <1>1, <3>2
      <4>. QED  BY <1>1, <4>1 DEF ToSet
    <3>. QED  BY <3>1, <3>2
  <2>2. ASSUME NEW i \in 1..Len(t) PROVE t[i] \in ToSet(q)
    <3>1. i + 1 \in 1..Len(q) /\ t[i] = q[i + 1]
      BY <1>1
    <3>. QED  BY <3>1 DEF ToSet
  <2>3. DOMAIN q = 1..Len(q) /\ DOMAIN t = 1..Len(t) /\ q[1] \in ToSet(q)
    BY <1>1 DEF ToSet
  <2>4. ToSet(q) \subseteq {q[1]} \cup ToSet(t)
    BY <2>1, <2>3, Zenon DEF ToSet
  <2>5. ToSet(t) \subseteq ToSet(q)
    BY <2>2, <2>3, Zenon DEF ToSet
  <2>. QED  BY <2>3, <2>4, <2>5
<1>3. ASSUME IsInjective(q) PROVE IsInjective(t) /\ q[1] \notin ToSet(t)
  <2>1. ASSUME NEW i \in 1..Len(t), NEW j \in 1..Len(t), t[i] = t[j] PROVE i = j
    <3>1. /\ i + 1 \in 1..Len(q) /\ j + 1 \in 1..Len(q)
          /\ q[i + 1] = q[j + 1]
      BY <1>1, <2>1
    <3>2. i + 1 = j + 1
      BY <1>3, <3>1 DEF IsInjective
    <3>. QED  BY <3>2
  <2>2. ASSUME NEW i \in 1..Len(t) PROVE t[i] # q[1]
    <3>1. i + 1 \in 1..Len(q) /\ t[i] = q[i + 1] /\ i + 1 # 1
      BY <1>1
    <3>. QED  BY <1>1, <1>3, <3>1 DEF IsInjective
  <2>. QED  BY <1>1, <2>1, <2>2 DEF IsInjective, ToSet
<1>. QED  BY <1>1, <1>2, <1>3 DEF t

\* A drain divides the buffer.
LEMMA DrainDivides ==
  ASSUME NEW b \in Seq(Samples), NEW n \in Nat
  PROVE  LET d == DrainMax(b, n) IN
           /\ d.out \in Seq(Samples) /\ d.rest \in Seq(Samples) /\ Len(d.rest) <= Len(b)
           /\ ToSet(d.out) \cup ToSet(d.rest) = ToSet(b)
           /\ IsInjective(b) =>
                /\ IsInjective(d.out) /\ IsInjective(d.rest)
                /\ ToSet(d.out) \cap ToSet(d.rest) = {}
<1>1. CASE Len(b) <= n
  BY <1>1 DEF DrainMax, ToSet, IsInjective
<1>2. CASE Len(b) > n
  <2> DEFINE o == SubSeq(b, 1, n)
             r == SubSeq(b, n + 1, Len(b))
  <2>1. DrainMax(b, n).out = o /\ DrainMax(b, n).rest = r
    BY <1>2 DEF DrainMax
  <2>2. /\ o \in Seq(Samples) /\ Len(o) = n /\ \A i \in 1..n : o[i] = b[i]
        /\ r \in Seq(Samples) /\ Len(r) = Len(b) - n /\ \A i \in 1..Len(b) - n : r[i] = b[n + i]
    BY <1>2
  <2> HIDE DEF o, r
  <2>3. ToSet(o) \cup ToSet(r) = ToSet(b)
    <3>1. ASSUME NEW i \in 1..Len(b) PROVE b[i] \in ToSet(o) \cup ToSet(r)
      <4>1. CASE i <= n
        BY <2>2, <4>1 DEF ToSet
      <4>2. CASE i > n
        <5>1. i - n \in 1..Len(r) /\ r[i - n] = b[i]
          BY <1>2, <2>2, <4>2
        <5>. QED  BY <2>2, <5>1 DEF ToSet
      <4>. QED  BY <4>1, <4>2
    <3>2. ASSUME NEW i \in 1..n PROVE o[i] \in ToSet(b)
      <4>1. i \in 1..Len(b) /\ o[i] = b[i]
        BY <1>2, <2>2
      <4>. QED  BY <4>1 DEF ToSet
    <3>3. ASSUME NEW i \in 1..Len(b) - n PROVE r[i] \in ToSet(b)
      <4>1. n + i \in 1..Len(b) /\ r[i] = b[n + i]
        BY <1>2, <2>2
      <4>. QED  BY <4>1 DEF ToSet
    <3>4. DOMAIN b = 1..Len(b) /\ DOMAIN o = 1..n /\ DOMAIN r = 1..Len(b) - n
      BY <2>2
    <3>. QED  BY <3>1, <3>2, <3>3, <3>4, Zenon DEF ToSet
  <2>4. ASSUME IsInjective(b)
        PROVE  IsInjective(o) /\ IsInjective(r) /\ ToSet(o) \cap ToSet(r) = {}
    <3>1. IsInjective(o)
      BY <1>2, <2>2, <2>4 DEF IsInjective
    <3>2. ASSUME NEW i \in 1..Len(b) - n, NEW j \in 1..Len(b) - n, r[i] = r[j] PROVE i = j
      <4>1. n + i \in 1..Len(b) /\ n + j \in 1..Len(b) /\ b[n + i] = b[n + j]
        BY <1>2, <2>2, <3>2
      <4>2. n + i = n + j
        BY <2>4, <4>1 DEF IsInjective
      <4>. QED  BY <4>2
    <3>3. ASSUME NEW i \in 1..n, NEW j \in 1..Len(b) - n PROVE o[i] # r[j]
      <4>1. i \in 1..Len(b) /\ n + j \in 1..Len(b) /\ i # n + j /\ r[j] = b[n + j] /\ o[i] = b[i]
        BY <1>2, <2>2
      <4>. QED  BY <2>4, <4>1 DEF IsInjective
    <3>4. DOMAIN o = 1..n /\ DOMAIN r = 1..Len(b) - n
      BY <2>2
    <3>. QED  BY <3>1, <3>2, <3>3, <3>4 DEF ToSet, IsInjective
  <2>. QED  BY <2>1, <2>2, <2>3, <2>4
<1>. QED  BY <1>1, <1>2

\* The loop of PushAll, as a function of the samples pushed so far.
IsQueue(f, b, q, N) == f = [n \in 0..N |-> IF n = 0 THEN b ELSE Push(f[n - 1], q[n])]

\* There is such a function, for every number of rounds: it grows by one round.
LEMMA QueueExists ==
  ASSUME NEW b, NEW q, NEW N \in Nat
  PROVE  \E f : IsQueue(f, b, q, N)
<1> DEFINE Bad == {n \in Nat : ~ \E f : IsQueue(f, b, q, n)}
<1>1. SUFFICES ASSUME Bad # {} PROVE FALSE
  OBVIOUS
<1>2. PICK m \in Bad : \A n \in Bad : m <= n
  BY <1>1, LeastNumber
<1>3. CASE m = 0
  <2>1. IsQueue([n \in 0..0 |-> b], b, q, 0)
    BY DEF IsQueue
  <2>. QED  BY <1>3, <2>1
<1>4. CASE m # 0
  <2>1. m - 1 \in Nat /\ m - 1 \notin Bad
    BY <1>2, <1>4
  <2>2. PICK f : IsQueue(f, b, q, m - 1)
    BY <2>1
  <2> DEFINE g == [n \in 0..m |-> IF n < m THEN f[n] ELSE Push(f[m - 1], q[m])]
             h == [n \in 0..m |-> IF n = 0 THEN b ELSE Push(g[n - 1], q[n])]
  <2>3. \A n \in 0..m - 1 : f[n] = IF n = 0 THEN b ELSE Push(f[n - 1], q[n])
    BY <2>2 DEF IsQueue
  <2>4. ASSUME NEW n \in 0..m PROVE g[n] = h[n]
    <3>1. CASE n < m
      BY <2>1, <2>3, <3>1
    <3>2. CASE n = m
      BY <1>4, <2>1, <3>2
    <3>. QED  BY <2>1, <3>1, <3>2
  <2>5. IsQueue(g, b, q, m)
    BY <2>4 DEF IsQueue
  <2>. QED  BY <2>5
<1>. QED  BY <1>3, <1>4

LEMMA PushAllRounds ==
  ASSUME NEW b \in Seq(Samples), NEW q \in Seq(Samples)
  PROVE  \E f : /\ PushAll(b, q) = f[Len(q)] /\ f[0] = b
                /\ \A n \in 1..Len(q) : f[n] = Push(f[n - 1], q[n])
<1> DEFINE f == CHOOSE f : IsQueue(f, b, q, Len(q))
<1>1. IsQueue(f, b, q, Len(q))
  <2>1. Len(q) \in Nat
    OBVIOUS
  <2>. QED  BY <2>1, QueueExists
<1>2. PushAll(b, q) = f[Len(q)]
  BY DEF PushAll, IsQueue
<1> HIDE DEF f
<1>3. f[0] = b /\ \A n \in 1..Len(q) : f[n] = Push(f[n - 1], q[n])
  BY <1>1 DEF IsQueue
<1>. QED  BY <1>2, <1>3

\* A backlog that is pushed back keeps its samples, but for those a full buffer
\* sheds, and no sample twice.
LEMMA PushAllSheds ==
  ASSUME NEW b \in Seq(Samples), Len(b) <= BufferCap, NEW q \in Seq(Samples)
  PROVE  LET p == PushAll(b, q) IN
           /\ p \in Seq(Samples) /\ Len(p) <= BufferCap
           /\ ToSet(p) \subseteq ToSet(b) \cup ToSet(q)
           /\ ToSet(b) \cup ToSet(q) \subseteq ToSet(p) \/ Len(p) = BufferCap
           /\ IsInjective(b) /\ IsInjective(q) /\ ToSet(b) \cap ToSet(q) = {} => IsInjective(p)
<1> DEFINE N == Len(q)
           Pre(n) == {q[i] : i \in 1..n}
           Fresh == IsInjective(b) /\ IsInjective(q) /\ ToSet(b) \cap ToSet(q) = {}
<1>0. N \in Nat /\ DOMAIN q = 1..N /\ \A i \in 1..N : q[i] \in Samples
  OBVIOUS
<1>1. PICK f : PushAll(b, q) = f[N] /\ f[0] = b /\ \A n \in 1..N : f[n] = Push(f[n - 1], q[n])
  BY PushAllRounds, Zenon
<1> DEFINE Good(n) == /\ f[n] \in Seq(Samples) /\ Len(f[n]) <= BufferCap
                      /\ ToSet(f[n]) \subseteq ToSet(b) \cup Pre(n)
                      /\ ToSet(b) \cup Pre(n) \subseteq ToSet(f[n]) \/ Len(f[n]) = BufferCap
                      /\ Fresh => IsInjective(f[n])
<1> HIDE DEF N
<1>2. Good(0)
  <2>1. Pre(0) = {}
    OBVIOUS
  <2>. QED  BY <1>1, <2>1
<1>3. ASSUME NEW n \in 1..N, Good(n - 1) PROVE Good(n)
  <2> DEFINE c == f[n - 1]
             d == f[n]
  <2>1. c \in Seq(Samples) /\ Len(c) <= BufferCap /\ q[n] \in Samples /\ d = Push(c, q[n])
    BY <1>0, <1>1, <1>3
  <2> HIDE DEF c, d
  <2>2. /\ d \in Seq(Samples) /\ Len(d) <= BufferCap /\ Len(c) <= Len(d)
        /\ q[n] \in ToSet(d) /\ ToSet(d) \subseteq ToSet(c) \cup {q[n]}
        /\ ToSet(c) \subseteq ToSet(d) \/ Len(d) = BufferCap
        /\ IsInjective(c) /\ q[n] \notin ToSet(c) => IsInjective(d)
    BY <2>1, PushSheds, Zenon
  <2>3. Pre(n) = Pre(n - 1) \cup {q[n]}
    <3>1. 1..n = 1..n - 1 \cup {n}
      BY <1>0
    <3>. QED  BY <3>1
  <2>4. Fresh => q[n] \notin ToSet(b) \cup Pre(n - 1)
    <3>1. q[n] \in ToSet(q)
      BY <1>0 DEF ToSet
    <3>2. ASSUME IsInjective(q), NEW i \in 1..n - 1 PROVE q[i] # q[n]
      <4>1. i \in 1..N /\ n \in 1..N /\ i # n
        BY <1>0
      <4>. QED  BY <1>0, <3>2, <4>1 DEF IsInjective
    <3>. QED  BY <3>1, <3>2
  <2>5. /\ ToSet(c) \subseteq ToSet(b) \cup Pre(n - 1)
        /\ ToSet(b) \cup Pre(n - 1) \subseteq ToSet(c) \/ Len(c) = BufferCap
        /\ Fresh => IsInjective(c)
    BY <1>3 DEF c
  <2>6. Len(c) \in Nat /\ Len(d) \in Nat
    BY <2>1, <2>2
  <2> HIDE DEF Pre, Fresh
  <2>7. /\ ToSet(d) \subseteq ToSet(b) \cup Pre(n)
        /\ Fresh => IsInjective(d)
    BY <2>2, <2>3, <2>4, <2>5
  <2>8. ToSet(b) \cup Pre(n) \subseteq ToSet(d) \/ Len(d) = BufferCap
    BY <2>2, <2>3, <2>5, <2>6
  <2>. QED  BY <2>2, <2>7, <2>8 DEF d
<1>4. \A n \in 0..N : Good(n)
  <2> DEFINE Bad == {n \in 0..N : ~Good(n)}
  <2> HIDE DEF Good
  <2>1. SUFFICES ASSUME Bad # {} PROVE FALSE
    OBVIOUS
  <2>2. Bad \in SUBSET Nat
    BY <1>0
  <2>3. PICK m \in Bad : \A n \in Bad : m <= n
    BY <2>1, <2>2, LeastNumber
  <2>4. m # 0
    BY <1>2, <2>3
  <2>5. m \in 1..N /\ m - 1 \in 0..N /\ ~(m <= m - 1)
    BY <1>0, <2>3, <2>4
  <2>6. Good(m - 1)
    BY <2>3, <2>5
  <2>7. Good(m)
    BY <1>3, <2>5, <2>6
  <2>. QED  BY <2>3, <2>7
<1>5. Pre(N) = ToSet(q)
  BY <1>0 DEF ToSet
<1>6. Good(N)
  <2> HIDE DEF Good
  <2>. QED  BY <1>0, <1>4
<1>. QED  BY <1>1, <1>5, <1>6

------------------------------------------------------------------------------
(* Places *)

\* What a sequence of samples holds are samples, no more than it is long.
LEMMA HeldByQueue ==
  ASSUME NEW q \in Seq(Samples)
  PROVE  /\ ToSet(q) \subseteq Samples
         /\ IsFiniteSet(ToSet(q)) /\ Cardinality(ToSet(q)) <= Len(q)
<1>0. q \in [1..Len(q) -> Samples] /\ Len(q) \in Nat /\ DOMAIN q = 1..Len(q)
  OBVIOUS
<1>1. ToSet(q) = {q[i] : i \in 1..Len(q)}
  BY <1>0, Zenon DEF ToSet
<1>2. \A i \in 1..Len(q) : q[i] \in Samples
  BY <1>0
<1>3. ToSet(q) \subseteq Samples
  BY <1>1, <1>2, Zenon
<1>4. IsFiniteSet(1..Len(q)) /\ Cardinality(1..Len(q)) = Len(q)
  <2>1. \A n \in Nat : IsFiniteSet(1..n) /\ Cardinality(1..n) = n
    <3> TAKE n \in Nat
    <3>1. n \in Int /\ 1 \in Int /\ n - 1 + 1 = n /\ (1 > n => n = 0)
      OBVIOUS
    <3>. QED  BY <3>1, FS_Interval
  <2>. QED  BY <1>0, <2>1
<1>5. q \in Surjection(1..Len(q), ToSet(q))
  BY <1>0, <1>1 DEF Surjection
<1>. QED  BY <1>3, <1>4, <1>5, FS_Surjection

\* The six places of a payload, pair by pair.
Apart(B, L, S, P, Q, D) ==
  /\ B \cap L = {} /\ B \cap S = {} /\ B \cap P = {} /\ B \cap Q = {} /\ B \cap D = {}
  /\ L \cap S = {} /\ L \cap P = {} /\ L \cap Q = {} /\ L \cap D = {}
  /\ S \cap P = {} /\ S \cap Q = {} /\ S \cap D = {}
  /\ P \cap Q = {} /\ P \cap D = {} /\ Q \cap D = {}

LEMMA PlacesApart ==
  ASSUME NEW B, NEW L, NEW S, NEW P, NEW Q, NEW D
  PROVE  LET place == <<B, L, S, P, Q, D>> IN
           (\A p, q \in DOMAIN place : p # q => place[p] \cap place[q] = {})
             <=> Apart(B, L, S, P, Q, D)
<1> DEFINE place == <<B, L, S, P, Q, D>>
<1>1. DOMAIN place = {1, 2, 3, 4, 5, 6}
  OBVIOUS
<1>2. /\ place[1] = B /\ place[2] = L /\ place[3] = S /\ place[4] = P /\ place[5] = Q
      /\ place[6] = D
  OBVIOUS
<1> HIDE DEF place
<1>3. (\A p, q \in DOMAIN place : p # q => place[p] \cap place[q] = {})
        => Apart(B, L, S, P, Q, D)
  BY <1>1, <1>2 DEF Apart
<1>4. Apart(B, L, S, P, Q, D) =>
        (\A p, q \in DOMAIN place : p # q => place[p] \cap place[q] = {})
  BY <1>1, <1>2 DEF Apart
<1>. QED  BY <1>3, <1>4 DEF place

\* What fails to be delivered, in a set of results.
LEMMA UnsentOf ==
  /\ Unsent({}) = {}
  /\ \A r : Unsent({r}) = IF r.err THEN {r.of} ELSE {}
  /\ \A R \in SUBSET Result : Unsent(R) \subseteq Samples
BY DEF Unsent, Result

\* The channel holds one result at most.
LEMMA ChannelHolds ==
  ASSUME NEW q \in Seq(Result), Len(q) <= 1
  PROVE  IF q = <<>> THEN ToSet(q) = {}
         ELSE q[1] \in Result /\ Len(q) = 1 /\ ToSet(q) = {q[1]}
<1>1. CASE q = <<>>
  BY <1>1 DEF ToSet
<1>2. CASE q # <<>>
  <2>0. Len(q) \in Nat /\ Len(q) # 0 /\ DOMAIN q = 1..Len(q)
    BY <1>2
  <2>1. Len(q) = 1 /\ DOMAIN q = {1} /\ q[1] \in Result
    <3>1. Len(q) = 1
      BY <2>0
    <3>. QED  BY <2>0, <3>1
  <2>2. ToSet(q) = {q[1]}
    BY <2>1 DEF ToSet
  <2>. QED  BY <1>2, <2>1, <2>2
<1>. QED  BY <1>1, <1>2

\* There is a free sample id for a tick: the buffer, a post and a result that
\* waits hold fewer than there are.
LEMMA FreeSample ==
  ASSUME IInv, at = "select"
  PROVE  \E s \in Samples : s \notin Held
<1>1. /\ buf \in Seq(Samples) /\ Len(buf) <= BufferCap /\ sample = NULL /\ backlog = <<>>
      /\ BufferCap \in Nat
  BY DEF IInv, TypeOK, Ticking
<1>2. /\ IsFiniteSet(ToSet(buf)) /\ Cardinality(ToSet(buf)) <= BufferCap
      /\ Cardinality(ToSet(buf)) \in Nat
  BY <1>1, HeldByQueue, FS_CardinalityType
<1>3. \E s : posting \cup Unsent(posted) \subseteq {s}
  BY UnsentOf DEF IInv, Gated
<1>4. \E s : Unsent(ToSet(done)) \subseteq {s}
  <2>1. done \in Seq(Result) /\ Len(done) <= 1
    BY DEF IInv, TypeOK
  <2>. QED  BY <2>1, ChannelHolds, UnsentOf
<1>5. PICK s, t : posting \cup Unsent(posted) \subseteq {s} /\ Unsent(ToSet(done)) \subseteq {t}
  BY <1>3, <1>4
<1> DEFINE few == ToSet(buf) \cup {s} \cup {t}
<1>6. Held \subseteq few
  <2>1. ToSet(backlog) = {}
    BY <1>1 DEF ToSet
  <2>. QED  BY <1>1, <1>5, <2>1 DEF Held
<1>7. IsFiniteSet(few) /\ Cardinality(few) <= BufferCap + 2
  <2>1. /\ IsFiniteSet(ToSet(buf) \cup {s})
        /\ Cardinality(ToSet(buf) \cup {s}) \in {Cardinality(ToSet(buf)), Cardinality(ToSet(buf)) + 1}
    BY <1>2, FS_AddElement
  <2>2. /\ IsFiniteSet(few)
        /\ Cardinality(few) \in {Cardinality(ToSet(buf) \cup {s}), Cardinality(ToSet(buf) \cup {s}) + 1}
    BY <2>1, FS_AddElement
  <2>. QED  BY <1>1, <1>2, <2>1, <2>2
<1>8. ~(Samples \subseteq few)
  <2>1. ASSUME Samples \subseteq few PROVE FALSE
    <3>1. Cardinality(Samples) <= Cardinality(few)
      BY <1>7, <2>1, FS_Subset
    <3>2. Cardinality(Samples) \in Nat /\ Cardinality(few) \in Nat
      BY <1>7, FS_CardinalityType
    <3>. QED  BY <1>1, <1>7, <3>1, <3>2
  <2>. QED  BY <2>1
<1>. QED  BY <1>6, <1>8

------------------------------------------------------------------------------
(* The steps *)

\* What is owed, place by place.
Hand == {sample} \ {NULL}
Owed == Unsent(posted)
Waiting == Unsent(ToSet(done))

LEMMA OnePlaceApart ==
  /\ OnePlace <=> /\ IsInjective(buf) /\ IsInjective(backlog)
                  /\ Apart(ToSet(buf), ToSet(backlog), Hand, posting, Owed, Waiting)
  /\ OnePlace' <=> /\ IsInjective(buf') /\ IsInjective(backlog')
                   /\ Apart(ToSet(buf'), ToSet(backlog'), Hand', posting', Owed', Waiting')
BY PlacesApart DEF OnePlace, Places, Hand, Owed, Waiting

\* A sample that is delivered went over the link, or is posted behind a gate that
\* was open.
LEMMA DeliverMoves ==
  ASSUME IInv, NEW s \in Samples, Delivered(s)
  PROVE  /\ UNCHANGED <<net, posted, done>>
         /\ \/ link /\ UNCHANGED <<gate, posting>>
            \/ gate' = TRUE /\ posting = {} /\ posted = {} /\ posting' = {s}
<1>1. CASE SendFrame
  BY <1>1 DEF SendFrame, posts
<1>2. CASE StartPost(s)
  <2>1. posting = {} /\ posted = {}
    BY <1>2 DEF IInv, Gated, StartPost
  <2>. QED  BY <1>2, <2>1 DEF StartPost
<1>. QED  BY <1>1, <1>2 DEF Delivered

\* One that is refused changes the link at most.
LEMMA RefuseMoves ==
  ASSUME TypeOK, Refused
  PROVE  UNCHANGED <<hubUp, posts>> /\ link' \in BOOLEAN
BY DEF Refused, SendFails, Busy, TypeOK, net

\* The types of the parts a step leaves alone.
LEMMA PostsType ==
  ASSUME TypeOK, UNCHANGED posts
  PROVE  /\ gate' \in BOOLEAN /\ posting' \subseteq Samples /\ posted' \subseteq Result
         /\ done' \in Seq(Result) /\ Len(done') <= 1
BY DEF TypeOK, posts

LEMMA InitHolds == Init => IInv
<1> SUFFICES ASSUME Init PROVE IInv
  OBVIOUS
<1>1. TypeOK
  <2>1. hubUp \in BOOLEAN /\ link \in BOOLEAN /\ gate \in BOOLEAN
    BY Zenon DEF Init
  <2>2. done \in Seq(Result) /\ Len(done) <= 1
    BY DEF Init
  <2>. QED  BY <2>1, <2>2 DEF Init, TypeOK
<1>2. Ticking /\ Gated /\ Len(buf) <= BufferCap
  BY DEF Init, Ticking, Gated
<1>3. OnePlace
  <2>1. /\ ToSet(buf) = {} /\ ToSet(backlog) = {} /\ Hand = {} /\ Owed = {} /\ Waiting = {}
        /\ posting = {}
    BY DEF Init, ToSet, Hand, Owed, Waiting, Unsent
  <2>2. IsInjective(buf) /\ IsInjective(backlog)
    BY DEF Init, IsInjective
  <2>3. Apart(ToSet(buf), ToSet(backlog), Hand, posting, Owed, Waiting)
    BY <2>1 DEF Apart
  <2>. QED  BY <2>2, <2>3, OnePlaceApart
<1>. QED  BY <1>1, <1>2, <1>3 DEF IInv

\* A tick takes the samples it drains out of the buffer and a new one in hand.
LEMMA CollectKeeps == IInv /\ Collect => IInv' /\ SheddingStep
<1> SUFFICES ASSUME IInv, Collect PROVE IInv' /\ SheddingStep
  OBVIOUS
<1>0. /\ TypeOK /\ buf \in Seq(Samples) /\ PerTick \in Nat /\ Len(buf) <= BufferCap
      /\ sample = NULL /\ backlog = <<>> /\ at = "select"
  BY DEF IInv, TypeOK, Ticking, Collect
<1> DEFINE d == DrainMax(buf, PerTick)
<1>1. PICK s \in Samples : s \notin Held /\ sample' = s
  BY <1>0, FreeSample DEF Collect
<1>2. backlog' = d.out /\ buf' = d.rest /\ at' = "tick" /\ UNCHANGED <<hubUp, posts>>
  BY DEF Collect
<1>3. link' \in BOOLEAN
  BY <1>0 DEF Collect, TypeOK
<1>4. /\ d.out \in Seq(Samples) /\ d.rest \in Seq(Samples) /\ Len(d.rest) <= Len(buf)
      /\ ToSet(d.out) \cup ToSet(d.rest) = ToSet(buf)
      /\ IsInjective(buf) =>
           /\ IsInjective(d.out) /\ IsInjective(d.rest)
           /\ ToSet(d.out) \cap ToSet(d.rest) = {}
  BY <1>0, DrainDivides
<1> HIDE DEF d
<1>5. TypeOK'
  BY <1>0, <1>1, <1>2, <1>3, <1>4, PostsType DEF TypeOK
<1>6. Len(buf') <= BufferCap
  BY <1>0, <1>2, <1>4
<1>7. Ticking' /\ Gated'
  BY <1>1, <1>2, SampleAssumption DEF IInv, Ticking, Gated, posts
<1>8. /\ Owed' = Owed /\ Waiting' = Waiting /\ posting' = posting /\ Hand' = {s} /\ Hand = {}
      /\ ToSet(backlog) = {}
  BY <1>0, <1>1, <1>2, SampleAssumption DEF Owed, Waiting, Hand, posts, Unsent, ToSet
<1>9. OnePlace'
  <2>1. /\ IsInjective(buf)
        /\ Apart(ToSet(buf), ToSet(backlog), Hand, posting, Owed, Waiting)
    BY OnePlaceApart DEF IInv
  <2>2. s \notin ToSet(buf) \cup posting \cup Owed \cup Waiting
    BY <1>1 DEF Held, Owed, Waiting
  <2>3. Apart(ToSet(buf'), ToSet(backlog'), Hand', posting', Owed', Waiting')
    BY <1>2, <1>4, <1>8, <2>1, <2>2 DEF Apart
  <2>. QED  BY <1>2, <1>4, <2>1, <2>3, OnePlaceApart
<1>10. SheddingStep
  <2>1. Held \subseteq Held'
    BY <1>2, <1>4, <1>8 DEF Held, Hand, Owed, Waiting
  <2>. QED  BY <2>1 DEF SheddingStep
<1>. QED  BY <1>5, <1>6, <1>7, <1>9, <1>10 DEF IInv

\* The head of the backlog is delivered.
LEMMA FlushSends ==
  ASSUME IInv, backlog # <<>>, Delivered(Head(backlog)), backlog' = Tail(backlog),
         buf' = buf, UNCHANGED <<at, sample>>, at = "tick"
  PROVE  IInv' /\ SheddingStep
<1> DEFINE h == Head(backlog)
           T == ToSet(Tail(backlog))
<1>0. TypeOK /\ backlog \in Seq(Samples)
  BY DEF IInv, TypeOK
<1>1. /\ h \in Samples /\ Tail(backlog) \in Seq(Samples) /\ ToSet(backlog) = {h} \cup T
      /\ IsInjective(backlog) => IsInjective(Tail(backlog)) /\ h \notin T
  BY <1>0, HeadAndTail
<1> HIDE DEF h
<1>2. /\ UNCHANGED <<net, posted, done>>
      /\ \/ link /\ UNCHANGED <<gate, posting>>
         \/ gate' = TRUE /\ posting = {} /\ posted = {} /\ posting' = {h}
  BY <1>1, DeliverMoves DEF h
<1>3. gate' \in BOOLEAN /\ posting' \subseteq Samples
  BY <1>0, <1>1, <1>2 DEF TypeOK
<1>4. TypeOK'
  BY <1>0, <1>1, <1>2, <1>3 DEF TypeOK, net
<1>5. Ticking' /\ Gated'
  BY <1>1, <1>2 DEF IInv, Ticking, Gated
<1>6. Owed' = Owed /\ Waiting' = Waiting /\ Hand' = Hand
  BY <1>2 DEF Owed, Waiting, Hand, Unsent
<1>7. OnePlace'
  <2>1. /\ IsInjective(buf) /\ IsInjective(backlog)
        /\ Apart(ToSet(buf), ToSet(backlog), Hand, posting, Owed, Waiting)
    BY OnePlaceApart DEF IInv
  <2>2. Apart(ToSet(buf'), ToSet(backlog'), Hand', posting', Owed', Waiting')
    BY <1>1, <1>2, <1>6, <2>1 DEF Apart
  <2>. QED  BY <1>1, <2>1, <2>2, OnePlaceApart
<1>8. SheddingStep
  <2>1. ASSUME NEW s \in Held \ Held' PROVE s = h /\ link /\ UNCHANGED <<gate, posting>>
    BY <1>1, <1>2, <1>6, <2>1 DEF Held, Hand, Owed, Waiting
  <2>2. h = Handed
    BY DEF h, Handed
  <2>. QED  BY <1>2, <2>1, <2>2 DEF SheddingStep, SendFrame, posts
<1>. QED  BY <1>4, <1>5, <1>7, <1>8 DEF IInv

\* What is left of a backlog that is refused goes back to the buffer.
LEMMA FlushRefused ==
  ASSUME IInv, Refused, backlog' = <<>>, buf' = PushAll(buf, backlog),
         UNCHANGED <<at, sample>>, at = "tick"
  PROVE  IInv' /\ SheddingStep
<1>0. /\ TypeOK /\ buf \in Seq(Samples) /\ backlog \in Seq(Samples) /\ Len(buf) <= BufferCap
  BY DEF IInv, TypeOK
<1>1. UNCHANGED <<hubUp, posts>> /\ link' \in BOOLEAN
  BY <1>0, RefuseMoves
<1>2. /\ buf' \in Seq(Samples) /\ Len(buf') <= BufferCap
      /\ ToSet(buf') \subseteq ToSet(buf) \cup ToSet(backlog)
      /\ ToSet(buf) \cup ToSet(backlog) \subseteq ToSet(buf') \/ Len(buf') = BufferCap
      /\ IsInjective(buf) /\ IsInjective(backlog) /\ ToSet(buf) \cap ToSet(backlog) = {}
           => IsInjective(buf')
  BY <1>0, PushAllSheds
<1>3. TypeOK'
  BY <1>0, <1>1, <1>2, PostsType DEF TypeOK
<1>4. Ticking' /\ Gated'
  BY <1>1 DEF IInv, Ticking, Gated, posts
<1>5. /\ Owed' = Owed /\ Waiting' = Waiting /\ Hand' = Hand /\ posting' = posting
      /\ ToSet(backlog') = {} /\ IsInjective(backlog')
  BY <1>1 DEF Owed, Waiting, Hand, Unsent, ToSet, posts, IsInjective
<1>6. OnePlace'
  <2>1. /\ IsInjective(buf) /\ IsInjective(backlog)
        /\ Apart(ToSet(buf), ToSet(backlog), Hand, posting, Owed, Waiting)
    BY OnePlaceApart DEF IInv
  <2>2. Apart(ToSet(buf'), ToSet(backlog'), Hand', posting', Owed', Waiting')
    BY <1>2, <1>5, <2>1 DEF Apart
  <2>3. IsInjective(buf')
    BY <1>2, <2>1 DEF Apart
  <2>. QED  BY <1>5, <2>2, <2>3, OnePlaceApart
<1>7. SheddingStep
  <2>1. ASSUME NEW s \in Held \ Held'
        PROVE  Len(buf') = BufferCap /\ s \in ToSet(buf) \cup ToSet(backlog)
    BY <1>2, <1>5, <2>1 DEF Held, Hand, Owed, Waiting
  <2>. QED  BY <2>1 DEF SheddingStep
<1>. QED  BY <1>2, <1>3, <1>4, <1>6, <1>7 DEF IInv

LEMMA FlushKeeps == IInv /\ Flush => IInv' /\ SheddingStep
BY FlushSends, FlushRefused DEF Flush

\* The live sample is delivered, or pushed.
LEMMA LiveKeeps == IInv /\ DeliverLive => IInv' /\ SheddingStep
<1> SUFFICES ASSUME IInv, DeliverLive PROVE IInv' /\ SheddingStep
  OBVIOUS
<1>0. /\ TypeOK /\ buf \in Seq(Samples) /\ Len(buf) <= BufferCap /\ sample \in Samples
      /\ sample # NULL /\ backlog = <<>> /\ backlog' = backlog /\ at' = "select" /\ sample' = NULL
  BY DEF IInv, TypeOK, Ticking, DeliverLive
<1>a. /\ IsInjective(buf) /\ IsInjective(backlog)
      /\ Apart(ToSet(buf), ToSet(backlog), Hand, posting, Owed, Waiting)
  BY OnePlaceApart DEF IInv
<1>b. Hand = {sample} /\ Hand' = {} /\ Ticking'
  BY <1>0 DEF Hand, Ticking
<1>1. CASE Delivered(sample) /\ buf' = buf
  <2>1. /\ UNCHANGED <<net, posted, done>>
        /\ \/ link /\ UNCHANGED <<gate, posting>>
           \/ gate' = TRUE /\ posting = {} /\ posted = {} /\ posting' = {sample}
    BY <1>0, <1>1, DeliverMoves
  <2>2. gate' \in BOOLEAN /\ posting' \subseteq Samples
    BY <1>0, <2>1 DEF TypeOK
  <2>3. TypeOK'
    BY <1>0, <1>1, <2>1, <2>2 DEF TypeOK, net
  <2>4. Gated'
    BY <1>0, <2>1 DEF IInv, Gated
  <2>5. Owed' = Owed /\ Waiting' = Waiting
    BY <2>1 DEF Owed, Waiting, Unsent
  <2>6. Apart(ToSet(buf'), ToSet(backlog'), Hand', posting', Owed', Waiting')
    BY <1>0, <1>1, <1>a, <1>b, <2>1, <2>5 DEF Apart
  <2>7. OnePlace'
    BY <1>0, <1>1, <1>a, <2>6, OnePlaceApart
  <2>8. ASSUME NEW s \in Held \ Held'
        PROVE  s = sample /\ link /\ UNCHANGED <<gate, posting>>
    BY <1>0, <1>1, <1>b, <2>1, <2>5, <2>8 DEF Held, Hand, Owed, Waiting
  <2>9. SheddingStep
    <3>1. at = "tick" /\ sample = Handed
      BY <1>0 DEF DeliverLive, Handed
    <3>. QED  BY <2>1, <2>8, <3>1 DEF SheddingStep, SendFrame, posts
  <2>. QED  BY <1>0, <1>1, <1>b, <2>3, <2>4, <2>7, <2>9 DEF IInv
<1>2. CASE Refused /\ buf' = Push(buf, sample)
  <2>1. UNCHANGED <<hubUp, posts>> /\ link' \in BOOLEAN
    BY <1>0, <1>2, RefuseMoves
  <2>2. /\ buf' \in Seq(Samples) /\ Len(buf') <= BufferCap
        /\ sample \in ToSet(buf') /\ ToSet(buf') \subseteq ToSet(buf) \cup {sample}
        /\ ToSet(buf) \subseteq ToSet(buf') \/ Len(buf') = BufferCap
        /\ IsInjective(buf) /\ sample \notin ToSet(buf) => IsInjective(buf')
    BY <1>0, <1>2, PushSheds
  <2>3. TypeOK'
    BY <1>0, <2>1, <2>2, PostsType DEF TypeOK
  <2>4. Gated'
    BY <2>1 DEF IInv, Gated, posts
  <2>5. Owed' = Owed /\ Waiting' = Waiting /\ posting' = posting
    BY <2>1 DEF Owed, Waiting, Unsent, posts
  <2>6. Apart(ToSet(buf'), ToSet(backlog'), Hand', posting', Owed', Waiting')
    BY <1>0, <1>a, <1>b, <2>2, <2>5 DEF Apart
  <2>7. IsInjective(buf')
    BY <1>a, <1>b, <2>2 DEF Apart
  <2>8. OnePlace'
    BY <1>0, <1>a, <2>6, <2>7, OnePlaceApart
  <2>9. ASSUME NEW s \in Held \ Held'
        PROVE  Len(buf') = BufferCap /\ s \in ToSet(buf) \cup ToSet(backlog)
    BY <1>0, <1>b, <2>2, <2>5, <2>9 DEF Held, Hand, Owed, Waiting
  <2>10. SheddingStep
    BY <2>9 DEF SheddingStep
  <2>. QED  BY <1>b, <2>2, <2>3, <2>4, <2>8, <2>10 DEF IInv
<1>. QED  BY <1>1, <1>2 DEF DeliverLive

\* A result is taken from the channel, and its sample pushed when it failed.
LEMMA ReceiveKeeps == IInv /\ Receive => IInv' /\ SheddingStep
<1> SUFFICES ASSUME IInv, Receive PROVE IInv' /\ SheddingStep
  OBVIOUS
<1> DEFINE r == done[1]
<1>0. /\ TypeOK /\ buf \in Seq(Samples) /\ Len(buf) <= BufferCap /\ done' = <<>>
      /\ UNCHANGED <<net, loop, gate, posting, posted>>
      /\ buf' = IF r.err THEN Push(buf, r.of) ELSE buf
  BY DEF IInv, TypeOK, Receive
<1>1. r \in Result /\ ToSet(done) = {r}
  <2>1. done \in Seq(Result) /\ Len(done) <= 1 /\ done # <<>>
    BY DEF IInv, TypeOK, Receive
  <2>. QED  BY <2>1, ChannelHolds
<1>2. Waiting = IF r.err THEN {r.of} ELSE {}
  BY <1>1, UnsentOf DEF Waiting
<1>3. Waiting' = {}
  <2>1. ToSet(done') = {}
    BY <1>0 DEF ToSet
  <2>. QED  BY <2>1, UnsentOf DEF Waiting
<1>4. /\ Owed' = Owed /\ Hand' = Hand /\ posting' = posting /\ backlog' = backlog
      /\ Ticking' /\ Gated'
  BY <1>0 DEF IInv, Owed, Hand, Unsent, Ticking, Gated, loop
<1>a. /\ IsInjective(buf) /\ IsInjective(backlog)
      /\ Apart(ToSet(buf), ToSet(backlog), Hand, posting, Owed, Waiting)
  BY OnePlaceApart DEF IInv
<1>5. r.of \in Samples /\ done' \in Seq(Result) /\ Len(done') <= 1
  BY <1>0, <1>1 DEF Result
<1> HIDE DEF r
<1>6. CASE r.err
  <2>1. buf' = Push(buf, r.of) /\ Waiting = {r.of}
    BY <1>0, <1>2, <1>6
  <2>2. /\ buf' \in Seq(Samples) /\ Len(buf') <= BufferCap
        /\ r.of \in ToSet(buf') /\ ToSet(buf') \subseteq ToSet(buf) \cup {r.of}
        /\ ToSet(buf) \subseteq ToSet(buf') \/ Len(buf') = BufferCap
        /\ IsInjective(buf) /\ r.of \notin ToSet(buf) => IsInjective(buf')
    BY <1>0, <1>5, <2>1, PushSheds
  <2>3. TypeOK'
    BY <1>0, <1>5, <2>2 DEF TypeOK, net, loop
  <2>4. Apart(ToSet(buf'), ToSet(backlog'), Hand', posting', Owed', Waiting')
    BY <1>3, <1>4, <1>a, <2>1, <2>2 DEF Apart
  <2>5. IsInjective(buf')
    BY <1>a, <2>1, <2>2 DEF Apart
  <2>6. OnePlace'
    BY <1>4, <1>a, <2>4, <2>5, OnePlaceApart
  <2>7. ASSUME NEW s \in Held \ Held'
        PROVE  Len(buf') = BufferCap /\ s \in ToSet(buf) \cup ToSet(backlog)
    BY <1>4, <2>1, <2>2, <2>7 DEF Held, Hand, Owed, Waiting
  <2>8. SheddingStep
    BY <2>7 DEF SheddingStep
  <2>. QED  BY <1>4, <2>2, <2>3, <2>6, <2>8 DEF IInv
<1>7. CASE ~r.err
  <2>1. buf' = buf /\ Waiting = {}
    BY <1>0, <1>2, <1>7
  <2>2. TypeOK'
    BY <1>0, <1>5, <2>1 DEF TypeOK, net, loop
  <2>3. OnePlace'
    BY <1>3, <1>4, <1>a, <2>1, OnePlaceApart
  <2>4. Held \subseteq Held'
    BY <1>4, <2>1 DEF Held, Hand, Owed, Waiting
  <2>5. SheddingStep
    BY <2>4 DEF SheddingStep
  <2>. QED  BY <1>0, <1>4, <2>1, <2>2, <2>3, <2>5 DEF IInv
<1>. QED  BY <1>6, <1>7

\* A post that returns leaves its result, with the error the hub's state makes.
LEMMA PostReturnsKeeps == IInv /\ PostReturns => IInv' /\ SheddingStep
<1> SUFFICES ASSUME IInv, PostReturns PROVE IInv' /\ SheddingStep
  OBVIOUS
<1>0. TypeOK
  BY DEF IInv
<1>1. PICK s \in posting :
        /\ posting' = posting \ {s}
        /\ posted' = posted \cup {[of |-> s, err |-> ~hubUp]}
        /\ UNCHANGED <<net, loop, buf, gate, done>>
  BY DEF PostReturns
<1>2. PICK r : r = [of |-> s, err |-> ~hubUp]
  OBVIOUS
<1>3. r \in Result /\ r.of = s /\ (r.err <=> ~hubUp) /\ s \in Samples
  <2>1. s \in Samples
    BY <1>0, <1>1 DEF TypeOK
  <2>2. (~hubUp) \in BOOLEAN
    BY Zenon
  <2>3. r \in Result
    BY <1>2, <2>1, <2>2, Zenon DEF Result
  <2>4. r.of = s /\ r.err = ~hubUp
    BY <1>2, Zenon
  <2>. QED  BY <2>1, <2>3, <2>4
<1>4. posting = {s} /\ posted = {} /\ gate
  BY <1>1 DEF IInv, Gated
<1>5. posting' = {} /\ posted' = {r}
  BY <1>1, <1>2, <1>4
<1>6. TypeOK'
  BY <1>0, <1>1, <1>3, <1>5 DEF TypeOK, net, loop
<1>7. Ticking' /\ Gated'
  BY <1>1, <1>3, <1>4, <1>5 DEF IInv, Ticking, Gated, loop
<1>8. /\ Owed = {} /\ Owed' = IF r.err THEN {s} ELSE {}
      /\ Waiting' = Waiting /\ Hand' = Hand /\ buf' = buf /\ backlog' = backlog
  BY <1>1, <1>3, <1>4, <1>5, UnsentOf DEF Owed, Waiting, Hand, loop
<1>a. /\ IsInjective(buf) /\ IsInjective(backlog)
      /\ Apart(ToSet(buf), ToSet(backlog), Hand, posting, Owed, Waiting)
  BY OnePlaceApart DEF IInv
<1>9. OnePlace'
  <2>1. Apart(ToSet(buf'), ToSet(backlog'), Hand', posting', Owed', Waiting')
    BY <1>4, <1>5, <1>8, <1>a DEF Apart
  <2>. QED  BY <1>8, <1>a, <2>1, OnePlaceApart
<1>10. SheddingStep
  <2>1. ASSUME NEW x \in Held \ Held' PROVE [of |-> x, err |-> FALSE] \in posted'
    <3>1. x = s /\ ~r.err
      BY <1>4, <1>5, <1>8, <2>1 DEF Held, Hand, Owed, Waiting
    <3>2. hubUp = TRUE
      BY <1>0, <1>3, <3>1 DEF TypeOK
    <3>. QED  BY <1>2, <1>5, <3>1, <3>2
  <2>. QED  BY <2>1 DEF SheddingStep
<1>. QED  BY <1>6, <1>7, <1>8, <1>9, <1>10 DEF IInv

\* The result gets into the channel, and the gate opens.
LEMMA ReportKeeps == IInv /\ Report => IInv' /\ SheddingStep
<1> SUFFICES ASSUME IInv, Report PROVE IInv' /\ SheddingStep
  OBVIOUS
<1>0. TypeOK /\ done = <<>>
  BY DEF IInv, Report
<1>1. PICK r \in posted :
        /\ done' = <<r>> /\ posted' = posted \ {r}
        /\ gate' = FALSE
        /\ UNCHANGED <<net, loop, buf, posting>>
  BY DEF Report
<1>2. posted = {r} /\ posting = {} /\ r \in Result
  BY <1>0, <1>1 DEF IInv, Gated, TypeOK
<1>3. posted' = {}
  BY <1>1, <1>2
<1>4. done' \in Seq(Result) /\ Len(done') <= 1 /\ ToSet(done') = {r}
  <2>1. done' \in Seq(Result) /\ Len(done') = 1 /\ DOMAIN done' = {1} /\ done'[1] = r
    BY <1>1, <1>2
  <2>. QED  BY <2>1 DEF ToSet
<1>5. TypeOK'
  BY <1>0, <1>1, <1>3, <1>4 DEF TypeOK, net, loop
<1>6. Ticking' /\ Gated'
  BY <1>1, <1>2, <1>3 DEF IInv, Ticking, Gated, loop
<1>7. /\ Waiting = {} /\ Waiting' = Owed /\ Owed' = {} /\ posting' = posting
      /\ Hand' = Hand /\ buf' = buf /\ backlog' = backlog
  <2>1. ToSet(done) = {}
    BY <1>0 DEF ToSet
  <2>. QED  BY <1>1, <1>2, <1>3, <1>4, <2>1, UnsentOf DEF Waiting, Owed, Hand, loop
<1>a. /\ IsInjective(buf) /\ IsInjective(backlog)
      /\ Apart(ToSet(buf), ToSet(backlog), Hand, posting, Owed, Waiting)
  BY OnePlaceApart DEF IInv
<1>8. OnePlace'
  <2>1. Apart(ToSet(buf'), ToSet(backlog'), Hand', posting', Owed', Waiting')
    BY <1>7, <1>a DEF Apart
  <2>. QED  BY <1>7, <1>a, <2>1, OnePlaceApart
<1>9. SheddingStep
  <2>1. Held \subseteq Held'
    BY <1>7 DEF Held, Hand, Owed, Waiting
  <2>. QED  BY <2>1 DEF SheddingStep
<1>. QED  BY <1>5, <1>6, <1>7, <1>8, <1>9 DEF IInv

\* A step that moves the link or the hub only, and one that moves nothing.
LEMMA NetKeeps ==
  ASSUME IInv, UNCHANGED <<loop, buf, posts>>, hubUp' \in BOOLEAN, link' \in BOOLEAN
  PROVE  IInv' /\ SheddingStep
<1>1. TypeOK' /\ Len(buf') <= BufferCap
  BY DEF IInv, TypeOK, loop, posts
<1>2. Ticking' /\ Gated'
  BY DEF IInv, Ticking, Gated, loop, posts
<1>3. OnePlace'
  BY DEF IInv, OnePlace, Places, Unsent, loop, posts
<1>4. Held' = Held
  BY DEF Held, Unsent, loop, posts
<1>. QED  BY <1>1, <1>2, <1>3, <1>4 DEF IInv, SheddingStep

\* A restart empties the agent.
LEMMA RestartKeeps == IInv /\ Restart => IInv' /\ SheddingStep
<1> SUFFICES ASSUME IInv, Restart PROVE IInv' /\ SheddingStep
  OBVIOUS
<1>1. TypeOK' /\ Len(buf') <= BufferCap
  <2>1. hubUp' \in BOOLEAN /\ link' \in BOOLEAN /\ gate' \in BOOLEAN
    BY Zenon DEF IInv, TypeOK, Restart
  <2>2. done' \in Seq(Result) /\ Len(done') <= 1
    BY DEF Restart
  <2>. QED  BY <2>1, <2>2 DEF Restart, TypeOK
<1>2. Ticking' /\ Gated'
  BY DEF Restart, Ticking, Gated
<1>3. OnePlace'
  <2>1. /\ ToSet(buf') = {} /\ ToSet(backlog') = {} /\ Hand' = {} /\ Owed' = {}
        /\ Waiting' = {} /\ posting' = {}
    BY DEF Restart, ToSet, Hand, Owed, Waiting, Unsent
  <2>2. IsInjective(buf') /\ IsInjective(backlog')
    BY DEF Restart, IsInjective
  <2>3. Apart(ToSet(buf'), ToSet(backlog'), Hand', posting', Owed', Waiting')
    BY <2>1 DEF Apart
  <2>. QED  BY <2>2, <2>3, OnePlaceApart
<1>4. SheddingStep
  BY DEF Restart, Restarted, SheddingStep
<1>. QED  BY <1>1, <1>2, <1>3, <1>4 DEF IInv

LEMMA StepKeeps == IInv /\ [Next]_svars => IInv' /\ [SheddingStep]_svars
<1> SUFFICES ASSUME IInv, [Next]_svars PROVE IInv' /\ SheddingStep
  OBVIOUS
<1>0. hubUp \in BOOLEAN /\ link \in BOOLEAN
  BY DEF IInv, TypeOK
<1>1. CASE LinkDrops \/ HubChanges \/ UNCHANGED svars
  <2>1. UNCHANGED <<loop, buf, posts>> /\ hubUp' \in BOOLEAN /\ link' \in BOOLEAN
    BY <1>0, <1>1 DEF LinkDrops, HubChanges, svars, net
  <2>. QED  BY <2>1, NetKeeps
<1>. QED
  BY <1>1, CollectKeeps, FlushKeeps, LiveKeeps, ReceiveKeeps, PostReturnsKeeps, ReportKeeps,
     RestartKeeps
  DEF Next

\* The invariant says what the run checks.
LEMMA InvImplies == IInv => SenderInv
<1> SUFFICES ASSUME IInv PROVE SenderInv
  OBVIOUS
<1>1. OnePost
  <2>1. Cardinality({}) = 0
    BY FS_EmptySet, Zenon
  <2>2. \A x : Cardinality({x}) = 1
    BY FS_Singleton, Zenon
  <2>3. gate = TRUE \/ gate = FALSE
    BY DEF IInv, TypeOK
  <2>4. IF gate THEN \/ Cardinality(posting) = 1 /\ Cardinality(posted) = 0
                     \/ Cardinality(posting) = 0 /\ Cardinality(posted) = 1
                ELSE Cardinality(posting) = 0 /\ Cardinality(posted) = 0
    BY <2>1, <2>2, <2>3, Zenon DEF IInv, Gated
  <2>. QED  BY <2>3, <2>4 DEF OnePost
<1>. QED  BY <1>1 DEF IInv, SenderInv

------------------------------------------------------------------------------

\* The inductive invariant holds.
THEOREM Inductive == Spec => []IInv
BY InitHolds, StepKeeps, PTL DEF Spec

\* Every variable keeps its type.
THEOREM TypeCorrect == Spec => []TypeOK
<1>1. IInv => TypeOK
  BY DEF IInv
<1>. QED  BY <1>1, Inductive, PTL

\* At most one goroutine posts and holds the gate, and a payload that is owed to
\* the hub is in one place, the buffer within its capacity.
THEOREM SenderHolds == Spec => []SenderInv
BY Inductive, InvImplies, PTL

\* A payload leaves the agent in the frame that was written, answered, shed by a
\* full buffer or with a restart: no pause of a backfill, failed post or dropped
\* connection loses one.
THEOREM NothingIsLost == Spec => NothingLost
BY InitHolds, StepKeeps, PTL DEF Spec, NothingLost
==============================================================================
