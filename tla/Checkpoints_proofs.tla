------------------------- MODULE Checkpoints_proofs -------------------------
(***************************************************************************)
(* The runs and the checkpoints of the legacy backend, for every set of    *)
(* handlers, checkpointers and runs.                                       *)
(*                                                                         *)
(* Typed    the types, and the order of the ids (OrderInv of               *)
(*          Ledger_proofs)                                                 *)
(* Phased   what a handler has written when it is about to make a given    *)
(*          round trip: at most one event, just before its commit          *)
(* Told     the table of runs and the chain tell one story                 *)
(* Rooted   every root was computed of events that are still in place      *)
(* Covered  the checkpoints of one checkpointer stand one behind the other *)
(* Holding  who has written holds the tenant row, and is about to commit   *)
(***************************************************************************)
EXTENDS Checkpoints, SequenceTheorems, FiniteSetTheorems, WellFoundedInduction, TLAPS

Sessions == Handlers \cup Checkpointers

P == INSTANCE Ledger_proofs WITH Data <- R!Data, Jumps <- {1}

-----------------------------------------------------------------------------
(* The invariants *)

Servings == [at : {"idle", "insert", "append", "commit"}, run : RunIds \cup {None},
             status : {"running", "completed", None}]

Digests == Seq({<<n>> : n \in Nat})

Ranges == [from : Nat, to : Nat, event_count : Nat, created_at : Int,
           root : {<<>>} \cup {M!compute_merkle_root(digests) : digests \in Digests}]

Jobs == [at : {"idle", "read", "insert", "append", "commit"}, seen : Nat, new : Ranges]

\* A checkpoint has been put together.
Proposing(j) == j.at \in {"insert", "append", "commit"}

\* A range of a chain of n events
Within(p, n) == p.from # 0 /\ p.from <= p.to /\ p.to <= n

\* What a handler of Runs knows
Known(x) ==
    IF x.at = "idle" THEN x.run = None
    ELSE /\ x.run \in RunIds /\ x.status \in {"running", "completed"}
         /\ x.at = "insert" => x.status = "running"

\* What a checkpointer has read, of a chain of n events and before time t
Bounded(j, n, t) ==
    /\ j.seen <= n
    /\ Proposing(j) => /\ Within(j.new, n) /\ j.new.created_at <= t
                       /\ j.at = "commit" => j.new.created_at < t

\* A checkpoint of a chain of n events, made before time t
Kept(p, n, t) == Within(p, n) /\ p.created_at < t

\* Some checkpoint is the latest.
HasLatest(S) == S = {} \/ \E p \in S : \A q \in S : q.created_at <= p.created_at

Typed ==
    /\ P!OrderInv
    /\ DOMAIN runs \subseteq RunIds
    /\ \A r \in DOMAIN runs : runs[r] \in {"running", "completed"}
    /\ serving \in [Handlers -> Servings]
    /\ \A h \in Handlers : Known(serving[h])
    /\ job \in [Checkpointers -> Jobs]
    /\ \A c \in Checkpointers : Bounded(job[c], Len(events), clock)
    /\ checkpoints \subseteq Ranges
    /\ \A p \in checkpoints : Kept(p, Len(events), clock)
    /\ HasLatest(checkpoints)

\* The type of the event that a handler of Runs writes
TypeFor(status) == IF status = "running" THEN "run.started" ELSE "run.completed"

WroteRun(h) ==
    IF serving[h].at = "commit"
    THEN /\ Len(staged[h]) = 1
         /\ staged[h][1].data.type = TypeFor(serving[h].status)
         /\ staged[h][1].data.run = serving[h].run
    ELSE staged[h] = <<>>

WroteCheckpoint(c) ==
    IF job[c].at = "commit"
    THEN /\ Len(staged[c]) = 1
         /\ staged[c][1].data.type = "checkpoint.created"
         /\ \E i \in 1 .. Len(events) : events[i].data.run = staged[c][1].data.run
    ELSE staged[c] = <<>>

Phased ==
    /\ \A h \in Handlers : WroteRun(h)
    /\ \A c \in Checkpointers : WroteCheckpoint(c)

\* The event says this of the run.
Says(e, type, r) == e.data.type = type /\ e.data.run = r

StoryOf(chain, table, r) ==
    /\ \E i \in 1 .. Len(chain) :
          /\ Says(chain[i], "run.started", r)
          /\ \A j \in 1 .. Len(chain) : chain[j].data.run = r => i <= j
    /\ \A i, j \in 1 .. Len(chain) :
          Says(chain[i], "run.started", r) /\ Says(chain[j], "run.started", r) => i = j
    /\ table[r] = "completed"
          <=> \E i \in 1 .. Len(chain) : Says(chain[i], "run.completed", r)

Story(chain, table) ==
    /\ \A i \in 1 .. Len(chain) : chain[i].data.run \in DOMAIN table
    /\ \A r \in DOMAIN table : StoryOf(chain, table, r)

\* A run that is being created is new, and only one handler creates it.
Serves(h) ==
    serving[h].at # "idle" =>
        IF serving[h].status = "running"
        THEN /\ serving[h].run \notin DOMAIN runs
             /\ \A g \in Handlers \ {h} : serving[g].run # serving[h].run
        ELSE serving[h].run \in DOMAIN runs

Told == Story(events, runs) /\ \A h \in Handlers : Serves(h)

\* The hashes of the events of a chain from one place up to another
HashesOf(chain, p) == [i \in 1 .. p.to - p.from + 1 |-> <<chain[p.from + i - 1].id>>]

RootOf(chain, p) ==
    /\ p.event_count = p.to - p.from + 1
    /\ p.root = M!compute_merkle_root(HashesOf(chain, p))

\* checkpoints.py:48-66: root and count of a checkpoint are those of the events
\* that the chain holds between its boundaries.
Rooted ==
    /\ \A p \in checkpoints : RootOf(events, p)
    /\ \A c \in Checkpointers : Proposing(job[c]) => RootOf(events, job[c].new)

\* The one is made after the other and covers later events.
Behind(p, q) == q.to < p.from /\ q.created_at < p.created_at

Covered ==
    /\ \A p, q \in checkpoints : p # q => Behind(p, q) \/ Behind(q, p)
    /\ \A p \in checkpoints : \A i \in 1 .. p.to :
          \E q \in checkpoints : i \in q.from .. q.to
    /\ \A c \in Checkpointers : Proposing(job[c]) =>
          /\ job[c].new.from = LastCovered + 1
          /\ \A p \in checkpoints : p.created_at < job[c].new.created_at

\* The row is held, or shared, only where a request has got to.
Holding ==
    /\ lock # Free => At(lock) = "commit"
    /\ \A s \in sharers : At(s) \in {"append", "commit"}

-----------------------------------------------------------------------------
(* The Merkle tree *)

\* A set of naturals has a least element.
LEMMA LeastOf ==
    ASSUME NEW S \in SUBSET Nat, S # {}
    PROVE  \E i \in S : \A j \in S : i <= j
<1> DEFINE Less == OpToRel(<, Nat)
<1>1. PICK i \in S : \A j \in S : ~(<<j, i>> \in Less)
  <2>1. IsWellFoundedOn(Less, Nat)
    BY NatLessThanWellFounded
  <2> HIDE DEF Less
  <2> QED
    BY <2>1, WFMin, Zenon
<1>2. \A j \in S : ~(j < i)
  BY <1>1 DEF OpToRel
<1> QED
  BY <1>2

\* Induction over a set of places
LEMMA UpTo ==
    ASSUME NEW n \in Nat, NEW T, 0 \in T, \A h \in 1 .. n : h - 1 \in T => h \in T
    PROVE  0 .. n \subseteq T
<1> DEFINE S == {h \in 0 .. n : h \notin T}
<1> SUFFICES ASSUME S # {} PROVE FALSE
  OBVIOUS
<1>1. PICK i \in S : \A j \in S : i <= j
  <2>1. S \in SUBSET Nat
    OBVIOUS
  <2> HIDE DEF S
  <2> QED
    BY <2>1, LeastOf
<1>2. i \in 1 .. n /\ i - 1 \notin S
  BY <1>1
<1> QED
  BY <1>2


\* g starts with a, and each of its next n values is made of the one before it.
Follows(g, n, a, F) == g[0] = a /\ \A h \in 1 .. n : g[h] = F[h][g[h - 1]]

\* A function that is defined by recursion exists.
LEMMA Iterates ==
    ASSUME NEW n \in Nat, NEW D, NEW a \in D, NEW F \in [1 .. n -> [D -> D]]
    PROVE  \E g \in [0 .. n -> D] : Follows(g, n, a, F)
<1> DEFINE T == {m \in 0 .. n : \E g \in [0 .. n -> D] : Follows(g, m, a, F)}
<1>1. 0 \in T
  <2>1. [h \in 0 .. n |-> a] \in [0 .. n -> D] /\ Follows([h \in 0 .. n |-> a], 0, a, F)
    BY DEF Follows
  <2>2. 0 \in 0 .. n
    OBVIOUS
  <2> QED
    BY <2>1, <2>2
<1>2. ASSUME NEW m \in 1 .. n, m - 1 \in T PROVE m \in T
  <2>1. PICK g \in [0 .. n -> D] : Follows(g, m - 1, a, F)
    BY <1>2
  <2> DEFINE k == [g EXCEPT ![m] = F[m][g[m - 1]]]
  <2>2. k \in [0 .. n -> D]
    OBVIOUS
  <2>3. k[m] = F[m][g[m - 1]] /\ \A h \in 0 .. n : h # m => k[h] = g[h]
    OBVIOUS
  <2> HIDE DEF k
  <2>4. k[0] = a
    BY <2>1, <2>3 DEF Follows
  <2>5. ASSUME NEW h \in 1 .. m PROVE k[h] = F[h][k[h - 1]]
    <3>1. h - 1 \in 0 .. n /\ h - 1 # m
      OBVIOUS
    <3>2. k[h - 1] = g[h - 1]
      BY <2>3, <3>1
    <3>3. CASE h = m
      BY <2>3, <3>2, <3>3
    <3>4. CASE h # m
      <4>1. h \in 1 .. m - 1 /\ h \in 0 .. n
        BY <3>4
      <4>2. g[h] = F[h][g[h - 1]]
        BY <2>1, <4>1 DEF Follows
      <4> QED
        BY <2>3, <3>2, <3>4, <4>1, <4>2
    <3> QED
      BY <3>3, <3>4
  <2> QED
    BY <2>2, <2>4, <2>5 DEF Follows
<1>3. n \in T
  <2> HIDE DEF T
  <2>1. 0 .. n \subseteq T
    BY <1>1, <1>2, UpTo
  <2> QED
    BY <2>1
<1> QED
  BY <1>3

\* Height(n) is read off a function that halves n, rounding up, and exists.
LEMMA Widths ==
    ASSUME NEW n \in Nat
    PROVE  \E w \in [0 .. n -> Nat] :
              /\ w[0] = n /\ \A h \in 1 .. n : w[h] = (w[h - 1] + 1) \div 2
              /\ M!Height(n) = CHOOSE h \in 0 .. n : w[h] = 1 /\ \A k \in 0 .. h - 1 : w[k] > 1
<1> DEFINE F == [h \in 1 .. n |-> [v \in Nat |-> (v + 1) \div 2]]
           Is(w) == w = [h \in 0 .. n |-> IF h = 0 THEN n ELSE (w[h - 1] + 1) \div 2]
           w == CHOOSE w : Is(w)
<1>1. Is(w)
  <2>1. F \in [1 .. n -> [Nat -> Nat]] /\ \A h \in 1 .. n, v \in Nat : F[h][v] = (v + 1) \div 2
    OBVIOUS
  <2> HIDE DEF F
  <2>2. PICK g \in [0 .. n -> Nat] : Follows(g, n, n, F)
    BY <2>1, Iterates, Zenon
  <2>3. Is(g)
    <3>1. ASSUME NEW h \in 1 .. n PROVE g[h] = (g[h - 1] + 1) \div 2
      <4>1. g[h - 1] \in Nat /\ g[h] = F[h][g[h - 1]]
        BY <2>2 DEF Follows
      <4> QED
        BY <2>1, <4>1
    <3> QED
      BY <2>2, <3>1 DEF Follows
  <2> HIDE DEF Is
  <2> QED
    BY <2>3
<1>2. M!Height(n) = CHOOSE h \in 0 .. n : w[h] = 1 /\ \A k \in 0 .. h - 1 : w[k] > 1
  BY DEF M!Height
<1> HIDE DEF w
<1>3. w[0] = n /\ \A h \in 1 .. n : w[h] = (w[h - 1] + 1) \div 2
  BY <1>1
<1>4. w \in [0 .. n -> Nat]
  <2> DEFINE T == {h \in 0 .. n : w[h] \in Nat}
  <2>1. 0 \in T
    BY <1>3
  <2>2. ASSUME NEW h \in 1 .. n, h - 1 \in T PROVE h \in T
    BY <1>3, <2>2
  <2>3. 0 .. n \subseteq T
    <3> HIDE DEF T
    <3> QED
      BY <2>1, <2>2, UpTo
  <2> QED
    BY <1>1, <2>3
<1> QED
  BY <1>2, <1>3, <1>4

\* One iteration halves a level, and the digests of the level are the parts of
\* the pairs, in their order.
LEMMA PairOf ==
    ASSUME NEW U, NEW level \in Seq(U), Len(level) >= 1
    PROVE  /\ M!Pair(level) \in Seq(U \X U)
           /\ Len(M!Pair(level)) = (Len(level) + 1) \div 2
           /\ \A j \in 1 .. Len(M!Pair(level)) :
                 /\ M!Pair(level)[j][1] = level[2 * j - 1]
                 /\ 2 * j <= Len(level) => M!Pair(level)[j][2] = level[2 * j]
<1> DEFINE n == Len(level)
           even == M!Even(level)
           m == Len(even) \div 2
<1>1. /\ even \in Seq(U) /\ Len(even) = 2 * ((n + 1) \div 2)
      /\ \A i \in 1 .. n : even[i] = level[i]
  <2>1. CASE n % 2 = 1
    <3>1. even = Append(level, level[n])
      BY <2>1 DEF M!Even, M!Last
    <3>2. n + 1 = 2 * ((n + 1) \div 2)
      BY <2>1
    <3>3. level[n] \in U
      OBVIOUS
    <3> HIDE DEF even
    <3> QED
      BY <3>1, <3>2, <3>3
  <2>2. CASE n % 2 # 1
    <3>1. even = level
      BY <2>2 DEF M!Even
    <3>2. n = 2 * ((n + 1) \div 2)
      BY <2>2
    <3> HIDE DEF even
    <3> QED
      BY <3>1, <3>2
  <2> QED
    BY <2>1, <2>2
<1>2. M!Pair(level) = [i \in 1 .. m |-> <<even[2 * i - 1], even[2 * i]>>]
  BY DEF M!Pair, M!sha256_hex
<1> HIDE DEF even
<1>3. m \in Nat /\ m = (n + 1) \div 2 /\ Len(even) = 2 * m
  BY <1>1
<1> HIDE DEF m
<1>4. \A i \in 1 .. m : 2 * i - 1 \in 1 .. Len(even) /\ 2 * i \in 1 .. Len(even) /\ 2 * i - 1 \in 1 .. n
  BY <1>3
<1>5. \A i \in 1 .. m : even[2 * i - 1] \in U /\ even[2 * i] \in U
  BY <1>1, <1>4
<1>6. M!Pair(level) \in Seq(U \X U) /\ Len(M!Pair(level)) = m
  BY <1>2, <1>3, <1>5
<1>7. ASSUME NEW j \in 1 .. m
      PROVE  /\ M!Pair(level)[j][1] = level[2 * j - 1]
             /\ 2 * j <= n => M!Pair(level)[j][2] = level[2 * j]
  <2>1. M!Pair(level)[j] = <<even[2 * j - 1], even[2 * j]>>
    BY <1>2
  <2>2. even[2 * j - 1] = level[2 * j - 1]
    BY <1>1, <1>4
  <2>3. 2 * j <= n => even[2 * j] = level[2 * j]
    BY <1>1
  <2> QED
    BY <2>1, <2>2, <2>3
<1> QED
  BY <1>3, <1>6, <1>7

\* A sequence of two behind another
LEMMA TwoBehind ==
    ASSUME NEW S, NEW t \in Seq(S), NEW p \in Seq(S), Len(p) = 2
    PROVE  /\ t \o p \in Seq(S) /\ Len(t \o p) = Len(t) + 2
           /\ \A k \in 1 .. Len(t) : (t \o p)[k] = t[k]
           /\ (t \o p)[Len(t) + 1] = p[1] /\ (t \o p)[Len(t) + 2] = p[2]
<1>1. /\ t \o p \in Seq(S) /\ Len(t \o p) = Len(t) + Len(p)
      /\ \A i \in 1 .. Len(t) + Len(p) :
            (t \o p)[i] = IF i <= Len(t) THEN t[i] ELSE p[i - Len(t)]
  BY ConcatProperties
<1> DEFINE u == t \o p
<1>2. Len(t) \in Nat
  OBVIOUS
<1> HIDE DEF u
<1>3. \A k \in 1 .. Len(t) : u[k] = t[k]
  BY <1>1, <1>2 DEF u
<1>4. u[Len(t) + 1] = p[1] /\ u[Len(t) + 2] = p[2]
  BY <1>1, <1>2 DEF u
<1> QED
  BY <1>1, <1>3, <1>4 DEF u

\* The members of a row of pairs, side by side
LEMMA FlattenPairs ==
    ASSUME NEW S, NEW s \in Seq(S \X S), Len(s) >= 1
    PROVE  /\ M!FlattenSeq(s) \in Seq(S) /\ Len(M!FlattenSeq(s)) = 2 * Len(s)
           /\ \A i \in 1 .. Len(s) : /\ M!FlattenSeq(s)[2 * i - 1] = s[i][1]
                                     /\ M!FlattenSeq(s)[2 * i] = s[i][2]
<1> DEFINE m == Len(s)
           Is(f) == f = [i \in 1 .. m |-> IF i = 1 THEN s[i] ELSE f[i - 1] \o s[i]]
           flatten == CHOOSE f : Is(f)
<1>1. m \in Nat \ {0}
  OBVIOUS
<1>2. \A i \in 1 .. m : s[i] = <<s[i][1], s[i][2]>> /\ s[i][1] \in S /\ s[i][2] \in S
  OBVIOUS
<1>3. \A i \in 1 .. m : s[i] \in Seq(S) /\ Len(s[i]) = 2
  <2>1. ASSUME NEW x \in S, NEW y \in S PROVE <<x, y>> \in Seq(S) /\ Len(<<x, y>>) = 2
    OBVIOUS
  <2> QED
    BY <1>2, <2>1
<1>4. M!FlattenSeq(s) = flatten[m]
  BY <1>1 DEF M!FlattenSeq
<1> HIDE DEF m
<1>5. Is(flatten)
  <2> DEFINE F == [h \in 1 .. m - 1 |-> [v \in Seq(S) |-> v \o s[h + 1]]]
  <2>1. \A h \in 1 .. m - 1 : s[h + 1] \in Seq(S)
    BY <1>1, <1>3
  <2>2. \A h \in 1 .. m - 1, v \in Seq(S) : v \o s[h + 1] \in Seq(S)
    BY <2>1
  <2>3. F \in [1 .. m - 1 -> [Seq(S) -> Seq(S)]]
    BY <2>2
  <2>4. \A h \in 1 .. m - 1, v \in Seq(S) : F[h][v] = v \o s[h + 1]
    OBVIOUS
  <2> HIDE DEF F
  <2>5. m - 1 \in Nat /\ s[1] \in Seq(S)
    BY <1>1, <1>3
  <2>6. PICK g \in [0 .. m - 1 -> Seq(S)] : Follows(g, m - 1, s[1], F)
    BY <2>3, <2>5, Iterates, Zenon
  <2> DEFINE f == [i \in 1 .. m |-> g[i - 1]]
  <2>7. ASSUME NEW i \in 1 .. m PROVE f[i] = IF i = 1 THEN s[i] ELSE f[i - 1] \o s[i]
    <3>1. CASE i = 1
      BY <2>6, <3>1 DEF Follows
    <3>2. CASE i # 1
      <4>1. i - 1 \in 1 .. m - 1 /\ i - 1 \in 1 .. m /\ i - 1 - 1 \in 0 .. m - 1 /\ i - 1 + 1 = i
        BY <1>1, <3>2
      <4>2. g[i - 1] = F[i - 1][g[i - 1 - 1]] /\ g[i - 1 - 1] \in Seq(S)
        BY <2>6, <4>1 DEF Follows
      <4>3. F[i - 1][g[i - 1 - 1]] = g[i - 1 - 1] \o s[i]
        BY <2>4, <4>1, <4>2
      <4> QED
        BY <3>2, <4>1, <4>2, <4>3
    <3> QED
      BY <3>1, <3>2
  <2>8. Is(f)
    <3> HIDE DEF f
    <3>1. f = [i \in 1 .. m |-> f[i]]
      BY DEF f
    <3> QED
      BY <2>7, <3>1
  <2> HIDE DEF Is, f
  <2> QED
    BY <2>8
<1> HIDE DEF flatten
<1>6. flatten[1] = s[1] /\ \A h \in 1 .. m - 1 : flatten[h + 1] = flatten[h] \o s[h + 1]
  <2>1. \A i \in 1 .. m : flatten[i] = IF i = 1 THEN s[i] ELSE flatten[i - 1] \o s[i]
    BY <1>5
  <2>2. ASSUME NEW h \in 1 .. m - 1 PROVE flatten[h + 1] = flatten[h] \o s[h + 1]
    <3> DEFINE i == h + 1
    <3>1. i \in 1 .. m /\ i # 1 /\ i - 1 = h
      BY <1>1
    <3> HIDE DEF i
    <3>2. flatten[i] = flatten[i - 1] \o s[i]
      BY <2>1, <3>1
    <3> QED
      BY <3>1, <3>2 DEF i
  <2>3. flatten[1] = s[1]
    BY <1>1, <2>1
  <2> QED
    BY <2>2, <2>3
<1> HIDE DEF Is
<1> DEFINE Flat(t, h) ==
              /\ t \in Seq(S) /\ Len(t) = 2 * h
              /\ \A i \in 1 .. h : t[2 * i - 1] = s[i][1] /\ t[2 * i] = s[i][2]
           T == {h \in 0 .. m - 1 : Flat(flatten[h + 1], h + 1)}
<1>7. Flat(s[1], 1)
  BY <1>1, <1>2, <1>3
<1>8. ASSUME NEW h \in 1 .. m - 1, NEW t, Flat(t, h) PROVE Flat(t \o s[h + 1], h + 1)
  <2>1. s[h + 1] \in Seq(S) /\ Len(s[h + 1]) = 2 /\ h + 1 \in 1 .. m
    BY <1>1, <1>3
  <2> DEFINE u == t \o s[h + 1]
  <2>2. u \in Seq(S) /\ Len(u) = 2 * h + 2
    BY <1>8, <2>1, TwoBehind
  <2>3. /\ \A k \in 1 .. 2 * h : u[k] = t[k]
        /\ u[2 * h + 1] = s[h + 1][1] /\ u[2 * h + 2] = s[h + 1][2]
    BY <1>8, <2>1, TwoBehind
  <2> HIDE DEF u
  <2>4. ASSUME NEW i \in 1 .. h + 1 PROVE u[2 * i - 1] = s[i][1] /\ u[2 * i] = s[i][2]
    <3>1. CASE i = h + 1
      <4>1. 2 * i - 1 = 2 * h + 1 /\ 2 * i = 2 * h + 2
        BY <3>1
      <4> QED
        BY <2>3, <3>1, <4>1
    <3>2. CASE i # h + 1
      <4>1. i \in 1 .. h /\ 2 * i - 1 \in 1 .. 2 * h /\ 2 * i \in 1 .. 2 * h
        BY <3>2
      <4> QED
        BY <1>8, <2>3, <4>1
    <3> QED
      BY <3>1, <3>2
  <2> QED
    BY <2>2, <2>4 DEF u
<1>9. m - 1 \in T
  <2> HIDE DEF Flat
  <2>1. 0 \in T
    BY <1>1, <1>6, <1>7
  <2>2. ASSUME NEW h \in 1 .. m - 1, h - 1 \in T PROVE h \in T
    <3>1. h - 1 + 1 = h /\ h \in 0 .. m - 1
      BY <1>1
    <3>2. Flat(flatten[h], h)
      BY <2>2, <3>1
    <3>3. Flat(flatten[h + 1], h + 1)
      BY <1>6, <1>8, <3>2
    <3> QED
      BY <3>1, <3>3
  <2> HIDE DEF T
  <2>3. m - 1 \in Nat /\ \A h \in 1 .. m - 1 : h - 1 \in T => h \in T
    BY <1>1, <2>2
  <2>4. 0 .. m - 1 \subseteq T
    BY <2>1, <2>3, UpTo
  <2> QED
    BY <2>3, <2>4
<1>10. Flat(flatten[m], m)
  <2>1. m - 1 + 1 = m
    BY <1>1
  <2> HIDE DEF Flat
  <2> QED
    BY <1>9, <2>1
<1> QED
  BY <1>4, <1>10 DEF m

\* The digests of a sequence
RangeOf(s) == {s[i] : i \in 1 .. Len(s)}

\* The row starts with the digests of the level; the rest repeats some of them.
Shows(row, level) ==
    /\ row \in Seq(RangeOf(level))
    /\ Len(level) <= Len(row) /\ \A i \in 1 .. Len(level) : row[i] = level[i]

\* A row that shows the next level, taken apart, shows the level.
LEMMA UnpairedShows ==
    ASSUME NEW U, NEW level \in Seq(U), Len(level) >= 1, NEW row, Shows(row, M!Pair(level))
    PROVE  Shows(M!FlattenSeq(row), level)
<1> DEFINE S == RangeOf(level)
           up == M!Pair(level)
           n == Len(level)
           flat == M!FlattenSeq(row)
<1>1. level \in Seq(S) /\ n \in Nat \ {0}
  BY DEF RangeOf
<1>2. /\ up \in Seq(S \X S) /\ Len(up) = (n + 1) \div 2
      /\ \A j \in 1 .. Len(up) : /\ up[j][1] = level[2 * j - 1]
                                 /\ 2 * j <= n => up[j][2] = level[2 * j]
  <2> HIDE DEF S
  <2> QED
    BY <1>1, PairOf
<1> HIDE DEF S, up
<1>3. row \in Seq(S \X S) /\ Len(row) >= Len(up) /\ \A j \in 1 .. Len(up) : row[j] = up[j]
  <2>1. RangeOf(up) \subseteq S \X S
    BY <1>2 DEF RangeOf
  <2> QED
    BY <2>1 DEF Shows, up
<1>4. Len(row) \in Nat /\ Len(up) \in Nat /\ Len(row) >= 1
  BY <1>1, <1>2, <1>3
<1>5. /\ flat \in Seq(S) /\ Len(flat) = 2 * Len(row)
      /\ \A i \in 1 .. Len(row) : flat[2 * i - 1] = row[i][1] /\ flat[2 * i] = row[i][2]
  BY <1>3, <1>4, FlattenPairs
<1> HIDE DEF flat, n
<1>6. n <= Len(flat)
  BY <1>1, <1>2, <1>3, <1>4, <1>5
<1>7. ASSUME NEW i \in 1 .. n PROVE flat[i] = level[i]
  <2> DEFINE j == (i + 1) \div 2
  <2>1. j \in 1 .. Len(up) /\ j \in 1 .. Len(row) /\ (i = 2 * j - 1 \/ i = 2 * j)
    BY <1>1, <1>2, <1>3, <1>4
  <2> HIDE DEF j
  <2>2. row[j] = up[j]
    BY <1>3, <2>1
  <2>3. CASE i = 2 * j - 1
    BY <1>2, <1>5, <2>1, <2>2, <2>3
  <2>4. CASE i = 2 * j
    <3>1. 2 * j <= n
      BY <1>1, <2>4
    <3> QED
      BY <1>2, <1>5, <2>1, <2>2, <2>4, <3>1
  <2> QED
    BY <2>1, <2>3, <2>4
<1> QED
  BY <1>1, <1>5, <1>6, <1>7 DEF Shows, S, flat, n

\* What the loop of compute_merkle_root leaves behind, level by level
LevelsOf(level, n, a) ==
    level = [h \in 0 .. n |-> IF h = 0 THEN a ELSE M!Pair(level[h - 1])]

\* Levels can be computed as often as one likes.
LEMMA LevelsExist ==
    ASSUME NEW n \in Nat, NEW a
    PROVE  \E level : LevelsOf(level, n, a)
<1> DEFINE T == {m \in 0 .. n : \E level : LevelsOf(level, m, a)}
<1>1. 0 \in T
  <2>1. LevelsOf([h \in 0 .. 0 |-> a], 0, a)
    BY DEF LevelsOf
  <2> QED
    BY <2>1
<1>2. ASSUME NEW m \in 1 .. n, m - 1 \in T PROVE m \in T
  <2>1. PICK g : LevelsOf(g, m - 1, a)
    BY <1>2
  <2> DEFINE k == [h \in 0 .. m |-> IF h = m THEN M!Pair(g[m - 1]) ELSE g[h]]
  <2>2. \A h \in 0 .. m - 1 : g[h] = IF h = 0 THEN a ELSE M!Pair(g[h - 1])
    BY <2>1 DEF LevelsOf
  <2>3. ASSUME NEW h \in 0 .. m PROVE k[h] = IF h = 0 THEN a ELSE M!Pair(k[h - 1])
    <3>1. CASE h = 0
      BY <2>2, <3>1
    <3>2. CASE h # 0
      <4>1. h - 1 \in 0 .. m /\ h - 1 # m
        BY <3>2
      <4>2. k[h - 1] = g[h - 1]
        BY <4>1
      <4>3. k[h] = M!Pair(g[h - 1])
        BY <2>2, <3>2
      <4> QED
        BY <3>2, <4>2, <4>3
    <3> QED
      BY <3>1, <3>2
  <2>4. k = [h \in 0 .. m |-> k[h]]
    OBVIOUS
  <2> HIDE DEF k
  <2>5. LevelsOf(k, m, a)
    BY <2>3, <2>4 DEF LevelsOf
  <2> QED
    BY <2>5
<1>3. 0 .. n \subseteq T
  <2> HIDE DEF T
  <2> QED
    BY <1>1, <1>2, UpTo
<1> QED
  BY <1>3

\* What LeavesOf reads back, row by row
RowsOf(row, n, a) ==
    row = [k \in 0 .. n |-> IF k = 0 THEN a ELSE M!FlattenSeq(row[k - 1])]

\* Rows too.
LEMMA RowsExist ==
    ASSUME NEW n \in Nat, NEW a
    PROVE  \E row : RowsOf(row, n, a)
<1> DEFINE T == {m \in 0 .. n : \E row : RowsOf(row, m, a)}
<1>1. 0 \in T
  <2>1. RowsOf([h \in 0 .. 0 |-> a], 0, a)
    BY DEF RowsOf
  <2> QED
    BY <2>1
<1>2. ASSUME NEW m \in 1 .. n, m - 1 \in T PROVE m \in T
  <2>1. PICK g : RowsOf(g, m - 1, a)
    BY <1>2
  <2> DEFINE k == [h \in 0 .. m |-> IF h = m THEN M!FlattenSeq(g[m - 1]) ELSE g[h]]
  <2>2. \A h \in 0 .. m - 1 : g[h] = IF h = 0 THEN a ELSE M!FlattenSeq(g[h - 1])
    BY <2>1 DEF RowsOf
  <2>3. ASSUME NEW h \in 0 .. m PROVE k[h] = IF h = 0 THEN a ELSE M!FlattenSeq(k[h - 1])
    <3>1. CASE h = 0
      BY <2>2, <3>1
    <3>2. CASE h # 0
      <4>1. h - 1 \in 0 .. m /\ h - 1 # m
        BY <3>2
      <4>2. k[h - 1] = g[h - 1]
        BY <4>1
      <4>3. k[h] = M!FlattenSeq(g[h - 1])
        BY <2>2, <3>2
      <4> QED
        BY <3>2, <4>2, <4>3
    <3> QED
      BY <3>1, <3>2
  <2>4. k = [h \in 0 .. m |-> k[h]]
    OBVIOUS
  <2> HIDE DEF k
  <2>5. RowsOf(k, m, a)
    BY <2>3, <2>4 DEF RowsOf
  <2> QED
    BY <2>5
<1>3. 0 .. n \subseteq T
  <2> HIDE DEF T
  <2> QED
    BY <1>1, <1>2, UpTo
<1> QED
  BY <1>3

\* Halving ends at one digest.
LEMMA WidthNarrows ==
    ASSUME NEW n \in Nat \ {0}, NEW w \in [0 .. n -> Nat],
           w[0] = n, \A h \in 1 .. n : w[h] = (w[h - 1] + 1) \div 2
    PROVE  LET H == CHOOSE h \in 0 .. n : w[h] = 1 /\ \A k \in 0 .. h - 1 : w[k] > 1
           IN  H \in 0 .. n /\ w[H] = 1
<1> DEFINE T == {h \in 0 .. n : w[h] >= 1 /\ (w[h] = 1 \/ w[h] + h <= n)}
           S == {h \in 0 .. n : w[h] = 1}
<1>1. 0 .. n \subseteq T
  <2>1. 0 \in T
    OBVIOUS
  <2>2. ASSUME NEW v \in Nat, NEW h \in 1 .. n, v >= 1, v = 1 \/ v + (h - 1) <= n
        PROVE  (v + 1) \div 2 >= 1 /\ ((v + 1) \div 2 = 1 \/ (v + 1) \div 2 + h <= n)
    BY <2>2
  <2>3. ASSUME NEW h \in 1 .. n, h - 1 \in T PROVE h \in T
    <3>1. w[h] = (w[h - 1] + 1) \div 2 /\ w[h - 1] \in Nat /\ w[h - 1] >= 1
      BY <2>3
    <3>2. w[h - 1] = 1 \/ w[h - 1] + (h - 1) <= n
      BY <2>3
    <3>3. w[h] >= 1 /\ (w[h] = 1 \/ w[h] + h <= n)
      BY <2>2, <3>1, <3>2
    <3> QED
      BY <3>3
  <2> HIDE DEF T
  <2> QED
    BY <2>1, <2>3, UpTo
<1>2. \A h \in 0 .. n : w[h] >= 1 /\ (w[h] = 1 \/ w[h] + h <= n)
  BY <1>1
<1>3. n \in S
  <2>1. n \in 0 .. n /\ w[n] \in Nat /\ w[n] >= 1 /\ (w[n] = 1 \/ w[n] + n <= n)
    BY <1>2
  <2> QED
    BY <2>1
<1>4. PICK H \in S : \A h \in S : H <= h
  <2>1. S \in SUBSET Nat
    OBVIOUS
  <2> HIDE DEF S
  <2> QED
    BY <1>3, <2>1, LeastOf
<1>5. ASSUME NEW k \in 0 .. H - 1 PROVE w[k] > 1
  <2>1. k \in 0 .. n /\ k \notin S
    BY <1>4
  <2>2. w[k] \in Nat /\ w[k] >= 1 /\ w[k] # 1
    BY <1>2, <2>1
  <2> QED
    BY <2>2
<1>6. H \in 0 .. n /\ w[H] = 1 /\ \A k \in 0 .. H - 1 : w[k] > 1
  BY <1>5
<1> QED
  BY <1>6

\* The root and the number of the leaves of a tree fix its leaves, with the last
\* digest of every odd level repeated as it may be (merkle.py:4-15).
THEOREM RootFixesLeaves ==
    ASSUME NEW U, NEW hashes \in Seq(U), Len(hashes) >= 1
    PROVE  M!LeavesOf(M!compute_merkle_root(hashes), Len(hashes)) = hashes
<1> DEFINE n == Len(hashes)
           H == M!Height(n)
           level == CHOOSE g : LevelsOf(g, H, hashes)
           root == Head(level[H])
           row == CHOOSE g : RowsOf(g, H, <<root>>)
<1>1. n \in Nat \ {0} /\ n \in Nat
  OBVIOUS
<1>2. M!compute_merkle_root(hashes) = root
  BY DEF M!compute_merkle_root, LevelsOf
<1>3. M!LeavesOf(root, n) = SubSeq(row[H], 1, n)
  BY DEF M!LeavesOf, RowsOf
<1> HIDE DEF n
<1>4. PICK w \in [0 .. n -> Nat] :
         /\ w[0] = n /\ \A h \in 1 .. n : w[h] = (w[h - 1] + 1) \div 2
         /\ H = CHOOSE h \in 0 .. n : w[h] = 1 /\ \A k \in 0 .. h - 1 : w[k] > 1
  BY <1>1, Widths
<1>5. H \in 0 .. n /\ w[H] = 1
  BY <1>1, <1>4, WidthNarrows
<1> HIDE DEF H
<1>6. level[0] = hashes /\ \A h \in 1 .. H : level[h] = M!Pair(level[h - 1])
  <2>1. LevelsOf(level, H, hashes)
    BY <1>5, LevelsExist
  <2> HIDE DEF level
  <2> QED
    BY <1>5, <2>1 DEF LevelsOf
<1> HIDE DEF level
<1>7. row[0] = <<root>> /\ \A k \in 1 .. H : row[k] = M!FlattenSeq(row[k - 1])
  <2>1. RowsOf(row, H, <<root>>)
    BY <1>5, RowsExist
  <2> HIDE DEF row
  <2> QED
    BY <1>5, <2>1 DEF RowsOf
<1> HIDE DEF row
<1>8. \A h \in 0 .. H : (\E V : level[h] \in Seq(V)) /\ Len(level[h]) = w[h] /\ w[h] >= 1
  <2> DEFINE T == {h \in 0 .. H : (\E V : level[h] \in Seq(V)) /\ Len(level[h]) = w[h] /\ w[h] >= 1}
  <2>1. 0 \in T
    BY <1>1, <1>4, <1>5, <1>6 DEF n
  <2>2. ASSUME NEW h \in 1 .. H, h - 1 \in T PROVE h \in T
    <3>1. PICK V : level[h - 1] \in Seq(V)
      BY <2>2
    <3>2. Len(level[h - 1]) = w[h - 1] /\ w[h - 1] >= 1
      BY <2>2
    <3>3. level[h] \in Seq(V \X V) /\ Len(level[h]) = (Len(level[h - 1]) + 1) \div 2
      BY <1>6, <3>1, <3>2, PairOf
    <3>4. h \in 1 .. n /\ h - 1 \in 0 .. n
      BY <1>1, <1>5
    <3>5. w[h - 1] \in Nat /\ w[h] = (w[h - 1] + 1) \div 2
      BY <1>4, <3>4
    <3>6. Len(level[h]) = w[h] /\ w[h] >= 1
      BY <3>2, <3>3, <3>5
    <3> QED
      BY <3>3, <3>6
  <2>3. 0 .. H \subseteq T
    <3> HIDE DEF T
    <3> QED
      BY <1>5, <2>1, <2>2, UpTo
  <2> QED
    BY <2>3
<1>9. Shows(row[0], level[H])
  <2>1. PICK V : level[H] \in Seq(V)
    BY <1>5, <1>8
  <2>2. H \in 0 .. H /\ Len(level[H]) = 1
    <3>1. H \in 0 .. H
      BY <1>5
    <3> QED
      BY <1>5, <1>8, <3>1
  <2>3. root = level[H][1]
    BY <2>1, <2>2
  <2> QED
    BY <1>7, <2>2, <2>3 DEF Shows, RangeOf
<1>10. Shows(row[H], level[0])
  <2> DEFINE T == {k \in 0 .. H : Shows(row[k], level[H - k])}
  <2>1. 0 \in T
    BY <1>5, <1>9
  <2>2. ASSUME NEW k \in 1 .. H, k - 1 \in T PROVE k \in T
    <3> DEFINE h == H - k
    <3>1. h \in 0 .. H /\ h + 1 \in 1 .. H /\ H - (k - 1) = h + 1 /\ h + 1 - 1 = h
      BY <1>5
    <3>2. level[h + 1] = M!Pair(level[h])
      BY <1>6, <3>1
    <3>3. Shows(row[k - 1], M!Pair(level[h]))
      BY <2>2, <3>1, <3>2
    <3>4. PICK V : level[h] \in Seq(V)
      BY <1>8, <3>1
    <3>5. Len(level[h]) >= 1
      BY <1>8, <3>1
    <3>6. Shows(M!FlattenSeq(row[k - 1]), level[h])
      BY <3>3, <3>4, <3>5, UnpairedShows
    <3> QED
      BY <1>7, <3>6
  <2>3. 0 .. H \subseteq T
    <3> HIDE DEF T
    <3> QED
      BY <1>5, <2>1, <2>2, UpTo
  <2> QED
    BY <1>5, <2>3
<1>11. SubSeq(row[H], 1, n) = hashes
  <2>1. /\ row[H] \in Seq(RangeOf(hashes)) /\ n <= Len(row[H])
        /\ \A i \in 1 .. n : row[H][i] = hashes[i]
    BY <1>6, <1>10 DEF Shows, n
  <2> QED
    BY <1>1, <2>1 DEF n
<1> QED
  BY <1>2, <1>3, <1>11 DEF n

-----------------------------------------------------------------------------
(* The ledger under the runs is the ledger of Ledger_proofs. *)

LEMMA Constants == P!LedgerConstants /\ P!ClockForwards
BY CheckpointsAssumption DEF P!LedgerConstants, P!ClockForwards, Sessions

LEMMA SameOperators ==
    /\ R!L!TypeOK <=> P!TypeOK
    /\ \A s : R!L!RangeOf(s) = P!RangeOf(s)
    /\ \A e, f : R!L!Before(e, f) <=> P!Before(e, f)
<1>1. \A s : R!L!RangeOf(s) = P!RangeOf(s)
  BY DEF R!L!RangeOf, P!RangeOf
<1>2. \A e, f : R!L!Before(e, f) <=> P!Before(e, f)
  BY DEF R!L!Before, P!Before
<1>3. R!L!TypeOK <=> P!TypeOK
  BY DEF R!L!TypeOK, P!TypeOK, R!L!Events, P!Events, Sessions
<1> QED
  BY <1>1, <1>2, <1>3

LEMMA SameActions ==
    ASSUME NEW s \in Sessions
    PROVE  /\ R!L!insert(s) <=> P!insert(s)
           /\ R!L!Commit(s) <=> P!Commit(s)
           /\ R!L!Rollback(s) <=> P!Rollback(s)
           /\ \A data \in R!Data : R!L!append(s, data) <=> P!append(s, data)
<1>1. R!L!End(s) <=> P!End(s)
  BY DEF R!L!End, P!End
<1>2. \A data \in R!Data : R!L!append(s, data) <=> P!append(s, data)
  BY DEF R!L!append, P!append, R!L!latest_hash, P!latest_hash, R!L!RangeOf, P!RangeOf,
         R!L!Before, P!Before
<1> QED
  BY <1>1, <1>2 DEF R!L!insert, P!insert, R!L!Commit, P!Commit, R!L!Rollback, P!Rollback

-----------------------------------------------------------------------------
(* What a step does to the ledger *)

\* A chain is the start of another.
Starts(chain, longer) ==
    /\ Len(chain) <= Len(longer)
    /\ \A i \in 1 .. Len(chain) : longer[i] = chain[i]

LEMMA LedgerFields ==
    ASSUME P!OrderInv
    PROVE  /\ events \in Seq(P!Events) /\ Len(events) \in Nat /\ clock \in Int
           /\ staged \in [Sessions -> Seq(P!Events)]
           /\ \A i \in 1 .. Len(events) : events[i].data \in R!Data /\ events[i].id \in Nat
<1>1. events \in Seq(P!Events) /\ clock \in Int /\ staged \in [Sessions -> Seq(P!Events)]
  BY DEF P!OrderInv, P!TypeOK
<1>2. \A i \in 1 .. Len(events) : events[i] \in P!Events
  BY <1>1
<1> QED
  BY <1>1, <1>2, P!EventFields

\* What a commit appends to the chain
LEMMA CommitAppends ==
    ASSUME P!OrderInv, NEW s \in Sessions, P!Commit(s)
    PROVE  /\ Starts(events, events') /\ Len(events') = Len(events) + Len(staged[s])
           /\ \A i \in 1 .. Len(staged[s]) : events'[Len(events) + i] = staged[s][i]
           /\ staged[s] \in Seq(P!Events)
<1>1. events' = events \o staged[s] /\ events \in Seq(P!Events) /\ staged[s] \in Seq(P!Events)
  BY LedgerFields DEF P!Commit
<1> QED
  BY <1>1 DEF Starts

\* The chain and the clock only go on.
LEMMA LedgerGoesOn ==
    ASSUME P!OrderInv, [P!Next]_(P!vars)
    PROVE  /\ P!OrderInv' /\ Starts(events, events') /\ clock <= clock'
           /\ Len(events) \in Nat /\ Len(events') \in Nat /\ clock' \in Int
<1>1. P!OrderInv'
  BY Constants, P!OrderNext
<1>2. Len(events) \in Nat /\ Len(events') \in Nat /\ clock \in Int /\ clock' \in Int
  <2>1. events' \in Seq(P!Events) /\ clock' \in Int
    BY <1>1 DEF P!OrderInv, P!TypeOK
  <2> QED
    BY <2>1, LedgerFields
<1>3. ASSUME events' = events PROVE Starts(events, events')
  BY <1>2, <1>3 DEF Starts
<1>4. CASE UNCHANGED P!vars
  BY <1>1, <1>2, <1>3, <1>4 DEF P!vars
<1>5. ASSUME NEW s \in Sessions, P!insert(s) PROVE Starts(events, events') /\ clock <= clock'
  BY <1>2, <1>3, <1>5 DEF P!insert
<1>6. ASSUME NEW s \in Sessions, NEW data \in R!Data, P!append(s, data)
      PROVE  Starts(events, events') /\ clock <= clock'
  <2>1. events' = events /\ clock' = clock + 1
    BY <1>6 DEF P!append
  <2> QED
    BY <1>2, <1>3, <2>1
<1>7. ASSUME NEW s \in Sessions, P!Commit(s) PROVE Starts(events, events') /\ clock <= clock'
  <2>1. clock' = clock
    BY <1>7 DEF P!Commit, P!End
  <2> QED
    BY <1>2, <1>7, <2>1, CommitAppends
<1>8. ASSUME NEW s \in Sessions, P!Rollback(s) PROVE Starts(events, events') /\ clock <= clock'
  BY <1>2, <1>3, <1>8 DEF P!Rollback, P!End
<1> QED
  BY <1>1, <1>2, <1>4, <1>5, <1>6, <1>7, <1>8 DEF P!Next

-----------------------------------------------------------------------------
(* What a step does *)

\* The job of a checkpointer that has put a checkpoint together
Proposal(n, p) == [at |-> "insert", seen |-> n, new |-> p]

\* The step of a handler of Runs
HandlerStep(h, new) ==
    /\ serving' = [serving EXCEPT ![h] = new]
    /\ UNCHANGED <<checkpoints, job>>
    /\ \/ /\ serving[h] = R!Idle /\ UNCHANGED <<ledgerVars, runs>>
          /\ \E r \in RunIds :
                \/ /\ r \notin DOMAIN runs /\ \A g \in Handlers : serving[g].run # r
                   /\ new = [at |-> "insert", run |-> r, status |-> "running"]
                \/ /\ r \in DOMAIN runs
                   /\ new = [at |-> "append", run |-> r, status |-> "completed"]
       \/ /\ serving[h].at = "insert" /\ P!insert(h) /\ UNCHANGED runs
          /\ new = [serving[h] EXCEPT !.at = "append"]
       \/ /\ serving[h].at = "append" /\ UNCHANGED runs
          /\ P!append(h, [type |-> TypeFor(serving[h].status), run |-> serving[h].run])
          /\ new = [serving[h] EXCEPT !.at = "commit"]
       \/ serving[h].at = "commit" /\ P!Commit(h) /\ R!Save(h) /\ new = R!Idle
       \/ P!Rollback(h) /\ UNCHANGED runs /\ new = R!Idle

\* The step of a checkpointer
CheckpointerStep(c, new) ==
    /\ job' = [job EXCEPT ![c] = new]
    /\ UNCHANGED runVars
    /\ \/ /\ job[c] = Idle /\ UNCHANGED <<ledgerVars, checkpoints>>
          /\ new = [Idle EXCEPT !.at = "read", !.seen = Len(events)]
       \/ /\ job[c].at = "read" /\ UNCHANGED <<ledgerVars, checkpoints>>
          /\ IF LastCovered >= job[c].seen THEN new = Idle
             ELSE new = Proposal(job[c].seen, CoverRange(c))
       \/ /\ job[c].at = "insert" /\ P!insert(c) /\ UNCHANGED checkpoints
          /\ new = [job[c] EXCEPT !.at = "append"]
       \/ /\ job[c].at = "append" /\ UNCHANGED checkpoints
          /\ P!append(c, [type |-> "checkpoint.created",
                          run |-> events[job[c].new.to].data.run])
          /\ new = [job[c] EXCEPT !.at = "commit"]
       \/ /\ job[c].at = "commit" /\ P!Commit(c)
          /\ checkpoints' = checkpoints \cup {job[c].new} /\ new = Idle
       \/ P!Rollback(c) /\ UNCHANGED checkpoints /\ new = Idle

LEMMA HandlerData ==
    ASSUME Typed, NEW h \in Handlers, serving[h].at # "idle"
    PROVE  [type |-> TypeFor(serving[h].status), run |-> serving[h].run] \in R!Data
BY DEF Typed, Known, TypeFor, R!Data

LEMMA CheckpointerData ==
    ASSUME Typed, NEW c \in Checkpointers, Proposing(job[c])
    PROVE  /\ job[c].new.to \in 1 .. Len(events)
           /\ [type |-> "checkpoint.created", run |-> events[job[c].new.to].data.run] \in R!Data
<1>1. Within(job[c].new, Len(events)) /\ job[c].new \in Ranges
  BY DEF Typed, Bounded, Jobs
<1>2. job[c].new.from \in Nat /\ job[c].new.to \in Nat
  BY <1>1 DEF Ranges
<1>3. job[c].new.to \in 1 .. Len(events)
  BY <1>1, <1>2, LedgerFields DEF Within, Typed
<1>4. events[job[c].new.to].data \in R!Data
  BY <1>3, LedgerFields DEF Typed
<1> QED
  BY <1>3, <1>4 DEF R!Data

LEMMA HandlerSteps ==
    ASSUME Typed, NEW h \in Handlers,
           ServeRun(h) \/ HandleRun(h) \/ AbortRun(h)
             \/ (R!RunVictim(h) /\ UNCHANGED <<checkpoints, job, requests>>)
    PROVE  \E new : HandlerStep(h, new)
<1>0. h \in Sessions
  BY DEF Sessions
<1>1. ASSUME NEW r \in RunIds, R!create_run(h, r), UNCHANGED <<checkpoints, job>>
      PROVE  \E new : HandlerStep(h, new)
  <2>1. HandlerStep(h, [at |-> "insert", run |-> r, status |-> "running"])
    BY <1>1 DEF HandlerStep, R!create_run, R!Serve, ledgerVars, R!ledgerVars
  <2> QED
    BY <2>1
<1>2. ASSUME NEW r \in RunIds, R!complete_run(h, r), UNCHANGED <<checkpoints, job>>
      PROVE  \E new : HandlerStep(h, new)
  <2>1. HandlerStep(h, [at |-> "append", run |-> r, status |-> "completed"])
    BY <1>2 DEF HandlerStep, R!complete_run, R!Serve, ledgerVars, R!ledgerVars
  <2> QED
    BY <2>1
<1>3. CASE ServeRun(h)
  BY <1>1, <1>2, <1>3 DEF ServeRun
<1>4. ASSUME R!InsertRun(h), UNCHANGED <<checkpoints, job>>
      PROVE  \E new : HandlerStep(h, new)
  <2>1. HandlerStep(h, [serving[h] EXCEPT !.at = "append"])
    BY <1>0, <1>4, SameActions DEF HandlerStep, R!InsertRun
  <2> QED
    BY <2>1
<1>5. ASSUME R!AppendEvent(h), UNCHANGED <<checkpoints, job>>
      PROVE  \E new : HandlerStep(h, new)
  <2> DEFINE data == [type |-> TypeFor(serving[h].status), run |-> serving[h].run]
  <2>1. R!L!append(h, data)
    BY <1>5 DEF R!AppendEvent, TypeFor
  <2>2. data \in R!Data
    BY <1>5, HandlerData DEF R!AppendEvent
  <2>3. P!append(h, data)
    BY <1>0, <2>1, <2>2, SameActions
  <2>4. HandlerStep(h, [serving[h] EXCEPT !.at = "commit"])
    BY <1>5, <2>3 DEF HandlerStep, R!AppendEvent
  <2> QED
    BY <2>4
<1>6. ASSUME R!CommitRun(h), UNCHANGED <<checkpoints, job>>
      PROVE  \E new : HandlerStep(h, new)
  <2>1. HandlerStep(h, R!Idle)
    BY <1>0, <1>6, SameActions DEF HandlerStep, R!CommitRun
  <2> QED
    BY <2>1
<1>7. CASE HandleRun(h)
  BY <1>4, <1>5, <1>6, <1>7 DEF HandleRun, R!Handle
<1>8. ASSUME R!AbortRun(h), UNCHANGED <<checkpoints, job>>
      PROVE  \E new : HandlerStep(h, new)
  <2>1. HandlerStep(h, R!Idle)
    BY <1>0, <1>8, SameActions DEF HandlerStep, R!AbortRun
  <2> QED
    BY <2>1
<1> QED
  BY <1>3, <1>7, <1>8 DEF AbortRun, R!RunVictim

LEMMA CheckpointerSteps ==
    ASSUME Typed, NEW c \in Checkpointers,
           ReadEvents(c) \/ CreateCheckpoint(c) \/ AbortCheckpoint(c)
    PROVE  \E new : CheckpointerStep(c, new)
<1>0. c \in Sessions
  BY DEF Sessions
<1>1. CASE ReadEvents(c)
  <2>1. CheckpointerStep(c, [Idle EXCEPT !.at = "read", !.seen = Len(events)])
    BY <1>1 DEF CheckpointerStep, ReadEvents
  <2> QED
    BY <2>1
<1>2. CASE ReadPrevious(c)
  <2> DEFINE new == IF LastCovered >= job[c].seen THEN Idle
                    ELSE Proposal(job[c].seen, CoverRange(c))
  <2>1. CheckpointerStep(c, new)
    BY <1>2 DEF CheckpointerStep, ReadPrevious, Proposal
  <2> QED
    BY <2>1
<1>3. CASE InsertCheckpoint(c)
  <2>1. CheckpointerStep(c, [job[c] EXCEPT !.at = "append"])
    BY <1>0, <1>3, SameActions DEF CheckpointerStep, InsertCheckpoint
  <2> QED
    BY <2>1
<1>4. CASE AppendCreated(c)
  <2> DEFINE data == [type |-> "checkpoint.created", run |-> events[job[c].new.to].data.run]
  <2>1. R!L!append(c, data)
    BY <1>4 DEF AppendCreated
  <2>2. data \in R!Data
    BY <1>4, CheckpointerData DEF AppendCreated, Proposing
  <2>3. P!append(c, data)
    BY <1>0, <2>1, <2>2, SameActions
  <2>4. CheckpointerStep(c, [job[c] EXCEPT !.at = "commit"])
    BY <1>4, <2>3 DEF CheckpointerStep, AppendCreated
  <2> QED
    BY <2>4
<1>5. CASE CommitCheckpoint(c)
  <2>1. CheckpointerStep(c, Idle)
    BY <1>0, <1>5, SameActions DEF CheckpointerStep, CommitCheckpoint
  <2> QED
    BY <2>1
<1>6. CASE AbortCheckpoint(c)
  <2>1. CheckpointerStep(c, Idle)
    BY <1>0, <1>6, SameActions DEF CheckpointerStep, AbortCheckpoint
  <2> QED
    BY <2>1
<1> QED
  BY <1>1, <1>2, <1>3, <1>4, <1>5, <1>6 DEF CreateCheckpoint

\* Every step is one of a handler or of a checkpointer.
LEMMA Steps ==
    ASSUME Typed, [Next]_vars
    PROVE  \/ \E h \in Handlers : \E new : HandlerStep(h, new)
           \/ \E c \in Checkpointers : \E new : CheckpointerStep(c, new)
           \/ UNCHANGED <<ledgerVars, runVars, checkpoints, job>>
<1>1. CASE UNCHANGED vars
  BY <1>1 DEF vars
<1>2. ASSUME NEW h \in Handlers, ServeRun(h) \/ HandleRun(h) \/ AbortRun(h)
      PROVE  \E g \in Handlers : \E new : HandlerStep(g, new)
  BY <1>2, HandlerSteps
<1>3. ASSUME NEW c \in Checkpointers, ReadEvents(c) \/ CreateCheckpoint(c) \/ AbortCheckpoint(c)
      PROVE  \E d \in Checkpointers : \E new : CheckpointerStep(d, new)
  BY <1>3, CheckpointerSteps
<1>4. ASSUME Victim
      PROVE  \/ \E h \in Handlers : \E new : HandlerStep(h, new)
             \/ \E c \in Checkpointers : \E new : CheckpointerStep(c, new)
  BY <1>4, HandlerSteps, CheckpointerSteps DEF Victim
<1> QED
  BY <1>1, <1>2, <1>3, <1>4 DEF Next

\* The ledger changes through its own operations alone.
LEMMA LedgerStep ==
    ASSUME Typed, [Next]_vars
    PROVE  [P!Next]_(P!vars)
<1>1. ASSUME UNCHANGED ledgerVars PROVE UNCHANGED P!vars
  BY <1>1 DEF ledgerVars, P!vars
<1>2. ASSUME NEW h \in Handlers, NEW new, HandlerStep(h, new) PROVE [P!Next]_(P!vars)
  <2>1. h \in Sessions
    BY DEF Sessions
  <2> QED
    BY <1>1, <1>2, <2>1, HandlerData DEF HandlerStep, P!Next
<1>3. ASSUME NEW c \in Checkpointers, NEW new, CheckpointerStep(c, new) PROVE [P!Next]_(P!vars)
  <2>1. c \in Sessions
    BY DEF Sessions
  <2> QED
    BY <1>1, <1>3, <2>1, CheckpointerData DEF CheckpointerStep, P!Next, Proposing
<1> QED
  BY <1>1, <1>2, <1>3, Steps

-----------------------------------------------------------------------------
(* Typed *)

LEMMA LastCoveredIs ==
    ASSUME checkpoints \subseteq Ranges, HasLatest(checkpoints)
    PROVE  \/ checkpoints = {} /\ LastCovered = 0
           \/ \E p \in checkpoints :
                 LastCovered = p.to /\ \A q \in checkpoints : q.created_at <= p.created_at
<1>1. CASE checkpoints = {}
  BY <1>1 DEF LastCovered
<1>2. CASE checkpoints # {}
  <2> DEFINE Newest(p) == \A q \in checkpoints : q.created_at <= p.created_at
             last == CHOOSE p \in checkpoints : Newest(p)
  <2>1. \E p \in checkpoints : Newest(p)
    BY <1>2 DEF HasLatest
  <2>2. last \in checkpoints /\ Newest(last)
    <3> HIDE DEF Newest
    <3> QED
      BY <2>1
  <2>3. LastCovered = last.to
    BY <1>2 DEF LastCovered
  <2> QED
    BY <2>2, <2>3
<1> QED
  BY <1>1, <1>2

LEMMA RangeFields ==
    ASSUME NEW p \in Ranges
    PROVE  /\ p.from \in Nat /\ p.to \in Nat /\ p.event_count \in Nat /\ p.created_at \in Int
BY DEF Ranges

LEMMA LastCoveredTyped ==
    ASSUME checkpoints \subseteq Ranges, HasLatest(checkpoints)
    PROVE  LastCovered \in Nat
BY LastCoveredIs, RangeFields

\* The checkpoint that a handler proposes
LEMMA CoverRangeIs ==
    ASSUME Typed, NEW c \in Checkpointers, ~(LastCovered >= job[c].seen)
    PROVE  LET p == CoverRange(c) IN
           /\ p \in Ranges /\ Within(p, Len(events)) /\ p.to = job[c].seen
           /\ p.from = LastCovered + 1 /\ p.created_at = clock /\ RootOf(events, p)
<1> DEFINE p == CoverRange(c)
           from == LastCovered + 1
           to == job[c].seen
           hashes == [i \in 1 .. to - from + 1 |-> <<events[from + i - 1].id>>]
<1>1. /\ from \in Nat \ {0} /\ to \in Nat /\ from <= to /\ to <= Len(events) /\ clock \in Int
      /\ Len(events) \in Nat
  <2>1. LastCovered \in Nat
    BY LastCoveredTyped DEF Typed
  <2>2. job[c] \in Jobs /\ job[c].seen <= Len(events)
    BY DEF Typed, Bounded
  <2>3. job[c].seen \in Nat
    BY <2>2 DEF Jobs
  <2> QED
    BY <2>1, <2>2, <2>3, LedgerFields DEF Typed
<1>2. p = [from |-> from, to |-> to, event_count |-> to - from + 1, created_at |-> clock,
           root |-> M!compute_merkle_root(hashes)]
  BY DEF CoverRange, Checkpoint
<1>3. hashes \in Digests
  <2>1. to - from + 1 \in Nat
    BY <1>1
  <2>2. \A i \in 1 .. to - from + 1 : from + i - 1 \in 1 .. Len(events)
    BY <1>1
  <2>3. \A i \in 1 .. to - from + 1 : <<events[from + i - 1].id>> \in {<<n>> : n \in Nat}
    BY <2>2, LedgerFields DEF Typed
  <2> DEFINE S == {<<n>> : n \in Nat}
             k == to - from + 1
  <2>4. hashes \in [1 .. k -> S]
    BY <2>3
  <2> HIDE DEF S, k, hashes
  <2>5. hashes \in Seq(S)
    BY <2>1, <2>4 DEF k
  <2> QED
    BY <2>5 DEF Digests, S
<1> DEFINE roots == {<<>>} \cup {M!compute_merkle_root(digests) : digests \in Digests}
<1>4. M!compute_merkle_root(hashes) \in roots
  <2> HIDE DEF hashes
  <2> QED
    BY <1>3
<1>5. /\ p.from = from /\ p.to = to /\ p.event_count = to - from + 1 /\ p.created_at = clock
      /\ p.root = M!compute_merkle_root(hashes)
  BY <1>2
<1>6. p \in Ranges
  <2>1. to - from + 1 \in Nat /\ from \in Nat
    BY <1>1
  <2> HIDE DEF hashes, from, to, p
  <2> QED
    BY <1>1, <1>2, <1>4, <2>1 DEF Ranges
<1>7. Within(p, Len(events))
  BY <1>1, <1>5 DEF Within
<1>8. RootOf(events, p)
  <2>1. HashesOf(events, p) = hashes
    BY <1>5 DEF HashesOf
  <2> QED
    BY <1>5, <2>1 DEF RootOf
<1> QED
  BY <1>5, <1>6, <1>7, <1>8

LEMMA BoundedLater ==
    ASSUME NEW j \in Jobs, NEW n \in Nat, NEW m \in Nat, NEW t \in Int, NEW u \in Int,
           n <= m, t <= u, Bounded(j, n, t)
    PROVE  Bounded(j, m, u)
<1>1. j.seen \in Nat /\ j.new \in Ranges
  BY DEF Jobs
<1>2. j.new.to \in Nat /\ j.new.created_at \in Int
  BY <1>1, RangeFields
<1> QED
  BY <1>1, <1>2 DEF Bounded, Within

LEMMA KeptLater ==
    ASSUME NEW p \in Ranges, NEW n \in Nat, NEW m \in Nat, NEW t \in Int, NEW u \in Int,
           n <= m, t <= u, Kept(p, n, t)
    PROVE  Kept(p, m, u)
BY RangeFields DEF Kept, Within

LEMMA IdleTyped ==
    /\ R!Idle \in Servings /\ Known(R!Idle) /\ R!Idle.at = "idle" /\ R!Idle.run = None
    /\ Idle \in Jobs /\ Idle.at = "idle" /\ Idle.seen = 0 /\ ~Proposing(Idle)
<1>1. R!Idle \in Servings /\ Known(R!Idle) /\ R!Idle.at = "idle" /\ R!Idle.run = None
  BY DEF R!Idle, Servings, Known
<1>2. NoRange \in Ranges
  BY DEF NoRange, Ranges
<1>3. Idle \in Jobs /\ Idle.at = "idle" /\ Idle.seen = 0
  BY <1>2 DEF Idle, Jobs
<1> QED
  BY <1>1, <1>3 DEF Proposing

\* What a handler of Runs goes on to
LEMMA ServingMoves ==
    ASSUME NEW x \in Servings, NEW a \in {"append", "commit"},
           NEW n, n = [x EXCEPT !.at = a]
    PROVE  n \in Servings /\ n.at = a /\ n.run = x.run /\ n.status = x.status
BY DEF Servings

LEMMA JobMoves ==
    ASSUME NEW j \in Jobs, NEW a \in {"append", "commit"},
           NEW n, n = [j EXCEPT !.at = a]
    PROVE  n \in Jobs /\ n.at = a /\ n.seen = j.seen /\ n.new = j.new
BY DEF Jobs

LEMMA JobReads ==
    ASSUME NEW k \in Nat, NEW n, n = [Idle EXCEPT !.at = "read", !.seen = k]
    PROVE  n \in Jobs /\ n.at = "read" /\ n.seen = k
<1>1. n = [at |-> "read", seen |-> k, new |-> NoRange]
  BY DEF Idle
<1>2. NoRange \in Ranges
  BY DEF NoRange, Ranges
<1> QED
  BY <1>1, <1>2 DEF Jobs

LEMMA JobProposes ==
    ASSUME NEW k \in Nat, NEW p \in Ranges
    PROVE  LET n == Proposal(k, p) IN
           n \in Jobs /\ n.at = "insert" /\ n.seen = k /\ n.new = p /\ Proposing(n)
BY DEF Proposal, Jobs, Proposing

LEMMA HandlerTyped ==
    ASSUME Typed, NEW h \in Handlers, NEW new, HandlerStep(h, new)
    PROVE  new \in Servings /\ Known(new)
<1>1. serving[h] \in Servings /\ Known(serving[h])
  BY DEF Typed
<1>2. ASSUME NEW r \in RunIds, new = [at |-> "insert", run |-> r, status |-> "running"]
      PROVE  new \in Servings /\ Known(new)
  BY <1>2 DEF Servings, Known
<1>3. ASSUME NEW r \in RunIds, new = [at |-> "append", run |-> r, status |-> "completed"]
      PROVE  new \in Servings /\ Known(new)
  BY <1>3 DEF Servings, Known
<1>4. ASSUME serving[h].at = "insert", new = [serving[h] EXCEPT !.at = "append"]
      PROVE  new \in Servings /\ Known(new)
  BY <1>1, <1>4, ServingMoves DEF Known
<1>5. ASSUME serving[h].at = "append", new = [serving[h] EXCEPT !.at = "commit"]
      PROVE  new \in Servings /\ Known(new)
  BY <1>1, <1>5, ServingMoves DEF Known
<1> QED
  BY <1>2, <1>3, <1>4, <1>5, IdleTyped DEF HandlerStep

LEMMA CheckpointerTyped ==
    ASSUME Typed, [Next]_vars, NEW c \in Checkpointers, NEW new, CheckpointerStep(c, new)
    PROVE  new \in Jobs /\ Bounded(new, Len(events'), clock')
<1>0. /\ P!OrderInv /\ job[c] \in Jobs /\ Bounded(job[c], Len(events), clock)
      /\ Len(events) \in Nat /\ Len(events') \in Nat /\ clock \in Int /\ clock' \in Int
      /\ Len(events) <= Len(events') /\ clock <= clock'
      /\ job[c].seen \in Nat /\ job[c].new \in Ranges
  <2>1. P!OrderInv /\ job[c] \in Jobs /\ Bounded(job[c], Len(events), clock)
    BY DEF Typed
  <2>2. job[c].seen \in Nat /\ job[c].new \in Ranges
    BY <2>1 DEF Jobs
  <2> QED
    BY <2>1, <2>2, LedgerStep, LedgerGoesOn, LedgerFields DEF Starts
<1>1. CASE new = Idle
  BY <1>0, <1>1, IdleTyped DEF Bounded
<1>2. CASE new = [Idle EXCEPT !.at = "read", !.seen = Len(events)]
  BY <1>0, <1>2, JobReads DEF Bounded, Proposing
<1>3. CASE /\ UNCHANGED ledgerVars /\ ~(LastCovered >= job[c].seen)
           /\ new = Proposal(job[c].seen, CoverRange(c))
  <2>1. /\ CoverRange(c) \in Ranges /\ Within(CoverRange(c), Len(events))
        /\ CoverRange(c).created_at = clock
    BY <1>3, CoverRangeIs
  <2>2. /\ new \in Jobs /\ new.at = "insert" /\ new.seen = job[c].seen
        /\ new.new = CoverRange(c)
    BY <1>0, <1>3, <2>1, JobProposes
  <2>3. events' = events /\ clock' = clock
    BY <1>3 DEF ledgerVars
  <2> HIDE DEF CoverRange
  <2> QED
    BY <1>0, <2>1, <2>2, <2>3 DEF Bounded
<1>4. CASE job[c].at = "insert" /\ new = [job[c] EXCEPT !.at = "append"]
  <2>1. new \in Jobs /\ new.at = "append" /\ new.seen = job[c].seen /\ new.new = job[c].new
    BY <1>0, <1>4, JobMoves
  <2>2. Bounded(new, Len(events), clock)
    BY <1>0, <1>4, <2>1 DEF Bounded, Proposing
  <2> QED
    BY <1>0, <2>1, <2>2, BoundedLater
<1>5. ASSUME NEW data \in R!Data, job[c].at = "append", P!append(c, data),
             new = [job[c] EXCEPT !.at = "commit"]
      PROVE  new \in Jobs /\ Bounded(new, Len(events'), clock')
  <2>1. new \in Jobs /\ new.at = "commit" /\ new.seen = job[c].seen /\ new.new = job[c].new
    BY <1>0, <1>5, JobMoves
  <2>2. clock' = clock + 1 /\ events' = events
    BY <1>5 DEF P!append
  <2>3. job[c].new.created_at \in Int /\ job[c].new.created_at <= clock
    BY <1>0, <1>5, RangeFields DEF Bounded, Proposing
  <2>4. Within(job[c].new, Len(events)) /\ job[c].seen <= Len(events)
    BY <1>0, <1>5 DEF Bounded, Proposing
  <2> QED
    BY <1>0, <2>1, <2>2, <2>3, <2>4 DEF Bounded
<1> QED
  BY <1>1, <1>2, <1>3, <1>4, <1>5, CheckpointerData DEF CheckpointerStep, Proposing

LEMMA TypedInit ==
    ASSUME Init
    PROVE  Typed
<1>1. P!OrderInv
  <2>1. P!Init
    BY DEF Init, R!L!Init, P!Init, Sessions
  <2> QED
    BY <2>1, Constants, P!OrderInit
<1>2. DOMAIN runs = {} /\ events = <<>>
  BY DEF Init, R!Init, R!L!Init
<1>3. serving \in [Handlers -> Servings] /\ \A h \in Handlers : Known(serving[h])
  BY IdleTyped DEF Init, R!Init
<1>4. job \in [Checkpointers -> Jobs] /\ \A c \in Checkpointers : job[c] = Idle
  BY IdleTyped DEF Init
<1>5. \A c \in Checkpointers : Bounded(job[c], Len(events), clock)
  <2>1. Len(events) = 0
    BY <1>2
  <2> QED
    BY <1>4, <2>1, IdleTyped DEF Bounded
<1>6. checkpoints = {}
  BY DEF Init
<1> QED
  BY <1>1, <1>2, <1>3, <1>4, <1>5, <1>6 DEF Typed, HasLatest

\* The tables while nothing of their own happens
LEMMA JobsStay ==
    ASSUME Typed, [Next]_vars, job' = job
    PROVE  job' \in [Checkpointers -> Jobs]
           /\ \A c \in Checkpointers : Bounded(job[c], Len(events), clock)'
<1>1. ASSUME NEW c \in Checkpointers PROVE Bounded(job[c], Len(events'), clock')
  <2>1. job[c] \in Jobs /\ Bounded(job[c], Len(events), clock) /\ P!OrderInv
    BY DEF Typed
  <2> QED
    BY <2>1, LedgerFields, LedgerStep, LedgerGoesOn, BoundedLater DEF Starts
<1> QED
  BY <1>1 DEF Typed

LEMMA CheckpointsStay ==
    ASSUME Typed, [Next]_vars
    PROVE  \A p \in checkpoints : Kept(p, Len(events'), clock')
<1> SUFFICES ASSUME NEW p \in checkpoints PROVE Kept(p, Len(events'), clock')
  OBVIOUS
<1>1. p \in Ranges /\ Kept(p, Len(events), clock) /\ P!OrderInv
  BY DEF Typed
<1> QED
  BY <1>1, LedgerFields, LedgerStep, LedgerGoesOn, KeptLater DEF Starts

LEMMA RunsTyped ==
    ASSUME Typed, NEW h \in Handlers, NEW new, HandlerStep(h, new)
    PROVE  DOMAIN runs' \subseteq RunIds /\ \A r \in DOMAIN runs' : runs'[r] \in {"running", "completed"}
<1>1. CASE runs' = runs
  BY <1>1 DEF Typed
<1>2. CASE serving[h].at = "commit" /\ R!Save(h)
  <2>1. serving[h].run \in RunIds /\ serving[h].status \in {"running", "completed"}
    BY <1>2 DEF Typed, Known
  <2> QED
    BY <1>2, <2>1 DEF Typed, R!Save
<1> QED
  BY <1>1, <1>2 DEF HandlerStep, ledgerVars

LEMMA HasLatestAdd ==
    ASSUME NEW S \in SUBSET Ranges, HasLatest(S), NEW p \in Ranges
    PROVE  HasLatest(S \cup {p})
<1>1. p.created_at \in Int /\ \A q \in S : q.created_at \in Int
  BY RangeFields
<1>2. CASE S = {}
  BY <1>1, <1>2 DEF HasLatest
<1>3. ASSUME NEW last \in S, \A q \in S : q.created_at <= last.created_at
      PROVE  HasLatest(S \cup {p})
  <2>1. CASE p.created_at <= last.created_at
    BY <1>3, <2>1 DEF HasLatest
  <2>2. CASE last.created_at <= p.created_at
    <3>1. \A q \in S : q.created_at <= p.created_at
      BY <1>1, <1>3, <2>2
    <3> QED
      BY <1>1, <3>1 DEF HasLatest
  <2> QED
    BY <1>1, <2>1, <2>2
<1> QED
  BY <1>2, <1>3 DEF HasLatest

LEMMA CheckpointsTyped ==
    ASSUME Typed, [Next]_vars, NEW c \in Checkpointers, NEW new, CheckpointerStep(c, new)
    PROVE  /\ checkpoints' \subseteq Ranges /\ HasLatest(checkpoints')
           /\ \A p \in checkpoints' : Kept(p, Len(events'), clock')
<1>1. CASE checkpoints' = checkpoints
  BY <1>1, CheckpointsStay DEF Typed
<1>2. CASE job[c].at = "commit" /\ checkpoints' = checkpoints \cup {job[c].new}
  <2>1. job[c] \in Jobs /\ Bounded(job[c], Len(events), clock) /\ P!OrderInv
    BY DEF Typed
  <2>2. job[c].new \in Ranges /\ Kept(job[c].new, Len(events), clock)
    BY <1>2, <2>1 DEF Jobs, Bounded, Proposing, Kept
  <2>3. Kept(job[c].new, Len(events'), clock')
    BY <2>1, <2>2, LedgerFields, LedgerStep, LedgerGoesOn, KeptLater DEF Starts
  <2> QED
    BY <1>2, <2>2, <2>3, CheckpointsStay, HasLatestAdd DEF Typed
<1> QED
  BY <1>1, <1>2 DEF CheckpointerStep

LEMMA TypedNext ==
    ASSUME Typed, [Next]_vars
    PROVE  Typed'
<1>1. P!OrderInv'
  BY LedgerStep, LedgerGoesOn DEF Typed
<1>2. ASSUME NEW h \in Handlers, NEW new, HandlerStep(h, new) PROVE Typed'
  <2>1. /\ new \in Servings /\ Known(new) /\ serving' = [serving EXCEPT ![h] = new]
        /\ job' = job /\ checkpoints' = checkpoints
    BY <1>2, HandlerTyped DEF HandlerStep
  <2>2. serving' \in [Handlers -> Servings] /\ \A g \in Handlers : Known(serving'[g])
    BY <2>1 DEF Typed
  <2>3. \A p \in checkpoints' : Kept(p, Len(events'), clock')
    BY <2>1, CheckpointsStay
  <2> QED
    BY <1>1, <1>2, <2>1, <2>2, <2>3, JobsStay, RunsTyped DEF Typed
<1>3. ASSUME NEW c \in Checkpointers, NEW new, CheckpointerStep(c, new) PROVE Typed'
  <2>1. /\ new \in Jobs /\ Bounded(new, Len(events'), clock') /\ job' = [job EXCEPT ![c] = new]
        /\ runs' = runs /\ serving' = serving
    BY <1>3, CheckpointerTyped DEF CheckpointerStep, runVars
  <2>2. ASSUME NEW d \in Checkpointers PROVE Bounded(job[d], Len(events), clock)'
    <3>1. Bounded(job[d], Len(events'), clock')
      <4>1. job[d] \in Jobs /\ Bounded(job[d], Len(events), clock) /\ P!OrderInv
        BY DEF Typed
      <4> QED
        BY <4>1, LedgerFields, LedgerStep, LedgerGoesOn, BoundedLater DEF Starts
    <3>2. job'[d] = IF d = c THEN new ELSE job[d]
      BY <2>1 DEF Typed
    <3> QED
      BY <2>1, <3>1, <3>2
  <2>3. job' \in [Checkpointers -> Jobs]
    BY <2>1 DEF Typed
  <2> QED
    BY <1>1, <1>3, <2>1, <2>2, <2>3, CheckpointsTyped DEF Typed
<1>4. CASE UNCHANGED <<ledgerVars, runVars, checkpoints, job>>
  <2>1. events' = events /\ clock' = clock /\ UNCHANGED <<runs, serving, checkpoints, job>>
    BY <1>4 DEF ledgerVars, runVars
  <2> QED
    BY <1>1, <2>1 DEF Typed
<1> QED
  BY <1>2, <1>3, <1>4, Steps

-----------------------------------------------------------------------------
(* Phased *)

\* What an operation leaves in the sessions
LEMMA StagedAfter ==
    ASSUME P!OrderInv, NEW s \in Sessions
    PROVE  /\ P!insert(s) => staged' = staged
           /\ P!Commit(s) \/ P!Rollback(s) =>
                 staged'[s] = <<>> /\ \A t \in Sessions \ {s} : staged'[t] = staged[t]
           /\ \A data \in R!Data : P!append(s, data) /\ staged[s] = <<>> =>
                 /\ Len(staged'[s]) = 1 /\ staged'[s][1].data = data
                 /\ \A t \in Sessions \ {s} : staged'[t] = staged[t]
<1>1. ASSUME P!Commit(s) \/ P!Rollback(s)
      PROVE  staged'[s] = <<>> /\ \A t \in Sessions \ {s} : staged'[t] = staged[t]
  BY <1>1, LedgerFields DEF P!Commit, P!Rollback, P!End
<1>2. ASSUME NEW data \in R!Data, P!append(s, data), staged[s] = <<>>
      PROVE  /\ Len(staged'[s]) = 1 /\ staged'[s][1].data = data
             /\ \A t \in Sessions \ {s} : staged'[t] = staged[t]
  <2> DEFINE e == [id |-> ids + 1, timestamp |-> clock',
                   previous_hash |-> P!latest_hash(P!RangeOf(events) \cup P!RangeOf(staged[s])),
                   data |-> data]
  <2>1. staged' = [staged EXCEPT ![s] = Append(staged[s], e)] /\ e.data = data
    BY <1>2 DEF P!append
  <2> HIDE DEF e
  <2>2. staged'[s] = Append(<<>>, e) /\ \A t \in Sessions \ {s} : staged'[t] = staged[t]
    BY <1>2, <2>1, LedgerFields
  <2>3. Len(Append(<<>>, e)) = 1 /\ Append(<<>>, e)[1] = e
    OBVIOUS
  <2> QED
    BY <2>1, <2>2, <2>3
<1> QED
  BY <1>1, <1>2 DEF P!insert

LEMMA PhasedInit ==
    ASSUME Init
    PROVE  Phased
<1>1. \A s \in Sessions : staged[s] = <<>>
  BY DEF Init, R!L!Init, Sessions
<1>2. \A h \in Handlers : h \in Sessions /\ serving[h].at # "commit"
  BY IdleTyped DEF Init, R!Init, Sessions
<1>3. \A c \in Checkpointers : c \in Sessions /\ job[c].at # "commit"
  BY IdleTyped DEF Init, Sessions
<1> QED
  BY <1>1, <1>2, <1>3 DEF Phased, WroteRun, WroteCheckpoint

\* A handler whose session is not touched has still written what it had.
LEMMA PhasedElsewhere ==
    ASSUME Typed, Phased, [Next]_vars
    PROVE  /\ \A h \in Handlers :
                 staged'[h] = staged[h] /\ serving'[h] = serving[h] => WroteRun(h)'
           /\ \A c \in Checkpointers :
                 staged'[c] = staged[c] /\ job'[c] = job[c] => WroteCheckpoint(c)'
<1>1. ASSUME NEW h \in Handlers, staged'[h] = staged[h], serving'[h] = serving[h]
      PROVE  WroteRun(h)'
  BY <1>1 DEF Phased, WroteRun
<1>2. ASSUME NEW c \in Checkpointers, staged'[c] = staged[c], job'[c] = job[c]
      PROVE  WroteCheckpoint(c)'
  <2>1. /\ Len(events) \in Nat /\ Len(events') \in Nat /\ Starts(events, events')
    BY LedgerStep, LedgerGoesOn DEF Typed
  <2>2. ASSUME NEW r, NEW i \in 1 .. Len(events), events[i].data.run = r
        PROVE  \E k \in 1 .. Len(events') : events'[k].data.run = r
    BY <2>1, <2>2 DEF Starts
  <2> QED
    BY <1>2, <2>2 DEF Phased, WroteCheckpoint
<1> QED
  BY <1>1, <1>2

LEMMA PhasedHandler ==
    ASSUME Typed, Phased, [Next]_vars, NEW h \in Handlers, NEW new, HandlerStep(h, new)
    PROVE  Phased'
<1>0. /\ P!OrderInv /\ h \in Sessions /\ serving[h] \in Servings /\ WroteRun(h)
      /\ serving'[h] = new /\ \A g \in Handlers \ {h} : serving'[g] = serving[g]
      /\ job' = job
  BY DEF Typed, Phased, Sessions, HandlerStep
<1>1. ASSUME \A s \in Sessions \ {h} : staged'[s] = staged[s], WroteRun(h)'
      PROVE  Phased'
  <2>1. \A g \in Handlers \ {h} : WroteRun(g)'
    BY <1>0, <1>1, PhasedElsewhere DEF Sessions
  <2>2. \A c \in Checkpointers : WroteCheckpoint(c)'
    BY <1>0, <1>1, PhasedElsewhere, CheckpointsAssumption DEF Sessions
  <2> QED
    BY <1>1, <2>1, <2>2 DEF Phased
<1>2. CASE UNCHANGED ledgerVars /\ serving[h].at = "idle" /\ new.at # "commit"
  BY <1>0, <1>1, <1>2 DEF ledgerVars, WroteRun
<1>3. CASE serving[h].at = "insert" /\ P!insert(h) /\ new = [serving[h] EXCEPT !.at = "append"]
  <2>1. staged' = staged /\ new.at = "append"
    BY <1>0, <1>3, StagedAfter, ServingMoves
  <2> QED
    BY <1>0, <1>1, <1>3, <2>1 DEF WroteRun
<1>4. CASE /\ serving[h].at = "append"
           /\ P!append(h, [type |-> TypeFor(serving[h].status), run |-> serving[h].run])
           /\ new = [serving[h] EXCEPT !.at = "commit"]
  <2>1. new.run = serving[h].run /\ new.status = serving[h].status /\ new.at = "commit"
    BY <1>0, <1>4, ServingMoves
  <2>2. staged[h] = <<>>
    BY <1>0, <1>4 DEF WroteRun
  <2>3. /\ Len(staged'[h]) = 1
        /\ staged'[h][1].data = [type |-> TypeFor(serving[h].status), run |-> serving[h].run]
        /\ \A t \in Sessions \ {h} : staged'[t] = staged[t]
    BY <1>0, <1>4, <2>2, HandlerData, StagedAfter
  <2> QED
    BY <1>0, <1>1, <2>1, <2>3 DEF WroteRun
<1>5. CASE (P!Commit(h) \/ P!Rollback(h)) /\ new = R!Idle
  BY <1>0, <1>1, <1>5, StagedAfter, IdleTyped DEF WroteRun
<1>6. serving[h] = R!Idle => serving[h].at = "idle"
  BY IdleTyped
<1>7. \A r : /\ [at |-> "insert", run |-> r, status |-> "running"].at # "commit"
             /\ [at |-> "append", run |-> r, status |-> "completed"].at # "commit"
  OBVIOUS
<1> QED
  BY <1>2, <1>3, <1>4, <1>5, <1>6, <1>7 DEF HandlerStep

LEMMA PhasedCheckpointer ==
    ASSUME Typed, Phased, [Next]_vars, NEW c \in Checkpointers, NEW new, CheckpointerStep(c, new)
    PROVE  Phased'
<1>0. /\ P!OrderInv /\ c \in Sessions /\ job[c] \in Jobs /\ WroteCheckpoint(c)
      /\ job'[c] = new /\ \A d \in Checkpointers \ {c} : job'[d] = job[d]
      /\ serving' = serving
  BY DEF Typed, Phased, Sessions, CheckpointerStep, runVars
<1>1. ASSUME \A s \in Sessions \ {c} : staged'[s] = staged[s], WroteCheckpoint(c)'
      PROVE  Phased'
  <2>1. \A d \in Checkpointers \ {c} : WroteCheckpoint(d)'
    BY <1>0, <1>1, PhasedElsewhere DEF Sessions
  <2>2. \A h \in Handlers : WroteRun(h)'
    BY <1>0, <1>1, PhasedElsewhere, CheckpointsAssumption DEF Sessions
  <2> QED
    BY <1>1, <2>1, <2>2 DEF Phased
<1>2. CASE UNCHANGED ledgerVars /\ job[c].at # "commit" /\ new.at # "commit"
  BY <1>0, <1>1, <1>2 DEF ledgerVars, WroteCheckpoint
<1>3. CASE job[c].at = "insert" /\ P!insert(c) /\ new = [job[c] EXCEPT !.at = "append"]
  <2>1. staged' = staged /\ new.at = "append"
    BY <1>0, <1>3, StagedAfter, JobMoves
  <2> QED
    BY <1>0, <1>1, <1>3, <2>1 DEF WroteCheckpoint
<1>4. CASE /\ job[c].at = "append"
           /\ P!append(c, [type |-> "checkpoint.created", run |-> events[job[c].new.to].data.run])
           /\ new = [job[c] EXCEPT !.at = "commit"]
  <2>1. new.at = "commit"
    BY <1>0, <1>4, JobMoves
  <2>2. staged[c] = <<>>
    BY <1>0, <1>4 DEF WroteCheckpoint
  <2>3. job[c].new.to \in 1 .. Len(events)
    BY <1>4, CheckpointerData DEF Proposing
  <2>4. /\ Len(staged'[c]) = 1
        /\ staged'[c][1].data =
              [type |-> "checkpoint.created", run |-> events[job[c].new.to].data.run]
        /\ \A t \in Sessions \ {c} : staged'[t] = staged[t]
    BY <1>0, <1>4, <2>2, CheckpointerData, StagedAfter DEF Proposing
  <2>5. events' = events
    BY <1>4 DEF P!append
  <2> QED
    BY <1>0, <1>1, <2>1, <2>3, <2>4, <2>5 DEF WroteCheckpoint
<1>5. CASE (P!Commit(c) \/ P!Rollback(c)) /\ new = Idle
  BY <1>0, <1>1, <1>5, StagedAfter, IdleTyped DEF WroteCheckpoint
<1>6. CASE job[c] = Idle /\ UNCHANGED ledgerVars
           /\ new = [Idle EXCEPT !.at = "read", !.seen = Len(events)]
  <2>1. new.at = "read"
    BY <1>0, <1>6, JobReads, LedgerFields
  <2> QED
    BY <1>2, <1>6, <2>1, IdleTyped
<1>7. CASE job[c].at = "read" /\ UNCHANGED ledgerVars
           /\ IF LastCovered >= job[c].seen THEN new = Idle
              ELSE new = Proposal(job[c].seen, CoverRange(c))
  <2>1. Proposal(job[c].seen, CoverRange(c)).at = "insert"
    BY DEF Proposal
  <2> QED
    BY <1>2, <1>7, <2>1, IdleTyped
<1> QED
  BY <1>3, <1>4, <1>5, <1>6, <1>7 DEF CheckpointerStep

LEMMA PhasedNext ==
    ASSUME Typed, Phased, [Next]_vars
    PROVE  Phased'
<1>1. CASE UNCHANGED <<ledgerVars, runVars, checkpoints, job>>
  BY <1>1 DEF Phased, WroteRun, WroteCheckpoint, ledgerVars, runVars
<1> QED
  BY <1>1, PhasedHandler, PhasedCheckpointer, Steps

-----------------------------------------------------------------------------
(* Told *)

\* A chain with one event more
OneMore(chain, longer, e) ==
    /\ Len(longer) = Len(chain) + 1 /\ Starts(chain, longer)
    /\ longer[Len(chain) + 1] = e

\* The event of a run that is not in the table starts its story.
LEMMA StoryStarts ==
    ASSUME NEW chain, Len(chain) \in Nat, NEW longer, NEW e, OneMore(chain, longer, e),
           NEW table, Story(chain, table), NEW r, r \notin DOMAIN table,
           Says(e, "run.started", r),
           NEW after, \A q : q \in DOMAIN after <=> q \in DOMAIN table \/ q = r,
           after[r] = "running", \A q \in DOMAIN table : after[q] = table[q]
    PROVE  Story(longer, after)
<1> DEFINE n == Len(chain)
<1>1. /\ n \in Nat /\ Len(longer) = n + 1 /\ longer[n + 1] = e
      /\ \A i \in 1 .. n : longer[i] = chain[i] /\ i \in 1 .. n + 1 /\ i <= n + 1
      /\ \A i \in 1 .. n + 1 : i \in 1 .. n \/ i = n + 1
  BY DEF OneMore, Starts
<1>2. e.data.run = r /\ e.data.type = "run.started" /\ n + 1 \in 1 .. n + 1
  BY <1>1 DEF Says
<1>3. \A i \in 1 .. n : chain[i].data.run \in DOMAIN table
  BY DEF Story
<1> HIDE DEF n
<1>4. \A i \in 1 .. n + 1 : longer[i].data.run \in DOMAIN after
  BY <1>1, <1>2, <1>3
<1>5. ASSUME NEW q \in DOMAIN table
      PROVE  StoryOf(longer, after, q)
  <2>1. q # r
    OBVIOUS
  <2>2. \A i \in 1 .. n + 1 : longer[i].data.run = q => i \in 1 .. n /\ longer[i] = chain[i]
    BY <1>1, <1>2, <2>1
  <2>3. /\ \E i \in 1 .. n :
              /\ Says(chain[i], "run.started", q)
              /\ \A j \in 1 .. n : chain[j].data.run = q => i <= j
        /\ \A i, j \in 1 .. n :
              Says(chain[i], "run.started", q) /\ Says(chain[j], "run.started", q) => i = j
        /\ table[q] = "completed" <=> \E i \in 1 .. n : Says(chain[i], "run.completed", q)
    BY DEF Story, StoryOf, n
  <2>4. after[q] = table[q]
    OBVIOUS
  <2>5. PICK i \in 1 .. n :
              /\ Says(chain[i], "run.started", q)
              /\ \A j \in 1 .. n : chain[j].data.run = q => i <= j
    BY <2>3
  <2>6. /\ i \in 1 .. n + 1 /\ Says(longer[i], "run.started", q)
        /\ \A j \in 1 .. n + 1 : longer[j].data.run = q => i <= j
    BY <1>1, <2>2, <2>5
  <2>7. \A type : \A j \in 1 .. n + 1 : Says(longer[j], type, q)
            => j \in 1 .. n /\ Says(chain[j], type, q)
    BY <2>2 DEF Says
  <2>8. (\E j \in 1 .. n + 1 : Says(longer[j], "run.completed", q))
           <=> (\E j \in 1 .. n : Says(chain[j], "run.completed", q))
    BY <1>1, <2>7
  <2> QED
    BY <1>1, <2>3, <2>4, <2>6, <2>7, <2>8 DEF StoryOf
<1>6. \A i \in 1 .. n + 1 : longer[i].data.run = r => i = n + 1
  BY <1>1, <1>3
<1>7. /\ \A i \in 1 .. n + 1 : ~Says(longer[i], "run.completed", r)
      /\ \A i \in 1 .. n + 1 : Says(longer[i], "run.started", r) => i = n + 1
      /\ Says(longer[n + 1], "run.started", r)
      /\ \A i \in 1 .. n + 1 : longer[i].data.run = r => n + 1 <= i
  <2>1. Says(longer[n + 1], "run.started", r) /\ longer[n + 1].data.type # "run.completed"
    BY <1>1, <1>2 DEF Says
  <2>2. \A i \in 1 .. n + 1 : longer[i].data.run = r => n + 1 <= i
    BY <1>1, <1>6
  <2> QED
    BY <1>6, <2>1, <2>2 DEF Says
<1>8. StoryOf(longer, after, r)
  <2>1. n + 1 \in 1 .. n + 1
    BY <1>1
  <2>2. after[r] # "completed"
    OBVIOUS
  <2> QED
    BY <1>1, <1>7, <2>1, <2>2 DEF StoryOf
<1>9. \A q \in DOMAIN after : StoryOf(longer, after, q)
  BY <1>5, <1>8
<1> QED
  BY <1>1, <1>4, <1>9 DEF Story

\* Any other event goes on with the story of a run in the table.
LEMMA StoryGoesOn ==
    ASSUME NEW chain, Len(chain) \in Nat, NEW longer, NEW e, OneMore(chain, longer, e),
           NEW table, Story(chain, table), NEW r \in DOMAIN table,
           e.data.run = r, e.data.type # "run.started",
           NEW after, DOMAIN after = DOMAIN table,
           \A q \in DOMAIN table : after[q] =
               IF q = r /\ e.data.type = "run.completed" THEN "completed" ELSE table[q]
    PROVE  Story(longer, after)
<1> DEFINE n == Len(chain)
<1>1. /\ n \in Nat /\ Len(longer) = n + 1 /\ longer[n + 1] = e
      /\ \A i \in 1 .. n : longer[i] = chain[i] /\ i \in 1 .. n + 1 /\ i <= n + 1
      /\ \A i \in 1 .. n + 1 : i \in 1 .. n \/ i = n + 1
      /\ n + 1 \in 1 .. n + 1
  BY DEF OneMore, Starts
<1>3. \A i \in 1 .. n : chain[i].data.run \in DOMAIN table
  BY DEF Story
<1> HIDE DEF n
<1>4. \A i \in 1 .. n + 1 : longer[i].data.run \in DOMAIN after
  BY <1>1, <1>3
<1>5. ASSUME NEW q \in DOMAIN table
      PROVE  StoryOf(longer, after, q)
  <2>1. /\ \E i \in 1 .. n :
              /\ Says(chain[i], "run.started", q)
              /\ \A j \in 1 .. n : chain[j].data.run = q => i <= j
        /\ \A i, j \in 1 .. n :
              Says(chain[i], "run.started", q) /\ Says(chain[j], "run.started", q) => i = j
        /\ table[q] = "completed" <=> \E i \in 1 .. n : Says(chain[i], "run.completed", q)
    BY DEF Story, StoryOf, n
  <2>2. PICK i \in 1 .. n :
              /\ Says(chain[i], "run.started", q)
              /\ \A j \in 1 .. n : chain[j].data.run = q => i <= j
    BY <2>1
  <2>3. /\ i \in 1 .. n + 1 /\ Says(longer[i], "run.started", q)
        /\ \A j \in 1 .. n + 1 : longer[j].data.run = q => i <= j
    BY <1>1, <2>2
  <2>4. \A j \in 1 .. n + 1 : Says(longer[j], "run.started", q)
            => j \in 1 .. n /\ Says(chain[j], "run.started", q)
    BY <1>1 DEF Says
  <2>5. (\E j \in 1 .. n + 1 : Says(longer[j], "run.completed", q))
           <=> (\E j \in 1 .. n : Says(chain[j], "run.completed", q))
               \/ (q = r /\ e.data.type = "run.completed")
    BY <1>1 DEF Says
  <2> QED
    BY <1>1, <2>1, <2>3, <2>4, <2>5 DEF StoryOf
<1> QED
  BY <1>1, <1>4, <1>5 DEF Story

\* What a commit adds to the chain
LEMMA OneMoreEvent ==
    ASSUME P!OrderInv, NEW s \in Sessions, P!Commit(s), Len(staged[s]) = 1
    PROVE  OneMore(events, events', staged[s][1]) /\ Len(events) \in Nat
<1>1. 1 \in 1 .. Len(staged[s]) /\ Len(events) \in Nat
  BY LedgerFields
<1>2. /\ Starts(events, events') /\ Len(events') = Len(events) + 1
      /\ events'[Len(events) + 1] = staged[s][1]
  BY <1>1, CommitAppends
<1> QED
  BY <1>1, <1>2 DEF OneMore

\* Handlers other than the one that takes a step
LEMMA ServesElsewhere ==
    ASSUME Typed, Told, NEW h \in Handlers, NEW new, serving' = [serving EXCEPT ![h] = new],
           DOMAIN runs \subseteq DOMAIN runs',
           \A r \in DOMAIN runs' \ DOMAIN runs : r = serving[h].run,
           \/ new.run \in {None, serving[h].run} \/ new.run \in DOMAIN runs
           \/ \A g \in Handlers : serving[g].run # new.run
    PROVE  \A g \in Handlers \ {h} : Serves(g)'
<1> SUFFICES ASSUME NEW g \in Handlers \ {h}, serving[g].at # "idle"
             PROVE  IF serving[g].status = "running"
                    THEN /\ serving[g].run \notin DOMAIN runs'
                         /\ \A f \in Handlers \ {g} : serving'[f].run # serving[g].run
                    ELSE serving[g].run \in DOMAIN runs'
  <2>1. \A g \in Handlers \ {h} : serving'[g] = serving[g]
    BY DEF Typed
  <2> QED
    BY <2>1 DEF Serves
<1>1. Serves(g) /\ serving[g].run \in RunIds
  BY DEF Told, Typed, Known
<1>2. CASE serving[g].status = "running"
  <2>1. /\ serving[g].run \notin DOMAIN runs
        /\ \A f \in Handlers \ {g} : serving[f].run # serving[g].run
    BY <1>1, <1>2 DEF Serves
  <2>2. serving[g].run \notin DOMAIN runs'
    BY <2>1
  <2>3. new.run # serving[g].run
    BY <1>1, <2>1, CheckpointsAssumption
  <2>4. \A f \in Handlers : serving'[f] = IF f = h THEN new ELSE serving[f]
    BY DEF Typed
  <2> QED
    BY <1>2, <2>1, <2>2, <2>3, <2>4
<1>3. CASE serving[g].status # "running"
  BY <1>1, <1>3 DEF Serves
<1> QED
  BY <1>2, <1>3

LEMMA ToldHandler ==
    ASSUME Typed, Phased, Told, NEW h \in Handlers, NEW new, HandlerStep(h, new)
    PROVE  Told'
<1>0. /\ P!OrderInv /\ h \in Sessions /\ serving[h] \in Servings /\ Known(serving[h])
      /\ WroteRun(h) /\ Serves(h) /\ Story(events, runs)
      /\ serving' = [serving EXCEPT ![h] = new]
      /\ serving'[h] = new /\ \A g \in Handlers \ {h} : serving'[g] = serving[g]
  BY DEF Typed, Phased, Told, Sessions, HandlerStep
<1>1. ASSUME runs' = runs, events' = events, Serves(h)',
             \/ new.run \in {None, serving[h].run} \/ new.run \in DOMAIN runs
             \/ \A g \in Handlers : serving[g].run # new.run
      PROVE  Told'
  BY <1>0, <1>1, ServesElsewhere DEF Told
<1>2. ASSUME UNCHANGED <<ledgerVars, runs>>, NEW r \in RunIds, r \notin DOMAIN runs,
             \A g \in Handlers : serving[g].run # r,
             new = [at |-> "insert", run |-> r, status |-> "running"]
      PROVE  Told'
  <2>1. Serves(h)'
    BY <1>0, <1>2 DEF Serves
  <2> QED
    BY <1>1, <1>2, <2>1 DEF ledgerVars
<1>3. ASSUME UNCHANGED <<ledgerVars, runs>>, NEW r \in DOMAIN runs,
             new = [at |-> "append", run |-> r, status |-> "completed"]
      PROVE  Told'
  <2>1. Serves(h)'
    BY <1>0, <1>3 DEF Serves
  <2> QED
    BY <1>1, <1>3, <2>1 DEF ledgerVars
<1>4. ASSUME serving[h].at # "idle", runs' = runs, events' = events,
             NEW a \in {"append", "commit"}, new = [serving[h] EXCEPT !.at = a]
      PROVE  Told'
  <2>1. new.run = serving[h].run /\ new.status = serving[h].status
    BY <1>0, <1>4, ServingMoves
  <2>2. Serves(h)'
    BY <1>0, <1>4, <2>1 DEF Serves
  <2> QED
    BY <1>1, <1>4, <2>1, <2>2
<1>5. ASSUME P!Rollback(h), runs' = runs, new = R!Idle
      PROVE  Told'
  <2>1. events' = events
    BY <1>5 DEF P!Rollback
  <2>2. Serves(h)'
    BY <1>0, <1>5, IdleTyped DEF Serves
  <2> QED
    BY <1>1, <1>5, <2>1, <2>2, IdleTyped
<1>6. ASSUME serving[h].at = "commit", P!Commit(h), R!Save(h), new = R!Idle
      PROVE  Told'
  <2> DEFINE r == serving[h].run
             e == staged[h][1]
  <2>1. /\ OneMore(events, events', e) /\ Len(events) \in Nat
        /\ e.data.type = TypeFor(serving[h].status) /\ e.data.run = r
    BY <1>0, <1>6, OneMoreEvent DEF WroteRun
  <2>2. /\ DOMAIN runs' = DOMAIN runs \cup {r} /\ runs'[r] = serving[h].status
        /\ \A q \in DOMAIN runs \ {r} : runs'[q] = runs[q]
    BY <1>6 DEF R!Save
  <2>3. Story(events', runs')
    <3>1. CASE serving[h].status = "running"
      <4>1. r \notin DOMAIN runs
        BY <1>0, <1>6, <3>1 DEF Serves
      <4>2. Says(e, "run.started", r)
        BY <2>1, <3>1 DEF Says, TypeFor
      <4>3. \A q \in DOMAIN runs : runs'[q] = runs[q]
        BY <2>2, <4>1
      <4>4. /\ \A q : q \in DOMAIN runs' <=> q \in DOMAIN runs \/ q = r
            /\ runs'[r] = "running"
        BY <2>2, <3>1
      <4>5. OneMore(events, events', e) /\ Len(events) \in Nat /\ Story(events, runs)
        BY <1>0, <2>1
      <4> HIDE DEF e, r
      <4> QED
        BY <4>1, <4>2, <4>3, <4>4, <4>5, StoryStarts
    <3>2. CASE serving[h].status # "running"
      <4>1. r \in DOMAIN runs /\ serving[h].status = "completed"
        BY <1>0, <1>6, <3>2 DEF Serves, Known
      <4>2. e.data.type = "run.completed" /\ e.data.run = r
        BY <2>1, <3>2 DEF TypeFor
      <4>3. DOMAIN runs' = DOMAIN runs
        BY <2>2, <4>1
      <4>4. \A q \in DOMAIN runs : runs'[q] =
                IF q = r /\ e.data.type = "run.completed" THEN "completed" ELSE runs[q]
        BY <2>2, <4>1, <4>2
      <4> HIDE DEF e, r
      <4> QED
        BY <1>0, <2>1, <4>1, <4>2, <4>3, <4>4, StoryGoesOn
    <3> QED
      BY <3>1, <3>2
  <2>4. \A g \in Handlers \ {h} : Serves(g)'
    BY <1>0, <1>6, <2>2, ServesElsewhere, IdleTyped
  <2>5. Serves(h)'
    BY <1>0, <1>6, IdleTyped DEF Serves
  <2> QED
    BY <2>3, <2>4, <2>5 DEF Told
<1>7. ASSUME P!insert(h) \/ \E data : P!append(h, data) PROVE events' = events
  BY <1>7 DEF P!insert, P!append
<1> QED
  BY <1>2, <1>3, <1>4, <1>5, <1>6, <1>7 DEF HandlerStep

LEMMA ToldCheckpointer ==
    ASSUME Typed, Phased, Told, NEW c \in Checkpointers, NEW new, CheckpointerStep(c, new)
    PROVE  Told'
<1>0. /\ P!OrderInv /\ c \in Sessions /\ WroteCheckpoint(c) /\ Story(events, runs)
      /\ serving' = serving /\ runs' = runs
  BY DEF Typed, Phased, Told, Sessions, CheckpointerStep, runVars
<1>1. \A h \in Handlers : Serves(h)'
  BY <1>0 DEF Told, Serves
<1>2. CASE events' = events
  BY <1>0, <1>1, <1>2 DEF Told
<1>3. CASE job[c].at = "commit" /\ P!Commit(c)
  <2> DEFINE e == staged[c][1]
  <2>1. OneMore(events, events', e) /\ Len(events) \in Nat
    BY <1>0, <1>3, OneMoreEvent DEF WroteCheckpoint
  <2>2. e.data.type = "checkpoint.created" /\ e.data.run \in DOMAIN runs
    BY <1>0, <1>3 DEF WroteCheckpoint, Story
  <2>3. e.data.type # "run.started" /\ e.data.type # "run.completed"
    BY <2>2
  <2> HIDE DEF e
  <2>4. Story(events', runs)
    BY <1>0, <2>1, <2>2, <2>3, StoryGoesOn
  <2> QED
    BY <1>0, <1>1, <2>4 DEF Told
<1> QED
  BY <1>2, <1>3 DEF CheckpointerStep, ledgerVars, P!insert, P!append, P!Rollback

LEMMA ToldInit ==
    ASSUME Init
    PROVE  Told
<1>1. events = <<>> /\ DOMAIN runs = {} /\ \A h \in Handlers : serving[h].at = "idle"
  BY IdleTyped DEF Init, R!Init, R!L!Init
<1> QED
  BY <1>1 DEF Told, Story, Serves

LEMMA ToldNext ==
    ASSUME Typed, Phased, Told, [Next]_vars
    PROVE  Told'
<1>1. CASE UNCHANGED <<ledgerVars, runVars, checkpoints, job>>
  BY <1>1 DEF Told, Serves, ledgerVars, runVars
<1> QED
  BY <1>1, ToldHandler, ToldCheckpointer, Steps

-----------------------------------------------------------------------------
(* Rooted *)

\* The events between the boundaries of a checkpoint stay in place.
LEMMA RootLater ==
    ASSUME NEW chain, NEW longer, Starts(chain, longer), Len(chain) \in Nat, NEW p \in Ranges,
           Within(p, Len(chain)), RootOf(chain, p)
    PROVE  RootOf(longer, p)
<1>1. p.from \in Nat /\ p.to \in Nat
  BY RangeFields
<1>2. \A i \in 1 .. p.to - p.from + 1 : p.from + i - 1 \in 1 .. Len(chain)
  BY <1>1 DEF Within
<1>3. \A i \in 1 .. p.to - p.from + 1 : longer[p.from + i - 1] = chain[p.from + i - 1]
  BY <1>2 DEF Starts
<1>4. HashesOf(longer, p) = HashesOf(chain, p)
  BY <1>3 DEF HashesOf
<1> QED
  BY <1>4 DEF RootOf

LEMMA RootsStay ==
    ASSUME Typed, Rooted, [Next]_vars
    PROVE  /\ \A p \in checkpoints : RootOf(events', p)
           /\ \A c \in Checkpointers : Proposing(job[c]) => RootOf(events', job[c].new)
<1>1. Starts(events, events') /\ Len(events) \in Nat
  BY LedgerStep, LedgerGoesOn DEF Typed
<1>2. ASSUME NEW p \in checkpoints PROVE RootOf(events', p)
  <2>1. p \in Ranges /\ Within(p, Len(events)) /\ RootOf(events, p)
    BY DEF Typed, Kept, Rooted
  <2> QED
    BY <1>1, <2>1, RootLater
<1>3. ASSUME NEW c \in Checkpointers, Proposing(job[c]) PROVE RootOf(events', job[c].new)
  <2>1. job[c] \in Jobs /\ Within(job[c].new, Len(events)) /\ RootOf(events, job[c].new)
    BY <1>3 DEF Typed, Bounded, Rooted
  <2>2. job[c].new \in Ranges
    BY <2>1 DEF Jobs
  <2> QED
    BY <1>1, <2>1, <2>2, RootLater
<1> QED
  BY <1>2, <1>3

\* What a checkpointer proposes, it has just put together or had before.
LEMMA ProposalFrom ==
    ASSUME Typed, NEW c \in Checkpointers, NEW new, CheckpointerStep(c, new), Proposing(new)
    PROVE  \/ /\ ~(LastCovered >= job[c].seen) /\ new.new = CoverRange(c)
              /\ UNCHANGED <<ledgerVars, checkpoints>>
           \/ Proposing(job[c]) /\ new.new = job[c].new /\ UNCHANGED checkpoints
<1>0. job[c] \in Jobs /\ Len(events) \in Nat
  BY LedgerFields DEF Typed
<1>1. ASSUME new = [Idle EXCEPT !.at = "read", !.seen = Len(events)] PROVE FALSE
  BY <1>0, <1>1, JobReads DEF Proposing
<1>2. ASSUME new = Idle PROVE FALSE
  BY <1>2, IdleTyped
<1>3. Proposal(job[c].seen, CoverRange(c)).new = CoverRange(c)
  BY DEF Proposal
<1>4. ASSUME NEW a \in {"append", "commit"}, new = [job[c] EXCEPT !.at = a]
      PROVE  new.new = job[c].new
  BY <1>0, <1>4, JobMoves
<1> QED
  BY <1>1, <1>2, <1>3, <1>4 DEF CheckpointerStep, Proposing

LEMMA RootedInit ==
    ASSUME Init
    PROVE  Rooted
BY IdleTyped DEF Init, Rooted

LEMMA RootedNext ==
    ASSUME Typed, Rooted, [Next]_vars
    PROVE  Rooted'
<1>1. CASE UNCHANGED <<checkpoints, job>>
  BY <1>1, RootsStay DEF Rooted
<1>2. ASSUME NEW c \in Checkpointers, NEW new, CheckpointerStep(c, new) PROVE Rooted'
  <2>1. \A d \in Checkpointers : job'[d] = IF d = c THEN new ELSE job[d]
    BY <1>2 DEF Typed, CheckpointerStep
  <2>2. Proposing(new) => RootOf(events', new.new)
    <3>1. ASSUME ~(LastCovered >= job[c].seen), UNCHANGED ledgerVars
          PROVE  RootOf(events', CoverRange(c))
      <4>1. RootOf(events, CoverRange(c))
        BY <3>1, CoverRangeIs
      <4> QED
        BY <3>1, <4>1 DEF ledgerVars
    <3> QED
      BY <1>2, <3>1, ProposalFrom, RootsStay
  <2>3. \A p \in checkpoints' : RootOf(events', p)
    <3>1. \/ checkpoints' = checkpoints
          \/ job[c].at = "commit" /\ checkpoints' = checkpoints \cup {job[c].new}
      BY <1>2 DEF CheckpointerStep
    <3> QED
      BY <3>1, RootsStay DEF Proposing
  <2> QED
    BY <2>1, <2>2, <2>3, RootsStay DEF Rooted
<1> QED
  BY <1>1, <1>2, Steps DEF HandlerStep

-----------------------------------------------------------------------------
(* Holding *)

\* What a step of session s does to the row and to the sessions
RowStep(s) ==
    /\ \A t \in Sessions \ {s} : At(t)' = At(t)
    /\ \/ At(s) \in {"idle", "read"} /\ UNCHANGED <<lock, sharers>>
       \/ At(s) = "insert" /\ P!insert(s) /\ At(s)' = "append"
       \/ \E data : P!append(s, data) /\ At(s)' = "commit"
       \/ P!Commit(s) \/ P!Rollback(s)

LEMMA RowSteps ==
    ASSUME Typed, [Next]_vars
    PROVE  (\E s \in Sessions : RowStep(s)) \/ UNCHANGED <<lock, sharers, serving, job>>
<1>1. ASSUME NEW h \in Handlers, NEW new, HandlerStep(h, new) PROVE RowStep(h)
  <2>1. /\ serving[h] \in Servings /\ h \in Sessions
        /\ serving'[h] = new /\ \A g \in Handlers \ {h} : serving'[g] = serving[g]
        /\ job' = job
    BY <1>1 DEF Typed, Sessions, HandlerStep
  <2>2. \A t \in Sessions \ {h} : At(t)' = At(t)
    BY <2>1 DEF At, Sessions
  <2>3. At(h) = serving[h].at /\ At(h)' = new.at
    BY <2>1 DEF At
  <2>4. serving[h] = R!Idle => serving[h].at = "idle"
    BY IdleTyped
  <2>5. CASE serving[h] = R!Idle /\ UNCHANGED ledgerVars
    BY <2>2, <2>3, <2>4, <2>5 DEF RowStep, ledgerVars
  <2>6. CASE serving[h].at = "insert" /\ P!insert(h) /\ new = [serving[h] EXCEPT !.at = "append"]
    <3>1. new.at = "append"
      BY <2>1, <2>6, ServingMoves
    <3> QED
      BY <2>2, <2>3, <2>6, <3>1 DEF RowStep
  <2>7. ASSUME NEW data, P!append(h, data), new = [serving[h] EXCEPT !.at = "commit"]
        PROVE  RowStep(h)
    <3>1. new.at = "commit"
      BY <2>1, <2>7, ServingMoves
    <3> QED
      BY <2>2, <2>3, <2>7, <3>1 DEF RowStep
  <2>8. CASE P!Commit(h) \/ P!Rollback(h)
    BY <2>2, <2>8 DEF RowStep
  <2> QED
    BY <1>1, <2>5, <2>6, <2>7, <2>8 DEF HandlerStep
<1>2. ASSUME NEW c \in Checkpointers, NEW new, CheckpointerStep(c, new) PROVE RowStep(c)
  <2>1. /\ job[c] \in Jobs /\ c \in Sessions /\ c \notin Handlers
        /\ job'[c] = new /\ \A d \in Checkpointers \ {c} : job'[d] = job[d]
        /\ serving' = serving
    BY <1>2, CheckpointsAssumption DEF Typed, Sessions, CheckpointerStep, runVars
  <2>2. \A t \in Sessions \ {c} : At(t)' = At(t)
    BY <2>1 DEF At, Sessions
  <2>3. At(c) = job[c].at /\ At(c)' = new.at
    BY <2>1 DEF At
  <2>4. job[c] = Idle => job[c].at = "idle"
    BY IdleTyped
  <2>5. CASE (job[c] = Idle \/ job[c].at = "read") /\ UNCHANGED ledgerVars
    BY <2>2, <2>3, <2>4, <2>5 DEF RowStep, ledgerVars
  <2>6. CASE job[c].at = "insert" /\ P!insert(c) /\ new = [job[c] EXCEPT !.at = "append"]
    <3>1. new.at = "append"
      BY <2>1, <2>6, JobMoves
    <3> QED
      BY <2>2, <2>3, <2>6, <3>1 DEF RowStep
  <2>7. ASSUME NEW data, P!append(c, data), new = [job[c] EXCEPT !.at = "commit"]
        PROVE  RowStep(c)
    <3>1. new.at = "commit"
      BY <2>1, <2>7, JobMoves
    <3> QED
      BY <2>2, <2>3, <2>7, <3>1 DEF RowStep
  <2>8. CASE P!Commit(c) \/ P!Rollback(c)
    BY <2>2, <2>8 DEF RowStep
  <2> QED
    BY <1>2, <2>5, <2>6, <2>7, <2>8 DEF CheckpointerStep
<1> QED
  BY <1>1, <1>2, Steps DEF Sessions, ledgerVars, runVars

LEMMA HoldingInit ==
    ASSUME Init
    PROVE  Holding
BY DEF Init, R!L!Init, Holding

LEMMA HoldingNext ==
    ASSUME Typed, Holding, [Next]_vars
    PROVE  Holding'
<1>0. lock \in Sessions \cup {Free} /\ sharers \subseteq Sessions /\ Free \notin Sessions
  BY CheckpointsAssumption DEF Typed, P!OrderInv, P!TypeOK, Sessions
<1>1. CASE UNCHANGED <<lock, sharers, serving, job>>
  BY <1>1 DEF Holding, At
<1>2. ASSUME NEW s \in Sessions, RowStep(s) PROVE Holding'
  <2>1. \A t \in Sessions \ {s} : At(t)' = At(t)
    BY <1>2 DEF RowStep
  <2>2. CASE At(s) \in {"idle", "read"} /\ UNCHANGED <<lock, sharers>>
    BY <1>0, <2>1, <2>2 DEF Holding
  <2>3. CASE At(s) = "insert" /\ P!insert(s) /\ At(s)' = "append"
    <3>1. lock' = lock /\ sharers' = sharers \cup {s} /\ lock # s
      BY <1>0, <2>3 DEF P!insert, Holding
    <3> QED
      BY <1>0, <2>1, <2>3, <3>1 DEF Holding
  <2>4. ASSUME NEW data, P!append(s, data), At(s)' = "commit" PROVE Holding'
    <3>1. lock' = s /\ sharers' = sharers
      BY <2>4 DEF P!append
    <3> QED
      BY <1>0, <2>1, <2>4, <3>1 DEF Holding
  <2>5. CASE P!Commit(s) \/ P!Rollback(s)
    <3>1. lock' = (IF lock = s THEN Free ELSE lock) /\ sharers' = sharers \ {s}
      BY <2>5 DEF P!Commit, P!Rollback, P!End
    <3> QED
      BY <1>0, <2>1, <3>1 DEF Holding
  <2> QED
    BY <1>2, <2>2, <2>3, <2>4, <2>5 DEF RowStep
<1> QED
  BY <1>1, <1>2, RowSteps

\* Who shares the row and waits for others does so as they do.
LEMMA HoldingMatches ==
    ASSUME Typed, Holding
    PROVE  WaitsAreBroken
<1>1. lock \in Sessions \cup {Free} /\ sharers \subseteq Sessions /\ Free \notin Sessions
  BY CheckpointsAssumption DEF Typed, P!OrderInv, P!TypeOK, Sessions
<1>2. lock # Free => sharers \subseteq {lock}
  BY DEF Typed, P!OrderInv, P!TypeOK
<1> SUFFICES ASSUME NEW s \in Sessions, Waits(s)
             PROVE  /\ Blockers(s) # {}
                    /\ \A t \in Blockers(s) :
                          /\ At(t) \in {"append", "commit"}
                          /\ Waits(t) => At(t) = "append" /\ R!L!Deadlocked(t)
  BY DEF WaitsAreBroken, Sessions
<1>3. Blockers(s) # {}
  <2>1. CASE lock \notin {Free, s}
    BY <2>1 DEF Blockers
  <2>2. CASE lock \in {Free, s}
    <3>1. PICK t \in sharers : t # s
      BY <2>2 DEF Waits
    <3> QED
      BY <1>1, <3>1 DEF Blockers
  <2> QED
    BY <2>1, <2>2
<1>4. ASSUME NEW t \in Blockers(s)
      PROVE  /\ At(t) \in {"append", "commit"}
             /\ Waits(t) => At(t) = "append" /\ R!L!Deadlocked(t)
  <2>1. CASE lock # Free
    <3>1. t = lock
      BY <1>2, <1>4, <2>1 DEF Blockers
    <3> QED
      BY <2>1, <3>1 DEF Holding, Waits
  <2>2. CASE lock = Free
    <3>1. t \in sharers
      BY <1>4, <2>2 DEF Blockers
    <3>2. At(t) \in {"append", "commit"}
      BY <3>1 DEF Holding
    <3>3. Waits(t) => At(t) = "append" /\ sharers # {t}
      BY <2>2, <3>2 DEF Waits
    <3> QED
      BY <3>1, <3>2, <3>3 DEF R!L!Deadlocked
  <2> QED
    BY <2>1, <2>2
<1> QED
  BY <1>3, <1>4

-----------------------------------------------------------------------------
(* Covered *)

\* Nobody else makes checkpoints of the tenant meanwhile.
OneCheckpointer == \A c, d \in Checkpointers : c = d

LEMMA CoveredInit ==
    ASSUME Init
    PROVE  Covered
BY IdleTyped DEF Init, Covered

\* What is covered ends where the latest checkpoint does.
LEMMA CoveredUpTo ==
    ASSUME Typed, Covered
    PROVE  /\ LastCovered \in Nat
           /\ \A p \in checkpoints : p.to <= LastCovered
           /\ \A i \in 1 .. LastCovered : \E q \in checkpoints : i \in q.from .. q.to
<1>1. checkpoints \subseteq Ranges /\ HasLatest(checkpoints)
  BY DEF Typed
<1>2. CASE checkpoints = {} /\ LastCovered = 0
  BY <1>2
<1>3. ASSUME NEW last \in checkpoints, LastCovered = last.to,
             \A q \in checkpoints : q.created_at <= last.created_at
      PROVE  /\ \A p \in checkpoints : p.to <= LastCovered
             /\ \A i \in 1 .. LastCovered : \E q \in checkpoints : i \in q.from .. q.to
  <2>1. ASSUME NEW p \in checkpoints PROVE p.to <= last.to
    <3>1. /\ last.from \in Nat /\ last.to \in Nat /\ last.created_at \in Int
          /\ p.from \in Nat /\ p.to \in Nat /\ p.created_at \in Int
      BY <1>1, RangeFields
    <3>2. last.from <= last.to /\ p.created_at <= last.created_at
      BY <1>3 DEF Typed, Kept, Within
    <3>3. p = last \/ Behind(p, last) \/ Behind(last, p)
      BY DEF Covered
    <3> QED
      BY <3>1, <3>2, <3>3 DEF Behind
  <2> QED
    BY <1>3, <2>1 DEF Covered
<1> QED
  BY <1>1, <1>2, <1>3, LastCoveredIs, LastCoveredTyped

LEMMA CoveredCommit ==
    ASSUME Typed, Covered, NEW c \in Checkpointers, Proposing(job[c]),
           checkpoints' = checkpoints \cup {job[c].new}
    PROVE  /\ \A p, q \in checkpoints' : p # q => Behind(p, q) \/ Behind(q, p)
           /\ \A p \in checkpoints' : \A i \in 1 .. p.to :
                 \E q \in checkpoints' : i \in q.from .. q.to
<1> DEFINE new == job[c].new
<1>0. /\ new.from = LastCovered + 1
      /\ \A p \in checkpoints : p.created_at < new.created_at
  BY DEF Covered
<1>1. new.from \in Nat /\ new.to \in Nat /\ new.created_at \in Int
  <2>1. job[c] \in Jobs
    BY DEF Typed
  <2>2. new \in Ranges
    BY <2>1 DEF Jobs
  <2> QED
    BY <2>2, RangeFields
<1>2. \A p \in checkpoints : p.to \in Nat
  BY RangeFields DEF Typed
<1> HIDE DEF new
<1>3. ASSUME NEW p \in checkpoints PROVE Behind(new, p)
  <2>1. p.to <= LastCovered /\ LastCovered \in Nat
    BY CoveredUpTo
  <2> QED
    BY <1>0, <1>2, <2>1 DEF Behind
<1>4. checkpoints' = checkpoints \cup {new}
  BY DEF new
<1>5. ASSUME NEW i \in 1 .. new.to PROVE \E q \in checkpoints' : i \in q.from .. q.to
  <2>1. CASE i \in 1 .. LastCovered
    BY <1>4, <2>1, CoveredUpTo
  <2>2. CASE i \notin 1 .. LastCovered
    <3>1. LastCovered \in Nat
      BY CoveredUpTo
    <3>2. i \in new.from .. new.to
      BY <1>0, <1>1, <2>2, <3>1
    <3> QED
      BY <1>4, <3>2
  <2> QED
    BY <2>1, <2>2
<1>6. \A p, q \in checkpoints' : p # q => Behind(p, q) \/ Behind(q, p)
  BY <1>3, <1>4 DEF Covered
<1> QED
  BY <1>4, <1>5, <1>6 DEF Covered

LEMMA CoveredNext ==
    ASSUME OneCheckpointer, Typed, Covered, [Next]_vars
    PROVE  Covered'
<1>1. CASE UNCHANGED <<checkpoints, job>>
  BY <1>1 DEF Covered, LastCovered
<1>2. ASSUME NEW c \in Checkpointers, NEW new, CheckpointerStep(c, new) PROVE Covered'
  <2>1. job'[c] = new /\ Checkpointers = {c}
    BY <1>2 DEF Typed, CheckpointerStep, OneCheckpointer
  <2>2. CASE job[c].at = "commit" /\ new = Idle /\ checkpoints' = checkpoints \cup {job[c].new}
    <3>1. Proposing(job[c])
      BY <2>2 DEF Proposing
    <3> QED
      BY <2>1, <2>2, <3>1, CoveredCommit, IdleTyped DEF Covered
  <2>3. CASE checkpoints' = checkpoints
    <3>1. LastCovered' = LastCovered
      BY <2>3 DEF LastCovered
    <3>2. ASSUME Proposing(new)
          PROVE  /\ new.new.from = LastCovered + 1
                 /\ \A p \in checkpoints : p.created_at < new.new.created_at
      <4>1. CASE ~(LastCovered >= job[c].seen) /\ new.new = CoverRange(c)
        <5>1. new.new.from = LastCovered + 1 /\ new.new.created_at = clock
          BY <4>1, CoverRangeIs
        <5> QED
          BY <5>1 DEF Typed, Kept
      <4>2. CASE Proposing(job[c]) /\ new.new = job[c].new
        BY <4>2 DEF Covered
      <4> QED
        BY <1>2, <3>2, <4>1, <4>2, ProposalFrom
    <3> QED
      BY <2>1, <2>3, <3>1, <3>2 DEF Covered
  <2> QED
    BY <1>2, <2>2, <2>3 DEF CheckpointerStep
<1> QED
  BY <1>1, <1>2, Steps DEF HandlerStep

-----------------------------------------------------------------------------
(* The properties *)

Base == Typed /\ Phased

LEMMA BaseInit ==
    ASSUME Init
    PROVE  Base
BY TypedInit, PhasedInit DEF Base

LEMMA BaseNext ==
    ASSUME Base, [Next]_vars
    PROVE  Base'
BY TypedNext, PhasedNext DEF Base

LEMMA ChainInit ==
    ASSUME Init
    PROVE  P!ChainInv
<1>1. P!Init
  BY DEF Init, R!L!Init, P!Init, Sessions
<1> QED
  BY <1>1, P!ChainInit

LEMMA ChainNext ==
    ASSUME Base, P!ChainInv, [Next]_vars
    PROVE  P!ChainInv'
<1>1. [P!Next]_(P!vars) /\ P!OrderInv
  BY LedgerStep DEF Base, Typed
<1> QED
  BY <1>1, Constants, P!ChainNext

LEMMA ToldMatches ==
    ASSUME Base, Told, P!ChainInv
    PROVE  RunsMatchTrail
<1>0. P!OrderInv
  BY DEF Base, Typed
<1> DEFINE Tells(r) ==
       /\ Cardinality(R!Of(r, "run.started")) = IF r \in DOMAIN runs THEN 1 ELSE 0
       /\ R!Of(r, "run.completed") # {} <=> r \in DOMAIN runs /\ runs[r] = "completed"
       /\ \A e \in R!L!RangeOf(events) : e.data.run = r =>
             \A s \in R!Of(r, "run.started") : s = e \/ R!L!Before(s, e)
<1>1. ASSUME NEW r \in RunIds PROVE Tells(r)
  <2>1. \A type : \A e : e \in R!Of(r, type)
            <=> \E i \in 1 .. Len(events) : e = events[i] /\ Says(events[i], type, r)
    BY DEF R!Of, R!L!RangeOf, Says
  <2>2. CASE r \notin DOMAIN runs
    <3>1. \A i \in 1 .. Len(events) : events[i].data.run # r
      BY <2>2 DEF Told, Story
    <3>2. R!Of(r, "run.started") = {} /\ R!Of(r, "run.completed") = {}
      BY <2>1, <3>1 DEF Says
    <3>3. \A e \in R!L!RangeOf(events) : e.data.run # r
      BY <3>1 DEF R!L!RangeOf
    <3> QED
      BY <2>2, <3>2, <3>3, FS_EmptySet
  <2>3. CASE r \in DOMAIN runs
    <3>0. StoryOf(events, runs, r)
      BY <2>3 DEF Told, Story
    <3>1. PICK i \in 1 .. Len(events) :
                /\ Says(events[i], "run.started", r)
                /\ \A j \in 1 .. Len(events) : events[j].data.run = r => i <= j
      BY <3>0 DEF StoryOf
    <3>2. \A e : e \in R!Of(r, "run.started") <=> e = events[i]
      BY <2>1, <3>0, <3>1 DEF StoryOf
    <3>3. R!Of(r, "run.started") = {events[i]}
      BY <3>2
    <3>4. Cardinality(R!Of(r, "run.started")) = 1
      BY <3>3, FS_Singleton
    <3>5. R!Of(r, "run.completed") # {} <=> runs[r] = "completed"
      BY <2>1, <3>0 DEF StoryOf
    <3>6. ASSUME NEW e \in R!L!RangeOf(events), e.data.run = r
          PROVE  events[i] = e \/ R!L!Before(events[i], e)
      <4>1. PICK j \in 1 .. Len(events) : e = events[j]
        BY DEF R!L!RangeOf
      <4>2. i = j \/ i < j
        BY <3>1, <3>6, <4>1
      <4> QED
        BY <1>0, <4>1, <4>2, SameOperators, P!LinkedBefore
    <3> QED
      BY <2>3, <3>3, <3>4, <3>5, <3>6
  <2> QED
    BY <2>2, <2>3
<1>2. R!RunsMatchTrail
  <2>1. \A S : R!Cardinality(S) = Cardinality(S)
    BY DEF R!Cardinality, Cardinality
  <2> QED
    BY <1>1, <2>1 DEF R!RunsMatchTrail
<1> QED
  BY <1>2 DEF RunsMatchTrail

\* Where the root is that of the hashes, it fixes them.
LEMMA RootedMatches ==
    ASSUME Typed, Rooted
    PROVE  RootsMatchChain
<1> SUFFICES ASSUME NEW p \in checkpoints
             PROVE  M!LeavesOf(p.root, p.event_count) = HashesOf(events, p)
  BY DEF RootsMatchChain, HashesOf
<1> DEFINE n == p.to - p.from + 1
           hashes == HashesOf(events, p)
           U == {<<events[p.from + i - 1].id>> : i \in 1 .. n}
<1>1. n \in Nat \ {0}
  BY RangeFields DEF Typed, Kept, Within
<1>2. hashes \in [1 .. n -> U]
  BY DEF HashesOf
<1> HIDE DEF n, U
<1>3. hashes \in Seq(U) /\ Len(hashes) = n
  BY <1>1, <1>2
<1>4. p.event_count = n /\ p.root = M!compute_merkle_root(hashes)
  BY DEF Rooted, RootOf, n
<1> HIDE DEF hashes
<1>5. Len(hashes) >= 1
  BY <1>1, <1>3
<1>6. M!LeavesOf(M!compute_merkle_root(hashes), Len(hashes)) = hashes
  BY <1>3, <1>5, RootFixesLeaves
<1> QED
  BY <1>3, <1>4, <1>6 DEF hashes

LEMMA CoveredMatches ==
    ASSUME Typed, Covered
    PROVE  CoveredOnce
<1> SUFFICES ASSUME NEW i \in 1 .. Len(events), NEW p \in checkpoints, i <= p.to
             PROVE  \E q \in checkpoints :
                       /\ i \in q.from .. q.to
                       /\ \A o \in checkpoints \ {q} : i \notin o.from .. o.to
  BY DEF CoveredOnce
<1>1. \A q \in checkpoints : q.from \in Nat /\ q.to \in Nat
  BY RangeFields DEF Typed
<1>2. i \in 1 .. p.to
  BY <1>1
<1>3. PICK q \in checkpoints : i \in q.from .. q.to
  BY <1>2 DEF Covered
<1>4. ASSUME NEW o \in checkpoints \ {q} PROVE i \notin o.from .. o.to
  <2>1. Behind(o, q) \/ Behind(q, o)
    BY DEF Covered
  <2> QED
    BY <1>1, <1>3, <2>1 DEF Behind
<1> QED
  BY <1>3, <1>4

-----------------------------------------------------------------------------

\* The checkpoints, the runs and their handlers keep their types, whatever
\* interleaves, rolls back or falls victim to a deadlock (checkpoints.py:26-79,
\* runs.py:17-88).
THEOREM CheckpointsKeepTypes == Spec => []TypeOK
<1>1. Base => TypeOK
  <2> SUFFICES ASSUME Base PROVE TypeOK
    OBVIOUS
  <2>1. R!L!TypeOK
    BY SameOperators DEF Base, Typed, P!OrderInv
  <2>2. \A h \in Handlers : serving[h] \in Servings
    BY DEF Base, Typed
  <2>3. R!TypeOK
    BY <2>1, <2>2 DEF Base, Typed, R!TypeOK, Servings
  <2>4. ASSUME NEW p \in checkpoints PROVE p.from \in Nat \ {0} /\ p.to \in p.from .. Len(events)
    <3>1. p \in Ranges /\ Within(p, Len(events)) /\ P!OrderInv
      BY DEF Base, Typed, Kept
    <3> QED
      BY <3>1, RangeFields, LedgerFields DEF Within
  <2>5. \A c \in Checkpointers : job[c] \in Jobs
    BY DEF Base, Typed
  <2> QED
    BY <2>3, <2>4, <2>5 DEF TypeOK, Jobs
<1>2. Init => Base
  BY BaseInit
<1>3. Base /\ [Next]_vars => Base'
  BY BaseNext
<1> QED
  BY <1>1, <1>2, <1>3, PTL DEF Spec

\* Handlers and checkpointers write the chain through the operations of the
\* ledger alone: their transactions are sessions of LedgerService (runs.py:24-37,
\* checkpoints.py:67-79, ledger.py:33-52).
THEOREM CheckpointsUseTheLedger == Spec => R!L!Spec
<1>1. Init => Base /\ R!L!Init
  BY BaseInit DEF Init
<1>2. Base /\ [Next]_vars => Base'
  BY BaseNext
<1>3. Base /\ [Next]_vars => [R!L!Next]_(R!L!vars)
  <2>1. [P!Next]_(P!vars) => [R!L!Next]_(R!L!vars)
    BY SameActions DEF P!Next, R!L!Next, P!vars, R!L!vars, Sessions
  <2> QED
    BY <2>1, LedgerStep DEF Base
<1> QED
  BY <1>1, <1>2, <1>3, PTL DEF Spec, R!L!Spec

\* The table of runs and the chain tell the same story, whatever raises, dies
\* or falls victim to a deadlock (runs.py:23-37,73-87).
THEOREM RunsTellTheTrail == Spec => []RunsMatchTrail
<1>1. Init => Base /\ Told /\ P!ChainInv
  BY BaseInit, ToldInit, ChainInit
<1>2. Base /\ Told /\ P!ChainInv /\ [Next]_vars => (Base /\ Told /\ P!ChainInv)'
  BY BaseNext, ToldNext, ChainNext DEF Base
<1>3. Base /\ Told /\ P!ChainInv => RunsMatchTrail
  BY ToldMatches
<1> QED
  BY <1>1, <1>2, <1>3, PTL DEF Spec

\* Root and count of every checkpoint are those of the events that the chain
\* holds between its boundaries, also with several checkpointers and whatever
\* was appended or rolled back meanwhile (checkpoints.py:48-66).
THEOREM RootsOfTheChain == Spec => []Rooted
<1>1. Init => Base /\ Rooted
  BY BaseInit, RootedInit
<1>2. Base /\ Rooted /\ [Next]_vars => (Base /\ Rooted)'
  BY BaseNext, RootedNext DEF Base
<1> QED
  BY <1>1, <1>2, PTL DEF Spec

\* Root and count of every checkpoint fix the events between its boundaries, in
\* their order, also with several checkpointers and whatever was appended or
\* rolled back meanwhile (checkpoints.py:48-66, merkle.py:4-15).
THEOREM RootsFixTheChain == Spec => []RootsMatchChain
<1>1. Init => Base /\ Rooted
  BY BaseInit, RootedInit
<1>2. Base /\ Rooted /\ [Next]_vars => (Base /\ Rooted)'
  BY BaseNext, RootedNext DEF Base
<1>3. Base /\ Rooted => RootsMatchChain
  BY RootedMatches DEF Base
<1> QED
  BY <1>1, <1>2, <1>3, PTL DEF Spec

\* Nobody waits for a transaction that was left open, or in a circle that
\* PostgreSQL does not see (ledger.py:35, runs.py:25, checkpoints.py:68).
THEOREM NobodyWaitsInVain == Spec => []WaitsAreBroken
<1>1. Init => Base /\ Holding
  BY BaseInit, HoldingInit
<1>2. Base /\ Holding /\ [Next]_vars => (Base /\ Holding)'
  BY BaseNext, HoldingNext DEF Base
<1>3. Base /\ Holding => WaitsAreBroken
  BY HoldingMatches DEF Base
<1> QED
  BY <1>1, <1>2, <1>3, PTL DEF Spec

\* One checkpointer covers every event up to its last boundary once
\* (legacy/README.md:178).
THEOREM EventsCoveredOnce ==
    ASSUME OneCheckpointer
    PROVE  Spec => []CoveredOnce
<1>1. Init => Base /\ Covered
  BY BaseInit, CoveredInit
<1>2. Base /\ Covered /\ [Next]_vars => (Base /\ Covered)'
  BY BaseNext, CoveredNext DEF Base
<1>3. Base /\ Covered => CoveredOnce
  BY CoveredMatches DEF Base
<1> QED
  BY <1>1, <1>2, <1>3, PTL DEF Spec
=============================================================================
