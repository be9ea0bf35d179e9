---------------------------- MODULE Ledger_proofs ----------------------------
(***************************************************************************)
(* The chain of the legacy ledger, for every set of sessions and every     *)
(* kind of event.  Gateway_proofs uses it for the chain under the gateway. *)
(*                                                                         *)
(* OrderInv holds whatever the clock does: the row lock serialises the     *)
(* transactions that append, so that ids stand in drawing order on the     *)
(* chain that a session would commit.  ChainInv adds, for a clock that     *)
(* runs forwards, that timestamps stand in the same order and that every   *)
(* event names the hash of the one before it.                              *)
(***************************************************************************)
EXTENDS Ledger, TLAPS

\* What the constants of a ledger are like; Gateway assumes it of its own.
LedgerConstants == NoHash \notin Nat /\ Free \notin Sessions /\ Jumps \subseteq Int

\* The clock runs forwards from one event to the next.
ClockForwards == Jumps \subseteq Nat \ {0}

-----------------------------------------------------------------------------
(* Chains *)

\* The ids of a chain, n of which have been drawn, stand in drawing order.
Ordered(chain, n) ==
    \A i \in 1 .. Len(chain) :
        chain[i].id \in 1 .. n /\ \A j \in 1 .. i - 1 : chain[j].id < chain[i].id

\* So do the timestamps, of a clock that now shows t, and every event names
\* the hash of the one before it.
Linked(chain, t) ==
    \A i \in 1 .. Len(chain) :
        /\ chain[i].timestamp <= t
        /\ \A j \in 1 .. i - 1 : chain[j].timestamp < chain[i].timestamp
        /\ chain[i].previous_hash = IF i = 1 THEN NoHash ELSE chain[i - 1].id

LEMMA EventFields ==
    ASSUME NEW e \in Events
    PROVE  /\ e.id \in Nat /\ e.timestamp \in Int /\ e.data \in Data
           /\ e.previous_hash \in Nat \cup {NoHash}
BY DEF Events

LEMMA OrderedAppend ==
    ASSUME NEW chain \in Seq(Events), NEW n \in Nat, Ordered(chain, n),
           NEW e \in Events, e.id = n + 1
    PROVE  Ordered(Append(chain, e), n + 1)
<1> SUFFICES ASSUME NEW i \in 1 .. Len(chain) + 1, NEW j \in 1 .. i - 1
             PROVE  /\ Append(chain, e)[i].id \in 1 .. n + 1
                    /\ Append(chain, e)[j].id < Append(chain, e)[i].id
  <2>1. Append(chain, e)[1].id \in 1 .. n + 1
    <3>1. CASE Len(chain) = 0
      BY <3>1
    <3>2. CASE Len(chain) # 0
      <4>1. Append(chain, e)[1] = chain[1] /\ 1 \in 1 .. Len(chain)
        BY <3>2
      <4>2. chain[1].id \in 1 .. n
        BY <4>1 DEF Ordered
      <4> QED
        BY <4>1, <4>2
    <3> QED
      BY <3>1, <3>2
  <2> QED
    BY <2>1 DEF Ordered
<1>1. j \in 1 .. Len(chain) /\ Append(chain, e)[j] = chain[j] /\ chain[j].id \in 1 .. n
  BY DEF Ordered
<1>2. CASE i = Len(chain) + 1
  <2>1. Append(chain, e)[i].id = n + 1
    BY <1>2
  <2> QED
    BY <1>1, <2>1
<1>3. CASE i \in 1 .. Len(chain)
  <2>1. Append(chain, e)[i] = chain[i] /\ chain[i].id \in 1 .. n /\ chain[j].id < chain[i].id
    BY <1>3 DEF Ordered
  <2> QED
    BY <1>1, <2>1
<1> QED
  BY <1>2, <1>3

LEMMA OrderedPart ==
    ASSUME NEW a \in Seq(Events), NEW b \in Seq(Events), NEW n \in Nat, Ordered(a \o b, n)
    PROVE  Ordered(a, n)
<1>1. Len(a) <= Len(a \o b) /\ \A i \in 1 .. Len(a) : (a \o b)[i] = a[i]
  OBVIOUS
<1>2. \A i \in 1 .. Len(a) : \A j \in 1 .. i - 1 : j \in 1 .. Len(a)
  OBVIOUS
<1> QED
  BY <1>1, <1>2 DEF Ordered

LEMMA OrderedLater ==
    ASSUME NEW chain \in Seq(Events), NEW n \in Nat, Ordered(chain, n)
    PROVE  Ordered(chain, n + 1)
BY DEF Ordered

\* No two events of a chain share an id.
LEMMA OrderedDistinct ==
    ASSUME NEW chain \in Seq(Events), NEW n \in Nat, Ordered(chain, n),
           NEW i \in 1 .. Len(chain), NEW j \in 1 .. Len(chain), chain[i].id = chain[j].id
    PROVE  i = j
<1>1. chain[i].id \in 1 .. n /\ chain[j].id \in 1 .. n
  BY DEF Ordered
<1>2. i < j => chain[i].id < chain[j].id
  BY DEF Ordered
<1>3. j < i => chain[j].id < chain[i].id
  BY DEF Ordered
<1> QED
  BY <1>1, <1>2, <1>3

LEMMA LinkedPart ==
    ASSUME NEW a \in Seq(Events), NEW b \in Seq(Events), NEW t \in Int, Linked(a \o b, t)
    PROVE  Linked(a, t)
<1>1. Len(a) <= Len(a \o b) /\ \A i \in 1 .. Len(a) : (a \o b)[i] = a[i]
  OBVIOUS
<1>2. \A i \in 1 .. Len(a) : i \in 1 .. Len(a \o b)
  BY <1>1
<1>3. \A i \in 1 .. Len(a) : \A j \in 1 .. i - 1 : j \in 1 .. Len(a)
  OBVIOUS
<1>4. \A i \in 1 .. Len(a) : i # 1 => i - 1 \in 1 .. Len(a)
  OBVIOUS
<1> QED
  BY <1>1, <1>2, <1>3, <1>4 DEF Linked

LEMMA LinkedLater ==
    ASSUME NEW chain \in Seq(Events), NEW t \in Int, Linked(chain, t), NEW u \in Int, t <= u
    PROVE  Linked(chain, u)
<1>1. \A i \in 1 .. Len(chain) : chain[i].timestamp \in Int
  <2>1. \A i \in 1 .. Len(chain) : chain[i] \in Events
    OBVIOUS
  <2> QED
    BY <2>1, EventFields
<1> QED
  BY <1>1 DEF Linked

LEMMA LinkedAppend ==
    ASSUME NEW chain \in Seq(Events), NEW t \in Int, Linked(chain, t),
           NEW e \in Events, t < e.timestamp,
           e.previous_hash = IF chain = <<>> THEN NoHash ELSE chain[Len(chain)].id
    PROVE  Linked(Append(chain, e), e.timestamp)
<1> DEFINE longer == Append(chain, e)
<1>1. e.timestamp \in Int /\ \A i \in 1 .. Len(chain) : chain[i].timestamp \in Int
  <2>1. \A i \in 1 .. Len(chain) : chain[i] \in Events
    OBVIOUS
  <2> QED
    BY <2>1, EventFields
<1>2. /\ Len(longer) = Len(chain) + 1 /\ longer[Len(chain) + 1] = e
      /\ \A i \in 1 .. Len(chain) : longer[i] = chain[i]
  OBVIOUS
<1>3. \A i \in 1 .. Len(chain) : chain[i].timestamp < e.timestamp
  BY <1>1 DEF Linked
<1>0. Len(chain) \in Nat
  OBVIOUS
<1> SUFFICES ASSUME NEW i \in 1 .. Len(chain) + 1
             PROVE  /\ longer[i].timestamp <= e.timestamp
                    /\ \A j \in 1 .. i - 1 : longer[j].timestamp < longer[i].timestamp
                    /\ longer[i].previous_hash = IF i = 1 THEN NoHash ELSE longer[i - 1].id
  BY <1>2 DEF Linked
<1> HIDE DEF longer
<1>4. \A j \in 1 .. i - 1 : j \in 1 .. Len(chain)
  BY <1>0
<1>5. CASE i \in 1 .. Len(chain)
  <2>1. longer[i] = chain[i] /\ \A j \in 1 .. i - 1 : longer[j] = chain[j]
    BY <1>2, <1>4, <1>5
  <2>2. i # 1 => longer[i - 1] = chain[i - 1]
    BY <1>2, <1>5
  <2>3. chain[i].timestamp <= e.timestamp
    BY <1>1, <1>3, <1>5
  <2> QED
    BY <1>5, <2>1, <2>2, <2>3 DEF Linked
<1>6. CASE i = Len(chain) + 1
  <2>1. longer[i] = e /\ \A j \in 1 .. i - 1 : longer[j] = chain[j]
    BY <1>2, <1>4, <1>6
  <2>2. i = 1 <=> chain = <<>>
    BY <1>6
  <2>3. i # 1 => longer[i - 1] = chain[Len(chain)]
    BY <1>2, <1>6
  <2>4. e.timestamp <= e.timestamp
    BY <1>1
  <2> QED
    BY <1>3, <1>4, <2>1, <2>2, <2>3, <2>4
<1> QED
  BY <1>5, <1>6

-----------------------------------------------------------------------------
(* The latest event *)

\* Some event of S is after all others.
HasLatest(S) == S = {} \/ \E e \in S : \A f \in S \ {e} : Before(f, e)

LEMMA BeforeOrder ==
    ASSUME NEW e \in Events, NEW f \in Events, NEW g \in Events
    PROVE  /\ ~(Before(e, f) /\ Before(f, e))
           /\ Before(e, f) /\ Before(f, g) => Before(e, g)
           /\ e.id # f.id => Before(e, f) \/ Before(f, e)
<1>1. /\ e.id \in Nat /\ f.id \in Nat /\ g.id \in Nat
      /\ e.timestamp \in Int /\ f.timestamp \in Int /\ g.timestamp \in Int
  BY EventFields
<1> QED
  BY <1>1 DEF Before

LEMMA LatestIs ==
    ASSUME NEW S \in SUBSET Events, NEW e \in S, \A f \in S \ {e} : Before(f, e)
    PROVE  latest_hash(S) = e.id
<1> DEFINE Latest(g) == \A f \in S \ {g} : Before(f, g)
<1>1. \A g \in S : Latest(g) => g = e
  BY BeforeOrder
<1>2. (CHOOSE g \in S : Latest(g)) = e
  <2> HIDE DEF Latest
  <2>1. Latest(e)
    BY DEF Latest
  <2> QED
    BY <1>1, <2>1
<1> QED
  BY <1>2 DEF latest_hash

LEMMA LatestHashTyped ==
    ASSUME NEW S \in SUBSET Events, HasLatest(S)
    PROVE  latest_hash(S) \in Nat \cup {NoHash}
<1>1. CASE S = {}
  BY <1>1 DEF latest_hash
<1>2. ASSUME NEW e \in S, \A f \in S \ {e} : Before(f, e)
      PROVE  latest_hash(S) \in Nat \cup {NoHash}
  BY <1>2, LatestIs, EventFields
<1> QED
  BY <1>1, <1>2 DEF HasLatest

LEMMA HasLatestAdd ==
    ASSUME NEW S \in SUBSET Events, HasLatest(S), NEW e \in Events,
           \A f \in S : f.id # e.id
    PROVE  HasLatest(S \cup {e})
<1>1. CASE S = {}
  BY <1>1 DEF HasLatest
<1>2. ASSUME NEW m \in S, \A f \in S \ {m} : Before(f, m)
      PROVE  HasLatest(S \cup {e})
  <2>1. CASE Before(m, e)
    <3>1. \A f \in S : Before(f, e)
      BY <1>2, <2>1, BeforeOrder
    <3> QED
      BY <3>1 DEF HasLatest
  <2>2. CASE Before(e, m)
    BY <1>2, <2>2 DEF HasLatest
  <2> QED
    BY <2>1, <2>2, BeforeOrder
<1> QED
  BY <1>1, <1>2 DEF HasLatest

LEMMA RangeConcat ==
    ASSUME NEW a \in Seq(Events), NEW b \in Seq(Events)
    PROVE  RangeOf(a \o b) = RangeOf(a) \cup RangeOf(b)
<1>1. /\ Len(a \o b) = Len(a) + Len(b)
      /\ \A i \in 1 .. Len(a) : (a \o b)[i] = a[i]
      /\ \A i \in 1 .. Len(b) : (a \o b)[Len(a) + i] = b[i]
      /\ \A i \in 1 .. Len(a) + Len(b) : i \notin 1 .. Len(a) =>
            i - Len(a) \in 1 .. Len(b) /\ (a \o b)[i] = b[i - Len(a)]
  OBVIOUS
<1>2. ASSUME NEW i \in 1 .. Len(a) + Len(b)
      PROVE  (a \o b)[i] \in RangeOf(a) \cup RangeOf(b)
  BY <1>1 DEF RangeOf
<1>3. ASSUME NEW i \in 1 .. Len(a) PROVE a[i] \in RangeOf(a \o b)
  <2>1. i \in 1 .. Len(a \o b) /\ (a \o b)[i] = a[i]
    BY <1>1
  <2> QED
    BY <2>1 DEF RangeOf
<1>4. ASSUME NEW i \in 1 .. Len(b) PROVE b[i] \in RangeOf(a \o b)
  <2>1. Len(a) + i \in 1 .. Len(a \o b) /\ (a \o b)[Len(a) + i] = b[i]
    BY <1>1
  <2> QED
    BY <2>1 DEF RangeOf
<1> QED
  BY <1>1, <1>2, <1>3, <1>4 DEF RangeOf

LEMMA RangeAppend ==
    ASSUME NEW a \in Seq(Events), NEW e \in Events
    PROVE  RangeOf(Append(a, e)) = RangeOf(a) \cup {e}
BY DEF RangeOf

\* The latest event of a linked chain is its last.
LEMMA LatestOfChain ==
    ASSUME NEW chain \in Seq(Events), NEW t \in Int, Linked(chain, t)
    PROVE  latest_hash(RangeOf(chain)) = IF chain = <<>> THEN NoHash ELSE chain[Len(chain)].id
<1>1. CASE chain = <<>>
  BY <1>1 DEF latest_hash, RangeOf
<1>2. CASE chain # <<>>
  <2> DEFINE n == Len(chain)
  <2>1. n \in Nat \ {0} /\ chain[n] \in RangeOf(chain) /\ RangeOf(chain) \subseteq Events
    BY <1>2 DEF RangeOf
  <2>2. ASSUME NEW f \in RangeOf(chain) \ {chain[n]} PROVE Before(f, chain[n])
    <3>1. PICK i \in 1 .. n : f = chain[i]
      BY DEF RangeOf
    <3>2. i \in 1 .. n - 1
      BY <2>1, <3>1
    <3>3. n \in 1 .. Len(chain)
      BY <2>1
    <3> QED
      BY <3>1, <3>2, <3>3 DEF Linked, Before
  <2> QED
    BY <1>2, <2>1, <2>2, LatestIs
<1> QED
  BY <1>1, <1>2

-----------------------------------------------------------------------------
(* The order of the ids, whatever the clock does *)

\* A chain as the order of its events and their range describe it
Sound(chain) == Ordered(chain, ids) /\ HasLatest(RangeOf(chain))

\* The induction: a session that has appended holds the tenant row, and the
\* chain that each session would commit is in order.
OrderInv ==
    /\ TypeOK
    /\ \A s \in Sessions : staged[s] # <<>> => lock = s
    /\ Sound(events)
    /\ \A s \in Sessions : Sound(events \o staged[s])

LEMMA OrderInit ==
    ASSUME LedgerConstants, Init
    PROVE  OrderInv
<1>1. TypeOK
  BY DEF Init, TypeOK
<1>2. \A s \in Sessions : events \o staged[s] = <<>>
  <2>1. <<>> \o <<>> = <<>>
    OBVIOUS
  <2>2. events = <<>> /\ \A s \in Sessions : staged[s] = <<>>
    BY DEF Init
  <2> QED
    BY <2>1, <2>2
<1>3. Sound(<<>>)
  BY DEF Sound, Ordered, HasLatest, RangeOf
<1> QED
  BY <1>1, <1>2, <1>3 DEF OrderInv, Init

LEMMA ChainTyped ==
    ASSUME OrderInv, NEW s \in Sessions
    PROVE  /\ events \in Seq(Events) /\ staged[s] \in Seq(Events)
           /\ events \o staged[s] \in Seq(Events)
           /\ RangeOf(events \o staged[s]) = RangeOf(events) \cup RangeOf(staged[s])
           /\ RangeOf(events \o staged[s]) \subseteq Events
<1>1. events \in Seq(Events) /\ staged[s] \in Seq(Events)
  BY DEF OrderInv, TypeOK
<1>2. events \o staged[s] \in Seq(Events)
  BY <1>1
<1>3. RangeOf(events \o staged[s]) \subseteq Events
  BY <1>2 DEF RangeOf
<1> QED
  BY <1>1, <1>2, <1>3, RangeConcat

\* What append writes, and what it leaves to the other sessions
LEMMA AppendEffect ==
    ASSUME LedgerConstants, OrderInv, NEW s \in Sessions, NEW data \in Data, append(s, data)
    PROVE  \E e \in Events :
              /\ e.id = ids + 1 /\ e.data = data
              /\ e.timestamp = clock' /\ \E jump \in Jumps : clock' = clock + jump
              /\ e.previous_hash = latest_hash(RangeOf(events \o staged[s]))
              /\ ids' = ids + 1 /\ lock' = s
              /\ staged' = [staged EXCEPT ![s] = Append(staged[s], e)]
              /\ events \o staged'[s] = Append(events \o staged[s], e)
              /\ \A t \in Sessions \ {s} : staged[t] = <<>> /\ staged'[t] = <<>>
              /\ events' = events /\ sharers' = sharers /\ sharers \subseteq {s}
<1> DEFINE e == [id |-> ids + 1, timestamp |-> clock',
                 previous_hash |-> latest_hash(RangeOf(events) \cup RangeOf(staged[s])),
                 data |-> data]
<1>1. /\ staged' = [staged EXCEPT ![s] = Append(staged[s], e)]
      /\ ids' = ids + 1 /\ lock' = s /\ events' = events /\ sharers' = sharers
      /\ sharers \subseteq {s} /\ lock \in {Free, s}
      /\ \E jump \in Jumps : clock' = clock + jump
  BY DEF append
<1>2. RangeOf(events \o staged[s]) = RangeOf(events) \cup RangeOf(staged[s])
  BY ChainTyped
<1>3. e \in Events
  <2>1. latest_hash(RangeOf(events \o staged[s])) \in Nat \cup {NoHash}
    BY ChainTyped, LatestHashTyped DEF OrderInv, Sound
  <2>2. clock' \in Int
    BY <1>1 DEF OrderInv, TypeOK, LedgerConstants
  <2>3. ids + 1 \in Nat
    BY DEF OrderInv, TypeOK
  <2> QED
    BY <1>2, <2>1, <2>2, <2>3 DEF Events
<1>4. staged \in [Sessions -> Seq(Events)]
  BY DEF OrderInv, TypeOK
<1> HIDE DEF e
<1>5. ASSUME NEW t \in Sessions \ {s} PROVE staged[t] = <<>> /\ staged'[t] = <<>>
  <2>1. lock # t
    BY <1>1 DEF LedgerConstants
  <2> QED
    BY <1>1, <1>4, <2>1 DEF OrderInv
<1>6. events \o staged'[s] = Append(events \o staged[s], e)
  <2>1. staged'[s] = Append(staged[s], e)
    BY <1>1, <1>4
  <2> QED
    BY <1>3, <2>1, ChainTyped
<1>7. e.id = ids + 1 /\ e.data = data /\ e.timestamp = clock'
      /\ e.previous_hash = latest_hash(RangeOf(events \o staged[s]))
  BY <1>2 DEF e
<1> QED
  BY <1>1, <1>3, <1>5, <1>6, <1>7

\* No event of a session's chain has an id that is still to be drawn.
LEMMA FreshId ==
    ASSUME OrderInv, NEW s \in Sessions, NEW f \in RangeOf(events \o staged[s])
    PROVE  f.id # ids + 1
<1>1. PICK i \in 1 .. Len(events \o staged[s]) : f = (events \o staged[s])[i]
  BY DEF RangeOf
<1>2. f.id \in 1 .. ids /\ ids \in Nat
  BY <1>1 DEF OrderInv, Sound, Ordered, TypeOK
<1> QED
  BY <1>2

LEMMA OrderAppend ==
    ASSUME LedgerConstants, OrderInv, NEW s \in Sessions, NEW data \in Data, append(s, data)
    PROVE  OrderInv'
<1>1. PICK e \in Events :
              /\ e.id = ids + 1 /\ e.data = data
              /\ e.timestamp = clock' /\ \E jump \in Jumps : clock' = clock + jump
              /\ e.previous_hash = latest_hash(RangeOf(events \o staged[s]))
              /\ ids' = ids + 1 /\ lock' = s
              /\ staged' = [staged EXCEPT ![s] = Append(staged[s], e)]
              /\ events \o staged'[s] = Append(events \o staged[s], e)
              /\ \A t \in Sessions \ {s} : staged[t] = <<>> /\ staged'[t] = <<>>
              /\ events' = events /\ sharers' = sharers /\ sharers \subseteq {s}
  BY AppendEffect
<1>0. ids \in Nat /\ clock \in Int /\ staged \in [Sessions -> Seq(Events)] /\ events \in Seq(Events)
  BY DEF OrderInv, TypeOK
<1>2. TypeOK'
  <2>1. staged' \in [Sessions -> Seq(Events)]
    BY <1>0, <1>1
  <2>2. clock' \in Int
    BY <1>0, <1>1 DEF LedgerConstants
  <2>3. ids' \in Nat
    BY <1>0, <1>1
  <2>4. lock' \in Sessions /\ lock' # Free /\ sharers' \subseteq {lock'}
    BY <1>1 DEF LedgerConstants
  <2> QED
    BY <1>0, <1>1, <2>1, <2>2, <2>3, <2>4 DEF TypeOK
<1>3. ASSUME NEW chain \in Seq(Events), Sound(chain)
      PROVE  Ordered(chain, ids + 1) /\ HasLatest(RangeOf(chain))
  BY <1>0, <1>3, OrderedLater DEF Sound
<1>4. Sound(events)'
  <2>1. Ordered(events, ids + 1) /\ HasLatest(RangeOf(events))
    BY <1>0, <1>3 DEF OrderInv
  <2> QED
    BY <1>1, <2>1 DEF Sound
<1>5. ASSUME NEW t \in Sessions PROVE Sound(events \o staged[t])'
  <2>1. CASE t = s
    <3> DEFINE chain == events \o staged[s]
    <3>1. chain \in Seq(Events) /\ RangeOf(chain) \subseteq Events
      BY ChainTyped
    <3>2. Ordered(Append(chain, e), ids + 1)
      BY <1>0, <1>1, <3>1, OrderedAppend DEF OrderInv, Sound
    <3>3. HasLatest(RangeOf(chain) \cup {e})
      BY <1>1, <3>1, FreshId, HasLatestAdd DEF OrderInv, Sound
    <3>4. HasLatest(RangeOf(Append(chain, e)))
      BY <3>1, <3>3, RangeAppend
    <3> QED
      BY <1>1, <2>1, <3>2, <3>4 DEF Sound
  <2>2. CASE t # s
    <3>1. events' \o staged'[t] = events
      BY <1>0, <1>1, <2>2
    <3>2. Ordered(events, ids + 1) /\ HasLatest(RangeOf(events))
      BY <1>0, <1>3 DEF OrderInv
    <3> QED
      BY <1>1, <3>1, <3>2 DEF Sound
  <2> QED
    BY <2>1, <2>2
<1>6. ASSUME NEW t \in Sessions, staged'[t] # <<>> PROVE lock' = t
  BY <1>1, <1>6
<1> QED
  BY <1>2, <1>4, <1>5, <1>6 DEF OrderInv

LEMMA EndTyped ==
    ASSUME LedgerConstants, TypeOK, NEW s \in Sessions, End(s)
    PROVE  /\ staged' \in [Sessions -> Seq(Events)]
           /\ lock' \in Sessions \cup {Free}
           /\ sharers' \subseteq (IF lock' = Free THEN Sessions ELSE {lock'})
           /\ clock' = clock /\ ids' = ids
           /\ staged'[s] = <<>> /\ \A t \in Sessions \ {s} : staged'[t] = staged[t]
           /\ lock' = IF lock = s THEN Free ELSE lock
<1>1. <<>> \in Seq(Events)
  OBVIOUS
<1>2. /\ staged' \in [Sessions -> Seq(Events)]
      /\ staged'[s] = <<>> /\ \A t \in Sessions \ {s} : staged'[t] = staged[t]
  BY <1>1 DEF End, TypeOK
<1> QED
  BY <1>2 DEF End, TypeOK

LEMMA OrderCommit ==
    ASSUME LedgerConstants, OrderInv, NEW s \in Sessions, Commit(s)
    PROVE  OrderInv'
<1>0. /\ TypeOK /\ End(s) /\ events' = events \o staged[s]
      /\ events \in Seq(Events) /\ \A t \in Sessions : staged[t] \in Seq(Events)
      /\ events' \in Seq(Events)
  BY ChainTyped DEF OrderInv, Commit, TypeOK
<1>1. TypeOK'
  BY <1>0, EndTyped DEF TypeOK
<1>2. ASSUME NEW t \in Sessions, staged'[t] # <<>> PROVE lock' = t
  BY <1>0, <1>2, EndTyped DEF OrderInv
<1>3. Sound(events)'
  BY <1>0, EndTyped DEF OrderInv, Sound
<1>4. ASSUME NEW t \in Sessions PROVE Sound(events \o staged[t])'
  <2>1. CASE staged'[t] = <<>>
    <3>1. events' \o staged'[t] = events'
      BY <1>0, <2>1
    <3> QED
      BY <1>3, <3>1 DEF Sound
  <2>2. CASE staged'[t] # <<>>
    <3>1. t # s /\ lock = t /\ staged'[t] = staged[t]
      BY <1>0, <2>2, EndTyped DEF OrderInv
    <3>2. staged[s] = <<>>
      BY <3>1 DEF OrderInv
    <3>3. events' = events
      BY <1>0, <3>2
    <3> QED
      BY <1>0, <3>1, <3>3, EndTyped DEF OrderInv, Sound
  <2> QED
    BY <2>1, <2>2
<1> QED
  BY <1>1, <1>2, <1>3, <1>4 DEF OrderInv

LEMMA OrderRollback ==
    ASSUME LedgerConstants, OrderInv, NEW s \in Sessions, Rollback(s)
    PROVE  OrderInv'
<1>0. /\ TypeOK /\ End(s) /\ events' = events
      /\ events \in Seq(Events) /\ \A t \in Sessions : staged[t] \in Seq(Events)
  BY DEF OrderInv, Rollback, TypeOK
<1>1. TypeOK'
  BY <1>0, EndTyped DEF TypeOK
<1>2. ASSUME NEW t \in Sessions, staged'[t] # <<>> PROVE lock' = t
  BY <1>0, <1>2, EndTyped DEF OrderInv
<1>3. Sound(events)'
  BY <1>0, EndTyped DEF OrderInv, Sound
<1>4. ASSUME NEW t \in Sessions PROVE Sound(events \o staged[t])'
  <2>1. CASE t = s
    <3>1. events' \o staged'[t] = events'
      BY <1>0, <2>1, EndTyped
    <3> QED
      BY <1>3, <3>1 DEF Sound
  <2>2. CASE t # s
    BY <1>0, <2>2, EndTyped DEF OrderInv, Sound
  <2> QED
    BY <2>1, <2>2
<1> QED
  BY <1>1, <1>2, <1>3, <1>4 DEF OrderInv

LEMMA OrderInsert ==
    ASSUME LedgerConstants, OrderInv, NEW s \in Sessions, insert(s)
    PROVE  OrderInv'
<1>1. TypeOK'
  BY DEF OrderInv, insert, TypeOK
<1> QED
  BY <1>1 DEF OrderInv, insert, Sound

LEMMA OrderStutter ==
    ASSUME OrderInv, UNCHANGED vars
    PROVE  OrderInv'
BY DEF OrderInv, TypeOK, Sound, vars

\* Every step of the ledger keeps its chains in order.
LEMMA OrderNext ==
    ASSUME LedgerConstants, OrderInv, [Next]_vars
    PROVE  OrderInv'
BY OrderAppend, OrderCommit, OrderRollback, OrderInsert, OrderStutter DEF Next

-----------------------------------------------------------------------------
(* The links, while the clock runs forwards *)

\* The induction: the chain that each session would commit is linked, and
\* none of its events is dated later than the clock.
ChainInv ==
    /\ Linked(events, clock)
    /\ \A s \in Sessions : Linked(events \o staged[s], clock)

LEMMA ChainInit ==
    ASSUME Init
    PROVE  ChainInv
<1>1. <<>> \o <<>> = <<>>
  OBVIOUS
<1>2. Linked(<<>>, 0)
  BY DEF Linked
<1>3. /\ events = <<>> /\ clock = 0
      /\ \A s \in Sessions : staged[s] = <<>>
  BY DEF Init
<1> QED
  BY <1>1, <1>2, <1>3 DEF ChainInv

LEMMA ChainAppend ==
    ASSUME LedgerConstants, ClockForwards, OrderInv, ChainInv,
           NEW s \in Sessions, NEW data \in Data, append(s, data)
    PROVE  ChainInv'
<1>1. PICK e \in Events :
              /\ e.id = ids + 1 /\ e.data = data
              /\ e.timestamp = clock' /\ \E jump \in Jumps : clock' = clock + jump
              /\ e.previous_hash = latest_hash(RangeOf(events \o staged[s]))
              /\ ids' = ids + 1 /\ lock' = s
              /\ staged' = [staged EXCEPT ![s] = Append(staged[s], e)]
              /\ events \o staged'[s] = Append(events \o staged[s], e)
              /\ \A t \in Sessions \ {s} : staged[t] = <<>> /\ staged'[t] = <<>>
              /\ events' = events /\ sharers' = sharers /\ sharers \subseteq {s}
  BY AppendEffect
<1>2. clock \in Int /\ clock' \in Int /\ clock < clock'
  BY <1>1 DEF OrderInv, TypeOK, ClockForwards
<1>3. events \in Seq(Events) /\ Linked(events, clock')
  BY <1>2, LinkedLater DEF OrderInv, TypeOK, ChainInv
<1>4. Linked(Append(events \o staged[s], e), clock')
  <2> DEFINE chain == events \o staged[s]
  <2>1. chain \in Seq(Events) /\ Linked(chain, clock)
    BY ChainTyped DEF ChainInv
  <2>2. e.previous_hash = IF chain = <<>> THEN NoHash ELSE chain[Len(chain)].id
    BY <1>1, <1>2, <2>1, LatestOfChain
  <2>3. clock < e.timestamp
    BY <1>1, <1>2
  <2> HIDE DEF chain
  <2>4. Linked(Append(chain, e), e.timestamp)
    BY <1>2, <2>1, <2>2, <2>3, LinkedAppend
  <2> QED
    BY <1>1, <2>4 DEF chain
<1>5. ASSUME NEW t \in Sessions PROVE Linked(events' \o staged'[t], clock')
  <2>1. CASE t = s
    BY <1>1, <1>4, <2>1
  <2>2. CASE t # s
    <3>1. events' \o staged'[t] = events
      BY <1>1, <1>3, <2>2
    <3> QED
      BY <1>3, <3>1
  <2> QED
    BY <2>1, <2>2
<1> QED
  BY <1>1, <1>3, <1>5 DEF ChainInv

LEMMA ChainCommit ==
    ASSUME LedgerConstants, OrderInv, ChainInv, NEW s \in Sessions, Commit(s)
    PROVE  ChainInv'
<1>0. /\ TypeOK /\ End(s) /\ events' = events \o staged[s] /\ clock' = clock
      /\ events \in Seq(Events) /\ events' \in Seq(Events)
  BY ChainTyped, EndTyped DEF OrderInv, Commit, TypeOK
<1>1. Linked(events', clock')
  BY <1>0 DEF ChainInv
<1>2. ASSUME NEW t \in Sessions PROVE Linked(events' \o staged'[t], clock')
  <2>1. CASE staged'[t] = <<>>
    <3>1. events' \o staged'[t] = events'
      BY <1>0, <2>1
    <3> QED
      BY <1>1, <3>1
  <2>2. CASE staged'[t] # <<>>
    <3>1. t # s /\ lock = t /\ staged'[t] = staged[t]
      BY <1>0, <2>2, EndTyped DEF OrderInv
    <3>2. staged[s] = <<>>
      BY <3>1 DEF OrderInv
    <3>3. events' = events
      BY <1>0, <3>2
    <3> QED
      BY <1>0, <3>1, <3>3 DEF ChainInv
  <2> QED
    BY <2>1, <2>2
<1> QED
  BY <1>1, <1>2 DEF ChainInv

LEMMA ChainRollback ==
    ASSUME LedgerConstants, OrderInv, ChainInv, NEW s \in Sessions, Rollback(s)
    PROVE  ChainInv'
<1>0. TypeOK /\ End(s) /\ events' = events /\ events \in Seq(Events) /\ clock' = clock
  BY EndTyped DEF OrderInv, Rollback, TypeOK
<1>1. ASSUME NEW t \in Sessions PROVE Linked(events' \o staged'[t], clock')
  <2>1. CASE t = s
    <3>1. events' \o staged'[t] = events
      BY <1>0, <2>1, EndTyped
    <3> QED
      BY <1>0, <3>1 DEF ChainInv
  <2>2. CASE t # s
    BY <1>0, <2>2, EndTyped DEF ChainInv
  <2> QED
    BY <2>1, <2>2
<1> QED
  BY <1>0, <1>1 DEF ChainInv

\* Every step of the ledger keeps its chains linked.
LEMMA ChainNext ==
    ASSUME LedgerConstants, ClockForwards, OrderInv, ChainInv, [Next]_vars
    PROVE  ChainInv'
<1>1. ASSUME NEW s \in Sessions, insert(s) PROVE ChainInv'
  BY <1>1 DEF ChainInv, insert
<1>2. CASE UNCHANGED vars
  BY <1>2 DEF ChainInv, vars
<1> QED
  BY <1>1, <1>2, ChainAppend, ChainCommit, ChainRollback DEF Next

\* On a linked chain the order by timestamp and id is that of the places.
LEMMA LinkedBefore ==
    ASSUME OrderInv, ChainInv, NEW i \in 1 .. Len(events), NEW j \in 1 .. Len(events)
    PROVE  Before(events[j], events[i]) <=> j < i
<1>1. events[i] \in Events /\ events[j] \in Events
  BY DEF OrderInv, TypeOK
<1>2. /\ j < i => events[j].timestamp < events[i].timestamp
      /\ i < j => events[i].timestamp < events[j].timestamp
  BY DEF ChainInv, Linked
<1>3. /\ events[i].id \in Nat /\ events[j].id \in Nat
      /\ events[i].timestamp \in Int /\ events[j].timestamp \in Int
  BY <1>1, EventFields
<1>4. CASE i = j
  BY <1>3, <1>4 DEF Before
<1>5. CASE i # j
  BY <1>2, <1>3, <1>5 DEF Before
<1> QED
  BY <1>4, <1>5

\* A linked chain verifies.
LEMMA LinkedVerifies ==
    ASSUME LedgerConstants, OrderInv, ChainInv
    PROVE  verify
<1>1. ASSUME NEW i \in 1 .. Len(events), NEW j \in 1 .. Len(events)
      PROVE  Before(events[j], events[i]) <=> j < i
  BY LinkedBefore
<1> SUFFICES ASSUME NEW event \in RangeOf(events)
             PROVE  LET earlier == {f \in RangeOf(events) : Before(f, event)} IN
                    IF earlier = {} THEN event.previous_hash = NoHash
                    ELSE \E f \in earlier : /\ event.previous_hash = f.id
                                            /\ \A g \in earlier \ {f} : Before(g, f)
  BY DEF verify
<1>2. PICK i \in 1 .. Len(events) : event = events[i]
  BY DEF RangeOf
<1> DEFINE earlier == {f \in RangeOf(events) : Before(f, event)}
<1>3. CASE i = 1
  <2>1. earlier = {}
    BY <1>1, <1>2, <1>3 DEF RangeOf
  <2>2. event.previous_hash = NoHash
    BY <1>2, <1>3 DEF ChainInv, Linked
  <2> QED
    BY <2>1, <2>2
<1>4. CASE i # 1
  <2>1. i - 1 \in 1 .. Len(events) /\ i - 1 < i
    BY <1>4
  <2>2. events[i - 1] \in earlier
    BY <1>1, <1>2, <2>1 DEF RangeOf
  <2>3. event.previous_hash = events[i - 1].id
    BY <1>2, <1>4 DEF ChainInv, Linked
  <2>4. ASSUME NEW g \in earlier \ {events[i - 1]} PROVE Before(g, events[i - 1])
    <3>1. PICK j \in 1 .. Len(events) : g = events[j]
      BY DEF RangeOf
    <3>2. j < i /\ j # i - 1
      BY <1>1, <1>2, <3>1
    <3> QED
      BY <1>1, <2>1, <3>1, <3>2
  <2> QED
    BY <2>2, <2>3, <2>4
<1> QED
  BY <1>3, <1>4

-----------------------------------------------------------------------------

\* The types of the tables and of the row lock hold whatever the clock does
\* (ledger.py:33-52).
THEOREM LedgerTyped ==
    ASSUME LedgerConstants
    PROVE  Spec => []TypeOK
<1>1. Init => OrderInv
  BY OrderInit
<1>2. OrderInv /\ [Next]_vars => OrderInv'
  BY OrderNext
<1>3. OrderInv => TypeOK
  BY DEF OrderInv
<1> QED
  BY <1>1, <1>2, <1>3, PTL DEF Spec

\* The chain verifies at every moment, for any number of sessions that append,
\* commit and roll back, as long as the clock runs forwards (ledger.py:33-102).
THEOREM LedgerVerified ==
    ASSUME LedgerConstants, ClockForwards
    PROVE  Spec => []verify
<1>1. Init => OrderInv /\ ChainInv
  BY OrderInit, ChainInit
<1>2. OrderInv /\ ChainInv /\ [Next]_vars => (OrderInv /\ ChainInv)'
  BY OrderNext, ChainNext
<1>3. OrderInv /\ ChainInv => verify
  BY LinkedVerifies
<1> QED
  BY <1>1, <1>2, <1>3, PTL DEF Spec
=============================================================================
