-------------------------- MODULE WaiterQueueProofs --------------------------
(***************************************************************************)
(* The ring of WaiterQueueNodes, for any number of nodes and any counts:   *)
(* it is the sequence it stands for, and NotifyAllInList walks through the *)
(* nodes it has detached.                                                  *)
(***************************************************************************)
EXTENDS WaiterQueue, WellFoundedInduction, TLAPS

Pointers == Nodes \cup {Null}

WaiterTypeOK ==
  /\ head \in Pointers /\ next \in [Nodes -> Pointers] /\ prev \in [Nodes -> Pointers]
  /\ waiting \subseteq Nodes /\ queue \in Seq(Nodes) /\ detached \in Seq(Nodes)
  /\ this \in Pointers /\ cur \in Pointers /\ following \in Pointers

\* nx leads through the nodes of q and then to end.
Chain(nx, q, end) == \A i \in 1..Len(q) : nx[q[i]] = IF i = Len(q) THEN end ELSE q[i + 1]

\* nx and pv close the nodes of q to a ring.
Ring(nx, pv, q) ==
  /\ Chain(nx, q, q[1])
  /\ \A i \in 1..Len(q) : pv[q[i]] = IF i = 1 THEN q[Len(q)] ELSE q[i - 1]

\* The nodes that a queue or a walk refers to are in one place, and belong to
\* threads that wait: no other thread writes them, nor do their own.
NodesAreOwned ==
  /\ IsInjective(queue) /\ IsInjective(detached)
  /\ Range(queue) \cap Range(detached) = {}
  /\ Range(queue) \cup Range(detached) \subseteq waiting

HeadIsFirst == head = IF queue = <<>> THEN Null ELSE queue[1]

\* The walk: the list is a chain that ends at this, where it began, although this
\* node may be in use again by then.
WalkIsOn ==
  /\ cur = Null => detached = <<>> /\ this = Null /\ following = Null
  /\ cur # Null => this # Null /\ Chain(next, detached, this)
  /\ cur # Null /\ following = Null =>
       /\ detached # <<>> /\ detached[1] = cur
       /\ \A i \in 2..Len(detached) : detached[i] # this
  /\ following # Null =>
       /\ following = IF detached = <<>> THEN this ELSE detached[1]
       /\ this \notin Range(detached)

\* The inductive invariant.
WaiterInv ==
  /\ WaiterTypeOK /\ NodesAreOwned /\ HeadIsFirst /\ Ring(next, prev, queue) /\ WalkIsOn
-----------------------------------------------------------------------------
(* Sequences of nodes.                                                     *)

\* A sequence is a function on the numbers up to its length.
LEMMA SeqFacts ==
  ASSUME NEW q \in Seq(Nodes)
  PROVE  /\ Len(q) \in Nat /\ DOMAIN q = 1..Len(q) /\ (Len(q) = 0 <=> q = <<>>)
         /\ \A i \in 1..Len(q) : q[i] \in Nodes
         /\ Range(q) = {q[i] : i \in 1..Len(q)}
         /\ IsInjective(q) <=> \A i, j \in 1..Len(q) : q[i] = q[j] => i = j
<1>1. /\ Len(q) \in Nat /\ DOMAIN q = 1..Len(q) /\ (Len(q) = 0 <=> q = <<>>)
      /\ \A i \in 1..Len(q) : q[i] \in Nodes
  OBVIOUS
<1>2. Range(q) = {q[i] : i \in 1..Len(q)}
  BY <1>1 DEF Range
<1>3. IsInjective(q) <=> \A i, j \in 1..Len(q) : q[i] = q[j] => i = j
  BY <1>1 DEF IsInjective
<1> QED BY <1>1, <1>2, <1>3

\* The empty queue.
LEMMA EmptyFacts ==
  /\ <<>> \in Seq(Nodes) /\ Len(<<>>) = 0 /\ Range(<<>>) = {} /\ IsInjective(<<>>)
<1>1. <<>> \in Seq(Nodes) /\ Len(<<>>) = 0 /\ DOMAIN <<>> = {}
  OBVIOUS
<1> QED BY <1>1 DEF Range, IsInjective

\* A part of a queue has the nodes of that part.
LEMMA PartFacts ==
  ASSUME NEW q \in Seq(Nodes), NEW m \in 1..(Len(q) + 1), NEW n \in 0..Len(q), m <= n + 1
  PROVE  LET r == SubSeq(q, m, n) IN
         /\ r \in Seq(Nodes) /\ Len(r) = n - m + 1
         /\ \A i \in 1..(n - m + 1) : r[i] = q[m + i - 1]
OBVIOUS

\* The first k nodes of a queue and the others.
LEMMA SplitFacts ==
  ASSUME NEW q \in Seq(Nodes), IsInjective(q), NEW k \in 0..Len(q)
  PROVE  LET front == SubSeq(q, 1, k)
             back == SubSeq(q, k + 1, Len(q)) IN
         /\ front \in Seq(Nodes) /\ Len(front) = k /\ \A i \in 1..k : front[i] = q[i]
         /\ back \in Seq(Nodes) /\ Len(back) = Len(q) - k
         /\ \A i \in 1..(Len(q) - k) : back[i] = q[k + i]
         /\ IsInjective(front) /\ IsInjective(back)
         /\ Range(front) \cap Range(back) = {}
         /\ Range(front) \cup Range(back) \subseteq Range(q)
<1> DEFINE front == SubSeq(q, 1, k)
           back == SubSeq(q, k + 1, Len(q))
           l == Len(q)
<1>1. /\ l \in Nat /\ k \in 0..l /\ Range(q) = {q[i] : i \in 1..l}
      /\ \A i, j \in 1..l : q[i] = q[j] => i = j
  BY SeqFacts
<1>2. front \in Seq(Nodes) /\ Len(front) = k /\ \A i \in 1..k : front[i] = q[i]
  BY <1>1, PartFacts
<1>3. /\ back \in Seq(Nodes) /\ Len(back) = l - k
      /\ \A i \in 1..(l - k) : back[i] = q[k + i]
  <2>1. /\ back \in Seq(Nodes) /\ Len(back) = l - (k + 1) + 1
        /\ \A i \in 1..(l - (k + 1) + 1) : back[i] = q[k + 1 + i - 1]
    BY <1>1, PartFacts
  <2>2. l - (k + 1) + 1 = l - k /\ \A i \in 1..(l - k) : k + 1 + i - 1 = k + i
    BY <1>1
  <2> QED BY <2>1, <2>2, Zenon
<1> HIDE DEF front, back, l
<1>4. /\ Range(front) = {front[i] : i \in 1..k}
      /\ IsInjective(front) <=> \A i, j \in 1..k : front[i] = front[j] => i = j
  BY <1>2, SeqFacts, Zenon
<1>a. /\ Range(back) = {back[i] : i \in 1..(l - k)}
      /\ IsInjective(back) <=> \A i, j \in 1..(l - k) : back[i] = back[j] => i = j
  BY <1>3, SeqFacts, Zenon
<1>5. \A i \in 1..k : i \in 1..l
  BY <1>1
<1>6. \A i \in 1..(l - k) : k + i \in 1..l /\ k + i \notin 1..k
  BY <1>1
<1>7. IsInjective(front)
  BY <1>1, <1>2, <1>4, <1>5
<1>8. IsInjective(back)
  <2>1. \A i, j \in 1..(l - k) : k + i = k + j => i = j
    BY <1>1
  <2> QED BY <1>1, <1>3, <1>6, <1>a, <2>1
<1>9. Range(front) \cap Range(back) = {}
  <2>1. ASSUME NEW i \in 1..k, NEW j \in 1..(l - k)
        PROVE  front[i] # back[j]
    <3>1. front[i] = q[i] /\ back[j] = q[k + j] /\ i \in 1..l /\ k + j \in 1..l /\ i # k + j
      BY <1>2, <1>3, <1>5, <1>6
    <3> QED BY <1>1, <3>1
  <2> QED BY <1>4, <1>a, <2>1, Zenon
<1>10. Range(front) \cup Range(back) \subseteq Range(q)
  <2>1. \A i \in 1..k : front[i] \in Range(q)
    BY <1>1, <1>2, <1>5
  <2>2. \A i \in 1..(l - k) : back[i] \in Range(q)
    BY <1>1, <1>3, <1>6
  <2>3. \A x \in Range(front) : x \in Range(q)
    BY <1>4, <2>1
  <2>4. \A x \in Range(back) : x \in Range(q)
    BY <1>a, <2>2
  <2> QED BY <2>3, <2>4
<1> QED BY <1>2, <1>3, <1>7, <1>8, <1>9, <1>10 DEF front, back, l

\* One sequence after another.
LEMMA ConcatFacts ==
  ASSUME NEW a \in Seq(Nodes), NEW b \in Seq(Nodes)
  PROVE  /\ a \o b \in Seq(Nodes) /\ Len(a \o b) = Len(a) + Len(b)
         /\ \A i \in 1..(Len(a) + Len(b)) :
              (a \o b)[i] = IF i <= Len(a) THEN a[i] ELSE b[i - Len(a)]
OBVIOUS

\* A queue without its k-th node.
LEMMA JoinFacts ==
  ASSUME NEW q \in Seq(Nodes), NEW k \in 1..(Len(q) - 1)
  PROVE  LET r == SubSeq(q, 1, k - 1) \o SubSeq(q, k + 1, Len(q)) IN
         /\ r \in Seq(Nodes) /\ Len(r) = Len(q) - 1
         /\ \A i \in 1..(Len(q) - 1) : r[i] = IF i < k THEN q[i] ELSE q[i + 1]
<1> DEFINE a == SubSeq(q, 1, k - 1)
           b == SubSeq(q, k + 1, Len(q))
           r == a \o b
<1>1. Len(q) \in Nat /\ k \in Nat \ {0} /\ k < Len(q)
  BY SeqFacts
<1>2. a \in Seq(Nodes) /\ Len(a) = k - 1 /\ \A i \in 1..(k - 1) : a[i] = q[i]
  BY <1>1, PartFacts
<1>3. /\ b \in Seq(Nodes) /\ Len(b) = Len(q) - k
      /\ \A i \in 1..(Len(q) - k) : b[i] = q[k + 1 + i - 1]
  BY <1>1, PartFacts
<1> HIDE DEF a, b
<1>4. /\ r \in Seq(Nodes) /\ Len(r) = Len(a) + Len(b)
      /\ \A i \in 1..(Len(a) + Len(b)) : r[i] = IF i <= Len(a) THEN a[i] ELSE b[i - Len(a)]
  BY <1>2, <1>3, ConcatFacts, Zenon
<1> HIDE DEF r
<1>5. ASSUME NEW i \in 1..(Len(q) - 1)
      PROVE  r[i] = IF i < k THEN q[i] ELSE q[i + 1]
  <2>1. CASE i < k
    <3>1. i \in 1..(k - 1) /\ i \in 1..(Len(a) + Len(b)) /\ i <= Len(a)
      BY <1>1, <1>2, <1>3, <2>1
    <3>2. r[i] = a[i] /\ a[i] = q[i]
      BY <1>2, <1>4, <3>1
    <3> QED BY <2>1, <3>2
  <2>2. CASE ~(i < k)
    <3>1. /\ i - (k - 1) \in 1..(Len(q) - k) /\ k + 1 + (i - (k - 1)) - 1 = i + 1
          /\ i \in 1..(Len(a) + Len(b)) /\ ~(i <= Len(a))
      BY <1>1, <1>2, <1>3, <2>2
    <3> QED BY <1>2, <1>3, <1>4, <2>2, <3>1
  <2> QED BY <2>1, <2>2
<1>6. Len(r) = Len(q) - 1
  BY <1>1, <1>2, <1>3, <1>4
<1> QED BY <1>4, <1>5, <1>6 DEF r, a, b

\* Its nodes are the others.
LEMMA PartRange ==
  ASSUME NEW q \in Seq(Nodes), IsInjective(q), NEW k \in 1..(Len(q) - 1),
         NEW r \in Seq(Nodes), Len(r) = Len(q) - 1,
         \A i \in 1..(Len(q) - 1) : r[i] = IF i < k THEN q[i] ELSE q[i + 1]
  PROVE  Range(r) = Range(q) \ {q[k]} /\ IsInjective(r)
<1>1. /\ Len(q) \in Nat /\ k \in Nat \ {0} /\ k < Len(q)
      /\ \A i, j \in 1..Len(q) : q[i] = q[j] => i = j
      /\ Range(q) = {q[i] : i \in 1..Len(q)} /\ Range(r) = {r[i] : i \in 1..(Len(q) - 1)}
  BY SeqFacts
<1>2. ASSUME NEW i \in 1..(Len(q) - 1)
      PROVE  r[i] \in Range(q) \ {q[k]}
  <2>1. i \in 1..Len(q) /\ i + 1 \in 1..Len(q) /\ k \in 1..Len(q) /\ i + 1 # i
    BY <1>1
  <2> QED BY <1>1, <2>1
<1>3. ASSUME NEW i \in 1..Len(q), i # k
      PROVE  q[i] \in Range(r)
  <2>1. CASE i < k
    BY <1>1, <2>1
  <2>2. CASE i > k
    <3>1. i - 1 \in 1..(Len(q) - 1) /\ ~(i - 1 < k) /\ (i - 1) + 1 = i
      BY <1>1, <2>2
    <3>2. r[i - 1] = q[i]
      BY <3>1
    <3> QED BY <1>1, <3>1, <3>2
  <2> QED BY <1>1, <1>3, <2>1, <2>2
<1>4. \A i, j \in 1..(Len(q) - 1) : r[i] = r[j] => i = j
  <2> TAKE i, j \in 1..(Len(q) - 1)
  <2>1. /\ i \in 1..Len(q) /\ i + 1 \in 1..Len(q)
        /\ j \in 1..Len(q) /\ j + 1 \in 1..Len(q)
    BY <1>1
  <2> QED BY <1>1, <2>1
<1>5. Range(r) = Range(q) \ {q[k]}
  <2>1. Range(r) \subseteq Range(q) \ {q[k]}
    BY <1>1, <1>2
  <2>2. \A x \in Range(q) \ {q[k]} : \E i \in 1..Len(q) : i # k /\ x = q[i]
    BY <1>1
  <2>3. Range(q) \ {q[k]} \subseteq Range(r)
    BY <1>3, <2>2
  <2> QED BY <2>1, <2>3
<1> QED BY <1>4, <1>5, SeqFacts

\* The least number of a set, which stands for induction.
LEMMA LeastNumber ==
  ASSUME NEW T \in SUBSET Nat, T # {}
  PROVE  \E m \in T : \A n \in T : m <= n
<1>1. PICK m \in T : \A n \in T : ~(<<n, m>> \in OpToRel(<, Nat))
  BY NatLessThanWellFounded, WFMin, Zenon
<1>2. \A n \in T : n < m => <<n, m>> \in OpToRel(<, Nat)
  BY DEF OpToRel
<1>3. \A n \in T : ~(n < m)
  BY <1>1, <1>2, Zenon
<1> QED BY <1>3

\* Following next_ from the head of a ring, up to once around.
LEMMA FollowFacts ==
  ASSUME NEW q \in Seq(Nodes), q # <<>>, Chain(next, q, q[1]), NEW k \in 0..Len(q)
  PROVE  Follow(q[1], k) = IF k = Len(q) THEN q[1] ELSE q[k + 1]
<1> DEFINE n == q[1]
           walk[i \in 0..k] == IF i = 0 THEN n ELSE next[walk[i - 1]]
           at(i) == IF i = Len(q) THEN q[1] ELSE q[i + 1]
           g == [i \in 0..k |-> at(i)]
<1>0. Len(q) \in Nat \ {0} /\ k \in Nat
  BY SeqFacts
<1>1. \A i \in 0..k : at(i) = IF i = 0 THEN n ELSE next[at(i - 1)]
  BY <1>0 DEF Chain
<1>2. \A i \in 0..k : i # 0 => g[i - 1] = at(i - 1)
  BY <1>0
<1> HIDE DEF n, at
<1>3. g = [i \in 0..k |-> IF i = 0 THEN n ELSE next[g[i - 1]]]
  BY <1>1, <1>2
<1> HIDE DEF g
<1>4. walk = [i \in 0..k |-> IF i = 0 THEN n ELSE next[walk[i - 1]]]
  BY <1>3, Zenon
<1>5. Follow(n, k) = walk[k]
  BY DEF Follow
<1> HIDE DEF walk
<1>6. \A i \in 0..k : walk[i] = IF i = 0 THEN n ELSE next[walk[i - 1]]
  BY <1>4
<1>7. \A i \in 0..k : walk[i] = at(i)
  <2> DEFINE T == {i \in 0..k : walk[i] # at(i)}
  <2> SUFFICES ASSUME T # {} PROVE FALSE
    OBVIOUS
  <2>1. T \in SUBSET Nat
    BY <1>0
  <2> HIDE DEF T
  <2>2. PICK m \in T : \A i \in T : m <= i
    BY <2>1, LeastNumber
  <2>3. m \in 0..k /\ walk[m] # at(m) /\ (m # 0 => m - 1 \in 0..k /\ m - 1 \notin T)
    BY <1>0, <2>1, <2>2 DEF T
  <2>4. m # 0 => walk[m - 1] = at(m - 1)
    BY <2>3 DEF T
  <2> QED BY <1>1, <1>6, <2>3, <2>4
<1> QED BY <1>0, <1>5, <1>7 DEF at, n
-----------------------------------------------------------------------------
(* Rings.  nx and pv are the pointers, q the nodes of the ring.             *)

\* The pointers of a ring lead to its nodes.
LEMMA RingFacts ==
  ASSUME NEW nx, NEW pv, NEW q \in Seq(Nodes), q # <<>>, Ring(nx, pv, q)
  PROVE  /\ Len(q) \in Nat \ {0} /\ \A i \in 1..Len(q) : q[i] \in Nodes
         /\ nx[q[Len(q)]] = q[1] /\ pv[q[1]] = q[Len(q)]
         /\ \A i \in 1..Len(q) : i # Len(q) => nx[q[i]] = q[i + 1] /\ pv[q[i + 1]] = q[i]
<1>1. Len(q) \in Nat \ {0} /\ \A i \in 1..Len(q) : q[i] \in Nodes
  BY SeqFacts
<1> QED BY <1>1 DEF Ring, Chain

\* Enqueue of a node that is not in the ring.
LEMMA EnqueueRing ==
  ASSUME NEW nx \in [Nodes -> Pointers], NEW pv \in [Nodes -> Pointers],
         NEW q \in Seq(Nodes), q # <<>>, IsInjective(q), Ring(nx, pv, q),
         NEW n \in Nodes \ Range(q)
  PROVE  Ring([nx EXCEPT ![q[Len(q)]] = n, ![n] = q[1]],
              [pv EXCEPT ![q[1]] = n, ![n] = q[Len(q)]], Append(q, n))
<1> DEFINE r == Append(q, n)
           l == Len(q)
           nxt == [nx EXCEPT ![q[l]] = n, ![n] = q[1]]
           prv == [pv EXCEPT ![q[1]] = n, ![n] = q[l]]
<1>1. /\ l \in Nat \ {0} /\ \A i \in 1..l : q[i] \in Nodes /\ q[i] # n
      /\ \A i, j \in 1..l : q[i] = q[j] => i = j
  BY SeqFacts
<1>2. Len(r) = l + 1 /\ r[l + 1] = n /\ \A i \in 1..l : r[i] = q[i]
  OBVIOUS
<1>3. nx[q[l]] = q[1] /\ pv[q[1]] = q[l]
      /\ \A i \in 1..l : i # l => nx[q[i]] = q[i + 1] /\ pv[q[i + 1]] = q[i]
  BY RingFacts
<1>4. /\ nxt[n] = q[1] /\ nxt[q[l]] = n /\ prv[n] = q[l] /\ prv[q[1]] = n
      /\ \A i \in 1..l : i # l => nxt[q[i]] = q[i + 1]
      /\ \A i \in 1..l : i # 1 => prv[q[i]] = pv[q[i]]
  BY <1>1, <1>3
<1> HIDE DEF l, r, nxt, prv
<1>5. \A i \in 1..l : i # 1 => pv[q[i]] = q[i - 1]
  <2> TAKE i \in 1..l
  <2>1. i # 1 => i - 1 \in 1..l /\ i - 1 # l /\ (i - 1) + 1 = i
    BY <1>1
  <2> QED BY <1>3, <2>1
<1>6. Chain(nxt, r, r[1])
  BY <1>1, <1>2, <1>4 DEF Chain
<1>7. \A i \in 1..Len(r) : prv[r[i]] = IF i = 1 THEN r[Len(r)] ELSE r[i - 1]
  <2> SUFFICES ASSUME NEW i \in 1..(l + 1)
               PROVE  prv[r[i]] = IF i = 1 THEN n ELSE r[i - 1]
    BY <1>1, <1>2
  <2>1. CASE i = l + 1
    BY <1>1, <1>2, <1>4, <2>1
  <2>2. CASE i # l + 1
    <3>1. i \in 1..l /\ (i # 1 => i - 1 \in 1..l)
      BY <1>1, <2>2
    <3> QED BY <1>2, <1>4, <1>5, <3>1
  <2> QED BY <2>1, <2>2
<1> QED BY <1>6, <1>7 DEF Ring, l, r, nxt, prv

\* DequeueMatching of a node that is not the tail: its neighbours are joined.
LEMMA RemoveRing ==
  ASSUME NEW nx \in [Nodes -> Pointers], NEW pv \in [Nodes -> Pointers],
         NEW q \in Seq(Nodes), IsInjective(q), Ring(nx, pv, q),
         NEW k \in 1..(Len(q) - 1),
         NEW r \in Seq(Nodes), Len(r) = Len(q) - 1,
         \A i \in 1..Len(r) : r[i] = IF i < k THEN q[i] ELSE q[i + 1]
  PROVE  Ring([nx EXCEPT ![pv[q[k]]] = nx[q[k]]], [pv EXCEPT ![nx[q[k]]] = pv[q[k]]], r)
<1> DEFINE l == Len(q)
           before == IF k = 1 THEN l ELSE k - 1
           nxt == [nx EXCEPT ![q[before]] = q[k + 1]]
           prv == [pv EXCEPT ![q[k + 1]] = q[before]]
<1>0. /\ l \in Nat /\ \A i \in 1..l : q[i] \in Nodes
      /\ \A i, j \in 1..l : q[i] = q[j] => i = j
  BY SeqFacts
<1>1. l > 1 /\ k \in 1..l /\ k + 1 \in 1..l /\ before \in 1..l /\ k \in Nat /\ before # k
  BY <1>0
<1>2. /\ \A i \in 1..l : nx[q[i]] = IF i = l THEN q[1] ELSE q[i + 1]
      /\ \A i \in 1..l : pv[q[i]] = IF i = 1 THEN q[l] ELSE q[i - 1]
  BY DEF Ring, Chain
<1>3. pv[q[k]] = q[before] /\ nx[q[k]] = q[k + 1]
  BY <1>1, <1>2
<1>a. \A i \in 1..(l - 1) : r[i] = IF i < k THEN q[i] ELSE q[i + 1]
  BY <1>0
<1>b. (before = l <=> k = 1) /\ (k # 1 => before = k - 1)
  BY <1>1
<1> HIDE DEF l, before
<1>4. /\ \A i \in 1..l : nxt[q[i]] = IF i = before THEN q[k + 1] ELSE nx[q[i]]
      /\ \A i \in 1..l : prv[q[i]] = IF i = k + 1 THEN q[before] ELSE pv[q[i]]
  BY <1>0, <1>1
<1> HIDE DEF nxt, prv
<1>5. ASSUME NEW i \in 1..(l - 1)
      PROVE  nxt[r[i]] = IF i = l - 1 THEN r[1] ELSE r[i + 1]
  <2>0. i \in 1..l /\ i + 1 \in 1..l /\ (i # l - 1 => i + 1 \in 1..(l - 1)) /\ 1 \in 1..(l - 1)
    BY <1>0, <1>1
  <2>1. CASE i < k
    <3>1. r[i] = q[i] /\ i # l - 1 /\ i # l /\ (i = before <=> i + 1 = k)
      BY <1>0, <1>1, <1>a, <1>b, <2>0, <2>1
    <3>2. nxt[q[i]] = IF i = before THEN q[k + 1] ELSE q[i + 1]
      BY <1>2, <1>4, <2>0, <3>1
    <3>3. r[i + 1] = IF i + 1 < k THEN q[i + 1] ELSE q[i + 1 + 1]
      BY <1>a, <2>0, <3>1
    <3> QED BY <1>0, <1>1, <2>0, <2>1, <3>1, <3>2, <3>3
  <2>2. CASE ~(i < k)
    <3>1. r[i] = q[i + 1] /\ (i + 1 = before <=> k = 1 /\ i + 1 = l)
      BY <1>0, <1>1, <1>a, <1>b, <2>0, <2>2
    <3>2. nxt[q[i + 1]] = IF i + 1 = before THEN q[k + 1] ELSE
                          IF i + 1 = l THEN q[1] ELSE q[i + 1 + 1]
      BY <1>2, <1>4, <2>0
    <3>3. i # l - 1 => r[i + 1] = q[i + 1 + 1]
      BY <1>a, <1>1, <2>0, <2>2
    <3>4. r[1] = IF k = 1 THEN q[k + 1] ELSE q[1]
      BY <1>a, <1>1, <2>0
    <3> QED BY <1>0, <1>1, <2>0, <3>1, <3>2, <3>3, <3>4
  <2> QED BY <2>1, <2>2
<1>6. ASSUME NEW i \in 1..(l - 1)
      PROVE  prv[r[i]] = IF i = 1 THEN r[l - 1] ELSE r[i - 1]
  <2>0. /\ i \in 1..l /\ i + 1 \in 1..l /\ (i # 1 => i - 1 \in 1..(l - 1))
        /\ l - 1 \in 1..(l - 1) /\ l - 1 + 1 = l /\ i + 1 # 1 /\ (i + 1) - 1 = i
    BY <1>0, <1>1
  <2>1. r[l - 1] = q[l]
    BY <1>0, <1>1, <1>a, <2>0
  <2>a. /\ r[i] = IF i < k THEN q[i] ELSE q[i + 1]
        /\ i # 1 => r[i - 1] = IF i - 1 < k THEN q[i - 1] ELSE q[(i - 1) + 1]
    BY <1>a, <2>0
  <2>2. CASE i < k
    <3>1. r[i] = q[i] /\ i # k + 1 /\ (i # 1 => r[i - 1] = q[i - 1])
      BY <1>1, <2>0, <2>2, <2>a
    <3> QED BY <1>2, <1>4, <2>0, <2>1, <3>1
  <2>3. CASE i = k
    <3>1. r[i] = q[k + 1] /\ (i # 1 => r[i - 1] = q[i - 1])
      BY <1>1, <2>0, <2>3, <2>a
    <3> QED BY <1>1, <1>4, <1>b, <2>1, <2>3, <3>1
  <2>4. CASE i > k
    <3>1. r[i] = q[i + 1] /\ i + 1 # k + 1 /\ i # 1 /\ r[i - 1] = q[i]
      BY <1>1, <2>0, <2>4, <2>a
    <3> QED BY <1>2, <1>4, <2>0, <3>1
  <2> QED BY <1>0, <1>1, <2>2, <2>3, <2>4
<1>7. Ring(nxt, prv, r)
  BY <1>5, <1>6 DEF Ring, Chain, l
<1> QED BY <1>3, <1>7 DEF nxt, prv

\* Split after the first k nodes: each part is a ring.
LEMMA SplitRing ==
  ASSUME NEW nx \in [Nodes -> Pointers], NEW pv \in [Nodes -> Pointers],
         NEW q \in Seq(Nodes), IsInjective(q), Ring(nx, pv, q),
         NEW k \in 1..(Len(q) - 1),
         NEW front \in Seq(Nodes), Len(front) = k, \A i \in 1..k : front[i] = q[i],
         NEW back \in Seq(Nodes), Len(back) = Len(q) - k,
         \A i \in 1..(Len(q) - k) : back[i] = q[k + i]
  PROVE  LET nxt == [nx EXCEPT ![q[Len(q)]] = q[k + 1], ![q[k]] = q[1]]
             prv == [pv EXCEPT ![q[k + 1]] = q[Len(q)], ![q[1]] = q[k]]
         IN Ring(nxt, prv, front) /\ Ring(nxt, prv, back)
<1> DEFINE l == Len(q)
           nxt == [nx EXCEPT ![q[l]] = q[k + 1], ![q[k]] = q[1]]
           prv == [pv EXCEPT ![q[k + 1]] = q[l], ![q[1]] = q[k]]
<1>0. /\ l \in Nat /\ \A i \in 1..l : q[i] \in Nodes
      /\ \A i, j \in 1..l : q[i] = q[j] => i = j
  BY SeqFacts
<1>1. l \in Nat /\ k \in Nat \ {0} /\ k < l
  BY <1>0
<1>b. k \in 1..l /\ k + 1 \in 1..l /\ 1 \in 1..l /\ l \in 1..l
  BY <1>0
<1>2. /\ \A i \in 1..l : nx[q[i]] = IF i = l THEN q[1] ELSE q[i + 1]
      /\ \A i \in 1..l : pv[q[i]] = IF i = 1 THEN q[l] ELSE q[i - 1]
  BY DEF Ring, Chain
<1>a. /\ Len(back) = l - k /\ \A i \in 1..(l - k) : back[i] = q[k + i]
      /\ Len(front) = k /\ \A i \in 1..k : front[i] = q[i]
  BY <1>0
<1> HIDE DEF l
<1>3. /\ \A i \in 1..l : nxt[q[i]] = IF i = k THEN q[1] ELSE
                                     IF i = l THEN q[k + 1] ELSE nx[q[i]]
      /\ \A i \in 1..l : prv[q[i]] = IF i = 1 THEN q[k] ELSE
                                     IF i = k + 1 THEN q[l] ELSE pv[q[i]]
  BY <1>0, <1>1, <1>b
<1> HIDE DEF nxt, prv
<1>4. ASSUME NEW i \in 1..k
      PROVE  /\ nxt[front[i]] = IF i = k THEN front[1] ELSE front[i + 1]
             /\ prv[front[i]] = IF i = 1 THEN front[k] ELSE front[i - 1]
  <2>1. /\ i \in 1..l /\ i # l /\ i # k + 1 /\ 1 \in 1..k /\ k \in 1..k
        /\ (i # k => i + 1 \in 1..k) /\ (i # 1 => i - 1 \in 1..k)
    BY <1>1
  <2> QED BY <1>2, <1>3, <1>a, <2>1
<1>5. ASSUME NEW i \in 1..(l - k)
      PROVE  /\ nxt[back[i]] = IF i = l - k THEN back[1] ELSE back[i + 1]
             /\ prv[back[i]] = IF i = 1 THEN back[l - k] ELSE back[i - 1]
  <2>1. /\ k + i \in 1..l /\ (k + i = l <=> i = l - k) /\ (k + i = k + 1 <=> i = 1)
        /\ k + i # k /\ k + i # 1 /\ 1 \in 1..(l - k) /\ l - k \in 1..(l - k)
        /\ (i # l - k => i + 1 \in 1..(l - k)) /\ (i # 1 => i - 1 \in 1..(l - k))
        /\ k + (l - k) = l /\ (k + i) + 1 = k + (i + 1) /\ (k + i) - 1 = k + (i - 1)
    BY <1>1
  <2>2. /\ back[i] = q[k + i] /\ back[1] = q[k + 1] /\ back[l - k] = q[l]
        /\ (i # l - k => back[i + 1] = q[(k + i) + 1])
        /\ (i # 1 => back[i - 1] = q[(k + i) - 1])
    BY <1>a, <2>1, Zenon
  <2> QED BY <1>2, <1>3, <2>1, <2>2
<1>6. Ring(nxt, prv, front)
  BY <1>4, <1>a, Zenon DEF Ring, Chain
<1>7. Ring(nxt, prv, back)
  BY <1>5, <1>a, Zenon DEF Ring, Chain
<1> QED BY <1>6, <1>7 DEF nxt, prv, l
-----------------------------------------------------------------------------
(* The operations.                                                         *)

\* What the invariant says of the queue.
LEMMA QueueFacts ==
  ASSUME WaiterInv
  PROVE  /\ queue \in Seq(Nodes) /\ Len(queue) \in Nat /\ (Len(queue) = 0 <=> queue = <<>>)
         /\ Range(queue) = {queue[i] : i \in 1..Len(queue)}
         /\ \A i \in 1..Len(queue) : queue[i] \in Nodes
         /\ \A i, j \in 1..Len(queue) : queue[i] = queue[j] => i = j
         /\ queue # <<>> => /\ head = queue[1] /\ head \in Nodes
                            /\ prev[head] = queue[Len(queue)]
                            /\ next[queue[Len(queue)]] = head
<1>1. queue \in Seq(Nodes) /\ IsInjective(queue)
  BY DEF WaiterInv, WaiterTypeOK, NodesAreOwned
<1>2. queue # <<>> => /\ queue[1] \in Nodes /\ prev[queue[1]] = queue[Len(queue)]
                      /\ next[queue[Len(queue)]] = queue[1]
  BY <1>1, RingFacts DEF WaiterInv
<1> QED BY <1>1, <1>2, SeqFacts DEF WaiterInv, HeadIsFirst

\* The walk goes on as long as nobody writes next_ of the nodes it has still to visit.
LEMMA WalkKeeps ==
  ASSUME WaiterInv, UNCHANGED walkVars, \A n \in Range(detached) : next'[n] = next[n]
  PROVE  WalkIsOn'
<1>1. detached \in Seq(Nodes)
  BY DEF WaiterInv, WaiterTypeOK
<1>2. \A i \in 1..Len(detached) : detached[i] \in Range(detached)
  BY <1>1, SeqFacts
<1>3. cur # Null => Chain(next', detached, this)
  BY <1>2 DEF WaiterInv, WalkIsOn, Chain
<1> QED BY <1>3 DEF WaiterInv, WalkIsOn, walkVars, Chain

\* Enqueue.
LEMMA EnqueueKeeps ==
  ASSUME WaiterInv, NEW n \in Nodes, Enqueue(n)
  PROVE  WaiterInv'
<1>1. /\ n \notin waiting /\ waiting' = waiting \cup {n} /\ queue' = Append(queue, n)
      /\ n \notin Range(queue) /\ n \notin Range(detached) /\ UNCHANGED walkVars
  BY DEF Enqueue, WaiterInv, NodesAreOwned
<1>2. queue \in Seq(Nodes) /\ IsInjective(queue)
  BY DEF WaiterInv, WaiterTypeOK, NodesAreOwned
<1>3. /\ queue' \in Seq(Nodes) /\ Len(queue') = Len(queue) + 1 /\ queue' # <<>>
      /\ queue'[Len(queue) + 1] = n /\ \A i \in 1..Len(queue) : queue'[i] = queue[i]
  BY <1>1, <1>2
<1>4. Range(queue') = Range(queue) \cup {n} /\ IsInjective(queue')
  <2>1. \A i \in 1..Len(queue) : queue[i] # n
    BY <1>1, QueueFacts
  <2> QED BY <1>3, <2>1, QueueFacts, SeqFacts
<1>5. NodesAreOwned'
  BY <1>1, <1>4 DEF WaiterInv, NodesAreOwned, walkVars
<1>6. CASE queue = <<>>
  <2>1. head' = n /\ next' = [next EXCEPT ![n] = n] /\ prev' = [prev EXCEPT ![n] = n]
    BY <1>6, WaiterQueueAssumption DEF Enqueue, WaiterInv, HeadIsFirst
  <2>2. WaiterTypeOK'
    BY <1>1, <1>3, <2>1 DEF WaiterInv, WaiterTypeOK, Pointers, walkVars
  <2>3. Len(queue') = 1 /\ queue'[1] = n
    BY <1>3, <1>6, QueueFacts
  <2>4. next'[n] = n /\ prev'[n] = n /\ \A m \in Range(detached) : next'[m] = next[m]
    BY <1>1, <2>1 DEF WaiterInv, WaiterTypeOK
  <2>5. Ring(next', prev', queue')
    BY <2>3, <2>4 DEF Ring, Chain
  <2>6. HeadIsFirst'
    BY <1>3, <2>1, <2>3 DEF HeadIsFirst
  <2> QED BY <1>1, <1>5, <2>2, <2>4, <2>5, <2>6, WalkKeeps DEF WaiterInv, Ring, Chain
<1>7. CASE queue # <<>>
  <2>0. head = queue[1] /\ head \in Nodes /\ prev[head] = queue[Len(queue)]
        /\ queue[Len(queue)] \in Nodes /\ queue[Len(queue)] \in Range(queue)
    BY <1>7, QueueFacts
  <2>1. /\ head' = head
        /\ next' = [next EXCEPT ![queue[Len(queue)]] = n, ![n] = queue[1]]
        /\ prev' = [prev EXCEPT ![queue[1]] = n, ![n] = queue[Len(queue)]]
    BY <2>0, WaiterQueueAssumption DEF Enqueue, TailOf
  <2>2. WaiterTypeOK'
    BY <1>1, <1>3, <2>0, <2>1, Zenon DEF WaiterInv, WaiterTypeOK, Pointers, walkVars
  <2>3. Ring(next', prev', queue')
    BY <1>1, <1>2, <1>7, <2>1, EnqueueRing, Zenon DEF WaiterInv, WaiterTypeOK
  <2>4. \A m \in Range(detached) : next'[m] = next[m]
    BY <1>1, <2>0, <2>1 DEF WaiterInv, WaiterTypeOK, NodesAreOwned
  <2>5. HeadIsFirst'
    BY <1>3, <1>7, <2>0, <2>1, QueueFacts DEF HeadIsFirst
  <2> QED BY <1>1, <1>5, <2>2, <2>3, <2>4, <2>5, WalkKeeps DEF WaiterInv, Ring, Chain
<1> QED BY <1>6, <1>7

\* DequeueMatching of a node of the queue, by the thread itself or by one that
\* notifies it.
LEMMA DequeueMatchingKeeps ==
  ASSUME WaiterInv, NEW n \in Range(queue), DequeueMatching(n)
  PROVE  WaiterInv'
<1>1. PICK k \in 1..Len(queue) : n = queue[k] /\ k = CHOOSE i \in DOMAIN queue : queue[i] = n
  <2>1. DOMAIN queue = 1..Len(queue)
    BY QueueFacts, SeqFacts
  <2>2. PICK k \in 1..Len(queue) : n = queue[k]
    BY QueueFacts
  <2>3. (CHOOSE i \in DOMAIN queue : queue[i] = n) = k
    BY <2>1, <2>2, QueueFacts
  <2> QED BY <2>2, <2>3
<1>2. queue' = IF k = Len(queue) THEN <<>>
               ELSE SubSeq(queue, 1, k - 1) \o SubSeq(queue, k + 1, Len(queue))
  <2>1. queue' = Without(queue, n)
    BY DEF DequeueMatching
  <2> DEFINE c == CHOOSE i \in DOMAIN queue : queue[i] = n
  <2>2. k = c
    BY <1>1
  <2>3. queue' = IF c = Len(queue) THEN <<>>
                 ELSE SubSeq(queue, 1, c - 1) \o SubSeq(queue, c + 1, Len(queue))
    BY <2>1 DEF Without
  <2> HIDE DEF c
  <2> QED BY <2>2, <2>3
<1>3. /\ waiting' = waiting \ {n} /\ UNCHANGED walkVars /\ n \notin Range(detached)
      /\ n \in Nodes /\ queue # <<>>
  <2>1. n \in Nodes /\ queue # <<>>
    BY <1>1, QueueFacts
  <2> QED BY <2>1 DEF DequeueMatching, WaiterInv, NodesAreOwned
<1>4. next[n] = head <=> k = Len(queue)
  <2>1. next[n] = IF k = Len(queue) THEN queue[1] ELSE queue[k + 1]
    BY <1>1, Zenon DEF WaiterInv, Ring, Chain
  <2>2. k # Len(queue) => queue[k + 1] # queue[1]
    BY QueueFacts
  <2> QED BY <1>3, <2>1, <2>2, QueueFacts
<1>5. CASE k = Len(queue)
  <2>1. queue' = <<>> /\ head' = Null /\ next' = next /\ prev' = prev
    BY <1>2, <1>4, <1>5 DEF DequeueMatching
  <2>2. queue' \in Seq(Nodes) /\ Len(queue') = 0 /\ Range(queue') = {} /\ IsInjective(queue')
    BY <2>1, EmptyFacts
  <2>3. WaiterTypeOK'
    BY <1>3, <2>1, <2>2 DEF WaiterInv, WaiterTypeOK, Pointers, walkVars
  <2>4. NodesAreOwned'
    BY <1>3, <2>2 DEF WaiterInv, NodesAreOwned, walkVars
  <2>5. HeadIsFirst' /\ Ring(next', prev', queue')
    BY <2>1, <2>2 DEF HeadIsFirst, Ring, Chain
  <2> QED BY <1>3, <2>1, <2>3, <2>4, <2>5, WalkKeeps DEF WaiterInv, Ring, Chain
<1>6. CASE k # Len(queue)
  <2>0. k \in 1..(Len(queue) - 1) /\ Len(queue) \in Nat /\ queue \in Seq(Nodes)
    BY <1>6, QueueFacts
  <2>1. /\ queue' \in Seq(Nodes) /\ Len(queue') = Len(queue) - 1
        /\ \A i \in 1..(Len(queue) - 1) :
             queue'[i] = IF i < k THEN queue[i] ELSE queue[i + 1]
    BY <1>2, <1>6, <2>0, JoinFacts
  <2>2. Range(queue') = Range(queue) \ {n} /\ IsInjective(queue')
    BY <1>1, <2>0, <2>1, PartRange, Zenon DEF WaiterInv, NodesAreOwned
  <2>3. /\ next[n] = queue[k + 1] /\ prev[n] \in Range(queue) /\ prev[n] \in Nodes
        /\ (n = head => k = 1 /\ TailOf(head) = prev[n])
    BY <1>1, <1>3, <1>6, QueueFacts DEF WaiterInv, Ring, Chain, TailOf
  <2>4. /\ next' = [next EXCEPT ![prev[n]] = next[n]]
        /\ prev' = [prev EXCEPT ![next[n]] = prev[n]]
        /\ head' = IF n = head THEN next[n] ELSE head
    BY <1>4, <1>6, <2>3 DEF DequeueMatching
  <2>5. WaiterTypeOK'
    BY <1>3, <2>1, <2>3, <2>4, Zenon DEF WaiterInv, WaiterTypeOK, Pointers, walkVars
  <2>6. NodesAreOwned'
    BY <1>3, <2>2 DEF WaiterInv, NodesAreOwned, walkVars
  <2>7. Ring(next', prev', queue')
    BY <1>1, <2>0, <2>1, <2>4, RemoveRing, Zenon DEF WaiterInv, WaiterTypeOK, NodesAreOwned
  <2>8. HeadIsFirst'
    <3>1. n = head <=> k = 1
      <4>1. head = queue[1] /\ 1 \in 1..Len(queue)
        BY <1>3, <2>0, QueueFacts
      <4> QED BY <1>1, <4>1, QueueFacts, Zenon
    <3>2. queue' # <<>> /\ queue'[1] = IF k = 1 THEN queue[2] ELSE queue[1]
      BY <2>0, <2>1, SeqFacts
    <3> QED BY <1>3, <2>3, <2>4, <3>1, <3>2, QueueFacts DEF HeadIsFirst
  <2>9. \A m \in Range(detached) : next'[m] = next[m]
    BY <2>3, <2>4 DEF WaiterInv, WaiterTypeOK, NodesAreOwned
  <2> QED BY <1>3, <2>5, <2>6, <2>7, <2>8, <2>9, WalkKeeps, Zenon DEF WaiterInv, Ring, Chain
<1> QED BY <1>5, <1>6

\* A timed out waiter that is on no queue leaves it as it is.
LEMMA FindNothingKeeps ==
  ASSUME WaiterInv, NEW n \in Nodes, FindNothing(n)
  PROVE  WaiterInv'
<1>1. /\ n \notin Range(queue) \cup Range(detached) /\ waiting' = waiting \ {n}
      /\ UNCHANGED <<head, next, prev, queue>> /\ UNCHANGED walkVars
  BY DEF FindNothing, ringVars
<1>2. WalkIsOn'
  BY <1>1, WalkKeeps
<1>3. WaiterTypeOK' /\ NodesAreOwned' /\ HeadIsFirst'
  BY <1>1 DEF WaiterInv, WaiterTypeOK, NodesAreOwned, HeadIsFirst, walkVars
<1> QED BY <1>1, <1>2, <1>3 DEF WaiterInv, Ring, Chain

\* A walk that begins on a ring that was detached.
LEMMA WalkBegins ==
  ASSUME WaiterInv, cur = Null, queue # <<>>,
         this' = head, cur' = head, following' = following,
         detached' \in Seq(Nodes), detached' # <<>>, detached'[1] = head,
         IsInjective(detached'), Ring(next', prev', detached')
  PROVE  WalkIsOn'
<1>1. head \in Nodes /\ head # Null /\ following = Null
  BY QueueFacts, WaiterQueueAssumption DEF WaiterInv, WalkIsOn
<1>2. Chain(next', detached', this')
  BY <1>1 DEF Ring
<1>3. \A i \in 2..Len(detached') : detached'[i] # this'
  <2>1. \A i, j \in 1..Len(detached') : detached'[i] = detached'[j] => i = j
    BY SeqFacts
  <2>2. Len(detached') \in Nat \ {0}
    BY SeqFacts
  <2> QED BY <2>1, <2>2
<1> QED BY <1>1, <1>2, <1>3 DEF WalkIsOn, Chain

\* Notify of all waiters.
LEMMA DetachAllKeeps ==
  ASSUME WaiterInv, DetachAll
  PROVE  WaiterInv'
<1>1. /\ cur = Null /\ queue # <<>> /\ this' = head /\ cur' = head /\ head' = Null
      /\ following' = following /\ detached' = queue /\ queue' = <<>>
      /\ next' = next /\ prev' = prev /\ waiting' = waiting
  BY DEF DetachAll, WaiterInv, HeadIsFirst
<1>2. queue \in Seq(Nodes) /\ IsInjective(queue) /\ detached = <<>>
  BY <1>1 DEF WaiterInv, WaiterTypeOK, NodesAreOwned, WalkIsOn
<1>3. Ring(next', prev', detached')
  BY <1>1 DEF WaiterInv, Ring, Chain
<1>4. WalkIsOn'
  BY <1>1, <1>2, <1>3, QueueFacts, WalkBegins
<1>5. WaiterTypeOK' /\ NodesAreOwned'
  BY <1>1, <1>2, EmptyFacts DEF WaiterInv, WaiterTypeOK, NodesAreOwned, Pointers
<1>6. HeadIsFirst' /\ Ring(next', prev', queue')
  BY <1>1, EmptyFacts DEF HeadIsFirst, Ring, Chain
<1> QED BY <1>4, <1>5, <1>6 DEF WaiterInv, Ring, Chain

\* Notify of some waiters.
LEMMA SplitKeeps ==
  ASSUME WaiterInv, NEW count \in Counts, Split(count)
  PROVE  WaiterInv'
<1> DEFINE l == Len(queue)
           k == AtMost(count, queue)
<1>0. count \in Nat \ {0} /\ head # Null /\ cur = Null
  BY WaiterQueueAssumption DEF Split
<1>1. queue # <<>> /\ queue \in Seq(Nodes) /\ IsInjective(queue) /\ l \in Nat \ {0}
  BY <1>0, QueueFacts DEF WaiterInv, HeadIsFirst, NodesAreOwned
<1>2. /\ this' = head /\ cur' = head /\ following' = following /\ waiting' = waiting
      /\ detached' = SubSeq(queue, 1, k) /\ queue' = SubSeq(queue, k + 1, l)
      /\ head = queue[1]
  BY <1>1, QueueFacts DEF Split
<1>3. k \in 1..l /\ k = IF count < l THEN count ELSE l
  BY <1>0, <1>1 DEF AtMost
<1>b. k \in 0..l
  BY <1>3
<1> HIDE DEF k, l
<1>4. /\ detached' \in Seq(Nodes) /\ Len(detached') = k
      /\ \A i \in 1..k : detached'[i] = queue[i]
  <2>1. LET q == SubSeq(queue, 1, k) IN
        q \in Seq(Nodes) /\ Len(q) = k /\ \A i \in 1..k : q[i] = queue[i]
    BY <1>1, <1>b, SplitFacts, Zenon DEF l
  <2> QED BY <1>2, <2>1
<1>5. /\ queue' \in Seq(Nodes) /\ Len(queue') = l - k
      /\ \A i \in 1..(l - k) : queue'[i] = queue[k + i]
  <2>1. LET q == SubSeq(queue, k + 1, l) IN
        q \in Seq(Nodes) /\ Len(q) = l - k /\ \A i \in 1..(l - k) : q[i] = queue[k + i]
    BY <1>1, <1>b, SplitFacts, Zenon DEF l
  <2> QED BY <1>2, <2>1
<1>6. NodesAreOwned'
  <2>1. /\ IsInjective(detached') /\ IsInjective(queue')
        /\ Range(detached') \cap Range(queue') = {}
        /\ Range(detached') \cup Range(queue') \subseteq Range(queue)
    BY <1>1, <1>2, <1>b, SplitFacts, Zenon DEF l
  <2> QED BY <1>2, <2>1 DEF WaiterInv, NodesAreOwned
<1>a. detached' # <<>> /\ detached'[1] = head /\ IsInjective(detached')
  <2>1. k # 0 /\ 1 \in 1..k
    BY <1>3
  <2> QED BY <1>2, <1>4, <1>6, <2>1, SeqFacts, Zenon DEF NodesAreOwned
<1>7. \A i \in 0..l : Follow(head, i) = IF i = l THEN queue[1] ELSE queue[i + 1]
  BY <1>1, <1>2, FollowFacts DEF WaiterInv, Ring, l
<1>8. CASE count < l
  <2>1. \A i \in 1..count : Follow(head, i) # head
    BY <1>0, <1>1, <1>2, <1>7, <1>8, QueueFacts DEF l
  <2>2. Follow(head, count) = queue[k + 1] /\ k \in 1..(l - 1)
    BY <1>0, <1>1, <1>3, <1>7, <1>8
  <2>3. prev[queue[k + 1]] = queue[k] /\ TailOf(head) = queue[l]
    BY <1>1, <1>2, <1>3, <2>2, QueueFacts, RingFacts DEF WaiterInv, TailOf, l
  <2>4. /\ head' = queue[k + 1]
        /\ next' = [next EXCEPT ![queue[l]] = queue[k + 1], ![queue[k]] = queue[1]]
        /\ prev' = [prev EXCEPT ![queue[k + 1]] = queue[l], ![queue[1]] = queue[k]]
    BY <1>2, <2>1, <2>2, <2>3 DEF Split
  <2>5. Ring(next', prev', detached') /\ Ring(next', prev', queue')
    BY <1>1, <1>4, <1>5, <2>2, <2>4, SplitRing, Zenon DEF WaiterInv, WaiterTypeOK, l
  <2>6. \A i \in {1, k, k + 1, l} : queue[i] \in Nodes
    BY <1>1, <2>2, QueueFacts DEF l
  <2>7. WaiterTypeOK'
    BY <1>2, <1>4, <1>5, <2>4, <2>6, Zenon DEF WaiterInv, WaiterTypeOK, Pointers
  <2>8. HeadIsFirst'
    BY <1>1, <1>5, <2>2, <2>4, SeqFacts DEF HeadIsFirst
  <2>9. WalkIsOn'
    BY <1>0, <1>1, <1>2, <1>4, <1>a, <2>5, WalkBegins
  <2> QED BY <1>6, <2>5, <2>7, <2>8, <2>9 DEF WaiterInv, Ring, Chain
<1>9. CASE ~(count < l)
  <2>1. \E i \in 1..count : Follow(head, i) = head
    <3>1. l \in 1..count /\ l \in 0..l
      BY <1>0, <1>1, <1>9
    <3> QED BY <1>2, <1>7, <3>1
  <2>2. head' = Null /\ next' = next /\ prev' = prev
    BY <2>1 DEF Split
  <2>3. k = l /\ queue' = <<>>
    BY <1>1, <1>3, <1>5, <1>9, SeqFacts
  <2>4. Ring(next', prev', detached')
    BY <1>3, <1>4, <2>2, <2>3 DEF WaiterInv, Ring, Chain, l
  <2>5. Ring(next', prev', queue') /\ HeadIsFirst'
    BY <2>2, <2>3, EmptyFacts DEF HeadIsFirst, Ring, Chain
  <2>6. WaiterTypeOK'
    BY <1>2, <1>4, <1>5, <2>2, QueueFacts, Zenon DEF WaiterInv, WaiterTypeOK, Pointers
  <2>7. WalkIsOn'
    BY <1>0, <1>1, <1>2, <1>4, <1>a, <2>4, WalkBegins
  <2> QED BY <1>6, <2>4, <2>5, <2>6, <2>7 DEF WaiterInv, Ring, Chain
<1> QED BY <1>8, <1>9

\* One round of NotifyAllInList, up to the wake-up.
LEMMA NotifyInListKeeps ==
  ASSUME WaiterInv, NotifyInList
  PROVE  WaiterInv'
<1> DEFINE l == Len(detached)
<1>1. /\ cur # Null /\ following = Null /\ following' = next[cur]
      /\ waiting' = waiting \ {cur} /\ detached' = SubSeq(detached, 2, l)
      /\ UNCHANGED <<head, next, prev, queue, this, cur>>
  BY DEF NotifyInList, ringVars
<1>2. /\ detached \in Seq(Nodes) /\ detached # <<>> /\ detached[1] = cur
      /\ this \in Nodes /\ IsInjective(detached)
      /\ \A i \in 1..l : next[detached[i]] = IF i = l THEN this ELSE detached[i + 1]
      /\ \A i \in 2..l : detached[i] # this
  BY <1>1 DEF WaiterInv, WaiterTypeOK, WalkIsOn, NodesAreOwned, Chain, Pointers
<1>3. /\ l \in Nat \ {0} /\ \A i \in 1..l : detached[i] \in Nodes
      /\ \A i, j \in 1..l : detached[i] = detached[j] => i = j
      /\ Range(detached) = {detached[i] : i \in 1..l}
  BY <1>2, SeqFacts
<1> HIDE DEF l
<1>4. /\ detached' \in Seq(Nodes) /\ Len(detached') = l - 1
      /\ \A i \in 1..(l - 1) : detached'[i] = detached[i + 1]
  <2>1. 2 \in 1..(l + 1) /\ l \in 0..l /\ 2 <= l + 1 /\ l - 2 + 1 = l - 1
    BY <1>3
  <2>2. /\ detached' \in Seq(Nodes) /\ Len(detached') = l - 2 + 1
        /\ \A i \in 1..(l - 2 + 1) : detached'[i] = detached[2 + i - 1]
    BY <1>1, <1>2, <2>1, PartFacts, Zenon DEF l
  <2>3. \A i \in 1..(l - 1) : 2 + i - 1 = i + 1
    OBVIOUS
  <2> QED BY <2>1, <2>2, <2>3
<1>5. /\ Range(detached') = {detached'[i] : i \in 1..(l - 1)}
      /\ detached' = <<>> <=> l = 1
  BY <1>3, <1>4, SeqFacts
<1>6. IsInjective(detached')
  BY <1>3, <1>4, SeqFacts
<1>7. Range(detached') \subseteq Range(detached) \ {cur} /\ this \notin Range(detached')
  BY <1>2, <1>3, <1>4, <1>5
<1>8. following' = IF l = 1 THEN this ELSE detached'[1]
  BY <1>1, <1>2, <1>3, <1>4
<1>9. following' \in Nodes
  BY <1>2, <1>3, <1>4, <1>8
<1>10. Chain(next, detached', this)
  <2> SUFFICES ASSUME NEW i \in 1..(l - 1)
               PROVE  next[detached'[i]] = IF i = l - 1 THEN this ELSE detached'[i + 1]
    BY <1>4 DEF Chain
  <2>1. i + 1 \in 1..l /\ (i + 1 = l <=> i = l - 1) /\ (i # l - 1 => i + 1 \in 1..(l - 1))
    BY <1>3
  <2> QED BY <1>2, <1>4, <2>1
<1>11. WalkIsOn'
  BY <1>1, <1>2, <1>5, <1>7, <1>8, <1>9, <1>10, WaiterQueueAssumption,
     Zenon DEF WalkIsOn, Chain
<1>12. cur \notin Range(queue)
  BY <1>2, <1>3 DEF WaiterInv, NodesAreOwned
<1>13. NodesAreOwned'
  BY <1>1, <1>6, <1>7, <1>12 DEF WaiterInv, NodesAreOwned
<1>14. WaiterTypeOK' /\ HeadIsFirst'
  BY <1>1, <1>4, <1>9 DEF WaiterInv, WaiterTypeOK, HeadIsFirst, Pointers
<1> QED BY <1>1, <1>11, <1>13, <1>14 DEF WaiterInv, Ring, Chain

\* The step to the next node of the list.
LEMMA AdvanceKeeps ==
  ASSUME WaiterInv, Advance
  PROVE  WaiterInv'
<1>1. /\ following # Null /\ following' = Null
      /\ cur' = IF following = this THEN Null ELSE following
      /\ this' = IF following = this THEN Null ELSE this
      /\ UNCHANGED <<head, next, prev, queue, waiting, detached>>
  BY DEF Advance, NextRead, ringVars
<1>2. /\ detached \in Seq(Nodes) /\ cur # Null /\ this # Null /\ this \notin Range(detached)
      /\ following = IF detached = <<>> THEN this ELSE detached[1]
      /\ Chain(next, detached, this)
  BY <1>1 DEF WaiterInv, WaiterTypeOK, WalkIsOn
<1>3. detached # <<>> => detached[1] \in Range(detached)
  BY <1>2, SeqFacts
<1>4. following = this <=> detached = <<>>
  BY <1>2, <1>3
<1>5. \A i \in 2..Len(detached) : detached[i] # this
  BY <1>2, SeqFacts
<1>6. WalkIsOn'
  BY <1>1, <1>2, <1>4, <1>5 DEF WalkIsOn, Chain
<1>7. WaiterTypeOK' /\ NodesAreOwned' /\ HeadIsFirst'
  BY <1>1 DEF WaiterInv, WaiterTypeOK, NodesAreOwned, HeadIsFirst, Pointers
<1> QED BY <1>1, <1>6, <1>7 DEF WaiterInv, Ring, Chain
-----------------------------------------------------------------------------
\* The ring and the walk are right at first.
LEMMA WaiterInit == Init => WaiterInv
<1> SUFFICES ASSUME Init PROVE WaiterInv
  OBVIOUS
<1>1. WaiterTypeOK
  BY EmptyFacts DEF Init, WaiterTypeOK, Pointers
<1>2. NodesAreOwned /\ HeadIsFirst
  BY EmptyFacts DEF Init, NodesAreOwned, HeadIsFirst
<1>3. Ring(next, prev, queue) /\ WalkIsOn
  BY EmptyFacts DEF Init, Ring, Chain, WalkIsOn
<1> QED BY <1>1, <1>2, <1>3 DEF WaiterInv

\* Every operation keeps them right.
LEMMA WaiterStep == WaiterInv /\ [Next]_vars => WaiterInv'
<1> SUFFICES ASSUME WaiterInv, [Next]_vars PROVE WaiterInv'
  OBVIOUS
<1>1. ASSUME NEW n \in Nodes, Enqueue(n) PROVE WaiterInv'
  BY <1>1, EnqueueKeeps
<1>2. ASSUME NEW n \in Nodes, RemoveSelf(n) PROVE WaiterInv'
  BY <1>2, DequeueMatchingKeeps DEF RemoveSelf
<1>3. ASSUME NEW n \in Nodes, FindNothing(n) PROVE WaiterInv'
  BY <1>3, FindNothingKeeps
<1>4. CASE NotifyOne
  <2>1. head \in Range(queue)
    BY <1>4, QueueFacts DEF NotifyOne, WaiterInv, HeadIsFirst
  <2> QED BY <1>4, <2>1, DequeueMatchingKeeps DEF NotifyOne
<1>5. CASE DetachAll
  BY <1>5, DetachAllKeeps
<1>6. ASSUME NEW count \in Counts, Split(count) PROVE WaiterInv'
  BY <1>6, SplitKeeps
<1>7. CASE NotifyInList
  BY <1>7, NotifyInListKeeps
<1>8. CASE Advance
  BY <1>8, AdvanceKeeps
<1>9. CASE UNCHANGED vars
  BY <1>9 DEF vars, ringVars, walkVars, WaiterInv, WaiterTypeOK, NodesAreOwned,
              HeadIsFirst, WalkIsOn, Ring, Chain
<1> QED BY <1>1, <1>2, <1>3, <1>4, <1>5, <1>6, <1>7, <1>8, <1>9 DEF Next

\* The pointers of the waiter queue and the walk are right in every reachable state.
THEOREM WaiterInvariant == Spec => []WaiterInv
BY WaiterInit, WaiterStep, PTL DEF Spec

\* Following next_ from the head visits the nodes of the queue in order and comes
\* back to the head, and prev_ is the way back, whatever threads enqueue
\* themselves, time out and are notified (WaiterQueueNode::Enqueue,
\* DequeueMatching, Split).
THEOREM RingIsTheQueue == Spec => []RingMatchesQueue
<1>1. WaiterInv => RingMatchesQueue
  <2> SUFFICES ASSUME WaiterInv PROVE RingMatchesQueue
    OBVIOUS
  <2>1. head = Null <=> queue = <<>>
    BY QueueFacts, WaiterQueueAssumption DEF WaiterInv, HeadIsFirst
  <2>2. ASSUME NEW i \in DOMAIN queue
        PROVE  /\ Follow(head, i - 1) = queue[i]
               /\ LET j == (i % Len(queue)) + 1 IN
                    next[queue[i]] = queue[j] /\ prev[queue[j]] = queue[i]
    <3>1. i \in 1..Len(queue) /\ Len(queue) \in Nat \ {0} /\ queue # <<>>
      BY QueueFacts, SeqFacts
    <3>2. Follow(head, i - 1) = queue[i]
      BY <3>1, QueueFacts, FollowFacts DEF WaiterInv, Ring
    <3>3. (i % Len(queue)) + 1 = IF i = Len(queue) THEN 1 ELSE i + 1
      <4> DEFINE l == Len(queue)
      <4>1. l \in Nat \ {0} /\ i \in 1..l
        BY <3>1
      <4> HIDE DEF l
      <4>2. i % l = IF i = l THEN 0 ELSE i
        BY <4>1
      <4> QED BY <4>1, <4>2 DEF l
    <3> QED BY <3>1, <3>2, <3>3, QueueFacts, RingFacts DEF WaiterInv
  <2> QED BY <2>1, <2>2 DEF RingMatchesQueue
<1> QED BY <1>1, WaiterInvariant, PTL

\* NotifyAllInList wakes the waiters it has detached, each of them once and in
\* order, although their nodes may be used again as soon as they are woken.
THEOREM WalkIsTheList == Spec => []WalkMatchesDetached
<1>1. WaiterInv => WalkMatchesDetached
  BY DEF WaiterInv, WaiterTypeOK, WalkIsOn, WalkMatchesDetached
<1> QED BY <1>1, WaiterInvariant, PTL
=============================================================================
