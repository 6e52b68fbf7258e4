----------------------------- MODULE UpgradePathProofs -----------------------------
(***************************************************************************)
(* Proofs about UpgradePath: on every upgrade graph of any size, GetUpdates *)
(* returns the newest of the shortest paths, or none when there is none;   *)
(* and about CrossChannel, which asks it once for every channel: what      *)
(* CalculateUpgrades returns is one chain from channel to channel.         *)
(***************************************************************************)
EXTENDS UpgradePath, CrossChannel, FiniteSetTheorems, WellFoundedInduction, TLAPS

-----------------------------------------------------------------------------
(***************************************************************************)
(* Numbers and sequences.                                                  *)
(***************************************************************************)
\* A set of naturals has a least element: induction along a path by its least
\* counterexample.
LEMMA Least ==
    ASSUME NEW T \in SUBSET Nat, T # {}
    PROVE  \E x \in T : \A y \in T : x <= y
<1> DEFINE R == {ss \in Nat \X Nat : ss[1] < ss[2]}
<1>1. OpToRel(<, Nat) = R
  BY Zenon DEF OpToRel
<1>2. IsWellFoundedOn(R, Nat)
  BY <1>1, NatLessThanWellFounded, Zenon
<1>3. PICK x \in T : \A y \in T : <<y, x>> \notin R
  <2> HIDE DEF R
  <2> QED
    BY <1>2, WFMin
<1>4. ASSUME NEW y \in T PROVE x <= y
  <2>1. x \in Nat /\ y \in Nat /\ <<y, x>> \notin R
    BY <1>3
  <2> QED
    BY <2>1
<1> QED
  BY <1>4

\* Functions that agree everywhere are equal.
LEMMA Extensional ==
    ASSUME NEW S, NEW T, NEW f \in [S -> T], NEW g \in [S -> T], \A x \in S : f[x] = g[x]
    PROVE  f = g
OBVIOUS

\* What Append does.
LEMMA AppendIs ==
    ASSUME NEW p \in Seq(Node), NEW a \in Node, NEW len \in Nat, Len(p) = len
    PROVE  /\ Append(p, a) \in Seq(Node) /\ Len(Append(p, a)) = len + 1
           /\ Append(p, a) \in [1 .. len + 1 -> Node]
           /\ \A k \in 1 .. len : Append(p, a)[k] = p[k]
           /\ Append(p, a)[len + 1] = a
<1>1. Append(p, a) \in Seq(Node) /\ Len(Append(p, a)) = len + 1
  OBVIOUS
<1>2. /\ \A k \in 1 .. len : Append(p, a)[k] = p[k]
      /\ Append(p, a)[len + 1] = a
  OBVIOUS
<1>3. \A t \in Seq(Node) : t \in [1 .. Len(t) -> Node]
  OBVIOUS
<1> QED
  BY <1>1, <1>2, <1>3

\* p takes the newer version at the first step where it differs from q.
Newer(p, q) == \E k \in DOMAIN p : q[k] < p[k] /\ \A j \in 1 .. k - 1 : q[j] = p[j]

\* The order in which the search meets the paths: the shorter before the
\* longer, of one length the newer before the older.
Before(p, q) == Len(p) < Len(q) \/ (Len(p) = Len(q) /\ Newer(p, q))

\* Newer is transitive on paths of one length.
LEMMA NewerTransitive ==
    ASSUME NEW p \in Seq(Node), NEW q \in Seq(Node), NEW r \in Seq(Node),
           Len(p) = Len(q), Len(q) = Len(r), Newer(p, q), Newer(q, r)
    PROVE  Newer(p, r)
<1>1. PICK j \in 1 .. Len(p) : q[j] < p[j] /\ \A i \in 1 .. j - 1 : q[i] = p[i]
  BY DEF Newer
<1>2. PICK k \in 1 .. Len(p) : r[k] < q[k] /\ \A i \in 1 .. k - 1 : r[i] = q[i]
  BY DEF Newer
<1>3. \A i \in 1 .. Len(p) : p[i] \in Int /\ q[i] \in Int /\ r[i] \in Int
  <2>1. Node \subseteq Int
    BY GraphAssumption DEF Node
  <2>2. \A i \in 1 .. Len(p) : p[i] \in Node /\ q[i] \in Node /\ r[i] \in Node
    OBVIOUS
  <2> QED
    BY <2>1, <2>2
<1>4. CASE j <= k
  <2>1. r[j] < p[j] /\ \A i \in 1 .. j - 1 : r[i] = p[i]
    BY <1>1, <1>2, <1>3, <1>4
  <2>2. j \in DOMAIN p
    BY <1>1
  <2> QED
    BY <2>1, <2>2, Zenon DEF Newer
<1>5. CASE k < j
  <2>1. r[k] < p[k] /\ \A i \in 1 .. k - 1 : r[i] = p[i]
    BY <1>1, <1>2, <1>3, <1>5
  <2>2. k \in DOMAIN p
    BY <1>2
  <2> QED
    BY <2>1, <2>2, Zenon DEF Newer
<1> QED
  BY <1>4, <1>5

\* No path is newer than itself.
LEMMA NewerIrreflexive ==
    ASSUME NEW p \in Seq(Node)
    PROVE  ~Newer(p, p)
<1>1. \A k \in DOMAIN p : p[k] \in Int
  BY GraphAssumption DEF Node
<1> QED
  BY <1>1 DEF Newer

\* A newer path stays newer, whatever both are extended with.
LEMMA NewerAppend ==
    ASSUME NEW p \in Seq(Node), NEW q \in Seq(Node), Len(p) = Len(q), Newer(p, q),
           NEW a \in Node, NEW b \in Node
    PROVE  Newer(Append(p, a), Append(q, b))
<1>1. PICK k \in 1 .. Len(p) : q[k] < p[k] /\ \A j \in 1 .. k - 1 : q[j] = p[j]
  BY DEF Newer
<1>2. k \in DOMAIN Append(p, a)
  OBVIOUS
<1>3. \A j \in 1 .. k : Append(p, a)[j] = p[j] /\ Append(q, b)[j] = q[j]
  OBVIOUS
<1> QED
  BY <1>1, <1>2, <1>3 DEF Newer

\* Of two extensions of one path, the newer is the one with the newer version.
LEMMA NewerLast ==
    ASSUME NEW p \in Seq(Node), NEW a \in Node, NEW b \in Node, b < a
    PROVE  Newer(Append(p, a), Append(p, b))
<1>1. Len(p) + 1 \in DOMAIN Append(p, a)
  OBVIOUS
<1>2. /\ Append(p, a)[Len(p) + 1] = a /\ Append(p, b)[Len(p) + 1] = b
      /\ \A j \in 1 .. Len(p) : Append(p, a)[j] = Append(p, b)[j]
  OBVIOUS
<1> QED
  BY <1>1, <1>2 DEF Newer

-----------------------------------------------------------------------------
(***************************************************************************)
(* NewestFirst sorts.                                                      *)
(***************************************************************************)
\* NewestFirst(S) lists the versions in S, all of them, the newest first.
LEMMA Sorted ==
    ASSUME NEW S \in SUBSET Node
    PROVE  /\ NewestFirst(S) \in Seq(S)
           /\ \A n \in S : \E k \in 1 .. Len(NewestFirst(S)) : NewestFirst(S)[k] = n
           /\ \A j, k \in 1 .. Len(NewestFirst(S)) :
                  j < k => NewestFirst(S)[k] < NewestFirst(S)[j]
<1> DEFINE Above(n) == {m \in S : m > n}
           c == Cardinality(S)
           rank == [n \in S |-> Cardinality(Above(n))]
           s == [k \in 1 .. c |-> CHOOSE n \in S : Cardinality(Above(n)) = k - 1]
<1>1. IsFiniteSet(S) /\ c \in Nat
  <2>1. IsFiniteSet(Node)
    BY FS_Interval, GraphAssumption DEF Node
  <2> QED
    BY <2>1, FS_Subset, FS_CardinalityType
<1>2. \A n \in S : n \in Int
  BY DEF Node
<1>3. \A n \in S : IsFiniteSet(Above(n)) /\ Cardinality(Above(n)) \in Nat
  BY <1>1, FS_Subset, FS_CardinalityType
<1>4. ASSUME NEW m \in S, NEW n \in S, m < n
      PROVE  Cardinality(Above(n)) < Cardinality(Above(m))
  <2>1. Above(n) \in SUBSET Above(m) /\ n \in Above(m) /\ n \notin Above(n)
    BY <1>2, <1>4
  <2> HIDE DEF Above
  <2>2. Cardinality(Above(n)) <= Cardinality(Above(m)) /\ Cardinality(Above(n)) # Cardinality(Above(m))
    BY <2>1, <1>3, FS_Subset
  <2> QED
    BY <2>2, <1>3
<1>5. ASSUME NEW n \in S PROVE Cardinality(Above(n)) \in 0 .. c - 1
  <2>1. Above(n) \in SUBSET S /\ n \notin Above(n)
    BY <1>2
  <2> HIDE DEF Above
  <2>2. Cardinality(Above(n)) <= c /\ Cardinality(Above(n)) # c
    BY <2>1, <1>1, FS_Subset
  <2> QED
    BY <2>2, <1>1, <1>3
<1> HIDE DEF Above
<1>6. rank \in Injection(S, 0 .. c - 1)
  <2>1. rank \in [S -> 0 .. c - 1]
    BY <1>5
  <2>2. ASSUME NEW m \in S, NEW n \in S, rank[m] = rank[n] PROVE m = n
    <3>1. rank[m] = Cardinality(Above(m)) /\ rank[n] = Cardinality(Above(n))
      OBVIOUS
    <3>2. rank[m] \in Int /\ rank[n] \in Int
      BY <2>1, <1>1
    <3>3. ~(m < n) /\ ~(n < m)
      BY <1>4, <3>1, <3>2, <2>2
    <3> QED
      BY <3>3, <1>2
  <2> QED
    BY <2>1, <2>2 DEF Injection, IsInjective
<1>7. rank \in Surjection(S, 0 .. c - 1)
  <2>1. IsFiniteSet(0 .. c - 1) /\ Cardinality(0 .. c - 1) = c
    BY <1>1, FS_Interval
  <2> HIDE DEF rank
  <2> QED
    BY <1>6, <2>1, FS_Injection
<1>8. \A k \in 1 .. c : \E n \in S : Cardinality(Above(n)) = k - 1
  <2> TAKE k \in 1 .. c
  <2>1. k - 1 \in 0 .. c - 1
    BY <1>1
  <2>2. PICK n \in S : rank[n] = k - 1
    BY <1>7, <2>1 DEF Surjection
  <2> QED
    BY <2>2
<1>9. \A k \in 1 .. c : s[k] \in S /\ Cardinality(Above(s[k])) = k - 1
  <2> TAKE k \in 1 .. c
  <2>1. PICK n \in S : Cardinality(Above(n)) = k - 1
    BY <1>8
  <2>2. s[k] = CHOOSE m \in S : Cardinality(Above(m)) = k - 1
    OBVIOUS
  <2> QED
    BY <2>1, <2>2
<1>10. NewestFirst(S) = s
  BY DEF NewestFirst, Above
<1> HIDE DEF s, rank, c
<1>11. s \in Seq(S) /\ Len(s) = c
  BY <1>9, <1>1 DEF s
<1>12. ASSUME NEW n \in S PROVE \E k \in 1 .. Len(s) : s[k] = n
  <2>1. Cardinality(Above(n)) + 1 \in 1 .. c
    BY <1>5, <1>1
  <2>2. PICK k \in 1 .. c : k - 1 = Cardinality(Above(n))
    BY <2>1, <1>1, <1>3
  <2>3. s[k] \in S /\ Cardinality(Above(s[k])) = Cardinality(Above(n))
    BY <2>2, <1>9
  <2>4. ~(s[k] < n) /\ ~(n < s[k])
    BY <2>3, <1>4, <1>3
  <2> QED
    BY <2>3, <2>4, <1>2, <1>11
<1>13. ASSUME NEW j \in 1 .. Len(s), NEW k \in 1 .. Len(s), j < k PROVE s[k] < s[j]
  <2>1. /\ s[j] \in S /\ Cardinality(Above(s[j])) = j - 1
        /\ s[k] \in S /\ Cardinality(Above(s[k])) = k - 1
    BY <1>9, <1>11
  <2>2. ~(s[j] < s[k]) /\ s[j] # s[k]
    BY <2>1, <1>4, <1>1, <1>13, <1>11
  <2> QED
    BY <2>1, <2>2, <1>2
<1> QED
  BY <1>10, <1>11, <1>12, <1>13

-----------------------------------------------------------------------------
(***************************************************************************)
(* The inductive invariant.  best[n] is the path along the predecessors to *)
(* a visited version n: the code never holds it, so it is quantified.      *)
(***************************************************************************)
PathsTo(n, len) ==
    {p \in [1 .. len -> Node] :
        /\ p[1] = version /\ p[len] = n
        /\ \A k \in 1 .. len - 1 : <<p[k], p[k + 1]>> \in edges}

Queued == {queue[k] : k \in 1 .. Len(queue)}

TypeInv ==
    /\ edges \subseteq Node \X Node
    /\ version \in Node \cup {Unknown} /\ reqVer \in Node \cup {Unknown}
    /\ queue \in Seq(Node) /\ visited \subseteq Node
    /\ prev \in [Node -> Node \cup {NoNode}]
    /\ path \in Seq(Node)
    /\ pc = "find" => visited = {} /\ prev = [n \in Node |-> NoNode] /\ path = <<>> /\ result = "none"
    /\ pc = "search" => path = <<>>
    /\ pc \in {"search", "walk"} => result = "none"

\* The search has begun.
Begun == pc \in {"search", "walk"} \/ result = "ok"

\* The predecessors of the visited versions lead back to the start.
Trail(best) ==
    /\ version \in visited /\ best[version] = <<version>>
    /\ \A n \in visited : best[n] \in PathsTo(n, Len(best[n])) /\ Len(best[n]) >= 1
    /\ \A n \in visited \ {version} :
           /\ prev[n] \in visited
           /\ best[n] = Append(best[prev[n]], n)
    /\ \A n \in Node : prev[n] = NoNode <=> n \notin visited \/ n = version

\* No path of the same length is newer.
Optimal(best) ==
    \A n \in visited : \A p \in PathsTo(n, Len(best[n])) : p = best[n] \/ Newer(best[n], p)

\* No path is longer than there are visited versions.
Short(best) == \A n \in visited : Len(best[n]) <= Cardinality(visited)

\* The neighbours of n were visited when n was taken from the queue.
Expanded(best, n) ==
    \A m \in Neighbours(n) : m \in visited /\ Len(best[m]) <= Len(best[n]) + 1

\* The queue is in the order of the paths, after all that was taken from it.
Frontier(best) ==
    /\ Queued \subseteq visited
    /\ \A j, k \in 1 .. Len(queue) :
           /\ j < k => Before(best[queue[j]], best[queue[k]])
           /\ Len(best[queue[k]]) <= Len(best[queue[j]]) + 1
    /\ \A n \in visited \ Queued :
           /\ Expanded(best, n)
           /\ \A k \in 1 .. Len(queue) : Before(best[n], best[queue[k]])
    /\ \A n \in visited \ {version} : prev[n] \notin Queued

\* After the search every version nearer than the requested one was expanded,
\* all of them when it was not found; path is the end of the path to it.
Settled(best) ==
    /\ \A n \in visited : reqVer \notin visited \/ Len(best[n]) < Len(best[reqVer]) => Expanded(best, n)
    /\ path = <<>> <=> reqVer \notin visited
    /\ path # <<>> =>
           LET h == path[1]
           IN /\ h \in visited
              /\ Len(best[h]) + Len(path) = Len(best[reqVer]) + 1
              /\ \A k \in 1 .. Len(best[h]) : best[h][k] = best[reqVer][k]
              /\ \A k \in 1 .. Len(path) : path[k] = best[reqVer][Len(best[h]) + k - 1]
              /\ result = "ok" => h = version

SearchInv(best) ==
    /\ Trail(best) /\ Optimal(best) /\ Short(best)
    /\ pc = "search" => Frontier(best)
    /\ pc # "search" => Settled(best)

PathInv ==
    /\ TypeInv
    /\ Begun => /\ version \in Node /\ reqVer \in Node
                /\ \E best \in [Node -> Seq(Node)] : SearchInv(best)

-----------------------------------------------------------------------------
\* Along a path every version is visited, and by a path that is no longer, if
\* all versions with a shorter path than bound are expanded.
LEMMA Reach ==
    ASSUME TypeInv, NEW best \in [Node -> Seq(Node)], Trail(best), NEW bound \in Nat,
           \A n \in visited : Len(best[n]) < bound => Expanded(best, n),
           NEW len \in 1 .. bound, NEW m \in Node, NEW p \in PathsTo(m, len)
    PROVE  m \in visited /\ Len(best[m]) <= len
<1> DEFINE Bad == {k \in 1 .. len : ~(p[k] \in visited /\ Len(best[p[k]]) <= k)}
<1>1. CASE Bad = {}
  <2>1. len \in 1 .. len /\ p[len] = m
    BY DEF PathsTo
  <2> QED
    BY <1>1, <2>1
<1>2. CASE Bad # {}
  <2>1. Bad \in SUBSET Nat
    OBVIOUS
  <2> HIDE DEF Bad
  <2>2. PICK k \in Bad : \A j \in Bad : k <= j
    BY <1>2, <2>1, Least
  <2> USE DEF Bad
  <2>3. k \in 1 .. len /\ ~(p[k] \in visited /\ Len(best[p[k]]) <= k)
    OBVIOUS
  <2>4. k # 1
    <3>1. p[1] = version /\ version \in visited /\ Len(best[version]) = 1
      BY DEF PathsTo, Trail
    <3>2. p[1] \in visited /\ Len(best[p[1]]) <= 1
      BY <3>1
    <3> QED
      BY <2>3, <3>2
  <2>5. k - 1 \in 1 .. len - 1 /\ k - 1 \in 1 .. len /\ k - 1 \notin Bad
    BY <2>2, <2>3, <2>4
  <2>6. p[k - 1] \in visited /\ Len(best[p[k - 1]]) <= k - 1
    BY <2>5
  <2>7. p[k] \in Neighbours(p[k - 1])
    <3>1. p \in [1 .. len -> Node] /\ <<p[k - 1], p[(k - 1) + 1]>> \in edges
      BY <2>5 DEF PathsTo
    <3>2. (k - 1) + 1 = k
      BY <2>3
    <3> QED
      BY <3>1, <3>2, <2>3 DEF Neighbours
  <2>8. Len(best[p[k - 1]]) < bound /\ Len(best[p[k - 1]]) \in Nat
    <3>1. p[k - 1] \in Node
      BY <2>6 DEF TypeInv
    <3> QED
      BY <3>1, <2>6, <2>3
  <2>9. p[k] \in visited /\ Len(best[p[k]]) <= Len(best[p[k - 1]]) + 1
    BY <2>6, <2>7, <2>8 DEF Expanded
  <2>10. Len(best[p[k]]) \in Nat
    BY <2>9 DEF TypeInv
  <2> QED
    BY <2>3, <2>6, <2>8, <2>9, <2>10
<1> QED
  BY <1>1, <1>2

\* The search starts with the start alone.
LEMMA StartStep ==
    ASSUME PathInv, FindVersions
    PROVE  PathInv'
<1> USE DEF FindVersions, graph
<1>1. TypeInv'
  BY DEF PathInv, TypeInv
<1> DEFINE best == [n \in Node |-> <<version>>]
<1>2. best \in [Node -> Seq(Node)]
  OBVIOUS
<1>3. Trail(best)'
  <2>1. <<version>> \in PathsTo(version, 1)'
    BY DEF PathsTo
  <2>2. Len(<<version>>) = 1 /\ visited' = {version} /\ best[version] = <<version>> /\ version' = version
    OBVIOUS
  <2>3. \A n \in Node : prev'[n] = NoNode
    BY DEF PathInv, TypeInv
  <2> QED
    BY <2>1, <2>2, <2>3 DEF Trail
<1>4. Optimal(best)'
  <2> SUFFICES ASSUME NEW p \in PathsTo(version, 1)' PROVE p = <<version>>
    BY DEF Optimal
  <2>1. p \in [1 .. 1 -> Node] /\ p[1] = version
    BY DEF PathsTo
  <2> QED
    BY <2>1
<1>5. Frontier(best)'
  <2>1. Queued' = {version} /\ queue' = <<version>> /\ visited' = {version}
    BY DEF Queued
  <2>2. Len(best[version]) \in Nat
    OBVIOUS
  <2> HIDE DEF best
  <2> QED
    BY <2>1, <2>2 DEF Frontier
<1>6. Short(best)'
  <2>1. visited' = {version} /\ Cardinality({version}) = 1 /\ best[version] = <<version>>
    BY FS_Singleton
  <2>2. Len(<<version>>) = 1
    OBVIOUS
  <2>3. \A n \in visited' : Len(best[n]) <= Cardinality(visited')
    BY <2>1, <2>2
  <2>4. version' = version
    OBVIOUS
  <2> QED
    BY <2>3, <2>4, Zenon DEF Short
<1> QED
  BY <1>1, <1>2, <1>3, <1>4, <1>5, <1>6 DEF PathInv, Begun, SearchInv

\* Two sequences one after the other.
LEMMA Joined ==
    ASSUME NEW S, NEW p \in Seq(S), NEW q \in Seq(S)
    PROVE  /\ p \o q \in Seq(S) /\ Len(p) \in Nat /\ Len(q) \in Nat
           /\ Len(p \o q) = Len(p) + Len(q)
           /\ \A k \in 1 .. Len(p) : (p \o q)[k] = p[k]
           /\ \A k \in 1 .. Len(q) : (p \o q)[Len(p) + k] = q[k]
<1>1. p \o q \in Seq(S) /\ Len(p) \in Nat /\ Len(q) \in Nat /\ Len(p \o q) = Len(p) + Len(q)
  OBVIOUS
<1>2. \A k \in 1 .. Len(p) : (p \o q)[k] = p[k]
  OBVIOUS
<1>3. \A k \in 1 .. Len(q) : (p \o q)[Len(p) + k] = q[k]
  <2> TAKE k \in 1 .. Len(q)
  <2>1. Len(p) + k \in 1 .. Len(p) + Len(q) /\ Len(p) + k > Len(p) /\ Len(p) + k - Len(p) = k
    BY <1>1
  <2> QED
    BY <2>1
<1> QED
  BY <1>1, <1>2, <1>3

\* What the search adds to the queue: the fresh neighbours of its head, sorted.
LEMMA QueueAfter ==
    ASSUME TypeInv, Visit
    PROVE  LET s == NewestFirst(Fresh(Head(queue)))
           IN /\ Head(queue) = queue[1] /\ queue[1] \in Node /\ Len(queue) >= 1
              /\ queue' \in Seq(Node) /\ Len(queue') = Len(queue) - 1 + Len(s)
              /\ s \in Seq(Fresh(Head(queue)))
              /\ \A k \in 1 .. Len(queue) - 1 : queue'[k] = queue[k + 1]
              /\ \A k \in 1 .. Len(s) : queue'[Len(queue) - 1 + k] = s[k]
<1> DEFINE F == Fresh(Head(queue))
           s == NewestFirst(F)
<1>1. F \in SUBSET Node
  BY DEF Fresh, Neighbours
<1>2. s \in Seq(F) /\ s \in Seq(Node)
  BY <1>1, Sorted
<1>3. queue \in Seq(Node) /\ queue # <<>> /\ queue' = Tail(queue) \o s
  BY DEF TypeInv, Visit, Enqueue
<1> HIDE DEF s, F
<1>4. /\ Head(queue) = queue[1] /\ queue[1] \in Node /\ Len(queue) \in Nat /\ Len(queue) >= 1
      /\ Tail(queue) \in Seq(Node) /\ Len(Tail(queue)) = Len(queue) - 1
      /\ \A k \in 1 .. Len(queue) - 1 : Tail(queue)[k] = queue[k + 1]
  BY <1>3
<1>5. /\ Tail(queue) \o s \in Seq(Node) /\ Len(s) \in Nat
      /\ Len(Tail(queue) \o s) = Len(Tail(queue)) + Len(s)
      /\ \A k \in 1 .. Len(Tail(queue)) : (Tail(queue) \o s)[k] = Tail(queue)[k]
      /\ \A k \in 1 .. Len(s) : (Tail(queue) \o s)[Len(Tail(queue)) + k] = s[k]
  BY <1>2, <1>4, Joined
<1>6. /\ queue' \in Seq(Node) /\ Len(queue') = Len(queue) - 1 + Len(s)
      /\ \A k \in 1 .. Len(queue) - 1 : queue'[k] = queue[k + 1]
      /\ \A k \in 1 .. Len(s) : queue'[Len(queue) - 1 + k] = s[k]
  BY <1>3, <1>4, <1>5
<1> QED
  BY <1>2, <1>4, <1>6 DEF s, F

\* The versions are finitely many.
LEMMA VisitedFinite ==
    ASSUME NEW S \in SUBSET Node
    PROVE  IsFiniteSet(S) /\ Cardinality(S) \in Nat /\ Cardinality(S) <= Nodes
<1>1. IsFiniteSet(Node) /\ Cardinality(Node) = Nodes
  <2>1. /\ IsFiniteSet(0 .. Nodes - 1)
        /\ Cardinality(0 .. Nodes - 1) = IF 0 > Nodes - 1 THEN 0 ELSE (Nodes - 1) - 0 + 1
    BY FS_Interval, GraphAssumption
  <2> QED
    BY <2>1, GraphAssumption DEF Node
<1> QED
  BY <1>1, FS_Subset, FS_CardinalityType

\* One step of the search keeps the trail, the order of the queue and the
\* choice of the newest paths.
LEMMA VisitStep ==
    ASSUME TypeInv, pc = "search", version \in Node, reqVer \in Node,
           NEW best \in [Node -> Seq(Node)], Trail(best), Optimal(best), Short(best),
           Frontier(best), Visit
    PROVE  \E b \in [Node -> Seq(Node)] : Trail(b)' /\ Optimal(b)' /\ Short(b)' /\ Frontier(b)'
<1> DEFINE n == queue[1]
           F == Fresh(n)
           s == NewestFirst(F)
           L == Len(best[n])
<1>1. /\ Head(queue) = n /\ n \in Node /\ Len(queue) \in Nat /\ Len(queue) >= 1
      /\ queue' \in Seq(Node) /\ Len(queue') = Len(queue) - 1 + Len(s)
      /\ \A k \in 1 .. Len(queue) - 1 : queue'[k] = queue[k + 1]
      /\ \A k \in 1 .. Len(s) : queue'[Len(queue) - 1 + k] = s[k]
  BY QueueAfter DEF TypeInv
<1>2. F \in SUBSET Node /\ F \cap visited = {} /\ \A m \in F : <<n, m>> \in edges
  BY DEF Fresh, Neighbours
<1>3. /\ s \in Seq(F) /\ Len(s) \in Nat
      /\ \A m \in F : \E k \in 1 .. Len(s) : s[k] = m
      /\ \A j, k \in 1 .. Len(s) : j < k => s[k] < s[j]
  <2> HIDE DEF F
  <2>1. /\ s \in Seq(F)
        /\ \A m \in F : \E k \in 1 .. Len(s) : s[k] = m
        /\ \A j, k \in 1 .. Len(s) : j < k => s[k] < s[j]
    BY <1>2, Sorted, Zenon
  <2> HIDE DEF s
  <2> QED
    BY <2>1
<1>4. /\ visited' = visited \cup F /\ UNCHANGED <<edges, version, reqVer, pc>>
      /\ prev' = [m \in Node |-> IF m \in F THEN n ELSE prev[m]]
  BY <1>1 DEF Visit, graph
<1> HIDE DEF s, F
<1>5. n \in visited /\ n \notin F /\ n \in Queued /\ Queued \subseteq visited
  BY <1>1, <1>2 DEF Frontier, Queued
<1>6. /\ L \in Nat /\ L >= 1 /\ best[n] \in Seq(Node)
      /\ visited \subseteq Node /\ \A m \in visited : Len(best[m]) \in Nat /\ best[m] \in Seq(Node)
  BY <1>1, <1>5 DEF Trail, TypeInv
<1>8. PICK b \in [Node -> Seq(Node)] :
           b = [m \in Node |-> IF m \in F THEN Append(best[n], m) ELSE best[m]]
  <2>1. [m \in Node |-> IF m \in F THEN Append(best[n], m) ELSE best[m]] \in [Node -> Seq(Node)]
    BY <1>6
  <2> QED
    BY <2>1
<1>7. /\ \A m \in visited : b[m] = best[m]
      /\ \A m \in F : b[m] = Append(best[n], m) /\ Len(b[m]) = L + 1
  BY <1>2, <1>6, <1>8
<1>9. version \notin F
  BY <1>2 DEF Trail
<1>10. /\ \A k \in 1 .. Len(queue) : queue[k] \in visited /\ L <= Len(best[queue[k]]) /\ Len(best[queue[k]]) <= L + 1
       /\ \A k \in 2 .. Len(queue) : Before(best[n], best[queue[k]]) /\ queue[k] # n
       /\ \A m \in visited \ Queued : Expanded(best, m) /\ Before(best[m], best[n])
  <2>1. \A k \in 1 .. Len(queue) : queue[k] \in visited /\ Len(best[queue[k]]) <= L + 1
    BY <1>1 DEF Frontier, Queued
  <2>2. \A k \in 2 .. Len(queue) : Before(best[n], best[queue[k]])
    BY <1>1 DEF Frontier
  <2>3. ~Before(best[n], best[n])
    BY <1>6, NewerIrreflexive DEF Before
  <2>4. \A k \in 2 .. Len(queue) : queue[k] # n
    BY <2>2, <2>3
  <2>5. ASSUME NEW k \in 2 .. Len(queue) PROVE L <= Len(best[queue[k]])
    <3>1. k \in 1 .. Len(queue) /\ Before(best[n], best[queue[k]])
      BY <2>2, <1>1
    <3>2. Len(best[queue[k]]) \in Nat
      BY <3>1, <2>1, <1>6
    <3>3. L < Len(best[queue[k]]) \/ L = Len(best[queue[k]])
      BY <3>1 DEF Before, L
    <3>4. L \in Nat
      BY <1>6
    <3> QED
      BY <3>2, <3>3, <3>4
  <2>6. \A m \in visited \ Queued : Expanded(best, m) /\ Before(best[m], best[n])
    BY <1>1 DEF Frontier
  <2>7. \A k \in 1 .. Len(queue) : L <= Len(best[queue[k]])
    BY <2>5, <1>1, <1>6
  <2> QED
    BY <2>1, <2>2, <2>4, <2>6, <2>7
<1>11. Queued' = (Queued \ {n}) \cup F
  <2>1. ASSUME NEW x \in Queued' PROVE x \in (Queued \ {n}) \cup F
    <3>1. PICK k \in 1 .. Len(queue') : x = queue'[k]
      BY <2>1 DEF Queued
    <3>2. CASE k <= Len(queue) - 1
      <4>1. k \in Int /\ 1 <= k /\ k <= Len(queue) - 1 /\ Len(queue) \in Nat
        BY <1>1, <1>3, <3>2
      <4>2. k \in 1 .. Len(queue) - 1 /\ k + 1 \in 2 .. Len(queue) /\ k + 1 \in 1 .. Len(queue)
        BY <4>1
      <4>3. x = queue[k + 1]
        BY <4>2, <1>1, <3>1
      <4>4. queue[k + 1] # n
        BY <4>2, <1>10
      <4> QED
        BY <4>2, <4>3, <4>4, Zenon DEF Queued
    <3>3. CASE k > Len(queue) - 1
      <4> DEFINE j == k - (Len(queue) - 1)
      <4>1. j \in 1 .. Len(s) /\ k = Len(queue) - 1 + j
        BY <1>1, <1>3, <3>3
      <4> HIDE DEF j
      <4>2. x = s[j]
        BY <4>1, <3>1, <1>1
      <4> QED
        BY <4>1, <4>2, <1>3
    <3> QED
      BY <3>2, <3>3, <1>1
  <2>2. ASSUME NEW x \in Queued, x # n PROVE x \in Queued'
    <3>1. PICK k \in 1 .. Len(queue) : x = queue[k]
      BY <2>2 DEF Queued
    <3>2. k - 1 \in 1 .. Len(queue) - 1 /\ k - 1 \in 1 .. Len(queue') /\ (k - 1) + 1 = k
      BY <3>1, <2>2, <1>1, <1>3
    <3>3. queue'[k - 1] = x
      BY <3>1, <3>2, <1>1
    <3> QED
      BY <3>2, <3>3 DEF Queued
  <2>3. ASSUME NEW x \in F PROVE x \in Queued'
    <3>1. PICK k \in 1 .. Len(s) : s[k] = x
      BY <1>3
    <3>2. Len(queue) - 1 + k \in 1 .. Len(queue')
      BY <1>1, <1>3
    <3>3. queue'[Len(queue) - 1 + k] = x
      BY <3>1, <1>1
    <3> QED
      BY <3>2, <3>3 DEF Queued
  <2> QED
    BY <2>1, <2>2, <2>3
<1>12. ASSUME NEW m \in visited \ Queued PROVE Len(best[m]) <= L
  <2>1. Before(best[m], best[n]) /\ Len(best[m]) \in Nat
    BY <1>6, <1>10
  <2>2. L \in Nat /\ (Len(best[m]) < L \/ Len(best[m]) = L)
    BY <2>1, <1>6, Zenon DEF Before
  <2> HIDE DEF L
  <2> QED
    BY <2>1, <2>2
<1> HIDE DEF L, n
<1>20. Trail(b)'
  <2>1. version \in visited' /\ b[version] = <<version>>
    BY <1>4, <1>7 DEF Trail
  <2>2. ASSUME NEW m \in visited' PROVE b[m] \in PathsTo(m, Len(b[m]))' /\ Len(b[m]) >= 1
    <3>1. CASE m \in visited
      BY <3>1, <1>4, <1>7 DEF Trail, PathsTo
    <3>2. CASE m \in F
      <4>1. best[n] \in PathsTo(n, L)
        BY <1>5 DEF Trail, L
      <4>2. /\ b[m] = Append(best[n], m) /\ Len(b[m]) = L + 1
            /\ Append(best[n], m) \in [1 .. L + 1 -> Node]
            /\ \A k \in 1 .. L : Append(best[n], m)[k] = best[n][k]
            /\ Append(best[n], m)[L + 1] = m
        <5>1. m \in Node /\ b[m] = Append(best[n], m) /\ Len(b[m]) = L + 1 /\ L = Len(best[n])
          BY <3>2, <1>2, <1>7 DEF L
        <5>2. best[n] \in Seq(Node) /\ L \in Nat
          BY <1>6
        <5>3. b[m] \in [1 .. L + 1 -> Node]
          <6>1. b[m] \in Seq(Node)
            BY <5>1
          <6>2. \A t \in Seq(Node) : t \in [1 .. Len(t) -> Node]
            OBVIOUS
          <6> QED
            BY <5>1, <6>1, <6>2, Zenon
        <5>4. PICK q \in Seq(Node) : q = best[n]
          BY <5>2
        <5>5. Len(q) = L
          BY <5>1, <5>4
        <5>6. \A k \in 1 .. L : Append(q, m)[k] = q[k]
          BY <5>1, <5>5
        <5>7. Append(q, m)[L + 1] = m
          BY <5>1, <5>5
        <5> QED
          BY <5>1, <5>3, <5>4, <5>6, <5>7, Zenon
      <4>3. best[n][1] = version /\ best[n][L] = n
            /\ \A k \in 1 .. L - 1 : <<best[n][k], best[n][k + 1]>> \in edges
        BY <4>1 DEF PathsTo
      <4>4. ASSUME NEW k \in 1 .. L PROVE <<b[m][k], b[m][k + 1]>> \in edges
        <5>1. CASE k = L
          BY <5>1, <4>2, <4>3, <3>2, <1>2, <1>6
        <5>2. CASE k # L
          <6>1. k \in 1 .. L - 1 /\ k + 1 \in 1 .. L
            BY <5>2, <1>6
          <6>2. b[m][k] = best[n][k] /\ b[m][k + 1] = best[n][k + 1]
            BY <6>1, <4>2
          <6> QED
            BY <6>1, <6>2, <4>3
        <5> QED
          BY <5>1, <5>2
      <4>5. b[m][1] = version /\ b[m][L + 1] = m /\ L + 1 - 1 = L /\ L + 1 >= 1
        BY <4>2, <4>3, <1>6
      <4>6. b[m] \in PathsTo(m, Len(b[m]))
        <5> DEFINE len == Len(b[m])
        <5>1. len = L + 1 /\ 1 .. len - 1 = 1 .. L
          BY <4>2, <1>6
        <5> HIDE DEF len
        <5>2. /\ b[m] \in [1 .. len -> Node] /\ b[m][1] = version /\ b[m][len] = m
              /\ \A k \in 1 .. len - 1 : <<b[m][k], b[m][k + 1]>> \in edges
          BY <5>1, <4>2, <4>4, <4>5
        <5> QED
          BY <5>2 DEF PathsTo, len
      <4>7. \A len : PathsTo(m, len)' = PathsTo(m, len)
        BY <1>4 DEF PathsTo
      <4> QED
        BY <4>2, <4>5, <4>6, <4>7
    <3> QED
      BY <3>1, <3>2, <1>4
  <2>3. ASSUME NEW m \in visited' \ {version}
        PROVE  prev'[m] \in visited' /\ b[m] = Append(b[prev'[m]], m)
    <3>1. CASE m \in visited
      <4>1. prev'[m] = prev[m] /\ prev[m] \in visited /\ best[m] = Append(best[prev[m]], m)
        BY <3>1, <2>3, <1>2, <1>4, <1>6 DEF Trail
      <4>2. b[prev[m]] = best[prev[m]] /\ b[m] = best[m] /\ prev[m] \in visited'
        BY <4>1, <3>1, <1>4, <1>7
      <4> QED
        BY <4>1, <4>2
    <3>2. CASE m \in F
      <4>1. prev'[m] = n
        BY <3>2, <1>2, <1>4
      <4> QED
        BY <4>1, <3>2, <1>4, <1>5, <1>7
    <3> QED
      BY <3>1, <3>2, <1>4
  <2>4. ASSUME NEW m \in Node
        PROVE  prev'[m] = NoNode <=> m \notin visited' \/ m = version
    <3>1. n # NoNode
      BY <1>1, GraphAssumption DEF Node, NoNode
    <3>2. prev'[m] = IF m \in F THEN n ELSE prev[m]
      BY <1>4
    <3>3. prev[m] = NoNode <=> m \notin visited \/ m = version
      BY DEF Trail
    <3> QED
      BY <3>1, <3>2, <3>3, <1>4, <1>9
  <2> QED
    BY <2>1, <2>2, <2>3, <2>4, <1>4 DEF Trail
<1>21. Optimal(b)'
  <2> SUFFICES ASSUME NEW m \in visited', NEW p \in PathsTo(m, Len(b[m]))'
               PROVE  p = b[m] \/ Newer(b[m], p)
    BY DEF Optimal
  <2>1. CASE m \in visited
    BY <2>1, <1>4, <1>7 DEF Optimal, PathsTo
  <2>2. CASE m \in F
    <3> DEFINE q == [k \in 1 .. L |-> p[k]]
               u == p[L]
    <3>1. /\ p \in [1 .. L + 1 -> Node] /\ p[1] = version /\ p[L + 1] = m
          /\ \A k \in 1 .. L : <<p[k], p[k + 1]>> \in edges
      <4> DEFINE len == Len(b[m])
      <4>1. len = L + 1 /\ 1 .. len - 1 = 1 .. L
        BY <2>2, <1>7, <1>6
      <4>2. p \in PathsTo(m, len)
        BY <1>4 DEF PathsTo
      <4> HIDE DEF len
      <4>3. /\ p \in [1 .. len -> Node] /\ p[1] = version /\ p[len] = m
            /\ \A k \in 1 .. len - 1 : <<p[k], p[k + 1]>> \in edges
        BY <4>2 DEF PathsTo
      <4> QED
        BY <4>1, <4>3
    <3>2. q \in PathsTo(u, L) /\ u \in Node
      <4>1. q \in [1 .. L -> Node] /\ u \in Node /\ q[1] = version /\ q[L] = u
        BY <3>1, <1>6
      <4>2. ASSUME NEW k \in 1 .. L - 1 PROVE <<q[k], q[k + 1]>> \in edges
        <5>1. k \in 1 .. L /\ k + 1 \in 1 .. L
          BY <1>6
        <5>2. q[k] = p[k] /\ q[k + 1] = p[k + 1]
          BY <5>1
        <5> QED
          BY <5>1, <5>2, <3>1
      <4> HIDE DEF q, u
      <4> QED
        BY <4>1, <4>2 DEF PathsTo
    <3>3. q \in Seq(Node) /\ Len(q) = L /\ p = Append(q, m)
      <4>1. q \in Seq(Node) /\ Len(q) = L
        BY <3>1, <1>6
      <4>2. Append(q, m) \in [1 .. L + 1 -> Node]
        <5> HIDE DEF q
        <5> QED
          BY <4>1, <2>2, <1>2, <1>6, AppendIs
      <4>3. \A k \in 1 .. L + 1 : Append(q, m)[k] = p[k]
        BY <4>1, <3>1, <1>6
      <4> HIDE DEF q
      <4>4. p = Append(q, m)
        <5> DEFINE r == Append(q, m)
                   D == 1 .. L + 1
        <5>1. r \in [D -> Node] /\ p \in [D -> Node] /\ \A k \in D : r[k] = p[k]
          BY <4>2, <4>3, <3>1
        <5> HIDE DEF r, D
        <5>2. p = r
          BY <5>1, Extensional
        <5> QED
          BY <5>2 DEF r
      <4> QED
        BY <4>1, <4>4
    <3> HIDE DEF q
    <3>4. \A x \in visited : Len(best[x]) < L => Expanded(best, x)
      <4> SUFFICES ASSUME NEW x \in visited, Len(best[x]) < L PROVE x \notin Queued
        BY <1>10
      <4>1. \A k \in 1 .. Len(queue) : ~(Len(best[queue[k]]) < L)
        BY <1>10, <1>6
      <4> QED
        BY <4>1 DEF Queued
    <3>5. u \in visited /\ Len(best[u]) <= L
      <4>1. L \in 1 .. L
        BY <1>6
      <4> HIDE DEF u
      <4> QED
        BY <3>2, <3>4, <4>1, <1>6, Reach
    <3>6. u \in Queued
      <4>1. m \in Neighbours(u) /\ m \notin visited
        BY <3>1, <1>2, <1>6, <2>2 DEF Neighbours
      <4> QED
        BY <4>1, <3>5, <1>10 DEF Expanded
    <3>7. PICK k \in 1 .. Len(queue) : u = queue[k]
      BY <3>6 DEF Queued
    <3>8. Len(best[u]) = L /\ best[u] \in Seq(Node)
      BY <3>5, <3>7, <1>10, <1>6
    <3>9. q = best[u] \/ Newer(best[u], q)
      BY <3>2, <3>5, <3>8 DEF Optimal
    <3>10. q = best[n] \/ Newer(best[n], q)
      <4>1. CASE u = n
        BY <4>1, <3>9
      <4>2. CASE u # n
        <5>1. k \in 2 .. Len(queue)
          BY <4>2, <3>7, <1>1 DEF n
        <5>2. Newer(best[n], best[u])
          BY <5>1, <3>7, <3>8, <1>10, <1>6 DEF Before, L
        <5> QED
          BY <5>2, <3>9, <3>8, <3>3, <1>6, NewerTransitive DEF L
      <4> QED
        BY <4>1, <4>2
    <3>11. m \in Node /\ b[m] = Append(best[n], m) /\ Len(best[n]) = L
      BY <2>2, <1>2, <1>7 DEF L
    <3> QED
      BY <3>3, <3>10, <3>11, <1>6, NewerAppend
  <2> QED
    BY <2>1, <2>2, <1>4
<1>22. Frontier(b)'
  <2>1. \A k \in 1 .. Len(queue') :
            \/ k \in 1 .. Len(queue) - 1 /\ k + 1 \in 2 .. Len(queue) /\ queue'[k] = queue[k + 1]
            \/ \E i \in 1 .. Len(s) : k = Len(queue) - 1 + i /\ queue'[k] = s[i]
    <3> TAKE k \in 1 .. Len(queue')
    <3>1. CASE k <= Len(queue) - 1
      BY <3>1, <1>1, <1>3
    <3>2. CASE k > Len(queue) - 1
      <4> DEFINE i == k - (Len(queue) - 1)
      <4>1. i \in 1 .. Len(s) /\ k = Len(queue) - 1 + i
        BY <3>2, <1>1, <1>3
      <4> HIDE DEF i
      <4> QED
        BY <4>1, <1>1
    <3> QED
      BY <3>1, <3>2, <1>1, <1>3
  <2>2. \A i \in 1 .. Len(s) : s[i] \in F /\ b[s[i]] = Append(best[n], s[i]) /\ Len(b[s[i]]) = L + 1
    <3>1. \A i \in 1 .. Len(s) : s[i] \in F
      BY <1>3
    <3> QED
      BY <3>1, <1>7
  <2>3. \A k \in 2 .. Len(queue) :
            /\ queue[k] \in visited /\ b[queue[k]] = best[queue[k]]
            /\ Len(best[queue[k]]) \in L .. L + 1
    <3> TAKE k \in 2 .. Len(queue)
    <3>1. k \in 1 .. Len(queue)
      BY <1>1
    <3> QED
      BY <3>1, <1>6, <1>7, <1>10
  <2>4. \A k \in 1 .. Len(queue') : Len(b[queue'[k]]) \in L .. L + 1
    <3> TAKE k \in 1 .. Len(queue')
    <3>1. CASE k + 1 \in 2 .. Len(queue) /\ queue'[k] = queue[k + 1]
      BY <3>1, <2>3
    <3>2. CASE \E i \in 1 .. Len(s) : queue'[k] = s[i]
      <4>1. Len(b[queue'[k]]) = L + 1
        BY <3>2, <2>2
      <4> QED
        BY <4>1, <1>6
    <3> QED
      BY <3>1, <3>2, <2>1
  <2>5. ASSUME NEW j \in 1 .. Len(queue'), NEW k \in 1 .. Len(queue'), j < k
        PROVE  Before(b[queue'[j]], b[queue'[k]])
    <3>1. CASE j <= Len(queue) - 1 /\ k <= Len(queue) - 1
      <4>1. /\ queue'[j] = queue[j + 1] /\ queue'[k] = queue[k + 1]
            /\ j + 1 \in 2 .. Len(queue) /\ k + 1 \in 2 .. Len(queue) /\ j + 1 < k + 1
            /\ j + 1 \in 1 .. Len(queue) /\ k + 1 \in 1 .. Len(queue)
        <5>1. j \in 1 .. Len(queue) - 1 /\ k \in 1 .. Len(queue) - 1 /\ Len(queue) \in Nat
          BY <3>1, <1>1
        <5>2. queue'[j] = queue[j + 1] /\ queue'[k] = queue[k + 1]
          BY <5>1, <1>1
        <5> QED
          BY <5>1, <5>2, <2>5
      <4>2. Before(best[queue[j + 1]], best[queue[k + 1]])
        BY <4>1 DEF Frontier
      <4> QED
        BY <4>1, <4>2, <2>3
    <3>2. CASE j <= Len(queue) - 1 /\ ~(k <= Len(queue) - 1)
      <4>1. PICK i \in 1 .. Len(s) : queue'[k] = s[i]
        <5>1. ~(k \in 1 .. Len(queue) - 1)
          BY <3>2, <1>1
        <5> QED
          BY <5>1, <2>1
      <4>2. PICK q \in visited : q = queue'[j] /\ b[q] = best[q] /\ Len(best[q]) \in L .. L + 1
        <5>1. j \in 1 .. Len(queue) - 1 /\ j + 1 \in 2 .. Len(queue)
          BY <3>2, <1>1, <1>3
        <5>2. queue'[j] = queue[j + 1]
          BY <5>1, <1>1
        <5> QED
          BY <5>1, <5>2, <2>3
      <4>3. CASE Len(best[q]) = L
        <5>1. Len(b[queue'[j]]) = L /\ Len(b[queue'[k]]) = L + 1
          BY <4>1, <4>2, <4>3, <2>2
        <5> QED
          BY <5>1, <1>6 DEF Before
      <4>4. CASE Len(best[q]) = L + 1
        <5>1. q # version
          <6>1. Len(best[version]) = 1 /\ L + 1 # 1
            BY <1>6 DEF Trail
          <6> QED
            BY <6>1, <4>4
        <5>2. prev[q] \in visited \ Queued /\ best[q] = Append(best[prev[q]], q)
          BY <5>1, <4>2 DEF Trail, Frontier
        <5>3. best[prev[q]] \in Seq(Node) /\ Len(best[prev[q]]) = L
          <6>1. best[prev[q]] \in Seq(Node) /\ q \in Node
            BY <5>2, <1>6
          <6>2. Len(best[q]) = Len(best[prev[q]]) + 1
            BY <6>1, <5>2
          <6>3. Len(best[prev[q]]) \in Nat
            BY <6>1
          <6>4. L \in Nat /\ L + 1 = Len(best[prev[q]]) + 1
            BY <6>2, <4>4, <1>6
          <6> QED
            BY <6>1, <6>3, <6>4
        <5>4. Before(best[prev[q]], best[n])
          BY <5>2, <1>10
        <5>5. Newer(best[prev[q]], best[n])
          BY <5>3, <5>4, <1>6 DEF Before, L
        <5>6. Newer(Append(best[prev[q]], q), Append(best[n], s[i]))
          <6>1. q \in Node /\ s[i] \in Node /\ Len(best[n]) = L
            BY <1>6, <2>2, <1>2 DEF L
          <6> QED
            BY <6>1, <5>3, <5>5, <1>6, NewerAppend
        <5>7. Newer(b[q], b[s[i]]) /\ Len(b[q]) = Len(b[s[i]])
          BY <5>6, <5>2, <4>2, <4>4, <2>2
        <5> QED
          BY <5>7, <4>1, <4>2 DEF Before
      <4> QED
        BY <4>2, <4>3, <4>4, <1>6
    <3>3. CASE ~(j <= Len(queue) - 1)
      <4>1. PICK i \in 1 .. Len(s) : j = Len(queue) - 1 + i /\ queue'[j] = s[i]
        <5>1. ~(j \in 1 .. Len(queue) - 1)
          BY <3>3, <1>1
        <5> QED
          BY <5>1, <2>1
      <4>2. PICK h \in 1 .. Len(s) : k = Len(queue) - 1 + h /\ queue'[k] = s[h]
        <5>1. ~(k \in 1 .. Len(queue) - 1)
          BY <3>3, <2>5, <1>1, <1>3
        <5> QED
          BY <5>1, <2>1
      <4>3. s[h] < s[i] /\ s[i] \in Node /\ s[h] \in Node
        <5>1. i < h
          BY <4>1, <4>2, <2>5, <1>1
        <5> QED
          BY <5>1, <1>3, <2>2, <1>2
      <4>4. Newer(b[s[i]], b[s[h]])
        BY <4>3, <2>2, <1>6, NewerLast
      <4> QED
        BY <4>1, <4>2, <4>4, <2>2 DEF Before
    <3> QED
      BY <3>1, <3>2, <3>3
  <2>6. ASSUME NEW m \in visited' \ Queued'
        PROVE  /\ Expanded(b, m)'
               /\ \A k \in 1 .. Len(queue') : Before(b[m], b[queue'[k]])
    <3>1. m \in visited /\ b[m] = best[m] /\ (m = n \/ m \in visited \ Queued)
      BY <2>6, <1>4, <1>7, <1>11
    <3>2. \A x \in Neighbours(m) : x \in visited' /\ Len(b[x]) <= Len(b[m]) + 1
      <4> TAKE x \in Neighbours(m)
      <4>1. CASE m = n /\ x \in F
        BY <4>1, <3>1, <1>4, <1>6, <1>7 DEF L
      <4>2. CASE m = n /\ x \notin F
        <5>1. x \in visited
          BY <4>2 DEF Fresh, F
        <5>2. Len(best[x]) <= L + 1
          <6>1. CASE x \in Queued
            BY <6>1, <1>10 DEF Queued
          <6>2. CASE x \notin Queued
            BY <6>2, <5>1, <1>6, <1>12
          <6> QED
            BY <6>1, <6>2
        <5> QED
          BY <5>1, <5>2, <4>2, <3>1, <1>4, <1>7 DEF L
      <4>3. CASE m \in visited \ Queued
        <5>1. x \in visited /\ Len(best[x]) <= Len(best[m]) + 1
          BY <4>3, <1>10 DEF Expanded
        <5> QED
          BY <5>1, <3>1, <1>4, <1>7
      <4> QED
        BY <4>1, <4>2, <4>3, <3>1
    <3>3. Expanded(b, m)'
      <4>1. Neighbours(m)' = Neighbours(m)
        BY <1>4 DEF Neighbours
      <4> QED
        BY <3>2, <4>1 DEF Expanded
    <3>4. ASSUME NEW k \in 1 .. Len(queue') PROVE Before(b[m], b[queue'[k]])
      <4>1. CASE k \in 1 .. Len(queue) - 1 /\ k + 1 \in 2 .. Len(queue) /\ queue'[k] = queue[k + 1]
        <5>1. CASE m = n
          BY <5>1, <4>1, <3>1, <2>3, <1>10
        <5>2. CASE m \in visited \ Queued
          <6>1. k + 1 \in 1 .. Len(queue)
            BY <4>1, <1>1
          <6>2. Before(best[m], best[queue[k + 1]])
            BY <6>1, <5>2 DEF Frontier
          <6> QED
            BY <6>2, <4>1, <3>1, <2>3
        <5> QED
          BY <5>1, <5>2, <3>1
      <4>2. CASE \E i \in 1 .. Len(s) : queue'[k] = s[i]
        <5>1. Len(b[queue'[k]]) = L + 1
          BY <4>2, <2>2
        <5>2. Len(best[m]) <= L
          <6>1. CASE m = n
            BY <6>1, <1>6 DEF L
          <6>2. CASE m \in visited \ Queued
            BY <6>2, <1>12
          <6> QED
            BY <6>1, <6>2, <3>1
        <5>3. Len(best[m]) \in Nat
          BY <3>1, <1>6
        <5> QED
          BY <5>1, <5>2, <5>3, <3>1, <1>6 DEF Before
      <4> QED
        BY <4>1, <4>2, <2>1
    <3> QED
      BY <3>3, <3>4
  <2>7. ASSUME NEW m \in visited' \ {version} PROVE prev'[m] \notin Queued'
    <3>1. CASE m \in visited
      <4>1. prev'[m] = prev[m] /\ prev[m] \in visited /\ prev[m] \notin Queued
        BY <3>1, <2>7, <1>2, <1>4, <1>6 DEF Trail, Frontier
      <4> QED
        BY <4>1, <1>2, <1>11
    <3>2. CASE m \in F
      BY <3>2, <1>2, <1>4, <1>5, <1>11
    <3> QED
      BY <3>1, <3>2, <1>4
  <2>8. Queued' \subseteq visited'
    BY <1>4, <1>5, <1>11
  <2>9. \A j, k \in 1 .. Len(queue') : Len(b[queue'[k]]) <= Len(b[queue'[j]]) + 1
    <3> TAKE j, k \in 1 .. Len(queue')
    <3> DEFINE x == Len(b[queue'[j]])
               y == Len(b[queue'[k]])
    <3>1. x \in L .. L + 1 /\ y \in L .. L + 1 /\ L \in Nat
      BY <2>4, <1>6
    <3> HIDE DEF x, y
    <3>2. y <= x + 1
      BY <3>1
    <3> QED
      BY <3>2 DEF x, y
  <2> QED
    BY <2>5, <2>6, <2>7, <2>8, <2>9, <1>4 DEF Frontier
<1>23. Short(b)'
  <2> SUFFICES ASSUME NEW m \in visited \cup F
               PROVE  Len(b[m]) <= Cardinality(visited \cup F)
    BY <1>4 DEF Short
  <2>1. /\ IsFiniteSet(visited \cup F) /\ IsFiniteSet(visited)
        /\ Cardinality(visited) \in Nat /\ Cardinality(visited \cup F) \in Nat
    BY <1>2, <1>6, VisitedFinite, FS_Subset, FS_CardinalityType
  <2>2. visited \in SUBSET (visited \cup F)
    OBVIOUS
  <2>3. /\ Cardinality(visited) <= Cardinality(visited \cup F)
        /\ Cardinality(visited \cup F) = Cardinality(visited) => visited \cup F = visited
    BY <2>1, <2>2, FS_Subset, Zenon
  <2>4. CASE m \in visited
    <3>1. Len(b[m]) = Len(best[m]) /\ Len(best[m]) \in Nat
      BY <2>4, <1>6, <1>7
    <3>2. Len(best[m]) <= Cardinality(visited)
      BY <2>4 DEF Short
    <3> QED
      BY <3>1, <3>2, <2>1, <2>3
  <2>5. CASE m \in F
    <3>1. visited \cup F # visited
      BY <2>5, <1>2
    <3>2. Cardinality(visited) + 1 <= Cardinality(visited \cup F)
      BY <3>1, <2>1, <2>3
    <3>3. L <= Cardinality(visited)
      BY <1>5, Zenon DEF Short, L
    <3>4. Len(b[m]) = L + 1
      BY <2>5, <1>7
    <3> QED
      BY <3>2, <3>3, <3>4, <2>1, <1>6
  <2> QED
    BY <2>4, <2>5
<1> QED
  BY <1>8, <1>20, <1>21, <1>22, <1>23

\* The search ends with every nearer version expanded.
LEMMA EndStep ==
    ASSUME TypeInv, pc = "search", version \in Node, reqVer \in Node,
           NEW best \in [Node -> Seq(Node)], Trail(best), Frontier(best), SearchEnds
    PROVE  Settled(best)'
<1>1. UNCHANGED <<edges, version, reqVer, visited, prev, result>>
  BY DEF SearchEnds, graph
<1>2. path' = IF reqVer \in visited THEN <<reqVer>> ELSE <<>>
  BY DEF SearchEnds
<1>3. \A n \in visited : Len(best[n]) \in Nat
  BY DEF TypeInv
<1>4. ASSUME NEW n \in visited, reqVer \notin visited \/ Len(best[n]) < Len(best[reqVer])
      PROVE  Expanded(best, n)'
  <2>1. n \notin Queued
    <3> SUFFICES ASSUME NEW k \in 1 .. Len(queue), n = queue[k] PROVE FALSE
      BY DEF Queued
    <3>1. queue \in Seq(Node) /\ Len(queue) \in Nat /\ queue # <<>> /\ 1 \in 1 .. Len(queue)
      BY DEF TypeInv
    <3>2. queue[1] = reqVer
      BY <3>1 DEF SearchEnds
    <3>3. reqVer \in visited
      BY <3>1, <3>2 DEF Frontier, Queued
    <3>4. CASE k = 1
      BY <3>2, <3>3, <3>4, <1>3, <1>4
    <3>5. CASE k # 1
      <4>1. Before(best[queue[1]], best[queue[k]])
        BY <3>1, <3>5 DEF Frontier
      <4>2. Len(best[reqVer]) < Len(best[n]) \/ Len(best[reqVer]) = Len(best[n])
        BY <4>1, <3>2, Zenon DEF Before
      <4> QED
        BY <4>2, <3>3, <1>3, <1>4
    <3> QED
      BY <3>4, <3>5
  <2>2. Expanded(best, n)
    BY <2>1 DEF Frontier
  <2> QED
    BY <2>2, <1>1 DEF Expanded, Neighbours
<1>5. path' # <<>> => reqVer \in visited /\ path' = <<reqVer>>
  BY <1>2
<1>6. ASSUME reqVer \in visited
      PROVE  /\ path' # <<>> /\ path'[1] = reqVer /\ Len(path') = 1
             /\ \A k \in 1 .. 1 : path'[k] = best[reqVer][Len(best[reqVer]) + k - 1]
  <2>1. path' = <<reqVer>>
    BY <1>2, <1>6
  <2>2. best[reqVer][Len(best[reqVer])] = reqVer
    BY <1>6 DEF Trail, PathsTo
  <2>3. Len(best[reqVer]) + 1 - 1 = Len(best[reqVer])
    BY <1>3, <1>6
  <2>4. ASSUME NEW k \in 1 .. 1 PROVE path'[k] = best[reqVer][Len(best[reqVer]) + k - 1]
    <3>1. k = 1
      OBVIOUS
    <3> QED
      BY <3>1, <2>1, <2>2, <2>3
  <2> QED
    BY <2>1, <2>4
<1>7. result' # "ok"
  BY <1>1 DEF TypeInv
<1> QED
  BY <1>1, <1>2, <1>3, <1>4, <1>5, <1>6, <1>7 DEF Settled

\* The walk back puts the predecessor in front of the path.
LEMMA WalkStep ==
    ASSUME TypeInv, pc = "walk", version \in Node, reqVer \in Node,
           NEW best \in [Node -> Seq(Node)], Trail(best), Settled(best), WalkBack
    PROVE  Settled(best)' /\ path' \in Seq(Node)
<1> DEFINE h == path[1]
           q == prev[h]
<1>1. UNCHANGED <<edges, version, reqVer, visited, prev, result>> /\ path # <<>>
  BY DEF WalkBack, graph
<1>2. path \in Seq(Node) /\ Len(path) \in Nat /\ Len(path) >= 1 /\ h = Head(path)
  BY <1>1 DEF TypeInv
<1>3. h \in visited /\ h # version /\ h \in Node
  BY <1>1, <1>2 DEF Settled, Trail, WalkBack, TypeInv
<1>4. q \in visited /\ q \in Node /\ best[h] = Append(best[q], h) /\ best[q] \in Seq(Node)
  BY <1>3 DEF Trail, TypeInv
<1>5. path' = <<q>> \o path
  BY <1>2 DEF WalkBack
<1> HIDE DEF h, q
<1>6. /\ path' \in Seq(Node) /\ path' # <<>> /\ Len(path') = Len(path) + 1 /\ path'[1] = q
      /\ \A k \in 2 .. Len(path) + 1 : path'[k] = path[k - 1]
  <2>1. <<q>> \in Seq(Node)
    BY <1>4
  <2> QED
    BY <2>1, <1>2, <1>5
<1> DEFINE len == Len(best[q])
           req == best[reqVer]
<1>7. len \in Nat /\ Len(req) \in Nat
  BY <1>4
<1>8. /\ Len(best[h]) = len + 1
      /\ \A k \in 1 .. len : best[h][k] = best[q][k]
      /\ best[h][len + 1] = h
  BY <1>3, <1>4, <1>7, AppendIs
<1>9. /\ Len(best[h]) + Len(path) = Len(req) + 1
      /\ \A k \in 1 .. Len(best[h]) : best[h][k] = req[k]
      /\ \A k \in 1 .. Len(path) : path[k] = req[Len(best[h]) + k - 1]
      /\ reqVer \in visited
  BY <1>1 DEF Settled, h
<1>10. best[q][len] = q /\ len >= 1
  BY <1>4 DEF Trail, PathsTo
<1> HIDE DEF len, req
<1>11. len + Len(path') = Len(req) + 1
  BY <1>2, <1>6, <1>7, <1>8, <1>9
<1>12. \A k \in 1 .. len : best[q][k] = req[k]
  BY <1>7, <1>8, <1>9
<1>13. ASSUME NEW k \in 1 .. Len(path') PROVE path'[k] = req[len + k - 1]
  <2>1. CASE k = 1
    <3>1. len + k - 1 = len /\ len \in 1 .. len
      BY <2>1, <1>7, <1>10
    <3> QED
      BY <3>1, <2>1, <1>6, <1>10, <1>12
  <2>2. CASE k # 1
    <3>1. k \in 2 .. Len(path) + 1 /\ k - 1 \in 1 .. Len(path)
      BY <2>2, <1>2, <1>6
    <3>2. Len(best[h]) + (k - 1) - 1 = len + k - 1
      BY <3>1, <1>2, <1>7, <1>8
    <3>3. path'[k] = path[k - 1]
      BY <3>1, <1>6
    <3>4. path[k - 1] = req[Len(best[h]) + (k - 1) - 1]
      BY <3>1, <1>9
    <3> QED
      BY <3>2, <3>3, <3>4
  <2> QED
    BY <2>1, <2>2
<1>14. \A n \in visited : reqVer \notin visited \/ Len(best[n]) < Len(best[reqVer]) => Expanded(best, n)'
  BY <1>1 DEF Settled, Expanded, Neighbours
<1>15. result' # "ok"
  BY <1>1 DEF TypeInv
<1> QED
  BY <1>1, <1>4, <1>6, <1>9, <1>11, <1>12, <1>13, <1>14, <1>15 DEF Settled, len, req

-----------------------------------------------------------------------------
\* A channel before anything was asked satisfies the invariant.
LEMMA InitInv == Init => PathInv
<1> SUFFICES ASSUME Init PROVE PathInv
  OBVIOUS
<1>1. edges \subseteq Node \X Node
  BY GraphAssumption DEF Init
<1> QED
  BY <1>1 DEF Init, PathInv, TypeInv, Begun

\* Every step of GetUpdates keeps the types.
LEMMA TypeStep ==
    ASSUME PathInv, [Next]_vars
    PROVE  TypeInv'
<1> USE DEF graph
<1>1. CASE FindFails
  BY <1>1 DEF PathInv, TypeInv, FindFails
<1>2. CASE FindVersions
  BY <1>2 DEF PathInv, TypeInv, FindVersions
<1>3. CASE Visit
  <2>1. TypeInv /\ Head(queue) \in Node /\ queue' \in Seq(Node)
    BY <1>3, QueueAfter DEF PathInv
  <2>2. visited' \subseteq Node
    BY <2>1, <1>3 DEF TypeInv, Visit, Fresh, Neighbours
  <2>3. prev' \in [Node -> Node \cup {NoNode}]
    BY <2>1, <1>3 DEF TypeInv, Visit
  <2> QED
    BY <2>1, <2>2, <2>3, <1>3 DEF TypeInv, Visit
<1>4. CASE SearchEnds
  <2>1. TypeInv /\ reqVer \in Node
    BY <1>4 DEF PathInv, Begun, SearchEnds
  <2>2. queue' \in Seq(Node) /\ path' \in Seq(Node)
    BY <2>1, <1>4 DEF TypeInv, SearchEnds
  <2> QED
    BY <2>1, <2>2, <1>4 DEF TypeInv, SearchEnds
<1>5. CASE WalkBack
  <2>1. TypeInv /\ Head(path) \in Node
    BY <1>5 DEF PathInv, TypeInv, WalkBack
  <2>2. prev[Head(path)] \in Node
    BY <2>1, <1>5 DEF TypeInv, WalkBack
  <2>3. path' \in Seq(Node)
    <3>1. <<prev[Head(path)]>> \in Seq(Node) /\ path \in Seq(Node)
      BY <2>1, <2>2 DEF TypeInv
    <3> QED
      BY <3>1, <1>5 DEF WalkBack
  <2> QED
    BY <2>1, <2>3, <1>5 DEF TypeInv, WalkBack
<1>6. CASE Return
  BY <1>6 DEF PathInv, TypeInv, Return
<1>7. CASE Finished \/ UNCHANGED vars
  BY <1>7 DEF PathInv, TypeInv, Finished, vars
<1> QED
  BY <1>1, <1>2, <1>3, <1>4, <1>5, <1>6, <1>7 DEF Next, GetUpdates

\* Every step of GetUpdates keeps the invariant.
LEMMA PathStep ==
    ASSUME PathInv, [Next]_vars
    PROVE  PathInv'
<1>1. TypeInv /\ TypeInv'
  BY TypeStep DEF PathInv
<1>2. CASE FindFails
  BY <1>1, <1>2 DEF PathInv, Begun, FindFails
<1>3. CASE FindVersions
  BY <1>3, StartStep
<1>4. CASE ~Begun /\ UNCHANGED <<pc, result>>
  BY <1>1, <1>4 DEF PathInv, Begun
<1>5. ASSUME Begun, Visit \/ SearchEnds \/ WalkBack \/ Return \/ UNCHANGED vars
      PROVE  PathInv'
  <2>1. PICK best \in [Node -> Seq(Node)] : SearchInv(best)
    BY <1>5 DEF PathInv
  <2>2. version \in Node /\ reqVer \in Node /\ UNCHANGED <<version, reqVer, edges>>
    BY <1>5 DEF PathInv, Visit, SearchEnds, WalkBack, Return, vars, graph
  <2>3. CASE Visit
    <3>1. pc = "search" /\ pc' = "search"
      BY <2>3 DEF Visit
    <3>2. \E b \in [Node -> Seq(Node)] : Trail(b)' /\ Optimal(b)' /\ Short(b)' /\ Frontier(b)'
      BY <2>1, <2>2, <2>3, <3>1, <1>1, VisitStep DEF SearchInv
    <3> QED
      BY <3>1, <3>2, <2>2, <1>1 DEF PathInv, SearchInv
  <2>4. ASSUME UNCHANGED <<visited, prev>> PROVE Trail(best)' /\ Optimal(best)' /\ Short(best)'
    <3>1. Trail(best)' /\ Optimal(best)'
      BY <2>1, <2>2, <2>4 DEF SearchInv, Trail, Optimal, PathsTo
    <3>2. Short(best)'
      BY <2>1, <2>4 DEF SearchInv, Short
    <3> QED
      BY <3>1, <3>2
  <2>5. CASE SearchEnds
    <3>1. pc = "search" /\ pc' = "walk" /\ UNCHANGED <<visited, prev>>
      BY <2>5 DEF SearchEnds
    <3>2. Settled(best)'
      BY <2>1, <2>2, <2>5, <3>1, <1>1, EndStep DEF SearchInv
    <3> QED
      BY <3>1, <3>2, <2>2, <2>4, <1>1 DEF PathInv, SearchInv
  <2>6. CASE WalkBack
    <3>1. pc = "walk" /\ pc' = "walk" /\ UNCHANGED <<visited, prev>>
      BY <2>6 DEF WalkBack
    <3>2. Settled(best)'
      BY <2>1, <2>2, <2>6, <3>1, <1>1, WalkStep DEF SearchInv
    <3> QED
      BY <3>1, <3>2, <2>2, <2>4, <1>1 DEF PathInv, SearchInv
  <2>7. CASE Return
    <3>1. pc = "walk" /\ pc' = "done" /\ UNCHANGED <<visited, prev, path>>
      BY <2>7 DEF Return
    <3>2. path # <<>> => path[1] \in visited /\ path[1] = version
      <4>1. path # <<>> => path[1] = Head(path) /\ prev[path[1]] = NoNode
        BY <2>7, <1>1 DEF Return, TypeInv
      <4>2. path # <<>> => path[1] \in visited /\ path[1] \in Node
        BY <3>1, <2>1, <1>1 DEF SearchInv, Settled, TypeInv
      <4> QED
        BY <4>1, <4>2, <2>1 DEF SearchInv, Trail
    <3>3. Settled(best)'
      BY <3>1, <3>2, <2>1, <2>2 DEF SearchInv, Settled, Expanded, Neighbours
    <3> QED
      BY <3>1, <3>3, <2>2, <2>4, <1>1 DEF PathInv, SearchInv
  <2>8. CASE UNCHANGED vars
    <3>1. UNCHANGED <<pc, queue, visited, prev, path, result>>
      BY <2>8 DEF vars
    <3>2. (pc = "search" => Frontier(best)) => (pc = "search" => Frontier(best))'
      BY <3>1, <2>2 DEF Frontier, Queued, Expanded, Neighbours
    <3>3. (pc # "search" => Settled(best)) => (pc # "search" => Settled(best))'
      BY <3>1, <2>2 DEF Settled, Expanded, Neighbours
    <3> QED
      BY <3>1, <3>2, <3>3, <2>1, <2>2, <2>4, <1>1 DEF PathInv, SearchInv
  <2> QED
    BY <2>3, <2>5, <2>6, <2>7, <2>8, <1>5
<1>6. CASE ~Begun /\ (Visit \/ SearchEnds \/ WalkBack \/ Return)
  BY <1>6 DEF Begun, Visit, SearchEnds, WalkBack, Return
<1>7. CASE ~Begun /\ (Finished \/ UNCHANGED vars)
  BY <1>4, <1>7 DEF Finished, vars
<1>8. CASE Finished
  BY <1>5, <1>7, <1>8 DEF Finished
<1> QED
  BY <1>2, <1>3, <1>5, <1>6, <1>7, <1>8 DEF Next, GetUpdates

\* The search, its queue and the walk back keep the invariant on every graph.
THEOREM PathInvariance == Spec => []PathInv
<1>1. PathInv /\ [Next]_vars => PathInv'
  BY PathStep
<1> QED
  BY <1>1, InitInv, PTL DEF Spec

\* The steps that are left at most: every version is queued once and is once on
\* the path.
StepsLeft ==
    CASE pc = "find" -> 2 * Nodes + 3
      [] pc = "search" -> (Nodes - Cardinality(visited)) + Len(queue) + Nodes + 2
      [] pc = "walk" -> Nodes - Len(path) + 1
      [] OTHER -> 0

\* No path is longer than there are versions: it visits none of them twice.
LEMMA PathIsShort ==
    ASSUME PathInv, pc = "walk"
    PROVE  Len(path) \in Nat /\ Len(path) <= Nodes
<1>1. TypeInv /\ Len(path) \in Nat /\ path \in Seq(Node)
  BY DEF PathInv, TypeInv
<1>2. CASE path = <<>>
  BY <1>2, GraphAssumption
<1>3. CASE path # <<>>
  <2>1. PICK best \in [Node -> Seq(Node)] : SearchInv(best)
    BY DEF PathInv, Begun
  <2>2. /\ path[1] \in visited /\ reqVer \in visited /\ Trail(best) /\ Short(best)
        /\ Len(best[path[1]]) + Len(path) = Len(best[reqVer]) + 1
    BY <2>1, <1>3 DEF SearchInv, Settled
  <2>3. visited \in SUBSET Node
    BY <1>1 DEF TypeInv
  <2>4. Len(best[path[1]]) \in Nat /\ Len(best[path[1]]) >= 1 /\ Len(best[reqVer]) \in Nat
    <3>1. best[path[1]] \in Seq(Node) /\ best[reqVer] \in Seq(Node)
      BY <2>2, <2>3
    <3> QED
      BY <3>1, <2>2 DEF Trail
  <2>5. Len(best[reqVer]) <= Cardinality(visited) /\ Cardinality(visited) \in Nat /\ Cardinality(visited) <= Nodes
    BY <2>2, <2>3, VisitedFinite DEF Short
  <2> QED
    BY <2>2, <2>4, <2>5, <1>1, GraphAssumption
<1> QED
  BY <1>2, <1>3

\* GetUpdates ends after at most 2 * Nodes + 3 steps on every upgrade graph,
\* with cycles too: the search expands no version twice and the walk back
\* follows no cycle.
THEOREM SearchIsShort ==
    Spec => StepsLeft = 2 * Nodes + 3 /\ [](StepsLeft \in Nat) /\ [][StepsLeft' < StepsLeft]_vars
<1>1. Init => StepsLeft = 2 * Nodes + 3
  BY DEF Init, StepsLeft
<1>2. PathInv => StepsLeft \in Nat
  <2> SUFFICES ASSUME PathInv PROVE StepsLeft \in Nat
    OBVIOUS
  <2>1. Cardinality(visited) \in Nat /\ Cardinality(visited) <= Nodes /\ Len(queue) \in Nat
    BY VisitedFinite DEF PathInv, TypeInv
  <2>2. pc = "walk" => Len(path) \in Nat /\ Len(path) <= Nodes
    BY PathIsShort
  <2> QED
    BY <2>1, <2>2, GraphAssumption DEF StepsLeft
<1>3. PathInv /\ [Next]_vars => [StepsLeft' < StepsLeft]_vars
  <2> SUFFICES ASSUME PathInv, Next PROVE StepsLeft' < StepsLeft \/ UNCHANGED vars
    OBVIOUS
  <2>1. /\ TypeInv /\ Nodes \in Nat /\ Len(queue) \in Nat
        /\ visited \in SUBSET Node /\ IsFiniteSet(visited)
        /\ Cardinality(visited) \in Nat /\ Cardinality(visited) <= Nodes
    BY VisitedFinite, GraphAssumption DEF PathInv, TypeInv
  <2>2. CASE FindFails
    BY <2>1, <2>2 DEF FindFails, StepsLeft
  <2>3. CASE FindVersions
    <3>1. pc = "find" /\ pc' = "search" /\ Len(queue') = 1 /\ Cardinality(visited') = 1
      BY <2>3, FS_Singleton DEF FindVersions
    <3> QED
      BY <3>1, <2>1 DEF StepsLeft
  <2>4. CASE Visit
    <3> DEFINE F == Fresh(Head(queue))
    <3>1. pc = "search" /\ pc' = "search" /\ visited' = visited \cup F
      BY <2>4 DEF Visit
    <3>2. F \in SUBSET Node /\ visited \cap F = {}
      BY DEF Fresh, Neighbours
    <3>3. Len(queue') = Len(queue) - 1 + Len(NewestFirst(F))
      BY <2>1, <2>4, QueueAfter
    <3> HIDE DEF F
    <3>4. IsFiniteSet(F) /\ Cardinality(F) \in Nat
      BY <3>2, VisitedFinite
    <3>5. Len(NewestFirst(F)) = Cardinality(F)
      BY <3>4 DEF NewestFirst
    <3>6. Cardinality(visited') = Cardinality(visited) + Cardinality(F)
      <4>1. Cardinality(visited \cup F) = Cardinality(visited) + Cardinality(F) - Cardinality(visited \cap F)
        BY <3>4, <2>1, FS_Union
      <4>2. Cardinality(visited \cap F) = 0
        BY <3>2, FS_EmptySet
      <4> QED
        BY <4>1, <4>2, <3>1, <3>4, <2>1
    <3> QED
      BY <3>1, <3>3, <3>4, <3>5, <3>6, <2>1 DEF StepsLeft
  <2>5. CASE SearchEnds
    <3>1. pc = "search" /\ pc' = "walk"
      BY <2>5 DEF SearchEnds
    <3>2. path' \in Seq(Node) /\ Len(path') \in Nat
      BY TypeStep DEF TypeInv
    <3> QED
      BY <3>1, <3>2, <2>1 DEF StepsLeft
  <2>6. CASE WalkBack
    <3>1. pc = "walk" /\ pc' = "walk" /\ path' = <<prev[Head(path)]>> \o path /\ path \in Seq(Node)
      BY <2>1, <2>6 DEF WalkBack, TypeInv
    <3>2. prev[Head(path)] \in Node
      <4>1. Head(path) \in Node
        BY <2>1, <2>6 DEF WalkBack, TypeInv
      <4> QED
        BY <4>1, <2>1, <2>6 DEF WalkBack, TypeInv
    <3>3. Len(path') = Len(path) + 1 /\ Len(path) \in Nat
      BY <3>1, <3>2
    <3> QED
      BY <3>1, <3>3, <2>1 DEF StepsLeft
  <2>7. CASE Return
    <3>1. pc = "walk" /\ pc' = "done"
      BY <2>7 DEF Return
    <3>2. Len(path) \in Nat /\ Len(path) <= Nodes
      BY <3>1, PathIsShort
    <3> QED
      BY <3>1, <3>2, <2>1 DEF StepsLeft
  <2>8. CASE Finished
    BY <2>8 DEF Finished
  <2> QED
    BY <2>2, <2>3, <2>4, <2>5, <2>6, <2>7, <2>8 DEF Next, GetUpdates
<1> QED
  BY <1>1, <1>2, <1>3, PathInvariance, PTL DEF Spec

\* What GetUpdates returns: the path to the requested version, if it was met.
LEMMA Returned ==
    ASSUME PathInv, result = "ok"
    PROVE  \E best \in [Node -> Seq(Node)] :
               SearchInv(best) /\ Settled(best) /\ (path # <<>> => path = best[reqVer])
<1>1. TypeInv /\ pc # "search"
  BY DEF PathInv, TypeInv
<1>2. PICK best \in [Node -> Seq(Node)] : SearchInv(best) /\ Settled(best)
  BY <1>1 DEF PathInv, Begun, SearchInv
<1>3. ASSUME path # <<>> PROVE path = best[reqVer]
  <2> DEFINE r == best[reqVer]
  <2>1. /\ path[1] = version /\ best[version] = <<version>> /\ reqVer \in Node
        /\ Len(best[version]) + Len(path) = Len(r) + 1
        /\ \A k \in 1 .. Len(path) : path[k] = r[Len(best[version]) + k - 1]
    BY <1>2, <1>3 DEF SearchInv, Settled, Trail, PathInv, Begun
  <2>2. path \in Seq(Node) /\ r \in Seq(Node) /\ Len(path) \in Nat /\ Len(r) \in Nat /\ Len(best[version]) = 1
    BY <2>1, <1>1 DEF TypeInv
  <2> HIDE DEF r
  <2>3. Len(path) = Len(r)
    BY <2>1, <2>2
  <2>4. \A k \in 1 .. Len(path) : path[k] = r[k]
    <3> TAKE k \in 1 .. Len(path)
    <3>1. Len(best[version]) + k - 1 = k
      BY <2>2
    <3> QED
      BY <3>1, <2>1
  <2>5. path = r
    <3> DEFINE D == 1 .. Len(path)
    <3>1. path \in [D -> Node] /\ r \in [D -> Node] /\ \A k \in D : path[k] = r[k]
      BY <2>2, <2>3, <2>4
    <3> HIDE DEF D
    <3> QED
      BY <3>1, Extensional
  <2> QED
    BY <2>5 DEF r
<1> QED
  BY <1>2, <1>3

\* On every upgrade graph, of any size and with cycles, GetUpdates returns a
\* shortest path to the requested version, none only when there is none, and
\* both ends are downloaded.
THEOREM FindsShortest == Spec => []PathIsShortest
<1>1. PathInv => PathIsShortest
  <2> SUFFICES ASSUME PathInv, result = "ok" PROVE PathIsShortest
    BY DEF PathIsShortest
  <2>1. PICK best \in [Node -> Seq(Node)] :
            SearchInv(best) /\ Settled(best) /\ (path # <<>> => path = best[reqVer])
    BY Returned
  <2>2. /\ TypeInv /\ reqVer \in Node /\ version \in Node /\ Trail(best)
        /\ \A n \in visited : Len(best[n]) \in Nat
    <3>1. TypeInv /\ reqVer \in Node /\ version \in Node /\ Trail(best)
      BY <2>1 DEF PathInv, Begun, SearchInv
    <3>2. \A n \in visited : n \in Node
      BY <3>1 DEF TypeInv
    <3> QED
      BY <3>1, <3>2
  <2>3. \A len : Paths(len) = PathsTo(reqVer, len)
    BY DEF Paths, PathsTo
  <2>4. path # <<>> => reqVer \in visited /\ path \in Paths(Len(path))
    BY <2>1, <2>2, <2>3 DEF Settled, Trail
  <2>5. ASSUME NEW len \in 1 .. Nodes, NEW p \in Paths(len) PROVE path # <<>> /\ Len(path) <= len
    <3>1. len \in Nat /\ len >= 1
      BY GraphAssumption
    <3>2. CASE reqVer \in visited
      <4>1. path # <<>> /\ path = best[reqVer]
        BY <3>2, <2>1 DEF Settled
      <4>2. CASE Len(best[reqVer]) <= len
        BY <4>1, <4>2
      <4>3. CASE len < Len(best[reqVer])
        <5> DEFINE bound == Len(best[reqVer])
        <5>1. bound \in Nat /\ len \in 1 .. bound
          BY <4>3, <3>1, <3>2, <2>2
        <5>2. \A n \in visited : Len(best[n]) < bound => Expanded(best, n)
          BY <2>1 DEF Settled
        <5>3. p \in PathsTo(reqVer, len)
          BY <2>3
        <5> HIDE DEF bound
        <5>4. Len(best[reqVer]) <= len
          BY <5>1, <5>2, <5>3, <2>2, Reach
        <5> QED
          BY <5>4, <4>3, <3>1, <3>2, <2>2
      <4> QED
        BY <4>2, <4>3, <3>1, <3>2, <2>2
    <3>3. CASE reqVer \notin visited
      <4>1. \A n \in visited : Len(best[n]) < len => Expanded(best, n)
        BY <3>3, <2>1 DEF Settled
      <4>2. len \in 1 .. len /\ p \in PathsTo(reqVer, len)
        BY <3>1, <2>3
      <4> QED
        BY <4>1, <4>2, <3>1, <3>3, <2>2, Reach
    <3> QED
      BY <3>2, <3>3
  <2>6. {version, reqVer} \subseteq {Downloads[k] : k \in DOMAIN Downloads}
    <3>1. /\ path \in Seq(Node) /\ Len(path) \in Nat
          /\ <<version, reqVer>> \in Seq(Node) /\ Downloads = path \o <<version, reqVer>>
      BY <2>2 DEF TypeInv, Downloads, gatherUpdates
    <3>2. /\ Len(path) + 1 \in DOMAIN Downloads /\ Downloads[Len(path) + 1] = version
          /\ Len(path) + 2 \in DOMAIN Downloads /\ Downloads[Len(path) + 2] = reqVer
      BY <3>1
    <3> QED
      BY <3>2
  <2> QED
    BY <2>4, <2>5, <2>6 DEF PathIsShortest
<1> QED
  BY <1>1, PathInvariance, PTL

\* Of the shortest paths GetUpdates returns the newest, on every upgrade graph:
\* the order of the queue is that of the paths.
THEOREM FindsNewest == Spec => []PathIsNewest
<1>1. PathInv => PathIsNewest
  <2> SUFFICES ASSUME PathInv, result = "ok", path # <<>>,
                      NEW p \in Paths(Len(path)), p # path
               PROVE  \E k \in DOMAIN p : p[k] < path[k] /\ \A j \in 1 .. k - 1 : p[j] = path[j]
    BY DEF PathIsNewest
  <2>1. PICK best \in [Node -> Seq(Node)] : SearchInv(best) /\ Settled(best) /\ path = best[reqVer]
    BY Returned
  <2>2. reqVer \in visited /\ p \in PathsTo(reqVer, Len(best[reqVer]))
    BY <2>1 DEF Settled, Paths, PathsTo
  <2>3. Newer(path, p)
    BY <2>1, <2>2 DEF SearchInv, Optimal
  <2>4. DOMAIN path = DOMAIN p
    BY DEF PathInv, TypeInv, Paths
  <2> QED
    BY <2>3, <2>4 DEF Newer
<1> QED
  BY <1>1, PathInvariance, PTL

-----------------------------------------------------------------------------
(***************************************************************************)
(* CrossChannel, for any number of versions and of minor versions.         *)
(***************************************************************************)
\* No version was blocked, and every channel so far had a path.
Unbroken == ~blocked /\ <<>> \notin Elements(legs)

CrossTypes ==
    /\ startVer \in Int /\ crossReqVer \in Int /\ head \in Int
    /\ upgrades \in Seq(Int) /\ finalUpgrades \in Seq(Int) /\ legs \in Seq(Seq(Int))
    /\ scanned \in 0 .. Len(upgrades)

\* One of the paths ls offers the upgrade from v to w.
OfferedBy(ls, v, w) ==
    \E s \in Elements(ls) : \E j \in 1 .. Len(s) - 1 : s[j] = v /\ s[j + 1] = w

\* The upgrades u go from one version to another along the paths ls, never to
\* an older version; where two channels meet, a version is repeated.
Chain(u, from, to, ls) ==
    /\ u # <<>> /\ u[1] = from /\ u[Len(u)] = to
    /\ \A j, k \in 1 .. Len(u) : j <= k => u[j] <= u[k]
    /\ \A k \in 1 .. Len(u) - 1 : u[k] = u[k + 1] \/ OfferedBy(ls, u[k], u[k + 1])

\* The upgrades f, kept of the first n of u, go along the paths ls up to the
\* last of these n.
Kept(f, u, n, from, ls) ==
    /\ f # <<>> /\ f[1] = from /\ f[Len(f)] = u[n]
    /\ \A v \in Elements(f) : \E j \in 1 .. n : v = u[j]
    /\ \A k \in 1 .. Len(f) - 1 : OfferedBy(ls, f[k], f[k + 1])

\* The inductive invariant of CalculateUpgrades.
CrossInv ==
    /\ CrossTypes
    /\ crossPc \in {"start", "calculate"} => scanned = 0
    /\ crossPc # "done" => crossResult = "none" /\ (scanned = 0 => finalUpgrades = <<>>)
    /\ crossPc \in {"calculate", "return"} =>
           current = startVer /\ (Unbroken => Chain(upgrades, startVer, head, legs))
    /\ crossPc = "return" /\ ~blocked => requested = crossReqVer /\ head = crossReqVer
    /\ crossPc = "return" /\ Unbroken /\ scanned > 0 =>
           Kept(finalUpgrades, upgrades, scanned, startVer, legs)
    /\ UpgradesConnect /\ UnblockedReachesRequested

\* Every path of a channel goes to newer versions, from its start to its end.
LEMMA CrossPath ==
    ASSUME NEW from \in Int, NEW to \in Int, NEW s \in ChannelUpdates(from, to)
    PROVE  /\ s \in Seq(Int) /\ Len(s) \in Nat
           /\ s # <<>> => /\ Len(s) >= 1 /\ s[1] = from /\ s[Len(s)] = to
                          /\ \A j, k \in 1 .. Len(s) : j <= k => s[j] <= s[k]
<1>1. CASE from = to
  <2>1. s = <<from>>
    BY <1>1 DEF ChannelUpdates
  <2> QED
    BY <2>1, <1>1
<1>2. CASE from # to
  <2>1. s = <<>> \/ \E n \in 2 .. Versions : s \in [1 .. n -> from .. to]
                        /\ s[1] = from /\ s[Len(s)] = to /\ Ascending(s)
    BY <1>2 DEF ChannelUpdates
  <2>2. CASE s = <<>>
    BY <2>2
  <2>3. ASSUME NEW n \in 2 .. Versions, s \in [1 .. n -> from .. to],
               s[1] = from, s[Len(s)] = to, Ascending(s)
        PROVE  /\ s \in Seq(Int) /\ Len(s) \in Nat /\ Len(s) >= 1
               /\ \A j, k \in 1 .. Len(s) : j <= k => s[j] <= s[k]
    <3>1. n \in Nat /\ s \in [1 .. n -> Int]
      BY <2>3, ChannelAssumption
    <3>2. s \in Seq(Int) /\ Len(s) = n
      BY <3>1
    <3>3. \A j, k \in 1 .. n : j < k => s[j] < s[k]
      BY <2>3, <3>2 DEF Ascending
    <3> QED
      BY <3>1, <3>2, <3>3
  <2> QED
    BY <2>1, <2>2, <2>3
<1> QED
  BY <1>1, <1>2

\* A leg more is one of the legs.
LEMMA LegsAfter ==
    ASSUME NEW ls \in Seq(Seq(Int)), NEW s \in Seq(Int)
    PROVE  /\ Append(ls, s) \in Seq(Seq(Int))
           /\ Elements(Append(ls, s)) = Elements(ls) \cup {s}
<1>1. Append(ls, s) \in Seq(Seq(Int)) /\ Len(ls) \in Nat /\ DOMAIN Append(ls, s) = 1 .. Len(ls) + 1
  OBVIOUS
<1>2. Append(ls, s)[Len(ls) + 1] = s /\ \A k \in 1 .. Len(ls) : Append(ls, s)[k] = ls[k]
  OBVIOUS
<1>3. DOMAIN ls = 1 .. Len(ls)
  OBVIOUS
<1>4. 1 .. Len(ls) + 1 = 1 .. Len(ls) \cup {Len(ls) + 1}
  BY <1>1
<1>5. Elements(Append(ls, s)) \subseteq Elements(ls) \cup {s}
  <2> SUFFICES ASSUME NEW k \in 1 .. Len(ls) + 1 PROVE Append(ls, s)[k] \in Elements(ls) \cup {s}
    BY <1>1, Zenon DEF Elements
  <2>1. CASE k = Len(ls) + 1
    BY <1>2, <2>1
  <2>2. CASE k \in 1 .. Len(ls)
    BY <1>2, <1>3, <2>2 DEF Elements
  <2> QED
    BY <2>1, <2>2, <1>4
<1>6. Elements(ls) \cup {s} \subseteq Elements(Append(ls, s))
  <2>1. s \in Elements(Append(ls, s))
    BY <1>1, <1>2, <1>4 DEF Elements
  <2>2. ASSUME NEW k \in DOMAIN ls PROVE ls[k] \in Elements(Append(ls, s))
    BY <1>1, <1>2, <1>3, <1>4 DEF Elements
  <2> QED
    BY <2>1, <2>2, Zenon DEF Elements
<1> QED
  BY <1>1, <1>5, <1>6

\* One leg is all the legs.
LEMMA OnlyLeg ==
    ASSUME NEW s \in Seq(Int)
    PROVE  <<s>> \in Seq(Seq(Int)) /\ Elements(<<s>>) = {s}
<1>1. DOMAIN <<s>> = {1} /\ <<s>>[1] = s
  OBVIOUS
<1> QED
  BY <1>1 DEF Elements

\* The arguments of CalculateUpgrades satisfy the invariant.
LEMMA CrossStart == CrossInit => CrossInv
<1> SUFFICES ASSUME CrossInit PROVE CrossInv
  OBVIOUS
<1>1. startVer \in Int /\ crossReqVer \in Int
  BY ChannelAssumption DEF CrossInit, Version
<1>2. CrossTypes
  BY <1>1 DEF CrossInit, CrossTypes
<1> QED
  BY <1>2 DEF CrossInit, CrossInv, UpgradesConnect, UnblockedReachesRequested

\* A path that is the only leg is a chain that its channel offers.
LEMMA OneChannel ==
    ASSUME NEW from \in Int, NEW to \in Int, NEW s \in ChannelUpdates(from, to)
    PROVE  /\ s \in Seq(Int) /\ <<s>> \in Seq(Seq(Int)) /\ Elements(<<s>>) = {s}
           /\ \A k \in 1 .. Len(s) - 1 : OfferedBy(<<s>>, s[k], s[k + 1])
<1>1. s \in Seq(Int)
  BY CrossPath
<1>2. <<s>> \in Seq(Seq(Int)) /\ Elements(<<s>>) = {s}
  BY <1>1, OnlyLeg
<1>3. \A k \in 1 .. Len(s) - 1 : OfferedBy(<<s>>, s[k], s[k + 1])
  BY <1>2 DEF OfferedBy
<1> QED
  BY <1>1, <1>2, <1>3

\* Both channels are one, or of one minor version: the answer is one path.
LEMMA OneChannelStep ==
    ASSUME CrossInv, WithinChannel \/ SameMinor
    PROVE  CrossInv'
<1> USE DEF args
<1>1. /\ crossPc' = "done" /\ crossResult' = "ok" /\ requested' = crossReqVer
      /\ UNCHANGED <<startVer, crossReqVer, head, upgrades, scanned>>
      /\ ~blocked' => current' = startVer
      /\ current' \in {startVer, crossReqVer}
  BY DEF WithinChannel, SameMinor
<1>2. CrossTypes /\ current' \in Int /\ crossReqVer \in Int
  BY <1>1 DEF CrossInv, CrossTypes
<1>3. PICK s \in ChannelUpdates(current', crossReqVer) : finalUpgrades' = s /\ legs' = <<s>>
  BY DEF WithinChannel, SameMinor
<1>4. /\ s \in Seq(Int) /\ <<s>> \in Seq(Seq(Int)) /\ Elements(<<s>>) = {s}
      /\ \A k \in 1 .. Len(s) - 1 : OfferedBy(<<s>>, s[k], s[k + 1])
  BY <1>2, <1>3, OneChannel
<1>5. s # <<>> => s[1] = current' /\ s[Len(s)] = crossReqVer
  BY <1>2, CrossPath
<1>6. CrossTypes'
  BY <1>1, <1>2, <1>3, <1>4 DEF CrossTypes
<1>7. UpgradesConnect'
  <2> SUFFICES ASSUME ~blocked', <<>> \notin Elements(legs)'
               PROVE  /\ s[1] = startVer /\ s[Len(s)] = crossReqVer
                      /\ \A k \in 1 .. Len(s) - 1 : OfferedBy(<<s>>, s[k], s[k + 1])
    <3>1. \A v, w : OfferedBy(<<s>>, v, w) => Offered(v, w)'
      BY <1>3 DEF Offered, OfferedBy, Elements
    <3> QED
      BY <3>1, <1>1, <1>3 DEF UpgradesConnect
  <2>1. s # <<>>
    <3>1. Elements(legs)' = Elements(<<s>>)
      BY <1>3 DEF Elements
    <3> QED
      BY <3>1, <1>4
  <2> QED
    BY <2>1, <1>1, <1>4, <1>5
<1>8. UnblockedReachesRequested'
  BY <1>1 DEF UnblockedReachesRequested
<1> QED
  BY <1>1, <1>6, <1>7, <1>8 DEF CrossInv

\* The first channel is a chain from the start to its latest version.
LEMMA FirstChannelStep ==
    ASSUME CrossInv, FirstChannel
    PROVE  CrossInv'
<1> USE DEF args
<1>1. /\ crossPc = "start" /\ crossPc' = "calculate" /\ current' = startVer
      /\ UNCHANGED <<startVer, crossReqVer, scanned, finalUpgrades, crossResult, blocked>>
  BY DEF FirstChannel
<1>2. CrossTypes /\ scanned = 0 /\ crossResult = "none" /\ finalUpgrades = <<>>
  BY <1>1 DEF CrossInv
<1>3. head' \in Int
  BY ChannelAssumption DEF FirstChannel, Version
<1>4. PICK s \in ChannelUpdates(startVer, head') : upgrades' = s /\ legs' = <<s>>
  BY DEF FirstChannel
<1>5. startVer \in Int
  BY <1>2 DEF CrossTypes
<1>6. /\ s \in Seq(Int) /\ <<s>> \in Seq(Seq(Int)) /\ Elements(<<s>>) = {s}
      /\ \A k \in 1 .. Len(s) - 1 : OfferedBy(<<s>>, s[k], s[k + 1])
  BY <1>3, <1>4, <1>5, OneChannel
<1>7. /\ Len(s) \in Nat
      /\ s # <<>> => /\ s[1] = startVer /\ s[Len(s)] = head'
                     /\ \A j, k \in 1 .. Len(s) : j <= k => s[j] <= s[k]
  BY <1>3, <1>5, CrossPath
<1>8. CrossTypes'
  BY <1>1, <1>2, <1>3, <1>4, <1>6, <1>7 DEF CrossTypes
<1>9. (Unbroken => Chain(upgrades, startVer, head, legs))'
  BY <1>1, <1>4, <1>6, <1>7 DEF Unbroken, Chain, Elements
<1> QED
  BY <1>1, <1>2, <1>8, <1>9 DEF CrossInv, UpgradesConnect, UnblockedReachesRequested

\* The path of the next channel continues the chain from the version reached.
LEMMA ChainGrows ==
    ASSUME NEW u \in Seq(Int), NEW from \in Int, NEW mid \in Int, NEW to \in Int,
           NEW ls \in Seq(Seq(Int)), Chain(u, from, mid, ls),
           NEW s \in ChannelUpdates(mid, to), s # <<>>
    PROVE  Chain(u \o s, from, to, Append(ls, s))
<1> DEFINE m == Len(u)
           n == Len(s)
           w == u \o s
<1>1. /\ s \in Seq(Int) /\ n \in Nat /\ n >= 1 /\ s[1] = mid /\ s[n] = to
      /\ \A j, k \in 1 .. n : j <= k => s[j] <= s[k]
  BY CrossPath
<1>2. /\ m \in Nat /\ Len(w) = m + n /\ w \in Seq(Int)
      /\ \A k \in 1 .. m : w[k] = u[k]
      /\ \A k \in 1 .. n : w[m + k] = s[k]
  BY <1>1, Joined
<1>3. m >= 1 /\ u[1] = from /\ u[m] = mid
  BY DEF Chain
<1>4. \A k \in 1 .. m : u[k] \in Int
  OBVIOUS
<1>5. \A k \in 1 .. n : s[k] \in Int
  BY <1>1
<1>6. /\ \A j, k \in 1 .. m : j <= k => u[j] <= u[k]
      /\ \A k \in 1 .. m - 1 : u[k] = u[k + 1] \/ OfferedBy(ls, u[k], u[k + 1])
  BY DEF Chain
<1> HIDE DEF m, n, w
<1>7. w # <<>> /\ w[1] = from /\ w[m + n] = to
  <2>1. 1 \in 1 .. m /\ n \in 1 .. n /\ Len(w) # 0
    BY <1>1, <1>2, <1>3
  <2>2. w[1] = u[1] /\ w[m + n] = s[n]
    BY <2>1, <1>2
  <2>3. w # <<>>
    BY <2>1
  <2> QED
    BY <2>2, <2>3, <1>1, <1>3
<1>8. \A k \in 1 .. m + n : k \in 1 .. m \/ (k - m \in 1 .. n /\ m + (k - m) = k)
  BY <1>1, <1>2
<1>9. \A k \in 1 .. m : w[k] <= mid
  BY <1>2, <1>3, <1>6
<1>10. \A k \in 1 .. n : mid <= w[m + k]
  <2> TAKE k \in 1 .. n
  <2>1. 1 \in 1 .. n /\ 1 <= k
    BY <1>1
  <2>2. s[1] <= s[k] /\ w[m + k] = s[k]
    BY <2>1, <1>1, <1>2
  <2> QED
    BY <2>2, <1>1
<1>11. ASSUME NEW j \in 1 .. m + n, NEW k \in 1 .. m + n, j <= k
       PROVE  w[j] <= w[k]
  <2>1. CASE j \in 1 .. m /\ k \in 1 .. m
    BY <2>1, <1>2, <1>6, <1>11
  <2>2. CASE j \in 1 .. m /\ k - m \in 1 .. n
    <3>1. w[j] <= mid /\ mid <= w[m + (k - m)]
      BY <2>2, <1>9, <1>10
    <3>2. m + (k - m) = k
      BY <1>1, <1>2
    <3>3. w[j] \in Int /\ w[k] \in Int
      BY <1>1, <1>2
    <3> QED
      BY <3>1, <3>2, <3>3
  <2>3. CASE j - m \in 1 .. n /\ k - m \in 1 .. n
    <3>1. w[m + (j - m)] = s[j - m] /\ w[m + (k - m)] = s[k - m]
      BY <2>3, <1>2
    <3>2. s[j - m] <= s[k - m]
      BY <2>3, <1>1, <1>2, <1>11
    <3>3. m + (k - m) = k /\ m + (j - m) = j
      <4>1. m + n \in Int /\ m \in Int
        BY <1>1, <1>2
      <4> QED
        BY <4>1
    <3> QED
      BY <3>1, <3>2, <3>3
  <2>4. CASE j - m \in 1 .. n /\ k \in 1 .. m
    BY <2>4, <1>1, <1>2, <1>11
  <2> QED
    BY <2>1, <2>2, <2>3, <2>4, <1>8
<1>12. Elements(Append(ls, s)) = Elements(ls) \cup {s}
  BY <1>1, LegsAfter
<1>13. \A v, x : OfferedBy(ls, v, x) => OfferedBy(Append(ls, s), v, x)
  BY <1>12 DEF OfferedBy
<1>14. \A k \in 1 .. n - 1 : OfferedBy(Append(ls, s), s[k], s[k + 1])
  BY <1>12 DEF OfferedBy, n
<1>15. ASSUME NEW k \in 1 .. m + n - 1
       PROVE  w[k] = w[k + 1] \/ OfferedBy(Append(ls, s), w[k], w[k + 1])
  <2>1. CASE k < m
    <3>1. k \in 1 .. m - 1 /\ k \in 1 .. m /\ k + 1 \in 1 .. m
      BY <2>1, <1>1, <1>2
    <3>2. u[k] = u[k + 1] \/ OfferedBy(Append(ls, s), u[k], u[k + 1])
      BY <3>1, <1>6, <1>13
    <3>3. w[k] = u[k] /\ w[k + 1] = u[k + 1]
      BY <3>1, <1>2
    <3> QED
      BY <3>2, <3>3
  <2>2. CASE k = m
    <3>1. m \in 1 .. m /\ 1 \in 1 .. n
      BY <1>1, <1>2, <1>3
    <3>2. w[m] = mid /\ w[m + 1] = mid
      BY <3>1, <1>1, <1>2, <1>3
    <3> QED
      BY <3>2, <2>2
  <2>3. CASE k > m
    <3>1. PICK i \in 1 .. n - 1 : k = m + i
      <4>1. k - m \in 1 .. n - 1 /\ k = m + (k - m)
        BY <2>3, <1>1, <1>2
      <4> QED
        BY <4>1
    <3>2. i \in 1 .. n /\ i + 1 \in 1 .. n /\ m + (i + 1) = k + 1
      BY <3>1, <1>1, <1>2
    <3>3. w[k] = s[i] /\ w[k + 1] = s[i + 1]
      BY <3>1, <3>2, <1>2
    <3>4. OfferedBy(Append(ls, s), s[i], s[i + 1])
      BY <3>1, <1>14
    <3> QED
      BY <3>3, <3>4
  <2> QED
    BY <2>1, <2>2, <2>3, <1>1, <1>2
<1>16. Chain(w, from, to, Append(ls, s))
  <2>1. w # <<>> /\ w[1] = from /\ w[Len(w)] = to
    BY <1>2, <1>7
  <2>2. \A j, k \in 1 .. Len(w) : j <= k => w[j] <= w[k]
    BY <1>2, <1>11
  <2>3. \A k \in 1 .. Len(w) - 1 : w[k] = w[k + 1] \/ OfferedBy(Append(ls, s), w[k], w[k + 1])
    <3> TAKE k \in 1 .. Len(w) - 1
    <3>1. k \in 1 .. m + n - 1
      BY <1>1, <1>2
    <3> QED
      BY <3>1, <1>15
  <2> QED
    BY <2>1, <2>2, <2>3, Zenon DEF Chain
<1> QED
  BY <1>16 DEF w

\* The next channel: the chain grows, and ends at the requested version when
\* the channel is the target.
LEMMA UpgradeStep ==
    ASSUME CrossInv, Upgrade
    PROVE  CrossInv'
<1> USE DEF args
<1>1. /\ crossPc = "calculate" /\ crossPc' \in {"calculate", "return"}
      /\ UNCHANGED <<startVer, crossReqVer, scanned, current, finalUpgrades, crossResult, blocked>>
  BY DEF Upgrade
<1>2. /\ CrossTypes /\ scanned = 0 /\ crossResult = "none" /\ finalUpgrades = <<>> /\ current = startVer
      /\ Unbroken => Chain(upgrades, startVer, head, legs)
  BY <1>1 DEF CrossInv
<1>3. /\ startVer \in Int /\ crossReqVer \in Int /\ head \in Int /\ upgrades \in Seq(Int)
      /\ legs \in Seq(Seq(Int))
  BY <1>2 DEF CrossTypes
<1>4. PICK to \in TargetVersions : \E s \in ChannelUpdates(head, to) :
          /\ requested' = to /\ head' = to
          /\ upgrades' = upgrades \o s /\ legs' = Append(legs, s)
  BY DEF Upgrade
<1>5. PICK s \in ChannelUpdates(head, to) :
          /\ requested' = to /\ head' = to
          /\ upgrades' = upgrades \o s /\ legs' = Append(legs, s)
  BY <1>4
<1>6. to \in Int /\ (crossPc' = "return" => to = crossReqVer)
  BY <1>3, ChannelAssumption DEF TargetVersions, Version, Upgrade
<1>7. s \in Seq(Int)
  BY <1>3, <1>6, CrossPath
<1>8. legs' \in Seq(Seq(Int)) /\ Elements(legs)' = Elements(legs) \cup {s}
  <2>1. Elements(legs)' = Elements(Append(legs, s))
    BY <1>5 DEF Elements
  <2> QED
    BY <2>1, <1>3, <1>5, <1>7, LegsAfter
<1>9. CrossTypes'
  <2>1. upgrades' \in Seq(Int) /\ Len(upgrades') \in Nat
    BY <1>3, <1>5, <1>7, Joined
  <2> QED
    BY <2>1, <1>1, <1>2, <1>5, <1>6, <1>8 DEF CrossTypes
<1>10. ASSUME Unbroken' PROVE Chain(upgrades, startVer, head, legs)'
  <2>1. Unbroken /\ s # <<>>
    BY <1>1, <1>8, <1>10 DEF Unbroken
  <2>2. Chain(upgrades \o s, startVer, to, Append(legs, s))
    BY <2>1, <1>2, <1>3, <1>6, ChainGrows
  <2>3. upgrades' = upgrades \o s /\ startVer' = startVer /\ head' = to /\ legs' = Append(legs, s)
    BY <1>1, <1>5
  <2>4. Chain(upgrades', startVer', head', legs')
    BY <2>2, <2>3
  <2> QED
    BY <2>4 DEF Chain, OfferedBy, Elements
<1> QED
  BY <1>1, <1>2, <1>5, <1>6, <1>9, <1>10
  DEF CrossInv, UpgradesConnect, UnblockedReachesRequested

\* The version kept next is the last one kept, or one that a channel offers
\* after it: a version kept before is no newer than the last.
LEMMA KeepNext ==
    ASSUME NEW u \in Seq(Int), NEW f \in Seq(Int), NEW from \in Int, NEW to \in Int, NEW ls,
           Chain(u, from, to, ls), NEW n \in 1 .. Len(u) - 1, Kept(f, u, n, from, ls)
    PROVE  Kept(IF u[n + 1] \in Elements(f) THEN f ELSE Append(f, u[n + 1]), u, n + 1, from, ls)
<1> DEFINE v == u[n + 1]
           d == Len(f)
<1>1. n + 1 \in 1 .. Len(u) /\ n \in 1 .. Len(u) /\ n \in Nat /\ v \in Int /\ u[n] \in Int
  OBVIOUS
<1>2. d \in Nat /\ d >= 1 /\ f[1] = from /\ f[d] = u[n] /\ DOMAIN f = 1 .. d
  BY DEF Kept
<1>3. u[n] <= v /\ (u[n] = v \/ OfferedBy(ls, u[n], v))
  BY <1>1 DEF Chain
<1>4. /\ \A x \in Elements(f) : \E j \in 1 .. n : x = u[j]
      /\ \A k \in 1 .. d - 1 : OfferedBy(ls, f[k], f[k + 1])
  BY DEF Kept
<1>5. \A x \in Elements(f) : \E j \in 1 .. n + 1 : x = u[j]
  BY <1>1, <1>4
<1> HIDE DEF v, d
<1>6. CASE v \in Elements(f)
  <2>1. PICK j \in 1 .. n : v = u[j]
    BY <1>4, <1>6
  <2>2. u[j] <= u[n] /\ u[j] \in Int
    <3>1. j \in 1 .. Len(u) /\ j <= n
      BY <1>1, <2>1
    <3> QED
      BY <3>1, <1>1 DEF Chain
  <2>3. u[n] = v
    BY <2>1, <2>2, <1>1, <1>3
  <2>4. Kept(f, u, n + 1, from, ls)
    BY <2>3, <1>2, <1>4, <1>5 DEF Kept, v, d
  <2> QED
    BY <2>4, <1>6 DEF v
<1>7. CASE v \notin Elements(f)
  <2> DEFINE g == Append(f, v)
  <2>1. /\ g \in Seq(Int) /\ Len(g) = d + 1 /\ g[d + 1] = v /\ DOMAIN g = 1 .. d + 1
        /\ \A k \in 1 .. d : g[k] = f[k]
    BY <1>1 DEF d
  <2> HIDE DEF g
  <2>2. g # <<>> /\ g[1] = from /\ g[Len(g)] = u[n + 1]
    <3>1. Len(g) # 0 /\ 1 \in 1 .. d
      BY <2>1, <1>2
    <3> QED
      BY <3>1, <2>1, <1>2 DEF v
  <2>3. ASSUME NEW x \in Elements(g) PROVE \E j \in 1 .. n + 1 : x = u[j]
    <3>1. PICK k \in 1 .. d + 1 : x = g[k]
      BY <2>1 DEF Elements
    <3>2. CASE k = d + 1
      BY <3>1, <3>2, <2>1, <1>1 DEF v
    <3>3. CASE k # d + 1
      <4>1. k \in 1 .. d
        BY <3>3, <1>2
      <4>2. x = f[k] /\ f[k] \in Elements(f)
        BY <4>1, <3>1, <2>1, <1>2 DEF Elements
      <4> QED
        BY <4>2, <1>5
    <3> QED
      BY <3>2, <3>3
  <2>4. ASSUME NEW k \in 1 .. d PROVE OfferedBy(ls, g[k], g[k + 1])
    <3>1. CASE k = d
      <4>1. f[d] \in Elements(f)
        <5>1. d \in DOMAIN f
          BY <1>2
        <5> QED
          BY <5>1, Zenon DEF Elements
      <4>2. u[n] # v
        BY <4>1, <1>2, <1>7
      <4>3. g[k] = u[n] /\ g[k + 1] = v
        BY <3>1, <2>1, <1>2
      <4> QED
        BY <4>2, <4>3, <1>3
    <3>2. CASE k # d
      <4>1. k \in 1 .. d - 1 /\ k + 1 \in 1 .. d
        BY <3>2, <1>2
      <4> QED
        BY <4>1, <2>1, <1>4
    <3> QED
      BY <3>1, <3>2
  <2>5. Len(g) - 1 = d
    BY <2>1, <1>2
  <2>6. Kept(g, u, n + 1, from, ls)
    BY <2>2, <2>3, <2>4, <2>5, Zenon DEF Kept
  <2> QED
    BY <2>6, <1>7 DEF v, g
<1> QED
  BY <1>6, <1>7

\* The loop that keeps the first occurrence of every version.
LEMMA KeepStep ==
    ASSUME CrossInv, Keep
    PROVE  CrossInv'
<1> USE DEF args
<1> DEFINE v == upgrades[scanned + 1]
           g == IF v \in Elements(finalUpgrades) THEN finalUpgrades ELSE Append(finalUpgrades, v)
<1>1. /\ crossPc = "return" /\ scanned < Len(upgrades) /\ scanned' = scanned + 1 /\ finalUpgrades' = g
      /\ UNCHANGED <<startVer, crossReqVer, crossPc, head, upgrades, current, requested, crossResult, blocked, legs>>
  BY DEF Keep
<1>2. /\ CrossTypes /\ crossResult = "none" /\ current = startVer
      /\ scanned = 0 => finalUpgrades = <<>>
      /\ Unbroken => Chain(upgrades, startVer, head, legs)
      /\ Unbroken /\ scanned > 0 => Kept(finalUpgrades, upgrades, scanned, startVer, legs)
      /\ ~blocked => requested = crossReqVer /\ head = crossReqVer
  BY <1>1 DEF CrossInv
<1>3. /\ startVer \in Int /\ head \in Int /\ upgrades \in Seq(Int) /\ finalUpgrades \in Seq(Int)
      /\ scanned \in Nat /\ Len(upgrades) \in Nat
  BY <1>2 DEF CrossTypes
<1>4. scanned + 1 \in 1 .. Len(upgrades) /\ v \in Int
  BY <1>1, <1>3
<1>5. g \in Seq(Int)
  BY <1>3, <1>4
<1> HIDE DEF g
<1>6. CrossTypes'
  <2>1. scanned + 1 \in 0 .. Len(upgrades)
    BY <1>3, <1>4
  <2> QED
    BY <2>1, <1>1, <1>2, <1>5 DEF CrossTypes
<1>7. ASSUME Unbroken PROVE Kept(g, upgrades, scanned + 1, startVer, legs)
  <2>1. CASE scanned = 0
    <3>1. finalUpgrades = <<>> /\ Elements(finalUpgrades) = {} /\ v = startVer
      BY <2>1, <1>2, <1>7 DEF Elements, Chain
    <3>2. g = <<startVer>>
      BY <3>1 DEF g
    <3>3. Elements(<<startVer>>) = {startVer}
      BY DEF Elements
    <3>4. upgrades[scanned + 1] = startVer /\ scanned + 1 = 1
      BY <3>1, <2>1
    <3> QED
      BY <3>2, <3>3, <3>4 DEF Kept
  <2>2. CASE scanned # 0
    <3>1. scanned \in 1 .. Len(upgrades) - 1 /\ scanned > 0
      BY <2>2, <1>1, <1>3
    <3> QED
      BY <3>1, <1>2, <1>3, <1>7, KeepNext DEF g
  <2> QED
    BY <2>1, <2>2
<1>8. Unbroken' => Unbroken
  BY <1>1 DEF Unbroken, Elements
<1>9. (Unbroken => Chain(upgrades, startVer, head, legs))'
  BY <1>1, <1>2, <1>8 DEF Chain, OfferedBy, Elements
<1>10. ASSUME Unbroken' PROVE Kept(finalUpgrades, upgrades, scanned, startVer, legs)'
  <2>1. Kept(finalUpgrades', upgrades', scanned', startVer', legs')
    BY <1>1, <1>7, <1>8, <1>10
  <2> QED
    BY <2>1 DEF Kept, OfferedBy, Elements
<1>11. scanned' # 0
  BY <1>1, <1>3
<1> QED
  BY <1>1, <1>2, <1>6, <1>9, <1>10, <1>11
  DEF CrossInv, UpgradesConnect, UnblockedReachesRequested

\* What is returned goes from the start to the requested version.
LEMMA ReturnStep ==
    ASSUME CrossInv, CrossReturn
    PROVE  CrossInv'
<1> USE DEF args
<1>1. /\ crossPc = "return" /\ crossPc' = "done" /\ scanned = Len(upgrades)
      /\ UNCHANGED <<startVer, crossReqVer, head, upgrades, scanned, current, requested, finalUpgrades, blocked, legs>>
  BY DEF CrossReturn
<1>2. /\ CrossTypes /\ current = startVer
      /\ Unbroken => Chain(upgrades, startVer, head, legs)
      /\ Unbroken /\ scanned > 0 => Kept(finalUpgrades, upgrades, scanned, startVer, legs)
      /\ ~blocked => requested = crossReqVer /\ head = crossReqVer
  BY <1>1 DEF CrossInv
<1>3. CrossTypes'
  BY <1>1, <1>2 DEF CrossTypes
<1>4. ASSUME Unbroken
      PROVE  /\ finalUpgrades[1] = startVer /\ finalUpgrades[Len(finalUpgrades)] = crossReqVer
             /\ \A k \in 1 .. Len(finalUpgrades) - 1 : OfferedBy(legs, finalUpgrades[k], finalUpgrades[k + 1])
  <2>1. upgrades \in Seq(Int) /\ upgrades # <<>> /\ upgrades[Len(upgrades)] = head
    BY <1>2, <1>4 DEF CrossTypes, Chain
  <2>2. scanned > 0
    BY <2>1, <1>1
  <2>3. Kept(finalUpgrades, upgrades, scanned, startVer, legs) /\ head = crossReqVer
    BY <2>2, <1>2, <1>4 DEF Unbroken
  <2> QED
    BY <2>1, <2>3, <1>1 DEF Kept
<1>5. UpgradesConnect'
  <2> SUFFICES ASSUME ~blocked', <<>> \notin Elements(legs)'
               PROVE  /\ (finalUpgrades[1] = startVer)' /\ (finalUpgrades[Len(finalUpgrades)] = crossReqVer)'
                      /\ \A k \in 1 .. Len(finalUpgrades') - 1 :
                             OfferedBy(legs, finalUpgrades'[k], finalUpgrades'[k + 1])
    <3>1. \A v, w : OfferedBy(legs, v, w) => Offered(v, w)'
      BY <1>1 DEF Offered, OfferedBy, Elements
    <3> QED
      BY <3>1 DEF UpgradesConnect
  <2>1. Unbroken
    BY <1>1 DEF Unbroken, Elements
  <2> QED
    BY <2>1, <1>1, <1>4
<1>6. UnblockedReachesRequested'
  BY <1>1, <1>2 DEF UnblockedReachesRequested
<1> QED
  BY <1>1, <1>3, <1>5, <1>6 DEF CrossInv

\* Every step of CalculateUpgrades keeps the invariant.
LEMMA CrossStep ==
    ASSUME CrossInv, [CrossNext]_crossVars
    PROVE  CrossInv'
<1> USE DEF args
<1>1. CASE Fails
  BY <1>1 DEF CrossInv, CrossTypes, Fails, UpgradesConnect, UnblockedReachesRequested
<1>2. CASE Blocked
  <2>1. /\ crossPc = "calculate" /\ crossPc' = "return" /\ blocked' = TRUE
        /\ UNCHANGED <<startVer, crossReqVer, head, upgrades, scanned, current, finalUpgrades, crossResult, legs>>
    BY <1>2 DEF Blocked
  <2>2. CrossTypes' /\ ~Unbroken'
    BY <2>1 DEF CrossInv, CrossTypes, Unbroken
  <2> QED
    BY <2>1, <2>2 DEF CrossInv, UpgradesConnect, UnblockedReachesRequested
<1>3. CASE UNCHANGED crossVars
  <2>1. UNCHANGED <<startVer, crossReqVer, crossPc, head, upgrades, scanned, current, requested,
                    finalUpgrades, crossResult, blocked, legs>>
    BY <1>3 DEF crossVars
  <2>2. (Unbroken' <=> Unbroken) /\ (CrossTypes' <=> CrossTypes)
    BY <2>1 DEF Unbroken, CrossTypes, Elements
  <2>3. /\ Chain(upgrades, startVer, head, legs)' <=> Chain(upgrades, startVer, head, legs)
        /\ Kept(finalUpgrades, upgrades, scanned, startVer, legs)'
               <=> Kept(finalUpgrades, upgrades, scanned, startVer, legs)
    BY <2>1 DEF Chain, Kept, OfferedBy, Elements
  <2>4. (UpgradesConnect' <=> UpgradesConnect)
        /\ (UnblockedReachesRequested' <=> UnblockedReachesRequested)
    BY <2>1 DEF UpgradesConnect, UnblockedReachesRequested, Offered, Elements
  <2> QED
    BY <2>1, <2>2, <2>3, <2>4 DEF CrossInv
<1>4. CASE CrossFinished
  BY <1>3, <1>4 DEF CrossFinished
<1> QED
  BY <1>1, <1>2, <1>3, <1>4, OneChannelStep, FirstChannelStep, UpgradeStep, KeepStep, ReturnStep
  DEF CrossNext, CalculateUpgrades

\* CalculateUpgrades keeps its invariant, through any number of channels and
\* whatever each of them answers.
THEOREM CrossInvariance == CrossSpec => []CrossInv
<1>1. CrossInv /\ [CrossNext]_crossVars => CrossInv'
  BY CrossStep
<1> QED
  BY <1>1, CrossStart, PTL DEF CrossSpec

\* Through any number of channels, whatever each of them answers: unless a
\* version is blocked or a channel has no path, what CalculateUpgrades returns
\* is one chain of offered upgrades from the start to the requested version.
\* Dropping the versions that are there already never tears it.
THEOREM UpgradesAreOneChain == CrossSpec => []UpgradesConnect
<1>1. CrossInv => UpgradesConnect
  BY DEF CrossInv
<1> QED
  BY <1>1, CrossInvariance, PTL

\* Unless a version is blocked, the last channel is followed to the requested
\* version and no further, however many channels are in between.
THEOREM ReachesRequested == CrossSpec => []UnblockedReachesRequested
<1>1. CrossInv => UnblockedReachesRequested
  BY DEF CrossInv
<1> QED
  BY <1>1, CrossInvariance, PTL

-----------------------------------------------------------------------------
(***************************************************************************)
(* What CrossChannel takes GetUpdates to return is what it returns.        *)
(***************************************************************************)
\* Along a path to ever newer versions, the versions climb at least as fast as
\* the positions.
LEMMA Climbs ==
    ASSUME NEW n \in Nat, NEW p \in [1 .. n -> Int], \A k \in 1 .. n - 1 : p[k] < p[k + 1]
    PROVE  \A j, k \in 1 .. n : j <= k => p[j] + (k - j) <= p[k]
<1> SUFFICES ASSUME NEW j \in 1 .. n,
                    {k \in 1 .. n : j <= k /\ ~(p[j] + (k - j) <= p[k])} # {}
             PROVE  FALSE
  OBVIOUS
<1> DEFINE T == {k \in 1 .. n : j <= k /\ ~(p[j] + (k - j) <= p[k])}
<1>1. T \in SUBSET Nat /\ T # {}
  OBVIOUS
<1>2. PICK x \in T : \A y \in T : x <= y
  <2> HIDE DEF T
  <2> QED
    BY <1>1, Least
<1>3. /\ x \in 1 .. n /\ j <= x /\ ~(p[j] + (x - j) <= p[x])
      /\ p[j] \in Int /\ p[x] \in Int
  OBVIOUS
<1>4. x # j
  BY <1>3
<1>5. x - 1 \in 1 .. n /\ x - 1 \in 1 .. n - 1 /\ j <= x - 1 /\ ~(x <= x - 1) /\ (x - 1) + 1 = x
  BY <1>3, <1>4
<1>6. x - 1 \notin T
  BY <1>2, <1>5
<1>7. p[x - 1] \in Int /\ p[j] + ((x - 1) - j) <= p[x - 1]
  BY <1>5, <1>6
<1>8. p[x - 1] < p[x]
  BY <1>5
<1> QED
  BY <1>3, <1>5, <1>7, <1>8

\* Where every upgrade goes to a newer version, the path of GetUpdates is one
\* of those that CrossChannel takes from a channel, on every upgrade graph of
\* no more versions than there are in all.
THEOREM AnswersCrossChannel ==
    ASSUME Nodes <= Versions
    PROVE  Spec => [](result = "ok" /\ (\A e \in edges : e[1] < e[2])
                          => path \in ChannelUpdates(version, reqVer))
<1>1. PathInv /\ PathIsShortest =>
          (result = "ok" /\ (\A e \in edges : e[1] < e[2]) => path \in ChannelUpdates(version, reqVer))
  <2> SUFFICES ASSUME PathInv, PathIsShortest, result = "ok", \A e \in edges : e[1] < e[2]
               PROVE  path \in ChannelUpdates(version, reqVer)
    OBVIOUS
  <2>1. /\ path \in Seq(Node) /\ Len(path) \in Nat
        /\ version \in Node /\ reqVer \in Node
    BY DEF PathInv, TypeInv, Begun
  <2>2. /\ path # <<>> => path \in Paths(Len(path))
        /\ \A len \in 1 .. Nodes : Paths(len) # {} => path # <<>> /\ Len(path) <= len
    BY DEF PathIsShortest
  <2>3. version \in 0 .. Nodes - 1 /\ reqVer \in 0 .. Nodes - 1 /\ Nodes \in Nat
    BY <2>1, GraphAssumption DEF Node
  <2>4. CASE version = reqVer
    <3> DEFINE p == [k \in 1 .. 1 |-> version]
    <3>1. p \in Paths(1)
      BY <2>1, <2>4 DEF Paths
    <3>2. 1 \in 1 .. Nodes
      BY <2>3
    <3>3. path # <<>> /\ Len(path) <= 1
      BY <3>1, <3>2, <2>2
    <3>4. Len(path) = 1
      <4> DEFINE n == Len(path)
      <4>1. n # 0 /\ n \in Nat /\ n <= 1
        BY <3>3, <2>1
      <4> HIDE DEF n
      <4>2. n = 1
        BY <4>1
      <4> QED
        BY <4>2 DEF n
    <3>5. path[1] = version
      BY <3>3, <2>2 DEF Paths
    <3>6. path = <<version>>
      BY <3>4, <3>5, <2>1
    <3> QED
      BY <3>6, <2>4 DEF ChannelUpdates
  <2>5. CASE version # reqVer /\ path # <<>>
    <3> DEFINE n == Len(path)
    <3>1. /\ path \in [1 .. n -> Node] /\ path[1] = version /\ path[n] = reqVer
          /\ \A k \in 1 .. n - 1 : <<path[k], path[k + 1]>> \in edges
      BY <2>2, <2>5 DEF Paths
    <3>2. n \in Nat /\ n # 0
      BY <2>1, <2>5
    <3>3. path \in [1 .. n -> Int]
      BY <3>1, GraphAssumption DEF Node
    <3>4. \A k \in 1 .. n - 1 : path[k] < path[k + 1]
      BY <3>1
    <3> HIDE DEF n
    <3>5. \A j, k \in 1 .. n : j <= k => path[j] + (k - j) <= path[k]
      BY <3>2, <3>3, <3>4, Climbs
    <3>6. n >= 2 /\ 1 \in 1 .. n /\ n \in 1 .. n
      BY <3>1, <3>2, <2>5
    <3>7. \A k \in 1 .. n : path[k] \in version .. reqVer
      <4> TAKE k \in 1 .. n
      <4>1. path[1] + (k - 1) <= path[k] /\ path[k] + (n - k) <= path[n] /\ path[k] \in Int
        BY <3>2, <3>3, <3>5, <3>6
      <4> QED
        BY <4>1, <3>1, <3>2, <2>3
    <3>8. n <= Nodes
      <4>1. path[1] + (n - 1) <= path[n]
        BY <3>5, <3>6
      <4> QED
        BY <4>1, <3>1, <3>2, <2>3
    <3>9. Ascending(path)
      <4> SUFFICES ASSUME NEW j \in 1 .. n, NEW k \in 1 .. n, j < k PROVE path[j] < path[k]
        BY <3>1 DEF Ascending
      <4>1. path[j] + (k - j) <= path[k] /\ path[j] \in Int /\ path[k] \in Int
        BY <3>2, <3>3, <3>5
      <4> QED
        BY <4>1, <3>2
    <3>10. path \in [1 .. n -> version .. reqVer]
      BY <3>1, <3>7
    <3>11. n \in 2 .. Versions
      BY <3>2, <3>6, <3>8, <2>3, ChannelAssumption
    <3>12. path[1] = version /\ path[Len(path)] = reqVer
      BY <3>1 DEF n
    <3> QED
      BY <3>9, <3>10, <3>11, <3>12, <2>5 DEF ChannelUpdates
  <2>6. CASE version # reqVer /\ path = <<>>
    BY <2>6 DEF ChannelUpdates
  <2> QED
    BY <2>4, <2>5, <2>6
<1> QED
  BY <1>1, PathInvariance, FindsShortest, PTL
=============================================================================
