------------------------ MODULE NrkReadyListProofs ------------------------
(***************************************************************************)
(* The linked list implements the sequence.  The inductive invariant gives *)
(* the two sequences of nodes that the operators of NrkReadyList compute   *)
(* by recursion: q, met along next from head, and f, met from free.  What  *)
(* the recursions return is derived from q and f once, in the first part,  *)
(* and then only the links that an insertion or a removal writes matter.   *)
(***************************************************************************)
EXTENDS NrkReadyList, NrkQueueLemmas, SequenceTheorems

\* q is what is met along next from start.
Chain(l, start, q) ==
    /\ q \in Seq(Node)
    /\ start = IF q = <<>> THEN NULL ELSE q[1]
    /\ \A i \in 1..Len(q) : l.next[q[i]] = IF i = Len(q) THEN NULL ELSE q[i + 1]

NoNodeTwice(q) == \A i, j \in 1..Len(q) : q[i] = q[j] => i = j

\* Every node is in one of the two sequences, once.
Split(q, f) ==
    /\ NoNodeTwice(q) /\ NoNodeTwice(f)
    /\ \A i \in 1..Len(q), j \in 1..Len(f) : q[i] # f[j]
    /\ \A n \in Node : \/ \E i \in 1..Len(q) : q[i] = n
                       \/ \E j \in 1..Len(f) : f[j] = n
    /\ Len(q) + Len(f) = PoolSize

Threads(l, q, f) == Chain(l, l.head, q) /\ Chain(l, l.free, f) /\ Split(q, f)

\* A property of the last position that is passed on from every position to
\* the one before it holds of all.
LEMMA FromTheEnd ==
    ASSUME NEW n \in Nat, NEW S,
           \A i \in 1..n : (i = n \/ i + 1 \in S) => i \in S
    PROVE  \A i \in 1..n : i \in S
<1> DEFINE T == {k \in Nat : k < n /\ n - k \notin S}
<1> SUFFICES ASSUME NEW i \in 1..n, i \notin S PROVE FALSE
  OBVIOUS
<1>1. n - i \in T /\ T \in SUBSET Nat
  <2>1. n - i \in Nat /\ n - i < n /\ n - (n - i) = i
    OBVIOUS
  <2> QED BY <2>1
<1>2. PICK k \in T : \A y \in T : k <= y
  BY <1>1, LeastElement
<1>3. n - k \in 1..n /\ n - k \notin S
  BY <1>2
<1>4. n - k # n /\ n - k + 1 \notin S
  BY <1>3
<1>5. k - 1 \in T
  <2>1. k \in Nat /\ k # 0 /\ k < n
    BY <1>2, <1>4
  <2>2. k - 1 \in Nat /\ k - 1 < n /\ n - (k - 1) = n - k + 1
    BY <2>1
  <2> QED BY <2>2, <1>4
<1> QED BY <1>2, <1>5

-----------------------------------------------------------------------------
(* What PathFrom computes.                                                 *)

IsPath(p, l) ==
    p = [n \in Node \cup {NULL} |->
            IF n = NULL THEN <<>> ELSE <<n>> \o p[l.next[n]]]

LEMMA PathFromIsChosen ==
    ASSUME NEW l, NEW start
    PROVE  PathFrom(l, start) = (CHOOSE p : IsPath(p, l))[start]
BY DEF PathFrom, IsPath

Suffix(q, i) == [k \in 1..Len(q) - i + 1 |-> q[i + k - 1]]

LEMMA SuffixStep ==
    ASSUME NEW q \in Seq(Node), NEW i \in 1..Len(q)
    PROVE  /\ Suffix(q, i) = <<q[i]>> \o Suffix(q, i + 1)
           /\ i = Len(q) => Suffix(q, i + 1) = <<>>
           /\ Suffix(q, 1) = q
<1>1. Len(q) \in Nat /\ Len(q) - i \in Nat
  OBVIOUS
<1> DEFINE s == Suffix(q, i + 1)
           h == <<q[i]>>
           r == h \o s
<1>2. s \in Seq(Node) /\ Len(s) = Len(q) - i /\ \A k \in 1..Len(q) - i : s[k] = q[i + k]
  <2>1. Len(q) - (i + 1) + 1 = Len(q) - i /\ \A k \in 1..Len(q) - i : (i + 1) + k - 1 = i + k
    BY <1>1
  <2>2. s = [k \in 1..Len(q) - i |-> q[i + k]]
    BY <2>1 DEF Suffix
  <2>3. \A k \in 1..Len(q) - i : q[i + k] \in Node
    BY <1>1
  <2> HIDE DEF s
  <2> QED BY <1>1, <2>2, <2>3
<1> HIDE DEF s
<1>3. /\ r \in Seq(Node) /\ Len(r) = Len(q) - i + 1
      /\ \A k \in 1..Len(q) - i + 1 : r[k] = IF k = 1 THEN q[i] ELSE s[k - 1]
  <2>1. h \in Seq(Node) /\ Len(h) = 1 /\ h[1] = q[i]
    OBVIOUS
  <2> HIDE DEF h
  <2>2. /\ r \in Seq(Node) /\ Len(r) = Len(h) + Len(s)
        /\ \A k \in 1..Len(h) + Len(s) : r[k] = IF k <= Len(h) THEN h[k] ELSE s[k - Len(h)]
    BY <1>2, <2>1, ConcatProperties, Zenon
  <2> QED BY <1>1, <1>2, <2>1, <2>2
<1> HIDE DEF r
<1>4. \A k \in 1..Len(q) - i + 1 : r[k] = q[i + k - 1]
  <2> SUFFICES ASSUME NEW k \in 1..Len(q) - i + 1 PROVE r[k] = q[i + k - 1]
    OBVIOUS
  <2>1. CASE k = 1
    BY <1>3, <2>1
  <2>2. CASE k # 1
    <3>1. k - 1 \in 1..Len(q) - i /\ i + (k - 1) = i + k - 1
      BY <1>1, <2>2
    <3> QED BY <1>2, <1>3, <2>2, <3>1
  <2> QED BY <2>1, <2>2
<1>5. Suffix(q, i) = r
  <2>1. r = [k \in 1..Len(q) - i + 1 |-> r[k]]
    BY <1>1, <1>3
  <2> QED BY <1>4, <2>1 DEF Suffix
<1>6. i = Len(q) => s = <<>>
  <2>1. i = Len(q) => Len(s) = 0
    BY <1>1, <1>2
  <2> QED BY <1>2, <2>1
<1>7. Suffix(q, 1) = q
  <2>1. Len(q) - 1 + 1 = Len(q) /\ \A k \in 1..Len(q) : 1 + k - 1 = k
    BY <1>1
  <2>2. q = [k \in 1..Len(q) |-> q[k]]
    OBVIOUS
  <2> QED BY <2>1, <2>2 DEF Suffix
<1> QED BY <1>5, <1>6, <1>7 DEF r, s

\* Along a chain every path is the rest of the chain.
LEMMA PathAlongChain ==
    ASSUME NEW l, NEW start, NEW q, Chain(l, start, q), NEW p, IsPath(p, l)
    PROVE  p[start] = q
<1> DEFINE S == {i \in 1..Len(q) : p[q[i]] = Suffix(q, i)}
<1>1. q \in Seq(Node) /\ Len(q) \in Nat /\ \A n \in Node : n # NULL
  BY DEF Chain, Node, NULL
<1>2. /\ p[NULL] = <<>>
      /\ \A n \in Node : p[n] = <<n>> \o p[l.next[n]]
  BY <1>1 DEF IsPath
<1>3. ASSUME NEW i \in 1..Len(q), i = Len(q) \/ i + 1 \in S PROVE i \in S
  <2>1. q[i] \in Node
    BY <1>1
  <2>2. p[l.next[q[i]]] = Suffix(q, i + 1)
    <3>1. CASE i = Len(q)
      BY <1>1, <1>2, <3>1, SuffixStep DEF Chain
    <3>2. CASE i # Len(q)
      BY <1>1, <1>3, <3>2 DEF Chain
    <3> QED BY <3>1, <3>2
  <2>3. p[q[i]] = <<q[i]>> \o Suffix(q, i + 1)
    BY <1>2, <2>1, <2>2
  <2>4. p[q[i]] = Suffix(q, i)
    BY <1>1, <2>3, SuffixStep
  <2> QED BY <2>4
<1>4. \A i \in 1..Len(q) : i \in S
  <2> HIDE DEF S
  <2> QED BY <1>1, <1>3, FromTheEnd
<1>5. CASE q = <<>>
  BY <1>2, <1>5 DEF Chain
<1>6. CASE q # <<>>
  <2>1. 1 \in 1..Len(q)
    BY <1>1, <1>6
  <2>2. p[q[1]] = Suffix(q, 1) /\ Suffix(q, 1) = q
    BY <1>1, <1>4, <2>1, SuffixStep
  <2> QED BY <1>6, <2>2 DEF Chain
<1> QED BY <1>5, <1>6

\* Two chains that share out the nodes between them make every path end.
PositionIn(q, n) == CHOOSE i \in 1..Len(q) : q[i] = n

LEMMA PositionInSpec ==
    ASSUME NEW q, NoNodeTwice(q), NEW i \in 1..Len(q)
    PROVE  PositionIn(q, q[i]) = i
BY DEF PositionIn, NoNodeTwice

LEMMA PathExists ==
    ASSUME NEW l, NEW q, NEW f, Threads(l, q, f)
    PROVE  \E p : IsPath(p, l)
<1> DEFINE p == [n \in Node \cup {NULL} |->
                    IF n = NULL THEN <<>>
                    ELSE IF \E i \in 1..Len(q) : q[i] = n THEN Suffix(q, PositionIn(q, n))
                    ELSE Suffix(f, PositionIn(f, n))]
<1>1. /\ q \in Seq(Node) /\ f \in Seq(Node) /\ Len(q) \in Nat /\ Len(f) \in Nat
      /\ \A n \in Node : n # NULL
  BY DEF Threads, Chain, Node, NULL
<1>2. \A i \in 1..Len(q) : p[q[i]] = Suffix(q, i)
  BY <1>1, PositionInSpec DEF Threads, Split
<1>3. ASSUME NEW j \in 1..Len(f) PROVE p[f[j]] = Suffix(f, j)
  <2>1. f[j] \in Node /\ f[j] # NULL /\ ~\E i \in 1..Len(q) : q[i] = f[j]
    BY <1>1 DEF Threads, Split
  <2>2. PositionIn(f, f[j]) = j
    BY PositionInSpec DEF Threads, Split
  <2> QED BY <2>1, <2>2
<1>4. p[NULL] = <<>> /\ DOMAIN p = Node \cup {NULL}
  OBVIOUS
<1>5. p = [n \in Node \cup {NULL} |-> p[n]]
  OBVIOUS
<1> HIDE DEF p
<1>6. ASSUME NEW s, NEW c, Chain(l, s, c), \A i \in 1..Len(c) : p[c[i]] = Suffix(c, i),
             NEW i \in 1..Len(c)
      PROVE  p[c[i]] = <<c[i]>> \o p[l.next[c[i]]]
  <2>1. c \in Seq(Node) /\ Len(c) \in Nat
    BY <1>6 DEF Chain
  <2>2. p[l.next[c[i]]] = Suffix(c, i + 1)
    <3>1. CASE i = Len(c)
      <4>1. Suffix(c, i + 1) = <<>>
        BY <2>1, <3>1, SuffixStep
      <4> QED BY <1>4, <1>6, <3>1, <4>1 DEF Chain
    <3>2. CASE i # Len(c)
      <4>1. i + 1 \in 1..Len(c)
        BY <2>1, <3>2
      <4> QED BY <1>6, <3>2, <4>1 DEF Chain
    <3> QED BY <3>1, <3>2
  <2> QED BY <1>6, <2>1, <2>2, SuffixStep
<1>7. \A n \in Node : p[n] = <<n>> \o p[l.next[n]]
  <2> SUFFICES ASSUME NEW n \in Node PROVE p[n] = <<n>> \o p[l.next[n]]
    OBVIOUS
  <2>1. CASE \E i \in 1..Len(q) : q[i] = n
    <3>1. PICK i \in 1..Len(q) : q[i] = n
      BY <2>1
    <3>2. p[q[i]] = <<q[i]>> \o p[l.next[q[i]]]
      BY <1>2, <1>6 DEF Threads
    <3> QED BY <3>1, <3>2
  <2>2. CASE \E j \in 1..Len(f) : f[j] = n
    <3>1. PICK j \in 1..Len(f) : f[j] = n
      BY <2>2
    <3>2. p[f[j]] = <<f[j]>> \o p[l.next[f[j]]]
      BY <1>3, <1>6 DEF Threads
    <3> QED BY <3>1, <3>2
  <2> QED BY <2>1, <2>2 DEF Threads, Split
<1>8. IsPath(p, l)
  BY <1>1, <1>4, <1>5, <1>7 DEF IsPath
<1> QED BY <1>8

LEMMA PathIsChain ==
    ASSUME NEW l, NEW q, NEW f, Threads(l, q, f)
    PROVE  PathFrom(l, l.head) = q /\ PathFrom(l, l.free) = f
<1>1. IsPath(CHOOSE p : IsPath(p, l), l)
  BY PathExists
<1> QED BY <1>1, PathAlongChain, PathFromIsChosen DEF Threads

-----------------------------------------------------------------------------
(* What the two scans compute: the first node of a chain in a set of       *)
(* nodes, NULL if there is none.                                           *)

IsWalk(w, l, S) ==
    w = [n \in Node \cup {NULL} |-> IF n = NULL \/ n \in S THEN n ELSE w[l.next[n]]]

EndsAt(q, S, i, n) ==
    \/ n = NULL /\ \A j \in i..Len(q) : q[j] \notin S
    \/ \E j \in i..Len(q) : n = q[j] /\ q[j] \in S /\ \A k \in i..j - 1 : q[k] \notin S

LEMMA EndStep ==
    ASSUME NEW q \in Seq(Node), NEW S, NEW i \in 1..Len(q), NEW n
    PROVE  /\ q[i] \in S => EndsAt(q, S, i, q[i])
           /\ q[i] \notin S /\ i = Len(q) => EndsAt(q, S, i, NULL)
           /\ q[i] \notin S /\ i # Len(q) /\ EndsAt(q, S, i + 1, n) => EndsAt(q, S, i, n)
<1>1. Len(q) \in Nat
  OBVIOUS
<1>2. ASSUME q[i] \in S PROVE EndsAt(q, S, i, q[i])
  <2>1. i \in i..Len(q) /\ i..i - 1 = {}
    BY <1>1
  <2> QED BY <1>2, <2>1 DEF EndsAt
<1>3. ASSUME q[i] \notin S, i = Len(q) PROVE EndsAt(q, S, i, NULL)
  BY <1>1, <1>3 DEF EndsAt
<1>4. ASSUME q[i] \notin S, i # Len(q), EndsAt(q, S, i + 1, n) PROVE EndsAt(q, S, i, n)
  <2>1. CASE n = NULL /\ \A j \in i + 1..Len(q) : q[j] \notin S
    <3>1. \A j \in i..Len(q) : j = i \/ j \in i + 1..Len(q)
      BY <1>1
    <3> QED BY <1>4, <2>1, <3>1 DEF EndsAt
  <2>2. ASSUME NEW j \in i + 1..Len(q), n = q[j], q[j] \in S,
               \A k \in i + 1..j - 1 : q[k] \notin S
        PROVE  EndsAt(q, S, i, n)
    <3>1. j \in i..Len(q) /\ \A k \in i..j - 1 : k = i \/ k \in i + 1..j - 1
      BY <1>1
    <3> QED BY <1>4, <2>2, <3>1 DEF EndsAt
  <2> QED BY <1>4, <2>1, <2>2 DEF EndsAt
<1> QED BY <1>2, <1>3, <1>4

LEMMA EndUnique ==
    ASSUME NEW q \in Seq(Node), NEW S, NEW i \in 1..Len(q), NEW n, NEW m,
           EndsAt(q, S, i, n), EndsAt(q, S, i, m)
    PROVE  n = m
<1>1. Len(q) \in Nat
  OBVIOUS
<1>2. ASSUME NEW j \in i..Len(q), q[j] \in S, \A k \in i..j - 1 : q[k] \notin S,
             NEW h \in i..Len(q), q[h] \in S, \A k \in i..h - 1 : q[k] \notin S
      PROVE  j = h
  <2>1. j \notin i..h - 1 /\ h \notin i..j - 1
    BY <1>2
  <2> QED BY <1>1, <2>1
<1> QED BY <1>2 DEF EndsAt

LEMMA EndExists ==
    ASSUME NEW q \in Seq(Node), NEW S, NEW i \in 1..Len(q)
    PROVE  \E n : EndsAt(q, S, i, n)
<1> DEFINE T == {j \in 1..Len(q) : \E n : EndsAt(q, S, j, n)}
<1>1. Len(q) \in Nat
  OBVIOUS
<1>2. ASSUME NEW j \in 1..Len(q), j = Len(q) \/ j + 1 \in T PROVE j \in T
  <2>1. CASE q[j] \in S
    BY <2>1, EndStep
  <2>2. CASE q[j] \notin S /\ j = Len(q)
    BY <2>2, EndStep
  <2>3. CASE q[j] \notin S /\ j # Len(q)
    <3>1. PICK n : EndsAt(q, S, j + 1, n)
      BY <1>2, <2>3
    <3>2. EndsAt(q, S, j, n)
      BY <2>3, <3>1, EndStep
    <3> QED BY <3>2
  <2> QED BY <2>1, <2>2, <2>3
<1>3. \A j \in 1..Len(q) : j \in T
  <2> HIDE DEF T
  <2> QED BY <1>1, <1>2, FromTheEnd
<1> QED BY <1>3

LEMMA WalkAlongChain ==
    ASSUME NEW l, NEW start, NEW q, Chain(l, start, q), NEW S, NEW w, IsWalk(w, l, S)
    PROVE  EndsAt(q, S, 1, w[start])
<1> DEFINE T == {i \in 1..Len(q) : EndsAt(q, S, i, w[q[i]])}
<1>1. q \in Seq(Node) /\ Len(q) \in Nat /\ \A n \in Node : n # NULL
  BY DEF Chain, Node, NULL
<1>2. /\ w[NULL] = NULL
      /\ \A n \in Node : w[n] = IF n \in S THEN n ELSE w[l.next[n]]
  BY <1>1 DEF IsWalk
<1>3. ASSUME NEW i \in 1..Len(q), i = Len(q) \/ i + 1 \in T PROVE i \in T
  <2>1. w[q[i]] = IF q[i] \in S THEN q[i] ELSE w[l.next[q[i]]]
    BY <1>1, <1>2
  <2>2. CASE q[i] \in S
    BY <1>1, <2>1, <2>2, EndStep
  <2>3. CASE q[i] \notin S /\ i = Len(q)
    <3>1. w[q[i]] = NULL
      BY <1>2, <2>1, <2>3 DEF Chain
    <3>2. EndsAt(q, S, i, NULL)
      BY <1>1, <2>3, EndStep
    <3> QED BY <3>1, <3>2
  <2>4. CASE q[i] \notin S /\ i # Len(q)
    <3>1. w[q[i]] = w[q[i + 1]] /\ EndsAt(q, S, i + 1, w[q[i + 1]])
      BY <1>3, <2>1, <2>4 DEF Chain
    <3>2. EndsAt(q, S, i, w[q[i + 1]])
      BY <1>1, <2>4, <3>1, EndStep
    <3> QED BY <3>1, <3>2
  <2> QED BY <2>2, <2>3, <2>4
<1>4. \A i \in 1..Len(q) : i \in T
  <2> HIDE DEF T
  <2> QED BY <1>1, <1>3, FromTheEnd
<1>5. CASE q = <<>>
  <2>1. start = NULL /\ 1..Len(q) = {}
    BY <1>5 DEF Chain
  <2> QED BY <1>2, <2>1 DEF EndsAt
<1>6. CASE q # <<>>
  <2>1. 1 \in 1..Len(q) /\ start = q[1]
    BY <1>1, <1>6 DEF Chain
  <2> QED BY <1>4, <2>1
<1> QED BY <1>5, <1>6

LEMMA WalkExists ==
    ASSUME NEW l, NEW q, NEW f, Threads(l, q, f), NEW S
    PROVE  \E w : IsWalk(w, l, S)
<1> DEFINE end(c, n) == CHOOSE m : EndsAt(c, S, PositionIn(c, n), m)
           w == [n \in Node \cup {NULL} |->
                    IF n = NULL THEN NULL
                    ELSE IF \E i \in 1..Len(q) : q[i] = n THEN end(q, n) ELSE end(f, n)]
<1>1. /\ q \in Seq(Node) /\ f \in Seq(Node) /\ Len(q) \in Nat /\ Len(f) \in Nat
      /\ \A n \in Node : n # NULL
  BY DEF Threads, Chain, Node, NULL
<1>2. ASSUME NEW c \in Seq(Node), NoNodeTwice(c), NEW i \in 1..Len(c)
      PROVE  EndsAt(c, S, i, end(c, c[i]))
  <2>1. PositionIn(c, c[i]) = i
    BY <1>2, PositionInSpec
  <2>2. \E m : EndsAt(c, S, i, m)
    BY EndExists
  <2> QED BY <2>1, <2>2
<1> HIDE DEF end
<1>3. \A i \in 1..Len(q) : w[q[i]] = end(q, q[i])
  BY <1>1
<1>4. \A j \in 1..Len(f) : w[f[j]] = end(f, f[j])
  BY <1>1 DEF Threads, Split
<1>5. w[NULL] = NULL /\ w = [n \in Node \cup {NULL} |-> w[n]]
  OBVIOUS
<1> HIDE DEF w
<1>6. ASSUME NEW s, NEW c, Chain(l, s, c), NoNodeTwice(c),
             \A i \in 1..Len(c) : w[c[i]] = end(c, c[i]), NEW i \in 1..Len(c)
      PROVE  w[c[i]] = IF c[i] \in S THEN c[i] ELSE w[l.next[c[i]]]
  <2>1. c \in Seq(Node) /\ Len(c) \in Nat /\ EndsAt(c, S, i, w[c[i]])
    BY <1>2, <1>6 DEF Chain
  <2>2. CASE c[i] \in S
    BY <2>1, <2>2, EndStep, EndUnique
  <2>3. CASE c[i] \notin S /\ i = Len(c)
    <3>1. EndsAt(c, S, i, NULL)
      BY <2>1, <2>3, EndStep
    <3>2. w[c[i]] = NULL
      BY <2>1, <3>1, EndUnique
    <3> QED BY <1>5, <1>6, <2>3, <3>2 DEF Chain
  <2>4. CASE c[i] \notin S /\ i # Len(c)
    <3>1. i + 1 \in 1..Len(c)
      BY <2>1, <2>4
    <3>2. EndsAt(c, S, i + 1, w[c[i + 1]])
      BY <1>2, <1>6, <2>1, <3>1
    <3>3. EndsAt(c, S, i, w[c[i + 1]])
      BY <2>1, <2>4, <3>2, EndStep
    <3>4. w[c[i]] = w[c[i + 1]]
      BY <2>1, <3>3, EndUnique
    <3> QED BY <1>6, <2>4, <3>4 DEF Chain
  <2> QED BY <2>2, <2>3, <2>4
<1>7. \A n \in Node : w[n] = IF n \in S THEN n ELSE w[l.next[n]]
  <2> SUFFICES ASSUME NEW n \in Node PROVE w[n] = IF n \in S THEN n ELSE w[l.next[n]]
    OBVIOUS
  <2>1. CASE \E i \in 1..Len(q) : q[i] = n
    <3>1. PICK i \in 1..Len(q) : q[i] = n
      BY <2>1
    <3>2. w[q[i]] = IF q[i] \in S THEN q[i] ELSE w[l.next[q[i]]]
      BY <1>3, <1>6 DEF Threads, Split
    <3> QED BY <3>1, <3>2
  <2>2. CASE \E j \in 1..Len(f) : f[j] = n
    <3>1. PICK j \in 1..Len(f) : f[j] = n
      BY <2>2
    <3>2. w[f[j]] = IF f[j] \in S THEN f[j] ELSE w[l.next[f[j]]]
      BY <1>4, <1>6 DEF Threads, Split
    <3> QED BY <3>1, <3>2
  <2> QED BY <2>1, <2>2 DEF Threads, Split
<1>8. IsWalk(w, l, S)
  BY <1>1, <1>5, <1>7 DEF IsWalk
<1> QED BY <1>8

\* The scan of nrk_add_to_readyQ stops at the first queued node t goes before.
LEMMA ScanStopEnds ==
    ASSUME NEW l, NEW q, NEW f, Threads(l, q, f), NEW t
    PROVE  EndsAt(q, {n \in Node : GoesBefore(t, l.task[n], elevated, ceil)}, 1, ScanStop(l, t))
<1> DEFINE S == {n \in Node : GoesBefore(t, l.task[n], elevated, ceil)}
           body(w) == [n \in Node \cup {NULL} |->
                         IF n = NULL \/ GoesBefore(t, l.task[n], elevated, ceil)
                         THEN n ELSE w[l.next[n]]]
<1>1. ScanStop(l, t) = (CHOOSE w : w = body(w))[l.head]
  BY Zenon DEF ScanStop
<1>2. \A w : w = body(w) <=> IsWalk(w, l, S)
  BY DEF IsWalk
<1> HIDE DEF body
<1>3. \E w : w = body(w)
  BY <1>2, WalkExists
<1>4. IsWalk(CHOOSE w : w = body(w), l, S)
  BY <1>2, <1>3
<1> HIDE DEF S
<1>5. EndsAt(q, S, 1, ScanStop(l, t))
  BY <1>1, <1>4, WalkAlongChain DEF Threads
<1> QED BY <1>5 DEF S

\* The scan of nrk_rem_from_readyQ stops at the first queued node of t.
LEMMA FindNodeEnds ==
    ASSUME NEW l, NEW q, NEW f, Threads(l, q, f), NEW t
    PROVE  EndsAt(q, {n \in Node : l.task[n] = t}, 1, FindNode(l, t))
<1> DEFINE S == {n \in Node : l.task[n] = t}
           body(w) == [n \in Node \cup {NULL} |->
                         IF n = NULL \/ l.task[n] = t THEN n ELSE w[l.next[n]]]
<1>1. FindNode(l, t) = (CHOOSE w : w = body(w))[l.head]
  BY Zenon DEF FindNode
<1>2. \A w : w = body(w) <=> IsWalk(w, l, S)
  BY DEF IsWalk
<1> HIDE DEF body
<1>3. \E w : w = body(w)
  BY <1>2, WalkExists
<1>4. IsWalk(CHOOSE w : w = body(w), l, S)
  BY <1>2, <1>3
<1> HIDE DEF S
<1>5. EndsAt(q, S, 1, FindNode(l, t))
  BY <1>1, <1>4, WalkAlongChain DEF Threads
<1> QED BY <1>5 DEF S

-----------------------------------------------------------------------------
(* The invariant.                                                          *)

Link == Node \cup {NULL}

ListType(l) == l \in [task : [Node -> Task], prev : [Node -> Link], next : [Node -> Link],
                      head : Link, free : Link, fault : BOOLEAN]

BackLinked(l, q) == \A i \in 1..Len(q) : l.prev[q[i]] = IF i = 1 THEN NULL ELSE q[i - 1]

TasksOf(l, q) == [i \in 1..Len(q) |-> l.task[q[i]]]

Sound(l, q, f) ==
    /\ ListType(l) /\ ~l.fault
    /\ Threads(l, q, f) /\ BackLinked(l, q)
    /\ IdleAtEnd(TasksOf(l, q))

LEMMA TasksOfType ==
    ASSUME NEW l, ListType(l), NEW q \in Seq(Node)
    PROVE  /\ TasksOf(l, q) \in Seq(Task) /\ Len(TasksOf(l, q)) = Len(q)
           /\ \A i \in 1..Len(q) : TasksOf(l, q)[i] = l.task[q[i]]
<1>1. Len(q) \in Nat /\ \A i \in 1..Len(q) : l.task[q[i]] \in Task
  BY DEF ListType
<1>2. TasksOf(l, q) \in [1..Len(q) -> Task]
  BY <1>1 DEF TasksOf
<1>3. TasksOf(l, q) \in Seq(Task) /\ Len(TasksOf(l, q)) = Len(q)
  BY <1>1, <1>2
<1> QED BY <1>3 DEF TasksOf

\* The queued path is never empty, and only the last node holds the idle task.
LEMMA SoundQueue ==
    ASSUME NEW l, NEW q, NEW f, Sound(l, q, f)
    PROVE  /\ q \in Seq(Node) /\ f \in Seq(Node)
           /\ Len(q) \in Nat \ {0} /\ Len(f) \in Nat /\ Len(q) + Len(f) = PoolSize
           /\ l.head = q[1] /\ l.head \in Node
           /\ \A i \in 1..Len(q) : l.task[q[i]] = Idle <=> i = Len(q)
<1>1. q \in Seq(Node) /\ f \in Seq(Node) /\ Len(q) \in Nat /\ Len(f) \in Nat
  BY DEF Sound, Threads, Chain
<1>2. /\ Len(TasksOf(l, q)) = Len(q)
      /\ \A i \in 1..Len(q) : TasksOf(l, q)[i] = l.task[q[i]]
      /\ TasksOf(l, q) \in Seq(Task)
  BY <1>1, TasksOfType DEF Sound
<1>3. Len(q) # 0
  <2>1. Len(TasksOf(l, q)) # 0
    BY <1>2 DEF Sound, IdleAtEnd
  <2> QED BY <1>2, <2>1
<1>4. \A i \in 1..Len(q) : l.task[q[i]] = Idle <=> i = Len(q)
  <2>1. \A i \in 1..Len(q) : i # Len(q) => i \in 1..Len(q) - 1
    BY <1>1
  <2> QED BY <1>1, <1>2, <2>1 DEF Sound, IdleAtEnd
<1>5. l.head = q[1] /\ q[1] \in Node
  <2>1. q # <<>>
    BY <1>1, <1>3
  <2> QED BY <1>1, <1>3, <2>1 DEF Sound, Threads, Chain
<1> QED BY <1>1, <1>3, <1>4, <1>5 DEF Sound, Threads, Split

-----------------------------------------------------------------------------
(* Insertion.                                                              *)

\* The node cur at position p of the path.
NodePutAt(r, q, p, cur) ==
    /\ r \in Seq(Node) /\ Len(r) = Len(q) + 1
    /\ \A i \in 1..Len(q) + 1 : r[i] = IF i < p THEN q[i] ELSE IF i = p THEN cur ELSE q[i - 1]

LEMMA NodePutAtExists ==
    ASSUME NEW q \in Seq(Node), NEW p \in 1..Len(q) + 1, NEW cur \in Node
    PROVE  \E r : NodePutAt(r, q, p, cur)
<1> DEFINE r == [i \in 1..Len(q) + 1 |->
                    IF i < p THEN q[i] ELSE IF i = p THEN cur ELSE q[i - 1]]
<1>1. Len(q) \in Nat /\ Len(q) + 1 \in Nat
  OBVIOUS
<1>2. \A i \in 1..Len(q) + 1 : r[i] \in Node
  BY <1>1
<1>3. r \in [1..Len(q) + 1 -> Node]
  BY <1>2
<1>4. r \in Seq(Node) /\ Len(r) = Len(q) + 1
  BY <1>1, <1>3
<1>5. NodePutAt(r, q, p, cur)
  BY <1>4 DEF NodePutAt
<1> QED BY <1>5

LEMMA TwoWrites ==
    ASSUME NEW D, NEW R, NEW h \in [D -> R], NEW a, NEW b, NEW x \in R, NEW y \in R
    PROVE  [h EXCEPT ![a] = x, ![b] = y] \in [D -> R]
OBVIOUS

\* What nrk_add_to_readyQ writes when the scan has found a node.
AddWrites(l, m, t, cur, stop) ==
    /\ ListType(m) /\ m.fault = l.fault
    /\ m.task = [l.task EXCEPT ![cur] = t]
    /\ m.free = l.next[cur]
    /\ stop = l.head =>
         /\ m.head = cur
         /\ m.next = [l.next EXCEPT ![cur] = stop]
         /\ m.prev = [l.prev EXCEPT ![cur] = NULL, ![stop] = cur]
    /\ stop # l.head =>
         /\ m.head = l.head
         /\ m.next = [l.next EXCEPT ![cur] = stop, ![l.prev[stop]] = cur]
         /\ m.prev = [l.prev EXCEPT ![cur] = l.prev[stop], ![stop] = cur]

LEMMA ListAddWrites ==
    ASSUME NEW l, ListType(l), NEW t \in Task, NEW cur \in Node, l.free = cur,
           NEW stop \in Node, ScanStop(l, t) = stop, l.head \in Node,
           NEW m, m = ListAdd(l, t)
    PROVE  AddWrites(l, m, t, cur, stop)
<1> DEFINE taken == [l EXCEPT !.task[cur] = t, !.free = l.next[cur]]
<1>1. NULL \in Link /\ \A n \in Node : n # NULL /\ n \in Link
  BY DEF Node, NULL, Link
<1>2. /\ ListType(taken)
      /\ taken.task = [l.task EXCEPT ![cur] = t] /\ taken.free = l.next[cur]
      /\ taken.next = l.next /\ taken.prev = l.prev /\ taken.head = l.head
      /\ taken.fault = l.fault
  BY DEF ListType
<1>3. m = IF stop = l.head THEN LinkAtHead(taken, cur) ELSE LinkBefore(taken, cur, stop)
  BY <1>1 DEF ListAdd
<1> HIDE DEF taken
<1>4. CASE stop = l.head
  <2>1. /\ m.task = taken.task /\ m.free = taken.free /\ m.fault = taken.fault
        /\ m.head = cur
        /\ m.next = [taken.next EXCEPT ![cur] = stop]
        /\ m.prev = [taken.prev EXCEPT ![cur] = NULL, ![stop] = cur]
    BY <1>2, <1>3, <1>4 DEF LinkAtHead, ListType
  <2>2. m.next \in [Node -> Link]
    BY <1>1, <1>2, <2>1 DEF ListType
  <2>3. m.prev \in [Node -> Link]
    BY <1>1, <1>2, <2>1 DEF ListType
  <2>4. m = [task |-> m.task, prev |-> m.prev, next |-> m.next, head |-> m.head,
             free |-> m.free, fault |-> m.fault]
    BY <1>2, <1>3, <1>4 DEF LinkAtHead, ListType
  <2>5. ListType(m)
    BY <1>1, <1>2, <2>1, <2>2, <2>3, <2>4 DEF ListType
  <2> QED BY <1>2, <1>4, <2>1, <2>5 DEF AddWrites
<1>5. CASE stop # l.head
  <2>1. /\ m.task = taken.task /\ m.free = taken.free /\ m.fault = taken.fault
        /\ m.head = l.head
        /\ m.next = [taken.next EXCEPT ![cur] = stop, ![l.prev[stop]] = cur]
        /\ m.prev = [taken.prev EXCEPT ![cur] = l.prev[stop], ![stop] = cur]
    BY <1>2, <1>3, <1>5 DEF LinkBefore, ListType
  <2>2. m.next \in [Node -> Link]
    <3>1. stop \in Link /\ taken.next \in [Node -> Link] /\ cur \in Link
      BY <1>1, <1>2 DEF ListType
    <3>2. [taken.next EXCEPT ![cur] = stop, ![l.prev[stop]] = cur] \in [Node -> Link]
      BY <3>1, TwoWrites, ZenonT(30)
    <3> QED BY <2>1, <3>2
  <2>3. m.prev \in [Node -> Link]
    BY <1>1, <1>2, <2>1 DEF ListType
  <2>4. m = [task |-> m.task, prev |-> m.prev, next |-> m.next, head |-> m.head,
             free |-> m.free, fault |-> m.fault]
    BY <1>2, <1>3, <1>5 DEF LinkBefore, ListType
  <2>5. ListType(m)
    BY <1>1, <1>2, <2>1, <2>2, <2>3, <2>4 DEF ListType
  <2> QED BY <1>2, <1>5, <2>1, <2>5 DEF AddWrites
<1> QED BY <1>4, <1>5

\* Written so, the links lead through the old path with the node put in.
LEMMA InsertThreads ==
    ASSUME NEW l, NEW q, NEW f, Sound(l, q, f), NEW p \in 1..Len(q),
           NEW cur, f # <<>>, cur = f[1],
           NEW m, ListType(m), m.free = l.next[cur],
           m.head = IF p = 1 THEN cur ELSE l.head,
           \A n \in Node : m.next[n] = IF n = cur THEN q[p]
                                       ELSE IF p # 1 /\ n = q[p - 1] THEN cur ELSE l.next[n],
           \A n \in Node : m.prev[n] = IF n = cur THEN (IF p = 1 THEN NULL ELSE q[p - 1])
                                       ELSE IF n = q[p] THEN cur ELSE l.prev[n],
           NEW r, NodePutAt(r, q, p, cur)
    PROVE  Threads(m, r, Tail(f)) /\ BackLinked(m, r)
<1>1. /\ q \in Seq(Node) /\ f \in Seq(Node) /\ Len(q) \in Nat \ {0} /\ Len(f) \in Nat \ {0}
      /\ l.head = q[1]
  BY SoundQueue
<1>2. /\ cur \in Node /\ \A i \in 1..Len(q) : q[i] \in Node /\ q[i] # cur
      /\ 1 \in 1..Len(f)
  BY <1>1 DEF Sound, Threads, Split
<1>3. /\ r \in Seq(Node) /\ Len(r) = Len(q) + 1
      /\ \A i \in 1..Len(q) + 1 : r[i] = IF i < p THEN q[i] ELSE IF i = p THEN cur ELSE q[i - 1]
  BY DEF NodePutAt
<1> DEFINE g == Tail(f)
<1>4. g \in Seq(Node) /\ Len(g) = Len(f) - 1 /\ \A j \in 1..Len(f) - 1 : g[j] = f[j + 1]
  BY <1>1
<1> HIDE DEF g
<1>5. NoNodeTwice(q) /\ NoNodeTwice(f)
  BY DEF Sound, Threads, Split
<1>6. Chain(m, m.head, r)
  <2>1. m.head = r[1] /\ r # <<>>
    BY <1>1, <1>3
  <2>2. ASSUME NEW i \in 1..Len(q) + 1
        PROVE  m.next[r[i]] = IF i = Len(q) + 1 THEN NULL ELSE r[i + 1]
    <3>1. CASE i < p - 1
      <4>1. i \in 1..Len(q) /\ i + 1 \in 1..Len(q) /\ p - 1 \in 1..Len(q) /\ i # p - 1
        BY <1>1, <3>1
      <4>2. q[i] # q[p - 1] /\ q[i] # cur
        BY <1>2, <1>5, <4>1 DEF NoNodeTwice
      <4>3. m.next[q[i]] = l.next[q[i]] /\ l.next[q[i]] = q[i + 1]
        BY <1>1, <1>2, <4>1, <4>2 DEF Sound, Threads, Chain
      <4> QED BY <1>1, <1>3, <3>1, <4>1, <4>3
    <3>2. CASE i = p - 1
      <4>1. i \in 1..Len(q) /\ i # Len(q) + 1 /\ i + 1 = p /\ i < p /\ p # 1 /\ p \in 1..Len(q) + 1
            /\ ~(p < p)
        BY <1>1, <3>2
      <4>2. r[i] = q[p - 1] /\ r[i + 1] = cur
        BY <1>3, <3>2, <4>1
      <4>3. m.next[q[p - 1]] = cur
        BY <1>2, <3>2, <4>1
      <4> QED BY <4>1, <4>2, <4>3
    <3>3. CASE i = p
      <4>1. i # Len(q) + 1 /\ i + 1 \in 1..Len(q) + 1 /\ ~(i + 1 < p) /\ i + 1 # p /\ (i + 1) - 1 = p
        BY <1>1, <3>3
      <4>2. r[i] = cur /\ r[i + 1] = q[p]
        BY <1>3, <3>3, <4>1
      <4>3. m.next[cur] = q[p]
        BY <1>2
      <4> QED BY <4>1, <4>2, <4>3
    <3>4. CASE i > p
      <4>1. i - 1 \in 1..Len(q) /\ r[i] = q[i - 1]
        BY <1>1, <1>3, <3>4
      <4>2. p # 1 => q[i - 1] # q[p - 1]
        <5>1. p # 1 => p - 1 \in 1..Len(q) /\ p - 1 # i - 1
          BY <1>1, <3>4
        <5> QED BY <1>5, <4>1, <5>1 DEF NoNodeTwice
      <4>3. m.next[q[i - 1]] = l.next[q[i - 1]]
        BY <1>2, <4>1, <4>2
      <4>4. l.next[q[i - 1]] = IF i - 1 = Len(q) THEN NULL ELSE q[(i - 1) + 1]
        BY <4>1 DEF Sound, Threads, Chain
      <4>5. i # Len(q) + 1 => i + 1 \in 1..Len(q) + 1 /\ r[i + 1] = q[i]
        BY <1>1, <1>3, <3>4
      <4> QED BY <1>1, <4>1, <4>3, <4>4, <4>5
    <3> QED BY <1>1, <3>1, <3>2, <3>3, <3>4
  <2> QED BY <1>3, <2>1, <2>2 DEF Chain
<1>7. Chain(m, m.free, g)
  <2>1. m.free = IF g = <<>> THEN NULL ELSE g[1]
    <3>1. m.free = IF Len(f) = 1 THEN NULL ELSE f[2]
      <4>1. l.next[f[1]] = IF 1 = Len(f) THEN NULL ELSE f[1 + 1]
        BY <1>2 DEF Sound, Threads, Chain
      <4> QED BY <4>1
    <3>2. g = <<>> <=> Len(f) = 1
      BY <1>1, <1>4
    <3> QED BY <1>1, <1>4, <3>1, <3>2
  <2>2. ASSUME NEW j \in 1..Len(g) PROVE m.next[g[j]] = IF j = Len(g) THEN NULL ELSE g[j + 1]
    <3>1. j + 1 \in 1..Len(f) /\ g[j] = f[j + 1] /\ f[j + 1] \in Node
      BY <1>1, <1>4
    <3>2. f[j + 1] # cur
      BY <1>1, <1>2, <1>5, <3>1 DEF NoNodeTwice
    <3>3. p # 1 => f[j + 1] # q[p - 1]
      <4>1. p # 1 => p - 1 \in 1..Len(q)
        BY <1>1
      <4> QED BY <3>1, <4>1 DEF Sound, Threads, Split
    <3>4. m.next[g[j]] = l.next[f[j + 1]]
      BY <3>1, <3>2, <3>3
    <3>5. l.next[f[j + 1]] = IF j + 1 = Len(f) THEN NULL ELSE f[(j + 1) + 1]
      BY <3>1 DEF Sound, Threads, Chain
    <3>6. j # Len(g) => j + 1 \in 1..Len(f) - 1
      BY <1>1, <1>4
    <3> QED BY <1>1, <1>4, <3>4, <3>5, <3>6
  <2> QED BY <1>4, <2>1, <2>2 DEF Chain
<1>8. Split(r, g)
  <2> DEFINE old(i) == IF i < p THEN i ELSE i - 1
  <2>1. \A i \in 1..Len(q) + 1 : i # p => old(i) \in 1..Len(q) /\ r[i] = q[old(i)]
    BY <1>1, <1>3
  <2>2. \A i, j \in 1..Len(q) + 1 : i # p /\ j # p /\ old(i) = old(j) => i = j
    BY <1>1
  <2>3. r[p] = cur /\ p \in 1..Len(q) + 1
    BY <1>1, <1>3
  <2>9. \A i \in 1..Len(q) : \E k \in 1..Len(q) + 1 : k # p /\ old(k) = i
    <3> SUFFICES ASSUME NEW i \in 1..Len(q) PROVE \E k \in 1..Len(q) + 1 : k # p /\ old(k) = i
      OBVIOUS
    <3>1. CASE i < p
      <4>1. i \in 1..Len(q) + 1 /\ i # p /\ old(i) = i
        BY <1>1, <3>1
      <4> QED BY <4>1
    <3>2. CASE i >= p
      <4>1. i + 1 \in 1..Len(q) + 1 /\ i + 1 # p /\ old(i + 1) = i
        BY <1>1, <3>2
      <4> QED BY <4>1
    <3> QED BY <1>1, <3>1, <3>2
  <2> HIDE DEF old
  <2>4. NoNodeTwice(r)
    <3> SUFFICES ASSUME NEW i \in 1..Len(q) + 1, NEW j \in 1..Len(q) + 1, r[i] = r[j]
                 PROVE  i = j
      BY <1>3 DEF NoNodeTwice
    <3>1. \A k \in 1..Len(q) + 1 : k # p => r[k] # cur
      BY <1>2, <2>1
    <3>2. CASE i # p /\ j # p
      <4>1. old(i) = old(j)
        BY <1>5, <2>1, <3>2 DEF NoNodeTwice
      <4> QED BY <2>2, <3>2, <4>1
    <3> QED BY <2>3, <3>1, <3>2
  <2>5. NoNodeTwice(g)
    <3> SUFFICES ASSUME NEW i \in 1..Len(f) - 1, NEW j \in 1..Len(f) - 1, g[i] = g[j]
                 PROVE  i = j
      BY <1>4 DEF NoNodeTwice
    <3>1. i + 1 \in 1..Len(f) /\ j + 1 \in 1..Len(f) /\ f[i + 1] = f[j + 1]
      BY <1>1, <1>4
    <3>2. i + 1 = j + 1
      BY <1>5, <3>1 DEF NoNodeTwice
    <3> QED BY <3>2
  <2>6. ASSUME NEW i \in 1..Len(q) + 1, NEW j \in 1..Len(f) - 1 PROVE r[i] # g[j]
    <3>1. j + 1 \in 1..Len(f) /\ g[j] = f[j + 1] /\ j + 1 # 1
      BY <1>1, <1>4
    <3>2. f[j + 1] # cur
      BY <1>2, <1>5, <3>1 DEF NoNodeTwice
    <3>3. ASSUME NEW k \in 1..Len(q) PROVE q[k] # f[j + 1]
      BY <3>1 DEF Sound, Threads, Split
    <3>4. CASE i = p
      BY <2>3, <3>1, <3>2, <3>4
    <3>5. CASE i # p
      BY <2>1, <3>1, <3>3, <3>5
    <3> QED BY <3>4, <3>5
  <2>7. ASSUME NEW n \in Node
        PROVE  (\E i \in 1..Len(q) + 1 : r[i] = n) \/ \E j \in 1..Len(f) - 1 : g[j] = n
    <3>1. CASE \E i \in 1..Len(q) : q[i] = n
      BY <2>1, <2>9, <3>1
    <3>2. CASE \E j \in 1..Len(f) : f[j] = n
      <4>1. PICK j \in 1..Len(f) : f[j] = n
        BY <3>2
      <4>2. CASE j = 1
        BY <2>3, <4>1, <4>2
      <4>3. CASE j # 1
        <5>1. j - 1 \in 1..Len(f) - 1 /\ (j - 1) + 1 = j
          BY <1>1, <4>3
        <5>2. g[j - 1] = n
          BY <1>4, <4>1, <5>1
        <5> QED BY <5>1, <5>2
      <4> QED BY <4>2, <4>3
    <3> QED BY <3>1, <3>2 DEF Sound, Threads, Split
  <2>8. Len(r) + Len(g) = PoolSize
    BY <1>1, <1>3, <1>4 DEF Sound, Threads, Split
  <2> QED BY <1>3, <1>4, <2>4, <2>5, <2>6, <2>7, <2>8 DEF Split
<1>9. BackLinked(m, r)
  <2> SUFFICES ASSUME NEW i \in 1..Len(q) + 1
               PROVE  m.prev[r[i]] = IF i = 1 THEN NULL ELSE r[i - 1]
    BY <1>3 DEF BackLinked
  <2>1. CASE i < p
    <3>1. i \in 1..Len(q) /\ r[i] = q[i] /\ i # p
      BY <1>1, <1>3, <2>1
    <3>2. q[i] # q[p]
      BY <1>5, <3>1 DEF NoNodeTwice
    <3>3. m.prev[q[i]] = l.prev[q[i]]
      BY <1>2, <3>1, <3>2
    <3>4. i # 1 => i - 1 \in 1..Len(q) + 1 /\ i - 1 < p
      BY <1>1, <2>1
    <3> QED BY <1>3, <3>1, <3>3, <3>4 DEF Sound, BackLinked
  <2>2. CASE i = p
    <3>1. i # 1 => i - 1 \in 1..Len(q) + 1 /\ i - 1 < p
      BY <1>1, <2>2
    <3> QED BY <1>2, <1>3, <2>2, <3>1
  <2>3. CASE i = p + 1
    <3>1. r[i] = q[p] /\ r[i - 1] = cur
      BY <1>1, <1>3, <2>3
    <3> QED BY <1>1, <1>2, <2>3, <3>1
  <2>4. CASE i > p + 1
    <3>1. i - 1 \in 1..Len(q) /\ r[i] = q[i - 1] /\ i - 1 # p /\ r[i - 1] = q[(i - 1) - 1] /\ i - 1 # 1
      BY <1>1, <1>3, <2>4
    <3>2. q[i - 1] # q[p]
      BY <1>5, <3>1 DEF NoNodeTwice
    <3>3. m.prev[q[i - 1]] = l.prev[q[i - 1]]
      BY <1>2, <3>1, <3>2
    <3>4. l.prev[q[i - 1]] = q[(i - 1) - 1]
      BY <3>1 DEF Sound, BackLinked
    <3> QED BY <1>1, <2>4, <3>1, <3>3, <3>4
  <2> QED BY <1>1, <2>1, <2>2, <2>3, <2>4
<1> QED BY <1>6, <1>7, <1>8, <1>9 DEF Threads, g

\* nrk_add_to_readyQ does to the tasks of the path what Add does.
LEMMA ListAddIsAdd ==
    ASSUME NEW l, NEW q, NEW f, Sound(l, q, f), NEW t \in Task \ {Idle}
    PROVE  \E r, g : /\ Sound(ListAdd(l, t), r, g)
                     /\ TasksOf(ListAdd(l, t), r) = Add(TasksOf(l, q), t, elevated, ceil)
<1>1. /\ q \in Seq(Node) /\ f \in Seq(Node) /\ Len(q) \in Nat \ {0} /\ Len(f) \in Nat
      /\ Len(q) + Len(f) = PoolSize /\ l.head = q[1] /\ l.head \in Node
      /\ \A i \in 1..Len(q) : l.task[q[i]] = Idle <=> i = Len(q)
  BY SoundQueue
<1>2. ListType(l) /\ ~l.fault /\ Threads(l, q, f) /\ NoNodeTwice(q)
  BY DEF Sound, Threads, Split
<1> DEFINE A == TasksOf(l, q)
           m == ListAdd(l, t)
           S == {n \in Node : GoesBefore(t, l.task[n], elevated, ceil)}
<1>3. /\ A \in Seq(Task) /\ Len(A) = Len(q) /\ Len(A) <= PoolSize
      /\ \A i \in 1..Len(q) : A[i] = l.task[q[i]] /\ q[i] \in Node
  BY <1>1, <1>2, TasksOfType
<1>4. IdleAtEnd(A)
  BY DEF Sound
<1> HIDE DEF A
<1>5. CASE f = <<>>
  <2>1. l.free = NULL /\ Len(f) = 0
    BY <1>5 DEF Sound, Threads, Chain
  <2>2. m = l
    BY <2>1 DEF ListAdd
  <2>3. Add(A, t, elevated, ceil) = A
    BY <1>1, <1>3, <2>1 DEF Add
  <2> QED BY <2>2, <2>3 DEF A
<1>6. CASE f # <<>>
  <2> DEFINE cur == f[1]
             stop == ScanStop(l, t)
  <2>1. l.free = cur /\ cur \in Node /\ Len(f) # 0 /\ \A i \in 1..Len(q) : q[i] # cur
    BY <1>1, <1>6 DEF Sound, Threads, Chain, Split
  <2>2. EndsAt(q, S, 1, stop)
    BY <1>2, ScanStopEnds
  <2>3. \A i \in 1..Len(q) : q[i] \in S <=> GoesBefore(t, A[i], elevated, ceil)
    BY <1>3
  <2>4. q[Len(q)] \in S
    <3>1. GoesBefore(t, Idle, elevated, ceil)
      BY QueueAssumption DEF GoesBefore
    <3>2. Len(q) \in 1..Len(q)
      BY <1>1
    <3> QED BY <1>1, <1>3, <2>3, <3>1, <3>2
  <2> HIDE DEF S, stop, cur
  <2>5. PICK p \in 1..Len(q) : /\ stop = q[p] /\ q[p] \in S
                               /\ \A k \in 1..p - 1 : q[k] \notin S
    <3>1. Len(q) \in 1..Len(q)
      BY <1>1
    <3> QED BY <2>2, <2>4, <3>1 DEF EndsAt
  <2>6. /\ stop \in Node /\ (stop = l.head <=> p = 1)
        /\ l.prev[stop] = IF p = 1 THEN NULL ELSE q[p - 1]
        /\ p # 1 => p - 1 \in 1..Len(q) /\ q[p - 1] \in Node /\ q[p - 1] # stop
    <3>1. 1 \in 1..Len(q) /\ (p # 1 => p - 1 \in 1..Len(q) /\ p - 1 # p)
      BY <1>1
    <3> QED BY <1>1, <1>2, <1>3, <2>5, <3>1 DEF Sound, BackLinked, NoNodeTwice
  <2>7. AddWrites(l, m, t, cur, stop)
    <3>1. ScanStop(l, t) = stop /\ m = ListAdd(l, t) /\ t \in Task
      BY DEF stop
    <3> HIDE DEF m
    <3> QED BY <1>1, <1>2, <2>1, <2>6, <3>1, ListAddWrites
  <2> HIDE DEF m
  <2>8. l.next \in [Node -> Link] /\ l.prev \in [Node -> Link] /\ l.task \in [Node -> Task]
    BY <1>2 DEF ListType
  <2>9. m.head = IF p = 1 THEN cur ELSE l.head
    BY <2>6, <2>7 DEF AddWrites
  <2>10. \A n \in Node : m.next[n] = IF n = cur THEN q[p]
                                     ELSE IF p # 1 /\ n = q[p - 1] THEN cur ELSE l.next[n]
    <3>1. p # 1 => q[p - 1] # cur
      BY <2>1, <2>6
    <3> QED BY <2>1, <2>5, <2>6, <2>7, <2>8, <3>1 DEF AddWrites
  <2>11. \A n \in Node : m.prev[n] = IF n = cur THEN (IF p = 1 THEN NULL ELSE q[p - 1])
                                     ELSE IF n = q[p] THEN cur ELSE l.prev[n]
    <3>1. q[p] # cur
      BY <2>1
    <3> QED BY <2>1, <2>5, <2>6, <2>7, <2>8, <3>1 DEF AddWrites
  <2>12. PICK r : NodePutAt(r, q, p, cur)
    <3>1. p \in 1..Len(q) + 1
      BY <1>1
    <3> QED BY <1>1, <2>1, <3>1, NodePutAtExists
  <2>13. Threads(m, r, Tail(f)) /\ BackLinked(m, r)
    BY <1>6, <2>7, <2>9, <2>10, <2>11, <2>12, InsertThreads DEF cur, AddWrites
  <2> DEFINE B == TasksOf(m, r)
             C == Add(A, t, elevated, ceil)
  <2>14. /\ B \in Seq(Task) /\ Len(B) = Len(q) + 1
         /\ \A i \in 1..Len(q) + 1 :
               B[i] = IF i < p THEN A[i] ELSE IF i = p THEN t ELSE A[i - 1]
    <3>1. /\ r \in Seq(Node) /\ Len(r) = Len(q) + 1
          /\ \A i \in 1..Len(q) + 1 :
                r[i] = IF i < p THEN q[i] ELSE IF i = p THEN cur ELSE q[i - 1]
      BY <2>12 DEF NodePutAt
    <3>5. /\ B \in Seq(Task) /\ Len(B) = Len(r)
          /\ \A i \in 1..Len(r) : B[i] = m.task[r[i]]
      <4>1. ListType(m) /\ r \in Seq(Node)
        BY <2>7, <3>1 DEF AddWrites
      <4> QED BY <4>1, TasksOfType
    <3>2. /\ B \in Seq(Task) /\ Len(B) = Len(q) + 1
          /\ \A i \in 1..Len(q) + 1 : B[i] = m.task[r[i]]
      <4> HIDE DEF B
      <4> QED BY <3>1, <3>5
    <3> HIDE DEF B
    <3>3. m.task[cur] = t /\ \A i \in 1..Len(q) : m.task[q[i]] = A[i]
      BY <1>3, <2>1, <2>7, <2>8 DEF AddWrites
    <3>4. ASSUME NEW i \in 1..Len(q) + 1
          PROVE  B[i] = IF i < p THEN A[i] ELSE IF i = p THEN t ELSE A[i - 1]
      <4>1. i < p => i \in 1..Len(q)
        BY <1>1
      <4>2. i > p => i - 1 \in 1..Len(q)
        BY <1>1
      <4>3. i < p \/ i = p \/ i > p
        BY <1>1
      <4>4. p \in Int /\ i \in Int
        BY <1>1
      <4>5. B[i] = m.task[IF i < p THEN q[i] ELSE IF i = p THEN cur ELSE q[i - 1]]
        BY <3>1, <3>2
      <4>6. CASE i < p
        BY <3>3, <4>1, <4>5, <4>6
      <4>7. CASE i = p
        BY <3>3, <4>4, <4>5, <4>7
      <4>8. CASE i > p
        BY <3>3, <4>2, <4>4, <4>5, <4>8
      <4> QED BY <4>3, <4>6, <4>7, <4>8
    <3> QED BY <3>2, <3>4
  <2>15. PICK k \in 1..Len(q) + 1 :
             /\ PutAt(C, A, k, t)
             /\ \A i \in 1..k - 1 : ~GoesBefore(t, A[i], elevated, ceil)
             /\ k <= Len(q) => GoesBefore(t, A[k], elevated, ceil)
    <3>1. Len(A) # PoolSize
      BY <1>1, <1>3, <2>1
    <3> QED BY <1>3, <3>1, AddShape
  <2>16. k = p
    <3>1. ~(k < p)
      <4> SUFFICES ASSUME k < p PROVE FALSE
        OBVIOUS
      <4>1. k \in 1..p - 1 /\ k \in 1..Len(q)
        BY <1>1
      <4> QED BY <1>1, <2>3, <2>5, <2>15, <4>1
    <3>2. ~(p < k)
      <4> SUFFICES ASSUME p < k PROVE FALSE
        OBVIOUS
      <4>1. p \in 1..k - 1
        BY <1>1
      <4> QED BY <2>3, <2>5, <2>15, <4>1
    <3> QED BY <1>1, <3>1, <3>2
  <2>17. B = C
    <3>1. /\ C \in Seq(Task) /\ Len(C) = Len(q) + 1
          /\ \A i \in 1..Len(q) + 1 :
                C[i] = IF i < p THEN A[i] ELSE IF i = p THEN t ELSE A[i - 1]
      BY <1>3, <2>15, <2>16 DEF PutAt
    <3> HIDE DEF B, C
    <3>2. \A i \in 1..Len(B) : B[i] = C[i]
      BY <2>14, <3>1
    <3> QED BY <2>14, <3>1, <3>2, SeqEqual
  <2>18. IdleAtEnd(B)
    <3>1. IdleAtEnd(C)
      BY <1>3, <1>4, AddKeepsIdleAtEnd
    <3> QED BY <2>17, <3>1
  <2>19. Sound(m, r, Tail(f))
    BY <1>2, <2>7, <2>13, <2>18 DEF Sound, AddWrites
  <2> QED BY <2>17, <2>19 DEF A, m
<1> QED BY <1>5, <1>6

-----------------------------------------------------------------------------
(* Removal.                                                                *)

\* The path without its node at position p.
NodeTakenFrom(r, q, p) ==
    /\ r \in Seq(Node) /\ Len(r) = Len(q) - 1
    /\ \A i \in 1..Len(q) - 1 : r[i] = IF i < p THEN q[i] ELSE q[i + 1]

LEMMA NodeTakenFromExists ==
    ASSUME NEW q \in Seq(Node), NEW p \in 1..Len(q)
    PROVE  \E r : NodeTakenFrom(r, q, p)
<1> DEFINE r == [i \in 1..Len(q) - 1 |-> IF i < p THEN q[i] ELSE q[i + 1]]
<1>1. Len(q) \in Nat /\ Len(q) - 1 \in Nat
  OBVIOUS
<1>2. r \in [1..Len(q) - 1 -> Node]
  BY <1>1
<1>3. r \in Seq(Node) /\ Len(r) = Len(q) - 1
  BY <1>1, <1>2
<1>4. NodeTakenFrom(r, q, p)
  BY <1>3 DEF NodeTakenFrom
<1> QED BY <1>4

\* What nrk_rem_from_readyQ writes when the scan has found a node and after
\* is the next.
RemoveWrites(l, m, cur, after) ==
    /\ ListType(m) /\ m.fault = l.fault /\ m.task = l.task /\ m.free = cur
    /\ m.head = IF cur = l.head THEN after ELSE l.head
    /\ \A n \in Node : m.next[n] =
          IF n = cur THEN l.free
          ELSE IF cur # l.head /\ n = l.prev[cur] THEN after ELSE l.next[n]
    /\ \A n \in Node \ {cur, l.free} : m.prev[n] =
          IF n = after THEN (IF cur = l.head THEN NULL ELSE l.prev[cur]) ELSE l.prev[n]

LEMMA ListRemoveWrites ==
    ASSUME NEW l, ListType(l), NEW t, NEW cur \in Node, FindNode(l, t) = cur,
           NEW after \in Node, l.next[cur] = after,
           cur = l.head \/ l.prev[cur] \in Node, NEW m, m = ListRemove(l, t)
    PROVE  RemoveWrites(l, m, cur, after)
<1> DEFINE u == Unlink(l, cur)
<1>1. NULL \in Link /\ \A n \in Node : n # NULL /\ n \in Link
  BY DEF Node, NULL, Link
<1>2. m = Release(u, cur)
  BY <1>1 DEF ListRemove
<1>3. /\ l.task \in [Node -> Task] /\ l.prev \in [Node -> Link] /\ l.next \in [Node -> Link]
      /\ l.head \in Link /\ l.free \in Link /\ l.fault \in BOOLEAN
  BY DEF ListType
<1>4. /\ u.fault = l.fault /\ u.task = l.task /\ u.free = l.free
      /\ u.head = IF cur = l.head THEN after ELSE l.head
  BY <1>1 DEF Unlink, ListType
<1>5. /\ u.next \in [Node -> Link]
      /\ \A n \in Node : u.next[n] =
            IF cur # l.head /\ n = l.prev[cur] THEN after ELSE l.next[n]
  <2>1. u.next = IF cur = l.head THEN l.next ELSE [l.next EXCEPT ![l.prev[cur]] = after]
    BY DEF Unlink, ListType
  <2> HIDE DEF u
  <2> QED BY <1>1, <1>3, <2>1
<1>6. /\ u.prev \in [Node -> Link]
      /\ \A n \in Node : u.prev[n] =
            IF n = after THEN (IF cur = l.head THEN NULL ELSE l.prev[cur]) ELSE l.prev[n]
  <2>1. u.prev = IF cur = l.head THEN [l.prev EXCEPT ![after] = NULL]
                 ELSE [l.prev EXCEPT ![after] = l.prev[cur]]
    BY <1>1 DEF Unlink, Store, ListType
  <2> HIDE DEF u
  <2>2. l.prev[cur] \in Link
    BY <1>3
  <2> QED BY <1>1, <1>3, <2>1, <2>2
<1>7. u = [task |-> u.task, prev |-> u.prev, next |-> u.next, head |-> u.head,
           free |-> u.free, fault |-> u.fault]
  BY DEF Unlink, ListType
<1> HIDE DEF u
<1>8. ListType(u)
  BY <1>1, <1>3, <1>4, <1>5, <1>6, <1>7 DEF ListType
<1>9. /\ m.task = u.task /\ m.head = u.head /\ m.fault = u.fault /\ m.free = cur
      /\ m.next = [u.next EXCEPT ![cur] = u.free]
      /\ m.prev = [Store(u.prev, u.free, cur) EXCEPT ![cur] = NULL]
  BY <1>2, <1>8 DEF Release, ListType
<1>10. m = [task |-> m.task, prev |-> m.prev, next |-> m.next, head |-> m.head,
            free |-> m.free, fault |-> m.fault]
  BY <1>2, <1>8 DEF Release, ListType
<1>11. /\ m.next \in [Node -> Link]
       /\ \A n \in Node : m.next[n] = IF n = cur THEN l.free ELSE u.next[n]
  BY <1>3, <1>4, <1>5, <1>9
<1>12. /\ m.prev \in [Node -> Link]
       /\ \A n \in Node \ {cur, l.free} : m.prev[n] = u.prev[n]
  <2>1. /\ Store(u.prev, u.free, cur) \in [Node -> Link]
        /\ \A n \in Node \ {l.free} : Store(u.prev, u.free, cur)[n] = u.prev[n]
    BY <1>1, <1>3, <1>4, <1>6 DEF Store
  <2> QED BY <1>1, <1>9, <2>1
<1>13. ListType(m)
  BY <1>1, <1>3, <1>4, <1>9, <1>10, <1>11, <1>12 DEF ListType
<1> QED BY <1>4, <1>5, <1>6, <1>9, <1>11, <1>12, <1>13 DEF RemoveWrites

\* Written so, the links lead past the node, and it is the first free one.
LEMMA RemoveThreads ==
    ASSUME NEW l, NEW q, NEW f, Sound(l, q, f), NEW p \in 1..Len(q) - 1,
           NEW m, RemoveWrites(l, m, q[p], q[p + 1]),
           NEW r, NodeTakenFrom(r, q, p), NEW g, NodePutAt(g, f, 1, q[p])
    PROVE  Threads(m, r, g) /\ BackLinked(m, r)
<1>1. /\ q \in Seq(Node) /\ f \in Seq(Node) /\ Len(q) \in Nat \ {0} /\ Len(f) \in Nat
      /\ l.head = q[1]
  BY SoundQueue
<1>2. /\ p \in 1..Len(q) /\ p + 1 \in 1..Len(q) /\ 1 \in 1..Len(q)
      /\ p # 1 => p - 1 \in 1..Len(q)
      /\ \A i \in 1..Len(q) : q[i] \in Node
      /\ \A j \in 1..Len(f) : f[j] \in Node
      /\ \A i \in 1..Len(q), j \in 1..Len(f) : q[i] # f[j]
      /\ \A i, j \in 1..Len(q) : q[i] = q[j] => i = j
      /\ NoNodeTwice(f)
  BY <1>1 DEF Sound, Threads, Split, NoNodeTwice
<1>3. /\ r \in Seq(Node) /\ Len(r) = Len(q) - 1
      /\ \A i \in 1..Len(q) - 1 : r[i] = IF i < p THEN q[i] ELSE q[i + 1]
  BY DEF NodeTakenFrom
<1>4. /\ g \in Seq(Node) /\ Len(g) = Len(f) + 1 /\ g[1] = q[p]
      /\ \A j \in 1..Len(f) + 1 : j # 1 => g[j] = f[j - 1]
  <2>1. /\ g \in Seq(Node) /\ Len(g) = Len(f) + 1
        /\ \A j \in 1..Len(f) + 1 : g[j] = IF j < 1 THEN f[j] ELSE IF j = 1 THEN q[p] ELSE f[j - 1]
    BY DEF NodePutAt
  <2>2. 1 \in 1..Len(f) + 1 /\ \A j \in 1..Len(f) + 1 : ~(j < 1)
    BY <1>1
  <2> QED BY <2>1, <2>2
<1>5. q[p] = l.head <=> p = 1
  BY <1>1, <1>2
<1>6. p # 1 => l.prev[q[p]] = q[p - 1]
  BY <1>2 DEF Sound, BackLinked
<1>7. \A i \in 1..Len(q) : m.next[q[i]] = IF i = p THEN l.free
                                          ELSE IF i = p - 1 THEN q[p + 1] ELSE l.next[q[i]]
  <2> SUFFICES ASSUME NEW i \in 1..Len(q)
               PROVE  m.next[q[i]] = IF i = p THEN l.free
                                     ELSE IF i = p - 1 THEN q[p + 1] ELSE l.next[q[i]]
    OBVIOUS
  <2>1. m.next[q[i]] = IF q[i] = q[p] THEN l.free
                       ELSE IF p # 1 /\ q[i] = q[p - 1] THEN q[p + 1] ELSE l.next[q[i]]
    BY <1>2, <1>5, <1>6 DEF RemoveWrites
  <2>2. q[i] = q[p] <=> i = p
    BY <1>2
  <2>3. (p # 1 /\ q[i] = q[p - 1]) <=> i = p - 1
    BY <1>1, <1>2
  <2> QED BY <2>1, <2>2, <2>3
<1>8. \A j \in 1..Len(f) : m.next[f[j]] = l.next[f[j]]
  BY <1>2, <1>5, <1>6 DEF RemoveWrites
<1>9. \A i \in 1..Len(q) : i # p =>
          m.prev[q[i]] = IF i = p + 1 THEN (IF p = 1 THEN NULL ELSE q[p - 1]) ELSE l.prev[q[i]]
  <2> SUFFICES ASSUME NEW i \in 1..Len(q), i # p
               PROVE  m.prev[q[i]] = IF i = p + 1 THEN (IF p = 1 THEN NULL ELSE q[p - 1])
                                     ELSE l.prev[q[i]]
    OBVIOUS
  <2>1. q[i] # q[p] /\ (q[i] = q[p + 1] <=> i = p + 1)
    BY <1>2
  <2>2. q[i] # l.free
    <3>1. l.free = IF f = <<>> THEN NULL ELSE f[1]
      BY DEF Sound, Threads, Chain
    <3>2. q[i] # NULL
      BY <1>2 DEF Node, NULL
    <3>3. f # <<>> => 1 \in 1..Len(f)
      BY <1>1
    <3> QED BY <1>2, <3>1, <3>2, <3>3
  <2>3. m.prev[q[i]] = IF q[i] = q[p + 1]
                       THEN (IF q[p] = l.head THEN NULL ELSE l.prev[q[p]]) ELSE l.prev[q[i]]
    BY <1>2, <2>1, <2>2 DEF RemoveWrites
  <2> QED BY <1>5, <1>6, <2>1, <2>3
<1>10. m.head = (IF p = 1 THEN q[2] ELSE q[1]) /\ m.free = q[p]
  BY <1>1, <1>5 DEF RemoveWrites
<1>11. \A i \in 1..Len(q) : l.next[q[i]] = IF i = Len(q) THEN NULL ELSE q[i + 1]
  BY DEF Sound, Threads, Chain
<1>12. Chain(m, m.head, r)
  <2>1. m.head = r[1] /\ r # <<>>
    <3>1. 1 \in 1..Len(q) - 1
      BY <1>1, <1>2
    <3> QED BY <1>1, <1>3, <1>10, <3>1
  <2>2. ASSUME NEW i \in 1..Len(q) - 1
        PROVE  m.next[r[i]] = IF i = Len(q) - 1 THEN NULL ELSE r[i + 1]
    <3>1. CASE i < p - 1
      <4>1. p \in Nat /\ i \in Nat /\ p <= Len(q) - 1
        BY <1>1
      <4>2. i \in 1..Len(q) /\ i # Len(q) /\ i # Len(q) - 1 /\ i # p /\ i # p - 1 /\ i < p
        BY <1>1, <3>1, <4>1
      <4>3. i + 1 \in 1..Len(q) - 1 /\ i + 1 < p
        BY <1>1, <3>1, <4>1
      <4>4. r[i] = q[i] /\ r[i + 1] = q[i + 1]
        BY <1>3, <4>2, <4>3
      <4> QED BY <1>7, <1>11, <4>2, <4>4
    <3>2. CASE i = p - 1
      <4>1. i \in 1..Len(q) /\ i + 1 = p /\ i # p /\ i < p /\ i # Len(q) - 1
        BY <1>1, <3>2
      <4>2. r[i + 1] = q[p + 1]
        BY <1>1, <1>3, <4>1
      <4> QED BY <1>3, <1>7, <3>2, <4>1, <4>2
    <3>3. CASE i >= p
      <4>1. i + 1 \in 1..Len(q) /\ i + 1 # p /\ i + 1 # p - 1 /\ ~(i < p) /\ ~(i + 1 < p)
        BY <1>1, <3>3
      <4>2. m.next[r[i]] = IF i + 1 = Len(q) THEN NULL ELSE q[(i + 1) + 1]
        BY <1>3, <1>7, <1>11, <4>1
      <4>3. i # Len(q) - 1 => i + 1 \in 1..Len(q) - 1
        BY <1>1
      <4> QED BY <1>1, <1>3, <4>1, <4>2, <4>3
    <3> QED BY <1>1, <3>1, <3>2, <3>3
  <2> QED BY <1>3, <2>1, <2>2 DEF Chain
<1>13. Chain(m, m.free, g)
  <2>1. m.free = g[1] /\ g # <<>>
    BY <1>1, <1>4, <1>10
  <2>2. ASSUME NEW j \in 1..Len(f) + 1
        PROVE  m.next[g[j]] = IF j = Len(f) + 1 THEN NULL ELSE g[j + 1]
    <3>1. CASE j = 1
      <4>1. m.next[g[j]] = l.free
        BY <1>2, <1>4, <1>7, <3>1
      <4>2. l.free = IF f = <<>> THEN NULL ELSE f[1]
        BY DEF Sound, Threads, Chain
      <4>3. f = <<>> <=> Len(f) = 0
        BY <1>1
      <4>4. Len(f) # 0 => 2 \in 1..Len(f) + 1 /\ g[2] = f[1]
        BY <1>1, <1>4
      <4> QED BY <1>1, <3>1, <4>1, <4>2, <4>3, <4>4
    <3>2. CASE j # 1
      <4>1. j - 1 \in 1..Len(f) /\ g[j] = f[j - 1]
        BY <1>1, <1>4, <3>2
      <4>2. l.next[f[j - 1]] = IF j - 1 = Len(f) THEN NULL ELSE f[(j - 1) + 1]
        BY <4>1 DEF Sound, Threads, Chain
      <4>3. m.next[g[j]] = l.next[f[j - 1]]
        BY <1>8, <4>1
      <4>4. CASE j = Len(f) + 1
        <5>1. j - 1 = Len(f)
          BY <1>1, <4>4
        <5> QED BY <4>2, <4>3, <4>4, <5>1
      <4>5. CASE j # Len(f) + 1
        <5>1. /\ j + 1 \in 1..Len(f) + 1 /\ j + 1 # 1 /\ j - 1 # Len(f)
              /\ (j + 1) - 1 = j /\ (j - 1) + 1 = j
          BY <1>1, <4>5
        <5>2. g[j + 1] = f[j]
          BY <1>4, <5>1
        <5> QED BY <4>2, <4>3, <4>5, <5>1, <5>2
      <4> QED BY <4>4, <4>5
    <3> QED BY <3>1, <3>2
  <2> QED BY <1>4, <2>1, <2>2 DEF Chain
<1> DEFINE old(i) == IF i < p THEN i ELSE i + 1
<1>14. \A i \in 1..Len(q) - 1 : old(i) \in 1..Len(q) /\ old(i) # p /\ r[i] = q[old(i)]
  BY <1>1, <1>3
<1>15. \A i, j \in 1..Len(q) - 1 : old(i) = old(j) => i = j
  BY <1>1
<1>16. \A k \in 1..Len(q) : k # p => \E i \in 1..Len(q) - 1 : old(i) = k
  <2> SUFFICES ASSUME NEW k \in 1..Len(q), k # p PROVE \E i \in 1..Len(q) - 1 : old(i) = k
    OBVIOUS
  <2>1. CASE k < p
    <3>1. k \in 1..Len(q) - 1 /\ old(k) = k
      BY <1>1, <2>1
    <3> QED BY <3>1
  <2>2. CASE k > p
    <3>1. k - 1 \in 1..Len(q) - 1 /\ old(k - 1) = k
      BY <1>1, <2>2
    <3> QED BY <3>1
  <2> QED BY <1>1, <2>1, <2>2
<1>17. Split(r, g)
  <2> HIDE DEF old
  <2>1. NoNodeTwice(r)
    <3> SUFFICES ASSUME NEW i \in 1..Len(q) - 1, NEW j \in 1..Len(q) - 1, r[i] = r[j]
                 PROVE  i = j
      BY <1>3 DEF NoNodeTwice
    <3>1. old(i) = old(j)
      BY <1>2, <1>14
    <3> QED BY <1>15, <3>1
  <2>2. \A j \in 1..Len(f) + 1 : j = 1 \/ (j - 1 \in 1..Len(f) /\ g[j] = f[j - 1])
    BY <1>1, <1>4
  <2>3. NoNodeTwice(g)
    <3> SUFFICES ASSUME NEW i \in 1..Len(f) + 1, NEW j \in 1..Len(f) + 1, g[i] = g[j]
                 PROVE  i = j
      BY <1>4 DEF NoNodeTwice
    <3>3. \A k \in 1..Len(f) : f[k] # q[p]
      BY <1>2
    <3>1. CASE i = 1 \/ j = 1
      BY <1>4, <2>2, <3>1, <3>3
    <3>2. CASE i # 1 /\ j # 1
      <4>1. i - 1 \in 1..Len(f) /\ j - 1 \in 1..Len(f) /\ f[i - 1] = f[j - 1]
        BY <2>2, <3>2
      <4>2. i - 1 = j - 1
        BY <1>2, <4>1 DEF NoNodeTwice
      <4> QED BY <4>2
    <3> QED BY <3>1, <3>2
  <2>4. ASSUME NEW i \in 1..Len(q) - 1, NEW j \in 1..Len(f) + 1 PROVE r[i] # g[j]
    <3>1. CASE j = 1
      <4>1. old(i) \in 1..Len(q) /\ old(i) # p /\ r[i] = q[old(i)]
        BY <1>14
      <4>2. q[old(i)] # q[p]
        BY <1>2, <4>1
      <4> QED BY <1>4, <3>1, <4>1, <4>2
    <3>2. CASE j # 1
      <4>1. j - 1 \in 1..Len(f) /\ g[j] = f[j - 1]
        BY <2>2, <3>2
      <4>2. old(i) \in 1..Len(q) /\ r[i] = q[old(i)]
        BY <1>14
      <4> QED BY <1>2, <4>1, <4>2
    <3> QED BY <3>1, <3>2
  <2>5. ASSUME NEW n \in Node
        PROVE  (\E i \in 1..Len(q) - 1 : r[i] = n) \/ \E j \in 1..Len(f) + 1 : g[j] = n
    <3>1. ASSUME NEW k \in 1..Len(q), q[k] = n PROVE <2>5!2
      <4>1. CASE k = p
        <5>1. 1 \in 1..Len(f) + 1
          BY <1>1
        <5> QED BY <1>4, <3>1, <4>1, <5>1
      <4>2. CASE k # p
        BY <1>14, <1>16, <3>1, <4>2
      <4> QED BY <4>1, <4>2
    <3>2. ASSUME NEW j \in 1..Len(f), f[j] = n PROVE <2>5!2
      <4>1. j + 1 \in 1..Len(f) + 1 /\ j + 1 # 1 /\ (j + 1) - 1 = j
        BY <1>1
      <4> QED BY <1>4, <3>2, <4>1
    <3> QED BY <3>1, <3>2 DEF Sound, Threads, Split
  <2>6. Len(r) + Len(g) = PoolSize
    BY <1>1, <1>3, <1>4 DEF Sound, Threads, Split
  <2> QED BY <1>3, <1>4, <2>1, <2>3, <2>4, <2>5, <2>6 DEF Split
<1>18. BackLinked(m, r)
  <2> SUFFICES ASSUME NEW i \in 1..Len(q) - 1
               PROVE  m.prev[r[i]] = IF i = 1 THEN NULL ELSE r[i - 1]
    BY <1>3 DEF BackLinked
  <2>1. \A k \in 1..Len(q) : l.prev[q[k]] = IF k = 1 THEN NULL ELSE q[k - 1]
    BY DEF Sound, BackLinked
  <2>2. CASE i < p
    <3>1. i \in 1..Len(q) /\ i # p /\ i # p + 1 /\ r[i] = q[i]
      BY <1>1, <1>3, <2>2
    <3>2. i # 1 => r[i - 1] = q[i - 1]
      BY <1>1, <1>3, <2>2
    <3> QED BY <1>9, <2>1, <3>1, <3>2
  <2>3. CASE i = p
    <3>1. r[i] = q[p + 1] /\ (p # 1 => r[i - 1] = q[p - 1])
      <4>1. p \in Nat /\ ~(p < p)
        BY <1>1
      <4>2. r[p] = q[p + 1]
        BY <1>3, <4>1
      <4>3. p # 1 => p - 1 \in 1..Len(q) - 1 /\ p - 1 < p
        BY <1>1, <4>1
      <4> QED BY <1>3, <2>3, <4>2, <4>3
    <3>2. m.prev[q[p + 1]] = IF p = 1 THEN NULL ELSE q[p - 1]
      BY <1>1, <1>2, <1>9
    <3> QED BY <2>3, <3>1, <3>2
  <2>4. CASE i > p
    <3>1. /\ i + 1 \in 1..Len(q) /\ i + 1 # p /\ i + 1 # p + 1 /\ i + 1 # 1 /\ i # 1
          /\ r[i] = q[i + 1] /\ i - 1 \in 1..Len(q) - 1 /\ ~(i - 1 < p) /\ (i - 1) + 1 = i
          /\ (i + 1) - 1 = i
      BY <1>1, <1>3, <2>4
    <3>2. r[i - 1] = q[i]
      BY <1>3, <3>1
    <3>3. m.prev[q[i + 1]] = q[i]
      BY <1>9, <2>1, <3>1
    <3> QED BY <3>1, <3>2, <3>3
  <2> QED BY <1>1, <2>2, <2>3, <2>4
<1> QED BY <1>12, <1>13, <1>17, <1>18 DEF Threads

\* nrk_rem_from_readyQ does to the tasks of the path what Remove does.
LEMMA ListRemoveIsRemove ==
    ASSUME NEW l, NEW q, NEW f, Sound(l, q, f), NEW t \in Task \ {Idle}
    PROVE  \E r, g : /\ Sound(ListRemove(l, t), r, g)
                     /\ TasksOf(ListRemove(l, t), r) = Remove(TasksOf(l, q), t)
<1>1. /\ q \in Seq(Node) /\ f \in Seq(Node) /\ Len(q) \in Nat \ {0} /\ Len(f) \in Nat
      /\ Len(q) + Len(f) = PoolSize /\ l.head = q[1] /\ l.head \in Node
      /\ \A i \in 1..Len(q) : l.task[q[i]] = Idle <=> i = Len(q)
  BY SoundQueue
<1>2. ListType(l) /\ ~l.fault /\ Threads(l, q, f) /\ NoNodeTwice(q)
  BY DEF Sound, Threads, Split
<1> DEFINE A == TasksOf(l, q)
           m == ListRemove(l, t)
           cur == FindNode(l, t)
           S == {n \in Node : l.task[n] = t}
<1>3. /\ A \in Seq(Task) /\ Len(A) = Len(q)
      /\ \A i \in 1..Len(q) : A[i] = l.task[q[i]] /\ q[i] \in Node
  <2>1. \A i \in 1..Len(q) : q[i] \in Node
    BY <1>1
  <2>2. /\ TasksOf(l, q) \in Seq(Task) /\ Len(TasksOf(l, q)) = Len(q)
        /\ \A i \in 1..Len(q) : TasksOf(l, q)[i] = l.task[q[i]]
    BY <1>1, <1>2, TasksOfType, Zenon
  <2> QED BY <2>1, <2>2
<1>4. IdleAtEnd(A)
  BY DEF Sound
<1>5. EndsAt(q, S, 1, cur)
  BY <1>2, FindNodeEnds
<1>6. \A i \in 1..Len(q) : q[i] \in S <=> A[i] = t
  BY <1>3
<1> HIDE DEF A, S
<1>7. CASE cur = NULL
  <2>1. m = l
    BY <1>7 DEF ListRemove
  <2>2. \A i \in 1..Len(q) : A[i] # t
    <3>1. \A i \in 1..Len(q) : q[i] # NULL
      BY <1>3 DEF Node, NULL
    <3> QED BY <1>5, <1>6, <1>7, <3>1 DEF EndsAt
  <2>3. Remove(A, t) = A
    BY <1>3, <2>2 DEF Remove
  <2> QED BY <2>1, <2>3 DEF A
<1>8. CASE cur # NULL
  <2>1. PICK p \in 1..Len(q) : cur = q[p] /\ q[p] \in S /\ \A k \in 1..p - 1 : q[k] \notin S
    BY <1>5, <1>8 DEF EndsAt
  <2>2. p \in 1..Len(q) - 1 /\ p + 1 \in 1..Len(q)
    <3>1. p # Len(q)
      BY <1>1, <1>3, <1>6, <2>1
    <3> QED BY <1>1, <3>1
  <2>3. RemoveWrites(l, m, q[p], q[p + 1])
    <3>1. l.next[q[p]] = q[p + 1] /\ q[p + 1] \in Node
      BY <1>1, <1>2, <1>3, <2>2 DEF Threads, Chain
    <3>2. q[p] = l.head \/ l.prev[q[p]] \in Node
      <4>1. p # 1 => p - 1 \in 1..Len(q)
        BY <1>1
      <4> QED BY <1>1, <1>3, <4>1 DEF Sound, BackLinked
    <3>3. FindNode(l, t) = q[p] /\ m = ListRemove(l, t)
      BY <2>1
    <3> HIDE DEF m
    <3> QED BY <1>2, <1>3, <3>1, <3>2, <3>3, ListRemoveWrites
  <2> HIDE DEF m, cur
  <2>4. PICK r : NodeTakenFrom(r, q, p)
    BY <1>1, NodeTakenFromExists
  <2>5. PICK g : NodePutAt(g, f, 1, q[p])
    <3>1. 1 \in 1..Len(f) + 1
      BY <1>1
    <3> QED BY <1>1, <1>3, <3>1, NodePutAtExists
  <2>6. Threads(m, r, g) /\ BackLinked(m, r)
    BY <2>2, <2>3, <2>4, <2>5, RemoveThreads
  <2> DEFINE B == TasksOf(m, r)
             C == Remove(A, t)
  <2>7. /\ r \in Seq(Node) /\ Len(r) = Len(q) - 1
        /\ \A i \in 1..Len(q) - 1 : r[i] = IF i < p THEN q[i] ELSE q[i + 1]
    BY <2>4 DEF NodeTakenFrom
  <2>8. ListType(m) /\ m.task = l.task /\ m.fault = l.fault
    BY <2>3 DEF RemoveWrites
  <2>9. /\ B \in Seq(Task) /\ Len(B) = Len(r) /\ \A i \in 1..Len(r) : B[i] = m.task[r[i]]
    BY <2>7, <2>8, TasksOfType
  <2> HIDE DEF B
  <2>10. \A i \in 1..Len(q) - 1 : B[i] = IF i < p THEN A[i] ELSE A[i + 1]
    <3> SUFFICES ASSUME NEW i \in 1..Len(q) - 1
                 PROVE  B[i] = IF i < p THEN A[i] ELSE A[i + 1]
      OBVIOUS
    <3>1. i \in 1..Len(q) /\ i + 1 \in 1..Len(q)
      BY <1>1
    <3>2. B[i] = l.task[r[i]]
      BY <2>7, <2>8, <2>9
    <3>3. A[i] = l.task[q[i]] /\ A[i + 1] = l.task[q[i + 1]]
      BY <1>3, <3>1
    <3> QED BY <2>7, <3>2, <3>3
  <2>11. FirstPosition(A, t) = p
    <3>1. A[p] = t /\ \A k \in 1..p - 1 : A[k] # t
      <4>1. \A k \in 1..p - 1 : k \in 1..Len(q)
        BY <1>1
      <4> QED BY <1>6, <2>1, <4>1
    <3>2. FirstPosition(A, t) \in 1..Len(A) /\ A[FirstPosition(A, t)] = t
      BY <1>3, <3>1, FirstPositionSpec
    <3>3. FirstPosition(A, t) \in 1..p
      BY <1>3, <3>1, FirstPositionLeast
    <3> QED BY <1>1, <3>1, <3>2, <3>3
  <2>12. C = RemoveAtPosition(A, p)
    BY <1>3, <1>6, <2>1, <2>11 DEF Remove
  <2>13. /\ C \in Seq(Task) /\ Len(C) = Len(q) - 1
         /\ \A i \in 1..Len(q) - 1 : C[i] = IF i < p THEN A[i] ELSE A[i + 1]
    <3>1. p \in 1..Len(A)
      BY <1>3
    <3>2. /\ RemoveAtPosition(A, p) \in Seq(Task)
          /\ Len(RemoveAtPosition(A, p)) = Len(A) - 1
          /\ \A i \in 1..Len(A) - 1 :
                RemoveAtPosition(A, p)[i] = IF i < p THEN A[i] ELSE A[i + 1]
      BY <1>3, <3>1, RemoveAtPositionSpec
    <3> QED BY <1>3, <2>12, <3>2
  <2>14. IdleAtEnd(C)
    BY <1>3, <1>4, RemoveKeepsIdleAtEnd
  <2> HIDE DEF C
  <2>15. B = C
    <3>1. \A i \in 1..Len(B) : B[i] = C[i]
      BY <2>7, <2>9, <2>10, <2>13
    <3> QED BY <2>7, <2>9, <2>13, <3>1, SeqEqual
  <2>16. Sound(m, r, g)
    BY <1>2, <2>6, <2>8, <2>14, <2>15 DEF Sound, B
  <2> QED BY <2>15, <2>16 DEF A, B, C, m
<1> QED BY <1>7, <1>8

-----------------------------------------------------------------------------
(* The list nrk_init leaves.                                               *)

LEMMA InitSound ==
    \E q, f : Sound(ListAdd(EmptyPool, Idle), q, f)
              /\ TasksOf(ListAdd(EmptyPool, Idle), q) = <<Idle>>
<1> DEFINE m == ListAdd(EmptyPool, Idle)
           q == <<0>>
           f == [j \in 1..PoolSize - 1 |-> j]
<1>1. /\ PoolSize \in Nat /\ PoolSize > 1 /\ Idle \in Task
      /\ Node = 0..PoolSize - 1 /\ NULL = -1 /\ Link = Node \cup {NULL}
      /\ 0 \in Node /\ 1 \in Node /\ 0 # NULL
  BY QueueAssumption DEF Node, NULL, Link
<1>2. /\ EmptyPool.free = 0 /\ EmptyPool.head = NULL /\ EmptyPool.next[0] = 1
      /\ ListType(EmptyPool)
  <2>1. \A n \in Node : n - 1 \in Link /\ (n = PoolSize - 1 \/ n + 1 \in Node)
    BY <1>1
  <2>2. [n \in Node |-> n - 1] \in [Node -> Link]
    BY <2>1
  <2>3. [n \in Node |-> IF n = PoolSize - 1 THEN NULL ELSE n + 1] \in [Node -> Link]
    BY <1>1, <2>1
  <2> QED BY <1>1, <2>2, <2>3 DEF EmptyPool, ListType
<1> DEFINE taken == [EmptyPool EXCEPT !.task[0] = Idle, !.free = 1]
<1>3. m = LinkFirst(taken, 0)
  BY <1>1, <1>2 DEF ListAdd
<1>4. /\ taken.task = [n \in Node |-> Idle] /\ taken.free = 1 /\ ~taken.fault
      /\ taken.next = [n \in Node |-> IF n = PoolSize - 1 THEN NULL ELSE n + 1]
      /\ taken.prev = [n \in Node |-> n - 1]
      /\ ListType(taken)
  BY <1>1, <1>2 DEF EmptyPool, ListType
<1> HIDE DEF taken
<1>5. /\ m.task = [n \in Node |-> Idle] /\ m.free = 1 /\ m.head = 0 /\ m.fault = FALSE
      /\ m.next = [taken.next EXCEPT ![0] = NULL]
      /\ m.prev = [taken.prev EXCEPT ![0] = NULL, ![1] = 0]
      /\ m = [task |-> m.task, prev |-> m.prev, next |-> m.next, head |-> m.head,
              free |-> m.free, fault |-> m.fault]
  <2> HIDE DEF m
  <2>1. m.task = [n \in Node |-> Idle] /\ m.free = 1 /\ m.head = 0 /\ m.fault = FALSE
    BY <1>1, <1>3, <1>4 DEF LinkFirst, ListType
  <2>2. m.next = [taken.next EXCEPT ![0] = NULL]
    BY <1>3, <1>4 DEF LinkFirst, ListType
  <2>3. m.prev = [taken.prev EXCEPT ![0] = NULL, ![1] = 0]
    <3>1. m.prev = Store([taken.prev EXCEPT ![0] = NULL], 1, 0)
      BY <1>3, <1>4 DEF LinkFirst, ListType
    <3> QED BY <1>1, <3>1 DEF Store
  <2>4. m = [task |-> m.task, prev |-> m.prev, next |-> m.next, head |-> m.head,
             free |-> m.free, fault |-> m.fault]
    BY <1>3, <1>4 DEF LinkFirst, ListType
  <2> QED BY <2>1, <2>2, <2>3, <2>4
<1> HIDE DEF m
<1>6. \A n \in Node : m.next[n] = IF n = 0 \/ n = PoolSize - 1 THEN NULL ELSE n + 1
  BY <1>1, <1>4, <1>5
<1>7. ListType(m)
  <2>1. taken.next \in [Node -> Link] /\ taken.prev \in [Node -> Link]
    BY <1>4 DEF ListType
  <2>2. m.next \in [Node -> Link]
    BY <1>1, <1>5, <2>1
  <2>3. m.prev \in [Node -> Link]
    <3>1. 0 \in Link /\ NULL \in Link
      BY <1>1
    <3> QED BY <1>5, <2>1, <3>1, TwoWrites
  <2>4. m.task \in [Node -> Task]
    BY <1>1, <1>5
  <2>5. m.head \in Link /\ m.free \in Link /\ m.fault \in BOOLEAN
    BY <1>1, <1>5
  <2> QED BY <1>5, <2>2, <2>3, <2>4, <2>5 DEF ListType
<1>8. q \in Seq(Node) /\ Len(q) = 1 /\ q[1] = 0
  BY <1>1
<1>9. f \in Seq(Node) /\ Len(f) = PoolSize - 1 /\ \A j \in 1..PoolSize - 1 : f[j] = j
  <2>1. PoolSize - 1 \in Nat /\ \A j \in 1..PoolSize - 1 : j \in Node
    BY <1>1
  <2>2. f \in [1..PoolSize - 1 -> Node]
    BY <2>1
  <2> QED BY <2>1, <2>2
<1>10. Chain(m, m.head, q)
  <2>1. \A i \in 1..Len(q) : i = 1 /\ i = Len(q)
    BY <1>8
  <2> HIDE DEF q
  <2>2. q # <<>>
    BY <1>8
  <2>3. \A i \in 1..Len(q) : m.next[q[i]] = IF i = Len(q) THEN NULL ELSE q[i + 1]
    BY <1>1, <1>6, <1>8, <2>1
  <2> QED BY <1>5, <1>8, <2>2, <2>3 DEF Chain
<1>11. Chain(m, m.free, f)
  <2>1. \A j \in 1..PoolSize - 1 : j \in Node /\ j # 0 /\ (j # PoolSize - 1 => j + 1 \in 1..PoolSize - 1)
    BY <1>1
  <2>2. 1 \in 1..PoolSize - 1
    BY <1>1
  <2> HIDE DEF f
  <2>3. \A j \in 1..Len(f) : m.next[f[j]] = IF j = Len(f) THEN NULL ELSE f[j + 1]
    BY <1>6, <1>9, <2>1
  <2>4. f # <<>>
    BY <1>1, <1>9
  <2> QED BY <1>5, <1>9, <2>2, <2>3, <2>4 DEF Chain
<1>12. Split(q, f)
  <2>1. \A i \in 1..Len(q) : i = 1
    BY <1>8
  <2> HIDE DEF q, f
  <2>2. NoNodeTwice(q) /\ NoNodeTwice(f)
    BY <1>9, <2>1 DEF NoNodeTwice
  <2>3. \A i \in 1..Len(q), j \in 1..Len(f) : q[i] # f[j]
    BY <1>1, <1>8, <1>9, <2>1
  <2>4. \A n \in Node : (\E i \in 1..Len(q) : q[i] = n) \/ (\E j \in 1..Len(f) : f[j] = n)
    <3>1. 1 \in 1..Len(q)
      BY <1>8
    <3>2. \A n \in Node : n = 0 \/ n \in 1..PoolSize - 1
      BY <1>1
    <3> QED BY <1>8, <1>9, <3>1, <3>2
  <2>5. Len(q) + Len(f) = PoolSize
    BY <1>1, <1>8, <1>9
  <2> QED BY <2>2, <2>3, <2>4, <2>5 DEF Split
<1>13. BackLinked(m, q)
  <2>1. \A i \in 1..Len(q) : i = 1
    BY <1>8
  <2>2. m.prev[0] = NULL
    BY <1>1, <1>4, <1>5
  <2> HIDE DEF q
  <2> QED BY <1>8, <2>1, <2>2 DEF BackLinked
<1>14. TasksOf(m, q) = <<Idle>> /\ IdleAtEnd(TasksOf(m, q))
  <2>1. TasksOf(m, q) \in Seq(Task) /\ Len(TasksOf(m, q)) = 1 /\ TasksOf(m, q)[1] = Idle
    <3>1. 1 \in 1..Len(q)
      BY <1>8
    <3> HIDE DEF q
    <3>2. /\ TasksOf(m, q) \in Seq(Task) /\ Len(TasksOf(m, q)) = Len(q)
          /\ TasksOf(m, q)[1] = m.task[q[1]]
      BY <1>7, <1>8, <3>1, TasksOfType
    <3> QED BY <1>1, <1>5, <1>8, <3>2
  <2> DEFINE A == TasksOf(m, q)
  <2>2. A \in Seq(Task) /\ Len(A) = 1 /\ A[1] = Idle
    BY <2>1
  <2> HIDE DEF A
  <2>3. A = <<Idle>>
    <3>1. <<Idle>> \in Seq(Task) /\ Len(<<Idle>>) = 1 /\ <<Idle>>[1] = Idle
      BY <1>1
    <3>2. \A i \in 1..Len(A) : A[i] = <<Idle>>[i]
      BY <2>2, <3>1
    <3> QED BY <2>2, <3>1, <3>2, SeqEqual
  <2>4. IdleAtEnd(A)
    BY <2>2, <2>3 DEF IdleAtEnd
  <2> QED BY <2>3, <2>4 DEF A
<1>15. Sound(m, q, f)
  BY <1>5, <1>7, <1>10, <1>11, <1>12, <1>13, <1>14 DEF Sound, Threads
<1> QED BY <1>14, <1>15 DEF m

-----------------------------------------------------------------------------
(* The theorems.                                                           *)

IInv == /\ elevated \in [Task -> BOOLEAN]
        /\ ceil \in [Task -> Ceiling \cup {0}]
        /\ \E q, f : Sound(list, q, f)

LEMMA InitInv == Init => IInv
<1> SUFFICES ASSUME Init PROVE IInv
  OBVIOUS
<1>1. \E q, f : Sound(list, q, f)
  BY InitSound DEF Init
<1> QED BY <1>1 DEF Init, IInv

LEMMA NextInv == IInv /\ [Next]_vars => IInv'
<1> SUFFICES ASSUME IInv, [Next]_vars PROVE IInv'
  OBVIOUS
<1> USE DEF IInv
<1>1. PICK q, f : Sound(list, q, f)
  OBVIOUS
<1>2. ASSUME NEW t \in Task \ {Idle}, AddToReadyQ(t) PROVE IInv'
  <2>1. \E r, g : Sound(ListAdd(list, t), r, g)
    BY <1>1, ListAddIsAdd
  <2> QED BY <1>2, <2>1 DEF AddToReadyQ
<1>3. ASSUME NEW t \in Task \ {Idle}, RemFromReadyQ(t) PROVE IInv'
  <2>1. \E r, g : Sound(ListRemove(list, t), r, g)
    BY <1>1, ListRemoveIsRemove
  <2> QED BY <1>3, <2>1 DEF RemFromReadyQ
<1>4. ASSUME NEW t \in Task \ {Idle}, NEW c \in Ceiling, Elevate(t, c) PROVE IInv'
  BY <1>4 DEF Elevate
<1>5. ASSUME NEW t \in Task \ {Idle}, Lower(t) PROVE IInv'
  BY <1>5 DEF Lower
<1>6. CASE UNCHANGED vars
  BY <1>6 DEF vars
<1> QED BY <1>2, <1>3, <1>4, <1>5, <1>6 DEF Next

LEMMA SoundList == IInv => ListSound /\ NoNullWrite
<1> SUFFICES ASSUME IInv PROVE ListSound /\ NoNullWrite
  OBVIOUS
<1>1. PICK q, f : Sound(list, q, f)
  BY DEF IInv
<1>2. PathFrom(list, list.head) = q /\ PathFrom(list, list.free) = f
  BY <1>1, PathIsChain DEF Sound
<1>3. TypeOK
  BY <1>1 DEF IInv, TypeOK, Sound, ListType, Link
<1>4. PoolPartitioned
  <2>1. {q[i] : i \in 1..Len(q)} \cup {f[i] : i \in 1..Len(f)} = Node
    <3>1. q \in Seq(Node) /\ f \in Seq(Node)
      BY <1>1, SoundQueue
    <3> QED BY <1>1, <3>1 DEF Sound, Threads, Split
  <2> QED BY <1>1, <1>2, <2>1, SoundQueue DEF PoolPartitioned
<1>5. PrevMirrorsNext
  BY <1>1, <1>2 DEF PrevMirrorsNext, Sound, BackLinked
<1> QED BY <1>1, <1>3, <1>4, <1>5 DEF ListSound, NoNullWrite, Sound

\* Whatever is added, removed and elevated, the array stays one list that can
\* be walked both ways and one chain of free nodes (nrk_task.c:60-222).
THEOREM ListAlwaysSound == Spec => []ListSound
<1> QED BY InitInv, NextInv, SoundList, PTL DEF Spec

\* As long as the idle task stays queued, no insertion and no removal writes
\* through a NULL pointer (nrk_task.c:120, 189).
THEOREM NeverNullWrite == Spec => []NoNullWrite
<1> QED BY InitInv, NextInv, SoundList, PTL DEF Spec

-----------------------------------------------------------------------------
(* The refinement.                                                         *)

LEMMA SameAdd ==
    ASSUME NEW q, NEW t, NEW elev, NEW c
    PROVE  Abstract!Add(q, t, elev, c) = Add(q, t, elev, c)
BY DEF Add, InsertPosition, InsertAtPosition, GoesBefore, ScanLength, Abstract!Add,
       Abstract!InsertPosition, Abstract!InsertAtPosition, Abstract!GoesBefore, Abstract!ScanLength

LEMMA SameRemove ==
    ASSUME NEW q, NEW t
    PROVE  Abstract!Remove(q, t) = Remove(q, t)
BY DEF Remove, FirstPosition, RemoveAtPosition, ScanLength, Abstract!Remove,
       Abstract!FirstPosition, Abstract!RemoveAtPosition, Abstract!ScanLength

LEMMA QueueOfPath ==
    ASSUME NEW q, NEW f, Sound(list, q, f)
    PROVE  AbstractQueue = TasksOf(list, q)
BY PathIsChain DEF AbstractQueue, TasksOf, Sound

LEMMA QueueOfNextPath ==
    ASSUME NEW q, NEW f, Sound(list', q, f)
    PROVE  AbstractQueue' = TasksOf(list', q)
<1>1. PathFrom(list', list'.head) = q
  BY PathIsChain DEF Sound
<1> QED BY <1>1 DEF AbstractQueue, TasksOf

LEMMA InitRefines == Init => Abstract!Init
<1> SUFFICES ASSUME Init PROVE Abstract!Init
  OBVIOUS
<1>1. PICK q, f : Sound(list, q, f) /\ TasksOf(list, q) = <<Idle>>
  BY InitSound DEF Init
<1>2. AbstractQueue = <<Idle>>
  BY <1>1, QueueOfPath
<1> QED BY <1>2 DEF Init, Abstract!Init

LEMMA NextRefines == IInv /\ [Next]_vars => [Abstract!Next]_(Abstract!vars)
<1> SUFFICES ASSUME IInv, [Next]_vars PROVE [Abstract!Next]_(Abstract!vars)
  OBVIOUS
<1>1. PICK q, f : Sound(list, q, f)
  BY DEF IInv
<1>2. AbstractQueue = TasksOf(list, q)
  BY <1>1, QueueOfPath
<1>3. ASSUME NEW t \in Task \ {Idle}, AddToReadyQ(t) PROVE Abstract!AddToReadyQ(t)
  <2>1. PICK r, g : /\ Sound(ListAdd(list, t), r, g)
                    /\ TasksOf(ListAdd(list, t), r) = Add(TasksOf(list, q), t, elevated, ceil)
    BY <1>1, ListAddIsAdd
  <2>2. Sound(list', r, g) /\ TasksOf(list', r) = Add(TasksOf(list, q), t, elevated, ceil)
    BY <1>3, <2>1 DEF AddToReadyQ
  <2>3. AbstractQueue' = Add(AbstractQueue, t, elevated, ceil)
    BY <1>2, <2>2, QueueOfNextPath
  <2> QED BY <1>3, <2>3, SameAdd DEF AddToReadyQ, Abstract!AddToReadyQ
<1>4. ASSUME NEW t \in Task \ {Idle}, RemFromReadyQ(t) PROVE Abstract!RemFromReadyQ(t)
  <2>1. PICK r, g : /\ Sound(ListRemove(list, t), r, g)
                    /\ TasksOf(ListRemove(list, t), r) = Remove(TasksOf(list, q), t)
    BY <1>1, ListRemoveIsRemove
  <2>2. Sound(list', r, g) /\ TasksOf(list', r) = Remove(TasksOf(list, q), t)
    BY <1>4, <2>1 DEF RemFromReadyQ
  <2>3. AbstractQueue' = Remove(AbstractQueue, t)
    BY <1>2, <2>2, QueueOfNextPath
  <2> QED BY <1>4, <2>3, SameRemove DEF RemFromReadyQ, Abstract!RemFromReadyQ
<1>5. ASSUME UNCHANGED list PROVE UNCHANGED AbstractQueue
  BY <1>5 DEF AbstractQueue
<1>6. ASSUME NEW t \in Task \ {Idle}, NEW c \in Ceiling, Elevate(t, c)
      PROVE  Abstract!Elevate(t, c)
  BY <1>5, <1>6 DEF Elevate, Abstract!Elevate
<1>7. ASSUME NEW t \in Task \ {Idle}, Lower(t) PROVE Abstract!Lower(t)
  BY <1>5, <1>7 DEF Lower, Abstract!Lower
<1>8. CASE UNCHANGED vars
  BY <1>5, <1>8 DEF vars, Abstract!vars
<1> QED BY <1>3, <1>4, <1>6, <1>7, <1>8 DEF Next, Abstract!Next

\* The linked list of nrk_task.c does what the sequence of NrkReadyQueue
\* promises, for every set of tasks and every size of the pool.
THEOREM ListImplementsQueue == Spec => ImplementsQueue
<1>1. Spec => []IInv
  BY InitInv, NextInv, PTL DEF Spec
<1> QED BY <1>1, InitRefines, NextRefines, PTL DEF Spec, ImplementsQueue, Abstract!Spec
=============================================================================
