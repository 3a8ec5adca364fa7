----------------------------- MODULE WaitLemmas -----------------------------
(* Lemmas for WaitTokenProofs: the leaves of a tree of waits, the calls an   *)
(* operation makes about them, the channel to the input service, the host    *)
(* tokens in the tables, and the invariant KInv.                             *)
EXTENDS WaitInvariant, TLAPS, NaturalsInduction, WellFoundedInduction

(* A set of numbers that is not empty has a least one.  The recursive        *)
(* definitions of wait_tree are reasoned about with it: of the places where  *)
(* a claim fails, take the first.                                            *)
LEMMA Smallest ==
  ASSUME NEW S \in SUBSET Nat, S # {}
  PROVE  \E m \in S : \A n \in S : m <= n
<1>1. PICK m \in S : \A n \in S : <<n, m>> \notin OpToRel(<, Nat)
  BY NatLessThanWellFounded, WFMin, Zenon
<1>2. \A n \in S : ~(n < m)
  BY <1>1, Zenon DEF OpToRel
<1> QED BY <1>2

(* Joined over q, as a function of the number of sequences taken. *)
UpTo(q, n, h) ==
    h = [i \in 0..n |-> IF i = 0 THEN <<>> ELSE h[i - 1] \o q[i]]

(* The recursion of Joined has a solution. *)
LEMMA UpToExists ==
  ASSUME NEW q, NEW n \in Nat
  PROVE  \E h : UpTo(q, n, h)
<1> DEFINE S == {k \in Nat : ~\E h : UpTo(q, k, h)}
<1> SUFFICES ASSUME S # {} PROVE FALSE
  OBVIOUS
<1>1. PICK k \in S : \A j \in S : k <= j
  <2> HIDE DEF S
  <2>1. S \in SUBSET Nat BY DEF S
  <2> QED BY <2>1, Smallest, Zenon
<1>2. CASE k = 0
  <2>1. UpTo(q, 0, [i \in 0..0 |-> <<>>])
    BY DEF UpTo
  <2> QED BY <1>2, <2>1
<1>3. CASE k # 0
  <2>1. k - 1 \in Nat /\ k - 1 \notin S
    BY <1>1, <1>3
  <2>2. PICK h : UpTo(q, k - 1, h)
    BY <2>1
  <2> DEFINE g == [i \in 0..k |-> IF i = k THEN h[k - 1] \o q[k] ELSE h[i]]
  <2>3. \A i \in 0..k : g[i] = IF i = 0 THEN <<>> ELSE g[i - 1] \o q[i]
    <3> TAKE i \in 0..k
    <3>1. CASE i = k
      BY <1>3, <3>1
    <3>2. CASE i # k
      <4>1. h[i] = IF i = 0 THEN <<>> ELSE h[i - 1] \o q[i]
        <5>1. i \in 0..(k - 1)
          BY <3>2
        <5> QED BY <2>2, <5>1, Zenon DEF UpTo
      <4> QED BY <3>2, <4>1
    <3> QED BY <3>1, <3>2
  <2>4. UpTo(q, k, g)
    <3>1. g = [i \in 0..k |-> g[i]]
      OBVIOUS
    <3> HIDE DEF g
    <3> QED BY <2>3, <3>1, Zenon DEF UpTo
  <2> QED BY <2>4
<1> QED BY <1>2, <1>3

(* Joined is the value of that solution at its end. *)
LEMMA JoinedIs ==
  ASSUME NEW q, NEW n \in Nat
  PROVE  \E h : UpTo(q, n, h) /\ Joined(q, n) = h[n]
<1> DEFINE h == CHOOSE f : UpTo(q, n, f)
<1>1. UpTo(q, n, h)
  <2> HIDE DEF h
  <2>1. \E f : UpTo(q, n, f) BY UpToExists, Zenon
  <2> QED BY <2>1, Zenon DEF h
<1>2. Joined(q, n) = h[n]
  BY Zenon DEF Joined, UpTo
<1> QED BY <1>1, <1>2, Zenon

(* The elements of two sequences one after the other. *)
LEMMA ConcatRange ==
  ASSUME NEW A, NEW s \in Seq(A), NEW t \in Seq(A)
  PROVE  s \o t \in Seq(A) /\ Range(s \o t) = Range(s) \cup Range(t)
<1>1. s \o t \in Seq(A) /\ Len(s \o t) = Len(s) + Len(t)
      /\ \A i \in 1..(Len(s) + Len(t)) :
           (s \o t)[i] = IF i <= Len(s) THEN s[i] ELSE t[i - Len(s)]
  OBVIOUS
<1>2. DOMAIN s = 1..Len(s) /\ DOMAIN t = 1..Len(t) /\ DOMAIN (s \o t) = 1..(Len(s) + Len(t))
      /\ Len(s) \in Nat /\ Len(t) \in Nat
  BY <1>1
<1>3. ASSUME NEW x \in Range(s \o t)
      PROVE  x \in Range(s) \cup Range(t)
  <2>1. PICK i \in 1..(Len(s) + Len(t)) : x = (s \o t)[i]
    BY <1>2, <1>3, Zenon DEF Range
  <2>2. CASE i <= Len(s)
    <3>1. i \in DOMAIN s /\ x = s[i]
      BY <1>1, <1>2, <2>1, <2>2
    <3> QED BY <3>1, Zenon DEF Range
  <2>3. CASE ~(i <= Len(s))
    <3>1. i - Len(s) \in DOMAIN t
      BY <1>2, <2>1, <2>3
    <3>2. x = t[i - Len(s)]
      BY <1>1, <2>1, <2>3, Zenon
    <3> QED BY <3>1, <3>2, Zenon DEF Range
  <2> QED BY <2>2, <2>3
<1>4. ASSUME NEW x \in Range(s)
      PROVE  x \in Range(s \o t)
  <2>1. PICK i \in 1..Len(s) : x = s[i]
    BY <1>2, <1>4, Zenon DEF Range
  <2>2. i \in 1..(Len(s) + Len(t)) /\ i <= Len(s)
    BY <1>2, <2>1
  <2> QED BY <1>1, <1>2, <2>1, <2>2, Zenon DEF Range
<1>5. ASSUME NEW x \in Range(t)
      PROVE  x \in Range(s \o t)
  <2>1. PICK i \in 1..Len(t) : x = t[i]
    BY <1>2, <1>5, Zenon DEF Range
  <2>2. i + Len(s) \in 1..(Len(s) + Len(t)) /\ ~(i + Len(s) <= Len(s)) /\ i + Len(s) - Len(s) = i
    BY <1>2, <2>1
  <2>3. (s \o t)[i + Len(s)] = x
    <3> DEFINE j == i + Len(s)
    <3>1. (s \o t)[j] = IF j <= Len(s) THEN s[j] ELSE t[j - Len(s)]
      BY <1>1, <2>2, Zenon
    <3> QED BY <2>1, <2>2, <3>1
  <2> QED BY <1>2, <2>2, <2>3, Zenon DEF Range
<1> QED BY <1>1, <1>3, <1>4, <1>5, Zenon

(* Two sequences without repetition and without a common element. *)
LEMMA ConcatInjective ==
  ASSUME NEW A, NEW s \in Seq(A), NEW t \in Seq(A),
         IsInjective(s), IsInjective(t), Range(s) \cap Range(t) = {}
  PROVE  IsInjective(s \o t)
<1>1. Len(s \o t) = Len(s) + Len(t)
      /\ \A i \in 1..(Len(s) + Len(t)) :
           (s \o t)[i] = IF i <= Len(s) THEN s[i] ELSE t[i - Len(s)]
  OBVIOUS
<1>2. DOMAIN s = 1..Len(s) /\ DOMAIN t = 1..Len(t) /\ DOMAIN (s \o t) = 1..(Len(s) + Len(t))
      /\ Len(s) \in Nat /\ Len(t) \in Nat
  BY <1>1
<1>3. ASSUME NEW i \in 1..(Len(s) + Len(t)), NEW j \in 1..(Len(s) + Len(t)),
             (s \o t)[i] = (s \o t)[j]
      PROVE  i = j
  <2> DEFINE low(k) == k \in DOMAIN s /\ (s \o t)[k] = s[k]
             high(k) == k - Len(s) \in DOMAIN t /\ (s \o t)[k] = t[k - Len(s)]
  <2>1. ASSUME NEW k \in 1..(Len(s) + Len(t))
        PROVE  low(k) \/ high(k)
    <3>1. CASE k <= Len(s)
      BY <1>1, <1>2, <3>1
    <3>2. CASE ~(k <= Len(s))
      <4>1. k - Len(s) \in DOMAIN t
        BY <1>2, <3>2
      <4> QED BY <1>1, <3>2, <4>1, Zenon
    <3> QED BY <3>1, <3>2
  <2>2. CASE low(i) /\ low(j)
    BY <1>3, <2>2, Zenon DEF IsInjective
  <2>3. CASE high(i) /\ high(j)
    <3>1. i - Len(s) = j - Len(s)
      BY <1>3, <2>3, Zenon DEF IsInjective
    <3> QED BY <1>2, <3>1
  <2>4. CASE low(i) /\ high(j)
    BY <1>3, <2>4, Zenon DEF Range
  <2>5. CASE high(i) /\ low(j)
    BY <1>3, <2>5, Zenon DEF Range
  <2> HIDE DEF low, high
  <2> QED BY <2>1, <2>2, <2>3, <2>4, <2>5, Zenon
<1> QED BY <1>2, <1>3, Zenon DEF IsInjective

(* One more number. *)
LEMMA IntervalGrows == \A n \in Nat : n # 0 => 1..n = 1..(n - 1) \cup {n}
OBVIOUS

(* The elements of several sequences one after the other, and when none is   *)
(* repeated.                                                                 *)
LEMMA JoinedFacts ==
  ASSUME NEW A, NEW q \in Seq(Seq(A)), NEW size, size = Len(q)
  PROVE  /\ Joined(q, size) \in Seq(A)
         /\ Range(Joined(q, size)) = UNION {Range(q[i]) : i \in DOMAIN q}
         /\ (/\ \A i \in DOMAIN q : IsInjective(q[i])
             /\ \A i, j \in DOMAIN q : i # j => Range(q[i]) \cap Range(q[j]) = {})
            => IsInjective(Joined(q, size))
<1>1. Len(q) \in Nat /\ DOMAIN q = 1..Len(q) /\ \A i \in DOMAIN q : q[i] \in Seq(A)
  OBVIOUS
<1>2. PICK h : UpTo(q, Len(q), h) /\ Joined(q, size) = h[Len(q)]
  BY <1>1, JoinedIs, Zenon
<1>h. \A i \in 0..Len(q) : h[i] = IF i = 0 THEN <<>> ELSE h[i - 1] \o q[i]
  BY <1>2, Zenon DEF UpTo
<1> DEFINE Apart == /\ \A i \in DOMAIN q : IsInjective(q[i])
                    /\ \A i, j \in DOMAIN q : i # j => Range(q[i]) \cap Range(q[j]) = {}
           P(n) == /\ h[n] \in Seq(A)
                   /\ Range(h[n]) = UNION {Range(q[i]) : i \in 1..n}
                   /\ Apart => IsInjective(h[n])
           S == {k \in Nat : k \in 0..Len(q) /\ ~P(k)}
<1>3. S = {}
  <2> SUFFICES ASSUME S # {} PROVE FALSE
    BY Zenon
  <2>1. PICK k \in S : \A j \in S : k <= j
    <3> HIDE DEF S
    <3>1. S \in SUBSET Nat BY DEF S
    <3> QED BY <3>1, Smallest, Zenon
  <2> HIDE DEF Apart
  <2>2. k \in 0..Len(q) /\ ~P(k)
    BY <1>1, <2>1
  <2>3. CASE k = 0
    <3>1. h[k] = <<>> /\ <<>> \in Seq(A) /\ DOMAIN <<>> = {} /\ 1..k = {}
      BY <1>h, <2>2, <2>3
    <3>2. Range(h[k]) = UNION {Range(q[i]) : i \in 1..k}
      BY <3>1, Zenon DEF Range
    <3>3. Apart => IsInjective(h[k])
      BY <3>1, Zenon DEF IsInjective
    <3> QED BY <2>2, <3>1, <3>2, <3>3, Zenon
  <2>4. CASE k # 0
    <3>0. k \in DOMAIN q
      BY <1>1, <2>2, <2>4
    <3>1. k - 1 \in 0..Len(q) /\ k - 1 \in Nat /\ k - 1 < k
      BY <1>1, <2>2, <2>4
    <3>2. P(k - 1)
      <4>1. k - 1 \notin S
        <5>1. ~(k <= k - 1)
          BY <3>1
        <5> HIDE DEF S
        <5> QED BY <2>1, <5>1, Zenon
      <4> HIDE DEF P
      <4> QED BY <3>1, <4>1, Zenon
    <3>3. h[k] = h[k - 1] \o q[k] /\ q[k] \in Seq(A)
      BY <1>1, <1>h, <2>2, <2>4, <3>0, Zenon
    <3>4. h[k] \in Seq(A) /\ Range(h[k]) = Range(h[k - 1]) \cup Range(q[k])
      <4>1. h[k - 1] \in Seq(A) /\ q[k] \in Seq(A)
        BY <3>2, <3>3, Zenon
      <4>2. /\ h[k - 1] \o q[k] \in Seq(A)
            /\ Range(h[k - 1] \o q[k]) = Range(h[k - 1]) \cup Range(q[k])
        <5>1. \A s, t \in Seq(A) : s \o t \in Seq(A) /\ Range(s \o t) = Range(s) \cup Range(t)
          BY ConcatRange, Zenon
        <5> QED BY <4>1, <5>1, Zenon
      <4> QED BY <3>3, <4>2, Zenon
    <3>5. Range(h[k]) = UNION {Range(q[i]) : i \in 1..k}
      <4>1. 1..k = 1..(k - 1) \cup {k}
        <5>1. k \in Nat
          BY <2>1, Zenon
        <5> QED BY <2>4, <5>1, IntervalGrows, Zenon
      <4>2. Range(h[k - 1]) = UNION {Range(q[i]) : i \in 1..(k - 1)}
        BY <3>2, Zenon
      <4> QED BY <3>4, <4>1, <4>2, Zenon
    <3>6. ASSUME Apart PROVE IsInjective(h[k])
      <4>1. Range(h[k - 1]) \cap Range(q[k]) = {}
        <5>1. \A i \in 1..(k - 1) : i \in DOMAIN q /\ i # k
          BY <1>1, <2>2, <2>4
        <5>2. \A i \in 1..(k - 1) : Range(q[i]) \cap Range(q[k]) = {}
          BY <3>0, <3>6, <5>1, Zenon DEF Apart
        <5> QED BY <3>2, <5>2, Zenon
      <4>2. h[k - 1] \in Seq(A) /\ IsInjective(h[k - 1]) /\ IsInjective(q[k])
        BY <3>0, <3>2, <3>6, Zenon DEF Apart
      <4>3. IsInjective(h[k - 1] \o q[k])
        BY <3>3, <4>1, <4>2, ConcatInjective, Zenon
      <4> QED BY <3>3, <4>3, Zenon
    <3> QED BY <2>2, <3>4, <3>5, <3>6, Zenon
  <2> QED BY <2>3, <2>4
<1>4. P(Len(q))
  <2>1. Len(q) \in 0..Len(q)
    BY <1>1
  <2> HIDE DEF P
  <2> QED BY <1>1, <1>3, <2>1, Zenon
<1> QED BY <1>1, <1>2, <1>4, Zenon

----------------------------------------------------------------------------
(* A table is a function from tokens to entries. *)
LEMMA TableEntries ==
    ASSUME NEW w \in Tables
    PROVE  /\ DOMAIN w \subseteq Nat
           /\ w = [t \in DOMAIN w |-> w[t]]
           /\ \A t \in DOMAIN w : w[t] \in Entries
BY Zenon DEF Tables

(* A tree holds the children of its waits. *)
LEMMA TreeKids ==
    ASSUME NEW w, Forest(w), NEW root,
           NEW t \in Tree(w, root), NEW i \in DOMAIN w[t].kids
    PROVE  w[t].kids[i] \in Tree(w, root)
<1>1. t \in DOMAIN w /\ w[t].kids[i] \in DOMAIN w
    BY Zenon DEF Tree, Forest
<1>2. ASSUME NEW S \in SUBSET DOMAIN w, root \in S, Closed(w, S)
      PROVE  w[t].kids[i] \in S
    BY <1>2, Zenon DEF Tree, Closed
<1> QED
    BY <1>1, <1>2, Zenon DEF Tree

(* A wait of a tree other than its root is a child of a wait of the tree. *)
LEMMA TreeMembers ==
    ASSUME NEW w, Forest(w), NEW root \in DOMAIN w,
           NEW k \in Tree(w, root), k # root
    PROVE  \E u \in Tree(w, root) : k \in Range(w[u].kids)
<1> DEFINE T == Tree(w, root)
<1> DEFINE S == T \ {k}
<1> SUFFICES ASSUME \A u \in T : k \notin Range(w[u].kids) PROVE FALSE
    BY Zenon
<1>1. T \subseteq DOMAIN w /\ root \in T
    BY Zenon DEF Tree
<1>2. Closed(w, S)
    <2> SUFFICES ASSUME NEW u \in S, NEW i \in DOMAIN w[u].kids PROVE w[u].kids[i] \in S
        BY Zenon DEF Closed
    <2>1. w[u].kids[i] \in T
        BY TreeKids, Zenon
    <2>2. w[u].kids[i] # k
        BY Zenon DEF Range
    <2> QED
        BY <2>1, <2>2, Zenon
<1>3. k \in S
    BY <1>1, <1>2, Zenon DEF Tree
<1> QED
    BY <1>3, Zenon

----------------------------------------------------------------------------
(* The walk of wait_tree over the tokens of a set D. *)
LeafMap(w, D, f) ==
    f = [t \in D |-> IF w[t].kids = <<>> THEN <<t>>
                     ELSE Joined([i \in DOMAIN w[t].kids |-> f[w[t].kids[i]]], Len(w[t].kids))]

(* The recursion of Leaves has a solution on the waits below n: a wait is    *)
(* made after its children, so a claim that fails first fails at a wait      *)
(* whose children have it.                                                   *)
LEMMA LeafMapExists ==
  ASSUME NEW w \in Tables, Forest(w), NEW n \in Nat
  PROVE  \E f : LeafMap(w, {t \in DOMAIN w : t < n}, f)
<1> DEFINE D(k) == {t \in DOMAIN w : t < k}
           S == {k \in Nat : ~\E f : LeafMap(w, D(k), f)}
<1>0. DOMAIN w \subseteq Nat
  BY TableEntries, Zenon
<1> SUFFICES ASSUME S # {} PROVE FALSE
  OBVIOUS
<1>1. PICK k \in S : \A j \in S : k <= j
  <2> HIDE DEF S
  <2>1. S \in SUBSET Nat BY Zenon DEF S
  <2> QED BY <2>1, Smallest, Zenon
<1>2. CASE k = 0
  <2>1. D(k) = {}
    BY <1>0, <1>2
  <2>2. LeafMap(w, {}, [t \in {} |-> <<>>])
    BY Zenon DEF LeafMap
  <2> QED BY <2>1, <2>2, Zenon
<1>3. CASE k # 0
  <2>1. k - 1 \in Nat /\ ~(k <= k - 1)
    BY <1>3
  <2>2. k - 1 \notin S
    <3> HIDE DEF S
    <3> QED BY <1>1, <2>1, Zenon
  <2>3. PICK f : LeafMap(w, D(k - 1), f)
    <3> HIDE DEF D
    <3> QED BY <2>1, <2>2, Zenon
  <2> DEFINE step(h, t) == IF w[t].kids = <<>> THEN <<t>>
                           ELSE Joined([i \in DOMAIN w[t].kids |-> h[w[t].kids[i]]], Len(w[t].kids))
             g == [t \in D(k) |-> IF t = k - 1 THEN step(f, t) ELSE f[t]]
  <2>4. ASSUME NEW t \in D(k), t # k - 1
        PROVE  t \in D(k - 1)
    BY <1>0, <1>3, <2>4
  <2>5. ASSUME NEW t \in D(k), NEW i \in DOMAIN w[t].kids
        PROVE  w[t].kids[i] \in D(k) /\ w[t].kids[i] # k - 1
    <3>1. w[t].kids[i] \in DOMAIN w /\ w[t].kids[i] < t /\ t < k
      BY <2>5, Zenon DEF Forest
    <3> QED BY <1>0, <1>3, <3>1
  <2>6. \A t \in D(k) : g[t] = step(f, t)
    <3> HIDE DEF D
    <3> TAKE t \in D(k)
    <3>1. CASE t = k - 1
      BY <3>1, Zenon
    <3>2. CASE t # k - 1
      BY <2>3, <2>4, <3>2, Zenon DEF LeafMap
    <3> QED BY <3>1, <3>2, Zenon
  <2>7. \A t \in D(k) : step(g, t) = step(f, t)
    <3> TAKE t \in D(k)
    <3> HIDE DEF D
    <3>1. \A i \in DOMAIN w[t].kids : g[w[t].kids[i]] = f[w[t].kids[i]]
      BY <2>5, Zenon
    <3> HIDE DEF g
    <3>2. [i \in DOMAIN w[t].kids |-> g[w[t].kids[i]]] = [i \in DOMAIN w[t].kids |-> f[w[t].kids[i]]]
      BY <3>1, Zenon
    <3> QED BY <3>2, ZenonT(30)
  <2>8. g = [t \in D(k) |-> step(g, t)]
    <3>1. g = [t \in D(k) |-> g[t]]
      <4> HIDE DEF D, step
      <4> QED BY Zenon
    <3> HIDE DEF g, D, step
    <3> QED BY <2>6, <2>7, <3>1, Zenon
  <2>9. LeafMap(w, D(k), g)
    <3> HIDE DEF g, D
    <3> QED BY <2>8, Zenon DEF LeafMap
  <2> QED BY <2>9, Zenon
<1> QED BY <1>2, <1>3, Zenon

(* Leaves is the value of that solution. *)
LEMMA LeavesMap ==
  ASSUME NEW w \in Tables, Forest(w), NEW n \in Nat, DOMAIN w \subseteq 1..n
  PROVE  \E f : /\ LeafMap(w, DOMAIN w, f)
                /\ \A root : Leaves(w, root) = f[root]
<1>1. {t \in DOMAIN w : t < n + 1} = DOMAIN w /\ n + 1 \in Nat
  OBVIOUS
<1>2. \E f : LeafMap(w, DOMAIN w, f)
  <2>1. \E f : LeafMap(w, {t \in DOMAIN w : t < n + 1}, f)
    BY <1>1, LeafMapExists, Zenon
  <2> QED BY <1>1, <2>1, Zenon
<1> DEFINE F == CHOOSE f : LeafMap(w, DOMAIN w, f)
<1>3. LeafMap(w, DOMAIN w, F)
  BY <1>2, Zenon
<1>4. \A root : Leaves(w, root) = F[root]
  BY Zenon DEF Leaves, LeafMap
<1> HIDE DEF F
<1> QED BY <1>3, <1>4, Zenon

(* The tokens of a tree are its root and the tokens of its children's trees, *)
(* all at most the root.                                                     *)
LEMMA TreeParts ==
  ASSUME NEW w \in Tables, Forest(w), NEW root \in DOMAIN w
  PROVE  /\ Tree(w, root) = {root} \cup UNION {Tree(w, w[root].kids[i]) : i \in DOMAIN w[root].kids}
         /\ \A t \in Tree(w, root) : t <= root
<1> DEFINE T == Tree(w, root)
           K == UNION {Tree(w, w[root].kids[i]) : i \in DOMAIN w[root].kids}
<1>0. DOMAIN w \subseteq Nat /\ root \in T /\ T \subseteq DOMAIN w
  BY TableEntries, Zenon DEF Tree
<1>1. ASSUME NEW i \in DOMAIN w[root].kids
      PROVE  /\ w[root].kids[i] \in DOMAIN w
             /\ Tree(w, w[root].kids[i]) \subseteq T
             /\ Tree(w, w[root].kids[i]) \subseteq DOMAIN w
             /\ w[root].kids[i] \in Tree(w, w[root].kids[i])
  <2>1. w[root].kids[i] \in T /\ w[root].kids[i] \in DOMAIN w
    BY <1>0, TreeKids, Zenon DEF Forest
  <2>2. Closed(w, T)
    BY TreeKids, Zenon DEF Closed
  <2> HIDE DEF T
  <2> QED BY <1>0, <2>1, <2>2, Zenon DEF Tree
<1>2. T \subseteq {root} \cup K
  <2> DEFINE S == {root} \cup K
  <2>1. S \in SUBSET DOMAIN w
    BY <1>1, Zenon
  <2>2. Closed(w, S)
    <3> SUFFICES ASSUME NEW t \in S, NEW j \in DOMAIN w[t].kids
                 PROVE  w[t].kids[j] \in S
      BY Zenon DEF Closed
    <3>1. CASE t = root
      BY <1>1, <3>1, Zenon
    <3>2. CASE t \in K
      <4>1. PICK i \in DOMAIN w[root].kids : t \in Tree(w, w[root].kids[i])
        BY <3>2, Zenon
      <4>2. w[t].kids[j] \in Tree(w, w[root].kids[i])
        BY <4>1, TreeKids, Zenon
      <4> QED BY <4>2, Zenon
    <3> QED BY <3>1, <3>2, Zenon
  <2>3. root \in S
    BY Zenon
  <2> HIDE DEF S
  <2>4. T \subseteq S
    BY <2>1, <2>2, <2>3, Zenon DEF Tree
  <2> QED BY <2>4, Zenon DEF S
<1>3. \A t \in T : t <= root
  <2> DEFINE S == {t \in DOMAIN w : t <= root}
  <2>1. root \in S /\ S \in SUBSET DOMAIN w
    BY <1>0
  <2>2. Closed(w, S)
    <3> SUFFICES ASSUME NEW t \in S, NEW j \in DOMAIN w[t].kids
                 PROVE  w[t].kids[j] \in S
      BY Zenon DEF Closed
    <3>1. w[t].kids[j] \in DOMAIN w /\ w[t].kids[j] < t
      BY Zenon DEF Forest
    <3> QED BY <1>0, <3>1
  <2> HIDE DEF S
  <2>3. T \subseteq S
    BY <2>1, <2>2, Zenon DEF Tree
  <2> QED BY <2>3, Zenon DEF S
<1> HIDE DEF T
<1>4. {root} \cup K \subseteq T
  BY <1>0, <1>1, Zenon
<1>5. T = {root} \cup K
  BY <1>2, <1>4, Zenon
<1> QED BY <1>3, <1>5, Zenon DEF T

(* The trees of two children of one entry have no token in common: the      *)
(* largest one would have its only parent in both.                           *)
LEMMA TreesApart ==
  ASSUME NEW w \in Tables, Forest(w), NEW n \in Nat, DOMAIN w \subseteq 1..n,
         NEW t \in DOMAIN w, NEW i \in DOMAIN w[t].kids, NEW j \in DOMAIN w[t].kids, i # j
  PROVE  Tree(w, w[t].kids[i]) \cap Tree(w, w[t].kids[j]) = {}
<1> DEFINE a == w[t].kids[i]
           b == w[t].kids[j]
           C == Tree(w, a) \cap Tree(w, b)
           S == {n - x : x \in C}
<1>0. a \in DOMAIN w /\ b \in DOMAIN w /\ a # b /\ a < t /\ b < t
      /\ a \in Range(w[t].kids) /\ b \in Range(w[t].kids)
  BY Zenon DEF Forest, IsInjective, Range
<1>1. Tree(w, a) \subseteq DOMAIN w /\ Tree(w, b) \subseteq DOMAIN w
  BY Zenon DEF Tree
<1> SUFFICES ASSUME C # {} PROVE FALSE
  BY Zenon
<1> HIDE DEF a, b
<1>2. S \in SUBSET Nat /\ S # {}
  BY <1>1
<1>3. PICK s \in S : \A y \in S : s <= y
  <2> HIDE DEF S
  <2> QED BY <1>2, Smallest, Zenon
<1>4. PICK x \in C : \A y \in C : n - x <= n - y
  BY <1>3
<1>5. \A y \in C : y <= x
  BY <1>1, <1>4
<1>6. \A u, v \in DOMAIN w : x \in Range(w[u].kids) /\ x \in Range(w[v].kids) => u = v
  BY <1>1, Zenon DEF Forest
<1>7. ASSUME NEW r \in DOMAIN w, r < t, t \in Tree(w, r) PROVE FALSE
  <2>1. t <= r
    BY <1>7, TreeParts, Zenon
  <2>2. t \in Nat /\ r \in Nat
    OBVIOUS
  <2> QED BY <1>7, <2>1, <2>2
<1>8. CASE x = a
  <2>1. PICK u \in Tree(w, b) : x \in Range(w[u].kids)
    BY <1>0, <1>8, TreeMembers, Zenon
  <2>2. u = t
    BY <1>0, <1>1, <1>6, <1>8, <2>1, Zenon
  <2> QED BY <1>0, <1>7, <2>1, <2>2, Zenon
<1>9. CASE x = b
  <2>1. PICK u \in Tree(w, a) : x \in Range(w[u].kids)
    BY <1>0, <1>9, TreeMembers, Zenon
  <2>2. u = t
    BY <1>0, <1>1, <1>6, <1>9, <2>1, Zenon
  <2> QED BY <1>0, <1>7, <2>1, <2>2, Zenon
<1>10. CASE x # a /\ x # b
  <2>1. PICK u \in Tree(w, a) : x \in Range(w[u].kids)
    BY <1>0, <1>10, TreeMembers, Zenon
  <2>2. PICK v \in Tree(w, b) : x \in Range(w[v].kids)
    BY <1>0, <1>10, TreeMembers, Zenon
  <2>3. u = v
    BY <1>1, <1>6, <2>1, <2>2, Zenon
  <2>4. u \in C /\ x < u
    <3>1. u \in C /\ u \in DOMAIN w
      BY <1>1, <2>1, <2>2, <2>3, Zenon
    <3>2. PICK k \in DOMAIN w[u].kids : x = w[u].kids[k]
      BY <2>1, Zenon DEF Range
    <3> QED BY <3>1, <3>2, Zenon DEF Forest
  <2>5. u <= x /\ u \in Nat /\ x \in Nat
    BY <1>1, <1>5, <2>4
  <2> QED BY <2>4, <2>5
<1> QED BY <1>8, <1>9, <1>10, Zenon

(* What wait_tree finds under a root: the entries of the tree that have no   *)
(* children, each once.                                                      *)
LEMMA LeavesFacts ==
  ASSUME NEW w \in Tables, Forest(w), NEW n \in Nat, DOMAIN w \subseteq 1..n,
         NEW root \in DOMAIN w
  PROVE  /\ Leaves(w, root) \in Seq(DOMAIN w)
         /\ Range(Leaves(w, root)) = {t \in Tree(w, root) : w[t].kids = <<>>}
         /\ IsInjective(Leaves(w, root))
<1>1. PICK f : /\ LeafMap(w, DOMAIN w, f)
               /\ \A r : Leaves(w, r) = f[r]
  BY LeavesMap, Zenon
<1> DEFINE A == DOMAIN w
           L(t) == {u \in Tree(w, t) : w[u].kids = <<>>}
           P(t) == f[t] \in Seq(A) /\ Range(f[t]) = L(t) /\ IsInjective(f[t])
           S == {t \in DOMAIN w : ~P(t)}
<1>2. S = {}
  <2> SUFFICES ASSUME S # {} PROVE FALSE
    OBVIOUS
  <2>1. PICK t \in S : \A j \in S : t <= j
    <3>1. S \in SUBSET Nat
      OBVIOUS
    <3> HIDE DEF S
    <3> QED BY <3>1, Smallest, Zenon
  <2>2. t \in DOMAIN w /\ t \in Nat /\ ~P(t)
    <3> HIDE DEF P
    <3> QED BY <2>1
  <2>3. CASE w[t].kids = <<>>
    <3>1. f[t] = <<t>>
      BY <1>1, <2>2, <2>3, Zenon DEF LeafMap
    <3>2. f[t] \in Seq(A) /\ Range(f[t]) = {t} /\ IsInjective(f[t])
      BY <2>2, <3>1 DEF Range, IsInjective
    <3>3. L(t) = {t}
      <4>1. DOMAIN w[t].kids = {}
        BY <2>3
      <4>2. Tree(w, t) = {t} \cup UNION {Tree(w, w[t].kids[i]) : i \in DOMAIN w[t].kids}
        BY <2>2, TreeParts, Zenon
      <4>3. Tree(w, t) = {t}
        BY <4>1, <4>2, Zenon
      <4> QED BY <2>3, <4>3, Zenon
    <3> QED BY <2>2, <3>2, <3>3, Zenon
  <2>4. CASE w[t].kids # <<>>
    <3> DEFINE q == [i \in DOMAIN w[t].kids |-> f[w[t].kids[i]]]
               k == Len(w[t].kids)
    <3>1. f[t] = Joined(q, k)
      BY <1>1, <2>2, <2>4, Zenon DEF LeafMap
    <3>2. ASSUME NEW i \in DOMAIN w[t].kids
          PROVE  w[t].kids[i] \in DOMAIN w /\ P(w[t].kids[i]) /\ q[i] = f[w[t].kids[i]]
      <4>1. w[t].kids[i] \in DOMAIN w /\ w[t].kids[i] < t
        BY <2>2, Zenon DEF Forest
      <4>2. ~(t <= w[t].kids[i])
        BY <2>2, <4>1
      <4> HIDE DEF P
      <4> QED BY <2>1, <4>1, <4>2, Zenon
    <3>3. q \in Seq(Seq(A)) /\ DOMAIN q = DOMAIN w[t].kids /\ k = Len(q)
      <4>1. w[t].kids \in Seq(Nat)
        BY <2>2, TableEntries, Zenon DEF Entries
      <4>2. DOMAIN w[t].kids = 1..Len(w[t].kids) /\ Len(w[t].kids) \in Nat
        BY <4>1
      <4>3. q \in [1..Len(w[t].kids) -> Seq(A)]
        BY <3>2, <4>2, Zenon
      <4> HIDE DEF q
      <4> QED BY <4>2, <4>3, SMTT(30)
    <3> HIDE DEF q, k
    <3>4. ASSUME NEW i \in DOMAIN q
          PROVE  /\ i \in DOMAIN w[t].kids /\ IsInjective(q[i])
                 /\ Range(q[i]) = L(w[t].kids[i])
      BY <3>2, <3>3, Zenon
    <3>5. /\ Joined(q, k) \in Seq(A)
          /\ Range(Joined(q, k)) = UNION {Range(q[i]) : i \in DOMAIN q}
      BY <3>3, JoinedFacts, Zenon
    <3>6. IsInjective(Joined(q, k))
      <4>1. \A i, j \in DOMAIN q : i # j => Range(q[i]) \cap Range(q[j]) = {}
        <5> TAKE i, j \in DOMAIN q
        <5> HAVE i # j
        <5>1. Tree(w, w[t].kids[i]) \cap Tree(w, w[t].kids[j]) = {}
          BY <2>2, <3>4, TreesApart, Zenon
        <5> QED BY <3>4, <5>1, Zenon
      <4> QED BY <3>3, <3>4, <4>1, JoinedFacts, Zenon
    <3>7. UNION {Range(q[i]) : i \in DOMAIN q} = L(t)
      <4>1. Tree(w, t) = {t} \cup UNION {Tree(w, w[t].kids[i]) : i \in DOMAIN w[t].kids}
        BY <2>2, TreeParts, Zenon
      <4>2. ASSUME NEW x \in L(t) PROVE x \in UNION {Range(q[i]) : i \in DOMAIN q}
        <5>1. x # t
          BY <2>4, Zenon
        <5>2. PICK i \in DOMAIN w[t].kids : x \in Tree(w, w[t].kids[i])
          BY <4>1, <5>1, Zenon
        <5> QED BY <3>3, <3>4, <5>2, Zenon
      <4>3. ASSUME NEW i \in DOMAIN q, NEW x \in Range(q[i]) PROVE x \in L(t)
        <5>1. x \in Tree(w, w[t].kids[i]) /\ w[x].kids = <<>> /\ i \in DOMAIN w[t].kids
          BY <3>4, Zenon
        <5> QED BY <4>1, <5>1, Zenon
      <4> QED BY <4>2, <4>3, Zenon
    <3> QED BY <2>2, <3>1, <3>5, <3>6, <3>7, Zenon
  <2> QED BY <2>3, <2>4, Zenon
<1>3. P(root)
  <2> HIDE DEF P
  <2> QED BY <1>2, Zenon
<1> QED BY <1>1, <1>3, Zenon

----------------------------------------------------------------------------
(* The elements of one sequence after another. *)
LEMMA ConcatAt ==
  ASSUME NEW A
  PROVE  \A a, b \in Seq(A) :
           /\ Len(a \o b) = Len(a) + Len(b) /\ a \o b \in Seq(A)
           /\ \A j \in 1..(Len(a) + Len(b)) :
                (a \o b)[j] = IF j <= Len(a) THEN a[j] ELSE b[j - Len(a)]
OBVIOUS

(* A sequence without one of its elements. *)
LEMMA WithoutAt ==
  ASSUME NEW A, NEW s \in Seq(A), NEW i \in DOMAIN s
  PROVE  /\ DOMAIN s = 1..Len(s) /\ Len(s) \in Nat
         /\ DOMAIN Without(s, i) = 1..(Len(s) - 1)
         /\ \A j \in 1..(Len(s) - 1) : Without(s, i)[j] = s[IF j < i THEN j ELSE j + 1]
<1>1. i \in 1..Len(s) /\ Len(s) \in Nat /\ DOMAIN s = 1..Len(s)
  OBVIOUS
<1> DEFINE a == SubSeq(s, 1, i - 1)
           b == SubSeq(s, i + 1, Len(s))
<1>2. a \in Seq(A) /\ Len(a) = i - 1 /\ \A j \in 1..(i - 1) : a[j] = s[j]
  BY <1>1
<1>3. b \in Seq(A) /\ Len(b) = Len(s) - i /\ \A j \in 1..(Len(s) - i) : b[j] = s[i + j]
  BY <1>1, SMTT(30)
<1> HIDE DEF a, b
<1>4. Len(a \o b) = Len(a) + Len(b) /\ a \o b \in Seq(A)
      /\ \A j \in 1..(Len(a) + Len(b)) : (a \o b)[j] = IF j <= Len(a) THEN a[j] ELSE b[j - Len(a)]
  <2>1. a \in Seq(A) /\ b \in Seq(A)
    BY <1>2, <1>3, Zenon
  <2> QED BY <2>1, ConcatAt, Zenon
<1>5. Len(a) + Len(b) = Len(s) - 1
  BY <1>1, <1>2, <1>3
<1>6. Without(s, i) = a \o b
  BY Zenon DEF Without, a, b
<1>7. DOMAIN Without(s, i) = 1..(Len(s) - 1)
  BY <1>4, <1>5, <1>6
<1>8. ASSUME NEW j \in 1..(Len(s) - 1)
      PROVE  (a \o b)[j] = s[IF j < i THEN j ELSE j + 1]
  <2>1. (a \o b)[j] = IF j <= Len(a) THEN a[j] ELSE b[j - Len(a)]
    BY <1>4, <1>5, Zenon
  <2>2. CASE j < i
    <3>1. j \in 1..(i - 1) /\ j <= Len(a)
      BY <1>1, <1>2, <2>2
    <3> QED BY <1>2, <2>1, <2>2, <3>1, Zenon
  <2>3. CASE ~(j < i)
    <3>1. ~(j <= Len(a)) /\ j - Len(a) \in 1..(Len(s) - i) /\ i + (j - Len(a)) = j + 1
      BY <1>1, <1>2, <2>3
    <3> QED BY <1>3, <2>1, <2>3, <3>1, Zenon
  <2> QED BY <2>2, <2>3, Zenon
<1> QED BY <1>1, <1>6, <1>7, <1>8, Zenon

(* What is left when one element is taken out. *)
LEMMA WithoutFacts ==
  ASSUME NEW A, NEW s \in Seq(A), NEW i \in DOMAIN s
  PROVE  /\ Without(s, i) \in Seq(A)
         /\ Range(s) = {s[i]} \cup Range(Without(s, i))
         /\ IsInjective(s) => IsInjective(Without(s, i)) /\ s[i] \notin Range(Without(s, i))
<1> DEFINE v == Without(s, i)
           up(j) == IF j < i THEN j ELSE j + 1
<1>1. /\ DOMAIN s = 1..Len(s) /\ Len(s) \in Nat /\ DOMAIN v = 1..(Len(s) - 1)
      /\ \A j \in 1..(Len(s) - 1) : v[j] = s[up(j)]
  BY WithoutAt, Zenon
<1>2. v \in Seq(A)
  <2>1. SubSeq(s, 1, i - 1) \in Seq(A) /\ SubSeq(s, i + 1, Len(s)) \in Seq(A)
    OBVIOUS
  <2>2. \A a, b \in Seq(A) : a \o b \in Seq(A)
    OBVIOUS
  <2> QED BY <2>1, <2>2, Zenon DEF Without
<1> HIDE DEF v
<1>3. \A j \in DOMAIN v : up(j) \in DOMAIN s /\ up(j) # i /\ v[j] = s[up(j)]
  BY <1>1
<1>4. \A j, k \in DOMAIN v : up(j) = up(k) => j = k
  BY <1>1, SMTT(30)
<1>5. ASSUME NEW k \in DOMAIN s, k # i
      PROVE  \E j \in DOMAIN v : up(j) = k
  <2>1. CASE k < i
    <3>1. k \in DOMAIN v /\ up(k) = k
      BY <1>1, <2>1
    <3> HIDE DEF up
    <3> QED BY <3>1, Zenon
  <2>2. CASE ~(k < i)
    <3>1. k - 1 \in DOMAIN v /\ up(k - 1) = k
      BY <1>1, <1>5, <2>2
    <3> HIDE DEF up
    <3> QED BY <3>1, Zenon
  <2> QED BY <2>1, <2>2, Zenon
<1> HIDE DEF up
<1>6. Range(s) = {s[i]} \cup Range(v)
  <2>1. ASSUME NEW x \in Range(s) PROVE x \in {s[i]} \cup Range(v)
    <3>1. PICK k \in DOMAIN s : x = s[k]
      BY <2>1, Zenon DEF Range
    <3>2. CASE k = i
      BY <3>1, <3>2, Zenon
    <3>3. CASE k # i
      <4>1. PICK j \in DOMAIN v : up(j) = k
        BY <1>5, <3>1, <3>3, Zenon
      <4> QED BY <1>3, <3>1, <4>1, Zenon DEF Range
    <3> QED BY <3>2, <3>3, Zenon
  <2>2. ASSUME NEW x \in Range(v) PROVE x \in Range(s)
    BY <1>3, <2>2, Zenon DEF Range
  <2>3. s[i] \in Range(s)
    BY Zenon DEF Range
  <2> QED BY <2>1, <2>2, <2>3, Zenon
<1>7. ASSUME IsInjective(s) PROVE IsInjective(v) /\ s[i] \notin Range(v)
  <2>1. ASSUME NEW j \in DOMAIN v, NEW k \in DOMAIN v, v[j] = v[k] PROVE j = k
    <3>1. up(j) = up(k)
      BY <1>3, <1>7, <2>1, Zenon DEF IsInjective
    <3> QED BY <1>4, <3>1, Zenon
  <2>2. ASSUME NEW j \in DOMAIN v, v[j] = s[i] PROVE FALSE
    BY <1>3, <1>7, <2>2, Zenon DEF IsInjective
  <2> QED BY <2>1, <2>2, Zenon DEF IsInjective, Range
<1> QED BY <1>2, <1>6, <1>7, Zenon DEF v

(* The host tokens of the waits of a sequence. *)
LEMMA ScopesFacts ==
  ASSUME NEW w \in Tables, NEW ts \in Seq(DOMAIN w), IsInjective(ts),
         \A t, u \in DOMAIN w : w[t].scope # 0 /\ w[t].scope = w[u].scope => t = u
  PROVE  /\ Scopes(w, ts) \in Seq(Nat \ {0})
         /\ Range(Scopes(w, ts)) = {w[t].scope : t \in Range(ts)} \ {0}
         /\ IsInjective(Scopes(w, ts))
<1> DEFINE A == Nat \ {0}
           q == [i \in DOMAIN ts |-> IF w[ts[i]].scope = 0 THEN <<>> ELSE <<w[ts[i]].scope>>]
           k == Len(ts)
<1>1. DOMAIN ts = 1..Len(ts) /\ Len(ts) \in Nat /\ \A i \in DOMAIN ts : ts[i] \in DOMAIN w
  OBVIOUS
<1>2. \A i \in DOMAIN ts : w[ts[i]].scope \in Nat
  BY <1>1, TableEntries, Zenon DEF Entries
<1>3. ASSUME NEW i \in DOMAIN ts
      PROVE  /\ q[i] \in Seq(A) /\ IsInjective(q[i])
             /\ Range(q[i]) = {w[ts[i]].scope} \ {0}
  <2>1. CASE w[ts[i]].scope = 0
    <3>1. q[i] = <<>>
      BY <2>1, Zenon
    <3>2. <<>> \in Seq(A) /\ IsInjective(<<>>) /\ Range(<<>>) = {}
      BY DEF IsInjective, Range
    <3> QED BY <2>1, <3>1, <3>2, Zenon
  <2>2. CASE w[ts[i]].scope # 0
    <3>1. q[i] = <<w[ts[i]].scope>> /\ w[ts[i]].scope \in A
      BY <1>2, <2>2, Zenon
    <3>2. ASSUME NEW x \in A PROVE <<x>> \in Seq(A) /\ IsInjective(<<x>>) /\ Range(<<x>>) = {x}
      BY DEF IsInjective, Range
    <3>3. q[i] \in Seq(A) /\ IsInjective(q[i]) /\ Range(q[i]) = {w[ts[i]].scope}
      BY <3>1, <3>2, Zenon
    <3> QED BY <2>2, <3>3, Zenon
  <2> QED BY <2>1, <2>2, Zenon
<1>4. q \in Seq(Seq(A)) /\ DOMAIN q = DOMAIN ts /\ k = Len(q)
  <2>1. q \in [1..Len(ts) -> Seq(A)]
    BY <1>1, <1>3, Zenon
  <2> HIDE DEF q
  <2> QED BY <1>1, <2>1
<1>5. Scopes(w, ts) = Joined(q, k)
  BY Zenon DEF Scopes
<1> HIDE DEF q, k
<1>6. /\ Joined(q, k) \in Seq(A)
      /\ Range(Joined(q, k)) = UNION {Range(q[i]) : i \in DOMAIN q}
  BY <1>4, JoinedFacts, Zenon
<1>7. IsInjective(Joined(q, k))
  <2>1. \A i, j \in DOMAIN q : i # j => Range(q[i]) \cap Range(q[j]) = {}
    <3> SUFFICES ASSUME NEW i \in DOMAIN q, NEW j \in DOMAIN q,
                        NEW x \in Range(q[i]) \cap Range(q[j])
                 PROVE  i = j
      BY Zenon
    <3>1. i \in DOMAIN ts /\ j \in DOMAIN ts
      BY <1>4, Zenon
    <3>2. x = w[ts[i]].scope /\ x = w[ts[j]].scope /\ x # 0
      BY <1>3, <3>1, Zenon
    <3>3. ts[i] = ts[j]
      BY <1>1, <3>1, <3>2, Zenon
    <3> QED BY <3>1, <3>3, Zenon DEF IsInjective
  <2> QED BY <1>3, <1>4, <2>1, JoinedFacts, Zenon
<1>8. UNION {Range(q[i]) : i \in DOMAIN q} = {w[t].scope : t \in Range(ts)} \ {0}
  <2>1. ASSUME NEW i \in DOMAIN q, NEW x \in Range(q[i])
        PROVE  x \in {w[t].scope : t \in Range(ts)} \ {0}
    <3>1. i \in DOMAIN ts /\ x = w[ts[i]].scope /\ x # 0
      BY <1>3, <1>4, <2>1, Zenon
    <3> QED BY <3>1, Zenon DEF Range
  <2>2. ASSUME NEW t \in Range(ts), w[t].scope # 0
        PROVE  \E i \in DOMAIN q : w[t].scope \in Range(q[i])
    <3>1. PICK i \in DOMAIN ts : t = ts[i]
      BY <2>2, Zenon DEF Range
    <3>2. w[t].scope \in Range(q[i])
      BY <1>3, <2>2, <3>1, Zenon
    <3>3. i \in DOMAIN q
      BY <1>4, Zenon
    <3> QED BY <3>2, <3>3, Zenon
  <2>3. ASSUME NEW x \in {w[t].scope : t \in Range(ts)} \ {0}
        PROVE  x \in UNION {Range(q[i]) : i \in DOMAIN q}
    <3>1. PICK t \in Range(ts) : x = w[t].scope /\ x # 0
      BY <2>3, Zenon
    <3>2. PICK i \in DOMAIN q : x \in Range(q[i])
      BY <2>2, <3>1, Zenon
    <3> QED BY <3>2, Zenon
  <2>4. ASSUME NEW x \in UNION {Range(q[i]) : i \in DOMAIN q}
        PROVE  x \in {w[t].scope : t \in Range(ts)} \ {0}
    <3>1. PICK i \in DOMAIN q : x \in Range(q[i])
      BY <2>4, Zenon
    <3> QED BY <2>1, <3>1, Zenon
  <2> QED BY <2>3, <2>4, Zenon
<1> QED BY <1>5, <1>6, <1>7, <1>8, Zenon

(* The tokens of a table in the order they were made, as finish takes them. *)
LEMMA TokensInOrder ==
  ASSUME NEW w \in Tables, NEW n \in Nat, DOMAIN w \subseteq 1..n
  PROVE  LET s == Joined([t \in 1..n |-> IF t \in DOMAIN w THEN <<t>> ELSE <<>>], n)
         IN s \in Seq(DOMAIN w) /\ Range(s) = DOMAIN w /\ IsInjective(s)
<1> DEFINE A == DOMAIN w
           q == [t \in 1..n |-> IF t \in DOMAIN w THEN <<t>> ELSE <<>>]
<1>1. ASSUME NEW t \in 1..n
      PROVE  q[t] \in Seq(A) /\ IsInjective(q[t]) /\ Range(q[t]) = {t} \cap A
  <2>1. CASE t \in A
    <3>1. q[t] = <<t>>
      BY <2>1, Zenon
    <3>2. <<t>> \in Seq(A) /\ IsInjective(<<t>>) /\ Range(<<t>>) = {t}
      <4> HIDE DEF q
      <4> QED BY <2>1 DEF IsInjective, Range
    <3> QED BY <2>1, <3>1, <3>2, Zenon
  <2>2. CASE t \notin A
    <3>1. q[t] = <<>>
      BY <2>2, Zenon
    <3>2. <<>> \in Seq(A) /\ IsInjective(<<>>) /\ Range(<<>>) = {}
      BY DEF IsInjective, Range
    <3> QED BY <2>2, <3>1, <3>2, Zenon
  <2> QED BY <2>1, <2>2, Zenon
<1>2. q \in Seq(Seq(A)) /\ DOMAIN q = 1..n /\ n = Len(q)
  <2>1. q \in [1..n -> Seq(A)]
    BY <1>1, Zenon
  <2> HIDE DEF q
  <2> QED BY <2>1
<1> HIDE DEF q
<1>3. /\ Joined(q, n) \in Seq(A)
      /\ Range(Joined(q, n)) = UNION {Range(q[i]) : i \in DOMAIN q}
  BY <1>2, JoinedFacts, Zenon
<1>4. IsInjective(Joined(q, n))
  <2>1. \A i, j \in DOMAIN q : i # j => Range(q[i]) \cap Range(q[j]) = {}
    <3> SUFFICES ASSUME NEW i \in DOMAIN q, NEW j \in DOMAIN q,
                        NEW x \in Range(q[i]) \cap Range(q[j])
                 PROVE  i = j
      BY Zenon
    <3>1. i \in 1..n /\ j \in 1..n
      BY <1>2, Zenon
    <3>2. x = i /\ x = j
      BY <1>1, <3>1, Zenon
    <3> QED BY <3>2, Zenon
  <2> QED BY <1>1, <1>2, <2>1, JoinedFacts, Zenon
<1>5. UNION {Range(q[i]) : i \in DOMAIN q} = A
  <2>1. ASSUME NEW i \in DOMAIN q, NEW x \in Range(q[i]) PROVE x \in A
    BY <1>1, <1>2, <2>1, Zenon
  <2>2. ASSUME NEW x \in A PROVE x \in DOMAIN q /\ x \in Range(q[x])
    BY <1>1, <1>2, <2>2, Zenon
  <2> QED BY <2>1, <2>2, Zenon
<1> QED BY <1>3, <1>4, <1>5, Zenon DEF q

----------------------------------------------------------------------------
(* The calls of an operation: commits and cancels of different tokens. *)
Tells == [do : {"commit", "cancel"}, token : Nat \ {0}]
Tokens(q) == {c.token : c \in Range(q)}
Commits(q) == {c.token : c \in {d \in Range(q) : d.do = "commit"}}
GoodCalls(q) ==
    q \in Seq(Tells) /\ \A i, j \in DOMAIN q : q[i].token = q[j].token => i = j

(* One cancel for each of the tokens. *)
LEMMA CancelCalls ==
  ASSUME NEW s \in Seq(Nat \ {0}), IsInjective(s)
  PROVE  LET q == [j \in DOMAIN s |-> Cancel(s[j])]
         IN GoodCalls(q) /\ Tokens(q) = Range(s) /\ Commits(q) = {}
<1> DEFINE q == [j \in DOMAIN s |-> Cancel(s[j])]
<1>1. DOMAIN s = 1..Len(s) /\ Len(s) \in Nat /\ \A j \in DOMAIN s : s[j] \in Nat \ {0}
  OBVIOUS
<1>2. ASSUME NEW j \in DOMAIN s
      PROVE  q[j] \in Tells /\ q[j].token = s[j] /\ q[j].do = "cancel"
  BY <1>1, Zenon DEF Cancel, Tells
<1>3. q \in Seq(Tells) /\ DOMAIN q = DOMAIN s
  <2>1. q \in [1..Len(s) -> Tells]
    BY <1>1, <1>2, Zenon
  <2> HIDE DEF q
  <2> QED BY <1>1, <2>1
<1> HIDE DEF q
<1>4. Range(q) = {q[j] : j \in DOMAIN s} /\ Range(s) = {s[j] : j \in DOMAIN s}
  BY <1>3, Zenon DEF Range
<1>5. GoodCalls(q)
  BY <1>2, <1>3, Zenon DEF GoodCalls, IsInjective
<1>6. Tokens(q) = Range(s)
  <2>1. ASSUME NEW x \in Tokens(q) PROVE x \in Range(s)
    <3>1. PICK c \in Range(q) : x = c.token
      BY <2>1, Zenon DEF Tokens
    <3>2. PICK j \in DOMAIN s : c = q[j]
      BY <1>4, <3>1, Zenon
    <3> QED BY <1>2, <1>4, <3>1, <3>2, Zenon
  <2>2. ASSUME NEW x \in Range(s) PROVE x \in Tokens(q)
    <3>1. PICK j \in DOMAIN s : x = s[j]
      BY <1>4, <2>2, Zenon
    <3>2. q[j] \in Range(q) /\ q[j].token = x
      BY <1>2, <1>4, <3>1, Zenon
    <3> QED BY <3>2, Zenon DEF Tokens
  <2> QED BY <2>1, <2>2, Zenon
<1>7. Commits(q) = {}
  <2>1. \A d \in Range(q) : d.do # "commit"
    BY <1>2, <1>4, Zenon
  <2> QED BY <2>1, Zenon DEF Commits
<1> QED BY <1>5, <1>6, <1>7, Zenon DEF q

(* A commit of another token before the cancels. *)
LEMMA CommitFirst ==
  ASSUME NEW q, GoodCalls(q), Commits(q) = {}, NEW x \in Nat \ {0}, x \notin Tokens(q)
  PROVE  LET r == <<Commit(x)>> \o q
         IN GoodCalls(r) /\ Tokens(r) = {x} \cup Tokens(q) /\ Commits(r) = {x}
<1> DEFINE c == Commit(x)
           r == <<c>> \o q
<1>1. c \in Tells /\ c.token = x /\ c.do = "commit"
  BY Zenon DEF Commit, Tells
<1>2. q \in Seq(Tells)
  BY Zenon DEF GoodCalls
<1> HIDE DEF c
<1>3. <<c>> \in Seq(Tells) /\ Range(<<c>>) = {c} /\ Len(<<c>>) = 1 /\ <<c>>[1] = c
  BY <1>1 DEF Range
<1>4. r \in Seq(Tells) /\ Range(r) = {c} \cup Range(q)
  <2>1. \A s, t \in Seq(Tells) : s \o t \in Seq(Tells) /\ Range(s \o t) = Range(s) \cup Range(t)
    BY ConcatRange, Zenon
  <2>2. r \in Seq(Tells) /\ Range(r) = Range(<<c>>) \cup Range(q)
    BY <1>2, <1>3, <2>1, Zenon
  <2> QED BY <1>3, <2>2, Zenon
<1>5. /\ DOMAIN r = 1..(Len(q) + 1) /\ r[1] = c /\ Len(q) \in Nat /\ DOMAIN q = 1..Len(q)
      /\ \A i \in 2..(Len(q) + 1) : r[i] = q[i - 1]
  BY <1>2, <1>3
<1> HIDE DEF r
<1>6. ASSUME NEW i \in DOMAIN r, NEW j \in DOMAIN r, r[i].token = r[j].token PROVE i = j
  <2>1. ASSUME NEW k \in DOMAIN r
        PROVE  k = 1 \/ (k - 1 \in DOMAIN q /\ r[k] = q[k - 1])
    <3>1. CASE k # 1
      <4>1. k - 1 \in DOMAIN q /\ k \in 2..(Len(q) + 1)
        BY <1>5, <2>1, <3>1
      <4> QED BY <1>5, <4>1, Zenon
    <3> QED BY <3>1, Zenon
  <2>2. ASSUME NEW k \in DOMAIN q PROVE q[k].token # x
    BY Zenon DEF Tokens, Range
  <2>3. r[1].token = x
    BY <1>1, <1>5, Zenon
  <2>4. CASE i = 1 \/ j = 1
    BY <1>6, <2>1, <2>2, <2>3, <2>4, Zenon
  <2>5. CASE i # 1 /\ j # 1
    <3>1. i - 1 \in DOMAIN q /\ r[i] = q[i - 1]
      BY <2>1, <2>5, Zenon
    <3>2. j - 1 \in DOMAIN q /\ r[j] = q[j - 1]
      BY <2>1, <2>5, Zenon
    <3>3. q[i - 1].token = q[j - 1].token
      BY <1>6, <3>1, <3>2, Zenon
    <3>4. i - 1 = j - 1
      BY <3>1, <3>2, <3>3, Zenon DEF GoodCalls
    <3> QED BY <1>5, <3>4
  <2> QED BY <2>4, <2>5, Zenon
<1>7. GoodCalls(r)
  BY <1>4, <1>6, Zenon DEF GoodCalls
<1>8. Tokens(r) = {x} \cup Tokens(q)
  BY <1>1, <1>4, Zenon DEF Tokens
<1>9. Commits(r) = {x}
  <2>1. \A d \in Range(q) : d.do # "commit"
    BY Zenon DEF Commits
  <2>2. {d \in Range(r) : d.do = "commit"} = {c}
    BY <1>1, <1>4, <2>1, Zenon
  <2> QED BY <1>1, <2>2, Zenon DEF Commits
<1> QED BY <1>7, <1>8, <1>9, Zenon DEF r, c

(* An entry with a host token is a leaf whose answer comes from the host.    *)
Shape(e) == e.scope # 0 => e.kind = "read" /\ ~e.ready /\ e.kids = <<>>

(* No two reads of the table share a host token. *)
SoundTable(w) ==
    /\ \A t \in DOMAIN w : Shape(w[t])
    /\ \A t, u \in DOMAIN w : w[t].scope # 0 /\ w[t].scope = w[u].scope => t = u

(* The tokens under a root are those of its leaves. *)
TreeScopes(w, root) == {w[t].scope : t \in Tree(w, root)} \ {0}

(* Only leaves have host tokens, so the leaves of a tree have all of them. *)
LEMMA LeafScopes ==
  ASSUME NEW w \in Tables, Forest(w), NEW n \in Nat, DOMAIN w \subseteq 1..n,
         NEW root \in DOMAIN w, SoundTable(w)
  PROVE  /\ Leaves(w, root) \in Seq(DOMAIN w) /\ IsInjective(Leaves(w, root))
         /\ {w[t].scope : t \in Range(Leaves(w, root))} \ {0} = TreeScopes(w, root)
<1>1. /\ Leaves(w, root) \in Seq(DOMAIN w) /\ IsInjective(Leaves(w, root))
      /\ Range(Leaves(w, root)) = {t \in Tree(w, root) : w[t].kids = <<>>}
  BY LeavesFacts, Zenon
<1> DEFINE L == Range(Leaves(w, root))
<1>2. Tree(w, root) \subseteq DOMAIN w
  BY Zenon DEF Tree
<1>3. ASSUME NEW t \in Tree(w, root), w[t].scope # 0 PROVE t \in L
  BY <1>1, <1>2, <1>3, Zenon DEF SoundTable, Shape
<1>4. L \subseteq Tree(w, root)
  BY <1>1, Zenon
<1> HIDE DEF L
<1>5. {w[t].scope : t \in L} \ {0} = {w[t].scope : t \in Tree(w, root)} \ {0}
  <2>1. ASSUME NEW x \in {w[t].scope : t \in Tree(w, root)} \ {0}
        PROVE  x \in {w[t].scope : t \in L} \ {0}
    <3>1. PICK t \in Tree(w, root) : x = w[t].scope /\ x # 0
      BY <2>1, Zenon
    <3> QED BY <1>3, <3>1, Zenon
  <2>2. ASSUME NEW x \in {w[t].scope : t \in L} \ {0}
        PROVE  x \in {w[t].scope : t \in Tree(w, root)} \ {0}
    <3>1. PICK t \in L : x = w[t].scope /\ x # 0
      BY <2>2, Zenon
    <3> QED BY <1>4, <3>1, Zenon
  <2> QED BY <2>1, <2>2, Zenon
<1> QED BY <1>1, <1>5, Zenon DEF TreeScopes, L

(* The calls of a cancel, and of a selection of leaf i. *)
LEMMA CancelTree ==
  ASSUME NEW w \in Tables, Forest(w), NEW n \in Nat, DOMAIN w \subseteq 1..n,
         NEW root \in DOMAIN w, SoundTable(w)
  PROVE  LET s == Scopes(w, Leaves(w, root))
             q == [j \in DOMAIN s |-> Cancel(s[j])]
         IN GoodCalls(q) /\ Tokens(q) = TreeScopes(w, root) /\ Commits(q) = {}
            /\ Range(s) = TreeScopes(w, root)
<1> DEFINE s == Scopes(w, Leaves(w, root))
           q == [j \in DOMAIN s |-> Cancel(s[j])]
<1>1. /\ Leaves(w, root) \in Seq(DOMAIN w) /\ IsInjective(Leaves(w, root))
      /\ {w[t].scope : t \in Range(Leaves(w, root))} \ {0} = TreeScopes(w, root)
  BY LeafScopes, Zenon
<1>2. s \in Seq(Nat \ {0}) /\ IsInjective(s) /\ Range(s) = TreeScopes(w, root)
  <2>1. \A t, u \in DOMAIN w : w[t].scope # 0 /\ w[t].scope = w[u].scope => t = u
    BY Zenon DEF SoundTable
  <2>2. /\ s \in Seq(Nat \ {0}) /\ IsInjective(s)
        /\ Range(s) = {w[t].scope : t \in Range(Leaves(w, root))} \ {0}
    BY <1>1, <2>1, ScopesFacts, Zenon
  <2> HIDE DEF s
  <2> QED BY <1>1, <2>2, Zenon
<1> HIDE DEF s
<1>3. GoodCalls(q) /\ Tokens(q) = Range(s) /\ Commits(q) = {}
  BY <1>2, CancelCalls, Zenon
<1> HIDE DEF q
<1> QED BY <1>2, <1>3, Zenon DEF s, q

(* The calls of complete_ready_wait: a commit for the selected leaf, then a  *)
(* cancel for each of the others.                                            *)
SelectCalls(w, root, i) ==
  LET x == w[Leaves(w, root)[i]].scope
      s == Scopes(w, Losers(Leaves(w, root), i))
  IN (IF x = 0 THEN <<>> ELSE <<Commit(x)>>) \o [j \in DOMAIN s |-> Cancel(s[j])]

(* They are one call for each host token of the tree, and commit the         *)
(* selected one only.                                                        *)
LEMMA SelectTree ==
  ASSUME NEW w \in Tables, Forest(w), NEW n \in Nat, DOMAIN w \subseteq 1..n,
         NEW root \in DOMAIN w, SoundTable(w), NEW i \in DOMAIN Leaves(w, root)
  PROVE  /\ GoodCalls(SelectCalls(w, root, i))
         /\ Tokens(SelectCalls(w, root, i)) = TreeScopes(w, root)
         /\ Commits(SelectCalls(w, root, i)) = {w[Leaves(w, root)[i]].scope} \ {0}
<1> DEFINE L == Leaves(w, root)
           x == w[L[i]].scope
           V == Losers(L, i)
           s == Scopes(w, V)
           p == [j \in DOMAIN s |-> Cancel(s[j])]
<1>1. /\ L \in Seq(DOMAIN w) /\ IsInjective(L)
      /\ {w[t].scope : t \in Range(L)} \ {0} = TreeScopes(w, root)
  BY LeafScopes, Zenon
<1> HIDE DEF L
<1>2. /\ V \in Seq(DOMAIN w) /\ Range(L) = {L[i]} \cup Range(V)
      /\ IsInjective(V) /\ L[i] \notin Range(V)
  BY <1>1, WithoutFacts, Zenon DEF Losers, L
<1>3. L[i] \in DOMAIN w /\ x \in Nat /\ Range(V) \subseteq DOMAIN w
  <2>1. L[i] \in DOMAIN w
    BY <1>1 DEF L
  <2>2. x \in Nat
    BY <2>1, TableEntries, Zenon DEF Entries
  <2>3. Range(V) \subseteq DOMAIN w
    BY <1>2 DEF Range
  <2> QED BY <2>1, <2>2, <2>3, Zenon
<1> HIDE DEF V
<1>4. \A t, u \in DOMAIN w : w[t].scope # 0 /\ w[t].scope = w[u].scope => t = u
  BY Zenon DEF SoundTable
<1>5. /\ s \in Seq(Nat \ {0}) /\ IsInjective(s)
      /\ Range(s) = {w[t].scope : t \in Range(V)} \ {0}
  BY <1>2, <1>4, ScopesFacts, Zenon
<1> HIDE DEF s
<1>6. GoodCalls(p) /\ Tokens(p) = Range(s) /\ Commits(p) = {}
  BY <1>5, CancelCalls, Zenon
<1> HIDE DEF p
<1>7. TreeScopes(w, root) = ({x} \ {0}) \cup Range(s)
  <2>1. {w[t].scope : t \in Range(L)} = {x} \cup {w[t].scope : t \in Range(V)}
    BY <1>2, Zenon
  <2> QED BY <1>1, <1>5, <2>1, Zenon
<1>8. CASE x = 0
  <2>1. <<>> \o p = p
    BY <1>6 DEF GoodCalls
  <2>2. {x} \ {0} = {}
    BY <1>8, Zenon
  <2>3. SelectCalls(w, root, i) = <<>> \o p
    BY <1>8, Zenon DEF SelectCalls, p, s, V, L
  <2> QED BY <1>6, <1>7, <1>8, <2>1, <2>2, <2>3, Zenon DEF L
<1>9. CASE x # 0
  <2>1. x \notin Tokens(p)
    <3>1. ASSUME NEW t \in Range(V), w[t].scope = x PROVE FALSE
      BY <1>2, <1>3, <1>4, <1>9, <3>1, Zenon
    <3> QED BY <1>5, <1>6, <3>1, Zenon
  <2>2. x \in Nat \ {0} /\ {x} \ {0} = {x}
    BY <1>3, <1>9, Zenon
  <2>3. LET r == <<Commit(x)>> \o p
        IN GoodCalls(r) /\ Tokens(r) = {x} \cup Tokens(p) /\ Commits(r) = {x}
    BY <1>6, <2>1, <2>2, CommitFirst, Zenon
  <2>4. SelectCalls(w, root, i) = <<Commit(x)>> \o p
    BY <1>9, Zenon DEF SelectCalls, p, s, V, L
  <2> QED BY <1>6, <1>7, <1>9, <2>2, <2>3, <2>4, Zenon DEF L
<1> QED BY <1>8, <1>9, Zenon

----------------------------------------------------------------------------
(* The tokens of the requests, of the requests of wait sources, and of the   *)
(* commits and cancels among some commands; of the wait sources among some   *)
(* reads.                                                                    *)
Req(R) == {c.token : c \in {d \in R : d.do = "request"}}
ReqW(R) == {c.token : c \in {d \in R : d.do = "request" /\ d.wait_source}}
Tel(R) == {c.token : c \in {d \in R : d.do # "request"}}
Cmt(R) == {c.token : c \in {d \in R : d.do = "commit"}}
Tok(R) == {c.token : c \in R}
Wts(R) == {r.token : r \in {q \in R : q.wait_source}}

(* The tokens of a set of messages and one more. *)
LEMMA OneMore ==
  ASSUME NEW R, NEW c
  PROVE  /\ Req(R \cup {c}) = Req(R) \cup (IF c.do = "request" THEN {c.token} ELSE {})
         /\ ReqW(R \cup {c}) = ReqW(R) \cup (IF c.do = "request" /\ c.wait_source THEN {c.token} ELSE {})
         /\ Tel(R \cup {c}) = Tel(R) \cup (IF c.do # "request" THEN {c.token} ELSE {})
         /\ Cmt(R \cup {c}) = Cmt(R) \cup (IF c.do = "commit" THEN {c.token} ELSE {})
         /\ Tok(R \cup {c}) = Tok(R) \cup {c.token}
         /\ Wts(R \cup {c}) = Wts(R) \cup (IF c.wait_source THEN {c.token} ELSE {})
<1>1. Req(R \cup {c}) = Req(R) \cup (IF c.do = "request" THEN {c.token} ELSE {})
  BY Zenon DEF Req
<1>2. ReqW(R \cup {c}) = ReqW(R) \cup (IF c.do = "request" /\ c.wait_source THEN {c.token} ELSE {})
  BY Zenon DEF ReqW
<1>3. Tel(R \cup {c}) = Tel(R) \cup (IF c.do # "request" THEN {c.token} ELSE {})
  BY Zenon DEF Tel
<1>4. Cmt(R \cup {c}) = Cmt(R) \cup (IF c.do = "commit" THEN {c.token} ELSE {})
  BY Zenon DEF Cmt
<1>5. Tok(R \cup {c}) = Tok(R) \cup {c.token}
  BY Zenon DEF Tok
<1>6. Wts(R \cup {c}) = Wts(R) \cup (IF c.wait_source THEN {c.token} ELSE {})
  BY Zenon DEF Wts
<1> QED BY <1>1, <1>2, <1>3, <1>4, <1>5, <1>6, Zenon

(* A sequence with one more element at its end. *)
LEMMA RangeAppend ==
  ASSUME NEW S, NEW s \in Seq(S), NEW c \in S
  PROVE  /\ Append(s, c) \in Seq(S) /\ Range(Append(s, c)) = Range(s) \cup {c}
         /\ Len(s) \in Nat /\ DOMAIN s = 1..Len(s) /\ DOMAIN Append(s, c) = 1..(Len(s) + 1)
         /\ \A i \in 1..Len(s) : Append(s, c)[i] = s[i]
         /\ Append(s, c)[Len(s) + 1] = c
<1> DEFINE a == Append(s, c)
<1>1. /\ a \in Seq(S) /\ Len(s) \in Nat /\ DOMAIN s = 1..Len(s) /\ DOMAIN a = 1..(Len(s) + 1)
      /\ \A i \in 1..Len(s) : a[i] = s[i]
      /\ a[Len(s) + 1] = c
  OBVIOUS
<1> HIDE DEF a
<1>2. /\ Len(s) + 1 \in 1..(Len(s) + 1)
      /\ \A i \in 1..(Len(s) + 1) : i = Len(s) + 1 \/ i \in 1..Len(s)
      /\ 1..Len(s) \subseteq 1..(Len(s) + 1)
  BY <1>1
<1>3. Range(a) = Range(s) \cup {c}
  <2>1. ASSUME NEW x \in Range(a) PROVE x \in Range(s) \cup {c}
    <3>1. PICK i \in DOMAIN a : x = a[i]
      BY <2>1, Zenon DEF Range
    <3>2. CASE i = Len(s) + 1
      BY <1>1, <3>1, <3>2, Zenon
    <3>3. CASE i \in 1..Len(s)
      BY <1>1, <3>1, <3>3, Zenon DEF Range
    <3> QED BY <1>1, <1>2, <3>2, <3>3, Zenon
  <2>2. ASSUME NEW i \in DOMAIN s PROVE s[i] \in Range(a)
    <3>1. i \in DOMAIN a /\ a[i] = s[i]
      BY <1>1, <1>2, Zenon
    <3> QED BY <3>1, Zenon DEF Range
  <2>3. c \in Range(a)
    <3>1. Len(s) + 1 \in DOMAIN a
      BY <1>1, <1>2, Zenon
    <3> QED BY <1>1, <3>1, Zenon DEF Range
  <2>4. ASSUME NEW x \in Range(s) PROVE x \in Range(a)
    BY <2>2, <2>4, Zenon DEF Range
  <2> QED BY <2>1, <2>3, <2>4, Zenon
<1> QED BY <1>1, <1>3, Zenon DEF a

(* The head of a sequence and the rest of it. *)
LEMMA RangeHead ==
  ASSUME NEW S, NEW s \in Seq(S), s # <<>>
  PROVE  /\ Head(s) \in S /\ Tail(s) \in Seq(S) /\ Range(s) = Range(Tail(s)) \cup {Head(s)}
         /\ Len(s) \in Nat /\ DOMAIN s = 1..Len(s) /\ 1 \in DOMAIN s /\ s[1] = Head(s)
         /\ DOMAIN Tail(s) = 1..(Len(s) - 1)
         /\ \A i \in DOMAIN Tail(s) : i + 1 \in DOMAIN s /\ Tail(s)[i] = s[i + 1]
<1> DEFINE t == Tail(s)
           h == Head(s)
<1>1. /\ h \in S /\ t \in Seq(S) /\ Len(s) \in Nat /\ DOMAIN s = 1..Len(s) /\ 1 \in DOMAIN s /\ s[1] = h
      /\ DOMAIN t = 1..(Len(s) - 1)
      /\ \A i \in DOMAIN t : i + 1 \in DOMAIN s /\ t[i] = s[i + 1]
  OBVIOUS
<1> HIDE DEF t, h
<1>2. ASSUME NEW i \in DOMAIN s PROVE i = 1 \/ \E j \in DOMAIN t : i = j + 1
  <2>1. CASE i # 1
    <3>1. i - 1 \in DOMAIN t /\ i = (i - 1) + 1
      BY <1>1, <2>1
    <3> QED BY <3>1, Zenon
  <2> QED BY <2>1, Zenon
<1>3. Range(s) = Range(t) \cup {h}
  <2>1. ASSUME NEW x \in Range(s) PROVE x \in Range(t) \cup {h}
    <3>1. PICK i \in DOMAIN s : x = s[i]
      BY <2>1, Zenon DEF Range
    <3>2. CASE i = 1
      BY <1>1, <3>1, <3>2, Zenon
    <3>3. ASSUME NEW j \in DOMAIN t, i = j + 1 PROVE x \in Range(t)
      BY <1>1, <3>1, <3>3, Zenon DEF Range
    <3> QED BY <1>2, <3>2, <3>3, Zenon
  <2>2. ASSUME NEW x \in Range(t) PROVE x \in Range(s)
    <3>1. PICK i \in DOMAIN t : x = t[i]
      BY <2>2, Zenon DEF Range
    <3> QED BY <1>1, <3>1, Zenon DEF Range
  <2>3. h \in Range(s)
    BY <1>1, Zenon DEF Range
  <2> QED BY <2>1, <2>2, <2>3, Zenon
<1> QED BY <1>1, <1>3, Zenon DEF t, h

(* Two commands about one token are its request and, after it, one commit or *)
(* cancel.                                                                   *)
Ordered(s) ==
  \A i, j \in DOMAIN s : i < j /\ s[i].token = s[j].token =>
      s[i].do = "request" /\ s[j].do # "request"

(* No two elements have the same token. *)
Distinct(s) == \A i, j \in DOMAIN s : s[i].token = s[j].token => i = j

(* A message at the end of the channel: its token has not been told, nor     *)
(* asked for if it is a request.                                             *)
LEMMA OrderedAppend ==
  ASSUME NEW S, NEW s \in Seq(S), NEW c \in S, Ordered(s), c.token \notin Tel(Range(s)),
         c.do = "request" => c.token \notin Req(Range(s))
  PROVE  Ordered(Append(s, c))
<1> DEFINE a == Append(s, c)
<1>1. /\ Len(s) \in Nat /\ DOMAIN s = 1..Len(s) /\ DOMAIN a = 1..(Len(s) + 1)
      /\ \A i \in 1..Len(s) : a[i] = s[i]
      /\ a[Len(s) + 1] = c
  OBVIOUS
<1> HIDE DEF a
<1>2. ASSUME NEW i \in DOMAIN a, NEW j \in DOMAIN a, i < j, a[i].token = a[j].token
      PROVE  a[i].do = "request" /\ a[j].do # "request"
  <2>1. i \in DOMAIN s /\ (j \in DOMAIN s \/ j = Len(s) + 1)
    BY <1>1, <1>2
  <2>2. CASE j \in DOMAIN s
    BY <1>1, <1>2, <2>1, <2>2, Zenon DEF Ordered
  <2>3. CASE j = Len(s) + 1
    <3>1. a[i] = s[i] /\ a[j] = c /\ s[i] \in Range(s) /\ s[i].token = c.token
      BY <1>1, <1>2, <2>1, <2>3, Zenon DEF Range
    <3>2. s[i].do = "request"
      BY <3>1, Zenon DEF Tel
    <3>3. c.token \in Req(Range(s))
      <4>1. s[i].token \in Req(Range(s))
        BY <3>1, <3>2, Zenon DEF Req
      <4> QED BY <3>1, <4>1, Zenon
    <3> QED BY <3>1, <3>2, <3>3, Zenon
  <2> QED BY <2>1, <2>2, <2>3, Zenon
<1> QED BY <1>2, Zenon DEF Ordered, a

(* The message at the head of the channel: its request is not behind it,     *)
(* nor a second commit or cancel.                                            *)
LEMMA OrderedTail ==
  ASSUME NEW S, NEW s \in Seq(S), s # <<>>, Ordered(s)
  PROVE  /\ Ordered(Tail(s)) /\ Head(s).token \notin Req(Range(Tail(s)))
         /\ Head(s).do # "request" => Head(s).token \notin Tel(Range(Tail(s)))
<1> DEFINE t == Tail(s)
           h == Head(s)
<1>1. /\ Len(s) \in Nat /\ DOMAIN s = 1..Len(s) /\ 1 \in DOMAIN s /\ s[1] = h
      /\ DOMAIN t = 1..(Len(s) - 1)
      /\ \A i \in DOMAIN t : i + 1 \in DOMAIN s /\ t[i] = s[i + 1]
  BY RangeHead, Zenon
<1> HIDE DEF t, h
<1>2. \A i, j \in DOMAIN t : i < j => i + 1 < j + 1
  BY <1>1
<1>3. \A i \in DOMAIN t : 1 < i + 1
  BY <1>1
<1>4. Ordered(t)
  <2>1. ASSUME NEW i \in DOMAIN t, NEW j \in DOMAIN t, i < j, t[i].token = t[j].token
        PROVE  t[i].do = "request" /\ t[j].do # "request"
    <3>1. i + 1 \in DOMAIN s /\ j + 1 \in DOMAIN s /\ i + 1 < j + 1
          /\ t[i] = s[i + 1] /\ t[j] = s[j + 1]
      BY <1>1, <1>2, <2>1, Zenon
    <3> QED BY <2>1, <3>1, Zenon DEF Ordered
  <2> QED BY <2>1, Zenon DEF Ordered
<1>5. ASSUME NEW d \in Range(t), d.token = h.token PROVE h.do = "request" /\ d.do # "request"
  <2>1. PICK i \in DOMAIN t : d = t[i]
    BY Zenon DEF Range
  <2>2. d = s[i + 1] /\ i + 1 \in DOMAIN s /\ 1 < i + 1
    BY <1>1, <1>3, <2>1, Zenon
  <2> QED BY <1>1, <1>5, <2>2, Zenon DEF Ordered
<1>6. h.token \notin Req(Range(t))
  BY <1>5, Zenon DEF Req
<1>7. h.do # "request" => h.token \notin Tel(Range(t))
  BY <1>5, Zenon DEF Tel
<1> QED BY <1>4, <1>6, <1>7, Zenon DEF t, h

(* One more element, with a new token. *)
LEMMA DistinctAppend ==
  ASSUME NEW S, NEW s \in Seq(S), NEW c \in S, Distinct(s), c.token \notin Tok(Range(s))
  PROVE  Distinct(Append(s, c))
<1> DEFINE a == Append(s, c)
<1>1. /\ Len(s) \in Nat /\ DOMAIN s = 1..Len(s) /\ DOMAIN a = 1..(Len(s) + 1)
      /\ \A i \in 1..Len(s) : a[i] = s[i]
      /\ a[Len(s) + 1] = c
  OBVIOUS
<1> HIDE DEF a
<1>2. \A i \in DOMAIN a : i \in DOMAIN s \/ i = Len(s) + 1
  BY <1>1
<1>3. \A i \in DOMAIN s : a[i] = s[i] /\ s[i].token # c.token
  BY <1>1, Zenon DEF Tok, Range
<1>4. ASSUME NEW i \in DOMAIN a, NEW j \in DOMAIN a, a[i].token = a[j].token PROVE i = j
  <2>1. CASE i = Len(s) + 1
    BY <1>1, <1>2, <1>3, <1>4, <2>1, Zenon
  <2>2. CASE i \in DOMAIN s
    BY <1>1, <1>2, <1>3, <1>4, <2>2, Zenon DEF Distinct
  <2> QED BY <1>2, <2>1, <2>2, Zenon
<1> QED BY <1>4, Zenon DEF Distinct, a

(* The first element is taken out. *)
LEMMA DistinctTail ==
  ASSUME NEW S, NEW s \in Seq(S), s # <<>>, Distinct(s)
  PROVE  Distinct(Tail(s)) /\ Head(s).token \notin Tok(Range(Tail(s)))
<1> DEFINE t == Tail(s)
           h == Head(s)
<1>1. /\ Len(s) \in Nat /\ DOMAIN s = 1..Len(s) /\ 1 \in DOMAIN s /\ s[1] = h
      /\ DOMAIN t = 1..(Len(s) - 1)
      /\ \A i \in DOMAIN t : i + 1 \in DOMAIN s /\ t[i] = s[i + 1]
  BY RangeHead, Zenon
<1> HIDE DEF t, h
<1>2. \A i, j \in DOMAIN t : i + 1 = j + 1 => i = j
  BY <1>1
<1>3. \A i \in DOMAIN t : 1 # i + 1
  BY <1>1
<1>4. Distinct(t)
  <2>1. ASSUME NEW i \in DOMAIN t, NEW j \in DOMAIN t, t[i].token = t[j].token
        PROVE  i = j
    <3>1. i + 1 \in DOMAIN s /\ j + 1 \in DOMAIN s /\ t[i] = s[i + 1] /\ t[j] = s[j + 1]
      BY <1>1, Zenon
    <3>2. i + 1 = j + 1
      BY <2>1, <3>1, Zenon DEF Distinct
    <3> QED BY <1>2, <3>2, Zenon
  <2> QED BY <2>1, Zenon DEF Distinct
<1>5. ASSUME NEW d \in Range(t), d.token = h.token PROVE FALSE
  <2>1. PICK i \in DOMAIN t : d = t[i]
    BY Zenon DEF Range
  <2>2. d = s[i + 1] /\ i + 1 \in DOMAIN s /\ 1 # i + 1
    BY <1>1, <1>3, <2>1, Zenon
  <2> QED BY <1>1, <1>5, <2>2, Zenon DEF Distinct
<1>6. h.token \notin Tok(Range(t))
  BY <1>5, Zenon DEF Tok
<1> QED BY <1>4, <1>6, Zenon DEF t, h

(* An element is taken out. *)
LEMMA DistinctWithout ==
  ASSUME NEW S, NEW s \in Seq(S), NEW i \in DOMAIN s, Distinct(s)
  PROVE  /\ Distinct(Without(s, i)) /\ s[i].token \notin Tok(Range(Without(s, i)))
         /\ Range(s) = Range(Without(s, i)) \cup {s[i]}
<1> DEFINE v == Without(s, i)
           up(j) == IF j < i THEN j ELSE j + 1
<1>1. /\ DOMAIN s = 1..Len(s) /\ Len(s) \in Nat /\ DOMAIN v = 1..(Len(s) - 1)
      /\ \A j \in 1..(Len(s) - 1) : v[j] = s[up(j)]
  BY WithoutAt, Zenon
<1>2. Range(s) = Range(v) \cup {s[i]}
  <2>1. Range(s) = {s[i]} \cup Range(v)
    BY WithoutFacts, Zenon
  <2> HIDE DEF v
  <2> QED BY <2>1, Zenon
<1> HIDE DEF v
<1>3. \A j \in DOMAIN v : up(j) \in DOMAIN s /\ up(j) # i /\ v[j] = s[up(j)]
  BY <1>1
<1>4. \A j, k \in DOMAIN v : up(j) = up(k) => j = k
  BY <1>1
<1> HIDE DEF up
<1>5. Distinct(v)
  BY <1>3, <1>4, ZenonT(30) DEF Distinct
<1>6. s[i].token \notin Tok(Range(v))
  <2>1. ASSUME NEW d \in Range(v), d.token = s[i].token PROVE FALSE
    <3>1. PICK j \in DOMAIN v : d = v[j]
      BY Zenon DEF Range
    <3> QED BY <1>3, <2>1, <3>1, Zenon DEF Distinct
  <2> QED BY <2>1, Zenon DEF Tok
<1> QED BY <1>2, <1>5, <1>6, Zenon DEF v

----------------------------------------------------------------------------
(* The channel to the input worker and what the worker holds. *)
Asking == Req(Range(commands))
Queued == Tok(Range(pending))
Answering == Tok(Range(ready))
Calls == Commits(job.calls)
Replied == DOMAIN host_completions \cup DOMAIN retained \cup Answering
           \cup Cmt(Range(commands)) \cup Calls
Given == 1..(next_token - 1)

(* A token is asked for once, and is in one place of the service: its        *)
(* request is in the channel, waits in the queue, or was answered.  A commit *)
(* or a cancel in the channel is for a read that the service still holds.    *)
CInv ==
  /\ Ordered(commands) /\ Distinct(pending)
  /\ \E S : ready \in Seq(S)
  /\ Asking \cap Queued = {}
  /\ Asking \cap Replied = {}
  /\ Queued \cap Replied = {}
  /\ Asking \subseteq Given /\ Queued \subseteq Given /\ Replied \subseteq Given
  /\ Told \subseteq HeldByService
  /\ wait_services = HeldByService \ Told

(* The tokens that TokensAgree compares, by their place. *)
LEMMA Parts ==
  /\ \A R : ReqW(R) \subseteq Req(R) /\ Wts(R) \subseteq Tok(R) /\ Cmt(R) \subseteq Tel(R)
  /\ HeldByService = ReqW(Range(commands)) \cup Wts(Range(pending)) \cup DOMAIN retained
  /\ Told = Tel(Range(commands))
<1>1. ASSUME NEW R
      PROVE  ReqW(R) \subseteq Req(R) /\ Wts(R) \subseteq Tok(R) /\ Cmt(R) \subseteq Tel(R)
  BY Zenon DEF ReqW, Req, Wts, Tok, Cmt, Tel
<1> QED BY <1>1, Zenon DEF HeldByService, Told, ReqW, Wts, Tel

(* The same in the next state. *)
LEMMA PartsAfter ==
  /\ HeldByService' = ReqW(Range(commands')) \cup Wts(Range(pending')) \cup DOMAIN retained'
  /\ Told' = Tel(Range(commands'))
BY Zenon DEF HeldByService, Told, ReqW, Wts, Tel

(* A step of the caller that leaves the service's side alone. *)
LEMMA ChannelStays ==
  ASSUME CInv, UNCHANGED <<commands, pending, retained, wait_services>>,
         \E S : ready' \in Seq(S),
         DOMAIN host_completions' \cup Answering' \cup Calls'
            \subseteq DOMAIN host_completions \cup Answering \cup Calls,
         Given \subseteq Given'
  PROVE  CInv'
<1>1. Asking' = Asking /\ Queued' = Queued
  BY Zenon DEF Asking, Queued
<1>2. HeldByService' = HeldByService /\ Told' = Told
  BY Zenon DEF HeldByService, Told
<1>3. Replied' \subseteq Replied
  BY Zenon DEF Replied
<1>4. Ordered(commands)' /\ Distinct(pending)'
  BY Zenon DEF CInv, Ordered, Distinct
<1>5. /\ Asking \cap Queued = {} /\ Asking \cap Replied = {} /\ Queued \cap Replied = {}
      /\ Asking \subseteq Given /\ Queued \subseteq Given /\ Replied \subseteq Given
      /\ Told \subseteq HeldByService /\ wait_services = HeldByService \ Told
  BY Zenon DEF CInv
<1>6. Asking' \cap Queued' = {} /\ Asking' \cap Replied' = {} /\ Queued' \cap Replied' = {}
  BY <1>1, <1>3, <1>5, Zenon
<1>7. Asking' \subseteq Given' /\ Queued' \subseteq Given' /\ Replied' \subseteq Given'
  BY <1>1, <1>3, <1>5, Zenon
<1>8. Told' \subseteq HeldByService' /\ wait_services' = HeldByService' \ Told'
  BY <1>2, <1>5, Zenon
<1> QED BY <1>4, <1>6, <1>7, <1>8, Zenon DEF CInv

(* The command at the head of the channel. *)
LEMMA HeadCommand ==
  ASSUME SInv, CInv, commands # <<>>, commands' = Tail(commands)
  PROVE  LET c == Head(commands)
         IN /\ c \in Commands /\ commands' \in Seq(Commands) /\ Ordered(commands')
            /\ Range(commands) = Range(commands') \cup {c}
            /\ c.token \notin Asking'
            /\ c.do # "request" => c.token \notin Told'
<1>1. commands \in Seq(Commands) /\ Ordered(commands)
  BY Zenon DEF SInv, ServiceTypes, CInv
<1>2. /\ Head(commands) \in Commands /\ Tail(commands) \in Seq(Commands)
      /\ Range(commands) = Range(Tail(commands)) \cup {Head(commands)}
  BY <1>1, RangeHead, Zenon
<1>3. /\ Ordered(Tail(commands)) /\ Head(commands).token \notin Req(Range(Tail(commands)))
      /\ Head(commands).do # "request" =>
            Head(commands).token \notin Tel(Range(Tail(commands)))
  BY <1>1, OrderedTail, Zenon
<1>4. Asking' = Req(Range(Tail(commands))) /\ Told' = Tel(Range(Tail(commands)))
  BY PartsAfter, Zenon DEF Asking
<1> QED BY <1>2, <1>3, <1>4, Zenon

(* The worker takes a request into its queue. *)
LEMMA TakenKeeps ==
  ASSUME SInv, CInv, WorkerCommand, TakesRequest(Head(commands)), UNCHANGED waitVars
  PROVE  CInv' /\ UNCHANGED call
<1> DEFINE c == Head(commands)
           t == c.token
           r == [token |-> c.token, count |-> c.count, wait_source |-> c.wait_source]
<1>1. /\ commands # <<>> /\ commands' = Tail(commands) /\ c.do = "request"
      /\ pending' = Append(pending, r) /\ UNCHANGED <<retained, call, ready>>
  BY Zenon DEF WorkerCommand, TakesRequest
<1>2. UNCHANGED <<host_completions, job, next_token, wait_services>>
  BY Zenon DEF waitVars
<1>3. /\ c \in Commands /\ commands' \in Seq(Commands) /\ Ordered(commands')
      /\ Range(commands) = Range(commands') \cup {c} /\ t \notin Asking'
  BY <1>1, HeadCommand, Zenon
<1>4. pending \in Seq(Reads) /\ Distinct(pending)
  BY Zenon DEF SInv, ServiceTypes, CInv
<1>5. r \in Reads /\ r.token = t /\ r.wait_source = c.wait_source
  <2>1. c.token \in Nat /\ c.count \in Nat /\ c.wait_source \in BOOLEAN
    BY <1>1, <1>3 DEF Commands
  <2> HIDE DEF c
  <2> QED BY <2>1, Zenon DEF Reads
<1> HIDE DEF r, c
<1>6. /\ Asking = Asking' \cup {t} /\ Told' = Told
      /\ ReqW(Range(commands)) = ReqW(Range(commands')) \cup (IF c.wait_source THEN {t} ELSE {})
      /\ Cmt(Range(commands')) \subseteq Cmt(Range(commands))
  <2> DEFINE R == Range(commands')
  <2>0. Asking' = Req(R) /\ Asking = Req(R \cup {c}) /\ Told' = Tel(R) /\ Told = Tel(R \cup {c})
    BY <1>3, Parts, PartsAfter, Zenon DEF Asking
  <2> HIDE DEF R
  <2>1. /\ Req(R \cup {c}) = Req(R) \cup (IF c.do = "request" THEN {c.token} ELSE {})
        /\ ReqW(R \cup {c}) = ReqW(R) \cup (IF c.do = "request" /\ c.wait_source THEN {c.token} ELSE {})
        /\ Tel(R \cup {c}) = Tel(R) \cup (IF c.do # "request" THEN {c.token} ELSE {})
        /\ Cmt(R \cup {c}) = Cmt(R) \cup (IF c.do = "commit" THEN {c.token} ELSE {})
    BY OneMore, Zenon
  <2>2. Asking = Asking' \cup {t}
    BY <1>1, <2>0, <2>1, Zenon
  <2>3. Told' = Told
    BY <1>1, <2>0, <2>1, Zenon
  <2>4. ReqW(R \cup {c}) = ReqW(R) \cup (IF c.wait_source THEN {t} ELSE {})
    BY <1>1, <2>1, Zenon
  <2>5. Cmt(R) \subseteq Cmt(R \cup {c})
    BY <2>1, Zenon
  <2> QED BY <1>3, <2>2, <2>3, <2>4, <2>5, Zenon DEF R
<1>7. /\ Asking \cap Queued = {} /\ Asking \cap Replied = {} /\ Queued \cap Replied = {}
      /\ Asking \subseteq Given /\ Queued \subseteq Given /\ Replied \subseteq Given
      /\ Told \subseteq HeldByService /\ wait_services = HeldByService \ Told
  BY Zenon DEF CInv
<1>8. /\ Range(pending') = Range(pending) \cup {r} /\ Distinct(pending')
  <2>1. t \notin Tok(Range(pending))
    BY <1>6, <1>7, Zenon DEF Queued
  <2>2. Range(Append(pending, r)) = Range(pending) \cup {r}
    <3>1. \A s \in Seq(Reads), x \in Reads : Range(Append(s, x)) = Range(s) \cup {x}
      BY RangeAppend
    <3> QED BY <1>4, <1>5, <3>1, Zenon
  <2>3. Distinct(Append(pending, r))
    BY <1>4, <1>5, <2>1, DistinctAppend, Zenon
  <2> QED BY <1>1, <2>2, <2>3, Zenon
<1>9. /\ Queued' = Queued \cup {t}
      /\ Wts(Range(pending')) = Wts(Range(pending)) \cup (IF c.wait_source THEN {t} ELSE {})
  <2>1. /\ Tok(Range(pending) \cup {r}) = Tok(Range(pending)) \cup {r.token}
        /\ Wts(Range(pending) \cup {r}) = Wts(Range(pending)) \cup (IF r.wait_source THEN {r.token} ELSE {})
    BY OneMore, Zenon
  <2> QED BY <1>5, <1>8, <2>1, Zenon DEF Queued
<1>10. HeldByService' = HeldByService
  BY <1>1, <1>6, <1>9, Parts, PartsAfter, Zenon
<1>11. Replied' \subseteq Replied /\ Given' = Given
  BY <1>1, <1>2, <1>6, Zenon DEF Replied, Answering, Calls, Given
<1>12. Asking' \cap Queued' = {} /\ Asking' \cap Replied' = {} /\ Queued' \cap Replied' = {}
  BY <1>3, <1>6, <1>7, <1>9, <1>11, Zenon
<1>13. Asking' \subseteq Given' /\ Queued' \subseteq Given' /\ Replied' \subseteq Given'
  BY <1>6, <1>7, <1>9, <1>11, Zenon
<1>14. Told' \subseteq HeldByService' /\ wait_services' = HeldByService' \ Told'
  BY <1>2, <1>6, <1>7, <1>10, Zenon
<1>15. (\E S : ready \in Seq(S))'
  BY <1>1, Zenon DEF CInv
<1> QED BY <1>1, <1>3, <1>8, <1>12, <1>13, <1>14, <1>15, Zenon DEF CInv
(* The worker lets go of a token: a commit or a cancel for it was handled.   *)
LEMMA LetGo ==
  ASSUME CInv, NEW t, Asking' = Asking, Queued' \subseteq Queued, Replied' \subseteq Replied,
         Told = Told' \cup {t}, t \notin Told', HeldByService' = HeldByService \ {t},
         Ordered(commands'), Distinct(pending'),
         UNCHANGED <<ready, wait_services, next_token>>
  PROVE  CInv'
<1>1. /\ Asking \cap Queued = {} /\ Asking \cap Replied = {} /\ Queued \cap Replied = {}
      /\ Asking \subseteq Given /\ Queued \subseteq Given /\ Replied \subseteq Given
      /\ Told \subseteq HeldByService /\ wait_services = HeldByService \ Told
  BY Zenon DEF CInv
<1>2. Asking' \cap Queued' = {} /\ Asking' \cap Replied' = {} /\ Queued' \cap Replied' = {}
  BY <1>1, Zenon
<1>3. Asking' \subseteq Given' /\ Queued' \subseteq Given' /\ Replied' \subseteq Given'
  <2>1. Given' = Given
    BY Zenon DEF Given
  <2> QED BY <1>1, <2>1, Zenon
<1>4. Told' \subseteq HeldByService' /\ wait_services' = HeldByService' \ Told'
  BY <1>1, Zenon
<1>5. (\E S : ready \in Seq(S))'
  BY Zenon DEF CInv
<1> QED BY <1>2, <1>3, <1>4, <1>5, Zenon DEF CInv

(* A commit or a cancel at the head: the service still holds its token,      *)
(* whose request it has taken, and a commit is for a read that was           *)
(* answered.                                                                 *)
LEMMA ToldHead ==
  ASSUME SInv, CInv, WorkerCommand, Head(commands).do # "request"
  PROVE  LET t == Head(commands).token
         IN /\ Asking' = Asking /\ Ordered(commands') /\ Told = Told' \cup {t} /\ t \notin Told'
            /\ t \notin Asking /\ t \in HeldByService
            /\ ReqW(Range(commands')) = ReqW(Range(commands))
            /\ Cmt(Range(commands')) \subseteq Cmt(Range(commands))
            /\ Head(commands).do = "commit" => t \in Replied
<1> DEFINE c == Head(commands)
           R == Range(commands')
<1>1. commands # <<>> /\ commands' = Tail(commands)
  BY Zenon DEF WorkerCommand
<1>2. /\ Ordered(commands') /\ Range(commands) = R \cup {c} /\ c.token \notin Asking'
      /\ c.token \notin Told'
  BY <1>1, HeadCommand, Zenon
<1>3. Asking' = Req(R) /\ Asking = Req(R \cup {c}) /\ Told' = Tel(R) /\ Told = Tel(R \cup {c})
  BY <1>2, Parts, PartsAfter, Zenon DEF Asking
<1>4. Cmt(R \cup {c}) \subseteq Replied
  BY <1>2, Zenon DEF Replied
<1> HIDE DEF R, c
<1>5. /\ Req(R \cup {c}) = Req(R) \cup (IF c.do = "request" THEN {c.token} ELSE {})
      /\ ReqW(R \cup {c}) = ReqW(R) \cup (IF c.do = "request" /\ c.wait_source THEN {c.token} ELSE {})
      /\ Tel(R \cup {c}) = Tel(R) \cup (IF c.do # "request" THEN {c.token} ELSE {})
      /\ Cmt(R \cup {c}) = Cmt(R) \cup (IF c.do = "commit" THEN {c.token} ELSE {})
  BY OneMore, Zenon
<1>6. c.do # "request"
  BY Zenon DEF c
<1>7. Asking' = Asking /\ ReqW(R \cup {c}) = ReqW(R) /\ Told = Told' \cup {c.token}
  BY <1>3, <1>5, <1>6, Zenon
<1>8. Cmt(R) \subseteq Cmt(R \cup {c}) /\ (c.do = "commit" => c.token \in Replied)
  BY <1>4, <1>5, Zenon
<1>9. c.token \in HeldByService
  BY <1>7, Zenon DEF CInv
<1> QED BY <1>2, <1>7, <1>8, <1>9, Zenon DEF R, c

(* A read that was answered is found by its commit or cancel. *)
LEMMA RetainedLeaves ==
  ASSUME SInv, CInv, WorkerCommand, UNCHANGED waitVars,
         CommitsRead(Head(commands)) \/ CancelsAnswered(Head(commands))
  PROVE  CInv' /\ Reply(Head(commands).token, "found")
<1> DEFINE t == Head(commands).token
<1>1. /\ Head(commands).do # "request" /\ UNCHANGED pending
      /\ retained' = Drop(retained, t)
      /\ Reply(t, IF t \in DOMAIN retained THEN "found" ELSE "missing")
  BY Zenon DEF CommitsRead, CancelsAnswered
<1>2. /\ Asking' = Asking /\ Ordered(commands') /\ Told = Told' \cup {t} /\ t \notin Told'
      /\ t \notin Asking /\ t \in HeldByService
      /\ ReqW(Range(commands')) = ReqW(Range(commands))
      /\ Cmt(Range(commands')) \subseteq Cmt(Range(commands))
      /\ Head(commands).do = "commit" => t \in Replied
  BY <1>1, ToldHead, Zenon
<1>3. UNCHANGED <<ready, wait_services, next_token, host_completions, job>>
  BY Zenon DEF WorkerCommand, waitVars
<1>4. t \notin Queued
  <2>1. CASE CommitsRead(Head(commands))
    <3>1. t \in Replied
      BY <1>2, <2>1, Zenon DEF CommitsRead
    <3> QED BY <3>1, Zenon DEF CInv
  <2>2. CASE CancelsAnswered(Head(commands))
    <3>1. \A i \in DOMAIN pending : pending[i].token # t
      BY <2>2, Zenon DEF CancelsAnswered
    <3> QED BY <3>1, Zenon DEF Queued, Tok, Range
  <2> QED BY <2>1, <2>2, Zenon
<1> HIDE DEF t
<1>5. t \notin ReqW(Range(commands)) /\ t \notin Wts(Range(pending))
  BY <1>2, <1>4, Parts, Zenon DEF Asking, Queued
<1>6. t \in DOMAIN retained
  BY <1>2, <1>5, Parts, Zenon
<1>7. DOMAIN retained' = DOMAIN retained \ {t}
  BY <1>1, Zenon DEF Drop
<1>8. HeldByService' = HeldByService \ {t}
  <2>1. HeldByService' = ReqW(Range(commands)) \cup Wts(Range(pending)) \cup (DOMAIN retained \ {t})
    BY <1>1, <1>2, <1>7, PartsAfter, Zenon
  <2> QED BY <1>5, <2>1, Parts, Zenon
<1>9. Queued' = Queued /\ Replied' \subseteq Replied
  BY <1>1, <1>2, <1>3, <1>7, Zenon DEF Queued, Replied, Answering, Calls
<1>10. Distinct(pending')
  BY <1>1, Zenon DEF CInv
<1>11. CInv'
  BY <1>2, <1>3, <1>8, <1>9, <1>10, LetGo, Zenon
<1> QED BY <1>1, <1>6, <1>11, Zenon DEF t

(* A read that was not answered is found by its cancel. *)
LEMMA PendingLeaves ==
  ASSUME SInv, CInv, WorkerCommand, UNCHANGED waitVars, CancelsPending(Head(commands))
  PROVE  CInv' /\ Reply(Head(commands).token, "found")
<1> DEFINE t == Head(commands).token
<1>1. /\ Head(commands).do # "request" /\ UNCHANGED retained /\ Reply(t, "found")
  BY Zenon DEF CancelsPending
<1>2. /\ Asking' = Asking /\ Ordered(commands') /\ Told = Told' \cup {t} /\ t \notin Told'
      /\ t \notin Asking /\ t \in HeldByService
      /\ ReqW(Range(commands')) = ReqW(Range(commands))
      /\ Cmt(Range(commands')) \subseteq Cmt(Range(commands))
  BY <1>1, ToldHead, Zenon
<1>3. UNCHANGED <<ready, wait_services, next_token, host_completions, job>>
  BY Zenon DEF WorkerCommand, waitVars
<1>4. PICK i \in DOMAIN pending : pending[i].token = t /\ pending' = Without(pending, i)
  BY Zenon DEF CancelsPending
<1> HIDE DEF t
<1>5. pending \in Seq(Reads) /\ Distinct(pending)
  BY Zenon DEF SInv, ServiceTypes, CInv
<1> DEFINE p == pending[i]
<1>6. Distinct(pending') /\ t \notin Tok(Range(pending')) /\ Range(pending) = Range(pending') \cup {p}
  <2>1. /\ Distinct(Without(pending, i)) /\ pending[i].token \notin Tok(Range(Without(pending, i)))
        /\ Range(pending) = Range(Without(pending, i)) \cup {pending[i]}
    BY <1>5, DistinctWithout, Zenon
  <2> QED BY <1>4, <2>1, Zenon
<1> HIDE DEF p
<1>7. /\ Queued = Queued' \cup {t} /\ t \notin Wts(Range(pending'))
      /\ Wts(Range(pending)) = Wts(Range(pending')) \cup (IF p.wait_source THEN {t} ELSE {})
  <2>1. p.token = t
    BY <1>4, Zenon DEF p
  <2>2. /\ Tok(Range(pending') \cup {p}) = Tok(Range(pending')) \cup {p.token}
        /\ Wts(Range(pending') \cup {p}) = Wts(Range(pending')) \cup (IF p.wait_source THEN {p.token} ELSE {})
    BY OneMore, Zenon
  <2> QED BY <1>6, <2>1, <2>2, Parts, Zenon DEF Queued
<1>8. t \notin DOMAIN retained
  <2>1. t \notin Replied
    BY <1>7, Zenon DEF CInv
  <2> QED BY <2>1, Zenon DEF Replied
<1>9. t \notin ReqW(Range(commands))
  BY <1>2, Parts, Zenon DEF Asking
<1>10. HeldByService' = HeldByService \ {t}
  <2>1. HeldByService' = ReqW(Range(commands)) \cup Wts(Range(pending')) \cup DOMAIN retained
    BY <1>1, <1>2, PartsAfter, Zenon
  <2> QED BY <1>7, <1>8, <1>9, <2>1, Parts, Zenon
<1>11. Queued' \subseteq Queued /\ Replied' \subseteq Replied
  BY <1>1, <1>2, <1>3, <1>7, Zenon DEF Replied, Answering, Calls
<1>12. CInv'
  BY <1>2, <1>3, <1>6, <1>10, <1>11, LetGo, Zenon
<1> QED BY <1>1, <1>12, Zenon DEF t

(* The worker answers the oldest read. *)
LEMMA AnswerKeeps ==
  ASSUME SInv, CInv, WorkerAnswers, UNCHANGED waitVars
  PROVE  CInv' /\ UNCHANGED call
<1> DEFINE r == Head(pending)
           t == r.token
           c == [token |-> r.token, bytes |-> Consumed(r)]
<1>1. /\ pending # <<>> /\ pending' = Tail(pending) /\ UNCHANGED <<commands, call>>
      /\ retained' = IF r.wait_source THEN Insert(retained, t, Consumed(r)) ELSE retained
      /\ ready' = Append(ready, c)
  BY Zenon DEF WorkerAnswers
<1>2. UNCHANGED <<wait_services, next_token, host_completions, job>>
  BY Zenon DEF waitVars
<1>3. pending \in Seq(Reads) /\ Distinct(pending)
  BY Zenon DEF SInv, ServiceTypes, CInv
<1>4. /\ Distinct(pending') /\ t \notin Tok(Range(pending'))
      /\ Range(pending) = Range(pending') \cup {r}
  <2>1. Distinct(Tail(pending)) /\ Head(pending).token \notin Tok(Range(Tail(pending)))
    BY <1>1, <1>3, DistinctTail, Zenon
  <2>2. Range(pending) = Range(Tail(pending)) \cup {Head(pending)}
    BY <1>1, <1>3, RangeHead, Zenon
  <2> QED BY <1>1, <2>1, <2>2, Zenon
<1>5. c.token = t
  BY Zenon
<1>6. DOMAIN retained' = DOMAIN retained \cup (IF r.wait_source THEN {t} ELSE {})
  <2>1. DOMAIN Insert(retained, t, Consumed(r)) = DOMAIN retained \cup {t}
    BY Zenon DEF Insert
  <2> HIDE DEF r
  <2>2. CASE r.wait_source
    BY <1>1, <2>1, <2>2, Zenon
  <2>3. CASE ~r.wait_source
    BY <1>1, <2>3, Zenon
  <2> QED BY <2>2, <2>3, Zenon
<1> HIDE DEF c, r
<1>7. (\E S : ready' \in Seq(S)) /\ Answering' = Answering \cup {t}
  <2>1. PICK S : ready \in Seq(S)
    BY Zenon DEF CInv
  <2> DEFINE X == S \cup {c}
  <2>2. ready \in Seq(X) /\ c \in X
    BY <2>1
  <2> HIDE DEF X
  <2>3. \A s \in Seq(X), x \in X : Append(s, x) \in Seq(X) /\ Range(Append(s, x)) = Range(s) \cup {x}
    BY RangeAppend
  <2>4. ready' \in Seq(X) /\ Range(ready') = Range(ready) \cup {c}
    BY <1>1, <2>2, <2>3, Zenon
  <2>5. Tok(Range(ready) \cup {c}) = Tok(Range(ready)) \cup {c.token}
    BY OneMore, Zenon
  <2> QED BY <1>5, <2>4, <2>5, Zenon DEF Answering
<1>8. /\ Queued = Queued' \cup {t} /\ t \notin Queued'
      /\ Wts(Range(pending)) = Wts(Range(pending')) \cup (IF r.wait_source THEN {t} ELSE {})
  <2>1. /\ Tok(Range(pending') \cup {r}) = Tok(Range(pending')) \cup {r.token}
        /\ Wts(Range(pending') \cup {r}) = Wts(Range(pending')) \cup (IF r.wait_source THEN {r.token} ELSE {})
    BY OneMore, Zenon
  <2> QED BY <1>4, <2>1, Zenon DEF Queued
<1>9. HeldByService' = HeldByService /\ Told' = Told /\ Asking' = Asking
  <2>1. HeldByService' = ReqW(Range(commands)) \cup Wts(Range(pending'))
                         \cup DOMAIN retained \cup (IF r.wait_source THEN {t} ELSE {})
    BY <1>1, <1>6, PartsAfter, Zenon
  <2>2. HeldByService' = HeldByService
    BY <1>8, <2>1, Parts, Zenon
  <2> QED BY <1>1, <2>2, Parts, PartsAfter, Zenon DEF Asking
<1>10. Replied' \subseteq Replied \cup {t} /\ Given' = Given
  BY <1>1, <1>2, <1>6, <1>7, Zenon DEF Replied, Calls, Given
<1>11. /\ Asking \cap Queued = {} /\ Asking \cap Replied = {} /\ Queued \cap Replied = {}
      /\ Asking \subseteq Given /\ Queued \subseteq Given /\ Replied \subseteq Given
      /\ Told \subseteq HeldByService /\ wait_services = HeldByService \ Told
  BY Zenon DEF CInv
<1>12. Asking' \cap Queued' = {} /\ Asking' \cap Replied' = {} /\ Queued' \cap Replied' = {}
  BY <1>8, <1>9, <1>10, <1>11, Zenon
<1>13. Asking' \subseteq Given' /\ Queued' \subseteq Given' /\ Replied' \subseteq Given'
  BY <1>8, <1>9, <1>10, <1>11, Zenon
<1>14. Told' \subseteq HeldByService' /\ wait_services' = HeldByService' \ Told'
  BY <1>2, <1>9, <1>11, Zenon
<1>15. Ordered(commands')
  BY <1>1, Zenon DEF CInv
<1> QED BY <1>1, <1>4, <1>7, <1>12, <1>13, <1>14, <1>15, Zenon DEF CInv

----------------------------------------------------------------------------
(* A commit or a cancel under way is the first call of the operation.        *)
Asked ==
  /\ call \in [token : Nat, answer : {"none", "awaited", "found"}]
  /\ call.answer = "none" <=> call.token = 0
  /\ call.token # 0 => job.calls # <<>> /\ call.token = Head(job.calls).token

(* The call under way stays as it is. *)
LEMMA AskedStays ==
  ASSUME Asked, UNCHANGED call, job'.calls = job.calls \/ job.calls = <<>>
  PROVE  Asked'
<1>1. CASE job'.calls = job.calls
  BY <1>1, Zenon DEF Asked
<1>2. CASE job.calls = <<>>
  <2>1. call.token = 0
    BY <1>2, Zenon DEF Asked
  <2> QED BY <2>1, Zenon DEF Asked
<1> QED BY <1>1, <1>2, Zenon

(* The service found the token of the call. *)
LEMMA AskedReply ==
  ASSUME Asked, NEW t, t # 0, Reply(t, "found"), UNCHANGED job
  PROVE  Asked'
<1>1. CASE call.token # t
  <2>1. call' = call
    BY <1>1, Zenon DEF Reply
  <2> QED BY <2>1, AskedStays, Zenon
<1>2. CASE call.token = t
  <2>1. call' = [call EXCEPT !.answer = "found"]
    BY <1>2, Zenon DEF Reply
  <2>2. call \in [token : Nat, answer : {"none", "awaited", "found"}]
    BY Zenon DEF Asked
  <2>3. /\ call' \in [token : Nat, answer : {"none", "awaited", "found"}]
        /\ call'.token = call.token /\ call'.answer = "found"
    BY <2>1, <2>2
  <2>4. call'.token # 0 => job'.calls # <<>> /\ call'.token = Head(job'.calls).token
    BY <2>3, Zenon DEF Asked
  <2> QED BY <1>2, <2>3, <2>4, Zenon DEF Asked
<1> QED BY <1>1, <1>2, Zenon

(* The threads of the input service. *)
LEMMA InputChannel ==
  ASSUME TInv, CInv, Asked, Input
  PROVE  CInv' /\ Asked'
<1>1. UNCHANGED waitVars /\ (ReaderReads \/ input_worker) /\ SInv
  BY Zenon DEF Input, TInv
<1>2. UNCHANGED <<host_completions, job, next_token, wait_services>>
  BY <1>1, Zenon DEF waitVars
<1>3. CASE WorkerCommand
  <2> DEFINE c == Head(commands)
  <2>1. handle_input_command(c) /\ commands # <<>> /\ commands' = Tail(commands)
    BY <1>3, Zenon DEF WorkerCommand
  <2>2. CASE TakesRequest(c)
    <3>1. CInv' /\ UNCHANGED call
      BY <1>1, <1>3, <2>2, TakenKeeps, Zenon
    <3> QED BY <1>2, <3>1, AskedStays, Zenon
  <2>3. CASE CommitsRead(c) \/ CancelsAnswered(c) \/ CancelsPending(c)
    <3>1. CInv' /\ Reply(c.token, "found")
      BY <1>1, <1>3, <2>3, RetainedLeaves, PendingLeaves, Zenon
    <3>2. c.do # "request"
      BY <2>3, Zenon DEF CommitsRead, CancelsAnswered, CancelsPending
    <3>3. c.token \in HeldByService
      BY <1>1, <1>3, <3>2, ToldHead, Zenon
    <3>4. HeldByService \subseteq Given
      <4>1. HeldByService \subseteq Asking \cup Queued \cup Replied
        BY Parts, Zenon DEF Asking, Queued, Replied
      <4> QED BY <4>1, Zenon DEF CInv
    <3>5. c.token # 0
      <4> HIDE DEF c
      <4>1. c.token \in 1..(next_token - 1)
        BY <3>3, <3>4, Zenon DEF Given
      <4> QED BY <4>1
    <3> QED BY <1>2, <3>1, <3>5, AskedReply, Zenon
  <2> QED BY <2>1, <2>2, <2>3, Zenon DEF handle_input_command
<1>4. CASE WorkerAnswers
  <2>1. CInv' /\ UNCHANGED call
    BY <1>1, <1>4, AnswerKeeps, Zenon
  <2> QED BY <1>2, <2>1, AskedStays, Zenon
<1>5. CASE ReaderReads \/ WorkerData \/ WorkerReleases \/ WorkerMovesOn
  <2>1. UNCHANGED <<commands, pending, retained, ready, call>>
    BY <1>5, Zenon DEF ReaderReads, WorkerData, WorkerReleases, WorkerMovesOn
  <2>2. (\E S : ready' \in Seq(S)) /\ Answering' = Answering /\ Calls' = Calls /\ Given' = Given
    BY <1>2, <2>1, Zenon DEF CInv, Answering, Calls, Given
  <2>3. DOMAIN host_completions' \cup Answering' \cup Calls'
            \subseteq DOMAIN host_completions \cup Answering \cup Calls
    BY <1>2, <2>2, Zenon
  <2>4. CInv'
    BY <1>2, <2>1, <2>2, <2>3, ChannelStays, Zenon
  <2> QED BY <1>2, <2>1, <2>4, AskedStays, Zenon
<1> QED BY <1>1, <1>3, <1>4, <1>5, Zenon DEF input_worker

(* A new read is sent under a fresh token. *)
LEMMA SubmitChannel ==
  ASSUME SInv, CInv, next_token \in Nat \ {0}, NEW n \in Nat, NEW w \in BOOLEAN,
         submit_stream(next_token, n, w), next_token' = next_token + 1,
         UNCHANGED host_completions, Calls' \subseteq Calls,
         wait_services' = wait_services \cup (IF w THEN {next_token} ELSE {})
  PROVE  CInv'
<1> DEFINE t == next_token
           c == Request(t, n, w)
           R == Range(commands)
<1>1. commands' = Append(commands, c) /\ UNCHANGED <<pending, retained, ready>>
  BY Zenon DEF submit_stream
<1>2. c \in Commands /\ c.do = "request" /\ c.token = t /\ c.wait_source = w
  BY DEF Request, Commands
<1>3. t \notin Given /\ Given \subseteq Given' /\ t \in Given'
  BY DEF Given
<1>4. /\ Asking \cap Queued = {} /\ Asking \cap Replied = {} /\ Queued \cap Replied = {}
      /\ Asking \subseteq Given /\ Queued \subseteq Given /\ Replied \subseteq Given
      /\ Told \subseteq HeldByService /\ wait_services = HeldByService \ Told
  BY Zenon DEF CInv
<1>5. HeldByService \subseteq Given
  <2>1. HeldByService \subseteq Asking \cup Queued \cup Replied
    BY Parts, Zenon DEF Asking, Queued, Replied
  <2> QED BY <1>4, <2>1, Zenon
<1> HIDE DEF c, t
<1>6. Ordered(commands') /\ Range(commands') = R \cup {c}
  <2>1. commands \in Seq(Commands) /\ Ordered(commands)
    BY Zenon DEF SInv, ServiceTypes, CInv
  <2>2. c.token \notin Tel(Range(commands)) /\ c.token \notin Req(Range(commands))
    BY <1>2, <1>3, <1>4, <1>5, Parts, Zenon DEF Asking
  <2>3. Ordered(Append(commands, c))
    BY <1>2, <2>1, <2>2, OrderedAppend, Zenon
  <2>4. \A s \in Seq(Commands), x \in Commands : Range(Append(s, x)) = Range(s) \cup {x}
    BY RangeAppend
  <2> QED BY <1>1, <1>2, <2>1, <2>3, <2>4, Zenon
<1> HIDE DEF R
<1>7. /\ Req(R \cup {c}) = Req(R) \cup {t}
      /\ ReqW(R \cup {c}) = ReqW(R) \cup (IF w THEN {t} ELSE {})
      /\ Tel(R \cup {c}) = Tel(R)
      /\ Cmt(R \cup {c}) = Cmt(R)
  <2>1. /\ Req(R \cup {c}) = Req(R) \cup (IF c.do = "request" THEN {c.token} ELSE {})
        /\ ReqW(R \cup {c}) = ReqW(R) \cup (IF c.do = "request" /\ c.wait_source THEN {c.token} ELSE {})
        /\ Tel(R \cup {c}) = Tel(R) \cup (IF c.do # "request" THEN {c.token} ELSE {})
        /\ Cmt(R \cup {c}) = Cmt(R) \cup (IF c.do = "commit" THEN {c.token} ELSE {})
    BY OneMore, Zenon
  <2>2. c.do # "commit"
    BY <1>2
  <2> QED BY <1>2, <2>1, <2>2, Zenon
<1>8. Asking' = Asking \cup {t} /\ Queued' = Queued
  BY <1>1, <1>6, <1>7, Zenon DEF Asking, Queued, R
<1>9. Replied' \subseteq Replied
  <2>1. Answering' = Answering /\ Cmt(Range(commands')) = Cmt(Range(commands))
    BY <1>1, <1>6, <1>7, Zenon DEF Answering, R
  <2> QED BY <1>1, <2>1, Zenon DEF Replied
<1>10. Told' = Told /\ HeldByService' = HeldByService \cup (IF w THEN {t} ELSE {})
  <2>1. Told' = Told
    BY <1>6, <1>7, Parts, PartsAfter, Zenon DEF R
  <2>2. HeldByService' = ReqW(R) \cup (IF w THEN {t} ELSE {}) \cup Wts(Range(pending)) \cup DOMAIN retained
    BY <1>1, <1>6, <1>7, PartsAfter, Zenon
  <2>3. HeldByService = ReqW(R) \cup Wts(Range(pending)) \cup DOMAIN retained
    BY Parts, Zenon DEF R
  <2> QED BY <2>1, <2>2, <2>3, Zenon
<1>11. Asking' \cap Queued' = {} /\ Asking' \cap Replied' = {} /\ Queued' \cap Replied' = {}
  BY <1>3, <1>4, <1>8, <1>9, Zenon
<1>12. Asking' \subseteq Given' /\ Queued' \subseteq Given' /\ Replied' \subseteq Given'
  BY <1>3, <1>4, <1>8, <1>9, Zenon
<1>13. Told' \subseteq HeldByService'
  BY <1>4, <1>10, Zenon
<1>14. wait_services' = HeldByService' \ Told'
  <2>1. t \notin Told
    BY <1>3, <1>4, <1>5, Zenon
  <2>2. wait_services' = wait_services \cup (IF w THEN {t} ELSE {})
    BY Zenon DEF t
  <2> QED BY <1>4, <1>10, <2>1, <2>2, Zenon
<1>15. (\E S : ready \in Seq(S))' /\ Distinct(pending')
  BY <1>1, Zenon DEF CInv
<1> QED BY <1>6, <1>11, <1>12, <1>13, <1>14, <1>15, Zenon DEF CInv

(* A commit or a cancel is sent for a token the host knows. *)
LEMMA AskChannel ==
  ASSUME SInv, CInv, NEW c \in Commands, c.do # "request", Ask(c), c.token \in wait_services,
         c.do = "commit" => c.token \in Calls,
         wait_services' = wait_services \ {c.token},
         UNCHANGED <<host_completions, job, next_token>>
  PROVE  CInv'
<1> DEFINE t == c.token
           R == Range(commands)
<1>1. commands' = Append(commands, c) /\ UNCHANGED <<pending, retained, ready>>
  BY Zenon DEF Ask
<1>4. /\ Asking \cap Queued = {} /\ Asking \cap Replied = {} /\ Queued \cap Replied = {}
      /\ Asking \subseteq Given /\ Queued \subseteq Given /\ Replied \subseteq Given
      /\ Told \subseteq HeldByService /\ wait_services = HeldByService \ Told
  BY Zenon DEF CInv
<1>6. Ordered(commands') /\ Range(commands') = R \cup {c}
  <2>1. commands \in Seq(Commands) /\ Ordered(commands)
    BY Zenon DEF SInv, ServiceTypes, CInv
  <2>2. c.token \notin Tel(Range(commands))
    BY <1>4, Parts, Zenon
  <2>3. Ordered(Append(commands, c))
    BY <2>1, <2>2, OrderedAppend, Zenon
  <2>4. \A s \in Seq(Commands), x \in Commands : Range(Append(s, x)) = Range(s) \cup {x}
    BY RangeAppend
  <2> QED BY <1>1, <2>1, <2>3, <2>4, Zenon
<1> HIDE DEF R
<1>7. /\ Req(R \cup {c}) = Req(R) /\ ReqW(R \cup {c}) = ReqW(R)
      /\ Tel(R \cup {c}) = Tel(R) \cup {t}
      /\ Cmt(R \cup {c}) \subseteq Cmt(R) \cup Calls
  <2>1. /\ Req(R \cup {c}) = Req(R) \cup (IF c.do = "request" THEN {c.token} ELSE {})
        /\ ReqW(R \cup {c}) = ReqW(R) \cup (IF c.do = "request" /\ c.wait_source THEN {c.token} ELSE {})
        /\ Tel(R \cup {c}) = Tel(R) \cup (IF c.do # "request" THEN {c.token} ELSE {})
        /\ Cmt(R \cup {c}) = Cmt(R) \cup (IF c.do = "commit" THEN {c.token} ELSE {})
    BY OneMore, Zenon
  <2> QED BY <2>1, Zenon
<1> HIDE DEF t
<1>8. Asking' = Asking /\ Queued' = Queued /\ Given' = Given
  BY <1>1, <1>6, <1>7, Zenon DEF Asking, Queued, R, Given
<1>9. Replied' \subseteq Replied
  <2>1. Answering' = Answering /\ Calls' = Calls /\ Cmt(Range(commands')) \subseteq Cmt(Range(commands)) \cup Calls
    BY <1>1, <1>6, <1>7, Zenon DEF Answering, Calls, R
  <2> QED BY <1>1, <2>1, Zenon DEF Replied
<1>10. Told' = Told \cup {t} /\ HeldByService' = HeldByService
  <2>1. Told' = Told \cup {t}
    BY <1>6, <1>7, Parts, PartsAfter, Zenon DEF R
  <2>2. HeldByService' = ReqW(R) \cup Wts(Range(pending)) \cup DOMAIN retained
    BY <1>1, <1>6, <1>7, PartsAfter, Zenon
  <2> QED BY <2>1, <2>2, Parts, Zenon DEF R
<1>11. Asking' \cap Queued' = {} /\ Asking' \cap Replied' = {} /\ Queued' \cap Replied' = {}
  BY <1>4, <1>8, <1>9, Zenon
<1>12. Asking' \subseteq Given' /\ Queued' \subseteq Given' /\ Replied' \subseteq Given'
  BY <1>4, <1>8, <1>9, Zenon
<1>13. Told' \subseteq HeldByService' /\ wait_services' = HeldByService' \ Told'
  BY <1>4, <1>10, Zenon DEF t
<1>15. (\E S : ready \in Seq(S))' /\ Distinct(pending')
  BY <1>1, Zenon DEF CInv
<1> QED BY <1>6, <1>11, <1>12, <1>13, <1>15, Zenon DEF CInv

(* An answer reaches the host, which keeps it by its token. *)
LEMMA CompletesChannel ==
  ASSUME CInv, NEW c, TakesCompletion(c), Calls' \subseteq Calls
  PROVE  CInv'
<1> DEFINE kept == Buffered(c)
<1>1. /\ ready # <<>> /\ ready' = Tail(ready) /\ c = Head(ready)
      /\ host_completions' = [t \in {u \in DOMAIN kept : prepared_wait_exists(u)} |-> kept[t]]
      /\ UNCHANGED <<commands, pending, retained, wait_services, next_token>>
  BY Zenon DEF TakesCompletion
<1>2. PICK S : ready \in Seq(S)
  BY Zenon DEF CInv
<1>3. Tail(ready) \in Seq(S) /\ Range(ready) = Range(Tail(ready)) \cup {c}
  BY <1>1, <1>2, RangeHead, Zenon
<1>4. DOMAIN kept \subseteq DOMAIN host_completions \cup {c.token}
  <2>1. DOMAIN Insert(host_completions, c.token, c.bytes) = DOMAIN host_completions \cup {c.token}
    BY Zenon DEF Insert
  <2>2. kept = Insert(host_completions, c.token, c.bytes) \/ kept = host_completions
    BY Zenon DEF Buffered
  <2> QED BY <2>1, <2>2, Zenon
<1>5. Answering = Answering' \cup {c.token}
  <2>1. Tok(Range(Tail(ready)) \cup {c}) = Tok(Range(Tail(ready))) \cup {c.token}
    BY OneMore, Zenon
  <2> QED BY <1>1, <1>3, <2>1, Zenon DEF Answering
<1> HIDE DEF kept
<1>6. DOMAIN host_completions' \subseteq DOMAIN kept
  BY <1>1, Zenon
<1>7. Given' = Given
  BY <1>1, Zenon DEF Given
<1>8. DOMAIN host_completions' \cup Answering' \cup Calls'
            \subseteq DOMAIN host_completions \cup Answering \cup Calls
  BY <1>4, <1>5, <1>6, <1>7, Zenon
<1>9. (\E X : ready' \in Seq(X)) /\ Given \subseteq Given'
  BY <1>1, <1>3, <1>7, Zenon
<1> QED BY <1>1, <1>8, <1>9, ChannelStays, Zenon

----------------------------------------------------------------------------
(* The tokens in the tables W, without those of the waits D of machine m.    *)
Kept(W, m, D) ==
  UNION {{W[k][t].scope : t \in {u \in DOMAIN W[k] : k = m => u \notin D}} \ {0} : k \in Machines}

(* The host tokens of all tables. *)
Every(W) == Kept(W, 0, {})

(* The host tokens of the waits D of a table. *)
Scp(w, D) == {w[t].scope : t \in D} \ {0}

(* No token is in two entries of the tables W, nor in one and in O.          *)
Sound(W, O) ==
  /\ \A m \in Machines : \A t \in DOMAIN W[m] : Shape(W[m][t])
  /\ \A m, k \in Machines : \A t \in DOMAIN W[m] : \A u \in DOMAIN W[k] :
       W[m][t].scope # 0 /\ W[m][t].scope = W[k][u].scope => m = k /\ t = u
  /\ \A m \in Machines : \A t \in DOMAIN W[m] : W[m][t].scope # 0 => W[m][t].scope \notin O

(* A token is in one place. *)
LEMMA SoundApart ==
  ASSUME NEW W, NEW O, Sound(W, O), NEW m \in Machines, NEW k \in Machines,
         NEW t \in DOMAIN W[m], NEW u \in DOMAIN W[k],
         W[m][t].scope # 0, W[m][t].scope = W[k][u].scope
  PROVE  m = k /\ t = u
<1>1. \A i, j \in Machines : \A a \in DOMAIN W[i] : \A b \in DOMAIN W[j] :
       W[i][a].scope # 0 /\ W[i][a].scope = W[j][b].scope => i = j /\ a = b
  BY Zenon DEF Sound
<1> QED BY <1>1, ZenonT(30)

(* Membership in Kept. *)
LEMMA KeptIs ==
  ASSUME NEW W, NEW m, NEW D, NEW x
  PROVE  x \in Kept(W, m, D) <=>
           \E k \in Machines : \E t \in DOMAIN W[k] :
              (k = m => t \notin D) /\ x = W[k][t].scope /\ x # 0
<1>1. ASSUME x \in Kept(W, m, D)
      PROVE  \E k \in Machines : \E t \in DOMAIN W[k] :
              (k = m => t \notin D) /\ x = W[k][t].scope /\ x # 0
  <2>1. PICK k \in Machines : x \in {W[k][t].scope : t \in {u \in DOMAIN W[k] : k = m => u \notin D}} \ {0}
    BY <1>1, Zenon DEF Kept
  <2>2. PICK t \in {u \in DOMAIN W[k] : k = m => u \notin D} : x = W[k][t].scope /\ x # 0
    BY <2>1, Zenon
  <2> QED BY <2>2, Zenon
<1>2. ASSUME NEW k \in Machines, NEW t \in DOMAIN W[k],
             k = m => t \notin D, x = W[k][t].scope, x # 0
      PROVE  x \in Kept(W, m, D)
  <2>1. t \in {u \in DOMAIN W[k] : k = m => u \notin D}
    BY <1>2, Zenon
  <2>2. x \in {W[k][v].scope : v \in {u \in DOMAIN W[k] : k = m => u \notin D}} \ {0}
    BY <1>2, <2>1, Zenon
  <2> QED BY <2>2, ZenonT(30) DEF Kept
<1> QED BY <1>1, <1>2, Zenon

(* Membership in Every. *)
LEMMA EveryIs ==
  ASSUME NEW W, NEW x
  PROVE  x \in Every(W) <=>
           \E k \in Machines : \E t \in DOMAIN W[k] : x = W[k][t].scope /\ x # 0
<1>1. x \in Kept(W, 0, {}) <=>
           \E k \in Machines : \E t \in DOMAIN W[k] :
              (k = 0 => t \notin {}) /\ x = W[k][t].scope /\ x # 0
  BY KeptIs, Zenon
<1> QED BY <1>1, Zenon DEF Every

(* The tokens of the waits D are apart from the others. *)
LEMMA KeptSplit ==
  ASSUME NEW W, NEW O, Sound(W, O), NEW m \in Machines, NEW D \in SUBSET DOMAIN W[m]
  PROVE  /\ Every(W) = Kept(W, m, D) \cup Scp(W[m], D)
         /\ Scp(W[m], D) \cap (Kept(W, m, D) \cup O) = {}
<1>1. ASSUME NEW x \in Every(W) PROVE x \in Kept(W, m, D) \cup Scp(W[m], D)
  <2>1. PICK k \in Machines : \E t \in DOMAIN W[k] : x = W[k][t].scope /\ x # 0
    BY <1>1, EveryIs, Zenon
  <2>2. PICK t \in DOMAIN W[k] : x = W[k][t].scope /\ x # 0
    BY <2>1, Zenon
  <2>3. CASE k = m /\ t \in D
    <3>1. x \in {W[m][u].scope : u \in D}
      BY <2>2, <2>3, Zenon
    <3> QED BY <2>2, <3>1, Zenon DEF Scp
  <2>4. CASE k = m => t \notin D
    BY <2>2, <2>4, KeptIs, Zenon
  <2> QED BY <2>3, <2>4, Zenon
<1>2. ASSUME NEW x \in Kept(W, m, D) PROVE x \in Every(W)
  <2>1. PICK k \in Machines : \E t \in DOMAIN W[k] : (k = m => t \notin D) /\ x = W[k][t].scope /\ x # 0
    BY <1>2, KeptIs, Zenon
  <2>2. \E t \in DOMAIN W[k] : x = W[k][t].scope /\ x # 0
    BY <2>1, Zenon
  <2> QED BY <2>2, EveryIs, Zenon
<1>3. ASSUME NEW x \in Scp(W[m], D) PROVE x \in Every(W) /\ x \notin Kept(W, m, D) /\ x \notin O
  <2>1. PICK u \in D : x = W[m][u].scope /\ x # 0
    BY <1>3, Zenon DEF Scp
  <2>2. u \in DOMAIN W[m]
    OBVIOUS
  <2>3. x \in Every(W)
    <3>1. \E k \in Machines : \E t \in DOMAIN W[k] : x = W[k][t].scope /\ x # 0
      BY <2>1, <2>2, Zenon
    <3> QED BY <3>1, EveryIs, Zenon
  <2>4. x \notin O
    BY <2>1, <2>2, Zenon DEF Sound
  <2>5. ASSUME x \in Kept(W, m, D) PROVE FALSE
    <3>1. PICK k \in Machines : \E t \in DOMAIN W[k] : (k = m => t \notin D) /\ x = W[k][t].scope /\ x # 0
      BY <2>5, KeptIs, Zenon
    <3>2. PICK t \in DOMAIN W[k] : (k = m => t \notin D) /\ x = W[k][t].scope
      BY <3>1, Zenon
    <3>3. W[m][u].scope # 0 /\ W[m][u].scope = W[k][t].scope
      BY <2>1, <3>2, Zenon
    <3>4. m = k /\ u = t
      BY <2>2, <3>3, SoundApart, SMTT(30)
    <3> QED BY <2>1, <3>2, <3>4, Zenon
  <2> QED BY <2>3, <2>4, <2>5, Zenon
<1> QED BY <1>1, <1>2, <1>3, Zenon

(* Tables with fewer entries. *)
LEMMA SoundLess ==
  ASSUME NEW W, NEW O, Sound(W, O), NEW V, NEW P,
         \A k \in Machines : DOMAIN V[k] \subseteq DOMAIN W[k],
         \A k \in Machines : \A t \in DOMAIN V[k] : V[k][t] = W[k][t],
         \A x \in P : x \in O \/ x \notin Every(V)
  PROVE  Sound(V, P)
<1>1. \A k \in Machines : \A t \in DOMAIN V[k] : t \in DOMAIN W[k] /\ V[k][t] = W[k][t]
  BY Zenon
<1>2. \A k \in Machines : \A t \in DOMAIN V[k] : Shape(V[k][t])
  BY <1>1, Zenon DEF Sound
<1>3. ASSUME NEW m \in Machines, NEW k \in Machines, NEW t \in DOMAIN V[m], NEW u \in DOMAIN V[k],
             V[m][t].scope # 0, V[m][t].scope = V[k][u].scope
      PROVE  m = k /\ t = u
  <2>1. /\ t \in DOMAIN W[m] /\ u \in DOMAIN W[k]
        /\ W[m][t].scope # 0 /\ W[m][t].scope = W[k][u].scope
    BY <1>1, <1>3, Zenon
  <2> QED BY <2>1, SoundApart
<1>4. ASSUME NEW m \in Machines, NEW t \in DOMAIN V[m], V[m][t].scope # 0
      PROVE  V[m][t].scope \notin P
  <2>1. V[m][t].scope \notin O
    BY <1>1, <1>4, Zenon DEF Sound
  <2>2. V[m][t].scope \in Every(V)
    BY <1>4, EveryIs, Zenon
  <2> QED BY <2>1, <2>2, Zenon
<1> QED BY <1>2, <1>3, <1>4, SMTT(30) DEF Sound

(* The tables without the waits D of m. *)
LEMMA EveryLess ==
  ASSUME NEW W, NEW V, NEW m, NEW D,
         \A k \in Machines \ {m} : V[k] = W[k],
         m \in Machines => /\ DOMAIN V[m] = DOMAIN W[m] \ D
                           /\ \A t \in DOMAIN V[m] : V[m][t] = W[m][t]
  PROVE  Every(V) = Kept(W, m, D)
<1>1. ASSUME NEW x \in Every(V) PROVE x \in Kept(W, m, D)
  <2>1. PICK k \in Machines : \E t \in DOMAIN V[k] : x = V[k][t].scope /\ x # 0
    BY <1>1, EveryIs, Zenon
  <2>2. PICK t \in DOMAIN V[k] : x = V[k][t].scope /\ x # 0
    BY <2>1, Zenon
  <2>3. t \in DOMAIN W[k] /\ V[k][t] = W[k][t] /\ (k = m => t \notin D)
    BY Zenon
  <2>4. \E i \in Machines : \E u \in DOMAIN W[i] : (i = m => u \notin D) /\ x = W[i][u].scope /\ x # 0
    BY <2>2, <2>3, Zenon
  <2> QED BY <2>4, KeptIs, Zenon
<1>2. ASSUME NEW x \in Kept(W, m, D) PROVE x \in Every(V)
  <2>1. PICK k \in Machines : \E t \in DOMAIN W[k] : (k = m => t \notin D) /\ x = W[k][t].scope /\ x # 0
    BY <1>2, KeptIs
  <2>2. PICK t \in DOMAIN W[k] : (k = m => t \notin D) /\ x = W[k][t].scope /\ x # 0
    BY <2>1, Zenon
  <2>3. t \in DOMAIN V[k] /\ V[k][t] = W[k][t]
    BY <2>2, Zenon
  <2>4. \E i \in Machines : \E u \in DOMAIN V[i] : x = V[i][u].scope /\ x # 0
    BY <2>2, <2>3, Zenon
  <2> QED BY <2>4, EveryIs, Zenon
<1> QED BY <1>1, <1>2, Zenon

(* Two entries that differ only in whether a choice uses them. *)
Alike(e, f) == e.scope = f.scope /\ e.kind = f.kind /\ e.ready = f.ready /\ e.kids = f.kids

(* A table with one more entry. *)
LEMMA SoundMore ==
  ASSUME NEW W, NEW O, Sound(W, O), NEW V, NEW m \in Machines, NEW n, n \notin DOMAIN W[m],
         \A k \in Machines \ {m} : V[k] = W[k],
         DOMAIN V[m] = DOMAIN W[m] \cup {n},
         \A t \in DOMAIN W[m] : Alike(V[m][t], W[m][t]),
         NEW x, V[m][n].scope = x, Shape(V[m][n]),
         x # 0 => x \notin Every(W) /\ x \notin O
  PROVE  Sound(V, O) /\ Every(V) = Every(W) \cup ({x} \ {0})
<1>1. ASSUME NEW k \in Machines, NEW t \in DOMAIN V[k]
      PROVE  (k = m /\ t = n) \/ (t \in DOMAIN W[k] /\ Alike(V[k][t], W[k][t]))
  BY DEF Alike
<1>2. ASSUME NEW k \in Machines, NEW t \in DOMAIN W[k]
      PROVE  t \in DOMAIN V[k] /\ V[k][t].scope = W[k][t].scope
  BY Zenon DEF Alike
<1>3. \A k \in Machines : \A t \in DOMAIN V[k] : Shape(V[k][t])
  <2>1. ASSUME NEW k \in Machines, NEW t \in DOMAIN V[k] PROVE Shape(V[k][t])
    <3>1. CASE k = m /\ t = n
      BY <3>1, Zenon
    <3>2. CASE t \in DOMAIN W[k] /\ Alike(V[k][t], W[k][t])
      <4>1. Shape(W[k][t])
        BY <3>2, Zenon DEF Sound
      <4> QED BY <3>2, <4>1, Zenon DEF Shape, Alike
    <3> QED BY <1>1, <3>1, <3>2, Zenon
  <2> QED BY <2>1, Zenon
<1>4. ASSUME NEW k \in Machines, NEW t \in DOMAIN W[k], x = W[k][t].scope, x # 0 PROVE FALSE
  BY <1>4, EveryIs, Zenon
<1>5. ASSUME NEW k \in Machines, NEW j \in Machines, NEW t \in DOMAIN V[k], NEW u \in DOMAIN V[j],
             V[k][t].scope # 0, V[k][t].scope = V[j][u].scope
      PROVE  k = j /\ t = u
  <2>1. CASE k = m /\ t = n
    <3>1. CASE j = m /\ u = n
      BY <2>1, <3>1, Zenon
    <3>2. CASE u \in DOMAIN W[j] /\ Alike(V[j][u], W[j][u])
      BY <1>4, <1>5, <2>1, <3>2, Zenon DEF Alike
    <3> QED BY <1>1, <3>1, <3>2, Zenon
  <2>2. CASE t \in DOMAIN W[k] /\ Alike(V[k][t], W[k][t])
    <3>1. CASE j = m /\ u = n
      BY <1>4, <1>5, <2>2, <3>1, ZenonT(30) DEF Alike
    <3>2. CASE u \in DOMAIN W[j] /\ Alike(V[j][u], W[j][u])
      <4>1. /\ t \in DOMAIN W[k] /\ u \in DOMAIN W[j]
            /\ W[k][t].scope # 0 /\ W[k][t].scope = W[j][u].scope
        BY <1>5, <2>2, <3>2, Zenon DEF Alike
      <4> QED BY <4>1, SoundApart
    <3> QED BY <1>1, <3>1, <3>2, Zenon
  <2> QED BY <1>1, <2>1, <2>2, Zenon
<1>6. ASSUME NEW k \in Machines, NEW t \in DOMAIN V[k], V[k][t].scope # 0
      PROVE  V[k][t].scope \notin O
  <2>1. CASE k = m /\ t = n
    BY <1>6, <2>1, Zenon
  <2>2. CASE t \in DOMAIN W[k] /\ Alike(V[k][t], W[k][t])
    BY <1>6, <2>2, Zenon DEF Alike, Sound
  <2> QED BY <1>1, <2>1, <2>2, Zenon
<1>7. Sound(V, O)
  BY <1>3, <1>5, <1>6, ZenonT(30) DEF Sound
<1>8. ASSUME NEW y \in Every(V) PROVE y \in Every(W) \cup ({x} \ {0})
  <2>1. PICK k \in Machines : \E t \in DOMAIN V[k] : y = V[k][t].scope /\ y # 0
    BY <1>8, EveryIs, Zenon
  <2>2. PICK t \in DOMAIN V[k] : y = V[k][t].scope /\ y # 0
    BY <2>1, Zenon
  <2>3. CASE k = m /\ t = n
    BY <2>2, <2>3, Zenon
  <2>4. CASE t \in DOMAIN W[k] /\ Alike(V[k][t], W[k][t])
    <3>1. \E i \in Machines : \E u \in DOMAIN W[i] : y = W[i][u].scope /\ y # 0
      BY <2>2, <2>4, Zenon DEF Alike
    <3> QED BY <3>1, EveryIs, Zenon
  <2> QED BY <1>1, <2>3, <2>4, Zenon
<1>9. ASSUME NEW y \in Every(W) PROVE y \in Every(V)
  <2>1. PICK k \in Machines : \E t \in DOMAIN W[k] : y = W[k][t].scope /\ y # 0
    BY <1>9, EveryIs, Zenon
  <2>2. \E t \in DOMAIN V[k] : y = V[k][t].scope /\ y # 0
    BY <1>2, <2>1, Zenon
  <2> QED BY <2>2, EveryIs, Zenon
<1>10. x # 0 => x \in Every(V)
  <2>1. n \in DOMAIN V[m]
    BY Zenon
  <2>2. x # 0 => \E i \in Machines : \E u \in DOMAIN V[i] : x = V[i][u].scope /\ x # 0
    BY <2>1, Zenon
  <2> QED BY <2>2, EveryIs, Zenon
<1> QED BY <1>7, <1>8, <1>9, <1>10, ZenonT(30)

----------------------------------------------------------------------------
(* The waits that operation b takes out of the tables W when it ends.        *)
Gone(b, W) ==
  IF b.then = "close" THEN DOMAIN W[b.vm]
  ELSE IF b.root # 0 THEN Tree(W[b.vm], b.root) ELSE {}

(* The host knows, besides the tokens of waits that stay, those operation b  *)
(* has still to call for; c is the one it calls for now.                     *)
JobSound(b, W, O, S, c, late) ==
  /\ GoodCalls(b.calls)
  /\ Tokens(b.calls) \cap (Kept(W, b.vm, Gone(b, W)) \cup O) = {}
  /\ S = Kept(W, b.vm, Gone(b, W)) \cup O \cup (Tokens(b.calls) \ {c})
  /\ b.ok \/ late
  /\ b.root # 0 <=> b.then \in {"select", "cancel"}

(* An operation without calls. *)
LEMMA NoCalls == GoodCalls(<<>>) /\ Tokens(<<>>) = {} /\ Commits(<<>>) = {}
<1>1. <<>> \in Seq(Tells) /\ DOMAIN <<>> = {}
  OBVIOUS
<1> QED BY <1>1, Zenon DEF GoodCalls, Tokens, Commits, Range

(* No operation is under way: the host knows the tokens in the tables, and   *)
(* those that procs left when they ended.                                    *)
LEMMA IdleSound ==
  ASSUME NEW W, NEW O, NEW S, NEW c, NEW late
  PROVE  JobSound(NoJob, W, O, S, c, late) <=> S = Every(W) \cup O
<1>1. /\ NoJob.calls = <<>> /\ NoJob.then = "none" /\ NoJob.root = 0 /\ NoJob.vm = 0 /\ NoJob.ok
  BY Zenon DEF NoJob
<1>2. Gone(NoJob, W) = {}
  <2>1. NoJob.then # "close"
    BY <1>1
  <2> QED BY <1>1, <2>1, Zenon DEF Gone
<1>3. NoJob.then \notin {"select", "cancel"}
  BY <1>1
<1> QED BY <1>1, <1>2, <1>3, NoCalls, Zenon DEF JobSound, Every

(* An operation that calls the host starts. *)
LEMMA StartSound ==
  ASSUME NEW W, NEW O, Sound(W, O), NEW m \in Machines, NEW b, b.vm = m, b.ok,
         GoodCalls(b.calls), NEW D \in SUBSET DOMAIN W[m], Gone(b, W) = D,
         Tokens(b.calls) = Scp(W[m], D),
         b.root # 0 <=> b.then \in {"select", "cancel"},
         NEW c, c \notin Tokens(b.calls), NEW late
  PROVE  JobSound(b, W, O, Every(W) \cup O, c, late)
<1>1. /\ Every(W) = Kept(W, m, D) \cup Scp(W[m], D)
      /\ Scp(W[m], D) \cap (Kept(W, m, D) \cup O) = {}
  BY KeptSplit
<1>2. Tokens(b.calls) \ {c} = Tokens(b.calls)
  BY Zenon
<1>3. Every(W) \cup O = Kept(W, m, D) \cup O \cup Tokens(b.calls)
  BY <1>1, Zenon
<1> QED BY <1>1, <1>2, <1>3, Zenon DEF JobSound

(* Calls are about tokens. *)
LEMMA ZeroIsNoToken == ASSUME NEW q, GoodCalls(q) PROVE 0 \notin Tokens(q)
<1>1. q \in Seq(Tells)
  BY Zenon DEF GoodCalls
<1>2. ASSUME NEW c \in Range(q) PROVE c.token # 0
  <2>1. c \in Tells
    BY <1>1 DEF Range
  <2> QED BY <2>1 DEF Tells
<1> QED BY <1>2, Zenon DEF Tokens

(* The host tokens of a tree. *)
LEMMA ScopesOfTree ==
  ASSUME NEW w, NEW root PROVE Scp(w, Tree(w, root)) = TreeScopes(w, root)
BY Zenon DEF Scp, TreeScopes

(* One of the tables. *)
LEMMA SoundOne ==
  ASSUME NEW W, NEW O, Sound(W, O), NEW m \in Machines PROVE SoundTable(W[m])
<1>1. \A t \in DOMAIN W[m] : Shape(W[m][t])
  BY Zenon DEF Sound
<1>2. ASSUME NEW t \in DOMAIN W[m], NEW u \in DOMAIN W[m],
             W[m][t].scope # 0, W[m][t].scope = W[m][u].scope
      PROVE  t = u
  <2>1. \A i, j \in Machines : \A a \in DOMAIN W[i] : \A b \in DOMAIN W[j] :
       W[i][a].scope # 0 /\ W[i][a].scope = W[j][b].scope => i = j /\ a = b
    BY Zenon DEF Sound
  <2>2. \A a, b \in DOMAIN W[m] : W[m][a].scope # 0 /\ W[m][a].scope = W[m][b].scope => a = b
    BY <2>1, Zenon
  <2> QED BY <1>2, <2>2, Zenon
<1> QED BY <1>1, <1>2, Zenon DEF SoundTable

(* The operations that call the host. *)
LEMMA SelectSound ==
  ASSUME NEW W, NEW O, Sound(W, O), NEW m \in Machines, W[m] \in Tables, Forest(W[m]),
         NEW n \in Nat, DOMAIN W[m] \subseteq 1..n, NEW root \in DOMAIN W[m],
         NEW i \in DOMAIN Leaves(W[m], root), NEW b, NEW late,
         b.calls = SelectCalls(W[m], root, i),
         b.vm = m, b.root = root, b.then = "select", b.ok
  PROVE  /\ JobSound(b, W, O, Every(W) \cup O, 0, late)
         /\ Commits(b.calls) = {W[m][Leaves(W[m], root)[i]].scope} \ {0}
<1> DEFINE w == W[m]
           x == w[Leaves(w, root)[i]].scope
<1>0. SoundTable(w)
  BY SoundOne, Zenon
<1>1. GoodCalls(b.calls) /\ Tokens(b.calls) = TreeScopes(w, root) /\ Commits(b.calls) = {x} \ {0}
  <2> DEFINE q == SelectCalls(w, root, i)
  <2>1. /\ w \in Tables /\ Forest(w) /\ DOMAIN w \subseteq 1..n /\ root \in DOMAIN w
        /\ i \in DOMAIN Leaves(w, root) /\ b.calls = q
    BY ZenonT(30)
  <2> HIDE DEF w
  <2>2. GoodCalls(q) /\ Tokens(q) = TreeScopes(w, root) /\ Commits(q) = {x} \ {0}
    BY <1>0, <2>1, SelectTree, SMTT(30)
  <2> HIDE DEF q, x
  <2> QED BY <2>1, <2>2, Zenon
<1>2. Gone(b, W) = Tree(w, root) /\ Tree(w, root) \in SUBSET DOMAIN w
  <2>1. b.then # "close" /\ root # 0
    <3>1. root \in 1..n
      BY Zenon
    <3> QED BY <3>1
  <2> QED BY <2>1, Zenon DEF Gone, Tree
<1>3. b.root # 0 <=> b.then \in {"select", "cancel"}
  <2>1. root \in 1..n
    BY Zenon
  <2>2. root # 0
    BY <2>1
  <2> QED BY <2>2, Zenon
<1>4. 0 \notin Tokens(b.calls)
  BY <1>1, ZeroIsNoToken, Zenon
<1>5. Tokens(b.calls) = Scp(w, Tree(w, root))
  BY <1>1, ScopesOfTree, Zenon
<1> HIDE DEF w
<1>6. JobSound(b, W, O, Every(W) \cup O, 0, late)
  BY <1>1, <1>2, <1>3, <1>4, <1>5, StartSound, Zenon DEF w
<1> QED BY <1>1, <1>6, Zenon DEF w

(* The calls that cancel the waits ts of the table w. *)
CancelsOf(w, ts) ==
  LET s == Scopes(w, ts) IN [j \in DOMAIN s |-> Cancel(s[j])]

(* The tokens of a table in the order they were made. *)
InOrder(w, n) == Joined([t \in 1..n |-> IF t \in DOMAIN w THEN <<t>> ELSE <<>>], n)

(* A cancel of the tree of root. *)
LEMMA CancelSound ==
  ASSUME NEW W, NEW O, Sound(W, O), NEW m \in Machines, W[m] \in Tables, Forest(W[m]),
         NEW n \in Nat, DOMAIN W[m] \subseteq 1..n, NEW root \in DOMAIN W[m], NEW b, NEW late,
         b.calls = CancelsOf(W[m], Leaves(W[m], root)),
         b.vm = m, b.root = root, b.then = "cancel", b.ok
  PROVE  JobSound(b, W, O, Every(W) \cup O, 0, late) /\ Commits(b.calls) = {}
<1> DEFINE w == W[m]
<1>0. SoundTable(w)
  BY SoundOne, Zenon
<1>1. GoodCalls(b.calls) /\ Tokens(b.calls) = TreeScopes(w, root) /\ Commits(b.calls) = {}
  <2> DEFINE s == Scopes(w, Leaves(w, root))
             q == [j \in DOMAIN s |-> Cancel(s[j])]
  <2>1. /\ w \in Tables /\ Forest(w) /\ DOMAIN w \subseteq 1..n /\ root \in DOMAIN w
        /\ b.calls = q
    BY Zenon DEF CancelsOf
  <2> HIDE DEF w
  <2>2. GoodCalls(q) /\ Tokens(q) = TreeScopes(w, root) /\ Commits(q) = {}
    BY <1>0, <2>1, CancelTree, Zenon
  <2> HIDE DEF q
  <2> QED BY <2>1, <2>2, Zenon
<1>2. Gone(b, W) = Tree(w, root) /\ Tree(w, root) \in SUBSET DOMAIN w
  <2>1. b.then # "close" /\ root # 0
    <3>1. root \in 1..n
      BY Zenon
    <3> QED BY <3>1
  <2> QED BY <2>1, Zenon DEF Gone, Tree
<1>3. b.root # 0 <=> b.then \in {"select", "cancel"}
  <2>1. root \in 1..n
    BY Zenon
  <2>2. root # 0
    BY <2>1
  <2> QED BY <2>2, Zenon
<1>4. 0 \notin Tokens(b.calls)
  BY <1>1, ZeroIsNoToken, Zenon
<1>5. Tokens(b.calls) = Scp(w, Tree(w, root))
  BY <1>1, ScopesOfTree, Zenon
<1> HIDE DEF w
<1>6. JobSound(b, W, O, Every(W) \cup O, 0, late)
  BY <1>1, <1>2, <1>3, <1>4, <1>5, StartSound, Zenon DEF w
<1> QED BY <1>1, <1>6, Zenon

(* A machine that ends cancels all its reads. *)
LEMMA CloseSound ==
  ASSUME NEW W, NEW O, Sound(W, O), NEW m \in Machines, W[m] \in Tables,
         NEW n \in Nat, DOMAIN W[m] \subseteq 1..n, NEW b, NEW late,
         b.calls = CancelsOf(W[m], InOrder(W[m], n)),
         b.vm = m, b.root = 0, b.then = "close", b.ok
  PROVE  JobSound(b, W, O, Every(W) \cup O, 0, late) /\ Commits(b.calls) = {}
<1> DEFINE w == W[m]
           ts == Joined([t \in 1..n |-> IF t \in DOMAIN w THEN <<t>> ELSE <<>>], n)
           s == Scopes(w, ts)
<1>0. SoundTable(w)
  BY SoundOne, Zenon
<1> HIDE DEF w
<1>1. ts \in Seq(DOMAIN w) /\ Range(ts) = DOMAIN w /\ IsInjective(ts)
  BY TokensInOrder, Zenon DEF w
<1> HIDE DEF ts
<1>2. s \in Seq(Nat \ {0}) /\ Range(s) = Scp(w, DOMAIN w) /\ IsInjective(s)
  <2>1. \A t, u \in DOMAIN w : w[t].scope # 0 /\ w[t].scope = w[u].scope => t = u
    BY <1>0, Zenon DEF SoundTable
  <2>2. w \in Tables
    BY Zenon DEF w
  <2>3. s \in Seq(Nat \ {0}) /\ Range(s) = {w[t].scope : t \in Range(ts)} \ {0} /\ IsInjective(s)
    BY <1>1, <2>1, <2>2, ScopesFacts, Zenon
  <2> HIDE DEF s
  <2> QED BY <1>1, <2>3, Zenon DEF Scp
<1>3. b.calls = [j \in DOMAIN s |-> Cancel(s[j])]
  BY Zenon DEF s, ts, w, CancelsOf, InOrder
<1> HIDE DEF s
<1>4. GoodCalls(b.calls) /\ Tokens(b.calls) = Range(s) /\ Commits(b.calls) = {}
  <2>1. LET q == [j \in DOMAIN s |-> Cancel(s[j])]
        IN GoodCalls(q) /\ Tokens(q) = Range(s) /\ Commits(q) = {}
    BY <1>2, CancelCalls, Zenon
  <2> QED BY <1>3, <2>1, Zenon
<1>5. Gone(b, W) = DOMAIN w /\ DOMAIN w \in SUBSET DOMAIN w
  BY Zenon DEF Gone, w
<1>6. b.then \notin {"select", "cancel"}
  BY Zenon
<1>7. 0 \notin Tokens(b.calls)
  BY <1>4, ZeroIsNoToken, Zenon
<1>8. Tokens(b.calls) = Scp(w, DOMAIN w)
  BY <1>2, <1>4, Zenon
<1>9. JobSound(b, W, O, Every(W) \cup O, 0, late)
  BY <1>4, <1>5, <1>6, <1>7, <1>8, StartSound, Zenon DEF w
<1> QED BY <1>4, <1>9, Zenon

(* A read that the table has no room for. *)
LEMMA LimitSound ==
  ASSUME NEW W, NEW O, NEW m, NEW t \in Nat \ {0}, t \notin Every(W) \cup O, NEW late
  PROVE  /\ JobSound(LimitJob(m, t), W, O, Every(W) \cup O \cup {t}, 0, late)
         /\ Commits(LimitJob(m, t).calls) = {}
<1> DEFINE b == LimitJob(m, t)
           q == <<Cancel(t)>>
<1>1. b.calls = q /\ b.vm = m /\ b.then = "limit" /\ b.root = 0 /\ b.ok
  BY Zenon DEF LimitJob, NoJob
<1> HIDE DEF b
<1>2. Cancel(t) \in Tells /\ Cancel(t).token = t /\ Cancel(t).do = "cancel"
  BY Zenon DEF Cancel, Tells
<1> DEFINE c == Cancel(t)
<1> HIDE DEF c
<1>3. <<c>> \in Seq(Tells) /\ DOMAIN <<c>> = {1} /\ Range(<<c>>) = {c}
  <2>1. c \in Tells
    BY <1>2, Zenon DEF c
  <2> QED BY <2>1 DEF Range
<1>4. GoodCalls(q) /\ Tokens(q) = {t} /\ Commits(q) = {}
  <2>1. GoodCalls(<<c>>)
    BY <1>3, Zenon DEF GoodCalls
  <2>2. Tokens(<<c>>) = {t}
    BY <1>2, <1>3, Zenon DEF Tokens, c
  <2>3. Commits(<<c>>) = {}
    <3>1. c.do # "commit"
      BY <1>2 DEF c
    <3> QED BY <1>3, <3>1, Zenon DEF Commits
  <2> QED BY <2>1, <2>2, <2>3, Zenon DEF c
<1>5. b.then # "close" /\ b.then \notin {"select", "cancel"}
  BY <1>1
<1>6. Gone(b, W) = {}
  BY <1>1, <1>5, Zenon DEF Gone
<1>7. Kept(W, m, {}) = Every(W)
  <2>1. ASSUME NEW x PROVE x \in Kept(W, m, {}) <=> x \in Every(W)
    <3>1. x \in Kept(W, m, {}) <=>
           \E k \in Machines : \E u \in DOMAIN W[k] :
              (k = m => u \notin {}) /\ x = W[k][u].scope /\ x # 0
      BY KeptIs, Zenon
    <3>2. x \in Every(W) <=>
           \E k \in Machines : \E u \in DOMAIN W[k] : x = W[k][u].scope /\ x # 0
      BY EveryIs, Zenon
    <3> QED BY <3>1, <3>2, Zenon
  <2> QED BY <2>1, Zenon
<1>8. Tokens(q) \ {0} = {t} /\ {t} \cap (Every(W) \cup O) = {}
  BY <1>4, Zenon
<1> HIDE DEF q
<1>9. JobSound(b, W, O, Every(W) \cup O \cup {t}, 0, late)
  BY <1>1, <1>4, <1>5, <1>6, <1>7, <1>8, Zenon DEF JobSound
<1> QED BY <1>1, <1>4, <1>9, Zenon DEF b

----------------------------------------------------------------------------
(* What is inductive beside TInv: the channel to the input service, the call *)
(* under way, the tokens in the tables, and what the operation under way     *)
(* still has to do for the tables and the host to agree.                     *)
DInv ==
  /\ CInv /\ Asked /\ Sound(waits, orphaned)
  /\ JobSound(job, waits, orphaned, wait_services, call.token, slow)

(* The inductive invariant. *)
KInv == TInv /\ DInv

(* Nothing is taken out. *)
LEMMA KeptNone ==
  ASSUME NEW W, NEW m PROVE Kept(W, m, {}) = Every(W)
<1>1. ASSUME NEW x PROVE x \in Kept(W, m, {}) <=> x \in Every(W)
  <2>1. x \in Kept(W, m, {}) <=>
         \E k \in Machines : \E u \in DOMAIN W[k] :
            (k = m => u \notin {}) /\ x = W[k][u].scope /\ x # 0
    BY KeptIs, Zenon
  <2>2. x \in Every(W) <=>
         \E k \in Machines : \E u \in DOMAIN W[k] : x = W[k][u].scope /\ x # 0
    BY EveryIs, Zenon
  <2> QED BY <2>1, <2>2, Zenon
<1> QED BY <1>1, Zenon

(* Between two operations. *)
LEMMA IdleFacts ==
  ASSUME KInv, job = NoJob
  PROVE  /\ wait_services = Every(waits) \cup orphaned /\ call.token = 0
         /\ job.calls = <<>> /\ Calls = {}
<1>1. job.calls = <<>>
  BY Zenon DEF NoJob
<1>2. call.token = 0
  BY <1>1, Zenon DEF KInv, DInv, Asked
<1>3. Calls = {}
  BY <1>1, NoCalls, Zenon DEF Calls
<1>4. JobSound(NoJob, waits, orphaned, wait_services, call.token, slow)
  BY Zenon DEF KInv, DInv
<1>5. wait_services = Every(waits) \cup orphaned
  BY <1>4, IdleSound, Zenon
<1> QED BY <1>1, <1>2, <1>3, <1>5, Zenon

(* A machine ends, or the operation that ends takes the waits D with it.     *)
LEMMA EndsTables ==
  ASSUME WInv, NEW m \in Machines, Sound(waits, orphaned), NEW D \in SUBSET DOMAIN waits[m],
         NEW w, DOMAIN w = DOMAIN waits[m] \ D, \A t \in DOMAIN w : w[t] = waits[m][t],
         NEW how, Ends(m, how, w), wait_services = Kept(waits, m, D) \cup orphaned
  PROVE  Sound(waits', orphaned') /\ wait_services = Every(waits') \cup orphaned'
<1> DEFINE v == IF m \in Procs THEN <<>> ELSE w
<1>1. waits' = [waits EXCEPT ![m] = v]
  BY Zenon DEF Ends
<1>2. \A k \in Machines \ {m} : waits'[k] = waits[k]
  BY <1>1, Zenon DEF WInv, WTypes
<1>3. waits'[m] = v
  BY <1>1, Zenon DEF WInv, WTypes
<1>4. CASE m \notin Procs
  <2>1. orphaned' = orphaned /\ waits'[m] = w
    BY <1>3, <1>4, ZenonT(30) DEF Ends
  <2>2. Every(waits') = Kept(waits, m, D)
    <3>1. /\ DOMAIN waits'[m] = DOMAIN waits[m] \ D
          /\ \A t \in DOMAIN waits'[m] : waits'[m][t] = waits[m][t]
      BY <2>1, Zenon
    <3> QED BY <1>2, <3>1, EveryLess, SMTT(30)
  <2>3. /\ \A k \in Machines : DOMAIN waits'[k] \subseteq DOMAIN waits[k]
        /\ \A k \in Machines : \A t \in DOMAIN waits'[k] : waits'[k][t] = waits[k][t]
    BY <1>2, <2>1, Zenon
  <2>4. Sound(waits', orphaned)
    BY <2>3, SoundLess, ZenonT(30)
  <2> QED BY <2>1, <2>2, <2>4, Zenon
<1>5. CASE m \in Procs
  <2> DEFINE A == DOMAIN waits[m]
  <2>1. /\ orphaned' = orphaned \cup (ScopeSet(w) \cap wait_services)
        /\ waits'[m] = <<>> /\ DOMAIN <<>> = {}
    <3>1. DOMAIN <<>> = {}
      BY SMTT(30)
    <3> QED BY <1>3, <1>5, <3>1, Zenon DEF Ends
  <2>2. Every(waits') = Kept(waits, m, A)
    <3>1. DOMAIN waits'[m] = A \ A /\ \A t \in DOMAIN waits'[m] : waits'[m][t] = waits[m][t]
      BY <2>1, Zenon
    <3> QED BY <1>2, <3>1, EveryLess, SMTT(30)
  <2>3. Scp(waits[m], A) \cap (Kept(waits, m, A) \cup orphaned) = {}
    BY KeptSplit
  <2>4. ScopeSet(w) \subseteq Scp(waits[m], A)
    <3>1. ASSUME NEW x \in ScopeSet(w) PROVE x \in Scp(waits[m], A)
      <4>1. PICK t \in DOMAIN w : x = w[t].scope /\ x # 0
        BY <3>1, Zenon DEF ScopeSet
      <4>2. t \in A /\ x = waits[m][t].scope
        BY <4>1, Zenon
      <4> QED BY <4>1, <4>2, Zenon DEF Scp
    <3> QED BY <3>1, Zenon
  <2>5. Kept(waits, m, D) = Kept(waits, m, A) \cup ScopeSet(w)
    <3>1. ASSUME NEW x \in Kept(waits, m, D) PROVE x \in Kept(waits, m, A) \cup ScopeSet(w)
      <4>1. PICK k \in Machines : \E t \in DOMAIN waits[k] :
                 (k = m => t \notin D) /\ x = waits[k][t].scope /\ x # 0
        BY <3>1, KeptIs, SMTT(30)
      <4>2. PICK t \in DOMAIN waits[k] : (k = m => t \notin D) /\ x = waits[k][t].scope /\ x # 0
        BY <4>1, Zenon
      <4>3. CASE k = m
        <5>1. t \in DOMAIN w /\ x = w[t].scope
          BY <4>2, <4>3, Zenon
        <5> QED BY <4>2, <5>1, Zenon DEF ScopeSet
      <4>4. CASE k # m
        <5>1. \E i \in Machines : \E u \in DOMAIN waits[i] :
                 (i = m => u \notin A) /\ x = waits[i][u].scope /\ x # 0
          BY <4>2, <4>4, Zenon
        <5> QED BY <5>1, KeptIs, Zenon
      <4> QED BY <4>3, <4>4, Zenon
    <3>2. ASSUME NEW x \in Kept(waits, m, A) PROVE x \in Kept(waits, m, D)
      <4>1. PICK k \in Machines : \E t \in DOMAIN waits[k] :
                 (k = m => t \notin A) /\ x = waits[k][t].scope /\ x # 0
        BY <3>2, KeptIs, SMTT(30)
      <4>2. \E t \in DOMAIN waits[k] : (k = m => t \notin D) /\ x = waits[k][t].scope /\ x # 0
        BY <4>1, Zenon
      <4> QED BY <4>2, KeptIs, Zenon
    <3>3. ASSUME NEW x \in ScopeSet(w) PROVE x \in Kept(waits, m, D)
      <4>1. PICK t \in DOMAIN w : x = w[t].scope /\ x # 0
        BY <3>3, Zenon DEF ScopeSet
      <4>2. t \in DOMAIN waits[m] /\ t \notin D /\ x = waits[m][t].scope /\ x # 0
        BY <4>1, Zenon
      <4>3. \E i \in Machines : \E u \in DOMAIN waits[i] :
                 (i = m => u \notin D) /\ x = waits[i][u].scope /\ x # 0
        BY <4>2, Zenon
      <4> QED BY <4>3, KeptIs, Zenon
    <3> QED BY <3>1, <3>2, <3>3, Zenon
  <2>6. /\ \A k \in Machines : DOMAIN waits'[k] \subseteq DOMAIN waits[k]
        /\ \A k \in Machines : \A t \in DOMAIN waits'[k] : waits'[k][t] = waits[k][t]
    BY <1>2, <2>1, Zenon
  <2> HIDE DEF A
  <2>7. \A x \in orphaned' : x \in orphaned \/ x \notin Every(waits')
    BY <2>1, <2>2, <2>3, <2>4, Zenon
  <2>8. Sound(waits', orphaned')
    BY <2>6, <2>7, SoundLess, SMTT(30)
  <2>9. wait_services = Every(waits') \cup orphaned'
    BY <2>1, <2>2, <2>5, ZenonT(30)
  <2> QED BY <2>8, <2>9, Zenon
<1> QED BY <1>4, <1>5, Zenon

(* An entry is added, with a new host token or none. *)
LEMMA AllocTables ==
  ASSUME WInv, NEW m \in Machines, Sound(waits, orphaned), NEW e, Allocates(m, e), Shape(e),
         e.scope # 0 => e.scope \notin Every(waits) /\ e.scope \notin orphaned
  PROVE  /\ Sound(waits', orphaned)
         /\ Every(waits') = Every(waits) \cup ({e.scope} \ {0})
<1> DEFINE n == next_wait[m]
<1>1. waits' = [waits EXCEPT ![m] = WithWait(m, e)] /\ waits \in [Machines -> Tables]
  BY Zenon DEF Allocates, WInv, WTypes
<1>2. waits'[m] = WithWait(m, e) /\ \A k \in Machines \ {m} : waits'[k] = waits[k]
  BY <1>1, Zenon
<1>3. n \notin DOMAIN waits[m]
  <2>1. n \in Nat /\ DOMAIN waits[m] \subseteq 1..(n - 1)
    BY Zenon DEF WInv, WTypes, GoodTable
  <2> HIDE DEF n
  <2> QED BY <2>1
<1>4. DOMAIN waits'[m] = DOMAIN waits[m] \cup {n} /\ waits'[m][n] = e
  BY <1>2, Zenon DEF WithWait
<1>5. ASSUME NEW t \in DOMAIN waits[m] PROVE Alike(waits'[m][t], waits[m][t])
  <2>1. waits[m][t] \in Entries
    BY <1>1, TableEntries, Zenon
  <2>2. waits'[m][t] = IF t \in Range(e.kids) THEN [waits[m][t] EXCEPT !.linked = TRUE] ELSE waits[m][t]
    BY <1>2, <1>3, Zenon DEF WithWait
  <2>3. CASE t \in Range(e.kids)
    <3>1. waits'[m][t] = [waits[m][t] EXCEPT !.linked = TRUE]
      BY <2>2, <2>3, Zenon
    <3> QED BY <2>1, <3>1, Zenon DEF Entries, Alike
  <2>4. CASE t \notin Range(e.kids)
    BY <2>2, <2>4, Zenon DEF Alike
  <2> QED BY <2>3, <2>4, Zenon
<1> HIDE DEF n
<1> QED BY <1>2, <1>3, <1>4, <1>5, SoundMore, SMTT(30)

----------------------------------------------------------------------------
(* A step of the world that sends no command and whose calls commit only     *)
(* answers that had arrived.                                                 *)
LEMMA QuietChannel ==
  ASSUME KInv, job = NoJob, UNCHANGED <<inputVars, wait_services>>,
         next_token' \in {next_token, next_token + 1},
         DOMAIN host_completions' \subseteq DOMAIN host_completions,
         Calls' \subseteq DOMAIN host_completions
  PROVE  CInv' /\ Asked'
<1>1. /\ UNCHANGED <<commands, pending, retained, ready, call>> /\ CInv /\ Asked
      /\ next_token \in Nat
  BY Zenon DEF inputVars, KInv, DInv, TInv, TokenTypes
<1>2. (\E S : ready' \in Seq(S)) /\ Answering' = Answering
  BY <1>1, Zenon DEF CInv, Answering
<1>3. Given \subseteq Given'
  <2>1. CASE next_token' = next_token
    BY <2>1, Zenon DEF Given
  <2>2. CASE next_token' = next_token + 1
    BY <1>1, <2>2, SMTT(30) DEF Given
  <2> QED BY <2>1, <2>2, Zenon
<1>4. DOMAIN host_completions' \cup Answering' \cup Calls'
         \subseteq DOMAIN host_completions \cup Answering \cup Calls
  BY <1>2, Zenon
<1>5. CInv'
  BY <1>1, <1>2, <1>3, <1>4, ChannelStays, Zenon
<1>6. job.calls = <<>>
  BY IdleFacts, Zenon
<1> QED BY <1>1, <1>5, <1>6, AskedStays, Zenon

(* The operation is over: the host knows the tokens in the tables.           *)
LEMMA QuietStep ==
  ASSUME KInv, job = NoJob, UNCHANGED <<inputVars, wait_services, job>>,
         next_token' \in {next_token, next_token + 1},
         DOMAIN host_completions' \subseteq DOMAIN host_completions,
         Sound(waits', orphaned'), wait_services = Every(waits') \cup orphaned'
  PROVE  DInv'
<1>1. Calls' = {}
  <2>1. Calls = {}
    BY IdleFacts, Zenon
  <2> QED BY <2>1, Zenon DEF Calls
<1>2. CInv' /\ Asked'
  BY <1>1, QuietChannel, Zenon
<1>3. JobSound(job', waits', orphaned', wait_services', call'.token, slow')
  <2>1. job' = NoJob /\ wait_services' = Every(waits') \cup orphaned'
    BY Zenon
  <2>2. JobSound(NoJob, waits', orphaned', wait_services', call'.token, slow')
    BY <2>1, IdleSound, Zenon
  <2> QED BY <2>1, <2>2, Zenon
<1> QED BY <1>2, <1>3, Zenon DEF DInv

(* A selection starts. *)
LEMMA SelectStarts ==
  ASSUME KInv, job = NoJob, WInv', NEW m \in Machines, UNCHANGED <<inputVars, wait_services>>,
         next_token' = next_token,
         Sound(waits', orphaned'), wait_services = Every(waits') \cup orphaned',
         NEW w, w = waits'[m], NEW root \in DOMAIN w,
         ReadyAt(m, w, root) # {}, complete_ready_wait(m, w, root)
  PROVE  DInv'
<1> DEFINE leaves == Leaves(w, root)
           S == ReadyAt(m, w, root)
           i == Min(S)
           x == w[leaves[i]].scope
<1>1. /\ waits' \in [Machines -> Tables] /\ next_wait' \in [Machines -> Nat \ {0}]
      /\ DOMAIN waits'[m] \subseteq 1..(next_wait'[m] - 1) /\ Forest(waits'[m])
  <2>1. WTypes' /\ GoodTable(m)'
    BY Zenon DEF WInv
  <2>2. Forest(waits[m])'
    BY <2>1, Zenon DEF GoodTable
  <2> QED BY <2>1, <2>2, Zenon DEF WTypes, GoodTable
<1>2. w \in Tables /\ Forest(w) /\ next_wait'[m] - 1 \in Nat /\ DOMAIN w \subseteq 1..(next_wait'[m] - 1)
  <2>1. w \in Tables /\ Forest(w) /\ DOMAIN w \subseteq 1..(next_wait'[m] - 1)
    BY <1>1, Zenon
  <2>2. next_wait'[m] - 1 \in Nat
    BY <1>1
  <2> QED BY <2>1, <2>2, Zenon
<1>3. leaves \in Seq(DOMAIN w) /\ S \subseteq DOMAIN leaves /\ \A j \in S : LeafReady(m, w[leaves[j]])
  <2>1. leaves \in Seq(DOMAIN w)
    <3> DEFINE n == next_wait'[m] - 1
    <3>1. n \in Nat /\ DOMAIN w \subseteq 1..n
      BY <1>2, Zenon
    <3> HIDE DEF n
    <3> QED BY <1>2, <3>1, LeavesFacts, Zenon
  <2> QED BY <2>1, Zenon DEF ReadyAt
<1>4. i \in S
  <2>1. S \in SUBSET Nat
    <3> HIDE DEF leaves, S
    <3>1. DOMAIN leaves \subseteq Nat
      BY <1>3
    <3> QED BY <1>3, <3>1, Zenon
  <2>2. \E j \in S : \A k \in S : j <= k
    <3> HIDE DEF S
    <3>1. S # {}
      BY Zenon DEF S
    <3> QED BY <2>1, <3>1, Smallest, Zenon
  <2> HIDE DEF S
  <2> QED BY <2>2, Zenon DEF Min
<1>5. /\ job'.calls = SelectCalls(w, root, i) /\ job'.vm = m /\ job'.root = root
      /\ job'.then = "select" /\ job'.ok
      /\ DOMAIN host_completions' \subseteq DOMAIN host_completions
  <2>1. job' = [vm |-> m, root |-> root, then |-> "select", ok |-> TRUE,
                calls |-> SelectCalls(w, root, i),
                bytes |-> IF x = 0 THEN <<>> ELSE host_completions[x]]
    BY Zenon DEF complete_ready_wait, SelectCalls
  <2>2. PICK R : host_completions' = [t \in DOMAIN host_completions \ R |-> host_completions[t]]
    BY Zenon DEF complete_ready_wait
  <2>3. DOMAIN host_completions' \subseteq DOMAIN host_completions
    BY <2>2, Zenon
  <2> HIDE DEF i, x
  <2> QED BY <2>1, <2>3, Zenon
<1>6. /\ JobSound(job', waits', orphaned', Every(waits') \cup orphaned', 0, slow')
      /\ Commits(job'.calls) = {x} \ {0}
  <2> HIDE DEF i, S
  <2>1. i \in DOMAIN Leaves(w, root)
    BY <1>3, <1>4, Zenon
  <2>2. PICK W, O, b, late, n : /\ W = waits' /\ O = orphaned' /\ b = job' /\ late = slow'
                                /\ n = next_wait'[m] - 1
    BY Zenon
  <2>3. /\ n \in Nat /\ Sound(W, O) /\ W[m] \in Tables /\ Forest(W[m])
        /\ DOMAIN W[m] \subseteq 1..n /\ root \in DOMAIN W[m] /\ i \in DOMAIN Leaves(W[m], root)
        /\ b.calls = SelectCalls(W[m], root, i) /\ b.vm = m /\ b.root = root
        /\ b.then = "select" /\ b.ok /\ W[m] = w
    BY <1>2, <1>5, <2>1, <2>2, Zenon
  <2>4. JobSound(b, W, O, Every(W) \cup O, 0, late)
    BY <2>3, SelectSound, Zenon
  <2>5. Commits(b.calls) = {w[Leaves(w, root)[i]].scope} \ {0}
    <3>1. SoundTable(w)
      BY <2>3, SoundOne, Zenon
    <3>2. /\ w \in Tables /\ Forest(w) /\ n \in Nat /\ DOMAIN w \subseteq 1..n
          /\ root \in DOMAIN w /\ i \in DOMAIN Leaves(w, root)
      BY <2>3, ZenonT(30)
    <3>3. Commits(SelectCalls(w, root, i)) = {w[Leaves(w, root)[i]].scope} \ {0}
      BY <3>1, <3>2, SelectTree, SMTT(30)
    <3> QED BY <2>3, <3>3, Zenon
  <2> QED BY <2>2, <2>3, <2>4, <2>5, Zenon
<1>7. x # 0 => x \in DOMAIN host_completions
  <2> DEFINE e == w[leaves[i]]
  <2>1. LeafReady(m, e) /\ leaves[i] \in DOMAIN w
    <3>1. i \in DOMAIN leaves /\ LeafReady(m, e)
      BY <1>3, <1>4, ZenonT(30)
    <3>2. leaves[i] \in DOMAIN w
      <4> HIDE DEF leaves, S, i
      <4> QED BY <1>3, <3>1, SMTT(30)
    <3> QED BY <3>1, <3>2, Zenon
  <2>2. Shape(e)
    BY <2>1, Zenon DEF Sound
  <2> HIDE DEF e
  <2>3. e.scope # 0 => e.kind # "receive"
    BY <2>2 DEF Shape
  <2>4. e.scope # 0 => e.scope \in DOMAIN host_completions
    BY <2>1, <2>2, <2>3, Zenon DEF LeafReady, Shape
  <2> QED BY <2>4, Zenon DEF e
<1>8. Calls' \subseteq DOMAIN host_completions
  <2> HIDE DEF x
  <2>1. Calls' = {x} \ {0}
    BY <1>6, Zenon DEF Calls
  <2> QED BY <1>7, <2>1, Zenon
<1>9. CInv' /\ Asked'
  BY <1>5, <1>8, QuietChannel, Zenon
<1>10. call'.token = 0 /\ wait_services' = Every(waits') \cup orphaned'
  BY IdleFacts, Zenon DEF inputVars
<1> QED BY <1>6, <1>9, <1>10, Zenon DEF DInv

(* A machine ends and keeps its table. *)
LEMMA EndsStep ==
  ASSUME KInv, job = NoJob, NEW m \in Machines, NEW how, Ends(m, how, waits[m]),
         UNCHANGED <<inputVars, wait_services, job, host_completions>>,
         next_token' \in {next_token, next_token + 1}
  PROVE  DInv'
<1>1. WInv /\ Sound(waits, orphaned)
  BY Zenon DEF KInv, TInv, DInv
<1>2. wait_services = Kept(waits, m, {}) \cup orphaned
  BY IdleFacts, KeptNone, Zenon
<1>3. DOMAIN waits[m] = DOMAIN waits[m] \ {}
  BY Zenon
<1>4. Sound(waits', orphaned') /\ wait_services = Every(waits') \cup orphaned'
  BY <1>1, <1>2, <1>3, EndsTables, SMTT(30)
<1>5. DOMAIN host_completions' \subseteq DOMAIN host_completions
  BY Zenon
<1> QED BY <1>4, <1>5, QuietStep, Zenon

(* The operation that closes the resources of a machine. *)
LEMMA CloseJobSound ==
  ASSUME WInv, Sound(waits, orphaned), NEW m \in Machines, NEW b, b = CloseJob(m), NEW late
  PROVE  JobSound(b, waits, orphaned, Every(waits) \cup orphaned, 0, late) /\ Commits(b.calls) = {}
<1>1. PICK n : n = next_wait[m] - 1
  BY Zenon
<1>2. n \in Nat /\ waits[m] \in Tables /\ DOMAIN waits[m] \subseteq 1..n
  <2>1. /\ waits[m] \in Tables /\ next_wait[m] \in Nat \ {0}
        /\ DOMAIN waits[m] \subseteq 1..(next_wait[m] - 1)
    BY Zenon DEF WInv, WTypes, GoodTable
  <2>2. n \in Nat
    BY <1>1, <2>1, SMTT(30)
  <2> QED BY <1>1, <2>1, <2>2, Zenon
<1>3. PICK q : q = CancelsOf(waits[m], InOrder(waits[m], n))
  BY Zenon
<1>4. b = [NoJob EXCEPT !.vm = m, !.then = "close", !.calls = q]
  BY <1>1, <1>3, ZenonT(30) DEF CloseJob, CancelsOf, InOrder
<1>5. b.vm = m /\ b.root = 0 /\ b.then = "close" /\ b.ok /\ b.calls = q
  BY <1>4, Zenon DEF NoJob
<1> QED BY <1>2, <1>3, <1>5, CloseSound, Zenon

(* The answer of a direct read reaches a machine that has no room for it.    *)
LEMMA ReplyStep == ASSUME KInv, NEW m \in Machines, ReplyFaults(m) PROVE DInv'
<1>1. PICK c : TakesCompletion(c) /\ Ends(m, "faulted", waits[m])
  BY Zenon DEF ReplyFaults
<1>2. /\ job = NoJob /\ WInv /\ CInv /\ Asked /\ Sound(waits, orphaned)
      /\ wait_services = Every(waits) \cup orphaned /\ call.token = 0 /\ job.calls = <<>>
      /\ UNCHANGED <<call, wait_services>>
  BY <1>1, IdleFacts, Zenon DEF TakesCompletion, KInv, TInv, DInv
<1>3. /\ JobSound(job', waits', orphaned', wait_services, 0, slow') /\ Sound(waits', orphaned')
      /\ Calls' = {}
  <2>1. CASE m \notin Procs
    <3>1. UNCHANGED <<waits, orphaned>>
      BY <1>1, <1>2, <2>1, Zenon DEF Ends, WInv, WTypes
    <3>2. PICK b : b = CloseJob(m) /\ job' = b
      BY <2>1, Zenon DEF ReplyFaults
    <3>3. JobSound(b, waits, orphaned, wait_services, 0, slow') /\ Commits(b.calls) = {}
      BY <1>2, <3>2, CloseJobSound, Zenon
    <3> QED BY <1>2, <3>1, <3>2, <3>3, Zenon DEF Calls
  <2>2. CASE m \in Procs
    <3>1. job' = NoJob
      BY <1>2, <2>2, Zenon DEF ReplyFaults
    <3>2. PICK w, D : w = waits[m] /\ D = {}
      BY Zenon
    <3>3. /\ WInv /\ Sound(waits, orphaned) /\ Ends(m, "faulted", w) /\ D \in SUBSET DOMAIN waits[m]
          /\ DOMAIN w = DOMAIN waits[m] \ D /\ \A t \in DOMAIN w : w[t] = waits[m][t]
          /\ wait_services = Kept(waits, m, D) \cup orphaned
      BY <1>1, <1>2, <3>2, KeptNone, Zenon
    <3>4. Sound(waits', orphaned') /\ wait_services = Every(waits') \cup orphaned'
      BY <3>3, EndsTables, Zenon
    <3>5. JobSound(NoJob, waits', orphaned', wait_services, 0, slow')
      BY <3>4, IdleSound, Zenon
    <3>6. Calls' = {}
      BY <3>1, NoCalls, Zenon DEF Calls, NoJob
    <3> QED BY <3>1, <3>4, <3>5, <3>6, Zenon
  <2> QED BY <2>1, <2>2, Zenon
<1>4. CInv'
  BY <1>1, <1>2, <1>3, CompletesChannel, Zenon
<1>5. Asked'
  BY <1>2, AskedStays, Zenon
<1> QED BY <1>2, <1>3, <1>4, <1>5, Zenon DEF DInv

(* A machine faults or stops. *)
LEMMA FaultsStep ==
  ASSUME KInv, NEW m \in Machines, Acts(m), Faults(m) \/ Stops(m)
  PROVE  DInv'
<1>1. /\ job = NoJob
      /\ UNCHANGED <<inputVars, wait_services, job, host_completions>>
      /\ next_token' = next_token
      /\ \E how : Ends(m, how, waits[m])
  BY Zenon DEF Acts, Faults, Stops
<1>2. next_token' \in {next_token, next_token + 1}
  BY <1>1, Zenon
<1> QED BY <1>1, <1>2, EndsStep, Zenon

(* An entry without a host token is added. *)
LEMMA PlainTables ==
  ASSUME KInv, job = NoJob, NEW m \in Machines, NEW e, Allocates(m, e), Shape(e), e.scope = 0,
         UNCHANGED orphaned
  PROVE  Sound(waits', orphaned') /\ wait_services = Every(waits') \cup orphaned'
<1>1. WInv /\ Sound(waits, orphaned)
  BY Zenon DEF KInv, TInv, DInv
<1>2. Sound(waits', orphaned) /\ Every(waits') = Every(waits) \cup ({e.scope} \ {0})
  BY <1>1, AllocTables, Zenon
<1>3. Every(waits') = Every(waits)
  BY <1>2, Zenon
<1> QED BY <1>2, <1>3, IdleFacts, Zenon

(* A step that adds an entry without a host token and calls nothing. *)
LEMMA PlainStep ==
  ASSUME KInv, job = NoJob, NEW m \in Machines, NEW e, Allocates(m, e), Shape(e), e.scope = 0,
         UNCHANGED <<inputVars, wait_services, job, host_completions, orphaned>>,
         next_token' \in {next_token, next_token + 1}
  PROVE  DInv'
<1>1. Sound(waits', orphaned') /\ wait_services = Every(waits') \cup orphaned'
  BY PlainTables, Zenon
<1>2. DOMAIN host_completions' \subseteq DOMAIN host_completions
  BY Zenon
<1> QED BY <1>1, <1>2, QuietStep, Zenon

(* The entries that the operations make. *)
LEMMA Shapes ==
  ASSUME NEW t, NEW ks
  PROVE  /\ Shape(Entry("receive", 0, FALSE, <<>>)) /\ Entry("receive", 0, FALSE, <<>>).scope = 0
         /\ Shape(Entry("read", 0, TRUE, <<>>)) /\ Entry("read", 0, TRUE, <<>>).scope = 0
         /\ Shape(Entry("read", t, FALSE, <<>>)) /\ Entry("read", t, FALSE, <<>>).scope = t
         /\ Shape(Entry("choice", 0, FALSE, ks)) /\ Entry("choice", 0, FALSE, ks).scope = 0
         /\ Shape(Entry("any", 0, FALSE, ks)) /\ Entry("any", 0, FALSE, ks).scope = 0
  BY Zenon DEF Shape, Entry
============================================================================
