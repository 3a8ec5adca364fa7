---------------------------- MODULE WaitSetProofs ----------------------------
(* For every set of machines, every program, every stream and every limit:   *)
(* the table of waits of every machine stays a forest, every variable keeps  *)
(* the kind of value it has in the code, and the count of requests in        *)
(* service is exact.                                                         *)
EXTENDS WaitInvariant, TLAPS, FiniteSetTheorems

----------------------------------------------------------------------------
(* Facts about one table. *)

LEMMA TableIsFunction ==
    ASSUME NEW w \in Tables
    PROVE  /\ DOMAIN w \subseteq Nat
           /\ w = [t \in DOMAIN w |-> w[t]]
           /\ \A t \in DOMAIN w : w[t] \in Entries
BY Zenon DEF Tables

LEMMA TableIntro ==
    ASSUME NEW D \in SUBSET Nat, NEW w \in [D -> Entries]
    PROVE  w \in Tables /\ DOMAIN w = D
BY Zenon DEF Tables

LEMMA EmptyTable == <<>> \in Tables /\ DOMAIN <<>> = {} /\ Forest(<<>>)
<1>1. <<>> \in [{} -> Entries] /\ DOMAIN <<>> = {}
    OBVIOUS
<1> QED
    BY <1>1, TableIntro, Zenon DEF Forest

(* A tree is closed under children. *)
LEMMA TreeClosed ==
    ASSUME NEW w, Forest(w), NEW root,
           NEW t \in Tree(w, root), NEW i \in DOMAIN w[t].kids
    PROVE  w[t].kids[i] \in Tree(w, root)
<1>1. t \in DOMAIN w /\ w[t].kids[i] \in DOMAIN w
    BY Zenon DEF Tree, Forest
<1>2. ASSUME NEW S \in SUBSET DOMAIN w, root \in S, Closed(w, S)
      PROVE  w[t].kids[i] \in S
    BY <1>2, Zenon DEF Tree, Closed
<1> QED
    BY <1>1, <1>2, Zenon DEF Tree

(* Every member of a tree but its root is the child of a member: without    *)
(* it, the rest of the tree would be closed too.                            *)
LEMMA TreeParent ==
    ASSUME NEW w, Forest(w), NEW root \in DOMAIN w,
           NEW k \in Tree(w, root), k # root
    PROVE  \E u \in Tree(w, root) : k \in Range(w[u].kids)
<1> DEFINE T == Tree(w, root)
<1> DEFINE S == T \ {k}
<1> SUFFICES ASSUME \A u \in T : k \notin Range(w[u].kids) PROVE FALSE
    BY Zenon
<1>1. T \subseteq DOMAIN w /\ root \in T
    BY Zenon DEF Tree
<1>2. Closed(w, S)
    <2> SUFFICES ASSUME NEW u \in S, NEW i \in DOMAIN w[u].kids PROVE w[u].kids[i] \in S
        BY Zenon DEF Closed
    <2>1. w[u].kids[i] \in T
        BY TreeClosed, Zenon
    <2>2. w[u].kids[i] # k
        BY Zenon DEF Range
    <2> QED
        BY <2>1, <2>2, Zenon
<1>3. k \in S
    BY <1>1, <1>2, Zenon DEF Tree
<1> QED
    BY <1>3, Zenon

(* What is left of a forest without one of its trees is a forest. *)
LEMMA RetiredForest ==
    ASSUME NEW w \in Tables, Forest(w), NEW root \in DOMAIN w, ~w[root].linked
    PROVE  LET v == [t \in DOMAIN w \ Tree(w, root) |-> w[t]]
           IN v \in Tables /\ DOMAIN v \subseteq DOMAIN w /\ Forest(v)
<1> DEFINE T == Tree(w, root)
<1> DEFINE D == DOMAIN w \ T
<1> DEFINE v == [t \in D |-> w[t]]
<1>1. v \in Tables /\ DOMAIN v = D
    <2>1. D \in SUBSET Nat /\ v \in [D -> Entries]
        BY TableIsFunction, Zenon
    <2> QED
        BY <2>1, TableIntro, Zenon
<1>2. \A u \in T : \A i \in DOMAIN w[u].kids : w[u].kids[i] \in T
    BY TreeClosed, Zenon
<1>3. \A k \in T : k # root => \E u \in T : k \in Range(w[u].kids)
    BY TreeParent, Zenon
<1>4. root \in T /\ T \subseteq DOMAIN w
    BY Zenon DEF Tree
<1>5. \A u \in DOMAIN w : root \notin Range(w[u].kids)
    BY Zenon DEF Forest
<1> HIDE DEF T
<1>6. ASSUME NEW t \in D, NEW i \in DOMAIN w[t].kids
      PROVE  w[t].kids[i] \in D /\ w[t].kids[i] < t
    <2> DEFINE k == w[t].kids[i]
    <2>1. k \in DOMAIN w /\ k < t /\ k \in Range(w[t].kids)
        BY Zenon DEF Forest, Range
    <2>2. ASSUME k \in T PROVE FALSE
        <3>1. k # root
            BY <2>1, <1>5, Zenon
        <3>2. PICK u \in T : k \in Range(w[u].kids)
            BY <3>1, <2>2, <1>3, Zenon
        <3>3. u = t
            BY <3>2, <2>1, <1>4, Zenon DEF Forest
        <3> QED
            BY <3>2, <3>3, Zenon
    <2> QED
        BY <2>1, <2>2, Zenon
<1>7. ASSUME NEW t \in D
      PROVE  w[t].linked <=> \E u \in D : t \in Range(w[u].kids)
    <2>1. w[t].linked <=> \E u \in DOMAIN w : t \in Range(w[u].kids)
        BY Zenon DEF Forest
    <2>2. ASSUME NEW u \in T, t \in Range(w[u].kids) PROVE FALSE
        BY <2>2, <1>2, Zenon DEF Range
    <2> QED
        BY <2>1, <2>2, Zenon
<1>8. \A t \in D : v[t] = w[t]
    BY Zenon
<1> HIDE DEF v
<1>9. Forest(v)
    <2> SUFFICES ASSUME NEW t \in D
                 PROVE  /\ \A i \in DOMAIN w[t].kids : w[t].kids[i] \in D /\ w[t].kids[i] < t
                        /\ IsInjective(w[t].kids)
                        /\ w[t].linked <=> \E u \in D : t \in Range(w[u].kids)
                        /\ \A x, y \in D :
                              t \in Range(w[x].kids) /\ t \in Range(w[y].kids) => x = y
        BY <1>1, <1>8 DEF Forest
    <2>1. IsInjective(w[t].kids)
        BY Zenon DEF Forest
    <2>2. \A x, y \in D : t \in Range(w[x].kids) /\ t \in Range(w[y].kids) => x = y
        BY Zenon DEF Forest
    <2> QED
        BY <1>6, <1>7, <2>1, <2>2, Zenon
<1> QED
    BY <1>1, <1>9, Zenon DEF v, T

(* A new entry over roots of a forest makes a forest, of which it is a root. *)
LEMMA AllocatedForest ==
    ASSUME NEW w \in Tables, Forest(w), NEW n \in Nat, DOMAIN w \subseteq 1..(n - 1),
           NEW e \in Entries, ~e.linked, IsInjective(e.kids), n > 0,
           \A i \in DOMAIN e.kids : e.kids[i] \in DOMAIN w /\ ~w[e.kids[i]].linked
    PROVE  LET v == [t \in DOMAIN w \cup {n} |->
                        IF t = n THEN e
                        ELSE IF t \in Range(e.kids) THEN [w[t] EXCEPT !.linked = TRUE] ELSE w[t]]
           IN /\ v \in Tables /\ DOMAIN v = DOMAIN w \cup {n} /\ Forest(v)
              /\ ~v[n].linked
<1> DEFINE K == Range(e.kids)
<1> DEFINE D == DOMAIN w \cup {n}
<1> DEFINE link(t) == IF t \in K THEN [w[t] EXCEPT !.linked = TRUE] ELSE w[t]
<1> DEFINE v == [t \in D |-> IF t = n THEN e ELSE link(t)]
<1>1. DOMAIN w \subseteq Nat /\ n \notin DOMAIN w /\ \A t \in DOMAIN w : t < n
    BY TableIsFunction
<1>2. \A t \in DOMAIN w : w[t] \in Entries
    BY TableIsFunction, Zenon
<1>3. \A t \in DOMAIN w : /\ link(t) \in Entries
                          /\ link(t).kids = w[t].kids
                          /\ link(t).linked = (w[t].linked \/ t \in K)
    <2> TAKE t \in DOMAIN w
    <2>1. w[t] \in Entries
        BY <1>2, Zenon
    <2>2. CASE t \in K
        <3>1. link(t) = [w[t] EXCEPT !.linked = TRUE]
            BY <2>2, Zenon
        <3> QED
            BY <2>1, <2>2, <3>1, Zenon DEF Entries
    <2>3. CASE t \notin K
        <3>1. link(t) = w[t]
            BY <2>3, Zenon
        <3> QED
            BY <2>1, <2>3, <3>1, Zenon DEF Entries
    <2> QED
        BY <2>2, <2>3, Zenon
<1>4. v \in [D -> Entries] /\ D \in SUBSET Nat
    <2> HIDE DEF link
    <2> QED
        BY <1>1, <1>3, Zenon
<1>5. \A t \in DOMAIN w : v[t] = link(t)
    BY <1>1, Zenon
<1>6. v[n] = e
    BY Zenon
<1> HIDE DEF v, link
<1>7. v \in Tables /\ DOMAIN v = D
    BY <1>4, TableIntro, Zenon
<1>8. \A t \in DOMAIN w : v[t].kids = w[t].kids /\ v[t].linked = (w[t].linked \/ t \in K)
    BY <1>3, <1>5, Zenon
<1>9. v[n] = e
    BY <1>6, Zenon
<1>10. K \subseteq DOMAIN w /\ \A k \in K : ~w[k].linked
    BY Zenon DEF Range
<1>11. \A t \in DOMAIN w : \A u \in DOMAIN w : t \in Range(v[u].kids) <=> t \in Range(w[u].kids)
    BY <1>8, Zenon
<1>12. \A u \in DOMAIN w : n \notin Range(v[u].kids)
    BY <1>1, <1>8 DEF Forest, Range
<1>13. Range(v[n].kids) = K
    BY <1>9, Zenon
<1>14. e.linked = FALSE
    BY Zenon DEF Entries
<1> HIDE DEF K
<1>15. ASSUME NEW t \in D
       PROVE  /\ \A i \in DOMAIN v[t].kids : v[t].kids[i] \in D /\ v[t].kids[i] < t
              /\ IsInjective(v[t].kids)
    <2>1. CASE t = n
        BY <2>1, <1>1, <1>9, Zenon
    <2>2. CASE t \in DOMAIN w
        BY <2>2, <1>8, Zenon DEF Forest
    <2> QED
        BY <2>1, <2>2, Zenon
<1>16. ASSUME NEW t \in D
       PROVE  v[t].linked <=> \E u \in D : t \in Range(v[u].kids)
    <2>1. CASE t = n
        BY <2>1, <1>1, <1>9, <1>10, <1>12, <1>13, <1>14, Zenon
    <2>2. CASE t \in DOMAIN w
        <3>1. w[t].linked <=> \E u \in DOMAIN w : t \in Range(w[u].kids)
            BY <2>2, Zenon DEF Forest
        <3>2. v[t].linked <=> w[t].linked \/ t \in K
            BY <2>2, <1>8, ZenonT(60)
        <3> QED
            BY <2>2, <3>1, <3>2, <1>11, <1>13, Zenon
    <2> QED
        BY <2>1, <2>2, Zenon
<1>17. ASSUME NEW t \in D, NEW x \in D, NEW y \in D,
              t \in Range(v[x].kids), t \in Range(v[y].kids)
       PROVE  x = y
    <2>1. t \in DOMAIN w
        BY <1>17, <1>1, <1>10, <1>12, <1>13, Zenon
    <2>2. CASE x = n \/ y = n
        <3>1. t \in K
            BY <2>2, <1>13, <1>17, Zenon
        <3>2. \A u \in DOMAIN w : t \notin Range(w[u].kids)
            BY <3>1, <2>1, <1>10, Zenon DEF Forest
        <3> QED
            BY <3>2, <2>1, <1>11, <1>17, Zenon
    <2>3. CASE x \in DOMAIN w /\ y \in DOMAIN w
        BY <2>1, <2>3, <1>11, <1>17, Zenon DEF Forest
    <2> QED
        BY <2>2, <2>3, Zenon
<1>18. Forest(v)
    BY <1>7, <1>15, <1>16, <1>17 DEF Forest
<1> QED
    BY <1>7, <1>9, <1>18, Zenon DEF v, link, K

----------------------------------------------------------------------------
(* A step that changes what one machine has. *)
LEMMA StepAt ==
    ASSUME WInv, NEW m \in Machines, WTypes',
           \A k \in Machines \ {m} : /\ waits'[k] = waits[k] /\ next_wait'[k] = next_wait[k]
                                     /\ block'[k] = block[k] /\ state'[k] = state[k],
           GoodTable(m)'
    PROVE  (\A k \in Machines : GoodTable(k))'
<1> SUFFICES ASSUME NEW k \in Machines \ {m} PROVE GoodTable(k)'
    BY Zenon
<1>1. GoodTable(k)
    BY Zenon DEF WInv
<1> QED
    BY <1>1, Zenon DEF GoodTable, Current

LEMMA NoJobFacts ==
    /\ DOMAIN NoJob = {"vm", "root", "calls", "then", "ok", "bytes"}
    /\ NoJob.then = "none" /\ NoJob.calls = <<>>
BY Zenon DEF NoJob

LEMMA IdleJob == ASSUME job' = NoJob PROVE GoodJob'
<1>1. job'.then = "none" /\ job'.then \notin {"select", "cancel", "close"}
    BY NoJobFacts, Zenon
<1>2. DOMAIN job' = {"vm", "root", "calls", "then", "ok", "bytes"}
    BY NoJobFacts, Zenon
<1> QED
    BY <1>1, <1>2, Zenon DEF GoodJob

(* The table of a machine after an allocation. *)
LEMMA WithWaitGood ==
    ASSUME WInv, NEW m \in Machines, NEW e \in Entries, ~e.linked, IsInjective(e.kids),
           \A i \in DOMAIN e.kids : Current(m, e.kids[i])
    PROVE  /\ WithWait(m, e) \in Tables /\ Forest(WithWait(m, e))
           /\ DOMAIN WithWait(m, e) \subseteq 1..next_wait[m]
           /\ next_wait[m] \in DOMAIN WithWait(m, e)
           /\ ~WithWait(m, e)[next_wait[m]].linked
<1> DEFINE w == waits[m]
<1> DEFINE n == next_wait[m]
<1>1. w \in Tables /\ Forest(w) /\ n \in Nat /\ n > 0 /\ DOMAIN w \subseteq 1..(n - 1)
    BY DEF WInv, WTypes, GoodTable
<1>2. \A i \in DOMAIN e.kids : e.kids[i] \in DOMAIN w /\ ~w[e.kids[i]].linked
    BY Zenon DEF Current
<1>3. WithWait(m, e) = [t \in DOMAIN w \cup {n} |->
                          IF t = n THEN e
                          ELSE IF t \in Range(e.kids) THEN [w[t] EXCEPT !.linked = TRUE] ELSE w[t]]
    BY Zenon DEF WithWait
<1> HIDE DEF w, n
<1>4. /\ WithWait(m, e) \in Tables /\ DOMAIN WithWait(m, e) = DOMAIN w \cup {n}
      /\ Forest(WithWait(m, e)) /\ ~WithWait(m, e)[n].linked
    BY <1>1, <1>2, <1>3, AllocatedForest, SMTT(30)
<1>5. DOMAIN w \cup {n} \subseteq 1..n
    BY <1>1
<1> QED
    BY <1>4, <1>5, Zenon DEF n

LEMMA AllocatesKeeps ==
    ASSUME WInv, NEW m \in Machines, NEW e \in Entries, ~e.linked, IsInjective(e.kids),
           \A i \in DOMAIN e.kids : Current(m, e.kids[i]),
           Allocates(m, e), state[m] = "ready",
           next_token' \in Nat, todo' \in [Machines -> Seq(Operations)],
           \/ UNCHANGED <<state, block>>
           \/ /\ state' = [state EXCEPT ![m] = "blocked"]
              /\ block' = [block EXCEPT ![m] = next_wait[m]]
    PROVE  /\ WTypes' /\ (\A k \in Machines : GoodTable(k))'
           /\ next_wait[m] \in DOMAIN waits'[m] /\ ~waits'[m][next_wait[m]].linked
<1> DEFINE v == WithWait(m, e)
<1>1. /\ v \in Tables /\ Forest(v) /\ DOMAIN v \subseteq 1..next_wait[m]
      /\ next_wait[m] \in DOMAIN v /\ ~v[next_wait[m]].linked
    BY WithWaitGood, Zenon
<1>2. /\ waits' = [waits EXCEPT ![m] = v]
      /\ next_wait' = [next_wait EXCEPT ![m] = @ + 1]
    BY Zenon DEF Allocates
<1> HIDE DEF v
<1>3. WTypes'
    <2>1. /\ waits \in [Machines -> Tables] /\ next_wait \in [Machines -> Nat \ {0}]
          /\ state \in [Machines -> States] /\ block \in [Machines -> Nat]
        BY Zenon DEF WInv, WTypes
    <2>2. waits' \in [Machines -> Tables]
        BY <1>1, <1>2, <2>1, Zenon
    <2>3. next_wait' \in [Machines -> Nat \ {0}]
        BY <1>2, <2>1
    <2>4. state' \in [Machines -> States]
        BY <2>1, Zenon DEF States
    <2>5. block' \in [Machines -> Nat]
        BY <2>1, ZenonT(60)
    <2> QED
        BY <2>2, <2>3, <2>4, <2>5, Zenon DEF WTypes
<1>4. waits'[m] = v /\ next_wait'[m] - 1 = next_wait[m]
    BY <1>2 DEF WInv, WTypes
<1>5. block[m] = 0
    BY Zenon DEF WInv, GoodTable
<1>6. /\ state'[m] = "blocked" <=> block'[m] # 0
      /\ block'[m] # 0 => block'[m] = next_wait[m]
    BY <1>5, Zenon DEF WInv, WTypes
<1>7. next_wait[m] \in DOMAIN waits'[m] /\ ~waits'[m][next_wait[m]].linked
    BY <1>1, <1>4, Zenon
<1>8. GoodTable(m)'
    <2>1. DOMAIN waits'[m] \subseteq 1..(next_wait'[m] - 1)
        BY <1>1, <1>4, Zenon
    <2>2. Forest(waits[m])'
        BY <1>1, <1>4 DEF Forest
    <2> QED
        BY <2>1, <2>2, <1>6, <1>7, Zenon DEF GoodTable, Current
<1>9. \A k \in Machines \ {m} : /\ waits'[k] = waits[k] /\ next_wait'[k] = next_wait[k]
                                /\ block'[k] = block[k] /\ state'[k] = state[k]
    BY <1>2, Zenon DEF WInv, WTypes
<1> QED
    BY <1>3, <1>7, <1>8, <1>9, StepAt, Zenon

LEMMA EndsKeeps ==
    ASSUME WInv, NEW m \in Machines, NEW w \in Tables, Forest(w),
           DOMAIN w \subseteq DOMAIN waits[m],
           NEW how \in {"done", "faulted"}, Ends(m, how, w), UNCHANGED next_wait,
           next_token' \in Nat, todo' \in [Machines -> Seq(Operations)]
    PROVE  WTypes' /\ (\A k \in Machines : GoodTable(k))'
<1> DEFINE v == IF m \in Procs THEN <<>> ELSE w
<1>1. v \in Tables /\ Forest(v) /\ DOMAIN v \subseteq DOMAIN waits[m]
    BY EmptyTable, Zenon
<1>2. /\ waits' = [waits EXCEPT ![m] = v] /\ block' = [block EXCEPT ![m] = 0]
      /\ state' = [state EXCEPT ![m] = how]
    BY Zenon DEF Ends
<1> HIDE DEF v
<1>3. /\ waits \in [Machines -> Tables] /\ next_wait \in [Machines -> Nat \ {0}]
      /\ state \in [Machines -> States] /\ block \in [Machines -> Nat]
    BY Zenon DEF WInv, WTypes
<1>4. WTypes'
    <2>1. waits' \in [Machines -> Tables]
        BY <1>1, <1>2, <1>3, Zenon
    <2>2. state' \in [Machines -> States]
        BY <1>2, <1>3, Zenon DEF States
    <2>3. block' \in [Machines -> Nat]
        BY <1>2, <1>3, Zenon
    <2> QED
        BY <2>1, <2>2, <2>3, <1>3, Zenon DEF WTypes
<1>5. waits'[m] = v /\ block'[m] = 0 /\ state'[m] # "blocked"
    BY <1>2, <1>3, Zenon
<1>6. GoodTable(m)'
    <2>1. DOMAIN waits'[m] \subseteq 1..(next_wait'[m] - 1)
        BY <1>1, <1>5, Zenon DEF WInv, GoodTable
    <2>2. Forest(waits[m])'
        BY <1>1, <1>5 DEF Forest
    <2> QED
        BY <2>1, <2>2, <1>5, Zenon DEF GoodTable
<1>7. \A k \in Machines \ {m} : /\ waits'[k] = waits[k] /\ next_wait'[k] = next_wait[k]
                                /\ block'[k] = block[k] /\ state'[k] = state[k]
    BY <1>2, <1>3, Zenon
<1> QED
    BY <1>4, <1>6, <1>7, StepAt, Zenon

(* A step that leaves the tables alone. *)
LEMMA TablesStay ==
    ASSUME WInv, UNCHANGED <<waits, next_wait, block>>,
           state' \in [Machines -> States],
           \A m \in Machines : state[m] = "blocked" <=> state'[m] = "blocked",
           next_token' \in Nat, todo' \in [Machines -> Seq(Operations)]
    PROVE  WTypes' /\ (\A m \in Machines : GoodTable(m))'
<1>1. WTypes'
    BY Zenon DEF WInv, WTypes
<1>2. ASSUME NEW m \in Machines PROVE GoodTable(m)'
    <2>1. GoodTable(m)
        BY Zenon DEF WInv
    <2> QED
        BY <2>1, Zenon DEF GoodTable, Current
<1> QED
    BY <1>1, <1>2, Zenon

(* A machine that runs blocks on a root. *)
LEMMA BlocksKeeps ==
    ASSUME WInv, NEW m \in Machines, NEW root, Current(m, root),
           UNCHANGED <<waits, next_wait, next_token>>,
           state' = [state EXCEPT ![m] = "blocked"], block' = [block EXCEPT ![m] = root],
           todo' \in [Machines -> Seq(Operations)]
    PROVE  WTypes' /\ (\A k \in Machines : GoodTable(k))'
<1>1. /\ waits \in [Machines -> Tables] /\ state \in [Machines -> States]
      /\ block \in [Machines -> Nat] /\ next_token \in Nat
      /\ next_wait \in [Machines -> Nat \ {0}]
    BY Zenon DEF WInv, WTypes
<1>2. root \in Nat /\ root # 0
    BY <1>1 DEF Current, WInv, GoodTable
<1>3. state' \in [Machines -> States]
    BY <1>1, Zenon DEF States
<1>4. block' \in [Machines -> Nat]
    BY <1>1, <1>2, Zenon
<1>5. WTypes'
    BY <1>1, <1>3, <1>4, Zenon DEF WTypes
<1>6. GoodTable(m)
    BY Zenon DEF WInv
<1>7. block'[m] = root /\ state'[m] = "blocked"
    BY <1>1, Zenon
<1>8. GoodTable(m)'
    BY <1>2, <1>6, <1>7, Zenon DEF GoodTable, Current
<1>9. \A k \in Machines \ {m} : /\ waits'[k] = waits[k] /\ next_wait'[k] = next_wait[k]
                                /\ block'[k] = block[k] /\ state'[k] = state[k]
    BY <1>1, Zenon
<1> QED
    BY <1>5, <1>8, <1>9, StepAt, Zenon

----------------------------------------------------------------------------
(* The actions. *)

(* The entries that operations add. *)
LEMMA EntryTyped ==
    ASSUME NEW kind \in {"receive", "read", "choice", "any"}, NEW scope \in Nat,
           NEW answered \in BOOLEAN, NEW kids \in Seq(Nat)
    PROVE  /\ Entry(kind, scope, answered, kids) \in Entries
           /\ ~Entry(kind, scope, answered, kids).linked
           /\ Entry(kind, scope, answered, kids).kids = kids
BY Zenon DEF Entry, Entries

LEMMA NoKids ==
    ASSUME NEW m
    PROVE  /\ <<>> \in Seq(Nat) /\ IsInjective(<<>>)
           /\ \A i \in DOMAIN <<>> : Current(m, <<>>[i])
BY SMTT(30) DEF IsInjective

(* A leaf is added. *)
LEMMA LeafKeeps ==
    ASSUME WInv, NEW m \in Machines, NEW kind \in {"receive", "read"}, NEW scope \in Nat,
           NEW answered \in BOOLEAN, Allocates(m, Entry(kind, scope, answered, <<>>)),
           state[m] = "ready", UNCHANGED <<state, block>>,
           next_token' \in Nat, todo' \in [Machines -> Seq(Operations)]
    PROVE  WTypes' /\ (\A k \in Machines : GoodTable(k))'
<1> DEFINE e == Entry(kind, scope, answered, <<>>)
<1>1. e \in Entries /\ ~e.linked /\ e.kids = <<>>
    BY NoKids, Zenon DEF Entry, Entries
<1> HIDE DEF e
<1>2. IsInjective(e.kids) /\ \A i \in DOMAIN e.kids : Current(m, e.kids[i])
    BY <1>1, NoKids, Zenon
<1> QED
    BY <1>1, <1>2, AllocatesKeeps, Zenon DEF e

(* A selection or a cancel begins on a root. *)
LEMMA JobOnRoot ==
    ASSUME WInv, WTypes', NEW m \in Machines, NEW root,
           root \in DOMAIN waits'[m], ~waits'[m][root].linked,
           DOMAIN job' = {"vm", "root", "calls", "then", "ok", "bytes"},
           job'.vm = m, job'.root = root, job'.then \in {"select", "cancel"}
    PROVE  GoodJob'
BY Zenon DEF GoodJob, Current

LEMMA SelectJob ==
    ASSUME NEW m, NEW w, NEW root, complete_ready_wait(m, w, root)
    PROVE  /\ DOMAIN job' = {"vm", "root", "calls", "then", "ok", "bytes"}
           /\ job'.vm = m /\ job'.root = root /\ job'.then = "select"
BY Zenon DEF complete_ready_wait

(* What every guest operation has in common. *)
LEMMA ActsFacts ==
    ASSUME WInv, NEW m \in Machines, Acts(m)
    PROVE  /\ job = NoJob /\ state[m] = "ready"
           /\ Head(todo[m]) \in Operations
           /\ todo' \in [Machines -> Seq(Operations)]
<1>1. todo \in [Machines -> Seq(Operations)]
    BY Zenon DEF WInv, WTypes
<1>2. todo[m] \in Seq(Operations) /\ todo[m] # <<>>
    BY <1>1, Zenon DEF Acts
<1>3. Head(todo[m]) \in Operations /\ Tail(todo[m]) \in Seq(Operations)
    BY <1>2
<1>4. todo' = [todo EXCEPT ![m] = Tail(todo[m])]
    BY Zenon DEF Acts
<1> QED
    BY <1>1, <1>3, <1>4, Zenon DEF Acts

LEMMA FaultsKeeps ==
    ASSUME WInv, NEW m \in Machines, Acts(m), Faults(m) \/ Stops(m)
    PROVE  WInv'
<1>1. todo' \in [Machines -> Seq(Operations)] /\ job = NoJob /\ job' = job
    BY ActsFacts, Zenon DEF Faults, Stops
<1>2. waits[m] \in Tables /\ Forest(waits[m]) /\ next_token' \in Nat
    BY Zenon DEF WInv, WTypes, GoodTable, Faults, Stops
<1>3. PICK how \in {"done", "faulted"} : Ends(m, how, waits[m])
    BY Zenon DEF Faults, Stops
<1>4. UNCHANGED next_wait
    BY Zenon DEF Faults, Stops
<1>5. WTypes' /\ (\A k \in Machines : GoodTable(k))'
    BY <1>1, <1>2, <1>3, <1>4, EndsKeeps, Zenon
<1>6. GoodJob'
    BY <1>1, IdleJob, Zenon
<1> QED
    BY <1>5, <1>6, Zenon DEF WInv

(* Guest operations that add a leaf or none. *)
LEMMA LeafOperations ==
    ASSUME WInv, NEW m \in Machines, Acts(m), NEW n,
           receive_wait(m) \/ read_wait(m, n) \/ read_wait_refused(m) \/ read_bytes(m, n)
    PROVE  WInv'
<1>1. /\ todo' \in [Machines -> Seq(Operations)] /\ job = NoJob /\ state[m] = "ready"
      /\ next_token \in Nat /\ next_token + 1 \in Nat
    BY ActsFacts DEF WInv, WTypes
<1>2. CASE receive_wait(m)
    <2>1. CASE Faults(m)
        BY <2>1, FaultsKeeps, Zenon
    <2>2. CASE /\ Allocates(m, Entry("receive", 0, FALSE, <<>>))
               /\ UNCHANGED <<state, block, next_token, job>>
        BY <2>2, <1>1, LeafKeeps, IdleJob, Zenon DEF WInv
    <2> QED
        BY <1>2, <2>1, <2>2, Zenon DEF receive_wait
<1>3. CASE read_wait(m, n)
    <2>1. next_token' \in Nat /\ UNCHANGED <<state, block>>
        BY <1>1, <1>3, Zenon DEF read_wait, Starts
    <2>2. CASE Allocates(m, Entry("read", next_token, FALSE, <<>>)) /\ UNCHANGED job
        BY <2>1, <2>2, <1>1, LeafKeeps, IdleJob, Zenon DEF WInv
    <2>3. CASE job' = LimitJob(m, next_token) /\ UNCHANGED <<waits, next_wait>>
        <3>1. WTypes' /\ (\A k \in Machines : GoodTable(k))'
            BY <2>1, <2>3, <1>1, TablesStay, Zenon DEF WInv, WTypes
        <3>2. GoodJob'
            BY <2>3, Zenon DEF LimitJob, NoJob, GoodJob
        <3> QED
            BY <3>1, <3>2, Zenon DEF WInv
    <2> QED
        BY <1>3, <2>2, <2>3, ZenonT(60) DEF read_wait
<1>4. CASE read_wait_refused(m)
    <2>1. next_token' \in Nat /\ job' = job
        BY <1>1, <1>4, Zenon DEF read_wait_refused
    <2>2. CASE Allocates(m, Entry("read", 0, TRUE, <<>>)) /\ UNCHANGED <<state, block>>
        BY <2>1, <2>2, <1>1, LeafKeeps, IdleJob, ZenonT(60) DEF WInv
    <2>3. CASE Ends(m, "faulted", waits[m]) /\ UNCHANGED next_wait
        <3>1. waits[m] \in Tables /\ Forest(waits[m])
            BY Zenon DEF WInv, WTypes, GoodTable
        <3>2. WTypes' /\ (\A k \in Machines : GoodTable(k))'
            BY <2>1, <2>3, <3>1, <1>1, EndsKeeps, Zenon
        <3> QED
            BY <2>1, <3>2, <1>1, IdleJob, Zenon DEF WInv
    <2> QED
        BY <1>4, <2>2, <2>3, ZenonT(60) DEF read_wait_refused
<1>5. CASE read_bytes(m, n)
    <2>1. next_token' \in Nat /\ UNCHANGED <<waits, next_wait, block, job>>
        BY <1>1, <1>5, Zenon DEF read_bytes, Starts
    <2>2. state' = state \/ state' = [state EXCEPT ![m] = "waiting"]
        BY <1>5, Zenon DEF read_bytes
    <2>3. /\ state' \in [Machines -> States]
          /\ \A k \in Machines : state[k] = "blocked" <=> state'[k] = "blocked"
        BY <2>2, <1>1, Zenon DEF WInv, WTypes, States
    <2>4. WTypes' /\ (\A k \in Machines : GoodTable(k))'
        BY <2>1, <2>3, <1>1, TablesStay, Zenon
    <2> QED
        BY <2>1, <2>4, <1>1, IdleJob, Zenon DEF WInv
<1> QED
    BY <1>2, <1>3, <1>4, <1>5, Zenon

LEMMA ChooseKeeps ==
    ASSUME WInv, NEW m \in Machines, Acts(m), NEW a, NEW b, choose(m, a, b)
    PROVE  WInv'
<1>1. CASE Faults(m)
    BY <1>1, FaultsKeeps, Zenon
<1>2. CASE /\ a # b /\ Current(m, a) /\ Current(m, b)
           /\ Allocates(m, Entry("choice", 0, FALSE, <<a, b>>))
           /\ UNCHANGED <<state, block, next_token, job>>
    <2>1. /\ todo' \in [Machines -> Seq(Operations)] /\ job = NoJob /\ state[m] = "ready"
          /\ next_token' \in Nat /\ waits[m] \in Tables
        BY <1>2, ActsFacts, Zenon DEF WInv, WTypes
    <2>2. <<a, b>> \in Seq(Nat)
        BY <1>2, <2>1, TableIsFunction, SMTT(30) DEF Current
    <2> DEFINE e == Entry("choice", 0, FALSE, <<a, b>>)
    <2>3. e \in Entries /\ ~e.linked /\ e.kids = <<a, b>>
        BY <2>2, Zenon DEF Entry, Entries
    <2> HIDE DEF e
    <2>4. IsInjective(e.kids) /\ \A i \in DOMAIN e.kids : Current(m, e.kids[i])
        BY <1>2, <2>3, SMTT(30) DEF IsInjective
    <2>5. WTypes' /\ (\A k \in Machines : GoodTable(k))'
        BY <1>2, <2>1, <2>3, <2>4, AllocatesKeeps, ZenonT(60) DEF e
    <2> QED
        BY <1>2, <2>1, <2>5, IdleJob, Zenon DEF WInv
<1> QED
    BY <1>1, <1>2, ZenonT(60) DEF choose

LEMMA WaitKeeps ==
    ASSUME WInv, NEW m \in Machines, Acts(m), NEW t, wait(m, t) \/ cancel(m, t)
    PROVE  WInv'
<1>1. /\ todo' \in [Machines -> Seq(Operations)] /\ job = NoJob
      /\ state \in [Machines -> States] /\ next_token \in Nat
    BY ActsFacts, Zenon DEF WInv, WTypes
<1>2. CASE Faults(m)
    BY <1>2, FaultsKeeps, Zenon
<1>3. ASSUME Current(m, t), UNCHANGED <<waits, next_wait, state, block, next_token>>,
             DOMAIN job' = {"vm", "root", "calls", "then", "ok", "bytes"},
             job'.vm = m, job'.root = t, job'.then \in {"select", "cancel"}
      PROVE  WInv'
    <2>1. WTypes' /\ (\A k \in Machines : GoodTable(k))'
        BY <1>1, <1>3, TablesStay, Zenon
    <2>2. t \in DOMAIN waits'[m] /\ ~waits'[m][t].linked
        BY <1>3, Zenon DEF Current
    <2>3. GoodJob'
        BY <1>3, <2>1, <2>2, JobOnRoot, Zenon
    <2> QED
        BY <2>1, <2>3, Zenon DEF WInv
<1>4. CASE /\ Current(m, t) /\ SelectsOrBlocks(m, waits[m], t)
           /\ UNCHANGED <<waits, next_wait>>
    <2>1. CASE complete_ready_wait(m, waits[m], t) /\ UNCHANGED <<state, block, next_token>>
        BY <1>3, <1>4, <2>1, SelectJob, Zenon
    <2>2. CASE /\ state' = [state EXCEPT ![m] = "blocked"]
               /\ block' = [block EXCEPT ![m] = t]
               /\ UNCHANGED <<job, next_token>>
        <3>1. WTypes' /\ (\A k \in Machines : GoodTable(k))'
            BY <1>1, <1>4, <2>2, BlocksKeeps, Zenon
        <3> QED
            BY <1>1, <2>2, <3>1, IdleJob, Zenon DEF WInv
    <2> QED
        BY <1>4, <2>1, <2>2, Zenon DEF SelectsOrBlocks
<1>5. CASE cancel(m, t) /\ ~Faults(m)
    <2>1. Current(m, t) /\ UNCHANGED <<waits, next_wait, state, block, next_token>>
        BY <1>5, Zenon DEF cancel
    <2>2. /\ DOMAIN job' = {"vm", "root", "calls", "then", "ok", "bytes"}
          /\ job'.vm = m /\ job'.root = t /\ job'.then = "cancel"
        BY <1>5, Zenon DEF cancel, NoJob
    <2> QED
        BY <1>3, <2>1, <2>2, Zenon
<1> QED
    BY <1>2, <1>4, <1>5, Zenon DEF wait, cancel

LEMMA AnyKeeps ==
    ASSUME WInv, NEW m \in Machines, Acts(m), NEW roots \in Seq(Nat), any(m, roots)
    PROVE  WInv'
<1>1. CASE Faults(m)
    BY <1>1, FaultsKeeps, Zenon
<1>2. CASE /\ IsInjective(roots)
           /\ \A i \in DOMAIN roots : Current(m, roots[i])
           /\ Allocates(m, Entry("any", 0, FALSE, roots))
           /\ SelectsOrBlocks(m, waits'[m], next_wait[m])
    <2>1. /\ todo' \in [Machines -> Seq(Operations)] /\ job = NoJob /\ state[m] = "ready"
          /\ next_token' \in Nat
        BY <1>2, ActsFacts, Zenon DEF WInv, WTypes, SelectsOrBlocks
    <2> DEFINE e == Entry("any", 0, FALSE, roots)
    <2>2. e \in Entries /\ ~e.linked /\ e.kids = roots
        BY Zenon DEF Entry, Entries
    <2> HIDE DEF e
    <2>3. \/ UNCHANGED <<state, block>>
          \/ /\ state' = [state EXCEPT ![m] = "blocked"]
             /\ block' = [block EXCEPT ![m] = next_wait[m]]
        BY <1>2, ZenonT(60) DEF SelectsOrBlocks
    <2>4. /\ WTypes' /\ (\A k \in Machines : GoodTable(k))'
          /\ next_wait[m] \in DOMAIN waits'[m] /\ ~waits'[m][next_wait[m]].linked
        BY <1>2, <2>1, <2>2, <2>3, AllocatesKeeps, ZenonT(60) DEF e
    <2>5. CASE complete_ready_wait(m, waits'[m], next_wait[m])
        <3>1. GoodJob'
            BY <2>4, <2>5, SelectJob, JobOnRoot, ZenonT(60)
        <3> QED
            BY <2>4, <3>1, Zenon DEF WInv
    <2>6. CASE UNCHANGED job
        BY <2>1, <2>4, <2>6, IdleJob, Zenon DEF WInv
    <2> QED
        BY <1>2, <2>5, <2>6, Zenon DEF SelectsOrBlocks
<1> QED
    BY <1>1, <1>2, ZenonT(60) DEF any

LEMMA MailKeeps ==
    ASSUME WInv, NEW m \in Machines, Acts(m), NEW p, proc_send(p) \/ proc_close(p)
    PROVE  WInv'
<1>1. todo' \in [Machines -> Seq(Operations)] /\ job = NoJob
    BY ActsFacts, Zenon
<1>2. UNCHANGED <<waits, next_wait, block, state, next_token, job>>
    BY Zenon DEF proc_send, proc_close
<1>3. state \in [Machines -> States] /\ next_token \in Nat
    BY Zenon DEF WInv, WTypes
<1>4. WTypes' /\ (\A k \in Machines : GoodTable(k))'
    BY <1>1, <1>2, <1>3, TablesStay, Zenon
<1> QED
    BY <1>1, <1>2, <1>4, IdleJob, Zenon DEF WInv

LEMMA GuestKeeps == ASSUME WInv, NEW m \in Machines, Guest(m) PROVE WInv'
<1> DEFINE op == Head(todo[m])
<1>1. Acts(m)
    BY Zenon DEF Guest
<1>2. op.of \in Seq(Nat)
    BY <1>1, ActsFacts, Zenon DEF Operations
<1> QED
    BY <1>1, <1>2, LeafOperations, ChooseKeeps, WaitKeeps, AnyKeeps, MailKeeps, FaultsKeeps,
       ZenonT(60) DEF Guest

(* The calls of the operation under way leave its machine and root alone. *)
LEMMA CallsKeep ==
    ASSUME WInv, HostCall \/ CallReturns
    PROVE  WInv'
<1>1. UNCHANGED <<waits, next_wait, block, state, next_token, todo>>
    BY Zenon DEF HostCall, CallReturns
<1>2. WTypes' /\ (\A k \in Machines : GoodTable(k))'
    BY <1>1, TablesStay, Zenon DEF WInv, WTypes
<1>3. job' = job \/ \E found : Answered(found)
    BY Zenon DEF HostCall, CallReturns
<1>4. DOMAIN job = {"vm", "root", "calls", "then", "ok", "bytes"}
    BY Zenon DEF WInv, GoodJob
<1>5. /\ DOMAIN job' = DOMAIN job
      /\ job'.vm = job.vm /\ job'.root = job.root /\ job'.then = job.then
    BY <1>3, <1>4, ZenonT(60) DEF Answered
<1>6. job # NoJob
    BY NoJobFacts, ZenonT(60) DEF HostCall, CallReturns
<1>7. GoodJob'
    BY <1>1, <1>4, <1>5, <1>6, Zenon DEF WInv, GoodJob, Current, Terminal
<1> QED
    BY <1>2, <1>7, Zenon DEF WInv

LEMMA JobEndsKeeps == ASSUME WInv, JobEnds PROVE WInv'
<1>1. PICK m \in Machines : m = job.vm
    BY Zenon DEF JobEnds, WInv, GoodJob
<1> DEFINE w == waits[m]
<1> DEFINE rest == Retired(m, job.root)
<1>2. job' = NoJob /\ UNCHANGED <<next_wait, next_token, todo>>
    BY Zenon DEF JobEnds
<1>3. /\ waits \in [Machines -> Tables] /\ next_wait \in [Machines -> Nat \ {0}]
      /\ state \in [Machines -> States] /\ block \in [Machines -> Nat]
      /\ next_token' \in Nat /\ todo' \in [Machines -> Seq(Operations)]
    BY <1>2, Zenon DEF WInv, WTypes
<1>4. w \in Tables /\ Forest(w) /\ DOMAIN w \subseteq 1..(next_wait[m] - 1)
    BY <1>3, Zenon DEF WInv, GoodTable
<1>5. GoodJob'
    BY <1>2, IdleJob, Zenon
<1>6. ASSUME job.then \in {"select", "cancel"}
      PROVE  rest \in Tables /\ Forest(rest) /\ DOMAIN rest \subseteq DOMAIN w
    <2>1. job.root \in DOMAIN w /\ ~w[job.root].linked
        BY <1>1, <1>6, Zenon DEF WInv, GoodJob, Current
    <2> QED
        BY <1>4, <2>1, RetiredForest, Zenon DEF Retired
<1> HIDE DEF rest
<1>7. ASSUME NEW v \in Tables, Forest(v), DOMAIN v \subseteq DOMAIN w,
             waits' = [waits EXCEPT ![m] = v], block'[m] = 0, state'[m] # "blocked",
             state' \in [Machines -> States], block' \in [Machines -> Nat],
             \A k \in Machines \ {m} : state'[k] = state[k] /\ block'[k] = block[k]
      PROVE  WInv'
    <2>1. WTypes'
        BY <1>2, <1>3, <1>7, Zenon DEF WTypes
    <2>2. waits'[m] = v
        BY <1>3, <1>7, Zenon
    <2>3. GoodTable(m)'
        BY <2>2, <1>2, <1>4, <1>7, Zenon DEF GoodTable
    <2>4. \A k \in Machines \ {m} : /\ waits'[k] = waits[k] /\ next_wait'[k] = next_wait[k]
                                    /\ block'[k] = block[k] /\ state'[k] = state[k]
        BY <1>2, <1>3, <1>7, Zenon
    <2>5. (\A k \in Machines : GoodTable(k))'
        BY <2>1, <2>3, <2>4, StepAt, Zenon
    <2> QED
        BY <1>5, <2>1, <2>5, Zenon DEF WInv
<1>8. CASE /\ job.then \in {"select", "cancel"}
           /\ waits' = [waits EXCEPT ![m] = rest]
           /\ state' = [state EXCEPT ![m] = "ready"]
           /\ block' = [block EXCEPT ![m] = 0]
    <2>1. state' \in [Machines -> States]
        BY <1>3, <1>8, Zenon DEF States
    <2>2. block' \in [Machines -> Nat] /\ block'[m] = 0 /\ state'[m] # "blocked"
        BY <1>3, <1>8, Zenon
    <2>3. \A k \in Machines \ {m} : state'[k] = state[k] /\ block'[k] = block[k]
        BY <1>3, <1>8, Zenon
    <2> QED
        BY <1>6, <1>7, <1>8, <2>1, <2>2, <2>3, Zenon
<1>9. ASSUME NEW v \in Tables, Forest(v), DOMAIN v \subseteq DOMAIN w, Ends(m, "faulted", v)
      PROVE  WInv'
    <2>1. WTypes' /\ (\A k \in Machines : GoodTable(k))'
        BY <1>2, <1>3, <1>9, EndsKeeps, Zenon
    <2> QED
        BY <1>5, <2>1, Zenon DEF WInv
<1>10. CASE /\ job.then = "close" /\ waits' = [waits EXCEPT ![m] = <<>>]
            /\ UNCHANGED <<state, block>>
    <2>1. block[m] = 0 /\ state[m] # "blocked"
        BY <1>1, <1>10, Zenon DEF WInv, GoodJob, GoodTable, Terminal
    <2> QED
        BY <1>3, <1>7, <1>10, <2>1, EmptyTable, ZenonT(60)
<1>11. CASE /\ job.then # "close"
            /\ Ends(m, "faulted", IF job.then = "limit" THEN w ELSE rest)
    <2>1. CASE job.then = "limit"
        BY <1>4, <1>9, <1>11, <2>1, Zenon
    <2>2. CASE job.then \in {"select", "cancel"}
        BY <1>6, <1>9, <1>11, <2>2, Zenon
    <2>3. job # NoJob
        BY Zenon DEF JobEnds
    <2> QED
        BY <1>11, <2>1, <2>2, <2>3, ZenonT(60) DEF WInv, GoodJob
<1> QED
    BY <1>1, <1>8, <1>10, <1>11, Zenon DEF JobEnds, rest

LEMMA HostCompletesKeeps == ASSUME WInv, HostCompletes PROVE WInv'
<1>1. UNCHANGED <<waits, next_wait, block, next_token, job, todo>> /\ job = NoJob
    BY Zenon DEF HostCompletes, TakesCompletion
<1>2. /\ state \in [Machines -> States] /\ next_token' \in Nat
      /\ todo' \in [Machines -> Seq(Operations)]
    BY <1>1, Zenon DEF WInv, WTypes
<1>3. PICK waiter : /\ \A m \in waiter : state[m] = "waiting"
                    /\ state' = [m \in Machines |-> IF m \in waiter THEN "ready" ELSE state[m]]
    BY Zenon DEF HostCompletes, Waiter
<1>4. /\ state' \in [Machines -> States]
      /\ \A m \in Machines : state[m] = "blocked" <=> state'[m] = "blocked"
    BY <1>2, <1>3, Zenon DEF States
<1>5. WTypes' /\ (\A k \in Machines : GoodTable(k))'
    BY <1>1, <1>2, <1>4, TablesStay, Zenon
<1> QED
    BY <1>1, <1>5, IdleJob, Zenon DEF WInv

(* The operation that closes the resources of an ended machine. *)
LEMMA ClosesEnded ==
    ASSUME NEW m \in Machines, job' = CloseJob(m), Terminal(m)'
    PROVE  GoodJob' /\ job'.vm = m
<1>1. /\ DOMAIN job' = {"vm", "root", "calls", "then", "ok", "bytes"}
      /\ job'.vm = m /\ job'.then = "close"
    BY Zenon DEF CloseJob, NoJob
<1> QED
    BY <1>1, Zenon DEF GoodJob, Terminal

LEMMA ReplyFaultsKeeps == ASSUME WInv, NEW m \in Machines, ReplyFaults(m) PROVE WInv'
<1>1. /\ Ends(m, "faulted", waits[m]) /\ job = NoJob /\ UNCHANGED <<next_wait, next_token, todo>>
      /\ job' = IF m \in Procs THEN job ELSE CloseJob(m)
    BY Zenon DEF ReplyFaults, TakesCompletion
<1>2. /\ waits[m] \in Tables /\ Forest(waits[m])
      /\ next_token' \in Nat /\ todo' \in [Machines -> Seq(Operations)]
      /\ state \in [Machines -> States]
    BY <1>1, Zenon DEF WInv, WTypes, GoodTable
<1>3. WTypes' /\ (\A k \in Machines : GoodTable(k))'
    BY <1>1, <1>2, EndsKeeps, Zenon
<1>4. Terminal(m)'
    BY <1>1, <1>2, Zenon DEF Ends, Terminal
<1>5. GoodJob'
    BY <1>1, <1>4, IdleJob, ClosesEnded, Zenon
<1> QED
    BY <1>3, <1>5, Zenon DEF WInv

LEMMA ServiceKeeps ==
    ASSUME WInv, NEW m \in Machines, finish(m) \/ service_wait_slice(m)
    PROVE  WInv'
<1>1. UNCHANGED <<waits, next_wait, block, state, next_token, todo>>
    BY Zenon DEF finish, service_wait_slice
<1>2. WTypes' /\ (\A k \in Machines : GoodTable(k))'
    BY <1>1, TablesStay, Zenon DEF WInv, WTypes
<1>3. CASE finish(m)
    <2>1. Terminal(m)'
        BY <1>1, <1>3, Zenon DEF finish, Terminal
    <2>2. GoodJob'
        BY <1>3, <2>1, ClosesEnded, Zenon DEF finish
    <2> QED
        BY <1>2, <2>2, Zenon DEF WInv
<1>4. CASE service_wait_slice(m)
    <2>1. block[m] \in DOMAIN waits'[m] /\ ~waits'[m][block[m]].linked
        BY <1>1, <1>4, Zenon DEF service_wait_slice, WInv, GoodTable, Current
    <2>2. GoodJob'
        BY <1>2, <1>4, <2>1, SelectJob, JobOnRoot, Zenon DEF service_wait_slice
    <2> QED
        BY <1>2, <2>2, Zenon DEF WInv
<1> QED
    BY <1>3, <1>4, Zenon

(* The invariant holds at first, and every step keeps it. *)
LEMMA WInvInit == Init => WInv
<1> SUFFICES ASSUME Init PROVE WInv
    BY Zenon
<1>1. WTypes
    BY EmptyTable, WaitAssumption DEF Init, WTypes, States
<1>2. \A m \in Machines : GoodTable(m)
    BY EmptyTable, Zenon DEF Init, GoodTable
<1>3. GoodJob
    BY NoJobFacts, Zenon DEF Init, GoodJob
<1> QED
    BY <1>1, <1>2, <1>3, Zenon DEF WInv

LEMMA WInvStep == WInv /\ [Next]_vars => WInv'
<1> SUFFICES ASSUME WInv, [Next]_vars PROVE WInv'
    BY Zenon
<1>1. CASE UNCHANGED waitVars
    <2>1. WTypes' /\ (\A k \in Machines : GoodTable(k))'
        BY <1>1, TablesStay, Zenon DEF waitVars, WInv, WTypes
    <2>2. GoodJob'
        BY <1>1, Zenon DEF waitVars, WInv, GoodJob, Current, Terminal
    <2> QED
        BY <2>1, <2>2, Zenon DEF WInv
<1>2. CASE World
    BY <1>2, CallsKeep, JobEndsKeeps, HostCompletesKeeps, ServiceKeeps, ReplyFaultsKeeps, Zenon
    DEF World
<1>3. CASE \E m \in Machines : Guest(m)
    BY <1>3, GuestKeeps, Zenon
<1> QED
    BY <1>1, <1>2, <1>3, Zenon DEF Next, Input, vars

(* For every set of machines, every program and every limit: a machine's     *)
(* table of waits is a forest over the tokens it may still use, and a        *)
(* blocked machine waits for a root that is there.  So wait_tree never finds *)
(* a table malformed, in a selection, a cancel or a later wait.              *)
THEOREM WaitTreesCorrect == Spec => []WaitTreeWellFormed
<1>1. WInv => WaitTreeWellFormed
    BY Zenon DEF WInv, GoodTable, WaitTreeWellFormed
<1> QED
    BY <1>1, WInvInit, WInvStep, PTL DEF Spec

----------------------------------------------------------------------------
(* Counting the requests in the channel. *)
Requests(s) == {i \in DOMAIN s : s[i].do = "request"}

LEMMA RequestsFinite ==
    ASSUME NEW S, NEW s \in Seq(S)
    PROVE  IsFiniteSet(Requests(s)) /\ Cardinality(Requests(s)) \in Nat
<1>1. DOMAIN s = 1..Len(s) /\ Len(s) \in Nat
    OBVIOUS
<1>2. IsFiniteSet(1..Len(s))
    BY <1>1, FS_Interval
<1>3. Requests(s) \in SUBSET (1..Len(s))
    BY <1>1, Zenon DEF Requests
<1> QED
    BY <1>2, <1>3, FS_Subset, FS_CardinalityType, Zenon

LEMMA RequestSent ==
    ASSUME NEW S, NEW s \in Seq(S), NEW c \in S
    PROVE  Cardinality(Requests(Append(s, c))) =
               Cardinality(Requests(s)) + (IF c.do = "request" THEN 1 ELSE 0)
<1> DEFINE n == Len(s) + 1
<1>1. /\ DOMAIN Append(s, c) = 1..n /\ DOMAIN s = 1..Len(s) /\ Len(s) \in Nat
      /\ Append(s, c)[n] = c /\ \A i \in 1..Len(s) : Append(s, c)[i] = s[i]
    OBVIOUS
<1>2. n \notin Requests(s)
    BY <1>1 DEF Requests
<1>3. Requests(Append(s, c)) = IF c.do = "request" THEN Requests(s) \cup {n} ELSE Requests(s)
    BY <1>1 DEF Requests
<1>4. Cardinality(Requests(s) \cup {n}) = Cardinality(Requests(s)) + 1
    BY <1>2, RequestsFinite, FS_AddElement, Zenon
<1> QED
    BY <1>3, <1>4, RequestsFinite

LEMMA RequestTaken ==
    ASSUME NEW S, NEW s \in Seq(S), s # <<>>
    PROVE  Cardinality(Requests(s)) =
               Cardinality(Requests(Tail(s))) + (IF Head(s).do = "request" THEN 1 ELSE 0)
<1> DEFINE T == Requests(Tail(s))
<1> DEFINE R == Requests(s) \ {1}
<1> DEFINE f == [i \in T |-> i + 1]
<1>1. /\ DOMAIN s = 1..Len(s) /\ Len(s) \in Nat /\ Len(s) > 0 /\ Head(s) = s[1]
      /\ DOMAIN Tail(s) = 1..(Len(s) - 1) /\ Tail(s) \in Seq(S)
      /\ \A i \in 1..(Len(s) - 1) : Tail(s)[i] = s[i + 1]
    OBVIOUS
<1>2. T \subseteq 1..(Len(s) - 1)
    BY <1>1, Zenon DEF Requests
<1>3. f \in [T -> R]
    <2> SUFFICES ASSUME NEW i \in T PROVE i + 1 \in R
        BY Zenon
    <2> QED
        BY <1>1, <1>2 DEF Requests
<1>4. \A i, j \in T : f[i] = f[j] => i = j
    BY <1>2
<1>5. ASSUME NEW k \in R PROVE \E i \in T : f[i] = k
    <2>1. k \in 2..Len(s) /\ s[k].do = "request"
        BY <1>1 DEF Requests
    <2>2. k - 1 \in 1..(Len(s) - 1) /\ Tail(s)[k - 1] = s[k]
        BY <1>1, <2>1
    <2>3. k - 1 \in T
        BY <1>1, <2>1, <2>2, Zenon DEF Requests
    <2> QED
        BY <2>1, <2>3
<1> HIDE DEF f
<1>6. f \in Bijection(T, R)
    BY <1>3, <1>4, <1>5, Zenon DEF Bijection, Injection, Surjection, IsInjective
<1>7. Cardinality(R) = Cardinality(T)
    <2>1. IsFiniteSet(T)
        BY <1>1, RequestsFinite, Zenon
    <2> QED
        BY <1>6, <2>1, FS_Bijection, Zenon DEF ExistsBijection
<1>8. 1 \in Requests(s) <=> Head(s).do = "request"
    BY <1>1 DEF Requests
<1>9. Cardinality(R) = IF 1 \in Requests(s) THEN Cardinality(Requests(s)) - 1
                       ELSE Cardinality(Requests(s))
    BY RequestsFinite, FS_RemoveElement, Zenon
<1>10. Cardinality(Requests(s)) \in Nat /\ Cardinality(T) \in Nat
    BY <1>1, RequestsFinite, Zenon
<1> QED
    BY <1>7, <1>8, <1>9, <1>10, SMTT(30)

----------------------------------------------------------------------------
(* The input service. *)

LEMMA ServiceInit == Init => SInv
<1> SUFFICES ASSUME Init PROVE SInv
    BY Zenon
<1>1. Requests(<<>>) = {}
    BY DEF Requests
<1>2. ServiceTypes
    BY InputAssumption DEF Init, InputInit, ServiceTypes
<1>3. PendingExact
    BY <1>1, FS_EmptySet DEF Init, InputInit, PendingExact, Requests
<1> QED
    BY <1>2, <1>3, Zenon DEF SInv

LEMMA Exact ==
    SInv <=> /\ ServiceTypes
             /\ pending_count = Cardinality(Requests(commands)) + Len(pending)
                                + (IF phase = "release" THEN 1 ELSE 0)
BY Zenon DEF SInv, PendingExact, Requests

LEMMA ExactAfter ==
    SInv' <=> /\ ServiceTypes'
              /\ pending_count' = Cardinality(Requests(commands')) + Len(pending')
                                  + (IF phase' = "release" THEN 1 ELSE 0)
BY Zenon DEF SInv, PendingExact, Requests

LEMMA ServiceStays ==
    ASSUME SInv, UNCHANGED <<unread, reader, data, commands, pending, source, phase, pending_count>>
    PROVE  SInv'
BY Zenon DEF SInv, PendingExact, ServiceTypes

(* A request enters the channel. *)
LEMMA SubmitKeeps ==
    ASSUME SInv, NEW t \in Nat, NEW n \in Nat, NEW w \in BOOLEAN, submit_stream(t, n, w)
    PROVE  SInv'
<1> DEFINE c == Request(t, n, w)
<1>1. c \in Commands /\ c.do = "request"
    BY Zenon DEF Request, Commands
<1>2. commands \in Seq(Commands) /\ commands' = Append(commands, c)
    BY Zenon DEF SInv, ServiceTypes, submit_stream
<1> HIDE DEF c
<1>3. Cardinality(Requests(commands')) = Cardinality(Requests(commands)) + 1
    BY <1>1, <1>2, RequestSent, Zenon
<1>4. commands' \in Seq(Commands)
    BY <1>1, <1>2
<1>5. ServiceTypes'
    <2>1. pending_count' \in 0..MAX_PENDING_IO
        BY InputAssumption DEF SInv, ServiceTypes, submit_stream, Full
    <2> QED
        BY <1>4, <2>1, Zenon DEF SInv, ServiceTypes, submit_stream
<1>6. Cardinality(Requests(commands)) \in Nat /\ Len(pending) \in Nat
    BY <1>2, RequestsFinite, SMTT(30) DEF SInv, ServiceTypes
<1> QED
    BY <1>3, <1>5, <1>6, Exact, ExactAfter, SMTT(30) DEF submit_stream

(* A commit or a cancel enters the channel. *)
LEMMA AskKeeps ==
    ASSUME SInv, NEW c \in Commands, c.do # "request", Ask(c)
    PROVE  SInv'
<1>1. commands \in Seq(Commands) /\ commands' = Append(commands, c)
    BY Zenon DEF SInv, ServiceTypes, Ask
<1>2. Cardinality(Requests(commands')) = Cardinality(Requests(commands)) + 0
    BY <1>1, RequestSent, Zenon
<1>3. commands' \in Seq(Commands)
    BY <1>1
<1>4. ServiceTypes'
    BY <1>3, Zenon DEF SInv, ServiceTypes, Ask
<1>5. Cardinality(Requests(commands)) \in Nat
    BY <1>1, RequestsFinite, Zenon
<1> QED
    BY <1>2, <1>4, <1>5, Exact, ExactAfter, SMTT(30) DEF Ask

(* The reader passes on bytes, or the end of the stream. *)
LEMMA ReaderKeeps ==
    ASSUME SInv, ReaderReads
    PROVE  SInv'
<1>1. /\ unread \in Seq(Nat) /\ data \in Seq(Chunks)
      /\ reader \in {"none", "reading", "ended"}
    BY Zenon DEF SInv, ServiceTypes
<1>2. unread' \in Seq(Nat) /\ data' \in Seq(Chunks) /\ reader' \in {"none", "reading", "ended"}
    <2>1. CASE \E n \in 1..INPUT_CHUNK_BYTES :
                 /\ n <= Len(unread)
                 /\ data' = Append(data, [kind |-> "bytes", bytes |-> SubSeq(unread, 1, n)])
                 /\ unread' = SubSeq(unread, n + 1, Len(unread))
                 /\ UNCHANGED reader
        <3>1. PICK n \in 1..INPUT_CHUNK_BYTES :
                 /\ n <= Len(unread)
                 /\ data' = Append(data, [kind |-> "bytes", bytes |-> SubSeq(unread, 1, n)])
                 /\ unread' = SubSeq(unread, n + 1, Len(unread))
                 /\ UNCHANGED reader
            BY <2>1, Zenon
        <3>2. n \in Nat /\ n >= 1
            BY InputAssumption
        <3>3. SubSeq(unread, 1, n) \in Seq(Nat) /\ SubSeq(unread, n + 1, Len(unread)) \in Seq(Nat)
            BY <1>1, <3>1, <3>2, SMTT(30)
        <3>4. [kind |-> "bytes", bytes |-> SubSeq(unread, 1, n)] \in Chunks
            BY <3>3, Zenon DEF Chunks
        <3> QED
            BY <1>1, <3>1, <3>3, <3>4, SMTT(30)
    <2>2. CASE \E kind \in {"eof", "failed"} :
                 /\ data' = Append(data, [kind |-> kind, bytes |-> <<>>])
                 /\ reader' = "ended"
                 /\ UNCHANGED unread
        <3>1. PICK kind \in {"eof", "failed"} :
                 /\ data' = Append(data, [kind |-> kind, bytes |-> <<>>])
                 /\ reader' = "ended"
                 /\ UNCHANGED unread
            BY <2>2, Zenon
        <3>2. [kind |-> kind, bytes |-> <<>>] \in Chunks
            BY DEF Chunks
        <3> QED
            BY <1>1, <3>1, <3>2, SMTT(30)
    <2> QED
        BY <2>1, <2>2, Zenon DEF ReaderReads
<1>3. UNCHANGED <<commands, pending, source, phase, pending_count>>
    BY Zenon DEF ReaderReads
<1> QED
    BY <1>2, <1>3, Zenon DEF SInv, PendingExact, ServiceTypes

LEMMA WithoutOne ==
    ASSUME NEW S, NEW s \in Seq(S), NEW i \in DOMAIN s
    PROVE  Without(s, i) \in Seq(S) /\ Len(Without(s, i)) = Len(s) - 1
<1>1. i \in 1..Len(s) /\ Len(s) \in Nat
    OBVIOUS
<1>2. SubSeq(s, 1, i - 1) \in Seq(S) /\ Len(SubSeq(s, 1, i - 1)) = i - 1
    BY <1>1
<1>3. SubSeq(s, i + 1, Len(s)) \in Seq(S) /\ Len(SubSeq(s, i + 1, Len(s))) = Len(s) - i
    BY <1>1
<1>4. ASSUME NEW a \in Seq(S), NEW b \in Seq(S)
      PROVE  a \o b \in Seq(S) /\ Len(a \o b) = Len(a) + Len(b)
    OBVIOUS
<1>5. /\ Without(s, i) \in Seq(S)
      /\ Len(Without(s, i)) = Len(SubSeq(s, 1, i - 1)) + Len(SubSeq(s, i + 1, Len(s)))
    BY <1>2, <1>3, <1>4, Zenon DEF Without
<1>6. (i - 1) + (Len(s) - i) = Len(s) - 1
    BY <1>1
<1> QED
    BY <1>2, <1>3, <1>5, <1>6, Zenon

(* The worker handles a command: a request moves to the pending reads, and   *)
(* a cancel of a pending read gives up its place in the count.               *)
LEMMA CommandKeeps ==
    ASSUME SInv, WorkerCommand
    PROVE  SInv'
<1> DEFINE c == Head(commands)
<1>1. /\ commands \in Seq(Commands) /\ pending \in Seq(Reads) /\ commands # <<>>
      /\ pending_count \in 0..MAX_PENDING_IO /\ reader \in {"none", "reading", "ended"}
    BY Zenon DEF SInv, ServiceTypes, WorkerCommand
<1>2. c \in Commands /\ commands' \in Seq(Commands) /\ commands' = Tail(commands)
    BY <1>1 DEF WorkerCommand
<1>3. /\ handle_input_command(c) /\ UNCHANGED <<unread, data, source, phase>>
      /\ phase = "commands" /\ reader' \in {"none", "reading", "ended"}
    BY <1>1, Zenon DEF WorkerCommand
<1>4. Cardinality(Requests(commands)) = Cardinality(Requests(commands'))
                                        + (IF c.do = "request" THEN 1 ELSE 0)
    BY <1>1, <1>2, RequestTaken, Zenon
<1>5. /\ Cardinality(Requests(commands)) \in Nat /\ Cardinality(Requests(commands')) \in Nat
      /\ Len(pending) \in Nat
    <2>1. Cardinality(Requests(commands)) \in Nat
        BY <1>1, RequestsFinite, Zenon
    <2>2. Cardinality(Requests(commands')) \in Nat
        BY <1>2, RequestsFinite, Zenon
    <2> QED
        BY <1>1, <2>1, <2>2
<1>6. pending_count = Cardinality(Requests(commands)) + Len(pending)
    BY <1>3, <1>5, Exact, SMTT(30)
<1> HIDE DEF c
<1>7. /\ pending' \in Seq(Reads)
      /\ pending_count' = Cardinality(Requests(commands')) + Len(pending')
      /\ pending_count' <= pending_count
    <2>1. CASE TakesRequest(c)
        <3>1. c.do = "request" /\ c \in Commands
            BY <1>2, <2>1, Zenon DEF TakesRequest
        <3>2. [token |-> c.token, count |-> c.count, wait_source |-> c.wait_source] \in Reads
            BY <3>1, Zenon DEF Commands, Reads
        <3> QED
            BY <1>1, <1>4, <1>5, <1>6, <2>1, <3>1, <3>2, SMTT(30) DEF TakesRequest
    <2>2. CASE CommitsRead(c) \/ CancelsAnswered(c)
        BY <1>1, <1>4, <1>5, <1>6, <2>2, SMTT(30) DEF CommitsRead, CancelsAnswered
    <2>3. CASE CancelsPending(c)
        <3>1. PICK i \in DOMAIN pending : pending' = Without(pending, i)
            BY <2>3, Zenon DEF CancelsPending
        <3>2. pending' \in Seq(Reads) /\ Len(pending') = Len(pending) - 1
            BY <1>1, <3>1, WithoutOne, Zenon
        <3>3. c.do # "request" /\ pending_count' = pending_count - 1
            BY <2>3, Zenon DEF CancelsPending
        <3> HIDE <2>3
        <3> QED
            BY <1>1, <1>4, <1>5, <1>6, <3>2, <3>3, SMTT(30)
    <2> QED
        BY <1>3, <2>1, <2>2, <2>3, Zenon DEF handle_input_command
<1>8. pending_count' \in 0..MAX_PENDING_IO
    BY <1>1, <1>5, <1>7, InputAssumption, SMTT(30)
<1>9. ServiceTypes'
    BY <1>2, <1>3, <1>7, <1>8, Zenon DEF SInv, ServiceTypes
<1>10. pending_count' = Cardinality(Requests(commands')) + Len(pending')
                        + (IF phase' = "release" THEN 1 ELSE 0)
    BY <1>3, <1>5, <1>7
<1> QED
    BY <1>9, <1>10, ExactAfter, Zenon

(* The rest of the worker's loop. *)
LEMMA WorkerKeeps ==
    ASSUME SInv, input_worker
    PROVE  SInv'
<1>1. /\ commands \in Seq(Commands) /\ pending \in Seq(Reads) /\ data \in Seq(Chunks)
      /\ pending_count \in 0..MAX_PENDING_IO /\ source \in {"open", "eof", "failed"}
    BY Zenon DEF SInv, ServiceTypes
<1>2. Cardinality(Requests(commands)) \in Nat /\ Len(pending) \in Nat
    BY <1>1, RequestsFinite
<1>3. CASE WorkerData
    <2>1. Head(data) \in Chunks /\ data' \in Seq(Chunks)
        BY <1>1, <1>3 DEF WorkerData
    <2>2. source' \in {"open", "eof", "failed"}
        BY <1>1, <1>3, <2>1, Zenon DEF WorkerData, Chunks
    <2> QED
        BY <1>3, <2>1, <2>2, Zenon DEF WorkerData, SInv, PendingExact, ServiceTypes
<1>4. CASE WorkerAnswers
    <2>1. pending' \in Seq(Reads) /\ Len(pending') = Len(pending) - 1 /\ Len(pending) > 0
        BY <1>1, <1>4 DEF WorkerAnswers
    <2>2. /\ phase = "answer" /\ phase' = "release"
          /\ UNCHANGED <<unread, reader, data, commands, source, pending_count>>
        BY <1>4, Zenon DEF WorkerAnswers
    <2>3. ServiceTypes'
        BY <2>1, <2>2, Zenon DEF SInv, ServiceTypes
    <2> QED
        BY <1>2, <2>1, <2>2, <2>3, Exact, ExactAfter, SMTT(30)
<1>5. CASE WorkerReleases
    <2>1. /\ phase = "release" /\ phase' = "answer" /\ pending_count' = pending_count - 1
          /\ UNCHANGED <<unread, reader, data, commands, pending, source>>
        BY <1>5, Zenon DEF WorkerReleases
    <2>2. pending_count = Cardinality(Requests(commands)) + Len(pending) + 1
        BY <2>1, Exact, Zenon
    <2>3. pending_count' \in 0..MAX_PENDING_IO
        <3>1. MAX_PENDING_IO \in Nat
            BY InputAssumption, Zenon
        <3> QED
            BY <1>1, <1>2, <2>1, <2>2, <3>1
    <2>4. ServiceTypes'
        BY <2>1, <2>3, Zenon DEF SInv, ServiceTypes
    <2> QED
        BY <1>1, <1>2, <2>1, <2>2, <2>4, ExactAfter, SMTT(30)
<1>6. CASE WorkerMovesOn
    <2>1. /\ UNCHANGED <<unread, reader, data, commands, pending, source, pending_count>>
          /\ phase # "release" /\ phase' \in {"commands", "data", "answer"}
        BY <1>6, Zenon DEF WorkerMovesOn
    <2> QED
        BY <2>1, Zenon DEF SInv, PendingExact, ServiceTypes
<1> QED
    BY <1>3, <1>4, <1>5, <1>6, CommandKeeps, Zenon DEF input_worker

----------------------------------------------------------------------------
(* The tables, the tokens and the mailboxes. *)

(* What a step of machine m does to each of them. *)
StateEffect(m) ==
    \/ UNCHANGED <<state, direct>>
    \/ \E s \in States \ {"waiting"} : state' = [state EXCEPT ![m] = s] /\ UNCHANGED direct
    \/ /\ state' = [state EXCEPT ![m] = "waiting"]
       /\ direct' = [direct EXCEPT ![m] = next_token]

JobEffect(m) == job' = NoJob \/ (job'.vm = m /\ UNCHANGED state)

TokenEffect ==
    /\ next_token' \in {next_token, next_token + 1}
    /\ \/ wait_services' \subseteq wait_services
       \/ wait_services' = wait_services \cup {next_token} /\ next_token' = next_token + 1
    /\ DOMAIN host_completions' \subseteq DOMAIN host_completions

TableShrinks(m) ==
    /\ DOMAIN waits'[m] \subseteq DOMAIN waits[m]
    /\ \A t \in DOMAIN waits'[m] : waits'[m][t].scope = waits[m][t].scope

TableGrows(m) ==
    /\ ~TableFull(m)
    /\ DOMAIN waits'[m] = DOMAIN waits[m] \cup {next_wait[m]}
    /\ \A t \in DOMAIN waits[m] : waits'[m][t].scope = waits[m][t].scope
    /\ waits'[m][next_wait[m]].scope < next_token'

TableEffect == \A k \in Machines : TableShrinks(k) \/ TableGrows(k)

Effects(m) ==
    /\ StateEffect(m) /\ JobEffect(m) /\ TokenEffect /\ TableEffect
    /\ mail' \in [Procs -> Mailboxes]

InputEffect ==
    \/ UNCHANGED inputVars
    \/ \E n \in Nat, w \in BOOLEAN : submit_stream(next_token, n, w)

(* A finite table of tokens below the next. *)
LEMMA RoomyKept ==
    ASSUME WInv, NEW m \in Machines, Roomy(m), TableShrinks(m) \/ TableGrows(m),
           next_token \in Nat, next_token' \in {next_token, next_token + 1}
    PROVE  Roomy(m)'
<1>1. /\ waits[m] \in Tables /\ next_wait[m] \in Nat
      /\ DOMAIN waits[m] \subseteq 1..(next_wait[m] - 1)
    BY Zenon DEF WInv, WTypes, GoodTable
<1>2. \A t \in DOMAIN waits[m] : waits[m][t].scope \in Nat
    BY <1>1, TableIsFunction, Zenon DEF Entries
<1>3. IsFiniteSet(DOMAIN waits[m]) /\ Cardinality(DOMAIN waits[m]) \in Nat
    <2>0. 1 \in Int /\ next_wait[m] - 1 \in Int
        BY <1>1
    <2>1. IsFiniteSet(1..(next_wait[m] - 1))
        BY <2>0, FS_Interval, Zenon
    <2>2. IsFiniteSet(DOMAIN waits[m])
        BY <1>1, <2>1, FS_Subset, Zenon
    <2> QED
        BY <2>2, FS_CardinalityType, Zenon
<1>4. CASE TableShrinks(m)
    <2>1. IsFiniteSet(DOMAIN waits'[m]) /\ Cardinality(DOMAIN waits'[m]) <= Cardinality(DOMAIN waits[m])
        BY <1>3, <1>4, FS_Subset, Zenon DEF TableShrinks
    <2>2. Cardinality(DOMAIN waits'[m]) \in Nat
        BY <2>1, FS_CardinalityType, Zenon
    <2>3. Cardinality(DOMAIN waits'[m]) <= max_waits
        BY <1>3, <2>1, <2>2, WaitAssumption, SMTT(30) DEF Roomy
    <2>4. \A t \in DOMAIN waits'[m] : waits'[m][t].scope < next_token'
        BY <1>2, <1>4, SMTT(30) DEF TableShrinks, Roomy
    <2> QED
        BY <2>3, <2>4, Zenon DEF Roomy
<1>5. CASE TableGrows(m)
    <2>1. Cardinality(DOMAIN waits'[m]) = Cardinality(DOMAIN waits[m]) + 1
        <3>1. next_wait[m] \notin DOMAIN waits[m]
            BY <1>1, SMTT(30)
        <3> QED
            BY <1>3, <1>5, <3>1, FS_AddElement, Zenon DEF TableGrows
    <2>2. Cardinality(DOMAIN waits'[m]) <= max_waits
        BY <1>3, <1>5, <2>1, WaitAssumption, SMTT(30) DEF TableGrows, TableFull
    <2>3. \A t \in DOMAIN waits'[m] : waits'[m][t].scope < next_token'
        BY <1>2, <1>5 DEF TableGrows, Roomy
    <2> QED
        BY <2>2, <2>3, Zenon DEF Roomy
<1> QED
    BY <1>4, <1>5, Zenon

LEMMA WaitingKept ==
    ASSUME WInv, Waiting, TokenTypes, NEW m \in Machines, state[m] # "waiting",
           StateEffect(m), JobEffect(m)
    PROVE  Waiting'
<1>1. /\ direct \in [Machines -> Nat] /\ state \in [Machines -> States]
      /\ next_token \in Nat /\ next_token # 0
      /\ \A k \in Machines : state[k] = "waiting" <=> direct[k] # 0
      /\ job # NoJob => job.vm \in Machines /\ state[job.vm] # "waiting"
    BY Zenon DEF WInv, WTypes, GoodJob, Waiting, TokenTypes
<1>2. direct' \in [Machines -> Nat]
    BY <1>1, Zenon DEF StateEffect
<1>3. \A k \in Machines : state'[k] = "waiting" <=> direct'[k] # 0
    <2>1. CASE UNCHANGED <<state, direct>>
        BY <1>1, <2>1, Zenon
    <2>2. CASE \E s \in States \ {"waiting"} : state' = [state EXCEPT ![m] = s] /\ UNCHANGED direct
        BY <1>1, <2>2, Zenon
    <2>3. CASE /\ state' = [state EXCEPT ![m] = "waiting"]
               /\ direct' = [direct EXCEPT ![m] = next_token]
        BY <1>1, <2>3, Zenon
    <2> QED
        BY <2>1, <2>2, <2>3, Zenon DEF StateEffect
<1>4. job' # NoJob => state'[job'.vm] # "waiting"
    BY Zenon DEF JobEffect
<1> QED
    BY <1>2, <1>3, <1>4, Zenon DEF Waiting

(* Steps of one machine. *)
LEMMA TypesKept ==
    ASSUME TInv, NEW m \in Machines, state[m] # "waiting", Effects(m), WInv', SInv'
    PROVE  TInv'
<1>1. TokenTypes'
    <2>1. TokenTypes /\ TokenEffect
        BY Zenon DEF TInv, Effects
    <2>2. next_token \in Nat \ {0} /\ next_token' \in {next_token, next_token + 1}
        BY <2>1, Zenon DEF TokenTypes, TokenEffect
    <2>3. next_token' \in Nat \ {0}
        BY <2>2, SMTT(30)
    <2>4. 1..(next_token - 1) \subseteq 1..(next_token' - 1)
        <3>1. PICK n : n = next_token'
            BY Zenon
        <3>2. n \in Nat /\ next_token \in Nat /\ next_token <= n
            BY <2>2, <3>1, SMTT(30)
        <3>3. 1..(next_token - 1) \subseteq 1..(n - 1)
            BY <3>2
        <3> QED
            BY <3>1, <3>3, Zenon
    <2>5. wait_services' \subseteq 1..(next_token' - 1)
        <3>1. CASE wait_services' \subseteq wait_services
            BY <2>1, <2>4, <3>1, Zenon DEF TokenTypes
        <3>2. CASE wait_services' = wait_services \cup {next_token} /\ next_token' = next_token + 1
            <4>1. next_token \in 1..(next_token' - 1)
                BY <2>2, <3>2, SMTT(30)
            <4> QED
                BY <2>1, <2>4, <3>2, <4>1, Zenon DEF TokenTypes
        <3> QED
            BY <2>1, <3>1, <3>2, Zenon DEF TokenEffect
    <2>6. DOMAIN host_completions' \subseteq 1..(next_token' - 1)
        BY <2>1, <2>4, Zenon DEF TokenTypes, TokenEffect
    <2> QED
        BY <2>3, <2>5, <2>6, Zenon DEF TokenTypes
<1>2. Waiting'
    BY WaitingKept, Zenon DEF TInv, Effects
<1>3. \A k \in Machines : Roomy(k)'
    <2>1. next_token \in Nat /\ next_token' \in {next_token, next_token + 1}
        BY Zenon DEF TInv, Effects, TokenEffect, TokenTypes
    <2> QED
        BY <2>1, RoomyKept, Zenon DEF TInv, Effects, TableEffect
<1> QED
    BY <1>1, <1>2, <1>3, Zenon DEF TInv, Effects

LEMMA StaysEffect ==
    ASSUME UNCHANGED waits PROVE TableEffect
BY Zenon DEF TableEffect, TableShrinks

LEMMA AllocatesEffect ==
    ASSUME WInv, NEW m \in Machines, NEW e, Allocates(m, e), e.scope < next_token'
    PROVE  TableEffect
<1>1. /\ waits \in [Machines -> Tables] /\ next_wait[m] \in Nat
      /\ DOMAIN waits[m] \subseteq 1..(next_wait[m] - 1)
    BY Zenon DEF WInv, WTypes, GoodTable
<1>2. waits'[m] = WithWait(m, e) /\ ~TableFull(m)
    BY <1>1, Zenon DEF Allocates
<1>3. \A k \in Machines \ {m} : waits'[k] = waits[k]
    BY <1>1, Zenon DEF Allocates
<1>4. \A k \in Machines \ {m} : TableShrinks(k)
    BY <1>3, Zenon DEF TableShrinks
<1>5. next_wait[m] \notin DOMAIN waits[m]
    BY <1>1
<1>6. DOMAIN WithWait(m, e) = DOMAIN waits[m] \cup {next_wait[m]}
    BY Zenon DEF WithWait
<1>7. WithWait(m, e)[next_wait[m]] = e
    BY Zenon DEF WithWait
<1>8. \A t \in DOMAIN waits[m] : WithWait(m, e)[t].scope = waits[m][t].scope
    <2> SUFFICES ASSUME NEW t \in DOMAIN waits[m]
                 PROVE  WithWait(m, e)[t].scope = waits[m][t].scope
        BY Zenon
    <2>1. waits[m][t] \in Entries
        BY <1>1, TableIsFunction, Zenon
    <2>2. [waits[m][t] EXCEPT !.linked = TRUE].scope = waits[m][t].scope
        BY <2>1, Zenon DEF Entries
    <2>3. WithWait(m, e)[t] \in {waits[m][t], [waits[m][t] EXCEPT !.linked = TRUE]}
        BY <1>5, Zenon DEF WithWait
    <2> QED
        BY <2>2, <2>3, Zenon
<1>9. TableGrows(m)
    BY <1>2, <1>6, <1>7, <1>8, Zenon DEF TableGrows
<1> QED
    BY <1>4, <1>9, Zenon DEF TableEffect

LEMMA EndsEffect ==
    ASSUME WInv, NEW m \in Machines, mail \in [Procs -> Mailboxes],
           NEW how \in {"done", "faulted"}, NEW w, Ends(m, how, w),
           DOMAIN w \subseteq DOMAIN waits[m], \A t \in DOMAIN w : w[t].scope = waits[m][t].scope
    PROVE  /\ TableEffect /\ mail' \in [Procs -> Mailboxes]
           /\ \E s \in States \ {"waiting"} : state' = [state EXCEPT ![m] = s]
<1>1. waits \in [Machines -> Tables]
    BY Zenon DEF WInv, WTypes
<1>2. waits' = [waits EXCEPT ![m] = IF m \in Procs THEN <<>> ELSE w]
    BY Zenon DEF Ends
<1>3. TableShrinks(m)
    <2>1. CASE m \in Procs
        BY <1>1, <1>2, <2>1, EmptyTable, Zenon DEF TableShrinks
    <2>2. CASE m \notin Procs
        BY <1>1, <1>2, <2>2, Zenon DEF TableShrinks
    <2> QED
        BY <2>1, <2>2, Zenon
<1>4. \A k \in Machines \ {m} : TableShrinks(k)
    BY <1>1, <1>2, Zenon DEF TableShrinks
<1>5. mail' \in [Procs -> Mailboxes]
    <2>1. CASE m \in Procs
        <3>1. mail' = [mail EXCEPT ![m].queue = 0]
            BY <2>1, Zenon DEF Ends
        <3> QED
            BY <3>1, <2>1, Zenon DEF Mailboxes
    <2>2. CASE m \notin Procs
        BY <2>2, Zenon DEF Ends
    <2> QED
        BY <2>1, <2>2, Zenon
<1>6. state' = [state EXCEPT ![m] = how] /\ how \in States \ {"waiting"}
    BY Zenon DEF Ends, States
<1> QED
    BY <1>3, <1>4, <1>5, <1>6, Zenon DEF TableEffect

(* What every guest operation has in common. *)
LEMMA GuestFacts ==
    ASSUME TInv, NEW m \in Machines, Acts(m)
    PROVE  /\ WInv /\ job = NoJob /\ state[m] = "ready" /\ mail \in [Procs -> Mailboxes]
           /\ next_token \in Nat \ {0} /\ next_token + 1 \in Nat
           /\ 0 < next_token /\ 0 < next_token + 1 /\ next_token < next_token + 1
           /\ next_token \in {next_token, next_token + 1}
<1>1. WInv /\ mail \in [Procs -> Mailboxes] /\ next_token \in Nat \ {0}
    BY Zenon DEF TInv, TokenTypes
<1> QED
    BY <1>1, ActsFacts

LEMMA FaultsEffect ==
    ASSUME TInv, NEW m \in Machines, Acts(m), Faults(m) \/ Stops(m)
    PROVE  Effects(m) /\ InputEffect
<1>1. PICK how \in {"done", "faulted"} : Ends(m, how, waits[m])
    BY Zenon DEF Faults, Stops
<1>2. UNCHANGED <<inputVars, direct, host_completions, next_token, wait_services, job>>
    BY Zenon DEF Faults, Stops
<1>3. /\ TableEffect /\ mail' \in [Procs -> Mailboxes]
      /\ \E s \in States \ {"waiting"} : state' = [state EXCEPT ![m] = s]
    BY <1>1, GuestFacts, EndsEffect, Zenon
<1> QED
    BY <1>2, <1>3, GuestFacts, Zenon
    DEF Effects, StateEffect, JobEffect, TokenEffect, InputEffect

(* A leaf is added, or a read begins. *)
LEMMA LeafEffects ==
    ASSUME TInv, NEW m \in Machines, Acts(m), NEW n \in Nat,
           receive_wait(m) \/ read_wait(m, n) \/ read_wait_refused(m) \/ read_bytes(m, n)
    PROVE  Effects(m) /\ InputEffect
<1>1. /\ WInv /\ job = NoJob /\ state[m] = "ready" /\ mail \in [Procs -> Mailboxes]
      /\ next_token \in Nat \ {0} /\ next_token + 1 \in Nat
      /\ 0 < next_token /\ 0 < next_token + 1 /\ next_token < next_token + 1
      /\ next_token \in {next_token, next_token + 1}
      /\ next_token + 1 \in {next_token, next_token + 1}
    BY GuestFacts, Zenon
<1>2. CASE receive_wait(m)
    <2>1. CASE Faults(m)
        BY <2>1, FaultsEffect, Zenon
    <2>2. CASE /\ Allocates(m, Entry("receive", 0, FALSE, <<>>))
               /\ UNCHANGED <<inputVars, state, block, direct, mail, host_completions, next_token,
                              wait_services, job, overlap, orphaned>>
        <3>1. TableEffect
            BY <1>1, <2>2, AllocatesEffect, Zenon DEF Entry
        <3> QED
            BY <1>1, <2>2, <3>1, Zenon
            DEF Effects, StateEffect, JobEffect, TokenEffect, InputEffect
    <2> QED
        BY <1>2, <2>1, <2>2, Zenon DEF receive_wait
<1>3. CASE read_wait(m, n)
    <2>1. /\ submit_stream(next_token, n, TRUE) /\ next_token' = next_token + 1
          /\ wait_services' = wait_services \cup {next_token}
          /\ UNCHANGED <<state, direct, mail, host_completions>>
        BY <1>3, Zenon DEF read_wait, Starts
    <2>2. TableEffect /\ JobEffect(m)
        <3>1. CASE Allocates(m, Entry("read", next_token, FALSE, <<>>)) /\ UNCHANGED job
            <4>1. TableEffect
                BY <1>1, <2>1, <3>1, AllocatesEffect, Zenon DEF Entry
            <4> QED
                BY <1>1, <3>1, <4>1, Zenon DEF JobEffect
        <3>2. CASE job' = LimitJob(m, next_token) /\ UNCHANGED <<waits, next_wait>>
            BY <2>1, <3>2, StaysEffect, Zenon DEF JobEffect, LimitJob, NoJob
        <3> QED
            BY <1>3, <3>1, <3>2, Zenon DEF read_wait
    <2> QED
        BY <1>1, <2>1, <2>2, Zenon DEF Effects, StateEffect, TokenEffect, InputEffect
<1>4. CASE read_wait_refused(m)
    <2>1. /\ next_token' = next_token + 1
          /\ UNCHANGED <<inputVars, direct, host_completions, wait_services, job>>
        BY <1>4, Zenon DEF read_wait_refused
    <2>2. TableEffect /\ StateEffect(m) /\ mail' \in [Procs -> Mailboxes]
        <3>1. CASE Allocates(m, Entry("read", 0, TRUE, <<>>)) /\ UNCHANGED <<state, block, mail>>
            <4>1. TableEffect
                BY <1>1, <2>1, <3>1, AllocatesEffect, Zenon DEF Entry
            <4> QED
                BY <1>1, <2>1, <3>1, <4>1, Zenon DEF StateEffect
        <3>2. CASE Ends(m, "faulted", waits[m])
            <4>1. /\ TableEffect /\ mail' \in [Procs -> Mailboxes]
                  /\ \E s \in States \ {"waiting"} : state' = [state EXCEPT ![m] = s]
                BY <1>1, <3>2, EndsEffect, Zenon
            <4> QED
                BY <2>1, <4>1, Zenon DEF StateEffect
        <3> QED
            BY <1>4, <3>1, <3>2, Zenon DEF read_wait_refused
    <2> QED
        BY <1>1, <2>1, <2>2, Zenon DEF Effects, JobEffect, TokenEffect, InputEffect
<1>5. CASE read_bytes(m, n)
    <2>1. /\ UNCHANGED <<waits, mail, host_completions, wait_services, job>>
          /\ next_token' = next_token + 1
        BY <1>5, Zenon DEF read_bytes, Starts
    <2>2. StateEffect(m) /\ InputEffect
        BY <1>5, Zenon DEF read_bytes, Starts, StateEffect, InputEffect
    <2> QED
        BY <1>1, <2>1, <2>2, StaysEffect, Zenon DEF Effects, JobEffect, TokenEffect
<1> QED
    BY <1>2, <1>3, <1>4, <1>5, Zenon

LEMMA ChooseEffects ==
    ASSUME TInv, NEW m \in Machines, Acts(m), NEW a, NEW b, choose(m, a, b)
    PROVE  Effects(m) /\ InputEffect
<1>1. CASE Faults(m)
    BY <1>1, FaultsEffect, Zenon
<1>2. CASE /\ Allocates(m, Entry("choice", 0, FALSE, <<a, b>>))
           /\ UNCHANGED <<inputVars, state, block, direct, mail, host_completions, next_token,
                          wait_services, job, overlap, orphaned>>
    <2>1. TableEffect
        BY <1>2, GuestFacts, AllocatesEffect, Zenon DEF Entry
    <2> QED
        BY <1>2, <2>1, GuestFacts, Zenon
        DEF Effects, StateEffect, JobEffect, TokenEffect, InputEffect
<1> QED
    BY <1>1, <1>2, Zenon DEF choose

(* A selection takes at most one message and drops answers. *)
LEMMA SelectEffects ==
    ASSUME mail \in [Procs -> Mailboxes], NEW m, NEW w, NEW root, complete_ready_wait(m, w, root)
    PROVE  /\ job'.vm = m /\ mail' \in [Procs -> Mailboxes]
           /\ DOMAIN host_completions' \subseteq DOMAIN host_completions
<1>1. PICK S : host_completions' = [t \in DOMAIN host_completions \ S |-> host_completions[t]]
    BY Zenon DEF complete_ready_wait
<1>2. DOMAIN host_completions' \subseteq DOMAIN host_completions
    BY <1>1, Zenon
<1>3. \/ mail' = mail
      \/ mail[m].queue > 0 /\ mail' = [mail EXCEPT ![m].queue = @ - 1]
    BY Zenon DEF complete_ready_wait
<1>4. mail' \in [Procs -> Mailboxes]
    BY <1>3 DEF Mailboxes
<1> QED
    BY <1>2, <1>4, SelectJob, Zenon

LEMMA SelectsOrBlocksEffects ==
    ASSUME TInv, NEW m \in Machines, Acts(m), NEW w, NEW root, SelectsOrBlocks(m, w, root),
           TableEffect
    PROVE  Effects(m) /\ InputEffect
<1>1. UNCHANGED <<inputVars, direct, next_token, wait_services>>
    BY Zenon DEF SelectsOrBlocks
<1>2. CASE complete_ready_wait(m, w, root) /\ UNCHANGED <<state, block>>
    <2>1. /\ job'.vm = m /\ mail' \in [Procs -> Mailboxes]
          /\ DOMAIN host_completions' \subseteq DOMAIN host_completions
        BY <1>2, GuestFacts, SelectEffects, Zenon
    <2> QED
        BY <1>1, <1>2, <2>1, Zenon DEF Effects, StateEffect, JobEffect, TokenEffect, InputEffect
<1>3. CASE /\ state' = [state EXCEPT ![m] = "blocked"]
           /\ UNCHANGED <<mail, host_completions, job>>
    <2>1. "blocked" \in States \ {"waiting"}
        BY Zenon DEF States
    <2> QED
        BY <1>1, <1>3, <2>1, GuestFacts, Zenon
        DEF Effects, StateEffect, JobEffect, TokenEffect, InputEffect
<1> QED
    BY <1>2, <1>3, Zenon DEF SelectsOrBlocks

LEMMA WaitEffects ==
    ASSUME TInv, NEW m \in Machines, Acts(m), NEW t, wait(m, t) \/ cancel(m, t)
    PROVE  Effects(m) /\ InputEffect
<1>1. CASE Faults(m)
    BY <1>1, FaultsEffect, Zenon
<1>2. CASE SelectsOrBlocks(m, waits[m], t) /\ UNCHANGED <<waits, next_wait>>
    BY <1>2, StaysEffect, SelectsOrBlocksEffects, Zenon
<1>3. CASE /\ \E calls : job' = [NoJob EXCEPT !.vm = m, !.root = t, !.then = "cancel",
                                              !.calls = calls]
           /\ \E S : host_completions' = [u \in DOMAIN host_completions \ S |->
                                             host_completions[u]]
           /\ UNCHANGED <<inputVars, state, waits, direct, mail, next_token, wait_services>>
    <2>1. job'.vm = m
        BY <1>3, Zenon DEF NoJob
    <2>2. DOMAIN host_completions' \subseteq DOMAIN host_completions
        BY <1>3, Zenon
    <2> QED
        BY <1>3, <2>1, <2>2, StaysEffect, GuestFacts, Zenon
        DEF Effects, StateEffect, JobEffect, TokenEffect, InputEffect
<1> QED
    BY <1>1, <1>2, <1>3, Zenon DEF wait, cancel

LEMMA AnyEffects ==
    ASSUME TInv, NEW m \in Machines, Acts(m), NEW roots, any(m, roots)
    PROVE  Effects(m) /\ InputEffect
<1>1. CASE Faults(m)
    BY <1>1, FaultsEffect, Zenon
<1>2. CASE /\ Allocates(m, Entry("any", 0, FALSE, roots))
           /\ SelectsOrBlocks(m, waits'[m], next_wait[m])
    <2>1. UNCHANGED next_token
        BY <1>2, Zenon DEF SelectsOrBlocks
    <2>2. TableEffect
        BY <1>2, <2>1, GuestFacts, AllocatesEffect, Zenon DEF Entry
    <2>3. ASSUME NEW w, NEW root, SelectsOrBlocks(m, w, root) PROVE Effects(m) /\ InputEffect
        BY <2>2, <2>3, SelectsOrBlocksEffects, Zenon
    <2> QED
        BY <1>2, <2>3, Zenon
<1> QED
    BY <1>1, <1>2, Zenon DEF any

LEMMA MailEffects ==
    ASSUME TInv, NEW m \in Machines, Acts(m), NEW p, proc_send(p) \/ proc_close(p)
    PROVE  Effects(m) /\ InputEffect
<1>1. UNCHANGED <<inputVars, state, waits, direct, host_completions, next_token, wait_services, job>>
    BY Zenon DEF proc_send, proc_close
<1>2. mail' \in [Procs -> Mailboxes]
    <2>1. mail \in [Procs -> Mailboxes]
        BY GuestFacts, Zenon
    <2>2. CASE proc_send(p)
        <3>1. \/ mail' = [mail EXCEPT ![p].queue = @]
              \/ mail' = [mail EXCEPT ![p].queue = @ + 1]
            BY <2>2, Zenon DEF proc_send
        <3> QED
            BY <2>1, <3>1, SMTT(30) DEF Mailboxes
    <2>3. CASE proc_close(p)
        <3>1. PICK c \in BOOLEAN : mail' = [mail EXCEPT ![p].closed = c]
            <4> WITNESS (mail[p].closed \/ ~Terminal(p)) \in BOOLEAN
            <4> QED
                BY <2>3, Zenon DEF proc_close
        <3> QED
            BY <2>1, <3>1, Zenon DEF Mailboxes
    <2> QED
        BY <2>2, <2>3, Zenon
<1> QED
    BY <1>1, <1>2, StaysEffect, GuestFacts, Zenon
    DEF Effects, StateEffect, JobEffect, TokenEffect, InputEffect

LEMMA GuestEffects ==
    ASSUME TInv, NEW m \in Machines, Guest(m)
    PROVE  Acts(m) /\ Effects(m) /\ InputEffect
<1> DEFINE op == Head(todo[m])
<1>1. Acts(m)
    BY Zenon DEF Guest
<1>2. op.count \in Nat
    BY <1>1, GuestFacts, ActsFacts, Zenon DEF Operations
<1> QED
    BY <1>1, <1>2, LeafEffects, ChooseEffects, WaitEffects, AnyEffects, MailEffects, FaultsEffect,
       Zenon DEF Guest

----------------------------------------------------------------------------
(* Steps of the world. *)

LEMMA CallEffects ==
    ASSUME TInv, job.calls # <<>>, HostCall \/ CallReturns
    PROVE  job.vm \in Machines /\ state[job.vm] # "waiting" /\ Effects(job.vm)
<1>1. job # NoJob
    BY NoJobFacts, Zenon
<1>2. job.vm \in Machines /\ state[job.vm] # "waiting"
    BY <1>1, Zenon DEF TInv, WInv, GoodJob, Waiting
<1>3. /\ UNCHANGED <<state, waits, direct, mail, host_completions, next_token>>
      /\ wait_services' \subseteq wait_services
    BY Zenon DEF HostCall, CallReturns
<1>4. job'.vm = job.vm
    <2>1. DOMAIN job = {"vm", "root", "calls", "then", "ok", "bytes"}
        BY Zenon DEF TInv, WInv, GoodJob
    <2>2. ASSUME NEW found, Answered(found) PROVE job'.vm = job.vm
        BY <2>1, <2>2, Zenon DEF Answered
    <2> QED
        BY <2>2, Zenon DEF HostCall, CallReturns
<1>5. next_token \in {next_token, next_token + 1} /\ mail \in [Procs -> Mailboxes]
    BY Zenon DEF TInv
<1> QED
    BY <1>2, <1>3, <1>4, <1>5, StaysEffect, Zenon DEF Effects, StateEffect, JobEffect, TokenEffect

LEMMA ServiceEffects ==
    ASSUME TInv, NEW m \in Machines, finish(m) \/ service_wait_slice(m)
    PROVE  state[m] # "waiting" /\ Effects(m) /\ UNCHANGED inputVars
<1>1. state[m] # "waiting"
    BY Zenon DEF finish, service_wait_slice, Terminal
<1>2. UNCHANGED <<inputVars, state, waits, direct, next_token, wait_services>>
    BY Zenon DEF finish, service_wait_slice
<1>3. mail \in [Procs -> Mailboxes] /\ next_token \in {next_token, next_token + 1}
    BY Zenon DEF TInv
<1>4. /\ job'.vm = m /\ mail' \in [Procs -> Mailboxes]
      /\ DOMAIN host_completions' \subseteq DOMAIN host_completions
    <2>1. CASE finish(m)
        <3>1. PICK calls : job' = [NoJob EXCEPT !.vm = m, !.then = "close", !.calls = calls]
            BY <2>1, Zenon DEF finish, CloseJob
        <3>2. job'.vm = m
            BY <3>1, Zenon DEF NoJob
        <3> QED
            BY <1>3, <2>1, <3>2, Zenon DEF finish
    <2>2. CASE service_wait_slice(m)
        BY <1>3, <2>2, SelectEffects, Zenon DEF service_wait_slice
    <2> QED
        BY <2>1, <2>2, Zenon
<1> QED
    BY <1>1, <1>2, <1>3, <1>4, StaysEffect, Zenon
    DEF Effects, StateEffect, JobEffect, TokenEffect

LEMMA JobEndsEffects ==
    ASSUME TInv, JobEnds
    PROVE  /\ job.vm \in Machines /\ state[job.vm] # "waiting" /\ Effects(job.vm)
           /\ UNCHANGED inputVars
<1> DEFINE rest == Retired(job.vm, job.root)
<1>1. job # NoJob /\ job' = NoJob
      /\ UNCHANGED <<inputVars, direct, host_completions, next_token, wait_services>>
    BY Zenon DEF JobEnds
<1>2. PICK m \in Machines : m = job.vm /\ state[m] # "waiting"
    BY <1>1, Zenon DEF TInv, WInv, GoodJob, Waiting
<1>3. /\ mail \in [Procs -> Mailboxes] /\ next_token \in {next_token, next_token + 1} /\ WInv
      /\ waits \in [Machines -> Tables] /\ state \in [Machines -> States]
    BY Zenon DEF TInv, WInv, WTypes
<1>4. DOMAIN rest \subseteq DOMAIN waits[m] /\ \A t \in DOMAIN rest : rest[t] = waits[m][t]
    BY <1>2, Zenon DEF Retired
<1>5. /\ TableEffect /\ mail' \in [Procs -> Mailboxes]
      /\ \/ \E s \in States \ {"waiting"} : state' = [state EXCEPT ![m] = s]
         \/ UNCHANGED state
    <2>1. CASE /\ waits' = [waits EXCEPT ![m] = rest]
               /\ state' = [state EXCEPT ![m] = "ready"] /\ UNCHANGED mail
        <3> HIDE DEF rest
        <3>1. TableEffect
            BY <1>3, <1>4, <2>1, Zenon DEF TableEffect, TableShrinks
        <3>2. "ready" \in States \ {"waiting"}
            BY Zenon DEF States
        <3> QED
            BY <1>3, <2>1, <3>1, <3>2, Zenon
    <2>2. CASE \E w \in {waits[m], rest} : Ends(m, "faulted", w)
        BY <1>2, <1>3, <1>4, <2>2, EndsEffect, SMTT(30)
    <2>3. CASE waits' = [waits EXCEPT ![m] = <<>>] /\ UNCHANGED <<state, mail>>
        <3>1. TableEffect
            BY <1>3, <2>3, EmptyTable, Zenon DEF TableEffect, TableShrinks
        <3> QED
            BY <1>3, <2>3, <3>1, Zenon
    <2> QED
        BY <1>2, <2>1, <2>2, <2>3, Zenon DEF JobEnds
<1> QED
    BY <1>1, <1>2, <1>3, <1>5, Zenon DEF Effects, StateEffect, JobEffect, TokenEffect

(* A commit or a cancel is sent only for a token the host knows. *)
LEMMA CallInput ==
    ASSUME TInv, HostCall \/ CallReturns
    PROVE  SInv'
<1>1. SInv /\ wait_services \subseteq Nat
    BY DEF TInv, TokenTypes
<1>2. CASE CallReturns
    BY <1>1, <1>2, ServiceStays, Zenon DEF CallReturns
<1>3. CASE HostCall
    <2> DEFINE t == Head(job.calls).token
    <2>1. CASE UNCHANGED inputVars
        BY <1>1, <2>1, ServiceStays, Zenon DEF inputVars
    <2>2. CASE t \in wait_services /\ (Ask(Commit(t)) \/ Ask(Cancel(t)))
        <3>1. /\ Commit(t) \in Commands /\ Commit(t).do # "request"
              /\ Cancel(t) \in Commands /\ Cancel(t).do # "request"
            BY <1>1, <2>2, Zenon DEF Commit, Cancel, Commands
        <3> QED
            BY <1>1, <2>2, <3>1, AskKeeps, Zenon
    <2> QED
        BY <1>3, <2>1, <2>2, Zenon DEF HostCall
<1> QED
    BY <1>2, <1>3, Zenon

(* A guest's step sends at most one request, under a new token. *)
LEMMA GuestInput ==
    ASSUME TInv, InputEffect
    PROVE  SInv'
<1>1. SInv /\ next_token \in Nat
    BY Zenon DEF TInv, TokenTypes
<1>2. CASE UNCHANGED inputVars
    BY <1>1, <1>2, ServiceStays, Zenon DEF inputVars
<1>3. CASE \E n \in Nat, w \in BOOLEAN : submit_stream(next_token, n, w)
    BY <1>1, <1>3, SubmitKeeps, Zenon
<1> QED
    BY <1>2, <1>3, Zenon DEF InputEffect

(* A completion is kept only for a wait of a table, which has a token that   *)
(* was given out.                                                            *)
LEMMA TakesKeeps ==
    ASSUME TInv, NEW c, TakesCompletion(c)
    PROVE  SInv' /\ TokenTypes'
<1>1. UNCHANGED <<unread, reader, data, commands, pending, source, phase, pending_count,
                  next_token, wait_services>>
    BY Zenon DEF TakesCompletion
<1>2. SInv'
    BY <1>1, ServiceStays, Zenon DEF TInv
<1>3. TokenTypes'
    <2>1. DOMAIN host_completions' \subseteq {u \in DOMAIN host_completions' : prepared_wait_exists(u)}
        BY Zenon DEF TakesCompletion
    <2>2. ASSUME NEW u, prepared_wait_exists(u) PROVE u \in 1..(next_token - 1)
        <3>1. PICK m \in Machines : u \in ScopeSet(waits[m])
            BY <2>2, Zenon DEF prepared_wait_exists
        <3>2. PICK t \in DOMAIN waits[m] : u = waits[m][t].scope /\ u # 0
            BY <3>1, Zenon DEF ScopeSet
        <3>3. waits[m] \in Tables
            BY Zenon DEF TInv, WInv, WTypes
        <3>4. u \in Nat
            BY <3>2, <3>3, TableIsFunction, Zenon DEF Entries
        <3>5. u < next_token /\ next_token \in Nat
            BY <3>2, Zenon DEF TInv, Roomy, TokenTypes
        <3> QED
            BY <3>2, <3>4, <3>5, SMTT(30)
    <2>3. DOMAIN host_completions' \subseteq 1..(next_token - 1)
        BY <2>1, <2>2, Zenon
    <2> QED
        BY <1>1, <2>3, Zenon DEF TInv, TokenTypes
<1> QED
    BY <1>2, <1>3, Zenon

LEMMA CompletesKeeps ==
    ASSUME TInv, HostCompletes
    PROVE  TInv'
<1>1. /\ UNCHANGED <<waits, next_wait, mail, next_token, job>> /\ job = NoJob
      /\ \E c : TakesCompletion(c)
    BY Zenon DEF HostCompletes, TakesCompletion
<1>2. WInv'
    BY HostCompletesKeeps, Zenon DEF TInv
<1>3. SInv' /\ TokenTypes'
    BY <1>1, TakesKeeps, Zenon
<1>4. Waiting'
    <2>1. PICK W : /\ \A m \in W : m \in Machines
                   /\ state' = [m \in Machines |-> IF m \in W THEN "ready" ELSE state[m]]
                   /\ direct' = [m \in Machines |-> IF m \in W THEN 0 ELSE direct[m]]
        BY Zenon DEF HostCompletes, Waiter
    <2>2. /\ direct \in [Machines -> Nat]
          /\ \A m \in Machines : state[m] = "waiting" <=> direct[m] # 0
        BY Zenon DEF TInv, Waiting
    <2>3. direct' \in [Machines -> Nat]
        BY <2>1, <2>2, Zenon
    <2>4. \A m \in Machines : state'[m] = "waiting" <=> direct'[m] # 0
        BY <2>1, <2>2, Zenon
    <2> QED
        BY <1>1, <2>3, <2>4, Zenon DEF Waiting
<1>5. \A m \in Machines : Roomy(m)'
    BY <1>1, Zenon DEF TInv, Roomy
<1> QED
    BY <1>1, <1>2, <1>3, <1>4, <1>5, Zenon DEF TInv

(* The waiter has no room for the answer. *)
LEMMA ReplyKeeps ==
    ASSUME TInv, NEW m \in Machines, ReplyFaults(m)
    PROVE  TInv'
<1>1. /\ Ends(m, "faulted", waits[m]) /\ job = NoJob /\ next_token' = next_token
      /\ job' = IF m \in Procs THEN job ELSE CloseJob(m)
      /\ direct' = [direct EXCEPT ![m] = 0]
      /\ \E c : TakesCompletion(c)
    BY Zenon DEF ReplyFaults, TakesCompletion
<1>2. WInv' /\ SInv' /\ TokenTypes'
    BY <1>1, ReplyFaultsKeeps, TakesKeeps, Zenon DEF TInv
<1>3. /\ WInv /\ mail \in [Procs -> Mailboxes] /\ next_token \in Nat
      /\ direct \in [Machines -> Nat] /\ state \in [Machines -> States]
      /\ \A k \in Machines : state[k] = "waiting" <=> direct[k] # 0
    BY Zenon DEF TInv, WInv, WTypes, TokenTypes, Waiting
<1>4. TableEffect /\ mail' \in [Procs -> Mailboxes]
    BY <1>1, <1>3, EndsEffect, SMTT(30)
<1>5. \A k \in Machines : Roomy(k)'
    BY <1>1, <1>3, <1>4, RoomyKept, Zenon DEF TInv, TableEffect
<1>6. Waiting'
    <2>1. state' = [state EXCEPT ![m] = "faulted"]
        BY <1>1, Zenon DEF Ends
    <2>2. direct' \in [Machines -> Nat] /\ state'[m] # "waiting"
        BY <1>1, <1>3, <2>1, Zenon
    <2>3. \A k \in Machines : state'[k] = "waiting" <=> direct'[k] # 0
        BY <1>1, <1>3, <2>1, <2>2, Zenon
    <2>4. Terminal(m)'
        BY <1>3, <2>1, Zenon DEF Terminal
    <2>5. job' # NoJob => job'.vm = m
        BY <1>1, <2>4, ClosesEnded, Zenon
    <2> QED
        BY <2>2, <2>3, <2>5, Zenon DEF Waiting
<1> QED
    BY <1>2, <1>4, <1>5, <1>6, Zenon DEF TInv

(* The threads of the input service leave the world alone. *)
LEMMA InputKeeps ==
    ASSUME TInv, Input \/ UNCHANGED vars
    PROVE  TInv'
<1>1. UNCHANGED waitVars
    BY Zenon DEF Input, vars
<1>2. UNCHANGED <<waits, next_wait, mail, next_token, wait_services, job, state, direct,
                  host_completions>>
    BY <1>1, Zenon DEF waitVars
<1>3. SInv'
    <2>1. CASE Input
        BY <2>1, ReaderKeeps, WorkerKeeps, Zenon DEF Input, TInv
    <2>2. CASE UNCHANGED vars
        BY <2>2, ServiceStays, Zenon DEF vars, inputVars, TInv
    <2> QED
        BY <2>1, <2>2, Zenon
<1>4. WInv'
    BY WInvStep, Zenon DEF TInv, Next
<1>5. TokenTypes'
    BY <1>2, Zenon DEF TInv, TokenTypes
<1>6. Waiting'
    BY <1>2, Zenon DEF TInv, Waiting
<1>7. \A m \in Machines : Roomy(m)'
    BY <1>2, Zenon DEF TInv, Roomy
<1> QED
    BY <1>2, <1>3, <1>4, <1>5, <1>6, <1>7, Zenon DEF TInv

LEMMA TInvStep == TInv /\ [Next]_vars => TInv'
<1> SUFFICES ASSUME TInv, [Next]_vars PROVE TInv'
    BY Zenon
<1>1. WInv'
    BY WInvStep, Zenon DEF TInv
<1>2. CASE Input \/ UNCHANGED vars
    BY <1>2, InputKeeps, Zenon
<1>3. CASE HostCall \/ CallReturns
    <2>1. job.calls # <<>>
        BY <1>3, Zenon DEF HostCall, CallReturns
    <2> QED
        BY <1>1, <1>3, <2>1, CallEffects, CallInput, TypesKept, Zenon
<1>4. CASE JobEnds
    <2>1. InputEffect
        BY <1>4, JobEndsEffects, Zenon DEF InputEffect
    <2> QED
        BY <1>1, <1>4, <2>1, JobEndsEffects, GuestInput, TypesKept, Zenon
<1>5. CASE HostCompletes
    BY <1>5, CompletesKeeps, Zenon
<1>6. ASSUME NEW m \in Machines, finish(m) \/ service_wait_slice(m) PROVE TInv'
    <2>1. state[m] # "waiting" /\ Effects(m) /\ InputEffect
        BY <1>6, ServiceEffects, Zenon DEF InputEffect
    <2> QED
        BY <1>1, <2>1, GuestInput, TypesKept, Zenon
<1>7. ASSUME NEW m \in Machines, ReplyFaults(m) PROVE TInv'
    BY <1>7, ReplyKeeps, Zenon
<1>8. ASSUME NEW m \in Machines, Guest(m) PROVE TInv'
    <2>1. Effects(m) /\ InputEffect /\ state[m] # "waiting"
        BY <1>8, GuestEffects, GuestFacts, Zenon
    <2> QED
        BY <1>1, <2>1, GuestInput, TypesKept, Zenon
<1> QED
    BY <1>2, <1>3, <1>4, <1>5, <1>6, <1>7, <1>8, Zenon DEF Next, World

LEMMA TInvInit == Init => TInv
<1> SUFFICES ASSUME Init PROVE TInv
    BY Zenon
<1>1. WInv /\ SInv
    BY WInvInit, ServiceInit, Zenon
<1>2. TokenTypes
    BY DEF Init, TokenTypes
<1>3. Waiting
    BY Zenon DEF Init, Waiting
<1>4. \A m \in Machines : Roomy(m)
    BY FS_EmptySet, WaitAssumption DEF Init, Roomy
<1>5. mail \in [Procs -> Mailboxes]
    BY Zenon DEF Init, Mailboxes
<1> QED
    BY <1>1, <1>2, <1>3, <1>4, <1>5, Zenon DEF TInv

(* Every variable keeps the kind of value the code gives it.  Two parts of   *)
(* it are more than types: a table never holds more than max_waits entries,  *)
(* and every token in the host's tables is one it gave out.                  *)
THEOREM WaitTypesCorrect == Spec => []TypeOK
<1>1. TInv => TypeOK
    BY Zenon DEF TInv, WInv, WTypes, GoodTable, SInv, ServiceTypes, TokenTypes, Roomy, Waiting, Mailboxes,
           States, TypeOK
<1> QED
    BY <1>1, TInvInit, TInvStep, PTL DEF Spec

(* The counter that reserve checks against MAX_PENDING_IO is always the      *)
(* number of requests in the channel, in the worker's queue and, between an  *)
(* answer and its release, the one just answered: a cancel, a commit or a    *)
(* late reply never makes it drift.                                          *)
THEOREM PendingAlwaysExact == Spec => []PendingExact
<1>1. TInv => PendingExact
    BY Zenon DEF TInv, SInv
<1> QED
    BY <1>1, TInvInit, TInvStep, PTL DEF Spec
============================================================================
