--------------------------- MODULE Answers_proofs ---------------------------
(***************************************************************************)
(* What holds of a question's evidence for every library, ranking and      *)
(* batch: it comes from the documents asked about, at every stage, what is *)
(* cited stays true, and a request that shares a batch gets the evidence   *)
(* it would get alone.  And what holds of the answer made of it, for every *)
(* number of passages and every text the model may write: its citations    *)
(* point where the model saw them, what is shown is held by the excerpts   *)
(* kept with it, a recovery never spoils a draft, and a press of Stop ends *)
(* the rewriting.                                                          *)
(*                                                                         *)
(* Evidence is made of lists, and the lists by definitions that go through *)
(* their entries one by one.  What such a definition computes is shown by  *)
(* way of a least entry at which it would fail.                            *)
(*                                                                         *)
(* In an answer the code between two awaits runs to the next pass that is  *)
(* wanted, so everything about the order of the passes comes from one      *)
(* fact: the pass that follows is one whose condition holds of the text as *)
(* it stands.                                                              *)
(***************************************************************************)
EXTENDS PrivateAnswer, Retrieval, FiniteSetTheorems, SequenceTheorems, NaturalsInduction,
        WellFoundedInduction, TLAPS

-----------------------------------------------------------------------------
(* Induction over the entries of a list, which the provers do for sets but *)
(* not for operators: a least number outside S has a predecessor in it.    *)

LEMMA Climb ==
    ASSUME NEW N \in Nat, NEW S, 0 \in S, \A n \in 1 .. N : n - 1 \in S => n \in S
    PROVE  0 .. N \subseteq S
<1> DEFINE R == OpToRel(<, Nat)
           Bad == {n \in 0 .. N : n \notin S}
<1>1. \A x, y \in Nat : <<y, x>> \in R <=> y < x
    BY DEF OpToRel
<1>2. IsWellFoundedOn(R, Nat)
    BY NatLessThanWellFounded
<1>3. ASSUME Bad # {} PROVE FALSE
    <2>1. PICK x \in Bad : \A y \in Bad : ~(<<y, x>> \in R)
        <3> HIDE DEF R
        <3>1. Bad \subseteq Nat
            OBVIOUS
        <3> HIDE DEF Bad
        <3> QED
            BY <1>2, <1>3, <3>1, WFMin
    <2> HIDE DEF R
    <2>2. x \in Nat /\ x \in 0 .. N /\ x \notin S
        BY <2>1
    <2>3. x # 0
        BY <2>2
    <2>4. x \in 1 .. N /\ x - 1 \in 0 .. N /\ x - 1 < x /\ x - 1 \in Nat
        BY <2>2, <2>3
    <2>5. x - 1 \notin Bad
        <3> HIDE DEF Bad
        <3> QED
            BY <1>1, <2>1, <2>2, <2>4
    <2> QED
        BY <2>2, <2>4, <2>5
<1> QED
    BY <1>3

\* h takes one more entry; f goes through N of them, from b, and stays in V.
Steps(h, N, V) == \A n \in 1 .. N : \A v \in V : h[n][v] \in V
GoesThrough(f, h, N, V, b) == f \in [0 .. N -> V] /\ f[0] = b /\ \A n \in 1 .. N : f[n] = h[n][f[n - 1]]
StepsLike(f, h, N, V, b) == f[0] = b /\ \A n \in 1 .. N : f[n - 1] \in V => f[n] = h[n][f[n - 1]]

LEMMA Recursion ==
    ASSUME NEW N \in Nat, NEW V, NEW b \in V, NEW h, Steps(h, N, V)
    PROVE  \E f : GoesThrough(f, h, N, V, b)
<1> USE DEF Steps, GoesThrough
<1> DEFINE Has == {k \in Nat : \E f : GoesThrough(f, h, k, V, b)}
<1>1. 0 \in Has
    <2>1. GoesThrough([n \in 0 .. 0 |-> b], h, 0, V, b)
        OBVIOUS
    <2> QED
        BY <2>1
<1>2. ASSUME NEW k \in 1 .. N, k - 1 \in Has
      PROVE  k \in Has
    <2>1. PICK f : GoesThrough(f, h, k - 1, V, b)
        BY <1>2
    <2> DEFINE g == [n \in 0 .. k |-> IF n = k THEN h[k][f[k - 1]] ELSE f[n]]
    <2>2. \A n \in 0 .. k - 1 : n \in 0 .. k /\ n # k /\ g[n] = f[n] /\ f[n] \in V
        BY <2>1
    <2>3. k \in 0 .. k /\ k - 1 \in 0 .. k - 1 /\ 0 \in 0 .. k - 1
        OBVIOUS
    <2>4. g[k] = h[k][f[k - 1]] /\ g[k] \in V
        BY <2>2, <2>3
    <2>5. g \in [0 .. k -> V]
        <3>1. \A n \in 0 .. k : g[n] \in V
            BY <2>2, <2>4
        <3> QED
            BY <3>1
    <2>6. \A n \in 1 .. k : g[n] = h[n][g[n - 1]]
        <3> SUFFICES ASSUME NEW n \in 1 .. k PROVE g[n] = h[n][g[n - 1]]
            OBVIOUS
        <3>1. g[n - 1] = f[n - 1]
            BY <2>2
        <3>2. CASE n = k
            BY <2>4, <3>1, <3>2
        <3>3. CASE n # k
            <4>1. n \in 1 .. k - 1 /\ n \in 0 .. k - 1
                BY <3>3
            <4>2. f[n] = h[n][f[n - 1]]
                BY <2>1, <4>1
            <4> QED
                BY <2>2, <3>1, <4>1, <4>2
        <3> QED
            BY <3>2, <3>3
    <2>7. g[0] = b
        BY <2>1, <2>2, <2>3
    <2> HIDE DEF g
    <2>8. GoesThrough(g, h, k, V, b)
        BY <2>5, <2>6, <2>7
    <2> QED
        BY <2>8
<1> HIDE DEF Has
<1>3. N \in Has
    BY <1>1, <1>2, Climb
<1> QED
    BY <1>3 DEF Has

LEMMA StaysIn ==
    ASSUME NEW N \in Nat, NEW V, NEW b \in V, NEW h, Steps(h, N, V), NEW f, StepsLike(f, h, N, V, b)
    PROVE  \A n \in 0 .. N : f[n] \in V
<1> DEFINE S == {n \in 0 .. N : f[n] \in V}
<1>1. 0 \in S
    BY DEF StepsLike
<1>2. ASSUME NEW n \in 1 .. N, n - 1 \in S
      PROVE  n \in S
    BY <1>2 DEF StepsLike, Steps
<1> HIDE DEF S
<1>3. 0 .. N \subseteq S
    BY <1>1, <1>2, Climb
<1> QED
    BY <1>3 DEF S

\* A function that follows h is the one that a recursive definition names.
LEMMA GoesThroughMeans ==
    ASSUME NEW N \in Nat, NEW V, NEW b, NEW h, NEW f, GoesThrough(f, h, N, V, b)
    PROVE  /\ \A n \in 0 .. N : f[n] \in V
           /\ f = [n \in 0 .. N |-> f[n]]
           /\ f[0] = b
           /\ \A n \in 0 .. N : n # 0 => n \in 1 .. N /\ n - 1 \in 0 .. N /\ f[n - 1] \in V /\ f[n] = h[n][f[n - 1]]
<1>1. \A n \in 0 .. N : n # 0 => n \in 1 .. N /\ n - 1 \in 0 .. N
    OBVIOUS
<1> QED
    BY <1>1 DEF GoesThrough

-----------------------------------------------------------------------------
(* The operators on lists. *)

\* p[n]: what is picked of the first n entries.
PickRun(p, S, list, at) ==
    /\ p \in [0 .. Len(list) -> Seq(S)] /\ p[0] = <<>>
    /\ \A n \in 1 .. Len(list) : p[n] = IF n \in at THEN Append(p[n - 1], list[n]) ELSE p[n - 1]
    /\ Pick(list, at) = p[Len(list)]

LEMMA PickRuns == ASSUME NEW S, NEW list \in Seq(S), NEW at PROVE \E p : PickRun(p, S, list, at)
<1> DEFINE N == Len(list)
           V == Seq(S)
           b == <<>>
           Step(n, v) == IF n \in at THEN Append(v, list[n]) ELSE v
           h == [n \in 1 .. N |-> [v \in V |-> Step(n, v)]]
           Body(f) == f = [n \in 0 .. N |-> IF n = 0 THEN <<>>
                              ELSE IF n \in at THEN Append(f[n - 1], list[n]) ELSE f[n - 1]]
           picked == CHOOSE f : Body(f)
<1>0. N \in Nat /\ b \in V
    OBVIOUS
<1>1. \A n \in 1 .. N : \A v \in V : h[n][v] = Step(n, v) /\ Step(n, v) \in V
    OBVIOUS
<1>8. Pick(list, at) = picked[N]
    BY DEF Pick
<1> HIDE DEF N, V, h, b
<1>2. Steps(h, N, V)
    <2> HIDE DEF Step
    <2> QED
        BY <1>1 DEF Steps
<1>3. PICK f : GoesThrough(f, h, N, V, b)
    BY <1>0, <1>2, Recursion
<1>4. Body(f)
    <2>1. \A n \in 0 .. N : f[n] = IF n = 0 THEN b ELSE Step(n, f[n - 1])
        <3> HIDE DEF Step
        <3> QED
            BY <1>0, <1>1, <1>3, GoesThroughMeans
    <2>2. f = [n \in 0 .. N |-> f[n]]
        BY <1>0, <1>3, GoesThroughMeans
    <2> QED
        BY <2>1, <2>2 DEF b
<1>5. Body(picked)
    BY <1>4
<1> HIDE DEF picked
<1>6. \A n \in 0 .. N : picked[n] = IF n = 0 THEN b ELSE Step(n, picked[n - 1])
    BY <1>5 DEF b
<1>7. picked \in [0 .. N -> V] /\ picked[0] = b
    <2>1. StepsLike(picked, h, N, V, b)
        <3>0. \A n \in 1 .. N : n \in 0 .. N /\ n # 0
            BY <1>0
        <3>1. 0 \in 0 .. N
            BY <1>0
        <3>2. picked[0] = b
            BY <1>6, <3>1
        <3> HIDE DEF Step, Body
        <3> QED
            BY <1>1, <1>6, <3>0, <3>2 DEF StepsLike
    <2>2. \A n \in 0 .. N : picked[n] \in V
        BY <1>0, <1>2, <2>1, StaysIn
    <2>3. picked = [n \in 0 .. N |-> picked[n]]
        BY <1>5
    <2>4. picked[0] = b
        BY <2>1 DEF StepsLike
    <2> HIDE DEF Body
    <2> QED
        BY <2>2, <2>3, <2>4
<1>9. \A n \in 1 .. N : picked[n] = Step(n, picked[n - 1])
    <2>0. \A n \in 1 .. N : n \in 0 .. N /\ n # 0
        BY <1>0
    <2> HIDE DEF Step, Body
    <2> QED
        BY <1>6, <2>0
<1> QED
    BY <1>7, <1>8, <1>9 DEF PickRun, N, V, b

LEMMA PickIsPart ==
    ASSUME NEW S, NEW list \in Seq(S), NEW at
    PROVE  /\ Pick(list, at) \in Seq(S)
           /\ \A k \in DOMAIN Pick(list, at) : \E i \in DOMAIN list : i \in at /\ Pick(list, at)[k] = list[i]
<1>0. PICK p : PickRun(p, S, list, at)
    BY PickRuns
<1>1. /\ p \in [0 .. Len(list) -> Seq(S)] /\ p[0] = <<>>
      /\ \A n \in 1 .. Len(list) : p[n] = IF n \in at THEN Append(p[n - 1], list[n]) ELSE p[n - 1]
      /\ Pick(list, at) = p[Len(list)]
    BY <1>0 DEF PickRun
<1> DEFINE N == Len(list)
           Is(v) == v \in Seq(S) /\ \A k \in DOMAIN v : \E i \in DOMAIN list : i \in at /\ v[k] = list[i]
           Good == {n \in 0 .. N : Is(p[n])}
<1>2. N \in Nat
    OBVIOUS
<1>3. 0 \in Good
    <2>1. Is(<<>>)
        OBVIOUS
    <2> QED
        BY <1>1, <1>2, <2>1
<1>4. \A n \in 1 .. N : n - 1 \in Good => n \in Good
    <2> SUFFICES ASSUME NEW n \in 1 .. N, n - 1 \in Good PROVE n \in Good
        OBVIOUS
    <2>1. p[n] = (IF n \in at THEN Append(p[n - 1], list[n]) ELSE p[n - 1]) /\ Is(p[n - 1])
        BY <1>1
    <2>3. n \in DOMAIN list /\ list[n] \in S
        OBVIOUS
    <2>4. ASSUME NEW v, Is(v), n \in at PROVE Is(Append(v, list[n]))
        <3>1. Append(v, list[n]) \in Seq(S) /\ Len(v) \in Nat
            BY <2>3, <2>4
        <3>2. \A k \in DOMAIN Append(v, list[n]) :
                  \/ k \in DOMAIN v /\ Append(v, list[n])[k] = v[k]
                  \/ Append(v, list[n])[k] = list[n]
            BY <2>3, <2>4
        <3> QED
            BY <2>3, <2>4, <3>1, <3>2
    <2> HIDE DEF Is
    <2>5. Is(p[n])
        <3>1. CASE n \in at
            BY <2>1, <2>4, <3>1
        <3>2. CASE n \notin at
            BY <2>1, <3>2
        <3> QED
            BY <3>1, <3>2
    <2> QED
        BY <2>5
<1> HIDE DEF Good, N
<1>5. 0 .. N \subseteq Good
    BY <1>2, <1>3, <1>4, Climb
<1>6. N \in Good
    BY <1>2, <1>5
<1> QED
    BY <1>1, <1>6 DEF Good, N

FlatRun(p, S, lists) ==
    /\ p \in [0 .. Len(lists) -> Seq(S)] /\ p[0] = <<>>
    /\ \A n \in 1 .. Len(lists) : p[n] = p[n - 1] \o lists[n]
    /\ Flat(lists) = p[Len(lists)]

LEMMA FlatRuns == ASSUME NEW S, NEW lists \in Seq(Seq(S)) PROVE \E p : FlatRun(p, S, lists)
<1> DEFINE N == Len(lists)
           V == Seq(S)
           b == <<>>
           Step(n, v) == v \o lists[n]
           h == [n \in 1 .. N |-> [v \in V |-> Step(n, v)]]
           Body(f) == f = [n \in 0 .. N |-> IF n = 0 THEN <<>> ELSE f[n - 1] \o lists[n]]
           g == CHOOSE f : Body(f)
<1>0. N \in Nat /\ b \in V
    OBVIOUS
<1>1. \A n \in 1 .. N : \A v \in V : h[n][v] = Step(n, v) /\ Step(n, v) \in V
    OBVIOUS
<1>8. Flat(lists) = g[N]
    BY DEF Flat
<1> HIDE DEF N, V, h, b
<1>2. Steps(h, N, V)
    <2> HIDE DEF Step
    <2> QED
        BY <1>1 DEF Steps
<1>3. PICK f : GoesThrough(f, h, N, V, b)
    BY <1>0, <1>2, Recursion
<1>4. Body(f)
    <2>1. \A n \in 0 .. N : f[n] = IF n = 0 THEN b ELSE Step(n, f[n - 1])
        <3> HIDE DEF Step
        <3> QED
            BY <1>0, <1>1, <1>3, GoesThroughMeans
    <2>2. f = [n \in 0 .. N |-> f[n]]
        BY <1>0, <1>3, GoesThroughMeans
    <2> QED
        BY <2>1, <2>2 DEF b
<1>5. Body(g)
    BY <1>4
<1> HIDE DEF g
<1>6. \A n \in 0 .. N : g[n] = IF n = 0 THEN b ELSE Step(n, g[n - 1])
    BY <1>5 DEF b
<1>7. g \in [0 .. N -> V] /\ g[0] = b
    <2>1. StepsLike(g, h, N, V, b)
        <3>0. \A n \in 1 .. N : n \in 0 .. N /\ n # 0
            BY <1>0
        <3>1. 0 \in 0 .. N
            BY <1>0
        <3>2. g[0] = b
            BY <1>6, <3>1
        <3> HIDE DEF Step, Body
        <3> QED
            BY <1>1, <1>6, <3>0, <3>2 DEF StepsLike
    <2>2. \A n \in 0 .. N : g[n] \in V
        BY <1>0, <1>2, <2>1, StaysIn
    <2>3. g = [n \in 0 .. N |-> g[n]]
        BY <1>5
    <2>4. g[0] = b
        BY <2>1 DEF StepsLike
    <2> HIDE DEF Body
    <2> QED
        BY <2>2, <2>3, <2>4
<1>9. \A n \in 1 .. N : g[n] = Step(n, g[n - 1])
    <2>0. \A n \in 1 .. N : n \in 0 .. N /\ n # 0
        BY <1>0
    <2> HIDE DEF Step, Body
    <2> QED
        BY <1>6, <2>0
<1> QED
    BY <1>7, <1>8, <1>9 DEF FlatRun, N, V, b

LEMMA FlatIsPart ==
    ASSUME NEW S, NEW lists \in Seq(Seq(S))
    PROVE  Flat(lists) \in Seq(S)
<1>1. Len(lists) \in 0 .. Len(lists)
    OBVIOUS
<1>2. PICK p : FlatRun(p, S, lists)
    BY FlatRuns
<1>3. p \in [0 .. Len(lists) -> Seq(S)] /\ Flat(lists) = p[Len(lists)]
    BY <1>2 DEF FlatRun
<1> QED
    BY <1>1, <1>3

\* Sorting puts every entry somewhere; no more is needed of it here.
LEMMA DescendingIsPart ==
    ASSUME NEW S, NEW list \in Seq(S), NEW key
    PROVE  Descending(list, key) \in Seq(S)
<1> DEFINE N == Len(list)
           V == Seq(1 .. N)
           b == <<>>
           keys == <<>> \o key
           Place1(n, v) == Cardinality({i \in DOMAIN v : keys[v[i]] >= keys[n]}) + 1
           Step(n, v) == InsertAt(v, Place1(n, v), n)
           h == [n \in 1 .. N |-> [v \in V |-> Step(n, v)]]
           Body(f) == f = [n \in 0 .. N |-> IF n = 0 THEN <<>>
                              ELSE InsertAt(f[n - 1], Cardinality({i \in DOMAIN f[n - 1] :
                                                          keys[f[n - 1][i]] >= keys[n]}) + 1, n)]
           g == CHOOSE f : Body(f)
<1>0. N \in Nat /\ b \in V
    OBVIOUS
<1>1. \A n \in 1 .. N : \A v \in V : h[n][v] = Step(n, v) /\ Step(n, v) \in V
    <2> SUFFICES ASSUME NEW n \in 1 .. N, NEW v \in V PROVE Step(n, v) \in V
        OBVIOUS
    <2> DEFINE A == {i \in DOMAIN v : keys[v[i]] >= keys[n]}
    <2>1. A \subseteq 1 .. Len(v) /\ Len(v) \in Nat /\ 1 \in Int
        OBVIOUS
    <2> HIDE DEF A
    <2> DEFINE m == Len(v)
    <2>9. m \in Nat /\ m \in Int /\ A \subseteq 1 .. m
        BY <2>1
    <2> HIDE DEF m
    <2>10. IsFiniteSet(1 .. m)
        BY <2>1, <2>9, FS_Interval
    <2>11. Cardinality(1 .. m) = m
        BY <2>1, <2>9, FS_Interval
    <2>12. IsFiniteSet(A) /\ Cardinality(A) <= m
        BY <2>9, <2>10, <2>11, FS_Subset
    <2>13. Cardinality(A) \in Nat
        BY <2>12, FS_CardinalityType
    <2>3. Cardinality(A) \in 0 .. Len(v)
        BY <2>9, <2>12, <2>13 DEF m
    <2> DEFINE k == Cardinality(A)
    <2> HIDE DEF k
    <2>4. k \in 0 .. Len(v)
        BY <2>3 DEF k
    <2>5. SubSeq(v, 1, k) \in V /\ SubSeq(v, k + 1, Len(v)) \in V
        BY <2>4
    <2>6. InsertAt(v, k + 1, n) = SubSeq(v, 1, k) \o <<n>> \o SubSeq(v, k + 1, Len(v))
        <3>1. (k + 1) - 1 = k
            BY <2>4
        <3> QED
            BY <3>1 DEF InsertAt
    <2>7. InsertAt(v, k + 1, n) \in V
        <3>1. <<n>> \in V
            OBVIOUS
        <3> HIDE DEF V
        <3>2. \A p, q \in V : p \o q \in V
            BY DEF V
        <3> QED
            BY <2>5, <2>6, <3>1, <3>2
    <2>8. Place1(n, v) = k + 1
        BY DEF k, A
    <2> HIDE DEF Place1
    <2> QED
        BY <2>7, <2>8
<1> HIDE DEF N, V, h, b
<1>2. Steps(h, N, V)
    <2> HIDE DEF Step
    <2> QED
        BY <1>1 DEF Steps
<1>3. PICK f : GoesThrough(f, h, N, V, b)
    BY <1>0, <1>2, Recursion
<1>4. Body(f)
    <2>1. \A n \in 0 .. N : f[n] = IF n = 0 THEN b ELSE Step(n, f[n - 1])
        <3> HIDE DEF Step
        <3> QED
            BY <1>0, <1>1, <1>3, GoesThroughMeans
    <2>2. f = [n \in 0 .. N |-> f[n]]
        BY <1>0, <1>3, GoesThroughMeans
    <2> QED
        BY <2>1, <2>2 DEF b
<1>5. Body(g)
    BY <1>4
<1> HIDE DEF g
<1>6. StepsLike(g, h, N, V, b)
    <2>0. \A n \in 1 .. N : n \in 0 .. N /\ n # 0
        BY <1>0
    <2>1. \A n \in 0 .. N : g[n] = IF n = 0 THEN b ELSE Step(n, g[n - 1])
        BY <1>5 DEF b
    <2>2. 0 \in 0 .. N /\ g[0] = b
        <3>1. 0 \in 0 .. N
            BY <1>0
        <3> QED
            BY <2>1, <3>1
    <2> HIDE DEF Step, Body
    <2> QED
        BY <1>1, <2>0, <2>1, <2>2 DEF StepsLike
<1>7. g[N] \in V
    BY <1>0, <1>2, <1>6, StaysIn
<1>8. Descending(list, key) = <<>> \o [i \in DOMAIN g[N] |-> list[g[N][i]]]
    BY DEF Descending, g, N
<1> DEFINE order == g[N]
<1>9. order \in Seq(1 .. N)
    BY <1>7 DEF V
<1> HIDE DEF order
<1>10. [i \in DOMAIN order |-> list[order[i]]] \in Seq(S)
    BY <1>9 DEF N
<1> QED
    BY <1>8, <1>10 DEF order

\* The hit with an id, if there is one.
One(them, n) == IF \E hit \in them : hit.id = n THEN <<CHOOSE hit \in them : hit.id = n>> ELSE <<>>

LEMMA OneIsPart == ASSUME NEW them, NEW n PROVE One(them, n) \in Seq(them)
BY DEF One

OrderedRun(p, them) ==
    /\ p \in [0 .. nextId -> Seq(them)] /\ p[0] = <<>>
    /\ \A n \in 1 .. nextId : p[n] = p[n - 1] \o One(them, n)
    /\ Ordered(them) = p[nextId]

LEMMA OrderedRuns == ASSUME nextId \in Nat, NEW them PROVE \E p : OrderedRun(p, them)
<1> DEFINE N == nextId
           V == Seq(them)
           b == <<>>
           Step(n, v) == v \o One(them, n)
           h == [n \in 1 .. N |-> [v \in V |-> Step(n, v)]]
           Body(f) == f = [n \in 0 .. N |-> IF n = 0 THEN <<>> ELSE f[n - 1] \o One(them, n)]
           g == CHOOSE f : Body(f)
<1>0. N \in Nat /\ b \in V
    OBVIOUS
<1>1. \A n \in 1 .. N : \A v \in V : h[n][v] = Step(n, v) /\ Step(n, v) \in V
    BY OneIsPart
<1>8. Ordered(them) = g[N]
    BY DEF Ordered, One
<1> HIDE DEF N, V, h, b
<1>2. Steps(h, N, V)
    <2> HIDE DEF Step
    <2> QED
        BY <1>1 DEF Steps
<1>3. PICK f : GoesThrough(f, h, N, V, b)
    BY <1>0, <1>2, Recursion
<1>4. Body(f)
    <2>1. \A n \in 0 .. N : f[n] = IF n = 0 THEN b ELSE Step(n, f[n - 1])
        <3> HIDE DEF Step
        <3> QED
            BY <1>0, <1>1, <1>3, GoesThroughMeans
    <2>2. f = [n \in 0 .. N |-> f[n]]
        BY <1>0, <1>3, GoesThroughMeans
    <2> QED
        BY <2>1, <2>2 DEF b
<1>5. Body(g)
    BY <1>4
<1> HIDE DEF g
<1>6. \A n \in 0 .. N : g[n] = IF n = 0 THEN b ELSE Step(n, g[n - 1])
    BY <1>5 DEF b
<1>7. g \in [0 .. N -> V] /\ g[0] = b
    <2>1. StepsLike(g, h, N, V, b)
        <3>0. \A n \in 1 .. N : n \in 0 .. N /\ n # 0
            BY <1>0
        <3>1. 0 \in 0 .. N
            BY <1>0
        <3>2. g[0] = b
            BY <1>6, <3>1
        <3> HIDE DEF Step, Body
        <3> QED
            BY <1>1, <1>6, <3>0, <3>2 DEF StepsLike
    <2>2. \A n \in 0 .. N : g[n] \in V
        BY <1>0, <1>2, <2>1, StaysIn
    <2>3. g = [n \in 0 .. N |-> g[n]]
        BY <1>5
    <2>4. g[0] = b
        BY <2>1 DEF StepsLike
    <2> HIDE DEF Body
    <2> QED
        BY <2>2, <2>3, <2>4
<1>9. \A n \in 1 .. N : g[n] = Step(n, g[n - 1])
    <2>0. \A n \in 1 .. N : n \in 0 .. N /\ n # 0
        BY <1>0
    <2> HIDE DEF Step, Body
    <2> QED
        BY <1>6, <2>0
<1> QED
    BY <1>7, <1>8, <1>9 DEF OrderedRun, N, V, b

LEMMA OrderedIsPart ==
    ASSUME nextId \in Nat, NEW them
    PROVE  Ordered(them) \in Seq(them)
<1>1. nextId \in 0 .. nextId
    OBVIOUS
<1>2. PICK p : OrderedRun(p, them)
    BY OrderedRuns
<1> QED
    BY <1>1, <1>2 DEF OrderedRun

-----------------------------------------------------------------------------
(* What a list of hits is a list of: hits name passages (by id, document,   *)
(* content and number), and ranking changes nothing but their score.        *)

Ref(hit) == [id |-> hit.id, doc |-> hit.doc, of |-> hit.of, n |-> hit.n]
IsHit(hit, H) ==
    /\ DOMAIN hit = {"id", "doc", "of", "n", "score"} /\ hit = [x \in DOMAIN hit |-> hit[x]]
    /\ Ref(hit) \in H
MadeOf(list, H) == \E S : list \in Seq(S) /\ \A hit \in S : IsHit(hit, H)
ListsMadeOf(lists, H) == \E n \in Nat : /\ lists = [c \in 1 .. n |-> lists[c]]
                                     /\ \A c \in 1 .. n : MadeOf(lists[c], H)

LEMMA RescoredIsHit ==
    ASSUME NEW H, NEW hit, IsHit(hit, H), NEW score
    PROVE  IsHit([hit EXCEPT !.score = score], H)
BY DEF IsHit, Ref

LEMMA HeldMeans ==
    ASSUME NEW H, NEW list, MadeOf(list, H)
    PROVE  /\ Len(list) \in Nat /\ DOMAIN list = 1 .. Len(list)
           /\ \A i \in DOMAIN list : IsHit(list[i], H)
BY DEF MadeOf

LEMMA HeldIf ==
    ASSUME NEW H, NEW n \in Nat, NEW list, list = [i \in 1 .. n |-> list[i]],
           \A i \in 1 .. n : IsHit(list[i], H)
    PROVE  MadeOf(list, H)
<1> DEFINE S == {list[i] : i \in 1 .. n}
<1>1. list \in Seq(S)
    OBVIOUS
<1>2. \A hit \in S : IsHit(hit, H)
    OBVIOUS
<1> HIDE DEF S
<1> QED
    BY <1>1, <1>2 DEF MadeOf

LEMMA HeldGrows ==
    ASSUME NEW H, NEW G, H \subseteq G, NEW list, MadeOf(list, H)
    PROVE  MadeOf(list, G)
BY DEF MadeOf, IsHit

LEMMA NothingIsHeld == ASSUME NEW H PROVE MadeOf(<<>>, H)
<1>1. <<>> = [i \in 1 .. 0 |-> <<>>[i]]
    OBVIOUS
<1>2. \A i \in 1 .. 0 : IsHit(<<>>[i], H)
    OBVIOUS
<1> QED
    BY <1>1, <1>2, HeldIf

\* A filter keeps what it lets through, and that may be fewer passages.
LEMMA PickHeld ==
    ASSUME NEW H, NEW N, NEW list, MadeOf(list, N), NEW at,
           \A i \in DOMAIN list : i \in at => Ref(list[i]) \in H
    PROVE  MadeOf(Pick(list, at), H)
<1>1. PICK S : list \in Seq(S) /\ \A hit \in S : IsHit(hit, N)
    BY DEF MadeOf
<1> DEFINE picked == Pick(list, at)
<1>2. /\ picked \in Seq(S)
      /\ \A k \in DOMAIN picked : \E i \in DOMAIN list : i \in at /\ picked[k] = list[i]
    BY <1>1, PickIsPart
<1> HIDE DEF picked
<1>3. \A i \in DOMAIN list : list[i] \in S
    BY <1>1
<1>4. \A k \in DOMAIN picked : IsHit(picked[k], H)
    BY <1>1, <1>2, <1>3 DEF IsHit
<1>5. Len(picked) \in Nat /\ DOMAIN picked = 1 .. Len(picked) /\ picked = [i \in 1 .. Len(picked) |-> picked[i]]
    BY <1>2
<1>6. MadeOf(picked, H)
    BY <1>4, <1>5, HeldIf
<1> QED
    BY <1>6 DEF picked

LEMMA PartHeld ==
    ASSUME NEW H, NEW list, MadeOf(list, H), NEW at
    PROVE  MadeOf(Pick(list, at), H)
<1>1. \A i \in DOMAIN list : Ref(list[i]) \in H
    BY HeldMeans DEF IsHit
<1> QED
    BY <1>1, PickHeld

LEMMA OnceHeld == ASSUME NEW H, NEW list, MadeOf(list, H) PROVE MadeOf(Once(list), H)
BY PartHeld DEF Once

LEMMA PreciseHeld == ASSUME NEW H, NEW list, MadeOf(list, H) PROVE MadeOf(Precise(list), H)
BY PartHeld DEF Precise

LEMMA TakeHeld ==
    ASSUME NEW H, NEW list, MadeOf(list, H), NEW k \in Int
    PROVE  MadeOf(Take(list, k), H)
<1>1. PICK S : list \in Seq(S) /\ \A hit \in S : IsHit(hit, H)
    BY DEF MadeOf
<1>2. Take(list, k) \in Seq(S)
    BY <1>1 DEF Take
<1> QED
    BY <1>1, <1>2 DEF MadeOf

LEMMA ConcatHeld ==
    ASSUME NEW H, NEW p, NEW q, MadeOf(p, H), MadeOf(q, H)
    PROVE  MadeOf(p \o q, H)
<1>1. PICK S : p \in Seq(S) /\ \A hit \in S : IsHit(hit, H)
    BY DEF MadeOf
<1>2. PICK T : q \in Seq(T) /\ \A hit \in T : IsHit(hit, H)
    BY DEF MadeOf
<1>3. p \in Seq(S \cup T) /\ q \in Seq(S \cup T)
    BY <1>1, <1>2
<1>4. p \o q \in Seq(S \cup T)
    BY <1>3
<1> QED
    BY <1>1, <1>2, <1>4 DEF MadeOf

LEMMA DescendingHeld ==
    ASSUME NEW H, NEW list, MadeOf(list, H), NEW key
    PROVE  MadeOf(Descending(list, key), H)
BY DescendingIsPart DEF MadeOf

LEMMA ByHeld ==
    ASSUME NEW H, NEW list, MadeOf(list, H), NEW key
    PROVE  MadeOf(By(list, key), H) /\ MadeOf(ByScore(list), H)
BY DescendingHeld DEF By, ByScore

LEMMA OrderedHeld ==
    ASSUME nextId \in Nat, NEW H, NEW them, \A hit \in them : IsHit(hit, H)
    PROVE  MadeOf(Ordered(them), H)
BY OrderedIsPart DEF MadeOf

LEMMA ListsHeldIf ==
    ASSUME NEW H, NEW n \in Nat, NEW lists, lists = [c \in 1 .. n |-> lists[c]],
           \A c \in 1 .. n : MadeOf(lists[c], H)
    PROVE  ListsMadeOf(lists, H)
BY DEF ListsMadeOf

LEMMA ListsHeldMeans ==
    ASSUME NEW H, NEW lists, ListsMadeOf(lists, H)
    PROVE  /\ Len(lists) \in Nat /\ DOMAIN lists = 1 .. Len(lists)
           /\ \A c \in DOMAIN lists : MadeOf(lists[c], H)
<1>1. PICK n \in Nat : /\ lists = [c \in 1 .. n |-> lists[c]]
                       /\ \A c \in 1 .. n : MadeOf(lists[c], H)
    BY DEF ListsMadeOf
<1> DEFINE S == {lists[c] : c \in 1 .. n}
<1>2. lists \in Seq(S)
    BY <1>1
<1>3. DOMAIN lists = 1 .. n
    BY <1>1
<1> HIDE DEF S
<1> QED
    BY <1>1, <1>2, <1>3

LEMMA FlatHeld ==
    ASSUME NEW H, NEW lists, ListsMadeOf(lists, H)
    PROVE  MadeOf(Flat(lists), H)
<1>1. PICK n \in Nat : /\ lists = [c \in 1 .. n |-> lists[c]]
                       /\ \A c \in 1 .. n : MadeOf(lists[c], H)
    BY DEF ListsMadeOf
<1> DEFINE S == UNION {{lists[c][i] : i \in DOMAIN lists[c]} : c \in 1 .. n}
<1>2. ASSUME NEW c \in 1 .. n PROVE lists[c] \in Seq(S)
    <2> DEFINE l == lists[c]
    <2>1. PICK T : l \in Seq(T)
        BY <1>1 DEF MadeOf
    <2>2. \A i \in DOMAIN l : l[i] \in S
        OBVIOUS
    <2> HIDE DEF l, S
    <2>3. l \in Seq(S)
        BY <2>1, <2>2
    <2> QED
        BY <2>3 DEF l
<1>3. \A hit \in S : IsHit(hit, H)
    BY <1>1, HeldMeans
<1> HIDE DEF S
<1>4. lists \in Seq(Seq(S))
    BY <1>1, <1>2
<1>5. Flat(lists) \in Seq(S)
    BY <1>4, FlatIsPart
<1> QED
    BY <1>3, <1>5 DEF MadeOf


LEMMA PickIn ==
    ASSUME NEW S, NEW list \in Seq(S), NEW at, NEW T, \A i \in DOMAIN list : i \in at => list[i] \in T
    PROVE  Pick(list, at) \in Seq(T)
<1> DEFINE picked == Pick(list, at)
<1>1. /\ picked \in Seq(S)
      /\ \A k \in DOMAIN picked : \E i \in DOMAIN list : i \in at /\ picked[k] = list[i]
    BY PickIsPart
<1> HIDE DEF picked
<1>2. \A k \in DOMAIN picked : picked[k] \in T
    BY <1>1
<1>3. picked \in Seq(T)
    BY <1>1, <1>2
<1> QED
    BY <1>3 DEF picked

LEMMA TakeIn ==
    ASSUME NEW S, NEW list \in Seq(S), NEW k \in Int
    PROVE  Take(list, k) \in Seq(S)
BY DEF Take

\* Every anchor is taken along, and of what lies beside it what is new.
LEMMA ExpandIn ==
    ASSUME Limit.channel \in Nat, Limit.context \in Nat,
           NEW S, NEW q, NEW ranked \in Seq(S), NEW near,
           \A i \in DOMAIN ranked : ContextOf(q, ranked[i], near) \in Seq(S)
    PROVE  ExpandChannelCandidatesWithNeighbors(q, ranked, near) \in Seq(S)
<1> DEFINE N == Len(ranked)
           V == [list : Seq(S), anchors : Int, context : Int]
           b == [list |-> <<>>, anchors |-> 0, context |-> 0]
           New(list, done) == Pick(list, {i \in DOMAIN list : list[i].id \notin IdsOf(done)})
           Some(done, them) == Take(New(them, done.list), Limit.context - done.context)
           AddContext(done, them) ==
               [done EXCEPT !.list = @ \o Some(done, them), !.context = @ + Len(Some(done, them))]
           AddAnchor(done, hit) ==
               [done EXCEPT !.list = @ \o New(<<hit>>, done.list), !.anchors = @ + Len(New(<<hit>>, done.list))]
           Step(n, v) == IF v.anchors = Limit.channel THEN v
                         ELSE IF n > Limit.anchors THEN AddAnchor(v, ranked[n])
                         ELSE AddContext(AddAnchor(v, ranked[n]), ContextOf(q, ranked[n], near))
           h == [n \in 1 .. N |-> [v \in V |-> Step(n, v)]]
           Body(f) == f = [n \in 0 .. N |-> IF n = 0 THEN [list |-> <<>>, anchors |-> 0, context |-> 0]
                                            ELSE Step(n, f[n - 1])]
           g == CHOOSE f : Body(f)
<1>0. N \in Nat /\ b \in V
    OBVIOUS
<1>9. ASSUME NEW n \in 1 .. N, NEW v \in V PROVE Step(n, v) \in V
    <2>1. \A list \in Seq(S) : \A done : New(list, done) \in Seq(S)
        <3> SUFFICES ASSUME NEW list \in Seq(S), NEW done
                     PROVE  New(list, done) \in Seq(S)
            OBVIOUS
        <3> QED
            BY PickIsPart
    <2> HIDE DEF New
    <2>2. ranked[n] \in S /\ n \in DOMAIN ranked
        OBVIOUS
    <2>3. \A done \in V : AddAnchor(done, ranked[n]) \in V
        <3> SUFFICES ASSUME NEW done \in V PROVE AddAnchor(done, ranked[n]) \in V
            OBVIOUS
        <3> DEFINE new == New(<<ranked[n]>>, done.list)
        <3>1. new \in Seq(S) /\ Len(new) \in Int
            <4>1. <<ranked[n]>> \in Seq(S)
                BY <2>2
            <4>2. new \in Seq(S)
                BY <2>1, <4>1
            <4> QED
                BY <4>2
        <3> HIDE DEF new
        <3>2. [done EXCEPT !.list = @ \o new, !.anchors = @ + Len(new)] \in V
            <4> DEFINE both == done.list \o new
                       sum == done.anchors + Len(new)
            <4>1. both \in Seq(S) /\ sum \in Int
                BY <3>1
            <4> HIDE DEF both, sum
            <4>2. [done EXCEPT !.list = both, !.anchors = sum] \in V
                BY <4>1
            <4> QED
                BY <4>2 DEF both, sum
        <3> QED
            BY <3>2 DEF new
    <2>4. \A done \in V : \A list \in Seq(S) : AddContext(done, list) \in V
        <3> SUFFICES ASSUME NEW done \in V, NEW list \in Seq(S) PROVE AddContext(done, list) \in V
            OBVIOUS
        <3> DEFINE new == Some(done, list)
        <3>1. new \in Seq(S) /\ Len(new) \in Int
            <4>1. New(list, done.list) \in Seq(S) /\ Limit.context - done.context \in Int
                BY <2>1
            <4>2. new \in Seq(S)
                BY <4>1, TakeIn
            <4> QED
                BY <4>2
        <3> HIDE DEF new
        <3>2. [done EXCEPT !.list = @ \o new, !.context = @ + Len(new)] \in V
            <4> DEFINE both == done.list \o new
                       sum == done.context + Len(new)
            <4>1. both \in Seq(S) /\ sum \in Int
                BY <3>1
            <4> HIDE DEF both, sum
            <4>2. [done EXCEPT !.list = both, !.context = sum] \in V
                BY <4>1
            <4> QED
                BY <4>2 DEF both, sum
        <3> QED
            BY <3>2 DEF new
    <2> HIDE DEF AddContext, AddAnchor, V
    <2> QED
        BY <2>2, <2>3, <2>4
<1>1. \A n \in 1 .. N : \A v \in V : h[n][v] = Step(n, v) /\ Step(n, v) \in V
    <2> HIDE DEF Step, V
    <2> QED
        BY <1>9
<1> HIDE DEF N, V, h, b
<1>2. Steps(h, N, V)
    <2> HIDE DEF Step
    <2> QED
        BY <1>1 DEF Steps
<1>3. PICK f : GoesThrough(f, h, N, V, b)
    BY <1>0, <1>2, Recursion
<1>4. Body(f)
    <2>1. \A n \in 0 .. N : f[n] = IF n = 0 THEN b ELSE Step(n, f[n - 1])
        <3> HIDE DEF Step
        <3> QED
            BY <1>0, <1>1, <1>3, GoesThroughMeans
    <2>2. f = [n \in 0 .. N |-> f[n]]
        BY <1>0, <1>3, GoesThroughMeans
    <2> HIDE DEF Step
    <2> QED
        BY <2>1, <2>2 DEF b
<1>5. Body(g)
    <2> HIDE DEF Step
    <2> QED
        BY <1>4
<1>8. ExpandChannelCandidatesWithNeighbors(q, ranked, near) = g[N].list
    BY DEF ExpandChannelCandidatesWithNeighbors, N
<1> HIDE DEF g
<1>6. StepsLike(g, h, N, V, b)
    <2> HIDE DEF Step
    <2>0. \A n \in 1 .. N : n \in 0 .. N /\ n # 0
        BY <1>0
    <2>1. \A n \in 0 .. N : g[n] = IF n = 0 THEN b ELSE Step(n, g[n - 1])
        BY <1>5 DEF b
    <2>2. 0 \in 0 .. N /\ g[0] = b
        <3>1. 0 \in 0 .. N
            BY <1>0
        <3> QED
            BY <2>1, <3>1
    <2> HIDE DEF Body
    <2> QED
        BY <1>1, <2>0, <2>1, <2>2 DEF StepsLike
<1>7. g[N] \in V
    BY <1>0, <1>2, <1>6, StaysIn
<1> QED
    BY <1>7, <1>8 DEF V

\* Packing only leaves entries out.
LEMMA PackedIn ==
    ASSUME NEW S, NEW route, NEW order \in Seq(S), NEW topK
    PROVE  Packed(route, order, topK) \in Seq(S)
<1> DEFINE N == Len(order)
           V == Seq(S)
           b == <<>>
           perPage == IF Wide(route) THEN Limit.perPageWide ELSE Limit.perPage
           SizeOf(list) == Sum([i \in DOMAIN list |-> Chunk(list[i]).size])
           OnPageOf(list, hit) ==
               {i \in DOMAIN list : list[i].doc = hit.doc /\ Chunk(list[i]).page = Chunk(hit).page}
           Full(kept, hit) ==
               \/ Len(kept) = topK
               \/ \E i \in DOMAIN kept : RepeatsKept(route, hit, kept[i])
               \/ Cardinality(OnPageOf(kept, hit)) >= perPage
               \/ kept # <<>> /\ SizeOf(kept) + Chunk(hit).size > Limit.chars
           Step(n, v) == IF Full(v, order[n]) THEN v ELSE Append(v, order[n])
           h == [n \in 1 .. N |-> [v \in V |-> Step(n, v)]]
           Body(f) == f = [n \in 0 .. N |-> IF n = 0 THEN <<>> ELSE Step(n, f[n - 1])]
           g == CHOOSE f : Body(f)
<1>0. N \in Nat /\ b \in V
    OBVIOUS
<1>1. \A n \in 1 .. N : \A v \in V : h[n][v] = Step(n, v) /\ Step(n, v) \in V
    <2> HIDE DEF Full
    <2>1. \A n \in 1 .. N : \A v \in V : Step(n, v) \in V
        OBVIOUS
    <2> HIDE DEF Step
    <2> QED
        BY <2>1
<1> HIDE DEF N, V, h, b
<1>2. Steps(h, N, V)
    <2> HIDE DEF Step
    <2> QED
        BY <1>1 DEF Steps
<1>3. PICK f : GoesThrough(f, h, N, V, b)
    BY <1>0, <1>2, Recursion
<1>4. Body(f)
    <2> HIDE DEF Step
    <2>1. \A n \in 0 .. N : f[n] = IF n = 0 THEN b ELSE Step(n, f[n - 1])
        BY <1>0, <1>1, <1>3, GoesThroughMeans
    <2>2. f = [n \in 0 .. N |-> f[n]]
        BY <1>0, <1>3, GoesThroughMeans
    <2> QED
        BY <2>1, <2>2 DEF b
<1>5. Body(g)
    BY <1>4
<1>8. Packed(route, order, topK) = g[N]
    BY DEF Packed, N
<1> HIDE DEF g
<1>6. StepsLike(g, h, N, V, b)
    <2> HIDE DEF Step
    <2>0. \A n \in 1 .. N : n \in 0 .. N /\ n # 0
        BY <1>0
    <2>1. \A n \in 0 .. N : g[n] = IF n = 0 THEN b ELSE Step(n, g[n - 1])
        BY <1>5 DEF b
    <2>2. 0 \in 0 .. N /\ g[0] = b
        <3>1. 0 \in 0 .. N
            BY <1>0
        <3> QED
            BY <2>1, <3>1
    <2> HIDE DEF Body
    <2> QED
        BY <1>1, <2>0, <2>1, <2>2 DEF StepsLike
<1>7. g[N] \in V
    BY <1>0, <1>2, <1>6, StaysIn
<1> QED
    BY <1>7, <1>8 DEF V

-----------------------------------------------------------------------------
(* The stages of a question.  H: the passages it may see.  N: the passages  *)
(* that a read for neighbours returned, of which it may see those that are  *)
(* of a document it already sees.                                           *)

Closed(H, N) == \A r \in N, a \in H : r.doc = a.doc => r \in H

LEMMA LimitsAreNumbers ==
    /\ Limit.channel \in Nat /\ Limit.anchors \in Nat /\ Limit.context \in Nat /\ Limit.pool \in Nat
    /\ Limit.head \in Nat /\ Limit.pack \in Nat /\ Limit.coarse \in Nat /\ Limit.coarseWide \in Nat
    /\ Limit.leading \in Nat /\ Limit.leadingWide \in Nat /\ Limit.final \in Nat /\ Limit.contacts \in Nat
    /\ Limit.window \in Nat /\ Limit.early \in Nat
BY LimitAssumption DEF LimitNames

LEMMA BesideIsSeen ==
    ASSUME NEW H, NEW N, Closed(H, N), NEW anchor, IsHit(anchor, H), NEW hit, IsHit(hit, N), hit.doc = anchor.doc
    PROVE  Ref(hit) \in H
<1>1. Ref(hit).doc = Ref(anchor).doc
    BY DEF Ref
<1>2. Ref(hit) \in N /\ Ref(anchor) \in H
    BY DEF IsHit
<1> QED
    BY <1>1, <1>2 DEF Closed

LEMMA MergeHeld ==
    ASSUME NEW H, NEW lists, ListsMadeOf(lists, H)
    PROVE  MadeOf(MergeRankedCandidateLists(lists), H)
<1> DEFINE all == Once(ByScore(Flat(lists)))
           Score(hit) == RankScore(lists[1], hit.id) + Sum([i \in DOMAIN lists |-> RankScore(lists[i], hit.id)])
           key == [i \in DOMAIN all |-> Score(all[i])]
<1>1. MadeOf(all, H)
    <2>1. MadeOf(Flat(lists), H)
        BY FlatHeld
    <2>2. MadeOf(ByScore(Flat(lists)), H)
        BY <2>1, ByHeld
    <2> QED
        BY <2>2, OnceHeld
<1>2. MergeRankedCandidateLists(lists) = Take(By(all, key), Limit.channel)
    BY DEF MergeRankedCandidateLists
<1> HIDE DEF all, key
<1>3. MadeOf(By(all, key), H)
    BY <1>1, ByHeld
<1>4. Limit.channel \in Int
    BY LimitsAreNumbers
<1>5. MadeOf(Take(By(all, key), Limit.channel), H)
    BY <1>3, <1>4, TakeHeld
<1> QED
    BY <1>2, <1>5

LEMMA ContextHeld ==
    ASSUME NEW H, NEW N, Closed(H, N), NEW anchor, IsHit(anchor, H), NEW near, MadeOf(near, N), NEW q
    PROVE  MadeOf(ContextOf(q, anchor, near), H)
<1> DEFINE at == {i \in DOMAIN near : /\ near[i].id # anchor.id /\ Near(near[i], anchor, 1)
                                     /\ Useful(q, near[i]) > 0}
           beside == Pick(near, at)
           key == [i \in DOMAIN beside |-> Useful(q, beside[i]) * Weight - beside[i].id]
<1>1. \A i \in DOMAIN near : i \in at => Ref(near[i]) \in H
    BY HeldMeans, BesideIsSeen DEF Near
<1>2. ContextOf(q, anchor, near) = Descending(beside, key)
    BY DEF ContextOf
<1> HIDE DEF at
<1>3. MadeOf(beside, H)
    BY <1>1, PickHeld
<1> HIDE DEF beside, key
<1> QED
    BY <1>2, <1>3, DescendingHeld

LEMMA HeldIn ==
    ASSUME NEW H, NEW list, MadeOf(list, H), NEW S, \A i \in DOMAIN list : list[i] \in S
    PROVE  list \in Seq(S)
BY DEF MadeOf

LEMMA ExpandHeld ==
    ASSUME NEW H, NEW N, Closed(H, N), NEW ranked, MadeOf(ranked, H), NEW near, MadeOf(near, N), NEW q
    PROVE  MadeOf(ExpandChannelCandidatesWithNeighbors(q, ranked, near), H)
<1> DEFINE Context(i) == ContextOf(q, ranked[i], near)
           S == {ranked[i] : i \in DOMAIN ranked} \cup UNION {{Context(i)[k] : k \in DOMAIN Context(i)} : i \in DOMAIN ranked}
<1>1. \A i \in DOMAIN ranked : MadeOf(Context(i), H)
    BY HeldMeans, ContextHeld
<1>2. \A i \in DOMAIN ranked : Context(i) \in Seq(S)
    <2> SUFFICES ASSUME NEW i \in DOMAIN ranked PROVE Context(i) \in Seq(S)
        OBVIOUS
    <2>1. \A k \in DOMAIN Context(i) : Context(i)[k] \in S
        OBVIOUS
    <2> HIDE DEF Context, S
    <2> QED
        BY <1>1, <2>1, HeldIn
<1>3. \A hit \in S : IsHit(hit, H)
    <2> HIDE DEF Context
    <2>1. \A i \in DOMAIN ranked : \A k \in DOMAIN Context(i) : IsHit(Context(i)[k], H)
        BY <1>1, HeldMeans
    <2>2. \A i \in DOMAIN ranked : IsHit(ranked[i], H)
        BY HeldMeans
    <2> QED
        BY <2>1, <2>2
<1>4. ranked \in Seq(S)
    <2>1. \A i \in DOMAIN ranked : ranked[i] \in S
        OBVIOUS
    <2> HIDE DEF S
    <2> QED
        BY <2>1, HeldIn
<1> HIDE DEF S
<1>5. ExpandChannelCandidatesWithNeighbors(q, ranked, near) \in Seq(S)
    BY <1>2, <1>4, ExpandIn, LimitsAreNumbers
<1> QED
    BY <1>3, <1>5 DEF MadeOf

LEMMA FuseHeld ==
    ASSUME NEW H, NEW channels, ListsMadeOf(channels, H)
    PROVE  MadeOf(FuseCandidates(channels), H)
<1> DEFINE all == Once(Flat(channels))
           Score(hit) == Sum([c \in DOMAIN channels |-> RankScore(channels[c], hit.id)])
           scored == [i \in DOMAIN all |-> [all[i] EXCEPT !.score = Score(all[i])]]
<1>1. MadeOf(all, H)
    BY FlatHeld, OnceHeld
<1>2. FuseCandidates(channels) = Take(ByScore(scored), Limit.pool)
    BY DEF FuseCandidates
<1> HIDE DEF all
<1>3. MadeOf(scored, H)
    <2> HIDE DEF Score
    <2>1. Len(all) \in Nat /\ DOMAIN all = 1 .. Len(all) /\ \A i \in DOMAIN all : IsHit(all[i], H)
        BY <1>1, HeldMeans
    <2>2. \A i \in DOMAIN all : IsHit(scored[i], H)
        BY <2>1, RescoredIsHit
    <2>3. scored = [i \in 1 .. Len(all) |-> scored[i]]
        BY <2>1
    <2> HIDE DEF scored
    <2> QED
        BY <2>1, <2>2, <2>3, HeldIf
<1> HIDE DEF scored
<1>4. Limit.pool \in Int
    BY LimitsAreNumbers
<1>5. MadeOf(ByScore(scored), H)
    BY <1>3, ByHeld
<1>6. MadeOf(Take(ByScore(scored), Limit.pool), H)
    BY <1>4, <1>5, TakeHeld
<1> QED
    BY <1>2, <1>6

LEMMA CoveredHeld ==
    ASSUME NEW H, NEW q, NEW fused, MadeOf(fused, H)
    PROVE  MadeOf(Covered(q, fused), H)
<1> DEFINE scored == [i \in DOMAIN fused |-> [fused[i] EXCEPT !.score = @ + 30 * Useful(q, fused[i])]]
<1>1. MadeOf(scored, H)
    <2>1. Len(fused) \in Nat /\ DOMAIN fused = 1 .. Len(fused) /\ \A i \in DOMAIN fused : IsHit(fused[i], H)
        BY HeldMeans
    <2>2. \A i \in DOMAIN fused : IsHit(scored[i], H)
        BY <2>1, RescoredIsHit
    <2>3. scored = [i \in 1 .. Len(fused) |-> scored[i]]
        BY <2>1
    <2> HIDE DEF scored
    <2> QED
        BY <2>1, <2>2, <2>3, HeldIf
<1>2. Covered(q, fused) = ByScore(scored)
    BY DEF Covered
<1> QED
    BY <1>1, <1>2, ByHeld

LEMMA RescoredHeld ==
    ASSUME NEW H, NEW q, NEW channels, NEW list, MadeOf(list, H)
    PROVE  MadeOf(Rescored(q, channels, list), H)
<1> DEFINE grounded == Pick(list, {i \in DOMAIN list : Useful(q, list[i]) >= 4})
           Leader(l) == Take(By(l, UsefulOf(q, l)), 1)
           leaders == IdsOf(Flat([c \in DOMAIN channels |-> Leader(FoundBy(grounded, channels[c]))]))
           Bonus(hit) == IF hit.id \in leaders THEN 160 * Useful(q, hit) ELSE 0
           scored == [i \in DOMAIN list |-> [list[i] EXCEPT !.score = @ + Bonus(list[i])]]
<1>1. Rescored(q, channels, list) = ByScore(scored)
    BY DEF Rescored
<1> HIDE DEF Bonus
<1>2. MadeOf(scored, H)
    <2>1. Len(list) \in Nat /\ DOMAIN list = 1 .. Len(list) /\ \A i \in DOMAIN list : IsHit(list[i], H)
        BY HeldMeans
    <2>2. \A i \in DOMAIN list : IsHit(scored[i], H)
        BY <2>1, RescoredIsHit
    <2>3. scored = [i \in 1 .. Len(list) |-> scored[i]]
        BY <2>1
    <2> HIDE DEF scored
    <2> QED
        BY <2>1, <2>2, <2>3, HeldIf
<1> HIDE DEF scored
<1> QED
    BY <1>1, <1>2, ByHeld

LEMMA ContactHeld ==
    ASSUME NEW H, NEW q, NEW list, MadeOf(list, H)
    PROVE  MadeOf(Contact(q, list), H)
BY PartHeld, TakeHeld, LimitsAreNumbers DEF Contact

LEMMA StrongestHeld ==
    ASSUME NEW H, NEW q, NEW list, MadeOf(list, H)
    PROVE  MadeOf(Strongest(q, list), H) /\ MadeOf(Carriers(q, list), H)
BY PartHeld, ByHeld DEF Strongest, Carriers

LEMMA CarriersFirstHeld ==
    ASSUME NEW H, NEW q, NEW channels, ListsMadeOf(channels, H), NEW list, MadeOf(list, H)
    PROVE  MadeOf(CarriersFirst(q, channels, list), H)
<1> DEFINE carriers == Carriers(q, list)
           lists == [c \in DOMAIN channels |-> Take(Strongest(q, FoundBy(carriers, channels[c])), 1)]
           typed == Once(Flat(lists))
<1>1. \A c \in DOMAIN channels : MadeOf(lists[c], H)
    <2> SUFFICES ASSUME NEW c \in DOMAIN channels
                 PROVE  MadeOf(Take(Strongest(q, FoundBy(carriers, channels[c])), 1), H)
        OBVIOUS
    <2>1. MadeOf(carriers, H)
        BY StrongestHeld
    <2> HIDE DEF carriers
    <2>2. MadeOf(FoundBy(carriers, channels[c]), H)
        BY <2>1, PartHeld DEF FoundBy
    <2>3. MadeOf(Strongest(q, FoundBy(carriers, channels[c])), H)
        BY <2>2, StrongestHeld
    <2> QED
        BY <2>3, TakeHeld
<1>2. CarriersFirst(q, channels, list) = Once(Contact(q, list) \o Strongest(q, typed) \o list)
    BY DEF CarriersFirst
<1>3. ListsMadeOf(lists, H)
    <2>1. Len(channels) \in Nat /\ DOMAIN channels = 1 .. Len(channels)
        BY ListsHeldMeans
    <2>2. lists = [c \in 1 .. Len(channels) |-> lists[c]]
        BY <2>1
    <2> HIDE DEF lists
    <2> QED
        BY <1>1, <2>1, <2>2, ListsHeldIf
<1> HIDE DEF lists
<1>4. MadeOf(typed, H)
    BY <1>3, FlatHeld, OnceHeld
<1> HIDE DEF typed
<1>5. MadeOf(Strongest(q, typed), H) /\ MadeOf(Contact(q, list), H)
    BY <1>4, StrongestHeld, ContactHeld
<1>6. MadeOf(Contact(q, list) \o Strongest(q, typed), H)
    BY <1>5, ConcatHeld
<1>7. MadeOf((Contact(q, list) \o Strongest(q, typed)) \o list, H)
    BY <1>6, ConcatHeld
<1> QED
    BY <1>2, <1>7, OnceHeld

LEMMA RefineHeld ==
    ASSUME NEW H, NEW q, NEW channels, ListsMadeOf(channels, H), NEW topK \in Nat
    PROVE  MadeOf(RefineCandidates(q, channels, topK), H)
<1>1. MadeOf(FuseCandidates(channels), H)
    BY FuseHeld
<1>2. MadeOf(Covered(q, FuseCandidates(channels)), H)
    BY <1>1, CoveredHeld
<1>3. MadeOf(Rescored(q, channels, Covered(q, FuseCandidates(channels))), H)
    BY <1>2, RescoredHeld
<1>4. MadeOf(CarriersFirst(q, channels,
               Rescored(q, channels, Covered(q, FuseCandidates(channels)))), H)
    BY <1>3, CarriersFirstHeld
<1> QED
    BY <1>4, TakeHeld DEF RefineCandidates

LEMMA PromotedHeld ==
    ASSUME nextId \in Nat, NEW H, NEW q, NEW ranked, MadeOf(ranked, H), NEW pairs,
           \A pair \in pairs : IsHit(pair.child, H), NEW topK \in Nat
    PROVE  MadeOf(ExpandStructuralParents(q, ranked, pairs, topK), H)
<1> DEFINE ScoreOf(id) == ranked[RankIn(ranked, id)].score
           children == Ordered({pair.child : pair \in pairs})
           Inherited(hit) == Max({(ScoreOf(pair.parent.id) * 9) \div 10 : pair \in {p \in pairs : p.child = hit}})
           promoted == [i \in DOMAIN children |-> [children[i] EXCEPT !.score =
                           Inherited(children[i]) + 38 * Useful(q, children[i])]]
<1>1. MadeOf(children, H)
    <2>1. \A hit \in {pair.child : pair \in pairs} : IsHit(hit, H)
        OBVIOUS
    <2> QED
        BY <2>1, OrderedHeld
<1>2. ExpandStructuralParents(q, ranked, pairs, topK) = Take(Once(ByScore(Precise(ranked) \o promoted)), topK)
    BY DEF ExpandStructuralParents
<1> HIDE DEF children, Inherited
<1>3. MadeOf(promoted, H)
    <2>1. /\ Len(children) \in Nat /\ DOMAIN children = 1 .. Len(children)
          /\ \A i \in DOMAIN children : IsHit(children[i], H)
        BY <1>1, HeldMeans
    <2>2. \A i \in DOMAIN children : IsHit(promoted[i], H)
        BY <2>1, RescoredIsHit
    <2>3. promoted = [i \in 1 .. Len(children) |-> promoted[i]]
        BY <2>1
    <2> HIDE DEF promoted
    <2> QED
        BY <2>1, <2>2, <2>3, HeldIf
<1> HIDE DEF promoted
<1>4. MadeOf(Precise(ranked) \o promoted, H)
    BY <1>3, PreciseHeld, ConcatHeld
<1>5. MadeOf(Once(ByScore(Precise(ranked) \o promoted)), H)
    BY <1>4, ByHeld, OnceHeld
<1> QED
    BY <1>2, <1>5, TakeHeld

\* The page context an answer is read with names chunks; its hits stay.
LEMMA LentHeld ==
    ASSUME NEW H, NEW leads, NEW them, MadeOf(them, H)
    PROVE  \A k \in DOMAIN EnrichRepeatedPageLeadContext(leads, them) :
               IsHit(EnrichRepeatedPageLeadContext(leads, them)[k].hit, H)
<1>1. \A pages : \A k \in DOMAIN LendLeads(leads, them, pages) :
          k \in DOMAIN them /\ LendLeads(leads, them, pages)[k].hit = them[k]
    BY DEF LendLeads
<1>2. PICK pages : EnrichRepeatedPageLeadContext(leads, them) = LendLeads(leads, them, pages)
    BY DEF EnrichRepeatedPageLeadContext
<1>3. \A k \in DOMAIN them : IsHit(them[k], H)
    BY HeldMeans
<1> QED
    BY <1>1, <1>2, <1>3

-----------------------------------------------------------------------------
(* selectWithNeighbors. *)

LEMMA CandidatesHeld ==
    ASSUME NEW H, NEW N, Closed(H, N), NEW q, NEW route, NEW ranked, MadeOf(ranked, H), NEW near, MadeOf(near, N)
    PROVE  MadeOf(Candidates(q, route, ranked, near), H)
<1> DEFINE anchors(hit) == {i \in DOMAIN ranked : ranked[i].n # hit.n /\ Near(hit, ranked[i], Reach(route))}
           AnchorsOf(hit) == Pick(ranked, anchors(hit))
           at == {i \in DOMAIN near : near[i].id \notin IdsOf(ranked) /\ AnchorsOf(near[i]) # <<>>}
           new == Pick(near, at)
           scored == [i \in DOMAIN new |->
                         [new[i] EXCEPT !.score = NeighborScore(q, new[i], AnchorsOf(new[i])[1])]]
<1>1. Candidates(q, route, ranked, near) = ByScore(ranked \o scored)
    BY DEF Candidates
<1>2. \A hit : AnchorsOf(hit) # <<>> => \E i \in DOMAIN ranked : ranked[i].doc = hit.doc
    <2> SUFFICES ASSUME NEW hit, AnchorsOf(hit) # <<>>
                 PROVE  \E i \in DOMAIN ranked : ranked[i].doc = hit.doc
        OBVIOUS
    <2> DEFINE found == AnchorsOf(hit)
    <2>1. PICK S : ranked \in Seq(S)
        BY DEF MadeOf
    <2>2. /\ found \in Seq(S)
          /\ \A k \in DOMAIN found : \E i \in DOMAIN ranked : i \in anchors(hit) /\ found[k] = ranked[i]
        <3> HIDE DEF anchors
        <3> QED
            BY <2>1, PickIsPart
    <2>3. found # <<>>
        OBVIOUS
    <2> HIDE DEF found
    <2>4. 1 \in DOMAIN found
        BY <2>2, <2>3
    <2> QED
        BY <2>2, <2>4 DEF Near
<1>3. \A i \in DOMAIN near : i \in at => Ref(near[i]) \in H
    <2> SUFFICES ASSUME NEW i \in DOMAIN near, i \in at PROVE Ref(near[i]) \in H
        OBVIOUS
    <2>1. PICK k \in DOMAIN ranked : ranked[k].doc = near[i].doc
        BY <1>2
    <2>2. IsHit(ranked[k], H) /\ IsHit(near[i], N)
        BY HeldMeans
    <2> QED
        BY <2>1, <2>2, BesideIsSeen
<1> HIDE DEF at, AnchorsOf
<1>4. MadeOf(new, H)
    BY <1>3, PickHeld
<1> HIDE DEF new
<1>5. MadeOf(scored, H)
    <2>1. /\ Len(new) \in Nat /\ DOMAIN new = 1 .. Len(new)
          /\ \A i \in DOMAIN new : IsHit(new[i], H)
        BY <1>4, HeldMeans
    <2>2. \A i \in DOMAIN new : IsHit(scored[i], H)
        BY <2>1, RescoredIsHit
    <2>3. scored = [i \in 1 .. Len(new) |-> scored[i]]
        BY <2>1
    <2> HIDE DEF scored
    <2> QED
        BY <2>1, <2>2, <2>3, HeldIf
<1> HIDE DEF scored
<1>6. MadeOf(ranked \o scored, H)
    BY <1>5, ConcatHeld
<1> QED
    BY <1>1, <1>6, ByHeld

LEMMA WindowHeld ==
    ASSUME NEW H, NEW q, NEW route, NEW precise, MadeOf(precise, H)
    PROVE  MadeOf(ContextualWindow(q, route, precise), H)
<1>1. ASSUME NEW anchor PROVE MadeOf(WindowAround(q, route, precise, anchor), H)
    <2> DEFINE around == Around(precise, anchor, route)
               kept == Pick(around, {i \in DOMAIN around : Apart(around[i], anchor) <= 1 \/ Chunk(around[i]).size >= Limit.long})
               Worth(hit) == IF route = "synthesis" THEN 100 * Useful(q, hit) ELSE 0
               Key(hit) == IF hit.id = anchor.id THEN 1000000 ELSE Worth(hit) - Apart(hit, anchor)
               key == [i \in DOMAIN kept |-> Key(kept[i])]
    <2>1. WindowAround(q, route, precise, anchor) = Take(Descending(kept, key), Limit.window)
        BY DEF WindowAround
    <2>2. MadeOf(around, H)
        BY PartHeld DEF Around
    <2> HIDE DEF around
    <2>3. MadeOf(kept, H)
        BY <2>2, PartHeld
    <2> HIDE DEF kept, key
    <2>4. MadeOf(Descending(kept, key), H) /\ Limit.window \in Int
        BY <2>3, DescendingHeld, LimitsAreNumbers
    <2>5. MadeOf(Take(Descending(kept, key), Limit.window), H)
        BY <2>4, TakeHeld
    <2> QED
        BY <2>1, <2>5
<1>2. \/ ContextualWindow(q, route, precise) = <<>>
      \/ \E anchor : ContextualWindow(q, route, precise) = WindowAround(q, route, precise, anchor)
    BY DEF ContextualWindow
<1> QED
    BY <1>1, <1>2, NothingIsHeld

LEMMA ContinuationsHeld ==
    ASSUME NEW H, NEW sorted, MadeOf(sorted, H), NEW heads, MadeOf(heads, H)
    PROVE  MadeOf(Continuations(sorted, heads), H)
<1> DEFINE once == Once(heads)
           open == Take(Pick(once, {i \in DOMAIN once : Chunk(once[i]).open}), 2)
           Behind(hit) == Pick(sorted, {i \in DOMAIN sorted : sorted[i].doc = hit.doc /\ sorted[i].n = hit.n + 1})
           lists == [i \in DOMAIN open |-> Take(Behind(open[i]), 1)]
<1>1. Continuations(sorted, heads) = Flat(lists)
    BY DEF Continuations
<1>2. MadeOf(open, H)
    <2>1. MadeOf(once, H)
        BY OnceHeld
    <2> HIDE DEF once
    <2>2. MadeOf(Pick(once, {i \in DOMAIN once : Chunk(once[i]).open}), H)
        BY <2>1, PartHeld
    <2> QED
        BY <2>2, TakeHeld
<1> HIDE DEF open
<1>3. \A i \in DOMAIN open : MadeOf(lists[i], H)
    <2> SUFFICES ASSUME NEW i \in DOMAIN open PROVE MadeOf(Take(Behind(open[i]), 1), H)
        OBVIOUS
    <2>1. MadeOf(Behind(open[i]), H)
        BY PartHeld
    <2> HIDE DEF Behind
    <2> QED
        BY <2>1, TakeHeld
<1>4. ListsMadeOf(lists, H)
    <2>1. Len(open) \in Nat /\ DOMAIN open = 1 .. Len(open)
        BY <1>2, HeldMeans
    <2>2. lists = [i \in 1 .. Len(open) |-> lists[i]]
        BY <2>1
    <2> HIDE DEF lists
    <2> QED
        BY <1>3, <2>1, <2>2, ListsHeldIf
<1> HIDE DEF lists
<1> QED
    BY <1>1, <1>4, FlatHeld

LEMMA OrderHeld ==
    ASSUME NEW H, NEW q, NEW route, NEW ranked, MadeOf(ranked, H), NEW sorted, MadeOf(sorted, H),
           NEW window, MadeOf(window, H)
    PROVE  MadeOf(Order(q, route, ranked, sorted, window), H)
<1> DEFINE contact == Contact(q, sorted)
           scoped == Take(By(sorted, UsefulOf(q, sorted)), 2)
           typed == Strongest(q, Carriers(q, sorted))
           leaders == Pick(sorted, {i \in DOMAIN sorted : \A j \in 1 .. i - 1 : sorted[j].doc # sorted[i].doc})
           widely == Continuations(Precise(sorted), Precise(window \o Take(sorted, Limit.early)))
           after == Continuations(sorted, scoped)
<1>1. MadeOf(contact, H)
    BY ContactHeld
<1>2. MadeOf(scoped, H)
    <2>1. MadeOf(By(sorted, UsefulOf(q, sorted)), H)
        BY ByHeld
    <2> QED
        BY <2>1, TakeHeld
<1>3. MadeOf(typed, H)
    BY StrongestHeld
<1>4. MadeOf(leaders, H)
    BY PartHeld
<1>5. MadeOf(widely, H)
    <2>1. Limit.early \in Int
        BY LimitsAreNumbers
    <2>2. MadeOf(Take(sorted, Limit.early), H)
        BY <2>1, TakeHeld
    <2>3. MadeOf(window \o Take(sorted, Limit.early), H)
        BY <2>2, ConcatHeld
    <2>4. MadeOf(Precise(window \o Take(sorted, Limit.early)), H) /\ MadeOf(Precise(sorted), H)
        BY <2>3, PreciseHeld
    <2> QED
        BY <2>4, ContinuationsHeld
<1>6. MadeOf(after, H)
    <2> HIDE DEF scoped
    <2> QED
        BY <1>2, ContinuationsHeld
<1>7. \/ Order(q, route, ranked, sorted, window) = ranked \o sorted
      \/ Order(q, route, ranked, sorted, window) = contact \o window \o widely \o typed \o leaders \o sorted
      \/ Order(q, route, ranked, sorted, window) = contact \o after \o window \o typed \o scoped \o sorted
    <2>1. CASE route = "aggregate"
        BY <2>1 DEF Order
    <2>2. CASE route = "synthesis"
        BY <2>2 DEF Order
    <2>3. CASE route # "aggregate" /\ route # "synthesis"
        BY <2>3 DEF Order
    <2> QED
        BY <2>1, <2>2, <2>3
<1> HIDE DEF contact, scoped, typed, leaders, widely, after
<1>8. MadeOf(ranked \o sorted, H)
    BY ConcatHeld
<1>9. MadeOf(contact \o window \o widely \o typed \o leaders \o sorted, H)
    <2>1. MadeOf(contact \o window, H)
        BY <1>1, ConcatHeld
    <2>2. MadeOf((contact \o window) \o widely, H)
        BY <1>5, <2>1, ConcatHeld
    <2>3. MadeOf(((contact \o window) \o widely) \o typed, H)
        BY <1>3, <2>2, ConcatHeld
    <2>4. MadeOf((((contact \o window) \o widely) \o typed) \o leaders, H)
        BY <1>4, <2>3, ConcatHeld
    <2> QED
        BY <2>4, ConcatHeld
<1>10. MadeOf(contact \o after \o window \o typed \o scoped \o sorted, H)
    <2>1. MadeOf(contact \o after, H)
        BY <1>1, <1>6, ConcatHeld
    <2>2. MadeOf((contact \o after) \o window, H)
        BY <2>1, ConcatHeld
    <2>3. MadeOf(((contact \o after) \o window) \o typed, H)
        BY <1>3, <2>2, ConcatHeld
    <2>4. MadeOf((((contact \o after) \o window) \o typed) \o scoped, H)
        BY <1>2, <2>3, ConcatHeld
    <2> QED
        BY <2>4, ConcatHeld
<1> QED
    BY <1>7, <1>8, <1>9, <1>10

LEMMA SelectHeld ==
    ASSUME NEW H, NEW N, Closed(H, N), NEW q, NEW route, NEW ranked, MadeOf(ranked, H), NEW near, MadeOf(near, N),
           NEW topK
    PROVE  MadeOf(SelectWithNeighbors(q, route, ranked, near, topK), H)
<1> DEFINE sorted == Candidates(q, route, ranked, near)
           window == ContextualWindow(q, route, Precise(sorted))
           order == Order(q, route, ranked, sorted, window)
<1>1. SelectWithNeighbors(q, route, ranked, near, topK) = Packed(route, Precise(order), topK)
    BY DEF SelectWithNeighbors, SelectFrom, Excerpts
<1>2. MadeOf(sorted, H)
    BY CandidatesHeld
<1> HIDE DEF sorted
<1>3. MadeOf(window, H)
    BY <1>2, PreciseHeld, WindowHeld
<1> HIDE DEF window
<1>4. MadeOf(order, H)
    BY <1>2, <1>3, OrderHeld
<1> HIDE DEF order
<1>5. MadeOf(Precise(order), H)
    BY <1>4, PreciseHeld
<1> DEFINE precise == Precise(order)
<1> HIDE DEF precise
<1>6. PICK S : precise \in Seq(S) /\ \A hit \in S : IsHit(hit, H)
    BY <1>5 DEF MadeOf, precise
<1>7. Packed(route, precise, topK) \in Seq(S)
    BY <1>6, PackedIn
<1> QED
    BY <1>1, <1>6, <1>7 DEF MadeOf, precise

-----------------------------------------------------------------------------
(* retrieveMany. *)

LEMMA InitialHeld ==
    ASSUME NEW H, NEW N, Closed(H, N), NEW request, NEW channels, ListsMadeOf(channels, H), NEW near, MadeOf(near, N)
    PROVE  ListsMadeOf(RankInitialChannels(request, channels, near), H)
<1> DEFINE Alone(c) == [<<<<>>, <<>>, <<>>>> EXCEPT ![c] =
                           ExpandChannelCandidatesWithNeighbors(request.question, channels[c], near)]
           refined == [c \in DOMAIN channels |-> RefineCandidates(request.question, Alone(c), Limit.head)]
<1>1. RankInitialChannels(request, channels, near) = refined
    BY DEF RankInitialChannels
<1>2. \A c \in DOMAIN channels : ListsMadeOf(Alone(c), H)
    <2> SUFFICES ASSUME NEW c \in DOMAIN channels PROVE ListsMadeOf(Alone(c), H)
        OBVIOUS
    <2> DEFINE expanded == ExpandChannelCandidatesWithNeighbors(request.question, channels[c], near)
               alone == [<<<<>>, <<>>, <<>>>> EXCEPT ![c] = expanded]
    <2>1. MadeOf(expanded, H)
        <3>1. MadeOf(channels[c], H)
            BY ListsHeldMeans
        <3> QED
            BY <3>1, ExpandHeld
    <2> HIDE DEF expanded
    <2>2. alone = [k \in 1 .. 3 |-> IF k = c THEN expanded ELSE <<>>]
        OBVIOUS
    <2>3. alone = [k \in 1 .. 3 |-> alone[k]] /\ \A k \in 1 .. 3 : alone[k] = expanded \/ alone[k] = <<>>
        BY <2>2
    <2> HIDE DEF alone
    <2>4. ListsMadeOf(alone, H)
        BY <2>1, <2>3, NothingIsHeld, ListsHeldIf
    <2> QED
        BY <2>4 DEF alone, expanded
<1>3. \A c \in DOMAIN channels : MadeOf(refined[c], H)
    <2> HIDE DEF Alone
    <2> QED
        BY <1>2, RefineHeld, LimitsAreNumbers
<1>4. Len(channels) \in Nat /\ DOMAIN channels = 1 .. Len(channels)
    BY ListsHeldMeans
<1>5. refined = [c \in 1 .. Len(channels) |-> refined[c]]
    BY <1>4
<1> HIDE DEF refined
<1> QED
    BY <1>1, <1>3, <1>4, <1>5, ListsHeldIf

LEMMA LimitsOfRequests ==
    ASSUME NEW request
    PROVE  CandidateLimit(request) \in Nat /\ Leading(request.route) \in Nat
BY LimitsAreNumbers DEF CandidateLimit, Leading

LEMMA FusedHeld ==
    ASSUME NEW H, NEW N, Closed(H, N), NEW request, NEW channels, ListsMadeOf(channels, H), NEW near, MadeOf(near, N)
    PROVE  MadeOf(PackAndFuseChannels(request, channels, near), H)
<1> DEFINE own == NeighborsForAnchors(near, Anchors(channels, Leading(request.route)))
           packed == [c \in DOMAIN channels |->
               SelectWithNeighbors(request.question, request.route, channels[c], own, Limit.pack)]
<1>1. PackAndFuseChannels(request, channels, near) = RefineCandidates(request.question, packed, CandidateLimit(request))
    BY DEF PackAndFuseChannels
<1>2. MadeOf(own, N)
    BY PartHeld DEF NeighborsForAnchors
<1> HIDE DEF own
<1>3. \A c \in DOMAIN channels : MadeOf(packed[c], H)
    BY <1>2, ListsHeldMeans, SelectHeld
<1>4. Len(channels) \in Nat /\ DOMAIN channels = 1 .. Len(channels)
    BY ListsHeldMeans
<1>5. packed = [c \in 1 .. Len(channels) |-> packed[c]]
    BY <1>4
<1> HIDE DEF packed
<1>6. ListsMadeOf(packed, H)
    BY <1>3, <1>4, <1>5, ListsHeldIf
<1> QED
    BY <1>1, <1>6, RefineHeld, LimitsOfRequests

-----------------------------------------------------------------------------
(* The passages of an index.  The state is an argument, so that what is     *)
(* said of one state can be said of the next.                               *)

IndexOf == [Docs -> [of : DOMAIN Texts \cup {Nil}, base : Nat]]
SizeOfText(c) == Len(Texts[c])
SpanOf(entry, d) ==
    {[id |-> entry.base + n, doc |-> d, of |-> entry.of, n |-> n, score |-> 0] : n \in 1 .. SizeOfText(entry.of)}
LiveOf(idx) == UNION {SpanOf(idx[d], d) : d \in {e \in Docs : idx[e].of # Nil}}

\* Ids were given in spans, and no two documents share one.
Spans(idx, next) ==
    /\ idx \in IndexOf /\ next \in Nat
    /\ \A d \in Docs : idx[d].of # Nil => idx[d].base + SizeOfText(idx[d].of) <= next
    /\ \A d, e \in Docs : d # e /\ idx[d].of # Nil /\ idx[e].of # Nil =>
           \/ idx[d].base + SizeOfText(idx[d].of) <= idx[e].base
           \/ idx[e].base + SizeOfText(idx[e].of) <= idx[d].base

\* What was said of a chunk that was there, or is still: its id was given, and
\* while it is anybody's it is that passage's.
Known(idx, next) ==
    {r \in [id : Nat, doc : Docs, of : DOMAIN Texts, n : Nat] :
        /\ r.id <= next
        /\ \A hit \in LiveOf(idx) : hit.id = r.id => Ref(hit) = r}
Seen(K, docs) == {r \in K : docs = {} \/ r.doc \in docs}

LEMMA SizesAreNumbers == \A c \in DOMAIN Texts : SizeOfText(c) \in Nat /\ DOMAIN Texts[c] = 1 .. SizeOfText(c)
BY TextsAssumption DEF SizeOfText

LEMMA LiveHas ==
    ASSUME NEW idx \in IndexOf, NEW hit \in LiveOf(idx)
    PROVE  \E d \in Docs : \E n \in 1 .. SizeOfText(idx[d].of) :
              /\ idx[d].of # Nil /\ idx[d].of \in DOMAIN Texts /\ idx[d].base \in Nat
              /\ n \in Nat /\ SizeOfText(idx[d].of) \in Nat /\ n <= SizeOfText(idx[d].of)
              /\ hit = [id |-> idx[d].base + n, doc |-> d, of |-> idx[d].of, n |-> n, score |-> 0]
<1>1. PICK d \in Docs : idx[d].of # Nil /\ hit \in SpanOf(idx[d], d)
    BY DEF LiveOf
<1>2. idx[d].of \in DOMAIN Texts /\ idx[d].base \in Nat
    BY <1>1 DEF IndexOf
<1>3. SizeOfText(idx[d].of) \in Nat
    BY <1>2, SizesAreNumbers
<1>4. PICK n \in 1 .. SizeOfText(idx[d].of) :
          hit = [id |-> idx[d].base + n, doc |-> d, of |-> idx[d].of, n |-> n, score |-> 0]
    BY <1>1 DEF SpanOf
<1> QED
    BY <1>1, <1>2, <1>3, <1>4

LEMMA LiveIsOf ==
    ASSUME NEW idx \in IndexOf
    PROVE  UNION {ToSet(IF idx[d].of = Nil THEN <<>>
                        ELSE [n \in DOMAIN Texts[idx[d].of] |->
                                 [id |-> idx[d].base + n, doc |-> d, of |-> idx[d].of, n |-> n, score |-> 0]]) : d \in Docs}
           = LiveOf(idx)
<1> DEFINE list(d) == IF idx[d].of = Nil THEN <<>>
                      ELSE [n \in DOMAIN Texts[idx[d].of] |->
                               [id |-> idx[d].base + n, doc |-> d, of |-> idx[d].of, n |-> n, score |-> 0]]
<1>1. \A d \in Docs : idx[d].of = Nil => ToSet(list(d)) = {}
    BY DEF ToSet
<1>2. \A d \in Docs : idx[d].of # Nil => ToSet(list(d)) = SpanOf(idx[d], d)
    <2> SUFFICES ASSUME NEW d \in Docs, idx[d].of # Nil PROVE ToSet(list(d)) = SpanOf(idx[d], d)
        OBVIOUS
    <2>1. DOMAIN Texts[idx[d].of] = 1 .. SizeOfText(idx[d].of)
        BY SizesAreNumbers DEF IndexOf
    <2> QED
        BY <2>1 DEF ToSet, SpanOf
<1> HIDE DEF list
<1>3. UNION {ToSet(list(d)) : d \in Docs} = LiveOf(idx)
    <2>1. LiveOf(idx) \subseteq UNION {ToSet(list(d)) : d \in Docs}
        BY <1>2 DEF LiveOf
    <2>2. UNION {ToSet(list(d)) : d \in Docs} \subseteq LiveOf(idx)
        BY <1>1, <1>2 DEF LiveOf
    <2> QED
        BY <2>1, <2>2
<1> QED
    BY <1>3 DEF list

LEMMA LiveIs == ASSUME index \in IndexOf PROVE Live = LiveOf(index)
BY LiveIsOf DEF Live, HitsOf

LEMMA NextLiveIs == ASSUME index' \in IndexOf PROVE Live' = LiveOf(index')
BY LiveIsOf DEF Live, HitsOf

\* An id is one passage's.
LEMMA OneIdOnePassage ==
    ASSUME NEW idx, NEW next, Spans(idx, next), NEW hit \in LiveOf(idx), NEW other \in LiveOf(idx), hit.id = other.id
    PROVE  hit = other
<1> USE DEF Spans
<1>1. PICK d \in Docs : \E n \in 1 .. SizeOfText(idx[d].of) :
              /\ idx[d].of # Nil /\ idx[d].of \in DOMAIN Texts /\ idx[d].base \in Nat
              /\ n \in Nat /\ SizeOfText(idx[d].of) \in Nat /\ n <= SizeOfText(idx[d].of)
              /\ hit = [id |-> idx[d].base + n, doc |-> d, of |-> idx[d].of, n |-> n, score |-> 0]
    BY LiveHas
<1>2. PICK e \in Docs : \E n \in 1 .. SizeOfText(idx[e].of) :
              /\ idx[e].of # Nil /\ idx[e].of \in DOMAIN Texts /\ idx[e].base \in Nat
              /\ n \in Nat /\ SizeOfText(idx[e].of) \in Nat /\ n <= SizeOfText(idx[e].of)
              /\ other = [id |-> idx[e].base + n, doc |-> e, of |-> idx[e].of, n |-> n, score |-> 0]
    BY LiveHas
<1>3. hit.id \in idx[d].base + 1 .. idx[d].base + SizeOfText(idx[d].of)
    BY <1>1
<1>4. other.id \in idx[e].base + 1 .. idx[e].base + SizeOfText(idx[e].of)
    BY <1>2
<1>5. d = e
    BY <1>1, <1>2, <1>3, <1>4
<1> QED
    BY <1>1, <1>2, <1>5

LEMMA LiveIsKnown ==
    ASSUME NEW idx, NEW next, Spans(idx, next), NEW hit \in LiveOf(idx)
    PROVE  Ref(hit) \in Known(idx, next) /\ IsHit(hit, Known(idx, next))
<1>1. PICK d \in Docs : \E n \in 1 .. SizeOfText(idx[d].of) :
              /\ idx[d].of # Nil /\ idx[d].of \in DOMAIN Texts /\ idx[d].base \in Nat
              /\ n \in Nat /\ SizeOfText(idx[d].of) \in Nat /\ n <= SizeOfText(idx[d].of)
              /\ hit = [id |-> idx[d].base + n, doc |-> d, of |-> idx[d].of, n |-> n, score |-> 0]
    BY LiveHas DEF Spans
<1>2. Ref(hit) \in [id : Nat, doc : Docs, of : DOMAIN Texts, n : Nat]
    BY <1>1 DEF Ref
<1>3. hit.id <= next /\ Ref(hit).id = hit.id
    BY <1>1 DEF Ref, Spans
<1>4. \A other \in LiveOf(idx) : other.id = hit.id => Ref(other) = Ref(hit)
    BY OneIdOnePassage
<1>5. Ref(hit) \in Known(idx, next)
    BY <1>2, <1>3, <1>4 DEF Known
<1>6. DOMAIN hit = {"id", "doc", "of", "n", "score"} /\ hit = [x \in DOMAIN hit |-> hit[x]]
    BY <1>1
<1> QED
    BY <1>5, <1>6 DEF IsHit

\* The neighbours that a read may bring, for a question with a scope or none.
LiveRefs(idx) == {Ref(hit) : hit \in LiveOf(idx)}

\* What a search may hold: what is there, or may still be.
Between(K, idx, next) == LiveRefs(idx) \subseteq K /\ K \subseteq Known(idx, next)

LEMMA LiveIsBetween ==
    ASSUME NEW idx, NEW next, Spans(idx, next)
    PROVE  Between(Known(idx, next), idx, next) /\ Between(LiveRefs(idx), idx, next)
BY LiveIsKnown DEF Between, LiveRefs

LEMMA LiveIsClosed ==
    ASSUME NEW idx, NEW next, NEW K, Between(K, idx, next), NEW docs
    PROVE  Closed(Seen(K, docs), LiveRefs(idx))
BY DEF Closed, Seen, LiveRefs, Between

LEMMA LiveHits ==
    ASSUME NEW idx, NEW next, Spans(idx, next), NEW hit \in LiveOf(idx)
    PROVE  IsHit(hit, LiveRefs(idx))
BY LiveIsKnown DEF IsHit, LiveRefs

LEMMA NeighborsHeld ==
    ASSUME Spans(index, nextId), NEW ids, NEW radius
    PROVE  MadeOf(ListNeighborChunks(ids, radius), LiveRefs(index))
<1> DEFINE them == {hit \in Live : \E anchor \in Live : anchor.id \in ids /\ Near(hit, anchor, radius)}
<1>1. \A hit \in them : IsHit(hit, LiveRefs(index))
    BY LiveIs, LiveHits DEF Spans
<1>2. ListNeighborChunks(ids, radius) = Ordered(them)
    BY DEF ListNeighborChunks
<1> HIDE DEF them
<1>3. nextId \in Nat
    BY DEF Spans
<1> QED
    BY <1>1, <1>2, <1>3, OrderedHeld

LEMMA ChildrenSeen ==
    ASSUME Spans(index, nextId), NEW K, Between(K, index, nextId),
           NEW docs, NEW coarse, MadeOf(coarse, Seen(K, docs)),
           NEW pair \in ListChildChunksForParents(ParentIds(coarse))
    PROVE  IsHit(pair.child, Seen(K, docs))
<1> DEFINE H == Seen(K, docs)
           at == {i \in DOMAIN coarse : IsParent(coarse[i])}
           parents == Pick(coarse, at)
<1>1. /\ pair.parent \in LiveOf(index) /\ pair.child \in LiveOf(index)
      /\ pair.parent.id \in ParentIds(coarse) /\ pair.parent.doc = pair.child.doc
    BY LiveIs DEF ListChildChunksForParents, Spans
<1>2. ParentIds(coarse) = IdsOf(parents)
    BY DEF ParentIds
<1>3. MadeOf(parents, H)
    BY PartHeld
<1> HIDE DEF parents
<1>4. PICK k \in DOMAIN parents : parents[k].id = pair.parent.id
    BY <1>1, <1>2 DEF IdsOf
<1>5. Ref(parents[k]) \in H
    BY <1>3, <1>4, HeldMeans DEF IsHit
<1>6. Ref(pair.parent) = Ref(parents[k])
    BY <1>1, <1>4, <1>5 DEF Seen, Known, Ref, Between
<1>7. IsHit(pair.parent, H) /\ IsHit(pair.child, LiveRefs(index))
    BY <1>1, <1>5, <1>6, LiveHits DEF IsHit
<1>8. Ref(pair.child) \in H
    <2>1. Closed(H, LiveRefs(index))
        BY LiveIsClosed
    <2> HIDE DEF H
    <2> QED
        BY <1>1, <1>7, <2>1, BesideIsSeen
<1> QED
    BY <1>7, <1>8 DEF IsHit

LEMMA FoundHeld ==
    ASSUME Spans(index, nextId), NEW K, Between(K, index, nextId), NEW channel \in Channels, NEW variant \in DOMAIN Ranking, NEW scope
    PROVE  MadeOf(Found(channel, variant, scope), Seen(K, scope))
<1> DEFINE H == Seen(K, scope)
           P == UNION {{c} \X DOMAIN Texts[c] : c \in DOMAIN Texts}
           all == Ranking[variant][channel]
           at == {i \in DOMAIN all : HitsAt(all[i], scope) # {}}
           list == Pick(all, at)
           them == [rank \in DOMAIN list |->
                       [(CHOOSE hit \in HitsAt(list[rank], scope) : TRUE) EXCEPT !.score = RawScore(channel, rank)]]
<1>1. Found(channel, variant, scope) = Take(them, Limit.channel)
    BY DEF Found
<1>2. all \in Seq(P)
    BY RankingAssumption
<1> HIDE DEF all, P
<1>3. list \in Seq(P) /\ \A k \in DOMAIN list : HitsAt(list[k], scope) # {}
    <2> HIDE DEF at
    <2>1. /\ Pick(all, at) \in Seq(P)
          /\ \A k \in DOMAIN Pick(all, at) : \E i \in DOMAIN all : i \in at /\ Pick(all, at)[k] = all[i]
        BY <1>2, PickIsPart
    <2> HIDE DEF list
    <2>2. \A k \in DOMAIN list : \E i \in DOMAIN all : i \in at /\ list[k] = all[i]
        BY <2>1 DEF list
    <2> QED
        BY <2>1, <2>2 DEF at, list
<1> HIDE DEF list
<1>4. \A place : \A hit \in HitsAt(place, scope) : IsHit(hit, H)
    <2>1. \A place : \A hit \in HitsAt(place, scope) : hit \in LiveOf(index) /\ (scope = {} \/ hit.doc \in scope)
        BY LiveIs DEF HitsAt, Spans
    <2>2. \A hit \in LiveOf(index) : Ref(hit) \in K /\ IsHit(hit, K)
        BY LiveIsKnown DEF Between, LiveRefs, IsHit
    <2> QED
        BY <2>1, <2>2 DEF IsHit, Seen, Ref
<1>5. \A k \in DOMAIN list : IsHit(them[k], H)
    <2> SUFFICES ASSUME NEW k \in DOMAIN list PROVE IsHit(them[k], H)
        OBVIOUS
    <2> DEFINE hit == CHOOSE x \in HitsAt(list[k], scope) : TRUE
    <2>1. hit \in HitsAt(list[k], scope)
        BY <1>3
    <2>2. them[k] = [hit EXCEPT !.score = RawScore(channel, k)]
        OBVIOUS
    <2> HIDE DEF hit, them, H
    <2>3. IsHit(hit, H)
        BY <1>4, <2>1
    <2> QED
        BY <2>2, <2>3, RescoredIsHit
<1>6. Len(list) \in Nat /\ DOMAIN list = 1 .. Len(list) /\ them = [k \in 1 .. Len(list) |-> them[k]]
    BY <1>3
<1> HIDE DEF them, H
<1>7. MadeOf(them, H)
    BY <1>5, <1>6, HeldIf
<1>8. Limit.channel \in Int
    BY LimitsAreNumbers
<1>9. MadeOf(Take(them, Limit.channel), H)
    BY <1>7, <1>8, TakeHeld
<1> QED
    BY <1>1, <1>9 DEF H

-----------------------------------------------------------------------------
(* What the search in progress holds: each of its lists, passages that the  *)
(* request it is for may see.                                               *)

TagOf(batch) == [request : DOMAIN batch, variant : DOMAIN Ranking]

LEMMA TagsAreOfRequests ==
    ASSUME NEW batch \in Batches
    PROVE  Sparse(batch) \in Seq(TagOf(batch)) /\ Dense(batch) \in Seq(TagOf(batch))
<1>1. batch \in Seq(RequestOf)
    BY BatchesAssumption
<1>2. ASSUME NEW i \in DOMAIN batch, NEW variants \in Seq(DOMAIN Ranking)
      PROVE  Tagged(i, variants) \in Seq(TagOf(batch))
    <2>1. \A k \in DOMAIN variants : [request |-> i, variant |-> variants[k]] \in TagOf(batch)
        BY DEF TagOf
    <2>2. Len(variants) \in Nat /\ DOMAIN variants = 1 .. Len(variants)
        OBVIOUS
    <2>3. [k \in 1 .. Len(variants) |-> [request |-> i, variant |-> variants[k]]] \in Seq(TagOf(batch))
        BY <2>1, <2>2
    <2> QED
        BY <2>2, <2>3 DEF Tagged
<1>3. \A i \in DOMAIN batch : batch[i].sparse \in Seq(DOMAIN Ranking) /\ batch[i].dense \in Seq(DOMAIN Ranking)
    <2>1. \A i \in DOMAIN batch : batch[i] \in RequestOf
        BY <1>1
    <2> QED
        BY <2>1 DEF RequestOf
<1> DEFINE sparse == [i \in DOMAIN batch |-> Tagged(i, batch[i].sparse)]
           dense == [i \in DOMAIN batch |-> Tagged(i, batch[i].dense)]
           T == Seq(TagOf(batch))
<1>4. \A i \in DOMAIN batch : sparse[i] \in T /\ dense[i] \in T
    BY <1>2, <1>3
<1>5. Len(batch) \in Nat /\ DOMAIN batch = 1 .. Len(batch)
    BY <1>1
<1> HIDE DEF T
<1>6. sparse \in Seq(T) /\ dense \in Seq(T)
    <2>1. sparse = [i \in 1 .. Len(batch) |-> sparse[i]] /\ dense = [i \in 1 .. Len(batch) |-> dense[i]]
        BY <1>5
    <2> HIDE DEF sparse, dense
    <2> QED
        BY <1>4, <1>5, <2>1
<1> HIDE DEF sparse, dense
<1>7. Flat(sparse) \in Seq(TagOf(batch)) /\ Flat(dense) \in Seq(TagOf(batch))
    BY <1>6, FlatIsPart DEF T
<1> QED
    BY <1>7 DEF Sparse, Dense, sparse, dense

\* One list per variant of flat, seen by the request the variant is of.
FoundFor(K, batch, flat, lists) ==
    /\ lists = [k \in DOMAIN flat |-> lists[k]]
    /\ \A k \in DOMAIN flat : MadeOf(lists[k], Seen(K, batch[flat[k].request].docs))

LEMMA SearchedIsFor ==
    ASSUME Spans(index, nextId), NEW K, Between(K, index, nextId), NEW batch, NEW channel \in Channels,
           NEW flat \in Seq(TagOf(batch))
    PROVE  FoundFor(K, batch, flat, Searched(channel, batch, flat))
<1>1. \A k \in DOMAIN flat : Searched(channel, batch, flat)[k] = Found(channel, flat[k].variant, batch[flat[k].request].docs)
    BY DEF Searched, Scope
<1>2. \A k \in DOMAIN flat : flat[k].variant \in DOMAIN Ranking
    <2>1. \A k \in DOMAIN flat : flat[k] \in TagOf(batch)
        OBVIOUS
    <2> QED
        BY <2>1 DEF TagOf
<1>3. \A k \in DOMAIN flat : MadeOf(Searched(channel, batch, flat)[k], Seen(K, batch[flat[k].request].docs))
    BY <1>1, <1>2, FoundHeld
<1>4. Searched(channel, batch, flat) = [k \in DOMAIN flat |-> Searched(channel, batch, flat)[k]]
    BY DEF Searched
<1> QED
    BY <1>3, <1>4 DEF FoundFor

LEMMA ListsOfHeld ==
    ASSUME NEW K, NEW batch, NEW flat \in Seq(TagOf(batch)), NEW lists, FoundFor(K, batch, flat, lists), NEW i
    PROVE  ListsMadeOf(ListsOf(i, flat, lists), Seen(K, batch[i].docs))
<1> DEFINE S == {lists[k] : k \in DOMAIN flat}
           at == {k \in DOMAIN flat : flat[k].request = i}
           mine == ListsOf(i, flat, lists)
<1>1. lists \in Seq(S) /\ DOMAIN lists = DOMAIN flat
    BY DEF FoundFor
<1>2. mine \in Seq(S) /\ \A k \in DOMAIN mine : \E j \in DOMAIN lists : j \in at /\ mine[k] = lists[j]
    <2> HIDE DEF at, S
    <2>1. mine = Pick(lists, at)
        BY DEF ListsOf, at
    <2> HIDE DEF mine
    <2> QED
        BY <1>1, <2>1, PickIsPart
<1> HIDE DEF S, mine
<1>3. \A k \in DOMAIN mine : MadeOf(mine[k], Seen(K, batch[i].docs))
    BY <1>1, <1>2 DEF FoundFor
<1>4. Len(mine) \in Nat /\ DOMAIN mine = 1 .. Len(mine) /\ mine = [k \in 1 .. Len(mine) |-> mine[k]]
    BY <1>2
<1>5. ListsMadeOf(mine, Seen(K, batch[i].docs))
    BY <1>3, <1>4, ListsHeldIf
<1> QED
    BY <1>5 DEF mine

SearchHeld(K, s) ==
    LET Of(i) == Seen(K, s.batch[i].docs)
    IN  /\ s.step \in {"idle", "embedding", "candidates", "channels", "fused", "packing", "answered"}
        /\ s.step # "idle" => s.batch \in Batches
        /\ s.step = "embedding" => /\ FoundFor(K, s.batch, Sparse(s.batch), s.lexical)
                                   /\ FoundFor(K, s.batch, Sparse(s.batch), s.fuzzy)
        /\ s.step = "candidates" => \A i \in DOMAIN s.batch : ListsMadeOf(s.sets[i], Of(i))
        /\ s.step = "channels" => \A i \in DOMAIN s.batch : ListsMadeOf(s.channels[i], Of(i))
        /\ s.step = "fused" => \A i \in DOMAIN s.batch : MadeOf(s.coarse[i], Of(i))
        /\ s.step \in {"packing", "answered"} =>
               /\ {"step", "batch", "ranked", "results"} \subseteq DOMAIN s
               /\ \A i \in DOMAIN s.batch : MadeOf(s.ranked[i], Of(i))
               /\ \A i \in DOMAIN s.results : \A k \in DOMAIN s.results[i] : IsHit(s.results[i][k].hit, Of(i))

\* A citation was of a passage, and is of no other.
CitedHeld(idx, next, all) ==
    \A c \in all : /\ c.chunk \in Nat /\ c.chunk <= next
                   /\ \A hit \in LiveOf(idx) : hit.id = c.chunk => Place(hit) = c.snippet

RetrievalInv ==
    /\ Spans(index, nextId)
    /\ SearchHeld(Known(index, nextId), search)
    /\ quiet => SearchHeld(LiveRefs(index), search)
    /\ CitedHeld(index, nextId, cited)

LEMMA ListsGrow ==
    ASSUME NEW H, NEW G, H \subseteq G, NEW lists, ListsMadeOf(lists, H)
    PROVE  ListsMadeOf(lists, G)
BY HeldGrows DEF ListsMadeOf

LEMMA SearchGrows ==
    ASSUME NEW K, NEW L, K \subseteq L, NEW s, SearchHeld(K, s)
    PROVE  SearchHeld(L, s)
<1>1. \A docs : Seen(K, docs) \subseteq Seen(L, docs)
    BY DEF Seen
<1>2. \A docs, list : MadeOf(list, Seen(K, docs)) => MadeOf(list, Seen(L, docs))
    BY <1>1, HeldGrows
<1>3. \A docs, lists : ListsMadeOf(lists, Seen(K, docs)) => ListsMadeOf(lists, Seen(L, docs))
    BY <1>1, ListsGrow
<1>4. \A docs, hit : IsHit(hit, Seen(K, docs)) => IsHit(hit, Seen(L, docs))
    BY <1>1 DEF IsHit
<1>5. \A batch, flat, lists : FoundFor(K, batch, flat, lists) => FoundFor(L, batch, flat, lists)
    BY <1>2 DEF FoundFor
<1> QED
    BY <1>2, <1>3, <1>4, <1>5 DEF SearchHeld

\* A write changes what no citation and no search holds: ids above all given.
LEMMA WritesSpare ==
    ASSUME NEW idx, NEW next, Spans(idx, next), NEW idx2, NEW next2, Spans(idx2, next2), next <= next2,
           \A hit \in LiveOf(idx2) : hit \in LiveOf(idx) \/ hit.id > next
    PROVE  /\ Known(idx, next) \subseteq Known(idx2, next2)
           /\ \A all : CitedHeld(idx, next, all) => CitedHeld(idx2, next2, all)
<1>1. next \in Nat /\ next2 \in Nat /\ \A hit \in LiveOf(idx2) : hit.id \in Nat
    BY LiveIsKnown DEF Spans, Known, Ref
<1>2. Known(idx, next) \subseteq Known(idx2, next2)
    BY <1>1 DEF Known
<1>3. \A all : CitedHeld(idx, next, all) => CitedHeld(idx2, next2, all)
    BY <1>1 DEF CitedHeld
<1> QED
    BY <1>2, <1>3

-----------------------------------------------------------------------------
(* Every step keeps it.                                                     *)

LEMMA StartIsHeld == SearchInit => RetrievalInv
<1> SUFFICES ASSUME SearchInit PROVE RetrievalInv
    OBVIOUS
<1> USE DEF SearchInit
<1>1. Spans(index, nextId)
    BY DEF Spans, IndexOf
<1>2. SearchHeld(Known(index, nextId), search) /\ SearchHeld(LiveRefs(index), search)
    BY DEF SearchHeld, Idle
<1>3. CitedHeld(index, nextId, cited)
    BY DEF CitedHeld
<1> QED
    BY <1>1, <1>2, <1>3 DEF RetrievalInv

\* A step of the search leaves the library alone.
Holding(K) == Spans(index, nextId) /\ Between(K, index, nextId) /\ SearchHeld(K, search)

LEMMA Asking ==
    ASSUME RetrievalInv, UNCHANGED <<index, nextId, cited, quiet>>, \A K : Holding(K) => SearchHeld(K, search')
    PROVE  RetrievalInv'
<1>1. Between(Known(index, nextId), index, nextId) /\ Between(LiveRefs(index), index, nextId)
    BY LiveIsBetween DEF RetrievalInv
<1> QED
    BY <1>1 DEF RetrievalInv, Holding

LEMMA AskingAnew ==
    ASSUME RetrievalInv, UNCHANGED <<index, nextId, cited>>,
           \A K : Between(K, index, nextId) => SearchHeld(K, search')
    PROVE  RetrievalInv'
<1>1. Between(Known(index, nextId), index, nextId) /\ Between(LiveRefs(index), index, nextId)
    BY LiveIsBetween DEF RetrievalInv
<1> QED
    BY <1>1 DEF RetrievalInv

LEMMA StepRetrieveMany ==
    ASSUME Spans(index, nextId), NEW K, Between(K, index, nextId), NEW batch \in Batches, RetrieveMany(batch)
    PROVE  SearchHeld(K, search')
<1> USE DEF RetrieveMany
<1>2. FoundFor(K, batch, Sparse(batch), Searched("lexical", batch, Sparse(batch)))
    BY TagsAreOfRequests, SearchedIsFor DEF Channels
<1>3. FoundFor(K, batch, Sparse(batch), Searched("fuzzy", batch, Sparse(batch)))
    BY TagsAreOfRequests, SearchedIsFor DEF Channels
<1>4. /\ search'.step = "embedding" /\ search'.batch = batch
      /\ search'.lexical = Searched("lexical", batch, Sparse(batch))
      /\ search'.fuzzy = Searched("fuzzy", batch, Sparse(batch))
    OBVIOUS
<1> QED
    BY <1>2, <1>3, <1>4 DEF SearchHeld

LEMMA StepSearchVectorMany ==
    ASSUME NEW K, Holding(K), SearchVectorMany
    PROVE  SearchHeld(K, search')
<1> DEFINE semantic == Searched("semantic", Batch, Dense(Batch))
           sets == CandidateSets(Batch, search.lexical, search.fuzzy, semantic)
<1> USE DEF SearchVectorMany
<1>1. Spans(index, nextId) /\ Between(K, index, nextId) /\ SearchHeld(K, search)
    BY DEF Holding
<1>2. Batch \in Batches /\ search.step = "embedding"
    BY <1>1 DEF SearchHeld, Batch
<1>3. Sparse(Batch) \in Seq(TagOf(Batch)) /\ Dense(Batch) \in Seq(TagOf(Batch))
    BY <1>2, TagsAreOfRequests
<1>4. FoundFor(K, Batch, Dense(Batch), semantic)
    BY <1>1, <1>3, SearchedIsFor DEF Channels
<1> HIDE DEF semantic
<1>5. /\ FoundFor(K, Batch, Sparse(Batch), search.lexical)
      /\ FoundFor(K, Batch, Sparse(Batch), search.fuzzy)
    BY <1>1, <1>2 DEF SearchHeld, Batch
<1>6. ASSUME NEW i \in DOMAIN Batch
      PROVE  ListsMadeOf(sets[i], Seen(K, Batch[i].docs))
    <2> DEFINE H == Seen(K, Batch[i].docs)
               m1 == MergeRankedCandidateLists(ListsOf(i, Dense(Batch), semantic))
               m2 == MergeRankedCandidateLists(ListsOf(i, Sparse(Batch), search.lexical))
               m3 == MergeRankedCandidateLists(ListsOf(i, Sparse(Batch), search.fuzzy))
               three == <<m1, m2, m3>>
    <2>1. MadeOf(m1, H)
        <3>1. ListsMadeOf(ListsOf(i, Dense(Batch), semantic), H)
            BY <1>3, <1>4, ListsOfHeld
        <3> QED
            BY <3>1, MergeHeld
    <2>2. MadeOf(m2, H)
        <3>1. ListsMadeOf(ListsOf(i, Sparse(Batch), search.lexical), H)
            BY <1>3, <1>5, ListsOfHeld
        <3> QED
            BY <3>1, MergeHeld
    <2>3. MadeOf(m3, H)
        <3>1. ListsMadeOf(ListsOf(i, Sparse(Batch), search.fuzzy), H)
            BY <1>3, <1>5, ListsOfHeld
        <3> QED
            BY <3>1, MergeHeld
    <2>4. sets[i] = three
        BY DEF CandidateSets
    <2> HIDE DEF m1, m2, m3, H, sets
    <2>5. three = [c \in 1 .. 3 |-> three[c]] /\ three[1] = m1 /\ three[2] = m2 /\ three[3] = m3
        OBVIOUS
    <2>6. \A c \in 1 .. 3 : MadeOf(three[c], H)
        BY <2>1, <2>2, <2>3, <2>5
    <2> HIDE DEF three
    <2>7. ListsMadeOf(three, H)
        BY <2>5, <2>6, ListsHeldIf
    <2> QED
        BY <2>4, <2>7 DEF H
<1>7. search'.step = "candidates" /\ search'.batch = Batch /\ search'.sets = sets
    BY DEF semantic
<1> HIDE DEF sets
<1> QED
    BY <1>2, <1>6, <1>7 DEF SearchHeld

LEMMA StepRankInitial ==
    ASSUME NEW K, Holding(K), RankInitial
    PROVE  SearchHeld(K, search')
<1> DEFINE near == ListNeighborChunks(PreFusionAnchors(search.sets), 1)
           channels == [i \in Requests |-> RankInitialChannels(Batch[i], search.sets[i], near)]
<1> USE DEF RankInitial
<1>1. Spans(index, nextId) /\ Between(K, index, nextId) /\ SearchHeld(K, search)
    BY DEF Holding
<1>2. Batch \in Batches /\ \A i \in DOMAIN Batch : ListsMadeOf(search.sets[i], Seen(K, Batch[i].docs))
    BY <1>1 DEF SearchHeld, Batch
<1>3. MadeOf(near, LiveRefs(index))
    BY <1>1, NeighborsHeld
<1>4. \A docs : Closed(Seen(K, docs), LiveRefs(index))
    BY <1>1, LiveIsClosed
<1>5. search'.step = "channels" /\ search'.batch = Batch /\ search'.channels = channels
    OBVIOUS
<1> HIDE DEF near
<1>6. \A i \in DOMAIN Batch : ListsMadeOf(channels[i], Seen(K, Batch[i].docs))
    BY <1>2, <1>3, <1>4, InitialHeld DEF Requests
<1> HIDE DEF channels
<1> QED
    BY <1>2, <1>5, <1>6 DEF SearchHeld

LEMMA StepPackAndFuse ==
    ASSUME NEW K, Holding(K), PackAndFuse
    PROVE  SearchHeld(K, search')
<1> DEFINE near == ListNeighborChunks(ChannelAnchors(Batch, search.channels), 1)
           coarse == [i \in Requests |-> PackAndFuseChannels(Batch[i], search.channels[i], near)]
<1> USE DEF PackAndFuse
<1>1. Spans(index, nextId) /\ Between(K, index, nextId) /\ SearchHeld(K, search)
    BY DEF Holding
<1>2. Batch \in Batches /\ \A i \in DOMAIN Batch : ListsMadeOf(search.channels[i], Seen(K, Batch[i].docs))
    BY <1>1 DEF SearchHeld, Batch
<1>3. MadeOf(near, LiveRefs(index))
    BY <1>1, NeighborsHeld
<1>4. \A docs : Closed(Seen(K, docs), LiveRefs(index))
    BY <1>1, LiveIsClosed
<1>5. search'.step = "fused" /\ search'.batch = Batch /\ search'.coarse = coarse
    OBVIOUS
<1> HIDE DEF near
<1>6. \A i \in DOMAIN Batch : MadeOf(coarse[i], Seen(K, Batch[i].docs))
    BY <1>2, <1>3, <1>4, FusedHeld DEF Requests
<1> HIDE DEF coarse
<1> QED
    BY <1>2, <1>5, <1>6 DEF SearchHeld

LEMMA StepExpandParents ==
    ASSUME NEW K, Holding(K), ExpandParents
    PROVE  SearchHeld(K, search')
<1> DEFINE Children(i) == ListChildChunksForParents(ParentIds(search.coarse[i]))
           ranked == [i \in Requests |-> Ranked(Batch[i], search.coarse[i], Children(i))]
<1> USE DEF ExpandParents
<1>1. Spans(index, nextId) /\ Between(K, index, nextId) /\ SearchHeld(K, search) /\ nextId \in Nat
    BY DEF Holding, Spans
<1>2. Batch \in Batches /\ \A i \in DOMAIN Batch : MadeOf(search.coarse[i], Seen(K, Batch[i].docs))
    BY <1>1 DEF SearchHeld, Batch
<1>3. \A i \in DOMAIN Batch : \A pair \in Children(i) : IsHit(pair.child, Seen(K, Batch[i].docs))
    BY <1>1, <1>2, ChildrenSeen
<1>4. /\ search'.step = "packing" /\ search'.batch = Batch /\ search'.ranked = ranked /\ search'.results = <<>>
      /\ {"step", "batch", "ranked", "results"} \subseteq DOMAIN search'
    OBVIOUS
<1> HIDE DEF Children
<1>5. \A i \in DOMAIN Batch : MadeOf(ranked[i], Seen(K, Batch[i].docs))
    <2> SUFFICES ASSUME NEW i \in DOMAIN Batch
                 PROVE  MadeOf(Ranked(Batch[i], search.coarse[i], Children(i)), Seen(K, Batch[i].docs))
        BY DEF Requests
    <2> QED
        BY <1>1, <1>2, <1>3, PromotedHeld, LimitsOfRequests DEF Ranked
<1> HIDE DEF ranked
<1> QED
    BY <1>2, <1>4, <1>5 DEF SearchHeld

LEMMA StepPackFinal ==
    ASSUME NEW K, Holding(K), NEW i \in Requests, PackFinal(i)
    PROVE  SearchHeld(K, search')
<1> DEFINE H == Seen(K, Batch[i].docs)
           ids == FinalAnchors(Batch[i], search.ranked[i])
           near == ListNeighborChunks(ids, Reach(Batch[i].route))
           leads == ListPageLeadChunks(ids)
           result == PackFinalEvidence(Batch[i], search.ranked[i], near, leads)
           results == [j \in DOMAIN search.results \cup {i} |-> IF j = i THEN result ELSE search.results[j]]
<1>1. Spans(index, nextId) /\ Between(K, index, nextId) /\ SearchHeld(K, search)
    BY DEF Holding
<1>0. search.step = "packing" /\ UNCHANGED <<index, nextId, cited>>
    BY DEF PackFinal
<1>2. /\ Batch \in Batches /\ \A j \in DOMAIN Batch : MadeOf(search.ranked[j], Seen(K, Batch[j].docs))
      /\ \A j \in DOMAIN search.results : \A k \in DOMAIN search.results[j] :
             IsHit(search.results[j][k].hit, Seen(K, Batch[j].docs))
    BY <1>1, <1>0 DEF SearchHeld, Batch
<1>3. MadeOf(near, LiveRefs(index)) /\ Closed(H, LiveRefs(index))
    BY <1>1, NeighborsHeld, LiveIsClosed
<1>4. search' = [search EXCEPT !.results = results,
                               !.step = IF DOMAIN results = Requests THEN "answered" ELSE @]
    BY DEF PackFinal
<1> HIDE DEF near, leads, ids
<1>5. \A k \in DOMAIN result : IsHit(result[k].hit, H)
    <2> DEFINE them == SelectWithNeighbors(Batch[i].question, Batch[i].route, search.ranked[i], near, Limit.final)
    <2>1. MadeOf(them, H)
        BY <1>2, <1>3, SelectHeld DEF Requests
    <2>2. result = EnrichRepeatedPageLeadContext(leads, them)
        BY DEF PackFinalEvidence
    <2> HIDE DEF them, H, result
    <2> QED
        BY <2>1, <2>2, LentHeld
<1> HIDE DEF result
<1>6. /\ \A j \in DOMAIN results : j # i => j \in DOMAIN search.results /\ results[j] = search.results[j]
      /\ results[i] = result
    OBVIOUS
<1> HIDE DEF results
<1>7. \A j \in DOMAIN results : \A k \in DOMAIN results[j] : IsHit(results[j][k].hit, Seen(K, Batch[j].docs))
    BY <1>2, <1>5, <1>6
<1>8. /\ search'.step \in {"packing", "answered"} /\ search'.batch = Batch
      /\ search'.ranked = search.ranked /\ search'.results = results
      /\ {"step", "batch", "ranked", "results"} \subseteq DOMAIN search'
    <2>1. {"step", "batch", "ranked", "results"} \subseteq DOMAIN search /\ search.step = "packing"
        BY <1>1, <1>0 DEF SearchHeld
    <2> QED
        BY <1>4, <2>1 DEF Batch
<1> QED
    BY <1>2, <1>7, <1>8 DEF SearchHeld

\* A citation is kept with the id of a passage of the evidence, and its place.
LEMMA StepCite == ASSUME RetrievalInv, Cite PROVE RetrievalInv'
<1> DEFINE K == Known(index, nextId)
           evidence == UNION {HitsFor(i) : i \in Requests}
<1> USE DEF Cite
<1>1. Spans(index, nextId) /\ SearchHeld(K, search) /\ CitedHeld(index, nextId, cited)
    BY DEF RetrievalInv
<1>2. \A hit \in evidence : Ref(hit) \in K
    <2>1. \A i \in DOMAIN search.results : \A k \in DOMAIN search.results[i] :
              IsHit(search.results[i][k].hit, Seen(K, Batch[i].docs))
        BY <1>1 DEF SearchHeld, Batch
    <2>2. \A docs, hit : IsHit(hit, Seen(K, docs)) => Ref(hit) \in K
        BY DEF IsHit, Seen
    <2>3. \A i \in Requests : \A hit \in HitsFor(i) : IsHit(hit, Seen(K, Batch[i].docs))
        BY <2>1 DEF HitsFor
    <2> HIDE DEF K
    <2> QED
        BY <2>2, <2>3
<1>3. PICK used \in {{}} \cup {{hit} : hit \in evidence} :
          cited' = cited \cup {[chunk |-> hit.id, snippet |-> Place(hit)] : hit \in used}
    OBVIOUS
<1>4. ASSUME NEW hit \in evidence
      PROVE  /\ hit.id \in Nat /\ hit.id <= nextId
             /\ \A other \in LiveOf(index) : other.id = hit.id => Place(other) = Place(hit)
    <2>1. Ref(hit) \in K
        BY <1>2
    <2>2. hit.id \in Nat /\ hit.id <= nextId
        BY <2>1 DEF Known, Ref
    <2>3. \A other \in LiveOf(index) : other.id = hit.id => Ref(other) = Ref(hit)
        BY <2>1 DEF Known, Ref
    <2> QED
        BY <2>2, <2>3 DEF Ref, Place
<1> HIDE DEF K, evidence
<1>5. CitedHeld(index, nextId, cited')
    <2>1. \A c \in cited' : c \in cited \/ \E hit \in evidence : c = [chunk |-> hit.id, snippet |-> Place(hit)]
        BY <1>3
    <2> QED
        BY <1>1, <1>4, <2>1 DEF CitedHeld
<1>6. SearchHeld(K, search') /\ SearchHeld(LiveRefs(index), search')
    BY DEF SearchHeld, Idle
<1> QED
    BY <1>1, <1>5, <1>6 DEF RetrievalInv, K

\* A document's new chunks have ids that no chunk ever had.
LEMMA StepRewrite ==
    ASSUME RetrievalInv, NEW d \in Docs, NEW content \in DOMAIN Texts, Rewrite(d, content)
    PROVE  RetrievalInv'
<1> DEFINE entry == [of |-> content, base |-> nextId]
           idx == [index EXCEPT ![d] = entry]
           next == nextId + SizeOfText(content)
<1> USE DEF Rewrite
<1>1. Spans(index, nextId)
    BY DEF RetrievalInv
<1>2. index' = idx /\ nextId' = next /\ UNCHANGED <<search, cited>> /\ quiet' = FALSE
    BY DEF FreshBase, SizeOfText
<1>3. SizeOfText(content) \in Nat /\ nextId \in Nat /\ index \in IndexOf
    BY <1>1, SizesAreNumbers DEF Spans
<1>4. idx \in IndexOf /\ idx[d] = entry /\ \A e \in Docs : e # d => idx[e] = index[e]
    BY <1>3 DEF IndexOf
<1> HIDE DEF idx
<1>5. Spans(idx, next)
    <2>1. \A e \in Docs : index[e].of # Nil =>
              index[e].base \in Nat /\ SizeOfText(index[e].of) \in Nat /\ index[e].base + SizeOfText(index[e].of) <= nextId
        BY <1>1, <1>3, SizesAreNumbers DEF Spans, IndexOf
    <2>2. \A e \in Docs : idx[e].of # Nil =>
              \/ e = d /\ idx[e].base = nextId /\ idx[e].of = content
              \/ e # d /\ idx[e] = index[e]
        BY <1>4
    <2>3. \A e \in Docs : idx[e].of # Nil => idx[e].base + SizeOfText(idx[e].of) <= next
        BY <1>3, <2>1, <2>2
    <2>4. \A e, f \in Docs : e # f /\ idx[e].of # Nil /\ idx[f].of # Nil =>
              \/ idx[e].base + SizeOfText(idx[e].of) <= idx[f].base
              \/ idx[f].base + SizeOfText(idx[f].of) <= idx[e].base
        BY <1>1, <1>3, <2>1, <2>2 DEF Spans
    <2>5. next \in Nat
        BY <1>3
    <2> QED
        BY <1>4, <2>3, <2>4, <2>5 DEF Spans
<1>6. \A hit \in LiveOf(idx) : hit \in LiveOf(index) \/ hit.id > nextId
    <2> SUFFICES ASSUME NEW hit \in LiveOf(idx) PROVE hit \in LiveOf(index) \/ hit.id > nextId
        OBVIOUS
    <2>1. PICK e \in Docs : idx[e].of # Nil /\ hit \in SpanOf(idx[e], e)
        BY DEF LiveOf
    <2>2. CASE e = d
        BY <1>3, <1>4, <2>1, <2>2 DEF SpanOf
    <2>3. CASE e # d
        BY <1>4, <2>1, <2>3 DEF LiveOf
    <2> QED
        BY <2>2, <2>3
<1>7. nextId <= next
    BY <1>3
<1> HIDE DEF next
<1>8. /\ Known(index, nextId) \subseteq Known(idx, next)
      /\ \A all : CitedHeld(index, nextId, all) => CitedHeld(idx, next, all)
    BY <1>1, <1>5, <1>6, <1>7, WritesSpare
<1>9. SearchHeld(Known(idx, next), search) /\ CitedHeld(idx, next, cited)
    BY <1>8, SearchGrows DEF RetrievalInv
<1> QED
    BY <1>2, <1>5, <1>9 DEF RetrievalInv

LEMMA StepRemove ==
    ASSUME RetrievalInv, NEW d \in Docs, RemoveDocument(d)
    PROVE  RetrievalInv'
<1> DEFINE idx == [index EXCEPT ![d] = [of |-> Nil, base |-> 0]]
<1> USE DEF RemoveDocument
<1>1. Spans(index, nextId)
    BY DEF RetrievalInv
<1>2. index' = idx /\ UNCHANGED <<nextId, search, cited>> /\ quiet' = FALSE
    OBVIOUS
<1>3. nextId \in Nat /\ index \in IndexOf
    BY <1>1 DEF Spans
<1>4. idx \in IndexOf /\ idx[d].of = Nil /\ \A e \in Docs : e # d => idx[e] = index[e]
    BY <1>3 DEF IndexOf
<1> HIDE DEF idx
<1>5. Spans(idx, nextId)
    BY <1>1, <1>4 DEF Spans
<1>6. \A hit \in LiveOf(idx) : hit \in LiveOf(index) \/ hit.id > nextId
    BY <1>4 DEF LiveOf
<1>7. /\ Known(index, nextId) \subseteq Known(idx, nextId)
      /\ \A all : CitedHeld(index, nextId, all) => CitedHeld(idx, nextId, all)
    BY <1>1, <1>3, <1>5, <1>6, WritesSpare
<1>8. SearchHeld(Known(idx, nextId), search) /\ CitedHeld(idx, nextId, cited)
    BY <1>7, SearchGrows DEF RetrievalInv
<1> QED
    BY <1>2, <1>5, <1>8 DEF RetrievalInv

LEMMA EveryStepIsHeld == RetrievalInv /\ [SearchNext]_searchVars => RetrievalInv'
<1> SUFFICES ASSUME RetrievalInv, [SearchNext]_searchVars PROVE RetrievalInv'
    OBVIOUS
<1>1. ASSUME NEW batch \in Batches, RetrieveMany(batch) PROVE RetrievalInv'
    <2>1. Spans(index, nextId)
        BY DEF RetrievalInv
    <2>2. \A K : Between(K, index, nextId) => SearchHeld(K, search')
        BY <1>1, <2>1, StepRetrieveMany
    <2> QED
        BY <1>1, <2>2, AskingAnew DEF RetrieveMany
<1>2. CASE SearchVectorMany
    <2>1. \A K : Holding(K) => SearchHeld(K, search')
        BY <1>2, StepSearchVectorMany
    <2> QED
        BY <1>2, <2>1, Asking DEF SearchVectorMany
<1>3. CASE RankInitial
    <2>1. \A K : Holding(K) => SearchHeld(K, search')
        BY <1>3, StepRankInitial
    <2> QED
        BY <1>3, <2>1, Asking DEF RankInitial
<1>4. CASE PackAndFuse
    <2>1. \A K : Holding(K) => SearchHeld(K, search')
        BY <1>4, StepPackAndFuse
    <2> QED
        BY <1>4, <2>1, Asking DEF PackAndFuse
<1>5. CASE ExpandParents
    <2>1. \A K : Holding(K) => SearchHeld(K, search')
        BY <1>5, StepExpandParents
    <2> QED
        BY <1>5, <2>1, Asking DEF ExpandParents
<1>6. ASSUME NEW i \in Requests, PackFinal(i) PROVE RetrievalInv'
    <2>1. \A K : Holding(K) => SearchHeld(K, search')
        BY <1>6, StepPackFinal
    <2> QED
        BY <1>6, <2>1, Asking DEF PackFinal
<1>7. CASE Cite
    BY <1>7, StepCite
<1>8. CASE \E d \in Docs : RemoveDocument(d)
    BY <1>8, StepRemove
<1>9. CASE \E d \in Docs : \E content \in DOMAIN Texts : Rewrite(d, content)
    BY <1>9, StepRewrite
<1>10. CASE UNCHANGED searchVars
    BY <1>10 DEF searchVars, RetrievalInv
<1> QED
    BY <1>1, <1>2, <1>3, <1>4, <1>5, <1>6, <1>7, <1>8, <1>9, <1>10 DEF SearchNext

\* Whatever a search holds, at any of its steps and under any write, are
\* passages its request may see; whatever is cited was such a passage.
THEOREM RetrievalIsHeld == SearchSpec => []RetrievalInv
BY StartIsHeld, EveryStepIsHeld, PTL DEF SearchSpec

\* A request with a scope gets evidence from no other document (retrieveMany).
THEOREM ScopeHolds == SearchSpec => []ScopeIsKept
<1>1. RetrievalInv => ScopeIsKept
    <2> SUFFICES ASSUME RetrievalInv, search.step \in {"packing", "answered"}, NEW i \in Requests, Batch[i].docs # {}
                 PROVE  \A hit \in ToSet(search.ranked[i]) \cup HitsFor(i) : hit.doc \in Batch[i].docs
        BY DEF ScopeIsKept
    <2> DEFINE H == Seen(Known(index, nextId), Batch[i].docs)
    <2>1. MadeOf(search.ranked[i], H)
        BY DEF RetrievalInv, SearchHeld, Batch, Requests
    <2>2. \A hit \in HitsFor(i) : IsHit(hit, H)
        BY DEF RetrievalInv, SearchHeld, Batch, HitsFor
    <2>3. \A hit : IsHit(hit, H) => hit.doc \in Batch[i].docs
        BY DEF IsHit, Ref, Seen
    <2> HIDE DEF H
    <2>4. \A hit \in ToSet(search.ranked[i]) : IsHit(hit, H)
        BY <2>1, HeldMeans DEF ToSet
    <2> QED
        BY <2>2, <2>3, <2>4
<1> QED
    BY <1>1, RetrievalIsHeld, PTL

\* A stored citation opens its own passage, or its snippet when the chunk is gone.
THEOREM CitationsStayTrue == SearchSpec => []CitationShowsItsPassage
<1>1. RetrievalInv => CitationShowsItsPassage
    BY LiveIs DEF RetrievalInv, CitationShowsItsPassage, CitedHeld, Spans
<1> QED
    BY <1>1, RetrievalIsHeld, PTL

-----------------------------------------------------------------------------
(* Parts of a list by what its entries are. *)
Those(list, T) == Pick(list, {i \in DOMAIN list : list[i] \in T})

ThoseRun(p, S, list, T) ==
    /\ p \in [0 .. Len(list) -> Seq(S)] /\ p[0] = <<>>
    /\ \A n \in 1 .. Len(list) : p[n] = IF list[n] \in T THEN Append(p[n - 1], list[n]) ELSE p[n - 1]
    /\ Those(list, T) = p[Len(list)]

LEMMA ThoseRuns == ASSUME NEW S, NEW list \in Seq(S), NEW T PROVE \E p : ThoseRun(p, S, list, T)
<1> DEFINE at == {i \in DOMAIN list : list[i] \in T}
<1>1. \A n \in 1 .. Len(list) : n \in at <=> list[n] \in T
    OBVIOUS
<1> HIDE DEF at
<1>2. PICK p : PickRun(p, S, list, at)
    BY PickRuns
<1>3. Those(list, T) = Pick(list, at)
    BY DEF Those, at
<1> QED
    BY <1>1, <1>2, <1>3 DEF PickRun, ThoseRun

LEMMA ThoseIn ==
    ASSUME NEW S, NEW list \in Seq(S), NEW T
    PROVE  Those(list, T) \in Seq(S)
BY PickIsPart DEF Those

\* An entry more is kept or not.
LEMMA ThoseAppend ==
    ASSUME NEW S, NEW list \in Seq(S), NEW e \in S, NEW T
    PROVE  Those(Append(list, e), T) = IF e \in T THEN Append(Those(list, T), e) ELSE Those(list, T)
<1>2. PICK p : ThoseRun(p, S, list, T)
    BY ThoseRuns
<1> DEFINE more == Append(list, e)
<1> HIDE DEF more
<1>0. more \in Seq(S)
    BY DEF more
<1>3. PICK q : ThoseRun(q, S, more, T)
    BY <1>0, ThoseRuns
<1> DEFINE N == Len(list)
<1>1. /\ more \in Seq(S) /\ Len(more) = N + 1 /\ N \in Nat /\ more[N + 1] = e
      /\ \A n \in 1 .. N : more[n] = list[n] /\ n \in 1 .. N + 1 /\ n \in 0 .. N /\ n - 1 \in 0 .. N
    BY DEF more
<1> DEFINE Good == {n \in 0 .. N : p[n] = q[n]}
<1>4. 0 \in Good
    BY <1>1, <1>2, <1>3 DEF ThoseRun
<1>5. \A n \in 1 .. N : n - 1 \in Good => n \in Good
    BY <1>1, <1>2, <1>3 DEF ThoseRun
<1> HIDE DEF Good, N
<1>6. 0 .. N \subseteq Good
    BY <1>1, <1>4, <1>5, Climb
<1>7. N \in 0 .. N /\ N + 1 \in 1 .. N + 1 /\ (N + 1) - 1 = N
    BY <1>1
<1>8. p[N] = q[N]
    BY <1>6, <1>7 DEF Good
<1>9. q[N + 1] = IF e \in T THEN Append(q[N], e) ELSE q[N]
    BY <1>1, <1>3, <1>7 DEF ThoseRun
<1> QED
    BY <1>1, <1>2, <1>3, <1>8, <1>9 DEF more, N, ThoseRun

LEMMA ThoseEmpty == \A T : Those(<<>>, T) = <<>>
<1> SUFFICES ASSUME NEW T PROVE Those(<<>>, T) = <<>>
    OBVIOUS
<1> DEFINE e == <<>>
           S == {}
<1>1. e \in Seq(S) /\ Len(e) = 0
    OBVIOUS
<1> HIDE DEF S, e
<1>2. PICK p : ThoseRun(p, S, e, T)
    BY <1>1, ThoseRuns
<1> QED
    BY <1>1, <1>2 DEF e, ThoseRun

\* What holds of the empty list and is kept by an entry more holds of a list.
Firsts(list, n) == SubSeq(list, 1, n)

LEMMA FirstsGrow ==
    ASSUME NEW S, NEW list \in Seq(S)
    PROVE  /\ Len(list) \in Nat /\ Firsts(list, 0) = <<>> /\ Firsts(list, Len(list)) = list
           /\ \A n \in 1 .. Len(list) : /\ list[n] \in S /\ Firsts(list, n - 1) \in Seq(S) /\ Firsts(list, n) \in Seq(S)
                                        /\ Firsts(list, n) = Append(Firsts(list, n - 1), list[n])
BY DEF Firsts

LEMMA ThoseConcat ==
    ASSUME NEW S, NEW a \in Seq(S), NEW b \in Seq(S), NEW T
    PROVE  Those(a \o b, T) = Those(a, T) \o Those(b, T)
<1> DEFINE N == Len(b)
           Good == {n \in 0 .. N : Those(a \o Firsts(b, n), T) = Those(a, T) \o Those(Firsts(b, n), T)}
<1>1. N \in Nat /\ 0 \in 0 .. N /\ N \in 0 .. N
    OBVIOUS
<1>2. 0 \in Good
    <2>1. a \o <<>> = a /\ Those(a, T) \o <<>> = Those(a, T)
        BY ThoseIn
    <2> QED
        BY <1>1, <2>1, FirstsGrow, ThoseEmpty
<1>3. \A n \in 1 .. N : n - 1 \in Good => n \in Good
    <2> SUFFICES ASSUME NEW n \in 1 .. N, n - 1 \in Good
                 PROVE  n \in Good
        OBVIOUS
    <2> DEFINE c == Firsts(b, n - 1)
               e == b[n]
    <2>1. c \in Seq(S) /\ e \in S /\ Firsts(b, n) = Append(c, e)
        BY FirstsGrow
    <2>2. Those(a \o c, T) = Those(a, T) \o Those(c, T) /\ n \in 0 .. N
        OBVIOUS
    <2>8. SUFFICES Those(a \o Append(c, e), T) = Those(a, T) \o Those(Append(c, e), T)
        BY <2>1, <2>2
    <2> HIDE DEF c, e, Good
    <2>3. a \o Append(c, e) = Append(a \o c, e) /\ a \o c \in Seq(S)
        BY <2>1
    <2>4. Those(a, T) \in Seq(S) /\ Those(c, T) \in Seq(S)
        BY <2>1, ThoseIn
    <2>5. Those(a, T) \o Append(Those(c, T), e) = Append(Those(a, T) \o Those(c, T), e)
        BY <2>1, <2>4
    <2>6. Those(Append(a \o c, e), T) = IF e \in T THEN Append(Those(a \o c, T), e) ELSE Those(a \o c, T)
        <3> DEFINE d == a \o c
        <3> HIDE DEF d
        <3>1. d \in Seq(S)
            BY <2>3 DEF d
        <3>2. Those(Append(d, e), T) = IF e \in T THEN Append(Those(d, T), e) ELSE Those(d, T)
            BY <2>1, <3>1, ThoseAppend
        <3> QED
            BY <3>2 DEF d
    <2>7. Those(Append(c, e), T) = IF e \in T THEN Append(Those(c, T), e) ELSE Those(c, T)
        BY <2>1, ThoseAppend
    <2> QED
        BY <2>1, <2>2, <2>3, <2>5, <2>6, <2>7
<1> HIDE DEF Good, N
<1>4. 0 .. N \subseteq Good
    BY <1>1, <1>2, <1>3, Climb
<1>5. Those(a \o Firsts(b, N), T) = Those(a, T) \o Those(Firsts(b, N), T)
    BY <1>1, <1>4 DEF Good
<1> QED
    BY <1>5, FirstsGrow DEF N

LEMMA ThoseAll ==
    ASSUME NEW S, NEW list \in Seq(S), NEW T, S \subseteq T
    PROVE  Those(list, T) = list
<1> DEFINE N == Len(list)
           Good == {n \in 0 .. N : Those(Firsts(list, n), T) = Firsts(list, n)}
<1>1. N \in Nat /\ 0 \in 0 .. N /\ N \in 0 .. N
    OBVIOUS
<1>2. 0 \in Good
    BY <1>1, FirstsGrow, ThoseEmpty
<1>3. \A n \in 1 .. N : n - 1 \in Good => n \in Good
    <2> SUFFICES ASSUME NEW n \in 1 .. N, n - 1 \in Good PROVE Those(Firsts(list, n), T) = Firsts(list, n)
        BY <1>1
    <2>1. Firsts(list, n - 1) \in Seq(S) /\ list[n] \in S /\ Firsts(list, n) = Append(Firsts(list, n - 1), list[n])
        BY FirstsGrow
    <2> QED
        BY <2>1, ThoseAppend
<1> HIDE DEF Good, N
<1>4. 0 .. N \subseteq Good
    BY <1>1, <1>2, <1>3, Climb
<1>5. Those(Firsts(list, N), T) = Firsts(list, N)
    BY <1>1, <1>4 DEF Good
<1> QED
    BY <1>5, FirstsGrow DEF N

LEMMA ThoseNone ==
    ASSUME NEW S, NEW list \in Seq(S), NEW T, S \cap T = {}
    PROVE  Those(list, T) = <<>>
<1> DEFINE N == Len(list)
           Good == {n \in 0 .. N : Those(Firsts(list, n), T) = <<>>}
<1>1. N \in Nat /\ 0 \in 0 .. N /\ N \in 0 .. N
    OBVIOUS
<1>2. 0 \in Good
    BY <1>1, FirstsGrow, ThoseEmpty
<1>3. \A n \in 1 .. N : n - 1 \in Good => n \in Good
    <2> SUFFICES ASSUME NEW n \in 1 .. N, n - 1 \in Good PROVE Those(Firsts(list, n), T) = <<>>
        BY <1>1
    <2>1. Firsts(list, n - 1) \in Seq(S) /\ list[n] \in S /\ Firsts(list, n) = Append(Firsts(list, n - 1), list[n])
        BY FirstsGrow
    <2>2. list[n] \notin T
        BY <2>1
    <2> QED
        BY <2>1, <2>2, ThoseAppend
<1> HIDE DEF Good, N
<1>4. 0 .. N \subseteq Good
    BY <1>1, <1>2, <1>3, Climb
<1>5. Those(Firsts(list, N), T) = <<>>
    BY <1>1, <1>4 DEF Good
<1> QED
    BY <1>5, FirstsGrow DEF N

LEMMA ThoseOfOne ==
    ASSUME NEW e, NEW T
    PROVE  Those(<<e>>, T) = IF e \in T THEN <<e>> ELSE <<>>
<1> DEFINE S == {e}
           none == <<>>
<1>1. none \in Seq(S) /\ e \in S /\ <<e>> = Append(none, e)
    OBVIOUS
<1> HIDE DEF S, none
<1>2. Those(Append(none, e), T) = IF e \in T THEN Append(Those(none, T), e) ELSE Those(none, T)
    BY <1>1, ThoseAppend
<1>3. Those(none, T) = none
    BY ThoseEmpty DEF none
<1> QED
    BY <1>1, <1>2, <1>3 DEF none

\* A part of the hits of a read are the hits of a smaller read.
LEMMA ThoseOrdered ==
    ASSUME nextId \in Nat, NEW A, NEW T, \A h, g \in A : h.id = g.id => h = g
    PROVE  Those(Ordered(A), T) = Ordered(A \cap T)
<1> DEFINE N == nextId
           B == A \cap T
<1>1. PICK p : OrderedRun(p, A)
    BY OrderedRuns
<1>2. PICK q : OrderedRun(q, B)
    BY OrderedRuns
<1> DEFINE Good == {n \in 0 .. N : Those(p[n], T) = q[n]}
<1>3. 0 \in Good
    BY <1>1, <1>2, ThoseEmpty DEF OrderedRun
<1>4. \A n : Those(One(A, n), T) = One(B, n)
    <2> SUFFICES ASSUME NEW n PROVE Those(One(A, n), T) = One(B, n)
        OBVIOUS
    <2>1. CASE \E hit \in A : hit.id = n
        <3>1. PICK hit \in A : hit.id = n
            BY <2>1
        <3>2. \A g \in A : g.id = n => g = hit
            BY <3>1
        <3>3. One(A, n) = <<hit>>
            <4>1. (CHOOSE g \in A : g.id = n) = hit
                BY <3>1, <3>2
            <4> QED
                BY <2>1, <4>1 DEF One
        <3>4. CASE hit \in T
            <4>1. hit \in B /\ \A g \in B : g.id = n => g = hit
                BY <3>1, <3>2, <3>4
            <4> HIDE DEF B
            <4>2. (CHOOSE g \in B : g.id = n) = hit
                BY <3>1, <4>1
            <4>3. One(B, n) = <<hit>>
                BY <3>1, <4>1, <4>2 DEF One
            <4> QED
                BY <3>3, <3>4, <4>3, ThoseOfOne
        <3>5. CASE hit \notin T
            <4>1. ~ \E g \in B : g.id = n
                BY <3>2, <3>5
            <4> QED
                BY <3>3, <3>5, <4>1, ThoseOfOne DEF One
        <3> QED
            BY <3>4, <3>5
    <2>2. CASE ~ \E hit \in A : hit.id = n
        BY <2>2, ThoseEmpty DEF One
    <2> QED
        BY <2>1, <2>2
<1> HIDE DEF B
<1>5. \A n \in 1 .. N : n - 1 \in Good => n \in Good
    <2> SUFFICES ASSUME NEW n \in 1 .. N, n - 1 \in Good PROVE n \in Good
        OBVIOUS
    <2>0. n \in 0 .. N /\ n - 1 \in 0 .. N
        OBVIOUS
    <2>1. p[n] = p[n - 1] \o One(A, n) /\ q[n] = q[n - 1] \o One(B, n) /\ p[n - 1] \in Seq(A)
        BY <1>1, <1>2, <2>0 DEF OrderedRun
    <2>2. One(A, n) \in Seq(A)
        BY OneIsPart
    <2> DEFINE a == p[n - 1]
               b == One(A, n)
    <2> HIDE DEF a, b
    <2>6. a \in Seq(A) /\ b \in Seq(A)
        BY <2>1, <2>2 DEF a, b
    <2>3. Those(a \o b, T) = Those(a, T) \o Those(b, T)
        BY <2>6, ThoseConcat
    <2>4. Those(a, T) = q[n - 1]
        BY DEF a
    <2>5. Those(p[n], T) = q[n]
        BY <1>4, <2>1, <2>3, <2>4 DEF a, b
    <2> QED
        BY <2>0, <2>5
<1> HIDE DEF Good
<1>6. 0 .. N \subseteq Good
    BY <1>3, <1>4, <1>5, Climb
<1>7. Those(p[N], T) = q[N]
    BY <1>6 DEF Good
<1> QED
    BY <1>1, <1>2, <1>7 DEF OrderedRun, B

\* Picking commutes with what is done to each entry.
Mapped(G, list) == [k \in DOMAIN list |-> G[list[k]]]

LEMMA PickMapped ==
    ASSUME NEW S, NEW list \in Seq(S), NEW at, NEW G
    PROVE  Pick(Mapped(G, list), at) = Mapped(G, Pick(list, at))
<1> DEFINE N == Len(list)
           V == {G[e] : e \in S}
           mapped == [k \in DOMAIN list |-> G[list[k]]]
           Of(v) == [k \in DOMAIN v |-> G[v[k]]]
<1>0. N \in Nat /\ 0 \in 0 .. N /\ N \in 0 .. N
    OBVIOUS
<1>1. mapped \in Seq(V) /\ Len(mapped) = N /\ \A n \in 1 .. N : mapped[n] = G[list[n]] /\ list[n] \in S
    OBVIOUS
<1> HIDE DEF mapped, V
<1>2. PICK p : PickRun(p, S, list, at)
    BY PickRuns
<1>3. PICK q : PickRun(q, V, mapped, at)
    BY <1>1, PickRuns
<1>4. Of(<<>>) = <<>>
    OBVIOUS
<1>5. \A v \in Seq(S) : \A e \in S : Of(Append(v, e)) = Append(Of(v), G[e])
    <2> SUFFICES ASSUME NEW v \in Seq(S), NEW e \in S PROVE Of(Append(v, e)) = Append(Of(v), G[e])
        OBVIOUS
    <2> DEFINE w == Append(v, e)
    <2>1. Len(v) \in Nat /\ DOMAIN v = 1 .. Len(v) /\ DOMAIN w = 1 .. Len(v) + 1 /\ w[Len(v) + 1] = e
          /\ \A k \in 1 .. Len(v) : w[k] = v[k] /\ k # Len(v) + 1
        OBVIOUS
    <2> HIDE DEF w
    <2>2. Of(v) \in Seq({G[v[k]] : k \in DOMAIN v}) /\ Len(Of(v)) = Len(v)
        BY <2>1
    <2>3. Append(Of(v), G[e]) = [k \in 1 .. Len(v) + 1 |-> IF k = Len(v) + 1 THEN G[e] ELSE Of(v)[k]]
        BY <2>1, <2>2
    <2>4. \A k \in 1 .. Len(v) + 1 : G[w[k]] = IF k = Len(v) + 1 THEN G[e] ELSE Of(v)[k]
        BY <2>1
    <2>5. Of(w) = Append(Of(v), G[e])
        BY <2>1, <2>3, <2>4
    <2> QED
        BY <2>5 DEF w
<1> DEFINE Good == {n \in 0 .. N : Of(p[n]) = q[n]}
<1>6. 0 \in Good
    BY <1>0, <1>2, <1>3, <1>4 DEF PickRun
<1>7. \A n \in 1 .. N : n - 1 \in Good => n \in Good
    <2> SUFFICES ASSUME NEW n \in 1 .. N, n - 1 \in Good PROVE n \in Good
        OBVIOUS
    <2>1. n \in 0 .. N /\ n - 1 \in 0 .. N
        OBVIOUS
    <2> HIDE DEF Of
    <2>2. /\ p[n] = (IF n \in at THEN Append(p[n - 1], list[n]) ELSE p[n - 1]) /\ p[n - 1] \in Seq(S)
          /\ q[n] = IF n \in at THEN Append(q[n - 1], G[list[n]]) ELSE q[n - 1]
        BY <1>1, <1>2, <1>3, <2>1 DEF PickRun
    <2>3. Of(p[n - 1]) = q[n - 1] /\ Of(Append(p[n - 1], list[n])) = Append(Of(p[n - 1]), G[list[n]])
        BY <1>1, <1>5, <2>2
    <2>4. Of(p[n]) = q[n]
        BY <2>2, <2>3
    <2> QED
        BY <2>1, <2>4
<1> HIDE DEF Good, N, Of
<1>8. 0 .. N \subseteq Good
    BY <1>0, <1>6, <1>7, Climb
<1>9. Of(p[N]) = q[N]
    BY <1>0, <1>8 DEF Good
<1>10. p[N] = Pick(list, at) /\ q[N] = Pick(mapped, at)
    BY <1>1, <1>2, <1>3 DEF PickRun, N
<1> QED
    BY <1>9, <1>10 DEF Of, mapped, Mapped

\* Every entry of every list is in the list of them all.
LEMMA FlatHas ==
    ASSUME NEW S, NEW lists \in Seq(Seq(S)), NEW c \in DOMAIN lists, NEW k \in DOMAIN lists[c]
    PROVE  \E m \in DOMAIN Flat(lists) : Flat(lists)[m] = lists[c][k]
<1> DEFINE N == Len(lists)
           e == lists[c][k]
           Has(v) == \E m \in DOMAIN v : v[m] = e
<1>0. N \in Nat /\ 0 \in 0 .. N /\ N \in 0 .. N /\ c \in 1 .. N
    OBVIOUS
<1>1. PICK p : FlatRun(p, S, lists)
    BY FlatRuns
<1>6. \A n \in 1 .. N : lists[n] \in Seq(S)
    OBVIOUS
<1>7. p \in [0 .. N -> Seq(S)] /\ \A n \in 1 .. N : p[n] = p[n - 1] \o lists[n]
    BY <1>1 DEF FlatRun
<1> DEFINE Good == {n \in 0 .. N : n >= c => Has(p[n])}
<1>2. 0 \in Good
    BY <1>0
<1>3. \A n \in 1 .. N : n - 1 \in Good => n \in Good
    <2> SUFFICES ASSUME NEW n \in 1 .. N, n - 1 \in Good PROVE n \in Good
        OBVIOUS
    <2>0. n \in 0 .. N /\ n - 1 \in 0 .. N
        OBVIOUS
    <2>1. p[n] = p[n - 1] \o lists[n] /\ p[n - 1] \in Seq(S) /\ lists[n] \in Seq(S)
        <3> HIDE DEF Has, N
        <3> QED
            BY <1>6, <1>7, <2>0
    <2>5. SUFFICES ASSUME n >= c PROVE Has(p[n])
        BY <2>0
    <2> DEFINE a == p[n - 1]
               b == lists[n]
    <2>2. a \in Seq(S) /\ b \in Seq(S) /\ p[n] = a \o b
        BY <2>1
    <2>3. CASE n = c
        <3>1. k \in DOMAIN b /\ b[k] = e
            BY <2>3
        <3> HIDE DEF a, b, e
        <3>2. Len(a) + k \in DOMAIN (a \o b) /\ (a \o b)[Len(a) + k] = b[k]
            BY <2>2, <3>1
        <3> QED
            BY <2>2, <3>1, <3>2
    <2>4. CASE n # c
        <3>1. Has(a)
            BY <1>0, <2>4, <2>5
        <3> HIDE DEF a, b, e
        <3>2. PICK m \in DOMAIN a : a[m] = e
            BY <3>1
        <3>3. m \in DOMAIN (a \o b) /\ (a \o b)[m] = a[m]
            BY <2>2, <3>2
        <3> QED
            BY <2>2, <3>2, <3>3
    <2> QED
        BY <2>3, <2>4
<1> HIDE DEF Good, N
<1>4. 0 .. N \subseteq Good
    BY <1>0, <1>2, <1>3, Climb
<1>5. Has(p[N])
    BY <1>0, <1>4 DEF Good
<1> QED
    BY <1>1, <1>5 DEF FlatRun, N

-----------------------------------------------------------------------------
(* What a request finds, in a batch or alone. *)

TaggedByPlace(tags, n) == \A j \in 1 .. n : \A k \in DOMAIN tags[j] : tags[j][k].request = j

LEMMA TagsOfOne ==
    ASSUME NEW S, NEW n \in Nat, NEW tags \in Seq(Seq(S)), Len(tags) = n, NEW i \in 1 .. n, TaggedByPlace(tags, n)
    PROVE  Those(Flat(tags), {t \in S : t.request = i}) = tags[i]
<1> DEFINE T == {t \in S : t.request = i}
<1>1. PICK p : FlatRun(p, S, tags)
    BY FlatRuns
<1>2. p \in [0 .. n -> Seq(S)] /\ p[0] = <<>> /\ \A m \in 1 .. n : p[m] = p[m - 1] \o tags[m]
    BY <1>1 DEF FlatRun
<1>3. \A j \in 1 .. n : tags[j] \in Seq(S)
    OBVIOUS
<1>4. \A j \in 1 .. n : Those(tags[j], T) = IF j = i THEN tags[i] ELSE <<>>
    <2> SUFFICES ASSUME NEW j \in 1 .. n PROVE Those(tags[j], T) = IF j = i THEN tags[i] ELSE <<>>
        OBVIOUS
    <2> DEFINE list == tags[j]
               R == {list[k] : k \in DOMAIN list}
    <2>1. list \in Seq(S)
        BY <1>3
    <2>2. \A k \in DOMAIN list : list[k].request = j /\ list[k] \in S
        BY <2>1 DEF TaggedByPlace
    <2> HIDE DEF list
    <2>3. list \in Seq(R) /\ \A e \in R : e.request = j /\ e \in S
        BY <2>1, <2>2
    <2> HIDE DEF R
    <2>4. CASE j = i
        <3>1. R \subseteq T
            BY <2>3, <2>4
        <3> HIDE DEF T
        <3>2. Those(list, T) = list
            BY <2>3, <3>1, ThoseAll
        <3> QED
            BY <2>4, <3>2 DEF list
    <2>5. CASE j # i
        <3>1. R \cap T = {}
            BY <2>3, <2>5
        <3> HIDE DEF T
        <3>2. Those(list, T) = <<>>
            BY <2>3, <3>1, ThoseNone
        <3> QED
            BY <2>5, <3>2 DEF list
    <2> QED
        BY <2>4, <2>5
<1> HIDE DEF T
<1> DEFINE Want(m) == IF m >= i THEN tags[i] ELSE <<>>
           Good == {m \in 0 .. n : Those(p[m], T) = Want(m)}
<1>5. 0 \in Good
    <2>1. 0 \in 0 .. n /\ ~ (0 >= i)
        OBVIOUS
    <2>2. Those(p[0], T) = <<>>
        BY <1>2, ThoseEmpty
    <2> QED
        BY <2>1, <2>2
<1>6. \A m \in 1 .. n : m - 1 \in Good => m \in Good
    <2> SUFFICES ASSUME NEW m \in 1 .. n, m - 1 \in Good PROVE m \in Good
        OBVIOUS
    <2>0. m \in 0 .. n /\ m - 1 \in 0 .. n
        OBVIOUS
    <2> DEFINE a == p[m - 1]
               b == tags[m]
    <2> HIDE DEF a, b
    <2>1. p[m] = a \o b
        BY <1>2, <2>0 DEF a, b
    <2>6. a \in Seq(S) /\ b \in Seq(S)
        BY <1>2, <1>3, <2>0 DEF a, b
    <2>2. Those(a \o b, T) = Those(a, T) \o Those(b, T)
        BY ONLY <2>6, ThoseConcat
    <2>3. Those(a, T) = Want(m - 1) /\ Those(b, T) = IF m = i THEN tags[i] ELSE <<>>
        BY <1>4 DEF a, b
    <2>4. Want(m - 1) \o (IF m = i THEN tags[i] ELSE <<>>) = Want(m)
        <3>1. tags[i] \in Seq(S)
            BY <1>3
        <3>2. tags[i] \o <<>> = tags[i] /\ <<>> \o tags[i] = tags[i] /\ <<>> \o <<>> = <<>>
            BY <3>1
        <3>3. \/ m = i /\ m >= i /\ ~ (m - 1 >= i)
              \/ m # i /\ m >= i /\ m - 1 >= i
              \/ m # i /\ ~ (m >= i) /\ ~ (m - 1 >= i)
            OBVIOUS
        <3>4. CASE m = i /\ m >= i /\ ~ (m - 1 >= i)
            BY <3>2, <3>4
        <3>5. CASE m # i /\ m >= i /\ m - 1 >= i
            BY <3>2, <3>5
        <3>6. CASE m # i /\ ~ (m >= i) /\ ~ (m - 1 >= i)
            BY <3>2, <3>6
        <3> QED
            BY <3>3, <3>4, <3>5, <3>6
    <2> HIDE DEF Want
    <2>5. Those(p[m], T) = Want(m)
        BY <2>1, <2>2, <2>3, <2>4
    <2> QED
        BY <2>0, <2>5
<1> HIDE DEF Good
<1>7. 0 .. n \subseteq Good
    BY <1>5, <1>6, Climb
<1>8. n \in 0 .. n /\ n >= i
    OBVIOUS
<1>9. Those(p[n], T) = tags[i]
    BY <1>7, <1>8 DEF Good
<1> QED
    BY <1>1, <1>9 DEF FlatRun, T

\* The lists that the variants of one request find.
Own(channel, variants, docs) == [k \in DOMAIN variants |-> Found(channel, variants[k], docs)]

LEMMA ListsAreOwn ==
    ASSUME NEW batch \in Seq(RequestOf), NEW channel,
           NEW vs, \A j \in DOMAIN batch : vs[j] \in Seq(DOMAIN Ranking),
           NEW flat, flat = Flat([j \in DOMAIN batch |-> Tagged(j, vs[j])]), NEW i \in DOMAIN batch
    PROVE  ListsOf(i, flat, Searched(channel, batch, flat)) = Own(channel, vs[i], batch[i].docs)
<1> DEFINE n == Len(batch)
           S == TagOf(batch)
           tags == [j \in DOMAIN batch |-> Tagged(j, vs[j])]
           T == {t \in S : t.request = i}
           at == {k \in DOMAIN flat : flat[k].request = i}
           G == [t \in S |-> Found(channel, t.variant, batch[t.request].docs)]
           lists == Searched(channel, batch, flat)
<1>1. n \in Nat /\ DOMAIN batch = 1 .. n
    OBVIOUS
<1>2. \A j \in 1 .. n : /\ tags[j] \in Seq(S) /\ tags[j] = Tagged(j, vs[j])
                        /\ \A k \in DOMAIN tags[j] : tags[j][k].request = j
    <2> SUFFICES ASSUME NEW j \in 1 .. n
                 PROVE  Tagged(j, vs[j]) \in Seq(S) /\ \A k \in DOMAIN Tagged(j, vs[j]) : Tagged(j, vs[j])[k].request = j
        BY <1>1
    <2>1. vs[j] \in Seq(DOMAIN Ranking)
        BY <1>1
    <2>2. Len(vs[j]) \in Nat /\ DOMAIN vs[j] = 1 .. Len(vs[j]) /\ \A k \in 1 .. Len(vs[j]) : vs[j][k] \in DOMAIN Ranking
        BY <2>1
    <2>3. \A k \in 1 .. Len(vs[j]) : [request |-> j, variant |-> vs[j][k]] \in S
        BY <1>1, <2>2 DEF TagOf
    <2> HIDE DEF S
    <2>4. [k \in 1 .. Len(vs[j]) |-> [request |-> j, variant |-> vs[j][k]]] \in Seq(S)
        BY <2>2, <2>3
    <2> QED
        BY <2>2, <2>4 DEF Tagged
<1>3. tags \in Seq(Seq(S)) /\ Len(tags) = n
    <2> DEFINE Q == Seq(S)
    <2>1. tags = [j \in 1 .. n |-> tags[j]] /\ \A j \in 1 .. n : tags[j] \in Q
        BY <1>1, <1>2
    <2> HIDE DEF tags, S, n, Q
    <2>3. tags \in [1 .. n -> Q]
        BY <2>1
    <2>2. tags \in Seq(Q) /\ Len(tags) = n
        BY <1>1, <2>3
    <2> QED
        BY <2>2 DEF Q
<1>4. flat \in Seq(S)
    <2> HIDE DEF S
    <2>1. flat = Flat(tags)
        OBVIOUS
    <2> HIDE DEF tags
    <2> QED
        BY <1>3, <2>1, FlatIsPart
<1>5. Those(flat, T) = tags[i]
    <2> HIDE DEF S, tags
    <2>1. flat = Flat(tags) /\ i \in 1 .. n
        BY <1>1 DEF tags
    <2> HIDE DEF n
    <2>2. TaggedByPlace(tags, n)
        BY <1>2 DEF TaggedByPlace
    <2>3. n \in Nat
        BY <1>1
    <2>4. i \in 1 .. n
        BY <2>1
    <2>5. Those(Flat(tags), {t \in S : t.request = i}) = tags[i]
        BY ONLY <1>3, <2>2, <2>3, <2>4, TagsOfOne
    <2> QED
        BY <2>1, <2>5
<1>6. Those(flat, T) = Pick(flat, at)
    <2>3. \A k \in DOMAIN flat : flat[k] \in S
        <3> HIDE DEF S
        <3> QED
            BY <1>4
    <2>2. \A k \in DOMAIN flat : flat[k].request = i <=> flat[k] \in T
        <3> HIDE DEF S
        <3> QED
            BY <2>3
    <2>1. at = {k \in DOMAIN flat : flat[k] \in T}
        <3> HIDE DEF T
        <3> QED
            BY <2>2
    <2> HIDE DEF at, T
    <2> QED
        BY <2>1 DEF Those
<1>7. lists = [k \in DOMAIN flat |-> G[flat[k]]]
    <2>1. \A k \in DOMAIN flat : G[flat[k]] = Found(channel, flat[k].variant, batch[flat[k].request].docs)
        BY <1>4
    <2> HIDE DEF G
    <2> QED
        BY <2>1 DEF Searched, Scope
<1>8. ListsOf(i, flat, lists) = Pick(lists, at)
    BY DEF ListsOf
<1> HIDE DEF G, lists, at, S, T
<1>9. Pick(lists, at) = [k \in DOMAIN Pick(flat, at) |-> G[Pick(flat, at)[k]]]
    <2>1. Pick(Mapped(G, flat), at) = Mapped(G, Pick(flat, at))
        BY <1>4, PickMapped
    <2> QED
        BY <1>7, <2>1 DEF Mapped
<1>10. Pick(lists, at) = [k \in DOMAIN tags[i] |-> G[tags[i][k]]]
    BY <1>5, <1>6, <1>9
<1>11. /\ tags[i] = [k \in DOMAIN vs[i] |-> [request |-> i, variant |-> vs[i][k]]]
       /\ \A k \in DOMAIN tags[i] : tags[i][k] \in S
    <2>1. i \in 1 .. n
        BY <1>1
    <2> HIDE DEF n, tags
    <2>2. tags[i] = Tagged(i, vs[i]) /\ tags[i] \in Seq(S)
        BY <1>2, <2>1
    <2>3. \A k \in DOMAIN tags[i] : tags[i][k] \in S
        BY <2>2
    <2> QED
        BY <2>2, <2>3 DEF Tagged
<1> HIDE DEF tags
<1>12. \A k \in DOMAIN vs[i] : G[tags[i][k]] = Found(channel, vs[i][k], batch[i].docs)
    <2>1. \A t \in S : G[t] = Found(channel, t.variant, batch[t.request].docs)
        BY DEF G
    <2> SUFFICES ASSUME NEW k \in DOMAIN vs[i] PROVE G[tags[i][k]] = Found(channel, vs[i][k], batch[i].docs)
        OBVIOUS
    <2>3. k \in DOMAIN tags[i] /\ tags[i][k] = [request |-> i, variant |-> vs[i][k]]
        BY <1>11
    <2>4. tags[i][k].request = i /\ tags[i][k].variant = vs[i][k]
        BY <2>3
    <2>2. tags[i][k] \in S
        BY <1>11, <2>3
    <2> QED
        BY <2>1, <2>2, <2>4
<1>13. DOMAIN tags[i] = DOMAIN vs[i]
    BY <1>11
<1> QED
    BY <1>8, <1>10, <1>12, <1>13 DEF Own, lists

\* The candidates of a request are the same in a batch as alone.
OwnSets(request) ==
    <<MergeRankedCandidateLists(Own("semantic", request.dense, request.docs)),
      MergeRankedCandidateLists(Own("lexical", request.sparse, request.docs)),
      MergeRankedCandidateLists(Own("fuzzy", request.sparse, request.docs))>>
SetsOf(batch) == CandidateSets(batch, Searched("lexical", batch, Sparse(batch)), Searched("fuzzy", batch, Sparse(batch)),
                               Searched("semantic", batch, Dense(batch)))

LEMMA SetsAreOwn ==
    ASSUME NEW batch \in Seq(RequestOf)
    PROVE  SetsOf(batch) = [i \in DOMAIN batch |-> OwnSets(batch[i])]
<1> DEFINE sparse == [i \in DOMAIN batch |-> batch[i].sparse]
           dense == [i \in DOMAIN batch |-> batch[i].dense]
<1>1. \A i \in DOMAIN batch : /\ sparse[i] = batch[i].sparse /\ dense[i] = batch[i].dense
                              /\ sparse[i] \in Seq(DOMAIN Ranking) /\ dense[i] \in Seq(DOMAIN Ranking)
    <2>1. \A i \in DOMAIN batch : batch[i] \in RequestOf
        OBVIOUS
    <2> QED
        BY <2>1 DEF RequestOf
<1>2. /\ Sparse(batch) = Flat([i \in DOMAIN batch |-> Tagged(i, sparse[i])])
      /\ Dense(batch) = Flat([i \in DOMAIN batch |-> Tagged(i, dense[i])])
    <2>1. /\ [i \in DOMAIN batch |-> Tagged(i, sparse[i])] = [i \in DOMAIN batch |-> Tagged(i, batch[i].sparse)]
          /\ [i \in DOMAIN batch |-> Tagged(i, dense[i])] = [i \in DOMAIN batch |-> Tagged(i, batch[i].dense)]
        BY <1>1
    <2> HIDE DEF sparse, dense
    <2> QED
        BY <2>1 DEF Sparse, Dense
<1> HIDE DEF sparse, dense
<1>3. ASSUME NEW i \in DOMAIN batch
      PROVE  /\ ListsOf(i, Dense(batch), Searched("semantic", batch, Dense(batch))) = Own("semantic", batch[i].dense, batch[i].docs)
             /\ ListsOf(i, Sparse(batch), Searched("lexical", batch, Sparse(batch))) = Own("lexical", batch[i].sparse, batch[i].docs)
             /\ ListsOf(i, Sparse(batch), Searched("fuzzy", batch, Sparse(batch))) = Own("fuzzy", batch[i].sparse, batch[i].docs)
    <2>3. \A j \in DOMAIN batch : sparse[j] \in Seq(DOMAIN Ranking)
        BY <1>1
    <2>4. \A j \in DOMAIN batch : dense[j] \in Seq(DOMAIN Ranking)
        BY <1>1
    <2>5. \A channel, flat : flat = Flat([j \in DOMAIN batch |-> Tagged(j, sparse[j])]) =>
              ListsOf(i, flat, Searched(channel, batch, flat)) = Own(channel, sparse[i], batch[i].docs)
        BY ONLY batch \in Seq(RequestOf), i \in DOMAIN batch, <2>3, ListsAreOwn
    <2>6. \A channel, flat : flat = Flat([j \in DOMAIN batch |-> Tagged(j, dense[j])]) =>
              ListsOf(i, flat, Searched(channel, batch, flat)) = Own(channel, dense[i], batch[i].docs)
        BY ONLY batch \in Seq(RequestOf), i \in DOMAIN batch, <2>4, ListsAreOwn
    <2>1. /\ ListsOf(i, Sparse(batch), Searched("lexical", batch, Sparse(batch))) = Own("lexical", sparse[i], batch[i].docs)
          /\ ListsOf(i, Sparse(batch), Searched("fuzzy", batch, Sparse(batch))) = Own("fuzzy", sparse[i], batch[i].docs)
        BY <1>2, <2>5
    <2>2. ListsOf(i, Dense(batch), Searched("semantic", batch, Dense(batch))) = Own("semantic", dense[i], batch[i].docs)
        BY <1>2, <2>6
    <2> QED
        BY <1>1, <2>1, <2>2
<1> QED
    BY <1>3 DEF SetsOf, CandidateSets, OwnSets

-----------------------------------------------------------------------------
(* What a read for many brings to one of them. *)

LEMMA AnchorIsThere ==
    ASSUME Spans(index, nextId), NEW anchor, IsHit(anchor, LiveRefs(index))
    PROVE  \E hit \in Live : hit.id = anchor.id /\ hit.doc = anchor.doc /\ hit.n = anchor.n
<1>1. Live = LiveOf(index)
    BY LiveIs DEF Spans
<1>2. PICK hit \in LiveOf(index) : Ref(hit) = Ref(anchor)
    BY DEF IsHit, LiveRefs
<1> QED
    BY <1>1, <1>2 DEF Ref

LEMMA NeighborsAreLive ==
    ASSUME Spans(index, nextId), NEW ids, NEW radius
    PROVE  ListNeighborChunks(ids, radius) \in Seq(Live)
<1> DEFINE A == {hit \in Live : \E anchor \in Live : anchor.id \in ids /\ Near(hit, anchor, radius)}
<1>1. ListNeighborChunks(ids, radius) = Ordered(A)
    BY DEF ListNeighborChunks
<1>2. A \subseteq Live /\ nextId \in Nat
    BY DEF Spans
<1> HIDE DEF A
<1>3. Ordered(A) \in Seq(A)
    BY <1>2, OrderedIsPart
<1> QED
    BY <1>1, <1>2, <1>3

LEMMA NearOfMany ==
    ASSUME Spans(index, nextId), NEW ids, NEW radius, NEW T,
           \A hit \in T : hit \in Live /\ \E anchor \in Live : anchor.id \in ids /\ Near(hit, anchor, radius)
    PROVE  Those(ListNeighborChunks(ids, radius), T) = Ordered(T)
<1> DEFINE A == {hit \in Live : \E anchor \in Live : anchor.id \in ids /\ Near(hit, anchor, radius)}
<1>1. ListNeighborChunks(ids, radius) = Ordered(A)
    BY DEF ListNeighborChunks
<1>2. A \cap T = T
    OBVIOUS
<1>3. \A h, g \in Live : h.id = g.id => h = g
    BY LiveIs, OneIdOnePassage DEF Spans
<1>4. \A h, g \in A : h.id = g.id => h = g
    BY <1>3
<1>5. nextId \in Nat
    BY DEF Spans
<1> HIDE DEF A
<1>6. Those(Ordered(A), T) = Ordered(A \cap T)
    BY <1>4, <1>5, ThoseOrdered
<1> QED
    BY <1>1, <1>2, <1>6

LEMMA ContextSame ==
    ASSUME Spans(index, nextId), NEW q, NEW anchor, IsHit(anchor, LiveRefs(index)),
           NEW ids, anchor.id \in ids, NEW more, anchor.id \in more
    PROVE  ContextOf(q, anchor, ListNeighborChunks(ids, 1)) = ContextOf(q, anchor, ListNeighborChunks(more, 1))
<1> DEFINE T == {hit \in Live : hit.id # anchor.id /\ Near(hit, anchor, 1) /\ Useful(q, hit) > 0}
           at(near) == {i \in DOMAIN near : near[i].id # anchor.id /\ Near(near[i], anchor, 1) /\ Useful(q, near[i]) > 0}
           Best(beside) == Descending(beside, [i \in DOMAIN beside |-> Useful(q, beside[i]) * Weight - beside[i].id])
<1>1. \A near : ContextOf(q, anchor, near) = Best(Pick(near, at(near)))
    BY DEF ContextOf
<1>2. ASSUME NEW some, anchor.id \in some
      PROVE  Pick(ListNeighborChunks(some, 1), at(ListNeighborChunks(some, 1))) = Ordered(T)
    <2> DEFINE near == ListNeighborChunks(some, 1)
    <2>1. near \in Seq(Live)
        BY NeighborsAreLive
    <2>2. PICK live \in Live : live.id = anchor.id /\ live.doc = anchor.doc /\ live.n = anchor.n
        BY AnchorIsThere
    <2>3. \A hit \in T : hit \in Live /\ \E other \in Live : other.id \in some /\ Near(hit, other, 1)
        BY <1>2, <2>2 DEF Near
    <2>4. Those(near, T) = Ordered(T)
        <3> HIDE DEF T
        <3> QED
            BY <2>3, NearOfMany
    <2> HIDE DEF near
    <2>5. \A i \in DOMAIN near : near[i] \in Live
        BY <2>1
    <2>6. at(near) = {i \in DOMAIN near : near[i] \in T}
        BY <2>5
    <2> HIDE DEF at, T
    <2> QED
        BY <2>4, <2>6 DEF Those, near
<1> HIDE DEF at, T, Best
<1> QED
    BY <1>1, <1>2

LEMMA ExpandSame ==
    ASSUME NEW q, NEW ranked, Len(ranked) \in Nat, NEW near, NEW other,
           \A i \in 1 .. Len(ranked) :
               ~ (i > Limit.anchors) => ContextOf(q, ranked[i], near) = ContextOf(q, ranked[i], other)
    PROVE  ExpandChannelCandidatesWithNeighbors(q, ranked, near) = ExpandChannelCandidatesWithNeighbors(q, ranked, other)
<1> DEFINE N == Len(ranked)
           New(list, done) == Pick(list, {i \in DOMAIN list : list[i].id \notin IdsOf(done)})
           Some(done, them) == Take(New(them, done.list), Limit.context - done.context)
           AddContext(done, them) ==
               [done EXCEPT !.list = @ \o Some(done, them), !.context = @ + Len(Some(done, them))]
           AddAnchor(done, hit) ==
               [done EXCEPT !.list = @ \o New(<<hit>>, done.list), !.anchors = @ + Len(New(<<hit>>, done.list))]
           Step(n, v, l) == IF v.anchors = Limit.channel THEN v
                            ELSE IF n > Limit.anchors THEN AddAnchor(v, ranked[n])
                            ELSE AddContext(AddAnchor(v, ranked[n]), ContextOf(q, ranked[n], l))
           Body(f, l) == [n \in 0 .. N |-> IF n = 0 THEN [list |-> <<>>, anchors |-> 0, context |-> 0]
                                           ELSE Step(n, f[n - 1], l)]
           g(l) == CHOOSE f : f = Body(f, l)
<1>1. \A f : Body(f, near) = Body(f, other)
    <2>1. \A n \in 0 .. N : n # 0 => n \in 1 .. N
        OBVIOUS
    <2>2. \A n \in 1 .. N : \A v : Step(n, v, near) = Step(n, v, other)
        <3> HIDE DEF AddContext, AddAnchor
        <3> QED
            OBVIOUS
    <2> HIDE DEF Step
    <2> QED
        BY <2>1, <2>2
<1> HIDE DEF Body
<1>2. g(near) = g(other)
    BY <1>1
<1>3. \A l : ExpandChannelCandidatesWithNeighbors(q, ranked, l) = g(l)[N].list
    BY DEF ExpandChannelCandidatesWithNeighbors, Body
<1> HIDE DEF g
<1> QED
    BY <1>2, <1>3

LEMMA AnchorsHave ==
    ASSUME NEW H, NEW channels, ListsMadeOf(channels, H), NEW most \in Nat, NEW c \in DOMAIN channels,
           NEW i \in DOMAIN channels[c], i <= most
    PROVE  channels[c][i].id \in IdsOf(Anchors(channels, most))
<1> DEFINE S == {channels[d][j] : d \in DOMAIN channels, j \in UNION {DOMAIN channels[e] : e \in DOMAIN channels}}
           Q == Seq(S)
           lists == [d \in DOMAIN channels |-> Take(channels[d], most)]
<1>1. /\ Len(channels) \in Nat /\ DOMAIN channels = 1 .. Len(channels)
      /\ \A d \in DOMAIN channels : MadeOf(channels[d], H)
    BY ListsHeldMeans
<1>2. \A d \in DOMAIN channels : channels[d] \in Q
    <2> SUFFICES ASSUME NEW d \in DOMAIN channels PROVE channels[d] \in Seq(S)
        OBVIOUS
    <2>1. \A j \in DOMAIN channels[d] : channels[d][j] \in S
        OBVIOUS
    <2> HIDE DEF S
    <2> QED
        BY <1>1, <2>1, HeldIn
<1>3. \A d \in DOMAIN channels : lists[d] \in Q
    <2> HIDE DEF S
    <2> QED
        BY <1>2, TakeIn
<1>4. DOMAIN lists = 1 .. Len(channels) /\ lists = [d \in 1 .. Len(channels) |-> lists[d]]
    BY <1>1
<1>5. c \in DOMAIN lists /\ lists[c] = Take(channels[c], most)
    OBVIOUS
<1>6. Anchors(channels, most) = Flat(lists)
    BY DEF Anchors
<1> HIDE DEF S, Q, lists
<1>7. lists \in Seq(Q)
    <2>1. lists \in [1 .. Len(channels) -> Q]
        BY <1>1, <1>3, <1>4
    <2> QED
        BY <1>1, <2>1
<1>8. i \in DOMAIN lists[c] /\ lists[c][i] = channels[c][i]
    <2> DEFINE list == channels[c]
    <2>1. list \in Seq(S) /\ i \in DOMAIN list
        BY <1>2 DEF Q
    <2> HIDE DEF list
    <2>2. i \in DOMAIN Take(list, most) /\ Take(list, most)[i] = list[i]
        BY <2>1 DEF Take
    <2> QED
        BY <1>5, <2>2 DEF list
<1>9. PICK m \in DOMAIN Flat(lists) : Flat(lists)[m] = lists[c][i]
    <2>1. lists \in Seq(Seq(S))
        BY <1>7 DEF Q
    <2> QED
        BY <1>5, <1>8, <2>1, FlatHas
<1> QED
    BY <1>6, <1>8, <1>9 DEF IdsOf

LEMMA AnchorsHeld ==
    ASSUME NEW H, NEW channels, ListsMadeOf(channels, H), NEW most \in Nat
    PROVE  MadeOf(Anchors(channels, most), H)
<1> DEFINE lists == [d \in DOMAIN channels |-> Take(channels[d], most)]
<1>1. /\ Len(channels) \in Nat /\ DOMAIN channels = 1 .. Len(channels)
      /\ \A d \in DOMAIN channels : MadeOf(channels[d], H)
    BY ListsHeldMeans
<1>2. \A d \in 1 .. Len(channels) : MadeOf(lists[d], H)
    BY <1>1, TakeHeld
<1>3. lists = [d \in 1 .. Len(channels) |-> lists[d]]
    BY <1>1
<1>4. Anchors(channels, most) = Flat(lists)
    BY DEF Anchors
<1> HIDE DEF lists
<1>5. ListsMadeOf(lists, H)
    BY <1>1, <1>2, <1>3, ListsHeldIf
<1> QED
    BY <1>4, <1>5, FlatHeld

LEMMA InitialSame ==
    ASSUME Spans(index, nextId), NEW request, NEW channels, ListsMadeOf(channels, LiveRefs(index)),
           NEW ids, IdsOf(Anchors(channels, Limit.anchors)) \subseteq ids,
           NEW more, IdsOf(Anchors(channels, Limit.anchors)) \subseteq more
    PROVE  RankInitialChannels(request, channels, ListNeighborChunks(ids, 1))
             = RankInitialChannels(request, channels, ListNeighborChunks(more, 1))
<1> DEFINE near == ListNeighborChunks(ids, 1)
           other == ListNeighborChunks(more, 1)
           q == request.question
<1>1. ASSUME NEW c \in DOMAIN channels
      PROVE  ExpandChannelCandidatesWithNeighbors(q, channels[c], near) = ExpandChannelCandidatesWithNeighbors(q, channels[c], other)
    <2>1. MadeOf(channels[c], LiveRefs(index))
        BY ListsHeldMeans
    <2>2. /\ Len(channels[c]) \in Nat /\ DOMAIN channels[c] = 1 .. Len(channels[c])
          /\ \A i \in DOMAIN channels[c] : IsHit(channels[c][i], LiveRefs(index))
        BY <2>1, HeldMeans
    <2>3. ASSUME NEW i \in 1 .. Len(channels[c]), ~ (i > Limit.anchors)
          PROVE  ContextOf(q, channels[c][i], near) = ContextOf(q, channels[c][i], other)
        <3>0. Limit.anchors \in Nat /\ i \in Nat
            BY LimitsAreNumbers, <2>2
        <3>1. Limit.anchors \in Nat /\ i <= Limit.anchors /\ i \in DOMAIN channels[c]
            BY <2>2, <2>3, <3>0
        <3>2. channels[c][i].id \in IdsOf(Anchors(channels, Limit.anchors))
            BY <3>1, AnchorsHave
        <3>3. channels[c][i].id \in ids /\ channels[c][i].id \in more
            BY <3>2
        <3>4. IsHit(channels[c][i], LiveRefs(index))
            BY <2>2, <3>1
        <3> HIDE DEF q
        <3> QED
            BY <3>3, <3>4, ContextSame
    <2> HIDE DEF q, near, other
    <2> QED
        BY <2>2, <2>3, ExpandSame
<1> HIDE DEF near, other
<1>2. RankInitialChannels(request, channels, near) = RankInitialChannels(request, channels, other)
    BY <1>1 DEF RankInitialChannels
<1> QED
    BY <1>2 DEF near, other

LEMMA FusedSame ==
    ASSUME Spans(index, nextId), NEW request, NEW channels, ListsMadeOf(channels, LiveRefs(index)),
           NEW ids, IdsOf(Anchors(channels, Leading(request.route))) \subseteq ids,
           NEW more, IdsOf(Anchors(channels, Leading(request.route))) \subseteq more
    PROVE  PackAndFuseChannels(request, channels, ListNeighborChunks(ids, 1))
             = PackAndFuseChannels(request, channels, ListNeighborChunks(more, 1))
<1> DEFINE anchors == Anchors(channels, Leading(request.route))
           T == {hit \in Live : \E i \in DOMAIN anchors : Near(hit, anchors[i], 1)}
           at(near) == {k \in DOMAIN near : \E i \in DOMAIN anchors : Near(near[k], anchors[i], 1)}
<1>1. MadeOf(anchors, LiveRefs(index))
    BY AnchorsHeld, LimitsOfRequests
<1>2. \A i \in DOMAIN anchors : IsHit(anchors[i], LiveRefs(index))
    BY <1>1, HeldMeans
<1>3. IdsOf(anchors) \subseteq ids /\ IdsOf(anchors) \subseteq more
    OBVIOUS
<1> HIDE DEF anchors
<1>4. ASSUME NEW some, IdsOf(anchors) \subseteq some
      PROVE  NeighborsForAnchors(ListNeighborChunks(some, 1), anchors) = Ordered(T)
    <2> DEFINE near == ListNeighborChunks(some, 1)
    <2>1. near \in Seq(Live)
        BY NeighborsAreLive
    <2>2. ASSUME NEW hit \in T
          PROVE  hit \in Live /\ \E other \in Live : other.id \in some /\ Near(hit, other, 1)
        <3>1. PICK i \in DOMAIN anchors : Near(hit, anchors[i], 1)
            OBVIOUS
        <3>2. PICK live \in Live : live.id = anchors[i].id /\ live.doc = anchors[i].doc /\ live.n = anchors[i].n
            BY <1>2, AnchorIsThere
        <3>3. live.id \in some
            BY <1>4, <3>2 DEF IdsOf
        <3> QED
            BY <3>1, <3>2, <3>3 DEF Near
    <2>3. Those(near, T) = Ordered(T)
        <3> HIDE DEF T
        <3> QED
            BY <2>2, NearOfMany
    <2> HIDE DEF near
    <2>4. \A k \in DOMAIN near : near[k] \in Live
        BY <2>1
    <2>5. at(near) = {k \in DOMAIN near : near[k] \in T}
        BY <2>4
    <2>6. NeighborsForAnchors(near, anchors) = Pick(near, at(near))
        BY DEF NeighborsForAnchors
    <2> HIDE DEF at, T
    <2> QED
        BY <2>3, <2>5, <2>6 DEF Those, near
<1>5. NeighborsForAnchors(ListNeighborChunks(ids, 1), anchors) = NeighborsForAnchors(ListNeighborChunks(more, 1), anchors)
    <2> HIDE DEF T
    <2> QED
        BY <1>3, <1>4
<1> QED
    BY <1>5 DEF PackAndFuseChannels, anchors

-----------------------------------------------------------------------------
(* Evidence is the library's: while it stands, so does what it gives. *)
StandStill == UNCHANGED <<index, nextId>>

LEMMA LiveStands == ASSUME StandStill PROVE Live' = Live
BY DEF Live, HitsOf, StandStill

LEMMA OrderedStands == ASSUME StandStill PROVE \A them : Ordered(them)' = Ordered(them)
BY DEF Ordered, StandStill

LEMMA NearStands == ASSUME StandStill PROVE \A ids, radius : ListNeighborChunks(ids, radius)' = ListNeighborChunks(ids, radius)
BY LiveStands, OrderedStands DEF ListNeighborChunks

LEMMA LeadStands == ASSUME StandStill PROVE \A ids : ListPageLeadChunks(ids)' = ListPageLeadChunks(ids)
BY LiveStands, OrderedStands DEF ListPageLeadChunks

LEMMA ChildrenStand == ASSUME StandStill PROVE \A ids : ListChildChunksForParents(ids)' = ListChildChunksForParents(ids)
BY LiveStands DEF ListChildChunksForParents

LEMMA RefsStand == ASSUME StandStill PROVE LiveRefs(index)' = LiveRefs(index)
BY DEF StandStill

LEMMA FoundStands ==
    ASSUME StandStill PROVE \A channel, variant, scope : Found(channel, variant, scope)' = Found(channel, variant, scope)
<1>1. \A place, scope : HitsAt(place, scope)' = HitsAt(place, scope)
    BY LiveStands DEF HitsAt
<1> SUFFICES ASSUME NEW channel, NEW variant, NEW scope
             PROVE  Found(channel, variant, scope)' = Found(channel, variant, scope)
    OBVIOUS
<1> DEFINE First(place) == CHOOSE hit \in HitsAt(place, scope) : TRUE
           all == Ranking[variant][channel]
           at == {i \in DOMAIN all : HitsAt(all[i], scope) # {}}
           list == Pick(all, at)
           them == [rank \in DOMAIN list |->
                       [First(list[rank]) EXCEPT !.score = RawScore(channel, rank)]]
<1>2. at' = at
    BY <1>1
<1> HIDE DEF at
<1>3. list' = list
    BY <1>2
<1> HIDE DEF list
<1>7. \A place : First(place)' = First(place)
    BY <1>1
<1> HIDE DEF First
<1>4. them' = them
    BY <1>3, <1>7
<1>5. Found(channel, variant, scope) = Take(them, Limit.channel)
    BY DEF Found, list, at, First
<1>6. Found(channel, variant, scope)' = Take(them', Limit.channel)
    BY DEF Found, list, at, First
<1> QED
    BY <1>4, <1>5, <1>6

LEMMA SearchedStands ==
    ASSUME StandStill PROVE \A channel, batch, flat : Searched(channel, batch, flat)' = Searched(channel, batch, flat)
BY FoundStands DEF Searched

LEMMA RankedStands == ASSUME StandStill PROVE \A r, ranked : EvidenceOfRanked(r, ranked)' = EvidenceOfRanked(r, ranked)
BY NearStands, LeadStands DEF EvidenceOfRanked

LEMMA PromotionStands ==
    ASSUME StandStill PROVE \A r, coarse, pairs : Ranked(r, coarse, pairs)' = Ranked(r, coarse, pairs)
<1> SUFFICES ASSUME NEW r, NEW ranked, NEW pairs PROVE Ranked(r, ranked, pairs)' = Ranked(r, ranked, pairs)
    OBVIOUS
<1> DEFINE q == r.question
           topK == CandidateLimit(r)
           ScoreOf(id) == ranked[RankIn(ranked, id)].score
           children == Ordered({pair.child : pair \in pairs})
           Inherited(hit) == Max({(ScoreOf(pair.parent.id) * 9) \div 10 : pair \in {p \in pairs : p.child = hit}})
           promoted == [i \in DOMAIN children |-> [children[i] EXCEPT !.score =
                           Inherited(children[i]) + 38 * Useful(q, children[i])]]
<1>1. children' = children
    BY OrderedStands
<1> HIDE DEF children
<1>2. promoted' = promoted
    BY <1>1
<1>3. Ranked(r, ranked, pairs) = Take(Once(ByScore(Precise(ranked) \o promoted)), topK)
    BY DEF Ranked, ExpandStructuralParents, children
<1>4. Ranked(r, ranked, pairs)' = Take(Once(ByScore(Precise(ranked) \o promoted')), topK)
    BY DEF Ranked, ExpandStructuralParents, children
<1> QED
    BY <1>2, <1>3, <1>4

LEMMA CoarseStands == ASSUME StandStill PROVE \A r, coarse : EvidenceOfCoarse(r, coarse)' = EvidenceOfCoarse(r, coarse)
BY RankedStands, ChildrenStand, PromotionStands DEF EvidenceOfCoarse

LEMMA ChannelsStand == ASSUME StandStill PROVE \A r, channels : EvidenceOfChannels(r, channels)' = EvidenceOfChannels(r, channels)
BY CoarseStands, NearStands DEF EvidenceOfChannels

LEMMA SetsStand == ASSUME StandStill PROVE \A r, sets : EvidenceOfSets(r, sets)' = EvidenceOfSets(r, sets)
BY ChannelsStand, NearStands DEF EvidenceOfSets

LEMMA EvidenceStands == ASSUME StandStill PROVE \A r : Evidence(r)' = Evidence(r)
BY SetsStand, SearchedStands DEF Evidence, EvidenceOfBatch

LEMMA OwnSetsStand == ASSUME StandStill PROVE \A r : OwnSets(r)' = OwnSets(r)
BY FoundStands DEF OwnSets, Own

-----------------------------------------------------------------------------
(* A batch and its requests alone, step by step. *)

\* While the library stands, every request has what its stages alone give so far.
AsAlone ==
    /\ search.step = "embedding" => /\ search.lexical = Searched("lexical", Batch, Sparse(Batch))
                                    /\ search.fuzzy = Searched("fuzzy", Batch, Sparse(Batch))
    /\ search.step = "candidates" => search.sets = [i \in Requests |-> OwnSets(Batch[i])]
    /\ search.step = "channels" =>
           /\ DOMAIN search.channels = Requests
           /\ \A i \in Requests : EvidenceOfChannels(Batch[i], search.channels[i]) = Evidence(Batch[i])
    /\ search.step = "fused" => \A i \in Requests : EvidenceOfCoarse(Batch[i], search.coarse[i]) = Evidence(Batch[i])
    /\ search.step \in {"packing", "answered"} =>
           /\ \A i \in Requests : EvidenceOfRanked(Batch[i], search.ranked[i]) = Evidence(Batch[i])
           /\ \A i \in DOMAIN search.results : search.results[i] = Evidence(Batch[i])
    /\ search.step = "answered" => DOMAIN search.results = Requests

IsolationInv == quiet => AsAlone

LEMMA AloneIs ==
    ASSUME NEW r \in RequestOf
    PROVE  Evidence(r) = EvidenceOfSets(r, <<OwnSets(r)>>)
<1> DEFINE batch == <<r>>
<1>1. batch \in Seq(RequestOf) /\ batch[1] = r /\ DOMAIN batch = 1 .. 1
    OBVIOUS
<1>2. Evidence(r) = EvidenceOfSets(batch[1], SetsOf(batch))
    BY DEF Evidence, EvidenceOfBatch, SetsOf
<1> HIDE DEF batch
<1>3. SetsOf(batch) = [i \in 1 .. 1 |-> OwnSets(batch[i])]
    BY <1>1, SetsAreOwn
<1>4. [i \in 1 .. 1 |-> OwnSets(batch[i])] = <<OwnSets(r)>>
    <2>1. \A i \in 1 .. 1 : OwnSets(batch[i]) = OwnSets(r)
        BY <1>1
    <2> QED
        BY <2>1
<1> QED
    BY <1>1, <1>2, <1>3, <1>4

\* What is held now, said of the requests of the batch.
LEMMA HeldLive ==
    ASSUME RetrievalInv, quiet, search.step # "idle"
    PROVE  /\ Spans(index, nextId) /\ Batch \in Seq(RequestOf) /\ Requests = DOMAIN Batch
           /\ \A i \in Requests : Batch[i] \in RequestOf
           /\ search.step = "candidates" => \A i \in Requests : ListsMadeOf(search.sets[i], LiveRefs(index))
           /\ search.step = "channels" => \A i \in Requests : ListsMadeOf(search.channels[i], LiveRefs(index))
<1>1. Spans(index, nextId) /\ SearchHeld(LiveRefs(index), search)
    BY DEF RetrievalInv
<1>2. Batch \in Batches
    BY <1>1 DEF SearchHeld, Batch
<1>3. Batch \in Seq(RequestOf)
    BY <1>2, BatchesAssumption
<1>4. \A i \in DOMAIN Batch : Batch[i] \in RequestOf
    BY <1>3
<1>5. \A docs : Seen(LiveRefs(index), docs) \subseteq LiveRefs(index)
    BY DEF Seen
<1>6. \A docs, lists : ListsMadeOf(lists, Seen(LiveRefs(index), docs)) => ListsMadeOf(lists, LiveRefs(index))
    BY <1>5, ListsGrow
<1>7. /\ search.step = "candidates" => \A i \in DOMAIN Batch : ListsMadeOf(search.sets[i], LiveRefs(index))
      /\ search.step = "channels" => \A i \in DOMAIN Batch : ListsMadeOf(search.channels[i], LiveRefs(index))
    BY <1>1, <1>6 DEF SearchHeld, Batch
<1> QED
    BY <1>1, <1>3, <1>4, <1>7 DEF Requests

LEMMA RetrieveManyAlone == ASSUME NEW batch \in Batches, RetrieveMany(batch) PROVE AsAlone'
<1>1. /\ search'.step = "embedding" /\ search'.batch = batch /\ StandStill
      /\ search'.lexical = Searched("lexical", batch, Sparse(batch))
      /\ search'.fuzzy = Searched("fuzzy", batch, Sparse(batch))
    BY DEF RetrieveMany, StandStill
<1> QED
    BY <1>1, SearchedStands DEF AsAlone, Batch

LEMMA SearchVectorManyAlone ==
    ASSUME RetrievalInv, quiet, AsAlone, SearchVectorMany
    PROVE  AsAlone'
<1>1. search.step = "embedding" /\ StandStill
    BY DEF SearchVectorMany, StandStill
<1>2. Batch \in Seq(RequestOf) /\ Requests = DOMAIN Batch
    BY <1>1, HeldLive
<1>3. /\ search'.step = "candidates" /\ search'.batch = Batch
      /\ search'.sets = CandidateSets(Batch, search.lexical, search.fuzzy, Searched("semantic", Batch, Dense(Batch)))
    BY DEF SearchVectorMany
<1>4. search'.sets = SetsOf(Batch)
    BY <1>1, <1>3 DEF AsAlone, SetsOf
<1>5. search'.sets = [i \in Requests |-> OwnSets(Batch[i])]
    BY <1>2, <1>4, SetsAreOwn
<1>6. Batch' = Batch /\ Requests' = Requests
    BY <1>3 DEF Batch, Requests
<1>7. search'.sets = [i \in Requests |-> OwnSets(Batch[i])]'
    BY <1>1, <1>5, <1>6, OwnSetsStand
<1> QED
    BY <1>3, <1>7 DEF AsAlone

LEMMA RankInitialAlone ==
    ASSUME RetrievalInv, quiet, AsAlone, RankInitial
    PROVE  AsAlone'
<1> DEFINE all == ListNeighborChunks(PreFusionAnchors(search.sets), 1)
<1>1. search.step = "candidates" /\ StandStill
    BY DEF RankInitial, StandStill
<1>2. /\ Spans(index, nextId) /\ Requests = DOMAIN Batch
      /\ \A i \in Requests : Batch[i] \in RequestOf /\ ListsMadeOf(search.sets[i], LiveRefs(index))
    BY <1>1, HeldLive
<1>3. search.sets = [i \in Requests |-> OwnSets(Batch[i])]
    BY <1>1 DEF AsAlone
<1>4. /\ search'.step = "channels" /\ search'.batch = Batch
      /\ search'.channels = [i \in Requests |-> RankInitialChannels(Batch[i], search.sets[i], all)]
    BY DEF RankInitial
<1>5. Batch' = Batch /\ Requests' = Requests
    BY <1>4 DEF Batch, Requests
<1>6. ASSUME NEW i \in Requests
      PROVE  EvidenceOfChannels(Batch[i], search'.channels[i]) = Evidence(Batch[i])
    <2> DEFINE r == Batch[i]
               own == search.sets[i]
               one == <<own>>
               ids == PreFusionAnchors(one)
               more == PreFusionAnchors(search.sets)
    <2>1. r \in RequestOf /\ ListsMadeOf(own, LiveRefs(index)) /\ own = OwnSets(r)
        BY <1>2, <1>3
    <2>2. Evidence(r) = EvidenceOfChannels(r, RankInitialChannels(r, own, ListNeighborChunks(ids, 1)))
        <3>1. Evidence(r) = EvidenceOfSets(r, one)
            BY <2>1, AloneIs
        <3>2. one[1] = own
            OBVIOUS
        <3> HIDE DEF one
        <3> QED
            BY <3>1, <3>2 DEF EvidenceOfSets
    <2>3. IdsOf(Anchors(own, Limit.anchors)) \subseteq ids
        <3>1. 1 \in DOMAIN one /\ one[1] = own
            OBVIOUS
        <3> HIDE DEF one
        <3> QED
            BY <3>1 DEF PreFusionAnchors
    <2>4. IdsOf(Anchors(own, Limit.anchors)) \subseteq more
        BY <1>3 DEF PreFusionAnchors
    <2>5. search'.channels[i] = RankInitialChannels(r, own, ListNeighborChunks(more, 1))
        BY <1>4
    <2> HIDE DEF ids, more, r, own
    <2>6. RankInitialChannels(r, own, ListNeighborChunks(ids, 1)) = RankInitialChannels(r, own, ListNeighborChunks(more, 1))
        BY <1>2, <2>1, <2>3, <2>4, InitialSame
    <2> QED
        BY <2>2, <2>5, <2>6 DEF r
<1>7. DOMAIN search'.channels = Requests
    BY <1>4
<1>8. \A i \in Requests : EvidenceOfChannels(Batch[i], search.channels[i])' = Evidence(Batch[i])'
    BY <1>1, <1>5, <1>6, ChannelsStand, EvidenceStands
<1> QED
    BY <1>4, <1>5, <1>7, <1>8 DEF AsAlone

LEMMA PackAndFuseAlone ==
    ASSUME RetrievalInv, quiet, AsAlone, PackAndFuse
    PROVE  AsAlone'
<1> DEFINE all == ListNeighborChunks(ChannelAnchors(Batch, search.channels), 1)
<1>1. search.step = "channels" /\ StandStill
    BY DEF PackAndFuse, StandStill
<1>2. /\ Spans(index, nextId) /\ Requests = DOMAIN Batch
      /\ \A i \in Requests : Batch[i] \in RequestOf /\ ListsMadeOf(search.channels[i], LiveRefs(index))
    BY <1>1, HeldLive
<1>3. /\ DOMAIN search.channels = Requests
      /\ \A i \in Requests : EvidenceOfChannels(Batch[i], search.channels[i]) = Evidence(Batch[i])
    BY <1>1 DEF AsAlone
<1>4. /\ search'.step = "fused" /\ search'.batch = Batch
      /\ search'.coarse = [i \in Requests |-> PackAndFuseChannels(Batch[i], search.channels[i], all)]
    BY DEF PackAndFuse
<1>5. Batch' = Batch /\ Requests' = Requests
    BY <1>4 DEF Batch, Requests
<1>6. ASSUME NEW i \in Requests
      PROVE  EvidenceOfCoarse(Batch[i], search'.coarse[i]) = Evidence(Batch[i])
    <2> DEFINE r == Batch[i]
               own == search.channels[i]
               ids == ChannelAnchors(<<r>>, <<own>>)
               more == ChannelAnchors(Batch, search.channels)
    <2>1. ListsMadeOf(own, LiveRefs(index)) /\ Evidence(r) = EvidenceOfChannels(r, own)
        BY <1>2, <1>3
    <2>2. Evidence(r) = EvidenceOfCoarse(r, PackAndFuseChannels(r, own, ListNeighborChunks(ids, 1)))
        <3> HIDE DEF r, own
        <3> QED
            BY <2>1 DEF EvidenceOfChannels
    <2>3. IdsOf(Anchors(own, Leading(r.route))) \subseteq ids
        <3> DEFINE one == <<own>>
                   alone == <<r>>
        <3>1. 1 \in DOMAIN one /\ one[1] = own /\ alone[1] = r
            OBVIOUS
        <3> HIDE DEF one, alone
        <3>2. IdsOf(Anchors(own, Leading(r.route))) \subseteq ChannelAnchors(alone, one)
            BY <3>1 DEF ChannelAnchors
        <3> QED
            BY <3>2 DEF one, alone
    <2>4. IdsOf(Anchors(own, Leading(r.route))) \subseteq more
        BY <1>3 DEF ChannelAnchors
    <2>5. search'.coarse[i] = PackAndFuseChannels(r, own, ListNeighborChunks(more, 1))
        BY <1>4
    <2> HIDE DEF ids, more, r, own
    <2>6. PackAndFuseChannels(r, own, ListNeighborChunks(ids, 1)) = PackAndFuseChannels(r, own, ListNeighborChunks(more, 1))
        BY <1>2, <2>1, <2>3, <2>4, FusedSame
    <2> QED
        BY <2>2, <2>5, <2>6 DEF r
<1>8. \A i \in Requests : EvidenceOfCoarse(Batch[i], search.coarse[i])' = Evidence(Batch[i])'
    BY <1>1, <1>5, <1>6, CoarseStands, EvidenceStands
<1> QED
    BY <1>4, <1>5, <1>8 DEF AsAlone

LEMMA ExpandParentsAlone ==
    ASSUME AsAlone, ExpandParents
    PROVE  AsAlone'
<1>1. search.step = "fused" /\ StandStill
    BY DEF ExpandParents, StandStill
<1>2. \A i \in Requests : EvidenceOfCoarse(Batch[i], search.coarse[i]) = Evidence(Batch[i])
    BY <1>1 DEF AsAlone
<1>3. /\ search'.step = "packing" /\ search'.batch = Batch /\ search'.results = <<>>
      /\ search'.ranked = [i \in Requests |-> Ranked(Batch[i], search.coarse[i],
                                                     ListChildChunksForParents(ParentIds(search.coarse[i])))]
    BY DEF ExpandParents
<1>4. Batch' = Batch /\ Requests' = Requests
    BY <1>3 DEF Batch, Requests
<1>5. \A i \in Requests : EvidenceOfRanked(Batch[i], search'.ranked[i]) = Evidence(Batch[i])
    BY <1>2, <1>3 DEF EvidenceOfCoarse
<1>6. \A i \in Requests : EvidenceOfRanked(Batch[i], search.ranked[i])' = Evidence(Batch[i])'
    BY <1>1, <1>4, <1>5, RankedStands, EvidenceStands
<1>7. DOMAIN search'.results = {}
    BY <1>3
<1> QED
    BY <1>3, <1>4, <1>6, <1>7 DEF AsAlone

LEMMA PackFinalAlone ==
    ASSUME RetrievalInv, quiet, AsAlone, NEW i \in Requests, PackFinal(i)
    PROVE  AsAlone'
<1> DEFINE ids == FinalAnchors(Batch[i], search.ranked[i])
           result == PackFinalEvidence(Batch[i], search.ranked[i],
                         ListNeighborChunks(ids, Reach(Batch[i].route)), ListPageLeadChunks(ids))
           results == [j \in DOMAIN search.results \cup {i} |-> IF j = i THEN result ELSE search.results[j]]
<1>1. search.step = "packing" /\ StandStill
    BY DEF PackFinal, StandStill
<1>2. search' = [search EXCEPT !.results = results,
                               !.step = IF DOMAIN results = Requests THEN "answered" ELSE @]
    BY DEF PackFinal
<1>3. result = EvidenceOfRanked(Batch[i], search.ranked[i])
    BY DEF EvidenceOfRanked
<1>4. /\ \A j \in Requests : EvidenceOfRanked(Batch[j], search.ranked[j]) = Evidence(Batch[j])
      /\ \A j \in DOMAIN search.results : search.results[j] = Evidence(Batch[j])
    BY <1>1 DEF AsAlone
<1>5. {"step", "batch", "ranked", "results"} \subseteq DOMAIN search
    BY <1>1 DEF RetrievalInv, SearchHeld
<1> HIDE DEF result
<1>6. \A j \in DOMAIN results : results[j] = Evidence(Batch[j])
    BY <1>3, <1>4
<1> HIDE DEF results
<1>7. /\ search'.batch = Batch /\ search'.ranked = search.ranked /\ search'.results = results
      /\ search'.step \in {"packing", "answered"}
      /\ search'.step = "answered" => DOMAIN results = Requests
    BY <1>1, <1>2, <1>5 DEF Batch
<1>8. Batch' = Batch /\ Requests' = Requests
    BY <1>7 DEF Batch, Requests
<1>9. /\ \A j \in Requests : EvidenceOfRanked(Batch[j], search.ranked[j])' = Evidence(Batch[j])'
      /\ \A j \in DOMAIN results : results[j] = Evidence(Batch[j])'
    BY <1>1, <1>4, <1>6, <1>7, <1>8, RankedStands, EvidenceStands
<1> QED
    BY <1>7, <1>8, <1>9 DEF AsAlone

LEMMA EveryStepIsAlone ==
    RetrievalInv /\ IsolationInv /\ [SearchNext]_searchVars => IsolationInv'
<1> SUFFICES ASSUME RetrievalInv, IsolationInv, [SearchNext]_searchVars, quiet' PROVE AsAlone'
    BY DEF IsolationInv
<1> USE DEF IsolationInv
<1>1. CASE \E batch \in Batches : RetrieveMany(batch)
    BY <1>1, RetrieveManyAlone
<1>2. CASE SearchVectorMany
    BY <1>2, SearchVectorManyAlone DEF SearchVectorMany
<1>3. CASE RankInitial
    BY <1>3, RankInitialAlone DEF RankInitial
<1>4. CASE PackAndFuse
    BY <1>4, PackAndFuseAlone DEF PackAndFuse
<1>5. CASE ExpandParents
    BY <1>5, ExpandParentsAlone DEF ExpandParents
<1>6. CASE search.step = "packing" /\ \E i \in Requests : PackFinal(i)
    BY <1>6, PackFinalAlone DEF PackFinal
<1>7. CASE Cite
    BY <1>7 DEF Cite, Idle, AsAlone
<1>8. CASE \E d \in Docs : RemoveDocument(d)
    BY <1>8 DEF RemoveDocument
<1>9. CASE \E d \in Docs : \E content \in DOMAIN Texts : Rewrite(d, content)
    BY <1>9 DEF Rewrite
<1>10. CASE UNCHANGED searchVars
    <2>1. StandStill /\ search' = search /\ Batch' = Batch /\ Requests' = Requests /\ quiet
        BY <1>10 DEF searchVars, StandStill, Batch, Requests
    <2>2. AsAlone
        BY <2>1
    <2> QED
        BY <2>1, <2>2, SearchedStands, OwnSetsStand, ChannelsStand, CoarseStands, RankedStands, EvidenceStands DEF AsAlone
<1> QED
    BY <1>1, <1>2, <1>3, <1>4, <1>5, <1>6, <1>7, <1>8, <1>9, <1>10 DEF SearchNext

\* A question of a batch gets the evidence that it gets alone (retrieveMany).
THEOREM BatchesAreIsolated == SearchSpec => []BatchIsolation
<1>1. SearchInit => IsolationInv
    BY DEF SearchInit, Idle, IsolationInv, AsAlone
<1>2. IsolationInv => BatchIsolation
    BY DEF IsolationInv, AsAlone, BatchIsolation
<1> QED
    BY <1>1, <1>2, EveryStepIsAlone, RetrievalIsHeld, PTL DEF SearchSpec

-----------------------------------------------------------------------------
(* The answer. *)

\* The prompt lists the passages citations are resolved against, up to some point.
Numbered ==
    /\ hits \in Seq(Passage) /\ prompt \in Seq(Passage)
    /\ pass \notin {"idle", "retrieving"} =>
         Len(prompt) <= Len(hits) /\ \A i \in 1 .. Len(prompt) : prompt[i] = hits[i]

\* A press of Stop over a text of the turn is known to all that follows.
StopIsKnown == heard => stopRequested /\ pass \notin {"idle", "retrieving", "done"}

\* Only a question that wants no prose of its own is recovered.
RecoveryHasShape == pass = "recovery" => ~Reasoning

\* A message is there between its writing and the end of the turn.
StoredIsHeld == stored # None => pass = "done" /\ ShownIsHeld

IInv == Numbered /\ StopIsKnown /\ RecoveryHasShape /\ StoredIsHeld

-----------------------------------------------------------------------------
(* Operators.                                                                 *)

\* A nonempty set of numbers has a least one.
LEMMA MinIsLeast ==
    ASSUME NEW S \in SUBSET Nat, S # {}
    PROVE  Min(S) \in S /\ \A n \in S : Min(S) <= n
<1> DEFINE R == OpToRel(<, Nat)
<1>1. \A x, y \in Nat : <<y, x>> \in R <=> y < x
    BY DEF OpToRel
<1>2. PICK x \in S : \A y \in S : ~(<<y, x>> \in R)
    <2> HIDE DEF R
    <2>1. IsWellFoundedOn(R, Nat)
        BY NatLessThanWellFounded DEF R
    <2> QED
        BY <2>1, WFMin
<1>3. \A y \in S : x <= y
    <2> HIDE DEF R
    <2> TAKE y \in S
    <2>1. x \in Nat /\ y \in Nat
        OBVIOUS
    <2>2. ~(y < x)
        BY <1>1, <1>2, <2>1, Zenon
    <2> QED
        BY <2>1, <2>2
<1> QED
    BY <1>3 DEF Min

LEMMA PassesAre ==
    /\ DOMAIN Passes = 1 .. 9 /\ Passes[9] = "record"
    /\ \A i \in 1 .. 9 : Passes[i] = "record" => i = 9
    /\ \A i \in 1 .. 9 : Passes[i] \notin {"idle", "retrieving", "draft", "redraft", "done"}
BY DEF Passes

\* The rank of a pass is its place in the order, and 0 before the first.
LEMMA RankBelowLast ==
    ASSUME NEW p, p # "record"
    PROVE  Rank(p) \in 0 .. 8
<1>1. CASE p \in ToSet(Passes)
    <2>1. \E i \in DOMAIN Passes : Passes[i] = p
        BY <1>1 DEF ToSet
    <2>2. Rank(p) \in DOMAIN Passes /\ Passes[Rank(p)] = p
        BY <1>1, <2>1 DEF Rank
    <2> QED
        BY <2>2, PassesAre
<1>2. CASE p \notin ToSet(Passes)
    BY <1>2 DEF Rank
<1> QED
    BY <1>1, <1>2

\* The pass that follows is a later one, and its condition holds.
LEMMA NextPassIsWanted ==
    ASSUME NEW p, p # "record", NEW t, NEW list
    PROVE  /\ Wanted(After(p, t, list), t, list)
           /\ \E i \in 1 .. 9 : i > Rank(p) /\ After(p, t, list) = Passes[i]
<1> DEFINE S == {i \in DOMAIN Passes : i > Rank(p) /\ Wanted(Passes[i], t, list)}
<1>1. 9 \in S
    <2>1. Wanted("record", t, list)
        BY DEF Wanted, Corrections
    <2> QED
        BY <2>1, RankBelowLast, PassesAre
<1>2. S \in SUBSET Nat
    BY PassesAre
<1>3. Min(S) \in S
    <2> HIDE DEF S
    <2> QED
        BY <1>1, <1>2, MinIsLeast
<1>4. After(p, t, list) = Passes[Min(S)]
    BY DEF After
<1> QED
    BY <1>3, <1>4, PassesAre

LEMMA AfterStop ==
    ASSUME NEW p, p # "record", NEW t, NEW list
    PROVE  /\ After(p, t, list) \notin {"idle", "retrieving", "draft", "redraft", "done"}
           /\ stopRequested => After(p, t, list) \notin Corrections \cup {"recovery"}
           /\ After(p, t, list) = "recovery" => ~Reasoning
<1> DEFINE q == After(p, t, list)
<1>1. Wanted(q, t, list) /\ q \notin {"idle", "retrieving", "draft", "redraft", "done"}
    BY NextPassIsWanted, PassesAre
<1> HIDE DEF q
<1>2. q \in Corrections => ~stopRequested
    BY <1>1 DEF Wanted, Corrections, CorrectionWanted
<1>3. q = "recovery" => ~stopRequested /\ (Copied(t) \/ Incomplete(t) \/ Decomposed)
    <2> SUFFICES ASSUME q = "recovery" PROVE ~stopRequested /\ (Copied(t) \/ Incomplete(t) \/ Decomposed)
        OBVIOUS
    <2>1. Wanted("recovery", t, list)
        BY <1>1
    <2>2. "recovery" \notin Corrections
        BY DEF Corrections
    <2> QED
        BY <2>1, <2>2 DEF Wanted
<1>4. q = "recovery" => ~Reasoning
    BY <1>3 DEF Copied, Incomplete, Decomposed, Reasoning
<1> QED
    BY <1>1, <1>2, <1>3, <1>4 DEF q

\* A fifth of a list, rounded up: something goes, and something stays.
LEMMA DropsSome ==
    ASSUME NEW n \in Nat, n > 1
    PROVE  Dropped(n) \in 1 .. n - 1
<1> DEFINE k == (n + 4) \div 5
<1>1. k \in Nat /\ 1 <= k /\ k < n
    OBVIOUS
<1>2. \A x \in {1, k} : k >= x
    BY <1>1
<1> HIDE DEF k
<1>3. Max({1, k}) = k
    BY <1>1, <1>2 DEF Max
<1> QED
    BY <1>1, <1>3 DEF Dropped, k

LEMMA LeastOfOne ==
    ASSUME NEW n \in Nat
    PROVE  Min({1, n}) \in Nat
BY MinIsLeast

-----------------------------------------------------------------------------
LEMMA InitIInv == Init => IInv
<1> SUFFICES ASSUME Init PROVE IInv
    OBVIOUS
<1>1. hits = <<>> /\ prompt = <<>> /\ <<>> \in Seq(Passage)
    BY DEF Init
<1> QED
    BY <1>1 DEF Init, IInv, Numbered, StopIsKnown, RecoveryHasShape, StoredIsHeld

\* A prefix of a list of passages is one.
LEMMA Shortened ==
    ASSUME NEW list \in Seq(Passage), NEW n \in 0 .. Len(list)
    PROVE  LET short == SubSeq(list, 1, n) IN
           /\ short \in Seq(Passage) /\ Len(short) = n
           /\ \A i \in 1 .. n : short[i] = list[i]
OBVIOUS

\* A text that is judged, or taken, leads to a pass that is wanted.
Follows(p) ==
    \E t, list : pass' = After(p, t, list)

LEMMA TurnKeeps ==
    ASSUME IInv, Numbered', pass \notin {"idle", "retrieving", "done"},
           \/ pass' = pass
           \/ pass' = "redraft" /\ ~stopRequested
           \/ pass # "record" /\ Follows(pass)
           \/ Follows("draft"),
           UNCHANGED <<question, stopRequested, heard, stored>>
    PROVE  IInv'
<1> USE DEF IInv
<1>1. \/ pass' = pass
      \/ pass' = "redraft" /\ ~stopRequested
      \/ \E p, t, list : p # "record" /\ pass' = After(p, t, list)
    BY DEF Follows
<1>2. StopIsKnown'
    BY <1>1, AfterStop DEF StopIsKnown
<1>3. RecoveryHasShape'
    BY <1>1, AfterStop DEF RecoveryHasShape, Reasoning
<1>4. StoredIsHeld'
    BY DEF StoredIsHeld
<1> QED
    BY <1>2, <1>3, <1>4

LEMMA BeginKeeps ==
    ASSUME IInv, Ask \/ Write
    PROVE  IInv'
<1> USE DEF IInv
<1>1. CASE Ask
    <2>1. PICK n \in 0 .. MaxHits : hits' = List(n)
        BY <1>1 DEF Ask
    <2>2. List(n) \in Seq(Passage)
        BY HitsAssumption DEF List, Passage
    <2>3. Numbered'
        BY <1>1, <2>1, <2>2 DEF Ask, Numbered
    <2>4. heard' = FALSE /\ stored' = None
        BY <1>1 DEF Ask, StopIsKnown, StoredIsHeld
    <2> QED
        BY <1>1, <2>3, <2>4 DEF Ask, StopIsKnown, RecoveryHasShape, StoredIsHeld
<1>2. CASE Write
    <2>1. PICK n \in Min({1, Len(hits)}) .. Len(hits) :
            LET list == SubSeq(hits, 1, n) IN
            /\ hits' = list /\ prompt' = list
            /\ \/ \E t \in Extracts(list) : pass' = After("draft", t, list)
               \/ pass' = "draft"
        BY <1>2 DEF Write
    <2> DEFINE list == SubSeq(hits, 1, n)
    <2>2. n \in 0 .. Len(hits)
        <3>1. Len(hits) \in Nat
            BY DEF Numbered
        <3> QED
            BY <3>1, LeastOfOne
    <2>3. list \in Seq(Passage) /\ hits' = list /\ prompt' = list
        BY <2>1, <2>2, Shortened DEF Numbered
    <2>4. pass' \notin {"idle", "retrieving", "done"} /\ (pass' = "recovery" => ~Reasoning)
        BY <2>1, AfterStop
    <2> HIDE DEF list
    <2>5. Numbered'
        BY <2>3, <2>4 DEF Numbered
    <2>6. ~heard /\ stored = None
        BY <1>2 DEF Write, StopIsKnown, StoredIsHeld
    <2>7. UNCHANGED <<question, heard, stored>>
        BY <1>2 DEF Write
    <2> QED
        BY <2>4, <2>5, <2>6, <2>7 DEF StopIsKnown, RecoveryHasShape, Reasoning, StoredIsHeld
<1> QED
    BY <1>1, <1>2

\* A draft is judged with the list it was written from, or the turn's own.
LEMMA JudgeKeeps ==
    ASSUME IInv, pass = "draft", NEW t, NEW list \in {hits, prompt}, Judge(t, list),
           UNCHANGED <<question, prompt, stopRequested, heard, stored>>
    PROVE  IInv'
<1>1. hits' = list /\ ((pass' = "redraft" /\ ~stopRequested) \/ Follows("draft"))
    BY DEF Judge, Retries, Follows
<1>2. Numbered'
    BY <1>1 DEF IInv, Numbered
<1> QED
    BY <1>1, <1>2, TurnKeeps

LEMMA DraftKeeps ==
    ASSUME IInv, Overflows \/ Drafted \/ DraftDies \/ DraftUnserved \/ Redraft
    PROVE  IInv'
<1>1. CASE Overflows
    <2>1. CASE Len(prompt) > 1 /\ prompt' = SubSeq(prompt, 1, Len(prompt) - Dropped(Len(prompt)))
               /\ UNCHANGED <<pass, hits, context, raw>>
        <3> DEFINE n == Len(prompt) - Dropped(Len(prompt))
        <3>1. Len(prompt) \in Nat /\ n \in 1 .. Len(prompt) - 1
            BY <2>1, DropsSome DEF IInv, Numbered
        <3>2. prompt' \in Seq(Passage) /\ Len(prompt') = n /\ \A i \in 1 .. n : prompt'[i] = prompt[i]
            BY <2>1, <3>1, Shortened DEF IInv, Numbered
        <3> HIDE DEF n
        <3>3. Numbered'
            BY <1>1, <2>1, <3>1, <3>2 DEF IInv, Numbered
        <3> QED
            BY <1>1, <2>1, <3>3, TurnKeeps DEF Overflows
    <2>2. CASE context' = FALSE /\ UNCHANGED <<pass, hits, prompt, raw>>
        BY <1>1, <2>2, TurnKeeps DEF Overflows, IInv, Numbered
    <2>3. CASE Judge(Empty, hits) /\ UNCHANGED prompt
        BY <1>1, <2>3, JudgeKeeps DEF Overflows
    <2> QED
        BY <1>1, <2>1, <2>2, <2>3 DEF Overflows
<1>2. CASE Drafted
    BY <1>2, JudgeKeeps DEF Drafted
<1>3. CASE DraftDies
    BY <1>3, JudgeKeeps DEF DraftDies
<1>4. CASE DraftUnserved
    BY <1>4, JudgeKeeps DEF DraftUnserved
<1>5. CASE Redraft
    <2>1. Follows("draft") /\ UNCHANGED <<question, hits, prompt, stopRequested, heard, stored>>
        BY <1>5 DEF Redraft, Follows
    <2>2. pass' \notin {"idle", "retrieving"} /\ pass = "redraft"
        BY <1>5, <2>1, AfterStop DEF Redraft, Follows
    <2>3. Numbered'
        BY <2>1, <2>2 DEF IInv, Numbered
    <2> QED
        BY <2>1, <2>2, <2>3, TurnKeeps
<1> QED
    BY <1>1, <1>2, <1>3, <1>4, <1>5

LEMMA PassKeeps ==
    ASSUME IInv, Recover \/ Verify \/ Correct \/ Probe
    PROVE  IInv'
<1>1. pass \in Corrections \cup {"recovery", "verification", "probe"}
    BY DEF Recover, Verify, Correct, Probe
<1>2. pass \notin {"idle", "retrieving", "done", "record"}
    BY <1>1 DEF Corrections
<1>3. CASE Recover \/ Verify \/ Correct
    <2>1. PICK t : Adopt(t)
        BY <1>3 DEF Recover, Verify, Correct
    <2>2. Follows(pass) /\ UNCHANGED <<question, hits, prompt, stopRequested, heard, stored>>
        BY <2>1 DEF Adopt, Follows
    <2>3. Numbered'
        BY <1>2, <2>2 DEF IInv, Numbered
    <2> QED
        BY <1>2, <2>2, <2>3, TurnKeeps
<1>4. CASE Probe
    <2>1. PICK found \in {<<>>} \cup {<<p>> : p \in Passage} :
            hits' = hits \o found /\ pass' = After(pass, raw, hits')
        BY <1>4 DEF Probe
    <2>2. UNCHANGED <<question, prompt, stopRequested, heard, stored>> /\ Follows(pass)
        BY <1>4, <2>1 DEF Probe, Follows
    <2>3. found \in Seq(Passage)
        <3>1. CASE found = <<>>
            BY <3>1
        <3>2. ASSUME NEW p \in Passage, found = <<p>> PROVE found \in Seq(Passage)
            BY <3>2
        <3> QED
            BY <3>1, <3>2
    <2>4. /\ hits' \in Seq(Passage) /\ Len(hits) <= Len(hits')
          /\ \A i \in 1 .. Len(hits) : hits'[i] = hits[i]
        BY <2>1, <2>3 DEF IInv, Numbered
    <2>5. Numbered'
        BY <1>2, <2>2, <2>4 DEF IInv, Numbered
    <2> QED
        BY <1>2, <2>2, <2>5, TurnKeeps
<1> QED
    BY <1>3, <1>4

LEMMA Refused == Grounded(Refusal, hits) /\ ~Copied(Refusal)
BY DEF Grounded, Refusal, Copied

LEMMA EndKeeps ==
    ASSUME IInv, Record \/ Close \/ Throw \/ Stop
    PROVE  IInv'
<1> USE DEF IInv
<1>1. CASE Record
    <2>1. PICK t \in Repaired(IF Copied(raw) THEN Refusal ELSE raw) :
            stored' = [text |-> Gate(t, hits), excerpts |-> hits]
        BY <1>1 DEF Record
    <2>2. ~Copied(t)
        BY <2>1, Refused DEF Repaired, Empty, Copied
    <2>3. ~Copied(Gate(t, hits)) /\ Grounded(Gate(t, hits), hits)
        BY <2>2, Refused DEF Gate
    <2>4. pass' = "done" /\ heard' = FALSE /\ prompt' = <<>> /\ UNCHANGED <<question, hits>>
        BY <1>1 DEF Record
    <2>5. StoredIsHeld'
        BY <2>1, <2>3, <2>4 DEF StoredIsHeld, ShownIsHeld, Copied, Grounded, Held
    <2> QED
        BY <2>4, <2>5 DEF Numbered, StopIsKnown, RecoveryHasShape
<1>2. CASE Over
    BY <1>2 DEF Over, Numbered, StopIsKnown, RecoveryHasShape, StoredIsHeld
<1>3. CASE Stop
    <2>0. heard' => heard \/ pass \in ModelPasses
        BY <1>3, Zenon DEF Stop
    <2>1. Numbered' /\ StopIsKnown'
        BY <1>3, <2>0 DEF Stop, Numbered, StopIsKnown, ModelPasses, Corrections
    <2> QED
        BY <1>3, <2>1 DEF Stop, RecoveryHasShape, Reasoning, StoredIsHeld
<1> QED
    BY <1>1, <1>2, <1>3 DEF Close, Throw

LEMMA NextIInv == IInv /\ [Next]_vars => IInv'
<1> SUFFICES ASSUME IInv, [Next]_vars PROVE IInv'
    OBVIOUS
<1>1. CASE UNCHANGED vars
    BY <1>1 DEF vars, IInv, Numbered, StopIsKnown, RecoveryHasShape, Reasoning, StoredIsHeld,
                ShownIsHeld, Copied, Grounded, Held
<1> QED
    BY <1>1, BeginKeeps, DraftKeeps, PassKeeps, EndKeeps DEF Next

-----------------------------------------------------------------------------
(* A number the model read in front of a passage is the number its citation   *)
(* is resolved with, however often the prompt was shortened and whatever a    *)
(* search added (fitEvidenceToContext, shrinkEvidenceStep, the amount probe). *)
THEOREM NumbersAreCitations == Spec => []CitationsArePositional
<1>1. IInv => CitationsArePositional
    BY DEF IInv, Numbered, CitationsArePositional, IsPrefix
<1> QED
    BY <1>1, InitIInv, NextIInv, PTL DEF Spec

(* What is shown states no figure that the excerpts stored with it do not     *)
(* hold, whichever pass wrote it (the last gates of generatePrivate).         *)
THEOREM NothingShownUnheld == Spec => []ShownIsHeld
<1>1. IInv => ShownIsHeld
    BY DEF IInv, StoredIsHeld, ShownIsHeld
<1> QED
    BY <1>1, InitIInv, NextIInv, PTL DEF Spec

(* The compact synthesis never swaps a draft that would be shown for one that *)
(* the last gates refuse (recoveryCanReplace).                                *)
THEOREM RecoveryNeverSpoils == Spec => RecoveryIsMonotonic
<1> DEFINE Keeps == pass = "recovery" /\ Presentable(raw) => Presentable(raw)'
<1>1. IInv /\ [Next]_vars => [Keeps]_vars
    <2> SUFFICES ASSUME IInv, Next, pass = "recovery", Presentable(raw) PROVE Presentable(raw)'
        OBVIOUS
    <2>1. ~Reasoning
        BY DEF IInv, RecoveryHasShape
    <2>2. CASE Recover
        <3>1. PICK t \in Text(question.asked) :
                (t = raw \/ RecoveryCanReplace(raw, t, hits)) /\ Adopt(t)
            BY <2>2 DEF Recover
        <3>2. CASE t = raw
            BY <3>1, <3>2 DEF Adopt, Presentable, Grounded, Held
        <3>3. CASE RecoveryCanReplace(raw, t, hits)
            <4>1. t.form \in Forms
                BY DEF Text
            <4>2. Grounded(t, hits) /\ ~Degrades(raw, t)
                BY <3>3 DEF RecoveryCanReplace
            <4>3. t.form \in {"terse", "prose"}
                BY <2>1, <4>1, <4>2 DEF Degrades, Degenerate, Copied, Reasoning, Presentable, Forms
            <4> QED
                BY <3>1, <4>2, <4>3 DEF Adopt, Presentable, Grounded, Held
        <3> QED
            BY <3>1, <3>2, <3>3
    <2>3. CASE Stop
        BY <2>3 DEF Stop, Presentable, Grounded, Held
    <2> QED
        BY <2>2, <2>3 DEF Next, Ask, Write, Overflows, Drafted, DraftDies, DraftUnserved, Redraft,
                         Verify, Correct, Corrections, Probe, Record, Close, Throw
<1> QED
    BY <1>1, InitIInv, NextIInv, PTL DEF Spec, RecoveryIsMonotonic

(* Once Stop was pressed over a text of this turn, no rewriting begins        *)
(* (stopRequested, read before every pass that asks the model again).         *)
THEOREM StopIsFinal == Spec => StopEndsCorrections
<1> DEFINE Ends == heard /\ pass' # pass => pass' \notin Corrections \cup {"redraft", "recovery"}
<1>1. IInv /\ [Next]_vars => [Ends]_vars
    <2> SUFFICES ASSUME IInv, Next, heard, pass' # pass
                 PROVE  pass' \notin Corrections \cup {"redraft", "recovery"}
        OBVIOUS
    <2>1. stopRequested /\ pass \notin {"idle", "retrieving", "done"}
        BY DEF IInv, StopIsKnown
    <2>2. CASE pass' \in {"idle", "done"}
        BY <2>2 DEF Corrections
    <2>3. CASE \E p, t, list : p # "record" /\ pass' = After(p, t, list)
        BY <2>1, <2>3, AfterStop
    <2>4. ASSUME NEW t, NEW list, Judge(t, list) PROVE pass' = After("draft", t, list)
        BY <2>1, <2>4 DEF Judge, Retries
    <2>5. CASE Overflows \/ Drafted \/ DraftDies \/ DraftUnserved
        BY <2>3, <2>4, <2>5 DEF Overflows, Drafted, DraftDies, DraftUnserved
    <2>6. CASE Redraft
        BY <2>3, <2>6 DEF Redraft
    <2>7. CASE Recover \/ Verify \/ Correct \/ Probe
        <3>1. pass # "record"
            BY <2>7 DEF Recover, Verify, Correct, Corrections, Probe
        <3> QED
            BY <2>3, <2>7, <3>1 DEF Recover, Verify, Correct, Probe, Adopt
    <2>8. CASE Record \/ Close \/ Throw
        BY <2>2, <2>8 DEF Record, Close, Throw, Over
    <2> QED
        BY <2>1, <2>5, <2>6, <2>7, <2>8 DEF Next, Ask, Write, Stop
<1> QED
    BY <1>1, InitIInv, NextIInv, PTL DEF Spec, StopEndsCorrections

-----------------------------------------------------------------------------
\* The draft is a text about the question that was asked; between two turns
\* there is none.
RawIsText ==
    /\ question.asked \subseteq Kinds /\ raw \in Text(question.asked)
    /\ pass \in {"idle", "retrieving"} => raw = Empty

LEMMA EmptyIsText == ASSUME NEW S PROVE Empty \in Text(S)
BY DEF Empty, Text, Forms

\* What the extractors write is a text too, and no pass of the order is the start.
LEMMA RawIsTextKept == ASSUME IInv, RawIsText, [Next]_vars PROVE RawIsText'
<1> USE DEF RawIsText
<1>1. CASE UNCHANGED vars
    BY <1>1 DEF vars
<1>2. CASE Ask
    <2>1. question' \in Questions /\ raw' = raw /\ raw = Empty
        BY <1>2 DEF Ask
    <2> QED
        BY <2>1, QuestionsAssumption, EmptyIsText DEF IsQuestion
<1>3. ASSUME NEW p, NEW t, NEW list, pass' = After(p, t, list), p # "record"
      PROVE  pass' \notin {"idle", "retrieving"}
    <2>1. After(p, t, list) \in {Passes[i] : i \in 1 .. 9}
        BY <1>3, NextPassIsWanted
    <2> QED
        BY <1>3, <2>1, PassesAre
<1>4. CASE Write
    <2>1. question' = question /\ raw' \in Text(question.asked)
        BY <1>4, EmptyIsText DEF Write, Extracts
    <2>2. pass' \notin {"idle", "retrieving"}
        BY <1>3, <1>4 DEF Write
    <2> QED
        BY <2>1, <2>2
<1>5. ASSUME NEW t \in Text(question.asked), NEW list, Judge(t, list), question' = question
      PROVE  RawIsText'
    <2>1. pass' \notin {"idle", "retrieving"}
        BY <1>3, <1>5 DEF Judge
    <2> QED
        BY <1>5, <2>1 DEF Judge
<1>6. CASE Overflows \/ Drafted \/ DraftDies \/ DraftUnserved
    <2>1. question' = question /\ pass = "draft"
        BY <1>6 DEF Overflows, Drafted, DraftDies, DraftUnserved
    <2>2. (\E t \in Text(question.asked) : \E list : Judge(t, list)) \/ UNCHANGED <<pass, raw>>
        BY <1>6, EmptyIsText DEF Overflows, Drafted, DraftDies, DraftUnserved
    <2> QED
        BY <1>5, <2>1, <2>2
<1>7. CASE Redraft
    <2>1. question' = question /\ raw' \in Text(question.asked)
        BY <1>7 DEF Redraft
    <2> QED
        BY <1>3, <1>7, <2>1 DEF Redraft
<1>8. CASE Recover \/ Verify \/ Correct \/ Probe
    <2>1. question' = question /\ raw' \in Text(question.asked) /\ pass # "record"
        BY <1>8 DEF Recover, Verify, Correct, Corrections, Probe, Adopt
    <2>2. pass' \notin {"idle", "retrieving"}
        BY <1>3, <1>8, <2>1 DEF Recover, Verify, Correct, Probe, Adopt
    <2> QED
        BY <2>1, <2>2
<1>9. CASE Record \/ Close \/ Throw
    BY <1>9, EmptyIsText DEF Record, Close, Throw, Over, Nothing
<1>10. CASE Stop
    BY <1>10 DEF Stop
<1> QED
    BY <1>1, <1>2, <1>4, <1>6, <1>7, <1>8, <1>9, <1>10 DEF Next

\* What covers a question of two parts or more states all of them; one of a
\* single part is covered by every text.
LEMMA CoveringStatesAll ==
    ASSUME NEW t, NEW draft, draft.states \subseteq question.asked, Covers(t), ~Covers(draft)
    PROVE  draft.states \subseteq t.states
BY DEF Covers

(* A rewriting of a draft that is no transcription answers at least as many   *)
(* parts of the question (prompt.ts, when a draft may be replaced).           *)
THEOREM RewritingKeepsParts == Spec => AuditKeepsParts
<1> DEFINE Keeps ==
        ~Copied(raw) /\ pass \in {"recovery", "verification"} =>
            Cardinality(raw'.states) >= Cardinality(raw.states)
<1>1. RawIsText /\ [Next]_vars => [Keeps]_vars
    <2> SUFFICES ASSUME RawIsText, Next, ~Copied(raw), pass \in {"recovery", "verification"}
                 PROVE  Cardinality(raw'.states) >= Cardinality(raw.states)
        OBVIOUS
    <2>1. \A t \in Text(question.asked) : IsFiniteSet(t.states) /\ t.states \subseteq question.asked
        <3>1. IsFiniteSet(Kinds)
            <4>1. \A p \in Kinds : IsFiniteSet({p})
                BY FS_Singleton
            <4>2. IsFiniteSet({"contact"} \cup {"duration"})
                BY <4>1, FS_Union DEF Kinds
            <4>3. IsFiniteSet({"schedule"} \cup {"person"})
                BY <4>1, FS_Union DEF Kinds
            <4>4. IsFiniteSet(({"contact"} \cup {"duration"}) \cup ({"schedule"} \cup {"person"}))
                BY <4>2, <4>3, FS_Union
            <4>5. IsFiniteSet((({"contact"} \cup {"duration"}) \cup ({"schedule"} \cup {"person"})) \cup {"amount"})
                BY <4>1, <4>4, FS_Union DEF Kinds
            <4>6. Kinds = (({"contact"} \cup {"duration"}) \cup ({"schedule"} \cup {"person"})) \cup {"amount"}
                BY DEF Kinds
            <4> QED
                BY <4>5, <4>6
        <3> QED
            BY <3>1, FS_Subset DEF RawIsText, Text
    <2>2. \A t \in Text(question.asked) : Cardinality(t.states) \in Nat
        BY <2>1, FS_CardinalityType
    <2>3. ASSUME NEW t \in Text(question.asked), raw' = t,
                 t = raw \/ VerificationCanReplace(raw, t) \/ (Covers(t) /\ ~Covers(raw))
          PROVE  Cardinality(raw'.states) >= Cardinality(raw.states)
        <3>1. CASE t = raw
            BY <2>2, <2>3, <3>1 DEF RawIsText
        <3>2. CASE VerificationCanReplace(raw, t)
            BY <2>3, <3>2 DEF VerificationCanReplace
        <3>3. CASE Covers(t) /\ ~Covers(raw)
            <4>1. raw.states \subseteq t.states
                BY <2>1, <3>3, CoveringStatesAll DEF RawIsText
            <4>2. Cardinality(raw.states) <= Cardinality(t.states)
                BY <2>1, <4>1, FS_Subset
            <4> QED
                BY <2>2, <2>3, <4>2 DEF RawIsText
        <3> QED
            BY <2>3, <3>1, <3>2, <3>3
    <2>4. CASE Recover
        BY <2>3, <2>4 DEF Recover, Adopt, RecoveryCanReplace
    <2>5. CASE Verify
        BY <2>3, <2>5 DEF Verify, Adopt
    <2>6. CASE Stop
        BY <2>2, <2>6 DEF Stop, RawIsText
    <2> QED
        BY <2>4, <2>5, <2>6 DEF Next, Ask, Write, Overflows, Drafted, DraftDies, DraftUnserved, Redraft,
                                Correct, Corrections, Probe, Record, Close, Throw
<1>2. Init => RawIsText
    BY EmptyIsText DEF Init, RawIsText, Nothing
<1>3. IInv /\ RawIsText /\ [Next]_vars => RawIsText'
    BY RawIsTextKept
<1> QED
    BY <1>1, <1>2, <1>3, InitIInv, NextIInv, PTL DEF Spec, AuditKeepsParts
=============================================================================
