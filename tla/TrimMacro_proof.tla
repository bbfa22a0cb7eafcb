--------------------------- MODULE TrimMacro_proof ---------------------------
(* Proofs about TrimMacro, for any line of places and checkpoints, any keys and
   recordings of any length: a macro that trimmacro has cut plays as recorded, is
   whole after the last death and loses nothing but detours.  Where the player goes
   from checkpoint to checkpoint it does not jump either. *)
EXTENDS TrimMacro, FiniteSetTheorems, WellFoundedInduction, TLAPS

-------------------------------------------------------------------------------
(* Least and greatest numbers, and induction over a set *)

(* A set of naturals that is not empty has a least member. *)
LEMMA Least ==
    ASSUME NEW S, S \subseteq Nat, S # {}
    PROVE  Min(S) \in S /\ \A y \in S : Min(S) <= y
<1>1. PICK x \in S : \A y \in S : ~ (<<y, x>> \in OpToRel(<, Nat))
    BY NatLessThanWellFounded, WFMin
<1>2. ASSUME NEW y \in S PROVE x <= y
    <2>1. <<y, x>> \notin OpToRel(<, Nat)
        BY <1>1
    <2>2. ~(y < x)
        BY <2>1 DEF OpToRel
    <2> QED
        BY <2>2
<1> QED
    BY <1>2 DEF Min

(* What holds of 0 and passes on to the next number holds up to N. *)
LEMMA Induction ==
    ASSUME NEW N \in Nat, NEW G, 0 \in G,
           \A n \in 0 .. N - 1 : n \in G => n + 1 \in G
    PROVE  \A n \in 0 .. N : n \in G
<1> DEFINE B == {n \in 0 .. N : n \notin G}
<1>1. SUFFICES ASSUME B # {} PROVE FALSE
    OBVIOUS
<1>2. Min(B) \in B /\ \A y \in B : Min(B) <= y
    <2> B \subseteq Nat
        OBVIOUS
    <2> QED
        BY <1>1, Least
<1>3. Min(B) # 0 /\ Min(B) - 1 \in 0 .. N - 1
    BY <1>2
<1>4. Min(B) - 1 \notin B
    BY <1>2, <1>3
<1>5. Min(B) - 1 \in G
    BY <1>3, <1>4
<1>6. Min(B) - 1 + 1 \in G
    BY <1>3, <1>5
<1>7. Min(B) - 1 + 1 = Min(B)
    BY <1>2
<1> HIDE DEF B
<1> QED
    BY <1>2, <1>6, <1>7 DEF B

(* A set of integers with a bound above that is not empty has a greatest member. *)
LEMMA Greatest ==
    ASSUME NEW S, S \subseteq Int, S # {}, NEW b \in Int, \A y \in S : y <= b
    PROVE  Max(S) \in S /\ \A y \in S : Max(S) >= y
<1> DEFINE T == {b - y : y \in S}
<1>1. T \subseteq Nat /\ T # {}
    <2>1. ASSUME NEW t \in T PROVE t \in Nat
        <3>1. PICK y \in S : t = b - y
            OBVIOUS
        <3>2. y \in Int /\ y <= b
            OBVIOUS
        <3> QED
            BY <3>1, <3>2
    <2> QED
        BY <2>1
<1> HIDE DEF T
<1>2. Min(T) \in T /\ \A z \in T : Min(T) <= z
    BY <1>1, Least
<1>3. PICK x \in S : Min(T) = b - x
    BY <1>2 DEF T
<1>4. ASSUME NEW y \in S PROVE x >= y
    <2>1. b - y \in T
        BY DEF T
    <2> QED
        BY <1>2, <1>3, <2>1
<1> QED
    BY <1>3, <1>4 DEF Max

-------------------------------------------------------------------------------
(* Stretches of dead frames *)

(* A stretch ends with the first frame after it in which there is a player. *)
LEMMA RunEndFacts ==
    ASSUME NEW m, m.length \in Nat, NEW s \in Frames(m)
    PROVE  /\ RunEnd(m, s) \in s .. m.length
           /\ RunEnd(m, s) < m.length => Alive(m, RunEnd(m, s))
           /\ \A f \in s .. RunEnd(m, s) - 1 : ~Alive(m, f)
<1> DEFINE E == {f \in s .. m.length : f = m.length \/ Alive(m, f)}
<1>1. E \subseteq Nat /\ E # {}
    <2>1. m.length \in E
        BY DEF Frames
    <2> QED
        BY <2>1 DEF Frames
<1>2. RunEnd(m, s) = Min(E)
    BY DEF RunEnd
<1> HIDE DEF E
<1>3. RunEnd(m, s) \in E /\ \A y \in E : RunEnd(m, s) <= y
    BY <1>1, <1>2, Least
<1>4. ASSUME NEW f \in s .. RunEnd(m, s) - 1 PROVE ~Alive(m, f)
    <2>2. s \in Nat
        BY DEF Frames
    <2>3. RunEnd(m, s) \in Nat
        BY <1>1, <1>3
    <2>0. RunEnd(m, s) \in Nat /\ s \in Nat
        BY <2>2, <2>3
    <2>1. f \notin E
        BY <1>3, <2>0
    <2> QED
        BY <1>3, <2>1 DEF E, Frames
<1> QED
    BY <1>3, <1>4 DEF E, Frames

(* Where one begins the frame before it is alive or there is none. *)
LEMMA StretchFacts ==
    ASSUME NEW m, m.length \in Nat, NEW s \in DeadStarts(m)
    PROVE  /\ s \in Frames(m) /\ s \in Nat /\ s < m.length
           /\ RunEnd(m, s) \in s + 1 .. m.length
           /\ RunEnd(m, s) < m.length => Alive(m, RunEnd(m, s))
           /\ \A f \in s .. RunEnd(m, s) - 1 : ~Alive(m, f)
           /\ s = 0 \/ Alive(m, s - 1)
<1>1. s \in Frames(m) /\ s \in Nat /\ s < m.length /\ ~Alive(m, s) /\ (s = 0 \/ Alive(m, s - 1))
    BY DEF DeadStarts, Frames
<1>2. /\ RunEnd(m, s) \in s .. m.length
      /\ RunEnd(m, s) < m.length => Alive(m, RunEnd(m, s))
      /\ \A f \in s .. RunEnd(m, s) - 1 : ~Alive(m, f)
    BY <1>1, RunEndFacts
<1>3. RunEnd(m, s) # s
    BY <1>1, <1>2
<1> QED
    BY <1>1, <1>2, <1>3

(* They follow one another. *)
LEMMA StretchesInOrder ==
    ASSUME NEW m, m.length \in Nat, NEW s \in DeadStarts(m), NEW z \in DeadStarts(m), s < z
    PROVE  RunEnd(m, s) < z
<1>1. s \in Nat /\ z \in Nat /\ RunEnd(m, s) \in Nat
    BY StretchFacts
<1>2. Alive(m, z - 1)
    BY <1>1, StretchFacts
<1>3. z - 1 \notin s .. RunEnd(m, s) - 1
    BY <1>2, StretchFacts
<1> QED
    BY <1>1, <1>3

(* Every dead frame is in one. *)
LEMMA DeadFrame ==
    ASSUME NEW m, m.length \in Nat, NEW f \in Frames(m), ~Alive(m, f)
    PROVE  \E s \in DeadStarts(m) : f \in s .. RunEnd(m, s) - 1
<1> DEFINE B == {s \in 0 .. f : \A g \in s .. f : ~Alive(m, g)}
<1>0. f \in Nat /\ f < m.length
    BY DEF Frames
<1>1. B \subseteq Nat /\ f \in B
    BY <1>0
<1>2. PICK s \in B : \A y \in B : s <= y
    BY <1>1, Least
<1>3. s \in 0 .. f /\ \A g \in s .. f : ~Alive(m, g)
    BY <1>2
<1>4. s = 0 \/ Alive(m, s - 1)
    <2>1. SUFFICES ASSUME s # 0, ~Alive(m, s - 1) PROVE FALSE
        OBVIOUS
    <2>2. s - 1 \in 0 .. f /\ \A g \in s - 1 .. f : ~Alive(m, g)
        <3>1. s - 1 \in 0 .. f /\ \A g \in s - 1 .. f : g = s - 1 \/ g \in s .. f
            BY <1>0, <1>3, <2>1
        <3> QED
            BY <1>3, <2>1, <3>1
    <2>3. s - 1 \in B
        BY <2>2
    <2> QED
        BY <1>2, <1>3, <2>3
<1>5. s \in DeadStarts(m)
    BY <1>0, <1>3, <1>4 DEF DeadStarts, Frames
<1>6. RunEnd(m, s) > f
    <2>1. RunEnd(m, s) \in s + 1 .. m.length /\ (RunEnd(m, s) < m.length => Alive(m, RunEnd(m, s)))
        BY <1>5, StretchFacts
    <2> QED
        BY <1>0, <1>3, <2>1
<1>7. f \in s .. RunEnd(m, s) - 1
    <2>1. RunEnd(m, s) \in s + 1 .. m.length
        BY <1>5, StretchFacts
    <2> QED
        BY <1>0, <1>3, <1>6, <2>1
<1> QED
    BY <1>5, <1>7

-------------------------------------------------------------------------------
(* Frames in order *)

(* The members of F below f, in order: the result of the loop after f frames. *)
Sorted(q, F, f) ==
    /\ q \in Seq(Nat)
    /\ \A i \in 1 .. Len(q) : q[i] \in F /\ q[i] < f
    /\ \A i, j \in 1 .. Len(q) : i < j => q[i] < q[j]
    /\ \A x \in F : x < f => \E i \in 1 .. Len(q) : q[i] = x
    /\ Len(q) <= f

(* One frame further. *)
LEMMA SortedStep ==
    ASSUME NEW F, F \subseteq Nat, NEW f \in Nat, NEW q, Sorted(q, F, f)
    PROVE  Sorted(IF f \in F THEN Append(q, f) ELSE q, F, f + 1)
<1>1. q \in Seq(Nat) /\ Len(q) \in Nat /\ Len(q) <= f
    BY DEF Sorted
<1>2. CASE f \notin F
    <2>1. \A x \in F : x < f + 1 => x < f
        BY <1>2
    <2>2. \A i \in 1 .. Len(q) : q[i] \in Nat
        BY <1>1
    <2> QED
        BY <1>1, <1>2, <2>1, <2>2 DEF Sorted
<1>3. CASE f \in F
    <2> DEFINE r == Append(q, f)
    <2>1. /\ r \in Seq(Nat) /\ Len(r) = Len(q) + 1 /\ r[Len(q) + 1] = f
          /\ \A i \in 1 .. Len(q) : r[i] = q[i] /\ q[i] \in Nat
        BY <1>1
    <2> HIDE DEF r
    <2>2. \A i \in 1 .. Len(r) : i \in 1 .. Len(q) \/ i = Len(q) + 1
        BY <1>1, <2>1
    <2>3. \A i \in 1 .. Len(q) : q[i] \in F /\ q[i] < f
        BY DEF Sorted
    <2>4. \A i \in 1 .. Len(r) : r[i] \in F /\ r[i] < f + 1
        BY <1>3, <2>1, <2>2, <2>3
    <2>5. ASSUME NEW i \in 1 .. Len(r), NEW j \in 1 .. Len(r), i < j PROVE r[i] < r[j]
        <3>1. i \in 1 .. Len(q)
            BY <1>1, <2>1, <2>2, <2>5
        <3>2. CASE j = Len(q) + 1
            BY <2>1, <2>3, <3>1, <3>2
        <3>3. CASE j \in 1 .. Len(q)
            BY <2>1, <2>5, <3>1, <3>3 DEF Sorted
        <3> QED
            BY <2>2, <3>2, <3>3
    <2>6. ASSUME NEW x \in F, x < f + 1 PROVE \E i \in 1 .. Len(r) : r[i] = x
        <3>1. CASE x = f
            <4>1. Len(q) + 1 \in 1 .. Len(r)
                BY <1>1, <2>1
            <4> QED
                BY <2>1, <3>1, <4>1
        <3>2. CASE x # f
            <4>1. x < f
                BY <2>6, <3>2
            <4>2. PICK i \in 1 .. Len(q) : q[i] = x
                BY <4>1 DEF Sorted
            <4>3. i \in 1 .. Len(r)
                BY <1>1, <2>1
            <4> QED
                BY <2>1, <4>2, <4>3
        <3> QED
            BY <3>1, <3>2
    <2>7. Len(r) <= f + 1
        BY <1>1, <2>1
    <2>8. Sorted(r, F, f + 1)
        BY <2>1, <2>4, <2>5, <2>6, <2>7 DEF Sorted
    <2> QED
        BY <1>3, <2>8 DEF r
<1> QED
    BY <1>2, <1>3

(* The loop over the frames, as far as frame k. *)
IsLoop(g, F, k) ==
    g = [f \in 0 .. k |->
           IF f = 0 THEN <<>>
           ELSE IF f - 1 \in F THEN Append(g[f - 1], f - 1) ELSE g[f - 1]]

(* The recursion has a solution. *)
LEMMA LoopExists ==
    ASSUME NEW F, NEW N \in Nat
    PROVE  \E g : IsLoop(g, F, N)
<1> DEFINE G == {k \in 0 .. N : \E g : IsLoop(g, F, k)}
<1>1. 0 \in G
    <2> DEFINE g == [f \in 0 .. 0 |-> <<>>]
    <2>1. IsLoop(g, F, 0)
        BY DEF IsLoop
    <2> QED
        BY <2>1
<1>2. ASSUME NEW k \in 0 .. N - 1, k \in G PROVE k + 1 \in G
    <2>1. PICK g : IsLoop(g, F, k)
        BY <1>2
    <2> DEFINE last == IF k \in F THEN Append(g[k], k) ELSE g[k]
               h == [f \in 0 .. k + 1 |-> IF f <= k THEN g[f] ELSE last]
    <2>2. ASSUME NEW f \in 0 .. k + 1
          PROVE  h[f] = IF f = 0 THEN <<>>
                        ELSE IF f - 1 \in F THEN Append(h[f - 1], f - 1) ELSE h[f - 1]
        <3>1. CASE f = 0
            BY <2>1, <3>1 DEF IsLoop
        <3>2. CASE f # 0 /\ f <= k
            <4>1. h[f] = g[f] /\ h[f - 1] = g[f - 1] /\ f \in 0 .. k
                BY <3>2
            <4> HIDE DEF h
            <4> QED
                BY <2>1, <3>2, <4>1 DEF IsLoop
        <3>3. CASE f = k + 1
            <4>1. h[f] = last /\ h[f - 1] = g[k] /\ f - 1 = k /\ f # 0
                BY <3>3
            <4> HIDE DEF h
            <4> QED
                BY <4>1
        <3> QED
            BY <3>1, <3>2, <3>3
    <2>3. IsLoop(h, F, k + 1)
        <3> HIDE DEF last
        <3> QED
            BY <2>2 DEF IsLoop
    <2> QED
        BY <2>3
<1> HIDE DEF G
<1>3. \A k \in 0 .. N : k \in G
    BY <1>1, <1>2, Induction
<1> QED
    BY <1>3 DEF G

(* InOrder lists the frames it is given, each once, the least first. *)
LEMMA InOrderFacts ==
    ASSUME NEW m, m.length \in Nat, NEW F, F \subseteq Frames(m)
    PROVE  Sorted(InOrder(m, F), F, m.length)
<1> DEFINE N == m.length
           L == CHOOSE g : IsLoop(g, F, N)
<1>1. InOrder(m, F) = L[N]
    BY DEF InOrder, IsLoop
<1>2. IsLoop(L, F, N)
    BY LoopExists
<1>3. F \subseteq Nat
    BY DEF Frames
<1> HIDE DEF L
<1> DEFINE G == {f \in 0 .. N : Sorted(L[f], F, f)}
<1>4. 0 \in G
    <2>1. L[0] = <<>>
        BY <1>2 DEF IsLoop
    <2>2. Sorted(<<>>, F, 0)
        BY <1>3 DEF Sorted
    <2> QED
        BY <2>1, <2>2
<1>5. ASSUME NEW f \in 0 .. N - 1, f \in G PROVE f + 1 \in G
    <2>1. L[f + 1] = IF f \in F THEN Append(L[f], f) ELSE L[f]
        <3>1. f + 1 \in 0 .. N /\ f + 1 # 0 /\ f + 1 - 1 = f
            OBVIOUS
        <3>2. \A x \in 0 .. N : x # 0 => L[x] = IF x - 1 \in F THEN Append(L[x - 1], x - 1) ELSE L[x - 1]
            BY <1>2 DEF IsLoop
        <3> QED
            BY <3>1, <3>2
    <2>2. Sorted(L[f], F, f) /\ f \in Nat
        BY <1>5
    <2>3. Sorted(L[f + 1], F, f + 1)
        BY <1>3, <2>1, <2>2, SortedStep
    <2> QED
        BY <2>3
<1> HIDE DEF G
<1>6. \A f \in 0 .. N : f \in G
    BY <1>4, <1>5, Induction
<1> QED
    BY <1>1, <1>6 DEF G

-------------------------------------------------------------------------------
(* Clusters *)

(* A macro with as many icons as frames. *)
Body(m) == m.length \in Nat /\ m.icon \in [Frames(m) -> Places \cup {Dead}]

Answered(m) == {s \in Deaths(m) : RunEnd(m, s) < m.length}

Cluster == [x : Places, firstdeath : Nat, tlast : Nat]

(* A cluster reaches from one death to the respawn after this or a later one,
   about where the respawn after the first was. *)
Spans(m, c, D) ==
    \E s, z \in D :
        /\ s <= z /\ c.firstdeath = s /\ c.tlast = RunEnd(m, z)
        /\ c.x = m.icon[RunEnd(m, s)]
        /\ Dist(m.icon[RunEnd(m, z)], c.x) <= Near

(* A death and its respawn are inside a cluster. *)
Holds(m, c, s) ==
    /\ c.firstdeath <= s /\ RunEnd(m, s) <= c.tlast
    /\ Dist(m.icon[RunEnd(m, s)], c.x) <= Near

(* The clusters of the deaths in D. *)
Clustered(m, cs, D) ==
    /\ cs \in Seq(Cluster)
    /\ \A i \in 1 .. Len(cs) : Spans(m, cs[i], D)
    /\ \A s \in D : \E i \in 1 .. Len(cs) : Holds(m, cs[i], s)
    /\ \A i, j \in 1 .. Len(cs) : i # j => Dist(cs[i].x, cs[j].x) > Near

(* Distances do not depend on the direction. *)
LEMMA DistSymmetric ==
    ASSUME NEW a \in Nat, NEW b \in Nat
    PROVE  Dist(a, b) \in Nat /\ Dist(a, b) = Dist(b, a)
BY DEF Dist

(* Whoever is at a place is near it. *)
LEMMA DistHere ==
    ASSUME NEW a \in Nat
    PROVE  Dist(a, a) <= Near
BY DEF Dist, Near

(* The place of a player who is there. *)
LEMMA AlivePlace ==
    ASSUME NEW m, Body(m), NEW f \in Frames(m), Alive(m, f)
    PROVE  m.icon[f] \in Places /\ m.icon[f] \in Nat
BY PlacesAssumption DEF Body, Alive

(* A death that was answered by a respawn. *)
LEMMA AnsweredFacts ==
    ASSUME NEW m, Body(m), NEW s \in Answered(m)
    PROVE  /\ s \in DeadStarts(m) /\ s \in Nat /\ RunEnd(m, s) \in Nat
           /\ s < RunEnd(m, s) /\ RunEnd(m, s) < m.length /\ RunEnd(m, s) \in Frames(m)
           /\ Alive(m, RunEnd(m, s)) /\ ~Alive(m, RunEnd(m, s) - 1)
           /\ m.icon[RunEnd(m, s)] \in Places /\ m.icon[RunEnd(m, s)] \in Nat
<1>1. s \in DeadStarts(m) /\ RunEnd(m, s) < m.length /\ m.length \in Nat
    BY DEF Answered, Deaths, Body
<1>2. /\ s \in Nat /\ RunEnd(m, s) \in s + 1 .. m.length
      /\ Alive(m, RunEnd(m, s))
      /\ \A f \in s .. RunEnd(m, s) - 1 : ~Alive(m, f)
    BY <1>1, StretchFacts
<1>3. /\ RunEnd(m, s) \in Nat /\ s < RunEnd(m, s) /\ RunEnd(m, s) \in Frames(m)
      /\ RunEnd(m, s) - 1 \in s .. RunEnd(m, s) - 1
    BY <1>1, <1>2 DEF Frames
<1>4. m.icon[RunEnd(m, s)] \in Places /\ m.icon[RunEnd(m, s)] \in Nat
    BY <1>2, <1>3, AlivePlace
<1> QED
    BY <1>1, <1>2, <1>3, <1>4

(* A later death is answered later. *)
LEMMA AnsweredInOrder ==
    ASSUME NEW m, Body(m), NEW s \in Answered(m), NEW z \in Answered(m), s <= z
    PROVE  RunEnd(m, s) <= RunEnd(m, z)
<1>1. /\ s \in DeadStarts(m) /\ z \in DeadStarts(m) /\ s \in Nat /\ z \in Nat
      /\ RunEnd(m, s) \in Nat /\ RunEnd(m, z) \in Nat /\ z < RunEnd(m, z)
    BY AnsweredFacts
<1>2. CASE s = z
    BY <1>1, <1>2
<1>3. CASE s < z
    <2>1. RunEnd(m, s) < z
        BY <1>1, <1>3, StretchesInOrder DEF Body
    <2> QED
        BY <1>1, <2>1
<1> QED
    BY <1>1, <1>2, <1>3

(* The clusters widen when one more death is taken in. *)
LEMMA SpansMore ==
    ASSUME NEW m, NEW c, NEW D, NEW s, Spans(m, c, D)
    PROVE  Spans(m, c, D \cup {s})
BY DEF Spans

(* A death that begins a cluster of its own. *)
LEMMA ClusterBegins ==
    ASSUME NEW m, Body(m), NEW D, D \subseteq Answered(m), NEW s \in Answered(m),
           NEW cs, Clustered(m, cs, D),
           {i \in DOMAIN cs : Joins(cs[i], Answer(m, s))} = {}
    PROVE  Clustered(m, Append(cs, Answer(m, s)), D \cup {s})
<1> DEFINE r == Answer(m, s)
           ds == Append(cs, r)
<1>1. /\ r \in Cluster /\ r.x = m.icon[RunEnd(m, s)] /\ r.firstdeath = s /\ r.tlast = RunEnd(m, s)
      /\ r.x \in Nat
    BY AnsweredFacts DEF Answer, Cluster
<1>2. /\ cs \in Seq(Cluster) /\ Len(cs) \in Nat /\ DOMAIN cs = 1 .. Len(cs)
      /\ \A i \in 1 .. Len(cs) : cs[i] \in Cluster /\ cs[i].x \in Nat
    <2>1. cs \in Seq(Cluster)
        BY DEF Clustered
    <2>2. \A c \in Cluster : c.x \in Nat
        BY PlacesAssumption DEF Cluster
    <2> QED
        BY <2>1, <2>2
<1>3. \A i \in 1 .. Len(cs) : Dist(cs[i].x, r.x) > Near
    <2>1. \A i \in 1 .. Len(cs) : ~(Dist(cs[i].x, r.x) <= Near)
        BY <1>2 DEF Joins
    <2> HIDE DEF r
    <2>2. \A i \in 1 .. Len(cs) : Dist(cs[i].x, r.x) \in Nat
        BY <1>1, <1>2, DistSymmetric
    <2> QED
        BY <2>1, <2>2 DEF Near
<1> HIDE DEF r
<1>4. /\ ds \in Seq(Cluster) /\ Len(ds) = Len(cs) + 1 /\ ds[Len(cs) + 1] = r
      /\ \A i \in 1 .. Len(cs) : ds[i] = cs[i]
    BY <1>1, <1>2
<1>5. \A i \in 1 .. Len(ds) : i \in 1 .. Len(cs) \/ i = Len(cs) + 1
    BY <1>2, <1>4
<1> HIDE DEF ds
<1>6. Dist(r.x, r.x) <= Near
    BY <1>1, DistHere
<1>7. Spans(m, r, D \cup {s})
    <2>1. RunEnd(m, s) \in Nat /\ s \in Nat
        BY AnsweredFacts
    <2> QED
        BY <1>1, <1>6, <2>1 DEF Spans
<1>8. \A i \in 1 .. Len(ds) : Spans(m, ds[i], D \cup {s})
    <2>1. \A i \in 1 .. Len(cs) : Spans(m, cs[i], D \cup {s})
        BY SpansMore DEF Clustered
    <2> QED
        BY <1>4, <1>5, <1>7, <2>1
<1>9. ASSUME NEW z \in D \cup {s} PROVE \E i \in 1 .. Len(ds) : Holds(m, ds[i], z)
    <2>1. CASE z \in D
        <3>1. PICK i \in 1 .. Len(cs) : Holds(m, cs[i], z)
            BY <2>1 DEF Clustered
        <3>2. i \in 1 .. Len(ds)
            BY <1>2, <1>4
        <3> QED
            BY <1>4, <3>1, <3>2
    <2>2. CASE z = s
        <3>1. Holds(m, r, s)
            <4>1. RunEnd(m, s) \in Nat /\ s \in Nat
                BY AnsweredFacts
            <4> QED
                BY <1>1, <1>6, <4>1 DEF Holds
        <3>2. Len(cs) + 1 \in 1 .. Len(ds)
            BY <1>2, <1>4
        <3> QED
            BY <1>4, <2>2, <3>1, <3>2
    <2> QED
        BY <2>1, <2>2
<1>10. ASSUME NEW i \in 1 .. Len(ds), NEW j \in 1 .. Len(ds), i # j
       PROVE  Dist(ds[i].x, ds[j].x) > Near
    <2>1. CASE i \in 1 .. Len(cs) /\ j \in 1 .. Len(cs)
        BY <1>4, <1>10, <2>1 DEF Clustered
    <2>2. CASE i \in 1 .. Len(cs) /\ j = Len(cs) + 1
        BY <1>3, <1>4, <2>2
    <2>3. CASE i = Len(cs) + 1 /\ j \in 1 .. Len(cs)
        <3>1. Dist(cs[j].x, r.x) > Near /\ Dist(cs[j].x, r.x) = Dist(r.x, cs[j].x)
            BY <1>1, <1>2, <1>3, <2>3, DistSymmetric
        <3>2. ds[i].x = r.x /\ ds[j].x = cs[j].x
            BY <1>4, <2>3
        <3> QED
            BY <3>1, <3>2
    <2> QED
        BY <1>5, <1>10, <2>1, <2>2, <2>3
<1> QED
    BY <1>4, <1>8, <1>9, <1>10 DEF Clustered, ds, r

(* A death that joins a cluster. *)
LEMMA ClusterGrows ==
    ASSUME NEW m, Body(m), NEW D, D \subseteq Answered(m), NEW s \in Answered(m),
           \A z \in D : z < s,
           NEW cs, Clustered(m, cs, D),
           NEW k \in 1 .. Len(cs), Joins(cs[k], Answer(m, s))
    PROVE  Clustered(m, [cs EXCEPT ![k].tlast = Max({@, Answer(m, s).tlast})], D \cup {s})
<1> DEFINE e == RunEnd(m, s)
           ds == [cs EXCEPT ![k].tlast = Max({@, Answer(m, s).tlast})]
<1>1. /\ s \in Nat /\ e \in Nat /\ m.icon[e] \in Places /\ m.icon[e] \in Nat
      /\ Answer(m, s).tlast = e /\ Answer(m, s).x = m.icon[e]
    BY AnsweredFacts DEF Answer
<1>2. /\ cs \in Seq(Cluster) /\ Len(cs) \in Nat /\ DOMAIN cs = 1 .. Len(cs)
      /\ \A i \in 1 .. Len(cs) : cs[i] \in Cluster /\ cs[i].x \in Nat
    <2>1. cs \in Seq(Cluster)
        BY DEF Clustered
    <2>2. \A c \in Cluster : c.x \in Nat
        BY PlacesAssumption DEF Cluster
    <2> QED
        BY <2>1, <2>2
<1>3. PICK a \in D, z \in D :
        /\ a <= z /\ cs[k].firstdeath = a /\ cs[k].tlast = RunEnd(m, z)
        /\ cs[k].x = m.icon[RunEnd(m, a)]
        /\ Dist(m.icon[RunEnd(m, z)], cs[k].x) <= Near
    BY DEF Clustered, Spans
<1>4. z < s /\ a < s /\ RunEnd(m, z) <= e /\ RunEnd(m, z) \in Nat /\ a \in Nat /\ z \in Nat
    <2>1. z \in Answered(m) /\ a \in Answered(m) /\ z < s /\ a < s
        BY <1>3
    <2>2. RunEnd(m, z) \in Nat /\ a \in Nat /\ z \in Nat
        BY <2>1, AnsweredFacts
    <2>3. z <= s
        BY <1>1, <2>1, <2>2
    <2>4. RunEnd(m, z) <= e
        BY <2>1, <2>3, AnsweredInOrder
    <2> QED
        BY <2>1, <2>2, <2>4
<1>5. Max({cs[k].tlast, e}) = e
    <2>1. \A y \in {cs[k].tlast, e} : y \in Int /\ y <= e
        BY <1>1, <1>3, <1>4
    <2>2. Max({cs[k].tlast, e}) \in {cs[k].tlast, e} /\ \A y \in {cs[k].tlast, e} : Max({cs[k].tlast, e}) >= y
        BY <1>1, <2>1, Greatest
    <2> QED
        BY <1>1, <2>1, <2>2
<1>6. ds = [cs EXCEPT ![k].tlast = e]
    BY <1>1, <1>2, <1>5
<1>7. /\ ds \in Seq(Cluster) /\ Len(ds) = Len(cs)
      /\ \A i \in 1 .. Len(cs) : ds[i].x = cs[i].x /\ ds[i].firstdeath = cs[i].firstdeath
      /\ \A i \in 1 .. Len(cs) : i # k => ds[i] = cs[i]
      /\ ds[k].tlast = e
    <2> DEFINE c == [cs[k] EXCEPT !.tlast = e]
    <2>1. c \in Cluster /\ c.x = cs[k].x /\ c.firstdeath = cs[k].firstdeath /\ c.tlast = e
        BY <1>1, <1>2 DEF Cluster
    <2> HIDE DEF c
    <2>2. ds = [cs EXCEPT ![k] = c]
        BY <1>6 DEF c
    <2> HIDE DEF ds
    <2>3. /\ ds \in Seq(Cluster) /\ Len(ds) = Len(cs) /\ ds[k] = c
          /\ \A i \in 1 .. Len(cs) : i # k => ds[i] = cs[i]
        BY <1>2, <2>1, <2>2
    <2> QED
        BY <2>1, <2>3
<1> HIDE DEF ds
<1>8. Dist(m.icon[e], cs[k].x) <= Near
    <2>1. Dist(cs[k].x, m.icon[e]) <= Near
        BY <1>1 DEF Joins
    <2> QED
        BY <1>1, <1>2, <2>1, DistSymmetric
<1>9. ASSUME NEW i \in 1 .. Len(ds) PROVE Spans(m, ds[i], D \cup {s})
    <2>1. CASE i = k
        <3>1. /\ a <= s /\ ds[k].firstdeath = a /\ ds[k].tlast = RunEnd(m, s)
              /\ ds[k].x = m.icon[RunEnd(m, a)]
              /\ Dist(m.icon[RunEnd(m, s)], ds[k].x) <= Near
            BY <1>1, <1>3, <1>4, <1>7, <1>8
        <3>2. a \in D \cup {s} /\ s \in D \cup {s}
            OBVIOUS
        <3> QED
            BY <2>1, <3>1, <3>2 DEF Spans
    <2>2. CASE i # k
        <3>1. i \in 1 .. Len(cs) /\ Spans(m, cs[i], D)
            BY <1>7 DEF Clustered
        <3> QED
            BY <1>7, <2>2, <3>1, SpansMore
    <2> QED
        BY <2>1, <2>2
<1>10. ASSUME NEW d \in D \cup {s} PROVE \E i \in 1 .. Len(ds) : Holds(m, ds[i], d)
    <2>1. CASE d \in D
        <3>1. PICK i \in 1 .. Len(cs) : Holds(m, cs[i], d)
            BY <2>1 DEF Clustered
        <3>2. CASE i # k
            BY <1>7, <3>1, <3>2
        <3>3. CASE i = k
            <4>1. RunEnd(m, d) <= e
                <5>1. d \in Answered(m) /\ d < s
                    BY <2>1
                <5>2. d \in Nat
                    BY <5>1, AnsweredFacts
                <5> QED
                    BY <1>1, <5>1, <5>2, AnsweredInOrder
            <4> QED
                BY <1>7, <3>1, <3>3, <4>1 DEF Holds
        <3> QED
            BY <3>2, <3>3
    <2>2. CASE d = s
        <3>1. Holds(m, ds[k], s)
            BY <1>1, <1>3, <1>4, <1>7, <1>8 DEF Holds
        <3> QED
            BY <1>7, <2>2, <3>1
    <2> QED
        BY <2>1, <2>2
<1>11. \A i, j \in 1 .. Len(ds) : i # j => Dist(ds[i].x, ds[j].x) > Near
    BY <1>7 DEF Clustered
<1> QED
    BY <1>7, <1>9, <1>10, <1>11 DEF Clustered, ds

(* One more death. *)
LEMMA ClusterStep ==
    ASSUME NEW m, Body(m), NEW D, D \subseteq Answered(m), NEW s \in Answered(m),
           \A z \in D : z < s, NEW cs, Clustered(m, cs, D)
    PROVE  Clustered(m, WithRespawn(cs, Answer(m, s)), D \cup {s})
<1> DEFINE joined == {i \in DOMAIN cs : Joins(cs[i], Answer(m, s))}
<1>1. CASE joined = {}
    BY <1>1, ClusterBegins DEF WithRespawn
<1>2. CASE joined # {}
    <2>1. joined \subseteq Nat /\ DOMAIN cs = 1 .. Len(cs)
        BY DEF Clustered
    <2>2. Min(joined) \in joined
        BY <1>2, <2>1, Least
    <2>3. Min(joined) \in 1 .. Len(cs) /\ Joins(cs[Min(joined)], Answer(m, s))
        BY <2>1, <2>2
    <2>4. WithRespawn(cs, Answer(m, s)) = [cs EXCEPT ![Min(joined)].tlast = Max({@, Answer(m, s).tlast})]
        BY <1>2 DEF WithRespawn
    <2> HIDE DEF joined
    <2>5. ASSUME NEW k \in 1 .. Len(cs), Joins(cs[k], Answer(m, s))
          PROVE  Clustered(m, [cs EXCEPT ![k].tlast = Max({@, Answer(m, s).tlast})], D \cup {s})
        BY <2>5, ClusterGrows
    <2> QED
        BY <2>3, <2>4, <2>5
<1> QED
    BY <1>1, <1>2

(* The loop over the answered deaths q, as far as the k-th. *)
IsClustering(g, m, q, k) ==
    g = [n \in 0 .. k |-> IF n = 0 THEN <<>> ELSE WithRespawn(g[n - 1], Answer(m, q[n]))]

(* The recursion has a solution. *)
LEMMA ClusteringExists ==
    ASSUME NEW m, NEW q, NEW N \in Nat
    PROVE  \E g : IsClustering(g, m, q, N)
<1> DEFINE G == {k \in 0 .. N : \E g : IsClustering(g, m, q, k)}
<1>1. 0 \in G
    <2> DEFINE g == [n \in 0 .. 0 |-> <<>>]
    <2>1. IsClustering(g, m, q, 0)
        BY DEF IsClustering
    <2> QED
        BY <2>1
<1>2. ASSUME NEW k \in 0 .. N - 1, k \in G PROVE k + 1 \in G
    <2>1. PICK g : IsClustering(g, m, q, k)
        BY <1>2
    <2> DEFINE last == WithRespawn(g[k], Answer(m, q[k + 1]))
               h == [n \in 0 .. k + 1 |-> IF n <= k THEN g[n] ELSE last]
    <2>2. ASSUME NEW n \in 0 .. k + 1
          PROVE  h[n] = IF n = 0 THEN <<>> ELSE WithRespawn(h[n - 1], Answer(m, q[n]))
        <3>1. CASE n = 0
            BY <2>1, <3>1 DEF IsClustering
        <3>2. CASE n # 0 /\ n <= k
            <4>1. h[n] = g[n] /\ h[n - 1] = g[n - 1] /\ n \in 0 .. k
                BY <3>2
            <4> HIDE DEF h
            <4> QED
                BY <2>1, <3>2, <4>1 DEF IsClustering
        <3>3. CASE n = k + 1
            <4>1. h[n] = last /\ h[n - 1] = g[k] /\ n # 0
                BY <3>3
            <4> HIDE DEF h
            <4> QED
                BY <3>3, <4>1
        <3> QED
            BY <3>1, <3>2, <3>3
    <2>3. IsClustering(h, m, q, k + 1)
        <3> HIDE DEF last
        <3> QED
            BY <2>2 DEF IsClustering
    <2> QED
        BY <2>3
<1> HIDE DEF G
<1>3. \A k \in 0 .. N : k \in G
    BY <1>1, <1>2, Induction
<1> QED
    BY <1>3 DEF G

(* Every answered death is in a cluster, every cluster reaches from a death to a
   respawn, and no two clusters are at about the same place. *)
LEMMA ClustersFacts ==
    ASSUME NEW m, Body(m)
    PROVE  Clustered(m, Clusters(m), Answered(m))
<1> DEFINE F == Answered(m)
           q == InOrder(m, F)
           N == Len(q)
           L == CHOOSE g : IsClustering(g, m, q, N)
<1>1. m.length \in Nat /\ F \subseteq Frames(m)
    BY DEF Body, Answered, Deaths, DeadStarts
<1>2. Sorted(q, F, m.length)
    BY <1>1, InOrderFacts
<1>3. Clusters(m) = L[N]
    BY DEF Clusters, Answered, IsClustering
<1>4. N \in Nat /\ \A n \in 1 .. N : q[n] \in F
    BY <1>2 DEF Sorted
<1>5. IsClustering(L, m, q, N)
    BY <1>4, ClusteringExists
<1> HIDE DEF L, q, F
<1> DEFINE D(n) == {q[i] : i \in 1 .. n}
           G == {n \in 0 .. N : Clustered(m, L[n], D(n))}
<1>6. 0 \in G
    <2>1. L[0] = <<>>
        BY <1>4, <1>5 DEF IsClustering
    <2>2. D(0) = {}
        OBVIOUS
    <2>3. Clustered(m, <<>>, {})
        BY DEF Clustered
    <2>4. Clustered(m, L[0], D(0))
        BY <2>1, <2>2, <2>3
    <2>5. 0 \in 0 .. N
        BY <1>4
    <2> HIDE DEF D
    <2> QED
        BY <2>4, <2>5
<1>7. ASSUME NEW n \in 0 .. N - 1, n \in G PROVE n + 1 \in G
    <2>1. n + 1 \in 1 .. N /\ n + 1 \in 0 .. N /\ n \in Nat
        BY <1>4
    <2>2. L[n + 1] = WithRespawn(L[n], Answer(m, q[n + 1]))
        <3>1. \A k \in 0 .. N : k # 0 => L[k] = WithRespawn(L[k - 1], Answer(m, q[k]))
            BY <1>5 DEF IsClustering
        <3>2. n + 1 # 0 /\ n + 1 - 1 = n
            BY <2>1
        <3> QED
            BY <2>1, <3>1, <3>2
    <2>3. D(n + 1) = D(n) \cup {q[n + 1]}
        BY <2>1
    <2>4. D(n) \subseteq Answered(m) /\ q[n + 1] \in Answered(m)
        BY <1>4, <2>1 DEF F
    <2>5. \A z \in D(n) : z < q[n + 1]
        <3>1. ASSUME NEW i \in 1 .. n PROVE q[i] < q[n + 1]
            <4>1. i \in 1 .. N /\ i < n + 1
                BY <1>4, <2>1
            <4> QED
                BY <1>2, <2>1, <4>1 DEF Sorted
        <3> QED
            BY <3>1
    <2>6. Clustered(m, L[n], D(n))
        BY <1>7
    <2> HIDE DEF D
    <2>7. Clustered(m, L[n + 1], D(n) \cup {q[n + 1]})
        BY <2>2, <2>4, <2>5, <2>6, ClusterStep
    <2> QED
        BY <2>1, <2>3, <2>7
<1> HIDE DEF G
<1>8. \A n \in 0 .. N : n \in G
    BY <1>4, <1>6, <1>7, Induction
<1>9. Clustered(m, L[N], D(N))
    <2>1. N \in G
        BY <1>4, <1>8
    <2> HIDE DEF D
    <2> QED
        BY <2>1 DEF G
<1>10. D(N) = F
    <2>1. \A x \in F : \E i \in 1 .. N : q[i] = x
        <3>1. \A x \in F : x < m.length
            BY <1>1 DEF Frames
        <3> QED
            BY <1>2, <3>1 DEF Sorted
    <2> QED
        BY <1>4, <2>1
<1> QED
    BY <1>3, <1>9, <1>10 DEF F

(* The same, for one cluster. *)
LEMMA ClusterFacts ==
    ASSUME NEW m, Body(m), NEW c \in ToSet(Clusters(m))
    PROVE  \E s, z \in Answered(m) :
               /\ s <= z /\ c.firstdeath = s /\ c.tlast = RunEnd(m, z)
               /\ c.x = m.icon[RunEnd(m, s)]
               /\ Dist(m.icon[RunEnd(m, z)], c.x) <= Near
<1>1. Clustered(m, Clusters(m), Answered(m))
    BY ClustersFacts
<1>2. PICK i \in 1 .. Len(Clusters(m)) : c = Clusters(m)[i]
    BY <1>1 DEF Clustered, ToSet
<1> QED
    BY <1>1, <1>2 DEF Clustered, Spans

(* The cluster of a death. *)
LEMMA ClusterOf ==
    ASSUME NEW m, Body(m), NEW s \in Answered(m)
    PROVE  \E c \in ToSet(Clusters(m)) : Holds(m, c, s)
<1>1. Clustered(m, Clusters(m), Answered(m))
    BY ClustersFacts
<1>2. PICK i \in 1 .. Len(Clusters(m)) : Holds(m, Clusters(m)[i], s)
    BY <1>1 DEF Clustered
<1>3. Clusters(m)[i] \in ToSet(Clusters(m))
    BY <1>1 DEF Clustered, ToSet
<1> QED
    BY <1>2, <1>3

(* Two clusters at about the same place are one. *)
LEMMA ClustersApart ==
    ASSUME NEW m, Body(m), NEW c \in ToSet(Clusters(m)), NEW d \in ToSet(Clusters(m)),
           ~(Dist(c.x, d.x) > Near)
    PROVE  c = d
<1>1. Clustered(m, Clusters(m), Answered(m))
    BY ClustersFacts
<1>2. PICK i \in 1 .. Len(Clusters(m)) : c = Clusters(m)[i]
    BY <1>1 DEF Clustered, ToSet
<1>3. PICK j \in 1 .. Len(Clusters(m)) : d = Clusters(m)[j]
    BY <1>1 DEF Clustered, ToSet
<1> QED
    BY <1>1, <1>2, <1>3 DEF Clustered

-------------------------------------------------------------------------------
(* What is cut *)

(* The cut of a cluster begins at its first death or after an earlier visit. *)
LEMMA FromFacts ==
    ASSUME NEW m, Body(m), NEW c, c.firstdeath \in Nat, c.firstdeath < m.length, c.x \in Nat
    PROVE  /\ From(m, c) \in 0 .. c.firstdeath
           /\ \/ From(m, c) = c.firstdeath
              \/ /\ From(m, c) - 1 \in 0 .. c.firstdeath - 1
                 /\ Alive(m, From(m, c) - 1) /\ Dist(m.icon[From(m, c) - 1], c.x) <= Far
           /\ (\E f \in 0 .. c.firstdeath - 1 : Alive(m, f) /\ Dist(m.icon[f], c.x) <= Near)
                => /\ From(m, c) - 1 \in 0 .. c.firstdeath - 1
                   /\ Alive(m, From(m, c) - 1) /\ Dist(m.icon[From(m, c) - 1], c.x) <= Near
<1> DEFINE visits(d) == {f \in 0 .. c.firstdeath - 1 : Alive(m, f) /\ Dist(m.icon[f], c.x) <= d}
<1>1. From(m, c) = CASE visits(Near) # {} -> Min(visits(Near)) + 1
                     [] visits(Near) = {} /\ visits(Far) # {} -> Min(visits(Far)) + 1
                     [] OTHER -> c.firstdeath
    BY DEF From
<1>2. \A d : visits(d) \subseteq Nat
    OBVIOUS
<1>3. CASE visits(Near) # {}
    <2>1. From(m, c) = Min(visits(Near)) + 1
        BY <1>1, <1>3
    <2>2. Min(visits(Near)) \in visits(Near)
        BY <1>2, <1>3, Least
    <2>3. /\ Min(visits(Near)) \in 0 .. c.firstdeath - 1 /\ Alive(m, Min(visits(Near)))
          /\ Dist(m.icon[Min(visits(Near))], c.x) <= Near
        BY <2>2
    <2> DEFINE a == Min(visits(Near))
    <2>4. /\ From(m, c) = a + 1 /\ a \in 0 .. c.firstdeath - 1 /\ Alive(m, a)
          /\ Dist(m.icon[a], c.x) <= Near
        BY <2>1, <2>3
    <2> HIDE DEF a
    <2>5. From(m, c) - 1 = a /\ From(m, c) \in 0 .. c.firstdeath
        BY <2>4
    <2>6. Dist(m.icon[a], c.x) <= Far
        <3>1. a \in Frames(m) /\ m.icon[a] \in Nat
            <4>1. a \in Frames(m)
                BY <2>4 DEF Frames, Body
            <4> QED
                BY <2>4, <4>1, AlivePlace
        <3>2. Dist(m.icon[a], c.x) \in Nat
            BY <3>1, DistSymmetric
        <3> QED
            BY <2>4, <3>2 DEF Near, Far
    <2> QED
        BY <2>4, <2>5, <2>6
<1>4. CASE visits(Near) = {} /\ visits(Far) # {}
    <2>1. From(m, c) = Min(visits(Far)) + 1
        BY <1>1, <1>4
    <2>2. Min(visits(Far)) \in visits(Far)
        BY <1>2, <1>4, Least
    <2> DEFINE a == Min(visits(Far))
    <2>4. /\ From(m, c) = a + 1 /\ a \in 0 .. c.firstdeath - 1 /\ Alive(m, a)
          /\ Dist(m.icon[a], c.x) <= Far
        BY <2>1, <2>2
    <2> HIDE DEF a
    <2>5. From(m, c) - 1 = a /\ From(m, c) \in 0 .. c.firstdeath
        BY <2>4
    <2> QED
        BY <1>4, <2>4, <2>5
<1>5. CASE visits(Near) = {} /\ visits(Far) = {}
    <2>1. From(m, c) = c.firstdeath
        BY <1>1, <1>5
    <2> QED
        BY <1>5, <2>1
<1> QED
    BY <1>3, <1>4, <1>5

(* A cut frame is a dead frame, or it lies in a cluster. *)
LEMMA CutFacts ==
    ASSUME NEW m, NEW f \in Frames(m)
    PROVE  f \in Cut(m) <=>
              \/ \E s \in Deaths(m) : f \in s .. RunEnd(m, s) - 1
              \/ \E c \in ToSet(Clusters(m)) : f \in From(m, c) .. c.tlast - 1
BY DEF Cut

(* The kept frames are the others, in order. *)
LEMMA KeptFacts ==
    ASSUME NEW m, Body(m)
    PROVE  /\ Len(Kept(m)) \in 0 .. m.length
           /\ \A i \in 1 .. Len(Kept(m)) :
                 /\ Kept(m)[i] \in Frames(m) \ Cut(m) /\ Kept(m)[i] \in Nat
                 /\ \A j \in 1 .. Len(Kept(m)) : i < j => Kept(m)[i] < Kept(m)[j]
           /\ \A f \in Frames(m) \ Cut(m) : \E i \in 1 .. Len(Kept(m)) : Kept(m)[i] = f
<1> DEFINE F == Frames(m) \ Cut(m)
<1>1. m.length \in Nat /\ F \subseteq Frames(m)
    BY DEF Body
<1>2. Kept(m) = InOrder(m, F)
    BY DEF Kept
<1> HIDE DEF F
<1>3. Sorted(Kept(m), F, m.length)
    BY <1>1, <1>2, InOrderFacts
<1>4. \A f \in F : f < m.length
    BY <1>1 DEF Frames
<1>5. Kept(m) \in Seq(Nat)
    BY <1>3 DEF Sorted
<1>6. Len(Kept(m)) \in Nat /\ \A i \in 1 .. Len(Kept(m)) : Kept(m)[i] \in Nat
    BY <1>5
<1>7. Len(Kept(m)) \in 0 .. m.length
    BY <1>1, <1>3, <1>6 DEF Sorted
<1>8. \A f \in F : \E i \in 1 .. Len(Kept(m)) : Kept(m)[i] = f
    BY <1>3, <1>4 DEF Sorted
<1>9. \A i \in 1 .. Len(Kept(m)) :
                 /\ Kept(m)[i] \in F /\ Kept(m)[i] \in Nat
                 /\ \A j \in 1 .. Len(Kept(m)) : i < j => Kept(m)[i] < Kept(m)[j]
    BY <1>3, <1>6 DEF Sorted
<1> QED
    BY <1>7, <1>8, <1>9 DEF F

(* The trimmed macro has the kept frames' icons. *)
LEMMA TrimIcons ==
    ASSUME NEW m, Deaths(m) # {}
    PROVE  /\ Trim(m).length = Len(Kept(m))
           /\ Trim(m).icon = [n \in 0 .. Len(Kept(m)) - 1 |-> m.icon[Kept(m)[n + 1]]]
BY DEF Trim

(* Which frames of the recorded macro those of the trimmed one were. *)
LEMMA OriginFacts ==
    ASSUME Body(macro), trimmed = Trim(macro)
    PROVE  /\ DOMAIN Origin = Frames(trimmed)
           /\ trimmed.length \in 0 .. macro.length
           /\ \A n \in Frames(trimmed) :
                /\ n \in Nat /\ Origin[n] \in Frames(macro) /\ Origin[n] \in Nat
                /\ trimmed.icon[n] = macro.icon[Origin[n]]
                /\ \A k \in Frames(trimmed) : n < k => Origin[n] < Origin[k]
           /\ Deaths(macro) # {} =>
                {Origin[n] : n \in Frames(trimmed)} = Frames(macro) \ Cut(macro)
           /\ Deaths(macro) = {} =>
                trimmed = macro /\ \A n \in Frames(trimmed) : Origin[n] = n
<1>1. macro.length \in Nat
    BY DEF Body
<1>2. CASE Deaths(macro) = {}
    <2>1. trimmed = macro
        BY <1>2 DEF Trim
    <2>2. Origin = [n \in Frames(macro) |-> n]
        BY <1>2 DEF Origin
    <2> QED
        BY <1>1, <1>2, <2>1, <2>2 DEF Frames
<1>3. CASE Deaths(macro) # {}
    <2> DEFINE q == Kept(macro)
    <2>1. /\ trimmed.length = Len(q)
          /\ trimmed.icon = [n \in 0 .. Len(q) - 1 |-> macro.icon[q[n + 1]]]
        BY <1>3, TrimIcons
    <2>2. Origin = [n \in 0 .. Len(q) - 1 |-> q[n + 1]]
        BY <1>3 DEF Origin
    <2>3. /\ Len(q) \in 0 .. macro.length
          /\ \A i \in 1 .. Len(q) :
                 /\ q[i] \in Frames(macro) \ Cut(macro) /\ q[i] \in Nat
                 /\ \A j \in 1 .. Len(q) : i < j => q[i] < q[j]
          /\ \A f \in Frames(macro) \ Cut(macro) : \E i \in 1 .. Len(q) : q[i] = f
        BY KeptFacts
    <2> HIDE DEF q
    <2>4. Frames(trimmed) = 0 .. Len(q) - 1 /\ Len(q) \in Nat
        BY <1>1, <2>1, <2>3 DEF Frames
    <2>5. \A n \in 0 .. Len(q) - 1 : n + 1 \in 1 .. Len(q) /\ n \in Nat
        BY <2>4
    <2>6. \A n \in Frames(trimmed) :
                /\ n \in Nat /\ Origin[n] \in Frames(macro) \ Cut(macro) /\ Origin[n] \in Nat
                /\ trimmed.icon[n] = macro.icon[Origin[n]]
        BY <2>1, <2>2, <2>3, <2>4, <2>5
    <2>7. ASSUME NEW n \in Frames(trimmed), NEW k \in Frames(trimmed), n < k
          PROVE  Origin[n] < Origin[k]
        <3>1. n + 1 \in 1 .. Len(q) /\ k + 1 \in 1 .. Len(q) /\ n + 1 < k + 1
            BY <2>4, <2>5, <2>7
        <3>2. Origin[n] = q[n + 1] /\ Origin[k] = q[k + 1]
            BY <2>2, <2>4
        <3> QED
            BY <2>3, <3>1, <3>2
    <2>8. ASSUME NEW f \in Frames(macro) \ Cut(macro)
          PROVE  \E n \in Frames(trimmed) : Origin[n] = f
        <3>1. PICK i \in 1 .. Len(q) : q[i] = f
            BY <2>3
        <3>2. i - 1 \in 0 .. Len(q) - 1 /\ i - 1 + 1 = i
            BY <2>4
        <3> QED
            BY <2>2, <2>4, <3>1, <3>2
    <2>9. {Origin[n] : n \in Frames(trimmed)} = Frames(macro) \ Cut(macro)
        BY <2>6, <2>8
    <2> QED
        BY <1>3, <2>1, <2>2, <2>3, <2>4, <2>6, <2>7, <2>9
<1> QED
    BY <1>2, <1>3

-------------------------------------------------------------------------------
(* The last attempt *)

(* What is left of a macro: no death, and everything from the last respawn on. *)
LEMMA LastWhole ==
    ASSUME Body(macro), trimmed = Trim(macro)
    PROVE  LastAttemptWhole
<1> SUFFICES ASSUME Deaths(macro) # {} PROVE LastAttemptWhole
    BY DEF LastAttemptWhole
<1> DEFINE there == {Origin[n] : n \in Frames(trimmed)}
           last  == RunEnd(macro, Max(Deaths(macro)))
           backs == UNION {s .. RunEnd(macro, s) - 1 : s \in DeadStarts(macro) \ Deaths(macro)}
<1>1. macro.length \in Nat /\ there = Frames(macro) \ Cut(macro)
    BY OriginFacts DEF Body
<1>2. \A s \in Deaths(macro) : s \in DeadStarts(macro) /\ s \in Nat /\ s < macro.length
    BY <1>1, StretchFacts DEF Deaths
<1>3. Max(Deaths(macro)) \in Deaths(macro) /\ \A s \in Deaths(macro) : Max(Deaths(macro)) >= s
    <2>1. Deaths(macro) \subseteq Int /\ macro.length \in Int /\ \A s \in Deaths(macro) : s <= macro.length
        BY <1>1, <1>2
    <2> QED
        BY <2>1, Greatest
<1>4. last \in Nat /\ last <= macro.length
    BY <1>1, <1>2, <1>3, StretchFacts
<1>5. ASSUME NEW s \in Deaths(macro) PROVE RunEnd(macro, s) \in Nat /\ RunEnd(macro, s) <= last
    <2>1. RunEnd(macro, s) \in Nat
        BY <1>1, <1>2, StretchFacts
    <2>2. CASE s = Max(Deaths(macro))
        BY <2>1, <2>2
    <2>3. CASE s # Max(Deaths(macro))
        <3> DEFINE z == Max(Deaths(macro))
        <3>1. z \in DeadStarts(macro) /\ s \in DeadStarts(macro) /\ s < z /\ z \in Nat
            BY <1>2, <1>3, <2>3
        <3>2. z < last
            BY <1>1, <3>1, StretchFacts
        <3>3. RunEnd(macro, s) < z
            BY <1>1, <3>1, StretchesInOrder
        <3> HIDE DEF z
        <3> QED
            BY <1>4, <2>1, <3>1, <3>2, <3>3
    <2> QED
        BY <2>2, <2>3
<1>6. ASSUME NEW f \in last .. macro.length - 1 PROVE f \in there
    <2>1. f \in Frames(macro) /\ f \in Nat /\ f >= last
        BY <1>1, <1>4 DEF Frames
    <2>2. ASSUME NEW s \in Deaths(macro), f \in s .. RunEnd(macro, s) - 1 PROVE FALSE
        BY <1>2, <1>4, <1>5, <2>1, <2>2
    <2>3. ASSUME NEW c \in ToSet(Clusters(macro)), f \in From(macro, c) .. c.tlast - 1 PROVE FALSE
        <3>1. PICK z \in Answered(macro) : c.tlast = RunEnd(macro, z)
            BY ClusterFacts
        <3>2. c.tlast \in Nat /\ c.tlast <= last
            BY <1>5, <3>1 DEF Answered
        <3> QED
            BY <1>4, <2>1, <2>3, <3>2
    <2> QED
        BY <1>1, <2>1, <2>2, <2>3, CutFacts
<1>7. ASSUME NEW f \in there PROVE f >= last \/ Alive(macro, f) \/ f \in backs
    <2>1. SUFFICES ASSUME ~Alive(macro, f) PROVE f \in backs
        OBVIOUS
    <2>2. PICK s \in DeadStarts(macro) : f \in s .. RunEnd(macro, s) - 1
        BY <1>1, <2>1, DeadFrame
    <2>3. s \notin Deaths(macro)
        BY <1>1, <2>2, CutFacts
    <2> QED
        BY <2>2, <2>3
<1> HIDE DEF last, there, backs
<1>8. last .. macro.length - 1 \subseteq there
    BY <1>6
<1>9. \A f \in there : f >= last \/ Alive(macro, f) \/ f \in backs
    BY <1>7
<1> QED
    BY <1>8, <1>9 DEF LastAttemptWhole, last, there, backs

-------------------------------------------------------------------------------
(* Detours *)

(* A living frame that was cut lies between a frame and a respawn near it. *)
LEMMA Detours ==
    ASSUME Body(macro), trimmed = Trim(macro)
    PROVE  OnlyDetours
<1> DEFINE there == {Origin[n] : n \in Frames(trimmed)}
<1> SUFFICES ASSUME NEW f \in Frames(macro) \ there, Alive(macro, f)
             PROVE  \E a \in 0 .. f, b \in f + 1 .. macro.length - 1 :
                        /\ Alive(macro, a) /\ Alive(macro, b) /\ ~Alive(macro, b - 1)
                        /\ Dist(macro.icon[a], macro.icon[b]) <= Far
    BY DEF OnlyDetours
<1>1. macro.length \in Nat /\ f \in Nat /\ f < macro.length
    BY DEF Body, Frames
<1>2. Deaths(macro) # {} /\ f \in Cut(macro)
    <2>1. Deaths(macro) # {}
        <3>1. SUFFICES ASSUME Deaths(macro) = {} PROVE f \in there
            OBVIOUS
        <3>2. trimmed = macro /\ \A n \in Frames(trimmed) : Origin[n] = n
            BY <3>1, OriginFacts
        <3> QED
            BY <3>2
    <2>2. there = Frames(macro) \ Cut(macro)
        BY <2>1, OriginFacts
    <2> QED
        BY <2>1, <2>2
<1>3. PICK c \in ToSet(Clusters(macro)) : f \in From(macro, c) .. c.tlast - 1
    <2>1. ASSUME NEW s \in Deaths(macro), f \in s .. RunEnd(macro, s) - 1 PROVE FALSE
        <3>1. s \in DeadStarts(macro)
            BY DEF Deaths
        <3> QED
            BY <1>1, <2>1, <3>1, StretchFacts
    <2> QED
        BY <1>2, <2>1, CutFacts
<1>4. PICK s \in Answered(macro), z \in Answered(macro) :
               /\ s <= z /\ c.firstdeath = s /\ c.tlast = RunEnd(macro, z)
               /\ c.x = macro.icon[RunEnd(macro, s)]
               /\ Dist(macro.icon[RunEnd(macro, z)], c.x) <= Near
    BY ClusterFacts
<1> DEFINE e == RunEnd(macro, s)
           t == RunEnd(macro, z)
<1>5. /\ s \in Nat /\ e \in Nat /\ t \in Nat /\ s < e /\ e <= t
      /\ e < macro.length /\ t < macro.length
      /\ Alive(macro, e) /\ Alive(macro, t) /\ ~Alive(macro, e - 1) /\ ~Alive(macro, t - 1)
      /\ macro.icon[e] \in Nat /\ macro.icon[t] \in Nat
      /\ s \in DeadStarts(macro)
    BY <1>4, AnsweredFacts, AnsweredInOrder
<1>6. f < t
    BY <1>1, <1>3, <1>4, <1>5
<1>7. \A g \in s .. e - 1 : ~Alive(macro, g)
    BY <1>1, <1>5, StretchFacts
<1>8. Dist(macro.icon[t], macro.icon[e]) <= Near
    BY <1>4
<1> HIDE DEF e, t
<1>9. CASE f >= e
    <2>1. e \in 0 .. f /\ t \in f + 1 .. macro.length - 1
        BY <1>1, <1>5, <1>6, <1>9
    <2>2. Dist(macro.icon[e], macro.icon[t]) <= Far
        <3>1. Dist(macro.icon[t], macro.icon[e]) \in Nat
              /\ Dist(macro.icon[e], macro.icon[t]) = Dist(macro.icon[t], macro.icon[e])
            BY <1>5, DistSymmetric
        <3> QED
            BY <1>8, <3>1 DEF Near, Far
    <2> QED
        BY <1>5, <2>1, <2>2
<1>10. CASE f < e
    <2>1. f < s
        <3>1. f \notin s .. e - 1
            BY <1>7
        <3> QED
            BY <1>1, <1>5, <1>10, <3>1
    <2>2. c.firstdeath \in Nat /\ c.firstdeath < macro.length /\ c.x \in Nat /\ c.x = macro.icon[e]
        <3>1. s < macro.length
            BY <1>1, <1>5
        <3>2. c.x = macro.icon[e] /\ c.firstdeath = s
            BY <1>4 DEF e
        <3> QED
            BY <1>5, <3>1, <3>2
    <2> DEFINE a == From(macro, c) - 1
    <2>3. /\ From(macro, c) \in 0 .. c.firstdeath
          /\ \/ From(macro, c) = c.firstdeath
             \/ /\ a \in 0 .. c.firstdeath - 1
                /\ Alive(macro, a) /\ Dist(macro.icon[a], c.x) <= Far
        BY <2>2, FromFacts
    <2>4. From(macro, c) <= f
        BY <1>1, <1>3, <2>2, <2>3
    <2>5. From(macro, c) # c.firstdeath
        BY <1>1, <1>4, <1>5, <2>1, <2>4
    <2>6. a \in 0 .. f /\ e \in f + 1 .. macro.length - 1
        BY <1>1, <1>5, <1>10, <2>2, <2>3, <2>4, <2>5
    <2>7. Alive(macro, a) /\ Dist(macro.icon[a], macro.icon[e]) <= Far
        BY <2>2, <2>3, <2>5
    <2> HIDE DEF a
    <2> QED
        BY <1>5, <2>6, <2>7
<1> QED
    BY <1>1, <1>5, <1>9, <1>10

-------------------------------------------------------------------------------
(* Events *)

Events == [at : Nat, item : Items \cup {"back"}, val : BOOLEAN]

Inputted == [Items -> BOOLEAN]

(* Events in the order of their frames, all of them before frame n. *)
Ordered(es, n) ==
    /\ es \in Seq(Events)
    /\ \A k \in 1 .. Len(es) : es[k].at < n
    /\ \A j, k \in 1 .. Len(es) : j < k => es[j].at <= es[k].at

(* Those of one item up to frame f, and the inputs they leave. *)
Of(es, f, i)     == {k \in DOMAIN es : es[k].at <= f /\ es[k].item = i}
DesiredIn(es, f) == [i \in Items |-> Of(es, f, i) # {} /\ es[Max(Of(es, f, i))].val]

(* Desired looks at nothing but the events. *)
LEMMA DesiredOfEvents ==
    ASSUME NEW m, NEW f
    PROVE  Desired(m, f) = DesiredIn(m.events, f)
BY DEF Desired, DesiredIn, Of

(* Some event is the last for an item, if there is one. *)
LEMMA LastOf ==
    ASSUME NEW es, es \in Seq(Events), NEW f, NEW i, Of(es, f, i) # {}
    PROVE  /\ Max(Of(es, f, i)) \in Of(es, f, i)
           /\ \A k \in Of(es, f, i) : Max(Of(es, f, i)) >= k
<1>1. Len(es) \in Nat /\ DOMAIN es = 1 .. Len(es)
    OBVIOUS
<1>2. Of(es, f, i) \subseteq Int /\ \A k \in Of(es, f, i) : k <= Len(es)
    BY <1>1 DEF Of
<1> QED
    BY <1>1, <1>2, Greatest

(* What is desired is a state of the inputs. *)
LEMMA DesiredType ==
    ASSUME NEW es, es \in Seq(Events), NEW f
    PROVE  DesiredIn(es, f) \in Inputted
<1>1. ASSUME NEW i \in Items PROVE (Of(es, f, i) # {} /\ es[Max(Of(es, f, i))].val) \in BOOLEAN
    OBVIOUS
<1> QED
    BY <1>1 DEF DesiredIn, Inputted

(* The changes from one state to another: an event for every item that differs. *)
LEMMA ChangesFacts ==
    ASSUME NEW f \in Nat, NEW old, NEW new \in Inputted
    PROVE  /\ Changes(f, old, new) \in Seq(Events)
           /\ \A k \in 1 .. Len(Changes(f, old, new)) :
                /\ Changes(f, old, new)[k].at = f
                /\ Changes(f, old, new)[k].item \in Items
                /\ Changes(f, old, new)[k].val = new[Changes(f, old, new)[k].item]
           /\ \A i \in Items : new[i] # old[i] =>
                \E k \in 1 .. Len(Changes(f, old, new)) : Changes(f, old, new)[k].item = i
<1> DEFINE T == {j \in Items : new[j] # old[j]}
           S == {Event(f, i, new[i]) : i \in T}
           n == Cardinality(S)
           c == SetToSeq(S)
<1>1. Changes(f, old, new) = c
    BY DEF Changes
<1>2. IsFiniteSet(T)
    BY ItemsAssumption, FS_Subset
<1>3. IsFiniteSet(S)
    <2> DEFINE g == [i \in T |-> Event(f, i, new[i])]
    <2>1. g \in Surjection(T, S)
        BY DEF Surjection
    <2> QED
        BY <1>2, <2>1, FS_Surjection
<1>4. ASSUME NEW e \in S
      PROVE  e \in Events /\ e.at = f /\ e.item \in Items /\ e.val = new[e.item]
    <2>1. PICK i \in T : e = Event(f, i, new[i])
        OBVIOUS
    <2>2. new[i] \in BOOLEAN /\ i \in Items
        BY DEF Inputted
    <2> QED
        BY <2>1, <2>2 DEF Event, Events
<1>5. ASSUME NEW i \in Items, new[i] # old[i] PROVE \E e \in S : e.item = i
    <2>1. i \in T
        BY <1>5
    <2>2. Event(f, i, new[i]) \in S /\ Event(f, i, new[i]).item = i
        BY <2>1 DEF Event
    <2> QED
        BY <2>2
<1> HIDE DEF S
<1>6. n \in Nat /\ ExistsBijection(1 .. n, S)
    BY <1>3, FS_CardinalityType
<1>7. c \in [1 .. n -> S] /\ IsInjective(c)
    <2>1. \E g \in [1 .. n -> S] : IsInjective(g)
        BY <1>6 DEF ExistsBijection, Bijection, Injection
    <2> QED
        BY <2>1 DEF SetToSeq
<1> HIDE DEF c
<1>8. \A e \in S : \E k \in 1 .. n : c[k] = e
    <2>1. IsFiniteSet(1 .. n) /\ Cardinality(1 .. n) = n
        BY <1>6, FS_Interval
    <2>2. c \in Injection(1 .. n, S)
        BY <1>7 DEF Injection
    <2>3. c \in Surjection(1 .. n, S)
        BY <1>3, <2>1, <2>2, FS_Injection
    <2> QED
        BY <2>3 DEF Surjection
<1> HIDE DEF n
<1>9. c \in Seq(Events) /\ Len(c) = n /\ \A k \in 1 .. n : c[k] \in S
    BY <1>4, <1>6, <1>7
<1>10. \A k \in 1 .. n : c[k].at = f /\ c[k].item \in Items /\ c[k].val = new[c[k].item]
    BY <1>4, <1>9
<1>11. \A i \in Items : new[i] # old[i] => \E k \in 1 .. n : c[k].item = i
    BY <1>5, <1>8
<1> QED
    BY <1>1, <1>9, <1>10, <1>11

(* A frame's events at the end of the others. *)
LEMMA OrderedMore ==
    ASSUME NEW f \in Nat, NEW es, Ordered(es, f),
           NEW bs \in Seq(Events), \A k \in 1 .. Len(bs) : bs[k].at = f
    PROVE  /\ Ordered(es \o bs, f + 1)
           /\ Len(es) \in Nat /\ Len(bs) \in Nat /\ Len(es \o bs) = Len(es) + Len(bs)
           /\ \A k \in 1 .. Len(es) : (es \o bs)[k] = es[k]
           /\ \A k \in 1 .. Len(bs) : (es \o bs)[Len(es) + k] = bs[k]
<1> DEFINE all == es \o bs
<1>1. es \in Seq(Events) /\ Len(es) \in Nat /\ Len(bs) \in Nat
    BY DEF Ordered
<1>2. /\ all \in Seq(Events) /\ Len(all) = Len(es) + Len(bs)
      /\ \A k \in 1 .. Len(es) : all[k] = es[k]
      /\ \A k \in 1 .. Len(bs) : all[Len(es) + k] = bs[k]
    BY <1>1
<1> HIDE DEF all
<1>3. \A k \in 1 .. Len(all) :
          \/ k \in 1 .. Len(es)
          \/ k - Len(es) \in 1 .. Len(bs) /\ Len(es) + (k - Len(es)) = k /\ k > Len(es)
    BY <1>1, <1>2
<1>4. \A k \in 1 .. Len(es) : all[k].at < f /\ all[k].at \in Nat
    <2>1. \A k \in 1 .. Len(es) : es[k] \in Events
        BY <1>1
    <2>2. \A e \in Events : e.at \in Nat
        BY DEF Events
    <2> QED
        BY <1>2, <2>1, <2>2 DEF Ordered
<1>5. \A k \in 1 .. Len(all) : k \in 1 .. Len(es) \/ (all[k].at = f /\ k > Len(es))
    <2> SUFFICES ASSUME NEW k \in 1 .. Len(all), k \notin 1 .. Len(es)
                 PROVE  all[k].at = f /\ k > Len(es)
        OBVIOUS
    <2>1. k - Len(es) \in 1 .. Len(bs) /\ Len(es) + (k - Len(es)) = k /\ k > Len(es)
        BY <1>3
    <2>2. all[k] = bs[k - Len(es)]
        BY <1>2, <2>1
    <2> QED
        BY <2>1, <2>2
<1>6. \A k \in 1 .. Len(all) : all[k].at < f + 1
    BY <1>4, <1>5
<1>7. ASSUME NEW j \in 1 .. Len(all), NEW k \in 1 .. Len(all), j < k
      PROVE  all[j].at <= all[k].at
    <2>1. CASE j \in 1 .. Len(es) /\ k \in 1 .. Len(es)
        BY <1>2, <1>7, <2>1 DEF Ordered
    <2>2. CASE j \in 1 .. Len(es) /\ all[k].at = f
        BY <1>4, <2>2
    <2>3. CASE all[j].at = f /\ j > Len(es)
        <3>1. k \notin 1 .. Len(es)
            BY <1>1, <1>7, <2>3
        <3> QED
            BY <1>5, <2>3, <3>1
    <2> QED
        BY <1>5, <2>1, <2>2, <2>3
<1>8. Ordered(all, f + 1)
    BY <1>2, <1>6, <1>7 DEF Ordered
<1> QED
    BY <1>1, <1>2, <1>8 DEF all

(* They decide what is desired from then on, and nothing before. *)
LEMMA DesiredMore ==
    ASSUME NEW f \in Nat, NEW es, Ordered(es, f),
           NEW bs \in Seq(Events), NEW new \in Inputted,
           \A k \in 1 .. Len(bs) : /\ bs[k].at = f /\ bs[k].item \in Items
                                   /\ bs[k].val = new[bs[k].item],
           \A i \in Items : \/ \E k \in 1 .. Len(bs) : bs[k].item = i
                            \/ new[i] = DesiredIn(es, f)[i]
    PROVE  /\ \A g \in Nat : g < f => DesiredIn(es \o bs, g) = DesiredIn(es, g)
           /\ \A g \in Nat : g >= f => DesiredIn(es \o bs, g) = new
<1> DEFINE all == es \o bs
<1>1. /\ Ordered(all, f + 1)
      /\ Len(es) \in Nat /\ Len(bs) \in Nat /\ Len(all) = Len(es) + Len(bs)
      /\ \A k \in 1 .. Len(es) : all[k] = es[k]
      /\ \A k \in 1 .. Len(bs) : all[Len(es) + k] = bs[k]
    BY OrderedMore
<1>2. es \in Seq(Events) /\ all \in Seq(Events)
    BY <1>1 DEF Ordered
<1>3. DOMAIN es = 1 .. Len(es) /\ DOMAIN all = 1 .. Len(all)
    BY <1>2
<1> HIDE DEF all
<1>4. \A k \in 1 .. Len(all) :
          \/ k \in 1 .. Len(es)
          \/ k - Len(es) \in 1 .. Len(bs) /\ all[k] = bs[k - Len(es)] /\ k > Len(es)
    <2>1. \A k \in 1 .. Len(all) :
              \/ k \in 1 .. Len(es)
              \/ k - Len(es) \in 1 .. Len(bs) /\ Len(es) + (k - Len(es)) = k /\ k > Len(es)
        BY <1>1
    <2> QED
        BY <1>1, <2>1
<1>5. \A k \in 1 .. Len(es) : es[k].at < f
    BY DEF Ordered
<1>6. ASSUME NEW g \in Nat, g < f PROVE DesiredIn(all, g) = DesiredIn(es, g)
    <2>1. ASSUME NEW i \in Items PROVE Of(all, g, i) = Of(es, g, i)
        <3>1. ASSUME NEW k \in Of(all, g, i) PROVE k \in Of(es, g, i)
            <4>1. k \in 1 .. Len(all) /\ all[k].at <= g /\ all[k].item = i
                BY <1>3 DEF Of
            <4>2. k \in 1 .. Len(es)
                <5>1. SUFFICES ASSUME k \notin 1 .. Len(es) PROVE FALSE
                    OBVIOUS
                <5>2. all[k].at = f
                    BY <1>4, <4>1, <5>1
                <5> QED
                    BY <1>6, <4>1, <5>2
            <4> QED
                BY <1>1, <1>3, <4>1, <4>2 DEF Of
        <3>2. ASSUME NEW k \in Of(es, g, i) PROVE k \in Of(all, g, i)
            <4>1. k \in 1 .. Len(es) /\ es[k].at <= g /\ es[k].item = i
                BY <1>3 DEF Of
            <4>2. k \in 1 .. Len(all)
                BY <1>1, <4>1
            <4> QED
                BY <1>1, <1>3, <4>1, <4>2 DEF Of
        <3> QED
            BY <3>1, <3>2
    <2>2. ASSUME NEW i \in Items, Of(es, g, i) # {}
          PROVE  all[Max(Of(es, g, i))] = es[Max(Of(es, g, i))]
        <3>1. Max(Of(es, g, i)) \in Of(es, g, i)
            BY <1>2, <2>2, LastOf
        <3>2. Max(Of(es, g, i)) \in 1 .. Len(es)
            BY <1>3, <3>1 DEF Of
        <3> QED
            BY <1>1, <3>2
    <2>3. ASSUME NEW i \in Items PROVE DesiredIn(all, g)[i] = DesiredIn(es, g)[i]
        BY <2>1, <2>2 DEF DesiredIn
    <2> QED
        BY <2>3 DEF DesiredIn
<1>7. ASSUME NEW g \in Nat, g >= f PROVE DesiredIn(all, g) = new
    <2>1. ASSUME NEW i \in Items PROVE DesiredIn(all, g)[i] = new[i]
        <3>1. CASE \E k \in 1 .. Len(bs) : bs[k].item = i
            <4>1. PICK k \in 1 .. Len(bs) : bs[k].item = i
                BY <3>1
            <4>2. Len(es) + k \in Of(all, g, i)
                <5>1. Len(es) + k \in 1 .. Len(all) /\ all[Len(es) + k] = bs[k]
                    BY <1>1
                <5>2. bs[k].at <= g
                    BY <1>7
                <5> QED
                    BY <1>3, <4>1, <5>1, <5>2 DEF Of
            <4> DEFINE x == Max(Of(all, g, i))
            <4>3. x \in Of(all, g, i) /\ x >= Len(es) + k
                BY <1>2, <4>2, LastOf
            <4> HIDE DEF x
            <4>4. x \in 1 .. Len(all) /\ all[x].item = i
                BY <1>3, <4>3 DEF Of
            <4>5. x \notin 1 .. Len(es)
                BY <1>1, <4>3, <4>4
            <4>6. x - Len(es) \in 1 .. Len(bs) /\ all[x] = bs[x - Len(es)]
                BY <1>4, <4>4, <4>5
            <4>7. all[x].val = new[i]
                BY <4>4, <4>6
            <4>8. DesiredIn(all, g)[i] = (Of(all, g, i) # {} /\ all[x].val)
                BY DEF DesiredIn, x
            <4>9. new[i] \in BOOLEAN
                BY DEF Inputted
            <4> QED
                BY <4>2, <4>7, <4>8, <4>9
        <3>2. CASE \A k \in 1 .. Len(bs) : bs[k].item # i
            <4>1. new[i] = DesiredIn(es, f)[i]
                BY <3>2
            <4>2. Of(all, g, i) = Of(es, f, i)
                <5>1. ASSUME NEW k \in Of(all, g, i) PROVE k \in Of(es, f, i)
                    <6>1. k \in 1 .. Len(all) /\ all[k].item = i
                        BY <1>3 DEF Of
                    <6>2. k \in 1 .. Len(es)
                        BY <1>4, <3>2, <6>1
                    <6>3. es[k] = all[k] /\ es[k].at <= f
                        <7>1. es[k].at < f /\ es[k] \in Events
                            BY <1>2, <1>5, <6>2
                        <7>2. es[k].at \in Nat
                            BY <7>1 DEF Events
                        <7> QED
                            BY <1>1, <6>2, <7>1, <7>2
                    <6> QED
                        BY <1>3, <6>1, <6>2, <6>3 DEF Of
                <5>2. ASSUME NEW k \in Of(es, f, i) PROVE k \in Of(all, g, i)
                    <6>1. k \in 1 .. Len(es) /\ es[k].item = i /\ es[k].at <= f
                        BY <1>3 DEF Of
                    <6>2. k \in 1 .. Len(all) /\ all[k] = es[k]
                        BY <1>1, <6>1
                    <6>3. es[k].at \in Nat
                        <7>1. es[k] \in Events
                            BY <1>2, <6>1
                        <7> QED
                            BY <7>1 DEF Events
                    <6>4. all[k].at <= g
                        BY <1>7, <6>1, <6>2, <6>3
                    <6> QED
                        BY <1>3, <6>1, <6>2, <6>4 DEF Of
                <5> QED
                    BY <5>1, <5>2
            <4>3. ASSUME Of(es, f, i) # {}
                  PROVE  all[Max(Of(es, f, i))] = es[Max(Of(es, f, i))]
                <5>1. Max(Of(es, f, i)) \in Of(es, f, i)
                    BY <1>2, <4>3, LastOf
                <5>2. Max(Of(es, f, i)) \in 1 .. Len(es)
                    BY <1>3, <5>1 DEF Of
                <5> QED
                    BY <1>1, <5>2
            <4>4. DesiredIn(all, g)[i] = DesiredIn(es, f)[i]
                BY <4>2, <4>3 DEF DesiredIn
            <4> QED
                BY <4>1, <4>4
        <3> QED
            BY <3>1, <3>2
    <2> QED
        BY <2>1 DEF DesiredIn, Inputted
<1> QED
    BY <1>6, <1>7 DEF all

(* The concatenation of the first k sequences. *)
IsFlattening(g, seqs, k) ==
    g = [i \in 1 .. k |-> IF i = 1 THEN seqs[i] ELSE g[i - 1] \o seqs[i]]

(* The recursion has a solution. *)
LEMMA FlatteningExists ==
    ASSUME NEW seqs, NEW N \in Nat
    PROVE  \E g : IsFlattening(g, seqs, N)
<1> DEFINE G == {k \in 0 .. N : \E g : IsFlattening(g, seqs, k)}
<1>1. 0 \in G
    <2> DEFINE g == [i \in 1 .. 0 |-> <<>>]
    <2>1. IsFlattening(g, seqs, 0)
        BY DEF IsFlattening
    <2> QED
        BY <2>1
<1>2. ASSUME NEW k \in 0 .. N - 1, k \in G PROVE k + 1 \in G
    <2>1. PICK g : IsFlattening(g, seqs, k)
        BY <1>2
    <2> DEFINE last == IF k = 0 THEN seqs[1] ELSE g[k] \o seqs[k + 1]
               h == [i \in 1 .. k + 1 |-> IF i <= k THEN g[i] ELSE last]
    <2>2. ASSUME NEW i \in 1 .. k + 1
          PROVE  h[i] = IF i = 1 THEN seqs[i] ELSE h[i - 1] \o seqs[i]
        <3>1. CASE i = 1 /\ i <= k
            <4>1. h[i] = g[i] /\ i \in 1 .. k
                BY <3>1
            <4> HIDE DEF h
            <4> QED
                BY <2>1, <3>1, <4>1 DEF IsFlattening
        <3>2. CASE i # 1 /\ i <= k
            <4>1. h[i] = g[i] /\ h[i - 1] = g[i - 1] /\ i \in 1 .. k
                BY <3>2
            <4> HIDE DEF h
            <4> QED
                BY <2>1, <3>2, <4>1 DEF IsFlattening
        <3>3. CASE i = k + 1 /\ k = 0
            BY <3>3
        <3>4. CASE i = k + 1 /\ k # 0
            <4>1. last = g[k] \o seqs[k + 1]
                BY <3>4
            <4> HIDE DEF last
            <4>2. h[i] = last /\ i # 1
                BY <3>4
            <4>3. h[i - 1] = g[k]
                BY <3>4
            <4> HIDE DEF h
            <4> QED
                BY <3>4, <4>1, <4>2, <4>3
        <3> QED
            BY <3>1, <3>2, <3>3, <3>4
    <2>3. IsFlattening(h, seqs, k + 1)
        <3> HIDE DEF last
        <3> QED
            BY <2>2 DEF IsFlattening
    <2> QED
        BY <2>3
<1> HIDE DEF G
<1>3. \A k \in 0 .. N : k \in G
    BY <1>1, <1>2, Induction
<1> QED
    BY <1>3 DEF G

(* The frames' events one after the other: the g-th part is what FlattenSeq has
   put together from the first g sequences. *)
LEMMA FlattenFacts ==
    ASSUME NEW seqs, Len(seqs) \in Nat, Len(seqs) # 0
    PROVE  \E g : /\ FlattenSeq(seqs) = g[Len(seqs)]
                  /\ g[1] = seqs[1]
                  /\ \A i \in 2 .. Len(seqs) : g[i] = g[i - 1] \o seqs[i]
<1> DEFINE N == Len(seqs)
           L == CHOOSE g : IsFlattening(g, seqs, N)
<1>1. FlattenSeq(seqs) = L[N]
    BY DEF FlattenSeq, IsFlattening
<1>2. IsFlattening(L, seqs, N)
    BY FlatteningExists
<1> HIDE DEF L
<1>3. \A i \in 1 .. N : L[i] = IF i = 1 THEN seqs[i] ELSE L[i - 1] \o seqs[i]
    BY <1>2 DEF IsFlattening
<1>4. L[1] = seqs[1]
    <2>1. 1 \in 1 .. N
        OBVIOUS
    <2> QED
        BY <1>3, <2>1
<1>5. ASSUME NEW i \in 2 .. N PROVE L[i] = L[i - 1] \o seqs[i]
    <2>1. i \in 1 .. N /\ i # 1
        OBVIOUS
    <2> QED
        BY <1>3, <2>1
<1> QED
    BY <1>1, <1>4, <1>5

(* The events so far of a trimmed macro: in order, and in each frame they leave
   the inputs that were desired in the frame it comes from. *)
Emitted(es, m, n) ==
    /\ Ordered(es, n)
    /\ \A k \in 0 .. n - 1 : DesiredIn(es, k) = Desired(m, Kept(m)[k + 1])
    /\ DesiredIn(es, n) = IF n = 0 THEN Released ELSE Desired(m, Kept(m)[n])

(* One more frame. *)
LEMMA EmittedStep ==
    ASSUME NEW m, m.events \in Seq(Events), NEW n \in Nat, NEW es, Emitted(es, m, n)
    PROVE  Emitted(es \o Changes(n, IF n = 0 THEN Released ELSE Desired(m, Kept(m)[n]),
                                 Desired(m, Kept(m)[n + 1])), m, n + 1)
<1> DEFINE old == IF n = 0 THEN Released ELSE Desired(m, Kept(m)[n])
           new == Desired(m, Kept(m)[n + 1])
           bs  == Changes(n, old, new)
<1>1. new \in Inputted
    BY DesiredOfEvents, DesiredType
<1>2. Ordered(es, n) /\ DesiredIn(es, n) = old
    BY DEF Emitted
<1> HIDE DEF old, new
<1>3. /\ bs \in Seq(Events)
      /\ \A k \in 1 .. Len(bs) : bs[k].at = n /\ bs[k].item \in Items /\ bs[k].val = new[bs[k].item]
      /\ \A i \in Items : new[i] # old[i] => \E k \in 1 .. Len(bs) : bs[k].item = i
    BY <1>1, ChangesFacts
<1> HIDE DEF bs
<1>4. \A i \in Items : \/ \E k \in 1 .. Len(bs) : bs[k].item = i
                       \/ new[i] = DesiredIn(es, n)[i]
    BY <1>2, <1>3
<1>5. /\ \A g \in Nat : g < n => DesiredIn(es \o bs, g) = DesiredIn(es, g)
      /\ \A g \in Nat : g >= n => DesiredIn(es \o bs, g) = new
    BY <1>1, <1>2, <1>3, <1>4, DesiredMore
<1>6. Ordered(es \o bs, n + 1)
    BY <1>2, <1>3, OrderedMore
<1>7. DesiredIn(es \o bs, n + 1) = new /\ DesiredIn(es \o bs, n) = new
    BY <1>5
<1>8. ASSUME NEW k \in 0 .. n PROVE DesiredIn(es \o bs, k) = Desired(m, Kept(m)[k + 1])
    <2>1. CASE k = n
        BY <1>7, <2>1 DEF new
    <2>2. CASE k # n
        <3>1. k \in 0 .. n - 1 /\ k \in Nat /\ k < n
            BY <2>2
        <3> QED
            BY <1>5, <3>1 DEF Emitted
    <2> QED
        BY <2>1, <2>2
<1>9. /\ n + 1 # 0 /\ n + 1 - 1 = n
      /\ DesiredIn(es \o bs, n + 1) = Desired(m, Kept(m)[n + 1])
    BY <1>7 DEF new
<1>10. Emitted(es \o bs, m, n + 1)
    BY <1>6, <1>8, <1>9 DEF Emitted
<1> QED
    BY <1>10 DEF bs, old, new

(* Nothing has been emitted before the first frame. *)
LEMMA EmittedNothing ==
    ASSUME NEW m
    PROVE  Emitted(<<>>, m, 0)
<1>1. Ordered(<<>>, 0)
    BY DEF Ordered
<1>2. DesiredIn(<<>>, 0) = Released
    <2>1. \A i \in Items : Of(<<>>, 0, i) = {}
        BY DEF Of
    <2> QED
        BY <2>1 DEF DesiredIn, Released
<1> QED
    BY <1>1, <1>2 DEF Emitted

(* All of them. *)
LEMMA TrimEvents ==
    ASSUME NEW m, Body(m), m.events \in Seq(Events), Deaths(m) # {}
    PROVE  Emitted(Trim(m).events, m, Trim(m).length)
<1> DEFINE q == Kept(m)
           N == Len(q)
           emitted(n) == IF n = 0 THEN Released ELSE Desired(m, q[n])
           seqs == [n \in 1 .. N |-> Changes(n - 1, emitted(n - 1), Desired(m, q[n]))]
<1>1. Trim(m).events = FlattenSeq(seqs) /\ Trim(m).length = N
    BY DEF Trim
<1>2. N \in Nat
    BY KeptFacts DEF Body
<1> HIDE DEF q, N
<1>3. Len(seqs) = N
    BY <1>2
<1>4. CASE N = 0
    <2>1. FlattenSeq(seqs) = seqs
        BY <1>3, <1>4 DEF FlattenSeq
    <2>2. seqs = <<>>
        BY <1>4
    <2>3. Emitted(<<>>, m, 0)
        BY EmittedNothing
    <2> HIDE DEF seqs
    <2> QED
        BY <1>1, <1>4, <2>1, <2>2, <2>3
<1>5. CASE N # 0
    <2>1. \A n \in 1 .. N : seqs[n] = Changes(n - 1, emitted(n - 1), Desired(m, q[n]))
        OBVIOUS
    <2> HIDE DEF seqs
    <2>2. PICK g : /\ FlattenSeq(seqs) = g[N]
                   /\ g[1] = seqs[1]
                   /\ \A i \in 2 .. N : g[i] = g[i - 1] \o seqs[i]
        BY <1>2, <1>3, <1>5, FlattenFacts
    <2> DEFINE G == {n \in 0 .. N - 1 : Emitted(g[n + 1], m, n + 1)}
    <2>3. ASSUME NEW n \in 0 .. N - 1, NEW es, Emitted(es, m, n)
          PROVE  Emitted(es \o seqs[n + 1], m, n + 1)
        <3>1. n \in Nat /\ n + 1 \in 1 .. N /\ n + 1 - 1 = n
            BY <1>2
        <3>2. seqs[n + 1] = Changes(n, IF n = 0 THEN Released ELSE Desired(m, Kept(m)[n]),
                                       Desired(m, Kept(m)[n + 1]))
            BY <2>1, <3>1 DEF q
        <3> QED
            BY <2>3, <3>1, <3>2, EmittedStep
    <2>4. 0 \in G
        <3>1. 0 \in 0 .. N - 1 /\ 0 + 1 = 1
            BY <1>2, <1>5
        <3>2. Emitted(<<>> \o seqs[1], m, 1)
            BY <2>3, <3>1, EmittedNothing
        <3>3. seqs[1] \in Seq(Events)
            <4>1. seqs[1] = Changes(0, Released, Desired(m, q[1]))
                BY <1>2, <1>5, <2>1
            <4>2. Desired(m, q[1]) \in Inputted
                BY DesiredOfEvents, DesiredType
            <4> QED
                BY <4>1, <4>2, ChangesFacts
        <3>4. <<>> \o seqs[1] = seqs[1]
            BY <3>3
        <3>5. Emitted(g[1], m, 1)
            BY <2>2, <3>2, <3>4
        <3> QED
            BY <3>1, <3>5
    <2>5. ASSUME NEW n \in 0 .. N - 2, n \in G PROVE n + 1 \in G
        <3>1. n + 1 \in 0 .. N - 1 /\ n + 2 \in 2 .. N /\ n + 2 - 1 = n + 1 /\ n + 1 + 1 = n + 2
            BY <1>2
        <3>2. Emitted(g[n + 1], m, n + 1)
            BY <2>5
        <3>3. Emitted(g[n + 1] \o seqs[n + 2], m, n + 2)
            BY <2>3, <3>1, <3>2
        <3>4. g[n + 2] = g[n + 1] \o seqs[n + 2]
            <4> DEFINE i == n + 2
                       j == n + 1
            <4>1. i \in 2 .. N /\ i - 1 = j
                BY <3>1
            <4> HIDE DEF i, j
            <4>2. g[i] = g[j] \o seqs[i]
                BY <2>2, <4>1
            <4> QED
                BY <4>2 DEF i, j
        <3>5. Emitted(g[n + 2], m, n + 2)
            BY <3>3, <3>4
        <3> QED
            BY <3>1, <3>5
    <2> HIDE DEF G
    <2>6. \A n \in 0 .. N - 1 : n \in G
        <3>1. N - 1 \in Nat /\ N - 1 - 1 = N - 2
            BY <1>2, <1>5
        <3> QED
            BY <2>4, <2>5, <3>1, Induction
    <2>7. N - 1 \in G /\ N - 1 + 1 = N
        BY <1>2, <1>5, <2>6
    <2>8. Emitted(g[N], m, N)
        BY <2>7 DEF G
    <2> QED
        BY <1>1, <2>2, <2>8
<1> QED
    BY <1>4, <1>5

-------------------------------------------------------------------------------
(* A replay *)

(* The last event of frame f, from position p on, and the inputs after it. *)
LastAt(m, p, f) ==
    Max({l \in p - 1 .. Len(m.events) : \A q \in p .. l : m.events[q].at = f})
KeysAfter(m, keys, p, l) ==
    [i \in Items |->
       LET mine == {q \in p .. l : m.events[q].item = i}
       IN  IF mine = {} THEN keys[i] ELSE m.events[Max(mine)].val]

(* One frame of a replay: the position in the events, and the inputs. *)
FrameOf(m, old, f) ==
    [pos  |-> LastAt(m, old.pos, f) + 1,
     keys |-> KeysAfter(m, old.keys, old.pos, LastAt(m, old.pos, f))]

IsReplayOf(g, m, N) ==
    g = [f \in -1 .. N |-> IF f = -1 THEN [pos |-> 1, keys |-> Released] ELSE FrameOf(m, g[f - 1], f)]

(* The recursion has a solution. *)
LEMMA ReplayExists ==
    ASSUME NEW m, NEW N \in Nat
    PROVE  \E g : IsReplayOf(g, m, N - 1)
<1> DEFINE G == {k \in 0 .. N : \E g : IsReplayOf(g, m, k - 1)}
<1>1. 0 \in G
    <2> DEFINE g == [f \in -1 .. -1 |-> [pos |-> 1, keys |-> Released]]
    <2>1. IsReplayOf(g, m, 0 - 1)
        BY DEF IsReplayOf
    <2> QED
        BY <2>1
<1>2. ASSUME NEW k \in 0 .. N - 1, k \in G PROVE k + 1 \in G
    <2>1. PICK g : IsReplayOf(g, m, k - 1)
        BY <1>2
    <2> DEFINE last == FrameOf(m, g[k - 1], k)
               h == [f \in -1 .. k |-> IF f <= k - 1 THEN g[f] ELSE last]
    <2>2. ASSUME NEW f \in -1 .. k
          PROVE  h[f] = IF f = -1 THEN [pos |-> 1, keys |-> Released] ELSE FrameOf(m, h[f - 1], f)
        <3>1. CASE f = -1
            <4>1. h[f] = g[f] /\ f \in -1 .. k - 1
                BY <3>1
            <4> HIDE DEF h
            <4> QED
                BY <2>1, <3>1, <4>1 DEF IsReplayOf
        <3>2. CASE f # -1 /\ f <= k - 1
            <4>1. h[f] = g[f] /\ h[f - 1] = g[f - 1] /\ f \in -1 .. k - 1
                BY <3>2
            <4> HIDE DEF h
            <4> QED
                BY <2>1, <3>2, <4>1 DEF IsReplayOf
        <3>3. CASE f = k
            <4>1. h[f] = last /\ h[f - 1] = g[k - 1] /\ f # -1
                BY <3>3
            <4> HIDE DEF h
            <4> QED
                BY <3>3, <4>1
        <3> QED
            BY <3>1, <3>2, <3>3
    <2>3. IsReplayOf(h, m, k)
        <3> HIDE DEF last
        <3> QED
            BY <2>2 DEF IsReplayOf
    <2>4. k + 1 \in 0 .. N /\ k + 1 - 1 = k
        OBVIOUS
    <2> HIDE DEF h
    <2> QED
        BY <2>3, <2>4
<1> HIDE DEF G
<1>3. \A k \in 0 .. N : k \in G
    BY <1>1, <1>2, Induction
<1>4. N \in G
    BY <1>3
<1> QED
    BY <1>4 DEF G

(* Played in these terms. *)
LEMMA PlayedUnfolded ==
    ASSUME NEW m, m.length \in Nat
    PROVE  \E g : /\ Played(m) = [f \in Frames(m) |-> g[f].keys]
                  /\ g[-1] = [pos |-> 1, keys |-> Released]
                  /\ \A f \in Frames(m) : g[f] = FrameOf(m, g[f - 1], f)
<1> DEFINE L == CHOOSE g : IsReplayOf(g, m, m.length - 1)
<1>1. Played(m) = [f \in Frames(m) |-> L[f].keys]
    BY DEF Played, IsReplayOf, FrameOf, LastAt, KeysAfter
<1>2. IsReplayOf(L, m, m.length - 1)
    BY ReplayExists
<1> HIDE DEF L
<1>3. \A f \in -1 .. m.length - 1 :
          L[f] = IF f = -1 THEN [pos |-> 1, keys |-> Released] ELSE FrameOf(m, L[f - 1], f)
    BY <1>2 DEF IsReplayOf
<1>4. L[-1] = [pos |-> 1, keys |-> Released]
    BY <1>3
<1>5. \A f \in Frames(m) : L[f] = FrameOf(m, L[f - 1], f)
    BY <1>3 DEF Frames
<1> QED
    BY <1>1, <1>4, <1>5

(* The replay has got as far as frame f: it stands behind the events up to there,
   and the inputs are those they leave. *)
ReplayAt(m, st, f) ==
    /\ st.pos \in 1 .. Len(m.events) + 1
    /\ \A q \in 1 .. st.pos - 1 : m.events[q].at <= f
    /\ \A q \in st.pos .. Len(m.events) : m.events[q].at > f
    /\ st.keys = DesiredIn(m.events, f)

(* At the start. *)
LEMMA ReplayStarts ==
    ASSUME NEW m, m.events \in Seq(Events)
    PROVE  ReplayAt(m, [pos |-> 1, keys |-> Released], -1)
<1>1. Len(m.events) \in Nat /\ DOMAIN m.events = 1 .. Len(m.events)
    OBVIOUS
<1>2. \A q \in 1 .. Len(m.events) : m.events[q].at \in Nat
    <2>1. \A q \in 1 .. Len(m.events) : m.events[q] \in Events
        OBVIOUS
    <2> QED
        BY <2>1 DEF Events
<1>3. \A i \in Items : Of(m.events, -1, i) = {}
    BY <1>1, <1>2 DEF Of
<1>4. DesiredIn(m.events, -1) = Released
    BY <1>3 DEF DesiredIn, Released
<1> QED
    BY <1>1, <1>2, <1>4 DEF ReplayAt

(* The events of the frame are those the position goes on over. *)
LEMMA LastAtFacts ==
    ASSUME NEW m, NEW n, Ordered(m.events, n), NEW f \in Nat,
           NEW p \in 1 .. Len(m.events) + 1,
           \A q \in 1 .. p - 1 : m.events[q].at <= f - 1,
           \A q \in p .. Len(m.events) : m.events[q].at > f - 1
    PROVE  /\ LastAt(m, p, f) \in p - 1 .. Len(m.events)
           /\ \A q \in p .. LastAt(m, p, f) : m.events[q].at = f
           /\ \A q \in LastAt(m, p, f) + 1 .. Len(m.events) : m.events[q].at > f
<1> DEFINE es == m.events
           S  == {l \in p - 1 .. Len(es) : \A q \in p .. l : es[q].at = f}
           l  == LastAt(m, p, f)
<1>1. es \in Seq(Events) /\ Len(es) \in Nat
    BY DEF Ordered
<1>2. \A q \in 1 .. Len(es) : es[q].at \in Nat
    <2>1. \A q \in 1 .. Len(es) : es[q] \in Events
        BY <1>1
    <2> QED
        BY <2>1 DEF Events
<1>3. l = Max(S)
    BY DEF LastAt
<1>4. p - 1 \in S
    BY <1>1
<1>5. S \subseteq Int /\ \A y \in S : y <= Len(es)
    BY <1>1
<1> HIDE DEF S
<1>6. Max(S) \in S /\ \A y \in S : Max(S) >= y
    <2>1. S # {} /\ Len(es) \in Int
        BY <1>1, <1>4
    <2> QED
        BY <1>5, <2>1, Greatest
<1> HIDE DEF l
<1>7. l \in p - 1 .. Len(es) /\ \A q \in p .. l : es[q].at = f
    BY <1>3, <1>6 DEF S
<1>8. ASSUME NEW q \in l + 1 .. Len(es) PROVE es[q].at > f
    <2>1. l + 1 \in p .. Len(es) /\ l + 1 \in 1 .. Len(es) /\ q \in 1 .. Len(es) /\ l + 1 <= q
        BY <1>1, <1>7
    <2>2. es[l + 1].at # f
        <3>1. SUFFICES ASSUME es[l + 1].at = f PROVE FALSE
            OBVIOUS
        <3>2. \A x \in p .. l + 1 : x \in p .. l \/ x = l + 1
            BY <1>7
        <3>3. l + 1 \in S
            BY <1>7, <2>1, <3>1, <3>2 DEF S
        <3> QED
            BY <1>3, <1>6, <1>7, <3>3
    <2>3. es[l + 1].at > f
        <3>1. es[l + 1].at > f - 1 /\ es[l + 1].at \in Nat
            BY <1>2, <2>1
        <3> QED
            BY <2>2, <3>1
    <2>4. es[l + 1].at <= es[q].at
        <3>1. CASE q = l + 1
            BY <1>2, <2>1, <3>1
        <3>2. CASE l + 1 < q
            BY <2>1, <3>2 DEF Ordered
        <3> QED
            BY <2>1, <3>1, <3>2
    <2> QED
        BY <1>2, <2>1, <2>3, <2>4
<1> QED
    BY <1>7, <1>8 DEF l

(* The inputs after them. *)
LEMMA KeysAfterFacts ==
    ASSUME NEW m, m.events \in Seq(Events), NEW f \in Nat,
           NEW p \in 1 .. Len(m.events) + 1, NEW l \in p - 1 .. Len(m.events),
           \A q \in 1 .. p - 1 : m.events[q].at <= f - 1,
           \A q \in p .. l : m.events[q].at = f,
           \A q \in l + 1 .. Len(m.events) : m.events[q].at > f
    PROVE  KeysAfter(m, DesiredIn(m.events, f - 1), p, l) = DesiredIn(m.events, f)
<1> DEFINE es == m.events
           mine(i) == {q \in p .. l : es[q].item = i}
<1>1. Len(es) \in Nat /\ DOMAIN es = 1 .. Len(es)
    OBVIOUS
<1>2. \A q \in 1 .. Len(es) : es[q].at \in Nat /\ es[q].val \in BOOLEAN
    <2>1. \A q \in 1 .. Len(es) : es[q] \in Events
        OBVIOUS
    <2> QED
        BY <2>1 DEF Events
<1>3. \A q \in 1 .. Len(es) : q \in 1 .. p - 1 \/ q \in p .. l \/ q \in l + 1 .. Len(es)
    BY <1>1
<1>4. \A q \in 1 .. Len(es) :
         /\ q \in 1 .. p - 1 => es[q].at <= f /\ es[q].at <= f - 1
         /\ q \in p .. l => es[q].at <= f /\ ~(es[q].at <= f - 1)
         /\ q \in l + 1 .. Len(es) => ~(es[q].at <= f) /\ ~(es[q].at <= f - 1)
    BY <1>2
<1>5. ASSUME NEW i \in Items PROVE Of(es, f, i) = Of(es, f - 1, i) \cup mine(i)
    <2>1. ASSUME NEW q PROVE q \in Of(es, f, i) <=> q \in Of(es, f - 1, i) \cup mine(i)
        <3>1. q \in Of(es, f, i) <=> q \in 1 .. Len(es) /\ es[q].at <= f /\ es[q].item = i
            BY <1>1 DEF Of
        <3>2. q \in Of(es, f - 1, i) <=> q \in 1 .. Len(es) /\ es[q].at <= f - 1 /\ es[q].item = i
            BY <1>1 DEF Of
        <3>3. q \in mine(i) <=> q \in 1 .. Len(es) /\ q \in p .. l /\ es[q].item = i
            BY <1>1
        <3>4. q \in 1 .. Len(es) => (es[q].at <= f <=> es[q].at <= f - 1 \/ q \in p .. l)
            BY <1>3, <1>4
        <3> QED
            BY <3>1, <3>2, <3>3, <3>4
    <2> QED
        BY <2>1
<1>6. ASSUME NEW i \in Items, mine(i) # {}
      PROVE  Of(es, f, i) # {} /\ Max(Of(es, f, i)) = Max(mine(i)) /\ Max(mine(i)) \in 1 .. Len(es)
    <2>1. Of(es, f, i) # {}
        BY <1>5, <1>6
    <2> DEFINE x == Max(Of(es, f, i))
               y == Max(mine(i))
    <2>2. x \in Of(es, f, i) /\ \A k \in Of(es, f, i) : x >= k
        BY <2>1, LastOf
    <2>3. y \in mine(i) /\ \A k \in mine(i) : y >= k
        <3>1. mine(i) \subseteq Int /\ Len(es) \in Int /\ \A k \in mine(i) : k <= Len(es)
            BY <1>1
        <3> HIDE DEF mine
        <3> QED
            BY <1>6, <3>1, Greatest
    <2>4. x >= y
        BY <1>5, <2>2, <2>3
    <2> HIDE DEF x, y
    <2>5. y \in p .. l /\ x \in 1 .. Len(es)
        BY <1>1, <2>2, <2>3 DEF Of
    <2>6. x \in p .. l
        <3>1. x \notin 1 .. p - 1
            BY <2>4, <2>5
        <3>2. x \notin l + 1 .. Len(es)
            BY <1>4, <2>2, <2>5 DEF Of
        <3> QED
            BY <1>3, <2>5, <3>1, <3>2
    <2>7. x \in mine(i)
        BY <1>1, <2>2, <2>6 DEF Of
    <2>8. y >= x
        BY <2>3, <2>7
    <2>9. x = y
        BY <2>4, <2>5, <2>6, <2>8
    <2> QED
        BY <2>1, <2>5, <2>9 DEF x, y
<1>7. ASSUME NEW i \in Items
      PROVE  KeysAfter(m, DesiredIn(es, f - 1), p, l)[i] = DesiredIn(es, f)[i]
    <2>1. KeysAfter(m, DesiredIn(es, f - 1), p, l)[i]
            = IF mine(i) = {} THEN DesiredIn(es, f - 1)[i] ELSE es[Max(mine(i))].val
        BY DEF KeysAfter
    <2>2. CASE mine(i) = {}
        <3>1. Of(es, f, i) = Of(es, f - 1, i)
            BY <1>5, <2>2
        <3>2. DesiredIn(es, f)[i] = DesiredIn(es, f - 1)[i]
            BY <3>1 DEF DesiredIn
        <3> QED
            BY <2>1, <2>2, <3>2
    <2>3. CASE mine(i) # {}
        <3>1. DesiredIn(es, f)[i] = (Of(es, f, i) # {} /\ es[Max(Of(es, f, i))].val)
            BY DEF DesiredIn
        <3>2. es[Max(mine(i))].val \in BOOLEAN
            BY <1>2, <1>6, <2>3
        <3> HIDE DEF mine, es
        <3>3. DesiredIn(es, f)[i] = es[Max(mine(i))].val
            BY <1>6, <2>3, <3>1, <3>2
        <3> QED
            BY <2>1, <2>3, <3>3
    <2> QED
        BY <2>2, <2>3
<1> QED
    BY <1>7 DEF KeysAfter, DesiredIn

(* One frame of a replay. *)
LEMMA ReplayStep ==
    ASSUME NEW m, NEW n, Ordered(m.events, n), NEW f \in Nat, NEW st, ReplayAt(m, st, f - 1)
    PROVE  ReplayAt(m, FrameOf(m, st, f), f)
<1> DEFINE p == st.pos
           l == LastAt(m, p, f)
           es == m.events
<1>1. es \in Seq(Events) /\ Len(es) \in Nat
    BY DEF Ordered
<1>2. /\ p \in 1 .. Len(es) + 1
      /\ \A q \in 1 .. p - 1 : es[q].at <= f - 1
      /\ \A q \in p .. Len(es) : es[q].at > f - 1
      /\ st.keys = DesiredIn(es, f - 1)
    BY DEF ReplayAt
<1> HIDE DEF p
<1>3. /\ l \in p - 1 .. Len(es)
      /\ \A q \in p .. l : es[q].at = f
      /\ \A q \in l + 1 .. Len(es) : es[q].at > f
    BY <1>2, LastAtFacts
<1>4. FrameOf(m, st, f) = [pos |-> l + 1, keys |-> KeysAfter(m, st.keys, p, l)]
    BY DEF FrameOf, p
<1> HIDE DEF l
<1>5. KeysAfter(m, st.keys, p, l) = DesiredIn(es, f)
    BY <1>1, <1>2, <1>3, KeysAfterFacts
<1>6. l + 1 \in 1 .. Len(es) + 1 /\ l + 1 - 1 = l
    BY <1>1, <1>2, <1>3
<1>7. ASSUME NEW q \in 1 .. l PROVE es[q].at <= f
    <2>1. es[q].at \in Nat
        <3>1. es[q] \in Events
            BY <1>1, <1>2, <1>3
        <3> QED
            BY <3>1 DEF Events
    <2>2. CASE q \in p .. l
        BY <1>3, <2>1, <2>2
    <2>3. CASE q \in 1 .. p - 1
        <3>1. es[q].at <= f - 1
            BY <1>2, <2>3
        <3> QED
            BY <2>1, <3>1
    <2> QED
        BY <1>2, <1>3, <2>2, <2>3
<1> QED
    BY <1>3, <1>4, <1>5, <1>6, <1>7 DEF ReplayAt

(* In every frame a replay gives the game the inputs that its events up to there
   leave. *)
LEMMA PlayedIsDesired ==
    ASSUME NEW m, m.length \in Nat, Ordered(m.events, m.length)
    PROVE  Played(m) = [f \in Frames(m) |-> Desired(m, f)]
<1>1. PICK g : /\ Played(m) = [f \in Frames(m) |-> g[f].keys]
               /\ g[-1] = [pos |-> 1, keys |-> Released]
               /\ \A f \in Frames(m) : g[f] = FrameOf(m, g[f - 1], f)
    BY PlayedUnfolded
<1> DEFINE G == {k \in 0 .. m.length : ReplayAt(m, g[k - 1], k - 1)}
<1>2. 0 \in G
    <2>1. ReplayAt(m, g[-1], -1)
        BY <1>1, ReplayStarts DEF Ordered
    <2>2. 0 - 1 = -1 /\ 0 \in 0 .. m.length
        OBVIOUS
    <2> QED
        BY <2>1, <2>2
<1>3. ASSUME NEW k \in 0 .. m.length - 1, k \in G PROVE k + 1 \in G
    <2>1. k \in Nat /\ k + 1 \in 0 .. m.length /\ k + 1 - 1 = k
        OBVIOUS
    <2>2. ReplayAt(m, g[k - 1], k - 1)
        BY <1>3
    <2>3. g[k] = FrameOf(m, g[k - 1], k)
        BY <1>1 DEF Frames
    <2>4. ReplayAt(m, g[k], k)
        BY <2>1, <2>2, <2>3, ReplayStep
    <2> QED
        BY <2>1, <2>4
<1> HIDE DEF G
<1>4. \A k \in 0 .. m.length : k \in G
    BY <1>2, <1>3, Induction
<1>5. ASSUME NEW f \in Frames(m) PROVE g[f].keys = Desired(m, f)
    <2>1. f + 1 \in 0 .. m.length /\ f + 1 - 1 = f
        BY DEF Frames
    <2>2. f + 1 \in G
        BY <1>4, <2>1
    <2> DEFINE k == f + 1
    <2>6. k - 1 = f
        BY DEF Frames
    <2>4. k \in G /\ k - 1 = f
        BY <2>2, <2>6
    <2> HIDE DEF k
    <2>5. ReplayAt(m, g[k - 1], k - 1)
        BY <2>4 DEF G
    <2>3. ReplayAt(m, g[f], f)
        BY <2>4, <2>5
    <2> QED
        BY <2>3, DesiredOfEvents DEF ReplayAt
<1> QED
    BY <1>1, <1>5

(* A replay of what is left gives the inputs of the frames that are left. *)
LEMMA Follows ==
    ASSUME Body(macro), Ordered(macro.events, macro.length), trimmed = Trim(macro)
    PROVE  InputsFollow /\ Ordered(trimmed.events, trimmed.length)
<1>1. macro.length \in Nat /\ macro.events \in Seq(Events)
    BY DEF Body, Ordered
<1>2. /\ DOMAIN Origin = Frames(trimmed)
      /\ trimmed.length \in 0 .. macro.length
      /\ \A n \in Frames(trimmed) : /\ n \in Nat /\ Origin[n] \in Frames(macro)
                                    /\ trimmed.icon[n] = macro.icon[Origin[n]]
    BY OriginFacts
<1>3. trimmed.length \in Nat
    BY <1>1, <1>2
<1>4. Ordered(trimmed.events, trimmed.length)
      /\ \A n \in Frames(trimmed) : Desired(trimmed, n) = Desired(macro, Origin[n])
    <2>1. CASE Deaths(macro) = {}
        <3>1. trimmed = macro /\ \A n \in Frames(trimmed) : Origin[n] = n
            BY <2>1, OriginFacts
        <3> QED
            BY <3>1
    <2>2. CASE Deaths(macro) # {}
        <3>1. Emitted(trimmed.events, macro, trimmed.length)
            BY <1>1, <2>2, TrimEvents
        <3>2. Origin = [n \in 0 .. Len(Kept(macro)) - 1 |-> Kept(macro)[n + 1]]
            BY <2>2 DEF Origin
        <3>3. ASSUME NEW n \in Frames(trimmed) PROVE Desired(trimmed, n) = Desired(macro, Origin[n])
            <4>1. n \in 0 .. trimmed.length - 1
                BY DEF Frames
            <4>2. DesiredIn(trimmed.events, n) = Desired(macro, Kept(macro)[n + 1])
                BY <3>1, <4>1 DEF Emitted
            <4>3. Origin[n] = Kept(macro)[n + 1]
                BY <1>2, <3>2
            <4> QED
                BY <4>2, <4>3, DesiredOfEvents
        <3> QED
            BY <3>1, <3>3 DEF Emitted
    <2> QED
        BY <2>1, <2>2
<1>5. Played(macro) = [f \in Frames(macro) |-> Desired(macro, f)]
    BY <1>1, PlayedIsDesired
<1>6. Played(trimmed) = [n \in Frames(trimmed) |-> Desired(trimmed, n)]
    BY <1>3, <1>4, PlayedIsDesired
<1>7. \A n \in Frames(trimmed) : Played(trimmed)[n] = Played(macro)[Origin[n]]
    BY <1>2, <1>4, <1>5, <1>6
<1> QED
    BY <1>2, <1>4, <1>7 DEF InputsFollow

-------------------------------------------------------------------------------
(* The way the player goes when he does not go back *)

(* The frames in which a player is there again. *)
Returns(m) == {t \in Frames(m) : t # 0 /\ Alive(m, t) /\ ~Alive(m, t - 1)}

(* In frame f the player is near d. *)
Visits(m, f, d) == Alive(m, f) /\ Dist(m.icon[f], d) <= Near

(* The player returns to checkpoints, never to one before the last, and only to
   the start or where he has been; where he has been he does not return to an
   earlier checkpoint.  c is the checkpoint that holds. *)
Route(m, c) ==
    /\ \A k \in 1 .. Len(m.events) : m.events[k].item # "back"
    /\ \A t \in Returns(m) : m.icon[t] \in Checkpoints /\ m.icon[t] <= c
    /\ \A t, u \in Returns(m) : t < u => m.icon[t] <= m.icon[u]
    /\ \A f \in Frames(m), d \in Checkpoints :
          Visits(m, f, d) => d <= c /\ \A u \in Returns(m) : f < u => d <= m.icon[u]
    /\ c = Min(Places) \/ \E f \in Frames(m) : Visits(m, f, c)
    /\ \A t \in Returns(m) :
          m.icon[t] = Min(Places) \/ \E f \in 0 .. t - 1 : Visits(m, f, m.icon[t])

(* One more frame of it. *)
LEMMA RouteStep ==
    ASSUME NEW m, Body(m), NEW c \in Checkpoints, NEW e \in Checkpoints, c <= e, Route(m, c),
           NEW p \in Places \cup {Dead}, NEW n,
           n.length = m.length + 1,
           n.icon = [g \in 0 .. m.length |-> IF g = m.length THEN p ELSE m.icon[g]],
           \A k \in 1 .. Len(n.events) : n.events[k].item # "back",
           e = c \/ (p # Dead /\ Dist(p, e) <= Near),
           p # Dead => \A d \in Checkpoints : Dist(p, d) <= Near => d <= e,
           m.length \in Returns(n) => p = c /\ e = c
    PROVE  Route(n, e)
<1> DEFINE z == m.length
<1>1. /\ z \in Nat /\ Frames(m) = 0 .. z - 1 /\ Frames(n) = 0 .. z
      /\ Frames(m) \subseteq Frames(n) /\ z \in Frames(n)
      /\ \A f \in Frames(n) : f = z \/ f \in Frames(m)
    BY DEF Body, Frames
<1>2. /\ n.icon[z] = p /\ \A f \in Frames(m) : n.icon[f] = m.icon[f] /\ f # z /\ f < z
    BY <1>1
<1>3. Checkpoints \subseteq Nat
    BY PlacesAssumption
<1> HIDE DEF z
<1>4. \A f \in Frames(m) : \A d : Visits(n, f, d) <=> Visits(m, f, d)
    BY <1>2 DEF Visits, Alive
<1>5. \A t \in Returns(n) : t = z \/ t \in Returns(m)
    <2> SUFFICES ASSUME NEW t \in Returns(n), t # z PROVE t \in Returns(m)
        OBVIOUS
    <2>1. t \in Frames(m) /\ t # 0 /\ Alive(n, t) /\ ~Alive(n, t - 1)
        BY <1>1 DEF Returns
    <2>2. t - 1 \in Frames(m)
        BY <1>1, <2>1
    <2> QED
        BY <1>2, <2>1, <2>2 DEF Returns, Alive
<1>6. Returns(m) \subseteq Frames(m)
    BY DEF Returns
<1>7. \A t \in Returns(m) : n.icon[t] = m.icon[t] /\ m.icon[t] \in Checkpoints /\ m.icon[t] <= c
    BY <1>2, <1>6 DEF Route
<1>8. z \in Returns(n) => n.icon[z] = c /\ e = c
    BY <1>2 DEF z
<1>9. \A t \in Returns(n) : n.icon[t] \in Checkpoints /\ n.icon[t] <= e
    <2>1. ASSUME NEW t \in Returns(m) PROVE n.icon[t] <= e
        <3>1. n.icon[t] \in Nat /\ c \in Nat /\ e \in Nat /\ n.icon[t] <= c
            BY <1>3, <1>7
        <3> QED
            BY <3>1
    <2> QED
        BY <1>3, <1>5, <1>7, <1>8, <2>1
<1>10. ASSUME NEW t \in Returns(n), NEW u \in Returns(n), t < u PROVE n.icon[t] <= n.icon[u]
    <2>1. t \in Returns(m)
        <3>1. t # z
            <4>1. u = z \/ u < z
                BY <1>2, <1>5, <1>6
            <4>2. u \in Nat
                BY <1>1 DEF Returns
            <4> QED
                BY <1>1, <1>10, <4>1, <4>2
        <3> QED
            BY <1>5, <3>1
    <2>2. CASE u = z
        BY <1>7, <1>8, <2>1, <2>2
    <2>3. CASE u \in Returns(m)
        <3>1. m.icon[t] <= m.icon[u]
            BY <1>10, <2>1, <2>3 DEF Route
        <3> QED
            BY <1>7, <2>1, <2>3, <3>1
    <2> QED
        BY <1>5, <2>2, <2>3
<1>11. ASSUME NEW f \in Frames(n), NEW d \in Checkpoints, Visits(n, f, d)
       PROVE  d <= e /\ \A u \in Returns(n) : f < u => d <= n.icon[u]
    <2>1. CASE f = z
        <3>1. p # Dead /\ Dist(p, d) <= Near
            BY <1>2, <1>11, <2>1 DEF Visits, Alive
        <3>2. d <= e
            BY <3>1
        <3>3. \A u \in Returns(n) : ~(f < u)
            <4>1. \A u \in Returns(n) : u \in Nat /\ (u = z \/ u < z)
                BY <1>1, <1>2, <1>5, <1>6 DEF Returns
            <4> QED
                BY <1>1, <2>1, <4>1
        <3> QED
            BY <3>2, <3>3
    <2>2. CASE f \in Frames(m)
        <3>1. d <= c /\ \A u \in Returns(m) : f < u => d <= m.icon[u]
            BY <1>4, <1>11, <2>2 DEF Route
        <3>2. d <= e
            BY <1>3, <3>1
        <3>3. ASSUME NEW u \in Returns(n), f < u PROVE d <= n.icon[u]
            <4>1. CASE u = z
                BY <1>8, <3>1, <4>1
            <4>2. CASE u \in Returns(m)
                BY <1>7, <3>1, <3>3, <4>2
            <4> QED
                BY <1>5, <4>1, <4>2
        <3> QED
            BY <3>2, <3>3
    <2> QED
        BY <1>1, <2>1, <2>2
<1>12. e = Min(Places) \/ \E f \in Frames(n) : Visits(n, f, e)
    <2>1. CASE e = c
        <3>1. c = Min(Places) \/ \E f \in Frames(m) : Visits(m, f, c)
            BY DEF Route
        <3> QED
            BY <1>1, <1>4, <2>1, <3>1
    <2>2. CASE p # Dead /\ Dist(p, e) <= Near
        <3>1. Visits(n, z, e)
            BY <1>2, <2>2 DEF Visits, Alive
        <3> QED
            BY <1>1, <3>1
    <2> QED
        BY <2>1, <2>2
<1>13. ASSUME NEW t \in Returns(n)
       PROVE  n.icon[t] = Min(Places) \/ \E f \in 0 .. t - 1 : Visits(n, f, n.icon[t])
    <2>1. CASE t = z
        <3>1. n.icon[t] = c /\ (c = Min(Places) \/ \E f \in Frames(m) : Visits(m, f, c))
            BY <1>8, <1>13, <2>1 DEF Route
        <3> QED
            BY <1>1, <1>4, <2>1, <3>1
    <2>2. CASE t \in Returns(m)
        <3>1. m.icon[t] = Min(Places) \/ \E f \in 0 .. t - 1 : Visits(m, f, m.icon[t])
            BY <2>2 DEF Route
        <3>2. 0 .. t - 1 \subseteq Frames(m)
            BY <1>1, <1>6, <2>2
        <3> QED
            BY <1>4, <1>7, <2>2, <3>1, <3>2
    <2> QED
        BY <1>5, <2>1, <2>2
<1> QED
    BY <1>9, <1>10, <1>11, <1>12, <1>13 DEF Route

(* Without backtracks every stretch of dead frames is a death. *)
LEMMA EveryStretch ==
    ASSUME NEW m, NEW c, m.events \in Seq(Events), Route(m, c)
    PROVE  Deaths(m) = DeadStarts(m)
<1>1. \A k \in DOMAIN m.events : m.events[k].item # "back"
    <2>1. DOMAIN m.events = 1 .. Len(m.events)
        OBVIOUS
    <2> QED
        BY <2>1 DEF Route
<1>2. {d \in DOMAIN m.events : m.events[d].item = "back"} = {}
    BY <1>1
<1>3. BackFrames(m) = {}
    BY <1>2 DEF BackFrames
<1> QED
    BY <1>3 DEF Deaths

(* A respawn is a return. *)
LEMMA AnswerReturns ==
    ASSUME NEW m, Body(m), NEW s \in Answered(m)
    PROVE  RunEnd(m, s) \in Returns(m)
<1>1. /\ RunEnd(m, s) \in Frames(m) /\ RunEnd(m, s) # 0
      /\ Alive(m, RunEnd(m, s)) /\ ~Alive(m, RunEnd(m, s) - 1)
    BY AnsweredFacts
<1> QED
    BY <1>1 DEF Returns

-------------------------------------------------------------------------------
(* No jumps *)

(* No two checkpoints are near each other. *)
LEMMA NearCheckpoints ==
    ASSUME Apart, NEW c \in Checkpoints, NEW d \in Checkpoints, Dist(c, d) <= Near
    PROVE  c = d
<1>1. c \in Nat /\ d \in Nat
    BY PlacesAssumption
<1>2. Dist(c, d) \in Nat
    BY <1>1, DistSymmetric
<1>3. ~(Dist(c, d) > Near)
    BY <1>2 DEF Near
<1> QED
    BY <1>3 DEF Apart

(* The place of a cluster is that of its first and of its last respawn. *)
LEMMA ClusterPlace ==
    ASSUME NEW m, Body(m), NEW h, Route(m, h), Apart, NEW c \in ToSet(Clusters(m))
    PROVE  /\ c.firstdeath \in Answered(m) /\ c.firstdeath \in Nat /\ ~Alive(m, c.firstdeath)
           /\ c.firstdeath < m.length
           /\ c.x = m.icon[RunEnd(m, c.firstdeath)] /\ c.x \in Checkpoints /\ c.x \in Nat
           /\ c.tlast \in Returns(m) /\ c.tlast \in Nat /\ m.icon[c.tlast] = c.x
           /\ c.firstdeath < c.tlast
<1>1. PICK s \in Answered(m), z \in Answered(m) :
               /\ s <= z /\ c.firstdeath = s /\ c.tlast = RunEnd(m, z)
               /\ c.x = m.icon[RunEnd(m, s)]
               /\ Dist(m.icon[RunEnd(m, z)], c.x) <= Near
    BY ClusterFacts
<1>2. RunEnd(m, s) \in Returns(m) /\ RunEnd(m, z) \in Returns(m)
    BY AnswerReturns
<1>3. c.x \in Checkpoints /\ m.icon[c.tlast] \in Checkpoints
    BY <1>1, <1>2 DEF Route
<1>4. m.icon[c.tlast] = c.x
    BY <1>1, <1>3, NearCheckpoints
<1>5. s \in Nat /\ z \in Nat /\ RunEnd(m, z) \in Nat /\ z < RunEnd(m, z) /\ s \in DeadStarts(m)
    BY AnsweredFacts
<1>6. ~Alive(m, s) /\ s < m.length
    BY <1>5 DEF DeadStarts, Frames, Body
<1>7. s < RunEnd(m, z)
    BY <1>1, <1>5
<1> QED
    BY <1>1, <1>2, <1>3, <1>4, <1>5, <1>6, <1>7, PlacesAssumption

(* A cluster's cut begins after a visit of its place, unless its place is the
   start and the player has not been near it. *)
LEMMA ClusterVisit ==
    ASSUME NEW m, Body(m), NEW h, Route(m, h), Apart, NEW c \in ToSet(Clusters(m))
    PROVE  \/ /\ From(m, c) - 1 \in 0 .. c.firstdeath - 1
              /\ Visits(m, From(m, c) - 1, c.x)
           \/ /\ c.x = Min(Places)
              /\ \A f \in 0 .. c.firstdeath - 1 : ~Visits(m, f, c.x)
<1>1. /\ c.firstdeath \in Answered(m) /\ c.firstdeath \in Nat /\ c.firstdeath < m.length
      /\ c.x = m.icon[RunEnd(m, c.firstdeath)] /\ c.x \in Nat
    BY ClusterPlace
<1> DEFINE s == c.firstdeath
           t == RunEnd(m, s)
<1>2. CASE \E f \in 0 .. s - 1 : Visits(m, f, c.x)
    <2>1. \E f \in 0 .. s - 1 : Alive(m, f) /\ Dist(m.icon[f], c.x) <= Near
        BY <1>2 DEF Visits
    <2> QED
        BY <1>1, <2>1, FromFacts DEF Visits
<1>3. CASE \A f \in 0 .. s - 1 : ~Visits(m, f, c.x)
    <2>1. c.x = Min(Places) \/ \E f \in 0 .. t - 1 : Visits(m, f, c.x)
        BY <1>1, AnswerReturns DEF Route
    <2>2. ASSUME NEW f \in 0 .. t - 1, Visits(m, f, c.x) PROVE FALSE
        <3>1. t \in Nat /\ s \in DeadStarts(m) /\ m.length \in Nat
            BY <1>1, AnsweredFacts DEF Body
        <3>2. \A g \in s .. t - 1 : ~Alive(m, g)
            BY <3>1, StretchFacts
        <3>3. f \in 0 .. s - 1 \/ f \in s .. t - 1
            BY <1>1, <3>1
        <3> QED
            BY <1>3, <2>2, <3>2, <3>3 DEF Visits
    <2> QED
        BY <1>3, <2>1, <2>2
<1> QED
    BY <1>2, <1>3

(* Where a cut ends, a cluster ends that began where the cut begins. *)
LEMMA CutIsCluster ==
    ASSUME NEW m, Body(m), NEW h, Route(m, h), Apart, m.events \in Seq(Events),
           NEW f \in Frames(m) \ Cut(m), NEW g \in Frames(m) \ Cut(m), f + 1 < g,
           \A k \in f + 1 .. g - 1 : k \in Cut(m)
    PROVE  /\ Alive(m, f) /\ Alive(m, g)
           /\ \E c \in ToSet(Clusters(m)) : From(m, c) = f + 1 /\ c.tlast = g
<1>1. m.length \in Nat /\ f \in Nat /\ g \in Nat /\ f < m.length /\ g < m.length
    BY DEF Body, Frames
<1>2. Deaths(m) = DeadStarts(m)
    BY EveryStretch
<1>3. Alive(m, f) /\ Alive(m, g)
    <2>1. ASSUME NEW k \in Frames(m), ~Alive(m, k) PROVE k \in Cut(m)
        <3>1. \E s \in Deaths(m) : k \in s .. RunEnd(m, s) - 1
            BY <1>1, <1>2, <2>1, DeadFrame
        <3> QED
            BY <3>1, CutFacts
    <2> QED
        BY <2>1
<1>4. ASSUME NEW c \in ToSet(Clusters(m)), NEW k \in {f, g}, k \in From(m, c) .. c.tlast - 1 PROVE FALSE
    <2>1. k \in Frames(m) /\ k \notin Cut(m)
        OBVIOUS
    <2> QED
        BY <1>4, <2>1, CutFacts
<1>5. \A c \in ToSet(Clusters(m)) :
          /\ c.firstdeath \in Nat /\ c.tlast \in Nat /\ c.firstdeath < c.tlast
          /\ From(m, c) \in 0 .. c.firstdeath
    <2> SUFFICES ASSUME NEW c \in ToSet(Clusters(m))
                 PROVE  /\ c.firstdeath \in Nat /\ c.tlast \in Nat /\ c.firstdeath < c.tlast
                        /\ From(m, c) \in 0 .. c.firstdeath
        OBVIOUS
    <2>1. /\ c.firstdeath \in Nat /\ c.tlast \in Nat /\ c.firstdeath < c.tlast
          /\ c.firstdeath < m.length /\ c.x \in Nat
        BY ClusterPlace
    <2> QED
        BY <2>1, FromFacts
<1>6. \E c \in ToSet(Clusters(m)) : From(m, c) <= f + 1 /\ f + 1 < c.tlast
    <2>1. f + 1 \in Frames(m) /\ f + 1 \in Cut(m)
        BY <1>1 DEF Frames
    <2>2. CASE \E s \in Deaths(m) : f + 1 \in s .. RunEnd(m, s) - 1
        <3>1. PICK s \in DeadStarts(m) : f + 1 \in s .. RunEnd(m, s) - 1
            BY <1>2, <2>2
        <3>2. /\ s \in Nat /\ RunEnd(m, s) \in Nat /\ \A k \in s .. RunEnd(m, s) - 1 : ~Alive(m, k)
            BY <1>1, StretchFacts
        <3>3. s = f + 1
            <4>1. f \notin s .. RunEnd(m, s) - 1
                BY <1>3, <3>2
            <4> QED
                BY <1>1, <3>1, <3>2, <4>1
        <3>4. RunEnd(m, s) <= g
            <4>1. g \notin s .. RunEnd(m, s) - 1
                BY <1>3, <3>2
            <4> QED
                BY <1>1, <3>2, <3>3, <4>1
        <3>5. s \in Answered(m)
            BY <1>1, <1>2, <3>2, <3>4 DEF Answered
        <3>6. PICK c \in ToSet(Clusters(m)) : Holds(m, c, s)
            BY <3>5, ClusterOf
        <3>7. c.firstdeath <= f + 1 /\ f + 1 < c.tlast
            BY <1>1, <1>5, <3>1, <3>2, <3>3, <3>6 DEF Holds
        <3>8. From(m, c) <= f + 1
            <4>1. c.firstdeath \in Nat /\ From(m, c) \in 0 .. c.firstdeath
                BY <1>5
            <4> QED
                BY <1>1, <3>7, <4>1
        <3> QED
            BY <3>7, <3>8
    <2>3. CASE \E c \in ToSet(Clusters(m)) : f + 1 \in From(m, c) .. c.tlast - 1
        <3>1. PICK c \in ToSet(Clusters(m)) : f + 1 \in From(m, c) .. c.tlast - 1
            BY <2>3
        <3>2. c.firstdeath \in Nat /\ c.tlast \in Nat /\ From(m, c) \in 0 .. c.firstdeath
            BY <1>5
        <3>3. From(m, c) <= f + 1 /\ f + 1 < c.tlast
            BY <1>1, <3>1, <3>2
        <3> QED
            BY <3>3
    <2> QED
        BY <2>1, <2>2, <2>3, CutFacts
<1>7. PICK c \in ToSet(Clusters(m)) : From(m, c) <= f + 1 /\ f + 1 < c.tlast
    BY <1>6
<1>8. c.firstdeath \in Nat /\ c.tlast \in Nat /\ From(m, c) \in 0 .. c.firstdeath
    BY <1>5
<1>9. From(m, c) = f + 1
    <2>1. f \notin From(m, c) .. c.tlast - 1
        BY <1>4
    <2> QED
        BY <1>1, <1>7, <1>8, <2>1
<1>10. c.tlast <= g
    <2>1. g \notin From(m, c) .. c.tlast - 1
        BY <1>4
    <2> QED
        BY <1>1, <1>8, <1>9, <2>1
<1>11. ASSUME c.tlast < g PROVE FALSE
    <2> DEFINE t == c.tlast
    <2>1. t \in Returns(m) /\ m.icon[t] = c.x /\ c.x \in Nat /\ Alive(m, t) /\ t \in Frames(m)
        BY ClusterPlace DEF Returns
    <2>2. t \in Cut(m)
        BY <1>1, <1>7, <1>8, <1>11
    <2>3. ASSUME NEW s \in Deaths(m), t \in s .. RunEnd(m, s) - 1 PROVE FALSE
        BY <1>1, <1>2, <2>1, <2>3, StretchFacts
    <2>4. PICK d \in ToSet(Clusters(m)) : t \in From(m, d) .. d.tlast - 1
        BY <2>1, <2>2, <2>3, CutFacts
    <2>5. /\ d.x \in Checkpoints /\ d.x \in Nat /\ d.tlast \in Returns(m) /\ d.tlast \in Nat
          /\ m.icon[d.tlast] = d.x
        BY ClusterPlace
    <2>6. /\ t < d.tlast /\ From(m, d) <= t
          /\ d.firstdeath \in Nat /\ From(m, d) \in 0 .. d.firstdeath
        BY <1>5, <1>8, <2>4, <2>5
    <2>7. c.x <= d.x
        BY <2>1, <2>5, <2>6 DEF Route
    <2>8. d.x <= c.x
        <3>1. CASE /\ From(m, d) - 1 \in 0 .. d.firstdeath - 1
                   /\ Visits(m, From(m, d) - 1, d.x)
            <4> DEFINE a == From(m, d) - 1
            <4>1. a < t /\ a \in Frames(m)
                BY <1>1, <1>8, <2>1, <2>6, <3>1 DEF Frames
            <4> HIDE DEF a
            <4>2. Visits(m, a, d.x)
                BY <3>1 DEF a
            <4>3. d.x <= m.icon[t]
                BY <2>1, <2>5, <4>1, <4>2 DEF Route
            <4> QED
                BY <2>1, <4>3
        <3>2. CASE d.x = Min(Places)
            <4>1. c.x \in Places
                BY ClusterPlace, PlacesAssumption
            <4>2. \A y \in Places : Min(Places) <= y
                BY <4>1, PlacesAssumption, Least
            <4> QED
                BY <3>2, <4>1, <4>2
        <3> QED
            BY <3>1, <3>2, ClusterVisit
    <2>9. c.x = d.x
        BY <2>1, <2>5, <2>7, <2>8
    <2>10. ~(Dist(c.x, d.x) > Near)
        <3>1. Dist(d.x, d.x) <= Near /\ Dist(d.x, d.x) \in Nat
            BY <2>5, DistHere, DistSymmetric
        <3> QED
            BY <2>9, <3>1 DEF Near
    <2>11. c = d
        BY <2>10, ClustersApart
    <2> QED
        BY <1>8, <2>6, <2>11
<1>12. c.tlast = g
    BY <1>1, <1>8, <1>10, <1>11
<1> QED
    BY <1>3, <1>9, <1>12

(* Where it begins the player is near the cluster's place. *)
LEMMA CutBeginsNear ==
    ASSUME NEW m, Body(m), NEW h, Route(m, h), Apart, m.events \in Seq(Events),
           m.icon[0] # Dead => Dist(m.icon[0], Min(Places)) <= Near,
           NEW f \in Frames(m), Alive(m, f),
           NEW c \in ToSet(Clusters(m)), From(m, c) = f + 1
    PROVE  Dist(m.icon[f], c.x) <= Near
<1>1. m.length \in Nat /\ f \in Nat /\ f < m.length
    BY DEF Body, Frames
<1>2. /\ c.firstdeath \in Nat /\ c.x \in Nat /\ ~Alive(m, c.firstdeath)
      /\ c.firstdeath < m.length
    BY ClusterPlace
<1>3. CASE Visits(m, From(m, c) - 1, c.x)
    <2>1. From(m, c) - 1 = f
        BY <1>1
    <2> QED
        BY <1>3, <2>1 DEF Visits
<1>4. CASE c.x = Min(Places) /\ \A k \in 0 .. c.firstdeath - 1 : ~Visits(m, k, c.x)
    <2>1. c.firstdeath # 0
        <3>1. From(m, c) \in 0 .. c.firstdeath
            BY <1>2, FromFacts
        <3> QED
            BY <1>1, <1>2, <3>1
    <2>2. ~Alive(m, 0)
        <3>1. 0 \in 0 .. c.firstdeath - 1
            BY <1>2, <2>1
        <3>2. ~Visits(m, 0, c.x)
            BY <1>4, <3>1
        <3> QED
            BY <1>4, <3>2 DEF Visits, Alive
    <2>3. 0 \in DeadStarts(m)
        BY <1>1, <2>2 DEF DeadStarts, Frames
    <2>4. /\ RunEnd(m, 0) \in Nat /\ \A k \in 0 .. RunEnd(m, 0) - 1 : ~Alive(m, k)
        BY <1>1, <2>3, StretchFacts
    <2>5. RunEnd(m, 0) <= f
        BY <1>1, <2>4
    <2>6. 0 \in Answered(m)
        BY <1>1, <2>3, <2>4, <2>5, EveryStretch DEF Answered
    <2>7. PICK d \in ToSet(Clusters(m)) : Holds(m, d, 0)
        BY <2>6, ClusterOf
    <2>8. d.firstdeath = 0 /\ d.x \in Nat
        <3>1. d.firstdeath \in Nat /\ d.x \in Nat
            BY ClusterPlace
        <3> QED
            BY <2>7, <3>1 DEF Holds
    <2>9. d.x = Min(Places)
        <3>1. d.x = m.icon[RunEnd(m, 0)]
            BY <2>8, ClusterPlace
        <3>2. d.x = Min(Places) \/ \E k \in 0 .. RunEnd(m, 0) - 1 : Visits(m, k, d.x)
            BY <2>6, <3>1, AnswerReturns DEF Route
        <3> QED
            BY <2>4, <3>2 DEF Visits
    <2>10. ~(Dist(c.x, d.x) > Near)
        <3>1. Dist(d.x, d.x) <= Near /\ Dist(d.x, d.x) \in Nat
            BY <2>8, DistHere, DistSymmetric
        <3> QED
            BY <1>4, <2>9, <3>1 DEF Near
    <2>11. c = d
        BY <2>10, ClustersApart
    <2> QED
        BY <2>1, <2>8, <2>11
<1> QED
    BY <1>3, <1>4, ClusterVisit

(* The two sides of a cut are near each other. *)
LEMMA NoJump ==
    ASSUME Body(macro), macro.events \in Seq(Events), trimmed = Trim(macro),
           features = {} /\ Apart => Route(macro, cp)
    PROVE  Seamless
<1> SUFFICES ASSUME features = {}, AtStart, Apart,
                    NEW n \in Frames(trimmed) \ {0}, Origin[n] # Origin[n - 1] + 1
             PROVE  /\ trimmed.icon[n - 1] # Dead /\ trimmed.icon[n] # Dead
                    /\ Dist(trimmed.icon[n - 1], trimmed.icon[n]) <= Near
    BY DEF Seamless
<1> DEFINE f == Origin[n - 1]
           g == Origin[n]
<1>1. trimmed.length \in Nat
    BY OriginFacts DEF Body
<1>2. n \in Nat /\ n - 1 \in Frames(trimmed) /\ n - 1 < n /\ n - 1 \in Nat
    BY <1>1 DEF Frames
<1>3. Deaths(macro) # {}
    <2>1. SUFFICES ASSUME Deaths(macro) = {} PROVE FALSE
        OBVIOUS
    <2>2. Origin[n] = n /\ Origin[n - 1] = n - 1
        BY <1>2, <2>1, OriginFacts
    <2> QED
        BY <1>2, <2>2
<1>4. {Origin[k] : k \in Frames(trimmed)} = Frames(macro) \ Cut(macro)
    BY <1>3, OriginFacts
<1>5. /\ f \in Frames(macro) \ Cut(macro) /\ g \in Frames(macro) \ Cut(macro)
      /\ f \in Nat /\ g \in Nat /\ f < g
      /\ trimmed.icon[n - 1] = macro.icon[f] /\ trimmed.icon[n] = macro.icon[g]
    <2>1. f \in Nat /\ g \in Nat /\ f < g
          /\ trimmed.icon[n - 1] = macro.icon[f] /\ trimmed.icon[n] = macro.icon[g]
        BY <1>2, OriginFacts
    <2> QED
        BY <1>2, <1>4, <2>1
<1>6. f + 1 < g
    BY <1>5
<1>7. ASSUME NEW k \in f + 1 .. g - 1 PROVE k \in Cut(macro)
    <2>1. SUFFICES ASSUME k \notin Cut(macro) PROVE FALSE
        OBVIOUS
    <2>2. k \in Frames(macro)
        <3>1. macro.length \in Nat /\ g < macro.length
            BY <1>5 DEF Body, Frames
        <3> QED
            BY <1>5, <3>1 DEF Frames
    <2>3. PICK j \in Frames(trimmed) : Origin[j] = k
        BY <1>4, <2>1, <2>2
    <2>4. j \in Nat /\ j \in Frames(trimmed)
        BY OriginFacts
    <2>5. CASE j = n \/ j = n - 1
        BY <1>5, <2>3, <2>5
    <2>6. CASE j < n - 1
        <3>1. Origin[j] < f
            BY <1>2, <2>4, <2>6, OriginFacts
        <3> QED
            BY <1>5, <2>3, <3>1
    <2>7. CASE n < j
        <3>1. g < Origin[j]
            BY <1>2, <2>4, <2>7, OriginFacts
        <3> QED
            BY <1>5, <2>3, <3>1
    <2> QED
        BY <1>2, <2>4, <2>5, <2>6, <2>7
<1> HIDE DEF f, g
<1>8. /\ Alive(macro, f) /\ Alive(macro, g)
      /\ \E c \in ToSet(Clusters(macro)) : From(macro, c) = f + 1 /\ c.tlast = g
    BY <1>5, <1>6, <1>7, CutIsCluster
<1>9. PICK c \in ToSet(Clusters(macro)) : From(macro, c) = f + 1 /\ c.tlast = g
    BY <1>8
<1>10. macro.icon[g] = c.x
    BY <1>9, ClusterPlace
<1>11. Dist(macro.icon[f], c.x) <= Near
    BY <1>5, <1>8, <1>9, CutBeginsNear DEF AtStart
<1> QED
    BY <1>5, <1>8, <1>10, <1>11 DEF Alive

-------------------------------------------------------------------------------
(* What the recording does *)

(* The macro has an icon for every frame and its events in order; a trimmed one
   is what trimmacro makes of it. *)
Recorded ==
    /\ features \subseteq {"back", "edge"}
    /\ macro.length \in 0 .. MaxFrames
    /\ macro.icon \in [Frames(macro) -> Places \cup {Dead}]
    /\ Ordered(macro.events, macro.length)
    /\ held \in Inputted
    /\ cp \in Checkpoints
    /\ trimmed # NoMacro => trimmed = Trim(macro)

(* Without backtracks the player goes the way of Route. *)
OnRoute == (features = {} /\ Apart) => Route(macro, cp)

(* The events of one frame. *)
LEMMA FrameEvents ==
    ASSUME NEW f \in Nat, NEW h \in Inputted, NEW old,
           NEW back \in {<<>>, <<Event(f, "back", TRUE)>>}
    PROVE  /\ back \o Changes(f, old, h) \in Seq(Events)
           /\ \A k \in 1 .. Len(back \o Changes(f, old, h)) : (back \o Changes(f, old, h))[k].at = f
           /\ back = <<>> => \A k \in 1 .. Len(back \o Changes(f, old, h)) :
                                (back \o Changes(f, old, h))[k].item # "back"
<1> DEFINE c == Changes(f, old, h)
<1>1. /\ c \in Seq(Events)
      /\ \A k \in 1 .. Len(c) : c[k].at = f /\ c[k].item \in Items
    BY ChangesFacts
<1> HIDE DEF c
<1>2. CASE back = <<>>
    <2>1. back \o c = c
        BY <1>1, <1>2
    <2> QED
        BY <1>1, <2>1, ItemsAssumption DEF c
<1>3. CASE back = <<Event(f, "back", TRUE)>>
    <2> DEFINE e == Event(f, "back", TRUE)
    <2>1. e \in Events /\ e.at = f
        BY DEF Event, Events
    <2> HIDE DEF e
    <2>2. /\ <<e>> \o c \in Seq(Events) /\ Len(<<e>> \o c) = Len(c) + 1 /\ Len(c) \in Nat
          /\ (<<e>> \o c)[1] = e
          /\ \A k \in 1 .. Len(c) : (<<e>> \o c)[k + 1] = c[k]
        BY <1>1, <2>1
    <2>3. ASSUME NEW k \in 1 .. Len(<<e>> \o c) PROVE (<<e>> \o c)[k].at = f
        <3>1. CASE k = 1
            BY <2>1, <2>2, <3>1
        <3>2. CASE k # 1
            <4>1. k - 1 \in 1 .. Len(c) /\ k - 1 + 1 = k
                BY <2>2, <3>2
            <4>2. (<<e>> \o c)[k] = c[k - 1]
                BY <2>2, <4>1
            <4> QED
                BY <1>1, <4>1, <4>2
        <3> QED
            BY <3>1, <3>2
    <2>4. back = <<e>> /\ back # <<>>
        BY <1>3 DEF e
    <2> QED
        BY <2>2, <2>3, <2>4 DEF c
<1> QED
    BY <1>2, <1>3

(* A frame is recorded. *)
LEMMA FrameRecorded ==
    ASSUME Recorded, trimmed = NoMacro, macro.length < MaxFrames,
           NEW h \in Inputted, NEW p \in Places \cup {Dead},
           NEW back \in {<<>>, <<Event(macro.length, "back", TRUE)>>},
           Frame(h, p, back), cp' \in Checkpoints, UNCHANGED <<features, trimmed>>
    PROVE  /\ Recorded'
           /\ macro.length \in Nat /\ macro'.length = macro.length + 1
           /\ macro'.icon = [g \in 0 .. macro.length |-> IF g = macro.length THEN p ELSE macro.icon[g]]
           /\ (back = <<>> /\ \A k \in 1 .. Len(macro.events) : macro.events[k].item # "back") =>
                \A k \in 1 .. Len(macro'.events) : macro'.events[k].item # "back"
<1> DEFINE f  == macro.length
           es == macro.events
           bs == back \o Changes(f, held, h)
<1>1. /\ f \in Nat /\ f \in 0 .. MaxFrames /\ Ordered(es, f)
      /\ back \in {<<>>, <<Event(f, "back", TRUE)>>}
    <2>1. f \in 0 .. MaxFrames
        BY DEF Recorded
    <2>2. f \in Nat
        BY <2>1, BoundsAssumption
    <2>3. Ordered(es, f)
        BY DEF Recorded
    <2>4. back \in {<<>>, <<Event(f, "back", TRUE)>>}
        OBVIOUS
    <2> HIDE DEF f, es
    <2> QED
        BY <2>1, <2>2, <2>3, <2>4
<1>2. macro'.length = f + 1 /\ macro'.events = es \o bs /\ held' = h
      /\ macro'.icon = [g \in 0 .. f |-> IF g = f THEN p ELSE macro.icon[g]]
    BY DEF Frame
<1> HIDE DEF f
<1>3. /\ bs \in Seq(Events) /\ \A k \in 1 .. Len(bs) : bs[k].at = f
      /\ back = <<>> => \A k \in 1 .. Len(bs) : bs[k].item # "back"
    <2> DEFINE old == held
    <2>1. f \in Nat /\ h \in Inputted /\ back \in {<<>>, <<Event(f, "back", TRUE)>>}
        BY <1>1
    <2> HIDE DEF old, es
    <2>2. /\ back \o Changes(f, old, h) \in Seq(Events)
          /\ \A k \in 1 .. Len(back \o Changes(f, old, h)) : (back \o Changes(f, old, h))[k].at = f
          /\ back = <<>> => \A k \in 1 .. Len(back \o Changes(f, old, h)) :
                               (back \o Changes(f, old, h))[k].item # "back"
        BY <2>1, FrameEvents
    <2>3. bs = back \o Changes(f, old, h)
        BY DEF old
    <2> HIDE DEF bs
    <2> QED
        BY <2>2, <2>3
<1> HIDE DEF bs, es
<1>4. /\ Ordered(es \o bs, f + 1)
      /\ Len(es) \in Nat /\ Len(bs) \in Nat /\ Len(es \o bs) = Len(es) + Len(bs)
      /\ \A k \in 1 .. Len(es) : (es \o bs)[k] = es[k]
      /\ \A k \in 1 .. Len(bs) : (es \o bs)[Len(es) + k] = bs[k]
    BY <1>1, <1>3, OrderedMore
<1>5. f + 1 \in 0 .. MaxFrames /\ f + 1 - 1 = f
    <2>1. f < MaxFrames
        BY DEF f
    <2> QED
        BY <1>1, <2>1, BoundsAssumption
<1>6. macro'.icon \in [0 .. f -> Places \cup {Dead}]
    <2>1. \A g \in 0 .. f : g = f \/ g \in Frames(macro)
        BY <1>1 DEF Frames, f
    <2>2. \A g \in Frames(macro) : macro.icon[g] \in Places \cup {Dead}
        BY DEF Recorded
    <2> QED
        BY <1>2, <2>1, <2>2
<1>7. Frames(macro') = 0 .. f
    <2>1. macro'.length - 1 = f
        <3>1. macro'.length = f + 1
            BY <1>2
        <3>2. f \in Nat
            BY <1>1
        <3> QED
            BY <3>1, <3>2
    <2> QED
        BY <2>1 DEF Frames
<1>8. Recorded'
    <2>1. features' \subseteq {"back", "edge"} /\ trimmed' = NoMacro /\ cp' \in Checkpoints
        BY DEF Recorded
    <2>2. macro'.length \in 0 .. MaxFrames
        BY <1>2, <1>5
    <2>3. macro'.icon \in [Frames(macro') -> Places \cup {Dead}]
        BY <1>6, <1>7
    <2>4. Ordered(macro'.events, macro'.length)
        BY <1>2, <1>4
    <2>5. held' \in Inputted
        BY <1>2
    <2> QED
        BY <2>1, <2>2, <2>3, <2>4, <2>5 DEF Recorded
<1>9. ASSUME back = <<>>, \A k \in 1 .. Len(es) : es[k].item # "back",
             NEW k \in 1 .. Len(es \o bs)
      PROVE  (es \o bs)[k].item # "back"
    <2>1. CASE k \in 1 .. Len(es)
        BY <1>4, <1>9, <2>1
    <2>2. CASE k \notin 1 .. Len(es)
        <3> DEFINE j == k - Len(es)
        <3>1. j \in 1 .. Len(bs) /\ Len(es) + j = k
            BY <1>4, <2>2
        <3> HIDE DEF j
        <3>2. (es \o bs)[k] = bs[j]
            BY <1>4, <3>1
        <3> QED
            BY <1>3, <1>9, <3>1, <3>2
    <2> QED
        BY <2>1, <2>2
<1>10. (back = <<>> /\ \A k \in 1 .. Len(es) : es[k].item # "back") =>
          \A k \in 1 .. Len(macro'.events) : macro'.events[k].item # "back"
    BY <1>2, <1>9
<1> QED
    BY <1>1, <1>2, <1>8, <1>10 DEF f, es

(* One frame further on the route. *)
LEMMA FrameOnRoute ==
    ASSUME Recorded, OnRoute, trimmed = NoMacro, macro.length < MaxFrames,
           NEW h \in Inputted, NEW p \in Places \cup {Dead},
           Frame(h, p, <<>>), cp' \in Checkpoints, UNCHANGED <<features, trimmed>>,
           (features = {} /\ Apart) =>
              /\ cp <= cp'
              /\ cp' = cp \/ (p # Dead /\ Dist(p, cp') <= Near)
              /\ p # Dead => \A d \in Checkpoints : Dist(p, d) <= Near => d <= cp'
              /\ (p # Dead /\ Here = Dead) => p = cp /\ cp' = cp
    PROVE  OnRoute'
<1> SUFFICES ASSUME features = {}, Apart PROVE Route(macro', cp')
    <2>1. features' = features /\ (Apart' <=> Apart)
        BY DEF Apart, Dist, Near
    <2> QED
        BY <2>1 DEF OnRoute
<1>1. Route(macro, cp) /\ Body(macro) /\ cp \in Checkpoints
    <2>1. macro.length \in Nat
        BY BoundsAssumption DEF Recorded
    <2> QED
        BY <2>1 DEF OnRoute, Recorded, Body
<1>2. /\ macro.length \in Nat /\ macro'.length = macro.length + 1
      /\ macro'.icon = [g \in 0 .. macro.length |-> IF g = macro.length THEN p ELSE macro.icon[g]]
      /\ \A k \in 1 .. Len(macro'.events) : macro'.events[k].item # "back"
    BY <1>1, FrameRecorded DEF Route
<1>3. macro.length \in Returns(macro') => p = cp /\ cp' = cp
    <2> SUFFICES ASSUME macro.length \in Returns(macro') PROVE p # Dead /\ Here = Dead
        OBVIOUS
    <2>1. macro.length # 0 /\ macro'.icon[macro.length] # Dead /\ ~(macro'.icon[macro.length - 1] # Dead)
        BY DEF Returns, Alive
    <2>2. macro.length - 1 \in 0 .. macro.length /\ macro.length - 1 # macro.length
        BY <1>2, <2>1
    <2>3. macro.icon[macro.length - 1] = Dead
        BY <1>2, <2>1, <2>2
    <2>4. macro.length \in 0 .. macro.length
        BY <1>2
    <2> QED
        BY <1>2, <2>1, <2>3, <2>4 DEF Here
<1> HIDE DEF Frame
<1> DEFINE n == macro'
           e == cp'
<1>4. /\ e \in Checkpoints /\ cp <= e
      /\ e = cp \/ (p # Dead /\ Dist(p, e) <= Near)
      /\ p # Dead => \A d \in Checkpoints : Dist(p, d) <= Near => d <= e
    OBVIOUS
<1> HIDE DEF n, e
<1>5. Route(n, e)
    BY <1>1, <1>2, <1>3, <1>4, RouteStep DEF n, e
<1> QED
    BY <1>5 DEF n, e

-------------------------------------------------------------------------------
(* Every step of the recording *)

(* The checkpoint that holds at p: the furthest of those near, if it is ahead. *)
LEMMA TouchedFacts ==
    ASSUME cp \in Checkpoints, NEW p \in Places, NEW e \in Touched(p)
    PROVE  /\ e \in Checkpoints
           /\ features = {} =>
                /\ cp <= e
                /\ e = cp \/ Dist(p, e) <= Near
                /\ \A d \in Checkpoints : Dist(p, d) <= Near => d <= e
<1> DEFINE ahead(d) == {c \in Checkpoints : c > cp /\ Dist(c, p) <= d}
           A == ahead(Near)
<1>1. p \in Nat /\ cp \in Nat /\ Checkpoints \subseteq Nat
    BY PlacesAssumption
<1>2. \A c \in Checkpoints : Dist(c, p) = Dist(p, c) /\ Dist(p, c) \in Nat
    BY <1>1, DistSymmetric
<1>3. \A c \in Checkpoints : c <= cp \/ c \in A \/ ~(Dist(p, c) <= Near)
    BY <1>1, <1>2
<1>4. e \in (IF A # {} THEN {Max(A)}
             ELSE {cp} \cup (IF "edge" \in features THEN ahead(Far) ELSE {}))
    BY DEF Touched
<1>5. CASE A # {}
    <2>1. A \subseteq Int /\ p + Near \in Int /\ \A y \in A : y <= p + Near
        <3>1. A \subseteq Nat /\ p + Near \in Int
            <4>1. A \subseteq Nat
                BY <1>1
            <4>2. p + Near \in Int
                BY <1>1 DEF Near
            <4> QED
                BY <4>1, <4>2
        <3>2. ASSUME NEW y \in A PROVE y <= p + Near
            <4>1. y \in Nat /\ Dist(y, p) <= Near
                BY <3>1
            <4> HIDE DEF A
            <4> QED
                BY <1>1, <4>1 DEF Dist, Near
        <3> HIDE DEF A
        <3> QED
            BY <3>1, <3>2
    <2> HIDE DEF A
    <2>2. Max(A) \in A /\ \A y \in A : Max(A) >= y
        BY <1>5, <2>1, Greatest
    <2>3. e = Max(A)
        BY <1>4, <1>5
    <2>4. e \in Checkpoints /\ e > cp /\ Dist(e, p) <= Near
        BY <2>2, <2>3 DEF A
    <2>5. ASSUME NEW d \in Checkpoints, Dist(p, d) <= Near PROVE d <= e
        <3>1. CASE d <= cp
            BY <1>1, <2>4, <3>1
        <3>2. CASE d \in A
            <4>1. e >= d
                BY <2>2, <2>3, <3>2
            <4> QED
                BY <1>1, <2>4, <4>1
        <3> QED
            BY <1>3, <2>5, <3>1, <3>2
    <2> QED
        BY <1>1, <1>2, <2>4, <2>5
<1>6. CASE A = {}
    <2>1. e = cp \/ ("edge" \in features /\ e \in ahead(Far))
        BY <1>4, <1>6
    <2>2. e \in Checkpoints
        BY <2>1
    <2>3. features = {} => e = cp
        BY <2>1
    <2>4. \A d \in Checkpoints : Dist(p, d) <= Near => d <= cp
        BY <1>3, <1>6
    <2> QED
        BY <1>1, <2>2, <2>3, <2>4
<1> QED
    BY <1>5, <1>6

(* Where the recording begins, and that a player without a frame is not dead. *)
LEMMA HereFacts ==
    ASSUME Recorded, Here = Dead
    PROVE  macro.length # 0
<1>1. Min(Places) # Dead
    BY PlacesAssumption
<1> QED
    BY <1>1 DEF Here

(* No frame, no event: nothing is wrong with the empty macro. *)
LEMMA InitRecorded == Init => Recorded /\ OnRoute
<1> SUFFICES ASSUME Init PROVE Recorded /\ OnRoute
    OBVIOUS
<1>1. /\ macro.length = 0 /\ macro.events = <<>> /\ macro.icon = [f \in {} |-> Dead]
      /\ cp = Min(Places) /\ held = Released /\ trimmed = NoMacro
      /\ features \subseteq {"back", "edge"}
    BY DEF Init
<1>2. Frames(macro) = {}
    BY <1>1 DEF Frames
<1>3. cp \in Checkpoints /\ held \in Inputted
    BY <1>1, PlacesAssumption DEF Released, Inputted
<1>4. macro.length \in 0 .. MaxFrames
    BY <1>1, BoundsAssumption
<1>5. macro.icon \in [Frames(macro) -> Places \cup {Dead}]
    BY <1>1, <1>2
<1>6. Ordered(macro.events, macro.length)
    BY <1>1 DEF Ordered
<1>7. Recorded
    BY <1>1, <1>3, <1>4, <1>5, <1>6 DEF Recorded
<1>8. Route(macro, cp)
    BY <1>1, <1>2 DEF Route, Returns
<1> QED
    BY <1>7, <1>8 DEF OnRoute

(* The player moves. *)
LEMMA MoveStep ==
    ASSUME Recorded, OnRoute, Move
    PROVE  Recorded' /\ OnRoute'
<1>1. /\ trimmed = NoMacro /\ macro.length < MaxFrames /\ Here # Dead
      /\ UNCHANGED <<features, trimmed>>
    BY DEF Move, Recording
<1>2. PICK h \in Inputs, p \in Places : Frame(h, p, <<>>) /\ cp' \in Touched(p)
    BY DEF Move
<1>3. h \in Inputted /\ p \in Places \cup {Dead} /\ p # Dead /\ cp \in Checkpoints
    BY PlacesAssumption DEF Inputs, Inputted, Recorded
<1>4. /\ cp' \in Checkpoints
      /\ features = {} =>
           /\ cp <= cp'
           /\ cp' = cp \/ Dist(p, cp') <= Near
           /\ \A d \in Checkpoints : Dist(p, d) <= Near => d <= cp'
    BY <1>2, <1>3, TouchedFacts
<1>5. Recorded'
    BY <1>1, <1>2, <1>3, <1>4, FrameRecorded
<1>6. OnRoute'
    BY <1>1, <1>2, <1>3, <1>4, FrameOnRoute
<1> QED
    BY <1>5, <1>6

(* The player dies. *)
LEMMA DieStep ==
    ASSUME Recorded, OnRoute, Die
    PROVE  Recorded' /\ OnRoute'
<1>1. /\ trimmed = NoMacro /\ macro.length < MaxFrames
      /\ UNCHANGED <<features, cp, trimmed>>
    BY DEF Die, Recording
<1>2. PICK h \in Inputs : Frame(h, Dead, <<>>)
    BY DEF Die
<1>3. h \in Inputted /\ Dead \in Places \cup {Dead} /\ cp \in Checkpoints /\ cp \in Nat
    BY PlacesAssumption DEF Inputs, Inputted, Recorded
<1>4. cp' = cp /\ cp' \in Checkpoints /\ cp <= cp'
    BY <1>1, <1>3
<1>5. Recorded'
    BY <1>1, <1>2, <1>3, <1>4, FrameRecorded
<1>6. OnRoute'
    BY <1>1, <1>2, <1>3, <1>4, FrameOnRoute
<1> QED
    BY <1>5, <1>6

(* The player is respawned at the checkpoint, and no other is near it. *)
LEMMA RespawnStep ==
    ASSUME Recorded, OnRoute, Respawn
    PROVE  Recorded' /\ OnRoute'
<1>1. /\ trimmed = NoMacro /\ macro.length < MaxFrames
      /\ UNCHANGED <<features, cp, trimmed>>
    BY DEF Respawn, Recording
<1>2. PICK h \in Inputs : Frame(h, cp, <<>>)
    BY DEF Respawn
<1>3. h \in Inputted /\ cp \in Places \cup {Dead} /\ cp \in Checkpoints /\ cp \in Nat
    BY PlacesAssumption DEF Inputs, Inputted, Recorded
<1>4. cp' = cp /\ cp' \in Checkpoints /\ cp <= cp'
    BY <1>1, <1>3
<1>5. Recorded'
    BY <1>1, <1>2, <1>3, <1>4, FrameRecorded
<1>6. Apart => \A d \in Checkpoints : Dist(cp, d) <= Near => d <= cp'
    <2> SUFFICES ASSUME Apart, NEW d \in Checkpoints, Dist(cp, d) <= Near PROVE d <= cp
        BY <1>4
    <2>1. d = cp
        BY <1>3, NearCheckpoints
    <2> QED
        BY <1>3, <2>1
<1>7. OnRoute'
    BY <1>1, <1>2, <1>3, <1>4, <1>6, FrameOnRoute
<1> QED
    BY <1>5, <1>7

(* A backtrack is recorded; the way of the player is another one then. *)
LEMMA BackStep ==
    ASSUME Recorded, OnRoute, Back
    PROVE  Recorded' /\ OnRoute'
<1>1. /\ trimmed = NoMacro /\ macro.length < MaxFrames
      /\ UNCHANGED <<features, trimmed>> /\ "back" \in features
    BY DEF Back, Recording
<1>2. PICK h \in Inputs, c \in {d \in Checkpoints : d <= cp} :
           Frame(h, Dead, <<Event(macro.length, "back", TRUE)>>) /\ cp' = c
    BY DEF Back
<1>3. h \in Inputted /\ Dead \in Places \cup {Dead} /\ cp' \in Checkpoints
    BY <1>2 DEF Inputs, Inputted
<1> DEFINE back == <<Event(macro.length, "back", TRUE)>>
<1>4. back \in {<<>>, <<Event(macro.length, "back", TRUE)>>} /\ Frame(h, Dead, back)
    BY <1>2
<1> HIDE DEF back
<1>5. Recorded'
    BY <1>1, <1>3, <1>4, FrameRecorded
<1>6. OnRoute'
    BY <1>1 DEF OnRoute
<1> QED
    BY <1>5, <1>6

(* Nothing of the recording changes when it is trimmed. *)
LEMMA ReplayBegins ==
    ASSUME Recorded, OnRoute, Replay
    PROVE  Recorded' /\ OnRoute'
<1>1. /\ trimmed' = Trim(macro) /\ macro' = macro /\ features' = features
      /\ held' = held /\ cp' = cp
    BY DEF Replay
<1>2. trimmed' = Trim(macro')
    BY <1>1
<1>3. Recorded'
    BY <1>1, <1>2 DEF Recorded
<1>4. OnRoute'
    BY <1>1 DEF OnRoute
<1> QED
    BY <1>3, <1>4

(* What is recorded stays so, whatever happens next. *)
LEMMA RecordedStep == Recorded /\ OnRoute /\ [Next]_vars => Recorded' /\ OnRoute'
<1> SUFFICES ASSUME Recorded, OnRoute, [Next]_vars PROVE Recorded' /\ OnRoute'
    OBVIOUS
<1>1. CASE Move
    BY <1>1, MoveStep
<1>2. CASE Die
    BY <1>2, DieStep
<1>3. CASE Respawn
    BY <1>3, RespawnStep
<1>4. CASE Back
    BY <1>4, BackStep
<1>5. CASE Replay
    BY <1>5, ReplayBegins
<1>6. CASE UNCHANGED vars
    <2>1. /\ trimmed' = trimmed /\ macro' = macro /\ features' = features
          /\ held' = held /\ cp' = cp
        BY <1>6 DEF vars
    <2>2. Recorded'
        BY <2>1 DEF Recorded
    <2>3. OnRoute'
        BY <2>1 DEF OnRoute
    <2> QED
        BY <2>2, <2>3
<1> QED
    BY <1>1, <1>2, <1>3, <1>4, <1>5, <1>6 DEF Next

(* A recording has an icon for every frame and its events in the order of the
   frames; and a player who neither backtracks nor touches checkpoints from
   afar goes from one to the next, and dies back to the last. *)
THEOREM Recordings == Spec => [](Recorded /\ OnRoute)
<1>1. Init => Recorded /\ OnRoute
    BY InitRecorded
<1>2. Recorded /\ OnRoute /\ [Next]_vars => (Recorded /\ OnRoute)'
    BY RecordedStep
<1> QED
    BY <1>1, <1>2, PTL DEF Spec

-------------------------------------------------------------------------------
(* What trimmacro promises of them *)

(* What the lemmas on the trimmed macro ask for. *)
LEMMA RecordedBody ==
    ASSUME Recorded
    PROVE  /\ Body(macro) /\ macro.events \in Seq(Events)
           /\ Ordered(macro.events, macro.length)
<1>1. macro.length \in Nat
    BY BoundsAssumption DEF Recorded
<1> QED
    BY <1>1 DEF Recorded, Body, Ordered

(* The events of a macro are those of its frames. *)
LEMMA EventsInFrames ==
    ASSUME NEW m, m.length \in Nat, Ordered(m.events, m.length)
    PROVE  \A e \in DOMAIN m.events : m.events[e].at \in Frames(m)
<1>1. m.events \in Seq(Events) /\ DOMAIN m.events = 1 .. Len(m.events)
    BY DEF Ordered
<1> TAKE e \in DOMAIN m.events
<1>2. m.events[e] \in Events
    BY <1>1
<1>3. m.events[e].at \in Nat
    BY <1>2 DEF Events
<1>4. m.events[e].at < m.length
    BY <1>1 DEF Ordered
<1> QED
    BY <1>3, <1>4 DEF Frames

(* Both macros are well formed. *)
LEMMA RecordedTypes ==
    ASSUME Recorded
    PROVE  TypeOK
<1>1. /\ Body(macro) /\ macro.events \in Seq(Events)
      /\ Ordered(macro.events, macro.length)
    BY RecordedBody
<1>2. macro.length \in Nat
    BY <1>1 DEF Body
<1>3. \A e \in DOMAIN macro.events : macro.events[e].at \in Frames(macro)
    BY <1>1, <1>2, EventsInFrames
<1>4. ASSUME trimmed # NoMacro
      PROVE  /\ trimmed.length \in 0 .. macro.length
             /\ trimmed.icon \in [Frames(trimmed) -> Places \cup {Dead}]
             /\ \A e \in DOMAIN trimmed.events : trimmed.events[e].at \in Frames(trimmed)
    <2>1. trimmed = Trim(macro)
        BY <1>4 DEF Recorded
    <2>2. Ordered(trimmed.events, trimmed.length)
        BY <1>1, <2>1, Follows
    <2>3. /\ trimmed.length \in 0 .. macro.length
          /\ \A n \in Frames(trimmed) : /\ Origin[n] \in Frames(macro)
                                        /\ trimmed.icon[n] = macro.icon[Origin[n]]
        BY <1>1, <2>1, OriginFacts
    <2>4. trimmed.length \in Nat
        BY <1>2, <2>3
    <2>5. \A e \in DOMAIN trimmed.events : trimmed.events[e].at \in Frames(trimmed)
        BY <2>2, <2>4, EventsInFrames
    <2>6. \A n \in Frames(trimmed) : trimmed.icon[n] \in Places \cup {Dead}
        BY <1>1, <2>3 DEF Body
    <2>7. trimmed.icon = [n \in Frames(trimmed) |-> trimmed.icon[n]]
        <3>1. CASE Deaths(macro) = {}
            <4>1. trimmed = macro
                BY <2>1, <3>1 DEF Trim
            <4> QED
                BY <1>1, <4>1 DEF Body
        <3>2. CASE Deaths(macro) # {}
            <4>1. /\ trimmed.length = Len(Kept(macro))
                  /\ trimmed.icon = [n \in 0 .. Len(Kept(macro)) - 1 |-> macro.icon[Kept(macro)[n + 1]]]
                BY <2>1, <3>2, TrimIcons
            <4> QED
                BY <4>1 DEF Frames
        <3> QED
            BY <3>1, <3>2
    <2> QED
        BY <2>3, <2>5, <2>6, <2>7
<1> QED
    BY <1>3, <1>4 DEF Recorded, TypeOK, Inputted

(* Every property of the trimmed macro. *)
LEMMA RecordedTrims ==
    ASSUME Recorded, OnRoute
    PROVE  TypeOK /\ InputsFollow /\ Seamless /\ OnlyDetours /\ LastAttemptWhole
<1>1. TypeOK
    BY RecordedTypes
<1>2. /\ Body(macro) /\ macro.events \in Seq(Events)
      /\ Ordered(macro.events, macro.length)
    BY RecordedBody
<1>3. CASE trimmed = NoMacro
    BY <1>1, <1>3 DEF InputsFollow, Seamless, OnlyDetours, LastAttemptWhole, Trimmed
<1>4. CASE trimmed # NoMacro
    <2>1. trimmed = Trim(macro)
        BY <1>4 DEF Recorded
    <2>2. InputsFollow
        BY <1>2, <2>1, Follows
    <2>3. (features = {} /\ Apart) => Route(macro, cp)
        BY DEF OnRoute
    <2>4. Seamless
        BY <1>2, <2>1, <2>3, NoJump
    <2>5. OnlyDetours
        BY <1>2, <2>1, Detours
    <2>6. LastAttemptWhole
        BY <1>2, <2>1, LastWhole
    <2> QED
        BY <1>1, <2>2, <2>4, <2>5, <2>6
<1> QED
    BY <1>3, <1>4

(* The recorded macro and the trimmed one have an icon for every frame and
   events of their own frames only. *)
THEOREM TypesOK == Spec => []TypeOK
<1>1. Recorded /\ OnRoute => TypeOK
    BY RecordedTrims
<1> QED
    BY <1>1, Recordings, PTL

(* A replay of the trimmed macro gives the game, in every frame that was kept,
   the inputs that the recording had there: a key that was pressed or let go in
   a frame that was cut is so from the first frame after it. *)
THEOREM TrimmedInputs == Spec => []InputsFollow
<1>1. Recorded /\ OnRoute => InputsFollow
    BY RecordedTrims
<1> QED
    BY <1>1, Recordings, PTL

(* The player does not jump where something was cut out, unless checkpoints are
   touched from afar or backtracks lead to earlier ones. *)
THEOREM TrimmedSeamless == Spec => []Seamless
<1>1. Recorded /\ OnRoute => Seamless
    BY RecordedTrims
<1> QED
    BY <1>1, Recordings, PTL

(* A frame in which the player lived is cut only if he returns to where he was,
   at the checkpoint he is respawned at. *)
THEOREM TrimmedDetours == Spec => []OnlyDetours
<1>1. Recorded /\ OnRoute => OnlyDetours
    BY RecordedTrims
<1> QED
    BY <1>1, Recordings, PTL

(* Nothing of the attempt after the last death is cut, and no death is left. *)
THEOREM TrimmedLastAttempt == Spec => []LastAttemptWhole
<1>1. Recorded /\ OnRoute => LastAttemptWhole
    BY RecordedTrims
<1> QED
    BY <1>1, Recordings, PTL

===============================================================================
