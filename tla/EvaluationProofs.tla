---------------------------- MODULE EvaluationProofs ----------------------------
(***************************************************************************)
(* Proofs about the evaluation of a candidate, for every declared plan: the *)
(* order of its jobs, what passed before what, and the verdicts of a report;*)
(* for every measured value, the quality it is given; for every model reply *)
(* the gateway reads, whether a torn one goes unnoticed; and what the       *)
(* open-source checks conclude.                                             *)
(***************************************************************************)
EXTENDS ComponentProofs, SequenceTheorems

-----------------------------------------------------------------------------
(* Functions on 0 .. n that are given by their value one below             *)

Climbs(n, V, v, c) == n \in Nat /\ v \in V /\ c \in [(1 .. n) \X V -> V]

LEMMA UpwardRecursion ==
    ASSUME NEW n, NEW V, NEW v, NEW c, Climbs(n, V, v, c)
    PROVE \E F \in [0 .. n -> V] : F[0] = v /\ \A i \in 1 .. n : F[i] = c[<<i, F[i - 1]>>]
<1> USE DEF Climbs
<1>1. PICK D, B, N : D = 0 .. n /\ B = {0} /\ N = n + 1
  OBVIOUS
<1>2. PICK r, next, b : /\ r = [i \in D |-> i] /\ next = [i \in D |-> i - 1]
                        /\ b = [i \in D |-> v]
  OBVIOUS
<1>3. PICK d : d = [p \in D \X V |-> IF p[1] = 0 THEN v ELSE c[p]]
  OBVIOUS
<1>4. Descends(D, N, r, B, next)
  BY <1>1, <1>2 DEF Descends
<1>5. Steps(D, V, b, d)
  <2>1. \A p \in D \X V : d[p] \in V
    BY <1>1, <1>3
  <2> QED BY <1>2, <1>3, <2>1 DEF Steps
<1>6. PICK F : Solution(F, D, V, B, next, b, d)
  BY <1>4, <1>5, Recursion
<1>7. F \in [0 .. n -> V] /\ F[0] = v
  <2>1. 0 \in D /\ 0 \in B /\ b[0] = v
    BY <1>1, <1>2
  <2> QED BY <2>1, <1>1, <1>6 DEF Solution
<1>8. ASSUME NEW i \in 1 .. n PROVE F[i] = c[<<i, F[i - 1]>>]
  <2>1. i \in D \ B /\ next[i] = i - 1 /\ i - 1 \in D
    BY <1>1, <1>2
  <2>2. F[i] = d[<<i, F[i - 1]>>] /\ F[i - 1] \in V
    BY <2>1, <1>6 DEF Solution
  <2>3. <<i, F[i - 1]>> \in D \X V /\ i # 0
    BY <2>1, <2>2
  <2> QED BY <2>2, <2>3, <1>3
<1> QED BY <1>7, <1>8

-----------------------------------------------------------------------------
(* Jobs in order                                                           *)

\* A list of jobs, no two of one id.
Distinct(s) == \A i, k \in 1 .. Len(s) : s[i].id = s[k].id => i = k
Listed(s, J) == s \in Seq(J) /\ Distinct(s)

\* The ids in its first n places.
Front(s, n) == {s[i].id : i \in 1 .. n}

LEMMA IdsAre == ASSUME NEW s PROVE Evaluation!JobIds(s) = Front(s, Len(s))
BY DEF Evaluation!JobIds, Front

LEMMA FrontGrows ==
    ASSUME NEW s, NEW n \in Nat PROVE Front(s, n + 1) = Front(s, n) \cup {s[n + 1].id}
<1>1. 1 .. (n + 1) = (1 .. n) \cup {n + 1}
  OBVIOUS
<1> QED BY <1>1 DEF Front

LEMMA FrontEmpty == ASSUME NEW s PROVE Front(s, 0) = {}
BY DEF Front

LEMMA FrontNew ==
    ASSUME NEW s, Distinct(s), NEW n \in Nat, Len(s) \in Nat, n + 1 <= Len(s)
    PROVE s[n + 1].id \notin Front(s, n)
<1> SUFFICES ASSUME NEW i \in 1 .. n, s[n + 1].id = s[i].id PROVE FALSE
  BY DEF Front
<1>1. i \in 1 .. Len(s) /\ n + 1 \in 1 .. Len(s) /\ i # n + 1
  OBVIOUS
<1> QED BY <1>1 DEF Distinct

LEMMA JoinedLists ==
    ASSUME NEW J, NEW s, NEW t, Listed(s, J), Listed(t, J),
           Evaluation!JobIds(s) \cap Evaluation!JobIds(t) = {}
    PROVE /\ Listed(s \o t, J)
          /\ Evaluation!JobIds(s \o t) = Evaluation!JobIds(s) \cup Evaluation!JobIds(t)
<1>1. s \in Seq(J) /\ t \in Seq(J) /\ Len(s) \in Nat /\ Len(t) \in Nat
  BY DEF Listed
<1>2. PICK u : u = s \o t
  OBVIOUS
<1>3. u \in Seq(J) /\ Len(u) = Len(s) + Len(t)
  BY <1>1, <1>2
<1>4. /\ \A i \in 1 .. Len(s) : i \in 1 .. Len(u) /\ u[i] = s[i]
      /\ \A i \in 1 .. Len(t) : i + Len(s) \in 1 .. Len(u) /\ u[i + Len(s)] = t[i]
      /\ \A i \in 1 .. Len(u) : i \in 1 .. Len(s) \/ (i - Len(s) \in 1 .. Len(t) /\ u[i] = t[i - Len(s)])
  <2>1. \A i \in 1 .. Len(s) + Len(t) : u[i] = IF i <= Len(s) THEN s[i] ELSE t[i - Len(s)]
    BY <1>1, <1>2, ConcatProperties
  <2> QED BY <1>1, <1>3, <2>1
<1>5. Evaluation!JobIds(u) = Evaluation!JobIds(s) \cup Evaluation!JobIds(t)
  <2>1. Front(u, Len(u)) \subseteq Front(s, Len(s)) \cup Front(t, Len(t))
    BY <1>4 DEF Front
  <2>2. Front(s, Len(s)) \subseteq Front(u, Len(u))
    BY <1>4 DEF Front
  <2>3. Front(t, Len(t)) \subseteq Front(u, Len(u))
    <3> SUFFICES ASSUME NEW k \in 1 .. Len(t) PROVE \E i \in 1 .. Len(u) : t[k].id = u[i].id
      BY DEF Front
    <3>1. k + Len(s) \in 1 .. Len(u) /\ u[k + Len(s)] = t[k]
      BY <1>4
    <3> QED BY <3>1
  <2> QED BY <2>1, <2>2, <2>3, IdsAre
<1>6. \A i \in 1 .. Len(s), k \in 1 .. Len(t) : s[i].id # t[k].id
  BY IdsAre DEF Front
<1>7. Distinct(u)
  <2> SUFFICES ASSUME NEW i \in 1 .. Len(u), NEW k \in 1 .. Len(u), u[i].id = u[k].id PROVE i = k
    BY DEF Distinct
  <2>1. CASE i \in 1 .. Len(s) /\ k \in 1 .. Len(s)
    BY <2>1, <1>4 DEF Listed, Distinct
  <2>2. CASE i - Len(s) \in 1 .. Len(t) /\ k - Len(s) \in 1 .. Len(t)
    <3>1. u[i] = t[i - Len(s)] /\ u[k] = t[k - Len(s)]
      BY <2>2, <1>1, <1>4
    <3>2. i - Len(s) = k - Len(s)
      BY <2>2, <3>1 DEF Listed, Distinct
    <3> QED BY <3>2, <1>1, <1>3
  <2>3. ASSUME NEW a \in 1 .. Len(s), NEW b \in 1 .. Len(t) PROVE u[a].id # u[b + Len(s)].id
    <3>1. u[a] = s[a] /\ u[b + Len(s)] = t[b]
      BY <1>4
    <3> QED BY <3>1, <1>6
  <2>4. CASE i \in 1 .. Len(s) /\ k - Len(s) \in 1 .. Len(t)
    <3>1. k = (k - Len(s)) + Len(s)
      BY <1>1, <1>3
    <3> QED BY <2>3, <2>4, <3>1
  <2>5. CASE k \in 1 .. Len(s) /\ i - Len(s) \in 1 .. Len(t)
    <3>1. i = (i - Len(s)) + Len(s)
      BY <1>1, <1>3
    <3> QED BY <2>3, <2>5, <3>1
  <2>6. \A x \in 1 .. Len(u) : x \in 1 .. Len(s) \/ x - Len(s) \in 1 .. Len(t)
    BY <1>4
  <2> QED BY <2>1, <2>2, <2>4, <2>5, <2>6
<1> QED BY <1>2, <1>3, <1>5, <1>7 DEF Listed

\* As many ids as places, in the first n places of a list.
LEMMA IdsCounted ==
    ASSUME NEW s, Distinct(s), Len(s) \in Nat, NEW n \in 0 .. Len(s)
    PROVE IsFiniteSet(Front(s, n)) /\ Cardinality(Front(s, n)) = n
<1>1. PICK U : U = {m \in Nat : m <= Len(s) =>
                      IsFiniteSet(Front(s, m)) /\ Cardinality(Front(s, m)) = m}
  OBVIOUS
<1>2. Len(s) \in Nat /\ Distinct(s)
  OBVIOUS
<1>3. 0 \in U
  <2>1. Front(s, 0) = {}
    BY FrontEmpty
  <2>2. IsFiniteSet(Front(s, 0)) /\ Cardinality(Front(s, 0)) = 0
    BY <2>1, FS_EmptySet
  <2> QED BY <1>1, <2>2
<1>4. \A m \in Nat : m \in U => m + 1 \in U
  <2> SUFFICES ASSUME NEW m \in Nat, m \in U, m + 1 <= Len(s)
               PROVE IsFiniteSet(Front(s, m + 1)) /\ Cardinality(Front(s, m + 1)) = m + 1
    BY <1>1
  <2>1. IsFiniteSet(Front(s, m)) /\ Cardinality(Front(s, m)) = m
    BY <1>1, <1>2
  <2>2. PICK T, x : T = Front(s, m) /\ x = s[m + 1].id
    OBVIOUS
  <2>3. Front(s, m + 1) = T \cup {x}
    BY <2>2, FrontGrows
  <2>4. x \notin T
    BY <1>2, <2>2, FrontNew
  <2>5. IsFiniteSet(T \cup {x}) /\ Cardinality(T \cup {x}) = Cardinality(T) + 1
    BY <2>1, <2>2, <2>4, FS_AddElement
  <2> QED BY <2>1, <2>2, <2>3, <2>5
<1>5. n \in U
  BY <1>2, <1>3, <1>4, NatSetInduction
<1> QED BY <1>1, <1>2, <1>5

\* The jobs with these ids are those with these ids.
LEMMA PickedIs ==
    ASSUME NEW J, NEW jobs, Listed(jobs, J), NEW ids
    PROVE /\ Listed(Evaluation!Picked(jobs, ids), J)
          /\ Evaluation!JobIds(Evaluation!Picked(jobs, ids)) = Evaluation!JobIds(jobs) \cap ids
<1>1. PICK n, V : n = Len(jobs) /\ V = Seq(J)
  OBVIOUS
<1>2. n \in Nat /\ \A i \in 1 .. n : jobs[i] \in J
  BY <1>1 DEF Listed
<1> DEFINE Here(i) == IF jobs[i].id \in ids THEN <<jobs[i]>> ELSE << >>
           IsF(F) == F = [i \in 0 .. Len(jobs) |->
                            IF i = 0 THEN << >> ELSE F[i - 1] \o Here(i)]
<1>3. \A i \in 1 .. n : Here(i) \in V
  BY <1>1, <1>2
<1>4. \E F : IsF(F)
  <2>1. PICK c : c = [p \in (1 .. n) \X V |-> p[2] \o Here(p[1])]
    OBVIOUS
  <2>2. c \in [(1 .. n) \X V -> V]
    <3>1. \A p \in (1 .. n) \X V : p[2] \o Here(p[1]) \in V
      <4> TAKE p \in (1 .. n) \X V
      <4>1. p[2] \in V /\ Here(p[1]) \in V
        BY <1>3
      <4> HIDE DEF Here
      <4> QED BY <4>1, <1>1
    <3> HIDE DEF Here
    <3> QED BY <2>1, <3>1
  <2> HIDE DEF Here
  <2>3. PICK v \in V : v = << >>
    <3>1. << >> \in Seq(J)
      OBVIOUS
    <3> QED BY <1>1, <3>1
  <2>4. PICK F \in [0 .. n -> V] : F[0] = v /\ \A i \in 1 .. n : F[i] = c[<<i, F[i - 1]>>]
    <3>1. Climbs(n, V, v, c)
      BY <1>2, <2>2, <2>3 DEF Climbs
    <3> QED BY ONLY <3>1, UpwardRecursion
  <2>5. \A i \in 1 .. n : F[i] = F[i - 1] \o Here(i)
    <3> TAKE i \in 1 .. n
    <3>1. F[i - 1] \in V
      BY <1>2, <2>4
    <3> QED BY <2>1, <2>4, <3>1
  <2>6. F = [i \in 0 .. Len(jobs) |-> IF i = 0 THEN << >> ELSE F[i - 1] \o Here(i)]
    BY <2>3, <2>4, <2>5, <1>1, <1>2
  <2> QED BY <2>6
<1>5. PICK F : F = CHOOSE f : IsF(f)
  OBVIOUS
<1>6. IsF(F)
  BY <1>4, <1>5
<1>7. Evaluation!Picked(jobs, ids) = F[n]
  BY <1>1, <1>5 DEF Evaluation!Picked
<1>8. PICK U : U = {m \in Nat : m <= n =>
                      /\ Listed(F[m], J)
                      /\ Evaluation!JobIds(F[m]) = Front(jobs, m) \cap ids}
  OBVIOUS
<1>9. 0 \in U
  <2>1. F[0] = << >>
    BY <1>1, <1>2, <1>6
  <2>2. Listed(F[0], J) /\ Evaluation!JobIds(F[0]) = {}
    BY <2>1, IdsAre, FrontEmpty DEF Listed, Distinct
  <2> QED BY <1>8, <2>2, FrontEmpty
<1>10. \A m \in Nat : m \in U => m + 1 \in U
  <2> SUFFICES ASSUME NEW m \in Nat, m \in U, m + 1 <= n
               PROVE /\ Listed(F[m + 1], J)
                     /\ Evaluation!JobIds(F[m + 1]) = Front(jobs, m + 1) \cap ids
    BY <1>8
  <2>1. Listed(F[m], J) /\ Evaluation!JobIds(F[m]) = Front(jobs, m) \cap ids
    BY <1>8, <1>2
  <2>2. F[m + 1] = F[m] \o Here(m + 1)
    <3>1. m + 1 \in 0 .. Len(jobs) /\ m + 1 # 0 /\ (m + 1) - 1 = m
      BY <1>1, <1>2
    <3> HIDE DEF Here
    <3>2. F[m + 1] = F[(m + 1) - 1] \o Here(m + 1)
      BY <1>6, <3>1
    <3> QED BY <3>1, <3>2
  <2>3. PICK t : t = Here(m + 1)
    OBVIOUS
  <2>4. Listed(t, J) /\ Evaluation!JobIds(t) = {jobs[m + 1].id} \cap ids
    <3>1. CASE jobs[m + 1].id \in ids
      <4>1. t = <<jobs[m + 1]>> /\ jobs[m + 1] \in J
        BY <3>1, <2>3, <1>2
      <4>2. t \in Seq(J) /\ Len(t) = 1 /\ t[1] = jobs[m + 1]
        BY <4>1
      <4> QED BY <4>2, <3>1, IdsAre DEF Front, Listed, Distinct
    <3>2. CASE jobs[m + 1].id \notin ids
      <4>1. t = << >>
        BY <3>2, <2>3
      <4> QED BY <4>1, <3>2, IdsAre DEF Front, Listed, Distinct
    <3> QED BY <3>1, <3>2
  <2>5. jobs[m + 1].id \notin Front(jobs, m)
    BY <1>1, <1>2, FrontNew DEF Listed
  <2>6. Evaluation!JobIds(F[m]) \cap Evaluation!JobIds(t) = {}
    BY <2>1, <2>4, <2>5
  <2>7. /\ Listed(F[m] \o t, J)
        /\ Evaluation!JobIds(F[m] \o t) = Evaluation!JobIds(F[m]) \cup Evaluation!JobIds(t)
    <3>1. PICK f : f = F[m]
      OBVIOUS
    <3>2. Listed(f, J) /\ Listed(t, J) /\ Evaluation!JobIds(f) \cap Evaluation!JobIds(t) = {}
      BY <2>1, <2>4, <2>6, <3>1
    <3>3. /\ Listed(f \o t, J)
          /\ Evaluation!JobIds(f \o t) = Evaluation!JobIds(f) \cup Evaluation!JobIds(t)
      BY ONLY <3>2, JoinedLists
    <3> QED BY <3>1, <3>3
  <2>8. Front(jobs, m + 1) = Front(jobs, m) \cup {jobs[m + 1].id}
    BY FrontGrows
  <2> QED BY <2>1, <2>2, <2>3, <2>4, <2>7, <2>8
<1>11. n \in U
  BY <1>2, <1>9, <1>10, NatSetInduction
<1> QED BY <1>1, <1>2, <1>7, <1>8, <1>11, IdsAre

\* Ready jobs are behind what they depend on, in a list of declared jobs that
\* names each of them once.
InOrder(s, jobs, J) ==
  /\ Listed(s, J) /\ Evaluation!JobIds(s) \subseteq Evaluation!JobIds(jobs)
  /\ \A id \in Evaluation!JobIds(s) : Evaluation!Dependencies(jobs, id) \subseteq Evaluation!JobIds(s)

LEMMA OrderedIs ==
    ASSUME NEW J, NEW jobs, Listed(jobs, J)
    PROVE InOrder(Evaluation!OrderJobs(jobs), jobs, J)
<1>1. PICK n, V : n = Len(jobs) /\ V = {s \in Seq(J) : InOrder(s, jobs, J)}
  OBVIOUS
<1>2. n \in Nat
  BY <1>1 DEF Listed
<1> DEFINE After(s) == s \o Evaluation!Picked(jobs, Evaluation!ReadyAfter(jobs, Evaluation!JobIds(s)))
           IsF(F) == F = [i \in 0 .. Len(jobs) |-> IF i = 0 THEN << >> ELSE After(F[i - 1])]
<1>3. \A s \in V : After(s) \in V
  <2> TAKE s \in V
  <2>1. InOrder(s, jobs, J)
    BY <1>1
  <2>2. PICK ids, t : /\ ids = Evaluation!ReadyAfter(jobs, Evaluation!JobIds(s))
                      /\ t = Evaluation!Picked(jobs, ids)
    OBVIOUS
  <2>3. Listed(t, J) /\ Evaluation!JobIds(t) = Evaluation!JobIds(jobs) \cap ids
    BY <2>2, PickedIs
  <2>4. \A id \in ids : /\ id \in Evaluation!JobIds(jobs) /\ id \notin Evaluation!JobIds(s)
                        /\ Evaluation!Dependencies(jobs, id) \subseteq Evaluation!JobIds(s)
    BY <2>2 DEF Evaluation!ReadyAfter
  <2>5. Evaluation!JobIds(s) \cap Evaluation!JobIds(t) = {}
    BY <2>3, <2>4
  <2>6. /\ Listed(s \o t, J)
        /\ Evaluation!JobIds(s \o t) = Evaluation!JobIds(s) \cup Evaluation!JobIds(t)
    <3>1. Listed(s, J) /\ Listed(t, J) /\ Evaluation!JobIds(s) \cap Evaluation!JobIds(t) = {}
      BY <2>1, <2>3, <2>5 DEF InOrder
    <3> QED BY ONLY <3>1, JoinedLists
  <2>7. InOrder(s \o t, jobs, J)
    BY <2>1, <2>3, <2>4, <2>6 DEF InOrder
  <2> QED BY <1>1, <2>2, <2>6, <2>7 DEF Listed
<1>4. PICK v \in V : v = << >>
  <2>1. << >> \in Seq(J) /\ Len(<< >>) = 0
    OBVIOUS
  <2>2. PICK s : s = << >>
    OBVIOUS
  <2>3. Listed(s, J)
    BY <2>1, <2>2 DEF Listed, Distinct
  <2>4. Evaluation!JobIds(s) = {}
    BY <2>1, <2>2, IdsAre, FrontEmpty
  <2> QED BY <1>1, <2>1, <2>2, <2>3, <2>4 DEF InOrder
<1>5. \E F : IsF(F) /\ F[n] \in V
  <2> HIDE DEF After
  <2>1. PICK c : c = [p \in (1 .. n) \X V |-> After(p[2])]
    OBVIOUS
  <2>2. c \in [(1 .. n) \X V -> V]
    BY <2>1, <1>3
  <2>3. PICK F \in [0 .. n -> V] : F[0] = v /\ \A i \in 1 .. n : F[i] = c[<<i, F[i - 1]>>]
    <3>1. Climbs(n, V, v, c)
      BY <1>2, <1>4, <2>2 DEF Climbs
    <3> QED BY ONLY <3>1, UpwardRecursion
  <2>4. \A i \in 1 .. n : F[i] = After(F[i - 1])
    <3> TAKE i \in 1 .. n
    <3>1. F[i - 1] \in V
      BY <1>2, <2>3
    <3> QED BY <2>1, <2>3, <3>1
  <2>5. F = [i \in 0 .. Len(jobs) |-> IF i = 0 THEN << >> ELSE After(F[i - 1])]
    BY <2>3, <2>4, <1>1, <1>2, <1>4
  <2> QED BY <2>3, <2>5, <1>2
<1>6. PICK F : F = CHOOSE f : IsF(f)
  OBVIOUS
<1>7. IsF(F)
  BY <1>5, <1>6
<1>8. Evaluation!OrderJobs(jobs) = F[n]
  BY <1>1, <1>6 DEF Evaluation!OrderJobs
<1>9. PICK U : U = {m \in Nat : m <= n => F[m] \in V}
  OBVIOUS
<1> HIDE DEF After
<1>10. 0 \in U
  BY <1>1, <1>2, <1>4, <1>7, <1>9
<1>11. \A m \in Nat : m \in U => m + 1 \in U
  <2> SUFFICES ASSUME NEW m \in Nat, m \in U, m + 1 <= n PROVE F[m + 1] \in V
    BY <1>9
  <2>1. F[m] \in V
    BY <1>2, <1>9
  <2>2. F[m + 1] = After(F[m])
    BY <1>1, <1>2, <1>7
  <2> QED BY <2>1, <2>2, <1>3
<1>12. n \in U
  BY <1>2, <1>10, <1>11, NatSetInduction
<1> QED BY <1>1, <1>2, <1>8, <1>9, <1>12

\* An order that has every id has every job once.
LEMMA OrderComplete ==
    ASSUME NEW J, NEW jobs, Listed(jobs, J), Evaluation!Acyclic(jobs)
    PROVE LET s == Evaluation!OrderJobs(jobs) IN
          /\ Listed(s, J) /\ Len(s) = Len(jobs)
          /\ Evaluation!JobIds(s) = Evaluation!JobIds(jobs)
          /\ \A id \in Evaluation!JobIds(jobs) :
               Evaluation!Dependencies(jobs, id) \subseteq Evaluation!JobIds(jobs)
<1>1. PICK s : s = Evaluation!OrderJobs(jobs)
  OBVIOUS
<1>2. InOrder(s, jobs, J)
  BY <1>1, OrderedIs
<1>3. Evaluation!JobIds(s) = Evaluation!JobIds(jobs)
  BY <1>1 DEF Evaluation!Acyclic
<1>4. /\ Len(s) \in 0 .. Len(s) /\ Len(jobs) \in 0 .. Len(jobs)
      /\ Len(s) \in Nat /\ Len(jobs) \in Nat /\ Distinct(s) /\ Distinct(jobs)
  BY <1>2 DEF InOrder, Listed
<1>5. /\ Cardinality(Front(s, Len(s))) = Len(s)
      /\ Cardinality(Front(jobs, Len(jobs))) = Len(jobs)
  BY <1>4, IdsCounted
<1>6. Len(s) = Len(jobs)
  BY <1>3, <1>5, IdsAre
<1> QED BY <1>1, <1>2, <1>3, <1>6 DEF InOrder

-----------------------------------------------------------------------------
(* Along the edges                                                         *)

\* What is closed under the edges holds all that is reached from within.
LEMMA ClosureStays ==
    ASSUME NEW D, IsFiniteSet(D), NEW e \in [D -> SUBSET D],
           NEW S, \A id \in D \cap S : e[id] \subseteq S
    PROVE \A id \in D : /\ Evaluation!Closure(e)[id] \subseteq D
                        /\ id \in S => Evaluation!Closure(e)[id] \subseteq S
<1>1. PICK n : n = Cardinality(D)
  OBVIOUS
<1>2. n \in Nat /\ Evaluation!Cardinality(DOMAIN e) = n
  BY <1>1, FS_CardinalityType DEF Evaluation!Cardinality, Cardinality
<1> DEFINE Wider(f) == [id \in DOMAIN e |-> e[id] \cup UNION {f[d] : d \in e[id]}]
           IsF(F) == F = [i \in 0 .. Evaluation!Cardinality(DOMAIN e) |-> IF i = 0 THEN e ELSE Wider(F[i - 1])]
<1>3. PICK V : V = {f \in [D -> SUBSET D] : \A id \in D \cap S : f[id] \subseteq S}
  OBVIOUS
<1>4. e \in V
  BY <1>3
<1>5. \A f \in V : Wider(f) \in V
  <2> TAKE f \in V
  <2>1. \A id \in D : Wider(f)[id] = e[id] \cup UNION {f[d] : d \in e[id]}
    OBVIOUS
  <2>2. \A id \in D : Wider(f)[id] \subseteq D
    BY <1>3, <2>1
  <2>3. \A id \in D \cap S : Wider(f)[id] \subseteq S
    BY <1>3, <2>1
  <2>4. Wider(f) = [id \in D |-> Wider(f)[id]]
    OBVIOUS
  <2> HIDE DEF Wider
  <2> QED BY <1>3, <2>2, <2>3, <2>4
<1> HIDE DEF Wider
<1>6. \E F : IsF(F)
  <2>1. PICK c : c = [p \in (1 .. n) \X V |-> Wider(p[2])]
    OBVIOUS
  <2>2. Climbs(n, V, e, c)
    BY <2>1, <1>2, <1>4, <1>5 DEF Climbs
  <2>3. PICK F \in [0 .. n -> V] : F[0] = e /\ \A i \in 1 .. n : F[i] = c[<<i, F[i - 1]>>]
    BY ONLY <2>2, UpwardRecursion
  <2>4. \A i \in 1 .. n : F[i] = Wider(F[i - 1])
    <3> TAKE i \in 1 .. n
    <3>1. F[i - 1] \in V
      BY <1>2, <2>3
    <3> QED BY <2>1, <2>3, <3>1
  <2>5. F = [i \in 0 .. Evaluation!Cardinality(DOMAIN e) |-> IF i = 0 THEN e ELSE Wider(F[i - 1])]
    BY <2>3, <2>4, <1>2
  <2> QED BY <2>5
<1>7. PICK F : F = CHOOSE f : IsF(f)
  OBVIOUS
<1>8. IsF(F)
  BY <1>6, <1>7
<1>9. Evaluation!Closure(e) = F[n]
  BY <1>2, <1>7 DEF Evaluation!Closure, Wider
<1>10. PICK U : U = {m \in Nat : m <= n => F[m] \in V}
  OBVIOUS
<1>11. 0 \in U
  BY <1>2, <1>4, <1>8, <1>10
<1>12. \A m \in Nat : m \in U => m + 1 \in U
  <2> SUFFICES ASSUME NEW m \in Nat, m \in U, m + 1 <= n PROVE F[m + 1] \in V
    BY <1>10
  <2>1. F[m] \in V
    BY <1>2, <1>10
  <2>2. F[m + 1] = Wider(F[m])
    BY <1>2, <1>8
  <2> QED BY <2>1, <2>2, <1>5
<1>13. F[n] \in V
  BY <1>2, <1>10, <1>11, <1>12, NatSetInduction
<1> QED BY <1>3, <1>9, <1>13

-----------------------------------------------------------------------------
(* An accepted plan                                                        *)

LEMMA AcceptedJobs ==
    ASSUME PlansDeclared, NEW p \in Plans, Evaluation!Accepted(p)
    PROVE LET s == Evaluation!OrderJobs(p.jobs) IN
          /\ Listed(p.jobs, DeclaredJobs) /\ Len(p.jobs) \in Nat \ {0}
          /\ Listed(s, DeclaredJobs) /\ Len(s) = Len(p.jobs)
          /\ Evaluation!JobIds(s) = Evaluation!JobIds(p.jobs)
          /\ \A id \in Evaluation!JobIds(p.jobs) :
               Evaluation!Dependencies(p.jobs, id) \subseteq Evaluation!JobIds(p.jobs)
<1>1. PICK jobs : jobs = p.jobs
  OBVIOUS
<1>2. jobs \in Seq(DeclaredJobs) /\ jobs # << >>
  BY <1>1 DEF PlansDeclared, Evaluation!Accepted, Evaluation!ValidJobs
<1>3. Listed(jobs, DeclaredJobs)
  BY <1>1, <1>2 DEF Listed, Distinct, Evaluation!Accepted, Evaluation!ValidJobs
<1>4. Evaluation!Acyclic(jobs)
  BY <1>1 DEF Evaluation!Accepted
<1>5. Len(jobs) \in Nat \ {0}
  BY <1>2, EmptySeq
<1> QED BY <1>1, <1>3, <1>4, <1>5, OrderComplete

\* What the plan of a run is made of: the declared jobs, each with all it
\* depends on, and the modes and metrics of the declaration.
PlanOf(p, q) ==
  /\ q.mode = p.mode /\ q.scored = p.scored /\ q.metrics = p.metrics
  /\ Len(q.jobs) \in Nat \ {0} /\ DOMAIN q.jobs = 1 .. Len(q.jobs) /\ Distinct(q.jobs)
  /\ \A i \in 1 .. Len(q.jobs) : \E j \in Evaluation!ToSet(p.jobs) :
       /\ q.jobs[i].id = j.id /\ q.jobs[i].gate = j.gate
       /\ q.jobs[i].requires = Evaluation!Dependencies(p.jobs, j.id)
  /\ Evaluation!JobIds(q.jobs) = Evaluation!JobIds(p.jobs)

LEMMA JobsAre == ASSUME NEW s PROVE Evaluation!ToSet(s) = {s[i] : i \in 1 .. Len(s)}
BY DEF Evaluation!ToSet

LEMMA ParsedIs ==
    ASSUME PlansDeclared, NEW p \in Plans, Evaluation!Accepted(p)
    PROVE PlanOf(p, Evaluation!Parsed(p))
<1>1. PICK q, jobs, s, n : /\ q = Evaluation!Parsed(p) /\ jobs = p.jobs
                           /\ s = Evaluation!OrderJobs(jobs) /\ n = Len(jobs)
  OBVIOUS
<1>2. /\ Listed(jobs, DeclaredJobs) /\ n \in Nat \ {0}
      /\ Listed(s, DeclaredJobs) /\ Len(s) = n
      /\ Evaluation!JobIds(s) = Evaluation!JobIds(jobs)
  BY <1>1, AcceptedJobs
<1>3. jobs \in Seq(DeclaredJobs) /\ DOMAIN jobs = 1 .. n /\ s \in Seq(DeclaredJobs)
  BY <1>1, <1>2 DEF Listed
<1>4. PICK t : t = [i \in 1 .. n |-> [s[i] EXCEPT !.requires = Evaluation!Dependencies(jobs, s[i].id)]]
  OBVIOUS
<1>5. q.jobs = t /\ q.mode = p.mode /\ q.scored = p.scored /\ q.metrics = p.metrics
  <2>1. q = [p EXCEPT !.jobs = t]
    BY <1>1, <1>3, <1>4 DEF Evaluation!Parsed
  <2>2. DOMAIN p = {"mode", "scored", "jobs", "metrics"}
    BY DEF PlansDeclared
  <2> QED BY <2>1, <2>2
<1>6. \A i \in 1 .. n : /\ t[i].id = s[i].id /\ t[i].gate = s[i].gate
                        /\ t[i].requires = Evaluation!Dependencies(jobs, s[i].id)
  <2> TAKE i \in 1 .. n
  <2>1. s[i] \in DeclaredJobs
    BY <1>2, <1>3
  <2>2. PICK j : j = s[i]
    OBVIOUS
  <2>3. t[i] = [j EXCEPT !.requires = Evaluation!Dependencies(jobs, j.id)]
    BY <1>4, <2>2
  <2> QED BY <2>1, <2>2, <2>3 DEF DeclaredJobs
<1>7. Len(t) = n /\ DOMAIN t = 1 .. n
  BY <1>2, <1>4
<1>8. Distinct(t)
  BY <1>2, <1>6, <1>7 DEF Listed, Distinct
<1>9. Evaluation!JobIds(t) = Evaluation!JobIds(jobs)
  <2>1. Front(t, n) = Front(s, n)
    BY <1>6 DEF Front
  <2> QED BY <1>2, <1>7, <2>1, IdsAre
<1>10. \A i \in 1 .. n : s[i] \in Evaluation!ToSet(jobs)
  <2>1. PICK J : J = Evaluation!ToSet(jobs)
    OBVIOUS
  <2>2. Listed(jobs, J)
    BY <1>2, <1>3, <2>1, JobsAre DEF Listed
  <2>3. Listed(s, J)
    BY <1>1, <2>2, OrderComplete DEF Evaluation!Accepted
  <2> QED BY <1>2, <2>1, <2>3 DEF Listed
<1> QED BY <1>1, <1>2, <1>5, <1>6, <1>7, <1>8, <1>9, <1>10 DEF PlanOf

-----------------------------------------------------------------------------
(* What passed before what                                                 *)

\* The results are those of the first jobs, and a job that passed, or is under
\* way, is behind jobs that passed.
PlanKnown == \E p \in Plans : Evaluation!Accepted(p) /\ PlanOf(p, plan)
ResultsKnown ==
  /\ \E n \in 0 .. Len(plan.jobs) : DOMAIN results = Front(plan.jobs, n)
  /\ \A id \in DOMAIN results : results[id].status \in {"passed", "failed", "error", "blocked"}
  /\ \A i \in 1 .. Len(plan.jobs) : Evaluation!Passed(plan.jobs[i].id) => Evaluation!Ready(plan.jobs[i])
BatchKnown ==
  batch # Evaluation!EmptyMap =>
    /\ \E last \in Evaluation!Position .. Len(plan.jobs) : DOMAIN batch = Evaluation!Position .. last
    /\ \A k \in DOMAIN batch :
         /\ Evaluation!Ready(plan.jobs[k])
         /\ batch[k] # None => batch[k].status \in {"passed", "failed", "error"}
EvaluationInv == PlanKnown /\ ResultsKnown /\ BatchKnown

LEMMA PositionIs ==
    ASSUME PlanKnown, NEW n \in 0 .. Len(plan.jobs), DOMAIN results = Front(plan.jobs, n)
    PROVE Evaluation!Position = n + 1
<1>1. Distinct(plan.jobs) /\ Len(plan.jobs) \in Nat
  BY DEF PlanKnown, PlanOf
<1>2. Cardinality(Front(plan.jobs, n)) = n
  BY <1>1, IdsCounted
<1>3. Evaluation!Cardinality(DOMAIN results) = Cardinality(Front(plan.jobs, n))
  BY DEF Evaluation!Cardinality, Cardinality
<1> QED BY <1>2, <1>3 DEF Evaluation!Position

\* The jobs whose results were recorded: their number, and the place behind them.
LEMMA PositionKnown ==
    ASSUME PlanKnown, ResultsKnown
    PROVE \E n \in Nat : /\ n <= Len(plan.jobs) /\ Len(plan.jobs) \in Nat
                         /\ DOMAIN results = Front(plan.jobs, n) /\ Evaluation!Position = n + 1
<1>1. PICK n \in 0 .. Len(plan.jobs) : DOMAIN results = Front(plan.jobs, n)
  BY DEF ResultsKnown
<1>2. Len(plan.jobs) \in Nat
  BY DEF PlanKnown, PlanOf
<1> QED BY <1>1, <1>2, PositionIs

\* What is recorded for the next jobs: nothing that is not behind what passed.
LEMMA ResultsGrow ==
    ASSUME PlanKnown, ResultsKnown, plan' = plan,
           NEW last \in Evaluation!Position .. Len(plan.jobs), NEW found,
           results' = Evaluation!Recorded(found),
           DOMAIN found = {plan.jobs[k].id : k \in Evaluation!Position .. last},
           \A k \in Evaluation!Position .. last :
             /\ found[plan.jobs[k].id].status \in {"passed", "failed", "error", "blocked"}
             /\ found[plan.jobs[k].id].status = "passed" => Evaluation!Ready(plan.jobs[k])
    PROVE ResultsKnown'
<1>1. PICK n \in Nat : /\ n <= Len(plan.jobs) /\ Len(plan.jobs) \in Nat
                       /\ DOMAIN results = Front(plan.jobs, n) /\ Evaluation!Position = n + 1
  BY PositionKnown
<1>2. last \in n + 1 .. Len(plan.jobs)
  BY <1>1
<1>3. DOMAIN found = {plan.jobs[k].id : k \in n + 1 .. last}
  BY <1>1
<1>4. /\ DOMAIN results' = DOMAIN results \cup DOMAIN found
      /\ \A id \in DOMAIN results : results'[id] = results[id]
      /\ \A id \in DOMAIN found : id \notin DOMAIN results => results'[id] = found[id]
  BY DEF Evaluation!Recorded
<1>5. DOMAIN results' = Front(plan.jobs, last)
  <2>1. 1 .. last = (1 .. n) \cup (n + 1 .. last)
    BY <1>1, <1>2
  <2> QED BY <1>1, <1>3, <1>4, <2>1 DEF Front
<1>6. \A id \in DOMAIN results' : results'[id].status \in {"passed", "failed", "error", "blocked"}
  <2>1. \A id \in DOMAIN found : found[id].status \in {"passed", "failed", "error", "blocked"}
    BY <1>1, <1>3
  <2> QED BY <1>4, <2>1 DEF ResultsKnown
<1> DEFINE Now(id) == id \in DOMAIN results' /\ results'[id].status = "passed"
<1>7. \A id : Evaluation!Passed(id) => Now(id)
  BY <1>4 DEF Evaluation!Passed
<1>8. \A i \in 1 .. Len(plan.jobs) : Evaluation!Ready(plan.jobs[i]) =>
        \A d \in plan.jobs[i].requires : Now(d)
  BY <1>7 DEF Evaluation!Ready
<1>9. ASSUME NEW i \in 1 .. Len(plan.jobs), Now(plan.jobs[i].id)
      PROVE Evaluation!Ready(plan.jobs[i])
  <2>1. PICK id : id = plan.jobs[i].id
    OBVIOUS
  <2>2. id \in DOMAIN results' /\ results'[id].status = "passed"
    BY <1>9, <2>1
  <2>3. CASE id \in DOMAIN results
    BY <1>4, <2>1, <2>2, <2>3 DEF ResultsKnown, Evaluation!Passed
  <2>4. CASE id \notin DOMAIN results
    <3>1. id \in DOMAIN found /\ found[id].status = "passed"
      BY <1>4, <2>2, <2>4
    <3>2. PICK k \in n + 1 .. last : id = plan.jobs[k].id
      BY <1>3, <3>1
    <3>3. Distinct(plan.jobs) /\ k \in 1 .. Len(plan.jobs)
      BY <1>1, <1>2 DEF PlanKnown, PlanOf
    <3>4. k = i
      BY <2>1, <3>2, <3>3 DEF Distinct
    <3> QED BY <1>1, <2>1, <3>1, <3>2, <3>4
  <2> QED BY <2>3, <2>4
<1>10. last \in 0 .. Len(plan'.jobs)
  BY <1>1, <1>2
<1>11. \A i \in 1 .. Len(plan.jobs) :
         Now(plan.jobs[i].id) => \A d \in plan.jobs[i].requires : Now(d)
  BY <1>8, <1>9
<1> QED BY <1>5, <1>6, <1>10, <1>11
        DEF ResultsKnown, Front, Evaluation!Passed, Evaluation!Ready

LEMMA EvaluationStarts == ASSUME PlansDeclared, Evaluation!Init PROVE EvaluationInv
<1>1. PlanKnown
  BY ParsedIs DEF Evaluation!Init, PlanKnown
<1>2. DOMAIN results = {} /\ batch = Evaluation!EmptyMap
  BY DEF Evaluation!Init, Evaluation!EmptyMap
<1>3. 0 \in 0 .. Len(plan.jobs)
  BY <1>1 DEF PlanKnown, PlanOf
<1>4. DOMAIN results = Front(plan.jobs, 0)
  BY <1>2, FrontEmpty
<1>5. ResultsKnown
  BY <1>2, <1>3, <1>4 DEF ResultsKnown, Evaluation!Passed
<1> QED BY <1>1, <1>2, <1>5 DEF EvaluationInv, BatchKnown

LEMMA BlockKeeps == ASSUME EvaluationInv, Evaluation!Block PROVE EvaluationInv'
<1>1. PlanKnown /\ ResultsKnown /\ plan' = plan /\ batch' = batch /\ batch = Evaluation!EmptyMap
  BY DEF EvaluationInv, Evaluation!Block
<1>2. PICK n \in Nat : /\ n <= Len(plan.jobs) /\ Len(plan.jobs) \in Nat
                       /\ DOMAIN results = Front(plan.jobs, n) /\ Evaluation!Position = n + 1
  BY <1>1, PositionKnown
<1>3. n + 1 \in Evaluation!Position .. Len(plan.jobs)
  BY <1>2 DEF Evaluation!Block, Evaluation!Done
<1>4. PICK found : found = [id \in {plan.jobs[n + 1].id} |-> Evaluation!Conclude("blocked")]
  OBVIOUS
<1>5. results' = Evaluation!Recorded(found)
  BY <1>2, <1>4 DEF Evaluation!Block
<1>6. DOMAIN found = {plan.jobs[k].id : k \in Evaluation!Position .. n + 1}
  BY <1>2, <1>4
<1>7. \A k \in Evaluation!Position .. n + 1 : found[plan.jobs[k].id].status = "blocked"
  BY <1>2, <1>4 DEF Evaluation!Conclude
<1>8. ResultsKnown'
  BY <1>1, <1>3, <1>5, <1>6, <1>7, ResultsGrow
<1>9. PlanKnown' /\ BatchKnown'
  BY <1>1 DEF PlanKnown, BatchKnown, Evaluation!EmptyMap
<1> QED BY <1>8, <1>9 DEF EvaluationInv

LEMMA GreatestExists ==
    ASSUME NEW n \in Nat, NEW B, B \subseteq 0 .. n, B # {}
    PROVE \E k \in B : \A m \in B : m <= k
<1>1. PICK U : U = {n - k : k \in B}
  OBVIOUS
<1>2. U \subseteq Nat /\ U # {}
  <2>1. \A k \in B : k \in 0 .. n /\ n - k \in Nat
    OBVIOUS
  <2> QED BY <1>1, <2>1
<1>3. PICK u \in U : \A v \in U : u <= v
  BY <1>2, LeastNatural
<1>4. PICK k \in B : u = n - k
  BY <1>1, <1>3
<1>5. ASSUME NEW m \in B PROVE m <= k
  <2>1. n - m \in U /\ m \in 0 .. n /\ k \in 0 .. n
    BY <1>1, <1>4
  <2>2. u <= n - m
    BY <1>3, <2>1
  <2> QED BY <1>4, <2>1, <2>2
<1> QED BY <1>5

LEMMA StartKeeps == ASSUME EvaluationInv, Evaluation!Start PROVE EvaluationInv'
<1>1. /\ PlanKnown /\ ResultsKnown /\ plan' = plan /\ results' = results
      /\ Evaluation!Batches # {}
  BY DEF EvaluationInv, Evaluation!Start
<1>2. PICK n \in Nat : /\ n <= Len(plan.jobs) /\ Len(plan.jobs) \in Nat
                       /\ DOMAIN results = Front(plan.jobs, n) /\ Evaluation!Position = n + 1
  BY <1>1, PositionKnown
<1>3. PICK last : last = CHOOSE k \in Evaluation!Batches : \A m \in Evaluation!Batches : m <= k
  OBVIOUS
<1>4. last \in Evaluation!Batches
  <2>1. PICK B, N : B = Evaluation!Batches /\ N = Len(plan.jobs)
    OBVIOUS
  <2>2. B \subseteq 0 .. N /\ N \in Nat /\ B # {}
    BY <1>1, <1>2, <2>1 DEF Evaluation!Batches
  <2>3. \E k \in B : \A m \in B : m <= k
    BY <2>2, GreatestExists
  <2> QED BY <1>3, <2>1, <2>3
<1>5. last \in Evaluation!Position .. Len(plan.jobs) /\ Evaluation!Together(last)
  BY <1>4 DEF Evaluation!Batches
<1>6. batch' = [k \in Evaluation!Position .. last |-> None]
  BY <1>3 DEF Evaluation!Start
<1>7. \A k \in Evaluation!Position .. last : Evaluation!Ready(plan.jobs[k])
  BY <1>5 DEF Evaluation!Together
<1>8. PlanKnown' /\ ResultsKnown' /\ Evaluation!Position' = Evaluation!Position
  BY <1>1 DEF PlanKnown, ResultsKnown, Evaluation!Passed, Evaluation!Ready, Evaluation!Position
<1>9. \A k \in Evaluation!Position .. last : Evaluation!Ready(plan.jobs[k])'
  BY <1>1, <1>7 DEF Evaluation!Ready, Evaluation!Passed
<1>10. BatchKnown'
  BY <1>1, <1>5, <1>6, <1>8, <1>9 DEF BatchKnown
<1> QED BY <1>8, <1>10 DEF EvaluationInv

LEMMA RunJobKeeps == ASSUME EvaluationInv, NEW k, Evaluation!RunJob(k) PROVE EvaluationInv'
<1>1. /\ PlanKnown /\ ResultsKnown /\ BatchKnown /\ plan' = plan /\ results' = results
      /\ k \in DOMAIN batch
  BY DEF EvaluationInv, Evaluation!RunJob
<1>2. batch # Evaluation!EmptyMap
  BY <1>1 DEF Evaluation!EmptyMap
<1>3. PICK r : /\ batch' = [batch EXCEPT ![k] = r] /\ r.status \in {"passed", "failed", "error"}
  <2>1. PICK raw : batch' = [batch EXCEPT ![k] =
                     IF overdue \/ abandoned THEN Evaluation!Conclude("error") ELSE Evaluation!Validated(raw)]
    BY DEF Evaluation!RunJob
  <2>2. Evaluation!Conclude("error").status = "error"
    BY DEF Evaluation!Conclude
  <2>3. Evaluation!Validated(raw).status \in {"passed", "failed", "error"}
    BY <2>2 DEF Evaluation!Validated
  <2> QED BY <2>1, <2>2, <2>3
<1>4. PlanKnown' /\ ResultsKnown' /\ Evaluation!Position' = Evaluation!Position
  BY <1>1 DEF PlanKnown, ResultsKnown, Evaluation!Passed, Evaluation!Ready, Evaluation!Position
<1>5. DOMAIN batch' = DOMAIN batch
  BY <1>3
<1>6. ASSUME NEW i \in DOMAIN batch
      PROVE /\ Evaluation!Ready(plan.jobs[i])'
            /\ batch'[i] # None => batch'[i].status \in {"passed", "failed", "error"}
  <2>1. /\ Evaluation!Ready(plan.jobs[i])
        /\ batch[i] # None => batch[i].status \in {"passed", "failed", "error"}
    BY <1>1, <1>2 DEF BatchKnown
  <2>2. Evaluation!Ready(plan.jobs[i])'
    BY <1>1, <2>1 DEF Evaluation!Ready, Evaluation!Passed
  <2>3. batch'[i] = IF i = k THEN r ELSE batch[i]
    BY <1>3
  <2> QED BY <1>3, <2>1, <2>2, <2>3
<1>7. \E last \in Evaluation!Position .. Len(plan.jobs) : DOMAIN batch = Evaluation!Position .. last
  BY <1>1, <1>2 DEF BatchKnown
<1>8. BatchKnown'
  BY <1>1, <1>4, <1>5, <1>6, <1>7 DEF BatchKnown
<1> QED BY <1>4, <1>8 DEF EvaluationInv

LEMMA ArchiveKeeps == ASSUME EvaluationInv, Evaluation!Archive PROVE EvaluationInv'
<1>1. /\ PlanKnown /\ ResultsKnown /\ BatchKnown /\ plan' = plan /\ batch' = Evaluation!EmptyMap
      /\ batch # Evaluation!EmptyMap /\ \A k \in DOMAIN batch : batch[k] # None
  BY DEF EvaluationInv, Evaluation!Archive
<1>2. PICK last \in Evaluation!Position .. Len(plan.jobs) : DOMAIN batch = Evaluation!Position .. last
  BY <1>1 DEF BatchKnown
<1>3. PICK found : found = [id \in {plan.jobs[k].id : k \in DOMAIN batch} |->
                              batch[CHOOSE k \in DOMAIN batch : plan.jobs[k].id = id]]
  OBVIOUS
<1>4. results' = Evaluation!Recorded(found)
  BY <1>3 DEF Evaluation!Archive
<1>5. DOMAIN found = {plan.jobs[k].id : k \in Evaluation!Position .. last}
  BY <1>2, <1>3
<1>6. ASSUME NEW k \in DOMAIN batch PROVE found[plan.jobs[k].id] = batch[k]
  <2>1. PICK named : named = CHOOSE i \in DOMAIN batch : plan.jobs[i].id = plan.jobs[k].id
    OBVIOUS
  <2>2. named \in DOMAIN batch /\ plan.jobs[named].id = plan.jobs[k].id
    BY <2>1
  <2>3. DOMAIN batch \subseteq 1 .. Len(plan.jobs) /\ Distinct(plan.jobs)
    <3>1. Evaluation!Position \in Nat \ {0} /\ Len(plan.jobs) \in Nat
      BY <1>1, PositionKnown
    <3>2. Distinct(plan.jobs)
      BY <1>1 DEF PlanKnown, PlanOf
    <3> QED BY <1>2, <3>1, <3>2
  <2>4. named = k
    BY <2>2, <2>3 DEF Distinct
  <2> QED BY <1>3, <2>1, <2>4
<1>7. \A k \in Evaluation!Position .. last :
        /\ found[plan.jobs[k].id].status \in {"passed", "failed", "error", "blocked"}
        /\ found[plan.jobs[k].id].status = "passed" => Evaluation!Ready(plan.jobs[k])
  BY <1>1, <1>2, <1>6 DEF BatchKnown
<1>8. ResultsKnown'
  BY <1>1, <1>4, <1>5, <1>7, ResultsGrow
<1>9. PlanKnown' /\ BatchKnown'
  BY <1>1 DEF PlanKnown, BatchKnown, Evaluation!EmptyMap
<1> QED BY <1>8, <1>9 DEF EvaluationInv

\* Every evaluation, whichever plan was declared and accepted: results come in
\* for the jobs in their order, those of a batch at once, and no job of a plan
\* passes, or is run, before all it depends on has passed.
THEOREM EvaluationInvariant == EvaluationSpec => []EvaluationInv
<1> USE PlansAssumption DEF PlansAssumption
<1>1. Evaluation!Init => EvaluationInv
  BY EvaluationStarts
<1>2. EvaluationInv /\ [Evaluation!Next]_Evaluation!evaluationVars => EvaluationInv'
  <2> SUFFICES ASSUME EvaluationInv, [Evaluation!Next]_Evaluation!evaluationVars PROVE EvaluationInv'
    OBVIOUS
  <2>1. ASSUME plan' = plan, results' = results, batch' = batch PROVE EvaluationInv'
    BY <2>1 DEF EvaluationInv, PlanKnown, ResultsKnown, BatchKnown, Evaluation!EmptyMap,
                Evaluation!Passed, Evaluation!Ready, Evaluation!Position
  <2>2. CASE Evaluation!Cancel \/ Evaluation!Expire \/ UNCHANGED Evaluation!evaluationVars
    BY <2>1, <2>2 DEF Evaluation!Cancel, Evaluation!Expire, Evaluation!evaluationVars
  <2>3. ASSUME NEW k \in DOMAIN batch, Evaluation!RunJob(k) PROVE EvaluationInv'
    BY <2>3, RunJobKeeps
  <2> QED BY <2>2, <2>3, BlockKeeps, StartKeeps, ArchiveKeeps DEF Evaluation!Next
<1> QED BY <1>1, <1>2, PTL DEF EvaluationSpec

-----------------------------------------------------------------------------
(* The verdicts                                                            *)

\* What passed is closed under what jobs depend on.
LEMMA PassedClosed ==
    ASSUME PlansDeclared, ResultsKnown, NEW p \in Plans, Evaluation!Accepted(p), PlanOf(p, plan),
           NEW id \in Evaluation!JobIds(p.jobs), Evaluation!Passed(id)
    PROVE \A d \in Evaluation!Dependencies(p.jobs, id) : d \in Evaluation!JobIds(p.jobs) /\ Evaluation!Passed(d)
<1>1. Evaluation!Dependencies(p.jobs, id) \subseteq Evaluation!JobIds(p.jobs)
  BY AcceptedJobs
<1>2. PICK i \in 1 .. Len(plan.jobs) : id = plan.jobs[i].id
  <2>1. id \in Front(plan.jobs, Len(plan.jobs))
    BY IdsAre DEF PlanOf
  <2> QED BY <2>1 DEF Front
<1>3. plan.jobs[i].requires = Evaluation!Dependencies(p.jobs, id)
  BY <1>2 DEF PlanOf
<1>4. Evaluation!Ready(plan.jobs[i])
  BY <1>2 DEF ResultsKnown
<1> QED BY <1>1, <1>3, <1>4 DEF Evaluation!Ready

\* So is what they depend on in several steps, along all edges or those of data.
LEMMA AncestorsPassed ==
    ASSUME PlansDeclared, ResultsKnown, NEW p \in Plans, Evaluation!Accepted(p), PlanOf(p, plan),
           NEW id \in Evaluation!JobIds(p.jobs), Evaluation!Passed(id)
    PROVE \A d \in Evaluation!Ancestors(p.jobs)[id] \cup Evaluation!DataAncestors(p.jobs)[id] :
            d \in Evaluation!JobIds(p.jobs) /\ Evaluation!Passed(d)
<1>1. PICK jobs, D, S : /\ jobs = p.jobs /\ D = Evaluation!JobIds(jobs)
                        /\ S = {d \in Evaluation!JobIds(jobs) : Evaluation!Passed(d)}
  OBVIOUS
<1>2. IsFiniteSet(D)
  <2>1. Distinct(jobs) /\ Len(jobs) \in Nat /\ Len(jobs) \in 0 .. Len(jobs)
    BY <1>1, AcceptedJobs DEF Listed
  <2> QED BY <1>1, <2>1, IdsCounted, IdsAre
<1>3. \A d \in D \cap S : Evaluation!Dependencies(jobs, d) \subseteq S
  BY <1>1, PassedClosed
<1>4. \A d \in D : /\ Evaluation!Dependencies(jobs, d) \subseteq D
                   /\ Evaluation!Producers(jobs, d) \subseteq Evaluation!Dependencies(jobs, d)
  BY <1>1, AcceptedJobs DEF Evaluation!Dependencies
<1>5. PICK e, f : /\ e = [d \in D |-> Evaluation!Dependencies(jobs, d)]
                  /\ f = [d \in D |-> Evaluation!Producers(jobs, d)]
  OBVIOUS
<1>6. /\ e \in [D -> SUBSET D] /\ \A d \in D \cap S : e[d] \subseteq S
      /\ f \in [D -> SUBSET D] /\ \A d \in D \cap S : f[d] \subseteq S
  BY <1>3, <1>4, <1>5
<1>7. /\ \A d \in D : d \in S => Evaluation!Closure(e)[d] \subseteq S
      /\ \A d \in D : d \in S => Evaluation!Closure(f)[d] \subseteq S
  BY <1>2, <1>6, ClosureStays
<1>8. id \in D /\ id \in S
  BY <1>1
<1>9. /\ Evaluation!Ancestors(jobs) = Evaluation!Closure(e)
      /\ Evaluation!DataAncestors(jobs) = Evaluation!Closure(f)
  BY <1>1, <1>5 DEF Evaluation!Ancestors, Evaluation!DataAncestors
<1> QED BY <1>1, <1>7, <1>8, <1>9

LEMMA JobOfIs ==
    ASSUME NEW jobs, NEW id \in Evaluation!JobIds(jobs)
    PROVE Evaluation!JobOf(jobs, id) \in Evaluation!ToSet(jobs) /\ Evaluation!JobOf(jobs, id).id = id
<1>1. \E j \in Evaluation!ToSet(jobs) : j.id = id
  BY IdsAre, JobsAre DEF Front
<1> QED BY <1>1 DEF Evaluation!JobOf

\* A metric is measured behind a simulation, which is behind an extraction of the
\* candidate, which is behind the gates.
LEMMA MeasuredBehindGates ==
    ASSUME PlansDeclared, ResultsKnown, NEW p \in Plans, Evaluation!Accepted(p), PlanOf(p, plan),
           p.mode = "post_layout", NEW m \in Evaluation!Performance(p),
           NEW k \in 1 .. Len(m.observations), Evaluation!Passed(m.observations[k]),
           NEW g \in Evaluation!GateJobs(p.jobs, Evaluation!Gates)
    PROVE Evaluation!Passed(g.id)
<1>1. PICK jobs, a : jobs = p.jobs /\ a = m.observations[k]
  OBVIOUS
<1>2. a \in Evaluation!JobIds(jobs) /\ Evaluation!Passed(a)
  BY <1>1 DEF Evaluation!Accepted, Evaluation!Performance, Evaluation!ValidMetric
<1>3. /\ Evaluation!ExtractionGated(jobs) /\ Evaluation!Simulations(jobs, a) # {}
      /\ \A s \in Evaluation!Simulations(jobs, a) : Evaluation!FedByCandidate(jobs, s)
  BY <1>1 DEF Evaluation!Accepted, Evaluation!ValidMode
<1>4. PICK s \in Evaluation!Simulations(jobs, a) : Evaluation!FedByCandidate(jobs, s)
  BY <1>3
<1>5. s \in Evaluation!JobIds(jobs) /\ Evaluation!Passed(s)
  <2>1. s \in Evaluation!DataAncestors(jobs)[a] \cup {a}
    BY DEF Evaluation!Simulations, Evaluation!Lineage
  <2> QED BY <1>1, <1>2, <2>1, AncestorsPassed
<1>6. PICK x \in Evaluation!DataAncestors(jobs)[s] : Evaluation!JobOf(jobs, x).stage = "extract"
  BY <1>4 DEF Evaluation!FedByCandidate
<1>7. x \in Evaluation!JobIds(jobs) /\ Evaluation!Passed(x)
  BY <1>1, <1>5, <1>6, AncestorsPassed
<1>8. PICK j : j = Evaluation!JobOf(jobs, x)
  OBVIOUS
<1>9. j \in Evaluation!ToSet(jobs) /\ j.id = x /\ j.stage = "extract"
  BY <1>6, <1>7, <1>8, JobOfIs
<1>10. g.id \in Evaluation!Ancestors(jobs)[x]
  BY <1>1, <1>3, <1>9 DEF Evaluation!ExtractionGated
<1> QED BY <1>1, <1>7, <1>10, AncestorsPassed

LEMMA GatesPassed == ASSUME PlansDeclared, EvaluationInv PROVE Evaluation!GatedPerformance
<1>1. PICK p \in Plans : Evaluation!Accepted(p) /\ PlanOf(p, plan)
  BY DEF EvaluationInv, PlanKnown
<1>2. SUFFICES ASSUME plan.mode = "post_layout", NEW m \in Evaluation!Performance(plan),
                      NEW k \in 1 .. Len(m.observations), Evaluation!Passed(m.observations[k]),
                      NEW g \in Evaluation!GateJobs(plan.jobs, Evaluation!Gates)
               PROVE Evaluation!Passed(g.id)
  BY DEF Evaluation!GatedPerformance
<1>3. p.mode = "post_layout" /\ m \in Evaluation!Performance(p)
  BY <1>1, <1>2 DEF PlanOf, Evaluation!Performance
<1>4. PICK i \in 1 .. Len(plan.jobs) : g = plan.jobs[i]
  BY JobsAre DEF Evaluation!GateJobs
<1>5. PICK j \in Evaluation!ToSet(p.jobs) : g.id = j.id /\ g.gate = j.gate
  BY <1>1, <1>4 DEF PlanOf
<1>6. j \in Evaluation!GateJobs(p.jobs, Evaluation!Gates)
  BY <1>5 DEF Evaluation!GateJobs
<1> QED BY <1>1, <1>2, <1>3, <1>5, <1>6, MeasuredBehindGates DEF EvaluationInv

\* When it is done, every job has a result, and a metric observes nothing else.
LEMMA DoneIsComplete ==
    ASSUME PlansDeclared, EvaluationInv, Evaluation!Done
    PROVE /\ DOMAIN results = Evaluation!JobIds(plan.jobs) /\ Evaluation!Statuses # {}
          /\ Evaluation!Statuses \subseteq {"passed", "failed", "error", "blocked"}
          /\ Evaluation!GateStatuses \subseteq Evaluation!Statuses
<1>1. PlanKnown /\ ResultsKnown
  BY DEF EvaluationInv
<1>2. PICK n \in Nat : /\ n <= Len(plan.jobs) /\ Len(plan.jobs) \in Nat
                       /\ DOMAIN results = Front(plan.jobs, n) /\ Evaluation!Position = n + 1
  BY <1>1, PositionKnown
<1>3. n = Len(plan.jobs) /\ Len(plan.jobs) > 0
  BY <1>1, <1>2 DEF Evaluation!Done, PlanKnown, PlanOf
<1>4. DOMAIN results = Evaluation!JobIds(plan.jobs)
  BY <1>2, <1>3, IdsAre
<1>5. plan.jobs[1].id \in DOMAIN results
  BY <1>2, <1>3 DEF Front
<1>6. \A j \in Evaluation!ToSet(plan.jobs) : j.id \in DOMAIN results
  BY <1>4, IdsAre, JobsAre DEF Front
<1>7. Evaluation!GateStatuses \subseteq Evaluation!Statuses
  BY <1>6 DEF Evaluation!GateStatuses, Evaluation!GateJobs, Evaluation!Statuses
<1>8. /\ Evaluation!Statuses # {}
      /\ Evaluation!Statuses \subseteq {"passed", "failed", "error", "blocked"}
  BY <1>1, <1>5 DEF Evaluation!Statuses, ResultsKnown
<1> QED BY <1>4, <1>7, <1>8

LEMMA ObservationIs ==
    \A m, k : Evaluation!Observation(m, k) \in {"passed", "failed", "error", "blocked"}
BY DEF Evaluation!Observation

LEMMA MetricStatusIs ==
    ASSUME NEW m
    PROVE /\ Evaluation!Observations(m) \subseteq {"passed", "failed", "error", "blocked"}
          /\ Evaluation!MetricStatus(m) = "failed" => "failed" \in Evaluation!Observations(m)
          /\ Evaluation!MetricStatus(m) \in {"passed", "failed", "error", "blocked"}
          /\ Evaluation!MetricStatus(m) = "passed" => Evaluation!Observations(m) \subseteq {"passed"}
<1>1. Evaluation!Observations(m) \subseteq {"passed", "failed", "error", "blocked"}
  BY ObservationIs DEF Evaluation!Observations
<1> QED BY <1>1 DEF Evaluation!MetricStatus

\* A rejection by a job or an observation, as the outcome and the score tell it.
LEMMA RejectionTold ==
    ASSUME PlansDeclared, EvaluationInv, Evaluation!Done
    PROVE /\ plan.scored /\ Evaluation!Rejected => Evaluation!Score = "zero"
          /\ Evaluation!FirstOutcome = "failed" => Evaluation!Rejected
          /\ Evaluation!Rejected /\ ~Evaluation!Mixed => Evaluation!FirstOutcome = "failed"
          /\ "failed" \in Evaluation!Statuses => Evaluation!FirstOutcome = "failed" /\ Evaluation!Rejected
<1>1. plan.scored /\ Evaluation!Rejected => Evaluation!Score = "zero"
  BY DEF Evaluation!Rejected, Evaluation!Score, Evaluation!score_layout, Evaluation!JobState
<1>2. Evaluation!FirstOutcome = "failed" <=> "failed" \in Evaluation!AllStatuses
  BY DEF Evaluation!FirstOutcome
<1>3. "failed" \in Evaluation!AllStatuses => Evaluation!Rejected
  BY MetricStatusIs DEF Evaluation!AllStatuses, Evaluation!Rejected, Evaluation!AllObservations
<1>4. Evaluation!Rejected /\ ~Evaluation!Mixed => "failed" \in Evaluation!AllStatuses
  BY DEF Evaluation!AllStatuses, Evaluation!Rejected, Evaluation!AllObservations, Evaluation!Mixed
<1>5. "failed" \in Evaluation!Statuses => "failed" \in Evaluation!AllStatuses /\ Evaluation!Rejected
  BY DEF Evaluation!AllStatuses, Evaluation!Rejected
<1> QED BY <1>1, <1>2, <1>3, <1>4, <1>5

\* What a first outcome without a failure, an error or a gap says of the results.
LEMMA FirstOutcomePassed ==
    ASSUME PlansDeclared, EvaluationInv, Evaluation!Done, Evaluation!FirstOutcome = "passed"
    PROVE Evaluation!Statuses \subseteq {"passed"} /\ Evaluation!AllObservations \subseteq {"passed"}
<1>1. {"failed", "error", "blocked"} \cap Evaluation!AllStatuses = {}
  BY DEF Evaluation!FirstOutcome
<1>2. Evaluation!Statuses \subseteq {"passed"}
  BY <1>1, DoneIsComplete DEF Evaluation!AllStatuses
<1>3. \A m \in Evaluation!Metrics : Evaluation!MetricStatus(m) = "passed"
  BY <1>1, MetricStatusIs DEF Evaluation!AllStatuses
<1>4. Evaluation!AllObservations \subseteq {"passed"}
  BY <1>3, MetricStatusIs DEF Evaluation!AllObservations
<1> QED BY <1>2, <1>4

LEMMA VerdictsAgree == ASSUME PlansDeclared, EvaluationInv PROVE Evaluation!VerdictConsistent
<1> SUFFICES ASSUME Evaluation!Done
             PROVE /\ plan.scored /\ Evaluation!Rejected => Evaluation!Score = "zero"
                   /\ Evaluation!Rejected /\ ~Evaluation!Mixed => Evaluation!Outcome = "failed"
                   /\ Evaluation!Outcome = "failed" => Evaluation!Rejected /\ Evaluation!TaskSuccess # "yes"
                   /\ Evaluation!PhysicalValid = "no" => Evaluation!Outcome = "failed"
                   /\ \/ Evaluation!Score \in {"partial", "full"}
                      \/ Evaluation!TaskSuccess = "yes" \/ Evaluation!Outcome = "passed"
                      => /\ Evaluation!Statuses = {"passed"}
                         /\ Evaluation!AllObservations \subseteq {"passed"}
                         /\ plan.mode # "characterization" => Evaluation!PhysicalValid = "yes"
  BY DEF Evaluation!VerdictConsistent
<1>1. /\ Evaluation!Statuses # {} /\ Evaluation!GateStatuses \subseteq Evaluation!Statuses
      /\ Evaluation!Statuses \subseteq {"passed", "failed", "error", "blocked"}
  BY DoneIsComplete
<1>2. plan.scored /\ Evaluation!Rejected => Evaluation!Score = "zero"
  BY RejectionTold
<1>3. Evaluation!Rejected => ~Evaluation!ScoringError
  BY <1>2 DEF Evaluation!ScoringError
<1>4. Evaluation!Rejected /\ ~Evaluation!Mixed => Evaluation!Outcome = "failed"
  BY <1>3, RejectionTold DEF Evaluation!Outcome
<1>5. Evaluation!Outcome = "failed" => Evaluation!FirstOutcome = "failed" /\ ~Evaluation!ScoringError
  BY DEF Evaluation!Outcome
<1>6. Evaluation!Outcome = "failed" => Evaluation!Rejected /\ Evaluation!TaskSuccess # "yes"
  BY <1>5, RejectionTold DEF Evaluation!TaskSuccess
<1>7. Evaluation!PhysicalValid = "no" => Evaluation!Outcome = "failed"
  <2>1. Evaluation!PhysicalValid = "no" => "failed" \in Evaluation!Statuses
    BY <1>1 DEF Evaluation!PhysicalValid
  <2> QED BY <2>1, <1>3, RejectionTold DEF Evaluation!Outcome
<1>8. ASSUME \/ Evaluation!Score \in {"partial", "full"}
             \/ Evaluation!TaskSuccess = "yes" \/ Evaluation!Outcome = "passed"
      PROVE Evaluation!Statuses \subseteq {"passed"} /\ Evaluation!AllObservations \subseteq {"passed"}
  <2>1. CASE Evaluation!Score \in {"partial", "full"}
    BY <2>1 DEF Evaluation!Score, Evaluation!score_layout, Evaluation!JobState
  <2>2. CASE Evaluation!TaskSuccess = "yes" \/ Evaluation!Outcome = "passed"
    <3>1. Evaluation!FirstOutcome = "passed"
      BY <2>2 DEF Evaluation!TaskSuccess, Evaluation!Outcome
    <3> QED BY <3>1, FirstOutcomePassed
  <2> QED BY <1>8, <2>1, <2>2
<1>9. Evaluation!Statuses \subseteq {"passed"} =>
        /\ Evaluation!Statuses = {"passed"}
        /\ plan.mode # "characterization" => Evaluation!PhysicalValid = "yes"
  BY <1>1 DEF Evaluation!PhysicalValid
<1> QED BY <1>2, <1>4, <1>6, <1>7, <1>8, <1>9

\* The report of every evaluation, whatever its backends return and whenever it
\* is cancelled: its verdicts and its score agree (but for Mixed metrics), and
\* performance was measured on a candidate that passed its gates.
THEOREM EvaluationSound ==
    EvaluationSpec => [](Evaluation!VerdictConsistent /\ Evaluation!GatedPerformance)
<1> USE PlansAssumption DEF PlansAssumption
<1>1. EvaluationInv => Evaluation!VerdictConsistent /\ Evaluation!GatedPerformance
  BY VerdictsAgree, GatesPassed
<1> QED BY <1>1, EvaluationInvariant, PTL

\* What the run of one instance checks of these machines holds for every plan,
\* retry policy, number of faults, attempts, logins, sessions, processes and starts.
THEOREM ExecutionSound ==
    ToolSpec /\ TreeSpec /\ LoginSpec /\ TalkSpec /\ EvaluationSpec => []ExecutionHolds
<1>1. /\ Tool!ToolRunHolds /\ Tree!TreeHolds /\ Login!CredentialsHold /\ Talk!OneConversation
      /\ Evaluation!VerdictConsistent /\ Evaluation!GatedPerformance
      => ExecutionHolds
  BY DEF ExecutionHolds
<1> QED BY <1>1, ToolRunSound, TreeSound, LoginSound, ConversationContinues, EvaluationSound, PTL

-----------------------------------------------------------------------------
(* The quality of a measurement                                            *)

\* Every function on the numbers that is given by its value one below exists.
DoublingsTo(f, n) == f \in [0 .. n -> Nat] /\ f[0] = 1 /\ \A i \in 1 .. n : f[i] = 2 * f[i - 1]

LEMMA DoublingsAgree ==
    ASSUME NEW n \in Nat, NEW m \in Nat, n <= m, NEW f, NEW g, DoublingsTo(f, n), DoublingsTo(g, m)
    PROVE \A i \in 0 .. n : f[i] = g[i]
<1>1. PICK U : U = {i \in Nat : i <= n => f[i] = g[i]}
  OBVIOUS
<1>2. 0 \in U
  BY <1>1 DEF DoublingsTo
<1>3. \A i \in Nat : i \in U => i + 1 \in U
  <2> SUFFICES ASSUME NEW i \in Nat, i \in U, i + 1 <= n PROVE f[i + 1] = g[i + 1]
    BY <1>1
  <2>1. f[i] = g[i] /\ i + 1 \in 1 .. n /\ i + 1 \in 1 .. m /\ (i + 1) - 1 = i
    BY <1>1
  <2> QED BY <2>1 DEF DoublingsTo
<1>4. Nat \subseteq U
  BY <1>2, <1>3, NatSetInduction
<1> QED BY <1>1, <1>4

LEMMA DoublingsUpTo == ASSUME NEW n \in Nat PROVE \E f : DoublingsTo(f, n)
<1>1. PICK k, V, v, c : k = n /\ V = Nat /\ v = 1 /\ c = [p \in (1 .. n) \X V |-> 2 * p[2]]
  OBVIOUS
<1>2. PICK f \in [0 .. k -> V] : f[0] = v /\ \A i \in 1 .. k : f[i] = c[<<i, f[i - 1]>>]
  <2>1. Climbs(k, V, v, c)
    BY <1>1 DEF Climbs
  <2> QED BY ONLY <2>1, UpwardRecursion
<1>3. ASSUME NEW i \in 1 .. n PROVE f[i] = 2 * f[i - 1]
  <2>1. i - 1 \in 0 .. n /\ f[i - 1] \in V
    BY <1>1, <1>2
  <2> QED BY <1>1, <1>2, <2>1
<1> QED BY <1>1, <1>2, <1>3 DEF DoublingsTo

LEMMA DoublingsAre ==
    /\ Evaluation!Doublings[0] = 1
    /\ \A n \in Nat : Evaluation!Doublings[n + 1] = 2 * Evaluation!Doublings[n]
    /\ \A n \in Nat : Evaluation!Doublings[n] \in Nat
<1>1. PICK G : G = [n \in Nat |-> CHOOSE f : DoublingsTo(f, n)]
  OBVIOUS
<1>2. \A n \in Nat : DoublingsTo(G[n], n)
  BY <1>1, DoublingsUpTo
<1>3. PICK F : F = [n \in Nat |-> G[n][n]]
  OBVIOUS
<1>4. F[0] = 1 /\ \A n \in Nat : F[n] \in Nat
  BY <1>2, <1>3 DEF DoublingsTo
<1>5. ASSUME NEW n \in Nat PROVE F[n + 1] = 2 * F[n]
  <2>1. PICK f, g : f = G[n] /\ g = G[n + 1]
    OBVIOUS
  <2>2. DoublingsTo(f, n) /\ DoublingsTo(g, n + 1)
    BY <1>2, <2>1
  <2>3. f[n] = g[n]
    BY <2>2, DoublingsAgree
  <2>4. n + 1 \in 1 .. n + 1 /\ (n + 1) - 1 = n
    OBVIOUS
  <2>5. g[n + 1] = 2 * g[n]
    BY <2>2, <2>4 DEF DoublingsTo
  <2> QED BY <1>3, <2>1, <2>3, <2>5
<1>6. F = [n \in Nat |-> IF n = 0 THEN 1 ELSE 2 * F[n - 1]]
  <2>1. \A n \in Nat : n # 0 => F[n] = 2 * F[n - 1]
    <3> SUFFICES ASSUME NEW n \in Nat, n # 0 PROVE F[n] = 2 * F[n - 1]
      OBVIOUS
    <3>1. PICK k \in Nat : n = k + 1
      <4>1. n - 1 \in Nat /\ n = (n - 1) + 1
        OBVIOUS
      <4> QED BY <4>1
    <3> QED BY <1>5, <3>1
  <2> QED BY <1>3, <1>4, <2>1
<1>7. PICK D : D = Evaluation!Doublings
  OBVIOUS
<1>8. D = [n \in Nat |-> IF n = 0 THEN 1 ELSE 2 * D[n - 1]]
  BY <1>6, <1>7 DEF Evaluation!Doublings
<1>9. D[0] = 1 /\ \A n \in Nat : D[n + 1] = 2 * D[n]
  <2>1. \A n \in Nat : n + 1 \in Nat /\ n + 1 # 0 /\ (n + 1) - 1 = n
    OBVIOUS
  <2> QED BY <1>8, <2>1
<1>10. PICK U : U = {n \in Nat : D[n] \in Nat}
  OBVIOUS
<1>11. Nat \subseteq U
  <2>1. 0 \in U /\ \A n \in Nat : n \in U => n + 1 \in U
    BY <1>9, <1>10
  <2> QED BY <2>1, NatSetInduction
<1> QED BY <1>7, <1>9, <1>10, <1>11

LEMMA DoublingsGrow ==
    ASSUME NEW n \in Nat, NEW m \in Nat, n <= m
    PROVE 1 <= Evaluation!Doublings[n] /\ Evaluation!Doublings[n] <= Evaluation!Doublings[m]
<1>1. PICK D : D = Evaluation!Doublings
  OBVIOUS
<1>2. D[0] = 1 /\ \A k \in Nat : D[k] \in Nat /\ D[k + 1] = 2 * D[k]
  BY <1>1, DoublingsAre
<1>3. PICK U : U = {k \in Nat : 1 <= D[k]}
  OBVIOUS
<1>4. Nat \subseteq U
  <2>1. 0 \in U /\ \A k \in Nat : k \in U => k + 1 \in U
    BY <1>2, <1>3
  <2> QED BY <2>1, NatSetInduction
<1>5. PICK W : W = {k \in Nat : D[n] <= D[n + k]}
  OBVIOUS
<1>6. Nat \subseteq W
  <2>1. 0 \in W
    BY <1>2, <1>5
  <2>2. \A k \in Nat : k \in W => k + 1 \in W
    <3> SUFFICES ASSUME NEW k \in Nat, k \in W PROVE k + 1 \in W
      OBVIOUS
    <3>1. D[n] <= D[n + k] /\ D[n] \in Nat /\ D[n + k] \in Nat
      BY <1>2, <1>5
    <3>2. D[(n + k) + 1] = 2 * D[n + k] /\ (n + k) + 1 = n + (k + 1)
      BY <1>2
    <3> QED BY <1>5, <3>1, <3>2
  <2> QED BY <2>1, <2>2, NatSetInduction
<1>7. m - n \in Nat /\ n + (m - n) = m
  OBVIOUS
<1> QED BY <1>1, <1>3, <1>4, <1>5, <1>6, <1>7

LEMMA Products ==
    ASSUME NEW a \in Nat, NEW b \in Int, NEW c \in Int, b <= c
    PROVE a * b <= a * c /\ b * a <= c * a
OBVIOUS

LEMMA AtMostMeans ==
    ASSUME NEW a, NEW b, NEW c, NEW d
    PROVE Evaluation!AtMost(Evaluation!Fraction(a, b), Evaluation!Fraction(c, d)) <=> a * d <= c * b
BY DEF Evaluation!AtMost, Evaluation!Fraction

\* What is the same quality.
Full(p) == Evaluation!AtMost(p, Evaluation!One) /\ Evaluation!AtMost(Evaluation!One, p)

LEMMA DegradationFalls ==
    ASSUME NEW m, NEW v, NEW o, NEW a, m.scale \in Int, m.scale > 0,
           Evaluation!Loss(m, v, a) \in Int, Evaluation!Loss(m, o, a) \in Int
    PROVE /\ Evaluation!Loss(m, v, a) <= Evaluation!Loss(m, o, a)
               => Evaluation!AtMost(Evaluation!Degradation(m, o, a), Evaluation!Degradation(m, v, a))
          /\ Evaluation!AtMost(Evaluation!Degradation(m, v, a), Evaluation!One)
          /\ Evaluation!Loss(m, v, a) = 0 => Full(Evaluation!Degradation(m, v, a))
<1>1. PICK s, l, k : s = m.scale /\ l = Evaluation!Loss(m, v, a) /\ k = Evaluation!Loss(m, o, a)
  OBVIOUS
<1>2. s \in Int /\ s > 0 /\ l \in Int /\ k \in Int
  BY <1>1
<1>3. PICK p, q : p = Evaluation!Degradation(m, v, a) /\ q = Evaluation!Degradation(m, o, a)
  OBVIOUS
<1>4. /\ p = IF l <= 0 THEN Evaluation!Fraction(1, 1) ELSE Evaluation!Fraction(s, s + l)
      /\ q = IF k <= 0 THEN Evaluation!Fraction(1, 1) ELSE Evaluation!Fraction(s, s + k)
  BY <1>1, <1>3 DEF Evaluation!Degradation, Evaluation!One
<1>5. l <= k => Evaluation!AtMost(q, p)
  <2>1. CASE k <= 0
    BY <1>2, <1>4, <2>1, AtMostMeans
  <2>2. CASE k > 0 /\ l <= 0
    <3>1. s * 1 <= 1 * (s + k)
      BY <1>2, <2>2
    <3> QED BY <1>2, <1>4, <2>2, <3>1, AtMostMeans
  <2>3. CASE k > 0 /\ l > 0
    <3>1. l <= k => s * (s + l) <= s * (s + k)
      BY <1>2, <2>3, Products
    <3> QED BY <1>2, <1>4, <2>3, <3>1, AtMostMeans
  <2> QED BY <1>2, <2>1, <2>2, <2>3
<1>6. Evaluation!AtMost(p, Evaluation!One)
  <2>1. l > 0 => s * 1 <= 1 * (s + l)
    BY <1>2
  <2> QED BY <1>2, <1>4, <2>1, AtMostMeans DEF Evaluation!One
<1>7. l = 0 => Full(p)
  BY <1>4, AtMostMeans DEF Full, Evaluation!One
<1> QED BY <1>1, <1>3, <1>5, <1>6, <1>7

LEMMA DecibelsFall ==
    ASSUME NEW m, NEW v, NEW o, NEW a,
           Evaluation!Loss(m, v, a) \in Int, Evaluation!Loss(m, o, a) \in Int
    PROVE /\ Evaluation!Loss(m, v, a) <= Evaluation!Loss(m, o, a)
               => Evaluation!AtMost(Evaluation!Decibels(m, o, a), Evaluation!Decibels(m, v, a))
          /\ Evaluation!Loss(m, v, a) >= 0 => Evaluation!AtMost(Evaluation!Decibels(m, v, a), Evaluation!One)
          /\ Evaluation!Loss(m, v, a) = 0 => Full(Evaluation!Decibels(m, v, a))
<1>1. PICK l, k, D : /\ l = Evaluation!Loss(m, v, a) /\ k = Evaluation!Loss(m, o, a)
                     /\ D = Evaluation!Doublings
  OBVIOUS
<1>2. l \in Int /\ k \in Int
  BY <1>1
<1>3. PICK p, q : p = Evaluation!Decibels(m, v, a) /\ q = Evaluation!Decibels(m, o, a)
  OBVIOUS
<1>4. /\ p = IF l <= 0 THEN Evaluation!Fraction(D[-l], 1) ELSE Evaluation!Fraction(1, D[l])
      /\ q = IF k <= 0 THEN Evaluation!Fraction(D[-k], 1) ELSE Evaluation!Fraction(1, D[k])
  BY <1>1, <1>3 DEF Evaluation!Decibels
<1>5. /\ D[0] = 1 /\ \A n \in Nat : D[n] \in Nat /\ 1 <= D[n]
      /\ \A n, i \in Nat : n <= i => D[n] <= D[i]
  BY <1>1, DoublingsAre, DoublingsGrow
<1>6. l <= k => Evaluation!AtMost(q, p)
  <2> SUFFICES ASSUME l <= k PROVE Evaluation!AtMost(q, p)
    OBVIOUS
  <2>1. CASE k <= 0
    <3>1. -l \in Nat /\ -k \in Nat /\ -k <= -l /\ l <= 0
      BY <1>2, <2>1
    <3>2. D[-k] \in Nat /\ D[-l] \in Nat /\ D[-k] <= D[-l]
      BY <1>5, <3>1
    <3>3. D[-k] * 1 <= D[-l] * 1
      BY <3>2
    <3> QED BY <1>4, <2>1, <3>1, <3>3, AtMostMeans
  <2>2. CASE k > 0 /\ l <= 0
    <3>1. -l \in Nat /\ k \in Nat /\ ~(k <= 0)
      BY <1>2, <2>2
    <3>2. D[-l] \in Nat /\ 1 <= D[-l] /\ D[k] \in Nat /\ 1 <= D[k]
      BY <1>5, <3>1
    <3>3. D[-l] * 1 <= D[-l] * D[k]
      BY <3>2, Products
    <3>4. D[-l] * D[k] \in Nat
      BY <3>2
    <3>5. 1 * 1 <= D[-l] * D[k]
      BY <3>2, <3>3, <3>4
    <3> QED BY <1>4, <2>2, <3>1, <3>5, AtMostMeans
  <2>3. CASE k > 0 /\ l > 0
    <3>1. l \in Nat /\ k \in Nat /\ ~(k <= 0) /\ ~(l <= 0)
      BY <1>2, <2>3
    <3>2. D[l] \in Nat /\ D[k] \in Nat /\ D[l] <= D[k]
      BY <1>5, <3>1
    <3>3. 1 * D[l] <= 1 * D[k]
      BY <3>2
    <3> QED BY <1>4, <3>1, <3>3, AtMostMeans
  <2> QED BY <1>2, <2>1, <2>2, <2>3
<1>7. l = 0 => Full(p)
  <2>1. l = 0 => p = Evaluation!Fraction(1, 1)
    <3> SUFFICES ASSUME 0 <= l, l <= 0 PROVE p = Evaluation!Fraction(1, 1)
      OBVIOUS
    <3>1. PICK z : z = -l
      OBVIOUS
    <3>2. z \in Int /\ 0 <= z /\ z <= 0
      BY <1>2, <3>1
    <3>3. z = 0
      BY <3>2
    <3> QED BY <1>4, <1>5, <3>1, <3>3
  <2> QED BY <2>1, AtMostMeans DEF Full, Evaluation!One
<1>8. l > 0 => Evaluation!AtMost(p, Evaluation!One)
  <2> SUFFICES ASSUME l > 0 PROVE Evaluation!AtMost(p, Evaluation!One)
    OBVIOUS
  <2>1. l \in Nat /\ ~(l <= 0)
    BY <1>2
  <2>2. 1 * 1 <= 1 * D[l]
    BY <1>5, <2>1
  <2> QED BY <1>4, <2>1, <2>2, AtMostMeans DEF Evaluation!One
<1>9. l >= 0 => Evaluation!AtMost(p, Evaluation!One)
  BY <1>2, <1>7, <1>8 DEF Full
<1> QED BY <1>1, <1>3, <1>6, <1>7, <1>9

LEMMA TargetFalls ==
    ASSUME NEW s \in Int, s > 0, NEW l \in Int, NEW k \in Int, 0 <= l, 0 <= k, NEW p, NEW q,
           p = Evaluation!Fraction(s, s + l), q = Evaluation!Fraction(s, s + k)
    PROVE /\ l <= k => Evaluation!AtMost(q, p)
          /\ Evaluation!AtMost(p, Evaluation!One)
          /\ l = 0 => Full(p)
<1>1. l <= k => s * (s + l) <= s * (s + k)
  BY Products
<1>2. l <= k => Evaluation!AtMost(q, p)
  BY <1>1, AtMostMeans
<1>3. s * 1 <= 1 * (s + l)
  OBVIOUS
<1>4. Evaluation!AtMost(p, Evaluation!One)
  BY <1>3, AtMostMeans DEF Evaluation!One
<1>5. l = 0 => 1 * (s + l) <= s * 1
  OBVIOUS
<1>6. l = 0 => Full(p)
  BY <1>4, <1>5, AtMostMeans DEF Full, Evaluation!One
<1> QED BY <1>2, <1>4, <1>6

\* Fractions of one numerator fall as the denominator grows.
LEMMA DividedMore ==
    ASSUME NEW t \in Nat, NEW x \in Int, NEW y \in Int, x <= y
    PROVE Evaluation!AtMost(Evaluation!Fraction(t, y), Evaluation!Fraction(t, x))
BY Products, AtMostMeans

LEMMA SplitLess ==
    ASSUME NEW t \in Nat, NEW x \in Int, NEW y \in Int, x <= y
    PROVE Evaluation!AtMost(Evaluation!Fraction(x, t), Evaluation!Fraction(y, t))
BY Products, AtMostMeans

LEMMA AgainstOne ==
    ASSUME NEW x \in Int, NEW y \in Int
    PROVE /\ x <= y => Evaluation!AtMost(Evaluation!Fraction(x, y), Evaluation!One)
          /\ x = y => Full(Evaluation!Fraction(x, y))
<1>1. x <= y <=> x * 1 <= 1 * y
  OBVIOUS
<1>2. y <= x <=> 1 * y <= x * 1
  OBVIOUS
<1> QED BY <1>1, <1>2, AtMostMeans DEF Full, Evaluation!One

-----------------------------------------------------------------------------
\* A metric as parse_metrics makes it, before its combination is judged.
Metrics ==
  [normalization: {"degradation", "target", "db20", "saturating_ratio", "ratio"},
   direction: {"maximize", "minimize", "target"},
   scale: Int \cup {None}, target: Int \cup {None}]

\* What a better value has less of.
LEMMA LossOrders ==
    ASSUME NEW m, NEW v \in Int, NEW o \in Int, NEW b, Evaluation!Anchor(m, b) \in Int,
           m.direction \in {"maximize", "minimize"}
    PROVE /\ Evaluation!Loss(m, v, Evaluation!Anchor(m, b)) \in Int
          /\ Evaluation!Better(m, v, o, b)
               <=> Evaluation!Loss(m, v, Evaluation!Anchor(m, b)) <= Evaluation!Loss(m, o, Evaluation!Anchor(m, b))
<1>1. PICK a : a = Evaluation!Anchor(m, b)
  OBVIOUS
<1>2. CASE m.direction = "maximize"
  BY <1>1, <1>2 DEF Evaluation!Loss, Evaluation!Better
<1>3. CASE m.direction = "minimize"
  BY <1>1, <1>3 DEF Evaluation!Loss, Evaluation!Better
<1> QED BY <1>2, <1>3

LEMMA LossAtAnchor ==
    ASSUME NEW m, NEW a \in Int
    PROVE Evaluation!Loss(m, a, a) = 0
BY DEF Evaluation!Loss

LEMMA AnchorIs ==
    ASSUME NEW m \in Metrics, NEW b \in Int
    PROVE Evaluation!Anchor(m, b) \in Int /\ (m.target = None => Evaluation!Anchor(m, b) = b)
BY DEF Metrics, Evaluation!Anchor

LEMMA FractionIsThere ==
    ASSUME NEW x \in Int, NEW y \in Int PROVE Evaluation!Fraction(x, y) # None
BY QualityAssumption DEF FractionsPresent, Evaluation!Fraction

-----------------------------------------------------------------------------

LEMMA QualityIs ==
    ASSUME NEW m, NEW v, NEW b, NEW a, a = Evaluation!Anchor(m, b)
    PROVE /\ m.normalization = "degradation"
               => Evaluation!relative_quality(m, v, b) = Evaluation!Degradation(m, v, a)
          /\ m.normalization = "target"
               => Evaluation!relative_quality(m, v, b)
                    = Evaluation!Fraction(m.scale, m.scale + Evaluation!Absolute(v - a))
          /\ m.normalization = "db20"
               => Evaluation!relative_quality(m, v, b) = Evaluation!Decibels(m, v, a)
          /\ m.normalization \in {"saturating_ratio", "ratio"}
               => Evaluation!relative_quality(m, v, b) =
                    IF v < 0 \/ b < 0 \/ a < 0 THEN None
                    ELSE IF m.normalization = "ratio" THEN Evaluation!Ratio(m, v, a)
                    ELSE Evaluation!SaturatingRatio(m, v, a)
BY DEF Evaluation!relative_quality, Evaluation!Ratios

LEMMA AnchorBetter ==
    ASSUME NEW m, NEW v \in Int, NEW b, Evaluation!Anchor(m, b) \in Int,
           m.direction \in {"maximize", "minimize"}
    PROVE Evaluation!Better(m, Evaluation!Anchor(m, b), v, b)
            => Evaluation!Loss(m, v, Evaluation!Anchor(m, b)) >= 0
<1>1. PICK a : a = Evaluation!Anchor(m, b)
  OBVIOUS
<1>2. CASE m.direction = "maximize"
  BY <1>1, <1>2 DEF Evaluation!Loss, Evaluation!Better
<1>3. CASE m.direction = "minimize"
  BY <1>1, <1>3 DEF Evaluation!Loss, Evaluation!Better
<1> QED BY <1>2, <1>3

LEMMA DegradationOrdered ==
    ASSUME NEW m \in Metrics, NEW v \in Int, NEW o \in Int, NEW b \in Int,
           Evaluation!LegalMetric(m), m.normalization = "degradation"
    PROVE Evaluation!QualityOrdered(m, v, o, b)
<1>1. m.scale \in Int /\ m.scale > 0 /\ m.direction \in {"maximize", "minimize"}
  BY DEF Metrics, Evaluation!LegalMetric
<1>2. PICK a : a = Evaluation!Anchor(m, b)
  OBVIOUS
<1>3. a \in Int
  BY <1>2, AnchorIs
<1>4. /\ Evaluation!Loss(m, v, a) \in Int /\ Evaluation!Loss(m, o, a) \in Int
      /\ Evaluation!Loss(m, a, a) \in Int /\ Evaluation!Loss(m, a, a) = 0
      /\ Evaluation!Better(m, v, o, b) => Evaluation!Loss(m, v, a) <= Evaluation!Loss(m, o, a)
  BY <1>1, <1>2, <1>3, LossOrders, LossAtAnchor
<1>5. /\ Full(Evaluation!Degradation(m, a, a))
      /\ Evaluation!Better(m, v, o, b)
           => Evaluation!AtMost(Evaluation!Degradation(m, o, a), Evaluation!Degradation(m, v, a))
      /\ Evaluation!AtMost(Evaluation!Degradation(m, v, a), Evaluation!One)
  BY <1>1, <1>4, DegradationFalls
<1>6. Evaluation!Degradation(m, v, a) # None
  BY <1>1, <1>4, FractionIsThere DEF Evaluation!Degradation, Evaluation!One
<1>7. /\ Evaluation!relative_quality(m, v, b) = Evaluation!Degradation(m, v, a)
      /\ Evaluation!relative_quality(m, o, b) = Evaluation!Degradation(m, o, a)
      /\ Evaluation!relative_quality(m, a, b) = Evaluation!Degradation(m, a, a)
  BY <1>2, QualityIs
<1> QED BY <1>2, <1>5, <1>6, <1>7 DEF Evaluation!QualityOrdered, Full

LEMMA TargetOrdered ==
    ASSUME NEW m \in Metrics, NEW v \in Int, NEW o \in Int, NEW b \in Int,
           Evaluation!LegalMetric(m), m.normalization = "target"
    PROVE Evaluation!QualityOrdered(m, v, o, b)
<1>1. m.scale \in Int /\ m.scale > 0 /\ m.direction = "target"
  BY DEF Metrics, Evaluation!LegalMetric
<1>2. PICK a : a = Evaluation!Anchor(m, b)
  OBVIOUS
<1>3. a \in Int
  BY <1>2, AnchorIs
<1>4. PICK l, k : l = Evaluation!Absolute(v - a) /\ k = Evaluation!Absolute(o - a)
  OBVIOUS
<1>5. l \in Int /\ k \in Int /\ 0 <= l /\ 0 <= k /\ Evaluation!Absolute(a - a) = 0
  BY <1>3, <1>4 DEF Evaluation!Absolute
<1>6. Evaluation!Better(m, v, o, b) => l <= k
  BY <1>1, <1>2, <1>4 DEF Evaluation!Better
<1>7. PICK p, q, r : /\ p = Evaluation!Fraction(m.scale, m.scale + l)
                     /\ q = Evaluation!Fraction(m.scale, m.scale + k)
                     /\ r = Evaluation!Fraction(m.scale, m.scale + 0)
  OBVIOUS
<1>8. /\ l <= k => Evaluation!AtMost(q, p)
      /\ Evaluation!AtMost(p, Evaluation!One)
      /\ Full(r)
  <2>1. /\ l <= k => Evaluation!AtMost(q, p)
        /\ Evaluation!AtMost(p, Evaluation!One)
    BY <1>1, <1>5, <1>7, TargetFalls
  <2>2. m.scale + 0 \in Int /\ m.scale = m.scale + 0
    BY <1>1
  <2>3. Full(r)
    BY <1>1, <1>7, <2>2, AgainstOne
  <2> QED BY <2>1, <2>3
<1>9. p # None
  BY <1>1, <1>5, <1>7, FractionIsThere
<1>10. /\ Evaluation!relative_quality(m, v, b) = p
       /\ Evaluation!relative_quality(m, o, b) = q
       /\ Evaluation!relative_quality(m, a, b) = r
  BY <1>2, <1>4, <1>5, <1>7, QualityIs
<1> QED BY <1>2, <1>6, <1>8, <1>9, <1>10 DEF Evaluation!QualityOrdered, Full

LEMMA DecibelsOrdered ==
    ASSUME NEW m \in Metrics, NEW v \in Int, NEW o \in Int, NEW b \in Int,
           Evaluation!LegalMetric(m), m.normalization = "db20"
    PROVE Evaluation!QualityOrdered(m, v, o, b)
<1>1. m.direction \in {"maximize", "minimize"}
  BY DEF Metrics, Evaluation!LegalMetric
<1>2. PICK a : a = Evaluation!Anchor(m, b)
  OBVIOUS
<1>3. a \in Int
  BY <1>2, AnchorIs
<1>4. /\ Evaluation!Loss(m, v, a) \in Int /\ Evaluation!Loss(m, o, a) \in Int
      /\ Evaluation!Loss(m, a, a) \in Int /\ Evaluation!Loss(m, a, a) = 0
      /\ Evaluation!Better(m, v, o, b) => Evaluation!Loss(m, v, a) <= Evaluation!Loss(m, o, a)
      /\ Evaluation!Better(m, a, v, b) => Evaluation!Loss(m, v, a) >= 0
  BY <1>1, <1>2, <1>3, LossOrders, LossAtAnchor, AnchorBetter
<1>5. /\ Full(Evaluation!Decibels(m, a, a))
      /\ Evaluation!Better(m, v, o, b)
           => Evaluation!AtMost(Evaluation!Decibels(m, o, a), Evaluation!Decibels(m, v, a))
      /\ Evaluation!Better(m, a, v, b) => Evaluation!AtMost(Evaluation!Decibels(m, v, a), Evaluation!One)
  BY <1>4, DecibelsFall
<1>6. Evaluation!Decibels(m, v, a) # None
  <2>1. PICK l, D : l = Evaluation!Loss(m, v, a) /\ D = Evaluation!Doublings
    OBVIOUS
  <2>2. \A n \in Nat : D[n] \in Int
    BY <2>1, DoublingsAre
  <2>3. CASE l <= 0
    <3>1. -l \in Nat
      BY <1>4, <2>1, <2>3
    <3> QED BY <2>1, <2>2, <2>3, <3>1, FractionIsThere DEF Evaluation!Decibels
  <2>4. CASE ~(l <= 0)
    <3>1. l \in Nat
      BY <1>4, <2>1, <2>4
    <3> QED BY <2>1, <2>2, <2>4, <3>1, FractionIsThere DEF Evaluation!Decibels
  <2> QED BY <2>3, <2>4
<1>7. /\ Evaluation!relative_quality(m, v, b) = Evaluation!Decibels(m, v, a)
      /\ Evaluation!relative_quality(m, o, b) = Evaluation!Decibels(m, o, a)
      /\ Evaluation!relative_quality(m, a, b) = Evaluation!Decibels(m, a, a)
  BY <1>2, QualityIs
<1> QED BY <1>2, <1>5, <1>6, <1>7 DEF Evaluation!QualityOrdered, Full

LEMMA SaturatingOrdered ==
    ASSUME NEW m \in Metrics, NEW v \in Int, NEW o \in Int, NEW b \in Int,
           Evaluation!LegalMetric(m), m.normalization = "saturating_ratio"
    PROVE Evaluation!QualityOrdered(m, v, o, b)
<1>1. /\ m.scale \in Int /\ m.scale > 0 /\ m.direction = "minimize"
      /\ m.target # None => m.target >= 0
  BY DEF Metrics, Evaluation!LegalMetric, Evaluation!Ratios
<1>2. PICK a, s : a = Evaluation!Anchor(m, b) /\ s = m.scale
  OBVIOUS
<1>3. a \in Int /\ (a < 0 => b < 0) /\ s \in Int /\ s > 0
  BY <1>1, <1>2 DEF Metrics, Evaluation!Anchor
<1>4. ASSUME NEW w \in Int
      PROVE Evaluation!relative_quality(m, w, b)
              = IF w < 0 \/ b < 0 \/ a < 0 THEN None
                ELSE Evaluation!Fraction(2 * (a + s), a + w + 2 * s)
  BY <1>2, QualityIs DEF Evaluation!SaturatingRatio
<1>5. v >= 0 /\ a >= 0 => Evaluation!Fraction(2 * (a + s), a + v + 2 * s) # None
  BY <1>3, FractionIsThere
<1>6. CASE a < 0
  BY <1>2, <1>3, <1>4, <1>6 DEF Evaluation!QualityOrdered, Evaluation!Ratios
<1>7. CASE a >= 0
  <2>1. 2 * (a + s) \in Nat /\ a + v + 2 * s \in Int /\ a + o + 2 * s \in Int /\ a + a + 2 * s \in Int
    BY <1>3, <1>7
  <2>2. /\ v <= o => a + v + 2 * s <= a + o + 2 * s
        /\ a <= v => 2 * (a + s) <= a + v + 2 * s
        /\ 2 * (a + s) = a + a + 2 * s
    BY <1>3
  <2>3. v <= o => Evaluation!AtMost(Evaluation!Fraction(2 * (a + s), a + o + 2 * s),
                                    Evaluation!Fraction(2 * (a + s), a + v + 2 * s))
    BY <2>1, <2>2, DividedMore
  <2>4. /\ a <= v => Evaluation!AtMost(Evaluation!Fraction(2 * (a + s), a + v + 2 * s), Evaluation!One)
        /\ Full(Evaluation!Fraction(2 * (a + s), a + a + 2 * s))
    BY <2>1, <2>2, AgainstOne
  <2>5. /\ Evaluation!Better(m, v, o, b) <=> v <= o
        /\ Evaluation!Better(m, a, v, b) <=> a <= v
    BY <1>1 DEF Evaluation!Better
  <2>6. PICK x, y, z : /\ x = Evaluation!relative_quality(m, v, b)
                       /\ y = Evaluation!relative_quality(m, o, b)
                       /\ z = Evaluation!relative_quality(m, a, b)
    OBVIOUS
  <2>7. /\ x # None => x = Evaluation!Fraction(2 * (a + s), a + v + 2 * s)
        /\ y # None => y = Evaluation!Fraction(2 * (a + s), a + o + 2 * s)
        /\ z # None => z = Evaluation!Fraction(2 * (a + s), a + a + 2 * s)
        /\ x = None => v < 0 \/ b < 0
    BY <1>3, <1>4, <1>5, <1>7, <2>6
  <2> QED BY <1>2, <2>3, <2>4, <2>5, <2>6, <2>7
        DEF Evaluation!QualityOrdered, Evaluation!Ratios, Full
<1> QED BY <1>3, <1>6, <1>7

LEMMA RatioOrdered ==
    ASSUME NEW m \in Metrics, NEW v \in Int, NEW o \in Int, NEW b \in Int,
           Evaluation!LegalMetric(m), m.normalization = "ratio"
    PROVE Evaluation!QualityOrdered(m, v, o, b)
<1>1. /\ m.scale \in Int \cup {None} /\ (m.scale # None => m.scale > 0)
      /\ m.direction \in {"maximize", "minimize"}
      /\ m.target # None => m.target >= 0
  BY DEF Metrics, Evaluation!LegalMetric, Evaluation!Ratios
<1>2. PICK a, e : a = Evaluation!Anchor(m, b) /\ e = Evaluation!Offset(m)
  OBVIOUS
<1>3. a \in Int /\ (a < 0 => b < 0) /\ e \in Int /\ e >= 0
  BY <1>1, <1>2 DEF Metrics, Evaluation!Anchor, Evaluation!Offset
<1>4. CASE a < 0
  <2>1. Evaluation!relative_quality(m, v, b) = None /\ Evaluation!relative_quality(m, o, b) = None
        /\ Evaluation!relative_quality(m, a, b) = None
    BY <1>2, <1>4, QualityIs
  <2> QED BY <1>2, <1>3, <1>4, <2>1 DEF Evaluation!QualityOrdered, Evaluation!Ratios
<1>5. PICK x, y, z : /\ x = Evaluation!relative_quality(m, v, b)
                     /\ y = Evaluation!relative_quality(m, o, b)
                     /\ z = Evaluation!relative_quality(m, a, b)
  OBVIOUS
<1>6. CASE a >= 0 /\ m.direction = "maximize"
  <2>1. ASSUME NEW w \in Int
        PROVE Evaluation!relative_quality(m, w, b)
                = IF w < 0 \/ b < 0 \/ e + a <= 0 THEN None ELSE Evaluation!Fraction(e + w, e + a)
    BY <1>2, <1>3, <1>6, QualityIs DEF Evaluation!Ratio
  <2>2. /\ e + a > 0 => Evaluation!Fraction(e + v, e + a) # None
        /\ e + a <= 0 => e = 0
    BY <1>3, <1>6, FractionIsThere
  <2>3. /\ x # None => x = Evaluation!Fraction(e + v, e + a)
        /\ y # None => y = Evaluation!Fraction(e + o, e + a)
        /\ z # None => z = Evaluation!Fraction(e + a, e + a)
        /\ x = None => v < 0 \/ b < 0 \/ e = 0
    BY <1>3, <1>5, <2>1, <2>2
  <2>4. v >= o => Evaluation!AtMost(Evaluation!Fraction(e + o, e + a), Evaluation!Fraction(e + v, e + a))
    <3>1. e + a \in Nat /\ e + o \in Int /\ e + v \in Int /\ (v >= o => e + o <= e + v)
      BY <1>3, <1>6
    <3> QED BY <3>1, SplitLess
  <2>5. /\ v <= a => Evaluation!AtMost(Evaluation!Fraction(e + v, e + a), Evaluation!One)
        /\ Full(Evaluation!Fraction(e + a, e + a))
    <3>1. e + a \in Int /\ e + v \in Int /\ (v <= a => e + v <= e + a)
      BY <1>3, <1>6
    <3> QED BY <3>1, AgainstOne
  <2>6. /\ Evaluation!Better(m, v, o, b) <=> v >= o
        /\ Evaluation!Better(m, a, v, b) <=> v <= a
    BY <1>3, <1>6 DEF Evaluation!Better
  <2> QED BY <1>2, <1>5, <2>3, <2>4, <2>5, <2>6
        DEF Evaluation!QualityOrdered, Evaluation!Ratios, Full
<1>7. CASE a >= 0 /\ m.direction = "minimize"
  <2>1. ASSUME NEW w \in Int
        PROVE Evaluation!relative_quality(m, w, b)
                = IF w < 0 \/ b < 0 \/ e + w <= 0 THEN None ELSE Evaluation!Fraction(e + a, e + w)
    BY <1>2, <1>3, <1>7, QualityIs DEF Evaluation!Ratio
  <2>2. /\ e + v > 0 => Evaluation!Fraction(e + a, e + v) # None
        /\ v >= 0 /\ e + v <= 0 => e = 0
    BY <1>3, <1>7, FractionIsThere
  <2>3. /\ x # None => x = Evaluation!Fraction(e + a, e + v)
        /\ y # None => y = Evaluation!Fraction(e + a, e + o)
        /\ z # None => z = Evaluation!Fraction(e + a, e + a)
        /\ x = None => v < 0 \/ b < 0 \/ e = 0
    BY <1>3, <1>5, <2>1, <2>2
  <2>4. v <= o => Evaluation!AtMost(Evaluation!Fraction(e + a, e + o), Evaluation!Fraction(e + a, e + v))
    <3>1. e + a \in Nat /\ e + o \in Int /\ e + v \in Int /\ (v <= o => e + v <= e + o)
      BY <1>3, <1>7
    <3> QED BY <3>1, DividedMore
  <2>5. /\ a <= v => Evaluation!AtMost(Evaluation!Fraction(e + a, e + v), Evaluation!One)
        /\ Full(Evaluation!Fraction(e + a, e + a))
    <3>1. e + a \in Int /\ e + v \in Int /\ (a <= v => e + a <= e + v)
      BY <1>3, <1>7
    <3> QED BY <3>1, AgainstOne
  <2>6. /\ Evaluation!Better(m, v, o, b) <=> v <= o
        /\ Evaluation!Better(m, a, v, b) <=> a <= v
    BY <1>3, <1>7 DEF Evaluation!Better
  <2> QED BY <1>2, <1>5, <2>3, <2>4, <2>5, <2>6
        DEF Evaluation!QualityOrdered, Evaluation!Ratios, Full
<1> QED BY <1>1, <1>3, <1>4, <1>6, <1>7

\* For every metric of a task and every measured value: a better observation
\* never gets the lower quality, one at the anchor gets 1, a worse one never more
\* than 1, and only ratios of negative values or of nothing have no quality
\* (scoring.py, relative_quality).
THEOREM QualityIsOrdered ==
    \A m \in Metrics : \A v, o, b \in Int : Evaluation!QualityOrdered(m, v, o, b)
<1> TAKE m \in Metrics
<1> TAKE v, o, b \in Int
<1>1. CASE ~Evaluation!LegalMetric(m)
  BY <1>1 DEF Evaluation!QualityOrdered
<1>2. m.normalization \in {"degradation", "target", "db20", "saturating_ratio", "ratio"}
  BY DEF Metrics
<1> QED BY <1>1, <1>2, DegradationOrdered, TargetOrdered, DecibelsOrdered, SaturatingOrdered, RatioOrdered

Wire == INSTANCE WireSemantics

-----------------------------------------------------------------------------
(* What a torn reply means                                                 *)

ReadsTo(f, s, n) ==
  f = [i \in 0 .. n |-> IF i = 0 THEN Wire!Unread ELSE Wire!MessagesEvent(f[i - 1], s[i])]

LEMMA ReadOn ==
    ASSUME NEW s, NEW n \in Nat, NEW f, ReadsTo(f, s, n)
    PROVE \E g : ReadsTo(g, s, n + 1)
<1>1. PICK g : g = [i \in 0 .. (n + 1) |-> IF i = n + 1 THEN Wire!MessagesEvent(f[n], s[n + 1]) ELSE f[i]]
  OBVIOUS
<1>2. ASSUME NEW i \in 0 .. (n + 1)
      PROVE g[i] = IF i = 0 THEN Wire!Unread ELSE Wire!MessagesEvent(g[i - 1], s[i])
  <2>1. CASE i = 0
    <3>1. 0 \in 0 .. (n + 1) /\ 0 \in 0 .. n /\ 0 # n + 1
      OBVIOUS
    <3>2. g[0] = f[0] /\ f[0] = Wire!Unread
      BY <1>1, <3>1 DEF ReadsTo
    <3> QED BY <2>1, <3>2
  <2>2. CASE i = n + 1
    <3>1. n \in 0 .. (n + 1) /\ n # n + 1 /\ i - 1 = n /\ i # 0
      BY <2>2
    <3>2. g[i - 1] = f[n] /\ g[i] = Wire!MessagesEvent(f[n], s[i])
      BY <1>1, <2>2, <3>1
    <3> QED BY <3>1, <3>2
  <2>3. CASE i # 0 /\ i # n + 1
    <3>1. i \in 0 .. n /\ i - 1 \in 0 .. (n + 1) /\ i - 1 # n + 1
      BY <2>3
    <3>2. g[i - 1] = f[i - 1] /\ g[i] = f[i]
      BY <1>1, <2>3, <3>1
    <3>3. f[i] = Wire!MessagesEvent(f[i - 1], s[i])
      BY <2>3, <3>1 DEF ReadsTo
    <3> QED BY <2>3, <3>2, <3>3
  <2> QED BY <2>1, <2>2, <2>3
<1>3. ReadsTo(g, s, n + 1)
  BY <1>1, <1>2 DEF ReadsTo
<1> QED BY <1>3

LEMMA ReadingIs ==
    ASSUME NEW s, Len(s) \in Nat PROVE ReadsTo(Wire!Reading(s), s, Len(s))
<1>1. PICK U : U = {n \in Nat : \E f : ReadsTo(f, s, n)}
  OBVIOUS
<1>2. 0 \in U
  <2>1. PICK f : f = [i \in 0 .. 0 |-> Wire!Unread]
    OBVIOUS
  <2>2. f = [i \in 0 .. 0 |-> IF i = 0 THEN Wire!Unread ELSE Wire!MessagesEvent(f[i - 1], s[i])]
    BY <2>1
  <2>3. ReadsTo(f, s, 0)
    BY <2>2 DEF ReadsTo
  <2> QED BY <1>1, <2>3
<1>3. \A n \in Nat : n \in U => n + 1 \in U
  BY <1>1, ReadOn
<1>4. Nat \subseteq U
  BY <1>2, <1>3, NatSetInduction
<1>5. \E f : ReadsTo(f, s, Len(s))
  BY <1>1, <1>4
<1>6. PICK F : F = CHOOSE f : ReadsTo(f, s, Len(s))
  OBVIOUS
<1>7. ReadsTo(F, s, Len(s))
  BY <1>5, <1>6
<1>8. F = Wire!Reading(s)
  BY <1>6 DEF ReadsTo, Wire!Reading
<1> QED BY <1>7, <1>8

LEMMA ReadingFacts ==
    ASSUME NEW s, Len(s) \in Nat
    PROVE /\ Wire!Reading(s)[0] = Wire!Unread
          /\ \A n \in Nat : n + 1 <= Len(s) =>
               Wire!Reading(s)[n + 1] = Wire!MessagesEvent(Wire!Reading(s)[n], s[n + 1])
<1>1. PICK R, N : R = Wire!Reading(s) /\ N = Len(s)
  OBVIOUS
<1>2. R = [i \in 0 .. N |-> IF i = 0 THEN Wire!Unread ELSE Wire!MessagesEvent(R[i - 1], s[i])]
  BY <1>1, ReadingIs DEF ReadsTo
<1>3. N \in Nat
  BY <1>1
<1>4. R[0] = Wire!Unread
  <2>1. 0 \in 0 .. N
    BY <1>3
  <2> QED BY <1>2, <2>1
<1>5. ASSUME NEW n \in Nat, n + 1 <= N PROVE R[n + 1] = Wire!MessagesEvent(R[n], s[n + 1])
  <2>1. n + 1 \in 0 .. N /\ n + 1 # 0 /\ (n + 1) - 1 = n
    BY <1>3, <1>5
  <2> QED BY <1>2, <2>1
<1> QED BY <1>1, <1>4, <1>5

\* A part of a stream is read as the whole was up to there.
LEMMA PartRead ==
    ASSUME NEW s, NEW t, Len(s) \in Nat, Len(t) \in Nat, Len(t) <= Len(s),
           \A i \in 1 .. Len(t) : t[i] = s[i]
    PROVE Wire!Reading(t)[Len(t)] = Wire!Reading(s)[Len(t)]
<1>1. PICK R, P : R = Wire!Reading(s) /\ P = Wire!Reading(t)
  OBVIOUS
<1>2. PICK U : U = {n \in Nat : n <= Len(t) => P[n] = R[n]}
  OBVIOUS
<1>3. 0 \in U
  BY <1>1, <1>2, ReadingFacts
<1>4. ASSUME NEW n \in Nat, n \in U, n + 1 <= Len(t) PROVE P[n + 1] = R[n + 1]
  <2>1. P[n] = R[n] /\ n + 1 \in 1 .. Len(t) /\ n + 1 <= Len(s)
    BY <1>2, <1>4
  <2>2. P[n + 1] = Wire!MessagesEvent(P[n], t[n + 1])
    BY <1>1, <1>4, ReadingFacts
  <2>3. R[n + 1] = Wire!MessagesEvent(R[n], s[n + 1])
    BY <1>1, <2>1, ReadingFacts
  <2> QED BY <2>1, <2>2, <2>3
<1>5. Nat \subseteq U
  <2>1. \A n \in Nat : n \in U => n + 1 \in U
    BY <1>2, <1>4
  <2> QED BY <1>3, <2>1, NatSetInduction
<1> QED BY <1>1, <1>2, <1>5

ReaderKnown(got) ==
  /\ DOMAIN got = {"type", "reason", "usage", "stopped", "bad"}
  /\ got.stopped \in BOOLEAN /\ got.bad \in BOOLEAN

LEMMA EventRead ==
    ASSUME NEW got, NEW e, ReaderKnown(got)
    PROVE /\ ReaderKnown(Wire!MessagesEvent(got, e))
          /\ got.bad => Wire!MessagesEvent(got, e).bad
          /\ e.type = "ping" => Wire!MessagesEvent(got, e) = got
          /\ got.stopped /\ e.type # "ping" => Wire!MessagesEvent(got, e).bad
<1>1. PICK next : next = Wire!MessagesEvent(got, e)
  OBVIOUS
<1>2. /\ got.bad \/ e.type = "ping" => next = got
      /\ ~got.bad /\ e.type # "ping" /\ got.stopped => next = [got EXCEPT !.bad = TRUE]
  BY <1>1 DEF Wire!MessagesEvent, Wire!Broken
<1>3. \/ next = got
      \/ next = [got EXCEPT !.bad = TRUE]
      \/ next = [got EXCEPT !.type = "error", !.stopped = TRUE]
      \/ next = [got EXCEPT !.type = "message", !.reason = e.reason, !.usage = e.usage]
      \/ next = [got EXCEPT !.reason = IF e.reason = None THEN @ ELSE e.reason,
                             !.usage = Wire!Merged(@, e.usage)]
      \/ next = [got EXCEPT !.stopped = TRUE]
  BY <1>1 DEF Wire!MessagesEvent, Wire!Broken
<1>4. ReaderKnown(next)
  BY <1>3 DEF ReaderKnown
<1> QED BY <1>1, <1>2, <1>4 DEF ReaderKnown

LEMMA ReaderStays ==
    ASSUME NEW s, Len(s) \in Nat, NEW n \in 0 .. Len(s)
    PROVE ReaderKnown(Wire!Reading(s)[n])
<1>1. PICK R : R = Wire!Reading(s)
  OBVIOUS
<1>2. PICK U : U = {i \in Nat : i <= Len(s) => ReaderKnown(R[i])}
  OBVIOUS
<1>3. ReaderKnown(R[0])
  <2>1. PICK got : got = Wire!Unread
    OBVIOUS
  <2>2. ReaderKnown(got)
    BY <2>1 DEF ReaderKnown, Wire!Unread
  <2>3. R[0] = got
    BY <1>1, <2>1, ReadingFacts
  <2> QED BY <2>2, <2>3
<1>4. ASSUME NEW i \in Nat, i \in U, i + 1 <= Len(s) PROVE ReaderKnown(R[i + 1])
  <2>1. ReaderKnown(R[i]) /\ R[i + 1] = Wire!MessagesEvent(R[i], s[i + 1])
    BY <1>1, <1>2, <1>4, ReadingFacts
  <2> QED BY <2>1, EventRead
<1>5. Nat \subseteq U
  <2>1. 0 \in U /\ \A i \in Nat : i \in U => i + 1 \in U
    BY <1>2, <1>3, <1>4
  <2> QED BY <2>1, NatSetInduction
<1> QED BY <1>1, <1>2, <1>5

\* What follows the end of a message is a keep-alive or spoils the reading.
LEMMA NothingFollows ==
    ASSUME NEW s, Len(s) \in Nat, NEW n \in 0 .. Len(s), Wire!Reading(s)[n].stopped,
           ~Wire!Reading(s)[Len(s)].bad
    PROVE \A k \in (n + 1) .. Len(s) : s[k].type = "ping"
<1>1. PICK R, N : R = Wire!Reading(s) /\ N = Len(s)
  OBVIOUS
<1>2. PICK U : U = {j \in Nat : n + j <= N =>
                      \/ R[n + j].bad
                      \/ R[n + j] = R[n] /\ \A k \in (n + 1) .. (n + j) : s[k].type = "ping"}
  OBVIOUS
<1>3. 0 \in U
  BY <1>2
<1>4. ASSUME NEW j \in Nat, j \in U, (n + j) + 1 <= N
      PROVE \/ R[(n + j) + 1].bad
            \/ R[(n + j) + 1] = R[n] /\ \A k \in (n + 1) .. ((n + j) + 1) : s[k].type = "ping"
  <2>1. /\ n + j \in Nat /\ n + j \in 0 .. N
        /\ \/ R[n + j].bad
           \/ R[n + j] = R[n] /\ \A k \in (n + 1) .. (n + j) : s[k].type = "ping"
    BY <1>1, <1>2, <1>4
  <2>2. R[(n + j) + 1] = Wire!MessagesEvent(R[n + j], s[(n + j) + 1]) /\ ReaderKnown(R[n + j])
    BY <1>1, <1>4, <2>1, ReadingFacts, ReaderStays
  <2>3. CASE R[n + j].bad
    BY <2>2, <2>3, EventRead
  <2>4. CASE s[(n + j) + 1].type # "ping" /\ ~R[n + j].bad
    <3>1. R[n + j].stopped
      BY <1>1, <2>1, <2>4
    <3> QED BY <2>2, <2>4, <3>1, EventRead
  <2>5. CASE s[(n + j) + 1].type = "ping" /\ ~R[n + j].bad
    <3>1. R[(n + j) + 1] = R[n + j]
      BY <2>2, <2>5, EventRead
    <3>2. \A k \in (n + 1) .. ((n + j) + 1) : k \in (n + 1) .. (n + j) \/ k = (n + j) + 1
      OBVIOUS
    <3> QED BY <2>1, <2>5, <3>1, <3>2
  <2> QED BY <2>3, <2>4, <2>5
<1>5. Nat \subseteq U
  <2>1. \A j \in Nat : n + (j + 1) = (n + j) + 1
    OBVIOUS
  <2>2. \A j \in Nat : j \in U => j + 1 \in U
    BY <1>2, <1>4, <2>1
  <2> QED BY <1>3, <2>2, NatSetInduction
<1>6. N - n \in Nat /\ n + (N - n) = N
  BY <1>1
<1>7. \/ R[N].bad
      \/ R[N] = R[n] /\ \A k \in (n + 1) .. N : s[k].type = "ping"
  <2>1. N - n \in U /\ N <= N
    BY <1>1, <1>5, <1>6
  <2> QED BY <1>2, <1>6, <2>1
<1> QED BY <1>1, <1>7

LEMMA MessagesAnswered ==
    ASSUME NEW r, r.media = "stream", Wire!MessagesSemantics(r) # Wire!Malformed
    PROVE /\ ~Wire!Reading(r.stream)[Len(r.stream)].bad
          /\ Wire!Reading(r.stream)[Len(r.stream)].stopped
<1>1. PICK got : got = Wire!Reading(r.stream)[Len(r.stream)]
  OBVIOUS
<1>2. got.bad \/ ~got.stopped => Wire!MessagesSemantics(r) = Wire!Malformed
  BY <1>1 DEF Wire!MessagesSemantics
<1> QED BY <1>1, <1>2

LEMMA ResponsesAnswered ==
    ASSUME NEW r, r.media = "stream", Wire!ResponsesSemantics(r) # Wire!Malformed
    PROVE Wire!OneEnding(r.stream)
BY DEF Wire!ResponsesSemantics

\* What a reply of a stream is.
Streamed(vocabulary) == [api: STRING, media: {"stream"}, stream: Seq(vocabulary), cut: BOOLEAN]

\* For streams of any length and any events: of a stream that has a verdict no
\* shorter part has one, unless only keep-alives are missing (the semantics of
\* both wire families, inference/).
THEOREM TruncationIsNoticed ==
    \A vocabulary : \A reply \in Streamed(vocabulary) : Wire!TruncationNoticed(reply)
<1> SUFFICES ASSUME NEW vocabulary, NEW reply \in Streamed(vocabulary),
                    Wire!response_semantics(reply) # Wire!Malformed,
                    NEW n \in 0 .. (Len(reply.stream) - 1), NEW part,
                    part = [reply EXCEPT !.stream = SubSeq(@, 1, n)],
                    Wire!response_semantics(part) # Wire!Malformed
             PROVE \A k \in (n + 1) .. Len(reply.stream) : reply.stream[k].type = "ping"
  BY DEF Wire!TruncationNoticed
<1>1. PICK s, t : s = reply.stream /\ t = SubSeq(s, 1, n)
  OBVIOUS
<1>2. /\ s \in Seq(vocabulary) /\ Len(s) \in Nat /\ n \in 0 .. Len(s) /\ n < Len(s)
      /\ Len(t) = n /\ \A i \in 1 .. n : t[i] = s[i]
  BY <1>1 DEF Streamed
<1>3. part.stream = t /\ part.media = "stream" /\ part.api = reply.api /\ reply.media = "stream"
  BY <1>1 DEF Streamed
<1>4. CASE reply.api = "messages"
  <2>1. Wire!MessagesSemantics(reply) # Wire!Malformed /\ Wire!MessagesSemantics(part) # Wire!Malformed
    BY <1>3, <1>4 DEF Wire!response_semantics
  <2>2. ~Wire!Reading(s)[Len(s)].bad /\ Wire!Reading(t)[Len(t)].stopped
    BY <1>1, <1>3, <2>1, MessagesAnswered
  <2>3. Wire!Reading(t)[Len(t)] = Wire!Reading(s)[n]
    BY <1>2, PartRead
  <2> QED BY <1>1, <1>2, <2>2, <2>3, NothingFollows
<1>5. CASE reply.api # "messages"
  <2>1. Wire!ResponsesSemantics(reply) # Wire!Malformed /\ Wire!ResponsesSemantics(part) # Wire!Malformed
    BY <1>3, <1>5 DEF Wire!response_semantics
  <2>2. Wire!OneEnding(s) /\ Wire!OneEnding(t)
    BY <1>1, <1>3, <2>1, ResponsesAnswered
  <2>3. n # 0
    BY <1>2, <2>2 DEF Wire!OneEnding
  <2>4. n \in 1 .. Len(s) /\ n \in 1 .. Len(t) /\ t[n] = s[n]
    BY <1>2, <2>3
  <2>5. Wire!Terminal(t[n]) /\ ~Wire!Terminal(s[n])
    BY <1>2, <2>2, <2>4 DEF Wire!OneEnding
  <2> QED BY <2>4, <2>5
<1> QED BY <1>4, <1>5

-----------------------------------------------------------------------------
(* What the open-source checks conclude, for every record of a comparison   *)
(* and every extracted netlist                                              *)

Open == INSTANCE OpenChecks

TurnedOf(index, back) ==
  /\ DOMAIN back = DOMAIN index
  /\ \A i \in DOMAIN index : \E j \in DOMAIN index : back[i] = index[j] /\ back[j] = index[i]
  /\ \A i, j \in DOMAIN index : i # j => \E a, b \in DOMAIN index : a # b /\ back[i] = index[a] /\ back[j] = index[b]
FromOne(s) == \E n \in Nat : DOMAIN s = 1 .. n /\ Len(s) = n
Backwards(s) == [i \in 1 .. Len(s) |-> s[(Len(s) - i) + 1]]
LEMMA ReadBackwards ==
    ASSUME NEW index, FromOne(index), NEW back, back = Backwards(index)
    PROVE  TurnedOf(index, back)
<1>1. PICK n \in Nat : DOMAIN index = 1 .. n /\ Len(index) = n
  BY DEF FromOne
<1>2. back = [i \in 1 .. n |-> index[(n - i) + 1]]
  BY <1>1 DEF Backwards
<1>3. \A i \in 1 .. n : (n - i) + 1 \in 1 .. n /\ (n - ((n - i) + 1)) + 1 = i
  BY <1>1
<1>4. ASSUME NEW i \in DOMAIN index
      PROVE  \E j \in DOMAIN index : j = (n - i) + 1 /\ back[i] = index[j] /\ back[j] = index[i]
  <2>1. PICK j : j = (n - i) + 1
    OBVIOUS
  <2>2. j \in 1 .. n /\ (n - j) + 1 = i
    BY <1>1, <1>3, <2>1
  <2> QED BY <1>1, <1>2, <2>1, <2>2
<1>5. ASSUME NEW i \in DOMAIN index, NEW j \in DOMAIN index, i # j
      PROVE  \E a, b \in DOMAIN index : a # b /\ back[i] = index[a] /\ back[j] = index[b]
  <2>1. PICK a \in DOMAIN index : a = (n - i) + 1 /\ back[i] = index[a]
    BY <1>4
  <2>2. PICK b \in DOMAIN index : b = (n - j) + 1 /\ back[j] = index[b]
    BY <1>4
  <2>3. a # b
    BY <1>1, <1>5, <2>1, <2>2
  <2> QED BY <2>1, <2>2, <2>3
<1> QED BY <1>1, <1>2, <1>4, <1>5 DEF TurnedOf

LEMMA OpenSizes == ASSUME NEW S PROVE Open!Cardinality(S) = Cardinality(S)
BY DEF Open!Cardinality, Cardinality

\* The records of a comparison are a list, and count the devices of each side.
RecordsRead(records) ==
  /\ \E n \in Nat : DOMAIN records = 1 .. n /\ Len(records) = n
  /\ \A i \in DOMAIN records : ~records[i].class => \A k \in 1 .. 2 : records[i].devices[k] \in Nat
TopsOf(records, top, sub) == {i \in DOMAIN records : ~records[i].class /\ records[i].name = <<top, sub>>}
DecidedOf(records) == {i \in DOMAIN records : Open!Decides(records[i]) # "none"}

\* What passes, and what fails, of a comparison.
LEMMA NetgenPasses ==
    ASSUME NEW records, \E n \in Nat : DOMAIN records = 1 .. n, NEW top, NEW sub,
           NEW status, status = Open!netgen_verdict(records, top, sub)
    PROVE  /\ status = "passed" <=> /\ \E x : TopsOf(records, top, sub) = {x}
                                    /\ DecidedOf(records) = {}
                                    /\ \A i \in TopsOf(records, top, sub) : \A k \in 1 .. 2 : records[i].devices[k] > 0
           /\ status = "failed" =>
                \/ \E i \in DOMAIN records : Open!Decides(records[i]) = "failed"
                \/ \E i \in TopsOf(records, top, sub) : \E k \in 1 .. 2 : ~(records[i].devices[k] > 0)
<1>1. PICK n \in Nat : DOMAIN records = 1 .. n
  OBVIOUS
<1>2. PICK T, D : T = TopsOf(records, top, sub) /\ D = DecidedOf(records)
  OBVIOUS
<1>3. status = IF Open!Cardinality(T) # 1 THEN "error"
               ELSE IF D # {} THEN Open!Decides(records[CHOOSE i \in D: \A j \in D: i <= j])
               ELSE IF \A i \in T: \A k \in 1..2: records[i].devices[k] > 0 THEN "passed" ELSE "failed"
  BY <1>2 DEF Open!netgen_verdict, TopsOf, DecidedOf
<1>4. IsFiniteSet(T)
  <2>1. T \in SUBSET (1 .. n)
    BY <1>1, <1>2 DEF TopsOf
  <2>2. IsFiniteSet(1 .. n)
    BY FS_Interval
  <2> QED BY ONLY <2>1, <2>2, FS_Subset
<1>5. Open!Cardinality(T) = 1 <=> \E x : T = {x}
  BY <1>4, OpenSizes, FS_Singleton
<1>6. \A i \in DOMAIN records : Open!Decides(records[i]) \in {"error", "failed", "none"}
  BY DEF Open!Decides
<1>7. ASSUME D # {}
      PROVE  \E i \in D : i = (CHOOSE k \in D: \A j \in D: k <= j)
  <2>1. D \in SUBSET (1 .. n)
    BY <1>1, <1>2 DEF DecidedOf
  <2>2. D \subseteq Nat
    BY <2>1
  <2>3. \E i \in D : \A j \in D : i <= j
    BY ONLY <1>7, <2>2, LeastNatural
  <2> QED BY <2>3
<1>8. status = "passed" <=> /\ \E x : T = {x}
                            /\ D = {}
                            /\ \A i \in T : \A k \in 1 .. 2 : records[i].devices[k] > 0
  <2>1. ASSUME D # {}, \E x : T = {x} PROVE status # "passed"
    <3>1. PICK i \in D : status = Open!Decides(records[i])
      BY <1>3, <1>5, <1>7, <2>1
    <3> QED BY <1>2, <1>6, <3>1 DEF DecidedOf, Open!Decides
  <2>2. ASSUME ~\E x : T = {x} PROVE status # "passed"
    BY <1>3, <1>5, <2>2
  <2>3. ASSUME D = {}, \E x : T = {x}
        PROVE  status = "passed" <=> \A i \in T : \A k \in 1 .. 2 : records[i].devices[k] > 0
    BY <1>3, <1>5, <2>3
  <2> QED BY <2>1, <2>2, <2>3
<1>9. status = "failed" => \/ \E i \in DOMAIN records : Open!Decides(records[i]) = "failed"
                           \/ \E i \in T : \E k \in 1 .. 2 : ~(records[i].devices[k] > 0)
  <2>1. ASSUME D # {}, status = "failed" PROVE \E i \in DOMAIN records : Open!Decides(records[i]) = "failed"
    <3>1. PICK i \in D : i = (CHOOSE k \in D: \A j \in D: k <= j)
      BY <1>7, <2>1
    <3>2. Open!Decides(records[i]) = "failed"
      BY <1>3, <2>1, <3>1
    <3> QED BY <1>2, <3>2 DEF DecidedOf
  <2>2. ASSUME D = {}, status = "failed" PROVE \E i \in T : \E k \in 1 .. 2 : ~(records[i].devices[k] > 0)
    BY <1>3, <2>2
  <2> QED BY <2>1, <2>2
<1> QED BY <1>2, <1>8, <1>9

LEMMA Undecided ==
    ASSUME NEW r, Open!Decides(r) = "none" PROVE ~r.malformed /\ ~Open!Different(r) /\ (~r.class => r.pins # None)
BY DEF Open!Decides, Open!Different
LEMMA DecidedFailed ==
    ASSUME NEW r, Open!Decides(r) = "failed" PROVE ~r.malformed /\ Open!Different(r)
BY DEF Open!Decides, Open!Different

\* What passes does so whichever order its records have.
LEMMA PassesBackwards ==
    ASSUME NEW records, FromOne(records), NEW back, back = Backwards(records), NEW top, NEW sub,
           Open!netgen_verdict(records, top, sub) = "passed"
    PROVE  Open!netgen_verdict(back, top, sub) = "passed"
<1>1. /\ DOMAIN back = DOMAIN records
      /\ \A i \in DOMAIN records : \E j \in DOMAIN records : back[i] = records[j] /\ back[j] = records[i]
      /\ \A i, j \in DOMAIN records : i # j => \E a, b \in DOMAIN records : a # b /\ back[i] = records[a] /\ back[j] = records[b]
  <2>1. TurnedOf(records, back)
    BY ReadBackwards
  <2> QED BY <2>1 DEF TurnedOf
<1>2. \E n \in Nat : DOMAIN records = 1 .. n
  BY DEF FromOne
<1>3. /\ \E x : TopsOf(records, top, sub) = {x}
      /\ DecidedOf(records) = {}
      /\ \A i \in TopsOf(records, top, sub) : \A k \in 1 .. 2 : records[i].devices[k] > 0
  BY <1>2, NetgenPasses
<1>4. PICK x : TopsOf(records, top, sub) = {x}
  BY <1>3
<1>5. \E y : TopsOf(back, top, sub) = {y}
  <2>1. PICK y \in DOMAIN records : back[y] = records[x]
    BY <1>1, <1>4 DEF TopsOf
  <2>2. y \in TopsOf(back, top, sub)
    BY <1>1, <1>4, <2>1 DEF TopsOf
  <2>3. ASSUME NEW z \in TopsOf(back, top, sub), z # y PROVE FALSE
    <3>1. PICK a \in DOMAIN records, b \in DOMAIN records : a # b /\ back[z] = records[a] /\ back[y] = records[b]
      BY <1>1, <2>1, <2>3 DEF TopsOf
    <3>2. a \in TopsOf(records, top, sub) /\ b \in TopsOf(records, top, sub)
      BY <2>2, <2>3, <3>1 DEF TopsOf
    <3> QED BY <1>4, <3>1, <3>2
  <2> QED BY <2>2, <2>3
<1>6. DecidedOf(back) = {}
  BY <1>1, <1>3 DEF DecidedOf
<1>7. \A i \in TopsOf(back, top, sub) : \A k \in 1 .. 2 : back[i].devices[k] > 0
  <2>1. ASSUME NEW i \in TopsOf(back, top, sub) PROVE \A k \in 1 .. 2 : back[i].devices[k] > 0
    <3>1. PICK j \in DOMAIN records : back[i] = records[j]
      BY <1>1 DEF TopsOf
    <3>2. j \in TopsOf(records, top, sub)
      BY <3>1 DEF TopsOf
    <3> QED BY <1>3, <3>1, <3>2
  <2> QED BY <2>1
<1> QED BY <1>1, <1>2, <1>5, <1>6, <1>7, NetgenPasses

LEMMA TurnedTwice ==
    ASSUME NEW s, FromOne(s), s = [i \in DOMAIN s |-> s[i]], NEW back, back = Backwards(s)
    PROVE  FromOne(back) /\ Backwards(back) = s
<1>1. PICK n \in Nat : DOMAIN s = 1 .. n /\ Len(s) = n
  BY DEF FromOne
<1>2. back = [i \in 1 .. n |-> s[(n - i) + 1]]
  BY <1>1 DEF Backwards
<1>3. DOMAIN back = 1 .. n /\ Len(back) = n
  BY <1>1, <1>2
<1>4. FromOne(back)
  BY <1>3 DEF FromOne
<1>5. Backwards(back) = [i \in 1 .. n |-> back[(n - i) + 1]]
  BY <1>3 DEF Backwards
<1>6. ASSUME NEW i \in 1 .. n PROVE back[(n - i) + 1] = s[i]
  <2>1. (n - i) + 1 \in 1 .. n /\ (n - ((n - i) + 1)) + 1 = i
    BY <1>1
  <2> QED BY <1>2, <2>1
<1> QED BY <1>1, <1>4, <1>5, <1>6

\* A comparison passes only with every pair of cells alike and the ports on the
\* conductors they name, and fails only for a difference: a pair that was not
\* compared, wherever it stands, is not hidden by the ones that were.
\* magic_checks.py:15-50.
THEOREM NetgenIsConclusive ==
    ASSUME NEW records, RecordsRead(records), records = [i \in DOMAIN records |-> records[i]], NEW top, NEW sub
    PROVE  Open!NetgenConclusive(records, top, sub)
<1>1. PICK status, tops : status = Open!netgen_verdict(records, top, sub) /\ tops = TopsOf(records, top, sub)
  OBVIOUS
<1>2. FromOne(records) /\ \E n \in Nat : DOMAIN records = 1 .. n
  BY DEF RecordsRead, FromOne
<1>3. ASSUME status = "passed"
      PROVE  /\ \A i \in DOMAIN records : ~records[i].malformed /\ ~Open!Different(records[i])
             /\ \E i \in tops : records[i].devices[1] > 0 /\ records[i].pins # None
  <2>7. /\ \E x : TopsOf(records, top, sub) = {x}
        /\ DecidedOf(records) = {}
        /\ \A i \in TopsOf(records, top, sub) : \A k \in 1 .. 2 : records[i].devices[k] > 0
    BY <1>1, <1>2, <1>3, NetgenPasses
  <2>1. /\ \E x : tops = {x}
        /\ DecidedOf(records) = {}
        /\ \A i \in tops : \A k \in 1 .. 2 : records[i].devices[k] > 0
    BY <1>1, <2>7
  <2>2. \A i \in DOMAIN records : Open!Decides(records[i]) = "none"
    BY <2>1 DEF DecidedOf
  <2>3. \A i \in DOMAIN records : ~records[i].malformed /\ ~Open!Different(records[i]) /\ (~records[i].class => records[i].pins # None)
    BY <2>2, Undecided
  <2>4. PICK x : x \in tops
    BY <2>1
  <2>5. x \in DOMAIN records /\ ~records[x].class
    BY <1>1, <2>4 DEF TopsOf
  <2>6. records[x].devices[1] > 0
    BY <2>1, <2>4
  <2> QED BY <2>3, <2>4, <2>5, <2>6
<1>4. ASSUME status = "failed"
      PROVE  \/ \E i \in DOMAIN records : ~records[i].malformed /\ Open!Different(records[i])
             \/ \E i \in tops : \E k \in 1 .. 2 : records[i].devices[k] = 0
  <2>1. \/ \E i \in DOMAIN records : Open!Decides(records[i]) = "failed"
        \/ \E i \in tops : \E k \in 1 .. 2 : ~(records[i].devices[k] > 0)
    BY <1>1, <1>2, <1>4, NetgenPasses
  <2>2. ASSUME NEW i \in tops, NEW k \in 1 .. 2, ~(records[i].devices[k] > 0) PROVE records[i].devices[k] = 0
    <3>1. records[i].devices[k] \in Nat
      BY <1>1 DEF TopsOf, RecordsRead
    <3> QED BY <2>2, <3>1
  <2> QED BY <2>1, <2>2, DecidedFailed
<1>5. Open!netgen_verdict(Open!Reverse(records), top, sub) = "passed" <=> status = "passed"
  <2>1. PICK back : back = Backwards(records)
    OBVIOUS
  <2>2. Open!Reverse(records) = back
    BY <2>1 DEF Open!Reverse, Backwards
  <2>3. FromOne(back) /\ records = Backwards(back)
    BY <1>2, <2>1, TurnedTwice
  <2>4. status = "passed" => Open!netgen_verdict(back, top, sub) = "passed"
    BY <1>1, <1>2, <2>1, PassesBackwards
  <2>5. Open!netgen_verdict(back, top, sub) = "passed" => status = "passed"
    BY <1>1, <2>3, PassesBackwards
  <2> QED BY <2>2, <2>4, <2>5
<1>6. (Open!netgen_verdict(Open!Reverse(records), top, sub) = "passed") = (status = "passed")
  BY <1>5
<1> QED BY <1>1, <1>3, <1>4, <1>6 DEF Open!NetgenConclusive, TopsOf

\* A verdict of Magic is Netgen's, or that of its own extraction; a run that
\* failed, spoke of an error or stopped early gives none, whatever it left.
\* magic_checks.py:88-171.
THEOREM MagicIsConclusive ==
    ASSUME NEW run, RecordsRead(run.netgen.records),
           run.netgen.records = [i \in DOMAIN run.netgen.records |-> run.netgen.records[i]],
           run.devices \in Nat, run.count \in Int, NEW top, NEW sub
    PROVE  Open!MagicConclusive(run, top, sub)
<1>1. Open!NetgenConclusive(run.netgen.records, top, sub)
  BY NetgenIsConclusive
<1>2. PICK lvs, drc : lvs = Open!Magic("lvs", run, top, sub) /\ drc = Open!Magic("drc", run, top, sub)
  OBVIOUS
<1>3. lvs = IF ~Open!MagicRan(run) THEN "error" ELSE IF run.devices = 0 THEN "failed"
            ELSE IF run.netgen.code # 0 \/ ~run.netgen.complete THEN "error"
            ELSE Open!netgen_verdict(run.netgen.records, top, sub)
  BY <1>2 DEF Open!Magic
<1>4. drc = IF ~Open!MagicRan(run) THEN "error"
            ELSE IF run.count < 0 THEN "error" ELSE IF run.count = 0 THEN "passed" ELSE "failed"
  BY <1>2 DEF Open!Magic
<1>5. Open!MagicRan(run) <=> (run.code = 0 /\ ~run.diagnosed /\ run.complete)
  BY DEF Open!MagicRan
<1> QED BY <1>1, <1>2, <1>3, <1>4, <1>5 DEF Open!MagicConclusive

\* A binding is written beside the database, of what that was made from.
WrittenBinding(binding) == \E made : binding = Open!Binding(made.layout, made, made.top)

\* A netlist that is simulated is that of the layout and the top it was asked
\* for, has the layout's devices, each once, behind the declared ports in
\* their order, no node of the plane the declared substrate stands for, and no
\* two nets of the layout made one.
\* kpex.py:97-169, kpex_runner.py:45-135.
THEOREM ExtractionIsBound ==
    ASSUME NEW layout, NEW database, NEW binding, NEW top, NEW ports, NEW substrate, NEW process, NEW native,
           substrate \in database.circuit.nets, WrittenBinding(binding),
           \A i \in DOMAIN native.cards : "nodes" \in DOMAIN native.cards[i]
    PROVE  Open!ExtractionBound(layout, database, binding, top, ports, substrate, process, native)
<1> DEFINE out == Open!extract(database.circuit, ports, substrate, process, native)
           k == Open!Kpex(layout, database, binding, top, ports, substrate, process, native)
           actual == [i \in DOMAIN native.ports |-> Open!Renamed(process, substrate, native.ports[i])]
           cards == [i \in DOMAIN native.cards |->
                       [native.cards[i] EXCEPT !.nodes = [m \in DOMAIN @ |-> Open!Renamed(process, substrate, @[m])]]]
           fits == /\ Open!validate_binding(layout, database, binding, top) /\ out # None
                   /\ \A i \in DOMAIN out.cards: Open!CardFits(out.cards[i], process)
                   /\ Open!Counts(out.cards) = out.counts
                   /\ Open!IsInjective([i \in DOMAIN out.cards |-> out.cards[i].name])
<1>1. SUFFICES ASSUME k.status = "passed"
      PROVE  /\ database.layout = layout /\ database.top = top
             /\ k.netlist.ports = ports /\ Open!Counts(k.netlist.cards) = Open!Counts(database.circuit.devices)
             /\ \A i \in DOMAIN k.netlist.cards: process.plane \notin Open!ToSet(k.netlist.cards[i].nodes)
             /\ \A n, m \in database.circuit.nets: n # m => Open!Renamed(process, substrate, n) # Open!Renamed(process, substrate, m)
             /\ Open!ToSet(k.netlist.ports) = Open!ToSet(database.circuit.ports)
  BY DEF Open!ExtractionBound
<1>2. k = IF fits THEN [status |-> "passed", netlist |-> out] ELSE [status |-> "error", netlist |-> None]
  BY DEF Open!Kpex
<1>3. out = IF Open!Extractable(database.circuit, Open!ToSet(ports), process) /\ native.compared
               /\ Open!ToSet(actual) = Open!ToSet(ports) /\ Open!IsInjective(native.ports)
            THEN [ports |-> ports, cards |-> cards, counts |-> Open!Counts(database.circuit.devices)] ELSE None
  BY DEF Open!extract
<1> HIDE DEF k, out, actual, cards
<1>4. fits /\ k.netlist = out
  <2> HIDE DEF fits
  <2> QED BY <1>1, <1>2
<1>5. /\ Open!Extractable(database.circuit, Open!ToSet(ports), process)
      /\ out = [ports |-> ports, cards |-> cards, counts |-> Open!Counts(database.circuit.devices)]
  BY <1>3, <1>4
<1>6. out.ports = ports /\ out.cards = cards /\ out.counts = Open!Counts(database.circuit.devices)
  BY <1>5
<1>7. Open!ToSet(database.circuit.ports) = Open!ToSet(ports) /\ process.plane \notin database.circuit.nets
  BY <1>5 DEF Open!Extractable
<1>8. \A n : Open!Renamed(process, substrate, n) # process.plane
  BY <1>7 DEF Open!Renamed
<1>9. \A n \in database.circuit.nets : Open!Renamed(process, substrate, n) = n
  BY <1>7 DEF Open!Renamed
<1>10. ASSUME NEW i \in DOMAIN cards PROVE process.plane \notin Open!ToSet(cards[i].nodes)
  <2>1. PICK card : card = native.cards[i] /\ i \in DOMAIN native.cards
    BY <1>10 DEF cards
  <2>2. cards[i] = [card EXCEPT !.nodes = [m \in DOMAIN card.nodes |-> Open!Renamed(process, substrate, card.nodes[m])]]
    BY <2>1 DEF cards
  <2>3. "nodes" \in DOMAIN card
    BY <2>1
  <2>4. cards[i].nodes = [m \in DOMAIN card.nodes |-> Open!Renamed(process, substrate, card.nodes[m])]
    BY <2>2, <2>3
  <2> QED BY <1>8, <2>4 DEF Open!ToSet
<1>11. database.layout = layout /\ database.top = top
  <2>1. PICK made : binding = Open!Binding(made.layout, made, made.top)
    BY DEF WrittenBinding
  <2>2. Open!Binding(made.layout, made, made.top) = Open!Binding(layout, database, top)
    BY <1>4, <2>1 DEF Open!validate_binding
  <2>3. made.layout = layout /\ made = database /\ made.top = top
    BY ONLY <2>2 DEF Open!Binding
  <2> QED BY <2>3
<1> QED BY <1>4, <1>6, <1>7, <1>9, <1>10, <1>11
=============================================================================
