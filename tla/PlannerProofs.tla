---------------------------- MODULE PlannerProofs ----------------------------
(***************************************************************************)
(* Proofs about the plan, for any library, forecasts, quantum and costs:    *)
(* it covers what it can and leaves no hole in a show.  What the recursive  *)
(* functions of the planner compute is proved by induction on the step, a   *)
(* set of step numbers being shown to hold 0 and each next one.             *)
(***************************************************************************)
EXTENDS EvictionPlanner, FiniteSetTheorems, WellFoundedInduction, TLAPS

-----------------------------------------------------------------------------
(* Numbers and walks. *)

(* A set of numbers has a smallest one.                                     *)
LEMMA Smallest ==
  ASSUME NEW T \in SUBSET Nat, T # {}
  PROVE  \E n \in T : \A m \in T : n <= m
<1>1. PICK n \in T : \A m \in T : <<m, n>> \notin OpToRel(<, Nat)
  BY NatLessThanWellFounded, WFMin, Zenon
<1>2. n \in Nat /\ \A m \in T : m \in Nat /\ ~(m < n)
  BY <1>1 DEF OpToRel
<1> QED
  BY <1>2

(* One below a bound has a largest one.                                     *)
LEMMA Largest ==
  ASSUME NEW top \in Nat, NEW T \in SUBSET (0..top), T # {}
  PROVE  \E n \in T : \A m \in T : m <= n
<1> DEFINE below == {top - n : n \in T}
<1>1. below \in SUBSET Nat /\ below # {}
  OBVIOUS
<1>2. PICK b \in below : \A m \in below : b <= m
  BY <1>1, Smallest
<1>3. PICK n \in T : b = top - n
  OBVIOUS
<1>4. \A m \in T : top - n <= top - m
  BY <1>2, <1>3
<1> QED
  BY <1>4

(* Induction: a set that holds 0 and with a number the next one holds all.  *)
LEMMA FromZero ==
  ASSUME NEW S, 0 \in S, \A n \in S \cap Nat : n + 1 \in S
  PROVE  Nat \subseteq S
<1> SUFFICES ASSUME Nat \ S # {} PROVE FALSE
  OBVIOUS
<1>1. PICK n \in Nat \ S : \A m \in Nat \ S : n <= m
  BY Smallest
<1>2. n # 0 /\ n - 1 \in Nat /\ n - 1 \in S
  BY <1>1
<1> QED
  BY <1>2

(* Up to N. *)
LEMMA UpTo ==
  ASSUME NEW N \in Nat, NEW S, 0 \in S, \A n \in 1..N : n - 1 \in S => n \in S
  PROVE  0..N \subseteq S
<1> DEFINE T == {n \in Nat : n <= N => n \in S}
<1>1. 0 \in T
  OBVIOUS
<1>2. \A n \in T \cap Nat : n + 1 \in T
  OBVIOUS
<1> HIDE DEF T
<1>3. Nat \subseteq T
  BY <1>1, <1>2, FromZero
<1> QED
  BY <1>3 DEF T

(* A walk of N steps over St. *)
Walks(u, N, base, step) == u = [n \in 0..N |-> IF n = 0 THEN base ELSE step[<<n, u[n - 1]>>]]

LEMMA WalkExists ==
  ASSUME NEW N \in Nat, NEW St, NEW base \in St, NEW step \in [(1..N) \X St -> St]
  PROVE  \E u \in [0..N -> St] : Walks(u, N, base, step)
<1> DEFINE Run(n, u) == u[0] = base /\ \A k \in 1..n : u[k] = step[<<k, u[k - 1]>>]
           S == {n \in Nat : n <= N => \E u \in [0..n -> St] : Run(n, u)}
<1>1. 0 \in S
  <2>1. [n \in 0..0 |-> base] \in [0..0 -> St] /\ Run(0, [n \in 0..0 |-> base])
    OBVIOUS
  <2> QED
    BY <2>1
<1>2. \A n \in 1..N : n - 1 \in S => n \in S
  <2> SUFFICES ASSUME NEW n \in 1..N, n - 1 \in S PROVE n \in S
    OBVIOUS
  <2>1. PICK u \in [0..(n - 1) -> St] : Run(n - 1, u)
    OBVIOUS
  <2> DEFINE w == [k \in 0..n |-> IF k = n THEN step[<<n, u[n - 1]>>] ELSE u[k]]
  <2>2. w \in [0..n -> St]
    OBVIOUS
  <2>3. \A k \in 0..(n - 1) : w[k] = u[k]
    OBVIOUS
  <2>4. w[n] = step[<<n, w[n - 1]>>]
    <3>1. n \in 0..n /\ n - 1 \in 0..(n - 1) /\ w[n] = step[<<n, u[n - 1]>>]
      OBVIOUS
    <3> QED
      BY <2>3, <3>1
  <2> HIDE DEF w
  <2>5. ASSUME NEW k \in 1..n
        PROVE  w[k] = step[<<k, w[k - 1]>>]
    <3>1. CASE k = n
      BY <2>4, <3>1
    <3>2. CASE k # n
      <4>1. k \in 1..(n - 1) /\ k \in 0..(n - 1) /\ k - 1 \in 0..(n - 1)
        BY <3>2
      <4> QED
        BY <2>1, <2>3, <4>1
    <3> QED
      BY <3>1, <3>2
  <2>6. Run(n, w)
    BY <2>1, <2>3, <2>5
  <2> QED
    BY <2>2, <2>6
<1> HIDE DEF S
<1>3. N \in S
  BY <1>1, <1>2, UpTo
<1>4. PICK u \in [0..N -> St] : Run(N, u)
  BY <1>3 DEF S
<1>5. \A n \in 0..N : u[n] = IF n = 0 THEN base ELSE step[<<n, u[n - 1]>>]
  BY <1>4
<1>6. u = [n \in 0..N |-> u[n]]
  OBVIOUS
<1>7. Walks(u, N, base, step)
  BY <1>5, <1>6 DEF Walks
<1> QED
  BY <1>7

(* Fractions: at least as much, and that is transitive. *)
LEMMA TimesMonotone ==
  ASSUME NEW a \in Nat, NEW b \in Nat, NEW c \in Nat, a <= b
  PROVE  a * c <= b * c
<1>1. PICK d \in Nat : b = a + d
  <2>1. b - a \in Nat /\ b = a + (b - a)
    OBVIOUS
  <2> QED
    BY <2>1
<1>2. b * c = a * c + d * c /\ a * c \in Nat /\ d * c \in Nat
  BY <1>1
<1> QED
  BY <1>2

(* What is more after a factor is more without it.                          *)
LEMMA TimesCancel ==
  ASSUME NEW a \in Nat, NEW b \in Nat, NEW c \in Nat \ {0}, a * c <= b * c
  PROVE  a <= b
<1> SUFFICES ASSUME b < a PROVE FALSE
  OBVIOUS
<1>1. PICK d \in Nat : a = b + d + 1
  <2>1. a - b - 1 \in Nat /\ a = b + (a - b - 1) + 1
    OBVIOUS
  <2> QED
    BY <2>1
<1>2. a * c = b * c + d * c + c /\ b * c \in Nat /\ d * c \in Nat
  BY <1>1
<1> QED
  BY <1>2

(* As fractions, s/x is at least t/y and that at least u/z.                 *)
LEMMA FractionsOrder ==
  ASSUME NEW s \in Nat, NEW t \in Nat, NEW u \in Nat,
         NEW x \in Nat \ {0}, NEW y \in Nat \ {0}, NEW z \in Nat \ {0},
         t * x <= s * y, u * y <= t * z
  PROVE  u * x <= s * z
<1>1. (t * x) * z <= (s * y) * z
  BY TimesMonotone
<1>2. (u * y) * x <= (t * z) * x
  BY TimesMonotone
<1>3. (t * x) * z = (t * z) * x /\ (u * y) * x = (u * x) * y /\ (s * y) * z = (s * z) * y
  OBVIOUS
<1>4. (u * x) * y \in Nat /\ (t * z) * x \in Nat /\ (s * z) * y \in Nat /\ u * x \in Nat /\ s * z \in Nat
  OBVIOUS
<1>5. (u * x) * y <= (s * z) * y
  BY <1>1, <1>2, <1>3, <1>4
<1> QED
  BY <1>4, <1>5, TimesCancel

(* Of finitely many fractions p/q one is the greatest, with ties broken by a *)
(* number none shares.                                                       *)
Greatest(S, p, q, rank) ==
  {a \in S : \A b \in S \ {a} : p[b] * q[a] < p[a] * q[b] \/ (p[b] * q[a] = p[a] * q[b] /\ rank[a] < rank[b])}

(* So a choice by density, ties broken by number, always finds one.         *)
LEMMA GreatestExists ==
  ASSUME NEW S, IsFiniteSet(S), S # {}, NEW p \in [S -> Nat], NEW q \in [S -> Nat \ {0}],
         NEW rank \in [S -> Nat], \A a, b \in S : rank[a] = rank[b] => a = b
  PROVE  \E a \in S : a \in Greatest(S, p, q, rank)
<1> DEFINE Tops(T) == {a \in T : \A b \in T : p[b] * q[a] <= p[a] * q[b]}
           N == {n \in Nat : \A T \in SUBSET S : T # {} /\ Cardinality(T) = n => Tops(T) # {}}
<1>1. \A T \in SUBSET S : IsFiniteSet(T) /\ Cardinality(T) \in Nat
  BY FS_Subset, FS_CardinalityType
<1>2. 0 \in N
  BY <1>1, FS_EmptySet
<1> HIDE DEF Tops
<1>3. ASSUME NEW n \in N, n \in Nat, NEW T \in SUBSET S, T # {}, Cardinality(T) = n + 1
      PROVE  Tops(T) # {}
  <2> USE <1>3 DEF Tops
  <2>1. PICK x \in T : TRUE
    OBVIOUS
  <2>2. Cardinality(T \ {x}) = n /\ T \ {x} \in SUBSET S
    <3>1. IsFiniteSet(T) /\ Cardinality(T \ {x}) = Cardinality(T) - 1
      BY <1>1, <2>1, FS_RemoveElement
    <3> QED
      BY <1>3, <3>1
  <2>3. CASE T \ {x} = {}
    <3>1. x \in Tops(T)
      BY <2>1, <2>3
    <3> QED
      BY <3>1
  <2>4. CASE T \ {x} # {}
    <3>1. PICK m \in Tops(T \ {x}) : TRUE
      BY <2>2, <2>4
    <3>2. /\ p[m] \in Nat /\ q[m] \in Nat \ {0} /\ p[x] \in Nat /\ q[x] \in Nat \ {0} /\ m \in T
          /\ \A b \in T : p[b] \in Nat /\ q[b] \in Nat \ {0}
          /\ \A b \in T \ {x} : p[b] * q[m] <= p[m] * q[b]
      BY <2>1, <3>1
    <3>3. CASE p[x] * q[m] <= p[m] * q[x]
      <4>1. m \in Tops(T)
        BY <3>2, <3>3
      <4> QED
        BY <4>1
    <3>4. CASE ~(p[x] * q[m] <= p[m] * q[x])
      <4>1. p[m] * q[x] <= p[x] * q[m]
        <5>1. p[m] * q[x] \in Nat /\ p[x] * q[m] \in Nat
          BY <3>2
        <5> QED
          BY <3>4, <5>1
      <4>2. ASSUME NEW b \in T \ {x} PROVE p[b] * q[x] <= p[x] * q[b]
        BY <3>2, <4>1, FractionsOrder
      <4>3. x \in Tops(T)
        BY <3>2, <4>2, <2>1
      <4> QED
        BY <4>3
    <3> QED
      BY <3>3, <3>4
  <2> QED
    BY <2>3, <2>4
<1>a. \A n \in N \cap Nat : n + 1 \in N
  <2> SUFFICES ASSUME NEW n \in N PROVE n + 1 \in N
    OBVIOUS
  <2>1. n \in Nat
    OBVIOUS
  <2>2. \A T \in SUBSET S : T # {} /\ Cardinality(T) = n + 1 => Tops(T) # {}
    BY <1>3, <2>1
  <2> QED
    BY <2>1, <2>2
<1> HIDE DEF N
<1>4. Nat \subseteq N
  BY <1>2, <1>a, FromZero
<1>5. Tops(S) # {}
  <2>1. Cardinality(S) \in N
    BY <1>1, <1>4
  <2> QED
    BY <2>1 DEF N
<1> USE DEF Tops
<1>6. {rank[a] : a \in Tops(S)} \in SUBSET Nat /\ {rank[a] : a \in Tops(S)} # {}
  BY <1>5
<1>7. PICK r \in {rank[a] : a \in Tops(S)} : \A m \in {rank[a] : a \in Tops(S)} : r <= m
  BY <1>6, Smallest
<1>8. PICK a \in Tops(S) : r = rank[a]
  BY <1>7
<1>9. ASSUME NEW b \in S \ {a}
      PROVE  p[b] * q[a] < p[a] * q[b] \/ (p[b] * q[a] = p[a] * q[b] /\ rank[a] < rank[b])
  <2>1. /\ p[a] \in Nat /\ q[a] \in Nat \ {0} /\ p[b] \in Nat /\ q[b] \in Nat \ {0}
        /\ rank[a] \in Nat /\ rank[b] \in Nat /\ rank[a] # rank[b] /\ a \in S
    BY <1>8, <1>9
  <2>2. p[b] * q[a] <= p[a] * q[b]
    BY <1>8
  <2>3. CASE p[b] * q[a] = p[a] * q[b]
    <3>1. ASSUME NEW c \in S PROVE p[c] * q[b] <= p[b] * q[c]
      <4>1. p[c] \in Nat /\ q[c] \in Nat \ {0} /\ p[c] * q[a] <= p[a] * q[c] /\ p[a] * q[b] <= p[b] * q[a]
        <5>1. p[a] * q[b] \in Nat
          BY <2>1
        <5> QED
          BY <1>8, <2>3, <5>1
      <4> QED
        BY <2>1, <4>1, FractionsOrder
    <3>2. b \in Tops(S)
      BY <3>1
    <3>3. rank[a] <= rank[b]
      BY <1>7, <1>8, <3>2
    <3> QED
      BY <2>1, <2>3, <3>3
  <2>4. CASE p[b] * q[a] # p[a] * q[b]
    <3>1. p[b] * q[a] \in Nat /\ p[a] * q[b] \in Nat
      BY <2>1
    <3> QED
      BY <2>2, <2>4, <3>1
  <2> QED
    BY <2>3, <2>4
<1> QED
  BY <1>8, <1>9 DEF Greatest

-----------------------------------------------------------------------------
(* Units and sums over them. *)

PlannerTypes == units \in Seq(Kinds) /\ target \in [Volume -> Nat] /\ headroom \in Nat

(* Units and their amounts are what the sums need.                          *)
LEMMA UnitsFit ==
  ASSUME PlannerTypes
  PROVE  /\ Len(units) \in Nat /\ Units = 1..Len(units) /\ IsFiniteSet(Units) /\ Units \in SUBSET Nat
         /\ \A i \in Units :
              /\ units[i].size \in Nat /\ units[i].regret \in Nat /\ units[i].volume \in Volume
              /\ units[i].played \in BOOLEAN /\ units[i].handed \in BOOLEAN
         /\ \A i \in Units : Weight(i) \in Nat
         /\ \A i \in Units : Quantize(units[i].size) \in Nat
<1>1. Len(units) \in Nat /\ Units = 1..Len(units) /\ \A i \in Units : units[i] \in Kinds
  BY DEF PlannerTypes, Units
<1>2. IsFiniteSet(Units)
  BY <1>1, FS_Interval
<1>3. \A i \in Units :
        /\ units[i].size \in Nat /\ units[i].regret \in Nat /\ units[i].volume \in Volume
        /\ units[i].played \in BOOLEAN /\ units[i].handed \in BOOLEAN
  BY <1>1, PlannerAssumption
<1>4. \A i \in Units : Weight(i) \in Nat
  BY <1>3 DEF Weight
<1>5. ASSUME NEW b \in Nat PROVE Quantize(b) \in Nat
  <2>1. Quantum \in Nat \ {0}
    BY PlannerAssumption
  <2>2. b + Quantum - 1 \in Nat
    BY <2>1
  <2> QED
    BY <2>1, <2>2 DEF Quantize
<1>6. \A i \in Units : Quantize(units[i].size) \in Nat
  BY <1>3, <1>5
<1>7. Units \in SUBSET Nat
  BY <1>1
<1> QED
  BY <1>1, <1>2, <1>3, <1>4, <1>6, <1>7, Zenon

(* A sum, step by step. *)
Sums(u, amount, S) ==
  u = [n \in 0..Len(units) |-> IF n = 0 THEN 0 ELSE u[n - 1] + (IF n \in S THEN amount[n] ELSE 0)]
LEMMA TotalSteps ==
  ASSUME PlannerTypes, NEW amount \in [Units -> Nat], NEW S
  PROVE  \E u \in [0..Len(units) -> Nat] : Sums(u, amount, S) /\ Total(amount, S) = u[Len(units)]
<1> DEFINE step == [nv \in (1..Len(units)) \X Nat |-> nv[2] + (IF nv[1] \in S THEN amount[nv[1]] ELSE 0)]
<1>0. Len(units) \in Nat /\ Units = 1..Len(units)
  BY UnitsFit
<1>1. step \in [(1..Len(units)) \X Nat -> Nat]
  BY <1>0
<1>2. \A n \in 1..Len(units), v \in Nat : step[<<n, v>>] = v + (IF n \in S THEN amount[n] ELSE 0)
  OBVIOUS
<1> HIDE DEF step
<1>3. PICK w \in [0..Len(units) -> Nat] : Walks(w, Len(units), 0, step)
  BY <1>0, <1>1, WalkExists
<1>4. ASSUME NEW n \in 0..Len(units)
      PROVE  w[n] = IF n = 0 THEN 0 ELSE w[n - 1] + (IF n \in S THEN amount[n] ELSE 0)
  <2>1. w[n] = IF n = 0 THEN 0 ELSE step[<<n, w[n - 1]>>]
    BY <1>3 DEF Walks
  <2>2. CASE n # 0
    <3>1. n \in 1..Len(units) /\ w[n - 1] \in Nat
      BY <1>0, <2>2
    <3> QED
      BY <1>2, <2>1, <2>2, <3>1
  <2> QED
    BY <2>1, <2>2
<1>5. w = [n \in 0..Len(units) |-> w[n]]
  OBVIOUS
<1>6. Sums(w, amount, S)
  BY <1>4, <1>5 DEF Sums
<1> DEFINE u == CHOOSE u : Sums(u, amount, S)
<1>7. Sums(u, amount, S)
  BY <1>6, Zenon
<1>8. Total(amount, S) = u[Len(units)]
  BY Zenon DEF Total, Sums
<1> HIDE DEF u
<1>9. \A n \in 0..Len(units) : u[n] = IF n = 0 THEN 0 ELSE u[n - 1] + (IF n \in S THEN amount[n] ELSE 0)
  BY <1>7, Zenon DEF Sums
<1> DEFINE T == {n \in Nat : u[n] \in Nat}
<1>10. 0 \in T
  BY <1>0, <1>9
<1>11. ASSUME NEW n \in 1..Len(units), n - 1 \in T PROVE n \in T
  <2>1. n # 0 /\ n \in 0..Len(units) /\ u[n - 1] \in Nat /\ amount[n] \in Nat
    BY <1>0, <1>11
  <2>2. u[n] = u[n - 1] + (IF n \in S THEN amount[n] ELSE 0)
    BY <1>9, <2>1
  <2> QED
    BY <2>1, <2>2
<1> HIDE DEF T
<1>12. 0..Len(units) \subseteq T
  BY <1>0, <1>10, <1>11, UpTo
<1>13. u = [n \in 0..Len(units) |-> u[n]]
  BY <1>7 DEF Sums
<1>14. u \in [0..Len(units) -> Nat]
  BY <1>12, <1>13 DEF T
<1> QED
  BY <1>7, <1>8, <1>14

(* Sums are numbers.                                                        *)
LEMMA TotalNat ==
  ASSUME PlannerTypes, NEW S
  PROVE  Quanta(S) \in Nat /\ Bytes(S) \in Nat /\ WeightOf(S) \in Nat
<1>0. Len(units) \in Nat
  BY UnitsFit
<1>1. /\ [i \in Units |-> Quantize(units[i].size)] \in [Units -> Nat]
      /\ [i \in Units |-> units[i].size] \in [Units -> Nat]
      /\ [i \in Units |-> Weight(i)] \in [Units -> Nat]
  BY UnitsFit
<1>2. ASSUME NEW amount \in [Units -> Nat] PROVE Total(amount, S) \in Nat
  <2>1. PICK u \in [0..Len(units) -> Nat] : Total(amount, S) = u[Len(units)]
    BY TotalSteps
  <2> QED
    BY <1>0, <2>1
<1> QED
  BY <1>1, <1>2, Zenon DEF Quanta, Bytes, WeightOf

-----------------------------------------------------------------------------
(* Who is behind whom. *)

(* The seasons of a show stand in line. *)
LEMMA LinesUp ==
  ASSUME PlannerTypes
  PROVE  /\ \A a, b \in Units : Behind(a, b) => ~Behind(b, a) /\ a # b
         /\ \A a, b, c \in Units : Behind(a, b) /\ Behind(b, c) => Behind(a, c)
         /\ \A a, b, c \in Units : Behind(a, b) /\ Behind(a, c) => b = c \/ Behind(b, c) \/ Behind(c, b)
         /\ \A a, b, c \in Units : Behind(a, c) /\ Behind(b, c) => a = b \/ Behind(a, b) \/ Behind(b, a)
<1>1. \A a \in Units : a \in Nat /\ units[a].played \in BOOLEAN
  BY UnitsFit
<1>2. ASSUME NEW a \in Units, NEW b \in Units, Behind(a, b) PROVE ~Behind(b, a) /\ a # b
  BY <1>1, <1>2 DEF Behind
<1>3. ASSUME NEW a \in Units, NEW b \in Units, NEW c \in Units
      PROVE  /\ Behind(a, b) /\ Behind(b, c) => Behind(a, c)
             /\ Behind(a, b) /\ Behind(a, c) => b = c \/ Behind(b, c) \/ Behind(c, b)
             /\ Behind(a, c) /\ Behind(b, c) => a = b \/ Behind(a, b) \/ Behind(b, a)
  <2>1. a \in Nat /\ b \in Nat /\ c \in Nat
    BY <1>1
  <2>2. CASE units[a].played
    <3>0. /\ units[a].played = TRUE
          /\ units[b].played = units[a].played => units[b].played = TRUE
          /\ units[b].played \in BOOLEAN
      BY <1>1, <2>2
    <3>1. ASSUME Behind(a, b), Behind(b, c) PROVE Behind(a, c)
      <4>1. units[b].played = TRUE /\ units[a].played = units[c].played /\ units[a].show = units[c].show
        BY <3>0, <3>1 DEF Behind
      <4>2. b < a /\ c < b
        BY <2>2, <3>1, <4>1 DEF Behind
      <4> QED
        <5>1. c < a
          BY <2>1, <4>2
        <5>2. units[a].show # Nothing
          BY <3>1 DEF Behind
        <5> QED
          BY <2>2, <4>1, <5>1, <5>2, Zenon DEF Behind
    <3>2. Behind(a, b) /\ Behind(a, c) => b = c \/ Behind(b, c) \/ Behind(c, b)
      BY <2>1, <2>2 DEF Behind
    <3>3. ASSUME Behind(a, c), Behind(b, c) PROVE a = b \/ Behind(a, b) \/ Behind(b, a)
      <4>1. units[b].played = units[c].played /\ units[a].played = units[c].played /\ units[b].played = TRUE
        BY <3>0, <3>3 DEF Behind
      <4> QED
        BY <2>1, <3>0, <3>3, <4>1 DEF Behind
    <3> QED
      BY <3>1, <3>2, <3>3
  <2>3. CASE ~units[a].played
    BY <2>1, <2>3 DEF Behind
  <2> QED
    BY <2>2, <2>3
<1> QED
  BY <1>2, <1>3

(* The next one ahead.                                                      *)
LEMMA NextInLine ==
  ASSUME PlannerTypes, NEW a \in Units, NEW S \in SUBSET Units, \E b \in S : Behind(a, b)
  PROVE  \E b \in S : Behind(a, b) /\ \A c \in S : Behind(a, c) => c = b \/ Behind(b, c)
<1> DEFINE ahead == {b \in S : Behind(a, b)}
<1>0. Len(units) \in Nat /\ Units = 1..Len(units) /\ ahead \in SUBSET Nat /\ ahead \in SUBSET (0..Len(units)) /\ ahead # {}
  BY UnitsFit
<1>1. CASE units[a].played
  <2>1. PICK b \in ahead : \A c \in ahead : c <= b
    <3> HIDE DEF ahead
    <3> QED
      BY <1>0, Largest
  <2>2. ASSUME NEW c \in S, Behind(a, c) PROVE c = b \/ Behind(b, c)
    <3>1. c \in Nat /\ b \in Nat /\ c \in ahead /\ Behind(a, b)
      BY <1>0, <2>2
    <3>2. c <= b /\ units[b].played
      BY <1>1, <2>1, <3>1 DEF Behind
    <3> QED
      BY <2>2, <3>1, <3>2 DEF Behind
  <2> QED
    BY <2>1, <2>2
<1>2. CASE ~units[a].played
  <2>1. PICK b \in ahead : \A c \in ahead : b <= c
    <3> HIDE DEF ahead
    <3> QED
      BY <1>0, Smallest
  <2>2. ASSUME NEW c \in S, Behind(a, c) PROVE c = b \/ Behind(b, c)
    <3>1. c \in Nat /\ b \in Nat /\ c \in ahead /\ Behind(a, b)
      BY <1>0, <2>2
    <3>2. b <= c /\ ~units[b].played
      BY <1>2, <2>1, <3>1 DEF Behind
    <3> QED
      BY <2>2, <3>1, <3>2 DEF Behind
  <2> QED
    BY <2>1, <2>2
<1> QED
  BY <1>1, <1>2

(* Nothing stays that one which goes is behind. *)
Whole(S) == S \subseteq Units /\ NoHoles(S, Units)

(* Closing a set leaves a whole.                                            *)
LEMMA ClosingWhole ==
  ASSUME PlannerTypes, NEW S \in SUBSET Units
  PROVE  Whole(Closing(S)) /\ Closing(S) \subseteq S
<1>1. Closing(S) \subseteq S
  BY DEF Closing
<1>2. ASSUME NEW a \in Closing(S), NEW b \in Units, Behind(a, b)
      PROVE  b \in Closing(S)
  <2>1. a \in Units /\ b \in S
    BY <1>2 DEF Closing
  <2>2. \A c \in Units : Behind(b, c) => c \in S
    BY <1>2, <2>1, LinesUp DEF Closing
  <2> QED
    BY <2>1, <2>2 DEF Closing
<1> QED
  BY <1>1, <1>2 DEF Whole, NoHoles

(* A whole is closed already.                                               *)
LEMMA WholeClosing ==
  ASSUME NEW S, Whole(S)
  PROVE  Closing(S) = S
  BY DEF Closing, Whole, NoHoles

(* Who is behind another in a whole is so by edges. *)
LEMMA EdgeAhead ==
  ASSUME PlannerTypes, NEW S, Whole(S), NEW a \in S, NEW c \in Units, Behind(a, c)
  PROVE  \E b \in S : <<a, b>> \in EdgesOf(S) /\ (c = b \/ Behind(b, c))
<1>1. S \in SUBSET Units /\ c \in S /\ a \in Units
  BY DEF Whole, NoHoles
<1>2. PICK b \in S : Behind(a, b) /\ \A d \in S : Behind(a, d) => d = b \/ Behind(b, d)
  BY <1>1, NextInLine
<1>3. ~\E k \in Units : Behind(a, k) /\ Behind(k, b)
  <2> SUFFICES ASSUME NEW k \in Units, Behind(a, k), Behind(k, b) PROVE FALSE
    OBVIOUS
  <2>1. k \in S
    BY DEF Whole, NoHoles
  <2> QED
    BY <1>1, <1>2, <2>1, LinesUp
<1>4. <<a, b>> \in EdgesOf(S)
  BY <1>2, <1>3 DEF EdgesOf
<1> QED
  BY <1>1, <1>2, <1>4

(* An edge is between neighbours.                                           *)
LEMMA EdgeOnly ==
  ASSUME NEW S, NEW e \in EdgesOf(S)
  PROVE  /\ e[1] \in S /\ e[2] \in S /\ e = <<e[1], e[2]>> /\ Behind(e[1], e[2])
         /\ ~\E k \in Units : Behind(e[1], k) /\ Behind(k, e[2])
  BY DEF EdgesOf

(* The best of those ready is one of them. *)
LEMMA BestReady ==
  ASSUME PlannerTypes, NEW tier \in [Units -> 0..4], NEW ready \in SUBSET Units, ready # {}
  PROVE  Best(ready, tier) \in ready
<1>0. /\ Len(units) \in Nat /\ Units = 1..Len(units) /\ IsFiniteSet(Units)
      /\ \A i \in Units : units[i].size \in Nat /\ units[i].handed \in BOOLEAN /\ Weight(i) \in Nat
  BY UnitsFit
<1>1. PICK high \in {4 - tier[i] : i \in ready} : \A m \in {4 - tier[i] : i \in ready} : high <= m
  <2>1. {4 - tier[i] : i \in ready} \in SUBSET Nat /\ {4 - tier[i] : i \in ready} # {}
    OBVIOUS
  <2> QED
    BY <2>1, Smallest
<1> DEFINE first == {i \in ready : tier[i] = 4 - high}
           S == IF \E i \in first : units[i].handed THEN {i \in first : units[i].handed} ELSE first
           p == [i \in S |-> units[i].size]
           q == [i \in S |-> 1000 * Weight(i) + 1]
           rank == [i \in S |-> i]
<1>2. first # {} /\ \A i \in ready : tier[i] <= 4 - high
  BY <1>1
<1>3. S # {} /\ S \subseteq first /\ S \subseteq Units /\ IsFiniteSet(S)
  <2>1. S # {} /\ S \subseteq first /\ S \subseteq Units
    BY <1>2
  <2> QED
    BY <1>0, <2>1, FS_Subset
<1>4. \A i, j \in S : units[i].handed <=> units[j].handed
  OBVIOUS
<1>5. \A i \in S, j \in first \ S : units[i].handed /\ ~units[j].handed
  OBVIOUS
<1> HIDE DEF S
<1>6. p \in [S -> Nat] /\ q \in [S -> Nat \ {0}] /\ rank \in [S -> Nat] /\ \A i, j \in S : rank[i] = rank[j] => i = j
  BY <1>0, <1>3
<1>7. \A i \in S : p[i] = units[i].size /\ q[i] = 1000 * Weight(i) + 1 /\ rank[i] = i
  OBVIOUS
<1> HIDE DEF p, q, rank
<1>8. PICK a \in S : a \in Greatest(S, p, q, rank)
  BY <1>3, <1>6, GreatestExists
<1>9. ASSUME NEW b \in ready \ {a}
      PROVE  \/ tier[a] > tier[b]
             \/ tier[a] = tier[b] /\ units[a].handed /\ ~units[b].handed
             \/ /\ tier[a] = tier[b] /\ units[a].handed = units[b].handed
                /\ Efficient(a, b) > 0 \/ (Efficient(a, b) = 0 /\ a < b)
  <2>1. a \in first /\ tier[a] = 4 - high /\ tier[a] \in 0..4 /\ tier[b] \in 0..4 /\ a \in Units /\ b \in Units
    BY <1>3
  <2>2. CASE b \notin first
    <3>1. tier[b] # 4 - high /\ tier[b] <= 4 - high
      BY <1>2, <2>2
    <3> QED
      BY <2>1, <3>1
  <2>3. CASE b \in first \ S
    BY <1>5, <2>1, <2>3
  <2>4. CASE b \in S
    <3>1. tier[b] = tier[a] /\ units[a].handed = units[b].handed
      BY <1>0, <1>3, <1>4, <2>1, <2>4
    <3>2. p[b] * q[a] < p[a] * q[b] \/ (p[b] * q[a] = p[a] * q[b] /\ rank[a] < rank[b])
      BY <1>8, <2>4 DEF Greatest
    <3>3. Efficient(a, b) = p[a] * q[b] - p[b] * q[a] /\ rank[a] = a /\ rank[b] = b
      BY <1>7, <2>4 DEF Efficient
    <3>4. p[a] * q[b] \in Nat /\ p[b] * q[a] \in Nat
      BY <1>6, <2>4
    <3> QED
      BY <3>1, <3>2, <3>3, <3>4
  <2> QED
    BY <2>2, <2>3, <2>4
<1>10. a \in ready
  BY <1>3
<1> QED
  BY <1>9, <1>10 DEF Best

-----------------------------------------------------------------------------
(* Tiers. *)

(* The higher of two tiers.                                                 *)
LEMMA MaxOfTwo ==
  ASSUME NEW a \in 0..4, NEW b \in 0..4
  PROVE  Max({a, b}) \in 0..4 /\ Max({a, b}) >= a /\ Max({a, b}) >= b
<1>1. \E x \in {a, b} : \A y \in {a, b} : x >= y
  OBVIOUS
<1>2. Max({a, b}) \in {a, b} /\ \A y \in {a, b} : Max({a, b}) >= y
  BY <1>1 DEF Max
<1> QED
  BY <1>2

(* A lift leaves tiers.                                                     *)
LEMMA LiftedType ==
  ASSUME PlannerTypes, NEW open, NEW tier \in [Units -> 0..4], NEW i \in Units
  PROVE  Lifted(tier, i, open) \in [Units -> 0..4]
<1>1. \A j \in Units : Max({tier[j], tier[i]}) \in 0..4
  BY MaxOfTwo
<1>2. [tier EXCEPT ![i] = 1] \in [Units -> 0..4]
  OBVIOUS
<1>3. \A S : [j \in Units |-> IF j \in S THEN Max({tier[j], tier[i]}) ELSE tier[j]] \in [Units -> 0..4]
  BY <1>1
<1> QED
  BY <1>2, <1>3, Zenon DEF Lifted

(* Tiers, lift by lift.                                                     *)
Lifts(u, open) ==
  u = [n \in 0..Len(units) |-> IF n = 0 THEN [i \in Units |-> Rank(i, open)] ELSE Lifted(u[n - 1], n, open)]
LEMMA TiersSteps ==
  ASSUME PlannerTypes, NEW open
  PROVE  \E w \in [0..Len(units) -> [Units -> 0..4]] :
           /\ w[0] = [i \in Units |-> Rank(i, open)]
           /\ \A n \in 1..Len(units) : w[n] = Lifted(w[n - 1], n, open)
           /\ Tiers(open) = w[Len(units)]
<1> DEFINE St == [Units -> 0..4]
           base == [i \in Units |-> Rank(i, open)]
           step == [nt \in (1..Len(units)) \X St |-> Lifted(nt[2], nt[1], open)]
<1>0. Len(units) \in Nat /\ Units = 1..Len(units)
  BY UnitsFit
<1>1. base \in St
  BY DEF Rank, Must
<1>2. step \in [(1..Len(units)) \X St -> St] /\ \A n \in 1..Len(units), t \in St : step[<<n, t>>] = Lifted(t, n, open)
  BY <1>0, LiftedType
<1> HIDE DEF step, base, St
<1>3. PICK w \in [0..Len(units) -> St] : Walks(w, Len(units), base, step)
  BY <1>0, <1>1, <1>2, WalkExists
<1>4. ASSUME NEW n \in 0..Len(units)
      PROVE  w[n] = IF n = 0 THEN base ELSE Lifted(w[n - 1], n, open)
  <2>1. w[n] = IF n = 0 THEN base ELSE step[<<n, w[n - 1]>>]
    BY <1>3 DEF Walks
  <2>2. CASE n # 0
    <3>1. n \in 1..Len(units) /\ w[n - 1] \in St
      BY <1>0, <2>2
    <3> QED
      BY <1>2, <2>1, <2>2, <3>1
  <2> QED
    BY <2>1, <2>2
<1>5. w = [n \in 0..Len(units) |-> w[n]]
  OBVIOUS
<1>6. Lifts(w, open)
  BY <1>4, <1>5 DEF Lifts, base
<1> DEFINE u == CHOOSE u : Lifts(u, open)
<1>7. Lifts(u, open)
  BY <1>6, Zenon
<1>8. Tiers(open) = u[Len(units)]
  BY Zenon DEF Tiers, Lifts
<1> HIDE DEF u
<1>9. \A n \in 0..Len(units) : u[n] = IF n = 0 THEN base ELSE Lifted(u[n - 1], n, open)
  BY <1>7, Zenon DEF Lifts, base
<1> DEFINE T == {n \in Nat : u[n] \in St}
<1>10. 0 \in T
  BY <1>0, <1>1, <1>9
<1>11. ASSUME NEW n \in 1..Len(units), n - 1 \in T PROVE n \in T
  <2>1. n # 0 /\ n \in 0..Len(units) /\ u[n - 1] \in St /\ n \in Units
    BY <1>0, <1>11
  <2>2. u[n] = Lifted(u[n - 1], n, open)
    BY <1>9, <2>1
  <2> QED
    BY <2>1, <2>2, LiftedType DEF St
<1> HIDE DEF T
<1>12. 0..Len(units) \subseteq T
  BY <1>0, <1>10, <1>11, UpTo
<1>13. u = [n \in 0..Len(units) |-> u[n]]
  BY <1>7 DEF Lifts
<1>14. u \in [0..Len(units) -> [Units -> 0..4]]
  BY <1>12, <1>13 DEF T, St
<1>15. u[0] = [i \in Units |-> Rank(i, open)]
  BY <1>0, <1>9 DEF base
<1>16. ASSUME NEW n \in 1..Len(units) PROVE u[n] = Lifted(u[n - 1], n, open)
  BY <1>0, <1>9
<1> QED
  BY <1>8, <1>14, <1>15, <1>16

(* Tiers are numbers from 0 to 4.                                           *)
LEMMA TiersType ==
  ASSUME PlannerTypes, NEW open
  PROVE  Tiers(open) \in [Units -> 0..4]
<1>1. PICK w \in [0..Len(units) -> [Units -> 0..4]] : Tiers(open) = w[Len(units)]
  BY TiersSteps
<1>2. Len(units) \in 0..Len(units)
  BY UnitsFit
<1> QED
  BY <1>1, <1>2

(* One more taken. *)
LEMMA Appended ==
  ASSUME NEW S, NEW s \in Seq(S), NEW i \in S
  PROVE  /\ Append(s, i) \in Seq(S) /\ Len(s) \in Nat /\ Len(Append(s, i)) = Len(s) + 1
         /\ \A k \in 1..Len(s) : Append(s, i)[k] = s[k]
         /\ Append(s, i)[Len(s) + 1] = i
         /\ ToSet(Append(s, i)) = ToSet(s) \cup {i}
         /\ ToSet(s) = {s[k] : k \in 1..Len(s)} /\ ToSet(s) \subseteq S
<1>1. /\ Append(s, i) \in Seq(S) /\ Len(s) \in Nat /\ Len(Append(s, i)) = Len(s) + 1
      /\ \A k \in 1..Len(s) : Append(s, i)[k] = s[k]
      /\ Append(s, i)[Len(s) + 1] = i
  OBVIOUS
<1>2. ToSet(s) = {s[k] : k \in 1..Len(s)} /\ ToSet(s) \subseteq S
  BY DEF ToSet
<1>3. ToSet(Append(s, i)) = {Append(s, i)[k] : k \in 1..(Len(s) + 1)}
  BY <1>1 DEF ToSet
<1>4. 1..(Len(s) + 1) = (1..Len(s)) \cup {Len(s) + 1}
  BY <1>1
<1>5. ToSet(Append(s, i)) = ToSet(s) \cup {i}
  BY <1>1, <1>2, <1>3, <1>4
<1> QED
  BY <1>1, <1>2, <1>5

-----------------------------------------------------------------------------
(* Releases. *)

WalkSet == [ready : SUBSET Units, taken : Seq(Units), stopped : BOOLEAN]
Asks == [(SUBSET Units) \X Units -> {"stop", "skip", "take"}]
First(open, edges) == [ready |-> {i \in open : ~\E e \in edges : e[1] = i}, taken |-> <<>>, stopped |-> FALSE]
Freed(edges, i) == {e[1] : e \in {d \in edges : d[2] = i}}

(* What popping the best, i, makes of a walk. *)
Goes(w, edges, asks, i, v) ==
  /\ i \in w.ready /\ v \in WalkSet
  /\ \/ asks[<<ToSet(w.taken), i>>] = "stop" /\ v = [w EXCEPT !.stopped = TRUE]
     \/ asks[<<ToSet(w.taken), i>>] = "skip" /\ v = [w EXCEPT !.ready = w.ready \ {i}]
     \/ /\ asks[<<ToSet(w.taken), i>>] = "take"
        /\ v = [ready |-> (w.ready \ {i}) \cup Freed(edges, i), taken |-> Append(w.taken, i), stopped |-> FALSE]

(* A pop stops, skips the best, or takes it.                                *)
LEMMA Pops ==
  ASSUME PlannerTypes, NEW edges \in SUBSET (Units \X Units), NEW tier \in [Units -> 0..4],
         NEW asks \in Asks, NEW w \in WalkSet, ~w.stopped, w.ready # {}
  PROVE  Goes(w, edges, asks, Best(w.ready, tier), Popped(w, edges, tier, asks))
<1> DEFINE i == Best(w.ready, tier)
           v == Popped(w, edges, tier, asks)
           said == asks[<<ToSet(w.taken), i>>]
<1>1. w.ready \in SUBSET Units /\ w.taken \in Seq(Units) /\ w.stopped = FALSE /\ w = [ready |-> w.ready, taken |-> w.taken, stopped |-> FALSE]
  BY DEF WalkSet
<1>2. i \in w.ready /\ i \in Units
  BY <1>1, BestReady
<1> HIDE DEF i
<1>3. ToSet(w.taken) \in SUBSET Units
  BY <1>1, <1>2, Appended
<1>4. said \in {"stop", "skip", "take"}
  BY <1>2, <1>3 DEF Asks
<1>5. Freed(edges, i) \in SUBSET Units
  BY DEF Freed
<1>6. v = CASE said = "stop" -> [w EXCEPT !.stopped = TRUE]
            [] said = "skip" -> [w EXCEPT !.ready = w.ready \ {i}]
            [] said = "take" -> [w EXCEPT !.ready = (w.ready \ {i}) \cup Freed(edges, i), !.taken = Append(w.taken, i)]
  BY <1>1 DEF Popped, Freed, i
<1> HIDE DEF v, said
<1>7. CASE said = "stop"
  <2>1. v = [w EXCEPT !.stopped = TRUE]
    BY <1>6, <1>7
  <2>2. v \in WalkSet
    BY <2>1 DEF WalkSet
  <2> QED
    BY <1>2, <1>7, <2>1, <2>2 DEF Goes, v, said, i
<1>8. CASE said = "skip"
  <2>1. v = [w EXCEPT !.ready = w.ready \ {i}]
    BY <1>6, <1>8
  <2>2. v \in WalkSet
    BY <1>1, <2>1 DEF WalkSet
  <2> QED
    BY <1>2, <1>8, <2>1, <2>2 DEF Goes, v, said, i
<1>9. CASE said = "take"
  <2>1. v = [w EXCEPT !.ready = (w.ready \ {i}) \cup Freed(edges, i), !.taken = Append(w.taken, i)]
    BY <1>6, <1>9
  <2>2. v = [ready |-> (w.ready \ {i}) \cup Freed(edges, i), taken |-> Append(w.taken, i), stopped |-> FALSE]
    BY <1>1, <2>1
  <2>3. v \in WalkSet
    BY <1>1, <1>2, <1>5, <2>2 DEF WalkSet
  <2> QED
    BY <1>2, <1>9, <2>2, <2>3 DEF Goes, v, said, i
<1> QED
  BY <1>4, <1>7, <1>8, <1>9

(* A walk stays one; one that stopped, or has none ready, stands still.     *)
LEMMA PoppedType ==
  ASSUME PlannerTypes, NEW edges \in SUBSET (Units \X Units), NEW tier \in [Units -> 0..4],
         NEW asks \in Asks, NEW w \in WalkSet
  PROVE  /\ Popped(w, edges, tier, asks) \in WalkSet
         /\ w.stopped \/ w.ready = {} => Popped(w, edges, tier, asks) = w
<1>1. CASE w.stopped \/ w.ready = {}
  BY <1>1 DEF Popped
<1>2. CASE ~(w.stopped \/ w.ready = {})
  BY <1>2, Pops DEF Goes
<1> QED
  BY <1>1, <1>2

(* A release, pop by pop.                                                   *)
Releases(u, open, edges, tier, asks) ==
  u = [n \in 0..Len(units) |-> IF n = 0 THEN First(open, edges) ELSE Popped(u[n - 1], edges, tier, asks)]
LEMMA ReleaseSteps ==
  ASSUME PlannerTypes, NEW open \in SUBSET Units, NEW edges \in SUBSET (Units \X Units),
         NEW tier \in [Units -> 0..4], NEW asks \in Asks
  PROVE  \E w \in [0..Len(units) -> WalkSet] :
           /\ w[0] = First(open, edges)
           /\ \A n \in 1..Len(units) : w[n] = Popped(w[n - 1], edges, tier, asks)
           /\ Release(open, edges, tier, asks) = w[Len(units)].taken
<1> DEFINE base == First(open, edges)
           step == [nw \in (1..Len(units)) \X WalkSet |-> Popped(nw[2], edges, tier, asks)]
<1>0. Len(units) \in Nat
  BY UnitsFit
<1>1. base \in WalkSet
  BY DEF First, WalkSet
<1>2. /\ step \in [(1..Len(units)) \X WalkSet -> WalkSet]
      /\ \A n \in 1..Len(units), x \in WalkSet : step[<<n, x>>] = Popped(x, edges, tier, asks)
  BY PoppedType
<1> HIDE DEF step, base
<1>3. PICK w \in [0..Len(units) -> WalkSet] : Walks(w, Len(units), base, step)
  BY <1>0, <1>1, <1>2, WalkExists
<1>4. ASSUME NEW n \in 0..Len(units)
      PROVE  w[n] = IF n = 0 THEN base ELSE Popped(w[n - 1], edges, tier, asks)
  <2>1. w[n] = IF n = 0 THEN base ELSE step[<<n, w[n - 1]>>]
    BY <1>3 DEF Walks
  <2>2. CASE n # 0
    <3>1. n \in 1..Len(units) /\ w[n - 1] \in WalkSet
      BY <1>0, <2>2
    <3> QED
      BY <1>2, <2>1, <2>2, <3>1
  <2> QED
    BY <2>1, <2>2
<1>5. w = [n \in 0..Len(units) |-> w[n]]
  OBVIOUS
<1>6. Releases(w, open, edges, tier, asks)
  BY <1>4, <1>5 DEF Releases, base
<1> DEFINE u == CHOOSE u : Releases(u, open, edges, tier, asks)
<1>7. Releases(u, open, edges, tier, asks)
  BY <1>6, Zenon
<1>8. Release(open, edges, tier, asks) = u[Len(units)].taken
  BY Zenon DEF Release, Releases, First
<1> HIDE DEF u
<1>9. \A n \in 0..Len(units) : u[n] = IF n = 0 THEN base ELSE Popped(u[n - 1], edges, tier, asks)
  BY <1>7, Zenon DEF Releases, base
<1> DEFINE T == {n \in Nat : u[n] \in WalkSet}
<1>10. 0 \in T
  BY <1>0, <1>1, <1>9
<1>11. ASSUME NEW n \in 1..Len(units), n - 1 \in T PROVE n \in T
  <2>1. n # 0 /\ n \in 0..Len(units) /\ u[n - 1] \in WalkSet
    BY <1>0, <1>11
  <2>2. u[n] = Popped(u[n - 1], edges, tier, asks)
    BY <1>9, <2>1
  <2> QED
    BY <2>1, <2>2, PoppedType
<1> HIDE DEF T
<1>12. 0..Len(units) \subseteq T
  BY <1>0, <1>10, <1>11, UpTo
<1>13. u = [n \in 0..Len(units) |-> u[n]]
  BY <1>7 DEF Releases
<1>14. u \in [0..Len(units) -> WalkSet]
  BY <1>12, <1>13 DEF T
<1>15. u[0] = First(open, edges) /\ \A n \in 1..Len(units) : u[n] = Popped(u[n - 1], edges, tier, asks)
  BY <1>0, <1>9 DEF base
<1> QED
  BY <1>8, <1>14, <1>15

(* The last one ahead.                                                      *)
LEMMA LastInLine ==
  ASSUME PlannerTypes, NEW a \in Units, NEW S \in SUBSET Units, \E b \in S : Behind(a, b)
  PROVE  \E b \in S : Behind(a, b) /\ \A c \in S : Behind(a, c) => c = b \/ Behind(c, b)
<1> DEFINE ahead == {b \in S : Behind(a, b)}
<1>0. Len(units) \in Nat /\ Units = 1..Len(units) /\ ahead \in SUBSET Nat /\ ahead \in SUBSET (0..Len(units)) /\ ahead # {}
  BY UnitsFit
<1>1. CASE units[a].played
  <2>1. PICK b \in ahead : \A c \in ahead : b <= c
    <3> HIDE DEF ahead
    <3> QED
      BY <1>0, Smallest
  <2>2. ASSUME NEW c \in S, Behind(a, c) PROVE c = b \/ Behind(c, b)
    <3>1. c \in Nat /\ b \in Nat /\ c \in ahead /\ Behind(a, b)
      BY <1>0, <2>2
    <3>2. b <= c /\ units[c].played
      BY <1>1, <2>1, <2>2, <3>1 DEF Behind
    <3> QED
      BY <2>2, <3>1, <3>2 DEF Behind
  <2> QED
    BY <2>1, <2>2
<1>2. CASE ~units[a].played
  <2>1. PICK b \in ahead : \A c \in ahead : c <= b
    <3> HIDE DEF ahead
    <3> QED
      BY <1>0, Largest
  <2>2. ASSUME NEW c \in S, Behind(a, c) PROVE c = b \/ Behind(c, b)
    <3>1. c \in Nat /\ b \in Nat /\ c \in ahead /\ Behind(a, b)
      BY <1>0, <2>2
    <3>2. c <= b /\ ~units[c].played
      BY <1>2, <2>1, <2>2, <3>1 DEF Behind
    <3> QED
      BY <2>2, <3>1, <3>2 DEF Behind
  <2> QED
    BY <2>1, <2>2
<1> QED
  BY <1>1, <1>2

(* Of what is left someone waits for nobody. *)
LEMMA LastLeft ==
  ASSUME PlannerTypes, NEW open, Whole(open), NEW gone \in SUBSET open, NEW i \in open \ gone
  PROVE  \E b \in open \ gone : (b = i \/ Behind(i, b)) /\ \A j \in Units : Behind(b, j) => j \in gone
<1> DEFINE S == open \ gone
<1>0. open \in SUBSET Units /\ i \in Units /\ S \in SUBSET Units
  BY DEF Whole
<1>1. \A b \in open, j \in Units : Behind(b, j) => j \in open
  BY DEF Whole, NoHoles
<1>2. CASE \A j \in S : ~Behind(i, j)
  BY <1>1, <1>2
<1>3. CASE \E j \in S : Behind(i, j)
  <2>1. PICK b \in S : Behind(i, b) /\ \A c \in S : Behind(i, c) => c = b \/ Behind(c, b)
    <3> HIDE DEF S
    <3> QED
      BY <1>0, <1>3, LastInLine
  <2>2. ASSUME NEW j \in Units, Behind(b, j), j \notin gone PROVE FALSE
    <3>1. j \in S
      BY <1>1, <2>2
    <3>2. Behind(i, j) /\ b \in Units
      BY <1>0, <2>1, <2>2, LinesUp
    <3>3. j = b \/ Behind(j, b)
      BY <2>1, <3>1, <3>2
    <3> QED
      BY <2>2, <3>2, <3>3, LinesUp
  <2> QED
    BY <2>1, <2>2
<1> QED
  BY <1>2, <1>3

(* What a walk over a whole holds, wherever it is: a unit is ready once all  *)
(* it is behind are taken, and taken after them.                             *)
InLine(w, open) ==
  /\ w.ready \subseteq open /\ ToSet(w.taken) \subseteq open
  /\ w.ready \cap ToSet(w.taken) = {}
  /\ \A i \in w.ready, j \in Units : Behind(i, j) => j \in ToSet(w.taken)
  /\ \A k \in 1..Len(w.taken), j \in Units : Behind(w.taken[k], j) => \E m \in 1..(k - 1) : w.taken[m] = j
(* When none is refused, whoever may go is ready, and one goes each time. *)
NoneLeftOut(w, open, n) ==
  /\ ~w.stopped
  /\ \A i \in open \ ToSet(w.taken) : (\A j \in Units : Behind(i, j) => j \in ToSet(w.taken)) => i \in w.ready
  /\ w.ready = {} \/ Cardinality(ToSet(w.taken)) >= n

(* What was taken in line is a whole.                                       *)
LEMMA TakenWhole ==
  ASSUME PlannerTypes, NEW open, Whole(open), NEW w \in WalkSet, InLine(w, open)
  PROVE  Whole(ToSet(w.taken))
<1>1. w.taken \in Seq(Units) /\ Len(w.taken) \in Nat /\ ToSet(w.taken) = {w.taken[k] : k \in 1..Len(w.taken)} /\ ToSet(w.taken) \subseteq Units
  <2>1. w.taken \in Seq(Units)
    BY DEF WalkSet
  <2>2. CASE Units = {}
    <3>1. w.taken = <<>>
      BY <2>1, <2>2
    <3> QED
      BY <2>1, <3>1 DEF ToSet
  <2>3. CASE Units # {}
    BY <2>1, <2>3, Appended
  <2> QED
    BY <2>2, <2>3
<1>2. ASSUME NEW a \in ToSet(w.taken), NEW b \in Units, Behind(a, b)
      PROVE  b \in ToSet(w.taken)
  <2>1. PICK k \in 1..Len(w.taken) : a = w.taken[k]
    BY <1>1
  <2>2. PICK m \in 1..(k - 1) : w.taken[m] = b
    BY <1>2, <2>1 DEF InLine
  <2> QED
    BY <1>1, <2>1, <2>2
<1> QED
  BY <1>1, <1>2 DEF Whole, NoHoles

(* A release begins in line with nobody left out.                           *)
LEMMA FirstInLine ==
  ASSUME PlannerTypes, NEW open, Whole(open)
  PROVE  /\ First(open, EdgesOf(open)) \in WalkSet
         /\ InLine(First(open, EdgesOf(open)), open) /\ NoneLeftOut(First(open, EdgesOf(open)), open, 0)
<1> DEFINE w == First(open, EdgesOf(open))
<1>0. open \subseteq Units
  BY DEF Whole
<1>1. /\ w.ready = {i \in open : ~\E e \in EdgesOf(open) : e[1] = i} /\ w.taken = <<>> /\ w.stopped = FALSE
      /\ w \in WalkSet /\ ToSet(w.taken) = {} /\ Len(w.taken) = 0
  BY <1>0 DEF First, WalkSet, ToSet
<1> HIDE DEF w
<1>2. ASSUME NEW i \in w.ready, NEW j \in Units, Behind(i, j) PROVE FALSE
  <2>1. PICK b \in open : <<i, b>> \in EdgesOf(open)
    BY <1>0, <1>1, <1>2, EdgeAhead
  <2>2. <<i, b>>[1] = i
    OBVIOUS
  <2> QED
    BY <1>1, <2>1, <2>2
<1>3. ASSUME NEW i \in open, \A j \in Units : ~Behind(i, j) PROVE i \in w.ready
  <2>1. ASSUME NEW e \in EdgesOf(open), e[1] = i PROVE FALSE
    BY <1>0, <1>3, <2>1, EdgeOnly
  <2> QED
    BY <1>1, <2>1
<1>4. InLine(w, open)
  BY <1>1, <1>2 DEF InLine
<1>5. Cardinality(ToSet(w.taken)) = 0
  BY <1>1, FS_EmptySet
<1>6. NoneLeftOut(w, open, 0)
  <2>1. Cardinality(ToSet(w.taken)) >= 0
    BY <1>5
  <2>2. \A i \in open \ ToSet(w.taken) : (\A j \in Units : Behind(i, j) => j \in ToSet(w.taken)) => i \in w.ready
    BY <1>1, <1>3
  <2> QED
    BY <1>1, <2>1, <2>2 DEF NoneLeftOut
<1> QED
  BY <1>1, <1>4, <1>6 DEF w

(* One more taken keeps the line. *)
LEMMA TakenInLine ==
  ASSUME PlannerTypes, NEW open, Whole(open), NEW w \in WalkSet, InLine(w, open), NEW i \in w.ready, NEW v \in WalkSet,
         v = [ready |-> (w.ready \ {i}) \cup Freed(EdgesOf(open), i), taken |-> Append(w.taken, i), stopped |-> FALSE]
  PROVE  /\ InLine(v, open)
         /\ \A n \in Nat : NoneLeftOut(w, open, n) => NoneLeftOut(v, open, n + 1)
<1> DEFINE freed == Freed(EdgesOf(open), i)
           was == ToSet(w.taken)
           is == ToSet(v.taken)
<1>0. /\ open \subseteq Units /\ i \in open /\ i \in Units /\ i \notin was /\ w.taken \in Seq(Units) /\ w.ready \subseteq open /\ was \subseteq open
      /\ \A k \in w.ready, j \in Units : Behind(k, j) => j \in was
  BY DEF Whole, InLine, WalkSet
<1>1. v.ready = (w.ready \ {i}) \cup freed /\ v.taken = Append(w.taken, i) /\ v.stopped = FALSE
  OBVIOUS
<1>2. /\ Len(w.taken) \in Nat /\ Len(v.taken) = Len(w.taken) + 1
      /\ \A k \in 1..Len(w.taken) : v.taken[k] = w.taken[k]
      /\ v.taken[Len(w.taken) + 1] = i
      /\ is = was \cup {i}
      /\ was = {w.taken[k] : k \in 1..Len(w.taken)}
  BY <1>0, <1>1, Appended
<1> HIDE DEF was, is
<1>3. ASSUME NEW a \in was, NEW j \in Units, Behind(a, j) PROVE j \in was
  BY <1>0, <1>3, TakenWhole DEF Whole, NoHoles, was
<1>4. ASSUME NEW a \in freed
      PROVE  a \in open /\ Behind(a, i) /\ ~\E k \in Units : Behind(a, k) /\ Behind(k, i)
  <2>1. PICK e \in EdgesOf(open) : e[2] = i /\ a = e[1]
    BY DEF Freed
  <2> QED
    BY <2>1, EdgeOnly
<1> HIDE DEF freed
<1>5. v.ready \subseteq open /\ is \subseteq open
  BY <1>0, <1>1, <1>2, <1>4
<1>6. v.ready \cap is = {}
  <2>1. ASSUME NEW a \in freed PROVE a \notin is
    <3>1. a \notin was
      BY <1>0, <1>3, <1>4, <2>1
    <3>2. a # i
      BY <1>0, <1>4, <2>1, LinesUp
    <3> QED
      BY <1>2, <3>1, <3>2
  <2>2. ASSUME NEW a \in w.ready \ {i} PROVE a \notin is
    BY <1>2 DEF InLine, was
  <2> QED
    BY <1>1, <2>1, <2>2
<1>7. ASSUME NEW a \in v.ready, NEW j \in Units, Behind(a, j) PROVE j \in is
  <2>1. CASE a \in w.ready
    BY <1>0, <1>2, <1>7, <2>1
  <2>2. CASE a \in freed
    <3>1. a \in Units /\ Behind(a, i) /\ ~(Behind(a, j) /\ Behind(j, i))
      BY <1>0, <1>4, <2>2
    <3>2. j = i \/ Behind(i, j)
      BY <1>0, <1>7, <3>1, LinesUp
    <3> QED
      BY <1>0, <1>2, <3>2
  <2> QED
    BY <1>1, <2>1, <2>2
<1>8. ASSUME NEW k \in 1..Len(v.taken), NEW j \in Units, Behind(v.taken[k], j)
      PROVE  \E m \in 1..(k - 1) : v.taken[m] = j
  <2>1. CASE k \in 1..Len(w.taken)
    <3>1. PICK m \in 1..(k - 1) : w.taken[m] = j
      BY <1>2, <1>8, <2>1 DEF InLine
    <3>2. m \in 1..Len(w.taken)
      BY <1>2, <2>1
    <3> QED
      BY <1>2, <3>1, <3>2
  <2>2. CASE k = Len(w.taken) + 1
    <3>1. j \in was
      BY <1>0, <1>2, <1>8, <2>2
    <3>2. PICK m \in 1..Len(w.taken) : w.taken[m] = j
      BY <1>2, <3>1
    <3>3. m \in 1..(k - 1)
      BY <1>2, <2>2
    <3> QED
      BY <1>2, <3>2, <3>3
  <2> QED
    BY <1>2, <2>1, <2>2
<1>9. InLine(v, open)
  BY <1>5, <1>6, <1>7, <1>8 DEF InLine, is
<1>10. ASSUME NEW n \in Nat, NoneLeftOut(w, open, n) PROVE NoneLeftOut(v, open, n + 1)
  <2>1. ASSUME NEW a \in open \ is, \A j \in Units : Behind(a, j) => j \in is
        PROVE  a \in v.ready
    <3>1. CASE Behind(a, i)
      <4>1. ASSUME NEW k \in Units, Behind(a, k), Behind(k, i) PROVE FALSE
        <5>1. k # i
          BY <1>0, <4>1, LinesUp
        <5>2. k \in was
          BY <1>2, <2>1, <4>1, <5>1
        <5> QED
          BY <1>0, <1>3, <4>1, <5>2
      <4>2. <<a, i>> \in EdgesOf(open)
        BY <1>0, <2>1, <3>1, <4>1 DEF EdgesOf
      <4>3. a \in freed
        BY <4>2 DEF freed, Freed
      <4> QED
        BY <1>1, <4>3
    <3>2. CASE ~Behind(a, i)
      <4>1. \A j \in Units : Behind(a, j) => j \in was
        BY <1>2, <2>1, <3>2
      <4>2. a \in open \ was /\ a # i
        BY <1>2, <2>1
      <4>3. a \in w.ready
        BY <1>10, <4>1, <4>2 DEF NoneLeftOut, was
      <4> QED
        BY <1>1, <4>2, <4>3
    <3> QED
      BY <3>1, <3>2
  <2>2. Cardinality(is) >= n + 1
    <3>1. IsFiniteSet(was)
      <4>1. IsFiniteSet(Units) /\ was \subseteq Units
        BY <1>0, UnitsFit
      <4> QED
        BY <4>1, FS_Subset
    <3>2. Cardinality(was) >= n /\ Cardinality(was) \in Nat
      <4>1. w.ready # {}
        OBVIOUS
      <4>2. Cardinality(was) >= n
        BY <1>10, <4>1 DEF NoneLeftOut, was
      <4> QED
        BY <3>1, <4>2, FS_CardinalityType
    <3>3. Cardinality(is) = Cardinality(was) + 1
      BY <1>0, <1>2, <3>1, FS_AddElement
    <3> QED
      BY <3>2, <3>3
  <2> QED
    BY <1>1, <2>1, <2>2 DEF NoneLeftOut, is
<1> QED
  BY <1>9, <1>10

(* A pop keeps the line.                                                    *)
LEMMA PoppedInLine ==
  ASSUME PlannerTypes, NEW open, Whole(open), NEW tier \in [Units -> 0..4], NEW asks \in Asks,
         NEW w \in WalkSet, InLine(w, open)
  PROVE  InLine(Popped(w, EdgesOf(open), tier, asks), open)
<1> DEFINE i == Best(w.ready, tier)
           v == Popped(w, EdgesOf(open), tier, asks)
<1>0. EdgesOf(open) \in SUBSET (Units \X Units)
  BY DEF EdgesOf, Whole
<1>1. CASE w.stopped \/ w.ready = {}
  BY <1>0, <1>1, PoppedType
<1>2. CASE ~w.stopped /\ w.ready # {}
  <2>1. /\ i \in w.ready /\ v \in WalkSet
        /\ \/ v = [w EXCEPT !.stopped = TRUE]
           \/ v = [w EXCEPT !.ready = w.ready \ {i}]
           \/ v = [ready |-> (w.ready \ {i}) \cup Freed(EdgesOf(open), i), taken |-> Append(w.taken, i), stopped |-> FALSE]
    <3>1. Goes(w, EdgesOf(open), asks, i, v)
      BY <1>0, <1>2, Pops
    <3> HIDE DEF i, v
    <3> QED
      BY <3>1 DEF Goes
  <2> HIDE DEF i, v
  <2>2. w = [ready |-> w.ready, taken |-> w.taken, stopped |-> w.stopped]
    BY DEF WalkSet
  <2>3. CASE v = [w EXCEPT !.stopped = TRUE]
    <3>1. v.ready = w.ready /\ v.taken = w.taken
      BY <2>2, <2>3
    <3> QED
      BY <3>1 DEF InLine, v
  <2>4. CASE v = [w EXCEPT !.ready = w.ready \ {i}]
    <3>1. v.ready = w.ready \ {i} /\ v.taken = w.taken
      BY <2>2, <2>4
    <3>2. InLine(v, open)
      BY <3>1 DEF InLine
    <3> QED
      BY <3>2 DEF v
  <2>5. CASE v = [ready |-> (w.ready \ {i}) \cup Freed(EdgesOf(open), i), taken |-> Append(w.taken, i), stopped |-> FALSE]
    <3>1. InLine(v, open)
      BY <2>1, <2>5, TakenInLine
    <3> QED
      BY <3>1 DEF v
  <2> QED
    BY <2>1, <2>3, <2>4, <2>5
<1> QED
  BY <1>1, <1>2

(* A pop that may not refuse leaves nobody out.                             *)
LEMMA PoppedAll ==
  ASSUME PlannerTypes, NEW open, Whole(open), NEW tier \in [Units -> 0..4],
         NEW w \in WalkSet, InLine(w, open), NEW n \in Nat, NoneLeftOut(w, open, n)
  PROVE  NoneLeftOut(Popped(w, EdgesOf(open), tier, AllTaken), open, n + 1)
<1> DEFINE i == Best(w.ready, tier)
           v == Popped(w, EdgesOf(open), tier, AllTaken)
<1>0. EdgesOf(open) \in SUBSET (Units \X Units)
  BY DEF EdgesOf, Whole
<1>1. AllTaken \in Asks
  BY DEF AllTaken, Asks
<1>2. ~w.stopped
  BY DEF NoneLeftOut
<1>3. CASE w.ready = {}
  <2>1. v = w
    BY <1>0, <1>1, <1>3, PoppedType
  <2> QED
    BY <1>3, <2>1 DEF NoneLeftOut
<1>4. CASE w.ready # {}
  <2>1. /\ i \in w.ready /\ v \in WalkSet
        /\ \/ AllTaken[<<ToSet(w.taken), i>>] = "stop" /\ v = [w EXCEPT !.stopped = TRUE]
           \/ AllTaken[<<ToSet(w.taken), i>>] = "skip" /\ v = [w EXCEPT !.ready = w.ready \ {i}]
           \/ /\ AllTaken[<<ToSet(w.taken), i>>] = "take"
              /\ v = [ready |-> (w.ready \ {i}) \cup Freed(EdgesOf(open), i), taken |-> Append(w.taken, i), stopped |-> FALSE]
    <3>1. Goes(w, EdgesOf(open), AllTaken, i, v)
      BY <1>0, <1>1, <1>2, <1>4, Pops
    <3> HIDE DEF i, v
    <3> QED
      BY <3>1 DEF Goes
  <2> HIDE DEF i, v
  <2>2. AllTaken[<<ToSet(w.taken), i>>] = "take"
    <3>1. i \in Units /\ ToSet(w.taken) \in SUBSET Units
      BY <2>1 DEF InLine, Whole
    <3> QED
      BY <3>1 DEF AllTaken
  <2>3. v = [ready |-> (w.ready \ {i}) \cup Freed(EdgesOf(open), i), taken |-> Append(w.taken, i), stopped |-> FALSE]
    BY <2>1, <2>2
  <2>4. NoneLeftOut(v, open, n + 1)
    BY <2>1, <2>3, TakenInLine
  <2> QED
    BY <2>4 DEF v
<1> QED
  BY <1>3, <1>4

(* What a release takes is a whole, in line. *)
LEMMA Released ==
  ASSUME PlannerTypes, NEW open, Whole(open), NEW tier \in [Units -> 0..4], NEW asks \in Asks
  PROVE  LET order == Release(open, EdgesOf(open), tier, asks)
         IN  /\ order \in Seq(Units) /\ ToSet(order) \subseteq open /\ Whole(ToSet(order))
             /\ \A k \in 1..Len(order), j \in Units : Behind(order[k], j) => \E m \in 1..(k - 1) : order[m] = j
<1> DEFINE order == Release(open, EdgesOf(open), tier, asks)
<1>0. EdgesOf(open) \in SUBSET (Units \X Units) /\ open \in SUBSET Units /\ Len(units) \in Nat
  BY UnitsFit DEF EdgesOf, Whole
<1>1. PICK w \in [0..Len(units) -> WalkSet] :
        /\ w[0] = First(open, EdgesOf(open))
        /\ \A n \in 1..Len(units) : w[n] = Popped(w[n - 1], EdgesOf(open), tier, asks)
        /\ order = w[Len(units)].taken
  BY <1>0, ReleaseSteps
<1> HIDE DEF order
<1> DEFINE T == {n \in 0..Len(units) : InLine(w[n], open)}
<1>2. 0 \in T
  BY <1>0, <1>1, FirstInLine
<1>3. ASSUME NEW n \in 1..Len(units), n - 1 \in T PROVE n \in T
  <2>1. n - 1 \in 0..Len(units) /\ n \in 0..Len(units) /\ w[n - 1] \in WalkSet /\ InLine(w[n - 1], open)
    BY <1>0, <1>3
  <2> QED
    BY <1>1, <2>1, PoppedInLine
<1> HIDE DEF T
<1>4. Len(units) \in T
  <2>1. 0..Len(units) \subseteq T
    BY <1>0, <1>2, <1>3, UpTo
  <2> QED
    BY <1>0, <2>1
<1>5. w[Len(units)] \in WalkSet /\ InLine(w[Len(units)], open)
  BY <1>0, <1>4 DEF T
<1>6. Whole(ToSet(order))
  BY <1>1, <1>5, TakenWhole
<1>7. order \in Seq(Units)
  BY <1>1, <1>5 DEF WalkSet
<1> QED
  BY <1>1, <1>5, <1>6, <1>7 DEF InLine, order

(* A release that refuses none takes all.                                   *)
LEMMA AllReleased ==
  ASSUME PlannerTypes, NEW open, Whole(open), NEW tier \in [Units -> 0..4]
  PROVE  ToSet(Release(open, EdgesOf(open), tier, AllTaken)) = open
<1> DEFINE order == Release(open, EdgesOf(open), tier, AllTaken)
<1>0. EdgesOf(open) \in SUBSET (Units \X Units) /\ open \in SUBSET Units /\ Len(units) \in Nat /\ AllTaken \in Asks
  BY UnitsFit DEF EdgesOf, Whole, AllTaken, Asks
<1>1. PICK w \in [0..Len(units) -> WalkSet] :
        /\ w[0] = First(open, EdgesOf(open))
        /\ \A n \in 1..Len(units) : w[n] = Popped(w[n - 1], EdgesOf(open), tier, AllTaken)
        /\ order = w[Len(units)].taken
  BY <1>0, ReleaseSteps
<1> HIDE DEF order
<1> DEFINE T == {n \in 0..Len(units) : InLine(w[n], open) /\ NoneLeftOut(w[n], open, n)}
<1>2. 0 \in T
  BY <1>0, <1>1, FirstInLine
<1>3. ASSUME NEW n \in 1..Len(units), n - 1 \in T PROVE n \in T
  <2>1. /\ n - 1 \in 0..Len(units) /\ n - 1 \in Nat /\ n \in 0..Len(units) /\ w[n - 1] \in WalkSet
        /\ InLine(w[n - 1], open) /\ NoneLeftOut(w[n - 1], open, n - 1)
    BY <1>0, <1>3
  <2>2. InLine(w[n], open)
    BY <1>0, <1>1, <2>1, PoppedInLine
  <2>3. NoneLeftOut(w[n], open, (n - 1) + 1)
    BY <1>1, <2>1, PoppedAll
  <2>4. (n - 1) + 1 = n
    OBVIOUS
  <2> QED
    BY <2>1, <2>2, <2>3, <2>4
<1> HIDE DEF T
<1>4. Len(units) \in T
  <2>1. 0..Len(units) \subseteq T
    BY <1>0, <1>2, <1>3, UpTo
  <2> QED
    BY <1>0, <2>1
<1> DEFINE end == w[Len(units)]
           taken == ToSet(end.taken)
<1>5. end \in WalkSet /\ InLine(end, open) /\ NoneLeftOut(end, open, Len(units)) /\ order = end.taken
  BY <1>0, <1>1, <1>4 DEF T
<1> HIDE DEF end
<1>6. taken \subseteq open
  BY <1>5 DEF InLine
<1>7. CASE end.ready = {}
  <2> SUFFICES ASSUME NEW a \in open \ taken PROVE FALSE
    BY <1>5, <1>6 DEF order
  <2>1. PICK b \in open \ taken : \A j \in Units : Behind(b, j) => j \in taken
    <3> HIDE DEF taken
    <3> QED
      BY <1>6, LastLeft
  <2> QED
    BY <1>5, <1>7, <2>1 DEF NoneLeftOut
<1>8. CASE end.ready # {}
  <2>1. Cardinality(taken) >= Len(units)
    BY <1>5, <1>8 DEF NoneLeftOut
  <2>2. IsFiniteSet(Units) /\ Cardinality(Units) = Len(units) /\ taken \in SUBSET Units
    <3>1. Cardinality(1..Len(units)) = Len(units)
      <4>1. 1 \in Int /\ Len(units) \in Int
        BY <1>0
      <4>2. Cardinality(1..Len(units)) = IF 1 > Len(units) THEN 0 ELSE Len(units) - 1 + 1
        BY <4>1, FS_Interval
      <4> QED
        BY <1>0, <4>2
    <3> QED
      BY <1>0, <1>6, <3>1, UnitsFit
  <2>3. taken = Units
    <3> HIDE DEF taken
    <3>1. Cardinality(taken) <= Cardinality(Units) /\ Cardinality(taken) \in Nat /\ (taken # Units => Cardinality(taken) < Cardinality(Units))
      BY <2>2, FS_Subset, FS_CardinalityType
    <3> QED
      BY <1>0, <2>1, <2>2, <3>1
  <2> QED
    BY <1>0, <1>5, <1>6, <2>3 DEF order
<1> QED
  BY <1>7, <1>8

-----------------------------------------------------------------------------
(* The order of a plan, and what of it may go. *)

(* The plan's order takes all of it, in line. *)
LEMMA Ordered ==
  ASSUME PlannerTypes, NEW chosen, Whole(chosen)
  PROVE  LET order == ReleaseOrder(chosen)
         IN  /\ order \in Seq(Units) /\ Len(order) \in Nat /\ ToSet(order) = chosen
             /\ \A k \in 1..Len(order) : order[k] \in chosen
             /\ \A k \in 1..Len(order), j \in Units : Behind(order[k], j) => \E m \in 1..(k - 1) : order[m] = j
<1> DEFINE order == ReleaseOrder(chosen)
<1>1. order = Release(chosen, EdgesOf(chosen), Tiers(chosen), AllTaken)
  BY WholeClosing, Zenon DEF ReleaseOrder
<1>2. Tiers(chosen) \in [Units -> 0..4] /\ AllTaken \in Asks
  BY TiersType DEF AllTaken, Asks
<1>3. ToSet(order) = chosen
  BY <1>1, <1>2, AllReleased
<1>4. order \in Seq(Units) /\ \A k \in 1..Len(order), j \in Units : Behind(order[k], j) => \E m \in 1..(k - 1) : order[m] = j
  BY <1>1, <1>2, Released
<1> HIDE DEF order
<1>5. Len(order) \in Nat
  BY <1>4
<1>6. \A k \in 1..Len(order) : order[k] \in chosen
  BY <1>3, <1>4 DEF ToSet
<1> QED
  BY <1>3, <1>4, <1>5, <1>6 DEF order

(* However early it is cut short. *)
LEMMA CutShort ==
  ASSUME PlannerTypes, NEW chosen, Whole(chosen), NEW n \in 0..Len(ReleaseOrder(chosen))
  PROVE  NoHoles({ReleaseOrder(chosen)[k] : k \in 1..n}, Units)
<1> DEFINE order == ReleaseOrder(chosen)
           gone == {order[k] : k \in 1..n}
<1>1. Len(order) \in Nat /\ \A k \in 1..Len(order), j \in Units : Behind(order[k], j) => \E m \in 1..(k - 1) : order[m] = j
  BY Ordered
<1>2. n \in 0..Len(order)
  OBVIOUS
<1> HIDE DEF order
<1>3. ASSUME NEW a \in gone, NEW b \in Units, Behind(a, b)
      PROVE  b \in gone
  <2>1. PICK k \in 1..n : a = order[k]
    OBVIOUS
  <2>2. PICK m \in 1..(k - 1) : order[m] = b
    BY <1>1, <1>2, <1>3, <2>1
  <2>3. m \in 1..n
    BY <1>1, <1>2, <2>1, <2>2
  <2> QED
    BY <2>2, <2>3
<1> QED
  BY <1>3 DEF NoHoles, order

(* What is let go adds no hole to what was handed over. *)
LEMMA LetGoFits ==
  ASSUME PlannerTypes, NEW chosen, Whole(chosen), NEW handed, handed = {i \in chosen : units[i].handed},
         NEW eligible, NEW out \in SUBSET chosen, NoHoles(handed \cup out, chosen), NEW i \in chosen
  PROVE  LetGo(out, i, chosen, eligible) \in SUBSET chosen /\ NoHoles(handed \cup LetGo(out, i, chosen, eligible), chosen)
<1>1. CASE ~(i \in eligible /\ \A a \in After(chosen, i) : a \in out \/ units[a].handed)
  BY <1>1 DEF LetGo
<1>2. CASE i \in eligible /\ \A a \in After(chosen, i) : a \in out \/ units[a].handed
  <2>1. LetGo(out, i, chosen, eligible) = out \cup {i}
    BY <1>2 DEF LetGo
  <2>2. ASSUME NEW b \in chosen, Behind(i, b) PROVE b \in handed \cup out
    <3>0. i \in Units /\ b \in Units
      BY DEF Whole
    <3>1. PICK e \in chosen : <<i, e>> \in EdgesOf(chosen) /\ (b = e \/ Behind(e, b))
      BY <2>2, <3>0, EdgeAhead
    <3>2. e \in After(chosen, i)
      <4>1. <<i, e>>[1] = i /\ <<i, e>>[2] = e
        OBVIOUS
      <4> QED
        BY <3>1, <4>1 DEF After
    <3>3. e \in handed \cup out
      BY <1>2, <3>2
    <3> QED
      BY <2>2, <3>1, <3>3 DEF NoHoles
  <2>3. NoHoles(handed \cup (out \cup {i}), chosen)
    BY <2>2 DEF NoHoles
  <2> QED
    BY <2>1, <2>3
<1> QED
  BY <1>1, <1>2

(* What may go now adds no hole, pop by pop.                                *)
LetOut(u, order, chosen, eligible) ==
  u = [n \in 0..Len(order) |-> IF n = 0 THEN {} ELSE LetGo(u[n - 1], order[n], chosen, eligible)]
LEMMA ReleasableFits ==
  ASSUME PlannerTypes, NEW chosen, Whole(chosen), NEW handed, handed = {i \in chosen : units[i].handed},
         NEW eligible, NoHoles(handed, chosen)
  PROVE  NoHoles(handed \cup Releasable(chosen, eligible), chosen)
<1> DEFINE order == ReleaseOrder(chosen)
           St == SUBSET chosen
           step == [nv \in (1..Len(order)) \X St |-> LetGo(nv[2], order[nv[1]], chosen, eligible)]
<1>0. Len(order) \in Nat /\ \A k \in 1..Len(order) : order[k] \in chosen
  BY Ordered
<1>r. Releasable(chosen, eligible) = (CHOOSE u : LetOut(u, order, chosen, eligible))[Len(order)]
  BY Zenon DEF Releasable, LetOut
<1> HIDE DEF order
<1>1. ASSUME NEW n \in 1..Len(order), NEW v \in St
      PROVE  LetGo(v, order[n], chosen, eligible) \in St
  BY <1>0 DEF LetGo
<1>2. /\ step \in [(1..Len(order)) \X St -> St]
      /\ \A n \in 1..Len(order), v \in St : step[<<n, v>>] = LetGo(v, order[n], chosen, eligible)
  BY <1>1
<1> HIDE DEF step, St
<1>3. PICK w \in [0..Len(order) -> St] : Walks(w, Len(order), {}, step)
  <2>1. {} \in St
    BY DEF St
  <2> QED
    BY <1>0, <1>2, <2>1, WalkExists
<1>4. ASSUME NEW n \in 0..Len(order)
      PROVE  w[n] = IF n = 0 THEN {} ELSE LetGo(w[n - 1], order[n], chosen, eligible)
  <2>1. w[n] = IF n = 0 THEN {} ELSE step[<<n, w[n - 1]>>]
    BY <1>3 DEF Walks
  <2>2. CASE n # 0
    <3>1. n \in 1..Len(order) /\ w[n - 1] \in St
      BY <1>0, <2>2
    <3> QED
      BY <1>2, <2>1, <2>2, <3>1
  <2> QED
    BY <2>1, <2>2
<1>5. w = [n \in 0..Len(order) |-> w[n]]
  OBVIOUS
<1>6. LetOut(w, order, chosen, eligible)
  BY <1>4, <1>5 DEF LetOut
<1> DEFINE u == CHOOSE u : LetOut(u, order, chosen, eligible)
<1>7. LetOut(u, order, chosen, eligible)
  BY <1>6, Zenon
<1> HIDE DEF u
<1>8. \A n \in 0..Len(order) : u[n] = IF n = 0 THEN {} ELSE LetGo(u[n - 1], order[n], chosen, eligible)
  BY <1>7, Zenon DEF LetOut
<1> DEFINE T == {n \in Nat : u[n] \in SUBSET chosen /\ NoHoles(handed \cup u[n], chosen)}
<1>9. 0 \in T
  <2>1. u[0] = {} /\ handed \cup {} = handed
    BY <1>0, <1>8
  <2> QED
    BY <2>1
<1>10. ASSUME NEW n \in 1..Len(order), n - 1 \in T PROVE n \in T
  <2>1. n # 0 /\ n \in Nat /\ n \in 0..Len(order) /\ u[n - 1] \in SUBSET chosen /\ NoHoles(handed \cup u[n - 1], chosen)
    BY <1>0, <1>10
  <2>2. u[n] = LetGo(u[n - 1], order[n], chosen, eligible) /\ order[n] \in chosen
    BY <1>0, <1>8, <2>1
  <2>3. PICK out \in SUBSET chosen : out = u[n - 1]
    BY <2>1
  <2>4. PICK i \in chosen : i = order[n]
    BY <2>2
  <2>5. NoHoles(handed \cup out, chosen)
    BY <2>1, <2>3
  <2>6. LetGo(out, i, chosen, eligible) \in SUBSET chosen /\ NoHoles(handed \cup LetGo(out, i, chosen, eligible), chosen)
    BY <2>5, LetGoFits
  <2> QED
    BY <2>1, <2>2, <2>3, <2>4, <2>6
<1> HIDE DEF T
<1>11. 0..Len(order) \subseteq T
  BY <1>0, <1>9, <1>10, UpTo
<1>12. Len(order) \in T
  BY <1>0, <1>11
<1> QED
  BY <1>12, <1>r DEF T, u

-----------------------------------------------------------------------------
(* What may move. *)

(* What may be chosen is a whole.                                           *)
LEMMA OpenWhole ==
  ASSUME PlannerTypes
  PROVE  Whole(Open) /\ Open \in SUBSET Units /\ IsFiniteSet(Open)
<1> DEFINE S == {i \in Units : units[i].selectable /\ units[i].size > 0 /\ target[units[i].volume] > 0}
<1>1. Whole(Closing(S)) /\ Closing(S) \subseteq S
  BY ClosingWhole
<1>2. Open = Closing(S)
  BY DEF Open
<1>3. Whole(Open) /\ Open \in SUBSET Units
  BY <1>1, <1>2
<1> QED
  BY <1>3, UnitsFit, FS_Subset

(* A group is a movie or a whole show. *)
LEMMA GroupsFit ==
  ASSUME PlannerTypes
  PROVE  /\ IsFiniteSet(Groups)
         /\ \A g \in Groups : g # {} /\ g \in SUBSET Units /\ Min(g) \in g
         /\ \A g \in Groups : \A a \in g, b \in Units : Behind(a, b) \/ Behind(b, a) => b \in g
         /\ \A g, h \in Groups : g \cap h # {} => g = h
<1> DEFINE class(j) == {i \in Units : i = j \/ (units[j].show # Nothing /\ units[i].show = units[j].show)}
<1>1. Groups = {class(j) : j \in Units}
  BY DEF Groups
<1>2. IsFiniteSet(Units) /\ Units \in SUBSET Nat
  BY UnitsFit
<1>3. IsFiniteSet(Groups)
  <2> DEFINE f == [j \in Units |-> class(j)]
  <2>1. f \in [Units -> Groups] /\ \A g \in Groups : \E j \in Units : f[j] = g
    BY <1>1
  <2> HIDE DEF f
  <2>2. f \in Surjection(Units, Groups)
    BY <2>1 DEF Surjection
  <2> QED
    BY <1>2, <2>2, FS_Surjection
<1>4. ASSUME NEW j \in Units
      PROVE  j \in class(j) /\ class(j) \in SUBSET Units
  OBVIOUS
<1>5. ASSUME NEW j \in Units, NEW i \in class(j)
      PROVE  class(i) = class(j)
  BY <1>5
<1>6. ASSUME NEW j \in Units, NEW a \in class(j), NEW b \in Units, Behind(a, b) \/ Behind(b, a)
      PROVE  b \in class(j)
  BY <1>6 DEF Behind
<1> HIDE DEF class
<1>7. ASSUME NEW g \in Groups
      PROVE  g # {} /\ g \in SUBSET Units /\ Min(g) \in g
  <2>1. g # {} /\ g \in SUBSET Units
    BY <1>1, <1>4
  <2>2. PICK n \in g : \A m \in g : n <= m
    BY <1>2, <2>1, Smallest
  <2>3. Min(g) \in g
    BY <2>2 DEF Min
  <2> QED
    BY <2>1, <2>3
<1>8. ASSUME NEW g \in Groups, NEW a \in g, NEW b \in Units, Behind(a, b) \/ Behind(b, a)
      PROVE  b \in g
  BY <1>1, <1>6, <1>8
<1>9. ASSUME NEW g \in Groups, NEW h \in Groups, g \cap h # {}
      PROVE  g = h
  <2>1. PICK j \in Units : g = class(j)
    BY <1>1
  <2>2. PICK k \in Units : h = class(k)
    BY <1>1
  <2>3. PICK i : i \in class(j) /\ i \in class(k)
    BY <1>9, <2>1, <2>2
  <2> QED
    BY <1>5, <2>1, <2>2, <2>3
<1> QED
  BY <1>3, <1>7, <1>8, <1>9

(* The densest of the groups left is one of them.                           *)
LEMMA DensestIn ==
  ASSUME PlannerTypes, NEW left \in SUBSET Usable, left # {}
  PROVE  Densest(left) \in left
<1> DEFINE p == [g \in left |-> WeightOf(g)]
           q == [g \in left |-> Quanta(g)]
           rank == [g \in left |-> Min(g)]
<1>1. Usable \subseteq Groups /\ \A g \in Usable : Quanta(g) > 0
  BY DEF Usable
<1>2. IsFiniteSet(left)
  BY <1>1, GroupsFit, FS_Subset
<1>3. ASSUME NEW g \in left
      PROVE  WeightOf(g) \in Nat /\ Quanta(g) \in Nat \ {0} /\ Min(g) \in Nat /\ Min(g) \in g /\ g \in Groups
  <2>1. g \in Groups /\ Min(g) \in g /\ g \in SUBSET Units /\ Quanta(g) > 0
    BY <1>1, GroupsFit
  <2>2. WeightOf(g) \in Nat /\ Quanta(g) \in Nat
    BY TotalNat
  <2>3. Min(g) \in Nat
    BY <2>1, UnitsFit
  <2> QED
    BY <2>1, <2>2, <2>3
<1>4. p \in [left -> Nat] /\ q \in [left -> Nat \ {0}] /\ rank \in [left -> Nat]
  BY <1>3
<1>5. ASSUME NEW g \in left, NEW h \in left, rank[g] = rank[h] PROVE g = h
  <2>1. Min(g) = Min(h) /\ Min(g) \in g /\ Min(h) \in h /\ g \in Groups /\ h \in Groups
    BY <1>3, <1>5
  <2> QED
    BY <2>1, GroupsFit
<1>6. \A g \in left : p[g] = WeightOf(g) /\ q[g] = Quanta(g) /\ rank[g] = Min(g)
  OBVIOUS
<1> HIDE DEF p, q, rank
<1>7. PICK g \in left : g \in Greatest(left, p, q, rank)
  BY <1>2, <1>4, <1>5, GreatestExists
<1>8. ASSUME NEW h \in left \ {g}
      PROVE  \/ WeightOf(g) * Quanta(h) > WeightOf(h) * Quanta(g)
             \/ WeightOf(g) * Quanta(h) = WeightOf(h) * Quanta(g) /\ Min(g) < Min(h)
  <2>1. p[h] * q[g] < p[g] * q[h] \/ (p[h] * q[g] = p[g] * q[h] /\ rank[g] < rank[h])
    BY <1>7 DEF Greatest
  <2>2. WeightOf(h) * Quanta(g) < WeightOf(g) * Quanta(h) \/ (WeightOf(h) * Quanta(g) = WeightOf(g) * Quanta(h) /\ Min(g) < Min(h))
    BY <1>6, <2>1
  <2>3. WeightOf(h) * Quanta(g) \in Int /\ WeightOf(g) * Quanta(h) \in Int
    BY <1>3
  <2> HIDE DEF p
  <2> QED
    BY <2>2, <2>3
<1> QED
  BY <1>8 DEF Densest

(* An offer takes from the usable groups.                                   *)
Offers == [left : SUBSET Usable, moved : SUBSET Usable]
LEMMA OfferedType ==
  ASSUME PlannerTypes, NEW w \in Offers, NEW open, NEW need
  PROVE  Offered(w, open, need) \in Offers
<1>1. CASE w.left = {}
  BY <1>1 DEF Offered
<1>2. CASE w.left # {}
  <2>1. w.left \in SUBSET Usable /\ w.moved \in SUBSET Usable
    BY DEF Offers
  <2> DEFINE g == Densest(w.left)
  <2>2. g \in w.left
    BY <1>2, <2>1, DensestIn
  <2>3. Offered(w, open, need) = [left |-> w.left \ {g}, moved |-> IF FitsToo(w.moved, g, open, need) THEN w.moved \cup {g} ELSE w.moved]
    BY <1>2 DEF Offered
  <2> HIDE DEF g
  <2> QED
    BY <2>1, <2>2, <2>3 DEF Offers
<1> QED
  BY <1>1, <1>2

(* The greedy moves, offer by offer.                                        *)
Offering(u, open, need) ==
  u = [n \in 0..Len(units) |-> IF n = 0 THEN [left |-> {g \in Usable : WeightOf(g) > CostOf(g)}, moved |-> {}]
                               ELSE Offered(u[n - 1], open, need)]
LEMMA MovesSteps ==
  ASSUME PlannerTypes
  PROVE  \E w \in [0..Len(units) -> Offers] :
           /\ w[0].moved = {}
           /\ \A n \in 1..Len(units) : w[n] = Offered(w[n - 1], Open, Need)
           /\ GreedyMoves = w[Len(units)].moved
<1> DEFINE base == [left |-> {g \in Usable : WeightOf(g) > CostOf(g)}, moved |-> {}]
           step == [nw \in (1..Len(units)) \X Offers |-> Offered(nw[2], Open, Need)]
<1>0. Len(units) \in Nat
  BY UnitsFit
<1>1. base \in Offers
  BY DEF Offers
<1>2. /\ step \in [(1..Len(units)) \X Offers -> Offers]
      /\ \A n \in 1..Len(units), x \in Offers : step[<<n, x>>] = Offered(x, Open, Need)
  BY OfferedType
<1> HIDE DEF step, base
<1>3. PICK w \in [0..Len(units) -> Offers] : Walks(w, Len(units), base, step)
  BY <1>0, <1>1, <1>2, WalkExists
<1>4. ASSUME NEW n \in 0..Len(units)
      PROVE  w[n] = IF n = 0 THEN base ELSE Offered(w[n - 1], Open, Need)
  <2>1. w[n] = IF n = 0 THEN base ELSE step[<<n, w[n - 1]>>]
    BY <1>3 DEF Walks
  <2>2. CASE n # 0
    <3>1. n \in 1..Len(units) /\ w[n - 1] \in Offers
      BY <1>0, <2>2
    <3> QED
      BY <1>2, <2>1, <2>2, <3>1
  <2> QED
    BY <2>1, <2>2
<1>5. w = [n \in 0..Len(units) |-> w[n]]
  OBVIOUS
<1>6. Offering(w, Open, Need)
  BY <1>4, <1>5 DEF Offering, base
<1> DEFINE u == CHOOSE u : Offering(u, Open, Need)
<1>7. Offering(u, Open, Need)
  BY <1>6, Zenon
<1>8. GreedyMoves = u[Len(units)].moved
  BY Zenon DEF GreedyMoves, Offering
<1> HIDE DEF u
<1>9. \A n \in 0..Len(units) : u[n] = IF n = 0 THEN base ELSE Offered(u[n - 1], Open, Need)
  BY <1>7, Zenon DEF Offering, base
<1> DEFINE T == {n \in Nat : u[n] \in Offers}
<1>10. 0 \in T
  BY <1>0, <1>1, <1>9
<1>11. ASSUME NEW n \in 1..Len(units), n - 1 \in T PROVE n \in T
  <2>1. n # 0 /\ n \in 0..Len(units) /\ u[n - 1] \in Offers
    BY <1>0, <1>11
  <2>2. u[n] = Offered(u[n - 1], Open, Need)
    BY <1>9, <2>1
  <2> QED
    BY <2>1, <2>2, OfferedType
<1> HIDE DEF T
<1>12. 0..Len(units) \subseteq T
  BY <1>0, <1>10, <1>11, UpTo
<1>13. u = [n \in 0..Len(units) |-> u[n]]
  BY <1>7 DEF Offering
<1>14. u \in [0..Len(units) -> Offers]
  BY <1>12, <1>13 DEF T
<1>15. u[0].moved = {} /\ \A n \in 1..Len(units) : u[n] = Offered(u[n - 1], Open, Need)
  <2>1. u[0] = base
    BY <1>0, <1>9
  <2>2. u[0].moved = {}
    BY <2>1 DEF base
  <2>3. \A n \in 1..Len(units) : n \in 0..Len(units) /\ n # 0
    BY <1>0
  <2> QED
    BY <1>9, <2>2, <2>3
<1> QED
  BY <1>8, <1>14, <1>15

-----------------------------------------------------------------------------
(* Selections. *)

Short(need, taken, v) == Quanta(taken \cap On(v)) < need[v]
Finished(tier, need, taken) ==
  /\ \A j \in Units : tier[j] = Must => j \in taken
  /\ \A v \in Volume : ~Short(need, taken, v)
GreedyAsks(tier, need) == [at \in (SUBSET Units) \X Units |-> GreedyStep(tier, need, at[1], at[2])]

(* When the greedy pass stops, and when it passes a unit over.              *)
LEMMA StepSays ==
  ASSUME NEW tier, NEW need, NEW taken, NEW i
  PROVE  /\ GreedyStep(tier, need, taken, i) \in {"stop", "skip", "take"}
         /\ GreedyStep(tier, need, taken, i) = "stop" => Finished(tier, need, taken)
         /\ GreedyStep(tier, need, taken, i) = "skip" => tier[i] # Must /\ ~Short(need, taken, units[i].volume)
<1> DEFINE A == tier[i] = Must
           B == tier[i] # Must /\ ({j \in Units : tier[j] = Must} \ taken) = {} /\ (\A v \in Volume : ~(Quanta(taken \cap On(v)) < need[v]))
           C == Quanta(taken \cap On(units[i].volume)) < need[units[i].volume]
<1>1. GreedyStep(tier, need, taken, i) = CASE A -> "take" [] B -> "stop" [] OTHER -> IF C THEN "take" ELSE "skip"
  BY DEF GreedyStep
<1>2. B => Finished(tier, need, taken)
  BY DEF Finished, Short
<1>3. ~A /\ ~C => tier[i] # Must /\ ~Short(need, taken, units[i].volume)
  BY DEF Short
<1> HIDE DEF A, B, C
<1>4. CASE A
  <2>1. ~B
    BY <1>4 DEF A, B
  <2> QED
    BY <1>1, <1>4, <2>1
<1>5. CASE ~A /\ B
  BY <1>1, <1>2, <1>5
<1>6. CASE ~A /\ ~B
  BY <1>1, <1>3, <1>6
<1> QED
  BY <1>4, <1>5, <1>6

(* It says one of the three of every unit.                                  *)
LEMMA StepsAsk ==
  ASSUME NEW tier, NEW need
  PROVE  GreedyAsks(tier, need) \in Asks
  BY StepSays DEF GreedyAsks, Asks

(* It moves usable groups only.                                             *)
LEMMA MovesUsable ==
  ASSUME PlannerTypes
  PROVE  GreedyMoves \in SUBSET Usable
<1>1. PICK w \in [0..Len(units) -> Offers] : GreedyMoves = w[Len(units)].moved
  BY MovesSteps
<1>2. Len(units) \in 0..Len(units)
  BY UnitsFit
<1> QED
  BY <1>1, <1>2 DEF Offers

(* Whole shows leave no hole, and a whole without them is one. *)
LEMMA MovedWhole ==
  ASSUME PlannerTypes, NEW moved \in SUBSET Usable
  PROVE  Whole(UNION moved) /\ UNION moved \subseteq Open /\ Whole(Open \ UNION moved)
<1>1. Usable \subseteq Groups /\ \A g \in Usable : g \subseteq Open
  BY DEF Usable
<1>2. ASSUME NEW a \in UNION moved, NEW b \in Units, Behind(a, b) \/ Behind(b, a)
      PROVE  b \in UNION moved
  <2>1. PICK g \in moved : a \in g
    OBVIOUS
  <2>2. b \in g
    BY <1>1, <1>2, <2>1, GroupsFit
  <2> QED
    BY <2>2
<1>3. UNION moved \subseteq Open /\ Whole(Open) /\ Open \subseteq Units
  BY <1>1, OpenWhole
<1>4. Whole(UNION moved)
  BY <1>2, <1>3 DEF Whole, NoHoles
<1>5. ASSUME NEW a \in Open \ UNION moved, NEW b \in Units, Behind(a, b)
      PROVE  b \in Open \ UNION moved
  <2>1. b \in Open
    BY <1>3, <1>5 DEF Whole, NoHoles
  <2>2. b \notin UNION moved
    BY <1>2, <1>3, <1>5
  <2> QED
    BY <2>1, <2>2
<1> QED
  BY <1>3, <1>4, <1>5 DEF Whole, NoHoles

(* Whatever is selected, its units are a whole and its moves usable.        *)
LEMMA SelectionsFit ==
  ASSUME PlannerTypes, NEW s \in Selections
  PROVE  Whole(s.chosen) /\ s.moved \in SUBSET Usable
<1>1. CASE s = Selection({}, {})
  BY <1>1 DEF Selection, Whole, NoHoles
<1>2. CASE s = GreedySelection
  <2> DEFINE moved == GreedyMoves
             open == Open \ UNION moved
             asks == GreedyAsks(Tiers(open), LeftOf(moved))
  <2>1. moved \in SUBSET Usable
    BY MovesUsable
  <2>2. Whole(open)
    <3> HIDE DEF moved
    <3> QED
      BY <2>1, MovedWhole
  <2>3. s.moved = moved /\ s.chosen = ToSet(Release(open, EdgesOf(open), Tiers(open), asks))
    BY <1>2 DEF GreedySelection, Selection, Greedy, GreedyAsks
  <2> HIDE DEF open, moved
  <2>4. asks \in Asks /\ Tiers(open) \in [Units -> 0..4]
    BY StepsAsk, TiersType
  <2> HIDE DEF asks
  <2>5. Whole(ToSet(Release(open, EdgesOf(open), Tiers(open), asks)))
    BY <2>2, <2>4, Released
  <2> QED
    BY <2>1, <2>3, <2>5
<1>3. CASE s \in Feasible
  <2>1. PICK c \in SUBSET Open, m \in SUBSET Usable : s = Selection(c, m) /\ Rows(s, Open, Need, Tiers(Open))
    BY <1>3 DEF Feasible
  <2>2. s.chosen = c /\ s.moved = m
    BY <2>1 DEF Selection
  <2>3. \A a \in c, b \in Open : Behind(a, b) => b \in c
    BY <2>1, <2>2 DEF Rows
  <2>4. Whole(c)
    BY <2>3, OpenWhole DEF Whole, NoHoles
  <2> QED
    BY <2>1, <2>2, <2>4
<1> QED
  <2>1. s \in Optimal => s \in Feasible
    BY DEF Optimal
  <2> QED
    BY <1>1, <1>2, <1>3, <2>1 DEF Selections

(* Units, targets and headroom have their types in every reachable state.   *)
LEMMA PlannerTypesHold == PlannerSpec => []PlannerTypes
<1>1. PlannerInit => PlannerTypes
  BY PlannerAssumption DEF PlannerInit, PlannerTypes
<1>2. PlannerTypes /\ [PlannerNext]_plannerVars => PlannerTypes'
  BY DEF PlannerTypes, PlannerNext, plannerVars, AddUnit
<1> QED
  BY <1>1, <1>2, PTL DEF PlannerSpec

(* No plan leaves a hole in a show, cut short wherever and whichever of its *)
(* titles may go yet: the greedy pass's by its walk over what is ready, the *)
(* program's by its rows (knapsack.rs:21-30, greedy.rs `release`,           *)
(* `releasable`).                                                           *)
THEOREM PlanOrphansNothingHolds == PlannerSpec => []PlanOrphansNothing
<1>1. PlannerTypes => PlanOrphansNothing
  <2> SUFFICES ASSUME PlannerTypes, NEW s \in Selections
      PROVE LET order == ReleaseOrder(s.chosen)
                handed == {i \in s.chosen : units[i].handed}
            IN  /\ ToSet(order) = s.chosen
                /\ \A n \in 0..Len(order) : NoHoles({order[k] : k \in 1..n} \cup UNION s.moved, Units)
                /\ NoHoles(handed, s.chosen) =>
                     \A eligible \in SUBSET s.chosen : NoHoles(handed \cup Releasable(s.chosen, eligible), s.chosen)
    BY Zenon DEF PlanOrphansNothing
  <2> DEFINE order == ReleaseOrder(s.chosen)
             handed == {i \in s.chosen : units[i].handed}
  <2>1. Whole(s.chosen) /\ s.moved \in SUBSET Usable /\ Whole(UNION s.moved)
    BY SelectionsFit, MovedWhole
  <2>2. ToSet(order) = s.chosen
    BY <2>1, Ordered
  <2>3. ASSUME NEW n \in 0..Len(order)
        PROVE  NoHoles({order[k] : k \in 1..n} \cup UNION s.moved, Units)
    <3>1. NoHoles({order[k] : k \in 1..n}, Units)
      BY <2>1, CutShort
    <3> HIDE DEF order
    <3> QED
      BY <2>1, <3>1 DEF NoHoles, Whole
  <2>4. ASSUME NoHoles(handed, s.chosen), NEW eligible \in SUBSET s.chosen
        PROVE  NoHoles(handed \cup Releasable(s.chosen, eligible), s.chosen)
    BY <2>1, <2>4, ReleasableFits
  <2> QED
    BY <2>2, <2>3, <2>4
<1> QED
  BY <1>1, PlannerTypesHold, PTL

-----------------------------------------------------------------------------
(* How the sums add up. *)

(* Rounded up to quanta nothing is lost.                                    *)
LEMMA QuantizeFits ==
  ASSUME NEW b \in Nat
  PROVE  Quantize(b) \in Nat /\ b <= Quantum * Quantize(b)
<1>0. PICK q \in Nat \ {0} : q = Quantum
  BY PlannerAssumption
<1>1. PICK c \in Nat : c = b + q - 1
  BY <1>0
<1>2. c = q * (c \div q) + (c % q) /\ c % q \in 0..(q - 1) /\ c \div q \in Nat
  BY <1>1
<1>3. PICK d \in Nat : d = c \div q
  BY <1>2
<1>4. PICK r \in 0..(q - 1) : c = q * d + r
  BY <1>2, <1>3
<1>5. q * d \in Nat
  BY <1>0
<1>6. b <= q * d
  BY <1>1, <1>4, <1>5
<1> QED
  BY <1>0, <1>1, <1>3, <1>6 DEF Quantize

(* Rounded down nothing is won.                                             *)
LEMMA RoomFits ==
  ASSUME NEW b \in Nat
  PROVE  b \div Quantum \in Nat /\ Quantum * (b \div Quantum) <= b
<1>0. PICK q \in Nat \ {0} : q = Quantum
  BY PlannerAssumption
<1>2. b = q * (b \div q) + (b % q) /\ b % q \in 0..(q - 1) /\ b \div q \in Nat
  OBVIOUS
<1>3. PICK d \in Nat : d = b \div q
  BY <1>2
<1>4. PICK r \in 0..(q - 1) : b = q * d + r
  BY <1>2, <1>3
<1>5. q * d \in Nat
  BY <1>0
<1> QED
  BY <1>0, <1>3, <1>4, <1>5

(* More units, no less of a sum.                                            *)
LEMMA TotalMonotone ==
  ASSUME PlannerTypes, NEW amount \in [Units -> Nat], NEW S, NEW T, S \cap Units \subseteq T
  PROVE  Total(amount, S) <= Total(amount, T)
<1>0. Len(units) \in Nat /\ Units = 1..Len(units)
  BY UnitsFit
<1>1. PICK s \in [0..Len(units) -> Nat] : Sums(s, amount, S) /\ Total(amount, S) = s[Len(units)]
  BY TotalSteps
<1>2. PICK t \in [0..Len(units) -> Nat] : Sums(t, amount, T) /\ Total(amount, T) = t[Len(units)]
  BY TotalSteps
<1>3. \A n \in 0..Len(units) : s[n] = IF n = 0 THEN 0 ELSE s[n - 1] + (IF n \in S THEN amount[n] ELSE 0)
  BY <1>1, Zenon DEF Sums
<1>4. \A n \in 0..Len(units) : t[n] = IF n = 0 THEN 0 ELSE t[n - 1] + (IF n \in T THEN amount[n] ELSE 0)
  BY <1>2, Zenon DEF Sums
<1> DEFINE N == {n \in 0..Len(units) : s[n] <= t[n]}
<1>5. 0 \in N
  BY <1>0, <1>3, <1>4
<1>6. ASSUME NEW n \in 1..Len(units), n - 1 \in N PROVE n \in N
  <2>1. n \in 0..Len(units) /\ n # 0 /\ n - 1 \in 0..Len(units) /\ s[n - 1] <= t[n - 1] /\ n \in Units
    BY <1>0, <1>6
  <2>2. s[n] = s[n - 1] + (IF n \in S THEN amount[n] ELSE 0) /\ t[n] = t[n - 1] + (IF n \in T THEN amount[n] ELSE 0)
    BY <1>3, <1>4, <2>1
  <2>3. amount[n] \in Nat /\ s[n - 1] \in Nat /\ t[n - 1] \in Nat /\ (n \in S => n \in T)
    BY <2>1
  <2> QED
    BY <2>1, <2>2, <2>3
<1> HIDE DEF N
<1>7. 0..Len(units) \subseteq N
  BY <1>0, <1>5, <1>6, UpTo
<1> QED
  BY <1>0, <1>1, <1>2, <1>7 DEF N

(* Two sets together sum up to no more than both.                           *)
LEMMA TotalUnion ==
  ASSUME PlannerTypes, NEW amount \in [Units -> Nat], NEW S, NEW T
  PROVE  Total(amount, S \cup T) <= Total(amount, S) + Total(amount, T)
<1>0. Len(units) \in Nat /\ Units = 1..Len(units)
  BY UnitsFit
<1>1. PICK s \in [0..Len(units) -> Nat] : Sums(s, amount, S) /\ Total(amount, S) = s[Len(units)]
  BY TotalSteps
<1>2. PICK t \in [0..Len(units) -> Nat] : Sums(t, amount, T) /\ Total(amount, T) = t[Len(units)]
  BY TotalSteps
<1>a. PICK w \in [0..Len(units) -> Nat] : Sums(w, amount, S \cup T) /\ Total(amount, S \cup T) = w[Len(units)]
  BY TotalSteps
<1>3. \A n \in 0..Len(units) : s[n] = IF n = 0 THEN 0 ELSE s[n - 1] + (IF n \in S THEN amount[n] ELSE 0)
  BY <1>1, Zenon DEF Sums
<1>4. \A n \in 0..Len(units) : t[n] = IF n = 0 THEN 0 ELSE t[n - 1] + (IF n \in T THEN amount[n] ELSE 0)
  BY <1>2, Zenon DEF Sums
<1>b. \A n \in 0..Len(units) : w[n] = IF n = 0 THEN 0 ELSE w[n - 1] + (IF n \in S \cup T THEN amount[n] ELSE 0)
  BY <1>a, Zenon DEF Sums
<1> DEFINE N == {n \in 0..Len(units) : w[n] <= s[n] + t[n]}
<1>5. 0 \in N
  BY <1>0, <1>3, <1>4, <1>b
<1>6. ASSUME NEW n \in 1..Len(units), n - 1 \in N PROVE n \in N
  <2>1. n \in 0..Len(units) /\ n # 0 /\ n - 1 \in 0..Len(units) /\ w[n - 1] <= s[n - 1] + t[n - 1] /\ n \in Units
    BY <1>0, <1>6
  <2>2. /\ s[n] = s[n - 1] + (IF n \in S THEN amount[n] ELSE 0) /\ t[n] = t[n - 1] + (IF n \in T THEN amount[n] ELSE 0)
        /\ w[n] = w[n - 1] + (IF n \in S \cup T THEN amount[n] ELSE 0)
    BY <1>3, <1>4, <1>b, <2>1
  <2>3. amount[n] \in Nat /\ s[n - 1] \in Nat /\ t[n - 1] \in Nat /\ w[n - 1] \in Nat /\ (n \in S \cup T <=> n \in S \/ n \in T)
    BY <2>1
  <2>4. w[n] <= s[n] + t[n]
    BY <2>1, <2>2, <2>3
  <2> QED
    BY <2>1, <2>4
<1> HIDE DEF N
<1>7. 0..Len(units) \subseteq N
  BY <1>0, <1>5, <1>6, UpTo
<1> QED
  BY <1>0, <1>1, <1>2, <1>a, <1>7 DEF N

(* Nothing sums up to nothing.                                              *)
LEMMA TotalEmpty ==
  ASSUME PlannerTypes, NEW amount \in [Units -> Nat]
  PROVE  Total(amount, {}) = 0
<1>0. Len(units) \in Nat /\ Units = 1..Len(units)
  BY UnitsFit
<1>1. PICK s \in [0..Len(units) -> Nat] : Sums(s, amount, {}) /\ Total(amount, {}) = s[Len(units)]
  BY TotalSteps
<1>3. \A n \in 0..Len(units) : s[n] = IF n = 0 THEN 0 ELSE s[n - 1] + 0
  BY <1>1 DEF Sums
<1> DEFINE N == {n \in 0..Len(units) : s[n] = 0}
<1>5. 0 \in N
  BY <1>0, <1>3
<1>6. ASSUME NEW n \in 1..Len(units), n - 1 \in N PROVE n \in N
  BY <1>0, <1>3, <1>6
<1> HIDE DEF N
<1>7. 0..Len(units) \subseteq N
  BY <1>0, <1>5, <1>6, UpTo
<1> QED
  BY <1>0, <1>1, <1>7 DEF N

(* So many quanta hold so many bytes. *)
LEMMA QuantaHold ==
  ASSUME PlannerTypes, NEW S
  PROVE  Bytes(S) <= Quantum * Quanta(S)
<1> DEFINE a == [i \in Units |-> units[i].size]
           b == [i \in Units |-> Quantize(units[i].size)]
<1>0. Len(units) \in Nat /\ Units = 1..Len(units)
  BY UnitsFit
<1>1. a \in [Units -> Nat] /\ b \in [Units -> Nat]
  BY UnitsFit
<1>2. \A i \in Units : a[i] = units[i].size /\ b[i] = Quantize(units[i].size) /\ a[i] <= Quantum * b[i]
  BY UnitsFit, QuantizeFits
<1>3. Bytes(S) = Total(a, S) /\ Quanta(S) = Total(b, S)
  BY DEF Bytes, Quanta
<1> HIDE DEF a, b
<1>4. PICK s \in [0..Len(units) -> Nat] : Sums(s, a, S) /\ Total(a, S) = s[Len(units)]
  BY <1>1, TotalSteps
<1>5. PICK t \in [0..Len(units) -> Nat] : Sums(t, b, S) /\ Total(b, S) = t[Len(units)]
  BY <1>1, TotalSteps
<1>6. \A n \in 0..Len(units) : s[n] = IF n = 0 THEN 0 ELSE s[n - 1] + (IF n \in S THEN a[n] ELSE 0)
  BY <1>4, Zenon DEF Sums
<1>7. \A n \in 0..Len(units) : t[n] = IF n = 0 THEN 0 ELSE t[n - 1] + (IF n \in S THEN b[n] ELSE 0)
  BY <1>5, Zenon DEF Sums
<1>8. PICK q \in Nat : q = Quantum
  BY PlannerAssumption
<1> DEFINE N == {n \in 0..Len(units) : s[n] <= q * t[n]}
<1>9. 0 \in N
  BY <1>0, <1>6, <1>7
<1>10. ASSUME NEW n \in 1..Len(units), n - 1 \in N PROVE n \in N
  <2>1. n \in 0..Len(units) /\ n # 0 /\ n - 1 \in 0..Len(units) /\ s[n - 1] <= q * t[n - 1] /\ n \in Units
    BY <1>0, <1>10
  <2>2. s[n] = s[n - 1] + (IF n \in S THEN a[n] ELSE 0) /\ t[n] = t[n - 1] + (IF n \in S THEN b[n] ELSE 0)
    BY <1>6, <1>7, <2>1
  <2>3. a[n] \in Nat /\ b[n] \in Nat /\ s[n - 1] \in Nat /\ t[n - 1] \in Nat /\ a[n] <= q * b[n]
    BY <1>1, <1>2, <1>8, <2>1
  <2>4. q * (t[n - 1] + b[n]) = q * t[n - 1] + q * b[n] /\ q * t[n - 1] \in Nat /\ q * b[n] \in Nat
    BY <2>3
  <2>5. s[n] <= q * t[n]
    <3>1. CASE n \in S
      <4>1. s[n] = s[n - 1] + a[n] /\ t[n] = t[n - 1] + b[n]
        BY <2>2, <3>1
      <4>2. q * t[n] = q * t[n - 1] + q * b[n]
        BY <2>4, <4>1
      <4> QED
        BY <2>1, <2>3, <2>4, <4>1, <4>2
    <3>2. CASE n \notin S
      <4>1. s[n] = s[n - 1] /\ t[n] = t[n - 1]
        BY <2>2, <2>3, <3>2
      <4> QED
        BY <2>1, <4>1
    <3> QED
      BY <3>1, <3>2
  <2> QED
    BY <2>1, <2>5
<1> HIDE DEF N
<1>11. 0..Len(units) \subseteq N
  BY <1>0, <1>9, <1>10, UpTo
<1> QED
  BY <1>0, <1>3, <1>4, <1>5, <1>8, <1>11 DEF N

(* The three for quanta.                                                    *)
LEMMA QuantaAdd ==
  ASSUME PlannerTypes
  PROVE  /\ \A S, T : S \cap Units \subseteq T => Quanta(S) <= Quanta(T)
         /\ \A S, T : Quanta(S \cup T) <= Quanta(S) + Quanta(T)
         /\ Quanta({}) = 0
<1>1. [i \in Units |-> Quantize(units[i].size)] \in [Units -> Nat]
  BY UnitsFit
<1> QED
  BY <1>1, TotalMonotone, TotalUnion, TotalEmpty DEF Quanta

-----------------------------------------------------------------------------
(* Where the greedy pass ends. *)

(* What a unit that waits for nobody is left out for. *)
Passed(w, open, tier, need, n, H) ==
  /\ ToSet(w.taken) \subseteq H /\ H \subseteq open /\ H \cap w.ready = {}
  /\ \A a \in H, j \in Units : Behind(a, j) => j \in ToSet(w.taken)
  /\ w.ready = {} \/ Cardinality(H) >= n
  /\ \A a \in open \ ToSet(w.taken) :
       (\A j \in Units : Behind(a, j) => j \in ToSet(w.taken))
         => a \in w.ready \/ (tier[a] # Must /\ ~Short(need, ToSet(w.taken), units[a].volume))
Ends(w, open, tier, need, n) ==
  /\ w.stopped => Finished(tier, need, ToSet(w.taken))
  /\ ~w.stopped => \E H \in SUBSET Units : Passed(w, open, tier, need, n, H)

(* More taken, no volume short that was not.                                *)
LEMMA ShortLess ==
  ASSUME PlannerTypes, NEW need \in [Volume -> Nat], NEW S, NEW T, S \subseteq T, NEW v \in Volume, ~Short(need, S, v)
  PROVE  ~Short(need, T, v)
<1>1. Quanta(S \cap On(v)) <= Quanta(T \cap On(v))
  BY QuantaAdd
<1>2. Quanta(S \cap On(v)) \in Nat /\ Quanta(T \cap On(v)) \in Nat /\ need[v] \in Nat
  BY TotalNat
<1> QED
  BY <1>1, <1>2 DEF Short

(* One more counts one more.                                                *)
LEMMA OneMore ==
  ASSUME PlannerTypes, NEW H \in SUBSET Units, NEW i \in Units \ H, NEW n \in Nat, Cardinality(H) >= n
  PROVE  Cardinality(H \cup {i}) >= n + 1
<1>1. IsFiniteSet(H)
  BY UnitsFit, FS_Subset
<1>2. Cardinality(H) \in Nat /\ Cardinality(H \cup {i}) = Cardinality(H) + 1
  BY <1>1, FS_CardinalityType, FS_AddElement
<1> QED
  BY <1>2

(* A unit passed over was not a must, and its volume is not short.          *)
LEMMA SkipPasses ==
  ASSUME PlannerTypes, NEW open, Whole(open), NEW tier, NEW need, NEW w \in WalkSet, InLine(w, open),
         NEW n \in Nat, NEW H \in SUBSET Units, Passed(w, open, tier, need, n, H), NEW i \in w.ready,
         tier[i] # Must, ~Short(need, ToSet(w.taken), units[i].volume), NEW v, v.ready = w.ready \ {i}, v.taken = w.taken
  PROVE  Passed(v, open, tier, need, n + 1, H \cup {i}) /\ H \cup {i} \in SUBSET Units
<1>1. /\ i \in open /\ i \in Units /\ i \notin H /\ w.ready # {} /\ H \cap w.ready = {} /\ ToSet(w.taken) \subseteq H /\ H \subseteq open
      /\ Cardinality(H) >= n
  BY DEF InLine, Passed, Whole
<1>2. Cardinality(H \cup {i}) >= n + 1
  BY <1>1, OneMore
<1>3. \A a \in H \cup {i}, j \in Units : Behind(a, j) => j \in ToSet(w.taken)
  BY DEF InLine, Passed
<1>4. ASSUME NEW a \in open \ ToSet(w.taken), \A j \in Units : Behind(a, j) => j \in ToSet(w.taken)
      PROVE  a \in w.ready \ {i} \/ (tier[a] # Must /\ ~Short(need, ToSet(w.taken), units[a].volume))
  BY <1>4 DEF Passed
<1> QED
  BY <1>1, <1>2, <1>3, <1>4 DEF Passed

(* A unit taken lets those it held up become ready.                         *)
LEMMA TakePasses ==
  ASSUME PlannerTypes, NEW open, Whole(open), NEW tier, NEW need \in [Volume -> Nat], NEW w \in WalkSet, InLine(w, open),
         NEW n \in Nat, NEW H \in SUBSET Units, Passed(w, open, tier, need, n, H), NEW i \in w.ready, NEW v \in WalkSet,
         v = [ready |-> (w.ready \ {i}) \cup Freed(EdgesOf(open), i), taken |-> Append(w.taken, i), stopped |-> FALSE]
  PROVE  Passed(v, open, tier, need, n + 1, H \cup {i}) /\ H \cup {i} \in SUBSET Units
<1> DEFINE was == ToSet(w.taken)
           is == ToSet(v.taken)
           freed == Freed(EdgesOf(open), i)
<1>1. /\ i \in open /\ i \in Units /\ open \subseteq Units /\ i \notin H /\ i \notin was /\ w.ready # {} /\ H \cap w.ready = {} /\ was \subseteq H /\ H \subseteq open
      /\ Cardinality(H) >= n /\ w.taken \in Seq(Units)
  BY DEF InLine, Passed, Whole, WalkSet
<1>2. is = was \cup {i} /\ v.ready = (w.ready \ {i}) \cup freed
  BY <1>1, Appended
<1>3. Cardinality(H \cup {i}) >= n + 1
  BY <1>1, OneMore
<1>4. \A a \in H \cup {i}, j \in Units : Behind(a, j) => j \in was
  BY DEF InLine, Passed
<1>5. ASSUME NEW a \in freed
      PROVE  a \in open /\ Behind(a, i)
  <2>1. PICK e \in EdgesOf(open) : e[2] = i /\ a = e[1]
    BY DEF Freed
  <2> QED
    BY <2>1, EdgeOnly
<1>6. (H \cup {i}) \cap v.ready = {}
  <2>1. ASSUME NEW a \in freed PROVE a \notin H \cup {i}
    BY <1>1, <1>4, <1>5
  <2> QED
    BY <1>1, <1>2, <2>1
<1>7. ASSUME NEW a \in open \ is, \A j \in Units : Behind(a, j) => j \in is
      PROVE  a \in v.ready \/ (tier[a] # Must /\ ~Short(need, is, units[a].volume))
  <2>1. CASE Behind(a, i)
    <3>1. ASSUME NEW k \in Units, Behind(a, k), Behind(k, i) PROVE FALSE
      <4>1. k # i
        BY <1>1, <3>1, LinesUp
      <4>2. k \in was
        BY <1>2, <1>7, <3>1, <4>1
      <4> QED
        BY <1>1, <1>4, <3>1, <4>2
    <3>2. <<a, i>> \in EdgesOf(open)
      BY <1>1, <1>7, <2>1, <3>1 DEF EdgesOf
    <3>3. a \in freed
      <4>1. <<a, i>>[1] = a /\ <<a, i>>[2] = i
        OBVIOUS
      <4> QED
        BY <3>2, <4>1 DEF Freed
    <3> QED
      BY <1>2, <3>3
  <2>2. CASE ~Behind(a, i)
    <3>1. (\A j \in Units : Behind(a, j) => j \in was) /\ a \in open \ was /\ a # i
      BY <1>2, <1>7, <2>2
    <3>2. a \in w.ready \/ (tier[a] # Must /\ ~Short(need, was, units[a].volume))
      BY <3>1 DEF Passed
    <3>3. CASE a \in w.ready
      BY <1>2, <3>1, <3>3
    <3>4. CASE tier[a] # Must /\ ~Short(need, was, units[a].volume)
      <4>1. units[a].volume \in Volume /\ was \subseteq is
        BY <1>1, <1>2, <3>1, UnitsFit
      <4> HIDE DEF was, is
      <4>2. ~Short(need, is, units[a].volume)
        BY <3>4, <4>1, ShortLess
      <4> QED
        BY <3>4, <4>2
    <3> QED
      BY <3>2, <3>3, <3>4
  <2> QED
    BY <2>1, <2>2
<1>8. is \subseteq H \cup {i} /\ H \cup {i} \subseteq open /\ H \cup {i} \in SUBSET Units
  BY <1>1, <1>2
<1>9. \A a \in H \cup {i}, j \in Units : Behind(a, j) => j \in is
  BY <1>2, <1>4
<1> QED
  BY <1>3, <1>6, <1>7, <1>8, <1>9 DEF Passed

(* A pop of the greedy pass keeps that.                                     *)
LEMMA PoppedEnds ==
  ASSUME PlannerTypes, NEW open, Whole(open), NEW tier \in [Units -> 0..4], NEW need \in [Volume -> Nat],
         NEW w \in WalkSet, InLine(w, open), NEW n \in Nat, Ends(w, open, tier, need, n)
  PROVE  Ends(Popped(w, EdgesOf(open), tier, GreedyAsks(tier, need)), open, tier, need, n + 1)
<1> DEFINE asks == GreedyAsks(tier, need)
           i == Best(w.ready, tier)
           v == Popped(w, EdgesOf(open), tier, asks)
           was == ToSet(w.taken)
<1>0. EdgesOf(open) \in SUBSET (Units \X Units) /\ asks \in Asks
  BY StepsAsk DEF EdgesOf, Whole
<1>1. CASE w.stopped \/ w.ready = {}
  <2>1. v = w
    BY <1>0, <1>1, PoppedType
  <2>2. w.stopped \in BOOLEAN
    BY DEF WalkSet
  <2>3. ASSUME NEW H \in SUBSET Units, Passed(w, open, tier, need, n, H), w.ready = {}
        PROVE  Passed(w, open, tier, need, n + 1, H)
    BY <2>3 DEF Passed
  <2> HIDE DEF v
  <2>4. Ends(v, open, tier, need, n + 1)
    BY <1>1, <2>1, <2>2, <2>3 DEF Ends
  <2> QED
    BY <2>4 DEF v
<1>2. CASE ~w.stopped /\ w.ready # {}
  <2>1. Goes(w, EdgesOf(open), asks, i, v)
    BY <1>0, <1>2, Pops
  <2> HIDE DEF i, v, asks
  <2>2. i \in w.ready /\ v \in WalkSet /\ i \in Units /\ was \in SUBSET Units
    BY <2>1 DEF Goes, InLine, Whole
  <2>3. asks[<<was, i>>] = GreedyStep(tier, need, was, i)
    <3> HIDE DEF was
    <3>1. <<was, i>> \in (SUBSET Units) \X Units /\ <<was, i>>[1] = was /\ <<was, i>>[2] = i
      BY <2>2
    <3> QED
      BY <3>1 DEF asks, GreedyAsks
  <2>4. w = [ready |-> w.ready, taken |-> w.taken, stopped |-> w.stopped]
    BY DEF WalkSet
  <2>5. PICK H \in SUBSET Units : Passed(w, open, tier, need, n, H)
    BY <1>2 DEF Ends
  <2>6. CASE GreedyStep(tier, need, was, i) = "stop" /\ v = [w EXCEPT !.stopped = TRUE]
    <3>1. v.stopped = TRUE /\ v.taken = w.taken
      BY <2>4, <2>6
    <3>2. Finished(tier, need, was)
      BY <2>6, StepSays
    <3>3. Ends(v, open, tier, need, n + 1)
      BY <3>1, <3>2 DEF Ends
    <3> QED
      BY <3>3 DEF v, asks
  <2>7. CASE GreedyStep(tier, need, was, i) = "skip" /\ v = [w EXCEPT !.ready = w.ready \ {i}]
    <3>1. v.ready = w.ready \ {i} /\ v.taken = w.taken /\ v.stopped = w.stopped
      BY <2>4, <2>7
    <3>2. tier[i] # Must /\ ~Short(need, was, units[i].volume)
      BY <2>7, StepSays
    <3>3. Passed(v, open, tier, need, n + 1, H \cup {i}) /\ H \cup {i} \in SUBSET Units
      BY <2>2, <2>5, <3>1, <3>2, SkipPasses
    <3>4. Ends(v, open, tier, need, n + 1)
      BY <1>2, <3>1, <3>3 DEF Ends
    <3> QED
      BY <3>4 DEF v, asks
  <2>8. CASE v = [ready |-> (w.ready \ {i}) \cup Freed(EdgesOf(open), i), taken |-> Append(w.taken, i), stopped |-> FALSE]
    <3>1. v.stopped = FALSE
      BY <2>8
    <3>2. Passed(v, open, tier, need, n + 1, H \cup {i}) /\ H \cup {i} \in SUBSET Units
      BY <2>2, <2>5, <2>8, TakePasses
    <3>3. Ends(v, open, tier, need, n + 1)
      BY <3>1, <3>2 DEF Ends
    <3> QED
      BY <3>3 DEF v, asks
  <2> QED
    BY <2>1, <2>3, <2>6, <2>7, <2>8 DEF Goes
<1> QED
  BY <1>1, <1>2

(* When the greedy pass ends, all is done, or whoever waits for nobody and   *)
(* was not taken is not a must and of a volume that is not short.            *)
LEMMA GreedyEnds ==
  ASSUME PlannerTypes, NEW open, Whole(open), NEW tier \in [Units -> 0..4], NEW need \in [Volume -> Nat]
  PROVE  LET taken == ToSet(Release(open, EdgesOf(open), tier, GreedyAsks(tier, need)))
         IN  /\ Whole(taken) /\ taken \subseteq open
             /\ \/ Finished(tier, need, taken)
                \/ \A a \in open \ taken : (\A j \in Units : Behind(a, j) => j \in taken)
                                             => tier[a] # Must /\ ~Short(need, taken, units[a].volume)
<1> DEFINE asks == GreedyAsks(tier, need)
           order == Release(open, EdgesOf(open), tier, asks)
<1>0. /\ EdgesOf(open) \in SUBSET (Units \X Units) /\ open \in SUBSET Units /\ Len(units) \in Nat /\ asks \in Asks
  BY UnitsFit, StepsAsk DEF EdgesOf, Whole
<1>u. Units = 1..Len(units) /\ IsFiniteSet(Units)
  BY UnitsFit
<1> HIDE DEF asks
<1>1. PICK w \in [0..Len(units) -> WalkSet] :
        /\ w[0] = First(open, EdgesOf(open))
        /\ \A n \in 1..Len(units) : w[n] = Popped(w[n - 1], EdgesOf(open), tier, asks)
        /\ order = w[Len(units)].taken
  BY <1>0, ReleaseSteps
<1>2. Whole(ToSet(order)) /\ ToSet(order) \subseteq open
  BY <1>0, Released
<1> DEFINE T == {n \in 0..Len(units) : InLine(w[n], open) /\ Ends(w[n], open, tier, need, n)}
<1>3. 0 \in T
  <2> DEFINE x == First(open, EdgesOf(open))
  <2>1. InLine(x, open) /\ NoneLeftOut(x, open, 0)
    BY FirstInLine
  <2>2. x.taken = <<>> /\ x.stopped = FALSE /\ ToSet(x.taken) = {}
    BY DEF First, ToSet
  <2> HIDE DEF x
  <2>3. Cardinality({}) >= 0
    BY FS_EmptySet
  <2>4. Passed(x, open, tier, need, 0, {})
    BY <2>1, <2>2, <2>3 DEF Passed, NoneLeftOut
  <2>5. Ends(x, open, tier, need, 0)
    BY <2>2, <2>4 DEF Ends
  <2> QED
    BY <1>0, <1>1, <2>1, <2>5 DEF x
<1>4. ASSUME NEW n \in 1..Len(units), n - 1 \in T PROVE n \in T
  <2>1. /\ n - 1 \in 0..Len(units) /\ n - 1 \in Nat /\ n \in 0..Len(units) /\ w[n - 1] \in WalkSet
        /\ InLine(w[n - 1], open) /\ Ends(w[n - 1], open, tier, need, n - 1)
    BY <1>0, <1>4
  <2>2. InLine(w[n], open)
    BY <1>0, <1>1, <2>1, PoppedInLine
  <2>3. Ends(w[n], open, tier, need, (n - 1) + 1)
    BY <1>1, <2>1, PoppedEnds DEF asks
  <2>4. (n - 1) + 1 = n
    OBVIOUS
  <2> QED
    BY <2>1, <2>2, <2>3, <2>4
<1> HIDE DEF T
<1>5. Len(units) \in T
  <2>1. 0..Len(units) \subseteq T
    BY <1>0, <1>3, <1>4, UpTo
  <2> QED
    BY <1>0, <2>1
<1> DEFINE end == w[Len(units)]
           taken == ToSet(order)
<1>6. end \in WalkSet /\ InLine(end, open) /\ Ends(end, open, tier, need, Len(units)) /\ taken = ToSet(end.taken)
  BY <1>0, <1>1, <1>5 DEF T
<1> HIDE DEF end, order
<1>7. CASE end.stopped
  BY <1>2, <1>6, <1>7 DEF Ends, order, asks
<1>8. CASE ~end.stopped
  <2>1. PICK H \in SUBSET Units : Passed(end, open, tier, need, Len(units), H)
    BY <1>6, <1>8 DEF Ends
  <2>2. end.ready = {}
    <3>1. CASE Cardinality(H) >= Len(units)
      <4>1. 1 \in Int /\ Len(units) \in Int
        BY <1>0
      <4>2. Cardinality(1..Len(units)) = IF 1 > Len(units) THEN 0 ELSE Len(units) - 1 + 1
        BY <4>1, FS_Interval
      <4>3. Cardinality(Units) = Len(units)
        BY <1>0, <1>u, <4>2
      <4>4. Cardinality(H) <= Cardinality(Units) /\ Cardinality(H) \in Nat /\ (Cardinality(Units) = Cardinality(H) => Units = H)
        BY <1>u, FS_Subset, FS_CardinalityType
      <4>5. H = Units
        BY <1>0, <3>1, <4>3, <4>4
      <4>6. H \cap end.ready = {} /\ end.ready \subseteq Units
        BY <1>0, <1>6, <2>1 DEF Passed, InLine
      <4> QED
        BY <4>5, <4>6
    <3> QED
      BY <2>1, <3>1 DEF Passed
  <2>3. \A a \in open \ taken : (\A j \in Units : Behind(a, j) => j \in taken)
                                  => tier[a] # Must /\ ~Short(need, taken, units[a].volume)
    BY <1>6, <2>1, <2>2 DEF Passed
  <2> QED
    BY <1>2, <2>3 DEF order, asks
<1>9. end.stopped \in BOOLEAN
  BY <1>6 DEF WalkSet
<1> QED
  BY <1>7, <1>8, <1>9

(* A unit that must go takes those it is behind along. *)
LEMMA MustAhead ==
  ASSUME PlannerTypes, NEW open \in SUBSET Units, NEW i \in open, units[i].force = "must"
  PROVE  Tiers(open)[i] = Must /\ \A j \in open : Behind(i, j) => Tiers(open)[j] = Must
<1>0. Len(units) \in Nat /\ Units = 1..Len(units) /\ i \in 1..Len(units)
  BY UnitsFit
<1>1. PICK w \in [0..Len(units) -> [Units -> 0..4]] :
        /\ w[0] = [k \in Units |-> Rank(k, open)]
        /\ \A n \in 1..Len(units) : w[n] = Lifted(w[n - 1], n, open)
        /\ Tiers(open) = w[Len(units)]
  BY TiersSteps
<1>2. ASSUME NEW tier \in [Units -> 0..4], NEW k \in Units, NEW j \in Units, tier[j] = Must
      PROVE  Lifted(tier, k, open)[j] = Must
  <2> DEFINE ahead == {m \in open : k \in open /\ Behind(k, m)}
  <2>1. CASE tier[k] <= 1
    BY <1>2, <2>1 DEF Lifted
  <2>2. CASE tier[k] > 1 /\ tier[k] < Must /\ \E p \in ahead : units[p].volume # units[k].volume /\ tier[p] < tier[k]
    <3>1. Lifted(tier, k, open) = [tier EXCEPT ![k] = 1]
      BY <2>2 DEF Lifted
    <3> QED
      BY <1>2, <2>2, <3>1
  <2>3. CASE tier[k] > 1 /\ ~(tier[k] < Must /\ \E p \in ahead : units[p].volume # units[k].volume /\ tier[p] < tier[k])
    <3>1. Lifted(tier, k, open) = [m \in Units |-> IF m \in ahead THEN Max({tier[m], tier[k]}) ELSE tier[m]]
      BY <2>3 DEF Lifted
    <3>2. Max({tier[j], tier[k]}) \in 0..4 /\ Max({tier[j], tier[k]}) >= tier[j]
      BY MaxOfTwo
    <3>3. Max({tier[j], tier[k]}) = Must
      BY <1>2, <3>2 DEF Must
    <3> QED
      BY <1>2, <3>1, <3>3
  <2> QED
    BY <2>1, <2>2, <2>3
<1>3. ASSUME NEW tier \in [Units -> 0..4], tier[i] = Must, NEW j \in open, Behind(i, j)
      PROVE  Lifted(tier, i, open)[j] = Must
  <2> DEFINE ahead == {m \in open : i \in open /\ Behind(i, m)}
  <2>1. Lifted(tier, i, open) = [m \in Units |-> IF m \in ahead THEN Max({tier[m], tier[i]}) ELSE tier[m]]
    BY <1>3 DEF Lifted, Must
  <2>2. Max({tier[j], tier[i]}) \in 0..4 /\ Max({tier[j], tier[i]}) >= tier[i]
    BY MaxOfTwo
  <2>3. Max({tier[j], tier[i]}) = Must
    BY <1>3, <2>2 DEF Must
  <2> QED
    BY <1>3, <2>1, <2>3
<1> DEFINE T == {n \in 0..Len(units) : w[n][i] = Must /\ (n >= i => \A j \in open : Behind(i, j) => w[n][j] = Must)}
<1>4. 0 \in T
  <2>1. Rank(i, open) = Must
    BY DEF Rank
  <2> QED
    BY <1>0, <1>1, <2>1
<1>5. ASSUME NEW n \in 1..Len(units), n - 1 \in T PROVE n \in T
  <2>1. /\ n \in 0..Len(units) /\ n - 1 \in 0..Len(units) /\ n \in Units /\ w[n - 1] \in [Units -> 0..4] /\ w[n] = Lifted(w[n - 1], n, open)
        /\ w[n - 1][i] = Must /\ (n - 1 >= i => \A j \in open : Behind(i, j) => w[n - 1][j] = Must)
    BY <1>0, <1>1, <1>5
  <2>2. w[n][i] = Must
    BY <1>2, <2>1
  <2>3. ASSUME n >= i, NEW j \in open, Behind(i, j) PROVE w[n][j] = Must
    <3>1. CASE n = i
      BY <1>3, <2>1, <2>3, <3>1
    <3>2. CASE n - 1 >= i
      BY <1>2, <2>1, <2>3, <3>2
    <3> QED
      BY <1>0, <2>3, <3>1, <3>2
  <2> QED
    BY <2>1, <2>2, <2>3
<1> HIDE DEF T
<1>6. 0..Len(units) \subseteq T
  BY <1>0, <1>4, <1>5, UpTo
<1>7. Len(units) \in T /\ Len(units) >= i
  BY <1>0, <1>6
<1> QED
  BY <1>1, <1>7 DEF T

(* No more is needed of a volume than is open there.                        *)
LEMMA NeedFits ==
  ASSUME PlannerTypes
  PROVE  Need \in [Volume -> Nat] /\ \A v \in Volume : Need[v] <= Quanta(Open \cap On(v))
<1>1. ASSUME NEW a \in Nat, NEW b \in Nat PROVE Min({a, b}) \in Nat /\ Min({a, b}) <= b
  <2>1. \E x \in {a, b} : \A y \in {a, b} : x <= y
    OBVIOUS
  <2>2. Min({a, b}) \in {a, b} /\ \A y \in {a, b} : Min({a, b}) <= y
    BY <2>1 DEF Min
  <2> QED
    BY <2>2
<1>2. ASSUME NEW v \in Volume
      PROVE  /\ Quantize(target[v]) \in Nat /\ Quanta(Open \cap On(v)) \in Nat
  BY TotalNat, QuantizeFits DEF PlannerTypes
<1>3. Need = [v \in Volume |-> Min({Quantize(target[v]), Quanta(Open \cap On(v))})]
  BY DEF Need
<1> QED
  BY <1>1, <1>2, <1>3

(* No more is moved than there is room for. *)
LEMMA MovesFit ==
  ASSUME PlannerTypes
  PROVE  Quanta(UNION GreedyMoves) <= Room
<1>0. Len(units) \in Nat
  BY UnitsFit
<1>1. PICK w \in [0..Len(units) -> Offers] :
        /\ w[0].moved = {}
        /\ \A n \in 1..Len(units) : w[n] = Offered(w[n - 1], Open, Need)
        /\ GreedyMoves = w[Len(units)].moved
  BY MovesSteps
<1>2. Room \in Nat
  BY RoomFits DEF Room, PlannerTypes
<1> DEFINE T == {n \in 0..Len(units) : Quanta(UNION w[n].moved) <= Room}
<1>3. 0 \in T
  <2>1. UNION w[0].moved = {}
    BY <1>1
  <2>2. Quanta(UNION w[0].moved) = 0
    BY <2>1, QuantaAdd
  <2> QED
    BY <1>0, <1>2, <2>2
<1>4. ASSUME NEW n \in 1..Len(units), n - 1 \in T PROVE n \in T
  <2>1. n \in 0..Len(units) /\ n - 1 \in 0..Len(units) /\ w[n] = Offered(w[n - 1], Open, Need) /\ Quanta(UNION w[n - 1].moved) <= Room
    BY <1>0, <1>1, <1>4
  <2> DEFINE g == Densest(w[n - 1].left)
             was == w[n - 1].moved
  <2>2. CASE w[n] = w[n - 1]
    BY <2>1, <2>2
  <2>3. CASE w[n] # w[n - 1]
    <3>1. w[n] = [left |-> w[n - 1].left \ {g}, moved |-> IF FitsToo(was, g, Open, Need) THEN was \cup {g} ELSE was]
      BY <2>1, <2>3 DEF Offered
    <3> HIDE DEF g
    <3>2. w[n].moved = IF FitsToo(was, g, Open, Need) THEN was \cup {g} ELSE was
      BY <3>1
    <3>3. CASE FitsToo(was, g, Open, Need)
      <4>1. UNION w[n].moved = (UNION was) \cup g
        BY <3>2, <3>3
      <4>2. Quanta(UNION was) + Quanta(g) <= Room
        BY <3>3 DEF FitsToo
      <4>3. Quanta((UNION was) \cup g) <= Quanta(UNION was) + Quanta(g)
        BY QuantaAdd
      <4>4. Quanta((UNION was) \cup g) \in Nat /\ Quanta(UNION was) \in Nat /\ Quanta(g) \in Nat
        BY TotalNat
      <4>5. Quanta((UNION was) \cup g) <= Room
        <5> HIDE DEF was
        <5> QED
          BY <1>2, <4>2, <4>3, <4>4
      <4> QED
        BY <2>1, <4>1, <4>5
    <3>4. CASE ~FitsToo(was, g, Open, Need)
      BY <2>1, <3>2, <3>4
    <3> QED
      BY <3>3, <3>4
  <2> QED
    BY <2>2, <2>3
<1> HIDE DEF T
<1>5. 0..Len(units) \subseteq T
  BY <1>0, <1>3, <1>4, UpTo
<1>6. Len(units) \in T
  BY <1>0, <1>5
<1> QED
  BY <1>1, <1>6 DEF T

GoneOn(moved, v) == UNION {g \in moved : VolumeOf(g) = v}

(* What moved and what is left to evict make up the need.                   *)
LEMMA LeftFits ==
  ASSUME PlannerTypes, NEW moved
  PROVE  /\ LeftOf(moved) \in [Volume -> Nat]
         /\ \A v \in Volume : Quanta(GoneOn(moved, v)) + LeftOf(moved)[v] >= Need[v]
<1>1. LeftOf(moved) = [v \in Volume |-> IF Quanta(GoneOn(moved, v)) > Need[v] THEN 0 ELSE Need[v] - Quanta(GoneOn(moved, v))]
  BY DEF LeftOf, GoneOn
<1>2. ASSUME NEW v \in Volume
      PROVE  Quanta(GoneOn(moved, v)) \in Nat /\ Need[v] \in Nat
  BY NeedFits, TotalNat
<1> QED
  BY <1>1, <1>2

(* The greedy pass covers each volume, or takes all that is open there.     *)
LEMMA GreedyCovers ==
  ASSUME PlannerTypes
  PROVE  LET s == GreedySelection
         IN  /\ \A v \in Volume : Quanta(s.chosen \cap On(v)) + Quanta(GoneOn(s.moved, v)) >= Need[v]
             /\ s.chosen \cap UNION s.moved = {} /\ s.chosen \subseteq Open /\ s.moved = GreedyMoves
             /\ \A i \in Open : units[i].force = "must" => i \in s.chosen
<1> DEFINE s == GreedySelection
           moved == GreedyMoves
           open == Open \ UNION moved
           tier == Tiers(open)
           need == LeftOf(moved)
           chosen == ToSet(Release(open, EdgesOf(open), tier, GreedyAsks(tier, need)))
<1>1. s.moved = moved /\ s.chosen = chosen
  BY DEF GreedySelection, Selection, Greedy, GreedyAsks
<1>2. moved \in SUBSET Usable
  BY MovesUsable
<1> HIDE DEF moved
<1>3. Whole(open) /\ open \in SUBSET Units /\ UNION moved \subseteq Open
  BY <1>2, MovedWhole DEF Whole
<1>4. need \in [Volume -> Nat] /\ \A v \in Volume : Quanta(GoneOn(moved, v)) + need[v] >= Need[v]
  BY LeftFits
<1> HIDE DEF need
<1>o. open = Open \ UNION moved
  OBVIOUS
<1> HIDE DEF open
<1>5. tier \in [Units -> 0..4]
  BY TiersType
<1>6. \A i \in open : units[i].force = "must" => tier[i] = Must /\ \A j \in open : Behind(i, j) => tier[j] = Must
  BY <1>3, MustAhead
<1> HIDE DEF tier
<1>7. /\ Whole(chosen) /\ chosen \subseteq open
      /\ \/ Finished(tier, need, chosen)
         \/ \A a \in open \ chosen : (\A j \in Units : Behind(a, j) => j \in chosen)
                                       => tier[a] # Must /\ ~Short(need, chosen, units[a].volume)
  BY <1>3, <1>4, <1>5, GreedyEnds
<1> HIDE DEF chosen
<1>8. ASSUME NEW i \in Open, units[i].force = "must"
      PROVE  i \in chosen
  <2>1. i \in open /\ i \in Units
    <3>1. ASSUME NEW g \in moved, i \in g PROVE FALSE
      <4>1. Movable(i)
        BY <1>2, <3>1 DEF Usable
      <4>2. units[i].force = Nothing
        BY <4>1 DEF Movable
      <4> QED
        BY <1>8, <4>2, PlannerAssumption
    <3>2. i \notin UNION moved
      BY <3>1
    <3> QED
      BY <1>3, <1>o, <3>2
  <2>2. CASE Finished(tier, need, chosen)
    BY <1>6, <1>8, <2>1, <2>2 DEF Finished
  <2>3. CASE ~Finished(tier, need, chosen)
    <3> SUFFICES ASSUME i \notin chosen PROVE FALSE
      OBVIOUS
    <3>1. PICK b \in open \ chosen : (b = i \/ Behind(i, b)) /\ \A j \in Units : Behind(b, j) => j \in chosen
      BY <1>3, <1>7, <2>1, LastLeft
    <3>2. tier[b] = Must
      BY <1>6, <1>8, <2>1, <3>1
    <3> QED
      BY <1>7, <2>3, <3>1, <3>2
  <2> QED
    BY <2>2, <2>3
<1>9. ASSUME NEW v \in Volume
      PROVE  Quanta(chosen \cap On(v)) + Quanta(GoneOn(moved, v)) >= Need[v]
  <2>0. /\ Quanta(chosen \cap On(v)) \in Nat /\ Quanta(GoneOn(moved, v)) \in Nat /\ Need[v] \in Nat /\ need[v] \in Nat
        /\ Quanta(GoneOn(moved, v)) + need[v] >= Need[v]
    BY <1>4, TotalNat, NeedFits
  <2>1. CASE ~Short(need, chosen, v)
    BY <2>0, <2>1 DEF Short
  <2>2. CASE Short(need, chosen, v)
    <3>1. ASSUME NEW i \in open, i \in On(v) PROVE i \in chosen
      <4> SUFFICES ASSUME i \notin chosen PROVE FALSE
        OBVIOUS
      <4>1. PICK b \in open \ chosen : (b = i \/ Behind(i, b)) /\ \A j \in Units : Behind(b, j) => j \in chosen
        BY <1>3, <1>7, LastLeft
      <4>2. units[i] \in Kinds /\ units[b] \in Kinds /\ units[i].volume = v
        BY <1>3, <3>1 DEF PlannerTypes, Units, On
      <4>3. units[b].volume = v
        BY <4>1, <4>2, OneDisk DEF Behind
      <4>4. ~Finished(tier, need, chosen)
        BY <2>2 DEF Finished
      <4> QED
        BY <1>7, <2>2, <4>1, <4>3, <4>4
    <3>2. Open \cap On(v) \subseteq (chosen \cap On(v)) \cup GoneOn(moved, v)
      <4> SUFFICES ASSUME NEW i \in Open, i \in On(v), i \notin chosen PROVE i \in GoneOn(moved, v)
        OBVIOUS
      <4>1. i \in UNION moved
        BY <1>o, <3>1
      <4>2. PICK g \in moved : i \in g
        BY <4>1
      <4>3. units[i].volume = VolumeOf(g) /\ units[i].volume = v
        BY <1>2, <4>2 DEF Usable, On
      <4> QED
        BY <4>2, <4>3 DEF GoneOn
    <3>3. Quanta(Open \cap On(v)) <= Quanta((chosen \cap On(v)) \cup GoneOn(moved, v))
      BY <3>2, QuantaAdd
    <3>4. Quanta((chosen \cap On(v)) \cup GoneOn(moved, v)) <= Quanta(chosen \cap On(v)) + Quanta(GoneOn(moved, v))
      BY QuantaAdd
    <3>5. Need[v] <= Quanta(Open \cap On(v)) /\ Quanta(Open \cap On(v)) \in Nat /\ Quanta((chosen \cap On(v)) \cup GoneOn(moved, v)) \in Nat
      BY NeedFits, TotalNat
    <3> QED
      BY <2>0, <3>3, <3>4, <3>5
  <2> QED
    BY <2>1, <2>2
<1>10. chosen \cap UNION moved = {} /\ chosen \subseteq Open
  BY <1>7, <1>o
<1> HIDE DEF s
<1>11. \A v \in Volume : Quanta(s.chosen \cap On(v)) + Quanta(GoneOn(s.moved, v)) >= Need[v]
  BY <1>1, <1>9
<1> QED
  BY <1>1, <1>8, <1>10, <1>11 DEF s, moved

(* All that is open meets the rows. *)
LEMMA RowsMeet ==
  ASSUME PlannerTypes
  PROVE  Feasible # {}
<1> DEFINE s == Selection(Open, {})
           tier == Tiers(Open)
<1>1. s.chosen = Open /\ s.moved = {} /\ UNION s.moved = {}
  BY DEF Selection
<1>2. Quanta({}) = 0 /\ Room \in Nat
  BY QuantaAdd, RoomFits DEF Room, PlannerTypes
<1>3. ASSUME NEW v \in Volume
      PROVE  Quanta(s.chosen \cap On(v)) + Quanta(UNION {g \in s.moved : VolumeOf(g) = v}) >= Need[v]
  <2>1. UNION {g \in s.moved : VolumeOf(g) = v} = {}
    BY <1>1
  <2>2. Need[v] <= Quanta(Open \cap On(v)) /\ Need[v] \in Nat /\ Quanta(Open \cap On(v)) \in Nat
    BY NeedFits, TotalNat
  <2> HIDE DEF s
  <2> QED
    BY <1>1, <1>2, <2>1, <2>2
<1> HIDE DEF s, tier
<1>4. Rows(s, Open, Need, tier)
  BY <1>1, <1>2, <1>3 DEF Rows
<1> QED
  BY <1>4 DEF Feasible, s, tier

(* The greedy pass gives what the rows of the program ask, and these can    *)
(* always be met: all that is open meets them (knapsack.rs:112, :306).      *)
THEOREM PlanCoversHolds == PlannerSpec => []PlanCovers
<1>1. PlannerTypes => PlanCovers
  <2> SUFFICES ASSUME PlannerTypes PROVE PlanCovers
    OBVIOUS
  <2> DEFINE s == GreedySelection
  <2>1. /\ \A v \in Volume : Quanta(s.chosen \cap On(v)) + Quanta(GoneOn(s.moved, v)) >= Need[v]
        /\ s.chosen \cap UNION s.moved = {} /\ s.chosen \subseteq Open /\ s.moved = GreedyMoves
        /\ \A i \in Open : units[i].force = "must" => i \in s.chosen
    BY GreedyCovers
  <2>2. Bytes(UNION s.moved) <= headroom
    <3>1. PICK b \in Nat : b = Bytes(UNION s.moved)
      BY TotalNat
    <3>2. PICK q \in Nat : q = Quanta(UNION s.moved)
      BY TotalNat
    <3>3. PICK r \in Nat : r = Room
      BY RoomFits DEF Room, PlannerTypes
    <3>4. PICK m \in Nat : m = Quantum
      BY PlannerAssumption
    <3>5. b <= m * q
      BY <3>1, <3>2, <3>4, QuantaHold
    <3>6. q <= r
      BY <2>1, <3>2, <3>3, MovesFit
    <3>7. m * r <= headroom /\ headroom \in Nat
      BY <3>3, <3>4, RoomFits DEF Room, PlannerTypes
    <3>8. q * m <= r * m
      BY <3>6, TimesMonotone
    <3>9. q * m = m * q /\ r * m = m * r /\ m * q \in Nat /\ m * r \in Nat
      OBVIOUS
    <3> QED
      BY <3>1, <3>5, <3>7, <3>8, <3>9
  <2> HIDE DEF s
  <2> QED
    BY <2>1, <2>2, RowsMeet DEF PlanCovers, GoneOn, s
<1> QED
  BY <1>1, PlannerTypesHold, PTL
=============================================================================
