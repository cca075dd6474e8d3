--------------------------- MODULE MetricsProofs ---------------------------
(***************************************************************************)
(* Facts about the values of metrics, about sequences of rows and about    *)
(* folds, for the proofs about the modules that store them.                *)
(*                                                                         *)
(* A fold of the community modules is a recursive function on the subsets  *)
(* of a finite set.  The facts about it are proved from the theorem that   *)
(* strict inclusion of finite sets is well founded: a smallest subset for  *)
(* which one fails would have to be larger than a smaller one for which it *)
(* fails, too.                                                             *)
(***************************************************************************)
EXTENDS Metrics, Sequences, FiniteSetTheorems, TLAPS

\* int64 arithmetic stays in int64.
LEMMA WrapInRange ==
  ASSUME NEW v \in Int
  PROVE  Wrap(v) \in -HalfRange .. HalfRange - 1
  <1>1. PICK m \in Nat : m = 2 * HalfRange /\ m > 0
    BY HalfRangeAssumption
  <1>2. (v + HalfRange) % m \in 0 .. m - 1
    BY <1>1, HalfRangeAssumption
  <1>3. QED
    BY <1>1, <1>2, HalfRangeAssumption DEF Wrap

\* An element of a sequence is replaced.
LEMMA ReplaceInSeq ==
  ASSUME NEW S, NEW s \in Seq(S), NEW n \in 1 .. Len(s), NEW u \in S
  PROVE  /\ [s EXCEPT ![n] = u] \in Seq(S) /\ Len([s EXCEPT ![n] = u]) = Len(s)
         /\ \A x \in 1 .. Len(s) : [s EXCEPT ![n] = u][x] = IF x = n THEN u ELSE s[x]
  OBVIOUS

\* An element is appended to a sequence.
LEMMA AppendAt ==
  ASSUME NEW S, NEW s \in Seq(S), NEW u \in S, NEW t, t = Append(s, u)
  PROVE  /\ t \in Seq(S) /\ t # <<>> /\ Len(s) \in Nat /\ Len(t) = Len(s) + 1
         /\ t[Len(t)] = u /\ \A x \in 1 .. Len(s) : t[x] = s[x]
  OBVIOUS

\* What a caller passes can be stored.
LEMMA CallFields ==
  ASSUME NEW x \in Calls
  PROVE  x.kind \in Kinds /\ x.name \in Names /\ x.value \in Values(x.kind)
  <1>1. PICK k \in Kinds : x \in [kind : {k}, name : Names, value : Inputs(k)]
    BY DEF Calls
  <1>2. x.kind = k /\ x.name \in Names /\ x.value \in Inputs(k)
    BY <1>1
  <1>3. Inputs(k) \subseteq Values(k)
    BY ValuesAssumption DEF Inputs, Values
  <1>4. QED
    BY <1>2, <1>3

\* What AddGauge and AddCounter leave in a row can be stored.
LEMMA CombineTyped ==
  ASSUME NEW k \in Kinds, NEW old \in Values(k), NEW new \in Values(k)
  PROVE  Combine(k, old, new) \in Values(k)
  <1>1. CASE k = "gauge"
    BY <1>1 DEF Combine
  <1>2. CASE k = "counter"
    <2>1. old \in Int /\ new \in Int
      BY <1>2, HalfRangeAssumption DEF Values
    <2>2. QED
      BY <1>2, <2>1, WrapInRange DEF Combine, Values
  <1>3. QED
    BY <1>1, <1>2 DEF Kinds

\* No value is the sentinel for a missing metric.
LEMMA ValuesPresent == \A k \in Kinds : Absent \notin Values(k)
  BY ValuesAssumption, HalfRangeAssumption DEF Kinds, Values

-----------------------------------------------------------------------------
(* Folds.                                                                  *)

\* Among the subsets of a finite set in T there is one that has no other
\* inside.
LEMMA SmallestSubset ==
  ASSUME NEW S, IsFiniteSet(S), NEW T, T \subseteq SUBSET S, T # {}
  PROVE  \E m \in T : \A y \in T : y \subseteq m => y = m
  <1>1. T \subseteq FiniteSubsetsOf(S)
    BY FS_FiniteSubsetsOfFinite
  <1>2. \E m \in T : \A y \in T : <<y, m>> \notin StrictSubsetOrdering(S)
    BY <1>1, FS_StrictSubsetOrderingWellFounded, WFMin
  <1>3. QED
    BY <1>2 DEF StrictSubsetOrdering

\* g is the fold over the subsets of S that starts from base and takes the
\* element choose[u] of u last; step[x] is the function applied for x.
IsFold(g, S, base, choose, step) ==
  g = [u \in SUBSET S |->
         IF u = {} THEN base ELSE step[choose[u]][g[u \ {choose[u]}]]]

\* choose[u] is an element of u.
Chooses(choose, S) == \A u \in SUBSET S : u # {} => choose[u] \in u

\* Two folds that apply the same functions agree where both are defined.
LEMMA FoldsAgree ==
  ASSUME NEW S, IsFiniteSet(S), NEW T \in SUBSET S, NEW base, NEW choose, NEW g, NEW h,
         NEW stepg, NEW steph, Chooses(choose, S), \A x \in T : stepg[x] = steph[x],
         IsFold(g, S, base, choose, stepg), IsFold(h, T, base, choose, steph)
  PROVE  \A u \in SUBSET T : g[u] = h[u]
  <1> DEFINE Differ == {u \in SUBSET T : g[u] # h[u]}
  <1>1. SUFFICES ASSUME Differ # {} PROVE FALSE
    OBVIOUS
  <1>2. PICK m \in Differ : \A y \in Differ : y \subseteq m => y = m
    <2>1. Differ \subseteq SUBSET S
      OBVIOUS
    <2> HIDE DEF Differ
    <2>2. QED
      BY <1>1, <2>1, SmallestSubset
  <1>3. m \in SUBSET T /\ m \in SUBSET S
    BY <1>2
  <1>4. m # {}
    BY <1>2, <1>3 DEF IsFold
  <1>5. choose[m] \in m
    BY <1>3, <1>4 DEF Chooses
  <1>6. g[m \ {choose[m]}] = h[m \ {choose[m]}]
    BY <1>2, <1>3, <1>5
  <1>7. g[m] = stepg[choose[m]][g[m \ {choose[m]}]]
    BY <1>3, <1>4 DEF IsFold
  <1>8. h[m] = steph[choose[m]][h[m \ {choose[m]}]]
    BY <1>3, <1>4 DEF IsFold
  <1>9. QED
    BY <1>2, <1>3, <1>5, <1>6, <1>7, <1>8

\* The fold over a set holds the folds over its subsets.
LEMMA FoldOfPart ==
  ASSUME NEW S, IsFiniteSet(S), NEW T \in SUBSET S, NEW base, NEW choose, NEW step,
         NEW g, NEW h, Chooses(choose, S),
         IsFold(g, S, base, choose, step), IsFold(h, T, base, choose, step)
  PROVE  g[T] = h[T]
  BY FoldsAgree

\* There is a fold over the subsets of every finite set.
LEMMA FoldsExist ==
  ASSUME NEW S, IsFiniteSet(S), NEW base, NEW choose, NEW step, Chooses(choose, S)
  PROVE  \E g : IsFold(g, S, base, choose, step)
  <1> DEFINE Without == {s \in SUBSET S : ~ \E g : IsFold(g, s, base, choose, step)}
  <1>1. SUFFICES ASSUME Without # {} PROVE FALSE
    BY Zenon
  <1>2. PICK m \in Without : \A y \in Without : y \subseteq m => y = m
    <2>1. Without \subseteq SUBSET S
      OBVIOUS
    <2> HIDE DEF Without
    <2>2. QED
      BY <1>1, <2>1, SmallestSubset
  <1> DEFINE F(s)     == CHOOSE g : IsFold(g, s, base, choose, step)
             before(u) == u \ {choose[u]}
             h        == [u \in SUBSET m |->
                            IF u = {} THEN base
                                      ELSE step[choose[u]][F(before(u))[before(u)]]]
  <1>3. m \in SUBSET S
    BY <1>2
  <1>4. ASSUME NEW u \in SUBSET m, u # m
        PROVE  IsFold(F(u), u, base, choose, step)
    <2>1. u \in SUBSET S /\ u \notin Without
      BY <1>2, <1>3, <1>4
    <2>2. \E g : IsFold(g, u, base, choose, step)
      BY <2>1
    <2>3. QED
      BY <2>2, Zenon
  <1>5. ASSUME NEW u \in SUBSET m, u # {}
        PROVE  h[before(u)] = F(before(u))[before(u)]
    <2>1. choose[u] \in u /\ before(u) \in SUBSET m /\ before(u) # m /\ before(u) \in SUBSET S
      BY <1>3, <1>5 DEF Chooses
    <2>2. IsFold(F(before(u)), before(u), base, choose, step)
      BY <1>4, <2>1
    <2> DEFINE v == before(u)
    <2> HIDE DEF F
    <2>3. CASE v = {}
      <3>1. F(v)[v] = base
        BY <2>2, <2>3 DEF IsFold
      <3>2. h[v] = base
        BY <2>1, <2>3
      <3>3. QED
        BY <3>1, <3>2
    <2>4. CASE v # {}
      <3>1. choose[v] \in v /\ before(v) \in SUBSET v /\ before(v) \in SUBSET m /\ before(v) # m
        BY <2>1, <2>4, <1>3 DEF Chooses
      <3>2. F(v)[v] = step[choose[v]][F(v)[before(v)]]
        BY <2>2, <2>4 DEF IsFold
      <3>3. h[v] = step[choose[v]][F(before(v))[before(v)]]
        BY <2>1, <2>4
      <3>4. IsFold(F(before(v)), before(v), base, choose, step)
        BY <1>4, <3>1
      <3>5. IsFiniteSet(v) /\ Chooses(choose, v)
        BY <2>1, FS_Subset DEF Chooses
      <3>6. F(v)[before(v)] = F(before(v))[before(v)]
        <4>0. IsFold(F(v), v, base, choose, step)
          BY <2>2
        <4> HIDE DEF before, v
        <4>1. before(v) \in SUBSET v
          BY <3>1
        <4>2. QED
          BY <4>0, <4>1, <3>4, <3>5, FoldOfPart
      <3>7. QED
        BY <3>2, <3>3, <3>6
    <2>5. QED
      BY <2>3, <2>4
  <1>6. IsFold(h, m, base, choose, step)
    <2>1. ASSUME NEW u \in SUBSET m
          PROVE  h[u] = IF u = {} THEN base ELSE step[choose[u]][h[before(u)]]
      <3>1. CASE u = {}
        BY <3>1
      <3>2. CASE u # {}
        <4>1. h[u] = step[choose[u]][F(before(u))[before(u)]]
          BY <3>2
        <4> HIDE DEF F, h, before
        <4>2. QED
          BY <4>1, <3>2, <1>5
      <3>3. QED
        BY <3>1, <3>2
    <2> HIDE DEF F
    <2>2. h = [u \in SUBSET m |-> h[u]]
      OBVIOUS
    <2>3. QED
      BY <2>1, <2>2 DEF IsFold
  <1>7. QED
    BY <1>2, <1>6, Zenon

\* What folds over the sets of a type stays in the type.
LEMMA FoldsTyped ==
  ASSUME NEW S, IsFiniteSet(S), NEW V, NEW base \in V, NEW choose, NEW step, NEW g,
         Chooses(choose, S), IsFold(g, S, base, choose, step),
         \A x \in S, v \in V : step[x][v] \in V
  PROVE  \A u \in SUBSET S : g[u] \in V
  <1> DEFINE Outside == {u \in SUBSET S : g[u] \notin V}
  <1>1. SUFFICES ASSUME Outside # {} PROVE FALSE
    OBVIOUS
  <1>2. PICK m \in Outside : \A y \in Outside : y \subseteq m => y = m
    <2>1. Outside \subseteq SUBSET S
      OBVIOUS
    <2> HIDE DEF Outside
    <2>2. QED
      BY <1>1, <2>1, SmallestSubset
  <1>3. m \in SUBSET S /\ g[m] \notin V
    BY <1>2
  <1>4. m # {}
    BY <1>3 DEF IsFold
  <1>5. choose[m] \in m
    BY <1>3, <1>4 DEF Chooses
  <1>6. g[m \ {choose[m]}] \in V
    BY <1>2, <1>3, <1>5
  <1>7. g[m] = step[choose[m]][g[m \ {choose[m]}]]
    BY <1>3, <1>4 DEF IsFold
  <1>8. QED
    BY <1>3, <1>5, <1>6, <1>7

-----------------------------------------------------------------------------
(* Sums.                                                                   *)

\* g[u] adds up val[x] for the elements x of u, in the order of choose.
IsSum(g, S, choose, val) ==
  g = [u \in SUBSET S |-> IF u = {} THEN 0 ELSE val[choose[u]] + g[u \ {choose[u]}]]

\* Numbers have a sum, and it is a number.
LEMMA SumsExist ==
  ASSUME NEW S, IsFiniteSet(S), NEW choose, Chooses(choose, S), NEW val,
         \A x \in S : val[x] \in Int
  PROVE  \E g : IsSum(g, S, choose, val) /\ \A u \in SUBSET S : g[u] \in Int
  <1> DEFINE plus == [x \in S |-> [v \in Int |-> val[x] + v]]
  <1>1. \A x \in S, v \in Int : plus[x][v] = val[x] + v /\ plus[x][v] \in Int
    OBVIOUS
  <1> HIDE DEF plus
  <1>2. PICK g : IsFold(g, S, 0, choose, plus)
    BY FoldsExist
  <1>3. \A u \in SUBSET S : g[u] \in Int
    BY <1>1, <1>2, FoldsTyped
  <1>4. ASSUME NEW u \in SUBSET S
        PROVE  g[u] = IF u = {} THEN 0 ELSE val[choose[u]] + g[u \ {choose[u]}]
    <2>1. CASE u = {}
      BY <1>2, <2>1 DEF IsFold
    <2>2. CASE u # {}
      <3>1. choose[u] \in S /\ g[u \ {choose[u]}] \in Int
        BY <1>3, <2>2 DEF Chooses
      <3>2. g[u] = plus[choose[u]][g[u \ {choose[u]}]]
        BY <1>2, <2>2 DEF IsFold
      <3>3. QED
        BY <1>1, <2>2, <3>1, <3>2
    <2>3. QED
      BY <2>1, <2>2
  <1>5. g = [u \in SUBSET S |-> g[u]]
    BY <1>2 DEF IsFold
  <1>6. QED
    BY <1>3, <1>4, <1>5 DEF IsSum

\* A sum depends on nothing but the numbers of its elements.
LEMMA SumsAgree ==
  ASSUME NEW S, IsFiniteSet(S), NEW T \in SUBSET S, NEW choose, Chooses(choose, S),
         NEW g, NEW h, NEW valg, NEW valh, \A x \in T : valg[x] = valh[x],
         IsSum(g, S, choose, valg), IsSum(h, T, choose, valh)
  PROVE  \A u \in SUBSET T : g[u] = h[u]
  <1> DEFINE Differ == {u \in SUBSET T : g[u] # h[u]}
  <1>1. SUFFICES ASSUME Differ # {} PROVE FALSE
    OBVIOUS
  <1>2. PICK m \in Differ : \A y \in Differ : y \subseteq m => y = m
    <2>1. Differ \subseteq SUBSET S
      OBVIOUS
    <2> HIDE DEF Differ
    <2>2. QED
      BY <1>1, <2>1, SmallestSubset
  <1>3. m \in SUBSET T /\ m \in SUBSET S
    BY <1>2
  <1>4. m # {}
    BY <1>2, <1>3 DEF IsSum
  <1>5. choose[m] \in m
    BY <1>3, <1>4 DEF Chooses
  <1>6. g[m \ {choose[m]}] = h[m \ {choose[m]}]
    BY <1>2, <1>3, <1>5
  <1>7. g[m] = valg[choose[m]] + g[m \ {choose[m]}]
    BY <1>3, <1>4 DEF IsSum
  <1>8. h[m] = valh[choose[m]] + h[m \ {choose[m]}]
    BY <1>3, <1>4 DEF IsSum
  <1>9. QED
    BY <1>2, <1>3, <1>5, <1>6, <1>7, <1>8

\* Any element can be the last that is added.
LEMMA SumTakesAny ==
  ASSUME NEW S, IsFiniteSet(S), NEW choose, Chooses(choose, S), NEW val, NEW g,
         \A x \in S : val[x] \in Int, IsSum(g, S, choose, val), \A u \in SUBSET S : g[u] \in Int
  PROVE  \A u \in SUBSET S : \A x \in u : g[u] = val[x] + g[u \ {x}]
  <1> DEFINE Fails == {u \in SUBSET S : \E x \in u : g[u] # val[x] + g[u \ {x}]}
  <1>1. SUFFICES ASSUME Fails # {} PROVE FALSE
    OBVIOUS
  <1>2. PICK m \in Fails : \A y \in Fails : y \subseteq m => y = m
    <2>1. Fails \subseteq SUBSET S
      OBVIOUS
    <2> HIDE DEF Fails
    <2>2. QED
      BY <1>1, <2>1, SmallestSubset
  <1>3. PICK x \in m : g[m] # val[x] + g[m \ {x}]
    BY <1>2
  <1>4. m \in SUBSET S /\ m # {}
    BY <1>2, <1>3
  <1>5. PICK y \in m : y = choose[m]
    BY <1>4 DEF Chooses
  <1>6. g[m] = val[y] + g[m \ {y}]
    BY <1>4, <1>5 DEF IsSum
  <1>7. x # y
    BY <1>3, <1>6
  <1>8. ASSUME NEW v \in m, NEW w \in m, v # w
        PROVE  g[m \ {v}] = val[w] + g[(m \ {v}) \ {w}]
    <2>1. m \ {v} \in SUBSET S /\ m \ {v} \subseteq m /\ m \ {v} # m
      BY <1>4
    <2>2. m \ {v} \notin Fails
      BY <1>2, <2>1
    <2>3. w \in m \ {v}
      BY <1>8
    <2>4. QED
      BY <2>1, <2>2, <2>3
  <1>9. /\ g[m \ {y}] = val[x] + g[(m \ {y}) \ {x}]
        /\ g[m \ {x}] = val[y] + g[(m \ {x}) \ {y}]
    BY <1>7, <1>8
  <1>10. (m \ {y}) \ {x} = (m \ {x}) \ {y}
    OBVIOUS
  <1>11. PICK v \in Int, w \in Int, rest \in Int :
           v = val[x] /\ w = val[y] /\ rest = g[(m \ {x}) \ {y}]
    <2>1. x \in S /\ y \in S /\ (m \ {x}) \ {y} \in SUBSET S
      BY <1>4
    <2>2. QED
      BY <2>1
  <1>12. g[m] = w + (v + rest) /\ g[m \ {x}] = w + rest
    BY <1>6, <1>9, <1>10, <1>11
  <1>13. g[m] = v + g[m \ {x}]
    BY <1>12
  <1>14. QED
    BY <1>3, <1>11, <1>13

-----------------------------------------------------------------------------
(* Sums that wrap around.                                                  *)

\* A remainder is the only one.
LEMMA OneRemainder ==
  ASSUME NEW m \in Nat \ {0}, NEW d \in Int, NEW e \in Int,
         NEW r \in 0 .. m - 1, NEW s \in 0 .. m - 1, m * d + r = m * e + s
  PROVE  r = s
  <1>1. PICK k \in Int : k = d - e
    OBVIOUS
  <1>2. m * k = s - r
    BY <1>1
  <1>3. CASE k >= 1
    <2>1. m * k >= m
      BY <1>3
    <2>2. QED
      BY <1>2, <2>1
  <1>4. CASE k <= -1
    <2>1. m * k <= -m
      BY <1>4
    <2>2. QED
      BY <1>2, <2>1
  <1>5. CASE k = 0
    BY <1>2, <1>5
  <1>6. QED
    BY <1>3, <1>4, <1>5

LEMMA Division ==
  ASSUME NEW m \in Nat \ {0}, NEW a \in Int
  PROVE  \E d \in Int : a = m * d + (a % m) /\ a % m \in 0 .. m - 1
  <1>1. a = m * (a \div m) + (a % m) /\ a % m \in 0 .. m - 1 /\ a \div m \in Int
    OBVIOUS
  <1>2. QED
    BY <1>1

\* It does not matter when a sum is wrapped.
LEMMA WrapAdds ==
  ASSUME NEW a \in Int, NEW b \in Int
  PROVE  Wrap(Wrap(a) + b) = Wrap(a + b)
  <1>1. PICK h \in Nat \ {0}, m \in Nat \ {0} : h = HalfRange /\ m = 2 * HalfRange
    BY HalfRangeAssumption
  <1>2. PICK x \in Int, q \in 0 .. m - 1, d \in Int :
           x = a + h /\ q = x % m /\ x = m * d + q
    <2>1. PICK x \in Int : x = a + h
      OBVIOUS
    <2>2. PICK d \in Int : x = m * d + (x % m) /\ x % m \in 0 .. m - 1
      BY Division
    <2>3. QED
      BY <2>1, <2>2
  <1>3. PICK w \in Int : w = q - h
    OBVIOUS
  <1>4. PICK y \in Int, r \in 0 .. m - 1, e \in Int :
           y = (w + b) + h /\ r = y % m /\ y = m * e + r
    <2>1. PICK y \in Int : y = (w + b) + h
      OBVIOUS
    <2>2. PICK e \in Int : y = m * e + (y % m) /\ y % m \in 0 .. m - 1
      BY Division
    <2>3. QED
      BY <2>1, <2>2
  <1>5. PICK z \in Int, s \in 0 .. m - 1, f \in Int :
           z = (a + b) + h /\ s = z % m /\ z = m * f + s
    <2>1. PICK z \in Int : z = (a + b) + h
      OBVIOUS
    <2>2. PICK f \in Int : z = m * f + (z % m) /\ z % m \in 0 .. m - 1
      BY Division
    <2>3. QED
      BY <2>1, <2>2
  <1>6. r = s
    <2>1. z = m * d + y
      BY <1>2, <1>3, <1>4, <1>5
    <2>2. m * (d + e) = m * d + m * e /\ d + e \in Int
      OBVIOUS
    <2>3. PICK i \in Int, j \in Int : i = m * d /\ j = m * e
      OBVIOUS
    <2>4. z = i + (j + r) /\ m * (d + e) = i + j
      BY <1>4, <2>1, <2>2, <2>3
    <2>5. m * (d + e) + r = m * f + s
      BY <1>5, <2>4
    <2>6. QED
      BY <2>2, <2>5, OneRemainder
  <1>7. Wrap(a) = w /\ Wrap(w + b) = r - h /\ Wrap(a + b) = s - h
    BY <1>1, <1>2, <1>3, <1>4, <1>5 DEF Wrap
  <1>8. QED
    BY <1>6, <1>7

\* What is in range is not changed.
LEMMA WrapInside ==
  ASSUME NEW v \in -HalfRange .. HalfRange - 1
  PROVE  Wrap(v) = v
  <1>1. PICK h \in Nat \ {0}, m \in Nat \ {0} : h = HalfRange /\ m = 2 * HalfRange
    BY HalfRangeAssumption
  <1>2. PICK x \in 0 .. m - 1 : x = v + h
    BY <1>1
  <1>3. PICK d \in Int, r \in 0 .. m - 1 : x = m * d + r /\ r = x % m
    <2>1. x \in Int
      OBVIOUS
    <2>2. QED
      BY <2>1, Division
  <1>4. r = x
    <2>1. m * 0 + x = m * d + r
      BY <1>3
    <2>2. QED
      BY <2>1, OneRemainder
  <1>5. QED
    BY <1>1, <1>2, <1>3, <1>4 DEF Wrap
=============================================================================
