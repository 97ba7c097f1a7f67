--------------------------- MODULE Traffic_proofs ---------------------------
(***************************************************************************)
(* Proofs about Traffic: that it implements Ledger (BilledOnce), for any   *)
(* number of users, connections, bytes, failures and overlapping jobs, and *)
(* that the lists of who is online are complete; and about StatsHistory,   *)
(* through an instance: that charts are (ChartsComplete), for any spans.   *)
(*                                                                         *)
(* What is owed is a sum over the jobs, and a point of a chart one over    *)
(* rows, which Folds computes by recursion over the subsets of a set.  That*)
(* such a sum exists, is unique, moves as one of its summands does, and is *)
(* the sum of the sums of parts, is proved by looking at a smallest set for*)
(* which it would be false.                                                *)
(***************************************************************************)
EXTENDS MCTraffic, FiniteSetTheorems, TLAPS

-----------------------------------------------------------------------------
(* Sums over a finite set. *)

Pick(s) == CHOOSE x \in s : TRUE

\* g adds f up over the subsets of S.
Adds(g, f, S) ==
  /\ g \in [SUBSET S -> Nat]
  /\ \A s \in SUBSET S : g[s] = IF s = {} THEN 0 ELSE f[Pick(s)] + g[s \ {Pick(s)}]

\* A family of subsets of a finite set has a smallest one.
LEMMA Minimal ==
  ASSUME NEW S, IsFiniteSet(S), NEW T, T \subseteq SUBSET S, T # {}
  PROVE  \E s \in T : \A t \in T : t \subseteq s => t = s
<1>1. IsWellFoundedOn(StrictSubsetOrdering(S), SUBSET S)
  BY FS_StrictSubsetOrderingWellFounded, FS_FiniteSubsetsOfFinite
<1>2. \E s \in T : \A t \in T : ~ (<<t, s>> \in StrictSubsetOrdering(S))
  <2> HIDE DEF StrictSubsetOrdering
  <2> QED BY <1>1, WFMin
<1> QED
  BY <1>2 DEF StrictSubsetOrdering

\* The partial sums of the same terms are the same.
LEMMA AddsUnique ==
  ASSUME NEW S, IsFiniteSet(S), NEW f, NEW g, NEW h, Adds(g, f, S), Adds(h, f, S)
  PROVE  g = h
<1> DEFINE T == {s \in SUBSET S : g[s] # h[s]}
<1>1. CASE T = {}
  BY <1>1 DEF Adds
<1>2. CASE T # {}
  <2>1. PICK s \in T : \A t \in T : t \subseteq s => t = s
    <3>1. T \subseteq SUBSET S
      OBVIOUS
    <3> HIDE DEF T
    <3> QED
      BY <1>2, <3>1, Minimal
  <2>2. s # {}
    BY DEF Adds
  <2>3. Pick(s) \in s
    BY <2>2 DEF Pick
  <2>4. g[s \ {Pick(s)}] = h[s \ {Pick(s)}]
    <3>1. s \ {Pick(s)} \in SUBSET S /\ s \ {Pick(s)} # s /\ s \ {Pick(s)} \subseteq s
      BY <2>3
    <3> QED
      BY <2>1, <3>1
  <2>5. g[s] = f[Pick(s)] + g[s \ {Pick(s)}] /\ h[s] = f[Pick(s)] + h[s \ {Pick(s)}]
    BY <2>2 DEF Adds
  <2> QED
    BY <2>4, <2>5
<1> QED
  BY <1>1, <1>2

\* What adds up over the subsets of S adds up over those of a part of S.
LEMMA AddsPart ==
  ASSUME NEW S, NEW f, NEW g, Adds(g, f, S), NEW s, s \subseteq S
  PROVE  \E h : Adds(h, f, s) /\ h[s] = g[s]
<1>1. \A t \in SUBSET s : t \in SUBSET S /\ t \ {Pick(t)} \in SUBSET s /\ t \ {Pick(t)} \in SUBSET S
  OBVIOUS
<1>2. Adds([t \in SUBSET s |-> g[t]], f, s)
  BY <1>1 DEF Adds
<1> QED
  BY <1>2

\* By the values on smaller sets, which a smallest counterexample would have.
LEMMA AddsExists ==
  ASSUME NEW S, IsFiniteSet(S), NEW f \in [S -> Nat]
  PROVE  \E g : Adds(g, f, S)
<1> DEFINE T == {s \in SUBSET S : \A g : ~ Adds(g, f, s)}
<1>1. CASE T = {}
  BY <1>1
<1>2. CASE T # {}
  <2>1. PICK s \in T : \A t \in T : t \subseteq s => t = s
    <3>1. T \subseteq SUBSET S
      OBVIOUS
    <3> HIDE DEF T
    <3> QED
      BY <1>2, <3>1, Minimal
  <2> DEFINE H == [t \in SUBSET s |-> CHOOSE v : \E g : Adds(g, f, t) /\ v = g[t]]
             p == Pick(s)
             G == [t \in SUBSET s |-> IF t # s THEN H[t]
                                      ELSE IF s = {} THEN 0 ELSE f[p] + H[s \ {p}]]
  <2>2. ASSUME NEW t \in SUBSET s, t # s
        PROVE  \E g : Adds(g, f, t) /\ H[t] = g[t]
    <3>1. PICK g : Adds(g, f, t)
      BY <2>1, <2>2
    <3>2. \E v : \E gg : Adds(gg, f, t) /\ v = gg[t]
      BY <3>1
    <3>3. \E gg : Adds(gg, f, t) /\ (CHOOSE v : \E g2 : Adds(g2, f, t) /\ v = g2[t]) = gg[t]
      BY <3>2, Zenon
    <3> QED
      BY <3>3
  <2> HIDE DEF H
  <2>3. ASSUME NEW t \in SUBSET s, t # s
        PROVE  /\ H[t] \in Nat
               /\ H[t] = IF t = {} THEN 0 ELSE f[Pick(t)] + H[t \ {Pick(t)}]
    <3>1. PICK g : Adds(g, f, t) /\ H[t] = g[t]
      BY <2>2, <2>3
    <3>2. t \in SUBSET t
      OBVIOUS
    <3>3. H[t] \in Nat
      BY <3>1, <3>2 DEF Adds
    <3>4. CASE t = {}
      BY <3>1, <3>2, <3>3, <3>4 DEF Adds
    <3>5. CASE t # {}
      <4> DEFINE u == t \ {Pick(t)}
      <4>1. u \in SUBSET t /\ u \in SUBSET s /\ u # s
        <5>1. Pick(t) \in t
          BY <3>5 DEF Pick
        <5> QED
          BY <2>3, <5>1
      <4> HIDE DEF u
      <4>2. PICK k : Adds(k, f, u) /\ k[u] = g[u]
        <5>1. Adds(g, f, t) /\ u \subseteq t
          BY <3>1, <4>1
        <5> HIDE DEF T, p, G
        <5> QED
          BY <5>1, AddsPart
      <4>3. PICK h : Adds(h, f, u) /\ H[u] = h[u]
        BY <2>2, <4>1
      <4>4. IsFiniteSet(u)
        <5>1. u \in SUBSET S
          BY <2>1, <4>1
        <5> QED
          BY <5>1, FS_Subset
      <4>5. k = h
        BY <4>2, <4>3, <4>4, AddsUnique
      <4>6. g[u] = H[u]
        BY <4>2, <4>3, <4>5
      <4> QED
        BY <3>1, <3>2, <3>3, <3>5, <4>6 DEF Adds, u
    <3> QED
      BY <3>3, <3>4, <3>5
  <2>4. \A t \in SUBSET s : G[t] \in Nat
    <3>1. CASE s = {}
      BY <2>3, <3>1
    <3>2. CASE s # {}
      <4>1. p \in s
        BY <3>2 DEF Pick
      <4>2. s \ {p} \in SUBSET s /\ s \ {p} # s /\ f[p] \in Nat
        BY <4>1
      <4>3. H[s \ {p}] \in Nat
        BY <2>3, <4>2
      <4>4. f[p] + H[s \ {p}] \in Nat
        BY <4>2, <4>3
      <4> QED
        BY <2>3, <3>2, <4>4
    <3> QED
      BY <3>1, <3>2
  <2>5. ASSUME NEW t \in SUBSET s
        PROVE  G[t] = IF t = {} THEN 0 ELSE f[Pick(t)] + G[t \ {Pick(t)}]
    <3>1. CASE t = {}
      BY <2>3, <3>1
    <3>2. CASE t # {}
      <4>1. Pick(t) \in t
        BY <3>2 DEF Pick
      <4>2. t \ {Pick(t)} \in SUBSET s /\ t \ {Pick(t)} # s
        BY <4>1
      <4>3. G[t \ {Pick(t)}] = H[t \ {Pick(t)}]
        BY <4>2
      <4>4. CASE t = s
        BY <3>2, <4>3, <4>4
      <4>5. CASE t # s
        BY <2>3, <3>2, <4>3, <4>5
      <4> QED
        BY <4>4, <4>5
    <3> QED
      BY <3>1, <3>2
  <2> HIDE DEF G
  <2>6. G \in [SUBSET s -> Nat]
    BY <2>4 DEF G
  <2>7. Adds(G, f, s)
    BY <2>5, <2>6 DEF Adds
  <2> QED
    BY <2>7
<1> QED
  BY <1>1, <1>2

\* A change of one summand changes the sum as much.
LEMMA AddsExcept ==
  ASSUME NEW S, IsFiniteSet(S), NEW f \in [S -> Nat], NEW e \in [S -> Nat], NEW x \in S,
         \A y \in S \ {x} : e[y] = f[y],
         NEW g, Adds(g, f, S), NEW h, Adds(h, e, S)
  PROVE  h[S] + f[x] = g[S] + e[x]
<1> DEFINE Right(s) == /\ x \in s => h[s] + f[x] = g[s] + e[x]
                       /\ x \notin s => h[s] = g[s]
           T == {s \in SUBSET S : ~ Right(s)}
<1>1. CASE T = {}
  BY <1>1
<1>2. CASE T # {}
  <2>1. PICK s \in T : \A t \in T : t \subseteq s => t = s
    <3>1. T \subseteq SUBSET S
      OBVIOUS
    <3> HIDE DEF T
    <3> QED
      BY <1>2, <3>1, Minimal
  <2>2. s # {}
    BY DEF Adds
  <2>3. Pick(s) \in s
    BY <2>2 DEF Pick
  <2> DEFINE u == s \ {Pick(s)}
  <2>4. u \in SUBSET S /\ u # s /\ u \subseteq s
    BY <2>3
  <2>5. Right(u)
    BY <2>1, <2>4
  <2>6. g[s] = f[Pick(s)] + g[u] /\ h[s] = e[Pick(s)] + h[u]
    BY <2>2 DEF Adds
  <2>7. g[s] \in Nat /\ h[s] \in Nat /\ g[u] \in Nat /\ h[u] \in Nat /\ f[x] \in Nat
    BY <2>4 DEF Adds
  <2>8. f[Pick(s)] \in Nat /\ e[x] \in Nat /\ (Pick(s) # x => e[Pick(s)] = f[Pick(s)])
    BY <2>3
  <2>9. CASE Pick(s) = x
    BY <2>3, <2>5, <2>6, <2>7, <2>8, <2>9
  <2>10. CASE Pick(s) # x
    BY <2>3, <2>5, <2>6, <2>7, <2>8, <2>10
  <2> QED
    BY <2>9, <2>10
<1> QED
  BY <1>1, <1>2

\* A sum of zeros is zero.
LEMMA AddsZero ==
  ASSUME NEW S, IsFiniteSet(S), NEW f, \A x \in S : f[x] = 0, NEW g, Adds(g, f, S)
  PROVE  g[S] = 0
<1>1. Adds([s \in SUBSET S |-> 0], f, S)
  BY DEF Adds, Pick
<1> QED
  BY <1>1, AddsUnique

-----------------------------------------------------------------------------
(* Sums of numbers that a function names, over finite sets. *)

\* The sum of f over S.
Total(f, S) == (CHOOSE g : Adds(g, f, S))[S]

\* The terms of a sum are numbers.
Terms(f, S) == IsFiniteSet(S) /\ \A x \in S : f[x] \in Nat

\* A sum is read off any function that adds up over the set or over more.
LEMMA TotalOf ==
  ASSUME NEW S, NEW f, Terms(f, S)
  PROVE  \E g : Adds(g, f, S) /\ \A s \in SUBSET S : Total(f, s) = g[s] /\ Terms(f, s)
<1> DEFINE e == [x \in S |-> f[x]]
<1>1. PICK g : Adds(g, e, S)
  <2>1. e \in [S -> Nat] /\ IsFiniteSet(S)
    BY DEF Terms
  <2> HIDE DEF e
  <2> QED BY <2>1, AddsExists
<1>2. Adds(g, f, S)
  BY <1>1 DEF Adds, Pick
<1>3. ASSUME NEW s \in SUBSET S
      PROVE  Total(f, s) = g[s] /\ Terms(f, s)
  <2>1. IsFiniteSet(s)
    BY FS_Subset DEF Terms
  <2>2. PICK h : Adds(h, f, s) /\ h[s] = g[s]
    BY <1>2, AddsPart
  <2>3. Adds(CHOOSE k : Adds(k, f, s), f, s)
    BY <2>2, Zenon
  <2>4. (CHOOSE k : Adds(k, f, s)) = h
    BY <2>1, <2>2, <2>3, AddsUnique
  <2> QED BY <2>1, <2>2, <2>4 DEF Total, Terms
<1> QED BY <1>2, <1>3

\* Sums are numbers, that of nothing is 0.
LEMMA TotalType ==
  ASSUME NEW S, NEW f, Terms(f, S)
  PROVE  Total(f, S) \in Nat /\ (S = {} => Total(f, S) = 0)
<1>1. PICK g : Adds(g, f, S) /\ \A s \in SUBSET S : Total(f, s) = g[s]
  BY TotalOf
<1>2. S \in SUBSET S
  OBVIOUS
<1> QED BY <1>1, <1>2 DEF Adds

\* Any term can be taken out of a sum: not only the one that Folds takes first.
LEMMA TotalStep ==
  ASSUME NEW S, NEW f, Terms(f, S), NEW x \in S
  PROVE  Total(f, S) = f[x] + Total(f, S \ {x})
<1>1. PICK g : Adds(g, f, S) /\ \A s \in SUBSET S : Total(f, s) = g[s]
  BY TotalOf
<1> DEFINE T == {s \in SUBSET S : \E y \in s : g[s] # f[y] + g[s \ {y}]}
<1>2. CASE T = {}
  <2>1. S \in SUBSET S /\ S \ {x} \in SUBSET S
    OBVIOUS
  <2>2. g[S] = f[x] + g[S \ {x}]
    BY <1>2, <2>1
  <2> QED BY <1>1, <2>1, <2>2
<1>3. CASE T # {}
  <2>1. PICK s \in T : \A t \in T : t \subseteq s => t = s
    <3>1. T \subseteq SUBSET S /\ IsFiniteSet(S)
      BY DEF Terms
    <3> HIDE DEF T
    <3> QED BY <1>3, <3>1, Minimal
  <2>2. s \in SUBSET S
    OBVIOUS
  <2>3. PICK y \in s : g[s] # f[y] + g[s \ {y}]
    OBVIOUS
  <2>4. PICK z : z = Pick(s)
    OBVIOUS
  <2>5. z \in s
    BY <2>3, <2>4 DEF Pick
  <2>6. g[s] = f[z] + g[s \ {z}]
    BY <1>1, <2>2, <2>4, <2>5 DEF Adds
  <2>7. z # y
    BY <2>3, <2>6
  <2>8. s \ {y} \notin T /\ s \ {z} \notin T
    BY <2>1, <2>3, <2>5
  <2>9. g[s \ {z}] = f[y] + g[(s \ {z}) \ {y}]
    BY <2>2, <2>3, <2>7, <2>8
  <2>10. g[s \ {y}] = f[z] + g[(s \ {y}) \ {z}]
    BY <2>2, <2>5, <2>7, <2>8
  <2>11. (s \ {z}) \ {y} = (s \ {y}) \ {z} /\ (s \ {y}) \ {z} \in SUBSET S
    BY <2>2
  <2>12. f[y] \in Nat /\ f[z] \in Nat /\ g[(s \ {y}) \ {z}] \in Nat
    BY <1>1, <2>2, <2>3, <2>5, <2>11 DEF Adds, Terms
  <2>13. g[s] = f[y] + g[s \ {y}]
    <3> DEFINE rest == g[(s \ {y}) \ {z}]
    <3>1. g[s] = f[z] + (f[y] + rest) /\ g[s \ {y}] = f[z] + rest
      BY <2>6, <2>9, <2>10, <2>11
    <3>2. rest \in Nat
      BY <2>12
    <3> HIDE DEF rest
    <3> QED BY <2>12, <3>1, <3>2
  <2> QED BY <2>3, <2>13
<1> QED BY <1>2, <1>3

\* Sums of the same terms are the same.
LEMMA TotalSame ==
  ASSUME NEW S, NEW f, NEW e, Terms(f, S), \A x \in S : e[x] = f[x]
  PROVE  Total(e, S) = Total(f, S)
<1>1. PICK g : Adds(g, f, S) /\ \A s \in SUBSET S : Total(f, s) = g[s]
  BY TotalOf
<1>2. Terms(e, S)
  BY DEF Terms
<1>3. PICK h : Adds(h, e, S) /\ \A s \in SUBSET S : Total(e, s) = h[s]
  BY <1>2, TotalOf
<1>4. Adds(h, f, S)
  BY <1>3 DEF Adds, Pick
<1>5. g = h
  BY <1>1, <1>4, AddsUnique DEF Terms
<1>6. S \in SUBSET S
  OBVIOUS
<1> QED BY <1>1, <1>3, <1>5, <1>6

\* The sums of the parts of S, by what c says.
Parts(f, S, c, B) == [b \in B |-> Total(f, {x \in S : c[x] = b})]

\* The sum of the sums of the parts is the sum of all.
LEMMA TotalOfParts ==
  ASSUME NEW S, NEW f, Terms(f, S), NEW B, IsFiniteSet(B), NEW c, \A x \in S : c[x] \in B
  PROVE  Terms(Parts(f, S, c, B), B) /\ Total(Parts(f, S, c, B), B) = Total(f, S)
<1> DEFINE of(s, b) == {x \in s : c[x] = b}
           parts(s) == [b \in B |-> Total(f, of(s, b))]
           T == {s \in SUBSET S : Total(parts(s), B) # Total(f, s)}
<1>1. ASSUME NEW s \in SUBSET S
      PROVE  Terms(f, s) /\ Terms(parts(s), B)
             /\ \A b \in B : Terms(f, of(s, b)) /\ parts(s)[b] = Total(f, of(s, b))
  <2>1. PICK g : \A t \in SUBSET S : Terms(f, t)
    BY TotalOf
  <2>2. Terms(f, s)
    BY <2>1
  <2>3. ASSUME NEW b \in B PROVE Terms(f, of(s, b)) /\ Total(f, of(s, b)) \in Nat
    <3>1. of(s, b) \in SUBSET S
      OBVIOUS
    <3> HIDE DEF of
    <3> QED BY <2>1, <3>1, TotalType
  <2> HIDE DEF of
  <2> QED BY <2>2, <2>3 DEF Terms
<1>2. CASE T = {}
  <2>1. S \in SUBSET S
    OBVIOUS
  <2> HIDE DEF parts
  <2>2. Total(parts(S), B) = Total(f, S) /\ Terms(parts(S), B)
    BY <1>1, <1>2, <2>1
  <2>3. Parts(f, S, c, B) = parts(S)
    BY DEF Parts, parts
  <2> QED BY <2>2, <2>3
<1>3. CASE T # {}
  <2>1. PICK s \in T : \A t \in T : t \subseteq s => t = s
    <3>1. T \subseteq SUBSET S /\ IsFiniteSet(S)
      BY DEF Terms
    <3> HIDE DEF T
    <3> QED BY <1>3, <3>1, Minimal
  <2>2. s \in SUBSET S /\ Total(parts(s), B) # Total(f, s)
    OBVIOUS
  <2>3. CASE s = {}
    <3>1. \A b \in B : of(s, b) = {}
      BY <2>3
    <3>2. \A b \in B : parts(s)[b] = 0
      <4> HIDE DEF of
      <4> QED BY <1>1, <2>2, <3>1, TotalType DEF parts
    <3>3. PICK g : Adds(g, parts(s), B) /\ \A t \in SUBSET B : Total(parts(s), t) = g[t]
      <4> HIDE DEF parts
      <4> QED BY <1>1, <2>2, TotalOf
    <3>4. g[B] = 0
      <4> HIDE DEF parts
      <4> QED BY <3>2, <3>3, AddsZero
    <3>5. Total(parts(s), B) = 0
      <4>1. B \in SUBSET B
        OBVIOUS
      <4> HIDE DEF parts
      <4> QED BY <3>3, <3>4, <4>1
    <3>6. Total(f, s) = 0
      BY <1>1, <2>2, <2>3, TotalType
    <3> HIDE DEF parts
    <3> QED BY <2>2, <3>5, <3>6
  <2>4. CASE s # {}
    <3>1. PICK x \in s : TRUE
      BY <2>4
    <3>2. PICK t, a : t = s \ {x} /\ a = c[x]
      OBVIOUS
    <3>3. t \in SUBSET S /\ t \notin T /\ a \in B /\ x \in S
      BY <2>1, <2>2, <3>1, <3>2
    <3>4. Total(parts(t), B) = Total(f, t)
      BY <3>3
    <3>5. Total(f, s) = f[x] + Total(f, t)
      BY <1>1, <2>2, <3>1, <3>2, TotalStep
    <3>6. of(t, a) = of(s, a) \ {x} /\ x \in of(s, a) /\ \A b \in B \ {a} : of(t, b) = of(s, b)
      BY <3>1, <3>2
    <3> HIDE DEF of, T
    <3>7. parts(s)[a] = f[x] + parts(t)[a]
      <4>1. Terms(f, of(s, a))
        BY <1>1, <2>2, <3>3
      <4>2. Total(f, of(s, a)) = f[x] + Total(f, of(t, a))
        BY <3>6, <4>1, TotalStep
      <4>3. parts(s)[a] = Total(f, of(s, a)) /\ parts(t)[a] = Total(f, of(t, a))
        BY <3>3
      <4> HIDE DEF parts
      <4> QED BY <4>2, <4>3
    <3>8. \A b \in B \ {a} : parts(s)[b] = parts(t)[b]
      BY <3>6
    <3>9. Terms(parts(s), B) /\ Terms(parts(t), B)
      BY <1>1, <2>2, <3>3
    <3> HIDE DEF parts
    <3>10. /\ Total(parts(s), B) = parts(s)[a] + Total(parts(s), B \ {a})
           /\ Total(parts(t), B) = parts(t)[a] + Total(parts(t), B \ {a})
      BY <3>3, <3>9, TotalStep
    <3>11. Terms(parts(t), B \ {a})
      BY <3>9, FS_Subset DEF Terms
    <3>12. Total(parts(s), B \ {a}) = Total(parts(t), B \ {a}) /\ Total(parts(t), B \ {a}) \in Nat
      BY <3>8, <3>11, TotalSame, TotalType
    <3>13. f[x] \in Nat /\ parts(t)[a] \in Nat
      BY <3>3, <3>9 DEF Terms
    <3>14. Total(parts(s), B) = f[x] + Total(parts(t), B)
      <4>1. PICK p, q, r : p = f[x] /\ q = parts(t)[a] /\ r = Total(parts(t), B \ {a})
        OBVIOUS
      <4>2. Total(parts(s), B) = (p + q) + r /\ Total(parts(t), B) = q + r
        BY <3>7, <3>10, <3>12, <4>1
      <4> QED BY <3>12, <3>13, <4>1, <4>2
    <3> QED BY <2>2, <3>4, <3>5, <3>14
  <2> QED BY <2>3, <2>4
<1> QED BY <1>2, <1>3

\* What Folds chooses from.
Recursion(h, f, S) == h = [s \in SUBSET S |-> IF s = {} THEN 0 ELSE f[Pick(s)] + h[s \ {Pick(s)}]]
\* It is one function only, and it adds up.
LEMMA RecursionAdds ==
  ASSUME NEW S, NEW f, Terms(f, S)
  PROVE  \E g : g[S] = Total(f, S) /\ \A h : Recursion(h, f, S) <=> h = g
<1> DEFINE Sums(h) == h = [s \in SUBSET S |-> IF s = {} THEN 0 ELSE f[Pick(s)] + h[s \ {Pick(s)}]]
<1>1. PICK g : Adds(g, f, S) /\ \A s \in SUBSET S : Total(f, s) = g[s]
  BY TotalOf
<1>2. \A s \in SUBSET S : s # {} => Pick(s) \in s /\ s \ {Pick(s)} \in SUBSET S
  BY DEF Pick
<1>3. Sums(g)
  BY <1>1, <1>2 DEF Adds
<1>4. ASSUME NEW h, Sums(h) PROVE h = g
  <2> DEFINE T == {s \in SUBSET S : h[s] # g[s]}
  <2>1. CASE T = {}
    BY <1>3, <1>4, <2>1
  <2>2. CASE T # {}
    <3>1. PICK s \in T : \A t \in T : t \subseteq s => t = s
      <4>1. T \subseteq SUBSET S /\ IsFiniteSet(S)
        BY DEF Terms
      <4> HIDE DEF T
      <4> QED BY <2>2, <4>1, Minimal
    <3>2. s # {}
      BY <1>3, <1>4
    <3>3. Pick(s) \in s
      BY <3>2 DEF Pick
    <3>4. g[s \ {Pick(s)}] = h[s \ {Pick(s)}]
      <4>1. s \ {Pick(s)} \in SUBSET S /\ s \ {Pick(s)} # s /\ s \ {Pick(s)} \subseteq s
        BY <3>3
      <4> QED BY <3>1, <4>1
    <3>5. g[s] = f[Pick(s)] + g[s \ {Pick(s)}] /\ h[s] = f[Pick(s)] + h[s \ {Pick(s)}]
      BY <1>3, <1>4, <3>2
    <3> QED BY <3>4, <3>5
  <2> QED BY <2>1, <2>2
<1>5. S \in SUBSET S
  OBVIOUS
<1>6. \A h : Sums(h) <=> h = g
  <2> HIDE DEF Sums
  <2> QED BY <1>3, <1>4
<1>7. \A h : Recursion(h, f, S) <=> Sums(h)
  BY Zenon DEF Recursion
<1> HIDE DEF Sums
<1> QED BY <1>1, <1>5, <1>6, <1>7

-----------------------------------------------------------------------------
(* What the jobs have taken and not yet brought to the books. *)

\* Of one account.
InFlight(a) == MapThenSumSet(LAMBDA j : taken[j][a], Jobs)
Part(t, a) == [j \in Jobs |-> t[j][a]]

\* What Folds makes of MapThenSumSet.
LEMMA FoldsAre ==
  ASSUME NEW a
  PROVE  InFlight(a) = (CHOOSE h : h = [s \in SUBSET Jobs |->
            IF s = {} THEN 0 ELSE taken[Pick(s)][a] + h[s \ {Pick(s)}]])[Jobs]
BY DEF InFlight, MapThenSumSet, MapThenFoldSet, Pick

\* InFlight is such a sum: the function that Folds chooses is one that adds up.
LEMMA InFlightAdds ==
  taken \in [Jobs -> Counts] =>
    \A a \in Cells : \E g : Adds(g, Part(taken, a), Jobs) /\ InFlight(a) = g[Jobs]
<1> SUFFICES ASSUME taken \in [Jobs -> Counts], NEW a \in Cells
             PROVE  \E g : Adds(g, Part(taken, a), Jobs) /\ InFlight(a) = g[Jobs]
  OBVIOUS
<1> DEFINE f == Part(taken, a)
           Sums(h) == h = [s \in SUBSET Jobs |->
                            IF s = {} THEN 0 ELSE taken[Pick(s)][a] + h[s \ {Pick(s)}]]
<1>1. f \in [Jobs -> Nat] /\ \A j \in Jobs : f[j] = taken[j][a]
  BY DEF Part, Counts
<1> HIDE DEF f
<1>2. PICK g : Adds(g, f, Jobs)
  BY <1>1, AddsExists, JobsAssumption
<1>3. \A s \in SUBSET Jobs : s # {} => Pick(s) \in Jobs /\ s \ {Pick(s)} \in SUBSET Jobs
  BY DEF Pick
<1>4. Sums(g)
  BY <1>1, <1>2, <1>3 DEF Adds
<1>5. ASSUME NEW h, Sums(h) PROVE Adds(h, f, Jobs)
  <2> DEFINE T == {s \in SUBSET Jobs : h[s] # g[s]}
  <2>1. CASE T = {}
    <3>1. h = g
      BY <1>4, <1>5, <2>1
    <3> QED
      BY <1>2, <3>1
  <2>2. CASE T # {}
    <3>1. PICK s \in T : \A t \in T : t \subseteq s => t = s
      <4>1. T \subseteq SUBSET Jobs
        OBVIOUS
      <4> HIDE DEF T
      <4> QED
        BY <2>2, <4>1, Minimal, JobsAssumption
    <3>2. s # {}
      BY <1>4, <1>5
    <3>3. Pick(s) \in s
      BY <3>2 DEF Pick
    <3>4. g[s \ {Pick(s)}] = h[s \ {Pick(s)}]
      <4>1. s \ {Pick(s)} \in SUBSET Jobs /\ s \ {Pick(s)} # s /\ s \ {Pick(s)} \subseteq s
        BY <3>3
      <4> QED
        BY <3>1, <4>1
    <3>5. /\ g[s] = taken[Pick(s)][a] + g[s \ {Pick(s)}]
          /\ h[s] = taken[Pick(s)][a] + h[s \ {Pick(s)}]
      BY <1>4, <1>5, <3>2
    <3> QED
      BY <3>4, <3>5
  <2> QED
    BY <2>1, <2>2
<1>6. Sums(CHOOSE h : Sums(h))
  <2> HIDE DEF Sums
  <2> QED
    BY <1>4, Zenon
<1>7. Adds(CHOOSE h : Sums(h), f, Jobs)
  <2> HIDE DEF Sums
  <2> QED
    BY <1>5, <1>6
<1>8. InFlight(a) = (CHOOSE h : Sums(h))[Jobs]
  BY FoldsAre, Zenon
<1> QED
  BY <1>7, <1>8 DEF f

\* InFlight is such a sum after a step too.
LEMMA InFlightAddsNext ==
  taken' \in [Jobs -> Counts] =>
    \A a \in Cells : \E g : Adds(g, Part(taken', a), Jobs) /\ InFlight(a)' = g[Jobs]
<1>1. (taken \in [Jobs -> Counts] =>
        \A a \in Cells : \E g : Adds(g, Part(taken, a), Jobs) /\ InFlight(a) = g[Jobs])'
  BY InFlightAdds, PTL
<1> QED
  BY <1>1

\* What is in flight is a number.
LEMMA InFlightType ==
  ASSUME taken \in [Jobs -> Counts], NEW a \in Cells PROVE InFlight(a) \in Nat
<1>1. PICK g : Adds(g, Part(taken, a), Jobs) /\ InFlight(a) = g[Jobs]
  BY InFlightAdds
<1>2. Jobs \in SUBSET Jobs
  OBVIOUS
<1> QED
  BY <1>1, <1>2 DEF Adds

\* One job's batch changes.
LEMMA InFlightStep ==
  ASSUME taken \in [Jobs -> Counts], taken' \in [Jobs -> Counts], NEW j \in Jobs,
         \A i \in Jobs \ {j} : taken'[i] = taken[i], NEW a \in Cells
  PROVE  /\ InFlight(a) \in Nat /\ InFlight(a)' \in Nat
         /\ InFlight(a)' + taken[j][a] = InFlight(a) + taken'[j][a]
<1>1. PICK g : Adds(g, Part(taken, a), Jobs) /\ InFlight(a) = g[Jobs]
  BY InFlightAdds
<1>2. PICK h : Adds(h, Part(taken', a), Jobs) /\ InFlight(a)' = h[Jobs]
  BY InFlightAddsNext
<1>3. /\ Part(taken, a) \in [Jobs -> Nat] /\ Part(taken', a) \in [Jobs -> Nat]
      /\ \A i \in Jobs : Part(taken, a)[i] = taken[i][a] /\ Part(taken', a)[i] = taken'[i][a]
  BY DEF Part, Counts
<1>4. h[Jobs] + Part(taken, a)[j] = g[Jobs] + Part(taken', a)[j]
  <2> DEFINE f == Part(taken, a)
             e == Part(taken', a)
  <2>1. f \in [Jobs -> Nat] /\ e \in [Jobs -> Nat] /\ Adds(g, f, Jobs) /\ Adds(h, e, Jobs)
    BY <1>1, <1>2, <1>3
  <2>2. \A i \in Jobs \ {j} : e[i] = f[i]
    BY <1>3
  <2> HIDE DEF f, e
  <2>3. h[Jobs] + f[j] = g[Jobs] + e[j]
    BY <2>1, <2>2, AddsExcept, JobsAssumption
  <2> QED
    BY <2>3 DEF f, e
<1>5. Jobs \in SUBSET Jobs
  OBVIOUS
<1> QED
  BY <1>1, <1>2, <1>3, <1>4, <1>5 DEF Adds

\* Where no job moves, what is in flight stays.
LEMMA InFlightSame ==
  ASSUME taken \in [Jobs -> Counts], taken' = taken, NEW a \in Cells
  PROVE  InFlight(a)' = InFlight(a)
<1>1. PICK g : Adds(g, Part(taken, a), Jobs) /\ InFlight(a) = g[Jobs]
  BY InFlightAdds
<1>2. PICK h : Adds(h, Part(taken', a), Jobs) /\ InFlight(a)' = h[Jobs]
  BY InFlightAddsNext
<1>3. Adds(h, Part(taken, a), Jobs)
  BY <1>2
<1> QED
  BY <1>1, <1>2, <1>3, AddsUnique, JobsAssumption

\* No job has anything.
LEMMA InFlightNone ==
  taken = [j \in Jobs |-> Zero] => \A a \in Cells : InFlight(a) = 0
<1> SUFFICES ASSUME taken = [j \in Jobs |-> Zero], NEW a \in Cells PROVE InFlight(a) = 0
  OBVIOUS
<1>1. taken \in [Jobs -> Counts]
  BY DEF Zero, Counts
<1>2. PICK g : Adds(g, Part(taken, a), Jobs) /\ InFlight(a) = g[Jobs]
  BY <1>1, InFlightAdds
<1>3. \A j \in Jobs : Part(taken, a)[j] = 0
  BY DEF Part, Zero
<1> QED
  BY <1>2, <1>3, AddsZero, JobsAssumption

\* Where no job has taken anything, nothing is in flight.
LEMMA InFlightNoneNext ==
  taken' = [j \in Jobs |-> Zero] => \A a \in Cells : InFlight(a)' = 0
<1>1. (taken = [j \in Jobs |-> Zero] => \A a \in Cells : InFlight(a) = 0)'
  BY InFlightNone, PTL
<1> QED
  BY <1>1 DEF Zero, Cells, Keys

-----------------------------------------------------------------------------
(* The invariant: a connection has one user at most; the two books agree; a job that has the
   online lists to itself has put there what it has gone through. *)

OneUser == \A c \in Conns : \A u, v \in conns[c] \intersect Users : u = v
Sole ==
  \A j \in sole : at[j] = "write" =>
    /\ \A i \in Jobs \ {j} : at[i] # "write"
    /\ left[j] \subseteq Moving(taken[j]) /\ online = Moving(taken[j]) \ left[j]
TrafficInv == TypeOK /\ OneUser /\ StatsAgree /\ Sole /\ faults \in Nat /\ resets \in Nat

\* What the ledger sees as owed.
Owed == [a \in Accounts |-> counters[a] + InFlight(a)]

\* The counts have their types.
LEMMA CountsType ==
  /\ Zero \in Counts
  /\ \A f, g \in Counts : Plus(f, g) \in Counts
  /\ \A f \in Counts : \A names : Only(f, names) \in Counts
<1>1. Zero \in Counts
  BY DEF Zero, Counts
<1>2. ASSUME NEW f \in Counts, NEW g \in Counts PROVE Plus(f, g) \in Counts
  BY DEF Plus, Counts
<1>3. ASSUME NEW f \in Counts, NEW names PROVE Only(f, names) \in Counts
  BY DEF Only, Counts
<1> QED
  BY <1>1, <1>2, <1>3

\* An account is a cell of its user.
LEMMA AccountCells == \A a \in Accounts : a \in Cells /\ a[1] \in Users
BY DEF Accounts, Cells, Keys

\* Those with traffic are keys.
LEMMA MovingKeys == \A f : Moving(f) \in SUBSET Keys
BY DEF Moving

\* The ledger does not see a step that leaves these alone.
LEMMA BookSame ==
  ASSUME TypeOK, UNCHANGED <<counters, taken, billed, stray, lost, faults, resets>>
  PROVE  UNCHANGED Book!vars
<1>1. \A a \in Accounts : InFlight(a)' = InFlight(a)
  BY InFlightSame, AccountCells DEF TypeOK
<1>2. Owed' = Owed
  BY <1>1 DEF Owed
<1>3. UNCHANGED <<OnAccounts(billed), OnAccounts(stray), OnAccounts(lost), faults + resets>>
  BY DEF OnAccounts
<1>4. UNCHANGED <<Owed, OnAccounts(billed), OnAccounts(stray), OnAccounts(lost), faults + resets>>
  BY <1>2, <1>3
<1> QED
  BY <1>4, Zenon DEF Book!vars, Owed, InFlight

\* The jobs go on where they were.
Still ==
  /\ UNCHANGED <<taken, writer, billed, stats, stray, lost, online, sole, keep, faults, resets>>
  /\ \A j \in Jobs : (at'[j] = "write") <=> (at[j] = "write")
  /\ \A j \in Jobs : at[j] = "write" => left'[j] = left[j]

\* A step that takes, writes and gives back nothing keeps the invariant.
LEMMA StillKeeps ==
  ASSUME TrafficInv, Still, UNCHANGED counters
  PROVE  StatsAgree' /\ Sole' /\ faults' \in Nat /\ resets' \in Nat /\ UNCHANGED Book!vars
<1>a. TypeOK /\ StatsAgree /\ Sole /\ faults \in Nat /\ resets \in Nat
  BY DEF TrafficInv
<1>1. StatsAgree' /\ faults' \in Nat /\ resets' \in Nat
  BY <1>a DEF Still, StatsAgree
<1>2. sole \subseteq Jobs
  BY <1>a DEF TypeOK
<1>3. Sole'
  BY <1>a, <1>2 DEF Still, Sole
<1>4. UNCHANGED <<counters, taken, billed, stray, lost, faults, resets>>
  BY DEF Still
<1>5. UNCHANGED Book!vars
  BY <1>a, <1>4, BookSame
<1> QED
  BY <1>1, <1>3, <1>5

\* Connections come and go.
LEMMA ConnStep ==
  ASSUME TrafficInv, NEW c \in Conns, Route(c) \/ HangUp(c)
  PROVE  TrafficInv' /\ UNCHANGED Book!vars
<1>a. TypeOK /\ OneUser
  BY DEF TrafficInv
<1>1. /\ UNCHANGED <<power, counters, at, stale, left, clients>> /\ Still
      /\ \E ks \in SUBSET Keys : /\ conns' = [conns EXCEPT ![c] = ks]
                               /\ \A u, v \in ks \intersect Users : u = v
  <2>1. CASE Route(c)
    <3>1. PICK through \in SUBSET Resources, users \in {{}} \union {{u} : u \in Users} :
            conns' = [conns EXCEPT ![c] = through \union users]
      BY <2>1 DEF Route
    <3>2. through \union users \in SUBSET Keys
      BY DEF Keys
    <3>3. \A u, v \in (through \union users) \intersect Users : u = v
      BY KeyAssumption
    <3> QED
      BY <2>1, <3>1, <3>2, <3>3 DEF Route, Still, books
  <2>2. CASE HangUp(c)
    <3>1. {} \in SUBSET Keys /\ \A u, v \in {} \intersect Users : u = v
      OBVIOUS
    <3>2. /\ UNCHANGED <<power, counters, at, stale, left, clients>> /\ Still
          /\ conns' = [conns EXCEPT ![c] = {}]
      BY <2>2 DEF HangUp, Still, books
    <3> QED
      BY <3>1, <3>2
  <2> QED
    BY <2>1, <2>2
<1>2. OneUser'
  BY <1>a, <1>1 DEF OneUser, TypeOK
<1>3. TypeOK'
  BY <1>a, <1>1 DEF TypeOK, Still
<1> QED
  BY <1>1, <1>2, <1>3, StillKeeps DEF TrafficInv

\* A job begins, the core stops and starts, clients change.
LEMMA QuietStep ==
  ASSUME TrafficInv,
         \/ \E j \in Jobs : Begin(j) \/ Lock(j)
         \/ StopCore \/ StartCore
         \/ \E u \in Users : ChangeClient(u)
  PROVE  TrafficInv' /\ UNCHANGED Book!vars
<1>a. TypeOK /\ OneUser
  BY DEF TrafficInv
<1> DEFINE Other == /\ power' \in {"up", "stopping", "down"} /\ clients' \in SUBSET Users
                    /\ at' \in [Jobs -> {"idle", "got", "swap", "write"}]
                    /\ left' \in [Jobs -> SUBSET Keys] /\ UNCHANGED <<conns, counters, stale>>
<1>1. ASSUME NEW j \in Jobs, Begin(j) PROVE Still /\ Other
  BY <1>a, <1>1 DEF Begin, Still, core, books, TypeOK
<1>2. ASSUME NEW j \in Jobs, Lock(j) PROVE Still /\ Other
  <2> DEFINE new == IF j \in stale THEN {} ELSE Keys
  <2>1. /\ at[j] = "got" /\ at' = [at EXCEPT ![j] = "swap"] /\ left' = [left EXCEPT ![j] = new]
        /\ UNCHANGED <<core, stale, taken, writer, books, online, sole, keep, faults, resets>>
    BY <1>2 DEF Lock
  <2>2. new \in SUBSET Keys
    OBVIOUS
  <2> HIDE DEF new
  <2>3. /\ at' \in [Jobs -> {"idle", "got", "swap", "write"}] /\ left' \in [Jobs -> SUBSET Keys]
        /\ \A i \in Jobs : (at'[i] = "write") <=> (at[i] = "write")
        /\ \A i \in Jobs : at[i] = "write" => left'[i] = left[i]
    BY <1>a, <2>1, <2>2 DEF TypeOK
  <2> QED
    BY <1>a, <2>1, <2>3 DEF Still, core, books, TypeOK
<1>3. ASSUME StopCore \/ StartCore PROVE Still /\ Other
  <2>1. /\ power' \in {"up", "down", "stopping"}
        /\ UNCHANGED <<conns, counters, at, stale, left, clients>> /\ Still
    BY <1>3 DEF StopCore, StartCore, Still, books
  <2> QED
    BY <1>a, <2>1 DEF TypeOK
<1>4. ASSUME NEW u \in Users, ChangeClient(u) PROVE Still /\ Other
  <2>1. /\ clients' = IF u \in clients THEN clients \ {u} ELSE clients \union {u}
        /\ UNCHANGED <<power, conns, counters, at, stale, left>> /\ Still
    BY <1>4 DEF ChangeClient, Still, core
  <2>2. clients' \in SUBSET Users
    BY <1>a, <2>1 DEF TypeOK
  <2> QED
    BY <1>a, <2>1, <2>2 DEF TypeOK
<1>5. Still /\ Other
  <2> HIDE DEF Other
  <2> QED
    BY <1>1, <1>2, <1>3, <1>4
<1>6. OneUser'
  BY <1>a, <1>5 DEF OneUser
<1>7. TypeOK'
  <2>1. writer' # None => at'[writer'] = "write"
    BY <1>a, <1>5 DEF TypeOK, Still
  <2> QED
    BY <1>a, <1>5, <2>1 DEF TypeOK, Still
<1> QED
  BY <1>5, <1>6, <1>7, StillKeeps DEF TrafficInv

\* A connection moves a byte of one account, or of none.
LEMMA MoveStep ==
  ASSUME TrafficInv, NEW c \in Conns, NEW d \in Dirs, Move(c, d)
  PROVE  TrafficInv' /\ [Book!Next]_(Book!vars)
<1>a. TypeOK /\ OneUser /\ faults \in Nat /\ resets \in Nat
  BY DEF TrafficInv
<1>1. /\ counters' = [x \in Cells |-> IF x[1] \in conns[c] /\ x[2] = d THEN counters[x] + 1
                                                                    ELSE counters[x]]
      /\ Still /\ UNCHANGED <<power, conns, at, stale, left, clients>>
  BY DEF Move, Still, books
<1>2. counters' \in Counts
  BY <1>a, <1>1 DEF TypeOK, Counts
<1>3. TypeOK' /\ OneUser'
  BY <1>a, <1>1, <1>2 DEF TypeOK, OneUser, Still
<1>4. StatsAgree' /\ Sole' /\ faults' \in Nat /\ resets' \in Nat
  BY <1>1 DEF TrafficInv, StatsAgree, Still, Sole, TypeOK
<1>5. \A a \in Accounts : /\ InFlight(a)' = InFlight(a) /\ InFlight(a) \in Nat
                          /\ counters[a] \in Nat /\ a \in Cells
  BY <1>a, <1>1, AccountCells, InFlightSame, InFlightType DEF TypeOK, Still, Counts
<1>6. UNCHANGED <<OnAccounts(billed), OnAccounts(stray), OnAccounts(lost), faults + resets>>
  BY <1>1 DEF Still, OnAccounts
<1>7. CASE conns[c] \intersect Users = {}
  <2>1. \A a \in Accounts : counters'[a] = counters[a]
    BY <1>1, <1>5, <1>7, AccountCells
  <2>2. Owed' = Owed
    BY <1>5, <2>1 DEF Owed
  <2>3. UNCHANGED <<Owed, OnAccounts(billed), OnAccounts(stray), OnAccounts(lost), faults + resets>>
    BY <1>6, <2>2
  <2>4. UNCHANGED Book!vars
    BY <2>3, Zenon DEF Book!vars, Owed, InFlight
  <2> QED
    BY <1>3, <1>4, <2>4 DEF TrafficInv
<1>8. ASSUME NEW u \in conns[c] \intersect Users
      PROVE  Book!Next
  <2>1. <<u, d>> \in Accounts
    BY DEF Accounts
  <2>2. \A a \in Accounts : a[1] \in conns[c] /\ a[2] = d <=> a = <<u, d>>
    BY <1>a, <1>8 DEF OneUser, Accounts
  <2>3. \A a \in Accounts : counters'[a] = IF a = <<u, d>> THEN counters[a] + 1 ELSE counters[a]
    BY <1>1, <1>5, <2>2
  <2>4. Owed' = [Owed EXCEPT ![<<u, d>>] = @ + 1]
    BY <1>5, <2>3 DEF Owed
  <2>5. /\ Owed' = [Owed EXCEPT ![<<u, d>>] = @ + 1]
        /\ UNCHANGED <<OnAccounts(billed), OnAccounts(stray), OnAccounts(lost), faults + resets>>
    BY <1>6, <2>4
  <2>6. Book!Use(<<u, d>>)
    BY <2>5, Zenon DEF Book!Use, Owed, InFlight
  <2> QED
    BY <2>1, <2>6, Zenon DEF Book!Next
<1> QED
  BY <1>3, <1>4, <1>7, <1>8 DEF TrafficInv

\* A job takes a counter over.
LEMMA SwapStep ==
  ASSUME TrafficInv, NEW j \in Jobs, NEW k \in Keys, Swap(j, k)
  PROVE  TrafficInv' /\ UNCHANGED Book!vars
<1>a. TypeOK /\ OneUser /\ StatsAgree /\ Sole /\ faults \in Nat /\ resets \in Nat
  BY DEF TrafficInv
<1> DEFINE batch == Plus(taken[j], Only(counters, {k}))
           rest == Only(counters, Keys \ {k})
<1>1. /\ at[j] = "swap" /\ taken' = [taken EXCEPT ![j] = batch] /\ counters' = rest
      /\ left' = [left EXCEPT ![j] = @ \ {k}]
      /\ UNCHANGED <<power, conns, at, stale, writer, clients, billed, stats, stray, lost, online,
                     sole, keep, faults, resets>>
  BY DEF Swap, books
<1>2. batch \in Counts /\ rest \in Counts
  BY <1>a, CountsType DEF TypeOK
<1>3. \A a \in Cells : batch[a] + rest[a] = taken[j][a] + counters[a]
  <2> TAKE a \in Cells
  <2>1. taken[j][a] \in Nat /\ counters[a] \in Nat /\ a[1] \in Keys
    BY <1>a DEF TypeOK, Counts, Cells
  <2> QED
    BY <2>1 DEF Plus, Only
<1> HIDE DEF batch, rest
<1>4. /\ taken' \in [Jobs -> Counts] /\ taken'[j] = batch /\ left' \in [Jobs -> SUBSET Keys]
      /\ \A i \in Jobs \ {j} : taken'[i] = taken[i] /\ left'[i] = left[i]
  BY <1>a, <1>1, <1>2 DEF TypeOK
<1>5. TypeOK'
  BY <1>a, <1>1, <1>2, <1>4 DEF TypeOK
<1>6. OneUser' /\ StatsAgree'
  BY <1>a, <1>1 DEF OneUser, StatsAgree
<1>7. Sole'
  BY <1>a, <1>1, <1>4 DEF Sole, TypeOK
<1>8. \A a \in Accounts : counters'[a] + InFlight(a)' = counters[a] + InFlight(a)
  <2> TAKE a \in Accounts
  <2>1. a \in Cells
    BY AccountCells
  <2>2. taken \in [Jobs -> Counts]
    BY <1>a DEF TypeOK
  <2>3. /\ InFlight(a) \in Nat /\ InFlight(a)' \in Nat
        /\ InFlight(a)' + taken[j][a] = InFlight(a) + taken'[j][a]
    BY <1>4, <2>1, <2>2, InFlightStep
  <2>4. batch[a] + rest[a] = taken[j][a] + counters[a]
    BY <1>3, <2>1
  <2>5. batch[a] \in Nat /\ rest[a] \in Nat /\ taken[j][a] \in Nat /\ counters[a] \in Nat
    BY <1>a, <1>2, <2>1 DEF TypeOK, Counts
  <2> QED
    BY <1>1, <1>4, <2>3, <2>4, <2>5
<1>9. UNCHANGED <<Owed, OnAccounts(billed), OnAccounts(stray), OnAccounts(lost), faults + resets>>
  BY <1>1, <1>8 DEF Owed, OnAccounts
<1>10. UNCHANGED Book!vars
  BY <1>9, Zenon DEF Book!vars, Owed, InFlight
<1> QED
  BY <1>a, <1>1, <1>5, <1>6, <1>7, <1>10 DEF TrafficInv

\* A job empties the online lists, and goes through the rows.
LEMMA RowStep ==
  ASSUME TrafficInv, NEW j \in Jobs, Taken(j) \/ \E k \in Keys : Row(j, k)
  PROVE  TrafficInv' /\ UNCHANGED Book!vars
<1>a. TypeOK /\ OneUser /\ StatsAgree /\ Sole /\ faults \in Nat /\ resets \in Nat
  BY DEF TrafficInv
<1>b. sole \subseteq Jobs /\ DOMAIN at = Jobs /\ DOMAIN left = Jobs /\ None \notin Jobs
  BY <1>a, KeyAssumption DEF TypeOK
<1>1. UNCHANGED <<power, conns, counters, taken, clients, billed, stats, stray, lost, keep, faults,
                  resets>>
  BY DEF Taken, Row, core, books
<1>2. OneUser' /\ StatsAgree' /\ UNCHANGED Book!vars
  BY <1>a, <1>1, BookSame DEF OneUser, StatsAgree
<1>3. CASE Taken(j)
  <2>1. /\ at[j] = "swap" /\ at' = [at EXCEPT ![j] = IF taken[j] = Zero THEN "idle" ELSE "write"]
        /\ left' = [left EXCEPT ![j] = Moving(taken[j])] /\ stale' = stale \ {j} /\ online' = {}
        /\ sole' = (IF \E i \in Jobs \ {j} : at[i] = "write" THEN {} ELSE {j})
        /\ UNCHANGED writer
    BY <1>3 DEF Taken
  <2>2. Moving(taken[j]) \in SUBSET Keys
    BY MovingKeys
  <2>3. TypeOK'
    <3>1. /\ at' \in [Jobs -> {"idle", "got", "swap", "write"}]
          /\ left' \in [Jobs -> SUBSET Keys]
          /\ writer' # None => at'[writer'] = "write"
      BY <1>a, <2>1, <2>2 DEF TypeOK
    <3>2. sole' \in SUBSET Jobs /\ stale' \in SUBSET Jobs /\ online' \in SUBSET Keys
      BY <1>a, <2>1 DEF TypeOK
    <3> QED
      BY <1>a, <1>1, <2>1, <3>1, <3>2 DEF TypeOK
  <2>4. Sole'
    BY <1>1, <1>b, <2>1 DEF Sole
  <2> QED
    BY <1>a, <1>1, <1>2, <2>3, <2>4 DEF TrafficInv
<1>4. ASSUME NEW k \in Keys, Row(j, k) PROVE TrafficInv' /\ UNCHANGED Book!vars
  <2>1. /\ at[j] = "write" /\ k \in left[j] /\ writer' \in {writer, j}
        /\ left' = [left EXCEPT ![j] = @ \ {k}]
        /\ \/ online' = online \union {k}
           \/ j \notin sole /\ UNCHANGED online
        /\ UNCHANGED <<at, stale, sole>>
    BY <1>4 DEF Row
  <2>2. TypeOK'
    <3>1. /\ left' \in [Jobs -> SUBSET Keys]
          /\ writer' \in Jobs \union {None} /\ (writer' # None => at'[writer'] = "write")
      BY <1>a, <2>1 DEF TypeOK
    <3>2. online' \in SUBSET Keys
      BY <1>a, <2>1 DEF TypeOK
    <3> QED
      BY <1>a, <1>1, <2>1, <3>1, <3>2 DEF TypeOK
  <2>3. Sole'
    BY <1>a, <1>1, <1>b, <2>1 DEF Sole
  <2> QED
    BY <1>a, <1>1, <1>2, <2>2, <2>3 DEF TrafficInv
<1> QED
  BY <1>3, <1>4

\* A batch is done with, however the transaction ends.
LEMMA ReleasedStep ==
  ASSUME TrafficInv, NEW j \in Jobs, at[j] = "write", Released(j), UNCHANGED <<sole, online>>
  PROVE  /\ at' \in [Jobs -> {"idle", "got", "swap", "write"}] /\ left' \in [Jobs -> SUBSET Keys]
         /\ taken' \in [Jobs -> Counts]
         /\ writer' \in Jobs \union {None} /\ (writer' # None => at'[writer'] = "write")
         /\ Sole'
         /\ \A a \in Accounts : /\ InFlight(a) \in Nat /\ InFlight(a)' \in Nat
                                /\ taken[j][a] \in Nat
                                /\ InFlight(a) = InFlight(a)' + taken[j][a]
<1>a. TypeOK /\ Sole
  BY DEF TrafficInv
<1>1. /\ at' = [at EXCEPT ![j] = "idle"] /\ left' = [left EXCEPT ![j] = {}]
      /\ taken' = [taken EXCEPT ![j] = Zero]
      /\ writer' = (IF writer = j THEN None ELSE writer)
  BY DEF Released
<1>2. Zero \in Counts
  BY CountsType
<1>3. /\ at' \in [Jobs -> {"idle", "got", "swap", "write"}] /\ left' \in [Jobs -> SUBSET Keys]
      /\ taken' \in [Jobs -> Counts] /\ taken'[j] = Zero
      /\ \A i \in Jobs \ {j} : taken'[i] = taken[i] /\ left'[i] = left[i] /\ at'[i] = at[i]
  BY <1>a, <1>1, <1>2 DEF TypeOK
<1>4. writer' \in Jobs \union {None} /\ (writer' # None => at'[writer'] = "write")
  BY <1>a, <1>1, <1>3 DEF TypeOK
<1>5. Sole'
  BY <1>a, <1>1, <1>3 DEF Sole, TypeOK
<1>6. ASSUME NEW a \in Accounts
      PROVE  /\ InFlight(a) \in Nat /\ InFlight(a)' \in Nat /\ taken[j][a] \in Nat
             /\ InFlight(a) = InFlight(a)' + taken[j][a]
  <2>1. a \in Cells /\ taken \in [Jobs -> Counts]
    BY <1>a, AccountCells DEF TypeOK
  <2>2. /\ InFlight(a) \in Nat /\ InFlight(a)' \in Nat
        /\ InFlight(a)' + taken[j][a] = InFlight(a) + taken'[j][a]
    BY <1>3, <2>1, InFlightStep
  <2>3. taken[j][a] \in Nat /\ taken'[j][a] = 0
    BY <1>3, <2>1 DEF Counts, Zero
  <2> QED
    BY <2>2, <2>3
<1> QED
  BY <1>3, <1>4, <1>5, <1>6

\* The batch goes to the rows with the users' names, or has none.
LEMMA CommitStep ==
  ASSUME TrafficInv, NEW j \in Jobs, Commit(j)
  PROVE  TrafficInv' /\ Book!Settle
<1>a. TypeOK /\ OneUser /\ StatsAgree /\ Sole /\ faults \in Nat /\ resets \in Nat
  BY DEF TrafficInv
<1> DEFINE mine == Only(taken[j], clients)
           others == Only(taken[j], Users \ clients)
<1>1. /\ at[j] = "write" /\ Released(j)
      /\ billed' = Plus(billed, mine) /\ stray' = Plus(stray, others)
      /\ stats' = (IF keep THEN Plus(stats, taken[j]) ELSE stats)
      /\ UNCHANGED <<power, conns, counters, stale, clients, lost, online, sole, keep, faults,
                     resets>>
  BY DEF Commit, core
<1>2. /\ at' \in [Jobs -> {"idle", "got", "swap", "write"}] /\ left' \in [Jobs -> SUBSET Keys]
      /\ taken' \in [Jobs -> Counts]
      /\ writer' \in Jobs \union {None} /\ (writer' # None => at'[writer'] = "write")
      /\ Sole'
      /\ \A a \in Accounts : /\ InFlight(a) \in Nat /\ InFlight(a)' \in Nat
                             /\ taken[j][a] \in Nat
                             /\ InFlight(a) = InFlight(a)' + taken[j][a]
  BY <1>1, ReleasedStep
<1>3. taken[j] \in Counts /\ mine \in Counts /\ others \in Counts
  BY <1>a, CountsType DEF TypeOK
<1>4. \A a \in Accounts : /\ mine[a] = IF a[1] \in clients THEN taken[j][a] ELSE 0
                          /\ others[a] = IF a[1] \in clients THEN 0 ELSE taken[j][a]
  BY AccountCells DEF Only
<1> HIDE DEF mine, others
<1>5. billed' \in Counts /\ stray' \in Counts /\ stats' \in Counts
  <2>1. billed \in Counts /\ stray \in Counts /\ stats \in Counts
    BY <1>a DEF TypeOK
  <2>2. Plus(billed, mine) \in Counts /\ Plus(stray, others) \in Counts
        /\ Plus(stats, taken[j]) \in Counts
    BY <1>3, <2>1, CountsType
  <2> QED
    BY <1>1, <2>1, <2>2
<1>6. TypeOK'
  BY <1>a, <1>1, <1>2, <1>5 DEF TypeOK
<1>7. ASSUME NEW a \in Accounts
      PROVE  /\ counters[a] \in Nat /\ billed[a] \in Nat /\ stray[a] \in Nat /\ stats[a] \in Nat
             /\ billed'[a] = billed[a] + mine[a] /\ stray'[a] = stray[a] + others[a]
             /\ stats'[a] = IF keep THEN stats[a] + taken[j][a] ELSE stats[a]
  BY <1>a, <1>1, AccountCells DEF TypeOK, Counts, Plus
<1>8. OneUser' /\ StatsAgree'
  <2>1. OneUser'
    BY <1>a, <1>1 DEF OneUser
  <2>2. ASSUME keep, NEW a \in Accounts PROVE stats'[a] = billed'[a] + stray'[a]
    <3>1. stats[a] = billed[a] + stray[a]
      BY <1>a, <2>2 DEF StatsAgree
    <3> QED
      BY <1>2, <1>4, <1>7, <2>2, <3>1
  <2> QED
    BY <1>1, <2>1, <2>2 DEF StatsAgree
<1>9. ASSUME NEW a \in Accounts
      PROVE  /\ Owed[a] = counters[a] + InFlight(a) /\ Owed'[a] = counters[a] + InFlight(a)'
             /\ OnAccounts(billed)[a] = billed[a] /\ OnAccounts(billed)'[a] = billed'[a]
             /\ OnAccounts(stray)[a] = stray[a] /\ OnAccounts(stray)'[a] = stray'[a]
  BY <1>1 DEF Owed, OnAccounts
<1>10. /\ \A a \in Accounts :
            /\ Owed'[a] <= Owed[a] /\ OnAccounts(billed)'[a] >= OnAccounts(billed)[a]
            /\ OnAccounts(stray)'[a] >= OnAccounts(stray)[a]
            /\ Owed[a] - Owed'[a] = (OnAccounts(billed)'[a] - OnAccounts(billed)[a])
                                       + (OnAccounts(stray)'[a] - OnAccounts(stray)[a])
            /\ \/ OnAccounts(billed)'[a] = OnAccounts(billed)[a]
               \/ OnAccounts(stray)'[a] = OnAccounts(stray)[a]
       /\ UNCHANGED <<OnAccounts(lost), faults + resets>>
  <2>1. ASSUME NEW a \in Accounts
        PROVE  /\ Owed'[a] <= Owed[a] /\ OnAccounts(billed)'[a] >= OnAccounts(billed)[a]
               /\ OnAccounts(stray)'[a] >= OnAccounts(stray)[a]
               /\ Owed[a] - Owed'[a] = (OnAccounts(billed)'[a] - OnAccounts(billed)[a])
                                          + (OnAccounts(stray)'[a] - OnAccounts(stray)[a])
               /\ \/ OnAccounts(billed)'[a] = OnAccounts(billed)[a]
                  \/ OnAccounts(stray)'[a] = OnAccounts(stray)[a]
    <3>1. mine[a] \in Nat /\ others[a] \in Nat /\ mine[a] + others[a] = taken[j][a]
          /\ (mine[a] = 0 \/ others[a] = 0)
      BY <1>2, <1>4
    <3> QED
      BY <1>2, <1>7, <1>9, <3>1
  <2> QED
    BY <1>1, <2>1 DEF OnAccounts
<1>11. Book!Settle
  BY <1>10, Zenon DEF Book!Settle, Owed, InFlight
<1> QED
  BY <1>a, <1>1, <1>2, <1>6, <1>8, <1>11 DEF TrafficInv

\* What is owed is lost in part: the ledger's failure.
LEMMA Forfeited ==
  ASSUME \A a \in Accounts : /\ Owed[a] \in Nat /\ Owed'[a] \in Nat /\ lost[a] \in Nat
                             /\ Owed'[a] <= Owed[a] /\ lost'[a] = lost[a] + (Owed[a] - Owed'[a]),
         faults + resets \in Nat, faults' + resets' = faults + resets + 1,
         UNCHANGED <<billed, stray>>
  PROVE  Book!Forfeit
<1>1. \A a \in Accounts : OnAccounts(lost)[a] = lost[a] /\ OnAccounts(lost)'[a] = lost'[a]
  BY DEF OnAccounts
<1>2. /\ (faults + resets)' = faults + resets + 1
      /\ \A a \in Accounts :
           /\ Owed'[a] <= Owed[a]
           /\ OnAccounts(lost)'[a] = OnAccounts(lost)[a] + (Owed[a] - Owed'[a])
      /\ UNCHANGED <<OnAccounts(billed), OnAccounts(stray)>>
  BY <1>1 DEF OnAccounts
<1> QED
  BY <1>2, Zenon DEF Book!Forfeit, Owed, InFlight

\* A transaction fails, and its batch is lost.
LEMMA RollbackStep ==
  ASSUME TrafficInv, NEW j \in Jobs, Rollback(j)
  PROVE  TrafficInv' /\ Book!Forfeit
<1>a. TypeOK /\ OneUser /\ StatsAgree /\ Sole /\ faults \in Nat /\ resets \in Nat
  BY DEF TrafficInv
<1> DEFINE gone == Only(taken[j], Users)
<1>1. /\ at[j] = "write" /\ Released(j) /\ lost' = Plus(lost, gone) /\ faults' = faults + 1
      /\ UNCHANGED <<power, conns, counters, stale, clients, billed, stray, stats, online, sole,
                     keep,
                     resets>>
  BY DEF Rollback, core
<1>2. /\ at' \in [Jobs -> {"idle", "got", "swap", "write"}] /\ left' \in [Jobs -> SUBSET Keys]
      /\ taken' \in [Jobs -> Counts]
      /\ writer' \in Jobs \union {None} /\ (writer' # None => at'[writer'] = "write")
      /\ Sole'
      /\ \A a \in Accounts : /\ InFlight(a) \in Nat /\ InFlight(a)' \in Nat
                             /\ taken[j][a] \in Nat
                             /\ InFlight(a) = InFlight(a)' + taken[j][a]
  BY <1>1, ReleasedStep
<1>3. gone \in Counts /\ \A a \in Accounts : gone[a] = taken[j][a]
  <2>1. taken[j] \in Counts
    BY <1>a DEF TypeOK
  <2>2. \A a \in Accounts : gone[a] = taken[j][a]
    BY AccountCells DEF Only
  <2> QED
    BY <2>1, <2>2, CountsType
<1> HIDE DEF gone
<1>4. lost' \in Counts
  <2>1. lost \in Counts
    BY <1>a DEF TypeOK
  <2>2. Plus(lost, gone) \in Counts
    BY <1>3, <2>1, CountsType
  <2> QED
    BY <1>1, <2>2
<1>5. TypeOK'
  BY <1>a, <1>1, <1>2, <1>4 DEF TypeOK
<1>6. OneUser' /\ StatsAgree' /\ faults' \in Nat /\ resets' \in Nat
  BY <1>a, <1>1 DEF OneUser, StatsAgree
<1>7. ASSUME NEW a \in Accounts
      PROVE  /\ Owed[a] \in Nat /\ Owed'[a] \in Nat /\ lost[a] \in Nat
             /\ Owed'[a] <= Owed[a] /\ lost'[a] = lost[a] + (Owed[a] - Owed'[a])
  <2>1. counters[a] \in Nat /\ lost[a] \in Nat /\ lost'[a] = lost[a] + taken[j][a]
    BY <1>a, <1>1, <1>3, AccountCells DEF TypeOK, Counts, Plus
  <2>2. Owed[a] = counters[a] + InFlight(a) /\ Owed'[a] = counters[a] + InFlight(a)'
    BY <1>1 DEF Owed
  <2> QED
    BY <1>2, <2>1, <2>2
<1>8. Book!Forfeit
  BY <1>a, <1>1, <1>7, Forfeited
<1> QED
  BY <1>2, <1>5, <1>6, <1>8 DEF TrafficInv

\* The core goes down: what it has counted and nobody has taken is lost.
LEMMA ResetStep ==
  ASSUME TrafficInv, Reset
  PROVE  TrafficInv' /\ Book!Forfeit
<1>a. TypeOK /\ OneUser /\ StatsAgree /\ Sole /\ faults \in Nat /\ resets \in Nat
  BY DEF TrafficInv
<1> DEFINE gone == Only(counters, Users)
<1>1. /\ power' = "down" /\ resets' = resets + 1 /\ lost' = Plus(lost, gone) /\ counters' = Zero
      /\ conns' = [c \in Conns |-> {}] /\ stale' = stale \union {j \in Jobs : at[j] = "got"}
      /\ UNCHANGED <<at, left, taken, writer, clients, billed, stray, stats, online, sole, keep,
                     faults>>
  BY DEF Reset
<1>2. gone \in Counts /\ Zero \in Counts /\ \A a \in Accounts : gone[a] = counters[a] /\ Zero[a] = 0
  <2>1. gone \in Counts /\ Zero \in Counts
    BY <1>a, CountsType DEF TypeOK
  <2>2. \A a \in Accounts : gone[a] = counters[a] /\ Zero[a] = 0
    BY AccountCells DEF Only, Zero
  <2> QED
    BY <2>1, <2>2
<1> HIDE DEF gone
<1>3. lost' \in Counts /\ conns' \in [Conns -> SUBSET Keys] /\ stale' \in SUBSET Jobs
  BY <1>a, <1>1, <1>2, CountsType DEF TypeOK
<1>4. TypeOK'
  BY <1>a, <1>1, <1>2, <1>3 DEF TypeOK
<1>5. OneUser' /\ StatsAgree' /\ Sole' /\ faults' \in Nat /\ resets' \in Nat
  BY <1>a, <1>1 DEF OneUser, StatsAgree, Sole
<1>6. ASSUME NEW a \in Accounts
      PROVE  /\ Owed[a] \in Nat /\ Owed'[a] \in Nat /\ lost[a] \in Nat
             /\ Owed'[a] <= Owed[a] /\ lost'[a] = lost[a] + (Owed[a] - Owed'[a])
  <2>1. /\ counters[a] \in Nat /\ lost[a] \in Nat
        /\ lost'[a] = lost[a] + counters[a] /\ counters'[a] = 0
    BY <1>a, <1>1, <1>2, AccountCells DEF TypeOK, Counts, Plus
  <2>2. Owed[a] = counters[a] + InFlight(a) /\ Owed'[a] = counters'[a] + InFlight(a)'
    BY DEF Owed
  <2>3. InFlight(a)' = InFlight(a) /\ InFlight(a) \in Nat
    BY <1>a, <1>1, AccountCells, InFlightSame, InFlightType DEF TypeOK
  <2> QED
    BY <2>1, <2>2, <2>3
<1>7. Book!Forfeit
  BY <1>a, <1>1, <1>6, Forfeited
<1> QED
  BY <1>4, <1>5, <1>7 DEF TrafficInv

\* The panel is killed: what the core has counted and the batches are lost.
LEMMA CrashStep ==
  ASSUME TrafficInv, Crash
  PROVE  TrafficInv' /\ Book!Forfeit
<1>a. TypeOK /\ OneUser /\ StatsAgree /\ Sole /\ faults \in Nat /\ resets \in Nat
  BY DEF TrafficInv
<1>1. /\ power' = "down" /\ faults' = faults + 1
      /\ conns' = [c \in Conns |-> {}] /\ counters' = Zero
      /\ at' = [j \in Jobs |-> "idle"] /\ stale' = {} /\ sole' = {}
      /\ left' = [j \in Jobs |-> {}] /\ taken' = [j \in Jobs |-> Zero]
      /\ writer' = None /\ online' = {}
      /\ UNCHANGED <<clients, billed, stray, stats, keep, resets>>
  BY DEF Crash
<1>2. lost' = [c \in Cells |-> IF c[1] \in Users THEN lost[c] + counters[c] + InFlight(c)
                                                ELSE lost[c]]
  BY Zenon DEF Crash, InFlight
<1>3. ASSUME NEW c \in Cells
      PROVE  lost[c] \in Nat /\ counters[c] \in Nat /\ InFlight(c) \in Nat
  BY <1>a, InFlightType DEF TypeOK, Counts
<1>4. lost' \in Counts /\ Zero \in Counts
  BY <1>2, <1>3, CountsType DEF Counts
<1>5. TypeOK'
  BY <1>a, <1>1, <1>4 DEF TypeOK
<1>6. OneUser' /\ StatsAgree' /\ Sole' /\ faults' \in Nat /\ resets' \in Nat
  BY <1>a, <1>1 DEF OneUser, StatsAgree, Sole
<1>7. ASSUME NEW a \in Accounts
      PROVE  /\ Owed[a] \in Nat /\ Owed'[a] \in Nat /\ lost[a] \in Nat
             /\ Owed'[a] <= Owed[a] /\ lost'[a] = lost[a] + (Owed[a] - Owed'[a])
  <2>1. a \in Cells /\ a[1] \in Users
    BY AccountCells
  <2>2. Owed[a] = counters[a] + InFlight(a) /\ Owed'[a] = counters'[a] + InFlight(a)'
    BY DEF Owed
  <2>3. InFlight(a)' = 0 /\ counters'[a] = 0
    BY <1>1, <2>1, InFlightNoneNext DEF Zero
  <2>4. lost'[a] = lost[a] + counters[a] + InFlight(a)
    BY <1>2, <2>1
  <2> QED
    BY <1>3, <2>1, <2>2, <2>3, <2>4
<1>8. Book!Forfeit
  BY <1>a, <1>1, <1>7, Forfeited
<1> QED
  BY <1>5, <1>6, <1>8 DEF TrafficInv

\* The invariant holds at the start, and so does that of the ledger.
LEMMA TrafficInit ==
  ASSUME Init
  PROVE  TrafficInv /\ Book!Init
<1>1. taken = [j \in Jobs |-> Zero] /\ Zero \in Counts
  BY CountsType DEF Init
<1>2. TypeOK
  BY <1>1 DEF Init, TypeOK
<1>3. OneUser /\ Sole /\ faults \in Nat /\ resets \in Nat
  BY DEF Init, OneUser, Sole
<1>4. \A a \in Accounts : Zero[a] = 0 /\ InFlight(a) = 0
  BY <1>1, AccountCells, InFlightNone DEF Zero
<1>5. StatsAgree
  BY <1>4 DEF Init, StatsAgree
<1>6. /\ Owed = [a \in Accounts |-> 0] /\ OnAccounts(billed) = [a \in Accounts |-> 0]
      /\ OnAccounts(stray) = [a \in Accounts |-> 0] /\ OnAccounts(lost) = [a \in Accounts |-> 0]
      /\ faults + resets = 0
  BY <1>4 DEF Init, Owed, OnAccounts
<1>7. Book!Init
  BY <1>6, Zenon DEF Book!Init, Book!Zero, Owed, InFlight
<1> QED
  BY <1>2, <1>3, <1>5, <1>7 DEF TrafficInv

\* Every step keeps the invariant and is a step of the ledger, or one it does not see.
LEMMA TrafficNext ==
  ASSUME TrafficInv, [Next]_vars
  PROVE  TrafficInv' /\ [Book!Next]_(Book!vars)
<1>1. CASE UNCHANGED vars
  <2>1. Still /\ UNCHANGED <<power, conns, counters, at, stale, left, clients>>
    BY <1>1 DEF vars, Still
  <2>2. TypeOK' /\ OneUser'
    BY <2>1 DEF TrafficInv, TypeOK, OneUser, Still
  <2> QED
    BY <2>1, <2>2, StillKeeps DEF TrafficInv
<1>2. ASSUME NEW c \in Conns, Route(c) \/ HangUp(c) \/ \E d \in Dirs : Move(c, d)
      PROVE  TrafficInv' /\ [Book!Next]_(Book!vars)
  BY <1>2, ConnStep, MoveStep
<1>3. ASSUME NEW j \in Jobs, Commit(j) \/ Rollback(j)
      PROVE  TrafficInv' /\ Book!Next
  BY <1>3, CommitStep, RollbackStep DEF Book!Next
<1>4. ASSUME NEW j \in Jobs, \/ Begin(j) \/ Lock(j) \/ Taken(j)
                            \/ \E k \in Keys : Swap(j, k) \/ Row(j, k)
      PROVE  TrafficInv' /\ UNCHANGED Book!vars
  BY <1>4, QuietStep, RowStep, SwapStep
<1>5. CASE Reset \/ Crash
  <2>1. TrafficInv' /\ Book!Next
    BY <1>5, ResetStep, CrashStep DEF Book!Next
  <2> QED
    BY <2>1
<1>6. CASE StopCore \/ StartCore \/ \E u \in Users : ChangeClient(u)
  BY <1>6, QuietStep
<1> QED
  BY <1>1, <1>2, <1>3, <1>4, <1>5, <1>6 DEF Next, JobStep

\* The variables keep their types, and only a job that is writing has the write lock.
THEOREM TypeCorrect == Spec => []TypeOK
<1>1. TrafficInv => TypeOK
  BY DEF TrafficInv
<1>2. TrafficInv /\ [Next]_vars => TrafficInv'
  BY TrafficNext
<1>3. Init => TrafficInv
  BY TrafficInit
<1> QED
  BY <1>1, <1>2, <1>3, PTL DEF Spec

\* Traffic implements Ledger: every byte of a user is billed once, unless something fails or
\* stops; and the stats table agrees with the rows.
THEOREM BilledOnceAlways == Spec => BilledOnce
<1>1. Init => TrafficInv /\ Book!Init
  BY TrafficInit
<1>2. TrafficInv /\ [Next]_vars => TrafficInv' /\ [Book!Next]_(Book!vars)
  BY TrafficNext
<1>3. TrafficInv => StatsAgree
  BY DEF TrafficInv
<1> QED
  BY <1>1, <1>2, <1>3, PTL DEF Spec, BilledOnce, Book!Spec

\* The step of OnlineComplete.
OnlineStep == \A j \in sole : at[j] = "write" /\ at'[j] = "idle" /\ online' # {} =>
                online' = Moving(taken[j]) \ left[j]

\* Every step treats the users who are online as OnlineComplete says.
LEMMA OnlineNext == ASSUME TrafficInv, [Next]_vars PROVE OnlineStep
<1>a. TypeOK /\ Sole
  BY DEF TrafficInv
<1>b. DOMAIN at = Jobs /\ sole \subseteq Jobs
  BY <1>a DEF TypeOK
<1> DEFINE Writes == \A j \in Jobs : at[j] = "write" => at'[j] = "write"
<1>1. CASE UNCHANGED online
  BY <1>a, <1>b, <1>1 DEF Sole, OnlineStep
<1>2. CASE Crash
  BY <1>2 DEF Crash, OnlineStep
<1>3. CASE \E j \in Jobs : Commit(j) \/ Rollback(j)
  BY <1>1, <1>3 DEF Commit, Rollback
<1>4. CASE \E j \in Jobs : Taken(j)
  <2>1. Writes
    BY <1>b, <1>4 DEF Taken
  <2> QED
    BY <1>b, <2>1 DEF OnlineStep
<1>5. CASE \E j \in Jobs, k \in Keys : Row(j, k)
  <2>1. UNCHANGED at
    BY <1>5 DEF Row
  <2> QED
    BY <2>1 DEF OnlineStep
<1>6. CASE \/ UNCHANGED vars \/ StopCore \/ Reset \/ StartCore
           \/ \E c \in Conns : Route(c) \/ HangUp(c) \/ \E d \in Dirs : Move(c, d)
           \/ \E u \in Users : ChangeClient(u)
  BY <1>1, <1>6 DEF vars, StopCore, Reset, StartCore, Route, HangUp, Move, ChangeClient
<1>7. CASE \E j \in Jobs : Begin(j) \/ Lock(j) \/ \E k \in Keys : Swap(j, k)
  BY <1>1, <1>7 DEF Begin, Lock, Swap
<1> QED
  BY <1>2, <1>3, <1>4, <1>5, <1>6, <1>7 DEF Next, JobStep

\* A job that has the online lists to itself leaves in them what moved traffic in its batch.
THEOREM OnlineAlways == Spec => OnlineComplete
<1>1. Init => TrafficInv
  BY TrafficInit
<1>2. TrafficInv /\ [Next]_vars => TrafficInv' /\ OnlineStep
  BY TrafficNext, OnlineNext
<1>3. OnlineComplete <=> [][OnlineStep]_vars
  BY PTL DEF OnlineComplete, OnlineStep
<1> QED
  BY <1>1, <1>2, <1>3, PTL DEF Spec

-----------------------------------------------------------------------------
(* StatsHistory (Charts). *)

\* The traffic of each row, the sum of some of them, and the traffic of each bucket.
RowTraffic == [i \in DOMAIN rows |-> rows[i].traffic]
ChartsInv ==
  /\ now \in Int /\ IsFiniteSet(DOMAIN rows)
  /\ \A i \in DOMAIN rows : rows[i].time \in Int /\ rows[i].time <= now /\ rows[i].traffic \in Nat

\* The sum of the traffic of some rows, in the words above.
LEMMA TrafficIsTotal ==
  ASSUME ChartsInv, NEW S \in SUBSET DOMAIN rows
  PROVE  Charts!Traffic(S) = Total(RowTraffic, S) /\ Terms(RowTraffic, S)
<1> DEFINE f == RowTraffic
           Folds(h) == h = [s \in SUBSET S |->
                              IF s = {} THEN 0 ELSE rows[Pick(s)].traffic + h[s \ {Pick(s)}]]
<1>1. Terms(f, S) /\ \A i \in S : f[i] = rows[i].traffic
  BY FS_Subset DEF ChartsInv, Terms, RowTraffic
<1> HIDE DEF f
<1>2. PICK g : g[S] = Total(f, S) /\ \A h : Recursion(h, f, S) <=> h = g
  BY <1>1, RecursionAdds
<1>3. ASSUME NEW h PROVE Folds(h) <=> Recursion(h, f, S)
  <2>1. \A s \in SUBSET S : s # {} => rows[Pick(s)].traffic = f[Pick(s)]
    BY <1>1 DEF Pick
  <2>2. [s \in SUBSET S |-> IF s = {} THEN 0 ELSE rows[Pick(s)].traffic + h[s \ {Pick(s)}]]
          = [s \in SUBSET S |-> IF s = {} THEN 0 ELSE f[Pick(s)] + h[s \ {Pick(s)}]]
    BY <2>1
  <2> QED BY <2>2 DEF Recursion
<1>4. Charts!Traffic(S) = (CHOOSE h : Folds(h))[S]
  BY DEF Charts!Traffic, Charts!MapThenSumSet, Charts!MapThenFoldSet, Pick
<1> HIDE DEF Folds
<1>5. (CHOOSE h : Folds(h)) = g
  BY <1>2, <1>3
<1> QED BY <1>1, <1>2, <1>4, <1>5 DEF f

\* Division rounds down.
LEMMA Division ==
  ASSUME NEW x \in Nat, NEW n \in Nat, n > 0
  PROVE  x \div n \in Nat /\ (x \div n) * n <= x /\ x < (x \div n + 1) * n
OBVIOUS

\* And nothing else does.
LEMMA Quotient ==
  ASSUME NEW x \in Nat, NEW n \in Nat, n > 0, NEW b \in Nat, b * n <= x, x < (b + 1) * n
  PROVE  x \div n = b
<1>1. PICK q \in Nat : q = x \div n /\ q * n <= x /\ x < (q + 1) * n
  BY Division
<1>2. CASE q < b
  <2>1. PICK k \in Nat : b = q + 1 + k
    <3>1. b - (q + 1) \in Nat /\ b = q + 1 + (b - (q + 1))
      BY <1>2
    <3> QED BY <3>1
  <2>2. b * n = (q + 1) * n + k * n /\ k * n >= 0
    BY <2>1
  <2> QED BY <1>1, <2>2
<1>3. CASE b < q
  <2>1. PICK k \in Nat : q = b + 1 + k
    <3>1. q - (b + 1) \in Nat /\ q = b + 1 + (q - (b + 1))
      BY <1>3
    <3> QED BY <3>1
  <2>2. q * n = (b + 1) * n + k * n /\ k * n >= 0
    BY <2>1
  <2> QED BY <1>1, <2>2
<1> QED BY <1>1, <1>2, <1>3

\* A chart begins at a number, and its spans are no shorter than a tick.
LEMMA SpanType ==
  ASSUME NEW limit \in Limits, now \in Int
  PROVE  /\ limit * Hour \in Nat
         /\ Charts!Start(limit) \in Int /\ Charts!Start(limit) <= now /\ Charts!Start(limit) = now - limit * Hour
         /\ Charts!Span(limit) \in Nat /\ Charts!Span(limit) > 0
<1>1. limit \in Nat /\ Hour \in Nat /\ Buckets \in Nat /\ Buckets > 0
  BY ChartsAssumption DEF Charts!BoundAssumption
<1>2. PICK long \in Nat : long = limit * Hour
  BY <1>1
<1>3. long \div Buckets \in Nat
  BY <1>1, Division
<1>4. Charts!Span(limit) \in Nat /\ Charts!Span(limit) > 0
  BY <1>2, <1>3 DEF Charts!Span
<1> QED BY <1>2, <1>4 DEF Charts!Start

\* The bucket of a row: that of its span, or the last.
LEMMA BucketIs ==
  ASSUME ChartsInv, NEW limit \in Limits, NEW i \in Charts!Selected(limit)
  PROVE  /\ Charts!Bucket(limit, i) \in 0..(Buckets - 1)
         /\ \A b \in 0..(Buckets - 1) : b # Buckets - 1 =>
              (Charts!Bucket(limit, i) = b <=>
                 rows[i].time \in Charts!TicksOf(limit, b))
<1>1. PICK start, span, time : start = Charts!Start(limit) /\ span = Charts!Span(limit) /\ time = rows[i].time
  OBVIOUS
<1>2. start \in Int /\ span \in Nat /\ span > 0 /\ time \in Int /\ time > start
  BY <1>1, SpanType DEF ChartsInv, Charts!Selected
<1>3. PICK x \in Nat : x = time - start
  BY <1>2
<1>4. PICK q \in Nat : q = x \div span /\ q * span <= x /\ x < (q + 1) * span
  BY <1>2, Division
<1>5. Buckets \in Nat /\ Buckets > 0
  BY ChartsAssumption DEF Charts!BoundAssumption
<1>6. Charts!Bucket(limit, i) = IF q >= Buckets THEN Buckets - 1 ELSE q
  <2>1. Charts!Bucket(limit, i) = IF q < 0 THEN 0 ELSE IF q >= Buckets THEN Buckets - 1 ELSE q
    BY <1>1, <1>3, <1>4 DEF Charts!Bucket
  <2> QED BY <1>4, <2>1
<1>7. ASSUME NEW b \in 0..(Buckets - 1), b # Buckets - 1
      PROVE  Charts!Bucket(limit, i) = b <=> time \in (start + b * span)..(start + (b + 1) * span - 1)
  <2>1. b \in Nat /\ b < Buckets - 1
    BY <1>5, <1>7
  <2>2. Charts!Bucket(limit, i) = b <=> q = b
    BY <1>4, <1>5, <1>6, <2>1
  <2>3. q = b <=> b * span <= x /\ x < (b + 1) * span
    BY <1>2, <1>4, <2>1, Quotient
  <2>4. PICK from \in Nat, to \in Nat : from = b * span /\ to = (b + 1) * span
    BY <1>2, <2>1
  <2>5. time = start + x
    BY <1>2, <1>3
  <2>6. from <= x /\ x < to <=> time \in (start + from)..(start + to - 1)
    BY <1>2, <2>5
  <2> QED BY <2>2, <2>3, <2>4, <2>6
<1> QED BY <1>1, <1>4, <1>5, <1>6, <1>7 DEF Charts!TicksOf

\* A chart in the words above, for each direction.
LEMMA ChartIs ==
  ASSUME ChartsInv, NEW limit \in Limits, NEW d \in BOOLEAN
  PROVE  /\ DOMAIN Charts!Chart(limit) = {Charts!Bucket(limit, i) : i \in Charts!Selected(limit)}
         /\ \A b \in DOMAIN Charts!Chart(limit) :
              Charts!Chart(limit)[b][d]
                = Total(RowTraffic, {i \in Charts!Selected(limit) : Charts!Bucket(limit, i) = b /\ i[2] = d})
<1>1. DOMAIN Charts!Chart(limit) = {Charts!Bucket(limit, i) : i \in Charts!Selected(limit)}
  BY DEF Charts!Chart
<1>2. ASSUME NEW b \in DOMAIN Charts!Chart(limit)
      PROVE  Charts!Chart(limit)[b][d]
               = Total(RowTraffic, {i \in Charts!Selected(limit) : Charts!Bucket(limit, i) = b /\ i[2] = d})
  <2> DEFINE S == {i \in Charts!Selected(limit) : Charts!Bucket(limit, i) = b /\ i[2] = d}
  <2>1. Charts!Chart(limit)[b][d] = Charts!Traffic(S)
    BY <1>1 DEF Charts!Chart
  <2>2. S \in SUBSET DOMAIN rows
    BY DEF Charts!Selected
  <2> HIDE DEF S
  <2>3. Charts!Traffic(S) = Total(RowTraffic, S)
    BY <2>2, TrafficIsTotal
  <2> QED BY <2>1, <2>3 DEF S
<1> QED BY <1>1, <1>2

\* The traffic of all points of a chart, in the words above.
LEMMA PointsAreTotal ==
  ASSUME NEW limit, NEW d, NEW S, S = DOMAIN Charts!Chart(limit), NEW f, Terms(f, S),
         \A b \in S : f[b] = Charts!Chart(limit)[b][d]
  PROVE  Charts!AllPoints(limit, d) = Total(f, S)
<1> DEFINE Folds(h) == h = [s \in SUBSET S |->
                              IF s = {} THEN 0 ELSE Charts!Chart(limit)[Pick(s)][d] + h[s \ {Pick(s)}]]
<1>1. PICK g : g[S] = Total(f, S) /\ \A h : Recursion(h, f, S) <=> h = g
  BY RecursionAdds
<1>2. ASSUME NEW h PROVE Folds(h) <=> Recursion(h, f, S)
  <2>1. \A s \in SUBSET S : s # {} => Charts!Chart(limit)[Pick(s)][d] = f[Pick(s)]
    BY DEF Pick
  <2>2. [s \in SUBSET S |-> IF s = {} THEN 0 ELSE Charts!Chart(limit)[Pick(s)][d] + h[s \ {Pick(s)}]]
          = [s \in SUBSET S |-> IF s = {} THEN 0 ELSE f[Pick(s)] + h[s \ {Pick(s)}]]
    BY <2>1
  <2> QED BY <2>2 DEF Recursion
<1>3. Charts!AllPoints(limit, d) = (CHOOSE h : Folds(h))[S]
  BY DEF Charts!AllPoints, Charts!MapThenSumSet, Charts!MapThenFoldSet, Pick
<1> HIDE DEF Folds
<1>4. (CHOOSE h : Folds(h)) = g
  BY <1>1, <1>2
<1> QED BY <1>1, <1>3, <1>4

\* Charts are complete as long as no row is of the future.
LEMMA ChartsAreComplete ==
  ASSUME ChartsInv
  PROVE  Charts!ChartIsComplete
<1>1. ASSUME NEW limit \in Limits, NEW d \in BOOLEAN
      PROVE  /\ DOMAIN Charts!Chart(limit) \subseteq 0..(Buckets - 1)
             /\ Charts!AllPoints(limit, d) = Charts!During(Charts!Ticks(limit), d)
             /\ \A b \in DOMAIN Charts!Chart(limit) \ {Buckets - 1} :
                  Charts!Chart(limit)[b][d] = Charts!During(Charts!Ticks(limit) \intersect Charts!TicksOf(limit, b), d)
  <2> DEFINE B == DOMAIN Charts!Chart(limit)
             S == {i \in Charts!Selected(limit) : i[2] = d}
             c == [i \in Charts!Selected(limit) |-> Charts!Bucket(limit, i)]
             parts == Parts(RowTraffic, S, c, B)
             hours == {i \in DOMAIN rows : rows[i].time \in Charts!Ticks(limit) /\ i[2] = d}
  <2>1. B = {Charts!Bucket(limit, i) : i \in Charts!Selected(limit)}
    BY ChartIs
  <2>2. B \subseteq 0..(Buckets - 1) /\ IsFiniteSet(B)
    <3>1. B \subseteq 0..(Buckets - 1)
      <4>1. \A i \in Charts!Selected(limit) : Charts!Bucket(limit, i) \in 0..(Buckets - 1)
        BY BucketIs
      <4> HIDE DEF B
      <4> QED BY <2>1, <4>1
    <3>2. IsFiniteSet(0..(Buckets - 1))
      BY ChartsAssumption, FS_Interval DEF Charts!BoundAssumption
    <3> HIDE DEF B
    <3> QED BY <3>1, <3>2, FS_Subset
  <2>3. hours = S
    <3>1. \A i \in DOMAIN rows : rows[i].time \in Charts!Ticks(limit) <=> rows[i].time > Charts!Start(limit)
      BY SpanType DEF ChartsInv, Charts!Ticks
    <3> QED BY <3>1 DEF Charts!Selected
  <2>4. S \in SUBSET DOMAIN rows /\ Charts!Selected(limit) \subseteq DOMAIN rows
    BY DEF Charts!Selected
  <2>5. \A b \in B : {i \in S : c[i] = b} = {i \in Charts!Selected(limit) : Charts!Bucket(limit, i) = b /\ i[2] = d}
    OBVIOUS
  <2>6. \A b \in B : Charts!Chart(limit)[b][d] = parts[b]
    <3>1. \A b \in B : Charts!Chart(limit)[b][d] =
            Total(RowTraffic, {i \in Charts!Selected(limit) : Charts!Bucket(limit, i) = b /\ i[2] = d})
      BY ChartIs
    <3> HIDE DEF B, S, c
    <3> QED BY <2>5, <3>1 DEF Parts
  <2>7. Terms(RowTraffic, S) /\ Charts!Traffic(S) = Total(RowTraffic, S)
    <3> HIDE DEF S
    <3> QED BY <2>4, TrafficIsTotal
  <2>8. Terms(parts, B) /\ Total(parts, B) = Total(RowTraffic, S)
    <3>1. \A i \in S : c[i] \in B
      BY <2>1
    <3> HIDE DEF B, S, c
    <3> QED BY <2>2, <2>7, <3>1, TotalOfParts
  <2>9. Charts!AllPoints(limit, d) = Charts!During(Charts!Ticks(limit), d)
    <3> HIDE DEF parts, S
    <3>1. Charts!AllPoints(limit, d) = Total(parts, B)
      BY <2>6, <2>8, PointsAreTotal
    <3>2. Charts!During(Charts!Ticks(limit), d) = Charts!Traffic(hours)
      BY DEF Charts!During
    <3> HIDE DEF hours
    <3> QED BY <2>3, <2>7, <2>8, <3>1, <3>2
  <2>10. ASSUME NEW b \in B \ {Buckets - 1}
         PROVE  Charts!Chart(limit)[b][d] = Charts!During(Charts!Ticks(limit) \intersect Charts!TicksOf(limit, b), d)
    <3> DEFINE R == {i \in DOMAIN rows :
                      rows[i].time \in Charts!Ticks(limit) \intersect Charts!TicksOf(limit, b) /\ i[2] = d}
               U == {i \in Charts!Selected(limit) : Charts!Bucket(limit, i) = b /\ i[2] = d}
    <3>1. b \in 0..(Buckets - 1) /\ b # Buckets - 1
      BY <2>2
    <3>2. \A i \in Charts!Selected(limit) : Charts!Bucket(limit, i) = b <=> rows[i].time \in Charts!TicksOf(limit, b)
      BY <3>1, BucketIs
    <3>3. R = U
      <4>1. R = {i \in S : rows[i].time \in Charts!TicksOf(limit, b)}
        BY <2>3
      <4> QED BY <3>2, <4>1
    <3>4. Charts!Chart(limit)[b][d] = Total(RowTraffic, U)
      BY ChartIs
    <3>5. U \in SUBSET DOMAIN rows
      BY <2>4
    <3> HIDE DEF R, U
    <3>6. Charts!Traffic(U) = Total(RowTraffic, U)
      BY <3>5, TrafficIsTotal
    <3>7. Charts!Chart(limit)[b][d] = Charts!Traffic(R)
      BY <3>3, <3>4, <3>6
    <3> QED BY <3>7 DEF R, Charts!During
  <2> QED BY <2>2, <2>9, <2>10
<1> QED BY <1>1, Zenon DEF Charts!ChartIsComplete

\* A chart as a function, point by point.
Spelt(limit) ==
  /\ DOMAIN Charts!Chart(limit) = {Charts!Bucket(limit, i) : i \in Charts!Selected(limit)}
  /\ Charts!Chart(limit) = [b \in DOMAIN Charts!Chart(limit) |-> [d \in BOOLEAN |-> Charts!Chart(limit)[b][d]]]
  /\ \A b \in DOMAIN Charts!Chart(limit) : \A d \in BOOLEAN :
       Charts!Chart(limit)[b][d]
         = Total(RowTraffic, {i \in Charts!Selected(limit) : Charts!Bucket(limit, i) = b /\ i[2] = d})

\* Every chart is that.
LEMMA ChartSpelt == ChartsInv => \A limit \in Limits : Spelt(limit)
<1> SUFFICES ASSUME ChartsInv, NEW limit \in Limits PROVE Spelt(limit)
  OBVIOUS
<1>1. Charts!Chart(limit) = [b \in DOMAIN Charts!Chart(limit) |-> [d \in BOOLEAN |-> Charts!Chart(limit)[b][d]]]
  BY DEF Charts!Chart
<1> QED BY <1>1, ChartIs DEF Spelt

\* So are the charts of the next state.
LEMMA ChartSpeltNext == ChartsInv' => \A limit \in Limits : Spelt(limit)'
<1>1. (ChartsInv => \A limit \in Limits : Spelt(limit))'
  BY ChartSpelt, PTL
<1> QED BY <1>1

\* The table begins empty.
LEMMA ChartsInit == Charts!Init => ChartsInv
<1> SUFFICES ASSUME Charts!Init PROVE ChartsInv
  OBVIOUS
<1>1. DOMAIN rows = {} /\ now = 0
  BY DEF Charts!Init
<1> QED BY <1>1, FS_EmptySet DEF ChartsInv

\* Rows come with the time of then, and time only passes.
LEMMA ChartsNext == ChartsInv /\ [Charts!Next]_Charts!vars => ChartsInv'
<1> SUFFICES ASSUME ChartsInv, [Charts!Next]_Charts!vars PROVE ChartsInv'
  OBVIOUS
<1>1. CASE Charts!Tick
  BY <1>1 DEF Charts!Tick, ChartsInv
<1>2. CASE Charts!DelOldStats
  <2>1. now' = now /\ DOMAIN rows' \subseteq DOMAIN rows /\ \A i \in DOMAIN rows' : rows'[i] = rows[i]
    BY <1>2 DEF Charts!DelOldStats, Charts!Since
  <2>2. IsFiniteSet(DOMAIN rows')
    BY <2>1, FS_Subset DEF ChartsInv
  <2> QED BY <2>1, <2>2 DEF ChartsInv
<1>3. ASSUME NEW batch \in Batches, NEW x \in 0..MaxTraffic, NEW y \in 0..MaxTraffic,
             Charts!SaveStats(batch, x, y)
      PROVE  ChartsInv'
  <2> DEFINE more == {batch} \X BOOLEAN
  <2>1. /\ now' = now /\ DOMAIN rows' = DOMAIN rows \union more
        /\ \A i \in DOMAIN rows' :
             \/ i \in DOMAIN rows /\ rows'[i] = rows[i]
             \/ rows'[i].time = now /\ rows'[i].traffic \in {x, y}
    BY <1>3 DEF Charts!SaveStats
  <2>2. x \in Nat /\ y \in Nat
    BY ChartsAssumption DEF Charts!BoundAssumption
  <2>3. IsFiniteSet(DOMAIN rows')
    <3>1. more = {<<batch, TRUE>>} \union {<<batch, FALSE>>}
      <4>1. <<batch, TRUE>> \in more /\ <<batch, FALSE>> \in more
        OBVIOUS
      <4>2. ASSUME NEW i \in more PROVE i = <<batch, TRUE>> \/ i = <<batch, FALSE>>
        <5>1. i = <<i[1], i[2]>> /\ i[1] = batch /\ i[2] \in BOOLEAN
          OBVIOUS
        <5>2. i[2] = TRUE \/ i[2] = FALSE
          BY <5>1, Zenon
        <5> QED BY <5>1, <5>2, Zenon
      <4> HIDE DEF more
      <4> QED BY <4>1, <4>2, Zenon
    <3>2. DOMAIN rows' = (DOMAIN rows \union {<<batch, TRUE>>}) \union {<<batch, FALSE>>}
      BY <2>1, <3>1
    <3>3. IsFiniteSet(DOMAIN rows \union {<<batch, TRUE>>})
      BY FS_AddElement DEF ChartsInv
    <3>4. IsFiniteSet((DOMAIN rows \union {<<batch, TRUE>>}) \union {<<batch, FALSE>>})
      BY <3>3, FS_AddElement
    <3> QED BY <3>2, <3>4
  <2> QED BY <2>1, <2>2, <2>3 DEF ChartsInv
<1>4. CASE UNCHANGED Charts!vars
  BY <1>4 DEF ChartsInv, Charts!vars
<1> QED BY <1>1, <1>2, <1>3, <1>4 DEF Charts!Next

\* Rows that are deleted were in no chart of the days that are kept.
LEMMA DeletedWereNotCharted ==
  ASSUME ChartsInv, ChartsInv', Charts!DelOldStats, NEW limit \in Limits, limit * Hour <= Age * Day
  PROVE  Charts!Chart(limit)' = Charts!Chart(limit)
<1>1. /\ now' = now
      /\ DOMAIN rows' = {i \in DOMAIN rows : rows[i].time >= now - Age * Day}
      /\ \A i \in DOMAIN rows' : rows'[i] = rows[i]
  BY DEF Charts!DelOldStats, Charts!Since
<1>2. Charts!Start(limit)' = Charts!Start(limit) /\ Charts!Span(limit)' = Charts!Span(limit)
  BY <1>1 DEF Charts!Start, Charts!Span
<1>3. PICK S : S = Charts!Selected(limit)
  OBVIOUS
<1>4. Charts!Selected(limit)' = S /\ S \subseteq DOMAIN rows' /\ S \subseteq DOMAIN rows
  <2>1. \A i \in DOMAIN rows : rows[i].time > Charts!Start(limit) => rows[i].time >= now - Age * Day
    <3>1. PICK short, long : short = limit * Hour /\ long = Age * Day
      OBVIOUS
    <3>2. short \in Int /\ long \in Int /\ short <= long /\ Charts!Start(limit) = now - short
      <4>1. limit \in Nat /\ Hour \in Nat /\ Age \in Nat /\ Day \in Nat
        BY ChartsAssumption DEF Charts!BoundAssumption
      <4>2. short \in Int /\ long \in Int
        BY <3>1, <4>1
      <4> QED BY <3>1, <4>2 DEF Charts!Start
    <3>3. now \in Int /\ \A i \in DOMAIN rows : rows[i].time \in Int
      BY DEF ChartsInv
    <3>4. \A i \in DOMAIN rows : rows[i].time > now - short => rows[i].time >= now - long
      BY <3>2, <3>3
    <3> QED BY <3>1, <3>2, <3>4
  <2>2. S = {i \in DOMAIN rows : rows[i].time > Charts!Start(limit)}
    BY <1>3 DEF Charts!Selected
  <2>3. Charts!Selected(limit)' = {i \in DOMAIN rows' : rows'[i].time > Charts!Start(limit)}
    BY <1>2 DEF Charts!Selected
  <2> QED BY <1>1, <2>1, <2>2, <2>3
<1>5. \A i \in S : Charts!Bucket(limit, i)' = Charts!Bucket(limit, i)
  BY <1>1, <1>2, <1>4 DEF Charts!Bucket
<1>6. PICK old, new : old = RowTraffic /\ new = RowTraffic'
  OBVIOUS
<1>7. ASSUME NEW s \in SUBSET S PROVE Total(new, s) = Total(old, s)
  <2>1. \A i \in s : new[i] = old[i]
    BY <1>1, <1>4, <1>6 DEF RowTraffic
  <2>2. Terms(old, s)
    BY <1>4, <1>6, TrafficIsTotal
  <2> QED BY <2>1, <2>2, TotalSame
<1>8. PICK c : c = [i \in S |-> Charts!Bucket(limit, i)]
  OBVIOUS
<1>9. Spelt(limit) /\ Spelt(limit)'
  BY ChartSpelt, ChartSpeltNext
<1>10. PICK K : K = {c[i] : i \in S}
  OBVIOUS
<1>11. DOMAIN Charts!Chart(limit) = K
  BY <1>3, <1>8, <1>9, <1>10 DEF Spelt
<1>12. DOMAIN Charts!Chart(limit)' = K
  <2>1. DOMAIN Charts!Chart(limit)' = {Charts!Bucket(limit, i)' : i \in Charts!Selected(limit)'}
    BY <1>9 DEF Spelt
  <2> QED BY <1>4, <1>5, <1>8, <1>10, <2>1
<1>13. ASSUME NEW b \in K, NEW d \in BOOLEAN
       PROVE  Charts!Chart(limit)'[b][d] = Charts!Chart(limit)[b][d]
  <2>1. PICK s : s = {i \in S : c[i] = b /\ i[2] = d}
    OBVIOUS
  <2>2. {i \in Charts!Selected(limit) : Charts!Bucket(limit, i) = b /\ i[2] = d} = s
    BY <1>3, <1>8, <2>1
  <2>3. {i \in Charts!Selected(limit)' : Charts!Bucket(limit, i)' = b /\ i[2] = d} = s
    BY <1>4, <1>5, <1>8, <2>1
  <2>4. Charts!Chart(limit)[b][d] = Total(old, s)
    BY <1>6, <1>9, <1>11, <2>2 DEF Spelt
  <2>5. Charts!Chart(limit)'[b][d] = Total(new, s)
    BY <1>6, <1>9, <1>12, <2>3 DEF Spelt
  <2>6. s \in SUBSET S
    BY <2>1
  <2> QED BY <1>7, <2>4, <2>5, <2>6
<1>14. Charts!Chart(limit) = [b \in K |-> [d \in BOOLEAN |-> Charts!Chart(limit)[b][d]]]
  BY <1>9, <1>11 DEF Spelt
<1>15. Charts!Chart(limit)' = [b \in K |-> [d \in BOOLEAN |-> Charts!Chart(limit)'[b][d]]]
  BY <1>9, <1>12 DEF Spelt
<1> QED BY <1>13, <1>14, <1>15

\* For any numbers of points, hours, days and rows: a chart has all the traffic of its hours, in
\* the right places, and what DelOldStats deletes changes no chart of the days that are kept.
THEOREM ChartsAlwaysComplete == Charts!Spec => ChartsComplete
<1> DEFINE Kept == \A limit \in Limits : limit * Hour <= Age * Day => Charts!Chart(limit)' = Charts!Chart(limit)
           Keeps == now' = now /\ DOMAIN rows' \subseteq DOMAIN rows => Kept
<1>1. ChartsInv => Charts!ChartIsComplete
  BY ChartsAreComplete
<1>2. ChartsInv /\ [Charts!Next]_Charts!vars => [Keeps]_Charts!vars
  <2> SUFFICES ASSUME ChartsInv, Charts!Next, now' = now, DOMAIN rows' \subseteq DOMAIN rows
               PROVE  Kept
    OBVIOUS
  <2>1. ~ Charts!Tick
    BY DEF Charts!Tick, ChartsInv
  <2>2. ASSUME NEW batch, NEW x, NEW y, Charts!SaveStats(batch, x, y) PROVE FALSE
    <3>1. <<batch, TRUE>> \notin DOMAIN rows /\ <<batch, TRUE>> \in DOMAIN rows'
      BY <2>2 DEF Charts!SaveStats
    <3> QED BY <3>1
  <2>3. Charts!DelOldStats
    BY <2>1, <2>2 DEF Charts!Next
  <2>4. ChartsInv'
    BY ChartsNext
  <2> QED BY <2>3, <2>4, DeletedWereNotCharted
<1> HIDE DEF Kept
<1>3. Charts!Spec => [][Keeps]_Charts!vars /\ []Charts!ChartIsComplete
  BY ChartsInit, ChartsNext, <1>1, <1>2, PTL DEF Charts!Spec
<1> QED BY <1>3, PTL DEF ChartsComplete, Charts!RetentionKeepsCharts, Kept
=============================================================================
