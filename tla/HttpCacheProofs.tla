-------------------------- MODULE HttpCacheProofs --------------------------
(***************************************************************************)
(* Proofs about HttpCache, for any URLs, responses and caps: the two sums  *)
(* are exact, memory keeps to its cap and a store makes its room on disk,  *)
(* the files follow the entries, and the cache implements CacheStore,      *)
(* whichever file operations fail and wherever the browser dies.           *)
(***************************************************************************)
EXTENDS HttpCache, FiniteSetTheorems, WellFoundedInduction, TLAPS

-----------------------------------------------------------------------------
(* Sums over finite sets.  They are folds, so what they do is shown of the *)
(* set with the fewest elements of which it would not hold.                 *)

LEMMA NatLeast ==
    ASSUME NEW T \in SUBSET Nat, T # {}
    PROVE  \E x \in T : \A y \in T : x <= y
<1> DEFINE R == OpToRel(<, Nat)
<1>1. IsWellFoundedOn(R, Nat) BY NatLessThanWellFounded
<1>2. \A x, y \in Nat : <<y, x>> \in R <=> y < x BY DEF OpToRel
<1> HIDE DEF R
<1>3. PICK x \in T : \A y \in T : ~ (<<y, x>> \in R) BY <1>1, WFMin
<1>4. ASSUME NEW y \in T PROVE x <= y
  <2>1. ~(<<y, x>> \in R) /\ x \in Nat /\ y \in Nat BY <1>3
  <2>2. ~(y < x) BY <2>1, <1>2
  <2>3. QED BY <2>1, <2>2
<1>5. QED BY <1>4

\* The element a sum takes next, and the sums of the sets of D.
First(s) == CHOOSE x \in s : TRUE
Summed(F, w, D) ==
    F = [s \in D |-> IF s = {} THEN 0 ELSE w[First(s)] + F[s \ {First(s)}]]

Small(S, n) == {s \in SUBSET S : Cardinality(s) <= n}

LEMMA FirstIn == ASSUME NEW s, s # {} PROVE First(s) \in s
BY DEF First

LEMMA Fewer ==
    ASSUME NEW s, IsFiniteSet(s), NEW x \in s
    PROVE  /\ IsFiniteSet(s \ {x}) /\ Cardinality(s) \in Nat /\ Cardinality(s \ {x}) \in Nat
           /\ Cardinality(s \ {x}) = Cardinality(s) - 1
BY FS_CardinalityType, FS_RemoveElement

LEMMA SumsExist ==
    ASSUME NEW S, IsFiniteSet(S), NEW w, NEW n \in Nat
    PROVE  \E F : Summed(F, w, Small(S, n))
<1> DEFINE T == {m \in Nat : ~ \E F : Summed(F, w, Small(S, m))}
<1>1. SUFFICES ASSUME T # {} PROVE FALSE OBVIOUS
<1>2. PICK m \in T : \A y \in T : m <= y BY <1>1, NatLeast
<1>fin. \A s \in SUBSET S : IsFiniteSet(s) /\ Cardinality(s) \in Nat
  BY FS_Subset, FS_CardinalityType
<1>3. m # 0
  <2>1. SUFFICES ASSUME m = 0 PROVE FALSE OBVIOUS
  <2>2. \A s \in Small(S, 0) : s = {} BY <1>fin, FS_EmptySet DEF Small
  <2>3. PICK F : F = [s \in Small(S, 0) |-> 0] OBVIOUS
  <2>4. Summed(F, w, Small(S, 0)) BY <2>2, <2>3 DEF Summed
  <2>5. QED BY <2>1, <2>4
<1>4. m - 1 \in Nat /\ m - 1 \notin T BY <1>2, <1>3
<1>5. PICK G : Summed(G, w, Small(S, m - 1)) BY <1>4
<1>6. PICK F : F = [s \in Small(S, m) |-> IF s = {} THEN 0 ELSE w[First(s)] + G[s \ {First(s)}]]
  OBVIOUS
<1>7. \A s \in Small(S, m) : s # {} => s \ {First(s)} \in Small(S, m - 1)
  <2> SUFFICES ASSUME NEW s \in Small(S, m), s # {} PROVE s \ {First(s)} \in Small(S, m - 1) OBVIOUS
  <2>1. First(s) \in s BY FirstIn
  <2>2. s \in SUBSET S /\ Cardinality(s) <= m /\ IsFiniteSet(s) BY <1>fin DEF Small
  <2>3. Cardinality(s \ {First(s)}) = Cardinality(s) - 1 /\ Cardinality(s) \in Nat BY <2>1, <2>2, Fewer
  <2>4. QED BY <2>2, <2>3, <1>4 DEF Small
<1>8. Small(S, m - 1) \subseteq Small(S, m) BY <1>4, <1>fin DEF Small
<1>9. \A s \in Small(S, m - 1) : F[s] = G[s] BY <1>5, <1>6, <1>8 DEF Summed
<1>10. \A s \in Small(S, m) : F[s] = IF s = {} THEN 0 ELSE w[First(s)] + F[s \ {First(s)}]
  BY <1>6, <1>7, <1>9
<1>11. F = [s \in Small(S, m) |-> F[s]] BY <1>6
<1>12. F = [s \in Small(S, m) |-> IF s = {} THEN 0 ELSE w[First(s)] + F[s \ {First(s)}]]
  BY <1>10, <1>11
<1>13. QED BY <1>2, <1>12 DEF Summed

\* Total is the sum of its set.
LEMMA TotalSummed ==
    ASSUME NEW S, IsFiniteSet(S), NEW w
    PROVE  \E F : Summed(F, w, SUBSET S) /\ Total(w, S) = F[S]
<1> DEFINE G == CHOOSE F : Summed(F, w, SUBSET S)
<1>1. Cardinality(S) \in Nat BY FS_CardinalityType
<1>a. \A s \in SUBSET S : Cardinality(s) <= Cardinality(S) BY FS_Subset
<1>b. PICK n : n = Cardinality(S) OBVIOUS
<1>c. Small(S, n) = SUBSET S BY <1>a, <1>b, Zenon DEF Small
<1>2. PICK H : Summed(H, w, Small(S, n)) BY <1>1, <1>b, SumsExist
<1>3. Summed(H, w, SUBSET S) BY <1>2, <1>c
<1>4. Summed(G, w, SUBSET S) BY <1>3
<1>5. Total(w, S) = G[S]
  BY DEF Total, MapThenSumSet, MapThenFoldSet, Summed, First
<1>6. QED BY <1>4, <1>5

\* What a sum comes to depends neither on the set it was taken in nor on the
\* order its elements were taken in.
LEMMA SumsAgree ==
    ASSUME NEW S, NEW R \in SUBSET S, IsFiniteSet(S), NEW v, NEW w, NEW F, NEW G,
           \A x \in R : w[x] = v[x],
           Summed(F, w, SUBSET S), Summed(G, v, SUBSET R)
    PROVE  F[R] = G[R]
<1> DEFINE Bad == {s \in SUBSET R : F[s] # G[s]}
           T == {Cardinality(s) : s \in Bad}
<1>1. SUFFICES ASSUME Bad # {} PROVE FALSE OBVIOUS
<1>2. \A s \in SUBSET S : IsFiniteSet(s) /\ Cardinality(s) \in Nat BY FS_Subset, FS_CardinalityType
<1>3. T \in SUBSET Nat /\ T # {} BY <1>1, <1>2
<1>4. PICK m \in T : \A y \in T : m <= y BY <1>3, NatLeast
<1>5. PICK s \in Bad : m = Cardinality(s) BY <1>4
<1>6. s \in SUBSET R /\ s \in SUBSET S /\ F[s] # G[s] BY <1>5
<1>7. s # {} BY <1>6 DEF Summed
<1>8. PICK x : x = First(s) OBVIOUS
<1>9. x \in s BY <1>7, <1>8, FirstIn
<1>10. F[s] = w[x] + F[s \ {x}] /\ G[s] = v[x] + G[s \ {x}] BY <1>6, <1>7, <1>8 DEF Summed
<1>11. s \ {x} \in SUBSET R /\ Cardinality(s \ {x}) = m - 1 /\ m \in Nat /\ m - 1 \in Nat
  BY <1>2, <1>5, <1>6, <1>9, Fewer
<1>12. s \ {x} \notin Bad BY <1>4, <1>11
<1>13. F[s \ {x}] = G[s \ {x}] BY <1>11, <1>12
<1>14. w[x] = v[x] BY <1>6, <1>9
<1>15. QED BY <1>6, <1>10, <1>13, <1>14

InAnyOrder(F, w, S) ==
    \A s \in SUBSET S : F[s] \in Int /\ \A x \in s : F[s] = w[x] + F[s \ {x}]

LEMMA SumsTakeAny ==
    ASSUME NEW S, IsFiniteSet(S), NEW w, \A x \in S : w[x] \in Int,
           NEW F, Summed(F, w, SUBSET S)
    PROVE  InAnyOrder(F, w, S)
<1> DEFINE Good(s) == F[s] \in Int /\ \A x \in s : F[s] = w[x] + F[s \ {x}]
           Bad == {s \in SUBSET S : ~Good(s)}
           T == {Cardinality(s) : s \in Bad}
<1>1. SUFFICES ASSUME Bad # {} PROVE FALSE BY DEF InAnyOrder
<1>2. \A s \in SUBSET S : IsFiniteSet(s) /\ Cardinality(s) \in Nat BY FS_Subset, FS_CardinalityType
<1>3. T \in SUBSET Nat /\ T # {} BY <1>1, <1>2
<1>4. PICK m \in T : \A y \in T : m <= y BY <1>3, NatLeast
<1>5. PICK s \in Bad : m = Cardinality(s) BY <1>4
<1>6. s \in SUBSET S /\ ~Good(s) BY <1>5
<1>7. ASSUME NEW u \in SUBSET S, Cardinality(u) < m PROVE Good(u)
  BY <1>2, <1>4, <1>7
<1>8. s # {} BY <1>6 DEF Summed
<1>9. PICK c : c = First(s) OBVIOUS
<1>10. c \in s BY <1>8, <1>9, FirstIn
<1>11. F[s] = w[c] + F[s \ {c}] BY <1>6, <1>8, <1>9 DEF Summed
<1>12. \A x \in s : s \ {x} \in SUBSET S /\ Cardinality(s \ {x}) < m
  BY <1>2, <1>5, <1>6, Fewer
<1>13. \A x \in s : Good(s \ {x}) BY <1>7, <1>12
<1>14. \A x \in s : F[s \ {x}] \in Int /\ w[x] \in Int BY <1>13, <1>6
<1>15. F[s] \in Int BY <1>10, <1>11, <1>14
<1>16. ASSUME NEW x \in s PROVE F[s] = w[x] + F[s \ {x}]
  <2>1. CASE x = c BY <2>1, <1>11
  <2>2. CASE x # c
    <3>1. PICK u : u = s \ {c} OBVIOUS
    <3>2. PICK v : v = s \ {x} OBVIOUS
    <3>3. PICK y : y = u \ {x} OBVIOUS
    <3>4. y = v \ {c} /\ x \in u /\ c \in v BY <3>1, <3>2, <3>3, <2>2, <1>10
    <3>5. Good(u) /\ Good(v) BY <3>1, <3>2, <1>13, <1>10
    <3>6. F[u] = w[x] + F[y] BY <3>3, <3>4, <3>5
    <3>7. F[v] = w[c] + F[y] BY <3>4, <3>5
    <3>8. F[s] = w[c] + F[u] BY <1>11, <3>1
    <3>9. u \in SUBSET S /\ x \in u /\ Cardinality(u) < m BY <3>1, <3>4, <1>12, <1>10
    <3>10. IsFiniteSet(u) /\ y \in SUBSET S BY <1>2, <3>3, <3>9
    <3>11. Cardinality(y) < m BY <3>3, <3>9, <3>10, Fewer, <1>2
    <3>12. F[y] \in Int /\ w[x] \in Int /\ w[c] \in Int BY <3>10, <3>11, <1>7, <1>6, <1>10
    <3>13. F[s] = w[x] + F[v] BY <3>6, <3>7, <3>8, <3>12
    <3>14. QED BY <3>2, <3>13
  <2>3. QED BY <2>1, <2>2
<1>17. QED BY <1>6, <1>15, <1>16

\* The facts the model's sums are used with.
LEMMA TotalNone == ASSUME NEW w PROVE Total(w, {}) = 0
<1>1. PICK F : Summed(F, w, SUBSET {}) /\ Total(w, {}) = F[{}] BY TotalSummed, FS_EmptySet
<1>2. QED BY <1>1 DEF Summed

LEMMA TotalSame ==
    ASSUME NEW S, IsFiniteSet(S), NEW v, NEW w, \A x \in S : v[x] = w[x]
    PROVE  Total(v, S) = Total(w, S)
<1>1. PICK F : Summed(F, w, SUBSET S) /\ Total(w, S) = F[S] BY TotalSummed
<1>2. PICK G : Summed(G, v, SUBSET S) /\ Total(v, S) = G[S] BY TotalSummed
<1>3. F[S] = G[S] BY <1>1, <1>2, SumsAgree
<1>4. QED BY <1>1, <1>2, <1>3

LEMMA TotalTakes ==
    ASSUME NEW S, IsFiniteSet(S), NEW w, \A y \in S : w[y] \in Int, NEW x \in S
    PROVE  Total(w, S) \in Int /\ Total(w, S) = w[x] + Total(w, S \ {x})
<1>1. PICK F : Summed(F, w, SUBSET S) /\ Total(w, S) = F[S] BY TotalSummed
<1>2. IsFiniteSet(S \ {x}) BY FS_Subset
<1>3. PICK G : Summed(G, w, SUBSET (S \ {x})) /\ Total(w, S \ {x}) = G[S \ {x}]
  BY <1>2, TotalSummed
<1>4. PICK R : R = S \ {x} OBVIOUS
<1>5. Summed(G, w, SUBSET R) /\ R \in SUBSET S BY <1>3, <1>4
<1>6. F[R] = G[R] BY <1>1, <1>5, SumsAgree
<1>7. F[S] \in Int /\ F[S] = w[x] + F[S \ {x}]
  <2>1. Summed(F, w, SUBSET S) BY <1>1
  <2>2. InAnyOrder(F, w, S) BY <2>1, SumsTakeAny
  <2>3. QED BY <2>2 DEF InAnyOrder
<1>8. QED BY <1>1, <1>3, <1>4, <1>6, <1>7

\* What fails for a finite set fails for one that is smallest.
LEMMA SmallestSet ==
    ASSUME NEW S, IsFiniteSet(S), NEW Bad \in SUBSET (SUBSET S), Bad # {}
    PROVE  \E R \in Bad : \A x \in R : R \ {x} \notin Bad
<1> DEFINE T == {Cardinality(s) : s \in Bad}
<1>1. \A s \in SUBSET S : IsFiniteSet(s) /\ Cardinality(s) \in Nat BY FS_Subset, FS_CardinalityType
<1>2. T \in SUBSET Nat /\ T # {} BY <1>1
<1>3. PICK m \in T : \A y \in T : m <= y BY <1>2, NatLeast
<1>4. PICK R \in Bad : m = Cardinality(R) BY <1>3
<1>5. ASSUME NEW x \in R PROVE R \ {x} \notin Bad
  <2>1. Cardinality(R \ {x}) = m - 1 /\ m \in Nat BY <1>1, <1>4, Fewer
  <2>2. ~(m <= m - 1) BY <2>1
  <2>3. QED BY <2>1, <2>2, <1>3
<1>6. QED BY <1>4, <1>5

LEMMA TotalSplit ==
    ASSUME NEW S, IsFiniteSet(S), NEW w, \A y \in S : w[y] \in Int, NEW R \in SUBSET S
    PROVE  /\ Total(w, R) \in Int /\ Total(w, S \ R) \in Int
           /\ Total(w, S) = Total(w, R) + Total(w, S \ R)
<1> DEFINE Good(Q) == /\ Total(w, Q) \in Int /\ Total(w, S \ Q) \in Int
                      /\ Total(w, S) = Total(w, Q) + Total(w, S \ Q)
           Bad == {Q \in SUBSET S : ~Good(Q)}
<1>1. SUFFICES ASSUME Bad # {} PROVE FALSE OBVIOUS
<1>2. PICK Q \in Bad : \A x \in Q : Q \ {x} \notin Bad BY <1>1, SmallestSet
<1>3. Q \in SUBSET S /\ ~Good(Q) BY <1>2
<1>4. CASE Q = {}
  <2>1. Total(w, {}) = 0 /\ S \ Q = S BY <1>4, TotalNone
  <2>2. Total(w, S) \in Int
    <3>1. CASE S = {} BY <3>1, TotalNone
    <3>2. CASE S # {} BY <3>2, TotalTakes
    <3>3. QED BY <3>1, <3>2
  <2>3. QED BY <2>1, <2>2, <1>3, <1>4
<1>5. CASE Q # {}
  <2>1. PICK c : c \in Q BY <1>5
  <2>2. PICK P : P = Q \ {c} OBVIOUS
  <2>3. Good(P) BY <1>2, <1>3, <2>1, <2>2
  <2>4. IsFiniteSet(Q) /\ IsFiniteSet(S \ P) BY <1>3, FS_Subset, FS_Difference
  <2>5. Total(w, Q) = w[c] + Total(w, P) /\ Total(w, Q) \in Int
    BY <1>3, <2>1, <2>2, <2>4, TotalTakes
  <2>6. c \in S \ P /\ (S \ P) \ {c} = S \ Q BY <1>3, <2>1, <2>2
  <2>7. PICK O : O = S \ P OBVIOUS
  <2>8. Total(w, O) = w[c] + Total(w, O \ {c}) BY <2>4, <2>6, <2>7, TotalTakes
  <2>9. Total(w, S \ P) = w[c] + Total(w, S \ Q) BY <2>6, <2>7, <2>8
  <2>10. Total(w, S \ Q) \in Int
    <3>1. IsFiniteSet(S \ Q) BY FS_Difference
    <3>2. CASE S \ Q = {}
      <4>1. Total(w, S \ Q) = 0 BY <3>2, TotalNone, Zenon
      <4>2. QED BY <4>1
    <3>3. CASE S \ Q # {} BY <3>1, <3>3, TotalTakes
    <3>4. QED BY <3>2, <3>3
  <2>11. w[c] \in Int BY <1>3, <2>1
  <2>12. QED BY <1>3, <2>3, <2>5, <2>9, <2>10, <2>11
<1>6. QED BY <1>4, <1>5

LEMMA TotalNat ==
    ASSUME NEW S, IsFiniteSet(S), NEW w, \A y \in S : w[y] \in Nat
    PROVE  Total(w, S) \in Nat
<1> DEFINE Bad == {Q \in SUBSET S : Total(w, Q) \notin Nat}
<1>1. SUFFICES ASSUME Bad # {} PROVE FALSE OBVIOUS
<1>2. PICK Q \in Bad : \A x \in Q : Q \ {x} \notin Bad BY <1>1, SmallestSet
<1>3. Q \in SUBSET S /\ Total(w, Q) \notin Nat BY <1>2
<1>z. Total(w, {}) = 0 /\ 0 \in Nat BY TotalNone
<1>4. Q # {} BY <1>3, <1>z, Zenon
<1>5. PICK c : c \in Q BY <1>4
<1>6. IsFiniteSet(Q) BY <1>3, FS_Subset
<1>7. Total(w, Q) = w[c] + Total(w, Q \ {c}) BY <1>3, <1>5, <1>6, TotalTakes
<1>8. Total(w, Q \ {c}) \in Nat BY <1>2, <1>3, <1>5
<1>9. w[c] \in Nat BY <1>3, <1>5
<1>10. QED BY <1>3, <1>7, <1>8, <1>9

LEMMA TotalAdds ==
    ASSUME NEW S, IsFiniteSet(S), NEW u, NEW v, NEW w,
           \A y \in S : v[y] \in Int /\ w[y] \in Int /\ u[y] = v[y] + w[y]
    PROVE  /\ Total(v, S) \in Int /\ Total(w, S) \in Int
           /\ Total(u, S) = Total(v, S) + Total(w, S)
<1> DEFINE Good(Q) == /\ Total(v, Q) \in Int /\ Total(w, Q) \in Int
                      /\ Total(u, Q) = Total(v, Q) + Total(w, Q)
           Bad == {Q \in SUBSET S : ~Good(Q)}
<1>1. SUFFICES ASSUME Bad # {} PROVE FALSE OBVIOUS
<1>2. PICK Q \in Bad : \A x \in Q : Q \ {x} \notin Bad BY <1>1, SmallestSet
<1>3. Q \in SUBSET S /\ ~Good(Q) BY <1>2
<1>z. Good({})
  <2>1. Total(u, {}) = 0 /\ Total(v, {}) = 0 /\ Total(w, {}) = 0 BY TotalNone
  <2>2. QED BY <2>1
<1> HIDE DEF Good
<1>4. Q # {} BY <1>3, <1>z, Zenon
<1> USE DEF Good
<1>5. PICK c : c \in Q BY <1>4
<1>6. IsFiniteSet(Q) BY <1>3, FS_Subset
<1>7. \A y \in Q : v[y] \in Int /\ w[y] \in Int /\ u[y] \in Int BY <1>3
<1>8. PICK P : P = Q \ {c} OBVIOUS
<1>9. Total(v, Q) = v[c] + Total(v, P) BY <1>5, <1>6, <1>7, <1>8, TotalTakes
<1>10. Total(w, Q) = w[c] + Total(w, P) BY <1>5, <1>6, <1>7, <1>8, TotalTakes
<1>11. Total(u, Q) = u[c] + Total(u, P) BY <1>5, <1>6, <1>7, <1>8, TotalTakes
<1>12. Good(P) BY <1>2, <1>3, <1>5, <1>8
<1>13. v[c] \in Int /\ w[c] \in Int /\ u[c] = v[c] + w[c] BY <1>3, <1>5
<1>14. QED BY <1>3, <1>9, <1>10, <1>11, <1>12, <1>13

-----------------------------------------------------------------------------
(* What an entries map holds. *)

Maps == [Keys -> Entry \cup {None}]
HeldIn(m) == {k \in Keys : m[k] # None}
Emptied(m, ks) == [k \in Keys |-> IF k \in ks THEN None ELSE m[k]]
Unloaded(m, ks) == [k \in Keys |-> IF k \in ks THEN [m[k] EXCEPT !.body = None] ELSE m[k]]

LEMMA KeysFinite ==
    ASSUME NEW S \in SUBSET Keys
    PROVE  IsFiniteSet(S)
BY SizesAssumption, FS_Subset DEF SizesAssumption

LEMMA EntryCosts ==
    ASSUME NEW e \in Entry
    PROVE  /\ Cost(e) \in Nat /\ e.size \in Nat /\ Cost(e) >= 1
           /\ (Loaded(e) => Cost(e) = 1 + e.size) /\ (~Loaded(e) => Cost(e) = 1)
<1>1. e.size \in Nat BY DEF Entry
<1>2. CASE Loaded(e) BY <1>1, <1>2 DEF Cost
<1>3. CASE ~Loaded(e) BY <1>1, <1>3 DEF Cost
<1>4. QED BY <1>2, <1>3

\* The entry of a key that is held is one.
LEMMA HeldEntry ==
    ASSUME NEW m \in Maps, NEW k \in HeldIn(m)
    PROVE  m[k] \in Entry
BY DEF Maps, HeldIn

LEMMA SumsAreNumbers ==
    ASSUME NEW m \in Maps, NEW S \in SUBSET HeldIn(m)
    PROVE  CostOf(m, S) \in Nat /\ SizeOf(m, S) \in Nat /\ DiskCostOf(m, S) \in Nat
<1>1. OnDisk(m, S) \in SUBSET S BY DEF OnDisk
<1>2. IsFiniteSet(S) /\ IsFiniteSet(OnDisk(m, S)) BY <1>1, KeysFinite DEF HeldIn
<1>3. \A k \in S : Cost(m[k]) \in Nat /\ m[k].size \in Nat BY HeldEntry, EntryCosts
<1>4. CostOf(m, S) \in Nat
  <2>1. PICK w : w = [k \in S |-> Cost(m[k])] OBVIOUS
  <2>2. \A y \in S : w[y] \in Nat BY <2>1, <1>3
  <2>3. Total(w, S) \in Nat BY <2>2, <1>2, TotalNat
  <2>4. QED BY <2>1, <2>3 DEF CostOf
<1>5. ASSUME NEW R \in SUBSET S PROVE SizeOf(m, R) \in Nat
  <2>1. PICK w : w = [k \in R |-> m[k].size] OBVIOUS
  <2>2. \A y \in R : w[y] \in Nat BY <2>1, <1>3
  <2>3. IsFiniteSet(R) BY <1>2, FS_Subset
  <2>4. Total(w, R) \in Nat BY <2>2, <2>3, TotalNat
  <2>5. QED BY <2>1, <2>4 DEF SizeOf
<1>6. QED BY <1>1, <1>4, <1>5 DEF DiskCostOf

LEMMA SumsOfNone ==
    ASSUME NEW m
    PROVE  CostOf(m, {}) = 0 /\ SizeOf(m, {}) = 0 /\ DiskCostOf(m, {}) = 0
<1>1. OnDisk(m, {}) = {} BY DEF OnDisk
<1>2. CostOf(m, {}) = 0 BY TotalNone DEF CostOf
<1>3. SizeOf(m, {}) = 0 BY TotalNone DEF SizeOf
<1>4. QED BY <1>1, <1>2, <1>3, Zenon DEF DiskCostOf

LEMMA CostSame ==
    ASSUME NEW S \in SUBSET Keys, NEW m, NEW n, \A k \in S : Cost(m[k]) = Cost(n[k])
    PROVE  CostOf(m, S) = CostOf(n, S)
<1>1. PICK v : v = [k \in S |-> Cost(m[k])] OBVIOUS
<1>2. PICK w : w = [k \in S |-> Cost(n[k])] OBVIOUS
<1>3. v = w BY <1>1, <1>2
<1>4. QED BY <1>1, <1>2, <1>3 DEF CostOf

LEMMA SizeSame ==
    ASSUME NEW S \in SUBSET Keys, NEW m, NEW n, \A k \in S : m[k].size = n[k].size
    PROVE  SizeOf(m, S) = SizeOf(n, S)
<1>1. PICK v : v = [k \in S |-> m[k].size] OBVIOUS
<1>2. PICK w : w = [k \in S |-> n[k].size] OBVIOUS
<1>3. v = w BY <1>1, <1>2
<1>4. QED BY <1>1, <1>2, <1>3 DEF SizeOf

LEMMA CostSplit ==
    ASSUME NEW m \in Maps, NEW S \in SUBSET HeldIn(m), NEW R \in SUBSET S
    PROVE  CostOf(m, S) = CostOf(m, R) + CostOf(m, S \ R)
<1>1. PICK w : w = [k \in S |-> Cost(m[k])] OBVIOUS
<1>2. \A y \in S : w[y] \in Int BY <1>1, HeldEntry, EntryCosts
<1>3. IsFiniteSet(S) /\ S \in SUBSET Keys BY KeysFinite DEF HeldIn
<1>4. Total(w, S) = Total(w, R) + Total(w, S \ R) BY <1>2, <1>3, TotalSplit
<1>5. ASSUME NEW Q \in SUBSET S PROVE Total(w, Q) = CostOf(m, Q)
  <2>1. PICK v : v = [k \in Q |-> Cost(m[k])] OBVIOUS
  <2>2. \A y \in Q : w[y] = v[y] BY <1>1, <2>1
  <2>3. IsFiniteSet(Q) BY <1>3, FS_Subset
  <2>4. Total(w, Q) = Total(v, Q) BY <2>2, <2>3, TotalSame
  <2>5. QED BY <2>1, <2>4 DEF CostOf
<1>6. Total(w, S) = CostOf(m, S) /\ Total(w, R) = CostOf(m, R) BY <1>5
<1>7. Total(w, S \ R) = CostOf(m, S \ R) BY <1>5
<1>8. QED BY <1>4, <1>6, <1>7

LEMMA SizeSplit ==
    ASSUME NEW m \in Maps, NEW S \in SUBSET HeldIn(m), NEW R \in SUBSET S
    PROVE  SizeOf(m, S) = SizeOf(m, R) + SizeOf(m, S \ R)
<1>1. PICK w : w = [k \in S |-> m[k].size] OBVIOUS
<1>2. \A y \in S : w[y] \in Int BY <1>1, HeldEntry, EntryCosts
<1>3. IsFiniteSet(S) /\ S \in SUBSET Keys BY KeysFinite DEF HeldIn
<1>4. Total(w, S) = Total(w, R) + Total(w, S \ R) BY <1>2, <1>3, TotalSplit
<1>5. ASSUME NEW Q \in SUBSET S PROVE Total(w, Q) = SizeOf(m, Q)
  <2>1. PICK v : v = [k \in Q |-> m[k].size] OBVIOUS
  <2>2. \A y \in Q : w[y] = v[y] BY <1>1, <2>1
  <2>3. IsFiniteSet(Q) BY <1>3, FS_Subset
  <2>4. Total(w, Q) = Total(v, Q) BY <2>2, <2>3, TotalSame
  <2>5. QED BY <2>1, <2>4 DEF SizeOf
<1>6. Total(w, S) = SizeOf(m, S) /\ Total(w, R) = SizeOf(m, R) BY <1>5
<1>7. Total(w, S \ R) = SizeOf(m, S \ R) BY <1>5
<1>8. QED BY <1>4, <1>6, <1>7

\* What is let go of when entries go, and when only their bodies go.
LEMMA EmptiedSums ==
    ASSUME NEW m \in Maps, NEW ks \in SUBSET HeldIn(m)
    PROVE  /\ Emptied(m, ks) \in Maps
           /\ HeldIn(Emptied(m, ks)) = HeldIn(m) \ ks
           /\ CostOf(Emptied(m, ks), HeldIn(m) \ ks) = CostOf(m, HeldIn(m)) - CostOf(m, ks)
           /\ DiskCostOf(Emptied(m, ks), HeldIn(m) \ ks) = DiskCostOf(m, HeldIn(m)) - DiskCostOf(m, ks)
<1>1. PICK n : n = Emptied(m, ks) OBVIOUS
<1>2. n \in Maps /\ HeldIn(n) = HeldIn(m) \ ks BY <1>1 DEF Emptied, Maps, HeldIn
<1>3. PICK H : H = HeldIn(m) OBVIOUS
<1>4. \A k \in H \ ks : n[k] = m[k] BY <1>1, <1>3 DEF Emptied, HeldIn
<1>5. H \ ks \in SUBSET Keys BY <1>3 DEF HeldIn
<1>6. CostOf(n, H \ ks) = CostOf(m, H \ ks) BY <1>4, <1>5, CostSame
<1>7. CostOf(m, H) = CostOf(m, ks) + CostOf(m, H \ ks) BY <1>3, CostSplit
<1>8. CostOf(m, ks) \in Nat /\ CostOf(m, H \ ks) \in Nat BY <1>3, SumsAreNumbers
<1>9. CostOf(n, H \ ks) = CostOf(m, H) - CostOf(m, ks) BY <1>6, <1>7, <1>8
<1>10. DiskCostOf(n, H \ ks) = DiskCostOf(m, H) - DiskCostOf(m, ks)
  <2>1. PICK D : D = OnDisk(m, H) OBVIOUS
  <2>2. PICK E : E = OnDisk(m, ks) OBVIOUS
  <2>3. OnDisk(n, H \ ks) = D \ E BY <1>3, <1>4, <2>1, <2>2 DEF OnDisk
  <2>4. E \in SUBSET D /\ D \in SUBSET H BY <1>3, <2>1, <2>2 DEF OnDisk
  <2>5. D \ E \in SUBSET Keys /\ \A k \in D \ E : n[k].size = m[k].size
    BY <1>4, <1>5, <2>3 DEF OnDisk
  <2>6. SizeOf(n, D \ E) = SizeOf(m, D \ E) BY <2>5, SizeSame
  <2>7. SizeOf(m, D) = SizeOf(m, E) + SizeOf(m, D \ E) BY <2>4, <1>3, SizeSplit
  <2>8. E \in SUBSET HeldIn(m) /\ D \ E \in SUBSET HeldIn(m) BY <2>4, <1>3
  <2>9. SizeOf(m, E) \in Nat /\ SizeOf(m, D \ E) \in Nat BY <2>8, SumsAreNumbers
  <2>10. SizeOf(n, D \ E) = SizeOf(m, D) - SizeOf(m, E) BY <2>6, <2>7, <2>9
  <2>11. QED BY <2>1, <2>2, <2>3, <2>10 DEF DiskCostOf
<1>11. QED BY <1>1, <1>2, <1>3, <1>9, <1>10

LEMMA UnloadedSums ==
    ASSUME NEW m \in Maps, NEW ks \in SUBSET HeldIn(m), \A k \in ks : Loaded(m[k])
    PROVE  /\ Unloaded(m, ks) \in Maps
           /\ HeldIn(Unloaded(m, ks)) = HeldIn(m)
           /\ CostOf(Unloaded(m, ks), HeldIn(m)) = CostOf(m, HeldIn(m)) - SizeOf(m, ks)
           /\ \A S \in SUBSET HeldIn(m) :
                 /\ OnDisk(Unloaded(m, ks), S) = OnDisk(m, S)
                 /\ DiskCostOf(Unloaded(m, ks), S) = DiskCostOf(m, S)
                 /\ S \cap ks = {} => CostOf(Unloaded(m, ks), S) = CostOf(m, S)
<1>1. PICK n : n = Unloaded(m, ks) OBVIOUS
<1>2. PICK H : H = HeldIn(m) OBVIOUS
<1>3. \A k \in H : m[k] \in Entry BY <1>2, HeldEntry
<1>4. H \in SUBSET Keys /\ ks \in SUBSET H BY <1>2 DEF HeldIn
<1>5. \A k \in ks : n[k] = [m[k] EXCEPT !.body = None] /\ m[k] \in Entry
  BY <1>1, <1>3, <1>4 DEF Unloaded
<1>6. \A k \in Keys \ ks : n[k] = m[k] BY <1>1 DEF Unloaded
<1>7. \A k \in ks : /\ n[k] \in Entry /\ n[k].size = m[k].size /\ n[k].onDisk = m[k].onDisk
                     /\ ~Loaded(n[k])
  BY <1>5 DEF Entry, Loaded
<1>8. n \in Maps
  <2>1. \A k \in Keys : n[k] \in Entry \cup {None} BY <1>6, <1>7 DEF Maps
  <2>2. n = [k \in Keys |-> n[k]] BY <1>1 DEF Unloaded
  <2>3. QED BY <2>1, <2>2 DEF Maps
<1>9. HeldIn(n) = H
  <2>1. \A k \in ks : n[k] # None /\ m[k] # None
    BY <1>5, <1>7, NothingAssumption DEF NothingAssumption
  <2>2. QED BY <1>2, <1>4, <1>6, <2>1 DEF HeldIn
<1>10. CostOf(n, H) = CostOf(m, H) - SizeOf(m, ks)
  <2>1. PICK u : u = [k \in ks |-> Cost(m[k])] OBVIOUS
  <2>2. PICK v : v = [k \in ks |-> Cost(n[k])] OBVIOUS
  <2>3. PICK w : w = [k \in ks |-> m[k].size] OBVIOUS
  <2>4. \A y \in ks : v[y] \in Int /\ w[y] \in Int /\ u[y] = v[y] + w[y]
    <3>1. ASSUME NEW y \in ks
          PROVE  /\ Cost(n[y]) \in Int /\ m[y].size \in Int
                 /\ Cost(m[y]) = Cost(n[y]) + m[y].size
      <4>1. Cost(m[y]) = 1 + m[y].size /\ m[y].size \in Nat BY <1>5, EntryCosts
      <4>2. Cost(n[y]) = 1 BY <1>7, EntryCosts
      <4>3. QED BY <4>1, <4>2
    <3>2. QED BY <3>1, <2>1, <2>2, <2>3
  <2>5. IsFiniteSet(ks) BY <1>4, KeysFinite
  <2>6. /\ Total(v, ks) \in Int /\ Total(w, ks) \in Int
        /\ Total(u, ks) = Total(v, ks) + Total(w, ks) BY <2>4, <2>5, TotalAdds
  <2>7. CostOf(m, ks) = CostOf(n, ks) + SizeOf(m, ks) BY <2>1, <2>2, <2>3, <2>6 DEF CostOf, SizeOf
  <2>8. CostOf(m, H) = CostOf(m, ks) + CostOf(m, H \ ks) BY <1>2, CostSplit
  <2>9. CostOf(n, H) = CostOf(n, ks) + CostOf(n, H \ ks) BY <1>8, <1>9, <1>4, CostSplit
  <2>10. \A k \in H \ ks : Cost(n[k]) = Cost(m[k]) BY <1>4, <1>6
  <2>11. CostOf(n, H \ ks) = CostOf(m, H \ ks) BY <2>10, <1>4, CostSame
  <2>12. CostOf(n, ks) \in Nat /\ CostOf(m, H \ ks) \in Nat BY <1>2, <1>4, <1>8, <1>9, SumsAreNumbers
  <2>13. SizeOf(m, ks) \in Nat BY SumsAreNumbers
  <2>14. QED BY <2>7, <2>8, <2>9, <2>11, <2>12, <2>13
<1>11. ASSUME NEW S \in SUBSET H
       PROVE  /\ OnDisk(n, S) = OnDisk(m, S)
              /\ DiskCostOf(n, S) = DiskCostOf(m, S)
              /\ S \cap ks = {} => CostOf(n, S) = CostOf(m, S)
  <2>1. \A k \in S : n[k].onDisk = m[k].onDisk /\ n[k].size = m[k].size
    BY <1>4, <1>6, <1>7
  <2>2. OnDisk(n, S) = OnDisk(m, S) BY <2>1 DEF OnDisk
  <2>3. PICK D : D = OnDisk(m, S) OBVIOUS
  <2>4. D \in SUBSET Keys /\ \A k \in D : n[k].size = m[k].size BY <2>1, <2>3, <1>4 DEF OnDisk
  <2>5. SizeOf(n, D) = SizeOf(m, D) BY <2>4, SizeSame
  <2>6. ASSUME S \cap ks = {} PROVE CostOf(n, S) = CostOf(m, S)
    <3>1. \A k \in S : Cost(n[k]) = Cost(m[k]) BY <1>4, <1>6, <2>6
    <3>2. QED BY <3>1, <1>4, CostSame
  <2>7. QED BY <2>2, <2>3, <2>5, <2>6 DEF DiskCostOf
<1>12. QED BY <1>1, <1>2, <1>8, <1>9, <1>10, <1>11

-----------------------------------------------------------------------------
(* The removals a call asks for: of each entry that went and was on disk,   *)
(* the text before the body, each once.                                     *)

Removal == {"removeMeta", "removeBody"} \X Keys

Removals(w, K) ==
    /\ w \in Seq(Removal)
    /\ \A i \in 1..Len(w) : w[i][2] \in K
    /\ \A i, j \in 1..Len(w) :
          i < j /\ w[i][2] = w[j][2] => w[i][1] = "removeMeta" /\ w[j][1] = "removeBody"
    /\ \A k \in K : \E i \in 1..Len(w) : w[i] = <<"removeMeta", k>>

LEMMA OrderCovers ==
    ASSUME NEW S, IsFiniteSet(S)
    PROVE  /\ SetToSeq(S) \in Seq(S)
           /\ \A i, j \in 1..Len(SetToSeq(S)) : SetToSeq(S)[i] = SetToSeq(S)[j] => i = j
           /\ \A x \in S : \E i \in 1..Len(SetToSeq(S)) : SetToSeq(S)[i] = x
<1>1. PICK n : n = Cardinality(S) OBVIOUS
<1>2. n \in Nat /\ ExistsBijection(1..n, S) BY <1>1, FS_CardinalityType
<1>3. \E f \in [1..n -> S] : IsInjective(f)
  BY <1>2 DEF ExistsBijection, Bijection, Injection
<1>4. PICK o : o = SetToSeq(S) OBVIOUS
<1>5. o \in [1..n -> S] /\ IsInjective(o) BY <1>1, <1>3, <1>4 DEF SetToSeq
<1>6. o \in Injection(1..n, S) BY <1>5 DEF Injection
<1>7. IsFiniteSet(1..n) /\ Cardinality(1..n) = n BY <1>2, FS_Interval
<1>8. o \in Surjection(1..n, S) BY <1>1, <1>6, <1>7, FS_Injection
<1>9. \A x \in S : \E i \in 1..n : o[i] = x BY <1>8 DEF Surjection
<1>10. o \in Seq(S) /\ Len(o) = n BY <1>2, <1>5
<1>11. \A i, j \in 1..n : o[i] = o[j] => i = j BY <1>5 DEF IsInjective
<1>12. QED BY <1>4, <1>9, <1>10, <1>11

LEMMA FilesAreRemoved ==
    ASSUME NEW c, NEW ks, OnDisk(c.entries, ks) \in SUBSET Keys
    PROVE  Removals(FilesOf(c, ks), OnDisk(c.entries, ks))
<1>1. PICK S : S = OnDisk(c.entries, ks) OBVIOUS
<1>2. S \in SUBSET Keys /\ IsFiniteSet(S) BY <1>1, KeysFinite
<1>3. PICK o : o = SetToSeq(S) OBVIOUS
<1>4. PICK n : n = Len(o) OBVIOUS
<1>5. /\ o \in Seq(S) /\ n \in Nat
      /\ \A i, j \in 1..n : o[i] = o[j] => i = j
      /\ \A x \in S : \E i \in 1..n : o[i] = x
  BY <1>2, <1>3, <1>4, OrderCovers
<1>6. PICK w : w = [i \in 1..(2 * n) |-> RemoveFiles(o[(i + 1) \div 2])[2 - (i % 2)]] OBVIOUS
<1>7. FilesOf(c, ks) = w BY <1>1, <1>3, <1>4, <1>6 DEF FilesOf
<1>8. \A i \in 1..n : o[i] \in S BY <1>4, <1>5
<1>9. ASSUME NEW i \in 1..(2 * n)
      PROVE  \E h \in 1..n : \/ i = 2 * h - 1 /\ w[i] = <<"removeMeta", o[h]>>
                             \/ i = 2 * h /\ w[i] = <<"removeBody", o[h]>>
  <2>1. PICK h : h = (i + 1) \div 2 OBVIOUS
  <2>2. h \in 1..n /\ (i = 2 * h - 1 \/ i = 2 * h) BY <1>5, <2>1
  <2>3. PICK r : r = 2 - (i % 2) OBVIOUS
  <2>4. (i = 2 * h - 1 => r = 1) /\ (i = 2 * h => r = 2) BY <2>2, <2>3, <1>5
  <2>5. w[i] = RemoveFiles(o[h])[r] BY <1>6, <2>1, <2>3
  <2>6. QED BY <2>2, <2>4, <2>5 DEF RemoveFiles
<1>10. ASSUME NEW i \in 1..(2 * n) PROVE w[i] \in Removal /\ w[i][2] \in S
  <2>1. PICK h \in 1..n : w[i] = <<"removeMeta", o[h]>> \/ w[i] = <<"removeBody", o[h]>> BY <1>9
  <2>2. PICK k \in S : k = o[h] BY <1>8
  <2>3. w[i] = <<"removeMeta", k>> \/ w[i] = <<"removeBody", k>> BY <2>1, <2>2
  <2>4. k \in Keys BY <1>2
  <2>5. w[i][2] = k BY <2>3
  <2>6. w[i] \in Removal
    <3>1. CASE w[i] = <<"removeMeta", k>> BY <3>1, <2>4 DEF Removal
    <3>2. CASE w[i] = <<"removeBody", k>> BY <3>2, <2>4 DEF Removal
    <3>3. QED BY <2>3, <3>1, <3>2
  <2>7. QED BY <2>5, <2>6
<1>11. w \in Seq(Removal) /\ Len(w) = 2 * n BY <1>5, <1>6, <1>10
<1>12. ASSUME NEW i \in 1..(2 * n), NEW j \in 1..(2 * n), i < j, w[i][2] = w[j][2]
       PROVE  w[i][1] = "removeMeta" /\ w[j][1] = "removeBody"
  <2>1. PICK h \in 1..n : \/ i = 2 * h - 1 /\ w[i] = <<"removeMeta", o[h]>>
                          \/ i = 2 * h /\ w[i] = <<"removeBody", o[h]>>
    BY <1>9
  <2>2. PICK g \in 1..n : \/ j = 2 * g - 1 /\ w[j] = <<"removeMeta", o[g]>>
                          \/ j = 2 * g /\ w[j] = <<"removeBody", o[g]>>
    BY <1>9
  <2>3. o[h] = o[g] BY <1>12, <2>1, <2>2
  <2>4. h = g BY <1>5, <2>3
  <2>5. i = 2 * h - 1 /\ j = 2 * h BY <1>12, <2>1, <2>2, <2>4, <1>5
  <2>6. i # 2 * h /\ j # 2 * g - 1 BY <2>5, <2>4, <1>5
  <2>7. QED BY <2>1, <2>2, <2>6
<1>13. ASSUME NEW k \in S PROVE \E i \in 1..(2 * n) : w[i] = <<"removeMeta", k>>
  <2>1. PICK h \in 1..n : o[h] = k BY <1>5
  <2>2. PICK i : i = 2 * h - 1 OBVIOUS
  <2>3. i \in 1..(2 * n) BY <2>2, <1>5
  <2>4. PICK g \in 1..n : \/ i = 2 * g - 1 /\ w[i] = <<"removeMeta", o[g]>>
                          \/ i = 2 * g /\ w[i] = <<"removeBody", o[g]>>
    BY <1>9, <2>3
  <2>5. i # 2 * g /\ (i = 2 * g - 1 => g = h) BY <2>2, <1>5
  <2>6. QED BY <2>1, <2>3, <2>4, <2>5
<1>14. Removals(w, S) BY <1>10, <1>11, <1>12, <1>13 DEF Removals
<1>15. QED BY <1>1, <1>7, <1>14

LEMMA NothingRemoved == Removals(<<>>, {})
BY DEF Removals

\* One list of removals after another, of other keys.
LEMMA RemovalsJoin ==
    ASSUME NEW v, NEW w, NEW J, NEW K, Removals(v, J), Removals(w, K), J \cap K = {}
    PROVE  Removals(v \o w, J \cup K)
<1>1. v \in Seq(Removal) /\ w \in Seq(Removal) BY DEF Removals
<1>2. PICK m \in Nat : m = Len(v) BY <1>1
<1>3. PICK n \in Nat : n = Len(w) BY <1>1
<1>4. PICK u : u = v \o w OBVIOUS
<1>5. u \in Seq(Removal) /\ Len(u) = m + n BY <1>1, <1>2, <1>3, <1>4
<1>6. \A i \in 1..m : u[i] = v[i] BY <1>1, <1>2, <1>4
<1>7. \A i \in 1..n : u[m + i] = w[i] BY <1>1, <1>2, <1>3, <1>4
<1>8. \A i \in 1..m : v[i][2] \in J BY <1>2 DEF Removals
<1>9. \A i \in 1..n : w[i][2] \in K BY <1>3 DEF Removals
<1>10. ASSUME NEW i \in 1..(m + n)
       PROVE  i \in 1..m \/ (i > m /\ \E h \in 1..n : i = m + h)
  <2>1. CASE i <= m BY <2>1
  <2>2. CASE i > m
    <3>1. i - m \in 1..n /\ i = m + (i - m) BY <2>2
    <3>2. QED BY <2>2, <3>1
  <2>3. QED BY <2>1, <2>2
<1>k. PICK key : key = [i \in 1..(m + n) |-> u[i][2]] OBVIOUS
<1>11. ASSUME NEW i \in 1..(m + n)
       PROVE  (i <= m => key[i] \in J) /\ (i > m => key[i] \in K)
  <2>1. key[i] = u[i][2] BY <1>k
  <2>2. ASSUME i <= m PROVE key[i] \in J
    <3>1. i \in 1..m BY <2>2
    <3>2. u[i] = v[i] /\ v[i][2] \in J BY <3>1, <1>6, <1>8
    <3>3. QED BY <2>1, <3>2
  <2>3. ASSUME i > m PROVE key[i] \in K
    <3>1. PICK h \in 1..n : i = m + h BY <2>3, <1>10
    <3>2. u[i] = w[h] /\ w[h][2] \in K BY <3>1, <1>7, <1>9
    <3>3. QED BY <2>1, <3>2
  <2>4. QED BY <2>2, <2>3
<1>12. ASSUME NEW i \in 1..(m + n), NEW j \in 1..(m + n), i < j, u[i][2] = u[j][2]
       PROVE  u[i][1] = "removeMeta" /\ u[j][1] = "removeBody"
  <2>a. PICK k : k = key[i] /\ k = key[j] BY <1>12, <1>k
  <2>b. i <= m \/ i > m BY <1>2, <1>3
  <2>c. j <= m \/ j > m BY <1>2, <1>3
  <2>d. (i <= m => k \in J) /\ (i > m => k \in K) BY <1>11, <2>a
  <2>e. (j <= m => k \in J) /\ (j > m => k \in K) BY <1>11, <2>a
  <2>1. (i <= m /\ j <= m) \/ (i > m /\ j > m) BY <2>b, <2>c, <2>d, <2>e
  <2>2. CASE i <= m /\ j <= m
    <3>1. i \in 1..m /\ j \in 1..m BY <2>2
    <3>2. v[i][2] = v[j][2] /\ u[i] = v[i] /\ u[j] = v[j] BY <3>1, <1>6, <1>12
    <3>3. v[i][1] = "removeMeta" /\ v[j][1] = "removeBody" BY <3>1, <3>2, <1>2, <1>12 DEF Removals
    <3>4. QED BY <3>2, <3>3
  <2>3. CASE i > m /\ j > m
    <3>1. PICK g \in 1..n : i = m + g BY <2>3, <1>10
    <3>2. PICK h \in 1..n : j = m + h BY <2>3, <1>10
    <3>3. u[i] = w[g] /\ u[j] = w[h] /\ g < h BY <3>1, <3>2, <1>7, <1>12
    <3>4. w[g][2] = w[h][2] BY <3>3, <1>12
    <3>5. w[g][1] = "removeMeta" /\ w[h][1] = "removeBody" BY <3>3, <3>4, <1>3 DEF Removals
    <3>6. QED BY <3>3, <3>5
  <2>4. QED BY <2>1, <2>2, <2>3
<1>13. ASSUME NEW k \in J \cup K PROVE \E i \in 1..(m + n) : u[i] = <<"removeMeta", k>>
  <2>1. CASE k \in J
    <3>1. PICK i \in 1..m : v[i] = <<"removeMeta", k>> BY <2>1, <1>2 DEF Removals
    <3>2. i \in 1..(m + n) BY <1>2
    <3>3. QED BY <3>1, <3>2, <1>6
  <2>2. CASE k \in K
    <3>1. PICK i \in 1..n : w[i] = <<"removeMeta", k>> BY <2>2, <1>3 DEF Removals
    <3>2. m + i \in 1..(m + n) BY <1>2
    <3>3. QED BY <3>1, <3>2, <1>7
  <2>3. QED BY <2>1, <2>2
<1>14. ASSUME NEW i \in 1..(m + n) PROVE u[i][2] \in J \cup K
  <2>1. i <= m \/ i > m BY <1>2, <1>3
  <2>2. key[i] \in J \cup K BY <2>1, <1>11
  <2>3. QED BY <2>2, <1>k
<1>15. Removals(u, J \cup K) BY <1>5, <1>12, <1>13, <1>14 DEF Removals
<1>16. QED BY <1>4, <1>15

-----------------------------------------------------------------------------
(* A call's cache: its sums are exact, and it only shrinks.                 *)

Kept(c) ==
    /\ c \in [entries : Maps, bytes : Int, diskBytes : Int, work : Seq(Removal)]
    /\ c.bytes = CostOf(c.entries, HeldIn(c.entries))
    /\ c.diskBytes = DiskCostOf(c.entries, HeldIn(c.entries))

\* An entry is kept, loses its body when that is on disk, or goes.
Lessened(e, f) ==
    \/ f = e \/ f = None
    \/ e \in Entry /\ e.onDisk /\ f = [e EXCEPT !.body = None]

Gone(m, n) == {k \in Keys : m[k] # None /\ m[k].onDisk /\ n[k] = None}

Shrinks(c, d) ==
    /\ \A k \in Keys : Lessened(c.entries[k], d.entries[k])
    /\ d.bytes <= c.bytes
    /\ \E w : Removals(w, Gone(c.entries, d.entries)) /\ d.work = c.work \o w

LEMMA ShrinksTwice ==
    ASSUME NEW b, NEW c, NEW d, Kept(b), Kept(c), Kept(d), Shrinks(b, c), Shrinks(c, d)
    PROVE  Shrinks(b, d)
<1>1. PICK l : l = b.entries OBVIOUS
<1>2. PICK m : m = c.entries OBVIOUS
<1>3. PICK n : n = d.entries OBVIOUS
<1>4. l \in Maps /\ m \in Maps /\ n \in Maps BY <1>1, <1>2, <1>3 DEF Kept
<1>5. \A k \in Keys : Lessened(l[k], m[k]) /\ Lessened(m[k], n[k]) BY <1>1, <1>2, <1>3 DEF Shrinks
<1>6. ASSUME NEW k \in Keys PROVE Lessened(l[k], n[k])
  <2>1. PICK e : e = l[k] OBVIOUS
  <2>2. PICK f : f = m[k] OBVIOUS
  <2>3. PICK g : g = n[k] OBVIOUS
  <2>4. Lessened(e, f) /\ Lessened(f, g) BY <2>1, <2>2, <2>3, <1>5
  <2>5. Lessened(e, g)
    <3>1. CASE f = e BY <3>1, <2>4
    <3>2. CASE g = None \/ g = f BY <3>2, <2>4 DEF Lessened
    <3>3. CASE f = None /\ f \in Entry BY <3>3, NothingAssumption DEF NothingAssumption
    <3>4. CASE e \in Entry /\ e.onDisk /\ f = [e EXCEPT !.body = None]
                /\ f \in Entry /\ f.onDisk /\ g = [f EXCEPT !.body = None]
      <4>1. g = [e EXCEPT !.body = None] BY <3>4 DEF Entry
      <4>2. QED BY <3>4, <4>1 DEF Lessened
    <3>5. QED BY <2>4, <3>1, <3>2, <3>3, <3>4 DEF Lessened
  <2>6. QED BY <2>1, <2>3, <2>5
<1>7. PICK v : Removals(v, Gone(l, m)) /\ c.work = b.work \o v BY <1>1, <1>2 DEF Shrinks
<1>8. PICK w : Removals(w, Gone(m, n)) /\ d.work = c.work \o w BY <1>2, <1>3 DEF Shrinks
<1>9. Gone(l, m) \cap Gone(m, n) = {} BY DEF Gone
<1>10. Gone(l, n) = Gone(l, m) \cup Gone(m, n)
  <2>1. ASSUME NEW k \in Keys PROVE k \in Gone(l, n) <=> k \in Gone(l, m) \/ k \in Gone(m, n)
    <3>1. PICK e : e = l[k] OBVIOUS
    <3>2. PICK f : f = m[k] OBVIOUS
    <3>3. PICK g : g = n[k] OBVIOUS
    <3>4. Lessened(e, f) /\ Lessened(f, g) BY <3>1, <3>2, <3>3, <1>5
    <3>5. /\ k \in Gone(l, n) <=> (e # None /\ e.onDisk /\ g = None)
          /\ k \in Gone(l, m) <=> (e # None /\ e.onDisk /\ f = None)
          /\ k \in Gone(m, n) <=> (f # None /\ f.onDisk /\ g = None)
      BY <3>1, <3>2, <3>3 DEF Gone
    <3>n. None \notin Entry BY NothingAssumption DEF NothingAssumption
    <3>6. CASE f = e
      <4>1. e # None => ~(f = None) BY <3>6
      <4>2. QED BY <3>5, <3>6, <4>1
    <3>7. CASE f = None
      <4>1. g = None BY <3>4, <3>7, <3>n DEF Lessened
      <4>2. QED BY <3>5, <3>7, <4>1
    <3>8. CASE e \in Entry /\ e.onDisk /\ f = [e EXCEPT !.body = None]
      <4>1. f \in Entry /\ f.onDisk BY <3>8 DEF Entry
      <4>2. e # None /\ f # None BY <3>8, <4>1, <3>n
      <4>3. QED BY <3>5, <3>8, <4>1, <4>2
    <3>9. QED BY <3>4, <3>6, <3>7, <3>8 DEF Lessened
  <2>2. QED BY <2>1 DEF Gone
<1>11. Removals(v \o w, Gone(l, n)) BY <1>7, <1>8, <1>9, <1>10, RemovalsJoin
<1>12. d.work = b.work \o (v \o w)
  <2>1. PICK x : x = b.work OBVIOUS
  <2>2. x \in Seq(Removal) /\ v \in Seq(Removal) /\ w \in Seq(Removal)
    BY <2>1, <1>7, <1>8 DEF Kept, Removals
  <2>3. (x \o v) \o w = x \o (v \o w) BY <2>2
  <2>4. QED BY <2>1, <2>3, <1>7, <1>8
<1>13. d.bytes <= b.bytes
  <2>1. b.bytes \in Int /\ c.bytes \in Int /\ d.bytes \in Int BY DEF Kept
  <2>2. c.bytes <= b.bytes /\ d.bytes <= c.bytes BY DEF Shrinks
  <2>3. QED BY <2>1, <2>2
<1>14. QED BY <1>1, <1>3, <1>6, <1>11, <1>12, <1>13 DEF Shrinks

LEMMA ShrinksNot ==
    ASSUME NEW c, Kept(c)
    PROVE  Shrinks(c, c)
<1>1. Gone(c.entries, c.entries) = {} BY DEF Gone
<1>2. c.work = c.work \o <<>> BY DEF Kept
<1>3. c.bytes <= c.bytes BY DEF Kept
<1>4. Removals(<<>>, Gone(c.entries, c.entries)) BY <1>1, NothingRemoved
<1>5. QED BY <1>2, <1>3, <1>4 DEF Shrinks, Lessened

LEMMA DropKeeps ==
    ASSUME NEW c, Kept(c), NEW ks \in SUBSET HeldIn(c.entries)
    PROVE  /\ Kept(Drop(c, ks)) /\ Shrinks(c, Drop(c, ks))
           /\ Drop(c, ks).entries = Emptied(c.entries, ks)
           /\ Drop(c, ks).bytes = c.bytes - CostOf(c.entries, ks)
           /\ Drop(c, ks).diskBytes = c.diskBytes - DiskCostOf(c.entries, ks)
<1>1. PICK m : m = c.entries OBVIOUS
<1>2. PICK d : d = Drop(c, ks) OBVIOUS
<1>3. PICK w : w = FilesOf(c, ks) OBVIOUS
<1>4. /\ m \in Maps /\ c.bytes \in Int /\ c.diskBytes \in Int /\ c.work \in Seq(Removal)
      /\ c.bytes = CostOf(m, HeldIn(m)) /\ c.diskBytes = DiskCostOf(m, HeldIn(m))
      /\ ks \in SUBSET HeldIn(m) /\ ks \in SUBSET Keys
  BY <1>1 DEF Kept, HeldIn
<1>5. Removals(w, OnDisk(m, ks))
  <2>1. OnDisk(c.entries, ks) \in SUBSET Keys BY <1>4 DEF OnDisk
  <2>2. QED BY <2>1, <1>1, <1>3, FilesAreRemoved
<1>6. PICK n : n = Emptied(m, ks) OBVIOUS
<1>7. d = [entries |-> n, bytes |-> c.bytes - CostOf(m, ks),
           diskBytes |-> c.diskBytes - DiskCostOf(m, ks), work |-> c.work \o w]
  BY <1>1, <1>2, <1>3, <1>6 DEF Drop, Emptied, DiskBytesWithout
<1>8. /\ n \in Maps /\ HeldIn(n) = HeldIn(m) \ ks
      /\ CostOf(n, HeldIn(m) \ ks) = CostOf(m, HeldIn(m)) - CostOf(m, ks)
      /\ DiskCostOf(n, HeldIn(m) \ ks) = DiskCostOf(m, HeldIn(m)) - DiskCostOf(m, ks)
  BY <1>4, <1>6, EmptiedSums
<1>9. CostOf(m, ks) \in Nat /\ DiskCostOf(m, ks) \in Nat BY <1>4, SumsAreNumbers
<1>10. w \in Seq(Removal) BY <1>5 DEF Removals
<1>11. Kept(d)
  <2>1. d.bytes \in Int /\ d.diskBytes \in Int BY <1>4, <1>7, <1>9
  <2>2. d.work \in Seq(Removal) BY <1>4, <1>7, <1>10
  <2>3. d \in [entries : Maps, bytes : Int, diskBytes : Int, work : Seq(Removal)]
    BY <1>7, <1>8, <2>1, <2>2
  <2>4. d.bytes = CostOf(n, HeldIn(n)) BY <1>4, <1>7, <1>8
  <2>5. d.diskBytes = DiskCostOf(n, HeldIn(n)) BY <1>4, <1>7, <1>8
  <2>6. QED BY <1>7, <2>3, <2>4, <2>5 DEF Kept
<1>12. Gone(m, n) = OnDisk(m, ks)
  <2>1. \A k \in Keys : n[k] = IF k \in ks THEN None ELSE m[k] BY <1>6 DEF Emptied
  <2>2. QED BY <2>1, <1>4 DEF Gone, OnDisk, HeldIn
<1>13. Shrinks(c, d)
  <2>1. \A k \in Keys : n[k] = m[k] \/ n[k] = None BY <1>6 DEF Emptied
  <2>2. \A k \in Keys : Lessened(m[k], n[k]) BY <2>1 DEF Lessened
  <2>3. d.bytes <= c.bytes BY <1>4, <1>7, <1>9
  <2>4. Removals(w, Gone(m, n)) /\ d.work = c.work \o w BY <1>5, <1>7, <1>12
  <2>5. d.entries = n BY <1>7
  <2>6. QED BY <1>1, <2>2, <2>3, <2>4, <2>5 DEF Shrinks
<1>14. QED BY <1>1, <1>2, <1>6, <1>7, <1>11, <1>13

LEMMA UnloadKeeps ==
    ASSUME NEW c, Kept(c), NEW ks \in SUBSET HeldIn(c.entries),
           \A k \in ks : Loaded(c.entries[k]) /\ c.entries[k].onDisk
    PROVE  /\ Kept(Unload(c, ks)) /\ Shrinks(c, Unload(c, ks))
           /\ Unload(c, ks).entries = Unloaded(c.entries, ks)
           /\ Unload(c, ks).bytes = c.bytes - SizeOf(c.entries, ks)
           /\ Unload(c, ks).diskBytes = c.diskBytes
<1>1. PICK m : m = c.entries OBVIOUS
<1>2. PICK d : d = Unload(c, ks) OBVIOUS
<1>3. /\ m \in Maps /\ c.bytes \in Int /\ c.diskBytes \in Int /\ c.work \in Seq(Removal)
      /\ c.bytes = CostOf(m, HeldIn(m)) /\ c.diskBytes = DiskCostOf(m, HeldIn(m))
      /\ ks \in SUBSET HeldIn(m) /\ ks \in SUBSET Keys
      /\ \A k \in ks : Loaded(m[k]) /\ m[k].onDisk
  BY <1>1 DEF Kept, HeldIn
<1>4. PICK n : n = Unloaded(m, ks) OBVIOUS
<1>5. d = [entries |-> n, bytes |-> c.bytes - SizeOf(m, ks),
           diskBytes |-> c.diskBytes, work |-> c.work]
  BY <1>1, <1>2, <1>4 DEF Unload, Unloaded, Kept
<1>6. /\ n \in Maps /\ HeldIn(n) = HeldIn(m)
      /\ CostOf(n, HeldIn(m)) = CostOf(m, HeldIn(m)) - SizeOf(m, ks)
      /\ DiskCostOf(n, HeldIn(m)) = DiskCostOf(m, HeldIn(m))
  BY <1>3, <1>4, UnloadedSums
<1>7. SizeOf(m, ks) \in Nat BY <1>3, SumsAreNumbers
<1>8. Kept(d)
  <2>1. d.bytes \in Int BY <1>3, <1>5, <1>7
  <2>2. d \in [entries : Maps, bytes : Int, diskBytes : Int, work : Seq(Removal)]
    BY <1>3, <1>5, <1>6, <2>1
  <2>3. d.bytes = CostOf(n, HeldIn(n)) BY <1>3, <1>5, <1>6
  <2>4. d.diskBytes = DiskCostOf(n, HeldIn(n)) BY <1>3, <1>5, <1>6
  <2>5. QED BY <1>5, <2>2, <2>3, <2>4 DEF Kept
<1>9. Gone(m, n) = {}
  <2>1. \A k \in Keys : m[k] # None => n[k] # None BY <1>6 DEF HeldIn
  <2>2. QED BY <2>1 DEF Gone
<1>10. Shrinks(c, d)
  <2>1. ASSUME NEW k \in Keys PROVE Lessened(m[k], n[k])
    <3>1. CASE k \in ks
      <4>1. m[k] \in Entry BY <3>1, <1>3, HeldEntry
      <4>2. n[k] = [m[k] EXCEPT !.body = None] BY <3>1, <1>4 DEF Unloaded
      <4>3. QED BY <3>1, <4>1, <4>2, <1>3 DEF Lessened
    <3>2. CASE k \notin ks
      <4>1. n[k] = m[k] BY <3>2, <1>4 DEF Unloaded
      <4>2. QED BY <4>1 DEF Lessened
    <3>3. QED BY <3>1, <3>2
  <2>2. d.bytes <= c.bytes BY <1>3, <1>5, <1>7
  <2>3. d.work = c.work \o <<>> BY <1>3, <1>5
  <2>4. Removals(<<>>, Gone(m, n)) BY <1>9, NothingRemoved
  <2>5. d.entries = n BY <1>5
  <2>6. QED BY <1>1, <2>1, <2>2, <2>3, <2>4, <2>5 DEF Shrinks
<1>11. QED BY <1>1, <1>2, <1>4, <1>5, <1>8, <1>10

\* Evictions: either there is room, or all that could go has gone.
LEMMA EvictionKeeps ==
    ASSUME NEW c, Kept(c), NEW keep \in SUBSET Keys, NEW incoming \in Nat,
           NEW d \in EvictToFit(c, incoming, keep)
    PROVE  /\ Kept(d) /\ Shrinks(c, d)
           /\ \A k \in keep : d.entries[k] = c.entries[k]
           /\ \/ d.bytes + incoming <= MaxTotal
              \/ \A k \in HeldIn(d.entries) \ keep : ~Loaded(d.entries[k])
<1>1. PICK dead : dead = DeadWeight(c, keep) OBVIOUS
<1>2. dead \in SUBSET HeldIn(c.entries) /\ dead \cap keep = {}
  BY <1>1 DEF DeadWeight, In, HeldIn
<1>3. PICK l : l = Drop(c, dead) OBVIOUS
<1>4. Kept(l) /\ Shrinks(c, l) /\ l.entries = Emptied(c.entries, dead)
  BY <1>2, <1>3, DropKeeps
<1>5. PICK from : from = Evictable(l, keep) OBVIOUS
<1>6. PICK ks \in Taken(l, from, {s \in SUBSET from : RoomFor(l, incoming, s)}) :
         d = Drop(Unload(l, OnDisk(l.entries, ks)), ks \ OnDisk(l.entries, ks))
  BY <1>1, <1>3, <1>5 DEF EvictToFit
<1>7. PICK m : m = l.entries OBVIOUS
<1>8. m \in Maps BY <1>4, <1>7 DEF Kept
<1>9. ks \in SUBSET from /\ (ks = from \/ RoomFor(l, incoming, ks)) BY <1>6 DEF Taken
<1>10. from = {k \in HeldIn(m) \ keep : Loaded(m[k])} BY <1>5, <1>7 DEF Evictable, In, HeldIn
<1>11. PICK D : D = OnDisk(m, ks) OBVIOUS
<1>12. D \in SUBSET ks /\ D \in SUBSET HeldIn(m) /\ \A k \in D : Loaded(m[k]) /\ m[k].onDisk
  BY <1>9, <1>10, <1>11 DEF OnDisk
<1>13. PICK u : u = Unload(l, D) OBVIOUS
<1>14. /\ Kept(u) /\ Shrinks(l, u) /\ u.entries = Unloaded(m, D)
       /\ u.bytes = l.bytes - SizeOf(m, D)
  <2>1. D \in SUBSET HeldIn(l.entries) /\ \A k \in D : Loaded(l.entries[k]) /\ l.entries[k].onDisk
    BY <1>7, <1>12
  <2>2. QED BY <2>1, <1>4, <1>7, <1>13, UnloadKeeps
<1>15. d = Drop(u, ks \ D) BY <1>6, <1>7, <1>11, <1>13
<1>16. PICK n : n = u.entries OBVIOUS
<1>17. HeldIn(n) = HeldIn(m) /\ CostOf(n, ks \ D) = CostOf(m, ks \ D)
  <2>1. ks \ D \in SUBSET HeldIn(m) /\ (ks \ D) \cap D = {} BY <1>9, <1>10
  <2>2. n = Unloaded(m, D) BY <1>14, <1>16
  <2>3. QED BY <2>1, <2>2, <1>8, <1>12, UnloadedSums
<1>18. ks \ D \in SUBSET HeldIn(n) BY <1>9, <1>10, <1>17
<1>19. /\ Kept(d) /\ Shrinks(u, d) /\ d.entries = Emptied(n, ks \ D)
       /\ d.bytes = u.bytes - CostOf(n, ks \ D)
  BY <1>14, <1>15, <1>16, <1>18, DropKeeps
<1>20. Shrinks(l, d) BY <1>4, <1>14, <1>19, ShrinksTwice
<1>21. Shrinks(c, d) BY <1>4, <1>19, <1>20, ShrinksTwice
<1>22. ASSUME NEW k \in keep PROVE d.entries[k] = c.entries[k]
  <2>1. k \in Keys /\ k \notin dead /\ k \notin ks /\ k \notin D BY <1>2, <1>9, <1>10, <1>12
  <2>2. m[k] = c.entries[k] BY <2>1, <1>4, <1>7 DEF Emptied
  <2>3. n[k] = m[k] BY <2>1, <1>14, <1>16 DEF Unloaded
  <2>4. d.entries[k] = n[k] BY <2>1, <1>19 DEF Emptied
  <2>5. QED BY <2>2, <2>3, <2>4
<1>23. ASSUME RoomFor(l, incoming, ks) PROVE d.bytes + incoming <= MaxTotal
  <2>1. FreedBy(l, ks) = CostOf(m, ks \ D) + SizeOf(m, D)
    BY <1>7, <1>11 DEF FreedBy, DiskCostOf
  <2>2. ks \ D \in SUBSET HeldIn(m) BY <1>17, <1>18
  <2>3. CostOf(m, ks \ D) \in Nat /\ SizeOf(m, D) \in Nat BY <2>2, <1>8, <1>12, SumsAreNumbers
  <2>4. l.bytes \in Int /\ MaxTotal \in Int
    BY <1>4, SizesAssumption DEF Kept, SizesAssumption
  <2>5. d.bytes = l.bytes - (CostOf(m, ks \ D) + SizeOf(m, D))
    BY <2>3, <2>4, <1>14, <1>17, <1>19
  <2>6. QED BY <1>23, <2>1, <2>3, <2>4, <2>5 DEF RoomFor
<1>24. ASSUME ks = from, NEW k \in HeldIn(d.entries) \ keep PROVE ~Loaded(d.entries[k])
  <2>1. k \in Keys /\ d.entries[k] # None BY <1>24 DEF HeldIn
  <2>2. k \notin ks \ D /\ d.entries[k] = n[k] BY <2>1, <1>19 DEF Emptied
  <2>3. k \in HeldIn(m) BY <2>1, <2>2, <1>17 DEF HeldIn
  <2>4. CASE k \in D
    <3>1. n[k] = [m[k] EXCEPT !.body = None] BY <2>1, <2>4, <1>14, <1>16 DEF Unloaded
    <3>2. m[k] \in Entry BY <2>3, <1>8, HeldEntry
    <3>3. QED BY <2>2, <3>1, <3>2 DEF Loaded, Entry
  <2>5. CASE k \notin D
    <3>1. n[k] = m[k] BY <2>1, <2>5, <1>14, <1>16 DEF Unloaded
    <3>2. k \notin from BY <2>2, <2>5, <1>24
    <3>3. ~Loaded(m[k]) BY <3>2, <2>3, <1>10, <1>24
    <3>4. QED BY <2>2, <3>1, <3>3
  <2>6. QED BY <2>4, <2>5
<1>25. QED BY <1>9, <1>19, <1>21, <1>22, <1>23, <1>24

-----------------------------------------------------------------------------
(* The sums as one entry comes, is renewed, loaded, or gets on disk.        *)

LEMMA SumsOfOne ==
    ASSUME NEW m \in Maps, NEW k \in HeldIn(m)
    PROVE  CostOf(m, {k}) = Cost(m[k]) /\ SizeOf(m, {k}) = m[k].size
<1>1. m[k] \in Entry /\ k \in Keys BY HeldEntry DEF HeldIn
<1>2. Cost(m[k]) \in Nat /\ m[k].size \in Nat BY <1>1, EntryCosts
<1>3. ASSUME NEW x \in Nat, NEW w, w = [j \in {k} |-> x] PROVE Total(w, {k}) = x
  <2>1. IsFiniteSet({k}) BY <1>1, KeysFinite
  <2>2. \A y \in {k} : w[y] \in Int BY <1>3
  <2>3. PICK S : S = {k} OBVIOUS
  <2>4. k \in S /\ IsFiniteSet(S) /\ \A y \in S : w[y] \in Int BY <2>1, <2>2, <2>3
  <2>5. Total(w, S) = w[k] + Total(w, S \ {k}) BY <2>4, TotalTakes
  <2>6. S \ {k} = {} BY <2>3
  <2>7. Total(w, S \ {k}) = 0 BY <2>6, TotalNone, Zenon
  <2>8. w[k] = x BY <1>3
  <2>9. QED BY <2>3, <2>5, <2>7, <2>8
<1>4. [j \in {k} |-> Cost(m[j])] = [j \in {k} |-> Cost(m[k])]
      /\ [j \in {k} |-> m[j].size] = [j \in {k} |-> m[k].size]
  OBVIOUS
<1>5. CostOf(m, {k}) = Cost(m[k]) BY <1>2, <1>3, <1>4 DEF CostOf
<1>6. SizeOf(m, {k}) = m[k].size BY <1>2, <1>3, <1>4 DEF SizeOf
<1>7. QED BY <1>5, <1>6

Put(m, k, e) == [m EXCEPT ![k] = e]

LEMMA EntryComes ==
    ASSUME NEW m \in Maps, NEW k \in Keys, m[k] = None, NEW e \in Entry, ~e.onDisk,
           NEW n, n = Put(m, k, e)
    PROVE  /\ n \in Maps /\ n[k] = e
           /\ CostOf(n, HeldIn(n)) = CostOf(m, HeldIn(m)) + Cost(e)
           /\ DiskCostOf(n, HeldIn(n)) = DiskCostOf(m, HeldIn(m))
<1>1. n = [m EXCEPT ![k] = e] BY DEF Put
<1>2. n \in Maps /\ n[k] = e /\ \A j \in Keys \ {k} : n[j] = m[j] BY <1>1 DEF Maps
<1>3. e # None BY NothingAssumption DEF NothingAssumption
<1>4. PICK H : H = HeldIn(m) OBVIOUS
<1>5. PICK J : J = HeldIn(n) OBVIOUS
<1>6. J \ {k} = H /\ k \in J /\ {k} \in SUBSET J /\ H \in SUBSET Keys
  BY <1>2, <1>3, <1>4, <1>5 DEF HeldIn
<1>7. \A j \in H : n[j] = m[j] BY <1>2, <1>6
<1>8. CostOf(n, J) = CostOf(n, {k}) + CostOf(n, J \ {k}) BY <1>2, <1>5, <1>6, CostSplit
<1>9. CostOf(n, {k}) = Cost(e) BY <1>2, <1>5, <1>6, SumsOfOne
<1>10. CostOf(n, H) = CostOf(m, H) BY <1>6, <1>7, CostSame
<1>11. CostOf(m, H) \in Nat /\ Cost(e) \in Nat BY <1>4, SumsAreNumbers, EntryCosts
<1>a. CostOf(n, J \ {k}) = CostOf(m, H) BY <1>6, <1>10, Zenon
<1>12. CostOf(n, J) = CostOf(m, H) + Cost(e) BY <1>8, <1>9, <1>a, <1>11
<1>13. PICK D : D = OnDisk(m, H) OBVIOUS
<1>14. D = OnDisk(n, J) BY <1>2, <1>6, <1>7, <1>13 DEF OnDisk
<1>15. D \in SUBSET Keys /\ \A j \in D : n[j].size = m[j].size BY <1>6, <1>7, <1>13 DEF OnDisk
<1>16. SizeOf(n, D) = SizeOf(m, D) BY <1>15, SizeSame
<1>17. DiskCostOf(n, J) = DiskCostOf(m, H) BY <1>13, <1>14, <1>16 DEF DiskCostOf
<1>18. QED BY <1>1, <1>2, <1>4, <1>5, <1>12, <1>17

LEMMA EntryRenewed ==
    ASSUME NEW m \in Maps, NEW k \in HeldIn(m), NEW e \in Entry,
           e.size = m[k].size, e.body = m[k].body, e.onDisk = m[k].onDisk,
           NEW n, n = Put(m, k, e)
    PROVE  /\ n \in Maps /\ n[k] = e /\ HeldIn(n) = HeldIn(m)
           /\ CostOf(n, HeldIn(n)) = CostOf(m, HeldIn(m))
           /\ DiskCostOf(n, HeldIn(n)) = DiskCostOf(m, HeldIn(m))
<1>1. n = [m EXCEPT ![k] = e] BY DEF Put
<1>2. k \in Keys BY DEF HeldIn
<1>3. n \in Maps /\ n[k] = e /\ \A j \in Keys \ {k} : n[j] = m[j] BY <1>1, <1>2 DEF Maps
<1>4. e # None BY NothingAssumption DEF NothingAssumption
<1>5. PICK H : H = HeldIn(m) OBVIOUS
<1>6. HeldIn(n) = H /\ H \in SUBSET Keys BY <1>2, <1>3, <1>4, <1>5 DEF HeldIn
<1>7. \A j \in H : n[j].size = m[j].size /\ n[j].body = m[j].body /\ n[j].onDisk = m[j].onDisk
  BY <1>3, <1>6
<1>8. \A j \in H : Cost(n[j]) = Cost(m[j]) BY <1>7 DEF Cost, Loaded
<1>9. CostOf(n, H) = CostOf(m, H) BY <1>6, <1>8, CostSame
<1>10. PICK D : D = OnDisk(m, H) OBVIOUS
<1>11. D = OnDisk(n, H) BY <1>7, <1>10 DEF OnDisk
<1>12. D \in SUBSET Keys /\ \A j \in D : n[j].size = m[j].size BY <1>6, <1>7, <1>10 DEF OnDisk
<1>13. SizeOf(n, D) = SizeOf(m, D) BY <1>12, SizeSame
<1>14. DiskCostOf(n, H) = DiskCostOf(m, H) BY <1>10, <1>11, <1>13 DEF DiskCostOf
<1>15. QED BY <1>1, <1>3, <1>5, <1>6, <1>9, <1>14

BodyIn(m, k, b) == [m EXCEPT ![k].body = b]
PutOnDisk(m, k) == [m EXCEPT ![k].onDisk = TRUE]

LEMMA BodyLoaded ==
    ASSUME NEW m \in Maps, NEW k \in HeldIn(m), ~Loaded(m[k]), NEW b \in Nat,
           NEW n, n = BodyIn(m, k, b)
    PROVE  /\ n \in Maps /\ HeldIn(n) = HeldIn(m)
           /\ n[k] = [m[k] EXCEPT !.body = b] /\ \A j \in Keys \ {k} : n[j] = m[j]
           /\ CostOf(n, HeldIn(n)) = CostOf(m, HeldIn(m)) + m[k].size
           /\ DiskCostOf(n, HeldIn(n)) = DiskCostOf(m, HeldIn(m))
<1>1. n = [m EXCEPT ![k].body = b] BY DEF BodyIn
<1>2. k \in Keys /\ m[k] \in Entry BY HeldEntry DEF HeldIn
<1>3. m = [j \in Keys |-> m[j]] BY DEF Maps
<1>4. n[k] = [m[k] EXCEPT !.body = b] /\ \A j \in Keys \ {k} : n[j] = m[j]
  BY <1>1, <1>2, <1>3
<1>5. /\ n[k] \in Entry /\ n[k].body = b /\ n[k].size = m[k].size
      /\ m[k] = [n[k] EXCEPT !.body = None]
  BY <1>2, <1>4 DEF Entry, Loaded
<1>6. n \in Maps
  <2>1. n = [j \in Keys |-> n[j]] BY <1>1, <1>3
  <2>2. \A j \in Keys : n[j] \in Entry \cup {None} BY <1>4, <1>5 DEF Maps
  <2>3. QED BY <2>1, <2>2 DEF Maps
<1>7. HeldIn(n) = HeldIn(m)
  <2>1. n[k] # None /\ m[k] # None BY <1>2, <1>5, NothingAssumption DEF NothingAssumption
  <2>2. QED BY <2>1, <1>2, <1>4 DEF HeldIn
<1>8. Loaded(n[k]) BY <1>5, NothingAssumption DEF Loaded, NothingAssumption
<1>9. Unloaded(n, {k}) = m BY <1>2, <1>3, <1>4, <1>5 DEF Unloaded
<1>10. k \in HeldIn(n) /\ {k} \in SUBSET HeldIn(n) BY <1>7
<1>11. /\ CostOf(m, HeldIn(n)) = CostOf(n, HeldIn(n)) - SizeOf(n, {k})
       /\ DiskCostOf(m, HeldIn(n)) = DiskCostOf(n, HeldIn(n))
  <2>1. \A j \in {k} : Loaded(n[j]) BY <1>8
  <2>2. HeldIn(n) \in SUBSET HeldIn(n) OBVIOUS
  <2>3. QED BY <2>1, <2>2, <1>6, <1>9, <1>10, UnloadedSums
<1>12. SizeOf(n, {k}) = m[k].size BY <1>5, <1>6, <1>10, SumsOfOne
<1>13. CostOf(n, HeldIn(n)) \in Nat /\ m[k].size \in Nat BY <1>2, <1>6, SumsAreNumbers, EntryCosts
<1>14. CostOf(n, HeldIn(n)) = CostOf(m, HeldIn(m)) + m[k].size BY <1>7, <1>11, <1>12, <1>13
<1>15. QED BY <1>1, <1>4, <1>6, <1>7, <1>11, <1>14

LEMMA EntryOnDisk ==
    ASSUME NEW m \in Maps, NEW k \in HeldIn(m), NEW n, n = PutOnDisk(m, k)
    PROVE  /\ n \in Maps /\ HeldIn(n) = HeldIn(m)
           /\ n[k] = [m[k] EXCEPT !.onDisk = TRUE] /\ \A j \in Keys \ {k} : n[j] = m[j]
           /\ CostOf(n, HeldIn(n)) = CostOf(m, HeldIn(m))
           /\ DiskCostOf(n, HeldIn(n)) =
                DiskCostOf(m, HeldIn(m)) + (IF m[k].onDisk THEN 0 ELSE m[k].size)
<1>1. n = [m EXCEPT ![k].onDisk = TRUE] BY DEF PutOnDisk
<1>2. k \in Keys /\ m[k] \in Entry BY HeldEntry DEF HeldIn
<1>3. m = [j \in Keys |-> m[j]] BY DEF Maps
<1>4. n[k] = [m[k] EXCEPT !.onDisk = TRUE] /\ \A j \in Keys \ {k} : n[j] = m[j]
  BY <1>1, <1>2, <1>3
<1>5. n[k] \in Entry /\ n[k].body = m[k].body /\ n[k].size = m[k].size /\ n[k].onDisk
  BY <1>2, <1>4 DEF Entry
<1>6. n \in Maps
  <2>1. n = [j \in Keys |-> n[j]] BY <1>1, <1>3
  <2>2. \A j \in Keys : n[j] \in Entry \cup {None} BY <1>4, <1>5 DEF Maps
  <2>3. QED BY <2>1, <2>2 DEF Maps
<1>7. PICK H : H = HeldIn(m) OBVIOUS
<1>8. HeldIn(n) = H /\ H \in SUBSET Keys /\ k \in H
  <2>1. n[k] # None /\ m[k] # None BY <1>2, <1>5, NothingAssumption DEF NothingAssumption
  <2>2. QED BY <2>1, <1>2, <1>4, <1>7 DEF HeldIn
<1>9. \A j \in H : n[j].size = m[j].size /\ n[j].body = m[j].body BY <1>4, <1>5, <1>8
<1>10. \A j \in H : Cost(n[j]) = Cost(m[j]) BY <1>9 DEF Cost, Loaded
<1>11. CostOf(n, H) = CostOf(m, H) BY <1>8, <1>10, CostSame
<1>12. PICK D : D = OnDisk(m, H) OBVIOUS
<1>13. OnDisk(n, H) = D \cup {k} BY <1>4, <1>5, <1>8, <1>12 DEF OnDisk
<1>14. D \in SUBSET H /\ D \in SUBSET Keys BY <1>8, <1>12 DEF OnDisk
<1>15. SizeOf(n, D) = SizeOf(m, D) BY <1>9, <1>14, SizeSame
<1>16. CASE m[k].onDisk
  <2>1. D \cup {k} = D BY <1>8, <1>12, <1>16 DEF OnDisk
  <2>2. DiskCostOf(n, H) = DiskCostOf(m, H) BY <2>1, <1>12, <1>13, <1>15 DEF DiskCostOf
  <2>3. DiskCostOf(m, H) \in Nat BY <1>7, SumsAreNumbers
  <2>4. QED BY <1>1, <1>4, <1>6, <1>7, <1>8, <1>11, <1>16, <2>2, <2>3
<1>17. CASE ~m[k].onDisk
  <2>1. PICK E : E = D \cup {k} OBVIOUS
  <2>2. E \ {k} = D /\ {k} \in SUBSET E /\ E \in SUBSET HeldIn(n)
    BY <2>1, <1>8, <1>12, <1>14, <1>17 DEF OnDisk
  <2>3. SizeOf(n, E) = SizeOf(n, {k}) + SizeOf(n, D) BY <2>2, <1>6, SizeSplit
  <2>4. SizeOf(n, {k}) = m[k].size BY <1>5, <1>6, <1>8, SumsOfOne
  <2>5. DiskCostOf(n, H) = m[k].size + DiskCostOf(m, H)
    BY <2>1, <2>3, <2>4, <1>12, <1>13, <1>15 DEF DiskCostOf
  <2>6. DiskCostOf(m, H) \in Nat /\ m[k].size \in Nat BY <1>2, <1>7, SumsAreNumbers, EntryCosts
  <2>7. DiskCostOf(n, H) = DiskCostOf(m, H) + m[k].size BY <2>5, <2>6
  <2>8. QED BY <1>1, <1>4, <1>6, <1>7, <1>8, <1>11, <1>17, <2>7
<1>18. QED BY <1>16, <1>17

-----------------------------------------------------------------------------
(* The file operations of a call, the entries it leaves and the texts in    *)
(* the directory, of an entries map m, operations w and texts t.            *)

Ops == Removal \cup ({"writeBody"} \X Keys \X BodyFile) \cup ({"writeMeta"} \X Keys \X Text)

IsRemoval(op) == op[1] \in {"removeMeta", "removeBody"}
Replaces(w, k) == \E i \in 1..Len(w) : w[i][1] = "removeMeta" /\ w[i][2] = k
Writes(w, k) == \E i \in 1..Len(w) : w[i][1] = "writeBody" /\ w[i][2] = k

\* Removals first, a body's after its text's and each once; then the body and
\* then the text of the one entry that is written.
Ordered(w) ==
    /\ \A i \in 1..Len(w) : w[i] \in Ops
    /\ \A i, j \in 1..Len(w) :
          i < j /\ ~IsRemoval(w[i]) =>
             w[i][1] = "writeBody" /\ w[j][1] = "writeMeta" /\ w[j][2] = w[i][2]
    /\ \A i, j \in 1..Len(w) :
          i < j /\ IsRemoval(w[i]) /\ IsRemoval(w[j]) /\ w[i][2] = w[j][2] =>
             w[i][1] = "removeMeta" /\ w[j][1] = "removeBody"

\* What is removed belongs to no entry, or to one whose files are still to be
\* written; what is written is the entry's.
Suits(m, w) ==
    \A i \in 1..Len(w) : LET k == w[i][2] IN
        /\ IsRemoval(w[i]) => m[k] = None \/ Writes(w, k)
        /\ w[i][1] = "writeBody" =>
              m[k] # None /\ ~m[k].onDisk /\ Loaded(m[k]) /\ w[i] = WriteBody(k, m[k])
        /\ w[i][1] = "writeMeta" => m[k] # None /\ w[i] = WriteMeta(k, m[k])

\* The texts are those of the entries on disk, those about to be removed and those
\* that have stayed aside.
TextsOf(m, w, t, stay) ==
    \A k \in Keys :
        /\ m[k] # None /\ m[k].onDisk =>
              /\ t[k] # None /\ ~Replaces(w, k)
              /\ m[k].store = t[k].store /\ m[k].size = t[k].size
        /\ t[k] # None /\ ~Replaces(w, k) /\ k \notin stay => m[k] # None /\ m[k].onDisk

LEMMA OpKinds ==
    ASSUME NEW op \in Ops
    PROVE  /\ op[1] \in {"removeMeta", "removeBody", "writeBody", "writeMeta"}
           /\ op[2] \in Keys
           /\ IsRemoval(op) => op = <<op[1], op[2]>>
           /\ op[1] = "writeBody" => op[3] \in BodyFile
           /\ op[1] = "writeMeta" => op[3] \in Text
<1>1. CASE op \in Removal BY <1>1 DEF Removal, IsRemoval
<1>2. CASE op \in {"writeBody"} \X Keys \X BodyFile BY <1>2 DEF IsRemoval
<1>3. CASE op \in {"writeMeta"} \X Keys \X Text BY <1>3 DEF IsRemoval
<1>4. QED BY <1>1, <1>2, <1>3 DEF Ops

LEMMA RemovalIsOp ==
    ASSUME NEW op \in Removal
    PROVE  op \in Ops /\ IsRemoval(op)
BY DEF Ops, Removal, IsRemoval

LEMMA WritesAreOps ==
    ASSUME NEW k \in Keys, NEW e \in Entry
    PROVE  /\ WriteBody(k, e) \in Ops /\ WriteBody(k, e)[1] = "writeBody" /\ WriteBody(k, e)[2] = k
           /\ WriteMeta(k, e) \in Ops /\ WriteMeta(k, e)[1] = "writeMeta" /\ WriteMeta(k, e)[2] = k
           /\ ~IsRemoval(WriteBody(k, e)) /\ ~IsRemoval(WriteMeta(k, e))
<1>1. [store |-> e.store, length |-> e.size] \in BodyFile BY DEF Entry, BodyFile
<1>2. [store |-> e.store, size |-> e.size, at |-> e.at, freshUntil |-> e.freshUntil,
       validator |-> e.validator] \in Text
  BY DEF Entry, Text
<1>3. WriteBody(k, e) \in Ops BY <1>1 DEF WriteBody, Ops
<1>4. WriteMeta(k, e) \in Ops BY <1>2 DEF WriteMeta, Ops
<1>5. QED BY <1>3, <1>4 DEF WriteBody, WriteMeta, IsRemoval

\* A call that only shrinks the cache.
Shrunk(m, n, w) ==
    /\ m \in Maps /\ n \in Maps
    /\ \A k \in Keys : Lessened(m[k], n[k])
    /\ Removals(w, Gone(m, n))

LEMMA LessenedIs ==
    ASSUME NEW m, NEW n, NEW w, Shrunk(m, n, w), NEW k \in Keys
    PROVE  /\ n[k] = None => (k \in Gone(m, n) <=> m[k] # None /\ m[k].onDisk)
           /\ n[k] # None => /\ k \notin Gone(m, n) /\ m[k] # None /\ m[k] \in Entry /\ n[k] \in Entry
                             /\ n[k].store = m[k].store /\ n[k].size = m[k].size
                             /\ n[k].onDisk = m[k].onDisk
                             /\ (n[k].body = m[k].body \/ (n[k].body = None /\ n[k].onDisk))
<1>1. PICK e : e = m[k] OBVIOUS
<1>2. PICK f : f = n[k] OBVIOUS
<1>3. Lessened(e, f) /\ e \in Entry \cup {None} /\ f \in Entry \cup {None}
  BY <1>1, <1>2 DEF Shrunk, Maps
<1>n. None \notin Entry BY NothingAssumption DEF NothingAssumption
<1>4. k \in Gone(m, n) <=> (e # None /\ e.onDisk /\ f = None) BY <1>1, <1>2 DEF Gone
<1>5. CASE f = None BY <1>1, <1>2, <1>4, <1>5
<1>6. CASE f # None /\ f = e BY <1>1, <1>2, <1>3, <1>4, <1>6
<1>7. CASE f # None /\ e \in Entry /\ e.onDisk /\ f = [e EXCEPT !.body = None]
  <2>1. /\ f.store = e.store /\ f.size = e.size /\ f.onDisk = e.onDisk /\ f.body = None /\ f.onDisk
    BY <1>7 DEF Entry
  <2>2. e # None /\ f \in Entry BY <1>3, <1>7, <1>n
  <2>3. k \notin Gone(m, n) BY <1>4, <1>7
  <2>4. QED BY <1>1, <1>2, <1>7, <2>1, <2>2, <2>3
<1>8. QED BY <1>3, <1>5, <1>6, <1>7 DEF Lessened

LEMMA ShrunkOps ==
    ASSUME NEW m, NEW n, NEW w, Shrunk(m, n, w)
    PROVE  /\ w \in Seq(Ops)
           /\ \A i \in 1..Len(w) : w[i] \in Ops /\ IsRemoval(w[i]) /\ w[i][2] \in Gone(m, n)
           /\ \A k \in Keys : ~Writes(w, k) /\ (Replaces(w, k) <=> k \in Gone(m, n))
<1>1. w \in Seq(Removal) BY DEF Shrunk, Removals
<1>2. \A i \in 1..Len(w) : w[i] \in Removal BY <1>1
<1>3. \A i \in 1..Len(w) : w[i] \in Ops /\ IsRemoval(w[i]) BY <1>2, RemovalIsOp
<1>4. \A i \in 1..Len(w) : w[i][2] \in Gone(m, n) BY DEF Shrunk, Removals
<1>5. w \in Seq(Ops) BY <1>1, <1>3
<1>6. ASSUME NEW k \in Keys PROVE ~Writes(w, k) /\ (Replaces(w, k) <=> k \in Gone(m, n))
  <2>1. ~Writes(w, k) BY <1>3 DEF Writes, IsRemoval
  <2>2. Replaces(w, k) => k \in Gone(m, n) BY <1>4 DEF Replaces
  <2>3. ASSUME k \in Gone(m, n) PROVE Replaces(w, k)
    <3>1. PICK i \in 1..Len(w) : w[i] = <<"removeMeta", k>> BY <2>3 DEF Shrunk, Removals
    <3>2. w[i][1] = "removeMeta" /\ w[i][2] = k BY <3>1
    <3>3. QED BY <3>2 DEF Replaces
  <2>4. QED BY <2>1, <2>2, <2>3
<1>7. QED BY <1>3, <1>4, <1>5, <1>6

LEMMA CallShrinks ==
    ASSUME NEW m, NEW n, NEW w, NEW t, NEW stay, Shrunk(m, n, w), TextsOf(m, <<>>, t, stay)
    PROVE  Ordered(w) /\ Suits(n, w) /\ TextsOf(n, w, t, stay)
<1>1. Ordered(w)
  <2>1. \A i, j \in 1..Len(w) : i < j /\ w[i][2] = w[j][2] => w[i][1] = "removeMeta" /\ w[j][1] = "removeBody"
    BY DEF Shrunk, Removals
  <2>2. \A i \in 1..Len(w) : w[i] \in Ops /\ IsRemoval(w[i]) BY ShrunkOps
  <2>3. QED BY <2>1, <2>2 DEF Ordered
<1>2. Suits(n, w)
  <2>1. \A i \in 1..Len(w) : IsRemoval(w[i]) /\ w[i][2] \in Gone(m, n) BY ShrunkOps
  <2>2. \A i \in 1..Len(w) : n[w[i][2]] = None BY <2>1 DEF Gone
  <2>3. QED BY <2>1, <2>2 DEF Suits, IsRemoval
<1>3. ASSUME NEW k \in Keys
      PROVE  /\ n[k] # None /\ n[k].onDisk =>
                   t[k] # None /\ ~Replaces(w, k) /\ n[k].store = t[k].store /\ n[k].size = t[k].size
             /\ t[k] # None /\ ~Replaces(w, k) /\ k \notin stay => n[k] # None /\ n[k].onDisk
  <2>1. Replaces(w, k) <=> k \in Gone(m, n) BY ShrunkOps
  <2>2. ~Replaces(<<>>, k) BY DEF Replaces
  <2>3. /\ m[k] # None /\ m[k].onDisk => t[k] # None /\ m[k].store = t[k].store /\ m[k].size = t[k].size
        /\ t[k] # None /\ k \notin stay => m[k] # None /\ m[k].onDisk
    BY <2>2 DEF TextsOf
  <2>4. CASE n[k] = None
    <3>1. k \in Gone(m, n) <=> m[k] # None /\ m[k].onDisk BY <2>4, LessenedIs
    <3>2. QED BY <2>1, <2>3, <2>4, <3>1
  <2>5. CASE n[k] # None
    <3>1. /\ k \notin Gone(m, n) /\ m[k] # None /\ n[k].store = m[k].store
          /\ n[k].size = m[k].size /\ n[k].onDisk = m[k].onDisk
      BY <2>5, LessenedIs
    <3>2. QED BY <2>1, <2>3, <2>5, <3>1
  <2>6. QED BY <2>4, <2>5
<1>4. QED BY <1>1, <1>2, <1>3 DEF TextsOf

\* What a call that stores or renews an entry asks for last.
ThenBoth(w, k, e) == w \o BodyFirst(k, e)
ThenText(w, k, e) == Append(w, WriteMeta(k, e))

\* A call that shrinks the cache and then stores an entry where there is none.
LEMMA CallStores ==
    ASSUME NEW m, NEW n, NEW w, NEW t, NEW stay, Shrunk(m, n, w), TextsOf(m, <<>>, t, stay),
           NEW k \in Keys, n[k] = None, NEW e \in Entry, ~e.onDisk, Loaded(e),
           NEW u, u = ThenBoth(w, k, e), NEW o, o = Put(n, k, e)
    PROVE  /\ u \in Seq(Ops) /\ Ordered(u) /\ Suits(o, u) /\ TextsOf(o, u, t, stay)
           /\ Writes(u, k) /\ \A j \in Keys : Replaces(u, j) <=> j \in Gone(m, n)
           /\ \A j \in Keys : Writes(u, j) <=> j = k
<1>1. PICK p : p = WriteBody(k, e) OBVIOUS
<1>2. PICK q : q = WriteMeta(k, e) OBVIOUS
<1>3. u = w \o <<p, q>> BY <1>1, <1>2 DEF BodyFirst, ThenBoth
<1>5. o = [n EXCEPT ![k] = e] BY DEF Put
<1>6. o[k] = e /\ \A j \in Keys \ {k} : o[j] = n[j] BY <1>5 DEF Shrunk, Maps
<1>7. /\ p \in Ops /\ p[1] = "writeBody" /\ p[2] = k /\ ~IsRemoval(p)
      /\ q \in Ops /\ q[1] = "writeMeta" /\ q[2] = k /\ ~IsRemoval(q)
  BY <1>1, <1>2, WritesAreOps
<1>8. w \in Seq(Ops) BY ShrunkOps
<1>9. PICK l \in Nat : l = Len(w) BY <1>8
<1>10. u \in Seq(Ops) /\ Len(u) = l + 2 BY <1>3, <1>7, <1>8, <1>9
<1>11. \A i \in 1..l : u[i] = w[i] BY <1>3, <1>8, <1>9
<1>12. u[l + 1] = p /\ u[l + 2] = q BY <1>3, <1>8, <1>9
<1>13. \A i \in 1..l : u[i] \in Ops /\ IsRemoval(u[i]) /\ u[i][2] \in Gone(m, n)
  BY <1>9, <1>11, ShrunkOps
<1>14. \A i \in 1..(l + 2) : i \in 1..l \/ i = l + 1 \/ i = l + 2 OBVIOUS
<1>15. Ordered(u)
  <2>1. \A i \in 1..Len(u) : u[i] \in Ops BY <1>10
  <2>2. ASSUME NEW i \in 1..Len(u), NEW j \in 1..Len(u), i < j, ~IsRemoval(u[i])
        PROVE  u[i][1] = "writeBody" /\ u[j][1] = "writeMeta" /\ u[j][2] = u[i][2]
    <3>1. i \notin 1..l BY <2>2, <1>13
    <3>2. i = l + 1 /\ j = l + 2 BY <3>1, <2>2, <1>10
    <3>3. QED BY <3>2, <1>7, <1>12
  <2>3. ASSUME NEW i \in 1..Len(u), NEW j \in 1..Len(u), i < j,
               IsRemoval(u[i]), IsRemoval(u[j]), u[i][2] = u[j][2]
        PROVE  u[i][1] = "removeMeta" /\ u[j][1] = "removeBody"
    <3>1. j \in 1..l BY <2>3, <1>7, <1>10, <1>12, <1>14
    <3>2. i \in 1..l BY <3>1, <2>3, <1>9
    <3>3. w[i][2] = w[j][2] BY <2>3, <3>1, <3>2, <1>11
    <3>4. w[i][1] = "removeMeta" /\ w[j][1] = "removeBody"
      BY <3>1, <3>2, <3>3, <2>3, <1>9 DEF Shrunk, Removals
    <3>5. QED BY <3>1, <3>2, <3>4, <1>11
  <2>4. QED BY <2>1, <2>2, <2>3 DEF Ordered
<1>16. Writes(u, k)
  <2>1. l + 1 \in 1..Len(u) BY <1>10
  <2>2. QED BY <2>1, <1>7, <1>12 DEF Writes
<1>17. ASSUME NEW j \in Keys
       PROVE  /\ Replaces(u, j) <=> j \in Gone(m, n)
              /\ Writes(u, j) <=> j = k
  <2>1. Replaces(w, j) <=> j \in Gone(m, n) BY ShrunkOps
  <2>2. ASSUME Replaces(u, j) PROVE Replaces(w, j)
    <3>1. PICK i \in 1..Len(u) : u[i][1] = "removeMeta" /\ u[i][2] = j BY <2>2 DEF Replaces
    <3>2. i \in 1..l BY <3>1, <1>7, <1>10, <1>12, <1>14
    <3>3. w[i][1] = "removeMeta" /\ w[i][2] = j BY <3>1, <3>2, <1>11
    <3>4. QED BY <3>2, <3>3, <1>9 DEF Replaces
  <2>3. ASSUME Replaces(w, j) PROVE Replaces(u, j)
    <3>1. PICK i \in 1..l : w[i][1] = "removeMeta" /\ w[i][2] = j BY <2>3, <1>9 DEF Replaces
    <3>2. u[i] = w[i] /\ i \in 1..Len(u) BY <3>1, <1>10, <1>11
    <3>3. QED BY <3>1, <3>2 DEF Replaces
  <2>4. ASSUME Writes(u, j) PROVE j = k
    <3>1. PICK i \in 1..Len(u) : u[i][1] = "writeBody" /\ u[i][2] = j BY <2>4 DEF Writes
    <3>2. i \notin 1..l BY <3>1, <1>13 DEF IsRemoval
    <3>3. u[i][2] = k BY <3>2, <1>7, <1>10, <1>12, <1>14
    <3>4. QED BY <3>1, <3>3
  <2>5. QED BY <2>1, <2>2, <2>3, <2>4, <1>16
<1>n. None \notin Entry BY NothingAssumption DEF NothingAssumption
<1>18. Suits(o, u)
  <2>1. ASSUME NEW i \in 1..Len(u), NEW j, j = u[i][2]
        PROVE  /\ IsRemoval(u[i]) => o[j] = None \/ Writes(u, j)
               /\ u[i][1] = "writeBody" =>
                     o[j] # None /\ ~o[j].onDisk /\ Loaded(o[j]) /\ u[i] = WriteBody(j, o[j])
               /\ u[i][1] = "writeMeta" => o[j] # None /\ u[i] = WriteMeta(j, o[j])
    <3>1. CASE i \in 1..l
      <4>1. IsRemoval(u[i]) /\ j \in Gone(m, n) BY <3>1, <2>1, <1>13
      <4>2. n[j] = None /\ j \in Keys BY <4>1 DEF Gone
      <4>3. o[j] = None \/ Writes(u, j)
        <5>1. CASE j = k BY <5>1, <1>16
        <5>2. CASE j # k BY <5>2, <4>2, <1>6
        <5>3. QED BY <5>1, <5>2
      <4>4. u[i][1] # "writeBody" /\ u[i][1] # "writeMeta" BY <4>1 DEF IsRemoval
      <4>5. QED BY <4>3, <4>4
    <3>2. CASE i = l + 1
      <4>1. u[i] = p /\ j = k /\ o[j] = e BY <3>2, <2>1, <1>6, <1>7, <1>12
      <4>2. e # None BY <1>n
      <4>3. QED BY <4>1, <4>2, <1>1, <1>7
    <3>3. CASE i = l + 2
      <4>1. u[i] = q /\ j = k /\ o[j] = e BY <3>3, <2>1, <1>6, <1>7, <1>12
      <4>2. e # None BY <1>n
      <4>3. QED BY <4>1, <4>2, <1>2, <1>7
    <3>4. QED BY <3>1, <3>2, <3>3, <1>10, <1>14
  <2>2. QED BY <2>1 DEF Suits
<1>19. TextsOf(o, u, t, stay)
  <2>1. TextsOf(n, w, t, stay) BY CallShrinks
  <2>2. ASSUME NEW j \in Keys
        PROVE  /\ o[j] # None /\ o[j].onDisk =>
                     t[j] # None /\ ~Replaces(u, j) /\ o[j].store = t[j].store /\ o[j].size = t[j].size
               /\ t[j] # None /\ ~Replaces(u, j) /\ j \notin stay => o[j] # None /\ o[j].onDisk
    <3>1. Replaces(u, j) <=> Replaces(w, j) BY <1>17, ShrunkOps
    <3>2. CASE j = k
      <4>1. t[j] # None /\ j \notin stay => Replaces(w, j) BY <3>2, <2>1 DEF TextsOf
      <4>2. ~o[j].onDisk BY <3>2, <1>6
      <4>3. QED BY <3>1, <4>1, <4>2
    <3>3. CASE j # k
      <4>1. o[j] = n[j] BY <3>3, <1>6
      <4>2. QED BY <3>1, <4>1, <2>1 DEF TextsOf
    <3>4. QED BY <3>2, <3>3
  <2>3. QED BY <2>2 DEF TextsOf
<1>20. QED BY <1>10, <1>15, <1>16, <1>17, <1>18, <1>19

\* A call that shrinks the cache and then renews an entry it has left.
LEMMA CallRenews ==
    ASSUME NEW m, NEW n, NEW w, NEW t, NEW stay, Shrunk(m, n, w), TextsOf(m, <<>>, t, stay),
           NEW k \in Keys, n[k] # None, NEW e \in Entry,
           e.store = n[k].store, e.size = n[k].size, e.onDisk = n[k].onDisk,
           NEW u, u = ThenText(w, k, e), NEW o, o = Put(n, k, e)
    PROVE  /\ u \in Seq(Ops) /\ Ordered(u) /\ Suits(o, u) /\ TextsOf(o, u, t, stay)
           /\ \A j \in Keys : ~Writes(u, j) /\ (Replaces(u, j) <=> j \in Gone(m, n))
<1>1. PICK q : q = WriteMeta(k, e) OBVIOUS
<1>2. u = Append(w, q) BY <1>1 DEF ThenText
<1>3. o = [n EXCEPT ![k] = e] BY DEF Put
<1>4. o[k] = e /\ \A j \in Keys \ {k} : o[j] = n[j] BY <1>3 DEF Shrunk, Maps
<1>5. q \in Ops /\ q[1] = "writeMeta" /\ q[2] = k /\ ~IsRemoval(q) BY <1>1, WritesAreOps
<1>6. w \in Seq(Ops) BY ShrunkOps
<1>7. PICK l \in Nat : l = Len(w) BY <1>6
<1>8. u \in Seq(Ops) /\ Len(u) = l + 1 BY <1>2, <1>5, <1>6, <1>7
<1>9. \A i \in 1..l : u[i] = w[i] BY <1>2, <1>6, <1>7
<1>10. u[l + 1] = q BY <1>2, <1>6, <1>7
<1>11. \A i \in 1..l : u[i] \in Ops /\ IsRemoval(u[i]) /\ u[i][2] \in Gone(m, n)
  BY <1>7, <1>9, ShrunkOps
<1>12. \A i \in 1..(l + 1) : i \in 1..l \/ i = l + 1 OBVIOUS
<1>13. Ordered(u)
  <2>1. \A i \in 1..Len(u) : u[i] \in Ops BY <1>8
  <2>2. ASSUME NEW i \in 1..Len(u), NEW j \in 1..Len(u), i < j PROVE IsRemoval(u[i])
    <3>1. i \in 1..l BY <2>2, <1>8
    <3>2. QED BY <3>1, <1>11
  <2>3. ASSUME NEW i \in 1..Len(u), NEW j \in 1..Len(u), i < j,
               IsRemoval(u[i]), IsRemoval(u[j]), u[i][2] = u[j][2]
        PROVE  u[i][1] = "removeMeta" /\ u[j][1] = "removeBody"
    <3>1. j \in 1..l BY <2>3, <1>5, <1>8, <1>10, <1>12
    <3>2. i \in 1..l BY <3>1, <2>3, <1>7
    <3>3. w[i][2] = w[j][2] BY <2>3, <3>1, <3>2, <1>9
    <3>4. w[i][1] = "removeMeta" /\ w[j][1] = "removeBody"
      BY <3>1, <3>2, <3>3, <2>3, <1>7 DEF Shrunk, Removals
    <3>5. QED BY <3>1, <3>2, <3>4, <1>9
  <2>4. QED BY <2>1, <2>2, <2>3 DEF Ordered
<1>14. ASSUME NEW j \in Keys
       PROVE  ~Writes(u, j) /\ (Replaces(u, j) <=> j \in Gone(m, n))
  <2>1. Replaces(w, j) <=> j \in Gone(m, n) BY ShrunkOps
  <2>2. ASSUME Replaces(u, j) PROVE Replaces(w, j)
    <3>1. PICK i \in 1..Len(u) : u[i][1] = "removeMeta" /\ u[i][2] = j BY <2>2 DEF Replaces
    <3>2. i \in 1..l BY <3>1, <1>5, <1>8, <1>10, <1>12
    <3>3. w[i][1] = "removeMeta" /\ w[i][2] = j BY <3>1, <3>2, <1>9
    <3>4. QED BY <3>2, <3>3, <1>7 DEF Replaces
  <2>3. ASSUME Replaces(w, j) PROVE Replaces(u, j)
    <3>1. PICK i \in 1..l : w[i][1] = "removeMeta" /\ w[i][2] = j BY <2>3, <1>7 DEF Replaces
    <3>2. u[i] = w[i] /\ i \in 1..Len(u) BY <3>1, <1>8, <1>9
    <3>3. QED BY <3>1, <3>2 DEF Replaces
  <2>4. ASSUME Writes(u, j) PROVE FALSE
    <3>1. PICK i \in 1..Len(u) : u[i][1] = "writeBody" /\ u[i][2] = j BY <2>4 DEF Writes
    <3>2. i \notin 1..l BY <3>1, <1>11 DEF IsRemoval
    <3>3. QED BY <3>1, <3>2, <1>5, <1>8, <1>10, <1>12
  <2>5. QED BY <2>1, <2>2, <2>3, <2>4
<1>n. None \notin Entry BY NothingAssumption DEF NothingAssumption
<1>15. Suits(o, u)
  <2>1. ASSUME NEW i \in 1..Len(u), NEW j, j = u[i][2]
        PROVE  /\ IsRemoval(u[i]) => o[j] = None \/ Writes(u, j)
               /\ u[i][1] = "writeBody" =>
                     o[j] # None /\ ~o[j].onDisk /\ Loaded(o[j]) /\ u[i] = WriteBody(j, o[j])
               /\ u[i][1] = "writeMeta" => o[j] # None /\ u[i] = WriteMeta(j, o[j])
    <3>1. CASE i \in 1..l
      <4>1. IsRemoval(u[i]) /\ j \in Gone(m, n) BY <3>1, <2>1, <1>11
      <4>2. n[j] = None /\ j \in Keys BY <4>1 DEF Gone
      <4>3. j # k BY <4>2
      <4>4. o[j] = None BY <4>2, <4>3, <1>4
      <4>5. u[i][1] # "writeBody" /\ u[i][1] # "writeMeta" BY <4>1 DEF IsRemoval
      <4>6. QED BY <4>4, <4>5
    <3>2. CASE i = l + 1
      <4>1. u[i] = q /\ j = k /\ o[j] = e BY <3>2, <2>1, <1>4, <1>5, <1>10
      <4>2. e # None BY <1>n
      <4>3. QED BY <4>1, <4>2, <1>1, <1>5
    <3>3. QED BY <3>1, <3>2, <1>8, <1>12
  <2>2. QED BY <2>1 DEF Suits
<1>16. TextsOf(o, u, t, stay)
  <2>1. TextsOf(n, w, t, stay) BY CallShrinks
  <2>2. ASSUME NEW j \in Keys
        PROVE  /\ o[j] # None /\ o[j].onDisk =>
                     t[j] # None /\ ~Replaces(u, j) /\ o[j].store = t[j].store /\ o[j].size = t[j].size
               /\ t[j] # None /\ ~Replaces(u, j) /\ j \notin stay => o[j] # None /\ o[j].onDisk
    <3>1. Replaces(u, j) <=> Replaces(w, j) BY <1>14, ShrunkOps
    <3>2. (o[j] # None) = (n[j] # None) /\ (n[j] # None =>
             o[j].store = n[j].store /\ o[j].size = n[j].size /\ o[j].onDisk = n[j].onDisk)
      <4>1. CASE j = k BY <4>1, <1>4, <1>n
      <4>2. CASE j # k BY <4>2, <1>4
      <4>3. QED BY <4>1, <4>2
    <3>3. QED BY <3>1, <3>2, <2>1 DEF TextsOf
  <2>3. QED BY <2>2 DEF TextsOf
<1>17. QED BY <1>1, <1>2, <1>3, <1>8, <1>13, <1>14, <1>15, <1>16

-----------------------------------------------------------------------------
(* The invariant of the cache and its directory. *)

Types ==
    /\ up \in BOOLEAN /\ now \in Nat /\ stores \in Nat
    /\ entries \in Maps /\ bytes \in Int /\ diskBytes \in Int
    /\ meta \in [Keys -> Text \cup {None}] /\ body \in [Keys -> BodyFile \cup {None}]
    /\ work \in Seq(Ops)

\* OverCapForOneOnly, without cardinalities.
Capped(b, m) ==
    b > MaxTotal =>
        \A i, j \in Keys : m[i] # None /\ Loaded(m[i]) /\ m[j] # None /\ Loaded(m[j]) => i = j

\* A store belongs to one URL, in memory and in the directory.
StoresOf(m, t, k) ==
    {i \in Int : (m[k] # None /\ i = m[k].store) \/ (t[k] # None /\ i = t[k].store)}
Apart(m, t, n) ==
    \A k \in Keys : /\ \A i \in StoresOf(m, t, k) : 1 <= i /\ i <= n
                    /\ \A j \in Keys \ {k} : StoresOf(m, t, k) \cap StoresOf(m, t, j) = {}

\* While the browser runs the texts are those of the entries; when it does not
\* there are neither entries nor calls.
CInv ==
    /\ Types /\ SumsAreExact /\ Capped(bytes, entries) /\ Apart(entries, meta, stores)
    /\ Ordered(work) /\ Suits(entries, work)
    /\ up => TextsOf(entries, work, meta, spoilt)
    /\ ~up => work = <<>> /\ Held = {}

LEMMA ApartStays ==
    ASSUME NEW m, NEW t, NEW n, Apart(m, t, n), NEW o, NEW u,
           \A k \in Keys : StoresOf(o, u, k) \subseteq StoresOf(m, t, k)
    PROVE  Apart(o, u, n)
<1>1. ASSUME NEW k \in Keys
      PROVE  /\ \A i \in StoresOf(o, u, k) : 1 <= i /\ i <= n
             /\ \A j \in Keys \ {k} : StoresOf(o, u, k) \cap StoresOf(o, u, j) = {}
  <2>1. /\ \A i \in StoresOf(m, t, k) : 1 <= i /\ i <= n
        /\ \A j \in Keys \ {k} : StoresOf(m, t, k) \cap StoresOf(m, t, j) = {}
    BY DEF Apart
  <2>2. StoresOf(o, u, k) \subseteq StoresOf(m, t, k) OBVIOUS
  <2>3. \A j \in Keys : StoresOf(o, u, j) \subseteq StoresOf(m, t, j) OBVIOUS
  <2>4. QED BY <2>1, <2>2, <2>3
<1>2. QED BY <1>1 DEF Apart

LEMMA StoresFewer ==
    ASSUME NEW m, NEW t, NEW o, NEW k,
           o[k] # None => m[k] # None /\ o[k].store = m[k].store
    PROVE  StoresOf(o, t, k) \subseteq StoresOf(m, t, k)
BY DEF StoresOf

\* The next store, wherever it is put.
LEMMA ApartStores ==
    ASSUME NEW m, NEW t, NEW n \in Nat, Apart(m, t, n), NEW o, NEW k \in Keys,
           o[k].store = n + 1,
           \A j \in Keys \ {k} : o[j] # None => m[j] # None /\ o[j].store = m[j].store
    PROVE  Apart(o, t, n + 1)
<1>1. ASSUME NEW j \in Keys \ {k} PROVE StoresOf(o, t, j) \subseteq StoresOf(m, t, j)
  BY StoresFewer
<1>2. \A i \in StoresOf(o, t, k) : i = n + 1 \/ i \in StoresOf(m, t, k) BY DEF StoresOf
<1>3. \A j \in Keys : \A i \in StoresOf(m, t, j) : i \in Int /\ 1 <= i /\ i <= n BY DEF Apart, StoresOf
<1>4. ASSUME NEW j \in Keys PROVE \A i \in StoresOf(o, t, j) : 1 <= i /\ i <= n + 1
  BY <1>1, <1>2, <1>3
<1>5. ASSUME NEW j \in Keys \ {k}, NEW i \in StoresOf(o, t, j) PROVE i \notin StoresOf(o, t, k)
  <2>1. i \in StoresOf(m, t, j) BY <1>1, <1>5
  <2>2. i # n + 1 BY <2>1, <1>3
  <2>3. i \notin StoresOf(m, t, k) BY <2>1 DEF Apart
  <2>4. QED BY <2>2, <2>3, <1>2
<1>6. ASSUME NEW j \in Keys, NEW l \in Keys \ {j}, NEW i \in StoresOf(o, t, j), i \in StoresOf(o, t, l)
      PROVE  FALSE
  <2>1. CASE j = k BY <2>1, <1>5, <1>6
  <2>2. CASE l = k BY <2>2, <1>5, <1>6
  <2>3. CASE j # k /\ l # k
    <3>1. i \in StoresOf(m, t, j) /\ i \in StoresOf(m, t, l) BY <2>3, <1>1, <1>6
    <3>2. QED BY <3>1, <1>6 DEF Apart
  <2>4. QED BY <2>1, <2>2, <2>3
<1>7. \A j \in Keys : \A l \in Keys \ {j} : StoresOf(o, t, j) \cap StoresOf(o, t, l) = {}
  BY <1>6
<1>8. QED BY <1>4, <1>7 DEF Apart

LEMMA CappedStays ==
    ASSUME NEW b, NEW m, Capped(b, m), NEW c, NEW n, b \in Int, c \in Int, c <= b,
           m \in Maps, \A k \in Keys : Lessened(m[k], n[k])
    PROVE  Capped(c, n)
<1>1. ASSUME NEW k \in Keys, n[k] # None, Loaded(n[k]) PROVE m[k] # None /\ Loaded(m[k])
  <2>1. CASE n[k] = m[k] BY <2>1, <1>1
  <2>2. CASE m[k] \in Entry /\ n[k] = [m[k] EXCEPT !.body = None] BY <2>2, <1>1 DEF Entry, Loaded
  <2>3. QED BY <1>1, <2>1, <2>2 DEF Lessened
<1>2. MaxTotal \in Int BY SizesAssumption DEF SizesAssumption
<1>3. c > MaxTotal => b > MaxTotal BY <1>2
<1>4. QED BY <1>1, <1>3 DEF Capped

LEMMA HeldIs == Held = HeldIn(entries)
BY DEF Held, HeldIn

LEMMA KeptCache ==
    ASSUME CInv
    PROVE  /\ Kept(Cache) /\ Cache.entries = entries /\ Cache.bytes = bytes
           /\ Cache.diskBytes = diskBytes /\ Cache.work = <<>>
<1>1. /\ Cache.entries = entries /\ Cache.bytes = bytes
      /\ Cache.diskBytes = diskBytes /\ Cache.work = <<>>
  BY DEF Cache
<1>2. Cache \in [entries : Maps, bytes : Int, diskBytes : Int, work : Seq(Removal)]
  BY DEF Cache, CInv, Types
<1>3. bytes = CostOf(entries, HeldIn(entries)) /\ diskBytes = DiskCostOf(entries, HeldIn(entries))
  BY HeldIs DEF CInv, SumsAreExact
<1>4. QED BY <1>1, <1>2, <1>3 DEF Kept

LEMMA ShrunkFrom ==
    ASSUME NEW c, NEW d, Kept(c), Kept(d), Shrinks(c, d), c.work = <<>>
    PROVE  Shrunk(c.entries, d.entries, d.work)
<1>1. PICK w : Removals(w, Gone(c.entries, d.entries)) /\ d.work = c.work \o w BY DEF Shrinks
<1>2. w \in Seq(Removal) BY <1>1 DEF Removals
<1>3. d.work = w BY <1>1, <1>2
<1>4. c.entries \in Maps /\ d.entries \in Maps BY DEF Kept
<1>5. \A k \in Keys : Lessened(c.entries[k], d.entries[k]) BY DEF Shrinks
<1>6. QED BY <1>1, <1>3, <1>4, <1>5 DEF Shrunk

\* What a call makes of the cache keeps the invariant.
LEMMA CallKeepsInv ==
    ASSUME CInv, up, UNCHANGED <<up, now, files, spoilt>>, stores' \in Nat,
           NEW n, entries' = n, n \in Maps, bytes' = CostOf(n, HeldIn(n)),
           diskBytes' = DiskCostOf(n, HeldIn(n)),
           Capped(CostOf(n, HeldIn(n)), n), Apart(n, meta, stores'),
           NEW u, work' = u, u \in Seq(Ops), Ordered(u), Suits(n, u), TextsOf(n, u, meta, spoilt)
    PROVE  CInv'
<1>1. bytes' \in Int /\ diskBytes' \in Int
  <2>1. HeldIn(n) \in SUBSET HeldIn(n) OBVIOUS
  <2>2. QED BY <2>1, SumsAreNumbers
<1>2. Types' BY <1>1 DEF CInv, Types, files
<1>3. Held' = HeldIn(n) BY DEF Held, HeldIn
<1>4. SumsAreExact' BY <1>3 DEF SumsAreExact
<1>5. Ordered(work)' /\ Suits(entries, work)'
  <2>1. Ordered(work') /\ Suits(entries', work') OBVIOUS
  <2>2. QED BY <2>1 DEF Ordered, Suits, Writes, IsRemoval, WriteBody, WriteMeta, Loaded
<1>6. TextsOf(entries, work, meta, spoilt)'
  <2>1. TextsOf(entries', work', meta', spoilt') BY DEF files
  <2>2. QED BY <2>1 DEF TextsOf, Replaces
<1>7. up' BY DEF files
<1>8. Capped(bytes, entries)'
  <2>1. Capped(bytes', entries') OBVIOUS
  <2>2. QED BY <2>1 DEF Capped, Loaded
<1>9. Apart(entries, meta, stores)'
  <2>1. Apart(entries', meta', stores') BY DEF files
  <2>2. QED BY <2>1 DEF Apart, StoresOf
<1>10. QED BY <1>2, <1>4, <1>5, <1>6, <1>7, <1>8, <1>9 DEF CInv

\* The entries a lookup works on: those of the cache, the body of k's loaded
\* from its file if it was not.
LoadedFrom(m, k) ==
    \/ m = entries
    \/ /\ k \in Held /\ ~Loaded(entries[k]) /\ Readable(k)
       /\ m = [entries EXCEPT ![k].body = body[k].store]

LEMMA LoadedIs ==
    ASSUME CInv, NEW k, NEW m, LoadedFrom(m, k)
    PROVE  /\ m \in Maps
           /\ \A j \in Keys : (m[j] # None <=> entries[j] # None)
           /\ \A j \in Keys : m[j] # None =>
                /\ m[j].store = entries[j].store /\ m[j].size = entries[j].size
                /\ m[j].onDisk = entries[j].onDisk
<1>1. CASE m = entries BY <1>1 DEF CInv, Types
<1>2. CASE /\ k \in Held /\ ~Loaded(entries[k]) /\ Readable(k)
           /\ m = [entries EXCEPT ![k].body = body[k].store]
  <2>1. entries \in Maps /\ k \in HeldIn(entries) /\ k \in Keys
    BY <1>2, HeldIs DEF CInv, Types, HeldIn
  <2>2. body[k] \in BodyFile BY <1>2, <2>1 DEF CInv, Types, Readable
  <2>3. PICK b \in Nat : b = body[k].store BY <2>2 DEF BodyFile
  <2>4. /\ m \in Maps /\ HeldIn(m) = HeldIn(entries)
        /\ m[k] = [entries[k] EXCEPT !.body = b] /\ \A j \in Keys \ {k} : m[j] = entries[j]
    <3>1. PICK g : g = entries OBVIOUS
    <3>2. g \in Maps /\ k \in HeldIn(g) /\ ~Loaded(g[k]) BY <1>2, <2>1, <3>1
    <3>3. m = BodyIn(g, k, b) BY <1>2, <2>3, <3>1 DEF BodyIn
    <3>4. /\ m \in Maps /\ HeldIn(m) = HeldIn(g)
          /\ m[k] = [g[k] EXCEPT !.body = b] /\ \A j \in Keys \ {k} : m[j] = g[j]
      BY <3>2, <3>3, BodyLoaded
    <3>5. QED BY <3>1, <3>4
  <2>5. entries[k] \in Entry BY <2>1, HeldEntry
  <2>6. m[k].store = entries[k].store /\ m[k].size = entries[k].size /\ m[k].onDisk = entries[k].onDisk
    BY <2>4, <2>5 DEF Entry
  <2>7. \A j \in Keys : (m[j] # None <=> entries[j] # None) BY <2>4 DEF HeldIn
  <2>8. QED BY <2>4, <2>6, <2>7
<1>3. QED BY <1>1, <1>2 DEF LoadedFrom

\* What a call that only loads and shrinks leaves.
LEMMA CallLeaves ==
    ASSUME CInv, up, work = <<>>, NEW k, NEW f, NEW c,
           Kept(f), f.work = <<>>, LoadedFrom(f.entries, k), Kept(c), Shrinks(f, c)
    PROVE  /\ Shrunk(f.entries, c.entries, c.work) /\ TextsOf(f.entries, <<>>, meta, spoilt)
           /\ \A j \in Keys : c.entries[j] # None =>
                 entries[j] # None /\ c.entries[j].store = entries[j].store
           /\ Apart(c.entries, meta, stores)
<1>1. TextsOf(entries, <<>>, meta, spoilt) BY DEF CInv
<1>2. PICK m : m = f.entries OBVIOUS
<1>3. LoadedFrom(m, k) BY <1>2
<1>4. TextsOf(m, <<>>, meta, spoilt) BY <1>1, <1>3, LoadedIs DEF TextsOf
<1>5. Shrunk(m, c.entries, c.work) BY <1>2, ShrunkFrom
<1>6. PICK n : n = c.entries OBVIOUS
<1>7. Shrunk(m, n, c.work) BY <1>5, <1>6
<1>8. ASSUME NEW j \in Keys, n[j] # None PROVE entries[j] # None /\ n[j].store = entries[j].store
  BY <1>3, <1>7, <1>8, LoadedIs, LessenedIs
<1>9. \A j \in Keys : StoresOf(n, meta, j) \subseteq StoresOf(entries, meta, j) BY <1>8, StoresFewer
<1>10. Apart(n, meta, stores) BY <1>9, ApartStays DEF CInv
<1>11. QED BY <1>2, <1>4, <1>6, <1>7, <1>8, <1>10

\* A call that ends there keeps the invariant.
LEMMA CallEnds ==
    ASSUME CInv, up, work = <<>>, UNCHANGED <<up, now, files, stores, spoilt>>, NEW k, NEW f, NEW c,
           Kept(f), f.work = <<>>, LoadedFrom(f.entries, k), Kept(c), Shrinks(f, c),
           Capped(c.bytes, c.entries), Becomes(c)
    PROVE  CInv'
<1>1. PICK m : m = f.entries OBVIOUS
<1>2. PICK n : n = c.entries OBVIOUS
<1>3. PICK w : w = c.work OBVIOUS
<1>4. Shrunk(m, n, w) /\ TextsOf(m, <<>>, meta, spoilt) /\ Apart(n, meta, stores)
  BY <1>1, <1>2, <1>3, CallLeaves
<1>5. Ordered(w) /\ Suits(n, w) /\ TextsOf(n, w, meta, spoilt) BY <1>4, CallShrinks
<1>6. w \in Seq(Ops) BY <1>4, ShrunkOps
<1>7. n \in Maps BY <1>4 DEF Shrunk
<1>8. /\ entries' = n /\ work' = w /\ bytes' = CostOf(n, HeldIn(n))
      /\ diskBytes' = DiskCostOf(n, HeldIn(n)) /\ c.bytes = CostOf(n, HeldIn(n))
  BY <1>2, <1>3 DEF Becomes, Kept
<1>9. Capped(CostOf(n, HeldIn(n)), n) BY <1>2, <1>8
<1>10. stores' \in Nat /\ stores' = stores BY DEF CInv, Types
<1>11. Apart(n, meta, stores') BY <1>4, <1>10
<1>12. UNCHANGED <<up, now, files, spoilt>> OBVIOUS
<1>13. QED BY <1>5, <1>6, <1>7, <1>8, <1>9, <1>10, <1>11, <1>12, CallKeepsInv

LEMMA FoundIs ==
    ASSUME CInv, work = <<>>, NEW k \in Held, NEW c \in Found(k)
    PROVE  /\ Kept(c) /\ Capped(c.bytes, c.entries)
           /\ \E f : /\ Kept(f) /\ f.work = <<>> /\ LoadedFrom(f.entries, k) /\ Shrinks(f, c)
                     /\ c.entries[k] # None => c.entries[k] = f.entries[k] /\ Loaded(c.entries[k])
<1>1. k \in Keys /\ k \in HeldIn(entries) /\ entries \in Maps BY HeldIs DEF HeldIn, CInv, Types
<1>2. /\ Kept(Cache) /\ Cache.entries = entries /\ Cache.bytes = bytes
      /\ Cache.diskBytes = diskBytes /\ Cache.work = <<>>
  BY KeptCache
<1>3. CASE Loaded(entries[k])
  <2>1. c = Cache BY <1>3 DEF Found
  <2>2. Shrinks(Cache, c) BY <2>1, <1>2, ShrinksNot
  <2>3. LoadedFrom(Cache.entries, k) BY <1>2 DEF LoadedFrom
  <2>4. Capped(bytes, entries) BY DEF CInv
  <2>5. QED BY <2>1, <2>2, <2>3, <2>4, <1>2, <1>3
<1>4. CASE ~Loaded(entries[k]) /\ ~Readable(k)
  <2>1. c = Drop(Cache, {k}) BY <1>4 DEF Found
  <2>2. {k} \in SUBSET HeldIn(Cache.entries) BY <1>1, <1>2
  <2>3. Kept(c) /\ Shrinks(Cache, c) /\ c.entries = Emptied(entries, {k}) BY <2>1, <2>2, <1>2, DropKeeps
  <2>4. LoadedFrom(Cache.entries, k) BY <1>2 DEF LoadedFrom
  <2>5. c.entries[k] = None BY <2>3, <1>1 DEF Emptied
  <2>6. c.bytes <= bytes /\ c.bytes \in Int /\ bytes \in Int BY <2>3, <1>2 DEF Shrinks, Kept
  <2>7. \A j \in Keys : Lessened(entries[j], c.entries[j]) BY <2>3, <1>2 DEF Shrinks
  <2>8. Capped(c.bytes, c.entries)
    <3>1. Capped(bytes, entries) BY DEF CInv
    <3>2. QED BY <3>1, <2>6, <2>7, <1>1, CappedStays
  <2>9. QED BY <2>3, <2>4, <2>5, <2>8, <1>2
<1>5. CASE ~Loaded(entries[k]) /\ Readable(k)
  <2>1. body[k] \in BodyFile BY <1>1, <1>5 DEF CInv, Types, Readable
  <2>2. PICK b \in Nat : b = body[k].store BY <2>1 DEF BodyFile
  <2>3. PICK m : m = [entries EXCEPT ![k].body = b] OBVIOUS
  <2>4. /\ m \in Maps /\ HeldIn(m) = HeldIn(entries)
        /\ m[k] = [entries[k] EXCEPT !.body = b] /\ \A j \in Keys \ {k} : m[j] = entries[j]
        /\ CostOf(m, HeldIn(m)) = CostOf(entries, HeldIn(entries)) + entries[k].size
        /\ DiskCostOf(m, HeldIn(m)) = DiskCostOf(entries, HeldIn(entries))
    <3>1. PICK g : g = entries OBVIOUS
    <3>2. g \in Maps /\ k \in HeldIn(g) /\ ~Loaded(g[k]) BY <1>1, <1>5, <3>1
    <3>3. m = BodyIn(g, k, b) BY <2>3, <3>1 DEF BodyIn
    <3>4. /\ m \in Maps /\ HeldIn(m) = HeldIn(g)
          /\ m[k] = [g[k] EXCEPT !.body = b] /\ \A j \in Keys \ {k} : m[j] = g[j]
          /\ CostOf(m, HeldIn(m)) = CostOf(g, HeldIn(g)) + g[k].size
          /\ DiskCostOf(m, HeldIn(m)) = DiskCostOf(g, HeldIn(g))
      BY <3>2, <3>3, BodyLoaded
    <3>5. QED BY <3>1, <3>4
  <2>5. PICK f : f = [entries |-> m, bytes |-> bytes + entries[k].size,
                      diskBytes |-> diskBytes, work |-> <<>>]
    OBVIOUS
  <2>6. c \in EvictToFit(f, 0, {k})
    <3>1. PICK g : g = [Cache EXCEPT !.entries[k].body = body[k].store, !.bytes = @ + entries[k].size]
      OBVIOUS
    <3>2. c \in EvictToFit(g, 0, {k}) BY <3>1, <1>5 DEF Found, WithBody
    <3>3. g.entries = m
      <4>1. g.entries = [entries EXCEPT ![k].body = body[k].store] BY <3>1 DEF Cache
      <4>2. QED BY <4>1, <2>2, <2>3
    <3>4. g.bytes = bytes + entries[k].size /\ g.diskBytes = diskBytes /\ g.work = <<>>
      BY <3>1 DEF Cache
    <3>5. g = [entries |-> g.entries, bytes |-> g.bytes, diskBytes |-> g.diskBytes, work |-> g.work]
      BY <3>1 DEF Cache
    <3>6. g = f BY <2>5, <3>3, <3>4, <3>5
    <3>7. QED BY <3>2, <3>6
  <2>7. entries[k] \in Entry BY <1>1, HeldEntry
  <2>8. entries[k].size \in Nat BY <2>7, EntryCosts
  <2>9. /\ f.entries = m /\ f.bytes = bytes + entries[k].size /\ f.diskBytes = diskBytes
        /\ f.work = <<>>
    BY <2>5
  <2>10. bytes = CostOf(entries, HeldIn(entries)) /\ diskBytes = DiskCostOf(entries, HeldIn(entries))
         /\ bytes \in Int /\ diskBytes \in Int
    BY <1>2 DEF Kept
  <2>11. Kept(f)
    <3>1. bytes + entries[k].size \in Int BY <2>8, <2>10
    <3>2. f \in [entries : Maps, bytes : Int, diskBytes : Int, work : Seq(Removal)]
      BY <3>1, <2>4, <2>5, <2>10
    <3>3. QED BY <3>2, <2>4, <2>9, <2>10 DEF Kept
  <2>12. /\ Kept(c) /\ Shrinks(f, c) /\ c.entries[k] = f.entries[k]
         /\ \/ c.bytes + 0 <= MaxTotal
            \/ \A j \in HeldIn(c.entries) \ {k} : ~Loaded(c.entries[j])
    <3>1. {k} \in SUBSET Keys /\ 0 \in Nat BY <1>1
    <3>2. QED BY <3>1, <2>6, <2>11, EvictionKeeps
  <2>14. c.entries[k] = f.entries[k] /\ Loaded(c.entries[k])
    <3>1. m[k].body = b BY <2>4, <2>7 DEF Entry
    <3>2. b # None BY NothingAssumption DEF NothingAssumption
    <3>3. QED BY <3>1, <3>2, <2>9, <2>12 DEF Loaded
  <2>15. Capped(c.bytes, c.entries)
    <3>1. c.bytes \in Int /\ MaxTotal \in Int BY <2>12, SizesAssumption DEF Kept, SizesAssumption
    <3>2. CASE c.bytes + 0 <= MaxTotal BY <3>1, <3>2 DEF Capped
    <3>3. CASE \A j \in HeldIn(c.entries) \ {k} : ~Loaded(c.entries[j])
      BY <3>3 DEF Capped, HeldIn
    <3>4. QED BY <2>12, <3>2, <3>3
  <2>16. LoadedFrom(f.entries, k) BY <1>5, <2>2, <2>3, <2>9 DEF LoadedFrom
  <2>17. QED BY <2>9, <2>11, <2>12, <2>14, <2>15, <2>16
<1>6. QED BY <1>3, <1>4, <1>5

LEMMA LookupStep ==
    ASSUME CInv, NEW k \in Keys, Lookup(k)
    PROVE  CInv'
<1>1. PICK c \in Found(k) : Becomes(c) BY DEF Lookup
<1>2. k \in Held /\ up /\ work = <<>> /\ UNCHANGED <<up, now, files, stores, spoilt>> BY DEF Lookup, Free
<1>3. Kept(c) /\ Capped(c.bytes, c.entries) BY <1>1, <1>2, FoundIs
<1>4. PICK f : Kept(f) /\ f.work = <<>> /\ LoadedFrom(f.entries, k) /\ Shrinks(f, c)
  BY <1>1, <1>2, FoundIs
<1>5. QED BY <1>1, <1>2, <1>3, <1>4, CallEnds

LEMMA LifeIs ==
    ASSUME NEW life \in Lives, FreshUntil(life) # None, now \in Nat
    PROVE  FreshUntil(life) \in Nat
<1>1. life # NoStore /\ FreshUntil(life) = now + life BY DEF FreshUntil
<1>2. life \in Nat
  <2>1. PICK r \in Responses : life = r.life BY <1>1 DEF Lives
  <2>2. r \in [size : Nat, life : Nat \cup {NoStore}, validator : BOOLEAN]
    BY SizesAssumption DEF SizesAssumption
  <2>3. QED BY <2>1, <2>2, <1>1
<1>3. QED BY <1>1, <1>2

LEMMA RenewedIs ==
    ASSUME NEW e \in Entry, NEW life \in Lives, FreshUntil(life) # None, now \in Nat,
           NEW validator \in BOOLEAN
    PROVE  /\ Renewed(e, life, validator) \in Entry
           /\ Renewed(e, life, validator).store = e.store
           /\ Renewed(e, life, validator).size = e.size
           /\ Renewed(e, life, validator).body = e.body
           /\ Renewed(e, life, validator).onDisk = e.onDisk
<1>1. PICK t \in Nat : t = FreshUntil(life) BY LifeIs
<1>2. e.validator \/ validator \in BOOLEAN OBVIOUS
<1>3. PICK v \in BOOLEAN : v = (e.validator \/ validator) BY <1>2
<1>4. Renewed(e, life, validator) = [e EXCEPT !.freshUntil = t, !.at = now, !.validator = v]
  BY <1>1, <1>3 DEF Renewed
<1>5. QED BY <1>4 DEF Entry

LEMMA RefreshStep ==
    ASSUME CInv, NEW k \in Keys, NEW life \in Lives, NEW validator \in BOOLEAN,
           Refresh(k, life, validator)
    PROVE  CInv'
<1>1. PICK c \in Found(k) :
         IF c.entries[k] = None \/ FreshUntil(life) = None
           THEN Becomes(IF c.entries[k] = None THEN c ELSE Drop(c, {k}))
           ELSE LET e == Renewed(c.entries[k], life, validator) IN
                Becomes([c EXCEPT !.entries[k] = e, !.work = Append(@, WriteMeta(k, e))])
  BY DEF Refresh
<1>2. k \in Held /\ up /\ work = <<>> /\ UNCHANGED <<up, now, files, stores, spoilt>> BY DEF Refresh, Free
<1>3. Kept(c) /\ Capped(c.bytes, c.entries) BY <1>1, <1>2, FoundIs
<1>4. PICK f : Kept(f) /\ f.work = <<>> /\ LoadedFrom(f.entries, k) /\ Shrinks(f, c)
  BY <1>1, <1>2, FoundIs
<1>5. CASE c.entries[k] = None
  <2>1. Becomes(c) BY <1>1, <1>5
  <2>2. QED BY <2>1, <1>2, <1>3, <1>4, CallEnds
<1>6. CASE c.entries[k] # None /\ FreshUntil(life) = None
  <2>1. PICK d : d = Drop(c, {k}) OBVIOUS
  <2>2. Becomes(d) BY <1>1, <1>6, <2>1
  <2>3. {k} \in SUBSET HeldIn(c.entries) BY <1>6 DEF HeldIn
  <2>4. Kept(d) /\ Shrinks(c, d) BY <2>1, <2>3, <1>3, DropKeeps
  <2>5. Shrinks(f, d) BY <2>4, <1>3, <1>4, ShrinksTwice
  <2>6. Capped(d.bytes, d.entries)
    <3>1. d.bytes \in Int /\ c.bytes \in Int /\ c.entries \in Maps BY <2>4, <1>3 DEF Kept
    <3>2. d.bytes <= c.bytes /\ \A j \in Keys : Lessened(c.entries[j], d.entries[j])
      BY <2>4 DEF Shrinks
    <3>3. QED BY <3>1, <3>2, <1>3, CappedStays
  <2>7. QED BY <2>2, <2>4, <2>5, <2>6, <1>2, <1>4, CallEnds
<1>7. CASE c.entries[k] # None /\ FreshUntil(life) # None
  <2>1. PICK n : n = c.entries OBVIOUS
  <2>2. PICK w : w = c.work OBVIOUS
  <2>3. PICK e : e = Renewed(n[k], life, validator) OBVIOUS
  <2>4. n \in Maps /\ k \in HeldIn(n) /\ n[k] # None /\ n[k] \in Entry
    <3>1. n \in Maps /\ k \in HeldIn(n) /\ n[k] # None BY <2>1, <1>3, <1>7 DEF Kept, HeldIn
    <3>2. QED BY <3>1, HeldEntry
  <2>5. /\ e \in Entry /\ e.store = n[k].store /\ e.size = n[k].size /\ e.body = n[k].body
        /\ e.onDisk = n[k].onDisk
    <3>1. now \in Nat BY DEF CInv, Types
    <3>2. QED BY <3>1, <2>3, <2>4, <1>7, RenewedIs
  <2>6. PICK o : o = Put(n, k, e) OBVIOUS
  <2>7. PICK u : u = ThenText(w, k, e) OBVIOUS
  <2>8. entries' = o /\ work' = u /\ bytes' = c.bytes /\ diskBytes' = c.diskBytes
    <3>1. PICK d : d = [c EXCEPT !.entries[k] = e, !.work = Append(@, WriteMeta(k, e))] OBVIOUS
    <3>2. Becomes(d) BY <3>1, <1>1, <1>7, <2>1, <2>3
    <3>3. d.entries = [n EXCEPT ![k] = e] /\ d.work = u /\ d.bytes = c.bytes /\ d.diskBytes = c.diskBytes
      BY <3>1, <2>1, <2>2, <2>7, <1>3 DEF Kept, ThenText
    <3>4. QED BY <3>2, <3>3, <2>6 DEF Becomes, Put
  <2>9. PICK m : m = f.entries OBVIOUS
  <2>10. /\ Shrunk(m, n, w) /\ TextsOf(m, <<>>, meta, spoilt) /\ Apart(n, meta, stores)
    BY <2>1, <2>2, <2>9, <1>2, <1>3, <1>4, CallLeaves
  <2>11. u \in Seq(Ops) /\ Ordered(u) /\ Suits(o, u) /\ TextsOf(o, u, meta, spoilt)
    BY <2>4, <2>5, <2>6, <2>7, <2>10, CallRenews
  <2>12. /\ o \in Maps /\ o[k] = e /\ HeldIn(o) = HeldIn(n)
         /\ CostOf(o, HeldIn(o)) = CostOf(n, HeldIn(n))
         /\ DiskCostOf(o, HeldIn(o)) = DiskCostOf(n, HeldIn(n))
    BY <2>4, <2>5, <2>6, EntryRenewed
  <2>13. c.bytes = CostOf(n, HeldIn(n)) /\ c.diskBytes = DiskCostOf(n, HeldIn(n))
    BY <2>1, <1>3 DEF Kept
  <2>14. bytes' = CostOf(o, HeldIn(o)) /\ diskBytes' = DiskCostOf(o, HeldIn(o))
    BY <2>8, <2>12, <2>13
  <2>15. \A j \in Keys \ {k} : o[j] = n[j] BY <2>4, <2>6 DEF Put, Maps
  <2>16. Capped(CostOf(o, HeldIn(o)), o)
    <3>1. ASSUME NEW j \in Keys, o[j] # None, Loaded(o[j]) PROVE n[j] # None /\ Loaded(n[j])
      BY <3>1, <2>4, <2>5, <2>12, <2>15 DEF Loaded
    <3>2. Capped(c.bytes, n) BY <2>1, <1>3
    <3>3. QED BY <3>1, <3>2, <2>12, <2>13 DEF Capped
  <2>17. Apart(o, meta, stores')
    <3>1. \A j \in Keys : o[j] # None => n[j] # None /\ o[j].store = n[j].store
      BY <2>4, <2>5, <2>12, <2>15
    <3>2. \A j \in Keys : StoresOf(o, meta, j) \subseteq StoresOf(n, meta, j) BY <3>1, StoresFewer
    <3>3. stores' = stores BY <1>2
    <3>4. QED BY <3>2, <3>3, <2>10, ApartStays
  <2>18. stores' \in Nat /\ UNCHANGED <<up, now, files, spoilt>> BY <1>2 DEF CInv, Types
  <2>19. QED BY <1>2, <2>8, <2>11, <2>12, <2>14, <2>16, <2>17, <2>18, CallKeepsInv
<1>8. QED BY <1>5, <1>6, <1>7

\* What an eviction from the disk takes depends on the entries and their sum
\* there, not on what memory holds.
LEMMA DiskEvictionTakes ==
    ASSUME NEW c, NEW incoming \in Nat, NEW d \in EvictDiskToFit(c, incoming)
    PROVE  \E ks \in SUBSET OnDisk(c.entries, HeldIn(c.entries)) :
              /\ d = Drop(c, ks)
              /\ ks = OnDisk(c.entries, HeldIn(c.entries)) \/ DiskRoomFor(c, incoming, ks)
<1>1. PICK from : from = OnDisk(c.entries, HeldIn(c.entries)) OBVIOUS
<1>2. PICK ks \in Taken(c, from, {s \in SUBSET from : DiskRoomFor(c, incoming, s)}) : d = Drop(c, ks)
  BY <1>1 DEF EvictDiskToFit, In, HeldIn
<1>3. ks \in SUBSET from /\ (ks = from \/ DiskRoomFor(c, incoming, ks)) BY <1>2 DEF Taken
<1>4. QED BY <1>1, <1>2, <1>3

\* Room made on disk once the newcomer has been counted in memory.
LEMMA DiskEvictionShifted ==
    ASSUME NEW c, Kept(c), NEW x \in Nat, NEW incoming \in Nat,
           NEW d \in EvictDiskToFit([c EXCEPT !.bytes = @ + x], incoming)
    PROVE  \E g : /\ Kept(g) /\ Shrinks(c, g)
                  /\ g.diskBytes + incoming <= MaxDisk \/ g.diskBytes = 0
                  /\ d = [g EXCEPT !.bytes = @ + x]
<1>1. PICK b : b = [c EXCEPT !.bytes = @ + x] OBVIOUS
<1>2. /\ b.entries = c.entries /\ b.diskBytes = c.diskBytes /\ b.work = c.work /\ b.bytes = c.bytes + x
      /\ c.bytes \in Int
  BY <1>1 DEF Kept
<1>3. PICK ks \in SUBSET OnDisk(c.entries, HeldIn(c.entries)) :
         /\ d = Drop(b, ks)
         /\ ks = OnDisk(c.entries, HeldIn(c.entries)) \/ DiskRoomFor(b, incoming, ks)
  BY <1>1, <1>2, DiskEvictionTakes
<1>4. PICK m : m = c.entries OBVIOUS
<1>5. ks \in SUBSET HeldIn(m) BY <1>3, <1>4 DEF OnDisk
<1>6. PICK g : g = Drop(c, ks) OBVIOUS
<1>7. /\ Kept(g) /\ Shrinks(c, g) /\ g.diskBytes = c.diskBytes - DiskCostOf(m, ks)
  BY <1>4, <1>5, <1>6, DropKeeps
<1>8. g.diskBytes + incoming <= MaxDisk \/ g.diskBytes = 0
  <2>1. ASSUME DiskRoomFor(b, incoming, ks) PROVE g.diskBytes + incoming <= MaxDisk
    BY <2>1, <1>2, <1>4, <1>7 DEF DiskRoomFor
  <2>2. ASSUME ks = OnDisk(m, HeldIn(m)) PROVE g.diskBytes = 0
    <3>1. OnDisk(m, ks) = ks BY <2>2 DEF OnDisk
    <3>2. DiskCostOf(m, ks) = DiskCostOf(m, HeldIn(m)) BY <2>2, <3>1 DEF DiskCostOf
    <3>3. c.diskBytes \in Int /\ c.diskBytes = DiskCostOf(m, HeldIn(m)) BY <1>4 DEF Kept
    <3>4. QED BY <3>2, <3>3, <1>7
  <2>3. QED BY <1>3, <1>4, <2>1, <2>2
<1>9. d = [g EXCEPT !.bytes = @ + x]
  <2>1. FilesOf(b, ks) = FilesOf(c, ks) BY <1>2 DEF FilesOf
  <2>2. PICK y : y = CostOf(m, ks) OBVIOUS
  <2>3. y \in Nat BY <2>2, <1>4, <1>5, SumsAreNumbers DEF Kept
  <2>4. PICK n : n = Emptied(m, ks) OBVIOUS
  <2>5. PICK v : v = c.work \o FilesOf(c, ks) OBVIOUS
  <2>6. PICK z : z = c.diskBytes - DiskCostOf(m, ks) OBVIOUS
  <2>7. d = [entries |-> n, bytes |-> (c.bytes + x) - y, diskBytes |-> z, work |-> v]
    BY <1>2, <1>3, <1>4, <2>1, <2>2, <2>4, <2>5, <2>6 DEF Drop, Emptied, DiskBytesWithout
  <2>8. g = [entries |-> n, bytes |-> c.bytes - y, diskBytes |-> z, work |-> v]
    BY <1>4, <1>6, <2>2, <2>4, <2>5, <2>6 DEF Drop, Emptied, DiskBytesWithout
  <2>9. (c.bytes + x) - y = (c.bytes - y) + x BY <1>2, <2>3
  <2>10. [g EXCEPT !.bytes = @ + x] =
           [entries |-> n, bytes |-> (c.bytes - y) + x, diskBytes |-> z, work |-> v]
    BY <2>8
  <2>11. QED BY <2>7, <2>9, <2>10
<1>10. QED BY <1>7, <1>8, <1>9

\* What a store comes to: the entry e put into a cache g that has room for it.
StoresAs(k, e, g) ==
    /\ Kept(g) /\ Shrinks(Cache, g) /\ g.entries[k] = None
    /\ e \in Entry /\ e.store = stores + 1 /\ e.body = stores + 1 /\ ~e.onDisk
    /\ g.diskBytes + e.size <= MaxDisk
    /\ g.bytes + Cost(e) <= MaxTotal \/ \A j \in HeldIn(g.entries) : ~Loaded(g.entries[j])
    /\ entries' = Put(g.entries, k, e) /\ work' = ThenBoth(g.work, k, e)
    /\ bytes' = g.bytes + Cost(e) /\ diskBytes' = g.diskBytes
    /\ stores' = stores + 1 /\ UNCHANGED <<up, now, files, spoilt>>

LEMMA StoreIs ==
    ASSUME CInv, NEW k \in Keys, NEW r \in Responses, Store(k, r)
    PROVE  \E e, g : StoresAs(k, e, g)
<1> DEFINE newest == [store |-> stores + 1, size |-> r.size, at |-> now,
                      freshUntil |-> FreshUntil(r.life), validator |-> r.validator,
                      body |-> stores + 1, onDisk |-> FALSE]
           cleared == IF k \in Held THEN Drop(Cache, {k}) ELSE Cache
<1>1. PICK e : e = newest OBVIOUS
<1>2. PICK a : a = cleared OBVIOUS
<1>3. \E c \in EvictToFit(a, Cost(e), {}) :
         \E d \in EvictDiskToFit([c EXCEPT !.bytes = @ + Cost(e)], e.size) :
            Becomes([d EXCEPT !.entries[k] = e, !.work = @ \o BodyFirst(k, e)])
  <2>1. \E c \in EvictToFit(cleared, Cost(newest), {}) :
           \E d \in EvictDiskToFit([c EXCEPT !.bytes = @ + Cost(newest)], newest.size) :
              Becomes([d EXCEPT !.entries[k] = newest, !.work = @ \o BodyFirst(k, newest)])
    BY DEF Store
  <2>2. QED BY <2>1, <1>1, <1>2
<1>4. e \in Entry /\ e.store = stores + 1 /\ e.body = stores + 1 /\ ~e.onDisk /\ e.size = r.size
  <2>1. FreshUntil(r.life) # None BY DEF Store, Storable
  <2>2. r.life \in Lives BY DEF Lives
  <2>3. now \in Nat /\ stores \in Nat BY DEF CInv, Types
  <2>4. FreshUntil(r.life) \in Nat BY <2>1, <2>2, <2>3, LifeIs
  <2>5. r.size \in Nat /\ r.validator \in BOOLEAN
    <3>1. r \in [size : Nat, life : Nat \cup {NoStore}, validator : BOOLEAN]
      BY SizesAssumption DEF SizesAssumption
    <3>2. QED BY <3>1
  <2>6. QED BY <2>3, <2>4, <2>5, <1>1 DEF Entry
<1>5. Cost(e) \in Nat /\ e.size \in Nat BY <1>4, EntryCosts
<1> HIDE DEF newest
<1>6. Kept(Cache) BY KeptCache
<1>7. Kept(a) /\ Shrinks(Cache, a) /\ a.entries[k] = None
  <2>1. CASE k \in Held
    <3>1. a = Drop(Cache, {k}) BY <2>1, <1>2
    <3>2. {k} \in SUBSET HeldIn(Cache.entries) BY <2>1, KeptCache, HeldIs
    <3>3. Kept(a) /\ Shrinks(Cache, a) /\ a.entries = Emptied(Cache.entries, {k})
      BY <3>1, <3>2, <1>6, DropKeeps
    <3>4. QED BY <3>3 DEF Emptied
  <2>2. CASE k \notin Held
    <3>1. a = Cache BY <2>2, <1>2
    <3>2. Shrinks(Cache, a) BY <3>1, <1>6, ShrinksNot
    <3>3. a.entries[k] = None BY <3>1, <2>2, KeptCache DEF Held
    <3>4. QED BY <3>1, <3>2, <3>3, <1>6
  <2>3. QED BY <2>1, <2>2
<1> HIDE DEF cleared
<1>8. PICK c \in EvictToFit(a, Cost(e), {}) :
         \E d \in EvictDiskToFit([c EXCEPT !.bytes = @ + Cost(e)], e.size) :
            Becomes([d EXCEPT !.entries[k] = e, !.work = @ \o BodyFirst(k, e)])
  BY <1>3
<1>9. /\ Kept(c) /\ Shrinks(a, c)
      /\ c.bytes + Cost(e) <= MaxTotal \/ \A j \in HeldIn(c.entries) : ~Loaded(c.entries[j])
  <2>1. {} \in SUBSET Keys OBVIOUS
  <2>2. /\ Kept(c) /\ Shrinks(a, c)
        /\ c.bytes + Cost(e) <= MaxTotal \/ \A j \in HeldIn(c.entries) \ {} : ~Loaded(c.entries[j])
    BY <2>1, <1>5, <1>7, <1>8, EvictionKeeps
  <2>3. QED BY <2>2
<1>10. PICK d \in EvictDiskToFit([c EXCEPT !.bytes = @ + Cost(e)], e.size) :
          Becomes([d EXCEPT !.entries[k] = e, !.work = @ \o BodyFirst(k, e)])
  BY <1>8
<1>11. PICK x \in Nat : x = Cost(e) BY <1>5
<1>12. PICK g : /\ Kept(g) /\ Shrinks(c, g)
                /\ g.diskBytes + e.size <= MaxDisk \/ g.diskBytes = 0
                /\ d = [g EXCEPT !.bytes = @ + x]
  <2>1. d \in EvictDiskToFit([c EXCEPT !.bytes = @ + x], e.size) BY <1>11
  <2>2. QED BY <2>1, <1>5, <1>9, DiskEvictionShifted
<1>13. Shrinks(Cache, g)
  <2>1. Shrinks(Cache, c) BY <1>6, <1>7, <1>9, ShrinksTwice
  <2>2. QED BY <2>1, <1>6, <1>9, <1>12, ShrinksTwice
<1>14. g.entries[k] = None
  <2>1. Lessened(a.entries[k], c.entries[k]) /\ Lessened(c.entries[k], g.entries[k])
    BY <1>9, <1>12 DEF Shrinks
  <2>2. None \notin Entry BY NothingAssumption DEF NothingAssumption
  <2>3. c.entries[k] = None BY <2>1, <2>2, <1>7 DEF Lessened
  <2>4. QED BY <2>1, <2>2, <2>3 DEF Lessened
<1>15. g.diskBytes + e.size <= MaxDisk
  <2>1. 1 + r.size <= MaxEntry BY DEF Store, Storable
  <2>2. MaxEntry <= MaxDisk /\ MaxEntry \in Nat /\ MaxDisk \in Nat
    BY SizesAssumption DEF SizesAssumption
  <2>3. e.size <= MaxDisk BY <2>1, <2>2, <1>4, <1>5
  <2>4. QED BY <2>3, <1>5, <1>12
<1>16. g.bytes + Cost(e) <= MaxTotal \/ \A j \in HeldIn(g.entries) : ~Loaded(g.entries[j])
  <2>1. ASSUME c.bytes + Cost(e) <= MaxTotal PROVE g.bytes + Cost(e) <= MaxTotal
    <3>1. g.bytes <= c.bytes BY <1>12 DEF Shrinks
    <3>2. g.bytes \in Int /\ c.bytes \in Int BY <1>9, <1>12 DEF Kept
    <3>3. MaxTotal \in Int BY SizesAssumption DEF SizesAssumption
    <3>4. QED BY <2>1, <3>1, <3>2, <3>3, <1>5
  <2>2. ASSUME \A j \in HeldIn(c.entries) : ~Loaded(c.entries[j]),
               NEW j \in HeldIn(g.entries)
        PROVE  ~Loaded(g.entries[j])
    <3>1. PICK p : p = c.entries[j] OBVIOUS
    <3>2. PICK q : q = g.entries[j] OBVIOUS
    <3>3. Lessened(p, q) /\ q # None BY <3>1, <3>2, <2>2, <1>12 DEF Shrinks, HeldIn
    <3>4. CASE q = p
      <4>1. j \in HeldIn(c.entries) BY <3>1, <3>3, <3>4, <2>2 DEF HeldIn
      <4>2. QED BY <4>1, <3>1, <3>2, <3>4, <2>2
    <3>5. CASE p \in Entry /\ q = [p EXCEPT !.body = None]
      <4>1. q.body = None BY <3>5 DEF Entry
      <4>2. QED BY <4>1, <3>2 DEF Loaded
    <3>6. QED BY <3>3, <3>4, <3>5 DEF Lessened
  <2>3. QED BY <1>9, <2>1, <2>2
<1>17. /\ entries' = Put(g.entries, k, e) /\ work' = ThenBoth(g.work, k, e)
       /\ bytes' = g.bytes + Cost(e) /\ diskBytes' = g.diskBytes
  <2>1. PICK h : h = [d EXCEPT !.entries[k] = e, !.work = @ \o BodyFirst(k, e)] OBVIOUS
  <2>2. Becomes(h) BY <2>1, <1>10
  <2>3. d.entries = g.entries /\ d.work = g.work /\ d.bytes = g.bytes + x /\ d.diskBytes = g.diskBytes
    BY <1>12 DEF Kept
  <2>4. d = [entries |-> d.entries, bytes |-> d.bytes, diskBytes |-> d.diskBytes, work |-> d.work]
    BY <1>12 DEF Kept
  <2>5. /\ h.entries = [d.entries EXCEPT ![k] = e] /\ h.work = d.work \o BodyFirst(k, e)
        /\ h.bytes = d.bytes /\ h.diskBytes = d.diskBytes
    BY <2>1, <2>4
  <2>6. QED BY <2>2, <2>3, <2>5, <1>11 DEF Becomes, Put, ThenBoth
<1>18. stores' = stores + 1 /\ UNCHANGED <<up, now, files, spoilt>> BY DEF Store
<1>19. StoresAs(k, e, g)
  BY <1>4, <1>12, <1>13, <1>14, <1>15, <1>16, <1>17, <1>18 DEF StoresAs
<1>20. QED BY <1>19

LEMMA StoreStep ==
    ASSUME CInv, NEW k \in Keys, NEW r \in Responses, Store(k, r)
    PROVE  CInv'
<1>1. PICK e, g : StoresAs(k, e, g) BY StoreIs
<1>2. up /\ work = <<>> BY DEF Store, Free
<1>3. PICK n : n = g.entries OBVIOUS
<1>4. PICK w : w = g.work OBVIOUS
<1>5. PICK o : o = Put(n, k, e) OBVIOUS
<1>6. PICK u : u = ThenBoth(w, k, e) OBVIOUS
<1>7. e \in Entry /\ ~e.onDisk /\ Loaded(e) /\ e.store = stores + 1
  <2>1. stores + 1 \in Nat BY DEF CInv, Types
  <2>2. e.body # None BY <2>1, <1>1, NothingAssumption DEF StoresAs, NothingAssumption
  <2>3. QED BY <2>2, <1>1 DEF StoresAs, Loaded
<1>8. Cost(e) \in Nat BY <1>7, EntryCosts
<1>9. /\ n \in Maps /\ n[k] = None /\ g.bytes = CostOf(n, HeldIn(n))
      /\ g.diskBytes = DiskCostOf(n, HeldIn(n)) /\ g.bytes \in Int
  BY <1>1, <1>3 DEF StoresAs, Kept
<1>10. PICK m : m = entries OBVIOUS
<1>11. /\ Shrunk(m, n, w) /\ TextsOf(m, <<>>, meta, spoilt)
       /\ \A j \in Keys : n[j] # None => m[j] # None /\ n[j].store = m[j].store
  <2>1. Kept(Cache) /\ Cache.work = <<>> /\ Cache.entries = entries BY KeptCache
  <2>2. LoadedFrom(Cache.entries, k) BY <2>1 DEF LoadedFrom
  <2>3. Kept(g) /\ Shrinks(Cache, g) BY <1>1 DEF StoresAs
  <2>4. QED BY <2>1, <2>2, <2>3, <1>2, <1>3, <1>4, <1>10, CallLeaves
<1>12. u \in Seq(Ops) /\ Ordered(u) /\ Suits(o, u) /\ TextsOf(o, u, meta, spoilt)
  BY <1>5, <1>6, <1>7, <1>9, <1>11, CallStores
<1>13. /\ o \in Maps /\ o[k] = e
       /\ CostOf(o, HeldIn(o)) = CostOf(n, HeldIn(n)) + Cost(e)
       /\ DiskCostOf(o, HeldIn(o)) = DiskCostOf(n, HeldIn(n))
  BY <1>5, <1>7, <1>9, EntryComes
<1>14. /\ entries' = o /\ work' = u /\ bytes' = CostOf(o, HeldIn(o))
       /\ diskBytes' = DiskCostOf(o, HeldIn(o))
  BY <1>1, <1>3, <1>4, <1>5, <1>6, <1>9, <1>13 DEF StoresAs
<1>15. \A j \in Keys \ {k} : o[j] = n[j] BY <1>5, <1>9 DEF Put, Maps
<1>16. Capped(CostOf(o, HeldIn(o)), o)
  <2>1. CASE g.bytes + Cost(e) <= MaxTotal
    <3>1. MaxTotal \in Int BY SizesAssumption DEF SizesAssumption
    <3>2. CostOf(o, HeldIn(o)) = g.bytes + Cost(e) BY <1>9, <1>13
    <3>3. QED BY <2>1, <3>1, <3>2, <1>8, <1>9 DEF Capped
  <2>2. CASE \A j \in HeldIn(n) : ~Loaded(n[j])
    <3>1. \A j \in Keys : o[j] # None /\ Loaded(o[j]) => j = k
      BY <2>2, <1>15 DEF HeldIn
    <3>2. QED BY <3>1 DEF Capped
  <2>3. QED BY <2>1, <2>2, <1>1, <1>3 DEF StoresAs
<1>17. Apart(o, meta, stores')
  <2>1. stores \in Nat /\ Apart(m, meta, stores) BY <1>10 DEF CInv, Types
  <2>2. o[k].store = stores + 1 BY <1>7, <1>13
  <2>3. \A j \in Keys \ {k} : o[j] # None => m[j] # None /\ o[j].store = m[j].store
    BY <1>11, <1>15
  <2>4. Apart(o, meta, stores + 1) BY <2>1, <2>2, <2>3, ApartStores
  <2>5. stores' = stores + 1 BY <1>1 DEF StoresAs
  <2>6. QED BY <2>4, <2>5
<1>18. stores' \in Nat /\ UNCHANGED <<up, now, files, spoilt>> BY <1>1 DEF StoresAs, CInv, Types
<1>19. QED BY <1>2, <1>12, <1>13, <1>14, <1>16, <1>17, <1>18, CallKeepsInv

\* A store has made its room on disk: only its entry bears its number.
LEMMA StoreHasRoom ==
    ASSUME CInv, NEW k \in Keys, NEW r \in Responses, Store(k, r),
           NEW j \in Keys, entries'[j] # None, entries'[j].store = stores'
    PROVE  diskBytes' + entries'[j].size <= MaxDisk
<1>1. PICK e, g : StoresAs(k, e, g) BY StoreIs
<1>2. up /\ work = <<>> BY DEF Store, Free
<1>3. PICK n : n = g.entries OBVIOUS
<1>4. n \in Maps /\ entries' = Put(n, k, e) /\ stores' = stores + 1 /\ e \in Entry
  BY <1>1, <1>3 DEF StoresAs, Kept
<1>5. j = k
  <2>1. SUFFICES ASSUME j # k PROVE FALSE OBVIOUS
  <2>2. entries'[j] = n[j] BY <2>1, <1>4 DEF Put, Maps
  <2>3. n[j] # None => entries[j] # None /\ n[j].store = entries[j].store
    <3>1. Kept(Cache) /\ Cache.work = <<>> /\ Cache.entries = entries BY KeptCache
    <3>2. LoadedFrom(Cache.entries, k) BY <3>1 DEF LoadedFrom
    <3>3. Kept(g) /\ Shrinks(Cache, g) BY <1>1 DEF StoresAs
    <3>4. \A i \in Keys : g.entries[i] # None =>
              entries[i] # None /\ g.entries[i].store = entries[i].store
      BY <3>1, <3>2, <3>3, <1>2, CallLeaves
    <3>5. QED BY <3>4, <1>3
  <2>4. entries[j] # None /\ entries[j].store = stores + 1 BY <2>2, <2>3, <1>4
  <2>5. stores \in Nat BY DEF CInv, Types
  <2>6. stores + 1 \in StoresOf(entries, meta, j) BY <2>4, <2>5 DEF StoresOf
  <2>7. stores + 1 <= stores BY <2>6 DEF CInv, Apart
  <2>8. QED BY <2>5, <2>7
<1>6. entries'[k] = e BY <1>4 DEF Put, Maps
<1>7. QED BY <1>1, <1>5, <1>6 DEF StoresAs

LEMMA ClearStep ==
    ASSUME CInv, Clear
    PROVE  CInv'
<1>1. up /\ work = <<>> /\ UNCHANGED <<up, now, files, stores, spoilt>> BY DEF Clear, Free
<1>2. PICK d : d = Drop(Cache, Held) OBVIOUS
<1>3. /\ Kept(Cache) /\ Cache.work = <<>> /\ Cache.entries = entries /\ HeldIn(Cache.entries) = Held
  BY KeptCache, HeldIs
<1>4. Held \in SUBSET HeldIn(Cache.entries) BY <1>3
<1>5. Kept(d) /\ Shrinks(Cache, d) /\ d.entries = Emptied(entries, Held) BY <1>2, <1>3, <1>4, DropKeeps
<1>6. HeldIn(d.entries) = {} BY <1>5 DEF Emptied, HeldIn, Held
<1>7. PICK n : n = d.entries OBVIOUS
<1>8. d.bytes = 0 /\ d.diskBytes = 0
  <2>1. d.bytes = CostOf(n, HeldIn(n)) /\ d.diskBytes = DiskCostOf(n, HeldIn(n)) /\ HeldIn(n) = {}
    BY <1>5, <1>6, <1>7 DEF Kept
  <2>2. d.bytes = CostOf(n, {}) /\ d.diskBytes = DiskCostOf(n, {}) BY <2>1, Zenon
  <2>3. QED BY <2>2, SumsOfNone
<1>9. Becomes(d)
  <2>1. PICK h : h = [d EXCEPT !.bytes = 0, !.diskBytes = 0] OBVIOUS
  <2>2. Becomes(h) BY <2>1, <1>2 DEF Clear
  <2>3. h.entries = d.entries /\ h.bytes = 0 /\ h.diskBytes = 0 /\ h.work = d.work
    BY <2>1, <1>5 DEF Kept
  <2>4. QED BY <2>2, <2>3, <1>8 DEF Becomes
<1>10. Capped(d.bytes, d.entries)
  <2>1. \A j \in Keys : d.entries[j] = None BY <1>6 DEF HeldIn
  <2>2. QED BY <2>1 DEF Capped
<1>11. LoadedFrom(Cache.entries, 0) BY <1>3 DEF LoadedFrom
<1>12. QED BY <1>1, <1>3, <1>5, <1>9, <1>10, <1>11, CallEnds

-----------------------------------------------------------------------------
(* The file operations of a call, one at a time.                            *)

\* The rest of a list is in order as the list was.
LEMMA RestIs ==
    ASSUME NEW w \in Seq(Ops), w # <<>>, Ordered(w)
    PROVE  /\ Tail(w) \in Seq(Ops) /\ Ordered(Tail(w)) /\ 1 \in 1..Len(w) /\ Head(w) = w[1]
           /\ \A i \in 1..Len(Tail(w)) : i + 1 \in 1..Len(w) /\ Tail(w)[i] = w[i + 1]
           /\ \A i \in 1..Len(w) : i = 1 \/ i - 1 \in 1..Len(Tail(w))
<1>1. PICK v : v = Tail(w) OBVIOUS
<1>2. PICK l \in Nat : l = Len(w) OBVIOUS
<1>3. l >= 1 /\ v \in Seq(Ops) /\ Len(v) = l - 1 /\ Head(w) = w[1] BY <1>1, <1>2
<1>4. \A i \in 1..(l - 1) : v[i] = w[i + 1] BY <1>1, <1>2, <1>3
<1>5. \A i \in 1..(l - 1) : i + 1 \in 1..l BY <1>3
<1>6. Ordered(v)
  <2>1. \A i \in 1..Len(v) : v[i] \in Ops BY <1>3
  <2>2. ASSUME NEW i \in 1..Len(v), NEW j \in 1..Len(v), i < j
        PROVE  /\ ~IsRemoval(v[i]) =>
                     v[i][1] = "writeBody" /\ v[j][1] = "writeMeta" /\ v[j][2] = v[i][2]
               /\ IsRemoval(v[i]) /\ IsRemoval(v[j]) /\ v[i][2] = v[j][2] =>
                     v[i][1] = "removeMeta" /\ v[j][1] = "removeBody"
    <3>1. PICK a : a = i + 1 OBVIOUS
    <3>2. PICK b : b = j + 1 OBVIOUS
    <3>3. a \in 1..Len(w) /\ b \in 1..Len(w) /\ a < b BY <3>1, <3>2, <2>2, <1>2, <1>3, <1>5
    <3>4. v[i] = w[a] /\ v[j] = w[b] BY <3>1, <3>2, <1>3, <1>4
    <3>5. /\ ~IsRemoval(w[a]) =>
                w[a][1] = "writeBody" /\ w[b][1] = "writeMeta" /\ w[b][2] = w[a][2]
          /\ IsRemoval(w[a]) /\ IsRemoval(w[b]) /\ w[a][2] = w[b][2] =>
                w[a][1] = "removeMeta" /\ w[b][1] = "removeBody"
      BY <3>3 DEF Ordered
    <3>6. QED BY <3>4, <3>5
  <2>3. QED BY <2>1, <2>2 DEF Ordered
<1>7. \A i \in 1..l : i = 1 \/ i - 1 \in 1..(l - 1) BY <1>3
<1>8. QED BY <1>1, <1>2, <1>3, <1>4, <1>5, <1>6, <1>7

\* What is still to be written or removed once the first operation is done.
LEMMA RestHas ==
    ASSUME NEW w \in Seq(Ops), w # <<>>, Ordered(w), NEW k
    PROVE  /\ Writes(Tail(w), k) => Writes(w, k)
           /\ Writes(w, k) => Writes(Tail(w), k) \/ (w[1][1] = "writeBody" /\ w[1][2] = k)
           /\ Replaces(Tail(w), k) => Replaces(w, k)
           /\ Replaces(w, k) => Replaces(Tail(w), k) \/ (w[1][1] = "removeMeta" /\ w[1][2] = k)
<1>1. PICK v : v = Tail(w) OBVIOUS
<1>2. /\ \A i \in 1..Len(v) : i + 1 \in 1..Len(w) /\ v[i] = w[i + 1]
      /\ \A i \in 1..Len(w) : i = 1 \/ i - 1 \in 1..Len(v)
  BY <1>1, RestIs
<1>3. ASSUME NEW i \in 1..Len(w), i # 1 PROVE i - 1 \in 1..Len(v) /\ v[i - 1] = w[i]
  <2>1. PICK h : h = i - 1 OBVIOUS
  <2>2. h \in 1..Len(v) /\ h + 1 = i BY <2>1, <1>2, <1>3
  <2>3. v[h] = w[h + 1] BY <2>2, <1>2
  <2>4. QED BY <2>1, <2>2, <2>3
<1>4. Writes(v, k) => Writes(w, k) BY <1>2 DEF Writes
<1>5. Replaces(v, k) => Replaces(w, k) BY <1>2 DEF Replaces
<1>6. ASSUME Writes(w, k) PROVE Writes(v, k) \/ (w[1][1] = "writeBody" /\ w[1][2] = k)
  <2>1. PICK i \in 1..Len(w) : w[i][1] = "writeBody" /\ w[i][2] = k BY <1>6 DEF Writes
  <2>2. CASE i = 1 BY <2>1, <2>2
  <2>3. CASE i # 1 BY <2>1, <2>3, <1>3 DEF Writes
  <2>4. QED BY <2>2, <2>3
<1>7. ASSUME Replaces(w, k) PROVE Replaces(v, k) \/ (w[1][1] = "removeMeta" /\ w[1][2] = k)
  <2>1. PICK i \in 1..Len(w) : w[i][1] = "removeMeta" /\ w[i][2] = k BY <1>7 DEF Replaces
  <2>2. CASE i = 1 BY <2>1, <2>2
  <2>3. CASE i # 1 BY <2>1, <2>3, <1>3 DEF Replaces
  <2>4. QED BY <2>2, <2>3
<1>8. QED BY <1>1, <1>4, <1>5, <1>6, <1>7

\* The operations left suit the entries while no body has been written.
LEMMA RestSuits ==
    ASSUME NEW m, NEW w \in Seq(Ops), w # <<>>, Ordered(w), Suits(m, w)
    PROVE  Suits(m, Tail(w))
<1>1. PICK v : v = Tail(w) OBVIOUS
<1>2. \A i \in 1..Len(v) : i + 1 \in 1..Len(w) /\ v[i] = w[i + 1] BY <1>1, RestIs
<1>3. ASSUME NEW i \in 1..Len(v), NEW k, k = v[i][2]
      PROVE  /\ IsRemoval(v[i]) => m[k] = None \/ Writes(v, k)
             /\ v[i][1] = "writeBody" =>
                   m[k] # None /\ ~m[k].onDisk /\ Loaded(m[k]) /\ v[i] = WriteBody(k, m[k])
             /\ v[i][1] = "writeMeta" => m[k] # None /\ v[i] = WriteMeta(k, m[k])
  <2>1. PICK a : a = i + 1 OBVIOUS
  <2>2. a \in 1..Len(w) /\ v[i] = w[a] /\ k = w[a][2] BY <2>1, <1>2, <1>3
  <2>3. /\ IsRemoval(w[a]) => m[k] = None \/ Writes(w, k)
        /\ w[a][1] = "writeBody" =>
              m[k] # None /\ ~m[k].onDisk /\ Loaded(m[k]) /\ w[a] = WriteBody(k, m[k])
        /\ w[a][1] = "writeMeta" => m[k] # None /\ w[a] = WriteMeta(k, m[k])
    BY <2>2 DEF Suits
  <2>4. ASSUME IsRemoval(w[a]), Writes(w, k) PROVE Writes(v, k)
    <3>1. SUFFICES ASSUME w[1][1] = "writeBody" PROVE FALSE BY <2>4, <1>1, RestHas
    <3>2. ~IsRemoval(w[1]) BY <3>1 DEF IsRemoval
    <3>3. 1 \in 1..Len(w) /\ 1 < a BY <2>1, RestIs
    <3>4. w[a][1] = "writeMeta" BY <3>2, <3>3, <2>2 DEF Ordered
    <3>5. QED BY <3>4, <2>4 DEF IsRemoval
  <2>5. QED BY <2>2, <2>3, <2>4
<1>4. QED BY <1>1, <1>3 DEF Suits

\* A step that takes operations off the list and touches neither entries nor texts.
LEMMA EntriesKept ==
    ASSUME CInv, UNCHANGED <<entries, bytes, diskBytes, stores>>
    PROVE  SumsAreExact' /\ Capped(bytes, entries)'
<1>1. SumsAreExact'
  <2>1. Held' = Held BY DEF Held
  <2>2. QED BY <2>1 DEF CInv, SumsAreExact
<1>2. Capped(bytes, entries)' BY DEF CInv, Capped, Loaded
<1>3. QED BY <1>1, <1>2

LEMMA OpStep ==
    ASSUME CInv, up, UNCHANGED <<up, now, stores>>, UNCHANGED memory,
           meta' \in [Keys -> Text \cup {None}], body' \in [Keys -> BodyFile \cup {None}],
           \A k \in Keys : meta'[k] = meta[k] \/ meta'[k] = None,
           NEW v, work' = v, v \in Seq(Ops), Ordered(v), Suits(entries, v),
           TextsOf(entries, v, meta', spoilt')
    PROVE  CInv'
<1>1. SumsAreExact' /\ Capped(bytes, entries)' BY EntriesKept DEF memory
<1>2. Types' BY DEF CInv, Types, memory
<1>3. Apart(entries, meta, stores)'
  <2>1. ASSUME NEW k \in Keys PROVE StoresOf(entries, meta', k) \subseteq StoresOf(entries, meta, k)
    BY DEF StoresOf
  <2>2. Apart(entries, meta', stores) BY <2>1, ApartStays DEF CInv
  <2>3. Apart(entries', meta', stores') BY <2>2 DEF memory
  <2>4. QED BY <2>3 DEF Apart, StoresOf
<1>4. Ordered(work)' /\ Suits(entries, work)'
  <2>1. Ordered(work') /\ Suits(entries', work') BY DEF memory
  <2>2. QED BY <2>1 DEF Ordered, Suits, Writes, IsRemoval, WriteBody, WriteMeta, Loaded
<1>5. TextsOf(entries, work, meta, spoilt)'
  <2>1. TextsOf(entries', work', meta', spoilt') BY DEF memory
  <2>2. QED BY <2>1 DEF TextsOf, Replaces
<1>6. up' OBVIOUS
<1>7. QED BY <1>1, <1>2, <1>3, <1>4, <1>5, <1>6 DEF CInv

\* While a call is in progress: what its first operation is.
LEMMA OpIs ==
    ASSUME CInv, work # <<>>
    PROVE  /\ up /\ work \in Seq(Ops) /\ Ordered(work) /\ Suits(entries, work)
           /\ TextsOf(entries, work, meta, spoilt)
           /\ 1 \in 1..Len(work) /\ Op = work[1] /\ Op \in Ops /\ Key = work[1][2] /\ Key \in Keys
           /\ Tail(work) \in Seq(Ops) /\ Ordered(Tail(work)) /\ Suits(entries, Tail(work))
<1>1. up /\ work \in Seq(Ops) /\ Ordered(work) /\ Suits(entries, work) /\ TextsOf(entries, work, meta, spoilt)
  BY DEF CInv, Types
<1>2. PICK w : w = work OBVIOUS
<1>3. w \in Seq(Ops) /\ w # <<>> /\ Ordered(w) /\ Suits(entries, w) BY <1>1, <1>2
<1>4. /\ Tail(w) \in Seq(Ops) /\ Ordered(Tail(w)) /\ 1 \in 1..Len(w) /\ Head(w) = w[1] BY <1>3, RestIs
<1>5. Suits(entries, Tail(w)) BY <1>3, RestSuits
<1>6. w[1] \in Ops BY <1>3, <1>4
<1>7. w[1][2] \in Keys BY <1>6, OpKinds
<1>8. QED BY <1>1, <1>2, <1>4, <1>5, <1>6, <1>7 DEF Op, Key

\* While the removals left are the same, what the texts are does not depend on
\* the other operations left; and more of them may have stayed.
LEMMA TextsStay ==
    ASSUME NEW m, NEW v, NEW w, NEW t, NEW stay, NEW more, TextsOf(m, v, t, stay),
           stay \subseteq more, \A k \in Keys : Replaces(v, k) <=> Replaces(w, k)
    PROVE  TextsOf(m, w, t, more)
BY DEF TextsOf

LEMMA RemoveFileStep ==
    ASSUME CInv, RemoveFile
    PROVE  CInv'
<1>1. work # <<>> /\ UNCHANGED <<up, now, stores, spoilt>> /\ UNCHANGED memory BY DEF RemoveFile
<1>2. PICK w : w = work OBVIOUS
<1>3. PICK v : v = Tail(w) OBVIOUS
<1>4. PICK k : k = Key OBVIOUS
<1>5. /\ up /\ w \in Seq(Ops) /\ w # <<>> /\ Ordered(w) /\ TextsOf(entries, w, meta, spoilt)
      /\ Op = w[1] /\ w[1][2] = k /\ k \in Keys
      /\ v \in Seq(Ops) /\ Ordered(v) /\ Suits(entries, v)
  BY <1>1, <1>2, <1>3, <1>4, OpIs
<1>6. work' = v BY <1>2, <1>3 DEF RemoveFile
<1>7. CASE w[1][1] = "removeMeta" /\ meta' = [meta EXCEPT ![Key] = None] /\ UNCHANGED body
  <2>1. meta'[k] = None /\ \A j \in Keys \ {k} : meta'[j] = meta[j] BY <1>4, <1>5, <1>7 DEF CInv, Types
  <2>2. meta' \in [Keys -> Text \cup {None}] /\ body' \in [Keys -> BodyFile \cup {None}]
    BY <1>7 DEF CInv, Types
  <2>3. ASSUME NEW j \in Keys
        PROVE  /\ entries[j] # None /\ entries[j].onDisk =>
                    /\ meta'[j] # None /\ ~Replaces(v, j)
                    /\ entries[j].store = meta'[j].store /\ entries[j].size = meta'[j].size
               /\ meta'[j] # None /\ ~Replaces(v, j) /\ j \notin spoilt =>
                    entries[j] # None /\ entries[j].onDisk
    <3>1. /\ entries[j] # None /\ entries[j].onDisk =>
                /\ meta[j] # None /\ ~Replaces(w, j)
                /\ entries[j].store = meta[j].store /\ entries[j].size = meta[j].size
          /\ meta[j] # None /\ ~Replaces(w, j) /\ j \notin spoilt =>
                entries[j] # None /\ entries[j].onDisk
      BY <1>5 DEF TextsOf
    <3>2. CASE j = k
      <4>1. Replaces(w, k)
        <5>1. 1 \in 1..Len(w) BY <1>5, RestIs
        <5>2. QED BY <5>1, <1>5, <1>7 DEF Replaces
      <4>2. QED BY <4>1, <3>1, <3>2, <2>1
    <3>3. CASE j # k
      <4>1. Replaces(v, j) <=> Replaces(w, j) BY <3>3, <1>3, <1>5, RestHas
      <4>2. QED BY <4>1, <3>1, <3>3, <2>1
    <3>4. QED BY <3>2, <3>3
  <2>4. TextsOf(entries, v, meta', spoilt') BY <2>3, <1>1 DEF TextsOf
  <2>5. \A j \in Keys : meta'[j] = meta[j] \/ meta'[j] = None BY <2>1
  <2>6. QED BY <1>1, <1>5, <1>6, <2>2, <2>4, <2>5, OpStep
<1>8. CASE w[1][1] = "removeBody" /\ body' = [body EXCEPT ![Key] = None] /\ UNCHANGED meta
  <2>1. meta' \in [Keys -> Text \cup {None}] /\ body' \in [Keys -> BodyFile \cup {None}]
    BY <1>8 DEF CInv, Types
  <2>2. \A j \in Keys : Replaces(v, j) <=> Replaces(w, j) BY <1>3, <1>5, <1>8, RestHas
  <2>3. TextsOf(entries, v, meta', spoilt') BY <2>2, <1>1, <1>5, <1>8 DEF TextsOf
  <2>4. QED BY <1>1, <1>5, <1>6, <1>8, <2>1, <2>3, OpStep
<1>9. QED BY <1>1, <1>2, <1>5, <1>7, <1>8 DEF RemoveFile

\* A removal that fails leaves the files as they are: a text that stays is noted.
LEMMA FileStaysStep ==
    ASSUME CInv, FileStays
    PROVE  CInv'
<1>1. /\ work # <<>> /\ UNCHANGED <<up, now, stores>> /\ UNCHANGED memory /\ UNCHANGED files
      /\ Op[1] \in {"removeMeta", "removeBody"} /\ work' = Tail(work)
      /\ spoilt' = IF Op[1] = "removeMeta" THEN spoilt \cup {Key} ELSE spoilt
  BY DEF FileStays
<1>2. PICK w : w = work OBVIOUS
<1>3. PICK v : v = Tail(w) OBVIOUS
<1>4. PICK k : k = Key OBVIOUS
<1>5. /\ up /\ w \in Seq(Ops) /\ w # <<>> /\ Ordered(w) /\ TextsOf(entries, w, meta, spoilt)
      /\ Op = w[1] /\ w[1][2] = k /\ k \in Keys
      /\ v \in Seq(Ops) /\ Ordered(v) /\ Suits(entries, v)
  BY <1>1, <1>2, <1>3, <1>4, OpIs
<1>6. work' = v BY <1>1, <1>2, <1>3
<1>7. /\ meta' \in [Keys -> Text \cup {None}] /\ body' \in [Keys -> BodyFile \cup {None}]
      /\ meta' = meta
  BY <1>1 DEF CInv, Types, files
<1>8. CASE w[1][1] = "removeMeta"
  <2>1. Replaces(w, k)
    <3>1. 1 \in 1..Len(w) BY <1>5, RestIs
    <3>2. QED BY <3>1, <1>5, <1>8 DEF Replaces
  <2>2. spoilt' = spoilt \cup {k} BY <1>1, <1>4, <1>5, <1>8
  <2>3. \A j \in Keys \ {k} : Replaces(v, j) <=> Replaces(w, j) BY <1>3, <1>5, RestHas
  <2>4. \A j \in Keys : Replaces(v, j) => Replaces(w, j) BY <2>1, <2>3
  <2>5. TextsOf(entries, v, meta, spoilt') BY <2>1, <2>2, <2>3, <2>4, <1>5 DEF TextsOf
  <2>6. QED BY <2>5, <1>1, <1>5, <1>6, <1>7, OpStep
<1>9. CASE w[1][1] = "removeBody"
  <2>1. \A j \in Keys : Replaces(v, j) <=> Replaces(w, j) BY <1>3, <1>5, <1>9, RestHas
  <2>2. spoilt' = spoilt BY <1>1, <1>5, <1>9
  <2>3. TextsOf(entries, v, meta, spoilt') BY <2>1, <2>2, <1>5, TextsStay
  <2>4. QED BY <2>3, <1>1, <1>5, <1>6, <1>7, OpStep
<1>10. QED BY <1>1, <1>5, <1>8, <1>9

\* Once the files of a store are being written nothing is left to be removed, and
\* the text is the last of them.
LEMMA WritesLast ==
    ASSUME NEW w \in Seq(Ops), w # <<>>, Ordered(w), ~IsRemoval(w[1])
    PROVE  /\ \A k : ~Replaces(w, k)
           /\ w[1][1] = "writeMeta" => Tail(w) = <<>>
           /\ \A k : ~Writes(Tail(w), k)
<1>1. PICK l \in Nat : l = Len(w) OBVIOUS
<1>2. 1 \in 1..l /\ w[1] \in Ops BY <1>1, RestIs
<1>3. \A i \in 1..l : i = 1 \/ (w[1][1] = "writeBody" /\ w[i][1] = "writeMeta")
  <2>1. \A i \in 1..l : i = 1 \/ 1 < i OBVIOUS
  <2>2. QED BY <2>1, <1>1, <1>2 DEF Ordered
<1>4. ASSUME NEW k, Replaces(w, k) PROVE FALSE
  <2>1. PICK i \in 1..l : w[i][1] = "removeMeta" BY <1>1, <1>4 DEF Replaces
  <2>2. i # 1 BY <2>1 DEF IsRemoval
  <2>3. QED BY <2>1, <2>2, <1>3
<1>5. ASSUME w[1][1] = "writeMeta" PROVE Tail(w) = <<>>
  <2>1. \A i \in 1..l : i = 1 BY <1>3, <1>5
  <2>2. l = 1
    <3>1. l \in 1..l BY <1>2
    <3>2. QED BY <3>1, <2>1
  <2>3. PICK v : v = Tail(w) OBVIOUS
  <2>4. v \in Seq(Ops) /\ Len(v) = 0 BY <2>2, <2>3, <1>1
  <2>5. v = <<>> BY <2>4
  <2>6. QED BY <2>3, <2>5
<1>6. ASSUME NEW k, Writes(Tail(w), k) PROVE FALSE
  <2>1. PICK v : v = Tail(w) OBVIOUS
  <2>2. PICK i \in 1..Len(v) : v[i][1] = "writeBody" BY <2>1, <1>6 DEF Writes
  <2>3. PICK j : j = i + 1 OBVIOUS
  <2>4. j \in 1..l /\ v[i] = w[j] /\ j # 1 BY <2>1, <2>3, <1>1, RestIs
  <2>5. w[j][1] = "writeMeta" BY <2>4, <1>3
  <2>6. QED BY <2>2, <2>4, <2>5
<1>7. QED BY <1>4, <1>5, <1>6

LEMMA NoneLeft ==
    ASSUME NEW m
    PROVE  /\ <<>> \in Seq(Ops) /\ Ordered(<<>>) /\ Suits(m, <<>>)
           /\ \A k : ~Replaces(<<>>, k) /\ ~Writes(<<>>, k)
BY DEF Ordered, Suits, Replaces, Writes

LEMMA WriteFileBodyStep ==
    ASSUME CInv, NEW how \in {"whole"} \cup (Failures \ {"stays"}), WriteFileBody(how)
    PROVE  CInv'
<1>1. work # <<>> /\ UNCHANGED <<up, now, stores>> /\ UNCHANGED memory /\ UNCHANGED meta
  BY DEF WriteFileBody
<1>2. PICK w : w = work OBVIOUS
<1>3. PICK v : v = Tail(w) OBVIOUS
<1>4. PICK k : k = Key OBVIOUS
<1>5. PICK op : op = Op OBVIOUS
<1>6. /\ up /\ w \in Seq(Ops) /\ w # <<>> /\ Ordered(w) /\ TextsOf(entries, w, meta, spoilt)
      /\ op = w[1] /\ op \in Ops /\ k \in Keys
      /\ v \in Seq(Ops) /\ Ordered(v) /\ Suits(entries, v)
  BY <1>1, <1>2, <1>3, <1>4, <1>5, OpIs
<1>7. op[1] = "writeBody" BY <1>5 DEF WriteFileBody
<1>8. op[3] \in BodyFile BY <1>6, <1>7, OpKinds
<1>9. body' \in [Keys -> BodyFile \cup {None}]
  <2>1. body \in [Keys -> BodyFile \cup {None}] BY DEF CInv, Types
  <2>2. PICK b : b = body' OBVIOUS
  <2>3. b = [body EXCEPT ![k] = CASE how = "whole" -> op[3]
                                  [] how \in {"short", "lost"} -> [op[3] EXCEPT !.length = 0]
                                  [] how = "unopened" -> @]
    BY <2>2, <1>4, <1>5 DEF WriteFileBody
  <2>4. how \in {"whole", "short", "lost", "unopened"} BY SizesAssumption DEF SizesAssumption
  <2>5. [op[3] EXCEPT !.length = 0] \in BodyFile BY <1>8 DEF BodyFile
  <2>6. b \in [Keys -> BodyFile \cup {None}]
    <3>1. CASE how = "whole" BY <3>1, <2>1, <2>3, <1>6, <1>8
    <3>2. CASE how \in {"short", "lost"} BY <3>2, <2>1, <2>3, <2>5, <1>6
    <3>3. CASE how = "unopened" BY <3>3, <2>1, <2>3, <1>6
    <3>4. QED BY <2>4, <3>1, <3>2, <3>3
  <2>7. QED BY <2>2, <2>6
<1>10. ~IsRemoval(w[1]) BY <1>6, <1>7 DEF IsRemoval
<1>11. \A j : ~Replaces(w, j) BY <1>6, <1>10, WritesLast
<1>12. \A j : ~Replaces(v, j) BY <1>3, <1>6, <1>11, RestHas
<1>13. PICK u : u = IF how \in {"whole", "lost"} THEN v ELSE <<>> OBVIOUS
<1>14. work' = u BY <1>2, <1>3, <1>13 DEF WriteFileBody
<1>15. u = v \/ u = <<>> BY <1>13
<1>16. u \in Seq(Ops) /\ Ordered(u) /\ Suits(entries, u) BY <1>6, <1>15, NoneLeft
<1>17. \A j : ~Replaces(u, j) BY <1>12, <1>15, NoneLeft
<1>n. spoilt \subseteq spoilt' BY DEF WriteFileBody
<1>18. TextsOf(entries, u, meta, spoilt') BY <1>6, <1>11, <1>17, <1>n, TextsStay
<1>19. TextsOf(entries, u, meta', spoilt') BY <1>1, <1>18
<1>20. meta' \in [Keys -> Text \cup {None}] /\ \A j \in Keys : meta'[j] = meta[j] \/ meta'[j] = None
  BY <1>1 DEF CInv, Types
<1>21. QED BY <1>1, <1>6, <1>9, <1>14, <1>16, <1>19, <1>20, OpStep

\* The text is the last operation: the entry's, and the list is empty after it.
LEMMA MetaIsLast ==
    ASSUME CInv, work # <<>>, Op[1] = "writeMeta"
    PROVE  /\ up /\ Key \in HeldIn(entries) /\ Op[3] \in Text
           /\ Op[3].store = entries[Key].store /\ Op[3].size = entries[Key].size
           /\ Tail(work) = <<>> /\ TextsOf(entries, <<>>, meta, spoilt)
<1>1. PICK w : w = work OBVIOUS
<1>2. PICK k : k = Key OBVIOUS
<1>3. PICK op : op = Op OBVIOUS
<1>4. /\ up /\ w \in Seq(Ops) /\ w # <<>> /\ Ordered(w) /\ Suits(entries, w)
      /\ TextsOf(entries, w, meta, spoilt) /\ 1 \in 1..Len(w)
      /\ op = w[1] /\ op \in Ops /\ k = w[1][2] /\ k \in Keys
  BY <1>1, <1>2, <1>3, OpIs
<1>5. w[1][1] = "writeMeta" BY <1>3, <1>4
<1>6. op[3] \in Text BY <1>3, <1>4, OpKinds
<1>7. entries[k] # None /\ op = WriteMeta(k, entries[k]) BY <1>4, <1>5 DEF Suits
<1>8. op[3].store = entries[k].store /\ op[3].size = entries[k].size BY <1>7 DEF WriteMeta
<1>9. k \in HeldIn(entries) BY <1>4, <1>7 DEF HeldIn
<1>10. ~IsRemoval(w[1]) BY <1>5 DEF IsRemoval
<1>11. Tail(w) = <<>> /\ \A j : ~Replaces(w, j) BY <1>4, <1>5, <1>10, WritesLast
<1>12. TextsOf(entries, <<>>, meta, spoilt)
  <2>1. \A j \in Keys : Replaces(w, j) <=> Replaces(<<>>, j) BY <1>11, NoneLeft
  <2>2. QED BY <2>1, <1>4, TextsStay
<1>13. QED BY <1>1, <1>2, <1>3, <1>4, <1>6, <1>8, <1>9, <1>11, <1>12

LEMMA MetaNotWrittenStep ==
    ASSUME CInv, MetaNotWritten
    PROVE  CInv'
<1>1. /\ work # <<>> /\ Op[1] = "writeMeta" /\ UNCHANGED <<up, now, stores, spoilt>>
      /\ UNCHANGED memory /\ UNCHANGED files /\ work' = Tail(work)
  BY DEF MetaNotWritten
<1>2. up /\ work' = <<>> /\ TextsOf(entries, <<>>, meta, spoilt) BY <1>1, MetaIsLast
<1>3. /\ meta' \in [Keys -> Text \cup {None}] /\ body' \in [Keys -> BodyFile \cup {None}]
      /\ \A j \in Keys : meta'[j] = meta[j] \/ meta'[j] = None
  BY <1>1 DEF CInv, Types, files
<1>4. TextsOf(entries, <<>>, meta', spoilt') BY <1>1, <1>2 DEF files
<1>5. <<>> \in Seq(Ops) /\ Ordered(<<>>) /\ Suits(entries, <<>>) BY NoneLeft
<1>6. QED BY <1>1, <1>2, <1>3, <1>4, <1>5, OpStep

LEMMA WriteFileMetaStep ==
    ASSUME CInv, WriteFileMeta
    PROVE  CInv'
<1>1. /\ work # <<>> /\ Op[1] = "writeMeta" /\ UNCHANGED <<up, bytes, now, body, served, stores, spoilt>>
      /\ work' = Tail(work) /\ meta' = [meta EXCEPT ![Key] = Op[3]]
      /\ entries' = [entries EXCEPT ![Key].onDisk = TRUE]
      /\ diskBytes' = IF NewOnDisk(entries[Key]) THEN diskBytes + entries[Key].size ELSE diskBytes
  BY DEF WriteFileMeta
<1>2. PICK k : k = Key OBVIOUS
<1>3. PICK x : x = Op[3] OBVIOUS
<1>4. PICK m : m = entries OBVIOUS
<1>5. /\ up /\ k \in HeldIn(m) /\ x \in Text /\ x.store = m[k].store /\ x.size = m[k].size
      /\ work' = <<>> /\ TextsOf(m, <<>>, meta, spoilt)
  BY <1>1, <1>2, <1>3, <1>4, MetaIsLast
<1>6. m \in Maps /\ k \in Keys /\ m[k] \in Entry /\ m[k] # None
  <2>1. m \in Maps /\ k \in Keys /\ m[k] # None BY <1>4, <1>5 DEF CInv, Types, HeldIn
  <2>2. QED BY <2>1, <1>5, HeldEntry
<1>7. PICK n : n = PutOnDisk(m, k) OBVIOUS
<1>8. entries' = n BY <1>1, <1>2, <1>4, <1>7 DEF PutOnDisk
<1>9. /\ n \in Maps /\ HeldIn(n) = HeldIn(m)
      /\ n[k] = [m[k] EXCEPT !.onDisk = TRUE] /\ \A j \in Keys \ {k} : n[j] = m[j]
      /\ CostOf(n, HeldIn(n)) = CostOf(m, HeldIn(m))
      /\ DiskCostOf(n, HeldIn(n)) =
           DiskCostOf(m, HeldIn(m)) + (IF m[k].onDisk THEN 0 ELSE m[k].size)
  BY <1>5, <1>6, <1>7, EntryOnDisk
<1>10. /\ n[k] # None /\ n[k].onDisk /\ n[k].store = m[k].store /\ n[k].size = m[k].size
       /\ n[k].body = m[k].body
  <2>1. n[k].onDisk /\ n[k].store = m[k].store /\ n[k].size = m[k].size /\ n[k].body = m[k].body
    BY <1>6, <1>9 DEF Entry
  <2>2. k \in HeldIn(n) BY <1>5, <1>9
  <2>3. QED BY <2>1, <2>2 DEF HeldIn
<1>11. bytes = CostOf(m, HeldIn(m)) /\ diskBytes = DiskCostOf(m, HeldIn(m)) /\ diskBytes \in Int
  BY <1>4, HeldIs DEF CInv, SumsAreExact, Types
<1>12. bytes' = CostOf(n, HeldIn(n)) /\ diskBytes' = DiskCostOf(n, HeldIn(n))
  <2>1. bytes' = CostOf(n, HeldIn(n)) BY <1>1, <1>9, <1>11
  <2>2. diskBytes' = IF m[k].onDisk THEN diskBytes ELSE diskBytes + m[k].size
    BY <1>1, <1>2, <1>4 DEF NewOnDisk
  <2>3. diskBytes' = DiskCostOf(n, HeldIn(n))
    <3>1. CASE m[k].onDisk BY <3>1, <2>2, <1>9, <1>11
    <3>2. CASE ~m[k].onDisk BY <3>2, <2>2, <1>9, <1>11
    <3>3. QED BY <3>1, <3>2
  <2>4. QED BY <2>1, <2>3
<1>13. PICK t : t = meta' OBVIOUS
<1>14. t \in [Keys -> Text \cup {None}] /\ t[k] = x /\ \A j \in Keys \ {k} : t[j] = meta[j]
  BY <1>1, <1>2, <1>3, <1>5, <1>6, <1>13 DEF CInv, Types
<1>15. x # None BY <1>5, NothingAssumption DEF NothingAssumption
<1>16. TextsOf(n, <<>>, t, spoilt')
  <2>1. ASSUME NEW j \in Keys
        PROVE  /\ n[j] # None /\ n[j].onDisk =>
                    /\ t[j] # None /\ ~Replaces(<<>>, j)
                    /\ n[j].store = t[j].store /\ n[j].size = t[j].size
               /\ t[j] # None /\ ~Replaces(<<>>, j) /\ j \notin spoilt => n[j] # None /\ n[j].onDisk
    <3>1. CASE j = k BY <3>1, <1>5, <1>10, <1>14, <1>15, NoneLeft
    <3>2. CASE j # k
      <4>1. n[j] = m[j] /\ t[j] = meta[j] BY <3>2, <1>9, <1>14
      <4>2. QED BY <4>1, <1>5 DEF TextsOf
    <3>3. QED BY <3>1, <3>2
  <2>2. QED BY <2>1, <1>1 DEF TextsOf
<1>17. TextsOf(entries, work, meta, spoilt)'
  <2>1. TextsOf(entries', work', meta', spoilt') BY <1>5, <1>8, <1>13, <1>16
  <2>2. QED BY <2>1 DEF TextsOf, Replaces
<1>18. Ordered(work)' /\ Suits(entries, work)'
  <2>1. Ordered(work') /\ Suits(entries', work') BY <1>5, NoneLeft
  <2>2. QED BY <2>1 DEF Ordered, Suits, Writes, IsRemoval, WriteBody, WriteMeta, Loaded
<1>19. SumsAreExact'
  <2>1. Held' = HeldIn(n) BY <1>8 DEF Held, HeldIn
  <2>2. QED BY <2>1, <1>8, <1>12 DEF SumsAreExact
<1>20. Types'
  <2>1. bytes' \in Int /\ diskBytes' \in Int
    <3>1. m[k].size \in Nat BY <1>6, EntryCosts
    <3>2. bytes' \in Int BY <1>1 DEF CInv, Types
    <3>3. diskBytes' = diskBytes \/ diskBytes' = diskBytes + m[k].size BY <1>1, <1>2, <1>4
    <3>4. QED BY <3>1, <3>2, <3>3, <1>11
  <2>2. work' \in Seq(Ops) BY <1>5, NoneLeft
  <2>3. QED BY <2>1, <2>2, <1>1, <1>8, <1>9, <1>13, <1>14 DEF CInv, Types
<1>21. Capped(bytes, entries)'
  <2>1. ASSUME NEW j \in Keys, n[j] # None, Loaded(n[j]) PROVE m[j] # None /\ Loaded(m[j])
    BY <2>1, <1>6, <1>9, <1>10 DEF Loaded
  <2>2. Capped(bytes, m) BY <1>4 DEF CInv
  <2>3. Capped(bytes, n) BY <2>1, <2>2 DEF Capped
  <2>4. Capped(bytes', entries') BY <2>3, <1>1, <1>8
  <2>5. QED BY <2>4 DEF Capped, Loaded
<1>22. Apart(entries, meta, stores)'
  <2>1. ASSUME NEW j \in Keys PROVE StoresOf(n, t, j) \subseteq StoresOf(m, meta, j)
    <3>1. CASE j = k
      <4>1. \A i \in StoresOf(n, t, k) : i \in Int /\ i = m[k].store
        BY <1>5, <1>10, <1>14 DEF StoresOf
      <4>2. QED BY <4>1, <3>1, <1>6 DEF StoresOf
    <3>2. CASE j # k
      <4>1. n[j] = m[j] /\ t[j] = meta[j] BY <3>2, <1>9, <1>14
      <4>2. QED BY <4>1 DEF StoresOf
    <3>3. QED BY <3>1, <3>2
  <2>2. Apart(m, meta, stores) BY <1>4 DEF CInv
  <2>3. Apart(n, t, stores) BY <2>1, <2>2, ApartStays
  <2>4. Apart(entries', meta', stores') BY <2>3, <1>1, <1>8, <1>13
  <2>5. QED BY <2>4 DEF Apart, StoresOf
<1>23. up' BY <1>1, <1>5
<1>24. QED BY <1>17, <1>18, <1>19, <1>20, <1>21, <1>22, <1>23 DEF CInv

-----------------------------------------------------------------------------
(* Time, the end of the browser and its start, and the first state.         *)

\* No entries at all.
LEMMA EmptyMemory ==
    ASSUME NEW m, m = [k \in Keys |-> None], NEW w
    PROVE  /\ m \in Maps /\ HeldIn(m) = {} /\ CostOf(m, HeldIn(m)) = 0
           /\ DiskCostOf(m, HeldIn(m)) = 0 /\ \A b : Capped(b, m)
<1>1. m \in Maps /\ HeldIn(m) = {} BY DEF Maps, HeldIn
<1>2. CostOf(m, HeldIn(m)) = CostOf(m, {}) /\ DiskCostOf(m, HeldIn(m)) = DiskCostOf(m, {})
  BY <1>1, Zenon
<1>3. \A b : Capped(b, m) BY DEF Capped
<1>4. QED BY <1>1, <1>2, <1>3, SumsOfNone

LEMMA InitInv ==
    ASSUME Init
    PROVE  CInv
<1>1. PICK m : m = entries OBVIOUS
<1>2. m = [k \in Keys |-> None] BY <1>1 DEF Init
<1>3. /\ m \in Maps /\ HeldIn(m) = {} /\ CostOf(m, HeldIn(m)) = 0
      /\ DiskCostOf(m, HeldIn(m)) = 0 /\ \A b : Capped(b, m)
  BY <1>2, EmptyMemory
<1>4. Types
  <2>1. meta \in [Keys -> Text \cup {None}] /\ body \in [Keys -> BodyFile \cup {None}] BY DEF Init
  <2>2. work \in Seq(Ops) BY NoneLeft DEF Init
  <2>3. QED BY <2>1, <2>2, <1>1, <1>3 DEF Init, Types
<1>5. SumsAreExact BY <1>1, <1>3, HeldIs DEF Init, SumsAreExact
<1>6. Ordered(work) /\ Suits(entries, work) BY NoneLeft DEF Init
<1>7. TextsOf(entries, work, meta, spoilt) BY DEF Init, TextsOf
<1>8. Apart(entries, meta, stores)
  <2>1. \A k \in Keys : StoresOf(entries, meta, k) = {} BY DEF Init, StoresOf
  <2>2. QED BY <2>1 DEF Apart
<1>9. up /\ Capped(bytes, entries) BY <1>1, <1>3 DEF Init
<1>10. QED BY <1>4, <1>5, <1>6, <1>7, <1>8, <1>9 DEF CInv

LEMMA StopStep ==
    ASSUME CInv, Stop
    PROVE  CInv'
<1>1. PICK m : m = entries' OBVIOUS
<1>2. m = [k \in Keys |-> None] BY <1>1 DEF Stop
<1>3. /\ m \in Maps /\ HeldIn(m) = {} /\ CostOf(m, HeldIn(m)) = 0
      /\ DiskCostOf(m, HeldIn(m)) = 0 /\ \A b : Capped(b, m)
  BY <1>2, EmptyMemory
<1>4. bytes' = 0 /\ diskBytes' = 0 /\ work' = <<>> /\ up' = FALSE /\ UNCHANGED <<now, files, stores>>
  BY DEF Stop
<1>5. Held' = {} BY <1>1, <1>3 DEF Held, HeldIn
<1>6. Types'
  <2>1. work' \in Seq(Ops) BY <1>4, NoneLeft
  <2>2. entries' \in Maps BY <1>1, <1>3
  <2>3. /\ now' \in Nat /\ stores' \in Nat /\ meta' \in [Keys -> Text \cup {None}]
        /\ body' \in [Keys -> BodyFile \cup {None}]
    BY <1>4 DEF CInv, Types, files
  <2>4. bytes' \in Int /\ diskBytes' \in Int BY <1>4
  <2>5. up' \in BOOLEAN BY <1>4, Zenon
  <2>6. QED BY <2>1, <2>2, <2>3, <2>4, <2>5 DEF Types
<1>7. SumsAreExact'
  <2>1. HeldIn(m) = Held' BY <1>3, <1>5
  <2>2. QED BY <2>1, <1>1, <1>3, <1>4 DEF SumsAreExact
<1>8. Capped(bytes, entries)'
  <2>1. Capped(bytes', entries') BY <1>1, <1>3
  <2>2. QED BY <2>1 DEF Capped, Loaded
<1>9. Apart(entries, meta, stores)'
  <2>1. ASSUME NEW k \in Keys PROVE StoresOf(m, meta, k) \subseteq StoresOf(entries, meta, k)
    BY <1>2 DEF StoresOf
  <2>2. Apart(m, meta, stores) BY <2>1, ApartStays DEF CInv
  <2>3. Apart(entries', meta', stores') BY <2>2, <1>1, <1>4 DEF files
  <2>4. QED BY <2>3 DEF Apart, StoresOf
<1>10. Ordered(work)' /\ Suits(entries, work)'
  <2>1. Ordered(work') /\ Suits(entries', work') BY <1>4, NoneLeft
  <2>2. QED BY <2>1 DEF Ordered, Suits, Writes, IsRemoval, WriteBody, WriteMeta, Loaded
<1>11. QED BY <1>4, <1>5, <1>6, <1>7, <1>8, <1>9, <1>10 DEF CInv

LEMMA ReadBackIs ==
    ASSUME CInv, NEW k \in Keys, Paired(k)
    PROVE  /\ ReadBack(k) \in Entry /\ ReadBack(k) # None /\ meta[k] \in Text
           /\ ReadBack(k).store = meta[k].store /\ ReadBack(k).size = meta[k].size
           /\ ReadBack(k).onDisk /\ ~Loaded(ReadBack(k)) /\ ReadBack(k).body = None
<1>1. meta[k] \in Text BY DEF CInv, Types, Paired
<1>2. PICK x \in Text : x = meta[k] BY <1>1
<1>3. ReadBack(k) = [store |-> x.store, size |-> x.size, at |-> x.at, freshUntil |-> x.freshUntil,
                     validator |-> x.validator, body |-> None, onDisk |-> TRUE]
  BY <1>2 DEF ReadBack
<1>4. ReadBack(k) \in Entry BY <1>3 DEF Entry, Text
<1>5. ReadBack(k) # None BY <1>4, NothingAssumption DEF NothingAssumption
<1>6. QED BY <1>2, <1>3, <1>4, <1>5 DEF Loaded

LEMMA StartStep ==
    ASSUME CInv, Start
    PROVE  CInv'
<1>1. PICK m : m = entries' OBVIOUS
<1>2. PICK t : t = meta' OBVIOUS
<1>3. PICK P : P = {k \in Keys : Paired(k)} OBVIOUS
<1>4. /\ m = [k \in Keys |-> IF Paired(k) THEN ReadBack(k) ELSE None]
      /\ bytes' = CostOf(m, P) /\ diskBytes' = DiskCostOf(m, P)
      /\ up' /\ ~up /\ UNCHANGED <<now, work, stores>>
  BY <1>1, <1>3 DEF Start
<1>n. PICK lone : /\ t = [k \in Keys |-> IF Paired(k) \/ k \in lone THEN meta[k] ELSE None]
                  /\ body' = [k \in Keys |-> IF Paired(k) \/ k \in lone THEN body[k] ELSE None]
                  /\ spoilt' = spoilt \cup {k \in lone : meta[k] # None}
  BY <1>2 DEF Start
<1>5. ASSUME NEW k \in P
      PROVE  /\ k \in Keys /\ m[k] = ReadBack(k) /\ m[k] \in Entry /\ m[k] # None
             /\ t[k] = meta[k] /\ t[k] \in Text /\ t[k] # None /\ m[k].store = t[k].store
             /\ m[k].size = t[k].size /\ m[k].onDisk /\ ~Loaded(m[k])
  <2>1. k \in Keys /\ Paired(k) BY <1>3
  <2>2. /\ ReadBack(k) \in Entry /\ ReadBack(k) # None /\ meta[k] \in Text
        /\ ReadBack(k).store = meta[k].store /\ ReadBack(k).size = meta[k].size
        /\ ReadBack(k).onDisk /\ ~Loaded(ReadBack(k))
    BY <2>1, ReadBackIs
  <2>3. m[k] = ReadBack(k) /\ t[k] = meta[k] BY <2>1, <1>4, <1>n
  <2>4. meta[k] # None BY <2>1 DEF Paired
  <2>5. QED BY <2>1, <2>2, <2>3, <2>4
<1>6. ASSUME NEW k \in Keys \ P
      PROVE  m[k] = None /\ (t[k] = None \/ (t[k] = meta[k] /\ k \in spoilt'))
  BY <1>3, <1>4, <1>n
<1>7. m \in Maps /\ t \in [Keys -> Text \cup {None}]
  <2>1. m = [k \in Keys |-> m[k]] /\ t = [k \in Keys |-> t[k]] BY <1>4, <1>n
  <2>2. \A k \in Keys : m[k] \in Entry \cup {None} /\ t[k] \in Text \cup {None}
    BY <1>5, <1>6 DEF CInv, Types
  <2>3. QED BY <2>1, <2>2 DEF Maps
<1>8. HeldIn(m) = P /\ P \in SUBSET P
  <2>1. \A k \in Keys : m[k] # None <=> k \in P BY <1>5, <1>6
  <2>2. P \in SUBSET Keys BY <1>3
  <2>3. QED BY <2>1, <2>2 DEF HeldIn
<1>9. work' = <<>> BY <1>4 DEF CInv
<1>10. Types'
  <2>1. bytes' \in Nat /\ diskBytes' \in Nat BY <1>4, <1>7, <1>8, SumsAreNumbers
  <2>2. body' \in [Keys -> BodyFile \cup {None}] BY <1>n DEF CInv, Types
  <2>3. work' \in Seq(Ops) BY <1>9, NoneLeft
  <2>4. QED BY <2>1, <2>2, <2>3, <1>1, <1>2, <1>4, <1>7 DEF CInv, Types
<1>11. SumsAreExact'
  <2>1. Held' = P BY <1>1, <1>8 DEF Held, HeldIn
  <2>2. QED BY <2>1, <1>1, <1>4 DEF SumsAreExact
<1>12. Capped(bytes, entries)'
  <2>1. \A k \in Keys : m[k] # None => ~Loaded(m[k]) BY <1>5, <1>6
  <2>2. Capped(bytes', m) BY <2>1 DEF Capped
  <2>3. QED BY <2>2, <1>1 DEF Capped, Loaded
<1>13. Apart(entries, meta, stores)'
  <2>1. ASSUME NEW k \in Keys PROVE StoresOf(m, t, k) \subseteq StoresOf(entries, meta, k)
    <3>1. CASE k \in P BY <3>1, <1>5 DEF StoresOf
    <3>2. CASE k \notin P BY <3>2, <1>6 DEF StoresOf
    <3>3. QED BY <3>1, <3>2
  <2>2. Apart(m, t, stores) BY <2>1, ApartStays DEF CInv
  <2>3. Apart(entries', meta', stores') BY <2>2, <1>1, <1>2, <1>4
  <2>4. QED BY <2>3 DEF Apart, StoresOf
<1>14. Ordered(work)' /\ Suits(entries, work)'
  <2>1. Ordered(work') /\ Suits(entries', work') BY <1>9, NoneLeft
  <2>2. QED BY <2>1 DEF Ordered, Suits, Writes, IsRemoval, WriteBody, WriteMeta, Loaded
<1>15. TextsOf(entries, work, meta, spoilt)'
  <2>1. ASSUME NEW k \in Keys
        PROVE  /\ m[k] # None /\ m[k].onDisk =>
                    /\ t[k] # None /\ ~Replaces(<<>>, k)
                    /\ m[k].store = t[k].store /\ m[k].size = t[k].size
               /\ t[k] # None /\ ~Replaces(<<>>, k) /\ k \notin spoilt' => m[k] # None /\ m[k].onDisk
    BY <1>5, <1>6, NoneLeft
  <2>2. TextsOf(entries', work', meta', spoilt') BY <2>1, <1>1, <1>2, <1>9 DEF TextsOf
  <2>3. QED BY <2>2 DEF TextsOf, Replaces
<1>16. QED BY <1>4, <1>10, <1>11, <1>12, <1>13, <1>14, <1>15 DEF CInv

\* A step of no component of the cache, and the passing of time.
LEMMA IdleStep ==
    ASSUME CInv, UNCHANGED <<up, memory, files, work, stores, spoilt>>, now' \in Nat
    PROVE  CInv'
<1>1. SumsAreExact' /\ Capped(bytes, entries)' BY EntriesKept DEF memory
<1>2. Types' BY DEF CInv, Types, memory, files
<1>3. Apart(entries, meta, stores)' BY DEF CInv, Apart, StoresOf, memory, files
<1>4. Ordered(work)' BY DEF CInv, Ordered, IsRemoval
<1>5. Suits(entries, work)'
  <2>1. Suits(entries', work') BY DEF CInv, memory
  <2>2. QED BY <2>1 DEF Suits, Writes, IsRemoval, WriteBody, WriteMeta, Loaded
<1>6. up' => TextsOf(entries, work, meta, spoilt)'
  <2>1. up' => TextsOf(entries', work', meta', spoilt') BY DEF CInv, memory, files
  <2>2. QED BY <2>1 DEF TextsOf, Replaces
<1>7. ~up' => work' = <<>> /\ Held' = {} BY DEF CInv, Held, memory
<1>8. QED BY <1>1, <1>2, <1>3, <1>4, <1>5, <1>6, <1>7 DEF CInv

LEMMA NextKeeps ==
    ASSUME CInv, [Next]_vars
    PROVE  CInv'
<1>1. CASE Next
  <2>1. ASSUME NEW k \in Keys, Lookup(k) PROVE CInv' BY <2>1, LookupStep
  <2>2. ASSUME NEW k \in Keys, NEW life \in Lives, NEW validator \in BOOLEAN,
               Refresh(k, life, validator)
        PROVE  CInv'
    BY <2>2, RefreshStep
  <2>3. ASSUME NEW k \in Keys, NEW r \in Responses, Store(k, r) PROVE CInv' BY <2>3, StoreStep
  <2>4. CASE Clear BY <2>4, ClearStep
  <2>5. CASE RemoveFile BY <2>5, RemoveFileStep
  <2>6. ASSUME NEW how \in {"whole"} \cup (Failures \ {"stays"}), WriteFileBody(how) PROVE CInv'
    BY <2>6, WriteFileBodyStep
  <2>7. CASE WriteFileMeta BY <2>7, WriteFileMetaStep
  <2>8. CASE MetaNotWritten BY <2>8, MetaNotWrittenStep
  <2>9. CASE Tick
    <3>1. now' \in Nat /\ UNCHANGED <<up, memory, files, work, stores, spoilt>> BY <2>9 DEF Tick, CInv, Types
    <3>2. QED BY <3>1, IdleStep
  <2>10. CASE Stop BY <2>10, StopStep
  <2>11. CASE Start BY <2>11, StartStep
  <2>12. CASE FileStays BY <2>12, FileStaysStep
  <2>13. QED
    BY <1>1, <2>1, <2>2, <2>3, <2>4, <2>5, <2>6, <2>7, <2>8, <2>9, <2>10, <2>11, <2>12 DEF Next
<1>2. CASE UNCHANGED vars
  <2>1. now' \in Nat /\ UNCHANGED <<up, memory, files, work, stores, spoilt>> BY <1>2 DEF vars, CInv, Types
  <2>2. QED BY <2>1, IdleStep
<1>3. QED BY <1>1, <1>2

-----------------------------------------------------------------------------
(* The theorems about the cache itself. *)

\* The invariant holds in every state, whatever fails and wherever it stops.
THEOREM CacheInvariant == Spec => []CInv
<1>1. Init => CInv BY InitInv
<1>2. CInv /\ [Next]_vars => CInv' BY NextKeeps
<1>3. QED BY <1>1, <1>2, PTL DEF Spec

\* m_bytes and m_disk_bytes are what the entries hold (cost_of, drop, store,
\* refresh, load_body, set_directory).
THEOREM SumsHold == Spec => []SumsAreExact
<1>1. CInv => SumsAreExact BY DEF CInv
<1>2. QED BY <1>1, CacheInvariant, PTL

\* Memory goes over m_max_total_bytes for one loaded body at most (evict_to_fit).
THEOREM CapHolds == Spec => []OverCapForOneOnly
<1>1. ASSUME CInv PROVE OverCapForOneOnly
  <2>1. SUFFICES ASSUME bytes > MaxTotal
                 PROVE  Cardinality({k \in Held : Loaded(entries[k])}) <= 1
    BY DEF OverCapForOneOnly
  <2>2. PICK S : S = {k \in Held : Loaded(entries[k])} OBVIOUS
  <2>3. \A i, j \in S : i = j BY <2>1, <2>2, <1>1 DEF CInv, Capped, Held
  <2>4. Cardinality(S) <= 1
    <3>1. CASE S = {} BY <3>1, FS_EmptySet
    <3>2. CASE S # {}
      <4>1. PICK x : x \in S BY <3>2
      <4>2. S = {x} BY <4>1, <2>3
      <4>3. QED BY <4>2, FS_Singleton
    <3>3. QED BY <3>1, <3>2
  <2>5. QED BY <2>2, <2>4
<1>2. QED BY <1>1, CacheInvariant, PTL

\* A store has made room on disk before it writes (evict_disk_to_fit, store).
THEOREM RoomFirst == Spec => RoomOnDiskFirst
<1>1. ASSUME CInv, [Next]_vars
      PROVE  [stores' # stores =>
                \A k \in Keys : entries'[k] # None /\ entries'[k].store = stores' =>
                    diskBytes' + entries'[k].size <= MaxDisk]_vars
  <2>1. SUFFICES ASSUME Next, stores' # stores, NEW j \in Keys, entries'[j] # None,
                        entries'[j].store = stores'
                 PROVE  diskBytes' + entries'[j].size <= MaxDisk
    BY <1>1
  <2>2. PICK k \in Keys, r \in Responses : Store(k, r)
    BY <2>1 DEF Next, Lookup, Refresh, Clear, RemoveFile, FileStays, WriteFileBody, WriteFileMeta,
                MetaNotWritten, Tick, Stop, Start
  <2>3. QED BY <1>1, <2>1, <2>2, StoreHasRoom
<1>2. QED BY <1>1, CacheInvariant, PTL DEF Spec, RoomOnDiskFirst

\* Between calls the texts in the directory are those of the entries on disk
\* (drop, write_entry, set_directory).
THEOREM FilesFollow == Spec => []FilesFollowEntries
<1>1. ASSUME CInv PROVE FilesFollowEntries
  <2>1. SUFFICES ASSUME Free, NEW k \in Keys
                 PROVE  /\ k \in Held /\ entries[k].onDisk =>
                              meta[k] # None /\ meta[k].store = entries[k].store
                        /\ meta[k] # None => (k \in Held /\ entries[k].onDisk) \/ k \in spoilt
    BY DEF FilesFollowEntries
  <2>2. TextsOf(entries, <<>>, meta, spoilt) BY <1>1, <2>1 DEF CInv, Free
  <2>3. ~Replaces(<<>>, k) BY NoneLeft
  <2>4. QED BY <2>2, <2>3 DEF TextsOf, Held
<1>2. QED BY <1>1, CacheInvariant, PTL

-----------------------------------------------------------------------------
(* What a lookup would find of a URL, from its entry, text and body.  The URLs *)
(* that are spoilt are left out: their files may be of two stores.             *)

\* A body there is that of its text and of its entry, but for the one that is
\* still to be written.
Backed(e, t, b) ==
    /\ t # None /\ b # None => b.store = t.store
    /\ e # None => (Loaded(e) => e.body = e.store) /\ (e.onDisk \/ Loaded(e))
BodyOf(e, b) == e # None /\ b # None => b.store = e.store

BInv ==
    \A k \in Keys \ spoilt : /\ Backed(entries[k], meta[k], body[k])
                             /\ ~Writes(work, k) => BodyOf(entries[k], body[k])

Whole(store) == [headers |-> store, body |-> store]
InMemory(e, b) ==
    IF e # None /\ (Loaded(e) \/ (b # None /\ e.onDisk /\ b.length >= e.size))
      THEN Whole(e.store) ELSE None
InFiles(t, b) ==
    IF t # None /\ b # None /\ b.length >= t.size THEN Whole(t.store) ELSE None

Live(k) == up /\ ~Replaces(work, k)
Seen(k) == IF Live(k) THEN InMemory(entries[k], body[k]) ELSE InFiles(meta[k], body[k])

\* What a call that has found the files as they are leaves of a URL: its entry,
\* perhaps with its body loaded or let go of, or none, its files to be removed.
Left(e, b, f) ==
    f # None =>
       /\ e # None /\ f.store = e.store /\ f.size = e.size /\ f.onDisk = e.onDisk
       /\ \/ f.body = e.body
          \/ f.body = None /\ f.onDisk
          \/ b # None /\ e.onDisk /\ b.length >= e.size /\ f.body = b.store
FilesGo(e, f) == f = None /\ e # None /\ e.onDisk

LEMMA LeftSeen ==
    ASSUME NEW e \in Entry \cup {None}, NEW t \in Text \cup {None}, NEW b \in BodyFile \cup {None},
           NEW f \in Entry \cup {None}, Left(e, b, f), Backed(e, t, b), BodyOf(e, b),
           t # None <=> e # None /\ e.onDisk,
           t # None => e.store = t.store /\ e.size = t.size
    PROVE  /\ Backed(f, t, b) /\ BodyOf(f, b)
           /\ ~FilesGo(e, f) => InMemory(f, b) \in {InMemory(e, b), None}
           /\ FilesGo(e, f) => InFiles(t, b) \in {InMemory(e, b), None}
<1>1. CASE f = None
  <2>1. Backed(f, t, b) /\ BodyOf(f, b) BY <1>1 DEF Backed, BodyOf
  <2>2. InMemory(f, b) = None BY <1>1 DEF InMemory
  <2>3. ASSUME FilesGo(e, f) PROVE InFiles(t, b) \in {InMemory(e, b), None}
    <3>1. e # None /\ e.onDisk /\ t # None /\ e.store = t.store /\ e.size = t.size
      BY <1>1, <2>3 DEF FilesGo
    <3>2. CASE b # None /\ b.length >= t.size
      <4>1. InFiles(t, b) = Whole(t.store) BY <3>1, <3>2 DEF InFiles
      <4>2. InMemory(e, b) = Whole(e.store) BY <3>1, <3>2 DEF InMemory
      <4>3. QED BY <4>1, <4>2, <3>1
    <3>3. CASE ~(b # None /\ b.length >= t.size) BY <3>3 DEF InFiles
    <3>4. QED BY <3>2, <3>3
  <2>4. QED BY <2>1, <2>2, <2>3
<1>2. CASE f # None
  <2>1. /\ ~FilesGo(e, f) /\ e # None /\ f.store = e.store /\ f.size = e.size /\ f.onDisk = e.onDisk
        /\ \/ f.body = e.body
           \/ f.body = None /\ f.onDisk
           \/ b # None /\ e.onDisk /\ b.length >= e.size /\ f.body = b.store
    BY <1>2 DEF Left, FilesGo
  <2>2. (b # None => b.store = e.store) /\ (Loaded(e) => e.body = e.store) /\ (e.onDisk \/ Loaded(e))
    BY <2>1 DEF Backed, BodyOf
  <2>3. Loaded(f) => f.body = f.store
    <3>1. CASE f.body = e.body BY <3>1, <2>1, <2>2 DEF Loaded
    <3>2. CASE f.body = None BY <3>2 DEF Loaded
    <3>3. CASE b # None /\ f.body = b.store BY <3>3, <2>1, <2>2
    <3>4. QED BY <2>1, <3>1, <3>2, <3>3
  <2>4. f.onDisk \/ Loaded(f)
    <3>1. CASE f.body = e.body BY <3>1, <2>1, <2>2 DEF Loaded
    <3>2. CASE f.onDisk BY <3>2
    <3>3. CASE e.onDisk BY <3>3, <2>1
    <3>4. QED BY <2>1, <3>1, <3>2, <3>3
  <2>5. Backed(f, t, b) /\ BodyOf(f, b)
    <3>1. t # None /\ b # None => b.store = t.store BY DEF Backed
    <3>2. QED BY <3>1, <2>1, <2>2, <2>3, <2>4 DEF Backed, BodyOf
  <2>6. InMemory(f, b) \in {InMemory(e, b), None}
    <3>1. SUFFICES ASSUME InMemory(f, b) # None PROVE InMemory(f, b) = InMemory(e, b) OBVIOUS
    <3>2. Loaded(f) \/ (b # None /\ f.onDisk /\ b.length >= f.size) BY <3>1 DEF InMemory
    <3>3. InMemory(f, b) = Whole(f.store) BY <3>1, <3>2, <1>2 DEF InMemory
    <3>4. Loaded(e) \/ (b # None /\ e.onDisk /\ b.length >= e.size)
      <4>1. CASE Loaded(f) BY <4>1, <2>1 DEF Loaded
      <4>2. CASE b # None /\ f.onDisk /\ b.length >= f.size BY <4>2, <2>1
      <4>3. QED BY <3>2, <4>1, <4>2
    <3>5. InMemory(e, b) = Whole(e.store) BY <3>4, <2>1 DEF InMemory
    <3>6. QED BY <3>3, <3>5, <2>1
  <2>7. QED BY <2>1, <2>5, <2>6
<1>3. QED BY <1>1, <1>2

LEMMA LeftIs ==
    ASSUME CInv, up, work = <<>>, NEW k, NEW f, NEW c,
           Kept(f), f.work = <<>>, LoadedFrom(f.entries, k), Kept(c), Shrinks(f, c), NEW j \in Keys
    PROVE  /\ Left(entries[j], body[j], c.entries[j])
           /\ Replaces(c.work, j) <=> FilesGo(entries[j], c.entries[j])
           /\ j \in Gone(f.entries, c.entries) <=> FilesGo(entries[j], c.entries[j])
           /\ ~Writes(c.work, j)
<1>1. PICK m : m = f.entries OBVIOUS
<1>2. PICK n : n = c.entries OBVIOUS
<1>3. Shrunk(m, n, c.work) BY <1>1, <1>2, CallLeaves
<1>4. LoadedFrom(m, k) BY <1>1
<1>5. /\ m[j] # None <=> entries[j] # None
      /\ m[j] # None => /\ m[j].store = entries[j].store /\ m[j].size = entries[j].size
                        /\ m[j].onDisk = entries[j].onDisk
  BY <1>4, LoadedIs
<1>6. m[j] # None => \/ m[j].body = entries[j].body
                     \/ /\ body[j] # None /\ entries[j].onDisk /\ body[j].length >= entries[j].size
                        /\ m[j].body = body[j].store
  <2>1. CASE m = entries BY <2>1
  <2>2. CASE /\ k \in Held /\ ~Loaded(entries[k]) /\ Readable(k)
             /\ m = [entries EXCEPT ![k].body = body[k].store]
    <3>1. k \in Keys /\ entries \in Maps BY <2>2 DEF Held, CInv, Types
    <3>2. CASE j # k
      <4>1. m[j] = entries[j] BY <3>1, <3>2, <2>2 DEF Maps
      <4>2. QED BY <4>1
    <3>3. CASE j = k
      <4>1. entries[k] \in Entry BY <3>1, <2>2, HeldIs, HeldEntry
      <4>2. PICK g : g = entries OBVIOUS
      <4>3. PICK b : b = body[k].store OBVIOUS
      <4>4. m = [g EXCEPT ![k].body = b] BY <2>2, <4>2, <4>3
      <4>5. m[k] = [g[k] EXCEPT !.body = b] BY <4>2, <4>4, <3>1 DEF Maps
      <4>6. m[k].body = b BY <4>1, <4>2, <4>5 DEF Entry
      <4>7. QED BY <4>3, <4>6, <3>3, <2>2 DEF Readable
    <3>4. QED BY <3>2, <3>3
  <2>3. QED BY <1>4, <2>1, <2>2 DEF LoadedFrom
<1>7. /\ n[j] = None => (j \in Gone(m, n) <=> m[j] # None /\ m[j].onDisk)
      /\ n[j] # None => /\ j \notin Gone(m, n) /\ m[j] # None
                        /\ n[j].store = m[j].store /\ n[j].size = m[j].size
                        /\ n[j].onDisk = m[j].onDisk
                        /\ (n[j].body = m[j].body \/ (n[j].body = None /\ n[j].onDisk))
  BY <1>3, LessenedIs
<1>8. /\ ~Writes(c.work, j)
      /\ Replaces(c.work, j) <=> j \in Gone(m, n)
  BY <1>3, ShrunkOps
<1>9. Left(entries[j], body[j], n[j])
  <2>1. SUFFICES ASSUME n[j] # None PROVE Left(entries[j], body[j], n[j]) BY DEF Left
  <2>2. /\ entries[j] # None /\ n[j].store = entries[j].store /\ n[j].size = entries[j].size
        /\ n[j].onDisk = entries[j].onDisk
    BY <1>5, <1>7, <2>1
  <2>3. \/ n[j].body = entries[j].body
        \/ n[j].body = None /\ n[j].onDisk
        \/ /\ body[j] # None /\ entries[j].onDisk /\ body[j].length >= entries[j].size
           /\ n[j].body = body[j].store
    BY <1>6, <1>7, <2>1
  <2>4. QED BY <2>2, <2>3 DEF Left
<1>10. j \in Gone(m, n) <=> FilesGo(entries[j], n[j]) BY <1>5, <1>7 DEF FilesGo
<1>11. QED BY <1>1, <1>2, <1>8, <1>9, <1>10

\* The entries and texts of a URL between calls.
LEMMA BetweenCalls ==
    ASSUME CInv, BInv, up, work = <<>>, NEW k \in Keys \ spoilt
    PROVE  /\ entries[k] \in Entry \cup {None} /\ meta[k] \in Text \cup {None}
           /\ body[k] \in BodyFile \cup {None}
           /\ Backed(entries[k], meta[k], body[k]) /\ BodyOf(entries[k], body[k])
           /\ meta[k] # None <=> entries[k] # None /\ entries[k].onDisk
           /\ meta[k] # None => entries[k].store = meta[k].store /\ entries[k].size = meta[k].size
           /\ Seen(k) = InMemory(entries[k], body[k])
<1>1. /\ entries[k] \in Entry \cup {None} /\ meta[k] \in Text \cup {None}
      /\ body[k] \in BodyFile \cup {None}
  BY DEF CInv, Types, Maps
<1>2. ~Writes(work, k) /\ ~Replaces(work, k) BY NoneLeft
<1>3. Backed(entries[k], meta[k], body[k]) /\ BodyOf(entries[k], body[k]) BY <1>2 DEF BInv
<1>4. /\ meta[k] # None <=> entries[k] # None /\ entries[k].onDisk
      /\ meta[k] # None => entries[k].store = meta[k].store /\ entries[k].size = meta[k].size
  BY <1>2 DEF CInv, TextsOf
<1>5. Seen(k) = InMemory(entries[k], body[k]) BY <1>2 DEF Seen, Live
<1>6. QED BY <1>1, <1>3, <1>4, <1>5

\* A URL that a call has let be, or let go of.
LEMMA CallShows ==
    ASSUME CInv, BInv, up, work = <<>>, UNCHANGED <<up, files>>, NEW k \in Keys \ spoilt,
           entries'[k] \in Entry \cup {None}, ~Writes(work', k),
           Left(entries[k], body[k], entries'[k]),
           Replaces(work', k) <=> FilesGo(entries[k], entries'[k])
    PROVE  /\ Backed(entries'[k], meta'[k], body'[k]) /\ BodyOf(entries'[k], body'[k])
           /\ Seen(k)' \in {Seen(k), None}
<1>1. PICK e : e = entries[k] OBVIOUS
<1>2. PICK t : t = meta[k] OBVIOUS
<1>3. PICK b : b = body[k] OBVIOUS
<1>4. PICK f : f = entries'[k] OBVIOUS
<1>6. /\ e \in Entry \cup {None} /\ t \in Text \cup {None} /\ b \in BodyFile \cup {None}
      /\ Backed(e, t, b) /\ BodyOf(e, b)
      /\ t # None <=> e # None /\ e.onDisk
      /\ t # None => e.store = t.store /\ e.size = t.size
      /\ Seen(k) = InMemory(e, b)
  BY <1>1, <1>2, <1>3, BetweenCalls
<1>7. f \in Entry \cup {None} /\ Left(e, b, f) BY <1>1, <1>3, <1>4
<1>8. /\ Backed(f, t, b) /\ BodyOf(f, b)
      /\ ~FilesGo(e, f) => InMemory(f, b) \in {InMemory(e, b), None}
      /\ FilesGo(e, f) => InFiles(t, b) \in {InMemory(e, b), None}
  BY <1>6, <1>7, LeftSeen
<1>9. meta'[k] = t /\ body'[k] = b BY <1>2, <1>3 DEF files
<1>10. Backed(entries'[k], meta'[k], body'[k]) /\ BodyOf(entries'[k], body'[k])
  BY <1>4, <1>8, <1>9
<1>11. Seen(k)' = IF ~FilesGo(e, f) THEN InMemory(f, b) ELSE InFiles(t, b)
  <2>1. Seen(k)' = IF up' /\ ~Replaces(work', k) THEN InMemory(entries'[k], body'[k])
                   ELSE InFiles(meta'[k], body'[k])
    BY DEF Seen, Live, Replaces, InMemory, InFiles, Loaded, Whole
  <2>2. up' OBVIOUS
  <2>3. QED BY <2>1, <2>2, <1>1, <1>4, <1>9
<1>12. Seen(k)' \in {Seen(k), None} BY <1>6, <1>8, <1>11
<1>13. QED BY <1>10, <1>12

\* An entry whose URL's old text has still to be removed: no lookup has seen it.
Waits(m, w, k) == m[k] # None /\ Replaces(w, k)
UsedOf(m, w, n) == {s \in Int : /\ 1 <= s /\ s <= n
                                /\ \A k \in Keys : Waits(m, w, k) => m[k].store # s}
Used == UsedOf(entries, work, stores)

\* What a step may do to what lookups find, and what it may hand out.
Change ==
    /\ \A k \in Keys \ spoilt' :
          Seen(k)' \in {Seen(k), None} \/ \E s \in Used' \ Used : Seen(k)' = Whole(s)
    /\ Used \subseteq Used' /\ spoilt \subseteq spoilt'
HandsOut(k) == served'.url = k /\ (k \in spoilt' \/ served' = [url |-> k, response |-> Seen(k)'])
Shows == Change /\ (served' \in {served, None} \/ \E k \in Keys : HandsOut(k))

LEMMA UsedGrows ==
    ASSUME NEW m, NEW w, NEW n \in Int, NEW o, NEW u, NEW p \in Int, n <= p,
           \A k \in Keys : Waits(o, u, k) =>
               o[k].store \in Int /\ (o[k].store > n \/ (Waits(m, w, k) /\ o[k].store = m[k].store))
    PROVE  UsedOf(m, w, n) \subseteq UsedOf(o, u, p)
<1> SUFFICES ASSUME NEW s \in UsedOf(m, w, n) PROVE s \in UsedOf(o, u, p) OBVIOUS
<1>1. s \in Int /\ 1 <= s /\ s <= n /\ \A k \in Keys : Waits(m, w, k) => m[k].store # s
  BY DEF UsedOf
<1>2. ASSUME NEW k \in Keys, Waits(o, u, k) PROVE o[k].store # s
  <2>1. CASE o[k].store > n BY <1>1, <2>1
  <2>2. CASE Waits(m, w, k) /\ o[k].store = m[k].store BY <1>1, <2>2
  <2>3. QED BY <1>2, <2>1, <2>2
<1>3. QED BY <1>1, <1>2 DEF UsedOf

LEMMA SeenNext ==
    ASSUME NEW k
    PROVE  /\ up' /\ ~Replaces(work', k) => Seen(k)' = InMemory(entries'[k], body'[k])
           /\ ~(up' /\ ~Replaces(work', k)) => Seen(k)' = InFiles(meta'[k], body'[k])
<1>1. Seen(k)' = IF up' /\ ~Replaces(work', k) THEN InMemory(entries'[k], body'[k])
                 ELSE InFiles(meta'[k], body'[k])
  BY DEF Seen, Live, Replaces, InMemory, InFiles, Loaded, Whole
<1>2. QED BY <1>1

LEMMA BInvNext ==
    ASSUME \A k \in Keys \ spoilt' : /\ Backed(entries'[k], meta'[k], body'[k])
                                     /\ ~Writes(work', k) => BodyOf(entries'[k], body'[k])
    PROVE  BInv'
BY DEF BInv, Backed, BodyOf, Writes, Loaded

LEMMA UsedNext == Used' = UsedOf(entries', work', stores')
BY DEF Used, UsedOf, Waits, Replaces

\* A call that stores nothing.
LEMMA CallsShow ==
    ASSUME CInv, BInv, up, work = <<>>, UNCHANGED <<up, files, stores, spoilt>>,
           \A j \in Keys :
               /\ entries'[j] \in Entry \cup {None} /\ ~Writes(work', j)
               /\ Left(entries[j], body[j], entries'[j])
               /\ Replaces(work', j) <=> FilesGo(entries[j], entries'[j])
    PROVE  /\ BInv' /\ Change
           /\ \A j \in Keys : entries'[j] # None => Seen(j)' = InMemory(entries'[j], body'[j])
<1>1. ASSUME NEW k \in Keys \ spoilt
      PROVE  /\ Backed(entries'[k], meta'[k], body'[k]) /\ BodyOf(entries'[k], body'[k])
             /\ Seen(k)' \in {Seen(k), None}
  BY <1>1, CallShows
<1>2. BInv' BY <1>1, BInvNext
<1>3. Used \subseteq Used'
  <2>1. ASSUME NEW k \in Keys PROVE ~Waits(entries', work', k)
    BY DEF Waits, FilesGo
  <2>2. stores \in Int /\ stores' = stores BY DEF CInv, Types
  <2>3. UsedOf(entries, work, stores) \subseteq UsedOf(entries', work', stores')
    <3>1. PICK m : m = entries OBVIOUS
    <3>2. PICK w : w = work OBVIOUS
    <3>3. PICK o : o = entries' OBVIOUS
    <3>4. PICK u : u = work' OBVIOUS
    <3>5. \A k \in Keys : ~Waits(o, u, k) BY <2>1, <3>3, <3>4
    <3>6. UsedOf(m, w, stores) \subseteq UsedOf(o, u, stores) BY <2>2, <3>5, UsedGrows
    <3>7. QED BY <2>2, <3>1, <3>2, <3>3, <3>4, <3>6
  <2>4. QED BY <2>3, UsedNext DEF Used
<1>4. ASSUME NEW j \in Keys, entries'[j] # None PROVE Seen(j)' = InMemory(entries'[j], body'[j])
  <2>1. ~Replaces(work', j) BY <1>4 DEF FilesGo
  <2>2. up' OBVIOUS
  <2>3. QED BY <2>1, <2>2, SeenNext
<1>5. QED BY <1>1, <1>2, <1>3, <1>4 DEF Change

LEMMA CallEndsShown ==
    ASSUME CInv, BInv, up, work = <<>>, UNCHANGED <<up, files, stores, spoilt>>, NEW k, NEW f, NEW c,
           Kept(f), f.work = <<>>, LoadedFrom(f.entries, k), Kept(c), Shrinks(f, c), Becomes(c)
    PROVE  /\ BInv' /\ Change
           /\ \A j \in Keys : entries'[j] # None => Seen(j)' = InMemory(entries'[j], body'[j])
<1>1. entries' = c.entries /\ work' = c.work BY DEF Becomes
<1>2. ASSUME NEW j \in Keys
      PROVE  /\ entries'[j] \in Entry \cup {None} /\ ~Writes(work', j)
             /\ Left(entries[j], body[j], entries'[j])
             /\ Replaces(work', j) <=> FilesGo(entries[j], entries'[j])
  <2>1. /\ Left(entries[j], body[j], c.entries[j])
        /\ Replaces(c.work, j) <=> FilesGo(entries[j], c.entries[j])
        /\ ~Writes(c.work, j)
    BY LeftIs
  <2>2. c.entries[j] \in Entry \cup {None} BY DEF Kept, Maps
  <2>3. QED BY <1>1, <2>1, <2>2
<1>3. QED BY <1>2, CallsShow

\* An entry with its body in memory is found with it.
LEMMA LoadedSeen ==
    ASSUME BInv', NEW k \in Keys \ spoilt', entries'[k] # None, Loaded(entries'[k]),
           Seen(k)' = InMemory(entries'[k], body'[k])
    PROVE  Seen(k)' = [headers |-> entries'[k].store, body |-> entries'[k].body]
<1>1. PICK e : e = entries'[k] OBVIOUS
<1>2. Backed(entries'[k], meta'[k], body'[k]) BY DEF BInv, Backed, Loaded
<1>3. e.body = e.store BY <1>1, <1>2 DEF Backed
<1>4. Seen(k)' = Whole(e.store) BY <1>1 DEF InMemory
<1>5. QED BY <1>1, <1>3, <1>4 DEF Whole

\* What is handed out with its body in memory is what the URL is then found with.
LEMMA HandedOut ==
    ASSUME BInv', NEW k \in Keys, entries'[k] # None, Loaded(entries'[k]),
           Seen(k)' = InMemory(entries'[k], body'[k]), served' = HandOut(k, entries'[k])
    PROVE  HandsOut(k)
<1>1. served' = [url |-> k, response |-> Answer(entries'[k])] BY DEF HandOut
<1>2. ASSUME k \notin spoilt' PROVE Seen(k)' = Answer(entries'[k])
  BY <1>2, LoadedSeen DEF Answer
<1>3. QED BY <1>1, <1>2 DEF HandsOut

LEMMA LookupShows ==
    ASSUME CInv, BInv, NEW k \in Keys, Lookup(k)
    PROVE  BInv' /\ Shows
<1>1. up /\ work = <<>> /\ k \in Held BY DEF Lookup, Free
<1>2. PICK c \in Found(k) :
        /\ Becomes(c)
        /\ served' = IF c.entries[k] = None THEN None
                     ELSE HandOut(k, c.entries[k])
  BY DEF Lookup
<1>3. UNCHANGED <<up, now, files, stores, spoilt>> BY DEF Lookup
<1>4. Kept(c) /\ \E f : /\ Kept(f) /\ f.work = <<>> /\ LoadedFrom(f.entries, k) /\ Shrinks(f, c)
                        /\ c.entries[k] # None => c.entries[k] = f.entries[k] /\ Loaded(c.entries[k])
  BY <1>1, <1>2, FoundIs
<1>5. PICK f : /\ Kept(f) /\ f.work = <<>> /\ LoadedFrom(f.entries, k) /\ Shrinks(f, c)
               /\ c.entries[k] # None => c.entries[k] = f.entries[k] /\ Loaded(c.entries[k])
  BY <1>4
<1>6. /\ BInv' /\ Change
      /\ \A j \in Keys : entries'[j] # None => Seen(j)' = InMemory(entries'[j], body'[j])
  BY <1>1, <1>2, <1>3, <1>4, <1>5, CallEndsShown
<1>7. entries' = c.entries BY <1>2 DEF Becomes
<1>8. CASE entries'[k] = None BY <1>2, <1>6, <1>7, <1>8 DEF Shows
<1>9. CASE entries'[k] # None
  <2>1. Loaded(entries'[k]) BY <1>5, <1>7, <1>9
  <2>2. served' = HandOut(k, entries'[k]) BY <1>2, <1>7, <1>9
  <2>3. HandsOut(k) BY <2>1, <2>2, <1>6, <1>9, HandedOut
  <2>4. QED BY <2>3, <1>6 DEF Shows
<1>10. QED BY <1>8, <1>9

\* Renewing an entry changes nothing of what makes a response.
LEMMA LeftRenewed ==
    ASSUME NEW e, NEW b, NEW f, NEW g, Left(e, b, f), f # None, g # None,
           g.store = f.store, g.size = f.size, g.body = f.body, g.onDisk = f.onDisk
    PROVE  Left(e, b, g) /\ (FilesGo(e, f) <=> FilesGo(e, g))
BY DEF Left, FilesGo

LEMMA RefreshShows ==
    ASSUME CInv, BInv, NEW k \in Keys, NEW life \in Lives, NEW validator \in BOOLEAN,
           Refresh(k, life, validator)
    PROVE  BInv' /\ Shows
<1>1. PICK c \in Found(k) :
         IF c.entries[k] = None \/ FreshUntil(life) = None
           THEN /\ Becomes(IF c.entries[k] = None THEN c ELSE Drop(c, {k}))
                /\ served' = None
           ELSE LET e == Renewed(c.entries[k], life, validator) IN
                /\ Becomes([c EXCEPT !.entries[k] = e, !.work = Append(@, WriteMeta(k, e))])
                /\ served' = HandOut(k, e)
  BY DEF Refresh
<1>2. k \in Held /\ up /\ work = <<>> /\ UNCHANGED <<up, now, files, stores, spoilt>> BY DEF Refresh, Free
<1>3. Kept(c) /\ \E f : /\ Kept(f) /\ f.work = <<>> /\ LoadedFrom(f.entries, k) /\ Shrinks(f, c)
                        /\ c.entries[k] # None => c.entries[k] = f.entries[k] /\ Loaded(c.entries[k])
  BY <1>1, <1>2, FoundIs
<1>4. PICK f : /\ Kept(f) /\ f.work = <<>> /\ LoadedFrom(f.entries, k) /\ Shrinks(f, c)
               /\ c.entries[k] # None => Loaded(c.entries[k])
  BY <1>3
<1>5. CASE c.entries[k] = None
  <2>1. Becomes(c) /\ served' = None BY <1>1, <1>5
  <2>2. BInv' /\ Change BY <2>1, <1>2, <1>3, <1>4, CallEndsShown
  <2>3. QED BY <2>1, <2>2 DEF Shows
<1>6. CASE c.entries[k] # None /\ FreshUntil(life) = None
  <2>1. PICK d : d = Drop(c, {k}) OBVIOUS
  <2>2. Becomes(d) /\ served' = None BY <1>1, <1>6, <2>1
  <2>3. {k} \in SUBSET HeldIn(c.entries) BY <1>6 DEF HeldIn
  <2>4. Kept(d) /\ Shrinks(c, d) BY <2>1, <2>3, <1>3, DropKeeps
  <2>5. Shrinks(f, d) BY <2>4, <1>3, <1>4, ShrinksTwice
  <2>6. BInv' /\ Change BY <2>2, <2>4, <2>5, <1>2, <1>4, CallEndsShown
  <2>7. QED BY <2>2, <2>6 DEF Shows
<1>7. CASE c.entries[k] # None /\ FreshUntil(life) # None
  <2>1. PICK n : n = c.entries OBVIOUS
  <2>2. PICK w : w = c.work OBVIOUS
  <2>3. PICK e : e = Renewed(n[k], life, validator) OBVIOUS
  <2>4. n \in Maps /\ k \in HeldIn(n) /\ n[k] # None /\ n[k] \in Entry /\ Loaded(n[k])
    <3>1. n \in Maps /\ k \in HeldIn(n) /\ n[k] # None BY <2>1, <1>3, <1>7 DEF Kept, HeldIn
    <3>2. QED BY <3>1, <2>1, <1>4, HeldEntry
  <2>5. /\ e \in Entry /\ e.store = n[k].store /\ e.size = n[k].size /\ e.body = n[k].body
        /\ e.onDisk = n[k].onDisk
    <3>1. now \in Nat BY DEF CInv, Types
    <3>2. QED BY <3>1, <2>3, <2>4, <1>7, RenewedIs
  <2>6. e # None /\ Loaded(e) BY <2>4, <2>5, NothingAssumption DEF NothingAssumption, Loaded
  <2>7. PICK o : o = Put(n, k, e) OBVIOUS
  <2>8. PICK u : u = ThenText(w, k, e) OBVIOUS
  <2>9. entries' = o /\ work' = u
    <3>1. PICK d : d = [c EXCEPT !.entries[k] = e, !.work = Append(@, WriteMeta(k, e))] OBVIOUS
    <3>2. Becomes(d) BY <3>1, <1>1, <1>7, <2>1, <2>3
    <3>3. d.entries = [n EXCEPT ![k] = e] /\ d.work = u
      BY <3>1, <2>1, <2>2, <2>8, <1>3 DEF Kept, ThenText
    <3>4. QED BY <3>2, <3>3, <2>7 DEF Becomes, Put
  <2>10. served' = HandOut(k, e) BY <1>1, <1>7, <2>1, <2>3
  <2>11. PICK m : m = f.entries OBVIOUS
  <2>12. Shrunk(m, n, w) /\ TextsOf(m, <<>>, meta, spoilt)
    BY <2>1, <2>2, <2>11, <1>2, <1>3, <1>4, CallLeaves
  <2>13. \A j \in Keys : ~Writes(u, j) /\ (Replaces(u, j) <=> j \in Gone(m, n))
    BY <2>4, <2>5, <2>7, <2>8, <2>12, CallRenews
  <2>14. o \in Maps /\ o[k] = e BY <2>4, <2>5, <2>7, EntryRenewed
  <2>15. \A j \in Keys \ {k} : o[j] = n[j] BY <2>4, <2>7 DEF Put, Maps
  <2>16. ASSUME NEW j \in Keys
         PROVE  /\ Left(entries[j], body[j], o[j])
                /\ j \in Gone(m, n) <=> FilesGo(entries[j], o[j])
    <3>1. /\ Left(entries[j], body[j], n[j])
          /\ j \in Gone(m, n) <=> FilesGo(entries[j], n[j])
      BY <2>1, <2>11, <1>2, <1>3, <1>4, LeftIs
    <3>2. CASE j = k
      <4>1. Left(entries[j], body[j], e) /\ (FilesGo(entries[j], n[j]) <=> FilesGo(entries[j], e))
        BY <3>1, <3>2, <2>4, <2>5, <2>6, LeftRenewed
      <4>2. QED BY <4>1, <3>1, <3>2, <2>14
    <3>3. CASE j # k BY <3>1, <3>3, <2>15
    <3>4. QED BY <3>2, <3>3
  <2>17. ASSUME NEW j \in Keys
         PROVE  /\ entries'[j] \in Entry \cup {None} /\ ~Writes(work', j)
                /\ Left(entries[j], body[j], entries'[j])
                /\ Replaces(work', j) <=> FilesGo(entries[j], entries'[j])
    <3>1. o[j] \in Entry \cup {None} BY <2>14 DEF Maps
    <3>2. QED BY <3>1, <2>9, <2>13, <2>16
  <2>18. /\ BInv' /\ Change
         /\ \A j \in Keys : entries'[j] # None => Seen(j)' = InMemory(entries'[j], body'[j])
    BY <1>2, <2>17, CallsShow
  <2>19. entries'[k] = e BY <2>9, <2>14
  <2>20. HandsOut(k)
    <3>1. served' = HandOut(k, entries'[k]) BY <2>10, <2>19
    <3>2. QED BY <3>1, <2>6, <2>18, <2>19, HandedOut
  <2>21. QED BY <2>18, <2>20 DEF Shows
<1>8. QED BY <1>5, <1>6, <1>7

LEMMA ClearShows ==
    ASSUME CInv, BInv, Clear
    PROVE  BInv' /\ Shows
<1>1. /\ up /\ work = <<>> /\ UNCHANGED <<up, now, files, stores, spoilt>> /\ served' = served
  BY DEF Clear, Free
<1>2. PICK d : d = Drop(Cache, Held) OBVIOUS
<1>3. /\ Kept(Cache) /\ Cache.work = <<>> /\ Cache.entries = entries /\ HeldIn(Cache.entries) = Held
  BY KeptCache, HeldIs
<1>4. Held \in SUBSET HeldIn(Cache.entries) BY <1>3
<1>5. Kept(d) /\ Shrinks(Cache, d) BY <1>2, <1>3, <1>4, DropKeeps
<1>6. entries' = d.entries /\ work' = d.work
  <2>1. PICK h : h = [d EXCEPT !.bytes = 0, !.diskBytes = 0] OBVIOUS
  <2>2. Becomes(h) BY <2>1, <1>2 DEF Clear
  <2>3. h.entries = d.entries /\ h.work = d.work BY <2>1, <1>5 DEF Kept
  <2>4. QED BY <2>2, <2>3 DEF Becomes
<1>7. LoadedFrom(Cache.entries, 0) BY <1>3 DEF LoadedFrom
<1>8. ASSUME NEW j \in Keys
      PROVE  /\ entries'[j] \in Entry \cup {None} /\ ~Writes(work', j)
             /\ Left(entries[j], body[j], entries'[j])
             /\ Replaces(work', j) <=> FilesGo(entries[j], entries'[j])
  <2>1. /\ Left(entries[j], body[j], d.entries[j])
        /\ Replaces(d.work, j) <=> FilesGo(entries[j], d.entries[j])
        /\ ~Writes(d.work, j)
    BY <1>1, <1>3, <1>5, <1>7, LeftIs
  <2>2. d.entries[j] \in Entry \cup {None} BY <1>5 DEF Kept, Maps
  <2>3. QED BY <1>6, <2>1, <2>2
<1>9. BInv' /\ Change BY <1>1, <1>8, CallsShow
<1>10. QED BY <1>1, <1>9 DEF Shows

\* A URL with nothing left in memory and its files as they were.
LEMMA FilesSeen ==
    ASSUME CInv, BInv, up, work = <<>>, NEW k \in Keys \ spoilt, FilesGo(entries[k], None)
    PROVE  InFiles(meta[k], body[k]) \in {Seen(k), None}
<1>1. PICK e : e = entries[k] OBVIOUS
<1>2. PICK t : t = meta[k] OBVIOUS
<1>3. PICK b : b = body[k] OBVIOUS
<1>4. /\ e \in Entry \cup {None} /\ t \in Text \cup {None} /\ b \in BodyFile \cup {None}
      /\ Backed(e, t, b) /\ BodyOf(e, b)
      /\ t # None <=> e # None /\ e.onDisk
      /\ t # None => e.store = t.store /\ e.size = t.size
      /\ Seen(k) = InMemory(e, b)
  BY <1>1, <1>2, <1>3, BetweenCalls
<1>5. Left(e, b, None) BY DEF Left
<1>6. FilesGo(e, None) => InFiles(t, b) \in {InMemory(e, b), None}
  <2>1. PICK f : f = None OBVIOUS
  <2>2. f \in Entry \cup {None} /\ Left(e, b, f) BY <1>5, <2>1
  <2>3. FilesGo(e, f) => InFiles(t, b) \in {InMemory(e, b), None} BY <1>4, <2>2, LeftSeen
  <2>4. QED BY <2>1, <2>3
<1>7. QED BY <1>1, <1>2, <1>3, <1>4, <1>6

LEMMA StoreShows ==
    ASSUME CInv, BInv, NEW k \in Keys, NEW r \in Responses, Store(k, r)
    PROVE  BInv' /\ Shows
<1>1. PICK e, g : StoresAs(k, e, g) BY StoreIs
<1>2. up /\ work = <<>> /\ served' = served BY DEF Store, Free
<1>3. PICK n : n = g.entries OBVIOUS
<1>4. PICK w : w = g.work OBVIOUS
<1>5. PICK o : o = Put(n, k, e) OBVIOUS
<1>6. PICK u : u = ThenBoth(w, k, e) OBVIOUS
<1>7. e \in Entry /\ ~e.onDisk /\ Loaded(e) /\ e.store = stores + 1 /\ e.body = stores + 1 /\ e # None
  <2>1. stores + 1 \in Nat BY DEF CInv, Types
  <2>2. e.body # None BY <2>1, <1>1, NothingAssumption DEF StoresAs, NothingAssumption
  <2>3. e # None BY <1>1, NothingAssumption DEF StoresAs, NothingAssumption
  <2>4. QED BY <2>2, <2>3, <1>1 DEF StoresAs, Loaded
<1>8. n \in Maps /\ n[k] = None BY <1>1, <1>3 DEF StoresAs, Kept
<1>9. PICK m : m = entries OBVIOUS
<1>10. Kept(Cache) /\ Cache.work = <<>> /\ Cache.entries = entries BY KeptCache
<1>11. LoadedFrom(Cache.entries, k) BY <1>10 DEF LoadedFrom
<1>12. Kept(g) /\ Shrinks(Cache, g) BY <1>1 DEF StoresAs
<1>13. Shrunk(m, n, w) /\ TextsOf(m, <<>>, meta, spoilt)
  BY <1>2, <1>3, <1>4, <1>9, <1>10, <1>11, <1>12, CallLeaves
<1>14. /\ \A j \in Keys : Replaces(u, j) <=> j \in Gone(m, n)
       /\ \A j \in Keys : Writes(u, j) <=> j = k
  BY <1>5, <1>6, <1>7, <1>8, <1>13, CallStores
<1>15. o \in Maps /\ o[k] = e /\ \A j \in Keys \ {k} : o[j] = n[j]
  <2>1. o \in Maps /\ o[k] = e BY <1>5, <1>7, <1>8, EntryComes
  <2>2. QED BY <2>1, <1>5, <1>8 DEF Put, Maps
<1>16. /\ entries' = o /\ work' = u /\ stores' = stores + 1 /\ UNCHANGED <<up, files, spoilt>>
  BY <1>1, <1>3, <1>4, <1>5, <1>6 DEF StoresAs
<1>17. ASSUME NEW j \in Keys
       PROVE  /\ Left(entries[j], body[j], n[j])
              /\ j \in Gone(m, n) <=> FilesGo(entries[j], n[j])
  BY <1>2, <1>3, <1>9, <1>10, <1>11, <1>12, LeftIs
<1>18. ASSUME NEW j \in Keys \ spoilt, j # k
       PROVE  /\ Backed(entries'[j], meta'[j], body'[j]) /\ BodyOf(entries'[j], body'[j])
              /\ Seen(j)' \in {Seen(j), None}
  <2>1. entries'[j] = n[j] /\ n[j] \in Entry \cup {None} BY <1>8, <1>15, <1>16, <1>18 DEF Maps
  <2>2. Left(entries[j], body[j], entries'[j]) BY <2>1, <1>17
  <2>3. Replaces(work', j) <=> FilesGo(entries[j], entries'[j]) BY <2>1, <1>14, <1>16, <1>17
  <2>4. ~Writes(work', j) BY <1>14, <1>16, <1>18
  <2>5. entries'[j] \in Entry \cup {None} BY <2>1
  <2>6. UNCHANGED <<up, files>> BY <1>16
  <2>7. QED BY <2>2, <2>3, <2>4, <2>5, <2>6, <1>2, CallShows
<1>19. k \notin spoilt => Backed(entries'[k], meta'[k], body'[k])
  <2>1. k \notin spoilt /\ meta[k] # None /\ body[k] # None => body[k].store = meta[k].store
    BY DEF BInv, Backed
  <2>2. meta'[k] = meta[k] /\ body'[k] = body[k] /\ entries'[k] = e BY <1>15, <1>16 DEF files
  <2>3. QED BY <2>1, <2>2, <1>7 DEF Backed
<1>20. BInv'
  <2>1. ASSUME NEW j \in Keys \ spoilt'
        PROVE  /\ Backed(entries'[j], meta'[j], body'[j])
               /\ ~Writes(work', j) => BodyOf(entries'[j], body'[j])
    <3>1. CASE j = k BY <3>1, <1>14, <1>16, <1>19
    <3>2. CASE j # k BY <3>2, <1>16, <1>18
    <3>3. QED BY <3>1, <3>2
  <2>2. QED BY <2>1, BInvNext
<1>21. stores \in Int BY DEF CInv, Types
<1>22. Used' = UsedOf(o, u, stores + 1) BY <1>16, UsedNext, Zenon
<1>23. Used \subseteq Used'
  <2>1. ASSUME NEW j \in Keys, Waits(o, u, j) PROVE o[j].store \in Int /\ o[j].store > stores
    <3>1. j \in Gone(m, n) /\ o[j] # None BY <2>1, <1>14 DEF Waits
    <3>2. n[j] = None BY <3>1 DEF Gone
    <3>3. j = k BY <3>1, <3>2, <1>15
    <3>4. QED BY <3>3, <1>7, <1>15, <1>21
  <2>2. UsedOf(m, work, stores) \subseteq UsedOf(o, u, stores + 1)
    <3>1. PICK v : v = work OBVIOUS
    <3>2. PICK i \in Int : i = stores BY <1>21
    <3>3. UsedOf(m, v, i) \subseteq UsedOf(o, u, i + 1) BY <2>1, <3>2, UsedGrows
    <3>4. QED BY <3>1, <3>2, <3>3
  <2>3. QED BY <2>2, <1>9, <1>22 DEF Used
<1>24. k \notin spoilt => Seen(k)' \in {Seen(k), None} \/ \E s \in Used' \ Used : Seen(k)' = Whole(s)
  <2>1. CASE k \in Gone(m, n)
    <3>1. Replaces(work', k) BY <2>1, <1>14, <1>16
    <3>2. Seen(k)' = InFiles(meta[k], body[k])
      <4>1. Seen(k)' = InFiles(meta'[k], body'[k]) BY <3>1, SeenNext
      <4>2. QED BY <4>1, <1>16 DEF files
    <3>3. FilesGo(entries[k], None) BY <2>1, <1>8, <1>17
    <3>4. k \notin spoilt => InFiles(meta[k], body[k]) \in {Seen(k), None} BY <3>3, <1>2, FilesSeen
    <3>5. QED BY <3>2, <3>4
  <2>2. CASE k \notin Gone(m, n)
    <3>1. ~Replaces(work', k) /\ up' BY <2>2, <1>2, <1>14, <1>16
    <3>2. Seen(k)' = InMemory(e, body'[k])
      <4>1. Seen(k)' = InMemory(entries'[k], body'[k]) BY <3>1, SeenNext
      <4>2. QED BY <4>1, <1>15, <1>16
    <3>3. Seen(k)' = Whole(stores + 1) BY <3>2, <1>7 DEF InMemory
    <3>4. stores + 1 \notin Used BY <1>21 DEF Used, UsedOf
    <3>5. stores + 1 \in UsedOf(o, u, stores + 1)
      <4>1. ASSUME NEW j \in Keys PROVE ~Waits(o, u, j)
        <5>1. SUFFICES ASSUME Waits(o, u, j) PROVE FALSE OBVIOUS
        <5>2. j \in Gone(m, n) /\ o[j] # None BY <5>1, <1>14 DEF Waits
        <5>3. n[j] = None BY <5>2 DEF Gone
        <5>4. QED BY <5>2, <5>3, <1>15, <2>2
      <4>2. 1 <= stores + 1 /\ stores + 1 \in Int BY DEF CInv, Types
      <4>3. QED BY <4>1, <4>2 DEF UsedOf
    <3>6. QED BY <3>3, <3>4, <3>5, <1>22
  <2>3. QED BY <2>1, <2>2
<1>25. Change
  <2>1. \A j \in Keys \ spoilt :
           Seen(j)' \in {Seen(j), None} \/ \E s \in Used' \ Used : Seen(j)' = Whole(s)
    BY <1>18, <1>24
  <2>2. QED BY <2>1, <1>16, <1>23 DEF Change
<1>26. QED BY <1>2, <1>20, <1>25 DEF Shows

\* A file operation that changes nothing of what lookups find.
LEMMA NothingShows ==
    ASSUME CInv, UNCHANGED <<stores, served>>,
           spoilt \subseteq spoilt', \A k \in Keys \ spoilt' : Seen(k)' = Seen(k),
           \A k \in Keys : Waits(entries', work', k) =>
                             Waits(entries, work, k) /\ entries'[k].store = entries[k].store
    PROVE  Shows
<1>1. PICK m : m = entries OBVIOUS
<1>2. PICK w : w = work OBVIOUS
<1>3. PICK o : o = entries' OBVIOUS
<1>4. PICK u : u = work' OBVIOUS
<1>5. stores \in Int /\ stores' = stores BY DEF CInv, Types
<1>6. PICK i \in Int : i = stores BY <1>5
<1>7. ASSUME NEW k \in Keys, Waits(o, u, k)
      PROVE  o[k].store \in Int /\ (o[k].store > i \/ (Waits(m, w, k) /\ o[k].store = m[k].store))
  <2>1. Waits(m, w, k) /\ o[k].store = m[k].store BY <1>1, <1>2, <1>3, <1>4, <1>7
  <2>2. m \in Maps /\ k \in HeldIn(m) BY <2>1, <1>1 DEF CInv, Types, Waits, HeldIn
  <2>3. m[k] \in Entry BY <2>2, HeldEntry
  <2>4. m[k].store \in Nat BY <2>3 DEF Entry
  <2>5. QED BY <2>1, <2>4
<1>8. i <= i BY <1>6
<1>9. UsedOf(m, w, i) \subseteq UsedOf(o, u, i) BY <1>7, <1>8, UsedGrows
<1>10. Used \subseteq Used'
  <2>1. Used = UsedOf(m, w, i) BY <1>1, <1>2, <1>6 DEF Used
  <2>2. Used' = UsedOf(entries', work', stores') BY UsedNext
  <2>3. Used' = UsedOf(o, u, i) BY <2>2, <1>3, <1>4, <1>5, <1>6
  <2>4. QED BY <2>1, <2>3, <1>9
<1>11. \A k \in Keys \ spoilt' : Seen(k)' \in {Seen(k), None} OBVIOUS
<1>12. QED BY <1>10, <1>11 DEF Shows, Change

LEMMA SeenNow ==
    ASSUME up, NEW k
    PROVE  /\ ~Replaces(work, k) => Seen(k) = InMemory(entries[k], body[k])
           /\ Replaces(work, k) => Seen(k) = InFiles(meta[k], body[k])
BY DEF Seen, Live

\* An entry whose body is still to be written has it in memory, and no text.
LEMMA WritesIs ==
    ASSUME NEW m, NEW w, Suits(m, w), NEW k, Writes(w, k)
    PROVE  m[k] # None /\ ~m[k].onDisk /\ Loaded(m[k])
BY DEF Suits, Writes

\* A URL of which a file is removed: its text is removed once and first.
LEMMA RemovedOnce ==
    ASSUME NEW w \in Seq(Ops), w # <<>>, Ordered(w), IsRemoval(w[1]), NEW k, k = w[1][2]
    PROVE  /\ ~Replaces(Tail(w), k)
           /\ w[1][1] = "removeBody" => ~Replaces(w, k)
           /\ w[1][1] = "removeMeta" => Replaces(w, k)
<1>1. PICK v : v = Tail(w) OBVIOUS
<1>2. 1 \in 1..Len(w) /\ \A i \in 1..Len(v) : i + 1 \in 1..Len(w) /\ v[i] = w[i + 1] BY <1>1, RestIs
<1>3. ASSUME NEW i \in 1..Len(v), v[i][1] = "removeMeta", v[i][2] = k PROVE FALSE
  <2>1. PICK j : j = i + 1 OBVIOUS
  <2>2. j \in 1..Len(w) /\ v[i] = w[j] /\ 1 < j BY <2>1, <1>2
  <2>3. IsRemoval(w[j]) /\ w[j][1] = "removeMeta" /\ w[1][2] = w[j][2] BY <2>2, <1>3 DEF IsRemoval
  <2>4. w[j][1] = "removeBody" BY <2>2, <2>3, <1>2 DEF Ordered
  <2>5. QED BY <2>3, <2>4
<1>4. ~Replaces(v, k) BY <1>3 DEF Replaces
<1>5. w[1][1] = "removeMeta" => Replaces(w, k) BY <1>2 DEF Replaces
<1>6. w[1][1] = "removeBody" => ~Replaces(w, k) BY <1>1, <1>4, RestHas
<1>7. QED BY <1>1, <1>4, <1>5, <1>6

LEMMA RemoveMetaShows ==
    ASSUME CInv, BInv, RemoveFile, Op[1] = "removeMeta"
    PROVE  BInv' /\ Shows
<1>1. /\ work # <<>> /\ UNCHANGED <<up, stores, served, entries, body, spoilt>>
      /\ meta' = [meta EXCEPT ![Key] = None] /\ work' = Tail(work)
  BY DEF RemoveFile, memory
<1>2. PICK w : w = work OBVIOUS
<1>3. PICK v : v = Tail(w) OBVIOUS
<1>4. PICK k : k = Key OBVIOUS
<1>5. PICK m : m = entries OBVIOUS
<1>6. /\ up /\ w \in Seq(Ops) /\ w # <<>> /\ Ordered(w) /\ Suits(m, w) /\ TextsOf(m, w, meta, spoilt)
      /\ w[1][1] = "removeMeta" /\ w[1][2] = k /\ k \in Keys /\ 1 \in 1..Len(w)
  BY <1>1, <1>2, <1>4, <1>5, OpIs
<1>7. IsRemoval(w[1]) BY <1>6 DEF IsRemoval
<1>8. ~Replaces(v, k) /\ Replaces(w, k) BY <1>3, <1>6, <1>7, RemovedOnce
<1>9. \A j \in Keys : /\ Writes(v, j) <=> Writes(w, j)
                      /\ Replaces(v, j) => Replaces(w, j)
                      /\ j # k => (Replaces(v, j) <=> Replaces(w, j))
  BY <1>3, <1>6, RestHas
<1>10. meta'[k] = None /\ \A j \in Keys \ {k} : meta'[j] = meta[j]
  BY <1>1, <1>4, <1>6 DEF CInv, Types
<1>11. entries' = m /\ work' = v /\ up' BY <1>1, <1>2, <1>3, <1>5, <1>6
<1>12. BInv'
  <2>1. ASSUME NEW j \in Keys \ spoilt
        PROVE  /\ Backed(entries'[j], meta'[j], body'[j])
               /\ ~Writes(work', j) => BodyOf(entries'[j], body'[j])
    <3>1. Backed(entries[j], meta[j], body[j]) /\ (~Writes(w, j) => BodyOf(entries[j], body[j]))
      BY <1>2 DEF BInv
    <3>2. meta'[j] = None \/ meta'[j] = meta[j] BY <1>10
    <3>3. entries'[j] = entries[j] /\ body'[j] = body[j] BY <1>1
    <3>4. Backed(entries'[j], meta'[j], body'[j]) BY <3>1, <3>2, <3>3 DEF Backed
    <3>5. QED BY <3>1, <3>3, <3>4, <1>9, <1>11
  <2>2. QED BY <2>1, <1>1, BInvNext
<1>13. m \in Maps /\ stores \in Nat BY <1>5 DEF CInv, Types
<1>14. Used' = UsedOf(m, v, stores) /\ Used = UsedOf(m, w, stores)
  <2>1. Used' = UsedOf(entries', work', stores') BY UsedNext
  <2>2. QED BY <2>1, <1>1, <1>2, <1>5, <1>11 DEF Used
<1>15. Used \subseteq Used'
  <2>1. UsedOf(m, w, stores) \subseteq UsedOf(m, v, stores) BY <1>9 DEF UsedOf, Waits
  <2>2. QED BY <2>1, <1>14
<1>16. ASSUME NEW j \in Keys, j # k PROVE Seen(j)' = Seen(j)
  <2>1. entries'[j] = entries[j] /\ body'[j] = body[j] /\ meta'[j] = meta[j] BY <1>1, <1>10, <1>16
  <2>2. Replaces(work', j) <=> Replaces(work, j) BY <1>2, <1>9, <1>11, <1>16
  <2>3. QED BY <2>1, <2>2, <1>6, <1>11, SeenNow, SeenNext
<1>17. Seen(k)' = InMemory(m[k], body[k])
  <2>1. ~Replaces(work', k) BY <1>8, <1>11
  <2>2. entries'[k] = m[k] /\ body'[k] = body[k] BY <1>1, <1>11
  <2>3. QED BY <2>1, <2>2, <1>11, SeenNext
<1>18. Seen(k)' = None \/ \E s \in Used' \ Used : Seen(k)' = Whole(s)
  <2>1. CASE m[k] = None BY <2>1, <1>17 DEF InMemory
  <2>2. CASE m[k] # None
    <3>1. Writes(w, k) BY <2>2, <1>6, <1>7 DEF Suits
    <3>2. Loaded(m[k]) BY <3>1, <1>6, WritesIs
    <3>3. PICK s : s = m[k].store OBVIOUS
    <3>4. Seen(k)' = Whole(s) BY <2>2, <3>2, <3>3, <1>17 DEF InMemory
    <3>5. k \in HeldIn(m) BY <2>2, <1>6 DEF HeldIn
    <3>6. m[k] \in Entry BY <3>5, <1>13, HeldEntry
    <3>7. s \in Nat BY <3>3, <3>6 DEF Entry
    <3>8. s \in StoresOf(m, meta, k) BY <2>2, <3>3, <3>7 DEF StoresOf
    <3>9. Apart(m, meta, stores) BY <1>5 DEF CInv
    <3>10. 1 <= s /\ s <= stores BY <3>8, <3>9, <1>6 DEF Apart
    <3>11. s \notin Used
      <4>1. Waits(m, w, k) BY <2>2, <1>8 DEF Waits
      <4>2. QED BY <4>1, <3>3, <1>6, <1>14 DEF UsedOf
    <3>12. ASSUME NEW j \in Keys, Waits(m, v, j) PROVE m[j].store # s
      <4>1. j # k /\ m[j] # None BY <3>12, <1>8 DEF Waits
      <4>2. StoresOf(m, meta, k) \cap StoresOf(m, meta, j) = {} BY <4>1, <3>9, <1>6 DEF Apart
      <4>3. SUFFICES ASSUME m[j].store = s PROVE FALSE OBVIOUS
      <4>4. s \in StoresOf(m, meta, j) BY <4>1, <4>3, <3>7 DEF StoresOf
      <4>5. QED BY <4>2, <4>4, <3>8
    <3>13. s \in Used' BY <3>7, <3>10, <3>12, <1>14 DEF UsedOf
    <3>14. QED BY <3>4, <3>11, <3>13
  <2>3. QED BY <2>1, <2>2
<1>19. Change
  <2>1. \A j \in Keys : Seen(j)' \in {Seen(j), None} \/ \E s \in Used' \ Used : Seen(j)' = Whole(s)
    BY <1>16, <1>18
  <2>2. QED BY <2>1, <1>1, <1>15 DEF Change
<1>20. QED BY <1>1, <1>12, <1>19 DEF Shows

LEMMA RemoveBodyShows ==
    ASSUME CInv, BInv, RemoveFile, Op[1] = "removeBody"
    PROVE  BInv' /\ Shows
<1>1. /\ work # <<>> /\ UNCHANGED <<up, stores, served, entries, meta, spoilt>>
      /\ body' = [body EXCEPT ![Key] = None] /\ work' = Tail(work)
  BY DEF RemoveFile, memory
<1>2. PICK w : w = work OBVIOUS
<1>3. PICK v : v = Tail(w) OBVIOUS
<1>4. PICK k : k = Key OBVIOUS
<1>5. PICK m : m = entries OBVIOUS
<1>6. /\ up /\ w \in Seq(Ops) /\ w # <<>> /\ Ordered(w) /\ Suits(m, w) /\ TextsOf(m, w, meta, spoilt)
      /\ w[1][1] = "removeBody" /\ w[1][2] = k /\ k \in Keys /\ 1 \in 1..Len(w)
  BY <1>1, <1>2, <1>4, <1>5, OpIs
<1>7. IsRemoval(w[1]) BY <1>6 DEF IsRemoval
<1>8. ~Replaces(v, k) /\ ~Replaces(w, k) BY <1>3, <1>6, <1>7, RemovedOnce
<1>9. \A j \in Keys : /\ Writes(v, j) <=> Writes(w, j)
                      /\ Replaces(v, j) <=> Replaces(w, j)
  BY <1>3, <1>6, RestHas
<1>10. body'[k] = None /\ \A j \in Keys \ {k} : body'[j] = body[j]
  BY <1>1, <1>4, <1>6 DEF CInv, Types
<1>11. entries' = m /\ work' = v /\ up' BY <1>1, <1>2, <1>3, <1>5, <1>6
<1>12. m[k] = None \/ (Writes(w, k) /\ m[k] # None /\ ~m[k].onDisk /\ Loaded(m[k]))
  <2>1. m[k] = None \/ Writes(w, k) BY <1>6, <1>7 DEF Suits
  <2>2. QED BY <2>1, <1>6, WritesIs
<1>13. k \notin spoilt => meta[k] = None BY <1>6, <1>8, <1>12 DEF TextsOf
<1>14. BInv'
  <2>1. ASSUME NEW j \in Keys \ spoilt
        PROVE  /\ Backed(entries'[j], meta'[j], body'[j])
               /\ ~Writes(work', j) => BodyOf(entries'[j], body'[j])
    <3>1. Backed(m[j], meta[j], body[j]) /\ (~Writes(w, j) => BodyOf(m[j], body[j]))
      BY <1>2, <1>5 DEF BInv
    <3>2. entries'[j] = m[j] /\ meta'[j] = meta[j] BY <1>1, <1>11
    <3>3. CASE j = k
      <4>1. Backed(entries'[j], meta'[j], body'[j]) BY <3>1, <3>2, <3>3, <1>13 DEF Backed
      <4>2. ~Writes(work', j) => m[j] = None BY <3>3, <1>9, <1>11, <1>12
      <4>3. QED BY <3>2, <4>1, <4>2 DEF BodyOf
    <3>4. CASE j # k
      <4>1. body'[j] = body[j] BY <3>4, <1>10
      <4>2. QED BY <3>1, <3>2, <4>1, <1>9, <1>11
    <3>5. QED BY <3>3, <3>4
  <2>2. QED BY <2>1, <1>1, BInvNext
<1>15. ASSUME NEW j \in Keys PROVE Seen(j)' = Seen(j)
  <2>1. entries'[j] = entries[j] /\ meta'[j] = meta[j] BY <1>1
  <2>2. Replaces(work', j) <=> Replaces(work, j) BY <1>2, <1>9, <1>11
  <2>3. CASE j = k
    <3>1. ~Replaces(work, k) BY <1>2, <1>8
    <3>2. Seen(k) = InMemory(m[k], body[k]) BY <3>1, <1>5, <1>6, SeenNow
    <3>3. ~Replaces(work', k) BY <3>1, <2>2, <2>3
    <3>4. Seen(k)' = InMemory(m[k], body'[k])
      <4>1. Seen(k)' = InMemory(entries'[k], body'[k]) BY <3>3, <1>11, SeenNext
      <4>2. QED BY <4>1, <1>11
    <3>5. InMemory(m[k], body[k]) = InMemory(m[k], body'[k]) BY <1>12 DEF InMemory
    <3>6. QED BY <2>3, <3>2, <3>4, <3>5
  <2>4. CASE j # k
    <3>1. body'[j] = body[j] BY <2>4, <1>10
    <3>2. QED BY <2>1, <2>2, <3>1, <1>6, <1>11, SeenNow, SeenNext
  <2>5. QED BY <2>3, <2>4
<1>16. Shows
  <2>1. ASSUME NEW j \in Keys, Waits(entries', work', j)
        PROVE  Waits(entries, work, j) /\ entries'[j].store = entries[j].store
    <3>1. entries'[j] = entries[j] BY <1>1
    <3>2. QED BY <2>1, <3>1, <1>2, <1>9, <1>11 DEF Waits
  <2>2. UNCHANGED <<stores, served, spoilt>> BY <1>1
  <2>3. QED BY <2>1, <2>2, <1>15, NothingShows
<1>17. QED BY <1>14, <1>16

\* A removal that fails leaves the files as they are; only a text's counts.
LEMMA FileStaysShows ==
    ASSUME CInv, BInv, FileStays
    PROVE  BInv' /\ Shows
<1>1. /\ work # <<>> /\ UNCHANGED <<up, stores, served, entries, meta, body>>
      /\ Op[1] \in {"removeMeta", "removeBody"} /\ work' = Tail(work)
      /\ spoilt' = IF Op[1] = "removeMeta" THEN spoilt \cup {Key} ELSE spoilt
  BY DEF FileStays, memory, files
<1>2. PICK w : w = work OBVIOUS
<1>3. PICK v : v = Tail(w) OBVIOUS
<1>4. PICK k : k = Key OBVIOUS
<1>5. /\ up /\ w \in Seq(Ops) /\ w # <<>> /\ Ordered(w)
      /\ w[1][1] = Op[1] /\ w[1][2] = k /\ k \in Keys
  BY <1>1, <1>2, <1>4, OpIs
<1>6. IsRemoval(w[1]) BY <1>1, <1>5 DEF IsRemoval
<1>7. w[1][1] = "removeBody" => ~Replaces(w, k) /\ ~Replaces(v, k)
  BY <1>3, <1>5, <1>6, RemovedOnce
<1>8. \A j \in Keys : /\ Writes(v, j) <=> Writes(w, j)
                      /\ Replaces(v, j) => Replaces(w, j)
                      /\ j # k => (Replaces(v, j) <=> Replaces(w, j))
  <2>1. w[1][1] # "writeBody" BY <1>6 DEF IsRemoval
  <2>2. QED BY <2>1, <1>3, <1>5, RestHas
<1>9. work' = v /\ up' /\ spoilt \subseteq spoilt' BY <1>1, <1>2, <1>3, <1>5
<1>10. \A j \in Keys \ spoilt' : Replaces(v, j) <=> Replaces(w, j)
  <2>1. CASE Op[1] = "removeMeta" BY <2>1, <1>1, <1>4, <1>8
  <2>2. CASE Op[1] = "removeBody" BY <2>2, <1>5, <1>7, <1>8
  <2>3. QED BY <2>1, <2>2, <1>1
<1>11. BInv'
  <2>1. ASSUME NEW j \in Keys \ spoilt'
        PROVE  /\ Backed(entries'[j], meta'[j], body'[j])
               /\ ~Writes(work', j) => BodyOf(entries'[j], body'[j])
    <3>1. Backed(entries[j], meta[j], body[j]) /\ (~Writes(w, j) => BodyOf(entries[j], body[j]))
      BY <1>2, <1>9 DEF BInv
    <3>2. QED BY <3>1, <1>1, <1>8, <1>9
  <2>2. QED BY <2>1, BInvNext
<1>12. ASSUME NEW j \in Keys \ spoilt' PROVE Seen(j)' = Seen(j)
  <2>1. entries'[j] = entries[j] /\ meta'[j] = meta[j] /\ body'[j] = body[j] BY <1>1
  <2>2. Replaces(work', j) <=> Replaces(work, j) BY <1>2, <1>9, <1>10
  <2>3. QED BY <2>1, <2>2, <1>5, <1>9, SeenNow, SeenNext
<1>13. Shows
  <2>1. ASSUME NEW j \in Keys, Waits(entries', work', j)
        PROVE  Waits(entries, work, j) /\ entries'[j].store = entries[j].store
    <3>1. entries'[j] = entries[j] BY <1>1
    <3>2. QED BY <2>1, <3>1, <1>2, <1>8, <1>9 DEF Waits
  <2>2. UNCHANGED <<stores, served>> BY <1>1
  <2>3. QED BY <2>1, <2>2, <1>9, <1>12, NothingShows
<1>14. QED BY <1>11, <1>13

LEMMA WriteBodyShows ==
    ASSUME CInv, BInv, NEW how \in {"whole", "short", "lost", "unopened"}, WriteFileBody(how)
    PROVE  BInv' /\ Shows
<1>1. /\ work # <<>> /\ UNCHANGED <<up, stores, served, entries, meta>>
  BY DEF WriteFileBody, memory
<1>2. PICK w : w = work OBVIOUS
<1>3. PICK v : v = Tail(w) OBVIOUS
<1>4. PICK k : k = Key OBVIOUS
<1>5. PICK m : m = entries OBVIOUS
<1>6. PICK op : op = Op OBVIOUS
<1>7. /\ up /\ w \in Seq(Ops) /\ w # <<>> /\ Ordered(w) /\ Suits(m, w) /\ TextsOf(m, w, meta, spoilt)
      /\ op = w[1] /\ op \in Ops /\ op[1] = "writeBody" /\ w[1][2] = k /\ k \in Keys
      /\ 1 \in 1..Len(w)
  <2>1. op[1] = "writeBody" BY <1>6 DEF WriteFileBody
  <2>2. QED BY <2>1, <1>1, <1>2, <1>4, <1>5, <1>6, OpIs
<1>8. m[k] # None /\ ~m[k].onDisk /\ Loaded(m[k]) /\ op = WriteBody(k, m[k])
  BY <1>7 DEF Suits
<1>9. op[3] \in BodyFile /\ op[3].store = m[k].store
  <2>1. op[3] \in BodyFile BY <1>7, OpKinds
  <2>2. op[3].store = m[k].store BY <1>8 DEF WriteBody
  <2>3. QED BY <2>1, <2>2
<1>10. ~IsRemoval(w[1]) BY <1>7 DEF IsRemoval
<1>11. \A j : ~Replaces(w, j) /\ ~Writes(v, j) /\ ~Replaces(v, j)
  BY <1>3, <1>7, <1>10, WritesLast, RestHas
<1>12. \A j \in Keys \ {k} : ~Writes(w, j) BY <1>3, <1>7, <1>11, RestHas
<1>13. k \notin spoilt => meta[k] = None BY <1>7, <1>8, <1>11 DEF TextsOf
<1>14. /\ spoilt \subseteq spoilt'
      /\ spoilt' = IF how = "unopened" /\ body[k] # None THEN spoilt \cup {k} ELSE spoilt
  BY <1>4 DEF WriteFileBody
<1>15. /\ \A j \in Keys \ {k} : body'[j] = body[j]
       /\ k \notin spoilt' /\ body'[k] # None => body'[k].store = m[k].store
  <2>1. body \in [Keys -> BodyFile \cup {None}] BY DEF CInv, Types
  <2>2. PICK b : b = body' OBVIOUS
  <2>3. b = [body EXCEPT ![k] = CASE how = "whole" -> op[3]
                                  [] how \in {"short", "lost"} -> [op[3] EXCEPT !.length = 0]
                                  [] how = "unopened" -> @]
    BY <2>2, <1>4, <1>6 DEF WriteFileBody
  <2>4. PICK x : x = op[3] OBVIOUS
  <2>5. PICK y : y = [x EXCEPT !.length = 0] OBVIOUS
  <2>6. x \in BodyFile /\ x.store = m[k].store /\ y \in BodyFile /\ y.store = m[k].store
    BY <2>4, <2>5, <1>9 DEF BodyFile
  <2>7. CASE how = "whole"
    <3>1. b = [body EXCEPT ![k] = x] BY <2>3, <2>4, <2>7
    <3>2. QED BY <3>1, <2>1, <2>2, <2>6, <1>7
  <2>8. CASE how \in {"short", "lost"}
    <3>1. b = [body EXCEPT ![k] = y] BY <2>3, <2>4, <2>5, <2>8
    <3>2. QED BY <3>1, <2>1, <2>2, <2>6, <1>7
  <2>9. CASE how = "unopened"
    <3>1. b = [body EXCEPT ![k] = @] BY <2>3, <2>9
    <3>2. body' = body BY <3>1, <2>1, <2>2
    <3>3. body[k] # None => k \in spoilt' BY <2>9, <1>14
    <3>4. QED BY <3>2, <3>3
  <2>10. QED BY <2>7, <2>8, <2>9
<1>16. PICK u : u = IF how \in {"whole", "lost"} THEN v ELSE <<>> OBVIOUS
<1>17. work' = u /\ entries' = m /\ up'
  <2>1. work' = u BY <1>2, <1>3, <1>16 DEF WriteFileBody
  <2>2. QED BY <2>1, <1>1, <1>5, <1>7
<1>18. \A j : ~Replaces(u, j) /\ ~Writes(u, j)
  <2>1. u = v \/ u = <<>> BY <1>16
  <2>2. QED BY <2>1, <1>11, NoneLeft
<1>19. BInv'
  <2>1. ASSUME NEW j \in Keys \ spoilt'
        PROVE  Backed(entries'[j], meta'[j], body'[j]) /\ BodyOf(entries'[j], body'[j])
    <3>0. j \in Keys \ spoilt BY <1>14
    <3>1. Backed(m[j], meta[j], body[j]) /\ (~Writes(w, j) => BodyOf(m[j], body[j]))
      BY <3>0, <1>2, <1>5 DEF BInv
    <3>2. entries'[j] = m[j] /\ meta'[j] = meta[j] BY <1>1, <1>17
    <3>3. CASE j = k
      <4>1. Backed(entries'[j], meta'[j], body'[j]) BY <3>0, <3>1, <3>2, <3>3, <1>13 DEF Backed
      <4>2. BodyOf(entries'[j], body'[j]) BY <3>2, <3>3, <1>15 DEF BodyOf
      <4>3. QED BY <4>1, <4>2
    <3>4. CASE j # k
      <4>1. body'[j] = body[j] /\ ~Writes(w, j) BY <3>4, <1>12, <1>15
      <4>2. QED BY <3>1, <3>2, <4>1
    <3>5. QED BY <3>3, <3>4
  <2>2. QED BY <2>1, BInvNext
<1>20. ASSUME NEW j \in Keys PROVE Seen(j)' = Seen(j)
  <2>1. Seen(j) = InMemory(m[j], body[j]) BY <1>2, <1>5, <1>7, <1>11, SeenNow
  <2>2. Seen(j)' = InMemory(m[j], body'[j])
    <3>1. Seen(j)' = InMemory(entries'[j], body'[j]) BY <1>17, <1>18, SeenNext
    <3>2. QED BY <3>1, <1>17
  <2>3. CASE j = k BY <2>1, <2>2, <2>3, <1>8 DEF InMemory
  <2>4. CASE j # k BY <2>1, <2>2, <2>4, <1>15
  <2>5. QED BY <2>3, <2>4
<1>21. Shows
  <2>1. \A j \in Keys : ~Waits(entries', work', j) BY <1>17, <1>18 DEF Waits
  <2>2. UNCHANGED <<stores, served>> BY <1>1
  <2>3. QED BY <2>1, <2>2, <1>20, <1>14, NothingShows
<1>22. QED BY <1>19, <1>21

\* When the text is written the body already is.
LEMMA LastIsText ==
    ASSUME CInv, work # <<>>, Op[1] = "writeMeta"
    PROVE  \A j : ~Replaces(work, j) /\ ~Writes(work, j)
<1>1. PICK w : w = work OBVIOUS
<1>2. /\ w \in Seq(Ops) /\ w # <<>> /\ Ordered(w) /\ w[1][1] = "writeMeta" BY <1>1, OpIs
<1>3. ~IsRemoval(w[1]) BY <1>2 DEF IsRemoval
<1>4. \A j : ~Replaces(w, j) /\ ~Writes(Tail(w), j) BY <1>2, <1>3, WritesLast
<1>5. \A j : ~Writes(w, j) BY <1>2, <1>4, RestHas
<1>6. QED BY <1>1, <1>4, <1>5

LEMMA MetaNotWrittenShows ==
    ASSUME CInv, BInv, MetaNotWritten
    PROVE  BInv' /\ Shows
<1>1. /\ work # <<>> /\ Op[1] = "writeMeta" /\ UNCHANGED <<up, stores, served, entries, meta, body, spoilt>>
      /\ work' = Tail(work)
  BY DEF MetaNotWritten, memory, files
<1>2. up /\ work' = <<>> BY <1>1, MetaIsLast
<1>3. \A j : ~Replaces(work, j) /\ ~Writes(work, j) BY <1>1, LastIsText
<1>4. \A j : ~Replaces(work', j) /\ ~Writes(work', j) BY <1>2, NoneLeft
<1>5. BInv'
  <2>1. ASSUME NEW j \in Keys \ spoilt
        PROVE  Backed(entries'[j], meta'[j], body'[j]) /\ BodyOf(entries'[j], body'[j])
    <3>1. Backed(entries[j], meta[j], body[j]) /\ BodyOf(entries[j], body[j]) BY <1>3 DEF BInv
    <3>2. QED BY <3>1, <1>1
  <2>2. QED BY <2>1, <1>1, BInvNext
<1>6. ASSUME NEW j \in Keys PROVE Seen(j)' = Seen(j)
  <2>1. Seen(j) = InMemory(entries[j], body[j]) BY <1>2, <1>3, SeenNow
  <2>2. Seen(j)' = InMemory(entries'[j], body'[j]) BY <1>1, <1>2, <1>4, SeenNext
  <2>3. QED BY <2>1, <2>2, <1>1
<1>7. \A j \in Keys : ~Waits(entries', work', j) BY <1>4 DEF Waits
<1>8. QED BY <1>1, <1>5, <1>6, <1>7, NothingShows

LEMMA WriteMetaShows ==
    ASSUME CInv, BInv, WriteFileMeta
    PROVE  BInv' /\ Shows
<1>1. /\ work # <<>> /\ Op[1] = "writeMeta" /\ UNCHANGED <<up, body, served, stores, spoilt>>
      /\ work' = Tail(work) /\ meta' = [meta EXCEPT ![Key] = Op[3]]
      /\ entries' = [entries EXCEPT ![Key].onDisk = TRUE]
  BY DEF WriteFileMeta
<1>2. PICK k : k = Key OBVIOUS
<1>3. PICK x : x = Op[3] OBVIOUS
<1>4. PICK m : m = entries OBVIOUS
<1>5. /\ up /\ k \in HeldIn(m) /\ x \in Text /\ x.store = m[k].store /\ x.size = m[k].size
      /\ work' = <<>>
  BY <1>1, <1>2, <1>3, <1>4, MetaIsLast
<1>6. m \in Maps /\ k \in Keys /\ m[k] \in Entry /\ m[k] # None
  <2>1. m \in Maps /\ k \in Keys /\ m[k] # None BY <1>4, <1>5 DEF CInv, Types, HeldIn
  <2>2. QED BY <2>1, <1>5, HeldEntry
<1>7. PICK n : n = PutOnDisk(m, k) OBVIOUS
<1>8. entries' = n BY <1>1, <1>2, <1>4, <1>7 DEF PutOnDisk
<1>9. /\ n[k] = [m[k] EXCEPT !.onDisk = TRUE] /\ \A j \in Keys \ {k} : n[j] = m[j]
      /\ HeldIn(n) = HeldIn(m)
  BY <1>5, <1>6, <1>7, EntryOnDisk
<1>10. /\ n[k] # None /\ n[k].onDisk /\ n[k].store = m[k].store /\ n[k].size = m[k].size
       /\ n[k].body = m[k].body
  <2>1. n[k].onDisk /\ n[k].store = m[k].store /\ n[k].size = m[k].size /\ n[k].body = m[k].body
    BY <1>6, <1>9 DEF Entry
  <2>2. k \in HeldIn(n) BY <1>5, <1>9
  <2>3. QED BY <2>1, <2>2 DEF HeldIn
<1>11. \A j : ~Replaces(work, j) /\ ~Writes(work, j) BY <1>1, LastIsText
<1>12. \A j : ~Replaces(work', j) /\ ~Writes(work', j) BY <1>5, NoneLeft
<1>13. meta'[k] = x /\ \A j \in Keys \ {k} : meta'[j] = meta[j]
  BY <1>1, <1>2, <1>3, <1>6 DEF CInv, Types
<1>14. ASSUME NEW j \in Keys \ spoilt
       PROVE  Backed(m[j], meta[j], body[j]) /\ BodyOf(m[j], body[j])
  BY <1>4, <1>11 DEF BInv
<1>15. BInv'
  <2>1. ASSUME NEW j \in Keys \ spoilt
        PROVE  Backed(entries'[j], meta'[j], body'[j]) /\ BodyOf(entries'[j], body'[j])
    <3>1. entries'[j] = n[j] /\ body'[j] = body[j] BY <1>1, <1>8
    <3>2. CASE j = k
      <4>1. /\ body[k] # None => body[k].store = m[k].store
            /\ Loaded(m[k]) => m[k].body = m[k].store
        BY <3>2, <1>6, <1>14 DEF Backed, BodyOf
      <4>2. Loaded(n[k]) => n[k].body = n[k].store BY <4>1, <1>10 DEF Loaded
      <4>3. Backed(entries'[j], meta'[j], body'[j])
        BY <3>1, <3>2, <4>1, <4>2, <1>5, <1>10, <1>13 DEF Backed
      <4>4. BodyOf(entries'[j], body'[j]) BY <3>1, <3>2, <4>1, <1>10 DEF BodyOf
      <4>5. QED BY <4>3, <4>4
    <3>3. CASE j # k
      <4>1. n[j] = m[j] /\ meta'[j] = meta[j] BY <3>3, <1>9, <1>13
      <4>2. QED BY <3>1, <4>1, <1>14
    <3>4. QED BY <3>2, <3>3
  <2>2. QED BY <2>1, <1>1, BInvNext
<1>16. ASSUME NEW j \in Keys \ spoilt PROVE Seen(j)' = Seen(j)
  <2>1. Seen(j) = InMemory(m[j], body[j]) BY <1>4, <1>5, <1>11, SeenNow
  <2>2. Seen(j)' = InMemory(n[j], body[j])
    <3>1. up' BY <1>1, <1>5
    <3>2. Seen(j)' = InMemory(entries'[j], body'[j]) BY <3>1, <1>12, SeenNext
    <3>3. QED BY <3>2, <1>1, <1>8
  <2>3. CASE j = k
    <3>1. m[k].onDisk \/ Loaded(m[k]) BY <2>3, <1>6, <1>14 DEF Backed
    <3>2. Loaded(n[k]) <=> Loaded(m[k]) BY <1>10 DEF Loaded
    <3>3. CASE Loaded(m[k])
      <4>1. InMemory(m[k], body[k]) = Whole(m[k].store) BY <3>3, <1>6 DEF InMemory
      <4>2. InMemory(n[k], body[k]) = Whole(n[k].store) BY <3>2, <3>3, <1>10 DEF InMemory
      <4>3. QED BY <4>1, <4>2, <2>1, <2>2, <2>3, <1>10
    <3>4. CASE ~Loaded(m[k])
      <4>1. (body[k] # None /\ m[k].onDisk /\ body[k].length >= m[k].size)
              <=> (body[k] # None /\ n[k].onDisk /\ body[k].length >= n[k].size)
        BY <3>1, <3>4, <1>10
      <4>2. InMemory(n[k], body[k]) = InMemory(m[k], body[k])
        BY <3>2, <3>4, <4>1, <1>6, <1>10 DEF InMemory
      <4>3. QED BY <4>2, <2>1, <2>2, <2>3
    <3>5. QED BY <3>3, <3>4
  <2>4. CASE j # k BY <2>1, <2>2, <2>4, <1>9
  <2>5. QED BY <2>3, <2>4
<1>17. Shows
  <2>1. \A j \in Keys : ~Waits(entries', work', j) BY <1>12 DEF Waits
  <2>2. UNCHANGED <<stores, served, spoilt>> BY <1>1
  <2>3. QED BY <2>1, <2>2, <1>16, NothingShows
<1>18. QED BY <1>15, <1>17

LEMMA StopShows ==
    ASSUME CInv, BInv, Stop
    PROVE  BInv' /\ Shows
<1>1. /\ up /\ up' = FALSE /\ work' = <<>> /\ served' = None /\ UNCHANGED <<meta, body, stores, spoilt>>
      /\ \A k \in Keys : entries'[k] = None
  BY DEF Stop, files
<1>2. \A k : ~Replaces(work', k) /\ ~Writes(work', k) BY <1>1, NoneLeft
<1>3. BInv'
  <2>1. ASSUME NEW k \in Keys \ spoilt
        PROVE  Backed(entries'[k], meta'[k], body'[k]) /\ BodyOf(entries'[k], body'[k])
    <3>1. Backed(entries[k], meta[k], body[k]) BY DEF BInv
    <3>2. QED BY <3>1, <1>1 DEF Backed, BodyOf
  <2>2. QED BY <2>1, <1>1, BInvNext
<1>4. ASSUME NEW k \in Keys \ spoilt PROVE Seen(k)' \in {Seen(k), None}
  <2>1. Seen(k)' = InFiles(meta[k], body[k]) BY <1>1, SeenNext
  <2>2. CASE Replaces(work, k) BY <2>1, <2>2, <1>1, SeenNow
  <2>3. CASE ~Replaces(work, k)
    <3>1. Seen(k) = InMemory(entries[k], body[k]) BY <2>3, <1>1, SeenNow
    <3>2. meta[k] # None => /\ entries[k] # None /\ entries[k].onDisk
                            /\ entries[k].store = meta[k].store /\ entries[k].size = meta[k].size
      BY <2>3, <1>1 DEF CInv, TextsOf
    <3>3. CASE meta[k] # None /\ body[k] # None /\ body[k].length >= meta[k].size
      <4>1. InFiles(meta[k], body[k]) = Whole(meta[k].store) BY <3>3 DEF InFiles
      <4>2. InMemory(entries[k], body[k]) = Whole(entries[k].store) BY <3>2, <3>3 DEF InMemory
      <4>3. QED BY <4>1, <4>2, <2>1, <3>1, <3>2, <3>3
    <3>4. CASE ~(meta[k] # None /\ body[k] # None /\ body[k].length >= meta[k].size)
      BY <3>4, <2>1 DEF InFiles
    <3>5. QED BY <3>3, <3>4
  <2>4. QED BY <2>2, <2>3
<1>5. Used \subseteq Used'
  <2>1. \A k \in Keys : ~Waits(entries', work', k) BY <1>2 DEF Waits
  <2>2. stores' = stores BY <1>1
  <2>3. Used' = UsedOf(entries', work', stores') BY UsedNext
  <2>4. Used \subseteq UsedOf(entries', work', stores') BY <2>1, <2>2 DEF Used, UsedOf
  <2>5. QED BY <2>3, <2>4
<1>6. QED BY <1>1, <1>3, <1>4, <1>5 DEF Shows, Change

LEMMA StartShows ==
    ASSUME CInv, BInv, Start
    PROVE  BInv' /\ Shows
<1>0. PICK lone : /\ meta' = [k \in Keys |-> IF Paired(k) \/ k \in lone THEN meta[k] ELSE None]
                  /\ body' = [k \in Keys |-> IF Paired(k) \/ k \in lone THEN body[k] ELSE None]
                  /\ spoilt' = spoilt \cup {k \in lone : meta[k] # None}
  BY DEF Start
<1>1. /\ ~up /\ up' = TRUE /\ UNCHANGED <<work, served, stores>> /\ spoilt \subseteq spoilt'
      /\ \A k \in Keys : entries'[k] = IF Paired(k) THEN ReadBack(k) ELSE None
      /\ \A k \in Keys : Paired(k) => meta'[k] = meta[k] /\ body'[k] = body[k]
      /\ \A k \in Keys \ spoilt' : ~Paired(k) => meta'[k] = None
  BY <1>0 DEF Start
<1>2. work' = <<>> /\ \A k : ~Replaces(work', k)
  <2>1. work' = <<>> BY <1>1 DEF CInv
  <2>2. QED BY <2>1, NoneLeft
<1>3. ASSUME NEW k \in Keys \ spoilt'
      PROVE  /\ Backed(entries'[k], meta'[k], body'[k]) /\ BodyOf(entries'[k], body'[k])
             /\ InMemory(entries'[k], body'[k]) = InFiles(meta[k], body[k])
  <2>1. PICK e : e = entries'[k] OBVIOUS
  <2>2. CASE ~Paired(k)
    <3>1. e = None /\ meta'[k] = None BY <2>1, <2>2, <1>1
    <3>2. InFiles(meta[k], body[k]) = None BY <2>2 DEF InFiles, Paired
    <3>3. QED BY <3>1, <3>2, <2>1 DEF Backed, BodyOf, InMemory
  <2>3. CASE Paired(k)
    <3>1. e = ReadBack(k) /\ meta'[k] = meta[k] /\ body'[k] = body[k] BY <2>1, <2>3, <1>1
    <3>2. e # None /\ e.store = meta[k].store /\ e.size = meta[k].size /\ e.onDisk /\ ~Loaded(e)
      BY <3>1, <2>3, ReadBackIs
    <3>3. meta[k] # None /\ body[k] # None /\ body[k].store = meta[k].store
      BY <2>3, <1>1 DEF Paired, BInv, Backed
    <3>4. Backed(e, meta[k], body[k]) /\ BodyOf(e, body[k]) BY <3>2, <3>3 DEF Backed, BodyOf
    <3>5. InMemory(e, body[k]) = InFiles(meta[k], body[k]) BY <3>2, <3>3 DEF InMemory, InFiles
    <3>6. QED BY <3>1, <3>4, <3>5, <2>1
  <2>4. QED BY <2>2, <2>3
<1>4. BInv' BY <1>3, BInvNext
<1>5. ASSUME NEW k \in Keys \ spoilt' PROVE Seen(k)' = Seen(k)
  <2>1. Seen(k) = InFiles(meta[k], body[k]) BY <1>1 DEF Seen, Live
  <2>2. Seen(k)' = InMemory(entries'[k], body'[k]) BY <1>1, <1>2, SeenNext
  <2>3. QED BY <2>1, <2>2, <1>3
<1>6. \A k \in Keys : ~Waits(entries', work', k) BY <1>2 DEF Waits
<1>7. Shows BY <1>1, <1>5, <1>6, NothingShows
<1>8. QED BY <1>4, <1>7

LEMMA IdleShows ==
    ASSUME CInv, BInv, UNCHANGED <<up, entries, meta, body, work, served, stores, spoilt>>
    PROVE  BInv' /\ Shows
<1>1. BInv' BY DEF BInv, Backed, BodyOf, Writes, Loaded
<1>2. ASSUME NEW k \in Keys PROVE Seen(k)' = Seen(k)
  <2>1. CASE up /\ ~Replaces(work, k) BY <2>1, SeenNow, SeenNext
  <2>2. CASE up /\ Replaces(work, k) BY <2>2, SeenNow, SeenNext
  <2>3. CASE ~up
    <3>1. Seen(k) = InFiles(meta[k], body[k]) BY <2>3 DEF Seen, Live
    <3>2. QED BY <2>3, <3>1, SeenNext
  <2>4. QED BY <2>1, <2>2, <2>3
<1>3. \A k \in Keys : Waits(entries', work', k) =>
          Waits(entries, work, k) /\ entries'[k].store = entries[k].store
  OBVIOUS
<1>4. QED BY <1>1, <1>2, <1>3, NothingShows

LEMMA NextShows ==
    ASSUME CInv, BInv, [Next]_vars
    PROVE  BInv' /\ Shows
<1>1. CASE Next
  <2>1. ASSUME NEW k \in Keys, Lookup(k) PROVE BInv' /\ Shows BY <2>1, LookupShows
  <2>2. ASSUME NEW k \in Keys, NEW life \in Lives, NEW validator \in BOOLEAN,
               Refresh(k, life, validator)
        PROVE  BInv' /\ Shows
    BY <2>2, RefreshShows
  <2>3. ASSUME NEW k \in Keys, NEW r \in Responses, Store(k, r) PROVE BInv' /\ Shows
    BY <2>3, StoreShows
  <2>4. CASE Clear BY <2>4, ClearShows
  <2>5. CASE RemoveFile
    <3>1. Op[1] = "removeMeta" \/ Op[1] = "removeBody" BY <2>5 DEF RemoveFile
    <3>2. QED BY <2>5, <3>1, RemoveMetaShows, RemoveBodyShows
  <2>6. ASSUME NEW how \in {"whole"} \cup (Failures \ {"stays"}), WriteFileBody(how)
        PROVE  BInv' /\ Shows
    <3>1. how \in {"whole", "short", "lost", "unopened"} BY SizesAssumption DEF SizesAssumption
    <3>2. QED BY <2>6, <3>1, WriteBodyShows
  <2>7. CASE WriteFileMeta BY <2>7, WriteMetaShows
  <2>8. CASE MetaNotWritten BY <2>8, MetaNotWrittenShows
  <2>9. CASE Tick BY <2>9, IdleShows DEF Tick, memory, files
  <2>10. CASE Stop BY <2>10, StopShows
  <2>11. CASE Start BY <2>11, StartShows
  <2>12. CASE FileStays BY <2>12, FileStaysShows
  <2>13. QED
    BY <1>1, <2>1, <2>2, <2>3, <2>4, <2>5, <2>6, <2>7, <2>8, <2>9, <2>10, <2>11, <2>12 DEF Next
<1>2. CASE UNCHANGED vars BY <1>2, IdleShows DEF vars, memory, files
<1>3. QED BY <1>1, <1>2

-----------------------------------------------------------------------------
(* What lookups find is what CacheStore holds. *)

Holds == [k \in Keys |-> IF k \in spoilt THEN None
                          ELSE IF ~up \/ Replacing(k) THEN FromFiles(k) ELSE FromMemory(k)]
Served == IF served # None /\ served.url \in spoilt THEN None ELSE served

LEMMA ReplacingIs ==
    ASSUME CInv, NEW k
    PROVE  Replacing(k) <=> Replaces(work, k)
<1>1. work \in Seq(Ops) BY DEF CInv, Types
<1>2. \A i \in 1..Len(work) : work[i] \in Ops BY <1>1
<1>3. ASSUME NEW i \in 1..Len(work)
      PROVE  work[i] = <<"removeMeta", k>> <=> work[i][1] = "removeMeta" /\ work[i][2] = k
  <2>1. PICK op \in Ops : op = work[i] BY <1>2
  <2>2. op[1] = "removeMeta" => op = <<op[1], op[2]>> BY OpKinds DEF IsRemoval
  <2>3. op = <<"removeMeta", k>> <=> op[1] = "removeMeta" /\ op[2] = k BY <2>2
  <2>4. QED BY <2>1, <2>3
<1>4. QED BY <1>3 DEF Replacing, Replaces

LEMMA HoldsIs ==
    ASSUME CInv, BInv, NEW k \in Keys
    PROVE  Holds[k] = IF k \in spoilt THEN None ELSE Seen(k)
<1>0. SUFFICES ASSUME k \notin spoilt PROVE Holds[k] = Seen(k) BY DEF Holds
<1>1. Holds[k] = IF ~up \/ Replaces(work, k) THEN FromFiles(k) ELSE FromMemory(k)
  BY <1>0, ReplacingIs DEF Holds
<1>2. Backed(entries[k], meta[k], body[k]) /\ (~Writes(work, k) => BodyOf(entries[k], body[k]))
  BY <1>0 DEF BInv
<1>3. FromFiles(k) = InFiles(meta[k], body[k])
  <2>1. CASE Paired(k) /\ body[k].length >= meta[k].size
    <3>1. body[k].store = meta[k].store BY <2>1, <1>2 DEF Paired, Backed
    <3>2. QED BY <2>1, <3>1 DEF FromFiles, InFiles, Paired, Whole
  <2>2. CASE ~(Paired(k) /\ body[k].length >= meta[k].size)
    BY <2>2 DEF FromFiles, InFiles, Paired
  <2>3. QED BY <2>1, <2>2
<1>4. FromMemory(k) = InMemory(entries[k], body[k])
  <2>1. CASE entries[k] = None BY <2>1 DEF FromMemory, Held, InMemory
  <2>2. CASE entries[k] # None /\ Loaded(entries[k])
    <3>1. entries[k].body = entries[k].store BY <2>2, <1>2 DEF Backed
    <3>2. FromMemory(k) = [headers |-> entries[k].store, body |-> entries[k].body]
      BY <2>2 DEF FromMemory, Held, Answer
    <3>3. InMemory(entries[k], body[k]) = Whole(entries[k].store) BY <2>2 DEF InMemory
    <3>4. QED BY <3>1, <3>2, <3>3 DEF Whole
  <2>3. CASE entries[k] # None /\ ~Loaded(entries[k])
    <3>1. ~Writes(work, k) BY <2>3, WritesIs DEF CInv
    <3>2. body[k] # None => body[k].store = entries[k].store BY <2>3, <3>1, <1>2 DEF BodyOf
    <3>3. CASE Readable(k)
      <4>1. FromMemory(k) = Whole(entries[k].store)
        BY <2>3, <3>2, <3>3 DEF FromMemory, Held, Readable, Whole
      <4>2. InMemory(entries[k], body[k]) = Whole(entries[k].store)
        BY <2>3, <3>3 DEF InMemory, Readable
      <4>3. QED BY <4>1, <4>2
    <3>4. CASE ~Readable(k) BY <2>3, <3>4 DEF FromMemory, Held, InMemory, Readable
    <3>5. QED BY <3>3, <3>4
  <2>4. QED BY <2>1, <2>2, <2>3
<1>5. QED BY <1>1, <1>3, <1>4 DEF Seen, Live

LEMMA UsedIs ==
    ASSUME CInv
    PROVE  (1..stores) \ Unseen = Used
<1>1. \A k \in Keys : k \in Held /\ Replacing(k) <=> Waits(entries, work, k)
  BY ReplacingIs DEF Held, Waits
<1>2. Unseen = {entries[k].store : k \in {l \in Keys : Waits(entries, work, l)}}
  BY <1>1 DEF Unseen, Held
<1>3. stores \in Nat BY DEF CInv, Types
<1>4. QED BY <1>2, <1>3 DEF Used, UsedOf

\* No response is found under two URLs.
LEMMA SeenApart ==
    ASSUME CInv, NEW k \in Keys, NEW l \in Keys, Seen(k) = Seen(l)
    PROVE  k = l \/ Seen(k) = None
<1>1. ASSUME NEW j \in Keys, Seen(j) # None
      PROVE  \E s \in StoresOf(entries, meta, j) : Seen(j) = Whole(s)
  <2>1. CASE Live(j)
    <3>1. Seen(j) = InMemory(entries[j], body[j]) BY <2>1 DEF Seen
    <3>2. entries[j] # None /\ Seen(j) = Whole(entries[j].store) BY <3>1, <1>1 DEF InMemory
    <3>3. entries \in Maps /\ j \in HeldIn(entries) BY <3>2 DEF CInv, Types, HeldIn
    <3>4. entries[j] \in Entry BY <3>3, HeldEntry
    <3>5. entries[j].store \in Int BY <3>4 DEF Entry
    <3>6. entries[j].store \in StoresOf(entries, meta, j) BY <3>2, <3>5 DEF StoresOf
    <3>7. QED BY <3>2, <3>6
  <2>2. CASE ~Live(j)
    <3>1. Seen(j) = InFiles(meta[j], body[j]) BY <2>2 DEF Seen
    <3>2. meta[j] # None /\ Seen(j) = Whole(meta[j].store) BY <3>1, <1>1 DEF InFiles
    <3>3. meta[j] \in Text BY <3>2 DEF CInv, Types
    <3>4. meta[j].store \in Int BY <3>3 DEF Text
    <3>5. meta[j].store \in StoresOf(entries, meta, j) BY <3>2, <3>4 DEF StoresOf
    <3>6. QED BY <3>2, <3>5
  <2>3. QED BY <2>1, <2>2
<1>2. SUFFICES ASSUME k # l, Seen(k) # None PROVE FALSE OBVIOUS
<1>3. PICK s \in StoresOf(entries, meta, k) : Seen(k) = Whole(s) BY <1>1, <1>2
<1>4. PICK t \in StoresOf(entries, meta, l) : Seen(l) = Whole(t) BY <1>1, <1>2
<1>5. s = t
  <2>1. Whole(s) = Whole(t) BY <1>3, <1>4
  <2>2. Whole(s).body = Whole(t).body BY <2>1
  <2>3. QED BY <2>2 DEF Whole
<1>6. QED BY <1>2, <1>3, <1>4, <1>5 DEF CInv, Apart

\* The invariant of the files' contents, and the promise.
LEMMA BodiesInit ==
    ASSUME Init
    PROVE  BInv /\ Promise!Init
<1>1. CInv BY InitInv
<1>2. BInv BY DEF Init, BInv, Backed, BodyOf
<1>3. \A k \in Keys : Seen(k) = None
  <2>1. \A k \in Keys : entries[k] = None /\ meta[k] = None BY DEF Init
  <2>2. QED BY <2>1 DEF Seen, InMemory, InFiles
<1>4. Holds = [k \in Keys |-> None] BY <1>1, <1>2, <1>3, HoldsIs DEF Holds
<1>5. (1..stores) \ Unseen = {} BY DEF Init
<1>6. Served = None BY DEF Init, Served
<1>7. QED BY <1>2, <1>4, <1>5, <1>6 DEF Promise!Init, Holds, Served

\* Stated without assumptions, they hold of the next state as well.
LEMMA HoldsNext == CInv /\ BInv => \A k \in Keys : Holds[k] = IF k \in spoilt THEN None ELSE Seen(k)
BY HoldsIs
LEMMA UsedIsNext == CInv => (1..stores) \ Unseen = Used
BY UsedIs
LEMMA ApartNext == CInv => \A k, l \in Keys : Seen(k) = Seen(l) => k = l \/ Seen(k) = None
BY SeenApart

LEMMA PromiseStep == CInv /\ BInv /\ CInv' /\ BInv' /\ Shows => Promise!Next
<1>1. (CInv /\ BInv => \A k \in Keys : Holds[k] = IF k \in spoilt THEN None ELSE Seen(k))'
  BY HoldsNext, PTL
<1>2. (CInv => (1..stores) \ Unseen = Used)' BY UsedIsNext, PTL
<1>3. (CInv => \A k, l \in Keys : Seen(k) = Seen(l) => k = l \/ Seen(k) = None)' BY ApartNext, PTL
<1> SUFFICES ASSUME CInv, BInv, CInv', BInv', Shows PROVE Promise!Next OBVIOUS
<1>4. PICK h : h = Holds OBVIOUS
<1>5. PICK g : g = Holds' OBVIOUS
<1>6. PICK a : a = (1..stores) \ Unseen OBVIOUS
<1>7. PICK b : b = ((1..stores) \ Unseen)' OBVIOUS
<1>8. PICK p : p = Served OBVIOUS
<1>9. PICK q : q = Served' OBVIOUS
<1>10. \A k \in Keys : h[k] = IF k \in spoilt THEN None ELSE Seen(k) BY <1>4, HoldsIs
<1>11. \A k \in Keys : g[k] = IF k \in spoilt' THEN None ELSE Seen(k)' BY <1>1, <1>5
<1>12. a = Used /\ b = Used' BY <1>2, <1>6, <1>7, UsedIs
<1>13. ASSUME NEW k \in Keys
       PROVE  g[k] \in {h[k], None} \/ \E s \in b \ a : g[k] = [headers |-> s, body |-> s]
  <2>1. CASE k \in spoilt' BY <2>1, <1>11
  <2>2. CASE k \notin spoilt'
    <3>1. k \notin spoilt BY <2>2 DEF Shows, Change
    <3>2. g[k] = Seen(k)' /\ h[k] = Seen(k) BY <2>2, <3>1, <1>10, <1>11
    <3>3. Seen(k)' \in {Seen(k), None} \/ \E s \in Used' \ Used : Seen(k)' = Whole(s)
      BY <2>2 DEF Shows, Change
    <3>4. QED BY <3>2, <3>3, <1>12 DEF Whole
  <2>3. QED BY <2>1, <2>2
<1>14. a \subseteq b BY <1>12 DEF Shows, Change
<1>15. \A k, l \in Keys : g[k] = g[l] => k = l \/ g[k] = None BY <1>3, <1>11
<1>16. q \in {p, None} \cup {[url |-> k, response |-> g[k]] : k \in Keys}
  <2>1. q = IF served' # None /\ served'.url \in spoilt' THEN None ELSE served' BY <1>9 DEF Served
  <2>2. CASE served' = None BY <2>1, <2>2
  <2>3. CASE served' # None /\ served' = served
    <3>1. spoilt \subseteq spoilt' BY DEF Shows, Change
    <3>2. QED BY <2>1, <2>3, <3>1, <1>8 DEF Served
  <2>4. ASSUME NEW k \in Keys, HandsOut(k), served' # None
        PROVE  q = None \/ q = [url |-> k, response |-> g[k]]
    <3>1. CASE k \in spoilt' BY <2>1, <2>4, <3>1 DEF HandsOut
    <3>2. CASE k \notin spoilt'
      <4>1. served' = [url |-> k, response |-> Seen(k)'] /\ served'.url = k BY <2>4, <3>2 DEF HandsOut
      <4>2. q = served' BY <2>1, <3>2, <4>1
      <4>3. QED BY <4>1, <4>2, <3>2, <1>11
    <3>3. QED BY <3>1, <3>2
  <2>5. QED BY <2>2, <2>3, <2>4 DEF Shows
<1>17. Promise!Change
  BY <1>4, <1>5, <1>6, <1>7, <1>13, <1>14, <1>15 DEF Promise!Change, Promise!Whole, Holds
<1>18. Promise!Serve BY <1>5, <1>8, <1>9, <1>16 DEF Promise!Serve, Holds, Served
<1>19. QED BY <1>17, <1>18 DEF Promise!Next

\* "What is handed out is a copy made under the lock" (net/Cache.h): a whole
\* response, the last stored for its URL and never one replaced or forgotten,
\* whatever fails and wherever the browser ends in the middle of a call.  Only of
\* a URL with a file that was to go, or to be written anew, and stayed as it was is
\* nothing promised: remove_files and write_entry keep no note of it.
THEOREM CacheKeepsPromise == Spec => KeepsPromise
<1>1. Init => BInv /\ Promise!Init BY BodiesInit
<1>2. CInv /\ BInv /\ [Next]_vars => BInv' /\ Shows BY NextShows
<1>3. CInv /\ BInv /\ CInv' /\ BInv' /\ Shows => [Promise!Next]_(Promise!vars) BY PromiseStep
<1>4. QED BY <1>1, <1>2, <1>3, CacheInvariant, PTL DEF Spec, KeepsPromise, Promise!Spec
=============================================================================
