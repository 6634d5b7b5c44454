-------------------------- MODULE IndexedDbProofs --------------------------
(***************************************************************************)
(* Proofs about IndexedDb, for any pages, requests, transactions and       *)
(* stores: its inductive invariant, its types, that an upgrade passes       *)
(* nobody by, that transactions are isolated, and that it implements        *)
(* AtomicDatabase.                                                          *)
(***************************************************************************)
EXTENDS IndexedDb, FiniteSetTheorems, WellFoundedInduction, TLAPS

-----------------------------------------------------------------------------
(* Iteration: what holds at the start and is kept by each of N steps holds  *)
(* after all of them.                                                       *)

LEMMA NatLowest ==
    ASSUME NEW T \in SUBSET Nat, T # {}
    PROVE  \E x \in T : \A y \in T : x <= y
<1> DEFINE R == OpToRel(<, Nat)
<1>1. IsWellFoundedOn(R, Nat) BY NatLessThanWellFounded
<1>2. \A x, y \in Nat : <<y, x>> \in R <=> y < x BY DEF OpToRel
<1> HIDE DEF R
<1>3. PICK x \in T : \A y \in T : ~ (<<y, x>> \in R) BY <1>1, WFMin
<1>4. ASSUME NEW y \in T PROVE x <= y
  <2>1. ~(<<y, x>> \in R) /\ x \in Nat /\ y \in Nat BY <1>3
  <2>2. ~(y < x) BY <2>1, <1>2
  <2>3. QED BY <2>1, <2>2
<1>5. QED BY <1>4

LEMMA Climb ==
    ASSUME NEW N \in Nat, NEW T, 0 \in T, \A n \in 1..N : n - 1 \in T => n \in T
    PROVE  \A n \in 0..N : n \in T
<1> DEFINE U == {n \in 0..N : n \notin T}
<1>1. SUFFICES ASSUME U # {} PROVE FALSE OBVIOUS
<1>2. U \in SUBSET Nat OBVIOUS
<1> HIDE DEF U
<1>3. PICK m \in U : \A y \in U : m <= y BY <1>1, <1>2, NatLowest
<1>4. m \in 0..N /\ m \notin T BY DEF U
<1>5. m # 0 BY <1>4
<1>6. m \in 1..N /\ m - 1 \in 0..N BY <1>4, <1>5
<1>7. m - 1 \notin U BY <1>3, <1>4, <1>6
<1>8. m - 1 \in T BY <1>6, <1>7 DEF U
<1>9. QED BY <1>4, <1>6, <1>8

Steps(g, N, S) == g \in [(1..N) \X S -> S]
Iterated(f, N, S, b, g) ==
    f \in [0..N -> S] /\ f[0] = b /\ \A n \in 1..N : f[n] = g[<<n, f[n - 1]>>]

LEMMA Iterates ==
    ASSUME NEW N \in Nat, NEW S, NEW b \in S, NEW g, Steps(g, N, S)
    PROVE  \E f : Iterated(f, N, S, b, g)
<1>0. g \in [(1..N) \X S -> S] BY DEF Steps
<1> DEFINE Is(f, m) == f \in [0..m -> S] /\ f[0] = b /\ \A n \in 1..m : f[n] = g[<<n, f[n - 1]>>]
           T == {m \in 0..N : \E f : Is(f, m)}
<1>1. 0 \in T
  <2>1. PICK f : f = [n \in 0..0 |-> b] OBVIOUS
  <2>2. Is(f, 0) BY <2>1
  <2>3. QED BY <2>2
<1>2. ASSUME NEW m \in 1..N, m - 1 \in T PROVE m \in T
  <2>1. PICK f : Is(f, m - 1) BY <1>2
  <2>2. PICK h : h = [n \in 0..m |-> IF n = m THEN g[<<m, f[m - 1]>>] ELSE f[n]] OBVIOUS
  <2>3. \A n \in 0..m : n # m => n \in 0..(m - 1) OBVIOUS
  <2>4. m - 1 \in 0..(m - 1) /\ <<m, f[m - 1]>> \in (1..N) \X S BY <2>1
  <2>5. h \in [0..m -> S] BY <1>0, <2>1, <2>2, <2>3, <2>4
  <2>6. h[0] = b BY <2>1, <2>2, <2>3
  <2>7. ASSUME NEW n \in 1..m PROVE h[n] = g[<<n, h[n - 1]>>]
    <3>1. n - 1 \in 0..(m - 1) /\ n - 1 # m OBVIOUS
    <3>2. h[n - 1] = f[n - 1] BY <2>2, <3>1
    <3>3. CASE n = m
      <4>1. h[m] = g[<<m, f[m - 1]>>] BY <2>2
      <4>2. QED BY <3>2, <3>3, <4>1
    <3>4. CASE n # m
      <4>1. n \in 1..(m - 1) BY <3>4
      <4>2. h[n] = f[n] BY <2>2, <3>4
      <4>3. f[n] = g[<<n, f[n - 1]>>] BY <2>1, <4>1
      <4>4. QED BY <3>2, <4>2, <4>3
    <3>5. QED BY <3>3, <3>4
  <2>8. Is(h, m) BY <2>5, <2>6, <2>7
  <2>9. QED BY <2>8
<1> HIDE DEF T
<1>3. N \in T BY <1>1, <1>2, Climb
<1>4. QED BY <1>3 DEF T, Iterated

-----------------------------------------------------------------------------
(* What is left of a sequence keeps its order.                              *)

Picks(q, s, S, n) ==
    \E f \in [1..Len(q) -> 1..n] :
        /\ \A i, j \in 1..Len(q) : i < j => f[i] < f[j]
        /\ \A i \in 1..Len(q) : q[i] = s[f[i]] /\ q[i] \in S
        /\ \A m \in 1..n : s[m] \in S => \E i \in 1..Len(q) : f[i] = m

LEMMA PicksOne ==
    ASSUME NEW s, NEW S, NEW T, NEW q \in Seq(T), NEW n \in Nat, n # 0, Picks(q, s, S, n - 1),
           s[n] \in T
    PROVE  Picks(IF s[n] \in S THEN Append(q, s[n]) ELSE q, s, S, n)
<1>1. PICK f \in [1..Len(q) -> 1..(n - 1)] :
        /\ \A i, j \in 1..Len(q) : i < j => f[i] < f[j]
        /\ \A i \in 1..Len(q) : q[i] = s[f[i]] /\ q[i] \in S
        /\ \A m \in 1..(n - 1) : s[m] \in S => \E i \in 1..Len(q) : f[i] = m
  BY DEF Picks
<1>2. Len(q) \in Nat OBVIOUS
<1>3. CASE s[n] \in S
  <2>1. PICK r : r = Append(q, s[n]) OBVIOUS
  <2>2. Len(r) = Len(q) + 1 /\ r[Len(r)] = s[n] /\ \A i \in 1..Len(q) : r[i] = q[i] BY <2>1
  <2>3. PICK h : h = [i \in 1..Len(r) |-> IF i = Len(r) THEN n ELSE f[i]] OBVIOUS
  <2>4. \A i \in 1..Len(r) : i # Len(r) => i \in 1..Len(q) BY <1>2, <2>2
  <2>5. h \in [1..Len(r) -> 1..n]
    <3>1. \A i \in 1..Len(r) : h[i] \in 1..n BY <2>3, <2>4, <1>1
    <3>2. QED BY <3>1, <2>3
  <2>6. ASSUME NEW i \in 1..Len(r), NEW j \in 1..Len(r), i < j PROVE h[i] < h[j]
    <3>1. i # Len(r) /\ i \in 1..Len(q) BY <1>2, <2>2, <2>4, <2>6
    <3>2. h[i] = f[i] /\ f[i] \in 1..(n - 1) BY <2>3, <3>1, <1>1
    <3>3. CASE j = Len(r) BY <2>3, <3>2, <3>3
    <3>4. CASE j # Len(r) BY <2>3, <2>4, <2>6, <3>1, <3>2, <3>4, <1>1
    <3>5. QED BY <3>3, <3>4
  <2>7. \A i \in 1..Len(r) : r[i] = s[h[i]] /\ r[i] \in S BY <1>1, <1>3, <2>2, <2>3, <2>4
  <2>8. ASSUME NEW m \in 1..n, s[m] \in S PROVE \E i \in 1..Len(r) : h[i] = m
    <3>1. CASE m = n
      <4>1. Len(r) \in 1..Len(r) BY <1>2, <2>2
      <4>2. QED BY <2>3, <3>1, <4>1
    <3>2. CASE m # n
      <4>1. m \in 1..(n - 1) BY <3>2
      <4>2. PICK i \in 1..Len(q) : f[i] = m BY <1>1, <2>8, <4>1
      <4>3. i \in 1..Len(r) /\ i # Len(r) BY <1>2, <2>2
      <4>4. QED BY <2>3, <4>2, <4>3
    <3>3. QED BY <3>1, <3>2
  <2>9. Picks(r, s, S, n) BY <2>5, <2>6, <2>7, <2>8 DEF Picks
  <2>10. QED BY <1>3, <2>1, <2>9
<1>4. CASE s[n] \notin S
  <2>1. f \in [1..Len(q) -> 1..n] BY <1>1
  <2>2. \A m \in 1..n : s[m] \in S => m \in 1..(n - 1) BY <1>4
  <2>3. Picks(q, s, S, n) BY <1>1, <2>1, <2>2 DEF Picks
  <2>4. QED BY <1>4, <2>3
<1>5. QED BY <1>3, <1>4

Keeping(h, s, S) ==
    h = [n \in 0..Len(s) |->
          IF n = 0 THEN <<>> ELSE IF s[n] \in S THEN Append(h[n - 1], s[n]) ELSE h[n - 1]]

LEMMA KeepingExists ==
    ASSUME NEW T, NEW s \in Seq(T), NEW S
    PROVE  \E h : Keeping(h, s, S)
<1>1. Len(s) \in Nat /\ \A n \in 1..Len(s) : s[n] \in T OBVIOUS
<1>2. PICK g : g = [x \in (1..Len(s)) \X Seq(T) |->
                      IF s[x[1]] \in S THEN Append(x[2], s[x[1]]) ELSE x[2]] OBVIOUS
<1>3. g \in [(1..Len(s)) \X Seq(T) -> Seq(T)] BY <1>1, <1>2
<1>4. <<>> \in Seq(T) OBVIOUS
<1>5. PICK N : N = Len(s) OBVIOUS
<1>6. PICK f : Iterated(f, N, Seq(T), <<>>, g)
  <2>1. N \in Nat /\ Steps(g, N, Seq(T)) BY <1>1, <1>3, <1>5 DEF Steps
  <2>2. QED BY <1>4, <2>1, Iterates
<1>7. \A n \in 1..N : f[n] = IF s[n] \in S THEN Append(f[n - 1], s[n]) ELSE f[n - 1]
  <2> TAKE n \in 1..N
  <2>1. n - 1 \in 0..N BY <1>1, <1>5
  <2>2. <<n, f[n - 1]>> \in (1..Len(s)) \X Seq(T) BY <1>5, <1>6, <2>1 DEF Iterated
  <2>3. QED BY <1>2, <1>6, <2>2 DEF Iterated
<1>8. \A n \in 0..N : n # 0 => n \in 1..N BY <1>1, <1>5
<1>9. f = [n \in 0..N |->
          IF n = 0 THEN <<>> ELSE IF s[n] \in S THEN Append(f[n - 1], s[n]) ELSE f[n - 1]]
  BY <1>6, <1>7, <1>8 DEF Iterated
<1>10. QED BY <1>5, <1>9 DEF Keeping

LEMMA KeepingPicks ==
    ASSUME NEW T, NEW s \in Seq(T), NEW S, NEW h, Keeping(h, s, S)
    PROVE  h[Len(s)] \in Seq(T) /\ Picks(h[Len(s)], s, S, Len(s))
<1> DEFINE R == {n \in 0..Len(s) : h[n] \in Seq(T) /\ Picks(h[n], s, S, n)}
<1>1. Len(s) \in Nat /\ \A n \in 1..Len(s) : s[n] \in T OBVIOUS
<1>2. 0 \in R
  <2>1. h[0] = <<>> BY <1>1 DEF Keeping
  <2>2. PICK f : f = [i \in 1..Len(<<>>) |-> 0] OBVIOUS
  <2>3. Len(<<>>) = 0 /\ 1..0 = {} OBVIOUS
  <2>4. f \in [1..Len(<<>>) -> 1..0] BY <2>2, <2>3
  <2>5. Picks(<<>>, s, S, 0) BY <2>3, <2>4 DEF Picks
  <2>6. h[0] \in Seq(T) BY <2>1
  <2>7. Picks(h[0], s, S, 0) BY <2>1, <2>5
  <2>8. QED BY <1>1, <2>6, <2>7
<1>3. ASSUME NEW n \in 1..Len(s), n - 1 \in R PROVE n \in R
  <2>1. n \in 0..Len(s) /\ n # 0 BY <1>1
  <2>2. h[n] = IF s[n] \in S THEN Append(h[n - 1], s[n]) ELSE h[n - 1] BY <2>1 DEF Keeping
  <2>3. s[n] \in T /\ h[n - 1] \in Seq(T) /\ Picks(h[n - 1], s, S, n - 1) BY <1>1, <1>3
  <2>4. h[n] \in Seq(T) BY <2>2, <2>3
  <2>5. PICK q : q = h[n - 1] OBVIOUS
  <2>6. Picks(IF s[n] \in S THEN Append(q, s[n]) ELSE q, s, S, n)
    BY <2>1, <2>3, <2>5, PicksOne
  <2>7. (IF s[n] \in S THEN Append(q, s[n]) ELSE q) = h[n] BY <2>2, <2>5
  <2>8. Picks(h[n], s, S, n) BY <2>6, <2>7
  <2>9. QED BY <2>1, <2>4, <2>8
<1> HIDE DEF R
<1>4. PICK N : N = Len(s) OBVIOUS
<1>5. N \in R
  <2>1. N \in Nat /\ 0 \in R BY <1>1, <1>2, <1>4
  <2>2. \A n \in 1..N : n - 1 \in R => n \in R BY <1>3, <1>4
  <2>3. \A n \in 0..N : n \in R BY <2>1, <2>2, Climb
  <2>4. QED BY <2>1, <2>3
<1>6. QED BY <1>4, <1>5 DEF R

LEMMA OnlyPicks ==
    ASSUME NEW T, NEW s \in Seq(T), NEW S
    PROVE  Only(s, S) \in Seq(T) /\ Picks(Only(s, S), s, S, Len(s))
<1>1. \E h : h = [n \in 0..Len(s) |->
          IF n = 0 THEN <<>> ELSE IF s[n] \in S THEN Append(h[n - 1], s[n]) ELSE h[n - 1]]
  <2>1. \E h : Keeping(h, s, S) BY KeepingExists
  <2>2. QED BY <2>1, Zenon DEF Keeping
<1> DEFINE kept[n \in 0..Len(s)] ==
        IF n = 0 THEN <<>> ELSE IF s[n] \in S THEN Append(kept[n - 1], s[n]) ELSE kept[n - 1]
<1>2. kept = [n \in 0..Len(s) |->
          IF n = 0 THEN <<>> ELSE IF s[n] \in S THEN Append(kept[n - 1], s[n]) ELSE kept[n - 1]]
  BY <1>1, Zenon
<1>3. Only(s, S) = kept[Len(s)] BY DEF Only
<1> HIDE DEF kept
<1>4. PICK h : h = kept OBVIOUS
<1>5. Keeping(h, s, S) BY <1>2, <1>4 DEF Keeping
<1>6. QED BY <1>3, <1>4, <1>5, KeepingPicks

LEMMA OnlyFacts ==
    ASSUME NEW T, NEW s \in Seq(T), NEW S
    PROVE  /\ Only(s, S) \in Seq(T)
           /\ ToSet(Only(s, S)) = ToSet(s) \cap S
           /\ \A i, j \in DOMAIN Only(s, S) : i < j =>
                \E k, l \in DOMAIN s : k < l /\ Only(s, S)[i] = s[k] /\ Only(s, S)[j] = s[l]
           /\ s # <<>> /\ s[1] \in S => Only(s, S) # <<>> /\ Only(s, S)[1] = s[1]
<1>1. PICK q : q = Only(s, S) OBVIOUS
<1>2. q \in Seq(T) /\ Picks(q, s, S, Len(s)) BY <1>1, OnlyPicks
<1>3. PICK f \in [1..Len(q) -> 1..Len(s)] :
        /\ \A i, j \in 1..Len(q) : i < j => f[i] < f[j]
        /\ \A i \in 1..Len(q) : q[i] = s[f[i]] /\ q[i] \in S
        /\ \A m \in 1..Len(s) : s[m] \in S => \E i \in 1..Len(q) : f[i] = m
  BY <1>2 DEF Picks
<1>4. DOMAIN q = 1..Len(q) /\ DOMAIN s = 1..Len(s) /\ Len(q) \in Nat /\ Len(s) \in Nat BY <1>2
<1>5. ToSet(q) = ToSet(s) \cap S
  <2>1. \A x \in ToSet(q) : x \in ToSet(s) \cap S BY <1>3, <1>4 DEF ToSet
  <2>2. ASSUME NEW x \in ToSet(s) \cap S PROVE x \in ToSet(q)
    <3>1. PICK m \in 1..Len(s) : s[m] = x BY <1>4, <2>2 DEF ToSet
    <3>2. PICK i \in 1..Len(q) : f[i] = m BY <1>3, <2>2, <3>1
    <3>3. q[i] = x BY <1>3, <3>1, <3>2
    <3>4. QED BY <1>4, <3>3 DEF ToSet
  <2>3. QED BY <2>1, <2>2
<1>6. ASSUME NEW i \in DOMAIN q, NEW j \in DOMAIN q, i < j
      PROVE  \E k, l \in DOMAIN s : k < l /\ q[i] = s[k] /\ q[j] = s[l]
  BY <1>3, <1>4, <1>6
<1>7. ASSUME s # <<>>, s[1] \in S PROVE q # <<>> /\ q[1] = s[1]
  <2>1. 1 \in 1..Len(s) BY <1>4, <1>7
  <2>2. PICK i \in 1..Len(q) : f[i] = 1 BY <1>3, <1>7, <2>1
  <2>3. i = 1
    <3>1. SUFFICES ASSUME i # 1 PROVE FALSE OBVIOUS
    <3>2. 1 \in 1..Len(q) /\ 1 < i BY <1>4, <2>2, <3>1
    <3>3. f[1] < f[i] /\ f[1] \in 1..Len(s) BY <1>3, <2>2, <3>2
    <3>4. QED BY <1>4, <2>2, <3>3
  <2>4. q[1] = s[1] BY <1>3, <2>2, <2>3
  <2>5. QED BY <1>4, <2>2, <2>4
<1>8. QED BY <1>1, <1>2, <1>5, <1>6, <1>7

\* No element of A comes twice in s.
Few(s, A) == \A i, j \in DOMAIN s : s[i] = s[j] /\ s[i] \in A => i = j

LEMMA OnlyFew ==
    ASSUME NEW T, NEW s \in Seq(T), NEW S, NEW A, Few(s, A)
    PROVE  Few(Only(s, S), A)
<1>1. PICK q : q = Only(s, S) OBVIOUS
<1>2. q \in Seq(T) /\ DOMAIN q \subseteq Int BY <1>1, OnlyFacts
<1>3. \A i, j \in DOMAIN q : i < j =>
         \E k, l \in DOMAIN s : k < l /\ q[i] = s[k] /\ q[j] = s[l]
  BY <1>1, OnlyFacts
<1>4. ASSUME NEW i \in DOMAIN q, NEW j \in DOMAIN q, i < j, q[i] = q[j], q[i] \in A
      PROVE  FALSE
  <2>1. PICK k \in DOMAIN s, l \in DOMAIN s : k < l /\ q[i] = s[k] /\ q[j] = s[l] BY <1>3, <1>4
  <2>2. k = l BY <1>4, <2>1 DEF Few
  <2>3. k \in Int BY <2>1
  <2>4. QED BY <2>1, <2>2, <2>3
<1>5. \A i, j \in DOMAIN q : i = j \/ i < j \/ j < i BY <1>2
<1>6. Few(q, A) BY <1>4, <1>5 DEF Few
<1>7. QED BY <1>1, <1>6

LEMMA OnlyInjective ==
    ASSUME NEW T, NEW s \in Seq(T), NEW S, IsInjective(s)
    PROVE  IsInjective(Only(s, S))
<1>1. Few(s, T) BY DEF Few, IsInjective
<1>2. Few(Only(s, S), T) BY <1>1, OnlyFew
<1>3. Only(s, S) \in Seq(T) BY OnlyFacts
<1>4. QED BY <1>2, <1>3 DEF Few, IsInjective

LEMMA JoinFacts ==
    ASSUME NEW T, NEW a \in Seq(T), NEW b \in Seq(T)
    PROVE  /\ a \o b \in Seq(T)
           /\ ToSet(a \o b) = ToSet(a) \cup ToSet(b)
           /\ \A A : Few(a, A) /\ Few(b, A) /\ ToSet(a) \cap ToSet(b) \cap A = {} => Few(a \o b, A)
           /\ \A A : Few(a \o b, A) => Few(a, A) /\ Few(b, A) /\ ToSet(a) \cap ToSet(b) \cap A = {}
<1>1. PICK c : c = a \o b OBVIOUS
<1>2. /\ c \in Seq(T) /\ Len(c) = Len(a) + Len(b) /\ Len(a) \in Nat /\ Len(b) \in Nat
      /\ DOMAIN c = 1..Len(c) /\ DOMAIN a = 1..Len(a) /\ DOMAIN b = 1..Len(b)
  BY <1>1
<1>3. \A i \in 1..Len(c) : c[i] = IF i <= Len(a) THEN a[i] ELSE b[i - Len(a)] BY <1>1
<1>4. \A i \in 1..Len(a) : i \in 1..Len(c) /\ c[i] = a[i] BY <1>2, <1>3
<1>5. \A i \in 1..Len(b) : i + Len(a) \in 1..Len(c) /\ c[i + Len(a)] = b[i]
  <2> TAKE i \in 1..Len(b)
  <2>1. i + Len(a) \in 1..Len(c) /\ ~(i + Len(a) <= Len(a)) /\ (i + Len(a)) - Len(a) = i BY <1>2
  <2>2. QED BY <1>3, <2>1
<1>6. \A i \in 1..Len(c) : (i \in 1..Len(a) /\ c[i] = a[i])
                           \/ (i - Len(a) \in 1..Len(b) /\ c[i] = b[i - Len(a)])
  BY <1>2, <1>3
<1>7. ToSet(c) = ToSet(a) \cup ToSet(b)
  <2>1. \A x \in ToSet(c) : x \in ToSet(a) \cup ToSet(b) BY <1>2, <1>6 DEF ToSet
  <2>2. \A x \in ToSet(a) : x \in ToSet(c) BY <1>2, <1>4 DEF ToSet
  <2>3. \A x \in ToSet(b) : x \in ToSet(c) BY <1>2, <1>5 DEF ToSet
  <2>4. QED BY <2>1, <2>2, <2>3
<1>8. ASSUME NEW A, Few(a, A), Few(b, A), ToSet(a) \cap ToSet(b) \cap A = {} PROVE Few(c, A)
  <2>1. SUFFICES ASSUME NEW i \in 1..Len(c), NEW j \in 1..Len(c), c[i] = c[j], c[i] \in A
                 PROVE  i = j
    BY <1>2 DEF Few
  <2>2. CASE i \in 1..Len(a) /\ c[i] = a[i]
    <3>1. a[i] \in ToSet(a) BY <1>2, <2>2 DEF ToSet
    <3>2. ~ (j - Len(a) \in 1..Len(b) /\ c[j] = b[j - Len(a)])
      BY <1>2, <1>8, <2>1, <2>2, <3>1 DEF ToSet
    <3>3. j \in 1..Len(a) /\ c[j] = a[j] BY <1>6, <3>2
    <3>4. QED BY <1>2, <1>8, <2>1, <2>2, <3>3 DEF Few
  <2>3. CASE i - Len(a) \in 1..Len(b) /\ c[i] = b[i - Len(a)]
    <3>1. b[i - Len(a)] \in ToSet(b) BY <1>2, <2>3 DEF ToSet
    <3>2. ~ (j \in 1..Len(a) /\ c[j] = a[j]) BY <1>2, <1>8, <2>1, <2>3, <3>1 DEF ToSet
    <3>3. j - Len(a) \in 1..Len(b) /\ c[j] = b[j - Len(a)] BY <1>6, <3>2
    <3>4. i - Len(a) = j - Len(a) BY <1>2, <1>8, <2>1, <2>3, <3>3 DEF Few
    <3>5. QED BY <1>2, <3>4
  <2>4. QED BY <1>6, <2>2, <2>3
<1>9. ASSUME NEW A, Few(c, A)
      PROVE  Few(a, A) /\ Few(b, A) /\ ToSet(a) \cap ToSet(b) \cap A = {}
  <2>1. Few(a, A) BY <1>2, <1>4, <1>9 DEF Few
  <2>2. Few(b, A)
    <3>1. SUFFICES ASSUME NEW i \in 1..Len(b), NEW j \in 1..Len(b), b[i] = b[j], b[i] \in A
                   PROVE  i = j
      BY <1>2 DEF Few
    <3>2. i + Len(a) = j + Len(a) BY <1>2, <1>5, <1>9, <3>1 DEF Few
    <3>3. QED BY <1>2, <3>2
  <2>3. ASSUME NEW x \in ToSet(a) \cap ToSet(b) \cap A PROVE FALSE
    <3>1. PICK i \in 1..Len(a), j \in 1..Len(b) : a[i] = x /\ b[j] = x BY <1>2, <2>3 DEF ToSet
    <3>2. i = j + Len(a) BY <1>2, <1>4, <1>5, <1>9, <2>3, <3>1 DEF Few
    <3>3. QED BY <1>2, <3>1, <3>2
  <2>4. QED BY <2>1, <2>2, <2>3
<1>10. QED BY <1>1, <1>2, <1>7, <1>8, <1>9

\* A finite set as a list.
LEMMA ListFacts ==
    ASSUME NEW T, NEW S \in SUBSET T, IsFiniteSet(S)
    PROVE  /\ SetToSeq(S) \in Seq(T) /\ ToSet(SetToSeq(S)) = S
           /\ \A A : Few(SetToSeq(S), A)
<1>1. PICK n : n = Cardinality(S) OBVIOUS
<1>2. n \in Nat /\ ExistsBijection(1..n, S) BY <1>1, FS_CardinalityType
<1>3. \E f \in [1..n -> S] : IsInjective(f)
  BY <1>2 DEF ExistsBijection, Bijection, Injection
<1>4. PICK q : q = SetToSeq(S) OBVIOUS
<1>5. q \in [1..n -> S] /\ IsInjective(q) BY <1>1, <1>3, <1>4 DEF SetToSeq
<1>6. q \in Injection(1..n, S) BY <1>5 DEF Injection
<1>7. Cardinality(1..n) = n
  <2>1. Cardinality(1..n) = IF 1 > n THEN 0 ELSE n - 1 + 1 BY <1>2, FS_Interval
  <2>2. QED BY <1>2, <2>1
<1>8. q \in Surjection(1..n, S) BY <1>1, <1>6, <1>7, FS_Injection
<1>9. \A x \in S : \E i \in 1..n : q[i] = x BY <1>8 DEF Surjection
<1>10. ToSet(q) = S BY <1>5, <1>9 DEF ToSet
<1>11. q \in Seq(T) BY <1>2, <1>5
<1>12. \A A : Few(q, A) BY <1>5 DEF Few, IsInjective
<1>13. QED BY <1>4, <1>10, <1>11, <1>12

LEMMA LimitedLists ==
    ASSUME NEW S, NEW n \in Int, NEW q \in SeqOf(S, n)
    PROVE  q \in Seq(S)
<1>1. PICK m \in 0..n : q \in [1..m -> S] BY DEF SeqOf
<1>2. QED BY <1>1

-----------------------------------------------------------------------------
(* What holds of the whole, between tasks and within one.                   *)

Stamps == (Transactions \cup {None}) \X Nat
Contents == [version : Nat, stores : [Stores -> Stamps]]
Modes == {"readonly", "readwrite", "versionchange"}
Plans == [mode : Modes \cup {"none"}, scope : SUBSET Stores, connection : Opens \cup {None}]
Placed == [store : Stores, kind : {"read", "write", "fail"}, number : Nat, executed : BOOLEAN]
UndoSteps == [store : Stores, was : Stamps]
Busy == {"Inactive", "Active", "Committing"}
TxStates == Busy \cup {"unmade", "Finished", "complete", "abort", "ended"}
Txs == [state : TxStates, plan : Plans, started : BOOLEAN, queue : Seq(Placed), processing : BOOLEAN,
        commitQueued : BOOLEAN, undo : Seq(UndoSteps), saved : Contents, made : Nat]
Entries == [id : Transactions, mode : Modes, scope : SUBSET Stores, connection : Opens, started : BOOLEAN]
Doors == [open : BOOLEAN, closePending : BOOLEAN, unfinished : Int, version : Nat]
ReqStates == {"unmade", "queued", "waiting", "upgrading", "success", "error", "ended"}
TaskKinds == {"start", "process", "commit", "aborted", "done", "begin", "others", "recheck"}
Names == Requests \cup Made
Tasks == [kind : TaskKinds, id : Names]

Worlds == [db : Contents, file : Contents, queue : Seq(Requests), begun : SUBSET Requests,
           watchers : SUBSET Requests, conns : [Opens -> Doors], scheduled : Seq(Entries),
           tx : [Transactions -> Txs], req : [Requests -> ReqStates], posts : Seq(Tasks)]

\* The transactions in the schedule, and those of them on a connection.
IdsIn(w) == {w.scheduled[i].id : i \in DOMAIN w.scheduled}
On(w, c) == {t \in IdsIn(w) : w.tx[t].plan.connection = c}

\* The schedule: each as its transaction was made, none started that must wait.
\* Those of x are over and still in it.
ScheduleRight(w, x) ==
    /\ \A i \in DOMAIN w.scheduled : LET e == w.scheduled[i] IN
         /\ e.mode = w.tx[e.id].plan.mode /\ e.scope = w.tx[e.id].plan.scope
         /\ e.connection = w.tx[e.id].plan.connection
         /\ e.started \/ w.tx[e.id].started => ~Waits(w.scheduled, i)
    /\ \A i, j \in DOMAIN w.scheduled : w.scheduled[i].id = w.scheduled[j].id => i = j
    /\ IdsIn(w) = {t \in Transactions : w.tx[t].state \in Busy} \cup x
    /\ \A t \in x : w.tx[t].state \notin Busy \cup {"unmade"}

\* A transaction keeps to its plan, and its commit is due once and last.
TxRight(it, t) ==
    /\ it.state = "unmade" => it = NewTx
    /\ it.state # "unmade" => /\ it.plan.connection \in Opens /\ it.plan.mode \in Modes
                              /\ it.plan.mode = "versionchange" <=> t \in Opens
                              /\ t \in Opens => it.plan.connection = t
    /\ \A i \in DOMAIN it.queue : /\ it.queue[i].store \in it.plan.scope
                                  /\ it.plan.mode = "readonly" => it.queue[i].kind = "read"
    /\ \A i \in DOMAIN it.undo : it.undo[i].store \in it.plan.scope
    /\ it.undo # <<>> => it.started /\ it.plan.mode = "readwrite"
    /\ it.commitQueued => it.queue = <<>> /\ it.state \notin {"unmade", "Inactive", "Active"}
TxsRight(w) == \A t \in Transactions : TxRight(w.tx[t], t)

\* A connection counts its unfinished ones and closes once there are none.
CountsRight(w) == \A c \in Opens :
    /\ w.conns[c].unfinished = Cardinality(On(w, c))
    /\ On(w, c) # {} => w.conns[c].open /\ w.req[c] \notin {"unmade", "queued", "waiting"}
    /\ w.conns[c].closePending /\ On(w, c) = {} => ~w.conns[c].open

\* The queue of requests; those of M are of a realm that is ending.
QueueRight(w, M) ==
    /\ IsInjective(w.queue)
    /\ \A i \in DOMAIN w.queue : w.queue[i] \in w.begun => i = 1
    /\ \A r \in Requests :
         /\ r \in ToSet(w.queue) /\ r \notin M => w.req[r] \in {"queued", "waiting", "upgrading"}
         /\ r \in ToSet(w.queue) => w.req[r] # "unmade"
         /\ w.req[r] \in {"queued", "waiting", "upgrading"} => r \in ToSet(w.queue)
         /\ w.req[r] \in {"waiting", "upgrading"} => r \in w.begun
         /\ w.req[r] = "unmade" => r \notin w.begun
    /\ \A r \in w.watchers : r \in ToSet(w.queue) /\ r \in w.begun /\ (r \in M \/ w.req[r] = "waiting")

\* Connections open as their requests say, to the version there is, and an
\* upgrade has the database to itself.
DoorsRight(w, M) == \A c \in Opens :
    /\ w.req[c] \in {"unmade", "queued"} => ~w.conns[c].open /\ ~w.conns[c].closePending
    /\ w.req[c] = "waiting" => w.conns[c].open /\ ~w.conns[c].closePending
    /\ w.req[c] \in {"unmade", "queued", "waiting"} => w.tx[c].state = "unmade"
    /\ w.conns[c].open /\ w.req[c] # "ended" => w.conns[c].version = w.db.version
    /\ c \in IdsIn(w) => /\ IdsIn(w) = {c} /\ (c \in M \/ w.req[c] = "upgrading")
                         /\ \A o \in Opens : w.conns[o].open => o = c

\* Of those in the schedule only a realm that is ending has ended any.
EndedRight(w, M) == \A t \in IdsIn(w) : w.tx[t].state = "ended" => t \in M

\* When a task may be on its way.
Clear(w, t) == \A i \in DOMAIN w.scheduled : w.scheduled[i].id = t => ~Waits(w.scheduled, i)
Due(w, k) ==
    CASE k.kind = "start" -> /\ k.id \in Transactions /\ w.tx[k.id].state \notin {"unmade", "ended"}
                             /\ Clear(w, k.id)
      [] k.kind = "process" -> /\ k.id \in Transactions /\ w.tx[k.id].state \notin {"unmade", "ended"}
                               /\ w.tx[k.id].started
      [] k.kind = "commit" -> k.id \in Transactions /\ w.tx[k.id].state = "Committing" /\ w.tx[k.id].commitQueued
      [] k.kind = "aborted" -> /\ k.id \in Transactions /\ w.tx[k.id].state = "Finished"
                               /\ k.id \in Opens => w.req[k.id] = "upgrading"
      [] k.kind = "done" -> k.id \in Opens /\ w.tx[k.id].state \in {"complete", "abort"} /\ w.req[k.id] = "upgrading"
      [] k.kind = "begin" -> k.id \in Requests /\ k.id \in w.begun /\ w.req[k.id] = "queued"
      [] k.kind = "others" -> k.id \in Requests /\ w.req[k.id] = "waiting" /\ k.id \notin w.watchers
      [] k.kind = "recheck" -> /\ k.id \in Requests /\ w.req[k.id] \notin {"unmade", "queued"}
                               /\ w.req[k.id] = "waiting" => k.id \in w.watchers

\* Those that come at most once.  P are the tasks that wait already.
Sole(M) == {k \in Tasks : k.kind \in {"commit", "aborted", "done", "begin", "others"} /\ k.id \notin M}
TasksRight(w, M, P) ==
    /\ P \subseteq Tasks
    /\ \A k \in P \cup ToSet(w.posts) : k.id \notin M => Due(w, k)
    /\ Few(w.posts, Sole(M)) /\ P \cap ToSet(w.posts) \cap Sole(M) = {}

Good(w, x, M, P) ==
    /\ w \in Worlds
    /\ ScheduleRight(w, x) /\ TxsRight(w) /\ CountsRight(w) /\ QueueRight(w, M) /\ DoorsRight(w, M)
    /\ EndedRight(w, M) /\ TasksRight(w, M, P)

\* Between two steps.
WaitingOn(th) == tasks[th] \o later[th] \o remote[th]
AllWaiting == UNION {ToSet(WaitingOn(th)) : th \in Threads}
Idle(w) == \A t \in Transactions : w.tx[t].state # "Active"
IInv ==
    /\ tasks \in [Threads -> Seq(Tasks)] /\ later \in [Threads -> Seq(Tasks)]
    /\ remote \in [Threads -> Seq(Tasks)] /\ alive \subseteq Realms
    /\ \A th \in Threads :
         /\ Few(WaitingOn(th), Sole({}))
         /\ \A k \in ToSet(WaitingOn(th)) : ThreadOf[RealmOf[k.id]] = th
    /\ Idle(World) /\ Good(World, {}, {}, AllWaiting)

-----------------------------------------------------------------------------
(* What the operations need of it.                                          *)

\* Where a task stays due, and a new one is due that was not, the tasks are right.
LEMMA PostsRight ==
    ASSUME NEW w, NEW v, NEW M, NEW P, TasksRight(w, M, P), w.posts \in Seq(Tasks),
           NEW e \in Seq(Tasks), v.posts = w.posts \o e,
           \A k \in P \cup ToSet(w.posts) : k.id \notin M /\ Due(w, k) => Due(v, k),
           \A k \in ToSet(e) : k.id \notin M => Due(v, k),
           Few(e, Sole(M)), \A k \in ToSet(e) : k \in Sole(M) => ~Due(w, k)
    PROVE  TasksRight(v, M, P)
<1>1. ToSet(v.posts) = ToSet(w.posts) \cup ToSet(e) BY JoinFacts
<1>2. \A k \in P \cup ToSet(w.posts) : k \in Sole(M) => k \notin ToSet(e)
  BY DEF TasksRight, Sole
<1>3. Few(v.posts, Sole(M))
  <2>1. ToSet(w.posts) \cap ToSet(e) \cap Sole(M) = {} BY <1>2
  <2>2. QED BY <2>1, JoinFacts DEF TasksRight
<1>4. P \cap ToSet(v.posts) \cap Sole(M) = {} BY <1>1, <1>2 DEF TasksRight
<1>5. \A k \in P \cup ToSet(v.posts) : k.id \notin M => Due(v, k) BY <1>1 DEF TasksRight
<1>6. QED BY <1>3, <1>4, <1>5 DEF TasksRight

LEMMA SamePosts ==
    ASSUME NEW w, NEW v, NEW M, NEW P, TasksRight(w, M, P), v.posts = w.posts,
           \A k \in P \cup ToSet(w.posts) : k.id \notin M /\ Due(w, k) => Due(v, k)
    PROVE  TasksRight(v, M, P)
BY DEF TasksRight

\* A new task of which nothing was due.
LEMMA OnePost ==
    ASSUME NEW w, NEW v, NEW M, NEW P, TasksRight(w, M, P), w.posts \in Seq(Tasks),
           NEW k \in Tasks, v.posts = Append(w.posts, k),
           \A j \in P \cup ToSet(w.posts) : j.id \notin M /\ Due(w, j) => Due(v, j),
           k.id \notin M => Due(v, k), k \in Sole(M) => ~Due(w, k)
    PROVE  TasksRight(v, M, P)
<1>1. <<k>> \in Seq(Tasks) /\ v.posts = w.posts \o <<k>> OBVIOUS
<1>2. ToSet(<<k>>) = {k} /\ Few(<<k>>, Sole(M)) BY DEF ToSet, Few
<1>3. PICK e : e = <<k>> OBVIOUS
<1>4. e \in Seq(Tasks) /\ v.posts = w.posts \o e /\ ToSet(e) = {k} /\ Few(e, Sole(M))
  BY <1>1, <1>2, <1>3
<1>5. QED BY <1>4, PostsRight

LEMMA DueSame ==
    ASSUME NEW w, NEW v, v.tx = w.tx, v.begun = w.begun, v.req = w.req, v.watchers = w.watchers,
           \A t \in Transactions : Clear(w, t) => Clear(v, t), NEW k \in Tasks, Due(w, k)
    PROVE  Due(v, k)
BY DEF Due, Tasks, TaskKinds

\* Who waits depends on the modes and scopes alone.
LEMMA WaitsSame ==
    ASSUME NEW s, NEW q, NEW i,
           \A j \in 1..i : q[j].mode = s[j].mode /\ q[j].scope = s[j].scope, i \in Nat \ {0}
    PROVE  Waits(q, i) <=> Waits(s, i)
<1>1. \A j \in 1..(i - 1) : j \in 1..i OBVIOUS
<1>2. i \in 1..i OBVIOUS
<1>3. \A j \in 1..i : Overlap(q[j], q[i]) <=> Overlap(s[j], s[i]) BY <1>2 DEF Overlap
<1>4. QED BY <1>1, <1>2, <1>3 DEF Waits

\* An entry of the schedule is as its transaction was made.
Fitting(e, it, waits) ==
    /\ e.mode = it.plan.mode /\ e.scope = it.plan.scope /\ e.connection = it.plan.connection
    /\ e.started \/ it.started => ~waits

EntriesFit(w) ==
    /\ \A i \in DOMAIN w.scheduled :
         Fitting(w.scheduled[i], w.tx[w.scheduled[i].id], Waits(w.scheduled, i))
    /\ \A i, j \in DOMAIN w.scheduled : w.scheduled[i].id = w.scheduled[j].id => i = j
SameEntries(w, v) ==
    /\ v.scheduled = w.scheduled
    /\ \A i \in DOMAIN w.scheduled : w.scheduled[i].id \in Transactions
    /\ \A t \in Transactions : v.tx[t].plan = w.tx[t].plan /\ v.tx[t].started = w.tx[t].started

LEMMA FittingAll ==
    ASSUME NEW w, NEW x
    PROVE  ScheduleRight(w, x) <=>
             /\ EntriesFit(w)
             /\ IdsIn(w) = {t \in Transactions : w.tx[t].state \in Busy} \cup x
             /\ \A t \in x : w.tx[t].state \notin Busy \cup {"unmade"}
BY DEF ScheduleRight, Fitting, EntriesFit

\* With the same entries and transactions the schedule stays right.
LEMMA ScheduleKept ==
    ASSUME NEW w, NEW v, NEW x, ScheduleRight(w, x), v.scheduled = w.scheduled, v.tx = w.tx
    PROVE  ScheduleRight(v, x)
<1>1. IdsIn(v) = IdsIn(w) BY DEF IdsIn
<1>2. EntriesFit(w) <=> EntriesFit(v) BY DEF EntriesFit
<1>3. QED BY <1>1, <1>2, FittingAll

\* The entries fit wherever the transactions keep their plans and are started as they were.
LEMMA EntriesKept ==
    ASSUME NEW w, NEW v, NEW x, ScheduleRight(w, x), SameEntries(w, v)
    PROVE  EntriesFit(v)
<1>1. \A i, j \in DOMAIN v.scheduled : v.scheduled[i].id = v.scheduled[j].id => i = j
  BY DEF ScheduleRight, SameEntries
<1>2. ASSUME NEW i \in DOMAIN v.scheduled
      PROVE  Fitting(v.scheduled[i], v.tx[v.scheduled[i].id], Waits(v.scheduled, i))
  <2>1. PICK e : e = w.scheduled[i] OBVIOUS
  <2>2. v.scheduled = w.scheduled /\ e.id \in Transactions BY <2>1 DEF SameEntries
  <2>3. Fitting(e, w.tx[e.id], Waits(w.scheduled, i)) BY <2>1, <2>2, FittingAll DEF EntriesFit
  <2>4. v.tx[e.id].plan = w.tx[e.id].plan /\ v.tx[e.id].started = w.tx[e.id].started
    BY <2>2 DEF SameEntries
  <2>5. Fitting(e, v.tx[e.id], Waits(w.scheduled, i)) BY <2>3, <2>4 DEF Fitting
  <2>6. QED BY <2>1, <2>2, <2>5
<1>3. QED BY <1>1, <1>2 DEF EntriesFit

\* What is due stays due while requests only leave the queue or are begun.
LEMMA DueBegun ==
    ASSUME NEW w, NEW v, v.tx = w.tx, w.begun \subseteq v.begun, v.req = w.req,
           v.watchers \subseteq w.watchers,
           \A r \in Requests : w.req[r] = "waiting" /\ r \in w.watchers => r \in v.watchers,
           \A t : Clear(w, t) => Clear(v, t), NEW k \in Tasks, Due(w, k)
    PROVE  Due(v, k)
<1>1. k.kind \in TaskKinds BY DEF Tasks
<1>2. CASE k.kind = "start" BY <1>2 DEF Due
<1>3. CASE k.kind \in {"process", "commit", "aborted", "done"} BY <1>3 DEF Due
<1>4. CASE k.kind \in {"begin", "others"} BY <1>4 DEF Due
<1>5. CASE k.kind = "recheck" BY <1>5 DEF Due
<1>6. QED BY <1>1, <1>2, <1>3, <1>4, <1>5 DEF TaskKinds

\* What starting whoever may start is not about.
Restarted(w, v) ==
    /\ IdsIn(v) = IdsIn(w) /\ v.db = w.db /\ v.file = w.file /\ v.queue = w.queue
    /\ v.begun = w.begun /\ v.watchers = w.watchers /\ v.conns = w.conns /\ v.tx = w.tx
    /\ v.req = w.req /\ \A k \in ToSet(v.posts) : k \in ToSet(w.posts) \/ k.kind = "start"

LEMMA StartReadyRight ==
    ASSUME NEW w, NEW x, NEW M, NEW P, Good(w, x, M, P), NEW v, v = StartReady(w)
    PROVE  Good(v, x, M, P) /\ Restarted(w, v)
<1> DEFINE s == w.scheduled
           Starts(i) == ~s[i].started /\ ~Waits(s, i)
           Told == {i \in DOMAIN s : Starts(i) /\ s[i].mode # "versionchange"}
           Begin(i) == Task("start", s[i].id)
<1>1. w \in Worlds /\ s \in Seq(Entries) /\ DOMAIN s = 1..Len(s) /\ Len(s) \in Nat
  BY DEF Good, Worlds
<1>2. PICK q : q = [i \in DOMAIN s |-> [s[i] EXCEPT !.started = s[i].started \/ Starts(i)]] OBVIOUS
<1>3. PICK e : e = Only([i \in DOMAIN s |-> Begin(i)], {Begin(i) : i \in Told}) OBVIOUS
<1>4. v = StartReady(w) OBVIOUS
<1>5. v = [w EXCEPT !.scheduled = q, !.posts = w.posts \o e] BY <1>2, <1>3, <1>4 DEF StartReady
<1>6. e \in Seq(Tasks) /\ \A k \in ToSet(e) : \E i \in Told : k = Begin(i)
  <2>1. PICK b : b = [i \in DOMAIN s |-> Begin(i)] OBVIOUS
  <2>2. \A i \in DOMAIN s : Begin(i) \in Tasks
    <3>1. \A i \in DOMAIN s : s[i] \in Entries BY <1>1
    <3>2. \A i \in DOMAIN s : s[i].id \in Names BY <3>1 DEF Entries, Names, Requests, Transactions
    <3>3. QED BY <3>2 DEF Tasks, TaskKinds, Task
  <2>3. b \in Seq(Tasks) BY <1>1, <2>1, <2>2
  <2>4. PICK S : S = {Begin(i) : i \in Told} OBVIOUS
  <2>5. e = Only(b, S) BY <1>3, <2>1, <2>4
  <2>6. e \in Seq(Tasks) /\ ToSet(e) = ToSet(b) \cap S BY <2>3, <2>5, OnlyFacts
  <2>7. QED BY <2>4, <2>6
<1> HIDE DEF Begin, Starts
<1>7. /\ q \in Seq(Entries) /\ DOMAIN q = DOMAIN s /\ Len(q) = Len(s)
      /\ \A i \in DOMAIN s : /\ q[i].id = s[i].id /\ q[i].mode = s[i].mode /\ q[i].scope = s[i].scope
                             /\ q[i].started => s[i].started \/ Starts(i)
                             /\ q[i].connection = s[i].connection
  <2>1. \A i \in DOMAIN s : s[i] \in Entries BY <1>1
  <2>2. \A i \in DOMAIN s : q[i] = [s[i] EXCEPT !.started = s[i].started \/ Starts(i)] BY <1>2
  <2>3. ASSUME NEW i \in DOMAIN s PROVE q[i] \in Entries
    <3>1. PICK d, b : d = s[i] /\ b = (s[i].started \/ Starts(i)) OBVIOUS
    <3>2. d \in Entries /\ b \in BOOLEAN BY <2>1, <3>1
    <3>3. [d EXCEPT !.started = b] \in Entries BY <3>2 DEF Entries
    <3>4. QED BY <2>2, <3>1, <3>3
  <2>4. q \in Seq(Entries) /\ DOMAIN q = DOMAIN s /\ Len(q) = Len(s)
    <3>1. q \in [1..Len(s) -> Entries] BY <1>1, <1>2, <2>3
    <3>2. QED BY <1>1, <3>1
  <2>5. QED BY <2>1, <2>2, <2>4 DEF Entries
<1>8. /\ v \in Worlds /\ v.scheduled = q /\ v.posts = w.posts \o e
      /\ v.db = w.db /\ v.file = w.file /\ v.queue = w.queue /\ v.begun = w.begun
      /\ v.watchers = w.watchers /\ v.conns = w.conns /\ v.tx = w.tx /\ v.req = w.req
  <2>1. w.posts \o e \in Seq(Tasks) BY <1>1, <1>6 DEF Worlds
  <2>2. QED BY <1>1, <1>5, <1>7, <2>1 DEF Worlds
<1>9. \A i \in DOMAIN s : Waits(q, i) <=> Waits(s, i)
  <2> TAKE i \in DOMAIN s
  <2>1. i \in Nat \ {0} /\ \A j \in 1..i : j \in DOMAIN s BY <1>1
  <2>2. \A j \in 1..i : q[j].mode = s[j].mode /\ q[j].scope = s[j].scope BY <1>7, <2>1
  <2>3. QED BY <2>1, <2>2, WaitsSame
<1>10. IdsIn(v) = IdsIn(w)
  <2>1. v.scheduled = q /\ DOMAIN q = DOMAIN w.scheduled BY <1>7, <1>8
  <2>2. \A i \in DOMAIN q : q[i].id = w.scheduled[i].id BY <1>7
  <2>3. QED BY <2>1, <2>2 DEF IdsIn
<1>11. \A c : On(v, c) = On(w, c) BY <1>8, <1>10 DEF On
<1>12. ScheduleRight(v, x)
  <2>1. ScheduleRight(w, x) BY DEF Good
  <2>2. ASSUME NEW i \in DOMAIN q
        PROVE  /\ q[i].mode = v.tx[q[i].id].plan.mode /\ q[i].scope = v.tx[q[i].id].plan.scope
               /\ q[i].connection = v.tx[q[i].id].plan.connection
               /\ q[i].started \/ v.tx[q[i].id].started => ~Waits(q, i)
    <3>1. i \in DOMAIN s BY <1>7
    <3>2. /\ q[i].mode = s[i].mode /\ q[i].scope = s[i].scope /\ q[i].id = s[i].id
          /\ q[i].connection = s[i].connection /\ (q[i].started => s[i].started \/ Starts(i))
      BY <1>7, <3>1
    <3>3. /\ s[i].mode = w.tx[s[i].id].plan.mode /\ s[i].scope = w.tx[s[i].id].plan.scope
          /\ s[i].connection = w.tx[s[i].id].plan.connection
          /\ s[i].started \/ w.tx[s[i].id].started => ~Waits(s, i)
      BY <2>1, <3>1 DEF ScheduleRight
    <3>4. QED BY <1>8, <1>9, <3>1, <3>2, <3>3 DEF Starts
  <2>3. \A i, j \in DOMAIN q : q[i].id = q[j].id => i = j BY <1>7, <2>1 DEF ScheduleRight
  <2>4. \A i \in DOMAIN q : Fitting(q[i], v.tx[q[i].id], Waits(q, i)) BY <2>2 DEF Fitting
  <2>5. v.scheduled = q /\ v.tx = w.tx BY <1>8
  <2>6. IdsIn(v) = {t \in Transactions : v.tx[t].state \in Busy} \cup x
    BY <1>10, <2>1, <2>5, FittingAll
  <2>7. \A t \in x : v.tx[t].state \notin Busy \cup {"unmade"} BY <2>1, <2>5, FittingAll
  <2>8. EntriesFit(v) BY <2>3, <2>4, <2>5 DEF EntriesFit
  <2>9. QED BY <2>6, <2>7, <2>8, FittingAll
<1>13. TxsRight(v) BY <1>8 DEF Good, TxsRight
<1>14. CountsRight(v) BY <1>8, <1>11 DEF Good, CountsRight
<1>15. QueueRight(v, M) BY <1>8 DEF Good, QueueRight
<1>16. DoorsRight(v, M) BY <1>8, <1>10 DEF Good, DoorsRight
<1>0. EndedRight(v, M) BY <1>8, <1>10 DEF Good, EndedRight
<1>17. TasksRight(v, M, P)
  <2>1. TasksRight(w, M, P) /\ w.posts \in Seq(Tasks) BY <1>1 DEF Good, Worlds
  <2>2. \A t \in Transactions : Clear(w, t) => Clear(v, t) BY <1>7, <1>8, <1>9 DEF Clear
  <2>3. \A k \in P \cup ToSet(w.posts) : k \in Tasks
    BY <2>1 DEF TasksRight, ToSet
  <2>4. \A k \in P \cup ToSet(w.posts) : k.id \notin M /\ Due(w, k) => Due(v, k)
    BY <1>8, <2>2, <2>3, DueSame
  <2>5. ASSUME NEW k \in ToSet(e) PROVE (k.id \notin M => Due(v, k)) /\ k \notin Sole(M) /\ k.kind = "start"
    <3>1. PICK i \in Told : k = Begin(i) BY <1>6
    <3>2. k.kind = "start" /\ k.id = s[i].id BY <3>1 DEF Begin, Task
    <3>3. i \in DOMAIN s /\ ~Waits(s, i) BY <3>1 DEF Starts
    <3>4. k.id \in Transactions
      <4>1. s[i] \in Entries BY <1>1, <3>3
      <4>2. QED BY <3>2, <4>1 DEF Entries
    <3>5. k.id \in IdsIn(w) BY <3>2, <3>3 DEF IdsIn
    <3>6. v.tx[k.id].state # "unmade" /\ (k.id \notin M => v.tx[k.id].state # "ended")
      BY <1>8, <3>4, <3>5 DEF Good, ScheduleRight, EndedRight, Busy
    <3>7. Clear(v, k.id)
      <4>1. \A j \in DOMAIN s : s[j].id = k.id => j = i BY <3>2, <3>3 DEF Good, ScheduleRight
      <4>2. QED BY <1>7, <1>8, <1>9, <3>3, <4>1 DEF Clear
    <3>8. QED BY <3>2, <3>4, <3>6, <3>7 DEF Due, Sole
  <2>6. Few(e, Sole(M)) BY <2>5 DEF Few, ToSet
  <2>7. QED BY <1>6, <1>8, <2>1, <2>4, <2>5, <2>6, PostsRight
<1>18. Good(v, x, M, P) BY <1>0, <1>8, <1>12, <1>13, <1>14, <1>15, <1>16, <1>17 DEF Good
<1>19. Restarted(w, v)
  <2>1. w.posts \in Seq(Tasks) BY <1>1 DEF Worlds
  <2>2. ToSet(v.posts) = ToSet(w.posts) \cup ToSet(e) BY <1>6, <1>8, <2>1, JoinFacts
  <2>3. \A k \in ToSet(e) : k.kind = "start"
    BY <1>6 DEF Begin, Task
  <2>4. QED BY <1>8, <1>10, <2>2, <2>3 DEF Restarted
<1>20. QED BY <1>18, <1>19

-----------------------------------------------------------------------------
(* The work of one transaction.                                             *)

\* The stores an undo log is about, and what was in one before its first step.
Changed(u) == {u[i].store : i \in DOMAIN u}
FirstStep(u, s) == CHOOSE i \in DOMAIN u : u[i].store = s /\ \A j \in 1..(i - 1) : u[j].store # s
Was(u, s, now) == IF s \notin Changed(u) THEN now ELSE u[FirstStep(u, s)].was

\* From w to v transaction t has gone on with its work, and nobody else.
Worked(w, v, t) ==
    /\ v \in Worlds
    /\ v.file = w.file /\ v.queue = w.queue /\ v.begun = w.begun /\ v.watchers = w.watchers
    /\ v.conns = w.conns /\ v.scheduled = w.scheduled /\ v.req = w.req
    /\ v.db.version = w.db.version
    /\ \A u \in Transactions \ {t} : v.tx[u] = w.tx[u]
    /\ v.tx[t].plan = w.tx[t].plan /\ v.tx[t].started = w.tx[t].started /\ v.tx[t].saved = w.tx[t].saved
    /\ v.tx[t].state = w.tx[t].state \/ (v.tx[t].state \in Busy /\ w.tx[t].state \in Busy)
    /\ w.tx[t].commitQueued /\ w.tx[t].state = "Committing"
         => v.tx[t].commitQueued /\ v.tx[t].state = "Committing"
    /\ Changed(w.tx[t].undo) \subseteq Changed(v.tx[t].undo)
    /\ \A s \in Stores :
         /\ v.db.stores[s] # w.db.stores[s] =>
              /\ w.tx[t].started /\ w.tx[t].plan.mode # "readonly" /\ s \in w.tx[t].plan.scope
              /\ v.db.stores[s][1] = t
         /\ w.tx[t].plan.mode # "versionchange" =>
              Was(v.tx[t].undo, s, v.db.stores[s]) = Was(w.tx[t].undo, s, w.db.stores[s])

LEMMA WorkedSame ==
    ASSUME NEW w \in Worlds, NEW t \in Transactions
    PROVE  Worked(w, w, t)
BY DEF Worked

LEMMA WorkedOn ==
    ASSUME NEW u, NEW v, NEW w, NEW t \in Transactions, Worked(u, v, t), Worked(v, w, t)
    PROVE  Worked(u, w, t)
<1>1. \A s \in Stores : w.db.stores[s] # u.db.stores[s] =>
         v.db.stores[s] # u.db.stores[s] \/ (w.db.stores[s] # v.db.stores[s])
  OBVIOUS
<1>2. \A s \in Stores : w.db.stores[s] # u.db.stores[s] =>
              /\ u.tx[t].started /\ u.tx[t].plan.mode # "readonly" /\ s \in u.tx[t].plan.scope
              /\ w.db.stores[s][1] = t
  BY <1>1 DEF Worked
<1>3. QED BY <1>2 DEF Worked

\* Nothing else is disturbed by it, and what was due still is.
LEMMA WorkedRight ==
    ASSUME NEW w, NEW x, NEW M, NEW P, Good(w, x, M, P), NEW t \in Transactions, NEW v,
           Worked(w, v, t), TxRight(v.tx[t], t)
    PROVE  /\ TasksRight(v, M, P) => Good(v, x, M, P)
           /\ \A k \in Tasks : Due(w, k) => Due(v, k)
<1>1. w \in Worlds /\ v \in Worlds BY DEF Good, Worked
<1>2. \A u \in Transactions :
        /\ v.tx[u].plan = w.tx[u].plan /\ v.tx[u].started = w.tx[u].started
        /\ v.tx[u].state = w.tx[u].state \/ (v.tx[u].state \in Busy /\ w.tx[u].state \in Busy)
  BY DEF Worked
<1>3. \A i \in DOMAIN w.scheduled : w.scheduled[i].id \in Transactions
  <2> TAKE i \in DOMAIN w.scheduled
  <2>1. w.scheduled \in Seq(Entries) BY <1>1 DEF Worlds
  <2>2. w.scheduled[i] \in Entries BY <2>1
  <2>3. QED BY <2>2 DEF Entries
<1>4. v.scheduled = w.scheduled /\ IdsIn(v) = IdsIn(w) BY DEF IdsIn, Worked
<1>5. \A c : On(v, c) = On(w, c) BY <1>2, <1>3, <1>4 DEF On, IdsIn
<1>6. ScheduleRight(v, x)
  <2>1. ScheduleRight(w, x) BY DEF Good
  <2>2. \A u \in Transactions : v.tx[u].state \in Busy <=> w.tx[u].state \in Busy BY <1>2
  <2>3. \A u \in x : u \in Transactions
    BY <2>1, <1>3 DEF ScheduleRight, IdsIn
  <2>4. \A u \in x : v.tx[u].state \notin Busy \cup {"unmade"}
    BY <1>2, <2>1, <2>3 DEF ScheduleRight
  <2>5. EntriesFit(v)
    <3>1. \A u \in Transactions : v.tx[u].plan = w.tx[u].plan /\ v.tx[u].started = w.tx[u].started
      BY <1>2
    <3>2. v.scheduled = w.scheduled BY <1>4
    <3>3. SameEntries(w, v) BY <1>3, <3>1, <3>2 DEF SameEntries
    <3>4. QED BY <2>1, <3>3, EntriesKept
  <2>6. IdsIn(v) = {u \in Transactions : v.tx[u].state \in Busy} \cup x
    BY <1>4, <2>1, <2>2 DEF ScheduleRight
  <2>7. QED BY <2>4, <2>5, <2>6, FittingAll
<1>7. TxsRight(v)
  <2>1. \A u \in Transactions : u # t => v.tx[u] = w.tx[u] BY DEF Worked
  <2>2. QED BY <2>1 DEF Good, TxsRight
<1>8. CountsRight(v) BY <1>5 DEF Good, CountsRight, Worked
<1>9. QueueRight(v, M) BY DEF Good, QueueRight, Worked
<1>10. DoorsRight(v, M)
  <2>1. \A c \in Opens : w.tx[c].state = "unmade" => v.tx[c].state = "unmade"
    BY <1>2 DEF Busy, Transactions
  <2>2. QED BY <1>4, <2>1 DEF Good, DoorsRight, Worked
<1>11. ASSUME NEW k \in Tasks, Due(w, k) PROVE Due(v, k)
  <2>1. \A u \in Transactions : Clear(v, u) <=> Clear(w, u) BY <1>4 DEF Clear
  <2>2. k.kind \in TaskKinds BY DEF Tasks
  <2>3. CASE k.kind = "commit" BY <1>11, <2>3 DEF Due, Worked
  <2>4. CASE k.kind # "commit"
    BY <1>2, <1>11, <2>1, <2>2, <2>4 DEF Due, Worked, Busy, Transactions, TaskKinds
  <2>5. QED BY <2>3, <2>4
<1>12. EndedRight(v, M)
  <2>1. \A u \in Transactions : v.tx[u].state = "ended" => w.tx[u].state = "ended"
    BY <1>2 DEF Busy
  <2>2. IdsIn(w) \subseteq Transactions BY <1>3 DEF IdsIn
  <2>3. QED BY <1>4, <2>1, <2>2 DEF Good, EndedRight
<1>13. QED BY <1>1, <1>6, <1>7, <1>8, <1>9, <1>10, <1>11, <1>12 DEF Good

\* A write adds to the log what it overwrites.
LEMMA WasAppend ==
    ASSUME NEW u \in Seq(UndoSteps), NEW s, NEW step \in UndoSteps, NEW now, NEW new,
           step.store = s => step.was = now, step.store # s => new = now
    PROVE  Was(Append(u, step), s, new) = Was(u, s, now)
<1>1. PICK z : z = Append(u, step) OBVIOUS
<1>2. /\ Len(u) \in Nat /\ DOMAIN u = 1..Len(u) /\ DOMAIN z = 1..(Len(u) + 1)
      /\ z[Len(u) + 1] = step /\ \A i \in 1..Len(u) : z[i] = u[i]
  BY <1>1
<1>3. CASE s \in Changed(u)
  <2>1. s \in Changed(z) BY <1>2, <1>3 DEF Changed
  <2>2. \A i : (i \in DOMAIN z /\ z[i].store = s /\ \A j \in 1..(i - 1) : z[j].store # s)
            <=> (i \in DOMAIN u /\ u[i].store = s /\ \A j \in 1..(i - 1) : u[j].store # s)
    <3>1. PICK a \in DOMAIN u : u[a].store = s BY <1>3 DEF Changed
    <3>2. a \in 1..Len(u) BY <1>2
    <3>3. \A i \in DOMAIN u : 1..(i - 1) \subseteq 1..Len(u) BY <1>2
    <3>4. \A i \in DOMAIN u : i \in DOMAIN z /\ z[i] = u[i] BY <1>2
    <3>5. \A i \in DOMAIN z : i \notin DOMAIN u => a \in 1..(i - 1) /\ z[a].store = s
      BY <1>2, <3>1, <3>2
    <3>6. QED BY <1>2, <3>3, <3>4, <3>5
  <2>3. FirstStep(z, s) = FirstStep(u, s) BY <2>2 DEF FirstStep
  <2>4. \E i \in DOMAIN u : u[i].store = s /\ \A j \in 1..(i - 1) : u[j].store # s
    <3>1. PICK T : T = {i \in DOMAIN u : u[i].store = s} OBVIOUS
    <3>2. T \in SUBSET Nat /\ T # {} BY <1>2, <1>3, <3>1 DEF Changed
    <3>3. PICK a \in T : \A b \in T : a <= b BY <3>2, NatLowest
    <3>4. \A j \in 1..(a - 1) : j \notin T BY <3>2, <3>3
    <3>5. \A j \in 1..(a - 1) : j \in DOMAIN u BY <1>2, <3>1, <3>3
    <3>6. QED BY <3>1, <3>3, <3>4, <3>5
  <2>5. PICK n \in DOMAIN u : n = FirstStep(u, s) BY <2>4 DEF FirstStep
  <2>6. z[n] = u[n] BY <1>2
  <2>7. QED BY <1>1, <1>3, <2>1, <2>3, <2>5, <2>6 DEF Was
<1>4. CASE s \notin Changed(u) /\ step.store # s
  <2>1. s \notin Changed(z) BY <1>2, <1>4 DEF Changed
  <2>2. QED BY <1>1, <1>4, <2>1 DEF Was
<1>5. CASE s \notin Changed(u) /\ step.store = s
  <2>1. \A i \in DOMAIN z : z[i].store = s <=> i = Len(u) + 1
    BY <1>2, <1>5 DEF Changed
  <2>2. \A i : (i \in DOMAIN z /\ z[i].store = s /\ \A j \in 1..(i - 1) : z[j].store # s)
            <=> i = Len(u) + 1
    <3>1. \A j \in 1..Len(u) : j \in DOMAIN z /\ j # Len(u) + 1 BY <1>2
    <3>2. Len(u) + 1 \in DOMAIN z /\ (Len(u) + 1) - 1 = Len(u) BY <1>2
    <3>3. QED BY <2>1, <3>1, <3>2
  <2>3. FirstStep(z, s) = Len(u) + 1 BY <2>2 DEF FirstStep
  <2>4. s \in Changed(z) BY <1>2, <1>5 DEF Changed
  <2>5. QED BY <1>1, <1>2, <1>5, <2>3, <2>4 DEF Was
<1>6. QED BY <1>3, <1>4, <1>5

\* The fields of a world that a transaction's work leaves alone.
Frame(w, v) ==
    /\ v.file = w.file /\ v.queue = w.queue /\ v.begun = w.begun /\ v.watchers = w.watchers
    /\ v.conns = w.conns /\ v.scheduled = w.scheduled /\ v.req = w.req

\* A change of the transaction's own record alone.
LEMMA RecordWorked ==
    ASSUME NEW w, NEW x, NEW M, NEW P, Good(w, x, M, P), NEW t \in Transactions, NEW it \in Txs,
           it.plan = w.tx[t].plan, it.started = w.tx[t].started, it.saved = w.tx[t].saved,
           it.undo = w.tx[t].undo,
           it.state = w.tx[t].state \/ (it.state \in Busy /\ w.tx[t].state \in Busy),
           w.tx[t].commitQueued /\ w.tx[t].state = "Committing"
             => it.commitQueued /\ it.state = "Committing",
           TxRight(it, t), NEW v \in Worlds, Frame(w, v), v.db = w.db,
           v.tx = [w.tx EXCEPT ![t] = it]
    PROVE  /\ Worked(w, v, t)
           /\ TasksRight(v, M, P) => Good(v, x, M, P)
           /\ \A k \in Tasks : Due(w, k) => Due(v, k)
<1>1. w.tx \in [Transactions -> Txs] BY DEF Good, Worlds
<1>2. v.tx[t] = it /\ \A u \in Transactions \ {t} : v.tx[u] = w.tx[u] BY <1>1
<1>3. Worked(w, v, t) BY <1>2 DEF Worked, Frame
<1>4. QED BY <1>2, <1>3, WorkedRight

With(w, y, p) == [w EXCEPT !.tx = y, !.posts = p]

LEMMA WorldWith ==
    ASSUME NEW w \in Worlds, NEW y \in [Transactions -> Txs], NEW p \in Seq(Tasks), NEW v,
           v = With(w, y, p)
    PROVE  /\ v \in Worlds /\ Frame(w, v) /\ v.db = w.db /\ v.tx = y /\ v.posts = p
<1>1. /\ Frame(w, v) /\ v.db = w.db /\ v.tx = y /\ v.posts = p
  BY DEF Worlds, Frame, With
<1>2. v \in Worlds BY DEF Worlds, With
<1>3. QED BY <1>1, <1>2

LEMMA TxFacts ==
    ASSUME NEW w, NEW x, NEW M, NEW P, Good(w, x, M, P), NEW t \in Transactions
    PROVE  /\ w.tx \in [Transactions -> Txs] /\ w.tx[t] \in Txs /\ TxRight(w.tx[t], t)
           /\ w.posts \in Seq(Tasks) /\ w \in Worlds
           /\ P \cup ToSet(w.posts) \subseteq Tasks
<1>1. w \in Worlds /\ w.posts \in Seq(Tasks) /\ w.tx \in [Transactions -> Txs]
  BY DEF Good, Worlds
<1>2. P \cup ToSet(w.posts) \subseteq Tasks BY <1>1 DEF Good, TasksRight, ToSet
<1>3. QED BY <1>1, <1>2 DEF Good, TxsRight

LEMMA ExecuteWorked ==
    ASSUME NEW w, NEW x, NEW M, NEW P, Good(w, x, M, P), NEW t \in Transactions,
           w.tx[t].started, NEW i \in DOMAIN w.tx[t].queue
    PROVE  LET v == Execute(w, t, i) IN
           /\ Good(v, x, M, P) /\ Worked(w, v, t) /\ v.posts = w.posts
           /\ v.tx[t].state = w.tx[t].state /\ v.tx[t].processing = w.tx[t].processing
           /\ Len(v.tx[t].queue) = Len(w.tx[t].queue)
<1> DEFINE it == w.tx[t]
           op == it.queue[i]
<1>1. /\ w.tx \in [Transactions -> Txs] /\ it \in Txs /\ TxRight(it, t) /\ w \in Worlds
      /\ it.queue \in Seq(Placed) /\ it.undo \in Seq(UndoSteps)
  BY TxFacts DEF Txs
<1>2. op \in Placed /\ i \in 1..Len(it.queue) BY <1>1
<1>3. op.store \in Stores /\ op.number \in Nat BY <1>2 DEF Placed
<1>4. PICK qu : qu = [it.queue EXCEPT ![i] = [op EXCEPT !.executed = TRUE]] OBVIOUS
<1>5. /\ qu \in Seq(Placed) /\ Len(qu) = Len(it.queue) /\ DOMAIN qu = DOMAIN it.queue
      /\ \A j \in DOMAIN qu : qu[j].store = it.queue[j].store /\ qu[j].kind = it.queue[j].kind
  <2>1. [op EXCEPT !.executed = TRUE] \in Placed BY <1>2 DEF Placed
  <2>2. qu \in Seq(Placed) /\ Len(qu) = Len(it.queue) /\ DOMAIN qu = DOMAIN it.queue
    BY <1>1, <1>2, <1>4, <2>1
  <2>3. ASSUME NEW j \in DOMAIN qu
        PROVE  qu[j].store = it.queue[j].store /\ qu[j].kind = it.queue[j].kind
    BY <1>2, <1>4, <2>2 DEF Placed
  <2>4. QED BY <2>2, <2>3
<1>6. PICK v : v = Execute(w, t, i) OBVIOUS
<1>7. it.state # "unmade" /\ ~it.commitQueued
  <2>1. it.queue # <<>> BY <1>1, <1>2
  <2>2. QED BY <1>1, <2>1 DEF TxRight, NewTx
<1>8. w.db \in Contents /\ w.db.stores \in [Stores -> Stamps] BY <1>1 DEF Worlds, Contents
<1>9. CASE op.executed \/ op.kind # "write"
  <2>1. PICK new : new = [it EXCEPT !.queue = qu] OBVIOUS
  <2>2. v = [w EXCEPT !.tx = [w.tx EXCEPT ![t] = new]]
    BY <1>1, <1>4, <1>6, <1>9, <2>1 DEF Execute
  <2>3. /\ new \in Txs /\ new.plan = it.plan /\ new.started = it.started /\ new.saved = it.saved
        /\ new.undo = it.undo /\ new.state = it.state /\ new.commitQueued = it.commitQueued
        /\ new.queue = qu /\ new.processing = it.processing
    BY <1>1, <1>5, <2>1 DEF Txs
  <2>4. TxRight(new, t) BY <1>1, <1>5, <1>7, <2>3 DEF TxRight
  <2>5. /\ v \in Worlds /\ Frame(w, v) /\ v.db = w.db /\ v.posts = w.posts
        /\ v.tx = [w.tx EXCEPT ![t] = new]
    BY <1>1, <2>2, <2>3 DEF Worlds, Frame
  <2>6. /\ Worked(w, v, t)
        /\ (TasksRight(v, M, P) => Good(v, x, M, P))
        /\ \A k \in Tasks : Due(w, k) => Due(v, k)
    BY <1>1, <2>3, <2>4, <2>5, RecordWorked
  <2>7. TasksRight(v, M, P)
    <3>1. TasksRight(w, M, P) BY DEF Good
    <3>2. \A k \in P \cup ToSet(w.posts) : k \in Tasks BY TxFacts
    <3>3. QED BY <2>5, <2>6, <3>1, <3>2, SamePosts
  <2>8. v.tx[t] = new BY <1>1, <2>5
  <2>9. QED BY <1>5, <1>6, <2>3, <2>5, <2>6, <2>7, <2>8
<1>10. CASE ~op.executed /\ op.kind = "write"
  <2>0. PICK step : step = [store |-> op.store, was |-> w.db.stores[op.store]] OBVIOUS
  <2>1. step \in UndoSteps BY <1>3, <1>8, <2>0 DEF UndoSteps
  <2>2. PICK un : un = IF it.plan.mode = "versionchange" THEN it.undo ELSE Append(it.undo, step)
    OBVIOUS
  <2>3. un \in Seq(UndoSteps) BY <1>1, <2>1, <2>2
  <2>4. PICK new : new = [it EXCEPT !.queue = qu, !.undo = un] OBVIOUS
  <2>5. PICK after : after = [w.db.stores EXCEPT ![op.store] = <<t, op.number>>] OBVIOUS
  <2>6. after \in [Stores -> Stamps] BY <1>3, <1>8, <2>5 DEF Stamps
  <2>7. v = [w EXCEPT !.db = [w.db EXCEPT !.stores = after], !.tx = [w.tx EXCEPT ![t] = new]]
    <3>1. v = [[w EXCEPT !.tx[t].queue[i].executed = TRUE] EXCEPT
                  !.db.stores[op.store] = <<t, op.number>>, !.tx[t].undo = un]
      <4>1. [w EXCEPT !.tx[t].queue[i].executed = TRUE].tx[t].undo = it.undo
        BY <1>1 DEF Worlds, Txs
      <4>2. QED BY <1>6, <1>10, <2>0, <2>2, <4>1, Zenon DEF Execute, Mode
    <3>2. [w EXCEPT !.tx[t].queue[i].executed = TRUE]
            = [w EXCEPT !.tx = [w.tx EXCEPT ![t] = [it EXCEPT !.queue = qu]]]
      BY <1>1, <1>4
    <3>3. PICK ex : ex = [it EXCEPT !.queue = qu] OBVIOUS
    <3>4. PICK d : d = [w EXCEPT !.tx = [w.tx EXCEPT ![t] = ex]] OBVIOUS
    <3>5. d.db = w.db /\ d.tx = [w.tx EXCEPT ![t] = ex] BY <1>1, <3>4 DEF Worlds
    <3>6. d.tx[t] = ex BY <1>1, <3>5
    <3>7. v = [d EXCEPT !.db = [d.db EXCEPT !.stores = [d.db.stores EXCEPT ![op.store] = <<t, op.number>>]],
                        !.tx = [d.tx EXCEPT ![t] = [d.tx[t] EXCEPT !.undo = un]]]
      BY <3>1, <3>2, <3>3, <3>4
    <3>8. [d.tx[t] EXCEPT !.undo = un] = new BY <1>1, <2>4, <3>3, <3>6 DEF Txs
    <3>9. [d.tx EXCEPT ![t] = new] = [w.tx EXCEPT ![t] = new] BY <1>1, <3>5
    <3>10. v = [d EXCEPT !.db = [w.db EXCEPT !.stores = after], !.tx = [w.tx EXCEPT ![t] = new]]
      BY <2>5, <3>5, <3>7, <3>8, <3>9
    <3>11. QED BY <3>4, <3>10, Zenon
  <2>8. /\ new \in Txs /\ new.plan = it.plan /\ new.started = it.started /\ new.saved = it.saved
        /\ new.undo = un /\ new.state = it.state /\ new.commitQueued = it.commitQueued
        /\ new.queue = qu /\ new.processing = it.processing
    BY <1>1, <1>5, <2>3, <2>4 DEF Txs
  <2>9. [w.db EXCEPT !.stores = after] \in Contents BY <1>8, <2>6 DEF Contents
  <2>10. /\ v \in Worlds /\ v.posts = w.posts /\ Frame(w, v)
         /\ v.db = [w.db EXCEPT !.stores = after] /\ v.tx = [w.tx EXCEPT ![t] = new]
    BY <1>1, <2>7, <2>8, <2>9 DEF Worlds, Frame
  <2>11. v.tx[t] = new /\ \A u \in Transactions \ {t} : v.tx[u] = w.tx[u] BY <1>1, <2>10
  <2>12. v.db.version = w.db.version /\ v.db.stores = after BY <1>8, <2>10 DEF Contents
  <2>13. op.store \in it.plan.scope /\ it.plan.mode # "readonly" /\ it.plan.mode \in Modes
    BY <1>1, <1>2, <1>7, <1>10 DEF TxRight
  <2>14. TxRight(new, t)
    <3>1. \A j \in DOMAIN un : un[j].store \in it.plan.scope
      <4>1. PICK undo, scope : undo = it.undo /\ scope = it.plan.scope OBVIOUS
      <4>2. undo \in Seq(UndoSteps) /\ \A j \in DOMAIN undo : undo[j].store \in scope
        BY <1>1, <4>1 DEF TxRight
      <4>3. step.store \in scope BY <2>0, <2>13, <4>1
      <4>4. un = undo \/ un = Append(undo, step) BY <2>2, <4>1
      <4>5. \A j \in DOMAIN un : un[j].store \in scope
        <5>1. CASE un = undo BY <4>2, <5>1
        <5>2. CASE un = Append(undo, step) BY <4>2, <4>3, <5>2
        <5>3. QED BY <4>4, <5>1, <5>2
      <4>6. QED BY <4>1, <4>5
    <3>2. un # <<>> => it.started /\ it.plan.mode = "readwrite"
      BY <1>1, <2>2, <2>13 DEF TxRight, Modes
    <3>3. QED BY <1>1, <1>5, <1>7, <2>8, <3>1, <3>2 DEF TxRight
  <2>15. Worked(w, v, t)
    <3>1. ASSUME NEW s \in Stores, v.db.stores[s] # w.db.stores[s]
          PROVE  /\ it.started /\ it.plan.mode # "readonly" /\ s \in it.plan.scope
                 /\ v.db.stores[s][1] = t
      <4>1. v.db.stores[s] = after[s] BY <2>12
      <4>2. s = op.store
        <5>1. s # op.store => after[s] = w.db.stores[s] BY <1>8, <2>5
        <5>2. QED BY <3>1, <4>1, <5>1
      <4>3. v.db.stores[s] = <<t, op.number>> BY <1>8, <2>5, <4>1, <4>2
      <4>4. v.db.stores[s][1] = t BY <4>3
      <4>5. QED BY <2>13, <4>2, <4>4
    <3>2. ASSUME NEW s \in Stores, it.plan.mode # "versionchange"
          PROVE  Was(new.undo, s, v.db.stores[s]) = Was(it.undo, s, w.db.stores[s])
      <4>1. step.store = s => step.was = w.db.stores[s] BY <2>0
      <4>2. step.store # s => v.db.stores[s] = w.db.stores[s] BY <1>8, <2>0, <2>5, <2>12
      <4>3. new.undo = Append(it.undo, step) BY <2>2, <2>8, <3>2
      <4>4. QED BY <1>1, <2>1, <4>1, <4>2, <4>3, WasAppend
    <3>3. Changed(it.undo) \subseteq Changed(new.undo)
      <4>1. CASE it.plan.mode = "versionchange" BY <2>2, <2>8, <4>1
      <4>2. CASE it.plan.mode # "versionchange"
        <5>1. \A j \in DOMAIN it.undo : j \in DOMAIN un /\ un[j] = it.undo[j]
          BY <1>1, <2>2, <4>2
        <5>2. QED BY <2>8, <5>1 DEF Changed
      <4>3. QED BY <4>1, <4>2
    <3>4. QED BY <2>8, <2>10, <2>11, <2>12, <3>1, <3>2, <3>3 DEF Worked, Frame
  <2>16. /\ TasksRight(v, M, P) => Good(v, x, M, P)
         /\ \A k \in Tasks : Due(w, k) => Due(v, k)
    BY <2>11, <2>14, <2>15, WorkedRight
  <2>17. TasksRight(v, M, P)
    <3>1. TasksRight(w, M, P) BY DEF Good
    <3>2. \A k \in P \cup ToSet(w.posts) : k \in Tasks BY TxFacts
    <3>3. QED BY <2>10, <2>16, <3>1, <3>2, SamePosts
  <2>18. QED BY <1>5, <1>6, <2>8, <2>10, <2>11, <2>15, <2>16, <2>17
<1>11. QED BY <1>9, <1>10

\* execute_ready, operation by operation.
Executed(h, w, t, n) == h = [i \in 0..n |-> IF i = 0 THEN w ELSE Execute(h[i - 1], t, i)]

LEMMA ExecuteReadyWorked ==
    ASSUME NEW w, NEW x, NEW M, NEW P, Good(w, x, M, P), NEW t \in Transactions
    PROVE  LET v == ExecuteReady(w, t) IN
           /\ Good(v, x, M, P) /\ Worked(w, v, t) /\ v.posts = w.posts
           /\ v.tx[t].state = w.tx[t].state /\ v.tx[t].processing = w.tx[t].processing
<1>1. w \in Worlds /\ w.tx[t].queue \in Seq(Placed) BY TxFacts DEF Txs
<1>2. PICK N : N = Len(w.tx[t].queue) OBVIOUS
<1>3. N \in Nat BY <1>1, <1>2
<1>4. CASE ~w.tx[t].started
  <2>1. ExecuteReady(w, t) = w BY <1>4 DEF ExecuteReady
  <2>2. QED BY <1>1, <2>1, WorkedSame
<1>5. CASE w.tx[t].started
  <2> DEFINE Fine(u) == /\ Good(u, x, M, P) /\ Worked(w, u, t) /\ u.posts = w.posts
                        /\ u.tx[t].state = w.tx[t].state
                        /\ u.tx[t].processing = w.tx[t].processing
                        /\ Len(u.tx[t].queue) = N
             S == {u \in Worlds : Fine(u)}
  <2>1. w \in S BY <1>1, <1>2, WorkedSame
  <2>2. ASSUME NEW u \in S, NEW n \in 1..N PROVE Execute(u, t, n) \in S
    <3>1. Good(u, x, M, P) /\ u.tx[t].started /\ Worked(w, u, t) BY <1>5 DEF Worked
    <3>2. n \in DOMAIN u.tx[t].queue
      <4>1. u.tx[t].queue \in Seq(Placed) BY <3>1, TxFacts DEF Txs
      <4>2. QED BY <4>1
    <3>3. PICK v : v = Execute(u, t, n) OBVIOUS
    <3>4. /\ Good(v, x, M, P) /\ Worked(u, v, t) /\ v.posts = u.posts
          /\ v.tx[t].state = u.tx[t].state /\ v.tx[t].processing = u.tx[t].processing
          /\ Len(v.tx[t].queue) = Len(u.tx[t].queue)
      BY <3>1, <3>2, <3>3, ExecuteWorked
    <3>5. Worked(w, v, t) BY <3>1, <3>4, WorkedOn
    <3>6. v \in Worlds BY <3>4 DEF Good
    <3>7. QED BY <3>3, <3>4, <3>5, <3>6
  <2> HIDE DEF S
  <2>3. PICK g : g = [z \in (1..N) \X S |-> Execute(z[2], t, z[1])] OBVIOUS
  <2>4. Steps(g, N, S) BY <2>2, <2>3 DEF Steps
  <2>5. PICK f : Iterated(f, N, S, w, g) BY <1>3, <2>1, <2>4, Iterates
  <2>6. \A n \in 1..N : f[n] = Execute(f[n - 1], t, n)
    <3> TAKE n \in 1..N
    <3>1. n - 1 \in 0..N BY <1>3
    <3>2. <<n, f[n - 1]>> \in (1..N) \X S BY <2>5, <3>1 DEF Iterated
    <3>3. QED BY <2>3, <2>5, <3>2 DEF Iterated
  <2>7. Executed(f, w, t, N) BY <1>3, <2>5, <2>6 DEF Iterated, Executed
  <2>8. \E h : h = [n \in 0..Len(w.tx[t].queue) |-> IF n = 0 THEN w ELSE Execute(h[n - 1], t, n)]
    BY <1>2, <2>7 DEF Executed
  <2> DEFINE upto[n \in 0..Len(w.tx[t].queue)] == IF n = 0 THEN w ELSE Execute(upto[n - 1], t, n)
  <2>9. upto = [n \in 0..Len(w.tx[t].queue) |-> IF n = 0 THEN w ELSE Execute(upto[n - 1], t, n)]
    BY <2>8
  <2>10. ExecuteReady(w, t) = upto[Len(w.tx[t].queue)] BY <1>5 DEF ExecuteReady
  <2> HIDE DEF upto
  <2>11. PICK h : h = upto OBVIOUS
  <2>12. Executed(h, w, t, N) BY <1>2, <2>9, <2>11 DEF Executed
  <2>13. ExecuteReady(w, t) = h[N] BY <1>2, <2>10, <2>11
  <2>14. PICK R : R = {n \in 0..N : h[n] \in S} OBVIOUS
  <2>15. 0 \in R BY <1>3, <2>1, <2>12, <2>14 DEF Executed
  <2>16. ASSUME NEW n \in 1..N, n - 1 \in R PROVE n \in R
    <3>1. n \in 0..N /\ n # 0 BY <1>3
    <3>2. h[n] = Execute(h[n - 1], t, n) BY <2>12, <3>1 DEF Executed
    <3>3. h[n - 1] \in S BY <2>14, <2>16
    <3>4. QED BY <2>2, <2>14, <3>1, <3>2, <3>3
  <2>17. N \in R BY <1>3, <2>15, <2>16, Climb
  <2>18. ExecuteReady(w, t) \in S BY <2>13, <2>14, <2>17
  <2>19. QED BY <2>18 DEF S
<1>6. QED BY <1>4, <1>5

LEMMA CommitTransactionWorked ==
    ASSUME NEW w, NEW x, NEW M, NEW P, Good(w, x, M, P), NEW t \in Transactions,
           w.tx[t].state \in Busy
    PROVE  LET v == CommitTransaction(w, t) IN
           Good(v, x, M, P) /\ Worked(w, v, t) /\ v.tx[t].state = "Committing"
<1> DEFINE it == w.tx[t]
<1>1. /\ w.tx \in [Transactions -> Txs] /\ it \in Txs /\ TxRight(it, t) /\ w \in Worlds
      /\ w.posts \in Seq(Tasks) /\ \A k \in P \cup ToSet(w.posts) : k \in Tasks
  BY TxFacts
<1>2. TasksRight(w, M, P) BY DEF Good
<1>3. PICK v : v = CommitTransaction(w, t) OBVIOUS
<1>4. CASE ~it.started \/ it.queue # <<>> \/ it.processing \/ it.commitQueued
  <2>1. PICK new : new = [it EXCEPT !.state = "Committing"] OBVIOUS
  <2>2. v = [w EXCEPT !.tx = [w.tx EXCEPT ![t] = new]]
    BY <1>1, <1>3, <1>4, <2>1 DEF CommitTransaction
  <2>3. /\ new \in Txs /\ new.plan = it.plan /\ new.started = it.started /\ new.saved = it.saved
        /\ new.undo = it.undo /\ new.state = "Committing" /\ new.commitQueued = it.commitQueued
        /\ new.queue = it.queue
    BY <1>1, <2>1 DEF Txs, TxStates, Busy
  <2>4. TxRight(new, t) BY <1>1, <2>3 DEF TxRight, Busy
  <2>5. /\ v \in Worlds /\ Frame(w, v) /\ v.db = w.db /\ v.posts = w.posts
        /\ v.tx = [w.tx EXCEPT ![t] = new]
    BY <1>1, <2>2, <2>3 DEF Worlds, Frame
  <2>6. /\ Worked(w, v, t)
        /\ (TasksRight(v, M, P) => Good(v, x, M, P))
        /\ \A k \in Tasks : Due(w, k) => Due(v, k)
    BY <2>3, <2>4, <2>5, RecordWorked DEF Busy
  <2>7. TasksRight(v, M, P) BY <1>1, <1>2, <2>5, <2>6, SamePosts
  <2>8. QED BY <1>1, <1>3, <2>3, <2>5, <2>6, <2>7
<1>5. CASE ~(~it.started \/ it.queue # <<>> \/ it.processing \/ it.commitQueued)
  <2>1. PICK new : new = [it EXCEPT !.state = "Committing", !.commitQueued = TRUE] OBVIOUS
  <2>2. PICK k : k = Task("commit", t) OBVIOUS
  <2>3. k \in Tasks /\ k.kind = "commit" /\ k.id = t
    BY <2>2 DEF Task, Tasks, TaskKinds, Names, Requests, Transactions
  <2>4. v = [w EXCEPT !.tx = [w.tx EXCEPT ![t] = new], !.posts = Append(w.posts, k)]
    BY <1>1, <1>3, <1>5, <2>1, <2>2 DEF CommitTransaction, Post, Worlds, Txs
  <2>5. /\ new \in Txs /\ new.plan = it.plan /\ new.started = it.started /\ new.saved = it.saved
        /\ new.undo = it.undo /\ new.state = "Committing" /\ new.commitQueued
        /\ new.queue = it.queue
    BY <1>1, <2>1 DEF Txs, TxStates, Busy
  <2>6. TxRight(new, t) BY <1>1, <1>5, <2>5 DEF TxRight, Busy
  <2>7. /\ v \in Worlds /\ Frame(w, v) /\ v.db = w.db /\ v.posts = Append(w.posts, k)
        /\ v.tx = [w.tx EXCEPT ![t] = new]
    <3>1. Append(w.posts, k) \in Seq(Tasks) /\ [w.tx EXCEPT ![t] = new] \in [Transactions -> Txs]
      BY <1>1, <2>3, <2>5
    <3>2. PICK y, p : y = [w.tx EXCEPT ![t] = new] /\ p = Append(w.posts, k) OBVIOUS
    <3>3. y \in [Transactions -> Txs] /\ p \in Seq(Tasks) BY <3>1, <3>2
    <3>4. v = With(w, y, p) BY <2>4, <3>2 DEF With
    <3>5. w \in Worlds BY <1>1
    <3>6. v \in Worlds /\ Frame(w, v) /\ v.db = w.db /\ v.tx = y /\ v.posts = p
      BY <3>3, <3>4, <3>5, WorldWith
    <3>7. QED BY <3>2, <3>6
  <2>8. /\ Worked(w, v, t)
        /\ (TasksRight(v, M, P) => Good(v, x, M, P))
        /\ \A j \in Tasks : Due(w, j) => Due(v, j)
    BY <2>5, <2>6, <2>7, RecordWorked DEF Busy
  <2>9. Due(v, k) /\ ~Due(w, k) BY <1>1, <1>5, <2>3, <2>5, <2>7 DEF Due
  <2>10. TasksRight(v, M, P) BY <1>1, <1>2, <2>3, <2>7, <2>8, <2>9, OnePost
  <2>11. QED BY <1>1, <1>3, <2>5, <2>7, <2>8, <2>10
<1>6. QED BY <1>4, <1>5

LEMMA PumpTxWorked ==
    ASSUME NEW w, NEW x, NEW M, NEW P, Good(w, x, M, P), NEW t \in Transactions,
           w.tx[t].state # "ended"
    PROVE  LET v == PumpTx(w, t) IN
           /\ Good(v, x, M, P) /\ Worked(w, v, t)
           /\ v.tx[t].state = w.tx[t].state
              \/ (w.tx[t].state = "Inactive" /\ v.tx[t].state = "Committing")
<1> DEFINE it == w.tx[t]
<1>1. /\ w.tx \in [Transactions -> Txs] /\ it \in Txs /\ TxRight(it, t) /\ w \in Worlds
      /\ w.posts \in Seq(Tasks) /\ \A k \in P \cup ToSet(w.posts) : k \in Tasks
  BY TxFacts
<1>2. TasksRight(w, M, P) BY DEF Good
<1>3. PICK v : v = PumpTx(w, t) OBVIOUS
<1>4. CASE v = w BY <1>1, <1>3, <1>4, WorkedSame
<1>5. CASE ~(Over(it.state) \/ ~it.started \/ it.processing) /\ it.queue # <<>>
  <2>1. PICK new : new = [it EXCEPT !.processing = TRUE] OBVIOUS
  <2>2. PICK k : k = Task("process", t) OBVIOUS
  <2>3. k \in Tasks /\ k.kind = "process" /\ k.id = t /\ k \notin Sole(M)
    BY <2>2 DEF Task, Tasks, TaskKinds, Names, Requests, Transactions, Sole
  <2>4. v = [w EXCEPT !.tx = [w.tx EXCEPT ![t] = new], !.posts = Append(w.posts, k)]
    BY <1>1, <1>3, <1>5, <2>1, <2>2 DEF PumpTx, Post, Worlds, Txs
  <2>5. /\ new \in Txs /\ new.plan = it.plan /\ new.started = it.started /\ new.saved = it.saved
        /\ new.undo = it.undo /\ new.state = it.state /\ new.commitQueued = it.commitQueued
        /\ new.queue = it.queue
    BY <1>1, <2>1 DEF Txs
  <2>6. it.state # "unmade" BY <1>1, <1>5 DEF TxRight, NewTx
  <2>7. TxRight(new, t) BY <1>1, <2>5, <2>6 DEF TxRight
  <2>8. /\ v \in Worlds /\ Frame(w, v) /\ v.db = w.db /\ v.posts = Append(w.posts, k)
        /\ v.tx = [w.tx EXCEPT ![t] = new]
    <3>1. Append(w.posts, k) \in Seq(Tasks) /\ [w.tx EXCEPT ![t] = new] \in [Transactions -> Txs]
      BY <1>1, <2>3, <2>5
    <3>2. PICK y, p : y = [w.tx EXCEPT ![t] = new] /\ p = Append(w.posts, k) OBVIOUS
    <3>3. y \in [Transactions -> Txs] /\ p \in Seq(Tasks) BY <3>1, <3>2
    <3>4. v = With(w, y, p) BY <2>4, <3>2 DEF With
    <3>5. w \in Worlds BY <1>1
    <3>6. v \in Worlds /\ Frame(w, v) /\ v.db = w.db /\ v.tx = y /\ v.posts = p
      BY <3>3, <3>4, <3>5, WorldWith
    <3>7. QED BY <3>2, <3>6
  <2>9. /\ Worked(w, v, t)
        /\ (TasksRight(v, M, P) => Good(v, x, M, P))
        /\ \A j \in Tasks : Due(w, j) => Due(v, j)
    BY <2>5, <2>7, <2>8, RecordWorked
  <2>10. Due(v, k) BY <1>1, <1>5, <2>3, <2>5, <2>6, <2>8 DEF Due
  <2>11. TasksRight(v, M, P) BY <1>1, <1>2, <2>3, <2>8, <2>9, <2>10, OnePost
  <2>12. QED BY <1>1, <1>3, <2>5, <2>8, <2>9, <2>11
<1>6. CASE it.state \in {"Inactive", "Committing"} /\ v = CommitTransaction(w, t)
  <2>1. Good(v, x, M, P) /\ Worked(w, v, t) /\ v.tx[t].state = "Committing"
    BY <1>6, CommitTransactionWorked DEF Busy
  <2>2. QED BY <1>3, <1>6, <2>1
<1>7. QED BY <1>3, <1>4, <1>5, <1>6 DEF PumpTx

LEMMA PlaceWorked ==
    ASSUME NEW w, NEW x, NEW M, NEW P, Good(w, x, M, P), NEW t \in Transactions,
           w.tx[t].state = "Active", NEW op \in Operations(w.tx[t].plan)
    PROVE  LET v == Place(w, t, op) IN
           Good(v, x, M, P) /\ Worked(w, v, t) /\ v.tx[t].state = "Active"
<1> DEFINE it == w.tx[t]
<1>1. /\ w.tx \in [Transactions -> Txs] /\ it \in Txs /\ TxRight(it, t) /\ w \in Worlds
      /\ \A k \in P \cup ToSet(w.posts) : k \in Tasks
  BY TxFacts
<1>2. TasksRight(w, M, P) BY DEF Good
<1>3. it.queue \in Seq(Placed) /\ it.made \in Nat /\ it.plan \in Plans BY <1>1 DEF Txs
<1>4. PICK placed : placed = [store |-> op.store, kind |-> op.kind,
                              number |-> it.made + 1, executed |-> FALSE] OBVIOUS
<1>5. /\ placed \in Placed /\ placed.store \in it.plan.scope
      /\ it.plan.mode = "readonly" => placed.kind = "read"
  BY <1>3, <1>4 DEF Placed, Plans, Operations
<1>6. PICK new : new = [it EXCEPT !.queue = Append(it.queue, placed), !.made = it.made + 1] OBVIOUS
<1>7. PICK u : u = [w EXCEPT !.tx = [w.tx EXCEPT ![t] = new]] OBVIOUS
<1>8. Append(it.queue, placed) \in Seq(Placed) BY <1>3, <1>5
<1>9. /\ new \in Txs /\ new.plan = it.plan /\ new.started = it.started /\ new.saved = it.saved
      /\ new.undo = it.undo /\ new.state = "Active" /\ new.commitQueued = it.commitQueued
      /\ new.queue = Append(it.queue, placed)
  <2>1. /\ new.plan = it.plan /\ new.started = it.started /\ new.saved = it.saved
        /\ new.undo = it.undo /\ new.state = "Active" /\ new.commitQueued = it.commitQueued
        /\ new.queue = Append(it.queue, placed)
    BY <1>1, <1>6 DEF Txs
  <2>2. it.made + 1 \in Nat BY <1>3
  <2>3. new \in Txs BY <1>1, <1>6, <1>8, <2>2 DEF Txs
  <2>4. QED BY <2>1, <2>3
<1>10. TxRight(new, t)
  <2>1. \A i \in DOMAIN new.queue : /\ new.queue[i].store \in it.plan.scope
                                    /\ it.plan.mode = "readonly" => new.queue[i].kind = "read"
    <3> TAKE i \in DOMAIN new.queue
    <3>1. CASE i \in DOMAIN it.queue BY <1>1, <1>3, <1>9, <3>1 DEF TxRight
    <3>2. CASE i \notin DOMAIN it.queue
      <4>1. new.queue[i] = placed BY <1>3, <1>9, <3>2
      <4>2. QED BY <1>5, <4>1
    <3>3. QED BY <3>1, <3>2
  <2>2. QED BY <1>1, <1>9, <2>1 DEF TxRight
<1>11. /\ u \in Worlds /\ Frame(w, u) /\ u.db = w.db /\ u.posts = w.posts
       /\ u.tx = [w.tx EXCEPT ![t] = new]
  BY <1>1, <1>7, <1>9 DEF Worlds, Frame
<1>12. /\ Worked(w, u, t)
       /\ (TasksRight(u, M, P) => Good(u, x, M, P))
       /\ \A k \in Tasks : Due(w, k) => Due(u, k)
  BY <1>9, <1>10, <1>11, RecordWorked DEF Busy
<1>13. TasksRight(u, M, P) BY <1>1, <1>2, <1>11, <1>12, SamePosts
<1>14. u.tx[t].state = "Active" BY <1>1, <1>9, <1>11
<1>15. PICK y : y = ExecuteReady(u, t) OBVIOUS
<1>16. Good(y, x, M, P) /\ Worked(u, y, t) /\ y.tx[t].state = "Active"
  BY <1>12, <1>13, <1>14, <1>15, ExecuteReadyWorked
<1>17. PICK v : v = PumpTx(y, t) OBVIOUS
<1>18. Good(v, x, M, P) /\ Worked(y, v, t) /\ v.tx[t].state = "Active"
  <2>1. PICK a : a = y OBVIOUS
  <2>2. Good(a, x, M, P) /\ a.tx[t].state = "Active" /\ v = PumpTx(a, t) BY <1>16, <1>17, <2>1
  <2>3. LET z == PumpTx(a, t) IN
        /\ Good(z, x, M, P) /\ Worked(a, z, t)
        /\ z.tx[t].state = a.tx[t].state \/ (a.tx[t].state = "Inactive" /\ z.tx[t].state = "Committing")
    BY <2>2, PumpTxWorked
  <2>4. QED BY <2>1, <2>2, <2>3
<1>19. v = Place(w, t, op)
  <2>1. u = [w EXCEPT !.tx[t].queue = Append(@, placed), !.tx[t].made = @ + 1]
    <3>1. w.tx[t] = it /\ [it EXCEPT !.queue = Append(it.queue, placed)].made = it.made
      BY <1>1 DEF Txs
    <3>2. QED BY <1>1, <1>6, <1>7, <3>1 DEF Worlds, Txs
  <2>2. QED BY <1>4, <1>15, <1>17, <2>1 DEF Place
<1>20. Worked(w, v, t) BY <1>12, <1>16, <1>18, WorkedOn
<1>21. QED BY <1>18, <1>19, <1>20

PlacedUpTo(h, w, t, ops, n) == h = [i \in 0..n |-> IF i = 0 THEN w ELSE Place(h[i - 1], t, ops[i])]

LEMMA PlaceAllWorked ==
    ASSUME NEW w, NEW x, NEW M, NEW P, Good(w, x, M, P), NEW t \in Transactions,
           w.tx[t].state = "Active", NEW ops \in Seq(Operations(w.tx[t].plan))
    PROVE  LET v == PlaceAll(w, t, ops) IN
           Good(v, x, M, P) /\ Worked(w, v, t) /\ v.tx[t].state = "Active"
<1> DEFINE Fine(u) == Good(u, x, M, P) /\ Worked(w, u, t) /\ u.tx[t].state = "Active"
           S == {u \in Worlds : Fine(u)}
<1>1. w \in Worlds BY TxFacts
<1>2. PICK N : N = Len(ops) OBVIOUS
<1>3. N \in Nat BY <1>2
<1>4. w \in S BY <1>1, WorkedSame
<1>5. ASSUME NEW u \in S, NEW n \in 1..N PROVE Place(u, t, ops[n]) \in S
  <2>1. Good(u, x, M, P) /\ u.tx[t].state = "Active" /\ Worked(w, u, t) OBVIOUS
  <2>2. ops[n] \in Operations(u.tx[t].plan)
    <3>1. ops[n] \in Operations(w.tx[t].plan) BY <1>2
    <3>2. QED BY <2>1, <3>1 DEF Worked
  <2>3. PICK v : v = Place(u, t, ops[n]) OBVIOUS
  <2>4. Good(v, x, M, P) /\ Worked(u, v, t) /\ v.tx[t].state = "Active"
    BY <2>1, <2>2, <2>3, PlaceWorked
  <2>5. Worked(w, v, t) BY <2>1, <2>4, WorkedOn
  <2>6. v \in Worlds BY <2>4 DEF Good
  <2>7. QED BY <2>3, <2>4, <2>5, <2>6
<1> HIDE DEF S
<1>6. PICK g : g = [z \in (1..N) \X S |-> Place(z[2], t, ops[z[1]])] OBVIOUS
<1>7. Steps(g, N, S) BY <1>5, <1>6 DEF Steps
<1>8. PICK f : Iterated(f, N, S, w, g) BY <1>3, <1>4, <1>7, Iterates
<1>9. \A n \in 1..N : f[n] = Place(f[n - 1], t, ops[n])
  <2> TAKE n \in 1..N
  <2>1. n - 1 \in 0..N BY <1>3
  <2>2. <<n, f[n - 1]>> \in (1..N) \X S BY <1>8, <2>1 DEF Iterated
  <2>3. QED BY <1>6, <1>8, <2>2 DEF Iterated
<1>10. PlacedUpTo(f, w, t, ops, N) BY <1>3, <1>8, <1>9 DEF Iterated, PlacedUpTo
<1>11. \E h : h = [n \in 0..Len(ops) |-> IF n = 0 THEN w ELSE Place(h[n - 1], t, ops[n])]
  BY <1>2, <1>10 DEF PlacedUpTo
<1> DEFINE upto[n \in 0..Len(ops)] == IF n = 0 THEN w ELSE Place(upto[n - 1], t, ops[n])
<1>12. upto = [n \in 0..Len(ops) |-> IF n = 0 THEN w ELSE Place(upto[n - 1], t, ops[n])]
  BY <1>11
<1>13. PlaceAll(w, t, ops) = upto[Len(ops)] BY DEF PlaceAll
<1> HIDE DEF upto
<1>14. PICK h : h = upto OBVIOUS
<1>15. PlacedUpTo(h, w, t, ops, N) BY <1>2, <1>12, <1>14 DEF PlacedUpTo
<1>16. PlaceAll(w, t, ops) = h[N] BY <1>2, <1>13, <1>14
<1>17. PICK R : R = {n \in 0..N : h[n] \in S} OBVIOUS
<1>18. 0 \in R BY <1>3, <1>4, <1>15, <1>17 DEF PlacedUpTo
<1>19. ASSUME NEW n \in 1..N, n - 1 \in R PROVE n \in R
  <2>1. n \in 0..N /\ n # 0 BY <1>3
  <2>2. h[n] = Place(h[n - 1], t, ops[n]) BY <1>15, <2>1 DEF PlacedUpTo
  <2>3. h[n - 1] \in S BY <1>17, <1>19
  <2>4. QED BY <1>5, <1>17, <2>1, <2>2, <2>3
<1>20. N \in R
  <2>1. \A n \in 1..N : n - 1 \in R => n \in R BY <1>19
  <2>2. \A n \in 0..N : n \in R BY <1>3, <1>18, <2>1, Climb
  <2>3. QED BY <1>3, <2>2
<1>21. PlaceAll(w, t, ops) \in S BY <1>16, <1>17, <1>20
<1>22. QED BY <1>21 DEF S

\* The transaction becomes active, or inactive again.
LEMMA MarkedWorked ==
    ASSUME NEW w, NEW x, NEW M, NEW P, Good(w, x, M, P), NEW t \in Transactions,
           w.tx[t].state \in {"Inactive", "Active"}, NEW s \in {"Inactive", "Active"},
           NEW v, v = [w EXCEPT !.tx[t].state = s]
    PROVE  Good(v, x, M, P) /\ Worked(w, v, t) /\ v.tx[t].state = s /\ v.tx[t].plan = w.tx[t].plan
<1> DEFINE it == w.tx[t]
<1>1. /\ w.tx \in [Transactions -> Txs] /\ it \in Txs /\ TxRight(it, t) /\ w \in Worlds
      /\ \A k \in P \cup ToSet(w.posts) : k \in Tasks
  BY TxFacts
<1>2. TasksRight(w, M, P) BY DEF Good
<1>3. PICK new : new = [it EXCEPT !.state = s] OBVIOUS
<1>4. v = [w EXCEPT !.tx[t].state = s] OBVIOUS
<1>5. v = [w EXCEPT !.tx = [w.tx EXCEPT ![t] = new]] BY <1>1, <1>3, <1>4 DEF Worlds
<1>6. /\ new \in Txs /\ new.plan = it.plan /\ new.started = it.started /\ new.saved = it.saved
      /\ new.undo = it.undo /\ new.state = s /\ new.commitQueued = it.commitQueued
      /\ new.queue = it.queue
  BY <1>1, <1>3 DEF Txs, TxStates, Busy
<1>7. TxRight(new, t) BY <1>1, <1>6 DEF TxRight
<1>8. /\ v \in Worlds /\ Frame(w, v) /\ v.db = w.db /\ v.posts = w.posts
      /\ v.tx = [w.tx EXCEPT ![t] = new]
  <2>1. PICK y, p : y = [w.tx EXCEPT ![t] = new] /\ p = w.posts OBVIOUS
  <2>2. y \in [Transactions -> Txs] BY <1>1, <1>6, <2>1
  <2>3. p \in Seq(Tasks) BY <1>1, <2>1 DEF Worlds
  <2>4. PICK u : u = v OBVIOUS
  <2>5. u = With(w, y, p) BY <1>1, <1>5, <2>1, <2>4 DEF With, Worlds
  <2>6. w \in Worlds BY <1>1
  <2>7. u \in Worlds /\ Frame(w, u) /\ u.db = w.db /\ u.tx = y /\ u.posts = p
    BY <2>2, <2>3, <2>5, <2>6, WorldWith
  <2>8. QED BY <2>1, <2>4, <2>7
<1>9. /\ Worked(w, v, t)
      /\ (TasksRight(v, M, P) => Good(v, x, M, P))
      /\ \A k \in Tasks : Due(w, k) => Due(v, k)
  <2>1. w.tx[t].state \in Busy /\ new.state \in Busy BY <1>6 DEF Busy
  <2>2. ~(w.tx[t].commitQueued /\ w.tx[t].state = "Committing") OBVIOUS
  <2>3. PICK u : u = v OBVIOUS
  <2>4. u \in Worlds /\ Frame(w, u) /\ u.db = w.db /\ u.tx = [w.tx EXCEPT ![t] = new] BY <1>8, <2>3
  <2>5. /\ Worked(w, u, t)
        /\ (TasksRight(u, M, P) => Good(u, x, M, P))
        /\ \A k \in Tasks : Due(w, k) => Due(u, k)
    BY <1>6, <1>7, <2>1, <2>2, <2>4, RecordWorked
  <2>6. QED BY <2>3, <2>5
<1>10. TasksRight(v, M, P) BY <1>1, <1>2, <1>8, <1>9, SamePosts
<1>11. v.tx[t] = new BY <1>1, <1>8
<1>12. QED BY <1>4, <1>6, <1>9, <1>10, <1>11

-----------------------------------------------------------------------------
(* Leaving the schedule.                                                    *)

\* A connection that closes may have lost its last transaction just now.
CountsBut(w, but) == \A c \in Opens :
    /\ w.conns[c].unfinished = Cardinality(On(w, c))
    /\ On(w, c) # {} => w.conns[c].open /\ w.req[c] \notin {"unmade", "queued", "waiting"}
    /\ c # but /\ w.conns[c].closePending /\ On(w, c) = {} => ~w.conns[c].open
GoodBut(w, x, M, P, but) ==
    /\ w \in Worlds
    /\ ScheduleRight(w, x) /\ TxsRight(w) /\ CountsBut(w, but) /\ QueueRight(w, M) /\ DoorsRight(w, M)
    /\ EndedRight(w, M) /\ TasksRight(w, M, P)

LEMMA NamesFinite == IsFiniteSet(Names) /\ IsFiniteSet(Requests) /\ IsFiniteSet(Transactions)
<1>1. IsFiniteSet(Names) BY NamesAssumption DEF Names
<1>2. Requests \in SUBSET Names /\ Transactions \in SUBSET Names
  BY DEF Names, Requests, Transactions
<1>3. QED BY <1>1, <1>2, FS_Subset

LEMMA IdsFinite ==
    ASSUME NEW w \in Worlds
    PROVE  /\ IdsIn(w) \subseteq Transactions
           /\ \A c : /\ IsFiniteSet(On(w, c)) /\ Cardinality(On(w, c)) \in Nat
                     /\ Cardinality(On(w, c)) = 0 <=> On(w, c) = {}
<1>1. w.scheduled \in Seq(Entries) BY DEF Worlds
<1>2. \A i \in DOMAIN w.scheduled : w.scheduled[i] \in Entries BY <1>1
<1>3. IdsIn(w) \subseteq Transactions BY <1>2 DEF IdsIn, Entries
<1>4. ASSUME NEW c PROVE /\ IsFiniteSet(On(w, c)) /\ Cardinality(On(w, c)) \in Nat
                         /\ Cardinality(On(w, c)) = 0 <=> On(w, c) = {}
  <2>1. On(w, c) \in SUBSET Transactions BY <1>3 DEF On
  <2>2. IsFiniteSet(On(w, c)) BY <2>1, NamesFinite, FS_Subset
  <2>3. QED BY <2>2, FS_CardinalityType, FS_EmptySet
<1>5. QED BY <1>3, <1>4

\* What closing a connection is and is not about.
Closed(w, v) ==
    /\ v.db = w.db /\ v.file = w.file /\ v.queue = w.queue /\ v.begun = w.begun
    /\ v.watchers = w.watchers /\ v.scheduled = w.scheduled /\ v.tx = w.tx /\ v.req = w.req
    /\ \A c \in Opens : /\ v.conns[c].open => w.conns[c].open
                        /\ v.conns[c].version = w.conns[c].version
                        /\ v.conns[c].unfinished = w.conns[c].unfinished
    /\ \A k \in ToSet(v.posts) : k \in ToSet(w.posts) \/ k.kind = "recheck"

LEMMA CloseIfDoneRight ==
    ASSUME NEW w, NEW x, NEW M, NEW P, NEW c \in Opens, GoodBut(w, x, M, P, c)
    PROVE  LET v == CloseIfDone(w, c) IN
           Good(v, x, M, P) /\ Closed(w, v)
<1>1. w \in Worlds BY DEF GoodBut
<1>2. PICK v : v = CloseIfDone(w, c) OBVIOUS
<1>3. w.conns \in [Opens -> Doors] /\ w.conns[c] \in Doors BY <1>1 DEF Worlds
<1>4. w.conns[c].unfinished = Cardinality(On(w, c)) BY DEF GoodBut, CountsBut
<1>5. w.conns[c].unfinished > 0 <=> On(w, c) # {} BY <1>1, <1>4, IdsFinite
<1>6. CASE ~w.conns[c].open \/ ~w.conns[c].closePending \/ w.conns[c].unfinished > 0
  <2>1. v = w BY <1>2, <1>6 DEF CloseIfDone
  <2>2. CountsRight(w) BY <1>5, <1>6 DEF GoodBut, CountsBut, CountsRight
  <2>3. Good(w, x, M, P) BY <2>2 DEF GoodBut, Good
  <2>4. QED BY <1>2, <2>1, <2>3 DEF Closed
<1>7. CASE w.conns[c].open /\ w.conns[c].closePending /\ ~(w.conns[c].unfinished > 0)
  <2>1. PICK S : S = {Task("recheck", r) : r \in w.watchers} OBVIOUS
  <2>2. PICK e : e = SetToSeq(S) OBVIOUS
  <2>3. v = [w EXCEPT !.conns = [w.conns EXCEPT ![c] = [w.conns[c] EXCEPT !.open = FALSE]],
                      !.posts = w.posts \o e]
    BY <1>1, <1>2, <1>3, <1>7, <2>1, <2>2 DEF CloseIfDone, Worlds
  <2>4. e \in Seq(Tasks) /\ ToSet(e) = S /\ Few(e, Sole(M))
    <3>1. w.watchers \subseteq Requests BY <1>1 DEF Worlds
    <3>2. S \subseteq Tasks
      BY <2>1, <3>1 DEF Task, Tasks, TaskKinds, Names
    <3>4. IsFiniteSet(S)
      <4>1. IsFiniteSet(w.watchers) BY <3>1, NamesFinite, FS_Subset
      <4>2. PICK f : f = [r \in w.watchers |-> Task("recheck", r)] OBVIOUS
      <4>3. f \in Surjection(w.watchers, S) BY <2>1, <4>2 DEF Surjection
      <4>4. QED BY <4>1, <4>3, FS_Surjection
    <3>5. QED BY <2>2, <3>2, <3>4, ListFacts
  <2>5. /\ v \in Worlds /\ v.posts = w.posts \o e
        /\ v.db = w.db /\ v.file = w.file /\ v.queue = w.queue /\ v.begun = w.begun
        /\ v.watchers = w.watchers /\ v.scheduled = w.scheduled /\ v.tx = w.tx /\ v.req = w.req
        /\ v.conns = [w.conns EXCEPT ![c] = [w.conns[c] EXCEPT !.open = FALSE]]
    <3>1. w.posts \o e \in Seq(Tasks) BY <1>1, <2>4 DEF Worlds
    <3>2. [w.conns[c] EXCEPT !.open = FALSE] \in Doors BY <1>3 DEF Doors
    <3>3. QED BY <1>1, <1>3, <2>3, <3>1, <3>2 DEF Worlds
  <2>6. \A o \in Opens : /\ v.conns[o].open = (o # c /\ w.conns[o].open)
                         /\ v.conns[o].closePending = w.conns[o].closePending
                         /\ v.conns[o].version = w.conns[o].version
                         /\ v.conns[o].unfinished = w.conns[o].unfinished
    <3> TAKE o \in Opens
    <3>1. w.conns[o] \in Doors BY <1>3
    <3>2. CASE o = c
      <4>1. v.conns[o] = [w.conns[o] EXCEPT !.open = FALSE] BY <1>3, <2>5, <3>2
      <4>2. QED BY <3>1, <3>2, <4>1 DEF Doors
    <3>3. CASE o # c
      <4>1. v.conns[o] = w.conns[o] BY <1>3, <2>5, <3>3
      <4>2. QED BY <3>1, <3>3, <4>1 DEF Doors
    <3>4. QED BY <3>2, <3>3
  <2>7. IdsIn(v) = IdsIn(w) /\ \A o : On(v, o) = On(w, o) BY <2>5 DEF IdsIn, On
  <2>8. ScheduleRight(v, x) BY <2>5, ScheduleKept DEF GoodBut
  <2>9. TxsRight(v) BY <2>5 DEF GoodBut, TxsRight
  <2>10. CountsRight(v)
    <3>1. CountsBut(w, c) /\ On(w, c) = {} BY <1>5, <1>7 DEF GoodBut
    <3>2. ASSUME NEW o \in Opens
          PROVE  /\ v.conns[o].unfinished = Cardinality(On(v, o))
                 /\ On(v, o) # {} => v.conns[o].open /\ v.req[o] \notin {"unmade", "queued", "waiting"}
                 /\ v.conns[o].closePending /\ On(v, o) = {} => ~v.conns[o].open
      <4>1. /\ w.conns[o].unfinished = Cardinality(On(w, o))
            /\ On(w, o) # {} => w.conns[o].open /\ w.req[o] \notin {"unmade", "queued", "waiting"}
            /\ o # c /\ w.conns[o].closePending /\ On(w, o) = {} => ~w.conns[o].open
        BY <3>1 DEF CountsBut
      <4>2. CASE o = c
        <5>1. On(v, o) = {} BY <2>7, <3>1, <4>2
        <5>2. ~v.conns[o].open /\ v.conns[o].unfinished = w.conns[o].unfinished BY <2>6, <4>2
        <5>3. Cardinality(On(v, o)) = Cardinality(On(w, o)) BY <2>7
        <5>4. QED BY <4>1, <5>1, <5>2, <5>3
      <4>3. CASE o # c BY <2>5, <2>6, <2>7, <4>1, <4>3
      <4>4. QED BY <4>2, <4>3
    <3>3. QED BY <3>2 DEF CountsRight
  <2>11. QueueRight(v, M) BY <2>5 DEF GoodBut, QueueRight
  <2>12. DoorsRight(v, M) BY <1>7, <2>5, <2>6, <2>7 DEF GoodBut, DoorsRight
  <2>13. TasksRight(v, M, P)
    <3>1. TasksRight(w, M, P) /\ w.posts \in Seq(Tasks) BY <1>1 DEF GoodBut, Worlds
    <3>2. \A k \in P \cup ToSet(w.posts) : k \in Tasks BY <3>1 DEF TasksRight, ToSet
    <3>3. \A t \in Transactions : Clear(w, t) => Clear(v, t) BY <2>5 DEF Clear
    <3>4. \A k \in P \cup ToSet(w.posts) : k.id \notin M /\ Due(w, k) => Due(v, k)
      BY <2>5, <3>2, <3>3, DueSame
    <3>5. \A r \in w.watchers : r \in Requests /\ (r \in M \/ w.req[r] = "waiting")
      BY <1>1 DEF GoodBut, QueueRight, Worlds
    <3>6. ASSUME NEW k \in ToSet(e) PROVE (k.id \notin M => Due(v, k)) /\ k \notin Sole(M)
      <4>1. PICK r \in w.watchers : k = Task("recheck", r) BY <2>1, <2>4
      <4>2. k.kind = "recheck" /\ k.id = r BY <4>1 DEF Task
      <4>3. QED BY <2>5, <3>5, <4>2 DEF Due, Sole
    <3>7. QED BY <2>4, <2>5, <3>1, <3>4, <3>6, PostsRight
  <2>14. Good(v, x, M, P)
    <3>1. EndedRight(v, M) BY <2>5, <2>7 DEF GoodBut, EndedRight
    <3>2. QED BY <2>5, <2>8, <2>9, <2>10, <2>11, <2>12, <2>13, <3>1 DEF Good
  <2>15. \A k \in ToSet(v.posts) : k \in ToSet(w.posts) \/ k.kind = "recheck"
    <3>1. ToSet(v.posts) = ToSet(w.posts) \cup S
      <4>1. w.posts \in Seq(Tasks) BY <1>1 DEF Worlds
      <4>2. QED BY <2>4, <2>5, <4>1, JoinFacts
    <3>2. QED BY <2>1, <3>1 DEF Task
  <2>16. QED BY <1>2, <2>5, <2>6, <2>14, <2>15 DEF Closed
<1>8. QED BY <1>6, <1>7

\* What taking t from the schedule is and is not about.
Its(w, t) == w.tx[t].plan.connection
Left(w, v, t) ==
    /\ IdsIn(v) = IdsIn(w) \ {t}
    /\ v.db = w.db /\ v.file = w.file /\ v.queue = w.queue /\ v.begun = w.begun
    /\ v.watchers = w.watchers /\ v.tx = w.tx /\ v.req = w.req
    /\ \A o \in Opens : /\ v.conns[o].open => w.conns[o].open
                        /\ v.conns[o].version = w.conns[o].version
    /\ \A k \in ToSet(v.posts) : k \in ToSet(w.posts) \/ k.kind \in {"start", "recheck"}

LEMMA WithoutRight ==
    ASSUME NEW w, NEW x, NEW M, NEW P, Good(w, x, M, P), NEW t \in x,
           NEW v, v = Without(w, t), NEW c, c = Its(w, t)
    PROVE  /\ GoodBut(v, x \ {t}, M, P, c) /\ c \in Opens /\ t \in Transactions
           /\ Left(w, v, t)
<1> DEFINE s == w.scheduled
           Stay == {e \in ToSet(s) : e.id # t}
<1>1. w \in Worlds /\ s \in Seq(Entries) /\ DOMAIN s = 1..Len(s) /\ Len(s) \in Nat
  BY DEF Good, Worlds
<1>2. IdsIn(w) \subseteq Transactions BY <1>1, IdsFinite
<1>3. t \in IdsIn(w) /\ t \in Transactions /\ w.tx[t].state # "unmade"
  BY <1>2 DEF Good, ScheduleRight
<1>0. c = w.tx[t].plan.connection BY DEF Its
<1>4. c \in Opens BY <1>0, <1>3 DEF Good, TxsRight, TxRight
<1>5. PICK q : q = Only(s, Stay) OBVIOUS
<1>6. /\ q \in Seq(Entries) /\ ToSet(q) = Stay
      /\ \A i, j \in DOMAIN q : i < j =>
           \E k, l \in DOMAIN s : k < l /\ q[i] = s[k] /\ q[j] = s[l]
  <2>1. ToSet(s) \cap Stay = Stay OBVIOUS
  <2>2. PICK es, st : es = s /\ st = Stay OBVIOUS
  <2>3. es \in Seq(Entries) /\ q = Only(es, st) BY <1>1, <1>5, <2>2
  <2>4. /\ q \in Seq(Entries) /\ ToSet(q) = ToSet(es) \cap st
        /\ \A i, j \in DOMAIN q : i < j =>
             \E k, l \in DOMAIN es : k < l /\ q[i] = es[k] /\ q[j] = es[l]
    BY <2>3, OnlyFacts
  <2>5. QED BY <2>1, <2>2, <2>4
<1>7. v = Without(w, t) OBVIOUS
<1>8. w.conns \in [Opens -> Doors] /\ w.conns[c] \in Doors
  <2>1. w.conns \in [Opens -> Doors] BY <1>1 DEF Worlds
  <2>2. QED BY <1>4, <2>1
<1>9. v = [w EXCEPT !.scheduled = q,
                    !.conns = [w.conns EXCEPT ![c] = [w.conns[c] EXCEPT !.unfinished = @ - 1]]]
  BY <1>0, <1>5, <1>7, Zenon DEF Without
<1>10. /\ v \in Worlds /\ v.scheduled = q /\ v.posts = w.posts
       /\ v.db = w.db /\ v.file = w.file /\ v.queue = w.queue /\ v.begun = w.begun
       /\ v.watchers = w.watchers /\ v.tx = w.tx /\ v.req = w.req
       /\ v.conns = [w.conns EXCEPT ![c] = [w.conns[c] EXCEPT !.unfinished = @ - 1]]
  <2>1. [w.conns[c] EXCEPT !.unfinished = @ - 1] \in Doors BY <1>8 DEF Doors
  <2>2. PICK y : y = [w.conns EXCEPT ![c] = [w.conns[c] EXCEPT !.unfinished = @ - 1]] OBVIOUS
  <2>3. y \in [Opens -> Doors] BY <1>8, <2>1, <2>2
  <2>4. v = [w EXCEPT !.scheduled = q, !.conns = y] BY <1>9, <2>2
  <2>5. v \in Worlds BY <1>1, <1>6, <2>3, <2>4 DEF Worlds
  <2>6. /\ v.scheduled = q /\ v.posts = w.posts /\ v.conns = y
        /\ v.db = w.db /\ v.file = w.file /\ v.queue = w.queue /\ v.begun = w.begun
        /\ v.watchers = w.watchers /\ v.tx = w.tx /\ v.req = w.req
    BY <1>1, <2>4 DEF Worlds
  <2>7. QED BY <2>2, <2>5, <2>6
<1>11. \A o \in Opens : /\ v.conns[o].open = w.conns[o].open
                        /\ v.conns[o].closePending = w.conns[o].closePending
                        /\ v.conns[o].version = w.conns[o].version
                        /\ v.conns[o].unfinished = w.conns[o].unfinished - (IF o = c THEN 1 ELSE 0)
  <2>1. \A o \in Opens : w.conns[o] \in Doors BY <1>8
  <2>2. QED BY <1>8, <1>10, <2>1 DEF Doors
<1>12. \A i \in DOMAIN q : /\ q[i].id # t /\ \E l \in DOMAIN s : q[i] = s[l]
  <2> TAKE i \in DOMAIN q
  <2>1. q[i] \in Stay BY <1>6 DEF ToSet
  <2>2. QED BY <2>1 DEF ToSet
<1>13. \A l \in DOMAIN s : s[l].id # t => \E i \in DOMAIN q : q[i] = s[l]
  <2> TAKE l \in DOMAIN s
  <2> HAVE s[l].id # t
  <2>1. s[l] \in Stay BY DEF ToSet
  <2>2. QED BY <1>6, <2>1 DEF ToSet
<1>14. IdsIn(v) = IdsIn(w) \ {t}
  <2>1. \A a \in IdsIn(v) : a \in IdsIn(w) \ {t} BY <1>10, <1>12 DEF IdsIn
  <2>2. \A a \in IdsIn(w) \ {t} : a \in IdsIn(v)
    <3> TAKE a \in IdsIn(w) \ {t}
    <3>1. PICK l \in DOMAIN s : s[l].id = a BY DEF IdsIn
    <3>2. PICK i \in DOMAIN q : q[i] = s[l] BY <1>13, <3>1
    <3>3. QED BY <1>10, <3>1, <3>2 DEF IdsIn
  <2>3. QED BY <2>1, <2>2
<1>15. \A i, j \in DOMAIN s : s[i].id = s[j].id => i = j BY DEF Good, ScheduleRight
<1>16. \A i, j \in DOMAIN q : q[i].id = q[j].id => i = j
  <2> TAKE i, j \in DOMAIN q
  <2> HAVE q[i].id = q[j].id
  <2>1. i \in Int /\ j \in Int BY <1>6
  <2>2. ~(i < j) BY <1>1, <1>6, <1>15
  <2>3. ~(j < i) BY <1>1, <1>6, <1>15
  <2>4. QED BY <2>1, <2>2, <2>3
<1>17. \A i \in DOMAIN q : \A l \in DOMAIN s : s[l].id = q[i].id /\ ~Waits(s, l) => ~Waits(q, i)
  <2> TAKE i \in DOMAIN q
  <2> TAKE l \in DOMAIN s
  <2> HAVE s[l].id = q[i].id /\ ~Waits(s, l)
  <2>1. SUFFICES ASSUME Waits(q, i) PROVE FALSE OBVIOUS
  <2>2. PICK j \in 1..(i - 1) : Overlap(q[j], q[i]) /\ ~(q[j].mode = "readonly" /\ q[i].mode = "readonly")
    BY <2>1 DEF Waits
  <2>3. i \in 1..Len(q) /\ Len(q) \in Nat /\ DOMAIN q = 1..Len(q) BY <1>6
  <2>4. j \in DOMAIN q /\ j < i BY <2>2, <2>3
  <2>5. PICK a \in DOMAIN s, b \in DOMAIN s : a < b /\ q[j] = s[a] /\ q[i] = s[b] BY <1>6, <2>4
  <2>6. b = l BY <1>15, <2>5
  <2>7. a \in 1..(l - 1) BY <1>1, <2>5, <2>6
  <2>8. Waits(s, l) BY <2>2, <2>5, <2>6, <2>7 DEF Waits
  <2>9. QED BY <2>8
<1>18. ScheduleRight(v, x \ {t})
  <2>1. ScheduleRight(w, x) BY DEF Good
  <2>2. ASSUME NEW i \in DOMAIN q
        PROVE  /\ q[i].mode = w.tx[q[i].id].plan.mode /\ q[i].scope = w.tx[q[i].id].plan.scope
               /\ q[i].connection = w.tx[q[i].id].plan.connection
               /\ q[i].started \/ w.tx[q[i].id].started => ~Waits(q, i)
    <3>1. PICK l \in DOMAIN s : q[i] = s[l] BY <1>12
    <3>2. /\ s[l].mode = w.tx[s[l].id].plan.mode /\ s[l].scope = w.tx[s[l].id].plan.scope
          /\ s[l].connection = w.tx[s[l].id].plan.connection
          /\ s[l].started \/ w.tx[s[l].id].started => ~Waits(s, l)
      BY <2>1 DEF ScheduleRight
    <3>3. QED BY <1>17, <3>1, <3>2
  <2>3. t \in x /\ w.tx[t].state \notin Busy BY <2>1 DEF ScheduleRight
  <2>4. IdsIn(v) = {u \in Transactions : v.tx[u].state \in Busy} \cup (x \ {t})
    BY <1>10, <1>14, <2>1, <2>3 DEF ScheduleRight
  <2>5. \A u \in x \ {t} : v.tx[u].state \notin Busy \cup {"unmade"}
    BY <1>10, <2>1 DEF ScheduleRight
  <2>6. QED BY <1>10, <1>16, <2>2, <2>4, <2>5 DEF ScheduleRight
<1>19. TxsRight(v) BY <1>10 DEF Good, TxsRight
<1>20. \A o : On(v, o) = On(w, o) \ {t} BY <1>10, <1>14 DEF On
<1>21. CountsBut(v, c)
  <2> SUFFICES ASSUME NEW o \in Opens
               PROVE  /\ v.conns[o].unfinished = Cardinality(On(v, o))
                      /\ On(v, o) # {} => v.conns[o].open /\ v.req[o] \notin {"unmade", "queued", "waiting"}
                      /\ o # c /\ v.conns[o].closePending /\ On(v, o) = {} => ~v.conns[o].open
    BY DEF CountsBut
  <2>1. CountsRight(w) BY DEF Good
  <2>2. IsFiniteSet(On(w, o)) /\ Cardinality(On(w, o)) \in Nat BY <1>1, IdsFinite
  <2>3. t \in On(w, o) <=> o = c BY <1>0, <1>3 DEF On
  <2>4. Cardinality(On(v, o)) = IF o = c THEN Cardinality(On(w, o)) - 1 ELSE Cardinality(On(w, o))
    BY <1>20, <2>2, <2>3, FS_RemoveElement
  <2>5. v.conns[o].unfinished = Cardinality(On(v, o)) BY <1>11, <2>1, <2>2, <2>4 DEF CountsRight
  <2>6. On(v, o) \subseteq On(w, o) /\ (o # c => On(v, o) = On(w, o)) BY <1>20, <2>3
  <2>7. QED BY <1>10, <1>11, <2>1, <2>5, <2>6 DEF CountsRight
<1>22. QueueRight(v, M) BY <1>10 DEF Good, QueueRight
<1>23. DoorsRight(v, M)
  <2>1. \A o \in Opens : o \in IdsIn(v) => o \in IdsIn(w) /\ (IdsIn(w) = {o} => IdsIn(v) = {o})
    BY <1>14
  <2>2. DoorsRight(w, M) BY DEF Good
  <2>3. ASSUME NEW o \in Opens, o \in IdsIn(v)
        PROVE  /\ IdsIn(v) = {o} /\ (o \in M \/ w.req[o] = "upgrading")
               /\ \A a \in Opens : v.conns[a].open => a = o
    BY <1>11, <2>1, <2>2, <2>3 DEF DoorsRight
  <2>4. ASSUME NEW o \in Opens
        PROVE  /\ v.req[o] \in {"unmade", "queued"} => ~v.conns[o].open /\ ~v.conns[o].closePending
               /\ v.req[o] = "waiting" => v.conns[o].open /\ ~v.conns[o].closePending
               /\ v.req[o] \in {"unmade", "queued", "waiting"} => v.tx[o].state = "unmade"
               /\ v.conns[o].open /\ v.req[o] # "ended" => v.conns[o].version = v.db.version
    <3>1. /\ w.req[o] \in {"unmade", "queued"} => ~w.conns[o].open /\ ~w.conns[o].closePending
          /\ w.req[o] = "waiting" => w.conns[o].open /\ ~w.conns[o].closePending
          /\ w.req[o] \in {"unmade", "queued", "waiting"} => w.tx[o].state = "unmade"
          /\ w.conns[o].open /\ w.req[o] # "ended" => w.conns[o].version = w.db.version
      BY <2>2 DEF DoorsRight
    <3>2. /\ v.conns[o].open = w.conns[o].open /\ v.conns[o].closePending = w.conns[o].closePending
          /\ v.conns[o].version = w.conns[o].version
      BY <1>11
    <3>3. QED BY <1>10, <3>1, <3>2
  <2>5. QED BY <1>10, <2>3, <2>4 DEF DoorsRight
<1>24. TasksRight(v, M, P)
  <2>1. TasksRight(w, M, P) BY DEF Good
  <2>2. \A k \in P \cup ToSet(w.posts) : k \in Tasks BY <1>3, TxFacts
  <2>3. ASSUME NEW u \in Transactions, Clear(w, u) PROVE Clear(v, u)
    <3>1. ASSUME NEW i \in DOMAIN q, q[i].id = u PROVE ~Waits(q, i)
      <4>1. PICK l \in DOMAIN s : q[i] = s[l] BY <1>12
      <4>2. QED BY <1>17, <2>3, <3>1, <4>1 DEF Clear
    <3>2. QED BY <1>10, <3>1 DEF Clear
  <2>4. \A k \in P \cup ToSet(w.posts) : k.id \notin M /\ Due(w, k) => Due(v, k)
    BY <1>10, <2>2, <2>3, DueSame
  <2>5. QED BY <1>10, <2>1, <2>4, SamePosts
<1>0a. EndedRight(v, M) BY <1>10, <1>14 DEF Good, EndedRight
<1>25. GoodBut(v, x \ {t}, M, P, c)
  BY <1>0a, <1>10, <1>18, <1>19, <1>21, <1>22, <1>23, <1>24 DEF GoodBut
<1>26. Left(w, v, t) BY <1>10, <1>11, <1>14 DEF Left
<1>27. QED BY <1>3, <1>4, <1>25, <1>26

LEMMA FinishRight ==
    ASSUME NEW w, NEW x, NEW M, NEW P, Good(w, x, M, P), NEW t \in x, NEW v, v = Finish(w, t)
    PROVE  Good(v, x \ {t}, M, P) /\ t \in Transactions /\ Left(w, v, t)
<1>1. PICK a, c, y : a = Without(w, t) /\ c = Its(w, t) /\ y = x \ {t} OBVIOUS
<1>2. GoodBut(a, y, M, P, c) /\ c \in Opens /\ t \in Transactions /\ Left(w, a, t)
  BY <1>1, WithoutRight
<1>3. PICK b : b = CloseIfDone(a, c) OBVIOUS
<1>4. Good(b, y, M, P) /\ Closed(a, b) BY <1>2, <1>3, CloseIfDoneRight
<1>5. v = StartReady(b) BY <1>1, <1>3 DEF Finish, Its
<1>6. Good(v, y, M, P) /\ Restarted(b, v) BY <1>4, <1>5, StartReadyRight
<1>8. IdsIn(b) = IdsIn(a) BY <1>4 DEF Closed, IdsIn
<1>9. Left(w, v, t)
  <2>1. /\ b.db = a.db /\ b.file = a.file /\ b.queue = a.queue /\ b.begun = a.begun
        /\ b.watchers = a.watchers /\ b.tx = a.tx /\ b.req = a.req
        /\ \A o \in Opens : (b.conns[o].open => a.conns[o].open)
                            /\ b.conns[o].version = a.conns[o].version
    BY <1>4 DEF Closed
  <2>2. \A k \in ToSet(v.posts) : k \in ToSet(w.posts) \/ k.kind \in {"start", "recheck"}
    BY <1>2, <1>4, <1>6 DEF Left, Closed, Restarted
  <2>3. /\ a.db = w.db /\ a.file = w.file /\ a.queue = w.queue /\ a.begun = w.begun
        /\ a.watchers = w.watchers /\ a.tx = w.tx /\ a.req = w.req /\ IdsIn(a) = IdsIn(w) \ {t}
        /\ \A o \in Opens : (a.conns[o].open => w.conns[o].open)
                            /\ a.conns[o].version = w.conns[o].version
    BY <1>2 DEF Left
  <2>4. /\ v.db = b.db /\ v.file = b.file /\ v.queue = b.queue /\ v.begun = b.begun
        /\ v.watchers = b.watchers /\ v.tx = b.tx /\ v.req = b.req /\ IdsIn(v) = IdsIn(b)
        /\ v.conns = b.conns
    BY <1>6 DEF Restarted
  <2>5. QED BY <1>8, <2>1, <2>2, <2>3, <2>4 DEF Left
<1>10. QED BY <1>1, <1>2, <1>6, <1>9

LEMMA RequestCloseRight ==
    ASSUME NEW w, NEW x, NEW M, NEW P, Good(w, x, M, P), NEW c \in Opens,
           w.req[c] \notin {"unmade", "queued", "waiting"}, NEW v, v = RequestClose(w, c)
    PROVE  Good(v, x, M, P) /\ Closed(w, v)
<1>1. w \in Worlds /\ w.conns \in [Opens -> Doors] /\ w.conns[c] \in Doors BY DEF Good, Worlds
<1>2. PICK u : u = [w EXCEPT !.conns = [w.conns EXCEPT ![c] = [w.conns[c] EXCEPT !.closePending = TRUE]]]
  OBVIOUS
<1>3. /\ u \in Worlds /\ u.posts = w.posts
      /\ u.db = w.db /\ u.file = w.file /\ u.queue = w.queue /\ u.begun = w.begun
      /\ u.watchers = w.watchers /\ u.scheduled = w.scheduled /\ u.tx = w.tx /\ u.req = w.req
      /\ u.conns = [w.conns EXCEPT ![c] = [w.conns[c] EXCEPT !.closePending = TRUE]]
  <2>1. [w.conns[c] EXCEPT !.closePending = TRUE] \in Doors BY <1>1 DEF Doors
  <2>2. QED BY <1>1, <1>2, <2>1 DEF Worlds
<1>4. \A o \in Opens : /\ u.conns[o].open = w.conns[o].open
                       /\ u.conns[o].closePending = (o = c \/ w.conns[o].closePending)
                       /\ u.conns[o].version = w.conns[o].version
                       /\ u.conns[o].unfinished = w.conns[o].unfinished
  <2> TAKE o \in Opens
  <2>1. w.conns[o] \in Doors BY <1>1
  <2>2. CASE o = c
    <3>1. u.conns[o] = [w.conns[o] EXCEPT !.closePending = TRUE] BY <1>1, <1>3, <2>2
    <3>2. QED BY <2>1, <2>2, <3>1 DEF Doors
  <2>3. CASE o # c
    <3>1. u.conns[o] = w.conns[o] BY <1>1, <1>3, <2>3
    <3>2. QED BY <2>1, <2>3, <3>1 DEF Doors
  <2>4. QED BY <2>2, <2>3
<1>5. IdsIn(u) = IdsIn(w) /\ \A o : On(u, o) = On(w, o) BY <1>3 DEF IdsIn, On
<1>6. GoodBut(u, x, M, P, c)
  <2>1. ScheduleRight(u, x) BY <1>3, ScheduleKept DEF Good
  <2>2. TxsRight(u) BY <1>3 DEF Good, TxsRight
  <2>3. CountsBut(u, c) BY <1>3, <1>4, <1>5 DEF Good, CountsRight, CountsBut
  <2>4. QueueRight(u, M) BY <1>3 DEF Good, QueueRight
  <2>5. DoorsRight(u, M) BY <1>3, <1>4, <1>5 DEF Good, DoorsRight
  <2>6. TasksRight(u, M, P)
    <3>1. TasksRight(w, M, P) /\ w.posts \in Seq(Tasks) BY <1>1 DEF Good, Worlds
    <3>2. \A k \in P \cup ToSet(w.posts) : k \in Tasks BY <3>1 DEF TasksRight, ToSet
    <3>3. \A t \in Transactions : Clear(w, t) => Clear(u, t) BY <1>3 DEF Clear
    <3>4. \A k \in P \cup ToSet(w.posts) : k.id \notin M /\ Due(w, k) => Due(u, k)
      BY <1>3, <3>2, <3>3, DueSame
    <3>5. QED BY <1>3, <3>1, <3>4, SamePosts
  <2>7. EndedRight(u, M) BY <1>3, <1>5 DEF Good, EndedRight
  <2>8. QED BY <1>3, <2>1, <2>2, <2>3, <2>4, <2>5, <2>6, <2>7 DEF GoodBut
<1>7. v = CloseIfDone(u, c) BY <1>1, <1>2 DEF RequestClose, Worlds
<1>8. Good(v, x, M, P) /\ Closed(u, v) BY <1>6, <1>7, CloseIfDoneRight
<1>9. Closed(w, v) BY <1>3, <1>4, <1>8 DEF Closed
<1>10. QED BY <1>8, <1>9

-----------------------------------------------------------------------------
(* The queue of requests.                                                   *)

\* The parts that have nothing to do with the queue.
LEMMA QueueApart ==
    ASSUME NEW w, NEW v, NEW x, v.db = w.db, v.conns = w.conns, v.scheduled = w.scheduled,
           v.tx = w.tx, v.req = w.req, NEW M
    PROVE  /\ ScheduleRight(w, x) => ScheduleRight(v, x)
           /\ TxsRight(w) => TxsRight(v)
           /\ CountsRight(w) => CountsRight(v)
           /\ DoorsRight(w, M) => DoorsRight(v, M)
           /\ EndedRight(w, M) => EndedRight(v, M)
           /\ IdsIn(v) = IdsIn(w) /\ \A t : Clear(w, t) => Clear(v, t)
<1>1. IdsIn(v) = IdsIn(w) /\ \A o : On(v, o) = On(w, o) BY DEF IdsIn, On
<1>2. ScheduleRight(w, x) => ScheduleRight(v, x) BY <1>1 DEF ScheduleRight
<1>3. TxsRight(w) => TxsRight(v) BY DEF TxsRight
<1>4. CountsRight(w) => CountsRight(v) BY <1>1 DEF CountsRight
<1>5. DoorsRight(w, M) => DoorsRight(v, M) BY <1>1 DEF DoorsRight
<1>6. \A t : Clear(w, t) => Clear(v, t) BY DEF Clear
<1>7. EndedRight(w, M) => EndedRight(v, M) BY <1>1 DEF EndedRight
<1>8. QED BY <1>1, <1>2, <1>3, <1>4, <1>5, <1>6, <1>7

LEMMA BeginFrontRight ==
    ASSUME NEW w, NEW x, NEW M, NEW P, Good(w, x, M, P)
    PROVE  LET v == BeginFront(w) IN
           /\ Good(v, x, M, P)
           /\ v.db = w.db /\ v.file = w.file /\ v.queue = w.queue /\ v.conns = w.conns
           /\ v.watchers = w.watchers /\ v.tx = w.tx /\ v.req = w.req /\ v.scheduled = w.scheduled
<1>1. w \in Worlds /\ w.queue \in Seq(Requests) /\ w.posts \in Seq(Tasks) /\ w.begun \subseteq Requests
  BY DEF Good, Worlds
<1>2. PICK v : v = BeginFront(w) OBVIOUS
<1>3. CASE w.queue = <<>> \/ Head(w.queue) \in w.begun
  <2>1. v = w BY <1>2, <1>3 DEF BeginFront
  <2>2. QED BY <1>2, <2>1
<1>4. CASE ~(w.queue = <<>> \/ Head(w.queue) \in w.begun)
  <2>1. PICK r : r = Head(w.queue) OBVIOUS
  <2>2. r \in Requests /\ r = w.queue[1] /\ 1 \in DOMAIN w.queue /\ r \notin w.begun
    BY <1>1, <1>4, <2>1
  <2>3. r \in ToSet(w.queue) BY <2>2 DEF ToSet
  <2>4. PICK k : k = Task("begin", r) OBVIOUS
  <2>5. k \in Tasks /\ k.kind = "begin" /\ k.id = r
    BY <2>2, <2>4 DEF Task, Tasks, TaskKinds, Names
  <2>6. v = [w EXCEPT !.begun = w.begun \cup {r}, !.posts = Append(w.posts, k)]
    BY <1>1, <1>2, <1>4, <2>1, <2>4 DEF BeginFront, Post, Worlds
  <2>7. /\ v \in Worlds /\ v.posts = Append(w.posts, k) /\ v.begun = w.begun \cup {r}
        /\ v.db = w.db /\ v.file = w.file /\ v.queue = w.queue /\ v.conns = w.conns
        /\ v.watchers = w.watchers /\ v.scheduled = w.scheduled /\ v.tx = w.tx /\ v.req = w.req
    <3>1. w.begun \cup {r} \in SUBSET Requests /\ Append(w.posts, k) \in Seq(Tasks)
      BY <1>1, <2>2, <2>5
    <3>2. QED BY <1>1, <2>6, <3>1 DEF Worlds
  <2>8. QueueRight(w, M) /\ TasksRight(w, M, P) BY DEF Good
  <2>9. r \notin M => w.req[r] = "queued" BY <2>2, <2>3, <2>8 DEF QueueRight
  <2>10. QueueRight(v, M)
    <3>1. \A i \in DOMAIN w.queue : w.queue[i] = r => i = 1
      BY <2>2, <2>8 DEF QueueRight, IsInjective
    <3>2. w.req[r] # "unmade" BY <2>2, <2>3, <2>8 DEF QueueRight
    <3>3. QED BY <2>7, <2>8, <3>1, <3>2 DEF QueueRight
  <2>11. TasksRight(v, M, P)
    <3>1. \A j \in P \cup ToSet(w.posts) : j \in Tasks BY <1>1, <2>8 DEF TasksRight, ToSet
    <3>2. \A t : Clear(w, t) => Clear(v, t) BY <2>7, QueueApart
    <3>3. \A j \in P \cup ToSet(w.posts) : j.id \notin M /\ Due(w, j) => Due(v, j)
      BY <2>7, <3>1, <3>2, DueBegun
    <3>4. k.id \notin M => Due(v, k) BY <2>2, <2>5, <2>7, <2>9 DEF Due
    <3>5. ~Due(w, k) BY <2>2, <2>5 DEF Due
    <3>6. QED BY <1>1, <2>5, <2>7, <2>8, <3>3, <3>4, <3>5, OnePost
  <2>12. Good(v, x, M, P)
    BY <2>7, <2>10, <2>11, QueueApart DEF Good
  <2>13. QED BY <1>2, <2>7, <2>12
<1>5. QED BY <1>3, <1>4

\* A request that has been answered leaves the queue, and the next begins.
\* What a request that is over must be to leave the queue, and what that changes.
Dequeueable(w, x, M, P, r) ==
    /\ w \in Worlds /\ ScheduleRight(w, x) /\ TxsRight(w) /\ CountsRight(w) /\ DoorsRight(w, M)
    /\ EndedRight(w, M) /\ TasksRight(w, M, P) /\ QueueRight(w, M \cup {r})
    /\ w.req[r] \notin {"unmade", "queued", "waiting", "upgrading"}
Dequeued(w, v, r) ==
    /\ v.db = w.db /\ v.file = w.file /\ v.conns = w.conns
    /\ v.tx = w.tx /\ v.req = w.req /\ v.scheduled = w.scheduled
    /\ ToSet(v.queue) = ToSet(w.queue) \ {r} /\ v.watchers = w.watchers \ {r}

LEMMA DequeueRight ==
    ASSUME NEW w, NEW x, NEW M, NEW P, NEW r \in Requests, Dequeueable(w, x, M, P, r),
           NEW v, v = Dequeue(w, r)
    PROVE  Good(v, x, M, P) /\ Dequeued(w, v, r)
<1>a. /\ w \in Worlds /\ ScheduleRight(w, x) /\ TxsRight(w) /\ CountsRight(w) /\ DoorsRight(w, M)
      /\ EndedRight(w, M) /\ TasksRight(w, M, P) /\ QueueRight(w, M \cup {r})
      /\ w.req[r] \notin {"unmade", "queued", "waiting", "upgrading"}
  BY DEF Dequeueable
<1> USE <1>a
<1>1. w.queue \in Seq(Requests) /\ w.posts \in Seq(Tasks) /\ w.watchers \subseteq Requests
  BY DEF Worlds
<1>2. PICK q : q = Only(w.queue, ToSet(w.queue) \ {r}) OBVIOUS
<1>3. /\ q \in Seq(Requests) /\ ToSet(q) = ToSet(w.queue) \ {r} /\ IsInjective(q)
      /\ \A i, j \in DOMAIN q : i < j =>
           \E k, l \in DOMAIN w.queue : k < l /\ q[i] = w.queue[k] /\ q[j] = w.queue[l]
  <2>1. ToSet(w.queue) \cap (ToSet(w.queue) \ {r}) = ToSet(w.queue) \ {r} OBVIOUS
  <2>2. IsInjective(w.queue) BY DEF QueueRight
  <2>3. PICK qs, st : qs = w.queue /\ st = ToSet(w.queue) \ {r} OBVIOUS
  <2>4. qs \in Seq(Requests) /\ q = Only(qs, st) /\ IsInjective(qs) BY <1>1, <1>2, <2>2, <2>3
  <2>5. /\ q \in Seq(Requests) /\ ToSet(q) = ToSet(qs) \cap st
        /\ \A i, j \in DOMAIN q : i < j =>
             \E k, l \in DOMAIN qs : k < l /\ q[i] = qs[k] /\ q[j] = qs[l]
    BY <2>4, OnlyFacts
  <2>6. IsInjective(q) BY <2>4, OnlyInjective
  <2>7. QED BY <2>1, <2>3, <2>5, <2>6
<1>4. PICK u : u = [w EXCEPT !.queue = q, !.watchers = w.watchers \ {r}] OBVIOUS
<1>5. /\ u \in Worlds /\ u.queue = q /\ u.watchers = w.watchers \ {r} /\ u.begun = w.begun
      /\ u.db = w.db /\ u.file = w.file /\ u.conns = w.conns /\ u.posts = w.posts
      /\ u.tx = w.tx /\ u.req = w.req /\ u.scheduled = w.scheduled
  BY <1>1, <1>3, <1>4 DEF Worlds
<1>6. QueueRight(u, M)
  <2>1. ASSUME NEW i \in DOMAIN q, q[i] \in w.begun PROVE i = 1
    <3>1. DOMAIN q = 1..Len(q) /\ Len(q) \in Nat BY <1>3
    <3>2. SUFFICES ASSUME i # 1 PROVE FALSE OBVIOUS
    <3>3. 1 \in DOMAIN q /\ 1 < i BY <3>1, <3>2
    <3>4. PICK k \in DOMAIN w.queue, l \in DOMAIN w.queue : k < l /\ q[1] = w.queue[k] /\ q[i] = w.queue[l]
      BY <1>3, <3>3
    <3>5. l = 1 BY <2>1, <3>4 DEF QueueRight
    <3>6. k \in Nat \ {0} BY <1>1, <3>4
    <3>7. QED BY <3>4, <3>5, <3>6
  <2>2. QED BY <1>3, <1>5, <2>1 DEF QueueRight
<1>7. TasksRight(u, M, P)
  <2>1. \A j \in P \cup ToSet(w.posts) : j \in Tasks BY <1>1 DEF TasksRight, ToSet
  <2>2. \A t : Clear(w, t) => Clear(u, t) BY <1>5, QueueApart
  <2>3. \A j \in P \cup ToSet(w.posts) : j.id \notin M /\ Due(w, j) => Due(u, j)
    <3>1. w.req[r] # "waiting" OBVIOUS
    <3>2. \A o \in Requests : w.req[o] = "waiting" /\ o \in w.watchers => o \in u.watchers
      BY <1>5, <3>1
    <3>3. QED BY <1>5, <2>1, <2>2, <3>2, DueBegun
  <2>4. QED BY <1>5, <2>3, SamePosts
<1>8. Good(u, x, M, P) BY <1>5, <1>6, <1>7, QueueApart DEF Good
<1>9. v = BeginFront(u) BY <1>2, <1>4 DEF Dequeue
<1>11. /\ Good(v, x, M, P)
       /\ v.db = u.db /\ v.file = u.file /\ v.queue = u.queue /\ v.conns = u.conns
       /\ v.watchers = u.watchers /\ v.tx = u.tx /\ v.req = u.req /\ v.scheduled = u.scheduled
  BY <1>8, <1>9, BeginFrontRight
<1>12. Dequeued(w, v, r) BY <1>3, <1>5, <1>11 DEF Dequeued
<1>13. QED BY <1>11, <1>12

\* The request is answered: its tasks have been run.
Answered(w, v, r, how) ==
    /\ v.db = w.db /\ v.file = w.file /\ v.conns = w.conns
    /\ v.tx = w.tx /\ v.scheduled = w.scheduled /\ v.req = [w.req EXCEPT ![r] = how]

\* What a request must be to be answered.
Settleable(w, P, r, how) ==
    /\ r \in Requests /\ how \in {"success", "error"}
    /\ w \in Worlds /\ ScheduleRight(w, {}) /\ TxsRight(w) /\ CountsRight(w)
    /\ QueueRight(w, {}) /\ TasksRight(w, {}, P) /\ w.req[r] \in {"queued", "waiting", "upgrading"}
    /\ \A k \in P \cup ToSet(w.posts) :
         k.kind \in {"begin", "others", "done", "aborted"} => k.id # r
    /\ DoorsRight([w EXCEPT !.req[r] = how], {})

LEMMA SettleRight ==
    ASSUME NEW w, NEW P, NEW v, NEW r, NEW how, Settleable(w, P, r, how), v = Settle(w, r, how)
    PROVE  Good(v, {}, {}, P) /\ Answered(w, v, r, how)
<1>a. /\ w \in Worlds /\ ScheduleRight(w, {}) /\ TxsRight(w) /\ CountsRight(w)
      /\ r \in Requests /\ how \in {"success", "error"} /\ QueueRight(w, {}) /\ TasksRight(w, {}, P) /\ w.req[r] \in {"queued", "waiting", "upgrading"}
      /\ \A k \in P \cup ToSet(w.posts) :
            k.kind \in {"begin", "others", "done", "aborted"} => k.id # r
      /\ DoorsRight([w EXCEPT !.req[r] = how], {})
  BY DEF Settleable
<1> USE <1>a
<1>1. w.req \in [Requests -> ReqStates] /\ w.posts \in Seq(Tasks) BY DEF Worlds
<1>2. PICK u : u = [w EXCEPT !.req[r] = how] OBVIOUS
<1>3. /\ u \in Worlds /\ u.queue = w.queue /\ u.watchers = w.watchers /\ u.begun = w.begun
      /\ u.db = w.db /\ u.file = w.file /\ u.conns = w.conns /\ u.posts = w.posts
      /\ u.tx = w.tx /\ u.scheduled = w.scheduled /\ u.req = [w.req EXCEPT ![r] = how]
  <2>1. u = [w EXCEPT !.req = [w.req EXCEPT ![r] = how]] BY <1>2 DEF Worlds
  <2>2. [w.req EXCEPT ![r] = how] \in [Requests -> ReqStates] BY <1>1 DEF ReqStates
  <2>3. QED BY <2>1, <2>2 DEF Worlds
<1>4. u.req[r] = how /\ \A o \in Requests : o # r => u.req[o] = w.req[o] BY <1>1, <1>3
<1>5. IdsIn(u) = IdsIn(w) /\ \A o : On(u, o) = On(w, o) BY <1>3 DEF IdsIn, On
<1>6. ScheduleRight(u, {}) BY <1>3, ScheduleKept
<1>7. TxsRight(u) BY <1>3 DEF TxsRight
<1>8. CountsRight(u)
  <2>1. \A o \in Opens : u.req[o] \in {"unmade", "queued", "waiting"} => w.req[o] = u.req[o]
    BY <1>4 DEF Requests
  <2>2. QED BY <1>3, <1>5, <2>1 DEF CountsRight
<1>9. QueueRight(u, {} \cup {r}) BY <1>3, <1>4 DEF QueueRight
<1>10. TasksRight(u, {}, P)
  <2>1. \A k \in P \cup ToSet(w.posts) : k \in Tasks BY <1>1 DEF TasksRight, ToSet
  <2>2. \A t : Clear(w, t) => Clear(u, t) BY <1>3 DEF Clear
  <2>3. ASSUME NEW k \in P \cup ToSet(w.posts), Due(w, k) PROVE Due(u, k)
    <3>1. k \in Tasks /\ k.kind \in TaskKinds /\ k.id \in Names BY <2>1 DEF Tasks
    <3>0. CASE k.kind = "aborted"
      <4>1. k.id \in Opens => k.id \in Requests /\ k.id # r BY <2>3, <3>0 DEF Requests
      <4>2. k.id \in Opens => u.req[k.id] = w.req[k.id] BY <1>4, <4>1
      <4>3. QED BY <1>3, <2>3, <3>0, <4>2 DEF Due
    <3>2. CASE k.kind \in {"begin", "others", "done"}
      <4>1. k.id # r /\ k.id \in Requests BY <2>3, <3>2 DEF Due, Requests
      <4>2. u.req[k.id] = w.req[k.id] BY <1>4, <4>1
      <4>3. QED BY <1>3, <2>3, <3>2, <4>2 DEF Due
    <3>3. CASE k.kind = "recheck"
      BY <1>3, <1>4, <2>3, <3>3 DEF Due
    <3>4. CASE k.kind \notin {"begin", "others", "done", "recheck", "aborted"}
      BY <1>3, <2>2, <2>3, <3>1, <3>4 DEF Due, TaskKinds
    <3>5. QED BY <3>0, <3>2, <3>3, <3>4
  <2>4. QED BY <1>3, <2>3, SamePosts
<1>11. DoorsRight(u, {}) BY <1>2
<1>12. u.req[r] \notin {"unmade", "queued", "waiting", "upgrading"} BY <1>4
<1>0. EndedRight(u, {}) BY <1>6 DEF EndedRight, ScheduleRight, Busy
<1>13. v = Dequeue(u, r) BY <1>2 DEF Settle
<1>14. /\ Good(v, {}, {}, P)
       /\ v.db = u.db /\ v.file = u.file /\ v.conns = u.conns
       /\ v.tx = u.tx /\ v.req = u.req /\ v.scheduled = u.scheduled
  <2>1. u \in Worlds BY <1>3
  <2>2. Dequeueable(u, {}, {}, P, r)
    BY <2>1, <1>0, <1>6, <1>7, <1>8, <1>9, <1>10, <1>11, <1>12 DEF Dequeueable
  <2>3. Good(v, {}, {}, P) /\ Dequeued(u, v, r) BY <1>13, <2>2, DequeueRight
  <2>4. QED BY <2>3 DEF Dequeued
<1>15. Answered(w, v, r, how) BY <1>3, <1>14 DEF Answered
<1>16. QED BY <1>14, <1>15

LEMMA EnqueueRight ==
    ASSUME NEW w, NEW P, Good(w, {}, {}, P), NEW r \in Requests, w.req[r] = "unmade"
    PROVE  LET v == Enqueue([w EXCEPT !.req[r] = "queued"], r) IN
           /\ Good(v, {}, {}, P)
           /\ v.db = w.db /\ v.file = w.file /\ v.conns = w.conns
           /\ v.tx = w.tx /\ v.scheduled = w.scheduled
<1>1. /\ w \in Worlds /\ w.req \in [Requests -> ReqStates] /\ w.posts \in Seq(Tasks)
      /\ w.queue \in Seq(Requests)
  BY DEF Good, Worlds
<1>2. PICK u : u = [w EXCEPT !.req = [w.req EXCEPT ![r] = "queued"], !.queue = Append(w.queue, r)]
  OBVIOUS
<1>3. /\ u \in Worlds /\ u.queue = Append(w.queue, r) /\ u.watchers = w.watchers /\ u.begun = w.begun
      /\ u.db = w.db /\ u.file = w.file /\ u.conns = w.conns /\ u.posts = w.posts
      /\ u.tx = w.tx /\ u.scheduled = w.scheduled /\ u.req = [w.req EXCEPT ![r] = "queued"]
  <2>1. [w.req EXCEPT ![r] = "queued"] \in [Requests -> ReqStates] BY <1>1 DEF ReqStates
  <2>2. Append(w.queue, r) \in Seq(Requests) BY <1>1
  <2>3. QED BY <1>1, <1>2, <2>1, <2>2 DEF Worlds
<1>4. u.req[r] = "queued" /\ \A o \in Requests : o # r => u.req[o] = w.req[o] BY <1>1, <1>3
<1>5. IdsIn(u) = IdsIn(w) /\ \A o : On(u, o) = On(w, o) BY <1>3 DEF IdsIn, On
<1>6. ScheduleRight(u, {}) BY <1>3, ScheduleKept DEF Good
<1>7. TxsRight(u) BY <1>3 DEF Good, TxsRight
<1>8. CountsRight(u)
  <2>1. \A o \in Opens : o # r \/ w.req[o] = "unmade" OBVIOUS
  <2>2. \A o \in Opens : u.req[o] \in {"unmade", "queued", "waiting"} =>
                           w.req[o] \in {"unmade", "queued", "waiting"}
    BY <1>4 DEF Requests
  <2>3. QED BY <1>3, <1>5, <2>2 DEF Good, CountsRight
<1>9. r \notin ToSet(w.queue) /\ r \notin w.begun /\ r \notin w.watchers BY DEF Good, QueueRight
<1>10. QueueRight(u, {})
  <2>1. ToSet(u.queue) = ToSet(w.queue) \cup {r}
    <3>1. PICK a, b : a = w.queue /\ b = <<r>> OBVIOUS
    <3>2. a \in Seq(Requests) /\ b \in Seq(Requests) /\ u.queue = a \o b BY <1>1, <1>3, <3>1
    <3>3. ToSet(b) = {r} BY <3>1 DEF ToSet
    <3>4. ToSet(a \o b) = ToSet(a) \cup ToSet(b) BY <3>2, JoinFacts
    <3>5. QED BY <3>1, <3>2, <3>3, <3>4
  <2>2. /\ DOMAIN w.queue = 1..Len(w.queue) /\ Len(w.queue) \in Nat
        /\ DOMAIN u.queue = 1..(Len(w.queue) + 1) /\ u.queue[Len(w.queue) + 1] = r
        /\ \A i \in 1..Len(w.queue) : u.queue[i] = w.queue[i]
    BY <1>1, <1>3
  <2>3. \A i \in DOMAIN w.queue : w.queue[i] # r BY <1>9 DEF ToSet
  <2>4. IsInjective(u.queue)
    <3>1. IsInjective(w.queue) BY DEF Good, QueueRight
    <3>2. \A i \in DOMAIN u.queue : i \in DOMAIN w.queue \/ i = Len(w.queue) + 1 BY <2>2
    <3>3. QED BY <2>2, <2>3, <3>1, <3>2 DEF IsInjective
  <2>5. \A i \in DOMAIN u.queue : u.queue[i] \in w.begun => i = 1
    <3>1. \A i \in DOMAIN u.queue : i \in DOMAIN w.queue \/ u.queue[i] = r BY <2>2
    <3>2. QED BY <1>9, <2>2, <3>1 DEF Good, QueueRight
  <2>6. ASSUME NEW o \in Requests
        PROVE  /\ o \in ToSet(u.queue) => u.req[o] \in {"queued", "waiting", "upgrading"}
               /\ o \in ToSet(u.queue) => u.req[o] # "unmade"
               /\ u.req[o] \in {"queued", "waiting", "upgrading"} => o \in ToSet(u.queue)
               /\ u.req[o] \in {"waiting", "upgrading"} => o \in u.begun
               /\ u.req[o] = "unmade" => o \notin u.begun
    <3>1. CASE o = r BY <1>4, <2>1, <3>1
    <3>2. CASE o # r BY <1>3, <1>4, <2>1, <3>2 DEF Good, QueueRight
    <3>3. QED BY <3>1, <3>2
  <2>7. \A o \in u.watchers : o \in ToSet(u.queue) /\ o \in u.begun /\ u.req[o] = "waiting"
    <3>1. \A o \in w.watchers : o \in Requests BY <1>1 DEF Worlds
    <3>2. QED BY <1>3, <1>4, <1>9, <2>1, <3>1 DEF Good, QueueRight
  <2>8. QED BY <1>3, <2>4, <2>5, <2>6, <2>7 DEF QueueRight
<1>11. DoorsRight(u, {})
  <2>1. \A o \in Opens : w.req[o] = "upgrading" => u.req[o] = "upgrading" BY <1>4 DEF Requests
  <2>2. \A o \in Opens : u.req[o] = w.req[o] \/ (w.req[o] = "unmade" /\ u.req[o] = "queued")
    BY <1>4 DEF Requests
  <2>3. QED BY <1>3, <1>5, <2>1, <2>2 DEF Good, DoorsRight
<1>12. TasksRight(u, {}, P)
  <2>1. TasksRight(w, {}, P) BY DEF Good
  <2>2. \A k \in P \cup ToSet(w.posts) : k \in Tasks BY <1>1, <2>1 DEF TasksRight, ToSet
  <2>3. \A t : Clear(w, t) => Clear(u, t) BY <1>3 DEF Clear
  <2>4. ASSUME NEW k \in P \cup ToSet(w.posts), Due(w, k) PROVE Due(u, k)
    <3>1. k \in Tasks /\ k.kind \in TaskKinds BY <2>2 DEF Tasks
    <3>0. CASE k.kind = "aborted"
      <4>1. k.id \in Opens => k.id \in Requests /\ k.id # r BY <2>4, <3>0 DEF Due, Requests
      <4>2. k.id \in Opens => u.req[k.id] = w.req[k.id] BY <1>4, <4>1
      <4>3. QED BY <1>3, <2>4, <3>0, <4>2 DEF Due
    <3>2. CASE k.kind \in {"begin", "others", "done", "recheck"}
      <4>1. k.id \in Requests /\ k.id # r BY <2>4, <3>2 DEF Due, Requests
      <4>2. u.req[k.id] = w.req[k.id] BY <1>4, <4>1
      <4>3. QED BY <1>3, <2>4, <3>2, <4>2 DEF Due
    <3>3. CASE k.kind \notin {"begin", "others", "done", "recheck", "aborted"}
      BY <1>3, <2>3, <2>4, <3>1, <3>3 DEF Due, TaskKinds
    <3>4. QED BY <3>0, <3>2, <3>3
  <2>5. QED BY <1>3, <2>1, <2>4, SamePosts
<1>0. EndedRight(u, {}) BY <1>6 DEF EndedRight, ScheduleRight, Busy
<1>13. Good(u, {}, {}, P) BY <1>0, <1>3, <1>6, <1>7, <1>8, <1>10, <1>11, <1>12 DEF Good
<1>14. PICK v : v = BeginFront(u) OBVIOUS
<1>15. v = Enqueue([w EXCEPT !.req[r] = "queued"], r)
  <2>1. u = [[w EXCEPT !.req[r] = "queued"] EXCEPT !.queue = Append(@, r)] BY <1>1, <1>2 DEF Worlds
  <2>2. QED BY <1>14, <2>1 DEF Enqueue
<1>16. LET y == BeginFront(u) IN
       /\ Good(y, {}, {}, P)
       /\ y.db = u.db /\ y.file = u.file /\ y.conns = u.conns
       /\ y.tx = u.tx /\ y.scheduled = u.scheduled
  BY <1>13, BeginFrontRight
<1>17. QED BY <1>3, <1>14, <1>15, <1>16
\* A transaction joins the schedule.
Joined(w, v, t, it) ==
    /\ IdsIn(v) = IdsIn(w) \cup {t} /\ v.tx = [w.tx EXCEPT ![t] = it]
    /\ v.db = w.db /\ v.file = w.file /\ v.queue = w.queue /\ v.begun = w.begun
    /\ v.watchers = w.watchers /\ v.req = w.req
    /\ \A o \in Opens : v.conns[o].open = w.conns[o].open /\ v.conns[o].version = w.conns[o].version

\* The transaction it may join as, with nobody in an upgrade and, if it is one, nobody else.
MayJoin(w, t, it) ==
    /\ w.tx[t].state = "unmade" /\ it.state \in Busy /\ ~it.commitQueued /\ TxRight(it, t)
    /\ w.conns[it.plan.connection].open
    /\ w.req[it.plan.connection] \notin {"unmade", "queued", "waiting"}
    /\ it.started => IdsIn(w) = {}
    /\ IdsIn(w) \cap Opens = {}
    /\ t \in Opens => /\ IdsIn(w) = {} /\ w.req[t] = "upgrading"
                      /\ \A o \in Opens : w.conns[o].open => o = t

LEMMA JoinRight ==
    ASSUME NEW w, NEW P, Good(w, {}, {}, P), NEW t \in Transactions, NEW it \in Txs,
           MayJoin(w, t, it), NEW v, v = Schedule([w EXCEPT !.tx = [w.tx EXCEPT ![t] = it]], t)
    PROVE  Good(v, {}, {}, P) /\ Joined(w, v, t, it)
<1>1. /\ w \in Worlds /\ w.tx \in [Transactions -> Txs] /\ w.scheduled \in Seq(Entries)
      /\ w.conns \in [Opens -> Doors] /\ w.posts \in Seq(Tasks)
  BY DEF Good, Worlds
<1>2. PICK s, n, c : s = w.scheduled /\ n = Len(w.scheduled) /\ c = it.plan.connection OBVIOUS
<1>3. s \in Seq(Entries) /\ n \in Nat /\ DOMAIN s = 1..n BY <1>1, <1>2
<1>4. it.state # "unmade" /\ it.plan \in Plans BY DEF MayJoin, Busy, Txs
<1>5. c \in Opens /\ it.plan.mode \in Modes /\ it.plan.scope \subseteq Stores
  BY <1>2, <1>4 DEF MayJoin, TxRight, Plans
<1>6. PICK e : e = [id |-> t, mode |-> it.plan.mode, scope |-> it.plan.scope,
                    connection |-> c, started |-> FALSE]
  OBVIOUS
<1>7. /\ e \in Entries /\ e.id = t /\ e.mode = it.plan.mode /\ e.scope = it.plan.scope
      /\ e.connection = it.plan.connection /\ e.started = FALSE
  BY <1>2, <1>5, <1>6 DEF Entries
<1>8. PICK q : q = Append(s, e) OBVIOUS
<1>9. /\ q \in Seq(Entries) /\ DOMAIN q = 1..(n + 1) /\ q[n + 1] = e
      /\ \A i \in 1..n : q[i] = s[i]
  BY <1>2, <1>3, <1>7, <1>8
<1>10. PICK y, z : /\ y = [w.tx EXCEPT ![t] = it]
                   /\ z = [w.conns EXCEPT ![c] = [w.conns[c] EXCEPT !.unfinished = @ + 1]]
  OBVIOUS
<1>11. /\ y \in [Transactions -> Txs] /\ y[t] = it
       /\ \A u \in Transactions : u # t => y[u] = w.tx[u]
  BY <1>1, <1>10
<1>12. /\ z \in [Opens -> Doors]
       /\ \A o \in Opens : /\ z[o].open = w.conns[o].open
                           /\ z[o].closePending = w.conns[o].closePending
                           /\ z[o].version = w.conns[o].version
                           /\ z[o].unfinished = IF o = c THEN w.conns[o].unfinished + 1
                                                ELSE w.conns[o].unfinished
  <2>1. w.conns[c] \in Doors BY <1>1, <1>5
  <2>2. [w.conns[c] EXCEPT !.unfinished = @ + 1] \in Doors BY <2>1 DEF Doors
  <2>3. z \in [Opens -> Doors] BY <1>1, <1>10, <2>2
  <2>4. ASSUME NEW o \in Opens
        PROVE  /\ z[o].open = w.conns[o].open
               /\ z[o].closePending = w.conns[o].closePending
               /\ z[o].version = w.conns[o].version
               /\ z[o].unfinished = IF o = c THEN w.conns[o].unfinished + 1
                                    ELSE w.conns[o].unfinished
    <3>1. CASE o = c
      <4>1. z[o] = [w.conns[c] EXCEPT !.unfinished = @ + 1] BY <1>1, <1>10, <3>1
      <4>2. QED BY <2>1, <3>1, <4>1 DEF Doors
    <3>2. CASE o # c
      <4>1. z[o] = w.conns[o] BY <1>1, <1>10, <3>2
      <4>2. QED BY <3>2, <4>1
    <3>3. QED BY <3>1, <3>2
  <2>5. QED BY <2>3, <2>4
<1>13. PICK u : u = [w EXCEPT !.tx = y, !.conns = z, !.scheduled = q] OBVIOUS
<1>14. /\ u \in Worlds /\ u.tx = y /\ u.conns = z /\ u.scheduled = q /\ u.posts = w.posts
       /\ u.db = w.db /\ u.file = w.file /\ u.queue = w.queue /\ u.begun = w.begun
       /\ u.watchers = w.watchers /\ u.req = w.req
  BY <1>1, <1>9, <1>11, <1>12, <1>13 DEF Worlds
<1>15. v = StartReady(u)
  <2>1. PICK m : m = [w EXCEPT !.tx = y] OBVIOUS
  <2>2. m.tx[t].plan = it.plan /\ m.conns = w.conns /\ m.scheduled = s
    BY <1>1, <1>2, <1>11, <2>1 DEF Worlds
  <2>3. Schedule(m, t) = StartReady([m EXCEPT !.conns[c].unfinished = @ + 1,
                                              !.scheduled = Append(@, e)])
    BY <1>2, <1>6, <2>2 DEF Schedule
  <2>4. [m EXCEPT !.conns[c].unfinished = @ + 1, !.scheduled = Append(@, e)]
          = [m EXCEPT !.conns = z, !.scheduled = q]
    BY <1>1, <1>5, <1>8, <1>10, <2>1, <2>2 DEF Worlds
  <2>5. [m EXCEPT !.conns = z, !.scheduled = q] = u BY <1>1, <1>13, <2>1 DEF Worlds
  <2>6. v = Schedule(m, t) BY <1>10, <2>1
  <2>7. QED BY <2>3, <2>4, <2>5, <2>6
<1>16. /\ \A i \in 1..n : s[i].id \in IdsIn(w) /\ s[i].id \in Transactions
       /\ t \notin IdsIn(w) /\ \A i \in 1..n : s[i].id # t
  <2>1. IdsIn(w) \subseteq Transactions BY <1>1, IdsFinite
  <2>2. \A i \in 1..n : s[i].id \in IdsIn(w) BY <1>2, <1>3 DEF IdsIn
  <2>3. t \notin IdsIn(w) BY DEF Good, ScheduleRight, MayJoin, Busy
  <2>4. QED BY <2>1, <2>2, <2>3
<1>17. IdsIn(u) = IdsIn(w) \cup {t}
  <2>1. \A a \in IdsIn(u) : a \in IdsIn(w) \cup {t}
    <3>1. \A i \in 1..(n + 1) : i \in 1..n \/ i = n + 1 BY <1>3
    <3>2. \A i \in 1..(n + 1) : q[i].id \in IdsIn(w) \cup {t} BY <1>7, <1>9, <1>16, <3>1
    <3>3. QED BY <1>9, <1>14, <3>2 DEF IdsIn
  <2>2. \A a \in IdsIn(w) : a \in IdsIn(u)
    <3>1. \A i \in 1..n : i \in 1..(n + 1) BY <1>3
    <3>2. QED BY <1>2, <1>3, <1>9, <1>14, <3>1 DEF IdsIn
  <2>3. t \in IdsIn(u)
    <3>1. n + 1 \in DOMAIN q BY <1>3, <1>9
    <3>2. QED BY <1>7, <1>9, <1>14, <3>1 DEF IdsIn
  <2>4. QED BY <2>1, <2>2, <2>3
<1>18. \A i \in 1..n : Waits(q, i) <=> Waits(s, i)
  <2> TAKE i \in 1..n
  <2>1. i \in Nat \ {0} /\ \A j \in 1..i : j \in 1..n BY <1>3
  <2>2. \A j \in 1..i : q[j].mode = s[j].mode /\ q[j].scope = s[j].scope BY <1>9, <2>1
  <2>3. QED BY <2>1, <2>2, WaitsSame
<1>19. ScheduleRight(u, {})
  <2>1. ScheduleRight(w, {}) BY DEF Good
  <2>2. ASSUME NEW i \in DOMAIN q
        PROVE  /\ q[i].mode = y[q[i].id].plan.mode /\ q[i].scope = y[q[i].id].plan.scope
               /\ q[i].connection = y[q[i].id].plan.connection
               /\ q[i].started \/ y[q[i].id].started => ~Waits(q, i)
    <3>1. CASE i \in 1..n
      <4>1. q[i] = s[i] /\ y[s[i].id] = w.tx[s[i].id] BY <1>9, <1>11, <1>16, <3>1
      <4>2. /\ s[i].mode = w.tx[s[i].id].plan.mode /\ s[i].scope = w.tx[s[i].id].plan.scope
            /\ s[i].connection = w.tx[s[i].id].plan.connection
            /\ s[i].started \/ w.tx[s[i].id].started => ~Waits(s, i)
        BY <1>2, <1>3, <2>1, <3>1 DEF ScheduleRight
      <4>3. QED BY <1>18, <3>1, <4>1, <4>2
    <3>2. CASE i \notin 1..n
      <4>1. i = n + 1 BY <1>3, <1>9, <3>2
      <4>2. q[i] = e /\ y[q[i].id] = it BY <1>7, <1>9, <1>11, <4>1
      <4>3. it.started => n = 0
        <5>1. n # 0 => 1 \in 1..n BY <1>3
        <5>2. n # 0 => IdsIn(w) # {} BY <1>16, <5>1
        <5>3. QED BY <5>2 DEF MayJoin
      <4>4. n = 0 => ~Waits(q, i) BY <4>1 DEF Waits
      <4>5. QED BY <1>7, <4>2, <4>3, <4>4
    <3>3. QED BY <3>1, <3>2
  <2>3. ASSUME NEW i \in DOMAIN q, NEW j \in DOMAIN q, q[i].id = q[j].id PROVE i = j
    <3>1. \A k \in DOMAIN q : (k \in 1..n /\ q[k] = s[k] /\ q[k].id # t) \/ (k = n + 1 /\ q[k].id = t)
      BY <1>3, <1>7, <1>9, <1>16
    <3>2. \A k, l \in 1..n : s[k].id = s[l].id => k = l BY <1>2, <1>3, <2>1 DEF ScheduleRight
    <3>3. QED BY <2>3, <3>1, <3>2
  <2>4. IdsIn(u) = {a \in Transactions : y[a].state \in Busy} \cup {}
    <3>1. IdsIn(w) = {a \in Transactions : w.tx[a].state \in Busy} \cup {}
      BY <2>1 DEF ScheduleRight
    <3>2. it.state \in Busy BY DEF MayJoin
    <3>3. QED BY <1>11, <1>17, <3>1, <3>2
  <2>5. QED BY <1>14, <2>2, <2>3, <2>4 DEF ScheduleRight
<1>20. TxsRight(u)
  <2>1. TxsRight(w) /\ TxRight(it, t) BY DEF Good, MayJoin
  <2>2. QED BY <1>11, <1>14, <2>1 DEF TxsRight
<1>21. \A o : On(u, o) = IF o = c THEN On(w, o) \cup {t} ELSE On(w, o)
  <2> TAKE o
  <2>1. \A a \in IdsIn(w) : u.tx[a] = w.tx[a] BY <1>1, <1>11, <1>14, <1>16, IdsFinite
  <2>2. u.tx[t].plan.connection = c BY <1>2, <1>11, <1>14
  <2>3. QED BY <1>17, <2>1, <2>2 DEF On
<1>22. CountsRight(u)
  <2> SUFFICES ASSUME NEW o \in Opens
               PROVE  /\ z[o].unfinished = Cardinality(On(u, o))
                      /\ On(u, o) # {} => z[o].open /\ w.req[o] \notin {"unmade", "queued", "waiting"}
                      /\ z[o].closePending /\ On(u, o) = {} => ~z[o].open
    BY <1>14 DEF CountsRight
  <2>1. /\ w.conns[o].unfinished = Cardinality(On(w, o))
        /\ On(w, o) # {} => w.conns[o].open /\ w.req[o] \notin {"unmade", "queued", "waiting"}
        /\ w.conns[o].closePending /\ On(w, o) = {} => ~w.conns[o].open
    BY DEF Good, CountsRight
  <2>2. CASE o = c
    <3>1. On(u, o) = On(w, o) \cup {t} /\ t \notin On(w, o) BY <1>16, <1>21, <2>2 DEF On
    <3>2. IsFiniteSet(On(w, o)) /\ Cardinality(On(w, o)) \in Nat BY <1>1, IdsFinite
    <3>3. Cardinality(On(u, o)) = Cardinality(On(w, o)) + 1 BY <3>1, <3>2, FS_AddElement
    <3>4. w.conns[c].open /\ w.req[c] \notin {"unmade", "queued", "waiting"}
      BY <1>2 DEF MayJoin
    <3>5. z[o].open = w.conns[o].open /\ z[o].unfinished = w.conns[o].unfinished + 1
      BY <1>12, <2>2
    <3>6. QED BY <2>1, <2>2, <3>1, <3>3, <3>4, <3>5
  <2>3. CASE o # c
    <3>1. On(u, o) = On(w, o) BY <1>21, <2>3
    <3>2. /\ z[o].open = w.conns[o].open /\ z[o].unfinished = w.conns[o].unfinished
          /\ z[o].closePending = w.conns[o].closePending
      BY <1>12, <2>3
    <3>3. QED BY <2>1, <3>1, <3>2
  <2>4. QED BY <2>2, <2>3
<1>23. QueueRight(u, {}) BY <1>14 DEF Good, QueueRight
<1>24. DoorsRight(u, {})
  <2>1. DoorsRight(w, {}) BY DEF Good
  <2>2. t \in Opens => t = c BY <1>2, <1>4 DEF MayJoin, TxRight
  <2>3. w.req[c] \notin {"unmade", "queued", "waiting"} BY <1>2 DEF MayJoin
  <2>4. ASSUME NEW o \in Opens, o \in IdsIn(u)
        PROVE  /\ IdsIn(u) = {o} /\ (o \in {} \/ w.req[o] = "upgrading")
               /\ \A a \in Opens : z[a].open => a = o
    <3>1. o = t BY <1>17, <2>4 DEF MayJoin
    <3>2. IdsIn(w) = {} /\ w.req[t] = "upgrading" /\ \A a \in Opens : w.conns[a].open => a = t
      BY <3>1 DEF MayJoin
    <3>3. QED BY <1>12, <1>17, <3>1, <3>2
  <2>5. ASSUME NEW o \in Opens
        PROVE  /\ w.req[o] \in {"unmade", "queued"} => ~z[o].open /\ ~z[o].closePending
               /\ w.req[o] = "waiting" => z[o].open /\ ~z[o].closePending
               /\ w.req[o] \in {"unmade", "queued", "waiting"} => y[o].state = "unmade"
               /\ z[o].open /\ w.req[o] # "ended" => z[o].version = w.db.version
    <3>1. /\ w.req[o] \in {"unmade", "queued"} => ~w.conns[o].open /\ ~w.conns[o].closePending
          /\ w.req[o] = "waiting" => w.conns[o].open /\ ~w.conns[o].closePending
          /\ w.req[o] \in {"unmade", "queued", "waiting"} => w.tx[o].state = "unmade"
          /\ w.conns[o].open /\ w.req[o] # "ended" => w.conns[o].version = w.db.version
      BY <2>1 DEF DoorsRight
    <3>2. o \in Transactions BY DEF Transactions
    <3>3. w.req[o] \in {"unmade", "queued", "waiting"} => o # t BY <2>2, <2>3
    <3>4. o # t => y[o] = w.tx[o] BY <1>11, <3>2
    <3>5. z[o].open = w.conns[o].open /\ z[o].closePending = w.conns[o].closePending
          /\ z[o].version = w.conns[o].version
      BY <1>12
    <3>6. QED BY <3>1, <3>3, <3>4, <3>5
  <2>6. QED BY <1>14, <2>4, <2>5 DEF DoorsRight
<1>25. TasksRight(u, {}, P)
  <2>1. TasksRight(w, {}, P) BY DEF Good
  <2>2. \A k \in P \cup ToSet(w.posts) : k \in Tasks BY <1>1, <2>1 DEF TasksRight, ToSet
  <2>3. ASSUME NEW a \in Transactions, a # t, Clear(w, a) PROVE Clear(u, a)
    <3>1. ASSUME NEW i \in DOMAIN q, q[i].id = a PROVE ~Waits(q, i)
      <4>1. i \in 1..n BY <1>3, <1>7, <1>9, <2>3, <3>1
      <4>2. s[i].id = a BY <1>9, <3>1, <4>1
      <4>3. ~Waits(s, i) BY <1>2, <1>3, <2>3, <4>1, <4>2 DEF Clear
      <4>4. QED BY <1>18, <4>1, <4>3
    <3>2. QED BY <1>14, <3>1 DEF Clear
  <2>4. ASSUME NEW k \in P \cup ToSet(w.posts), Due(w, k) PROVE Due(u, k)
    <3>1. k \in Tasks /\ k.kind \in TaskKinds BY <2>2 DEF Tasks
    <3>2. w.tx[t].state = "unmade" BY DEF MayJoin
    <3>3. CASE k.kind \in {"begin", "others", "recheck"}
      BY <1>14, <2>4, <3>3 DEF Due
    <3>4. CASE k.kind \in {"start", "process", "commit", "aborted", "done"}
      <4>1. k.id \in Transactions /\ w.tx[k.id].state # "unmade"
        BY <2>4, <3>4 DEF Due, Transactions
      <4>2. k.id # t /\ u.tx[k.id] = w.tx[k.id] BY <1>11, <1>14, <3>2, <4>1
      <4>3. Clear(w, k.id) => Clear(u, k.id) BY <2>3, <4>1, <4>2
      <4>4. QED BY <1>14, <2>4, <3>4, <4>2, <4>3 DEF Due
    <3>5. QED BY <3>1, <3>3, <3>4 DEF TaskKinds
  <2>5. QED BY <1>14, <2>1, <2>4, SamePosts
<1>0. EndedRight(u, {}) BY <1>19 DEF EndedRight, ScheduleRight, Busy
<1>26. Good(u, {}, {}, P) BY <1>0, <1>14, <1>19, <1>20, <1>22, <1>23, <1>24, <1>25 DEF Good
<1>27. Good(v, {}, {}, P) /\ Restarted(u, v) BY <1>15, <1>26, StartReadyRight
<1>28. Joined(w, v, t, it)
  <2>1. /\ v.conns = z /\ v.tx = y /\ IdsIn(v) = IdsIn(w) \cup {t} BY <1>14, <1>17, <1>27 DEF Restarted
  <2>2. \A o \in Opens : v.conns[o].open = w.conns[o].open /\ v.conns[o].version = w.conns[o].version
    BY <1>12, <2>1
  <2>3. /\ v.db = w.db /\ v.file = w.file /\ v.queue = w.queue /\ v.begun = w.begun
        /\ v.watchers = w.watchers /\ v.req = w.req
    BY <1>14, <1>27 DEF Restarted
  <2>4. v.tx = [w.tx EXCEPT ![t] = it] BY <1>10, <2>1
  <2>5. QED BY <2>1, <2>2, <2>3, <2>4 DEF Joined
<1>29. QED BY <1>27, <1>28
-----------------------------------------------------------------------------
(* Undoing.                                                                 *)

Undoing(h, stores, u) ==
    h = [n \in 0..Len(u) |-> IF n = 0 THEN stores ELSE Back(h[n - 1], u[Len(u) + 1 - n])]

\* What the stores of a database may hold.
Contained == [Stores -> Stamps]

LEMMA UndoingExists ==
    ASSUME NEW stores \in Contained, NEW u \in Seq(UndoSteps)
    PROVE  \E h : Undoing(h, stores, u)
<1>1. PICK N : N = Len(u) OBVIOUS
<1>2. N \in Nat /\ \A n \in 1..N : N + 1 - n \in 1..N BY <1>1
<1>3. \A n \in 1..N : u[N + 1 - n] \in UndoSteps BY <1>1, <1>2
<1>4. PICK g : g = [z \in (1..N) \X Contained |-> Back(z[2], u[N + 1 - z[1]])] OBVIOUS
<1>5. \A z \in (1..N) \X Contained : Back(z[2], u[N + 1 - z[1]]) \in Contained
  BY <1>3 DEF Back, UndoSteps, Contained
<1>6. Steps(g, N, Contained) BY <1>4, <1>5 DEF Steps
<1>7. PICK f : Iterated(f, N, Contained, stores, g) BY <1>2, <1>6, Iterates
<1>8. \A n \in 1..N : f[n] = Back(f[n - 1], u[N + 1 - n])
  <2> TAKE n \in 1..N
  <2>1. n - 1 \in 0..N BY <1>2
  <2>2. <<n, f[n - 1]>> \in (1..N) \X Contained BY <1>7, <2>1 DEF Iterated
  <2>3. QED BY <1>4, <1>7, <2>2 DEF Iterated
<1>9. Undoing(f, stores, u) BY <1>1, <1>2, <1>7, <1>8 DEF Iterated, Undoing
<1>10. QED BY <1>9

\* A store's first step is the last to be undone.
LEMMA UndoneWas ==
    ASSUME NEW stores \in Contained, NEW u \in Seq(UndoSteps)
    PROVE  /\ Undone(stores, u) \in Contained
           /\ \A s \in Stores : Undone(stores, u)[s] = Was(u, s, stores[s])
<1>1. PICK N : N = Len(u) OBVIOUS
<1>2. /\ N \in Nat /\ DOMAIN u = 1..N /\ \A n \in 1..N : N + 1 - n \in 1..N
      /\ \A n \in 1..N : u[n] \in UndoSteps
  BY <1>1
<1> DEFINE back[n \in 0..Len(u)] ==
            IF n = 0 THEN stores ELSE Back(back[n - 1], u[Len(u) + 1 - n])
<1>3. back = [n \in 0..Len(u) |-> IF n = 0 THEN stores ELSE Back(back[n - 1], u[Len(u) + 1 - n])]
  <2>1. \E h : h = [n \in 0..Len(u) |-> IF n = 0 THEN stores ELSE Back(h[n - 1], u[Len(u) + 1 - n])]
    BY UndoingExists DEF Undoing
  <2>2. QED BY <2>1
<1>4. Undone(stores, u) = back[Len(u)] BY DEF Undone
<1> HIDE DEF back
<1>5. PICK h : h = back OBVIOUS
<1>6. Undone(stores, u) = h[N] BY <1>1, <1>4, <1>5
<1>7. h[0] = stores /\ \A n \in 1..N : h[n] = Back(h[n - 1], u[N + 1 - n])
  BY <1>1, <1>2, <1>3, <1>5
<1>8. ASSUME NEW n \in 1..N, NEW g \in Contained, g = h[n - 1]
      PROVE  /\ h[n] \in Contained
             /\ \A s \in Stores : h[n][s] = IF u[N + 1 - n].store = s THEN u[N + 1 - n].was ELSE g[s]
  <2>1. PICK o : o = u[N + 1 - n] OBVIOUS
  <2>2. o \in UndoSteps BY <1>2, <2>1
  <2>3. h[n] = [g EXCEPT ![o.store] = o.was] BY <1>7, <1>8, <2>1 DEF Back
  <2>4. QED BY <2>1, <2>2, <2>3 DEF UndoSteps, Contained
<1>9. PICK A : A = {n \in 0..N : h[n] \in Contained} OBVIOUS
<1>10. \A n \in 0..N : n \in A
  <2>1. 0 \in A BY <1>2, <1>7, <1>9
  <2>2. ASSUME NEW n \in 1..N, n - 1 \in A PROVE n \in A
    <3>1. h[n] \in Contained BY <1>8, <1>9, <2>2
    <3>2. n \in 0..N BY <1>2
    <3>3. QED BY <1>9, <3>1, <3>2
  <2>3. \A n \in 1..N : n - 1 \in A => n \in A BY <2>2
  <2>4. QED BY <1>2, <2>1, <2>3, Climb
<1>11. \A n \in 0..N : h[n] \in Contained BY <1>9, <1>10
<1>12. ASSUME NEW s \in Stores PROVE h[N][s] = Was(u, s, stores[s])
  <2>1. CASE s \notin Changed(u)
    <3>1. \A n \in 1..N : u[n].store # s BY <1>2, <2>1 DEF Changed
    <3>2. PICK B : B = {n \in 0..N : h[n][s] = stores[s]} OBVIOUS
    <3>3. 0 \in B BY <1>2, <1>7, <3>2
    <3>4. ASSUME NEW n \in 1..N, n - 1 \in B PROVE n \in B
      <4>1. n - 1 \in 0..N /\ n \in 0..N /\ N + 1 - n \in 1..N BY <1>2
      <4>2. h[n][s] = h[n - 1][s] BY <1>8, <1>11, <3>1, <4>1
      <4>3. QED BY <3>2, <3>4, <4>1, <4>2
    <3>5. \A n \in 0..N : n \in B
      <4>1. \A n \in 1..N : n - 1 \in B => n \in B BY <3>4
      <4>2. QED BY <1>2, <3>3, <4>1, Climb
    <3>6. h[N][s] = stores[s] BY <1>2, <3>2, <3>5
    <3>7. QED BY <2>1, <3>6 DEF Was
  <2>2. CASE s \in Changed(u)
    <3>1. \E i \in DOMAIN u : u[i].store = s /\ \A j \in 1..(i - 1) : u[j].store # s
      <4>1. PICK T : T = {i \in DOMAIN u : u[i].store = s} OBVIOUS
      <4>2. T \in SUBSET Nat /\ T # {} BY <1>2, <2>2, <4>1 DEF Changed
      <4>3. PICK a \in T : \A b \in T : a <= b BY <4>2, NatLowest
      <4>4. a \in 1..N /\ \A j \in 1..(a - 1) : j \in 1..N /\ ~(a <= j) BY <1>2, <4>1, <4>3
      <4>5. QED BY <1>2, <4>1, <4>3, <4>4
    <3>2. PICK a : a = FirstStep(u, s) OBVIOUS
    <3>3. a \in 1..N /\ u[a].store = s /\ \A j \in 1..(a - 1) : u[j].store # s
      BY <1>2, <3>1, <3>2 DEF FirstStep
    <3>4. PICK B : B = {n \in 0..N : n >= N + 1 - a => h[n][s] = u[a].was} OBVIOUS
    <3>5. 0 \in B BY <1>2, <3>3, <3>4
    <3>6. ASSUME NEW n \in 1..N, n - 1 \in B PROVE n \in B
      <4>1. n - 1 \in 0..N /\ n \in 0..N /\ N + 1 - n \in 1..N BY <1>2
      <4>2. h[n][s] = IF u[N + 1 - n].store = s THEN u[N + 1 - n].was ELSE h[n - 1][s]
        BY <1>8, <1>11, <4>1
      <4>3. CASE n = N + 1 - a
        <5>1. N + 1 - n = a BY <1>2, <3>3, <4>3
        <5>2. h[n][s] = u[a].was BY <3>3, <4>2, <5>1
        <5>3. QED BY <3>4, <4>1, <5>2
      <4>4. CASE n > N + 1 - a
        <5>1. N + 1 - n \in 1..(a - 1) /\ n - 1 >= N + 1 - a BY <1>2, <3>3, <4>4
        <5>2. h[n - 1][s] = u[a].was BY <3>4, <3>6, <5>1
        <5>3. h[n][s] = u[a].was BY <3>3, <4>2, <5>1, <5>2
        <5>4. QED BY <3>4, <4>1, <5>3
      <4>5. CASE n < N + 1 - a
        <5>1. ~(n >= N + 1 - a) BY <1>2, <3>3, <4>5
        <5>2. QED BY <3>4, <4>1, <5>1
      <4>6. QED BY <1>2, <3>3, <4>3, <4>4, <4>5
    <3>7. \A n \in 0..N : n \in B
      <4>1. \A n \in 1..N : n - 1 \in B => n \in B BY <3>6
      <4>2. QED BY <1>2, <3>5, <4>1, Climb
    <3>8. N \in 0..N /\ N >= N + 1 - a BY <1>2, <3>3
    <3>9. h[N][s] = u[a].was BY <3>4, <3>7, <3>8
    <3>10. QED BY <2>2, <3>2, <3>9 DEF Was
  <2>3. QED BY <2>1, <2>2
<1>13. QED BY <1>2, <1>6, <1>11, <1>12

\* The database as t found it, but for what others have done since.
Before(w, t) ==
    IF w.tx[t].plan.mode = "versionchange" THEN w.tx[t].saved
    ELSE [version |-> w.db.version,
          stores |-> [s \in Stores |-> Was(w.tx[t].undo, s, w.db.stores[s])]]

LEMMA RevertedFacts ==
    ASSUME NEW w, NEW x, NEW M, NEW P, Good(w, x, M, P), NEW t \in Transactions,
           NEW v, v = Reverted(w, t)
    PROVE  /\ v \in Worlds /\ Frame(w, v) /\ v.posts = w.posts /\ v.db = Before(w, t)
           /\ v.tx = [w.tx EXCEPT ![t] = [w.tx[t] EXCEPT !.undo = <<>>]]
<1>1. PICK it : it = w.tx[t] OBVIOUS
<1>2. /\ w.tx \in [Transactions -> Txs] /\ it \in Txs /\ TxRight(it, t) /\ w \in Worlds
  BY <1>1, TxFacts
<1>3. PICK y : y = [w.tx EXCEPT ![t] = [it EXCEPT !.undo = <<>>]] OBVIOUS
<1>4. y \in [Transactions -> Txs]
  <2>0. <<>> \in Seq(UndoSteps) OBVIOUS
  <2>1. [it EXCEPT !.undo = <<>>] \in Txs BY <1>2, <2>0 DEF Txs
  <2>2. QED BY <1>2, <1>3, <2>1
<1>5. CASE it.plan.mode = "versionchange"
  <2>1. it.undo = <<>> BY <1>2, <1>5 DEF TxRight
  <2>2. y = w.tx
    <3>1. [it EXCEPT !.undo = <<>>] = it BY <1>2, <2>1 DEF Txs
    <3>2. QED BY <1>1, <1>2, <1>3, <3>1
  <2>3. v = [w EXCEPT !.db = it.saved] BY <1>1, <1>5 DEF Reverted, Mode
  <2>4. it.saved \in Contents BY <1>2 DEF Txs
  <2>5. v \in Worlds /\ Frame(w, v) /\ v.posts = w.posts /\ v.db = it.saved /\ v.tx = w.tx
    BY <1>2, <2>3, <2>4 DEF Worlds, Frame
  <2>6. Before(w, t) = it.saved BY <1>1, <1>5 DEF Before
  <2>7. QED BY <1>1, <1>3, <2>2, <2>5, <2>6
<1>6. CASE it.plan.mode # "versionchange"
  <2>1. w.db \in Contents /\ it.undo \in Seq(UndoSteps) BY <1>2 DEF Worlds, Txs
  <2>2. w.db.stores \in Contained /\ w.db.version \in Nat BY <2>1 DEF Contents, Contained
  <2>3. PICK d : d = Undone(w.db.stores, it.undo) OBVIOUS
  <2>4. d \in Contained /\ \A s \in Stores : d[s] = Was(it.undo, s, w.db.stores[s])
    BY <2>1, <2>2, <2>3, UndoneWas
  <2>5. d = [s \in Stores |-> Was(it.undo, s, w.db.stores[s])] BY <2>4 DEF Contained
  <2>6. PICK z : z = [version |-> w.db.version, stores |-> d] OBVIOUS
  <2>7. z \in Contents BY <2>2, <2>4, <2>6 DEF Contents, Contained
  <2>8. [w.db EXCEPT !.stores = d] = z BY <2>1, <2>6 DEF Contents
  <2>9. v = [w EXCEPT !.db = z, !.tx = y]
    BY <1>1, <1>2, <1>3, <1>6, <2>3, <2>8 DEF Reverted, Mode, Worlds
  <2>10. v \in Worlds /\ Frame(w, v) /\ v.posts = w.posts /\ v.db = z /\ v.tx = y
    BY <1>2, <1>4, <2>7, <2>9 DEF Worlds, Frame
  <2>11. Before(w, t) = z BY <1>1, <1>6, <2>5, <2>6 DEF Before
  <2>12. QED BY <1>1, <1>3, <2>10, <2>11
<1>7. QED BY <1>5, <1>6

\* A task that was not on its way.
LEMMA FreshPost ==
    ASSUME NEW w, NEW x, NEW M, NEW P, Good(w, x, M, P), NEW k \in Tasks, Due(w, k),
           k \notin P \cup ToSet(w.posts), NEW v, v = [w EXCEPT !.posts = Append(w.posts, k)]
    PROVE  /\ Good(v, x, M, P) /\ ToSet(v.posts) = ToSet(w.posts) \cup {k}
           /\ v.db = w.db /\ v.file = w.file /\ v.queue = w.queue /\ v.begun = w.begun
           /\ v.watchers = w.watchers /\ v.conns = w.conns /\ v.scheduled = w.scheduled
           /\ v.tx = w.tx /\ v.req = w.req
<1>0. w \in Worlds BY DEF Good
<1>1. w.posts \in Seq(Tasks) BY <1>0 DEF Worlds
<1>10. PICK p : p = Append(w.posts, k) OBVIOUS
<1>11. p \in Seq(Tasks) /\ v = [w EXCEPT !.posts = p] BY <1>1, <1>10
<1>2. /\ v \in Worlds /\ v.posts = p /\ v.begun = w.begun
      /\ v.db = w.db /\ v.file = w.file /\ v.queue = w.queue
      /\ v.watchers = w.watchers /\ v.conns = w.conns /\ v.scheduled = w.scheduled
      /\ v.tx = w.tx /\ v.req = w.req
  BY <1>0, <1>11 DEF Worlds
<1>3. /\ ScheduleRight(v, x) /\ TxsRight(v) /\ CountsRight(v) /\ DoorsRight(v, M)
      /\ EndedRight(v, M) /\ \A t : Clear(w, t) => Clear(v, t)
  BY <1>2, QueueApart DEF Good
<1>4. QueueRight(v, M) BY <1>2 DEF Good, QueueRight
<1>5. PICK e : e = <<k>> OBVIOUS
<1>6. e \in Seq(Tasks) /\ ToSet(e) = {k} /\ Few(e, Sole(M)) /\ v.posts = w.posts \o e
  BY <1>1, <1>2, <1>5, <1>10 DEF ToSet, Few
<1>7. ToSet(v.posts) = ToSet(w.posts) \cup {k} 
  <2>1. PICK o : o = w.posts OBVIOUS
  <2>2. o \in Seq(Tasks) /\ e \in Seq(Tasks) BY <1>1, <1>6, <2>1
  <2>3. ToSet(o \o e) = ToSet(o) \cup ToSet(e) BY <2>2, JoinFacts
  <2>4. QED BY <1>6, <2>1, <2>3
<1>8. TasksRight(v, M, P)
  <2>1. TasksRight(w, M, P) BY DEF Good
  <2>2. \A j \in P \cup ToSet(w.posts) \cup {k} : j \in Tasks
    BY <1>1, <2>1 DEF TasksRight, ToSet
  <2>3. \A j \in P \cup ToSet(v.posts) : j.id \notin M => Due(w, j)
    BY <1>7, <2>1 DEF TasksRight
  <2>4. ASSUME NEW j \in P \cup ToSet(v.posts), j.id \notin M PROVE Due(v, j)
    <3>1. j \in Tasks /\ Due(w, j) BY <1>7, <2>2, <2>3, <2>4
    <3>2. QED BY <1>2, <1>3, <3>1, DueSame
  <2>5. ToSet(w.posts) \cap ToSet(e) \cap Sole(M) = {} BY <1>6
  <2>6. Few(v.posts, Sole(M)) 
    <3>1. Few(w.posts, Sole(M)) BY <2>1 DEF TasksRight
    <3>2. PICK o, A : o = w.posts /\ A = Sole(M) OBVIOUS
    <3>3. o \in Seq(Tasks) /\ e \in Seq(Tasks) BY <1>1, <1>6, <3>2
    <3>4. Few(o, A) /\ Few(e, A) /\ ToSet(o) \cap ToSet(e) \cap A = {} BY <1>6, <2>5, <3>1, <3>2
    <3>5. Few(o \o e, A) BY <3>3, <3>4, JoinFacts
    <3>6. QED BY <1>6, <3>2, <3>5
  <2>7. P \cap ToSet(v.posts) \cap Sole(M) = {} BY <1>7, <2>1 DEF TasksRight
  <2>8. QED BY <2>1, <2>4, <2>6, <2>7 DEF TasksRight
<1>9. QED BY <1>2, <1>3, <1>4, <1>7, <1>8 DEF Good

\* From w to v transaction t has been aborted.
Scrapped(w, v, t) ==
    /\ IdsIn(v) = IdsIn(w) \ {t}
    /\ v.file = w.file /\ v.queue = w.queue /\ v.begun = w.begun /\ v.watchers = w.watchers
    /\ v.req = w.req /\ v.db = Before(w, t)
    /\ \A u \in Transactions \ {t} : v.tx[u] = w.tx[u]
    /\ v.tx[t].state = "Finished" /\ v.tx[t].plan = w.tx[t].plan
    /\ \A o \in Opens : v.conns[o].open => w.conns[o].open

LEMMA AbortRight ==
    ASSUME NEW w, NEW P, Good(w, {}, {}, P), NEW t \in Transactions, w.tx[t].state \in Busy,
           ~w.tx[t].commitQueued, NEW v, v = AbortTransaction(w, t)
    PROVE  Good(v, {}, {}, P) /\ Scrapped(w, v, t)
<1>1. PICK it, c : it = w.tx[t] /\ c = it.plan.connection OBVIOUS
<1>2. /\ w.tx \in [Transactions -> Txs] /\ it \in Txs /\ TxRight(it, t) /\ w \in Worlds
      /\ w.posts \in Seq(Tasks) /\ \A k \in P \cup ToSet(w.posts) : k \in Tasks
      /\ w.conns \in [Opens -> Doors]
  BY <1>1, TxFacts DEF Worlds
<1>3. /\ it.state # "unmade" /\ c \in Opens /\ it.plan.mode \in Modes
      /\ it.plan.mode = "versionchange" <=> t \in Opens
      /\ t \in Opens => c = t
  BY <1>1, <1>2 DEF Busy, TxRight
<1>4. t \in IdsIn(w) BY DEF Good, ScheduleRight
<1>5. PICK r : r = Reverted(w, t) OBVIOUS
<1>6. /\ r \in Worlds /\ Frame(w, r) /\ r.posts = w.posts /\ r.db = Before(w, t)
      /\ r.tx = [w.tx EXCEPT ![t] = [it EXCEPT !.undo = <<>>]]
  BY <1>1, <1>5, RevertedFacts
<1>7. PICK new : new = [it EXCEPT !.undo = <<>>, !.state = "Finished", !.queue = <<>>] OBVIOUS
<1>8. /\ new \in Txs /\ new.plan = it.plan /\ new.started = it.started /\ new.saved = it.saved
      /\ new.undo = <<>> /\ new.state = "Finished" /\ new.queue = <<>>
  <2>1. <<>> \in Seq(UndoSteps) /\ <<>> \in Seq(Placed) OBVIOUS
  <2>2. QED BY <1>2, <1>7, <2>1 DEF Txs, TxStates
<1>9. PICK y : y = [w.tx EXCEPT ![t] = new] OBVIOUS
<1>10. y \in [Transactions -> Txs] /\ y[t] = new /\ \A u \in Transactions : u # t => y[u] = w.tx[u]
  BY <1>2, <1>8, <1>9
<1>11. PICK z : z = IF t \notin Opens THEN w.conns
                    ELSE [w.conns EXCEPT ![c] = [w.conns[c] EXCEPT !.version = it.saved.version]]
  OBVIOUS
<1>12. /\ z \in [Opens -> Doors]
       /\ \A o \in Opens : /\ z[o].open = w.conns[o].open
                           /\ z[o].closePending = w.conns[o].closePending
                           /\ z[o].unfinished = w.conns[o].unfinished
                           /\ z[o].version = IF o = t THEN it.saved.version ELSE w.conns[o].version
  <2>1. CASE t \notin Opens BY <1>2, <1>11, <2>1
  <2>2. CASE t \in Opens
    <3>1. w.conns[c] \in Doors /\ it.saved.version \in Nat BY <1>2, <1>3 DEF Txs, Contents
    <3>2. PICK d : d = [w.conns[c] EXCEPT !.version = it.saved.version] OBVIOUS
    <3>3. /\ d \in Doors /\ d.open = w.conns[c].open /\ d.closePending = w.conns[c].closePending
          /\ d.unfinished = w.conns[c].unfinished /\ d.version = it.saved.version
      BY <3>1, <3>2 DEF Doors
    <3>4. z = [w.conns EXCEPT ![c] = d] BY <1>11, <2>2, <3>2
    <3>5. z[c] = d /\ \A o \in Opens : o # c => z[o] = w.conns[o] BY <1>2, <1>3, <3>4
    <3>6. z \in [Opens -> Doors] BY <1>2, <3>3, <3>4
    <3>7. QED BY <1>3, <2>2, <3>3, <3>5, <3>6
  <2>3. QED BY <2>1, <2>2
<1>13. PICK a : a = [r EXCEPT !.tx = y, !.conns = z] OBVIOUS
<1>14. /\ a \in Worlds /\ a.tx = y /\ a.conns = z /\ a.db = Before(w, t) /\ a.posts = w.posts
       /\ a.file = w.file /\ a.queue = w.queue /\ a.begun = w.begun /\ a.watchers = w.watchers
       /\ a.scheduled = w.scheduled /\ a.req = w.req
  BY <1>6, <1>10, <1>12, <1>13 DEF Worlds, Frame
<1>15. v = Post(Finish(a, t), "aborted", t)
  <2>1. PICK d : d = [r EXCEPT !.tx[t].state = "Finished", !.tx[t].queue = <<>>] OBVIOUS
  <2>2. d = [r EXCEPT !.tx = y]
    <3>1. r.tx[t] = [it EXCEPT !.undo = <<>>] BY <1>2, <1>6
    <3>2. d = [r EXCEPT !.tx = [r.tx EXCEPT ![t] = [r.tx[t] EXCEPT !.state = "Finished", !.queue = <<>>]]]
      BY <1>2, <1>6, <2>1 DEF Worlds
    <3>3. [r.tx[t] EXCEPT !.state = "Finished", !.queue = <<>>] = new
      BY <1>2, <1>7, <3>1 DEF Txs
    <3>4. [r.tx EXCEPT ![t] = new] = y BY <1>2, <1>6, <1>9
    <3>5. QED BY <3>2, <3>3, <3>4
  <2>3. d.conns = w.conns BY <1>6, <2>2 DEF Worlds, Frame
  <2>4. [d EXCEPT !.conns[c].version = it.saved.version]
          = [d EXCEPT !.conns = [d.conns EXCEPT ![c] = [d.conns[c] EXCEPT !.version = it.saved.version]]]
    BY <1>6, <2>2 DEF Worlds
  <2>5. (IF Mode(w, t) # "versionchange" THEN d ELSE [d EXCEPT !.conns[c].version = it.saved.version])
          = a
    <3>1. CASE t \notin Opens
      <4>1. a = [r EXCEPT !.tx = y, !.conns = w.conns] BY <1>11, <1>13, <3>1
      <4>2. r.conns = w.conns BY <1>6 DEF Frame
      <4>3. [r EXCEPT !.tx = y, !.conns = w.conns] = [r EXCEPT !.tx = y] BY <1>6, <4>2 DEF Worlds
      <4>4. QED BY <1>1, <1>3, <2>2, <3>1, <4>1, <4>3 DEF Mode
    <3>2. CASE t \in Opens
      <4>1. a = [d EXCEPT !.conns = z] BY <1>6, <1>13, <2>2 DEF Worlds
      <4>2. QED BY <1>1, <1>3, <1>11, <2>3, <2>4, <3>2, <4>1 DEF Mode
    <3>3. QED BY <3>1, <3>2
  <2>6. QED BY <1>1, <1>5, <2>1, <2>5 DEF AbortTransaction
<1>16. Good(a, {t}, {}, P)
  <2>1. IdsIn(a) = IdsIn(w) BY <1>14 DEF IdsIn
  <2>2. IdsIn(w) \subseteq Transactions BY <1>2, IdsFinite
  <2>3. \A u \in Transactions : y[u].plan = w.tx[u].plan /\ y[u].started = w.tx[u].started
    BY <1>1, <1>8, <1>10
  <2>4. ScheduleRight(a, {t})
    <3>1. ScheduleRight(w, {}) BY DEF Good
    <3>2. \A i \in DOMAIN w.scheduled : w.scheduled[i].id \in Transactions BY <2>2 DEF IdsIn
    <3>3. \A i \in DOMAIN a.scheduled :
           /\ a.scheduled[i].mode = y[a.scheduled[i].id].plan.mode
           /\ a.scheduled[i].scope = y[a.scheduled[i].id].plan.scope
           /\ a.scheduled[i].connection = y[a.scheduled[i].id].plan.connection
           /\ a.scheduled[i].started \/ y[a.scheduled[i].id].started => ~Waits(a.scheduled, i)
      <4>1. ASSUME NEW i \in DOMAIN w.scheduled
            PROVE  /\ w.scheduled[i].mode = y[w.scheduled[i].id].plan.mode
                   /\ w.scheduled[i].scope = y[w.scheduled[i].id].plan.scope
                   /\ w.scheduled[i].connection = y[w.scheduled[i].id].plan.connection
                   /\ w.scheduled[i].started \/ y[w.scheduled[i].id].started
                        => ~Waits(w.scheduled, i)
        <5>1. /\ y[w.scheduled[i].id].plan = w.tx[w.scheduled[i].id].plan
              /\ y[w.scheduled[i].id].started = w.tx[w.scheduled[i].id].started
          BY <2>3, <3>2
        <5>2. QED BY <3>1, <5>1, ZenonT(30) DEF ScheduleRight
      <4>2. a.scheduled = w.scheduled BY <1>14
      <4>3. QED BY <4>1, <4>2, ZenonT(30)
    <3>4. IdsIn(a) = {u \in Transactions : y[u].state \in Busy} \cup {t}
      <4>1. IdsIn(w) = {u \in Transactions : w.tx[u].state \in Busy} \cup {}
        BY <3>1 DEF ScheduleRight
      <4>2. QED BY <1>4, <1>10, <2>1, <4>1
    <3>5. y[t].state \notin Busy \cup {"unmade"} BY <1>8, <1>10 DEF Busy
    <3>6. a.scheduled = w.scheduled /\ a.tx = y BY <1>14
    <3>7. \A i, j \in DOMAIN a.scheduled : a.scheduled[i].id = a.scheduled[j].id => i = j
      BY <3>1, <3>6, ZenonT(30) DEF ScheduleRight
    <3>8. QED BY <3>3, <3>4, <3>5, <3>6, <3>7, ZenonT(30) DEF ScheduleRight
  <2>5. TxsRight(a)
    <3>1. TxRight(new, t) BY <1>2, <1>3, <1>8 DEF TxRight
    <3>2. \A u \in Transactions : TxRight(y[u], u) BY <1>10, <3>1 DEF Good, TxsRight
    <3>3. QED BY <1>14, <3>2 DEF TxsRight
  <2>6. \A o : On(a, o) = On(w, o) BY <1>14, <2>1, <2>2, <2>3 DEF On
  <2>7. CountsRight(a) BY <1>12, <1>14, <2>6 DEF Good, CountsRight
  <2>8. QueueRight(a, {}) BY <1>14 DEF Good, QueueRight
  <2>9. DoorsRight(a, {})
    <3>1. DoorsRight(w, {}) BY DEF Good
    <3>2. ASSUME NEW o \in Opens, w.conns[o].open, w.req[o] # "ended"
          PROVE  z[o].version = a.db.version
      <4>1. CASE t \in Opens
        <5>1. o = t BY <1>4, <3>1, <3>2, <4>1 DEF DoorsRight
        <5>2. a.db = it.saved BY <1>1, <1>3, <1>14, <4>1 DEF Before
        <5>3. QED BY <1>12, <5>1, <5>2
      <4>2. CASE t \notin Opens
        <5>1. a.db.version = w.db.version BY <1>1, <1>3, <1>14, <4>2 DEF Before
        <5>2. w.conns[o].version = w.db.version BY <3>1, <3>2 DEF DoorsRight
        <5>3. QED BY <1>12, <3>2, <4>2, <5>1, <5>2
      <4>3. QED BY <4>1, <4>2
    <3>3. ASSUME NEW o \in Opens, w.req[o] \in {"unmade", "queued", "waiting"}
          PROVE  y[o].state = "unmade"
      <4>1. w.tx[o].state = "unmade" /\ o \in Transactions BY <3>1, <3>3 DEF DoorsRight, Transactions
      <4>2. o # t BY <1>1, <1>3, <4>1
      <4>3. QED BY <1>10, <4>1, <4>2
    <3>4. QED BY <1>12, <1>14, <2>1, <3>1, <3>2, <3>3 DEF DoorsRight
  <2>10. EndedRight(a, {}) BY <1>8, <1>10, <1>14, <2>1, <2>2 DEF Good, EndedRight
  <2>11. TasksRight(a, {}, P)
    <3>1. TasksRight(w, {}, P) BY DEF Good
    <3>2. ASSUME NEW k \in P \cup ToSet(w.posts), Due(w, k) PROVE Due(a, k)
      <4>1. k \in Tasks /\ k.kind \in TaskKinds BY <1>2 DEF Tasks
      <4>2. \A u : Clear(w, u) => Clear(a, u) BY <1>14 DEF Clear
      <4>3. CASE k.kind \in {"begin", "others", "recheck"} BY <1>14, <3>2, <4>3 DEF Due
      <4>4. CASE k.kind \in {"start", "process"}
        BY <1>1, <1>8, <1>10, <1>14, <3>2, <4>2, <4>4 DEF Due
      <4>5. CASE k.kind \in {"commit", "aborted", "done"}
        <5>1. k.id \in Transactions BY <3>2, <4>5 DEF Due, Transactions
        <5>2. k.id # t BY <1>1, <3>2, <4>5 DEF Due, Busy
        <5>3. y[k.id] = w.tx[k.id] BY <1>10, <5>1, <5>2
        <5>4. QED BY <1>14, <3>2, <4>5, <5>3 DEF Due
      <4>6. QED BY <4>1, <4>3, <4>4, <4>5 DEF TaskKinds
    <3>3. QED BY <1>14, <3>1, <3>2, SamePosts
  <2>12. QED BY <1>14, <2>4, <2>5, <2>7, <2>8, <2>9, <2>10, <2>11 DEF Good
<1>17. PICK b : b = Finish(a, t) OBVIOUS
<1>18. Good(b, {}, {}, P) /\ Left(a, b, t)
  <2>1. PICK one : one = {t} OBVIOUS
  <2>2. t \in one /\ one \ {t} = {} BY <2>1
  <2>3. Good(a, one, {}, P) BY <1>16, <2>1
  <2>4. Good(b, one \ {t}, {}, P) /\ Left(a, b, t) BY <1>17, <2>2, <2>3, FinishRight
  <2>5. QED BY <2>2, <2>4
<1>19. PICK k : k = Task("aborted", t) OBVIOUS
<1>20. k \in Tasks /\ k.kind = "aborted" /\ k.id = t
  BY <1>19 DEF Task, Tasks, TaskKinds, Names, Requests, Transactions
<1>21. Due(b, k)
  <2>1. t \in Opens => w.req[t] = "upgrading" BY <1>4 DEF Good, DoorsRight
  <2>2. QED BY <1>8, <1>10, <1>14, <1>18, <1>20, <2>1 DEF Left, Due
<1>22. k \notin P \cup ToSet(b.posts)
  <2>1. ~Due(w, k) BY <1>20 DEF Due, Busy
  <2>2. k \notin P \cup ToSet(w.posts) BY <2>1 DEF Good, TasksRight
  <2>3. QED BY <1>14, <1>18, <1>20, <2>2 DEF Left
<1>23. v = [b EXCEPT !.posts = Append(b.posts, k)] BY <1>15, <1>17, <1>19 DEF Post
<1>24. /\ Good(v, {}, {}, P)
       /\ v.db = b.db /\ v.file = b.file /\ v.queue = b.queue /\ v.begun = b.begun
       /\ v.watchers = b.watchers /\ v.conns = b.conns /\ v.scheduled = b.scheduled
       /\ v.tx = b.tx /\ v.req = b.req
  BY <1>18, <1>20, <1>21, <1>22, <1>23, FreshPost
<1>25. Scrapped(w, v, t)
  <2>1. IdsIn(a) = IdsIn(w) /\ IdsIn(v) = IdsIn(b) BY <1>14, <1>24 DEF IdsIn
  <2>2. IdsIn(v) = IdsIn(w) \ {t} BY <1>18, <2>1 DEF Left
  <2>3. /\ v.file = w.file /\ v.queue = w.queue /\ v.begun = w.begun /\ v.watchers = w.watchers
        /\ v.req = w.req /\ v.db = Before(w, t) /\ v.tx = y
    BY <1>14, <1>18, <1>24 DEF Left
  <2>4. \A o \in Opens : v.conns[o].open => w.conns[o].open
    BY <1>12, <1>14, <1>18, <1>24 DEF Left
  <2>5. QED BY <1>1, <1>8, <1>10, <2>2, <2>3, <2>4 DEF Scrapped
<1>26. QED BY <1>24, <1>25

-----------------------------------------------------------------------------
(* A page's script.                                                         *)

\* From w to v transaction t has done its part, and maybe been aborted.
Acted(w, v, t) ==
    /\ Worked(w, v, t) \/ Scrapped(w, v, t)
    /\ v.tx[t].state # "Active"

LEMMA ScrappedOn ==
    ASSUME NEW u \in Worlds, NEW v, NEW w, NEW t \in Transactions, Worked(u, v, t), Scrapped(v, w, t)
    PROVE  Scrapped(u, w, t)
<1>1. IdsIn(v) = IdsIn(u) BY DEF Worked, IdsIn
<1>2. Before(v, t) = Before(u, t) BY DEF Worked, Before
<1>3. QED BY <1>1, <1>2 DEF Worked, Scrapped

LEMMA RunScriptRight ==
    ASSUME NEW w, NEW P, Good(w, {}, {}, P), NEW t \in Transactions,
           w.tx[t].state \in {"Inactive", "Active"}, NEW most \in Int,
           NEW script \in Scripts(w.tx[t].plan, most), NEW v, v = RunScript(w, t, script)
    PROVE  Good(v, {}, {}, P) /\ Acted(w, v, t)
<1>1. PICK a : a = [w EXCEPT !.tx[t].state = "Active"] OBVIOUS
<1>2. /\ Good(a, {}, {}, P) /\ Worked(w, a, t) /\ a.tx[t].state = "Active"
      /\ a.tx[t].plan = w.tx[t].plan
  BY <1>1, MarkedWorked
<1>3. PICK ops : ops = script.ops OBVIOUS
<1>4. ops \in Seq(Operations(a.tx[t].plan)) /\ script.end \in {"nothing", "commit", "abort"}
  <2>1. ops \in SeqOf(Operations(w.tx[t].plan), most) BY <1>3 DEF Scripts
  <2>2. ops \in Seq(Operations(w.tx[t].plan)) BY <2>1, LimitedLists
  <2>3. QED BY <1>2, <2>2 DEF Scripts
<1>5. PICK b : b = PlaceAll(a, t, ops) OBVIOUS
<1>6. Good(b, {}, {}, P) /\ Worked(a, b, t) /\ b.tx[t].state = "Active"
  BY <1>2, <1>4, <1>5, PlaceAllWorked
<1>7. Worked(w, b, t) BY <1>2, <1>6, WorkedOn
<1>8. PICK e : e = CASE script.end = "commit" -> CommitTransaction(b, t)
                     [] script.end = "abort" -> AbortTransaction(b, t)
                     [] OTHER -> b
  OBVIOUS
<1>9. v = IF e.tx[t].state = "Active" THEN [e EXCEPT !.tx[t].state = "Inactive"] ELSE e
  BY <1>1, <1>3, <1>5, <1>8 DEF RunScript
<1>10. CASE script.end = "commit"
  <2>1. e = CommitTransaction(b, t) BY <1>8, <1>10
  <2>2. Good(e, {}, {}, P) /\ Worked(b, e, t) /\ e.tx[t].state = "Committing"
    BY <1>6, <2>1, CommitTransactionWorked DEF Busy
  <2>3. v = e BY <1>9, <2>2
  <2>4. Worked(w, v, t) BY <1>7, <2>2, <2>3, WorkedOn
  <2>5. QED BY <2>2, <2>3, <2>4 DEF Acted
<1>11. CASE script.end = "abort"
  <2>1. e = AbortTransaction(b, t) BY <1>8, <1>11
  <2>2. ~b.tx[t].commitQueued
    <3>1. TxRight(b.tx[t], t) BY <1>6, TxFacts
    <3>2. QED BY <1>6, <3>1 DEF TxRight
  <2>3. Good(e, {}, {}, P) /\ Scrapped(b, e, t) BY <1>6, <2>1, <2>2, AbortRight DEF Busy
  <2>4. v = e BY <1>9, <2>3 DEF Scrapped
  <2>5. w \in Worlds BY DEF Good
  <2>6. Scrapped(w, v, t) BY <1>7, <2>3, <2>4, <2>5, ScrappedOn
  <2>7. QED BY <2>3, <2>4, <2>6 DEF Acted, Scrapped
<1>12. CASE script.end = "nothing"
  <2>1. e = b BY <1>8, <1>12
  <2>2. v = [b EXCEPT !.tx[t].state = "Inactive"] BY <1>6, <1>9, <2>1
  <2>3. Good(v, {}, {}, P) /\ Worked(b, v, t) /\ v.tx[t].state = "Inactive"
    <3>1. PICK s : s = "Inactive" OBVIOUS
    <3>2. s \in {"Inactive", "Active"} /\ b.tx[t].state \in {"Inactive", "Active"} BY <1>6, <3>1
    <3>3. v = [b EXCEPT !.tx[t].state = s] BY <2>2, <3>1
    <3>4. Good(v, {}, {}, P) /\ Worked(b, v, t) /\ v.tx[t].state = s
      BY <1>6, <3>2, <3>3, MarkedWorked
    <3>5. QED BY <3>1, <3>4
  <2>4. Worked(w, v, t) BY <1>7, <2>3, WorkedOn
  <2>5. QED BY <2>3, <2>4 DEF Acted
<1>13. QED BY <1>4, <1>10, <1>11, <1>12

LEMMA PumpActed ==
    ASSUME NEW w, NEW u, NEW P, Good(u, {}, {}, P), NEW t \in Transactions, Acted(w, u, t),
           u.tx[t].state # "ended", NEW v, v = PumpTx(u, t)
    PROVE  Good(v, {}, {}, P) /\ Acted(w, v, t)
<1>1. CASE Scrapped(w, u, t)
  <2>1. v = u BY <1>1 DEF Scrapped, PumpTx, Over
  <2>2. QED BY <2>1
<1>2. CASE Worked(w, u, t)
  <2>1. /\ Good(v, {}, {}, P) /\ Worked(u, v, t)
        /\ v.tx[t].state = u.tx[t].state \/ v.tx[t].state = "Committing"
    BY PumpTxWorked
  <2>2. Worked(w, v, t) BY <1>2, <2>1, WorkedOn
  <2>3. QED BY <2>1, <2>2 DEF Acted
<1>3. QED BY <1>1, <1>2 DEF Acted

LEMMA ProcessNextRight ==
    ASSUME NEW w, NEW P, Good(w, {}, {}, P), NEW t \in Transactions,
           w.tx[t].state \in {"Inactive", "Committing", "Finished"}, w.tx[t].started, NEW script,
           w.tx[t].state = "Inactive" => \E most \in Int : script \in Scripts(w.tx[t].plan, most),
           NEW v, v = ProcessNext(w, t, script)
    PROVE  Good(v, {}, {}, P) /\ Acted(w, v, t)
<1>1. PICK it : it = w.tx[t] OBVIOUS
<1>2. /\ w.tx \in [Transactions -> Txs] /\ it \in Txs /\ TxRight(it, t) /\ w \in Worlds
      /\ w.posts \in Seq(Tasks) /\ \A k \in P \cup ToSet(w.posts) : k \in Tasks
  BY <1>1, TxFacts
<1>3. PICK new : new = [it EXCEPT !.processing = FALSE] OBVIOUS
<1>4. /\ new \in Txs /\ new.plan = it.plan /\ new.started = it.started /\ new.saved = it.saved
      /\ new.undo = it.undo /\ new.state = it.state /\ new.queue = it.queue
      /\ new.commitQueued = it.commitQueued
  BY <1>2, <1>3 DEF Txs
<1>5. PICK f : f = [w EXCEPT !.tx[t].processing = FALSE] OBVIOUS
<1>6. f = [w EXCEPT !.tx = [w.tx EXCEPT ![t] = new]] BY <1>1, <1>2, <1>3, <1>5 DEF Worlds
<1>7. /\ f \in Worlds /\ Frame(w, f) /\ f.db = w.db /\ f.posts = w.posts
      /\ f.tx = [w.tx EXCEPT ![t] = new]
  BY <1>2, <1>4, <1>6 DEF Worlds, Frame
<1>8. Good(f, {}, {}, P) /\ Worked(w, f, t) /\ f.tx[t] = new
  <2>1. TxRight(new, t) BY <1>1, <1>2, <1>4 DEF TxRight
  <2>2. /\ Worked(w, f, t)
        /\ TasksRight(f, {}, P) => Good(f, {}, {}, P)
        /\ \A k \in Tasks : Due(w, k) => Due(f, k)
    BY <1>1, <1>4, <1>7, <2>1, RecordWorked
  <2>3. TasksRight(w, {}, P) BY DEF Good
  <2>4. TasksRight(f, {}, P) BY <1>2, <1>7, <2>2, <2>3, SamePosts
  <2>5. QED BY <1>2, <1>7, <2>2, <2>4
<1>9. CASE Over(it.state) \/ it.queue = <<>>
  <2>1. v = PumpTx(f, t) BY <1>1, <1>5, <1>9 DEF ProcessNext
  <2>2. Acted(w, f, t) /\ f.tx[t].state # "ended" BY <1>1, <1>4, <1>8 DEF Acted
  <2>3. QED BY <1>8, <2>1, <2>2, PumpActed
<1>10. CASE ~Over(it.state) /\ it.queue # <<>>
  <2>1. PICK r : r = Execute(f, t, 1) OBVIOUS
  <2>2. /\ Good(r, {}, {}, P) /\ Worked(f, r, t) /\ r.tx[t].state = it.state
        /\ Len(r.tx[t].queue) = Len(it.queue)
    <3>1. it.queue \in Seq(Placed) BY <1>2 DEF Txs
    <3>2. 1 \in DOMAIN f.tx[t].queue BY <1>4, <1>8, <1>10, <3>1
    <3>3. f.tx[t].started BY <1>1, <1>4, <1>8
    <3>4. QED BY <1>4, <1>8, <2>1, <3>2, <3>3, ExecuteWorked
  <2>3. PICK jt : jt = r.tx[t] OBVIOUS
  <2>4. /\ r.tx \in [Transactions -> Txs] /\ jt \in Txs /\ TxRight(jt, t) /\ r \in Worlds
        /\ r.posts \in Seq(Tasks) /\ \A k \in P \cup ToSet(r.posts) : k \in Tasks
    BY <2>2, <2>3, TxFacts
  <2>5. jt.queue \in Seq(Placed) /\ jt.queue # <<>> /\ ~jt.commitQueued
    <3>1. it.queue \in Seq(Placed) /\ jt.queue \in Seq(Placed) BY <1>2, <2>4 DEF Txs
    <3>2. jt.queue # <<>> BY <1>10, <2>2, <2>3, <3>1
    <3>3. QED BY <2>4, <3>1, <3>2 DEF TxRight
  <2>6. PICK q : q = Tail(jt.queue) OBVIOUS
  <2>7. /\ q \in Seq(Placed) /\ Len(q) = Len(jt.queue) - 1
        /\ \A i \in DOMAIN q : i + 1 \in DOMAIN jt.queue /\ q[i] = jt.queue[i + 1]
    BY <2>5, <2>6
  <2>8. PICK pn : pn = [jt EXCEPT !.queue = q] OBVIOUS
  <2>9. /\ pn \in Txs /\ pn.plan = jt.plan /\ pn.started = jt.started /\ pn.saved = jt.saved
        /\ pn.undo = jt.undo /\ pn.state = jt.state /\ pn.queue = q
        /\ pn.commitQueued = jt.commitQueued
    BY <2>4, <2>7, <2>8 DEF Txs
  <2>10. jt.state = it.state BY <2>2, <2>3
  <2>11. TxRight(pn, t)
    <3>1. pn.state # "unmade" BY <1>1, <2>9, <2>10
    <3>2. \A i \in DOMAIN q : /\ q[i].store \in jt.plan.scope
                              /\ jt.plan.mode = "readonly" => q[i].kind = "read"
      BY <2>4, <2>7 DEF TxRight
    <3>3. QED BY <2>4, <2>5, <2>9, <3>1, <3>2 DEF TxRight
  <2>12. PICK p : p = [r EXCEPT !.tx[t].queue = Tail(@)] OBVIOUS
  <2>13. p = [r EXCEPT !.tx = [r.tx EXCEPT ![t] = pn]]
    BY <2>3, <2>4, <2>6, <2>8, <2>12 DEF Worlds
  <2>14. /\ p \in Worlds /\ Frame(r, p) /\ p.db = r.db /\ p.posts = r.posts
         /\ p.tx = [r.tx EXCEPT ![t] = pn]
    BY <2>4, <2>9, <2>13 DEF Worlds, Frame
  <2>15. Good(p, {}, {}, P) /\ Worked(r, p, t) /\ p.tx[t] = pn
    <3>1. /\ Worked(r, p, t)
          /\ TasksRight(p, {}, P) => Good(p, {}, {}, P)
          /\ \A k \in Tasks : Due(r, k) => Due(p, k)
      BY <2>2, <2>3, <2>5, <2>9, <2>11, <2>14, RecordWorked
    <3>2. TasksRight(r, {}, P) BY <2>2 DEF Good
    <3>3. TasksRight(p, {}, P) BY <2>4, <2>14, <3>1, <3>2, SamePosts
    <3>4. QED BY <2>4, <2>14, <3>1, <3>3
  <2>16. Worked(w, r, t) BY <1>8, <2>2, WorkedOn
  <2>17. Worked(w, p, t) BY <2>15, <2>16, WorkedOn
  <2>18. p.tx[t].state = it.state /\ ~p.tx[t].commitQueued /\ p.tx[t].plan = it.plan
         /\ it.state \in {"Inactive", "Committing"}
    <3>1. p.tx[t].plan = it.plan BY <1>1, <2>17 DEF Worked
    <3>2. QED BY <1>1, <1>10, <2>5, <2>9, <2>10, <2>15, <3>1 DEF Over
  <2>19. Acted(w, p, t) BY <2>17, <2>18 DEF Acted
  <2>20. CASE Head(it.queue).kind = "fail"
    <3>1. v = AbortTransaction(p, t)
      BY <1>1, <1>5, <1>10, <2>1, <2>12, <2>20 DEF ProcessNext
    <3>2. Good(v, {}, {}, P) /\ Scrapped(p, v, t) BY <2>15, <2>18, <3>1, AbortRight DEF Busy
    <3>3. Scrapped(w, v, t) BY <1>2, <2>17, <3>2, ScrappedOn
    <3>4. QED BY <3>2, <3>3 DEF Acted, Scrapped
  <2>21. CASE Head(it.queue).kind # "fail" /\ it.state = "Committing"
    <3>1. v = PumpTx(p, t)
      BY <1>1, <1>5, <1>10, <2>1, <2>12, <2>21 DEF ProcessNext
    <3>2. QED BY <2>15, <2>18, <2>19, <3>1, PumpActed
  <2>22. CASE Head(it.queue).kind # "fail" /\ it.state # "Committing"
    <3>1. PICK e : e = RunScript(p, t, script) OBVIOUS
    <3>2. v = PumpTx(e, t)
      BY <1>1, <1>5, <1>10, <2>1, <2>12, <2>22, <3>1 DEF ProcessNext
    <3>3. it.state = "Inactive" BY <2>18, <2>22
    <3>4. PICK most \in Int : script \in Scripts(p.tx[t].plan, most) BY <1>1, <2>18, <3>3
    <3>5. Good(e, {}, {}, P) /\ Acted(p, e, t)
      BY <2>15, <2>18, <3>1, <3>3, <3>4, RunScriptRight
    <3>6. Acted(w, e, t)
      <4>1. CASE Worked(p, e, t)
        <5>1. Worked(w, e, t) BY <2>17, <4>1, WorkedOn
        <5>2. QED BY <3>5, <5>1 DEF Acted
      <4>2. CASE Scrapped(p, e, t)
        <5>1. Scrapped(w, e, t) BY <1>2, <2>17, <4>2, ScrappedOn
        <5>2. QED BY <3>5, <5>1 DEF Acted
      <4>3. QED BY <3>5, <4>1, <4>2 DEF Acted
    <3>7. e.tx[t].state # "ended" BY <2>18, <3>5 DEF Acted, Worked, Scrapped, Busy
    <3>8. QED BY <3>2, <3>5, <3>6, <3>7, PumpActed
  <2>23. QED BY <2>20, <2>21, <2>22
<1>11. QED BY <1>9, <1>10

-----------------------------------------------------------------------------
(* A transaction's end.                                                     *)

\* From w to v transaction t has been committed.
Completed(w, v, t) ==
    /\ IdsIn(v) = IdsIn(w) \ {t}
    /\ v.db = w.db /\ v.queue = w.queue /\ v.begun = w.begun /\ v.watchers = w.watchers
    /\ v.req = w.req /\ \A u \in Transactions \ {t} : v.tx[u] = w.tx[u]
    /\ v.tx[t].state = "complete" /\ v.tx[t].plan = w.tx[t].plan
    /\ \A o \in Opens : v.conns[o].open => w.conns[o].open
    /\ \A k \in ToSet(v.posts) : k \in ToSet(w.posts) \/ k.kind \in {"start", "recheck"}

LEMMA FinishCommitRight ==
    ASSUME NEW w, NEW P, Good(w, {}, {}, P), NEW t \in Transactions, w.tx[t].state = "Committing",
           Task("commit", t) \notin P \cup ToSet(w.posts), NEW v, v = FinishCommit(w, t)
    PROVE  Good(v, {}, {}, P) /\ Completed(w, v, t)
<1>1. PICK it : it = w.tx[t] OBVIOUS
<1>2. /\ w.tx \in [Transactions -> Txs] /\ it \in Txs /\ TxRight(it, t) /\ w \in Worlds
      /\ w.posts \in Seq(Tasks) /\ \A k \in P \cup ToSet(w.posts) : k \in Tasks
  BY <1>1, TxFacts
<1>3. t \in IdsIn(w) BY DEF Good, ScheduleRight, Busy
<1>4. PICK r : r = IF Mode(w, t) = "readonly" THEN w ELSE Persisted(w) OBVIOUS
<1>5. /\ r \in Worlds /\ r.tx = w.tx /\ r.conns = w.conns /\ r.db = w.db /\ r.posts = w.posts
      /\ r.queue = w.queue /\ r.begun = w.begun /\ r.watchers = w.watchers
      /\ r.scheduled = w.scheduled /\ r.req = w.req
  <2>1. r = w \/ r = [w EXCEPT !.file = w.db] BY <1>4 DEF Persisted
  <2>2. QED BY <1>2, <2>1 DEF Worlds
<1>6. PICK new : new = [it EXCEPT !.undo = <<>>, !.state = "complete"] OBVIOUS
<1>7. /\ new \in Txs /\ new.plan = it.plan /\ new.started = it.started /\ new.saved = it.saved
      /\ new.undo = <<>> /\ new.state = "complete" /\ new.queue = it.queue
      /\ new.commitQueued = it.commitQueued
  <2>1. <<>> \in Seq(UndoSteps) OBVIOUS
  <2>2. QED BY <1>2, <1>6, <2>1 DEF Txs, TxStates
<1>8. PICK y : y = [w.tx EXCEPT ![t] = new] OBVIOUS
<1>9. y \in [Transactions -> Txs] /\ y[t] = new /\ \A u \in Transactions : u # t => y[u] = w.tx[u]
  BY <1>2, <1>7, <1>8
<1>10. PICK a : a = [r EXCEPT !.tx = y] OBVIOUS
<1>11. /\ a \in Worlds /\ a.tx = y /\ a.conns = w.conns /\ a.db = w.db /\ a.posts = w.posts
       /\ a.queue = w.queue /\ a.begun = w.begun /\ a.watchers = w.watchers
       /\ a.scheduled = w.scheduled /\ a.req = w.req
  BY <1>5, <1>9, <1>10 DEF Worlds
<1>12. v = Finish(a, t)
  <2>1. [r EXCEPT !.tx[t].undo = <<>>, !.tx[t].state = "complete"] = a
    BY <1>1, <1>2, <1>5, <1>6, <1>8, <1>10 DEF Worlds
  <2>2. QED BY <1>4, <2>1 DEF FinishCommit
<1>13. Good(a, {t}, {}, P)
  <2>1. IdsIn(a) = IdsIn(w) BY <1>11 DEF IdsIn
  <2>2. IdsIn(w) \subseteq Transactions BY <1>2, IdsFinite
  <2>3. \A u \in Transactions : y[u].plan = w.tx[u].plan /\ y[u].started = w.tx[u].started
    BY <1>1, <1>7, <1>9
  <2>4. ScheduleRight(a, {t})
    <3>1. ScheduleRight(w, {}) BY DEF Good
    <3>2. \A i \in DOMAIN w.scheduled : w.scheduled[i].id \in Transactions BY <2>2 DEF IdsIn
    <3>3. \A i \in DOMAIN a.scheduled :
           /\ a.scheduled[i].mode = y[a.scheduled[i].id].plan.mode
           /\ a.scheduled[i].scope = y[a.scheduled[i].id].plan.scope
           /\ a.scheduled[i].connection = y[a.scheduled[i].id].plan.connection
           /\ a.scheduled[i].started \/ y[a.scheduled[i].id].started => ~Waits(a.scheduled, i)
      BY <1>11, <2>3, <3>1, <3>2 DEF ScheduleRight
    <3>4. IdsIn(a) = {u \in Transactions : y[u].state \in Busy} \cup {t}
      <4>1. IdsIn(w) = {u \in Transactions : w.tx[u].state \in Busy} \cup {}
        BY <3>1 DEF ScheduleRight
      <4>2. QED BY <1>3, <1>9, <2>1, <4>1
    <3>5. y[t].state \notin Busy \cup {"unmade"} BY <1>7, <1>9 DEF Busy
    <3>6. QED BY <1>11, <3>1, <3>3, <3>4, <3>5 DEF ScheduleRight
  <2>5. TxsRight(a)
    <3>1. TxRight(new, t) BY <1>1, <1>2, <1>7 DEF TxRight
    <3>2. \A u \in Transactions : TxRight(y[u], u) BY <1>9, <3>1 DEF Good, TxsRight
    <3>3. QED BY <1>11, <3>2 DEF TxsRight
  <2>6. \A o : On(a, o) = On(w, o) BY <1>11, <2>1, <2>2, <2>3 DEF On
  <2>7. CountsRight(a) BY <1>11, <2>6 DEF Good, CountsRight
  <2>8. QueueRight(a, {}) BY <1>11 DEF Good, QueueRight
  <2>9. DoorsRight(a, {})
    <3>1. DoorsRight(w, {}) BY DEF Good
    <3>2. ASSUME NEW o \in Opens, w.req[o] \in {"unmade", "queued", "waiting"}
          PROVE  y[o].state = "unmade"
      <4>1. w.tx[o].state = "unmade" /\ o \in Transactions BY <3>1, <3>2 DEF DoorsRight, Transactions
      <4>2. o # t BY <4>1
      <4>3. QED BY <1>9, <4>1, <4>2
    <3>3. QED BY <1>11, <2>1, <3>1, <3>2 DEF DoorsRight
  <2>10. EndedRight(a, {}) BY <1>7, <1>9, <1>11, <2>1, <2>2 DEF Good, EndedRight
  <2>11. TasksRight(a, {}, P)
    <3>1. TasksRight(w, {}, P) BY DEF Good
    <3>2. ASSUME NEW k \in P \cup ToSet(w.posts), Due(w, k) PROVE Due(a, k)
      <4>1. k \in Tasks /\ k.kind \in TaskKinds BY <1>2 DEF Tasks
      <4>2. \A u : Clear(w, u) => Clear(a, u) BY <1>11 DEF Clear
      <4>3. CASE k.kind \in {"begin", "others", "recheck"} BY <1>11, <3>2, <4>3 DEF Due
      <4>4. CASE k.kind \in {"start", "process"}
        BY <1>1, <1>7, <1>9, <1>11, <3>2, <4>2, <4>4 DEF Due
      <4>5. CASE k.kind \in {"commit", "aborted", "done"}
        <5>1. k.id \in Transactions BY <3>2, <4>5 DEF Due, Transactions
        <5>2. k.id # t
          <6>1. CASE k.kind = "commit"
            <7>1. k = [kind |-> k.kind, id |-> k.id] BY <4>1 DEF Tasks
            <7>2. k.id = t => k = Task("commit", t) BY <6>1, <7>1 DEF Task
            <7>3. QED BY <7>2
          <6>2. CASE k.kind # "commit" BY <3>2, <4>5, <6>2 DEF Due
          <6>3. QED BY <6>1, <6>2
        <5>3. y[k.id] = w.tx[k.id] BY <1>9, <5>1, <5>2
        <5>4. QED BY <1>11, <3>2, <4>5, <5>3 DEF Due
      <4>6. QED BY <4>1, <4>3, <4>4, <4>5 DEF TaskKinds
    <3>3. QED BY <1>11, <3>1, <3>2, SamePosts
  <2>12. QED BY <1>11, <2>4, <2>5, <2>7, <2>8, <2>9, <2>10, <2>11 DEF Good
<1>14. Good(v, {}, {}, P) /\ Left(a, v, t)
  <2>1. PICK one : one = {t} OBVIOUS
  <2>2. t \in one /\ one \ {t} = {} BY <2>1
  <2>3. Good(a, one, {}, P) BY <1>13, <2>1
  <2>4. Good(v, one \ {t}, {}, P) /\ Left(a, v, t) BY <1>12, <2>2, <2>3, FinishRight
  <2>5. QED BY <2>2, <2>4
<1>15. IdsIn(a) = IdsIn(w) BY <1>11 DEF IdsIn
<1>16. Completed(w, v, t) BY <1>1, <1>7, <1>9, <1>11, <1>14, <1>15 DEF Left, Completed
<1>17. QED BY <1>14, <1>16

\* Its page has been told.
Rejected(w, v, t) ==
    /\ v.db = w.db /\ v.file = w.file /\ v.scheduled = w.scheduled
    /\ v.conns = w.conns /\ v.req = w.req /\ v.posts = w.posts
    /\ v.tx[t].state = "abort" /\ \A u \in Transactions \ {t} : v.tx[u] = w.tx[u]

\* The realm hears that its transaction has been aborted.
LEMMA AbortedRight ==
    ASSUME NEW w, NEW P, Good(w, {}, {}, P), NEW t \in Transactions, w.tx[t].state = "Finished",
           Task("aborted", t) \notin P \cup ToSet(w.posts), NEW v, v = [w EXCEPT !.tx[t].state = "abort"]
    PROVE  Good(v, {}, {}, P) /\ Rejected(w, v, t)
<1>1. PICK it : it = w.tx[t] OBVIOUS
<1>2. /\ w.tx \in [Transactions -> Txs] /\ it \in Txs /\ TxRight(it, t) /\ w \in Worlds
      /\ w.posts \in Seq(Tasks) /\ \A k \in P \cup ToSet(w.posts) : k \in Tasks
  BY <1>1, TxFacts
<1>3. PICK new : new = [it EXCEPT !.state = "abort"] OBVIOUS
<1>4. /\ new \in Txs /\ new.plan = it.plan /\ new.started = it.started /\ new.saved = it.saved
      /\ new.undo = it.undo /\ new.state = "abort" /\ new.queue = it.queue
      /\ new.commitQueued = it.commitQueued
  BY <1>2, <1>3 DEF Txs, TxStates
<1>5. PICK y : y = [w.tx EXCEPT ![t] = new] OBVIOUS
<1>6. y \in [Transactions -> Txs] /\ y[t] = new /\ \A u \in Transactions : u # t => y[u] = w.tx[u]
  BY <1>2, <1>4, <1>5
<1>7. v = [w EXCEPT !.tx = y] BY <1>1, <1>2, <1>3, <1>5 DEF Worlds
<1>8. /\ v \in Worlds /\ v.tx = y /\ v.conns = w.conns /\ v.db = w.db /\ v.posts = w.posts
      /\ v.queue = w.queue /\ v.begun = w.begun /\ v.watchers = w.watchers
      /\ v.scheduled = w.scheduled /\ v.req = w.req /\ v.file = w.file
  BY <1>2, <1>6, <1>7 DEF Worlds
<1>9. IdsIn(v) = IdsIn(w) /\ IdsIn(w) \subseteq Transactions BY <1>2, <1>8, IdsFinite DEF IdsIn
<1>10. \A u \in Transactions : y[u].plan = w.tx[u].plan /\ y[u].started = w.tx[u].started
  BY <1>1, <1>4, <1>6
<1>11. ScheduleRight(v, {})
  <2>1. ScheduleRight(w, {}) BY DEF Good
  <2>2. \A i \in DOMAIN w.scheduled : w.scheduled[i].id \in Transactions BY <1>9 DEF IdsIn
  <2>3. EntriesFit(v)
    <3>1. \A u \in Transactions : v.tx[u].plan = w.tx[u].plan /\ v.tx[u].started = w.tx[u].started
      BY <1>8, <1>10
    <3>2. v.scheduled = w.scheduled BY <1>8
    <3>3. SameEntries(w, v) BY <2>2, <3>1, <3>2 DEF SameEntries
    <3>4. QED BY <2>1, <3>3, EntriesKept
  <2>4. IdsIn(v) = {u \in Transactions : y[u].state \in Busy} \cup {}
    <3>1. IdsIn(w) = {u \in Transactions : w.tx[u].state \in Busy} \cup {}
      BY <2>1 DEF ScheduleRight
    <3>2. QED BY <1>4, <1>6, <1>9, <3>1 DEF Busy
  <2>5. IdsIn(v) = {u \in Transactions : v.tx[u].state \in Busy} \cup {} BY <1>8, <2>4
  <2>6. QED BY <2>3, <2>5, FittingAll
<1>12. TxsRight(v)
  <2>1. TxRight(new, t) BY <1>1, <1>2, <1>4 DEF TxRight
  <2>2. \A u \in Transactions : TxRight(y[u], u) BY <1>6, <2>1 DEF Good, TxsRight
  <2>3. QED BY <1>8, <2>2 DEF TxsRight
<1>13. \A o : On(v, o) = On(w, o) BY <1>8, <1>9, <1>10 DEF On
<1>14. CountsRight(v) BY <1>8, <1>13 DEF Good, CountsRight
<1>15. QueueRight(v, {}) BY <1>8 DEF Good, QueueRight
<1>16. DoorsRight(v, {})
  <2>1. DoorsRight(w, {}) BY DEF Good
  <2>2. ASSUME NEW o \in Opens, w.req[o] \in {"unmade", "queued", "waiting"}
        PROVE  y[o].state = "unmade"
    <3>1. w.tx[o].state = "unmade" /\ o \in Transactions BY <2>1, <2>2 DEF DoorsRight, Transactions
    <3>2. o # t BY <3>1
    <3>3. QED BY <1>6, <3>1, <3>2
  <2>3. QED BY <1>8, <1>9, <2>1, <2>2 DEF DoorsRight
<1>17. EndedRight(v, {}) BY <1>4, <1>6, <1>8, <1>9 DEF Good, EndedRight
<1>18. TasksRight(v, {}, P)
  <2>1. TasksRight(w, {}, P) BY DEF Good
  <2>2. ASSUME NEW k \in P \cup ToSet(w.posts), Due(w, k) PROVE Due(v, k)
    <3>1. k \in Tasks /\ k.kind \in TaskKinds BY <1>2 DEF Tasks
    <3>2. \A u : Clear(w, u) => Clear(v, u) BY <1>8 DEF Clear
    <3>3. CASE k.kind \in {"begin", "others", "recheck"} BY <1>8, <2>2, <3>3 DEF Due
    <3>4. CASE k.kind \in {"start", "process"}
      <4>1. k.id \in Transactions /\ w.tx[k.id].state \notin {"unmade", "ended"} BY <2>2, <3>4 DEF Due
      <4>2. v.tx[k.id].state \notin {"unmade", "ended"} BY <1>4, <1>6, <1>8, <4>1
      <4>3. v.tx[k.id].started = w.tx[k.id].started BY <1>8, <1>10, <4>1
      <4>4. CASE k.kind = "start" BY <2>2, <3>2, <4>1, <4>2, <4>4 DEF Due
      <4>5. CASE k.kind = "process" BY <2>2, <4>1, <4>2, <4>3, <4>5 DEF Due
      <4>6. QED BY <3>4, <4>4, <4>5
    <3>5. CASE k.kind \in {"commit", "aborted", "done"}
      <4>1. k.id \in Transactions BY <2>2, <3>5 DEF Due, Transactions
      <4>2. k.id # t
        <5>1. CASE k.kind = "aborted"
          <6>1. k = [kind |-> k.kind, id |-> k.id] BY <3>1 DEF Tasks
          <6>2. k.id = t => k = Task("aborted", t) BY <5>1, <6>1 DEF Task
          <6>3. QED BY <6>2
        <5>2. CASE k.kind # "aborted" BY <2>2, <3>5, <5>2 DEF Due
        <5>3. QED BY <5>1, <5>2
      <4>3. y[k.id] = w.tx[k.id] BY <1>6, <4>1, <4>2
      <4>4. QED BY <1>8, <2>2, <3>5, <4>3 DEF Due
    <3>6. QED BY <3>1, <3>3, <3>4, <3>5 DEF TaskKinds
  <2>3. QED BY <1>8, <2>1, <2>2, SamePosts
<1>19. Good(v, {}, {}, P)
  BY <1>8, <1>11, <1>12, <1>14, <1>15, <1>16, <1>17, <1>18 DEF Good
<1>20. QED BY <1>4, <1>6, <1>8, <1>19 DEF Rejected

-----------------------------------------------------------------------------
(* Opening and deleting.                                                    *)

\* Of the requests in the queue only the first has been started.
LEMMA FrontOnly ==
    ASSUME NEW w \in Worlds, NEW M, QueueRight(w, M), NEW a \in w.begun, NEW b \in w.begun,
           a \in ToSet(w.queue), b \in ToSet(w.queue)
    PROVE  a = b /\ w.queue # <<>> /\ w.queue[1] = a
<1>1. PICK i \in DOMAIN w.queue : w.queue[i] = a BY DEF ToSet
<1>2. PICK j \in DOMAIN w.queue : w.queue[j] = b BY DEF ToSet
<1>3. i = 1 /\ j = 1 BY <1>1, <1>2 DEF QueueRight
<1>4. QED BY <1>1, <1>2, <1>3

\* The request's own connection is open, which only its answer may say.
Connected(w, u, r, P) ==
    /\ u \in Worlds /\ u.db = w.db /\ u.file = w.file /\ u.queue = w.queue
    /\ u.begun = w.begun /\ u.watchers = w.watchers /\ u.scheduled = w.scheduled
    /\ u.tx = w.tx /\ u.req = w.req /\ u.posts = w.posts
    /\ ScheduleRight(u, {}) /\ TxsRight(u) /\ CountsRight(u) /\ QueueRight(u, {})
    /\ TasksRight(u, {}, P)
    /\ \A s \in {"waiting", "success"} : DoorsRight([u EXCEPT !.req[r] = s], {})

LEMMA ConnectRight ==
    ASSUME NEW w, NEW P, Good(w, {}, {}, P), NEW r \in Opens, r \in w.begun, w.req[r] = "queued",
           NEW u, u = [w EXCEPT !.conns[r].open = TRUE, !.conns[r].version = w.db.version]
    PROVE  Connected(w, u, r, P)
<1>1. /\ w \in Worlds /\ w.conns \in [Opens -> Doors] /\ w.conns[r] \in Doors
      /\ w.db.version \in Nat /\ w.req \in [Requests -> ReqStates] /\ r \in Requests
  BY DEF Good, Worlds, Contents, Requests
<1>2. PICK d : d = [w.conns[r] EXCEPT !.open = TRUE, !.version = w.db.version] OBVIOUS
<1>3. /\ d \in Doors /\ d.open /\ d.closePending = w.conns[r].closePending
      /\ d.unfinished = w.conns[r].unfinished /\ d.version = w.db.version
  BY <1>1, <1>2 DEF Doors
<1>4. PICK z : z = [w.conns EXCEPT ![r] = d] OBVIOUS
<1>5. z \in [Opens -> Doors] /\ z[r] = d /\ \A o \in Opens : o # r => z[o] = w.conns[o]
  BY <1>1, <1>3, <1>4
<1>6. u = [w EXCEPT !.conns = z] BY <1>1, <1>2, <1>4 DEF Worlds
<1>7. /\ u \in Worlds /\ u.db = w.db /\ u.file = w.file /\ u.queue = w.queue
      /\ u.begun = w.begun /\ u.watchers = w.watchers /\ u.scheduled = w.scheduled
      /\ u.tx = w.tx /\ u.req = w.req /\ u.posts = w.posts /\ u.conns = z
  BY <1>1, <1>5, <1>6 DEF Worlds
<1>8. IdsIn(u) = IdsIn(w) /\ \A o : On(u, o) = On(w, o) BY <1>7 DEF IdsIn, On
<1>9. ScheduleRight(u, {}) BY <1>7, ScheduleKept DEF Good
<1>10. TxsRight(u) BY <1>7 DEF Good, TxsRight
<1>11. w.conns[r].closePending = FALSE BY <1>1 DEF Good, DoorsRight, Doors
<1>12. CountsRight(u)
  <2> SUFFICES ASSUME NEW o \in Opens
               PROVE  /\ z[o].unfinished = Cardinality(On(w, o))
                      /\ On(w, o) # {} => z[o].open /\ w.req[o] \notin {"unmade", "queued", "waiting"}
                      /\ z[o].closePending /\ On(w, o) = {} => ~z[o].open
    BY <1>7, <1>8 DEF CountsRight
  <2>1. /\ w.conns[o].unfinished = Cardinality(On(w, o))
        /\ On(w, o) # {} => w.conns[o].open /\ w.req[o] \notin {"unmade", "queued", "waiting"}
        /\ w.conns[o].closePending /\ On(w, o) = {} => ~w.conns[o].open
    BY DEF Good, CountsRight
  <2>2. CASE o = r BY <1>3, <1>5, <1>11, <2>1, <2>2
  <2>3. CASE o # r BY <1>5, <2>1, <2>3
  <2>4. QED BY <2>2, <2>3
<1>13. QueueRight(u, {}) BY <1>7 DEF Good, QueueRight
<1>14. TasksRight(u, {}, P)
  <2>1. TasksRight(w, {}, P) /\ w.posts \in Seq(Tasks) BY <1>1 DEF Good, Worlds
  <2>2. \A k \in P \cup ToSet(w.posts) : k \in Tasks BY <2>1 DEF TasksRight, ToSet
  <2>3. \A t \in Transactions : Clear(w, t) => Clear(u, t) BY <1>7 DEF Clear
  <2>4. \A k \in P \cup ToSet(w.posts) : k.id \notin {} /\ Due(w, k) => Due(u, k)
    BY <1>7, <2>2, <2>3, DueSame
  <2>5. QED BY <1>7, <2>1, <2>4, SamePosts
<1>15. ASSUME NEW s \in {"waiting", "success"} PROVE DoorsRight([u EXCEPT !.req[r] = s], {})
  <2>1. PICK a : a = [u EXCEPT !.req[r] = s] OBVIOUS
  <2>2. /\ a.conns = z /\ a.db = w.db /\ a.tx = w.tx /\ a.scheduled = w.scheduled
        /\ a.req[r] = s /\ \A o \in Requests : o # r => a.req[o] = w.req[o]
    BY <1>1, <1>7, <2>1 DEF Worlds
  <2>3. IdsIn(a) = IdsIn(w) BY <2>2 DEF IdsIn
  <2>4. DoorsRight(w, {}) /\ QueueRight(w, {}) BY DEF Good
  <2>5. ASSUME NEW o \in Opens, o \in IdsIn(w) PROVE FALSE
    <3>1. w.req[o] = "upgrading" /\ o \in Requests BY <2>4, <2>5 DEF DoorsRight, Requests
    <3>2. /\ o \in ToSet(w.queue) /\ o \in w.begun /\ r \in ToSet(w.queue)
      BY <1>1, <2>4, <3>1 DEF QueueRight
    <3>3. o = r BY <1>1, <2>4, <3>2, FrontOnly
    <3>4. QED BY <3>1, <3>3
  <2>6. ASSUME NEW o \in Opens
        PROVE  /\ a.req[o] \in {"unmade", "queued"} => ~z[o].open /\ ~z[o].closePending
               /\ a.req[o] = "waiting" => z[o].open /\ ~z[o].closePending
               /\ a.req[o] \in {"unmade", "queued", "waiting"} => w.tx[o].state = "unmade"
               /\ z[o].open /\ a.req[o] # "ended" => z[o].version = w.db.version
    <3>1. o \in Requests BY DEF Requests
    <3>2. CASE o = r BY <1>3, <1>5, <1>11, <2>2, <2>4, <3>2 DEF DoorsRight
    <3>3. CASE o # r BY <1>5, <2>2, <2>4, <3>1, <3>3 DEF DoorsRight
    <3>4. QED BY <3>2, <3>3
  <2>7. DoorsRight(a, {}) BY <2>2, <2>3, <2>5, <2>6 DEF DoorsRight
  <2>8. QED BY <2>1, <2>7
<1>16. QED BY <1>7, <1>9, <1>10, <1>12, <1>13, <1>14, <1>15 DEF Connected

\* A started request waits for the others to close.
LEMMA WaitRight ==
    ASSUME NEW w \in Worlds, NEW P, ScheduleRight(w, {}), TxsRight(w), CountsRight(w),
           QueueRight(w, {}), TasksRight(w, {}, P), NEW r \in Requests, r \in w.begun,
           w.req[r] = "queued", On(w, r) = {}, Task("begin", r) \notin P \cup ToSet(w.posts),
           DoorsRight([w EXCEPT !.req[r] = "waiting"], {}),
           NEW v, v = Post([w EXCEPT !.req[r] = "waiting"], "others", r)
    PROVE  Good(v, {}, {}, P) /\ Answered(w, v, r, "waiting")
<1>1. w.req \in [Requests -> ReqStates] /\ w.posts \in Seq(Tasks) BY DEF Worlds
<1>2. PICK u : u = [w EXCEPT !.req[r] = "waiting"] OBVIOUS
<1>3. /\ u \in Worlds /\ u.queue = w.queue /\ u.watchers = w.watchers /\ u.begun = w.begun
      /\ u.db = w.db /\ u.file = w.file /\ u.conns = w.conns /\ u.posts = w.posts
      /\ u.tx = w.tx /\ u.scheduled = w.scheduled /\ u.req = [w.req EXCEPT ![r] = "waiting"]
  <2>1. u = [w EXCEPT !.req = [w.req EXCEPT ![r] = "waiting"]] BY <1>2 DEF Worlds
  <2>2. [w.req EXCEPT ![r] = "waiting"] \in [Requests -> ReqStates] BY <1>1 DEF ReqStates
  <2>3. QED BY <2>1, <2>2 DEF Worlds
<1>4. u.req[r] = "waiting" /\ \A o \in Requests : o # r => u.req[o] = w.req[o] BY <1>1, <1>3
<1>5. IdsIn(u) = IdsIn(w) /\ \A o : On(u, o) = On(w, o) BY <1>3 DEF IdsIn, On
<1>6. ScheduleRight(u, {}) BY <1>3, ScheduleKept
<1>7. TxsRight(u) BY <1>3 DEF TxsRight
<1>8. CountsRight(u)
  <2>1. \A o \in Opens : o # r => u.req[o] = w.req[o] BY <1>4 DEF Requests
  <2>2. QED BY <1>3, <1>5, <2>1 DEF CountsRight
<1>9. QueueRight(u, {}) BY <1>3, <1>4 DEF QueueRight
<1>10. EndedRight(u, {}) BY <1>6 DEF EndedRight, ScheduleRight, Busy
<1>11. TasksRight(u, {}, P)
  <2>1. \A k \in P \cup ToSet(w.posts) : k \in Tasks BY <1>1 DEF TasksRight, ToSet
  <2>2. \A t : Clear(w, t) => Clear(u, t) BY <1>3 DEF Clear
  <2>3. ASSUME NEW k \in P \cup ToSet(w.posts), Due(w, k) PROVE Due(u, k)
    <3>1. k \in Tasks /\ k.kind \in TaskKinds BY <2>1 DEF Tasks
    <3>2. CASE k.kind \in {"start", "process", "commit"} BY <1>3, <2>2, <2>3, <3>2 DEF Due
    <3>3. CASE k.kind \notin {"start", "process", "commit"}
      <4>1. k.id = r => k.kind \notin {"begin"}
        <5>1. k = [kind |-> k.kind, id |-> k.id] BY <3>1 DEF Tasks
        <5>2. QED BY <5>1 DEF Task
      <4>2. k.id \in Opens => k.id \in Requests BY DEF Requests
      <4>3. k.kind # "aborted" => k.id \in Requests BY <2>3, <3>1, <3>3 DEF Due, TaskKinds, Requests
      <4>4. k.id = r => k.kind = "aborted" /\ k.id \notin Opens
        BY <2>3, <3>1, <3>3, <4>1, <4>3 DEF Due, TaskKinds
      <4>5. CASE k.kind = "aborted"
        <5>1. k.id \in Opens => u.req[k.id] = w.req[k.id] BY <1>4, <4>2, <4>4
        <5>2. QED BY <1>3, <2>3, <4>5, <5>1 DEF Due
      <4>6. CASE k.kind # "aborted"
        <5>1. u.req[k.id] = w.req[k.id] BY <1>4, <4>3, <4>4, <4>6
        <5>2. QED BY <1>3, <2>3, <3>1, <3>3, <4>6, <5>1 DEF Due, TaskKinds
      <4>7. QED BY <4>5, <4>6
    <3>4. QED BY <3>2, <3>3
  <2>4. QED BY <1>3, <2>3, SamePosts
<1>12. DoorsRight(u, {}) BY <1>2
<1>13. Good(u, {}, {}, P) BY <1>3, <1>6, <1>7, <1>8, <1>9, <1>10, <1>11, <1>12 DEF Good
<1>14. PICK k : k = Task("others", r) OBVIOUS
<1>15. k \in Tasks /\ k.kind = "others" /\ k.id = r BY <1>14 DEF Task, Tasks, TaskKinds, Names
<1>16. r \notin w.watchers BY DEF QueueRight
<1>17. Due(u, k) BY <1>3, <1>4, <1>15, <1>16 DEF Due
<1>18. k \notin P \cup ToSet(u.posts)
  <2>1. ~Due(w, k) BY <1>15 DEF Due
  <2>2. QED BY <1>3, <2>1 DEF TasksRight
<1>19. v = [u EXCEPT !.posts = Append(u.posts, k)] BY <1>2, <1>14 DEF Post
<1>20. /\ Good(v, {}, {}, P)
       /\ v.db = u.db /\ v.file = u.file /\ v.conns = u.conns /\ v.scheduled = u.scheduled
       /\ v.tx = u.tx /\ v.req = u.req
  <2>1. PICK a : a = u OBVIOUS
  <2>2. Good(a, {}, {}, P) /\ Due(a, k) /\ k \notin P \cup ToSet(a.posts) BY <1>13, <1>17, <1>18, <2>1
  <2>3. v = [a EXCEPT !.posts = Append(a.posts, k)] BY <1>19, <2>1
  <2>4. /\ Good(v, {}, {}, P)
        /\ v.db = a.db /\ v.file = a.file /\ v.conns = a.conns /\ v.scheduled = a.scheduled
        /\ v.tx = a.tx /\ v.req = a.req
    BY <1>15, <2>2, <2>3, FreshPost
  <2>5. QED BY <2>1, <2>4
<1>21. QED BY <1>3, <1>20 DEF Answered

\* run_open
Quiet(w, v) == v.db = w.db /\ v.tx = w.tx /\ v.scheduled = w.scheduled
Opened(w, u, v, r, wanted) ==
    /\ u = [w EXCEPT !.conns[r].open = TRUE, !.conns[r].version = w.db.version]
    /\ v = IF w.db.version > wanted THEN Settle(w, r, "error")
           ELSE IF w.db.version = wanted THEN Settle(u, r, "success")
           ELSE Post([u EXCEPT !.req[r] = "waiting"], "others", r)

LEMMA RunOpenRight ==
    ASSUME NEW w, NEW P, Good(w, {}, {}, P), NEW r \in Opens, r \in w.begun, w.req[r] = "queued",
           Task("begin", r) \notin P \cup ToSet(w.posts),
           NEW u, NEW v, NEW wanted, Opened(w, u, v, r, wanted)
    PROVE  Good(v, {}, {}, P) /\ Quiet(w, v)
<1>0. /\ u = [w EXCEPT !.conns[r].open = TRUE, !.conns[r].version = w.db.version]
      /\ v = IF w.db.version > wanted THEN Settle(w, r, "error")
             ELSE IF w.db.version = wanted THEN Settle(u, r, "success")
             ELSE Post([u EXCEPT !.req[r] = "waiting"], "others", r)
  BY DEF Opened
<1>1. r \in Requests /\ w \in Worlds /\ w.posts \in Seq(Tasks) /\ w.req \in [Requests -> ReqStates]
  BY DEF Requests, Good, Worlds
<1>2. /\ u \in Worlds /\ u.db = w.db /\ u.file = w.file /\ u.queue = w.queue
      /\ u.begun = w.begun /\ u.watchers = w.watchers /\ u.scheduled = w.scheduled
      /\ u.tx = w.tx /\ u.req = w.req /\ u.posts = w.posts
      /\ ScheduleRight(u, {}) /\ TxsRight(u) /\ CountsRight(u) /\ QueueRight(u, {})
      /\ TasksRight(u, {}, P)
      /\ \A s \in {"waiting", "success"} : DoorsRight([u EXCEPT !.req[r] = s], {})
  <2>1. Connected(w, u, r, P) BY <1>0, ConnectRight
  <2>2. QED BY <2>1 DEF Connected
<1>3. \A k \in P \cup ToSet(w.posts) : k.kind \in {"begin", "others", "done", "aborted"} => k.id # r
  <2> SUFFICES ASSUME NEW k \in P \cup ToSet(w.posts), k.id = r,
                      k.kind \in {"begin", "others", "done", "aborted"}
               PROVE  FALSE
    OBVIOUS
  <2>1. Due(w, k) /\ k \in Tasks BY <1>1 DEF Good, TasksRight, ToSet
  <2>2. k = [kind |-> k.kind, id |-> k.id] BY <2>1 DEF Tasks
  <2>3. k.kind # "begin" BY <2>2 DEF Task
  <2>4. QED BY <2>1, <2>3 DEF Due
<1>4. CASE w.db.version > wanted
  <2>1. v = Settle(w, r, "error") BY <1>0, <1>4
  <2>2. DoorsRight([w EXCEPT !.req[r] = "error"], {})
    <3>1. PICK a : a = [w EXCEPT !.req[r] = "error"] OBVIOUS
    <3>2. /\ a.conns = w.conns /\ a.db = w.db /\ a.tx = w.tx /\ a.scheduled = w.scheduled
          /\ a.req[r] = "error" /\ \A o \in Requests : o # r => a.req[o] = w.req[o]
      BY <1>1, <3>1 DEF Worlds
    <3>3. IdsIn(a) = IdsIn(w) BY <3>2 DEF IdsIn
    <3>4. \A o \in Opens : o \in Requests BY DEF Requests
    <3>5. DoorsRight(w, {}) BY DEF Good
    <3>6. r \notin IdsIn(w) BY <3>5 DEF DoorsRight
    <3>7. ASSUME NEW o \in Opens
          PROVE  /\ a.req[o] \in {"unmade", "queued"} => ~w.conns[o].open /\ ~w.conns[o].closePending
                 /\ a.req[o] = "waiting" => w.conns[o].open /\ ~w.conns[o].closePending
                 /\ a.req[o] \in {"unmade", "queued", "waiting"} => w.tx[o].state = "unmade"
                 /\ w.conns[o].open /\ a.req[o] # "ended" => w.conns[o].version = w.db.version
                 /\ o \in IdsIn(w) => /\ IdsIn(w) = {o} /\ a.req[o] = "upgrading"
                                      /\ \A b \in Opens : w.conns[b].open => b = o
      BY <3>2, <3>4, <3>5, <3>6 DEF DoorsRight
    <3>8. DoorsRight(a, {}) BY <3>2, <3>3, <3>7 DEF DoorsRight
    <3>9. QED BY <3>1, <3>8
  <2>3. Good(v, {}, {}, P) /\ Answered(w, v, r, "error")
    <3>1. PICK how : how = "error" OBVIOUS
    <3>2. how \in {"success", "error"} /\ v = Settle(w, r, how) BY <2>1, <3>1
    <3>3. DoorsRight([w EXCEPT !.req[r] = how], {}) BY <2>2, <3>1
    <3>4. Settleable(w, P, r, how) BY <1>1, <1>3, <3>2, <3>3 DEF Good, Settleable
    <3>5. Good(v, {}, {}, P) /\ Answered(w, v, r, how) BY <3>2, <3>4, SettleRight
    <3>6. QED BY <3>1, <3>5
  <2>4. QED BY <2>3 DEF Answered, Quiet
<1>5. CASE ~(w.db.version > wanted) /\ w.db.version = wanted
  <2>1. v = Settle(u, r, "success") BY <1>0, <1>5
  <2>2. DoorsRight([u EXCEPT !.req[r] = "success"], {}) BY <1>2
  <2>3. PICK how : how = "success" OBVIOUS
  <2>4. how \in {"success", "error"} /\ v = Settle(u, r, how) BY <2>1, <2>3
  <2>5. /\ u.req[r] \in {"queued", "waiting", "upgrading"}
        /\ \A k \in P \cup ToSet(u.posts) :
              k.kind \in {"begin", "others", "done", "aborted"} => k.id # r
    BY <1>2, <1>3
  <2>6. DoorsRight([u EXCEPT !.req[r] = how], {}) BY <2>2, <2>3
  <2>7. /\ u \in Worlds /\ ScheduleRight(u, {}) /\ TxsRight(u) /\ CountsRight(u)
        /\ QueueRight(u, {}) /\ TasksRight(u, {}, P)
    BY <1>2
  <2>8. r \in Requests /\ how \in {"success", "error"} /\ v = Settle(u, r, how) BY <1>1, <2>4
  <2>9. Settleable(u, P, r, how) BY <2>5, <2>6, <2>7, <2>8 DEF Settleable
  <2>10. Good(v, {}, {}, P) /\ Answered(u, v, r, how) BY <2>8, <2>9, SettleRight
  <2>11. QED BY <1>2, <2>10 DEF Answered, Quiet
<1>6. CASE ~(w.db.version > wanted) /\ w.db.version # wanted
  <2>1. v = Post([u EXCEPT !.req[r] = "waiting"], "others", r) BY <1>0, <1>6
  <2>2. On(u, r) = {}
    <3>1. On(w, r) = {} BY DEF Good, CountsRight
    <3>2. QED BY <1>2, <3>1 DEF On, IdsIn
  <2>3. DoorsRight([u EXCEPT !.req[r] = "waiting"], {}) BY <1>2
  <2>4. Good(v, {}, {}, P) /\ Answered(u, v, r, "waiting")
    BY <1>1, <1>2, <2>1, <2>2, <2>3, WaitRight
  <2>5. QED BY <1>2, <2>4 DEF Answered, Quiet
<1>7. QED BY <1>4, <1>5, <1>6

\* A request of a deletion moves no connection.
LEMMA DeleteDoors ==
    ASSUME NEW w \in Worlds, DoorsRight(w, {}), NEW r \in Deletes, NEW s, NEW a,
           a = [w EXCEPT !.req[r] = s]
    PROVE  DoorsRight(a, {})
<1>1. w.req \in [Requests -> ReqStates] BY DEF Worlds
<1>2. /\ a.conns = w.conns /\ a.db = w.db /\ a.tx = w.tx /\ a.scheduled = w.scheduled
      /\ \A o \in Requests : o # r => a.req[o] = w.req[o]
  BY <1>1 DEF Worlds
<1>3. IdsIn(a) = IdsIn(w) BY <1>2 DEF IdsIn
<1>4. \A o \in Opens : a.req[o] = w.req[o] BY <1>2, NamesAssumption DEF Requests
<1>5. QED BY <1>2, <1>3, <1>4 DEF DoorsRight

\* run_delete
LEMMA RunDeleteRight ==
    ASSUME NEW w, NEW P, Good(w, {}, {}, P), NEW r \in Deletes, r \in w.begun, w.req[r] = "queued",
           Task("begin", r) \notin P \cup ToSet(w.posts),
           NEW v, v = IF w.db.version = 0 THEN Settle(w, r, "success")
                      ELSE Post([w EXCEPT !.req[r] = "waiting"], "others", r)
    PROVE  Good(v, {}, {}, P) /\ v.db = w.db /\ v.tx = w.tx /\ v.scheduled = w.scheduled
<1>1. r \in Requests /\ w \in Worlds /\ w.posts \in Seq(Tasks) /\ w.req \in [Requests -> ReqStates]
  BY DEF Requests, Good, Worlds
<1>2. \A k \in P \cup ToSet(w.posts) : k.kind \in {"begin", "others", "done", "aborted"} => k.id # r
  <2> SUFFICES ASSUME NEW k \in P \cup ToSet(w.posts), k.id = r,
                      k.kind \in {"begin", "others", "done", "aborted"}
               PROVE  FALSE
    OBVIOUS
  <2>1. Due(w, k) /\ k \in Tasks BY <1>1 DEF Good, TasksRight, ToSet
  <2>2. k = [kind |-> k.kind, id |-> k.id] BY <2>1 DEF Tasks
  <2>3. k.kind # "begin" BY <2>2 DEF Task
  <2>4. r \notin Transactions BY NamesAssumption DEF Transactions, Requests
  <2>5. QED BY <2>1, <2>3, <2>4 DEF Due, Transactions
<1>3. DoorsRight(w, {}) BY DEF Good
<1>4. CASE w.db.version = 0
  <2>1. PICK how : how = "success" OBVIOUS
  <2>2. how \in {"success", "error"} /\ v = Settle(w, r, how) BY <1>4, <2>1
  <2>3. PICK a : a = [w EXCEPT !.req[r] = how] OBVIOUS
  <2>4. DoorsRight(a, {}) BY <1>1, <1>3, <2>3, DeleteDoors
  <2>5. DoorsRight([w EXCEPT !.req[r] = how], {}) BY <2>3, <2>4
  <2>6. /\ w \in Worlds /\ ScheduleRight(w, {}) /\ TxsRight(w) /\ CountsRight(w)
        /\ QueueRight(w, {}) /\ TasksRight(w, {}, P)
        /\ w.req[r] \in {"queued", "waiting", "upgrading"}
    BY DEF Good
  <2>7. Settleable(w, P, r, how) BY <1>1, <1>2, <2>2, <2>5, <2>6 DEF Settleable
  <2>8. Good(v, {}, {}, P) /\ Answered(w, v, r, how) BY <2>2, <2>7, SettleRight
  <2>9. QED BY <2>8 DEF Answered
<1>5. CASE w.db.version # 0
  <2>1. v = Post([w EXCEPT !.req[r] = "waiting"], "others", r) BY <1>5
  <2>2. On(w, r) = {}
    <3>1. \A t \in IdsIn(w) : w.tx[t].plan.connection \in Opens
      <4>1. IdsIn(w) \subseteq Transactions BY <1>1, IdsFinite
      <4>2. \A t \in IdsIn(w) : w.tx[t].state # "unmade"
        BY DEF Good, ScheduleRight, Busy
      <4>3. QED BY <4>1, <4>2 DEF Good, TxsRight, TxRight
    <3>2. QED BY <3>1, NamesAssumption DEF On
  <2>3. PICK a : a = [w EXCEPT !.req[r] = "waiting"] OBVIOUS
  <2>4. DoorsRight(a, {}) BY <1>1, <1>3, <2>3, DeleteDoors
  <2>5. DoorsRight([w EXCEPT !.req[r] = "waiting"], {}) BY <2>3, <2>4
  <2>6. Good(v, {}, {}, P) /\ Answered(w, v, r, "waiting")
    BY <1>1, <2>1, <2>2, <2>5, WaitRight DEF Good
  <2>7. QED BY <2>6 DEF Answered
<1>6. QED BY <1>4, <1>5

\* when_others_closed, the page told that it is blocked.
LEMMA WatchRight ==
    ASSUME NEW w, NEW P, Good(w, {}, {}, P), NEW r \in Requests, w.req[r] = "waiting",
           Task("others", r) \notin P \cup ToSet(w.posts),
           NEW v, v = [w EXCEPT !.watchers = @ \cup {r}]
    PROVE  Good(v, {}, {}, P) /\ v.db = w.db /\ v.tx = w.tx /\ v.scheduled = w.scheduled
<1>1. w \in Worlds /\ w.posts \in Seq(Tasks) /\ w.watchers \subseteq Requests BY DEF Good, Worlds
<1>2. /\ v \in Worlds /\ v.queue = w.queue /\ v.watchers = w.watchers \cup {r} /\ v.begun = w.begun
      /\ v.db = w.db /\ v.file = w.file /\ v.conns = w.conns /\ v.posts = w.posts
      /\ v.tx = w.tx /\ v.scheduled = w.scheduled /\ v.req = w.req
  BY <1>1 DEF Worlds
<1>3. /\ ScheduleRight(v, {}) /\ TxsRight(v) /\ CountsRight(v) /\ DoorsRight(v, {})
      /\ EndedRight(v, {}) /\ \A t : Clear(w, t) => Clear(v, t)
  BY <1>2, QueueApart DEF Good
<1>4. QueueRight(v, {}) BY <1>2 DEF Good, QueueRight
<1>5. TasksRight(v, {}, P)
  <2>1. TasksRight(w, {}, P) BY DEF Good
  <2>2. ASSUME NEW k \in P \cup ToSet(w.posts), Due(w, k) PROVE Due(v, k)
    <3>0. k \in Tasks BY <1>1, <2>1 DEF TasksRight, ToSet
    <3>1. k \in Tasks /\ k.kind \in TaskKinds BY <3>0 DEF Tasks
    <3>2. k.kind = "others" => k.id # r
      <4>1. k = [kind |-> k.kind, id |-> k.id] BY <3>1 DEF Tasks
      <4>2. QED BY <4>1 DEF Task
    <3>3. QED BY <1>2, <1>3, <2>2, <3>1, <3>2 DEF Due, TaskKinds
  <2>3. QED BY <1>2, <2>1, <2>2, SamePosts
<1>6. QED BY <1>2, <1>3, <1>4, <1>5 DEF Good

\* Once no other connection is open, nobody works in the database.
LEMMA NobodyIn ==
    ASSUME NEW w, NEW P, Good(w, {}, {}, P), NEW r \in Requests, w.req[r] = "waiting",
           ~OthersOpen(w, Connection(r))
    PROVE  IdsIn(w) = {} /\ \A o \in Opens : w.conns[o].open => o = r
<1>1. ASSUME NEW o \in Opens, w.conns[o].open PROVE o = r
  BY <1>1, NamesAssumption DEF OthersOpen, Connection, Requests
<1>2. ASSUME NEW t \in IdsIn(w) PROVE FALSE
  <2>1. t \in Transactions /\ w.tx[t].state \in Busy BY DEF Good, ScheduleRight
  <2>2. w.tx[t].plan.connection \in Opens BY <2>1 DEF Good, TxsRight, TxRight, Busy
  <2>3. PICK c \in Opens : c = w.tx[t].plan.connection BY <2>2
  <2>4. t \in On(w, c) BY <1>2, <2>3 DEF On
  <2>5. w.conns[c].open /\ w.req[c] # "waiting" BY <2>4 DEF Good, CountsRight
  <2>6. QED BY <1>1, <2>5
<1>3. QED BY <1>1, <1>2

\* erase
LEMMA EraseRight ==
    ASSUME NEW w, NEW P, Good(w, {}, {}, P), NEW r \in Deletes, w.req[r] = "waiting",
           ~OthersOpen(w, Connection(r)), Task("others", r) \notin P \cup ToSet(w.posts),
           NEW b, b = [w EXCEPT !.watchers = @ \ {r}], NEW v, v = Settle(Erased(b), r, "success")
    PROVE  Good(v, {}, {}, P) /\ v.db = Nothing /\ v.tx = w.tx /\ IdsIn(w) = {} /\ IdsIn(v) = {}
<1>1. /\ r \in Requests /\ w \in Worlds /\ w.posts \in Seq(Tasks) /\ w.req \in [Requests -> ReqStates]
      /\ r \notin Opens /\ r \notin Transactions
  BY NamesAssumption DEF Requests, Transactions, Good, Worlds
<1>2. IdsIn(w) = {} /\ \A o \in Opens : ~w.conns[o].open
  <2>1. IdsIn(w) = {} /\ \A o \in Opens : w.conns[o].open => o = r BY <1>1, NobodyIn
  <2>2. QED BY <1>1, <2>1
<1>3. Nothing \in Contents BY DEF Nothing, Absent, Contents, Stamps
<1>4. PICK e : e = Erased(w) OBVIOUS
<1>5. /\ e \in Worlds /\ e.db = Nothing /\ e.queue = w.queue /\ e.begun = w.begun
      /\ e.watchers = w.watchers /\ e.scheduled = w.scheduled /\ e.conns = w.conns
      /\ e.tx = w.tx /\ e.req = w.req /\ e.posts = w.posts
  BY <1>1, <1>3, <1>4 DEF Erased, Worlds
<1>6. v = Settle(e, r, "success")
  <2>1. PICK f : f = Erased(b) OBVIOUS
  <2>2. f = [e EXCEPT !.watchers = w.watchers \ {r}] BY <1>1, <1>4, <2>1 DEF Erased, Worlds
  <2>3. PICK g, h : g = [e EXCEPT !.req[r] = "success"] /\ h = [f EXCEPT !.req[r] = "success"] OBVIOUS
  <2>4. h = [g EXCEPT !.watchers = w.watchers \ {r}] BY <1>5, <2>2, <2>3 DEF Worlds
  <2>5. g.watchers = w.watchers /\ g.queue = w.queue BY <1>5, <2>3 DEF Worlds
  <2>6. PICK q : q = Only(w.queue, ToSet(w.queue) \ {r}) OBVIOUS
  <2>7. [g EXCEPT !.queue = Only(@, ToSet(@) \ {r}), !.watchers = @ \ {r}]
          = [g EXCEPT !.queue = q, !.watchers = w.watchers \ {r}]
    BY <1>5, <2>3, <2>5, <2>6 DEF Worlds
  <2>8. h.queue = w.queue /\ h.watchers = w.watchers \ {r} BY <1>5, <2>3, <2>4 DEF Worlds
  <2>9. [h EXCEPT !.queue = Only(@, ToSet(@) \ {r}), !.watchers = @ \ {r}]
          = [h EXCEPT !.queue = q, !.watchers = w.watchers \ {r}]
    <3>1. (w.watchers \ {r}) \ {r} = w.watchers \ {r} OBVIOUS
    <3>2. QED BY <2>6, <2>8, <3>1
  <2>10. [g EXCEPT !.queue = q, !.watchers = w.watchers \ {r}]
          = [h EXCEPT !.queue = q, !.watchers = w.watchers \ {r}]
    BY <1>5, <2>3, <2>4 DEF Worlds
  <2>11. Dequeue(g, r) = Dequeue(h, r) BY <2>7, <2>9, <2>10 DEF Dequeue
  <2>12. QED BY <2>1, <2>3, <2>11 DEF Settle
<1>7. IdsIn(e) = {} /\ \A o : On(e, o) = On(w, o) BY <1>2, <1>5 DEF IdsIn, On
<1>8. /\ ScheduleRight(e, {}) /\ TxsRight(e) /\ CountsRight(e) /\ QueueRight(e, {})
  <2>1. IdsIn(e) = IdsIn(w) BY <1>2, <1>7
  <2>2. ScheduleRight(e, {}) BY <1>5, ScheduleKept DEF Good
  <2>3. TxsRight(e) BY <1>5 DEF Good, TxsRight
  <2>4. CountsRight(e) BY <1>5, <1>7 DEF Good, CountsRight
  <2>5. QueueRight(e, {}) BY <1>5 DEF Good, QueueRight
  <2>6. QED BY <2>2, <2>3, <2>4, <2>5
<1>9. TasksRight(e, {}, P)
  <2>1. TasksRight(w, {}, P) BY DEF Good
  <2>2. \A k \in P \cup ToSet(w.posts) : k \in Tasks BY <1>1, <2>1 DEF TasksRight, ToSet
  <2>3. \A t \in Transactions : Clear(w, t) => Clear(e, t) BY <1>5 DEF Clear
  <2>4. \A k \in P \cup ToSet(w.posts) : k.id \notin {} /\ Due(w, k) => Due(e, k)
    BY <1>5, <2>2, <2>3, DueSame
  <2>5. QED BY <1>5, <2>1, <2>4, SamePosts
<1>10. \A k \in P \cup ToSet(e.posts) : k.kind \in {"begin", "others", "done", "aborted"} => k.id # r
  <2> SUFFICES ASSUME NEW k \in P \cup ToSet(w.posts), k.id = r,
                      k.kind \in {"begin", "others", "done", "aborted"}
               PROVE  FALSE
    BY <1>5
  <2>1. Due(w, k) /\ k \in Tasks BY <1>1 DEF Good, TasksRight, ToSet
  <2>2. k = [kind |-> k.kind, id |-> k.id] BY <2>1 DEF Tasks
  <2>3. k.kind # "others" BY <2>2 DEF Task
  <2>4. QED BY <1>1, <2>1, <2>3 DEF Due
<1>11. PICK how : how = "success" OBVIOUS
<1>12. DoorsRight([e EXCEPT !.req[r] = how], {})
  <2>1. PICK a : a = [e EXCEPT !.req[r] = how] OBVIOUS
  <2>2. DoorsRight(e, {})
    <3>1. DoorsRight(w, {}) BY DEF Good
    <3>2. QED BY <1>2, <1>5, <1>7, <3>1 DEF DoorsRight
  <2>3. DoorsRight(a, {}) BY <1>5, <2>1, <2>2, DeleteDoors
  <2>4. QED BY <2>1, <2>3
<1>13. e.req[r] \in {"queued", "waiting", "upgrading"} /\ how \in {"success", "error"}
       /\ v = Settle(e, r, how) /\ e \in Worlds
  BY <1>5, <1>6, <1>11
<1>14. Good(v, {}, {}, P) /\ Answered(e, v, r, how)
  <2>1. Settleable(e, P, r, how) BY <1>1, <1>8, <1>9, <1>10, <1>12, <1>13 DEF Settleable
  <2>2. v = Settle(e, r, how) BY <1>13
  <2>3. QED BY <2>1, <2>2, SettleRight
<1>15. v.scheduled = w.scheduled BY <1>5, <1>14 DEF Answered
<1>16. IdsIn(v) = IdsIn(w) BY <1>15 DEF IdsIn
<1>17. QED BY <1>2, <1>5, <1>14, <1>16 DEF Answered

\* run_upgrade: the database is of the new version, and the upgrade alone in it.
Upgraded(w, v, r) ==
    /\ IdsIn(w) = {} /\ w.tx[r].state = "unmade" /\ \A u \in Transactions \ {r} : v.tx[u] = w.tx[u]
    /\ v.tx[r].state # "Active"
    /\ \A s \in Stores : v.db.stores[s] # w.db.stores[s] => v.db.stores[s][1] = r
    /\ \/ IdsIn(v) = {r} /\ v.tx[r].saved = w.db /\ v.tx[r].state \in Busy
       \/ IdsIn(v) = {} /\ v.db = w.db /\ v.tx[r].state = "Finished"

LEMMA UpgradeRight ==
    ASSUME NEW w, NEW P, Good(w, {}, {}, P), NEW r \in Opens, w.req[r] = "waiting",
           ~OthersOpen(w, Connection(r)), Task("others", r) \notin P \cup ToSet(w.posts),
           NEW b, b = [w EXCEPT !.watchers = @ \ {r}],
           NEW script \in Scripts([mode |-> "versionchange", scope |-> Stores], MaxOps[r]),
           NEW v, v = RunUpgrade(b, r, script)
    PROVE  Good(v, {}, {}, P) /\ Upgraded(w, v, r)
<1>1. /\ r \in Requests /\ r \in Transactions /\ w \in Worlds /\ w.posts \in Seq(Tasks)
      /\ w.req \in [Requests -> ReqStates] /\ w.conns \in [Opens -> Doors] /\ w.db \in Contents
      /\ w.tx \in [Transactions -> Txs] /\ w.watchers \subseteq Requests
  BY DEF Requests, Transactions, Good, Worlds
<1>2. IdsIn(w) = {} /\ \A o \in Opens : w.conns[o].open => o = r BY <1>1, NobodyIn
<1>3. PICK n : n = VersionWanted(b, r) OBVIOUS
<1>4. n \in Nat
  <2>1. b.db = w.db BY <1>1 DEF Worlds
  <2>2. QED BY <1>1, <1>3, <2>1, RealmsAssumption DEF VersionWanted, Contents
<1>5. PICK d, e : d = [w.db EXCEPT !.version = n] /\ e = [w.conns[r] EXCEPT !.version = n] OBVIOUS
<1>6. d \in Contents /\ d.version = n BY <1>1, <1>4, <1>5 DEF Contents
<1>7. /\ e \in Doors /\ e.open = w.conns[r].open /\ e.closePending = w.conns[r].closePending
      /\ e.unfinished = w.conns[r].unfinished /\ e.version = n
  <2>1. w.conns[r] \in Doors BY <1>1
  <2>2. QED BY <1>4, <1>5, <2>1 DEF Doors
<1>8. PICK z, y : z = [w.conns EXCEPT ![r] = e] /\ y = [w.req EXCEPT ![r] = "upgrading"] OBVIOUS
<1>9. z \in [Opens -> Doors] /\ z[r] = e /\ \A o \in Opens : o # r => z[o] = w.conns[o]
  BY <1>1, <1>7, <1>8
<1>10. /\ y \in [Requests -> ReqStates] /\ y[r] = "upgrading"
       /\ \A o \in Requests : o # r => y[o] = w.req[o]
  BY <1>1, <1>8 DEF ReqStates
<1>11. PICK u : u = [w EXCEPT !.watchers = w.watchers \ {r}, !.db = d, !.conns = z, !.req = y]
  OBVIOUS
<1>12. /\ u \in Worlds /\ u.db = d /\ u.conns = z /\ u.req = y /\ u.watchers = w.watchers \ {r}
       /\ u.file = w.file /\ u.queue = w.queue /\ u.begun = w.begun /\ u.scheduled = w.scheduled
       /\ u.tx = w.tx /\ u.posts = w.posts
  BY <1>1, <1>6, <1>9, <1>10, <1>11 DEF Worlds
<1>13. IdsIn(u) = {} /\ \A o : On(u, o) = {} /\ On(w, o) = {} BY <1>2, <1>12 DEF IdsIn, On
<1>14. Good(u, {}, {}, P)
  <2>1. ScheduleRight(u, {})
    <3>1. IdsIn(u) = IdsIn(w) BY <1>2, <1>13
    <3>2. QED BY <1>12, <3>1 DEF Good, ScheduleRight
  <2>2. TxsRight(u) BY <1>12 DEF Good, TxsRight
  <2>3. CountsRight(u)
    <3> SUFFICES ASSUME NEW o \in Opens
                 PROVE  /\ z[o].unfinished = Cardinality(On(u, o))
                        /\ z[o].closePending => ~z[o].open
      BY <1>12, <1>13 DEF CountsRight
    <3>1. /\ w.conns[o].unfinished = Cardinality(On(w, o))
          /\ w.conns[o].closePending => ~w.conns[o].open
      BY <1>13 DEF Good, CountsRight
    <3>2. CASE o = r BY <1>7, <1>9, <1>13, <3>1, <3>2
    <3>3. CASE o # r BY <1>9, <1>13, <3>1, <3>3
    <3>4. QED BY <3>2, <3>3
  <2>4. QueueRight(u, {})
    <3>1. QueueRight(w, {}) BY DEF Good
    <3>2. IsInjective(u.queue) /\ \A i \in DOMAIN u.queue : u.queue[i] \in u.begun => i = 1
      BY <1>12, <3>1 DEF QueueRight
    <3>3. ASSUME NEW o \in Requests
          PROVE  /\ o \in ToSet(u.queue) => u.req[o] \in {"queued", "waiting", "upgrading"}
                 /\ u.req[o] \in {"queued", "waiting", "upgrading"} => o \in ToSet(u.queue)
                 /\ u.req[o] \in {"waiting", "upgrading"} => o \in u.begun
                 /\ u.req[o] = "unmade" => o \notin u.begun
      <4>1. CASE o = r BY <1>1, <1>10, <1>12, <3>1, <4>1 DEF QueueRight
      <4>2. CASE o # r BY <1>10, <1>12, <3>1, <4>2 DEF QueueRight
      <4>3. QED BY <4>1, <4>2
    <3>4. \A o \in u.watchers : o \in ToSet(u.queue) /\ o \in u.begun /\ u.req[o] = "waiting"
      BY <1>1, <1>10, <1>12, <3>1 DEF QueueRight
    <3>5. QED BY <3>2, <3>3, <3>4 DEF QueueRight
  <2>5. DoorsRight(u, {})
    <3> SUFFICES ASSUME NEW o \in Opens
                 PROVE  /\ y[o] \in {"unmade", "queued"} => ~z[o].open /\ ~z[o].closePending
                        /\ y[o] = "waiting" => z[o].open /\ ~z[o].closePending
                        /\ y[o] \in {"unmade", "queued", "waiting"} => w.tx[o].state = "unmade"
                        /\ z[o].open /\ y[o] # "ended" => z[o].version = n
      BY <1>6, <1>12, <1>13 DEF DoorsRight
    <3>1. CASE o = r BY <1>7, <1>9, <1>10, <3>1
    <3>2. CASE o # r
      <4>1. z[o] = w.conns[o] /\ y[o] = w.req[o] /\ ~w.conns[o].open
        BY <1>2, <1>9, <1>10, <3>2 DEF Requests
      <4>2. DoorsRight(w, {}) BY DEF Good
      <4>3. QED BY <4>1, <4>2 DEF DoorsRight
    <3>3. QED BY <3>1, <3>2
  <2>6. EndedRight(u, {}) BY <1>13 DEF EndedRight
  <2>7. TasksRight(u, {}, P)
    <3>1. TasksRight(w, {}, P) BY DEF Good
    <3>2. \A t : Clear(w, t) => Clear(u, t) BY <1>12 DEF Clear
    <3>3. ASSUME NEW k \in P \cup ToSet(w.posts), Due(w, k) PROVE Due(u, k)
      <4>0. k \in Tasks BY <1>1, <3>1 DEF TasksRight, ToSet
      <4>1. k.kind \in TaskKinds /\ k = [kind |-> k.kind, id |-> k.id] BY <4>0 DEF Tasks
      <4>2. CASE k.kind \in {"start", "process", "commit"} BY <1>12, <3>2, <3>3, <4>2 DEF Due
      <4>3. CASE k.kind \in {"begin", "others", "done"}
        <5>1. k.id # r /\ k.id \in Requests
          <6>1. k.id = r => k.kind # "others" BY <4>1 DEF Task
          <6>2. QED BY <3>3, <4>3, <6>1 DEF Due, Requests
        <5>2. QED BY <1>10, <1>12, <3>3, <4>3, <5>1 DEF Due
      <4>4. CASE k.kind = "aborted"
        <5>1. k.id \in Opens => k.id \in Requests BY DEF Requests
        <5>2. QED BY <1>10, <1>12, <3>3, <4>4, <5>1 DEF Due
      <4>5. CASE k.kind = "recheck" BY <1>10, <1>12, <3>3, <4>5 DEF Due
      <4>6. QED BY <4>1, <4>2, <4>3, <4>4, <4>5 DEF TaskKinds
    <3>4. QED BY <1>12, <3>1, <3>3, SamePosts
  <2>8. QED BY <1>12, <2>1, <2>2, <2>3, <2>4, <2>5, <2>6, <2>7, Zenon DEF Good
<1>15. PICK plan : plan = [mode |-> "versionchange", scope |-> Stores, connection |-> r] OBVIOUS
<1>16. PICK it : it = [NewTx EXCEPT !.state = "Inactive", !.started = TRUE, !.saved = w.db, !.plan = plan]
  OBVIOUS
<1>17. /\ it \in Txs /\ it.state = "Inactive" /\ it.started /\ it.saved = w.db /\ it.plan = plan
       /\ it.queue = <<>> /\ it.undo = <<>> /\ it.commitQueued = FALSE
  <2>1. <<>> \in Seq(Placed) /\ <<>> \in Seq(UndoSteps) OBVIOUS
  <2>2. plan \in Plans BY <1>15 DEF Plans, Modes
  <2>3. QED BY <1>1, <1>16, <2>1, <2>2 DEF NewTx, Txs, TxStates, Busy
<1>18. MayJoin(u, r, it)
  <2>1. w.tx[r].state = "unmade" /\ w.conns[r].open BY DEF Good, DoorsRight
  <2>2. TxRight(it, r) BY <1>15, <1>17 DEF TxRight, Modes
  <2>3. \A o \in Opens : z[o].open => o = r BY <1>2, <1>9
  <2>4. z[r].open /\ y[r] = "upgrading" BY <1>7, <1>9, <1>10, <2>1
  <2>5. plan.connection = r BY <1>15
  <2>6. QED BY <1>12, <1>13, <1>17, <2>1, <2>2, <2>3, <2>4, <2>5 DEF MayJoin, Busy
<1>19. PICK j : j = Schedule([u EXCEPT !.tx = [u.tx EXCEPT ![r] = it]], r) OBVIOUS
<1>20. Good(j, {}, {}, P) /\ Joined(u, j, r, it) BY <1>1, <1>14, <1>17, <1>18, <1>19, JoinRight
<1>21. PICK a : a = RunScript(j, r, script) OBVIOUS
<1>22. v = PumpTx(a, r)
  <2>1. PICK m : m = [b EXCEPT !.tx[r] = it, !.db.version = n, !.conns[r].version = n, !.req[r] = "upgrading"]
    OBVIOUS
  <2>2. PICK p : p = [w.tx EXCEPT ![r] = it] OBVIOUS
  <2>3. [u EXCEPT !.tx = [u.tx EXCEPT ![r] = it]]
          = [w EXCEPT !.watchers = w.watchers \ {r}, !.db = d, !.conns = z, !.req = y, !.tx = p]
    BY <1>1, <1>11, <1>12, <2>2 DEF Worlds
  <2>4. b.tx = w.tx /\ b.db = w.db /\ b.conns = w.conns /\ b.req = w.req BY <1>1 DEF Worlds
  <2>5. m = [b EXCEPT !.tx = p, !.db = d, !.conns = z, !.req = y]
    BY <1>1, <1>5, <1>8, <2>1, <2>2, <2>4 DEF Worlds
  <2>6. [b EXCEPT !.tx = p, !.db = d, !.conns = z, !.req = y]
          = [w EXCEPT !.watchers = w.watchers \ {r}, !.db = d, !.conns = z, !.req = y, !.tx = p]
    BY <1>1 DEF Worlds
  <2>7. j = Schedule(m, r) BY <1>19, <2>3, <2>5, <2>6
  <2>8. b.db = w.db BY <2>4
  <2>9. QED BY <1>3, <1>15, <1>16, <1>21, <2>1, <2>7, <2>8 DEF RunUpgrade
<1>23. j.tx[r] = it /\ IdsIn(j) = {r} /\ \A o \in Transactions \ {r} : j.tx[o] = w.tx[o]
  BY <1>1, <1>12, <1>13, <1>20 DEF Joined
<1>24. Good(a, {}, {}, P) /\ Acted(j, a, r)
  <2>1. PICK most : most = MaxOps[r] OBVIOUS
  <2>2. most \in Int BY <1>1, <2>1, BoundsAssumption
  <2>3. PICK old : old = [mode |-> "versionchange", scope |-> Stores] OBVIOUS
  <2>4. Operations(old) = Operations(plan) BY <1>15, <2>3 DEF Operations
  <2>5. Scripts(old, most) = Scripts(plan, most) BY <2>4 DEF Scripts
  <2>6. script \in Scripts(plan, most) BY <2>1, <2>3, <2>5
  <2>7. script \in Scripts(j.tx[r].plan, most) /\ j.tx[r].state \in {"Inactive", "Active"}
    BY <1>17, <1>23, <2>6
  <2>8. QED BY <1>1, <1>20, <1>21, <2>2, <2>7, RunScriptRight
<1>25. a.tx[r].state # "ended" BY <1>17, <1>23, <1>24 DEF Acted, Worked, Scrapped, Busy
<1>26. Good(v, {}, {}, P) /\ Acted(j, v, r) BY <1>1, <1>22, <1>24, <1>25, PumpActed
<1>27. Upgraded(w, v, r)
  <2>1. w.tx[r].state = "unmade" BY DEF Good, DoorsRight
  <2>2. CASE Worked(j, v, r)
    <3>1. v.scheduled = j.scheduled /\ v.tx[r].saved = w.db /\ v.tx[r].state \in Busy
          /\ \A o \in Transactions \ {r} : v.tx[o] = j.tx[o]
      BY <1>17, <1>23, <2>2 DEF Worked, Busy
    <3>2. IdsIn(v) = {r} BY <1>23, <3>1 DEF IdsIn
    <3>3. j.db.stores = w.db.stores
      <4>1. j.db = d BY <1>1, <1>12, <1>20 DEF Joined
      <4>2. QED BY <1>1, <1>5, <4>1 DEF Contents
    <3>4. ASSUME NEW s \in Stores, v.db.stores[s] # w.db.stores[s] PROVE v.db.stores[s][1] = r
      <4>1. v.db.stores[s] # j.db.stores[s] BY <3>3, <3>4
      <4>2. QED BY <2>2, <4>1 DEF Worked
    <3>5. QED BY <1>2, <1>23, <1>26, <2>1, <3>1, <3>2, <3>4 DEF Upgraded, Acted
  <2>3. CASE Scrapped(j, v, r)
    <3>1. IdsIn(v) = {} /\ v.tx[r].state = "Finished" /\ v.db = Before(j, r)
          /\ \A o \in Transactions \ {r} : v.tx[o] = j.tx[o]
      BY <1>23, <2>3 DEF Scrapped
    <3>2. Before(j, r) = w.db BY <1>15, <1>17, <1>23 DEF Before
    <3>3. QED BY <1>2, <1>23, <1>26, <2>1, <3>1, <3>2 DEF Upgraded, Acted
  <2>4. QED BY <1>26, <2>2, <2>3 DEF Acted
<1>28. QED BY <1>26, <1>27

-----------------------------------------------------------------------------
(* Starting a transaction, making one, and the end of an upgrade.           *)

\* on_start: the transaction's realm hears that it is started.
Told(w, u, t) ==
    /\ u.db = w.db /\ u.file = w.file /\ u.scheduled = w.scheduled /\ u.conns = w.conns
    /\ u.queue = w.queue /\ u.begun = w.begun /\ u.watchers = w.watchers
    /\ u.req = w.req /\ u.posts = w.posts /\ u.tx[t] = [w.tx[t] EXCEPT !.started = TRUE]
    /\ \A a \in Transactions \ {t} : u.tx[a] = w.tx[a]

LEMMA ToldRight ==
    ASSUME NEW w, NEW P, Good(w, {}, {}, P), NEW t \in Transactions, w.tx[t].state # "unmade",
           Clear(w, t), NEW u, u = [w EXCEPT !.tx[t].started = TRUE]
    PROVE  Good(u, {}, {}, P) /\ Told(w, u, t)
<1>1. PICK it : it = w.tx[t] OBVIOUS
<1>2. /\ w.tx \in [Transactions -> Txs] /\ it \in Txs /\ TxRight(it, t) /\ w \in Worlds
      /\ w.posts \in Seq(Tasks) /\ \A k \in P \cup ToSet(w.posts) : k \in Tasks
  BY <1>1, TxFacts
<1>3. PICK new : new = [it EXCEPT !.started = TRUE] OBVIOUS
<1>4. /\ new \in Txs /\ new.plan = it.plan /\ new.started /\ new.saved = it.saved
      /\ new.undo = it.undo /\ new.state = it.state /\ new.queue = it.queue
      /\ new.commitQueued = it.commitQueued
  BY <1>2, <1>3 DEF Txs
<1>5. PICK y : y = [w.tx EXCEPT ![t] = new] OBVIOUS
<1>6. y \in [Transactions -> Txs] /\ y[t] = new /\ \A a \in Transactions : a # t => y[a] = w.tx[a]
  BY <1>2, <1>4, <1>5
<1>7. u = [w EXCEPT !.tx = y] BY <1>1, <1>2, <1>3, <1>5 DEF Worlds
<1>8. /\ u \in Worlds /\ u.tx = y /\ u.conns = w.conns /\ u.db = w.db /\ u.posts = w.posts
      /\ u.queue = w.queue /\ u.begun = w.begun /\ u.watchers = w.watchers
      /\ u.scheduled = w.scheduled /\ u.req = w.req /\ u.file = w.file
  BY <1>2, <1>6, <1>7 DEF Worlds
<1>9. IdsIn(u) = IdsIn(w) /\ IdsIn(w) \subseteq Transactions BY <1>2, <1>8, IdsFinite DEF IdsIn
<1>10. \A a \in Transactions : y[a].plan = w.tx[a].plan /\ y[a].state = w.tx[a].state
  BY <1>1, <1>4, <1>6
<1>11. ScheduleRight(u, {})
  <2>1. ScheduleRight(w, {}) BY DEF Good
  <2>2. \A i \in DOMAIN w.scheduled : w.scheduled[i].id \in Transactions BY <1>9 DEF IdsIn
  <2>3. ASSUME NEW i \in DOMAIN w.scheduled
        PROVE  /\ w.scheduled[i].mode = y[w.scheduled[i].id].plan.mode
               /\ w.scheduled[i].scope = y[w.scheduled[i].id].plan.scope
               /\ w.scheduled[i].connection = y[w.scheduled[i].id].plan.connection
               /\ w.scheduled[i].started \/ y[w.scheduled[i].id].started => ~Waits(w.scheduled, i)
    <3>1. CASE w.scheduled[i].id = t
      <4>1. ~Waits(w.scheduled, i) BY <3>1 DEF Clear
      <4>2. QED BY <1>10, <2>1, <2>2, <4>1 DEF ScheduleRight
    <3>2. CASE w.scheduled[i].id # t
      <4>1. y[w.scheduled[i].id] = w.tx[w.scheduled[i].id] BY <1>6, <2>2, <3>2
      <4>2. QED BY <2>1, <4>1 DEF ScheduleRight
    <3>3. QED BY <3>1, <3>2
  <2>4. IdsIn(u) = {a \in Transactions : u.tx[a].state \in Busy} \cup {}
    <3>1. IdsIn(w) = {a \in Transactions : w.tx[a].state \in Busy} \cup {}
      BY <2>1 DEF ScheduleRight
    <3>2. QED BY <1>8, <1>9, <1>10, <3>1
  <2>5. \A i, j \in DOMAIN u.scheduled : u.scheduled[i].id = u.scheduled[j].id => i = j
    BY <1>8, <2>1 DEF ScheduleRight
  <2>6. \A i \in DOMAIN u.scheduled : LET e == u.scheduled[i] IN
         /\ e.mode = u.tx[e.id].plan.mode /\ e.scope = u.tx[e.id].plan.scope
         /\ e.connection = u.tx[e.id].plan.connection
         /\ e.started \/ u.tx[e.id].started => ~Waits(u.scheduled, i)
    <3> TAKE i \in DOMAIN u.scheduled
    <3>1. u.scheduled = w.scheduled /\ u.tx = y BY <1>8
    <3>2. PICK e : e = w.scheduled[i] OBVIOUS
    <3>3. /\ e.mode = y[e.id].plan.mode /\ e.scope = y[e.id].plan.scope
          /\ e.connection = y[e.id].plan.connection
          /\ e.started \/ y[e.id].started => ~Waits(w.scheduled, i)
      BY <2>3, <3>1, <3>2
    <3>4. QED BY <3>1, <3>2, <3>3
  <2>7. QED BY <2>4, <2>5, <2>6 DEF ScheduleRight
<1>12. TxsRight(u)
  <2>1. TxRight(new, t) BY <1>1, <1>2, <1>4 DEF TxRight
  <2>2. \A a \in Transactions : TxRight(y[a], a) BY <1>6, <2>1 DEF Good, TxsRight
  <2>3. QED BY <1>8, <2>2 DEF TxsRight
<1>13. \A o : On(u, o) = On(w, o) BY <1>8, <1>9, <1>10 DEF On
<1>14. CountsRight(u) BY <1>8, <1>13 DEF Good, CountsRight
<1>15. QueueRight(u, {}) BY <1>8 DEF Good, QueueRight
<1>16. DoorsRight(u, {})
  <2>1. \A o \in Opens : y[o].state = w.tx[o].state BY <1>10 DEF Transactions
  <2>2. DoorsRight(w, {}) BY DEF Good
  <2>3. u.conns = w.conns /\ u.db = w.db /\ u.req = w.req /\ u.tx = y BY <1>8
  <2>4. \A o \in Opens :
         /\ u.req[o] \in {"unmade", "queued"} => ~u.conns[o].open /\ ~u.conns[o].closePending
         /\ u.req[o] = "waiting" => u.conns[o].open /\ ~u.conns[o].closePending
         /\ u.conns[o].open /\ u.req[o] # "ended" => u.conns[o].version = u.db.version
    BY <2>2, <2>3 DEF DoorsRight
  <2>5. \A o \in Opens : u.req[o] \in {"unmade", "queued", "waiting"} => u.tx[o].state = "unmade"
    BY <2>1, <2>2, <2>3 DEF DoorsRight
  <2>6. \A o \in Opens : o \in IdsIn(u) =>
                        /\ IdsIn(u) = {o} /\ (o \in {} \/ u.req[o] = "upgrading")
                        /\ \A c \in Opens : u.conns[c].open => c = o
    BY <1>9, <2>2, <2>3 DEF DoorsRight
  <2>7. QED BY <2>4, <2>5, <2>6 DEF DoorsRight
<1>17. EndedRight(u, {}) BY <1>8, <1>9, <1>10 DEF Good, EndedRight
<1>18. TasksRight(u, {}, P)
  <2>1. TasksRight(w, {}, P) BY DEF Good
  <2>2. ASSUME NEW k \in P \cup ToSet(w.posts), Due(w, k) PROVE Due(u, k)
    <3>1. k \in Tasks /\ k.kind \in TaskKinds BY <1>2 DEF Tasks
    <3>2. \A a : Clear(w, a) => Clear(u, a) BY <1>8 DEF Clear
    <3>3. \A a \in Transactions : /\ y[a].commitQueued = w.tx[a].commitQueued
                                  /\ w.tx[a].started => y[a].started
      BY <1>1, <1>4, <1>6
    <3>4. CASE k.kind \in {"begin", "others", "recheck"} BY <1>8, <2>2, <3>4 DEF Due
    <3>5. CASE k.kind \in {"start", "process", "commit", "aborted", "done"}
      <4>1. k.id \in Transactions BY <2>2, <3>5 DEF Due, Transactions
      <4>2. /\ u.tx[k.id].state = w.tx[k.id].state /\ u.tx[k.id].commitQueued = w.tx[k.id].commitQueued
            /\ w.tx[k.id].started => u.tx[k.id].started
        BY <1>8, <1>10, <3>3, <4>1
      <4>3. CASE k.kind \in {"start", "process"} BY <2>2, <3>2, <4>2, <4>3 DEF Due
      <4>4. CASE k.kind \in {"commit", "aborted", "done"} BY <1>8, <2>2, <4>2, <4>4 DEF Due
      <4>5. QED BY <3>5, <4>3, <4>4
    <3>6. QED BY <3>1, <3>4, <3>5 DEF TaskKinds
  <2>3. QED BY <1>8, <2>1, <2>2, SamePosts
<1>19. Good(u, {}, {}, P)
  BY <1>8, <1>11, <1>12, <1>14, <1>15, <1>16, <1>17, <1>18 DEF Good
<1>20. Told(w, u, t) BY <1>1, <1>3, <1>6, <1>8 DEF Told
<1>21. QED BY <1>19, <1>20

LEMMA StartRight ==
    ASSUME NEW w, NEW P, Good(w, {}, {}, P), NEW t \in Transactions,
           w.tx[t].state \notin {"unmade", "ended"}, w.tx[t].state # "Active", Clear(w, t),
           NEW u, u = [w EXCEPT !.tx[t].started = TRUE], NEW v, v = PumpTx(u, t)
    PROVE  /\ Good(v, {}, {}, P) /\ Good(u, {}, {}, P) /\ Told(w, u, t) /\ Worked(u, v, t)
           /\ v.tx[t].state # "Active"
<1>1. Good(u, {}, {}, P) /\ Told(w, u, t) BY ToldRight
<1>2. w.tx[t] \in Txs BY TxFacts
<1>3. u.tx[t].state = w.tx[t].state BY <1>1, <1>2 DEF Told, Txs
<1>4. PICK a, y : a = u /\ y = v OBVIOUS
<1>5. Good(a, {}, {}, P) /\ a.tx[t].state # "ended" /\ y = PumpTx(a, t) BY <1>1, <1>3, <1>4
<1>6. /\ Good(y, {}, {}, P) /\ Worked(a, y, t)
      /\ y.tx[t].state = a.tx[t].state
         \/ (a.tx[t].state = "Inactive" /\ y.tx[t].state = "Committing")
  BY <1>5, PumpTxWorked
<1>7. QED BY <1>1, <1>3, <1>4, <1>6

\* run_upgrade's on_done.
LEMMA UpgradeDoneRight ==
    ASSUME NEW w, NEW P, Good(w, {}, {}, P), NEW r \in Opens, w.tx[r].state \in {"complete", "abort"},
           w.req[r] = "upgrading", Task("done", r) \notin P \cup ToSet(w.posts),
           NEW b, b = w \/ b = RequestClose(w, r), NEW how \in {"success", "error"},
           NEW v, v = Settle(b, r, how)
    PROVE  Good(v, {}, {}, P) /\ v.db = w.db /\ v.tx = w.tx /\ v.scheduled = w.scheduled
<1>1. /\ Good(b, {}, {}, P) /\ b.db = w.db /\ b.tx = w.tx /\ b.scheduled = w.scheduled /\ b.req = w.req
      /\ \A k \in ToSet(b.posts) : k \in ToSet(w.posts) \/ k.kind = "recheck"
  <2>1. CASE b = w BY <2>1
  <2>2. CASE b = RequestClose(w, r)
    <3>1. Good(b, {}, {}, P) /\ Closed(w, b) BY <2>2, RequestCloseRight
    <3>2. QED BY <3>1 DEF Closed
  <2>3. QED BY <2>1, <2>2
<1>2. /\ r \in Requests /\ r \in Transactions /\ b \in Worlds /\ b.posts \in Seq(Tasks)
      /\ w.posts \in Seq(Tasks) /\ b.req \in [Requests -> ReqStates]
  BY <1>1 DEF Requests, Transactions, Good, Worlds
<1>3. \A k \in P \cup ToSet(b.posts) : k.kind \in {"begin", "others", "done", "aborted"} => k.id # r
  <2> SUFFICES ASSUME NEW k \in P \cup ToSet(b.posts), k.id = r,
                      k.kind \in {"begin", "others", "done", "aborted"}
               PROVE  FALSE
    OBVIOUS
  <2>1. k \in P \cup ToSet(w.posts) BY <1>1
  <2>2. Due(w, k) BY <2>1 DEF Good, TasksRight
  <2>3. k \in Tasks BY <1>2, <2>1 DEF Good, TasksRight, ToSet
  <2>4. k = [kind |-> k.kind, id |-> k.id] BY <2>3 DEF Tasks
  <2>5. k.kind # "done" BY <2>1, <2>4 DEF Task
  <2>6. QED BY <2>2, <2>5 DEF Due
<1>4. DoorsRight([b EXCEPT !.req[r] = how], {})
  <2>1. PICK a : a = [b EXCEPT !.req[r] = how] OBVIOUS
  <2>2. /\ a.conns = b.conns /\ a.db = b.db /\ a.tx = b.tx /\ a.scheduled = b.scheduled
        /\ a.req[r] = how /\ \A o \in Requests : o # r => a.req[o] = b.req[o]
    BY <1>2, <2>1 DEF Worlds
  <2>3. IdsIn(a) = IdsIn(b) BY <2>2 DEF IdsIn
  <2>4. DoorsRight(b, {}) BY <1>1 DEF Good
  <2>5. r \notin IdsIn(b) BY <1>1 DEF Good, ScheduleRight, Busy
  <2>6. ASSUME NEW o \in Opens
        PROVE  /\ a.req[o] \in {"unmade", "queued"} => ~b.conns[o].open /\ ~b.conns[o].closePending
               /\ a.req[o] = "waiting" => b.conns[o].open /\ ~b.conns[o].closePending
               /\ a.req[o] \in {"unmade", "queued", "waiting"} => b.tx[o].state = "unmade"
               /\ b.conns[o].open /\ a.req[o] # "ended" => b.conns[o].version = b.db.version
               /\ o \in IdsIn(b) => /\ IdsIn(b) = {o} /\ a.req[o] = "upgrading"
                                    /\ \A c \in Opens : b.conns[c].open => c = o
    <3>1. CASE o = r BY <1>1, <2>2, <2>4, <2>5, <3>1 DEF DoorsRight
    <3>2. CASE o # r BY <2>2, <2>4, <3>2 DEF DoorsRight, Requests
    <3>3. QED BY <3>1, <3>2
  <2>7. DoorsRight(a, {}) BY <2>2, <2>3, <2>6 DEF DoorsRight
  <2>8. QED BY <2>1, <2>7
<1>5. Settleable(b, P, r, how) BY <1>1, <1>2, <1>3, <1>4 DEF Good, Settleable
<1>6. Good(v, {}, {}, P) /\ Answered(b, v, r, how) BY <1>5, SettleRight
<1>7. QED BY <1>1, <1>6 DEF Answered

\* db.transaction(): the transaction made, of whichever plan.
AsMade(t, c) == [NewTx EXCEPT !.plan = [mode |-> PlanOf[t].mode, scope |-> PlanOf[t].scope, connection |-> c],
                             !.state = "Active"]

LEMMA TransactRight ==
    ASSUME NEW w, NEW P, Good(w, {}, {}, P), Idle(w), NEW t \in Made, NEW c \in Opens,
           w.tx[t].state = "unmade", w.conns[c].open, w.req[c] \in {"upgrading", "success", "error"},
           ~(w.req[c] = "upgrading" /\ w.tx[c].state \in {"Inactive", "Committing"}),
           NEW script \in Scripts(PlanOf[t], MaxOps[t]),
           NEW v, v = RunScript(Schedule([w EXCEPT !.tx[t].plan = [mode |-> PlanOf[t].mode,
                                                                   scope |-> PlanOf[t].scope,
                                                                   connection |-> c],
                                                   !.tx[t].state = "Active"], t), t, script)
    PROVE  /\ Good(v, {}, {}, P)
           /\ \E j \in Worlds : Joined(w, j, t, AsMade(t, c)) /\ Acted(j, v, t)
<1>1. /\ t \in Transactions /\ t \notin Opens /\ w \in Worlds /\ w.tx \in [Transactions -> Txs]
  BY NamesAssumption DEF Transactions, Requests, Good, Worlds
<1>2. PICK it, plan : /\ it = AsMade(t, c)
                      /\ plan = [mode |-> PlanOf[t].mode, scope |-> PlanOf[t].scope, connection |-> c]
  OBVIOUS
<1>3. plan \in Plans /\ plan.mode \in Modes \ {"versionchange"} /\ plan.connection = c
  BY <1>2, RealmsAssumption DEF Plans, Modes
<1>4. /\ it \in Txs /\ it.state = "Active" /\ it.plan = plan /\ it.started = FALSE
      /\ it.queue = <<>> /\ it.undo = <<>> /\ it.commitQueued = FALSE
  <2>1. <<>> \in Seq(Placed) /\ <<>> \in Seq(UndoSteps) OBVIOUS
  <2>2. Nothing \in Contents BY DEF Nothing, Absent, Contents, Stamps
  <2>3. QED BY <1>2, <1>3, <2>1, <2>2 DEF AsMade, NewTx, Txs, TxStates, Busy
<1>5. MayJoin(w, t, it)
  <2>1. TxRight(it, t) BY <1>1, <1>3, <1>4 DEF TxRight
  <2>2. ASSUME NEW o \in IdsIn(w) \cap Opens PROVE FALSE
    <3>1. w.req[o] = "upgrading" /\ o = c BY <2>2 DEF Good, DoorsRight
    <3>2. w.tx[o].state \in Busy /\ o \in Transactions BY <2>2 DEF Good, ScheduleRight
    <3>3. w.tx[o].state \in {"Inactive", "Committing"} BY <3>2 DEF Idle, Busy
    <3>4. QED BY <3>1, <3>3
  <2>3. IdsIn(w) \cap Opens = {} BY <2>2
  <2>4. QED BY <1>1, <1>3, <1>4, <2>1, <2>3 DEF MayJoin, Busy
<1>6. PICK j : j = Schedule([w EXCEPT !.tx = [w.tx EXCEPT ![t] = it]], t) OBVIOUS
<1>7. Good(j, {}, {}, P) /\ Joined(w, j, t, it) BY <1>1, <1>4, <1>5, <1>6, JoinRight
<1>8. v = RunScript(j, t, script)
  <2>1. w.tx[t] = NewTx BY <1>1 DEF Good, TxsRight, TxRight
  <2>2. [w EXCEPT !.tx[t].plan = plan, !.tx[t].state = "Active"]
          = [w EXCEPT !.tx = [w.tx EXCEPT ![t] = it]]
    BY <1>1, <1>2, <2>1 DEF Worlds, AsMade
  <2>3. QED BY <1>2, <1>6, <2>2
<1>9. j.tx[t] = it BY <1>1, <1>7 DEF Joined
<1>10. Good(v, {}, {}, P) /\ Acted(j, v, t)
  <2>1. PICK most : most = MaxOps[t] OBVIOUS
  <2>2. most \in Int BY <1>1, <2>1, BoundsAssumption
  <2>3. Operations(PlanOf[t]) = Operations(plan) BY <1>2 DEF Operations
  <2>4. Scripts(PlanOf[t], most) = Scripts(plan, most) BY <2>3 DEF Scripts
  <2>5. script \in Scripts(j.tx[t].plan, most) /\ j.tx[t].state \in {"Inactive", "Active"}
    BY <1>4, <1>9, <2>1, <2>4
  <2>6. QED BY <1>1, <1>7, <1>8, <2>2, <2>5, RunScriptRight
<1>11. QED BY <1>2, <1>7, <1>10 DEF Good

-----------------------------------------------------------------------------
(* The end of a realm.                                                      *)

\* A step of its own for each of a list: what holds after each of them.
Along(g, N, F) == \A n \in 1..N : \A u \in F[n - 1] : g[<<n, u>>] \in F[n]
Guiding(f, N, F, b, g) ==
    /\ f[0] = b /\ f \in [0..N -> UNION {F[n] : n \in 0..N}]
    /\ \A n \in 1..N : f[n] = g[<<n, f[n - 1]>>]
    /\ \A n \in 0..N : f[n] \in F[n]

LEMMA Guided ==
    ASSUME NEW N \in Nat, NEW F, NEW b \in F[0], NEW g, Along(g, N, F)
    PROVE  \E f : Guiding(f, N, F, b, g)
<1>0. \A n \in 1..N : \A u \in F[n - 1] : g[<<n, u>>] \in F[n] BY DEF Along
<1>1. PICK S : S = UNION {F[n] : n \in 0..N} OBVIOUS
<1>2. \A n \in 0..N : F[n] \subseteq S BY <1>1
<1>3. PICK h : h = [z \in (1..N) \X S |-> IF z[2] \in F[z[1] - 1] THEN g[z] ELSE z[2]] OBVIOUS
<1>4. Steps(h, N, S)
  <2>1. ASSUME NEW n \in 1..N, NEW u \in S
        PROVE  (IF u \in F[n - 1] THEN g[<<n, u>>] ELSE u) \in S
    <3>1. n \in 0..N OBVIOUS
    <3>2. QED BY <1>0, <1>2, <3>1
  <2>2. h \in [(1..N) \X S -> S] BY <1>3, <2>1
  <2>3. QED BY <2>2 DEF Steps
<1>5. b \in S BY <1>2
<1>6. PICK f : Iterated(f, N, S, b, h) BY <1>4, <1>5, Iterates
<1>7. PICK R : R = {n \in 0..N : f[n] \in F[n]} OBVIOUS
<1>8. ASSUME NEW n \in 1..N, n - 1 \in R PROVE n \in R /\ f[n] = g[<<n, f[n - 1]>>]
  <2>1. f[n - 1] \in F[n - 1] /\ n - 1 \in 0..N /\ n \in 0..N BY <1>7, <1>8
  <2>2. <<n, f[n - 1]>> \in (1..N) \X S BY <1>2, <2>1
  <2>3. f[n] = h[<<n, f[n - 1]>>] BY <1>6 DEF Iterated
  <2>4. f[n] = g[<<n, f[n - 1]>>] BY <1>3, <2>1, <2>2, <2>3
  <2>5. f[n] \in F[n] BY <1>0, <2>1, <2>4
  <2>6. QED BY <1>7, <2>1, <2>4, <2>5
<1>9. 0 \in R BY <1>6, <1>7 DEF Iterated
<1>10. \A n \in 0..N : n \in R
  <2>1. \A n \in 1..N : n - 1 \in R => n \in R BY <1>8
  <2>2. QED BY <1>9, <2>1, Climb
<1>11. \A n \in 1..N : n - 1 \in 0..N OBVIOUS
<1>12. f[0] = b /\ f \in [0..N -> UNION {F[n] : n \in 0..N}] BY <1>1, <1>6 DEF Iterated
<1>13. \A n \in 1..N : f[n] = g[<<n, f[n - 1]>>] BY <1>8, <1>10, <1>11
<1>14. \A n \in 0..N : f[n] \in F[n] BY <1>7, <1>10
<1>15. QED BY <1>12, <1>13, <1>14 DEF Guiding

\* The realm of the names in M ends: what it had asked for is nobody's.
Gone(w, M) ==
    [w EXCEPT !.req = [r \in Requests |-> IF r \in M THEN "ended" ELSE @[r]],
              !.tx = [t \in Transactions |-> IF @[t].state \in Pending /\ t \in M
                                             THEN [@[t] EXCEPT !.state = "ended"] ELSE @[t]]]

LEMMA GoneFacts ==
    ASSUME NEW w \in Worlds, NEW M, NEW v, v = Gone(w, M)
    PROVE  /\ v \in Worlds
           /\ v.db = w.db /\ v.file = w.file /\ v.queue = w.queue /\ v.begun = w.begun
           /\ v.watchers = w.watchers /\ v.conns = w.conns /\ v.scheduled = w.scheduled
           /\ v.posts = w.posts
           /\ \A r \in Requests : v.req[r] = IF r \in M THEN "ended" ELSE w.req[r]
           /\ \A t \in Transactions :
                /\ v.tx[t] = IF w.tx[t].state \in Pending /\ t \in M
                             THEN [w.tx[t] EXCEPT !.state = "ended"] ELSE w.tx[t]
                /\ v.tx[t] \in Txs /\ w.tx[t] \in Txs
<1>1. PICK q : q = [r \in Requests |-> IF r \in M THEN "ended" ELSE w.req[r]] OBVIOUS
<1>2. PICK y : y = [t \in Transactions |-> IF w.tx[t].state \in Pending /\ t \in M
                                           THEN [w.tx[t] EXCEPT !.state = "ended"] ELSE w.tx[t]]
  OBVIOUS
<1>3. w.req \in [Requests -> ReqStates] /\ w.tx \in [Transactions -> Txs] BY DEF Worlds
<1>4. q \in [Requests -> ReqStates] BY <1>1, <1>3 DEF ReqStates
<1>5. \A t \in Transactions : w.tx[t] \in Txs /\ y[t] \in Txs
  <2> TAKE t \in Transactions
  <2>1. w.tx[t] \in Txs BY <1>3
  <2>2. [w.tx[t] EXCEPT !.state = "ended"] \in Txs BY <2>1 DEF Txs, TxStates
  <2>3. QED BY <1>2, <2>1, <2>2
<1>6. y \in [Transactions -> Txs] BY <1>2, <1>5
<1>7. v = [w EXCEPT !.req = q, !.tx = y] BY <1>1, <1>2 DEF Gone, Worlds
<1>8. /\ v \in Worlds /\ v.req = q /\ v.tx = y
      /\ v.db = w.db /\ v.file = w.file /\ v.queue = w.queue /\ v.begun = w.begun
      /\ v.watchers = w.watchers /\ v.conns = w.conns /\ v.scheduled = w.scheduled
      /\ v.posts = w.posts
  BY <1>4, <1>6, <1>7 DEF Worlds
<1>9. QED BY <1>1, <1>2, <1>5, <1>8

LEMMA GoneRight ==
    ASSUME NEW w, NEW P, Good(w, {}, {}, P), Idle(w), NEW M, NEW v, v = Gone(w, M),
           NEW x, x = IdsIn(w) \cap M
    PROVE  Good(v, x, M, P) /\ Idle(v) /\ IdsIn(v) = IdsIn(w)
<1>0. w \in Worlds /\ w.posts \in Seq(Tasks) BY DEF Good, Worlds
<1>1. /\ v \in Worlds
      /\ v.db = w.db /\ v.file = w.file /\ v.queue = w.queue /\ v.begun = w.begun
      /\ v.watchers = w.watchers /\ v.conns = w.conns /\ v.scheduled = w.scheduled
      /\ v.posts = w.posts
      /\ \A r \in Requests : v.req[r] = IF r \in M THEN "ended" ELSE w.req[r]
  BY <1>0, GoneFacts
<1>2. \A t \in Transactions :
        /\ v.tx[t] = IF w.tx[t].state \in Pending /\ t \in M
                     THEN [w.tx[t] EXCEPT !.state = "ended"] ELSE w.tx[t]
        /\ v.tx[t] \in Txs /\ w.tx[t] \in Txs
  BY <1>0, GoneFacts
<1>3. \A t \in Transactions :
        /\ v.tx[t].plan = w.tx[t].plan /\ v.tx[t].started = w.tx[t].started
        /\ v.tx[t].undo = w.tx[t].undo /\ v.tx[t].saved = w.tx[t].saved
        /\ v.tx[t].queue = w.tx[t].queue /\ v.tx[t].commitQueued = w.tx[t].commitQueued
        /\ v.tx[t].state = IF w.tx[t].state \in Pending /\ t \in M THEN "ended" ELSE w.tx[t].state
        /\ t \notin M => v.tx[t] = w.tx[t]
        /\ w.tx[t].state = "unmade" => v.tx[t] = w.tx[t]
  <2> TAKE t \in Transactions
  <2>1. w.tx[t] \in Txs BY <1>2
  <2>2. CASE w.tx[t].state \in Pending /\ t \in M
    <3>1. v.tx[t] = [w.tx[t] EXCEPT !.state = "ended"] BY <1>2, <2>2
    <3>2. QED BY <2>1, <2>2, <3>1 DEF Txs, Pending
  <2>3. CASE ~(w.tx[t].state \in Pending /\ t \in M) BY <1>2, <2>3
  <2>4. QED BY <2>2, <2>3
<1>4. IdsIn(v) = IdsIn(w) /\ IdsIn(w) \subseteq Transactions BY <1>0, <1>1, IdsFinite DEF IdsIn
<1>5. \A o : On(v, o) = On(w, o) BY <1>3, <1>4 DEF On
<1>6. IdsIn(w) = {t \in Transactions : w.tx[t].state \in Busy} BY DEF Good, ScheduleRight
<1>7. ScheduleRight(v, x)
  <2>1. ScheduleRight(w, {}) BY DEF Good
  <2>2. \A i \in DOMAIN w.scheduled : w.scheduled[i].id \in Transactions BY <1>4 DEF IdsIn
  <2>3. EntriesFit(v)
    <3>1. \A t \in Transactions : v.tx[t].plan = w.tx[t].plan /\ v.tx[t].started = w.tx[t].started
      BY <1>3
    <3>2. v.scheduled = w.scheduled BY <1>1
    <3>3. SameEntries(w, v) BY <2>2, <3>1, <3>2 DEF SameEntries
    <3>4. QED BY <2>1, <3>3, EntriesKept
  <2>5. \A t \in Transactions : t \in IdsIn(w) <=> v.tx[t].state \in Busy \/ t \in x
    <3> TAKE t \in Transactions
    <3>1. t \in IdsIn(w) => w.tx[t].state \in Pending
      BY <1>6 DEF Idle, Busy, Pending
    <3>2. CASE t \in M BY <1>3, <1>6, <3>1, <3>2 DEF Busy, Pending
    <3>3. CASE t \notin M BY <1>3, <1>6, <3>3
    <3>4. QED BY <3>2, <3>3
  <2>6. \A t \in x : v.tx[t].state \notin Busy \cup {"unmade"}
    <3> TAKE t \in x
    <3>1. t \in Transactions /\ w.tx[t].state \in Busy /\ t \in M BY <1>6
    <3>2. w.tx[t].state \in Pending BY <3>1 DEF Idle, Busy, Pending
    <3>3. v.tx[t].state = "ended" BY <1>3, <3>1, <3>2
    <3>4. QED BY <3>3 DEF Busy
  <2>7. IdsIn(v) = {t \in Transactions : v.tx[t].state \in Busy} \cup x BY <1>4, <2>5
  <2>8. QED BY <2>3, <2>6, <2>7, FittingAll
<1>8. TxsRight(v)
  <2>1. ASSUME NEW t \in Transactions PROVE TxRight(v.tx[t], t)
    <3>1. TxRight(w.tx[t], t) BY DEF Good, TxsRight
    <3>2. CASE v.tx[t] = w.tx[t] BY <3>1, <3>2
    <3>3. CASE v.tx[t] # w.tx[t]
      <4>1. v.tx[t].state = "ended" /\ w.tx[t].state # "unmade"
        <5>1. w.tx[t].state \in Pending /\ t \in M BY <1>2, <3>3
        <5>2. QED BY <1>3, <5>1 DEF Pending
      <4>2. PICK o, n : o = w.tx[t] /\ n = v.tx[t] OBVIOUS
      <4>3. /\ n.plan = o.plan /\ n.started = o.started /\ n.undo = o.undo /\ n.queue = o.queue
            /\ n.commitQueued = o.commitQueued /\ n.state = "ended" /\ o.state # "unmade" /\ TxRight(o, t)
        BY <1>3, <3>1, <4>1, <4>2
      <4>4. TxRight(n, t) BY <4>3 DEF TxRight
      <4>5. QED BY <4>2, <4>4
    <3>4. QED BY <3>2, <3>3
  <2>2. QED BY <2>1 DEF TxsRight
<1>9. CountsRight(v)
  <2>1. CountsRight(w) BY DEF Good
  <2>2. \A c \in Opens : v.req[c] \in {w.req[c], "ended"} BY <1>1 DEF Requests
  <2>3. QED BY <1>1, <1>5, <2>1, <2>2 DEF CountsRight
<1>10. QueueRight(v, M)
  <2>1. QueueRight(w, {}) BY DEF Good
  <2>2. \A r \in v.watchers : r \in Requests BY <1>1 DEF Worlds
  <2>3. QED BY <1>1, <2>1, <2>2 DEF QueueRight
<1>11. DoorsRight(v, M)
  <2>1. DoorsRight(w, {}) BY DEF Good
  <2>2. ASSUME NEW c \in Opens
        PROVE  /\ v.req[c] \in {"unmade", "queued"} => ~w.conns[c].open /\ ~w.conns[c].closePending
               /\ v.req[c] = "waiting" => w.conns[c].open /\ ~w.conns[c].closePending
               /\ v.req[c] \in {"unmade", "queued", "waiting"} => v.tx[c].state = "unmade"
               /\ w.conns[c].open /\ v.req[c] # "ended" => w.conns[c].version = w.db.version
               /\ c \in IdsIn(w) => /\ IdsIn(w) = {c} /\ (c \in M \/ v.req[c] = "upgrading")
                                    /\ \A o \in Opens : w.conns[o].open => o = c
    <3>1. c \in Requests /\ c \in Transactions BY DEF Requests, Transactions
    <3>2. CASE c \in M
      <4>1. v.req[c] = "ended" BY <1>1, <3>1, <3>2
      <4>2. QED BY <2>1, <3>2, <4>1 DEF DoorsRight
    <3>3. CASE c \notin M
      <4>1. v.req[c] = w.req[c] /\ v.tx[c] = w.tx[c] BY <1>1, <1>3, <3>1, <3>3
      <4>2. QED BY <2>1, <4>1 DEF DoorsRight
    <3>4. QED BY <3>2, <3>3
  <2>3. QED BY <1>1, <1>4, <2>2 DEF DoorsRight
<1>12. EndedRight(v, M)
  <2>1. ASSUME NEW t \in IdsIn(v), v.tx[t].state = "ended" PROVE t \in M
    <3>1. t \in Transactions /\ w.tx[t].state \in Busy BY <1>4, <1>6
    <3>2. QED BY <1>3, <2>1, <3>1 DEF Busy
  <2>2. QED BY <2>1 DEF EndedRight
<1>13. TasksRight(v, M, P)
  <2>1. TasksRight(w, {}, P) BY DEF Good
  <2>2. ASSUME NEW k \in P \cup ToSet(v.posts), k.id \notin M PROVE Due(v, k)
    <3>1. k \in Tasks BY <1>0, <1>1, <2>1 DEF TasksRight, ToSet
    <3>2. Due(w, k) BY <1>1, <2>1 DEF TasksRight
    <3>3. k.id \in Transactions => v.tx[k.id] = w.tx[k.id] BY <1>3, <2>2
    <3>4. k.id \in Requests => v.req[k.id] = w.req[k.id] BY <1>1, <2>2
    <3>5. Clear(w, k.id) => Clear(v, k.id) BY <1>1 DEF Clear
    <3>6. k.id \in Opens => k.id \in Transactions /\ k.id \in Requests
      BY DEF Requests, Transactions
    <3>7. k.kind \in TaskKinds BY <3>1 DEF Tasks
    <3>8. QED BY <1>1, <3>2, <3>3, <3>4, <3>5, <3>6, <3>7 DEF Due, TaskKinds
  <2>3. Sole(M) \subseteq Sole({}) BY DEF Sole
  <2>4. Few(v.posts, Sole(M)) /\ P \cap ToSet(v.posts) \cap Sole(M) = {}
    BY <1>1, <2>1, <2>3 DEF TasksRight, Few
  <2>5. QED BY <2>1, <2>2, <2>4 DEF TasksRight
<1>14. Idle(v) BY <1>3 DEF Idle
<1>15. QED BY <1>1, <1>4, <1>7, <1>8, <1>9, <1>10, <1>11, <1>12, <1>13, <1>14 DEF Good

\* No two in the schedule have changed one store.
LEMMA ChangedApart ==
    ASSUME NEW w, NEW x, NEW M, NEW P, Good(w, x, M, P), NEW a \in IdsIn(w), NEW b \in IdsIn(w),
           NEW s, s \in Changed(w.tx[a].undo), s \in Changed(w.tx[b].undo)
    PROVE  a = b
<1>1. w \in Worlds /\ w.scheduled \in Seq(Entries) /\ a \in Transactions /\ b \in Transactions
  BY IdsFinite DEF Good, Worlds
<1>2. \A t \in {a, b} : /\ s \in w.tx[t].plan.scope /\ w.tx[t].started
                        /\ w.tx[t].plan.mode = "readwrite"
  <2> TAKE t \in {a, b}
  <2>1. TxRight(w.tx[t], t) /\ w.tx[t] \in Txs BY <1>1, TxFacts
  <2>2. w.tx[t].undo \in Seq(UndoSteps) BY <2>1 DEF Txs
  <2>3. PICK i \in DOMAIN w.tx[t].undo : w.tx[t].undo[i].store = s BY DEF Changed
  <2>4. w.tx[t].undo # <<>> BY <2>2, <2>3
  <2>5. QED BY <2>1, <2>3, <2>4 DEF TxRight
<1>3. PICK i \in DOMAIN w.scheduled, j \in DOMAIN w.scheduled :
        w.scheduled[i].id = a /\ w.scheduled[j].id = b
  BY DEF IdsIn
<1>4. i \in Nat \ {0} /\ j \in Nat \ {0} BY <1>1, <1>3
<1>5. ASSUME NEW k \in {i, j}, NEW l \in {i, j}, k < l PROVE FALSE
  <2>1. k \in 1..(l - 1) BY <1>4, <1>5
  <2>2. /\ w.scheduled[k].scope = w.tx[w.scheduled[k].id].plan.scope
        /\ w.scheduled[k].connection = w.tx[w.scheduled[k].id].plan.connection
        /\ w.scheduled[l].scope = w.tx[w.scheduled[l].id].plan.scope
        /\ w.scheduled[l].connection = w.tx[w.scheduled[l].id].plan.connection
        /\ w.scheduled[l].mode = w.tx[w.scheduled[l].id].plan.mode
        /\ w.tx[w.scheduled[l].id].started => ~Waits(w.scheduled, l)
    BY <1>3 DEF Good, ScheduleRight
  <2>3. s \in w.scheduled[k].scope /\ s \in w.scheduled[l].scope BY <1>2, <1>3, <2>2
  <2>4. w.scheduled[l].mode = "readwrite" /\ ~Waits(w.scheduled, l) BY <1>2, <1>3, <2>2
  <2>5. Overlap(w.scheduled[k], w.scheduled[l]) BY <2>3 DEF Overlap
  <2>6. QED BY <2>1, <2>4, <2>5 DEF Waits
<1>6. ~(i < j) /\ ~(j < i) BY <1>5
<1>7. i = j BY <1>4, <1>6
<1>8. QED BY <1>3, <1>7

\* The undoing of one whose realm has ended.
LEMMA RevertedRight ==
    ASSUME NEW w, NEW x, NEW M, NEW P, Good(w, x, M, P), NEW t \in x, t \in M,
           \A r \in Requests \cap M : w.req[r] = "ended", NEW v, v = Reverted(w, t)
    PROVE  Good(v, x, M, P)
<1>0. t \in IdsIn(w) /\ t \in Transactions /\ w \in Worlds
  BY IdsFinite DEF Good, ScheduleRight
<1>1. PICK it : it = w.tx[t] OBVIOUS
<1>2. /\ w.tx \in [Transactions -> Txs] /\ it \in Txs /\ TxRight(it, t)
      /\ w.posts \in Seq(Tasks) /\ \A k \in P \cup ToSet(w.posts) : k \in Tasks
  BY <1>0, <1>1, TxFacts
<1>3. PICK new : new = [it EXCEPT !.undo = <<>>] OBVIOUS
<1>4. /\ new.plan = it.plan /\ new.started = it.started /\ new.saved = it.saved
      /\ new.undo = <<>> /\ new.state = it.state /\ new.queue = it.queue
      /\ new.commitQueued = it.commitQueued
  BY <1>2, <1>3 DEF Txs
<1>5. /\ v \in Worlds /\ Frame(w, v) /\ v.posts = w.posts /\ v.db = Before(w, t)
      /\ v.tx = [w.tx EXCEPT ![t] = new]
  BY <1>0, <1>1, <1>3, RevertedFacts
<1>6. /\ v.queue = w.queue /\ v.begun = w.begun /\ v.watchers = w.watchers
      /\ v.conns = w.conns /\ v.scheduled = w.scheduled /\ v.req = w.req
  BY <1>5 DEF Frame
<1>7. v.tx[t] = new /\ \A u \in Transactions : u # t => v.tx[u] = w.tx[u] BY <1>0, <1>2, <1>5
<1>8. \A u \in Transactions :
        /\ v.tx[u].plan = w.tx[u].plan /\ v.tx[u].started = w.tx[u].started
        /\ v.tx[u].state = w.tx[u].state /\ v.tx[u].commitQueued = w.tx[u].commitQueued
  BY <1>1, <1>4, <1>7
<1>9. IdsIn(v) = IdsIn(w) /\ IdsIn(w) \subseteq Transactions BY <1>0, <1>6, IdsFinite DEF IdsIn
<1>10. \A o : On(v, o) = On(w, o) BY <1>8, <1>9 DEF On
<1>11. it.state # "unmade" BY <1>1 DEF Good, ScheduleRight
<1>12. ScheduleRight(v, x)
  <2>1. ScheduleRight(w, x) BY DEF Good
  <2>2. \A i \in DOMAIN w.scheduled : w.scheduled[i].id \in Transactions BY <1>9 DEF IdsIn
  <2>3. EntriesFit(v)
    <3>1. \A u \in Transactions : v.tx[u].plan = w.tx[u].plan /\ v.tx[u].started = w.tx[u].started
      BY <1>8
    <3>2. v.scheduled = w.scheduled BY <1>6
    <3>3. SameEntries(w, v) BY <2>2, <3>1, <3>2 DEF SameEntries
    <3>4. QED BY <2>1, <3>3, EntriesKept
  <2>5. IdsIn(v) = {u \in Transactions : v.tx[u].state \in Busy} \cup x
    BY <1>8, <1>9, <2>1 DEF ScheduleRight
  <2>6. x \subseteq Transactions BY <1>9, <2>1 DEF ScheduleRight
  <2>7. \A u \in x : v.tx[u].state \notin Busy \cup {"unmade"}
    BY <1>8, <2>1, <2>6 DEF ScheduleRight
  <2>8. QED BY <2>3, <2>5, <2>7, FittingAll
<1>13. TxsRight(v)
  <2>1. TxRight(new, t) BY <1>2, <1>4, <1>11 DEF TxRight
  <2>2. QED BY <1>7, <2>1 DEF Good, TxsRight
<1>14. CountsRight(v) BY <1>6, <1>10 DEF Good, CountsRight
<1>15. QueueRight(v, M) BY <1>6 DEF Good, QueueRight
<1>16. DoorsRight(v, M)
  <2>1. DoorsRight(w, M) BY DEF Good
  <2>2. ASSUME NEW c \in Opens
        PROVE  /\ w.req[c] \in {"unmade", "queued", "waiting"} => v.tx[c].state = "unmade"
               /\ w.conns[c].open /\ w.req[c] # "ended" => w.conns[c].version = v.db.version
    <3>1. c \in Transactions BY DEF Transactions
    <3>2. CASE t \in Opens
      <4>1. w.req[t] = "ended" BY <3>2 DEF Requests
      <4>2. w.conns[c].open => c = t BY <1>0, <2>1, <3>2 DEF DoorsRight
      <4>3. QED BY <1>8, <2>1, <3>1, <4>1, <4>2 DEF DoorsRight
    <3>3. CASE t \notin Opens
      <4>1. v.db.version = w.db.version BY <1>1, <1>2, <1>5, <1>11, <3>3 DEF Before, TxRight
      <4>2. QED BY <1>8, <2>1, <3>1, <4>1 DEF DoorsRight
    <3>4. QED BY <3>2, <3>3
  <2>3. QED BY <1>6, <1>9, <2>1, <2>2 DEF DoorsRight
<1>17. EndedRight(v, M) BY <1>8, <1>9 DEF Good, EndedRight
<1>18. TasksRight(v, M, P)
  <2>1. TasksRight(w, M, P) BY DEF Good
  <2>2. ASSUME NEW k \in P \cup ToSet(w.posts), Due(w, k) PROVE Due(v, k)
    <3>1. k \in Tasks /\ k.kind \in TaskKinds BY <1>2 DEF Tasks
    <3>2. \A a : Clear(w, a) => Clear(v, a) BY <1>6 DEF Clear
    <3>3. QED BY <1>6, <1>8, <2>2, <3>1, <3>2 DEF Due, TaskKinds, Transactions
  <2>3. QED BY <1>5, <2>1, <2>2, SamePosts
<1>19. QED BY <1>5, <1>12, <1>13, <1>14, <1>15, <1>16, <1>17, <1>18 DEF Good

\* From w to u the transactions of D have been undone and have left.
Dropped(w, u, D) ==
    /\ IdsIn(u) = IdsIn(w) \ D
    /\ u.file = w.file /\ u.queue = w.queue /\ u.begun = w.begun /\ u.watchers = w.watchers
    /\ u.req = w.req
    /\ \A t \in Transactions : /\ u.tx[t].state = w.tx[t].state /\ u.tx[t].plan = w.tx[t].plan
                               /\ u.tx[t].saved = w.tx[t].saved
                               /\ t \notin D => u.tx[t] = w.tx[t]
    /\ \A t \in D \cap Opens : u.db = w.tx[t].saved
    /\ D \cap Opens = {} =>
         /\ u.db.version = w.db.version
         /\ \A s \in Stores :
              /\ \A t \in D : s \in Changed(w.tx[t].undo)
                                => u.db.stores[s] = Was(w.tx[t].undo, s, w.db.stores[s])
              /\ (\A t \in D : s \notin Changed(w.tx[t].undo)) => u.db.stores[s] = w.db.stores[s]

LEMMA DropRight ==
    ASSUME NEW w, NEW X, NEW M, NEW P, Good(w, X, M, P), X \subseteq M,
           \A r \in Requests \cap M : w.req[r] = "ended",
           NEW D \in SUBSET X, NEW u, Good(u, X \ D, M, P), Dropped(w, u, D),
           NEW t \in X \ D, NEW v, v = Finish(Reverted(u, t), t)
    PROVE  Good(v, X \ (D \cup {t}), M, P) /\ Dropped(w, v, D \cup {t})
<1>1. PICK y, r : y = X \ D /\ r = Reverted(u, t) OBVIOUS
<1>2. Good(u, y, M, P) /\ t \in y /\ t \in M /\ \A q \in Requests \cap M : u.req[q] = "ended"
  BY <1>1 DEF Dropped
<1>3. Good(r, y, M, P) BY <1>1, <1>2, RevertedRight
<1>4. Good(v, y \ {t}, M, P) /\ t \in Transactions /\ Left(r, v, t)
  BY <1>1, <1>2, <1>3, FinishRight
<1>5. y \ {t} = X \ (D \cup {t}) BY <1>1
<1>6. /\ u \in Worlds /\ w \in Worlds /\ X \subseteq IdsIn(w) /\ IdsIn(w) \subseteq Transactions
  BY IdsFinite DEF Good, ScheduleRight
<1>7. /\ Frame(u, r) /\ r.db = Before(u, t)
      /\ r.tx = [u.tx EXCEPT ![t] = [u.tx[t] EXCEPT !.undo = <<>>]]
  BY <1>1, <1>2, <1>4, RevertedFacts
<1>8. u.tx \in [Transactions -> Txs] /\ u.tx[t] \in Txs /\ TxRight(u.tx[t], t) BY <1>2, <1>4, TxFacts
<1>9. u.tx[t] = w.tx[t] BY <1>4 DEF Dropped
<1>10. /\ v.file = u.file /\ v.queue = u.queue /\ v.begun = u.begun /\ v.watchers = u.watchers
       /\ v.req = u.req /\ v.db = Before(u, t) /\ v.tx = r.tx /\ IdsIn(v) = IdsIn(u) \ {t}
  <2>1. r.scheduled = u.scheduled /\ IdsIn(r) = IdsIn(u) BY <1>7 DEF Frame, IdsIn
  <2>2. v.req = r.req /\ v.db = r.db /\ v.tx = r.tx /\ IdsIn(v) = IdsIn(r) \ {t} BY <1>4 DEF Left
  <2>3. /\ v.file = r.file /\ v.queue = r.queue /\ v.begun = r.begun /\ v.watchers = r.watchers
    BY <1>4 DEF Left
  <2>4. QED BY <1>7, <2>1, <2>2, <2>3 DEF Frame
<1>11. \A a \in Transactions : /\ v.tx[a].state = u.tx[a].state /\ v.tx[a].plan = u.tx[a].plan
                               /\ v.tx[a].saved = u.tx[a].saved
                               /\ a # t => v.tx[a] = u.tx[a]
  <2> TAKE a \in Transactions
  <2>1. CASE a = t
    <3>1. v.tx[a] = [u.tx[t] EXCEPT !.undo = <<>>] BY <1>4, <1>7, <1>8, <1>10, <2>1
    <3>2. QED BY <1>8, <2>1, <3>1 DEF Txs
  <2>2. CASE a # t
    <3>1. v.tx[a] = u.tx[a] BY <1>4, <1>7, <1>8, <1>10, <2>2
    <3>2. QED BY <2>2, <3>1
  <2>3. QED BY <2>1, <2>2
<1>12. w.tx[t].state # "unmade" BY DEF Good, ScheduleRight
<1>13. w.tx[t].plan.mode = "versionchange" <=> t \in Opens BY <1>8, <1>9, <1>12 DEF TxRight
<1>14. \A a \in (D \cup {t}) \cap Opens : v.db = w.tx[a].saved
  <2> TAKE a \in (D \cup {t}) \cap Opens
  <2>1. IdsIn(w) = {a} BY <1>6 DEF Good, DoorsRight
  <2>2. a = t BY <1>6, <2>1
  <2>3. QED BY <1>9, <1>10, <1>13, <2>2 DEF Before
<1>15. ASSUME (D \cup {t}) \cap Opens = {}
       PROVE  /\ v.db.version = w.db.version
              /\ \A s \in Stores :
                   /\ \A a \in D \cup {t} : s \in Changed(w.tx[a].undo)
                                => v.db.stores[s] = Was(w.tx[a].undo, s, w.db.stores[s])
                   /\ (\A a \in D \cup {t} : s \notin Changed(w.tx[a].undo))
                                => v.db.stores[s] = w.db.stores[s]
  <2>1. D \cap Opens = {} /\ t \notin Opens BY <1>15
  <2>2. /\ v.db.version = u.db.version
        /\ \A s \in Stores : v.db.stores[s] = Was(w.tx[t].undo, s, u.db.stores[s])
    BY <1>9, <1>10, <1>13, <2>1 DEF Before
  <2>3. u.db.version = w.db.version BY <2>1 DEF Dropped
  <2>4. ASSUME NEW s \in Stores
        PROVE  /\ \A a \in D \cup {t} : s \in Changed(w.tx[a].undo)
                                => v.db.stores[s] = Was(w.tx[a].undo, s, w.db.stores[s])
               /\ (\A a \in D \cup {t} : s \notin Changed(w.tx[a].undo))
                                => v.db.stores[s] = w.db.stores[s]
    <3>1. CASE s \in Changed(w.tx[t].undo)
      <4>1. v.db.stores[s] = Was(w.tx[t].undo, s, w.db.stores[s]) BY <2>2, <3>1 DEF Was
      <4>2. \A a \in D \cup {t} : s \in Changed(w.tx[a].undo) => a = t
        BY <1>6, <3>1, ChangedApart
      <4>3. QED BY <3>1, <4>1, <4>2
    <3>2. CASE s \notin Changed(w.tx[t].undo)
      <4>1. v.db.stores[s] = u.db.stores[s] BY <2>2, <3>2 DEF Was
      <4>2. /\ \A a \in D : s \in Changed(w.tx[a].undo)
                                => u.db.stores[s] = Was(w.tx[a].undo, s, w.db.stores[s])
            /\ (\A a \in D : s \notin Changed(w.tx[a].undo)) => u.db.stores[s] = w.db.stores[s]
        BY <2>1 DEF Dropped
      <4>3. QED BY <3>2, <4>1, <4>2
    <3>3. QED BY <3>1, <3>2
  <2>5. QED BY <2>2, <2>3, <2>4
<1>16. /\ IdsIn(v) = IdsIn(w) \ (D \cup {t})
       /\ v.file = w.file /\ v.queue = w.queue /\ v.begun = w.begun /\ v.watchers = w.watchers
       /\ v.req = w.req
  BY <1>10 DEF Dropped
<1>17. \A a \in Transactions : /\ v.tx[a].state = w.tx[a].state /\ v.tx[a].plan = w.tx[a].plan
                               /\ v.tx[a].saved = w.tx[a].saved
                               /\ a \notin D \cup {t} => v.tx[a] = w.tx[a]
  BY <1>11 DEF Dropped
<1>18. Dropped(w, v, D \cup {t}) BY <1>14, <1>15, <1>16, <1>17 DEF Dropped
<1>19. QED BY <1>4, <1>5, <1>18

\* Every transaction of the realm's, one after the other.
UndoneFor(u, e) == Finish(Reverted(u, e.id), e.id)

LEMMA DropTransactionsRight ==
    ASSUME NEW w, NEW X, NEW M, NEW P, Good(w, X, M, P), X \subseteq M,
           \A r \in Requests \cap M : w.req[r] = "ended",
           NEW es \in Seq(Entries), X = {es[i].id : i \in DOMAIN es},
           \A i, j \in DOMAIN es : es[i].id = es[j].id => i = j,
           NEW v, v = DropTransactions(w, es)
    PROVE  Good(v, {}, M, P) /\ Dropped(w, v, X)
<1>1. PICK N : N = Len(es) OBVIOUS
<1>2. N \in Nat /\ DOMAIN es = 1..N BY <1>1
<1>3. PICK D : D = [n \in 0..N |-> {es[i].id : i \in 1..n}] OBVIOUS
<1>4. PICK F : F = [n \in 0..N |-> {u \in Worlds : Good(u, X \ D[n], M, P) /\ Dropped(w, u, D[n])}]
  OBVIOUS
<1>5. w \in Worlds BY DEF Good
<1>6. w \in F[0]
  <2>1. D[0] = {} /\ 0 \in 0..N BY <1>2, <1>3
  <2>2. PICK none : none = {} OBVIOUS
  <2>3. Dropped(w, w, none) BY <2>2 DEF Dropped
  <2>4. X \ none = X BY <2>2
  <2>5. Good(w, X \ D[0], M, P) /\ Dropped(w, w, D[0]) BY <2>1, <2>2, <2>3, <2>4
  <2>6. QED BY <1>4, <1>5, <2>1, <2>5
<1>7. PICK g : g = [z \in (1..N) \X Worlds |-> UndoneFor(z[2], es[z[1]])] OBVIOUS
<1>8. ASSUME NEW n \in 1..N, NEW u \in F[n - 1]
      PROVE  /\ u \in Worlds /\ g[<<n, u>>] = UndoneFor(u, es[n])
             /\ UndoneFor(u, es[n]) \in F[n]
  <2>1. n - 1 \in 0..N /\ n \in 0..N /\ n \in DOMAIN es BY <1>2
  <2>2. PICK d, t : d = D[n - 1] /\ t = es[n].id OBVIOUS
  <2>3. u \in Worlds /\ Good(u, X \ d, M, P) /\ Dropped(w, u, d) BY <1>4, <1>8, <2>1, <2>2
  <2>4. D[n] = d \cup {t}
    <3>1. 1..n = 1..(n - 1) \cup {n} BY <1>2
    <3>2. QED BY <1>3, <2>1, <2>2, <3>1
  <2>5. d \in SUBSET X BY <1>2, <1>3, <2>1, <2>2
  <2>6. t \in X \ d
    <3>1. t \in X BY <2>1, <2>2
    <3>2. \A i \in 1..(n - 1) : i \in DOMAIN es /\ i # n BY <1>2
    <3>3. \A i \in 1..(n - 1) : es[i].id # t BY <2>1, <2>2, <3>2
    <3>4. QED BY <1>3, <2>1, <2>2, <3>1, <3>3
  <2>7. PICK a : a = UndoneFor(u, es[n]) OBVIOUS
  <2>8. a = Finish(Reverted(u, t), t) BY <2>2, <2>7 DEF UndoneFor
  <2>9. Good(a, X \ (d \cup {t}), M, P) /\ Dropped(w, a, d \cup {t})
    BY <2>3, <2>5, <2>6, <2>8, DropRight
  <2>10. a \in Worlds BY <2>9 DEF Good
  <2>11. a \in F[n] BY <1>4, <2>1, <2>4, <2>9, <2>10
  <2>12. <<n, u>> \in (1..N) \X Worlds BY <2>3
  <2>13. QED BY <1>7, <2>3, <2>7, <2>11, <2>12
<1>9. Along(g, N, F) BY <1>8 DEF Along
<1>10. PICK f : Guiding(f, N, F, w, g)
  BY <1>2, <1>6, <1>9, Guided
<1>11. \A n \in 1..N : f[n] = UndoneFor(f[n - 1], es[n])
  <2> TAKE n \in 1..N
  <2>1. n - 1 \in 0..N BY <1>2
  <2>2. QED BY <1>8, <1>10, <2>1 DEF Guiding
<1>12. f = [n \in 0..N |-> IF n = 0 THEN w ELSE UndoneFor(f[n - 1], es[n])]
  <2>1. \A n \in 0..N : n # 0 => n \in 1..N BY <1>2
  <2>2. QED BY <1>10, <1>11, <2>1 DEF Guiding
<1>13. \E h : h = [n \in 0..Len(es) |-> IF n = 0 THEN w
                                       ELSE Finish(Reverted(h[n - 1], es[n].id), es[n].id)]
  BY <1>1, <1>12 DEF UndoneFor
<1> DEFINE upto[n \in 0..Len(es)] ==
            IF n = 0 THEN w ELSE Finish(Reverted(upto[n - 1], es[n].id), es[n].id)
<1>14. upto = [n \in 0..Len(es) |-> IF n = 0 THEN w
                                   ELSE Finish(Reverted(upto[n - 1], es[n].id), es[n].id)]
  BY <1>13
<1>15. DropTransactions(w, es) = upto[Len(es)] BY DEF DropTransactions
<1> HIDE DEF upto
<1>16. PICK h : h = upto OBVIOUS
<1>17. h = [n \in 0..N |-> IF n = 0 THEN w ELSE UndoneFor(h[n - 1], es[n])]
  BY <1>1, <1>14, <1>16 DEF UndoneFor
<1>18. v = h[N] BY <1>1, <1>15, <1>16
<1>19. PICK R : R = {n \in 0..N : h[n] \in F[n]} OBVIOUS
<1>20. 0 \in R BY <1>2, <1>6, <1>17, <1>19
<1>21. ASSUME NEW n \in 1..N, n - 1 \in R PROVE n \in R
  <2>1. n \in 0..N /\ n # 0 BY <1>2
  <2>2. h[n] = UndoneFor(h[n - 1], es[n]) BY <1>17, <2>1
  <2>3. h[n - 1] \in F[n - 1] BY <1>19, <1>21
  <2>4. QED BY <1>8, <1>19, <2>1, <2>2, <2>3
<1>22. N \in R
  <2>1. \A n \in 1..N : n - 1 \in R => n \in R BY <1>21
  <2>2. \A n \in 0..N : n \in R BY <1>2, <1>20, <2>1, Climb
  <2>3. QED BY <1>2, <2>2
<1>23. D[N] = X BY <1>2, <1>3
<1>24. v \in F[N] /\ N \in 0..N BY <1>18, <1>19, <1>22
<1>25. Good(v, X \ D[N], M, P) /\ Dropped(w, v, D[N]) BY <1>4, <1>24
<1>26. X \ D[N] = {} BY <1>23
<1>27. QED BY <1>23, <1>25, <1>26

\* Every connection of the realm's.
Shut(w, u) ==
    /\ u.db = w.db /\ u.file = w.file /\ u.queue = w.queue /\ u.begun = w.begun
    /\ u.watchers = w.watchers /\ u.scheduled = w.scheduled /\ u.tx = w.tx /\ u.req = w.req

LEMMA CloseAllRight ==
    ASSUME NEW w, NEW x, NEW M, NEW P, Good(w, x, M, P), NEW cs \in Seq(Opens),
           \A i \in DOMAIN cs : w.req[cs[i]] = "ended", NEW v, v = CloseAll(w, cs)
    PROVE  Good(v, x, M, P) /\ Shut(w, v)
<1>1. PICK N : N = Len(cs) OBVIOUS
<1>2. N \in Nat /\ DOMAIN cs = 1..N BY <1>1
<1>3. PICK S : S = {u \in Worlds : Good(u, x, M, P) /\ Shut(w, u)} OBVIOUS
<1>4. w \in S BY <1>3 DEF Good, Shut
<1>5. ASSUME NEW u \in S, NEW n \in 1..N PROVE RequestClose(u, cs[n]) \in S
  <2>1. PICK a, c : a = RequestClose(u, cs[n]) /\ c = cs[n] OBVIOUS
  <2>2. Good(u, x, M, P) /\ Shut(w, u) BY <1>3
  <2>3. c \in Opens /\ u.req[c] = "ended" BY <1>2, <2>1, <2>2 DEF Shut
  <2>4. Good(a, x, M, P) /\ Closed(u, a) BY <2>1, <2>2, <2>3, RequestCloseRight
  <2>5. Shut(w, a) /\ a \in Worlds BY <2>2, <2>4 DEF Shut, Closed, Good
  <2>6. QED BY <1>3, <2>1, <2>4, <2>5
<1>6. PICK g : g = [z \in (1..N) \X S |-> RequestClose(z[2], cs[z[1]])] OBVIOUS
<1>7. Steps(g, N, S) BY <1>5, <1>6 DEF Steps
<1>8. PICK f : Iterated(f, N, S, w, g) BY <1>2, <1>4, <1>7, Iterates
<1>9. \A n \in 1..N : f[n] = RequestClose(f[n - 1], cs[n])
  <2> TAKE n \in 1..N
  <2>1. n - 1 \in 0..N BY <1>2
  <2>2. <<n, f[n - 1]>> \in (1..N) \X S BY <1>8, <2>1 DEF Iterated
  <2>3. QED BY <1>6, <1>8, <2>2 DEF Iterated
<1>10. f = [n \in 0..N |-> IF n = 0 THEN w ELSE RequestClose(f[n - 1], cs[n])]
  <2>1. \A n \in 0..N : n # 0 => n \in 1..N BY <1>2
  <2>2. QED BY <1>8, <1>9, <2>1 DEF Iterated
<1>11. \E h : h = [n \in 0..Len(cs) |-> IF n = 0 THEN w ELSE RequestClose(h[n - 1], cs[n])]
  BY <1>1, <1>10
<1> DEFINE upto[n \in 0..Len(cs)] == IF n = 0 THEN w ELSE RequestClose(upto[n - 1], cs[n])
<1>12. upto = [n \in 0..Len(cs) |-> IF n = 0 THEN w ELSE RequestClose(upto[n - 1], cs[n])]
  BY <1>11
<1>13. CloseAll(w, cs) = upto[Len(cs)] BY DEF CloseAll
<1> HIDE DEF upto
<1>14. PICK h : h = upto OBVIOUS
<1>15. h = [n \in 0..N |-> IF n = 0 THEN w ELSE RequestClose(h[n - 1], cs[n])] BY <1>1, <1>12, <1>14
<1>16. v = h[N] BY <1>1, <1>13, <1>14
<1>17. PICK R : R = {n \in 0..N : h[n] \in S} OBVIOUS
<1>18. 0 \in R BY <1>2, <1>4, <1>15, <1>17
<1>19. ASSUME NEW n \in 1..N, n - 1 \in R PROVE n \in R
  <2>1. n \in 0..N /\ n # 0 BY <1>2
  <2>2. h[n] = RequestClose(h[n - 1], cs[n]) BY <1>15, <2>1
  <2>3. h[n - 1] \in S BY <1>17, <1>19
  <2>4. QED BY <1>5, <1>17, <2>1, <2>2, <2>3
<1>20. v \in S
  <2>1. \A n \in 1..N : n - 1 \in R => n \in R BY <1>19
  <2>2. \A n \in 0..N : n \in R BY <1>2, <1>18, <2>1, Climb
  <2>3. QED BY <1>2, <1>16, <1>17, <2>2
<1>21. QED BY <1>3, <1>20

\* Every request of the realm's.
LeftQueue(w, u, D) ==
    /\ u.db = w.db /\ u.file = w.file /\ u.conns = w.conns /\ u.tx = w.tx
    /\ u.req = w.req /\ u.scheduled = w.scheduled
    /\ ToSet(u.queue) = ToSet(w.queue) \ D

LEMMA DequeueAllRight ==
    ASSUME NEW w, NEW x, NEW M, NEW P, Good(w, x, M, P), NEW rs \in Seq(Requests),
           ToSet(rs) \subseteq M, \A r \in Requests \cap M : w.req[r] = "ended",
           NEW v, v = DequeueAll(w, rs)
    PROVE  Good(v, x, M, P) /\ LeftQueue(w, v, ToSet(rs))
<1>1. PICK N : N = Len(rs) OBVIOUS
<1>2. N \in Nat /\ DOMAIN rs = 1..N BY <1>1
<1>3. PICK D : D = [n \in 0..N |-> {rs[i] : i \in 1..n}] OBVIOUS
<1>4. PICK F : F = [n \in 0..N |-> {u \in Worlds : Good(u, x, M, P) /\ LeftQueue(w, u, D[n])}]
  OBVIOUS
<1>5. w \in Worlds BY DEF Good
<1>6. w \in F[0]
  <2>1. D[0] = {} /\ 0 \in 0..N BY <1>2, <1>3
  <2>2. LeftQueue(w, w, D[0]) BY <2>1 DEF LeftQueue
  <2>3. QED BY <1>4, <1>5, <2>1, <2>2
<1>7. PICK g : g = [z \in (1..N) \X Worlds |-> Dequeue(z[2], rs[z[1]])] OBVIOUS
<1>8. ASSUME NEW n \in 1..N, NEW u \in F[n - 1]
      PROVE  /\ u \in Worlds /\ g[<<n, u>>] = Dequeue(u, rs[n])
             /\ Dequeue(u, rs[n]) \in F[n]
  <2>1. n - 1 \in 0..N /\ n \in 0..N /\ n \in DOMAIN rs BY <1>2
  <2>2. PICK d, r : d = D[n - 1] /\ r = rs[n] OBVIOUS
  <2>3. u \in Worlds /\ Good(u, x, M, P) /\ LeftQueue(w, u, d) BY <1>4, <1>8, <2>1, <2>2
  <2>4. D[n] = d \cup {r}
    <3>1. 1..n = 1..(n - 1) \cup {n} BY <1>2
    <3>2. QED BY <1>3, <2>1, <2>2, <3>1
  <2>5. r \in Requests /\ r \in M BY <2>1, <2>2 DEF ToSet
  <2>6. u.req[r] = "ended" BY <2>3, <2>5 DEF LeftQueue
  <2>7. M \cup {r} = M BY <2>5
  <2>8. /\ ScheduleRight(u, x) /\ TxsRight(u) /\ CountsRight(u) /\ DoorsRight(u, M)
        /\ EndedRight(u, M) /\ TasksRight(u, M, P) /\ QueueRight(u, M \cup {r})
    BY <2>3, <2>7 DEF Good
  <2>9. PICK a : a = Dequeue(u, r) OBVIOUS
  <2>10. /\ Good(a, x, M, P)
         /\ a.db = u.db /\ a.file = u.file /\ a.conns = u.conns
         /\ a.tx = u.tx /\ a.req = u.req /\ a.scheduled = u.scheduled
         /\ ToSet(a.queue) = ToSet(u.queue) \ {r}
    <3>1. Dequeueable(u, x, M, P, r) BY <2>3, <2>6, <2>8 DEF Dequeueable
    <3>2. Good(a, x, M, P) /\ Dequeued(u, a, r) BY <2>5, <2>9, <3>1, DequeueRight
    <3>3. QED BY <3>2 DEF Dequeued
  <2>11. LeftQueue(w, a, d \cup {r}) BY <2>3, <2>10 DEF LeftQueue
  <2>12. a \in Worlds BY <2>10 DEF Good
  <2>13. a \in F[n] BY <1>4, <2>1, <2>4, <2>10, <2>11, <2>12
  <2>14. <<n, u>> \in (1..N) \X Worlds BY <2>3
  <2>15. QED BY <1>7, <2>2, <2>3, <2>9, <2>13, <2>14
<1>9. Along(g, N, F) BY <1>8 DEF Along
<1>10. PICK f : Guiding(f, N, F, w, g)
  BY <1>2, <1>6, <1>9, Guided
<1>11. \A n \in 1..N : f[n] = Dequeue(f[n - 1], rs[n])
  <2> TAKE n \in 1..N
  <2>1. n - 1 \in 0..N BY <1>2
  <2>2. QED BY <1>8, <1>10, <2>1 DEF Guiding
<1>12. f = [n \in 0..N |-> IF n = 0 THEN w ELSE Dequeue(f[n - 1], rs[n])]
  <2>1. \A n \in 0..N : n # 0 => n \in 1..N BY <1>2
  <2>2. QED BY <1>10, <1>11, <2>1 DEF Guiding
<1>13. \E h : h = [n \in 0..Len(rs) |-> IF n = 0 THEN w ELSE Dequeue(h[n - 1], rs[n])]
  BY <1>1, <1>12
<1> DEFINE upto[n \in 0..Len(rs)] == IF n = 0 THEN w ELSE Dequeue(upto[n - 1], rs[n])
<1>14. upto = [n \in 0..Len(rs) |-> IF n = 0 THEN w ELSE Dequeue(upto[n - 1], rs[n])] BY <1>13
<1>15. DequeueAll(w, rs) = upto[Len(rs)] BY DEF DequeueAll
<1> HIDE DEF upto
<1>16. PICK h : h = upto OBVIOUS
<1>17. h = [n \in 0..N |-> IF n = 0 THEN w ELSE Dequeue(h[n - 1], rs[n])] BY <1>1, <1>14, <1>16
<1>18. v = h[N] BY <1>1, <1>15, <1>16
<1>19. PICK R : R = {n \in 0..N : h[n] \in F[n]} OBVIOUS
<1>20. 0 \in R BY <1>2, <1>6, <1>17, <1>19
<1>21. ASSUME NEW n \in 1..N, n - 1 \in R PROVE n \in R
  <2>1. n \in 0..N /\ n # 0 BY <1>2
  <2>2. h[n] = Dequeue(h[n - 1], rs[n]) BY <1>17, <2>1
  <2>3. h[n - 1] \in F[n - 1] BY <1>19, <1>21
  <2>4. QED BY <1>8, <1>19, <2>1, <2>2, <2>3
<1>22. N \in R
  <2>1. \A n \in 1..N : n - 1 \in R => n \in R BY <1>21
  <2>2. \A n \in 0..N : n \in R BY <1>2, <1>20, <2>1, Climb
  <2>3. QED BY <1>2, <2>2
<1>23. D[N] = ToSet(rs) BY <1>2, <1>3 DEF ToSet
<1>24. v \in F[N] /\ N \in 0..N BY <1>18, <1>19, <1>22
<1>25. Good(v, x, M, P) /\ LeftQueue(w, v, D[N]) BY <1>4, <1>24
<1>26. QED BY <1>23, <1>25

\* ~IdbRealm: from w the realm's own M are gone, those X of them in the schedule
\* dropped, its connections closed and its requests taken from the queue.
Ending(w, p, M, g, X, u, c, v) ==
    /\ M = {id \in Names : RealmOf[id] = p} /\ g = Gone(w, M) /\ X = IdsIn(w) \cap M
    /\ u = DropTransactions(g, Only(w.scheduled, {e \in ToSet(w.scheduled) : RealmOf[e.id] = p}))
    /\ c = CloseAll(u, SetToSeq({o \in Opens : RealmOf[o] = p /\ w.conns[o].open}))
    /\ v = DequeueAll(c, Only(w.queue, {r \in Requests : RealmOf[r] = p}))
Emptied(w, p, M, P, g, X, u, c, v) ==
    /\ v \in Worlds /\ ScheduleRight(v, {}) /\ TxsRight(v) /\ CountsRight(v)
    /\ QueueRight(v, {}) /\ DoorsRight(v, {}) /\ EndedRight(v, {}) /\ TasksRight(v, M, P)
    /\ Idle(v) /\ Dropped(g, u, X) /\ Shut(u, c)
    /\ LeftQueue(c, v, ToSet(Only(w.queue, {r \in Requests : RealmOf[r] = p})))

LEMMA EndRealmRight ==
    ASSUME NEW w, NEW P, Good(w, {}, {}, P), Idle(w), NEW p, NEW M, NEW g, NEW X, NEW u, NEW c, NEW v,
           Ending(w, p, M, g, X, u, c, v)
    PROVE  Emptied(w, p, M, P, g, X, u, c, v)
<1>1. w \in Worlds /\ w.scheduled \in Seq(Entries) /\ w.queue \in Seq(Requests) BY DEF Good, Worlds
<1>0. M = {id \in Names : RealmOf[id] = p} /\ g = Gone(w, M) /\ X = IdsIn(w) \cap M BY DEF Ending
<1>2. Good(g, X, M, P) /\ Idle(g) /\ IdsIn(g) = IdsIn(w)
  <2>1. g = Gone(w, M) /\ X = IdsIn(w) \cap M BY <1>0
  <2>2. QED BY <2>1, GoneRight
<1>3. /\ g.scheduled = w.scheduled /\ g.queue = w.queue
      /\ \A r \in Requests : r \in M => g.req[r] = "ended"
  <2>1. g = Gone(w, M) BY <1>0
  <2>2. QED BY <1>1, <2>1, GoneFacts
<1>4. X \subseteq M /\ \A r \in Requests \cap M : g.req[r] = "ended" BY <1>0, <1>3
<1>5. PICK s, A, es : /\ s = w.scheduled /\ A = {e \in ToSet(w.scheduled) : RealmOf[e.id] = p}
                      /\ es = Only(s, A)
  OBVIOUS
<1>6. /\ es \in Seq(Entries) /\ ToSet(es) = ToSet(s) \cap A
      /\ \A i, j \in DOMAIN es : i < j =>
            \E k, l \in DOMAIN s : k < l /\ es[i] = s[k] /\ es[j] = s[l]
  <2>1. s \in Seq(Entries) /\ es = Only(s, A) BY <1>1, <1>5
  <2>2. QED BY <2>1, OnlyFacts
<1>7. X = {es[i].id : i \in DOMAIN es}
  <2>1. IdsIn(w) = {e.id : e \in ToSet(s)} BY <1>5 DEF IdsIn, ToSet
  <2>2. {es[i].id : i \in DOMAIN es} = {e.id : e \in ToSet(es)} BY DEF ToSet
  <2>3. ToSet(es) = {e \in ToSet(s) : RealmOf[e.id] = p} BY <1>5, <1>6
  <2>4. \A e \in ToSet(s) : e.id \in Names
    <3>1. \A e \in ToSet(s) : e \in Entries BY <1>1, <1>5 DEF ToSet
    <3>2. QED BY <3>1 DEF Entries, Names, Transactions, Requests
  <2>5. \A e \in ToSet(s) : e.id \in M <=> RealmOf[e.id] = p
    <3>1. \A id \in Names : id \in M <=> RealmOf[id] = p BY <1>0
    <3>2. QED BY <2>4, <3>1
  <2>6. X = IdsIn(w) \cap M BY <1>0
  <2>7. QED BY <2>1, <2>2, <2>3, <2>5, <2>6
<1>8. \A i, j \in DOMAIN es : es[i].id = es[j].id => i = j
  <2>1. \A k, l \in DOMAIN s : s[k].id = s[l].id => k = l BY <1>5 DEF Good, ScheduleRight
  <2>2. DOMAIN s \subseteq Int /\ DOMAIN es \subseteq Int
    <3>1. s \in Seq(Entries) BY <1>1, <1>5
    <3>2. es \in Seq(Entries) BY <1>6
    <3>3. QED BY <3>1, <3>2
  <2>3. ASSUME NEW i \in DOMAIN es, NEW j \in DOMAIN es, i < j PROVE es[i].id # es[j].id
    <3>1. PICK k \in DOMAIN s, l \in DOMAIN s : k < l /\ es[i] = s[k] /\ es[j] = s[l]
      BY <1>6, <2>3
    <3>2. k # l BY <2>2, <3>1
    <3>3. QED BY <2>1, <3>1, <3>2
  <2>4. \A i, j \in DOMAIN es : i = j \/ i < j \/ j < i BY <2>2
  <2>5. QED BY <2>3, <2>4
<1>9. Good(u, {}, M, P) /\ Dropped(g, u, X)
  <2>1. u = DropTransactions(g, es) BY <1>5 DEF Ending
  <2>2. QED BY <1>2, <1>4, <1>6, <1>7, <1>8, <2>1, DropTransactionsRight
<1>10. PICK C, cs : C = {o \in Opens : RealmOf[o] = p /\ w.conns[o].open} /\ cs = SetToSeq(C) OBVIOUS
<1>11. cs \in Seq(Opens) /\ ToSet(cs) = C
  <2>1. C \in SUBSET Opens BY <1>10
  <2>2. IsFiniteSet(C)
    <3>1. C \in SUBSET Requests BY <2>1 DEF Requests
    <3>2. QED BY <3>1, NamesFinite, FS_Subset
  <2>3. QED BY <1>10, <2>1, <2>2, ListFacts
<1>12. \A i \in DOMAIN cs : u.req[cs[i]] = "ended"
  <2> TAKE i \in DOMAIN cs
  <2>1. cs[i] \in C BY <1>11 DEF ToSet
  <2>2. cs[i] \in Opens /\ RealmOf[cs[i]] = p BY <1>10, <2>1
  <2>3. cs[i] \in Requests \cap M BY <1>0, <2>2 DEF Requests, Names
  <2>4. u.req = g.req BY <1>9 DEF Dropped
  <2>5. QED BY <1>4, <2>3, <2>4
<1>13. Good(c, {}, M, P) /\ Shut(u, c)
  <2>1. c = CloseAll(u, cs) BY <1>10 DEF Ending
  <2>2. QED BY <1>9, <1>11, <1>12, <2>1, CloseAllRight
<1>14. PICK q, B, rs : q = w.queue /\ B = {r \in Requests : RealmOf[r] = p} /\ rs = Only(q, B) OBVIOUS
<1>15. rs \in Seq(Requests) /\ ToSet(rs) = ToSet(q) \cap B BY <1>1, <1>14, OnlyFacts
<1>16. ToSet(rs) \subseteq M BY <1>0, <1>14, <1>15 DEF Names
<1>17. \A r \in Requests \cap M : c.req[r] = "ended"
  <2>1. u.req = g.req BY <1>9 DEF Dropped
  <2>2. c.req = u.req BY <1>13 DEF Shut
  <2>3. QED BY <1>4, <2>1, <2>2
<1>18. Good(v, {}, M, P) /\ LeftQueue(c, v, ToSet(rs))
  <2>1. v = DequeueAll(c, rs) BY <1>14 DEF Ending
  <2>2. QED BY <1>13, <1>15, <1>16, <1>17, <2>1, DequeueAllRight
<1>19. v \in Worlds /\ v.queue \in Seq(Requests) BY <1>18 DEF Good, Worlds
<1>20. ToSet(v.queue) \cap M = {}
  <2>1. c.queue = q BY <1>3, <1>9, <1>13, <1>14 DEF Dropped, Shut
  <2>2. ToSet(v.queue) = ToSet(q) \ ToSet(rs) BY <1>18, <2>1 DEF LeftQueue
  <2>3. \A r \in ToSet(q) : r \in M => r \in B
    <3>1. ToSet(q) \subseteq Requests BY <1>1, <1>14 DEF ToSet
    <3>2. QED BY <1>0, <1>14, <3>1
  <2>4. QED BY <1>15, <2>2, <2>3
<1>21. IdsIn(v) \cap M = {}
  <2>1. v.scheduled = u.scheduled BY <1>13, <1>18 DEF Shut, LeftQueue
  <2>2. IdsIn(v) = IdsIn(u) BY <2>1 DEF IdsIn
  <2>3. IdsIn(u) = IdsIn(g) \ X BY <1>9 DEF Dropped
  <2>4. X = IdsIn(w) \cap M BY <1>0
  <2>5. QED BY <1>2, <2>2, <2>3, <2>4
<1>22. QueueRight(v, {})
  <2>1. QueueRight(v, M) BY <1>18 DEF Good
  <2>2. QED BY <1>20, <2>1 DEF QueueRight
<1>23. DoorsRight(v, {}) BY <1>18, <1>21 DEF Good, DoorsRight
<1>24. EndedRight(v, {}) BY <1>18, <1>21 DEF Good, EndedRight
<1>25. Idle(v)
  <2>1. v.tx = u.tx BY <1>13, <1>18 DEF Shut, LeftQueue
  <2>2. \A t \in Transactions : u.tx[t].state = g.tx[t].state BY <1>9 DEF Dropped
  <2>3. QED BY <1>2, <2>1, <2>2 DEF Idle
<1>26. ScheduleRight(v, {}) /\ TxsRight(v) /\ CountsRight(v) /\ TasksRight(v, M, P)
  BY <1>18 DEF Good
<1>27. LeftQueue(c, v, ToSet(Only(w.queue, {r \in Requests : RealmOf[r] = p}))) BY <1>14, <1>18
<1>28. QED BY <1>9, <1>13, <1>19, <1>22, <1>23, <1>24, <1>25, <1>26, <1>27 DEF Emptied

-----------------------------------------------------------------------------
(* What a step hands on to the event loops.                                 *)

\* A thread's tasks, some of them gone, and new ones that were not there.
Pile(q, a, l, r, n, S, R) ==
    \/ q = a \o (Only(l, S) \o n) \o (Only(r, R) \o <<>>)
    \/ q = a \o (Only(l, S) \o <<>>) \o (Only(r, R) \o n)

Fits(a, l, r, n, A) ==
    Few(a \o l \o r, A) /\ Few(n, A) /\ ToSet(a \o l \o r) \cap ToSet(n) \cap A = {}

Piled(q, a, l, r, n, S, R, A, T) ==
    /\ q \in Seq(T) /\ Few(q, A)
    /\ ToSet(q) \subseteq ToSet(a) \cup (ToSet(l) \cap S) \cup (ToSet(r) \cap R) \cup ToSet(n)

LEMMA PilesFew ==
    ASSUME NEW T, NEW a \in Seq(T), NEW l \in Seq(T), NEW r \in Seq(T), NEW n \in Seq(T),
           NEW A, NEW S, NEW R, Fits(a, l, r, n, A), NEW q, Pile(q, a, l, r, n, S, R)
    PROVE  Piled(q, a, l, r, n, S, R, A, T)
<1>0. Few(a \o l \o r, A) /\ Few(n, A) /\ ToSet(a \o l \o r) \cap ToSet(n) \cap A = {}
  BY DEF Fits
<1>1. PICK b, c : b = Only(l, S) /\ c = Only(r, R) OBVIOUS
<1>2. b \in Seq(T) /\ ToSet(b) = ToSet(l) \cap S BY <1>1, OnlyFacts
<1>3. c \in Seq(T) /\ ToSet(c) = ToSet(r) \cap R BY <1>1, OnlyFacts
<1>4. PICK al : al = a \o l OBVIOUS
<1>5. al \in Seq(T) /\ ToSet(al) = ToSet(a) \cup ToSet(l) BY <1>4, JoinFacts
<1>6. /\ Few(al, A) /\ Few(r, A) /\ ToSet(al) \cap ToSet(r) \cap A = {}
      /\ ToSet(a \o l \o r) = ToSet(al) \cup ToSet(r)
  <2>1. Few(al \o r, A) BY <1>0, <1>4
  <2>2. ToSet(al \o r) = ToSet(al) \cup ToSet(r) BY <1>5, JoinFacts
  <2>3. Few(al, A) /\ Few(r, A) /\ ToSet(al) \cap ToSet(r) \cap A = {} BY <1>5, <2>1, JoinFacts
  <2>4. QED BY <1>4, <2>2, <2>3
<1>7. Few(a, A) /\ Few(l, A) /\ ToSet(a) \cap ToSet(l) \cap A = {} BY <1>4, <1>6, JoinFacts
<1>8. Few(b, A) BY <1>1, <1>7, OnlyFew
<1>9. Few(c, A) BY <1>1, <1>6, OnlyFew
<1>10. (ToSet(a) \cup ToSet(l) \cup ToSet(r)) \cap ToSet(n) \cap A = {} BY <1>0, <1>5, <1>6
<1>11. b \o <<>> = b /\ c \o <<>> = c BY <1>2, <1>3
<1>12. CASE q = a \o (b \o n) \o c
  <2>1. PICK d : d = b \o n OBVIOUS
  <2>2. d \in Seq(T) /\ ToSet(d) = ToSet(b) \cup ToSet(n) BY <1>2, <2>1, JoinFacts
  <2>3. Few(d, A)
    <3>1. ToSet(b) \cap ToSet(n) \cap A = {} BY <1>2, <1>10
    <3>2. QED BY <1>0, <1>2, <1>8, <2>1, <3>1, JoinFacts
  <2>4. PICK e : e = a \o d OBVIOUS
  <2>5. e \in Seq(T) /\ ToSet(e) = ToSet(a) \cup ToSet(d) BY <2>2, <2>4, JoinFacts
  <2>6. Few(e, A)
    <3>1. ToSet(a) \cap ToSet(d) \cap A = {} BY <1>2, <1>7, <1>10, <2>2
    <3>2. QED BY <1>7, <2>2, <2>3, <2>4, <3>1, JoinFacts
  <2>7. q = e \o c BY <1>12, <2>1, <2>4
  <2>8. q \in Seq(T) /\ ToSet(q) = ToSet(e) \cup ToSet(c) BY <1>3, <2>5, <2>7, JoinFacts
  <2>9. Few(q, A)
    <3>1. ToSet(e) \cap ToSet(c) \cap A = {} BY <1>2, <1>3, <1>5, <1>6, <1>10, <2>2, <2>5
    <3>2. QED BY <1>3, <1>9, <2>5, <2>6, <2>7, <3>1, JoinFacts
  <2>10. QED BY <1>2, <1>3, <2>2, <2>5, <2>8, <2>9 DEF Piled
<1>13. CASE q = a \o b \o (c \o n)
  <2>1. PICK d : d = c \o n OBVIOUS
  <2>2. d \in Seq(T) /\ ToSet(d) = ToSet(c) \cup ToSet(n) BY <1>3, <2>1, JoinFacts
  <2>3. Few(d, A)
    <3>1. ToSet(c) \cap ToSet(n) \cap A = {} BY <1>3, <1>10
    <3>2. QED BY <1>0, <1>3, <1>9, <2>1, <3>1, JoinFacts
  <2>4. PICK e : e = a \o b OBVIOUS
  <2>5. e \in Seq(T) /\ ToSet(e) = ToSet(a) \cup ToSet(b) BY <1>2, <2>4, JoinFacts
  <2>6. Few(e, A)
    <3>1. ToSet(a) \cap ToSet(b) \cap A = {} BY <1>2, <1>7
    <3>2. QED BY <1>2, <1>7, <1>8, <2>4, <3>1, JoinFacts
  <2>7. q = e \o d BY <1>13, <2>1, <2>4
  <2>8. q \in Seq(T) /\ ToSet(q) = ToSet(e) \cup ToSet(d) BY <2>2, <2>5, <2>7, JoinFacts
  <2>9. Few(q, A)
    <3>1. ToSet(e) \cap ToSet(d) \cap A = {} BY <1>2, <1>3, <1>5, <1>6, <1>10, <2>2, <2>5
    <3>2. QED BY <2>2, <2>3, <2>5, <2>6, <2>7, <3>1, JoinFacts
  <2>10. QED BY <1>2, <1>3, <2>2, <2>5, <2>8, <2>9 DEF Piled
<1>14. QED BY <1>1, <1>11, <1>12, <1>13 DEF Pile, Piled

\* The whole after a step is what the step made of it.
LEMMA Sealed ==
    ASSUME NEW w \in Worlds, NEW th, Become(w, th)
    PROVE  /\ World' \in Worlds /\ World'.posts = <<>>
           /\ World'.db = w.db /\ World'.file = w.file /\ World'.queue = w.queue
           /\ World'.begun = w.begun /\ World'.watchers = w.watchers /\ World'.conns = w.conns
           /\ World'.scheduled = w.scheduled /\ World'.tx = w.tx /\ World'.req = w.req
<1>1. /\ db' = w.db /\ file' = w.file /\ queue' = w.queue /\ begun' = w.begun
      /\ watchers' = w.watchers /\ conns' = w.conns /\ scheduled' = w.scheduled
      /\ tx' = w.tx /\ req' = w.req
  BY DEF Become
<1>2. World' = [db |-> db', file |-> file', queue |-> queue', begun |-> begun',
                watchers |-> watchers', conns |-> conns', scheduled |-> scheduled', tx |-> tx',
                req |-> req', posts |-> <<>>]
  BY DEF World
<1>3. PICK v : v = World' OBVIOUS
<1>4. v = [db |-> w.db, file |-> w.file, queue |-> w.queue, begun |-> w.begun,
           watchers |-> w.watchers, conns |-> w.conns, scheduled |-> w.scheduled, tx |-> w.tx,
           req |-> w.req, posts |-> <<>>]
  BY <1>1, <1>2, <1>3
<1>5. <<>> \in Seq(Tasks) OBVIOUS
<1>6. v \in Worlds BY <1>4, <1>5 DEF Worlds
<1>7. QED BY <1>3, <1>4, <1>6

\* The tasks that a thread is given.
Ready(o, M, P) ==
    /\ tasks'[o] \in Seq(Tasks) /\ Few(tasks'[o] \o later[o] \o remote[o], Sole(M))
    /\ \A k \in ToSet(tasks'[o] \o later[o] \o remote[o]) : k \in P /\ ThreadOf[RealmOf[k.id]] = o
    /\ \A k \in ToSet(tasks'[o]) : k.id \notin M
HandedOn(o, w, M, P) ==
    /\ later'[o] \in Seq(Tasks) /\ remote'[o] \in Seq(Tasks)
    /\ Few(tasks'[o] \o later'[o] \o remote'[o], Sole({}))
    /\ \A k \in ToSet(tasks'[o] \o later'[o] \o remote'[o]) :
         /\ ThreadOf[RealmOf[k.id]] = o /\ k \in P \cup ToSet(w.posts) /\ k.id \notin M

LEMMA Handed ==
    ASSUME NEW th, NEW w \in Worlds, NEW P, NEW M, TasksRight(w, M, P), Become(w, th),
           later \in [Threads -> Seq(Tasks)], remote \in [Threads -> Seq(Tasks)],
           NEW o \in Threads, Ready(o, M, P),
           \A id \in Names : RealmOf[id] \in alive' => id \notin M
    PROVE  HandedOn(o, w, M, P)
<1>0. /\ tasks'[o] \in Seq(Tasks) /\ Few(tasks'[o] \o later[o] \o remote[o], Sole(M))
      /\ \A k \in ToSet(tasks'[o] \o later[o] \o remote[o]) : k \in P /\ ThreadOf[RealmOf[k.id]] = o
      /\ \A k \in ToSet(tasks'[o]) : k.id \notin M
  BY DEF Ready
<1> DEFINE Living(s) == {k \in ToSet(s) : RealmOf[k.id] \in alive'}
           Mine == {k \in Living(w.posts) : ThreadOf[RealmOf[k.id]] = o}
<1>1. PICK a, l, r, n, S, R, p :
        /\ a = tasks'[o] /\ l = later[o] /\ r = remote[o] /\ n = Only(w.posts, Mine)
        /\ S = Living(later[o]) /\ R = Living(remote[o]) /\ p = w.posts
  OBVIOUS
<1>2. p \in Seq(Tasks) /\ a \in Seq(Tasks) /\ l \in Seq(Tasks) /\ r \in Seq(Tasks)
  BY <1>0, <1>1 DEF Worlds
<1>3. n \in Seq(Tasks) /\ ToSet(n) = ToSet(p) \cap Mine BY <1>1, <1>2, OnlyFacts
<1>4. PICK A : A = Sole(M) OBVIOUS
<1>5. Few(n, A)
  <2>1. Few(p, A) BY <1>1, <1>4 DEF TasksRight
  <2>2. QED BY <1>1, <1>2, <2>1, OnlyFew
<1>6. Few(a \o l \o r, A) /\ ToSet(a \o l \o r) \cap ToSet(n) \cap A = {}
  <2>1. \A k \in ToSet(a \o l \o r) : k \in P BY <1>0, <1>1
  <2>2. P \cap ToSet(p) \cap A = {} BY <1>1, <1>4 DEF TasksRight
  <2>3. QED BY <1>0, <1>1, <1>3, <1>4, <2>1, <2>2
<1>7. PICK ln, rn : ln = later'[o] /\ rn = remote'[o] BY Zenon
<1>8. /\ ln = Only(l, S) \o (IF o = th THEN n ELSE <<>>)
      /\ rn = Only(r, R) \o (IF o = th THEN <<>> ELSE n)
  BY <1>1, <1>7 DEF Become
<1>9. Only(l, S) \in Seq(Tasks) /\ Only(r, R) \in Seq(Tasks) BY <1>2, OnlyFacts
<1>10. ln \in Seq(Tasks) /\ rn \in Seq(Tasks)
  <2>1. <<>> \in Seq(Tasks) OBVIOUS
  <2>2. QED BY <1>3, <1>8, <1>9, <2>1
<1>11. PICK q : q = a \o ln \o rn OBVIOUS
<1>12. Pile(q, a, l, r, n, S, R) BY <1>8, <1>11 DEF Pile
<1>13. /\ q \in Seq(Tasks) /\ Few(q, A)
       /\ ToSet(q) \subseteq ToSet(a) \cup (ToSet(l) \cap S) \cup (ToSet(r) \cap R) \cup ToSet(n)
  <2>1. Fits(a, l, r, n, A) BY <1>5, <1>6 DEF Fits
  <2>2. a \in Seq(Tasks) /\ l \in Seq(Tasks) /\ r \in Seq(Tasks) /\ n \in Seq(Tasks)
    BY <1>2, <1>3
  <2>3. Piled(q, a, l, r, n, S, R, A, Tasks) BY <1>12, <2>1, <2>2, PilesFew
  <2>4. QED BY <2>3 DEF Piled
<1>14. ToSet(a) \cup ToSet(l) \cup ToSet(r) \subseteq ToSet(a \o l \o r)
  <2>1. PICK al : al = a \o l OBVIOUS
  <2>2. al \in Seq(Tasks) /\ ToSet(al) = ToSet(a) \cup ToSet(l) BY <1>2, <2>1, JoinFacts
  <2>3. ToSet(al \o r) = ToSet(al) \cup ToSet(r) BY <1>2, <2>2, JoinFacts
  <2>4. QED BY <2>1, <2>2, <2>3
<1>15. ASSUME NEW k \in ToSet(q)
       PROVE  ThreadOf[RealmOf[k.id]] = o /\ k \in P \cup ToSet(p) /\ k.id \notin M
  <2>1. k \in Tasks BY <1>13 DEF ToSet
  <2>2. k.id \in Names BY <2>1 DEF Tasks
  <2>3. CASE k \in ToSet(a) BY <1>0, <1>1, <1>14, <2>3
  <2>4. CASE k \in ToSet(l) \cap S
    <3>1. RealmOf[k.id] \in alive' BY <1>1, <2>4
    <3>2. QED BY <1>0, <1>1, <1>14, <2>2, <2>4, <3>1
  <2>5. CASE k \in ToSet(r) \cap R
    <3>1. RealmOf[k.id] \in alive' BY <1>1, <2>5
    <3>2. QED BY <1>0, <1>1, <1>14, <2>2, <2>5, <3>1
  <2>6. CASE k \in ToSet(n)
    <3>1. k \in ToSet(p) /\ k \in Mine BY <1>3, <2>6
    <3>2. QED BY <2>2, <3>1
  <2>7. QED BY <1>13, <2>3, <2>4, <2>5, <2>6
<1>16. Few(q, Sole({}))
  <2>1. \A k \in ToSet(q) : k \in Sole({}) => k \in A BY <1>4, <1>15 DEF Sole
  <2>2. \A i \in DOMAIN q : q[i] \in ToSet(q) BY DEF ToSet
  <2>3. QED BY <1>13, <2>1, <2>2 DEF Few
<1>17. QED BY <1>1, <1>7, <1>10, <1>11, <1>15, <1>16 DEF HandedOn

LEMMA BecomeRight ==
    ASSUME NEW th, NEW w, NEW P, NEW M, w \in Worlds, ScheduleRight(w, {}), TxsRight(w),
           CountsRight(w), QueueRight(w, {}), DoorsRight(w, {}), EndedRight(w, {}),
           TasksRight(w, M, P), Idle(w), Become(w, th),
           later \in [Threads -> Seq(Tasks)], remote \in [Threads -> Seq(Tasks)],
           tasks' \in [Threads -> Seq(Tasks)], alive' \subseteq Realms,
           \A o \in Threads : Ready(o, M, P),
           \A id \in Names : RealmOf[id] \in alive' => id \notin M
    PROVE  IInv'
<1>1. /\ World' \in Worlds /\ World'.posts = <<>>
      /\ World'.db = w.db /\ World'.file = w.file /\ World'.queue = w.queue
      /\ World'.begun = w.begun /\ World'.watchers = w.watchers /\ World'.conns = w.conns
      /\ World'.scheduled = w.scheduled /\ World'.tx = w.tx /\ World'.req = w.req
  BY Sealed
<1>2. \A o \in Threads : HandedOn(o, w, M, P) BY Handed
<1>3. later' \in [Threads -> Seq(Tasks)] /\ remote' \in [Threads -> Seq(Tasks)]
  <2>1. later' = [o \in Threads |-> later'[o]] /\ remote' = [o \in Threads |-> remote'[o]]
    BY DEF Become
  <2>2. QED BY <1>2, <2>1 DEF HandedOn
<1>4. PICK v, Q : v = World' /\ Q = AllWaiting' OBVIOUS
<1>5. \A k \in Q : k \in P \cup ToSet(w.posts) /\ k.id \notin M
  BY <1>2, <1>4 DEF AllWaiting, WaitingOn, HandedOn
<1>6. \A k \in P \cup ToSet(w.posts) : k \in Tasks BY DEF TasksRight, Worlds, ToSet
<1>7. /\ ScheduleRight(v, {}) /\ TxsRight(v) /\ CountsRight(v) /\ DoorsRight(v, {})
      /\ EndedRight(v, {}) /\ \A t : Clear(w, t) => Clear(v, t)
  BY <1>1, <1>4, QueueApart
<1>8. QueueRight(v, {}) BY <1>1, <1>4 DEF QueueRight
<1>9. TasksRight(v, {}, Q)
  <2>1. ToSet(v.posts) = {} /\ Few(v.posts, Sole({})) BY <1>1, <1>4 DEF ToSet, Few
  <2>2. ASSUME NEW k \in Q PROVE k \in Tasks /\ Due(v, k)
    <3>1. k \in Tasks BY <1>5, <1>6
    <3>2. Due(w, k) BY <1>5 DEF TasksRight
    <3>3. QED BY <1>1, <1>4, <1>7, <3>1, <3>2, DueSame
  <2>3. QED BY <2>1, <2>2 DEF TasksRight
<1>10. Good(v, {}, {}, Q) BY <1>1, <1>4, <1>7, <1>8, <1>9 DEF Good
<1>11. Idle(v) BY <1>1, <1>4 DEF Idle
<1>12. /\ Idle(World)' /\ Good(World, {}, {}, AllWaiting)'
  <2>1. Idle(World') /\ Good(World', {}, {}, AllWaiting') BY <1>4, <1>10, <1>11
  <2>2. QED BY <2>1
<1>13. QED BY <1>2, <1>3, <1>12 DEF IInv, WaitingOn, HandedOn

\* A task taken from the front is not among the others, if there is but one.
LEMMA HeadApart ==
    ASSUME NEW T, NEW s \in Seq(T), s # <<>>, NEW l \in Seq(T), NEW r \in Seq(T), NEW A,
           Few(s \o l \o r, A)
    PROVE  /\ Few(Tail(s) \o l \o r, A)
           /\ ToSet(s \o l \o r) = {Head(s)} \cup ToSet(Tail(s) \o l \o r)
           /\ Head(s) \in A => Head(s) \notin ToSet(Tail(s) \o l \o r)
           /\ Tail(s) \in Seq(T)
<1>1. PICK h, t, sl : h = <<Head(s)>> /\ t = Tail(s) /\ sl = s \o l OBVIOUS
<1>2. t \in Seq(T) /\ Head(s) \in T /\ h \in Seq(T) /\ ToSet(h) = {Head(s)} /\ s = h \o t
  <2>1. Head(s) \in T /\ t \in Seq(T) BY <1>1
  <2>2. h \in Seq(T) /\ ToSet(h) = {Head(s)} BY <1>1, <2>1 DEF ToSet
  <2>3. s = h \o t BY <1>1
  <2>4. QED BY <2>1, <2>2, <2>3
<1>3. sl \in Seq(T) /\ ToSet(sl) = ToSet(s) \cup ToSet(l) BY <1>1, JoinFacts
<1>4. ToSet(s) = ToSet(h) \cup ToSet(t)
  <2>1. ToSet(h \o t) = ToSet(h) \cup ToSet(t) BY <1>2, JoinFacts
  <2>2. QED BY <1>2, <2>1
<1>5. Few(sl, A) /\ Few(r, A) /\ ToSet(sl) \cap ToSet(r) \cap A = {}
  <2>1. Few(sl \o r, A) BY <1>1
  <2>2. QED BY <1>3, <2>1, JoinFacts
<1>6. Few(s, A) /\ Few(l, A) /\ ToSet(s) \cap ToSet(l) \cap A = {} BY <1>1, <1>5, JoinFacts
<1>7. Few(t, A) /\ ToSet(h) \cap ToSet(t) \cap A = {}
  <2>1. Few(h \o t, A) BY <1>2, <1>6
  <2>2. QED BY <1>2, <2>1, JoinFacts
<1>8. PICK tl : tl = t \o l OBVIOUS
<1>9. tl \in Seq(T) /\ ToSet(tl) = ToSet(t) \cup ToSet(l) BY <1>2, <1>8, JoinFacts
<1>10. Few(tl, A)
  <2>1. ToSet(t) \cap ToSet(l) \cap A = {} BY <1>4, <1>6
  <2>2. QED BY <1>2, <1>6, <1>7, <1>8, <2>1, JoinFacts
<1>11. ToSet(tl \o r) = ToSet(tl) \cup ToSet(r) BY <1>9, JoinFacts
<1>12. Few(tl \o r, A)
  <2>1. ToSet(tl) \cap ToSet(r) \cap A = {} BY <1>3, <1>4, <1>5, <1>9
  <2>2. QED BY <1>5, <1>9, <1>10, <2>1, JoinFacts
<1>13. ToSet(sl \o r) = ToSet(sl) \cup ToSet(r) BY <1>3, JoinFacts
<1>14. ToSet(sl \o r) = {Head(s)} \cup ToSet(tl \o r) BY <1>2, <1>3, <1>4, <1>9, <1>11, <1>13
<1>15. Head(s) \in A => Head(s) \notin ToSet(tl \o r)
  BY <1>2, <1>3, <1>4, <1>5, <1>6, <1>7, <1>9, <1>11
<1>16. QED BY <1>1, <1>2, <1>8, <1>12, <1>14, <1>15

LEMMA FrontJoined ==
    ASSUME NEW T, NEW d \in T, NEW s \in Seq(T), NEW l \in Seq(T), NEW r \in Seq(T), NEW A,
           Few(s \o l \o r, A), d \notin ToSet(s \o l \o r)
    PROVE  /\ <<d>> \o s \in Seq(T) /\ Few((<<d>> \o s) \o l \o r, A)
           /\ ToSet((<<d>> \o s) \o l \o r) = {d} \cup ToSet(s \o l \o r)
           /\ ToSet(<<d>> \o s) = {d} \cup ToSet(s)
<1>1. PICK h, sl : h = <<d>> /\ sl = s \o l OBVIOUS
<1>2. h \in Seq(T) /\ ToSet(h) = {d} /\ Few(h, A) BY <1>1 DEF ToSet, Few
<1>3. sl \in Seq(T) /\ ToSet(sl) = ToSet(s) \cup ToSet(l) BY <1>1, JoinFacts
<1>4. ToSet(sl \o r) = ToSet(sl) \cup ToSet(r) BY <1>3, JoinFacts
<1>5. Few(sl, A) /\ Few(r, A) /\ ToSet(sl) \cap ToSet(r) \cap A = {}
  <2>1. Few(sl \o r, A) BY <1>1
  <2>2. QED BY <1>3, <2>1, JoinFacts
<1>6. Few(s, A) /\ Few(l, A) /\ ToSet(s) \cap ToSet(l) \cap A = {} BY <1>1, <1>5, JoinFacts
<1>7. d \notin ToSet(s) /\ d \notin ToSet(l) /\ d \notin ToSet(r) BY <1>1, <1>3, <1>4
<1>8. PICK e : e = h \o s OBVIOUS
<1>9. e \in Seq(T) /\ ToSet(e) = {d} \cup ToSet(s) BY <1>2, <1>8, JoinFacts
<1>10. Few(e, A)
  <2>1. ToSet(h) \cap ToSet(s) \cap A = {} BY <1>2, <1>7
  <2>2. QED BY <1>2, <1>6, <1>8, <2>1, JoinFacts
<1>11. PICK el : el = e \o l OBVIOUS
<1>12. el \in Seq(T) /\ ToSet(el) = ToSet(e) \cup ToSet(l) BY <1>9, <1>11, JoinFacts
<1>13. Few(el, A)
  <2>1. ToSet(e) \cap ToSet(l) \cap A = {} BY <1>6, <1>7, <1>9
  <2>2. QED BY <1>6, <1>9, <1>10, <1>11, <2>1, JoinFacts
<1>14. ToSet(el \o r) = ToSet(el) \cup ToSet(r) BY <1>12, JoinFacts
<1>15. Few(el \o r, A)
  <2>1. ToSet(el) \cap ToSet(r) \cap A = {} BY <1>3, <1>5, <1>7, <1>9, <1>12
  <2>2. QED BY <1>5, <1>12, <1>13, <2>1, JoinFacts
<1>16. QED BY <1>1, <1>3, <1>4, <1>8, <1>9, <1>11, <1>12, <1>14, <1>15

\* The tasks that wait while one of a thread's is run.
Rest(th, o) == IF o = th THEN Tail(tasks[o]) ELSE tasks[o]
Remaining(th) == UNION {ToSet(Rest(th, o) \o later[o] \o remote[o]) : o \in Threads}
Stacked(th, o) ==
    /\ Rest(th, o) \in Seq(Tasks) /\ Few(Rest(th, o) \o later[o] \o remote[o], Sole({}))
    /\ \A j \in ToSet(Rest(th, o) \o later[o] \o remote[o]) :
          ThreadOf[RealmOf[j.id]] = o /\ j \in Remaining(th)

LEMMA TakesRight ==
    ASSUME IInv, NEW th \in Threads, NEW kind, NEW id, Takes(th, kind, id),
           NEW k, k = Task(kind, id), NEW P, P = Remaining(th)
    PROVE  /\ k \in Tasks /\ Due(World, k) /\ Good(World, {}, {}, P) /\ Idle(World)
           /\ k \in Sole({}) => k \notin P
           /\ ThreadOf[RealmOf[id]] = th /\ \A o \in Threads : Stacked(th, o)
<1>1. tasks[th] # <<>> /\ Head(tasks[th]) = k BY DEF Takes
<1>2. \A o \in Threads :
        /\ tasks[o] \in Seq(Tasks) /\ later[o] \in Seq(Tasks) /\ remote[o] \in Seq(Tasks)
        /\ Few(tasks[o] \o later[o] \o remote[o], Sole({}))
        /\ \A j \in ToSet(tasks[o] \o later[o] \o remote[o]) : ThreadOf[RealmOf[j.id]] = o
  BY DEF IInv, WaitingOn
<1>3. /\ Few(Tail(tasks[th]) \o later[th] \o remote[th], Sole({}))
      /\ ToSet(tasks[th] \o later[th] \o remote[th])
            = {k} \cup ToSet(Tail(tasks[th]) \o later[th] \o remote[th])
      /\ k \in Sole({}) => k \notin ToSet(Tail(tasks[th]) \o later[th] \o remote[th])
      /\ Tail(tasks[th]) \in Seq(Tasks)
  <2>1. PICK s, l, r, A : s = tasks[th] /\ l = later[th] /\ r = remote[th] /\ A = Sole({}) OBVIOUS
  <2>2. s \in Seq(Tasks) /\ l \in Seq(Tasks) /\ r \in Seq(Tasks) /\ s # <<>> /\ Few(s \o l \o r, A)
    BY <1>1, <1>2, <2>1
  <2>3. /\ Few(Tail(s) \o l \o r, A)
        /\ ToSet(s \o l \o r) = {Head(s)} \cup ToSet(Tail(s) \o l \o r)
        /\ Head(s) \in A => Head(s) \notin ToSet(Tail(s) \o l \o r)
        /\ Tail(s) \in Seq(Tasks)
    BY <2>2, HeadApart
  <2>4. QED BY <1>1, <2>1, <2>3
<1>4. k \in AllWaiting
  <2>1. k \in ToSet(WaitingOn(th)) BY <1>3 DEF WaitingOn
  <2>2. QED BY <2>1 DEF AllWaiting
<1>5. ASSUME NEW o \in Threads PROVE Stacked(th, o)
  <2>1. CASE o = th BY <1>2, <1>3, <2>1 DEF Stacked, Rest, Remaining
  <2>2. CASE o # th BY <1>2, <2>2 DEF Stacked, Rest, Remaining
  <2>3. QED BY <2>1, <2>2
<1>6. P \subseteq AllWaiting
  <2>1. ASSUME NEW o \in Threads
        PROVE  ToSet(Rest(th, o) \o later[o] \o remote[o]) \subseteq ToSet(WaitingOn(o))
    <3>1. CASE o = th BY <1>3, <3>1 DEF Rest, WaitingOn
    <3>2. CASE o # th BY <3>2 DEF Rest, WaitingOn
    <3>3. QED BY <3>1, <3>2
  <2>2. QED BY <2>1 DEF AllWaiting, Remaining
<1>7. Good(World, {}, {}, AllWaiting) /\ Idle(World) BY DEF IInv
<1>8. Good(World, {}, {}, P)
  <2>1. TasksRight(World, {}, AllWaiting) BY <1>7 DEF Good
  <2>2. TasksRight(World, {}, P) BY <1>6, <2>1 DEF TasksRight
  <2>3. QED BY <1>7, <2>2 DEF Good
<1>9. k \in Tasks /\ Due(World, k) BY <1>4, <1>7 DEF Good, TasksRight
<1>10. ThreadOf[RealmOf[id]] = th
  <2>1. k.id = id BY DEF Task
  <2>2. k \in ToSet(tasks[th] \o later[th] \o remote[th]) BY <1>3
  <2>3. QED BY <1>2, <2>1, <2>2
<1>11. k \in Sole({}) => k \notin P
  <2>1. SUFFICES ASSUME k \in Sole({}), NEW o \in Threads,
                        k \in ToSet(Rest(th, o) \o later[o] \o remote[o])
                 PROVE  FALSE
    BY DEF Remaining
  <2>2. o = th BY <1>5, <1>10, <2>1 DEF Stacked, Task
  <2>3. QED BY <1>3, <2>1, <2>2 DEF Rest
<1>12. QED BY <1>5, <1>7, <1>8, <1>9, <1>10, <1>11

\* What a task leaves: itself gone, its event's end first.
NextFor(th, then, w, P) ==
    \/ then = <<>>
    \/ \E d \in Tasks : /\ then = <<d>> /\ Due(w, d) /\ d \notin P \cup ToSet(w.posts)
                        /\ ThreadOf[RealmOf[d.id]] = th

LEMMA TaskOverRight ==
    ASSUME IInv, NEW th \in Threads, NEW kind, NEW id, Takes(th, kind, id), NEW P, P = Remaining(th),
           NEW w, Good(w, {}, {}, P), Idle(w), NEW then, NextFor(th, then, w, P),
           TaskOver(th, w, then)
    PROVE  IInv'
<1>1. \A o \in Threads : Stacked(th, o) BY TakesRight
<1>2. /\ tasks \in [Threads -> Seq(Tasks)] /\ later \in [Threads -> Seq(Tasks)]
      /\ remote \in [Threads -> Seq(Tasks)] /\ alive \subseteq Realms
  BY DEF IInv
<1>3. tasks' = [tasks EXCEPT ![th] = then \o Tail(@)] /\ alive' = alive /\ Become(w, th)
  BY DEF TaskOver
<1>4. \A o \in Threads : tasks'[o] = IF o = th THEN then \o Rest(th, o) ELSE Rest(th, o)
  BY <1>2, <1>3 DEF Rest
<1>5. PICK Q : Q = P \cup ToSet(then) OBVIOUS
<1>6. w.posts \in Seq(Tasks) /\ w \in Worlds BY DEF Good, Worlds
<1>7. TasksRight(w, {}, P) BY DEF Good
<1>8. /\ ScheduleRight(w, {}) /\ TxsRight(w) /\ CountsRight(w) /\ QueueRight(w, {})
       /\ DoorsRight(w, {}) /\ EndedRight(w, {})
  BY DEF Good
<1>9. alive' \subseteq Realms BY <1>2, <1>3
<1>10. CASE then = <<>>
  <2>1. \A o \in Threads : tasks'[o] = Rest(th, o)
    BY <1>1, <1>4, <1>10 DEF Stacked
  <2>2. \A o \in Threads : Ready(o, {}, P) BY <1>1, <2>1 DEF Stacked, Ready
  <2>3. tasks' \in [Threads -> Seq(Tasks)]
    <3>1. \A o \in Threads : tasks'[o] \in Seq(Tasks) BY <2>2 DEF Ready
    <3>2. tasks' = [o \in Threads |-> tasks'[o]] BY <1>2, <1>3
    <3>3. QED BY <3>1, <3>2
  <2>4. PICK none : none = {} OBVIOUS
  <2>5. TasksRight(w, none, P) /\ \A o \in Threads : Ready(o, none, P) BY <1>7, <2>2, <2>4
  <2>6. \A i \in Names : RealmOf[i] \in alive' => i \notin none BY <2>4
  <2>7. QED BY <1>2, <1>3, <1>6, <1>8, <1>9, <2>3, <2>5, <2>6, BecomeRight
<1>11. CASE then # <<>>
  <2>1. PICK d \in Tasks : /\ then = <<d>> /\ Due(w, d) /\ d \notin P \cup ToSet(w.posts)
                           /\ ThreadOf[RealmOf[d.id]] = th
    BY <1>11 DEF NextFor
  <2>2. Q = P \cup {d} BY <1>5, <2>1 DEF ToSet
  <2>3. ASSUME NEW o \in Threads PROVE Ready(o, {}, Q)
    <3>1. PICK s, l, r, A : s = Rest(th, o) /\ l = later[o] /\ r = remote[o] /\ A = Sole({}) OBVIOUS
    <3>2. /\ s \in Seq(Tasks) /\ l \in Seq(Tasks) /\ r \in Seq(Tasks)
          /\ Few(s \o l \o r, A)
          /\ \A j \in ToSet(s \o l \o r) : ThreadOf[RealmOf[j.id]] = o /\ j \in P
      BY <1>1, <1>2, <3>1 DEF Stacked
    <3>3. CASE o = th
      <4>1. d \notin ToSet(s \o l \o r) BY <2>1, <3>2
      <4>2. /\ <<d>> \o s \in Seq(Tasks) /\ Few((<<d>> \o s) \o l \o r, A)
            /\ ToSet((<<d>> \o s) \o l \o r) = {d} \cup ToSet(s \o l \o r)
        BY <3>2, <4>1, FrontJoined
      <4>3. tasks'[o] = <<d>> \o s BY <1>4, <2>1, <3>1, <3>3
      <4>4. QED BY <2>1, <2>2, <3>1, <3>2, <3>3, <4>2, <4>3 DEF Ready
    <3>4. CASE o # th
      <4>1. tasks'[o] = s BY <1>4, <3>1, <3>4
      <4>2. QED BY <2>2, <3>1, <3>2, <4>1 DEF Ready
    <3>5. QED BY <3>3, <3>4
  <2>4. TasksRight(w, {}, Q)
    <3>1. Q \subseteq Tasks BY <1>7, <2>2 DEF TasksRight
    <3>2. \A k \in Q \cup ToSet(w.posts) : k.id \notin {} => Due(w, k)
      BY <1>7, <2>1, <2>2 DEF TasksRight
    <3>3. Q \cap ToSet(w.posts) \cap Sole({}) = {} BY <1>7, <2>1, <2>2 DEF TasksRight
    <3>4. QED BY <1>7, <3>1, <3>2, <3>3 DEF TasksRight
  <2>5. tasks' \in [Threads -> Seq(Tasks)]
    <3>1. \A o \in Threads : tasks'[o] \in Seq(Tasks) BY <2>3 DEF Ready
    <3>2. tasks' = [o \in Threads |-> tasks'[o]] BY <1>2, <1>3
    <3>3. QED BY <3>1, <3>2
  <2>6. PICK none : none = {} OBVIOUS
  <2>7. TasksRight(w, none, Q) /\ \A o \in Threads : Ready(o, none, Q) BY <2>3, <2>4, <2>6
  <2>8. \A i \in Names : RealmOf[i] \in alive' => i \notin none BY <2>6
  <2>9. QED BY <1>2, <1>3, <1>6, <1>8, <1>9, <2>5, <2>7, <2>8, BecomeRight
<1>12. QED BY <1>10, <1>11

LEMMA ActsRight ==
    ASSUME IInv, NEW p, NEW w, Acts(p, w), Good(w, {}, {}, AllWaiting), Idle(w)
    PROVE  IInv'
<1>1. /\ tasks \in [Threads -> Seq(Tasks)] /\ later \in [Threads -> Seq(Tasks)]
      /\ remote \in [Threads -> Seq(Tasks)] /\ alive \subseteq Realms
      /\ \A o \in Threads : /\ Few(WaitingOn(o), Sole({}))
                            /\ \A k \in ToSet(WaitingOn(o)) : ThreadOf[RealmOf[k.id]] = o
  BY DEF IInv
<1>2. tasks' = tasks /\ alive' = alive /\ Become(w, ThreadOf[p]) BY DEF Acts
<1>3. ASSUME NEW o \in Threads PROVE Ready(o, {}, AllWaiting)
  <2>1. \A k \in ToSet(WaitingOn(o)) : k \in AllWaiting BY DEF AllWaiting
  <2>2. QED BY <1>1, <1>2, <2>1 DEF Ready, WaitingOn
<1>4. w \in Worlds BY DEF Good
<1>5. PICK th, Q : th = ThreadOf[p] /\ Q = AllWaiting OBVIOUS
<1>6. Become(w, th) /\ \A o \in Threads : Ready(o, {}, Q) BY <1>2, <1>3, <1>5
<1>7. Good(w, {}, {}, Q) BY <1>5
<1>8. QED BY <1>1, <1>2, <1>4, <1>6, <1>7, BecomeRight DEF Good

\* Realm::run_pending moves tasks, and nothing else.
LEMMA RunPendingRight ==
    ASSUME IInv, NEW th \in Threads, RunPending(th)
    PROVE  IInv' /\ World' = World
<1>1. /\ tasks \in [Threads -> Seq(Tasks)] /\ later \in [Threads -> Seq(Tasks)]
      /\ remote \in [Threads -> Seq(Tasks)] /\ alive \subseteq Realms
  BY DEF IInv
<1>2. /\ tasks[th] = <<>> /\ tasks' = [tasks EXCEPT ![th] = later[th] \o remote[th]]
      /\ later' = [later EXCEPT ![th] = <<>>] /\ remote' = [remote EXCEPT ![th] = <<>>]
      /\ alive' = alive
  BY DEF RunPending
<1>3. World' = World BY DEF RunPending, World
<1>4. ASSUME NEW o \in Threads
      PROVE  /\ tasks'[o] \in Seq(Tasks) /\ later'[o] \in Seq(Tasks) /\ remote'[o] \in Seq(Tasks)
             /\ WaitingOn(o)' = WaitingOn(o)
  <2>1. CASE o = th
    <3>1. tasks'[o] = later[o] \o remote[o] /\ later'[o] = <<>> /\ remote'[o] = <<>>
      BY <1>1, <1>2, <2>1
    <3>2. PICK l, r : l = later[o] /\ r = remote[o] OBVIOUS
    <3>3. l \in Seq(Tasks) /\ r \in Seq(Tasks) BY <1>1, <3>2
    <3>4. <<>> \o l \o r = l \o r \o <<>> \o <<>> BY <3>3
    <3>5. l \o r \in Seq(Tasks) /\ <<>> \in Seq(Tasks) BY <3>3
    <3>6. QED BY <1>2, <2>1, <3>1, <3>2, <3>4, <3>5 DEF WaitingOn
  <2>2. CASE o # th
    <3>1. tasks'[o] = tasks[o] /\ later'[o] = later[o] /\ remote'[o] = remote[o]
      BY <1>1, <1>2, <2>2
    <3>2. QED BY <1>1, <3>1 DEF WaitingOn
  <2>3. QED BY <2>1, <2>2
<1>5. /\ tasks' \in [Threads -> Seq(Tasks)] /\ later' \in [Threads -> Seq(Tasks)]
      /\ remote' \in [Threads -> Seq(Tasks)]
  <2>1. /\ tasks' = [o \in Threads |-> tasks'[o]] /\ later' = [o \in Threads |-> later'[o]]
        /\ remote' = [o \in Threads |-> remote'[o]]
    BY <1>1, <1>2
  <2>2. QED BY <1>4, <2>1
<1>6. AllWaiting' = AllWaiting BY <1>4 DEF AllWaiting
<1>7. \A o \in Threads : /\ Few(WaitingOn(o)', Sole({}))
                         /\ \A k \in ToSet(WaitingOn(o)') : ThreadOf[RealmOf[k.id]] = o
  BY <1>4 DEF IInv
<1>8. /\ Idle(World)' /\ Good(World, {}, {}, AllWaiting)'
  <2>1. Idle(World') /\ Good(World', {}, {}, AllWaiting') BY <1>3, <1>6 DEF IInv
  <2>2. QED BY <2>1
<1>9. QED BY <1>1, <1>2, <1>3, <1>5, <1>7, <1>8 DEF IInv

-----------------------------------------------------------------------------
(* The steps.                                                               *)

\* What a step may be.
Steady(w, v, t) ==
    /\ v.db = w.db /\ v.scheduled = w.scheduled /\ \A u \in Transactions \ {t} : v.tx[u] = w.tx[u]
    /\ v.tx[t].undo = w.tx[t].undo /\ v.tx[t].saved = w.tx[t].saved /\ v.tx[t].plan = w.tx[t].plan
    /\ v.tx[t].state = w.tx[t].state \/ (v.tx[t].state \in Busy /\ w.tx[t].state \in Busy)
Begun(w, v) == \E t \in Transactions : Steady(w, v, t)
Going(w, v) == \E t \in Transactions : Acted(w, v, t) /\ w.tx[t].state \in {"Inactive", "Committing"}
Done(w, v) == \E t \in Transactions : Completed(w, v, t) /\ w.tx[t].state = "Committing"
Refused(w, v) == \E t \in Transactions : Rejected(w, v, t) /\ w.tx[t].state = "Finished"
Entered(w, v) == \E t \in Made : \E c \in Opens : \E j \in Worlds :
    w.tx[t].state = "unmade" /\ Joined(w, j, t, AsMade(t, c)) /\ Acted(j, v, t)
Wiped(w, v) == v.db = Nothing /\ v.tx = w.tx /\ IdsIn(w) = {} /\ IdsIn(v) = {}
Raised(w, v) == \E r \in Opens : Upgraded(w, v, r)
Parted(w, v) == \E M \in SUBSET Names : \E u :
    /\ Dropped(Gone(w, M), u, IdsIn(w) \cap M)
    /\ v.db = u.db /\ v.tx = u.tx /\ v.scheduled = u.scheduled
Stepped(w, v) ==
    \/ Quiet(w, v) \/ Begun(w, v) \/ Going(w, v) \/ Done(w, v) \/ Refused(w, v)
    \/ Entered(w, v) \/ Wiped(w, v) \/ Raised(w, v) \/ Parted(w, v)

\* The next state is v, but for what it posts.
After(v) ==
    /\ v \in Worlds
    /\ World'.db = v.db /\ World'.file = v.file /\ World'.queue = v.queue
    /\ World'.begun = v.begun /\ World'.watchers = v.watchers /\ World'.conns = v.conns
    /\ World'.scheduled = v.scheduled /\ World'.tx = v.tx /\ World'.req = v.req
Stays == IInv' /\ \E v : Stepped(World, v) /\ After(v)

LEMMA TaskStays ==
    ASSUME IInv, NEW th \in Threads, NEW kind, NEW id, Takes(th, kind, id), NEW P, P = Remaining(th),
           NEW w, Good(w, {}, {}, P), Idle(w), NEW then, NextFor(th, then, w, P),
           TaskOver(th, w, then), Stepped(World, w)
    PROVE  Stays
<1>1. IInv' BY TaskOverRight
<1>2. Become(w, th) /\ w \in Worlds BY DEF TaskOver, Good
<1>3. After(w) BY <1>2, Sealed DEF After
<1>4. QED BY <1>1, <1>3 DEF Stays

LEMMA ActStays ==
    ASSUME IInv, NEW p, NEW w, Acts(p, w), Good(w, {}, {}, AllWaiting), Idle(w), Stepped(World, w)
    PROVE  Stays
<1>1. IInv' BY ActsRight
<1>2. Become(w, ThreadOf[p]) /\ w \in Worlds BY DEF Acts, Good
<1>3. PICK th : th = ThreadOf[p] OBVIOUS
<1>4. Become(w, th) BY <1>2, <1>3
<1>5. After(w) BY <1>2, <1>4, Sealed DEF After
<1>6. QED BY <1>1, <1>5 DEF Stays

\* Nobody is active where nobody was and the one at work is not.
LEMMA IdleOn ==
    ASSUME NEW w, NEW v, NEW t, Idle(w), v.tx[t].state # "Active",
           \A u \in Transactions \ {t} : v.tx[u] = w.tx[u]
    PROVE  Idle(v)
BY DEF Idle

LEMMA ActedIdle ==
    ASSUME NEW w, NEW v, NEW t, Idle(w), Acted(w, v, t)
    PROVE  Idle(v)
<1>1. v.tx[t].state # "Active" BY DEF Acted
<1>2. \A u \in Transactions \ {t} : v.tx[u] = w.tx[u] BY DEF Acted, Worked, Scrapped
<1>3. QED BY <1>1, <1>2, IdleOn

\* What a task finds.
Finds(th, kind, id, P) ==
    /\ Due(World, Task(kind, id)) /\ Good(World, {}, {}, P) /\ Idle(World)
    /\ kind \in {"commit", "aborted", "done", "begin", "others"} => Task(kind, id) \notin P
    /\ ThreadOf[RealmOf[id]] = th /\ P \subseteq Tasks

LEMMA Found ==
    ASSUME IInv, NEW th \in Threads, NEW kind, NEW id, Takes(th, kind, id), NEW P, P = Remaining(th)
    PROVE  Finds(th, kind, id, P)
<1>1. PICK k : k = Task(kind, id) OBVIOUS
<1>2. /\ k \in Tasks /\ Due(World, k) /\ Good(World, {}, {}, P) /\ Idle(World)
      /\ k \in Sole({}) => k \notin P
      /\ ThreadOf[RealmOf[id]] = th
  BY <1>1, TakesRight
<1>3. P \subseteq Tasks BY <1>2 DEF Good, TasksRight
<1>4. kind \in {"commit", "aborted", "done", "begin", "others"} => k \in Sole({})
  BY <1>1, <1>2 DEF Sole, Task
<1>5. QED BY <1>1, <1>2, <1>3, <1>4 DEF Finds

LEMMA WorldParts ==
    /\ World.db = db /\ World.file = file /\ World.queue = queue /\ World.begun = begun
    /\ World.watchers = watchers /\ World.conns = conns /\ World.scheduled = scheduled
    /\ World.tx = tx /\ World.req = req /\ World.posts = <<>> /\ ToSet(World.posts) = {}
BY DEF World, ToSet

LEMMA RunPendingStays ==
    ASSUME IInv, NEW th \in Threads, RunPending(th)
    PROVE  Stays
<1>1. IInv' /\ World' = World BY RunPendingRight
<1>2. PICK w : w = World OBVIOUS
<1>3. w \in Worlds BY <1>2 DEF IInv, Good
<1>4. After(w) /\ Stepped(World, w) BY <1>1, <1>2, <1>3 DEF After, Stepped, Quiet
<1>5. QED BY <1>1, <1>4 DEF Stays

LEMMA RunOpenStays ==
    ASSUME IInv, NEW th \in Threads, NEW r, RunOpen(th, r)
    PROVE  Stays
<1>1. Takes(th, "begin", r) /\ r \in Opens BY DEF RunOpen
<1>2. PICK P, w : P = Remaining(th) /\ w = World OBVIOUS
<1>3. Finds(th, "begin", r, P) BY <1>1, <1>2, Found
<1>4. Good(w, {}, {}, P) /\ Idle(w) /\ r \in w.begun /\ w.req[r] = "queued"
  BY <1>2, <1>3 DEF Finds, Due, Task
<1>5. Task("begin", r) \notin P \cup ToSet(w.posts) BY <1>2, <1>3, WorldParts DEF Finds
<1>6. PICK wanted, u : /\ wanted = VersionWanted(World, r)
                       /\ u = [w EXCEPT !.conns[r].open = TRUE, !.conns[r].version = w.db.version]
  OBVIOUS
<1>7. PICK v : v = IF w.db.version > wanted THEN Settle(w, r, "error")
                   ELSE IF w.db.version = wanted THEN Settle(u, r, "success")
                   ELSE Post([u EXCEPT !.req[r] = "waiting"], "others", r)
  OBVIOUS
<1>a. Opened(w, u, v, r, wanted) BY <1>6, <1>7 DEF Opened
<1>8. Good(v, {}, {}, P) /\ Quiet(w, v) BY <1>1, <1>4, <1>5, <1>a, RunOpenRight
<1>9. TaskOver(th, v, <<>>)
  BY <1>2, <1>6, <1>7, WorldParts DEF RunOpen
<1>10. PICK then : then = <<>> OBVIOUS
<1>11. NextFor(th, then, v, P) /\ TaskOver(th, v, then) BY <1>9, <1>10 DEF NextFor
<1>12. Idle(v) /\ Stepped(World, v) BY <1>2, <1>4, <1>8 DEF Idle, Stepped, Quiet
<1>13. QED BY <1>1, <1>2, <1>8, <1>11, <1>12, TaskStays

LEMMA RunDeleteStays ==
    ASSUME IInv, NEW th \in Threads, NEW r, RunDelete(th, r)
    PROVE  Stays
<1>1. Takes(th, "begin", r) /\ r \in Deletes BY DEF RunDelete
<1>2. PICK P, w : P = Remaining(th) /\ w = World OBVIOUS
<1>3. Finds(th, "begin", r, P) BY <1>1, <1>2, Found
<1>4. Good(w, {}, {}, P) /\ Idle(w) /\ r \in w.begun /\ w.req[r] = "queued"
  BY <1>2, <1>3 DEF Finds, Due, Task
<1>5. Task("begin", r) \notin P \cup ToSet(w.posts) BY <1>2, <1>3, WorldParts DEF Finds
<1>6. PICK v : v = IF w.db.version = 0 THEN Settle(w, r, "success")
                   ELSE Post([w EXCEPT !.req[r] = "waiting"], "others", r)
  OBVIOUS
<1>7. Good(v, {}, {}, P) /\ v.db = w.db /\ v.tx = w.tx /\ v.scheduled = w.scheduled
  BY <1>1, <1>4, <1>5, <1>6, RunDeleteRight
<1>8. TaskOver(th, v, <<>>) BY <1>2, <1>6, WorldParts DEF RunDelete
<1>9. PICK then : then = <<>> OBVIOUS
<1>10. NextFor(th, then, v, P) /\ TaskOver(th, v, then) BY <1>8, <1>9 DEF NextFor
<1>11. Idle(v) /\ Stepped(World, v) BY <1>2, <1>4, <1>7 DEF Idle, Stepped, Quiet
<1>12. QED BY <1>1, <1>2, <1>7, <1>10, <1>11, TaskStays

\* A request goes on once nobody else's connection is open.
LEMMA ProceedStays ==
    ASSUME IInv, NEW th \in Threads, NEW kind, NEW r \in Requests, Takes(th, kind, r),
           NEW P, P = Remaining(th), Task("others", r) \notin P, req[r] = "waiting",
           ~OthersOpen(World, Connection(r)), NEW script \in FirstScripts(r),
           NEW b, b = [World EXCEPT !.watchers = @ \ {r}],
           TaskOver(th, Proceed(b, r, script), <<>>)
    PROVE  Stays
<1>1. PICK w, v : w = World /\ v = Proceed(b, r, script) OBVIOUS
<1>2. Finds(th, kind, r, P) BY Found
<1>3. Good(w, {}, {}, P) /\ Idle(w) /\ w.req[r] = "waiting" /\ ~OthersOpen(w, Connection(r))
  BY <1>1, <1>2, WorldParts DEF Finds
<1>4. Task("others", r) \notin P \cup ToSet(w.posts) BY <1>1, WorldParts
<1>5. b = [w EXCEPT !.watchers = @ \ {r}] BY <1>1
<1>6. Good(v, {}, {}, P) /\ Idle(v) /\ Stepped(w, v)
  <2>1. CASE r \in Deletes
    <3>1. v = Settle(Erased(b), r, "success") BY <1>1, <2>1 DEF Proceed
    <3>2. Good(v, {}, {}, P) /\ v.db = Nothing /\ v.tx = w.tx /\ IdsIn(w) = {} /\ IdsIn(v) = {}
      BY <1>3, <1>4, <1>5, <2>1, <3>1, EraseRight
    <3>3. Idle(v) /\ Stepped(w, v) BY <1>3, <3>2 DEF Idle, Stepped, Wiped
    <3>4. QED BY <3>2, <3>3
  <2>2. CASE r \in Opens
    <3>1. r \notin Deletes BY <2>2, NamesAssumption
    <3>2. v = RunUpgrade(b, r, script) BY <1>1, <3>1 DEF Proceed
    <3>3. script \in Scripts([mode |-> "versionchange", scope |-> Stores], MaxOps[r])
      BY <2>2 DEF FirstScripts
    <3>4. Good(v, {}, {}, P) /\ Upgraded(w, v, r)
      BY <1>3, <1>4, <1>5, <2>2, <3>2, <3>3, UpgradeRight
    <3>5. Idle(v) BY <1>3, <3>4, IdleOn DEF Upgraded
    <3>6. Stepped(w, v) BY <2>2, <3>4 DEF Stepped, Raised
    <3>7. QED BY <3>4, <3>5, <3>6
  <2>3. QED BY <2>1, <2>2 DEF Requests
<1>7. PICK then : then = <<>> OBVIOUS
<1>8. NextFor(th, then, v, P) /\ TaskOver(th, v, then) BY <1>1, <1>7 DEF NextFor
<1>9. Stepped(World, v) BY <1>1, <1>6
<1>10. QED BY <1>6, <1>8, <1>9, TaskStays

\* A task that finds nothing left to do.
LEMMA NothingStays ==
    ASSUME IInv, NEW th \in Threads, NEW kind, NEW id, Takes(th, kind, id), TaskOver(th, World, <<>>)
    PROVE  Stays
<1>1. PICK P, w, then : P = Remaining(th) /\ w = World /\ then = <<>> OBVIOUS
<1>2. Finds(th, kind, id, P) BY <1>1, Found
<1>3. Good(w, {}, {}, P) /\ Idle(w) BY <1>1, <1>2 DEF Finds
<1>4. NextFor(th, then, w, P) /\ TaskOver(th, w, then) BY <1>1 DEF NextFor
<1>5. Stepped(World, w) BY <1>1 DEF Stepped, Quiet
<1>6. QED BY <1>1, <1>3, <1>4, <1>5, TaskStays

LEMMA WhenOthersClosedStays ==
    ASSUME IInv, NEW th \in Threads, NEW r \in Requests, WhenOthersClosed(th, r)
    PROVE  Stays
<1>1. Takes(th, "others", r) BY DEF WhenOthersClosed
<1>2. PICK P, w, kind : P = Remaining(th) /\ w = World /\ kind = "others" OBVIOUS
<1>3. Finds(th, "others", r, P) BY <1>1, <1>2, Found
<1>4. /\ Good(w, {}, {}, P) /\ Idle(w) /\ w.req[r] = "waiting" /\ r \notin w.watchers
      /\ Task("others", r) \notin P
  BY <1>2, <1>3 DEF Finds, Due, Task
<1>5. w.watchers \subseteq Requests BY <1>4 DEF Good, Worlds
<1>6. Task("others", r) \notin P \cup ToSet(w.posts) BY <1>2, <1>4, WorldParts
<1>7. CASE OthersOpen(World, Connection(r))
  <2>1. PICK v : v = [w EXCEPT !.watchers = @ \cup {r}] OBVIOUS
  <2>2. Good(v, {}, {}, P) /\ v.db = w.db /\ v.tx = w.tx /\ v.scheduled = w.scheduled
    BY <1>4, <1>6, <2>1, WatchRight
  <2>3. TaskOver(th, v, <<>>) BY <1>2, <1>7, <2>1 DEF WhenOthersClosed
  <2>4. PICK then : then = <<>> OBVIOUS
  <2>5. NextFor(th, then, v, P) /\ TaskOver(th, v, then) BY <2>3, <2>4 DEF NextFor
  <2>6. Idle(v) /\ Stepped(World, v) BY <1>2, <1>4, <2>2 DEF Idle, Stepped, Quiet
  <2>7. Takes(th, kind, r) BY <1>1, <1>2
  <2>8. QED BY <1>2, <2>2, <2>5, <2>6, <2>7, TaskStays
<1>8. CASE ~OthersOpen(World, Connection(r))
  <2>1. PICK script \in FirstScripts(r) : TaskOver(th, Proceed(World, r, script), <<>>)
    BY <1>8 DEF WhenOthersClosed
  <2>2. PICK b : b = [World EXCEPT !.watchers = @ \ {r}] OBVIOUS
  <2>3. b = World
    <3>1. World.watchers \ {r} = World.watchers BY <1>2, <1>4
    <3>2. World \in Worlds BY <1>2, <1>4 DEF Good
    <3>3. QED BY <2>2, <3>1, <3>2 DEF Worlds
  <2>4. TaskOver(th, Proceed(b, r, script), <<>>) BY <2>1, <2>3
  <2>5. Takes(th, kind, r) /\ req[r] = "waiting" BY <1>1, <1>2, <1>4, WorldParts
  <2>6. QED BY <1>2, <1>4, <1>8, <2>2, <2>4, <2>5, ProceedStays
<1>9. QED BY <1>7, <1>8

LEMMA RecheckStays ==
    ASSUME IInv, NEW th \in Threads, NEW r \in Requests, Recheck(th, r)
    PROVE  Stays
<1>1. Takes(th, "recheck", r) BY DEF Recheck
<1>2. PICK P, w, kind : P = Remaining(th) /\ w = World /\ kind = "recheck" OBVIOUS
<1>3. Finds(th, "recheck", r, P) BY <1>1, <1>2, Found
<1>4. /\ Good(w, {}, {}, P) /\ Idle(w)
      /\ w.req[r] = "waiting" => r \in w.watchers
  BY <1>2, <1>3 DEF Finds, Due, Task
<1>5. Takes(th, kind, r) BY <1>1, <1>2
<1>6. CASE req[r] # "waiting" \/ OthersOpen(World, Connection(r))
  <2>1. TaskOver(th, World, <<>>) BY <1>6 DEF Recheck
  <2>2. QED BY <1>5, <2>1, NothingStays
<1>7. CASE ~(req[r] # "waiting" \/ OthersOpen(World, Connection(r)))
  <2>1. PICK script \in FirstScripts(r) :
           TaskOver(th, Proceed([World EXCEPT !.watchers = @ \ {r}], r, script), <<>>)
    BY <1>7 DEF Recheck
  <2>2. PICK b : b = [World EXCEPT !.watchers = @ \ {r}] OBVIOUS
  <2>3. TaskOver(th, Proceed(b, r, script), <<>>) BY <2>1, <2>2
  <2>4. Task("others", r) \notin P
    <3>1. PICK k : k = Task("others", r) OBVIOUS
    <3>2. k.kind = "others" /\ k.id = r BY <3>1 DEF Task
    <3>3. w.req[r] = "waiting" BY <1>2, <1>7, WorldParts
    <3>4. ~Due(w, k) BY <1>4, <3>2, <3>3 DEF Due
    <3>5. k \notin P BY <1>4, <3>4 DEF Good, TasksRight
    <3>6. QED BY <3>1, <3>5
  <2>5. req[r] = "waiting" /\ ~OthersOpen(World, Connection(r)) BY <1>7
  <2>6. QED BY <1>2, <1>5, <2>2, <2>3, <2>4, <2>5, ProceedStays
<1>8. QED BY <1>6, <1>7

LEMMA UpgradeDoneStays ==
    ASSUME IInv, NEW th \in Threads, NEW r \in Requests, UpgradeDone(th, r)
    PROVE  Stays
<1>1. Takes(th, "done", r) BY DEF UpgradeDone
<1>2. PICK P, w, kind : P = Remaining(th) /\ w = World /\ kind = "done" OBVIOUS
<1>3. Finds(th, "done", r, P) BY <1>1, <1>2, Found
<1>4. /\ Good(w, {}, {}, P) /\ Idle(w) /\ r \in Opens /\ w.tx[r].state \in {"complete", "abort"}
      /\ w.req[r] = "upgrading" /\ Task("done", r) \notin P
  BY <1>2, <1>3 DEF Finds, Due, Task
<1>5. PICK b, how, v :
        /\ b = IF tx[r].state = "complete" THEN World ELSE RequestClose(World, r)
        /\ how = IF tx[r].state = "complete" /\ ~conns[r].closePending THEN "success" ELSE "error"
        /\ v = Settle(b, r, how)
  OBVIOUS
<1>6. b = w \/ b = RequestClose(w, r) BY <1>2, <1>5
<1>7. how \in {"success", "error"} BY <1>5
<1>8. Task("done", r) \notin P \cup ToSet(w.posts) BY <1>2, <1>4, WorldParts
<1>9. v = Settle(b, r, how) BY <1>5
<1>10. Good(v, {}, {}, P) /\ v.db = w.db /\ v.tx = w.tx /\ v.scheduled = w.scheduled
  BY <1>4, <1>6, <1>7, <1>8, <1>9, UpgradeDoneRight
<1>11. TaskOver(th, v, <<>>) BY <1>5 DEF UpgradeDone
<1>12. PICK then : then = <<>> OBVIOUS
<1>13. NextFor(th, then, v, P) /\ TaskOver(th, v, then) BY <1>11, <1>12 DEF NextFor
<1>14. Idle(v) /\ Stepped(World, v) BY <1>2, <1>4, <1>10 DEF Idle, Stepped, Quiet
<1>15. Takes(th, kind, r) BY <1>1, <1>2
<1>16. QED BY <1>2, <1>10, <1>13, <1>14, <1>15, TaskStays

\* Pumping changes nothing that is stored.
LEMMA PumpSteady ==
    ASSUME NEW w \in Worlds, NEW t \in Transactions, NEW v, v = PumpTx(w, t)
    PROVE  Steady(w, v, t)
<1>1. w.tx \in [Transactions -> Txs] /\ w.tx[t] \in Txs BY DEF Worlds
<1>2. PICK u : u = v OBVIOUS
<1>3. u = PumpTx(w, t) BY <1>2
<1>0. SUFFICES Steady(w, u, t) BY <1>2
<1>4. \/ u = w
      \/ u = Post([w EXCEPT !.tx[t].processing = TRUE], "process", t)
      \/ u = CommitTransaction(w, t) /\ w.tx[t].state \in Busy
  BY <1>3 DEF PumpTx, Busy
<1>5. u = CommitTransaction(w, t) =>
         \/ u = [w EXCEPT !.tx[t].state = "Committing"]
         \/ u = Post([w EXCEPT !.tx[t].state = "Committing", !.tx[t].commitQueued = TRUE], "commit", t)
  BY <1>1 DEF CommitTransaction, Worlds, Txs
<1>6. CASE u = w BY <1>6 DEF Steady
<1>7. CASE u = Post([w EXCEPT !.tx[t].processing = TRUE], "process", t)
  BY <1>1, <1>7 DEF Steady, Post, Worlds, Txs
<1>8. CASE u = [w EXCEPT !.tx[t].state = "Committing"] /\ w.tx[t].state \in Busy
  BY <1>1, <1>8 DEF Steady, Worlds, Txs, Busy
<1>9. CASE /\ u = Post([w EXCEPT !.tx[t].state = "Committing", !.tx[t].commitQueued = TRUE], "commit", t)
           /\ w.tx[t].state \in Busy
  BY <1>1, <1>9 DEF Steady, Post, Worlds, Txs, Busy
<1>10. QED BY <1>4, <1>5, <1>6, <1>7, <1>8, <1>9

LEMMA StartStays ==
    ASSUME IInv, NEW th \in Threads, NEW t \in Transactions, Start(th, t)
    PROVE  Stays
<1>1. Takes(th, "start", t) BY DEF Start
<1>2. PICK P, w, kind : P = Remaining(th) /\ w = World /\ kind = "start" OBVIOUS
<1>3. Takes(th, kind, t) BY <1>1, <1>2
<1>4. Finds(th, "start", t, P) BY <1>1, <1>2, Found
<1>5. /\ Good(w, {}, {}, P) /\ Idle(w) /\ w.tx[t].state \notin {"unmade", "ended"} /\ Clear(w, t)
  BY <1>2, <1>4 DEF Finds, Due, Task
<1>6. CASE Forgotten(t)
  <2>1. TaskOver(th, World, <<>>) BY <1>6 DEF Start
  <2>2. QED BY <1>3, <2>1, NothingStays
<1>7. CASE ~Forgotten(t)
  <2>1. PICK u, v : u = [w EXCEPT !.tx[t].started = TRUE] /\ v = PumpTx(u, t) OBVIOUS
  <2>2. w.tx[t].state # "Active" BY <1>5 DEF Idle
  <2>3. /\ Good(v, {}, {}, P) /\ Good(u, {}, {}, P) /\ Told(w, u, t) /\ Worked(u, v, t)
        /\ v.tx[t].state # "Active"
    BY <1>5, <2>1, <2>2, StartRight
  <2>4. \A a \in Transactions \ {t} : v.tx[a] = w.tx[a] BY <2>3 DEF Told, Worked
  <2>5. Idle(v) BY <1>5, <2>3, <2>4, IdleOn
  <2>6. Steady(w, v, t)
    <3>1. u \in Worlds /\ w \in Worlds BY <1>5, <2>3 DEF Good
    <3>2. Steady(u, v, t) BY <2>1, <3>1, PumpSteady
    <3>3. w.tx[t] \in Txs BY <3>1 DEF Worlds
    <3>4. QED BY <2>3, <3>2, <3>3 DEF Steady, Told, Txs
  <2>7. Stepped(World, v) BY <1>2, <2>6 DEF Stepped, Begun
  <2>8. TaskOver(th, v, <<>>) BY <1>2, <1>7, <2>1 DEF Start
  <2>9. PICK then : then = <<>> OBVIOUS
  <2>10. NextFor(th, then, v, P) /\ TaskOver(th, v, then) BY <2>8, <2>9 DEF NextFor
  <2>11. QED BY <1>2, <1>3, <2>3, <2>5, <2>7, <2>10, TaskStays
<1>8. QED BY <1>6, <1>7

LEMMA ProcessStays ==
    ASSUME IInv, NEW th \in Threads, NEW t \in Transactions, Process(th, t)
    PROVE  Stays
<1>1. Takes(th, "process", t) BY DEF Process
<1>2. PICK P, w, kind : P = Remaining(th) /\ w = World /\ kind = "process" OBVIOUS
<1>3. Takes(th, kind, t) BY <1>1, <1>2
<1>4. Finds(th, "process", t, P) BY <1>1, <1>2, Found
<1>5. /\ Good(w, {}, {}, P) /\ Idle(w) /\ w.tx[t].state \notin {"unmade", "ended"} /\ w.tx[t].started
      /\ w.tx[t] \in Txs
  BY <1>2, <1>4 DEF Finds, Due, Task, Good, Worlds
<1>6. PICK script :
        /\ tx[t].state = "Inactive" => script \in Scripts(tx[t].plan, MaxOps[t] - tx[t].made)
        /\ TaskOver(th, IF Forgotten(t) THEN World ELSE ProcessNext(World, t, script), <<>>)
  BY DEF Process
<1>7. CASE Forgotten(t)
  <2>1. TaskOver(th, World, <<>>) BY <1>6, <1>7
  <2>2. QED BY <1>3, <2>1, NothingStays
<1>8. CASE ~Forgotten(t)
  <2>1. PICK v : v = ProcessNext(w, t, script) OBVIOUS
  <2>2. w.tx[t].state \in {"Inactive", "Committing", "Finished"}
    BY <1>2, <1>5, <1>8, WorldParts DEF Forgotten, Idle, Txs, TxStates, Busy
  <2>3. w.tx[t].state = "Inactive" => \E most \in Int : script \in Scripts(w.tx[t].plan, most)
    <3>1. MaxOps[t] - tx[t].made \in Int
      <4>1. tx[t].made \in Nat BY <1>2, <1>5, WorldParts DEF Txs
      <4>2. QED BY <4>1, BoundsAssumption
    <3>2. QED BY <1>2, <1>6, <3>1, WorldParts
  <2>4. Good(v, {}, {}, P) /\ Acted(w, v, t) BY <1>5, <2>1, <2>2, <2>3, ProcessNextRight
  <2>5. Idle(v) BY <1>5, <2>4, ActedIdle
  <2>6. Stepped(World, v)
    <3>1. CASE w.tx[t].state = "Finished"
      <4>1. PICK f : f = [w EXCEPT !.tx[t].processing = FALSE] OBVIOUS
      <4>2. w \in Worlds /\ w.tx \in [Transactions -> Txs] BY <1>5 DEF Good, Worlds
      <4>3. Steady(w, f, t) /\ f.tx[t].state = "Finished" BY <1>5, <3>1, <4>1, <4>2 DEF Steady, Worlds, Txs
      <4>4. v = PumpTx(f, t) BY <2>1, <3>1, <4>1 DEF ProcessNext, Over
      <4>5. v = f BY <4>3, <4>4 DEF PumpTx, Over
      <4>6. QED BY <1>2, <4>3, <4>5 DEF Stepped, Begun
    <3>2. CASE w.tx[t].state # "Finished" BY <1>2, <2>2, <2>4, <3>2 DEF Stepped, Going
    <3>3. QED BY <3>1, <3>2
  <2>7. TaskOver(th, v, <<>>) BY <1>2, <1>6, <1>8, <2>1
  <2>8. PICK then : then = <<>> OBVIOUS
  <2>9. NextFor(th, then, v, P) /\ TaskOver(th, v, then) BY <2>7, <2>8 DEF NextFor
  <2>10. QED BY <1>2, <1>3, <2>4, <2>5, <2>6, <2>9, TaskStays
<1>9. QED BY <1>7, <1>8

\* An upgrade's last event fired, its request is due.
LEMMA OnDoneNext ==
    ASSUME IInv, NEW th \in Threads, NEW w, NEW v, NEW P, Good(w, {}, {}, P), NEW t \in Transactions,
           ThreadOf[RealmOf[t]] = th, w.tx[t].state \notin {"complete", "abort"},
           v.tx[t].state \in {"complete", "abort"}, t \in Opens => v.req[t] = "upgrading",
           \A k \in ToSet(v.posts) : k.kind # "done"
    PROVE  NextFor(th, OnDone(t), v, P)
<1>1. CASE t \notin Opens BY <1>1 DEF OnDone, NextFor
<1>2. CASE t \in Opens
  <2>1. PICK d : d = Task("done", t) OBVIOUS
  <2>2. d.kind = "done" /\ d.id = t /\ d \in Tasks
    BY <1>2, <2>1 DEF Task, Tasks, TaskKinds, Names, Requests
  <2>3. OnDone(t) = <<d>> BY <1>2, <2>1 DEF OnDone
  <2>4. Due(v, d) BY <1>2, <2>2 DEF Due
  <2>5. ~Due(w, d) BY <2>2 DEF Due
  <2>6. d \notin P BY <2>5 DEF Good, TasksRight
  <2>7. QED BY <2>2, <2>3, <2>4, <2>6 DEF NextFor
<1>3. QED BY <1>1, <1>2

LEMMA CommitStays ==
    ASSUME IInv, NEW th \in Threads, NEW t \in Transactions, Commit(th, t)
    PROVE  Stays
<1>1. Takes(th, "commit", t) BY DEF Commit
<1>2. PICK P, w, kind : P = Remaining(th) /\ w = World /\ kind = "commit" OBVIOUS
<1>3. Takes(th, kind, t) BY <1>1, <1>2
<1>4. Finds(th, "commit", t, P) BY <1>1, <1>2, Found
<1>5. /\ Good(w, {}, {}, P) /\ Idle(w) /\ w.tx[t].state = "Committing" /\ Task("commit", t) \notin P
      /\ ThreadOf[RealmOf[t]] = th
  BY <1>2, <1>4 DEF Finds, Due, Task
<1>6. Task("commit", t) \notin P \cup ToSet(w.posts) BY <1>2, <1>5, WorldParts
<1>7. PICK v, then : v = FinishCommit(w, t) /\ then = OnDone(t) OBVIOUS
<1>8. Good(v, {}, {}, P) /\ Completed(w, v, t) BY <1>5, <1>6, <1>7, FinishCommitRight
<1>9. t \in Opens => v.req[t] = "upgrading"
  <2>1. t \in IdsIn(w) BY <1>5 DEF Good, ScheduleRight, Busy
  <2>2. t \in Opens => w.req[t] = "upgrading" BY <1>5, <2>1 DEF Good, DoorsRight
  <2>3. QED BY <1>8, <2>2 DEF Completed
<1>10. \A k \in ToSet(v.posts) : k.kind # "done" BY <1>2, <1>8, WorldParts DEF Completed
<1>11. NextFor(th, OnDone(t), v, P)
  <2>1. v.tx[t].state \in {"complete", "abort"} BY <1>8 DEF Completed
  <2>2. w.tx[t].state \notin {"complete", "abort"} BY <1>5
  <2>3. QED BY <1>5, <1>9, <1>10, <2>1, <2>2, OnDoneNext
<1>12. NextFor(th, then, v, P) /\ TaskOver(th, v, then) BY <1>2, <1>7, <1>11 DEF Commit
<1>13. v.tx[t].state # "Active" /\ \A a \in Transactions \ {t} : v.tx[a] = w.tx[a]
  BY <1>8 DEF Completed
<1>14. Idle(v) BY <1>5, <1>13, IdleOn
<1>15. Stepped(World, v) BY <1>2, <1>5, <1>8 DEF Stepped, Done
<1>16. QED BY <1>2, <1>3, <1>8, <1>12, <1>14, <1>15, TaskStays

LEMMA AbortedStays ==
    ASSUME IInv, NEW th \in Threads, NEW t \in Transactions, Aborted(th, t)
    PROVE  Stays
<1>1. Takes(th, "aborted", t) BY DEF Aborted
<1>2. PICK P, w, kind : P = Remaining(th) /\ w = World /\ kind = "aborted" OBVIOUS
<1>3. Takes(th, kind, t) BY <1>1, <1>2
<1>4. Finds(th, "aborted", t, P) BY <1>1, <1>2, Found
<1>5. /\ Good(w, {}, {}, P) /\ Idle(w) /\ w.tx[t].state = "Finished" /\ Task("aborted", t) \notin P
      /\ ThreadOf[RealmOf[t]] = th
      /\ t \in Opens => w.req[t] = "upgrading"
  BY <1>2, <1>4 DEF Finds, Due, Task
<1>6. Task("aborted", t) \notin P \cup ToSet(w.posts) BY <1>2, <1>5, WorldParts
<1>7. PICK v, then : v = [w EXCEPT !.tx[t].state = "abort"] /\ then = OnDone(t) OBVIOUS
<1>8. Good(v, {}, {}, P) /\ Rejected(w, v, t)
  BY <1>5, <1>6, <1>7, AbortedRight
<1>9. t \in Opens => v.req[t] = "upgrading" BY <1>5, <1>8 DEF Rejected
<1>10. \A k \in ToSet(v.posts) : k.kind # "done" BY <1>2, <1>8, WorldParts DEF Rejected
<1>11. NextFor(th, OnDone(t), v, P)
  <2>1. v.tx[t].state \in {"complete", "abort"} /\ w.tx[t].state \notin {"complete", "abort"}
    BY <1>5, <1>8 DEF Rejected
  <2>2. QED BY <1>5, <1>9, <1>10, <2>1, OnDoneNext
<1>12. NextFor(th, then, v, P) /\ TaskOver(th, v, then) BY <1>2, <1>7, <1>11 DEF Aborted
<1>13. v.tx[t].state # "Active" /\ \A u \in Transactions \ {t} : v.tx[u] = w.tx[u]
  BY <1>8 DEF Rejected
<1>14. Idle(v) BY <1>5, <1>13, IdleOn
<1>15. Stepped(World, v) BY <1>2, <1>5, <1>8 DEF Stepped, Refused
<1>16. QED BY <1>2, <1>3, <1>8, <1>12, <1>14, <1>15, TaskStays

LEMMA FactoryOpenStays ==
    ASSUME IInv, NEW r \in Requests, FactoryOpen(r)
    PROVE  Stays
<1>1. PICK P, w, p : P = AllWaiting /\ w = World /\ p = RealmOf[r] OBVIOUS
<1>2. Good(w, {}, {}, P) /\ Idle(w) /\ w.req[r] = "unmade"
  BY <1>1, WorldParts DEF IInv, FactoryOpen
<1>3. PICK v : v = Enqueue([w EXCEPT !.req[r] = "queued"], r) OBVIOUS
<1>4. Good(v, {}, {}, P) /\ v.db = w.db /\ v.tx = w.tx /\ v.scheduled = w.scheduled
  BY <1>2, <1>3, EnqueueRight
<1>5. Idle(v) /\ Stepped(World, v) BY <1>1, <1>2, <1>4 DEF Idle, Stepped, Quiet
<1>6. Acts(p, v) BY <1>1, <1>3 DEF FactoryOpen
<1>7. QED BY <1>1, <1>4, <1>5, <1>6, ActStays

LEMMA TransactStays ==
    ASSUME IInv, NEW t \in Made, NEW c \in Opens, NEW script \in Scripts(PlanOf[t], MaxOps[t]),
           Transact(t, c, script)
    PROVE  Stays
<1>1. PICK P, w, p : P = AllWaiting /\ w = World /\ p = RealmOf[t] OBVIOUS
<1>2. /\ Good(w, {}, {}, P) /\ Idle(w) /\ w.tx[t].state = "unmade" /\ w.conns[c].open
      /\ w.req[c] \in {"upgrading", "success", "error"}
      /\ ~(w.req[c] = "upgrading" /\ w.tx[c].state \in {"Inactive", "Committing"})
  BY <1>1, WorldParts DEF IInv, Transact, Has, UpgradeRuns
<1>3. PICK v : v = RunScript(Schedule([w EXCEPT !.tx[t].plan = [mode |-> PlanOf[t].mode,
                                                               scope |-> PlanOf[t].scope,
                                                               connection |-> c],
                                               !.tx[t].state = "Active"], t), t, script)
  OBVIOUS
<1>4. Good(v, {}, {}, P) /\ \E j \in Worlds : Joined(w, j, t, AsMade(t, c)) /\ Acted(j, v, t)
  BY <1>2, <1>3, TransactRight
<1>5. PICK j \in Worlds : Joined(w, j, t, AsMade(t, c)) /\ Acted(j, v, t) BY <1>4
<1>6. Idle(v)
  <2>1. t \in Transactions BY DEF Transactions
  <2>2. v.tx[t].state # "Active" /\ \A a \in Transactions \ {t} : v.tx[a] = j.tx[a]
    BY <1>5 DEF Acted, Worked, Scrapped
  <2>3. \A a \in Transactions \ {t} : j.tx[a] = w.tx[a] BY <1>2, <1>5, <2>1 DEF Joined, Good, Worlds
  <2>4. \A a \in Transactions \ {t} : v.tx[a] = w.tx[a] BY <2>2, <2>3
  <2>5. QED BY <1>2, <2>2, <2>4, IdleOn
<1>7. Stepped(World, v) BY <1>1, <1>2, <1>5 DEF Stepped, Entered
<1>8. Acts(p, v) BY <1>1, <1>3 DEF Transact
<1>9. QED BY <1>1, <1>4, <1>6, <1>7, <1>8, ActStays

LEMMA CloseStays ==
    ASSUME IInv, NEW c \in Opens, Close(c)
    PROVE  Stays
<1>1. PICK P, w, p : P = AllWaiting /\ w = World /\ p = RealmOf[c] OBVIOUS
<1>2. Good(w, {}, {}, P) /\ Idle(w) /\ w.req[c] \notin {"unmade", "queued", "waiting"}
  BY <1>1, WorldParts DEF IInv, Close, Has
<1>3. PICK x, M, v : x = {} /\ M = {} /\ v = RequestClose(w, c) OBVIOUS
<1>4. Good(w, x, M, P) BY <1>2, <1>3
<1>5. Good(v, x, M, P) /\ Closed(w, v) BY <1>2, <1>3, <1>4, RequestCloseRight
<1>6. Good(v, {}, {}, P) BY <1>3, <1>5
<1>7. Idle(v) /\ Stepped(World, v) BY <1>1, <1>2, <1>5 DEF Idle, Stepped, Quiet, Closed
<1>8. Acts(p, v) BY <1>1, <1>3 DEF Close
<1>9. QED BY <1>1, <1>6, <1>7, <1>8, ActStays

LEMMA AbortStays ==
    ASSUME IInv, NEW t \in Transactions, Abort(t)
    PROVE  Stays
<1>1. PICK P, w, p : P = AllWaiting /\ w = World /\ p = RealmOf[t] OBVIOUS
<1>2. Good(w, {}, {}, P) /\ Idle(w) /\ w.tx[t].state = "Inactive"
  BY <1>1, WorldParts DEF IInv, Abort
<1>3. ~w.tx[t].commitQueued /\ w.tx[t].state \in Busy BY <1>2 DEF Good, TxsRight, TxRight, Busy
<1>4. PICK v : v = AbortTransaction(w, t) OBVIOUS
<1>5. Good(v, {}, {}, P) /\ Scrapped(w, v, t) BY <1>2, <1>3, <1>4, AbortRight
<1>6. Acted(w, v, t) BY <1>5 DEF Acted, Scrapped
<1>7. Idle(v) BY <1>2, <1>6, ActedIdle
<1>8. Stepped(World, v) BY <1>1, <1>2, <1>6 DEF Stepped, Going
<1>9. Acts(p, v) BY <1>1, <1>4 DEF Abort
<1>10. QED BY <1>1, <1>5, <1>7, <1>8, <1>9, ActStays

LEMMA FewerFirst ==
    ASSUME NEW T, NEW a \in Seq(T), NEW b \in Seq(T), NEW r \in Seq(T), NEW m \in Seq(T), NEW A,
           ToSet(m) \subseteq ToSet(a), Few(m, A), Few(a \o b \o r, A)
    PROVE  Few(m \o b \o r, A) /\ ToSet(m \o b \o r) \subseteq ToSet(a \o b \o r)
<1>1. PICK e, f : e = a \o b /\ f = m \o b OBVIOUS
<1>2. e \in Seq(T) /\ ToSet(e) = ToSet(a) \cup ToSet(b) BY <1>1, JoinFacts
<1>3. f \in Seq(T) /\ ToSet(f) = ToSet(m) \cup ToSet(b) BY <1>1, JoinFacts
<1>4. Few(e \o r, A) BY <1>1
<1>5. Few(e, A) /\ Few(r, A) /\ ToSet(e) \cap ToSet(r) \cap A = {} BY <1>2, <1>4, JoinFacts
<1>6. Few(b, A) /\ ToSet(a) \cap ToSet(b) \cap A = {} BY <1>1, <1>5, JoinFacts
<1>7. Few(f, A)
  <2>1. ToSet(m) \cap ToSet(b) \cap A = {} BY <1>6
  <2>2. QED BY <1>1, <1>6, <2>1, JoinFacts
<1>8. Few(f \o r, A)
  <2>1. ToSet(f) \cap ToSet(r) \cap A = {} BY <1>2, <1>3, <1>5
  <2>2. QED BY <1>3, <1>5, <1>7, <2>1, JoinFacts
<1>9. ToSet(e \o r) = ToSet(e) \cup ToSet(r) BY <1>2, JoinFacts
<1>10. ToSet(f \o r) = ToSet(f) \cup ToSet(r) BY <1>3, JoinFacts
<1>11. ToSet(f \o r) \subseteq ToSet(e \o r) BY <1>2, <1>3, <1>9, <1>10
<1>12. QED BY <1>1, <1>8, <1>11

\* ~IdbRealm
LEMMA EndRealmStays ==
    ASSUME IInv, NEW p \in Realms, EndRealm(p)
    PROVE  Stays
<1>1. PICK P, w, M : P = AllWaiting /\ w = World /\ M = {id \in Names : RealmOf[id] = p} OBVIOUS
<1>2. Good(w, {}, {}, P) /\ Idle(w) /\ w \in Worlds BY <1>1 DEF IInv, Good
<1>3. PICK g, X : g = Gone(w, M) /\ X = IdsIn(w) \cap M OBVIOUS
<1>4. g = [World EXCEPT
            !.req = [r \in Requests |-> IF r \in {id \in Requests : RealmOf[id] = p} THEN "ended" ELSE @[r]],
            !.tx = [t \in Transactions |->
                      IF @[t].state \in Pending /\ t \in {id \in Transactions : RealmOf[id] = p}
                      THEN [@[t] EXCEPT !.state = "ended"] ELSE @[t]]]
  <2>1. \A r \in Requests : r \in {id \in Requests : RealmOf[id] = p} <=> r \in M BY <1>1 DEF Names
  <2>2. \A t \in Transactions : t \in {id \in Transactions : RealmOf[id] = p} <=> t \in M
    BY <1>1 DEF Names, Transactions, Requests
  <2>3. QED BY <1>1, <1>3, <2>1, <2>2 DEF Gone
<1>5. PICK u : u = DropTransactions(g, Only(w.scheduled, {e \in ToSet(w.scheduled) : RealmOf[e.id] = p}))
  OBVIOUS
<1>6. PICK c : c = CloseAll(u, SetToSeq({o \in Opens : RealmOf[o] = p /\ w.conns[o].open})) OBVIOUS
<1>7. PICK v : v = DequeueAll(c, Only(w.queue, {r \in Requests : RealmOf[r] = p})) OBVIOUS
<1>8. /\ v \in Worlds /\ ScheduleRight(v, {}) /\ TxsRight(v) /\ CountsRight(v)
      /\ QueueRight(v, {}) /\ DoorsRight(v, {}) /\ EndedRight(v, {}) /\ TasksRight(v, M, P)
      /\ Idle(v) /\ Dropped(g, u, X) /\ Shut(u, c)
      /\ LeftQueue(c, v, ToSet(Only(w.queue, {r \in Requests : RealmOf[r] = p})))
  <2>1. Ending(w, p, M, g, X, u, c, v) BY <1>1, <1>3, <1>5, <1>6, <1>7 DEF Ending
  <2>2. Good(w, {}, {}, P) /\ Idle(w) BY <1>2
  <2>3. Emptied(w, p, M, P, g, X, u, c, v) BY <2>1, <2>2, EndRealmRight
  <2>4. QED BY <2>3 DEF Emptied
<1>9. Become(v, ThreadOf[p])
  <2>1. {o \in {id \in Opens : RealmOf[id] = p} : conns[o].open}
          = {o \in Opens : RealmOf[o] = p /\ w.conns[o].open}
    BY <1>1, WorldParts
  <2>2. w.scheduled = scheduled /\ w.queue = queue BY <1>1, WorldParts
  <2>3. QED BY <1>4, <1>5, <1>6, <1>7, <2>1, <2>2 DEF EndRealm
<1>10. PICK th : th = ThreadOf[p] OBVIOUS
<1>11. /\ tasks' = [o \in Threads |-> Only(tasks[o], {k \in ToSet(tasks[o]) : RealmOf[k.id] # p})]
       /\ alive' = alive \ {p}
  BY DEF EndRealm
<1>12. /\ later \in [Threads -> Seq(Tasks)] /\ remote \in [Threads -> Seq(Tasks)]
       /\ tasks \in [Threads -> Seq(Tasks)] /\ alive \subseteq Realms
  BY DEF IInv
<1>13. \A o \in Threads : Ready(o, M, P)
  <2> TAKE o \in Threads
  <2>1. PICK a, b, r, S, m : /\ a = tasks[o] /\ b = later[o] /\ r = remote[o]
                             /\ S = {k \in ToSet(a) : RealmOf[k.id] # p} /\ m = Only(a, S)
    OBVIOUS
  <2>2. a \in Seq(Tasks) /\ b \in Seq(Tasks) /\ r \in Seq(Tasks) BY <1>12, <2>1
  <2>3. Few(a \o b \o r, Sole({})) /\ \A k \in ToSet(a \o b \o r) : ThreadOf[RealmOf[k.id]] = o
    BY <2>1 DEF IInv, WaitingOn
  <2>4. m \in Seq(Tasks) /\ ToSet(m) \subseteq ToSet(a) \cap S BY <2>1, <2>2, OnlyFacts
  <2>5. Few(m, Sole({})) /\ Few(m \o b \o r, Sole({})) /\ ToSet(m \o b \o r) \subseteq ToSet(a \o b \o r)
    <3>1. PICK A : A = Sole({}) OBVIOUS
    <3>2. Few(a \o b \o r, A) BY <2>3, <3>1
    <3>3. Few(a, A)
      <4>1. PICK e : e = a \o b OBVIOUS
      <4>2. e \in Seq(Tasks) /\ a \o b \o r = e \o r BY <2>2, <4>1, JoinFacts
      <4>3. Few(e, A) BY <2>2, <3>2, <4>2, JoinFacts
      <4>4. QED BY <2>2, <4>1, <4>3, JoinFacts
    <3>4. Few(m, A) BY <2>1, <2>2, <3>3, OnlyFew
    <3>5. ToSet(m) \subseteq ToSet(a) BY <2>4
    <3>6. Few(m \o b \o r, A) /\ ToSet(m \o b \o r) \subseteq ToSet(a \o b \o r)
      BY <2>2, <2>4, <3>2, <3>4, <3>5, FewerFirst
    <3>7. QED BY <3>1, <3>4, <3>6
  <2>6. Few(m \o b \o r, Sole(M)) BY <2>5 DEF Few, Sole
  <2>7. ToSet(a \o b \o r) \subseteq P BY <1>1, <2>1 DEF AllWaiting, WaitingOn
  <2>8. tasks'[o] = m /\ later[o] = b /\ remote[o] = r BY <1>11, <2>1
  <2>9. \A k \in ToSet(m) : k.id \notin M
    <3>1. \A k \in ToSet(m) : RealmOf[k.id] # p BY <2>1, <2>4
    <3>2. QED BY <1>1, <3>1
  <2>10. QED BY <2>3, <2>4, <2>5, <2>6, <2>7, <2>8, <2>9 DEF Ready
<1>14. tasks' \in [Threads -> Seq(Tasks)] BY <1>11, <1>13 DEF Ready
<1>15. \A id \in Names : RealmOf[id] \in alive' => id \notin M BY <1>1, <1>11
<1>16. IInv'
  <2>1. Become(v, th) /\ alive' \subseteq Realms BY <1>9, <1>10, <1>11, <1>12
  <2>2. QED BY <1>8, <1>12, <1>13, <1>14, <1>15, <2>1, BecomeRight
<1>17. After(v)
  <2>1. Become(v, th) BY <1>9, <1>10
  <2>2. QED BY <1>8, <2>1, Sealed DEF After
<1>18. Stepped(World, v)
  <2>1. M \in SUBSET Names BY <1>1
  <2>2. v.db = u.db /\ v.tx = u.tx /\ v.scheduled = u.scheduled BY <1>8 DEF Shut, LeftQueue
  <2>3. Dropped(Gone(w, M), u, IdsIn(w) \cap M) BY <1>3, <1>8
  <2>4. Parted(w, v) BY <2>1, <2>2, <2>3 DEF Parted
  <2>5. QED BY <1>1, <2>4 DEF Stepped
<1>19. QED BY <1>16, <1>17, <1>18 DEF Stays

LEMMA StepStays ==
    ASSUME IInv, Next
    PROVE  Stays
<1>1. CASE \E th \in Threads : RunPending(th) \/ RunTask(th)
  <2>1. PICK th \in Threads : RunPending(th) \/ RunTask(th) BY <1>1
  <2>2. CASE RunPending(th) BY <2>2, RunPendingStays
  <2>3. CASE \E r \in Requests : \/ RunOpen(th, r) \/ RunDelete(th, r)
                                 \/ WhenOthersClosed(th, r) \/ Recheck(th, r) \/ UpgradeDone(th, r)
    BY <2>3, RunOpenStays, RunDeleteStays, WhenOthersClosedStays, RecheckStays, UpgradeDoneStays
  <2>4. CASE \E t \in Transactions : Start(th, t) \/ Process(th, t) \/ Commit(th, t) \/ Aborted(th, t)
    BY <2>4, StartStays, ProcessStays, CommitStays, AbortedStays
  <2>5. QED BY <2>1, <2>2, <2>3, <2>4 DEF RunTask
<1>2. CASE \E r \in Requests : FactoryOpen(r) BY <1>2, FactoryOpenStays
<1>3. CASE \E t \in Made, c \in Opens : \E script \in Scripts(PlanOf[t], MaxOps[t]) :
             script.end # "abort" /\ Transact(t, c, script)
  BY <1>3, TransactStays
<1>4. CASE \E c \in Opens : Close(c) BY <1>4, CloseStays
<1>5. CASE \E t \in Transactions : Abort(t) BY <1>5, AbortStays
<1>6. CASE \E p \in Realms : EndRealm(p) BY <1>6, EndRealmStays
<1>7. QED BY <1>1, <1>2, <1>3, <1>4, <1>5, <1>6 DEF Next

LEMMA InitRight == Init => IInv
<1> SUFFICES ASSUME Init PROVE IInv OBVIOUS
<1>1. /\ db \in Databases /\ file = db
      /\ queue = <<>> /\ begun = {} /\ watchers = {}
      /\ conns = [c \in Opens |-> [open |-> FALSE, closePending |-> FALSE, unfinished |-> 0, version |-> 0]]
      /\ scheduled = <<>>
      /\ tx = [t \in Transactions |-> NewTx]
      /\ req = [r \in Requests |-> "unmade"]
      /\ tasks = [th \in Threads |-> <<>>]
      /\ later = [th \in Threads |-> <<>>] /\ remote = [th \in Threads |-> <<>>]
      /\ alive = Realms
  BY DEF Init
<1>2. PICK w : w = World OBVIOUS
<1>3. /\ w.db = db /\ w.file = file /\ w.queue = <<>> /\ w.begun = {} /\ w.watchers = {}
      /\ w.conns = conns /\ w.scheduled = <<>> /\ w.tx = tx /\ w.req = req /\ w.posts = <<>>
      /\ ToSet(w.posts) = {}
  BY <1>1, <1>2, WorldParts
<1>4. w \in Worlds
  <2>1. db \in Contents BY <1>1, BoundsAssumption DEF Contents, Stamps
  <2>2. conns \in [Opens -> Doors] BY <1>1 DEF Doors
  <2>3. NewTx \in Txs
    <3>1. <<>> \in Seq(Placed) /\ <<>> \in Seq(UndoSteps) OBVIOUS
    <3>2. Nothing \in Contents BY DEF Nothing, Absent, Contents, Stamps
    <3>3. [mode |-> "none", scope |-> {}, connection |-> None] \in Plans BY DEF Plans
    <3>4. QED BY <3>1, <3>2, <3>3 DEF NewTx, Txs, TxStates
  <2>4. tx \in [Transactions -> Txs] BY <1>1, <2>3
  <2>5. req \in [Requests -> ReqStates] BY <1>1 DEF ReqStates
  <2>6. /\ queue \in Seq(Requests) /\ scheduled \in Seq(Entries) /\ begun \in SUBSET Requests
        /\ watchers \in SUBSET Requests
    <3>1. <<>> \in Seq(Requests) /\ <<>> \in Seq(Entries) OBVIOUS
    <3>2. QED BY <1>1, <3>1
  <2>7. <<>> \in Seq(Tasks) OBVIOUS
  <2>8. QED BY <1>1, <1>2, <2>1, <2>2, <2>4, <2>5, <2>6, <2>7 DEF World, Worlds
<1>5. IdsIn(w) = {} BY <1>3 DEF IdsIn
<1>6. \A t \in Transactions : w.tx[t] = NewTx BY <1>1, <1>3
<1>7. NewTx.state = "unmade" /\ NewTx.queue = <<>> /\ NewTx.undo = <<>> /\ ~NewTx.commitQueued
  BY DEF NewTx
<1>8. ScheduleRight(w, {})
  <2>1. DOMAIN w.scheduled = {} BY <1>3
  <2>2. \A t \in Transactions : w.tx[t].state \notin Busy BY <1>6, <1>7 DEF Busy
  <2>3. IdsIn(w) = {t \in Transactions : w.tx[t].state \in Busy} \cup {} BY <1>5, <2>2
  <2>4. QED BY <2>1, <2>3 DEF ScheduleRight
<1>9. TxsRight(w) BY <1>6, <1>7 DEF TxsRight, TxRight
<1>10. CountsRight(w)
  <2>1. \A c \in Opens : On(w, c) = {} BY <1>5 DEF On
  <2>2. Cardinality({}) = 0 BY FS_EmptySet
  <2>3. \A c \in Opens : w.conns[c].unfinished = 0 /\ ~w.conns[c].open BY <1>1, <1>3
  <2>4. QED BY <2>1, <2>2, <2>3 DEF CountsRight
<1>11. QueueRight(w, {})
  <2>1. ToSet(w.queue) = {} /\ DOMAIN w.queue = {} BY <1>3 DEF ToSet
  <2>2. \A r \in Requests : w.req[r] = "unmade" BY <1>1, <1>3
  <2>3. IsInjective(w.queue) BY <2>1 DEF IsInjective
  <2>4. QED BY <1>3, <2>1, <2>2, <2>3 DEF QueueRight
<1>12. DoorsRight(w, {})
  <2>1. \A c \in Opens : ~w.conns[c].open /\ ~w.conns[c].closePending BY <1>1, <1>3
  <2>2. \A c \in Opens : w.req[c] = "unmade" BY <1>1, <1>3 DEF Requests
  <2>3. \A c \in Opens : w.tx[c].state = "unmade" BY <1>6, <1>7 DEF Transactions
  <2>4. QED BY <1>5, <2>1, <2>2, <2>3 DEF DoorsRight
<1>13. EndedRight(w, {}) BY <1>5 DEF EndedRight
<1>14. \A th \in Threads : WaitingOn(th) = <<>> BY <1>1 DEF WaitingOn
<1>15. ToSet(<<>>) = {} BY DEF ToSet
<1>16. AllWaiting = {} BY <1>14, <1>15 DEF AllWaiting
<1>17. TasksRight(w, {}, {})
  <2>1. Few(w.posts, Sole({})) BY <1>3 DEF Few
  <2>2. QED BY <1>3, <2>1 DEF TasksRight
<1>18. Good(w, {}, {}, AllWaiting)
  BY <1>4, <1>8, <1>9, <1>10, <1>11, <1>12, <1>13, <1>16, <1>17 DEF Good
<1>19. Idle(w) BY <1>6, <1>7 DEF Idle
<1>20. \A th \in Threads :
         /\ Few(WaitingOn(th), Sole({}))
         /\ \A k \in ToSet(WaitingOn(th)) : ThreadOf[RealmOf[k.id]] = th
  <2>1. Few(<<>>, Sole({})) BY DEF Few
  <2>2. QED BY <1>14, <1>15, <2>1
<1>21. /\ tasks \in [Threads -> Seq(Tasks)] /\ later \in [Threads -> Seq(Tasks)]
       /\ remote \in [Threads -> Seq(Tasks)]
  <2>1. <<>> \in Seq(Tasks) OBVIOUS
  <2>2. QED BY <1>1, <2>1
<1>22. QED BY <1>1, <1>2, <1>18, <1>19, <1>20, <1>21 DEF IInv

LEMMA StutterStays ==
    ASSUME IInv, UNCHANGED vars
    PROVE  IInv'
<1>1. /\ tasks' = tasks /\ later' = later /\ remote' = remote /\ alive' = alive BY DEF vars
<1>2. World' = World BY DEF vars, World
<1>3. \A th : WaitingOn(th)' = WaitingOn(th) BY <1>1 DEF WaitingOn
<1>4. AllWaiting' = AllWaiting BY <1>3 DEF AllWaiting
<1>5. IInv' BY <1>1, <1>2, <1>3, <1>4 DEF IInv
<1>6. QED BY <1>5

\* The inductive invariant holds: the schedule is as the transactions are, no one
\* started must wait, each connection counts its own, an upgrade is alone, and
\* every task that is on its way is due (Database::schedule, finish, enqueue,
\* IdbLink::post).
THEOREM Inductive == Spec => []IInv
<1>1. IInv /\ [Next]_vars => IInv' BY StepStays, StutterStays DEF Stays
<1>2. QED BY InitRight, <1>1, PTL DEF Spec

-----------------------------------------------------------------------------
(* The types and the connections.                                           *)

\* Its entries on a connection are as many as its transactions on it.
LEMMA EntriesCounted ==
    ASSUME NEW w \in Worlds, ScheduleRight(w, {}), NEW c
    PROVE  /\ IsFiniteSet(On(w, c))
           /\ Cardinality({i \in DOMAIN w.scheduled : w.scheduled[i].connection = c}) = Cardinality(On(w, c))
<1>1. w.scheduled \in Seq(Entries) /\ DOMAIN w.scheduled = 1..Len(w.scheduled) /\ Len(w.scheduled) \in Nat
  BY DEF Worlds
<1>2. PICK s, I : s = w.scheduled /\ I = {i \in DOMAIN s : s[i].connection = c} OBVIOUS
<1>3. PICK f : f = [i \in I |-> s[i].id] OBVIOUS
<1>4. \A i \in DOMAIN s : s[i].connection = w.tx[s[i].id].plan.connection BY <1>2 DEF ScheduleRight
<1>5. \A i, j \in DOMAIN s : s[i].id = s[j].id => i = j BY <1>2 DEF ScheduleRight
<1>6. f \in [I -> On(w, c)]
  <2>1. \A i \in I : s[i].id \in On(w, c) BY <1>2, <1>4 DEF On, IdsIn
  <2>2. QED BY <1>3, <2>1
<1>7. \A i, j \in I : f[i] = f[j] => i = j BY <1>2, <1>3, <1>5
<1>8. \A t \in On(w, c) : \E i \in I : f[i] = t
  <2> TAKE t \in On(w, c)
  <2>1. PICK i \in DOMAIN s : s[i].id = t BY <1>2 DEF On, IdsIn
  <2>2. s[i].connection = c BY <1>4, <2>1 DEF On
  <2>3. i \in I BY <1>2, <2>2
  <2>4. QED BY <1>3, <2>1, <2>3
<1>9. f \in Bijection(I, On(w, c))
  <2>1. IsInjective(f) BY <1>6, <1>7 DEF IsInjective
  <2>2. QED BY <1>6, <1>8, <2>1 DEF Bijection, Injection, Surjection
<1>10. ExistsBijection(I, On(w, c)) BY <1>9 DEF ExistsBijection
<1>11. IsFiniteSet(I)
  <2>1. IsFiniteSet(1..Len(s)) BY <1>1, <1>2, FS_Interval
  <2>2. QED BY <1>1, <1>2, <2>1, FS_Subset
<1>12. IsFiniteSet(On(w, c)) /\ Cardinality(On(w, c)) = Cardinality(I) BY <1>10, <1>11, FS_Bijection
<1>13. QED BY <1>2, <1>12

LEMMA IdsAre == Ids = IdsIn(World)
BY WorldParts DEF Ids, IdsIn

LEMMA TypesRight == IInv => TypeOK
<1> SUFFICES ASSUME IInv PROVE TypeOK OBVIOUS
<1>1. PICK w : w = World OBVIOUS
<1>2. /\ w.db = db /\ w.queue = queue /\ w.begun = begun /\ w.watchers = watchers /\ w.conns = conns
      /\ w.scheduled = scheduled /\ w.tx = tx /\ w.req = req
  BY <1>1, WorldParts
<1>3. /\ w \in Worlds /\ Idle(w) /\ ScheduleRight(w, {}) /\ CountsRight(w) /\ QueueRight(w, {})
  BY <1>1 DEF IInv, Good
<1>4. db.version \in Nat /\ DOMAIN db.stores = Stores
  <2>1. db \in Contents BY <1>2, <1>3 DEF Worlds
  <2>2. QED BY <2>1 DEF Contents
<1>5. IsInjective(queue) /\ \A i \in DOMAIN queue : queue[i] \in begun => i = 1
  BY <1>2, <1>3 DEF QueueRight
<1>6. watchers \subseteq {r \in begun : req[r] = "waiting"} BY <1>2, <1>3 DEF QueueRight
<1>7. \A i, j \in DOMAIN scheduled : scheduled[i].id = scheduled[j].id => i = j
  BY <1>2, <1>3 DEF ScheduleRight
<1>8. ASSUME NEW c \in Opens
      PROVE  /\ conns[c].unfinished = Cardinality({i \in DOMAIN scheduled : scheduled[i].connection = c})
             /\ conns[c].unfinished > 0 => conns[c].open
             /\ conns[c].closePending /\ conns[c].unfinished = 0 => ~conns[c].open
  <2>1. PICK A, n : A = On(w, c) /\ n = Cardinality(A) OBVIOUS
  <2>2. /\ IsFiniteSet(A) /\ n = Cardinality({i \in DOMAIN scheduled : scheduled[i].connection = c})
    BY <1>2, <1>3, <2>1, EntriesCounted
  <2>3. conns[c].unfinished = n /\ (A # {} => conns[c].open)
        /\ (conns[c].closePending /\ A = {} => ~conns[c].open)
    BY <1>2, <1>3, <2>1 DEF CountsRight
  <2>4. A = {} <=> n = 0 BY <2>1, <2>2, FS_EmptySet
  <2>5. n \in Nat BY <2>1, <2>2, FS_CardinalityType
  <2>6. QED BY <2>2, <2>3, <2>4, <2>5
<1>9. Ids = {t \in Transactions : tx[t].state \in {"Inactive", "Committing"}}
  <2>1. Ids = {t \in Transactions : w.tx[t].state \in Busy} \cup {}
    BY <1>1, <1>3, IdsAre DEF ScheduleRight
  <2>2. \A t \in Transactions : w.tx[t].state # "Active" BY <1>3 DEF Idle
  <2>3. QED BY <1>2, <2>1, <2>2 DEF Busy
<1>10. QED BY <1>4, <1>5, <1>6, <1>7, <1>8, <1>9 DEF TypeOK

\* The storage and the realms count alike (schedule, finish, close_if_done): a
\* connection's count is of those in the schedule, it closes only without any, and
\* the schedule is of whoever a realm holds unfinished.
THEOREM TypesHold == Spec => []TypeOK
BY Inductive, TypesRight, PTL

LEMMA PassedRight == IInv => NobodyIsPassedBy
<1> SUFFICES ASSUME IInv PROVE NobodyIsPassedBy OBVIOUS
<1>1. PICK w : w = World OBVIOUS
<1>2. /\ w.db = db /\ w.queue = queue /\ w.begun = begun /\ w.conns = conns /\ w.tx = tx /\ w.req = req
  BY <1>1, WorldParts
<1>3. w \in Worlds /\ QueueRight(w, {}) /\ DoorsRight(w, {}) BY <1>1 DEF IInv, Good
<1>4. ASSUME NEW t \in Opens, t \in Ids
      PROVE  Ids = {t} /\ queue[1] = t /\ \A c \in Opens : conns[c].open => c = t
  <2>1. t \in IdsIn(w) BY <1>1, <1>4, IdsAre
  <2>2. IdsIn(w) = {t} /\ w.req[t] = "upgrading" /\ \A c \in Opens : w.conns[c].open => c = t
    BY <1>3, <2>1 DEF DoorsRight
  <2>3. t \in Requests BY DEF Requests
  <2>4. t \in ToSet(w.queue) /\ t \in w.begun BY <1>3, <2>2, <2>3 DEF QueueRight
  <2>5. PICK i \in DOMAIN w.queue : w.queue[i] = t BY <2>4 DEF ToSet
  <2>6. i = 1 BY <1>3, <2>4, <2>5 DEF QueueRight
  <2>7. QED BY <1>1, <1>2, <2>2, <2>5, <2>6, IdsAre
<1>5. ASSUME NEW c \in Opens, conns[c].open, req[c] = "success" \/ UpgradeRuns(c)
      PROVE  conns[c].version = db.version
  <2>1. w.req[c] # "ended" BY <1>2, <1>5 DEF UpgradeRuns
  <2>2. QED BY <1>2, <1>3, <1>5, <2>1 DEF DoorsRight
<1>6. QED BY <1>4, <1>5 DEF NobodyIsPassedBy

\* An upgrade has the database to itself, its request still at the front, and the
\* database is of the version an open connection was opened to (when_others_closed,
\* run_upgrade, run_delete).
THEOREM NobodyPassedBy == Spec => []NobodyIsPassedBy
BY Inductive, PassedRight, PTL

-----------------------------------------------------------------------------
(* Nobody's hand on another's stores.                                       *)

LEMMA AfterParts ==
    ASSUME NEW v, After(v)
    PROVE  db' = v.db /\ tx' = v.tx /\ scheduled' = v.scheduled /\ Ids' = IdsIn(v)
<1>1. World'.db = db' /\ World'.tx = tx' /\ World'.scheduled = scheduled' BY DEF World
<1>2. db' = v.db /\ tx' = v.tx /\ scheduled' = v.scheduled BY <1>1 DEF After
<1>3. QED BY <1>2 DEF Ids, IdsIn

\* Of two that have started and share a store neither writes.
LEMMA Apart ==
    ASSUME NEW w \in Worlds, ScheduleRight(w, {}), NEW a \in IdsIn(w), NEW b \in IdsIn(w), a # b,
           NEW s, s \in w.tx[a].plan.scope, s \in w.tx[b].plan.scope,
           \A i \in DOMAIN w.scheduled : w.scheduled[i].id \in {a, b} => ~Waits(w.scheduled, i)
    PROVE  w.tx[a].plan.mode = "readonly" /\ w.tx[b].plan.mode = "readonly"
<1>1. PICK q : q = w.scheduled OBVIOUS
<1>2. DOMAIN q = 1..Len(q) /\ Len(q) \in Nat BY <1>1 DEF Worlds
<1>3. PICK i \in DOMAIN q, j \in DOMAIN q : q[i].id = a /\ q[j].id = b BY <1>1 DEF IdsIn
<1>4. /\ q[i].mode = w.tx[a].plan.mode /\ q[i].scope = w.tx[a].plan.scope
      /\ q[j].mode = w.tx[b].plan.mode /\ q[j].scope = w.tx[b].plan.scope
  BY <1>1, <1>3 DEF ScheduleRight
<1>5. ~Waits(q, i) /\ ~Waits(q, j) BY <1>1, <1>3
<1>6. Overlap(q[i], q[j]) /\ Overlap(q[j], q[i]) BY <1>4 DEF Overlap
<1>7. i < j \/ j < i BY <1>2, <1>3
<1>8. CASE i < j
  <2>1. i \in 1..(j - 1) BY <1>2, <1>8
  <2>2. QED BY <1>4, <1>5, <1>6, <2>1 DEF Waits
<1>9. CASE j < i
  <2>1. j \in 1..(i - 1) BY <1>2, <1>9
  <2>2. QED BY <1>4, <1>5, <1>6, <2>1 DEF Waits
<1>10. QED BY <1>7, <1>8, <1>9

\* Whose entry or whose transaction has started does not wait.
LEMMA StartedApart ==
    ASSUME NEW w \in Worlds, ScheduleRight(w, {}), NEW t,
           w.tx[t].started \/ \E i \in DOMAIN w.scheduled : w.scheduled[i].id = t /\ w.scheduled[i].started
    PROVE  \A i \in DOMAIN w.scheduled : w.scheduled[i].id = t => ~Waits(w.scheduled, i)
<1> SUFFICES ASSUME NEW i \in DOMAIN w.scheduled, w.scheduled[i].id = t PROVE ~Waits(w.scheduled, i)
  OBVIOUS
<1>1. w.scheduled[i].started \/ w.tx[t].started BY DEF ScheduleRight
<1>2. QED BY <1>1 DEF ScheduleRight

\* What of a store's is changed by t is in nobody else's started hands.
LEMMA OnlyItsOwn ==
    ASSUME NEW w \in Worlds, ScheduleRight(w, {}), NEW t \in IdsIn(w), w.tx[t].started,
           w.tx[t].plan.mode # "readonly", NEW s, s \in w.tx[t].plan.scope,
           NEW i \in DOMAIN w.scheduled, w.scheduled[i].started, s \in w.scheduled[i].scope
    PROVE  w.scheduled[i].id = t
<1>1. PICK a : a = w.scheduled[i].id OBVIOUS
<1>2. a \in IdsIn(w) BY <1>1 DEF IdsIn
<1>3. s \in w.tx[a].plan.scope BY <1>1 DEF ScheduleRight
<1>4. \A j \in DOMAIN w.scheduled : w.scheduled[j].id = a => ~Waits(w.scheduled, j)
  BY <1>1, StartedApart
<1>5. \A j \in DOMAIN w.scheduled : w.scheduled[j].id = t => ~Waits(w.scheduled, j)
  BY StartedApart
<1>6. a # t => w.tx[t].plan.mode = "readonly"
  <2> SUFFICES ASSUME a # t PROVE w.tx[t].plan.mode = "readonly" OBVIOUS
  <2>1. \A j \in DOMAIN w.scheduled : w.scheduled[j].id \in {a, t} => ~Waits(w.scheduled, j)
    BY <1>4, <1>5
  <2>2. QED BY <1>2, <1>3, <2>1, Apart
<1>7. QED BY <1>1, <1>6

\* An undo log is about what its started writer may write.
LEMMA UndoIsItsOwn ==
    ASSUME NEW w \in Worlds, TxsRight(w), NEW t \in Transactions, NEW s, s \in Changed(w.tx[t].undo)
    PROVE  w.tx[t].started /\ w.tx[t].plan.mode = "readwrite" /\ s \in w.tx[t].plan.scope
<1>1. TxRight(w.tx[t], t) BY DEF TxsRight
<1>2. PICK i \in DOMAIN w.tx[t].undo : w.tx[t].undo[i].store = s BY DEF Changed
<1>3. w.tx[t].undo # <<>> BY <1>2
<1>4. QED BY <1>1, <1>2, <1>3 DEF TxRight

\* A step from w to v leaves what the started ones of w work on to them.
LeavesAlone(w, v) ==
    \A i \in DOMAIN w.scheduled : LET e == w.scheduled[i] IN
        \A s \in e.scope : e.started /\ v.db.stores[s] # w.db.stores[s]
            => e.id \notin IdsIn(v) \/ v.db.stores[s][1] = e.id

LEMMA SteppedAlone ==
    ASSUME NEW w, Good(w, {}, {}, AllWaiting), NEW v, Stepped(w, v)
    PROVE  LeavesAlone(w, v)
<1>1. w \in Worlds /\ ScheduleRight(w, {}) /\ TxsRight(w) /\ DoorsRight(w, {}) BY DEF Good
<1>2. SUFFICES ASSUME NEW i \in DOMAIN w.scheduled, NEW s \in w.scheduled[i].scope,
                      w.scheduled[i].started, v.db.stores[s] # w.db.stores[s],
                      w.scheduled[i].id \in IdsIn(v)
               PROVE  v.db.stores[s][1] = w.scheduled[i].id
  BY DEF LeavesAlone
<1>3. PICK a : a = w.scheduled[i].id OBVIOUS
<1>4. a \in IdsIn(w) /\ a \in Transactions BY <1>1, <1>3, IdsFinite DEF IdsIn
<1>5. s \in Stores
  <2>1. w.scheduled[i] \in Entries BY <1>1 DEF Worlds
  <2>2. QED BY <2>1 DEF Entries
<1>6. v.db # w.db BY <1>2
<1>7. IdsIn(w) # {} BY <1>4
<1>8. ASSUME NEW t \in IdsIn(w), w.tx[t].started, w.tx[t].plan.mode # "readonly", s \in w.tx[t].plan.scope
      PROVE  a = t
  BY <1>1, <1>2, <1>3, <1>8, OnlyItsOwn
<1>9. ASSUME NEW t \in IdsIn(w), s \in Changed(w.tx[t].undo) PROVE a = t
  <2>1. t \in Transactions BY <1>1, IdsFinite
  <2>2. w.tx[t].started /\ w.tx[t].plan.mode = "readwrite" /\ s \in w.tx[t].plan.scope
    BY <1>1, <1>9, <2>1, UndoIsItsOwn
  <2>3. w.tx[t].plan.mode # "readonly" BY <2>2
  <2>4. QED BY <1>8, <2>2, <2>3
<1>10. ASSUME NEW t \in Opens \cap IdsIn(w) PROVE a = t BY <1>1, <1>4, <1>10 DEF DoorsRight
<1>11. CASE Quiet(w, v) BY <1>6, <1>11 DEF Quiet
<1>12. CASE Begun(w, v) BY <1>6, <1>12 DEF Begun, Steady
<1>13. CASE Going(w, v)
  <2>1. PICK t \in Transactions : Acted(w, v, t) /\ w.tx[t].state \in {"Inactive", "Committing"}
    BY <1>13 DEF Going
  <2>2. t \in IdsIn(w) BY <1>1, <2>1 DEF ScheduleRight, Busy
  <2>3. CASE Worked(w, v, t)
    <3>1. /\ w.tx[t].started /\ w.tx[t].plan.mode # "readonly" /\ s \in w.tx[t].plan.scope
          /\ v.db.stores[s][1] = t
      BY <1>2, <1>5, <2>3 DEF Worked
    <3>2. a = t BY <1>8, <2>2, <3>1
    <3>3. QED BY <1>3, <3>1, <3>2
  <2>4. CASE Scrapped(w, v, t)
    <3>1. a # t BY <1>2, <1>3, <2>4 DEF Scrapped
    <3>2. t \notin Opens BY <1>10, <2>2, <3>1
    <3>3. w.tx[t].plan.mode # "versionchange"
      <4>1. TxRight(w.tx[t], t) BY <1>1, <2>1 DEF TxsRight
      <4>2. QED BY <2>1, <3>2, <4>1 DEF TxRight
    <3>4. v.db.stores[s] = Was(w.tx[t].undo, s, w.db.stores[s])
      BY <1>5, <2>4, <3>3 DEF Scrapped, Before
    <3>5. s \in Changed(w.tx[t].undo) BY <1>2, <3>4 DEF Was
    <3>6. QED BY <1>9, <2>2, <3>1, <3>5
  <2>5. QED BY <2>1, <2>3, <2>4 DEF Acted
<1>14. CASE Done(w, v) BY <1>6, <1>14 DEF Done, Completed
<1>15. CASE Refused(w, v) BY <1>6, <1>15 DEF Refused, Rejected
<1>16. CASE Entered(w, v)
  <2>1. PICK t \in Made, c \in Opens, j \in Worlds :
           w.tx[t].state = "unmade" /\ Joined(w, j, t, AsMade(t, c)) /\ Acted(j, v, t)
    BY <1>16 DEF Entered
  <2>2. t \in Transactions /\ w.tx \in [Transactions -> Txs] BY <1>1 DEF Transactions, Worlds
  <2>3. j.tx[t] = AsMade(t, c) /\ j.db = w.db BY <2>1, <2>2 DEF Joined
  <2>4. ~j.tx[t].started /\ j.tx[t].undo = <<>> /\ j.tx[t].plan.mode # "versionchange"
    BY <2>3, RealmsAssumption DEF AsMade, NewTx
  <2>5. CASE Worked(j, v, t) BY <1>2, <1>5, <2>3, <2>4, <2>5 DEF Worked
  <2>6. CASE Scrapped(j, v, t)
    <3>1. v.db.stores[s] = Was(j.tx[t].undo, s, j.db.stores[s])
      BY <1>5, <2>4, <2>6 DEF Scrapped, Before
    <3>2. Changed(<<>>) = {} BY DEF Changed
    <3>3. QED BY <1>2, <2>3, <2>4, <3>1, <3>2 DEF Was
  <2>7. QED BY <2>1, <2>5, <2>6 DEF Acted
<1>17. CASE Wiped(w, v) BY <1>7, <1>17 DEF Wiped
<1>18. CASE Raised(w, v) BY <1>7, <1>18 DEF Raised, Upgraded
<1>19. CASE Parted(w, v)
  <2>0. PICK M \in SUBSET Names : \E u : /\ Dropped(Gone(w, M), u, IdsIn(w) \cap M)
                                        /\ v.db = u.db /\ v.tx = u.tx /\ v.scheduled = u.scheduled
    BY <1>19 DEF Parted
  <2>1. PICK u : /\ Dropped(Gone(w, M), u, IdsIn(w) \cap M)
                 /\ v.db = u.db /\ v.tx = u.tx /\ v.scheduled = u.scheduled
    BY <2>0
  <2>2. PICK g, D : g = Gone(w, M) /\ D = IdsIn(w) \cap M OBVIOUS
  <2>3. Dropped(g, u, D) BY <2>1, <2>2
  <2>4. IdsIn(v) = IdsIn(g) \ D
    <3>1. IdsIn(v) = IdsIn(u) BY <2>1 DEF IdsIn
    <3>2. QED BY <2>3, <3>1 DEF Dropped
  <2>5. a \notin D BY <1>2, <1>3, <2>4
  <2>6. /\ g.db = w.db
        /\ \A t \in Transactions : g.tx[t].undo = w.tx[t].undo
    <3>1. /\ g.db = w.db
          /\ \A t \in Transactions :
               /\ g.tx[t] = IF w.tx[t].state \in Pending /\ t \in M
                            THEN [w.tx[t] EXCEPT !.state = "ended"] ELSE w.tx[t]
               /\ w.tx[t] \in Txs
      BY <1>1, <2>2, GoneFacts
    <3>2. QED BY <3>1 DEF Txs
  <2>7. D \cap Opens = {} BY <1>10, <2>2, <2>5
  <2>8. \A t \in D : s \notin Changed(w.tx[t].undo) BY <1>9, <2>2, <2>5
  <2>9. \A t \in D : t \in Transactions BY <1>1, <2>2, IdsFinite
  <2>10. \A t \in D : s \notin Changed(g.tx[t].undo) BY <2>6, <2>8, <2>9
  <2>11. u.db.stores[s] = g.db.stores[s] BY <1>5, <2>3, <2>7, <2>10 DEF Dropped
  <2>12. QED BY <1>2, <2>1, <2>6, <2>11
<1>20. QED
  BY <1>11, <1>12, <1>13, <1>14, <1>15, <1>16, <1>17, <1>18, <1>19 DEF Stepped

LEMMA IsolatedStep ==
    ASSUME IInv, Next
    PROVE  \A i \in DOMAIN scheduled : LET e == scheduled[i] IN
             \A s \in e.scope : e.started /\ db'.stores[s] # db.stores[s]
                 => e.id \notin Ids' \/ db'.stores[s][1] = e.id
<1>1. PICK v : Stepped(World, v) /\ After(v) BY StepStays DEF Stays
<1>2. PICK w : w = World OBVIOUS
<1>3. Good(w, {}, {}, AllWaiting) BY <1>2 DEF IInv
<1>4. LeavesAlone(w, v) BY <1>1, <1>2, <1>3, SteppedAlone
<1>5. w.db = db /\ w.scheduled = scheduled BY <1>2, WorldParts
<1>6. db' = v.db /\ Ids' = IdsIn(v) BY <1>1, AfterParts
<1>7. QED BY <1>4, <1>5, <1>6 DEF LeavesAlone

\* From its start to its end a transaction sees each of its stores change by nobody
\* else's hand, in any schedule of any pages' transactions and whichever of them
\* abort or end (start_ready, scopes_overlap).
THEOREM IsolationHolds == Spec => Isolated
<1>1. IInv /\ [Next]_vars =>
        [\A i \in DOMAIN scheduled : LET e == scheduled[i] IN
           \A s \in e.scope : e.started /\ db'.stores[s] # db.stores[s]
               => e.id \notin Ids' \/ db'.stores[s][1] = e.id]_vars
  BY IsolatedStep
<1>2. QED BY Inductive, <1>1, PTL DEF Spec, Isolated
-----------------------------------------------------------------------------
(* AtomicDatabase.  What a world has of its state: what each transaction    *)
(* has changed, what it has been told, and what is committed.               *)

TouchedIn(w, t) ==
    IF t \notin IdsIn(w) THEN {}
    ELSE IF t \in Opens THEN {"version"} \cup {s \in Stores : w.db.stores[s] # w.tx[t].saved.stores[s]}
    ELSE Changed(w.tx[t].undo)
WorkIn(w, t) == [x \in TouchedIn(w, t) |-> PartsOf(w.db)[x]]
ToldIn(w, t) == IF w.tx[t].state \in {"complete", "abort"} THEN w.tx[t].state ELSE "nothing"

\* The database is c but for what the transactions in the schedule have done.
CommittedIs(c, w) ==
    /\ c = [x \in Stores \cup {"version"} |-> c[x]]
    /\ \A t \in Opens \cap IdsIn(w) : c = PartsOf(w.tx[t].saved)
    /\ Opens \cap IdsIn(w) = {} =>
         /\ c["version"] = w.db.version
         /\ \A s \in Stores :
              /\ \A t \in IdsIn(w) : s \in Changed(w.tx[t].undo)
                                       => c[s] = Was(w.tx[t].undo, s, w.db.stores[s])
              /\ (\A t \in IdsIn(w) : s \notin Changed(w.tx[t].undo)) => c[s] = w.db.stores[s]

\* What of the invariant this takes.
Sound(w) == w \in Worlds /\ ScheduleRight(w, {}) /\ TxsRight(w) /\ DoorsRight(w, {})

LEMMA SoundAlone ==
    ASSUME NEW w, Sound(w), NEW t \in Opens \cap IdsIn(w)
    PROVE  IdsIn(w) = {t}
BY DEF Sound, DoorsRight

LEMMA SoundChanged ==
    ASSUME NEW w, Sound(w), NEW t \in IdsIn(w), NEW s, s \in Changed(w.tx[t].undo)
    PROVE  /\ t \in Transactions /\ t \notin Opens /\ s \in Stores
           /\ \A a \in IdsIn(w) : s \in Changed(w.tx[a].undo) => a = t
<1>1. w \in Worlds /\ TxsRight(w) /\ ScheduleRight(w, {}) BY DEF Sound
<1>2. \A a \in IdsIn(w) : a \in Transactions BY <1>1, IdsFinite
<1>3. t \in Transactions BY <1>2
<1>4. \A a \in IdsIn(w) : s \in Changed(w.tx[a].undo) =>
         w.tx[a].started /\ w.tx[a].plan.mode = "readwrite" /\ s \in w.tx[a].plan.scope
  BY <1>1, <1>2, UndoIsItsOwn
<1>5. w.tx[t].plan.mode = "readwrite" /\ s \in w.tx[t].plan.scope /\ w.tx[t].started BY <1>4
<1>6. w.tx \in [Transactions -> Txs] BY <1>1 DEF Worlds
<1>7. w.tx[t].plan \in Plans BY <1>3, <1>6 DEF Txs
<1>8. s \in Stores BY <1>5, <1>7 DEF Plans
<1>9. t \notin Opens
  <2>1. TxRight(w.tx[t], t) /\ w.tx[t].state # "unmade" BY <1>1, <1>3 DEF TxsRight, ScheduleRight, Busy
  <2>2. QED BY <1>5, <2>1 DEF TxRight
<1>10. ASSUME NEW a \in IdsIn(w), s \in Changed(w.tx[a].undo), a # t PROVE FALSE
  <2>1. w.tx[a].plan.mode = "readwrite" /\ s \in w.tx[a].plan.scope /\ w.tx[a].started BY <1>4, <1>10
  <2>2. \A j \in DOMAIN w.scheduled : w.scheduled[j].id = a => ~Waits(w.scheduled, j)
    BY <1>1, <2>1, StartedApart
  <2>3. \A j \in DOMAIN w.scheduled : w.scheduled[j].id = t => ~Waits(w.scheduled, j)
    BY <1>1, <1>5, StartedApart
  <2>4. \A j \in DOMAIN w.scheduled : w.scheduled[j].id \in {a, t} => ~Waits(w.scheduled, j)
    BY <2>2, <2>3
  <2>5. w.tx[t].plan.mode = "readonly" BY <1>1, <1>5, <1>10, <2>1, <2>4, Apart
  <2>6. QED BY <1>5, <2>5
<1>11. QED BY <1>3, <1>8, <1>9, <1>10

\* A world has one committed database.
LEMMA CommittedOne ==
    ASSUME NEW w, NEW c, NEW d, CommittedIs(c, w), CommittedIs(d, w)
    PROVE  c = d
<1>1. PICK X : X = Stores \cup {"version"} OBVIOUS
<1>2. c = [x \in X |-> c[x]] /\ d = [x \in X |-> d[x]] BY <1>1 DEF CommittedIs
<1>3. CASE Opens \cap IdsIn(w) # {} BY <1>3 DEF CommittedIs
<1>4. CASE Opens \cap IdsIn(w) = {}
  <2>1. c["version"] = d["version"] BY <1>4 DEF CommittedIs
  <2>2. ASSUME NEW s \in Stores PROVE c[s] = d[s]
    <3>1. CASE \E t \in IdsIn(w) : s \in Changed(w.tx[t].undo) BY <1>4, <3>1 DEF CommittedIs
    <3>2. CASE \A t \in IdsIn(w) : s \notin Changed(w.tx[t].undo) BY <1>4, <3>2 DEF CommittedIs
    <3>3. QED BY <3>1, <3>2
  <2>3. \A x \in X : c[x] = d[x] BY <1>1, <2>1, <2>2
  <2>4. QED BY <1>2, <2>3
<1>5. QED BY <1>3, <1>4

LEMMA NoWork ==
    ASSUME NEW w, NEW t, TouchedIn(w, t) = {}
    PROVE  WorkIn(w, t) = <<>>
BY DEF WorkIn
\* What a step may do to the stores and to what is committed: whoever writes
\* has been made, and an upgrade is made on what is committed then.
Sourced(w, v, c, d) ==
    /\ \A t \in Transactions : v.tx[t].state = "unmade" => w.tx[t].state = "unmade"
    /\ \A s \in Stores :
         /\ \/ v.db.stores[s] \in {w.db.stores[s], c[s], Absent}
            \/ \E r \in Transactions : v.db.stores[s][1] = r /\ v.tx[r].state # "unmade"
         /\ d[s] \in {w.db.stores[s], c[s], Absent}
    /\ \A t \in Opens \cap IdsIn(v) :
         \/ t \in IdsIn(w) /\ d = c
         \/ w.tx[t].state = "unmade" /\ \A s \in Stores : d[s] = w.db.stores[s]

\* Nothing is of a transaction that is not made, and what is committed of none
\* of an upgrade's.
Marks(w, c) == \A s \in Stores : \A t \in Transactions :
    /\ w.tx[t].state = "unmade" => w.db.stores[s][1] # t /\ c[s][1] # t
    /\ t \in Opens \cap IdsIn(w) => c[s][1] # t

LEMMA MarksOn ==
    ASSUME NEW w, NEW v, NEW c, NEW d, Marks(w, c), Sourced(w, v, c, d)
    PROVE  Marks(v, d)
<1>1. SUFFICES ASSUME NEW s \in Stores, NEW t \in Transactions
               PROVE  /\ v.tx[t].state = "unmade" => v.db.stores[s][1] # t /\ d[s][1] # t
                      /\ t \in Opens \cap IdsIn(v) => d[s][1] # t
  BY DEF Marks
<1>2. Absent[1] # t BY NamesAssumption DEF Absent, Transactions, Requests
<1>3. ASSUME v.tx[t].state = "unmade" PROVE v.db.stores[s][1] # t /\ d[s][1] # t
  <2>1. w.tx[t].state = "unmade" BY <1>3 DEF Sourced
  <2>2. w.db.stores[s][1] # t /\ c[s][1] # t BY <2>1 DEF Marks
  <2>3. d[s][1] # t BY <1>2, <2>2 DEF Sourced
  <2>4. CASE v.db.stores[s] \in {w.db.stores[s], c[s], Absent} BY <1>2, <2>2, <2>3, <2>4
  <2>5. CASE \E r \in Transactions : v.db.stores[s][1] = r /\ v.tx[r].state # "unmade"
    BY <1>3, <2>3, <2>5
  <2>6. QED BY <2>4, <2>5 DEF Sourced
<1>4. ASSUME t \in Opens \cap IdsIn(v) PROVE d[s][1] # t
  <2>1. CASE t \in IdsIn(w) /\ d = c BY <1>4, <2>1 DEF Marks
  <2>2. CASE w.tx[t].state = "unmade" /\ d[s] = w.db.stores[s] BY <2>2 DEF Marks
  <2>3. QED BY <1>4, <2>1, <2>2 DEF Sourced
<1>5. QED BY <1>3, <1>4

\* What a step is to AtomicDatabase.
SameTold(w, v) == \A t \in Transactions : ToldIn(v, t) = ToldIn(w, t)
Discards(w, v, c, d) ==
    d = c /\ SameTold(w, v) /\ \A t \in Transactions : WorkIn(v, t) \in {WorkIn(w, t), <<>>}
Deletion(w, v, c, d) ==
    /\ d = PartsOf(Nothing) /\ SameTold(w, v)
    /\ \A t \in Transactions : WorkIn(w, t) = <<>> /\ WorkIn(v, t) = <<>>
Writes(w, v, c, d, t) ==
    /\ d = c /\ SameTold(w, v) /\ ToldIn(w, t) = "nothing"
    /\ TouchedIn(w, t) \subseteq TouchedIn(v, t)
    /\ \A u \in Transactions \ {t} : /\ WorkIn(v, u) = WorkIn(w, u)
                                     /\ TouchedIn(w, u) \cap TouchedIn(v, t) = {}
Commits(w, v, c, d, t) ==
    /\ d = [x \in Stores \cup {"version"} |-> IF x \in TouchedIn(w, t) THEN PartsOf(w.db)[x] ELSE c[x]]
    /\ ToldIn(w, t) = "nothing" /\ ToldIn(v, t) = "complete" /\ WorkIn(v, t) = <<>>
    /\ \A u \in Transactions \ {t} : ToldIn(v, u) = ToldIn(w, u) /\ WorkIn(v, u) = WorkIn(w, u)
Tells(w, v, c, d, t) ==
    /\ d = c /\ ToldIn(w, t) = "nothing" /\ ToldIn(v, t) = "abort"
    /\ WorkIn(w, t) = <<>> /\ WorkIn(v, t) = <<>>
    /\ \A u \in Transactions \ {t} : ToldIn(v, u) = ToldIn(w, u) /\ WorkIn(v, u) = WorkIn(w, u)
Moved(w, v, c, d) ==
    \/ Discards(w, v, c, d) \/ Deletion(w, v, c, d)
    \/ \E t \in Transactions : Writes(w, v, c, d, t) \/ Commits(w, v, c, d, t) \/ Tells(w, v, c, d, t)

\* From w to v the transactions of D are undone, and whoever comes has done nothing.
Undid(w, v, D) ==
    /\ D \subseteq IdsIn(w) /\ IdsIn(w) \ D \subseteq IdsIn(v)
    /\ \A t \in IdsIn(v) \ (IdsIn(w) \ D) : t \notin Opens /\ Changed(v.tx[t].undo) = {}
    /\ \A t \in IdsIn(w) \ D : v.tx[t].undo = w.tx[t].undo /\ v.tx[t].saved = w.tx[t].saved
    /\ \A t \in D \cap Opens : v.db = w.tx[t].saved
    /\ D \cap Opens = {} =>
         /\ v.db.version = w.db.version
         /\ \A s \in Stores :
              /\ \A t \in D : s \in Changed(w.tx[t].undo)
                                => v.db.stores[s] = Was(w.tx[t].undo, s, w.db.stores[s])
              /\ (\A t \in D : s \notin Changed(w.tx[t].undo)) => v.db.stores[s] = w.db.stores[s]

\* Where nobody has done anything, what is committed is the database.
LEMMA CommittedAll ==
    ASSUME NEW w, NEW c, CommittedIs(c, w), \A t \in IdsIn(w) : t \notin Opens /\ Changed(w.tx[t].undo) = {}
    PROVE  c = PartsOf(w.db)
<1>1. PICK X : X = Stores \cup {"version"} OBVIOUS
<1>2. c = [x \in X |-> c[x]] /\ PartsOf(w.db) = [x \in X |-> PartsOf(w.db)[x]]
  BY <1>1 DEF CommittedIs, PartsOf
<1>3. Opens \cap IdsIn(w) = {} OBVIOUS
<1>4. /\ c["version"] = w.db.version
      /\ \A s \in Stores : c[s] = w.db.stores[s]
  BY <1>3 DEF CommittedIs
<1>5. \A x \in X : c[x] = PartsOf(w.db)[x] BY <1>1, <1>4, PartsAssumption DEF PartsOf
<1>6. QED BY <1>2, <1>5

LEMMA Part ==
    ASSUME NEW e, NEW s \in Stores
    PROVE  PartsOf(e)[s] = e.stores[s] /\ PartsOf(e)["version"] = e.version
BY PartsAssumption DEF PartsOf
LEMMA UndidCommitted ==
    ASSUME NEW w, Sound(w), NEW v, Sound(v), NEW D, Undid(w, v, D),
           NEW c, CommittedIs(c, w), NEW d, CommittedIs(d, v)
    PROVE  d = c
<1>1. PICK X : X = Stores \cup {"version"} OBVIOUS
<1>2. c = [x \in X |-> c[x]] /\ d = [x \in X |-> d[x]] BY <1>1 DEF CommittedIs
<1>3. CASE \E t \in Opens : t \in IdsIn(w) \ D
  <2>1. PICK t \in Opens : t \in IdsIn(w) \ D BY <1>3
  <2>2. t \in IdsIn(v) /\ v.tx[t].saved = w.tx[t].saved BY <2>1 DEF Undid
  <2>3. c = PartsOf(w.tx[t].saved) /\ d = PartsOf(v.tx[t].saved)
    BY <2>1, <2>2 DEF CommittedIs
  <2>4. QED BY <2>2, <2>3
<1>4. CASE D \cap Opens # {}
  <2>1. PICK t \in Opens : t \in D BY <1>4
  <2>2. t \in IdsIn(w) BY <2>1 DEF Undid
  <2>3. IdsIn(w) = {t} BY <2>1, <2>2, SoundAlone
  <2>4. IdsIn(w) \ D = {} BY <2>1, <2>3
  <2>5. \A a \in IdsIn(v) : a \notin Opens /\ Changed(v.tx[a].undo) = {} BY <2>4 DEF Undid
  <2>6. d = PartsOf(v.db) BY <2>5, CommittedAll
  <2>7. v.db = w.tx[t].saved BY <2>1 DEF Undid
  <2>8. c = PartsOf(w.tx[t].saved) BY <2>1, <2>2 DEF CommittedIs
  <2>9. QED BY <2>6, <2>7, <2>8
<1>5. CASE D \cap Opens = {} /\ ~\E t \in Opens : t \in IdsIn(w) \ D
  <2>1. Opens \cap IdsIn(w) = {} BY <1>5
  <2>2. Opens \cap IdsIn(v) = {} BY <1>5 DEF Undid
  <2>3. c["version"] = d["version"] BY <1>5, <2>1, <2>2 DEF CommittedIs, Undid
  <2>4. ASSUME NEW s \in Stores PROVE c[s] = d[s]
    <3>1. CASE \E t \in IdsIn(w) : s \in Changed(w.tx[t].undo)
      <4>1. PICK t \in IdsIn(w) : s \in Changed(w.tx[t].undo) BY <3>1
      <4>2. c[s] = Was(w.tx[t].undo, s, w.db.stores[s]) BY <2>1, <4>1 DEF CommittedIs
      <4>3. \A a \in IdsIn(w) : s \in Changed(w.tx[a].undo) => a = t BY <4>1, SoundChanged
      <4>4. CASE t \in D
        <5>1. v.db.stores[s] = Was(w.tx[t].undo, s, w.db.stores[s]) BY <1>5, <4>1, <4>4 DEF Undid
        <5>2. ASSUME NEW a \in IdsIn(v) PROVE s \notin Changed(v.tx[a].undo)
          <6>1. CASE a \in IdsIn(w) \ D
            <7>1. v.tx[a].undo = w.tx[a].undo /\ a # t BY <4>4, <6>1 DEF Undid
            <7>2. QED BY <4>3, <6>1, <7>1
          <6>2. CASE a \notin IdsIn(w) \ D BY <6>2 DEF Undid
          <6>3. QED BY <6>1, <6>2
        <5>3. d[s] = v.db.stores[s] BY <2>2, <5>2 DEF CommittedIs
        <5>4. QED BY <4>2, <5>1, <5>3
      <4>5. CASE t \notin D
        <5>1. t \in IdsIn(v) /\ v.tx[t].undo = w.tx[t].undo BY <4>5 DEF Undid
        <5>2. d[s] = Was(v.tx[t].undo, s, v.db.stores[s]) BY <2>2, <4>1, <5>1 DEF CommittedIs
        <5>3. QED BY <4>1, <4>2, <5>1, <5>2 DEF Was
      <4>6. QED BY <4>4, <4>5
    <3>2. CASE \A t \in IdsIn(w) : s \notin Changed(w.tx[t].undo)
      <4>1. c[s] = w.db.stores[s] BY <2>1, <3>2 DEF CommittedIs
      <4>2. v.db.stores[s] = w.db.stores[s] BY <1>5, <3>2 DEF Undid
      <4>3. ASSUME NEW a \in IdsIn(v) PROVE s \notin Changed(v.tx[a].undo)
        <5>1. CASE a \in IdsIn(w) \ D
          <6>1. v.tx[a].undo = w.tx[a].undo BY <5>1 DEF Undid
          <6>2. QED BY <3>2, <5>1, <6>1
        <5>2. CASE a \notin IdsIn(w) \ D BY <5>2 DEF Undid
        <5>3. QED BY <5>1, <5>2
      <4>4. d[s] = v.db.stores[s] BY <2>2, <4>3 DEF CommittedIs
      <4>5. QED BY <4>1, <4>2, <4>4
    <3>3. QED BY <3>1, <3>2
  <2>5. \A x \in X : c[x] = d[x] BY <1>1, <2>3, <2>4
  <2>6. QED BY <1>2, <2>5
<1>6. QED BY <1>3, <1>4, <1>5

\* Others' work is where nothing is undone.
LEMMA UndidWork ==
    ASSUME NEW w, Sound(w), NEW v, Sound(v), NEW D, Undid(w, v, D), NEW t \in Transactions
    PROVE  WorkIn(v, t) = IF t \in IdsIn(w) \ D THEN WorkIn(w, t) ELSE <<>>
<1>1. CASE t \notin IdsIn(w) \ D
  <2>1. TouchedIn(v, t) = {} BY <1>1 DEF TouchedIn, Undid
  <2>2. QED BY <1>1, <2>1, NoWork
<1>2. CASE t \in IdsIn(w) \ D /\ t \in Opens
  <2>1. t \in IdsIn(v) /\ v.tx[t].undo = w.tx[t].undo /\ v.tx[t].saved = w.tx[t].saved
    BY <1>2 DEF Undid
  <2>2. IdsIn(w) = {t} BY <1>2, SoundAlone
  <2>3. D = {} BY <1>2, <2>2 DEF Undid
  <2>4. v.db.version = w.db.version /\ \A s \in Stores : v.db.stores[s] = w.db.stores[s]
    BY <2>3 DEF Undid
  <2>5. TouchedIn(v, t) = TouchedIn(w, t) BY <1>2, <2>1, <2>4 DEF TouchedIn
  <2>6. TouchedIn(w, t) \subseteq Stores \cup {"version"} BY <1>2 DEF TouchedIn
  <2>7. \A x \in TouchedIn(w, t) : PartsOf(v.db)[x] = PartsOf(w.db)[x] BY <2>4, <2>6 DEF PartsOf
  <2>8. QED BY <1>2, <2>5, <2>7 DEF WorkIn
<1>3. CASE t \in IdsIn(w) \ D /\ t \notin Opens
  <2>1. t \in IdsIn(v) /\ v.tx[t].undo = w.tx[t].undo BY <1>3 DEF Undid
  <2>2. TouchedIn(v, t) = Changed(w.tx[t].undo) /\ TouchedIn(w, t) = Changed(w.tx[t].undo)
    BY <1>3, <2>1 DEF TouchedIn
  <2>3. ASSUME NEW s \in Changed(w.tx[t].undo) PROVE PartsOf(v.db)[s] = PartsOf(w.db)[s]
    <3>1. s \in Stores /\ \A a \in IdsIn(w) : s \in Changed(w.tx[a].undo) => a = t
      BY <1>3, SoundChanged
    <3>2. D \subseteq IdsIn(w) BY DEF Undid
    <3>3. D \cap Opens = {}
      <4>1. \A a \in D \cap Opens : IdsIn(w) = {a} BY <3>2, SoundAlone
      <4>2. QED BY <1>3, <4>1
    <3>4. \A a \in D : s \notin Changed(w.tx[a].undo) BY <1>3, <3>1, <3>2
    <3>5. v.db.stores[s] = w.db.stores[s] BY <3>1, <3>3, <3>4 DEF Undid
    <3>6. QED BY <3>1, <3>5, Part
  <2>4. QED BY <1>3, <2>2, <2>3 DEF WorkIn
<1>4. QED BY <1>1, <1>2, <1>3

LEMMA UndidDiscards ==
    ASSUME NEW w, Sound(w), NEW v, Sound(v), NEW D, Undid(w, v, D), SameTold(w, v),
           NEW c, CommittedIs(c, w), NEW d, CommittedIs(d, v)
    PROVE  Discards(w, v, c, d)
<1>1. d = c BY UndidCommitted
<1>2. \A t \in Transactions : WorkIn(v, t) \in {WorkIn(w, t), <<>>} BY UndidWork
<1>3. QED BY <1>1, <1>2 DEF Discards
LEMMA UndidSourced ==
    ASSUME NEW w, Sound(w), NEW v, Sound(v), NEW D, Undid(w, v, D),
           \A t \in Transactions : v.tx[t].state = "unmade" => w.tx[t].state = "unmade",
           NEW c, CommittedIs(c, w), NEW d, CommittedIs(d, v)
    PROVE  Sourced(w, v, c, d)
<1>1. d = c BY UndidCommitted
<1>2. ASSUME NEW s \in Stores PROVE v.db.stores[s] \in {w.db.stores[s], c[s], Absent}
  <2>1. CASE D \cap Opens # {}
    <3>1. PICK t \in Opens : t \in D BY <2>1
    <3>2. t \in IdsIn(w) /\ v.db = w.tx[t].saved BY <3>1 DEF Undid
    <3>3. c = PartsOf(v.db) BY <3>1, <3>2 DEF CommittedIs
    <3>4. QED BY <3>3, Part
  <2>2. CASE D \cap Opens = {} /\ \E t \in D : s \in Changed(w.tx[t].undo)
    <3>1. PICK t \in D : s \in Changed(w.tx[t].undo) BY <2>2
    <3>2. t \in IdsIn(w) BY DEF Undid
    <3>3. v.db.stores[s] = Was(w.tx[t].undo, s, w.db.stores[s]) BY <2>2, <3>1 DEF Undid
    <3>4. t \notin Opens BY <3>1, <3>2, SoundChanged
    <3>5. Opens \cap IdsIn(w) = {}
      <4>1. \A a \in Opens \cap IdsIn(w) : IdsIn(w) = {a} BY SoundAlone
      <4>2. QED BY <3>2, <3>4, <4>1
    <3>6. c[s] = Was(w.tx[t].undo, s, w.db.stores[s]) BY <3>1, <3>2, <3>5 DEF CommittedIs
    <3>7. QED BY <3>3, <3>6
  <2>3. CASE D \cap Opens = {} /\ \A t \in D : s \notin Changed(w.tx[t].undo)
    BY <2>3 DEF Undid
  <2>4. QED BY <2>1, <2>2, <2>3
<1>3. \A t \in Opens \cap IdsIn(v) : t \in IdsIn(w) BY DEF Undid
<1>4. QED BY <1>1, <1>2, <1>3 DEF Sourced

LEMMA UndidMoved ==
    ASSUME NEW w, Sound(w), NEW v, Sound(v), NEW D, Undid(w, v, D), SameTold(w, v),
           \A t \in Transactions : v.tx[t].state = "unmade" => w.tx[t].state = "unmade",
           NEW c, CommittedIs(c, w), NEW d, CommittedIs(d, v)
    PROVE  Moved(w, v, c, d) /\ Sourced(w, v, c, d)
BY UndidDiscards, UndidSourced DEF Moved

LEMMA QuietMoved ==
    ASSUME NEW w, Sound(w), NEW v, Sound(v), Quiet(w, v),
           NEW c, CommittedIs(c, w), NEW d, CommittedIs(d, v)
    PROVE  Moved(w, v, c, d) /\ Sourced(w, v, c, d)
<1>1. IdsIn(v) = IdsIn(w) /\ v.tx = w.tx /\ v.db = w.db BY DEF Quiet, IdsIn
<1>2. Undid(w, v, {}) BY <1>1 DEF Undid
<1>3. SameTold(w, v) BY <1>1 DEF SameTold, ToldIn
<1>4. QED BY <1>1, <1>2, <1>3, UndidMoved

LEMMA BegunMoved ==
    ASSUME NEW w, Sound(w), NEW v, Sound(v), Begun(w, v),
           NEW c, CommittedIs(c, w), NEW d, CommittedIs(d, v)
    PROVE  Moved(w, v, c, d) /\ Sourced(w, v, c, d)
<1>1. PICK t \in Transactions : Steady(w, v, t) BY DEF Begun
<1>2. IdsIn(v) = IdsIn(w) /\ v.db = w.db BY <1>1 DEF Steady, IdsIn
<1>3. \A u \in Transactions : v.tx[u].undo = w.tx[u].undo /\ v.tx[u].saved = w.tx[u].saved
  BY <1>1 DEF Steady
<1>4. IdsIn(w) \subseteq Transactions BY IdsFinite DEF Sound
<1>5. Undid(w, v, {}) BY <1>2, <1>3, <1>4 DEF Undid
<1>6. \A u \in Transactions : v.tx[u].state = w.tx[u].state \/ (v.tx[u].state \in Busy /\ w.tx[u].state \in Busy)
  BY <1>1 DEF Steady
<1>7. SameTold(w, v) BY <1>6 DEF SameTold, ToldIn, Busy
<1>8. \A u \in Transactions : v.tx[u].state = "unmade" => w.tx[u].state = "unmade" BY <1>6 DEF Busy
<1>9. QED BY <1>5, <1>7, <1>8, UndidMoved

\* A transaction that is undone: it aborts.
LEMMA ScrappedMoved ==
    ASSUME NEW w, Sound(w), NEW v, Sound(v), NEW t \in IdsIn(w), Scrapped(w, v, t),
           NEW c, CommittedIs(c, w), NEW d, CommittedIs(d, v)
    PROVE  Moved(w, v, c, d) /\ Sourced(w, v, c, d)
<1>1. t \in Transactions /\ IdsIn(w) \subseteq Transactions BY IdsFinite DEF Sound
<1>2. w.tx[t].state \in Busy BY DEF Sound, ScheduleRight
<1>3. w.tx[t].plan.mode = "versionchange" <=> t \in Opens
  <2>1. TxRight(w.tx[t], t) BY <1>1 DEF Sound, TxsRight
  <2>2. w.tx[t].state # "unmade" BY <1>2 DEF Busy
  <2>3. QED BY <2>1, <2>2 DEF TxRight
<1>4. v.tx[t].state = "Finished" /\ \A u \in Transactions \ {t} : v.tx[u] = w.tx[u] BY DEF Scrapped
<1>5. IdsIn(v) = IdsIn(w) \ {t} /\ v.db = Before(w, t) BY DEF Scrapped
<1>6. \A u \in IdsIn(w) \ {t} : v.tx[u] = w.tx[u] BY <1>1, <1>4
<1>7. t \in Opens => v.db = w.tx[t].saved BY <1>3, <1>5 DEF Before
<1>8. t \notin Opens =>
        /\ v.db.version = w.db.version
        /\ \A s \in Stores : v.db.stores[s] = Was(w.tx[t].undo, s, w.db.stores[s])
  BY <1>3, <1>5 DEF Before
<1>9. \A s \in Stores : s \notin Changed(w.tx[t].undo)
                        => Was(w.tx[t].undo, s, w.db.stores[s]) = w.db.stores[s]
  BY DEF Was
<1>10. Undid(w, v, {t}) BY <1>5, <1>6, <1>7, <1>8, <1>9 DEF Undid
<1>11. SameTold(w, v)
  <2> SUFFICES ASSUME NEW u \in Transactions PROVE ToldIn(v, u) = ToldIn(w, u) BY DEF SameTold
  <2>1. CASE u = t BY <1>2, <1>4, <2>1 DEF ToldIn, Busy
  <2>2. CASE u # t
    <3>1. v.tx[u] = w.tx[u] BY <1>4, <2>2
    <3>2. QED BY <3>1 DEF ToldIn
  <2>3. QED BY <2>1, <2>2
<1>12. \A u \in Transactions : v.tx[u].state = "unmade" => w.tx[u].state = "unmade" BY <1>4
<1>13. QED BY <1>10, <1>11, <1>12, UndidMoved

\* An abort that its page is told of.
LEMMA RefusedMoved ==
    ASSUME NEW w, Sound(w), NEW v, Sound(v), Refused(w, v),
           NEW c, CommittedIs(c, w), NEW d, CommittedIs(d, v)
    PROVE  Moved(w, v, c, d) /\ Sourced(w, v, c, d)
<1>1. PICK t \in Transactions : Rejected(w, v, t) /\ w.tx[t].state = "Finished" BY DEF Refused
<1>2. /\ v.db = w.db /\ IdsIn(v) = IdsIn(w) /\ v.tx[t].state = "abort"
      /\ \A u \in Transactions \ {t} : v.tx[u] = w.tx[u]
  BY <1>1 DEF Rejected, IdsIn
<1>3. IdsIn(w) \subseteq Transactions BY IdsFinite DEF Sound
<1>4. t \notin IdsIn(w) BY <1>1 DEF Sound, ScheduleRight, Busy
<1>5. \A u \in IdsIn(w) : v.tx[u] = w.tx[u] BY <1>2, <1>3, <1>4
<1>6. Undid(w, v, {}) BY <1>2, <1>5 DEF Undid
<1>7. \A u \in Transactions : v.tx[u].state = "unmade" => w.tx[u].state = "unmade" BY <1>2
<1>8. d = c BY <1>6, UndidCommitted
<1>9. \A u \in Transactions : WorkIn(v, u) = IF u \in IdsIn(w) THEN WorkIn(w, u) ELSE <<>>
  BY <1>6, UndidWork
<1>10. \A u \in Transactions : u \notin IdsIn(w) => WorkIn(w, u) = <<>> BY NoWork DEF TouchedIn
<1>11. \A u \in Transactions \ {t} : ToldIn(v, u) = ToldIn(w, u) BY <1>2 DEF ToldIn
<1>12. ToldIn(w, t) = "nothing" /\ ToldIn(v, t) = "abort" BY <1>1, <1>2 DEF ToldIn
<1>13. Tells(w, v, c, d, t) BY <1>4, <1>8, <1>9, <1>10, <1>11, <1>12 DEF Tells
<1>14. QED BY <1>6, <1>7, <1>13, UndidSourced DEF Moved
\* A transaction that works: it writes what no other has changed, and what it
\* has changed once stays changed.
LEMMA WorkedCommitted ==
    ASSUME NEW w, Sound(w), NEW v, Sound(v), NEW t \in IdsIn(w), Worked(w, v, t),
           NEW c, CommittedIs(c, w), NEW d, CommittedIs(d, v)
    PROVE  d = c
<1>1. t \in Transactions /\ IdsIn(v) = IdsIn(w) /\ IdsIn(w) \subseteq Transactions
  BY IdsFinite DEF Sound, Worked, IdsIn
<1>2. \A u \in IdsIn(w) : u # t => v.tx[u] = w.tx[u] BY <1>1 DEF Worked
<1>3. CASE Opens \cap IdsIn(w) # {}
  <2>1. PICK o \in Opens : o \in IdsIn(w) BY <1>3
  <2>2. v.tx[o].saved = w.tx[o].saved BY <1>1, <1>2, <2>1 DEF Worked
  <2>3. c = PartsOf(w.tx[o].saved) /\ d = PartsOf(v.tx[o].saved) BY <1>1, <2>1 DEF CommittedIs
  <2>4. QED BY <2>2, <2>3
<1>4. CASE Opens \cap IdsIn(w) = {}
  <2>1. w.tx[t].plan.mode # "versionchange"
    <3>1. TxRight(w.tx[t], t) BY <1>1 DEF Sound, TxsRight
    <3>2. w.tx[t].state # "unmade" BY DEF Sound, ScheduleRight, Busy
    <3>3. QED BY <1>4, <3>1, <3>2 DEF TxRight
  <2>2. PICK X : X = Stores \cup {"version"} OBVIOUS
  <2>3. c = [x \in X |-> c[x]] /\ d = [x \in X |-> d[x]] BY <2>2 DEF CommittedIs
  <2>4. c["version"] = d["version"] BY <1>1, <1>4 DEF CommittedIs, Worked
  <2>5. ASSUME NEW s \in Stores PROVE c[s] = d[s]
    <3>1. Was(v.tx[t].undo, s, v.db.stores[s]) = Was(w.tx[t].undo, s, w.db.stores[s])
      BY <2>1 DEF Worked
    <3>2. CASE s \in Changed(w.tx[t].undo)
      <4>1. s \in Changed(v.tx[t].undo) BY <3>2 DEF Worked
      <4>2. c[s] = Was(w.tx[t].undo, s, w.db.stores[s]) BY <1>4, <3>2 DEF CommittedIs
      <4>3. d[s] = Was(v.tx[t].undo, s, v.db.stores[s]) BY <1>1, <1>4, <4>1 DEF CommittedIs
      <4>4. QED BY <3>1, <4>2, <4>3
    <3>3. CASE s \notin Changed(w.tx[t].undo) /\ s \in Changed(v.tx[t].undo)
      <4>1. \A a \in IdsIn(w) : s \in Changed(v.tx[a].undo) => a = t BY <1>1, <3>3, SoundChanged
      <4>2. \A a \in IdsIn(w) : s \notin Changed(w.tx[a].undo) BY <1>2, <3>3, <4>1
      <4>3. c[s] = w.db.stores[s] BY <1>4, <4>2 DEF CommittedIs
      <4>4. d[s] = Was(v.tx[t].undo, s, v.db.stores[s]) BY <1>1, <1>4, <3>3 DEF CommittedIs
      <4>5. QED BY <3>1, <3>3, <4>3, <4>4 DEF Was
    <3>4. CASE s \notin Changed(v.tx[t].undo) /\ s \notin Changed(w.tx[t].undo)
      <4>1. v.db.stores[s] = w.db.stores[s] BY <3>1, <3>4 DEF Was
      <4>2. CASE \E a \in IdsIn(w) : s \in Changed(w.tx[a].undo)
        <5>1. PICK a \in IdsIn(w) : s \in Changed(w.tx[a].undo) BY <4>2
        <5>2. v.tx[a] = w.tx[a] BY <1>2, <3>4, <5>1
        <5>3. c[s] = Was(w.tx[a].undo, s, w.db.stores[s]) BY <1>4, <5>1 DEF CommittedIs
        <5>4. d[s] = Was(v.tx[a].undo, s, v.db.stores[s]) BY <1>1, <1>4, <5>1, <5>2 DEF CommittedIs
        <5>5. QED BY <4>1, <5>2, <5>3, <5>4
      <4>3. CASE \A a \in IdsIn(w) : s \notin Changed(w.tx[a].undo)
        <5>1. \A a \in IdsIn(w) : s \notin Changed(v.tx[a].undo) BY <1>2, <3>4, <4>3
        <5>2. c[s] = w.db.stores[s] BY <1>4, <4>3 DEF CommittedIs
        <5>3. d[s] = v.db.stores[s] BY <1>1, <1>4, <5>1 DEF CommittedIs
        <5>4. QED BY <4>1, <5>2, <5>3
      <4>4. QED BY <4>2, <4>3
    <3>5. QED BY <3>2, <3>3, <3>4
  <2>6. \A x \in X : c[x] = d[x] BY <2>2, <2>4, <2>5
  <2>7. QED BY <2>3, <2>6
<1>5. QED BY <1>3, <1>4

LEMMA WorkedMoved ==
    ASSUME NEW w, Sound(w), NEW v, Sound(v), NEW t \in IdsIn(w), Worked(w, v, t),
           NEW c, CommittedIs(c, w), Marks(w, c), NEW d, CommittedIs(d, v)
    PROVE  Moved(w, v, c, d) /\ Sourced(w, v, c, d)
<1>1. t \in Transactions /\ IdsIn(v) = IdsIn(w) /\ IdsIn(w) \subseteq Transactions
  BY IdsFinite DEF Sound, Worked, IdsIn
<1>2. d = c BY WorkedCommitted
<1>3. w.tx[t].state \in Busy BY DEF Sound, ScheduleRight
<1>4. \A u \in Transactions : v.tx[u].state = w.tx[u].state \/ (v.tx[u].state \in Busy /\ w.tx[u].state \in Busy)
  BY DEF Worked
<1>5. SameTold(w, v) /\ ToldIn(w, t) = "nothing" BY <1>3, <1>4 DEF SameTold, ToldIn, Busy
<1>6. \A u \in Transactions : u # t => v.tx[u] = w.tx[u] BY DEF Worked
<1>7. TouchedIn(w, t) \subseteq TouchedIn(v, t)
  <2>1. CASE t \in Opens
    <3>1. v.tx[t].saved = w.tx[t].saved BY DEF Worked
    <3>2. c = PartsOf(w.tx[t].saved) BY <2>1 DEF CommittedIs
    <3>3. ASSUME NEW s \in Stores, w.db.stores[s] # w.tx[t].saved.stores[s]
          PROVE  v.db.stores[s] # v.tx[t].saved.stores[s]
      <4>1. c[s] = w.tx[t].saved.stores[s] BY <3>2, Part
      <4>2. c[s][1] # t BY <1>1, <2>1 DEF Marks
      <4>3. v.db.stores[s] # w.db.stores[s] => v.db.stores[s][1] = t BY DEF Worked
      <4>4. QED BY <3>1, <3>3, <4>1, <4>2, <4>3
    <3>4. QED BY <1>1, <2>1, <3>3 DEF TouchedIn
  <2>2. CASE t \notin Opens
    <3>1. Changed(w.tx[t].undo) \subseteq Changed(v.tx[t].undo) BY DEF Worked
    <3>2. QED BY <1>1, <2>2, <3>1 DEF TouchedIn
  <2>3. QED BY <2>1, <2>2
<1>8. ASSUME NEW u \in Transactions \ {t}
      PROVE  WorkIn(v, u) = WorkIn(w, u) /\ TouchedIn(w, u) \cap TouchedIn(v, t) = {}
  <2>1. CASE u \notin IdsIn(w)
    <3>1. TouchedIn(w, u) = {} /\ TouchedIn(v, u) = {} BY <1>1, <2>1 DEF TouchedIn
    <3>2. QED BY <3>1, NoWork
  <2>2. CASE u \in IdsIn(w)
    <3>1. u \notin Opens /\ t \notin Opens BY <2>2, SoundAlone
    <3>2. v.tx[u] = w.tx[u] BY <1>6
    <3>3. /\ TouchedIn(w, u) = Changed(w.tx[u].undo) /\ TouchedIn(v, u) = Changed(w.tx[u].undo)
          /\ TouchedIn(v, t) = Changed(v.tx[t].undo)
      BY <1>1, <2>2, <3>1, <3>2 DEF TouchedIn
    <3>4. ASSUME NEW s \in Changed(w.tx[u].undo)
          PROVE  s \notin Changed(v.tx[t].undo) /\ PartsOf(v.db)[s] = PartsOf(w.db)[s]
      <4>1. s \in Stores /\ \A a \in IdsIn(v) : s \in Changed(v.tx[a].undo) => a = u
        BY <1>1, <2>2, <3>2, SoundChanged
      <4>2. s \notin Changed(v.tx[t].undo) BY <1>1, <4>1
      <4>3. s \notin Changed(w.tx[t].undo) BY <4>2 DEF Worked
      <4>4. w.tx[t].plan.mode # "versionchange"
        <5>1. TxRight(w.tx[t], t) BY <1>1 DEF Sound, TxsRight
        <5>2. w.tx[t].state # "unmade" BY <1>3 DEF Busy
        <5>3. QED BY <3>1, <5>1, <5>2 DEF TxRight
      <4>5. Was(v.tx[t].undo, s, v.db.stores[s]) = Was(w.tx[t].undo, s, w.db.stores[s])
        BY <4>1, <4>4 DEF Worked
      <4>6. v.db.stores[s] = w.db.stores[s] BY <4>2, <4>3, <4>5 DEF Was
      <4>7. QED BY <4>1, <4>2, <4>6, Part
    <3>5. QED BY <3>3, <3>4 DEF WorkIn
  <2>3. QED BY <2>1, <2>2
<1>9. Writes(w, v, c, d, t) BY <1>2, <1>5, <1>7, <1>8 DEF Writes
<1>10. Sourced(w, v, c, d)
  <2>1. \A u \in Transactions : v.tx[u].state = "unmade" => w.tx[u].state = "unmade"
    BY <1>4 DEF Busy
  <2>2. v.tx[t].state # "unmade" BY <1>1, <1>3, <1>4 DEF Busy
  <2>3. \A s \in Stores : v.db.stores[s] # w.db.stores[s] => v.db.stores[s][1] = t BY DEF Worked
  <2>4. QED BY <1>1, <1>2, <2>1, <2>2, <2>3 DEF Sourced
<1>11. QED BY <1>1, <1>9, <1>10 DEF Moved

\* A commit: what it has changed is what is committed.
LEMMA DoneMoved ==
    ASSUME NEW w, Sound(w), NEW v, Sound(v), Done(w, v),
           NEW c, CommittedIs(c, w), NEW d, CommittedIs(d, v)
    PROVE  Moved(w, v, c, d) /\ Sourced(w, v, c, d)
<1>1. PICK t \in Transactions : Completed(w, v, t) /\ w.tx[t].state = "Committing" BY DEF Done
<1>2. /\ IdsIn(v) = IdsIn(w) \ {t} /\ v.db = w.db /\ v.tx[t].state = "complete"
      /\ \A u \in Transactions \ {t} : v.tx[u] = w.tx[u]
  BY <1>1 DEF Completed
<1>3. t \in IdsIn(w) /\ IdsIn(w) \subseteq Transactions
  BY <1>1, IdsFinite DEF Sound, ScheduleRight, Busy
<1>4. \A u \in IdsIn(v) : v.tx[u] = w.tx[u] BY <1>2, <1>3
<1>5. PICK X : X = Stores \cup {"version"} OBVIOUS
<1>6. c = [x \in X |-> c[x]] /\ d = [x \in X |-> d[x]] BY <1>5 DEF CommittedIs
<1>7. \A x \in X : d[x] = IF x \in TouchedIn(w, t) THEN PartsOf(w.db)[x] ELSE c[x]
  <2>1. CASE t \in Opens
    <3>1. IdsIn(w) = {t} BY <1>3, <2>1, SoundAlone
    <3>2. IdsIn(v) = {} BY <1>2, <3>1
    <3>3. d = PartsOf(w.db) BY <1>2, <3>2, CommittedAll
    <3>4. c = PartsOf(w.tx[t].saved) BY <1>3, <2>1 DEF CommittedIs
    <3>5. \A s \in Stores : d[s] = w.db.stores[s] /\ c[s] = w.tx[t].saved.stores[s]
      BY <3>3, <3>4, Part
    <3>6. TouchedIn(w, t) = {"version"} \cup {s \in Stores : w.db.stores[s] # w.tx[t].saved.stores[s]}
      BY <1>3, <2>1 DEF TouchedIn
    <3>7. QED BY <1>5, <3>3, <3>5, <3>6
  <2>2. CASE t \notin Opens
    <3>1. Opens \cap IdsIn(w) = {}
      <4>1. \A o \in Opens \cap IdsIn(w) : IdsIn(w) = {o} BY SoundAlone
      <4>2. QED BY <1>3, <2>2, <4>1
    <3>2. Opens \cap IdsIn(v) = {} BY <1>2, <3>1
    <3>3. TouchedIn(w, t) = Changed(w.tx[t].undo) BY <1>3, <2>2 DEF TouchedIn
    <3>4. "version" \notin TouchedIn(w, t) BY <1>3, <3>3, PartsAssumption, SoundChanged
    <3>5. d["version"] = c["version"] BY <1>2, <3>1, <3>2 DEF CommittedIs
    <3>6. ASSUME NEW s \in Stores, s \in Changed(w.tx[t].undo) PROVE d[s] = w.db.stores[s]
      <4>1. \A a \in IdsIn(w) : s \in Changed(w.tx[a].undo) => a = t BY <1>3, <3>6, SoundChanged
      <4>2. \A a \in IdsIn(v) : s \notin Changed(v.tx[a].undo) BY <1>2, <1>4, <4>1
      <4>3. QED BY <1>2, <3>2, <4>2 DEF CommittedIs
    <3>7. ASSUME NEW s \in Stores, s \notin Changed(w.tx[t].undo) PROVE d[s] = c[s]
      <4>1. CASE \E a \in IdsIn(w) : s \in Changed(w.tx[a].undo)
        <5>1. PICK a \in IdsIn(w) : s \in Changed(w.tx[a].undo) BY <4>1
        <5>2. a \in IdsIn(v) /\ v.tx[a] = w.tx[a] BY <1>2, <1>4, <3>7, <5>1
        <5>3. c[s] = Was(w.tx[a].undo, s, w.db.stores[s]) BY <3>1, <5>1 DEF CommittedIs
        <5>4. d[s] = Was(v.tx[a].undo, s, v.db.stores[s]) BY <3>2, <5>1, <5>2 DEF CommittedIs
        <5>5. QED BY <1>2, <5>2, <5>3, <5>4
      <4>2. CASE \A a \in IdsIn(w) : s \notin Changed(w.tx[a].undo)
        <5>1. \A a \in IdsIn(v) : s \notin Changed(v.tx[a].undo) BY <1>2, <1>4, <4>2
        <5>2. c[s] = w.db.stores[s] BY <3>1, <4>2 DEF CommittedIs
        <5>3. d[s] = v.db.stores[s] BY <3>2, <5>1 DEF CommittedIs
        <5>4. QED BY <1>2, <5>2, <5>3
      <4>3. QED BY <4>1, <4>2
    <3>8. \A s \in Stores : PartsOf(w.db)[s] = w.db.stores[s] BY Part
    <3>9. QED BY <1>5, <3>3, <3>4, <3>5, <3>6, <3>7, <3>8
  <2>3. QED BY <2>1, <2>2
<1>8. d = [x \in Stores \cup {"version"} |-> IF x \in TouchedIn(w, t) THEN PartsOf(w.db)[x] ELSE c[x]]
  BY <1>5, <1>6, <1>7
<1>9. ToldIn(w, t) = "nothing" /\ ToldIn(v, t) = "complete" BY <1>1, <1>2 DEF ToldIn
<1>10. WorkIn(v, t) = <<>>
  <2>1. TouchedIn(v, t) = {} BY <1>2 DEF TouchedIn
  <2>2. QED BY <2>1, NoWork
<1>11. ASSUME NEW u \in Transactions \ {t} PROVE ToldIn(v, u) = ToldIn(w, u) /\ WorkIn(v, u) = WorkIn(w, u)
  <2>1. v.tx[u] = w.tx[u] /\ (u \in IdsIn(v) <=> u \in IdsIn(w)) BY <1>2
  <2>2. TouchedIn(v, u) = TouchedIn(w, u) BY <1>2, <2>1 DEF TouchedIn
  <2>3. QED BY <1>2, <2>1, <2>2 DEF ToldIn, WorkIn
<1>12. Commits(w, v, c, d, t) BY <1>8, <1>9, <1>10, <1>11 DEF Commits
<1>13. Sourced(w, v, c, d)
  <2>1. \A u \in Transactions : v.tx[u].state = "unmade" => w.tx[u].state = "unmade" BY <1>2
  <2>2. \A s \in Stores : d[s] \in {w.db.stores[s], c[s], Absent}
    <3>1. \A s \in Stores : PartsOf(w.db)[s] = w.db.stores[s] BY Part
    <3>2. QED BY <1>5, <1>7, <3>1
  <2>3. Opens \cap IdsIn(v) = {}
    <3>1. \A o \in Opens \cap IdsIn(w) : IdsIn(w) = {o} BY SoundAlone
    <3>2. QED BY <1>2, <1>3, <3>1
  <2>4. QED BY <1>2, <2>1, <2>2, <2>3 DEF Sourced
<1>14. QED BY <1>12, <1>13 DEF Moved
\* One that is made has done nothing yet: it is not started.
LEMMA EnteredMoved ==
    ASSUME NEW w, Sound(w), NEW v, Sound(v), Entered(w, v),
           NEW c, CommittedIs(c, w), NEW d, CommittedIs(d, v)
    PROVE  Moved(w, v, c, d) /\ Sourced(w, v, c, d)
<1>1. PICK t \in Made, o \in Opens, j \in Worlds :
         w.tx[t].state = "unmade" /\ Joined(w, j, t, AsMade(t, o)) /\ Acted(j, v, t)
  BY DEF Entered
<1>2. t \in Transactions /\ t \notin Opens /\ w.tx \in [Transactions -> Txs] /\ w.db \in Contents
  BY NamesAssumption DEF Transactions, Requests, Sound, Worlds
<1>3. /\ j.tx[t] = AsMade(t, o) /\ j.db = w.db /\ IdsIn(j) = IdsIn(w) \cup {t}
      /\ \A u \in Transactions : u # t => j.tx[u] = w.tx[u]
  BY <1>1, <1>2 DEF Joined
<1>4. /\ ~j.tx[t].started /\ j.tx[t].undo = <<>> /\ j.tx[t].plan.mode # "versionchange"
      /\ j.tx[t].state = "Active"
  BY <1>3, RealmsAssumption DEF AsMade, NewTx
<1>5. t \notin IdsIn(w) /\ IdsIn(w) \subseteq Transactions
  BY <1>1, IdsFinite DEF Sound, ScheduleRight, Busy
<1>6. Changed(<<>>) = {} BY DEF Changed
<1>7. \A u \in Transactions : u # t => v.tx[u] = w.tx[u]
  <2>1. \A u \in Transactions : u # t => v.tx[u] = j.tx[u] BY <1>1 DEF Acted, Worked, Scrapped
  <2>2. QED BY <1>3, <2>1
<1>8. \A u \in IdsIn(w) : v.tx[u] = w.tx[u] BY <1>5, <1>7
<1>9. v.tx[t].state \in Busy \cup {"Finished"}
  BY <1>1, <1>4 DEF Acted, Worked, Scrapped, Busy
<1>10. Undid(w, v, {})
  <2>1. CASE Worked(j, v, t)
    <3>1. IdsIn(v) = IdsIn(w) \cup {t}
      <4>1. IdsIn(v) = IdsIn(j) BY <2>1 DEF Worked, IdsIn
      <4>2. QED BY <1>3, <4>1
    <3>2. v.db.version = w.db.version /\ \A s \in Stores : v.db.stores[s] = w.db.stores[s]
      BY <1>3, <1>4, <2>1 DEF Worked
    <3>3. v.tx[t].undo = <<>>
      <4>1. TxRight(v.tx[t], t) BY <1>2 DEF Sound, TxsRight
      <4>2. v.tx[t].started = j.tx[t].started BY <2>1 DEF Worked
      <4>3. QED BY <1>4, <4>1, <4>2 DEF TxRight
    <3>4. QED BY <1>2, <1>6, <1>8, <3>1, <3>2, <3>3 DEF Undid
  <2>2. CASE Scrapped(j, v, t)
    <3>1. IdsIn(v) = IdsIn(w) BY <1>3, <1>5, <2>2 DEF Scrapped
    <3>2. v.db.version = w.db.version /\ \A s \in Stores : v.db.stores[s] = w.db.stores[s]
      BY <1>3, <1>4, <1>6, <2>2 DEF Scrapped, Before, Was
    <3>3. QED BY <1>8, <3>1, <3>2 DEF Undid
  <2>3. QED BY <1>1, <2>1, <2>2 DEF Acted
<1>11. SameTold(w, v)
  <2> SUFFICES ASSUME NEW u \in Transactions PROVE ToldIn(v, u) = ToldIn(w, u) BY DEF SameTold
  <2>1. CASE u = t BY <1>1, <1>9, <2>1 DEF ToldIn, Busy
  <2>2. CASE u # t
    <3>1. v.tx[u] = w.tx[u] BY <1>7, <2>2
    <3>2. QED BY <3>1 DEF ToldIn
  <2>3. QED BY <2>1, <2>2
<1>12. \A u \in Transactions : v.tx[u].state = "unmade" => w.tx[u].state = "unmade" BY <1>1, <1>7
<1>13. QED BY <1>10, <1>11, <1>12, UndidMoved

LEMMA WipedMoved ==
    ASSUME NEW w, Sound(w), NEW v, Sound(v), Wiped(w, v),
           NEW c, CommittedIs(c, w), NEW d, CommittedIs(d, v)
    PROVE  Moved(w, v, c, d) /\ Sourced(w, v, c, d)
<1>1. v.db = Nothing /\ v.tx = w.tx /\ IdsIn(w) = {} /\ IdsIn(v) = {} BY DEF Wiped
<1>2. d = PartsOf(Nothing) BY <1>1, CommittedAll
<1>3. SameTold(w, v) BY <1>1 DEF SameTold, ToldIn
<1>4. \A t \in Transactions : TouchedIn(w, t) = {} /\ TouchedIn(v, t) = {} BY <1>1 DEF TouchedIn
<1>5. \A t \in Transactions : WorkIn(w, t) = <<>> /\ WorkIn(v, t) = <<>> BY <1>4, NoWork
<1>6. Deletion(w, v, c, d) BY <1>2, <1>3, <1>5 DEF Deletion
<1>7. \A s \in Stores : v.db.stores[s] = Absent /\ d[s] = Absent
  <2>1. \A s \in Stores : Nothing.stores[s] = Absent BY DEF Nothing
  <2>2. QED BY <1>1, <1>2, <2>1, Part
<1>8. Sourced(w, v, c, d) BY <1>1, <1>7 DEF Sourced
<1>9. QED BY <1>6, <1>8 DEF Moved

\* An upgrade starts from what is committed.
LEMMA RaisedMoved ==
    ASSUME NEW w, Sound(w), NEW v, Sound(v), Raised(w, v),
           NEW c, CommittedIs(c, w), NEW d, CommittedIs(d, v)
    PROVE  Moved(w, v, c, d) /\ Sourced(w, v, c, d)
<1>1. PICK r \in Opens : Upgraded(w, v, r) BY DEF Raised
<1>2. r \in Transactions BY DEF Transactions
<1>3. /\ IdsIn(w) = {} /\ w.tx[r].state = "unmade" /\ \A u \in Transactions \ {r} : v.tx[u] = w.tx[u]
      /\ \A s \in Stores : v.db.stores[s] # w.db.stores[s] => v.db.stores[s][1] = r
      /\ \/ IdsIn(v) = {r} /\ v.tx[r].saved = w.db /\ v.tx[r].state \in Busy
         \/ IdsIn(v) = {} /\ v.db = w.db /\ v.tx[r].state = "Finished"
  BY <1>1 DEF Upgraded
<1>4. v.tx[r].state \in Busy \cup {"Finished"} BY <1>3
<1>5. SameTold(w, v)
  <2> SUFFICES ASSUME NEW u \in Transactions PROVE ToldIn(v, u) = ToldIn(w, u) BY DEF SameTold
  <2>1. CASE u = r BY <1>3, <1>4, <2>1 DEF ToldIn, Busy
  <2>2. CASE u # r
    <3>1. v.tx[u] = w.tx[u] BY <1>3, <2>2
    <3>2. QED BY <3>1 DEF ToldIn
  <2>3. QED BY <2>1, <2>2
<1>6. \A u \in Transactions : v.tx[u].state = "unmade" => w.tx[u].state = "unmade" BY <1>3
<1>7. c = PartsOf(w.db) BY <1>3, CommittedAll
<1>8. CASE IdsIn(v) = {r} /\ v.tx[r].saved = w.db /\ v.tx[r].state \in Busy
  <2>1. d = c BY <1>7, <1>8 DEF CommittedIs
  <2>2. \A u \in Transactions : TouchedIn(w, u) = {} BY <1>3 DEF TouchedIn
  <2>3. \A u \in Transactions \ {r} : TouchedIn(v, u) = {} BY <1>8 DEF TouchedIn
  <2>4. \A u \in Transactions \ {r} : WorkIn(v, u) = WorkIn(w, u) BY <2>2, <2>3, NoWork
  <2>5. ToldIn(w, r) = "nothing" BY <1>3 DEF ToldIn
  <2>6. Writes(w, v, c, d, r) BY <1>2, <1>5, <2>1, <2>2, <2>4, <2>5 DEF Writes
  <2>7. \A s \in Stores : c[s] = w.db.stores[s] BY <1>7, Part
  <2>8. v.tx[r].state # "unmade" BY <1>8 DEF Busy
  <2>9. Sourced(w, v, c, d) BY <1>2, <1>3, <1>6, <1>8, <2>1, <2>7, <2>8 DEF Sourced
  <2>10. QED BY <1>2, <2>6, <2>9 DEF Moved
<1>9. CASE IdsIn(v) = {} /\ v.db = w.db /\ v.tx[r].state = "Finished"
  <2>1. Undid(w, v, {}) BY <1>3, <1>9 DEF Undid
  <2>2. QED BY <1>5, <1>6, <2>1, UndidMoved
<1>10. QED BY <1>3, <1>8, <1>9

\* The end of a realm undoes what its transactions did.
LEMMA PartedMoved ==
    ASSUME NEW w, Sound(w), NEW v, Sound(v), Parted(w, v),
           NEW c, CommittedIs(c, w), NEW d, CommittedIs(d, v)
    PROVE  Moved(w, v, c, d) /\ Sourced(w, v, c, d)
<1>0. PICK M \in SUBSET Names : \E u : /\ Dropped(Gone(w, M), u, IdsIn(w) \cap M)
                                       /\ v.db = u.db /\ v.tx = u.tx /\ v.scheduled = u.scheduled
  BY DEF Parted
<1>1. PICK u : /\ Dropped(Gone(w, M), u, IdsIn(w) \cap M)
               /\ v.db = u.db /\ v.tx = u.tx /\ v.scheduled = u.scheduled
  BY <1>0
<1>2. PICK g, D : g = Gone(w, M) /\ D = IdsIn(w) \cap M OBVIOUS
<1>3. Dropped(g, u, D) BY <1>1, <1>2
<1>4. w \in Worlds /\ IdsIn(w) \subseteq Transactions BY IdsFinite DEF Sound
<1>5. /\ g.db = w.db /\ g.scheduled = w.scheduled
      /\ \A t \in Transactions :
           /\ g.tx[t] = IF w.tx[t].state \in Pending /\ t \in M
                        THEN [w.tx[t] EXCEPT !.state = "ended"] ELSE w.tx[t]
           /\ w.tx[t] \in Txs
  BY <1>2, <1>4, GoneFacts
<1>6. \A t \in Transactions :
        /\ g.tx[t].undo = w.tx[t].undo /\ g.tx[t].saved = w.tx[t].saved
        /\ g.tx[t].state = w.tx[t].state \/ (w.tx[t].state \in Pending /\ g.tx[t].state = "ended")
  BY <1>5 DEF Txs
<1>7. IdsIn(g) = IdsIn(w) BY <1>5 DEF IdsIn
<1>8. IdsIn(v) = IdsIn(w) \ D
  <2>1. IdsIn(v) = IdsIn(u) BY <1>1 DEF IdsIn
  <2>2. QED BY <1>3, <1>7, <2>1 DEF Dropped
<1>9. \A t \in Transactions :
        /\ v.tx[t].state = g.tx[t].state /\ v.tx[t].saved = g.tx[t].saved
        /\ t \notin D => v.tx[t] = g.tx[t]
  BY <1>1, <1>3 DEF Dropped
<1>10. \A t \in IdsIn(w) \ D : v.tx[t].undo = w.tx[t].undo /\ v.tx[t].saved = w.tx[t].saved
  BY <1>4, <1>6, <1>9
<1>11. \A t \in D : g.tx[t].undo = w.tx[t].undo /\ g.tx[t].saved = w.tx[t].saved BY <1>2, <1>4, <1>6
<1>12. \A t \in D \cap Opens : v.db = w.tx[t].saved BY <1>1, <1>3, <1>11 DEF Dropped
<1>13. D \cap Opens = {} =>
         /\ v.db.version = w.db.version
         /\ \A s \in Stores :
              /\ \A t \in D : s \in Changed(w.tx[t].undo)
                                => v.db.stores[s] = Was(w.tx[t].undo, s, w.db.stores[s])
              /\ (\A t \in D : s \notin Changed(w.tx[t].undo)) => v.db.stores[s] = w.db.stores[s]
  BY <1>1, <1>3, <1>5, <1>11 DEF Dropped
<1>14. Undid(w, v, D) BY <1>2, <1>8, <1>10, <1>12, <1>13 DEF Undid
<1>15. \A t \in Transactions : v.tx[t].state = w.tx[t].state \/ (w.tx[t].state \in Pending /\ v.tx[t].state = "ended")
  BY <1>6, <1>9
<1>16. SameTold(w, v) BY <1>15 DEF SameTold, ToldIn, Pending
<1>17. \A t \in Transactions : v.tx[t].state = "unmade" => w.tx[t].state = "unmade" BY <1>15
<1>18. QED BY <1>14, <1>16, <1>17, UndidMoved

\* Whatever the step.
LEMMA SteppedMoved ==
    ASSUME NEW w, Sound(w), NEW v, Sound(v), Stepped(w, v),
           NEW c, CommittedIs(c, w), Marks(w, c), NEW d, CommittedIs(d, v)
    PROVE  Moved(w, v, c, d) /\ Sourced(w, v, c, d)
<1>1. CASE Quiet(w, v) BY <1>1, QuietMoved
<1>2. CASE Begun(w, v) BY <1>2, BegunMoved
<1>3. CASE Going(w, v)
  <2>1. PICK t \in Transactions : Acted(w, v, t) /\ w.tx[t].state \in {"Inactive", "Committing"}
    BY <1>3 DEF Going
  <2>2. t \in IdsIn(w) BY <2>1 DEF Sound, ScheduleRight, Busy
  <2>3. CASE Worked(w, v, t) BY <2>2, <2>3, WorkedMoved
  <2>4. CASE Scrapped(w, v, t) BY <2>2, <2>4, ScrappedMoved
  <2>5. QED BY <2>1, <2>3, <2>4 DEF Acted
<1>4. CASE Done(w, v) BY <1>4, DoneMoved
<1>5. CASE Refused(w, v) BY <1>5, RefusedMoved
<1>6. CASE Entered(w, v) BY <1>6, EnteredMoved
<1>7. CASE Wiped(w, v) BY <1>7, WipedMoved
<1>8. CASE Raised(w, v) BY <1>8, RaisedMoved
<1>9. CASE Parted(w, v) BY <1>9, PartedMoved
<1>10. QED BY <1>1, <1>2, <1>3, <1>4, <1>5, <1>6, <1>7, <1>8, <1>9 DEF Stepped
-----------------------------------------------------------------------------
(* AtomicDatabase: the variables it is given.                               *)

\* What IndexedDb makes of its state for AtomicDatabase is what a world has of it.
Now ==
    /\ CommittedIs(Uncommitted, World)
    /\ \A t \in Transactions : /\ Touched(t) = TouchedIn(World, t)
                               /\ [x \in Touched(t) |-> PartsOf(db)[x]] = WorkIn(World, t)

LEMMA TouchedNow ==
    ASSUME NEW t PROVE Touched(t) = TouchedIn(World, t)
<1>1. World.db = db /\ World.tx = tx BY WorldParts
<1>2. IdsIn(World) = Ids BY IdsAre
<1>3. QED BY <1>1, <1>2 DEF Touched, TouchedIn, Changed

LEMMA FirstNow ==
    ASSUME NEW t, NEW s, s \in Changed(tx[t].undo), NEW now
    PROVE  FirstWas(t, s) = Was(tx[t].undo, s, now)
BY DEF FirstWas, Was, FirstStep

LEMMA CommittedNow ==
    ASSUME Sound(World)
    PROVE  CommittedIs(Uncommitted, World)
<1>1. PICK w : w = World OBVIOUS
<1>2. Sound(w) /\ w.db = db /\ w.tx = tx /\ IdsIn(w) = Ids BY <1>1, WorldParts, IdsAre
<1>3. \A t : Touched(t) = TouchedIn(w, t) BY <1>1, TouchedNow
<1>4. PICK X : X = Stores \cup {"version"} OBVIOUS
<1>5. CASE \E t \in Opens : t \in Ids
  <2>1. PICK t \in Opens : t \in Ids BY <1>5
  <2>2. Ids = {t} BY <1>2, <2>1, SoundAlone
  <2>3. (CHOOSE o \in Opens : o \in Ids) = t BY <2>1, <2>2
  <2>4. Uncommitted = PartsOf(tx[t].saved) BY <1>5, <2>3 DEF Uncommitted
  <2>5. PartsOf(tx[t].saved) = [x \in X |-> PartsOf(tx[t].saved)[x]] BY <1>4 DEF PartsOf
  <2>6. \A o \in Opens \cap IdsIn(w) : o = t BY <1>2, <2>2
  <2>7. CommittedIs(Uncommitted, w) BY <1>2, <1>4, <2>1, <2>4, <2>5, <2>6 DEF CommittedIs
  <2>8. QED BY <1>1, <2>7
<1>6. CASE ~\E t \in Opens : t \in Ids
  <2>1. Uncommitted = [x \in X |->
            IF \E t \in Ids : x \in Touched(t) THEN FirstWas(CHOOSE t \in Ids : x \in Touched(t), x)
            ELSE PartsOf(db)[x]]
    BY <1>4, <1>6 DEF Uncommitted
  <2>2. Uncommitted = [x \in X |-> Uncommitted[x]] BY <2>1
  <2>3. \A t \in Ids : Touched(t) = Changed(tx[t].undo) BY <1>2, <1>3, <1>6 DEF TouchedIn
  <2>4. ASSUME NEW t \in Ids, NEW s \in Stores, s \in Changed(tx[t].undo)
        PROVE  Uncommitted[s] = Was(tx[t].undo, s, db.stores[s])
    <3>1. \A a \in Ids : s \in Changed(tx[a].undo) => a = t BY <1>2, <2>4, SoundChanged
    <3>2. \A a \in Ids : s \in Touched(a) <=> a = t BY <2>3, <2>4, <3>1
    <3>3. (CHOOSE a \in Ids : s \in Touched(a)) = t BY <3>2
    <3>4. s \in X /\ \E a \in Ids : s \in Touched(a) BY <1>4, <3>2
    <3>5. Uncommitted[s] = FirstWas(CHOOSE a \in Ids : s \in Touched(a), s) BY <2>1, <3>4
    <3>6. QED BY <2>4, <3>3, <3>5, FirstNow
  <2>5. ASSUME NEW s \in Stores, \A t \in Ids : s \notin Changed(tx[t].undo)
        PROVE  Uncommitted[s] = db.stores[s]
    <3>1. s \in X /\ ~\E a \in Ids : s \in Touched(a) BY <1>4, <2>3, <2>5
    <3>2. Uncommitted[s] = PartsOf(db)[s] BY <2>1, <3>1
    <3>3. QED BY <3>2, Part
  <2>6. Uncommitted["version"] = db.version
    <3>1. \A t \in Ids : "version" \notin Touched(t)
      BY <1>2, <2>3, PartsAssumption, SoundChanged
    <3>2. "version" \in X BY <1>4
    <3>3. Uncommitted["version"] = PartsOf(db)["version"] BY <2>1, <3>1, <3>2
    <3>4. QED BY <3>3 DEF PartsOf
  <2>7. Opens \cap IdsIn(w) = {} BY <1>2, <1>6
  <2>8. CommittedIs(Uncommitted, w)
    BY <1>2, <1>4, <2>2, <2>4, <2>5, <2>6, <2>7 DEF CommittedIs
  <2>9. QED BY <1>1, <2>8
<1>7. QED BY <1>5, <1>6

LEMMA NowRight == IInv => Now
<1> SUFFICES ASSUME IInv PROVE Now OBVIOUS
<1>1. Sound(World) BY DEF IInv, Good, Sound
<1>2. \A t \in Transactions : /\ Touched(t) = TouchedIn(World, t)
                              /\ [x \in Touched(t) |-> PartsOf(db)[x]] = WorkIn(World, t)
  <2> TAKE t \in Transactions
  <2>1. Touched(t) = TouchedIn(World, t) BY TouchedNow
  <2>2. World.db = db BY WorldParts
  <2>3. QED BY <2>1, <2>2 DEF WorkIn
<1>3. QED BY <1>1, <1>2, CommittedNow DEF Now
\* What is committed is marked so.
Marked == Marks(World, Uncommitted)

\* The next state is, for all this, what the step has made.
LEMMA NextIs ==
    ASSUME NEW v, After(v), IInv', Now'
    PROVE  /\ Sound(v) /\ CommittedIs(Uncommitted', v)
           /\ \A t \in Transactions :
                /\ Touched(t)' = TouchedIn(v, t)
                /\ ([x \in Touched(t) |-> PartsOf(db)[x]])' = WorkIn(v, t)
                /\ ToldIn(World', t) = ToldIn(v, t)
           /\ \A c : Marks(v, c) => Marks(World', c)
<1>1. PICK u : u = World' OBVIOUS
<1>2. /\ v \in Worlds /\ u.db = v.db /\ u.conns = v.conns /\ u.req = v.req
      /\ u.scheduled = v.scheduled /\ u.tx = v.tx
  BY <1>1 DEF After
<1>3. u \in Worlds /\ ScheduleRight(u, {}) /\ TxsRight(u) /\ DoorsRight(u, {}) BY <1>1 DEF IInv, Good
<1>4. IdsIn(u) = IdsIn(v) BY <1>2 DEF IdsIn
<1>5. Sound(v)
  <2>1. ScheduleRight(v, {}) BY <1>2, <1>3, <1>4 DEF ScheduleRight
  <2>2. TxsRight(v) BY <1>2, <1>3 DEF TxsRight
  <2>3. DoorsRight(v, {}) BY <1>2, <1>3, <1>4 DEF DoorsRight
  <2>4. QED BY <1>2, <2>1, <2>2, <2>3, Zenon DEF Sound
<1>6. CommittedIs(Uncommitted', v)
  <2>1. CommittedIs(Uncommitted', u) BY <1>1 DEF Now
  <2>2. QED BY <1>2, <1>4, <2>1 DEF CommittedIs
<1>7. \A t \in Transactions :
        /\ TouchedIn(u, t) = TouchedIn(v, t) /\ WorkIn(u, t) = WorkIn(v, t) /\ ToldIn(u, t) = ToldIn(v, t)
  <2> TAKE t \in Transactions
  <2>1. TouchedIn(u, t) = TouchedIn(v, t) BY <1>2, <1>4 DEF TouchedIn
  <2>2. QED BY <1>2, <2>1 DEF WorkIn, ToldIn
<1>8. \A t \in Transactions : /\ Touched(t)' = TouchedIn(u, t)
                              /\ ([x \in Touched(t) |-> PartsOf(db)[x]])' = WorkIn(u, t)
  BY <1>1 DEF Now
<1>9. \A c : Marks(v, c) => Marks(u, c) BY <1>2, <1>4 DEF Marks
<1>10. QED BY <1>1, <1>5, <1>6, <1>7, <1>8, <1>9

LEMMA StepMoves ==
    ASSUME IInv, IInv', Now, Now', Marked, NEW v, Stepped(World, v), After(v)
    PROVE  Moved(World, v, Uncommitted, Uncommitted') /\ Marked'
<1>1. PICK w : w = World OBVIOUS
<1>2. PICK c, d : c = Uncommitted /\ d = Uncommitted' OBVIOUS
<1>3. Sound(w) /\ Stepped(w, v) BY <1>1 DEF IInv, Good, Sound
<1>4. CommittedIs(c, w) /\ Marks(w, c) BY <1>1, <1>2 DEF Now, Marked
<1>5. Sound(v) /\ CommittedIs(d, v) BY <1>2, NextIs
<1>6. Moved(w, v, c, d) /\ Sourced(w, v, c, d) BY <1>3, <1>4, <1>5, SteppedMoved
<1>7. Marks(v, d) BY <1>4, <1>6, MarksOn
<1>8. Marks(World', d) BY <1>7, NextIs
<1>9. QED BY <1>1, <1>2, <1>6, <1>8 DEF Marked
LEMMA PromiseStep ==
    ASSUME IInv, IInv', Now, Now', Marked, NEW v, Stepped(World, v), After(v)
    PROVE  Atomic!Next
<1>1. PICK w : w = World OBVIOUS
<1>2. PICK c, d : c = Uncommitted /\ d = Uncommitted' OBVIOUS
<1>3. Moved(w, v, c, d) BY <1>1, <1>2, StepMoves
<1>4. PICK k : k = [t \in Transactions |-> [x \in Touched(t) |-> PartsOf(db)[x]]] OBVIOUS
<1>5. PICK l : l = ([t \in Transactions |-> [x \in Touched(t) |-> PartsOf(db)[x]]])' OBVIOUS
<1>6. PICK m : m = [t \in Transactions |->
                      IF tx[t].state \in {"complete", "abort"} THEN tx[t].state ELSE "nothing"]
  OBVIOUS
<1>7. PICK n : n = ([t \in Transactions |->
                      IF tx[t].state \in {"complete", "abort"} THEN tx[t].state ELSE "nothing"])'
  OBVIOUS
<1>8. k = [t \in Transactions |-> WorkIn(w, t)] BY <1>1, <1>4 DEF Now
<1>9. l = [t \in Transactions |-> WorkIn(v, t)] BY <1>5, NextIs
<1>10. m = [t \in Transactions |-> ToldIn(w, t)] BY <1>1, <1>6, WorldParts DEF ToldIn
<1>11. n = [t \in Transactions |-> ToldIn(v, t)]
  <2>1. tx' = v.tx BY AfterParts
  <2>2. QED BY <1>7, <2>1 DEF ToldIn
<1>12. \A u, t : DOMAIN WorkIn(u, t) = TouchedIn(u, t)
                 /\ \A x \in TouchedIn(u, t) : WorkIn(u, t)[x] = PartsOf(u.db)[x]
  BY DEF WorkIn
<1>13. CASE Discards(w, v, c, d)
  <2>1. \A t \in Transactions : l[t] \in {k[t], <<>>} BY <1>8, <1>9, <1>13 DEF Discards
  <2>2. d = c /\ n = m BY <1>10, <1>11, <1>13 DEF Discards, SameTold
  <2>3. Atomic!Discard BY <1>2, <1>4, <1>5, <1>6, <1>7, <2>1, <2>2 DEF Atomic!Discard, Atomic!Idle
  <2>4. QED BY <2>3 DEF Atomic!Next
<1>14. CASE Deletion(w, v, c, d)
  <2>1. \A t \in Transactions : k[t] = <<>> BY <1>8, <1>14 DEF Deletion
  <2>2. l = k BY <1>8, <1>9, <1>14 DEF Deletion
  <2>3. d = PartsOf(Nothing) /\ n = m BY <1>10, <1>11, <1>14 DEF Deletion, SameTold
  <2>4. Atomic!Delete
    BY <1>2, <1>4, <1>5, <1>6, <1>7, <2>1, <2>2, <2>3 DEF Atomic!Delete, Atomic!Idle
  <2>5. QED BY <2>4 DEF Atomic!Next
<1>15. ASSUME NEW t \in Transactions, Writes(w, v, c, d, t) PROVE Atomic!Next
  <2>1. m[t] = "nothing" BY <1>10, <1>15 DEF Writes
  <2>2. \A u \in Transactions \ {t} : l[u] = k[u] /\ DOMAIN k[u] \cap DOMAIN l[t] = {}
    BY <1>8, <1>9, <1>12, <1>15 DEF Writes
  <2>3. DOMAIN k[t] \subseteq DOMAIN l[t] BY <1>8, <1>9, <1>12, <1>15 DEF Writes
  <2>4. d = c /\ n = m BY <1>10, <1>11, <1>15 DEF Writes, SameTold
  <2>5. Atomic!Write(t)
    BY <1>2, <1>4, <1>5, <1>6, <1>7, <2>1, <2>2, <2>3, <2>4 DEF Atomic!Write, Atomic!Others
  <2>6. QED BY <2>5 DEF Atomic!Next
<1>16. ASSUME NEW t \in Transactions, Commits(w, v, c, d, t) PROVE Atomic!Next
  <2>1. m[t] = "nothing" BY <1>10, <1>16 DEF Commits
  <2>2. d = [x \in Stores \cup {"version"} |-> IF x \in DOMAIN k[t] THEN k[t][x] ELSE c[x]]
    BY <1>8, <1>12, <1>16 DEF Commits
  <2>3. l = [k EXCEPT ![t] = <<>>] BY <1>8, <1>9, <1>16 DEF Commits
  <2>4. n = [m EXCEPT ![t] = "complete"] BY <1>10, <1>11, <1>16 DEF Commits
  <2>5. Atomic!Commit(t)
    BY <1>2, <1>4, <1>5, <1>6, <1>7, <2>1, <2>2, <2>3, <2>4 DEF Atomic!Commit, Atomic!Idle
  <2>6. QED BY <2>5 DEF Atomic!Next
<1>17. ASSUME NEW t \in Transactions, Tells(w, v, c, d, t) PROVE Atomic!Next
  <2>1. m[t] = "nothing" /\ k[t] = <<>> BY <1>8, <1>10, <1>17 DEF Tells
  <2>2. n = [m EXCEPT ![t] = "abort"] BY <1>10, <1>11, <1>17 DEF Tells
  <2>3. d = c BY <1>17 DEF Tells
  <2>4. l = k
    <3>1. \A u \in Transactions : WorkIn(v, u) = WorkIn(w, u) BY <1>17 DEF Tells
    <3>2. QED BY <1>8, <1>9, <3>1
  <2>5. Atomic!Tell(t)
    BY <1>2, <1>4, <1>5, <1>6, <1>7, <2>1, <2>2, <2>3, <2>4 DEF Atomic!Tell, Atomic!Idle
  <2>6. QED BY <2>5 DEF Atomic!Next
<1>18. QED BY <1>3, <1>13, <1>14, <1>15, <1>16, <1>17 DEF Moved

LEMMA MarkedNext == IInv /\ IInv' /\ Now /\ Now' /\ Marked /\ [Next]_vars => Atomic!Next /\ Marked'
<1> SUFFICES ASSUME IInv, IInv', Now, Now', Marked, [Next]_vars PROVE Atomic!Next /\ Marked'
  OBVIOUS
<1>1. \E v : Stepped(World, v) /\ After(v)
  <2>1. CASE Next BY <2>1, StepStays DEF Stays
  <2>2. CASE UNCHANGED vars
    <3>1. World' = World BY <2>2 DEF vars, World
    <3>2. World \in Worlds BY DEF IInv, Good
    <3>3. Quiet(World, World) BY DEF Quiet
    <3>4. Stepped(World, World) BY <3>3 DEF Stepped
    <3>5. After(World) BY <3>1, <3>2 DEF After
    <3>6. QED BY <3>4, <3>5
  <2>3. QED BY <2>1, <2>2
<1>2. PICK v : Stepped(World, v) /\ After(v) BY <1>1
<1>3. Atomic!Next BY <1>2, PromiseStep
<1>4. Marked' BY <1>2, StepMoves
<1>5. QED BY <1>3, <1>4

LEMMA PromiseInit == Init /\ IInv /\ Now => Atomic!Init /\ Marked
<1> SUFFICES ASSUME Init, IInv, Now PROVE Atomic!Init /\ Marked
  OBVIOUS
<1>1. PICK w : w = World OBVIOUS
<1>2. w.db = db /\ w.tx = tx /\ db \in Databases /\ scheduled = <<>>
  BY <1>1, WorldParts DEF Init
<1>3. IdsIn(w) = {}
  <2>1. w.scheduled = <<>> BY <1>1, <1>2, WorldParts
  <2>2. QED BY <2>1 DEF IdsIn
<1>4. CommittedIs(Uncommitted, w) BY <1>1 DEF Now
<1>5. Uncommitted = PartsOf(db) BY <1>2, <1>3, <1>4, CommittedAll
<1>6. \A t \in Transactions : tx[t] = NewTx BY DEF Init
<1>7. \A t \in Transactions : [x \in Touched(t) |-> PartsOf(db)[x]] = <<>>
  <2>1. \A t \in Transactions : TouchedIn(w, t) = {} BY <1>3 DEF TouchedIn
  <2>2. QED BY <1>1, <2>1, NoWork DEF Now
<1>8. \A t \in Transactions : tx[t].state = "unmade" BY <1>6 DEF NewTx
<1>9. Atomic!Init
  <2>1. DOMAIN Uncommitted = Stores \cup {"version"} BY <1>5 DEF PartsOf
  <2>2. QED BY <1>7, <1>8, <2>1 DEF Atomic!Init, Atomic!Idle
<1>10. Marked
  <2>1. db \in [version : Nat, stores : [Stores -> {None} \X Nat]] BY <1>2, BoundsAssumption
  <2>2. \A s \in Stores : db.stores[s][1] = None BY <2>1
  <2>3. \A s \in Stores : Uncommitted[s] = db.stores[s] BY <1>5, Part
  <2>4. \A t \in Transactions : t # None BY NamesAssumption DEF Transactions, Requests
  <2>5. Marks(w, Uncommitted) BY <1>2, <1>3, <2>2, <2>3, <2>4 DEF Marks
  <2>6. QED BY <1>1, <2>5 DEF Marked
<1>11. QED BY <1>9, <1>10

\* Whatever pages do and whichever realms end, a transaction's changes are all made,
\* when its page is told it is complete, or none, and no two change one store at a
\* time (finish_commit, abort_transaction, ~IdbRealm).
THEOREM DatabaseKeepsPromise == Spec => KeepsPromise
<1>1. Init /\ IInv /\ Now => Atomic!Init /\ Marked BY PromiseInit
<1>2. IInv /\ IInv' /\ Now /\ Now' /\ Marked /\ [Next]_vars => [Atomic!Next]_(Atomic!vars) /\ Marked'
  BY MarkedNext
<1>3. IInv => Now BY NowRight
<1>4. QED BY <1>1, <1>2, <1>3, Inductive, PTL DEF Spec, KeepsPromise, Atomic!Spec
=============================================================================
