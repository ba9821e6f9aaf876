--------------------------- MODULE CheckerProofs ---------------------------
(***************************************************************************)
(* Theorems about Checker, and lemmas about the operators of Settings and  *)
(* Collectors that it is built from, for every configuration file and      *)
(* every outside world.                                                    *)
(***************************************************************************)
EXTENDS Checker, FiniteSetTheorems, WellFoundedInduction, TLAPS

(***************************************************************************)
(* Induction.  The library's theorems are about a predicate, which is an   *)
(* operator; these are about the set of the numbers that have it.          *)
(***************************************************************************)

LEMMA Least ==
  ASSUME NEW T \in SUBSET Nat, T # {}
  PROVE  \E x \in T : \A y \in T : x <= y
  <1>1. PICK R : R = OpToRel(<, Nat)
    OBVIOUS
  <1>2. IsWellFoundedOn(R, Nat)
    BY <1>1, NatLessThanWellFounded
  <1>3. PICK x \in T : \A y \in T : <<y, x>> \notin R
    BY <1>2, WFMin
  <1>4. \A y \in T : ~(y < x)
    BY <1>1, <1>3 DEF OpToRel
  <1> QED BY <1>4

LEMMA UpFrom0 ==
  ASSUME NEW n \in Nat, NEW H, 0 \in H,
         \A i \in 0 .. n : i \in H /\ i < n => i + 1 \in H
  PROVE  \A i \in 0 .. n : i \in H
  <1> SUFFICES ASSUME NEW j \in 0 .. n, j \notin H PROVE FALSE
    OBVIOUS
  <1>1. PICK T : T = {i \in 0 .. n : i \notin H}
    OBVIOUS
  <1>2. T \in SUBSET Nat /\ T # {}
    BY <1>1
  <1>3. PICK x \in T : \A y \in T : x <= y
    BY <1>2, Least
  <1>4. x \in 0 .. n /\ x \notin H
    BY <1>1
  <1>5. x # 0
    BY <1>4
  <1>6. x - 1 \in 0 .. n /\ x - 1 < n /\ x - 1 \notin T
    BY <1>3, <1>4, <1>5
  <1>7. x - 1 \in H
    BY <1>1, <1>6
  <1>8. (x - 1) + 1 \in H
    BY <1>6, <1>7
  <1> QED BY <1>4, <1>8

\* What the first one is and each one passes on to the next, all are.
LEMMA PassedOn ==
  ASSUME NEW n \in Nat, NEW A, NEW g, g[0] \in A,
         \A i \in 1 .. n : g[i - 1] \in A => g[i] \in A
  PROVE  \A i \in 0 .. n : g[i] \in A
  <1>1. PICK H : H = {i \in 0 .. n : g[i] \in A}
    OBVIOUS
  <1>2. 0 \in H
    BY <1>1
  <1>3. ASSUME NEW i \in 0 .. n, i \in H, i < n PROVE i + 1 \in H
    <2>1. i + 1 \in 1 .. n /\ (i + 1) - 1 = i
      BY <1>3
    <2> QED BY <1>1, <1>3, <2>1
  <1>4. \A i \in 0 .. n : i \in H
    BY <1>2, <1>3, UpFrom0
  <1> QED BY <1>1, <1>4

LEMMA MaxIs ==
  ASSUME NEW s, NEW m \in s, s \subseteq Int, \A y \in s : m >= y
  PROVE  Max(s) = m
  <1>1. Max(s) \in s /\ \A y \in s : Max(s) >= y
    BY DEF Max
  <1>2. Max(s) \in Int /\ m \in Int /\ Max(s) >= m /\ m >= Max(s)
    BY <1>1
  <1> QED BY <1>2

LEMMA MaxIn ==
  ASSUME NEW n \in Nat, NEW s \in SUBSET (1 .. n), s # {}
  PROVE  Max(s) \in s /\ \A y \in s : Max(s) >= y
  <1>1. PICK T : T = {n - y : y \in s}
    OBVIOUS
  <1>a. \A y \in s : n - y \in Nat
    OBVIOUS
  <1>2. T \in SUBSET Nat /\ T # {}
    BY <1>1, <1>a
  <1>3. PICK x \in T : \A y \in T : x <= y
    BY <1>2, Least
  <1>4. PICK m \in s : x = n - m
    BY <1>1
  <1>5. \A y \in s : n - y \in T /\ x <= n - y
    BY <1>1, <1>3
  <1>6. \A y \in s : m >= y
    BY <1>4, <1>5
  <1> QED BY <1>6 DEF Max

LEMMA MinIs ==
  ASSUME NEW s \in SUBSET Nat, s # {}
  PROVE  Min(s) \in s /\ \A y \in s : Min(s) <= y
  BY Least DEF Min

(***************************************************************************)
(* Folds.  FoldLeft recurs on the set of places; a step is the function    *)
(* that takes what has been accumulated from one place to the next.        *)
(***************************************************************************)

Recurs(it, S, b, step) ==
  \A s \in SUBSET S : it[s] = IF s = {} THEN b ELSE step[Max(s)][it[s \ {Max(s)}]]

LEMMA FoldExists ==
  ASSUME NEW n \in Nat, NEW A, NEW b \in A, NEW step \in [1 .. n -> [A -> A]]
  PROVE  \E it \in [SUBSET (1 .. n) -> A] : Recurs(it, 1 .. n, b, step)
  <1> DEFINE Can(m) == \E it \in [SUBSET (1 .. m) -> A] : Recurs(it, 1 .. m, b, step)
             H == {m \in 0 .. n : Can(m)}
  <1>1. 0 \in H
    <2>1. PICK it : it = [s \in SUBSET (1 .. 0) |-> b]
      OBVIOUS
    <2>2. it \in [SUBSET (1 .. 0) -> A]
      BY <2>1
    <2>3. \A s \in SUBSET (1 .. 0) : s = {} /\ it[s] = b
      BY <2>1
    <2>4. Recurs(it, 1 .. 0, b, step)
      BY <2>3 DEF Recurs
    <2>5. Can(0) /\ 0 \in 0 .. n
      BY <2>2, <2>4
    <2> QED BY <2>5
  <1>2. ASSUME NEW m \in 0 .. n, m \in H, m < n PROVE m + 1 \in H
    <2>1. PICK it \in [SUBSET (1 .. m) -> A] : Recurs(it, 1 .. m, b, step)
      BY <1>2
    <2>2. PICK h : h = [s \in SUBSET (1 .. m + 1) |->
                          IF m + 1 \in s THEN step[m + 1][it[s \ {m + 1}]] ELSE it[s]]
      OBVIOUS
    <2>3. m \in Nat /\ m + 1 \in 1 .. n /\ m + 1 \in 0 .. n
      BY <1>2
    <2>4. ASSUME NEW s \in SUBSET (1 .. m + 1), m + 1 \in s
          PROVE  /\ s \ {m + 1} \in SUBSET (1 .. m) /\ Max(s) = m + 1
                 /\ h[s] \in A /\ h[s] = step[m + 1][h[s \ {m + 1}]]
      <3>1. s \ {m + 1} \in SUBSET (1 .. m)
        BY <2>3
      <3>2. Max(s) = m + 1
        <4>1. s \subseteq Int /\ \A y \in s : m + 1 >= y
          BY <2>3
        <4> QED BY <4>1, <2>4, MaxIs
      <3>3. it[s \ {m + 1}] \in A /\ step[m + 1] \in [A -> A]
        BY <2>1, <2>3, <3>1
      <3>4. h[s] = step[m + 1][it[s \ {m + 1}]]
        BY <2>2, <2>4
      <3>5. h[s \ {m + 1}] = it[s \ {m + 1}]
        <4>1. s \ {m + 1} \in SUBSET (1 .. m + 1) /\ m + 1 \notin s \ {m + 1}
          BY <2>4
        <4> QED BY <2>2, <4>1
      <3> QED BY <3>1, <3>2, <3>3, <3>4, <3>5
    <2>5. ASSUME NEW s \in SUBSET (1 .. m + 1), m + 1 \notin s
          PROVE  s \in SUBSET (1 .. m) /\ h[s] = it[s] /\ h[s] \in A
      <3>1. s \in SUBSET (1 .. m)
        BY <2>3, <2>5
      <3> QED BY <2>1, <2>2, <2>5, <3>1
    <2>6. h \in [SUBSET (1 .. m + 1) -> A]
      <3>1. \A s \in SUBSET (1 .. m + 1) : h[s] \in A
        BY <2>4, <2>5
      <3> QED BY <2>2, <3>1
    <2>7. Recurs(h, 1 .. m + 1, b, step)
      <3> SUFFICES ASSUME NEW s \in SUBSET (1 .. m + 1)
                   PROVE  h[s] = IF s = {} THEN b ELSE step[Max(s)][h[s \ {Max(s)}]]
        BY DEF Recurs
      <3>1. CASE m + 1 \in s
        BY <2>4, <3>1
      <3>2. CASE m + 1 \notin s
        <4>1. s \in SUBSET (1 .. m) /\ h[s] = it[s]
          BY <2>5, <3>2
        <4>2. CASE s = {}
          BY <2>1, <4>1, <4>2 DEF Recurs
        <4>3. CASE s # {}
          <5>1. it[s] = step[Max(s)][it[s \ {Max(s)}]]
            BY <2>1, <4>1, <4>3 DEF Recurs
          <5>2. s \ {Max(s)} \in SUBSET (1 .. m + 1) /\ m + 1 \notin s \ {Max(s)}
            BY <3>2
          <5>3. h[s \ {Max(s)}] = it[s \ {Max(s)}]
            BY <2>5, <5>2
          <5> QED BY <4>1, <4>3, <5>1, <5>3
        <4> QED BY <4>2, <4>3
      <3> QED BY <3>1, <3>2
    <2> QED BY <2>3, <2>6, <2>7
  <1>3. n \in H
    <2> HIDE DEF H
    <2>1. \A i \in 0 .. n : i \in H
      BY <1>1, <1>2, UpFrom0
    <2> QED BY <2>1
  <1> QED BY <1>3

\* The places up to i.
LEMMA Initials ==
  ASSUME NEW n \in Nat, NEW i \in 1 .. n
  PROVE  /\ 1 .. i \in SUBSET (1 .. n) /\ 1 .. i # {} /\ Max(1 .. i) = i
         /\ (1 .. i) \ {i} = 1 .. (i - 1)
  <1>1. i \in 1 .. i /\ 1 .. i \subseteq Int /\ \A y \in 1 .. i : i >= y
    OBVIOUS
  <1>2. Max(1 .. i) = i
    BY <1>1, MaxIs
  <1> QED BY <1>1, <1>2

\* g[i] is what has been accumulated after i places.
Loop(g, A, n, b, step, r) ==
  g \in [0 .. n -> A] /\ g[0] = b /\ g[n] = r /\ \A i \in 1 .. n : g[i] = step[i][g[i - 1]]

\* f takes the steps, as far as it stays in A.
Steps(f, A, n, b, step) ==
  f[{}] = b /\ \A i \in 1 .. n : f[1 .. (i - 1)] \in A => f[1 .. i] = step[i][f[1 .. (i - 1)]]

LEMMA FoldLoop ==
  ASSUME NEW n \in Nat, NEW A, NEW b \in A, NEW step \in [1 .. n -> [A -> A]], NEW f,
         Steps(f, A, n, b, step)
  PROVE  \E g : Loop(g, A, n, b, step, f[1 .. n])
  <1>1. PICK g : g = [i \in 0 .. n |-> f[1 .. i]]
    OBVIOUS
  <1>2. g[0] = b
    <2>1. 1 .. 0 = {} /\ 0 \in 0 .. n
      OBVIOUS
    <2> QED BY <1>1, <2>1 DEF Steps
  <1>3. ASSUME NEW i \in 1 .. n, g[i - 1] \in A PROVE g[i] \in A /\ g[i] = step[i][g[i - 1]]
    <2>1. i \in 0 .. n /\ i - 1 \in 0 .. n
      OBVIOUS
    <2>2. g[i] = f[1 .. i] /\ g[i - 1] = f[1 .. (i - 1)]
      BY <1>1, <2>1
    <2>3. g[i] = step[i][g[i - 1]]
      BY <1>3, <2>2 DEF Steps
    <2>4. step[i] \in [A -> A]
      OBVIOUS
    <2> QED BY <1>3, <2>3, <2>4
  <1>4. \A i \in 0 .. n : g[i] \in A
    BY <1>2, <1>3, PassedOn
  <1>5. \A i \in 1 .. n : g[i] = step[i][g[i - 1]]
    <2> SUFFICES ASSUME NEW i \in 1 .. n PROVE g[i] = step[i][g[i - 1]]
      OBVIOUS
    <2>1. i - 1 \in 0 .. n
      OBVIOUS
    <2> QED BY <1>3, <1>4, <2>1
  <1>6. f[1 .. n] = g[n]
    BY <1>1
  <1>7. g \in [0 .. n -> A]
    BY <1>1, <1>4
  <1>8. Loop(g, A, n, b, step, f[1 .. n])
    BY <1>2, <1>5, <1>6, <1>7 DEF Loop
  <1> QED BY <1>8

(***************************************************************************)
(* Among: the elements of a sequence that are in a set.                    *)
(***************************************************************************)

\* g[i] is what the loop has after i elements.
AmongLoop(g, X, s, S) ==
  /\ g \in [0 .. Len(s) -> Seq(X)] /\ g[0] = <<>>
  /\ \A i \in 1 .. Len(s) : g[i] = IF s[i] \in S THEN Append(g[i - 1], s[i]) ELSE g[i - 1]
  /\ Among(s, S) = g[Len(s)]

LEMMA AmongFold ==
  ASSUME NEW X, NEW s \in Seq(X), NEW S
  PROVE  \E g : AmongLoop(g, X, s, S)
  <1>1. PICK n : n = Len(s)
    OBVIOUS
  <1>2. n \in Nat /\ DOMAIN s = 1 .. n /\ \A i \in 1 .. n : s[i] \in X
    BY <1>1
  <1>3. PICK step : step = [i \in 1 .. n |-> [a \in Seq(X) |-> IF s[i] \in S THEN Append(a, s[i]) ELSE a]]
    OBVIOUS
  <1>4. step \in [1 .. n -> [Seq(X) -> Seq(X)]] /\ <<>> \in Seq(X)
    BY <1>2, <1>3
  <1>5. PICK it \in [SUBSET (1 .. n) -> Seq(X)] : Recurs(it, 1 .. n, <<>>, step)
    BY <1>2, <1>4, FoldExists
  <1>6. it = [t \in SUBSET (1 .. n) |->
                IF t = {} THEN <<>>
                ELSE IF s[Max(t)] \in S THEN Append(it[t \ {Max(t)}], s[Max(t)]) ELSE it[t \ {Max(t)}]]
    <2>1. ASSUME NEW t \in SUBSET (1 .. n), t # {}
          PROVE  it[t] = IF s[Max(t)] \in S THEN Append(it[t \ {Max(t)}], s[Max(t)]) ELSE it[t \ {Max(t)}]
      <3>1. Max(t) \in 1 .. n
        BY <1>2, <2>1, MaxIn
      <3>2. it[t \ {Max(t)}] \in Seq(X)
        BY <1>5
      <3>3. it[t] = step[Max(t)][it[t \ {Max(t)}]]
        BY <1>5, <2>1 DEF Recurs
      <3> QED BY <1>3, <3>1, <3>2, <3>3
    <2>2. it[{}] = <<>>
      BY <1>5 DEF Recurs
    <2> QED BY <1>5, <2>1, <2>2
  <1>7. PICK f : /\ f = [t \in SUBSET (1 .. n) |->
                           IF t = {} THEN <<>>
                           ELSE IF s[Max(t)] \in S THEN Append(f[t \ {Max(t)}], s[Max(t)]) ELSE f[t \ {Max(t)}]]
                 /\ Among(s, S) = f[1 .. n]
    BY <1>2, <1>6 DEF Among, FoldLeft, MapThenFoldSet
  <1>8. PICK g : g = [i \in 0 .. n |-> f[1 .. i]]
    OBVIOUS
  <1>9. g[0] = <<>>
    BY <1>2, <1>7, <1>8
  <1>10. ASSUME NEW i \in 1 .. n
         PROVE  g[i] = IF s[i] \in S THEN Append(g[i - 1], s[i]) ELSE g[i - 1]
    <2>1. /\ 1 .. i \in SUBSET (1 .. n) /\ 1 .. i # {} /\ Max(1 .. i) = i
          /\ (1 .. i) \ {i} = 1 .. (i - 1)
      BY <1>2, Initials
    <2>2. g[i] = f[1 .. i] /\ g[i - 1] = f[1 .. (i - 1)]
      BY <1>2, <1>8
    <2>3. f[1 .. i] = IF s[i] \in S THEN Append(f[1 .. (i - 1)], s[i]) ELSE f[1 .. (i - 1)]
      BY <1>7, <2>1
    <2> QED BY <2>2, <2>3
  <1>11. \A i \in 0 .. n : g[i] \in Seq(X)
    <2>1. ASSUME NEW i \in 1 .. n, g[i - 1] \in Seq(X) PROVE g[i] \in Seq(X)
      <3>1. s[i] \in X
        BY <1>2
      <3>2. Append(g[i - 1], s[i]) \in Seq(X)
        BY <2>1, <3>1
      <3> QED BY <1>10, <2>1, <3>2
    <2> QED BY <1>2, <1>4, <1>9, <2>1, PassedOn
  <1>12. g \in [0 .. n -> Seq(X)]
    BY <1>8, <1>11
  <1>13. Among(s, S) = g[n]
    <2>1. n \in 0 .. n
      BY <1>2
    <2> QED BY <1>7, <1>8, <2>1
  <1> QED BY <1>1, <1>9, <1>10, <1>12, <1>13 DEF AmongLoop

\* h says where the elements of r come from: the places of s up to i whose element is
\* in S, in their order.
Picks(h, r, s, S, i) ==
  /\ h \in [1 .. Len(r) -> 1 .. i]
  /\ \A k \in 1 .. Len(r) : r[k] = s[h[k]] /\ s[h[k]] \in S
  /\ \A j \in 1 .. i : s[j] \in S => \E k \in 1 .. Len(r) : h[k] = j
  /\ \A k, l \in 1 .. Len(r) : k < l => h[k] < h[l]

LEMMA AmongPicks ==
  ASSUME NEW X, NEW s \in Seq(X), NEW S
  PROVE  Among(s, S) \in Seq(X) /\ \E h : Picks(h, Among(s, S), s, S, Len(s))
  <1>1. PICK n : n = Len(s) /\ n \in Nat
    OBVIOUS
  <1>2. PICK g \in [0 .. n -> Seq(X)] :
          /\ g[0] = <<>>
          /\ \A i \in 1 .. n : g[i] = IF s[i] \in S THEN Append(g[i - 1], s[i]) ELSE g[i - 1]
          /\ Among(s, S) = g[n]
    <2>1. \E g : AmongLoop(g, X, s, S)
      BY AmongFold
    <2> QED BY <1>1, <2>1 DEF AmongLoop
  <1> DEFINE H == {i \in 0 .. n : \E h : Picks(h, g[i], s, S, i)}
  <1>3. 0 \in H
    <2>1. PICK h : h = [k \in 1 .. 0 |-> 0]
      OBVIOUS
    <2>2. 1 .. Len(g[0]) = {} /\ 1 .. 0 = {}
      BY <1>2
    <2>3. Picks(h, g[0], s, S, 0)
      BY <2>1, <2>2 DEF Picks
    <2>4. 0 \in 0 .. n
      BY <1>1
    <2> QED BY <2>3, <2>4
  <1>4. ASSUME NEW i \in 0 .. n, i \in H, i < n PROVE i + 1 \in H
    <2>1. PICK h : Picks(h, g[i], s, S, i)
      BY <1>4
    <2>2. i + 1 \in 1 .. n /\ i + 1 \in 0 .. n /\ (i + 1) - 1 = i /\ i \in Nat
      BY <1>1, <1>4
    <2>3. g[i] \in Seq(X) /\ Len(g[i]) \in Nat /\ s[i + 1] \in X
      BY <1>1, <1>2, <2>2
    <2>4. CASE s[i + 1] \in S
      <3>1. PICK m : m = Len(g[i]) /\ m \in Nat
        BY <2>3
      <3>2. g[i + 1] = Append(g[i], s[i + 1])
        BY <1>2, <2>2, <2>4
      <3>3. /\ Len(g[i + 1]) = m + 1 /\ g[i + 1][m + 1] = s[i + 1]
            /\ \A k \in 1 .. m : g[i + 1][k] = g[i][k]
        BY <2>3, <3>1, <3>2
      <3>4. PICK e : e = [k \in 1 .. m + 1 |-> IF k = m + 1 THEN i + 1 ELSE h[k]]
        OBVIOUS
      <3>a. \A k \in 1 .. m : k # m + 1 /\ k \in 1 .. m + 1
        BY <3>1
      <3>b. \A k \in 1 .. m : h[k] \in 1 .. i
        BY <2>1, <3>1 DEF Picks
      <3>c. e[m + 1] = i + 1
        BY <3>1, <3>4
      <3>5. /\ e[m + 1] = i + 1
            /\ \A k \in 1 .. m : e[k] = h[k] /\ h[k] \in 1 .. i /\ k # m + 1 /\ k \in 1 .. m + 1
        BY <3>4, <3>a, <3>b, <3>c
      <3>6. \A k \in 1 .. m + 1 : k = m + 1 \/ k \in 1 .. m
        BY <3>1
      <3>7. e \in [1 .. m + 1 -> 1 .. i + 1]
        <4>1. ASSUME NEW k \in 1 .. m + 1 PROVE e[k] \in 1 .. i + 1
          <5>1. \A x \in 1 .. i : x \in 1 .. i + 1
            BY <2>2
          <5>2. i + 1 \in 1 .. i + 1
            BY <2>2
          <5> QED BY <3>5, <3>6, <5>1, <5>2
        <4> QED BY <3>4, <4>1
      <3>8. ASSUME NEW k \in 1 .. m + 1 PROVE g[i + 1][k] = s[e[k]] /\ s[e[k]] \in S
        <4>1. CASE k = m + 1
          BY <2>4, <3>3, <3>5, <4>1
        <4>2. CASE k \in 1 .. m
          BY <2>1, <3>1, <3>3, <3>5, <4>2 DEF Picks
        <4> QED BY <3>6, <4>1, <4>2
      <3>9. ASSUME NEW j \in 1 .. i + 1, s[j] \in S PROVE \E k \in 1 .. m + 1 : e[k] = j
        <4>1. CASE j = i + 1
          <5>1. m + 1 \in 1 .. m + 1
            BY <3>1
          <5> QED BY <3>5, <4>1, <5>1
        <4>2. CASE j # i + 1
          <5>1. j \in 1 .. i
            BY <2>2, <4>2
          <5>2. PICK k \in 1 .. m : h[k] = j
            BY <2>1, <3>1, <3>9, <5>1 DEF Picks
          <5> QED BY <3>5, <5>2
        <4> QED BY <4>1, <4>2
      <3>10. ASSUME NEW k \in 1 .. m + 1, NEW l \in 1 .. m + 1, k < l PROVE e[k] < e[l]
        <4>1. k \in 1 .. m
          BY <3>1, <3>10
        <4>2. CASE l = m + 1
          BY <2>2, <3>5, <4>1, <4>2
        <4>3. CASE l \in 1 .. m
          <5>1. h[k] < h[l]
            BY <2>1, <3>1, <3>10, <4>1, <4>3 DEF Picks
          <5> QED BY <3>5, <4>1, <4>3, <5>1
        <4> QED BY <3>6, <4>2, <4>3
      <3>11. Picks(e, g[i + 1], s, S, i + 1)
        BY <3>3, <3>7, <3>8, <3>9, <3>10 DEF Picks
      <3> QED BY <2>2, <3>11
    <2>5. CASE s[i + 1] \notin S
      <3>1. g[i + 1] = g[i]
        BY <1>2, <2>2, <2>5
      <3>2. h \in [1 .. Len(g[i]) -> 1 .. i + 1]
        BY <2>1, <2>2 DEF Picks
      <3>3. ASSUME NEW j \in 1 .. i + 1, s[j] \in S PROVE \E k \in 1 .. Len(g[i]) : h[k] = j
        <4>1. j \in 1 .. i
          BY <2>2, <2>5, <3>3
        <4> QED BY <2>1, <3>3, <4>1 DEF Picks
      <3>4. Picks(h, g[i + 1], s, S, i + 1)
        BY <2>1, <3>1, <3>2, <3>3 DEF Picks
      <3> QED BY <2>2, <3>4
    <2> QED BY <2>4, <2>5
  <1>5. n \in H
    <2> HIDE DEF H
    <2>1. \A i \in 0 .. n : i \in H
      BY <1>1, <1>3, <1>4, UpFrom0
    <2> QED BY <1>1, <2>1
  <1> QED BY <1>1, <1>2, <1>5

(***************************************************************************)
(* FlattenSeq puts the sequences one after the other.                      *)
(***************************************************************************)

\* g[i] is what there is after i sequences.
Joins(g, X, s) ==
  /\ g \in [0 .. Len(s) -> Seq(X)] /\ g[0] = <<>>
  /\ \A i \in 1 .. Len(s) : g[i] = g[i - 1] \o s[i]
  /\ FlattenSeq(s) = g[Len(s)]

LEMMA Flatten ==
  ASSUME NEW X, NEW s \in Seq(Seq(X)), Len(s) # 0
  PROVE  \E g : Joins(g, X, s)
  <1>1. PICK n : n = Len(s)
    OBVIOUS
  <1>2. n \in Nat /\ n >= 1 /\ 1 \in 1 .. n /\ \A i \in 1 .. n : s[i] \in Seq(X)
    BY <1>1
  <1>3. PICK step : step = [i \in 1 .. n |-> [a \in Seq(X) |-> a \o s[i]]]
    OBVIOUS
  <1>4. step \in [1 .. n -> [Seq(X) -> Seq(X)]] /\ <<>> \in Seq(X)
    BY <1>2, <1>3
  <1>5. PICK it \in [SUBSET (1 .. n) -> Seq(X)] : Recurs(it, 1 .. n, <<>>, step)
    BY <1>2, <1>4, FoldExists
  <1>6. PICK u : u = [i \in 1 .. n |-> it[1 .. i]]
    OBVIOUS
  <1>7. ASSUME NEW i \in 1 .. n PROVE it[1 .. i] = it[1 .. (i - 1)] \o s[i] /\ it[1 .. i] \in Seq(X)
    <2>1. /\ 1 .. i \in SUBSET (1 .. n) /\ 1 .. i # {} /\ Max(1 .. i) = i
          /\ (1 .. i) \ {i} = 1 .. (i - 1) /\ 1 .. (i - 1) \in SUBSET (1 .. n)
      BY <1>2, Initials
    <2>2. it[1 .. i] = step[i][it[1 .. (i - 1)]]
      BY <1>5, <2>1 DEF Recurs
    <2>3. it[1 .. (i - 1)] \in Seq(X) /\ it[1 .. i] \in Seq(X)
      BY <1>5, <2>1
    <2> QED BY <1>3, <2>2, <2>3
  <1>8. it[1 .. 1] = s[1]
    <2>1. 1 .. (1 - 1) = {} /\ {} \in SUBSET (1 .. n)
      OBVIOUS
    <2>2. it[{}] = <<>>
      BY <1>5, <2>1 DEF Recurs
    <2>3. it[1 .. 1] = <<>> \o s[1]
      BY <1>2, <1>7, <2>1, <2>2
    <2> QED BY <1>2, <2>3
  <1>9. u = [i \in 1 .. n |-> IF i = 1 THEN s[i] ELSE u[i - 1] \o s[i]]
    <2>1. ASSUME NEW i \in 1 .. n PROVE u[i] = IF i = 1 THEN s[i] ELSE u[i - 1] \o s[i]
      <3>1. CASE i = 1
        BY <1>2, <1>6, <1>8, <3>1
      <3>2. CASE i # 1
        <4>1. i - 1 \in 1 .. n
          BY <1>2, <3>2
        <4>2. u[i] = it[1 .. i] /\ u[i - 1] = it[1 .. (i - 1)]
          BY <1>6, <4>1
        <4> QED BY <1>7, <3>2, <4>2
      <3> QED BY <3>1, <3>2
    <2> QED BY <1>6, <2>1
  <1>10. PICK f : /\ f = [i \in 1 .. n |-> IF i = 1 THEN s[i] ELSE f[i - 1] \o s[i]]
                  /\ FlattenSeq(s) = f[n]
    BY <1>1, <1>2, <1>9 DEF FlattenSeq
  <1>11. PICK g : g = [i \in 0 .. n |-> IF i = 0 THEN <<>> ELSE f[i]]
    OBVIOUS
  <1>12. g[0] = <<>> /\ g[n] = f[n]
    BY <1>2, <1>11
  <1>13. ASSUME NEW i \in 1 .. n PROVE g[i - 1] \in Seq(X) => g[i] = g[i - 1] \o s[i] /\ g[i] \in Seq(X)
    <2>1. i \in 0 .. n /\ i # 0 /\ i - 1 \in 0 .. n /\ s[i] \in Seq(X)
      BY <1>2
    <2>2. g[i] = f[i]
      BY <1>11, <2>1
    <2>3. CASE i = 1
      <3>1. g[i - 1] = <<>> /\ g[i] = s[i]
        BY <1>2, <1>10, <1>12, <2>2, <2>3
      <3> QED BY <2>1, <3>1
    <2>4. CASE i # 1
      <3>1. g[i - 1] = f[i - 1]
        BY <1>11, <2>1, <2>4
      <3>2. g[i] = g[i - 1] \o s[i]
        BY <1>10, <2>2, <2>4, <3>1
      <3> QED BY <2>1, <3>2
    <2> QED BY <2>3, <2>4
  <1>14. \A i \in 0 .. n : g[i] \in Seq(X)
    BY <1>2, <1>4, <1>12, <1>13, PassedOn
  <1>15. \A i \in 1 .. n : g[i] = g[i - 1] \o s[i]
    <2> SUFFICES ASSUME NEW i \in 1 .. n PROVE g[i] = g[i - 1] \o s[i]
      OBVIOUS
    <2>1. i - 1 \in 0 .. n
      BY <1>2
    <2> QED BY <1>13, <1>14, <2>1
  <1>16. g \in [0 .. n -> Seq(X)]
    BY <1>11, <1>14
  <1> QED BY <1>1, <1>10, <1>12, <1>15, <1>16 DEF Joins

(***************************************************************************)
(* The tables of names.                                                    *)
(***************************************************************************)

LEMMA SectionFacts ==
  /\ DOMAIN Sections = 1 .. 14 /\ Len(Sections) = 14
  /\ \A i \in 1 .. 14 : SectionOf(Sections[i]) = i
  /\ \A typ \in ToSet(Sections) : SectionOf(typ) \in 1 .. 14 /\ Sections[SectionOf(typ)] = typ
  /\ ToSet(Sections) \subseteq ToSet(Alphabet)
  <1>1. DOMAIN Sections = 1 .. 14 /\ Len(Sections) = 14
    BY DEF Sections
  <1>2. \A i, j \in 1 .. 14 : Sections[i] = Sections[j] => i = j
    BY DEF Sections
  <1>3. ASSUME NEW i \in 1 .. 14 PROVE SectionOf(Sections[i]) = i
    BY <1>1, <1>2 DEF SectionOf
  <1>4. ASSUME NEW typ \in ToSet(Sections) PROVE SectionOf(typ) \in 1 .. 14 /\ Sections[SectionOf(typ)] = typ
    <2>1. PICK i \in 1 .. 14 : typ = Sections[i]
      BY <1>1 DEF ToSet
    <2> QED BY <1>3, <2>1
  <1>5. ToSet(Sections) \subseteq ToSet(Alphabet)
    <2>1. ToSet(Sections) = {"basereport", "ping", "tcp", "udp", "http", "keyword", "script",
                             "exceptionbeat", "processbeat", "socketsnapshot", "selfstats",
                             "gather_up_beat", "dmesg", "metricbeat"}
      BY <1>1 DEF Sections, ToSet
    <2>2. DOMAIN Alphabet = 1 .. 14
      BY DEF Alphabet
    <2>3. \A i \in 1 .. 14 : Alphabet[i] \in ToSet(Alphabet)
      BY <2>2 DEF ToSet
    <2>4. /\ Alphabet[1] = "basereport" /\ Alphabet[2] = "dmesg" /\ Alphabet[3] = "exceptionbeat"
          /\ Alphabet[4] = "gather_up_beat" /\ Alphabet[5] = "http" /\ Alphabet[6] = "keyword"
          /\ Alphabet[7] = "metricbeat" /\ Alphabet[8] = "ping" /\ Alphabet[9] = "processbeat"
          /\ Alphabet[10] = "script" /\ Alphabet[11] = "selfstats" /\ Alphabet[12] = "socketsnapshot"
          /\ Alphabet[13] = "tcp" /\ Alphabet[14] = "udp"
      BY DEF Alphabet
    <2> QED BY <2>1, <2>3, <2>4
  <1> QED BY <1>1, <1>3, <1>4, <1>5

LEMMA RankFacts == \A typ \in ToSet(Alphabet) : Rank(typ) \in 1 .. 14 /\ Alphabet[Rank(typ)] = typ
  <1>1. DOMAIN Alphabet = 1 .. 14
    BY DEF Alphabet
  <1> SUFFICES ASSUME NEW typ \in ToSet(Alphabet) PROVE Rank(typ) \in 1 .. 14 /\ Alphabet[Rank(typ)] = typ
    OBVIOUS
  <1>2. \E i \in 1 .. 14 : Alphabet[i] = typ
    BY <1>1 DEF ToSet
  <1> QED BY <1>1, <1>2 DEF Rank

(***************************************************************************)
(* The tasks that a file stands for.                                       *)
(***************************************************************************)

\* What Clean leaves: defaults are filled in.
CleanEntries ==
  {e \in [typ : ToSet(Sections), line : Nat, id : Int, ident : ToSet(Alphabet) \X Int,
          timeout : Int, target : BOOLEAN, expect : BOOLEAN, code : Int,
          format : {""} \cup DOMAIN Texts, names : SUBSET STRING,
          regex : {"", "match", "malformed"}, topN : Int,
          parts : SUBSET {"mem", "load", "disk", "net"}, paths : Seq(Paths)] :
     /\ e.typ = "processbeat" => e.topN > 0
     /\ e.typ \in {"script", "metricbeat"} => e.format \in DOMAIN Texts}

LEMMA CleanTaskFacts ==
  ASSUME NEW e \in Entries
  PROVE  /\ CleanTask(e) \in CleanEntries
         /\ CleanTask(e).typ = e.typ /\ CleanTask(e).line = e.line
         /\ CleanTask(e).target = e.target
         /\ CleanTask(e).ident = NameOf(e)
  <1>a. PICK c : c = CleanTask(e)
    OBVIOUS
  <1>b. PICK f : f = fillDefaults(e)
    OBVIOUS
  <1>c. PICK id : id = IF e.id = 0 THEN 1 ELSE e.id
    OBVIOUS
  <1>d. PICK name : name = NameOf(e)
    OBVIOUS
  <1>e. PICK timeout : timeout = CleanTimeout(e)
    OBVIOUS
  <1>f. PICK code : code = IF e.typ = "http" THEN IfUnset(e.code, 0, 200) ELSE e.code
    OBVIOUS
  <1>g. PICK topN : topN = IF e.typ = "processbeat" THEN IfNotPositive(e.topN, 20) ELSE e.topN
    OBVIOUS
  <1>h. PICK format : format = IF e.typ \in {"script", "metricbeat"} THEN IfUnset(e.format, "", "prometheus")
                               ELSE e.format
    OBVIOUS
  <1>1. /\ e.typ \in ToSet(Sections) /\ e.line \in Nat /\ e.id \in Int
        /\ e.ident \in {NoIdent} \cup (ToSet(Alphabet) \X Int) /\ e.timeout \in Int
        /\ e.target \in BOOLEAN /\ e.expect \in BOOLEAN /\ e.code \in Int
        /\ e.format \in {""} \cup DOMAIN Texts /\ e.names \in SUBSET STRING
        /\ e.regex \in {"", "match", "malformed"} /\ e.topN \in Int
        /\ e.parts \in SUBSET {"mem", "load", "disk", "net"} /\ e.paths \in Seq(Paths)
    BY DEF Entries
  <1>2. id \in Int /\ e.typ \in ToSet(Alphabet)
    <2>1. id \in Int
      <3>1. PICK v \in Int : v = e.id
        BY <1>1
      <3> QED BY <1>c, <3>1
    <2>2. e.typ \in ToSet(Alphabet)
      BY <1>1, SectionFacts
    <2> QED BY <2>1, <2>2
  <1>3. name \in ToSet(Alphabet) \X Int
    <2>1. CASE e.ident # NoIdent
      <3>1. name = e.ident
        BY <1>d, <2>1 DEF NameOf
      <3> QED BY <1>1, <2>1, <3>1
    <2>2. CASE e.ident = NoIdent
      <3>1. name = <<e.typ, id>>
        BY <1>c, <1>d, <2>2 DEF NameOf
      <3> QED BY <1>2, <3>1
    <2> QED BY <2>1, <2>2
  <1>4. f = [e EXCEPT !.id = id, !.ident = name]
    BY <1>b, <1>c, <1>d DEF fillDefaults, IfUnset, NameOf
  <1>5. c = [typ |-> e.typ, line |-> e.line, id |-> id, ident |-> name,
             timeout |-> timeout, target |-> e.target, expect |-> e.expect,
             code |-> code, format |-> format, names |-> e.names, regex |-> e.regex,
             topN |-> topN, parts |-> e.parts, paths |-> e.paths]
    <2>1. e = [typ |-> e.typ, line |-> e.line, id |-> e.id, ident |-> e.ident,
               timeout |-> e.timeout, target |-> e.target, expect |-> e.expect,
               code |-> e.code, format |-> e.format, names |-> e.names, regex |-> e.regex,
               topN |-> e.topN, parts |-> e.parts, paths |-> e.paths]
      BY DEF Entries
    <2>2. f = [typ |-> e.typ, line |-> e.line, id |-> id, ident |-> name,
               timeout |-> e.timeout, target |-> e.target, expect |-> e.expect,
               code |-> e.code, format |-> e.format, names |-> e.names, regex |-> e.regex,
               topN |-> e.topN, parts |-> e.parts, paths |-> e.paths]
      BY <1>4, <2>1
    <2>3. f.code = e.code /\ f.topN = e.topN /\ f.format = e.format
      BY <2>2
    <2>4. c = [f EXCEPT !.timeout = timeout, !.code = code, !.topN = topN, !.format = format]
      BY <1>a, <1>b, <1>e, <1>f, <1>g, <1>h, <2>3 DEF CleanTask
    <2> QED BY <2>2, <2>4
  <1>6. timeout \in Int
    <2>1. CASE e.typ = "metricbeat"
      <3>1. PICK v \in Int : v = e.timeout
        BY <1>1
      <3>2. timeout = IfNotPositive(v, 10)
        BY <1>e, <2>1, <3>1 DEF CleanTimeout
      <3> QED BY <3>2 DEF IfNotPositive
    <2>2. CASE e.typ = "script"
      <3>1. PICK v \in Int : v = e.timeout
        BY <1>1
      <3>2. timeout = IfNotPositive(v, 30)
        BY <1>e, <2>2, <3>1 DEF CleanTimeout
      <3> QED BY <3>2 DEF IfNotPositive
    <2>3. CASE e.typ # "metricbeat" /\ e.typ # "script"
      BY <1>1, <1>e, <2>3 DEF CleanTimeout
    <2> QED BY <2>1, <2>2, <2>3
  <1>7. code \in Int
    <2>1. PICK v \in Int : v = e.code
      BY <1>1
    <2>2. code = v \/ code = IfUnset(v, 0, 200)
      BY <1>f, <2>1
    <2> QED BY <2>2 DEF IfUnset
  <1>8. topN \in Int /\ (e.typ = "processbeat" => topN > 0)
    <2>1. PICK v \in Int : v = e.topN
      BY <1>1
    <2>2. IF e.typ = "processbeat" THEN topN = IfNotPositive(v, 20) ELSE topN = v
      BY <1>g, <2>1
    <2> QED BY <2>2 DEF IfNotPositive
  <1>9. format \in {""} \cup DOMAIN Texts /\ (e.typ \in {"script", "metricbeat"} => format \in DOMAIN Texts)
    BY <1>1, <1>h, WorldAssumption DEF IfUnset
  <1>10. c \in CleanEntries
    BY <1>1, <1>2, <1>3, <1>5, <1>6, <1>7, <1>8, <1>9 DEF CleanEntries
  <1>11. c.typ = e.typ /\ c.line = e.line /\ c.target = e.target /\ c.ident = name
    BY <1>5
  <1> QED BY <1>a, <1>d, <1>10, <1>11

\* The order of the sections, and within one that of the file.
Earlier(a, b) ==
  \/ SectionOf(a.typ) < SectionOf(b.typ)
  \/ a.typ = b.typ /\ a.line < b.line

\* cs are the entries of a file, each with its place.
Placed(cs) == cs \in Seq(CleanEntries) /\ \A i \in 1 .. Len(cs) : cs[i].line = i

\* r lists the entries of the sections in M.
Listed(r, cs, M) ==
  /\ r \in Seq(CleanEntries)
  /\ \A k \in 1 .. Len(r) :
       r[k].line \in 1 .. Len(cs) /\ r[k] = cs[r[k].line] /\ SectionOf(r[k].typ) \in M
  /\ \A i \in 1 .. Len(cs) : SectionOf(cs[i].typ) \in M => \E k \in 1 .. Len(r) : r[k].line = i
  /\ \A k, l \in 1 .. Len(r) : k < l => Earlier(r[k], r[l])

LEMMA SectionListed ==
  ASSUME NEW cs, Placed(cs), NEW m \in 1 .. 14
  PROVE  Listed(GetTaskConfigListByType(cs, Sections[m]), cs, {m})
  <1>1. PICK S : S = {e \in ToSet(cs) : e.typ = Sections[m]}
    OBVIOUS
  <1>2. PICK r : r = GetTaskConfigListByType(cs, Sections[m])
    OBVIOUS
  <1>3. r = Among(cs, S)
    BY <1>1, <1>2 DEF GetTaskConfigListByType
  <1>4. cs \in Seq(CleanEntries) /\ DOMAIN cs = 1 .. Len(cs)
    BY DEF Placed
  <1>5. r \in Seq(CleanEntries) /\ \E h : Picks(h, r, cs, S, Len(cs))
    BY <1>3, <1>4, AmongPicks
  <1>6. PICK h : Picks(h, r, cs, S, Len(cs))
    BY <1>5
  <1>7. \A i \in 1 .. Len(cs) : cs[i].typ \in ToSet(Sections) /\ cs[i].line = i
    <2>1. \A i \in 1 .. Len(cs) : cs[i] \in CleanEntries /\ cs[i].line = i
      BY <1>4 DEF Placed
    <2>2. \A e \in CleanEntries : e.typ \in ToSet(Sections)
      BY DEF CleanEntries
    <2> QED BY <2>1, <2>2
  <1>8. \A i \in 1 .. Len(cs) : cs[i] \in S <=> SectionOf(cs[i].typ) = m
    <2> SUFFICES ASSUME NEW i \in 1 .. Len(cs) PROVE cs[i] \in S <=> SectionOf(cs[i].typ) = m
      OBVIOUS
    <2>1. cs[i] \in S <=> cs[i].typ = Sections[m]
      BY <1>1, <1>4 DEF ToSet
    <2>2. SectionOf(Sections[m]) = m /\ Sections[SectionOf(cs[i].typ)] = cs[i].typ
      BY <1>7, SectionFacts
    <2> QED BY <2>1, <2>2
  <1>9. ASSUME NEW k \in 1 .. Len(r)
        PROVE  /\ h[k] \in 1 .. Len(cs) /\ r[k] = cs[h[k]] /\ r[k].line = h[k]
               /\ SectionOf(r[k].typ) = m /\ r[k].typ = Sections[m]
    <2>1. h[k] \in 1 .. Len(cs) /\ r[k] = cs[h[k]] /\ cs[h[k]] \in S
      BY <1>6 DEF Picks
    <2> QED BY <1>1, <1>7, <1>8, <2>1
  <1>10. ASSUME NEW i \in 1 .. Len(cs), SectionOf(cs[i].typ) \in {m}
         PROVE  \E k \in 1 .. Len(r) : r[k].line = i
    <2>1. PICK k \in 1 .. Len(r) : h[k] = i
      BY <1>6, <1>8, <1>10 DEF Picks
    <2> QED BY <1>9, <2>1
  <1>11. ASSUME NEW k \in 1 .. Len(r), NEW l \in 1 .. Len(r), k < l PROVE Earlier(r[k], r[l])
    <2>1. h[k] < h[l]
      BY <1>6, <1>11 DEF Picks
    <2> QED BY <1>9, <2>1 DEF Earlier
  <1> QED BY <1>2, <1>5, <1>9, <1>10, <1>11 DEF Listed

LEMMA ListedConcat ==
  ASSUME NEW cs, Placed(cs), NEW m \in 1 .. 14, NEW r, NEW q,
         Listed(r, cs, 1 .. (m - 1)), Listed(q, cs, {m})
  PROVE  Listed(r \o q, cs, 1 .. m)
  <1>1. PICK a, b : a = Len(r) /\ b = Len(q)
    OBVIOUS
  <1>2. PICK s : s = r \o q
    OBVIOUS
  <1>3. r \in Seq(CleanEntries) /\ q \in Seq(CleanEntries) /\ a \in Nat /\ b \in Nat
    BY <1>1 DEF Listed
  <1>4. /\ s \in Seq(CleanEntries) /\ Len(s) = a + b
        /\ \A k \in 1 .. a : s[k] = r[k]
        /\ \A k \in 1 .. b : s[a + k] = q[k]
    BY <1>1, <1>2, <1>3
  <1>5. \A k \in 1 .. a + b : k \in 1 .. a \/ (k - a \in 1 .. b /\ a + (k - a) = k)
    BY <1>3
  <1>6. \A k \in 1 .. a : k \in 1 .. a + b
    BY <1>3
  <1>7. \A k \in 1 .. b : a + k \in 1 .. a + b
    BY <1>3
  <1>8. \A x \in 1 .. (m - 1) : x \in 1 .. m /\ x < m
    OBVIOUS
  <1>9. m \in 1 .. m /\ \A x \in 1 .. m : x = m \/ x \in 1 .. (m - 1)
    OBVIOUS
  <1>10. ASSUME NEW k \in 1 .. a + b
         PROVE  s[k].line \in 1 .. Len(cs) /\ s[k] = cs[s[k].line] /\ SectionOf(s[k].typ) \in 1 .. m
    <2>1. CASE k \in 1 .. a
      BY <1>1, <1>4, <1>8, <2>1 DEF Listed
    <2>2. CASE k - a \in 1 .. b /\ a + (k - a) = k
      <3>1. s[k] = q[k - a]
        BY <1>4, <2>2
      <3>2. /\ q[k - a].line \in 1 .. Len(cs) /\ q[k - a] = cs[q[k - a].line]
            /\ SectionOf(q[k - a].typ) = m
        BY <1>1, <2>2 DEF Listed
      <3> QED BY <1>9, <3>1, <3>2
    <2> QED BY <1>5, <2>1, <2>2
  <1>11. ASSUME NEW i \in 1 .. Len(cs), SectionOf(cs[i].typ) \in 1 .. m
         PROVE  \E k \in 1 .. a + b : s[k].line = i
    <2>1. CASE SectionOf(cs[i].typ) = m
      <3>1. PICK k \in 1 .. b : q[k].line = i
        BY <1>1, <2>1 DEF Listed
      <3> QED BY <1>4, <1>7, <3>1
    <2>2. CASE SectionOf(cs[i].typ) \in 1 .. (m - 1)
      <3>1. PICK k \in 1 .. a : r[k].line = i
        BY <1>1, <2>2 DEF Listed
      <3> QED BY <1>4, <1>6, <3>1
    <2> QED BY <1>9, <1>11, <2>1, <2>2
  <1>12. ASSUME NEW k \in 1 .. a + b, NEW l \in 1 .. a + b, k < l PROVE Earlier(s[k], s[l])
    <2>1. CASE k \in 1 .. a /\ l \in 1 .. a
      BY <1>1, <1>4, <1>12, <2>1 DEF Listed
    <2>2. CASE k \in 1 .. a /\ l - a \in 1 .. b /\ a + (l - a) = l
      <3>1. s[k] = r[k] /\ s[l] = q[l - a]
        BY <1>4, <2>2
      <3>2. SectionOf(r[k].typ) \in 1 .. (m - 1) /\ SectionOf(q[l - a].typ) = m
        BY <1>1, <2>2 DEF Listed
      <3> QED BY <1>8, <3>1, <3>2 DEF Earlier
    <2>3. CASE k - a \in 1 .. b /\ a + (k - a) = k
      <3>1. l - a \in 1 .. b /\ a + (l - a) = l /\ k - a < l - a
        BY <1>3, <1>12, <2>3
      <3>2. s[k] = q[k - a] /\ s[l] = q[l - a]
        BY <1>4, <2>3, <3>1
      <3> QED BY <1>1, <2>3, <3>1, <3>2 DEF Listed
    <2> QED BY <1>5, <2>1, <2>2, <2>3
  <1> QED BY <1>2, <1>4, <1>10, <1>11, <1>12 DEF Listed

LEMMA AllListed ==
  ASSUME NEW cs, Placed(cs)
  PROVE  Listed(AllTaskConfigs(cs), cs, 1 .. 14)
  <1>1. PICK s : s = [i \in 1 .. 14 |-> GetTaskConfigListByType(cs, Sections[i])]
    OBVIOUS
  <1>2. \A i \in 1 .. 14 : Listed(s[i], cs, {i})
    BY <1>1, SectionListed
  <1>3. \A i \in 1 .. 14 : s[i] \in Seq(CleanEntries)
    BY <1>2 DEF Listed
  <1>4. s \in Seq(Seq(CleanEntries)) /\ Len(s) = 14 /\ Len(s) # 0
    BY <1>1, <1>3
  <1>5. PICK g : Joins(g, CleanEntries, s)
    BY <1>4, Flatten
  <1>6. AllTaskConfigs(cs) = g[14]
    <2>1. AllTaskConfigs(cs) = FlattenSeq(s)
      BY <1>1, SectionFacts DEF AllTaskConfigs
    <2> QED BY <1>4, <1>5, <2>1 DEF Joins
  <1>7. PICK H : H = {m \in 0 .. 14 : Listed(g[m], cs, 1 .. m)}
    OBVIOUS
  <1>8. 0 \in H
    <2>1. g[0] = <<>> /\ 1 .. 0 = {}
      BY <1>5 DEF Joins
    <2>2. <<>> \in Seq(CleanEntries) /\ Len(<<>>) = 0
      OBVIOUS
    <2>3. Listed(g[0], cs, 1 .. 0)
      BY <2>1, <2>2 DEF Listed
    <2> QED BY <1>7, <2>3
  <1>9. ASSUME NEW m \in 0 .. 14, m \in H, m < 14 PROVE m + 1 \in H
    <2>1. m + 1 \in 1 .. 14 /\ (m + 1) - 1 = m /\ m + 1 \in 0 .. 14
      BY <1>9
    <2>2. g[m + 1] = g[m] \o s[m + 1]
      BY <1>4, <1>5, <2>1 DEF Joins
    <2>3. Listed(g[m], cs, 1 .. m) /\ Listed(s[m + 1], cs, {m + 1})
      BY <1>2, <1>7, <1>9, <2>1
    <2>4. Listed(g[m] \o s[m + 1], cs, 1 .. (m + 1))
      BY <2>1, <2>3, ListedConcat
    <2> QED BY <1>7, <2>1, <2>2, <2>4
  <1>10. 14 \in H
    <2>1. \A i \in 0 .. 14 : i \in H
      BY <1>8, <1>9, UpFrom0
    <2> QED BY <2>1
  <1> QED BY <1>6, <1>7, <1>10

\* Clean keeps the places of a file.
LEMMA CleanPlaced ==
  ASSUME NEW es \in Seq(Entries), \A i \in DOMAIN es : es[i].line = i
  PROVE  Placed(Clean(es)) /\ Len(Clean(es)) = Len(es) /\ \A i \in 1 .. Len(es) : Clean(es)[i] = CleanTask(es[i])
  <1>1. DOMAIN es = 1 .. Len(es) /\ Len(es) \in Nat /\ \A i \in 1 .. Len(es) : es[i] \in Entries
    OBVIOUS
  <1>2. PICK cs : cs = Clean(es)
    OBVIOUS
  <1>3. cs = [i \in 1 .. Len(es) |-> CleanTask(es[i])]
    BY <1>1, <1>2 DEF Clean
  <1>4. \A i \in 1 .. Len(es) : cs[i] = CleanTask(es[i]) /\ cs[i] \in CleanEntries /\ cs[i].line = i
    BY <1>1, <1>3, CleanTaskFacts
  <1>5. cs \in Seq(CleanEntries) /\ Len(cs) = Len(es)
    BY <1>1, <1>3, <1>4
  <1> QED BY <1>2, <1>4, <1>5 DEF Placed

\* b lists the tasks that the entries es stand for.
Builds(b, es) ==
  /\ b \in Seq(CleanEntries)
  /\ \A k \in 1 .. Len(b) :
       b[k].line \in 1 .. Len(es) /\ b[k] = CleanTask(es[b[k].line]) /\ Usable(es[b[k].line])
  /\ \A i \in 1 .. Len(es) : Usable(es[i]) => \E k \in 1 .. Len(b) : b[k].line = i
  /\ \A k, l \in 1 .. Len(b) : k < l => Earlier(b[k], b[l])

LEMMA BuildAll ==
  ASSUME NEW es \in Seq(Entries), \A i \in DOMAIN es : es[i].line = i
  PROVE  Builds(buildAllTasks(es), es)
  <1>1. PICK cs : cs = Clean(es)
    OBVIOUS
  <1>2. Placed(cs) /\ Len(cs) = Len(es) /\ \A i \in 1 .. Len(es) : cs[i] = CleanTask(es[i])
    BY <1>1, CleanPlaced
  <1>3. PICK all : all = AllTaskConfigs(cs)
    OBVIOUS
  <1>4. Listed(all, cs, 1 .. 14)
    BY <1>2, <1>3, AllListed
  <1>5. PICK S : S = {e \in ToSet(all) : Build(e) /\ e.typ # "keyword"}
    OBVIOUS
  <1>6. PICK b : b = buildAllTasks(es)
    OBVIOUS
  <1>7. b = Among(all, S)
    BY <1>1, <1>3, <1>5, <1>6 DEF buildAllTasks
  <1>8. all \in Seq(CleanEntries) /\ DOMAIN all = 1 .. Len(all)
    BY <1>4 DEF Listed
  <1>9. b \in Seq(CleanEntries) /\ \E h : Picks(h, b, all, S, Len(all))
    BY <1>7, <1>8, AmongPicks
  <1>10. PICK h : Picks(h, b, all, S, Len(all))
    BY <1>9
  <1>11. \A i \in 1 .. Len(es) : es[i] \in Entries
    OBVIOUS
  <1>12. ASSUME NEW k \in 1 .. Len(all)
         PROVE  /\ all[k].line \in 1 .. Len(es) /\ all[k] = CleanTask(es[all[k].line])
                /\ all[k] \in S <=> Usable(es[all[k].line])
    <2>1. all[k].line \in 1 .. Len(es) /\ all[k] = CleanTask(es[all[k].line])
      BY <1>2, <1>4 DEF Listed
    <2>2. PICK e \in Entries : e = es[all[k].line]
      BY <1>11, <2>1
    <2>3. all[k].typ = e.typ /\ all[k].target = e.target
      BY <2>1, <2>2, CleanTaskFacts
    <2>4. all[k] \in S <=> Build(all[k]) /\ all[k].typ # "keyword"
      BY <1>5, <1>8 DEF ToSet
    <2>5. (Build(all[k]) /\ all[k].typ # "keyword") <=> Usable(e)
      BY <2>3 DEF Build, Usable
    <2> QED BY <2>1, <2>2, <2>4, <2>5
  <1>13. ASSUME NEW k \in 1 .. Len(b)
         PROVE  h[k] \in 1 .. Len(all) /\ b[k] = all[h[k]] /\ b[k] \in S
    BY <1>10 DEF Picks
  <1>14. ASSUME NEW k \in 1 .. Len(b)
         PROVE  b[k].line \in 1 .. Len(es) /\ b[k] = CleanTask(es[b[k].line]) /\ Usable(es[b[k].line])
    BY <1>12, <1>13
  <1>15. ASSUME NEW i \in 1 .. Len(es), Usable(es[i]) PROVE \E k \in 1 .. Len(b) : b[k].line = i
    <2>1. SectionOf(cs[i].typ) \in 1 .. 14
      <3>1. cs[i] \in CleanEntries
        BY <1>2 DEF Placed
      <3>2. cs[i].typ \in ToSet(Sections)
        BY <3>1 DEF CleanEntries
      <3> QED BY <3>2, SectionFacts
    <2>2. PICK j \in 1 .. Len(all) : all[j].line = i
      BY <1>2, <1>4, <2>1 DEF Listed
    <2>3. all[j] \in S
      BY <1>12, <1>15, <2>2
    <2>4. PICK k \in 1 .. Len(b) : h[k] = j
      BY <1>10, <2>3 DEF Picks
    <2> QED BY <1>13, <2>2, <2>4
  <1>16. ASSUME NEW k \in 1 .. Len(b), NEW l \in 1 .. Len(b), k < l PROVE Earlier(b[k], b[l])
    <2>1. h[k] < h[l]
      BY <1>10, <1>16 DEF Picks
    <2>2. Earlier(all[h[k]], all[h[l]])
      BY <1>4, <1>13, <2>1 DEF Listed
    <2> QED BY <1>13, <2>2
  <1> QED BY <1>6, <1>9, <1>14, <1>15, <1>16 DEF Builds

(***************************************************************************)
(* The tree map: a task replaces the one with its ident.                   *)
(***************************************************************************)

\* The tasks of ts up to the k-th that none of these replaces.
Latest(ts, k) ==
  {ts[i] : i \in {i \in 1 .. k : \A j \in 1 .. k : i < j => ts[j].t.ident # ts[i].t.ident}}

LEMMA LatestStep ==
  ASSUME NEW ts, NEW k \in Nat
  PROVE  PutTask(Latest(ts, k), ts[k + 1]) = Latest(ts, k + 1)
  <1>1. PICK x : x = ts[k + 1]
    OBVIOUS
  <1>2. k + 1 \in 1 .. k + 1 /\ ~ \E j \in 1 .. k + 1 : k + 1 < j
    OBVIOUS
  <1>3. \A i \in 1 .. k : i \in 1 .. k + 1 /\ i < k + 1
    OBVIOUS
  <1>4. \A i \in 1 .. k + 1 : i \in 1 .. k \/ i = k + 1
    OBVIOUS
  <1>5. ASSUME NEW y \in PutTask(Latest(ts, k), x) PROVE y \in Latest(ts, k + 1)
    <2>1. CASE y = x
      BY <1>1, <1>2, <2>1 DEF Latest
    <2>2. CASE y \in Latest(ts, k) /\ y.t.ident # x.t.ident
      <3>1. PICK i \in 1 .. k : y = ts[i] /\ \A j \in 1 .. k : i < j => ts[j].t.ident # ts[i].t.ident
        BY <2>2 DEF Latest
      <3>2. \A j \in 1 .. k + 1 : i < j => ts[j].t.ident # ts[i].t.ident
        BY <1>1, <1>4, <2>2, <3>1
      <3> QED BY <1>3, <3>1, <3>2 DEF Latest
    <2> QED BY <1>5, <2>1, <2>2 DEF PutTask
  <1>6. ASSUME NEW y \in Latest(ts, k + 1) PROVE y \in PutTask(Latest(ts, k), x)
    <2>1. PICK i \in 1 .. k + 1 : y = ts[i] /\ \A j \in 1 .. k + 1 : i < j => ts[j].t.ident # ts[i].t.ident
      BY <1>6 DEF Latest
    <2>2. CASE i = k + 1
      BY <1>1, <2>1, <2>2 DEF PutTask
    <2>3. CASE i \in 1 .. k
      <3>1. y.t.ident # x.t.ident
        BY <1>1, <1>2, <1>3, <2>1, <2>3
      <3>2. \A j \in 1 .. k : i < j => ts[j].t.ident # ts[i].t.ident
        BY <1>3, <2>1
      <3>3. y \in Latest(ts, k)
        BY <2>1, <2>3, <3>2 DEF Latest
      <3> QED BY <3>1, <3>3 DEF PutTask
    <2> QED BY <1>4, <2>2, <2>3
  <1> QED BY <1>1, <1>5, <1>6

LEMMA LatestAll ==
  ASSUME NEW X, NEW ts \in Seq(X), NEW S
  PROVE  Replaced(S, ts) = Latest(ts, Len(ts))
  <1>1. PICK n : n = Len(ts) /\ n \in Nat
    OBVIOUS
  <1>2. DOMAIN ts = 1 .. n /\ \A i \in 1 .. n : ts[i] \in X
    BY <1>1
  <1>3. PICK A : A = SUBSET X
    OBVIOUS
  <1>4. PICK step : step = [i \in 1 .. n |-> [a \in A |-> PutTask(a, ts[i])]]
    OBVIOUS
  <1>5. step \in [1 .. n -> [A -> A]] /\ {} \in A
    <2>1. ASSUME NEW i \in 1 .. n, NEW a \in A PROVE PutTask(a, ts[i]) \in A
      BY <1>2, <1>3 DEF PutTask
    <2> QED BY <1>3, <1>4, <2>1
  <1>6. \A i \in 1 .. n : \A a \in A : step[i][a] = PutTask(a, ts[i])
    BY <1>4
  <1>7. PICK it \in [SUBSET (1 .. n) -> A] : Recurs(it, 1 .. n, {}, step)
    BY <1>1, <1>5, FoldExists
  <1>8. it = [t \in SUBSET (1 .. n) |-> IF t = {} THEN {} ELSE PutTask(it[t \ {Max(t)}], ts[Max(t)])]
    <2>1. ASSUME NEW t \in SUBSET (1 .. n), t # {} PROVE it[t] = PutTask(it[t \ {Max(t)}], ts[Max(t)])
      <3>1. Max(t) \in 1 .. n /\ it[t \ {Max(t)}] \in A
        BY <1>1, <1>7, <2>1, MaxIn
      <3>2. it[t] = step[Max(t)][it[t \ {Max(t)}]]
        BY <1>7, <2>1 DEF Recurs
      <3> QED BY <1>6, <3>1, <3>2
    <2>2. it[{}] = {}
      BY <1>7 DEF Recurs
    <2> QED BY <1>7, <2>1, <2>2
  <1>9. PICK f : /\ f = [t \in SUBSET (1 .. n) |-> IF t = {} THEN {} ELSE PutTask(f[t \ {Max(t)}], ts[Max(t)])]
                 /\ Replaced(S, ts) = f[1 .. n]
    BY <1>2, <1>8 DEF Replaced, FoldLeft, MapThenFoldSet
  <1>10. ASSUME NEW i \in 1 .. n, f[1 .. (i - 1)] \in A
         PROVE  f[1 .. i] = step[i][f[1 .. (i - 1)]]
    <2>1. /\ 1 .. i \in SUBSET (1 .. n) /\ 1 .. i # {} /\ Max(1 .. i) = i
          /\ (1 .. i) \ {i} = 1 .. (i - 1)
      BY <1>1, Initials
    <2>2. f[1 .. i] = PutTask(f[1 .. (i - 1)], ts[i])
      BY <1>9, <2>1
    <2> QED BY <1>6, <1>10, <2>2
  <1>11. Steps(f, A, n, {}, step)
    BY <1>9, <1>10 DEF Steps
  <1>12. PICK g : Loop(g, A, n, {}, step, f[1 .. n])
    <2>1. n \in Nat
      BY <1>1
    <2> QED BY <2>1, <1>5, <1>11, FoldLoop
  <1>13. PICK H : H = {i \in 0 .. n : g[i] = Latest(ts, i)}
    OBVIOUS
  <1>14. 0 \in H
    BY <1>1, <1>12, <1>13 DEF Loop, Latest
  <1>15. ASSUME NEW i \in 0 .. n, i \in H, i < n PROVE i + 1 \in H
    <2>1. i \in Nat /\ i + 1 \in 1 .. n /\ i + 1 \in 0 .. n /\ (i + 1) - 1 = i
      BY <1>1, <1>15
    <2>2. g[i] \in A /\ g[i + 1] = step[i + 1][g[i]]
      BY <1>12, <2>1 DEF Loop
    <2>3. g[i + 1] = PutTask(g[i], ts[i + 1])
      BY <1>6, <2>1, <2>2
    <2>4. g[i + 1] = Latest(ts, i + 1)
      BY <1>13, <1>15, <2>1, <2>3, LatestStep
    <2> QED BY <1>13, <2>1, <2>4
  <1>16. n \in H
    <2>1. \A i \in 0 .. n : i \in H
      BY <1>1, <1>14, <1>15, UpFrom0
    <2> QED BY <1>1, <2>1
  <1> QED BY <1>1, <1>9, <1>12, <1>13, <1>16 DEF Loop

LEMMA LatestFacts ==
  ASSUME NEW ts, NEW k \in Nat
  PROVE  /\ IsFiniteSet(Latest(ts, k))
         /\ \A x \in Latest(ts, k) : \E i \in 1 .. k : x = ts[i]
         /\ \A x, y \in Latest(ts, k) : x.t.ident = y.t.ident => x = y
  <1>1. PICK I : I = {i \in 1 .. k : \A j \in 1 .. k : i < j => ts[j].t.ident # ts[i].t.ident}
    OBVIOUS
  <1>2. PICK L : L = Latest(ts, k)
    OBVIOUS
  <1>3. L = {ts[i] : i \in I}
    BY <1>1, <1>2 DEF Latest
  <1>4. IsFiniteSet(I)
    <2>1. I \in SUBSET (1 .. k) /\ IsFiniteSet(1 .. k)
      BY <1>1, FS_Interval
    <2> QED BY <2>1, FS_Subset
  <1>5. IsFiniteSet(L)
    <2>1. PICK m : m = [i \in I |-> ts[i]]
      OBVIOUS
    <2>2. m \in Surjection(I, L)
      BY <1>3, <2>1 DEF Surjection
    <2> QED BY <1>4, <2>2, FS_Surjection
  <1>6. \A x \in L : \E i \in 1 .. k : x = ts[i]
    BY <1>1, <1>3
  <1>7. ASSUME NEW x \in L, NEW y \in L, x.t.ident = y.t.ident PROVE x = y
    <2>1. PICK i \in I : x = ts[i]
      BY <1>3
    <2>2. PICK j \in I : y = ts[j]
      BY <1>3
    <2>3. ~(i < j) /\ ~(j < i) /\ i \in Int /\ j \in Int
      BY <1>1, <1>7, <2>1, <2>2
    <2> QED BY <2>1, <2>2, <2>3
  <1> QED BY <1>2, <1>5, <1>6, <1>7

\* The tasks of a file, the n-th that is loaded.
Made(f, n) ==
  LET ts == buildAllTasks(f.tasks)
  IN  [i \in DOMAIN ts |-> [t |-> ts[i], file |-> n]]

Scheduled == {t \in CleanEntries : t.typ # "keyword"}
Jobs(n) == [t : Scheduled, file : {n}]

\* Those that are left when all are put into the tree map.
Target(f, n) == Latest(Made(f, n), Len(Made(f, n)))

LEMMA MadeFacts ==
  ASSUME NEW f \in Files, NEW n
  PROVE  /\ Builds(buildAllTasks(f.tasks), f.tasks)
         /\ Made(f, n) \in Seq(Jobs(n)) /\ Len(Made(f, n)) = Len(buildAllTasks(f.tasks))
         /\ \A k \in 1 .. Len(Made(f, n)) : Made(f, n)[k] = [t |-> buildAllTasks(f.tasks)[k], file |-> n]
  <1>1. f.tasks \in Seq(Entries) /\ \A i \in DOMAIN f.tasks : f.tasks[i].line = i
    BY FilesAssumption
  <1>2. PICK b : b = buildAllTasks(f.tasks)
    OBVIOUS
  <1>3. Builds(b, f.tasks)
    BY <1>1, <1>2, BuildAll
  <1>4. b \in Seq(CleanEntries) /\ DOMAIN b = 1 .. Len(b) /\ Len(b) \in Nat
    BY <1>3 DEF Builds
  <1>5. PICK ts : ts = Made(f, n)
    OBVIOUS
  <1>6. ts = [i \in 1 .. Len(b) |-> [t |-> b[i], file |-> n]]
    BY <1>2, <1>4, <1>5 DEF Made
  <1>7. ASSUME NEW i \in 1 .. Len(b) PROVE ts[i] = [t |-> b[i], file |-> n] /\ ts[i] \in Jobs(n)
    <2>1. PICK l \in 1 .. Len(f.tasks) : b[i] = CleanTask(f.tasks[l]) /\ Usable(f.tasks[l])
      BY <1>3 DEF Builds
    <2>2. PICK e \in Entries : e = f.tasks[l]
      BY <1>1
    <2>3. b[i].typ # "keyword"
      BY <2>1, <2>2, CleanTaskFacts DEF Usable
    <2>4. b[i] \in Scheduled
      BY <1>4, <2>3 DEF Scheduled
    <2> QED BY <1>6, <2>4 DEF Jobs
  <1>8. ts \in Seq(Jobs(n)) /\ Len(ts) = Len(b)
    BY <1>4, <1>6, <1>7
  <1> QED BY <1>2, <1>3, <1>5, <1>7, <1>8

LEMMA TargetFacts ==
  ASSUME NEW f \in Files, NEW n
  PROVE  /\ Target(f, n) \in SUBSET Jobs(n) /\ IsFiniteSet(Target(f, n))
         /\ \A x, y \in Target(f, n) : x.t.ident = y.t.ident => x = y
  <1>1. PICK ts : ts = Made(f, n)
    OBVIOUS
  <1>2. ts \in Seq(Jobs(n)) /\ Len(ts) \in Nat
    BY <1>1, MadeFacts
  <1>3. \A i \in 1 .. Len(ts) : ts[i] \in Jobs(n)
    BY <1>2
  <1>4. Target(f, n) = Latest(ts, Len(ts))
    BY <1>1 DEF Target
  <1> QED BY <1>2, <1>3, <1>4, LatestFacts

\* What stays in the tree map is what the file asks for.
LEMMA TargetWanted ==
  ASSUME NEW f \in Files, NEW n
  PROVE  {x.t.line : x \in Target(f, n)} = Wanted(f)
  <1>1. PICK b : b = buildAllTasks(f.tasks)
    OBVIOUS
  <1>2. PICK ts : ts = Made(f, n)
    OBVIOUS
  <1>3. PICK es : es = f.tasks
    OBVIOUS
  <1>4. /\ Builds(b, es) /\ Len(ts) = Len(b)
        /\ \A k \in 1 .. Len(b) : ts[k] = [t |-> b[k], file |-> n]
    BY <1>1, <1>2, <1>3, MadeFacts
  <1>5. es \in Seq(Entries) /\ DOMAIN es = 1 .. Len(es)
    BY <1>3, FilesAssumption
  <1>6. \A i \in 1 .. Len(es) : es[i] \in Entries
    BY <1>5
  <1>7. b \in Seq(CleanEntries) /\ Len(b) \in Nat
    BY <1>4 DEF Builds
  <1>8. ASSUME NEW k \in 1 .. Len(b)
        PROVE  /\ ts[k].t = b[k] /\ b[k].line \in 1 .. Len(es) /\ Usable(es[b[k].line])
               /\ b[k].ident = NameOf(es[b[k].line]) /\ b[k].typ = es[b[k].line].typ
               /\ SectionOf(b[k].typ) \in Int
    <2>1. b[k].line \in 1 .. Len(es) /\ b[k] = CleanTask(es[b[k].line]) /\ Usable(es[b[k].line])
      BY <1>4 DEF Builds
    <2>2. ts[k].t = b[k]
      <3>1. ts[k] = [t |-> b[k], file |-> n]
        BY <1>4
      <3> QED BY <3>1
    <2>3. PICK e \in Entries : e = es[b[k].line]
      BY <1>6, <2>1
    <2>4. b[k].ident = NameOf(e) /\ b[k].typ = e.typ
      BY <2>1, <2>3, CleanTaskFacts
    <2>5. e.typ \in ToSet(Sections)
      BY <2>3 DEF Entries
    <2>6. SectionOf(e.typ) \in Int
      BY <2>5, SectionFacts
    <2> QED BY <2>1, <2>2, <2>3, <2>4, <2>6
  <1>9. \A k, l \in 1 .. Len(b) : k < l => Earlier(b[k], b[l])
    BY <1>4 DEF Builds
  <1>10. \A i \in 1 .. Len(es) : Usable(es[i]) => \E k \in 1 .. Len(b) : b[k].line = i
    BY <1>4 DEF Builds
  <1>11. ASSUME NEW k \in 1 .. Len(b), NEW l \in 1 .. Len(b) PROVE Earlier(b[k], b[l]) <=> k < l
    <2>1. CASE k < l
      BY <1>9, <2>1
    <2>2. CASE k = l
      BY <1>8, <2>2 DEF Earlier
    <2>3. CASE l < k
      <3>1. Earlier(b[l], b[k])
        BY <1>9, <2>3
      <3> QED BY <1>8, <2>3, <3>1 DEF Earlier
    <2> QED BY <1>7, <2>1, <2>2, <2>3
  <1>12. \A i \in 1 .. Len(es) : i \in Wanted(f) <=>
           /\ Usable(es[i])
           /\ ~ \E j \in 1 .. Len(es) :
                  /\ Usable(es[j]) /\ NameOf(es[j]) = NameOf(es[i])
                  /\ \/ SectionOf(es[i].typ) < SectionOf(es[j].typ)
                     \/ es[i].typ = es[j].typ /\ i < j
    BY <1>3, <1>5 DEF Wanted
  <1>13. Wanted(f) \subseteq 1 .. Len(es)
    BY <1>3, <1>5 DEF Wanted
  <1>14. ASSUME NEW k \in 1 .. Len(b)
         PROVE  b[k].line \in Wanted(f) <=> \A l \in 1 .. Len(b) : k < l => b[l].ident # b[k].ident
    <2>1. PICK i \in 1 .. Len(es) : i = b[k].line
      BY <1>8
    <2>2. ASSUME NEW l \in 1 .. Len(b), k < l, b[l].ident = b[k].ident PROVE i \notin Wanted(f)
      <3>1. PICK j \in 1 .. Len(es) : j = b[l].line
        BY <1>8
      <3>2. Earlier(b[k], b[l])
        BY <1>9, <2>2
      <3>3. \/ SectionOf(es[i].typ) < SectionOf(es[j].typ)
            \/ es[i].typ = es[j].typ /\ i < j
        BY <1>8, <2>1, <3>1, <3>2 DEF Earlier
      <3>4. Usable(es[j]) /\ NameOf(es[j]) = NameOf(es[i])
        BY <1>8, <2>1, <2>2, <3>1
      <3> QED BY <1>12, <3>3, <3>4
    <2>3. ASSUME \A l \in 1 .. Len(b) : k < l => b[l].ident # b[k].ident PROVE i \in Wanted(f)
      <3>1. ASSUME NEW j \in 1 .. Len(es), Usable(es[j]), NameOf(es[j]) = NameOf(es[i]),
                   \/ SectionOf(es[i].typ) < SectionOf(es[j].typ)
                   \/ es[i].typ = es[j].typ /\ i < j
            PROVE  FALSE
        <4>1. PICK l \in 1 .. Len(b) : b[l].line = j
          BY <1>10, <3>1
        <4>2. Earlier(b[k], b[l])
          BY <1>8, <2>1, <3>1, <4>1 DEF Earlier
        <4>3. b[l].ident = b[k].ident
          BY <1>8, <2>1, <3>1, <4>1
        <4> QED BY <1>11, <2>3, <4>2, <4>3
      <3>2. Usable(es[i])
        BY <1>8, <2>1
      <3> QED BY <1>12, <3>1, <3>2
    <2> QED BY <2>1, <2>2, <2>3
  <1>15. ASSUME NEW x \in Target(f, n) PROVE x.t.line \in Wanted(f)
    <2>1. PICK k \in 1 .. Len(b) : x = ts[k] /\ \A l \in 1 .. Len(b) : k < l => ts[l].t.ident # ts[k].t.ident
      BY <1>2, <1>4, <1>15 DEF Target, Latest
    <2>2. \A l \in 1 .. Len(b) : k < l => b[l].ident # b[k].ident
      BY <1>8, <2>1
    <2>3. x.t = b[k]
      BY <1>8, <2>1
    <2> QED BY <1>14, <2>2, <2>3
  <1>16. ASSUME NEW i \in Wanted(f) PROVE \E x \in Target(f, n) : x.t.line = i
    <2>1. i \in 1 .. Len(es) /\ Usable(es[i])
      BY <1>12, <1>13
    <2>2. PICK k \in 1 .. Len(b) : b[k].line = i
      BY <1>10, <2>1
    <2>3. \A l \in 1 .. Len(b) : k < l => b[l].ident # b[k].ident
      BY <1>14, <2>2
    <2>4. \A l \in 1 .. Len(b) : k < l => ts[l].t.ident # ts[k].t.ident
      BY <1>8, <2>3
    <2>5. ts[k] \in Target(f, n)
      BY <1>2, <1>4, <2>4 DEF Target, Latest
    <2>6. ts[k].t.line = i
      BY <1>8, <2>2
    <2> QED BY <2>5, <2>6
  <1> QED BY <1>15, <1>16

\* The idents are in order, and each task is there once.
LEMMA InOrderFacts ==
  ASSUME NEW f \in Files, NEW n, NEW s \in InOrder(Target(f, n))
  PROVE  /\ s \in Seq(Jobs(n)) /\ ToSet(s) = Target(f, n)
         /\ \A i, j \in 1 .. Len(s) : i < j => Before(s[i].t.ident, s[j].t.ident)
         /\ \A i, j \in 1 .. Len(s) : i # j => s[i] # s[j]
  <1>1. PICK S : S = Target(f, n)
    OBVIOUS
  <1>2. S \in SUBSET Jobs(n) /\ IsFiniteSet(S)
    BY <1>1, TargetFacts
  <1>3. PICK c : c = Cardinality(S)
    OBVIOUS
  <1>4. c \in Nat
    BY <1>2, <1>3, FS_CardinalityType
  <1>5. /\ s \in [1 .. c -> S]
        /\ \A i, j \in 1 .. c : i < j => Before(s[i].t.ident, s[j].t.ident)
    BY <1>1, <1>3 DEF InOrder
  <1>6. s \in Seq(Jobs(n)) /\ Len(s) = c /\ DOMAIN s = 1 .. c
    BY <1>2, <1>4, <1>5
  <1>7. ASSUME NEW i \in 1 .. c PROVE s[i].t.ident \in ToSet(Alphabet) \X Int
    <2>1. s[i] \in Jobs(n)
      BY <1>2, <1>5
    <2>2. s[i].t \in CleanEntries
      BY <2>1 DEF Jobs, Scheduled
    <2> QED BY <2>2 DEF CleanEntries
  <1>8. ASSUME NEW i \in 1 .. c, NEW j \in 1 .. c, s[i] = s[j] PROVE i = j
    <2>1. ~Before(s[i].t.ident, s[i].t.ident)
      <3>1. PICK a \in ToSet(Alphabet), d \in Int : s[i].t.ident = <<a, d>>
        BY <1>7
      <3>2. Rank(a) \in Int
        BY RankFacts
      <3>3. ~Precedes(Written(d), Written(d))
        <4>1. PICK w : w = Written(d)
          OBVIOUS
        <4>2. ~Precedes(w, w)
          BY DEF Precedes
        <4> QED BY <4>1, <4>2
      <3> QED BY <3>1, <3>2, <3>3 DEF Before
    <2>2. ~(i < j) /\ ~(j < i)
      BY <1>5, <1>8, <2>1
    <2> QED BY <2>2
  <1>9. s \in Injection(1 .. c, S)
    BY <1>5, <1>8 DEF Injection, IsInjective
  <1>10. Cardinality(1 .. c) = c
    BY <1>4, FS_Interval
  <1>11. s \in Surjection(1 .. c, S)
    BY <1>2, <1>3, <1>9, <1>10, FS_Injection
  <1>12. ToSet(s) = S
    BY <1>5, <1>6, <1>11 DEF ToSet, Surjection
  <1> QED BY <1>1, <1>5, <1>6, <1>8, <1>12

(***************************************************************************)
(* The outputs.                                                            *)
(***************************************************************************)

\* Limits that retries, spool and rotation can work with.
Workable(o) ==
  /\ o.typ = "file" => o.maxSize >= 0
  /\ o.typ = "http" => o.maxSize > 0 /\ o.timeout > 0 /\ o.retryMax >= 0 /\ o.maxBackups >= 0

LEMMA RegisteredWorkable ==
  ASSUME NEW o \in OutputEntries
  PROVE  Workable(Registered(o))
  <1>1. PICK r : r = Registered(o)
    OBVIOUS
  <1>2. PICK timeout \in Int, retryMax \in Int, maxSize \in Int, maxBackups \in Int :
          /\ o.timeout = timeout /\ o.retryMax = retryMax
          /\ o.maxSize = maxSize /\ o.maxBackups = maxBackups
    BY DEF OutputEntries
  <1>3. o = [typ |-> o.typ, target |-> o.target, malformed |-> o.malformed, timeout |-> timeout,
             retryMax |-> retryMax, maxSize |-> maxSize, maxBackups |-> maxBackups]
    BY <1>2 DEF OutputEntries
  <1>4. CASE o.typ = "http"
    <2>1. r = CleanSizes(o)
      BY <1>1, <1>4 DEF Registered
    <2>2. r = [o EXCEPT !.timeout = IfNotPositive(timeout, 5), !.retryMax = IF retryMax < 0 THEN 0 ELSE retryMax,
                        !.maxSize = IfNotPositive(maxSize \div 1000, 50),
                        !.maxBackups = IF maxBackups < 0 THEN 0 ELSE maxBackups]
      BY <1>2, <2>1 DEF CleanSizes
    <2>3. /\ r.timeout = IfNotPositive(timeout, 5) /\ r.retryMax = IF retryMax < 0 THEN 0 ELSE retryMax
          /\ r.maxSize = IfNotPositive(maxSize \div 1000, 50)
          /\ r.maxBackups = IF maxBackups < 0 THEN 0 ELSE maxBackups
      BY <1>3, <2>2
    <2>4. PICK mb \in Int : mb = maxSize \div 1000
      BY <1>2
    <2>5. r.timeout > 0 /\ r.retryMax >= 0 /\ r.maxSize > 0 /\ r.maxBackups >= 0
      BY <2>3, <2>4 DEF IfNotPositive
    <2>6. r.typ # "file"
      BY <1>3, <1>4, <2>2
    <2> QED BY <1>1, <2>5, <2>6 DEF Workable
  <1>5. CASE o.typ = "file"
    <2>1. r = FileSize(o)
      BY <1>1, <1>5 DEF Registered
    <2>2. r = [o EXCEPT !.maxSize = IF maxSize <= 0 THEN 100 ELSE maxSize \div 1000]
      BY <1>2, <2>1 DEF FileSize
    <2>3. r.typ = "file" /\ r.maxSize = IF maxSize <= 0 THEN 100 ELSE maxSize \div 1000
      BY <1>3, <1>5, <2>2
    <2>4. r.maxSize >= 0
      BY <2>3
    <2> QED BY <1>1, <2>3, <2>4 DEF Workable
  <1>6. CASE o.typ # "http" /\ o.typ # "file"
    BY <1>6 DEF Registered, Workable
  <1> QED BY <1>4, <1>5, <1>6

LEMMA WiredWorkable ==
  ASSUME NEW outs \in Seq(OutputEntries)
  PROVE  \A o \in ToSet(wireOutputs(outs).registered) : Workable(o)
  <1>1. PICK built : built = Among(outs, {o \in ToSet(outs) : ~Refused(o)})
    OBVIOUS
  <1>2. built \in Seq(OutputEntries)
    BY <1>1, AmongPicks
  <1>3. PICK bad : bad = {i \in DOMAIN built : InitFails(built[i])}
    OBVIOUS
  <1>4. PICK ok : ok = IF bad = {} THEN built ELSE SubSeq(built, 1, Min(bad) - 1)
    OBVIOUS
  <1>5. ok \in Seq(OutputEntries)
    <2>1. CASE bad = {}
      BY <1>2, <1>4, <2>1
    <2>2. CASE bad # {}
      <3>1. DOMAIN built = 1 .. Len(built) /\ Len(built) \in Nat
        BY <1>2
      <3>2. bad \in SUBSET Nat
        BY <1>3, <3>1
      <3>3. Min(bad) \in bad
        BY <2>2, <3>2, MinIs
      <3>4. PICK m \in 1 .. Len(built) : m = Min(bad)
        BY <1>3, <3>1, <3>3
      <3>5. ok = SubSeq(built, 1, m - 1)
        BY <1>4, <2>2, <3>4
      <3>6. \A i \in 1 .. (m - 1) : i \in 1 .. Len(built)
        OBVIOUS
      <3> QED BY <1>2, <3>1, <3>5, <3>6
    <2> QED BY <2>1, <2>2
  <1>6. PICK r : r = [i \in DOMAIN ok |-> Registered(ok[i])]
    OBVIOUS
  <1>7. wireOutputs(outs).registered = r
    BY <1>1, <1>3, <1>4, <1>6 DEF wireOutputs
  <1>8. \A i \in DOMAIN ok : ok[i] \in OutputEntries
    BY <1>5
  <1>9. \A i \in DOMAIN ok : Workable(Registered(ok[i]))
    BY <1>8, RegisteredWorkable
  <1>10. ToSet(r) = {r[i] : i \in DOMAIN ok}
    BY <1>6 DEF ToSet
  <1>11. \A i \in DOMAIN ok : r[i] = Registered(ok[i])
    BY <1>6
  <1> QED BY <1>7, <1>9, <1>10, <1>11

\* q is s without its first j elements.
LEMMA Rest ==
  ASSUME NEW X, NEW s \in Seq(X), NEW j \in 0 .. Len(s), NEW q,
         q = [i \in 1 .. (Len(s) - j) |-> s[j + i]]
  PROVE  /\ q = <<>> <=> j = Len(s)
         /\ j < Len(s) =>
              /\ j + 1 \in 1 .. Len(s) /\ Head(q) = s[j + 1]
              /\ Tail(q) = [i \in 1 .. (Len(s) - (j + 1)) |-> s[(j + 1) + i]]
  <1>1. Len(s) \in Nat /\ j \in Nat
    OBVIOUS
  <1>2. PICK m : m = Len(s) - j /\ m \in Nat
    BY <1>1
  <1>a. \A i \in 1 .. m : q[i] = s[j + i] /\ q[i] \in X
    BY <1>1, <1>2
  <1>b. q \in Seq(X) /\ Len(q) = m
    BY <1>2, <1>a
  <1>3. q = <<>> <=> j = Len(s)
    <2>1. ASSUME q = <<>> PROVE m = 0
      BY <1>b, <2>1
    <2>2. ASSUME m = 0 PROVE q = <<>>
      BY <1>b, <2>2
    <2> QED BY <1>1, <1>2, <2>1, <2>2
  <1>4. ASSUME j < Len(s)
        PROVE  /\ j + 1 \in 1 .. Len(s) /\ Head(q) = s[j + 1]
               /\ Tail(q) = [i \in 1 .. (Len(s) - (j + 1)) |-> s[(j + 1) + i]]
    <2>1. j + 1 \in 1 .. Len(s) /\ 1 \in 1 .. m /\ q # <<>>
      BY <1>1, <1>2, <1>3, <1>4
    <2>2. Head(q) = s[j + 1]
      BY <1>a, <1>b, <2>1
    <2>3. PICK r : r = Tail(q)
      OBVIOUS
    <2>4. r \in Seq(X) /\ Len(r) = m - 1
      BY <1>b, <2>1, <2>3
    <2>5. \A i \in 1 .. (m - 1) : r[i] = q[i + 1] /\ i + 1 \in 1 .. m
      BY <1>2, <1>b, <2>1, <2>3
    <2>6. \A i \in 1 .. (m - 1) : r[i] = s[(j + 1) + i]
      <3> SUFFICES ASSUME NEW i \in 1 .. (m - 1) PROVE r[i] = s[(j + 1) + i]
        OBVIOUS
      <3>1. r[i] = s[j + (i + 1)]
        BY <1>a, <2>5
      <3>2. j + (i + 1) = (j + 1) + i
        BY <1>1, <1>2
      <3> QED BY <3>1, <3>2
    <2>7. r = [i \in 1 .. (m - 1) |-> r[i]]
      BY <2>4
    <2>8. m - 1 = Len(s) - (j + 1)
      BY <1>1, <1>2
    <2> QED BY <2>1, <2>2, <2>3, <2>6, <2>7, <2>8
  <1> QED BY <1>3, <1>4

(***************************************************************************)
(* The inductive invariant.                                                *)
(***************************************************************************)

Scalars ==
  /\ cpc \in {"boot", "exit", "add", "started", "stopped", "waited"}
  /\ rpc \in {"none", "snapshot", "check", "collect", "send", "done"}
  /\ status \in {"ready", "running", "finished"}
  /\ signalled \in BOOLEAN /\ cancelled \in BOOLEAN
  /\ ch \in 0 .. EventCap /\ starts \in 0 .. MaxStarts
  /\ \A o \in ToSet(outputs) : Workable(o)

\* Where the caller is says whether there is a run, and what is in the tree map.
CallerInv ==
  /\ files \in Seq(Files)
  /\ cpc \in {"boot", "exit", "add"} <=> rpc = "none"
  /\ cpc = "waited" => rpc = "done"
  /\ rpc = "done" => status = "finished"
  /\ IF rpc = "none" THEN since = 0 ELSE since \in 1 .. Len(files)

\* The first k tasks of the file are added; the others are still to be.
Adding(ts, k) == toAdd = [i \in 1 .. (Len(ts) - k) |-> ts[k + i]] /\ tasks = Latest(ts, k)

TreeInv ==
  /\ cpc \in {"boot", "exit"} => tasks = {}
  /\ cpc = "boot" => files = <<>>
  /\ cpc = "add" =>
       Len(files) = 1 /\ \E k \in 0 .. Len(Made(files[1], 1)) : Adding(Made(files[1], 1), k)
  /\ cpc \in {"started", "stopped", "waited"} => tasks = Target(files[Len(files)], Len(files))

\* s is a copy of the tasks of the n-th file.
CopyOf(s, n) == n \in since .. Len(files) /\ s \in InOrder(Target(files[n], n))

\* Of the tasks in s, k are begun and j of these are over.
Progress(s, j, k) ==
  /\ ran = [i \in 1 .. k |-> s[i]]
  /\ todo = IF rpc = "done" THEN <<>> ELSE [i \in 1 .. (Len(s) - j) |-> s[j + i]]
  /\ sent \cap silent = {} /\ sent \cup silent \subseteq {s[i] : i \in 1 .. j}
  /\ ~Done => \A i \in 1 .. j : s[i] \in sent \cup silent

RunInv ==
  /\ rpc \in {"none", "snapshot"} => ran = <<>> /\ sent = {} /\ silent = {}
  /\ rpc = "check" => \E n, s : CopyOf(s, n) /\ \E j \in 0 .. Len(s) : Progress(s, j, j)
  /\ rpc \in {"collect", "send"} =>
       \E n, s : CopyOf(s, n) /\ \E j \in 0 .. (Len(s) - 1) : Progress(s, j, j + 1)
  /\ rpc = "done" =>
       \E n, s : CopyOf(s, n) /\ \E j \in 0 .. Len(s) : Progress(s, j, j) /\ (~Done => j = Len(s))

\* The event was made from the input when the context was, or was not yet, cancelled.
EventInv ==
  /\ rpc \in {"collect", "send"} => input \in Inputs(Head(todo).t)
  /\ rpc = "send" => \E d \in BOOLEAN : (d => Done) /\ event \in Events(Head(todo).t, input, d)

IInv == Scalars /\ CallerInv /\ TreeInv /\ RunInv /\ EventInv

USE DEF vars, callerVars, ctxVars, runVars, histVars, Done

LEMMA InitInv == Init => IInv
  <1> SUFFICES ASSUME Init PROVE IInv
    OBVIOUS
  <1>1. Scalars
    <2>1. ToSet(<<>>) = {}
      BY DEF ToSet
    <2>2. 0 \in 0 .. EventCap /\ 0 \in 0 .. MaxStarts
      BY BoundsAssumption
    <2> QED BY <2>1, <2>2 DEF Init, Scalars
  <1>2. CallerInv
    BY DEF Init, CallerInv
  <1>3. TreeInv /\ RunInv /\ EventInv
    BY DEF Init, TreeInv, RunInv, EventInv
  <1> QED BY <1>1, <1>2, <1>3 DEF IInv

LEMMA ScalarsNext == IInv /\ [Next]_vars => Scalars'
  <1> SUFFICES ASSUME Scalars, [Next]_vars PROVE Scalars'
    BY DEF IInv
  <1>1. ASSUME NEW f \in Files, Boot(f) PROVE Scalars'
    <2>1. outputs' = wireOutputs(f.outputs).registered
      BY <1>1 DEF Boot
    <2>2. f.outputs \in Seq(OutputEntries)
      BY FilesAssumption
    <2>3. \A o \in ToSet(outputs') : Workable(o)
      BY <2>1, <2>2, WiredWorkable
    <2>4. cpc' \in {"exit", "add"}
      BY <1>1 DEF Boot
    <2> QED BY <1>1, <2>3, <2>4 DEF Boot, Scalars
  <1>2. ASSUME NEW f \in Files, Reload(f) PROVE Scalars'
    BY <1>2 DEF Reload, Scalars
  <1>3. CASE LoadFail \/ Add
    BY <1>3 DEF Scalars, LoadFail, Add
  <1>8. CASE Signal \/ Stop \/ Wait
    BY <1>8 DEF Scalars, Signal, Stop, Wait
  <1>4. CASE Start
    <2>1. starts' \in 0 .. MaxStarts
      BY <1>4, BoundsAssumption DEF Scalars, Start
    <2> QED BY <1>4, <2>1 DEF Scalars, Start
  <1>5. CASE Snapshot \/ Finish \/ Begin \/ Panic \/ Collect \/ SendCancelled
    BY <1>5 DEF Scalars, Snapshot, Finish, Begin, Panic, Collect, SendCancelled, Silently, NextTask
  <1>6. CASE Send \/ Engine
    BY <1>6, BoundsAssumption DEF Scalars, Send, Engine, NextTask
  <1>7. CASE UNCHANGED vars
    BY <1>7 DEF Scalars
  <1> QED BY <1>1, <1>2, <1>3, <1>4, <1>5, <1>6, <1>7, <1>8 DEF Next

LEMMA CallerNext == IInv /\ [Next]_vars => CallerInv'
  <1> SUFFICES ASSUME Scalars, CallerInv, TreeInv, [Next]_vars PROVE CallerInv'
    BY DEF IInv
  <1>1. ASSUME NEW f \in Files, Boot(f) PROVE CallerInv'
    <2>1. files' = <<f>> /\ files' \in Seq(Files)
      BY <1>1 DEF Boot
    <2>2. cpc' \in {"exit", "add"} /\ cpc = "boot" /\ rpc' = rpc /\ status' = status /\ since' = since
      BY <1>1 DEF Boot
    <2> QED BY <2>1, <2>2 DEF CallerInv
  <1>2. ASSUME NEW f \in Files, Reload(f) PROVE CallerInv'
    <2>1. files' \in Seq(Files) /\ Len(files') = Len(files) + 1 /\ Len(files) \in Nat
      BY <1>2 DEF Reload, CallerInv
    <2>2. since \in 1 .. Len(files) => since \in 1 .. Len(files')
      BY <2>1
    <2> QED BY <1>2, <2>1, <2>2 DEF Reload, CallerInv
  <1>3. CASE LoadFail \/ Add \/ Signal \/ Stop \/ Wait
    BY <1>3 DEF CallerInv, LoadFail, Add, Signal, Stop, Wait
  <1>4. CASE Start
    <2>1. Len(files) \in Nat /\ Len(files) >= 1
      <3>1. CASE cpc = "add"
        BY <3>1 DEF TreeInv
      <3>2. CASE cpc = "waited"
        BY <3>2 DEF CallerInv
      <3> QED BY <1>4, <3>1, <3>2 DEF Start
    <2> QED BY <1>4, <2>1 DEF CallerInv, Start
  <1>5. CASE Snapshot \/ Finish \/ Begin \/ Panic \/ Collect \/ Send \/ SendCancelled
    BY <1>5 DEF CallerInv, Snapshot, Finish, Begin, Panic, Collect, Send, SendCancelled, Silently, NextTask
  <1>6. CASE Engine \/ UNCHANGED vars
    BY <1>6 DEF CallerInv, Engine
  <1> QED BY <1>1, <1>2, <1>3, <1>4, <1>5, <1>6 DEF Next

LEMMA TreeNext == IInv /\ [Next]_vars => TreeInv'
  <1> SUFFICES ASSUME Scalars, CallerInv, TreeInv, [Next]_vars PROVE TreeInv'
    BY DEF IInv
  <1>1. ASSUME NEW f \in Files, Boot(f) PROVE TreeInv'
    <2>1. PICK ts : ts = Made(f, 1)
      OBVIOUS
    <2>2. ts \in Seq(Jobs(1)) /\ Len(ts) \in Nat
      BY <2>1, MadeFacts
    <2>3. files = <<>> /\ tasks = {} /\ tasks' = tasks /\ files' = <<f>> /\ cpc' \in {"exit", "add"}
      BY <1>1 DEF Boot, TreeInv
    <2>4. toAdd' = ts
      BY <1>1, <2>1, <2>3 DEF Boot, Built, Made
    <2>5. toAdd' = [i \in 1 .. (Len(ts) - 0) |-> ts[0 + i]]
      BY <2>2, <2>4
    <2>6. Latest(ts, 0) = {}
      BY DEF Latest
    <2>7. 0 \in 0 .. Len(ts) /\ Adding(ts, 0)'
      BY <2>2, <2>3, <2>5, <2>6 DEF Adding
    <2>8. files'[1] = f /\ Len(files') = 1
      BY <2>3
    <2> QED BY <2>1, <2>3, <2>7, <2>8 DEF TreeInv
  <1>2. ASSUME NEW f \in Files, Reload(f) PROVE TreeInv'
    <2>1. PICK n : n = Len(files) + 1
      OBVIOUS
    <2>2. PICK ts : ts = Made(f, n)
      OBVIOUS
    <2>3. Built(f) = ts /\ ts \in Seq(Jobs(n))
      BY <2>1, <2>2, MadeFacts DEF Built, Made
    <2>4. tasks' = Latest(ts, Len(ts))
      BY <1>2, <2>3, LatestAll DEF Reload
    <2>5. files \in Seq(Files) /\ files' = Append(files, f)
      BY <1>2 DEF Reload, CallerInv
    <2>6. Len(files') = n /\ files'[n] = f
      BY <2>1, <2>5
    <2>7. tasks' = Target(files'[Len(files')], Len(files'))
      BY <2>2, <2>4, <2>6 DEF Target
    <2>8. cpc' \in {"started", "stopped", "waited"}
      BY <1>2 DEF Reload
    <2> QED BY <2>7, <2>8 DEF TreeInv
  <1>3. CASE LoadFail
    BY <1>3 DEF LoadFail, TreeInv
  <1>4. CASE Add
    <2>1. PICK ts : ts = Made(files[1], 1)
      OBVIOUS
    <2>2. cpc = "add" /\ Len(files) = 1 /\ files[1] \in Files
      BY <1>4 DEF Add, TreeInv, CallerInv
    <2>3. ts \in Seq(Jobs(1)) /\ Len(ts) \in Nat
      BY <2>1, <2>2, MadeFacts
    <2>4. PICK k \in 0 .. Len(ts) : Adding(ts, k)
      BY <2>1, <2>2 DEF TreeInv
    <2>5. toAdd = [i \in 1 .. (Len(ts) - k) |-> ts[k + i]] /\ toAdd # <<>>
      BY <1>4, <2>4 DEF Add, Adding
    <2>7. k < Len(ts) /\ k + 1 \in 0 .. Len(ts) /\ k \in Nat
      <3>1. k # Len(ts)
        BY <2>3, <2>5, Rest
      <3> QED BY <2>3, <3>1
    <2>8. /\ Head(toAdd) = ts[k + 1]
          /\ Tail(toAdd) = [i \in 1 .. (Len(ts) - (k + 1)) |-> ts[(k + 1) + i]]
      BY <2>3, <2>5, <2>7, Rest
    <2>10. tasks' = Latest(ts, k + 1)
      BY <1>4, <2>4, <2>7, <2>8, LatestStep DEF Add, Adding
    <2>11. Adding(ts, k + 1)'
      BY <1>4, <2>8, <2>10 DEF Add, Adding
    <2> QED BY <1>4, <2>1, <2>2, <2>7, <2>11 DEF Add, TreeInv
  <1>5. CASE Start
    <2>1. CASE cpc = "waited"
      BY <1>5, <2>1 DEF Start, TreeInv
    <2>2. CASE cpc = "add" /\ toAdd = <<>>
      <3>1. PICK ts : ts = Made(files[1], 1)
        OBVIOUS
      <3>2. Len(files) = 1 /\ files[1] \in Files
        BY <2>2 DEF TreeInv, CallerInv
      <3>3. ts \in Seq(Jobs(1)) /\ Len(ts) \in Nat
        BY <3>1, <3>2, MadeFacts
      <3>4. PICK k \in 0 .. Len(ts) : Adding(ts, k)
        BY <2>2, <3>1, <3>2 DEF TreeInv
      <3>5. toAdd = [i \in 1 .. (Len(ts) - k) |-> ts[k + i]] /\ tasks = Latest(ts, k)
        BY <3>4 DEF Adding
      <3>7. k = Len(ts)
        BY <2>2, <3>3, <3>5, Rest
      <3>8. tasks = Target(files[Len(files)], Len(files))
        BY <3>1, <3>2, <3>5, <3>7 DEF Target
      <3> QED BY <1>5, <3>8 DEF Start, TreeInv
    <2> QED BY <1>5, <2>1, <2>2 DEF Start
  <1>6. CASE Stop \/ Wait
    BY <1>6 DEF Stop, Wait, TreeInv
  <1>7. CASE UNCHANGED <<cpc, files, tasks, toAdd>>
    BY <1>7 DEF TreeInv, Adding
  <1>8. CASE Signal \/ Snapshot \/ Finish \/ Begin \/ Panic \/ Collect \/ Send \/ SendCancelled \/ Engine
    BY <1>7, <1>8 DEF Signal, Snapshot, Finish, Begin, Panic, Collect, Send, SendCancelled, Engine
  <1> QED BY <1>1, <1>2, <1>3, <1>4, <1>5, <1>6, <1>7, <1>8 DEF Next

\* A copy is a sequence of tasks, each of which is there once.
LEMMA CopyFacts ==
  ASSUME CallerInv, NEW n, NEW s, CopyOf(s, n), rpc # "none"
  PROVE  /\ n \in 1 .. Len(files) /\ files[n] \in Files
         /\ s \in Seq(Jobs(n)) /\ Len(s) \in Nat /\ ToSet(s) = Target(files[n], n)
         /\ \A i, j \in 1 .. Len(s) : i < j => Before(s[i].t.ident, s[j].t.ident)
         /\ \A i, j \in 1 .. Len(s) : i # j => s[i] # s[j]
  <1>1. n \in since .. Len(files) /\ since \in 1 .. Len(files) /\ files \in Seq(Files)
    BY DEF CallerInv, CopyOf
  <1>2. n \in 1 .. Len(files) /\ files[n] \in Files
    BY <1>1
  <1>3. s \in InOrder(Target(files[n], n))
    BY DEF CopyOf
  <1>4. s \in Seq(Jobs(n))
    BY <1>2, <1>3, InOrderFacts
  <1> QED BY <1>2, <1>3, <1>4, InOrderFacts

\* A task is over: its event was sent, it had none, or the context is cancelled.
LEMMA Over1 ==
  ASSUME CallerInv, NEW n, NEW s, CopyOf(s, n), rpc # "none", rpc # "done", rpc' # "done",
         NEW j \in 0 .. (Len(s) - 1), Progress(s, j, j + 1),
         todo' = Tail(todo), UNCHANGED <<ran, signalled, cancelled>>,
         \/ sent' = sent \cup {Head(todo)} /\ silent' = silent
         \/ silent' = silent \cup {Head(todo)} /\ sent' = sent
         \/ Done /\ sent' = sent /\ silent' = silent
  PROVE  j + 1 \in 0 .. Len(s) /\ Progress(s, j + 1, j + 1)'
  <1>1. /\ s \in Seq(Jobs(n)) /\ Len(s) \in Nat
        /\ \A i, k \in 1 .. Len(s) : i # k => s[i] # s[k]
    BY CopyFacts
  <1>2. j \in Nat /\ j \in 0 .. Len(s) /\ j < Len(s) /\ j + 1 \in 0 .. Len(s) /\ j + 1 \in 1 .. Len(s)
    BY <1>1
  <1>3. todo = [i \in 1 .. (Len(s) - j) |-> s[j + i]]
    BY DEF Progress
  <1>4. Head(todo) = s[j + 1] /\ todo' = [i \in 1 .. (Len(s) - (j + 1)) |-> s[(j + 1) + i]]
    BY <1>1, <1>2, <1>3, Rest
  <1>5. PICK D : D = {s[i] : i \in 1 .. j}
    OBVIOUS
  <1>6. {s[i] : i \in 1 .. j + 1} = D \cup {s[j + 1]}
    <2>1. \A i \in 1 .. j + 1 : i \in 1 .. j \/ i = j + 1
      BY <1>2
    <2>2. \A i \in 1 .. j : i \in 1 .. j + 1
      BY <1>2
    <2>3. j + 1 \in 1 .. j + 1
      BY <1>2
    <2> QED BY <1>5, <2>1, <2>2, <2>3
  <1>7. s[j + 1] \notin D
    <2>1. \A i \in 1 .. j : i \in 1 .. Len(s) /\ i # j + 1
      BY <1>1, <1>2
    <2> QED BY <1>1, <1>2, <1>5, <2>1
  <1>8. sent \cap silent = {} /\ sent \cup silent \subseteq D
    BY <1>5 DEF Progress
  <1>9. sent' \cap silent' = {} /\ sent' \cup silent' \subseteq D \cup {s[j + 1]}
    BY <1>4, <1>7, <1>8
  <1>10. ASSUME ~Done, NEW i \in 1 .. j + 1 PROVE s[i] \in sent' \cup silent'
    <2>1. CASE i = j + 1
      BY <1>4, <1>10, <2>1
    <2>2. CASE i \in 1 .. j
      BY <1>10, <2>2 DEF Progress
    <2> QED BY <1>2, <2>1, <2>2
  <1> QED BY <1>2, <1>4, <1>6, <1>9, <1>10 DEF Progress

LEMMA RunNext == IInv /\ [Next]_vars => RunInv'
  <1> SUFFICES ASSUME Scalars, CallerInv, TreeInv, RunInv, [Next]_vars PROVE RunInv'
    BY DEF IInv
  <1>1. ASSUME NEW f \in Files, Boot(f) PROVE RunInv'
    BY <1>1 DEF Boot, CallerInv, RunInv
  <1>2. CASE LoadFail \/ Add
    BY <1>2 DEF LoadFail, Add, CallerInv, RunInv
  <1>3. CASE Start
    BY <1>3 DEF Start, RunInv
  <1>4. ASSUME /\ UNCHANGED <<rpc, ran, todo, sent, silent, since>>
               /\ files' = files \/ \E f \in Files : files' = Append(files, f)
               /\ Done => Done'
        PROVE  RunInv'
    <2>1. ASSUME NEW n, NEW s, CopyOf(s, n), rpc # "none" PROVE CopyOf(s, n)'
      <3>1. files \in Seq(Files) /\ n \in since .. Len(files) /\ since \in 1 .. Len(files)
        BY <2>1 DEF CallerInv, CopyOf
      <3>2. files'[n] = files[n] /\ n \in since .. Len(files')
        BY <1>4, <3>1
      <3> QED BY <1>4, <2>1, <3>2 DEF CopyOf
    <2>2. ASSUME NEW s, NEW j, NEW k, Progress(s, j, k) PROVE Progress(s, j, k)'
      BY <1>4, <2>2 DEF Progress
    <2>3. CASE rpc \in {"none", "snapshot"}
      BY <1>4, <2>3 DEF RunInv
    <2>4. CASE rpc = "check"
      BY <1>4, <2>1, <2>2, <2>4 DEF RunInv
    <2>5. CASE rpc \in {"collect", "send"}
      BY <1>4, <2>1, <2>2, <2>5 DEF RunInv
    <2>6. CASE rpc = "done"
      <3>1. PICK n, s : CopyOf(s, n) /\ \E j \in 0 .. Len(s) : Progress(s, j, j) /\ (~Done => j = Len(s))
        BY <2>6 DEF RunInv
      <3>2. PICK j \in 0 .. Len(s) : Progress(s, j, j) /\ (~Done => j = Len(s))
        BY <3>1
      <3>3. CopyOf(s, n)' /\ Progress(s, j, j)' /\ (~Done' => j = Len(s))
        BY <1>4, <2>1, <2>2, <2>6, <3>1, <3>2
      <3> QED BY <1>4, <2>6, <3>3 DEF RunInv
    <2> QED BY <2>3, <2>4, <2>5, <2>6 DEF Scalars
  <1>5. ASSUME NEW f \in Files, Reload(f) PROVE RunInv'
    BY <1>4, <1>5 DEF Reload
  <1>6. CASE Signal \/ Stop \/ Wait \/ Engine
    BY <1>4, <1>6 DEF Signal, Stop, Wait, Engine
  <1>7. CASE Snapshot
    <2>1. PICK s \in InOrder(tasks) : todo' = s
      BY <1>7 DEF Snapshot
    <2>2. PICK n : n = Len(files)
      OBVIOUS
    <2>3. /\ rpc = "snapshot" /\ rpc' = "check" /\ ran = <<>> /\ sent = {} /\ silent = {}
          /\ UNCHANGED <<files, since, ran, sent, silent>>
      BY <1>7 DEF Snapshot, RunInv
    <2>4. cpc \in {"started", "stopped", "waited"} /\ since \in 1 .. n /\ files \in Seq(Files)
      BY <2>2, <2>3 DEF Scalars, CallerInv
    <2>5. s \in InOrder(Target(files[n], n)) /\ files[n] \in Files /\ n \in since .. Len(files)
      BY <2>1, <2>2, <2>4 DEF TreeInv
    <2>6. CopyOf(s, n)'
      BY <2>3, <2>5 DEF CopyOf
    <2>7. s \in Seq(Jobs(n)) /\ Len(s) \in Nat
      BY <2>5, InOrderFacts
    <2>8. s = [i \in 1 .. (Len(s) - 0) |-> s[0 + i]]
      BY <2>7
    <2>9. 1 .. 0 = {} /\ ran' = [i \in 1 .. 0 |-> s[i]]
      BY <2>3
    <2>10. Progress(s, 0, 0)'
      BY <2>1, <2>3, <2>8, <2>9 DEF Progress
    <2>11. 0 \in 0 .. Len(s)
      BY <2>7
    <2> QED BY <2>3, <2>6, <2>10, <2>11 DEF RunInv
  <1>8. CASE Finish
    <2>1. PICK n, s : CopyOf(s, n) /\ \E j \in 0 .. Len(s) : Progress(s, j, j)
      BY <1>8 DEF Finish, RunInv
    <2>2. PICK j \in 0 .. Len(s) : Progress(s, j, j)
      BY <2>1
    <2>3. /\ rpc = "check" /\ rpc' = "done" /\ todo' = <<>> /\ (todo = <<>> \/ Done)
          /\ UNCHANGED <<files, since, ran, sent, silent, signalled, cancelled>>
      BY <1>8 DEF Finish
    <2>4. s \in Seq(Jobs(n))
      BY <2>1, <2>3, CopyFacts
    <2>5. ~Done => j = Len(s)
      <3>1. todo = [i \in 1 .. (Len(s) - j) |-> s[j + i]]
        BY <2>2, <2>3 DEF Progress
      <3> QED BY <2>3, <2>4, <3>1, Rest
    <2>6. CopyOf(s, n)' /\ Progress(s, j, j)'
      BY <2>1, <2>2, <2>3 DEF CopyOf, Progress
    <2> QED BY <2>3, <2>5, <2>6 DEF RunInv
  <1>9. CASE Begin
    <2>1. PICK n, s : CopyOf(s, n) /\ \E j \in 0 .. Len(s) : Progress(s, j, j)
      BY <1>9 DEF Begin, RunInv
    <2>2. PICK j \in 0 .. Len(s) : Progress(s, j, j)
      BY <2>1
    <2>3. /\ rpc = "check" /\ rpc' = "collect" /\ todo # <<>> /\ ran' = Append(ran, Head(todo))
          /\ UNCHANGED <<files, since, todo, sent, silent, signalled, cancelled>>
      BY <1>9 DEF Begin
    <2>4. s \in Seq(Jobs(n)) /\ Len(s) \in Nat
      BY <2>1, <2>3, CopyFacts
    <2>5. todo = [i \in 1 .. (Len(s) - j) |-> s[j + i]] /\ ran = [i \in 1 .. j |-> s[i]]
      BY <2>2, <2>3 DEF Progress
    <2>6. j < Len(s) /\ j \in 0 .. (Len(s) - 1)
      BY <2>3, <2>4, <2>5, Rest
    <2>7. Head(todo) = s[j + 1] /\ j + 1 \in 1 .. Len(s)
      BY <2>4, <2>5, <2>6, Rest
    <2>8. ran' = [i \in 1 .. j + 1 |-> s[i]]
      <3>1. ran \in Seq(Jobs(n)) /\ Len(ran) = j
        BY <2>4, <2>5, <2>6
      <3>2. ran' \in Seq(Jobs(n)) /\ Len(ran') = j + 1
        BY <2>3, <2>4, <2>7, <3>1
      <3>3. \A i \in 1 .. j + 1 : ran'[i] = s[i]
        BY <2>3, <2>5, <2>7, <3>1
      <3>4. ran' = [i \in 1 .. Len(ran') |-> ran'[i]]
        BY <3>2
      <3> QED BY <3>2, <3>3, <3>4
    <2>9. CopyOf(s, n)' /\ Progress(s, j, j + 1)'
      BY <2>1, <2>2, <2>3, <2>5, <2>8 DEF CopyOf, Progress
    <2> QED BY <2>3, <2>6, <2>9 DEF RunInv
  <1>10. ASSUME rpc \in {"collect", "send"}, rpc' = "check", todo' = Tail(todo),
                UNCHANGED <<files, since, ran, signalled, cancelled>>,
                \/ sent' = sent \cup {Head(todo)} /\ silent' = silent
                \/ silent' = silent \cup {Head(todo)} /\ sent' = sent
                \/ Done /\ sent' = sent /\ silent' = silent
         PROVE  RunInv'
    <2>1. PICK n, s : CopyOf(s, n) /\ \E j \in 0 .. (Len(s) - 1) : Progress(s, j, j + 1)
      BY <1>10 DEF RunInv
    <2>2. PICK j \in 0 .. (Len(s) - 1) : Progress(s, j, j + 1)
      BY <2>1
    <2>3. j + 1 \in 0 .. Len(s) /\ Progress(s, j + 1, j + 1)'
      BY <1>10, <2>1, <2>2, Over1
    <2>4. CopyOf(s, n)'
      BY <1>10, <2>1 DEF CopyOf
    <2> QED BY <1>10, <2>3, <2>4 DEF RunInv
  <1>11. CASE Panic
    BY <1>10, <1>11 DEF Panic, Silently, NextTask
  <1>12. CASE Collect
    <2>1. CASE Silently
      BY <1>10, <1>12, <2>1 DEF Collect, Silently, NextTask
    <2>2. CASE rpc' = "send" /\ UNCHANGED <<todo, sent, silent>>
      <3>1. PICK n, s : CopyOf(s, n) /\ \E j \in 0 .. (Len(s) - 1) : Progress(s, j, j + 1)
        BY <1>12 DEF Collect, RunInv
      <3>2. CopyOf(s, n)'
        BY <1>12, <3>1 DEF Collect, CopyOf
      <3>3. \A j : Progress(s, j, j + 1) => Progress(s, j, j + 1)'
        BY <1>12, <2>2 DEF Collect, Progress
      <3> QED BY <2>2, <3>1, <3>2, <3>3 DEF RunInv
    <2> QED BY <1>12, <2>1, <2>2 DEF Collect
  <1>13. CASE Send
    BY <1>10, <1>13 DEF Send, NextTask
  <1>14. CASE SendCancelled
    BY <1>10, <1>14 DEF SendCancelled, NextTask
  <1>15. CASE UNCHANGED vars
    BY <1>4, <1>15
  <1> QED BY <1>1, <1>2, <1>3, <1>5, <1>6, <1>7, <1>8, <1>9, <1>11, <1>12, <1>13, <1>14, <1>15 DEF Next

LEMMA EventNext == IInv /\ [Next]_vars => EventInv'
  <1> SUFFICES ASSUME Scalars, CallerInv, RunInv, EventInv, [Next]_vars PROVE EventInv'
    BY DEF IInv
  <1>1. CASE rpc' \notin {"collect", "send"}
    BY <1>1 DEF EventInv
  <1>2. ASSUME UNCHANGED <<rpc, todo, input, event>>, Done => Done' PROVE EventInv'
    BY <1>2 DEF EventInv
  <1>3. ASSUME NEW f \in Files, Boot(f) \/ Reload(f) PROVE EventInv'
    BY <1>2, <1>3 DEF Boot, Reload
  <1>4. CASE LoadFail \/ Add \/ Signal \/ Stop \/ Wait \/ Engine \/ UNCHANGED vars
    BY <1>2, <1>4 DEF LoadFail, Add, Signal, Stop, Wait, Engine
  <1>5. CASE Start \/ Snapshot \/ Finish \/ Panic \/ Send \/ SendCancelled
    BY <1>1, <1>5 DEF Start, Snapshot, Finish, Panic, Send, SendCancelled, Silently, NextTask
  <1>6. CASE Begin
    BY <1>6 DEF Begin, EventInv
  <1>7. CASE Collect
    <2>1. CASE rpc' = "check"
      BY <1>1, <2>1
    <2>2. CASE rpc' = "send" /\ event' \in Events(Head(todo).t, input, Done) /\ UNCHANGED <<todo, input>>
      <3>1. Done' = Done /\ Done \in BOOLEAN /\ rpc = "collect"
        BY <1>7 DEF Collect, Scalars
      <3>2. event' \in Events(Head(todo').t, input', Done)
        BY <2>2
      <3>3. input' \in Inputs(Head(todo').t)
        BY <2>2, <3>1 DEF EventInv
      <3> QED BY <2>2, <3>1, <3>2, <3>3 DEF EventInv
    <2> QED BY <1>7, <2>1, <2>2 DEF Collect, Silently, NextTask
  <1> QED BY <1>2, <1>3, <1>4, <1>5, <1>6, <1>7 DEF Next

LEMMA InvHolds == Spec => []IInv
  <1>1. Init => IInv
    BY InitInv
  <1>2. IInv /\ [Next]_vars => IInv'
    <2> SUFFICES ASSUME IInv, [Next]_vars PROVE IInv'
      OBVIOUS
    <2>1. Scalars' /\ CallerInv' /\ TreeInv' /\ RunInv' /\ EventInv'
      BY ScalarsNext, CallerNext, TreeNext, RunNext, EventNext
    <2> QED BY <2>1 DEF IInv
  <1> QED BY <1>1, <1>2, PTL DEF Spec

\* A run has a copy of the tasks of a file; ran is its beginning.
LEMMA RanFacts ==
  ASSUME Scalars, CallerInv, RunInv, rpc \notin {"none", "snapshot"}
  PROVE  \E n, s : \E j, k \in 0 .. Len(s) :
           /\ CopyOf(s, n) /\ Progress(s, j, k)
           /\ IF rpc \in {"collect", "send"} THEN k = j + 1 ELSE k = j
           /\ rpc = "done" /\ ~Done => j = Len(s)
  <1>1. CASE rpc = "check"
    BY <1>1 DEF RunInv
  <1>2. CASE rpc \in {"collect", "send"}
    <2>1. PICK n, s : CopyOf(s, n) /\ \E j \in 0 .. (Len(s) - 1) : Progress(s, j, j + 1)
      BY <1>2 DEF RunInv
    <2>2. PICK j \in 0 .. (Len(s) - 1) : Progress(s, j, j + 1)
      BY <2>1
    <2>3. Len(s) \in Nat
      BY <2>1, CopyFacts
    <2>4. PICK k : k = j + 1
      OBVIOUS
    <2>5. j \in 0 .. Len(s) /\ k \in 0 .. Len(s) /\ Progress(s, j, k)
      BY <2>2, <2>3, <2>4
    <2> QED BY <1>2, <2>1, <2>4, <2>5
  <1>3. CASE rpc = "done"
    BY <1>3 DEF RunInv
  <1> QED BY <1>1, <1>2, <1>3 DEF Scalars

LEMMA IInvTypeOK == IInv => TypeOK
  <1> SUFFICES ASSUME Scalars, CallerInv, TreeInv, RunInv PROVE TypeOK
    BY DEF IInv
  <1>1. ASSUME NEW x \in tasks, NEW y \in tasks, x.t.ident = y.t.ident PROVE x = y
    <2>1. CASE cpc \in {"boot", "exit"}
      BY <1>1, <2>1 DEF TreeInv
    <2>2. CASE cpc = "add"
      <3>a. Len(files) = 1 /\ files \in Seq(Files)
        BY <2>2 DEF TreeInv, CallerInv
      <3>1. Len(files) = 1 /\ files[1] \in Files
        BY <3>a
      <3>2. Made(files[1], 1) \in Seq(Jobs(1))
        BY <3>1, MadeFacts
      <3>3. PICK k \in 0 .. Len(Made(files[1], 1)) : tasks = Latest(Made(files[1], 1), k)
        BY <2>2, <3>1 DEF TreeInv, Adding
      <3>4. k \in Nat
        BY <3>2
      <3> QED BY <1>1, <3>3, <3>4, LatestFacts
    <2>3. CASE cpc \in {"started", "stopped", "waited"}
      <3>1. rpc # "none" /\ Len(files) \in 1 .. Len(files) /\ files \in Seq(Files)
        BY <2>3 DEF CallerInv
      <3>2. files[Len(files)] \in Files
        BY <3>1
      <3>3. tasks = Target(files[Len(files)], Len(files))
        BY <2>3 DEF TreeInv
      <3> QED BY <1>1, <3>2, <3>3, TargetFacts
    <2> QED BY <2>1, <2>2, <2>3 DEF Scalars
  <1>2. since <= Len(files)
    BY DEF CallerInv
  <1>3. sent \cap silent = {} /\ sent \cup silent \subseteq ToSet(ran)
    <2>1. CASE rpc \in {"none", "snapshot"}
      BY <2>1 DEF RunInv
    <2>2. CASE rpc \notin {"none", "snapshot"}
      <3>1. PICK n, s : \E j, k \in 0 .. Len(s) :
              /\ CopyOf(s, n) /\ Progress(s, j, k)
              /\ IF rpc \in {"collect", "send"} THEN k = j + 1 ELSE k = j
        BY <2>2, RanFacts
      <3>2. PICK j \in 0 .. Len(s), k \in 0 .. Len(s) :
              CopyOf(s, n) /\ Progress(s, j, k) /\ IF rpc \in {"collect", "send"} THEN k = j + 1 ELSE k = j
        BY <3>1
      <3>3. /\ ran = [i \in 1 .. k |-> s[i]]
            /\ sent \cap silent = {} /\ sent \cup silent \subseteq {s[i] : i \in 1 .. j}
        BY <3>2 DEF Progress
      <3>4. ToSet(ran) = {s[i] : i \in 1 .. k}
        BY <3>3 DEF ToSet
      <3>5. \A i \in 1 .. j : i \in 1 .. k
        BY <3>2
      <3> QED BY <3>3, <3>4, <3>5
    <2> QED BY <2>1, <2>2
  <1> QED BY <1>1, <1>2, <1>3 DEF Scalars, TypeOK, Workable

LEMMA IInvServed == IInv => Served
  <1> SUFFICES ASSUME Scalars, CallerInv, TreeInv, RunInv PROVE Served
    BY DEF IInv
  <1>1. CASE rpc \in {"none", "snapshot"}
    <2>1. ran = <<>> /\ DOMAIN ran = {} /\ rpc # "done"
      BY <1>1 DEF RunInv
    <2> QED BY <2>1 DEF Served
  <1>2. CASE rpc \notin {"none", "snapshot"}
    <2>1. PICK n, s : \E j, k \in 0 .. Len(s) :
            /\ CopyOf(s, n) /\ Progress(s, j, k)
            /\ IF rpc \in {"collect", "send"} THEN k = j + 1 ELSE k = j
            /\ rpc = "done" /\ ~Done => j = Len(s)
      BY <1>2, RanFacts
    <2>2. PICK j \in 0 .. Len(s), k \in 0 .. Len(s) :
            /\ CopyOf(s, n) /\ Progress(s, j, k)
            /\ IF rpc \in {"collect", "send"} THEN k = j + 1 ELSE k = j
            /\ rpc = "done" /\ ~Done => j = Len(s)
      BY <2>1
    <2>3. /\ n \in 1 .. Len(files) /\ files[n] \in Files
          /\ s \in Seq(Jobs(n)) /\ Len(s) \in Nat /\ ToSet(s) = Target(files[n], n)
          /\ \A a, b \in 1 .. Len(s) : a < b => Before(s[a].t.ident, s[b].t.ident)
      BY <1>2, <2>2, CopyFacts
    <2>4. ran = [i \in 1 .. k |-> s[i]] /\ DOMAIN ran = 1 .. k /\ k \in Nat
      BY <2>2, <2>3 DEF Progress
    <2>5. \A i \in 1 .. k : ran[i] = s[i] /\ i \in 1 .. Len(s)
      BY <2>3, <2>4
    <2>6. \A a, b \in DOMAIN ran : a < b => Before(ran[a].t.ident, ran[b].t.ident)
      BY <2>3, <2>4, <2>5
    <2>7. ASSUME rpc = "done", ~Done
          PROVE  \E m \in since .. Len(files) :
                   /\ {x.t.line : x \in ToSet(ran)} = Wanted(files[m])
                   /\ \A x \in ToSet(ran) : x.file = m
      <3>1. k = Len(s)
        BY <2>2, <2>7
      <3>2. ran = s
        BY <2>3, <2>4, <3>1
      <3>3. {x.t.line : x \in ToSet(ran)} = Wanted(files[n])
        BY <2>3, <3>2, TargetWanted
      <3>4. \A x \in ToSet(ran) : x.file = n
        <4>1. \A x \in Target(files[n], n) : x \in Jobs(n)
          BY <2>3, TargetFacts
        <4> QED BY <2>3, <3>2, <4>1 DEF Jobs
      <3>5. n \in since .. Len(files)
        BY <2>2 DEF CopyOf
      <3> QED BY <3>3, <3>4, <3>5
    <2>8. ASSUME ~Done, NEW i \in DOMAIN ran
          PROVE  ran[i] \in sent \cup silent \/ (i = Len(ran) /\ rpc \in {"collect", "send"})
      <3>1. CASE i \in 1 .. j
        BY <2>2, <2>4, <2>5, <2>8, <3>1 DEF Progress
      <3>2. CASE i \notin 1 .. j
        <4>1. Len(ran) = k
          BY <2>4
        <4>2. i \in 1 .. k /\ j \in Nat
          BY <2>3, <2>4, <2>8
        <4>3. rpc \in {"collect", "send"} /\ k = j + 1 /\ i = k
          BY <2>2, <3>2, <4>2
        <4> QED BY <4>1, <4>3
      <3> QED BY <3>1, <3>2
    <2>9. rpc = "done" => status = "finished"
      BY DEF CallerInv
    <2> QED BY <2>6, <2>7, <2>8, <2>9 DEF Served
  <1> QED BY <1>1, <1>2

(***************************************************************************)
(* Whatever the file says, the limits of an http output are positive and   *)
(* that of a file output is not negative (it is zero for a fraction of a   *)
(* megabyte); the tree map never holds two tasks with one ident; and no    *)
(* task of a run both sends its event and has none.                        *)
(***************************************************************************)
THEOREM TypeCorrect == Spec => []TypeOK
  BY InvHolds, IInvTypeOK, PTL

(***************************************************************************)
(* A run that nobody cancels runs exactly the tasks that one file asks     *)
(* for, each once and in the order of the idents as strings (tcp:10 before *)
(* tcp:2), loses the event of none of them, and leaves the status          *)
(* finished, for every file, however many reloads come while it runs.      *)
(***************************************************************************)
THEOREM RunServes == Spec => []Served
  BY InvHolds, IInvServed, PTL

(***************************************************************************)
(* The events.                                                             *)
(***************************************************************************)

Maps(K, V) == UNION {[S -> V] : S \in SUBSET K}

LEMMA MapsFacts ==
  ASSUME NEW K, NEW V, NEW f \in Maps(K, V)
  PROVE  /\ f = [x \in DOMAIN f |-> f[x]] /\ DOMAIN f \in SUBSET K
         /\ \A x \in DOMAIN f : f[x] \in V
  <1>1. PICK S \in SUBSET K : f \in [S -> V]
    BY DEF Maps
  <1> QED BY <1>1

LEMMA EmptyMap == ASSUME NEW K, NEW V PROVE <<>> \in Maps(K, V)
  <1>1. PICK e : e = [x \in {} |-> 0]
    OBVIOUS
  <1>2. e \in [{} -> V] /\ {} \in SUBSET K
    BY <1>1
  <1>3. e = <<>>
    BY <1>1
  <1> QED BY <1>2, <1>3 DEF Maps

LEMMA PutFacts ==
  ASSUME NEW f, NEW k, NEW v
  PROVE  DOMAIN Put(f, k, v) = DOMAIN f \cup {k}
  BY DEF Put

LEMMA PutAt == ASSUME NEW f, NEW k, NEW v PROVE Put(f, k, v)[k] = v
  BY DEF Put

LEMMA PutOther ==
  ASSUME NEW f, NEW k, NEW v, NEW x \in DOMAIN f, x # k
  PROVE  Put(f, k, v)[x] = f[x]
  BY DEF Put

LEMMA PutMaps ==
  ASSUME NEW K, NEW V, NEW f \in Maps(K, V), NEW k \in K, NEW v \in V
  PROVE  Put(f, k, v) \in Maps(K, V)
  <1>1. PICK S \in SUBSET K : f \in [S -> V]
    BY DEF Maps
  <1>2. Put(f, k, v) \in [S \cup {k} -> V] /\ S \cup {k} \in SUBSET K
    BY <1>1 DEF Put
  <1> QED BY <1>2 DEF Maps

LEMMA OverFacts ==
  ASSUME NEW f, NEW g
  PROVE  DOMAIN Over(f, g) = DOMAIN f \cup DOMAIN g
  BY DEF Over

LEMMA OverFirst ==
  ASSUME NEW f, NEW g, NEW k \in DOMAIN f
  PROVE  Over(f, g)[k] = f[k]
  BY DEF Over

(***************************************************************************)
(* The probes.                                                             *)
(***************************************************************************)

Stages == {"dial", "close", "deadline", "write", "read", "request", "do", "body", "status"}

\* The empty string.
Empty == ""

LEMMA StagesFacts ==
  ASSUME NEW t, t.typ \in {"tcp", "udp", "http"}
  PROVE  /\ ProbeStages(t) \in Seq(Stages)
         /\ "status" \in ToSet(ProbeStages(t)) <=> t.typ = "http"
  <1>1. PICK s : s = ProbeStages(t)
    OBVIOUS
  <1>2. CASE t.typ = "tcp"
    <2>1. s = <<"dial", "close">>
      BY <1>1, <1>2 DEF ProbeStages
    <2> QED BY <1>1, <1>2, <2>1 DEF Stages, ToSet
  <1>3. CASE t.typ = "udp"
    <2>1. PICK r : r = IF t.expect THEN <<"read">> ELSE <<>>
      OBVIOUS
    <2>2. PICK q : q = <<"dial", "deadline", "write">>
      OBVIOUS
    <2>3. s = q \o r
      BY <1>1, <1>3, <2>1, <2>2 DEF ProbeStages
    <2>4. q \in Seq(Stages \ {"status"})
      BY <2>2 DEF Stages
    <2>5. r \in Seq(Stages \ {"status"})
      <3>1. <<"read">> \in Seq(Stages \ {"status"}) /\ <<>> \in Seq(Stages \ {"status"})
        BY DEF Stages
      <3> QED BY <2>1, <3>1
    <2>6. s \in Seq(Stages \ {"status"})
      BY <2>3, <2>4, <2>5
    <2>7. s \in Seq(Stages)
      BY <2>6
    <2>8. "status" \notin ToSet(s)
      BY <2>6 DEF ToSet
    <2> QED BY <1>1, <1>3, <2>7, <2>8
  <1>4. CASE t.typ = "http"
    <2>1. s = <<"request", "do", "body", "status">>
      BY <1>1, <1>4 DEF ProbeStages
    <2>2. s[4] = "status" /\ 4 \in DOMAIN s
      BY <2>1
    <2>3. "status" \in ToSet(s)
      BY <2>2 DEF ToSet
    <2> QED BY <1>1, <1>4, <2>1, <2>3 DEF Stages
  <1> QED BY <1>2, <1>3, <1>4

NoneFails(t, w, d) == \A s \in ToSet(ProbeStages(t)) : ~StageFails(t, w, d, s)

\* The stage at which a probe fails, if it does.
LEMMA FailsAtFacts ==
  ASSUME NEW t, t.typ \in {"tcp", "udp", "http"}, NEW w, NEW d \in BOOLEAN
  PROVE  /\ FailsAt(t, w, d) = Empty => NoneFails(t, w, d)
         /\ FailsAt(t, w, d) # Empty =>
              FailsAt(t, w, d) \in ToSet(ProbeStages(t)) /\ StageFails(t, w, d, FailsAt(t, w, d))
  <1>1. PICK ss : ss = ProbeStages(t)
    OBVIOUS
  <1>2. ss \in Seq(Stages) /\ DOMAIN ss = 1 .. Len(ss)
    BY <1>1, StagesFacts
  <1>3. PICK failing : failing = {i \in DOMAIN ss : StageFails(t, w, d, ss[i])}
    OBVIOUS
  <1>4. PICK at : at = FailsAt(t, w, d)
    OBVIOUS
  <1>5. at = IF failing = {} THEN Empty ELSE ss[Min(failing)]
    BY <1>1, <1>3, <1>4 DEF FailsAt, Empty
  <1>6. CASE failing = {}
    <2>1. NoneFails(t, w, d)
      BY <1>1, <1>3, <1>6 DEF NoneFails, ToSet
    <2> QED BY <1>1, <1>4, <1>5, <1>6, <2>1
  <1>7. CASE failing # {}
    <2>1. failing \in SUBSET Nat
      BY <1>2, <1>3
    <2>2. Min(failing) \in failing
      BY <1>7, <2>1, MinIs
    <2>3. PICK m \in DOMAIN ss : m = Min(failing) /\ StageFails(t, w, d, ss[m])
      BY <1>3, <2>2
    <2>4. at = ss[m] /\ ss[m] \in Stages /\ ss[m] \in ToSet(ss)
      <3>1. at = ss[m]
        BY <1>5, <1>7, <2>3
      <3>2. ss[m] \in Stages
        BY <1>2
      <3>3. ss[m] \in ToSet(ss)
        BY DEF ToSet
      <3> QED BY <3>1, <3>2, <3>3
    <2>5. at # Empty
      BY <2>4, Zenon DEF Stages, Empty
    <2> QED BY <1>1, <1>4, <2>3, <2>4, <2>5
  <1> QED BY <1>6, <1>7

LEMMA ProbeEventRight ==
  ASSUME NEW t, t.typ \in {"tcp", "udp", "http"}, NEW w \in Inputs(t),
         NEW d \in BOOLEAN, NEW done \in BOOLEAN, d => done
  PROVE  ProbeRight(t, w, ProbeEvent(t, w, d), done)
  <1>1. w.broken \subseteq ToSet(ProbeStages(t)) \ {"status"}
    BY DEF Inputs
  <1>2. PICK at : at = FailsAt(t, w, d)
    OBVIOUS
  <1>3. PICK reached : reached = Reached(t, w, at)
    OBVIOUS
  <1>a. PICK success : success = IF at = Empty THEN 1 ELSE 0
    OBVIOUS
  <1>4. PICK inner : inner = Put(reached, "success", success)
    OBVIOUS
  <1>5. PICK metrics : metrics = Put(inner, "duration_ms", "ms")
    OBVIOUS
  <1>6. PICK ev : ev = ProbeEvent(t, w, d)
    OBVIOUS
  <1>7. ev.metrics = metrics /\ ev.error = (at # Empty)
    <2>1. ev = [Event(metrics) EXCEPT !.error = at # Empty]
      BY <1>2, <1>3, <1>a, <1>4, <1>5, <1>6, Zenon DEF ProbeEvent, Empty
    <2> QED BY <2>1 DEF Event
  <1>8. DOMAIN inner = DOMAIN reached \cup {"success"} /\ inner["success"] = success
    <2>1. DOMAIN inner = DOMAIN reached \cup {"success"}
      BY <1>4, PutFacts
    <2>2. inner["success"] = success
      BY <1>4, PutAt
    <2> QED BY <2>1, <2>2
  <1>9. /\ DOMAIN metrics = DOMAIN reached \cup {"success", "duration_ms"}
        /\ metrics["success"] = success
    <2>1. DOMAIN metrics = DOMAIN inner \cup {"duration_ms"}
      BY <1>5, PutFacts
    <2>2. "success" \in DOMAIN inner /\ "success" # "duration_ms"
      BY <1>8
    <2>3. metrics["success"] = inner["success"]
      BY <1>5, <2>2, PutOther
    <2> QED BY <1>8, <2>1, <2>3
  <1>10. ev.error <=> ev.metrics["success"] = 0
    <2>1. success = 0 <=> at # Empty
      BY <1>a
    <2> QED BY <1>7, <1>9, <2>1
  <1>11. PICK fine : fine = (w.broken = {} /\ (t.typ = "http" => w.code = t.code))
    OBVIOUS
  <1>12. ASSUME ~ev.error PROVE fine
    <2>1. at = Empty
      BY <1>7, <1>12
    <2>b. FailsAt(t, w, d) = Empty
      BY <1>2, <2>1
    <2>a. NoneFails(t, w, d)
      BY <2>b, FailsAtFacts
    <2>2. \A s \in ToSet(ProbeStages(t)) : ~StageFails(t, w, d, s)
      BY <2>a DEF NoneFails
    <2>3. w.broken = {}
      BY <1>1, <2>2 DEF StageFails
    <2>4. t.typ = "http" => w.code = t.code
      BY <2>2, StagesFacts DEF StageFails
    <2> QED BY <1>11, <2>3, <2>4
  <1>13. ASSUME ev.error PROVE ~fine \/ done
    <2>1. at # Empty
      BY <1>7, <1>13
    <2>2. at \in ToSet(ProbeStages(t)) /\ StageFails(t, w, d, at)
      BY <1>2, <2>1, FailsAtFacts
    <2>3. CASE at \in w.broken
      BY <1>11, <2>3
    <2>4. CASE d /\ at \in Cancellable
      BY <2>4
    <2>5. CASE at = "status" /\ w.code # t.code
      BY <1>11, <2>2, <2>5, StagesFacts
    <2> QED BY <2>2, <2>3, <2>4, <2>5 DEF StageFails
  <1>14. ASSUME "bytes_read" \in DOMAIN ev.metrics, ~ev.error PROVE t.expect
    <2>1. "bytes_read" \in DOMAIN reached
      BY <1>7, <1>9, <1>14
    <2>a. at = ""
      BY <1>7, <1>14 DEF Empty
    <2>2. CASE t.typ = "tcp"
      <3>1. reached = [connect_ms |-> "ms"]
        BY <1>3, <2>2 DEF Reached
      <3> QED BY <2>1, <3>1
    <2>3. CASE t.typ = "udp"
      <3>1. PICK base : base = [round_trip_ms |-> "ms"]
        OBVIOUS
      <3>2. PICK wrote : wrote = Put(base, "bytes_written", "n")
        OBVIOUS
      <3>3. reached = IF t.expect THEN Put(wrote, "bytes_read", "n") ELSE wrote
        BY <1>3, <2>a, <2>3, <3>1, <3>2, Zenon DEF Reached
      <3>4. DOMAIN wrote = DOMAIN base \cup {"bytes_written"}
        BY <3>2, PutFacts
      <3>5. DOMAIN base = {"round_trip_ms"}
        BY <3>1
      <3> QED BY <2>1, <3>3, <3>4, <3>5
    <2>4. CASE t.typ = "http"
      <3>1. PICK base : base = [total_ms |-> "ms"]
        OBVIOUS
      <3>2. reached = Put(base, "status_code", w.code)
        BY <1>3, <2>a, <2>4, <3>1, Zenon DEF Reached
      <3>3. DOMAIN reached = DOMAIN base \cup {"status_code"}
        BY <3>2, PutFacts
      <3>4. DOMAIN base = {"total_ms"}
        BY <3>1
      <3> QED BY <2>1, <3>3, <3>4
    <2> QED BY <2>2, <2>3, <2>4
  <1> QED BY <1>6, <1>10, <1>11, <1>12, <1>13, <1>14 DEF ProbeRight

(***************************************************************************)
(* processbeat.                                                            *)
(***************************************************************************)

LEMMA Smaller ==
  ASSUME NEW c \in Nat, NEW n \in Nat
  PROVE  \E m \in Nat : ((c > n /\ m = n) \/ (~(c > n) /\ m = c)) /\ m <= c
  OBVIOUS

LEMMA ProcessesEventRight ==
  ASSUME NEW t, t.topN \in Nat \ {0}, NEW w, IsFiniteSet(w.table), \A p \in w.table : p.cpu \in Int,
         NEW ev \in ProcessbeatEvents(t, w)
  PROVE  ev.metrics["total"] = Len(ev.items) /\ ProcessesRight(t, w, ev.items)
  <1>1. PICK S : S = Selected(t, w.table)
    OBVIOUS
  <1>2. S \in SUBSET w.table
    BY <1>1 DEF Selected
  <1>3. PICK c \in Nat : c = Cardinality(S) /\ IsFiniteSet(S)
    BY <1>2, FS_Subset, FS_CardinalityType
  <1>4. PICK s \in Sorted(S) : ev = [Event([total |-> Len(Top(s, t.topN))]) EXCEPT !.items = Top(s, t.topN)]
    BY <1>1 DEF ProcessbeatEvents
  <1>5. PICK top : top = Top(s, t.topN)
    OBVIOUS
  <1>6. ev.items = top /\ ev.metrics = [total |-> Len(top)]
    BY <1>4, <1>5 DEF Event
  <1>7. /\ s \in [1 .. c -> S]
        /\ \A i, j \in 1 .. c : i # j => s[i] # s[j]
        /\ \A i, j \in 1 .. c : i < j => s[i].cpu >= s[j].cpu
    BY <1>3 DEF Sorted
  <1>8. s \in Seq(S) /\ Len(s) = c
    BY <1>3, <1>7
  <1>9. PICK n \in Nat : n = t.topN /\ n > 0
    OBVIOUS
  <1>10. PICK m \in Nat : ((c > n /\ m = n) \/ (~(c > n) /\ m = c)) /\ m <= c
    BY Smaller
  <1>11. m <= c /\ (m = c \/ (m = n /\ c > n))
    BY <1>10
  <1>12. Len(top) = m /\ DOMAIN top = 1 .. m /\ \A i \in 1 .. m : top[i] = s[i]
    <2>1. CASE c > n
      <3>1. top = SubSeq(s, 1, n) /\ m = n
        BY <1>5, <1>8, <1>9, <1>10, <2>1 DEF Top
      <3>2. Len(top) = n /\ DOMAIN top = 1 .. n /\ \A i \in 1 .. n : top[i] = s[i]
        BY <1>8, <2>1, <3>1
      <3> QED BY <3>1, <3>2
    <2>2. CASE ~(c > n)
      <3>1. top = s /\ m = c
        BY <1>5, <1>8, <1>9, <1>10, <2>2 DEF Top
      <3> QED BY <1>8, <3>1
    <2> QED BY <2>1, <2>2
  <1>13. \A i \in 1 .. m : i \in 1 .. c /\ s[i] \in S
    BY <1>7, <1>11
  <1>14. PICK T : T = ToSet(top)
    OBVIOUS
  <1>15. T = {s[i] : i \in 1 .. m}
    BY <1>12, <1>14 DEF ToSet
  <1>16. T \subseteq S
    BY <1>13, <1>15
  <1>17. Cardinality(T) = m
    <2>1. PICK b : b = [i \in 1 .. m |-> s[i]]
      OBVIOUS
    <2>2. \A i \in 1 .. m : b[i] = s[i] /\ b[i] \in T
      BY <1>15, <2>1
    <2>3. b \in Injection(1 .. m, T)
      <3>1. b \in [1 .. m -> T]
        BY <2>1, <2>2
      <3>2. \A i, j \in 1 .. m : b[i] = b[j] => i = j
        BY <1>7, <1>13, <2>2
      <3> QED BY <3>1, <3>2 DEF Injection, IsInjective
    <2>4. b \in Surjection(1 .. m, T)
      <3>1. b \in [1 .. m -> T]
        BY <2>1, <2>2
      <3> QED BY <1>15, <2>2, <3>1 DEF Surjection
    <2>5. ExistsBijection(1 .. m, T)
      BY <2>3, <2>4 DEF ExistsBijection, Bijection
    <2>6. IsFiniteSet(1 .. m) /\ Cardinality(1 .. m) = m
      <3>1. 1 \in Int /\ m \in Int /\ m \in Nat /\ (1 > m => m = 0) /\ m - 1 + 1 = m
        OBVIOUS
      <3>2. /\ IsFiniteSet(1 .. m)
            /\ Cardinality(1 .. m) = IF 1 > m THEN 0 ELSE m - 1 + 1
        BY <3>1, FS_Interval
      <3> QED BY <3>1, <3>2
    <2> QED BY <2>5, <2>6, FS_Bijection
  <1>18. ASSUME NEW p \in S \ T, NEW q \in T PROVE p.cpu <= q.cpu
    <2>1. s \in Surjection(1 .. c, S)
      <3>1. s \in Injection(1 .. c, S)
        BY <1>7 DEF Injection, IsInjective
      <3>2. Cardinality(1 .. c) = c
        BY FS_Interval
      <3> QED BY <1>3, <3>1, <3>2, FS_Injection
    <2>2. PICK i \in 1 .. c : s[i] = p
      BY <2>1 DEF Surjection
    <2>3. PICK j \in 1 .. m : s[j] = q
      BY <1>15
    <2>4. i \notin 1 .. m
      BY <1>15, <2>2
    <2>5. j < i /\ j \in 1 .. c
      BY <1>11, <2>4
    <2>6. s[j].cpu >= s[i].cpu
      BY <1>7, <2>5
    <2>7. p.cpu \in Int /\ q.cpu \in Int
      BY <1>2, <1>16
    <2> QED BY <2>2, <2>3, <2>6, <2>7
  <1>19. Len(top) = IF c < n THEN c ELSE n
    BY <1>10, <1>12
  <1>20. ProcessesRight(t, w, top)
    BY <1>1, <1>3, <1>9, <1>12, <1>14, <1>16, <1>17, <1>18, <1>19 DEF ProcessesRight
  <1>21. ev.metrics["total"] = Len(ev.items)
    BY <1>6
  <1> QED BY <1>6, <1>20, <1>21

(***************************************************************************)
(* socketsnapshot.                                                         *)
(***************************************************************************)

LEMMA SocketEventRight ==
  ASSUME NEW w, w.tcp \in Nat, w.udp \in Nat
  PROVE  SocketRight(w, SocketEvent(w))
  <1>1. PICK a, b : /\ a = IF "tcp" \in w.broken THEN <<>> ELSE [i \in 1 .. w.tcp |-> <<"tcp", i>>]
                    /\ b = IF "udp" \in w.broken THEN <<>> ELSE [i \in 1 .. w.udp |-> <<"udp", i>>]
    OBVIOUS
  <1>2. PICK n \in Nat, m \in Nat : n = w.tcp /\ m = w.udp
    OBVIOUS
  <1>3. PICK X : X = {"tcp", "udp"} \X Nat
    OBVIOUS
  <1>4. a \in Seq(X) /\ Len(a) = IF "tcp" \in w.broken THEN 0 ELSE n
    <2>1. CASE "tcp" \in w.broken
      BY <1>1, <2>1
    <2>2. CASE "tcp" \notin w.broken
      <3>1. a = [i \in 1 .. n |-> <<"tcp", i>>]
        BY <1>1, <1>2, <2>2
      <3>2. a \in Seq(X) /\ Len(a) = n
        BY <1>3, <3>1
      <3> QED BY <2>2, <3>2
    <2> QED BY <2>1, <2>2
  <1>5. b \in Seq(X) /\ Len(b) = IF "udp" \in w.broken THEN 0 ELSE m
    <2>1. CASE "udp" \in w.broken
      BY <1>1, <2>1
    <2>2. CASE "udp" \notin w.broken
      <3>1. b = [i \in 1 .. m |-> <<"udp", i>>]
        BY <1>1, <1>2, <2>2
      <3>2. b \in Seq(X) /\ Len(b) = m
        BY <1>3, <3>1
      <3> QED BY <2>2, <3>2
    <2> QED BY <2>1, <2>2
  <1>6. PICK conns : conns = a \o b
    OBVIOUS
  <1>7. Len(conns) = Len(a) + Len(b)
    BY <1>4, <1>5, <1>6
  <1>8. SocketEvent(w) = [Event([total |-> Len(conns)]) EXCEPT !.items = conns]
    BY <1>1, <1>6 DEF SocketEvent
  <1>9. SocketEvent(w).metrics = [total |-> Len(conns)]
    BY <1>8 DEF Event
  <1>10. SocketEvent(w).metrics["total"] = Len(conns)
    BY <1>9
  <1> QED BY <1>2, <1>4, <1>5, <1>7, <1>10 DEF SocketRight

(***************************************************************************)
(* basereport.                                                             *)
(***************************************************************************)

DiskKeys == {"root", "var_log"}

LEMMA DiskKeyFacts == \A p : DiskKey(p) \in DiskKeys
  BY DEF DiskKey, DiskKeys

\* What collectDisk has gathered: under each key a path of Q with that key.
Usages(Q) == {m \in Maps(DiskKeys, Q) : \A k \in DOMAIN m : DiskKey(m[k]) = k}

\* m has a reading for all of the paths up to i that can be read.
Reads(m, paths, broken, i) ==
  \A j \in 1 .. i : paths[j] \notin broken => DiskKey(paths[j]) \in DOMAIN m

\* The root is read if there are no paths.
PathsRead(t) == IF t.paths = <<>> THEN <<"/">> ELSE t.paths

\* One turn of the loop of collectDisk.
Noted(broken, m, p) == IF p \in broken THEN m ELSE Put(m, DiskKey(p), p)

LEMMA DiskFold ==
  ASSUME NEW X, NEW t, PathsRead(t) \in Seq(X), NEW w, NEW paths, paths = PathsRead(t)
  PROVE  /\ collectDisk(t, w) \in Usages(ToSet(paths) \ w.broken)
         /\ Reads(collectDisk(t, w), paths, w.broken, Len(paths))
  <1>1. PICK n : n = Len(paths) /\ n \in Nat
    OBVIOUS
  <1>2. DOMAIN paths = 1 .. n
    BY <1>1
  <1>3. PICK broken : broken = w.broken
    OBVIOUS
  <1>4. PICK A : A = Usages(ToSet(paths) \ broken)
    OBVIOUS
  <1>5. PICK step : step = [i \in 1 .. n |-> [m \in A |->
                              IF paths[i] \in broken THEN m ELSE Put(m, DiskKey(paths[i]), paths[i])]]
    OBVIOUS
  <1>6. \A i \in 1 .. n : \A m \in A :
          step[i][m] = IF paths[i] \in broken THEN m ELSE Put(m, DiskKey(paths[i]), paths[i])
    BY <1>5
  <1>7. step \in [1 .. n -> [A -> A]]
    <2>1. ASSUME NEW i \in 1 .. n, NEW m \in A, paths[i] \notin broken
          PROVE  Put(m, DiskKey(paths[i]), paths[i]) \in A
      <3>1. PICK k \in DiskKeys, p \in ToSet(paths) \ broken : k = DiskKey(p) /\ p = paths[i]
        BY <1>2, <2>1, DiskKeyFacts DEF ToSet
      <3>2. m \in Maps(DiskKeys, ToSet(paths) \ broken) /\ \A x \in DOMAIN m : DiskKey(m[x]) = x
        BY <1>4 DEF Usages
      <3>3. PICK q : q = Put(m, k, p)
        OBVIOUS
      <3>4. q \in Maps(DiskKeys, ToSet(paths) \ broken)
        BY <3>2, <3>3, PutMaps
      <3>5. DOMAIN q = DOMAIN m \cup {k}
        BY <3>3, PutFacts
      <3>6. q[k] = p
        BY <3>3, PutAt
      <3>7. ASSUME NEW x \in DOMAIN q PROVE DiskKey(q[x]) = x
        <4>1. CASE x = k
          BY <3>1, <3>6, <4>1
        <4>2. CASE x # k
          <5>1. q[x] = m[x] /\ x \in DOMAIN m
            BY <3>3, <3>5, <3>7, <4>2, PutOther
          <5> QED BY <3>2, <5>1
        <4> QED BY <4>1, <4>2
      <3>8. q \in A
        BY <1>4, <3>4, <3>7 DEF Usages
      <3> QED BY <3>1, <3>3, <3>8
    <2>2. ASSUME NEW i \in 1 .. n, NEW m \in A
          PROVE  (IF paths[i] \in broken THEN m ELSE Put(m, DiskKey(paths[i]), paths[i])) \in A
      BY <2>1
    <2> QED BY <1>5, <2>2
  <1>8. <<>> \in A
    <2>1. <<>> \in Maps(DiskKeys, ToSet(paths) \ broken)
      BY EmptyMap
    <2>2. DOMAIN <<>> = {}
      OBVIOUS
    <2> QED BY <1>4, <2>1, <2>2 DEF Usages
  <1>9. PICK it \in [SUBSET (1 .. n) -> A] : Recurs(it, 1 .. n, <<>>, step)
    BY <1>1, <1>7, <1>8, FoldExists
  <1>10. it = [s \in SUBSET (1 .. n) |->
                 IF s = {} THEN <<>>
                 ELSE IF paths[Max(s)] \in broken THEN it[s \ {Max(s)}]
                      ELSE Put(it[s \ {Max(s)}], DiskKey(paths[Max(s)]), paths[Max(s)])]
    <2>1. ASSUME NEW s \in SUBSET (1 .. n), s # {}
          PROVE  it[s] = IF paths[Max(s)] \in broken THEN it[s \ {Max(s)}]
                         ELSE Put(it[s \ {Max(s)}], DiskKey(paths[Max(s)]), paths[Max(s)])
      <3>1. Max(s) \in 1 .. n /\ it[s \ {Max(s)}] \in A
        BY <1>1, <1>9, <2>1, MaxIn
      <3>2. it[s] = step[Max(s)][it[s \ {Max(s)}]]
        BY <1>9, <2>1 DEF Recurs
      <3> QED BY <1>6, <3>1, <3>2
    <2>2. it[{}] = <<>>
      BY <1>9 DEF Recurs
    <2> QED BY <1>9, <2>1, <2>2
  <1>11. PICK f : /\ f = [s \in SUBSET (1 .. n) |->
                            IF s = {} THEN <<>> ELSE Noted(broken, f[s \ {Max(s)}], paths[Max(s)])]
                  /\ collectDisk(t, w) = f[1 .. n]
    <2>1. collectDisk(t, w) = FoldLeft(LAMBDA m, p : Noted(broken, m, p), <<>>, paths)
      BY <1>3 DEF collectDisk, PathsRead, Noted
    <2>2. it = [s \in SUBSET (1 .. n) |->
                  IF s = {} THEN <<>> ELSE Noted(broken, it[s \ {Max(s)}], paths[Max(s)])]
      BY <1>10 DEF Noted
    <2>3. PICK f : f = CHOOSE g : g = [s \in SUBSET (1 .. n) |->
                         IF s = {} THEN <<>> ELSE Noted(broken, g[s \ {Max(s)}], paths[Max(s)])]
      OBVIOUS
    <2>4. f = [s \in SUBSET (1 .. n) |->
                 IF s = {} THEN <<>> ELSE Noted(broken, f[s \ {Max(s)}], paths[Max(s)])]
      BY <2>2, <2>3
    <2>5. collectDisk(t, w) = f[1 .. n]
      BY <1>2, <2>1, <2>3 DEF FoldLeft, MapThenFoldSet
    <2> QED BY <2>4, <2>5
  <1>12. ASSUME NEW i \in 1 .. n, f[1 .. (i - 1)] \in A
         PROVE  f[1 .. i] = step[i][f[1 .. (i - 1)]]
    <2>1. /\ 1 .. i \in SUBSET (1 .. n) /\ 1 .. i # {} /\ Max(1 .. i) = i
          /\ (1 .. i) \ {i} = 1 .. (i - 1)
      BY <1>1, Initials
    <2>2. f[1 .. i] = IF paths[i] \in broken THEN f[1 .. (i - 1)]
                      ELSE Put(f[1 .. (i - 1)], DiskKey(paths[i]), paths[i])
      BY <1>11, <2>1 DEF Noted
    <2> QED BY <1>6, <1>12, <2>2
  <1>13. Steps(f, A, n, <<>>, step)
    <2>1. f[{}] = <<>>
      BY <1>11
    <2> QED BY <1>12, <2>1 DEF Steps
  <1>14. PICK g : Loop(g, A, n, <<>>, step, f[1 .. n])
    <2>1. n \in Nat
      BY <1>1
    <2> QED BY <2>1, <1>7, <1>8, <1>13, FoldLoop
  <1>15. PICK H : H = {i \in 0 .. n : Reads(g[i], paths, broken, i)}
    OBVIOUS
  <1>16. 0 \in H
    BY <1>1, <1>15 DEF Reads
  <1>17. ASSUME NEW i \in 0 .. n, i \in H, i < n PROVE i + 1 \in H
    <2>1. i \in Nat /\ i + 1 \in 1 .. n /\ i + 1 \in 0 .. n /\ (i + 1) - 1 = i
      BY <1>1, <1>17
    <2>2. g[i] \in A /\ g[i + 1] = step[i + 1][g[i]]
      BY <1>14, <2>1 DEF Loop
    <2>3. g[i + 1] = IF paths[i + 1] \in broken THEN g[i]
                     ELSE Put(g[i], DiskKey(paths[i + 1]), paths[i + 1])
      BY <1>6, <2>1, <2>2
    <2>4. Reads(g[i], paths, broken, i)
      BY <1>15, <1>17
    <2>5. ASSUME NEW j \in 1 .. i + 1, paths[j] \notin broken PROVE DiskKey(paths[j]) \in DOMAIN g[i + 1]
      <3>a. \/ paths[i + 1] \in broken /\ g[i + 1] = g[i]
            \/ DOMAIN g[i + 1] = DOMAIN g[i] \cup {DiskKey(paths[i + 1])}
        <4>1. CASE paths[i + 1] \in broken
          BY <2>3, <4>1
        <4>2. CASE paths[i + 1] \notin broken
          <5>1. g[i + 1] = Put(g[i], DiskKey(paths[i + 1]), paths[i + 1])
            BY <2>3, <4>2
          <5>2. DOMAIN g[i + 1] = DOMAIN g[i] \cup {DiskKey(paths[i + 1])}
            <6>1. PICK k, p : k = DiskKey(paths[i + 1]) /\ p = paths[i + 1]
              OBVIOUS
            <6>2. DOMAIN Put(g[i], k, p) = DOMAIN g[i] \cup {k}
              BY PutFacts
            <6> QED BY <5>1, <6>1, <6>2
          <5> QED BY <5>2
        <4> QED BY <4>1, <4>2
      <3>1. DOMAIN g[i] \subseteq DOMAIN g[i + 1]
        BY <3>a
      <3>2. CASE j = i + 1
        BY <2>5, <3>2, <3>a
      <3>3. CASE j \in 1 .. i
        BY <2>4, <2>5, <3>1, <3>3 DEF Reads
      <3> QED BY <2>1, <3>2, <3>3
    <2>6. Reads(g[i + 1], paths, broken, i + 1)
      BY <2>5 DEF Reads
    <2> QED BY <1>15, <2>1, <2>6
  <1>18. n \in H
    <2>1. \A i \in 0 .. n : i \in H
      BY <1>1, <1>16, <1>17, UpFrom0
    <2> QED BY <1>1, <2>1
  <1>19. g[n] = collectDisk(t, w) /\ g[n] \in A
    BY <1>1, <1>11, <1>14 DEF Loop
  <1> QED BY <1>1, <1>3, <1>4, <1>15, <1>18, <1>19

LEMMA BasereportEventRight ==
  ASSUME NEW t, t.parts \in SUBSET {"mem", "load", "disk", "net"}, t.paths \in Seq(Paths), NEW w,
         NEW d \in BOOLEAN, NEW done \in BOOLEAN, d => done
  PROVE  BasereportRight(t, w, BasereportEvent(t, w, d), done)
  <1>1. PICK broken : broken = w.broken
    OBVIOUS
  <1>2. PICK parts : parts = (t.parts \ broken) \cup (IF d \/ "cpu" \in broken THEN {} ELSE {"cpu"})
    OBVIOUS
  <1>3. PICK usage : usage = IF "disk" \in t.parts THEN collectDisk(t, w) ELSE <<>>
    OBVIOUS
  <1>4. PICK rest : rest = [p \in parts \ {"disk"} |-> "n"]
    OBVIOUS
  <1>5. PICK metrics : metrics = Over(usage, rest)
    OBVIOUS
  <1>6. BasereportEvent(t, w, d).metrics = metrics
    BY <1>1, <1>2, <1>3, <1>4, <1>5 DEF BasereportEvent, Event
  <1>7. PICK paths : paths = PathsRead(t)
    OBVIOUS
  <1>8. paths \in Seq(Paths) /\ (t.paths # <<>> => paths = t.paths)
    <2>1. <<"/">> \in Seq(Paths)
      BY DEF Paths
    <2> QED BY <1>7, <2>1 DEF PathsRead
  <1>9. PICK disk : disk = collectDisk(t, w)
    OBVIOUS
  <1>10. disk \in Usages(ToSet(paths) \ broken) /\ Reads(disk, paths, broken, Len(paths))
    BY <1>1, <1>7, <1>8, <1>9, DiskFold
  <1>11. disk \in Maps(DiskKeys, ToSet(paths) \ broken) /\ \A k \in DOMAIN disk : DiskKey(disk[k]) = k
    BY <1>10 DEF Usages
  <1>12. DOMAIN disk \subseteq DiskKeys /\ \A k \in DOMAIN disk : disk[k] \in ToSet(paths) \ broken
    <2>1. DOMAIN disk \subseteq DiskKeys
      BY <1>11, MapsFacts
    <2>2. ASSUME NEW k \in DOMAIN disk PROVE disk[k] \in ToSet(paths) \ broken
      BY <1>11, MapsFacts
    <2> QED BY <2>1, <2>2
  <1>13. DOMAIN usage \subseteq DiskKeys
    <2>1. DOMAIN <<>> = {}
      OBVIOUS
    <2> QED BY <1>3, <1>9, <1>12, <2>1
  <1>14. DOMAIN metrics = DOMAIN usage \cup (parts \ {"disk"})
    <2>1. DOMAIN rest = parts \ {"disk"}
      BY <1>4
    <2> QED BY <1>5, <2>1, OverFacts
  <1>15. \A p \in {"cpu", "mem", "load", "net"} : p \in DOMAIN metrics <=> p \in parts
    BY <1>13, <1>14 DEF DiskKeys
  <1>16. "cpu" \in DOMAIN metrics => "cpu" \notin broken
    BY <1>2, <1>15
  <1>17. "cpu" \in broken \cup DOMAIN metrics \/ done
    BY <1>2, <1>15
  <1>18. \A p \in {"mem", "load", "net"} : p \in DOMAIN metrics <=> p \in t.parts \ broken
    BY <1>2, <1>15
  <1>19. ASSUME "disk" \in t.parts, NEW p \in ToSet(t.paths) \ broken
         PROVE  LET q == metrics[DiskKey(p)]
                IN  q \in ToSet(t.paths) \ broken /\ DiskKey(q) = DiskKey(p)
    <2>1. t.paths # <<>>
      <3>1. ToSet(<<>>) = {}
        BY DEF ToSet
      <3> QED BY <1>19, <3>1
    <2>2. paths = t.paths
      BY <1>8, <2>1
    <2>3. PICK j \in 1 .. Len(paths) : p = paths[j]
      BY <1>8, <1>19, <2>2 DEF ToSet
    <2>4. PICK k : k = DiskKey(p)
      OBVIOUS
    <2>5. k \in DOMAIN disk
      BY <1>10, <1>19, <2>3, <2>4 DEF Reads
    <2>6. usage = disk
      BY <1>3, <1>9, <1>19
    <2>7. metrics[k] = disk[k]
      BY <1>5, <2>5, <2>6, OverFirst
    <2>8. disk[k] \in ToSet(t.paths) \ broken /\ DiskKey(disk[k]) = k
      BY <1>11, <1>12, <2>2, <2>5
    <2> QED BY <2>4, <2>7, <2>8
  <1> QED BY <1>1, <1>6, <1>16, <1>17, <1>18, <1>19 DEF BasereportRight

(***************************************************************************)
(* script and metricbeat.                                                  *)
(***************************************************************************)

Samples == {"number", "compound"}

Has(text, kinds, k, j) == text[j].kind \in kinds /\ text[j].key = k

KeysTo(text, kinds, i) == {text[j].key : j \in {j \in 1 .. i : text[j].kind \in kinds}}

\* Of the first i lines, the j-th is the last of these kinds with this key.
IsLast(text, kinds, k, i, j) ==
  j \in 1 .. i /\ Has(text, kinds, k, j) /\ \A l \in 1 .. i : Has(text, kinds, k, l) => l <= j

\* f has what the first i lines of these kinds say.
Tells(f, text, kinds, i) ==
  /\ DOMAIN f = KeysTo(text, kinds, i)
  /\ \A k \in DOMAIN f : \E j : IsLast(text, kinds, k, i, j) /\ f[k] = extractValue(text[j])

LEMMA KeysToStep ==
  ASSUME NEW text, NEW kinds, NEW i \in Nat
  PROVE  /\ text[i + 1].kind \in kinds =>
              KeysTo(text, kinds, i + 1) = KeysTo(text, kinds, i) \cup {text[i + 1].key}
         /\ text[i + 1].kind \notin kinds => KeysTo(text, kinds, i + 1) = KeysTo(text, kinds, i)
  <1>1. \A j \in 1 .. i + 1 : j \in 1 .. i \/ j = i + 1
    OBVIOUS
  <1>2. \A j \in 1 .. i : j \in 1 .. i + 1
    OBVIOUS
  <1>3. i + 1 \in 1 .. i + 1
    OBVIOUS
  <1>4. ASSUME NEW k
        PROVE  k \in KeysTo(text, kinds, i + 1) <=>
                 k \in KeysTo(text, kinds, i) \/ (text[i + 1].kind \in kinds /\ k = text[i + 1].key)
    BY <1>1, <1>2, <1>3 DEF KeysTo
  <1>5. CASE text[i + 1].kind \in kinds
    BY <1>4, <1>5
  <1>6. CASE text[i + 1].kind \notin kinds
    BY <1>4, <1>6
  <1> QED BY <1>5, <1>6

LEMMA TellsPut ==
  ASSUME NEW text, NEW kinds, NEW i \in Nat, NEW f, Tells(f, text, kinds, i), text[i + 1].kind \in kinds
  PROVE  Tells(Put(f, text[i + 1].key, extractValue(text[i + 1])), text, kinds, i + 1)
  <1>1. PICK key, val : key = text[i + 1].key /\ val = extractValue(text[i + 1])
    OBVIOUS
  <1>2. PICK g : g = Put(f, key, val)
    OBVIOUS
  <1>3. DOMAIN g = DOMAIN f \cup {key}
    BY <1>2, PutFacts
  <1>4. DOMAIN g = KeysTo(text, kinds, i + 1)
    BY <1>1, <1>3, KeysToStep DEF Tells
  <1>5. ASSUME NEW k \in DOMAIN g
        PROVE  \E j : IsLast(text, kinds, k, i + 1, j) /\ g[k] = extractValue(text[j])
    <2>1. CASE k = key
      <3>1. g[k] = val
        BY <1>2, <2>1, PutAt
      <3>2. i + 1 \in 1 .. i + 1 /\ \A l \in 1 .. i + 1 : l <= i + 1
        OBVIOUS
      <3>3. Has(text, kinds, k, i + 1)
        BY <1>1, <2>1 DEF Has
      <3>4. IsLast(text, kinds, k, i + 1, i + 1)
        BY <3>2, <3>3 DEF IsLast
      <3> QED BY <1>1, <3>1, <3>4
    <2>2. CASE k # key
      <3>1. k \in DOMAIN f
        BY <1>3, <1>5, <2>2
      <3>2. g[k] = f[k]
        BY <1>2, <2>2, <3>1, PutOther
      <3>3. PICK j : IsLast(text, kinds, k, i, j) /\ f[k] = extractValue(text[j])
        BY <3>1 DEF Tells
      <3>4. ~Has(text, kinds, k, i + 1)
        BY <1>1, <2>2 DEF Has
      <3>5. IsLast(text, kinds, k, i + 1, j)
        <4>1. j \in 1 .. i + 1 /\ Has(text, kinds, k, j)
          BY <3>3 DEF IsLast
        <4>2. \A l \in 1 .. i + 1 : l = i + 1 \/ l \in 1 .. i
          OBVIOUS
        <4> QED BY <3>3, <3>4, <4>1, <4>2 DEF IsLast
      <3> QED BY <3>2, <3>3, <3>5
    <2> QED BY <2>1, <2>2
  <1>6. Tells(g, text, kinds, i + 1)
    BY <1>4, <1>5 DEF Tells
  <1> QED BY <1>1, <1>2, <1>6

LEMMA TellsSkip ==
  ASSUME NEW text, NEW kinds, NEW i \in Nat, NEW f, Tells(f, text, kinds, i), text[i + 1].kind \notin kinds
  PROVE  Tells(f, text, kinds, i + 1)
  <1>1. DOMAIN f = KeysTo(text, kinds, i + 1)
    <2>1. DOMAIN f = KeysTo(text, kinds, i)
      BY DEF Tells
    <2>2. KeysTo(text, kinds, i + 1) = KeysTo(text, kinds, i)
      BY KeysToStep
    <2> QED BY <2>1, <2>2
  <1>2. ASSUME NEW k \in DOMAIN f
        PROVE  \E j : IsLast(text, kinds, k, i + 1, j) /\ f[k] = extractValue(text[j])
    <2>1. PICK j : IsLast(text, kinds, k, i, j) /\ f[k] = extractValue(text[j])
      BY <1>2 DEF Tells
    <2>2. ~Has(text, kinds, k, i + 1)
      BY DEF Has
    <2>3. j \in 1 .. i + 1 /\ Has(text, kinds, k, j)
      BY <2>1 DEF IsLast
    <2>4. \A l \in 1 .. i + 1 : l = i + 1 \/ l \in 1 .. i
      OBVIOUS
    <2>5. IsLast(text, kinds, k, i + 1, j)
      BY <2>1, <2>2, <2>3, <2>4 DEF IsLast
    <2> QED BY <2>1, <2>5
  <1> QED BY <1>1, <1>2 DEF Tells

\* p is what the first i lines of text parse to.
ParsedTo(p, text, i) == Tells(p.metrics, text, Samples, i) /\ Tells(p.labels, text, {"text"}, i)

LEMMA ParsedStep ==
  ASSUME NEW text, NEW i \in Nat, NEW K, NEW V, NEW p \in [metrics : Maps(K, V), labels : Maps(K, V)],
         text[i + 1].key \in K, extractValue(text[i + 1]) \in V
  PROVE  /\ ParsedLine(p, text[i + 1]) \in [metrics : Maps(K, V), labels : Maps(K, V)]
         /\ ParsedTo(p, text, i) => ParsedTo(ParsedLine(p, text[i + 1]), text, i + 1)
  <1>1. PICK l : l = text[i + 1]
    OBVIOUS
  <1>2. PICK m, n : m = p.metrics /\ n = p.labels
    OBVIOUS
  <1>3. p = [metrics |-> m, labels |-> n] /\ m \in Maps(K, V) /\ n \in Maps(K, V)
    BY <1>2
  <1>4. PICK key \in K, val \in V : key = l.key /\ val = extractValue(l)
    BY <1>1
  <1>5. CASE l.kind \in Samples
    <2>1. PICK q : q = Put(m, key, val)
      OBVIOUS
    <2>2. ParsedLine(p, l) = [metrics |-> q, labels |-> n]
      <3>1. ParsedLine(p, l) = [p EXCEPT !.metrics = Put(m, l.key, extractValue(l))]
        BY <1>2, <1>5 DEF ParsedLine, IsSample, Samples
      <3> QED BY <1>3, <1>4, <2>1, <3>1
    <2>3. q \in Maps(K, V)
      BY <1>3, <2>1, PutMaps
    <2>4. ASSUME ParsedTo(p, text, i)
          PROVE  Tells(q, text, Samples, i + 1) /\ Tells(n, text, {"text"}, i + 1)
      <3>1. Tells(m, text, Samples, i) /\ Tells(n, text, {"text"}, i)
        BY <1>2, <2>4 DEF ParsedTo
      <3>2. text[i + 1].kind \in Samples /\ text[i + 1].kind \notin {"text"}
        BY <1>1, <1>5 DEF Samples
      <3>3. Tells(q, text, Samples, i + 1)
        BY <1>1, <1>4, <2>1, <3>1, <3>2, TellsPut
      <3>4. Tells(n, text, {"text"}, i + 1)
        BY <3>1, <3>2, TellsSkip
      <3> QED BY <3>3, <3>4
    <2> QED BY <1>1, <1>3, <2>2, <2>3, <2>4 DEF ParsedTo
  <1>6. CASE l.kind = "text"
    <2>1. PICK q : q = Put(n, key, val)
      OBVIOUS
    <2>2. ParsedLine(p, l) = [metrics |-> m, labels |-> q]
      <3>1. ParsedLine(p, l) = [p EXCEPT !.labels = Put(n, l.key, extractValue(l))]
        BY <1>2, <1>6 DEF ParsedLine, IsSample, extractValue
      <3> QED BY <1>3, <1>4, <2>1, <3>1
    <2>3. q \in Maps(K, V)
      BY <1>3, <2>1, PutMaps
    <2>4. ASSUME ParsedTo(p, text, i)
          PROVE  Tells(m, text, Samples, i + 1) /\ Tells(q, text, {"text"}, i + 1)
      <3>1. Tells(m, text, Samples, i) /\ Tells(n, text, {"text"}, i)
        BY <1>2, <2>4 DEF ParsedTo
      <3>2. text[i + 1].kind \in {"text"} /\ text[i + 1].kind \notin Samples
        BY <1>1, <1>6 DEF Samples
      <3>3. Tells(q, text, {"text"}, i + 1)
        BY <1>1, <1>4, <2>1, <3>1, <3>2, TellsPut
      <3>4. Tells(m, text, Samples, i + 1)
        BY <3>1, <3>2, TellsSkip
      <3> QED BY <3>3, <3>4
    <2> QED BY <1>1, <1>3, <2>2, <2>3, <2>4 DEF ParsedTo
  <1>7. CASE l.kind \notin Samples /\ l.kind \notin {"text"}
    <2>1. ParsedLine(p, l) = p
      BY <1>7 DEF ParsedLine, IsSample, Samples
    <2>2. ASSUME ParsedTo(p, text, i) PROVE ParsedTo(p, text, i + 1)
      BY <1>1, <1>7, <2>2, TellsSkip DEF ParsedTo
    <2> QED BY <1>1, <2>1, <2>2
  <1> QED BY <1>5, <1>6, <1>7

LEMMA ParsedFold ==
  ASSUME NEW text, text \in Seq(ToSet(text))
  PROVE  /\ ParsedTo(FoldLeft(ParsedLine, Nothing, text), text, Len(text))
         /\ \E m, l : FoldLeft(ParsedLine, Nothing, text) = [metrics |-> m, labels |-> l]
  <1>1. PICK n : n = Len(text) /\ n \in Nat
    OBVIOUS
  <1>2. DOMAIN text = 1 .. n
    BY <1>1
  <1>3. PICK K, V : K = {text[i].key : i \in 1 .. n} /\ V = {extractValue(text[i]) : i \in 1 .. n}
    OBVIOUS
  <1>4. PICK A : A = [metrics : Maps(K, V), labels : Maps(K, V)]
    OBVIOUS
  <1>5. PICK step : step = [i \in 1 .. n |-> [p \in A |-> ParsedLine(p, text[i])]]
    OBVIOUS
  <1>6. \A i \in 1 .. n : \A p \in A : step[i][p] = ParsedLine(p, text[i])
    BY <1>5
  <1>7. ASSUME NEW i \in 0 .. n, i < n, NEW p \in A
        PROVE  /\ ParsedLine(p, text[i + 1]) \in A
               /\ ParsedTo(p, text, i) => ParsedTo(ParsedLine(p, text[i + 1]), text, i + 1)
    <2>1. i \in Nat /\ i + 1 \in 1 .. n
      BY <1>1, <1>7
    <2>2. text[i + 1].key \in K /\ extractValue(text[i + 1]) \in V
      BY <1>3, <2>1
    <2> QED BY <1>4, <2>1, <2>2, ParsedStep
  <1>8. step \in [1 .. n -> [A -> A]]
    <2>1. ASSUME NEW i \in 1 .. n, NEW p \in A PROVE ParsedLine(p, text[i]) \in A
      <3>1. i - 1 \in 0 .. n /\ i - 1 < n /\ (i - 1) + 1 = i
        BY <1>1
      <3> QED BY <1>7, <3>1
    <2> QED BY <1>5, <2>1
  <1>9. Nothing \in A
    BY <1>4, EmptyMap DEF Nothing
  <1>10. PICK it \in [SUBSET (1 .. n) -> A] : Recurs(it, 1 .. n, Nothing, step)
    BY <1>1, <1>8, <1>9, FoldExists
  <1>11. it = [s \in SUBSET (1 .. n) |->
                 IF s = {} THEN Nothing ELSE ParsedLine(it[s \ {Max(s)}], text[Max(s)])]
    <2>1. ASSUME NEW s \in SUBSET (1 .. n), s # {}
          PROVE  it[s] = ParsedLine(it[s \ {Max(s)}], text[Max(s)])
      <3>1. Max(s) \in 1 .. n /\ it[s \ {Max(s)}] \in A
        BY <1>1, <1>10, <2>1, MaxIn
      <3>2. it[s] = step[Max(s)][it[s \ {Max(s)}]]
        BY <1>10, <2>1 DEF Recurs
      <3> QED BY <1>6, <3>1, <3>2
    <2>2. it[{}] = Nothing
      BY <1>10 DEF Recurs
    <2> QED BY <1>10, <2>1, <2>2
  <1>12. PICK f : /\ f = [s \in SUBSET (1 .. n) |->
                            IF s = {} THEN Nothing ELSE ParsedLine(f[s \ {Max(s)}], text[Max(s)])]
                  /\ FoldLeft(ParsedLine, Nothing, text) = f[1 .. n]
    BY <1>2, <1>11 DEF FoldLeft, MapThenFoldSet
  <1>13. ASSUME NEW i \in 1 .. n, f[1 .. (i - 1)] \in A
         PROVE  f[1 .. i] = step[i][f[1 .. (i - 1)]]
    <2>1. /\ 1 .. i \in SUBSET (1 .. n) /\ 1 .. i # {} /\ Max(1 .. i) = i
          /\ (1 .. i) \ {i} = 1 .. (i - 1)
      BY <1>1, Initials
    <2>2. f[1 .. i] = ParsedLine(f[1 .. (i - 1)], text[i])
      BY <1>12, <2>1
    <2> QED BY <1>6, <1>13, <2>2
  <1>14. Steps(f, A, n, Nothing, step)
    <2>1. f[{}] = Nothing
      BY <1>12
    <2> QED BY <1>13, <2>1 DEF Steps
  <1>15. PICK g : Loop(g, A, n, Nothing, step, f[1 .. n])
    <2>1. n \in Nat
      BY <1>1
    <2> QED BY <2>1, <1>8, <1>9, <1>14, FoldLoop
  <1>16. PICK H : H = {i \in 0 .. n : ParsedTo(g[i], text, i)}
    OBVIOUS
  <1>17. 0 \in H
    <2>1. g[0] = Nothing /\ 0 \in 0 .. n
      BY <1>1, <1>15 DEF Loop
    <2>2. Nothing.metrics = <<>> /\ Nothing.labels = <<>>
      BY DEF Nothing
    <2>3. DOMAIN <<>> = {}
      OBVIOUS
    <2>4. \A kinds : KeysTo(text, kinds, 0) = {}
      BY DEF KeysTo
    <2>5. \A kinds : Tells(<<>>, text, kinds, 0)
      BY <2>3, <2>4 DEF Tells
    <2>6. ParsedTo(g[0], text, 0)
      BY <2>1, <2>2, <2>5 DEF ParsedTo
    <2> QED BY <1>16, <2>1, <2>6
  <1>18. ASSUME NEW i \in 0 .. n, i \in H, i < n PROVE i + 1 \in H
    <2>1. i \in Nat /\ i + 1 \in 1 .. n /\ i + 1 \in 0 .. n /\ (i + 1) - 1 = i
      BY <1>1, <1>18
    <2>2. g[i] \in A /\ g[i + 1] = step[i + 1][g[i]]
      BY <1>15, <2>1 DEF Loop
    <2>3. g[i + 1] = ParsedLine(g[i], text[i + 1])
      BY <1>6, <2>1, <2>2
    <2>4. ParsedTo(g[i + 1], text, i + 1)
      BY <1>7, <1>16, <1>18, <2>2, <2>3
    <2> QED BY <1>16, <2>1, <2>4
  <1>19. n \in H
    <2>1. \A i \in 0 .. n : i \in H
      BY <1>1, <1>17, <1>18, UpFrom0
    <2> QED BY <1>1, <2>1
  <1>20. g[n] = FoldLeft(ParsedLine, Nothing, text) /\ g[n] \in A
    BY <1>1, <1>12, <1>15 DEF Loop
  <1>21. g[n] = [metrics |-> g[n].metrics, labels |-> g[n].labels]
    BY <1>4, <1>20
  <1> QED BY <1>1, <1>16, <1>19, <1>20, <1>21

\* A key that lines of one kind alone have is told by the last of them.
LEMMA TellsLast ==
  ASSUME NEW text, text \in Seq(ToSet(text)), NEW kinds, NEW f, Tells(f, text, kinds, Len(text)),
         NEW kind \in kinds, NEW k \in Keys(text, kind),
         \A i \in DOMAIN text : text[i].kind \in kinds /\ text[i].key = k => text[i].kind = kind
  PROVE  k \in DOMAIN f /\ \E j \in DOMAIN text :
           text[j].kind = kind /\ f[k] = extractValue(text[j]) /\ LastOf(text, kind, k) = text[j].val
  <1>1. DOMAIN text = 1 .. Len(text) /\ Len(text) \in Nat
    OBVIOUS
  <1>2. k \in DOMAIN f
    BY <1>1 DEF Tells, KeysTo, Keys
  <1>3. PICK j : IsLast(text, kinds, k, Len(text), j) /\ f[k] = extractValue(text[j])
    BY <1>2 DEF Tells
  <1>4. PICK at : at = {i \in DOMAIN text : text[i].kind = kind /\ text[i].key = k}
    OBVIOUS
  <1>5. j \in DOMAIN text /\ text[j].kind = kind /\ j \in at
    BY <1>1, <1>3, <1>4 DEF IsLast, Has
  <1>6. at \subseteq Int /\ \A l \in at : l <= j
    BY <1>1, <1>3, <1>4 DEF IsLast, Has
  <1>7. \A i \in at : (\A l \in at : l <= i) => i = j
    BY <1>5, <1>6
  <1>8. (CHOOSE i \in at : \A l \in at : l <= i) = j
    BY <1>5, <1>6, <1>7
  <1>9. LastOf(text, kind, k) = text[j].val
    BY <1>4, <1>8 DEF LastOf
  <1> QED BY <1>2, <1>3, <1>5, <1>9

\* A line with a label, which only a sample has.
LEMMA FamilyLabelSome ==
  ASSUME NEW text, NEW i \in DOMAIN text, IsSample(text[i]), text[i].label # Empty
  PROVE  FamilyLabel(text, text[i].key) # {}
  <1>1. PICK k : k = text[i].key
    OBVIOUS
  <1>2. PICK at : at = {j \in DOMAIN text : IsSample(text[j]) /\ text[j].key = k /\ text[j].label # Empty}
    OBVIOUS
  <1>3. at # {}
    BY <1>1, <1>2
  <1>4. FamilyLabel(text, k) = IF at = {} THEN {} ELSE {text[Max(at)].label}
    BY <1>2, Zenon DEF FamilyLabel, Empty
  <1> QED BY <1>1, <1>3, <1>4

LEMMA FamilyLabelOf ==
  ASSUME NEW text, NEW k, FamilyLabel(text, k) # {}
  PROVE  \E i \in DOMAIN text : text[i].label # Empty
  <1>1. PICK at : at = {j \in DOMAIN text : IsSample(text[j]) /\ text[j].key = k /\ text[j].label # Empty}
    OBVIOUS
  <1>2. FamilyLabel(text, k) = IF at = {} THEN {} ELSE {text[Max(at)].label}
    BY <1>1, Zenon DEF FamilyLabel, Empty
  <1>3. at # {}
    BY <1>2
  <1> QED BY <1>1, <1>3

\* The metrics m say what the samples of text say.
MetricsOf(m, text) ==
  /\ DOMAIN m = Keys(text, "number") \cup Keys(text, "compound")
  /\ \A k \in Keys(text, "number") : m[k] = LastOf(text, "number", k)
  /\ \A k \in Keys(text, "compound") : m[k] = 0

LabelsOf(l, text) ==
  DOMAIN l = Keys(text, "text") /\ \A k \in Keys(text, "text") : l[k] = LastOf(text, "text", k)

\* p is right for text.
Parses(p, format, text) ==
  IF format = "prometheus" /\ Keys(text, "text") # {} THEN p.metrics = <<>> /\ p.labels = <<>>
  ELSE /\ MetricsOf(p.metrics, text)
       /\ format # "prometheus" => LabelsOf(p.labels, text)
       /\ format = "prometheus" =>
            ("l" \in DOMAIN p.labels <=> \E i \in DOMAIN text : text[i].label # Empty)

\* Only samples have a label, and no metric is of two kinds.
Regular(text) ==
  /\ text \in Seq(ToSet(text))
  /\ \A i \in DOMAIN text : ~IsSample(text[i]) => text[i].label = Empty
  /\ \A i, j \in DOMAIN text : text[i].kind = "compound" /\ text[j].kind = "number" => text[i].key # text[j].key

LEMMA ParsedToRight ==
  ASSUME NEW text, Regular(text), NEW p, ParsedTo(p, text, Len(text))
  PROVE  MetricsOf(p.metrics, text) /\ LabelsOf(p.labels, text)
  <1>1. text \in Seq(ToSet(text)) /\ DOMAIN text = 1 .. Len(text)
    BY DEF Regular
  <1>2. PICK m, l : p.metrics = m /\ p.labels = l
    OBVIOUS
  <1>3. Tells(m, text, Samples, Len(text)) /\ Tells(l, text, {"text"}, Len(text))
    BY <1>2 DEF ParsedTo
  <1>4. DOMAIN m = Keys(text, "number") \cup Keys(text, "compound")
    <2>1. DOMAIN m = {text[i].key : i \in {j \in DOMAIN text : text[j].kind \in Samples}}
      BY <1>1, <1>3 DEF Tells, KeysTo
    <2> QED BY <2>1 DEF Keys, Samples
  <1>5. DOMAIN l = Keys(text, "text")
    <2>1. DOMAIN l = {text[i].key : i \in {j \in DOMAIN text : text[j].kind \in {"text"}}}
      BY <1>1, <1>3 DEF Tells, KeysTo
    <2> QED BY <2>1 DEF Keys
  <1>6. ASSUME NEW k \in Keys(text, "number") PROVE m[k] = LastOf(text, "number", k)
    <2>1. PICK h \in DOMAIN text : text[h].kind = "number" /\ text[h].key = k
      BY <1>6 DEF Keys
    <2>2. \A i \in DOMAIN text : text[i].kind \in Samples /\ text[i].key = k => text[i].kind = "number"
      BY <2>1 DEF Regular, Samples
    <2>3. "number" \in Samples
      BY DEF Samples
    <2>4. PICK j \in DOMAIN text :
            text[j].kind = "number" /\ m[k] = extractValue(text[j]) /\ LastOf(text, "number", k) = text[j].val
      BY <1>1, <1>3, <1>6, <2>2, <2>3, TellsLast
    <2> QED BY <2>4 DEF extractValue
  <1>7. ASSUME NEW k \in Keys(text, "compound") PROVE m[k] = 0
    <2>1. PICK h \in DOMAIN text : text[h].kind = "compound" /\ text[h].key = k
      BY <1>7 DEF Keys
    <2>2. \A i \in DOMAIN text : text[i].kind \in Samples /\ text[i].key = k => text[i].kind = "compound"
      BY <2>1 DEF Regular, Samples
    <2>3. "compound" \in Samples
      BY DEF Samples
    <2>4. PICK j \in DOMAIN text : text[j].kind = "compound" /\ m[k] = extractValue(text[j])
      BY <1>1, <1>3, <1>7, <2>2, <2>3, TellsLast
    <2> QED BY <2>4 DEF extractValue
  <1>8. ASSUME NEW k \in Keys(text, "text") PROVE l[k] = LastOf(text, "text", k)
    <2>1. PICK j \in DOMAIN text :
            text[j].kind = "text" /\ l[k] = extractValue(text[j]) /\ LastOf(text, "text", k) = text[j].val
      BY <1>1, <1>3, <1>8, TellsLast
    <2> QED BY <2>1 DEF extractValue
  <1>9. MetricsOf(m, text) /\ LabelsOf(l, text)
    BY <1>4, <1>5, <1>6, <1>7, <1>8 DEF MetricsOf, LabelsOf
  <1> QED BY <1>2, <1>9

\* What the scanner reads is a text as far as it can be read.
LEMMA ScannedReadable ==
  ASSUME NEW text, Regular(text), NEW format, format # "prometheus"
  PROVE  Readable(format, text) = Scanned(text) /\ Regular(Scanned(text))
  <1>1. PICK long : long = {i \in DOMAIN text : text[i].kind = "long"}
    OBVIOUS
  <1>2. text \in Seq(ToSet(text)) /\ DOMAIN text = 1 .. Len(text) /\ Len(text) \in Nat
    BY DEF Regular
  <1>3. PICK n \in 0 .. Len(text) :
          /\ Scanned(text) = SubSeq(text, 1, n)
          /\ \A i \in 1 .. n : text[i].kind # "long"
          /\ n < Len(text) => text[n + 1].kind = "long"
    <2>1. CASE long = {}
      <3>1. Scanned(text) = text
        BY <1>1, <2>1 DEF Scanned
      <3>2. SubSeq(text, 1, Len(text)) = text
        BY <1>2
      <3>3. \A i \in 1 .. Len(text) : text[i].kind # "long"
        BY <1>1, <1>2, <2>1
      <3>4. Len(text) \in 0 .. Len(text) /\ ~(Len(text) < Len(text))
        BY <1>2
      <3> QED BY <3>1, <3>2, <3>3, <3>4
    <2>2. CASE long # {}
      <3>1. long \in SUBSET (1 .. Len(text)) /\ long \in SUBSET Nat
        BY <1>1, <1>2
      <3>2. Min(long) \in long /\ \A i \in long : Min(long) <= i
        BY <2>2, <3>1, MinIs
      <3>3. PICK a \in 1 .. Len(text) : a = Min(long)
        BY <3>1, <3>2
      <3>4. Scanned(text) = SubSeq(text, 1, a - 1)
        BY <1>1, <2>2, <3>3 DEF Scanned
      <3>5. a - 1 \in 0 .. Len(text) /\ (a - 1) + 1 = a /\ \A i \in 1 .. (a - 1) : i \in 1 .. Len(text) /\ ~(a <= i)
        BY <1>2, <3>3
      <3>6. text[a].kind = "long" /\ \A i \in 1 .. (a - 1) : text[i].kind # "long"
        BY <1>1, <1>2, <3>2, <3>3, <3>5
      <3> QED BY <3>4, <3>5, <3>6
    <2> QED BY <2>1, <2>2
  <1>4. PICK s : s = Scanned(text)
    OBVIOUS
  <1>5. s \in Seq(ToSet(text)) /\ Len(s) = n /\ DOMAIN s = 1 .. n /\ \A i \in 1 .. n : s[i] = text[i]
    BY <1>2, <1>3, <1>4
  <1>6. Regular(s)
    <2>1. s \in Seq(ToSet(s))
      BY <1>5 DEF ToSet
    <2>2. \A i \in DOMAIN s : i \in DOMAIN text /\ s[i] = text[i]
      BY <1>2, <1>3, <1>5
    <2> QED BY <2>1, <2>2 DEF Regular
  <1>7. PICK P : P = {SubSeq(text, 1, k) : k \in 0 .. Len(text)}
    OBVIOUS
  <1>8. s \in P
    BY <1>3, <1>4, <1>7
  <1>9. Keys(s, "long") = {} /\ (Len(s) < Len(text) => text[Len(s) + 1].kind = "long")
    BY <1>3, <1>5 DEF Keys
  <1>10. ASSUME NEW u \in P, Keys(u, "long") = {}, Len(u) < Len(text) => text[Len(u) + 1].kind = "long"
         PROVE  u = s
    <2>1. PICK k \in 0 .. Len(text) : u = SubSeq(text, 1, k)
      BY <1>7
    <2>2. Len(u) = k /\ DOMAIN u = 1 .. k /\ \A i \in 1 .. k : u[i] = text[i]
      BY <1>2, <2>1
    <2>3. \A i \in 1 .. k : text[i].kind # "long"
      BY <1>10, <2>2 DEF Keys
    <2>4. ~(k < n)
      <3> SUFFICES ASSUME k < n PROVE FALSE
        OBVIOUS
      <3>1. k + 1 \in 1 .. n /\ k < Len(text)
        BY <1>2
      <3> QED BY <1>3, <1>10, <2>2, <3>1
    <2>5. ~(n < k)
      <3> SUFFICES ASSUME n < k PROVE FALSE
        OBVIOUS
      <3>1. n + 1 \in 1 .. k /\ n < Len(text)
        BY <1>2
      <3> QED BY <1>3, <2>3, <3>1
    <2>6. k = n
      BY <2>4, <2>5
    <2> QED BY <1>3, <1>4, <2>1, <2>6
  <1>11. (CHOOSE u \in P : Keys(u, "long") = {} /\ (Len(u) < Len(text) => text[Len(u) + 1].kind = "long")) = s
    BY <1>8, <1>9, <1>10
  <1>12. Readable(format, text) = s
    BY <1>7, <1>11 DEF Readable
  <1> QED BY <1>4, <1>6, <1>12

LEMMA ParseRight ==
  ASSUME NEW text, Regular(text), NEW format, NEW p \in Parse(format, text)
  PROVE  Parses(p, format, Readable(format, text))
  <1>1. CASE format # "prometheus"
    <2>1. PICK s : s = Scanned(text) /\ Regular(s) /\ Readable(format, text) = s
      BY <1>1, ScannedReadable
    <2>2. p = FoldLeft(ParsedLine, Nothing, s)
      BY <1>1, <2>1 DEF Parse, parseCustom
    <2>3. ParsedTo(p, s, Len(s))
      BY <2>1, <2>2, ParsedFold DEF Regular
    <2>4. MetricsOf(p.metrics, s) /\ LabelsOf(p.labels, s)
      BY <2>1, <2>3, ParsedToRight
    <2> QED BY <1>1, <2>1, <2>4 DEF Parses
  <1>2. format = "prometheus" => Readable(format, text) = text
    BY DEF Readable
  <1>3. CASE format = "prometheus" /\ \E i \in DOMAIN text : text[i].kind = "text"
    <2>1. p = Nothing
      BY <1>3 DEF Parse, parsePrometheus
    <2>2. p.metrics = <<>> /\ p.labels = <<>>
      BY <2>1 DEF Nothing
    <2>3. Keys(text, "text") # {}
      BY <1>3 DEF Keys
    <2> QED BY <1>2, <1>3, <2>2, <2>3 DEF Parses
  <1>4. CASE format = "prometheus" /\ ~ \E i \in DOMAIN text : text[i].kind = "text"
    <2>1. Keys(text, "text") = {}
      BY <1>4 DEF Keys
    <2>2. PICK all : all = FoldLeft(ParsedLine, Nothing, text)
      OBVIOUS
    <2>3. text \in Seq(ToSet(text))
      BY DEF Regular
    <2>4. PICK m, l : all = [metrics |-> m, labels |-> l]
      BY <2>2, <2>3, ParsedFold
    <2>5. ParsedTo(all, text, Len(text))
      BY <2>2, <2>3, ParsedFold
    <2>6. all.metrics = m /\ all.labels = l
      BY <2>4
    <2>7. all = [metrics |-> m, labels |-> l] /\ MetricsOf(m, text) /\ LabelsOf(l, text)
      BY <2>4, <2>5, <2>6, ParsedToRight
    <2>8. PICK labels : labels = UNION {FamilyLabel(text, k) : k \in DOMAIN m}
      OBVIOUS
    <2>9. p \in IF labels = {} THEN {all} ELSE {[all EXCEPT !.labels = [l |-> v]] : v \in labels}
      BY <1>4, <2>2, <2>6, <2>8 DEF Parse, parsePrometheus
    <2>10. CASE labels = {}
      <3>1. p = all
        BY <2>9, <2>10
      <3>2. p.metrics = m /\ p.labels = l
        BY <2>6, <3>1
      <3>3. "l" \notin DOMAIN p.labels
        BY <2>1, <2>7, <3>2 DEF LabelsOf
      <3>4. ASSUME NEW i \in DOMAIN text, text[i].label # Empty PROVE FALSE
        <4>1. IsSample(text[i])
          BY <3>4 DEF Regular
        <4>2. text[i].key \in DOMAIN m
          BY <2>7, <4>1 DEF Keys, MetricsOf, IsSample
        <4>3. FamilyLabel(text, text[i].key) # {}
          BY <3>4, <4>1, FamilyLabelSome
        <4> QED BY <2>8, <2>10, <4>2, <4>3
      <3> QED BY <1>2, <1>4, <2>1, <2>7, <3>2, <3>3, <3>4 DEF Parses
    <2>11. CASE labels # {}
      <3>1. PICK v \in labels : p = [all EXCEPT !.labels = [l |-> v]]
        BY <2>9, <2>11
      <3>2. PICK r : r = [l |-> v]
        OBVIOUS
      <3>3. p = [all EXCEPT !.labels = r]
        BY <3>1, <3>2
      <3>4. p.metrics = m /\ p.labels = r
        BY <2>7, <3>3
      <3>5. "l" \in DOMAIN r
        BY <3>2
      <3>6. PICK k \in DOMAIN m : v \in FamilyLabel(text, k)
        BY <2>8, <3>1
      <3>7. \E i \in DOMAIN text : text[i].label # Empty
        BY <3>6, FamilyLabelOf
      <3> QED BY <1>2, <1>4, <2>1, <2>7, <3>4, <3>5, <3>7 DEF Parses
    <2> QED BY <2>10, <2>11
  <1> QED BY <1>1, <1>3, <1>4

LEMMA NothingParsed == Over(<<>>, [hostname |-> "host"]) = [hostname |-> "host"]
  <1>1. DOMAIN <<>> = {} /\ DOMAIN [hostname |-> "host"] = {"hostname"}
    OBVIOUS
  <1>2. Over(<<>>, [hostname |-> "host"]) = [k \in {"hostname"} |-> [hostname |-> "host"][k]]
    BY <1>1 DEF Over
  <1>3. [hostname |-> "host"] = [k \in {"hostname"} |-> [hostname |-> "host"][k]]
    BY <1>1
  <1> QED BY <1>2, <1>3

\* The event takes over what was parsed; own are metrics the task adds.
LEMMA ParsedEvent ==
  ASSUME NEW t, NEW w, NEW p, Parses(p, t.format, Readable(t.format, w.text)), NEW ev, NEW own,
         DOMAIN ev.metrics = DOMAIN p.metrics \cup own,
         \A k \in DOMAIN p.metrics : k \notin own => ev.metrics[k] = p.metrics[k],
         ev.labels = Dims(p.labels)
  PROVE  ParsedRight(t, w, ev, own)
  <1>1. PICK format, text : format = t.format /\ text = Readable(t.format, w.text)
    OBVIOUS
  <1>2. PICK metrics, labels : metrics = ev.metrics /\ labels = ev.labels
    OBVIOUS
  <1>3. Parses(p, format, text)
    BY <1>1
  <1>4. DOMAIN labels = DOMAIN p.labels \cup {"hostname"}
    <2>1. PICK h : h = [hostname |-> "host"]
      OBVIOUS
    <2>2. PICK q : q = p.labels
      OBVIOUS
    <2>3. DOMAIN h = {"hostname"}
      BY <2>1
    <2>4. labels = Over(q, h)
      BY <1>2, <2>1, <2>2 DEF Dims
    <2>5. DOMAIN Over(q, h) = DOMAIN q \cup DOMAIN h
      BY OverFacts
    <2> QED BY <2>2, <2>3, <2>4, <2>5
  <1>5. ASSUME NEW k \in DOMAIN p.labels PROVE labels[k] = p.labels[k]
    BY <1>2, OverFirst DEF Dims
  <1>6. CASE format = "prometheus" /\ Keys(text, "text") # {}
    <2>1. p.metrics = <<>> /\ p.labels = <<>>
      BY <1>3, <1>6 DEF Parses
    <2>2. DOMAIN <<>> = {}
      OBVIOUS
    <2>3. DOMAIN metrics = own
      BY <1>2, <2>1, <2>2
    <2>4. labels = [hostname |-> "host"]
      BY <1>2, <2>1, NothingParsed DEF Dims
    <2> QED BY <1>1, <1>2, <1>6, <2>3, <2>4, Zenon DEF ParsedRight
  <1>7. CASE ~(format = "prometheus" /\ Keys(text, "text") # {})
    <2>1. MetricsOf(p.metrics, text)
      BY <1>3, <1>7 DEF Parses
    <2>2. DOMAIN metrics = Keys(text, "number") \cup Keys(text, "compound") \cup own
      BY <1>2, <2>1 DEF MetricsOf
    <2>3. \A k \in Keys(text, "number") \ own : metrics[k] = LastOf(text, "number", k)
      BY <1>2, <2>1 DEF MetricsOf
    <2>4. \A k \in Keys(text, "compound") \ own : metrics[k] = 0
      BY <1>2, <2>1 DEF MetricsOf
    <2>5. ASSUME format # "prometheus"
          PROVE  /\ DOMAIN labels = Keys(text, "text") \cup {"hostname"}
                 /\ \A k \in Keys(text, "text") : labels[k] = LastOf(text, "text", k)
      <3>1. LabelsOf(p.labels, text)
        BY <1>3, <1>7, <2>5 DEF Parses
      <3> QED BY <1>4, <1>5, <3>1 DEF LabelsOf
    <2>6. ASSUME format = "prometheus"
          PROVE  "l" \in DOMAIN labels <=> \E i \in DOMAIN text : text[i].label # ""
      <3>1. "l" \in DOMAIN p.labels <=> \E i \in DOMAIN text : text[i].label # Empty
        BY <1>3, <1>7, <2>6 DEF Parses
      <3>2. "l" \in DOMAIN labels <=> \E i \in DOMAIN text : text[i].label # Empty
        BY <1>4, <3>1
      <3> QED BY <3>2, Zenon DEF Empty
    <2> QED BY <1>1, <1>2, <1>7, <2>2, <2>3, <2>4, <2>5, <2>6, Zenon DEF ParsedRight
  <1> QED BY <1>6, <1>7

\* The texts that Texts admits.
LEMMA TextFacts ==
  ASSUME NEW format \in DOMAIN Texts, NEW text \in Texts[format]
  PROVE  Regular(text)
  <1>1. text \in Seq(ToSet(text))
    BY WorldAssumption
  <1>2. \A i \in DOMAIN text : ~IsSample(text[i]) => text[i].label = Empty
    BY WorldAssumption, Zenon DEF Empty
  <1>3. \A i, j \in DOMAIN text :
          text[i].kind = "compound" /\ text[j].kind = "number" => text[i].key # text[j].key
    BY WorldAssumption
  <1> QED BY <1>1, <1>2, <1>3 DEF Regular

LEMMA ScriptEventRight ==
  ASSUME NEW t, t.format \in DOMAIN Texts, NEW w, w.text \in Texts[t.format], w.fails \in BOOLEAN,
         NEW d \in BOOLEAN, NEW done \in BOOLEAN, d => done, NEW ev \in ScriptEvents(t, w, d)
  PROVE  ScriptRight(t, w, ev, done)
  <1>1. PICK text : text = w.text
    OBVIOUS
  <1>2. Regular(text) /\ text \in Seq(ToSet(text))
    BY <1>1, TextFacts DEF Regular
  <1>3. PICK printed : printed = IF d THEN 0 .. Len(text) ELSE {Len(text)}
    OBVIOUS
  <1>4. PICK p : /\ \E n \in printed : p \in Parse(t.format, SubSeq(text, 1, n))
                 /\ ev = [error |-> w.fails \/ d, metrics |-> Put(p.metrics, "cost_ms", "ms"),
                          labels |-> Dims(p.labels), items |-> <<>>]
    BY <1>1, <1>3 DEF ScriptEvents
  <1>a. PICK n \in printed : p \in Parse(t.format, SubSeq(text, 1, n))
    BY <1>4
  <1>5. ev.error = (w.fails \/ d) /\ ev.metrics = Put(p.metrics, "cost_ms", "ms") /\ ev.labels = Dims(p.labels)
    BY <1>4
  <1>6. ev.metrics["cost_ms"] = "ms"
    BY <1>5, PutAt
  <1>7. ASSUME ~done PROVE ParsedRight(t, w, ev, {"cost_ms"})
    <2>1. n = Len(text)
      BY <1>3, <1>7
    <2>2. SubSeq(text, 1, n) = text
      BY <1>2, <2>1
    <2>3. Parses(p, t.format, Readable(t.format, w.text))
      BY <1>1, <1>2, <1>a, <2>2, ParseRight
    <2>4. DOMAIN ev.metrics = DOMAIN p.metrics \cup {"cost_ms"}
      <3>1. PICK m, k, v : m = p.metrics /\ k = "cost_ms" /\ v = "ms"
        OBVIOUS
      <3>2. DOMAIN Put(m, k, v) = DOMAIN m \cup {k}
        BY PutFacts
      <3>3. ev.metrics = Put(m, k, v)
        BY <1>5, <3>1
      <3> QED BY <3>1, <3>2, <3>3
    <2>5. \A k \in DOMAIN p.metrics : k \notin {"cost_ms"} => ev.metrics[k] = p.metrics[k]
      <3> SUFFICES ASSUME NEW k \in DOMAIN p.metrics, k # "cost_ms" PROVE ev.metrics[k] = p.metrics[k]
        OBVIOUS
      <3> QED BY <1>5, PutOther
    <2> QED BY <1>5, <2>3, <2>4, <2>5, ParsedEvent
  <1> QED BY <1>5, <1>6, <1>7 DEF ScriptRight

LEMMA MetricbeatEventRight ==
  ASSUME NEW t, t.format \in DOMAIN Texts, NEW w, w.text \in Texts[t.format],
         w.fails \in BOOLEAN, w.silent \in BOOLEAN,
         NEW d \in BOOLEAN, NEW done \in BOOLEAN, d => done, NEW ev \in MetricbeatEvents(t, w, d)
  PROVE  MetricbeatRight(t, w, ev, done)
  <1>1. PICK text : text = w.text
    OBVIOUS
  <1>2. Regular(text) /\ text \in Seq(ToSet(text))
    BY <1>1, TextFacts DEF Regular
  <1>3. PICK failed \in BOOLEAN : failed = (w.fails \/ d \/ w.silent)
    OBVIOUS
  <1>4. PICK p : /\ p \in IF failed THEN {Nothing} ELSE Parse(t.format, text)
                 /\ ev = [error |-> failed, metrics |-> p.metrics, labels |-> Dims(p.labels), items |-> <<>>]
    BY <1>1, <1>3 DEF MetricbeatEvents
  <1>5. ev.error = failed /\ ev.metrics = p.metrics /\ ev.labels = Dims(p.labels)
    BY <1>4
  <1>6. ASSUME ~ev.error PROVE ParsedRight(t, w, ev, {})
    <2>1. p \in Parse(t.format, text)
      BY <1>4, <1>5, <1>6
    <2>2. Parses(p, t.format, Readable(t.format, w.text))
      BY <1>1, <1>2, <2>1, ParseRight
    <2>3. DOMAIN ev.metrics = DOMAIN p.metrics \cup {}
      BY <1>5
    <2>4. \A k \in DOMAIN p.metrics : k \notin {} => ev.metrics[k] = p.metrics[k]
      BY <1>5
    <2> QED BY <1>5, <2>2, <2>3, <2>4, ParsedEvent
  <1>7. ASSUME ev.error PROVE ev.metrics = <<>>
    BY <1>4, <1>5, <1>7 DEF Nothing
  <1>8. ev.error => w.fails \/ w.silent \/ done
    BY <1>3, <1>5
  <1> QED BY <1>6, <1>7, <1>8 DEF MetricbeatRight

(***************************************************************************)
(* dmesg.                                                                  *)
(***************************************************************************)

\* How many patterns of M come before p.
Place(M, p) == Cardinality({q \in M : q < p})

LEMMA PlaceFacts ==
  ASSUME NEW M \in SUBSET Nat, NEW p \in Nat
  PROVE  IsFiniteSet({q \in M : q < p}) /\ Place(M, p) \in Nat
  <1>1. PICK B : B = {q \in M : q < p}
    OBVIOUS
  <1>a. \A q \in B : q \in Nat /\ q < p /\ q <= p
    BY <1>1
  <1>2. B \in SUBSET Nat /\ \A q \in B : q <= p
    BY <1>a
  <1>3. IsFiniteSet(B)
    BY <1>2, FS_BoundedSetOfNaturals
  <1>4. Cardinality(B) \in Nat
    BY <1>3, FS_CardinalityType
  <1> QED BY <1>1, <1>3, <1>4 DEF Place

LEMMA PlaceLess ==
  ASSUME NEW M \in SUBSET Nat, NEW p \in M, NEW q \in M, p < q
  PROVE  Place(M, p) + 1 <= Place(M, q)
  <1>1. PICK B, C : B = {r \in M : r < p} /\ C = {r \in M : r < q}
    OBVIOUS
  <1>2. IsFiniteSet(B) /\ IsFiniteSet(C)
    BY <1>1, PlaceFacts
  <1>a. p \in Nat /\ q \in Nat
    OBVIOUS
  <1>b. p \notin B /\ p \in C
    BY <1>1, <1>a
  <1>c. ASSUME NEW r \in B PROVE r \in C
    <2>1. r \in M /\ r < p
      BY <1>1
    <2>2. r \in Nat /\ r < q
      BY <1>a, <2>1
    <2> QED BY <1>1, <2>1, <2>2
  <1>3. p \notin B /\ B \cup {p} \in SUBSET C
    BY <1>b, <1>c
  <1>4. Cardinality(B \cup {p}) = Cardinality(B) + 1
    BY <1>2, <1>3, FS_AddElement
  <1>5. Cardinality(B \cup {p}) <= Cardinality(C)
    BY <1>2, <1>3, FS_Subset
  <1> QED BY <1>1, <1>4, <1>5 DEF Place

LEMMA PlaceInjective ==
  ASSUME NEW M \in SUBSET Nat, NEW p \in M, NEW q \in M, Place(M, p) = Place(M, q)
  PROVE  p = q
  <1>1. Place(M, p) \in Nat /\ Place(M, q) \in Nat
    BY PlaceFacts
  <1>2. CASE p < q
    <2>1. Place(M, p) + 1 <= Place(M, q)
      BY <1>2, PlaceLess
    <2> QED BY <1>1, <2>1
  <1>3. CASE q < p
    <2>1. Place(M, q) + 1 <= Place(M, p)
      BY <1>3, PlaceLess
    <2> QED BY <1>1, <2>1
  <1> QED BY <1>2, <1>3

\* A pattern is the first one, or the next after another.
LEMMA PlaceNext ==
  ASSUME NEW M \in SUBSET Nat, NEW m \in M
  PROVE  \/ Place(M, m) = 0
         \/ \E q \in M : q < m /\ Place(M, m) = Place(M, q) + 1
  <1>1. PICK B : B = {q \in M : q < m}
    OBVIOUS
  <1>2. CASE B = {}
    BY <1>1, <1>2, FS_EmptySet DEF Place
  <1>3. CASE B # {}
    <2>1. PICK T : T = {m - q : q \in B}
      OBVIOUS
    <2>2. \A q \in B : q \in Nat /\ q < m /\ m - q \in Nat
      BY <1>1
    <2>3. T \in SUBSET Nat /\ T # {}
      BY <1>3, <2>1, <2>2
    <2>4. PICK x \in T : \A y \in T : x <= y
      BY <2>3, Least
    <2>5. PICK q \in B : x = m - q
      BY <2>1
    <2>6. ASSUME NEW r \in B PROVE r <= q
      <3>1. m - r \in T
        BY <2>1
      <3>2. m - q <= m - r
        BY <2>4, <2>5, <3>1
      <3> QED BY <2>2, <3>2
    <2>7. PICK C : C = {r \in M : r < q}
      OBVIOUS
    <2>8. q \in M /\ q < m
      BY <1>1
    <2>9. B = C \cup {q} /\ q \notin C
      <3>1. \A r \in B : r \in C \cup {q}
        BY <1>1, <2>6, <2>7
      <3>2. \A r \in C \cup {q} : r \in B
        BY <1>1, <2>7, <2>8
      <3>3. q \in Nat
        BY <2>8
      <3>4. q \notin C
        BY <2>7, <3>3
      <3> QED BY <3>1, <3>2, <3>4
    <2>10. IsFiniteSet(C)
      BY <2>7, <2>8, PlaceFacts
    <2>11. Cardinality(B) = Cardinality(C) + 1
      BY <2>9, <2>10, FS_AddElement
    <2> QED BY <1>1, <2>7, <2>8, <2>11 DEF Place
  <1> QED BY <1>2, <1>3

\* Where the first c patterns are taken, the least of the others is the next.
LEMMA LeastOther ==
  ASSUME NEW M \in SUBSET Nat, NEW c \in Nat, NEW U \in SUBSET M,
         \A p \in M : p \notin U <=> Place(M, p) < c,
         NEW m \in U, \A p \in U : m <= p
  PROVE  Place(M, m) = c
  <1>1. m \in M /\ Place(M, m) \in Nat
    BY PlaceFacts
  <1>2. Place(M, m) >= c
    BY <1>1
  <1>3. CASE Place(M, m) = 0
    BY <1>2, <1>3
  <1>4. ASSUME NEW q \in M, q < m, Place(M, m) = Place(M, q) + 1 PROVE Place(M, m) = c
    <2>1. q \notin U
      BY <1>4
    <2>2. Place(M, q) < c /\ Place(M, q) \in Nat
      BY <2>1, PlaceFacts
    <2> QED BY <1>2, <1>4, <2>2
  <1> QED BY <1>1, <1>3, <1>4, PlaceNext

\* How often a text occurs in the first i lines.
Times(log, i, x) == Cardinality({j \in 1 .. i : log[j].text = x})

LEMMA TimesFacts ==
  ASSUME NEW log, NEW i \in Nat, NEW x
  PROVE  IsFiniteSet({j \in 1 .. i : log[j].text = x}) /\ Times(log, i, x) \in Nat
  <1>1. PICK B : B = {j \in 1 .. i : log[j].text = x}
    OBVIOUS
  <1>a. B \in SUBSET (1 .. i)
    BY <1>1
  <1>b. PICK D : D = 1 .. i
    OBVIOUS
  <1>c. IsFiniteSet(D)
    BY <1>b, FS_Interval
  <1>2. IsFiniteSet(B)
    BY <1>a, <1>b, <1>c, FS_Subset
  <1>3. Cardinality(B) \in Nat
    BY <1>2, FS_CardinalityType
  <1> QED BY <1>1, <1>2, <1>3 DEF Times

LEMMA TimesNext ==
  ASSUME NEW log, NEW i \in Nat, NEW x
  PROVE  Times(log, i + 1, x) = IF log[i + 1].text = x THEN Times(log, i, x) + 1 ELSE Times(log, i, x)
  <1>1. PICK B, C : B = {j \in 1 .. i : log[j].text = x} /\ C = {j \in 1 .. i + 1 : log[j].text = x}
    OBVIOUS
  <1>a. PICK D : D = 1 .. i /\ B \in SUBSET D
    BY <1>1
  <1>b. IsFiniteSet(D)
    BY <1>a, FS_Interval
  <1>2. IsFiniteSet(B)
    BY <1>a, <1>b, FS_Subset
  <1>3. CASE log[i + 1].text = x
    <2>1. C = B \cup {i + 1} /\ i + 1 \notin B
      BY <1>1, <1>3
    <2>2. Cardinality(C) = Cardinality(B) + 1
      BY <1>2, <2>1, FS_AddElement
    <2> QED BY <1>1, <1>3, <2>2 DEF Times
  <1>4. CASE log[i + 1].text # x
    <2>1. C = B
      BY <1>1, <1>4
    <2> QED BY <1>1, <1>4, <2>1 DEF Times
  <1> QED BY <1>3, <1>4

\* What collect has after i lines: every text under its first patterns, as many as it
\* has occurred times.
Reported(items, log, i) ==
  /\ \A k, j \in DOMAIN items : k # j => items[k] # items[j]
  /\ \A j \in DOMAIN log : \A p \in log[j].matches :
       <<p, log[j].text>> \in ToSet(items) <=> Place(log[j].matches, p) < Times(log, i, log[j].text)
  /\ \A x \in ToSet(items) : \E j \in DOMAIN log : \E p \in log[j].matches : x = <<p, log[j].text>>

Lines(log) ==
  /\ log \in Seq([text : STRING, matches : SUBSET Nat])
  /\ \A i, j \in DOMAIN log : log[i].text = log[j].text => log[i].matches = log[j].matches

LEMMA Appended ==
  ASSUME NEW S, NEW s \in Seq(S), NEW x \in S, x \notin ToSet(s),
         \A k, j \in DOMAIN s : k # j => s[k] # s[j]
  PROVE  /\ ToSet(Append(s, x)) = ToSet(s) \cup {x}
         /\ \A k, j \in DOMAIN Append(s, x) : k # j => Append(s, x)[k] # Append(s, x)[j]
  <1>1. PICK n \in Nat : n = Len(s)
    OBVIOUS
  <1>2. PICK u : u = Append(s, x)
    OBVIOUS
  <1>3. DOMAIN s = 1 .. n /\ DOMAIN u = 1 .. n + 1
    BY <1>1, <1>2
  <1>4. u[n + 1] = x /\ \A k \in 1 .. n : u[k] = s[k]
    BY <1>1, <1>2
  <1>5. \A k \in 1 .. n + 1 : k \in 1 .. n \/ k = n + 1
    OBVIOUS
  <1>6. \A k \in 1 .. n : s[k] # x
    BY <1>3 DEF ToSet
  <1>7. ASSUME NEW k \in DOMAIN u, NEW j \in DOMAIN u, k # j PROVE u[k] # u[j]
    BY <1>3, <1>4, <1>5, <1>6, <1>7
  <1>8. \A y \in ToSet(u) : y \in ToSet(s) \cup {x}
    BY <1>3, <1>4, <1>5 DEF ToSet
  <1>9. \A y \in ToSet(s) \cup {x} : y \in ToSet(u)
    <2>1. n + 1 \in DOMAIN u /\ \A k \in 1 .. n : k \in DOMAIN u
      BY <1>3
    <2>2. x \in ToSet(u)
      BY <1>4, <2>1 DEF ToSet
    <2>3. ASSUME NEW y \in ToSet(s) PROVE y \in ToSet(u)
      <3>1. PICK k \in 1 .. n : y = s[k]
        BY <1>3 DEF ToSet
      <3> QED BY <1>4, <2>1, <3>1 DEF ToSet
    <2> QED BY <2>2, <2>3
  <1>10. ToSet(u) = ToSet(s) \cup {x}
    BY <1>8, <1>9
  <1> QED BY <1>2, <1>7, <1>10

LEMMA LineStep ==
  ASSUME NEW log, Lines(log), NEW i \in Nat, i + 1 \in DOMAIN log,
         NEW items \in Seq(Nat \X STRING)
  PROVE  /\ DmesgLine(items, log[i + 1]) \in Seq(Nat \X STRING)
         /\ Reported(items, log, i) => Reported(DmesgLine(items, log[i + 1]), log, i + 1)
  <1>1. PICK M, x : M = log[i + 1].matches /\ x = log[i + 1].text
    OBVIOUS
  <1>2. M \in SUBSET Nat /\ x \in STRING
    <2>a. PICK R : R = [text : STRING, matches : SUBSET Nat]
      OBVIOUS
    <2>b. log \in Seq(R)
      BY <2>a DEF Lines
    <2>c. log[i + 1] \in R
      BY <2>b
    <2>1. log[i + 1] \in [text : STRING, matches : SUBSET Nat]
      BY <2>a, <2>c
    <2> QED BY <1>1, <2>1
  <1>3. PICK U : U = {p \in M : <<p, x>> \notin ToSet(items)}
    OBVIOUS
  <1>4. U = Unseen(ToSet(items), log[i + 1])
    BY <1>1, <1>3 DEF Unseen
  <1>5. U \in SUBSET Nat /\ U \in SUBSET M
    BY <1>2, <1>3
  <1>6. PICK c : c = Times(log, i, x) /\ c \in Nat
    BY TimesFacts
  <1>7. Times(log, i + 1, x) = c + 1
    BY <1>1, <1>6, TimesNext
  <1>8. \A j \in DOMAIN log : log[j].text # x => Times(log, i + 1, log[j].text) = Times(log, i, log[j].text)
    BY <1>1, TimesNext
  <1>9. \A j \in DOMAIN log : log[j].text = x => log[j].matches = M
    BY <1>1 DEF Lines
  <1>10. ASSUME Reported(items, log, i) PROVE \A p \in M : p \notin U <=> Place(M, p) < c
    BY <1>1, <1>3, <1>6, <1>10 DEF Reported
  <1>11. CASE U = {}
    <2>1. DmesgLine(items, log[i + 1]) = items
      BY <1>4, <1>11 DEF DmesgLine
    <2>2. ASSUME Reported(items, log, i) PROVE Reported(items, log, i + 1)
      <3>1. ASSUME NEW j \in DOMAIN log, NEW p \in log[j].matches
            PROVE  <<p, log[j].text>> \in ToSet(items) <=> Place(log[j].matches, p) < Times(log, i + 1, log[j].text)
        <4>1. CASE log[j].text = x
          <5>1. log[j].matches = M /\ p \in M /\ p \in Nat
            BY <1>2, <1>9, <4>1
          <5>2. Place(M, p) < c /\ Place(M, p) \in Nat
            BY <1>2, <1>10, <1>11, <2>2, <5>1, PlaceFacts
          <5>3. Place(M, p) < c + 1
            BY <1>6, <5>2
          <5>4. <<p, x>> \in ToSet(items)
            BY <1>3, <1>11, <5>1
          <5> QED BY <1>7, <4>1, <5>1, <5>3, <5>4
        <4>2. CASE log[j].text # x
          BY <1>8, <2>2, <4>2 DEF Reported
        <4> QED BY <4>1, <4>2
      <3> QED BY <2>2, <3>1 DEF Reported
    <2> QED BY <2>1, <2>2
  <1>12. CASE U # {}
    <2>1. PICK m : m = Min(U) /\ m \in U /\ \A p \in U : m <= p
      BY <1>5, <1>12, MinIs
    <2>2. PICK e : e = <<m, x>>
      OBVIOUS
    <2>3. PICK new : new = Append(items, e)
      OBVIOUS
    <2>4. DmesgLine(items, log[i + 1]) = new
      BY <1>1, <1>4, <1>12, <2>1, <2>2, <2>3 DEF DmesgLine
    <2>5. e \in Nat \X STRING /\ e \notin ToSet(items)
      BY <1>2, <1>3, <1>5, <2>1, <2>2
    <2>6. new \in Seq(Nat \X STRING)
      BY <2>3, <2>5
    <2>7. ASSUME Reported(items, log, i) PROVE Reported(new, log, i + 1)
      <3>1. ToSet(new) = ToSet(items) \cup {e} /\ \A k, j \in DOMAIN new : k # j => new[k] # new[j]
        <4>1. \A k, j \in DOMAIN items : k # j => items[k] # items[j]
          BY <2>7 DEF Reported
        <4>2. PICK S : S = Nat \X STRING
          OBVIOUS
        <4>3. items \in Seq(S) /\ e \in S
          BY <2>5, <4>2
        <4>4. /\ ToSet(Append(items, e)) = ToSet(items) \cup {e}
              /\ \A k, j \in DOMAIN Append(items, e) : k # j => Append(items, e)[k] # Append(items, e)[j]
          BY <2>5, <4>1, <4>3, Appended
        <4> QED BY <2>3, <4>4
      <3>2. Place(M, m) = c
        <4>1. \A p \in M : p \notin U <=> Place(M, p) < c
          BY <1>10, <2>7
        <4>2. m \in U /\ \A p \in U : m <= p
          BY <2>1
        <4> QED BY <1>2, <1>5, <1>6, <4>1, <4>2, LeastOther
      <3>3. ASSUME NEW j \in DOMAIN log, NEW p \in log[j].matches
            PROVE  <<p, log[j].text>> \in ToSet(new) <=> Place(log[j].matches, p) < Times(log, i + 1, log[j].text)
        <4>1. CASE log[j].text = x
          <5>1. log[j].matches = M /\ p \in M /\ p \in Nat
            BY <1>2, <1>9, <4>1
          <5>2. Place(M, p) \in Nat
            BY <1>2, <5>1, PlaceFacts
          <5>3. <<p, x>> \in ToSet(items) <=> Place(M, p) < c
            BY <1>3, <1>10, <2>7, <5>1
          <5>4. <<p, x>> = e <=> p = m
            BY <2>2
          <5>5. p = m <=> Place(M, p) = c
            BY <1>2, <1>5, <2>1, <3>2, <5>1, PlaceInjective
          <5>6. Place(M, p) < c + 1 <=> Place(M, p) < c \/ Place(M, p) = c
            BY <1>6, <5>2
          <5>7. <<p, x>> \in ToSet(new) <=> <<p, x>> \in ToSet(items) \/ <<p, x>> = e
            BY <3>1
          <5>8. <<p, x>> \in ToSet(new) <=> Place(M, p) < c + 1
            BY <5>3, <5>4, <5>5, <5>6, <5>7
          <5> QED BY <1>7, <4>1, <5>1, <5>8
        <4>2. CASE log[j].text # x
          <5>1. <<p, log[j].text>> # e
            BY <2>2, <4>2
          <5>2. <<p, log[j].text>> \in ToSet(new) <=> <<p, log[j].text>> \in ToSet(items)
            BY <3>1, <5>1
          <5>3. <<p, log[j].text>> \in ToSet(items) <=> Place(log[j].matches, p) < Times(log, i, log[j].text)
            BY <2>7 DEF Reported
          <5> QED BY <1>8, <4>2, <5>2, <5>3
        <4> QED BY <4>1, <4>2
      <3>4. ASSUME NEW y \in ToSet(new)
            PROVE  \E j \in DOMAIN log : \E p \in log[j].matches : y = <<p, log[j].text>>
        <4>1. CASE y \in ToSet(items)
          BY <2>7, <4>1 DEF Reported
        <4>2. CASE y = e
          BY <1>1, <1>5, <2>1, <2>2, <4>2
        <4> QED BY <3>1, <4>1, <4>2
      <3> QED BY <3>1, <3>3, <3>4 DEF Reported
    <2> QED BY <2>4, <2>6, <2>7
  <1> QED BY <1>11, <1>12


LEMMA DmesgFold ==
  ASSUME NEW log, Lines(log)
  PROVE  Reported(FoldLeft(DmesgLine, <<>>, log), log, Len(log))
  <1>1. PICK n : n = Len(log) /\ n \in Nat /\ DOMAIN log = 1 .. n
    <2>a. PICK R : log \in Seq(R)
      BY DEF Lines
    <2> QED BY <2>a
  <1>4. PICK A : A = Seq(Nat \X STRING)
    OBVIOUS
  <1>5. PICK step : step = [i \in 1 .. n |-> [s \in A |-> DmesgLine(s, log[i])]]
    OBVIOUS
  <1>6. \A i \in 1 .. n : \A s \in A : step[i][s] = DmesgLine(s, log[i])
    BY <1>5
  <1>7. ASSUME NEW i \in 0 .. n, i < n, NEW s \in A
        PROVE  /\ DmesgLine(s, log[i + 1]) \in A
               /\ Reported(s, log, i) => Reported(DmesgLine(s, log[i + 1]), log, i + 1)
    <2>1. i \in Nat /\ i + 1 \in DOMAIN log
      BY <1>1, <1>7
    <2>2. s \in Seq(Nat \X STRING)
      BY <1>4
    <2> QED BY <1>4, <2>1, <2>2, LineStep
  <1>8. step \in [1 .. n -> [A -> A]]
    <2>1. ASSUME NEW i \in 1 .. n, NEW s \in A PROVE DmesgLine(s, log[i]) \in A
      <3>1. i - 1 \in 0 .. n /\ i - 1 < n /\ (i - 1) + 1 = i
        BY <1>1
      <3> QED BY <1>7, <3>1
    <2> QED BY <1>5, <2>1
  <1>9. <<>> \in A
    BY <1>4
  <1>10. PICK it \in [SUBSET (1 .. n) -> A] : Recurs(it, 1 .. n, <<>>, step)
    BY <1>1, <1>8, <1>9, FoldExists
  <1>11. it = [s \in SUBSET (1 .. n) |->
                 IF s = {} THEN <<>> ELSE DmesgLine(it[s \ {Max(s)}], log[Max(s)])]
    <2>1. ASSUME NEW s \in SUBSET (1 .. n), s # {}
          PROVE  it[s] = DmesgLine(it[s \ {Max(s)}], log[Max(s)])
      <3>1. Max(s) \in 1 .. n /\ it[s \ {Max(s)}] \in A
        BY <1>1, <1>10, <2>1, MaxIn
      <3>2. it[s] = step[Max(s)][it[s \ {Max(s)}]]
        BY <1>10, <2>1 DEF Recurs
      <3> QED BY <1>6, <3>1, <3>2
    <2>2. it[{}] = <<>>
      BY <1>10 DEF Recurs
    <2> QED BY <1>10, <2>1, <2>2
  <1>12. PICK f : /\ f = [s \in SUBSET (1 .. n) |->
                            IF s = {} THEN <<>> ELSE DmesgLine(f[s \ {Max(s)}], log[Max(s)])]
                  /\ FoldLeft(DmesgLine, <<>>, log) = f[1 .. n]
    BY <1>1, <1>11 DEF FoldLeft, MapThenFoldSet
  <1>13. ASSUME NEW i \in 1 .. n, f[1 .. (i - 1)] \in A
         PROVE  f[1 .. i] = step[i][f[1 .. (i - 1)]]
    <2>1. /\ 1 .. i \in SUBSET (1 .. n) /\ 1 .. i # {} /\ Max(1 .. i) = i
          /\ (1 .. i) \ {i} = 1 .. (i - 1)
      BY <1>1, Initials
    <2>2. f[1 .. i] = DmesgLine(f[1 .. (i - 1)], log[i])
      BY <1>12, <2>1
    <2> QED BY <1>6, <1>13, <2>2
  <1>14. Steps(f, A, n, <<>>, step)
    <2>1. f[{}] = <<>>
      BY <1>12
    <2> QED BY <1>13, <2>1 DEF Steps
  <1>15. PICK g : Loop(g, A, n, <<>>, step, f[1 .. n])
    <2>1. n \in Nat
      BY <1>1
    <2> QED BY <2>1, <1>8, <1>9, <1>14, FoldLoop
  <1>16. PICK H : H = {i \in 0 .. n : Reported(g[i], log, i)}
    OBVIOUS
  <1>17. 0 \in H
    <2>1. g[0] = <<>> /\ 0 \in 0 .. n
      BY <1>1, <1>15 DEF Loop
    <2>2. DOMAIN <<>> = {} /\ ToSet(<<>>) = {}
      BY DEF ToSet
    <2>3. ASSUME NEW x PROVE Times(log, 0, x) = 0
      <3>1. {j \in 1 .. 0 : log[j].text = x} = {}
        OBVIOUS
      <3> QED BY <3>1, FS_EmptySet DEF Times
    <2>4. ASSUME NEW j \in DOMAIN log, NEW p \in log[j].matches
          PROVE  ~(Place(log[j].matches, p) < 0)
      <3>1. log[j].matches \in SUBSET Nat
        <4>1. PICK R : R = [text : STRING, matches : SUBSET Nat]
          OBVIOUS
        <4>2. log \in Seq(R)
          BY <4>1 DEF Lines
        <4>3. log[j] \in R
          BY <4>2
        <4> QED BY <4>1, <4>3
      <3>2. Place(log[j].matches, p) \in Nat
        BY <3>1, PlaceFacts
      <3> QED BY <3>2
    <2>5. Reported(<<>>, log, 0)
      BY <2>2, <2>3, <2>4 DEF Reported
    <2> QED BY <1>16, <2>1, <2>5
  <1>18. ASSUME NEW i \in 0 .. n, i \in H, i < n PROVE i + 1 \in H
    <2>1. i \in Nat /\ i + 1 \in 1 .. n /\ i + 1 \in 0 .. n /\ (i + 1) - 1 = i
      BY <1>1, <1>18
    <2>2. g[i] \in A /\ g[i + 1] = step[i + 1][g[i]]
      BY <1>15, <2>1 DEF Loop
    <2>3. g[i + 1] = DmesgLine(g[i], log[i + 1])
      BY <1>6, <2>1, <2>2
    <2>4. Reported(g[i + 1], log, i + 1)
      BY <1>7, <1>16, <1>18, <2>2, <2>3
    <2> QED BY <1>16, <2>1, <2>4
  <1>19. n \in H
    <2>1. \A i \in 0 .. n : i \in H
      BY <1>1, <1>17, <1>18, UpFrom0
    <2> QED BY <1>1, <2>1
  <1>20. g[n] = FoldLeft(DmesgLine, <<>>, log)
    BY <1>1, <1>12, <1>15 DEF Loop
  <1> QED BY <1>1, <1>16, <1>19, <1>20

LEMMA DmesgEventRight ==
  ASSUME NEW w, w.log \in Logs, w.fails \in BOOLEAN, NEW d \in BOOLEAN, NEW done \in BOOLEAN, d => done,
         NEW ev, ev = DmesgEvent(w, d)
  PROVE  /\ ev.metrics["total"] = Len(ev.items)
         /\ IF w.fails THEN ev.items = <<>> ELSE done \/ DmesgRight(w.log, ev.items)
  <1>1. PICK found : found = IF w.fails \/ d THEN <<>> ELSE FoldLeft(DmesgLine, <<>>, w.log)
    OBVIOUS
  <1>2. ev = [Event([total |-> Len(found)]) EXCEPT !.items = found]
    BY <1>1 DEF DmesgEvent
  <1>3. ev.metrics = [total |-> Len(found)] /\ ev.items = found
    BY <1>2 DEF Event
  <1>4. ev.metrics["total"] = Len(ev.items)
    BY <1>3
  <1>5. ASSUME ~w.fails, ~done PROVE DmesgRight(w.log, ev.items)
    <2>1. PICK log : log = w.log
      OBVIOUS
    <2>2. Lines(log)
      <3>1. log \in Logs
        BY <2>1
      <3> QED BY <3>1, WorldAssumption, Zenon DEF Lines
    <2>3. PICK items : items = found /\ items = FoldLeft(DmesgLine, <<>>, log)
      BY <1>1, <1>5, <2>1
    <2>4. Reported(items, log, Len(log))
      BY <2>2, <2>3, DmesgFold
    <2>5. DOMAIN log = 1 .. Len(log)
      BY <2>2 DEF Lines
    <2>6. ASSUME NEW l \in ToSet(log), NEW p \in l.matches
          PROVE  (<<p, l.text>> \in ToSet(items)) <=>
                   (Cardinality({q \in l.matches : q < p}) <
                      Cardinality({i \in DOMAIN log : log[i].text = l.text}))
      <3>1. PICK j \in DOMAIN log : l = log[j]
        BY DEF ToSet
      <3>2. <<p, l.text>> \in ToSet(items) <=> Place(l.matches, p) < Times(log, Len(log), l.text)
        BY <2>4, <3>1 DEF Reported
      <3> QED BY <2>5, <3>2 DEF Place, Times
    <2>7. ASSUME NEW x \in ToSet(items)
          PROVE  x \in UNION {{<<p, l.text>> : p \in l.matches} : l \in ToSet(log)}
      <3>1. PICK j \in DOMAIN log : \E p \in log[j].matches : x = <<p, log[j].text>>
        BY <2>4 DEF Reported
      <3>2. log[j] \in ToSet(log)
        BY DEF ToSet
      <3>3. x \in {<<p, log[j].text>> : p \in log[j].matches}
        BY <3>1
      <3> QED BY <3>2, <3>3, Zenon
    <2>8. \A i, j \in DOMAIN items : i # j => items[i] # items[j]
      BY <2>4 DEF Reported
    <2>9. DmesgRight(log, items)
      BY <2>6, <2>7, <2>8, Zenon DEF DmesgRight
    <2> QED BY <1>3, <2>1, <2>3, <2>9
  <1>6. ASSUME w.fails PROVE ev.items = <<>>
    BY <1>1, <1>3, <1>6
  <1> QED BY <1>4, <1>5, <1>6


(***************************************************************************)
(* Every event.                                                            *)
(***************************************************************************)

LEMMA EntryFacts ==
  ASSUME NEW t \in Scheduled
  PROVE  /\ t.typ \in {"tcp", "udp", "http", "script", "metricbeat", "dmesg", "processbeat",
                       "socketsnapshot", "basereport", "selfstats", "gather_up_beat",
                       "ping", "exceptionbeat"}
         /\ t.typ = "processbeat" => t.topN \in Nat \ {0}
         /\ t.typ \in {"script", "metricbeat"} => t.format \in DOMAIN Texts
         /\ t.parts \in SUBSET {"mem", "load", "disk", "net"} /\ t.paths \in Seq(Paths)
  <1>a. t \in CleanEntries /\ t.typ # "keyword"
    BY DEF Scheduled
  <1>1. t.typ \in ToSet(Sections) /\ t.topN \in Int /\ t.parts \in SUBSET {"mem", "load", "disk", "net"}
        /\ t.paths \in Seq(Paths)
    BY <1>a DEF CleanEntries
  <1>2. t.typ = "processbeat" => t.topN > 0
    BY <1>a DEF CleanEntries
  <1>3. t.typ \in {"script", "metricbeat"} => t.format \in DOMAIN Texts
    BY <1>a DEF CleanEntries
  <1>4. t.typ \in {"tcp", "udp", "http", "script", "metricbeat", "dmesg", "processbeat",
                   "socketsnapshot", "basereport", "selfstats", "gather_up_beat",
                   "ping", "exceptionbeat"}
    <2>1. PICK typ \in ToSet(Sections) : typ = t.typ
      BY <1>1
    <2>2. PICK i \in DOMAIN Sections : typ = Sections[i]
      BY DEF ToSet
    <2>3. typ \in {"tcp", "udp", "http", "script", "metricbeat", "dmesg", "processbeat",
                   "socketsnapshot", "basereport", "selfstats", "gather_up_beat",
                   "ping", "exceptionbeat", "keyword"}
      BY <2>2 DEF Sections
    <2> QED BY <1>a, <2>1, <2>3
  <1> QED BY <1>1, <1>2, <1>3, <1>4

LEMMA EventIsRight ==
  ASSUME NEW t \in Scheduled, NEW w \in Inputs(t), NEW d \in BOOLEAN, NEW done \in BOOLEAN, d => done,
         NEW ev \in Events(t, w, d)
  PROVE  EventRight(t, w, ev, done)
  <1>1. CASE t.typ \in {"tcp", "udp", "http"}
    <2>1. ev = ProbeEvent(t, w, d)
      BY <1>1 DEF Events
    <2>2. ProbeRight(t, w, ev, done)
      BY <1>1, <2>1, ProbeEventRight
    <2> QED BY <1>1, <2>2 DEF EventRight
  <1>2. CASE t.typ = "script"
    <2>1. w \in [text : Texts[t.format], fails : BOOLEAN, lingers : BOOLEAN]
      BY <1>2 DEF Inputs
    <2>2. ev \in ScriptEvents(t, w, d)
      BY <1>2 DEF Events
    <2>3. w.text \in Texts[t.format] /\ w.fails \in BOOLEAN /\ t.format \in DOMAIN Texts
      BY <1>2, <2>1, EntryFacts
    <2>4. ScriptRight(t, w, ev, done)
      BY <2>2, <2>3, ScriptEventRight
    <2> QED BY <1>2, <2>4 DEF EventRight
  <1>3. CASE t.typ = "metricbeat"
    <2>1. w \in [text : Texts[t.format], fails : BOOLEAN, silent : BOOLEAN]
      BY <1>3 DEF Inputs
    <2>2. ev \in MetricbeatEvents(t, w, d)
      BY <1>3 DEF Events
    <2>3. w.text \in Texts[t.format] /\ w.fails \in BOOLEAN /\ w.silent \in BOOLEAN /\ t.format \in DOMAIN Texts
      BY <1>3, <2>1, EntryFacts
    <2>4. MetricbeatRight(t, w, ev, done)
      BY <2>2, <2>3, MetricbeatEventRight
    <2> QED BY <1>3, <2>4 DEF EventRight
  <1>4. CASE t.typ = "dmesg"
    <2>1. w \in [log : Logs, fails : BOOLEAN]
      BY <1>4 DEF Inputs
    <2>2. ev = DmesgEvent(w, d)
      BY <1>4 DEF Events
    <2>3. w.log \in Logs /\ w.fails \in BOOLEAN
      BY <2>1
    <2>4. /\ ev.metrics["total"] = Len(ev.items)
          /\ IF w.fails THEN ev.items = <<>> ELSE done \/ DmesgRight(w.log, ev.items)
      BY <2>2, <2>3, DmesgEventRight
    <2> QED BY <1>4, <2>4 DEF EventRight
  <1>5. CASE t.typ = "processbeat"
    <2>1. w \in [table : Tables, fails : BOOLEAN]
      BY <1>5 DEF Inputs
    <2>2. ev \in ProcessbeatEvents(t, w)
      BY <1>5 DEF Events
    <2>3. IsFiniteSet(w.table) /\ \A p \in w.table : p.cpu \in Int
      BY <2>1, WorldAssumption
    <2>4. t.topN \in Nat \ {0}
      BY <1>5, EntryFacts
    <2>5. ev.metrics["total"] = Len(ev.items) /\ ProcessesRight(t, w, ev.items)
      BY <2>2, <2>3, <2>4, ProcessesEventRight
    <2> QED BY <1>5, <2>5 DEF EventRight
  <1>6. CASE t.typ = "socketsnapshot"
    <2>1. w \in [broken : SUBSET {"tcp", "udp"}, tcp : 0 .. MaxConns, udp : 0 .. MaxConns]
      BY <1>6 DEF Inputs
    <2>2. ev = SocketEvent(w)
      BY <1>6 DEF Events
    <2>3. w.tcp \in Nat /\ w.udp \in Nat
      BY <2>1
    <2>4. SocketRight(w, ev)
      BY <2>2, <2>3, SocketEventRight
    <2> QED BY <1>6, <2>4 DEF EventRight
  <1>7. CASE t.typ = "basereport"
    <2>1. ev = BasereportEvent(t, w, d)
      BY <1>7 DEF Events
    <2>2. BasereportRight(t, w, ev, done)
      BY <2>1, EntryFacts, BasereportEventRight
    <2> QED BY <1>7, <2>2 DEF EventRight
  <1>8. CASE t.typ \in {"selfstats", "gather_up_beat"}
    <2>1. ev = UptimeEvent
      BY <1>8 DEF Events
    <2>2. ev.error = FALSE
      BY <2>1 DEF UptimeEvent, Event
    <2> QED BY <1>8, <2>2 DEF EventRight
  <1>9. CASE t.typ = "ping"
    BY <1>9 DEF EventRight
  <1>10. CASE t.typ = "exceptionbeat"
    <2>1. ev = Event(<<>>)
      BY <1>10 DEF Events
    <2>2. ev.error = FALSE
      BY <2>1 DEF Event
    <2> QED BY <1>10, <2>2 DEF EventRight
  <1> QED BY <1>1, <1>2, <1>3, <1>4, <1>5, <1>6, <1>7, <1>8, <1>9, <1>10, EntryFacts

LEMMA IInvEventsRight == IInv => EventsRight
  <1> SUFFICES ASSUME Scalars, CallerInv, RunInv, EventInv, rpc = "send"
               PROVE  EventRight(Head(todo).t, input, event, Done)
    BY DEF IInv, EventsRight
  <1>1. PICK n, s : CopyOf(s, n) /\ \E j \in 0 .. (Len(s) - 1) : Progress(s, j, j + 1)
    BY DEF RunInv
  <1>2. PICK j \in 0 .. (Len(s) - 1) : Progress(s, j, j + 1)
    BY <1>1
  <1>3. s \in Seq(Jobs(n)) /\ Len(s) \in Nat
    BY <1>1, CopyFacts
  <1>4. j \in 0 .. Len(s) /\ j < Len(s) /\ j + 1 \in 1 .. Len(s)
    BY <1>2, <1>3
  <1>5. todo = [i \in 1 .. (Len(s) - j) |-> s[j + i]]
    BY <1>2 DEF Progress
  <1>6. Head(todo) = s[j + 1]
    <2>1. PICK X : X = Jobs(n)
      OBVIOUS
    <2>2. s \in Seq(X)
      BY <1>3, <2>1
    <2> QED BY <1>4, <1>5, <2>2, Rest
  <1>7. s[j + 1] \in Jobs(n)
    BY <1>3, <1>4
  <1>8. PICK t : t = Head(todo).t
    OBVIOUS
  <1>9. t \in Scheduled
    BY <1>6, <1>7, <1>8 DEF Jobs
  <1>10. input \in Inputs(t)
    BY <1>8 DEF EventInv
  <1>11. PICK d \in BOOLEAN : (d => Done) /\ event \in Events(t, input, d)
    BY <1>8 DEF EventInv
  <1>12. Done \in BOOLEAN
    BY Zenon DEF Done
  <1>13. EventRight(t, input, event, Done)
    BY <1>9, <1>10, <1>11, <1>12, EventIsRight
  <1> QED BY <1>8, <1>13

(***************************************************************************)
(* The event of a task says what happened, for every text, log, table of   *)
(* processes and failure: a probe succeeds if and only if every stage did; *)
(* of the text that the parser reads, the last value printed of a gauge, a *)
(* counter or an untyped metric is the one reported, and zero for a        *)
(* histogram or a summary; a line of the kernel log that occurs n times is *)
(* reported under its first n patterns; processes are cut off after the    *)
(* busiest; and a part that fails leaves out that part only.               *)
(***************************************************************************)
THEOREM EventsAreRight == Spec => []EventsRight
  BY InvHolds, IInvEventsRight, PTL

=============================================================================
