------------------------------ MODULE ListFacts ------------------------------
(***************************************************************************)
(* What recursive functions on lists return.                               *)
(*                                                                         *)
(* The proofs are by induction on the length of a list.  A set of numbers  *)
(* takes the part of the predicate: what holds of no least number holds of *)
(* none, and that every set of numbers has a least one is a fact about     *)
(* sets.                                                                   *)
(***************************************************************************)
EXTENDS Lists, Integers, SequencesExt, WellFoundedInduction, SequenceTheorems, TLAPS

-----------------------------------------------------------------------------
(* Induction and recursion. *)

(* Of numbers there is a least one. *)
LEMMA LeastNumber ==
  ASSUME NEW T \in SUBSET Nat, T # {}
  PROVE  \E n \in T : \A m \in T : n <= m
<1>1. PICK n \in T : \A m \in T : <<m, n>> \notin OpToRel(<, Nat)
  BY WFMin, NatLessThanWellFounded
<1>2. \A m \in T : ~(m < n)
  BY <1>1 DEF OpToRel
<1>3. ASSUME NEW m \in T
      PROVE  n <= m
  <2>1. n \in Nat /\ m \in Nat /\ ~(m < n)
    BY <1>2
  <2> QED BY <2>1
<1> QED BY <1>1, <1>3

(* What holds of 0, and of the number after each it holds of, holds of all. *)
LEMMA InductionUpTo ==
  ASSUME NEW n \in Nat, NEW S, 0 \in S, \A k \in 0..n - 1 : k \in S => k + 1 \in S
  PROVE  \A k \in 0..n : k \in S
<1> SUFFICES ASSUME NEW k \in 0..n, k \notin S PROVE FALSE
  OBVIOUS
<1> DEFINE T == {i \in 0..n : i \notin S}
<1>1. T \in SUBSET Nat /\ T # {}
  OBVIOUS
<1>2. PICK m \in T : \A i \in T : m <= i
  BY <1>1, LeastNumber
<1>3. m # 0 /\ m - 1 \in 0..n - 1
  BY <1>2
<1>4. m - 1 \in S
  BY <1>2, <1>3
<1>5. (m - 1) + 1 \in S
  BY <1>3, <1>4
<1> QED BY <1>2, <1>3, <1>5

(* A function that is given at 0, and at each next number by the value     *)
(* before it, exists.                                                      *)
Follows(f, n, V, v0, step) ==
  f \in [0..n -> V] /\ f[0] = v0 /\ \A i \in 1..n : f[i] = step[<<i, f[i - 1]>>]

(* There is one, made longer number by number. *)
LEMMA RecursionUpTo ==
  ASSUME NEW n \in Nat, NEW V, NEW v0 \in V, NEW step \in [(1..n) \X V -> V]
  PROVE  \E f : Follows(f, n, V, v0, step)
<1> DEFINE Is(f, k) == f[0] = v0 /\ \A i \in 1..k : f[i] = step[<<i, f[i - 1]>>]
           S == {k \in 0..n : \E f \in [0..k -> V] : Is(f, k)}
<1>1. 0 \in S
  <2>1. [i \in 0..0 |-> v0] \in [0..0 -> V] /\ Is([i \in 0..0 |-> v0], 0)
    OBVIOUS
  <2>2. \E f \in [0..0 -> V] : Is(f, 0)
    BY <2>1
  <2> HIDE DEF Is
  <2> QED BY <2>2
<1>2. ASSUME NEW k \in 0..n - 1, k \in S
      PROVE  k + 1 \in S
  <2>1. PICK f \in [0..k -> V] : Is(f, k)
    BY <1>2
  <2> DEFINE g == [i \in 0..k + 1 |-> IF i = k + 1 THEN step[<<k + 1, f[k]>>] ELSE f[i]]
  <2>2. k \in 0..n /\ k + 1 \in 1..n /\ f[k] \in V
    BY <2>1
  <2>3. step[<<k + 1, f[k]>>] \in V
    BY <2>2
  <2>4. g \in [0..k + 1 -> V]
    BY <2>1, <2>3
  <2>5. g[0] = v0
    BY <2>1
  <2>6. ASSUME NEW i \in 1..k + 1
        PROVE  g[i] = step[<<i, g[i - 1]>>]
    <3>1. CASE i = k + 1
      <4>1. g[i - 1] = f[k] /\ g[i] = step[<<k + 1, f[k]>>]
        BY <3>1
      <4> HIDE DEF g
      <4> QED BY <3>1, <4>1
    <3>2. CASE i # k + 1
      <4>1. i \in 1..k /\ i - 1 \in 0..k /\ i \in 0..k
        BY <3>2
      <4>2. g[i] = f[i] /\ g[i - 1] = f[i - 1]
        BY <4>1
      <4>3. f[i] = step[<<i, f[i - 1]>>]
        BY <2>1, <4>1
      <4> HIDE DEF g
      <4> QED BY <4>2, <4>3
    <3> QED BY <3>1, <3>2
  <2> HIDE DEF g
  <2> QED BY <2>2, <2>4, <2>5, <2>6
<1> HIDE DEF Is, S
<1>3. \A k \in 0..n : k \in S
  BY <1>1, <1>2, InductionUpTo
<1>4. n \in S
  BY <1>3
<1> QED BY <1>4 DEF S, Is, Follows

-----------------------------------------------------------------------------
(* The elements kept of a list are its elements that are in the set, each  *)
(* as often as it is there, and in the same order.                         *)

Keeps(f, n, X, s, set) ==
  /\ f \in [0..n -> Seq(X)] /\ f[0] = <<>>
  /\ \A i \in 1..n : f[i] = IF s[i] \in set THEN Append(f[i - 1], s[i]) ELSE f[i - 1]

(* What is kept of a list is the last value of such a function. *)
LEMMA KeptRecursion ==
  ASSUME NEW X, NEW s \in Seq(X), NEW set
  PROVE  \E f : Keeps(f, Len(s), X, s, set) /\ f[Len(s)] = Kept(s, set)
<1> DEFINE n == Len(s)
           step == [iv \in (1..n) \X Seq(X) |->
                      IF s[iv[1]] \in set THEN Append(iv[2], s[iv[1]]) ELSE iv[2]]
           Is(f) == f = [i \in 0..n |-> IF i = 0 THEN <<>>
                                       ELSE IF s[i] \in set THEN Append(f[i - 1], s[i]) ELSE f[i - 1]]
<1>1. n \in Nat /\ <<>> \in Seq(X) /\ \A i \in 1..n : s[i] \in X
  OBVIOUS
<1>2. step \in [(1..n) \X Seq(X) -> Seq(X)]
  BY <1>1
<1>3. PICK f \in [0..n -> Seq(X)] : f[0] = <<>> /\ \A i \in 1..n : f[i] = step[<<i, f[i - 1]>>]
  <2> HIDE DEF n, step, Is
  <2>1. \E f : Follows(f, n, Seq(X), <<>>, step)
    BY <1>1, <1>2, RecursionUpTo
  <2> QED BY <2>1 DEF Follows
<1>4. \A i \in 1..n : f[i] = IF s[i] \in set THEN Append(f[i - 1], s[i]) ELSE f[i - 1]
  <2> SUFFICES ASSUME NEW i \in 1..n
               PROVE  f[i] = IF s[i] \in set THEN Append(f[i - 1], s[i]) ELSE f[i - 1]
    OBVIOUS
  <2>1. f[i - 1] \in Seq(X)
    BY <1>1
  <2>2. f[i] = step[<<i, f[i - 1]>>]
    BY <1>3
  <2> QED BY <2>1, <2>2
<1>5. \E g : Is(g)
  <2>1. ASSUME NEW i \in 0..n
        PROVE  f[i] = IF i = 0 THEN <<>> ELSE IF s[i] \in set THEN Append(f[i - 1], s[i]) ELSE f[i - 1]
    <3> HIDE DEF n
    <3>1. i # 0 => i \in 1..n
      BY <1>1
    <3> QED BY <1>3, <1>4, <3>1
  <2>2. Is(f)
    BY <1>3, <2>1
  <2> QED BY <2>2
<1>6. PICK g : g = (CHOOSE h : Is(h)) /\ Is(g)
  BY <1>5
<1>7. Kept(s, set) = g[n]
  BY <1>6 DEF Kept
<1>8. g[0] = <<>> /\ \A i \in 1..n : g[i] = IF s[i] \in set THEN Append(g[i - 1], s[i]) ELSE g[i - 1]
  <2> HIDE DEF n
  <2>1. 0 \in 0..n /\ \A i \in 1..n : i \in 0..n /\ i # 0
    BY <1>1
  <2> QED BY <1>6, <2>1
<1>9. \A i \in 0..n : g[i] \in Seq(X)
  <2> DEFINE S == {i \in 0..n : g[i] \in Seq(X)}
  <2>1. 0 \in S
    <3> HIDE DEF n
    <3>1. 0 \in 0..n
      BY <1>1
    <3> QED BY <1>1, <1>8, <3>1
  <2>2. ASSUME NEW k \in 0..n - 1, k \in S
        PROVE  k + 1 \in S
    <3>1. k + 1 \in 1..n /\ (k + 1) - 1 = k /\ g[k] \in Seq(X)
      BY <1>1, <2>2
    <3>2. g[k + 1] = IF s[k + 1] \in set THEN Append(g[k], s[k + 1]) ELSE g[k]
      BY <1>8, <3>1
    <3>3. g[k + 1] \in Seq(X)
      BY <1>1, <3>1, <3>2
    <3> QED BY <3>1, <3>3
  <2> HIDE DEF S, n
  <2>3. \A k \in 0..n : k \in S
    BY <1>1, <2>1, <2>2, InductionUpTo
  <2> QED BY <2>3 DEF S
<1>10. g \in [0..n -> Seq(X)]
  BY <1>6, <1>9
<1> QED BY <1>7, <1>8, <1>10 DEF Keeps

(* Where each of the elements kept was: g is the place it had.             *)
Places(g, list, n, s, set) ==
  /\ g \in [1..Len(list) -> 1..n]
  /\ \A m \in 1..Len(list) : s[g[m]] \in set /\ list[m] = s[g[m]]
  /\ \A l, m \in 1..Len(list) : l < m => g[l] < g[m]
  /\ \A i \in 1..n : s[i] \in set => \E m \in 1..Len(list) : g[m] = i

(* What is kept of a list has its places in it. *)
LEMMA KeptPlaces ==
  ASSUME NEW X, NEW s \in Seq(X), NEW set
  PROVE  /\ Kept(s, set) \in Seq(X)
         /\ \E g : Places(g, Kept(s, set), Len(s), s, set)
<1>1. PICK n : n = Len(s) /\ n \in Nat /\ \A i \in 1..n : s[i] \in X
  OBVIOUS
<1>2. PICK f \in [0..n -> Seq(X)] :
        /\ f[0] = <<>> /\ f[n] = Kept(s, set)
        /\ \A i \in 1..n :
             f[i] = IF s[i] \in set THEN Append(f[i - 1], s[i]) ELSE f[i - 1]
  <2>1. \E f : Keeps(f, n, X, s, set) /\ f[n] = Kept(s, set)
    BY <1>1, KeptRecursion
  <2> QED BY <2>1 DEF Keeps
<1> DEFINE S == {k \in 0..n : \E g : Places(g, f[k], k, s, set)}
<1>3. 0 \in S
  <2>1. 0 \in 0..n /\ Len(f[0]) = 0
    BY <1>1, <1>2
  <2>2. Places([m \in 1..0 |-> m], f[0], 0, s, set)
    BY <2>1 DEF Places
  <2> QED BY <2>1, <2>2
<1>4. ASSUME NEW k \in 0..n - 1, k \in S
      PROVE  k + 1 \in S
  <2>1. k + 1 \in 0..n /\ k \in 0..n /\ k + 1 \in 1..n /\ (k + 1) - 1 = k /\ k \in Nat
    BY <1>1
  <2>2. PICK g : Places(g, f[k], k, s, set)
    BY <1>4
  <2>3. PICK l : l = Len(f[k]) /\ l \in Nat
    BY <2>1
  <2>4. CASE s[k + 1] \in set
    <3>1. f[k + 1] = Append(f[k], s[k + 1])
      BY <1>2, <2>1, <2>4
    <3>2. /\ Len(f[k + 1]) = l + 1 /\ f[k + 1][l + 1] = s[k + 1]
          /\ \A m \in 1..l : f[k + 1][m] = f[k][m]
      BY <1>1, <2>1, <2>3, <3>1
    <3> DEFINE h == [m \in 1..l + 1 |-> IF m = l + 1 THEN k + 1 ELSE g[m]]
    <3>3. \A m \in 1..l : g[m] \in 1..k /\ m \in 1..l + 1 /\ m # l + 1 /\ h[m] = g[m]
      <4>1. \A m \in 1..l : m \in 1..l + 1 /\ m # l + 1
        BY <2>3
      <4>2. \A m \in 1..l : g[m] \in 1..k
        BY <2>2, <2>3 DEF Places
      <4> QED BY <4>1, <4>2
    <3>4. l + 1 \in 1..l + 1 /\ h[l + 1] = k + 1 /\ \A m \in 1..l + 1 : m = l + 1 \/ m \in 1..l
      BY <2>3
    <3>5. h \in [1..l + 1 -> 1..k + 1]
      <4>1. \A m \in 1..l + 1 : h[m] \in 1..k + 1
        <5> SUFFICES ASSUME NEW m \in 1..l + 1 PROVE h[m] \in 1..k + 1
          OBVIOUS
        <5>1. h[m] = k + 1 \/ h[m] \in 1..k
          <6> HIDE DEF h
          <6> QED BY <3>3, <3>4
        <5> HIDE DEF h
        <5> QED BY <2>1, <5>1
      <4> QED BY <4>1
    <3> HIDE DEF h
    <3>6. \A m \in 1..l + 1 : s[h[m]] \in set /\ f[k + 1][m] = s[h[m]]
      BY <2>2, <2>3, <2>4, <3>2, <3>3, <3>4 DEF Places
    <3>7. \A i, m \in 1..l + 1 : i < m => h[i] < h[m]
      <4> SUFFICES ASSUME NEW i \in 1..l + 1, NEW m \in 1..l + 1, i < m
                   PROVE  h[i] < h[m]
        OBVIOUS
      <4>1. i \in 1..l
        BY <2>3
      <4>2. CASE m = l + 1
        <5>1. h[i] \in 1..k /\ h[m] = k + 1
          BY <3>3, <3>4, <4>1, <4>2
        <5> QED BY <2>1, <5>1
      <4>3. CASE m # l + 1
        BY <2>2, <2>3, <3>3, <3>4, <4>1, <4>3 DEF Places
      <4> QED BY <4>2, <4>3
    <3>8. \A i \in 1..k + 1 : s[i] \in set => \E m \in 1..l + 1 : h[m] = i
      <4> SUFFICES ASSUME NEW i \in 1..k + 1, s[i] \in set
                   PROVE  \E m \in 1..l + 1 : h[m] = i
        OBVIOUS
      <4>1. CASE i = k + 1
        BY <3>4, <4>1
      <4>2. CASE i # k + 1
        <5>1. i \in 1..k
          BY <2>1, <4>2
        <5>2. PICK m \in 1..l : g[m] = i
          BY <2>2, <2>3, <5>1 DEF Places
        <5> QED BY <3>3, <5>2
      <4> QED BY <4>1, <4>2
    <3>9. Places(h, f[k + 1], k + 1, s, set)
      BY <3>2, <3>5, <3>6, <3>7, <3>8 DEF Places
    <3> QED BY <2>1, <3>9
  <2>5. CASE s[k + 1] \notin set
    <3>1. f[k + 1] = f[k]
      BY <1>2, <2>1, <2>5
    <3>2. g \in [1..l -> 1..k + 1]
      BY <2>1, <2>2, <2>3 DEF Places
    <3>3. \A i \in 1..k + 1 : s[i] \in set => i \in 1..k
      BY <2>1, <2>5
    <3>4. Places(g, f[k + 1], k + 1, s, set)
      BY <2>2, <2>3, <3>1, <3>2, <3>3 DEF Places
    <3> QED BY <2>1, <3>4
  <2> QED BY <2>4, <2>5
<1> HIDE DEF S
<1>5. \A k \in 0..n : k \in S
  BY <1>1, <1>3, <1>4, InductionUpTo
<1>6. n \in 0..n
  BY <1>1
<1>7. f[n] \in Seq(X) /\ \E g : Places(g, f[n], n, s, set)
  BY <1>2, <1>5, <1>6 DEF S
<1> QED BY <1>1, <1>2, <1>7

(* What is kept is what is in both; and where something is kept, all that  *)
(* is in the set and stands before it in the list is kept before it.       *)
OrderKept(list, s, set) ==
  \A m \in 1..Len(list) : \E i \in 1..Len(s) :
    /\ s[i] = list[m]
    /\ \A j \in 1..i : s[j] \in set => \E l \in 1..m : list[l] = s[j]

LEMMA KeptIs ==
  ASSUME NEW X, NEW s \in Seq(X), NEW set
  PROVE  /\ Kept(s, set) \in Seq(X) /\ ToSet(Kept(s, set)) = ToSet(s) \cap set
         /\ OrderKept(Kept(s, set), s, set)
<1>1. PICK list, n : list = Kept(s, set) /\ n = Len(s)
  OBVIOUS
<1>2. list \in Seq(X) /\ Len(list) \in Nat /\ n \in Nat /\ DOMAIN s = 1..n
  BY <1>1, KeptPlaces
<1>3. PICK g : Places(g, list, n, s, set)
  BY <1>1, KeptPlaces
<1>4. ToSet(list) = ToSet(s) \cap set
  <2>1. \A m \in 1..Len(list) : g[m] \in 1..n /\ list[m] = s[g[m]] /\ list[m] \in set
    BY <1>3 DEF Places
  <2>2. \A i \in 1..n : s[i] \in set => \E m \in 1..Len(list) : list[m] = s[i]
    BY <1>3 DEF Places
  <2> QED BY <1>2, <2>1, <2>2 DEF ToSet
<1>5. ASSUME NEW m \in 1..Len(list)
      PROVE  \E i \in 1..n : /\ s[i] = list[m]
                            /\ \A j \in 1..i : s[j] \in set => \E l \in 1..m : list[l] = s[j]
  <2>1. g[m] \in 1..n /\ s[g[m]] = list[m]
    BY <1>3 DEF Places
  <2>2. ASSUME NEW j \in 1..g[m], s[j] \in set
        PROVE  \E l \in 1..m : list[l] = s[j]
    <3>1. j \in 1..n
      BY <1>2, <2>1
    <3>2. PICK l \in 1..Len(list) : g[l] = j
      BY <1>3, <2>2, <3>1 DEF Places
    <3>3. list[l] = s[j]
      BY <1>3, <3>2 DEF Places
    <3>4. ~(m < l)
      <4>1. m < l => g[m] < g[l]
        BY <1>3 DEF Places
      <4> QED BY <2>1, <3>2, <4>1
    <3>5. l \in 1..m
      BY <1>2, <3>4
    <3> QED BY <3>3, <3>5
  <2> QED BY <2>1, <2>2
<1> QED BY <1>1, <1>2, <1>4, <1>5 DEF OrderKept

-----------------------------------------------------------------------------
(* Lists put together.  f has what the first ones of them make up.         *)

Joined(f, n, s) == f[0] = <<>> /\ \A i \in 1..n : f[i] = f[i - 1] \o s[i]

Joins(f, n, X, s) == f \in [0..n -> Seq(X)] /\ Joined(f, n, s)

(* There is such a function. *)
LEMMA JoinsExist ==
  ASSUME NEW X, NEW n \in Nat, NEW s, \A i \in 1..n : s[i] \in Seq(X)
  PROVE  \E f : Joins(f, n, X, s)
<1> DEFINE V == Seq(X)
           step == [iv \in (1..n) \X V |-> iv[2] \o s[iv[1]]]
<1>1. <<>> \in V /\ \A v \in V, i \in 1..n : v \o s[i] \in V
  OBVIOUS
<1>2. step \in [(1..n) \X V -> V]
  <2> HIDE DEF V
  <2> QED BY <1>1
<1>3. PICK f : Follows(f, n, V, <<>>, step)
  <2> HIDE DEF V, step
  <2> QED BY <1>1, <1>2, RecursionUpTo
<1>4. \A i \in 1..n : f[i] = f[i - 1] \o s[i]
  <2> SUFFICES ASSUME NEW i \in 1..n PROVE f[i] = f[i - 1] \o s[i]
    OBVIOUS
  <2> HIDE DEF V
  <2>1. i - 1 \in 0..n
    OBVIOUS
  <2>2. f[i - 1] \in V /\ f[i] = step[<<i, f[i - 1]>>]
    BY <1>3, <2>1 DEF Follows
  <2> QED BY <2>2
<1> HIDE DEF step
<1> QED BY <1>3, <1>4 DEF Follows, Joins, Joined

(* They make up the same, however that is computed. *)
LEMMA JoinsUnique ==
  ASSUME NEW X, NEW n \in Nat, NEW s, NEW f, Joins(f, n, X, s), NEW g, Joined(g, n, s)
  PROVE  \A k \in 0..n : g[k] = f[k]
<1> DEFINE S == {k \in 0..n : g[k] = f[k]}
<1>1. 0 \in S
  BY DEF Joins, Joined
<1>2. ASSUME NEW k \in 0..n - 1, k \in S
      PROVE  k + 1 \in S
  <2>1. k + 1 \in 1..n /\ (k + 1) - 1 = k /\ k + 1 \in 0..n
    OBVIOUS
  <2>2. g[k + 1] = g[k] \o s[k + 1] /\ f[k + 1] = f[k] \o s[k + 1]
    BY <2>1 DEF Joins, Joined
  <2> QED BY <1>2, <2>1, <2>2
<1> HIDE DEF S
<1>3. \A k \in 0..n : k \in S
  BY <1>1, <1>2, InductionUpTo
<1> QED BY <1>3 DEF S

(* Its last value is what all of them make up. *)
LEMMA FlattenJoins ==
  ASSUME NEW X, NEW s \in Seq(Seq(X)), NEW f, Joins(f, Len(s), X, s)
  PROVE  FlattenSeq(s) = f[Len(s)]
<1>1. PICK n : n = Len(s) /\ n \in Nat /\ \A i \in 1..n : s[i] \in Seq(X)
  BY ElementOfSeq
<1>2. CASE n = 0
  <2>1. s = <<>>
    BY <1>1, <1>2, EmptySeq
  <2> QED BY <1>1, <1>2, <2>1 DEF FlattenSeq, Joins, Joined
<1>3. CASE n # 0
  <2> DEFINE Is(h) == h = [i \in 1..n |-> IF i = 1 THEN s[i] ELSE h[i - 1] \o s[i]]
             g == [i \in 1..n |-> f[i]]
  <2>1. 1 \in 1..n /\ n \in 1..n /\ 1 - 1 = 0
    BY <1>1, <1>3
  <2>2. ASSUME NEW i \in 1..n
        PROVE  f[i] = IF i = 1 THEN s[i] ELSE f[i - 1] \o s[i]
    <3>1. f[i] = f[i - 1] \o s[i]
      BY <1>1 DEF Joins, Joined
    <3>2. i = 1 => f[i] = <<>> \o s[1] /\ s[1] \in Seq(X)
      BY <1>1, <2>1, <3>1 DEF Joins, Joined
    <3>3. i = 1 => f[i] = s[1]
      BY <3>2, ConcatEmptySeq
    <3> QED BY <3>1, <3>3
  <2>3. ASSUME NEW i \in 1..n
        PROVE  f[i] = IF i = 1 THEN s[i] ELSE g[i - 1] \o s[i]
    <3>1. i # 1 => i - 1 \in 1..n
      BY <1>1
    <3>2. i # 1 => g[i - 1] = f[i - 1]
      BY <3>1
    <3> HIDE DEF g
    <3> QED BY <2>2, <3>2
  <2>4. Is(g)
    BY <2>3
  <2>5. PICK h : h = (CHOOSE k : Is(k)) /\ Is(h)
    <3> HIDE DEF g
    <3> QED BY <2>4
  <2>6. FlattenSeq(s) = h[n]
    BY <1>1, <1>3, <2>5 DEF FlattenSeq
  <2> DEFINE e == [i \in 0..n |-> IF i = 0 THEN <<>> ELSE h[i]]
  <2>7. e[0] = <<>> /\ e[n] = h[n]
    BY <1>1, <1>3
  <2>8. ASSUME NEW i \in 1..n
        PROVE  e[i] = e[i - 1] \o s[i]
    <3>1. i \in 0..n /\ i - 1 \in 0..n /\ i # 0 /\ s[i] \in Seq(X)
      BY <1>1
    <3>2. e[i] = h[i] /\ e[i - 1] = IF i = 1 THEN <<>> ELSE h[i - 1]
      BY <3>1
    <3> HIDE DEF e
    <3>3. h[i] = IF i = 1 THEN s[i] ELSE h[i - 1] \o s[i]
      BY <2>5
    <3>4. <<>> \o s[i] = s[i]
      BY <3>1, ConcatEmptySeq
    <3> QED BY <3>2, <3>3, <3>4
  <2> HIDE DEF e, Is, g
  <2>9. \A k \in 0..n : e[k] = f[k]
    <3>1. Joins(f, n, X, s)
      BY <1>1
    <3>2. Joined(e, n, s)
      BY <2>7, <2>8 DEF Joined
    <3> QED BY <1>1, <3>1, <3>2, JoinsUnique
  <2>10. n \in 0..n
    BY <1>1
  <2> QED BY <1>1, <2>6, <2>7, <2>9, <2>10
<1> QED BY <1>2, <1>3

(* One more list adds its elements. *)
LEMMA FlattenAppend ==
  ASSUME NEW X, NEW s \in Seq(Seq(X)), NEW t \in Seq(X)
  PROVE  /\ FlattenSeq(s) \in Seq(X)
         /\ FlattenSeq(Append(s, t)) = FlattenSeq(s) \o t
<1>1. PICK n : n = Len(s) /\ n \in Nat
  OBVIOUS
<1>2. PICK m : m = n + 1 /\ m \in Nat
  BY <1>1
<1>3. PICK u : u = Append(s, t)
  OBVIOUS
<1>4. u \in Seq(Seq(X)) /\ Len(u) = m /\ u[m] = t /\ \A i \in 1..n : u[i] = s[i]
  BY <1>1, <1>2, <1>3
<1>5. \A i \in 1..m : u[i] \in Seq(X)
  BY <1>4, ElementOfSeq
<1>6. PICK f : Joins(f, m, X, u)
  BY <1>2, <1>5, JoinsExist
<1>7. FlattenSeq(u) = f[m]
  BY <1>4, <1>6, FlattenJoins
<1> DEFINE g == [i \in 0..n |-> f[i]]
<1>8. Joins(g, n, X, s)
  <2>1. \A i \in 0..n : i \in 0..m
    BY <1>1, <1>2
  <2>2. \A i \in 0..n : f[i] \in Seq(X)
    BY <1>6, <2>1 DEF Joins
  <2>3. 0 \in 0..n /\ \A i \in 1..n : i \in 1..m /\ i - 1 \in 0..n /\ i \in 0..n
    BY <1>1, <1>2
  <2>4. g \in [0..n -> Seq(X)]
    BY <2>2
  <2>5. \A i \in 0..n : g[i] = f[i]
    OBVIOUS
  <2> HIDE DEF g
  <2>6. \A i \in 1..n : f[i] = f[i - 1] \o s[i]
    BY <1>4, <1>6, <2>3 DEF Joins, Joined
  <2>7. g[0] = <<>> /\ \A i \in 1..n : g[i] = g[i - 1] \o s[i]
    BY <1>6, <2>3, <2>5, <2>6 DEF Joins, Joined
  <2> QED BY <2>4, <2>7 DEF Joins, Joined
<1>9. FlattenSeq(s) = f[n] /\ f[n] \in Seq(X)
  <2>1. n \in 0..n
    BY <1>1
  <2>2. g[n] = f[n]
    BY <2>1
  <2>3. Joins(g, Len(s), X, s)
    BY <1>1, <1>8
  <2> HIDE DEF g
  <2>4. FlattenSeq(s) = g[n]
    BY <1>1, <2>3, FlattenJoins
  <2>5. g[n] \in Seq(X)
    BY <1>8, <2>1 DEF Joins
  <2> QED BY <2>2, <2>4, <2>5
<1>10. f[m] = f[n] \o t
  <2>1. m \in 1..m /\ m - 1 = n
    BY <1>1, <1>2
  <2> QED BY <1>4, <1>6, <2>1 DEF Joins, Joined
<1> QED BY <1>3, <1>7, <1>9, <1>10

(* Of no list nothing is left. *)
LEMMA FlattenEmpty == FlattenSeq(<<>>) = <<>>
BY DEF FlattenSeq

=============================================================================
