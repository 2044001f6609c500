--------------------------- MODULE SubsequenceProofs ---------------------------
(***************************************************************************)
(* Induction and recursion over the natural numbers, in the form of facts  *)
(* about sets and functions, and what Subsequence returns for every        *)
(* sequence.                                                               *)
(***************************************************************************)
EXTENDS Subsequences, Integers, TLAPS, WellFoundedInduction

\* A set of natural numbers that is not empty has a least element.
LEMMA LeastNatural ==
  ASSUME NEW T \in SUBSET Nat, T # {}
  PROVE  \E x \in T : \A y \in T : x <= y
  <1> DEFINE R == OpToRel(<, Nat)
  <1>1. IsWellFoundedOn(R, Nat)
    BY NatLessThanWellFounded
  <1>2. \A x, y \in Nat : x < y => <<x, y>> \in R
    BY DEF OpToRel
  <1> HIDE DEF R
  <1>3. \E x \in T : \A y \in T : <<y, x>> \notin R
    BY <1>1, WFMin
  <1>4. PICK x \in T : \A y \in T : <<y, x>> \notin R
    BY <1>3
  <1>5. \A y \in T : ~(y < x) /\ x \in Nat /\ y \in Nat
    BY <1>2, <1>4
  <1>6. \A y \in T : x <= y
    BY <1>5
  <1> QED
    BY <1>6

\* A set that has 0 and with n also n + 1 has every natural number.
LEMMA Induction ==
  ASSUME NEW S, 0 \in S, \A n \in Nat : n \in S => n + 1 \in S
  PROVE  \A n \in Nat : n \in S
  <1> DEFINE T == Nat \ S
  <1> SUFFICES ASSUME T # {} PROVE FALSE
    OBVIOUS
  <1>1. PICK x \in T : \A y \in T : x <= y
    BY LeastNatural
  <1>2. x # 0 /\ x \in Nat
    OBVIOUS
  <1>3. x - 1 \in Nat /\ ~(x <= x - 1)
    BY <1>2
  <1>4. x - 1 \in S
    BY <1>1, <1>3
  <1>5. (x - 1) + 1 = x
    BY <1>2
  <1> QED
    BY <1>3, <1>4, <1>5

\* f begins with base and goes on by step up to m.
Follows(f, base, step, m) ==
  f[0] = base /\ \A n \in 0..m : n # 0 => f[n] = step[<<n, f[n - 1]>>]

\* A function can be defined by its value at 0 and by each value from the one before.
LEMMA Recursion ==
  ASSUME NEW V, NEW base \in V, NEW step \in [Nat \X V -> V], NEW m \in Nat
  PROVE  \E f \in [0..m -> V] : Follows(f, base, step, m)
  <1> USE DEF Follows
  <1> DEFINE Fits(f, k) == Follows(f, base, step, k)
             S == {k \in Nat : \E f \in [0..k -> V] : Fits(f, k)}
  <1>1. 0 \in S
    <2> DEFINE f == [n \in 0..0 |-> base]
    <2>1. f \in [0..0 -> V] /\ f[0] = base
      OBVIOUS
    <2>2. Fits(f, 0)
      BY <2>1
    <2> QED
      BY <2>1, <2>2
  <1>2. ASSUME NEW k \in Nat, k \in S PROVE k + 1 \in S
    <2>1. PICK f \in [0..k -> V] : Fits(f, k)
      BY <1>2
    <2> DEFINE g == [n \in 0..k + 1 |-> IF n = k + 1 THEN step[<<n, f[k]>>] ELSE f[n]]
    <2>2. f[k] \in V /\ <<k + 1, f[k]>> \in Nat \X V
      OBVIOUS
    <2>3. g \in [0..k + 1 -> V]
      BY <2>2
    <2>4. g[0] = base
      BY <2>1
    <2>5. ASSUME NEW n \in 0..k + 1, n # 0 PROVE g[n] = step[<<n, g[n - 1]>>]
      <3>1. n - 1 \in 0..k /\ g[n - 1] = f[n - 1]
        BY <2>5
      <3>2. CASE n = k + 1
        BY <3>1, <3>2
      <3>3. CASE n # k + 1
        <4>1. n \in 0..k /\ g[n] = f[n]
          BY <3>3
        <4>2. f[n] = step[<<n, f[n - 1]>>]
          BY <2>1, <2>5, <4>1
        <4> QED
          BY <3>1, <4>1, <4>2
      <3> QED
        BY <3>2, <3>3
    <2>6. Fits(g, k + 1)
      BY <2>4, <2>5
    <2> HIDE DEF g, Fits
    <2> QED
      BY <2>3, <2>6
  <1>3. \A k \in Nat : k \in S
    <2> HIDE DEF S
    <2> QED
      BY <1>1, <1>2, Induction
  <1> QED
    BY <1>3

\* The recursive function that Subsequence is defined by
PicksUpTo(s, places) ==
  CHOOSE f : f = [n \in 0..Len(s) |->
                    IF n = 0 THEN <<>>
                    ELSE IF n \in places THEN Append(f[n - 1], s[n]) ELSE f[n - 1]]

LEMMA PicksUpToFit ==
  ASSUME NEW V, NEW s \in Seq(V), NEW places
  PROVE  /\ Subsequence(s, places) = PicksUpTo(s, places)[Len(s)]
         /\ PicksUpTo(s, places) \in [0..Len(s) -> Seq(V)]
         /\ PicksUpTo(s, places)[0] = <<>>
         /\ \A n \in 1..Len(s) :
              PicksUpTo(s, places)[n] = IF n \in places THEN Append(PicksUpTo(s, places)[n - 1], s[n])
                                                       ELSE PicksUpTo(s, places)[n - 1]
  <1> DEFINE step == [p \in Nat \X Seq(V) |->
                        IF p[1] \in places /\ p[1] \in 1..Len(s) THEN Append(p[2], s[p[1]]) ELSE p[2]]
             body(f) == [n \in 0..Len(s) |->
                           IF n = 0 THEN <<>>
                           ELSE IF n \in places THEN Append(f[n - 1], s[n]) ELSE f[n - 1]]
             F == PicksUpTo(s, places)
  <1>1. step \in [Nat \X Seq(V) -> Seq(V)]
    OBVIOUS
  <1>2. PICK f \in [0..Len(s) -> Seq(V)] :
           f[0] = <<>> /\ \A n \in 0..Len(s) : n # 0 => f[n] = step[<<n, f[n - 1]>>]
    <2>1. Len(s) \in Nat /\ <<>> \in Seq(V)
      OBVIOUS
    <2> DEFINE W == Seq(V)
               m == Len(s)
               base == <<>>
    <2>2. step \in [Nat \X W -> W] /\ m \in Nat /\ base \in W
      BY <1>1, <2>1
    <2> HIDE DEF step, W, m, base
    <2>3. \E f \in [0..m -> W] : Follows(f, base, step, m)
      BY <2>2, Recursion
    <2> QED
      BY <2>3 DEF W, m, base, Follows
  <1>3. f = body(f)
    <2>1. ASSUME NEW n \in 0..Len(s), n # 0
          PROVE  f[n] = IF n \in places THEN Append(f[n - 1], s[n]) ELSE f[n - 1]
      <3>1. <<n, f[n - 1]>> \in Nat \X Seq(V) /\ n \in 1..Len(s)
        BY <2>1
      <3>2. f[n] = step[<<n, f[n - 1]>>]
        BY <1>2, <2>1
      <3> QED
        BY <3>1, <3>2
    <2> QED
      BY <1>2, <2>1
  <1>4. F = body(F)
    BY <1>3 DEF PicksUpTo
  <1>5. F \in [0..Len(s) -> Seq(V)]
    <2> DEFINE S == {k \in Nat : k \in 0..Len(s) => F[k] \in Seq(V)}
    <2>1. \A n \in 0..Len(s) :
             F[n] = IF n = 0 THEN <<>>
                    ELSE IF n \in places THEN Append(F[n - 1], s[n]) ELSE F[n - 1]
      BY <1>4
    <2>2. 0 \in S
      <3>1. 0 \in 0..Len(s) /\ <<>> \in Seq(V)
        OBVIOUS
      <3> HIDE DEF F
      <3>2. F[0] = <<>>
        BY <2>1, <3>1
      <3> QED
        BY <3>1, <3>2
    <2>3. ASSUME NEW k \in Nat, k \in S PROVE k + 1 \in S
      <3>1. ASSUME k + 1 \in 0..Len(s) PROVE F[k + 1] \in Seq(V)
        <4>1. k \in 0..Len(s) /\ k + 1 \in 1..Len(s) /\ (k + 1) - 1 = k /\ k + 1 # 0
          BY <3>1
        <4>2. F[k] \in Seq(V) /\ s[k + 1] \in V
          BY <2>3, <4>1
        <4>3. F[k + 1] = IF k + 1 \in places THEN Append(F[(k + 1) - 1], s[k + 1]) ELSE F[(k + 1) - 1]
          BY <2>1, <3>1, <4>1
        <4>4. F[k + 1] = IF k + 1 \in places THEN Append(F[k], s[k + 1]) ELSE F[k]
          BY <4>1, <4>3
        <4> HIDE DEF F
        <4> QED
          BY <4>2, <4>4
      <3> QED
        BY <3>1
    <2> HIDE DEF F
    <2>4. \A k \in Nat : k \in S
      <3> HIDE DEF S
      <3> QED
        BY <2>2, <2>3, Induction
    <2>5. \A k \in 0..Len(s) : F[k] \in Seq(V)
      BY <2>4
    <2> QED
      BY <1>4, <2>5
  <1>6. /\ F[0] = <<>>
        /\ \A n \in 1..Len(s) : F[n] = IF n \in places THEN Append(F[n - 1], s[n]) ELSE F[n - 1]
    <2>1. \A n \in 0..Len(s) :
             F[n] = IF n = 0 THEN <<>>
                    ELSE IF n \in places THEN Append(F[n - 1], s[n]) ELSE F[n - 1]
      BY <1>4
    <2>2. 0 \in 0..Len(s) /\ \A n \in 1..Len(s) : n \in 0..Len(s) /\ n # 0
      OBVIOUS
    <2> HIDE DEF F
    <2> QED
      BY <2>1, <2>2
  <1>7. Subsequence(s, places) = F[Len(s)]
    BY DEF Subsequence, PicksUpTo
  <1> QED
    BY <1>5, <1>6, <1>7

\* r is what is at some places of the first k elements of s, g says where it was.
Picks(g, r, s, places, k) ==
  /\ \A i \in 1..Len(r) : g[i] \in places /\ r[i] = s[g[i]]
  /\ \A i, j \in 1..Len(r) : i < j => g[i] < g[j]
  /\ \A n \in 1..k : n \in places => \E i \in 1..Len(r) : g[i] = n

\* A subsequence is what the sequence has at the places, each once and in order.
LEMMA SubsequencePicks ==
  ASSUME NEW V, NEW s \in Seq(V), NEW places
  PROVE  /\ Subsequence(s, places) \in Seq(V)
         /\ \E g \in [1..Len(Subsequence(s, places)) -> 1..Len(s)] :
              Picks(g, Subsequence(s, places), s, places, Len(s))
  <1> DEFINE F == PicksUpTo(s, places)
             S == {k \in Nat : k \in 0..Len(s) =>
                                 \E g \in [1..Len(F[k]) -> 1..k] : Picks(g, F[k], s, places, k)}
  <1>1. /\ Subsequence(s, places) = F[Len(s)]
        /\ F \in [0..Len(s) -> Seq(V)]
        /\ F[0] = <<>>
        /\ \A n \in 1..Len(s) : F[n] = IF n \in places THEN Append(F[n - 1], s[n]) ELSE F[n - 1]
    BY PicksUpToFit
  <1> HIDE DEF F
  <1>2. 0 \in S
    <2> DEFINE g == [i \in 1..0 |-> 0]
    <2>1. Len(F[0]) = 0
      BY <1>1
    <2>2. g \in [1..Len(F[0]) -> 1..0]
      BY <2>1
    <2>3. Picks(g, F[0], s, places, 0)
      BY <2>1 DEF Picks
    <2> QED
      BY <2>2, <2>3
  <1>3. ASSUME NEW k \in Nat, k \in S PROVE k + 1 \in S
    <2> SUFFICES ASSUME k + 1 \in 0..Len(s)
                 PROVE  \E g \in [1..Len(F[k + 1]) -> 1..k + 1] : Picks(g, F[k + 1], s, places, k + 1)
      OBVIOUS
    <2>1. k \in 0..Len(s) /\ k + 1 \in 1..Len(s) /\ (k + 1) - 1 = k
      OBVIOUS
    <2>2. PICK g \in [1..Len(F[k]) -> 1..k] : Picks(g, F[k], s, places, k)
      BY <1>3, <2>1
    <2>3. F[k] \in Seq(V) /\ s[k + 1] \in V
      BY <1>1, <2>1
    <2>4. CASE k + 1 \notin places
      <3>1. F[k + 1] = F[k]
        BY <1>1, <2>1, <2>4
      <3>2. g \in [1..Len(F[k]) -> 1..k + 1]
        BY <2>1
      <3>3. Picks(g, F[k], s, places, k + 1)
        BY <2>2, <2>4 DEF Picks
      <3> QED
        BY <3>1, <3>2, <3>3
    <2>5. CASE k + 1 \in places
      <3> DEFINE l == Len(F[k])
                 h == [i \in 1..l + 1 |-> IF i = l + 1 THEN k + 1 ELSE g[i]]
      <3>1. F[k + 1] = Append(F[k], s[k + 1])
        BY <1>1, <2>1, <2>5
      <3>2. /\ l \in Nat /\ Len(F[k + 1]) = l + 1
            /\ \A i \in 1..l : F[k + 1][i] = F[k][i]
            /\ F[k + 1][l + 1] = s[k + 1]
        BY <2>3, <3>1
      <3>3. h \in [1..l + 1 -> 1..k + 1]
        BY <2>1, <3>2
      <3>4. Picks(h, F[k + 1], s, places, k + 1)
        <4>0. l \in Nat /\ g \in [1..l -> 1..k]
          BY <3>2
        <4> HIDE DEF l
        <4>1. \A i \in 1..l : h[i] = g[i] /\ g[i] \in 1..k
          BY <4>0
        <4>2. h[l + 1] = k + 1
          BY <3>2
        <4>3. /\ \A i \in 1..l : g[i] \in places /\ F[k][i] = s[g[i]]
              /\ \A i, j \in 1..l : i < j => g[i] < g[j]
              /\ \A n \in 1..k : n \in places => \E i \in 1..l : g[i] = n
          BY <2>2 DEF Picks, l
        <4> HIDE DEF h
        <4>4. \A i \in 1..l + 1 : h[i] \in places /\ F[k + 1][i] = s[h[i]]
          BY SMTT(30), <2>5, <3>2, <4>1, <4>2, <4>3
        <4>5. ASSUME NEW i \in 1..l + 1, NEW j \in 1..l + 1, i < j
              PROVE  h[i] < h[j]
          <5>1. i \in 1..l
            BY <4>0, <4>5
          <5>2. CASE j = l + 1
            BY <4>1, <4>2, <5>1, <5>2
          <5>3. CASE j # l + 1
            <6>1. j \in 1..l
              BY <4>0, <5>3
            <6> QED
              BY <4>1, <4>3, <4>5, <5>1, <6>1
          <5> QED
            BY <5>2, <5>3
        <4>6. ASSUME NEW n \in 1..k + 1, n \in places
              PROVE  \E i \in 1..l + 1 : h[i] = n
          <5>1. CASE n = k + 1
            BY <4>0, <4>2, <5>1
          <5>2. CASE n # k + 1
            <6>1. n \in 1..k
              BY <5>2
            <6>2. PICK i \in 1..l : g[i] = n
              BY <4>3, <4>6, <6>1
            <6>3. i \in 1..l + 1 /\ h[i] = n
              BY <4>0, <4>1, <6>2
            <6> QED
              BY <6>3
          <5> QED
            BY <5>1, <5>2
        <4> QED
          BY <3>2, <4>4, <4>5, <4>6 DEF Picks
      <3> HIDE DEF h
      <3> QED
        BY <3>2, <3>3, <3>4
    <2> QED
      BY <2>4, <2>5
  <1>4. \A k \in Nat : k \in S
    <2> HIDE DEF S
    <2> QED
      BY <1>2, <1>3, Induction
  <1>5. Len(s) \in Nat /\ Len(s) \in 0..Len(s)
    OBVIOUS
  <1>6. \E g \in [1..Len(F[Len(s)]) -> 1..Len(s)] : Picks(g, F[Len(s)], s, places, Len(s))
    BY <1>4, <1>5
  <1> QED
    BY <1>1, <1>5, <1>6

=============================================================================
