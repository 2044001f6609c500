---------------------------- MODULE DataModelProofs ----------------------------
(***************************************************************************)
(* Theorems about DataModel: views and proxies have the rows of the model, *)
(* and these the data of the sources, for any number of sources, lists of  *)
(* any length and every set of roles and values.                           *)
(***************************************************************************)
EXTENDS DataModel, SubsequenceProofs, SequenceTheorems

-----------------------------------------------------------------------------
(* The rows of the model *)

\* Each name has a list of rows out of V.
Typed(items, V) ==
    /\ DOMAIN items \subseteq 0..LastName
    /\ \A n \in DOMAIN items : items[n] \in Seq(V)

LEMMA LastNameIsNat == LastName \in Nat
  BY DataModelAssumption

LEMMA ItemsOfTyped ==
  ASSUME NEW V, NEW items, Typed(items, V)
  PROVE  \A n : ItemsOf(items, n) \in Seq(V)
  <1>1. <<>> \in Seq(V)
    OBVIOUS
  <1> QED
    BY <1>1 DEF ItemsOf, Typed

\* The rows of one name follow those before.
LEMMA RowsBeforeFit ==
  ASSUME NEW V, NEW items, Typed(items, V)
  PROVE  /\ RowsBefore(items) \in [0..LastName + 1 -> Seq(V)]
         /\ RowsBefore(items)[0] = <<>>
         /\ \A n \in 0..LastName : RowsBefore(items)[n + 1] = RowsBefore(items)[n] \o ItemsOf(items, n)
  <1> DEFINE W == Seq(V)
             m == LastName + 1
             base == <<>>
             step == [p \in Nat \X W |-> p[2] \o ItemsOf(items, p[1] - 1)]
             body(f) == [name \in 0..m |-> IF name = 0 THEN <<>> ELSE f[name - 1] \o ItemsOf(items, name - 1)]
             F == RowsBefore(items)
  <1>1. m \in Nat /\ base \in W
    BY LastNameIsNat
  <1>2. \A n : ItemsOf(items, n) \in W
    BY ItemsOfTyped
  <1>3. \A r \in W : \A n : r \o ItemsOf(items, n) \in W
    BY <1>2, ConcatProperties
  <1>4. step \in [Nat \X W -> W]
    <2> HIDE DEF W
    <2> QED
      BY <1>3
  <1>5. PICK f \in [0..m -> W] : Follows(f, base, step, m)
    <2> HIDE DEF step, W, m, base
    <2> QED
      BY <1>1, <1>4, Recursion
  <1>6. f = body(f)
    <2>1. ASSUME NEW n \in 0..m, n # 0
          PROVE  f[n] = f[n - 1] \o ItemsOf(items, n - 1)
      <3>1. n - 1 \in 0..m /\ n \in Nat
        BY <1>1, <2>1
      <3>2. <<n, f[n - 1]>> \in Nat \X W
        BY <1>5, <3>1
      <3>3. f[n] = step[<<n, f[n - 1]>>]
        BY <1>5, <2>1 DEF Follows
      <3> QED
        BY <3>2, <3>3
    <2>2. f[0] = <<>>
      BY <1>5 DEF Follows
    <2> HIDE DEF W, m
    <2> QED
      BY <2>1, <2>2, <1>5
  <1>7. F = body(F)
    BY <1>6 DEF RowsBefore
  <1>8. /\ F[0] = <<>>
        /\ \A n \in 0..LastName : F[n + 1] = F[n] \o ItemsOf(items, n)
    <2>1. \A n \in 0..m : F[n] = IF n = 0 THEN <<>> ELSE F[n - 1] \o ItemsOf(items, n - 1)
      BY <1>7
    <2>2. 0 \in 0..m
      BY <1>1
    <2> HIDE DEF F
    <2>3. ASSUME NEW n \in 0..LastName PROVE F[n + 1] = F[n] \o ItemsOf(items, n)
      <3>1. n + 1 \in 0..m /\ n + 1 # 0 /\ (n + 1) - 1 = n
        BY LastNameIsNat
      <3>2. F[n + 1] = F[(n + 1) - 1] \o ItemsOf(items, (n + 1) - 1)
        BY <2>1, <3>1
      <3> QED
        BY <3>1, <3>2
    <2> QED
      BY <2>1, <2>2, <2>3
  <1>9. F \in [0..LastName + 1 -> W]
    <2> DEFINE S == {k \in Nat : k <= m => F[k] \in W}
    <2> HIDE DEF F
    <2>1. 0 \in S
      BY <1>1, <1>8
    <2>2. ASSUME NEW k \in Nat, k \in S PROVE k + 1 \in S
      <3>1. ASSUME k + 1 <= m PROVE F[k + 1] \in W
        <4>1. k \in 0..LastName /\ k <= m
          BY <3>1, LastNameIsNat
        <4>2. F[k] \in W /\ F[k + 1] = F[k] \o ItemsOf(items, k)
          BY <4>1, <2>2, <1>8
        <4> HIDE DEF W
        <4> QED
          BY <4>2, <1>3
      <3> QED
        BY <3>1
    <2>3. \A k \in Nat : k \in S
      <3> HIDE DEF S
      <3> QED
        BY <2>1, <2>2, Induction
    <2>4. \A k \in 0..LastName + 1 : F[k] \in W
      BY <2>3
    <2>5. \E D : F = [k \in D |-> F[k]] /\ D = 0..LastName + 1
      BY <1>7
    <2> QED
      BY <2>4, <2>5
  <1> QED
    BY <1>8, <1>9

\* R2 is R with the rows "list" in place of the rows "own" behind the first a.
Replaced(R, R2, a, own, list) ==
    /\ Len(R) >= a + Len(own) /\ Len(R2) = Len(R) + Len(list) - Len(own)
    /\ \A i \in 1..Len(R) : i <= a => R2[i] = R[i]
    /\ \A i \in 1..Len(R) : a < i /\ i <= a + Len(own) => R[i] = own[i - a]
    /\ \A i \in 1..Len(R2) : a < i /\ i <= a + Len(list) => R2[i] = list[i - a]
    /\ \A i \in 1..Len(R2) : i > a + Len(list) => R2[i] = R[i + Len(own) - Len(list)]

LEMMA ReplacedAtEnd ==
  ASSUME NEW V, NEW pre \in Seq(V), NEW own \in Seq(V), NEW list \in Seq(V)
  PROVE  Replaced(pre \o own, pre \o list, Len(pre), own, list)
  <1>1. /\ Len(pre \o own) = Len(pre) + Len(own)
        /\ \A i \in 1 .. Len(pre) + Len(own) :
             (pre \o own)[i] = IF i <= Len(pre) THEN pre[i] ELSE own[i - Len(pre)]
    BY ConcatProperties
  <1>2. /\ Len(pre \o list) = Len(pre) + Len(list)
        /\ \A i \in 1 .. Len(pre) + Len(list) :
             (pre \o list)[i] = IF i <= Len(pre) THEN pre[i] ELSE list[i - Len(pre)]
    BY ConcatProperties
  <1>3. Len(pre) \in Nat /\ Len(own) \in Nat /\ Len(list) \in Nat
    OBVIOUS
  <1> DEFINE R == pre \o own  R2 == pre \o list
  <1> HIDE DEF R, R2
  <1>4. /\ Len(R) = Len(pre) + Len(own)
        /\ \A i \in 1 .. Len(pre) + Len(own) : R[i] = IF i <= Len(pre) THEN pre[i] ELSE own[i - Len(pre)]
    BY <1>1 DEF R
  <1>5. /\ Len(R2) = Len(pre) + Len(list)
        /\ \A i \in 1 .. Len(pre) + Len(list) : R2[i] = IF i <= Len(pre) THEN pre[i] ELSE list[i - Len(pre)]
    BY <1>2 DEF R2
  <1>6. Replaced(R, R2, Len(pre), own, list)
    BY <1>3, <1>4, <1>5 DEF Replaced
  <1> QED
    BY <1>6 DEF R, R2

LEMMA ReplacedExtends ==
  ASSUME NEW V, NEW R \in Seq(V), NEW R2 \in Seq(V), NEW own \in Seq(V), NEW list \in Seq(V),
         NEW x \in Seq(V), NEW a \in Nat, Replaced(R, R2, a, own, list)
  PROVE  Replaced(R \o x, R2 \o x, a, own, list)
  <1> DEFINE S == R \o x  S2 == R2 \o x
  <1>1. Len(R) \in Nat /\ Len(R2) \in Nat /\ Len(own) \in Nat /\ Len(list) \in Nat /\ Len(x) \in Nat
    OBVIOUS
  <1>2. /\ Len(S) = Len(R) + Len(x)
        /\ \A i \in 1 .. Len(R) + Len(x) : S[i] = IF i <= Len(R) THEN R[i] ELSE x[i - Len(R)]
    BY ConcatProperties
  <1>3. /\ Len(S2) = Len(R2) + Len(x)
        /\ \A i \in 1 .. Len(R2) + Len(x) : S2[i] = IF i <= Len(R2) THEN R2[i] ELSE x[i - Len(R2)]
    BY ConcatProperties
  <1> HIDE DEF S, S2
  <1>4. Len(R) >= a + Len(own) /\ Len(R2) = Len(R) + Len(list) - Len(own)
    BY DEF Replaced
  <1>5. Len(S) >= a + Len(own) /\ Len(S2) = Len(S) + Len(list) - Len(own)
    BY <1>1, <1>2, <1>3, <1>4
  <1>6. ASSUME NEW i \in 1..Len(S), i <= a PROVE S2[i] = S[i]
    <2>1. i \in 1..Len(R) /\ i \in 1..Len(R2) /\ i \in 1..Len(R2) + Len(x) /\ i \in 1..Len(R) + Len(x)
      BY <1>1, <1>2, <1>4, <1>6
    <2>2. R2[i] = R[i]
      BY <1>6, <2>1 DEF Replaced
    <2>3. S[i] = R[i] /\ S2[i] = R2[i]
      BY <1>2, <1>3, <2>1
    <2> QED
      BY <2>2, <2>3
  <1>7. ASSUME NEW i \in 1..Len(S), a < i, i <= a + Len(own) PROVE S[i] = own[i - a]
    <2>1. i \in 1..Len(R) /\ i \in 1..Len(R) + Len(x)
      BY <1>1, <1>2, <1>4, <1>7
    <2>2. R[i] = own[i - a]
      BY <1>7, <2>1 DEF Replaced
    <2>3. S[i] = R[i]
      BY <1>2, <2>1
    <2> QED
      BY <2>2, <2>3
  <1>8. ASSUME NEW i \in 1..Len(S2), a < i, i <= a + Len(list) PROVE S2[i] = list[i - a]
    <2>1. i \in 1..Len(R2) /\ i \in 1..Len(R2) + Len(x)
      BY <1>1, <1>3, <1>4, <1>8
    <2>2. R2[i] = list[i - a]
      BY <1>8, <2>1 DEF Replaced
    <2>3. S2[i] = R2[i]
      BY <1>3, <2>1
    <2> QED
      BY <2>2, <2>3
  <1>9. ASSUME NEW i \in 1..Len(S2), i > a + Len(list) PROVE S2[i] = S[i + Len(own) - Len(list)]
    <2> DEFINE j == i + Len(own) - Len(list)
    <2>1. j \in 1..Len(R) + Len(x) /\ i \in 1..Len(R2) + Len(x) /\ j - Len(R) = i - Len(R2)
          /\ (i <= Len(R2) <=> j <= Len(R)) /\ (i <= Len(R2) => i \in 1..Len(R2))
      BY <1>1, <1>2, <1>3, <1>4, <1>9
    <2>2. i <= Len(R2) => R2[i] = R[j]
      BY <1>9, <2>1 DEF Replaced
    <2> HIDE DEF j
    <2>3. S2[i] = IF i <= Len(R2) THEN R2[i] ELSE x[i - Len(R2)]
      BY <1>3, <2>1
    <2>4. S[j] = IF j <= Len(R) THEN R[j] ELSE x[j - Len(R)]
      BY <1>2, <2>1
    <2>5. S2[i] = S[j]
      BY <2>1, <2>2, <2>3, <2>4
    <2> QED
      BY <2>5 DEF j
  <1>10. Replaced(S, S2, a, own, list)
    BY <1>5, <1>6, <1>7, <1>8, <1>9 DEF Replaced
  <1> QED
    BY <1>10 DEF S, S2

\* The rows of one name are other ones, the others stay.
LEMMA RowsReplaced ==
  ASSUME NEW V, NEW items, NEW items2, Typed(items, V), Typed(items2, V), NEW name \in 0..LastName,
         \A n : n # name => ItemsOf(items2, n) = ItemsOf(items, n)
  PROVE  /\ RowsBefore(items2)[name] = RowsBefore(items)[name]
         /\ Replaced(Rows(items), Rows(items2), Len(RowsBefore(items)[name]),
                     ItemsOf(items, name), ItemsOf(items2, name))
  <1> DEFINE F == RowsBefore(items)  G == RowsBefore(items2)
             own == ItemsOf(items, name)  list == ItemsOf(items2, name)
             a == Len(F[name])
             W == Seq(V)
             m == LastName + 1
  <1>1. /\ F \in [0..m -> W] /\ F[0] = <<>>
        /\ \A n \in 0..LastName : F[n + 1] = F[n] \o ItemsOf(items, n)
    BY RowsBeforeFit
  <1>2. /\ G \in [0..m -> W] /\ G[0] = <<>>
        /\ \A n \in 0..LastName : G[n + 1] = G[n] \o ItemsOf(items2, n)
    BY RowsBeforeFit
  <1>3. (\A n : ItemsOf(items, n) \in W) /\ own \in W /\ list \in W
    BY ItemsOfTyped
  <1>4. LastName \in Nat
    BY LastNameIsNat
  <1> HIDE DEF F, G, W, m
  <1>5. \A k \in Nat : k <= name => G[k] = F[k]
    <2> DEFINE S == {k \in Nat : k <= name => G[k] = F[k]}
    <2>1. 0 \in S
      BY <1>1, <1>2
    <2>2. ASSUME NEW k \in Nat, k \in S PROVE k + 1 \in S
      <3>1. ASSUME k + 1 <= name PROVE G[k + 1] = F[k + 1]
        <4>1. k \in 0..LastName /\ k <= name /\ k # name
          BY <1>4, <3>1
        <4>2. G[k] = F[k] /\ ItemsOf(items2, k) = ItemsOf(items, k)
          BY <2>2, <4>1
        <4>3. F[k + 1] = F[k] \o ItemsOf(items, k) /\ G[k + 1] = G[k] \o ItemsOf(items2, k)
          BY <1>1, <1>2, <4>1
        <4> QED
          BY <4>2, <4>3
      <3> QED
        BY <3>1
    <2>3. \A k \in Nat : k \in S
      <3> HIDE DEF S
      <3> QED
        BY <2>1, <2>2, Induction
    <2> QED
      BY <2>3
  <1>6. G[name] = F[name] /\ F[name] \in W
    <2>1. name \in Nat /\ name <= name /\ name \in 0..m
      BY <1>4 DEF m
    <2> QED
      BY <1>1, <1>5, <2>1
  <1>7. a \in Nat
    BY <1>6 DEF W
  <1> HIDE DEF a
  <1> DEFINE T == {k \in Nat : name + 1 + k <= m => Replaced(F[name + 1 + k], G[name + 1 + k], a, own, list)}
  <1>8. 0 \in T
    <2>1. F[name + 1] = F[name] \o own /\ G[name + 1] = F[name] \o list
      <3>1. F[name + 1] = F[name] \o ItemsOf(items, name)
        BY <1>1
      <3>2. G[name + 1] = G[name] \o ItemsOf(items2, name)
        BY <1>2
      <3> QED
        BY <3>1, <3>2, <1>6
    <2>2. Replaced(F[name] \o own, F[name] \o list, a, own, list)
      BY <1>3, <1>6, ReplacedAtEnd DEF W, a
    <2>3. Replaced(F[name + 1], G[name + 1], a, own, list)
      BY <2>1, <2>2
    <2>4. name + 1 + 0 = name + 1
      BY <1>4
    <2> QED
      BY <2>3, <2>4
  <1>9. ASSUME NEW k \in Nat, k \in T PROVE k + 1 \in T
    <2>1. ASSUME name + 1 + (k + 1) <= m
          PROVE  Replaced(F[name + 1 + (k + 1)], G[name + 1 + (k + 1)], a, own, list)
      <3> DEFINE n == name + 1 + k
      <3>1. n \in 0..LastName /\ n \in 0..m /\ n # name /\ n <= m /\ name + 1 + (k + 1) = n + 1
        BY <1>4, <2>1 DEF m
      <3>2. Replaced(F[n], G[n], a, own, list)
        BY <1>9, <3>1
      <3> HIDE DEF n, own, list
      <3>3. F[n + 1] = F[n] \o ItemsOf(items, n) /\ G[n + 1] = G[n] \o ItemsOf(items, n)
        BY <1>1, <1>2, <3>1
      <3>4. F[n] \in W /\ G[n] \in W /\ ItemsOf(items, n) \in W
        BY <1>1, <1>2, <1>3, <3>1
      <3>5. Replaced(F[n] \o ItemsOf(items, n), G[n] \o ItemsOf(items, n), a, own, list)
        BY <1>3, <1>7, <3>2, <3>4, ReplacedExtends DEF W
      <3> QED
        BY <3>1, <3>3, <3>5
    <2> QED
      BY <2>1
  <1>10. \A k \in Nat : k \in T
    <2> HIDE DEF T
    <2> QED
      BY <1>8, <1>9, Induction
  <1>11. Replaced(F[m], G[m], a, own, list)
    <2>1. LastName - name \in Nat /\ name + 1 + (LastName - name) = m /\ m <= m
      BY <1>4 DEF m
    <2>2. LastName - name \in T
      BY <1>10, <2>1
    <2> QED
      BY <2>1, <2>2
  <1> QED
    BY <1>6, <1>11 DEF F, G, m, a, Rows

\* A name that comes after all the others has its rows at the end.
LEMMA NoRowsBehind ==
  ASSUME NEW V, NEW items, Typed(items, V), NEW name \in 0..LastName, \A n \in DOMAIN items : n < name
  PROVE  Rows(items) = RowsBefore(items)[name]
  <1> DEFINE F == RowsBefore(items)
             W == Seq(V)
             m == LastName + 1
             S == {k \in Nat : name + k <= m => F[name + k] = F[name]}
  <1>1. /\ F \in [0..m -> W]
        /\ \A n \in 0..LastName : F[n + 1] = F[n] \o ItemsOf(items, n)
    BY RowsBeforeFit
  <1>2. LastName \in Nat
    BY LastNameIsNat
  <1> HIDE DEF F, W, m
  <1>3. 0 \in S
    BY <1>2
  <1>4. ASSUME NEW k \in Nat, k \in S PROVE k + 1 \in S
    <2>1. ASSUME name + (k + 1) <= m PROVE F[name + (k + 1)] = F[name]
      <3> DEFINE n == name + k
      <3>1. n \in 0..LastName /\ n \in 0..m /\ ~(n < name) /\ n <= m /\ name + (k + 1) = n + 1
        BY <1>2, <2>1 DEF m
      <3>2. F[n] = F[name]
        BY <1>4, <3>1
      <3> HIDE DEF n
      <3>3. ItemsOf(items, n) = <<>>
        BY <3>1 DEF ItemsOf
      <3>4. F[n + 1] = F[n] \o <<>> /\ F[n] \in W
        BY <1>1, <3>1, <3>3
      <3>5. F[n] \o <<>> = F[n]
        BY <3>4, ConcatEmptySeq DEF W
      <3> QED
        BY <3>1, <3>2, <3>4, <3>5
    <2> QED
      BY <2>1
  <1>5. \A k \in Nat : k \in S
    <2> HIDE DEF S
    <2> QED
      BY <1>3, <1>4, Induction
  <1>6. F[m] = F[name]
    <2>1. m - name \in Nat /\ name + (m - name) = m /\ m <= m
      BY <1>2 DEF m
    <2>2. m - name \in S
      BY <1>5, <2>1
    <2> QED
      BY <2>1, <2>2
  <1> QED
    BY <1>6 DEF F, m, Rows

LEMMA RowsTyped ==
  ASSUME NEW V, NEW items, Typed(items, V)
  PROVE  /\ Rows(items) \in Seq(V)
         /\ \A n \in 0..LastName : RowsBefore(items)[n] \in Seq(V)
  <1>1. LastName + 1 \in 0..LastName + 1 /\ \A n \in 0..LastName : n \in 0..LastName + 1
    BY LastNameIsNat
  <1> QED
    BY <1>1, RowsBeforeFit DEF Rows

\* The rows of a name are among the rows.
LEMMA RowsHaveItems ==
  ASSUME NEW V, NEW items, Typed(items, V), NEW name \in DOMAIN items, NEW k \in 1..Len(items[name])
  PROVE  \E i \in DOMAIN Rows(items) : Rows(items)[i] = items[name][k]
  <1> DEFINE R == Rows(items)  F == RowsBefore(items)[name]  a == Len(F)  own == items[name]
  <1>1. R \in Seq(V) /\ F \in Seq(V) /\ own \in Seq(V)
    BY RowsTyped DEF Typed
  <1>2. Replaced(R, R, a, own, own)
    <2>1. name \in 0..LastName /\ ItemsOf(items, name) = own
      BY DEF Typed, ItemsOf
    <2> QED
      BY <2>1, RowsReplaced
  <1> HIDE DEF R, F, own
  <1>3. a \in Nat /\ Len(own) \in Nat /\ DOMAIN R = 1..Len(R) /\ Len(R) \in Nat /\ k \in 1..Len(own)
    BY <1>1 DEF own
  <1> HIDE DEF a
  <1>4. a + k \in 1..Len(R) /\ a < a + k /\ a + k <= a + Len(own) /\ (a + k) - a = k
    BY <1>2, <1>3 DEF Replaced
  <1>5. R[a + k] = own[k]
    BY <1>2, <1>4 DEF Replaced
  <1> QED
    BY <1>3, <1>4, <1>5 DEF R, own

-----------------------------------------------------------------------------
(* The rows of the sources *)

SomeRows == [source : Names, item : Items]

Datas == [item : Items, list : Seq(Items) \union {NoList}, matching : Seq(Items)]

LEMMA DataAssumed ==
  /\ Contents \subseteq Datas
  /\ NoList \notin Seq(Items)
  /\ DisplayRole \notin Roles /\ "" \notin Roles /\ Blank \notin Values
  BY DataModelAssumption DEF Datas

LEMMA ClearedIsData == Cleared \in Datas
  <1>1. [role \in {} |-> Blank] \in [{} -> Values]
    OBVIOUS
  <1>2. [role \in {} |-> Blank] \in Items
    BY <1>1 DEF Items
  <1> QED
    BY <1>2 DEF Cleared, Datas

\* What all of the data says
DataTyped(all) == DOMAIN all \subseteq Names /\ \A n \in DOMAIN all : all[n] \in Datas

LEMMA KeyRoleRowsTyped ==
  ASSUME NEW n \in Names, NEW d \in Datas, NEW V, V \subseteq Items,
         d.list # NoList => d.list \in Seq(V), d.list = NoList => d.matching \in Seq(V)
  PROVE  KeyRoleRows(n, d) \in Seq([source : Names, item : V])
  <1> DEFINE found == IF d.list # NoList THEN d.list ELSE d.matching
  <1>1. found \in Seq(V)
    OBVIOUS
  <1> HIDE DEF found
  <1> DEFINE W == [source : Names, item : V]
  <1>2. Len(found) \in Nat /\ DOMAIN found = 1..Len(found)
    BY <1>1
  <1>3. \A i \in DOMAIN found : Row(n, found[i]) \in W
    BY <1>1 DEF Row
  <1> HIDE DEF W
  <1>4. [i \in DOMAIN found |-> Row(n, found[i])] \in Seq(W)
    BY <1>2, <1>3
  <1> QED
    BY <1>4 DEF KeyRoleRows, found, W

\* The sources that have rows
Sourced(all) == {o \in DOMAIN all \intersect sourceFilter : all[o] # Cleared}

\* One row for each, in the order of the names
LEMMA SourceRowsFit ==
  ASSUME NEW all, DataTyped(all)
  PROVE  /\ SourceRows(all) \in Seq([source : Names, item : {all[n].item : n \in Sourced(all)}])
         /\ \A i \in DOMAIN SourceRows(all) :
              \E n \in Sourced(all) : SourceRows(all)[i] = Row(n, all[n].item)
         /\ \A n \in Sourced(all) : \E i \in DOMAIN SourceRows(all) : SourceRows(all)[i] = Row(n, all[n].item)
         /\ \A i, j \in DOMAIN SourceRows(all) : i < j => SourceRows(all)[i].source < SourceRows(all)[j].source
  <1> DEFINE items == [n \in Sourced(all) |-> <<Row(n, all[n].item)>>]
             V == {Row(n, all[n].item) : n \in Sourced(all)}
             R == Rows(items)
             F == RowsBefore(items)
             m == LastName + 1
  <1>1. SourceRows(all) = R
    BY DEF SourceRows, Sourced
  <1>2. LastName \in Nat
    BY LastNameIsNat
  <1>3. Sourced(all) \subseteq 1..LastName
    BY DEF Sourced, DataTyped, Names
  <1>4. \A n \in Sourced(all) : <<Row(n, all[n].item)>> \in Seq(V)
    OBVIOUS
  <1>5. Typed(items, V)
    BY <1>2, <1>3, <1>4 DEF Typed
  <1>6. /\ F \in [0..m -> Seq(V)] /\ F[0] = <<>>
        /\ \A n \in 0..LastName : F[n + 1] = F[n] \o ItemsOf(items, n)
    BY <1>5, RowsBeforeFit
  <1>7. R \in Seq(V)
    BY <1>5, RowsTyped
  <1>8. ASSUME NEW n \in Sourced(all) PROVE \E i \in DOMAIN R : R[i] = Row(n, all[n].item)
    <2>1. n \in DOMAIN items /\ Len(items[n]) = 1 /\ items[n][1] = Row(n, all[n].item)
      OBVIOUS
    <2> HIDE DEF items
    <2> QED
      BY <1>5, <2>1, RowsHaveItems
  <1> HIDE DEF F, R
  <1>9. \A i \in DOMAIN R : R[i] \in V
    <2> HIDE DEF V
    <2> QED
      BY <1>7
  <1> DEFINE Ascending(r, k) == /\ \A i \in DOMAIN r : r[i].source < k
                                /\ \A i, j \in DOMAIN r : i < j => r[i].source < r[j].source
             S == {k \in Nat : k <= m => Ascending(F[k], k)}
  <1>10. 0 \in S
    BY <1>6
  <1>11. ASSUME NEW k \in Nat, k \in S PROVE k + 1 \in S
    <2>1. ASSUME k + 1 <= m PROVE Ascending(F[k + 1], k + 1)
      <3>1. k \in 0..LastName /\ k <= m /\ k \in 0..m
        BY <1>2, <2>1
      <3>2. Ascending(F[k], k)
        BY <1>11, <3>1
      <3>3. F[k] \in Seq(V) /\ F[k + 1] = F[k] \o ItemsOf(items, k)
        BY <1>6, <3>1
      <3>4. \A i \in DOMAIN F[k] : F[k][i].source \in Nat
        <4>1. \A r \in V : r.source \in Nat
          BY <1>3 DEF Row
        <4> HIDE DEF V
        <4> QED
          BY <3>3, <4>1
      <3>5. CASE k \notin Sourced(all)
        <4>1. ItemsOf(items, k) = <<>>
          BY <3>5 DEF ItemsOf
        <4>2. F[k + 1] = F[k]
          BY <3>3, <4>1, ConcatEmptySeq
        <4>3. \A i \in DOMAIN F[k] : F[k][i].source < k + 1
          BY <3>2, <3>4
        <4> QED
          BY <3>2, <4>2, <4>3
      <3>6. CASE k \in Sourced(all)
        <4> DEFINE row == Row(k, all[k].item)
                   pre == F[k]
                   r == pre \o <<row>>
        <4>1. ItemsOf(items, k) = <<row>>
          BY <3>6 DEF ItemsOf
        <4>2. row.source = k /\ row \in V
          BY <3>6 DEF Row
        <4>3. F[k + 1] = r
          BY <3>3, <4>1
        <4> HIDE DEF row, pre, V
        <4>4. pre \in Seq(V) /\ <<row>> \in Seq(V) /\ Len(<<row>>) = 1 /\ <<row>>[1] = row
          BY <3>3, <4>2 DEF pre
        <4>5. /\ r \in Seq(V) /\ Len(r) = Len(pre) + Len(<<row>>)
              /\ \A i \in 1 .. Len(pre) + Len(<<row>>) :
                   r[i] = IF i <= Len(pre) THEN pre[i] ELSE <<row>>[i - Len(pre)]
          BY <4>4, ConcatProperties
        <4> HIDE DEF r
        <4>6. DOMAIN r = 1..Len(pre) + 1 /\ DOMAIN pre = 1..Len(pre) /\ Len(pre) \in Nat
          BY <4>4, <4>5
        <4>7. r[Len(pre) + 1] = row
          BY <4>4, <4>5, <4>6
        <4>8. \A i \in DOMAIN r : i # Len(pre) + 1 => i \in DOMAIN pre /\ r[i] = pre[i]
          BY <4>4, <4>5, <4>6
        <4>9. Ascending(pre, k) /\ \A i \in DOMAIN pre : pre[i].source \in Nat
          BY <3>2, <3>4 DEF pre
        <4>10. \A i \in DOMAIN r : r[i].source < k + 1
          BY <4>2, <4>6, <4>7, <4>8, <4>9
        <4>11. \A i, j \in DOMAIN r : i < j => r[i].source < r[j].source
          <5> TAKE i, j \in DOMAIN r
          <5> HAVE i < j
          <5>1. i # Len(pre) + 1
            BY <4>6
          <5>2. i \in DOMAIN pre /\ r[i] = pre[i]
            BY <4>8, <5>1
          <5>3. CASE j = Len(pre) + 1
            BY <4>2, <4>7, <4>9, <5>2, <5>3
          <5>4. CASE j # Len(pre) + 1
            BY <4>8, <4>9, <5>2, <5>4
          <5> QED
            BY <5>3, <5>4
        <4> QED
          BY <4>3, <4>10, <4>11
      <3> QED
        BY <3>5, <3>6
    <2> QED
      BY <2>1
  <1>12. \A k \in Nat : k \in S
    <2> HIDE DEF S
    <2> QED
      BY <1>10, <1>11, Induction
  <1>13. Ascending(R, m)
    <2>1. m \in S /\ m <= m
      BY <1>12, <1>2
    <2> QED
      BY <2>1 DEF R, F, Rows
  <1>14. V \subseteq [source : Names, item : {all[n].item : n \in Sourced(all)}]
    BY <1>3 DEF Row, Names
  <1>15. R \in Seq([source : Names, item : {all[n].item : n \in Sourced(all)}])
    <2> DEFINE W == [source : Names, item : {all[n].item : n \in Sourced(all)}]
    <2> HIDE DEF V, W
    <2>1. V \subseteq W
      BY <1>14 DEF W
    <2>2. R \in Seq(W)
      BY <1>7, <2>1, SeqMonotonic
    <2> QED
      BY <2>2 DEF W
  <1> QED
    BY <1>1, <1>8, <1>9, <1>13, <1>15

-----------------------------------------------------------------------------
(* What views and proxies make of the signals *)

\* The rows that come or go when "length" rows take the place of "oldLength"
Resized(s, new, first, oldLength, length) ==
    IF length > oldLength THEN Spliced(s, new, first + oldLength, first + length)
    ELSE IF length < oldLength THEN Cut(s, first + length, first + oldLength)
    ELSE s

Least(oldLength, length) == IF length < oldLength THEN length ELSE oldLength

\* and then those that are named as changed
Retold(s, new, first, oldLength, length) ==
    Renewed(Resized(s, new, first, oldLength, length), new, first, first + Least(oldLength, length) + 1)

\* What is shown of rows, F of each
Shown(F, R) == [i \in 1..Len(R) |-> F[R[i]]]

\* Who shows F of the rows shows F of the new rows but those that are named as changed.
LEMMA ResizedShows ==
  ASSUME NEW V, NEW R \in Seq(V), NEW R2 \in Seq(V), NEW own \in Seq(V), NEW list \in Seq(V),
         NEW a \in Nat, Replaced(R, R2, a, own, list), NEW F
  PROVE  LET r == Resized(Shown(F, R), Shown(F, R2), a, Len(own), Len(list))
         IN  /\ DOMAIN r = 1..Len(R2)
             /\ \A i \in 1..Len(R2) :
                  (a < i /\ i <= a + Least(Len(own), Len(list))) \/ r[i] = Shown(F, R2)[i]
  <1> DEFINE s == Shown(F, R)  n == Shown(F, R2)  l == Len(list)  o == Len(own)
             c == Len(R)  c2 == Len(R2)
             r == Resized(s, n, a, o, l)
  <1>1. l \in Nat /\ o \in Nat /\ c \in Nat /\ c2 \in Nat
    OBVIOUS
  <1>2. c >= a + o /\ c2 = c + l - o
    BY DEF Replaced
  <1>3. DOMAIN s = 1..c /\ DOMAIN n = 1..c2 /\ Len(s) = c /\ \A i \in 1..c : s[i] = F[R[i]]
    BY <1>1 DEF Shown
  <1>4. \A i \in 1..c2 : n[i] = F[R2[i]]
    BY <1>1 DEF Shown
  <1>5. \A i \in 1..c : i <= a => i \in 1..c2 /\ s[i] = n[i]
    <2>1. \A i \in 1..c : i <= a => i \in 1..c2 /\ R2[i] = R[i]
      BY <1>1, <1>2 DEF Replaced
    <2> HIDE DEF s, n
    <2> QED
      BY <1>3, <1>4, <2>1
  <1>6. \A i \in 1..c2 : i > a + l => i + o - l \in 1..c /\ n[i] = s[i + o - l]
    <2>1. \A i \in 1..c2 : i > a + l => i + o - l \in 1..c /\ R2[i] = R[i + o - l]
      BY <1>1, <1>2 DEF Replaced
    <2> HIDE DEF s, n
    <2> QED
      BY ZenonT(40), <1>3, <1>4, <2>1
  <1> HIDE DEF s, n, l, o, c, c2
  <1>7. /\ DOMAIN r = 1..c2
        /\ \A i \in 1..c2 : (a < i /\ i <= a + Least(o, l)) \/ r[i] = n[i]
    <2>1. CASE l > o
      <3>1. r = Spliced(s, n, a + o, a + l)
        BY <2>1 DEF Resized
      <3>2. (a + l) - (a + o) = l - o /\ c + (a + l) - (a + o) = c2
        BY <1>1, <1>2
      <3>3. r = [i \in 1..c2 |-> IF i <= a + o THEN s[i] ELSE IF i <= a + l THEN n[i] ELSE s[i - (l - o)]]
        BY <1>3, <3>1, <3>2 DEF Spliced
      <3>4. Least(o, l) = o
        BY <1>1, <2>1 DEF Least
      <3>5. ASSUME NEW i \in 1..c2, ~(a < i /\ i <= a + o) PROVE r[i] = n[i]
        <4>1. CASE i <= a
          <5>1. i \in 1..c /\ i <= a + o
            BY <1>1, <1>2, <4>1
          <5> QED
            BY <1>5, <3>3, <4>1, <5>1
        <4>2. CASE a + o < i /\ i <= a + l
          <5>1. ~(i <= a + o)
            BY <1>1, <4>2
          <5> QED
            BY <3>3, <4>2, <5>1
        <4>3. CASE i > a + l
          <5>1. ~(i <= a + o) /\ ~(i <= a + l) /\ i - (l - o) = i + o - l
            BY <1>1, <2>1, <4>3
          <5>2. r[i] = s[i - (l - o)]
            BY <3>3, <5>1
          <5>3. n[i] = s[i + o - l]
            BY <1>6, <4>3
          <5> QED
            BY <5>1, <5>2, <5>3
        <4> QED
          BY <1>1, <3>5, <4>1, <4>2, <4>3
      <3>6. DOMAIN r = 1..c2
        BY <3>3
      <3> HIDE DEF r
      <3> QED
        BY <3>4, <3>5, <3>6
    <2>2. CASE l < o
      <3>1. r = Cut(s, a + l, a + o)
        BY <1>1, <2>2 DEF Resized
      <3>2. (a + o) - (a + l) = o - l /\ c - (o - l) = c2
        BY <1>1, <1>2
      <3>3. r = [i \in 1..c2 |-> IF i <= a + l THEN s[i] ELSE s[i + (o - l)]]
        BY <1>3, <3>1, <3>2 DEF Cut
      <3>4. Least(o, l) = l
        BY <2>2 DEF Least
      <3>5. ASSUME NEW i \in 1..c2, ~(a < i /\ i <= a + l) PROVE r[i] = n[i]
        <4>1. CASE i <= a
          <5>1. i \in 1..c /\ i <= a + l
            BY <1>1, <1>2, <4>1
          <5> QED
            BY <1>5, <3>3, <4>1, <5>1
        <4>2. CASE i > a + l
          <5>1. ~(i <= a + l) /\ i + (o - l) = i + o - l
            BY <1>1, <2>2, <4>2
          <5>2. r[i] = s[i + (o - l)]
            BY <3>3, <5>1
          <5>3. n[i] = s[i + o - l]
            BY <1>6, <4>2
          <5> QED
            BY <5>1, <5>2, <5>3
        <4> QED
          BY <1>1, <3>5, <4>1, <4>2
      <3>6. DOMAIN r = 1..c2
        BY <3>3
      <3> HIDE DEF r
      <3> QED
        BY <3>4, <3>5, <3>6
    <2>3. CASE l = o
      <3>1. r = s /\ c = c2 /\ Least(o, l) = l
        BY <1>1, <1>2, <2>3 DEF Resized, Least
      <3>2. ASSUME NEW i \in 1..c2, ~(a < i /\ i <= a + l) PROVE s[i] = n[i]
        <4>1. CASE i <= a
          BY <1>5, <3>1, <4>1
        <4>2. CASE i > a + l
          <5>1. i + o - l = i
            BY <1>1, <2>3
          <5> QED
            BY <1>6, <4>2, <5>1
        <4> QED
          BY <1>1, <3>2, <4>1, <4>2
      <3> HIDE DEF r
      <3> QED
        BY <1>3, <3>1, <3>2
    <2> QED
      BY <1>1, <2>1, <2>2, <2>3
  <1> QED
    BY <1>7 DEF r, s, n, l, o, c2

\* Who shows F of the rows shows F of the new rows.
LEMMA RetoldShows ==
  ASSUME NEW V, NEW R \in Seq(V), NEW R2 \in Seq(V), NEW own \in Seq(V), NEW list \in Seq(V),
         NEW a \in Nat, Replaced(R, R2, a, own, list), NEW F
  PROVE  Retold(Shown(F, R), Shown(F, R2), a, Len(own), Len(list)) = Shown(F, R2)
  <1> DEFINE s == Shown(F, R)  n == Shown(F, R2)  l == Len(list)  o == Len(own)
             c2 == Len(R2)
             r == Resized(s, n, a, o, l)
             last == a + Least(o, l) + 1
  <1>1. l \in Nat /\ o \in Nat /\ c2 \in Nat
    OBVIOUS
  <1>3. DOMAIN n = 1..c2
    BY <1>1 DEF Shown
  <1>7. /\ DOMAIN r = 1..c2
        /\ \A i \in 1..c2 : (a < i /\ i <= a + Least(o, l)) \/ r[i] = n[i]
    BY ResizedShows
  <1> HIDE DEF s, n, l, o, c2
  <1>8. last \in Nat /\ \A i \in 1..c2 : a < i /\ i <= a + Least(o, l) => i <= last
    BY <1>1 DEF Least
  <1> HIDE DEF r
  <1>9. \A i \in 1..c2 : Renewed(r, n, a, last)[i] = n[i]
    BY <1>3, <1>7, <1>8 DEF Renewed
  <1>10. DOMAIN Renewed(r, n, a, last) = 1..c2 /\ Renewed(r, n, a, last) = [i \in 1..c2 |-> Renewed(r, n, a, last)[i]]
    BY <1>7 DEF Renewed
  <1>11. n = [i \in 1..c2 |-> n[i]]
    BY DEF n, Shown, c2
  <1>12. Renewed(r, n, a, last) = n
    BY <1>9, <1>10, <1>11
  <1> QED
    BY <1>12 DEF Retold, r, s, n, o, l, last

\* Who has rows of V has rows of V, and as many as were announced.
LEMMA RetoldTyped ==
  ASSUME NEW V, NEW s \in Seq(V), NEW new \in Seq(V), NEW a \in Nat, NEW o \in Nat, NEW l \in Nat,
         a + o <= Len(s), Len(new) = Len(s) + l - o
  PROVE  Retold(s, new, a, o, l) \in Seq(V) /\ Len(Retold(s, new, a, o, l)) = Len(new)
  <1> DEFINE r == Resized(s, new, a, o, l)  last == a + Least(o, l) + 1
  <1>1. Len(s) \in Nat /\ Len(new) \in Nat /\ DOMAIN s = 1..Len(s) /\ DOMAIN new = 1..Len(new)
    OBVIOUS
  <1>2. r \in [1..Len(new) -> V]
    <2>1. CASE l > o
      <3>1. /\ (a + l) - (a + o) = l - o /\ Len(s) + (a + l) - (a + o) = Len(new)
            /\ \A i \in 1..Len(new) : /\ i <= a + o => i \in 1..Len(s)
                                      /\ ~(i <= a + l) => i - (l - o) \in 1..Len(s)
        BY <1>1, <2>1
      <3>2. r = [i \in 1..Len(new) |-> IF i <= a + o THEN s[i]
                                       ELSE IF i <= a + l THEN new[i] ELSE s[i - (l - o)]]
        BY <2>1, <3>1 DEF Resized, Spliced
      <3> QED
        BY <3>1, <3>2
    <2>2. CASE l < o
      <3>1. /\ ~(l > o) /\ (a + o) - (a + l) = o - l /\ Len(s) - (o - l) = Len(new)
            /\ \A i \in 1..Len(new) : i \in 1..Len(s) /\ i + (o - l) \in 1..Len(s)
        BY <1>1, <2>2
      <3>2. r = [i \in 1..Len(new) |-> IF i <= a + l THEN s[i] ELSE s[i + (o - l)]]
        BY <2>2, <3>1 DEF Resized, Cut
      <3> QED
        BY <3>1, <3>2
    <2>3. CASE l = o
      BY <1>1, <2>3 DEF Resized
    <2> QED
      BY <2>1, <2>2, <2>3
  <1> HIDE DEF r, last
  <1>3. Renewed(r, new, a, last) \in [1..Len(new) -> V]
    BY <1>1, <1>2 DEF Renewed
  <1>4. Renewed(r, new, a, last) \in Seq(V) /\ Len(Renewed(r, new, a, last)) = Len(new)
    BY <1>1, <1>3
  <1> QED
    BY <1>4 DEF Retold, r, last

-----------------------------------------------------------------------------
(* What a step of the model changes *)

ModelFields == {"items", "roles", "view", "viewRoles", "proxy", "filterRole", "roleIds", "roleId",
                "filter", "callback", "accepted"}

ByProxy == {"roleIds", "roleId", "accepted"}

\* f is m but for some fields.
Same(f, m, but) == DOMAIN f = ModelFields /\ \A k \in ModelFields \ but : f[k] = m[k]

\* The proxy knows the roles of the model, and filters by the one it was told.
Synced(m) ==
    /\ m.proxy => m.roleIds = m.roles
    /\ m.roleId = RoleNameToId(m, m.filterRole)

\* What depends on the proxy's role and filter only
LEMMA AcceptedSame ==
  ASSUME NEW f, NEW m, FilteredRole(f) = FilteredRole(m), f.filter = m.filter, NEW rows
  PROVE  Accepted(f, rows) = Accepted(m, rows)
  BY DEF Accepted

LEMMA NoneAccepted ==
  ASSUME NEW f, NEW m, NEW rows, rows = <<>>
  PROVE  Accepted(f, rows) = Accepted(m, rows)
  <1>1. DOMAIN rows = {}
    OBVIOUS
  <1> QED
    BY <1>1 DEF Accepted

\* A callback gets the value of the role that the proxy was told of, too.
LEMMA FilteredBySynced ==
  ASSUME NEW m, m.roleId = RoleNameToId(m, m.filterRole)
  PROVE  FilteredRole(m) = m.roleId
  BY Zenon DEF FilteredRole

LEMMA SetFilterRoleEffect ==
  ASSUME NEW m, DOMAIN m = ModelFields, NEW role
  PROVE  LET f == SetFilterRole(m, role)
         IN  /\ Same(f, m, {"filterRole", "roleId", "accepted"})
             /\ f.filterRole = role
             /\ f.roleId = RoleNameToId(m, role)
             /\ f.roleId = m.roleId => f.accepted = m.accepted
             /\ f.roleId # m.roleId /\ (m.filterRole = role \/ Rows(m.items) = <<>>) =>
                  f.accepted = Accepted(f, Rows(f.items))
  <1> DEFINE told == [m EXCEPT !.roleId = RoleNameToId(m, role)]
             filtered == IF told.roleId = m.roleId THEN told
                         ELSE [told EXCEPT !.accepted = Accepted(told, Rows(m.items))]
             g == [filtered EXCEPT !.filterRole = role]
  <1>1. Same(told, m, {"roleId"}) /\ told.roleId = RoleNameToId(m, role)
    BY DEF Same, ModelFields
  <1>2. SetFilterRole(m, role) = g
    BY DEF SetFilterRole
  <1> HIDE DEF told
  <1>3. /\ Same(filtered, told, {"accepted"})
        /\ told.roleId = m.roleId => filtered.accepted = told.accepted
        /\ told.roleId # m.roleId => filtered.accepted = Accepted(told, Rows(m.items))
    BY <1>1 DEF Same, ModelFields
  <1> HIDE DEF filtered
  <1>4. Same(g, filtered, {"filterRole"}) /\ g.filterRole = role
    BY <1>3 DEF Same, ModelFields
  <1> HIDE DEF g
  <1>5. Same(g, m, {"filterRole", "roleId", "accepted"})
    BY <1>1, <1>3, <1>4 DEF Same
  <1>6. /\ g.roleId = told.roleId /\ g.accepted = filtered.accepted /\ told.accepted = m.accepted
        /\ g.items = m.items /\ g.filter = told.filter /\ g.roleIds = told.roleIds
        /\ told.filterRole = m.filterRole
    BY <1>1, <1>3, <1>4 DEF Same, ModelFields
  <1>7. g.callback = told.callback
    BY <1>3, <1>4 DEF Same, ModelFields
  <1>8. m.filterRole = role => Accepted(g, Rows(g.items)) = Accepted(told, Rows(m.items))
    <2>1. m.filterRole = role => FilteredRole(g) = FilteredRole(told)
      BY <1>4, <1>6, <1>7 DEF FilteredRole, RoleNameToId
    <2> QED
      BY <1>6, <2>1, AcceptedSame
  <1>9. Rows(m.items) = <<>> => Accepted(g, Rows(g.items)) = Accepted(told, Rows(m.items))
    BY <1>6, NoneAccepted
  <1> QED
    BY <1>1, <1>2, <1>3, <1>4, <1>5, <1>6, <1>8, <1>9

LEMMA SyncEffect ==
  ASSUME NEW m, DOMAIN m = ModelFields
  PROVE  LET f == SyncRoleNames(m)
         IN  /\ Same(f, m, ByProxy)
             /\ f.roleIds = m.roles
             /\ f.roleId = RoleNameToId(f, f.filterRole)
             /\ f.roleId = m.roleId => f.accepted = m.accepted
             /\ f.roleId # m.roleId => f.accepted = Accepted(f, Rows(f.items))
  <1> DEFINE n == [m EXCEPT !.roleIds = m.roles]
             f == SetFilterRole(n, m.filterRole)
  <1>1. SyncRoleNames(m) = f
    BY DEF SyncRoleNames
  <1>2. Same(n, m, {"roleIds"}) /\ n.roleIds = m.roles
    BY DEF Same, ModelFields
  <1> HIDE DEF n
  <1>3. DOMAIN n = ModelFields
    BY <1>2 DEF Same
  <1>4. /\ Same(f, n, {"filterRole", "roleId", "accepted"})
        /\ f.filterRole = m.filterRole
        /\ f.roleId = RoleNameToId(n, m.filterRole)
        /\ f.roleId = n.roleId => f.accepted = n.accepted
        /\ f.roleId # n.roleId => f.accepted = Accepted(f, Rows(f.items))
    <2>1. n.filterRole = m.filterRole
      BY <1>2 DEF Same, ModelFields
    <2> QED
      BY <1>3, <2>1, SetFilterRoleEffect
  <1> HIDE DEF f
  <1>5. Same(f, m, ByProxy)
    BY <1>2, <1>4 DEF Same, ByProxy, ModelFields
  <1>6. n.roleId = m.roleId /\ n.accepted = m.accepted
    BY <1>2 DEF Same, ModelFields
  <1>7. f.roleIds = n.roleIds
    BY <1>4 DEF Same, ModelFields
  <1>8. RoleNameToId(n, m.filterRole) = RoleNameToId(f, f.filterRole)
    BY <1>4, <1>7 DEF RoleNameToId
  <1> QED
    BY <1>1, <1>2, <1>4, <1>5, <1>6, <1>7, <1>8

\* A proxy that is synchronized stays as it is.
LEMMA CountedEffect ==
  ASSUME NEW m, DOMAIN m = ModelFields, NEW changes
  PROVE  /\ Same(Counted(m, changes), m, ByProxy)
         /\ Synced(m) => Same(Counted(m, changes), m, {})
  <1>1. CASE ~(m.proxy /\ changes)
    <2>1. Counted(m, changes) = m
      BY <1>1 DEF Counted
    <2> QED
      BY <2>1 DEF Same
  <1>2. CASE m.proxy /\ changes
    <2> DEFINE f == SyncRoleNames(m)
    <2>1. Counted(m, changes) = f
      BY <1>2 DEF Counted
    <2>2. /\ Same(f, m, ByProxy)
          /\ f.roleIds = m.roles
          /\ f.roleId = RoleNameToId(f, f.filterRole)
          /\ f.roleId = m.roleId => f.accepted = m.accepted
      BY SyncEffect
    <2> HIDE DEF f
    <2>3. ASSUME Synced(m) PROVE Same(f, m, {})
      <3>1. m.roleIds = m.roles /\ m.roleId = RoleNameToId(m, m.filterRole)
        BY <1>2, <2>3 DEF Synced
      <3>2. f.filterRole = m.filterRole
        BY <2>2 DEF Same, ByProxy, ModelFields
      <3>3. f.roleId = m.roleId /\ f.roleIds = m.roleIds
        BY <2>2, <3>1, <3>2 DEF RoleNameToId
      <3>4. f.accepted = m.accepted
        BY <2>2, <3>3
      <3> QED
        BY <2>2, <3>3, <3>4 DEF Same, ByProxy
    <2> QED
      BY <2>1, <2>2, <2>3
  <1> QED
    BY <1>1, <1>2

\* A reset shows the rows and the roles there are.
LEMMA ModelResetEffect ==
  ASSUME NEW m, DOMAIN m = ModelFields
  PROVE  LET f == ModelReset(m)
         IN  /\ Same(f, m, {"view", "viewRoles"} \union ByProxy)
             /\ f.view = Rows(m.items) /\ f.viewRoles = m.roles
             /\ f.accepted = Accepted(f, Rows(f.items))
             /\ m.roleId = RoleNameToId(m, m.filterRole) => Synced(f)
  <1> DEFINE reset == [m EXCEPT !.view = Rows(m.items), !.viewRoles = m.roles]
             synced == IF m.proxy THEN SyncRoleNames(reset) ELSE reset
             f == [synced EXCEPT !.accepted = Accepted(synced, Rows(m.items))]
  <1>1. ModelReset(m) = f
    BY DEF ModelReset
  <1>2. Same(reset, m, {"view", "viewRoles"}) /\ reset.view = Rows(m.items) /\ reset.viewRoles = m.roles
    BY DEF Same, ModelFields
  <1> HIDE DEF reset
  <1>3. DOMAIN reset = ModelFields
    BY <1>2 DEF Same
  <1>4. Same(synced, reset, ByProxy)
    BY <1>3, SyncEffect DEF Same
  <1>5. m.roleId = RoleNameToId(m, m.filterRole) => Synced(synced)
    <2>1. CASE m.proxy
      <3>1. synced = SyncRoleNames(reset)
        BY <2>1
      <3>2. synced.roleIds = reset.roles /\ synced.roleId = RoleNameToId(synced, synced.filterRole)
        BY <1>3, <3>1, SyncEffect
      <3>3. synced.roles = reset.roles
        BY <1>4 DEF Same, ByProxy, ModelFields
      <3> QED
        BY <3>2, <3>3 DEF Synced
    <2>2. CASE ~m.proxy
      <3>1. synced = reset
        BY <2>2
      <3>2. reset.roleId = m.roleId /\ reset.filterRole = m.filterRole /\ reset.roleIds = m.roleIds
        BY <1>2 DEF Same, ModelFields
      <3>3. reset.proxy = m.proxy
        BY <1>2 DEF Same, ModelFields
      <3>4. ~reset.proxy
        BY <2>2, <3>3
      <3> QED
        BY <3>1, <3>2, <3>4 DEF Synced, RoleNameToId
    <2> QED
      BY <2>1, <2>2
  <1> HIDE DEF synced
  <1>6. Same(f, synced, {"accepted"}) /\ f.accepted = Accepted(synced, Rows(m.items))
    BY <1>4 DEF Same, ModelFields
  <1> HIDE DEF f
  <1>7. Same(f, m, {"view", "viewRoles"} \union ByProxy)
    BY <1>2, <1>4, <1>6 DEF Same, ByProxy
  <1>8. f.view = Rows(m.items) /\ f.viewRoles = m.roles
    BY <1>2, <1>4, <1>6 DEF Same, ByProxy, ModelFields
  <1>9. f.roleId = synced.roleId /\ f.filter = synced.filter /\ f.items = m.items
        /\ f.filterRole = synced.filterRole /\ f.roleIds = synced.roleIds /\ f.roles = synced.roles
    BY <1>2, <1>4, <1>6 DEF Same, ByProxy, ModelFields
  <1>10. f.proxy = synced.proxy /\ f.callback = synced.callback
    BY <1>6 DEF Same, ModelFields
  <1>11. f.accepted = Accepted(f, Rows(f.items))
    <2>1. FilteredRole(f) = FilteredRole(synced)
      BY <1>9, <1>10 DEF FilteredRole, RoleNameToId
    <2> QED
      BY <1>6, <1>9, <2>1, AcceptedSame
  <1>12. Synced(synced) => Synced(f)
    BY <1>9, <1>10 DEF Synced, RoleNameToId
  <1> QED
    BY <1>1, <1>5, <1>7, <1>8, <1>11, <1>12

\* What a view and a proxy are told
LEMMA ToldEffect ==
  ASSUME NEW m, NEW n, Same(n, m, {"view", "accepted"}), NEW changes
  PROVE  LET f == Counted(n, changes)
         IN  /\ Same(f, m, {"view"} \union ByProxy)
             /\ f.view = n.view
             /\ Synced(m) => Same(f, m, {"view", "accepted"}) /\ f.accepted = n.accepted
  <1> DEFINE f == Counted(n, changes)
  <1>1. Same(n, m, {"view", "accepted"})
    OBVIOUS
  <1>2. DOMAIN n = ModelFields
    BY <1>1 DEF Same
  <1>3. Same(f, n, ByProxy) /\ (Synced(n) => Same(f, n, {}))
    BY <1>2, CountedEffect
  <1> HIDE DEF f
  <1>4. Same(f, m, {"view"} \union ByProxy) /\ f.view = n.view
    BY <1>1, <1>3 DEF Same, ByProxy, ModelFields
  <1>5. ASSUME Synced(m) PROVE Same(f, m, {"view", "accepted"}) /\ f.accepted = n.accepted
    <2>1. /\ n.roleIds = m.roleIds /\ n.roles = m.roles
          /\ n.roleId = m.roleId /\ n.filterRole = m.filterRole
      BY <1>1 DEF Same, ModelFields
    <2>2. n.proxy = m.proxy
      BY <1>1 DEF Same, ModelFields
    <2>3. Synced(n)
      BY <1>5, <2>1, <2>2 DEF Synced, RoleNameToId
    <2>4. Same(f, n, {})
      BY <1>3, <2>3
    <2> QED
      BY <1>1, <2>4 DEF Same, ModelFields
  <1> QED
    BY <1>4, <1>5 DEF f

LEMMA RowsInsertedEffect ==
  ASSUME NEW m, DOMAIN m = ModelFields, NEW first, NEW last
  PROVE  LET f == RowsInserted(m, first, last)
         IN  /\ Same(f, m, {"view"} \union ByProxy)
             /\ f.view = Spliced(m.view, Rows(m.items), first, last)
             /\ Synced(m) => /\ Same(f, m, {"view", "accepted"})
                             /\ f.accepted = Spliced(m.accepted, Accepted(m, Rows(m.items)), first, last)
  <1> DEFINE v == Spliced(m.view, Rows(m.items), first, last)
             a == Spliced(m.accepted, Accepted(m, Rows(m.items)), first, last)
             changes == \E i \in first + 1..last : Accepted(m, Rows(m.items))[i]
             n == [m EXCEPT !.view = v, !.accepted = a]
             f == Counted(n, changes)
  <1>1. RowsInserted(m, first, last) = f
    BY DEF RowsInserted
  <1>2. Same(n, m, {"view", "accepted"}) /\ n.view = v /\ n.accepted = a
    BY DEF Same, ModelFields
  <1> HIDE DEF n, changes
  <1>3. /\ Same(f, m, {"view"} \union ByProxy)
        /\ f.view = n.view
        /\ Synced(m) => Same(f, m, {"view", "accepted"}) /\ f.accepted = n.accepted
    BY <1>2, ToldEffect
  <1> HIDE DEF f
  <1> QED
    BY <1>1, <1>2, <1>3

LEMMA RowsRemovedEffect ==
  ASSUME NEW m, DOMAIN m = ModelFields, NEW first, NEW last
  PROVE  LET f == RowsRemoved(m, first, last)
         IN  /\ Same(f, m, {"view"} \union ByProxy)
             /\ f.view = Cut(m.view, first, last)
             /\ Synced(m) => /\ Same(f, m, {"view", "accepted"})
                             /\ f.accepted = Cut(m.accepted, first, last)
  <1> DEFINE v == Cut(m.view, first, last)
             a == Cut(m.accepted, first, last)
             changes == \E i \in first + 1..last : m.accepted[i]
             n == [m EXCEPT !.view = v, !.accepted = a]
             f == Counted(n, changes)
  <1>1. RowsRemoved(m, first, last) = f
    BY DEF RowsRemoved
  <1>2. Same(n, m, {"view", "accepted"}) /\ n.view = v /\ n.accepted = a
    BY DEF Same, ModelFields
  <1> HIDE DEF n, changes
  <1>3. /\ Same(f, m, {"view"} \union ByProxy)
        /\ f.view = n.view
        /\ Synced(m) => Same(f, m, {"view", "accepted"}) /\ f.accepted = n.accepted
    BY <1>2, ToldEffect
  <1> HIDE DEF f
  <1> QED
    BY <1>1, <1>2, <1>3

LEMMA DataChangedEffect ==
  ASSUME NEW m, DOMAIN m = ModelFields, NEW first, NEW last
  PROVE  LET f == DataChanged(m, first, last)
         IN  /\ Same(f, m, {"view"} \union ByProxy)
             /\ f.view = Renewed(m.view, Rows(m.items), first, last)
             /\ Synced(m) => /\ Same(f, m, {"view", "accepted"})
                             /\ f.accepted = Renewed(m.accepted, Accepted(m, Rows(m.items)), first, last)
  <1> DEFINE v == Renewed(m.view, Rows(m.items), first, last)
             a == Renewed(m.accepted, Accepted(m, Rows(m.items)), first, last)
             changes == a # m.accepted
             n == [m EXCEPT !.view = v, !.accepted = a]
             f == Counted(n, changes)
  <1>1. DataChanged(m, first, last) = f
    BY DEF DataChanged
  <1>2. Same(n, m, {"view", "accepted"}) /\ n.view = v /\ n.accepted = a
    BY DEF Same, ModelFields
  <1> HIDE DEF n, changes
  <1>3. /\ Same(f, m, {"view"} \union ByProxy)
        /\ f.view = n.view
        /\ Synced(m) => Same(f, m, {"view", "accepted"}) /\ f.accepted = n.accepted
    BY <1>2, ToldEffect
  <1> HIDE DEF f
  <1> QED
    BY <1>1, <1>2, <1>3

\* The items of a model in which those of one name are other ones
Put(items, name, list) ==
    [n \in DOMAIN items \union {name} |-> IF n = name THEN list ELSE items[n]]

LEMMA PutItems ==
  ASSUME NEW V, NEW items, Typed(items, V), NEW name \in 0..LastName, NEW list \in Seq(V)
  PROVE  /\ Typed(Put(items, name, list), V)
         /\ ItemsOf(Put(items, name, list), name) = list
         /\ \A n : n # name => ItemsOf(Put(items, name, list), n) = ItemsOf(items, n)
  <1>1. DOMAIN Put(items, name, list) = DOMAIN items \union {name}
    BY DEF Put
  <1>2. \A n \in DOMAIN items \union {name} : Put(items, name, list)[n] = IF n = name THEN list ELSE items[n]
    BY DEF Put
  <1> QED
    BY <1>1, <1>2 DEF Typed, ItemsOf

LEMMA SyncedSame ==
  ASSUME NEW f, NEW m, Same(f, m, {"items", "view", "viewRoles", "accepted"}), Synced(m)
  PROVE  Synced(f)
  <1>1. f.roleIds = m.roleIds /\ f.roles = m.roles /\ f.roleId = m.roleId /\ f.filterRole = m.filterRole
    BY DEF Same, ModelFields
  <1>2. f.proxy = m.proxy
    BY DEF Same, ModelFields
  <1> QED
    BY <1>1, <1>2 DEF Synced, RoleNameToId

\* What a list shows of which "old" rows were shown, when the rows are "new".
Relisted(first, old, new, a, o, l) ==
    IF first THEN Renewed(new, new, a, a + Least(o, l) + 1) ELSE Retold(old, new, a, o, l)

LEMMA SetItemsEffect ==
  ASSUME NEW m, DOMAIN m = ModelFields, NEW name, NEW list, Len(list) \in Nat,
         Len(ItemsOf(m.items, name)) \in Nat
  PROVE  LET f == SetItems(m, name, list)
             a == SourceIndex(m.items, name)
             o == Len(ItemsOf(m.items, name))
             l == Len(list)
             first == DOMAIN m.items = {}
         IN  /\ Same(f, m, {"items", "roles", "view", "viewRoles"} \union ByProxy)
             /\ f.items = Put(m.items, name, list)
             /\ f.roles = m.roles \union RolesOf(list)
             /\ f.viewRoles = IF first THEN f.roles ELSE m.viewRoles
             /\ f.view = Relisted(first, m.view, Rows(f.items), a, o, l)
             /\ Synced(m) /\ (first \/ f.roles = m.roles) =>
                   /\ Synced(f)
                   /\ f.accepted = Relisted(first, m.accepted, Accepted(f, Rows(f.items)), a, o, l)
  <1> DEFINE a == SourceIndex(m.items, name)
             o == Len(ItemsOf(m.items, name))
             l == Len(list)
             first == DOMAIN m.items = {}
             set == [m EXCEPT !.items = Put(m.items, name, list), !.roles = @ \union RolesOf(list)]
             signalled ==
               CASE DOMAIN m.items = {} -> ModelReset(set)
                 [] DOMAIN m.items # {} /\ l > o -> RowsInserted(set, a + o, a + l)
                 [] DOMAIN m.items # {} /\ l < o -> RowsRemoved(set, a + l, a + o)
                 [] OTHER -> set
             f == DataChanged(signalled, a, a + Least(o, l) + 1)
             R2 == Rows(set.items)
  <1>1. SetItems(m, name, list) = f
    BY DEF SetItems, Put, Least
  <1>2. /\ Same(set, m, {"items", "roles"})
        /\ set.items = Put(m.items, name, list) /\ set.roles = m.roles \union RolesOf(list)
    BY DEF Same, ModelFields
  <1> HIDE DEF set
  <1>3. DOMAIN set = ModelFields
    BY <1>2 DEF Same
  <1> DEFINE seen == IF first THEN R2 ELSE Resized(m.view, R2, a, o, l)
             acc(A) == IF first THEN A ELSE Resized(m.accepted, A, a, o, l)
             ok == Synced(m) /\ (first \/ set.roles = m.roles)
  <1>4. ok => set.roleId = RoleNameToId(set, set.filterRole) /\ (~first => Synced(set))
    <2>1. set.roleId = m.roleId /\ set.filterRole = m.filterRole /\ set.roleIds = m.roleIds
      BY <1>2 DEF Same, ModelFields
    <2>2. set.proxy = m.proxy
      BY <1>2 DEF Same, ModelFields
    <2>3. Synced(m) => set.roleId = RoleNameToId(set, set.filterRole)
      BY <2>1 DEF Synced, RoleNameToId
    <2>4. Synced(m) /\ set.roles = m.roles => Synced(set)
      BY <2>1, <2>2, <2>3 DEF Synced
    <2> QED
      BY <2>3, <2>4
  <1>5. set.view = m.view /\ set.accepted = m.accepted /\ set.viewRoles = m.viewRoles
    BY <1>2 DEF Same, ModelFields
  <1> DEFINE Fine(s) ==
               /\ Same(s, set, {"view", "viewRoles"} \union ByProxy)
               /\ s.view = seen
               /\ s.viewRoles = IF first THEN set.roles ELSE set.viewRoles
               /\ ok => Synced(s) /\ s.accepted = acc(Accepted(s, R2))
  <1>6. Fine(signalled)
    <2>1. CASE first
      <3> DEFINE s == ModelReset(set)
      <3>1. signalled = s
        BY <2>1
      <3>2. /\ Same(s, set, {"view", "viewRoles"} \union ByProxy)
            /\ s.view = Rows(set.items) /\ s.viewRoles = set.roles
            /\ s.accepted = Accepted(s, Rows(s.items))
            /\ set.roleId = RoleNameToId(set, set.filterRole) => Synced(s)
        BY <1>3, ModelResetEffect
      <3> HIDE DEF s
      <3>3. s.items = set.items
        BY <3>2 DEF Same, ByProxy, ModelFields
      <3>4. Fine(s)
        BY <1>4, <2>1, <3>2, <3>3
      <3> HIDE DEF signalled, Fine
      <3> QED
        BY <3>1, <3>4
    <2>2. CASE ~first /\ l > o
      <3> DEFINE s == RowsInserted(set, a + o, a + l)
      <3>1. signalled = s
        BY <2>2
      <3>2. /\ Same(s, set, {"view"} \union ByProxy)
            /\ s.view = Spliced(set.view, Rows(set.items), a + o, a + l)
            /\ Synced(set) => /\ Same(s, set, {"view", "accepted"})
                              /\ s.accepted = Spliced(set.accepted, Accepted(set, Rows(set.items)), a + o, a + l)
        BY <1>3, RowsInsertedEffect
      <3> HIDE DEF s
      <3>3. \A x, n : Resized(x, n, a, o, l) = Spliced(x, n, a + o, a + l)
        BY <2>2 DEF Resized
      <3>4. Same(s, set, {"view", "viewRoles"} \union ByProxy) /\ s.viewRoles = set.viewRoles
        BY <3>2 DEF Same, ByProxy, ModelFields
      <3>5. s.view = seen
        BY <1>5, <2>2, <3>2, <3>3
      <3>6. ASSUME ok PROVE Synced(s) /\ s.accepted = acc(Accepted(s, R2))
        <4>1. Synced(set)
          BY <1>4, <2>2, <3>6
        <4>2. Same(s, set, {"view", "accepted"})
          BY <3>2, <4>1
        <4>3. s.roleId = set.roleId /\ s.filter = set.filter
          BY <4>2 DEF Same, ModelFields
        <4>5. Synced(s)
          BY <4>1, <4>2, SyncedSame DEF Same
        <4>4. Accepted(s, R2) = Accepted(set, R2)
          <5>1. FilteredRole(s) = s.roleId /\ FilteredRole(set) = set.roleId
            BY <4>1, <4>5, FilteredBySynced DEF Synced
          <5> QED
            BY <4>3, <5>1, AcceptedSame
        <4> QED
          BY <1>5, <2>2, <3>2, <3>3, <4>1, <4>4, <4>5
      <3>7. Fine(s)
        BY <2>2, <3>4, <3>5, <3>6
      <3> HIDE DEF signalled, Fine
      <3> QED
        BY <3>1, <3>7
    <2>3. CASE ~first /\ l < o
      <3> DEFINE s == RowsRemoved(set, a + l, a + o)
      <3>1. signalled = s
        BY <2>3
      <3>2. /\ Same(s, set, {"view"} \union ByProxy)
            /\ s.view = Cut(set.view, a + l, a + o)
            /\ Synced(set) => /\ Same(s, set, {"view", "accepted"})
                              /\ s.accepted = Cut(set.accepted, a + l, a + o)
        BY <1>3, RowsRemovedEffect
      <3> HIDE DEF s
      <3>3. \A x, n : Resized(x, n, a, o, l) = Cut(x, a + l, a + o)
        BY <2>3 DEF Resized
      <3>4. Same(s, set, {"view", "viewRoles"} \union ByProxy) /\ s.viewRoles = set.viewRoles
        BY <3>2 DEF Same, ByProxy, ModelFields
      <3>5. s.view = seen
        BY <1>5, <2>3, <3>2, <3>3
      <3>6. ASSUME ok PROVE Synced(s) /\ s.accepted = acc(Accepted(s, R2))
        <4>1. Synced(set)
          BY <1>4, <2>3, <3>6
        <4>2. Same(s, set, {"view", "accepted"})
          BY <3>2, <4>1
        <4>3. Synced(s)
          BY <4>1, <4>2, SyncedSame DEF Same
        <4> QED
          BY <1>5, <2>3, <3>2, <3>3, <4>1, <4>3
      <3>7. Fine(s)
        BY <2>3, <3>4, <3>5, <3>6
      <3> HIDE DEF signalled, Fine
      <3> QED
        BY <3>1, <3>7
    <2>4. CASE ~first /\ ~(l > o) /\ ~(l < o)
      <3>1. signalled = set
        BY <2>4
      <3>2. \A x, n : Resized(x, n, a, o, l) = x
        BY <2>4 DEF Resized
      <3>3. Same(set, set, {"view", "viewRoles"} \union ByProxy)
        BY <1>3 DEF Same
      <3>4. Fine(set)
        BY <1>4, <1>5, <2>4, <3>2, <3>3
      <3> HIDE DEF signalled, Fine
      <3> QED
        BY <3>1, <3>4
    <2> QED
      BY <2>1, <2>2, <2>3, <2>4
  <1> DEFINE last == a + Least(o, l) + 1
  <1>7. DOMAIN signalled = ModelFields
    <2> HIDE DEF signalled
    <2> QED
      BY <1>6 DEF Same
  <1>8. f = DataChanged(signalled, a, last)
    OBVIOUS
  <1> HIDE DEF signalled, f, last
  <1>9. /\ Same(f, signalled, {"view"} \union ByProxy)
        /\ f.view = Renewed(signalled.view, Rows(signalled.items), a, last)
        /\ Synced(signalled) =>
              /\ Same(f, signalled, {"view", "accepted"})
              /\ f.accepted = Renewed(signalled.accepted, Accepted(signalled, Rows(signalled.items)), a, last)
    BY <1>7, <1>8, DataChangedEffect
  <1>10. /\ Same(signalled, set, {"view", "viewRoles"} \union ByProxy)
         /\ signalled.view = seen
         /\ signalled.viewRoles = IF first THEN set.roles ELSE set.viewRoles
         /\ ok => Synced(signalled) /\ signalled.accepted = acc(Accepted(signalled, R2))
    BY <1>6
  <1>11. signalled.items = set.items /\ f.items = set.items /\ f.roles = set.roles
         /\ f.viewRoles = signalled.viewRoles
    BY <1>9, <1>10 DEF Same, ByProxy, ModelFields
  <1>12. Same(f, m, {"items", "roles", "view", "viewRoles"} \union ByProxy)
    BY <1>2, <1>9, <1>10 DEF Same, ByProxy
  <1>13. \A old, new : Relisted(first, old, new, a, o, l) =
           Renewed(IF first THEN new ELSE Resized(old, new, a, o, l), new, a, last)
    BY DEF Relisted, Retold, last
  <1>14. f.view = Relisted(first, m.view, Rows(f.items), a, o, l)
    BY <1>9, <1>10, <1>11, <1>13
  <1>15. ASSUME ok PROVE Synced(f) /\ f.accepted = Relisted(first, m.accepted, Accepted(f, Rows(f.items)), a, o, l)
    <2>1. Synced(signalled) /\ signalled.accepted = acc(Accepted(signalled, R2))
      BY <1>10, <1>15
    <2>2. /\ Same(f, signalled, {"view", "accepted"})
          /\ f.accepted = Renewed(signalled.accepted, Accepted(signalled, R2), a, last)
      BY <1>9, <1>11, <2>1
    <2>3. f.roleId = signalled.roleId /\ f.filter = signalled.filter
      BY <2>2 DEF Same, ModelFields
    <2>5. Synced(f)
      BY <2>1, <2>2, SyncedSame DEF Same
    <2>4. Accepted(f, R2) = Accepted(signalled, R2)
      <3>1. FilteredRole(f) = f.roleId /\ FilteredRole(signalled) = signalled.roleId
        BY <2>1, <2>5, FilteredBySynced DEF Synced
      <3> QED
        BY <2>3, <3>1, AcceptedSame
    <2> QED
      BY <1>11, <1>13, <2>1, <2>2, <2>4, <2>5
  <1>16. f.roles = m.roles \union RolesOf(list) /\ f.items = Put(m.items, name, list)
    BY <1>2, <1>11
  <1>17. f.viewRoles = IF first THEN f.roles ELSE m.viewRoles
    BY <1>5, <1>10, <1>11
  <1> QED
    BY <1>1, <1>11, <1>12, <1>14, <1>15, <1>16, <1>17

\* A name whose rows are, or would be, where SourceIndex says
InPlace(items, name) == name \in DOMAIN items \/ \A n \in DOMAIN items : n < name

LEMMA SourceIndexFits ==
  ASSUME NEW V, NEW items, Typed(items, V), NEW name \in 0..LastName
  PROVE  /\ SourceIndex(items, name) \in Nat
         /\ SourceIndex(items, name) + Len(ItemsOf(items, name)) <= Len(Rows(items))
         /\ InPlace(items, name) => SourceIndex(items, name) = Len(RowsBefore(items)[name])
  <1> DEFINE R == Rows(items)  F == RowsBefore(items)[name]  own == ItemsOf(items, name)
  <1>1. R \in Seq(V) /\ F \in Seq(V) /\ own \in Seq(V)
    BY RowsTyped, ItemsOfTyped
  <1>2. Replaced(R, R, Len(F), own, own)
    BY RowsReplaced
  <1>3. Len(R) >= Len(F) + Len(own)
    BY <1>2 DEF Replaced
  <1> HIDE DEF R, F, own
  <1>4. Len(R) \in Nat /\ Len(F) \in Nat /\ Len(own) \in Nat
    BY <1>1
  <1>5. CASE name \in DOMAIN items
    <2>1. SourceIndex(items, name) = Len(F)
      BY <1>5 DEF SourceIndex, F
    <2> QED
      BY <1>3, <1>4, <2>1 DEF R, F, own
  <1>6. CASE name \notin DOMAIN items
    <2>1. SourceIndex(items, name) = Len(R) /\ own = <<>>
      BY <1>6 DEF SourceIndex, R, own, ItemsOf
    <2>2. Len(own) = 0
      BY <2>1
    <2>3. InPlace(items, name) => R = F
      BY <1>6, NoRowsBehind DEF InPlace, R, F
    <2> QED
      BY <1>4, <2>1, <2>2, <2>3 DEF R, F, own
  <1> QED
    BY <1>5, <1>6

\* Who shows F of the rows shows F of the rows with the new list.
LEMMA RelistedShows ==
  ASSUME NEW V, NEW items, Typed(items, V), NEW name \in 0..LastName, NEW list \in Seq(V),
         InPlace(items, name), NEW F
  PROVE  LET R == Rows(items)
             R2 == Rows(Put(items, name, list))
         IN  Relisted(DOMAIN items = {}, Shown(F, R), Shown(F, R2), SourceIndex(items, name),
                      Len(ItemsOf(items, name)), Len(list)) = Shown(F, R2)
  <1> DEFINE R == Rows(items)  R2 == Rows(Put(items, name, list))
             a == SourceIndex(items, name)  own == ItemsOf(items, name)
             n == Shown(F, R2)
  <1>1. /\ Typed(Put(items, name, list), V)
        /\ ItemsOf(Put(items, name, list), name) = list
        /\ \A o : o # name => ItemsOf(Put(items, name, list), o) = ItemsOf(items, o)
    BY PutItems
  <1>2. R \in Seq(V) /\ R2 \in Seq(V) /\ own \in Seq(V)
    BY <1>1, RowsTyped, ItemsOfTyped
  <1>3. a \in Nat /\ a = Len(RowsBefore(items)[name])
    BY SourceIndexFits
  <1>4. Replaced(R, R2, a, own, list)
    <2>1. Replaced(R, R2, Len(RowsBefore(items)[name]), own, ItemsOf(Put(items, name, list), name))
      BY <1>1, RowsReplaced
    <2> QED
      BY <1>1, <1>3, <2>1
  <1> HIDE DEF R, R2, a, own
  <1>5. Retold(Shown(F, R), n, a, Len(own), Len(list)) = n
    BY <1>2, <1>3, <1>4, RetoldShows
  <1>6. \A last : Renewed(n, n, a, last) = n
    <2>1. n = [i \in DOMAIN n |-> n[i]]
      BY DEF Shown
    <2> HIDE DEF n
    <2> QED
      BY <2>1 DEF Renewed
  <1>7. Relisted(DOMAIN items = {}, Shown(F, R), n, a, Len(own), Len(list)) = n
    BY <1>5, <1>6 DEF Relisted
  <1> QED
    BY <1>7 DEF R, R2, a, own

\* Who has rows has rows, and as many as there are.
LEMMA RelistedTyped ==
  ASSUME NEW V, NEW items, Typed(items, V), NEW name \in 0..LastName, NEW list \in Seq(V),
         NEW W, V \subseteq W, NEW s \in Seq(W), Len(s) = Len(Rows(items))
  PROVE  LET R2 == Rows(Put(items, name, list))
             r == Relisted(DOMAIN items = {}, s, R2, SourceIndex(items, name),
                           Len(ItemsOf(items, name)), Len(list))
         IN  r \in Seq(W) /\ Len(r) = Len(R2)
  <1> DEFINE R == Rows(items)  R2 == Rows(Put(items, name, list))
             a == SourceIndex(items, name)  own == ItemsOf(items, name)
             r == Relisted(DOMAIN items = {}, s, R2, a, Len(own), Len(list))
  <1>1. /\ Typed(Put(items, name, list), V)
        /\ ItemsOf(Put(items, name, list), name) = list
        /\ \A o : o # name => ItemsOf(Put(items, name, list), o) = ItemsOf(items, o)
    BY PutItems
  <1>2. R \in Seq(V) /\ R2 \in Seq(V) /\ own \in Seq(V)
    BY <1>1, RowsTyped, ItemsOfTyped
  <1>3. a \in Nat /\ a + Len(own) <= Len(R)
    BY SourceIndexFits
  <1>4. Len(R2) = Len(R) + Len(list) - Len(own)
    <2>1. Replaced(R, R2, Len(RowsBefore(items)[name]), own, ItemsOf(Put(items, name, list), name))
      BY <1>1, RowsReplaced
    <2> HIDE DEF R, R2, own
    <2>2. Replaced(R, R2, Len(RowsBefore(items)[name]), own, list)
      BY <1>1, <2>1
    <2> QED
      BY <2>2 DEF Replaced
  <1> HIDE DEF R, R2, a, own
  <1>5. R2 \in Seq(W) /\ Len(own) \in Nat /\ Len(list) \in Nat /\ Len(s) = Len(R)
    BY <1>2, SeqMonotonic DEF R
  <1>6. CASE DOMAIN items = {}
    <2>1. \A last : Renewed(R2, R2, a, last) = R2
      <3>1. R2 = [i \in DOMAIN R2 |-> R2[i]]
        BY <1>2
      <3> QED
        BY <3>1 DEF Renewed
    <2>2. r = R2
      BY <1>6, <2>1 DEF Relisted
    <2> QED
      BY <1>5, <2>2 DEF R2, a, own
  <1>7. CASE DOMAIN items # {}
    <2>1. r = Retold(s, R2, a, Len(own), Len(list))
      BY <1>7 DEF Relisted
    <2>2. a + Len(own) <= Len(s) /\ Len(R2) = Len(s) + Len(list) - Len(own)
      BY <1>3, <1>4, <1>5
    <2>3. Retold(s, R2, a, Len(own), Len(list)) \in Seq(W)
          /\ Len(Retold(s, R2, a, Len(own), Len(list))) = Len(R2)
      <3> DEFINE o == Len(own)  l == Len(list)
      <3>1. /\ s \in Seq(W) /\ R2 \in Seq(W) /\ a \in Nat /\ o \in Nat /\ l \in Nat
            /\ a + o <= Len(s) /\ Len(R2) = Len(s) + l - o
        BY <1>3, <1>5, <2>2
      <3> HIDE DEF o, l
      <3>2. Retold(s, R2, a, o, l) \in Seq(W) /\ Len(Retold(s, R2, a, o, l)) = Len(R2)
        BY <3>1, RetoldTyped
      <3> QED
        BY <3>2 DEF o, l
    <2>4. r \in Seq(W) /\ Len(r) = Len(R2)
      BY <2>1, <2>3
    <2> QED
      BY <2>4 DEF R2, a, own
  <1> QED
    BY <1>6, <1>7

\* One row fewer
LEMMA CutOne ==
  ASSUME NEW V, NEW s \in Seq(V), NEW p \in 1..Len(s)
  PROVE  /\ Cut(s, p - 1, p) \in Seq(V) /\ Len(Cut(s, p - 1, p)) = Len(s) - 1
         /\ \A i \in 1..Len(s) - 1 : Cut(s, p - 1, p)[i] = IF i < p THEN s[i] ELSE s[i + 1]
         /\ Replaced(s, Cut(s, p - 1, p), p - 1, <<s[p]>>, <<>>)
  <1> DEFINE r == Cut(s, p - 1, p)  c == Len(s)
  <1>1. c \in Nat /\ p \in 1..c /\ p - (p - 1) = 1 /\ DOMAIN s = 1..c
    OBVIOUS
  <1>2. r = [i \in 1..c - 1 |-> IF i <= p - 1 THEN s[i] ELSE s[i + 1]]
    BY <1>1 DEF Cut
  <1>3. \A i \in 1..c - 1 : i \in 1..c /\ i + 1 \in 1..c /\ (i <= p - 1 <=> i < p)
    BY <1>1
  <1> HIDE DEF c, r
  <1>4. r \in [1..c - 1 -> V]
    <2>1. \A i \in 1..c : s[i] \in V
      BY <1>1
    <2> QED
      BY <1>2, <1>3, <2>1
  <1>5. c - 1 \in Nat
    BY <1>1
  <1>6. r \in Seq(V) /\ Len(r) = c - 1
    BY <1>4, <1>5
  <1>7. \A i \in 1..c - 1 : r[i] = IF i < p THEN s[i] ELSE s[i + 1]
    BY <1>2, <1>3
  <1>8. Len(<<s[p]>>) = 1 /\ Len(<<>>) = 0 /\ <<s[p]>>[1] = s[p]
    OBVIOUS
  <1> DEFINE one == <<s[p]>>  none == <<>>
  <1> HIDE DEF one, none
  <1>9. Len(one) = 1 /\ Len(none) = 0 /\ one[1] = s[p]
    BY <1>8 DEF one, none
  <1>10. Replaced(s, r, p - 1, one, none)
    <2>1. Len(s) >= (p - 1) + Len(one) /\ Len(r) = Len(s) + Len(none) - Len(one)
      BY <1>1, <1>6, <1>9 DEF c
    <2>2. ASSUME NEW i \in 1..Len(s), i <= p - 1 PROVE r[i] = s[i]
      <3>1. i \in 1..c - 1 /\ i < p
        BY <1>1, <2>2 DEF c
      <3> QED
        BY <1>7, <3>1
    <2>3. ASSUME NEW i \in 1..Len(s), p - 1 < i, i <= (p - 1) + Len(one) PROVE s[i] = one[i - (p - 1)]
      <3>1. i = p /\ i - (p - 1) = 1
        BY <1>1, <1>9, <2>3 DEF c
      <3> QED
        BY <1>9, <3>1
    <2>4. \A i \in 1..Len(r) : ~(p - 1 < i /\ i <= (p - 1) + Len(none))
      BY <1>1, <1>6, <1>9
    <2>5. ASSUME NEW i \in 1..Len(r), i > (p - 1) + Len(none) PROVE r[i] = s[i + Len(one) - Len(none)]
      <3>1. i \in 1..c - 1 /\ ~(i < p) /\ i + Len(one) - Len(none) = i + 1
        BY <1>1, <1>6, <1>9, <2>5
      <3> QED
        BY <1>7, <3>1
    <2> QED
      BY <2>1, <2>2, <2>3, <2>4, <2>5 DEF Replaced
  <1> QED
    BY <1>6, <1>7, <1>10 DEF r, c, one, none

\* The items under the empty name are all the rows when there are no others.
LEMMA RowsOfAllItems ==
  ASSUME NEW V, NEW items, Typed(items, V), DOMAIN items \subseteq {AllItems}, Names # {}
  PROVE  Rows(items) = ItemsOf(items, AllItems)
  <1>1. LastName \in Nat /\ LastName >= 1
    BY LastNameIsNat DEF Names
  <1>2. /\ RowsBefore(items)[0] = <<>>
        /\ \A n \in 0..LastName : RowsBefore(items)[n + 1] = RowsBefore(items)[n] \o ItemsOf(items, n)
    BY RowsBeforeFit
  <1>3. 1 \in 0..LastName /\ 0 \in 0..LastName /\ 0 + 1 = 1
    BY <1>1
  <1>4. Rows(items) = RowsBefore(items)[1]
    <2>1. \A n \in DOMAIN items : n < 1
      BY DEF AllItems
    <2> QED
      BY <1>3, <2>1, NoRowsBehind
  <1>5. RowsBefore(items)[0 + 1] = RowsBefore(items)[0] \o ItemsOf(items, 0)
    BY <1>2, <1>3
  <1>6. RowsBefore(items)[1] = <<>> \o ItemsOf(items, 0)
    BY <1>2, <1>3, <1>5
  <1>7. ItemsOf(items, 0) \in Seq(V)
    BY ItemsOfTyped
  <1> QED
    BY <1>4, <1>6, <1>7, ConcatEmptySeq DEF AllItems

\* removeSource finds no item of the source, or removes the first.
LEMMA RemoveItemIs ==
  ASSUME NEW V, NEW m, Typed(m.items, V), NEW n
  PROVE  LET list == ItemsOf(m.items, AllItems)
         IN  \/ /\ RemoveItem(m, n) = m
                /\ \A i \in 1..Len(list) : list[i].source # n
             \/ \E p \in 1..Len(list) :
                  /\ list[p].source = n
                  /\ AllItems \in DOMAIN m.items
                  /\ RemoveItem(m, n) =
                       RowsRemoved([m EXCEPT !.items = Put(m.items, AllItems, Cut(list, p - 1, p))], p - 1, p)
  <1> DEFINE list == ItemsOf(m.items, AllItems)
             own == {i \in DOMAIN list : list[i].source = n}
             put(p) == RowsRemoved([m EXCEPT !.items = Put(m.items, AllItems, Cut(list, p - 1, p))], p - 1, p)
             removed(p) == RowsRemoved([m EXCEPT !.items[AllItems] = Cut(list, p - 1, p)], p - 1, p)
  <1>1. list \in Seq(V)
    BY ItemsOfTyped
  <1>2. RemoveItem(m, n) = IF own = {} THEN m ELSE removed(Min(own))
    BY DEF RemoveItem
  <1>3. DOMAIN list = 1..Len(list)
    BY <1>1
  <1>4. CASE own = {}
    <2>1. \A i \in 1..Len(list) : list[i].source # n
      BY <1>3, <1>4
    <2> QED
      BY <1>2, <1>4, <2>1
  <1>5. CASE own # {}
    <2>1. \E x \in own : \A y \in own : x <= y
      <3>1. own \in SUBSET Nat
        BY <1>3
      <3> HIDE DEF own
      <3> QED
        BY <1>5, <3>1, LeastNatural
    <2>2. Min(own) \in own
      <3> HIDE DEF own
      <3> QED
        BY <2>1 DEF Min
    <2> DEFINE p == Min(own)
    <2>3. p \in 1..Len(list) /\ list[p].source = n
      BY <1>3, <2>2
    <2>4. AllItems \in DOMAIN m.items
      <3>1. AllItems \notin DOMAIN m.items => list = <<>>
        BY DEF ItemsOf
      <3>2. list # <<>>
        BY <2>2
      <3> QED
        BY <3>1, <3>2
    <2> HIDE DEF p, list
    <2>5. [m EXCEPT !.items[AllItems] = Cut(list, p - 1, p)] =
          [m EXCEPT !.items = Put(m.items, AllItems, Cut(list, p - 1, p))]
      <3> DEFINE c == Cut(list, p - 1, p)
      <3> HIDE DEF c
      <3>1. DOMAIN m.items \union {AllItems} = DOMAIN m.items
        BY <2>4
      <3>2. [m.items EXCEPT ![AllItems] = c] = Put(m.items, AllItems, c)
        BY <3>1 DEF Put
      <3> QED
        BY <3>2 DEF c
    <2>6. RemoveItem(m, n) = put(p)
      BY <1>2, <1>5, <2>5 DEF p
    <2> QED
      BY <2>3, <2>4, <2>6 DEF list
  <1> QED
    BY <1>4, <1>5

\* f is m without the rows "own", which were behind the first a.
Removed(m, f, a, own) ==
    /\ Same(f, m, {"items", "view"} \union ByProxy)
    /\ Replaced(Rows(m.items), Rows(f.items), a, own, <<>>)
    /\ f.view = Resized(m.view, <<>>, a, Len(own), 0)
    /\ Synced(m) => /\ Same(f, m, {"items", "view", "accepted"})
                    /\ f.accepted = Resized(m.accepted, <<>>, a, Len(own), 0)

LEMMA NothingRemoved ==
  ASSUME NEW m, DOMAIN m = ModelFields, NEW f, Same(f, m, {"items"}), NEW a,
         Replaced(Rows(m.items), Rows(f.items), a, <<>>, <<>>)
  PROVE  Removed(m, f, a, <<>>)
  <1> DEFINE none == <<>>
  <1>1. Len(none) = 0
    OBVIOUS
  <1> HIDE DEF none
  <1>2. Replaced(Rows(m.items), Rows(f.items), a, none, none)
    BY DEF none
  <1>3. \A s : Resized(s, none, a, Len(none), 0) = s
    BY <1>1 DEF Resized
  <1>4. /\ Same(f, m, {"items", "view"} \union ByProxy)
        /\ Same(f, m, {"items", "view", "accepted"})
        /\ f.view = m.view /\ f.accepted = m.accepted
    BY DEF Same, ModelFields, ByProxy
  <1> QED
    BY <1>2, <1>3, <1>4 DEF Removed, none

LEMMA SomeRemoved ==
  ASSUME NEW m, DOMAIN m = ModelFields, NEW rest, Same(rest, m, {"items"}),
         NEW a \in Nat, NEW own, Len(own) \in Nat, Len(own) > 0, NEW last, last = a + Len(own),
         Replaced(Rows(m.items), Rows(rest.items), a, own, <<>>)
  PROVE  /\ Removed(m, RowsRemoved(rest, a, last), a, own)
         /\ RowsRemoved(rest, a, last).items = rest.items
  <1> DEFINE f == RowsRemoved(rest, a, last)
  <1>1. DOMAIN rest = ModelFields
    BY DEF Same
  <1>2. /\ Same(f, rest, {"view"} \union ByProxy)
        /\ f.view = Cut(rest.view, a, last)
        /\ Synced(rest) => /\ Same(f, rest, {"view", "accepted"})
                           /\ f.accepted = Cut(rest.accepted, a, last)
    BY <1>1, RowsRemovedEffect
  <1> HIDE DEF f
  <1>3. f.items = rest.items /\ rest.view = m.view /\ rest.accepted = m.accepted
    BY <1>2 DEF Same, ModelFields, ByProxy
  <1>4. \A s : Resized(s, <<>>, a, Len(own), 0) = Cut(s, a, last)
    <2> DEFINE o == Len(own)
    <2>1. o \in Nat /\ o > 0 /\ last = a + o
      OBVIOUS
    <2> HIDE DEF o
    <2>2. \A s : Resized(s, <<>>, a, o, 0) = Cut(s, a, last)
      BY <2>1 DEF Resized
    <2> QED
      BY <2>2 DEF o
  <1>5. Same(f, m, {"items", "view"} \union ByProxy)
    BY <1>2 DEF Same, ByProxy
  <1>6. f.view = Resized(m.view, <<>>, a, Len(own), 0)
    BY <1>2, <1>3, <1>4
  <1>7. ASSUME Synced(m) PROVE Same(f, m, {"items", "view", "accepted"})
                               /\ f.accepted = Resized(m.accepted, <<>>, a, Len(own), 0)
    <2>1. Same(rest, m, {"items", "view", "viewRoles", "accepted"})
      BY DEF Same
    <2>2. Synced(rest)
      BY <1>7, <2>1, SyncedSame
    <2>3. Same(f, rest, {"view", "accepted"}) /\ f.accepted = Cut(rest.accepted, a, last)
      BY <1>2, <2>2
    <2>4. Same(f, m, {"items", "view", "accepted"})
      BY <2>3 DEF Same
    <2> QED
      BY <1>3, <1>4, <2>3, <2>4
  <1>8. Replaced(Rows(m.items), Rows(f.items), a, own, <<>>)
    BY <1>3
  <1> QED
    BY <1>3, <1>5, <1>6, <1>7, <1>8 DEF Removed, f

\* Sources are items, and not lists of items.
AsItems == keyRoleFilter = ""

\* A row of the source is gone, if there was one.
ItemLost(items, items2, n) ==
    LET list == ItemsOf(items, AllItems)
    IN  \/ /\ ItemsOf(items2, AllItems) = list
           /\ \A i \in 1..Len(list) : list[i].source # n
        \/ \E p \in 1..Len(list) :
             list[p].source = n /\ ItemsOf(items2, AllItems) = Cut(list, p - 1, p)

\* Only the list of the source is gone.
ListLost(items, items2, n) ==
    \A o : ItemsOf(items2, o) = IF o = n THEN <<>> ELSE ItemsOf(items, o)

\* removeSource removes the rows of one item, of one list, or of none.
LEMMA RemoveSourceEffect ==
  ASSUME NEW V, NEW m, DOMAIN m = ModelFields, Typed(m.items, V), NEW n \in Names,
         AsItems => DOMAIN m.items \subseteq {AllItems}
  PROVE  LET f == RemoveSource(m, n)
         IN  /\ \E a \in Nat, own \in Seq(V) : Removed(m, f, a, own)
             /\ Typed(f.items, V) /\ DOMAIN f.items \subseteq DOMAIN m.items
             /\ ~AsItems => ListLost(m.items, f.items, n)
             /\ AsItems => DOMAIN f.items = DOMAIN m.items /\ ItemLost(m.items, f.items, n)
  <1> DEFINE f == RemoveSource(m, n)  list == ItemsOf(m.items, AllItems)  R == Rows(m.items)
  <1>1. R \in Seq(V) /\ list \in Seq(V) /\ \A o : ItemsOf(m.items, o) \in Seq(V)
    BY RowsTyped, ItemsOfTyped
  <1>2. n \in 0..LastName
    BY LastNameIsNat DEF Names
  <1>3. <<>> \in Seq(V) /\ 0 \in Nat
    OBVIOUS
  <1>4. ASSUME f = m PROVE \E a \in Nat, own \in Seq(V) : Removed(m, f, a, own)
    <2>1. Same(m, m, {"items"})
      BY DEF Same
    <2> DEFINE none == <<>>
    <2>2. Len(none) = 0 /\ Len(R) \in Nat
      BY <1>1
    <2> HIDE DEF R, none
    <2>3. Replaced(R, R, 0, none, none)
      BY <2>2 DEF Replaced
    <2>4. Removed(m, m, 0, <<>>)
      BY <2>1, <2>3, NothingRemoved DEF R, none
    <2> QED
      BY <1>3, <1>4, <2>4
  <1> DEFINE some == \E a \in Nat, own \in Seq(V) : Removed(m, f, a, own)
  <1>5. CASE AsItems
    <2>1. f = RemoveItem(m, n)
      BY <1>5 DEF RemoveSource, AsItems
    <2> DEFINE put(p) == [m EXCEPT !.items = Put(m.items, AllItems, Cut(list, p - 1, p))]
    <2>2. \/ /\ RemoveItem(m, n) = m
             /\ \A i \in 1..Len(list) : list[i].source # n
          \/ \E p \in 1..Len(list) : /\ list[p].source = n
                                     /\ AllItems \in DOMAIN m.items
                                     /\ RemoveItem(m, n) = RowsRemoved(put(p), p - 1, p)
      BY RemoveItemIs
    <2>3. CASE RemoveItem(m, n) = m /\ \A i \in 1..Len(list) : list[i].source # n
      <3>1. f = m
        BY <2>1, <2>3
      <3>2. ItemLost(m.items, m.items, n)
        BY <2>3 DEF ItemLost
      <3>3. some
        BY <1>4, <3>1
      <3> HIDE DEF some, f
      <3> QED
        BY <1>5, <3>1, <3>2, <3>3 DEF f, some
    <2>4. ASSUME NEW p \in 1..Len(list), list[p].source = n, AllItems \in DOMAIN m.items,
                 RemoveItem(m, n) = RowsRemoved(put(p), p - 1, p)
          PROVE  some /\ Typed(f.items, V) /\ DOMAIN f.items = DOMAIN m.items /\ ItemLost(m.items, f.items, n)
      <3> DEFINE rest == put(p)  cut == Cut(list, p - 1, p)  own == <<list[p]>>
      <3>1. cut \in Seq(V) /\ Replaced(list, cut, p - 1, own, <<>>)
        BY <1>1, CutOne
      <3>2. Same(rest, m, {"items"}) /\ rest.items = Put(m.items, AllItems, cut)
        BY DEF Same, ModelFields
      <3>3. f = RowsRemoved(rest, p - 1, p)
        BY <2>1, <2>4
      <3>4. own \in Seq(V) /\ Len(own) = 1 /\ p - 1 \in Nat /\ p = (p - 1) + 1 /\ p \in Nat
        <4>1. list[p] \in V
          BY <1>1
        <4> HIDE DEF list
        <4> QED
          BY <4>1
      <3> HIDE DEF rest, cut, own, f
      <3>5. 0 \in 0..LastName
        BY LastNameIsNat
      <3>6. /\ Typed(rest.items, V)
            /\ ItemsOf(rest.items, AllItems) = cut
        BY <3>1, <3>2, <3>5, PutItems DEF AllItems
      <3>7. DOMAIN rest.items = DOMAIN m.items
        BY <2>4, <3>2 DEF Put
      <3>8. Names # {} /\ DOMAIN m.items \subseteq {AllItems}
        BY <1>5
      <3>9. Rows(m.items) = list
        BY <3>8, RowsOfAllItems
      <3>10. Rows(rest.items) = cut
        <4>1. Rows(rest.items) = ItemsOf(rest.items, AllItems)
          BY <3>6, <3>7, <3>8, RowsOfAllItems
        <4> QED
          BY <3>6, <4>1
      <3>11. Replaced(Rows(m.items), Rows(rest.items), p - 1, own, <<>>)
        BY <3>1, <3>9, <3>10
      <3>12. Removed(m, f, p - 1, own) /\ f.items = rest.items
        <4> DEFINE a == p - 1
        <4>1. a \in Nat /\ Len(own) \in Nat /\ Len(own) > 0 /\ p = a + Len(own)
              /\ Replaced(Rows(m.items), Rows(rest.items), a, own, <<>>)
              /\ f = RowsRemoved(rest, a, p)
          BY <3>3, <3>4, <3>11
        <4> HIDE DEF a
        <4>2. Removed(m, f, a, own) /\ f.items = rest.items
          BY <3>2, <4>1, SomeRemoved
        <4> QED
          BY <4>2 DEF a
      <3>13. ItemsOf(f.items, AllItems) = cut /\ Typed(f.items, V) /\ DOMAIN f.items = DOMAIN m.items
        BY <3>6, <3>7, <3>12
      <3>14. some
        BY <3>4, <3>12
      <3>15. ItemLost(m.items, f.items, n)
        BY <2>4, <3>13 DEF ItemLost, cut
      <3> QED
        BY <3>13, <3>14, <3>15
    <2> HIDE DEF put
    <2>5. ASSUME NEW p \in 1..Len(list), list[p].source = n, AllItems \in DOMAIN m.items,
                 RemoveItem(m, n) = RowsRemoved(put(p), p - 1, p)
          PROVE  /\ some /\ Typed(f.items, V) /\ DOMAIN f.items \subseteq DOMAIN m.items
                 /\ DOMAIN f.items = DOMAIN m.items /\ ItemLost(m.items, f.items, n)
      <3> HIDE DEF some, f, list
      <3>1. some /\ Typed(f.items, V) /\ DOMAIN f.items = DOMAIN m.items /\ ItemLost(m.items, f.items, n)
        BY <2>4, <2>5
      <3> QED
        BY <3>1
    <2> HIDE DEF some, f, list
    <2> QED
      BY <1>5, <2>2, <2>3, <2>5 DEF f, some, list
  <1>6. CASE ~AsItems /\ n \notin DOMAIN m.items
    <2>1. f = m
      BY <1>6 DEF RemoveSource, AsItems
    <2>2. ListLost(m.items, m.items, n)
      BY <1>6 DEF ItemsOf, ListLost
    <2>3. some
      BY <1>4, <2>1
    <2> HIDE DEF some, f
    <2> QED
      BY <1>6, <2>1, <2>2, <2>3 DEF f, some
  <1>7. CASE ~AsItems /\ n \in DOMAIN m.items
    <2> DEFINE first == SourceIndex(m.items, n)
               own == m.items[n]
               rest == [m EXCEPT !.items = [o \in DOMAIN m.items \ {n} |-> m.items[o]]]
    <2>1. f = IF own = <<>> THEN rest ELSE RowsRemoved(rest, first, first + Len(own))
      BY <1>7 DEF RemoveSource, AsItems
    <2>2. Same(rest, m, {"items"}) /\ rest.items = [o \in DOMAIN m.items \ {n} |-> m.items[o]]
      BY DEF Same, ModelFields
    <2> HIDE DEF rest, f
    <2>3. /\ DOMAIN rest.items = DOMAIN m.items \ {n}
          /\ \A o \in DOMAIN rest.items : rest.items[o] = m.items[o]
      BY <2>2
    <2>4. Typed(rest.items, V) /\ DOMAIN rest.items \subseteq DOMAIN m.items
      BY <2>3 DEF Typed
    <2>5. ItemsOf(rest.items, n) = <<>> /\ \A o : o # n => ItemsOf(rest.items, o) = ItemsOf(m.items, o)
      BY <2>3 DEF ItemsOf
    <2>6. ItemsOf(m.items, n) = own /\ own \in Seq(V)
      BY <1>7 DEF ItemsOf, Typed
    <2>7. first \in Nat /\ first = Len(RowsBefore(m.items)[n])
      BY <1>2, <1>7, SourceIndexFits DEF InPlace
    <2>8. Replaced(Rows(m.items), Rows(rest.items), first, own, <<>>)
      <3>1. Replaced(Rows(m.items), Rows(rest.items), Len(RowsBefore(m.items)[n]),
                     ItemsOf(m.items, n), ItemsOf(rest.items, n))
        BY <1>2, <2>4, <2>5, RowsReplaced
      <3> QED
        BY <2>5, <2>6, <2>7, <3>1
    <2>20. ListLost(m.items, rest.items, n)
      BY <2>5 DEF ListLost
    <2> HIDE DEF first, own, some
    <2>9. CASE own = <<>>
      <3>1. f = rest
        BY <2>1, <2>9
      <3>5. Removed(m, f, first, <<>>)
        BY <2>2, <2>8, <2>9, <3>1, NothingRemoved
      <3>6. some
        BY <1>3, <2>7, <3>5 DEF some
      <3> QED
        BY <1>7, <2>4, <2>20, <3>1, <3>6 DEF f, some
    <2>10. CASE own # <<>>
      <3>1. f = RowsRemoved(rest, first, first + Len(own))
        BY <2>1, <2>10
      <3>2. Len(own) \in Nat /\ Len(own) > 0
        BY <2>6, <2>10, EmptySeq
      <3> DEFINE last == first + Len(own)
      <3>3. last = first + Len(own) /\ f = RowsRemoved(rest, first, last)
        BY <3>1
      <3> HIDE DEF last
      <3>4. Removed(m, f, first, own) /\ f.items = rest.items
        BY <2>2, <2>7, <2>8, <3>2, <3>3, SomeRemoved
      <3>5. some
        BY <2>6, <2>7, <3>4 DEF some
      <3> QED
        BY <1>7, <2>4, <2>20, <3>4, <3>5 DEF f, some
    <2> QED
      BY <2>9, <2>10
  <1> QED
    BY <1>5, <1>6, <1>7

\* Who shows F of the rows shows F of the rows that are left.
LEMMA RemovedShows ==
  ASSUME NEW V, NEW R \in Seq(V), NEW R2 \in Seq(V), NEW own \in Seq(V), NEW a \in Nat,
         Replaced(R, R2, a, own, <<>>), NEW F
  PROVE  Resized(Shown(F, R), <<>>, a, Len(own), 0) = Shown(F, R2)
  <1> DEFINE none == <<>>  n == Shown(F, R2)  o == Len(own)
             r == Resized(Shown(F, R), n, a, o, 0)
  <1>1. none \in Seq(V) /\ Len(none) = 0 /\ o \in Nat /\ Len(R2) \in Nat
    OBVIOUS
  <1>2. \A s, x, y : Resized(s, x, a, o, 0) = Resized(s, y, a, o, 0)
    <2>1. ~(0 > o)
      BY <1>1
    <2> QED
      BY <2>1 DEF Resized
  <1>3. Least(o, 0) = 0
    BY <1>1 DEF Least
  <1> HIDE DEF none
  <1>4. Replaced(R, R2, a, own, none)
    BY DEF none
  <1> DEFINE s == Resized(Shown(F, R), Shown(F, R2), a, Len(own), Len(none))
  <1>5. /\ DOMAIN s = 1..Len(R2)
        /\ \A i \in 1..Len(R2) :
             (a < i /\ i <= a + Least(Len(own), Len(none))) \/ s[i] = Shown(F, R2)[i]
    <2>1. none \in Seq(V)
      BY <1>1
    <2> HIDE DEF n, o, r
    <2> QED
      BY <2>1, <1>4, ResizedShows
  <1> HIDE DEF n, o
  <1>6. /\ DOMAIN r = 1..Len(R2)
        /\ \A i \in 1..Len(R2) : (a < i /\ i <= a + 0) \/ r[i] = n[i]
    BY <1>1, <1>3, <1>5 DEF n, o
  <1> HIDE DEF r
  <1>7. \A i \in 1..Len(R2) : r[i] = n[i]
    BY <1>1, <1>6
  <1>8. n = [i \in 1..Len(R2) |-> n[i]]
    BY DEF n, Shown
  <1>9. r = [i \in DOMAIN r |-> r[i]]
    <2>1. CASE o > 0
      <3>1. r = Cut(Shown(F, R), a + 0, a + o)
        BY <1>1, <2>1 DEF r, Resized
      <3> QED
        BY <3>1 DEF Cut
    <2>2. CASE ~(o > 0)
      <3>1. r = Shown(F, R)
        BY <1>1, <2>2 DEF r, Resized
      <3> QED
        BY <3>1 DEF Shown
    <2> QED
      BY <2>1, <2>2
  <1>10. r = n
    BY <1>6, <1>7, <1>8, <1>9
  <1> QED
    BY <1>2, <1>10 DEF r, n, o

\* Who has rows has rows, and as many as are left.
LEMMA RemovedTyped ==
  ASSUME NEW V, NEW R \in Seq(V), NEW R2 \in Seq(V), NEW own \in Seq(V), NEW a \in Nat,
         Replaced(R, R2, a, own, <<>>), NEW W, NEW s \in Seq(W), Len(s) = Len(R)
  PROVE  /\ Resized(s, <<>>, a, Len(own), 0) \in Seq(W)
         /\ Len(Resized(s, <<>>, a, Len(own), 0)) = Len(R2)
  <1> DEFINE o == Len(own)  none == <<>>  r == Resized(s, none, a, o, 0)
  <1>1. o \in Nat /\ Len(s) \in Nat /\ Len(R2) \in Nat /\ Len(none) = 0 /\ DOMAIN s = 1..Len(s)
    OBVIOUS
  <1>2. Len(s) >= a + o /\ Len(R2) = Len(s) - o
    BY <1>1 DEF Replaced
  <1> HIDE DEF o, none
  <1>3. CASE o > 0
    <2>1. r = Cut(s, a + 0, a + o)
      BY <1>1, <1>3 DEF Resized
    <2>2. (a + o) - (a + 0) = o
      BY <1>1
    <2>3. r = [i \in 1..Len(R2) |-> IF i <= a + 0 THEN s[i] ELSE s[i + o]]
      BY <1>2, <2>1, <2>2 DEF Cut
    <2>4. \A i \in 1..Len(R2) : i \in 1..Len(s) /\ i + o \in 1..Len(s)
      BY <1>1, <1>2
    <2>5. r \in [1..Len(R2) -> W]
      BY <2>3, <2>4
    <2> HIDE DEF r
    <2>6. r \in Seq(W) /\ Len(r) = Len(R2)
      BY <1>1, <2>5
    <2> QED
      BY <2>6 DEF r, o, none
  <1>4. CASE o = 0
    <2>1. r = s
      BY <1>4 DEF Resized
    <2> QED
      BY <1>1, <1>2, <1>4, <2>1 DEF r, o, none
  <1> QED
    BY <1>1, <1>3, <1>4

-----------------------------------------------------------------------------
(* What the model makes of new data *)

ToldName(n) == IF AsItems THEN AllItems ELSE n

ToldList(all, n) == IF AsItems THEN SourceRows(all) ELSE KeyRoleRows(n, all[n])

\* The data of n give a list.
Told(all, n) == n \in sourceFilter /\ (AsItems \/ all[n].list # NoList \/ keyRoleFilter = "valid")

LEMMA DataUpdatedIs ==
  ASSUME NEW m, NEW all, NEW n
  PROVE  DataUpdated(m, all, n) = IF Told(all, n) THEN SetItems(m, ToldName(n), ToldList(all, n)) ELSE m
  <1>1. CASE n \notin sourceFilter
    BY <1>1, Zenon DEF DataUpdated, Told
  <1>2. CASE n \in sourceFilter /\ AsItems
    BY <1>2, Zenon DEF DataUpdated, Told, ToldName, ToldList, AsItems
  <1>3. CASE n \in sourceFilter /\ ~AsItems
    BY <1>3, Zenon DEF DataUpdated, Told, ToldName, ToldList, AsItems
  <1> QED
    BY <1>1, <1>2, <1>3

LEMMA ToldTyped ==
  ASSUME NEW all, DataTyped(all), NEW n \in DOMAIN all
  PROVE  ToldName(n) \in 0..LastName /\ ToldList(all, n) \in Seq(SomeRows)
  <1>1. n \in Names /\ all[n] \in Datas
    BY DEF DataTyped
  <1>2. ToldName(n) \in 0..LastName
    BY <1>1, LastNameIsNat DEF ToldName, Names, AllItems
  <1>3. SourceRows(all) \in Seq(SomeRows)
    <2> DEFINE V == {all[o].item : o \in Sourced(all)}
               W == [source : Names, item : V]
    <2>1. \A o \in Sourced(all) : all[o].item \in Items
      BY DEF Sourced, DataTyped, Datas
    <2>2. W \subseteq SomeRows
      BY <2>1 DEF SomeRows
    <2>3. SourceRows(all) \in Seq(W)
      BY SourceRowsFit
    <2> HIDE DEF W
    <2> QED
      BY <2>2, <2>3, SeqMonotonic
  <1>4. KeyRoleRows(n, all[n]) \in Seq(SomeRows)
    <2> DEFINE d == all[n]
    <2>1. (d.list # NoList => d.list \in Seq(Items)) /\ (d.list = NoList => d.matching \in Seq(Items))
      BY <1>1 DEF Datas
    <2> HIDE DEF d
    <2>2. KeyRoleRows(n, d) \in Seq([source : Names, item : Items])
      BY <1>1, <2>1, KeyRoleRowsTyped DEF d
    <2> QED
      BY <2>2 DEF d, SomeRows
  <1> QED
    BY <1>2, <1>3, <1>4 DEF ToldList

\* The model reads the sources one by one.
LEMMA DataReadFit ==
  ASSUME NEW m, NEW all
  PROVE  /\ DataRead(m, all)[0] = m
         /\ \A n \in 1..LastName :
              DataRead(m, all)[n] = IF n \in DOMAIN all THEN DataUpdated(DataRead(m, all)[n - 1], all, n)
                                    ELSE DataRead(m, all)[n - 1]
  <1> DEFINE next(n, p) == IF n \in DOMAIN all THEN DataUpdated(p, all, n) ELSE p
             Reads(f, k) == f = [n \in 0..k |-> IF n = 0 THEN m ELSE next(n, f[n - 1])]
             S == {k \in Nat : \E f : Reads(f, k)}
             F == DataRead(m, all)
  <1>1. 0 \in S
    <2> DEFINE f == [n \in 0..0 |-> m]
    <2> HIDE DEF next
    <2>1. Reads(f, 0)
      OBVIOUS
    <2> HIDE DEF f, Reads
    <2> QED
      BY <2>1
  <1>2. ASSUME NEW k \in Nat, k \in S PROVE k + 1 \in S
    <2> HIDE DEF next
    <2>1. PICK f : Reads(f, k)
      BY <1>2
    <2> DEFINE g == [n \in 0..k + 1 |-> IF n = k + 1 THEN next(n, f[k]) ELSE f[n]]
    <2>2. \A n \in 0..k : f[n] = IF n = 0 THEN m ELSE next(n, f[n - 1])
      BY <2>1
    <2>3. ASSUME NEW n \in 0..k + 1 PROVE g[n] = IF n = 0 THEN m ELSE next(n, g[n - 1])
      <3>1. CASE n = k + 1
        <4>1. n # 0 /\ n - 1 = k /\ k \in 0..k + 1 /\ k # k + 1
          BY <3>1
        <4>2. g[k] = f[k] /\ g[n] = next(n, f[k])
          BY <3>1, <4>1
        <4> HIDE DEF g
        <4> QED
          BY <4>1, <4>2
      <3>2. CASE n # k + 1 /\ n # 0
        <4>1. n \in 0..k /\ n - 1 \in 0..k + 1 /\ n - 1 # k + 1
          BY <3>2
        <4>2. g[n] = f[n] /\ g[n - 1] = f[n - 1]
          BY <3>2, <4>1
        <4>3. f[n] = next(n, f[n - 1])
          BY <2>2, <3>2, <4>1
        <4> HIDE DEF g
        <4> QED
          BY <3>2, <4>2, <4>3
      <3>3. CASE n # k + 1 /\ n = 0
        <4>1. 0 \in 0..k /\ g[n] = f[0]
          BY <3>3
        <4>2. f[0] = m
          BY <2>2, <4>1
        <4> HIDE DEF g
        <4> QED
          BY <3>3, <4>1, <4>2
      <3> QED
        BY <3>1, <3>2, <3>3
    <2>4. g = [n \in 0..k + 1 |-> g[n]]
      OBVIOUS
    <2> HIDE DEF g
    <2>5. Reads(g, k + 1)
      BY <2>3, <2>4
    <2> HIDE DEF Reads
    <2> QED
      BY <2>5
  <1>3. \A k \in Nat : k \in S
    <2> HIDE DEF S
    <2> QED
      BY <1>1, <1>2, Induction
  <1>4. \E f : Reads(f, LastName)
    <2> HIDE DEF Reads
    <2> QED
      BY <1>3, LastNameIsNat
  <1>5. Reads(F, LastName)
    BY <1>4 DEF DataRead
  <1>6. \A n \in 0..LastName : F[n] = IF n = 0 THEN m ELSE next(n, F[n - 1])
    BY <1>5
  <1> HIDE DEF next, F
  <1>7. 0 \in 0..LastName /\ \A n \in 1..LastName : n \in 0..LastName /\ n # 0
    BY LastNameIsNat
  <1>8. F[0] = m /\ \A n \in 1..LastName : F[n] = next(n, F[n - 1])
    BY <1>6, <1>7
  <1> QED
    BY <1>8 DEF next, F

-----------------------------------------------------------------------------
(* What data and removals leave of a model *)

\* Sources are items, under the empty name, or have lists of items.
Sound(m) ==
    /\ DOMAIN m = ModelFields
    /\ Typed(m.items, SomeRows)
    /\ AsItems => DOMAIN m.items \subseteq {AllItems}
    /\ ~AsItems => DOMAIN m.items \subseteq Names

LEMMA SoundUpdated ==
  ASSUME NEW m, Sound(m), NEW all, DataTyped(all), NEW n \in DOMAIN all
  PROVE  /\ Sound(DataUpdated(m, all, n))
         /\ \A o \in DOMAIN DataUpdated(m, all, n).items : o \in DOMAIN m.items \/ o = ToldName(n)
  <1> DEFINE f == DataUpdated(m, all, n)
  <1>1. CASE ~Told(all, n)
    BY <1>1, DataUpdatedIs
  <1>2. CASE Told(all, n)
    <2> DEFINE name == ToldName(n)  list == ToldList(all, n)
    <2>1. f = SetItems(m, name, list)
      BY <1>2, DataUpdatedIs
    <2>2. name \in 0..LastName /\ list \in Seq(SomeRows)
      BY ToldTyped
    <2>3. (AsItems => name = AllItems) /\ (~AsItems => name \in Names)
      BY DEF ToldName, DataTyped
    <2> HIDE DEF f, name, list
    <2>4. DOMAIN m = ModelFields /\ Typed(m.items, SomeRows)
      BY DEF Sound
    <2>5. Len(list) \in Nat /\ Len(ItemsOf(m.items, name)) \in Nat
      BY <2>2, <2>4, ItemsOfTyped
    <2>6. Same(f, m, {"items", "roles", "view", "viewRoles"} \union ByProxy) /\ f.items = Put(m.items, name, list)
      <3>1. f.items = Put(m.items, name, list)
        BY <2>1, <2>4, <2>5, SetItemsEffect
      <3>2. Same(f, m, {"items", "roles", "view", "viewRoles"} \union ByProxy)
        BY <2>1, <2>4, <2>5, SetItemsEffect
      <3> QED
        BY <3>1, <3>2
    <2>7. Typed(f.items, SomeRows)
      BY <2>2, <2>4, <2>6, PutItems
    <2>8. DOMAIN f.items = DOMAIN m.items \union {name}
      BY <2>6 DEF Put
    <2>9. Sound(f)
      BY <2>3, <2>6, <2>7, <2>8 DEF Sound, Same
    <2>10. \A o \in DOMAIN f.items : o \in DOMAIN m.items \/ o = name
      BY <2>8
    <2> QED
      BY <2>9, <2>10 DEF f, name
  <1> QED
    BY <1>1, <1>2

LEMMA SoundRemoved ==
  ASSUME NEW m, Sound(m), NEW n \in Names
  PROVE  /\ Sound(RemoveSource(m, n))
         /\ \E a \in Nat, own \in Seq(SomeRows) : Removed(m, RemoveSource(m, n), a, own)
         /\ DOMAIN RemoveSource(m, n).items \subseteq DOMAIN m.items
         /\ ~AsItems => ListLost(m.items, RemoveSource(m, n).items, n)
         /\ AsItems => /\ DOMAIN RemoveSource(m, n).items = DOMAIN m.items
                       /\ ItemLost(m.items, RemoveSource(m, n).items, n)
  <1> DEFINE f == RemoveSource(m, n)  V == SomeRows
  <1>1. DOMAIN m = ModelFields /\ Typed(m.items, V) /\ (AsItems => DOMAIN m.items \subseteq {AllItems})
    BY DEF Sound
  <1> HIDE DEF V
  <1>2. /\ \E a \in Nat, own \in Seq(V) : Removed(m, f, a, own)
        /\ Typed(f.items, V) /\ DOMAIN f.items \subseteq DOMAIN m.items
        /\ ~AsItems => ListLost(m.items, f.items, n)
        /\ AsItems => DOMAIN f.items = DOMAIN m.items /\ ItemLost(m.items, f.items, n)
    BY <1>1, RemoveSourceEffect
  <1> HIDE DEF f
  <1>3. DOMAIN f = ModelFields
    BY <1>2 DEF Removed, Same
  <1>4. Sound(f)
    BY <1>2, <1>3 DEF Sound, V
  <1> QED
    BY <1>2, <1>4 DEF f, V

LEMMA ShownAsIs ==
  ASSUME NEW V, NEW R \in Seq(V)
  PROVE  Shown([r \in V |-> r], R) = R
  <1>1. \A i \in 1..Len(R) : R[i] \in V
    OBVIOUS
  <1>2. R = [i \in 1..Len(R) |-> R[i]]
    OBVIOUS
  <1>3. Shown([r \in V |-> r], R) = [i \in 1..Len(R) |-> R[i]]
    BY <1>1 DEF Shown
  <1> QED
    BY <1>2, <1>3

\* A view that has the rows has the rows with the new data.
LEMMA ViewUpdated ==
  ASSUME NEW m, Sound(m), NEW all, DataTyped(all), NEW n \in DOMAIN all,
         InPlace(m.items, ToldName(n)), m.view = Rows(m.items)
  PROVE  DataUpdated(m, all, n).view = Rows(DataUpdated(m, all, n).items)
  <1> DEFINE f == DataUpdated(m, all, n)
  <1>1. CASE ~Told(all, n)
    BY <1>1, DataUpdatedIs
  <1>2. CASE Told(all, n)
    <2> DEFINE name == ToldName(n)  list == ToldList(all, n)
               V == SomeRows  F == [r \in V |-> r]
               R == Rows(m.items)  R2 == Rows(Put(m.items, name, list))
    <2>1. f = SetItems(m, name, list)
      BY <1>2, DataUpdatedIs
    <2>2. name \in 0..LastName /\ list \in Seq(V)
      BY ToldTyped
    <2>3. DOMAIN m = ModelFields /\ Typed(m.items, V) /\ InPlace(m.items, name)
      BY DEF Sound
    <2> HIDE DEF f, name, list, V
    <2>4. Len(list) \in Nat /\ Len(ItemsOf(m.items, name)) \in Nat
      BY <2>2, <2>3, ItemsOfTyped
    <2>5. /\ f.items = Put(m.items, name, list)
          /\ f.view = Relisted(DOMAIN m.items = {}, m.view, Rows(f.items), SourceIndex(m.items, name),
                               Len(ItemsOf(m.items, name)), Len(list))
      BY <2>1, <2>3, <2>4, SetItemsEffect
    <2>6. Typed(Put(m.items, name, list), V)
      BY <2>2, <2>3, PutItems
    <2>7. R \in Seq(V) /\ R2 \in Seq(V)
      BY <2>3, <2>6, RowsTyped
    <2>8. Shown(F, R) = R /\ Shown(F, R2) = R2
      BY <2>7, ShownAsIs
    <2> HIDE DEF F
    <2>9. Relisted(DOMAIN m.items = {}, Shown(F, R), Shown(F, R2), SourceIndex(m.items, name),
                   Len(ItemsOf(m.items, name)), Len(list)) = Shown(F, R2)
      BY ZenonT(40), <2>2, <2>3, RelistedShows
    <2>10. f.view = Rows(f.items)
      BY <2>5, <2>8, <2>9
    <2> QED
      BY <2>10 DEF f
  <1> QED
    BY <1>1, <1>2

\* and the rows that are left.
LEMMA ViewRemoved ==
  ASSUME NEW m, Sound(m), NEW n \in Names, m.view = Rows(m.items)
  PROVE  RemoveSource(m, n).view = Rows(RemoveSource(m, n).items)
  <1> DEFINE f == RemoveSource(m, n)  V == SomeRows  F == [r \in V |-> r]
             R == Rows(m.items)  R2 == Rows(f.items)
  <1>1. Sound(f) /\ \E a \in Nat, own \in Seq(V) : Removed(m, f, a, own)
    BY SoundRemoved
  <1> HIDE DEF f
  <1>2. Typed(m.items, V) /\ Typed(f.items, V)
    BY <1>1 DEF Sound
  <1> HIDE DEF V
  <1>3. R \in Seq(V) /\ R2 \in Seq(V)
    BY <1>2, RowsTyped
  <1>4. Shown(F, R) = R /\ Shown(F, R2) = R2
    BY <1>3, ShownAsIs
  <1>5. PICK a \in Nat, own \in Seq(V) : Removed(m, f, a, own)
    BY <1>1
  <1>6. Replaced(R, R2, a, own, <<>>) /\ f.view = Resized(m.view, <<>>, a, Len(own), 0)
    BY <1>5 DEF Removed
  <1> HIDE DEF R, R2, F
  <1>7. Resized(Shown(F, R), <<>>, a, Len(own), 0) = Shown(F, R2)
    BY <1>3, <1>6, RemovedShows
  <1>8. f.view = R2
    BY <1>4, <1>6, <1>7 DEF R
  <1> QED
    BY <1>8 DEF f, R2

\* Each source that is read comes after the ones that have rows.
LEMMA SoundRead ==
  ASSUME NEW m, Sound(m), DOMAIN m.items = {}, NEW all, DataTyped(all)
  PROVE  /\ \A k \in 0..LastName : Sound(DataRead(m, all)[k])
         /\ \A k \in 1..LastName : InPlace(DataRead(m, all)[k - 1].items, ToldName(k))
  <1> DEFINE F == DataRead(m, all)
             S == {k \in Nat : k <= LastName =>
                                 Sound(F[k]) /\ \A o \in DOMAIN F[k].items : ~AsItems => o <= k}
  <1>1. F[0] = m /\ \A n \in 1..LastName : F[n] = IF n \in DOMAIN all THEN DataUpdated(F[n - 1], all, n) ELSE F[n - 1]
    BY DataReadFit
  <1>2. LastName \in Nat
    BY LastNameIsNat
  <1> HIDE DEF F
  <1>3. 0 \in S
    BY <1>1
  <1>4. ASSUME NEW k \in Nat, k \in S PROVE k + 1 \in S
    <2>1. ASSUME k + 1 <= LastName
          PROVE  Sound(F[k + 1]) /\ \A o \in DOMAIN F[k + 1].items : ~AsItems => o <= k + 1
      <3> DEFINE n == k + 1  p == F[k]
      <3>1. n \in 1..LastName /\ n - 1 = k /\ k <= LastName
        BY <1>2, <2>1
      <3>2. Sound(p) /\ \A o \in DOMAIN p.items : ~AsItems => o <= k
        BY <1>4, <3>1
      <3>3. F[n] = IF n \in DOMAIN all THEN DataUpdated(p, all, n) ELSE p
        BY <1>1, <3>1
      <3> HIDE DEF n, p
      <3>4. \A o \in DOMAIN p.items : ~AsItems => o <= n
        <4>1. ~AsItems => DOMAIN p.items \subseteq 1..LastName
          BY <3>2 DEF Sound, Names
        <4>2. \A o \in 1..LastName : o <= k => o <= n
          BY <1>2 DEF n
        <4> QED
          BY <3>2, <4>1, <4>2
      <3>5. CASE n \notin DOMAIN all
        <4>1. F[n] = p
          BY <3>3, <3>5
        <4> QED
          BY <3>2, <3>4, <4>1 DEF n
      <3>6. CASE n \in DOMAIN all
        <4> DEFINE f == DataUpdated(p, all, n)
        <4>1. Sound(f) /\ \A o \in DOMAIN f.items : o \in DOMAIN p.items \/ o = ToldName(n)
          BY <3>2, <3>6, SoundUpdated
        <4>2. F[n] = f
          BY <3>3, <3>6
        <4>3. ~AsItems => ToldName(n) = n
          BY DEF ToldName
        <4>4. n <= n
          BY DEF n
        <4> HIDE DEF f
        <4>5. \A o \in DOMAIN f.items : ~AsItems => o <= n
          BY <3>4, <4>1, <4>3, <4>4
        <4> QED
          BY <4>1, <4>2, <4>5 DEF n
      <3> QED
        BY <3>5, <3>6
    <2> QED
      BY <2>1
  <1>5. \A k \in Nat : k \in S
    <2> HIDE DEF S
    <2> QED
      BY <1>3, <1>4, Induction
  <1>6. \A k \in 0..LastName : Sound(F[k]) /\ \A o \in DOMAIN F[k].items : ~AsItems => o <= k
    BY <1>2, <1>5
  <1>7. ASSUME NEW k \in 1..LastName PROVE InPlace(F[k - 1].items, ToldName(k))
    <2> DEFINE p == F[k - 1]
    <2>1. k - 1 \in 0..LastName
      BY <1>2
    <2>2. Sound(p) /\ \A o \in DOMAIN p.items : ~AsItems => o <= k - 1
      BY <1>6, <2>1
    <2> HIDE DEF p
    <2>3. CASE AsItems
      <3>1. DOMAIN p.items \subseteq {AllItems} /\ ToldName(k) = AllItems
        BY <2>2, <2>3 DEF Sound, ToldName
      <3> QED
        BY <3>1 DEF InPlace, p
    <2>4. CASE ~AsItems
      <3>1. DOMAIN p.items \subseteq 1..LastName /\ ToldName(k) = k
        BY <2>2, <2>4 DEF Sound, ToldName, Names
      <3>2. \A o \in 1..LastName : o <= k - 1 => o < k
        BY <1>2
      <3>3. \A o \in DOMAIN p.items : o < k
        BY <2>2, <2>4, <3>1, <3>2
      <3> QED
        BY <3>1, <3>3 DEF InPlace, p
    <2> QED
      BY <2>3, <2>4
  <1> QED
    BY <1>6, <1>7 DEF F

LEMMA ViewRead ==
  ASSUME NEW m, Sound(m), DOMAIN m.items = {}, NEW all, DataTyped(all), m.view = Rows(m.items)
  PROVE  LET f == DataRead(m, all)[LastName] IN f.view = Rows(f.items)
  <1> DEFINE F == DataRead(m, all)
             S == {k \in Nat : k <= LastName => F[k].view = Rows(F[k].items)}
  <1>1. F[0] = m /\ \A n \in 1..LastName : F[n] = IF n \in DOMAIN all THEN DataUpdated(F[n - 1], all, n) ELSE F[n - 1]
    BY DataReadFit
  <1>2. LastName \in Nat
    BY LastNameIsNat
  <1>3. /\ \A k \in 0..LastName : Sound(F[k])
        /\ \A k \in 1..LastName : InPlace(F[k - 1].items, ToldName(k))
    BY SoundRead
  <1> HIDE DEF F
  <1>4. 0 \in S
    BY <1>1
  <1>5. ASSUME NEW k \in Nat, k \in S PROVE k + 1 \in S
    <2>1. ASSUME k + 1 <= LastName PROVE F[k + 1].view = Rows(F[k + 1].items)
      <3> DEFINE n == k + 1  p == F[k]
      <3>1. n \in 1..LastName /\ n - 1 = k /\ k \in 0..LastName /\ k <= LastName
        BY <1>2, <2>1
      <3>2. Sound(p) /\ InPlace(p.items, ToldName(n)) /\ p.view = Rows(p.items)
        BY <1>3, <1>5, <3>1
      <3>3. F[n] = IF n \in DOMAIN all THEN DataUpdated(p, all, n) ELSE p
        BY <1>1, <3>1
      <3> HIDE DEF n, p
      <3>4. n \in DOMAIN all => DataUpdated(p, all, n).view = Rows(DataUpdated(p, all, n).items)
        BY <3>2, ViewUpdated
      <3>5. F[n].view = Rows(F[n].items)
        BY <3>2, <3>3, <3>4
      <3> QED
        BY <3>5 DEF n
    <2> QED
      BY <2>1
  <1>6. \A k \in Nat : k \in S
    <2> HIDE DEF S
    <2> QED
      BY <1>4, <1>5, Induction
  <1>7. LastName <= LastName
    BY <1>2
  <1>8. F[LastName].view = Rows(F[LastName].items)
    BY <1>2, <1>6, <1>7
  <1> QED
    BY <1>8 DEF F

-----------------------------------------------------------------------------
(* The steps, by what they change *)

ProxyFields == {"proxy", "filterRole", "roleIds", "roleId", "filter", "callback", "accepted"}

ProxyStep ==
    /\ UNCHANGED <<connected, shown, dataSource, keyRoleFilter, sourceFilter>>
    /\ Same(model', model, ProxyFields)

\* A source goes, and its data is cleared or was already or is kept.
DropStep(n) ==
    /\ connected' = connected \ {n}
    /\ \/ Clear(n)
       \/ UNCHANGED shown /\ (ClearedWhenLeft /\ n \in DOMAIN shown => shown[n] = Cleared)
    /\ ToldRemoved(n)
    /\ UNCHANGED <<dataSource, keyRoleFilter, sourceFilter>>

KeyKnown == keyRoleFilter \in {"", "valid", "invalid"}

FilterStep ==
    /\ ~dataSource /\ UNCHANGED <<connected, shown, dataSource, model>>
    /\ sourceFilter' = sourceFilter \/ sourceFilter' \subseteq Names
    /\ KeyKnown => KeyKnown'

FilterAction ==
    SetModel \/ (\E role \in Roles : FilterBy(role)) \/ (\E filter \in Filters, callback \in BOOLEAN : SetFilter(filter, callback))

LEMMA Steps ==
  ASSUME [Next]_vars, DOMAIN model = ModelFields
  PROVE  \/ UNCHANGED <<shown, dataSource, keyRoleFilter, sourceFilter, model>>
            /\ \E n \in Names : connected' = connected \union {n}
         \/ \E n \in Names, d \in Contents : NewData(n, d)
         \/ \E n \in Names : DropStep(n)
         \/ SetDataSource
         \/ FilterStep
         \/ ProxyStep /\ (model' = model \/ FilterAction)
  <1>1. CASE UNCHANGED vars
    <2>1. UNCHANGED <<connected, shown, dataSource, keyRoleFilter, sourceFilter, model>>
      BY <1>1 DEF vars, source, filters
    <2>2. Same(model', model, ProxyFields)
      BY <2>1 DEF Same
    <2>3. ProxyStep /\ model' = model
      BY <2>1, <2>2 DEF ProxyStep
    <2> QED
      BY <2>3
  <1>2. ASSUME NEW n \in Names, ConnectSource(n)
        PROVE  /\ UNCHANGED <<shown, dataSource, keyRoleFilter, sourceFilter, model>>
               /\ connected' = connected \union {n}
    BY <1>2 DEF ConnectSource, filters
  <1>3. ASSUME NEW n \in Names, LeaveSource(n) PROVE DropStep(n)
    BY <1>3 DEF LeaveSource, DropStep, filters
  <1>4. ASSUME NEW n \in Names, DisconnectSource(n) PROVE DropStep(n)
    BY <1>4 DEF DisconnectSource, DropStep, filters
  <1>5. ASSUME NEW n \in Names, SourceRemoved(n) PROVE DropStep(n)
    BY <1>5 DEF SourceRemoved, DropStep, filters
  <1>6. ASSUME NEW key \in {"valid", "invalid"}, SetKeyRoleFilter(key) PROVE FilterStep
    <2>1. UNCHANGED <<connected, shown, dataSource, sourceFilter, model>> /\ ~dataSource
      BY <1>6 DEF SetKeyRoleFilter, source
    <2>2. KeyKnown'
      BY <1>6, Zenon DEF SetKeyRoleFilter, KeyKnown
    <2> QED
      BY <2>1, <2>2 DEF FilterStep
  <1>7. ASSUME NEW matching \in SUBSET Names, SetSourceFilter(matching) PROVE FilterStep
    <2>1. /\ UNCHANGED <<connected, shown, dataSource, model>> /\ ~dataSource
          /\ sourceFilter' \subseteq Names
      BY <1>7 DEF SetSourceFilter, source
    <2>2. keyRoleFilter' = keyRoleFilter
      BY <1>7 DEF SetSourceFilter
    <2>3. KeyKnown => KeyKnown'
      BY <2>2, Zenon DEF KeyKnown
    <2> QED
      BY <2>1, <2>3 DEF FilterStep
  <1>8. ASSUME SetModel PROVE ProxyStep
    <2> DEFINE n == [model EXCEPT !.proxy = TRUE]
               f == SyncRoleNames(n)
               g == [f EXCEPT !.accepted = Accepted(f, Rows(f.items))]
    <2>1. model' = g /\ UNCHANGED <<connected, shown, dataSource, keyRoleFilter, sourceFilter>>
      BY <1>8 DEF SetModel, source, filters
    <2>2. Same(n, model, {"proxy"})
      BY DEF Same, ModelFields
    <2> HIDE DEF n
    <2>3. DOMAIN n = ModelFields
      BY <2>2 DEF Same
    <2>4. Same(f, n, ByProxy)
      BY <2>3, SyncEffect
    <2> HIDE DEF f
    <2>5. Same(g, f, {"accepted"})
      BY <2>4 DEF Same, ModelFields
    <2> HIDE DEF g
    <2>6. Same(g, model, ProxyFields)
      BY <2>2, <2>4, <2>5 DEF Same, ProxyFields, ByProxy
    <2> QED
      BY <2>1, <2>6 DEF ProxyStep
  <1>9. ASSUME NEW role \in Roles, FilterBy(role) PROVE ProxyStep
    <2>1. model' = SetFilterRole(model, role) \/ model' \in Reentered(model, role)
      BY <1>9 DEF FilterBy
    <2>2. UNCHANGED <<connected, shown, dataSource, keyRoleFilter, sourceFilter>>
      BY <1>9 DEF FilterBy, source, filters
    <2>3. ASSUME model' = SetFilterRole(model, role) PROVE Same(model', model, ProxyFields)
      <3>1. Same(SetFilterRole(model, role), model, {"filterRole", "roleId", "accepted"})
        BY SetFilterRoleEffect
      <3> QED
        BY <2>3, <3>1 DEF Same, ProxyFields
    <2>4. ASSUME model' \in Reentered(model, role) PROVE Same(model', model, ProxyFields)
      <3> DEFINE f == SyncRoleNames(model)
      <3>1. Same(f, model, ByProxy)
        BY SyncEffect
      <3>2. PICK left : model' = [f EXCEPT !.filterRole = role, !.accepted = left]
        BY <2>4 DEF Reentered
      <3> HIDE DEF f
      <3>3. Same(model', f, {"filterRole", "accepted"})
        BY <3>1, <3>2 DEF Same, ModelFields
      <3> QED
        BY <3>1, <3>3 DEF Same, ProxyFields, ByProxy
    <2> QED
      BY <2>1, <2>2, <2>3, <2>4 DEF ProxyStep
  <1>10. ASSUME NEW filter \in Filters, NEW callback \in BOOLEAN, SetFilter(filter, callback)
         PROVE  ProxyStep
    <2> DEFINE n == [model EXCEPT !.filter = filter, !.callback = callback]
               g == [n EXCEPT !.accepted = Accepted(n, Rows(n.items))]
               f == Counted(g, g.accepted # model.accepted)
    <2>1. model' = f /\ UNCHANGED <<connected, shown, dataSource, keyRoleFilter, sourceFilter>>
      BY <1>10 DEF SetFilter, source, filters
    <2>2. Same(n, model, {"filter", "callback"})
      BY DEF Same, ModelFields
    <2> HIDE DEF n
    <2>3. Same(g, n, {"accepted"})
      BY <2>2 DEF Same, ModelFields
    <2> HIDE DEF g
    <2>4. Same(f, g, ByProxy)
      BY <2>3, CountedEffect DEF Same
    <2> HIDE DEF f
    <2>5. Same(f, model, ProxyFields)
      BY <2>2, <2>3, <2>4 DEF Same, ProxyFields, ByProxy
    <2> QED
      BY <2>1, <2>5 DEF ProxyStep
  <1> QED
    BY <1>1, <1>2, <1>3, <1>4, <1>5, <1>6, <1>7, <1>8, <1>9, <1>10 DEF Next, FilterAction

\* What new data makes of a model that is told of it
LEMMA NewDataEffect ==
  ASSUME NEW n \in Names, NEW d \in Contents, NewData(n, d), DataTyped(shown)
  PROVE  /\ DataTyped(shown') /\ n \in DOMAIN shown' /\ shown'[n] = d
         /\ \A o \in DOMAIN shown : o \in DOMAIN shown' /\ (o # n => shown'[o] = shown[o])
         /\ \A o \in DOMAIN shown' : o = n \/ o \in DOMAIN shown
  <1>1. shown' = [o \in DOMAIN shown \union {n} |-> IF o = n THEN d ELSE shown[o]]
    BY DEF NewData
  <1>2. d \in Datas
    BY DataAssumed
  <1> QED
    BY <1>1, <1>2 DEF DataTyped

LEMMA DropStepEffect ==
  ASSUME NEW n \in Names, DropStep(n), DataTyped(shown)
  PROVE  /\ DataTyped(shown') /\ DOMAIN shown' = DOMAIN shown
         /\ \A o \in DOMAIN shown : o # n => shown'[o] = shown[o]
         /\ n \in DOMAIN shown /\ ClearedWhenLeft => shown'[n] = Cleared
         /\ \A o \in DOMAIN shown : shown'[o] = shown[o] \/ shown'[o] = Cleared
  <1>1. Cleared \in Datas
    BY ClearedIsData
  <1>2. CASE Clear(n)
    <2>1. shown' = [o \in DOMAIN shown |-> IF o = n THEN Cleared ELSE shown[o]]
      BY <1>2 DEF Clear
    <2> QED
      BY <1>1, <2>1 DEF DataTyped
  <1>3. CASE UNCHANGED shown /\ (ClearedWhenLeft /\ n \in DOMAIN shown => shown[n] = Cleared)
    BY <1>3
  <1> QED
    BY <1>2, <1>3 DEF DropStep

-----------------------------------------------------------------------------
(* The invariant that the others rest on *)

Base ==
    /\ Sound(model)
    /\ DataTyped(shown)
    /\ connected \subseteq Names
    /\ sourceFilter \subseteq Names
    /\ ~dataSource => DOMAIN model.items = {}

LEMMA RowsOfNothing ==
  ASSUME NEW items, DOMAIN items = {}
  PROVE  Rows(items) = <<>>
  <1>1. Typed(items, {})
    BY DEF Typed
  <1>2. Rows(items) \in Seq({})
    BY <1>1, RowsTyped
  <1> QED
    BY <1>2, EmptySeq

LEMMA BaseAtFirst == Init => Base
  <1> SUFFICES ASSUME Init PROVE Base
    OBVIOUS
  <1>1. DOMAIN model = ModelFields /\ DOMAIN model.items = {}
    BY DEF Init, ModelFields
  <1>2. DataTyped(shown) /\ connected \subseteq Names /\ sourceFilter \subseteq Names
    BY DEF Init, DataTyped
  <1>3. Typed(model.items, SomeRows)
    BY <1>1 DEF Typed
  <1> QED
    BY <1>1, <1>2, <1>3 DEF Base, Sound

\* Sources stay items or lists while the model is told of them.
LEMMA SoundStays ==
  ASSUME UNCHANGED keyRoleFilter, Sound(model')
  PROVE  Sound(model)'
  <1>1. AsItems' = AsItems
    BY Zenon DEF AsItems
  <1> QED
    BY <1>1 DEF Sound

LEMMA BaseStays ==
  ASSUME Base, [Next]_vars
  PROVE  Base'
  <1> USE DEF Base
  <1>0. DOMAIN model = ModelFields
    BY DEF Sound
  <1>1. CASE UNCHANGED <<shown, dataSource, keyRoleFilter, sourceFilter, model>>
             /\ \E n \in Names : connected' = connected \union {n}
    <2>1. Sound(model)'
      BY <1>1, SoundStays
    <2> QED
      BY <1>1, <2>1
  <1>2. ASSUME NEW n \in Names, NEW d \in Contents, NewData(n, d) PROVE Base'
    <2>1. DataTyped(shown') /\ n \in DOMAIN shown'
      BY <1>2, NewDataEffect
    <2>2. /\ UNCHANGED <<connected, dataSource, keyRoleFilter, sourceFilter>>
          /\ model' = IF dataSource THEN DataUpdated(model, shown', n) ELSE model
      BY <1>2 DEF NewData, filters
    <2>3. Sound(DataUpdated(model, shown', n))
      BY <2>1, SoundUpdated
    <2>4. Sound(model')
      BY <2>2, <2>3
    <2>5. Sound(model)'
      BY <2>2, <2>4, SoundStays
    <2>6. ~dataSource' => DOMAIN model'.items = {}
      BY <2>2
    <2> QED
      BY <2>1, <2>2, <2>5, <2>6
  <1>3. ASSUME NEW n \in Names, DropStep(n) PROVE Base'
    <2>1. DataTyped(shown')
      BY <1>3, DropStepEffect
    <2>2. /\ connected' = connected \ {n} /\ UNCHANGED <<dataSource, keyRoleFilter, sourceFilter>>
          /\ model' = IF dataSource THEN RemoveSource(model, n) ELSE model
      BY <1>3 DEF DropStep, ToldRemoved
    <2>3. Sound(RemoveSource(model, n))
      BY SoundRemoved
    <2>4. Sound(model')
      BY <2>2, <2>3
    <2>5. Sound(model)'
      BY <2>2, <2>4, SoundStays
    <2>6. ~dataSource' => DOMAIN model'.items = {}
      BY <2>2
    <2> QED
      BY <2>1, <2>2, <2>5, <2>6
  <1>4. CASE SetDataSource
    <2>1. /\ ~dataSource /\ dataSource' /\ UNCHANGED <<connected, shown, keyRoleFilter, sourceFilter>>
          /\ model' = DataRead(model, shown)[LastName]
      BY <1>4 DEF SetDataSource, source, filters
    <2>2. LastName \in 0..LastName
      BY LastNameIsNat
    <2>3. Sound(model')
      BY <2>1, <2>2, SoundRead
    <2>4. Sound(model)'
      BY <2>1, <2>3, SoundStays
    <2> QED
      BY <2>1, <2>4
  <1>5. CASE FilterStep
    <2>1. DOMAIN model.items = {} /\ model' = model /\ shown' = shown /\ connected' = connected
          /\ dataSource' = dataSource /\ sourceFilter' \subseteq Names
      BY <1>5 DEF FilterStep
    <2>2. Sound(model)'
      BY <2>1 DEF Sound
    <2> QED
      BY <2>1, <2>2
  <1>6. CASE ProxyStep
    <2>1. /\ UNCHANGED <<connected, shown, dataSource, keyRoleFilter, sourceFilter>>
          /\ model'.items = model.items /\ DOMAIN model' = ModelFields
      BY <1>6 DEF ProxyStep, ProxyFields, Same, ModelFields
    <2>2. Sound(model')
      BY <2>1 DEF Sound
    <2>3. Sound(model)'
      BY <2>1, <2>2, SoundStays
    <2> QED
      BY <2>1, <2>3
  <1> QED
    BY <1>0, <1>1, <1>2, <1>3, <1>4, <1>5, <1>6, Steps

\* The types of the module's state that its other invariants need: the items are rows of
\* sources, by name or all under the empty name (m_items), and there are none before there
\* are data (setDataSource).
THEOREM BaseHolds == Spec => []Base
  BY BaseAtFirst, BaseStays, PTL DEF Spec

\* What the constant NamesInOrder says of the names of new rows
LEMMA OrderlyInPlace ==
  ASSUME Sound(model), NamesInOrder, NEW n, NEW d, Orderly(n, d)
  PROVE  InPlace(model.items, ToldName(n))
  <1>1. CASE AsItems
    <2>1. ToldName(n) = AllItems /\ DOMAIN model.items \subseteq {AllItems}
      BY <1>1 DEF ToldName, Sound
    <2> QED
      BY <2>1 DEF InPlace
  <1>2. CASE ~AsItems
    <2>1. keyRoleFilter # ""
      BY <1>2, Zenon DEF AsItems
    <2>2. n \in DOMAIN model.items \/ \A o \in DOMAIN model.items : o < n
      BY <2>1, Zenon DEF Orderly
    <2>3. ToldName(n) = n
      BY <1>2 DEF ToldName
    <2> QED
      BY <2>2, <2>3 DEF InPlace
  <1> QED
    BY <1>1, <1>2

LEMMA ViewStays ==
  ASSUME Base, NamesInOrder, ViewMatches, [Next]_vars
  PROVE  ViewMatches'
  <1> USE DEF ViewMatches
  <1>0. Sound(model) /\ DataTyped(shown) /\ (~dataSource => DOMAIN model.items = {}) /\ DOMAIN model = ModelFields
    BY DEF Base, Sound
  <1>1. CASE model' = model
    BY <1>1
  <1>2. ASSUME NEW n \in Names, NEW d \in Contents, NewData(n, d) PROVE ViewMatches'
    <2>1. DataTyped(shown') /\ n \in DOMAIN shown'
      BY <1>0, <1>2, NewDataEffect
    <2>2. /\ model' = IF dataSource THEN DataUpdated(model, shown', n) ELSE model
          /\ n \in sourceFilter => Orderly(n, d)
      BY <1>2 DEF NewData
    <2>3. CASE n \notin sourceFilter
      BY <2>2, <2>3, DataUpdatedIs DEF Told
    <2>4. CASE n \in sourceFilter
      <3>1. InPlace(model.items, ToldName(n))
        BY <1>0, <2>2, <2>4, OrderlyInPlace
      <3>2. LET f == DataUpdated(model, shown', n) IN f.view = Rows(f.items)
        BY <1>0, <2>1, <3>1, ViewUpdated
      <3> QED
        BY <2>2, <3>2
    <2> QED
      BY <2>3, <2>4
  <1>3. ASSUME NEW n \in Names, DropStep(n) PROVE ViewMatches'
    <2>1. model' = IF dataSource THEN RemoveSource(model, n) ELSE model
      BY <1>3 DEF DropStep, ToldRemoved
    <2>2. RemoveSource(model, n).view = Rows(RemoveSource(model, n).items)
      BY <1>0, ViewRemoved
    <2> QED
      BY <2>1, <2>2
  <1>4. CASE SetDataSource
    <2>1. ~dataSource /\ model' = DataRead(model, shown)[LastName]
      BY <1>4 DEF SetDataSource
    <2> QED
      BY <1>0, <2>1, ViewRead
  <1>5. CASE ProxyStep
    <2>1. model'.items = model.items /\ model'.view = model.view
      BY <1>5 DEF ProxyStep, ProxyFields, Same, ModelFields
    <2> QED
      BY <2>1
  <1> QED
    BY <1>0, <1>1, <1>2, <1>3, <1>4, <1>5, Steps DEF FilterStep

\* A view that reads the rows it is told of shows what the model serves (setItems,
\* removeSource), when sources come in the order of their names.
THEOREM ViewsMatch == NamesInOrder => (Spec => []ViewMatches)
  <1> SUFFICES ASSUME NamesInOrder PROVE Spec => []ViewMatches
    OBVIOUS
  <1>1. Init => ViewMatches
    <2> SUFFICES ASSUME Init PROVE ViewMatches
      OBVIOUS
    <2>1. DOMAIN model.items = {} /\ model.view = <<>>
      BY DEF Init
    <2> QED
      BY <2>1, RowsOfNothing DEF ViewMatches
  <1>2. Base /\ ViewMatches /\ [Next]_vars => ViewMatches'
    BY ViewStays
  <1> QED
    BY <1>1, <1>2, BaseHolds, PTL DEF Spec

-----------------------------------------------------------------------------
(* Views know the roles of the rows. *)

RowsOver(P) == [source : Names, item : {i \in Items : DOMAIN i \subseteq P}]

LEMMA RowsOverMore ==
  ASSUME NEW P, NEW Q, P \subseteq Q
  PROVE  RowsOver(P) \subseteq RowsOver(Q)
  BY DEF RowsOver

LEMMA TypedMore ==
  ASSUME NEW V, NEW W, V \subseteq W, NEW items, Typed(items, V)
  PROVE  Typed(items, W)
  BY SeqMonotonic DEF Typed

LEMMA RolesOfSome ==
  ASSUME NEW list \in Seq(SomeRows), NEW P
  PROVE  RolesOf(list) \subseteq P <=> list \in Seq(RowsOver(P))
  <1>1. DOMAIN list = 1..Len(list) /\ Len(list) \in Nat /\ \A i \in 1..Len(list) : list[i] \in SomeRows
    OBVIOUS
  <1>2. \A i \in 1..Len(list) : list[i] \in RowsOver(P) <=> DOMAIN list[i].item \subseteq P
    BY <1>1 DEF SomeRows, RowsOver
  <1>3. RolesOf(list) \subseteq P <=> \A i \in 1..Len(list) : DOMAIN list[i].item \subseteq P
    BY <1>1 DEF RolesOf
  <1>4. list \in Seq(RowsOver(P)) <=> \A i \in 1..Len(list) : list[i] \in RowsOver(P)
    <2> DEFINE W == RowsOver(P)
    <2> HIDE DEF W
    <2>1. list \in Seq(W) => \A i \in 1..Len(list) : list[i] \in W
      OBVIOUS
    <2>2. (\A i \in 1..Len(list) : list[i] \in W) => list \in Seq(W)
      <3>1. list = [i \in 1..Len(list) |-> list[i]]
        OBVIOUS
      <3>2. (\A i \in 1..Len(list) : list[i] \in W) => list \in [1..Len(list) -> W]
        BY <3>1
      <3> QED
        BY <1>1, <3>2
    <2> QED
      BY <2>1, <2>2 DEF W
  <1> QED
    BY <1>2, <1>3, <1>4

RolesKnown(m) ==
    /\ m.roles = m.viewRoles
    /\ Typed(m.items, RowsOver(m.roles))
    /\ m.view \in Seq(RowsOver(m.roles))
    /\ Len(m.view) = Len(Rows(m.items))

LEMMA RolesUpdated ==
  ASSUME NEW m, Sound(m), RolesKnown(m), NEW all, DataTyped(all), NEW n \in DOMAIN all,
         DOMAIN m.items = {} \/ (Told(all, n) => RolesOf(ToldList(all, n)) \subseteq m.roles)
  PROVE  /\ RolesKnown(DataUpdated(m, all, n))
         /\ Told(all, n) => /\ ToldName(n) \in DOMAIN DataUpdated(m, all, n).items
                            /\ RolesOf(ToldList(all, n)) \subseteq DataUpdated(m, all, n).roles
         /\ ~Told(all, n) => DataUpdated(m, all, n) = m
  <1> DEFINE f == DataUpdated(m, all, n)
  <1>1. CASE ~Told(all, n)
    BY <1>1, DataUpdatedIs
  <1>2. CASE Told(all, n)
    <2> DEFINE name == ToldName(n)  list == ToldList(all, n)  V == RowsOver(f.roles)
               first == DOMAIN m.items = {}
    <2>1. f = SetItems(m, name, list)
      BY <1>2, DataUpdatedIs
    <2>2. name \in 0..LastName /\ list \in Seq(SomeRows)
      BY ToldTyped
    <2>3. DOMAIN m = ModelFields /\ Typed(m.items, SomeRows)
      BY DEF Sound
    <2>4. first \/ RolesOf(list) \subseteq m.roles
      BY <1>2
    <2> HIDE DEF f, name, list
    <2>5. Len(list) \in Nat /\ Len(ItemsOf(m.items, name)) \in Nat
      BY <2>2, <2>3, ItemsOfTyped
    <2>6. /\ f.items = Put(m.items, name, list)
          /\ f.roles = m.roles \union RolesOf(list)
          /\ f.viewRoles = IF first THEN f.roles ELSE m.viewRoles
          /\ f.view = Relisted(first, m.view, Rows(f.items), SourceIndex(m.items, name),
                               Len(ItemsOf(m.items, name)), Len(list))
      BY <2>1, <2>3, <2>5, SetItemsEffect
    <2>7. m.roles \subseteq f.roles /\ RolesOf(list) \subseteq f.roles /\ (first \/ f.roles = m.roles)
      BY <2>4, <2>6
    <2>8. f.roles = f.viewRoles
      BY <2>6, <2>7 DEF RolesKnown
    <2>9. list \in Seq(V)
      BY <2>2, <2>7, RolesOfSome
    <2>10. RowsOver(m.roles) \subseteq V
      BY <2>7, RowsOverMore
    <2> HIDE DEF V
    <2>11. Typed(m.items, V) /\ m.view \in Seq(V) /\ Len(m.view) = Len(Rows(m.items))
      BY <2>10, TypedMore, SeqMonotonic DEF RolesKnown
    <2>12. Typed(f.items, V)
      BY <2>2, <2>6, <2>9, <2>11, PutItems
    <2>13. f.view \in Seq(V) /\ Len(f.view) = Len(Rows(f.items))
      <3> DEFINE W == V  s == m.view  items == m.items
                 r == Relisted(DOMAIN items = {}, s, Rows(Put(items, name, list)), SourceIndex(items, name),
                               Len(ItemsOf(items, name)), Len(list))
      <3>1. s \in Seq(W) /\ Len(s) = Len(Rows(items)) /\ V \subseteq W /\ Typed(items, V)
        BY <2>11
      <3>2. f.view = r /\ Rows(f.items) = Rows(Put(items, name, list))
        BY <2>6
      <3> HIDE DEF s, items, W
      <3>3. r \in Seq(W) /\ Len(r) = Len(Rows(Put(items, name, list)))
        BY <2>2, <2>9, <3>1, RelistedTyped
      <3> QED
        BY <3>2, <3>3 DEF W
    <2>14. RolesKnown(f)
      BY <2>8, <2>12, <2>13 DEF RolesKnown, V
    <2>15. name \in DOMAIN f.items
      BY <2>6 DEF Put
    <2> QED
      BY <1>2, <2>7, <2>14, <2>15 DEF f, name, list
  <1> QED
    BY <1>1, <1>2

LEMMA RolesRemoved ==
  ASSUME NEW m, Sound(m), RolesKnown(m), NEW n \in Names
  PROVE  RolesKnown(RemoveSource(m, n)) /\ RemoveSource(m, n).roles = m.roles
  <1> DEFINE f == RemoveSource(m, n)  V == RowsOver(m.roles)
  <1>1. /\ DOMAIN m = ModelFields /\ (AsItems => DOMAIN m.items \subseteq {AllItems})
        /\ Typed(m.items, V) /\ m.view \in Seq(V) /\ Len(m.view) = Len(Rows(m.items))
    BY DEF Sound, RolesKnown
  <1> HIDE DEF V
  <1>2. (\E a \in Nat, own \in Seq(V) : Removed(m, f, a, own)) /\ Typed(f.items, V)
    BY <1>1, RemoveSourceEffect
  <1> HIDE DEF f
  <1>3. PICK a \in Nat, own \in Seq(V) : Removed(m, f, a, own)
    BY <1>2
  <1> DEFINE R == Rows(m.items)  R2 == Rows(f.items)  s == m.view
  <1>4. Replaced(R, R2, a, own, <<>>) /\ f.view = Resized(s, <<>>, a, Len(own), 0)
    BY <1>3 DEF Removed
  <1>5. R \in Seq(V) /\ R2 \in Seq(V) /\ s \in Seq(V) /\ Len(s) = Len(R)
    BY <1>1, <1>2, RowsTyped
  <1> HIDE DEF R, R2, s
  <1>6. f.view \in Seq(V) /\ Len(f.view) = Len(R2)
    BY <1>4, <1>5, RemovedTyped
  <1>7. f.roles = m.roles /\ f.viewRoles = m.viewRoles
    BY <1>3 DEF Removed, Same, ByProxy, ModelFields
  <1>8. RolesKnown(f) /\ f.roles = m.roles
    BY <1>2, <1>6, <1>7 DEF RolesKnown, V, R2
  <1> QED
    BY <1>8 DEF f

LEMMA RolesOfSourceRows ==
  ASSUME NEW all, DataTyped(all), NEW P
  PROVE  RolesOf(SourceRows(all)) \subseteq P <=> \A n \in Sourced(all) : DOMAIN all[n].item \subseteq P
  <1> DEFINE R == SourceRows(all)
  <1>1. /\ \A i \in DOMAIN R : \E n \in Sourced(all) : R[i] = Row(n, all[n].item)
        /\ \A n \in Sourced(all) : \E i \in DOMAIN R : R[i] = Row(n, all[n].item)
    BY SourceRowsFit
  <1> HIDE DEF R
  <1>2. \A n : Row(n, all[n].item).item = all[n].item
    BY DEF Row
  <1>3. RolesOf(R) \subseteq P <=> \A i \in DOMAIN R : DOMAIN R[i].item \subseteq P
    BY DEF RolesOf
  <1>4. (\A i \in DOMAIN R : DOMAIN R[i].item \subseteq P)
          => \A n \in Sourced(all) : DOMAIN all[n].item \subseteq P
    BY <1>1, <1>2
  <1>5. (\A n \in Sourced(all) : DOMAIN all[n].item \subseteq P)
          => \A i \in DOMAIN R : DOMAIN R[i].item \subseteq P
    BY <1>1, <1>2
  <1> QED
    BY <1>3, <1>4, <1>5 DEF R

\* Of sources that are items, the model has read the roles.
RolesRead(m, all) ==
    AsItems => \A o \in Sourced(all) : AllItems \in DOMAIN m.items /\ DOMAIN all[o].item \subseteq m.roles

\* The data that are there give the roles of each list with an earlier one.
EarlierHaveRoles(all) ==
    ~AsItems => \A n, o \in DOMAIN all \intersect sourceFilter :
                  n < o => RolesOf(KeyRoleRows(o, all[o])) \subseteq RolesOf(KeyRoleRows(n, all[n]))

LEMMA RolesReadAll ==
  ASSUME NEW m, Sound(m), RolesKnown(m), DOMAIN m.items = {}, NEW all, DataTyped(all), EarlierHaveRoles(all)
  PROVE  /\ RolesKnown(DataRead(m, all)[LastName])
         /\ RolesRead(DataRead(m, all)[LastName], all)
         /\ \A k \in 1..LastName : \/ DOMAIN DataRead(m, all)[k - 1].items = {}
                                   \/ k \in DOMAIN all /\ Told(all, k) =>
                                        RolesOf(ToldList(all, k)) \subseteq DataRead(m, all)[k - 1].roles
  <1> DEFINE F == DataRead(m, all)
             Ahead(p, k) == \/ DOMAIN p.items = {}
                            \/ \A n \in DOMAIN all : n > k /\ Told(all, n) =>
                                 RolesOf(ToldList(all, n)) \subseteq p.roles
             Behind(p, k) == AsItems =>
                 \A o \in DOMAIN all : o <= k /\ o \in sourceFilter =>
                   AllItems \in DOMAIN p.items /\ RolesOf(SourceRows(all)) \subseteq p.roles
             Fine(p, k) == RolesKnown(p) /\ Ahead(p, k) /\ Behind(p, k)
             S == {k \in Nat : k <= LastName => Fine(F[k], k)}
  <1>1. F[0] = m /\ \A n \in 1..LastName : F[n] = IF n \in DOMAIN all THEN DataUpdated(F[n - 1], all, n) ELSE F[n - 1]
    BY DataReadFit
  <1>2. LastName \in Nat /\ DOMAIN all \subseteq 1..LastName
    BY LastNameIsNat DEF DataTyped, Names
  <1>3. \A k \in 0..LastName : Sound(F[k])
    BY SoundRead
  <1> HIDE DEF F
  <1>4. 0 \in S
    <2>1. \A o \in DOMAIN all : ~(o <= 0)
      BY <1>2
    <2> QED
      BY <1>1, <2>1
  <1>5. ASSUME NEW k \in Nat, k \in S PROVE k + 1 \in S
    <2>1. ASSUME k + 1 <= LastName PROVE Fine(F[k + 1], k + 1)
      <3> DEFINE n == k + 1  p == F[k]
      <3>1. n \in 1..LastName /\ n - 1 = k /\ k \in 0..LastName /\ k <= LastName
        BY <1>2, <2>1
      <3>2. Sound(p) /\ Fine(p, k)
        BY <1>3, <1>5, <3>1
      <3>3. F[n] = IF n \in DOMAIN all THEN DataUpdated(p, all, n) ELSE p
        BY <1>1, <3>1
      <3>4. n > k /\ \A o \in 1..LastName : (o > n => o > k) /\ (o <= n => o <= k \/ o = n)
        BY <1>2
      <3> HIDE DEF n, p
      <3>5. CASE ~(n \in DOMAIN all /\ Told(all, n))
        <4>1. F[n] = p
          BY <3>3, <3>5, DataUpdatedIs
        <4>2. Ahead(p, n)
          BY <1>2, <3>2, <3>4
        <4>3. Behind(p, n)
          <5>1. AsItems => ~(n \in DOMAIN all /\ n \in sourceFilter)
            BY <3>5 DEF Told
          <5> QED
            BY <1>2, <3>2, <3>4, <5>1
        <4> HIDE DEF Ahead, Behind
        <4> QED
          BY <3>2, <4>1, <4>2, <4>3 DEF n
      <3>6. CASE n \in DOMAIN all /\ Told(all, n)
        <4> DEFINE f == DataUpdated(p, all, n)
        <4>1. F[n] = f
          BY <3>3, <3>6
        <4>2. RolesKnown(p) /\ (DOMAIN p.items = {} \/ (Told(all, n) => RolesOf(ToldList(all, n)) \subseteq p.roles))
          BY <3>2, <3>4, <3>6
        <4>3. /\ RolesKnown(f)
              /\ ToldName(n) \in DOMAIN f.items
              /\ RolesOf(ToldList(all, n)) \subseteq f.roles
          BY <3>2, <3>6, <4>2, RolesUpdated
        <4> HIDE DEF f
        <4>4. Ahead(f, n)
          <5>1. ASSUME NEW o \in DOMAIN all, o > n, Told(all, o)
                PROVE  RolesOf(ToldList(all, o)) \subseteq f.roles
            <6>1. CASE AsItems
              BY <4>3, <6>1 DEF ToldList
            <6>2. CASE ~AsItems
              <7>1. n < o /\ n \in DOMAIN all \intersect sourceFilter /\ o \in DOMAIN all \intersect sourceFilter
                BY <1>2, <3>6, <5>1 DEF Told
              <7>2. RolesOf(KeyRoleRows(o, all[o])) \subseteq RolesOf(KeyRoleRows(n, all[n]))
                BY <6>2, <7>1 DEF EarlierHaveRoles
              <7> QED
                BY <4>3, <6>2, <7>2 DEF ToldList
            <6> QED
              BY <6>1, <6>2
          <5> QED
            BY <5>1
        <4>5. Behind(f, n)
          BY <4>3 DEF ToldName, ToldList
        <4> HIDE DEF Ahead, Behind
        <4> QED
          BY <4>1, <4>3, <4>4, <4>5 DEF n
      <3> QED
        BY <3>5, <3>6
    <2> HIDE DEF Fine
    <2> QED
      BY <2>1
  <1>6. \A k \in Nat : k \in S
    <2> HIDE DEF S
    <2> QED
      BY <1>4, <1>5, Induction
  <1>7. \A k \in 0..LastName : Fine(F[k], k)
    <2> HIDE DEF Fine
    <2> QED
      BY <1>2, <1>6
  <1>8. RolesKnown(F[LastName]) /\ RolesRead(F[LastName], all)
    <2>1. LastName \in 0..LastName /\ \A o \in DOMAIN all : o <= LastName
      BY <1>2
    <2>2. Fine(F[LastName], LastName)
      BY <1>7, <2>1
    <2>3. ASSUME AsItems, NEW o \in Sourced(all)
          PROVE  AllItems \in DOMAIN F[LastName].items /\ DOMAIN all[o].item \subseteq F[LastName].roles
      <3>1. o \in DOMAIN all /\ o \in sourceFilter
        BY DEF Sourced
      <3>2. AllItems \in DOMAIN F[LastName].items /\ RolesOf(SourceRows(all)) \subseteq F[LastName].roles
        BY <2>1, <2>2, <2>3, <3>1
      <3> QED
        BY <3>2, RolesOfSourceRows
    <2> QED
      BY <2>2, <2>3 DEF RolesRead
  <1>9. ASSUME NEW k \in 1..LastName
        PROVE  \/ DOMAIN F[k - 1].items = {}
               \/ k \in DOMAIN all /\ Told(all, k) => RolesOf(ToldList(all, k)) \subseteq F[k - 1].roles
    <2>1. k - 1 \in 0..LastName /\ k > k - 1
      BY <1>2
    <2>2. Fine(F[k - 1], k - 1)
      BY <1>7, <2>1
    <2> QED
      BY <2>1, <2>2
  <1> QED
    BY <1>8, <1>9 DEF F

RolesInv == RolesKnown(model) /\ (dataSource => RolesRead(model, shown))

\* What the constant RolesAtFirst says of the data that come first, and of those that come
LEMMA RolesOfNewData ==
  ASSUME Base, RolesAtFirst, RolesInv, dataSource, NEW n \in Names, NEW d \in Contents, NewData(n, d)
  PROVE  DOMAIN model.items = {} \/ (Told(shown', n) => RolesOf(ToldList(shown', n)) \subseteq model.roles)
  <1> SUFFICES ASSUME DOMAIN model.items # {}, n \in sourceFilter
               PROVE  RolesOf(ToldList(shown', n)) \subseteq model.roles
    BY DEF Told
  <1>1. /\ DataTyped(shown') /\ n \in DOMAIN shown' /\ shown'[n] = d
        /\ \A o \in DOMAIN shown : o \in DOMAIN shown' /\ (o # n => shown'[o] = shown[o])
        /\ \A o \in DOMAIN shown' : o = n \/ o \in DOMAIN shown
    BY NewDataEffect DEF Base
  <1>2. RolesOf(OwnRows(n, d)) \subseteq model.roles
    BY DEF NewData, Orderly, RolesInv, RolesKnown
  <1>3. CASE AsItems
    <2>1. RolesRead(model, shown)
      BY DEF RolesInv
    <2>2. ASSUME NEW o \in Sourced(shown') PROVE DOMAIN shown'[o].item \subseteq model.roles
      <3>1. CASE o = n
        <4>1. d # Cleared
          BY <1>1, <2>2, <3>1 DEF Sourced
        <4>2. OwnRows(n, d) = <<Row(n, d.item)>>
          BY <1>3, <4>1, Zenon DEF OwnRows, AsItems
        <4> DEFINE one == <<Row(n, d.item)>>
        <4>3. 1 \in DOMAIN one /\ one[1].item = d.item
          BY DEF Row
        <4> HIDE DEF one
        <4>4. DOMAIN d.item \subseteq RolesOf(one)
          BY <4>3 DEF RolesOf
        <4> QED
          BY <1>1, <1>2, <3>1, <4>2, <4>4 DEF one
      <3>2. CASE o # n
        <4>1. o \in DOMAIN shown /\ shown'[o] = shown[o] /\ o \in Sourced(shown)
          BY <1>1, <2>2, <3>2 DEF Sourced
        <4> QED
          BY <1>3, <2>1, <4>1 DEF RolesRead
      <3> QED
        BY <3>1, <3>2
    <2>3. RolesOf(SourceRows(shown')) \subseteq model.roles
      BY <1>1, <2>2, RolesOfSourceRows
    <2> QED
      BY <1>3, <2>3 DEF ToldList
  <1>4. CASE ~AsItems
    <2>1. OwnRows(n, d) = KeyRoleRows(n, d)
      BY <1>4, Zenon DEF OwnRows, AsItems
    <2>2. ToldList(shown', n) = KeyRoleRows(n, d)
      BY <1>1, <1>4 DEF ToldList
    <2> QED
      BY <1>2, <2>1, <2>2
  <1> QED
    BY <1>3, <1>4

LEMMA EarlierRolesAtFirst ==
  ASSUME RolesAtFirst, SetDataSource
  PROVE  EarlierHaveRoles(shown)
  <1> SUFFICES ASSUME ~AsItems,
                      NEW n \in DOMAIN shown \intersect sourceFilter,
                      NEW o \in DOMAIN shown \intersect sourceFilter, n < o
               PROVE  RolesOf(KeyRoleRows(o, shown[o])) \subseteq RolesOf(KeyRoleRows(n, shown[n]))
    BY DEF EarlierHaveRoles
  <1>1. keyRoleFilter # ""
    BY Zenon DEF AsItems
  <1>2. RolesOf(OwnRows(o, shown[o])) \subseteq RolesOf(OwnRows(n, shown[n]))
    BY <1>1, Zenon DEF SetDataSource
  <1>3. \A k, d : OwnRows(k, d) = KeyRoleRows(k, d)
    BY <1>1, Zenon DEF OwnRows
  <1> QED
    BY <1>2, <1>3

LEMMA RolesStay ==
  ASSUME Base, RolesAtFirst, RolesInv, [Next]_vars
  PROVE  RolesInv'
  <1>0. /\ Sound(model) /\ DataTyped(shown) /\ (~dataSource => DOMAIN model.items = {})
        /\ DOMAIN model = ModelFields
        /\ RolesKnown(model) /\ (dataSource => RolesRead(model, shown))
    BY DEF Base, Sound, RolesInv
  \* The roles are read as they were while the filters stay.
  <1> DEFINE Kept == UNCHANGED <<keyRoleFilter, sourceFilter>>
  <1>1. ASSUME Kept, RolesKnown(model'), dataSource' => RolesRead(model', shown')
        PROVE  RolesInv'
    <2>1. AsItems' = AsItems
      BY <1>1, Zenon DEF AsItems
    <2>2. RolesRead(model', shown') => RolesRead(model, shown)'
      BY <1>1, <2>1 DEF RolesRead, Sourced
    <2>3. RolesKnown(model)'
      BY <1>1 DEF RolesKnown
    <2> QED
      BY <1>1, <2>2, <2>3 DEF RolesInv
  <1>2. CASE UNCHANGED <<shown, dataSource, keyRoleFilter, sourceFilter, model>>
    BY <1>0, <1>1, <1>2
  <1>3. ASSUME NEW n \in Names, NEW d \in Contents, NewData(n, d) PROVE RolesInv'
    <2>1. /\ DataTyped(shown') /\ n \in DOMAIN shown' /\ shown'[n] = d
          /\ \A o \in DOMAIN shown : o \in DOMAIN shown' /\ (o # n => shown'[o] = shown[o])
          /\ \A o \in DOMAIN shown' : o = n \/ o \in DOMAIN shown
      BY <1>0, <1>3, NewDataEffect
    <2>2. /\ Kept /\ dataSource' = dataSource
          /\ model' = IF dataSource THEN DataUpdated(model, shown', n) ELSE model
      BY <1>3 DEF NewData, filters
    <2>3. CASE ~dataSource
      BY <1>0, <1>1, <2>2, <2>3
    <2>4. CASE dataSource
      <3> DEFINE f == DataUpdated(model, shown', n)
      <3>1. DOMAIN model.items = {} \/ (Told(shown', n) => RolesOf(ToldList(shown', n)) \subseteq model.roles)
        BY <1>3, <2>4, RolesOfNewData
      <3>2. /\ RolesKnown(f)
            /\ Told(shown', n) => /\ ToldName(n) \in DOMAIN f.items
                                  /\ RolesOf(ToldList(shown', n)) \subseteq f.roles
            /\ ~Told(shown', n) => f = model
        BY <1>0, <2>1, <3>1, RolesUpdated
      <3> HIDE DEF f
      <3>3. RolesRead(f, shown')
        <4> SUFFICES ASSUME AsItems, NEW o \in Sourced(shown')
                     PROVE  AllItems \in DOMAIN f.items /\ DOMAIN shown'[o].item \subseteq f.roles
          BY DEF RolesRead
        <4>1. CASE Told(shown', n)
          <5>1. AllItems \in DOMAIN f.items /\ RolesOf(SourceRows(shown')) \subseteq f.roles
            BY <3>2, <4>1 DEF ToldName, ToldList
          <5> QED
            BY <2>1, <5>1, RolesOfSourceRows
        <4>2. CASE ~Told(shown', n)
          <5>1. n \notin sourceFilter
            BY <4>2 DEF Told
          <5>2. o \in Sourced(shown) /\ shown'[o] = shown[o]
            BY <2>1, <5>1 DEF Sourced
          <5> QED
            BY <1>0, <2>4, <3>2, <4>2, <5>2 DEF RolesRead
        <4> QED
          BY <4>1, <4>2
      <3>4. model' = f
        BY <2>2, <2>4 DEF f
      <3> QED
        BY <1>1, <2>2, <3>2, <3>3, <3>4
    <2> QED
      BY <2>3, <2>4
  <1>4. ASSUME NEW n \in Names, DropStep(n) PROVE RolesInv'
    <2>1. /\ Kept /\ dataSource' = dataSource
          /\ model' = IF dataSource THEN RemoveSource(model, n) ELSE model
      BY <1>4 DEF DropStep, ToldRemoved
    <2>2. /\ DOMAIN shown' = DOMAIN shown
          /\ \A o \in DOMAIN shown : shown'[o] = shown[o] \/ shown'[o] = Cleared
      BY <1>0, <1>4, DropStepEffect
    <2>3. CASE ~dataSource
      BY <1>0, <1>1, <2>1, <2>3
    <2>4. CASE dataSource
      <3> DEFINE f == RemoveSource(model, n)
      <3>1. RolesKnown(f) /\ f.roles = model.roles
        BY <1>0, RolesRemoved
      <3>2. AsItems => DOMAIN f.items = DOMAIN model.items
        BY <1>0, SoundRemoved
      <3>3. model' = f
        BY <2>1, <2>4
      <3> HIDE DEF f
      <3>4. RolesRead(f, shown')
        <4> SUFFICES ASSUME AsItems, NEW o \in Sourced(shown')
                     PROVE  AllItems \in DOMAIN f.items /\ DOMAIN shown'[o].item \subseteq f.roles
          BY DEF RolesRead
        <4>1. o \in Sourced(shown) /\ shown'[o] = shown[o]
          BY <2>2 DEF Sourced
        <4> QED
          BY <1>0, <2>4, <3>1, <3>2, <4>1 DEF RolesRead
      <3> QED
        BY <1>1, <2>1, <3>1, <3>3, <3>4
    <2> QED
      BY <2>3, <2>4
  <1>5. CASE SetDataSource
    <2>1. /\ ~dataSource /\ Kept /\ shown' = shown
          /\ model' = DataRead(model, shown)[LastName]
      BY <1>5 DEF SetDataSource, source, filters
    <2>2. EarlierHaveRoles(shown)
      BY <1>5, EarlierRolesAtFirst
    <2>3. RolesKnown(DataRead(model, shown)[LastName]) /\ RolesRead(DataRead(model, shown)[LastName], shown)
      BY <1>0, <2>1, <2>2, RolesReadAll
    <2> QED
      BY <1>1, <2>1, <2>3
  <1>6. CASE FilterStep
    <2>1. model' = model /\ ~dataSource'
      BY <1>6 DEF FilterStep
    <2> QED
      BY <1>0, <2>1 DEF RolesInv, RolesKnown
  <1>7. CASE ProxyStep
    <2>1. /\ Kept /\ shown' = shown /\ dataSource' = dataSource
          /\ model'.items = model.items /\ model'.view = model.view
          /\ model'.roles = model.roles /\ model'.viewRoles = model.viewRoles
      BY <1>7 DEF ProxyStep, ProxyFields, Same, ModelFields
    <2>2. RolesKnown(model')
      BY <1>0, <2>1 DEF RolesKnown
    <2>3. dataSource' => RolesRead(model', shown')
      BY <1>0, <2>1 DEF RolesRead
    <2> QED
      BY <1>1, <2>1, <2>2, <2>3
  <1> QED
    BY <1>0, <1>2, <1>3, <1>4, <1>5, <1>6, <1>7, Steps

LEMMA RolesInvHolds == RolesAtFirst => (Spec => []RolesInv)
  <1> SUFFICES ASSUME RolesAtFirst PROVE Spec => []RolesInv
    OBVIOUS
  <1>1. Init => RolesInv
    <2> SUFFICES ASSUME Init PROVE RolesInv
      OBVIOUS
    <2>1. /\ DOMAIN model.items = {} /\ model.view = <<>> /\ model.roles = {} /\ model.viewRoles = {}
          /\ ~dataSource
      BY DEF Init
    <2>2. Rows(model.items) = <<>>
      BY <2>1, RowsOfNothing
    <2> DEFINE V == RowsOver(model.roles)
    <2> HIDE DEF V
    <2>3. <<>> \in Seq(V) /\ Typed(model.items, V)
      BY <2>1 DEF Typed
    <2> QED
      BY <2>1, <2>2, <2>3 DEF RolesInv, RolesKnown, V
  <1>2. Base /\ RolesInv /\ [Next]_vars => RolesInv'
    BY RolesStay
  <1> QED
    BY <1>1, <1>2, BaseHolds, PTL DEF Spec

\* Views know every role that a row has (setItems resets the model when its first items
\* come), when the first rows have all the roles.
THEOREM RolesAreShown == RolesAtFirst => (Spec => []RolesShown)
  <1> SUFFICES ASSUME RolesAtFirst PROVE Spec => []RolesShown
    OBVIOUS
  <1>1. RolesInv => RolesShown
    <2> SUFFICES ASSUME RolesInv, NEW i \in DOMAIN model.view
                 PROVE  DOMAIN model.view[i].item \subseteq model.viewRoles
      BY DEF RolesShown
    <2> DEFINE V == RowsOver(model.roles)
    <2>1. model.view \in Seq(V) /\ model.roles = model.viewRoles
      BY DEF RolesInv, RolesKnown
    <2> HIDE DEF V
    <2>2. model.view[i] \in V
      BY <2>1
    <2> QED
      BY <2>1, <2>2 DEF V, RowsOver
  <1> QED
    BY <1>1, RolesInvHolds, PTL

-----------------------------------------------------------------------------
(* The proxy accepts rows by their value of its role. *)

\* By the role and filter of m, which rows are accepted
Accepts(m) == [r \in SomeRows |-> Value(r, FilteredRole(m)) \in m.filter]

LEMMA AcceptedShown ==
  ASSUME NEW m, NEW R \in Seq(SomeRows)
  PROVE  Accepted(m, R) = Shown(Accepts(m), R)
  <1>1. DOMAIN R = 1..Len(R) /\ \A i \in 1..Len(R) : R[i] \in SomeRows
    OBVIOUS
  <1>2. \A r \in SomeRows : Accepts(m)[r] = (Value(r, FilteredRole(m)) \in m.filter)
    BY DEF Accepts
  <1>3. Accepted(m, R) = [i \in 1..Len(R) |-> Value(R[i], FilteredRole(m)) \in m.filter]
    BY <1>1 DEF Accepted
  <1>4. \A i \in 1..Len(R) : (Value(R[i], FilteredRole(m)) \in m.filter) = Accepts(m)[R[i]]
    BY <1>1, <1>2, Zenon
  <1>5. [i \in 1..Len(R) |-> Value(R[i], FilteredRole(m)) \in m.filter] = [i \in 1..Len(R) |-> Accepts(m)[R[i]]]
    BY <1>4, Zenon
  <1> QED
    BY <1>3, <1>5, Zenon DEF Shown

AllAccepted(m) == m.accepted = Accepted(m, Rows(m.items))

Filtered(m) == Synced(m) /\ (m.proxy => AllAccepted(m))

LEMMA FilterUpdated ==
  ASSUME NEW m, Sound(m), Filtered(m), NEW all, DataTyped(all), NEW n \in DOMAIN all,
         InPlace(m.items, ToldName(n)),
         DOMAIN m.items = {} \/ (Told(all, n) => RolesOf(ToldList(all, n)) \subseteq m.roles)
  PROVE  Filtered(DataUpdated(m, all, n))
  <1> DEFINE f == DataUpdated(m, all, n)
  <1>1. CASE ~Told(all, n)
    BY <1>1, DataUpdatedIs
  <1>2. CASE Told(all, n)
    <2> DEFINE name == ToldName(n)  list == ToldList(all, n)
               first == DOMAIN m.items = {}
               V == SomeRows
               R == Rows(m.items)  R2 == Rows(f.items)
    <2>1. f = SetItems(m, name, list)
      BY <1>2, DataUpdatedIs
    <2>2. name \in 0..LastName /\ list \in Seq(V)
      BY ToldTyped
    <2>3. DOMAIN m = ModelFields /\ Typed(m.items, V) /\ InPlace(m.items, name)
      BY DEF Sound
    <2>4. Synced(m) /\ (first \/ RolesOf(list) \subseteq m.roles)
      BY <1>2 DEF Filtered
    <2> HIDE DEF f, name, list, V
    <2>5. Len(list) \in Nat /\ Len(ItemsOf(m.items, name)) \in Nat
      BY <2>2, <2>3, ItemsOfTyped
    <2> DEFINE a == SourceIndex(m.items, name)  o == Len(ItemsOf(m.items, name))  l == Len(list)
    <2>6. /\ f.items = Put(m.items, name, list)
          /\ f.roles = m.roles \union RolesOf(list)
      BY <2>1, <2>3, <2>5, SetItemsEffect
    <2>7. first \/ f.roles = m.roles
      BY <2>4, <2>6
    <2>8. Synced(f) /\ f.accepted = Relisted(first, m.accepted, Accepted(f, R2), a, o, l)
      BY <2>1, <2>3, <2>4, <2>5, <2>7, SetItemsEffect
    <2>9. Same(f, m, {"items", "roles", "view", "viewRoles"} \union ByProxy)
      BY <2>1, <2>3, <2>5, SetItemsEffect
    <2>10. f.proxy = m.proxy
      BY <2>9 DEF Same, ByProxy, ModelFields
    <2>11. f.filter = m.filter /\ f.filterRole = m.filterRole
      BY <2>9 DEF Same, ByProxy, ModelFields
    <2>12. Typed(f.items, V)
      BY <2>2, <2>3, <2>6, PutItems
    <2>13. R \in Seq(V) /\ R2 \in Seq(V)
      BY <2>3, <2>12, RowsTyped
    <2> DEFINE F == Accepts(f)
    <2>14. Accepted(f, R) = Shown(F, R) /\ Accepted(f, R2) = Shown(F, R2)
      BY <2>13, AcceptedShown DEF V
    <2> HIDE DEF F, a, o, l, R, R2
    <2>15. Relisted(first, Shown(F, R), Shown(F, R2), a, o, l) = Shown(F, R2)
      <3>1. LET Q == Rows(m.items)
                Q2 == Rows(Put(m.items, name, list))
            IN  Relisted(DOMAIN m.items = {}, Shown(F, Q), Shown(F, Q2), SourceIndex(m.items, name),
                         Len(ItemsOf(m.items, name)), Len(list)) = Shown(F, Q2)
        BY <2>2, <2>3, RelistedShows
      <3> QED
        BY <2>6, <3>1 DEF a, o, l, R, R2
    <2>16. ASSUME f.proxy PROVE f.accepted = Accepted(f, R2)
      <3>1. CASE first
        <4>1. \A x, y : Relisted(first, x, Shown(F, R2), a, o, l) = Relisted(first, y, Shown(F, R2), a, o, l)
          BY <3>1 DEF Relisted
        <4> HIDE DEF first
        <4> QED
          BY <2>8, <2>14, <2>15, <4>1
      <3>2. CASE ~first
        <4>1. m.proxy
          BY <2>10, <2>16
        <4>2. AllAccepted(m)
          BY <4>1 DEF Filtered
        <4>3. m.roleIds = m.roles /\ m.roleId = RoleNameToId(m, m.filterRole)
          BY <2>4, <4>1 DEF Synced
        <4>4. f.roleIds = f.roles /\ f.roleId = RoleNameToId(f, f.filterRole)
          BY <2>8, <2>16 DEF Synced
        <4>5. f.roleId = m.roleId
          BY <2>7, <2>11, <3>2, <4>3, <4>4 DEF RoleNameToId
        <4>6. Accepted(f, R) = Accepted(m, R)
          <5>1. FilteredRole(f) = f.roleId /\ FilteredRole(m) = m.roleId
            BY <4>3, <4>4, FilteredBySynced
          <5> QED
            BY <2>11, <4>5, <5>1, AcceptedSame
        <4>7. m.accepted = Shown(F, R)
          BY <2>14, <4>2, <4>6 DEF AllAccepted, R
        <4> HIDE DEF first
        <4> QED
          BY <2>8, <2>14, <2>15, <4>7
      <3> QED
        BY <3>1, <3>2
    <2>17. f.proxy => AllAccepted(f)
      BY <2>16 DEF AllAccepted, R2
    <2>18. Filtered(f)
      BY <2>8, <2>17 DEF Filtered
    <2> QED
      BY <2>18 DEF f
  <1> QED
    BY <1>1, <1>2

LEMMA FilterRemoved ==
  ASSUME NEW m, Sound(m), Filtered(m), NEW n \in Names
  PROVE  Filtered(RemoveSource(m, n))
  <1> DEFINE f == RemoveSource(m, n)  V == SomeRows  F == Accepts(m)
             R == Rows(m.items)  R2 == Rows(f.items)
  <1>1. Sound(f) /\ \E a \in Nat, own \in Seq(V) : Removed(m, f, a, own)
    BY SoundRemoved
  <1> HIDE DEF f
  <1>2. Typed(m.items, V) /\ Typed(f.items, V)
    BY <1>1 DEF Sound
  <1> HIDE DEF V
  <1>3. R \in Seq(V) /\ R2 \in Seq(V)
    BY <1>2, RowsTyped
  <1>4. Accepted(m, R) = Shown(F, R) /\ Accepted(m, R2) = Shown(F, R2)
    BY <1>3, AcceptedShown DEF V
  <1>5. PICK a \in Nat, own \in Seq(V) : Removed(m, f, a, own)
    BY <1>1
  <1>6. Synced(m)
    BY DEF Filtered
  <1>7. /\ Replaced(R, R2, a, own, <<>>) /\ Same(f, m, {"items", "view", "accepted"})
        /\ f.accepted = Resized(m.accepted, <<>>, a, Len(own), 0)
    BY <1>5, <1>6 DEF Removed
  <1> HIDE DEF R, R2, F
  <1>8. Resized(Shown(F, R), <<>>, a, Len(own), 0) = Shown(F, R2)
    BY <1>3, <1>7, RemovedShows
  <1>9. Same(f, m, {"items", "view", "viewRoles", "accepted"})
    BY <1>7 DEF Same
  <1>10. Synced(f)
    BY <1>6, <1>9, SyncedSame
  <1>11. f.roleId = m.roleId /\ f.filter = m.filter
    BY <1>7 DEF Same, ModelFields
  <1>12. f.proxy = m.proxy
    BY <1>7 DEF Same, ModelFields
  <1>13. Accepted(f, R2) = Accepted(m, R2)
    <2>1. FilteredRole(f) = f.roleId /\ FilteredRole(m) = m.roleId
      BY <1>6, <1>10, FilteredBySynced DEF Synced
    <2> QED
      BY <1>11, <2>1, AcceptedSame
  <1>14. ASSUME f.proxy PROVE AllAccepted(f)
    <2>1. AllAccepted(m)
      BY <1>12, <1>14 DEF Filtered
    <2>2. m.accepted = Accepted(m, R)
      BY <2>1 DEF AllAccepted, R
    <2>3. f.accepted = Accepted(f, R2)
      BY <1>4, <1>7, <1>8, <1>13, <2>2
    <2> QED
      BY <2>3 DEF AllAccepted, R2
  <1> QED
    BY <1>10, <1>14 DEF Filtered, f

LEMMA FilterRead ==
  ASSUME NEW m, Sound(m), RolesKnown(m), Filtered(m), DOMAIN m.items = {}, NEW all, DataTyped(all),
         EarlierHaveRoles(all)
  PROVE  Filtered(DataRead(m, all)[LastName])
  <1> DEFINE F == DataRead(m, all)
             S == {k \in Nat : k <= LastName => Filtered(F[k])}
  <1>1. F[0] = m /\ \A n \in 1..LastName : F[n] = IF n \in DOMAIN all THEN DataUpdated(F[n - 1], all, n) ELSE F[n - 1]
    BY DataReadFit
  <1>2. LastName \in Nat
    BY LastNameIsNat
  <1>3. /\ \A k \in 0..LastName : Sound(F[k])
        /\ \A k \in 1..LastName : InPlace(F[k - 1].items, ToldName(k))
    BY SoundRead
  <1>4. \A k \in 1..LastName : \/ DOMAIN F[k - 1].items = {}
                               \/ k \in DOMAIN all /\ Told(all, k) =>
                                    RolesOf(ToldList(all, k)) \subseteq F[k - 1].roles
    BY RolesReadAll
  <1> HIDE DEF F
  <1>5. 0 \in S
    BY <1>1
  <1>6. ASSUME NEW k \in Nat, k \in S PROVE k + 1 \in S
    <2>1. ASSUME k + 1 <= LastName PROVE Filtered(F[k + 1])
      <3> DEFINE n == k + 1  p == F[k]
      <3>1. n \in 1..LastName /\ n - 1 = k /\ k \in 0..LastName /\ k <= LastName
        BY <1>2, <2>1
      <3>2. Sound(p) /\ InPlace(p.items, ToldName(n)) /\ Filtered(p)
        BY <1>3, <1>6, <3>1
      <3>3. F[n] = IF n \in DOMAIN all THEN DataUpdated(p, all, n) ELSE p
        BY <1>1, <3>1
      <3>4. \/ DOMAIN p.items = {}
            \/ n \in DOMAIN all /\ Told(all, n) => RolesOf(ToldList(all, n)) \subseteq p.roles
        BY <1>4, <3>1
      <3> HIDE DEF n, p
      <3>5. n \in DOMAIN all => Filtered(DataUpdated(p, all, n))
        BY <3>2, <3>4, FilterUpdated
      <3>6. Filtered(F[n])
        BY <3>2, <3>3, <3>5
      <3> QED
        BY <3>6 DEF n
    <2> QED
      BY <2>1
  <1>7. \A k \in Nat : k \in S
    <2> HIDE DEF S
    <2> QED
      BY <1>5, <1>6, Induction
  <1>8. LastName <= LastName
    BY <1>2
  <1>9. Filtered(F[LastName])
    BY <1>2, <1>7, <1>8
  <1> QED
    BY <1>9 DEF F

\* What the proxy is told leaves it right.
LEMMA FilterActionRight ==
  ASSUME DOMAIN model = ModelFields, Filtered(model), FilterAction, RoleBeforeRows, RoleBeforeCallback
  PROVE  Filtered(model')
  <1>0. Synced(model) /\ (model.proxy => AllAccepted(model))
    BY DEF Filtered
  <1>1. ASSUME SetModel PROVE Filtered(model')
    <2> DEFINE n == [model EXCEPT !.proxy = TRUE]
               f == SyncRoleNames(n)
               g == [f EXCEPT !.accepted = Accepted(f, Rows(f.items))]
    <2>1. model' = g
      BY <1>1 DEF SetModel
    <2>2. DOMAIN n = ModelFields
      BY DEF ModelFields
    <2> HIDE DEF n
    <2>3. Same(f, n, ByProxy) /\ f.roleIds = n.roles /\ f.roleId = RoleNameToId(f, f.filterRole)
      BY <2>2, SyncEffect
    <2>4. f.roles = n.roles
      BY <2>3 DEF Same, ByProxy, ModelFields
    <2>5. Synced(f)
      BY <2>3, <2>4 DEF Synced
    <2> HIDE DEF f
    <2>6. Same(g, f, {"accepted"}) /\ g.accepted = Accepted(f, Rows(f.items))
      BY <2>3 DEF Same, ModelFields
    <2> HIDE DEF g
    <2>7. Same(g, f, {"items", "view", "viewRoles", "accepted"})
      BY <2>6 DEF Same
    <2>8. Synced(g)
      BY <2>5, <2>7, SyncedSame
    <2>9. g.roleId = f.roleId /\ g.filter = f.filter /\ g.items = f.items
      BY <2>6 DEF Same, ModelFields
    <2>10. AllAccepted(g)
      <3>1. FilteredRole(g) = g.roleId /\ FilteredRole(f) = f.roleId
        BY <2>5, <2>8, FilteredBySynced DEF Synced
      <3>2. Accepted(g, Rows(g.items)) = Accepted(f, Rows(f.items))
        BY <2>9, <3>1, AcceptedSame
      <3> QED
        BY <2>6, <3>2 DEF AllAccepted
    <2> QED
      BY <2>1, <2>8, <2>10 DEF Filtered
  <1>2. ASSUME NEW role \in Roles, FilterBy(role) PROVE Filtered(model')
    <2> DEFINE f == SetFilterRole(model, role)
               early == ~model.proxy \/ Rows(model.items) = <<>>
    <2>0. early
      BY <1>2 DEF FilterBy
    <2>2. /\ Same(f, model, {"filterRole", "roleId", "accepted"})
          /\ f.filterRole = role
          /\ f.roleId = RoleNameToId(model, role)
          /\ f.roleId = model.roleId => f.accepted = model.accepted
          /\ f.roleId # model.roleId /\ Rows(model.items) = <<>> => f.accepted = Accepted(f, Rows(f.items))
      BY SetFilterRoleEffect
    <2>1. model' = f
      <3>1. (model.proxy /\ f.accepted # model.accepted) \/ model' = f
        BY <1>2 DEF FilterBy
      <3>2. ASSUME model.proxy PROVE f.accepted = model.accepted
        <4>1. Rows(model.items) = <<>> /\ model.accepted = Accepted(model, Rows(model.items))
          BY <1>0, <2>0, <3>2 DEF AllAccepted
        <4>2. f.items = model.items
          BY <2>2 DEF Same, ModelFields
        <4>3. Accepted(f, Rows(f.items)) = Accepted(model, Rows(model.items))
          BY <4>1, <4>2, NoneAccepted
        <4> QED
          BY <2>2, <4>1, <4>3
      <3> QED
        BY <3>1, <3>2
    <2> HIDE DEF f
    <2>3. f.roleIds = model.roleIds /\ f.roles = model.roles /\ f.filter = model.filter /\ f.items = model.items
      BY <2>2 DEF Same, ModelFields
    <2>4. f.proxy = model.proxy
      BY <2>2 DEF Same, ModelFields
    <2>5. f.roleId = RoleNameToId(f, f.filterRole)
      BY <2>2, <2>3 DEF RoleNameToId
    <2>6. model.proxy => model.roleIds = model.roles
      BY <1>0 DEF Synced
    <2>7. f.proxy => f.roleIds = f.roles
      BY <2>3, <2>4, <2>6
    <2>8. Synced(f)
      BY <2>5, <2>7 DEF Synced
    <2>9. ASSUME f.proxy PROVE AllAccepted(f)
      <3>1. AllAccepted(model)
        BY <1>0, <2>4, <2>9
      <3>4. Rows(model.items) = <<>>
        BY <2>0, <2>4, <2>9
      <3>2. CASE f.roleId = model.roleId
        <4>1. Accepted(f, Rows(f.items)) = Accepted(model, Rows(model.items))
          BY <2>3, <3>4, NoneAccepted
        <4> QED
          BY <2>2, <3>1, <3>2, <4>1 DEF AllAccepted
      <3>3. CASE f.roleId # model.roleId
        BY <2>2, <3>3, <3>4 DEF AllAccepted
      <3> QED
        BY <3>2, <3>3
    <2> QED
      BY <2>1, <2>8, <2>9 DEF Filtered
  <1>3. ASSUME NEW filter \in Filters, NEW callback \in BOOLEAN, SetFilter(filter, callback)
        PROVE  Filtered(model')
    <2> DEFINE n == [model EXCEPT !.filter = filter, !.callback = callback]
               g == [n EXCEPT !.accepted = Accepted(n, Rows(n.items))]
               f == Counted(g, g.accepted # model.accepted)
    <2>1. model' = f
      BY <1>3 DEF SetFilter
    <2>2. Same(n, model, {"filter", "callback"})
      BY DEF Same, ModelFields
    <2> HIDE DEF n
    <2>3. Same(g, n, {"accepted"}) /\ g.accepted = Accepted(n, Rows(n.items))
      BY <2>2 DEF Same, ModelFields
    <2> HIDE DEF g
    <2>4. /\ g.filter = n.filter /\ g.items = n.items
          /\ g.roleIds = model.roleIds /\ g.roles = model.roles /\ g.roleId = model.roleId
          /\ g.filterRole = model.filterRole
          /\ n.roleIds = model.roleIds /\ n.roleId = model.roleId /\ n.filterRole = model.filterRole
      BY <2>2, <2>3 DEF Same, ModelFields
    <2>5. g.proxy = model.proxy
      BY <2>2, <2>3 DEF Same, ModelFields
    <2>7. Synced(g)
      BY <1>0, <2>4, <2>5 DEF Synced, RoleNameToId
    <2>6. AllAccepted(g)
      <3>1. n.roleId = RoleNameToId(n, n.filterRole)
        BY <1>0, <2>4 DEF Synced, RoleNameToId
      <3>2. FilteredRole(g) = g.roleId /\ FilteredRole(n) = n.roleId
        BY <2>7, <3>1, FilteredBySynced DEF Synced
      <3>3. Accepted(g, Rows(g.items)) = Accepted(n, Rows(n.items))
        BY <2>4, <3>2, AcceptedSame
      <3> QED
        BY <2>3, <3>3 DEF AllAccepted
    <2>8. DOMAIN g = ModelFields
      BY <2>3 DEF Same
    <2>9. Same(f, g, {})
      BY <2>7, <2>8, CountedEffect
    <2>10. Filtered(f)
      <3>1. Same(f, g, {"items", "view", "viewRoles", "accepted"})
        BY <2>9 DEF Same
      <3>2. Synced(f)
        BY <2>7, <3>1, SyncedSame
      <3>3. /\ f.accepted = g.accepted /\ f.items = g.items /\ f.filter = g.filter
            /\ f.roleId = g.roleId
        BY <2>9 DEF Same, ModelFields
      <3>4. FilteredRole(f) = f.roleId /\ FilteredRole(g) = g.roleId
        BY <2>7, <3>2, FilteredBySynced DEF Synced
      <3>5. Accepted(f, Rows(f.items)) = Accepted(g, Rows(g.items))
        BY <3>3, <3>4, AcceptedSame
      <3> QED
        BY <2>6, <3>2, <3>3, <3>5 DEF Filtered, AllAccepted
    <2> QED
      BY <2>1, <2>10
  <1> QED
    BY <1>1, <1>2, <1>3 DEF FilterAction

FilterInv == Filtered(model)

LEMMA FilterStays ==
  ASSUME Base, NamesInOrder, RolesAtFirst, RoleBeforeRows, RoleBeforeCallback, RolesInv, FilterInv,
         [Next]_vars
  PROVE  FilterInv'
  <1>0. /\ Sound(model) /\ DataTyped(shown) /\ (~dataSource => DOMAIN model.items = {})
        /\ DOMAIN model = ModelFields /\ RolesKnown(model) /\ Filtered(model)
    BY DEF Base, Sound, RolesInv, FilterInv
  <1> SUFFICES Filtered(model')
    BY DEF FilterInv, Filtered, Synced, AllAccepted
  <1>1. CASE model' = model
    BY <1>0, <1>1
  <1>2. ASSUME NEW n \in Names, NEW d \in Contents, NewData(n, d) PROVE Filtered(model')
    <2>1. DataTyped(shown') /\ n \in DOMAIN shown'
      BY <1>0, <1>2, NewDataEffect
    <2>2. /\ model' = IF dataSource THEN DataUpdated(model, shown', n) ELSE model
          /\ n \in sourceFilter => Orderly(n, d)
      BY <1>2 DEF NewData
    <2>3. CASE n \notin sourceFilter \/ ~dataSource
      <3>1. model' = model
        BY <2>2, <2>3, DataUpdatedIs DEF Told
      <3> QED
        BY <1>0, <3>1
    <2>4. CASE n \in sourceFilter /\ dataSource
      <3>1. InPlace(model.items, ToldName(n))
        BY <1>0, <2>2, <2>4, OrderlyInPlace
      <3>2. DOMAIN model.items = {} \/ (Told(shown', n) => RolesOf(ToldList(shown', n)) \subseteq model.roles)
        BY <1>2, <2>4, RolesOfNewData
      <3>3. Filtered(DataUpdated(model, shown', n))
        BY <1>0, <2>1, <3>1, <3>2, FilterUpdated
      <3> QED
        BY <2>2, <2>4, <3>3
    <2> QED
      BY <2>3, <2>4
  <1>3. ASSUME NEW n \in Names, DropStep(n) PROVE Filtered(model')
    <2>1. model' = IF dataSource THEN RemoveSource(model, n) ELSE model
      BY <1>3 DEF DropStep, ToldRemoved
    <2>2. Filtered(RemoveSource(model, n))
      BY <1>0, FilterRemoved
    <2> QED
      BY <1>0, <2>1, <2>2
  <1>4. CASE SetDataSource
    <2>1. ~dataSource /\ model' = DataRead(model, shown)[LastName]
      BY <1>4 DEF SetDataSource
    <2>2. EarlierHaveRoles(shown)
      BY <1>4, EarlierRolesAtFirst
    <2>3. Filtered(DataRead(model, shown)[LastName])
      BY <1>0, <2>1, <2>2, FilterRead
    <2> QED
      BY <2>1, <2>3
  <1>5. CASE FilterAction
    BY <1>0, <1>5, FilterActionRight
  <1> QED
    BY <1>0, <1>1, <1>2, <1>3, <1>4, <1>5, Steps DEF FilterStep

\* A proxy accepts the rows whose value of its role fits its filter or callback, and no
\* others, as sources, rows and roles come and go (syncRoleNames, filterAcceptsRow): when
\* sources come in the order of their names, the first rows have all the roles, and the
\* role is set before there are rows to filter (setFilterRole).
THEOREM FilterIsRight ==
  NamesInOrder /\ RolesAtFirst /\ RoleBeforeRows /\ RoleBeforeCallback => (Spec => []FilterRight)
  <1> SUFFICES ASSUME NamesInOrder, RolesAtFirst, RoleBeforeRows, RoleBeforeCallback
               PROVE  Spec => []FilterRight
    OBVIOUS
  <1>1. Init => FilterInv
    <2> SUFFICES ASSUME Init PROVE FilterInv
      OBVIOUS
    <2>1. ~model.proxy
      BY DEF Init
    <2>2. model.roleId = DisplayRole /\ model.roleIds = {}
      BY DEF Init
    <2>3. Synced(model)
      BY <2>1, <2>2 DEF Synced, RoleNameToId
    <2> QED
      BY <2>1, <2>3 DEF FilterInv, Filtered
  <1>2. Base /\ RolesInv /\ FilterInv /\ [Next]_vars => FilterInv'
    BY FilterStays
  <1>3. Base /\ RolesInv /\ FilterInv => FilterRight
    <2>0. SUFFICES ASSUME Base, RolesInv, FilterInv, model.proxy
                   PROVE  model.accepted = [i \in DOMAIN Rows(model.items) |->
                          Value(Rows(model.items)[i], model.filterRole) \in model.filter]
      BY DEF FilterRight
    <2> DEFINE R == Rows(model.items)  V == RowsOver(model.roles)
    <2>1. Typed(model.items, V)
      BY <2>0 DEF RolesInv, RolesKnown
    <2> HIDE DEF V
    <2>2. R \in Seq(V)
      BY <2>1, RowsTyped
    <2> HIDE DEF R
    <2>3. \A i \in DOMAIN R : R[i] \in V
      BY <2>2
    <2>4. \A i \in DOMAIN R : R[i].item \in Items /\ DOMAIN R[i].item \subseteq model.roles
      BY <2>3 DEF V, RowsOver
    <2>5. Synced(model) /\ AllAccepted(model)
      BY <2>0 DEF FilterInv, Filtered
    <2>6. model.roleIds = model.roles /\ model.roleId = RoleNameToId(model, model.filterRole)
      BY <2>0, <2>5 DEF Synced
    <2>7. \A i \in DOMAIN R : DisplayRole \notin DOMAIN R[i].item
      <3>1. \A item \in Items : DOMAIN item \subseteq Roles
        BY DEF Items
      <3> QED
        BY <2>4, <3>1, DataAssumed
    <2>8. \A i \in DOMAIN R : Value(R[i], model.roleId) = Value(R[i], model.filterRole)
      <3>1. CASE model.filterRole \in model.roles
        BY <2>6, <3>1 DEF RoleNameToId
      <3>2. CASE model.filterRole \notin model.roles
        <4>1. model.roleId = DisplayRole
          BY <2>6, <3>2 DEF RoleNameToId
        <4>2. \A i \in DOMAIN R : model.filterRole \notin DOMAIN R[i].item
          BY <2>4, <3>2
        <4> HIDE DEF DisplayRole
        <4> QED
          BY <2>7, <4>1, <4>2, Zenon DEF Value
      <3> QED
        BY <3>1, <3>2
    <2>9. model.accepted = [i \in DOMAIN R |-> Value(R[i], model.roleId) \in model.filter]
      <3>1. FilteredRole(model) = model.roleId
        BY <2>6, FilteredBySynced
      <3> QED
        BY <2>5, <3>1, Zenon DEF AllAccepted, Accepted, R
    <2>10. [i \in DOMAIN R |-> Value(R[i], model.roleId) \in model.filter]
             = [i \in DOMAIN R |-> Value(R[i], model.filterRole) \in model.filter]
      BY <2>8, Zenon
    <2> QED
      BY <2>9, <2>10, Zenon DEF R
  <1> QED
    BY <1>1, <1>2, <1>3, BaseHolds, RolesInvHolds, PTL DEF Spec

-----------------------------------------------------------------------------
(* The rows are what the connected sources say. *)

Valid == keyRoleFilter = "valid"

\* The list has a row for each source that has data, in the order of their names, and no others.
OneRowEach(list, all) ==
    /\ \A i \in 1..Len(list) : \E n \in Sourced(all) : list[i] = Row(n, all[n].item)
    /\ \A n \in Sourced(all) : \E i \in 1..Len(list) : list[i] = Row(n, all[n].item)
    /\ \A i, j \in 1..Len(list) : i < j => list[i].source < list[j].source

\* Each list is that of its source.
ListEach(items, all) ==
    \A n \in Names : ItemsOf(items, n) = IF n \in Sourced(all) THEN KeyRoleRows(n, all[n]) ELSE <<>>

ItemsCurrent(items, all) ==
    /\ AsItems => OneRowEach(ItemsOf(items, AllItems), all)
    /\ Valid => ListEach(items, all)

LEMMA ValidHasLists == Valid => ~AsItems
  BY Zenon DEF Valid, AsItems

LEMMA ClearedRows ==
  ASSUME NEW n
  PROVE  KeyRoleRows(n, Cleared) = <<>>
  <1>1. Cleared.list = NoList /\ Cleared.matching = <<>>
    BY DEF Cleared
  <1>2. KeyRoleRows(n, Cleared) = [i \in DOMAIN <<>> |-> Row(n, <<>>[i])]
    BY <1>1 DEF KeyRoleRows
  <1>3. DOMAIN <<>> = {}
    OBVIOUS
  <1> QED
    BY <1>2, <1>3

LEMMA ItemsUpdated ==
  ASSUME NEW m, Sound(m), NEW all, DataTyped(all), NEW n \in DOMAIN all
  PROVE  /\ Told(all, n) =>
              /\ ItemsOf(DataUpdated(m, all, n).items, ToldName(n)) = ToldList(all, n)
              /\ \A o : o # ToldName(n) => ItemsOf(DataUpdated(m, all, n).items, o) = ItemsOf(m.items, o)
         /\ ~Told(all, n) => DataUpdated(m, all, n) = m
  <1>1. CASE ~Told(all, n)
    BY <1>1, DataUpdatedIs
  <1>2. CASE Told(all, n)
    <2> DEFINE f == DataUpdated(m, all, n)  name == ToldName(n)  list == ToldList(all, n)
    <2>1. f = SetItems(m, name, list)
      BY <1>2, DataUpdatedIs
    <2>2. name \in 0..LastName /\ list \in Seq(SomeRows)
      BY ToldTyped
    <2>3. DOMAIN m = ModelFields /\ Typed(m.items, SomeRows)
      BY DEF Sound
    <2> HIDE DEF f, name, list
    <2>4. Len(list) \in Nat /\ Len(ItemsOf(m.items, name)) \in Nat
      BY <2>2, <2>3, ItemsOfTyped
    <2>5. f.items = Put(m.items, name, list)
      BY <2>1, <2>3, <2>4, SetItemsEffect
    <2>6. ItemsOf(f.items, name) = list /\ \A o : o # name => ItemsOf(f.items, o) = ItemsOf(m.items, o)
      BY <2>2, <2>3, <2>5, PutItems
    <2> QED
      BY <1>2, <2>6 DEF f, name, list
  <1> QED
    BY <1>1, <1>2

LEMMA SourceRowsEach ==
  ASSUME NEW all, DataTyped(all)
  PROVE  OneRowEach(SourceRows(all), all)
  <1> DEFINE R == SourceRows(all)
  <1>1. /\ R \in Seq([source : Names, item : {all[n].item : n \in Sourced(all)}])
        /\ \A i \in DOMAIN R : \E n \in Sourced(all) : R[i] = Row(n, all[n].item)
        /\ \A n \in Sourced(all) : \E i \in DOMAIN R : R[i] = Row(n, all[n].item)
        /\ \A i, j \in DOMAIN R : i < j => R[i].source < R[j].source
    BY SourceRowsFit
  <1> HIDE DEF R
  <1>2. DOMAIN R = 1..Len(R)
    BY <1>1
  <1>3. OneRowEach(R, all)
    BY <1>1, <1>2 DEF OneRowEach
  <1> QED
    BY <1>3 DEF R

\* The data of a source that is not told of may be other ones.
LEMMA CurrentSame ==
  ASSUME NEW items, NEW all, NEW all2, ItemsCurrent(items, all),
         Sourced(all2) = Sourced(all), \A o \in Sourced(all) : all2[o] = all[o]
  PROVE  ItemsCurrent(items, all2)
  <1>1. AsItems => OneRowEach(ItemsOf(items, AllItems), all2)
    BY DEF ItemsCurrent, OneRowEach
  <1>2. Valid => ListEach(items, all2)
    BY DEF ItemsCurrent, ListEach
  <1> QED
    BY <1>1, <1>2 DEF ItemsCurrent

\* New data of one source
LEMMA CurrentUpdated ==
  ASSUME NEW m, Sound(m), NEW all, NEW all2, ItemsCurrent(m.items, all), DataTyped(all2),
         NEW n \in DOMAIN all2, DOMAIN all \subseteq DOMAIN all2,
         \A o \in DOMAIN all2 : o # n => o \in DOMAIN all /\ all2[o] = all[o]
  PROVE  ItemsCurrent(DataUpdated(m, all2, n).items, all2)
  <1> DEFINE f == DataUpdated(m, all2, n)
  <1>1. /\ Told(all2, n) => /\ ItemsOf(f.items, ToldName(n)) = ToldList(all2, n)
                            /\ \A o : o # ToldName(n) => ItemsOf(f.items, o) = ItemsOf(m.items, o)
        /\ ~Told(all2, n) => f = m
    BY ItemsUpdated
  <1> HIDE DEF f
  <1>2. CASE n \notin sourceFilter
    <2>1. f = m
      BY <1>1, <1>2 DEF Told
    <2>2. Sourced(all2) = Sourced(all) /\ \A o \in Sourced(all) : all2[o] = all[o]
      BY <1>2 DEF Sourced
    <2>3. ItemsCurrent(m.items, all2)
      BY <2>2, CurrentSame
    <2> QED
      BY <2>1, <2>3 DEF f
  <1>3. CASE n \in sourceFilter
    <2>1. AsItems => OneRowEach(ItemsOf(f.items, AllItems), all2)
      <3> SUFFICES ASSUME AsItems PROVE OneRowEach(ItemsOf(f.items, AllItems), all2)
        OBVIOUS
      <3>1. ItemsOf(f.items, AllItems) = SourceRows(all2)
        BY <1>1, <1>3 DEF Told, ToldName, ToldList
      <3> QED
        BY <3>1, SourceRowsEach
    <2>2. Valid => ListEach(f.items, all2)
      <3> SUFFICES ASSUME Valid, NEW o \in Names
                   PROVE  ItemsOf(f.items, o) = IF o \in Sourced(all2) THEN KeyRoleRows(o, all2[o]) ELSE <<>>
        BY DEF ListEach
      <3>1. ~AsItems
        BY ValidHasLists
      <3>2. Told(all2, n)
        BY <1>3 DEF Told, Valid
      <3>3. ToldName(n) = n /\ ToldList(all2, n) = KeyRoleRows(n, all2[n])
        BY <3>1 DEF ToldName, ToldList
      <3>4. CASE o = n
        <4>1. n \notin Sourced(all2) => all2[n] = Cleared
          BY <1>3 DEF Sourced
        <4> QED
          BY <1>1, <3>2, <3>3, <3>4, <4>1, ClearedRows
      <3>5. CASE o # n
        <4>1. ItemsOf(f.items, o) = ItemsOf(m.items, o)
          BY <1>1, <3>2, <3>3, <3>5
        <4>2. ItemsOf(m.items, o) = IF o \in Sourced(all) THEN KeyRoleRows(o, all[o]) ELSE <<>>
          BY DEF ItemsCurrent, ListEach
        <4>3. (o \in Sourced(all2) <=> o \in Sourced(all)) /\ (o \in Sourced(all) => all2[o] = all[o])
          BY <3>5 DEF Sourced
        <4> QED
          BY <4>1, <4>2, <4>3
      <3> QED
        BY <3>4, <3>5
    <2>3. ItemsCurrent(f.items, all2)
      BY <2>1, <2>2 DEF ItemsCurrent
    <2> QED
      BY <2>3 DEF f
  <1> QED
    BY <1>2, <1>3

\* A source that has data no more
LEMMA CurrentRemoved ==
  ASSUME NEW m, Sound(m), NEW all, NEW all2, ItemsCurrent(m.items, all), DataTyped(all), NEW n \in Names,
         \A o : o \in Sourced(all2) <=> o \in Sourced(all) /\ o # n,
         \A o \in Sourced(all) : o # n => all2[o] = all[o]
  PROVE  ItemsCurrent(RemoveSource(m, n).items, all2)
  <1> DEFINE f == RemoveSource(m, n)
  <1>1. /\ ~AsItems => ListLost(m.items, f.items, n)
        /\ AsItems => ItemLost(m.items, f.items, n)
    BY SoundRemoved
  <1> HIDE DEF f
  <1>2. Valid => ListEach(f.items, all2)
    <2> SUFFICES ASSUME Valid, NEW o \in Names
                 PROVE  ItemsOf(f.items, o) = IF o \in Sourced(all2) THEN KeyRoleRows(o, all2[o]) ELSE <<>>
      BY DEF ListEach
    <2>1. ItemsOf(f.items, o) = IF o = n THEN <<>> ELSE ItemsOf(m.items, o)
      BY <1>1, ValidHasLists DEF ListLost
    <2>2. ItemsOf(m.items, o) = IF o \in Sourced(all) THEN KeyRoleRows(o, all[o]) ELSE <<>>
      BY DEF ItemsCurrent, ListEach
    <2> QED
      BY <2>1, <2>2
  <1>3. ASSUME AsItems PROVE OneRowEach(ItemsOf(f.items, AllItems), all2)
    <2> DEFINE list == ItemsOf(m.items, AllItems)  list2 == ItemsOf(f.items, AllItems)
    <2>1. OneRowEach(list, all)
      BY <1>3 DEF ItemsCurrent
    <2>2. list \in Seq(SomeRows)
      <3>1. Typed(m.items, SomeRows)
        BY DEF Sound
      <3> QED
        BY <3>1, ItemsOfTyped
    <2>3. \A o, item : Row(o, item).source = o
      BY DEF Row
    <2> HIDE DEF list, list2
    <2>4. Len(list) \in Nat /\ \A i \in 1..Len(list) : list[i] \in SomeRows
      BY <2>2
    <2>5. \A i \in 1..Len(list) : list[i].source \in Nat
      BY <2>4 DEF SomeRows, Names
    <2>6. \/ list2 = list /\ \A i \in 1..Len(list) : list[i].source # n
          \/ \E p \in 1..Len(list) : list[p].source = n /\ list2 = Cut(list, p - 1, p)
      BY <1>1, <1>3 DEF ItemLost, list, list2
    <2>7. CASE list2 = list /\ \A i \in 1..Len(list) : list[i].source # n
      <3>1. n \notin Sourced(all)
        BY <2>1, <2>3, <2>7 DEF OneRowEach
      <3>2. \A o \in Sourced(all) : o \in Sourced(all2) /\ all2[o] = all[o]
        BY <3>1
      <3>3. \A o \in Sourced(all2) : o \in Sourced(all) /\ all2[o] = all[o]
        BY <3>1
      <3>4. OneRowEach(list, all2)
        BY <2>1, <3>2, <3>3 DEF OneRowEach
      <3> QED
        BY <2>7, <3>4 DEF list2
    <2>8. ASSUME NEW p \in 1..Len(list), list[p].source = n, list2 = Cut(list, p - 1, p)
          PROVE  OneRowEach(list2, all2)
      <3> DEFINE at(i) == IF i < p THEN i ELSE i + 1
      <3>1. /\ Len(list2) = Len(list) - 1
            /\ \A i \in 1..Len(list) - 1 : list2[i] = IF i < p THEN list[i] ELSE list[i + 1]
        BY <2>2, <2>8, CutOne
      <3>2. \A i \in 1..Len(list2) : at(i) \in 1..Len(list) /\ at(i) # p /\ list2[i] = list[at(i)]
        BY <2>4, <3>1
      <3>3. \A i, j \in 1..Len(list2) : i < j => at(i) < at(j)
        BY <2>4, <3>1
      <3>4. \A i \in 1..Len(list) : i # p => \E j \in 1..Len(list2) : at(j) = i
        <4> TAKE i \in 1..Len(list)
        <4> HAVE i # p
        <4>1. CASE i < p
          <5>1. i \in 1..Len(list2) /\ at(i) = i
            BY <2>4, <3>1, <4>1
          <5> QED
            BY <5>1
        <4>2. CASE i > p
          <5>1. i - 1 \in 1..Len(list2) /\ at(i - 1) = i
            BY <2>4, <3>1, <4>2
          <5> QED
            BY <5>1
        <4> QED
          BY <4>1, <4>2
      <3> HIDE DEF at
      <3>5. \A i \in 1..Len(list) : i # p => list[i].source # n
        <4> TAKE i \in 1..Len(list)
        <4> HAVE i # p
        <4>1. i < p \/ p < i
          OBVIOUS
        <4>2. list[i].source < list[p].source \/ list[p].source < list[i].source
          BY <2>1, <4>1 DEF OneRowEach
        <4>3. list[i].source \in Nat /\ list[p].source \in Nat
          BY <2>5
        <4>4. list[i].source # list[p].source
          BY <4>2, <4>3
        <4> QED
          BY <2>8, <4>4
      <3>6. ASSUME NEW i \in 1..Len(list2)
            PROVE  \E o \in Sourced(all2) : list2[i] = Row(o, all2[o].item)
        <4>1. at(i) \in 1..Len(list) /\ at(i) # p /\ list2[i] = list[at(i)]
          BY <3>2
        <4>2. PICK o \in Sourced(all) : list[at(i)] = Row(o, all[o].item)
          BY <2>1, <4>1 DEF OneRowEach
        <4>3. list[at(i)].source # n
          BY <3>5, <4>1
        <4>4. o # n
          BY <2>3, <4>2, <4>3
        <4> QED
          BY <4>1, <4>2, <4>4
      <3>7. ASSUME NEW o \in Sourced(all2)
            PROVE  \E i \in 1..Len(list2) : list2[i] = Row(o, all2[o].item)
        <4>1. o \in Sourced(all) /\ o # n /\ all2[o] = all[o]
          OBVIOUS
        <4>2. PICK i \in 1..Len(list) : list[i] = Row(o, all[o].item)
          BY <2>1, <4>1 DEF OneRowEach
        <4>3. i # p
          BY <2>3, <2>8, <4>1, <4>2
        <4>4. PICK j \in 1..Len(list2) : at(j) = i
          BY <3>4, <4>3
        <4> QED
          BY <3>2, <4>1, <4>2, <4>4
      <3>8. ASSUME NEW i \in 1..Len(list2), NEW j \in 1..Len(list2), i < j
            PROVE  list2[i].source < list2[j].source
        <4>1. at(i) < at(j)
          BY <3>3, <3>8
        <4> QED
          BY <2>1, <3>2, <4>1 DEF OneRowEach
      <3> QED
        BY <3>6, <3>7, <3>8 DEF OneRowEach
    <2> QED
      BY <2>6, <2>7, <2>8 DEF list2
  <1> QED
    BY <1>2, <1>3 DEF ItemsCurrent, f

\* What was read up to each name: all of the items once one source was, or the lists so far
LEMMA CurrentRead ==
  ASSUME NEW m, Sound(m), DOMAIN m.items = {}, NEW all, DataTyped(all)
  PROVE  ItemsCurrent(DataRead(m, all)[LastName].items, all)
  <1> DEFINE F == DataRead(m, all)
             Some(k) == \E o \in DOMAIN all : o <= k /\ o \in sourceFilter
             Fine(p, k) ==
               /\ AsItems => /\ Some(k) => ItemsOf(p.items, AllItems) = SourceRows(all)
                             /\ ~Some(k) => ItemsOf(p.items, AllItems) = <<>>
               /\ Valid => \A o \in Names :
                    ItemsOf(p.items, o) = IF o <= k /\ o \in DOMAIN all /\ o \in sourceFilter
                                          THEN KeyRoleRows(o, all[o]) ELSE <<>>
             S == {k \in Nat : k <= LastName => Fine(F[k], k)}
  <1>1. F[0] = m /\ \A n \in 1..LastName : F[n] = IF n \in DOMAIN all THEN DataUpdated(F[n - 1], all, n) ELSE F[n - 1]
    BY DataReadFit
  <1>2. LastName \in Nat /\ DOMAIN all \subseteq 1..LastName /\ Names = 1..LastName
    BY LastNameIsNat DEF DataTyped, Names
  <1>3. \A k \in 0..LastName : Sound(F[k])
    BY SoundRead
  <1> HIDE DEF F
  <1>4. 0 \in S
    <2>1. \A o \in 1..LastName : ~(o <= 0)
      BY <1>2
    <2>2. \A o : ItemsOf(m.items, o) = <<>>
      BY DEF ItemsOf
    <2> QED
      BY <1>1, <1>2, <2>1, <2>2
  <1>5. ASSUME NEW k \in Nat, k \in S PROVE k + 1 \in S
    <2>1. ASSUME k + 1 <= LastName PROVE Fine(F[k + 1], k + 1)
      <3> DEFINE n == k + 1  p == F[k]
      <3>1. n \in 1..LastName /\ n - 1 = k /\ k \in 0..LastName /\ k <= LastName
        BY <1>2, <2>1
      <3>2. Sound(p) /\ Fine(p, k)
        BY <1>3, <1>5, <3>1
      <3>3. F[n] = IF n \in DOMAIN all THEN DataUpdated(p, all, n) ELSE p
        BY <1>1, <3>1
      <3>4. n \in Names /\ ~(n <= k) /\ n <= n /\ \A o \in 1..LastName : o <= n <=> o <= k \/ o = n
        BY <1>2, <3>1
      <3> HIDE DEF n, p
      <3>5. CASE ~(n \in DOMAIN all /\ n \in sourceFilter)
        <4>1. F[n] = p
          BY <3>3, <3>5, DataUpdatedIs DEF Told
        <4>2. Some(n) <=> Some(k)
          BY <1>2, <3>4, <3>5
        <4>3. \A o \in Names : o <= n /\ o \in DOMAIN all /\ o \in sourceFilter
                           <=> o <= k /\ o \in DOMAIN all /\ o \in sourceFilter
          BY <1>2, <3>4, <3>5
        <4> HIDE DEF Some
        <4>4. Fine(p, n)
          BY <3>2, <4>2, <4>3
        <4> HIDE DEF Fine
        <4> QED
          BY <4>1, <4>4 DEF n
      <3>6. CASE n \in DOMAIN all /\ n \in sourceFilter
        <4> DEFINE f == DataUpdated(p, all, n)
        <4>1. F[n] = f
          BY <3>3, <3>6
        <4>2. Told(all, n) => /\ ItemsOf(f.items, ToldName(n)) = ToldList(all, n)
                              /\ \A o : o # ToldName(n) => ItemsOf(f.items, o) = ItemsOf(p.items, o)
          BY <3>2, <3>6, ItemsUpdated
        <4> HIDE DEF f
        <4>3. Some(n)
          BY <3>4, <3>6
        <4> HIDE DEF Some
        <4>4. AsItems => ItemsOf(f.items, AllItems) = SourceRows(all)
          BY <3>6, <4>2 DEF Told, ToldName, ToldList
        <4>5. ASSUME Valid, NEW o \in Names
              PROVE  ItemsOf(f.items, o) = IF o <= n /\ o \in DOMAIN all /\ o \in sourceFilter
                                           THEN KeyRoleRows(o, all[o]) ELSE <<>>
          <5>1. ~AsItems
            BY <4>5, ValidHasLists
          <5>2. Told(all, n)
            BY <3>6, <4>5 DEF Told, Valid
          <5>3. ToldName(n) = n /\ ToldList(all, n) = KeyRoleRows(n, all[n])
            BY <5>1 DEF ToldName, ToldList
          <5>4. CASE o = n
            BY <3>4, <3>6, <4>2, <5>2, <5>3, <5>4
          <5>5. CASE o # n
            <6>1. ItemsOf(f.items, o) = ItemsOf(p.items, o)
              BY <4>2, <5>2, <5>3, <5>5
            <6>2. o <= n <=> o <= k
              BY <1>2, <3>4, <5>5
            <6>3. ItemsOf(p.items, o) = IF o <= k /\ o \in DOMAIN all /\ o \in sourceFilter
                                        THEN KeyRoleRows(o, all[o]) ELSE <<>>
              BY <3>2, <4>5
            <6> QED
              BY <6>1, <6>2, <6>3
          <5> QED
            BY <5>4, <5>5
        <4>6. Fine(f, n)
          BY <4>3, <4>4, <4>5
        <4> HIDE DEF Fine
        <4> QED
          BY <4>1, <4>6 DEF n
      <3> QED
        BY <3>5, <3>6
    <2> HIDE DEF Fine
    <2> QED
      BY <2>1
  <1>6. \A k \in Nat : k \in S
    <2> HIDE DEF S
    <2> QED
      BY <1>4, <1>5, Induction
  <1> DEFINE items == F[LastName].items
  <1>7. Fine(F[LastName], LastName)
    <2>1. LastName <= LastName /\ LastName \in S
      BY <1>2, <1>6
    <2> HIDE DEF Fine
    <2> QED
      BY <2>1
  <1>8. \A o \in DOMAIN all : o <= LastName
    BY <1>2
  <1>9. ASSUME AsItems PROVE OneRowEach(ItemsOf(items, AllItems), all)
    <2>1. CASE Some(LastName)
      <3>1. ItemsOf(items, AllItems) = SourceRows(all)
        BY <1>7, <1>9, <2>1
      <3> QED
        BY <3>1, SourceRowsEach
    <2>2. CASE ~Some(LastName)
      <3>1. ItemsOf(items, AllItems) = <<>>
        BY <1>7, <1>9, <2>2
      <3>2. Sourced(all) = {}
        BY <1>8, <2>2 DEF Sourced
      <3> DEFINE none == <<>>
      <3>3. Len(none) = 0
        OBVIOUS
      <3> HIDE DEF none
      <3>4. 1..Len(none) = {}
        BY <3>3
      <3>5. OneRowEach(none, all)
        BY <3>2, <3>4 DEF OneRowEach
      <3> QED
        BY <3>1, <3>5 DEF none
    <2> QED
      BY <2>1, <2>2
  <1>10. ASSUME Valid PROVE ListEach(items, all)
    <2> SUFFICES ASSUME NEW o \in Names
                 PROVE  ItemsOf(items, o) = IF o \in Sourced(all) THEN KeyRoleRows(o, all[o]) ELSE <<>>
      BY DEF ListEach
    <2>1. ItemsOf(items, o) = IF o <= LastName /\ o \in DOMAIN all /\ o \in sourceFilter
                              THEN KeyRoleRows(o, all[o]) ELSE <<>>
      BY <1>7, <1>10
    <2>2. o \in Sourced(all) <=> o \in DOMAIN all /\ o \in sourceFilter /\ all[o] # Cleared
      BY DEF Sourced
    <2> QED
      BY <1>8, <2>1, <2>2, ClearedRows
  <1> QED
    BY <1>9, <1>10 DEF ItemsCurrent, F

LeftCleared == \A n \in DOMAIN shown : shown[n] # Cleared => n \in connected

CurrentInv == LeftCleared /\ (dataSource => ItemsCurrent(model.items, shown))

LEMMA CurrentStays ==
  ASSUME Base, ClearedWhenLeft, CurrentInv, [Next]_vars
  PROVE  CurrentInv'
  <1>0. /\ Sound(model) /\ DataTyped(shown) /\ (~dataSource => DOMAIN model.items = {})
        /\ DOMAIN model = ModelFields /\ connected \subseteq Names
        /\ LeftCleared /\ (dataSource => ItemsCurrent(model.items, shown))
    BY DEF Base, Sound, CurrentInv
  <1> DEFINE Kept == UNCHANGED <<keyRoleFilter, sourceFilter>>
  <1>1. ASSUME Kept, LeftCleared', dataSource' => ItemsCurrent(model'.items, shown')
        PROVE  CurrentInv'
    <2>1. AsItems' = AsItems
      BY <1>1, Zenon DEF AsItems
    <2>2. Valid' = Valid
      BY <1>1, Zenon DEF Valid
    <2>3. OneRowEach(ItemsOf(model'.items, AllItems), shown') => OneRowEach(ItemsOf(model.items, AllItems), shown)'
      BY <1>1 DEF OneRowEach, Sourced
    <2>4. ListEach(model'.items, shown') => ListEach(model.items, shown)'
      BY <1>1 DEF ListEach, Sourced
    <2>5. ItemsCurrent(model'.items, shown') => ItemsCurrent(model.items, shown)'
      BY <2>1, <2>2, <2>3, <2>4 DEF ItemsCurrent
    <2> QED
      BY <1>1, <2>5 DEF CurrentInv
  <1>2. CASE UNCHANGED <<shown, dataSource, keyRoleFilter, sourceFilter, model>>
             /\ \E n \in Names : connected' = connected \union {n}
    <2>1. LeftCleared'
      BY <1>0, <1>2 DEF LeftCleared
    <2> QED
      BY <1>0, <1>1, <1>2, <2>1
  <1>3. ASSUME NEW n \in Names, NEW d \in Contents, NewData(n, d) PROVE CurrentInv'
    <2>1. /\ DataTyped(shown') /\ n \in DOMAIN shown' /\ shown'[n] = d
          /\ \A o \in DOMAIN shown : o \in DOMAIN shown' /\ (o # n => shown'[o] = shown[o])
          /\ \A o \in DOMAIN shown' : o = n \/ o \in DOMAIN shown
      BY <1>0, <1>3, NewDataEffect
    <2>2. /\ Kept /\ dataSource' = dataSource /\ connected' = connected /\ n \in connected
          /\ model' = IF dataSource THEN DataUpdated(model, shown', n) ELSE model
      BY <1>3 DEF NewData, filters
    <2>3. LeftCleared'
      BY <1>0, <2>1, <2>2 DEF LeftCleared
    <2>4. dataSource => ItemsCurrent(DataUpdated(model, shown', n).items, shown')
      <3> DEFINE all == shown  all2 == shown'
      <3>1. /\ DOMAIN all \subseteq DOMAIN all2 /\ n \in DOMAIN all2 /\ DataTyped(all2)
            /\ \A o \in DOMAIN all2 : o # n => o \in DOMAIN all /\ all2[o] = all[o]
        BY <2>1
      <3> HIDE DEF all2
      <3>2. dataSource => ItemsCurrent(DataUpdated(model, all2, n).items, all2)
        BY <1>0, <3>1, CurrentUpdated
      <3> QED
        BY <3>2 DEF all2
    <2> QED
      BY <1>1, <2>2, <2>3, <2>4
  <1>4. ASSUME NEW n \in Names, DropStep(n) PROVE CurrentInv'
    <2>1. /\ Kept /\ dataSource' = dataSource /\ connected' = connected \ {n}
          /\ model' = IF dataSource THEN RemoveSource(model, n) ELSE model
      BY <1>4 DEF DropStep, ToldRemoved
    <2>2. /\ DOMAIN shown' = DOMAIN shown
          /\ \A o \in DOMAIN shown : o # n => shown'[o] = shown[o]
          /\ n \in DOMAIN shown => shown'[n] = Cleared
      BY <1>0, <1>4, DropStepEffect
    <2>3. LeftCleared'
      BY <1>0, <2>1, <2>2 DEF LeftCleared
    <2>4. dataSource => ItemsCurrent(RemoveSource(model, n).items, shown')
      <3> DEFINE all == shown  all2 == shown'
      <3>1. \A o : o \in Sourced(all2) <=> o \in Sourced(all) /\ o # n
        BY <2>2 DEF Sourced
      <3>2. \A o \in Sourced(all) : o # n => all2[o] = all[o]
        BY <2>2 DEF Sourced
      <3> HIDE DEF all2
      <3>3. dataSource => ItemsCurrent(RemoveSource(model, n).items, all2)
        BY <1>0, <3>1, <3>2, CurrentRemoved
      <3> QED
        BY <3>3 DEF all2
    <2> QED
      BY <1>1, <2>1, <2>3, <2>4
  <1>5. CASE SetDataSource
    <2>1. /\ ~dataSource /\ Kept /\ shown' = shown /\ connected' = connected
          /\ model' = DataRead(model, shown)[LastName]
      BY <1>5 DEF SetDataSource, source, filters
    <2>2. LeftCleared'
      BY <1>0, <2>1 DEF LeftCleared
    <2>3. ItemsCurrent(DataRead(model, shown)[LastName].items, shown)
      BY <1>0, <2>1, CurrentRead
    <2> QED
      BY <1>1, <2>1, <2>2, <2>3
  <1>6. CASE FilterStep
    <2>1. ~dataSource' /\ shown' = shown /\ connected' = connected
      BY <1>6 DEF FilterStep
    <2> QED
      BY <1>0, <2>1 DEF CurrentInv, LeftCleared
  <1>7. CASE ProxyStep
    <2>1. /\ Kept /\ shown' = shown /\ dataSource' = dataSource /\ connected' = connected
          /\ model'.items = model.items
      BY <1>7 DEF ProxyStep, ProxyFields, Same, ModelFields
    <2>2. LeftCleared'
      BY <1>0, <2>1 DEF LeftCleared
    <2>3. dataSource' => ItemsCurrent(model'.items, shown')
      BY <1>0, <2>1
    <2> QED
      BY <1>1, <2>1, <2>2, <2>3
  <1> QED
    BY <1>0, <1>2, <1>3, <1>4, <1>5, <1>6, <1>7, Steps

LEMMA KeyStaysKnown ==
  ASSUME Base, KeyKnown, [Next]_vars
  PROVE  KeyKnown'
  <1>1. DOMAIN model = ModelFields
    BY DEF Base, Sound
  <1>2. UNCHANGED keyRoleFilter \/ FilterStep
    BY <1>1, Steps DEF NewData, DropStep, SetDataSource, ProxyStep, filters
  <1>3. CASE UNCHANGED keyRoleFilter
    BY <1>3, Zenon DEF KeyKnown
  <1>4. CASE FilterStep
    BY <1>4 DEF FilterStep
  <1> QED
    BY <1>2, <1>3, <1>4

\* The rows of the model are what the connected sources that match the filter say now, and
\* nothing else, whether they are items or have lists (dataUpdated, removeSource): when
\* applications leave sources with data by setConnectedSources, which clears them.
THEOREM RowsStayCurrent == ClearedWhenLeft => (Spec => []RowsAreCurrent)
  <1> SUFFICES ASSUME ClearedWhenLeft PROVE Spec => []RowsAreCurrent
    OBVIOUS
  <1>1. Init => CurrentInv /\ KeyKnown
    <2> SUFFICES ASSUME Init PROVE CurrentInv /\ KeyKnown
      OBVIOUS
    <2>1. ~dataSource /\ DOMAIN shown = {}
      BY DEF Init
    <2>2. keyRoleFilter = ""
      BY DEF Init
    <2>3. KeyKnown
      BY <2>2, Zenon DEF KeyKnown
    <2> QED
      BY <2>1, <2>3 DEF CurrentInv, LeftCleared
  <1>2. Base /\ CurrentInv /\ KeyKnown /\ [Next]_vars => (CurrentInv /\ KeyKnown)'
    BY CurrentStays, KeyStaysKnown
  <1>3. Base /\ CurrentInv /\ KeyKnown => RowsAreCurrent
    <2>0. SUFFICES ASSUME Base, CurrentInv, KeyKnown PROVE RowsAreCurrent
      OBVIOUS
    <2> DEFINE current == {n \in connected \intersect DOMAIN shown \intersect sourceFilter : shown[n] # Cleared}
    <2>1. current = Sourced(shown)
      BY <2>0 DEF CurrentInv, LeftCleared, Sourced
    <2>2. keyRoleFilter # "invalid" => AsItems \/ Valid
      BY <2>0, Zenon DEF KeyKnown, AsItems, Valid
    <2>3. ASSUME dataSource, AsItems
          PROVE  ToSet(ItemsOf(model.items, AllItems)) = {Row(n, shown[n].item) : n \in current}
      <3> DEFINE list == ItemsOf(model.items, AllItems)
      <3>1. OneRowEach(list, shown)
        BY <2>0, <2>3 DEF CurrentInv, ItemsCurrent
      <3>2. list \in Seq(SomeRows)
        <4>1. Typed(model.items, SomeRows)
          BY <2>0 DEF Base, Sound
        <4> QED
          BY <4>1, ItemsOfTyped
      <3> HIDE DEF list
      <3>3. DOMAIN list = 1..Len(list)
        BY <3>2
      <3>4. ToSet(list) = {Row(n, shown[n].item) : n \in Sourced(shown)}
        BY <3>1, <3>3 DEF ToSet, OneRowEach
      <3> QED
        BY <2>1, <3>4 DEF list
    <2>4. ASSUME dataSource, Valid
          PROVE  \A n \in Names : ItemsOf(model.items, n) = IF n \in current THEN KeyRoleRows(n, shown[n]) ELSE <<>>
      <3>1. ListEach(model.items, shown)
        BY <2>0, <2>4 DEF CurrentInv, ItemsCurrent
      <3> QED
        BY <2>1, <3>1 DEF ListEach
    <2> HIDE DEF current
    <2>5. AsItems <=> keyRoleFilter = ""
      BY Zenon DEF AsItems
    <2>6. AsItems => ~Valid
      BY ValidHasLists
    <2> QED
      BY <2>2, <2>3, <2>4, <2>5, <2>6, Zenon DEF RowsAreCurrent, current
  <1> QED
    BY <1>1, <1>2, <1>3, BaseHolds, PTL DEF Spec

=============================================================================
