----------------------------- MODULE SumTheorems ----------------------------
(***************************************************************************)
(* Facts about SumTo for every number of rows.  Each one is an induction   *)
(* on the row number, carried out with the least-element principle over    *)
(* sets of naturals: the least counterexample, if any, contradicts its     *)
(* predecessor.                                                            *)
(***************************************************************************)
EXTENDS Sums, WellFoundedInduction, TLAPS

PrefixSums(n, f) ==
  CHOOSE s : s = [i \in 0..n |-> IF i = 0 THEN 0 ELSE s[i-1] + f[i]]

\* Every nonempty set of naturals has a least element.
LEMMA LeastElement ==
  ASSUME NEW T \in SUBSET Nat, T # {}
  PROVE  \E m \in T : \A k \in T : m <= k
<1>1. IsWellFoundedOn(OpToRel(<, Nat), Nat)
  BY NatLessThanWellFounded
<1>2. PICK m \in T : \A y \in T : <<y, m>> \notin OpToRel(<, Nat)
  BY <1>1, WFMin
<1>3. \A y \in T : ~(y < m)
  BY <1>2 DEF OpToRel
<1> QED
  BY <1>3

\* The table of partial sums exists: the recursive definition of SumTo denotes
\* what its equation says, for every n.
LEMMA PrefixSumsExist ==
  ASSUME NEW n \in Nat, NEW f
  PROVE  \E s : s = [i \in 0..n |-> IF i = 0 THEN 0 ELSE s[i-1] + f[i]]
<1> DEFINE HasTable(m) == \E s : s = [i \in 0..m |-> IF i = 0 THEN 0 ELSE s[i-1] + f[i]]
           Bad == {m \in Nat : ~ HasTable(m)}
<1>1. SUFFICES ASSUME Bad # {} PROVE FALSE
  <2> HIDE DEF HasTable
  <2>1. HasTable(n) => \E s : s = [i \in 0..n |-> IF i = 0 THEN 0 ELSE s[i-1] + f[i]]
    BY DEF HasTable
  <2> QED
    BY <2>1
<1>2. PICK m \in Bad : \A k \in Bad : m <= k
  <2> HIDE DEF HasTable
  <2>1. Bad \in SUBSET Nat
    OBVIOUS
  <2> HIDE DEF Bad
  <2> QED
    BY <1>1, <2>1, LeastElement
<1> HIDE DEF HasTable
<1>5. m \in Nat /\ ~HasTable(m) /\ \A k \in Nat : ~HasTable(k) => m <= k
  BY <1>2
<1>3. HasTable(0)
  <2> DEFINE s == [i \in 0..0 |-> 0]
  <2>1. s = [i \in 0..0 |-> IF i = 0 THEN 0 ELSE s[i-1] + f[i]]
    OBVIOUS
  <2> QED
    BY <2>1 DEF HasTable
<1>4. ASSUME m # 0 PROVE FALSE
  <2>1. m - 1 \in Nat /\ HasTable(m - 1)
    BY <1>4, <1>5
  <2>2. PICK s : s = [i \in 0..(m-1) |-> IF i = 0 THEN 0 ELSE s[i-1] + f[i]]
    BY <2>1 DEF HasTable
  <2> DEFINE t == [i \in 0..m |-> IF i = 0 THEN 0 ELSE s[i-1] + f[i]]
  <2>3. \A i \in 0..(m-1) : t[i] = s[i]
    BY <1>5, <2>1, <2>2
  <2>4. \A i \in 0..m : i # 0 => t[i-1] = s[i-1]
    <3>1. TAKE i \in 0..m
    <3>2. HAVE i # 0
    <3>3. i - 1 \in 0..(m-1)
      BY <1>5, <3>2
    <3> HIDE DEF t
    <3> QED
      BY <2>3, <3>3
  <2>5. t = [i \in 0..m |-> IF i = 0 THEN 0 ELSE t[i-1] + f[i]]
    <3>1. \A i \in 0..m : (IF i = 0 THEN 0 ELSE s[i-1] + f[i]) = (IF i = 0 THEN 0 ELSE t[i-1] + f[i])
      <4> HIDE DEF t
      <4> QED
        BY <2>4
    <3> QED
      BY <3>1
  <2> HIDE DEF t
  <2>6. HasTable(m)
    BY <2>5 DEF HasTable
  <2> QED
    BY <2>6, <1>5
<1> QED
  BY <1>3, <1>4, <1>5

\* SumTo is the last entry of the table of partial sums, which starts at 0 and
\* adds one row at a time.
LEMMA SumToIsPrefix ==
  ASSUME NEW n \in Nat, NEW f
  PROVE  /\ SumTo(n, f) = PrefixSums(n, f)[n]
         /\ PrefixSums(n, f)[0] = 0
         /\ \A i \in 1..n : PrefixSums(n, f)[i] = PrefixSums(n, f)[i-1] + f[i]
<1>1. SumTo(n, f) = PrefixSums(n, f)[n]
  BY DEF SumTo, PrefixSums
<1>2. PrefixSums(n, f) = [i \in 0..n |-> IF i = 0 THEN 0 ELSE PrefixSums(n, f)[i-1] + f[i]]
  BY PrefixSumsExist DEF PrefixSums
<1> QED
  BY <1>1, <1>2

\* The partial sums of integer rows are integers.
LEMMA PrefixSumsType ==
  ASSUME NEW n \in Nat, NEW f \in [1..n -> Int]
  PROVE  \A i \in 0..n : PrefixSums(n, f)[i] \in Int
<1> DEFINE P == PrefixSums(n, f)
           Bad == {i \in 0..n : P[i] \notin Int}
<1>1. P[0] = 0 /\ \A i \in 1..n : P[i] = P[i-1] + f[i]
  BY SumToIsPrefix
<1> HIDE DEF P
<1>2. SUFFICES ASSUME Bad # {} PROVE FALSE
  BY DEF P
<1>3. PICK m \in Bad : \A k \in Bad : m <= k
  <2>1. Bad \in SUBSET Nat
    OBVIOUS
  <2> HIDE DEF Bad
  <2> QED
    BY <1>2, <2>1, LeastElement
<1>4. m \in 1..n
  BY <1>1, <1>3
<1>5. m - 1 \notin Bad /\ m - 1 \in 0..n
  BY <1>3, <1>4
<1> QED
  BY <1>1, <1>3, <1>4, <1>5

\* A table that starts at 0 and grows by the rows of f ends in their sum.
LEMMA SumToUnique ==
  ASSUME NEW n \in Nat, NEW f \in [1..n -> Int],
         NEW t \in [0..n -> Int], t[0] = 0,
         \A i \in 1..n : t[i] = t[i-1] + f[i]
  PROVE  SumTo(n, f) = t[n]
<1> DEFINE P == PrefixSums(n, f)
           Bad == {i \in 0..n : P[i] # t[i]}
<1>1. P[0] = 0 /\ \A i \in 1..n : P[i] = P[i-1] + f[i]
  BY SumToIsPrefix
<1>2. SumTo(n, f) = P[n]
  BY SumToIsPrefix
<1> HIDE DEF P
<1>3. Bad = {}
  <2>1. SUFFICES ASSUME Bad # {} PROVE FALSE
    OBVIOUS
  <2>2. PICK m \in Bad : \A k \in Bad : m <= k
    <3>1. Bad \in SUBSET Nat
      OBVIOUS
    <3> HIDE DEF Bad
    <3> QED
      BY <2>1, <3>1, LeastElement
  <2>3. m \in 1..n
    BY <1>1, <2>2
  <2>4. m - 1 \notin Bad /\ m - 1 \in 0..n
    BY <2>2, <2>3
  <2> QED
    BY <1>1, <2>2, <2>3, <2>4
<1>4. n \in 0..n /\ n \notin Bad
  <2> HIDE DEF Bad
  <2> QED
    BY <1>3
<1>5. P[n] = t[n]
  BY <1>4
<1> QED
  BY <1>2, <1>5

\* The sum of integer rows is an integer.
THEOREM SumToType ==
  ASSUME NEW n \in Nat, NEW f \in [1..n -> Int]
  PROVE  SumTo(n, f) \in Int
BY SumToIsPrefix, PrefixSumsType

\* Rows that are all zero sum to zero.
THEOREM SumToZero ==
  ASSUME NEW n \in Nat, NEW f \in [1..n -> Int], \A i \in 1..n : f[i] = 0
  PROVE  SumTo(n, f) = 0
<1> DEFINE t == [i \in 0..n |-> 0]
<1>1. t \in [0..n -> Int] /\ t[0] = 0 /\ \A i \in 1..n : t[i] = t[i-1] + f[i]
  OBVIOUS
<1>2. t[n] = 0
  OBVIOUS
<1> HIDE DEF t
<1>3. SumTo(n, f) = t[n]
  BY <1>1, SumToUnique
<1> QED
  BY <1>2, <1>3

\* Changing one row changes the sum by the change of that row.
THEOREM SumToUpdate ==
  ASSUME NEW n \in Nat, NEW f \in [1..n -> Int], NEW g \in [1..n -> Int],
         NEW l \in 1..n, \A i \in 1..n : i # l => g[i] = f[i]
  PROVE  SumTo(n, g) = SumTo(n, f) + g[l] - f[l]
<1> DEFINE P == PrefixSums(n, f)
           t == [i \in 0..n |-> IF i < l THEN P[i] ELSE P[i] + g[l] - f[l]]
<1>1. /\ SumTo(n, f) = P[n] /\ P[0] = 0
      /\ \A i \in 1..n : P[i] = P[i-1] + f[i]
      /\ \A i \in 0..n : P[i] \in Int
  BY SumToIsPrefix, PrefixSumsType
<1> HIDE DEF P
<1>2. t \in [0..n -> Int] /\ t[0] = 0
  <2>1. f[l] \in Int /\ g[l] \in Int /\ 0 \in 0..n /\ 0 < l
    OBVIOUS
  <2>2. t[0] = P[0]
    BY <2>1
  <2>3. ASSUME NEW i \in 0..n PROVE (IF i < l THEN P[i] ELSE P[i] + g[l] - f[l]) \in Int
    <3>1. P[i] \in Int
      BY <1>1, <2>3
    <3> QED
      BY <2>1, <3>1
  <2>4. P[0] = 0
    BY <1>1
  <2>5. t \in [0..n -> Int]
    BY <2>3
  <2> QED
    BY <2>2, <2>4, <2>5
<1>3. ASSUME NEW i \in 1..n PROVE t[i] = t[i-1] + g[i]
  <2>1. i \in 0..n /\ i - 1 \in 0..n /\ f[i] \in Int /\ g[i] \in Int /\ f[l] \in Int /\ g[l] \in Int
    OBVIOUS
  <2>2. P[i] \in Int /\ P[i-1] \in Int /\ P[i] = P[i-1] + f[i]
    BY <1>1, <2>1
  <2>3. t[i] = (IF i < l THEN P[i] ELSE P[i] + g[l] - f[l])
    BY <2>1
  <2>4. t[i-1] = (IF i - 1 < l THEN P[i-1] ELSE P[i-1] + g[l] - f[l])
    BY <2>1
  <2>5. i # l => g[i] = f[i]
    OBVIOUS
  <2> HIDE DEF t
  <2>6. CASE i < l
    BY <2>1, <2>2, <2>3, <2>4, <2>5, <2>6
  <2>7. CASE i = l
    BY <2>1, <2>2, <2>3, <2>4, <2>7
  <2>8. CASE i > l
    BY <2>1, <2>2, <2>3, <2>4, <2>5, <2>8
  <2> QED
    BY <2>6, <2>7, <2>8
<1>4. t[n] = P[n] + g[l] - f[l]
  OBVIOUS
<1> HIDE DEF t
<1> QED
  BY <1>1, <1>2, <1>3, <1>4, SumToUnique

\* Subtracting row by row subtracts the sums.
THEOREM SumToMinus ==
  ASSUME NEW n \in Nat, NEW f \in [1..n -> Int], NEW g \in [1..n -> Int],
         NEW h \in [1..n -> Int], \A i \in 1..n : h[i] = f[i] - g[i]
  PROVE  SumTo(n, h) = SumTo(n, f) - SumTo(n, g)
<1> DEFINE P == PrefixSums(n, f)
           Q == PrefixSums(n, g)
           t == [i \in 0..n |-> P[i] - Q[i]]
<1>1. /\ SumTo(n, f) = P[n] /\ P[0] = 0
      /\ \A i \in 1..n : P[i] = P[i-1] + f[i]
      /\ \A i \in 0..n : P[i] \in Int
  BY SumToIsPrefix, PrefixSumsType
<1>2. /\ SumTo(n, g) = Q[n] /\ Q[0] = 0
      /\ \A i \in 1..n : Q[i] = Q[i-1] + g[i]
      /\ \A i \in 0..n : Q[i] \in Int
  BY SumToIsPrefix, PrefixSumsType
<1> HIDE DEF P, Q
<1>3. t \in [0..n -> Int] /\ t[0] = 0
  BY <1>1, <1>2
<1>4. ASSUME NEW i \in 1..n PROVE t[i] = t[i-1] + h[i]
  <2>1. i \in 0..n /\ i - 1 \in 0..n /\ f[i] \in Int /\ g[i] \in Int /\ h[i] = f[i] - g[i]
    OBVIOUS
  <2>2. P[i] \in Int /\ P[i-1] \in Int /\ P[i] = P[i-1] + f[i]
    BY <1>1, <2>1
  <2>3. Q[i] \in Int /\ Q[i-1] \in Int /\ Q[i] = Q[i-1] + g[i]
    BY <1>2, <2>1
  <2>4. t[i] = P[i] - Q[i] /\ t[i-1] = P[i-1] - Q[i-1]
    BY <2>1
  <2> HIDE DEF t
  <2> QED
    BY <2>1, <2>2, <2>3, <2>4
<1>5. t[n] = P[n] - Q[n]
  OBVIOUS
<1> HIDE DEF t
<1> QED
  BY <1>1, <1>2, <1>3, <1>4, <1>5, SumToUnique

\* No row below zero, no sum below zero.
THEOREM SumToNat ==
  ASSUME NEW n \in Nat, NEW f \in [1..n -> Nat]
  PROVE  SumTo(n, f) \in Nat
<1> DEFINE P == PrefixSums(n, f)
           Bad == {i \in 0..n : ~(P[i] >= 0)}
<1>0. f \in [1..n -> Int]
  OBVIOUS
<1>1. /\ SumTo(n, f) = P[n] /\ P[0] = 0
      /\ \A i \in 1..n : P[i] = P[i-1] + f[i]
      /\ \A i \in 0..n : P[i] \in Int
  BY <1>0, SumToIsPrefix, PrefixSumsType
<1> HIDE DEF P
<1>2. Bad = {}
  <2>1. SUFFICES ASSUME Bad # {} PROVE FALSE
    OBVIOUS
  <2>2. PICK m \in Bad : \A k \in Bad : m <= k
    <3>1. Bad \in SUBSET Nat
      OBVIOUS
    <3> HIDE DEF Bad
    <3> QED
      BY <2>1, <3>1, LeastElement
  <2>3. m \in 1..n
    BY <1>1, <2>2
  <2>4. m - 1 \notin Bad /\ m - 1 \in 0..n
    BY <2>2, <2>3
  <2> QED
    BY <1>1, <2>2, <2>3, <2>4
<1>3. n \in 0..n /\ n \notin Bad
  <2> HIDE DEF Bad
  <2> QED
    BY <1>2
<1> QED
  BY <1>1, <1>3
=============================================================================
