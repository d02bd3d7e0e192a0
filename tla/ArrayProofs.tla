----------------------------- MODULE ArrayProofs -----------------------------
(***************************************************************************)
(* Facts about lists for the proofs of Monitor, ThreadQueue and HashTable. *)
(* Filter and Flatten are recursive functions: that they are functions at  *)
(* all, and what they compute, is proved by induction on a set of numbers. *)
(***************************************************************************)
EXTENDS Arrays, TLAPS, SequenceTheorems, WellFoundedInduction

(* Every set of numbers has a smallest element ...                         *)
LEMMA Smallest ==
    ASSUME NEW T \in SUBSET Nat, T # {}
    PROVE  \E x \in T : \A y \in T : x <= y
  <1>1. \E x \in T : \A y \in T : ~ (<<y, x>> \in OpToRel(<, Nat))
    BY NatLessThanWellFounded, WFMin, Zenon
  <1>2. \A x, y \in Nat : y < x => <<y, x>> \in OpToRel(<, Nat)
    BY Zenon DEF OpToRel
  <1>3. \E R : /\ \E x \in T : \A y \in T : ~ (<<y, x>> \in R)
               /\ \A x, y \in Nat : y < x => <<y, x>> \in R
    BY <1>1, <1>2, Zenon
  <1>4. PICK R : /\ \E x \in T : \A y \in T : ~ (<<y, x>> \in R)
                 /\ \A x, y \in Nat : y < x => <<y, x>> \in R
    BY <1>3, Zenon
  <1>5. ASSUME NEW x \in T, NEW y \in T, ~ (<<y, x>> \in R) PROVE x <= y
    BY <1>4, <1>5
  <1> QED BY <1>4, <1>5, Zenon

(* ... and one that holds 0 and, with a number, the next one, is all of    *)
(* them.                                                                   *)
LEMMA Induction ==
    ASSUME NEW S \in SUBSET Nat, 0 \in S, \A n \in S : n + 1 \in S
    PROVE  \A n \in Nat : n \in S
  <1> SUFFICES ASSUME Nat \ S # {} PROVE FALSE
    OBVIOUS
  <1>1. PICK x \in Nat \ S : \A y \in Nat \ S : x <= y
    BY Smallest
  <1>2. x # 0 /\ x - 1 \in Nat /\ (x - 1) + 1 = x
    BY <1>1
  <1>3. x - 1 \in S
    BY <1>1, <1>2
  <1> QED BY <1>1, <1>2, <1>3

(* A function may be defined by recursion from 0 to n.                     *)
Steps(F, z, n, G) == F[0] = z /\ \A i \in 1 .. n : F[i] = G[i][F[i - 1]]

LEMMA Recursion ==
    ASSUME NEW T, NEW z \in T, NEW n \in Nat, NEW G \in [1 .. n -> [T -> T]]
    PROVE  \E F \in [0 .. n -> T] : Steps(F, z, n, G)
  <1> DEFINE Def(m, F) == F \in [0 .. m -> T] /\ F[0] = z /\ \A i \in 1 .. m : F[i] = G[i][F[i - 1]]
             S == {m \in Nat : m <= n => \E F : Def(m, F)}
  <1>1. 0 \in S
    <2> DEFINE F0 == [i \in 0 .. 0 |-> z]
    <2>1. F0 \in [0 .. 0 -> T] /\ F0[0] = z
      OBVIOUS
    <2>2. \A i \in 1 .. 0 : FALSE
      OBVIOUS
    <2> HIDE DEF F0
    <2>3. Def(0, F0)
      BY <2>1, <2>2, Zenon
    <2> QED BY <2>3
  <1>2. ASSUME NEW m \in S PROVE m + 1 \in S
    <2>0. m \in Nat /\ (m <= n => \E F : Def(m, F))
      BY Zenon
    <2> HIDE DEF Def
    <2> SUFFICES ASSUME m + 1 <= n PROVE \E F : Def(m + 1, F)
      BY <2>0
    <2>1. m \in Nat /\ m <= n
      BY <2>0
    <2>2. PICK F : Def(m, F)
      BY <2>0, <2>1
    <2> USE DEF Def
    <2> DEFINE H == [i \in 0 .. m + 1 |-> IF i <= m THEN F[i] ELSE G[m + 1][F[m]]]
    <2>3. F[m] \in T /\ m + 1 \in 1 .. n
      BY <2>1, <2>2
    <2>4. G[m + 1][F[m]] \in T
      BY <2>3
    <2>5. H \in [0 .. m + 1 -> T] /\ H[0] = z
      BY <2>1, <2>2, <2>4
    <2>6. ASSUME NEW i \in 1 .. m + 1 PROVE H[i] = G[i][H[i - 1]]
      <3>1. CASE i <= m
        BY <2>1, <2>2, <3>1
      <3>2. CASE i = m + 1
        BY <2>1, <3>2
      <3> QED BY <2>1, <3>1, <3>2
    <2> HIDE DEF H
    <2> QED BY <2>5, <2>6
  <1>3. n \in S
    <2> HIDE DEF S
    <2>1. S \in SUBSET Nat
      BY DEF S
    <2> QED BY <1>1, <1>2, <2>1, Induction
  <1> QED BY <1>3 DEF Steps

(* The functions behind Filter.                                            *)
Keeps(F, q, S) ==
    /\ F[0] = << >>
    /\ \A i \in 1 .. Len(q) : F[i] = IF q[i] \in S THEN Append(F[i - 1], q[i]) ELSE F[i - 1]

LEMMA FilterFunction ==
    ASSUME NEW T, NEW q \in Seq(T), NEW S
    PROVE  \E F \in [0 .. Len(q) -> Seq(T)] : Filter(q, S) = F[Len(q)] /\ Keeps(F, q, S)
  <1> DEFINE n == Len(q)
             G == [i \in 1 .. n |-> [s \in Seq(T) |-> IF q[i] \in S THEN Append(s, q[i]) ELSE s]]
             IsKept(F) == F = [i \in 0 .. n |-> IF i = 0 THEN << >>
                                                ELSE IF q[i] \in S THEN Append(F[i - 1], q[i]) ELSE F[i - 1]]
  <1>1. n \in Nat /\ << >> \in Seq(T) /\ \A i \in 1 .. n : q[i] \in T
    OBVIOUS
  <1>2. ASSUME NEW i \in 1 .. n
        PROVE  /\ [s \in Seq(T) |-> IF q[i] \in S THEN Append(s, q[i]) ELSE s] \in [Seq(T) -> Seq(T)]
               /\ G[i] = [s \in Seq(T) |-> IF q[i] \in S THEN Append(s, q[i]) ELSE s]
    <2>1. q[i] \in T
      BY <1>1
    <2>2. \A s \in Seq(T) : (IF q[i] \in S THEN Append(s, q[i]) ELSE s) \in Seq(T)
      BY <2>1, AppendProperties
    <2> QED BY <2>2
  <1>3. /\ G \in [1 .. n -> [Seq(T) -> Seq(T)]]
        /\ \A s \in Seq(T) : \A i \in 1 .. n : G[i][s] = IF q[i] \in S THEN Append(s, q[i]) ELSE s
    <2>1. G = [i \in 1 .. n |-> G[i]]
      OBVIOUS
    <2>2. \A s \in Seq(T) : \A i \in 1 .. n : G[i][s] = IF q[i] \in S THEN Append(s, q[i]) ELSE s
      BY <1>2
    <2>3. \A i \in 1 .. n : G[i] \in [Seq(T) -> Seq(T)]
      BY <1>2
    <2> HIDE DEF G
    <2> QED BY <2>1, <2>2, <2>3
  <1> HIDE DEF G, n
  <1>4. PICK F \in [0 .. n -> Seq(T)] : F[0] = << >> /\ \A i \in 1 .. n : F[i] = G[i][F[i - 1]]
    <2> DEFINE U == Seq(T)  e == << >>
    <2>1. e \in U /\ n \in Nat /\ G \in [1 .. n -> [U -> U]]
      BY <1>1, <1>3
    <2> HIDE DEF U, e
    <2>2. \E F \in [0 .. n -> U] : Steps(F, e, n, G)
      BY <2>1, Recursion
    <2> QED BY <2>2 DEF U, e, Steps
  <1>5. \A i \in 1 .. n : F[i] = IF q[i] \in S THEN Append(F[i - 1], q[i]) ELSE F[i - 1]
    BY <1>1, <1>3, <1>4
  <1>6. IsKept(F)
    <2>1. \A i \in 0 .. n : i = 0 \/ i \in 1 .. n
      BY <1>1
    <2> QED BY <1>4, <1>5, <2>1
  <1>7. \A H : IsKept(H) => H = F
    <2> SUFFICES ASSUME NEW H, IsKept(H) PROVE H = F
      OBVIOUS
    <2>0. H = [i \in 0 .. n |-> H[i]] /\ F = [i \in 0 .. n |-> F[i]]
      BY <1>4
    <2>5. \A i \in 1 .. n : H[i] = IF q[i] \in S THEN Append(H[i - 1], q[i]) ELSE H[i - 1]
      <3>1. \A i \in 1 .. n : i \in 0 .. n /\ i # 0
        BY <1>1
      <3> QED BY <3>1
    <2>6. H[0] = << >>
      BY <1>1
    <2> HIDE DEF IsKept
    <2> DEFINE R == {i \in Nat : i <= n => H[i] = F[i]}
    <2>1. 0 \in R
      BY <1>4, <2>6
    <2>2. ASSUME NEW i \in R PROVE i + 1 \in R
      <3> SUFFICES ASSUME i + 1 <= n PROVE H[i + 1] = F[i + 1]
        OBVIOUS
      <3>1. i \in Nat /\ H[i] = F[i] /\ i + 1 \in 1 .. n /\ (i + 1) - 1 = i
        BY <1>1
      <3> QED BY <1>5, <2>5, <3>1
    <2>3. \A i \in Nat : i \in R
      <3> HIDE DEF R
      <3>1. R \in SUBSET Nat
        BY DEF R
      <3> QED BY <2>1, <2>2, <3>1, Induction
    <2>4. \A i \in 0 .. n : H[i] = F[i]
      BY <1>1, <2>3
    <2> QED BY <2>0, <2>4
  <1>8. Filter(q, S) = F[n]
    BY <1>6, <1>7 DEF Filter, n
  <1> QED BY <1>4, <1>5, <1>8 DEF n, Keeps
-----------------------------------------------------------------------------
LEMMA EmptyArray == Elements(<< >>) = {} /\ Distinct(<< >>)
  BY DEF Elements, Distinct

LEMMA AppendArray ==
    ASSUME NEW T, NEW q \in Seq(T), NEW e \in T
    PROVE  /\ Append(q, e) \in Seq(T)
           /\ Elements(Append(q, e)) = Elements(q) \cup {e}
           /\ Distinct(q) /\ e \notin Elements(q) => Distinct(Append(q, e))
  <1> DEFINE r == Append(q, e)  n == Len(q)
  <1>1. /\ n \in Nat /\ r \in Seq(T) /\ Len(r) = n + 1 /\ r[n + 1] = e
        /\ \A i \in 1 .. n : r[i] = q[i]
    BY AppendProperties
  <1> HIDE DEF r
  <1>2. \A i \in 1 .. n + 1 : i \in 1 .. n \/ i = n + 1
    BY <1>1
  <1>3. 1 .. n \subseteq 1 .. n + 1 /\ n + 1 \in 1 .. n + 1
    BY <1>1
  <1>4. Elements(r) = Elements(q) \cup {e}
    BY <1>1, <1>2, <1>3 DEF Elements
  <1>5. Distinct(q) /\ e \notin Elements(q) => Distinct(r)
    BY <1>1, <1>2 DEF Elements, Distinct
  <1> QED BY <1>1, <1>4, <1>5 DEF r

LEMMA TailArray ==
    ASSUME NEW T, NEW q \in Seq(T), q # << >>
    PROVE  /\ Tail(q) \in Seq(T) /\ Head(q) \in T
           /\ Elements(q) = Elements(Tail(q)) \cup {Head(q)}
           /\ Distinct(q) => Distinct(Tail(q)) /\ Head(q) \notin Elements(Tail(q))
  <1> DEFINE r == Tail(q)  n == Len(q)
  <1>1. /\ n \in Nat \ {0} /\ r \in Seq(T) /\ Len(r) = n - 1 /\ Head(q) = q[1] /\ q[1] \in T
        /\ \A i \in 1 .. n - 1 : r[i] = q[i + 1]
    OBVIOUS
  <1> HIDE DEF r, n
  <1>2. \A i \in 1 .. n : i = 1 \/ (i - 1 \in 1 .. n - 1 /\ (i - 1) + 1 = i)
    BY <1>1
  <1>3. \A i \in 1 .. n - 1 : i + 1 \in 1 .. n /\ i + 1 # 1
    BY <1>1
  <1>4. 1 \in 1 .. n
    BY <1>1
  <1>5. \A i \in 1 .. n : q[i] = q[1] \/ \E j \in 1 .. n - 1 : q[i] = r[j]
    BY <1>1, <1>2
  <1>6. Elements(q) = Elements(r) \cup {q[1]}
    <2>1. ASSUME NEW e \in Elements(q) PROVE e \in Elements(r) \cup {q[1]}
      <3>1. PICK i \in 1 .. n : e = q[i]
        BY <2>1 DEF Elements, n
      <3>2. CASE q[i] = q[1]
        BY <3>1, <3>2
      <3>3. ASSUME NEW j \in 1 .. n - 1, q[i] = r[j] PROVE e \in Elements(r)
        BY <1>1, <3>1, <3>3 DEF Elements
      <3> QED BY <1>5, <3>2, <3>3
    <2>2. ASSUME NEW e \in Elements(r) PROVE e \in Elements(q)
      <3>1. PICK j \in 1 .. n - 1 : e = r[j]
        BY <1>1, <2>2 DEF Elements
      <3>2. e = q[j + 1] /\ j + 1 \in 1 .. n
        BY <1>1, <1>3, <3>1
      <3> QED BY <3>2 DEF Elements, n
    <2>3. q[1] \in Elements(q)
      BY <1>4 DEF Elements, n
    <2> QED BY <2>1, <2>2, <2>3
  <1>7. ASSUME Distinct(q) PROVE Distinct(r) /\ q[1] \notin Elements(r)
    <2>1. ASSUME NEW i \in 1 .. n - 1, NEW j \in 1 .. n - 1, r[i] = r[j] PROVE i = j
      <3>1. i + 1 = j + 1
        BY <1>1, <1>3, <1>7, <2>1 DEF Distinct, n
      <3> QED BY <3>1, <1>1
    <2>2. ASSUME NEW i \in 1 .. n - 1 PROVE r[i] # q[1]
      BY <1>1, <1>3, <1>4, <1>7, <2>2 DEF Distinct, n
    <2> QED BY <1>1, <2>1, <2>2 DEF Distinct, Elements
  <1> QED BY <1>1, <1>6, <1>7 DEF r

LEMMA ConcatArray ==
    ASSUME NEW T, NEW p \in Seq(T), NEW q \in Seq(T)
    PROVE  /\ p \o q \in Seq(T)
           /\ Elements(p \o q) = Elements(p) \cup Elements(q)
           /\ Distinct(p) /\ Distinct(q) /\ Elements(p) \cap Elements(q) = {} => Distinct(p \o q)
  <1> DEFINE r == p \o q  m == Len(p)  n == Len(q)
  <1>1. /\ m \in Nat /\ n \in Nat /\ r \in Seq(T) /\ Len(r) = m + n
        /\ \A i \in 1 .. m + n : r[i] = IF i <= m THEN p[i] ELSE q[i - m]
    BY ConcatProperties
  <1> HIDE DEF r, m, n
  <1>2. \A i \in 1 .. m + n : \/ i \in 1 .. m /\ r[i] = p[i]
                              \/ i - m \in 1 .. n /\ i > m /\ r[i] = q[i - m]
    BY <1>1
  <1>3. \A i \in 1 .. m : i \in 1 .. m + n /\ r[i] = p[i]
    BY <1>1
  <1>4. \A i \in 1 .. n : i + m \in 1 .. m + n /\ (i + m) - m = i /\ ~(i + m <= m)
    BY <1>1
  <1>5. \A i \in 1 .. n : r[i + m] = q[i]
    BY <1>1, <1>4
  <1>6. Elements(r) = Elements(p) \cup Elements(q)
    <2>1. ASSUME NEW x \in Elements(r) PROVE x \in Elements(p) \cup Elements(q)
      <3>1. PICK i \in 1 .. m + n : x = r[i]
        BY <1>1, <2>1 DEF Elements
      <3> QED BY <1>2, <3>1 DEF Elements, m, n
    <2>2. ASSUME NEW x \in Elements(p) PROVE x \in Elements(r)
      <3>1. PICK i \in 1 .. m : x = p[i]
        BY <2>2 DEF Elements, m
      <3> QED BY <1>1, <1>3, <3>1 DEF Elements
    <2>3. ASSUME NEW x \in Elements(q) PROVE x \in Elements(r)
      <3>1. PICK i \in 1 .. n : x = q[i]
        BY <2>3 DEF Elements, n
      <3> QED BY <1>1, <1>4, <1>5, <3>1 DEF Elements
    <2> QED BY <2>1, <2>2, <2>3
  <1>7. ASSUME Distinct(p), Distinct(q), Elements(p) \cap Elements(q) = {} PROVE Distinct(r)
    <2> SUFFICES ASSUME NEW i \in 1 .. m + n, NEW j \in 1 .. m + n, r[i] = r[j] PROVE i = j
      BY <1>1 DEF Distinct
    <2>1. \A k \in 1 .. m : \A l \in 1 .. n : p[k] # q[l]
      BY <1>7 DEF Elements, m, n
    <2>2. CASE i \in 1 .. m /\ j \in 1 .. m
      BY <1>3, <1>7, <2>2 DEF Distinct, m
    <2>3. CASE i - m \in 1 .. n /\ i > m /\ r[i] = q[i - m] /\ j - m \in 1 .. n /\ j > m /\ r[j] = q[j - m]
      <3>1. i - m = j - m
        BY <1>7, <2>3 DEF Distinct, n
      <3> QED BY <3>1, <1>1
    <2> QED BY <1>2, <2>1, <2>2, <2>3
  <1> QED BY <1>1, <1>6, <1>7 DEF r

LEMMA ReversedArray ==
    ASSUME NEW T, NEW q \in Seq(T)
    PROVE  /\ Reversed(q) \in Seq(T) /\ Elements(Reversed(q)) = Elements(q)
           /\ Distinct(q) => Distinct(Reversed(q))
  <1> DEFINE r == Reversed(q)  n == Len(q)
  <1>1. n \in Nat /\ r = [i \in 1 .. n |-> q[n + 1 - i]] /\ \A i \in 1 .. n : q[i] \in T
    BY DEF Reversed
  <1>2. \A i \in 1 .. n : n + 1 - i \in 1 .. n /\ n + 1 - (n + 1 - i) = i
    BY <1>1
  <1> HIDE DEF r
  <1>3. r \in Seq(T) /\ Len(r) = n
    <2>1. r \in [1 .. n -> T]
      BY <1>1, <1>2
    <2> QED BY <1>1, <2>1
  <1>4. \A i \in 1 .. n : r[i] = q[n + 1 - i]
    BY <1>1
  <1>5. \A i \in 1 .. n : q[i] = r[n + 1 - i]
    BY <1>2, <1>4
  <1>6. Elements(r) = Elements(q)
    <2>1. \A i \in 1 .. n : \E j \in 1 .. n : r[i] = q[j]
      BY <1>2, <1>4
    <2>2. \A i \in 1 .. n : \E j \in 1 .. n : q[i] = r[j]
      BY <1>2, <1>5
    <2>3. Elements(r) = {r[i] : i \in 1 .. n} /\ Elements(q) = {q[i] : i \in 1 .. n}
      BY <1>3 DEF Elements
    <2> HIDE DEF n
    <2>4. \A x \in {r[i] : i \in 1 .. n} : x \in {q[i] : i \in 1 .. n}
      BY <2>1
    <2>5. \A x \in {q[i] : i \in 1 .. n} : x \in {r[i] : i \in 1 .. n}
      BY <2>2
    <2> QED BY <2>3, <2>4, <2>5
  <1>7. ASSUME Distinct(q) PROVE Distinct(r)
    <2> SUFFICES ASSUME NEW i \in 1 .. n, NEW j \in 1 .. n, r[i] = r[j] PROVE i = j
      BY <1>3 DEF Distinct
    <2>1. n + 1 - i = n + 1 - j
      BY <1>2, <1>4, <1>7, ZenonT(60) DEF Distinct
    <2> QED BY <1>1, <2>1
  <1> QED BY <1>3, <1>6, <1>7 DEF r

-----------------------------------------------------------------------------
(* Filter keeps what is in S, and only that, and what occurs once occurs   *)
(* once.                                                                   *)
THEOREM FilterArray ==
    ASSUME NEW T, NEW q \in Seq(T), NEW S
    PROVE  /\ Filter(q, S) \in Seq(T)
           /\ Elements(Filter(q, S)) = Elements(q) \cap S
           /\ Distinct(q) => Distinct(Filter(q, S))
  <1> DEFINE n == Len(q)
             Upto(i) == {q[k] : k \in 1 .. i}
  <1>1. n \in Nat /\ \A i \in 1 .. n : q[i] \in T
    OBVIOUS
  <1>0. PICK F \in [0 .. n -> Seq(T)] : Filter(q, S) = F[n] /\ Keeps(F, q, S)
    BY FilterFunction
  <1>2. /\ F[0] = << >>
        /\ \A i \in 1 .. n : F[i] = IF q[i] \in S THEN Append(F[i - 1], q[i]) ELSE F[i - 1]
    BY <1>0 DEF Keeps
  <1> DEFINE R == {i \in Nat : i <= n => /\ Elements(F[i]) = Upto(i) \cap S
                                         /\ Distinct(q) => Distinct(F[i])}
  <1>3. 0 \in R
    <2>1. Upto(0) = {}
      OBVIOUS
    <2> QED BY <1>2, <2>1, EmptyArray
  <1>4. ASSUME NEW i \in R PROVE i + 1 \in R
    <2>1. /\ i \in Nat
          /\ i <= n => Elements(F[i]) = Upto(i) \cap S /\ (Distinct(q) => Distinct(F[i]))
      OBVIOUS
    <2> SUFFICES ASSUME i + 1 <= n
                 PROVE  Elements(F[i + 1]) = Upto(i + 1) \cap S /\ (Distinct(q) => Distinct(F[i + 1]))
      BY <2>1
    <2>2. i + 1 \in 1 .. n /\ (i + 1) - 1 = i /\ i <= n /\ i \in 0 .. n
      BY <1>1, <2>1
    <2>3. F[i] \in Seq(T) /\ q[i + 1] \in T
      BY <1>0, <1>1, <2>2
    <2>4. F[i + 1] = IF q[i + 1] \in S THEN Append(F[i], q[i + 1]) ELSE F[i]
      BY <1>2, <2>2
    <2>5. Upto(i + 1) = Upto(i) \cup {q[i + 1]}
      <3>1. \A k \in 1 .. i + 1 : k \in 1 .. i \/ k = i + 1
        BY <2>1
      <3>2. \A k \in 1 .. i : k \in 1 .. i + 1
        BY <2>1
      <3>3. i + 1 \in 1 .. i + 1
        BY <2>1
      <3> QED BY <3>1, <3>2, <3>3
    <2>6. Distinct(q) => q[i + 1] \notin Upto(i)
      <3>1. \A k \in 1 .. i : k \in 1 .. n /\ k # i + 1
        BY <2>1, <2>2
      <3> QED BY <2>2, <3>1 DEF Distinct
    <2> HIDE DEF Upto
    <2> QED BY <2>1, <2>2, <2>3, <2>4, <2>5, <2>6, AppendArray
  <1>5. n \in R
    <2> HIDE DEF R
    <2>1. R \in SUBSET Nat
      BY DEF R
    <2> QED BY <1>1, <1>3, <1>4, <2>1, Induction
  <1>6. Upto(n) = Elements(q)
    BY DEF Elements
  <1> HIDE DEF Upto
  <1>7. Elements(F[n]) = Upto(n) \cap S /\ (Distinct(q) => Distinct(F[n]))
    BY <1>1, <1>5
  <1> QED BY <1>0, <1>1, <1>6, <1>7
(* The functions behind Flatten.                                           *)
Joins(F, b) == F[0] = << >> /\ \A i \in 1 .. Len(b) : F[i] = F[i - 1] \o b[i]

LEMMA FlattenFunction ==
    ASSUME NEW T, NEW b \in Seq(Seq(T))
    PROVE  \E F \in [0 .. Len(b) -> Seq(T)] : Flatten(b) = F[Len(b)] /\ Joins(F, b)
  <1> DEFINE n == Len(b)
             G == [i \in 1 .. n |-> [s \in Seq(T) |-> s \o b[i]]]
             IsUpto(F) == F = [i \in 0 .. n |-> IF i = 0 THEN << >> ELSE F[i - 1] \o b[i]]
  <1>1. n \in Nat /\ << >> \in Seq(T) /\ \A i \in 1 .. n : b[i] \in Seq(T)
    OBVIOUS
  <1>2. ASSUME NEW i \in 1 .. n
        PROVE  /\ [s \in Seq(T) |-> s \o b[i]] \in [Seq(T) -> Seq(T)]
               /\ G[i] = [s \in Seq(T) |-> s \o b[i]]
    <2>1. b[i] \in Seq(T)
      BY <1>1
    <2>2. \A s \in Seq(T) : s \o b[i] \in Seq(T)
      BY <2>1, ConcatProperties
    <2> QED BY <2>2, Zenon
  <1>3. /\ G \in [1 .. n -> [Seq(T) -> Seq(T)]]
        /\ \A s \in Seq(T) : \A i \in 1 .. n : G[i][s] = s \o b[i]
    <2>1. G = [i \in 1 .. n |-> G[i]]
      OBVIOUS
    <2>2. \A s \in Seq(T) : \A i \in 1 .. n : G[i][s] = s \o b[i]
      BY <1>2, Zenon
    <2>3. \A i \in 1 .. n : G[i] \in [Seq(T) -> Seq(T)]
      BY <1>2, Zenon
    <2> HIDE DEF G
    <2> QED BY <2>1, <2>2, <2>3
  <1> HIDE DEF G, n
  <1>4. PICK F \in [0 .. n -> Seq(T)] : F[0] = << >> /\ \A i \in 1 .. n : F[i] = G[i][F[i - 1]]
    <2> DEFINE U == Seq(T)  e == << >>
    <2>1. e \in U /\ n \in Nat /\ G \in [1 .. n -> [U -> U]]
      BY <1>1, <1>3
    <2> HIDE DEF U, e
    <2>2. \E F \in [0 .. n -> U] : Steps(F, e, n, G)
      BY <2>1, Recursion
    <2> QED BY <2>2 DEF U, e, Steps
  <1>5. \A i \in 1 .. n : F[i] = F[i - 1] \o b[i]
    <2>1. \A i \in 1 .. n : i - 1 \in 0 .. n
      BY <1>1
    <2>2. \A i \in 1 .. n : F[i - 1] \in Seq(T)
      BY <1>4, <2>1, Zenon
    <2> QED BY <1>3, <1>4, <2>2, Zenon
  <1>6. IsUpto(F)
    <2>1. \A i \in 0 .. n : i = 0 \/ i \in 1 .. n
      BY <1>1
    <2> QED BY <1>4, <1>5, <2>1
  <1>7. \A H : IsUpto(H) => H = F
    <2> SUFFICES ASSUME NEW H, IsUpto(H) PROVE H = F
      OBVIOUS
    <2>0. H = [i \in 0 .. n |-> H[i]] /\ F = [i \in 0 .. n |-> F[i]]
      BY <1>4
    <2>5. \A i \in 1 .. n : H[i] = H[i - 1] \o b[i]
      <3>1. \A i \in 1 .. n : i \in 0 .. n /\ i # 0
        BY <1>1
      <3> QED BY <3>1
    <2>6. H[0] = << >>
      BY <1>1
    <2> HIDE DEF IsUpto
    <2> DEFINE R == {i \in Nat : i <= n => H[i] = F[i]}
    <2>1. 0 \in R
      BY <1>4, <2>6
    <2>2. ASSUME NEW i \in R PROVE i + 1 \in R
      <3> SUFFICES ASSUME i + 1 <= n PROVE H[i + 1] = F[i + 1]
        OBVIOUS
      <3>1. i \in Nat /\ H[i] = F[i] /\ i + 1 \in 1 .. n /\ (i + 1) - 1 = i
        BY <1>1
      <3> QED BY <1>5, <2>5, <3>1
    <2>3. \A i \in Nat : i \in R
      <3> HIDE DEF R
      <3>1. R \in SUBSET Nat
        BY DEF R
      <3> QED BY <2>1, <2>2, <3>1, Induction
    <2>4. \A i \in 0 .. n : H[i] = F[i]
      BY <1>1, <2>3
    <2> QED BY <2>0, <2>4
  <1>8. Flatten(b) = F[n]
    BY <1>6, <1>7 DEF Flatten, n
  <1> QED BY <1>4, <1>5, <1>8 DEF n, Joins

(* Flatten holds what the lists hold, and what occurs in one of them, once *)
(* in it, occurs once.                                                     *)
THEOREM FlattenArray ==
    ASSUME NEW T, NEW b \in Seq(Seq(T))
    PROVE  /\ Flatten(b) \in Seq(T)
           /\ Elements(Flatten(b)) = UNION {Elements(b[i]) : i \in 1 .. Len(b)}
           /\ /\ \A i \in 1 .. Len(b) : Distinct(b[i])
              /\ \A i, j \in 1 .. Len(b) : i # j => Elements(b[i]) \cap Elements(b[j]) = {}
              => Distinct(Flatten(b))
  <1> DEFINE n == Len(b)
             Upto(i) == UNION {Elements(b[k]) : k \in 1 .. i}
             Apart == /\ \A i \in 1 .. n : Distinct(b[i])
                      /\ \A i, j \in 1 .. n : i # j => Elements(b[i]) \cap Elements(b[j]) = {}
  <1>1. n \in Nat /\ \A i \in 1 .. n : b[i] \in Seq(T)
    OBVIOUS
  <1>0. PICK F \in [0 .. n -> Seq(T)] : Flatten(b) = F[n] /\ Joins(F, b)
    BY FlattenFunction
  <1>2. F[0] = << >> /\ \A i \in 1 .. n : F[i] = F[i - 1] \o b[i]
    BY <1>0 DEF Joins
  <1> DEFINE R == {i \in Nat : i <= n => Elements(F[i]) = Upto(i) /\ (Apart => Distinct(F[i]))}
  <1>3. 0 \in R
    <2>1. Upto(0) = {}
      OBVIOUS
    <2> QED BY <1>2, <2>1, EmptyArray
  <1>4. ASSUME NEW i \in Nat, i + 1 <= n, Elements(F[i]) = Upto(i), Apart => Distinct(F[i])
        PROVE  Elements(F[i + 1]) = Upto(i + 1) /\ (Apart => Distinct(F[i + 1]))
    <2>1. i \in Nat /\ n \in Nat /\ i + 1 <= n
      BY <1>1, <1>4
    <2> HIDE DEF n
    <2>2. i + 1 \in 1 .. n /\ (i + 1) - 1 = i /\ i <= n /\ i \in 0 .. n
      BY <2>1
    <2>3. F[i] \in Seq(T) /\ b[i + 1] \in Seq(T)
      BY <1>0, <1>1, <2>2
    <2>4. F[i + 1] = F[i] \o b[i + 1]
      BY <1>2, <2>2
    <2>5. Upto(i + 1) = Upto(i) \cup Elements(b[i + 1])
      <3>1. \A k \in 1 .. i + 1 : k \in 1 .. i \/ k = i + 1
        BY <2>1
      <3>2. \A k \in 1 .. i : k \in 1 .. i + 1
        BY <2>1
      <3>3. i + 1 \in 1 .. i + 1
        BY <2>1
      <3> QED BY <3>1, <3>2, <3>3
    <2>6. Apart => Upto(i) \cap Elements(b[i + 1]) = {} /\ Distinct(b[i + 1])
      <3>1. \A k \in 1 .. i : k \in 1 .. n /\ k # i + 1
        BY <2>1, <2>2
      <3>2. Apart => \A k \in 1 .. i : Elements(b[k]) \cap Elements(b[i + 1]) = {}
        BY <2>2, <3>1
      <3> QED BY <2>2, <3>2, ZenonT(60)
    <2> HIDE DEF Upto, Apart
    <2>7. /\ Elements(F[i] \o b[i + 1]) = Elements(F[i]) \cup Elements(b[i + 1])
          /\ Distinct(F[i]) /\ Distinct(b[i + 1]) /\ Elements(F[i]) \cap Elements(b[i + 1]) = {}
               => Distinct(F[i] \o b[i + 1])
      BY <2>3, ConcatArray
    <2> QED BY <1>4, <2>4, <2>5, <2>6, <2>7, Zenon
  <1>5. n \in R
    <2> HIDE DEF R
    <2>1. R \in SUBSET Nat
      BY DEF R
    <2>2. ASSUME NEW i \in R PROVE i + 1 \in R
      <3>1. i \in Nat /\ (i <= n => Elements(F[i]) = Upto(i) /\ (Apart => Distinct(F[i])))
        BY DEF R
      <3> HIDE DEF Upto, Apart, n
      <3>2. i + 1 \in Nat /\ (i + 1 <= n => i <= n)
        BY <1>1, <3>1
      <3> QED BY <1>4, <3>1, <3>2 DEF R
    <2> QED BY <1>1, <1>3, <2>1, <2>2, Induction
  <1> HIDE DEF Apart
  <1>6. Elements(F[n]) = Upto(n) /\ (Apart => Distinct(F[n]))
    BY <1>1, <1>5
  <1>7. F[n] \in Seq(T)
    BY <1>0, <1>1
  <1> QED BY <1>0, <1>6, <1>7 DEF Apart
=============================================================================
