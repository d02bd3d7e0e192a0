--------------------------- MODULE HashTableProofs ---------------------------
(***************************************************************************)
(* What holds of the hash table for any number of keys, entries and        *)
(* threads.                                                                *)
(*                                                                         *)
(* The table is described by its entries, not by its places: Chained says  *)
(* which entries a chain holds, and the operations on chains, folds over   *)
(* lists, are known by the elements of their results (ArrayProofs).  Only  *)
(* EachExact needs the places: as long as an iteration counts on them no   *)
(* chain is rebuilt, and ADD_DIRECT moves a chain by one.                  *)
(***************************************************************************)
EXTENDS HashTable, ArrayProofs, FiniteSetTheorems, FunctionTheorems

EntryType == [key : Key \cup {Nil}, val : Val \cup {Absent}, hash : Nat, live : BOOLEAN]
EachType == [active : BOOLEAN, table : TableAddr \cup {Nil}, bin : Nat,
             ptr : EntryAddr \cup {Nil}, seen : TableAddr \cup {Nil}, moved : BOOLEAN,
             due : SUBSET Key, done : SUBSET Key]

TypeInv ==
    /\ tbl \in TableAddr
    /\ bins \in Seq(Seq(EntryAddr)) /\ Len(bins) \in Nat \ {0}
    /\ entry \in [EntryAddr -> EntryType]
    /\ iter_lev \in Nat /\ deleted \in BOOLEAN
    /\ each \in [Thread -> EachType]

(* The entry e of the table en belongs in chain i of n.                    *)
Belongs(en, e, i, n) == en[e].live /\ BinOf(en[e].hash, n) = i
ChainedIn(b, en) ==
    \A i \in 1 .. Len(b) :
        /\ Distinct(b[i])
        /\ \A e \in EntryAddr : e \in Elements(b[i]) <=> Belongs(en, e, i, Len(b))
Chained == ChainedIn(bins, entry)

Live == {e \in EntryAddr : entry[e].live}
Held == {e \in EntryAddr : entry[e].live /\ entry[e].key # Nil}
Keyed ==
    /\ \A e \in Held : entry[e].hash = Hash[entry[e].key]
    /\ \A d, e \in Held : entry[d].key = entry[e].key => d = e
Counted == num_entries = Cardinality(Held)
Cleaned == Held # Live => deleted /\ iter_lev > 0

Active == {t \in Thread : each[t].active}
Iterating ==
    /\ IsFiniteSet(Active) /\ iter_lev = Cardinality(Active)
    /\ \A t \in Active : each[t].seen = each[t].table

TableInv == TypeInv /\ Chained /\ Keyed /\ Counted /\ Cleaned /\ Iterating
-----------------------------------------------------------------------------
(* Chains.                                                                 *)

LEMMA BinOfType ==
    ASSUME NEW h \in Nat, NEW n \in Nat \ {0}
    PROVE  BinOf(h, n) \in 1 .. n
BY DEF BinOf

LEMMA NewSize ==
    ASSUME NEW n \in 0 .. Cardinality(EntryAddr) + 1
    PROVE  new_size(n) \in Nat \ {0}
<1> DEFINE fits == {i \in 1 .. Len(primes) : MINSIZE * 2 ^ (i - 1) > n}
<1>0. PICK p \in 1 .. Len(primes) : MINSIZE * 2 ^ (p - 1) > n
  BY HashAssumption, Zenon
<1>1. fits # {} /\ fits \in SUBSET Nat
  <2>1. p \in fits
    BY <1>0, Zenon
  <2>2. \A j \in 1 .. Len(primes) : j \in Nat
    OBVIOUS
  <2>3. \A j \in fits : j \in Nat
    BY <2>2, Zenon
  <2> HIDE DEF fits
  <2> QED BY <2>1, <2>3
<1>2. \E i \in fits : \A j \in fits : i <= j
  BY <1>1, Smallest
<1>3. (CHOOSE i \in fits : \A j \in fits : i <= j) \in fits
  BY <1>2
<1>4. fits \subseteq 1 .. Len(primes)
  OBVIOUS
<1> HIDE DEF fits
<1>5. \A i \in 1 .. Len(primes) : primes[i] \in Nat \ {0}
  BY HashAssumption
<1>6. primes[CHOOSE i \in fits : \A j \in fits : i <= j] \in Nat \ {0}
  BY <1>3, <1>4, <1>5
<1> QED BY <1>6 DEF new_size, fits

(* Of an entry in the table there is one place.                            *)
LEMMA InOrderArray ==
    ASSUME TypeInv, Chained
    PROVE  InOrder \in Seq(EntryAddr) /\ Elements(InOrder) = Live /\ Distinct(InOrder)
<1> DEFINE n == Len(bins)
<1>1. /\ bins \in Seq(Seq(EntryAddr)) /\ n \in Nat \ {0}
      /\ \A i \in 1 .. n : Distinct(bins[i])
      /\ \A i \in 1 .. n : Elements(bins[i]) \subseteq EntryAddr
      /\ \A i \in 1 .. n : \A e \in EntryAddr : e \in Elements(bins[i]) <=> Belongs(entry, e, i, n)
  <2>1. ASSUME NEW i \in 1 .. n PROVE Elements(bins[i]) \subseteq EntryAddr
    BY DEF TypeInv, Elements
  <2> QED BY <2>1 DEF TypeInv, Chained, ChainedIn
<1> HIDE DEF n
<1>2. \A i, j \in 1 .. n : i # j => Elements(bins[i]) \cap Elements(bins[j]) = {}
  BY <1>1 DEF Belongs
<1>3. /\ Flatten(bins) \in Seq(EntryAddr) /\ Distinct(Flatten(bins))
      /\ Elements(Flatten(bins)) = UNION {Elements(bins[i]) : i \in 1 .. n}
  BY <1>1, <1>2, FlattenArray DEF n
<1>4. ASSUME NEW e \in EntryAddr, entry[e].live
      PROVE  BinOf(entry[e].hash, n) \in 1 .. n /\ e \in Elements(bins[BinOf(entry[e].hash, n)])
  <2>1. entry[e].hash \in Nat
    BY DEF TypeInv, EntryType
  <2> QED BY <1>1, <1>4, <2>1, BinOfType DEF Belongs
<1>5. UNION {Elements(bins[i]) : i \in 1 .. n} = Live
  BY <1>1, <1>4 DEF Belongs, Live
<1> QED BY <1>3, <1>5 DEF InOrder

(* A list of lists, given by its members.                                  *)
LEMMA ListOfLists ==
    ASSUME NEW n \in Nat, NEW b, b \in [1 .. n -> Seq(EntryAddr)]
    PROVE  b \in Seq(Seq(EntryAddr)) /\ Len(b) = n
OBVIOUS

LEMMA RebinnedChains ==
    ASSUME TypeInv, Chained, NEW n \in Nat \ {0}
    PROVE  /\ Rebinned(n) \in Seq(Seq(EntryAddr)) /\ Len(Rebinned(n)) = n
           /\ ChainedIn(Rebinned(n), entry)
<1> DEFINE S(i) == {e \in EntryAddr : BinOf(entry[e].hash, n) = i}
           b == Rebinned(n)
<1>1. ASSUME NEW i \in 1 .. n
      PROVE  LET q == Reversed(Filter(InOrder, S(i)))
             IN  q \in Seq(EntryAddr) /\ Elements(q) = Live \cap S(i) /\ Distinct(q)
  <2>1. /\ Filter(InOrder, S(i)) \in Seq(EntryAddr) /\ Distinct(Filter(InOrder, S(i)))
        /\ Elements(Filter(InOrder, S(i))) = Live \cap S(i)
    BY InOrderArray, FilterArray
  <2> QED BY <2>1, ReversedArray
<1>2. b = [i \in 1 .. n |-> Reversed(Filter(InOrder, S(i)))]
  BY DEF Rebinned
<1>3. \A i \in 1 .. n : b[i] \in Seq(EntryAddr) /\ Elements(b[i]) = Live \cap S(i) /\ Distinct(b[i])
  BY <1>1, <1>2
<1>4. b \in [1 .. n -> Seq(EntryAddr)]
  BY <1>1, <1>2
<1> HIDE DEF b
<1>5. b \in Seq(Seq(EntryAddr)) /\ Len(b) = n
  BY <1>4, ListOfLists
<1>6. ChainedIn(b, entry)
  BY <1>3, <1>5 DEF ChainedIn, Belongs, Live
<1> QED BY <1>5, <1>6 DEF b

LEMMA HeldFinite ==
    /\ IsFiniteSet(Held) /\ Cardinality(Held) \in Nat /\ Cardinality(EntryAddr) \in Nat
    /\ Cardinality(Held) <= Cardinality(EntryAddr)
<1>1. Held \in SUBSET EntryAddr
  BY DEF Held
<1> QED BY <1>1, HashAssumption, FS_Subset, FS_CardinalityType

(* A table that is full has fewer bins than entries.                       *)
LEMMA GrownChains ==
    ASSUME TypeInv, Chained, Counted
    PROVE  /\ Grown \in Seq(Seq(EntryAddr)) /\ Len(Grown) \in Nat \ {0}
           /\ ChainedIn(Grown, entry)
<1>1. CASE Full
  <2>1. num_entries \in Nat /\ num_bins \in Nat \ {0} /\ num_entries <= Cardinality(EntryAddr)
    BY HeldFinite DEF Counted, TypeInv, num_bins
  <2>2. num_bins <= num_entries
    BY <1>1, <2>1, HashAssumption DEF Full
  <2>3. num_bins + 1 \in 0 .. Cardinality(EntryAddr) + 1
    BY <2>1, <2>2, HeldFinite
  <2>4. new_size(num_bins + 1) \in Nat \ {0}
    BY <2>3, NewSize
  <2> QED BY <1>1, <2>4, RebinnedChains DEF Grown
<1>2. CASE ~Full
  BY <1>2 DEF Grown, TypeInv, Chained
<1> QED BY <1>1, <1>2

(* FIND_ENTRY finds the entry of the key.                                  *)
LEMMA Finding ==
    ASSUME TypeInv, Chained, Keyed, NEW k \in Key
    PROVE  /\ Has(k) <=> \E e \in Held : entry[e].key = k
           /\ Has(k) => Found(k) \in Held /\ entry[Found(k)].key = k
<1> DEFINE c == Chain(k)  b == BinOf(Hash[k], num_bins)
<1>1. Hash[k] \in Nat /\ k # Nil /\ num_bins \in Nat \ {0}
  BY HashAssumption DEF TypeInv, num_bins
<1>2. b \in 1 .. num_bins
  BY <1>1, BinOfType
<1>3. c = bins[b] /\ c \in Seq(EntryAddr)
  BY <1>2 DEF Chain, TypeInv, num_bins
<1>4. \A e \in EntryAddr : e \in Elements(c) <=> Belongs(entry, e, b, num_bins)
  BY <1>2, <1>3 DEF Chained, ChainedIn, num_bins
<1>5. DOMAIN c = 1 .. Len(c) /\ \A j \in 1 .. Len(c) : c[j] \in EntryAddr
  BY <1>3
<1> HIDE DEF b
<1>6. Has(k) <=> \E e \in Elements(c) : Matches(e, k)
  BY <1>5 DEF Has, Elements
<1>7. \A e \in Elements(c) : e \in EntryAddr
  BY <1>5 DEF Elements
<1> HIDE DEF c
<1>8. \A e \in Elements(c) : Matches(e, k) => e \in Held /\ entry[e].key = k
  BY <1>1, <1>4, <1>7 DEF Matches, Held, Belongs
<1>9. ASSUME NEW e \in Held, entry[e].key = k PROVE e \in Elements(c) /\ Matches(e, k)
  BY <1>4, <1>9 DEF Held, Keyed, Matches, Belongs, b
<1>10. Has(k) => Found(k) \in Elements(c) /\ Matches(Found(k), k)
  BY <1>6 DEF Found, c
<1> QED BY <1>6, <1>8, <1>9, <1>10

-----------------------------------------------------------------------------
(* Hash#[]=                                                                *)

LEMMA ForgottenBooks ==
    ASSUME TypeInv, NEW K \in SUBSET Key
    PROVE  /\ Forgotten(K) \in [Thread -> EachType]
           /\ \A t \in Thread : /\ Forgotten(K)[t].active = each[t].active
                                /\ Forgotten(K)[t].seen = each[t].seen
                                /\ Forgotten(K)[t].table = each[t].table
                                /\ Forgotten(K)[t].ptr = each[t].ptr
                                /\ Forgotten(K)[t].bin = each[t].bin
                                /\ Forgotten(K)[t].moved = each[t].moved
                                /\ Forgotten(K)[t].due = each[t].due \ K
                                /\ Forgotten(K)[t].done = each[t].done \ K
<1>1. \A t \in Thread : each[t] \in EachType
  BY DEF TypeInv
<1>2. ASSUME NEW r \in EachType
      PROVE  [r EXCEPT !.due = @ \ K, !.done = @ \ K] \in EachType
  BY DEF EachType
<1> QED BY <1>1, <1>2 DEF Forgotten, EachType

LEMMA MovedBooks ==
    ASSUME TypeInv
    PROVE  /\ Moved \in [Thread -> EachType]
           /\ \A t \in Thread : /\ Moved[t].active = each[t].active
                                /\ Moved[t].seen = each[t].seen
                                /\ Moved[t].table = each[t].table
                                /\ Moved[t].ptr = each[t].ptr
           /\ \A t \in Thread : each[t].active => Moved[t].moved
<1>1. \A t \in Thread : each[t] \in EachType
  BY DEF TypeInv
<1>2. ASSUME NEW r \in EachType
      PROVE  [r EXCEPT !.moved = TRUE, !.due = {}, !.done = {}] \in EachType
  BY DEF EachType
<1> QED BY <1>1, <1>2 DEF Moved, EachType

(* The books agree on who iterates, and where.                             *)
LEMMA SameIterations ==
    ASSUME TypeInv, Iterating, iter_lev' = iter_lev,
           \A t \in Thread : /\ each'[t].active = each[t].active
                             /\ each'[t].seen = each[t].seen
                             /\ each'[t].table = each[t].table
    PROVE  Iterating' /\ Active' = Active
<1>1. Active' = Active
  BY DEF Active
<1> QED BY <1>1 DEF Iterating, Active

(* Chains are about the entries' hash values only.                         *)
LEMMA SameChains ==
    ASSUME NEW b, NEW en, ChainedIn(b, entry),
           \A e \in EntryAddr : en[e].live = entry[e].live /\ en[e].hash = entry[e].hash
    PROVE  ChainedIn(b, en)
BY DEF ChainedIn, Belongs

LEMMA StoreStep ==
    ASSUME TableInv, NEW k \in Key, NEW v \in Val, Has(k), rb_hash_aset(k, v)
    PROVE  /\ TableInv' /\ each' = each /\ bins' = bins
           /\ Held' = Held /\ \A e \in EntryAddr : entry'[e].key = entry[e].key
           /\ \A e \in Held : entry'[e].val = IF entry[e].key = k THEN v ELSE entry[e].val
<1> TypeInv /\ Chained /\ Keyed /\ Counted /\ Cleaned /\ Iterating
  BY DEF TableInv
<1> DEFINE d == Found(k)
<1>1. d \in EntryAddr /\ d \in Held /\ entry[d].key = k
  BY Finding DEF Held
<1>2. entry' = [entry EXCEPT ![d].val = v] /\ UNCHANGED <<bins, num_entries, each, tbl, iter_lev, deleted>>
  BY DEF rb_hash_aset
<1> HIDE DEF d
<1>3. \A e \in EntryAddr : entry[e] \in EntryType
  BY DEF TypeInv
<1>4. /\ entry' \in [EntryAddr -> EntryType]
      /\ \A e \in EntryAddr : /\ entry'[e].key = entry[e].key /\ entry'[e].hash = entry[e].hash
                              /\ entry'[e].live = entry[e].live
                              /\ entry'[e].val = IF e = d THEN v ELSE entry[e].val
  <2>1. [entry[d] EXCEPT !.val = v] \in EntryType
    BY <1>1, <1>3 DEF EntryType
  <2>2. entry' = [entry EXCEPT ![d] = [entry[d] EXCEPT !.val = v]]
    BY <1>2
  <2> QED BY <1>1, <1>3, <2>1, <2>2 DEF TypeInv, EntryType
<1>5. Held' = Held /\ Live' = Live
  BY <1>4 DEF Held, Live
<1>6. Chained'
  BY <1>2, <1>4, SameChains DEF Chained
<1>7. Keyed' /\ Counted' /\ Cleaned'
  <2>1. \A e \in Held : e \in EntryAddr
    BY DEF Held
  <2>2. Keyed'
    BY <1>4, <1>5, <2>1 DEF Keyed
  <2> QED BY <1>2, <1>5, <2>2 DEF Counted, Cleaned
<1>8. TypeInv' /\ Iterating'
  BY <1>2, <1>4 DEF TypeInv, Iterating, Active
<1>9. \A e \in Held : entry'[e].val = IF entry[e].key = k THEN v ELSE entry[e].val
  BY <1>1, <1>4 DEF Keyed, Held
<1> QED BY <1>2, <1>4, <1>5, <1>6, <1>7, <1>8, <1>9 DEF TableInv

(* An entry of its own for a key that is not there.                        *)
LEMMA AddStep ==
    ASSUME TableInv, NEW k \in Key, NEW v \in Val, ~Has(k), rb_hash_aset(k, v)
    PROVE  /\ TableInv'
           /\ \E n \in Unused :
                 /\ Held' = Held \cup {n} /\ entry'[n].key = k /\ entry'[n].val = v
                 /\ \A e \in EntryAddr \ {n} : entry'[e] = entry[e]
                 /\ bins' = [Grown EXCEPT ![BinOf(Hash[k], Len(Grown))] = <<n>> \o @]
<1> TypeInv /\ Chained /\ Keyed /\ Counted /\ Cleaned /\ Iterating
  BY DEF TableInv
<1>0. Hash[k] \in Nat /\ k # Nil /\ \A e \in Held : entry[e].key # k
  BY HashAssumption, Finding
<1> DEFINE G == Grown  g == Len(G)  b == BinOf(Hash[k], g)
           r == [key |-> k, val |-> v, hash |-> Hash[k], live |-> TRUE]
<1>1. PICK n \in Unused :
        /\ entry' = [entry EXCEPT ![n] = r]
        /\ bins' = [G EXCEPT ![b] = <<n>> \o @]
        /\ num_entries' = num_entries + 1
  BY DEF rb_hash_aset, AddDirect
<1>2. /\ G \in Seq(Seq(EntryAddr)) /\ g \in Nat \ {0} /\ b \in 1 .. g /\ ChainedIn(G, entry)
  BY <1>0, GrownChains, BinOfType
<1>3. n \in EntryAddr /\ ~entry[n].live /\ n \notin Held /\ n \notin Live
  BY DEF Unused, Held, Live
<1>4. /\ entry' \in [EntryAddr -> EntryType] /\ entry'[n] = r
      /\ \A e \in EntryAddr \ {n} : entry'[e] = entry[e]
  <2>1. r \in EntryType
    BY <1>0 DEF EntryType
  <2> HIDE DEF r
  <2> QED BY <1>1, <1>3, <2>1 DEF TypeInv
<1>5. Held' = Held \cup {n} /\ Live' = Live \cup {n}
  BY <1>0, <1>3, <1>4 DEF Held, Live
<1>6. Keyed'
  BY <1>0, <1>3, <1>4, <1>5 DEF Keyed, Held
<1>7. Counted'
  BY <1>1, <1>3, <1>5, FS_AddElement, HeldFinite DEF Counted
<1>8. Cleaned'
  BY <1>3, <1>5 DEF Cleaned, rb_hash_aset, Held, Live
<1>9. Iterating' /\ each' \in [Thread -> EachType]
  <2>1. CASE each' = Moved
    <3>1. iter_lev' = iter_lev
      BY DEF rb_hash_aset
    <3>2. \A t \in Thread : /\ Moved[t].active = each[t].active
                            /\ Moved[t].seen = each[t].seen
                            /\ Moved[t].table = each[t].table
      BY MovedBooks
    <3>3. \A t \in Thread : /\ each'[t].active = each[t].active
                            /\ each'[t].seen = each[t].seen
                            /\ each'[t].table = each[t].table
      BY <2>1, <3>2, Zenon
    <3> QED BY <2>1, <3>1, <3>3, MovedBooks, SameIterations
  <2>2. CASE each' = each
    BY <2>2, SameIterations DEF rb_hash_aset, TypeInv
  <2> QED BY <2>1, <2>2 DEF rb_hash_aset
<1> HIDE DEF G, b, r
<1>10. /\ bins' \in Seq(Seq(EntryAddr)) /\ Len(bins') = g
       /\ bins'[b] = <<n>> \o G[b] /\ \A i \in (1 .. g) \ {b} : bins'[i] = G[i]
  <2>1. G[b] \in Seq(EntryAddr) /\ <<n>> \o G[b] \in Seq(EntryAddr)
    BY <1>2, <1>3
  <2>2. bins' \in [1 .. g -> Seq(EntryAddr)]
    BY <1>1, <1>2, <2>1
  <2> QED BY <1>1, <1>2, <2>1, <2>2, ListOfLists
<1>11. /\ Elements(bins'[b]) = Elements(G[b]) \cup {n} /\ Distinct(bins'[b])
  <2> DEFINE p == <<n>>  q == G[b]
  <2>1. p \in Seq(EntryAddr) /\ Elements(p) = {n} /\ Distinct(p)
    BY <1>3 DEF Elements, Distinct
  <2>2. q \in Seq(EntryAddr) /\ Distinct(q) /\ n \notin Elements(q)
    BY <1>2, <1>3 DEF ChainedIn, Belongs
  <2>3. bins'[b] = p \o q
    BY <1>10
  <2> HIDE DEF p, q
  <2>4. Elements(p) \cap Elements(q) = {}
    BY <2>1, <2>2
  <2>5. Elements(p \o q) = Elements(p) \cup Elements(q) /\ Distinct(p \o q)
    BY <2>1, <2>2, <2>4, ConcatArray
  <2>6. Elements(bins'[b]) = Elements(q) \cup {n} /\ Distinct(bins'[b])
    BY <2>1, <2>3, <2>5
  <2> QED BY <2>6 DEF q
<1>12. \A e \in EntryAddr, i \in 1 .. g : Belongs(entry', e, i, g) <=> Belongs(entry, e, i, g) \/ (e = n /\ i = b)
  BY <1>3, <1>4 DEF Belongs, r, b
<1>13. Chained'
  <2>1. ASSUME NEW i \in 1 .. g
        PROVE  Distinct(bins'[i]) /\ \A e \in EntryAddr : e \in Elements(bins'[i]) <=> Belongs(entry', e, i, g)
    <3>1. CASE i = b
      BY <1>2, <1>11, <1>12, <3>1 DEF ChainedIn
    <3>2. CASE i # b
      BY <1>2, <1>10, <1>12, <3>2 DEF ChainedIn
    <3> QED BY <3>1, <3>2
  <2> QED BY <1>10, <2>1 DEF Chained, ChainedIn
<1>14. TypeInv'
  BY <1>2, <1>4, <1>9, <1>10 DEF TypeInv, rb_hash_aset
<1>15. entry'[n].key = k /\ entry'[n].val = v
  BY <1>4 DEF r
<1> QED BY <1>1, <1>4, <1>5, <1>6, <1>7, <1>8, <1>9, <1>13, <1>14, <1>15 DEF TableInv, G, b

-----------------------------------------------------------------------------
(* Deletion.                                                               *)

Gone(K) == {e \in Held : entry[e].key \in K}

(* Sets of the same size.                                                  *)
LEMMA OneToOne ==
    ASSUME NEW S, NEW T, IsFiniteSet(S), NEW f \in [S -> T],
           \A x, y \in S : f[x] = f[y] => x = y,
           \A z \in T : \E x \in S : f[x] = z
    PROVE  Cardinality(T) = Cardinality(S)
<1>1. f \in Bijection(S, T)
  BY Fun_IsBij
<1>2. ExistsBijection(S, T)
  BY <1>1 DEF ExistsBijection
<1> QED BY <1>2, FS_Bijection

(* The entries that go are as many as the keys that are there.             *)
LEMMA GoneCount ==
    ASSUME TypeInv, Chained, Keyed, NEW K \in SUBSET Key
    PROVE  /\ Cardinality(Present(K)) = Cardinality(Gone(K))
           /\ Cardinality(Held \ Gone(K)) = Cardinality(Held) - Cardinality(Present(K))
<1> DEFINE f == [e \in Gone(K) |-> entry[e].key]
<1>1. \A k \in K : Has(k) <=> \E e \in Held : entry[e].key = k
  BY Finding
<1>2. f \in [Gone(K) -> Present(K)]
  BY <1>1 DEF Gone, Present
<1>3. \A d, e \in Gone(K) : f[d] = f[e] => d = e
  BY DEF Gone, Keyed
<1>4. \A k \in Present(K) : \E e \in Gone(K) : f[e] = k
  BY <1>1 DEF Gone, Present
<1> HIDE DEF f
<1>7. Gone(K) \in SUBSET Held /\ IsFiniteSet(Held)
  BY HeldFinite DEF Gone
<1>8. IsFiniteSet(Gone(K))
  BY <1>7, FS_Subset
<1>9. Cardinality(Present(K)) = Cardinality(Gone(K))
  BY <1>2, <1>3, <1>4, <1>8, OneToOne
<1>10. Cardinality(Held \ Gone(K)) = Cardinality(Held) - Cardinality(Held \cap Gone(K))
  BY <1>7, FS_Difference
<1>11. Held \cap Gone(K) = Gone(K)
  BY <1>7
<1> QED BY <1>9, <1>10, <1>11

LEMMA FreeType == Free \in EntryType
BY DEF Free, EntryType

(* The chains and the entries without those of K and the deleted ones.     *)
LEMMA CleanUp ==
    ASSUME TypeInv, Chained, NEW K \in SUBSET Key
    PROVE  /\ ChainedIn(Unchained(K), Dropped(K)) /\ Unchained(K) \in Seq(Seq(EntryAddr))
           /\ Len(Unchained(K)) = Len(bins) /\ Dropped(K) \in [EntryAddr -> EntryType]
           /\ \A e \in EntryAddr : Dropped(K)[e] = IF entry[e].live /\ entry[e].key \in K \cup {Nil}
                                                 THEN Free ELSE entry[e]
<1> DEFINE n == Len(bins)
           S == {e \in EntryAddr : entry[e].key \notin K \cup {Nil}}
           b == Unchained(K)
           en == Dropped(K)
<1>1. n \in Nat \ {0} /\ \A i \in 1 .. n : bins[i] \in Seq(EntryAddr)
  BY DEF TypeInv
<1>2. /\ en \in [EntryAddr -> EntryType]
      /\ \A e \in EntryAddr : en[e] = IF entry[e].live /\ entry[e].key \in K \cup {Nil} THEN Free ELSE entry[e]
  BY FreeType DEF TypeInv, Dropped
<1>3. \A i \in 1 .. n : Filter(bins[i], S) \in Seq(EntryAddr)
  BY <1>1, FilterArray
<1>4. b = [i \in 1 .. n |-> Filter(bins[i], S)]
  BY DEF Unchained, num_bins
<1>5. b \in [1 .. n -> Seq(EntryAddr)]
  BY <1>3, <1>4
<1>6. b \in Seq(Seq(EntryAddr)) /\ Len(b) = n
  BY <1>1, <1>5, ListOfLists
<1>7. \A i \in 1 .. n : b[i] = Filter(bins[i], S)
  BY <1>4
<1> HIDE DEF b, en
<1>8. ASSUME NEW i \in 1 .. n
      PROVE  Distinct(b[i]) /\ \A e \in EntryAddr : e \in Elements(b[i]) <=> Belongs(en, e, i, n)
  <2>1. Distinct(bins[i]) /\ \A e \in EntryAddr : e \in Elements(bins[i]) <=> Belongs(entry, e, i, n)
    BY DEF Chained, ChainedIn
  <2>2. Distinct(b[i]) /\ Elements(b[i]) = Elements(bins[i]) \cap S
    <3> HIDE DEF S
    <3>1. bins[i] \in Seq(EntryAddr) /\ b[i] = Filter(bins[i], S)
      BY <1>1, <1>7
    <3> QED BY <2>1, <3>1, FilterArray
  <2>3. \A e \in EntryAddr : Belongs(en, e, i, n) <=> Belongs(entry, e, i, n) /\ e \in S
    BY <1>2 DEF Belongs, Free
  <2> QED BY <2>1, <2>2, <2>3
<1>9. ChainedIn(b, en)
  BY <1>6, <1>8 DEF ChainedIn
<1> QED BY <1>2, <1>6, <1>9 DEF b, en

LEMMA RemoveStep ==
    ASSUME TableInv, NEW K \in SUBSET Key, Remove(K)
    PROVE  /\ TableInv' /\ Held' = Held \ Gone(K)
           /\ \A e \in Held' : entry'[e] = entry[e]
           /\ Active # {} => bins' = bins /\ Live' = Live
<1> TypeInv /\ Chained /\ Keyed /\ Counted /\ Cleaned /\ Iterating
  BY DEF TableInv
<1>0. Nil \notin K /\ \A e \in EntryAddr : entry[e] \in EntryType
  BY HashAssumption DEF TypeInv
<1>1. /\ num_entries' = num_entries - Cardinality(Present(K))
      /\ each' = Forgotten(K) /\ UNCHANGED <<tbl, iter_lev>>
  BY DEF Remove
<1>2. each' \in [Thread -> EachType] /\ Iterating' /\ Active' = Active
  <2>1. \A t \in Thread : /\ Forgotten(K)[t].active = each[t].active
                          /\ Forgotten(K)[t].seen = each[t].seen
                          /\ Forgotten(K)[t].table = each[t].table
    BY ForgottenBooks
  <2>2. \A t \in Thread : /\ each'[t].active = each[t].active
                          /\ each'[t].seen = each[t].seen
                          /\ each'[t].table = each[t].table
    BY <1>1, <2>1, Zenon
  <2> QED BY <1>1, <2>2, ForgottenBooks, SameIterations
<1>3. Active # {} => iter_lev > 0
  BY FS_EmptySet, FS_CardinalityType DEF Iterating
<1>4. ASSUME Held' = Held \ Gone(K) PROVE Counted'
  BY <1>1, <1>4, GoneCount DEF Counted
<1>5. CASE iter_lev > 0
  <2>1. entry' = Voided(K) /\ deleted' = (deleted \/ Present(K) # {}) /\ bins' = bins
    BY <1>5 DEF Remove, TypeInv
  <2>2. \A e \in EntryAddr : [entry[e] EXCEPT !.key = Nil, !.val = Absent] \in EntryType
    BY <1>0 DEF EntryType
  <2>3. entry' \in [EntryAddr -> EntryType]
    BY <1>0, <2>1, <2>2 DEF Voided
  <2>4. \A e \in EntryAddr :
          /\ entry'[e].live = entry[e].live /\ entry'[e].hash = entry[e].hash
          /\ entry[e].live /\ entry[e].key \in K => entry'[e].key = Nil
          /\ ~(entry[e].live /\ entry[e].key \in K) => entry'[e] = entry[e]
    BY <1>0, <2>1 DEF Voided, EntryType
  <2>5. Held' = Held \ Gone(K) /\ Live' = Live
    BY <1>0, <2>4 DEF Held, Live, Gone
  <2>6. \A e \in Held' : e \in Held /\ entry'[e] = entry[e]
    BY <1>0, <2>4, <2>5 DEF Held, Gone
  <2>7. Keyed'
    BY <2>6 DEF Keyed
  <2>8. Chained'
    BY <2>1, <2>4, SameChains DEF Chained
  <2>9. Cleaned'
    <3>1. Gone(K) # {} => Present(K) # {}
      BY Finding DEF Gone, Present
    <3> QED BY <1>1, <1>5, <2>1, <2>5, <3>1 DEF Cleaned
  <2>10. TypeInv'
    BY <1>1, <1>2, <2>1, <2>3 DEF TypeInv
  <2> QED BY <1>2, <1>4, <2>1, <2>5, <2>6, <2>7, <2>8, <2>9, <2>10 DEF TableInv
<1>6. CASE iter_lev = 0
  <2>1. entry' = Dropped(K) /\ deleted' = deleted /\ bins' = Unchained(K)
    BY <1>6 DEF Remove
  <2>2. /\ ChainedIn(bins', entry') /\ bins' \in Seq(Seq(EntryAddr)) /\ Len(bins') = Len(bins)
        /\ entry' \in [EntryAddr -> EntryType]
    BY <2>1, CleanUp
  <2>3. \A e \in EntryAddr : entry'[e] = IF entry[e].live /\ entry[e].key \in K \cup {Nil} THEN Free ELSE entry[e]
    BY <2>1, CleanUp
  <2>4. Held' = Held \ Gone(K) /\ Live' = Held'
    BY <2>3 DEF Held, Live, Gone, Free
  <2>5. \A e \in Held' : e \in Held /\ entry'[e] = entry[e]
    BY <2>3, <2>4 DEF Held, Gone
  <2>6. Keyed'
    BY <2>5 DEF Keyed
  <2>7. Chained' /\ TypeInv'
    BY <1>1, <1>2, <2>1, <2>2 DEF Chained, TypeInv
  <2>8. Cleaned'
    BY <2>4 DEF Cleaned
  <2> QED BY <1>2, <1>3, <1>4, <1>6, <2>4, <2>5, <2>6, <2>7, <2>8 DEF TableInv
<1> QED BY <1>5, <1>6 DEF TypeInv

-----------------------------------------------------------------------------
(* Hash#rehash                                                             *)

LEMMA CopiedEntries ==
    ASSUME TypeInv, Chained
    PROVE  Copied \in Seq(EntryAddr) /\ Elements(Copied) = Held /\ Distinct(Copied)
<1> DEFINE S == {e \in EntryAddr : entry[e].key # Nil}
<1>1. Live \cap S = Held
  BY DEF Live, Held
<1>2. Copied = Filter(InOrder, S)
  BY DEF Copied
<1> HIDE DEF S
<1> QED BY <1>1, <1>2, InOrderArray, FilterArray, ZenonT(60)

(* A list of other names for the members of q.                             *)
Renamed(q, f) == [j \in 1 .. Len(q) |-> f[q[j]]]
LEMMA RenamedArray ==
    ASSUME NEW S, NEW T, NEW q \in Seq(S), Distinct(q), NEW f \in [Elements(q) -> T],
           \A d, e \in Elements(q) : f[d] = f[e] => d = e
    PROVE  /\ Renamed(q, f) \in Seq(T) /\ Elements(Renamed(q, f)) = {f[d] : d \in Elements(q)}
           /\ Distinct(Renamed(q, f))
<1> DEFINE n == Len(q)  new == Renamed(q, f)
<1>1. n \in Nat /\ \A j \in 1 .. n : q[j] \in Elements(q)
  BY DEF Elements
<1>2. \A j \in 1 .. n : f[q[j]] \in T
  BY <1>1
<1>3. new \in Seq(T) /\ Len(new) = n /\ \A j \in 1 .. n : new[j] = f[q[j]]
  BY <1>1, <1>2 DEF Renamed
<1> HIDE DEF new
<1>4. Elements(new) = {f[d] : d \in Elements(q)}
  BY <1>3, SMTT(30) DEF Elements
<1>5. Distinct(new)
  BY <1>1, <1>3 DEF Distinct
<1> QED BY <1>3, <1>4, <1>5 DEF new

LEMMA RehashStep ==
    ASSUME TableInv, rb_hash_rehash
    PROVE  /\ TableInv' /\ each' = Moved
           /\ \E f \in [Held -> EntryAddr] :
                 /\ \A d, e \in Held : f[d] = f[e] => d = e
                 /\ Held' = {f[d] : d \in Held}
                 /\ \A d \in Held : entry'[f[d]] = entry[d]
<1> TypeInv /\ Chained /\ Keyed /\ Counted /\ Cleaned /\ Iterating
  BY DEF TableInv
<1> DEFINE n == new_size(num_entries)
<1>1. /\ Elements(Copied) = Held /\ Copied \in Seq(EntryAddr) /\ Distinct(Copied)
      /\ Unused \subseteq EntryAddr /\ Held \subseteq EntryAddr
  BY CopiedEntries DEF Unused, Held
<1>0. PICK a \in TableAddr \ {tbl}, f \in [Elements(Copied) -> Unused] :
        /\ \A d, e \in Elements(Copied) : d # e => f[d] # f[e]
        /\ tbl' = a
        /\ entry' = [e \in EntryAddr |->
                        IF \E d \in Elements(Copied) : f[d] = e
                        THEN entry[CHOOSE d \in Elements(Copied) : f[d] = e] ELSE Free]
        /\ bins' = [i \in 1 .. n |->
                       Reversed(Filter([j \in 1 .. Len(Copied) |-> f[Copied[j]]],
                                       {e \in EntryAddr : BinOf(entry'[e].hash, n) = i}))]
        /\ each' = Moved
        /\ UNCHANGED <<num_entries, iter_lev, deleted>>
  BY DEF rb_hash_rehash
<1>2. /\ f \in [Held -> Unused]
      /\ \A d, e \in Held : d # e => f[d] # f[e]
      /\ entry' = [e \in EntryAddr |->
                      IF \E d \in Held : f[d] = e
                      THEN entry[CHOOSE d \in Held : f[d] = e] ELSE Free]
  BY <1>0, <1>1
<1> DEFINE new == Renamed(Copied, f)
           S(i) == {e \in EntryAddr : BinOf(entry'[e].hash, n) = i}
           R == {f[d] : d \in Held}
<1>3. f \in [Held -> EntryAddr] /\ \A d, e \in Held : f[d] = f[e] => d = e
  BY <1>1, <1>2
<1>4. new \in Seq(EntryAddr) /\ Elements(new) = R /\ Distinct(new)
  <2>1. f \in [Elements(Copied) -> EntryAddr] /\ \A d, e \in Elements(Copied) : f[d] = f[e] => d = e
    BY <1>1, <1>3
  <2>2. Elements(new) = {f[d] : d \in Elements(Copied)} /\ new \in Seq(EntryAddr) /\ Distinct(new)
    BY <1>1, <2>1, RenamedArray
  <2> QED BY <1>1, <2>2
<1>5. n \in Nat \ {0}
  <2>1. num_entries \in 0 .. Cardinality(EntryAddr) + 1
    BY HeldFinite DEF Counted
  <2> QED BY <2>1, NewSize
<1> HIDE DEF n
<1>6. ASSUME NEW d \in Held PROVE entry'[f[d]] = entry[d] /\ f[d] \in EntryAddr
  <2>1. (CHOOSE c \in Held : f[c] = f[d]) = d
    BY <1>3
  <2> QED BY <1>2, <1>3, <2>1
<1>7. \A e \in EntryAddr : e \notin R => entry'[e] = Free
  BY <1>2
<1>8. entry' \in [EntryAddr -> EntryType]
  <2>1. \A e \in EntryAddr : entry'[e] \in EntryType
    BY <1>1, <1>6, <1>7, FreeType DEF TypeInv
  <2>2. DOMAIN entry' = EntryAddr /\ entry' = [e \in EntryAddr |-> entry'[e]]
    BY <1>2
  <2> QED BY <2>1, <2>2
<1>9. Held' = R /\ Live' = R
  <2>1. R \subseteq EntryAddr
    BY <1>3
  <2>2. \A e \in R : entry'[e].live /\ entry'[e].key # Nil
    BY <1>6 DEF Held
  <2>3. \A e \in EntryAddr : e \notin R => ~entry'[e].live
    BY <1>7 DEF Free
  <2> HIDE DEF R
  <2> QED BY <2>1, <2>2, <2>3 DEF Held, Live
<1>10. Keyed'
  BY <1>3, <1>6, <1>9 DEF Keyed
<1>11. Counted'
  <2>1. f \in [Held -> R]
    BY <1>3
  <2>2. \A z \in R : \E d \in Held : f[d] = z
    OBVIOUS
  <2> HIDE DEF R
  <2>3. Cardinality(R) = Cardinality(Held)
    BY <1>3, <2>1, <2>2, HeldFinite, OneToOne
  <2> QED BY <1>0, <1>9, <2>3 DEF Counted
<1>12. Cleaned'
  BY <1>9 DEF Cleaned
<1>13. Iterating' /\ each' \in [Thread -> EachType]
  <2>1. \A t \in Thread : /\ Moved[t].active = each[t].active
                          /\ Moved[t].seen = each[t].seen
                          /\ Moved[t].table = each[t].table
    BY MovedBooks
  <2>2. each' = Moved /\ iter_lev' = iter_lev
    BY <1>0
  <2>3. \A t \in Thread : /\ each'[t].active = each[t].active
                          /\ each'[t].seen = each[t].seen
                          /\ each'[t].table = each[t].table
    BY <2>1, <2>2, Zenon
  <2> QED BY <2>2, <2>3, MovedBooks, SameIterations
<1>14. bins' = [i \in 1 .. n |-> Reversed(Filter(new, S(i)))]
  BY <1>0 DEF Renamed
<1> HIDE DEF new
<1>15. \A i \in 1 .. n : LET q == Reversed(Filter(new, S(i)))
                        IN  q \in Seq(EntryAddr) /\ Elements(q) = R \cap S(i) /\ Distinct(q)
  <2>1. ASSUME NEW i \in 1 .. n
        PROVE  LET q == Reversed(Filter(new, S(i)))
               IN  q \in Seq(EntryAddr) /\ Elements(q) = R \cap S(i) /\ Distinct(q)
    <3>1. /\ Filter(new, S(i)) \in Seq(EntryAddr) /\ Distinct(Filter(new, S(i)))
          /\ Elements(Filter(new, S(i))) = R \cap S(i)
      BY <1>4, FilterArray
    <3> QED BY <3>1, ReversedArray
  <2> QED BY <2>1
<1>16. \A i \in 1 .. n : bins'[i] \in Seq(EntryAddr) /\ Elements(bins'[i]) = R \cap S(i) /\ Distinct(bins'[i])
  BY <1>14, <1>15
<1>17. bins' \in Seq(Seq(EntryAddr)) /\ Len(bins') = n
  <2>1. bins' \in [1 .. n -> Seq(EntryAddr)]
    BY <1>14, <1>15
  <2> QED BY <1>5, <2>1, ListOfLists
<1>18. Chained'
  <2>1. \A i \in 1 .. n : \A e \in EntryAddr : e \in R \cap S(i) <=> Belongs(entry', e, i, n)
    BY <1>9 DEF Belongs, Live
  <2> QED BY <1>16, <1>17, <2>1 DEF Chained, ChainedIn
<1>19. TypeInv'
  BY <1>0, <1>5, <1>8, <1>13, <1>17 DEF TypeInv
<1> QED BY <1>0, <1>3, <1>6, <1>9, <1>10, <1>11, <1>12, <1>13, <1>18, <1>19 DEF TableInv

-----------------------------------------------------------------------------
(* Places.                                                                 *)

LEMMA PlaceFacts ==
    ASSUME TypeInv
    PROVE  /\ \A p \in Places : /\ p[1] \in 1 .. num_bins /\ p[2] \in 1 .. Len(bins[p[1]])
                                /\ p = <<p[1], p[2]>>
                                /\ At(p) \in EntryAddr /\ At(p) \in Elements(bins[p[1]])
           /\ \A i \in 1 .. num_bins : \A j \in 1 .. Len(bins[i]) :
                 <<i, j>> \in Places /\ At(<<i, j>>) = bins[i][j]
<1>1. \A i \in 1 .. num_bins : bins[i] \in Seq(EntryAddr)
  BY DEF TypeInv, num_bins
<1>2. \A i \in 1 .. num_bins : \A j \in 1 .. Len(bins[i]) :
        <<i, j>> \in Places /\ At(<<i, j>>) = bins[i][j]
  BY DEF Places, At
<1>3. ASSUME NEW p \in Places
      PROVE  /\ p[1] \in 1 .. num_bins /\ p[2] \in 1 .. Len(bins[p[1]]) /\ p = <<p[1], p[2]>>
             /\ At(p) \in EntryAddr /\ At(p) \in Elements(bins[p[1]])
  <2>1. PICK i \in 1 .. num_bins : p \in {i} \X (1 .. Len(bins[i]))
    BY DEF Places
  <2>2. p[1] = i /\ p[2] \in 1 .. Len(bins[i]) /\ p = <<p[1], p[2]>>
    BY <2>1
  <2>3. At(p) = bins[i][p[2]]
    BY <2>2 DEF At
  <2> QED BY <1>1, <2>2, <2>3 DEF Elements
<1> QED BY <1>2, <1>3

(* st_foreach meets the places in an order.                                *)
LEMMA FirstPlace ==
    ASSUME TypeInv, NEW P \in SUBSET Places, P # {}
    PROVE  First(P) \in P /\ \A q \in P \ {First(P)} : Before(First(P), q)
<1>1. \A p \in P : /\ p[1] \in Nat /\ p[2] \in Nat /\ p = <<p[1], p[2]>>
  <2>1. ASSUME NEW p \in P PROVE p[1] \in Nat /\ p[2] \in Nat /\ p = <<p[1], p[2]>>
    BY PlaceFacts DEF TypeInv, num_bins
  <2> QED BY <2>1
<1> DEFINE I == {p[1] : p \in P}
<1>2. I \in SUBSET Nat /\ I # {}
  BY <1>1
<1>3. PICK i \in I : \A x \in I : i <= x
  BY <1>2, Smallest
<1> DEFINE J == {p[2] : p \in {q \in P : q[1] = i}}
<1>4. J \in SUBSET Nat /\ J # {}
  BY <1>1, <1>3
<1>5. PICK j \in J : \A x \in J : j <= x
  BY <1>4, Smallest
<1>6. PICK p \in P : p[1] = i /\ p[2] = j
  BY <1>5
<1>7. ASSUME NEW q \in P \ {p} PROVE Before(p, q)
  <2>1. i <= q[1] /\ (q[1] = i => j <= q[2])
    BY <1>3, <1>5
  <2>2. q[1] # i \/ q[2] # j
    BY <1>1, <1>6
  <2> QED BY <1>1, <1>6, <2>1, <2>2 DEF Before
<1>8. \E r \in P : \A q \in P \ {r} : Before(r, q)
  BY <1>7
<1> QED BY <1>8 DEF First

LEMMA ChainOf ==
    ASSUME TypeInv, Chained
    PROVE  /\ \A p \in Places : At(p) \in Live /\ BinOf(entry[At(p)].hash, num_bins) = p[1]
           /\ \A p, q \in Places : At(p) = At(q) => p = q
           /\ \A e \in Live : \E p \in Places : At(p) = e
<1>1. ASSUME NEW p \in Places
      PROVE  At(p) \in Live /\ BinOf(entry[At(p)].hash, num_bins) = p[1]
  <2>1. p[1] \in 1 .. num_bins /\ At(p) \in EntryAddr /\ At(p) \in Elements(bins[p[1]])
    BY PlaceFacts
  <2>2. Belongs(entry, At(p), p[1], num_bins)
    BY <2>1 DEF Chained, ChainedIn, num_bins
  <2> QED BY <2>1, <2>2 DEF Belongs, Live
<1>2. ASSUME NEW p \in Places, NEW q \in Places, At(p) = At(q)
      PROVE  p = q
  <2>1. p[1] = q[1]
    BY <1>1, <1>2
  <2>2. /\ p[1] \in 1 .. num_bins /\ p[2] \in 1 .. Len(bins[p[1]]) /\ p = <<p[1], p[2]>>
        /\ q[2] \in 1 .. Len(bins[q[1]]) /\ q = <<q[1], q[2]>>
    BY PlaceFacts
  <2>3. Distinct(bins[p[1]])
    BY <2>2 DEF Chained, ChainedIn, num_bins
  <2>4. p[2] = q[2]
    BY <1>2, <2>1, <2>2, <2>3 DEF Distinct, At
  <2> QED BY <2>1, <2>2, <2>4
<1>3. ASSUME NEW e \in Live PROVE \E p \in Places : At(p) = e
  <2> DEFINE i == BinOf(entry[e].hash, num_bins)
  <2>1. e \in EntryAddr /\ entry[e].hash \in Nat /\ num_bins \in Nat \ {0}
    BY DEF Live, TypeInv, EntryType, num_bins
  <2>2. i \in 1 .. num_bins
    BY <2>1, BinOfType
  <2>3. e \in Elements(bins[i])
    BY <2>1, <2>2 DEF Chained, ChainedIn, Belongs, Live, num_bins
  <2> HIDE DEF i
  <2>4. PICK j \in 1 .. Len(bins[i]) : bins[i][j] = e
    BY <2>3 DEF Elements
  <2> QED BY <2>2, <2>4, PlaceFacts
<1> QED BY <1>1, <1>2, <1>3

LEMMA UndeletedHeld ==
    ASSUME TypeInv, Chained
    PROVE  /\ Undeleted \in SUBSET Places
           /\ \A p \in Undeleted : At(p) \in Held
           /\ \A p \in Places : At(p) \in Held => p \in Undeleted
<1>1. \A p \in Places : At(p) \in Live
  BY ChainOf
<1> QED BY <1>1 DEF Undeleted, Held, Live

-----------------------------------------------------------------------------
(* Iterations.                                                             *)

LEMMA VisitBook ==
    ASSUME TypeInv, Chained, NEW it \in EachType, NEW p \in Undeleted, UNCHANGED entry
    PROVE  /\ Visit(it, p) \in EachType
           /\ Visit(it, p).active = it.active /\ Visit(it, p).table = it.table
           /\ Visit(it, p).moved = it.moved /\ Visit(it, p).seen = tbl
           /\ Visit(it, p).bin = p[1] /\ Visit(it, p).ptr = At(p)
           /\ Visit(it, p).due = it.due \ {entry[At(p)].key}
           /\ Visit(it, p).done = IF entry[At(p)].key \in it.due THEN it.done \cup {entry[At(p)].key}
                                   ELSE it.done
<1> DEFINE k == entry[At(p)].key
<1>1. p[1] \in Nat /\ At(p) \in EntryAddr /\ k \in Key /\ tbl \in TableAddr
  <2>1. At(p) \in Held /\ p \in Places
    BY UndeletedHeld
  <2> QED BY <2>1, PlaceFacts DEF TypeInv, EntryType, Held, num_bins
<1>2. Visit(it, p) = [it EXCEPT !.bin = p[1], !.ptr = At(p), !.seen = tbl,
                                !.due = @ \ {k}, !.done = IF k \in it.due THEN @ \cup {k} ELSE @]
  BY DEF Visit
<1> HIDE DEF k
<1>3. it.due \ {k} \in SUBSET Key /\ (IF k \in it.due THEN it.done \cup {k} ELSE it.done) \in SUBSET Key
  BY <1>1 DEF EachType
<1> QED BY <1>1, <1>2, <1>3 DEF EachType, k

LEMMA NoEachType == NoEach \in EachType /\ ~NoEach.active
BY DEF NoEach, EachType

LEMMA EachStartStep ==
    ASSUME TableInv, NEW t \in Thread, EachStart(t)
    PROVE  TableInv' /\ UNCHANGED table
<1> TypeInv /\ Chained /\ Keyed /\ Counted /\ Cleaned /\ Iterating
  BY DEF TableInv
<1> DEFINE it == [NoEach EXCEPT !.active = TRUE, !.table = tbl, !.due = Keys]
           v == Visit(it, First(Undeleted))
<1>1. it \in EachType /\ it.active /\ it.table = tbl
  BY DEF NoEach, EachType, TypeInv, Keys
<1>2. ~each[t].active /\ iter_lev' = iter_lev + 1 /\ UNCHANGED <<table, deleted>>
      /\ each' = [each EXCEPT ![t] = v] /\ Undeleted # {}
  BY DEF EachStart
<1>3. First(Undeleted) \in Undeleted
  BY <1>2, UndeletedHeld, FirstPlace
<1> HIDE DEF it
<1>4. v \in EachType /\ v.active /\ v.table = tbl /\ v.seen = tbl
  BY <1>1, <1>2, <1>3, VisitBook DEF table
<1> HIDE DEF v
<1>5. /\ each' \in [Thread -> EachType] /\ each'[t] = v
      /\ \A u \in Thread \ {t} : each'[u] = each[u]
  BY <1>2, <1>4 DEF TypeInv
<1>6. Active' = Active \cup {t} /\ t \notin Active
  BY <1>2, <1>4, <1>5 DEF Active
<1>7. Iterating'
  <2>1. IsFiniteSet(Active') /\ Cardinality(Active') = Cardinality(Active) + 1
    BY <1>6, FS_AddElement DEF Iterating
  <2>2. \A u \in Active' : u \in Thread /\ each'[u].seen = each'[u].table
    BY <1>4, <1>5, <1>6 DEF Iterating, Active
  <2> QED BY <1>2, <2>1, <2>2 DEF Iterating
<1>8. Held' = Held /\ Live' = Live
  BY <1>2 DEF Held, Live, table
<1>9. Chained' /\ Keyed' /\ Counted' /\ Cleaned'
  BY <1>2, <1>8 DEF Chained, Keyed, Counted, Cleaned, table, TypeInv
<1>10. TypeInv'
  BY <1>2, <1>5 DEF TypeInv, table
<1> QED BY <1>2, <1>7, <1>9, <1>10 DEF TableInv

LEMMA EachNextStep ==
    ASSUME TableInv, NEW t \in Thread, EachNext(t)
    PROVE  TableInv' /\ UNCHANGED table
<1> TypeInv /\ Chained /\ Keyed /\ Counted /\ Cleaned /\ Iterating
  BY DEF TableInv
<1> DEFINE v == Visit(each[t], First(Later(t)))
<1>1. /\ each[t].active /\ tbl = each[t].seen /\ UNCHANGED <<table, iter_lev, deleted>>
      /\ each' = [each EXCEPT ![t] = v] /\ Later(t) # {} /\ each[t] \in EachType
  BY DEF EachNext, MayGoOn, TypeInv
<1>2. First(Later(t)) \in Undeleted
  BY <1>1, UndeletedHeld, FirstPlace DEF Later
<1>3. v \in EachType /\ v.active /\ v.table = each[t].table /\ v.seen = tbl
  BY <1>1, <1>2, VisitBook DEF table
<1> HIDE DEF v
<1>4. /\ each' \in [Thread -> EachType] /\ each'[t] = v
      /\ \A u \in Thread \ {t} : each'[u] = each[u]
  BY <1>1, <1>3 DEF TypeInv
<1>5. Active' = Active
  BY <1>1, <1>3, <1>4 DEF Active
<1>6. Iterating'
  <2>1. \A u \in Active : u \in Thread /\ each'[u].seen = each'[u].table
    BY <1>1, <1>3, <1>4 DEF Iterating, Active
  <2> QED BY <1>1, <1>5, <2>1 DEF Iterating
<1>7. Held' = Held /\ Live' = Live
  BY <1>1 DEF Held, Live, table
<1>8. Chained' /\ Keyed' /\ Counted' /\ Cleaned'
  BY <1>1, <1>7 DEF Chained, Keyed, Counted, Cleaned, table, TypeInv
<1>9. TypeInv'
  BY <1>1, <1>4 DEF TypeInv, table
<1> QED BY <1>1, <1>6, <1>8, <1>9 DEF TableInv

(* The last iteration cleans up: what it takes away was deleted.           *)
LEMMA EnsureStep ==
    ASSUME TableInv, NEW t \in Thread, each[t].active, EachEnsure(t)
    PROVE  /\ TableInv' /\ Held' = Held /\ \A e \in Held : entry'[e] = entry[e]
           /\ Active' = Active \ {t}
           /\ each'[t] = NoEach /\ \A u \in Thread \ {t} : each'[u] = each[u]
           /\ Active' # {} => UNCHANGED <<entry, bins>>
<1> TypeInv /\ Chained /\ Keyed /\ Counted /\ Cleaned /\ Iterating
  BY DEF TableInv
<1>1. /\ iter_lev' = iter_lev - 1 /\ each' = [each EXCEPT ![t] = NoEach]
      /\ UNCHANGED <<tbl, num_entries>>
  BY DEF EachEnsure
<1>2. /\ each' \in [Thread -> EachType] /\ each'[t] = NoEach
      /\ \A u \in Thread \ {t} : each'[u] = each[u]
  BY <1>1, NoEachType DEF TypeInv
<1>3. Active' = Active \ {t} /\ t \in Active
  BY <1>2, NoEachType DEF Active
<1>4. IsFiniteSet(Active') /\ Cardinality(Active') = Cardinality(Active) - 1
  BY <1>3, FS_RemoveElement DEF Iterating
<1>5. Iterating' /\ iter_lev' \in Nat
  <2>1. \A u \in Active' : u \in Active /\ u \in Thread \ {t} /\ each'[u].seen = each'[u].table
    BY <1>2, <1>3 DEF Iterating, Active
  <2>2. Cardinality(Active') \in Nat
    BY <1>4, FS_CardinalityType
  <2> QED BY <1>1, <1>4, <2>1, <2>2 DEF Iterating
<1>6. Active' # {} => iter_lev > 1
  <2>1. Active' # {} => iter_lev' # 0
    BY <1>4, <1>5, FS_EmptySet DEF Iterating
  <2> QED BY <1>1, <1>5, <2>1 DEF TypeInv
<1>7. CASE iter_lev = 1 /\ deleted
  <2>1. entry' = Dropped({}) /\ bins' = Unchained({}) /\ deleted' = FALSE
    BY <1>7 DEF EachEnsure
  <2>2. {} \in SUBSET Key
    OBVIOUS
  <2>3. /\ ChainedIn(bins', entry') /\ bins' \in Seq(Seq(EntryAddr)) /\ Len(bins') = Len(bins)
        /\ entry' \in [EntryAddr -> EntryType]
    BY <2>1, <2>2, CleanUp
  <2>4. \A e \in EntryAddr : entry'[e] = IF entry[e].live /\ entry[e].key \in {} \cup {Nil} THEN Free ELSE entry[e]
    BY <2>1, <2>2, CleanUp
  <2>5. Held' = Held /\ Live' = Held /\ \A e \in Held : entry'[e] = entry[e]
    BY <2>4 DEF Held, Live, Free
  <2>6. Keyed'
    BY <2>5 DEF Keyed
  <2>7. Counted' /\ Cleaned'
    BY <1>1, <2>5 DEF Counted, Cleaned
  <2>8. Chained' /\ TypeInv'
    BY <1>1, <1>2, <1>5, <2>1, <2>3 DEF Chained, TypeInv
  <2> QED BY <1>2, <1>3, <1>5, <1>6, <1>7, <2>5, <2>6, <2>7, <2>8 DEF TableInv
<1>8. CASE ~(iter_lev = 1 /\ deleted)
  <2>1. UNCHANGED <<entry, bins, deleted>>
    BY <1>8 DEF EachEnsure
  <2>2. Held' = Held /\ Live' = Live
    BY <2>1 DEF Held, Live
  <2>3. Cleaned'
    BY <1>1, <1>8, <2>1, <2>2 DEF Cleaned, TypeInv
  <2>4. Chained' /\ Keyed' /\ Counted'
    BY <1>1, <2>1, <2>2 DEF Chained, Keyed, Counted
  <2>5. TypeInv'
    BY <1>1, <1>2, <1>5, <2>1 DEF TypeInv
  <2> QED BY <1>2, <1>3, <1>5, <2>1, <2>2, <2>3, <2>4, <2>5 DEF TableInv
<1> QED BY <1>7, <1>8

-----------------------------------------------------------------------------
(* The table is sound.                                                     *)

LEMMA InitInv == Init => TableInv
<1> SUFFICES ASSUME Init PROVE TableInv
  OBVIOUS
<1> DEFINE n == new_size(0)
<1>1. n \in Nat \ {0}
  <2>1. 0 \in 0 .. Cardinality(EntryAddr) + 1
    BY HeldFinite
  <2> QED BY <2>1, NewSize
<1>2. bins = [i \in 1 .. n |-> << >>]
  BY DEF Init, NoBins
<1> HIDE DEF n
<1>3. bins \in Seq(Seq(EntryAddr)) /\ Len(bins) = n
  <2>1. bins \in [1 .. n -> Seq(EntryAddr)]
    BY <1>2
  <2> QED BY <1>1, <2>1, ListOfLists
<1>4. \A e \in EntryAddr : entry[e] = Free
  BY DEF Init
<1>5. Held = {} /\ Live = {}
  BY <1>4 DEF Held, Live, Free
<1>6. Chained
  <2>1. \A i \in 1 .. n : bins[i] = << >>
    BY <1>2
  <2>2. Elements(<< >>) = {} /\ Distinct(<< >>)
    BY DEF Elements, Distinct
  <2>3. \A e \in EntryAddr, i \in 1 .. n : ~Belongs(entry, e, i, n)
    BY <1>4 DEF Belongs, Free
  <2> QED BY <1>3, <2>1, <2>2, <2>3 DEF Chained, ChainedIn
<1>7. Active = {}
  BY NoEachType DEF Active, Init
<1>8. Keyed /\ Counted /\ Cleaned /\ Iterating
  BY <1>5, <1>7, FS_EmptySet DEF Keyed, Counted, Cleaned, Iterating, Init
<1>9. TypeInv
  BY <1>1, <1>3, FreeType, NoEachType DEF TypeInv, Init
<1> QED BY <1>6, <1>8, <1>9 DEF TableInv

(* What shift deletes is a key.                                            *)
LEMMA ShiftedKey ==
    ASSUME TypeInv, Chained, Undeleted # {}
    PROVE  {entry[At(First(Undeleted))].key} \in SUBSET Key
<1>1. First(Undeleted) \in Undeleted
  BY UndeletedHeld, FirstPlace
<1>2. At(First(Undeleted)) \in Held
  BY <1>1, UndeletedHeld
<1> QED BY <1>2 DEF Held, TypeInv, EntryType

LEMMA StepInv == TableInv /\ [Next]_vars => TableInv'
<1> SUFFICES ASSUME TableInv, [Next]_vars PROVE TableInv'
  OBVIOUS
<1>0. TypeInv /\ Chained
  BY DEF TableInv
<1>1. ASSUME NEW k \in Key, rb_hash_delete(k) PROVE TableInv'
  BY <1>1, RemoveStep DEF rb_hash_delete
<1>2. ASSUME NEW k \in Key, NEW v \in Val, rb_hash_aset(k, v) PROVE TableInv'
  BY <1>2, StoreStep, AddStep
<1>3. CASE rb_hash_shift
  BY <1>0, <1>3, RemoveStep, ShiftedKey DEF rb_hash_shift
<1>4. CASE rb_hash_clear
  BY <1>4, RemoveStep DEF rb_hash_clear
<1>5. CASE rb_hash_rehash
  BY <1>5, RehashStep
<1>6. ASSUME NEW t \in Thread, EachStart(t) PROVE TableInv'
  BY <1>6, EachStartStep
<1>7. ASSUME NEW t \in Thread, EachNext(t) PROVE TableInv'
  BY <1>7, EachNextStep
<1>8. ASSUME NEW t \in Thread, EachEnd(t) \/ EachBreak(t) PROVE TableInv'
  BY <1>8, EnsureStep DEF EachEnd, EachBreak
<1>9. CASE UNCHANGED vars
  BY <1>9 DEF vars, TableInv, TypeInv, Chained, Keyed, Held, Counted, Cleaned, Live,
              Iterating, Active
<1> QED BY <1>1, <1>2, <1>3, <1>4, <1>5, <1>6, <1>7, <1>8, <1>9 DEF Next

LEMMA Invariant == Spec => []TableInv
BY InitInv, StepInv, PTL DEF Spec

(* TableOK: whatever the calls and the blocks of the iterations do, an     *)
(* entry is in the chain of its hash value and in no other, a key has one  *)
(* entry, num_entries counts the keys, and entries that delete has only    *)
(* marked are there only while an iteration will clean up.                 *)
THEOREM TableSound == Spec => []TableOK
<1>1. TableInv => TableOK
  <2> SUFFICES ASSUME TableInv PROVE TableOK
    OBVIOUS
  <2> TypeInv /\ Chained /\ Keyed /\ Counted /\ Cleaned /\ Iterating
    BY DEF TableInv
  <2>1. {At(p) : p \in Places} = {e \in EntryAddr : entry[e].live}
    BY ChainOf DEF Live
  <2>2. \A p, q \in Undeleted : p # q => entry[At(p)].key # entry[At(q)].key
    BY ChainOf, UndeletedHeld DEF Keyed
  <2>3. num_entries = Cardinality(Undeleted)
    <3> DEFINE place == [e \in Held |-> CHOOSE p \in Undeleted : At(p) = e]
    <3>1. ASSUME NEW e \in Held PROVE \E p \in Undeleted : At(p) = e
      <4>1. e \in Live
        BY DEF Held, Live
      <4> QED BY <4>1, ChainOf, UndeletedHeld
    <3>2. \A e \in Held : place[e] \in Undeleted /\ At(place[e]) = e
      BY <3>1
    <3>3. place \in [Held -> Undeleted]
      BY <3>2
    <3>4. ASSUME NEW p \in Undeleted PROVE \E e \in Held : place[e] = p
      <4>1. At(p) \in Held /\ p \in Places
        BY UndeletedHeld
      <4>2. place[At(p)] \in Places /\ At(place[At(p)]) = At(p)
        BY <3>2, <4>1, UndeletedHeld
      <4>3. place[At(p)] = p
        BY <4>1, <4>2, ChainOf
      <4> QED BY <4>1, <4>3
    <3> HIDE DEF place
    <3>5. \A d, e \in Held : place[d] = place[e] => d = e
      BY <3>2
    <3>6. Cardinality(Undeleted) = Cardinality(Held)
      BY <3>3, <3>4, <3>5, HeldFinite, OneToOne
    <3> QED BY <3>6 DEF Counted
  <2>4. Undeleted # Places => deleted /\ iter_lev > 0
    <3>1. Held = Live => Undeleted = Places
      BY ChainOf, UndeletedHeld
    <3> QED BY <3>1 DEF Cleaned
  <2>5. /\ \A p \in Places : BinOf(entry[At(p)].hash, num_bins) = p[1]
        /\ \A p, q \in Places : p # q => At(p) # At(q)
    BY ChainOf
  <2>6. iter_lev = Cardinality({t \in Thread : each[t].active})
    BY DEF Iterating, Active
  <2>7. tbl \in TableAddr /\ entry \in [EntryAddr -> EntryType]
    BY DEF TypeInv
  <2> QED BY <2>1, <2>2, <2>3, <2>4, <2>5, <2>6, <2>7 DEF TableOK, EntryType
<1> QED BY <1>1, Invariant, PTL

-----------------------------------------------------------------------------
(* Iterations stay in the table they began with.                           *)

(* LiveTableOnly: the table rb_hash_foreach compares with after the block  *)
(* (seen) is the one its pointers are into (table), so that the iteration  *)
(* goes on only where hash_foreach has not been cut off by a rehash.       *)
THEOREM NoFreedTable == Spec => LiveTableOnly
<1> DEFINE A == \A t \in Thread : each[t].active /\ each[t]'.active /\ each[t].ptr # each[t]'.ptr
                    => each[t].table = tbl
<1>1. ASSUME TableInv, Next PROVE A
  <2> SUFFICES ASSUME NEW t \in Thread, each[t].active, each'[t].active, each[t].ptr # each'[t].ptr
               PROVE  each[t].table = tbl
    OBVIOUS
  <2> TypeInv /\ Chained /\ Keyed /\ Counted /\ Cleaned /\ Iterating
    BY <1>1 DEF TableInv
  <2>0. ASSUME NEW K \in SUBSET Key, Remove(K) PROVE FALSE
    <3>1. each'[t] = Forgotten(K)[t]
      BY <2>0 DEF Remove
    <3> QED BY <3>1, ForgottenBooks
  <2>1. ASSUME NEW k \in Key, rb_hash_delete(k) PROVE FALSE
    BY <2>0, <2>1 DEF rb_hash_delete
  <2>2. CASE each' = Moved
    BY <2>2, MovedBooks
  <2>3. ASSUME NEW k \in Key, NEW v \in Val, rb_hash_aset(k, v) PROVE FALSE
    BY <2>2, <2>3, MovedBooks DEF rb_hash_aset
  <2>4. CASE rb_hash_shift
    BY <2>0, <2>4, ShiftedKey DEF rb_hash_shift
  <2>5. CASE rb_hash_clear
    BY <2>0, <2>5 DEF rb_hash_clear
  <2>6. CASE rb_hash_rehash
    BY <1>1, <2>2, <2>6, RehashStep
  <2>7. ASSUME NEW u \in Thread, EachStart(u) PROVE FALSE
    BY <2>7 DEF EachStart, TypeInv
  <2>8. ASSUME NEW u \in Thread, EachNext(u) PROVE each[t].table = tbl
    <3>1. u = t
      BY <2>8 DEF EachNext, TypeInv
    <3> QED BY <2>8, <3>1 DEF EachNext, MayGoOn, Iterating, Active
  <2>9. ASSUME NEW u \in Thread, EachEnd(u) \/ EachBreak(u) PROVE FALSE
    BY <1>1, <2>9, EnsureStep, NoEachType DEF EachEnd, EachBreak
  <2> QED BY <1>1, <2>1, <2>3, <2>4, <2>5, <2>6, <2>7, <2>8, <2>9 DEF Next
<1>2. TableInv /\ [Next]_vars => [A]_vars
  BY <1>1
<1> QED BY <1>2, Invariant, PTL DEF Spec, LiveTableOnly

-----------------------------------------------------------------------------
(* The table is a map.                                                     *)

(* The map is what the entries say.                                        *)
Told(k) == /\ \A e \in Held : entry[e].key = k => Lookup(k) = entry[e].val
           /\ (\A e \in Held : entry[e].key # k) => Lookup(k) = Absent
Tells == \A k \in Key : Told(k)
LEMMA LookupHeld == TableInv => Tells
<1> SUFFICES ASSUME TableInv, NEW k \in Key PROVE Told(k)
  BY DEF Tells
<1> TypeInv /\ Chained /\ Keyed
  BY DEF TableInv
<1>1. ASSUME NEW e \in Held, entry[e].key = k PROVE Lookup(k) = entry[e].val
  <2>1. Has(k) /\ Found(k) = e
    BY <1>1, Finding DEF Keyed
  <2> QED BY <2>1 DEF Lookup
<1>2. ASSUME \A e \in Held : entry[e].key # k PROVE Lookup(k) = Absent
  BY <1>2, Finding DEF Lookup
<1> QED BY <1>1, <1>2 DEF Told
LEMMA LookupHeldNext == TableInv' => Tells'
BY LookupHeld, PTL

(* Keys whose entries agree before and after have the same values.         *)
LEMMA SameValue ==
    ASSUME TableInv, TableInv', NEW k \in Key,
           \A e \in Held : entry[e].key = k =>
               \E d \in Held' : entry'[d].key = k /\ entry'[d].val = entry[e].val,
           \A d \in Held' : entry'[d].key = k => \E e \in Held : entry[e].key = k
    PROVE  Lookup(k)' = Lookup(k)
<1>1. Told(k)
  BY LookupHeld DEF Tells
<1>3. Told(k)'
  BY LookupHeldNext DEF Tells
<1>4. ASSUME NEW e \in Held, entry[e].key = k PROVE Lookup(k)' = Lookup(k)
  <2>1. Lookup(k) = entry[e].val
    BY <1>1, <1>4 DEF Told
  <2>2. PICK d \in Held' : entry'[d].key = k /\ entry'[d].val = entry[e].val
    BY <1>4
  <2>3. Lookup(k)' = entry'[d].val
    BY <1>3, <2>2 DEF Told
  <2> QED BY <2>1, <2>2, <2>3
<1>5. CASE \A e \in Held : entry[e].key # k
  BY <1>1, <1>3, <1>5 DEF Told
<1> QED BY <1>4, <1>5

dict == [k \in Key |-> Lookup(k)]

LEMMA StoreMap ==
    ASSUME TableInv, TableInv', NEW k \in Key, NEW v \in Val, rb_hash_aset(k, v)
    PROVE  dict' = [dict EXCEPT ![k] = v]
<1>0. Told(k)'
  BY LookupHeldNext DEF Tells
<1>1. Lookup(k)' = v /\ \A j \in Key \ {k} : Lookup(j)' = Lookup(j)
  <2>1. CASE Has(k)
    <3>1. PICK d \in Held : entry[d].key = k
      BY <2>1, Finding DEF TableInv
    <3>2. /\ Held' = Held /\ \A e \in Held : entry'[e].key = entry[e].key
          /\ \A e \in Held : entry'[e].val = IF entry[e].key = k THEN v ELSE entry[e].val
      BY <2>1, StoreStep DEF Held
    <3>3. Lookup(k)' = v
      BY <1>0, <3>1, <3>2 DEF Told
    <3>4. ASSUME NEW j \in Key \ {k} PROVE Lookup(j)' = Lookup(j)
      BY <3>2, SameValue
    <3> QED BY <3>3, <3>4
  <2>2. CASE ~Has(k)
    <3>1. PICK n \in Unused :
            /\ Held' = Held \cup {n} /\ entry'[n].key = k /\ entry'[n].val = v
            /\ \A e \in EntryAddr \ {n} : entry'[e] = entry[e]
      BY <2>2, AddStep, ZenonT(60)
    <3>2. \A e \in Held : entry'[e] = entry[e]
      BY <3>1 DEF Held, Unused
    <3>3. Lookup(k)' = v
      BY <1>0, <3>1 DEF Told
    <3>4. ASSUME NEW j \in Key \ {k} PROVE Lookup(j)' = Lookup(j)
      BY <3>1, <3>2, SameValue
    <3> QED BY <3>3, <3>4
  <2> QED BY <2>1, <2>2
<1> QED BY <1>1 DEF dict

LEMMA RemoveMap ==
    ASSUME TableInv, TableInv', NEW K \in SUBSET Key, Remove(K)
    PROVE  dict' = [k \in Key |-> IF k \in K THEN Absent ELSE dict[k]]
<1>1. Held' = Held \ Gone(K) /\ \A e \in Held' : entry'[e] = entry[e]
  BY RemoveStep
<1>3. ASSUME NEW k \in K PROVE Lookup(k)' = Absent
  <2>1. Told(k)'
    BY LookupHeldNext DEF Tells
  <2>2. \A e \in Held' : entry'[e].key # k
    BY <1>1 DEF Gone
  <2> QED BY <2>1, <2>2 DEF Told
<1>4. ASSUME NEW k \in Key \ K PROVE Lookup(k)' = Lookup(k)
  <2>1. \A e \in Held : entry[e].key = k => e \in Held' /\ entry'[e] = entry[e]
    BY <1>1 DEF Gone
  <2> QED BY <1>1, <2>1, SameValue
<1> QED BY <1>3, <1>4 DEF dict

(* The same entries, perhaps elsewhere.                                    *)
LEMMA KeepMap ==
    ASSUME TableInv, TableInv', NEW f \in [Held -> EntryAddr],
           Held' = {f[d] : d \in Held}, \A d \in Held : entry'[f[d]] = entry[d]
    PROVE  dict' = dict
<1>1. ASSUME NEW k \in Key PROVE Lookup(k)' = Lookup(k)
  BY SameValue
<1> QED BY <1>1 DEF dict

LEMMA SameEntries ==
    ASSUME TableInv, TableInv', Held' = Held, \A d \in Held : entry'[d] = entry[d]
    PROVE  dict' = dict
<1>1. ASSUME NEW k \in Key PROVE Lookup(k)' = Lookup(k)
  BY SameValue
<1> QED BY <1>1 DEF dict

(* ImplementsMap: seen through Hash#[], the chains are a map.  A store     *)
(* changes its key, a deletion its key, clear all keys; growth, rehash,    *)
(* and the clean-up after an iteration change nothing.                     *)
THEOREM TableIsMap == Spec => ImplementsMap
<1>1. ASSUME Init PROVE dict = [k \in Key |-> Absent]
  <2>1. TableInv /\ Held = {}
    BY <1>1, InitInv DEF Init, Held, Free
  <2>2. \A k \in Key : Lookup(k) = Absent
    BY <2>1, LookupHeld DEF Told, Tells
  <2> QED BY <2>2 DEF dict
<1>2. ASSUME TableInv, TableInv', [Next]_vars
      PROVE  \/ dict' = dict
             \/ \E k \in Key : dict' = [dict EXCEPT ![k] = Absent]
             \/ \E k \in Key : \E v \in Val : dict' = [dict EXCEPT ![k] = v]
             \/ dict' = [k \in Key |-> Absent]
  <2>0. TypeInv /\ Chained
    BY <1>2 DEF TableInv
  <2>1. ASSUME NEW k \in Key, Remove({k}) PROVE dict' = [dict EXCEPT ![k] = Absent]
    <3>1. dict' = [j \in Key |-> IF j \in {k} THEN Absent ELSE dict[j]]
      BY <1>2, <2>1, RemoveMap
    <3> QED BY <3>1 DEF dict
  <2>2. ASSUME NEW k \in Key, rb_hash_delete(k) PROVE dict' = [dict EXCEPT ![k] = Absent]
    BY <2>1, <2>2 DEF rb_hash_delete
  <2>3. ASSUME NEW k \in Key, NEW v \in Val, rb_hash_aset(k, v)
        PROVE  dict' = [dict EXCEPT ![k] = v]
    BY <1>2, <2>3, StoreMap
  <2>4. CASE rb_hash_shift
    <3>1. PICK k \in Key : k = entry[At(First(Undeleted))].key
      BY <2>0, <2>4, ShiftedKey DEF rb_hash_shift
    <3>2. Remove({k})
      BY <2>4, <3>1 DEF rb_hash_shift
    <3> QED BY <2>1, <3>2
  <2>5. CASE rb_hash_clear
    <3>1. dict' = [k \in Key |-> IF k \in Key THEN Absent ELSE dict[k]]
      BY <1>2, <2>5, RemoveMap DEF rb_hash_clear
    <3> QED BY <3>1
  <2>6. CASE rb_hash_rehash
    BY <1>2, <2>6, RehashStep, KeepMap
  <2>7. ASSUME UNCHANGED entry PROVE dict' = dict
    BY <1>2, <2>7, SameEntries DEF Held
  <2>8. ASSUME NEW t \in Thread, EachStart(t) \/ EachNext(t) PROVE dict' = dict
    <3>1. UNCHANGED table
      BY <2>8 DEF EachStart, EachNext
    <3> QED BY <2>7, <3>1 DEF table
  <2>9. ASSUME NEW t \in Thread, EachEnd(t) \/ EachBreak(t) PROVE dict' = dict
    BY <1>2, <2>9, EnsureStep, SameEntries DEF EachEnd, EachBreak
  <2> QED BY <1>2, <2>2, <2>3, <2>4, <2>5, <2>6, <2>7, <2>8, <2>9 DEF Next, vars
<1>3. Init => Map!MapInit
  BY <1>1 DEF Map!MapInit, dict
<1>4. TableInv /\ TableInv' /\ [Next]_vars => [Map!MapNext]_dict
  BY <1>2 DEF Map!MapNext, Map!MapStore, Map!MapDelete, Map!MapClear, dict
<1>5. [][Map!MapNext]_dict <=> [][Map!MapNext]_([k \in Key |-> Lookup(k)])
  BY DEF dict
<1> QED BY <1>3, <1>4, <1>5, Invariant, PTL DEF Spec, ImplementsMap, Map!MapSpec

-----------------------------------------------------------------------------
(* Iterations are exact.                                                   *)

(* st_foreach meets entry d before entry e.                                *)
Precedes(d, e) == \E p, q \in Places : At(p) = d /\ At(q) = e /\ Before(p, q)

LEMMA PrecedesOrder ==
    ASSUME TypeInv, Chained
    PROVE  /\ \A p, q \in Places : Precedes(At(p), At(q)) <=> Before(p, q)
           /\ \A p \in Places : ~Before(p, p)
           /\ \A p, q, r \in Places : Before(p, q) /\ Before(q, r) => Before(p, r)
<1>1. \A p, q \in Places : Precedes(At(p), At(q)) <=> Before(p, q)
  BY ChainOf DEF Precedes
<1>2. ASSUME NEW p \in Places PROVE p[1] \in Nat /\ p[2] \in Nat
  BY PlaceFacts DEF TypeInv, num_bins
<1>3. \A p \in Places : ~Before(p, p)
  BY <1>2 DEF Before
<1>4. \A p, q, r \in Places : Before(p, q) /\ Before(q, r) => Before(p, r)
  BY <1>2 DEF Before
<1> QED BY <1>1, <1>3, <1>4

(* EachExact for the iteration of t, said of the entries.                  *)
Ahead(t) == \A d \in Live, e \in Held : d = each[t].ptr =>
                /\ entry[e].key \in each[t].due => Precedes(d, e)
                /\ entry[e].key \in each[t].done => ~Precedes(d, e)
Noted(t) == \A k \in each[t].due \cup each[t].done : \E e \in Held : entry[e].key = k
Exact(t) == Here(t) # {} /\ Ahead(t) /\ Noted(t)
ExactInv == \A t \in Thread : each[t].active /\ ~each[t].moved => Exact(t)

LEMMA LaterPlaces ==
    ASSUME TypeInv, Chained, NEW t \in Thread, Here(t) # {}
    PROVE  /\ each[t].ptr \in Live
           /\ \A p \in Undeleted : p \in Later(t) <=> Precedes(each[t].ptr, At(p))
<1>0. each[t].ptr \in Live
  BY ChainOf DEF Here
<1> SUFFICES ASSUME NEW p \in Undeleted PROVE p \in Later(t) <=> Precedes(each[t].ptr, At(p))
  BY <1>0
<1>1. PICK h \in Here(t) : h \in Places /\ At(h) = each[t].ptr
  BY DEF Here
<1>2. \A q \in Here(t) : q = h
  BY <1>1, ChainOf DEF Here
<1>3. p \in Places
  BY UndeletedHeld
<1>4. Precedes(each[t].ptr, At(p)) <=> Before(h, p)
  BY <1>1, <1>3, PrecedesOrder
<1> QED BY <1>1, <1>2, <1>4 DEF Later

LEMMA HeldPlace ==
    ASSUME TypeInv, Chained, NEW e \in Held
    PROVE  \E p \in Undeleted : At(p) = e
<1>1. e \in Live
  BY DEF Held, Live
<1> QED BY <1>1, ChainOf, UndeletedHeld

LEMMA ExactEach == TableInv /\ ExactInv => EachExact
<1> SUFFICES ASSUME TableInv, ExactInv, NEW t \in Thread, each[t].active, ~each[t].moved
             PROVE  /\ Here(t) # {}
                    /\ \A p \in Undeleted :
                         /\ entry[At(p)].key \in each[t].due => p \in Later(t)
                         /\ entry[At(p)].key \in each[t].done => p \notin Later(t)
                    /\ each[t].due \cup each[t].done \subseteq Keys
  BY DEF EachExact
<1> TypeInv /\ Chained /\ Keyed
  BY DEF TableInv
<1>1. Here(t) # {} /\ Ahead(t) /\ Noted(t)
  BY DEF ExactInv, Exact
<1>2. \A p \in Undeleted : /\ entry[At(p)].key \in each[t].due => p \in Later(t)
                           /\ entry[At(p)].key \in each[t].done => p \notin Later(t)
  BY <1>1, LaterPlaces, UndeletedHeld DEF Ahead
<1>3. each[t].due \cup each[t].done \subseteq Keys
  <2>1. each[t].due \cup each[t].done \subseteq Key
    BY DEF TypeInv, EachType
  <2>2. ASSUME NEW k \in each[t].due \cup each[t].done PROVE k \in Keys
    <3>1. k \in Key /\ \E e \in Held : entry[e].key = k
      BY <1>1, <2>1, <2>2 DEF Noted
    <3> QED BY <3>1, Finding DEF Keys
  <2> QED BY <2>2
<1> QED BY <1>1, <1>2, <1>3

(* What keeps an iteration exact: the entries it counts on keep their      *)
(* order.                                                                  *)
LEMMA KeepExact ==
    ASSUME NEW t \in Thread, Exact(t), Here(t)' # {},
           each'[t].ptr = each[t].ptr,
           each'[t].due \subseteq each[t].due, each'[t].done \subseteq each[t].done,
           \A d, e \in Live : Precedes(d, e)' <=> Precedes(d, e),
           each[t].ptr \in Live, Held \subseteq Live,
           \A e \in Held' : entry'[e].key \in each'[t].due \cup each'[t].done
                               => e \in Held /\ entry'[e].key = entry[e].key,
           \A e \in Held : entry[e].key \in each'[t].due \cup each'[t].done
                               => e \in Held' /\ entry'[e].key = entry[e].key
    PROVE  Exact(t)'
<1>1. Ahead(t)'
  <2> SUFFICES ASSUME NEW d \in Live', NEW e \in Held', d = each'[t].ptr
               PROVE  /\ entry'[e].key \in each'[t].due => Precedes(d, e)'
                      /\ entry'[e].key \in each'[t].done => ~Precedes(d, e)'
    BY DEF Ahead
  <2> SUFFICES ASSUME entry'[e].key \in each'[t].due \cup each'[t].done
               PROVE  /\ entry'[e].key \in each'[t].due => Precedes(d, e)'
                      /\ entry'[e].key \in each'[t].done => ~Precedes(d, e)'
    OBVIOUS
  <2>1. e \in Held /\ entry'[e].key = entry[e].key /\ d \in Live /\ e \in Live
    OBVIOUS
  <2>2. Precedes(d, e)' <=> Precedes(d, e)
    BY <2>1
  <2>3. Ahead(t) /\ d = each[t].ptr
    BY DEF Exact
  <2>4. /\ entry[e].key \in each[t].due => Precedes(d, e)
        /\ entry[e].key \in each[t].done => ~Precedes(d, e)
    BY <2>1, <2>3 DEF Ahead
  <2> QED BY <2>1, <2>2, <2>4
<1>2. Noted(t)'
  BY DEF Noted, Exact
<1> QED BY <1>1, <1>2 DEF Exact

(* Where the chains stay as they are, so does the order.                   *)
LEMMA SameOrder ==
    ASSUME bins' = bins
    PROVE  Places' = Places /\ \A d, e : Precedes(d, e)' <=> Precedes(d, e)
BY DEF Places, Precedes, At, num_bins

LEMMA SameHere ==
    ASSUME bins' = bins, NEW t \in Thread, each'[t].ptr = each[t].ptr, each'[t].bin = each[t].bin
    PROVE  Here(t)' = Here(t)
<1>1. Places' = Places
  BY SameOrder
<1> QED BY <1>1 DEF Here, At

(* Steps that leave the chains alone.                                      *)
LEMMA QuietStep ==
    ASSUME TableInv, bins' = bins, NEW t \in Thread, Exact(t),
           each'[t].ptr = each[t].ptr, each'[t].bin = each[t].bin,
           each'[t].due \subseteq each[t].due, each'[t].done \subseteq each[t].done,
           \A e \in Held' : entry'[e].key \in each'[t].due \cup each'[t].done
                               => e \in Held /\ entry'[e].key = entry[e].key,
           \A e \in Held : entry[e].key \in each'[t].due \cup each'[t].done
                               => e \in Held' /\ entry'[e].key = entry[e].key
    PROVE  Exact(t)'
<1>1. Here(t) # {} /\ Here(t)' # {}
  BY SameHere DEF Exact
<1>2. each[t].ptr \in Live /\ Held \subseteq Live
  BY <1>1, LaterPlaces DEF TableInv, Held, Live
<1>3. \A d, e \in Live : Precedes(d, e)' <=> Precedes(d, e)
  BY SameOrder
<1> QED BY <1>1, <1>2, <1>3, KeepExact

OnePlace == \A p, q \in Places : At(p) = At(q) => p = q
LEMMA OnePlaceInv == TableInv => OnePlace
BY ChainOf DEF TableInv, OnePlace
LEMMA OnePlaceNext == TableInv' => OnePlace'
BY OnePlaceInv, PTL

(* ADD_DIRECT without growth: the entries of a chain move by one place,    *)
(* the new one comes first.                                                *)
LEMMA AddExact ==
    ASSUME TableInv, TableInv', NEW t \in Thread, Exact(t), each' = each,
           NEW k \in Key, NEW v \in Val, ~Has(k), ~Full, rb_hash_aset(k, v)
    PROVE  Exact(t)'
<1> TypeInv /\ Chained /\ Keyed
  BY DEF TableInv
<1> TypeInv' /\ Chained'
  BY DEF TableInv
<1>0. PICK b \in 1 .. num_bins : b = BinOf(Hash[k], num_bins)
  BY BinOfType, HashAssumption DEF TypeInv, num_bins
<1>1. PICK n \in Unused :
        /\ Held' = Held \cup {n} /\ entry'[n].key = k
        /\ \A e \in EntryAddr \ {n} : entry'[e] = entry[e]
        /\ bins' = [bins EXCEPT ![b] = <<n>> \o @]
  BY <1>0, AddStep DEF Grown, num_bins
<1>2. n \notin Live /\ n \in EntryAddr
  BY DEF Unused, Live
<1>3. /\ num_bins' = num_bins /\ num_bins \in Nat
      /\ \A i \in 1 .. num_bins : bins[i] \in Seq(EntryAddr) /\ Len(bins[i]) \in Nat
      /\ Len(bins'[b]) = Len(bins[b]) + 1
      /\ \A j \in 1 .. Len(bins[b]) : bins'[b][j + 1] = bins[b][j]
      /\ \A i \in (1 .. num_bins) \ {b} : bins'[i] = bins[i]
  <2>1. bins \in Seq(Seq(EntryAddr)) /\ bins[b] \in Seq(EntryAddr)
    BY DEF TypeInv, num_bins
  <2>2. bins'[b] = <<n>> \o bins[b] /\ Len(bins') = Len(bins)
    BY <1>1, <2>1 DEF num_bins
  <2>3. \A i \in (1 .. num_bins) \ {b} : bins'[i] = bins[i]
    BY <1>1, <2>1 DEF num_bins
  <2>4. /\ Len(bins'[b]) = Len(bins[b]) + 1
        /\ \A j \in 1 .. Len(bins[b]) : bins'[b][j + 1] = bins[b][j]
    BY <1>2, <2>1, <2>2
  <2> QED BY <2>1, <2>2, <2>3, <2>4 DEF num_bins
<1> DEFINE Shift(p) == IF p[1] = b THEN <<p[1], p[2] + 1>> ELSE p
<1>4. ASSUME NEW p \in Places
      PROVE  /\ p[1] \in 1 .. num_bins /\ p[2] \in Nat
             /\ Shift(p) \in Places' /\ At(Shift(p))' = At(p) /\ Shift(p)[1] = p[1]
  <2>1. p[1] \in 1 .. num_bins /\ p[2] \in 1 .. Len(bins[p[1]]) /\ p = <<p[1], p[2]>>
    BY PlaceFacts
  <2>2. CASE p[1] = b
    <3>1. p[2] + 1 \in 1 .. Len(bins'[b]) /\ bins'[b][p[2] + 1] = bins[b][p[2]]
      BY <1>3, <2>1, <2>2
    <3>2. <<b, p[2] + 1>> \in Places'
      BY <1>3, <3>1 DEF Places
    <3> QED BY <2>1, <2>2, <3>1, <3>2 DEF At
  <2>3. CASE p[1] # b
    <3>1. p \in {p[1]} \X (1 .. Len(bins'[p[1]]))
      BY <1>3, <2>1, <2>3
    <3>2. p \in Places'
      BY <1>3, <2>1, <3>1 DEF Places
    <3> QED BY <1>3, <2>1, <2>3, <3>2 DEF At
  <2> QED BY <2>1, <2>2, <2>3
<1>5. ASSUME NEW p \in Places, NEW q \in Places
      PROVE  Before(Shift(p), Shift(q)) <=> Before(p, q)
  <2>1. p[1] \in Nat /\ p[2] \in Nat /\ q[1] \in Nat /\ q[2] \in Nat
    <3>1. \A r \in Places : r[1] \in 1 .. num_bins /\ r[2] \in Nat
      BY <1>4
    <3> QED BY <1>3, <3>1
  <2> QED BY <2>1 DEF Before
<1>6. \A p \in Places : Shift(p) \in Places' /\ At(Shift(p))' = At(p) /\ Shift(p)[1] = p[1]
  BY <1>4
<1>7. \A p, q \in Places : Before(Shift(p), Shift(q)) <=> Before(p, q)
  BY <1>5
<1> HIDE DEF Shift
<1>8. ASSUME NEW d \in Live, NEW e \in Live PROVE Precedes(d, e)' <=> Precedes(d, e)
  <2>1. PICK p \in Places, q \in Places : At(p) = d /\ At(q) = e
    BY ChainOf
  <2>2. Precedes(d, e) <=> Before(p, q)
    BY <2>1, PrecedesOrder
  <2>3. \A r \in Places' : (At(r)' = d => r = Shift(p)) /\ (At(r)' = e => r = Shift(q))
    BY <1>6, <2>1, OnePlaceNext DEF OnePlace
  <2>4. Precedes(d, e)' <=> Before(Shift(p), Shift(q))
    BY <1>6, <2>1, <2>3 DEF Precedes
  <2> QED BY <1>7, <2>2, <2>4
<1>9. Here(t) # {} /\ Here(t)' # {}
  <2>1. PICK h \in Places : h[1] = each[t].bin /\ At(h) = each[t].ptr
    BY DEF Exact, Here
  <2>2. Shift(h) \in Places' /\ Shift(h)[1] = each'[t].bin /\ At(Shift(h))' = each'[t].ptr
    BY <1>6, <2>1
  <2>3. Shift(h) \in Here(t)'
    BY <2>2 DEF Here
  <2> QED BY <2>3 DEF Exact
<1>10. each[t].ptr \in Live /\ Held \subseteq Live /\ Held \subseteq EntryAddr
  BY <1>9, LaterPlaces DEF Held, Live
<1>11. k \notin each[t].due \cup each[t].done
  BY Finding DEF Exact, Noted
<1>12. \A e \in Held : e \in Held' /\ entry'[e] = entry[e]
  BY <1>1, <1>2, <1>10
<1>13. \A e \in Held' : e \in Held \/ entry'[e].key = k
  BY <1>1
<1> QED BY <1>8, <1>9, <1>10, <1>11, <1>12, <1>13, KeepExact

(* The block is called for the first place of P: what is due lies in P,    *)
(* what is done does not come after it.                                    *)
LEMMA VisitExact ==
    ASSUME TableInv, UNCHANGED table, NEW t \in Thread, NEW it \in EachType,
           NEW P \in SUBSET Undeleted, P # {}, each'[t] = Visit(it, First(P)),
           \A q \in Undeleted : entry[At(q)].key \in it.due => q \in P,
           \A q \in Undeleted : entry[At(q)].key \in it.done => ~Before(First(P), q),
           \A k \in it.due \cup it.done : \E e \in Held : entry[e].key = k
    PROVE  Exact(t)'
<1> TypeInv /\ Chained /\ Keyed
  BY DEF TableInv
<1>0. UNCHANGED <<tbl, bins, entry, num_entries>>
  BY DEF table
<1>1. PICK p : p = First(P)
  OBVIOUS
<1>2. p \in P /\ p \in Undeleted /\ p \in Places /\ \A q \in P \ {p} : Before(p, q)
  BY <1>1, UndeletedHeld, FirstPlace
<1>3. PICK a : a = At(p)
  OBVIOUS
<1>4. PICK key : key = entry[a].key
  OBVIOUS
<1>5. /\ each'[t].ptr = a /\ each'[t].bin = p[1] /\ each'[t].due = it.due \ {key}
      /\ each'[t].done = IF key \in it.due THEN it.done \cup {key} ELSE it.done
  <2>1. /\ Visit(it, p).ptr = At(p) /\ Visit(it, p).bin = p[1]
        /\ Visit(it, p).due = it.due \ {entry[At(p)].key}
        /\ Visit(it, p).done = IF entry[At(p)].key \in it.due THEN it.done \cup {entry[At(p)].key}
                               ELSE it.done
    BY <1>0, <1>2, VisitBook
  <2>2. each'[t] = Visit(it, p)
    BY <1>1
  <2> QED BY <1>3, <1>4, <2>1, <2>2, Zenon
<1>6. Held' = Held /\ Places' = Places /\ \A d, e : Precedes(d, e)' <=> Precedes(d, e)
  BY <1>0, SameOrder DEF Held
<1>7. Here(t)' # {}
  <2>1. p \in Places' /\ At(p)' = a
    BY <1>0, <1>2, <1>3, <1>6 DEF At
  <2> QED BY <1>5, <2>1 DEF Here
<1>8. Ahead(t)'
  <2> SUFFICES ASSUME NEW e \in Held
               PROVE  /\ entry[e].key \in each'[t].due => Precedes(a, e)
                      /\ entry[e].key \in each'[t].done => ~Precedes(a, e)
    BY <1>0, <1>5, <1>6 DEF Ahead
  <2>1. PICK q \in Undeleted : q \in Places /\ At(q) = e
    BY HeldPlace, UndeletedHeld
  <2>2. Precedes(a, e) <=> Before(p, q)
    BY <1>2, <1>3, <2>1, PrecedesOrder
  <2>3. ASSUME entry[e].key \in each'[t].due PROVE Before(p, q)
    <3>1. q \in P /\ q # p
      BY <1>3, <1>4, <1>5, <2>1, <2>3
    <3> QED BY <1>2, <3>1
  <2>4. ASSUME entry[e].key \in each'[t].done PROVE ~Before(p, q)
    <3>1. CASE entry[e].key \in it.done
      BY <1>1, <2>1, <3>1
    <3>2. CASE entry[e].key = key
      <4>1. a \in Held
        BY <1>2, <1>3, UndeletedHeld
      <4>2. q = p
        BY <1>2, <1>3, <1>4, <2>1, <3>2, <4>1, ChainOf DEF Keyed
      <4> QED BY <1>2, <4>2, PrecedesOrder
    <3> QED BY <1>5, <2>4, <3>1, <3>2
  <2> QED BY <2>2, <2>3, <2>4
<1>9. Noted(t)'
  <2>1. each'[t].due \cup each'[t].done \subseteq it.due \cup it.done
    BY <1>5
  <2> QED BY <1>0, <1>6, <2>1 DEF Noted
<1> QED BY <1>7, <1>8, <1>9 DEF Exact

LEMMA StartExact ==
    ASSUME TableInv, NEW t \in Thread, EachStart(t)
    PROVE  Exact(t)'
<1> TypeInv /\ Chained /\ Keyed
  BY DEF TableInv
<1> DEFINE it == [NoEach EXCEPT !.active = TRUE, !.table = tbl, !.due = Keys]
<1>1. it \in EachType /\ it.due = Keys /\ it.done = {}
  BY DEF NoEach, EachType, TypeInv, Keys
<1>2. UNCHANGED table /\ Undeleted # {} /\ each'[t] = Visit(it, First(Undeleted))
  BY DEF EachStart, TypeInv
<1> HIDE DEF it
<1>3. \A k \in Keys : \E e \in Held : entry[e].key = k
  BY Finding DEF Keys
<1> QED BY <1>1, <1>2, <1>3, VisitExact

LEMMA NextExact ==
    ASSUME TableInv, NEW t \in Thread, Exact(t), EachNext(t)
    PROVE  Exact(t)'
<1> TypeInv /\ Chained /\ Keyed
  BY DEF TableInv
<1>0. Here(t) # {} /\ Ahead(t) /\ Noted(t)
  BY DEF Exact
<1>1. /\ UNCHANGED table /\ Later(t) # {} /\ each'[t] = Visit(each[t], First(Later(t)))
      /\ each[t] \in EachType
  BY DEF EachNext, TypeInv
<1>2. Later(t) \in SUBSET Undeleted /\ First(Later(t)) \in Later(t)
  BY <1>1, UndeletedHeld, FirstPlace DEF Later
<1>3. ASSUME NEW q \in Undeleted
      PROVE  /\ entry[At(q)].key \in each[t].due => q \in Later(t)
             /\ entry[At(q)].key \in each[t].done => q \notin Later(t)
  BY <1>0, LaterPlaces, UndeletedHeld DEF Ahead
<1>4. ASSUME NEW q \in Undeleted, Before(First(Later(t)), q) PROVE q \in Later(t)
  <2>1. PICK h \in Here(t) : Before(h, First(Later(t)))
    BY <1>2 DEF Later
  <2>2. h \in Places /\ First(Later(t)) \in Places /\ q \in Places
    BY <1>2, UndeletedHeld DEF Here
  <2>3. Before(h, q)
    BY <1>4, <2>1, <2>2, PrecedesOrder
  <2> QED BY <2>3 DEF Later
<1>5. \A k \in each[t].due \cup each[t].done : \E e \in Held : entry[e].key = k
  BY <1>0 DEF Noted
<1> QED BY <1>1, <1>2, <1>3, <1>4, <1>5, VisitExact

LEMMA ExactStep == TableInv /\ TableInv' /\ ExactInv /\ [Next]_vars => ExactInv'
<1> SUFFICES ASSUME TableInv, TableInv', ExactInv, [Next]_vars, NEW t \in Thread,
                    each'[t].active, ~each'[t].moved
             PROVE  Exact(t)'
  BY DEF ExactInv
<1> TypeInv /\ Chained /\ Keyed /\ Iterating
  BY DEF TableInv
<1>0. ASSUME each[t].active, ~each[t].moved PROVE Exact(t)
  BY <1>0 DEF ExactInv
<1>1. ASSUME NEW K \in SUBSET Key, Remove(K) PROVE Exact(t)'
  <2>1. each'[t] = Forgotten(K)[t]
    BY <1>1 DEF Remove
  <2>2. /\ each'[t].active = each[t].active /\ each'[t].moved = each[t].moved
        /\ each'[t].ptr = each[t].ptr /\ each'[t].bin = each[t].bin
        /\ each'[t].due = each[t].due \ K /\ each'[t].done = each[t].done \ K
    <3>1. /\ Forgotten(K)[t].active = each[t].active /\ Forgotten(K)[t].moved = each[t].moved
          /\ Forgotten(K)[t].ptr = each[t].ptr /\ Forgotten(K)[t].bin = each[t].bin
          /\ Forgotten(K)[t].due = each[t].due \ K /\ Forgotten(K)[t].done = each[t].done \ K
      BY ForgottenBooks
    <3> QED BY <2>1, <3>1, Zenon
  <2>3. Exact(t) /\ t \in Active
    BY <1>0, <2>2 DEF Active
  <2>4. bins' = bins /\ Held' = Held \ Gone(K) /\ \A e \in Held' : entry'[e] = entry[e]
    BY <1>1, <2>3, RemoveStep
  <2> QED BY <2>2, <2>3, <2>4, QuietStep DEF Gone
<1>2. ASSUME NEW k \in Key, rb_hash_delete(k) PROVE Exact(t)'
  BY <1>1, <1>2 DEF rb_hash_delete
<1>3. CASE rb_hash_shift
  BY <1>1, <1>3, ShiftedKey DEF rb_hash_shift
<1>4. CASE rb_hash_clear
  BY <1>1, <1>4 DEF rb_hash_clear
<1>5. CASE each' = Moved
  <2>1. each[t].active /\ each'[t].moved
    BY <1>5, MovedBooks
  <2> QED BY <2>1
<1>6. CASE rb_hash_rehash
  BY <1>5, <1>6, RehashStep
<1>7. ASSUME bins' = bins, each'[t] = each[t], Held' = Held,
             \A e \in Held : entry'[e].key = entry[e].key
      PROVE  Exact(t)'
  BY <1>0, <1>7, QuietStep
<1>8. ASSUME NEW k \in Key, NEW v \in Val, rb_hash_aset(k, v) PROVE Exact(t)'
  <2>1. CASE Has(k)
    <3>1. /\ bins' = bins /\ each' = each /\ Held' = Held
          /\ \A e \in Held : entry'[e].key = entry[e].key
      BY <1>8, <2>1, StoreStep DEF Held
    <3> QED BY <1>7, <3>1
  <2>2. CASE ~Has(k) /\ Full
    BY <1>5, <1>8, <2>2 DEF rb_hash_aset
  <2>3. CASE ~Has(k) /\ ~Full
    <3>1. each' = each
      BY <1>8, <2>3 DEF rb_hash_aset
    <3>2. Exact(t)
      BY <1>0, <3>1
    <3> QED BY <1>8, <2>3, <3>1, <3>2, AddExact
  <2> QED BY <2>1, <2>2, <2>3
<1>9. ASSUME UNCHANGED table, each'[t] = each[t] PROVE Exact(t)'
  <2>1. bins' = bins /\ Held' = Held /\ \A e \in Held : entry'[e].key = entry[e].key
    BY <1>9 DEF table, Held
  <2> QED BY <1>7, <1>9, <2>1
<1>10. ASSUME NEW u \in Thread, EachStart(u) PROVE Exact(t)'
  <2>1. CASE u = t
    BY <1>10, <2>1, StartExact
  <2>2. CASE u # t
    <3>1. UNCHANGED table /\ each'[t] = each[t]
      BY <1>10, <2>2 DEF EachStart, TypeInv
    <3> QED BY <1>9, <3>1
  <2> QED BY <2>1, <2>2
<1>11. ASSUME NEW u \in Thread, EachNext(u) PROVE Exact(t)'
  <2>1. CASE u = t
    <3>1. each'[t].moved = each[t].moved /\ each[t].active
      <4>1. First(Later(t)) \in Undeleted
        BY <1>11, <2>1, UndeletedHeld, FirstPlace DEF Later, EachNext
      <4>2. each'[t] = Visit(each[t], First(Later(t))) /\ UNCHANGED entry /\ each[t] \in EachType
        BY <1>11, <2>1 DEF EachNext, TypeInv, table
      <4>3. Visit(each[t], First(Later(t))).moved = each[t].moved
        BY <4>1, <4>2, VisitBook
      <4> QED BY <1>11, <2>1, <4>2, <4>3 DEF EachNext
    <3> QED BY <1>0, <1>11, <2>1, <3>1, NextExact
  <2>2. CASE u # t
    <3>1. UNCHANGED table /\ each'[t] = each[t]
      BY <1>11, <2>2 DEF EachNext, TypeInv
    <3> QED BY <1>9, <3>1
  <2> QED BY <2>1, <2>2
<1>12. ASSUME NEW u \in Thread, EachEnd(u) \/ EachBreak(u) PROVE Exact(t)'
  <2>0. /\ Held' = Held /\ Active' = Active \ {u} /\ each'[u] = NoEach
        /\ \A w \in Thread \ {u} : each'[w] = each[w]
        /\ Active' # {} => UNCHANGED <<entry, bins>>
    BY <1>12, EnsureStep DEF EachEnd, EachBreak
  <2>1. t # u
    BY <2>0, NoEachType
  <2>2. t \in Active'
    BY DEF Active
  <2> QED BY <1>7, <2>0, <2>1, <2>2
<1>13. CASE UNCHANGED vars
  BY <1>9, <1>13 DEF vars, table
<1> QED BY <1>2, <1>3, <1>4, <1>6, <1>8, <1>10, <1>11, <1>12, <1>13 DEF Next

(* EachExact: while no growth and no rehash moves the entries, an          *)
(* iteration visits every key that stays in the table once, whatever its   *)
(* block and the other threads insert and delete.                          *)
THEOREM IterationsExact == Spec => []EachExact
<1>1. Init => ExactInv
  BY NoEachType DEF Init, ExactInv
<1> QED BY <1>1, ExactStep, ExactEach, Invariant, PTL DEF Spec
=============================================================================
