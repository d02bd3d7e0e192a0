---------------------------- MODULE MCHashTable -----------------------------
(* An instance of HashTable for TLC: a table of one bin that grows to      *)
(* three, and three keys two of which stay together.                       *)
EXTENDS HashTable, TLC

SmallPrimes == <<1, 2, 3, 5>>
SmallHash == [k \in Key |-> CASE k = "a" -> 0 [] k = "b" -> 1 [] OTHER -> 3]
Symmetry == Permutations(EntryAddr) \cup Permutations(Thread) \cup Permutations(TableAddr)
=============================================================================
