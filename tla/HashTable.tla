----------------------------- MODULE HashTable ------------------------------
(***************************************************************************)
(* The hash table of ruby/st.c as class Hash (ruby/hash.c) uses it: chains *)
(* of entries, growth, iteration with a block that may do anything to the  *)
(* hash, deletion during an iteration (the entry stays, with key Qundef,   *)
(* until the last iteration is over), and Hash#rehash, which puts another  *)
(* table in its place.  Tables and entries have addresses, which malloc    *)
(* may give out again when they are free.                                  *)
(*                                                                         *)
(* A call of the hash is a step; the threads, and the block of an          *)
(* iteration, interleave with them.  Keys are not modified while they are  *)
(* in the table.                                                           *)
(***************************************************************************)
EXTENDS Arrays, FiniteSets

CONSTANTS Thread,
          Key, Val, Absent,
          Hash,         \* the hash value of a key
          TableAddr, EntryAddr,
          MINSIZE, primes, ST_DEFAULT_MAX_DENSITY,
          Nil

ASSUME HashAssumption ==
    /\ Hash \in [Key -> Nat]
    /\ MINSIZE \in Nat \ {0} /\ ST_DEFAULT_MAX_DENSITY \in Nat
    /\ primes \in Seq(Nat \ {0})
    /\ Absent \notin Val /\ Nil \notin Key \cup EntryAddr
    /\ IsFiniteSet(EntryAddr)     \* and so few of them that new_size has a prime
    /\ \A n \in 0 .. Cardinality(EntryAddr) + 1 :
         \E i \in 1 .. Len(primes) : MINSIZE * 2 ^ (i - 1) > n

VARIABLES tbl,          \* the address of the table
          bins,         \* its bins, a sequence of chains
          entry,        \* the entry at an address: its key (Nil if it is
                        \* Qundef), its record and its hash; or Free
          num_entries,
          iter_lev,     \* the iterations under way
          deleted,      \* HASH_DELETED
          each          \* the iteration of a thread, see NoEach

vars == <<tbl, bins, entry, num_entries, iter_lev, deleted, each>>
table == <<tbl, bins, entry, num_entries>>

Free == [key |-> Nil, val |-> Absent, hash |-> 0, live |-> FALSE]

(* table: what st_foreach iterates over; bin, ptr: where it is, while the  *)
(* block runs for it; seen: the table before the block.  Not in the code:  *)
(* moved tells that the entries have got other places, and due and done    *)
(* are, until then, the keys in the table since the start of the iteration *)
(* that it has not yet and has already visited.                            *)
NoEach == [active |-> FALSE, table |-> Nil, bin |-> 0, ptr |-> Nil, seen |-> Nil,
           moved |-> FALSE, due |-> {}, done |-> {}]

(* new_size: the prime that belongs to the power of two above n            *)
new_size(n) ==
    LET fits == {i \in 1 .. Len(primes) : MINSIZE * 2 ^ (i - 1) > n}
    IN  primes[CHOOSE i \in fits : \A j \in fits : i <= j]

NoBins(n) == [i \in 1 .. n |-> << >>]

Init ==
    /\ tbl \in TableAddr
    /\ bins = NoBins(new_size(0))
    /\ entry = [e \in EntryAddr |-> Free]
    /\ num_entries = 0
    /\ iter_lev = 0 /\ deleted = FALSE
    /\ each = [t \in Thread |-> NoEach]

-----------------------------------------------------------------------------
(* st.c                                                                    *)

num_bins == Len(bins)
BinOf(h, n) == (h % n) + 1

(* The entries in the order st_foreach meets them.                         *)
Places == UNION {{i} \X (1 .. Len(bins[i])) : i \in 1 .. num_bins}
At(p) == bins[p[1]][p[2]]
Before(p, q) == p[1] < q[1] \/ (p[1] = q[1] /\ p[2] < q[2])
First(P) == CHOOSE p \in P : \A q \in P \ {p} : Before(p, q)
Undeleted == {p \in Places : entry[At(p)].key # Nil}
InOrder == Flatten(bins)

(* FIND_ENTRY *)
Chain(k) == bins[BinOf(Hash[k], num_bins)]
Matches(e, k) == entry[e].hash = Hash[k] /\ entry[e].key = k
Has(k) == \E j \in DOMAIN Chain(k) : Matches(Chain(k)[j], k)
Found(k) == CHOOSE e \in Elements(Chain(k)) : Matches(e, k)
Lookup(k) == IF Has(k) THEN entry[Found(k)].val ELSE Absent

(* rehash: the entries are put, one after the other, at the head of their  *)
(* new bins.                                                               *)
RebinnedHeads(n) ==      \* mutant: next is read after it has been overwritten
    LET heads == {bins[b][1] : b \in {c \in DOMAIN bins : bins[c] # << >>}}
    IN  [i \in 1 .. n |-> Reversed(Filter(InOrder, {e \in heads : BinOf(entry[e].hash, n) = i}))]
Rebinned(n) ==
    [i \in 1 .. n |-> Reversed(Filter(InOrder, {e \in EntryAddr : BinOf(entry[e].hash, n) = i}))]

(* ADD_DIRECT, for a key that is not there                                 *)
Full == num_entries \div num_bins > ST_DEFAULT_MAX_DENSITY
Grown == IF Full THEN Rebinned(new_size(num_bins + 1)) ELSE bins
Unused == {e \in EntryAddr : ~entry[e].live}
AddDirect(k, v) ==
    \E e \in Unused :
        /\ entry' = [entry EXCEPT ![e] = [key |-> k, val |-> v, hash |-> Hash[k], live |-> TRUE]]
        /\ LET b == BinOf(Hash[k], Len(Grown))
           IN  bins' = [Grown EXCEPT ![b] = <<e>> \o @]
        /\ num_entries' = num_entries + 1

(* What the iterations' books note: the keys of gone have been deleted; or *)
(* the entries have got other places.                                      *)
Forgotten(gone) == [t \in Thread |-> [each[t] EXCEPT !.due = @ \ gone, !.done = @ \ gone]]
Moved == [t \in Thread |-> IF each[t].active
                           THEN [each[t] EXCEPT !.moved = TRUE, !.due = {}, !.done = {}]
                           ELSE each[t]]

(* st_delete_safe of all the keys of K: the entries stay. *)
Voided(K) == [e \in EntryAddr |-> IF entry[e].live /\ entry[e].key \in K
                                  THEN [entry[e] EXCEPT !.key = Nil, !.val = Absent] ELSE entry[e]]

(* st_delete of the keys of K, and of what st_delete_safe has left: the    *)
(* entries are freed.                                                      *)
Dropped(K) == [e \in EntryAddr |-> IF entry[e].live /\ entry[e].key \in K \cup {Nil}
                                   THEN Free ELSE entry[e]]
Unchained(K) ==
    [i \in 1 .. num_bins |-> Filter(bins[i], {e \in EntryAddr : entry[e].key \notin K \cup {Nil}})]
Present(K) == {k \in K : Has(k)}

-----------------------------------------------------------------------------
(* hash.c                                                                  *)

(* Hash#[]= *)
rb_hash_aset(k, v) ==
    /\ \/ /\ Has(k)
          /\ entry' = [entry EXCEPT ![Found(k)].val = v]
          /\ UNCHANGED <<bins, num_entries, each>>
       \/ ~Has(k) /\ AddDirect(k, v) /\ each' = IF Full THEN Moved ELSE each
    /\ UNCHANGED <<tbl, iter_lev, deleted>>

(* The entries of the keys of K go: at once, or when the last iteration is *)
(* over (st_cleanup_safe).                                                 *)
RemoveAtOnce(K) ==       \* mutant: entries are freed under an iteration
    /\ num_entries' = num_entries - Cardinality(Present(K))
    /\ entry' = Dropped(K) /\ bins' = Unchained(K)
    /\ each' = Forgotten(K)
    /\ UNCHANGED <<tbl, iter_lev, deleted>>
Remove(K) ==
    /\ num_entries' = num_entries - Cardinality(Present(K))
    /\ \/ /\ iter_lev > 0
          /\ entry' = Voided(K)
          /\ deleted' = (deleted \/ Present(K) # {})
          /\ UNCHANGED bins
       \/ /\ iter_lev = 0
          /\ entry' = Dropped(K) /\ bins' = Unchained(K)
          /\ UNCHANGED deleted
    /\ each' = Forgotten(K)
    /\ UNCHANGED <<tbl, iter_lev>>
rb_hash_delete(k) == Has(k) /\ Remove({k})
rb_hash_shift == Undeleted # {} /\ Remove({entry[At(First(Undeleted))].key})
rb_hash_clear == num_entries > 0 /\ Remove(Key)

(* Hash#rehash: a new table with new entries; the old ones are freed.  Its *)
(* own iteration inserts them in the order it meets them.                  *)
Copied == Filter(InOrder, {e \in EntryAddr : entry[e].key # Nil})
rb_hash_rehash ==
    \E a \in TableAddr \ {tbl} :
    \E f \in [Elements(Copied) -> Unused] :
        LET n == new_size(num_entries)
            new == [j \in 1 .. Len(Copied) |-> f[Copied[j]]]
        IN  /\ \A d, e \in Elements(Copied) : d # e => f[d] # f[e]
            /\ tbl' = a
            /\ entry' = [e \in EntryAddr |->
                            IF \E d \in Elements(Copied) : f[d] = e
                            THEN entry[CHOOSE d \in Elements(Copied) : f[d] = e] ELSE Free]
            /\ bins' = [i \in 1 .. n |->
                           Reversed(Filter(new, {e \in EntryAddr : BinOf(entry'[e].hash, n) = i}))]
            /\ each' = Moved
            /\ UNCHANGED <<num_entries, iter_lev, deleted>>

-----------------------------------------------------------------------------
(* rb_hash_foreach                                                         *)

Keys == {k \in Key : Has(k)}

(* The block is called for the entry at p.                                 *)
Visit(it, p) ==
    LET k == entry'[At(p)].key
    IN  [it EXCEPT !.bin = p[1], !.ptr = At(p), !.seen = tbl,
                   !.due = @ \ {k}, !.done = IF k \in it.due THEN @ \cup {k} ELSE @]

EachStart(t) ==
    /\ ~each[t].active /\ Undeleted # {}
    /\ iter_lev' = iter_lev + 1
    /\ UNCHANGED <<table, deleted>>
    /\ each' = [each EXCEPT ![t] =
                   Visit([NoEach EXCEPT !.active = TRUE, !.table = tbl, !.due = Keys],
                         First(Undeleted))]

(* hash_foreach_ensure: the last one cleans up.                            *)
EachEnsureMiscounts(t) ==        \* mutant: ST_DELETE counts them once more
    /\ iter_lev' = iter_lev - 1
    /\ \/ /\ iter_lev = 1 /\ deleted
          /\ entry' = Dropped({}) /\ bins' = Unchained({})
          /\ deleted' = FALSE
          /\ num_entries' = num_entries - Cardinality(Places \ Undeleted)
       \/ /\ ~(iter_lev = 1 /\ deleted)
          /\ UNCHANGED <<entry, bins, deleted, num_entries>>
    /\ each' = [each EXCEPT ![t] = NoEach]
    /\ UNCHANGED tbl
EachEnsure(t) ==
    /\ iter_lev' = iter_lev - 1
    /\ \/ /\ iter_lev = 1 /\ deleted
          /\ entry' = Dropped({}) /\ bins' = Unchained({})
          /\ deleted' = FALSE
       \/ /\ ~(iter_lev = 1 /\ deleted)
          /\ UNCHANGED <<entry, bins, deleted>>
    /\ each' = [each EXCEPT ![t] = NoEach]
    /\ UNCHANGED <<tbl, num_entries>>

(* The block breaks, raises, or returns after which the iteration is       *)
(* stopped: the table is another one, or the entry is not found in its bin *)
(* any more (ST_CHECK).                                                    *)
Here(t) == {p \in Places : p[1] = each[t].bin /\ At(p) = each[t].ptr}
Later(t) == {p \in Undeleted : \E q \in Here(t) : Before(q, p)}
EachBreak(t) == each[t].active /\ EachEnsure(t)

MayGoOnAnyTable(t) == Here(t) # {}      \* mutant: the table is not compared
MayGoOn(t) == tbl = each[t].seen /\ Here(t) # {}

EachNext(t) ==
    /\ each[t].active /\ MayGoOn(t) /\ Later(t) # {}
    /\ UNCHANGED <<table, iter_lev, deleted>>
    /\ each' = [each EXCEPT ![t] = Visit(@, First(Later(t)))]
EachEnd(t) == each[t].active /\ MayGoOn(t) /\ Later(t) = {} /\ EachEnsure(t)

Next ==
    \/ \E k \in Key : rb_hash_delete(k) \/ \E v \in Val : rb_hash_aset(k, v)
    \/ rb_hash_shift \/ rb_hash_clear \/ rb_hash_rehash
    \/ \E t \in Thread : EachStart(t) \/ EachNext(t) \/ EachEnd(t) \/ EachBreak(t)

Spec == Init /\ [][Next]_vars

-----------------------------------------------------------------------------
(* Properties.                                                             *)

(* Every variable has its type, and the table is sound: an entry is in one *)
(* chain, that of its hash value; a key has one entry; num_entries is the  *)
(* number of keys; deleted entries are there only during an iteration,     *)
(* and the last one will clean up.                                         *)
TableOK ==
    /\ tbl \in TableAddr
    /\ entry \in [EntryAddr -> [key : Key \cup {Nil}, val : Val \cup {Absent}, hash : Nat,
                                live : BOOLEAN]]
    /\ {At(p) : p \in Places} = {e \in EntryAddr : entry[e].live}
    /\ \A p \in Places : BinOf(entry[At(p)].hash, num_bins) = p[1]
    /\ \A p, q \in Places : p # q => At(p) # At(q)
    /\ \A p, q \in Undeleted : p # q => entry[At(p)].key # entry[At(q)].key
    /\ num_entries = Cardinality(Undeleted)
    /\ Undeleted # Places => deleted /\ iter_lev > 0
    /\ iter_lev = Cardinality({t \in Thread : each[t].active})

(* An iteration is exact as long as the entries keep their places: of the  *)
(* keys that are in the table since it began, those up to the current      *)
(* entry have been visited, once, and those after it have not.  Insertions *)
(* and deletions, by the block or by other threads, make no difference.    *)
EachExact ==
    \A t \in Thread : each[t].active /\ ~each[t].moved =>
        /\ Here(t) # {}
        /\ \A p \in Undeleted :
             /\ entry[At(p)].key \in each[t].due => p \in Later(t)
             /\ entry[At(p)].key \in each[t].done => p \notin Later(t)
        /\ each[t].due \cup each[t].done \subseteq Keys

(* An iteration that goes on after its block goes on in the table that is  *)
(* there: it never follows a pointer into one that rehash has freed.       *)
LiveTableOnly ==
    [][\A t \in Thread : each[t].active /\ each[t]'.active /\ each[t].ptr # each[t]'.ptr
           => each[t].table = tbl]_vars

Map == INSTANCE HashMap WITH dict <- [k \in Key |-> Lookup(k)]

(* The table is a map: a call changes the value of one key, or clears all, *)
(* and growth, rehash and the end of iterations change none, whatever they *)
(* do to the chains.                                                       *)
ImplementsMap == Map!MapSpec
=============================================================================
