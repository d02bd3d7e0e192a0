SPECIFICATION Spec
CONSTANTS
    Thread = {t1, t2}
    Key = {"a", "b", "c"}
    Val = {v}
    Absent = Absent
    Hash <- SmallHash
    TableAddr = {T1, T2}
    EntryAddr = {e1, e2, e3, e4}
    MINSIZE = 1
    primes <- SmallPrimes
    ST_DEFAULT_MAX_DENSITY = 1
    Nil = Nil
SYMMETRY Symmetry
INVARIANTS TableOK EachExact
PROPERTIES LiveTableOnly ImplementsMap
