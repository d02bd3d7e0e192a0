------------------------------- MODULE Arrays -------------------------------
(* Lists: the arrays of the thread library, the chains of st.c.            *)
EXTENDS Naturals, Sequences

Elements(q) == {q[i] : i \in 1 .. Len(q)}
Distinct(q) == \A i, j \in 1 .. Len(q) : q[i] = q[j] => i = j

(* What is left of q when all that is not in S has been deleted.           *)
Filter(q, S) ==
    LET kept[i \in 0 .. Len(q)] ==
            IF i = 0 THEN << >>
            ELSE IF q[i] \in S THEN Append(kept[i - 1], q[i]) ELSE kept[i - 1]
    IN  kept[Len(q)]

(* The lists of b, one after the other.                                    *)
Flatten(b) ==
    LET upto[i \in 0 .. Len(b)] == IF i = 0 THEN << >> ELSE upto[i - 1] \o b[i]
    IN  upto[Len(b)]

Reversed(q) == [i \in 1 .. Len(q) |-> q[Len(q) + 1 - i]]
=============================================================================
