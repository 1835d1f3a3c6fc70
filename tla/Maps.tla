-------------------------------- MODULE Maps --------------------------------
(* Finite maps and ordered sets, as the code's Map, Set and plain objects: *)
(* functions whose domain changes, and sequences that have each element    *)
(* once.                                                                   *)
EXTENDS Naturals, Sequences, FiniteSets

\* f without the keys S; f with everything g says; f with one entry.
Minus(f, S) == [x \in DOMAIN f \ S |-> f[x]]
Updated(f, g) == [x \in DOMAIN f \cup DOMAIN g |-> IF x \in DOMAIN g THEN g[x] ELSE f[x]]
With(f, k, v) == [x \in DOMAIN f \cup {k} |-> IF x = k THEN v ELSE f[x]]

\* s without the elements S, in the same order.
Without(s, S) ==
    LET kept == {i \in DOMAIN s : s[i] \notin S}
        place(i) == Cardinality({j \in kept : j <= i})
    IN  [k \in 1..Cardinality(kept) |-> s[CHOOSE i \in kept : place(i) = k]]
=============================================================================
