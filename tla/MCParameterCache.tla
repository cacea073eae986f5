------------------------- MODULE MCParameterCache --------------------------
(* Readers of selections that may hold the same table, of two hosts or one. *)
EXTENDS ParameterCache, TLC

CONSTANTS r1, r2, k1, k2, b1, b2, d1, d2, dTorn

MCSha256 == (b1 :> d1) @@ (b2 :> d2) @@ (Torn :> dTorn)
Swap == (b1 :> b2) @@ (b2 :> b1) @@ (d1 :> d2) @@ (d2 :> d1)
Symmetry == Permutations({r1, r2}) \cup Permutations({k1, k2}) \cup {Swap}

\* The bound: two readers at work at once share one key, of an entry nobody tampers with.
Untouched(k) == metaFile[k] = Missing /\ sent[k] = {b1} /\ \A r \in Readers : call[r].key # k
Bound == (\A r \in Readers : call[r].key # None) => tampers = 0 /\ \E k \in Keys : Untouched(k)

MCSpec == Init /\ [][Next /\ Bound']_vars
=============================================================================
