------------------------- MODULE MC_Resumption -------------------------
(* Model-checking instance of Resumption: one client context reconnecting *)
(* five times to a three-entry cache, enough for a resumed session and    *)
(* then an eviction of a leaf of the cache's tree.                         *)
EXTENDS Resumption

CONSTANTS c1, s1, s2, s3, s4, s5, v1

MC_IDs5 == {s1, s2, s3, s4, s5}

\* One index key, under which the five session IDs mask to 1..5 in order:
\* the fresh IDs the server draws still reach every order of masked IDs,
\* and so every shape of the tree.
MC_OneMask5 == {[s \in MC_IDs5 |-> CASE s = s1 -> 1 [] s = s2 -> 2 [] s = s3 -> 3
                                     [] s = s4 -> 4 [] s = s5 -> 5]}

=============================================================================
