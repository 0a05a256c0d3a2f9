------------------------- MODULE MC_SessionCacheLRU -------------------------
(* Model-checking instances of SessionCacheLRU.                            *)
EXTENDS SessionCacheLRU, TLC

CONSTANTS s1, s2, s3, s4, s5, s6

\* Five or six random session IDs: enough saves to fill a three-entry store
\* and evict from it two or three times.
MC_IDs5 == {s1, s2, s3, s4, s5}
MC_IDs6 == MC_IDs5 \cup {s6}

\* Masked IDs: one per session, so that any order of the masked IDs occurs.
MC_MaskVals5 == 1..5
MC_MaskVals6 == 1..6

\* mask_id() under every index key: any function, collisions included.
MC_AnyMask5 == [MC_IDs5 -> 1..4]

\* Index keys under which mask_id() is injective on the IDs in use.
MC_InjectiveMask5 == Injection(MC_IDs5, MC_MaskVals5)
MC_InjectiveMask6 == Injection(MC_IDs6, MC_MaskVals6)

\* Session IDs are random: any renaming of them is an equally possible run.
MC_Symmetry5 == Permutations(MC_IDs5)
MC_Symmetry6 == Permutations(MC_IDs6)
=============================================================================
