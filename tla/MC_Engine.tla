------------------------------ MODULE MC_Engine ------------------------------
(* Model-checking instance of Engine: the two parties are model values.   *)
EXTENDS Engine

=============================================================================
