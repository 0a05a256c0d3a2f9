---------------------------- MODULE SessionCache ----------------------------
(***************************************************************************)
(* What a server session cache promises: the br_ssl_session_cache_class    *)
(* contract of bearssl_ssl.h (save() records the parameters, load() finds  *)
(* them and copies them out, returning 1, or returns 0) together with the  *)
(* LRU policy the header documents for br_ssl_session_cache_lru: a store   *)
(* of `capacity` entries, evicting the least recently used session.        *)
(* Sessions are IDs the server generated at random, saved once each.       *)
(***************************************************************************)
EXTENDS Integers, Sequences, SequencesExt

CONSTANTS IDs, NoId, Capacities

VARIABLES
    lru,       \* cached sessions, most recently saved or loaded first
    capacity,  \* number of entries the store holds
    loaded,    \* last load(): <<session ID asked for, session returned or NoId>>
    saved      \* sessions already saved

vars == <<lru, capacity, loaded, saved>>

Init ==
    /\ lru = <<>>
    /\ capacity \in Capacities
    /\ loaded = <<NoId, NoId>>
    /\ saved = {}

\* save(): the new session becomes the most recent one; when the store is
\* full the least recent one is evicted; a store without room keeps nothing.
Save(s) ==
    /\ s \notin saved
    /\ saved' = saved \cup {s}
    /\ lru' = IF capacity = 0 THEN lru
              ELSE <<s>> \o (IF Len(lru) = capacity THEN Front(lru) ELSE lru)
    /\ UNCHANGED <<capacity, loaded>>

\* load(): a cached session is found and becomes the most recent one.
Load(s) ==
    /\ loaded' = <<s, IF Contains(lru, s) THEN s ELSE NoId>>
    /\ lru' = IF Contains(lru, s) THEN <<s>> \o Remove(lru, s) ELSE lru
    /\ UNCHANGED <<capacity, saved>>

Next == \E s \in IDs : Save(s) \/ Load(s)

Spec == Init /\ [][Next]_vars
=============================================================================
