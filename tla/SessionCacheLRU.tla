--------------------------- MODULE SessionCacheLRU ---------------------------
(***************************************************************************)
(* The LRU session cache of src/src/ssl/ssl_lru.c.                         *)
(*                                                                         *)
(* The whole br_ssl_session_cache_lru context is one record variable `cc`, *)
(* so that every handler is a composition of the C statements it runs, in  *)
(* their order.  The store is a function from entry offsets (multiples of  *)
(* LRU_ENTRY_LEN) to entries; an entry keeps the masked session ID, the    *)
(* session whose parameters were copied into it (the master secret,        *)
(* version and cipher suite are abstracted to the session they belong     *)
(* to), the two list links and the two tree links.  A "link address"      *)
(* (alx, aly in the code) is either ADDR_NULL, meaning cc->root, or the    *)
(* left or right field of an entry.                                        *)
(*                                                                         *)
(* The HMAC key index_key drawn from the server DRBG on the first save,    *)
(* together with the hash function, is abstracted to the function `mask`  *)
(* from session IDs to masked IDs, chosen on the first save among          *)
(* MaskFns.  memcmp over masked IDs is < over MaskVals.                    *)
(***************************************************************************)
EXTENDS Integers, FiniteSets, Sequences, SequencesExt

CONSTANTS
    StoreLens,  \* store_len values a host may pass to br_ssl_session_cache_lru_init
    IDs,        \* session IDs the server may generate (each saved at most once)
    MaskVals,   \* masked session IDs, ordered like memcmp orders them
    MaskFns,    \* possible mask_id functions, one per index_key
    ADDR_NULL,  \* the null address 0xFFFFFFFF
    NoId        \* contents of a never written ID field / "no session"

ASSUME StoreLens \subseteq Nat /\ StoreLens # {}
ASSUME MaskVals \subseteq Nat
ASSUME MaskFns \subseteq [IDs -> MaskVals] /\ MaskFns # {}

LRU_ENTRY_LEN == 100

\* Entry offsets: every offset the store can hold, plus the first one past
\* its end, so that an out-of-bounds allocation is a state and not an error.
Offsets == {i * LRU_ENTRY_LEN : i \in 0..(Max(StoreLens) \div LRU_ENTRY_LEN)}

Addr == Offsets \cup {ADDR_NULL}

\* A link address: cc->root (ADDR_NULL) or a child field of an entry.
LinkAddr == {ADDR_NULL} \cup [node : Offsets, side : {"left", "right"}]

Entry == [id : MaskVals \cup {NoId}, sess : IDs \cup {NoId},
          prev : Addr, next : Addr, left : Addr, right : Addr]

\* Walks follow at most this many links; one more means the structure loops.
WalkBound == Cardinality(Offsets)

VARIABLES
    cc,       \* the br_ssl_session_cache_lru context
    loaded,   \* last lru_load: <<session ID asked for, session whose parameters it copied out or NoId>>
    saved,    \* session IDs already handed to lru_save (they are random, never reused)
    recency   \* history: cached sessions, most recently saved or loaded first

vars == <<cc, loaded, saved, recency>>

-----------------------------------------------------------------------------
(* Helpers, one per static function of ssl_lru.c.                          *)

\* set_link(): store x at link address al.
SetLink(c, al, x) ==
    IF al = ADDR_NULL THEN [c EXCEPT !.root = x]
                      ELSE [c EXCEPT !.store[al.node][al.side] = x]

\* find_node(): walk from the root comparing id with each entry's ID.
\* Result: the node (or ADDR_NULL), the last followed link, and whether
\* the walk would never end.
RECURSIVE FindFrom(_, _, _, _, _)
FindFrom(c, id, x, y, n) ==
    IF x = ADDR_NULL THEN [node |-> ADDR_NULL, link |-> y, loops |-> FALSE]
    ELSE IF n = 0 THEN [node |-> ADDR_NULL, link |-> y, loops |-> TRUE]
    ELSE IF id < c.store[x].id
         THEN FindFrom(c, id, c.store[x].left, [node |-> x, side |-> "left"], n - 1)
    ELSE IF id = c.store[x].id
         THEN [node |-> x, link |-> y, loops |-> FALSE]
    ELSE FindFrom(c, id, c.store[x].right, [node |-> x, side |-> "right"], n - 1)

find_node(c, id) == FindFrom(c, id, c.root, ADDR_NULL, WalkBound)

\* The two loops of find_replacement_node(): from y1 (reached through link
\* y2) follow `side` links while they are not null.
RECURSIVE Descend(_, _, _, _, _)
Descend(c, y1, y2, side, n) ==
    LET z == c.store[y1][side] IN
    IF z = ADDR_NULL THEN [node |-> y1, link |-> y2, loops |-> FALSE]
    ELSE IF n = 0 THEN [node |-> ADDR_NULL, link |-> ADDR_NULL, loops |-> TRUE]
    ELSE Descend(c, z, [node |-> y1, side |-> side], side, n - 1)

\* find_replacement_node(): rightmost left-descendant, else leftmost
\* right-descendant, else none.
find_replacement_node(c, x) ==
    IF c.store[x].left # ADDR_NULL
    THEN Descend(c, c.store[x].left, [node |-> x, side |-> "left"], "right", WalkBound)
    ELSE IF c.store[x].right # ADDR_NULL
    THEN Descend(c, c.store[x].right, [node |-> x, side |-> "right"], "left", WalkBound)
    ELSE [node |-> ADDR_NULL, link |-> ADDR_NULL, loops |-> FALSE]

\* remove_node(): find x's ancestor link, unlink the replacement node from
\* where it is and link it where x was.
remove_node(c, x) ==
    LET fx == find_node(c, c.store[x].id)
        ry == find_replacement_node(c, x)
    IN [cc |-> SetLink(SetLink(c, ry.link, ADDR_NULL), fx.link, ry.node),
        loops |-> fx.loops \/ ry.loops]

\* lru_save(), eviction branch: unlink the list tail, then remove it from
\* the tree.
EvictTail(c) ==
    LET x  == c.tail
        c1 == [c EXCEPT !.tail = c.store[x].prev]
        c2 == IF c1.tail = ADDR_NULL THEN [c1 EXCEPT !.head = ADDR_NULL]
                                     ELSE [c1 EXCEPT !.store[c1.tail].next = ADDR_NULL]
    IN remove_node(c2, x)

\* Mutant of LinkEntry: the raw session ID, not the masked one, is copied
\* into the entry.
LinkEntryRawId(c, x, id, sess) ==
    LET em == find_node(c, id)
        c1 == SetLink(c, em.link, x)
        c2 == [c1 EXCEPT !.store[x].left = ADDR_NULL, !.store[x].right = ADDR_NULL]
        c3 == IF c2.head = ADDR_NULL THEN [c2 EXCEPT !.tail = x]
                                     ELSE [c2 EXCEPT !.store[c2.head].prev = x]
        c4 == [c3 EXCEPT !.store[x].prev = ADDR_NULL, !.store[x].next = c3.head,
                         !.head = x]
    IN [cc |-> [c4 EXCEPT !.store[x].id = sess, !.store[x].sess = sess],
        loops |-> em.loops]

\* lru_save(), after room was found at x: link x in the tree where id
\* belongs, make it the list head, and fill its data.
LinkEntry(c, x, id, sess) ==
    LET em == find_node(c, id)
        c1 == SetLink(c, em.link, x)
        c2 == [c1 EXCEPT !.store[x].left = ADDR_NULL, !.store[x].right = ADDR_NULL]
        c3 == IF c2.head = ADDR_NULL THEN [c2 EXCEPT !.tail = x]
                                     ELSE [c2 EXCEPT !.store[c2.head].prev = x]
        c4 == [c3 EXCEPT !.store[x].prev = ADDR_NULL, !.store[x].next = c3.head,
                         !.head = x]
    IN [cc |-> [c4 EXCEPT !.store[x].id = id, !.store[x].sess = sess],
        loops |-> em.loops]

\* Mutants of MoveToHead: the tail is not updated when x was the tail; the
\* entry is not moved at all.
MoveToHeadKeepTail(c, x) ==
    IF x = c.head THEN c
    ELSE LET p  == c.store[x].prev
             n  == c.store[x].next
             c1 == [c EXCEPT !.store[p].next = n]
             c2 == IF n = ADDR_NULL THEN c1 ELSE [c1 EXCEPT !.store[n].prev = p]
             c3 == [c2 EXCEPT !.store[c2.head].prev = x]
         IN [c3 EXCEPT !.store[x].next = c3.head, !.store[x].prev = ADDR_NULL,
                       !.head = x]
MoveToHeadNot(c, x) == c

\* lru_load(), hit: move x to the list head unless it is there already.
MoveToHead(c, x) ==
    IF x = c.head THEN c
    ELSE LET p  == c.store[x].prev
             n  == c.store[x].next
             c1 == [c EXCEPT !.store[p].next = n]
             c2 == IF n = ADDR_NULL THEN [c1 EXCEPT !.tail = p]
                                    ELSE [c1 EXCEPT !.store[n].prev = p]
             c3 == [c2 EXCEPT !.store[c2.head].prev = x]
         IN [c3 EXCEPT !.store[x].next = c3.head, !.store[x].prev = ADDR_NULL,
                       !.head = x]

\* size_t subtraction.  TLC integers cannot hold 2^64, so SizeTMax stands
\* for SIZE_MAX: like it, it exceeds every offset the store can have.
SizeTMax == 2^30
SizeSub(a, b) == IF a >= b THEN a - b ELSE SizeTMax + 1 + a - b

\* The condition of line 300: no room for one more entry after store_ptr.
Full(c) == c.store_ptr > SizeSub(c.store_len, LRU_ENTRY_LEN)

\* The context after lines 273-278: the index key is drawn on first save.
Keyed(c, m) == IF c.init_done THEN c ELSE [c EXCEPT !.init_done = TRUE, !.mask = m]

KeyChoices(c) == IF c.init_done THEN {c.mask} ELSE MaskFns

-----------------------------------------------------------------------------
(* br_ssl_session_cache_lru_init(): any store_len; nothing in the store    *)
(* has been written.                                                       *)
Init ==
    /\ \E len \in StoreLens :
         cc = [store |-> [o \in Offsets |->
                            [id |-> NoId, sess |-> NoId, prev |-> ADDR_NULL,
                             next |-> ADDR_NULL, left |-> ADDR_NULL,
                             right |-> ADDR_NULL]],
               store_len |-> len, store_ptr |-> 0, init_done |-> FALSE,
               mask |-> [s \in IDs |-> NoId],
               head |-> ADDR_NULL, tail |-> ADDR_NULL, root |-> ADDR_NULL]
    /\ loaded = <<NoId, NoId>>
    /\ saved = {}
    /\ recency = <<>>

\* lru_save() with a store too small for one entry: nothing is recorded.
SaveTooSmall(s) ==
    /\ s \notin saved
    /\ cc.store_len < LRU_ENTRY_LEN
    /\ saved' = saved \cup {s}
    /\ UNCHANGED <<cc, loaded, recency>>

\* lru_save() whose masked ID is already in the tree: dropped.
SaveCollision(s) ==
    /\ s \notin saved
    /\ cc.store_len >= LRU_ENTRY_LEN
    /\ \E m \in KeyChoices(cc) :
         LET c0 == Keyed(cc, m)
             f  == find_node(c0, c0.mask[s])
         IN /\ ~f.loops
            /\ f.node # ADDR_NULL
            /\ cc' = c0
    /\ saved' = saved \cup {s}
    /\ UNCHANGED <<loaded, recency>>

\* Mutant of SaveNew: the store size test of line 265 is left out.
SaveNewUnchecked(s) ==
    /\ s \notin saved
    /\ \E m \in KeyChoices(cc) :
         LET c0 == Keyed(cc, m)
             f  == find_node(c0, c0.mask[s])
             x  == c0.store_ptr
             r  == LinkEntry([c0 EXCEPT !.store_ptr = @ + LRU_ENTRY_LEN],
                             x, c0.mask[s], s)
         IN /\ ~f.loops /\ f.node = ADDR_NULL
            /\ ~Full(c0)
            /\ ~r.loops
            /\ cc' = r.cc
    /\ saved' = saved \cup {s}
    /\ recency' = <<s>> \o recency
    /\ UNCHANGED loaded

\* lru_save() with room left: allocate at store_ptr.
SaveNew(s) ==
    /\ s \notin saved
    /\ cc.store_len >= LRU_ENTRY_LEN
    /\ \E m \in KeyChoices(cc) :
         LET c0 == Keyed(cc, m)
             f  == find_node(c0, c0.mask[s])
             x  == c0.store_ptr
             r  == LinkEntry([c0 EXCEPT !.store_ptr = @ + LRU_ENTRY_LEN],
                             x, c0.mask[s], s)
         IN /\ ~f.loops /\ f.node = ADDR_NULL
            /\ ~Full(c0)
            /\ ~r.loops
            /\ cc' = r.cc
    /\ saved' = saved \cup {s}
    /\ recency' = <<s>> \o recency
    /\ UNCHANGED loaded

\* lru_save() with a full store: evict the list tail and reuse its entry.
SaveEvict(s) ==
    /\ s \notin saved
    /\ cc.store_len >= LRU_ENTRY_LEN
    /\ \E m \in KeyChoices(cc) :
         LET c0 == Keyed(cc, m)
             f  == find_node(c0, c0.mask[s])
             e  == EvictTail(c0)
             r  == LinkEntry(e.cc, c0.tail, c0.mask[s], s)
         IN /\ ~f.loops /\ f.node = ADDR_NULL
            /\ Full(c0)
            /\ ~e.loops /\ ~r.loops
            /\ cc' = r.cc
            /\ recency' = <<s>> \o SelectSeq(recency, LAMBDA t : t # c0.store[c0.tail].sess)
    /\ saved' = saved \cup {s}
    /\ UNCHANGED loaded

\* lru_load() before any save: no key yet, nothing found.
LoadUninit(s) ==
    /\ ~cc.init_done
    /\ loaded' = <<s, NoId>>
    /\ UNCHANGED <<cc, saved, recency>>

\* lru_load() that finds the masked ID: copy the parameters out and move
\* the entry to the list head.
LoadHit(s) ==
    /\ cc.init_done
    /\ LET f == find_node(cc, cc.mask[s]) IN
         /\ ~f.loops /\ f.node # ADDR_NULL
         /\ loaded' = <<s, cc.store[f.node].sess>>
         /\ cc' = MoveToHead(cc, f.node)
         /\ recency' = <<cc.store[f.node].sess>>
                         \o SelectSeq(recency, LAMBDA t : t # cc.store[f.node].sess)
    /\ UNCHANGED saved

\* lru_load() that does not find the masked ID.
LoadMiss(s) ==
    /\ cc.init_done
    /\ LET f == find_node(cc, cc.mask[s]) IN ~f.loops /\ f.node = ADDR_NULL
    /\ loaded' = <<s, NoId>>
    /\ UNCHANGED <<cc, saved, recency>>

Next ==
    \E s \in IDs :
        \/ SaveTooSmall(s) \/ SaveCollision(s) \/ SaveNew(s) \/ SaveEvict(s)
        \/ LoadUninit(s) \/ LoadHit(s) \/ LoadMiss(s)

Spec == Init /\ [][Next]_vars

-----------------------------------------------------------------------------
(* Views of the state used by the properties.                              *)

\* The LRU list, followed from cc->head along the next links (at most
\* WalkBound + 1 entries, so that a looping list shows as too long).
RECURSIVE ListFrom(_, _, _)
ListFrom(c, x, n) ==
    IF x = ADDR_NULL \/ n = 0 THEN <<>>
    ELSE <<x>> \o ListFrom(c, c.store[x].next, n - 1)

List == ListFrom(cc, cc.head, WalkBound + 1)

\* The sessions whose parameters the entries of L hold.
SessionsOf(L) == [i \in 1..Len(L) |-> cc.store[L[i]].sess]

\* Entries handed out by the allocation branch of lru_save().
Allocated == {o \in Offsets : o < cc.store_ptr}

\* Entries reachable from cc->root through tree links, with a bounded walk.
RECURSIVE Reach(_, _)
Reach(S, n) ==
    LET S2 == (S \cup {cc.store[x][side] : x \in S, side \in {"left", "right"}})
                \ {ADDR_NULL}
    IN IF S2 = S \/ n = 0 THEN S ELSE Reach(S2, n - 1)

TreeNodes == IF cc.root = ADDR_NULL THEN {} ELSE Reach({cc.root}, WalkBound)

-----------------------------------------------------------------------------
(* Properties                                                              *)

TypeOK ==
    /\ cc.store \in [Offsets -> Entry]
    /\ cc.store_len \in StoreLens
    /\ cc.store_ptr \in Offsets
    /\ cc.init_done \in BOOLEAN
    /\ cc.mask \in MaskFns \cup {[s \in IDs |-> NoId]}
    /\ {cc.head, cc.tail, cc.root} \subseteq Addr
    /\ loaded \in (IDs \X (IDs \cup {NoId})) \cup {<<NoId, NoId>>}
    /\ saved \subseteq IDs
    /\ recency \in Seq(IDs)

\* The doubly-linked list that lru_save() and lru_load() maintain holds
\* every allocated entry exactly once, from cc->head to cc->tail, with
\* prev links mirroring next links (needs save, evict and load-to-head in
\* any order, including the single-entry store where tail is also head).
ListWellFormed ==
    LET L == List IN
    /\ Len(L) = Cardinality(Allocated)
    /\ ToSet(L) = Allocated
    /\ cc.tail = IF L = <<>> THEN ADDR_NULL ELSE Last(L)
    /\ \A i \in 1..Len(L) :
         cc.store[L[i]].prev = IF i = 1 THEN ADDR_NULL ELSE L[i - 1]

\* The list orders the cached sessions by their last successful save or
\* load, most recent first, so that eviction of the tail in lru_save()
\* evicts the least recently used session.
ListIsRecencyOrder == SessionsOf(List) = recency

\* Every entry the cache uses lies inside the host's buffer: the
\* allocation test of lru_save() never hands out an entry that crosses
\* store + store_len.
EntriesWithinStore ==
    \A x \in ToSet(List) : x + LRU_ENTRY_LEN <= cc.store_len

\* lru_load() and lru_save() always return: for every masked ID a client
\* may present, the find_node() walk from cc->root reaches a null link or
\* the entry, without coming back to an entry it already visited.
FindTerminates == \A v \in MaskVals : ~find_node(cc, v).loops

\* The cache implements the session cache contract of SessionCache: a
\* session that was saved and not yet evicted as least recently used is
\* found by lru_load(), with its own parameters.
Abstract == INSTANCE SessionCache
              WITH lru <- SessionsOf(List),
                   capacity <- cc.store_len \div LRU_ENTRY_LEN,
                   Capacities <- {l \div LRU_ENTRY_LEN : l \in StoreLens}

RefinesSessionCache == Abstract!Spec
=============================================================================
