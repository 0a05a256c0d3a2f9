----------------------------- MODULE Resumption -----------------------------
(***************************************************************************)
(* Session resumption: client contexts that keep session parameters        *)
(* across br_ssl_client_reset, server contexts that look sessions up in,   *)
(* and save them to, the LRU cache of ssl_lru.c through the                *)
(* br_ssl_session_cache_class vtable (br_ssl_server_set_cache).            *)
(*                                                                         *)
(* The cache is the SessionCacheLRU module itself, instantiated on this    *)
(* module's variables: every load and save a server makes is one of its   *)
(* actions.  The handshake processor is not in this repository; of it the  *)
(* model keeps what decides resumption: the session ID the client offers,  *)
(* the cache lookup, a fresh random ID and a save after a full handshake,  *)
(* and the checks of the Finished messages, which succeed only when both   *)
(* sides hold the same master secret.                                      *)
(*                                                                         *)
(* Session parameters (br_ssl_session_parameters) are a session ID and     *)
(* `sess`, the full handshake whose version, cipher suite and master       *)
(* secret they carry; `version` keeps what each full handshake negotiated. *)
(***************************************************************************)
EXTENDS Integers, FiniteSets, Sequences

CONSTANTS
    Clients,    \* client contexts, each reused for successive connections
    IDs, MaskVals, MaskFns, StoreLens, ADDR_NULL, NoId,  \* of SessionCacheLRU
    Versions,   \* version and cipher suite a full handshake may negotiate
    MaxConn     \* connections opened in all

ASSUME MaxConn \in Nat /\ MaxConn <= Cardinality(IDs)

VARIABLES
    cc, loaded, saved, recency,  \* the server's br_ssl_session_cache_lru
    cli,        \* [Clients -> client context]
    srv,        \* [Clients -> server context serving that client's connection]
    version,    \* [IDs -> version negotiated by that session's full handshake]
    issued,     \* session IDs the servers generated
    kept,       \* session parameters hosts copied out (get_session_parameters)
    conns       \* connections opened so far

cacheVars == <<cc, loaded, saved, recency>>
vars == <<cc, loaded, saved, recency, cli, srv, version, issued, kept, conns>>

Cache == INSTANCE SessionCacheLRU

BR_ERR_OK == 0
BR_ERR_IO == 31
BR_ERR_BAD_FINISHED == 24
BR_ERR_RESUME_MISMATCH == 25

\* br_ssl_session_parameters: session_id (NoId when session_id_len is 0)
\* and the parameters of the full handshake `sess`.
Params == [id : IDs \cup {NoId}, sess : IDs \cup {NoId}]
NoSession == [id |-> NoId, sess |-> NoId]

\* The Finished messages are MACs under the master secret: the peer's
\* verifies only if both sides hold the same one.
FinishedOK(a, b) == a.sess = b.sess

Init ==
    /\ Cache!Init
    /\ cli = [c \in Clients |-> [hs |-> "idle", session |-> NoSession,
                                 offered |-> NoId, err |-> BR_ERR_OK]]
    /\ srv = [c \in Clients |-> [hs |-> "idle", session |-> NoSession,
                                 resumed |-> FALSE, err |-> BR_ERR_OK]]
    /\ version = [s \in IDs |-> NoId]
    /\ issued = {}
    /\ kept = {}
    /\ conns = 0

Failed(ctx, code) == [ctx EXCEPT !.hs = "failed", !.err = code]

-----------------------------------------------------------------------------
(* The client.                                                             *)

\* br_ssl_client_reset(cc, server_name, resume_session): the session is
\* offered in the ClientHello only if resume_session is set and the
\* context has a session ID; the server side is reset for the connection
\* (br_ssl_server_reset).
ClientReset(c, resume) ==
    LET s == IF resume THEN cli[c].session
             ELSE [cli[c].session EXCEPT !.id = NoId]
    IN /\ cli[c].hs # "wait_sh"
       /\ srv[c].hs \notin {"wait_ch", "wait_fin"}
       /\ conns < MaxConn
       /\ cli' = [cli EXCEPT ![c] = [hs |-> "wait_sh", session |-> s,
                                     offered |-> s.id, err |-> BR_ERR_OK]]
       /\ srv' = [srv EXCEPT ![c] = [hs |-> "wait_ch", session |-> NoSession,
                                     resumed |-> FALSE, err |-> BR_ERR_OK]]
       /\ conns' = conns + 1
       /\ UNCHANGED <<cacheVars, version, issued, kept>>

\* br_ssl_client_forget_session: session_id_len = 0, the rest is kept.
\* It acts on the next handshake, so the host calls it between connections.
ForgetSession(c) ==
    /\ cli[c].hs \in {"idle", "failed"}
    /\ cli[c].session.id # NoId
    /\ cli' = [cli EXCEPT ![c].session.id = NoId]
    /\ UNCHANGED <<cacheVars, srv, version, issued, kept, conns>>

\* br_ssl_engine_get_session_parameters, after the handshake completed.
GetSessionParameters(c) ==
    /\ cli[c].hs = "done" /\ cli[c].session \notin kept
    /\ kept' = kept \cup {cli[c].session}
    /\ UNCHANGED <<cacheVars, cli, srv, version, issued, conns>>

\* br_ssl_engine_set_session_parameters, before a new handshake.
SetSessionParameters(c, pp) ==
    /\ cli[c].hs \in {"idle", "failed"}
    /\ cli[c].session # pp
    /\ cli' = [cli EXCEPT ![c].session = pp]
    /\ UNCHANGED <<cacheVars, srv, version, issued, kept, conns>>

\* The host ends an established connection (br_sslio_close): the context
\* is idle until the next reset.
ClientClose(c) ==
    /\ cli[c].hs = "done" /\ srv[c].hs \in {"done", "failed"}
    /\ cli' = [cli EXCEPT ![c].hs = "idle"]
    /\ UNCHANGED <<cacheVars, srv, version, issued, kept, conns>>

\* The client's handshake, from ServerHello to its Finished.  A ServerHello
\* that echoes the offered ID resumes: the version and suite must be those
\* of the client's session, and the server's Finished must verify.  Any
\* other ID starts a full handshake whose parameters the client adopts.
\* A failing client sends a fatal alert, which fails the server.
ClientFinish(c) ==
    LET sh == srv[c].session
        mine == cli[c].session
        fail(code) == /\ cli' = [cli EXCEPT ![c] = Failed(@, code)]
                      /\ srv' = [srv EXCEPT ![c] = Failed(@, BR_ERR_IO)]
    IN /\ cli[c].hs = "wait_sh" /\ srv[c].hs = "wait_fin"
       /\ IF sh.id = cli[c].offered
          THEN IF version[sh.sess] # version[mine.sess]
               THEN fail(BR_ERR_RESUME_MISMATCH)
               ELSE IF ~FinishedOK(sh, mine) THEN fail(BR_ERR_BAD_FINISHED)
               ELSE /\ cli' = [cli EXCEPT ![c].hs = "done"]
                    /\ UNCHANGED srv
          ELSE /\ cli' = [cli EXCEPT ![c].hs = "done", ![c].session = sh]
               /\ UNCHANGED srv
       /\ UNCHANGED <<cacheVars, version, issued, kept, conns>>

-----------------------------------------------------------------------------
(* The server and its cache.                                               *)

\* The vtable calls of the server handshake: load() and save() of the LRU
\* cache, each one of the cache module's actions.
CacheLoad(s) == Cache!LoadUninit(s) \/ Cache!LoadHit(s) \/ Cache!LoadMiss(s)
CacheSave(s) ==
    Cache!SaveTooSmall(s) \/ Cache!SaveCollision(s)
    \/ Cache!SaveNew(s) \/ Cache!SaveEvict(s)

\* The ServerHello: the parameters load() copied out are resumed under
\* the offered ID; without them the server starts a full handshake with a
\* fresh random 32-byte session ID and negotiates the version and suite.
Respond(c, found) ==
    IF found # NoId
    THEN /\ srv' = [srv EXCEPT ![c].hs = "wait_fin", ![c].resumed = TRUE,
                               ![c].session = [id |-> cli[c].offered, sess |-> found]]
         /\ UNCHANGED <<version, issued>>
    ELSE \E s \in IDs \ issued, v \in Versions :
         /\ srv' = [srv EXCEPT ![c].hs = "wait_fin",
                               ![c].session = [id |-> s, sess |-> s]]
         /\ issued' = issued \cup {s}
         /\ version' = [version EXCEPT ![s] = v]

\* The server reads the ClientHello: an offered session ID is looked up
\* in the cache.
ServerHello(c) ==
    LET off == cli[c].offered IN
    /\ srv[c].hs = "wait_ch"
    /\ IF off # NoId
       THEN CacheLoad(off) /\ Respond(c, loaded'[2])
       ELSE UNCHANGED cacheVars /\ Respond(c, NoId)
    /\ UNCHANGED <<cli, kept, conns>>

\* The server checks the client's Finished; a full handshake is then
\* complete and its parameters are saved to the cache.
ServerFinish(c) ==
    LET s == srv[c].session IN
    /\ srv[c].hs = "wait_fin" /\ cli[c].hs = "done"
    /\ IF ~FinishedOK(cli[c].session, s)
       THEN /\ srv' = [srv EXCEPT ![c] = Failed(@, BR_ERR_BAD_FINISHED)]
            /\ UNCHANGED cacheVars
       ELSE /\ srv' = [srv EXCEPT ![c].hs = "done"]
            /\ IF srv[c].resumed THEN UNCHANGED cacheVars
               ELSE CacheSave(s.id)
    /\ UNCHANGED <<cli, version, issued, kept, conns>>

\* The transport fails during the handshake (low_read or low_write
\* reports an error, which is permanent): the server engine fails, and so
\* does the client unless it already sent its Finished.
LinkFails(c) ==
    /\ srv[c].hs \in {"wait_ch", "wait_fin"}
    /\ srv' = [srv EXCEPT ![c] = Failed(@, BR_ERR_IO)]
    /\ cli' = IF cli[c].hs = "wait_sh"
              THEN [cli EXCEPT ![c] = Failed(@, BR_ERR_IO)] ELSE cli
    /\ UNCHANGED <<cacheVars, version, issued, kept, conns>>

\* The clients stop after MaxConn connections.
Next ==
    \E c \in Clients :
        \/ \E resume \in BOOLEAN : ClientReset(c, resume)
        \/ ForgetSession(c)
        \/ ClientClose(c)
        \/ GetSessionParameters(c)
        \/ \E pp \in kept : SetSessionParameters(c, pp)
        \/ ServerHello(c)
        \/ ClientFinish(c)
        \/ ServerFinish(c)
        \/ LinkFails(c)

Spec == Init /\ [][Next]_vars

-----------------------------------------------------------------------------
(* Properties.                                                             *)

=============================================================================
