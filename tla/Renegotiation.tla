---------------------------- MODULE Renegotiation ----------------------------
(***************************************************************************)
(* Secure renegotiation (RFC 5746) between a client and a server engine:   *)
(* the `reneg` field of br_ssl_engine_context, the behavioural flags and   *)
(* their accessors, br_ssl_engine_renegotiate, and the rules of spec.md    *)
(* 4.2: a request is honoured only when reneg is "supported" and           *)
(* BR_OPT_NO_RENEGOTIATION is clear; a later handshake record arriving     *)
(* when reneg is not "supported" fails the engine with BAD_SECRENEG.       *)
(*                                                                         *)
(* The handshake processor is not in this repository.  A handshake is     *)
(* reduced to its four flights (ClientHello; ServerHello..Done; the        *)
(* client's key exchange and Finished; the server's Finished), each       *)
(* carrying whether it has the renegotiation_info extension.  Records are *)
(* in order per direction (the engine over a stream transport).  A party  *)
(* in `legacy` is a peer implementation without RFC 5746: it never sends   *)
(* the extension and renegotiates whenever it likes.                      *)
(***************************************************************************)
EXTENDS Integers, Sequences, Bitwise

CONSTANTS
    Client, Server,
    FlagWords,      \* flag words the host passes to the flag accessors
    LegacyChoices,  \* which parties may be legacy peers
    MaxReq          \* handshakes and HelloRequests initiated in all

Parties == {Client, Server}
Peer(p) == IF p = Client THEN Server ELSE Client

ASSUME /\ FlagWords \subseteq Nat
       /\ LegacyChoices \subseteq SUBSET Parties
       /\ MaxReq \in Nat

BR_OPT_ENFORCE_SERVER_PREFERENCES == 1
BR_OPT_NO_RENEGOTIATION == 2

BR_ERR_OK == 0
BR_ERR_BAD_SECRENEG == 19
BR_ERR_RECV_FATAL_ALERT == 256

\* The reneg field: first handshake, peer without, peer with RFC 5746.
RENEG_UNKNOWN == 0
RENEG_UNSUPPORTED == 1
RENEG_SUPPORTED == 2

Msg == [type : {"CH", "SF", "CF", "SFIN", "HR", "WARN", "FATAL"}, ext : BOOLEAN]
M(t, x) == [type |-> t, ext |-> x]

VARIABLES
    hs,       \* hs[p]: where p's handshake stands, "app" between handshakes
    reneg,    \* reneg[p]
    flags,    \* flags[p]: the uint32 behavioural flags
    err,      \* err[p]
    wire,     \* wire[p]: records p sent that the peer has not processed
    requests, \* handshakes and HelloRequests the parties initiated
    done,     \* done[p]: handshakes p completed
    legacy,   \* parties that are peers without RFC 5746
    attempt,  \* attempt[p]: renegotiate() returned 1, no handshake since
    refused   \* refused[p]: p sent or received a no_renegotiation warning
              \* since its last renegotiate()

vars == <<hs, reneg, flags, err, wire, requests, done, legacy, attempt, refused>>

Init ==
    /\ hs = [p \in Parties |-> IF p = Client THEN "idle" ELSE "wait_ch"]
    /\ reneg = [p \in Parties |-> RENEG_UNKNOWN]
    /\ flags = [p \in Parties |-> 0]
    /\ err = [p \in Parties |-> BR_ERR_OK]
    /\ wire = [p \in Parties |-> <<>>]
    /\ requests = 0
    /\ done = [p \in Parties |-> 0]
    /\ legacy \in LegacyChoices
    /\ attempt = [p \in Parties |-> FALSE]
    /\ refused = [p \in Parties |-> FALSE]

NoReneg(p) == (flags[p] & BR_OPT_NO_RENEGOTIATION) # 0

Send(p, m) == wire' = [wire EXCEPT ![p] = Append(@, m)]

\* The next record from the peer, and its removal once processed.
Incoming(p) == Head(wire[Peer(p)])
Consume(p) == wire' = [wire EXCEPT ![Peer(p)] = Tail(@)]
ConsumeAndSend(p, m) ==
    wire' = [wire EXCEPT ![Peer(p)] = Tail(@), ![p] = Append(@, m)]

Arrived(p, t) == hs[p] # "failed" /\ wire[Peer(p)] # <<>> /\ Incoming(p).type = t

\* A failing engine latches err and sends a fatal alert.
FailWith(p, code) ==
    /\ hs' = [hs EXCEPT ![p] = "failed"]
    /\ err' = [err EXCEPT ![p] = code]
    /\ ConsumeAndSend(p, M("FATAL", FALSE))

-----------------------------------------------------------------------------
(* The behavioural flags: br_ssl_engine_set_all_flags, _add_flags and      *)
(* _remove_flags, callable by the host at any time.                        *)

SetAllFlags(p, f) ==
    /\ flags[p] # f
    /\ flags' = [flags EXCEPT ![p] = f]
    /\ UNCHANGED <<hs, reneg, err, wire, requests, done, legacy, attempt, refused>>

AddFlags(p, f) ==
    /\ flags[p] # (flags[p] | f)
    /\ flags' = [flags EXCEPT ![p] = @ | f]
    /\ UNCHANGED <<hs, reneg, err, wire, requests, done, legacy, attempt, refused>>

\* Mutant: the bits subtracted rather than masked off.
RemoveFlagsSub(p, f) ==
    /\ (flags[p] & f) # 0
    /\ flags' = [flags EXCEPT ![p] = @ - f]
    /\ UNCHANGED <<hs, reneg, err, wire, requests, done, legacy, attempt, refused>>

\* cc->flags &= ~flags: the bits of f are cleared, x & ~f = x - (x & f).
RemoveFlags(p, f) ==
    /\ (flags[p] & f) # 0
    /\ flags' = [flags EXCEPT ![p] = @ - (@ & f)]
    /\ UNCHANGED <<hs, reneg, err, wire, requests, done, legacy, attempt, refused>>

-----------------------------------------------------------------------------
(* The first handshake.                                                    *)

\* The client's first ClientHello (br_ssl_client_reset): BearSSL always
\* sends the renegotiation_info extension.
ClientHello ==
    /\ hs[Client] = "idle" /\ requests < MaxReq
    /\ hs' = [hs EXCEPT ![Client] = "wait_sf"]
    /\ Send(Client, M("CH", Client \notin legacy))
    /\ requests' = requests + 1
    /\ UNCHANGED <<reneg, flags, err, done, legacy, attempt, refused>>

\* The server's answer to the first ClientHello: reneg records whether the
\* client supports RFC 5746, and ServerHello echoes the extension.
ServerFirstHello ==
    LET ch == Incoming(Server) IN
    /\ Arrived(Server, "CH") /\ hs[Server] = "wait_ch"
    /\ reneg' = [reneg EXCEPT ![Server] = IF ch.ext THEN RENEG_SUPPORTED
                                                   ELSE RENEG_UNSUPPORTED]
    /\ hs' = [hs EXCEPT ![Server] = "wait_cf"]
    /\ ConsumeAndSend(Server, M("SF", ch.ext /\ Server \notin legacy))
    /\ UNCHANGED <<flags, err, requests, done, legacy, attempt, refused>>

\* The client reads ServerHello..ServerHelloDone and sends its key exchange
\* and Finished.  On the first handshake reneg records whether the server
\* supports RFC 5746.
ClientRecvSF ==
    LET sf == Incoming(Client) IN
    /\ Arrived(Client, "SF") /\ hs[Client] = "wait_sf"
    /\ reneg' = IF done[Client] = 0
                THEN [reneg EXCEPT ![Client] = IF sf.ext THEN RENEG_SUPPORTED
                                                         ELSE RENEG_UNSUPPORTED]
                ELSE reneg
    /\ hs' = [hs EXCEPT ![Client] = "wait_sfin"]
    /\ ConsumeAndSend(Client, M("CF", FALSE))
    /\ UNCHANGED <<flags, err, requests, done, legacy, attempt, refused>>

\* The server checks the client's Finished and sends its own: its
\* handshake is complete.
ServerRecvCF ==
    /\ Arrived(Server, "CF") /\ hs[Server] = "wait_cf"
    /\ hs' = [hs EXCEPT ![Server] = "app"]
    /\ ConsumeAndSend(Server, M("SFIN", FALSE))
    /\ done' = [done EXCEPT ![Server] = @ + 1]
    /\ attempt' = [attempt EXCEPT ![Server] = FALSE]
    /\ UNCHANGED <<reneg, flags, err, requests, legacy, refused>>

\* The client checks the server's Finished: its handshake is complete.
ClientRecvSFIN ==
    /\ Arrived(Client, "SFIN") /\ hs[Client] = "wait_sfin"
    /\ hs' = [hs EXCEPT ![Client] = "app"]
    /\ Consume(Client)
    /\ done' = [done EXCEPT ![Client] = @ + 1]
    /\ attempt' = [attempt EXCEPT ![Client] = FALSE]
    /\ UNCHANGED <<reneg, flags, err, requests, legacy, refused>>

-----------------------------------------------------------------------------
(* Renegotiation requests.                                                  *)

\* Mutant: the reneg test dropped, only the flag consulted.
HonoursNoReneg(p) == p \in legacy \/ ~NoReneg(p)

\* Whether p honours a request of its peer: always for a legacy peer; for
\* BearSSL only if reneg is "supported" and NO_RENEGOTIATION is clear.
Honours(p) == p \in legacy \/ (reneg[p] = RENEG_SUPPORTED /\ ~NoReneg(p))

\* br_ssl_engine_renegotiate() returning 1: the engine is not failed, the
\* peer is not known to lack RFC 5746, and NO_RENEGOTIATION is clear.  A
\* client starts a handshake with a ClientHello, a server sends a
\* HelloRequest; if a handshake is under way nothing else happens.  A
\* call returning 0 changes nothing and is not a step.
Renegotiate(p) ==
    /\ p \notin legacy /\ ~attempt[p]
    /\ hs[p] \notin {"idle", "failed"}
    /\ reneg[p] # RENEG_UNSUPPORTED /\ ~NoReneg(p)
    /\ attempt' = [attempt EXCEPT ![p] = TRUE]
    /\ refused' = [refused EXCEPT ![p] = FALSE]
    /\ IF hs[p] = "app"
       THEN /\ requests < MaxReq
            /\ requests' = requests + 1
            /\ IF p = Client
               THEN hs' = [hs EXCEPT ![p] = "wait_sf"] /\ Send(p, M("CH", TRUE))
               ELSE UNCHANGED hs /\ Send(p, M("HR", FALSE))
       ELSE UNCHANGED <<hs, wire, requests>>
    /\ UNCHANGED <<reneg, flags, err, done, legacy>>

\* A legacy peer asks for a new handshake whenever it likes.
LegacyRequest(p) ==
    /\ p \in legacy /\ hs[p] = "app" /\ requests < MaxReq
    /\ requests' = requests + 1
    /\ IF p = Client
       THEN hs' = [hs EXCEPT ![p] = "wait_sf"] /\ Send(p, M("CH", FALSE))
       ELSE UNCHANGED hs /\ Send(p, M("HR", FALSE))
    /\ UNCHANGED <<reneg, flags, err, done, legacy, attempt, refused>>

\* A ClientHello after the first handshake, or a HelloRequest: from a peer
\* whose reneg is not "supported", BAD_SECRENEG (spec.md 4.2).
FailsRequest(p, t) ==
    /\ Arrived(p, t) /\ hs[p] = "app" /\ p \notin legacy
    /\ reneg[p] # RENEG_SUPPORTED
    /\ FailWith(p, BR_ERR_BAD_SECRENEG)
    /\ UNCHANGED <<reneg, flags, requests, done, legacy, attempt, refused>>

\* A request that is not honoured is refused with a no_renegotiation
\* warning alert.
RefusesRequest(p, t) ==
    /\ Arrived(p, t) /\ hs[p] = "app"
    /\ reneg[p] = RENEG_SUPPORTED /\ ~Honours(p)
    /\ ConsumeAndSend(p, M("WARN", FALSE))
    /\ refused' = [refused EXCEPT ![p] = TRUE]
    /\ UNCHANGED <<hs, reneg, flags, err, requests, done, legacy, attempt>>

\* The server honours a ClientHello: a new handshake, with the extension.
ServerHonoursCH ==
    /\ Arrived(Server, "CH") /\ hs[Server] = "app" /\ Honours(Server)
    /\ hs' = [hs EXCEPT ![Server] = "wait_cf"]
    /\ ConsumeAndSend(Server, M("SF", Server \notin legacy))
    /\ UNCHANGED <<reneg, flags, err, requests, done, legacy, attempt, refused>>

\* The client honours a HelloRequest with a ClientHello.
ClientHonoursHR ==
    /\ Arrived(Client, "HR") /\ hs[Client] = "app" /\ Honours(Client)
    /\ hs' = [hs EXCEPT ![Client] = "wait_sf"]
    /\ ConsumeAndSend(Client, M("CH", Client \notin legacy))
    /\ UNCHANGED <<reneg, flags, err, requests, done, legacy, attempt, refused>>

\* Mutant: a HelloRequest ignored only after ServerHello.
ClientIgnoresHRLate ==
    /\ Arrived(Client, "HR") /\ hs[Client] = "wait_sfin"
    /\ Consume(Client)
    /\ UNCHANGED <<hs, reneg, flags, err, requests, done, legacy, attempt, refused>>

\* A HelloRequest during a handshake is ignored: one is already under way.
\* (Records are in order, so a HelloRequest sent after the server's
\* Finished reaches the client after it; in practice it meets wait_sf.)
ClientIgnoresHR ==
    /\ Arrived(Client, "HR") /\ hs[Client] \in {"wait_sf", "wait_sfin"}
    /\ Consume(Client)
    /\ UNCHANGED <<hs, reneg, flags, err, requests, done, legacy, attempt, refused>>

\* A warning alert is not fatal and not a close_notify: the engine goes on
\* (spec.md 4.2, Alert records).  The initiator learns of the refusal.
RecvWarn(p) ==
    /\ Arrived(p, "WARN")
    /\ Consume(p)
    /\ refused' = [refused EXCEPT ![p] = TRUE]
    /\ UNCHANGED <<hs, reneg, flags, err, requests, done, legacy, attempt>>

\* A fatal alert fails the engine with RECV_FATAL_ALERT + code.
RecvFatal(p) ==
    /\ Arrived(p, "FATAL")
    /\ hs' = [hs EXCEPT ![p] = "failed"]
    /\ err' = [err EXCEPT ![p] = BR_ERR_RECV_FATAL_ALERT]
    /\ Consume(p)
    /\ UNCHANGED <<reneg, flags, requests, done, legacy, attempt, refused>>

-----------------------------------------------------------------------------

\* Processing a record the host fed to p.
Receive(p) ==
    \/ RecvWarn(p) \/ RecvFatal(p)
    \/ FailsRequest(p, IF p = Client THEN "HR" ELSE "CH")
    \/ RefusesRequest(p, IF p = Client THEN "HR" ELSE "CH")
    \/ p = Server /\ (ServerFirstHello \/ ServerRecvCF \/ ServerHonoursCH)
    \/ p = Client /\ (ClientRecvSF \/ ClientRecvSFIN \/ ClientHonoursHR \/ ClientIgnoresHR)

Next ==
    \/ ClientHello
    \/ \E p \in Parties :
         \/ Receive(p) \/ Renegotiate(p) \/ LegacyRequest(p)
         \/ \E f \in FlagWords : SetAllFlags(p, f) \/ AddFlags(p, f) \/ RemoveFlags(p, f)

Spec == Init /\ [][Next]_vars

\* The host keeps feeding received records to its engine.
FairSpec == Spec /\ \A p \in Parties : WF_vars(Receive(p))

-----------------------------------------------------------------------------
(* Properties.                                                              *)

RenegTypeOK ==
    /\ hs \in [Parties -> {"idle", "wait_sf", "wait_sfin", "wait_ch", "wait_cf",
                           "app", "failed"}]
    /\ reneg \in [Parties -> {RENEG_UNKNOWN, RENEG_UNSUPPORTED, RENEG_SUPPORTED}]
    /\ flags \in [Parties -> Nat]
    /\ err \in [Parties -> {BR_ERR_OK, BR_ERR_BAD_SECRENEG, BR_ERR_RECV_FATAL_ALERT}]
    /\ wire \in [Parties -> Seq(Msg)]
    /\ requests \in 0..MaxReq /\ done \in [Parties -> 0..MaxReq]
    /\ legacy \in LegacyChoices
    /\ attempt \in [Parties -> BOOLEAN] /\ refused \in [Parties -> BOOLEAN]

\* RFC 5746, as spec.md 4.2 states it for the engine: a BearSSL engine
\* completes a second handshake only with a peer that supports secure
\* renegotiation.  A legacy peer's request must fail the engine, whether
\* it comes as a ClientHello or as a HelloRequest, and whatever the flags.
SecureRenegotiationOnly ==
    \A p \in Parties \ legacy : done[p] >= 2 => Peer(p) \notin legacy

\* Every record the peer sent can be processed when it is next: requests
\* that cross (a HelloRequest meeting the client's own ClientHello),
\* refusals and alerts never reach an engine in a state that has no
\* handler for them, where the connection would hang.
IncomingAlwaysProcessed ==
    \A p \in Parties :
        hs[p] \notin {"idle", "failed"} /\ wire[Peer(p)] # <<>> => ENABLED Receive(p)

=============================================================================
