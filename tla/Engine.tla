------------------------------- MODULE Engine -------------------------------
(***************************************************************************)
(* The SSL engine of bearssl_ssl.h: a client engine and a server engine    *)
(* joined by a transport, each driven by its host through the four        *)
(* streams sendapp, recvapp, sendrec and recvrec, flush and close.          *)
(*                                                                         *)
(* The engine's C source is not part of this repository.  The model        *)
(* follows the contracts of bearssl_ssl.h (the context fields, the stream  *)
(* functions, current_state, last_error, the record codec classes) and     *)
(* the engine design of spec.md section 4.2.                               *)
(*                                                                         *)
(* Bytes are abstracted to chunks: a chunk of application data is a        *)
(* number, the n-th chunk its host pushed.  A record keeps its header      *)
(* (type, version), the key epoch and sequence number it was sealed with,  *)
(* its plaintext body, and whether it reached the wire unaltered.          *)
(***************************************************************************)
EXTENDS Integers, Sequences, SequencesExt, FiniteSets

CONSTANTS
    Client, Server,   \* the two engines of the connection (model values)
    MaxApp,           \* chunks of application data each host pushes
    MaxPlain,         \* chunks max_plaintext leaves room for in a record
    SeqLimit,         \* 2^w: the first sequence number that overflows
    MaxTamper,        \* records the transport may alter
    EarlyClose,       \* whether hosts may call close during the handshake
    Mono              \* engines given one shared buffer (set_buffer, bidi = 0)

ASSUME /\ Client # Server
       /\ MaxApp \in Nat /\ MaxPlain \in Nat \ {0}
       /\ SeqLimit \in Nat \ {0} /\ MaxTamper \in Nat
       /\ EarlyClose \in BOOLEAN /\ Mono \subseteq {Client, Server}

Parties == {Client, Server}
Peer(p) == IF p = Client THEN Server ELSE Client

\* Error codes (bearssl_ssl.h, BR_ERR_*).
BR_ERR_OK == 0
BR_ERR_BAD_VERSION == 4
BR_ERR_TOO_LARGE == 6
BR_ERR_BAD_MAC == 7
BR_ERR_UNKNOWN_TYPE == 9
BR_ERR_UNEXPECTED == 10
BR_ERR_BAD_CCS == 12
BR_ERR_BAD_ALERT == 13
BR_ERR_BAD_HANDSHAKE == 14
BR_ERR_IO == 31
BR_ERR_RECV_FATAL_ALERT == 256

\* Record types, versions and the handshake messages of a full handshake.
CCS == 20
ALERT == 21
HANDSHAKE == 22
APPDATA == 23
TLS10 == 769   \* 0x0301
TLS12 == 771   \* 0x0303
HS_CH == 1     \* ClientHello
HS_SH == 2     \* ServerHello .. ServerHelloDone
HS_CKE == 16   \* ClientKeyExchange
HS_FIN == 20   \* Finished
SUITE_CBC == 1
SUITE_GCM == 2
\* What the server's policy may choose: GCM suites need TLS 1.2.
Negotiable == {<<TLS10, SUITE_CBC>>, <<TLS12, SUITE_CBC>>, <<TLS12, SUITE_GCM>>}
\* The plaintext a decryption with the wrong keys, or of altered bytes,
\* yields when nothing checks it (the clear codec).
Garbage == <<-1>>

Chunk == 1..MaxApp
Epoch == 0..1
Codec == [kind : {"clear", "cbc", "gcm"}, epoch : Epoch,
          seq : 0..SeqLimit, explicit_IV : BOOLEAN]
NoCodec == [kind |-> "none", epoch |-> 0, seq |-> 0, explicit_IV |-> FALSE]
Body == Seq(Chunk \cup {-1, 0, 1, 2, HS_CH, HS_SH, HS_CKE, HS_FIN, TLS10, TLS12})
Record == [type : {CCS, ALERT, HANDSHAKE, APPDATA, 24}, version : {TLS10, TLS12},
           epoch : Epoch, seq : 0..SeqLimit, body : Body, intact : BOOLEAN]

-----------------------------------------------------------------------------
(* Record codecs (br_sslrec_out_class, br_sslrec_in_class and the clear,   *)
(* CBC and GCM contexts).                                                  *)

ClearCodec == [kind |-> "clear", epoch |-> 0, seq |-> 0, explicit_IV |-> FALSE]

\* The codec the handshake installs from the negotiated session: a CBC
\* context has a per-record IV from TLS 1.1 on (the IV argument is NULL).
NewCodec(session) ==
    [kind |-> IF session[2] = SUITE_GCM THEN "gcm" ELSE "cbc",
     epoch |-> 1, seq |-> 0, explicit_IV |-> session[1] # TLS10]

\* Mutant: the two records of a split in the wrong order.
SplitPartsSwapped(c, type, body) ==
    IF c.kind = "cbc" /\ ~c.explicit_IV /\ type = APPDATA /\ Len(body) >= 2
    THEN << Tail(body), <<Head(body)>> >>
    ELSE << body >>

\* The 1/n-1 split of a CBC codec without explicit IV: the first plaintext
\* byte of application data goes in a record of its own.
SplitParts(c, type, body) ==
    IF c.kind = "cbc" /\ ~c.explicit_IV /\ type = APPDATA /\ Len(body) >= 2
    THEN << <<Head(body)>>, Tail(body) >>
    ELSE << body >>

\* Sequence numbers an encrypt call consumes; the clear codec keeps none.
SeqUsed(c, type, body) ==
    IF c.kind = "clear" THEN 0 ELSE Len(SplitParts(c, type, body))

\* encrypt: the records built, each under the codec's epoch and the next
\* sequence number.
Encrypt(c, type, version, body) ==
    LET parts == SplitParts(c, type, body)
    IN [i \in 1..Len(parts) |->
          [type |-> type, version |-> version, epoch |-> c.epoch,
           seq |-> IF c.kind = "clear" THEN 0 ELSE c.seq + i - 1,
           body |-> parts[i], intact |-> TRUE]]

\* Mutant: the MAC is not verified.
DecryptsNoMac(c, r) ==
    c.kind = "clear" \/ (r.epoch = c.epoch /\ r.seq = c.seq)

\* decrypt: a CBC or GCM codec checks the MAC over sequence number, type,
\* version and body with its keys; the clear codec passes bytes through.
Decrypts(c, r) ==
    c.kind = "clear" \/ (r.intact /\ r.epoch = c.epoch /\ r.seq = c.seq)

Plaintext(c, r) ==
    IF r.intact /\ r.epoch = c.epoch THEN r.body ELSE Garbage

-----------------------------------------------------------------------------
(* The engine context (br_ssl_engine_context), one per party.              *)
(*   err              the sticky error code                                *)
(*   ophase, oplain,  the output buffer: "app" while it accumulates        *)
(*   orecs, opart     plaintext (oplain), "rec" while it holds the sealed  *)
(*                    record(s) orecs being drained; opart once part of    *)
(*                    the first record was taken                           *)
(*   iphase, ircv,    the input buffer: "hdr" while a header is expected,  *)
(*   iapp             "body" once the header of ircv was read, "app"       *)
(*                    while decrypted application data iapp awaits the     *)
(*                    host                                                 *)
(*   version_in/out, incodec/outcodec (the in and out unions), pend_in/out *)
(*   (the codecs the handshake installed for the next ChangeCipherSpec),   *)
(*   application_data, shutdown_recv, closing (a close_notify is to be     *)
(*   sent), close_sent, hs and hsout (the handshake processor: its state   *)
(*   and the messages it wrote to hbuf_out), session (version, suite),     *)
(*   mono (the buffer was set with bidi = 0).                              *)
VARIABLES
    eng,        \* [Parties -> engine context]
    wire,       \* wire[p]: records p sent that its peer has not read yet
    sent,       \* history: every record p put on the wire, in order
    delivered,  \* history: the chunks p's host read through recvapp
    pushed,     \* the chunks p's host wrote through sendapp
    tampered    \* records the transport altered so far

vars == <<eng, wire, sent, delivered, pushed, tampered>>

HsMsg(type, body) == [type |-> type, body |-> body]

\* br_ssl_client_reset / br_ssl_server_reset: a fresh context whose
\* handshake processor has run until it needs I/O; the client has written
\* its ClientHello.
InitEngine(p) ==
    [err |-> BR_ERR_OK,
     ophase |-> "app", oplain |-> <<>>, orecs |-> <<>>, opart |-> FALSE,
     iphase |-> "hdr", ircv |-> <<>>, iapp |-> <<>>,
     version_in |-> 0, version_out |-> TLS10,
     incodec |-> ClearCodec, outcodec |-> ClearCodec,
     pend_in |-> NoCodec, pend_out |-> NoCodec,
     application_data |-> FALSE, shutdown_recv |-> FALSE,
     closing |-> FALSE, close_sent |-> FALSE,
     hs |-> IF p = Client THEN "wait_sh" ELSE "wait_ch",
     hsout |-> IF p = Client THEN <<HsMsg(HANDSHAKE, <<HS_CH>>)>> ELSE <<>>,
     session |-> <<0, 0>>, mono |-> p \in Mono]

\* br_ssl_engine_set_buffer with bidi = 0: input and output share one
\* buffer, so the engine sends nothing while incoming data is unprocessed
\* and receives nothing while outgoing data is unsent.
OutputBusy(e) == e.ophase = "rec" \/ e.oplain # <<>>
InputBusy(e) == e.iphase # "hdr"
CanReceive(e) == ~(e.mono /\ OutputBusy(e))

\* Mutant: the half-duplex engine writes into the buffer regardless.
CanSendBidi(e) == TRUE

CanSend(e) == ~(e.mono /\ InputBusy(e))

\* The first error is kept: only a reset clears err.
Fail(e, code) ==
    [e EXCEPT !.err = IF e.err = BR_ERR_OK THEN code ELSE e.err]

\* Mutant: no overflow check; the counter leaves its range.
SealUnchecked(e, type, body) ==
    LET c == e.outcodec
        n == SeqUsed(c, type, body)
    IN [e EXCEPT !.orecs = Encrypt(c, type, e.version_out, body),
                 !.oplain = <<>>, !.ophase = "rec", !.opart = FALSE,
                 !.outcodec.seq = c.seq + n]

\* Mutant: no overflow check; the counter wraps.
SealWrap(e, type, body) ==
    LET c == e.outcodec
        n == SeqUsed(c, type, body)
    IN [e EXCEPT !.orecs = Encrypt([c EXCEPT !.seq = @ % SeqLimit], type,
                                   e.version_out, body),
                 !.oplain = <<>>, !.ophase = "rec", !.opart = FALSE,
                 !.outcodec.seq = (c.seq + n) % SeqLimit]

\* Seal a record: encrypt under the out codec into the output buffer.  The
\* sequence number may not wrap: an encrypt that would take the counter to
\* 2^w fails with TOO_LARGE.
Seal(e, type, body) ==
    LET c == e.outcodec
        n == SeqUsed(c, type, body)
    IN IF c.seq + n >= SeqLimit
       THEN Fail(e, BR_ERR_TOO_LARGE)
       ELSE [e EXCEPT !.orecs = Encrypt(c, type, e.version_out, body),
                      !.oplain = <<>>, !.ophase = "rec", !.opart = FALSE,
                      !.outcodec.seq = (c.seq + n) % SeqLimit]

\* Mutant: the out codec is swapped before the ChangeCipherSpec is sealed.
PumpSwapFirst(e) ==
    IF e.err # BR_ERR_OK \/ e.ophase # "app" \/ e.oplain # <<>> \/ ~CanSend(e)
    THEN e
    ELSE IF e.hsout # <<>>
         THEN LET m == Head(e.hsout)
                  e1 == [e EXCEPT !.hsout = Tail(@)]
                  e2 == IF m.type = CCS
                        THEN [e1 EXCEPT !.outcodec = e.pend_out, !.pend_out = NoCodec]
                        ELSE e1
              IN Seal(e2, m.type, m.body)
    ELSE IF e.closing
         THEN [Seal(e, ALERT, <<1, 0>>) EXCEPT !.closing = FALSE,
                                              !.close_sent = TRUE]
    ELSE e

\* What the engine does with a free output buffer at the end of every call:
\* the next handshake message is sealed (the out codec is swapped right
\* after a ChangeCipherSpec is sealed), else a pending close_notify.  A
\* half-duplex engine waits until its input is processed.
Pump(e) ==
    IF e.err # BR_ERR_OK \/ e.ophase # "app" \/ e.oplain # <<>> \/ ~CanSend(e)
    THEN e
    ELSE IF e.hsout # <<>>
         THEN LET m == Head(e.hsout)
                  s == Seal([e EXCEPT !.hsout = Tail(@)], m.type, m.body)
              IN IF m.type = CCS /\ s.err = BR_ERR_OK
                 THEN [s EXCEPT !.outcodec = e.pend_out, !.pend_out = NoCodec]
                 ELSE s
    ELSE IF e.closing
         THEN [Seal(e, ALERT, <<1, 0>>) EXCEPT !.closing = FALSE,
                                              !.close_sent = TRUE]
    ELSE e

\* Mutant: close drops the buffered plaintext.
InitiateCloseDrop(e) ==
    [e EXCEPT !.oplain = <<>>, !.closing = ~e.close_sent]

\* The engine's own close: buffered plaintext is sealed first, then a
\* close_notify is due.
InitiateClose(e) ==
    LET f == IF e.oplain # <<>> THEN Seal(e, APPDATA, e.oplain) ELSE e
    IN [f EXCEPT !.closing = ~f.close_sent]

Init ==
    /\ eng = [p \in Parties |-> Pump(InitEngine(p))]
    /\ wire = [p \in Parties |-> <<>>]
    /\ sent = [p \in Parties |-> <<>>]
    /\ delivered = [p \in Parties |-> <<>>]
    /\ pushed = [p \in Parties |-> 0]
    /\ tampered = 0

-----------------------------------------------------------------------------
(* Incoming records (recvrec): header checks, decryption, dispatch.        *)

\* The 5-byte header: the type must be known; the version is adopted by
\* the first record and must match version_in afterwards.
ReadHeader(e, r) ==
    IF r.type \notin {CCS, ALERT, HANDSHAKE, APPDATA}
    THEN Fail(e, BR_ERR_UNKNOWN_TYPE)
    ELSE IF e.version_in # 0 /\ r.version # e.version_in
    THEN Fail(e, BR_ERR_BAD_VERSION)
    ELSE [e EXCEPT !.version_in = r.version, !.iphase = "body", !.ircv = <<r>>]

\* ChangeCipherSpec: one byte of value 1; the pending in codec becomes the
\* active one, with its sequence number at 0.
ChangeCipher(e, body) ==
    IF body # <<1>> THEN Fail(e, BR_ERR_BAD_CCS)
    ELSE IF e.pend_in = NoCodec THEN Fail(e, BR_ERR_UNEXPECTED)
    ELSE [e EXCEPT !.incodec = e.pend_in, !.pend_in = NoCodec]

\* Mutant: close_notify latches shutdown_recv but is not answered.
AlertNoReply(e, body) ==
    IF body = <<>> \/ Len(body) % 2 = 1 THEN Fail(e, BR_ERR_BAD_ALERT)
    ELSE IF body[2] = 0 THEN [e EXCEPT !.shutdown_recv = TRUE]
    ELSE IF body[1] = 2 THEN Fail(e, BR_ERR_RECV_FATAL_ALERT + body[2])
    ELSE e

\* Alert: (level, code) pairs.  close_notify latches shutdown_recv and
\* starts the engine's own close; another fatal alert fails the engine.
Alert(e, body) ==
    IF body = <<>> \/ Len(body) % 2 = 1 THEN Fail(e, BR_ERR_BAD_ALERT)
    ELSE IF body[2] = 0
    THEN [InitiateClose(e) EXCEPT !.shutdown_recv = TRUE]
    ELSE IF body[1] = 2 THEN Fail(e, BR_ERR_RECV_FATAL_ALERT + body[2])
    ELSE e

\* Mutant: the server allows application data once it has the keys.
HandshakeEarlyAppData(e, body, choice) ==
    CASE e.hs = "wait_ch" /\ body = <<HS_CH>> ->
           [e EXCEPT !.version_in = choice[1], !.version_out = choice[1],
                     !.session = choice, !.hs = "wait_cke",
                     !.hsout = <<HsMsg(HANDSHAKE, <<HS_SH>> \o choice)>>]
      [] e.hs = "wait_sh" /\ Len(body) = 3 /\ body[1] = HS_SH
                          /\ <<body[2], body[3]>> \in Negotiable ->
           LET sess == <<body[2], body[3]>>
           IN [e EXCEPT !.version_out = sess[1], !.session = sess,
                        !.pend_in = NewCodec(sess), !.pend_out = NewCodec(sess),
                        !.hs = "wait_sfin",
                        !.hsout = <<HsMsg(HANDSHAKE, <<HS_CKE>>),
                                    HsMsg(CCS, <<1>>),
                                    HsMsg(HANDSHAKE, <<HS_FIN>>)>>]
      [] e.hs = "wait_cke" /\ body = <<HS_CKE>> ->
           [e EXCEPT !.pend_in = NewCodec(e.session), !.application_data = TRUE,
                     !.pend_out = NewCodec(e.session), !.hs = "wait_cfin"]
      [] e.hs = "wait_cfin" /\ body = <<HS_FIN>> /\ e.incodec.kind # "clear" ->
           [e EXCEPT !.hs = "done", !.application_data = TRUE,
                     !.hsout = <<HsMsg(CCS, <<1>>), HsMsg(HANDSHAKE, <<HS_FIN>>)>>]
      [] e.hs = "wait_sfin" /\ body = <<HS_FIN>> /\ e.incodec.kind # "clear" ->
           [e EXCEPT !.hs = "done", !.application_data = TRUE]
      [] body \in {<<HS_CH>>, <<HS_CKE>>, <<HS_FIN>>}
           \/ (Len(body) = 3 /\ body[1] = HS_SH) -> Fail(e, BR_ERR_UNEXPECTED)
      [] OTHER -> Fail(e, BR_ERR_BAD_HANDSHAKE)

\* The handshake processor, given one message, in a full handshake: the
\* server picks the version and suite (choice) on ClientHello and adjusts
\* version_in; each side installs the pending codecs once the keys are
\* known (client: ServerHello; server: ClientKeyExchange); a Finished is
\* accepted only under the new in codec, and completes the handshake.
Handshake(e, body, choice) ==
    CASE e.hs = "wait_ch" /\ body = <<HS_CH>> ->
           [e EXCEPT !.version_in = choice[1], !.version_out = choice[1],
                     !.session = choice, !.hs = "wait_cke",
                     !.hsout = <<HsMsg(HANDSHAKE, <<HS_SH>> \o choice)>>]
      [] e.hs = "wait_sh" /\ Len(body) = 3 /\ body[1] = HS_SH
                          /\ <<body[2], body[3]>> \in Negotiable ->
           LET sess == <<body[2], body[3]>>
           IN [e EXCEPT !.version_out = sess[1], !.session = sess,
                        !.pend_in = NewCodec(sess), !.pend_out = NewCodec(sess),
                        !.hs = "wait_sfin",
                        !.hsout = <<HsMsg(HANDSHAKE, <<HS_CKE>>),
                                    HsMsg(CCS, <<1>>),
                                    HsMsg(HANDSHAKE, <<HS_FIN>>)>>]
      [] e.hs = "wait_cke" /\ body = <<HS_CKE>> ->
           [e EXCEPT !.pend_in = NewCodec(e.session),
                     !.pend_out = NewCodec(e.session), !.hs = "wait_cfin"]
      [] e.hs = "wait_cfin" /\ body = <<HS_FIN>> /\ e.incodec.kind # "clear" ->
           [e EXCEPT !.hs = "done", !.application_data = TRUE,
                     !.hsout = <<HsMsg(CCS, <<1>>), HsMsg(HANDSHAKE, <<HS_FIN>>)>>]
      [] e.hs = "wait_sfin" /\ body = <<HS_FIN>> /\ e.incodec.kind # "clear" ->
           [e EXCEPT !.hs = "done", !.application_data = TRUE]
      [] body \in {<<HS_CH>>, <<HS_CKE>>, <<HS_FIN>>}
           \/ (Len(body) = 3 /\ body[1] = HS_SH) -> Fail(e, BR_ERR_UNEXPECTED)
      [] OTHER -> Fail(e, BR_ERR_BAD_HANDSHAKE)

\* Application data is exposed through recvapp once application_data is set.
AppData(e, body) ==
    IF ~e.application_data THEN Fail(e, BR_ERR_UNEXPECTED)
    ELSE IF body = <<>> THEN e
    ELSE [e EXCEPT !.iapp = body, !.iphase = "app"]

\* The body of the record whose header was read: decrypt, then dispatch on
\* the record type.
ReadBody(e, choice) ==
    LET r == Head(e.ircv)
        c == e.incodec
        d == [e EXCEPT !.iphase = "hdr", !.ircv = <<>>,
                       !.incodec.seq = IF c.kind = "clear" THEN 0
                                       ELSE (c.seq + 1) % SeqLimit]
        body == Plaintext(c, r)
    IN IF ~Decrypts(c, r) THEN Fail(e, BR_ERR_BAD_MAC)
       ELSE CASE r.type = CCS -> ChangeCipher(d, body)
              [] r.type = ALERT -> Alert(d, body)
              [] r.type = HANDSHAKE -> Handshake(d, body, choice)
              [] r.type = APPDATA -> AppData(d, body)

-----------------------------------------------------------------------------
(* br_ssl_engine_current_state: the flags, resolved in the order of        *)
(* spec.md 4.2.  An engine is closed once it failed, or once its own       *)
(* close_notify left the buffer and the peer's was received.               *)

Closed(e) ==
    e.err # BR_ERR_OK \/ (e.close_sent /\ e.ophase = "app" /\ e.shutdown_recv)
SendrecReady(e) == ~Closed(e) /\ e.ophase = "rec"
RecvappReady(e) == ~Closed(e) /\ e.iphase = "app"
RecvrecReady(e) ==
    ~Closed(e) /\ e.iphase # "app" /\ ~e.shutdown_recv /\ CanReceive(e)
SendappOpen(e) ==
    /\ ~Closed(e) /\ e.ophase = "app" /\ e.application_data
    /\ ~e.closing /\ ~e.close_sent /\ CanSend(e)
SendappReady(e) == SendappOpen(e) /\ Len(e.oplain) < MaxPlain

CurrentState(e) ==
    IF Closed(e) THEN {"CLOSED"}
    ELSE {f \in {"SENDREC", "RECVREC", "SENDAPP", "RECVAPP"} :
            \/ f = "SENDREC" /\ SendrecReady(e)
            \/ f = "RECVREC" /\ RecvrecReady(e)
            \/ f = "SENDAPP" /\ SendappReady(e)
            \/ f = "RECVAPP" /\ RecvappReady(e)}

-----------------------------------------------------------------------------
(* The host's calls.  Every call ends with Pump.                            *)

\* sendapp_ack(1): one chunk of plaintext; a full buffer is sealed.
SendappAck(p) ==
    LET e == eng[p]
        e2 == [e EXCEPT !.oplain = Append(@, pushed[p] + 1)]
    IN /\ SendappReady(e)
       /\ pushed[p] < MaxApp
       /\ eng' = [eng EXCEPT ![p] = Pump(IF Len(e2.oplain) = MaxPlain
                                         THEN Seal(e2, APPDATA, e2.oplain)
                                         ELSE e2)]
       /\ pushed' = [pushed EXCEPT ![p] = @ + 1]
       /\ UNCHANGED <<wire, sent, delivered, tampered>>

\* Mutant: flush does not check that the engine is open.
FlushUnguarded(p, force) ==
    LET e == eng[p]
    IN /\ e.ophase = "app"
       /\ e.oplain # <<>> \/ (force /\ SendappOpen(e))
       /\ eng' = [eng EXCEPT ![p] = Pump(Seal(e, APPDATA, e.oplain))]
       /\ UNCHANGED <<wire, sent, delivered, pushed, tampered>>

\* flush(force): seal the buffered plaintext, or an empty record if forced.
Flush(p, force) ==
    LET e == eng[p]
    IN /\ ~Closed(e) /\ e.ophase = "app"
       /\ e.oplain # <<>> \/ (force /\ SendappOpen(e))
       /\ eng' = [eng EXCEPT ![p] = Pump(Seal(e, APPDATA, e.oplain))]
       /\ UNCHANGED <<wire, sent, delivered, pushed, tampered>>

\* sendrec_ack: the host took part of the first record, or the rest of it,
\* which is then on the wire.
SendrecAck(p, all) ==
    LET e == eng[p]
        r == Head(e.orecs)
        rest == Tail(e.orecs)
    IN /\ SendrecReady(e)
       /\ IF all
          THEN /\ eng' = [eng EXCEPT ![p] =
                   Pump([e EXCEPT !.orecs = rest, !.opart = FALSE,
                                  !.ophase = IF rest = <<>> THEN "app" ELSE "rec"])]
               /\ wire' = [wire EXCEPT ![p] = Append(@, r)]
               /\ sent' = [sent EXCEPT ![p] = Append(@, r)]
          ELSE /\ ~e.opart
               /\ eng' = [eng EXCEPT ![p].opart = TRUE]
               /\ UNCHANGED <<wire, sent>>
       /\ UNCHANGED <<delivered, pushed, tampered>>

\* recvrec_ack with the header bytes of the next record only.
RecvrecHeader(p) ==
    LET e == eng[p]
        q == Peer(p)
    IN /\ RecvrecReady(e) /\ e.iphase = "hdr"
       /\ wire[q] # <<>>
       /\ eng' = [eng EXCEPT ![p] = Pump(ReadHeader(e, Head(wire[q])))]
       /\ wire' = [wire EXCEPT ![q] = Tail(@)]
       /\ UNCHANGED <<sent, delivered, pushed, tampered>>

\* recvrec_ack completing the record whose header was read.
RecvrecBody(p, choice) ==
    LET e == eng[p]
    IN /\ RecvrecReady(e) /\ e.iphase = "body"
       /\ eng' = [eng EXCEPT ![p] = Pump(ReadBody(e, choice))]
       /\ UNCHANGED <<wire, sent, delivered, pushed, tampered>>

\* Mutant: the acknowledged chunk stays in the buffer (off by one).
RecvappAckKeep(p, all) ==
    LET e == eng[p]
        n == IF all THEN Len(e.iapp) ELSE 1
        rest == SubSeq(e.iapp, n, Len(e.iapp))
    IN /\ RecvappReady(e)
       /\ all \/ Len(e.iapp) >= 2
       /\ eng' = [eng EXCEPT ![p] =
                   Pump([e EXCEPT !.iapp = rest,
                                  !.iphase = IF rest = <<>> THEN "hdr" ELSE "app"])]
       /\ delivered' = [delivered EXCEPT ![p] = @ \o SubSeq(e.iapp, 1, n)]
       /\ UNCHANGED <<wire, sent, pushed, tampered>>

\* recvapp_ack: the host read one chunk, or all that is there.
RecvappAck(p, all) ==
    LET e == eng[p]
        n == IF all THEN Len(e.iapp) ELSE 1
        rest == SubSeq(e.iapp, n + 1, Len(e.iapp))
    IN /\ RecvappReady(e)
       /\ all \/ Len(e.iapp) >= 2
       /\ eng' = [eng EXCEPT ![p] =
                   Pump([e EXCEPT !.iapp = rest,
                                  !.iphase = IF rest = <<>> THEN "hdr" ELSE "app"])]
       /\ delivered' = [delivered EXCEPT ![p] = @ \o SubSeq(e.iapp, 1, n)]
       /\ UNCHANGED <<wire, sent, pushed, tampered>>

\* close: if the engine is open and no closure is under way.  Unless
\* EarlyClose, the host closes only after the handshake.
Close(p) ==
    LET e == eng[p]
    IN /\ ~Closed(e) /\ ~e.closing /\ ~e.close_sent
       /\ EarlyClose \/ e.application_data
       /\ eng' = [eng EXCEPT ![p] = Pump(InitiateClose(e))]
       /\ UNCHANGED <<wire, sent, delivered, pushed, tampered>>

-----------------------------------------------------------------------------
(* The transport and the hosts' I/O wrappers.                               *)

\* The transport alters the next record from q: its version, its type, or
\* its bytes; any change breaks the MAC.
Tamper(q, how) ==
    LET r == Head(wire[q])
        r2 == CASE how = "version" ->
                     [r EXCEPT !.version = IF @ = TLS10 THEN TLS12 ELSE TLS10]
                [] how = "type" -> [r EXCEPT !.type = 24]
                [] how = "bytes" -> r
    IN /\ tampered < MaxTamper
       /\ wire[q] # <<>>
       /\ wire' = [wire EXCEPT ![q] = <<[r2 EXCEPT !.intact = FALSE]>> \o Tail(@)]
       /\ tampered' = tampered + 1
       /\ UNCHANGED <<eng, sent, delivered, pushed>>

\* br_sslio: the peer's engine failed and its host closed the transport;
\* once the last record is read, low_read reports end of stream and the
\* wrapper fails the engine with BR_ERR_IO.
TransportClosed(p) ==
    /\ eng[Peer(p)].err # BR_ERR_OK
    /\ wire[Peer(p)] = <<>>
    /\ ~Closed(eng[p])
    /\ eng' = [eng EXCEPT ![p] = Fail(@, BR_ERR_IO)]
    /\ UNCHANGED <<wire, sent, delivered, pushed, tampered>>

\* Mutant: the wrapper never flushes a half-duplex engine.
HostIONoFlush(p) ==
    \/ SendrecAck(p, TRUE)
    \/ RecvrecHeader(p)
    \/ \E ch \in Negotiable : RecvrecBody(p, ch)
    \/ RecvappAck(p, TRUE)
    \/ TransportClosed(p)

\* What the host's I/O loop keeps doing while the engine needs it
\* (br_sslio_flush, br_sslio_read, br_sslio_close).  br_sslio_read returns
\* only once it has a byte: in a half-duplex engine, plaintext waiting for
\* more keeps records out, so the wrapper flushes it.
HostIO(p) ==
    \/ SendrecAck(p, TRUE)
    \/ RecvrecHeader(p)
    \/ \E ch \in Negotiable : RecvrecBody(p, ch)
    \/ RecvappAck(p, TRUE)
    \/ TransportClosed(p)
    \/ eng[p].mono /\ Flush(p, FALSE)

\* The system stops once both engines are closed.
\* No step is enabled once both engines are closed: the hosts stop there.
Next ==
    \E p \in Parties :
         \/ SendappAck(p)
         \/ \E force \in BOOLEAN : Flush(p, force)
         \/ \E all \in BOOLEAN : SendrecAck(p, all)
         \/ RecvrecHeader(p)
         \/ \E ch \in Negotiable : RecvrecBody(p, ch)
         \/ \E all \in BOOLEAN : RecvappAck(p, all)
         \/ Close(p)
         \/ \E how \in {"version", "type", "bytes"} : Tamper(p, how)
         \/ TransportClosed(p)

Spec == Init /\ [][Next]_vars

\* The hosts keep servicing the engines' buffers.
FairSpec == Spec /\ \A p \in Parties : WF_vars(HostIO(p))

-----------------------------------------------------------------------------
(* Properties.                                                              *)

TypeOK ==
    /\ tampered \in 0..MaxTamper
    /\ pushed \in [Parties -> 0..MaxApp]
    /\ delivered \in [Parties -> Seq(Chunk)]
    /\ wire \in [Parties -> Seq(Record)]
    /\ sent \in [Parties -> Seq(Record)]
    /\ \A p \in Parties :
         LET e == eng[p] IN
         /\ e.ophase \in {"app", "rec"} /\ e.iphase \in {"hdr", "body", "app"}
         /\ e.oplain \in Seq(Chunk) /\ Len(e.oplain) <= MaxPlain
         /\ e.orecs \in Seq(Record) /\ e.iapp \in Seq(Chunk)
         /\ e.ircv \in Seq(Record) /\ Len(e.ircv) <= 1
         /\ e.incodec \in Codec /\ e.outcodec \in Codec
         /\ e.pend_in \in Codec \cup {NoCodec} /\ e.pend_out \in Codec \cup {NoCodec}
         /\ e.version_in \in {0, TLS10, TLS12} /\ e.version_out \in {TLS10, TLS12}
         /\ e.mono \in BOOLEAN


\* Without an altered record, neither engine fails on what its peer sent:
\* the records each side seals (versions, epochs, sequence numbers, the
\* swap at ChangeCipherSpec) are what the other side's header checks,
\* codec and handshake processor accept.  The only errors are a sequence
\* number running out (TOO_LARGE) and the end of stream that follows it.
HonestPeersNeverFail ==
    tampered = 0 =>
        \A p \in Parties :
            eng[p].err \in {BR_ERR_OK, BR_ERR_TOO_LARGE, BR_ERR_IO}

\* No two records an engine sends under the same keys carry the same
\* sequence number: for GCM it is the explicit nonce, for CBC the MAC
\* input.  Sealing and the 1/n-1 split both consume sequence numbers.
NonceUnique ==
    \A p \in Parties : \A i, j \in 1..Len(sent[p]) :
        /\ i < j
        /\ sent[p][i].epoch > 0
        /\ sent[p][i].epoch = sent[p][j].epoch
        => sent[p][i].seq # sent[p][j].seq

\* Application data never leaves an engine under the clear codec: it is
\* accepted only once application_data is set, after the out codec swap.
NoCleartextAppData ==
    \A p \in Parties : \A i \in 1..Len(sent[p]) :
        sent[p][i].type = APPDATA => sent[p][i].epoch > 0

\* The host reads the chunks its peer's host wrote, in order, each once,
\* through buffering, flush, the 1/n-1 split and partial reads.
DeliveredInOrder ==
    \A p \in Parties :
        /\ delivered[p] = [i \in 1..Len(delivered[p]) |-> i]
        /\ Len(delivered[p]) <= pushed[Peer(p)]

\* A clean closure loses nothing: an engine closed with err = 0 has
\* handed its host every chunk the peer's host wrote.
CleanCloseDeliversAll ==
    \A p \in Parties :
        Closed(eng[p]) /\ eng[p].err = BR_ERR_OK
            => Len(delivered[p]) = pushed[Peer(p)]

\* A half-duplex engine never has unsent output and unprocessed input in
\* its one buffer at once: no handshake message, close_notify or data is
\* sealed over a record being received or data the host has not read,
\* and no record is accepted over records still to be sent.
SharedBufferExclusive ==
    \A p \in Parties : eng[p].mono => ~(OutputBusy(eng[p]) /\ InputBusy(eng[p]))

\* Errors are sticky: once err is set, no call changes the engine any
\* more (last_error keeps the first error, every stream stays shut).
StickyError ==
    [][\A p \in Parties : eng[p].err # BR_ERR_OK => eng'[p] = eng[p]]_vars

\* The refinement mapping onto SecureChannel: an engine is failed once err
\* is set, closed once Closed holds, open once application_data is set;
\* it has shut down once a close_notify is due or sent.
StatusOf(e) ==
    IF e.err # BR_ERR_OK THEN "failed"
    ELSE IF Closed(e) THEN "closed"
    ELSE IF e.application_data THEN "open" ELSE "handshake"

Channel == INSTANCE SecureChannel
    WITH status <- [p \in Parties |-> StatusOf(eng[p])],
         written <- pushed, received <- delivered,
         shut <- [p \in Parties |-> eng[p].closing \/ eng[p].close_sent]

\* The engines, driven by their hosts over an honest transport, implement
\* the secure channel: every step of theirs is a step of SecureChannel or
\* leaves its state alone.  This relates each call to the states before
\* and after it: data is read in order and only once written, a side
\* that shut down writes nothing more, closed and failed are final, and
\* a clean close comes only after both close_notify and all the data.
ImplementsSecureChannel == Channel!Spec

\* Once an engine starts its closure, both engines end closed, when the
\* hosts keep servicing their buffers.
ClosureCompletes ==
    \A p \in Parties : eng[p].closing ~> (\A q \in Parties : Closed(eng[q]))

=============================================================================
