-------------------------------- MODULE SslIO --------------------------------
(***************************************************************************)
(* The simplified blocking I/O wrapper of bearssl_ssl.h, the br_sslio   *)
(* calls, one per engine, run by an application that makes a fixed       *)
(* sequence of calls.  A call loops over the engine: it hands records to *)
(* low_write, feeds what low_read returns, and moves application data,   *)
(* until the contract of the call says it returns.  The transport may    *)
(* break: from then on low_read and low_write return -1, and the wrapper *)
(* sets the engine error to BR_ERR_IO ("Errors are permanent").         *)
(***************************************************************************)
EXTENDS Engine

CONSTANTS
    Script,        \* [Parties -> Seq([op : Ops, len : Nat])]: the application
    LinkMayFail    \* whether the transport may break during the run

Ops == {"write", "write_all", "read", "read_all", "flush", "close"}

ASSUME /\ \A p \in Parties : \A i \in 1..Len(Script[p]) :
              Script[p][i].op \in Ops /\ Script[p][i].len \in Nat
       /\ LinkMayFail \in BOOLEAN

VARIABLES
    io,     \* io[p]: the application's position in Script[p] (pc), the
            \* chunks the current call moved (got), whether flush or close
            \* made its engine call (started), the values returned so
            \* far (rets), and pushed[p] when the last flush returned 0
    link    \* "up" or "down"

allVars == <<vars, io, link>>

SInit ==
    /\ Init
    /\ io = [p \in Parties |-> [pc |-> 1, got |-> 0, started |-> FALSE,
                                rets |-> <<>>, flushed |-> 0]]
    /\ link = "up"

Active(p) == io[p].pc <= Len(Script[p])
Call(p) == Script[p][io[p].pc]

-----------------------------------------------------------------------------
(* The loop of a call (br_sslio_init's callbacks and the engine's four     *)
(* streams).                                                               *)

\* Mutant: close leaves incoming application data in the buffer.
ServiceNoDiscard(p) ==
    /\ Active(p)
    /\ \/ link = "up" /\ \E all \in BOOLEAN : SendrecAck(p, all)
       \/ link = "up" /\ RecvrecHeader(p)
       \/ \E ch \in Negotiable : RecvrecBody(p, ch)
       \/ eng[p].mono /\ Flush(p, FALSE)
       \/ TransportClosed(p)
    /\ UNCHANGED <<io, link>>

\* Mutant: a half-duplex engine's buffered plaintext is never flushed.
ServiceNoFlush(p) ==
    /\ Active(p)
    /\ \/ link = "up" /\ \E all \in BOOLEAN : SendrecAck(p, all)
       \/ link = "up" /\ RecvrecHeader(p)
       \/ \E ch \in Negotiable : RecvrecBody(p, ch)
       \/ Call(p).op = "close" /\ io[p].started /\ RecvappAck(p, TRUE)
       \/ TransportClosed(p)
    /\ UNCHANGED <<io, link>>

\* One turn of the loop: hand the next record, or part of it (low_write
\* may return after one byte), to low_write, feed a record
\* from low_read, or, with a shared buffer, flush buffered plaintext to
\* free the buffer for input.  Closing discards incoming application data.
\* End of stream once the peer's engine failed sets BR_ERR_IO.
Service(p) ==
    /\ Active(p)
    /\ \/ link = "up" /\ \E all \in BOOLEAN : SendrecAck(p, all)
       \/ link = "up" /\ RecvrecHeader(p)
       \/ \E ch \in Negotiable : RecvrecBody(p, ch)
       \/ eng[p].mono /\ Flush(p, FALSE)
       \/ Call(p).op = "close" /\ io[p].started /\ RecvappAck(p, TRUE)
       \/ TransportClosed(p)
    /\ UNCHANGED <<io, link>>

\* low_read or low_write returns -1 on a broken transport: the wrapper
\* sets BR_ERR_IO, which closes the engine.
LowIOFails(p) ==
    /\ Active(p) /\ link = "down"
    /\ SendrecReady(eng[p]) \/ RecvrecReady(eng[p])
    /\ eng' = [eng EXCEPT ![p] = Fail(@, BR_ERR_IO)]
    /\ UNCHANGED <<wire, sent, delivered, pushed, tampered, io, link>>

\* The connection breaks; what was in transit is lost.
LinkDown ==
    /\ LinkMayFail /\ link = "up"
    /\ link' = "down"
    /\ wire' = [p \in Parties |-> <<>>]
    /\ UNCHANGED <<eng, sent, delivered, pushed, tampered, io>>

-----------------------------------------------------------------------------
(* The calls.                                                               *)

\* br_sslio_write, br_sslio_write_all: one chunk into the sendapp buffer.
WriteChunk(p) ==
    /\ Active(p) /\ Call(p).op \in {"write", "write_all"} /\ io[p].got < Call(p).len
    /\ SendappAck(p)
    /\ io' = [io EXCEPT ![p].got = @ + 1]
    /\ UNCHANGED link

\* br_sslio_read, br_sslio_read_all: the chunks recvapp offers, up to
\* what is still due.
ReadChunks(p) ==
    LET k == Len(eng[p].iapp)
        all == k <= Call(p).len - io[p].got
    IN /\ Active(p) /\ Call(p).op \in {"read", "read_all"} /\ io[p].got < Call(p).len
       /\ RecvappAck(p, all)
       /\ io' = [io EXCEPT ![p].got = @ + (IF all THEN k ELSE 1)]
       /\ UNCHANGED link

\* br_sslio_flush and br_sslio_close first call the engine's flush, or
\* its close (which does nothing once a closure is under way).
StartCall(p) ==
    LET e == eng[p]
    IN /\ Active(p) /\ Call(p).op \in {"flush", "close"} /\ ~io[p].started
       /\ IF Call(p).op = "flush"
          THEN IF ~Closed(e) /\ e.oplain # <<>> THEN Flush(p, FALSE)
               ELSE UNCHANGED vars
          ELSE IF ~Closed(e) /\ ~e.closing /\ ~e.close_sent /\ e.application_data
               THEN Close(p) ELSE UNCHANGED vars
       /\ io' = [io EXCEPT ![p].started = TRUE]
       /\ UNCHANGED link

\* Mutant: flush returns once the data is sealed, before it is sent.
FlushReturnsSealed(p) ==
    LET c == Call(p)
        e == eng[p]
    IN CASE c.op \in {"write", "read"} -> io[p].got >= 1 \/ Closed(e)
         [] c.op \in {"write_all", "read_all"} ->
              io[p].got = c.len \/ Closed(e)
         [] c.op = "flush" -> io[p].started
         [] c.op = "close" -> io[p].started /\ Closed(e)

\* When a call may return.  write and read: once a chunk moved (the count
\* is returned), or with -1 once the engine is closed.  write_all and
\* read_all: 0 once all chunks moved, -1 if the engine closed first (a
\* verified closure included).  flush: 0 once nothing is
\* buffered and every record went to low_write.  close: once closed, 0
\* without error.
CanReturn(p) ==
    LET c == Call(p)
        e == eng[p]
    IN CASE c.op \in {"write", "read"} -> io[p].got >= 1 \/ Closed(e)
         [] c.op \in {"write_all", "read_all"} ->
              io[p].got = c.len \/ Closed(e)
         [] c.op = "flush" ->
              io[p].started /\ (Closed(e) \/ (e.ophase = "app" /\ e.oplain = <<>>))
         [] c.op = "close" -> io[p].started /\ Closed(e)

\* Mutant: read_all and write_all return the chunk count, as br_sslio_read
\* and br_sslio_write do.
ReturnValueCount(p) ==
    LET c == Call(p)
        e == eng[p]
    IN CASE c.op \in {"write", "read"} -> IF io[p].got >= 1 THEN io[p].got ELSE -1
         [] c.op \in {"write_all", "read_all"} -> IF io[p].got = c.len THEN io[p].got ELSE -1
         [] c.op = "flush" -> IF Closed(e) THEN -1 ELSE 0
         [] c.op = "close" -> IF e.err = BR_ERR_OK THEN 0 ELSE -1

ReturnValue(p) ==
    LET c == Call(p)
        e == eng[p]
    IN CASE c.op \in {"write", "read"} -> IF io[p].got >= 1 THEN io[p].got ELSE -1
         [] c.op \in {"write_all", "read_all"} -> IF io[p].got = c.len THEN 0 ELSE -1
         [] c.op = "flush" -> IF Closed(e) THEN -1 ELSE 0
         [] c.op = "close" -> IF e.err = BR_ERR_OK THEN 0 ELSE -1

Return(p) ==
    LET r == ReturnValue(p)
    IN /\ Active(p) /\ CanReturn(p)
       /\ io' = [io EXCEPT ![p] =
                   [pc |-> @.pc + 1, got |-> 0, started |-> FALSE,
                    rets |-> Append(@.rets, r),
                    flushed |-> IF Call(p).op = "flush" /\ r = 0
                                THEN pushed[p] ELSE @.flushed]]
       /\ UNCHANGED <<vars, link>>

Wrapper(p) ==
    \/ Service(p) \/ LowIOFails(p)
    \/ WriteChunk(p) \/ ReadChunks(p) \/ StartCall(p) \/ Return(p)

SNext == LinkDown \/ \E p \in Parties : Wrapper(p)

\* The application thread stays in its wrapper call until it returns.
SSpec == SInit /\ [][SNext]_allVars /\ \A p \in Parties : WF_allVars(Wrapper(p))

-----------------------------------------------------------------------------
(* Properties.                                                              *)

SentChunks(p) ==
    UNION {Range(r.body) : r \in {r \in Range(sent[p]) : r.type = APPDATA}}

IOTypeOK ==
    /\ TypeOK
    /\ link \in {"up", "down"}
    /\ \A p \in Parties :
         /\ io[p].pc \in 1..Len(Script[p]) + 1
         /\ Len(io[p].rets) = io[p].pc - 1
         /\ \A i \in 1..Len(io[p].rets) :
              io[p].rets[i] \in IF Script[p][i].op \in {"write", "read"}
                                THEN {-1} \cup 1..Script[p][i].len ELSE {0, -1}
         /\ io[p].flushed \in 0..MaxApp /\ io[p].started \in BOOLEAN

\* br_sslio_flush: "any buffered application data ... has been sent to
\* the transport medium (i.e. accepted by the low_write() callback)" when
\* it returns 0.  Every chunk the application wrote before a successful
\* flush is in a record handed to low_write, across the engine's
\* buffering, the 1/n-1 split and handshake records queued before it.
FlushedDataSent ==
    \A p \in Parties : 1..io[p].flushed \subseteq SentChunks(p)

\* Every wrapper call returns, with 0 or -1, when the application thread
\* keeps running its call: the two applications never wait on each other
\* forever, also when the transport breaks at any point (a half-sent
\* record, a close_notify lost in transit) or a sequence number runs out.
CallsReturn == <>(\A p \in Parties : ~Active(p))

=============================================================================
