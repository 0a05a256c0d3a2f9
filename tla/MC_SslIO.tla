------------------------------- MODULE MC_SslIO -------------------------------
(* Model-checking instance of SslIO: a request and its answer, then a     *)
(* last chunk that the client's close seals.                               *)
EXTENDS SslIO

Op(o, n) == [op |-> o, len |-> n]

\* The client (full-duplex buffers) flushes before it waits for the
\* answer.  The server (a shared buffer) never flushes: br_sslio_read must
\* send the plaintext written before it.  The server's last chunk is one
\* the client never reads, which the client's close discards (or which is
\* written after the closure began, and then fails).
MC_Script ==
    [p \in {Client, Server} |->
        IF p = Client
        THEN <<Op("write_all", 1), Op("flush", 0), Op("read", 2),
               Op("write", 1), Op("close", 0)>>
        ELSE <<Op("read_all", 1), Op("write_all", 1), Op("read_all", 1),
               Op("write_all", 1), Op("close", 0)>>]
=============================================================================
