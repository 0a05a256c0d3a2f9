---------------------------- MODULE SecureChannel ----------------------------
(***************************************************************************)
(* What a pair of SSL engines promises the two hosts, from the stream      *)
(* contracts of bearssl_ssl.h (sendapp, recvapp, close, current_state,     *)
(* last_error): each side handshakes, is open for application data, and    *)
(* ends closed or failed.  What one host writes, the other reads in the    *)
(* same order, each chunk once.  A side that shuts down writes no more,    *)
(* and a side ends closed without error only once both sides shut down     *)
(* and it has read everything its peer wrote.  Any side may fail at any    *)
(* time, also in the call that hands it data or shuts it down; closed and *)
(* failed are final.                                                       *)
(***************************************************************************)
EXTENDS Integers, Sequences

CONSTANTS Client, Server, MaxApp

Parties == {Client, Server}
Other(p) == IF p = Client THEN Server ELSE Client

VARIABLES
    status,    \* [Parties -> {"handshake", "open", "closed", "failed"}]
    written,   \* chunks each host wrote
    received,  \* the chunks each host read, in order
    shut       \* whether each side has stopped writing (close or close_notify)

vars == <<status, written, received, shut>>

Init ==
    /\ status = [p \in Parties |-> "handshake"]
    /\ written = [p \in Parties |-> 0]
    /\ received = [p \in Parties |-> <<>>]
    /\ shut = [p \in Parties |-> FALSE]

Live(p) == status[p] \in {"handshake", "open"}

\* A call may leave the engine failed (sealing can run out of sequence
\* numbers, and a half-duplex engine seals in the call that frees input).
MayFail(p) == status' \in {status, [status EXCEPT ![p] = "failed"]}

\* The handshake completes: application data is allowed.
Open(p) ==
    /\ status[p] = "handshake"
    /\ status' = [status EXCEPT ![p] = "open"]
    /\ UNCHANGED <<written, received, shut>>

Write(p) ==
    /\ status[p] = "open" /\ ~shut[p] /\ written[p] < MaxApp
    /\ written' = [written EXCEPT ![p] = @ + 1]
    /\ MayFail(p)
    /\ UNCHANGED <<received, shut>>

\* The host reads the next n chunks its peer wrote.
Read(p, n) ==
    /\ status[p] = "open"
    /\ Len(received[p]) + n <= written[Other(p)]
    /\ received' = [received EXCEPT ![p] = @ \o [i \in 1..n |-> Len(@) + i]]
    /\ MayFail(p)
    /\ UNCHANGED <<written, shut>>

Shutdown(p) ==
    /\ Live(p) /\ ~shut[p]
    /\ shut' = [shut EXCEPT ![p] = TRUE]
    /\ MayFail(p)
    /\ UNCHANGED <<written, received>>

CloseClean(p) ==
    /\ status[p] = "open" /\ shut[p] /\ shut[Other(p)]
    /\ Len(received[p]) = written[Other(p)]
    /\ status' = [status EXCEPT ![p] = "closed"]
    /\ UNCHANGED <<written, received, shut>>

Fail(p) ==
    /\ Live(p)
    /\ status' = [status EXCEPT ![p] = "failed"]
    /\ UNCHANGED <<written, received, shut>>

Next ==
    \E p \in Parties :
        \/ Open(p) \/ Write(p) \/ \E n \in 1..MaxApp : Read(p, n)
        \/ Shutdown(p) \/ CloseClean(p) \/ Fail(p)

Spec == Init /\ [][Next]_vars
=============================================================================
