----------------------------- MODULE ByteStream -----------------------------
(***************************************************************************)
(* What TcpClient promises those who Write: of every command a part from   *)
(* its beginning is accepted, which may be all of it or nothing; what is   *)
(* accepted is received in this order, each byte once, in pieces of any    *)
(* size; and nothing is received after the connection failed.              *)
(***************************************************************************)
EXTENDS Naturals, Sequences

CONSTANTS
    Conns,      \* connections
    Commands,   \* commands, sequences of bytes
    Capacity    \* bytes that wait at most

VARIABLES
    queue,      \* accepted, and not received
    received,   \* received by the peer
    failed      \* the connection failed

streamVars == <<queue, received, failed>>

Init ==
    /\ queue = [c \in Conns |-> <<>>]
    /\ received = [c \in Conns |-> <<>>]
    /\ failed = [c \in Conns |-> FALSE]

(* n bytes of a command are accepted, the others lost. *)
Put(c, cmd, n) ==
    /\ n \in 0 .. Len(cmd) /\ Len(queue[c]) + n <= Capacity
    /\ queue' = [queue EXCEPT ![c] = @ \o SubSeq(cmd, 1, n)]
    /\ UNCHANGED <<received, failed>>

Receive(c, n) ==
    /\ ~failed[c] /\ n \in 1 .. Len(queue[c])
    /\ received' = [received EXCEPT ![c] = @ \o SubSeq(queue[c], 1, n)]
    /\ queue' = [queue EXCEPT ![c] = SubSeq(@, n + 1, Len(@))]
    /\ UNCHANGED failed

Fail(c) ==
    /\ failed' = [failed EXCEPT ![c] = TRUE]
    /\ UNCHANGED <<queue, received>>

Next == \E c \in Conns :
    \/ \E cmd \in Commands : \E n \in 0 .. Capacity : Put(c, cmd, n)
    \/ \E n \in 1 .. Capacity : Receive(c, n)
    \/ Fail(c)

Spec == Init /\ [][Next]_streamVars

=============================================================================
