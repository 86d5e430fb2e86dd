------------------------------ MODULE TcpWriter ------------------------------
(***************************************************************************)
(* The sending side of TcpClient.  Any thread may Write a command: its     *)
(* bytes go to the circular buffer crcbuf_write_, as far as they fit, and  *)
(* a transfer is started when the buffer was empty before.  The io thread  *)
(* of the connection takes what was transferred out of the buffer and      *)
(* starts the next transfer; after an error it does neither.               *)
(***************************************************************************)
EXTENDS Naturals, Sequences

CONSTANTS
    Conns,       \* connections
    Commands,    \* commands, sequences of bytes
    Capacity,    \* bytes that fit in crcbuf_write_
    MaxWrites    \* commands written to one connection

ASSUME WriterOK ==
    /\ Capacity \in Nat \ {0} /\ MaxWrites \in Nat
    /\ \A cmd \in Commands : Len(cmd) > 0

Bytes == UNION {{cmd[i] : i \in DOMAIN cmd} : cmd \in Commands}

ASSUME CommandsOK == Commands \subseteq Seq(Bytes)

VARIABLES
    wbuf,      \* crcbuf_write_
    flight,    \* bytes handed to async_write_some, 0: no transfer
    done,      \* bytes of it that were transferred, until handle_write
    broken,    \* the transfer ended in an error, or will
    wire,      \* ghost: bytes transferred
    taken,     \* ghost: bytes that Write accepted
    writes     \* ghost: calls of Write

writerVars == <<wbuf, flight, done, broken, wire, taken, writes>>

InitWriter ==
    /\ wbuf = [c \in Conns |-> <<>>]
    /\ flight = [c \in Conns |-> 0]
    /\ done = [c \in Conns |-> 0]
    /\ broken = [c \in Conns |-> FALSE]
    /\ wire = [c \in Conns |-> <<>>]
    /\ taken = [c \in Conns |-> <<>>]
    /\ writes = [c \in Conns |-> 0]

(* What of cmd fits behind buf. *)
Fitting(buf, cmd) ==
    IF Len(buf) + Len(cmd) <= Capacity THEN cmd
    ELSE SubSeq(cmd, 1, Capacity - Len(buf))

(* Write: if (!wait_write) start_write *)
StartIfEmpty(c, buf) ==
    flight' = [flight EXCEPT ![c] = IF wbuf[c] = <<>> THEN Len(buf) ELSE @]

Write(c, cmd) ==
    /\ writes[c] < MaxWrites
    /\ wbuf' = [wbuf EXCEPT ![c] = @ \o Fitting(@, cmd)]
    /\ StartIfEmpty(c, wbuf'[c])
    /\ taken' = [taken EXCEPT ![c] = @ \o Fitting(wbuf[c], cmd)]
    /\ writes' = [writes EXCEPT ![c] = @ + 1]
    /\ UNCHANGED <<done, broken, wire>>

(* async_write_some: some bytes leave; handle_write is queued. *)
Transfer(c, n) ==
    /\ flight[c] > 0 /\ done[c] = 0 /\ ~broken[c]
    /\ n \in 1 .. flight[c]
    /\ done' = [done EXCEPT ![c] = n]
    /\ wire' = [wire EXCEPT ![c] = @ \o SubSeq(wbuf[c], 1, n)]
    /\ UNCHANGED <<wbuf, flight, broken, taken, writes>>

(* The peer is gone or the socket closed: the next transfer fails. *)
Break(c) ==
    /\ ~broken[c] /\ done[c] = 0
    /\ broken' = [broken EXCEPT ![c] = TRUE]
    /\ UNCHANGED <<wbuf, flight, done, wire, taken, writes>>

EraseAll(s, n) == <<>>   \* mutant

EraseBegin(s, n) == SubSeq(s, n + 1, Len(s))

HandleWriteOnce(c) ==   \* mutant
    /\ flight[c] > 0 /\ done[c] > 0
    /\ wbuf' = [wbuf EXCEPT ![c] = EraseBegin(@, done[c])]
    /\ flight' = [flight EXCEPT ![c] = 0]
    /\ done' = [done EXCEPT ![c] = 0]
    /\ UNCHANGED <<broken, wire, taken, writes>>

(* handle_write without an error *)
HandleWrite(c) ==
    /\ flight[c] > 0 /\ done[c] > 0
    /\ wbuf' = [wbuf EXCEPT ![c] = EraseBegin(@, done[c])]
    /\ flight' = [flight EXCEPT ![c] = Len(wbuf'[c])]
    /\ done' = [done EXCEPT ![c] = 0]
    /\ UNCHANGED <<broken, wire, taken, writes>>

(* handle_write with an error: nothing is erased, nothing started. *)
HandleWriteError(c) ==
    /\ broken[c] /\ flight[c] > 0 /\ done[c] = 0
    /\ flight' = [flight EXCEPT ![c] = 0]
    /\ UNCHANGED <<wbuf, done, broken, wire, taken, writes>>

NextWriter == \E c \in Conns :
    \/ \E cmd \in Commands : Write(c, cmd)
    \/ \E n \in 1 .. Capacity : Transfer(c, n)
    \/ Break(c) \/ HandleWrite(c) \/ HandleWriteError(c)

SpecWriter == InitWriter /\ [][NextWriter]_writerVars

-----------------------------------------------------------------------------
(* Properties. *)

(* The type invariant of the sending side; a transfer is never longer than
   what is buffered. *)
TypeOKWriter ==
    /\ wbuf \in [Conns -> Seq(Bytes)]
    /\ flight \in [Conns -> Nat]
    /\ done \in [Conns -> Nat]
    /\ broken \in [Conns -> BOOLEAN]
    /\ wire \in [Conns -> Seq(Bytes)]
    /\ taken \in [Conns -> Seq(Bytes)]
    /\ writes \in [Conns -> 0 .. MaxWrites]
    /\ \A c \in Conns : /\ Len(wbuf[c]) <= Capacity
                        /\ flight[c] <= Len(wbuf[c])
                        /\ done[c] <= flight[c]

(* Whatever is buffered is being transferred, and Write starts no second
   transfer beside the first; only a connection that failed keeps bytes that
   no transfer takes. *)
NeverIdle == \A c \in Conns :
    wbuf[c] # <<>> => flight[c] > 0 \/ broken[c]

(* No byte that Write accepted is lost, doubled or overtaken, however the
   calls of Write fall between a transfer and its handle_write. *)
InOrder == \A c \in Conns :
    taken[c] = wire[c] \o SubSeq(wbuf[c], done[c] + 1, Len(wbuf[c]))

SendsAllInOrder == NeverIdle /\ InOrder

(* Accepted, and not transferred yet *)
Waiting == [c \in Conns |-> SubSeq(wbuf[c], done[c] + 1, Len(wbuf[c]))]

Stream == INSTANCE ByteStream
            WITH queue <- Waiting, received <- wire, failed <- broken

(* Buffer, transfers and handle_write together are a stream that takes in
   the beginnings of commands and gives them out in order: no byte of a
   command is skipped, and none leaves after an error. *)
StreamSpec == Stream!Spec

=============================================================================
