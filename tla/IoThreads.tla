------------------------------ MODULE IoThreads ------------------------------
(***************************************************************************)
(* MessageQueue and the threads around it: the io thread of each           *)
(* connection posts what it received, message_loop handles one message     *)
(* after the other, and GeneralControl::Stop ends the loop and destroys    *)
(* the connections.  The queue is bounded and PostMessage waits for room.  *)
(* The io thread that waits also runs the handle_write of its connection.  *)
(* Destroying a connection joins its io thread (~BoostAsioKeep).           *)
(***************************************************************************)
EXTENDS TcpWriter

CONSTANTS
    QueueSize,    \* messages that fit in the queue
    MaxReads,     \* messages one connection causes
    MSG_QUIT

ASSUME QueueOK == QueueSize \in Nat \ {0} /\ MaxReads \in Nat

VARIABLES
    queue,     \* the messages: connections and MSG_QUIT
    io,        \* io thread: "run", "post" (waits for room), "over" (joined)
    reads,     \* ghost: messages each connection has caused
    handled,   \* ghost: and those that were handled
    loop,      \* message_loop: "receive", "handle", "join", "over"
    msg,       \* the message it handles
    stop       \* main thread: "no", "quit", "join", "destroy", "done"

loopVars == <<queue, io, reads, handled, loop, msg, stop>>
vars     == <<writerVars, loopVars>>

Init ==
    /\ InitWriter
    /\ queue = <<>>
    /\ io = [c \in Conns |-> "run"]
    /\ reads = [c \in Conns |-> 0]
    /\ handled = [c \in Conns |-> 0]
    /\ loop = "receive" /\ msg = MSG_QUIT
    /\ stop = "no"

Room == Len(queue) < QueueSize

-----------------------------------------------------------------------------
(* The io thread of a connection. *)

(* handle_read: bytes or an error; cbread_ calls PostMessage. *)
HandleRead(c) ==
    /\ io[c] = "run" /\ reads[c] < MaxReads
    /\ io' = [io EXCEPT ![c] = "post"]
    /\ reads' = [reads EXCEPT ![c] = @ + 1]
    /\ UNCHANGED <<writerVars, queue, handled, loop, msg, stop>>

(* message_queue::send with the lowest priority *)
Insert(q, m) == Append(q, m)

PostMessage(c) ==
    /\ io[c] = "post" /\ Room
    /\ queue' = Insert(queue, c)
    /\ io' = [io EXCEPT ![c] = "run"]
    /\ UNCHANGED <<writerVars, reads, handled, loop, msg, stop>>

IoWrite(c) ==
    /\ io[c] = "run"
    /\ HandleWrite(c) \/ HandleWriteError(c)
    /\ UNCHANGED loopVars

(* The network takes bytes, or fails. *)
Take(c) ==
    /\ io[c] # "over"
    /\ \E n \in 1 .. Capacity : Transfer(c, n)
    /\ UNCHANGED loopVars

Fail(c) ==
    /\ io[c] # "over" /\ Break(c)
    /\ UNCHANGED loopVars

-----------------------------------------------------------------------------
(* message_loop *)

Receive ==
    /\ loop = "receive" /\ queue # <<>>
    /\ msg' = Head(queue) /\ queue' = Tail(queue)
    /\ loop' = IF msg' = MSG_QUIT THEN "over" ELSE "handle"
    /\ UNCHANGED <<writerVars, io, reads, handled, stop>>

Handled(c) ==
    /\ loop' = "receive" /\ handled' = [handled EXCEPT ![c] = @ + 1]

(* A handler that does not touch the connections *)
Handle ==
    /\ loop = "handle" /\ Handled(msg)
    /\ UNCHANGED <<writerVars, queue, io, reads, msg, stop>>

(* One that writes to a connection, which its io thread need not have left *)
HandleWriting(c, cmd) ==
    /\ loop = "handle" /\ io[c] # "over"
    /\ Write(c, cmd) /\ Handled(msg)
    /\ UNCHANGED <<queue, io, reads, msg, stop>>

(* One that drops the last reference to the connection: on_tcp_close, or a
   camera that the system refuses *)
HandleDropping ==
    /\ loop = "handle" /\ io[msg] # "over"
    /\ loop' = "join"
    /\ UNCHANGED <<writerVars, queue, io, reads, handled, msg, stop>>

Joined ==
    /\ loop = "join" /\ io[msg] = "run"
    /\ io' = [io EXCEPT ![msg] = "over"]
    /\ Handled(msg)
    /\ UNCHANGED <<writerVars, queue, reads, msg, stop>>

(* Any other thread that writes to a connection: thread_obsplan,
   thread_rewrite, cycle_upload_client *)
OtherWrite(c, cmd) ==
    /\ io[c] # "over" /\ Write(c, cmd)
    /\ UNCHANGED loopVars

-----------------------------------------------------------------------------
(* GeneralControl::Stop *)

(* message_queue::send with a higher priority *)
SendMessage(m) == <<m>> \o queue

RequestStop ==
    /\ stop = "no" /\ stop' = "quit"
    /\ UNCHANGED <<writerVars, queue, io, reads, handled, loop, msg>>

Quit ==
    /\ stop = "quit" /\ Room
    /\ queue' = SendMessage(MSG_QUIT)
    /\ stop' = "join"
    /\ UNCHANGED <<writerVars, io, reads, handled, loop, msg>>

NotHandling == loop # "handle"   \* mutant

LoopEnded == loop = "over"

(* thrdMsgLoop_->join, message_queue::remove *)
JoinLoop ==
    /\ stop = "join" /\ LoopEnded
    /\ stop' = "destroy"
    /\ UNCHANGED <<writerVars, queue, io, reads, handled, loop, msg>>

DestroyDrained(c) ==   \* mutant
    /\ stop = "destroy" /\ io[c] = "run" /\ queue = <<>>
    /\ io' = [io EXCEPT ![c] = "over"]
    /\ UNCHANGED <<writerVars, queue, reads, handled, loop, msg, stop>>

(* tcpCliClient_.Reset, tcpCliDevice_.Reset *)
Destroy(c) ==
    /\ stop = "destroy" /\ io[c] = "run"
    /\ io' = [io EXCEPT ![c] = "over"]
    /\ UNCHANGED <<writerVars, queue, reads, handled, loop, msg, stop>>

Stopped ==
    /\ stop = "destroy" /\ \A c \in Conns : io[c] = "over"
    /\ stop' = "done"
    /\ UNCHANGED <<writerVars, queue, io, reads, handled, loop, msg>>

Threads ==
    \/ Receive \/ Handle \/ HandleDropping \/ Joined
    \/ Quit \/ JoinLoop \/ Stopped
    \/ \E c \in Conns :
         \/ HandleRead(c) \/ PostMessage(c) \/ IoWrite(c) 
         \/ Take(c) \/ Fail(c) \/ Destroy(c)
         \/ \E cmd \in Commands : HandleWriting(c, cmd) \/ OtherWrite(c, cmd)

Next == Threads \/ RequestStop

(* A thread that can go on does.  One that waits for room in the queue gets
   it in the end: each connection causes finitely many messages.  Only the io
   thread that is not waiting finishes transfers.  Reading, writing, failing
   and the choice of a handler are never forced. *)
Fairness ==
    /\ WF_vars(Receive) /\ WF_vars(Handle) /\ WF_vars(Joined)
    /\ WF_vars(Quit) /\ WF_vars(JoinLoop) /\ WF_vars(Stopped)
    /\ \A c \in Conns :
         /\ WF_vars(PostMessage(c)) /\ WF_vars(Destroy(c)) /\ WF_vars(IoWrite(c))
         /\ WF_vars(io[c] = "run" /\ Take(c))

Spec == Init /\ [][Next]_vars /\ Fairness

-----------------------------------------------------------------------------
(* Properties. *)

(* The type invariant of the queue and its threads. *)
TypeOK ==
    /\ TypeOKWriter
    /\ queue \in Seq(Conns \cup {MSG_QUIT}) /\ Len(queue) <= QueueSize
    /\ io \in [Conns -> {"run", "post", "over"}]
    /\ reads \in [Conns -> Nat] /\ handled \in [Conns -> Nat]
    /\ loop \in {"receive", "handle", "join", "over"}
    /\ msg \in Conns \cup {MSG_QUIT}
    /\ loop \in {"handle", "join"} => msg \in Conns
    /\ stop \in {"no", "quit", "join", "destroy", "done"}

(* Nobody makes room in a full queue for a thread that is being joined: the
   handler of the loop joins an io thread that waits for the loop, or the loop
   has ended. *)
Stuck ==
    /\ ~Room
    /\ \/ loop = "join" /\ io[msg] = "post"
       \/ loop = "over" /\ \E c \in Conns : io[c] = "post"

(* Once Stop has joined the loop no handler is running or will run, though
   messages are left and connections go on posting. *)
StoppedIsStopped ==
    stop \in {"destroy", "done"} => loop' = "over" /\ UNCHANGED <<handled, msg>>

NothingAfterStop == [][StoppedIsStopped]_vars

(* Stop returns, unless a full queue holds an io thread that has to be
   joined. *)
StopEnds == stop # "no" ~> stop = "done" \/ Stuck

(* Every message is handled unless the loop is told to quit, and every byte
   that Write accepted leaves unless the connection fails or is destroyed:
   nothing but a full queue of a stuck loop keeps the io threads from it. *)
Delivered == \A c \in Conns :
    /\ reads[c] > handled[c] ~> handled[c] = reads[c] \/ stop # "no" \/ Stuck
    /\ wbuf[c] # <<>> ~> wbuf[c] = <<>> \/ broken[c] \/ io[c] = "over" \/ Stuck

=============================================================================
