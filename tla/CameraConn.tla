----------------------------- MODULE CameraConn -----------------------------
(***************************************************************************)
(* TCP connections of one camera, from accept to destruction.  A           *)
(* connection first belongs to GeneralControl (tcpCliDevice_); its first   *)
(* line makes GC hand it over to the observation system of the camera,     *)
(* which keeps it in the camera's entry.  Three kinds of threads:          *)
(*   - the io thread of each connection receives bytes and posts messages  *)
(*     to whoever is registered as its reader: "gc", "os", or nobody while *)
(*     RegisterRead replaces one by the other;                             *)
(*   - GC and OS, the message loops of GeneralControl and of the system,   *)
(*     each read lines from the buffer of the connection a message names.  *)
(* Messages name connections by bare pointers.  A connection is destroyed  *)
(* when no pool, entry or handler holds it any more.                       *)
(*                                                                         *)
(* Every connection claims to be the same camera.  An address is not used  *)
(* again while a message or a handler still names it.                      *)
(***************************************************************************)
EXTENDS Naturals, Sequences

CONSTANTS
    Conns,      \* addresses of TcpClient objects
    NoConn,     \* the null pointer
    MaxLines    \* lines one connection receives

ASSUME ConnOK == NoConn \notin Conns /\ MaxLines \in Nat

(* A line is a camera's report, undefined, or longer than TCP_PACK_SIZE; both
   readers skip every other protocol. *)
Lines == {"camera", "bad", "long"}

Readers == {"gc", "os"}

Messages == [ev : {"receive", "close"}, conn : Conns]

VARIABLES
    st,       \* socket: "none", "open", "peer" (closed by the peer), "closed"
    buf,      \* crcbuf_read_, in lines
    got,      \* ghost: how many lines were received
    slot,     \* cbread_: the registered reader, or "off"
    io,       \* io thread: "read", "receive", "close" (to be signalled), "over"
    queue,    \* the message queue of each reader
    pool,     \* tcpCliDevice_
    entry,    \* CameraInfo::ptrTcp of the camera
    held,     \* the shared_ptr in GC's process_protocol_camera
    left,     \* ghost: connections taken out of the pool to be handed over
    at,       \* where each reader is
    conn,     \* the pointer it works on
    found,    \* the line Lookup found is still in front
    line,     \* the line it has read
    up        \* FALSE: the process died of a null or dangling pointer

sockVars   == <<st, buf, got, slot, io>>
ownerVars  == <<pool, entry, held, left>>
readerVars == <<at, conn, found, line>>
vars       == <<sockVars, ownerVars, readerVars, queue, up>>

(* The type invariant of the connections, their owners and their readers; a
   line that Lookup found is there until somebody reads it. *)
TypeOK ==
    /\ st \in [Conns -> {"none", "open", "peer", "closed"}]
    /\ buf \in [Conns -> Seq(Lines)]
    /\ got \in [Conns -> Nat]
    /\ slot \in [Conns -> Readers \cup {"off"}]
    /\ io \in [Conns -> {"read", "receive", "close", "over"}]
    /\ queue \in [Readers -> Seq(Messages)]
    /\ pool \subseteq Conns /\ left \subseteq Conns
    /\ entry \in Conns \cup {NoConn} /\ held \in Conns \cup {NoConn}
    /\ at \in [Readers -> {"idle", "look", "read", "process", "connect"}]
    /\ conn \in [Readers -> Conns \cup {NoConn}]
    /\ \A r \in Readers : at[r] # "idle" => conn[r] # NoConn
    /\ found \in [Readers -> BOOLEAN]
    /\ \A r \in Readers : at[r] = "read" /\ found[r] => buf[conn[r]] # <<>>
    /\ line \in [Readers -> Lines]
    /\ up \in BOOLEAN

Init ==
    /\ st = [c \in Conns |-> "none"]
    /\ buf = [c \in Conns |-> <<>>]
    /\ got = [c \in Conns |-> 0]
    /\ slot = [c \in Conns |-> "off"]
    /\ io = [c \in Conns |-> "over"]
    /\ queue = [r \in Readers |-> <<>>]
    /\ pool = {} /\ entry = NoConn /\ held = NoConn /\ left = {}
    /\ at = [r \in Readers |-> "idle"]
    /\ conn = [r \in Readers |-> NoConn]
    /\ found = [r \in Readers |-> FALSE]
    /\ line = [r \in Readers |-> "bad"]
    /\ up = TRUE

(* No shared_ptr holds the object. *)
Freed(c) == c \notin pool /\ entry # c /\ held # c

Queued(r, c) == \E i \in DOMAIN queue[r] : queue[r][i].conn = c

Busy(r, c) == at[r] # "idle" /\ conn[r] = c

-----------------------------------------------------------------------------
(* The io thread of a connection. *)

(* tcp_accept: GC is the first reader; then Start. *)
Accept(c) ==
    /\ Freed(c) /\ io[c] = "over"
    /\ \A r \in Readers : ~Queued(r, c) /\ ~Busy(r, c)
    /\ st' = [st EXCEPT ![c] = "open"]
    /\ buf' = [buf EXCEPT ![c] = <<>>]
    /\ got' = [got EXCEPT ![c] = 0]
    /\ slot' = [slot EXCEPT ![c] = "gc"]
    /\ io' = [io EXCEPT ![c] = "read"]
    /\ pool' = pool \cup {c} /\ left' = left \ {c}
    /\ UNCHANGED <<entry, held, readerVars, queue, up>>

(* handle_read without an error, before the callback *)
HandleRead(c, l) ==
    /\ io[c] = "read" /\ st[c] = "open" /\ got[c] < MaxLines
    /\ buf' = [buf EXCEPT ![c] = Append(@, l)]
    /\ got' = [got EXCEPT ![c] = @ + 1]
    /\ io' = [io EXCEPT ![c] = "receive"]
    /\ UNCHANGED <<st, slot, ownerVars, readerVars, queue, up>>

(* handle_read with an error: the peer closed, or Close was called here. *)
HandleReadError(c) ==
    /\ io[c] = "read" /\ st[c] \in {"peer", "closed"}
    /\ io' = [io EXCEPT ![c] = "close"]
    /\ UNCHANGED <<st, buf, got, slot, ownerVars, readerVars, queue, up>>

(* The destructor stops the io thread; a callback that runs is finished. *)
StopIo(c) ==
    /\ Freed(c) /\ io[c] = "read"
    /\ io' = [io EXCEPT ![c] = "over"]
    /\ UNCHANGED <<st, buf, got, slot, ownerVars, readerVars, queue, up>>

PostFirst(q, m) == <<m>> \o q   \* mutant

(* PostMessage: behind all others. *)
Post(q, m) == Append(q, m)

(* cbread_ calls tcp_receive of the registered reader, if there is one; after
   an error nothing more is read. *)
TcpReceive(c) ==
    /\ io[c] \in {"receive", "close"}
    /\ queue' = IF slot[c] = "off" THEN queue
                ELSE [queue EXCEPT ![slot[c]] = Post(@, [ev |-> io[c], conn |-> c])]
    /\ io' = [io EXCEPT ![c] = IF @ = "close" THEN "over" ELSE "read"]
    /\ UNCHANGED <<st, buf, got, slot, ownerVars, readerVars, up>>

(* External: the camera closes its end. *)
PeerClose(c) ==
    /\ st[c] = "open"
    /\ st' = [st EXCEPT ![c] = "peer"]
    /\ UNCHANGED <<buf, got, slot, io, ownerVars, readerVars, queue, up>>

-----------------------------------------------------------------------------
(* on_tcp_receive: the loop that GeneralControl and ObservationSystem share. *)

Close(c) == st' = [st EXCEPT ![c] = "closed"]

IsOpen(c) == st[c] # "closed"

(* MSG_TCP_RECEIVE *)
OnTcpReceive(r) ==
    /\ at[r] = "idle" /\ queue[r] # <<>> /\ Head(queue[r]).ev = "receive"
    /\ queue' = [queue EXCEPT ![r] = Tail(@)]
    /\ at' = [at EXCEPT ![r] = "look"]
    /\ conn' = [conn EXCEPT ![r] = Head(queue[r]).conn]
    /\ UNCHANGED <<sockVars, ownerVars, found, line, up>>

(* A destroyed connection is used: the process dies, or the remains of the
   object look closed and empty and the loop ends. *)
Dangling(r) ==
    /\ at[r] \in {"look", "read"} \/ (at[r] = "process" /\ line[r] = "bad")
    /\ Freed(conn[r])
    /\ \/ up' = FALSE /\ at' = at
       \/ up' = up /\ at' = [at EXCEPT ![r] = "idle"]
    /\ UNCHANGED <<sockVars, ownerVars, conn, found, line, queue>>

(* Lookup.  Only GC ends its loop when the connection is closed: an overlong
   line, which is not removed, keeps OS in the loop. *)
Lookup(r) ==
    LET c == conn[r] IN
    /\ at[r] = "look" /\ ~Freed(c)
    /\ \/ /\ buf[c] = <<>> \/ (r = "gc" /\ ~IsOpen(c))
          /\ at' = [at EXCEPT ![r] = "idle"] /\ UNCHANGED <<st, found>>
       \/ /\ buf[c] # <<>> /\ (r = "gc" => IsOpen(c))
          /\ IF Head(buf[c]) = "long"
             THEN Close(c) /\ UNCHANGED <<at, found>>
             ELSE /\ at' = [at EXCEPT ![r] = "read"]
                  /\ found' = [found EXCEPT ![r] = TRUE]
                  /\ st' = st
    /\ UNCHANGED <<buf, got, slot, io, ownerVars, conn, line, queue, up>>

TakeLine(c) == buf' = [buf EXCEPT ![c] = Tail(@)]

(* What is left of a line whose beginning was taken is undefined, or as long as
   before.  A cut takes bytes, so that an undefined line is not cut for ever:
   here it is not cut at all. *)
CutLine(c) ==
    /\ Head(buf[c]) # "bad"
    /\ \E l \in {"bad"} \cup ({"long"} \cap {Head(buf[c])}) :
          buf' = [buf EXCEPT ![c] = <<l>> \o Tail(@)]

(* Read of as many bytes as the line had that Lookup found.  If the other
   reader was faster, the bytes are those of the next line, cut anywhere, or
   none at all and the array on the stack is what it was. *)
Read(r) ==
    LET c == conn[r] IN
    /\ at[r] = "read" /\ ~Freed(c)
    /\ at' = [at EXCEPT ![r] = "process"]
    /\ found' = [x \in Readers |-> found[x] /\ conn[x] # c]
    /\ IF found[r]
       THEN line' = [line EXCEPT ![r] = Head(buf[c])] /\ TakeLine(c)
       ELSE /\ \E l \in {"camera", "bad"} : line' = [line EXCEPT ![r] = l]
            /\ \/ buf[c] = <<>> /\ buf' = buf
               \/ buf[c] # <<>> /\ Head(buf[c]) # "long" /\ TakeLine(c)
               \/ buf[c] # <<>> /\ CutLine(c)
    /\ UNCHANGED <<st, got, slot, io, ownerVars, conn, queue, up>>

(* An undefined protocol closes the connection. *)
Undefined(r) ==
    /\ at[r] = "process" /\ line[r] = "bad" /\ ~Freed(conn[r])
    /\ Close(conn[r])
    /\ at' = [at EXCEPT ![r] = "look"]
    /\ UNCHANGED <<buf, got, slot, io, ownerVars, conn, found, line, queue, up>>

-----------------------------------------------------------------------------
(* GC. *)

(* on_tcp_close: a camera's connection leaves the pool, if it is still there;
   what nobody holds any more is closed by its destructor. *)
GcClose ==
    LET c == Head(queue["gc"]).conn IN
    /\ at["gc"] = "idle" /\ queue["gc"] # <<>> /\ Head(queue["gc"]).ev = "close"
    /\ queue' = [queue EXCEPT !["gc"] = Tail(@)]
    /\ pool' = pool \ {c}
    /\ UNCHANGED <<sockVars, entry, held, left, readerVars, up>>

PopFind(c) == held' = (IF c \in pool THEN c ELSE NoConn) /\ pool' = pool   \* mutant

(* TcpCVec::Pop *)
Pop(c) == held' = (IF c \in pool THEN c ELSE NoConn) /\ pool' = pool \ {c}

(* process_protocol_camera and CoupleCamera, up to RegisterRead.  The camera
   may have another connection: this one, if it came from the pool, is
   destroyed with the only pointer to it.  Nothing tests that Pop found it. *)
CoupleCamera ==
    LET c == conn["gc"] IN
    /\ at["gc"] = "process" /\ line["gc"] = "camera"
    /\ left' = left \cup {c}
    /\ \/ /\ entry # NoConn
          /\ pool' = pool \ {c}
          /\ st' = IF c \in pool THEN [st EXCEPT ![c] = "closed"] ELSE st
          /\ at' = [at EXCEPT !["gc"] = "look"]
          /\ UNCHANGED <<slot, entry, held, up>>
       \/ /\ entry = NoConn
          /\ Pop(c)
          /\ IF c \in pool
             THEN /\ entry' = c
                  /\ slot' = [slot EXCEPT ![c] = "off"]
                  /\ at' = [at EXCEPT !["gc"] = "connect"]
                  /\ up' = up
             ELSE up' = FALSE /\ UNCHANGED <<entry, slot, at>>
          /\ st' = st
    /\ UNCHANGED <<buf, got, io, conn, found, line, queue>>

(* The second half of RegisterRead, and the end of the handler. *)
RegisterRead ==
    /\ at["gc"] = "connect"
    /\ slot' = [slot EXCEPT ![held] = "os"]
    /\ held' = NoConn
    /\ at' = [at EXCEPT !["gc"] = "look"]
    /\ UNCHANGED <<st, buf, got, io, pool, entry, left, conn, found, line, queue, up>>

-----------------------------------------------------------------------------
(* OS. *)

(* process_protocol_camera of the system: see ProcessCamera in ObssPlan. *)
ProcessCamera ==
    /\ at["os"] = "process" /\ line["os"] = "camera"
    /\ at' = [at EXCEPT !["os"] = "look"]
    /\ UNCHANGED <<sockVars, ownerVars, conn, found, line, queue, up>>

ReleaseNone(c) == entry' = entry   \* mutant

Release(c) == entry' = IF entry = c THEN NoConn ELSE entry

(* on_tcp_close: see OnTcpClose in ObssPlan. *)
OsClose ==
    LET c == Head(queue["os"]).conn IN
    /\ at["os"] = "idle" /\ queue["os"] # <<>> /\ Head(queue["os"]).ev = "close"
    /\ queue' = [queue EXCEPT !["os"] = Tail(@)]
    /\ Release(c)
    /\ UNCHANGED <<sockVars, pool, held, left, readerVars, up>>

(* External: systemd starts the server again. *)
Restart ==
    /\ ~up
    /\ st' = [c \in Conns |-> "none"]
    /\ buf' = [c \in Conns |-> <<>>]
    /\ got' = [c \in Conns |-> 0]
    /\ slot' = [c \in Conns |-> "off"]
    /\ io' = [c \in Conns |-> "over"]
    /\ queue' = [r \in Readers |-> <<>>]
    /\ pool' = {} /\ entry' = NoConn /\ held' = NoConn /\ left' = {}
    /\ at' = [r \in Readers |-> "idle"]
    /\ conn' = [r \in Readers |-> NoConn]
    /\ found' = [r \in Readers |-> FALSE]
    /\ line' = [r \in Readers |-> "bad"]
    /\ up' = TRUE

-----------------------------------------------------------------------------
IoStep(c) == HandleReadError(c) \/ TcpReceive(c) \/ StopIo(c)

PeerStep(c) == Accept(c) \/ PeerClose(c) \/ \E l \in Lines : HandleRead(c, l)

LoopStep(r) ==
    OnTcpReceive(r) \/ Dangling(r) \/ Lookup(r) \/ Read(r) \/ Undefined(r)

GcStep == LoopStep("gc") \/ GcClose \/ CoupleCamera \/ RegisterRead

OsStep == LoopStep("os") \/ ProcessCamera \/ OsClose

Next ==
    \/ up /\ ((\E c \in Conns : IoStep(c) \/ PeerStep(c)) \/ GcStep \/ OsStep)
    \/ Restart

(* Threads of the server run.  Cameras need not do anything. *)
Fairness ==
    /\ \A c \in Conns : WF_vars(up /\ IoStep(c))
    /\ WF_vars(up /\ GcStep) /\ WF_vars(up /\ OsStep)
    /\ WF_vars(Restart)

Spec == Init /\ [][Next]_vars

FairSpec == Spec /\ Fairness

-----------------------------------------------------------------------------
(* Properties. *)

(* A connection has one owner, and only GC is told of what is in its pool. *)
OneOwner ==
    /\ entry \notin pool /\ held \notin pool
    /\ \A c \in pool : slot[c] = "gc"

(* The system never works on a destroyed connection: its messages, posted by
   the io thread, arrive in the order of the reads, the close last. *)
OsTouchesLive == at["os"] # "idle" => ~Freed(conn["os"])

(* GC works on a destroyed connection only if it handed it over, or refused to,
   before: one that is still its own is not destroyed under it. *)
GcTouchesLive == at["gc"] # "idle" /\ Freed(conn["gc"]) => conn["gc"] \in left

(* The strengthenings these three rest on.  No message of a connection follows
   its close, in the queue or later. *)
CloseIsLast ==
    \A r \in Readers : \A i \in DOMAIN queue[r] :
        queue[r][i].ev = "close" =>
            /\ io[queue[r][i].conn] = "over"
            /\ \A j \in DOMAIN queue[r] : j > i => queue[r][j].conn # queue[r][i].conn

(* Reader r is working on the connection, or has been told, or will be. *)
Concerns(r, c) == (slot[c] = r /\ io[c] # "over") \/ Queued(r, c) \/ Busy(r, c)

OsOwns == \A c \in Conns : Concerns("os", c) => entry = c

GcOwns == \A c \in Conns \ left : Concerns("gc", c) => c \in pool

(* Until it is told so, the system has nothing of a connection. *)
NotYetOs ==
    /\ \A c \in pool \cup {held} : c \in Conns => ~Queued("os", c)
    /\ at["gc"] = "connect" =>
          /\ held \in left /\ held = conn["gc"] /\ entry = held
          /\ slot[held] = "off"
    /\ at["gc"] # "connect" => held = NoConn

(* OS does not get out of its loop. *)
OsSpins ==
    at["os"] = "look" /\ buf[conn["os"]] # <<>> /\ Head(buf[conn["os"]]) = "long"

(* Once the system is registered, a closing makes room for the camera to come
   back, unless an overlong line keeps OS in its loop. *)
ReleasedByOs ==
    \A c \in Conns :
        entry = c /\ slot[c] = "os" /\ io[c] = "read" /\ st[c] \in {"peer", "closed"}
            ~> entry # c \/ OsSpins

(* Every closed connection leaves the system, so that the camera can come back
   and idle systems are cleaned up, if cameras send nothing overlong. *)
ClosedIsReleased ==
    \A c \in Conns : entry = c /\ st[c] = "peer" ~> entry # c \/ OsSpins

=============================================================================
