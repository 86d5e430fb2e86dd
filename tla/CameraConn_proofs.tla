------------------------- MODULE CameraConn_proofs -------------------------
(***************************************************************************)
(* Theorems about CameraConn, for any number of connections and lines.     *)
(***************************************************************************)
EXTENDS CameraConn, SequenceTheorems, TLAPS

-----------------------------------------------------------------------------
(* Types. *)

(* The initial state has the types. *)
LEMMA InitTypes == Init => TypeOK
<1> SUFFICES ASSUME Init PROVE TypeOK
  OBVIOUS
<1> QED BY DEF Init, TypeOK, Readers, Lines

(* Appending to a sequence. *)
LEMMA AppendType ==
    ASSUME NEW S, NEW s \in Seq(S), NEW e \in S
    PROVE  Append(s, e) \in Seq(S) /\ Append(s, e) # <<>>
<1>1. Append(s, e) \in Seq(S) /\ Len(Append(s, e)) = Len(s) + 1 /\ Len(s) \in Nat
  OBVIOUS
<1>2. Len(Append(s, e)) # Len(<<>>)
  BY <1>1
<1> QED BY <1>1, <1>2

(* The io thread and the camera keep the types. *)
LEMMA IoTypes ==
    ASSUME TypeOK, NEW c \in Conns, IoStep(c) \/ PeerStep(c)
    PROVE  TypeOK'
<1> USE DEF TypeOK, ownerVars, readerVars
<1>1. CASE Accept(c)
  <2>1. buf' \in [Conns -> Seq(Lines)]
    BY <1>1 DEF Accept
  <2>2. \A r \in Readers : at[r] = "read" => conn[r] # c
    BY <1>1 DEF Accept, Busy
  <2>3. \A r \in Readers : (at[r] = "read" /\ found[r] => buf[conn[r]] # <<>>)'
    BY <1>1, <2>2 DEF Accept
  <2> QED BY <1>1, <2>1, <2>3 DEF Accept, Readers
<1>2. ASSUME NEW l \in Lines, HandleRead(c, l) PROVE TypeOK'
  <2>1. Append(buf[c], l) \in Seq(Lines) /\ Append(buf[c], l) # <<>>
    <3>1. buf[c] \in Seq(Lines)
      OBVIOUS
    <3> QED BY <3>1, AppendType
  <2>2. \A d \in Conns : buf'[d] = IF d = c THEN Append(buf[c], l) ELSE buf[d]
    BY <1>2 DEF HandleRead
  <2>3. \A r \in Readers : (at[r] = "read" /\ found[r] => buf[conn[r]] # <<>>)'
    BY <1>2, <2>1, <2>2 DEF HandleRead
  <2>4. buf' \in [Conns -> Seq(Lines)]
    BY <1>2, <2>1 DEF HandleRead
  <2> QED BY <1>2, <2>3, <2>4 DEF HandleRead
<1>3. CASE HandleReadError(c) \/ StopIo(c)
  BY <1>3 DEF HandleReadError, StopIo
<1>4. CASE PeerClose(c)
  BY <1>4 DEF PeerClose
<1>5. CASE TcpReceive(c)
  <2>1. [ev |-> io[c], conn |-> c] \in Messages
    BY <1>5 DEF TcpReceive, Messages
  <2>2. queue' \in [Readers -> Seq(Messages)]
    BY <1>5, <2>1 DEF TcpReceive, Post
  <2> QED BY <1>5, <2>2 DEF TcpReceive
<1> QED BY <1>1, <1>2, <1>3, <1>4, <1>5 DEF IoStep, PeerStep

(* A message of a queue, and what is left of the queue without it. *)
LEMMA HeadType ==
    ASSUME TypeOK, NEW r \in Readers, queue[r] # <<>>
    PROVE  /\ Head(queue[r]) \in Messages /\ Head(queue[r]).conn \in Conns
           /\ Tail(queue[r]) \in Seq(Messages)
<1>1. queue[r] \in Seq(Messages)
  BY DEF TypeOK
<1>2. Head(queue[r]) \in Messages /\ Tail(queue[r]) \in Seq(Messages)
  BY <1>1, HeadTailProperties
<1> QED BY <1>2 DEF Messages

(* A message in a queue. *)
LEMMA QueuedType ==
    ASSUME TypeOK, NEW r \in Readers, NEW i \in DOMAIN queue[r]
    PROVE  queue[r][i] \in Messages /\ queue[r][i].conn \in Conns
<1>1. queue[r] \in Seq(Messages)
  BY DEF TypeOK
<1>2. queue[r][i] \in Messages
  BY <1>1, ElementOfSeq, LenProperties
<1> QED BY <1>2 DEF Messages

(* The loop of a reader keeps the types. *)
LEMMA LoopTypes ==
    ASSUME TypeOK, NEW r \in Readers, LoopStep(r)
    PROVE  TypeOK'
<1> USE DEF TypeOK, sockVars, ownerVars, readerVars
<1>1. CASE OnTcpReceive(r)
  <2>1. Head(queue[r]).conn \in Conns /\ Tail(queue[r]) \in Seq(Messages)
    BY <1>1, HeadType DEF OnTcpReceive
  <2> QED BY <1>1, <2>1, ConnOK DEF OnTcpReceive
<1>2. CASE Dangling(r)
  BY <1>2 DEF Dangling
<1>3. CASE Lookup(r)
  <2> DEFINE c == conn[r]
  <2>1. /\ UNCHANGED <<buf, got, slot, io, queue, pool, left, entry, held, conn, line, up>>
        /\ at[r] = "look" /\ c \in Conns
    BY <1>3, ConnOK DEF Lookup
  <2>2. CASE UNCHANGED <<st, found>> /\ at' = [at EXCEPT ![r] = "idle"]
    <3>1. at' \in [Readers -> {"idle", "look", "read", "process", "connect"}]
      BY <2>2
    <3>2. \A q \in Readers : at'[q] # "idle" => at'[q] = at[q]
      BY <2>2
    <3> QED BY <2>1, <2>2, <3>1, <3>2
  <2>3. CASE UNCHANGED <<at, found>> /\ Close(c)
    <3>1. st' \in [Conns -> {"none", "open", "peer", "closed"}]
      BY <2>1, <2>3 DEF Close
    <3> QED BY <2>1, <2>3, <3>1
  <2>4. CASE /\ buf[c] # <<>> /\ st' = st
             /\ at' = [at EXCEPT ![r] = "read"]
             /\ found' = [found EXCEPT ![r] = TRUE]
    <3>1. /\ at' \in [Readers -> {"idle", "look", "read", "process", "connect"}]
          /\ found' \in [Readers -> BOOLEAN]
      BY <2>4
    <3>2. \A q \in Readers \ {r} : at'[q] = at[q] /\ found'[q] = found[q]
      BY <2>4
    <3>3. at'[r] = "read" /\ conn'[r] # NoConn /\ buf'[conn'[r]] # <<>>
      BY <2>1, <2>4
    <3>4. \A q \in Readers : at'[q] # "idle" => conn'[q] # NoConn
      BY <2>1, <3>2, <3>3
    <3>5. \A q \in Readers : at'[q] = "read" /\ found'[q] => buf'[conn'[q]] # <<>>
      BY <2>1, <3>2, <3>3
    <3> QED BY <2>1, <2>4, <3>1, <3>4, <3>5
  <2> QED BY <1>3, <2>2, <2>3, <2>4 DEF Lookup
<1>4. CASE Read(r)
  <2> DEFINE c == conn[r]
  <2>1. c \in Conns /\ buf[c] \in Seq(Lines)
    BY <1>4 DEF Read
  <2>2. ASSUME buf[c] # <<>>
        PROVE  /\ Head(buf[c]) \in Lines
               /\ Tail(buf[c]) \in Seq(Lines)
               /\ \A l \in Lines : <<l>> \o Tail(buf[c]) \in Seq(Lines)
    <3>1. Head(buf[c]) \in Lines /\ Tail(buf[c]) \in Seq(Lines)
      BY <2>1, <2>2, HeadTailProperties
    <3>2. \A l \in Lines : <<l>> \in Seq(Lines)
      OBVIOUS
    <3> QED BY <3>1, <3>2, ConcatProperties
  <2>3. CASE found[r]
    <3>1. buf[c] # <<>>
      BY <1>4, <2>3 DEF Read
    <3> QED BY <1>4, <2>1, <2>2, <2>3, <3>1 DEF Read, TakeLine
  <2>4. CASE ~found[r]
    <3>1. line' \in [Readers -> Lines]
      BY <1>4, <2>4 DEF Read, Lines
    <3>2. buf' \in [Conns -> Seq(Lines)]
      <4>1. CASE buf' = buf
        BY <4>1
      <4>2. CASE buf[c] # <<>> /\ TakeLine(c)
        BY <2>2, <4>2 DEF TakeLine
      <4>3. CASE buf[c] # <<>> /\ CutLine(c)
        <5>1. PICK l \in Lines : buf' = [buf EXCEPT ![c] = <<l>> \o Tail(@)]
          BY <4>3 DEF CutLine, Lines
        <5> QED BY <2>2, <4>3, <5>1
      <4> QED BY <1>4, <2>4, <4>1, <4>2, <4>3 DEF Read
    <3>3. \A d \in Conns : d # c => buf'[d] = buf[d]
      BY <1>4, <2>4 DEF Read, TakeLine, CutLine
    <3> QED BY <1>4, <2>1, <2>4, <3>1, <3>2, <3>3 DEF Read
  <2> QED BY <2>3, <2>4
<1>5. CASE Undefined(r)
  BY <1>5 DEF Undefined, Close
<1> QED BY <1>1, <1>2, <1>3, <1>4, <1>5 DEF LoopStep

(* The other steps keep the types. *)
LEMMA OwnerTypes ==
    ASSUME TypeOK, GcClose \/ CoupleCamera \/ RegisterRead \/ ProcessCamera \/ OsClose
    PROVE  TypeOK'
<1> USE DEF TypeOK, sockVars, ownerVars, readerVars, Readers
<1>1. CASE GcClose
  BY <1>1, HeadType DEF GcClose
<1>2. CASE CoupleCamera
  <2>1. conn["gc"] \in Conns
    BY <1>2 DEF CoupleCamera
  <2>2. CASE entry # NoConn
    BY <1>2, <2>1, <2>2 DEF CoupleCamera
  <2>3. CASE entry = NoConn /\ conn["gc"] \in pool
    <3>1. /\ held' = conn["gc"] /\ entry' = conn["gc"] /\ pool' \subseteq pool
          /\ left' \subseteq Conns
          /\ slot' = [slot EXCEPT ![conn["gc"]] = "off"]
          /\ at' = [at EXCEPT !["gc"] = "connect"]
          /\ UNCHANGED <<st, buf, got, io, conn, found, line, queue, up>>
      BY <1>2, <2>1, <2>3 DEF CoupleCamera, Pop
    <3>2. \A r \in Readers : at'[r] # "idle" => conn[r] # NoConn
      BY <2>1, <3>1, ConnOK
    <3> QED BY <2>1, <3>1, <3>2
  <2>4. CASE entry = NoConn /\ conn["gc"] \notin pool
    BY <1>2, <2>1, <2>4 DEF CoupleCamera, Pop
  <2> QED BY <2>2, <2>3, <2>4
<1>3. CASE RegisterRead
  BY <1>3 DEF RegisterRead
<1>4. CASE ProcessCamera
  BY <1>4 DEF ProcessCamera
<1>5. CASE OsClose
  BY <1>5, HeadType DEF OsClose, Release
<1> QED BY <1>1, <1>2, <1>3, <1>4, <1>5

(* Every step keeps the types. *)
LEMMA NextTypes == TypeOK /\ [Next]_vars => TypeOK'
<1> SUFFICES ASSUME TypeOK, [Next]_vars PROVE TypeOK'
  OBVIOUS
<1>1. CASE Restart
  BY <1>1 DEF Restart, TypeOK, Readers, Lines
<1>2. CASE UNCHANGED vars
  BY <1>2 DEF vars, sockVars, ownerVars, readerVars, TypeOK
<1> QED
  BY <1>1, <1>2, IoTypes, LoopTypes, OwnerTypes
     DEF Next, GcStep, OsStep, Readers

(* The state of connections, owners and readers keeps its types. *)
THEOREM ConnTypeCorrect == Spec => []TypeOK
BY InitTypes, NextTypes, PTL DEF Spec

-----------------------------------------------------------------------------
(* Owners.  IInv is inductive: a close is the last message of a connection, so
   its owner lets go of it only when nobody else is left to name it. *)

OwnInv == OneOwner /\ CloseIsLast /\ OsOwns /\ GcOwns /\ NotYetOs

IInv == TypeOK /\ OwnInv

(* Nothing is owned in the initial state. *)
LEMMA InitOwn == Init => OwnInv
<1> SUFFICES ASSUME Init PROVE OwnInv
  OBVIOUS
<1>1. \A r \in Readers : queue[r] = <<>> /\ DOMAIN queue[r] = {} /\ at[r] = "idle"
  BY DEF Init
<1>2. \A c \in Conns : slot[c] = "off"
  BY DEF Init
<1> QED BY <1>1, <1>2, ConnOK
        DEF Init, OwnInv, OneOwner, CloseIsLast, OsOwns, GcOwns, NotYetOs,
            Concerns, Queued, Busy, Readers

(* A step that posts and takes no message, changes no owner and no reader, and
   begins no work, keeps the ownership. *)
LEMMA Frame ==
    ASSUME OwnInv, UNCHANGED <<queue, pool, entry, held, left, slot, conn>>,
           \A c \in Conns : io[c] = "over" => io'[c] = "over",
           \A r \in Readers : at'[r] # "idle" => at[r] # "idle",
           at'["gc"] = "connect" <=> at["gc"] = "connect", TypeOK
    PROVE  OwnInv'
<1>1. OneOwner'
  BY DEF OwnInv, OneOwner
<1>2. CloseIsLast'
  <2>1. \A r \in Readers : \A i \in DOMAIN queue[r] : queue[r][i].conn \in Conns
    BY QueuedType
  <2> QED BY <2>1 DEF OwnInv, CloseIsLast
<1>3. \A r \in Readers, c \in Conns : Concerns(r, c)' => Concerns(r, c)
  BY DEF Concerns, Queued, Busy
<1>4. OsOwns' /\ GcOwns'
  BY <1>3 DEF OwnInv, OsOwns, GcOwns, Readers
<1>5. NotYetOs'
  BY DEF OwnInv, NotYetOs, Queued
<1> QED BY <1>1, <1>2, <1>4, <1>5 DEF OwnInv

(* Steps inside the Frame. *)
LEMMA FrameSteps ==
    ASSUME IInv, NEW c \in Conns, NEW r \in Readers,
           \/ \E l \in Lines : HandleRead(c, l)
           \/ HandleReadError(c) \/ StopIo(c) \/ PeerClose(c)
           \/ Dangling(r) \/ Lookup(r) \/ Read(r) \/ Undefined(r)
           \/ ProcessCamera \/ UNCHANGED vars
    PROVE  OwnInv'
<1> USE DEF IInv
<1> DEFINE Framed ==
        /\ UNCHANGED <<queue, pool, entry, held, left, slot, conn>>
        /\ \A d \in Conns : io[d] = "over" => io'[d] = "over"
        /\ \A x \in Readers : at'[x] # "idle" => at[x] # "idle"
        /\ at'["gc"] = "connect" <=> at["gc"] = "connect"
<1>1. ASSUME NEW l \in Lines, HandleRead(c, l) PROVE Framed
  BY <1>1 DEF HandleRead, ownerVars, readerVars, TypeOK
<1>2. CASE HandleReadError(c) \/ StopIo(c) \/ PeerClose(c)
  <2> Framed
    BY <1>2 DEF HandleReadError, StopIo, PeerClose, ownerVars, readerVars, TypeOK
  <2> QED BY Frame
<1>3. CASE Dangling(r)
  <2> Framed
    <3>1. UNCHANGED <<queue, pool, entry, held, left, slot, conn, io>>
      BY <1>3 DEF Dangling, sockVars, ownerVars
    <3>2. at[r] # "connect" /\ at[r] # "idle" /\ at' \in {at, [at EXCEPT ![r] = "idle"]}
      BY <1>3 DEF Dangling
    <3>3. CASE at' = [at EXCEPT ![r] = "idle"]
      BY <3>1, <3>2, <3>3 DEF TypeOK, Readers
    <3> QED BY <3>1, <3>2, <3>3
  <2> QED BY Frame
<1>4. CASE Lookup(r)
  <2> Framed
    <3>1. at[r] = "look" /\ at' \in {at, [at EXCEPT ![r] = "idle"], [at EXCEPT ![r] = "read"]}
      BY <1>4 DEF Lookup, TypeOK
    <3>2. UNCHANGED <<queue, pool, entry, held, left, slot, conn, io>>
      BY <1>4 DEF Lookup, ownerVars
    <3>3. ASSUME NEW a \in {"look", "idle", "read"}, at' = [at EXCEPT ![r] = a]
          PROVE  Framed
      BY <3>1, <3>2, <3>3 DEF TypeOK, Readers
    <3>4. CASE at' = at
      BY <3>2, <3>4
    <3> QED BY <3>1, <3>3, <3>4
  <2> QED BY Frame
<1>5. CASE Read(r)
  <2> Framed
    <3>1. at[r] = "read" /\ at' = [at EXCEPT ![r] = "process"]
      BY <1>5 DEF Read
    <3>2. UNCHANGED <<queue, pool, entry, held, left, slot, conn, io>>
      BY <1>5 DEF Read, ownerVars
    <3> QED BY <3>1, <3>2 DEF TypeOK
  <2> QED BY Frame
<1>6. CASE Undefined(r)
  <2> Framed
    BY <1>6 DEF Undefined, ownerVars, TypeOK
  <2> QED BY Frame
<1>7. CASE ProcessCamera
  <2> Framed
    BY <1>7 DEF ProcessCamera, sockVars, ownerVars, TypeOK, Readers
  <2> QED BY Frame
<1>8. CASE UNCHANGED vars
  BY <1>8, Frame DEF vars, sockVars, ownerVars, readerVars
<1>9. CASE \E l \in Lines : HandleRead(c, l)
  <2> Framed
    BY <1>1, <1>9
  <2> QED BY Frame
<1> QED BY <1>2, <1>3, <1>4, <1>5, <1>6, <1>7, <1>8, <1>9

(* Taking the first message: the others keep their order, and if it was a
   close no message of that connection is left. *)
LEMMA Pops ==
    ASSUME TypeOK, CloseIsLast, NEW r \in Readers, queue[r] # <<>>,
           NEW c \in Conns, c = Head(queue[r]).conn,
           queue' = [queue EXCEPT ![r] = Tail(@)], io' = io
    PROVE  /\ CloseIsLast'
           /\ \A x \in Readers, d \in Conns : Queued(x, d)' => Queued(x, d)
           /\ Queued(r, c)
           /\ Head(queue[r]).ev = "close" => io[c] = "over" /\ ~Queued(r, c)'
<1> DEFINE q == queue[r]
<1>1. q \in Seq(Messages) /\ queue'[r] = Tail(q) /\ \A x \in Readers : x # r => queue'[x] = queue[x]
  BY DEF TypeOK
<1>2. DOMAIN q = 1 .. Len(q) /\ Len(q) \in Nat /\ Len(q) > 0 /\ q[1] = Head(q)
  BY <1>1
<1>3. \A i \in DOMAIN Tail(q) :
         i \in Nat /\ i > 0 /\ i + 1 \in DOMAIN q /\ Tail(q)[i] = q[i + 1]
  <2>1. Tail(q) \in Seq(Messages) /\ Len(Tail(q)) = Len(q) - 1
        /\ \A i \in 1 .. Len(Tail(q)) : Tail(q)[i] = q[i + 1]
    BY <1>1, HeadTailProperties
  <2>2. DOMAIN Tail(q) = 1 .. Len(Tail(q))
    BY <2>1
  <2> QED BY <1>2, <2>1, <2>2
<1>4. CloseIsLast'
  <2> SUFFICES ASSUME NEW x \in Readers, NEW i \in DOMAIN queue'[x],
                      queue'[x][i].ev = "close"
               PROVE  /\ io'[queue'[x][i].conn] = "over"
                      /\ \A j \in DOMAIN queue'[x] :
                            j > i => queue'[x][j].conn # queue'[x][i].conn
    BY DEF CloseIsLast
  <2>1. CASE x = r
    <3>1. i + 1 \in DOMAIN q /\ queue'[x][i] = q[i + 1]
      BY <1>1, <1>3, <2>1
    <3>2. /\ io[q[i + 1].conn] = "over"
          /\ \A j \in DOMAIN q : j > i + 1 => q[j].conn # q[i + 1].conn
      BY <3>1 DEF CloseIsLast
    <3>3. ASSUME NEW j \in DOMAIN queue'[x], j > i
          PROVE  queue'[x][j].conn # queue'[x][i].conn
      <4>0. i \in DOMAIN Tail(q) /\ j \in DOMAIN Tail(q) /\ queue'[x] = Tail(q)
        BY <1>1, <2>1
      <4>1. /\ i \in Nat /\ j \in Nat /\ j + 1 \in DOMAIN q /\ Tail(q)[j] = q[j + 1]
        BY <1>3, <4>0
      <4>2. j + 1 > i + 1
        BY <3>3, <4>1
      <4> QED BY <3>1, <3>2, <4>0, <4>1, <4>2
    <3> QED BY <3>1, <3>2, <3>3
  <2>2. CASE x # r
    BY <1>1, <2>2 DEF CloseIsLast
  <2> QED BY <2>1, <2>2
<1>5. ASSUME NEW x \in Readers, NEW d \in Conns, Queued(x, d)' PROVE Queued(x, d)
  <2>1. PICK i \in DOMAIN queue'[x] : queue'[x][i].conn = d
    BY <1>5 DEF Queued
  <2>2. CASE x = r
    BY <1>1, <1>3, <2>1, <2>2 DEF Queued
  <2>3. CASE x # r
    BY <1>1, <2>1, <2>3 DEF Queued
  <2> QED BY <2>2, <2>3
<1>6. 1 \in DOMAIN q /\ q[1].conn = c
  BY <1>2
<1>7. ASSUME Head(q).ev = "close" PROVE io[c] = "over" /\ ~Queued(r, c)'
  <2>1. io[c] = "over" /\ \A j \in DOMAIN q : j > 1 => q[j].conn # c
    BY <1>2, <1>6, <1>7 DEF CloseIsLast
  <2>2. ASSUME NEW i \in DOMAIN Tail(q) PROVE Tail(q)[i].conn # c
    <3>1. i + 1 \in DOMAIN q /\ Tail(q)[i] = q[i + 1] /\ i + 1 > 1
      BY <1>3
    <3> QED BY <2>1, <3>1
  <2>3. \A i \in DOMAIN queue'[r] : queue'[r][i].conn # c
    BY <1>1, <2>2
  <2> QED BY <2>1, <2>3 DEF Queued
<1> QED BY <1>4, <1>5, <1>6, <1>7 DEF Queued

(* Posting a message of a connection that reads: there is no close of it yet. *)
LEMMA Posts ==
    ASSUME TypeOK, CloseIsLast, NEW r \in Readers, NEW c \in Conns,
           io[c] \in {"receive", "close"},
           queue' = [queue EXCEPT ![r] = Append(@, [ev |-> io[c], conn |-> c])],
           io' = [io EXCEPT ![c] = IF @ = "close" THEN "over" ELSE "read"]
    PROVE  /\ CloseIsLast'
           /\ \A x \in Readers, d \in Conns :
                 Queued(x, d)' => Queued(x, d) \/ (x = r /\ d = c)
<1> DEFINE q == queue[r]
           m == [ev |-> io[c], conn |-> c]
<1>1. /\ q \in Seq(Messages) /\ m \in Messages /\ queue'[r] = Append(q, m)
      /\ \A x \in Readers : x # r => queue'[x] = queue[x]
  BY DEF TypeOK, Messages
<1>2. DOMAIN q = 1 .. Len(q) /\ Len(q) \in Nat
  BY <1>1
<1>3. \A i \in DOMAIN Append(q, m) :
         \/ i \in DOMAIN q /\ i \in Nat /\ i <= Len(q) /\ Append(q, m)[i] = q[i]
         \/ i = Len(q) + 1 /\ Append(q, m)[i] = m
  <2>1. Append(q, m) \in Seq(Messages) /\ Len(Append(q, m)) = Len(q) + 1
        /\ (\A i \in 1 .. Len(q) : Append(q, m)[i] = q[i]) /\ Append(q, m)[Len(q) + 1] = m
    BY <1>1, AppendProperties
  <2>2. DOMAIN Append(q, m) = 1 .. Len(q) + 1
    BY <2>1
  <2> QED BY <1>2, <2>1, <2>2
<1>4. \A x \in Readers : \A i \in DOMAIN queue[x] :
         queue[x][i].ev = "close" => queue[x][i].conn # c /\ io'[queue[x][i].conn] = "over"
  BY QueuedType DEF CloseIsLast, TypeOK
<1>5. CloseIsLast'
  <2> SUFFICES ASSUME NEW x \in Readers, NEW i \in DOMAIN queue'[x],
                      queue'[x][i].ev = "close"
               PROVE  /\ io'[queue'[x][i].conn] = "over"
                      /\ \A j \in DOMAIN queue'[x] :
                            j > i => queue'[x][j].conn # queue'[x][i].conn
    BY DEF CloseIsLast
  <2>1. CASE x = r /\ i = Len(q) + 1 /\ queue'[x][i] = m
    <3>1. io[c] = "close" /\ io'[c] = "over"
      BY <2>1 DEF TypeOK
    <3>2. \A j \in DOMAIN queue'[x] : ~(j > i)
      BY <1>1, <1>2, <1>3, <2>1
    <3> QED BY <2>1, <3>1, <3>2
  <2>2. CASE x = r /\ i \in DOMAIN q /\ queue'[x][i] = q[i]
    <3>1. q[i].conn # c /\ io'[q[i].conn] = "over"
      BY <1>4, <2>2
    <3>2. \A j \in DOMAIN q : j > i => q[j].conn # q[i].conn
      BY <2>2 DEF CloseIsLast
    <3>3. \A j \in DOMAIN queue'[x] : j > i => queue'[x][j].conn # q[i].conn
      BY <1>1, <1>3, <2>2, <3>1, <3>2
    <3> QED BY <2>2, <3>1, <3>3
  <2>3. CASE x # r
    BY <1>1, <1>4, <2>3 DEF CloseIsLast
  <2> QED BY <1>1, <1>3, <2>1, <2>2, <2>3
<1>6. ASSUME NEW x \in Readers, NEW d \in Conns, Queued(x, d)'
      PROVE  Queued(x, d) \/ (x = r /\ d = c)
  <2>1. PICK i \in DOMAIN queue'[x] : queue'[x][i].conn = d
    BY <1>6 DEF Queued
  <2>2. CASE x = r
    BY <1>1, <1>3, <2>1, <2>2 DEF Queued
  <2>3. CASE x # r
    BY <1>1, <2>1, <2>3 DEF Queued
  <2> QED BY <2>2, <2>3
<1> QED BY <1>5, <1>6

(* Accept: nothing names the new connection. *)
LEMMA AcceptOwn == ASSUME IInv, NEW c \in Conns, Accept(c) PROVE OwnInv'
<1> USE DEF IInv, OwnInv
<1>1. /\ c # entry /\ c # held /\ c \notin pool /\ io[c] = "over"
      /\ \A r \in Readers : ~Queued(r, c) /\ ~Busy(r, c)
      /\ slot' = [slot EXCEPT ![c] = "gc"] /\ io' = [io EXCEPT ![c] = "read"]
      /\ pool' = pool \cup {c} /\ left' = left \ {c}
      /\ UNCHANGED <<entry, held, at, conn, queue>>
  BY DEF Accept, Freed, readerVars
<1>2. OneOwner'
  BY <1>1 DEF OneOwner, TypeOK
<1>3. CloseIsLast'
  <2>1. \A r \in Readers : \A i \in DOMAIN queue[r] :
           queue[r][i].conn \in Conns /\ queue[r][i].conn # c
    BY <1>1, QueuedType DEF Queued
  <2> QED BY <1>1, <2>1 DEF CloseIsLast, TypeOK
<1>4. ASSUME NEW r \in Readers, NEW d \in Conns, Concerns(r, d)'
      PROVE  (d = c /\ r = "gc") \/ (d # c /\ Concerns(r, d))
  BY <1>1, <1>4 DEF Concerns, Queued, Busy, TypeOK, Readers
<1>5. OsOwns' /\ GcOwns'
  BY <1>1, <1>4 DEF OsOwns, GcOwns, Readers
<1>6. NotYetOs'
  <2>1. \A d \in Conns : Queued("os", d)' <=> Queued("os", d)
    BY <1>1 DEF Queued
  <2> QED BY <1>1, <2>1 DEF NotYetOs, TypeOK, Readers
<1> QED BY <1>2, <1>3, <1>5, <1>6

(* TcpReceive: whoever is told was registered. *)
LEMMA PostOwn == ASSUME IInv, NEW c \in Conns, TcpReceive(c) PROVE OwnInv'
<1> USE DEF IInv, OwnInv
<1> DEFINE r == slot[c]
<1>1. /\ io[c] \in {"receive", "close"}
      /\ io' = [io EXCEPT ![c] = IF @ = "close" THEN "over" ELSE "read"]
      /\ UNCHANGED <<slot, pool, entry, held, left, at, conn>>
  BY DEF TcpReceive, ownerVars, readerVars
<1>2. OneOwner'
  BY <1>1 DEF OneOwner
<1>3. /\ CloseIsLast'
      /\ \A x \in Readers, d \in Conns :
            Queued(x, d)' => Queued(x, d) \/ (x = r /\ d = c)
  <2>1. CASE r = "off"
    <3>1. queue' = queue
      BY <2>1 DEF TcpReceive
    <3>2. \A x \in Readers : \A i \in DOMAIN queue[x] :
             queue[x][i].ev = "close" => io'[queue[x][i].conn] = "over"
      BY <1>1, QueuedType DEF CloseIsLast, TypeOK
    <3> QED BY <3>1, <3>2 DEF CloseIsLast, Queued
  <2>2. CASE r \in Readers
    <3>1. queue' = [queue EXCEPT ![r] = Append(@, [ev |-> io[c], conn |-> c])]
      BY <2>2 DEF TcpReceive, Post, Readers
    <3> QED BY <1>1, <2>2, <3>1, Posts
  <2> QED BY <2>1, <2>2 DEF TypeOK
<1>4. ASSUME NEW x \in Readers, NEW d \in Conns, Concerns(x, d)' PROVE Concerns(x, d)
  <2>1. CASE d = c /\ x = r
    BY <1>1, <2>1 DEF Concerns
  <2>2. CASE ~(d = c /\ x = r)
    BY <1>1, <1>3, <1>4, <2>2 DEF Concerns, Busy, TypeOK
  <2> QED BY <2>1, <2>2
<1>5. OsOwns' /\ GcOwns'
  BY <1>1, <1>4 DEF OsOwns, GcOwns, Readers
<1>6. NotYetOs'
  <2>1. c \in pool \/ c = held => r # "os"
    BY ConnOK DEF OneOwner, NotYetOs
  <2>2. \A d \in pool \cup {held} : d \in Conns => ~Queued("os", d)'
    BY <1>3, <2>1 DEF NotYetOs, Readers
  <2> QED BY <1>1, <2>2 DEF NotYetOs
<1> QED BY <1>2, <1>3, <1>5, <1>6

(* OnTcpReceive: the message becomes the work. *)
LEMMA TakeOwn == ASSUME IInv, NEW r \in Readers, OnTcpReceive(r) PROVE OwnInv'
<1> USE DEF IInv, OwnInv
<1> DEFINE c == Head(queue[r]).conn
<1>1. /\ at[r] = "idle" /\ queue[r] # <<>> /\ queue' = [queue EXCEPT ![r] = Tail(@)]
      /\ at' = [at EXCEPT ![r] = "look"] /\ conn' = [conn EXCEPT ![r] = c]
      /\ UNCHANGED <<slot, io, pool, entry, held, left>>
  BY DEF OnTcpReceive, sockVars, ownerVars
<1>2. OneOwner'
  BY <1>1 DEF OneOwner
<1>3. c \in Conns
  BY <1>1, HeadType
<1>4. /\ CloseIsLast' /\ Queued(r, c)
      /\ \A x \in Readers, d \in Conns : Queued(x, d)' => Queued(x, d)
  BY <1>1, <1>3, Pops
<1>5. ASSUME NEW x \in Readers, NEW d \in Conns, Concerns(x, d)' PROVE Concerns(x, d)
  <2>1. CASE x = r /\ d = c
    BY <1>4, <2>1 DEF Concerns
  <2>2. CASE ~(x = r /\ d = c)
    BY <1>1, <1>4, <1>5, <2>2 DEF Concerns, Busy, TypeOK
  <2> QED BY <2>1, <2>2
<1>6. OsOwns' /\ GcOwns'
  BY <1>1, <1>5 DEF OsOwns, GcOwns, Readers
<1>7. NotYetOs'
  <2>1. \A d \in pool \cup {held} : d \in Conns => ~Queued("os", d)'
    BY <1>4 DEF NotYetOs, Readers
  <2>2. (at'["gc"] = "connect" <=> at["gc"] = "connect")
        /\ (at["gc"] = "connect" => conn'["gc"] = conn["gc"])
    BY <1>1 DEF TypeOK, Readers
  <2> QED BY <1>1, <2>1, <2>2 DEF NotYetOs
<1> QED BY <1>2, <1>4, <1>6, <1>7

(* GcClose: GC has nothing more of what it lets go. *)
LEMMA GcCloseOwn == ASSUME IInv, GcClose PROVE OwnInv'
<1> USE DEF IInv, OwnInv
<1>0. PICK c \in Conns : c = Head(queue["gc"]).conn
  BY HeadType DEF GcClose, Readers
<1>1. /\ at["gc"] = "idle" /\ queue["gc"] # <<>> /\ Head(queue["gc"]).ev = "close"
      /\ queue' = [queue EXCEPT !["gc"] = Tail(@)] /\ pool' = pool \ {c}
      /\ UNCHANGED <<slot, io, entry, held, left, at, conn>>
  BY <1>0 DEF GcClose, sockVars, readerVars
<1>2. OneOwner'
  BY <1>1 DEF OneOwner
<1>3. "gc" \in Readers
  BY DEF Readers
<1>4. /\ CloseIsLast' /\ io[c] = "over" /\ ~Queued("gc", c)'
      /\ \A x \in Readers, d \in Conns : Queued(x, d)' => Queued(x, d)
  BY <1>0, <1>1, <1>3, Pops
<1>5. ASSUME NEW x \in Readers, NEW d \in Conns, Concerns(x, d)'
      PROVE  Concerns(x, d) /\ ~(x = "gc" /\ d = c)
  BY <1>1, <1>4, <1>5 DEF Concerns, Busy
<1>6. OsOwns' /\ GcOwns'
  BY <1>1, <1>5 DEF OsOwns, GcOwns, Readers
<1>7. NotYetOs'
  BY <1>1, <1>4 DEF NotYetOs, Readers
<1> QED BY <1>2, <1>4, <1>6, <1>7

(* CoupleCamera: the connection leaves the pool before the system has it. *)
LEMMA CoupleOwn == ASSUME IInv, CoupleCamera PROVE OwnInv'
<1> USE DEF IInv, OwnInv
<1> DEFINE c == conn["gc"]
<1>1. /\ c \in Conns /\ at["gc"] = "process" /\ held = NoConn
      /\ left' = left \cup {c} /\ pool' = pool \ {c}
      /\ UNCHANGED <<io, conn, queue>>
  BY DEF CoupleCamera, Pop, NotYetOs, TypeOK, Readers
<1>2. CloseIsLast'
  BY <1>1 DEF CloseIsLast
<1>3. \A x \in Readers, d \in Conns : Queued(x, d)' <=> Queued(x, d)
  BY <1>1 DEF Queued
<1>4. CASE entry # NoConn
  <2>1. at' = [at EXCEPT !["gc"] = "look"] /\ UNCHANGED <<slot, entry, held>>
    BY <1>4 DEF CoupleCamera
  <2>2. ASSUME NEW x \in Readers, NEW d \in Conns, Concerns(x, d)' PROVE Concerns(x, d)
    BY <1>1, <1>3, <2>1, <2>2 DEF Concerns, Busy, TypeOK
  <2>3. OsOwns' /\ GcOwns'
    BY <1>1, <2>1, <2>2 DEF OsOwns, GcOwns, Readers
  <2>4. OneOwner' /\ NotYetOs'
    BY <1>1, <1>3, <2>1 DEF OneOwner, NotYetOs, TypeOK, Readers
  <2> QED BY <1>2, <2>3, <2>4
<1>5. CASE entry = NoConn /\ c \in pool
  <2>1. /\ held' = c /\ entry' = c /\ slot' = [slot EXCEPT ![c] = "off"]
        /\ at' = [at EXCEPT !["gc"] = "connect"]
    BY <1>5 DEF CoupleCamera, Pop
  <2>2. ASSUME NEW x \in Readers, NEW d \in Conns, Concerns(x, d)' PROVE Concerns(x, d)
    BY <1>1, <1>3, <2>1, <2>2 DEF Concerns, Busy, TypeOK, Readers
  <2>3. OsOwns' /\ GcOwns'
    BY <1>1, <1>5, <2>2, ConnOK DEF OsOwns, GcOwns, Readers
  <2>4. OneOwner'
    BY <1>1, <1>5, <2>1 DEF OneOwner, TypeOK
  <2>5. NotYetOs'
    BY <1>1, <1>3, <1>5, <2>1 DEF NotYetOs, TypeOK, Readers
  <2> QED BY <1>2, <2>3, <2>4, <2>5
<1>6. CASE entry = NoConn /\ c \notin pool
  <2>1. held' = NoConn /\ pool' = pool /\ UNCHANGED <<slot, entry, at>>
    BY <1>6 DEF CoupleCamera, Pop
  <2>2. \A x \in Readers, d \in Conns : Concerns(x, d)' => Concerns(x, d)
    BY <1>1, <1>3, <2>1 DEF Concerns, Busy
  <2>3. OsOwns' /\ GcOwns'
    BY <1>1, <2>1, <2>2 DEF OsOwns, GcOwns, Readers
  <2>4. OneOwner' /\ NotYetOs'
    BY <1>1, <1>3, <2>1 DEF OneOwner, NotYetOs, TypeOK, Readers
  <2> QED BY <1>2, <2>3, <2>4
<1> QED BY <1>4, <1>5, <1>6

(* RegisterRead: the system is told of what it owns. *)
LEMMA RegisterOwn == ASSUME IInv, RegisterRead PROVE OwnInv'
<1> USE DEF IInv, OwnInv
<1>1. /\ at["gc"] = "connect" /\ slot' = [slot EXCEPT ![held] = "os"]
      /\ held' = NoConn /\ at' = [at EXCEPT !["gc"] = "look"]
      /\ held \in left /\ entry = held /\ held \notin pool
      /\ UNCHANGED <<io, pool, entry, left, conn, queue>>
  BY DEF RegisterRead, NotYetOs, OneOwner
<1>2. \A x \in Readers, d \in Conns : Queued(x, d)' <=> Queued(x, d)
  BY <1>1 DEF Queued
<1>3. CloseIsLast'
  BY <1>1 DEF CloseIsLast
<1>4. OneOwner'
  BY <1>1, ConnOK DEF OneOwner, TypeOK
<1>5. ASSUME NEW x \in Readers, NEW d \in Conns, Concerns(x, d)'
      PROVE  Concerns(x, d) \/ (x = "os" /\ d = held)
  BY <1>1, <1>2, <1>5 DEF Concerns, Busy, TypeOK, Readers
<1>6. OsOwns' /\ GcOwns'
  BY <1>1, <1>5 DEF OsOwns, GcOwns, Readers
<1>7. NotYetOs'
  BY <1>1, <1>2, ConnOK DEF NotYetOs, TypeOK, Readers
<1> QED BY <1>3, <1>4, <1>6, <1>7

(* OsClose: the system has nothing more of what it lets go. *)
LEMMA OsCloseOwn == ASSUME IInv, OsClose PROVE OwnInv'
<1> USE DEF IInv, OwnInv
<1>0. PICK c \in Conns : c = Head(queue["os"]).conn
  BY HeadType DEF OsClose, Readers
<1>1. /\ at["os"] = "idle" /\ queue["os"] # <<>> /\ Head(queue["os"]).ev = "close"
      /\ queue' = [queue EXCEPT !["os"] = Tail(@)]
      /\ entry' = IF entry = c THEN NoConn ELSE entry
      /\ UNCHANGED <<slot, io, pool, held, left, at, conn>>
  BY <1>0 DEF OsClose, Release, sockVars, readerVars
<1>2. OneOwner'
  BY <1>1, ConnOK DEF OneOwner, TypeOK
<1>3. "os" \in Readers
  BY DEF Readers
<1>4. /\ CloseIsLast' /\ io[c] = "over" /\ ~Queued("os", c)' /\ Queued("os", c)
      /\ \A x \in Readers, d \in Conns : Queued(x, d)' => Queued(x, d)
  BY <1>0, <1>1, <1>3, Pops
<1>5. ASSUME NEW x \in Readers, NEW d \in Conns, Concerns(x, d)'
      PROVE  Concerns(x, d) /\ ~(x = "os" /\ d = c)
  BY <1>1, <1>4, <1>5 DEF Concerns, Busy
<1>6. OsOwns' /\ GcOwns'
  BY <1>1, <1>5 DEF OsOwns, GcOwns, Readers
<1>7. NotYetOs'
  <2>1. at["gc"] = "connect" => held # c
    BY <1>3, <1>4 DEF NotYetOs
  <2> QED BY <1>1, <1>4, <2>1 DEF NotYetOs, Readers
<1> QED BY <1>2, <1>4, <1>6, <1>7

(* Every step keeps the ownership. *)
LEMMA NextOwn == IInv /\ [Next]_vars => OwnInv'
<1> SUFFICES ASSUME IInv, [Next]_vars PROVE OwnInv'
  OBVIOUS
<1>1. ASSUME NEW c \in Conns, IoStep(c) \/ PeerStep(c) PROVE OwnInv'
  <2> "gc" \in Readers
    BY DEF Readers
  <2> QED BY <1>1, FrameSteps, AcceptOwn, PostOwn DEF IoStep, PeerStep
<1>2. ASSUME NEW r \in Readers, LoopStep(r) PROVE OwnInv'
  <2>1. CASE OnTcpReceive(r)
    BY <2>1, TakeOwn
  <2>2. CASE \E c \in Conns : TRUE
    BY <1>2, <2>1, <2>2, FrameSteps DEF LoopStep
  <2>3. CASE ~OnTcpReceive(r)
    <3>1. conn[r] \in Conns
      BY <1>2, <2>3
         DEF IInv, TypeOK, LoopStep, Dangling, Lookup, Read, Undefined
    <3> QED BY <2>2, <3>1
  <2> QED BY <2>1, <2>3
<1>3. CASE GcClose \/ CoupleCamera \/ RegisterRead \/ OsClose
  BY <1>3, GcCloseOwn, CoupleOwn, RegisterOwn, OsCloseOwn
<1>4. CASE ProcessCamera
  <2>1. "os" \in Readers /\ conn["os"] \in Conns
    BY <1>4 DEF ProcessCamera, IInv, TypeOK, Readers
  <2> QED BY <1>4, <2>1, FrameSteps
<1>5. CASE Restart
  <2>1. \A r \in Readers : queue'[r] = <<>> /\ DOMAIN queue'[r] = {} /\ at'[r] = "idle"
    BY <1>5 DEF Restart
  <2>2. \A c \in Conns : slot'[c] = "off"
    BY <1>5 DEF Restart
  <2> QED BY <1>5, <2>1, <2>2, ConnOK
          DEF Restart, OwnInv, OneOwner, CloseIsLast, OsOwns, GcOwns, NotYetOs,
              Concerns, Queued, Busy, Readers
<1>6. CASE UNCHANGED vars
  BY <1>6, Frame DEF IInv, vars, sockVars, ownerVars, readerVars
<1> QED BY <1>1, <1>2, <1>3, <1>4, <1>5, <1>6 DEF Next, GcStep, OsStep, Readers

(* IInv always holds. *)
THEOREM OwnershipInvariant == Spec => []IInv
<1>1. Init => IInv
  BY InitTypes, InitOwn DEF IInv
<1>2. IInv /\ [Next]_vars => IInv'
  BY NextTypes, NextOwn DEF IInv
<1> QED BY <1>1, <1>2, PTL DEF Spec

(* A connection is in the pool, with GC as its reader, or with a system. *)
THEOREM OneOwnerCorrect == Spec => []OneOwner
<1>1. IInv => OneOwner
  BY DEF IInv, OwnInv
<1> QED BY <1>1, OwnershipInvariant, PTL

(* The loop of the system does not meet a destroyed connection. *)
THEOREM OsTouchesLiveCorrect == Spec => []OsTouchesLive
<1>1. IInv => OsTouchesLive
  <2> SUFFICES ASSUME IInv, at["os"] # "idle" PROVE ~Freed(conn["os"])
    BY DEF OsTouchesLive
  <2>1. conn["os"] \in Conns /\ Concerns("os", conn["os"])
    BY DEF IInv, TypeOK, Concerns, Busy, Readers
  <2> QED BY <2>1 DEF IInv, OwnInv, OsOwns, Freed
<1> QED BY <1>1, OwnershipInvariant, PTL

(* The loop of GC meets only destroyed connections that it gave away. *)
THEOREM GcTouchesLiveCorrect == Spec => []GcTouchesLive
<1>1. IInv => GcTouchesLive
  <2> SUFFICES ASSUME IInv, at["gc"] # "idle", Freed(conn["gc"]) PROVE conn["gc"] \in left
    BY DEF GcTouchesLive
  <2>1. conn["gc"] \in Conns /\ Concerns("gc", conn["gc"])
    BY DEF IInv, TypeOK, Concerns, Busy, Readers
  <2> QED BY <2>1 DEF IInv, OwnInv, GcOwns, Freed
<1> QED BY <1>1, OwnershipInvariant, PTL

=============================================================================
