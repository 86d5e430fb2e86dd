-------------------------- MODULE IoThreads_proofs --------------------------
(***************************************************************************)
(* Theorems about IoThreads, for every number of connections, every queue, *)
(* every buffer and every set of commands.                                 *)
(***************************************************************************)
EXTENDS IoThreads, SequenceTheorems, TLAPS

-----------------------------------------------------------------------------
(* Sequences of bytes. *)

(* What fits behind a buffer is bytes, does not overfill it, and is not empty
   when the buffer is. *)
LEMMA FittingFits ==
    ASSUME NEW buf \in Seq(Bytes), Len(buf) <= Capacity, NEW cmd \in Commands
    PROVE  /\ Fitting(buf, cmd) \in Seq(Bytes)
           /\ buf \o Fitting(buf, cmd) \in Seq(Bytes)
           /\ Len(buf \o Fitting(buf, cmd)) \in Len(buf) .. Capacity
           /\ Len(buf) = 0 => Len(buf \o Fitting(buf, cmd)) > 0
<1> DEFINE room == Capacity - Len(buf)
<1>1. cmd \in Seq(Bytes) /\ Len(cmd) \in Nat \ {0} /\ Len(buf) \in Nat
      /\ Capacity \in Nat \ {0}
  BY WriterOK, CommandsOK
<1>2. CASE Len(buf) + Len(cmd) <= Capacity
  BY <1>1, <1>2, ConcatProperties DEF Fitting
<1>3. CASE ~(Len(buf) + Len(cmd) <= Capacity)
  <2>1. room \in Nat /\ room < Len(cmd)
    BY <1>1, <1>3
  <2>2. \A i \in 1 .. room : cmd[i] \in Bytes
    BY <1>1, <2>1, LenProperties
  <2>3. /\ SubSeq(cmd, 1, room) \in Seq(Bytes)
        /\ Len(SubSeq(cmd, 1, room)) = room
    BY <2>1, <2>2, SubSeqProperties
  <2>4. Fitting(buf, cmd) = SubSeq(cmd, 1, room)
    BY <1>3 DEF Fitting
  <2> QED BY <1>1, <2>1, <2>3, <2>4, ConcatProperties
<1> QED BY <1>2, <1>3

(* The end of a sequence, from any place in it. *)
LEMMA TailFrom ==
    ASSUME NEW w \in Seq(Bytes), NEW d \in 0 .. Len(w)
    PROVE  /\ SubSeq(w, d + 1, Len(w)) \in Seq(Bytes)
           /\ Len(SubSeq(w, d + 1, Len(w))) = Len(w) - d
           /\ \A i \in 1 .. Len(w) - d : SubSeq(w, d + 1, Len(w))[i] = w[d + i]
<1>1. Len(w) \in Nat /\ \A i \in d + 1 .. Len(w) : w[i] \in Bytes
  BY LenProperties
<1>2. /\ SubSeq(w, d + 1, Len(w)) \in Seq(Bytes)
      /\ Len(SubSeq(w, d + 1, Len(w)))
           = IF d + 1 <= Len(w) THEN Len(w) - (d + 1) + 1 ELSE 0
      /\ \A i \in 1 .. Len(w) - (d + 1) + 1 :
           SubSeq(w, d + 1, Len(w))[i] = w[d + 1 + i - 1]
  BY <1>1, SubSeqProperties
<1> QED BY <1>1, <1>2

(* Bytes that are appended do not change what is before them. *)
LEMMA TailOfConcat ==
    ASSUME NEW w \in Seq(Bytes), NEW f \in Seq(Bytes), NEW d \in 0 .. Len(w)
    PROVE  SubSeq(w \o f, d + 1, Len(w \o f)) = SubSeq(w, d + 1, Len(w)) \o f
<1> DEFINE s == SubSeq(w \o f, d + 1, Len(w \o f))
           t == SubSeq(w, d + 1, Len(w)) \o f
<1>1. Len(w) \in Nat /\ Len(f) \in Nat
  BY LenProperties
<1>2. /\ w \o f \in Seq(Bytes) /\ Len(w \o f) = Len(w) + Len(f)
      /\ \A i \in 1 .. Len(w) + Len(f) :
           (w \o f)[i] = IF i <= Len(w) THEN w[i] ELSE f[i - Len(w)]
  BY ConcatProperties
<1>3. /\ s \in Seq(Bytes) /\ Len(s) = Len(w) + Len(f) - d
      /\ \A i \in 1 .. Len(w) + Len(f) - d : s[i] = (w \o f)[d + i]
  <2>1. d \in 0 .. Len(w \o f)
    BY <1>1, <1>2
  <2> QED BY <1>1, <1>2, <2>1, TailFrom
<1>4. /\ SubSeq(w, d + 1, Len(w)) \in Seq(Bytes)
      /\ Len(SubSeq(w, d + 1, Len(w))) = Len(w) - d
      /\ \A i \in 1 .. Len(w) - d : SubSeq(w, d + 1, Len(w))[i] = w[d + i]
  BY TailFrom
<1>5. /\ t \in Seq(Bytes) /\ Len(t) = Len(w) - d + Len(f)
      /\ \A i \in 1 .. Len(w) - d + Len(f) :
           t[i] = IF i <= Len(w) - d THEN SubSeq(w, d + 1, Len(w))[i]
                  ELSE f[i - (Len(w) - d)]
  BY <1>4, ConcatProperties
<1>6. Len(s) = Len(t)
  BY <1>1, <1>3, <1>5
<1>7. ASSUME NEW i \in 1 .. Len(s) PROVE s[i] = t[i]
  <2>1. i \in 1 .. Len(w) + Len(f) - d /\ d + i \in 1 .. Len(w) + Len(f)
    BY <1>1, <1>3
  <2>2. s[i] = IF d + i <= Len(w) THEN w[d + i] ELSE f[d + i - Len(w)]
    BY <1>2, <1>3, <2>1
  <2>3. t[i] = IF i <= Len(w) - d THEN w[d + i] ELSE f[i - (Len(w) - d)]
    BY <1>1, <1>4, <1>5, <2>1
  <2> QED BY <1>1, <2>1, <2>2, <2>3
<1> HIDE DEF s, t
<1>8. s = t
  BY <1>3, <1>5, <1>6, <1>7, SeqEqual
<1> QED BY <1>8 DEF s, t

(* The order in which bytes are put together does not matter. *)
LEMMA BytesAssociative ==
    ASSUME NEW s \in Seq(Bytes), NEW t \in Seq(Bytes), NEW u \in Seq(Bytes)
    PROVE  (s \o t) \o u = s \o (t \o u)
<1> DEFINE l == (s \o t) \o u
           r == s \o (t \o u)
<1>1. Len(s) \in Nat /\ Len(t) \in Nat /\ Len(u) \in Nat
  BY LenProperties
<1>2. /\ s \o t \in Seq(Bytes) /\ Len(s \o t) = Len(s) + Len(t)
      /\ \A i \in 1 .. Len(s) + Len(t) :
           (s \o t)[i] = IF i <= Len(s) THEN s[i] ELSE t[i - Len(s)]
  BY ConcatProperties
<1>3. /\ t \o u \in Seq(Bytes) /\ Len(t \o u) = Len(t) + Len(u)
      /\ \A i \in 1 .. Len(t) + Len(u) :
           (t \o u)[i] = IF i <= Len(t) THEN t[i] ELSE u[i - Len(t)]
  BY ConcatProperties
<1>4. /\ l \in Seq(Bytes) /\ Len(l) = Len(s \o t) + Len(u)
      /\ \A i \in 1 .. Len(s \o t) + Len(u) :
           l[i] = IF i <= Len(s \o t) THEN (s \o t)[i] ELSE u[i - Len(s \o t)]
  BY <1>2, ConcatProperties
<1>5. /\ r \in Seq(Bytes) /\ Len(r) = Len(s) + Len(t \o u)
      /\ \A i \in 1 .. Len(s) + Len(t \o u) :
           r[i] = IF i <= Len(s) THEN s[i] ELSE (t \o u)[i - Len(s)]
  BY <1>3, ConcatProperties
<1> HIDE DEF l, r
<1>6. Len(l) = Len(r)
  BY <1>1, <1>2, <1>3, <1>4, <1>5
<1>7. ASSUME NEW i \in 1 .. Len(l) PROVE l[i] = r[i]
  <2>1. Len(l) = Len(s) + Len(t) + Len(u) /\ i \in Nat /\ i >= 1
    BY <1>1, <1>2, <1>4
  <2>2. CASE i <= Len(s)
    <3>1. l[i] = (s \o t)[i] /\ (s \o t)[i] = s[i] /\ r[i] = s[i]
      BY <1>1, <1>2, <1>3, <1>4, <1>5, <2>1, <2>2
    <3> QED BY <3>1
  <2>3. CASE Len(s) < i /\ i <= Len(s) + Len(t)
    <3>1. l[i] = (s \o t)[i] /\ (s \o t)[i] = t[i - Len(s)]
      BY <1>1, <1>2, <1>4, <2>1, <2>3
    <3>2. i - Len(s) \in 1 .. Len(t) + Len(u) /\ i - Len(s) <= Len(t)
      BY <1>1, <2>1, <2>3
    <3>3. r[i] = (t \o u)[i - Len(s)]
      BY <1>1, <1>3, <1>5, <2>1, <2>3
    <3> QED BY <1>3, <3>1, <3>2, <3>3
  <2>4. CASE Len(s) + Len(t) < i
    <3>1. l[i] = u[i - (Len(s) + Len(t))]
      BY <1>1, <1>2, <1>4, <2>1, <2>4
    <3>2. i - Len(s) \in 1 .. Len(t) + Len(u) /\ ~(i - Len(s) <= Len(t))
      BY <1>1, <2>1, <2>4
    <3>3. r[i] = (t \o u)[i - Len(s)]
      BY <1>1, <1>3, <1>5, <2>1, <2>4
    <3>4. i - (Len(s) + Len(t)) = (i - Len(s)) - Len(t)
      BY <1>1, <2>1
    <3> QED BY <1>3, <3>1, <3>2, <3>3, <3>4
  <2> QED BY <1>1, <2>1, <2>2, <2>3, <2>4
<1>8. l = r
  BY <1>4, <1>5, <1>6, <1>7, SeqEqual
<1> QED BY <1>8 DEF l, r

-----------------------------------------------------------------------------
(* Types of the sending side. *)

(* Writing keeps the types; no transfer of the old bytes is forgotten. *)
LEMMA WriteTypes ==
    ASSUME TypeOKWriter, NEW c \in Conns, NEW cmd \in Commands, Write(c, cmd)
    PROVE  /\ TypeOKWriter'
           /\ wbuf'[c] = wbuf[c] \o Fitting(wbuf[c], cmd)
           /\ taken'[c] = taken[c] \o Fitting(wbuf[c], cmd)
<1> DEFINE fit == Fitting(wbuf[c], cmd)
<1>1. wbuf[c] \in Seq(Bytes) /\ Len(wbuf[c]) <= Capacity /\ taken[c] \in Seq(Bytes)
  BY DEF TypeOKWriter
<1>2. /\ fit \in Seq(Bytes) /\ wbuf[c] \o fit \in Seq(Bytes)
      /\ Len(wbuf[c] \o fit) \in Len(wbuf[c]) .. Capacity
  BY <1>1, FittingFits
<1>3. taken[c] \o fit \in Seq(Bytes)
  BY <1>1, <1>2, ConcatProperties
<1> HIDE DEF fit
<1>4. /\ wbuf' = [wbuf EXCEPT ![c] = @ \o fit]
      /\ taken' = [taken EXCEPT ![c] = @ \o fit]
      /\ flight' = [flight EXCEPT ![c] =
                      IF wbuf[c] = <<>> THEN Len(wbuf'[c]) ELSE @]
      /\ writes' = [writes EXCEPT ![c] = @ + 1] /\ writes[c] < MaxWrites
      /\ UNCHANGED <<done, broken, wire>>
  BY DEF Write, StartIfEmpty, fit
<1>5. wbuf'[c] = wbuf[c] \o fit /\ taken'[c] = taken[c] \o fit
  BY <1>4 DEF TypeOKWriter
<1>6. wbuf' \in [Conns -> Seq(Bytes)] /\ taken' \in [Conns -> Seq(Bytes)]
  BY <1>2, <1>3, <1>4 DEF TypeOKWriter
<1>7. Len(wbuf[c]) \in Nat /\ Capacity \in Nat /\ MaxWrites \in Nat
  BY <1>1, LenProperties, WriterOK
<1>8. Len(wbuf'[c]) \in Nat
  BY <1>2, <1>5, LenProperties
<1>9. flight' \in [Conns -> Nat]
  BY <1>4, <1>8 DEF TypeOKWriter
<1>10. writes' \in [Conns -> 0 .. MaxWrites]
  <2>1. writes[c] + 1 \in 0 .. MaxWrites
    BY <1>4, <1>7 DEF TypeOKWriter
  <2> QED BY <1>4, <2>1 DEF TypeOKWriter
<1>11. ASSUME NEW x \in Conns
       PROVE  /\ Len(wbuf'[x]) <= Capacity
              /\ flight'[x] <= Len(wbuf'[x])
              /\ done'[x] <= flight'[x]
  <2>1. CASE x # c
    BY <1>4, <2>1 DEF TypeOKWriter
  <2>2. CASE x = c
    <3>1. flight[c] \in Nat /\ done[c] \in Nat /\ flight[c] <= Len(wbuf[c])
          /\ done[c] <= flight[c]
      BY DEF TypeOKWriter
    <3>2. done'[c] = done[c]
      BY <1>4
    <3>3. CASE wbuf[c] = <<>>
      <4>1. Len(wbuf[c]) = 0 /\ flight'[c] = Len(wbuf'[c])
        BY <1>4, <3>3 DEF TypeOKWriter
      <4> QED BY <1>2, <1>5, <1>7, <1>8, <2>2, <3>1, <3>2, <4>1
    <3>4. CASE wbuf[c] # <<>>
      <4>1. flight'[c] = flight[c]
        BY <1>4, <3>4 DEF TypeOKWriter
      <4> QED BY <1>2, <1>5, <1>7, <1>8, <2>2, <3>1, <3>2, <4>1
    <3> QED BY <3>3, <3>4
  <2> QED BY <2>1, <2>2
<1>12. done' \in [Conns -> Nat] /\ broken' \in [Conns -> BOOLEAN]
       /\ wire' \in [Conns -> Seq(Bytes)]
  BY <1>4 DEF TypeOKWriter
<1> QED BY <1>5, <1>6, <1>9, <1>10, <1>11, <1>12 DEF TypeOKWriter, fit

(* What is transferred is the beginning of the buffer. *)
LEMMA TransferTypes ==
    ASSUME TypeOKWriter, NEW c \in Conns, NEW n \in 1 .. Capacity, Transfer(c, n)
    PROVE  /\ TypeOKWriter'
           /\ n \in 1 .. Len(wbuf[c])
           /\ SubSeq(wbuf[c], 1, n) \in Seq(Bytes)
           /\ wire'[c] = wire[c] \o SubSeq(wbuf[c], 1, n)
<1>1. wbuf[c] \in Seq(Bytes) /\ wire[c] \in Seq(Bytes)
      /\ flight[c] \in Nat /\ flight[c] <= Len(wbuf[c]) /\ n \in 1 .. flight[c]
  BY DEF TypeOKWriter, Transfer
<1>2. n \in 1 .. Len(wbuf[c])
  BY <1>1, LenProperties
<1>3. \A i \in 1 .. n : wbuf[c][i] \in Bytes
  BY <1>1, <1>2, LenProperties
<1>4. SubSeq(wbuf[c], 1, n) \in Seq(Bytes)
  BY <1>2, <1>3, SubSeqProperties
<1>5. wire[c] \o SubSeq(wbuf[c], 1, n) \in Seq(Bytes)
  BY <1>1, <1>4, ConcatProperties
<1>6. /\ wire' = [wire EXCEPT ![c] = wire[c] \o SubSeq(wbuf[c], 1, n)]
      /\ done' = [done EXCEPT ![c] = n]
      /\ UNCHANGED <<wbuf, flight, broken, taken, writes>>
  BY DEF Transfer
<1>7. wire' \in [Conns -> Seq(Bytes)] /\ done' \in [Conns -> Nat]
      /\ wire'[c] = wire[c] \o SubSeq(wbuf[c], 1, n)
  BY <1>1, <1>5, <1>6 DEF TypeOKWriter
<1>8. \A x \in Conns : done'[x] <= flight'[x]
  BY <1>1, <1>6 DEF TypeOKWriter
<1> QED BY <1>2, <1>4, <1>6, <1>7, <1>8 DEF TypeOKWriter

(* handle_write takes out what was transferred and hands over the rest. *)
LEMMA HandleWriteTypes ==
    ASSUME TypeOKWriter, NEW c \in Conns, HandleWrite(c)
    PROVE  /\ TypeOKWriter'
           /\ wbuf'[c] = SubSeq(wbuf[c], done[c] + 1, Len(wbuf[c]))
           /\ wbuf'[c] \in Seq(Bytes)
<1>1. wbuf[c] \in Seq(Bytes) /\ done[c] \in 0 .. Len(wbuf[c])
      /\ Len(wbuf[c]) \in Nat /\ Len(wbuf[c]) <= Capacity /\ Capacity \in Nat
  BY LenProperties, WriterOK DEF TypeOKWriter
<1> DEFINE rest == SubSeq(wbuf[c], done[c] + 1, Len(wbuf[c]))
<1>2. rest \in Seq(Bytes) /\ Len(rest) = Len(wbuf[c]) - done[c]
  BY <1>1, TailFrom
<1> HIDE DEF rest
<1>3. /\ wbuf' = [wbuf EXCEPT ![c] = rest]
      /\ flight' = [flight EXCEPT ![c] = Len(wbuf'[c])]
      /\ done' = [done EXCEPT ![c] = 0]
      /\ UNCHANGED <<broken, wire, taken, writes>>
  BY DEF HandleWrite, EraseBegin, rest
<1>4. wbuf'[c] = rest /\ Len(rest) \in Nat
  BY <1>1, <1>2, <1>3 DEF TypeOKWriter
<1>5. /\ wbuf' \in [Conns -> Seq(Bytes)] /\ flight' \in [Conns -> Nat]
      /\ done' \in [Conns -> Nat]
  BY <1>2, <1>3, <1>4 DEF TypeOKWriter
<1>6. ASSUME NEW x \in Conns
      PROVE  /\ Len(wbuf'[x]) <= Capacity
             /\ flight'[x] <= Len(wbuf'[x])
             /\ done'[x] <= flight'[x]
  <2>1. CASE x # c
    BY <1>3, <2>1 DEF TypeOKWriter
  <2>2. CASE x = c
    <3>1. flight'[c] = Len(rest) /\ done'[c] = 0
      BY <1>3, <1>4 DEF TypeOKWriter
    <3> QED BY <1>1, <1>2, <1>4, <2>2, <3>1
  <2> QED BY <2>1, <2>2
<1> QED BY <1>2, <1>3, <1>4, <1>5, <1>6 DEF TypeOKWriter, rest

(* A failure changes no bytes. *)
LEMMA FailureTypes ==
    ASSUME TypeOKWriter, NEW c \in Conns, Break(c) \/ HandleWriteError(c)
    PROVE  TypeOKWriter'
<1>1. CASE Break(c)
  BY <1>1 DEF Break, TypeOKWriter
<1>2. CASE HandleWriteError(c)
  <2>1. /\ flight' = [flight EXCEPT ![c] = 0] /\ done[c] = 0
        /\ UNCHANGED <<wbuf, done, broken, wire, taken, writes>>
    BY <1>2 DEF HandleWriteError
  <2>2. flight' \in [Conns -> Nat]
    BY <2>1 DEF TypeOKWriter
  <2>3. \A x \in Conns : Len(wbuf[x]) \in Nat
    BY LenProperties DEF TypeOKWriter
  <2>4. \A x \in Conns : flight'[x] <= Len(wbuf'[x]) /\ done'[x] <= flight'[x]
    BY <2>1, <2>3 DEF TypeOKWriter
  <2> QED BY <2>1, <2>2, <2>4 DEF TypeOKWriter
<1> QED BY <1>1, <1>2

-----------------------------------------------------------------------------
(* Nothing that Write accepted is lost, doubled or overtaken. *)

(* Any step of the sending side. *)
WriterStep ==
    \E c \in Conns :
        \/ \E cmd \in Commands : Write(c, cmd)
        \/ \E n \in 1 .. Capacity : Transfer(c, n)
        \/ HandleWrite(c) \/ Break(c) \/ HandleWriteError(c)

LEMMA WriterTypes ==
    ASSUME TypeOKWriter, WriterStep \/ UNCHANGED writerVars
    PROVE  TypeOKWriter'
<1>1. CASE UNCHANGED writerVars
  BY <1>1 DEF writerVars, TypeOKWriter
<1>2. CASE WriterStep
  BY <1>2, WriteTypes, TransferTypes, HandleWriteTypes, FailureTypes
  DEF WriterStep
<1> QED BY <1>1, <1>2

(* Write appends the same bytes to what is accepted and to what waits. *)
LEMMA WriteInOrder ==
    ASSUME TypeOKWriter, SendsAllInOrder, NEW c \in Conns,
           NEW cmd \in Commands, Write(c, cmd)
    PROVE  SendsAllInOrder'
<1> DEFINE fit == Fitting(wbuf[c], cmd)
<1>1. /\ wbuf[c] \in Seq(Bytes) /\ wire[c] \in Seq(Bytes)
      /\ Len(wbuf[c]) \in Nat /\ Len(wbuf[c]) <= Capacity
      /\ done[c] \in 0 .. Len(wbuf[c])
  BY LenProperties DEF TypeOKWriter
<1>2. /\ fit \in Seq(Bytes)
      /\ Len(wbuf[c]) = 0 => Len(wbuf[c] \o fit) > 0
      /\ Len(wbuf[c] \o fit) \in Nat
      /\ wbuf[c] \o fit \in Seq(Bytes)
  BY <1>1, FittingFits, LenProperties
<1>3. SubSeq(wbuf[c], done[c] + 1, Len(wbuf[c])) \in Seq(Bytes)
  BY <1>1, TailFrom
<1>4. SubSeq(wbuf[c] \o fit, done[c] + 1, Len(wbuf[c] \o fit))
        = SubSeq(wbuf[c], done[c] + 1, Len(wbuf[c])) \o fit
  BY <1>1, <1>2, TailOfConcat
<1>5. wbuf'[c] = wbuf[c] \o fit /\ taken'[c] = taken[c] \o fit
  BY WriteTypes
<1>6. /\ flight' = [flight EXCEPT ![c] =
                      IF wbuf[c] = <<>> THEN Len(wbuf'[c]) ELSE @]
      /\ UNCHANGED <<done, broken, wire>>
      /\ \A x \in Conns \ {c} : wbuf'[x] = wbuf[x] /\ taken'[x] = taken[x]
  BY DEF Write, StartIfEmpty, TypeOKWriter
<1>7. taken[c] = wire[c] \o SubSeq(wbuf[c], done[c] + 1, Len(wbuf[c]))
  BY DEF SendsAllInOrder, InOrder
<1> HIDE DEF fit
<1>8. taken'[c] = wire'[c] \o SubSeq(wbuf'[c], done'[c] + 1, Len(wbuf'[c]))
  <2>1. done'[c] = done[c] /\ wire'[c] = wire[c]
    BY <1>6
  <2> DEFINE rest == SubSeq(wbuf[c], done[c] + 1, Len(wbuf[c]))
  <2> HIDE DEF rest
  <2>2. (wire[c] \o rest) \o fit = wire[c] \o (rest \o fit)
    <3>1. rest \in Seq(Bytes)
      BY <1>3 DEF rest
    <3> QED BY <1>1, <1>2, <3>1, BytesAssociative, Zenon
  <2>3. taken'[c] = (wire[c] \o rest) \o fit
    BY <1>5, <1>7, Zenon DEF rest
  <2>4. SubSeq(wbuf'[c], done'[c] + 1, Len(wbuf'[c])) = rest \o fit
    BY <1>4, <1>5, <2>1, Zenon DEF rest
  <2> QED BY <2>1, <2>2, <2>3, <2>4, Zenon
<1>9. wbuf'[c] # <<>> => flight'[c] > 0 \/ broken'[c]
  <2>1. CASE wbuf[c] = <<>>
    <3>1. Len(wbuf[c]) = 0 /\ flight'[c] = Len(wbuf'[c])
      BY <1>6, <2>1 DEF TypeOKWriter
    <3> QED BY <1>2, <1>5, <3>1
  <2>2. CASE wbuf[c] # <<>>
    <3>1. flight'[c] = flight[c]
      BY <1>6, <2>2 DEF TypeOKWriter
    <3> QED BY <1>6, <2>2, <3>1 DEF SendsAllInOrder, NeverIdle
  <2> QED BY <2>1, <2>2
<1>10. InOrder'
  BY <1>6, <1>8 DEF SendsAllInOrder, InOrder
<1>11. NeverIdle'
  BY <1>6, <1>9 DEF SendsAllInOrder, NeverIdle, TypeOKWriter
<1> QED BY <1>10, <1>11 DEF SendsAllInOrder

(* A transfer moves bytes from what waits to what has left. *)
LEMMA TransferInOrder ==
    ASSUME TypeOKWriter, SendsAllInOrder, NEW c \in Conns,
           NEW n \in 1 .. Capacity, Transfer(c, n)
    PROVE  SendsAllInOrder'
<1>1. /\ wbuf[c] \in Seq(Bytes) /\ wire[c] \in Seq(Bytes)
      /\ n \in 1 .. Len(wbuf[c]) /\ Len(wbuf[c]) \in Nat
      /\ SubSeq(wbuf[c], 1, n) \in Seq(Bytes)
      /\ wire'[c] = wire[c] \o SubSeq(wbuf[c], 1, n)
  BY TransferTypes, LenProperties DEF TypeOKWriter
<1>2. /\ done[c] = 0 /\ done' = [done EXCEPT ![c] = n]
      /\ UNCHANGED <<wbuf, flight, broken, taken>>
      /\ \A x \in Conns \ {c} : wire'[x] = wire[x]
  BY DEF Transfer, TypeOKWriter
<1>3. SubSeq(wbuf[c], n + 1, Len(wbuf[c])) \in Seq(Bytes)
  BY <1>1, TailFrom
<1>4. SubSeq(wbuf[c], 1, n) \o SubSeq(wbuf[c], n + 1, Len(wbuf[c])) = wbuf[c]
  <2>1. /\ 1 \in 1 .. Len(wbuf[c]) + 1 /\ n \in 0 .. Len(wbuf[c])
        /\ Len(wbuf[c]) \in n .. Len(wbuf[c])
    BY <1>1
  <2>2. SubSeq(wbuf[c], 1, n) \o SubSeq(wbuf[c], n + 1, Len(wbuf[c]))
          = SubSeq(wbuf[c], 1, Len(wbuf[c]))
    BY <1>1, <2>1, ConcatAdjacentSubSeq
  <2> QED BY <1>1, <2>2, SubSeqFull
<1>5. taken[c] = wire[c] \o wbuf[c]
  <2>1. taken[c] = wire[c] \o SubSeq(wbuf[c], done[c] + 1, Len(wbuf[c]))
    BY DEF SendsAllInOrder, InOrder
  <2>2. SubSeq(wbuf[c], 1, Len(wbuf[c])) = wbuf[c]
    BY <1>1, SubSeqFull
  <2>3. done[c] + 1 = 1
    BY <1>2
  <2>4. taken[c] = wire[c] \o SubSeq(wbuf[c], 1, Len(wbuf[c]))
    BY <2>1, <2>3, Zenon
  <2> QED BY <2>2, <2>4, Zenon
<1>6. taken'[c] = wire'[c] \o SubSeq(wbuf'[c], done'[c] + 1, Len(wbuf'[c]))
  <2>1. done'[c] = n /\ wbuf'[c] = wbuf[c] /\ taken'[c] = taken[c]
    BY <1>2 DEF TypeOKWriter
  <2>2. (wire[c] \o SubSeq(wbuf[c], 1, n)) \o SubSeq(wbuf[c], n + 1, Len(wbuf[c]))
          = wire[c] \o (SubSeq(wbuf[c], 1, n) \o SubSeq(wbuf[c], n + 1, Len(wbuf[c])))
    BY <1>1, <1>3, BytesAssociative, Zenon
  <2> QED BY <1>1, <1>4, <1>5, <2>1, <2>2, Zenon
<1>7. InOrder'
  BY <1>2, <1>6 DEF SendsAllInOrder, InOrder, TypeOKWriter
<1>8. NeverIdle'
  BY <1>2 DEF SendsAllInOrder, NeverIdle
<1> QED BY <1>7, <1>8 DEF SendsAllInOrder

(* What handle_write takes out has left already; the rest is handed over. *)
LEMMA HandleWriteInOrder ==
    ASSUME TypeOKWriter, SendsAllInOrder, NEW c \in Conns, HandleWrite(c)
    PROVE  SendsAllInOrder'
<1>1. /\ wbuf'[c] = SubSeq(wbuf[c], done[c] + 1, Len(wbuf[c]))
      /\ wbuf'[c] \in Seq(Bytes) /\ Len(wbuf'[c]) \in Nat
  BY HandleWriteTypes, LenProperties
<1>2. /\ flight' = [flight EXCEPT ![c] = Len(wbuf'[c])]
      /\ done' = [done EXCEPT ![c] = 0]
      /\ UNCHANGED <<broken, wire, taken>>
      /\ \A x \in Conns \ {c} : wbuf'[x] = wbuf[x]
  BY DEF HandleWrite, TypeOKWriter
<1>3. flight'[c] = Len(wbuf'[c]) /\ done'[c] = 0
  BY <1>2 DEF TypeOKWriter
<1>4. SubSeq(wbuf'[c], done'[c] + 1, Len(wbuf'[c])) = wbuf'[c]
  <2>1. SubSeq(wbuf'[c], 1, Len(wbuf'[c])) = wbuf'[c]
    BY <1>1, SubSeqFull
  <2> QED BY <1>3, <2>1
<1>5. taken'[c] = wire'[c] \o SubSeq(wbuf'[c], done'[c] + 1, Len(wbuf'[c]))
  BY <1>1, <1>2, <1>4 DEF SendsAllInOrder, InOrder
<1>6. wbuf'[c] # <<>> => flight'[c] > 0
  <2>1. Len(wbuf'[c]) = 0 => wbuf'[c] = <<>>
    BY <1>1
  <2> QED BY <1>1, <1>3, <2>1
<1>7. InOrder'
  BY <1>2, <1>5 DEF SendsAllInOrder, InOrder, TypeOKWriter
<1>8. NeverIdle'
  BY <1>2, <1>6 DEF SendsAllInOrder, NeverIdle, TypeOKWriter
<1> QED BY <1>7, <1>8 DEF SendsAllInOrder

(* A failed connection may keep bytes for ever, but in order. *)
LEMMA FailureInOrder ==
    ASSUME TypeOKWriter, SendsAllInOrder, NEW c \in Conns,
           Break(c) \/ HandleWriteError(c)
    PROVE  SendsAllInOrder'
<1>1. UNCHANGED <<wbuf, done, wire, taken>>
  BY DEF Break, HandleWriteError
<1>2. InOrder'
  BY <1>1 DEF SendsAllInOrder, InOrder
<1>3. NeverIdle'
  BY DEF SendsAllInOrder, NeverIdle, Break, HandleWriteError, TypeOKWriter
<1> QED BY <1>2, <1>3 DEF SendsAllInOrder

LEMMA WriterInOrder ==
    ASSUME TypeOKWriter, SendsAllInOrder, WriterStep \/ UNCHANGED writerVars
    PROVE  SendsAllInOrder'
<1>1. CASE UNCHANGED writerVars
  BY <1>1 DEF writerVars, SendsAllInOrder, NeverIdle, InOrder
<1>2. CASE WriterStep
  BY <1>2, WriteInOrder, TransferInOrder, HandleWriteInOrder, FailureInOrder
  DEF WriterStep
<1> QED BY <1>1, <1>2

-----------------------------------------------------------------------------
(* The threads. *)

(* The loop is over when Stop goes on to destroy the connections. *)
LoopJoined == stop \in {"destroy", "done"} => loop = "over"

IInv == TypeOK /\ SendsAllInOrder /\ LoopJoined

(* Every step is one of the sending side, or leaves it alone. *)
LEMMA StepsWrite ==
    ASSUME [Next]_vars
    PROVE  WriterStep \/ UNCHANGED writerVars
<1>1. CASE UNCHANGED vars
  BY <1>1 DEF vars
<1>2. CASE Receive \/ Handle \/ HandleDropping \/ Joined
  BY <1>2 DEF Receive, Handle, HandleDropping, Joined
<1>3. CASE Quit \/ JoinLoop \/ Stopped \/ RequestStop
  BY <1>3 DEF Quit, JoinLoop, Stopped, RequestStop
<1>4. ASSUME NEW c \in Conns,
             HandleRead(c) \/ PostMessage(c) \/ Destroy(c)
      PROVE  UNCHANGED writerVars
  BY <1>4 DEF HandleRead, PostMessage, Destroy
<1>5. ASSUME NEW c \in Conns, IoWrite(c) \/ Take(c) \/ Fail(c)
      PROVE  WriterStep
  BY <1>5 DEF IoWrite, Take, Fail, WriterStep
<1>6. ASSUME NEW c \in Conns, NEW cmd \in Commands,
             HandleWriting(c, cmd) \/ OtherWrite(c, cmd)
      PROVE  WriterStep
  BY <1>6 DEF HandleWriting, OtherWrite, WriterStep
<1> QED BY <1>1, <1>2, <1>3, <1>4, <1>5, <1>6 DEF Next, Threads

(* The state of the queue and the threads keeps its types. *)
LEMMA LoopTypes ==
    ASSUME TypeOK, [Next]_vars, TypeOKWriter'
    PROVE  TypeOK'
<1> DEFINE Msgs == Conns \cup {MSG_QUIT}
<1> USE DEF TypeOK
<1>0. QueueSize \in Nat /\ Len(queue) \in Nat
  BY QueueOK, LenProperties
<1>1. CASE UNCHANGED vars
  BY <1>1 DEF vars, loopVars
<1>2. CASE Receive
  <2>1. /\ Head(queue) \in Msgs /\ Tail(queue) \in Seq(Msgs)
        /\ Len(Tail(queue)) = Len(queue) - 1
    BY <1>2, HeadTailProperties DEF Receive
  <2> QED BY <1>0, <1>2, <2>1 DEF Receive
<1>3. CASE Handle
  BY <1>3 DEF Handle, Handled
<1>4. CASE HandleDropping
  BY <1>4 DEF HandleDropping
<1>5. CASE Joined
  BY <1>5 DEF Joined, Handled
<1>6. CASE RequestStop
  BY <1>6 DEF RequestStop
<1>7. CASE Quit
  <2>1. /\ <<MSG_QUIT>> \in Seq(Msgs) /\ Len(<<MSG_QUIT>>) = 1
        /\ queue \in Seq(Msgs)
    OBVIOUS
  <2>2. /\ SendMessage(MSG_QUIT) \in Seq(Msgs)
        /\ Len(SendMessage(MSG_QUIT)) = 1 + Len(queue)
    BY <2>1, ConcatProperties DEF SendMessage
  <2> QED BY <1>0, <1>7, <2>2 DEF Quit, Room
<1>8. CASE JoinLoop
  BY <1>8 DEF JoinLoop
<1>9. CASE Stopped
  BY <1>9 DEF Stopped
<1>10. ASSUME NEW c \in Conns, HandleRead(c) PROVE TypeOK'
  BY <1>10 DEF HandleRead
<1>11. ASSUME NEW c \in Conns, PostMessage(c) PROVE TypeOK'
  <2>1. Append(queue, c) \in Seq(Msgs) /\ Len(Append(queue, c)) = Len(queue) + 1
    OBVIOUS
  <2> QED BY <1>0, <1>11, <2>1 DEF PostMessage, Insert, Room
<1>12. ASSUME NEW c \in Conns, Destroy(c) PROVE TypeOK'
  BY <1>12 DEF Destroy
<1>13. ASSUME NEW c \in Conns, IoWrite(c) \/ Take(c) \/ Fail(c) PROVE TypeOK'
  BY <1>13 DEF IoWrite, Take, Fail, loopVars
<1>14. ASSUME NEW c \in Conns, NEW cmd \in Commands, HandleWriting(c, cmd)
       PROVE  TypeOK'
  BY <1>14 DEF HandleWriting, Handled
<1>15. ASSUME NEW c \in Conns, NEW cmd \in Commands, OtherWrite(c, cmd)
       PROVE  TypeOK'
  BY <1>15 DEF OtherWrite, loopVars
<1> QED
  BY <1>1, <1>2, <1>3, <1>4, <1>5, <1>6, <1>7, <1>8, <1>9, <1>10, <1>11,
     <1>12, <1>13, <1>14, <1>15 DEF Next, Threads

(* A loop that has been joined does not start again. *)
LEMMA LoopStays ==
    ASSUME TypeOK, LoopJoined, [Next]_vars
    PROVE  LoopJoined' /\ StoppedIsStopped
<1> USE DEF LoopJoined, StoppedIsStopped, loopVars
<1>1. CASE UNCHANGED vars
  BY <1>1 DEF vars
<1>2. CASE Receive \/ Handle \/ HandleDropping
  BY <1>2 DEF Receive, Handle, HandleDropping, Handled
<1>3. CASE Joined \/ Quit \/ RequestStop
  BY <1>3 DEF Joined, Quit, RequestStop, Handled
<1>4. CASE JoinLoop \/ Stopped
  BY <1>4 DEF JoinLoop, Stopped, LoopEnded
<1>5. ASSUME NEW c \in Conns,
             \/ HandleRead(c) \/ PostMessage(c) \/ Destroy(c)
             \/ IoWrite(c) \/ Take(c) \/ Fail(c)
      PROVE  LoopJoined' /\ StoppedIsStopped
  BY <1>5 DEF HandleRead, PostMessage, Destroy, IoWrite, Take, Fail
<1>6. ASSUME NEW c \in Conns, NEW cmd \in Commands,
             HandleWriting(c, cmd) \/ OtherWrite(c, cmd)
      PROVE  LoopJoined' /\ StoppedIsStopped
  BY <1>6 DEF HandleWriting, OtherWrite, Handled
<1> QED BY <1>1, <1>2, <1>3, <1>4, <1>5, <1>6 DEF Next, Threads

LEMMA InitIInv == Init => IInv
<1> SUFFICES ASSUME Init PROVE IInv
  OBVIOUS
<1> USE DEF Init, InitWriter
<1>1. /\ Capacity \in Nat /\ MaxWrites \in Nat /\ QueueSize \in Nat
      /\ <<>> \in Seq(Bytes) /\ Len(<<>>) = 0
  BY WriterOK, QueueOK
<1>2. TypeOK
  BY <1>1 DEF TypeOK, TypeOKWriter
<1>3. InOrder
  <2>1. SubSeq(<<>>, 0 + 1, 0) = <<>>
    BY SubSeqEmpty
  <2>2. <<>> \o <<>> = <<>>
    BY <1>1, ConcatEmptySeq
  <2> QED BY <1>1, <2>1, <2>2 DEF InOrder
<1>4. NeverIdle
  BY DEF NeverIdle
<1> QED BY <1>2, <1>3, <1>4 DEF IInv, SendsAllInOrder, LoopJoined

LEMMA NextIInv == IInv /\ [Next]_vars => IInv'
<1> SUFFICES ASSUME IInv, [Next]_vars PROVE IInv'
  OBVIOUS
<1>1. WriterStep \/ UNCHANGED writerVars
  BY StepsWrite
<1>2. TypeOKWriter' /\ SendsAllInOrder'
  BY <1>1, WriterTypes, WriterInOrder DEF IInv, TypeOK
<1> QED BY <1>2, LoopTypes, LoopStays DEF IInv

LEMMA Inductive == Spec => []IInv
BY InitIInv, NextIInv, PTL DEF Spec

(* TcpWriter, MessageQueue: the state keeps its types; a transfer is never
   longer than the buffer, and the queue never longer than its limit. *)
THEOREM ThreadsTypeCorrect == Spec => []TypeOK
<1>1. IInv => TypeOK
  BY DEF IInv
<1> QED BY <1>1, Inductive, PTL

(* TcpClient::Write and handle_write: the bytes that were accepted leave in
   their order, each once, whichever threads write and however the network
   cuts them; and no byte is left without a transfer unless the connection
   failed. *)
THEOREM BytesInOrder == Spec => []SendsAllInOrder
<1>1. IInv => SendsAllInOrder
  BY DEF IInv
<1> QED BY <1>1, Inductive, PTL

(* MessageQueue::Stop: when it has joined the loop, no handler runs any
   more. *)
THEOREM QuietAfterStop == Spec => NothingAfterStop
<1>1. IInv /\ [Next]_vars => [StoppedIsStopped]_vars
  BY LoopStays DEF IInv
<1> QED BY <1>1, Inductive, PTL DEF Spec, NothingAfterStop

-----------------------------------------------------------------------------
(* The sending side is a stream. *)

(* What fits of cmd behind buf are its first n bytes. *)
FitsUpTo(buf, cmd, n) ==
    /\ n <= Len(cmd) /\ Len(buf) + n <= Capacity
    /\ Fitting(buf, cmd) = SubSeq(cmd, 1, n)

(* Write accepts the beginning of a command, as long as what fits. *)
LEMMA FittingIsBeginning ==
    ASSUME NEW buf \in Seq(Bytes), Len(buf) <= Capacity, NEW cmd \in Commands
    PROVE  \E n \in 0 .. Capacity : FitsUpTo(buf, cmd, n)
<1>1. cmd \in Seq(Bytes) /\ Len(cmd) \in Nat \ {0} /\ Len(buf) \in Nat
      /\ Capacity \in Nat \ {0}
  BY WriterOK, CommandsOK
<1>2. CASE Len(buf) + Len(cmd) <= Capacity
  <2>1. SubSeq(cmd, 1, Len(cmd)) = cmd
    BY <1>1, SubSeqFull
  <2>2. Len(cmd) \in 0 .. Capacity
    BY <1>1, <1>2
  <2>3. FitsUpTo(buf, cmd, Len(cmd))
    BY <1>1, <1>2, <2>1 DEF Fitting, FitsUpTo
  <2> QED BY <2>2, <2>3
<1>3. CASE ~(Len(buf) + Len(cmd) <= Capacity)
  <2>1. Capacity - Len(buf) \in 0 .. Capacity
        /\ Capacity - Len(buf) <= Len(cmd)
        /\ Len(buf) + (Capacity - Len(buf)) <= Capacity
    BY <1>1, <1>3
  <2>2. FitsUpTo(buf, cmd, Capacity - Len(buf))
    BY <1>3, <2>1 DEF Fitting, FitsUpTo
  <2> QED BY <2>1, <2>2
<1> QED BY <1>2, <1>3

(* What waits is the end of the buffer that is not transferred yet. *)
LEMMA WaitingBytes ==
    ASSUME TypeOKWriter, NEW c \in Conns
    PROVE  /\ wbuf[c] \in Seq(Bytes) /\ done[c] \in 0 .. Len(wbuf[c])
           /\ Len(wbuf[c]) \in 0 .. Capacity
           /\ Waiting[c] = SubSeq(wbuf[c], done[c] + 1, Len(wbuf[c]))
           /\ Waiting[c] \in Seq(Bytes)
           /\ Len(Waiting[c]) = Len(wbuf[c]) - done[c]
           /\ done[c] = 0 => Waiting[c] = wbuf[c]
<1>1. /\ wbuf[c] \in Seq(Bytes) /\ Len(wbuf[c]) \in Nat
      /\ Len(wbuf[c]) <= Capacity /\ done[c] \in 0 .. Len(wbuf[c])
  BY LenProperties DEF TypeOKWriter
<1>2. Len(wbuf[c]) \in 0 .. Capacity
  BY <1>1, WriterOK
<1>3. Waiting[c] = SubSeq(wbuf[c], done[c] + 1, Len(wbuf[c]))
  BY DEF Waiting
<1>4. /\ SubSeq(wbuf[c], done[c] + 1, Len(wbuf[c])) \in Seq(Bytes)
      /\ Len(SubSeq(wbuf[c], done[c] + 1, Len(wbuf[c])))
           = Len(wbuf[c]) - done[c]
  BY <1>1, TailFrom
<1>5. SubSeq(wbuf[c], 1, Len(wbuf[c])) = wbuf[c]
  BY <1>1, SubSeqFull
<1>6. done[c] = 0 => Waiting[c] = wbuf[c]
  BY <1>3, <1>5
<1> QED BY <1>1, <1>2, <1>3, <1>4, <1>6

(* A step of one connection changes only what waits on that connection. *)
LEMMA WaitingElsewhere ==
    ASSUME NEW c \in Conns, NEW w,
           \A x \in Conns \ {c} : wbuf'[x] = wbuf[x] /\ done'[x] = done[x],
           Waiting'[c] = w
    PROVE  Waiting' = [Waiting EXCEPT ![c] = w]
BY DEF Waiting

(* Write is a Put, even while a transfer that waits for handle_write keeps
   bytes in the buffer. *)
LEMMA WritePuts ==
    ASSUME TypeOKWriter, NEW c \in Conns, NEW cmd \in Commands, Write(c, cmd)
    PROVE  \E n \in 0 .. Capacity : Stream!Put(c, cmd, n)
<1> DEFINE fit == Fitting(wbuf[c], cmd)
           old == Waiting[c]
<1>1. /\ wbuf[c] \in Seq(Bytes) /\ done[c] \in 0 .. Len(wbuf[c])
      /\ Len(wbuf[c]) \in 0 .. Capacity
      /\ old = SubSeq(wbuf[c], done[c] + 1, Len(wbuf[c]))
      /\ Len(old) = Len(wbuf[c]) - done[c]
  BY WaitingBytes
<1>2. fit \in Seq(Bytes)
  BY <1>1, FittingFits
<1>3. PICK n \in 0 .. Capacity : FitsUpTo(wbuf[c], cmd, n)
  BY <1>1, FittingIsBeginning
<1>4. SubSeq(wbuf[c] \o fit, done[c] + 1, Len(wbuf[c] \o fit))
        = SubSeq(wbuf[c], done[c] + 1, Len(wbuf[c])) \o fit
  BY <1>1, <1>2, TailOfConcat
<1>5. wbuf'[c] = wbuf[c] \o fit /\ done' = done
  BY WriteTypes DEF Write
<1>6. UNCHANGED <<wire, broken>>
      /\ \A x \in Conns \ {c} : wbuf'[x] = wbuf[x] /\ done'[x] = done[x]
  BY DEF Write, TypeOKWriter
<1>7. Waiting'[c] = SubSeq(wbuf'[c], done'[c] + 1, Len(wbuf'[c]))
  BY DEF Waiting
<1> HIDE DEF fit, old
<1>8. Waiting'[c] = old \o fit
  BY <1>1, <1>4, <1>5, <1>7
<1>9. Waiting' = [Waiting EXCEPT ![c] = old \o fit]
  BY <1>6, <1>8, WaitingElsewhere
<1>10. Waiting' = [Waiting EXCEPT ![c] = @ \o SubSeq(cmd, 1, n)]
  BY <1>3, <1>9 DEF old, fit, FitsUpTo
<1>11. n \in 0 .. Len(cmd) /\ Len(Waiting[c]) + n <= Capacity
  <2>1. Len(cmd) \in Nat /\ Capacity \in Nat
    BY CommandsOK, WriterOK, LenProperties
  <2> QED BY <1>1, <1>3, <2>1 DEF old, FitsUpTo
<1>12. Stream!Put(c, cmd, n)
  BY <1>6, <1>10, <1>11 DEF Stream!Put
<1> QED BY <1>12

(* A transfer is a Receive: none is under way, so the buffer is what waits,
   and its beginning leaves. *)
LEMMA TransferReceives ==
    ASSUME TypeOKWriter, NEW c \in Conns, NEW n \in 1 .. Capacity, Transfer(c, n)
    PROVE  Stream!Receive(c, n)
<1>1. done[c] = 0 /\ ~broken[c]
  BY DEF Transfer
<1>2. Waiting[c] = wbuf[c]
  BY <1>1, WaitingBytes
<1>3. n \in 1 .. Len(Waiting[c])
  BY <1>2, TransferTypes
<1>4. /\ UNCHANGED <<wbuf, broken>> /\ done'[c] = n
      /\ \A x \in Conns \ {c} : done'[x] = done[x]
      /\ wire' = [wire EXCEPT ![c] = @ \o SubSeq(wbuf[c], 1, n)]
  BY DEF Transfer, TypeOKWriter
<1>5. Waiting'[c] = SubSeq(wbuf'[c], done'[c] + 1, Len(wbuf'[c]))
  BY DEF Waiting
<1>6. Waiting'[c] = SubSeq(Waiting[c], n + 1, Len(Waiting[c]))
  BY <1>2, <1>4, <1>5
<1>7. Waiting'
        = [Waiting EXCEPT ![c] = SubSeq(Waiting[c], n + 1, Len(Waiting[c]))]
  BY <1>4, <1>6, WaitingElsewhere
<1> QED BY <1>1, <1>2, <1>3, <1>4, <1>7 DEF Stream!Receive

(* handle_write takes out of the buffer what no longer waits. *)
LEMMA HandleWriteStutters ==
    ASSUME TypeOKWriter, NEW c \in Conns, HandleWrite(c)
    PROVE  UNCHANGED <<Waiting, wire, broken>>
<1> DEFINE rest == SubSeq(wbuf[c], done[c] + 1, Len(wbuf[c]))
<1>1. wbuf'[c] = rest /\ rest \in Seq(Bytes)
  BY HandleWriteTypes
<1>2. Waiting[c] = rest
  BY WaitingBytes
<1> HIDE DEF rest
<1>3. /\ done'[c] = 0 /\ UNCHANGED <<wire, broken>>
      /\ \A x \in Conns \ {c} : wbuf'[x] = wbuf[x] /\ done'[x] = done[x]
  BY DEF HandleWrite, TypeOKWriter
<1>4. Waiting'[c] = SubSeq(rest, 0 + 1, Len(rest))
  BY <1>1, <1>3 DEF Waiting
<1>5. SubSeq(rest, 1, Len(rest)) = rest
  BY <1>1, SubSeqFull
<1>6. Waiting'[c] = Waiting[c]
  BY <1>2, <1>4, <1>5
<1>7. Waiting' = [Waiting EXCEPT ![c] = Waiting[c]]
  BY <1>3, <1>6, WaitingElsewhere
<1>8. Waiting' = Waiting
  BY <1>7 DEF Waiting
<1> QED BY <1>3, <1>8

LEMMA WriterStreams ==
    ASSUME TypeOKWriter, WriterStep \/ UNCHANGED writerVars
    PROVE  [Stream!Next]_<<Waiting, wire, broken>>
<1>1. CASE UNCHANGED writerVars
  BY <1>1 DEF writerVars, Waiting
<1>2. ASSUME NEW c \in Conns, NEW cmd \in Commands, Write(c, cmd)
      PROVE  Stream!Next
  BY <1>2, WritePuts DEF Stream!Next
<1>3. ASSUME NEW c \in Conns, NEW n \in 1 .. Capacity, Transfer(c, n)
      PROVE  Stream!Next
  BY <1>3, TransferReceives DEF Stream!Next
<1>4. ASSUME NEW c \in Conns, HandleWrite(c)
      PROVE  UNCHANGED <<Waiting, wire, broken>>
  BY <1>4, HandleWriteStutters
<1>5. ASSUME NEW c \in Conns, Break(c)
      PROVE  Stream!Next
  <2>1. Stream!Fail(c)
    BY <1>5 DEF Break, Stream!Fail, Waiting
  <2> QED BY <2>1 DEF Stream!Next
<1>6. ASSUME NEW c \in Conns, HandleWriteError(c)
      PROVE  UNCHANGED <<Waiting, wire, broken>>
  BY <1>6 DEF HandleWriteError, Waiting
<1> QED BY <1>1, <1>2, <1>3, <1>4, <1>5, <1>6 DEF WriterStep

(* TcpClient::Write, start_write and handle_write implement a stream of
   bytes: from every command a beginning is accepted, the accepted bytes
   leave in order, and none does once the connection failed. *)
THEOREM WritesStream == Spec => StreamSpec
<1>1. Init => Stream!Init
  <2> SUFFICES ASSUME Init PROVE Stream!Init
    OBVIOUS
  <2>1. <<>> \in Seq(Bytes) /\ Len(<<>>) = 0 /\ SubSeq(<<>>, 0 + 1, 0) = <<>>
    BY SubSeqEmpty
  <2>2. wbuf = [c \in Conns |-> <<>>] /\ done = [c \in Conns |-> 0]
    BY DEF Init, InitWriter
  <2>3. \A c \in Conns : Waiting[c] = <<>>
    BY <2>1, <2>2 DEF Waiting
  <2>4. Waiting = [c \in Conns |-> <<>>]
    BY <2>3 DEF Waiting
  <2> QED BY <2>4 DEF Init, InitWriter, Stream!Init
<1>2. TypeOK /\ [Next]_vars => [Stream!Next]_<<Waiting, wire, broken>>
  BY StepsWrite, WriterStreams DEF TypeOK
<1>3. Stream!streamVars = <<Waiting, wire, broken>>
  BY DEF Stream!streamVars
<1> QED
  BY <1>1, <1>2, <1>3, ThreadsTypeCorrect, PTL
     DEF Spec, StreamSpec, Stream!Spec, Stream!streamVars

=============================================================================
