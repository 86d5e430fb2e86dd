------------------------ MODULE ResendBuffer_proofs ------------------------
(***************************************************************************)
(* Theorems about ResendBuffer, for every number of commands, devices that *)
(* answer late, twice or never, and every limit of the serial numbers.     *)
(***************************************************************************)
EXTENDS ResendBuffer, TLAPS

-----------------------------------------------------------------------------
(* Types. *)

(* The next number is a number. *)
LEMMA NextSernoType ==
    ASSUME serno \in 1 .. SernoLimit - 1
    PROVE  NextSerno(serno) \in 1 .. SernoLimit - 1
BY ResendOK DEF NextSerno

(* NoItem is an item. *)
LEMMA NoItemType == NoItem \in Items
BY ResendOK DEF NoItem, Items, Devices, Threads

(* Counting a retry leaves an item an item. *)
LEMMA AgainType ==
    ASSUME NEW i \in Items
    PROVE  /\ Again(i) \in Items
           /\ Tag(Again(i)) = Tag(i)
           /\ Again(i).dev = i.dev /\ Again(i).by = i.by
           /\ Again(i).place = i.place /\ Again(i).retry = i.retry + 1
BY DEF Again, Items, Tag

(* Whatever an erasing thread leaves in the buffer was in it. *)
LEMMA PopSernoErases ==
    ASSUME NEW n, PopSerno(n)
    PROVE  /\ buff' \subseteq buff
           /\ torn \in BOOLEAN /\ raced \in BOOLEAN
                => torn' \in BOOLEAN /\ raced' \in BOOLEAN
BY DEF PopSerno, Erase

(* Sending keeps the types. *)
LEMMA SendTypes ==
    ASSUME TypeOK, SendStep
    PROVE  TypeOK'
<1> USE DEF TypeOK, Threads, Devices, buffVars, deviceVars, trVars
<1>1. CASE Arm
  BY <1>1 DEF Arm
<1>2. ASSUME NEW t \in Threads, NEW d \in Devices, Build(t, d)
      PROVE TypeOK'
  <2>1. [id |-> issued + 1, sn |-> serno, dev |-> d, by |-> t,
         place |-> 0, retry |-> 0] \in Items
    BY DEF Items
  <2>2. item' \in [Threads -> Items]
    BY <1>2, <2>1 DEF Build
  <2>3. serno' \in 1 .. SernoLimit - 1
    BY <1>2, NextSernoType DEF Build
  <2> QED BY <1>2, <2>2, <2>3 DEF Build
<1>3. ASSUME NEW t \in Threads, Push(t) PROVE TypeOK'
  <2>1. [item[t] EXCEPT !.place = pushed + 1] \in Items
    BY DEF Items
  <2> QED BY <1>3, <2>1 DEF Push
<1>4. ASSUME NEW t \in Threads, Write(t) PROVE TypeOK'
  <2>1. Tag(item[t]) \in Tags
    BY DEF Tag, Tags, Items
  <2> QED BY <1>4, <2>1 DEF Write
<1> QED BY <1>1, <1>2, <1>3, <1>4 DEF SendStep

(* Devices that come, go and answer keep the types. *)
LEMMA DeviceTypes ==
    ASSUME TypeOK, DeviceStep
    PROVE  TypeOK'
<1> USE DEF TypeOK, sendVars, buffVars, trVars
<1>0. /\ \A d \in Devices : MeantFor(d, buff) \subseteq Nat
      /\ \A d \in Devices : buff' \subseteq buff => MeantFor(d, buff') \subseteq Nat
  BY DEF MeantFor, Sending, Items
<1>1. ASSUME NEW d \in Devices, Couple(d) PROVE TypeOK'
  BY <1>0, <1>1 DEF Couple
<1>2. ASSUME NEW d \in Devices, Decouple(d) PROVE TypeOK'
  <2>1. /\ buff' \subseteq buff
        /\ UNCHANGED <<sendVars, pushed, held, swapped, tr, ref, dev, garbled, up>>
    BY <1>2 DEF Decouple, Erase, Clear
  <2>2. strays' \subseteq Nat
    BY <1>0, <1>2, <2>1 DEF Decouple
  <2> QED BY <1>2, <2>1, <2>2 DEF Decouple, Erase
<1>3. ASSUME NEW h \in held, NotifyResponse(h) PROVE TypeOK'
  BY <1>3, PopSernoErases DEF NotifyResponse, deviceVars
<1> QED BY <1>1, <1>2, <1>3 DEF DeviceStep

(* thread_rewrite keeps the types. *)
LEMMA RewriteTypes ==
    ASSUME TypeOK, RewriteStep
    PROVE  TypeOK'
<1> USE DEF TypeOK, sendVars, buffVars, deviceVars
<1>1. CASE Timeout
  BY <1>1 DEF Timeout
<1>2. CASE TakeFront
  BY <1>2, AgainType DEF TakeFront, First
<1>3. CASE PopExpired
  BY <1>3 DEF PopExpired, PopFront
<1>4. CASE TestDevice
  BY <1>4 DEF TestDevice
<1>5. CASE WriteAgain
  <2>1. Tag(ref) \in Tags
    BY DEF Tag, Tags, Items
  <2>2. up' \in BOOLEAN /\ garbled' \in BOOLEAN
    BY <1>5 DEF WriteAgain
  <2>3. held' \subseteq Tags
    BY <1>5, <2>1 DEF WriteAgain
  <2> QED BY <1>5, <2>2, <2>3 DEF WriteAgain
<1> QED BY <1>1, <1>2, <1>3, <1>4, <1>5 DEF RewriteStep

(* The server starts within its types, each time. *)
LEMMA InitTypes == Init => TypeOK
<1> SUFFICES ASSUME Init PROVE TypeOK
  OBVIOUS
<1> USE DEF Init, TypeOK
<1>1. serno \in 1 .. SernoLimit - 1 /\ ref \in Items
  BY ResendOK, NoItemType
<1>2. item \in [Threads -> Items]
  BY NoItemType
<1>3. online \in [Devices -> BOOLEAN] /\ dev \in Devices
  BY DEF Devices
<1> QED BY <1>1, <1>2, <1>3

(* The process that starts again has the types of the first one. *)
LEMMA RestartTypes == TypeOK /\ Restart => TypeOK'
<1> SUFFICES ASSUME TypeOK, Restart PROVE TypeOK'
  OBVIOUS
<1> USE DEF Restart, TypeOK
<1>1. serno' \in 1 .. SernoLimit - 1 /\ ref' \in Items
  BY ResendOK, NoItemType
<1>2. item' \in [Threads -> Items]
  BY NoItemType
<1>3. online' \in [Devices -> BOOLEAN] /\ dev' \in Devices
  BY DEF Devices
<1> QED BY <1>1, <1>2, <1>3

(* Every step keeps the types. *)
LEMMA NextTypes == TypeOK /\ [Next]_vars => TypeOK'
<1>1. ASSUME TypeOK, UNCHANGED vars PROVE TypeOK'
  BY <1>1 DEF TypeOK, vars, sendVars, buffVars, deviceVars, trVars
<1> QED BY <1>1, SendTypes, DeviceTypes, RewriteTypes, RestartTypes DEF Next

(* The state keeps its types; serial numbers stay within their limit. *)
THEOREM ResendTypeCorrect == Spec => []TypeOK
BY InitTypes, NextTypes, PTL DEF Spec

-----------------------------------------------------------------------------
(* Serial numbers. *)

(* A step other than Build and Restart gives out no number: every command still
   known was known before. *)
KnownKept ==
    /\ Known' \subseteq Known /\ serno' = serno /\ issued' = issued
    /\ since' = since

(* A command keeps its number from its text to the buffer to the device. *)
LEMMA SendKnown ==
    ASSUME TypeOK, NEW t \in Threads, Push(t) \/ Write(t)
    PROVE  KnownKept
<1> USE DEF TypeOK, KnownKept, buffVars, deviceVars
<1> DEFINE placed == [item[t] EXCEPT !.place = pushed + 1]
<1>1. item[t] \in Items
  OBVIOUS
<1>2. Tag(placed) = Tag(item[t])
  BY <1>1 DEF Tag, Items
<1>3. phase[t] \in {"push", "write"} /\ item' = item
  BY DEF Push, Write
<1>4. Tag(item[t]) \in Known
  BY <1>3 DEF Known, Sending
<1>5. Sending' \subseteq Sending
  BY <1>3 DEF Push, Write, Sending
<1>6. CASE Push(t)
  <2>1. buff' = buff \cup {placed} /\ held' = held
    BY <1>6 DEF Push
  <2> QED BY <1>2, <1>4, <1>5, <1>6, <2>1 DEF Known, Push, Tag
<1>7. CASE Write(t)
  <2>1. buff' = buff /\ held' \subseteq held \cup {Tag(item[t])}
    BY <1>7 DEF Write
  <2> QED BY <1>4, <1>5, <1>7, <2>1 DEF Known, Write, Tag
<1> QED BY <1>6, <1>7

(* Devices only erase, and thread_rewrite only counts, erases and repeats. *)
LEMMA OtherKnown ==
    ASSUME TypeOK, RefWaiting, Arm \/ DeviceStep \/ RewriteStep \/ UNCHANGED vars
    PROVE  KnownKept
<1> USE DEF KnownKept, sendVars, buffVars, deviceVars, trVars
<1>1. ASSUME buff' \subseteq buff, UNCHANGED <<serno, issued, since, phase, item, held>>
      PROVE  KnownKept
  BY <1>1 DEF Known, Sending, Tag
<1>2. CASE Arm
  <2>1. Sending' \subseteq Sending /\ UNCHANGED <<serno, issued, since, buff, held>>
    BY <1>2 DEF Arm, Sending, TypeOK, Threads
  <2> QED BY <2>1 DEF Known, Tag
<1>3. ASSUME NEW d \in Devices, Couple(d) \/ Decouple(d) PROVE KnownKept
  BY <1>1, <1>3 DEF Couple, Decouple, Erase, Clear
<1>4. ASSUME NEW h \in held, NotifyResponse(h) PROVE KnownKept
  BY <1>1, <1>4, PopSernoErases DEF NotifyResponse
<1>5. CASE Timeout \/ PopExpired \/ TestDevice \/ UNCHANGED vars
  BY <1>1, <1>5 DEF Timeout, PopExpired, PopFront, TestDevice, vars
<1>6. CASE TakeFront
  <2>1. CASE buff' = buff
    BY <1>1, <1>6, <2>1 DEF TakeFront
  <2>2. ASSUME NEW i \in buff, buff' = (buff \ {i}) \cup {Again(i)}
        PROVE  KnownKept
    <3>1. Tag(Again(i)) = Tag(i)
      BY AgainType DEF TypeOK
    <3>2. {Tag(j) : j \in buff'} \subseteq {Tag(j) : j \in buff}
      BY <2>2, <3>1
    <3>3. UNCHANGED <<serno, issued, since, phase, item, held>>
      BY <1>6 DEF TakeFront
    <3> QED BY <3>2, <3>3 DEF Known, Sending, Tag
  <2> QED BY <1>6, <2>1, <2>2 DEF TakeFront
<1>7. CASE WriteAgain
  <2>1. Tag(ref) \in Known \/ torn
    BY <1>7 DEF WriteAgain, RefWaiting, Known
  <2>2. /\ held' \subseteq held \cup {Tag(ref)} /\ (torn => held' = held)
        /\ UNCHANGED <<serno, issued, since, phase, item, buff>>
    BY <1>7 DEF WriteAgain
  <2> QED BY <2>1, <2>2 DEF Known, Sending, Tag
<1> QED
  BY <1>2, <1>3, <1>4, <1>5, <1>6, <1>7 DEF DeviceStep, RewriteStep

(* The number of a new command against those still known. *)
LEMMA BuildKnown ==
    ASSUME TypeOK, NEW t \in Threads, NEW d \in Devices, Build(t, d)
    PROVE  /\ Known' \subseteq Known \cup {[id |-> issued + 1, sn |-> serno]}
           /\ issued' = issued + 1 /\ serno' = NextSerno(serno)
           /\ since' = since
<1>1. Sending' \subseteq Sending \cup {item'[t]}
  BY DEF Build, Sending, TypeOK, Threads
<1>2. Tag(item'[t]) = [id |-> issued + 1, sn |-> serno]
  BY DEF Build, Tag, TypeOK
<1>3. buff' = buff /\ held' = held
  BY DEF Build, buffVars, deviceVars
<1> QED BY <1>1, <1>2, <1>3 DEF Known, Build, Tag

(* What is known is tagged with a number within the limit. *)
LEMMA KnownType ==
    ASSUME TypeOK
    PROVE  Known \subseteq Tags
BY DEF TypeOK, Known, Sending, Tag, Tags, Items

NumbersInv == TypeOK /\ RefWaiting /\ SernoFollows /\ NumbersApart

(* While no number is given out, nothing changes between those known. *)
LEMMA NumbersKept ==
    ASSUME SernoFollows, NumbersApart, KnownKept
    PROVE  SernoFollows' /\ NumbersApart'
BY DEF SernoFollows, NumbersApart, KnownKept

(* A new number differs from all that were given out since it was last. *)
LEMMA NumbersBuild ==
    ASSUME NumbersInv, NEW t \in Threads, NEW d \in Devices, Build(t, d)
    PROVE  SernoFollows' /\ NumbersApart'
<1> DEFINE new == [id |-> issued + 1, sn |-> serno]
<1>1. /\ Known' \subseteq Known \cup {new}
      /\ issued' = issued + 1 /\ serno' = NextSerno(serno) /\ since' = since
  BY BuildKnown DEF NumbersInv
<1>2. /\ Known \subseteq Tags /\ SernoLimit \in Nat /\ SernoLimit > 1
      /\ issued \in Nat /\ serno \in 1 .. SernoLimit - 1
  BY KnownType, ResendOK DEF NumbersInv, TypeOK
<1>3. ASSUME NEW a \in Known
      PROVE  /\ a.id \in Nat /\ a.sn \in 1 .. SernoLimit - 1 /\ a.id <= issued
             /\ since < a.id /\ issued + 1 - a.id < SernoLimit
                  => \/ serno = a.sn + (issued + 1 - a.id)
                     \/ serno = a.sn + (issued + 1 - a.id) - (SernoLimit - 1)
  BY <1>2 DEF NumbersInv, SernoFollows, Tags
<1>4. SernoFollows'
  <2> SUFFICES ASSUME NEW a \in Known'
               PROVE  /\ a.id <= issued'
                      /\ since' < a.id /\ issued' + 1 - a.id < SernoLimit
                           => \/ serno' = a.sn + (issued' + 1 - a.id)
                              \/ serno' = a.sn + (issued' + 1 - a.id) - (SernoLimit - 1)
    BY DEF SernoFollows
  <2>1. CASE a = new
    BY <1>1, <1>2, <2>1 DEF NextSerno
  <2>2. CASE a \in Known
    BY <1>1, <1>2, <1>3, <2>2 DEF NextSerno
  <2> QED BY <1>1, <2>1, <2>2
<1>5. NumbersApart'
  <2> SUFFICES ASSUME NEW a \in Known', NEW b \in Known',
                      since < a.id, a.id < b.id, a.sn = b.sn
               PROVE  b.id - a.id >= SernoLimit - 1
    BY <1>1 DEF NumbersApart
  <2>1. CASE a \in Known /\ b \in Known
    BY <2>1 DEF NumbersInv, NumbersApart
  <2>2. CASE a \in Known /\ b = new
    BY <1>2, <1>3, <2>2
  <2>3. CASE a = new
    BY <1>1, <1>2, <1>3, <2>3
  <2> QED BY <1>1, <2>1, <2>2, <2>3
<1> QED BY <1>4, <1>5

(* The item of thread_rewrite stays in the buffer until it is torn. *)
LEMMA RefInductive ==
    ASSUME TypeOK, RefWaiting, up /\ (SendStep \/ DeviceStep \/ RewriteStep)
    PROVE  RefWaiting'
<1> USE DEF RefWaiting, Tag, sendVars, buffVars, deviceVars, trVars
<1>1. CASE SendStep
  BY <1>1 DEF SendStep, Arm, Build, Push, Write
<1>2. ASSUME NEW d \in Devices, Couple(d) PROVE RefWaiting'
  BY <1>2 DEF Couple
<1>3. ASSUME NEW d \in Devices, Decouple(d) PROVE RefWaiting'
  BY <1>3 DEF Decouple, Erase
<1>4. ASSUME NEW h \in held, NotifyResponse(h) PROVE RefWaiting'
  BY <1>4 DEF NotifyResponse, PopSerno, Erase
<1>5. CASE Timeout \/ PopExpired \/ TestDevice \/ WriteAgain
  BY <1>5 DEF Timeout, PopExpired, TestDevice, WriteAgain
<1>6. CASE TakeFront
  BY <1>6 DEF TakeFront
<1> QED BY <1>1, <1>2, <1>3, <1>4, <1>5, <1>6 DEF DeviceStep, RewriteStep

(* Every step keeps the numbers apart. *)
LEMMA NumbersInductive == NumbersInv /\ [Next]_vars => NumbersInv'
<1> SUFFICES ASSUME NumbersInv, [Next]_vars PROVE NumbersInv'
  OBVIOUS
<1> USE DEF NumbersInv
<1>1. TypeOK'
  BY NextTypes
<1>2. CASE Restart
  <2>1. Known' \subseteq Known /\ since' = issued /\ issued' = issued
    BY <1>2 DEF Restart, Known, Sending
  <2>2. \A a \in Known' : a.id \in Nat /\ a.id <= issued
    BY <2>1, KnownType DEF SernoFollows, Tags
  <2>3. issued \in Nat /\ tr' = "wait"
    BY <1>2 DEF Restart, TypeOK
  <2> QED BY <1>1, <2>1, <2>2, <2>3 DEF RefWaiting, SernoFollows, NumbersApart
<1>3. CASE up /\ (SendStep \/ DeviceStep \/ RewriteStep)
  <2>1. RefWaiting'
    BY <1>3, RefInductive
  <2>2. SernoFollows' /\ NumbersApart'
    BY <1>3, NumbersBuild, NumbersKept, SendKnown, OtherKnown DEF SendStep
  <2> QED BY <1>1, <2>1, <2>2
<1>4. CASE UNCHANGED vars
  <2>1. KnownKept
    BY <1>4, OtherKnown
  <2>2. RefWaiting'
    BY <1>4 DEF vars, trVars, buffVars, RefWaiting, Tag
  <2> QED BY <1>1, <2>1, <2>2, NumbersKept
<1> QED BY <1>2, <1>3, <1>4 DEF Next

(* Two commands that may still be answered have the same number only if all
   other numbers were given out in between. *)
THEOREM AnswersUnambiguous == Spec => []NumbersApart
<1>1. Init => NumbersInv
  <2> SUFFICES ASSUME Init PROVE NumbersInv
    OBVIOUS
  <2>1. Known = {}
    BY DEF Init, Known, Sending
  <2> QED BY <2>1, InitTypes DEF Init, NumbersInv, RefWaiting, SernoFollows, NumbersApart
<1>2. NumbersInv => NumbersApart
  BY DEF NumbersInv
<1> QED BY <1>1, <1>2, NumbersInductive, PTL DEF Spec

-----------------------------------------------------------------------------
(* Devices that are gone. *)

(* What a handler of GC is sending is meant for the coupled connection: GC does
   not couple and decouple before it is done. *)
GcSendsToCoupled == phase["gc"] \in {"push", "write"} => item["gc"].id \notin strays

(* Ids are given out once: a new one is not yet in the buffer, nor a stray. *)
IdsApart ==
    /\ \A i \in buff \cup Sending : i.id <= issued
    /\ \A n \in strays \cup swapped : n <= issued
    /\ \A i, j \in buff \cup Sending : i.id = j.id => i.by = j.by

StaleInv ==
    TypeOK /\ SenderConnected /\ GcSendsToCoupled /\ IdsApart /\ StaleOnlyFromObsplan

(* Steps that send nothing new, and leave no stray, keep all of it. *)
LEMMA StaleFrame ==
    ASSUME StaleInv, UNCHANGED <<issued, online, strays, swapped, phase, item>>,
           \A i \in buff' : \E j \in buff : i.id = j.id /\ i.by = j.by /\ i.dev = j.dev
    PROVE  SenderConnected' /\ GcSendsToCoupled' /\ IdsApart' /\ StaleOnlyFromObsplan'
<1>1. Sending' = Sending
  BY DEF Sending
<1>2. SenderConnected' /\ GcSendsToCoupled'
  BY DEF StaleInv, SenderConnected, GcSendsToCoupled
<1>3. \A i \in (buff \cup Sending)' :
          \E j \in buff \cup Sending : i.id = j.id /\ i.by = j.by
  BY <1>1
<1>4. IdsApart'
  BY <1>3 DEF StaleInv, IdsApart
<1>5. StaleOnlyFromObsplan'
  BY DEF StaleInv, StaleOnlyFromObsplan
<1> QED BY <1>2, <1>4, <1>5

(* A command is built for the coupled connection, or by thread_obsplan. *)
LEMMA StaleSend ==
    ASSUME StaleInv, NEW t \in Threads,
           \/ Arm \/ \E d \in Devices : Build(t, d)
           \/ Push(t) \/ Write(t)
    PROVE  SenderConnected' /\ GcSendsToCoupled' /\ IdsApart' /\ StaleOnlyFromObsplan'
<1> USE DEF StaleInv, SenderConnected, GcSendsToCoupled, TypeOK,
            sendVars, buffVars, deviceVars, trVars
<1>1. CASE Arm
  <2>1. Sending' = Sending
    BY <1>1 DEF Arm, Sending, Threads
  <2>2. UNCHANGED <<buff, issued, online, strays, swapped, item>>
    BY <1>1 DEF Arm
  <2>3. IdsApart' /\ StaleOnlyFromObsplan'
    BY <2>1, <2>2 DEF IdsApart, StaleOnlyFromObsplan
  <2>4. SenderConnected' /\ GcSendsToCoupled'
    BY <1>1 DEF Arm, Threads
  <2> QED BY <2>3, <2>4
<1>2. ASSUME NEW d \in Devices, Build(t, d)
      PROVE SenderConnected' /\ GcSendsToCoupled' /\ IdsApart' /\ StaleOnlyFromObsplan'
  <2>1. /\ item'[t].id = issued + 1 /\ item'[t].by = t /\ item'[t].dev = d
        /\ \A u \in Threads : u # t => item'[u] = item[u] /\ phase'[u] = phase[u]
        /\ phase'[t] = "push" /\ issued' = issued + 1
        /\ UNCHANGED <<buff, online, strays, swapped>>
    BY <1>2 DEF Build
  <2>2. Sending' \subseteq Sending \cup {item'[t]}
    BY <2>1 DEF Sending
  <2>3. \A i \in buff \cup Sending : i.id \in Nat /\ i.id <= issued
    BY DEF IdsApart, Sending, Items
  <2>4. \A n \in strays \cup swapped : n \in Nat /\ n <= issued
    BY DEF IdsApart
  <2>5. IdsApart'
    <3>1. \A i \in (buff \cup Sending)' : i \in buff \cup Sending \/ i = item'[t]
      BY <2>1, <2>2
    <3>2. \A i \in (buff \cup Sending)' : i.id <= issued'
      BY <2>1, <2>3, <3>1
    <3>3. \A n \in (strays \cup swapped)' : n <= issued'
      BY <2>1, <2>4
    <3>4. ASSUME NEW i \in (buff \cup Sending)', NEW j \in (buff \cup Sending)',
                 i.id = j.id
          PROVE  i.by = j.by
      BY <2>1, <2>3, <3>1, <3>4 DEF IdsApart
    <3> QED BY <3>2, <3>3, <3>4 DEF IdsApart
  <2>6. GcSendsToCoupled'
    BY <2>1, <2>4 DEF Threads
  <2>7. SenderConnected'
    BY <1>2, <2>1 DEF Build, Threads
  <2>8. StaleOnlyFromObsplan'
    BY <2>1 DEF StaleOnlyFromObsplan
  <2> QED BY <2>5, <2>6, <2>7, <2>8
<1>3. CASE Push(t)
  <2> DEFINE placed == [item[t] EXCEPT !.place = pushed + 1]
  <2>1. /\ placed.dev = item[t].dev /\ placed.by = item[t].by
        /\ placed.id = item[t].id /\ item[t] \in Sending
    BY <1>3 DEF Items, Push, Sending
  <2>2. /\ buff' = buff \cup {placed} /\ Sending' = Sending
        /\ UNCHANGED <<online, issued, strays, swapped, item>>
    BY <1>3 DEF Push, Sending
  <2> HIDE DEF placed
  <2>3. IdsApart'
    <3>1. \A i \in (buff \cup Sending)' : \E j \in buff \cup Sending :
                i.id = j.id /\ i.by = j.by
      BY <2>1, <2>2
    <3> QED BY <2>2, <3>1 DEF IdsApart
  <2>4. SenderConnected' /\ GcSendsToCoupled'
    BY <1>3 DEF Push, Threads
  <2>5. /\ ~online[placed.dev] => placed.by = "op"
        /\ placed.id \in strays => placed.by = "op"
    BY <1>3, <2>1 DEF Push, Threads
  <2>6. StaleOnlyFromObsplan'
    BY <2>2, <2>5 DEF StaleOnlyFromObsplan
  <2> QED BY <2>3, <2>4, <2>6
<1>4. CASE Write(t)
  <2>1. Sending' \subseteq Sending
    BY <1>4 DEF Write, Sending
  <2>2. UNCHANGED <<buff, issued, online, strays, swapped, item>>
    BY <1>4 DEF Write
  <2>3. IdsApart' /\ StaleOnlyFromObsplan'
    BY <2>1, <2>2 DEF IdsApart, StaleOnlyFromObsplan
  <2>4. SenderConnected' /\ GcSendsToCoupled'
    BY <1>4 DEF Write, Threads
  <2> QED BY <2>3, <2>4
<1> QED BY <1>1, <1>2, <1>3, <1>4

(* A connection that comes makes strays only of what it replaces. *)
LEMMA StaleCouple ==
    ASSUME StaleInv, NEW d \in Devices, Couple(d)
    PROVE  SenderConnected' /\ GcSendsToCoupled' /\ IdsApart' /\ StaleOnlyFromObsplan'
<1> USE DEF StaleInv, SenderConnected, GcSendsToCoupled, TypeOK, sendVars, buffVars
<1>1. /\ phase["gc"] = "idle" /\ online' = [online EXCEPT ![d] = TRUE]
      /\ swapped \subseteq swapped' /\ strays' = strays \cup swapped'
      /\ swapped' \subseteq swapped \cup MeantFor(d, buff)
      /\ UNCHANGED <<buff, issued, phase, item>>
  BY DEF Couple
<1>2. Sending' = Sending
  BY <1>1 DEF Sending
<1>3. IdsApart'
  BY <1>1, <1>2 DEF IdsApart, MeantFor
<1>4. SenderConnected' /\ GcSendsToCoupled'
  BY <1>1 DEF Threads
<1>5. StaleOnlyFromObsplan'
  BY <1>1 DEF StaleOnlyFromObsplan, Items
<1> QED BY <1>3, <1>4, <1>5

(* When a connection is decoupled only thread_obsplan is sending over it. *)
LEMMA StaleDecouple ==
    ASSUME StaleInv, NEW d \in Devices, Decouple(d)
    PROVE  SenderConnected' /\ GcSendsToCoupled' /\ IdsApart' /\ StaleOnlyFromObsplan'
<1> USE DEF StaleInv, SenderConnected, GcSendsToCoupled, TypeOK, sendVars
<1>1. /\ phase["gc"] = "idle" /\ online' = [online EXCEPT ![d] = FALSE]
      /\ buff' = Clear(d) /\ strays' = strays \cup MeantFor(d, buff')
      /\ UNCHANGED <<issued, phase, item, swapped>>
  BY DEF Decouple, Erase
<1>2. /\ Sending' = Sending /\ buff' \subseteq buff
      /\ \A i \in buff' : i.dev # d
  BY <1>1 DEF Sending, Clear
<1>3. IdsApart'
  <2>1. \A n \in (strays \cup swapped)' : n <= issued
    BY <1>1, <1>2 DEF IdsApart, MeantFor
  <2> QED BY <1>1, <1>2, <2>1 DEF IdsApart
<1>4. SenderConnected' /\ GcSendsToCoupled'
  BY <1>1 DEF Threads
<1>5. ASSUME NEW i \in buff', i.id \in MeantFor(d, buff') PROVE i.by = "op"
  <2>1. PICK j \in buff' \cup Sending : j.dev = d /\ j.id = i.id
    BY <1>5 DEF MeantFor
  <2>2. PICK t \in Threads : j = item[t] /\ phase[t] \in {"push", "write"}
    BY <1>2, <2>1 DEF Sending
  <2>3. j.by = "op"
    BY <1>1, <2>2 DEF Threads
  <2> QED BY <1>2, <2>1, <2>3 DEF IdsApart
<1>6. StaleOnlyFromObsplan'
  BY <1>1, <1>2, <1>5 DEF StaleOnlyFromObsplan, Items
<1> QED BY <1>3, <1>4, <1>6

(* Every step keeps what waits for another connection to thread_obsplan and to
   connections that were replaced. *)
LEMMA StaleInductive == StaleInv /\ [Next]_vars => StaleInv'
<1> SUFFICES ASSUME StaleInv, [Next]_vars
             PROVE  /\ SenderConnected' /\ GcSendsToCoupled'
                    /\ IdsApart' /\ StaleOnlyFromObsplan'
  BY NextTypes DEF StaleInv
<1> USE DEF sendVars, buffVars, deviceVars, trVars
<1>1. CASE SendStep
  BY <1>1, StaleSend DEF SendStep, Threads
<1>2. ASSUME NEW h \in held, NotifyResponse(h)
      PROVE  /\ buff' \subseteq buff
             /\ UNCHANGED <<issued, online, strays, swapped, phase, item>>
  BY <1>2, PopSernoErases DEF NotifyResponse
<1>3. CASE DeviceStep
  BY <1>2, <1>3, StaleCouple, StaleDecouple, StaleFrame DEF DeviceStep
<1>4. CASE TakeFront
  <2>1. UNCHANGED <<issued, online, strays, swapped, phase, item>>
    BY <1>4 DEF TakeFront
  <2>2. \A i \in buff' : \E j \in buff : i.id = j.id /\ i.by = j.by /\ i.dev = j.dev
    <3>1. buff' = buff \/ \E i \in buff : buff' = (buff \ {i}) \cup {Again(i)}
      BY <1>4 DEF TakeFront
    <3>2. \A i \in buff : /\ Again(i).id = i.id /\ Again(i).by = i.by
                          /\ Again(i).dev = i.dev
      BY DEF Again, StaleInv, TypeOK, Items
    <3> QED BY <3>1, <3>2
  <2> QED BY <2>1, <2>2, StaleFrame
<1>5. CASE Timeout \/ PopExpired \/ TestDevice \/ WriteAgain
  <2>1. buff' \subseteq buff /\ UNCHANGED <<issued, online, strays, swapped, phase, item>>
    BY <1>5 DEF Timeout, PopExpired, PopFront, TestDevice, WriteAgain
  <2> QED BY <2>1, StaleFrame
<1>6. CASE Restart
  BY <1>6 DEF Restart, Threads, SenderConnected, GcSendsToCoupled, IdsApart,
     StaleOnlyFromObsplan, Sending
<1>7. CASE UNCHANGED vars
  BY <1>7, StaleFrame DEF vars
<1> QED
  BY <1>1, <1>3, <1>4, <1>5, <1>6, <1>7 DEF Next, RewriteStep

(* What waits for a device that is gone was being sent by thread_obsplan when
   the device was decoupled: no command of a client is kept for its return.
   Over another connection than its own a command of a client is resent only
   if that one was replaced before the server saw it close. *)
THEOREM NothingKeptForReturn == Spec => []StaleOnlyFromObsplan
<1>1. Init => StaleInv
  BY InitTypes DEF Init, StaleInv, SenderConnected, GcSendsToCoupled, IdsApart,
     StaleOnlyFromObsplan, Sending
<1>2. StaleInv => StaleOnlyFromObsplan
  BY DEF StaleInv
<1> QED BY <1>1, <1>2, StaleInductive, PTL DEF Spec

-----------------------------------------------------------------------------
(* Commands that are given up. *)

GivenUpInv == TypeOK /\ FreshItems /\ PlacesApart /\ GivenUpInFront

(* Only Build and Restart set the command a thread is sending. *)
LEMMA FreshKept ==
    ASSUME TypeOK, FreshItems, [Next]_vars
    PROVE  FreshItems'
<1> USE DEF FreshItems, sendVars
<1>1. ASSUME NEW t \in Threads, NEW d \in Devices, Build(t, d) PROVE FreshItems'
  BY <1>1 DEF Build, TypeOK
<1>2. ASSUME NEW t \in Threads, Arm \/ Push(t) \/ Write(t) PROVE FreshItems'
  BY <1>2 DEF Arm, Push, Write
<1>3. CASE DeviceStep
  BY <1>3 DEF DeviceStep, Couple, Decouple, NotifyResponse
<1>4. CASE RewriteStep
  BY <1>4 DEF RewriteStep, Timeout, TakeFront, PopExpired, TestDevice, WriteAgain
<1>5. CASE Restart
  BY <1>5 DEF Restart, NoItem
<1>6. CASE UNCHANGED vars
  BY <1>6 DEF vars
<1> QED BY <1>1, <1>2, <1>3, <1>4, <1>5, <1>6 DEF Next, SendStep, Threads

(* Every step keeps the command given up in front, or removes it. *)
LEMMA GivenUpInductive == GivenUpInv /\ [Next]_vars => GivenUpInv'
<1> SUFFICES ASSUME GivenUpInv, [Next]_vars PROVE PlacesApart' /\ GivenUpInFront'
  BY NextTypes, FreshKept DEF GivenUpInv
<1> USE DEF GivenUpInv, PlacesApart, GivenUpInFront, First,
            sendVars, buffVars, deviceVars, trVars
<1>0. /\ buff \subseteq Items /\ pushed \in Nat /\ MaxRetry \in Nat
      /\ \A i \in buff : i.place \in Nat /\ i.retry \in Nat
  BY ResendOK DEF TypeOK, Items
<1>1. ASSUME buff' \subseteq buff, tr' = tr, pushed' = pushed
      PROVE  PlacesApart' /\ GivenUpInFront'
  BY <1>1
<1>2. CASE Arm \/ UNCHANGED vars
  BY <1>1, <1>2 DEF Arm, vars
<1>3. ASSUME NEW t \in Threads, (\E d \in Devices : Build(t, d)) \/ Write(t)
      PROVE  PlacesApart' /\ GivenUpInFront'
  BY <1>1, <1>3 DEF Build, Write
<1>4. ASSUME NEW t \in Threads, Push(t)
      PROVE  PlacesApart' /\ GivenUpInFront'
  <2> DEFINE placed == [item[t] EXCEPT !.place = pushed + 1]
  <2>1. placed.place = pushed + 1
    BY DEF TypeOK, Items
  <2>2. buff' = buff \cup {placed} /\ pushed' = pushed + 1 /\ tr' = tr
    BY <1>4 DEF Push
  <2>3. placed.retry <= MaxRetry
    BY <1>0 DEF FreshItems, TypeOK, Items
  <2>4. placed.retry \in Nat
    BY DEF TypeOK, Items
  <2> HIDE DEF placed
  <2>5. PlacesApart'
    BY <1>0, <2>1, <2>2
  <2>6. GivenUpInFront'
    <3>1. ASSUME NEW i \in buff, i.retry > MaxRetry
          PROVE  tr = "pop" /\ \A j \in buff' : i.place <= j.place
      BY <1>0, <2>1, <2>2, <3>1
    <3> QED BY <1>0, <2>2, <2>3, <2>4, <3>1
  <2> QED BY <2>5, <2>6
<1>5. ASSUME NEW d \in Devices, Couple(d) \/ Decouple(d)
      PROVE  PlacesApart' /\ GivenUpInFront'
  BY <1>1, <1>5 DEF Couple, Decouple, Erase, Clear
<1>6. ASSUME NEW h \in held, NotifyResponse(h)
      PROVE  PlacesApart' /\ GivenUpInFront'
  BY <1>1, <1>6, PopSernoErases DEF NotifyResponse
<1>7. CASE Timeout
  BY <1>0, <1>7 DEF Timeout
<1>8. CASE TakeFront
  BY <1>0, <1>8, AgainType DEF TakeFront, GiveUp
<1>9. CASE PopExpired
  BY <1>0, <1>9 DEF PopExpired, PopFront
<1>10. CASE TestDevice \/ WriteAgain
  BY <1>0, <1>10 DEF TestDevice, WriteAgain
<1>11. CASE Restart
  BY <1>11 DEF Restart
<1> QED
  BY <1>2, <1>3, <1>4, <1>5, <1>6, <1>7, <1>8, <1>9, <1>10, <1>11
     DEF Next, SendStep, DeviceStep, RewriteStep

(* A command that has been given up leaves the buffer with the next Pop(),
   whatever other threads push and erase in between. *)
THEOREM GivenUpGoes == Spec => []GivenUpLeaves
<1>1. Init => GivenUpInv
  BY InitTypes DEF Init, GivenUpInv, FreshItems, NoItem, PlacesApart, GivenUpInFront
<1>2. GivenUpInv => GivenUpLeaves
  BY DEF GivenUpInv, GivenUpInFront, GivenUpLeaves
<1> QED BY <1>1, <1>2, GivenUpInductive, PTL DEF Spec

(* Between TakeFront and Pop() the item thread_rewrite holds a reference to is
   still in the buffer and has used up its retries, unless another thread
   erased one meanwhile. *)
RefGivenUp ==
    tr = "pop" /\ ~raced => ref \in buff /\ ref.retry > MaxRetry

DropInv == GivenUpInv /\ RefGivenUp

(* Erasing either leaves the buffer as it was or is recorded. *)
LEMMA EraseRecorded ==
    ASSUME NEW rest, Erase(rest), tr' = tr, ref' = ref, RefGivenUp
    PROVE  RefGivenUp'
<1>1. CASE rest = buff
  BY <1>1 DEF Erase, RefGivenUp
<1>2. CASE rest # buff
  BY <1>2 DEF Erase, RefGivenUp
<1> QED BY <1>1, <1>2

(* Only TakeFront sets the reference, and it sets tr to "pop" only for an item
   that is given up. *)
LEMMA RefGivenUpInductive ==
    ASSUME DropInv, [Next]_vars
    PROVE  RefGivenUp'
<1> USE DEF DropInv, sendVars, buffVars, deviceVars, trVars
<1>1. ASSUME NEW t \in Threads,
             Arm \/ (\E d \in Devices : Build(t, d)) \/ Push(t) \/ Write(t)
      PROVE  RefGivenUp'
  BY <1>1 DEF Arm, Build, Push, Write, RefGivenUp
<1>2. ASSUME NEW d \in Devices, Couple(d) PROVE RefGivenUp'
  BY <1>2 DEF Couple, RefGivenUp
<1>3. ASSUME NEW d \in Devices, Decouple(d) PROVE RefGivenUp'
  BY <1>3, EraseRecorded DEF Decouple
<1>4. ASSUME NEW h \in held, NotifyResponse(h) PROVE RefGivenUp'
  BY <1>4, EraseRecorded DEF NotifyResponse, PopSerno
<1>5. CASE TakeFront
  BY <1>5 DEF TakeFront, GiveUp, RefGivenUp
<1>6. CASE Timeout \/ PopExpired \/ TestDevice \/ WriteAgain \/ Restart
  BY <1>6 DEF Timeout, PopExpired, TestDevice, WriteAgain, Restart, RefGivenUp
<1>7. CASE UNCHANGED vars
  BY <1>7 DEF vars, RefGivenUp
<1> QED
  BY <1>1, <1>2, <1>3, <1>4, <1>5, <1>6, <1>7
     DEF Next, SendStep, DeviceStep, RewriteStep, Threads

(* Pop() without an argument removes whatever is in front by then; no thread
   having erased anything since Front, that is the command given up, though
   other threads may have pushed new ones. *)
THEOREM DropsGivenUp == Spec => DropsTheGivenUp
<1>1. Init => DropInv
  BY InitTypes DEF Init, DropInv, GivenUpInv, FreshItems, NoItem, PlacesApart,
     GivenUpInFront, RefGivenUp
<1>2. DropInv /\ [Next]_vars => DropInv'
  BY GivenUpInductive, RefGivenUpInductive DEF DropInv
<1>3. ASSUME DropInv, [Next]_vars, tr = "pop", tr' = "send", ~raced
      PROVE  buff \ buff' = {ref} /\ ref.retry > MaxRetry
  <2>1. PopExpired
    BY <1>3 DEF vars, sendVars, buffVars, deviceVars, trVars, Next, SendStep,
       DeviceStep, RewriteStep, Arm, Build, Push, Write, Couple, Decouple,
       NotifyResponse, Timeout, TakeFront, TestDevice, WriteAgain, Restart
  <2>2. PICK i \in buff : First(i, buff) /\ buff' = buff \ {i}
    BY <1>3, <2>1 DEF PopExpired, PopFront
  <2>3. ref \in buff /\ ref.retry > MaxRetry
    BY <1>3 DEF DropInv, RefGivenUp
  <2>4. First(ref, buff)
    BY <1>3, <2>3 DEF DropInv, GivenUpInv, GivenUpInFront
  <2>5. i.place <= ref.place /\ ref.place <= i.place
    BY <2>2, <2>3, <2>4 DEF First
  <2>6. i.place \in Nat /\ ref.place \in Nat
    BY <1>3, <2>3 DEF DropInv, GivenUpInv, TypeOK, Items
  <2>7. i = ref
    BY <1>3, <2>3, <2>5, <2>6 DEF DropInv, GivenUpInv, PlacesApart
  <2> QED BY <2>2, <2>3, <2>7
<1>4. DropInv /\ [Next]_vars
        => [tr = "pop" /\ tr' = "send" /\ ~raced
              => buff \ buff' = {ref} /\ ref.retry > MaxRetry]_vars
  BY <1>3
<1> QED BY <1>1, <1>2, <1>4, PTL DEF Spec, DropsTheGivenUp

=============================================================================
