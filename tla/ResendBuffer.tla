---------------------------- MODULE ResendBuffer ----------------------------
(***************************************************************************)
(* Commands to the mount and the focuser of a GWAC system, and their       *)
(* resending.  A command gets a serial number, waits in nonkvProtoBuff_    *)
(* and is written to the device; the device answers with the number and    *)
(* the command leaves the buffer.  Three threads share the buffer:         *)
(*   - "gc", the message loop of GeneralControl: commands of clients,      *)
(*     answers, coupling and decoupling of devices;                        *)
(*   - "op", thread_obsplan: slews of plans and aborts at their end;       *)
(*   - thread_rewrite: after a second without a new command it writes the  *)
(*     oldest command again and gives it up after MaxRetry times.          *)
(* Every method of the buffer takes its mutex, except Front and Size; the  *)
(* reference Front returns is used after the mutex was released.           *)
(*                                                                         *)
(* The deque is the set of its items, each with its place in the order of  *)
(* pushes.  A second passes without a new command whenever thread_rewrite  *)
(* takes its Timeout step.                                                 *)
(***************************************************************************)
EXTENDS Integers

CONSTANTS
    Mount, Focus,   \* devtype 0 and 1
    SernoLimit,     \* 100000: numbers run from 1 to SernoLimit - 1
    MaxRetry        \* 3

ASSUME ResendOK ==
    /\ Mount # Focus
    /\ SernoLimit \in Nat /\ SernoLimit > 1
    /\ MaxRetry \in Nat

Devices == {Mount, Focus}
Threads == {"gc", "op"}

VARIABLES
    serno,    \* serno_, the next serial number
    issued,   \* ghost: how many commands were built
    since,    \* ghost: how many of them before the server started last
    buff,     \* nonkvProtoBuff_.cmds
    pushed,   \* how many items were pushed
    phase,    \* where each thread is in sending a command
    item,     \* the command it is sending
    online,   \* devices whose connection the system holds
    held,     \* commands that reached a device: it may answer them
    strays,   \* ghost: commands whose connection is no longer the coupled one
    swapped,  \* ghost: those of them whose connection was replaced by another
    tr,       \* thread_rewrite: "wait", "front", "pop", "send", "write"
    ref,      \* the item Front returned, as it was then
    dev,      \* the device thread_rewrite has found connected
    torn,     \* the referenced item was erased
    raced,    \* ghost: by another thread than thread_rewrite
    garbled,  \* ghost: thread_rewrite wrote what it read through a torn item
    up        \* FALSE: the process died of a null or empty read

sendVars   == <<serno, issued, since, phase, item>>
buffVars   == <<buff, pushed>>
deviceVars == <<online, held, strays, swapped>>
trVars     == <<tr, ref, dev, torn, raced, garbled>>
vars       == <<sendVars, buffVars, deviceVars, trVars, up>>

Items == [id : Nat, sn : 1 .. SernoLimit - 1, dev : Devices, by : Threads,
          place : Nat, retry : Nat]

Tags == [id : Nat, sn : 1 .. SernoLimit - 1]

NoItem == [id |-> 0, sn |-> 1, dev |-> Mount, by |-> "gc", place |-> 0, retry |-> 0]

TypeOK ==
    /\ serno \in 1 .. SernoLimit - 1
    /\ issued \in Nat /\ since \in Nat /\ pushed \in Nat
    /\ buff \subseteq Items
    /\ phase \in [Threads -> {"idle", "armed", "push", "write"}]
    /\ item \in [Threads -> Items]
    /\ online \in [Devices -> BOOLEAN]
    /\ held \subseteq Tags
    /\ strays \subseteq Nat /\ swapped \subseteq Nat
    /\ tr \in {"wait", "front", "pop", "send", "write"}
    /\ ref \in Items /\ dev \in Devices
    /\ torn \in BOOLEAN /\ raced \in BOOLEAN /\ garbled \in BOOLEAN
    /\ up \in BOOLEAN

Init ==
    /\ serno = 1 /\ issued = 0 /\ since = 0
    /\ buff = {} /\ pushed = 0
    /\ phase = [t \in Threads |-> "idle"]
    /\ item = [t \in Threads |-> NoItem]
    /\ online = [d \in Devices |-> FALSE]
    /\ held = {} /\ strays = {} /\ swapped = {}
    /\ tr = "wait" /\ ref = NoItem /\ dev = Mount
    /\ torn = FALSE /\ raced = FALSE /\ garbled = FALSE
    /\ up = TRUE

-----------------------------------------------------------------------------
(* Serial numbers and the buffer. *)

NextSernoUnwrapped(n) == n + 1   \* mutant
NextSernoEarly(n) == IF n + 2 >= SernoLimit THEN 1 ELSE n + 1   \* mutant

NextSerno(n) == IF n + 1 = SernoLimit THEN 1 ELSE n + 1

Tag(i) == [id |-> i.id, sn |-> i.sn]

(* Of the items of S, i was pushed first. *)
First(i, S) == i \in S /\ \A j \in S : i.place <= j.place

Matching(n) == {i \in buff : i.sn = n}

ClearOther(d) == {i \in buff : i.dev = d}   \* mutant

Clear(d) == {i \in buff : i.dev # d}

(* A thread other than thread_rewrite leaves rest in the buffer: erasing moves
   the items of a deque, so a reference obtained before is no longer valid. *)
Erase(rest) ==
    /\ buff' = rest
    /\ raced' = (raced \/ (rest # buff /\ tr \in {"pop", "send", "write"}))
    /\ torn' = (torn \/ raced')

(* Pop(serno) removes the first item with the number, if there is one. *)
PopSerno(n) ==
    \/ Matching(n) = {} /\ Erase(buff)
    \/ \E i \in buff : First(i, Matching(n)) /\ Erase(buff \ {i})

-----------------------------------------------------------------------------
(* Sending a command. *)

(* thread_obsplan tests tcpMount_ well before it sends a slew or an abort. *)
Arm ==
    /\ phase["op"] = "idle" /\ online[Mount]
    /\ phase' = [phase EXCEPT !["op"] = "armed"]
    /\ UNCHANGED <<serno, issued, since, item, buffVars, deviceVars, trVars, up>>

(* The text of the command with its number, both taken under mtxSerno_.  A
   handler of GC tests the connection itself: nothing decouples a device before
   it has finished. *)
Build(t, d) ==
    /\ \/ t = "gc" /\ phase[t] = "idle" /\ online[d]
       \/ t = "op" /\ phase[t] = "armed" /\ d = Mount
    /\ issued' = issued + 1
    /\ serno' = NextSerno(serno)
    /\ item' = [item EXCEPT ![t] =
           [id |-> issued + 1, sn |-> serno, dev |-> d, by |-> t,
            place |-> 0, retry |-> 0]]
    /\ phase' = [phase EXCEPT ![t] = "push"]
    /\ UNCHANGED <<since, buffVars, deviceVars, trVars, up>>

Push(t) ==
    /\ phase[t] = "push"
    /\ pushed' = pushed + 1
    /\ buff' = buff \cup {[item[t] EXCEPT !.place = pushed + 1]}
    /\ phase' = [phase EXCEPT ![t] = "write"]
    /\ UNCHANGED <<serno, issued, since, item, deviceVars, trVars, up>>

(* tcpMount_->Write or tcpFocus_->Write, of a null pointer if the device was
   decoupled since it was tested. *)
Write(t) ==
    LET d == item[t].dev IN
    /\ phase[t] = "write"
    /\ phase' = [phase EXCEPT ![t] = "idle"]
    /\ IF online[d]
       THEN held' = held \cup {Tag(item[t])} /\ up' = up
       ELSE held' = held /\ up' = FALSE
    /\ UNCHANGED <<serno, issued, since, item, buffVars, online, strays, swapped, trVars>>

-----------------------------------------------------------------------------
(* GC: devices. *)

(* Commands being sent. *)
Sending == {item[t] : t \in {t \in Threads : phase[t] \in {"push", "write"}}}

(* Those of the commands of S, and of those being sent, that are meant for d. *)
MeantFor(d, S) == {i.id : i \in {i \in S \cup Sending : i.dev = d}}

(* CoupleMount, CoupleFocus: a connection that is coupled while another one is
   takes its place; what waits in the buffer stays there, and the close of the
   one replaced is ignored when it comes. *)
Couple(d) ==
    /\ phase["gc"] = "idle"
    /\ online' = [online EXCEPT ![d] = TRUE]
    /\ swapped' = IF online[d] THEN swapped \cup MeantFor(d, buff) ELSE swapped
    /\ strays' = strays \cup swapped'
    /\ UNCHANGED <<sendVars, buffVars, held, trVars, up>>

(* DecoupleMount, DecoupleFocus *)
Decouple(d) ==
    /\ phase["gc"] = "idle" /\ online[d]
    /\ online' = [online EXCEPT ![d] = FALSE]
    /\ Erase(Clear(d))
    /\ strays' = strays \cup MeantFor(d, buff')
    /\ UNCHANGED <<sendVars, pushed, held, swapped, tr, ref, dev, garbled, up>>

(* A device answers a command it received, at any time, over any connection,
   once for every copy or not at all: NotifyResponse looks the number up. *)
NotifyResponse(h) ==
    /\ phase["gc"] = "idle"
    /\ PopSerno(h.sn)
    /\ UNCHANGED <<sendVars, pushed, deviceVars, tr, ref, dev, garbled, up>>

-----------------------------------------------------------------------------
(* thread_rewrite *)

Timeout ==
    /\ tr = "wait" /\ buff # {}
    /\ tr' = "front" /\ raced' = FALSE /\ torn' = FALSE
    /\ UNCHANGED <<sendVars, buffVars, deviceVars, ref, dev, garbled, up>>

AgainCopied(i) == i   \* mutant

Again(i) == [i EXCEPT !.retry = @ + 1]

GiveUp(i) == i.retry > MaxRetry

(* Front and the increment through its reference; the front of an empty deque
   does not exist. *)
TakeFront ==
    /\ tr = "front"
    /\ \/ /\ buff = {}
          /\ up' = FALSE /\ UNCHANGED <<buff, tr, ref>>
       \/ \E i \in buff :
             /\ First(i, buff)
             /\ ref' = Again(i)
             /\ buff' = (buff \ {i}) \cup {Again(i)}
             /\ tr' = IF GiveUp(Again(i)) THEN "pop" ELSE "send"
             /\ up' = up
    /\ UNCHANGED <<sendVars, pushed, deviceVars, dev, torn, raced, garbled>>

PopLast ==   \* mutant
    \E i \in buff : (\A j \in buff : j.place <= i.place) /\ buff' = buff \ {i}

PopFront == \E i \in buff : First(i, buff) /\ buff' = buff \ {i}

(* Pop() removes whatever is in front by then, and the referenced item, if it
   is that one, is destroyed before it is written. *)
PopExpired ==
    /\ tr = "pop"
    /\ \/ /\ buff = {}
          /\ up' = FALSE /\ UNCHANGED <<buff, tr, torn>>
       \/ /\ PopFront
          /\ torn' = TRUE /\ tr' = "send" /\ up' = up
    /\ UNCHANGED <<sendVars, pushed, deviceVars, ref, dev, raced, garbled>>

(* The device the item names is tested; a torn item names any, or none. *)
TestDevice ==
    /\ tr = "send"
    /\ \/ \E d \in Devices : /\ torn \/ d = ref.dev
                             /\ online[d]
                             /\ dev' = d /\ tr' = "write"
       \/ /\ torn \/ ~online[ref.dev]
          /\ tr' = "wait" /\ dev' = dev
    /\ UNCHANGED <<sendVars, buffVars, deviceVars, ref, torn, raced, garbled, up>>

WriteAgain ==
    /\ tr = "write"
    /\ tr' = "wait"
    /\ up' = online[dev]
    /\ held' = IF online[dev] /\ ~torn THEN held \cup {Tag(ref)} ELSE held
    /\ garbled' = (garbled \/ (online[dev] /\ torn))
    /\ UNCHANGED <<sendVars, buffVars, online, strays, swapped, ref, dev, torn, raced>>

(* External: systemd starts the server again; the devices still hold what they
   received and may answer it to the new process. *)
Restart ==
    /\ ~up
    /\ serno' = 1 /\ since' = issued
    /\ buff' = {} /\ pushed' = 0
    /\ phase' = [t \in Threads |-> "idle"]
    /\ item' = [t \in Threads |-> NoItem]
    /\ online' = [d \in Devices |-> FALSE]
    /\ strays' = {} /\ swapped' = {}
    /\ tr' = "wait" /\ ref' = NoItem /\ dev' = Mount
    /\ torn' = FALSE /\ raced' = FALSE /\ garbled' = FALSE
    /\ up' = TRUE
    /\ UNCHANGED <<issued, held>>

-----------------------------------------------------------------------------
SendStep ==
    \/ Arm
    \/ \E t \in Threads : (\E d \in Devices : Build(t, d)) \/ Push(t) \/ Write(t)

DeviceStep ==
    \/ \E d \in Devices : Couple(d) \/ Decouple(d)
    \/ \E h \in held : NotifyResponse(h)

RewriteStep == Timeout \/ TakeFront \/ PopExpired \/ TestDevice \/ WriteAgain

Next ==
    \/ up /\ (SendStep \/ DeviceStep \/ RewriteStep)
    \/ Restart

(* Started handlers are finished, thread_rewrite runs and, since its Timeout
   needs a second without a new command, such a second comes: true of every
   finite number of commands.  Nothing is assumed of the devices. *)
Fairness ==
    /\ \A t \in Threads : WF_vars(up /\ (Push(t) \/ Write(t)))
    /\ WF_vars(up /\ RewriteStep)
    /\ WF_vars(Restart)

Spec == Init /\ [][Next]_vars

-----------------------------------------------------------------------------
(* Properties. *)

(* Every command whose number may still be looked up or answered. *)
Known == {Tag(i) : i \in buff \cup Sending} \cup held

(* An answer cannot be taken for that of another command: two of them have
   the same number only if all the other numbers were given out in between,
   though two threads number commands and devices answer late or twice, or if
   the server started again in between. *)
NumbersApart ==
    \A a, b \in Known :
        since < a.id /\ a.id < b.id /\ a.sn = b.sn => b.id - a.id >= SernoLimit - 1

(* How far the counter has come since a number was given out, while it has not
   come round to it again: the strengthening NumbersApart rests on. *)
SernoFollows ==
    \A a \in Known :
        /\ a.id <= issued
        /\ LET d == issued + 1 - a.id IN
            since < a.id /\ d < SernoLimit => \/ serno = a.sn + d
                              \/ serno = a.sn + d - (SernoLimit - 1)

(* Until it is erased, the item thread_rewrite is about to write again waits in
   the buffer. *)
RefWaiting ==
    tr \in {"send", "write"} /\ ~torn => \E i \in buff : Tag(i) = Tag(ref)

(* A handler of GC sends only to a device that is connected until it is done:
   the strengthening StaleOnlyFromObsplan rests on. *)
SenderConnected ==
    \A t \in Threads : phase[t] \in {"push", "write"}
        => /\ item[t].by = t
           /\ t = "gc" => online[item[t].dev]

(* Nothing waits for a device that is gone, to be sent to the one that comes
   back, but what thread_obsplan was sending when the device was decoupled; and
   a command is resent over another connection than the one it was meant for
   only if it is such a one, or if its connection was never decoupled because
   another one was coupled in its place. *)
StaleOnlyFromObsplan ==
    \A i \in buff : /\ ~online[i.dev] => i.by = "op"
                    /\ i.id \in strays => i.by = "op" \/ i.id \in swapped

(* Unless another thread erased an item at that moment, what thread_rewrite
   drops is exactly the command it has just given up. *)
DropsTheGivenUp ==
    [][tr = "pop" /\ tr' = "send" /\ ~raced
         => buff \ buff' = {ref} /\ ref.retry > MaxRetry]_vars

(* The places of the items are those of their pushes. *)
PlacesApart ==
    \A i \in buff : /\ i.place <= pushed
                     /\ \A j \in buff : i.place = j.place => i = j

(* A command that has been given up does not stay in the buffer, though Pop()
   runs after the lock of Front was released, while others push and erase. *)
GivenUpLeaves == \A i \in buff : i.retry > MaxRetry => tr = "pop"

(* A command is counted as written again only once it waits in the buffer. *)
FreshItems == \A t \in Threads : item[t].retry = 0

(* The strengthening: it is in front of all others until it is popped. *)
GivenUpInFront ==
    \A i \in buff : i.retry > MaxRetry => tr = "pop" /\ First(i, buff)

(* When clients stop sending, every command leaves the buffer, whether the
   device answers or not. *)
Drains == []<>(buff = {})

=============================================================================
