---------------------------- MODULE ObssRegistry ----------------------------
(***************************************************************************)
(* The observation systems of GeneralControl.  A report of a device finds  *)
(* its system, or creates it, under mtxObss_; the device is coupled to the *)
(* system after the lock has been released.  cycle_dump_obss, in a thread  *)
(* of its own, stops and erases systems that have had no device for a long *)
(* time.  GWAC mounts and focusers stay in the pool of GeneralControl and  *)
(* are coupled again by every report; GFT mounts and cameras are handed    *)
(* over once.  A client's plan goes to every system that matches it, as    *)
(* one shared object; a system starts it only while nobody else holds it.  *)
(***************************************************************************)
EXTENDS Naturals, FiniteSets

CONSTANTS
    Obss,         \* room for observation systems that exist at one time
    Conns,        \* connections of devices
    Kind,         \* what each is: "mount", "focus", "gftmount", "camera"
    Gids,         \* group of each system or device; "" is no group
    ConnGid,      \* group of each connection
    SplitUnit,    \* first unit of the second group: 5
    LastUnit,     \* last unit: 10
    StatusLen,    \* units in the status of a mount
    Plans, None

ASSUME RegistryOK ==
    /\ Obss \subseteq Nat \ {0} /\ IsFiniteSet(Obss)
    /\ Kind \in [Conns -> {"mount", "focus", "gftmount", "camera"}]
    /\ "" \notin Gids /\ ConnGid \in [Conns -> Gids]
    /\ {SplitUnit, LastUnit, StatusLen} \subseteq Nat /\ SplitUnit > 1
    /\ None \notin Conns \cup Plans

(* The mounts and focusers of a group are all of GWAC or all GFT: obssType_,
   which a system gets when it is created, is that of its mounts. *)
ASSUME OneType == \A c, d \in Conns :
    Kind[c] = "gftmount" /\ Kind[d] = "mount" => ConnGid[c] # ConnGid[d]

Units == 1 .. LastUnit
AnyUnit == 0     \* the empty uid
NoObss == 0      \* the empty ObssPtr
Mounts == {c \in Conns : Kind[c] = "mount"}

VARIABLES
    obssVec,   \* obssVec_: the systems in it, in no order
    key,       \* gid_ and uid_ of each system
    held,      \* tcpMount_, tcpFocus_ and ptrTcp of its camera
    aged,      \* more than 300 s since lastClosed_
    plan,      \* plan_
    running,   \* plan_state_->state is OBSPLAN_RUNNING
    conn,      \* each: "new", in the "pool", "given" to a system, "gone"
    open,      \* the peer keeps it open
    deaf,      \* cameras handed over after their close was announced
    os,        \* message loop of each system: "idle", or "end" past unique()
    op,        \* thread_obsplan of each: "wait", "start" or "end" past unique()
    tested,    \* ghost: the plan thread_obsplan last found to be unique
    gc,        \* message loop: "idle", "find", "couple", "notify", "end", "store"
    sp,        \* the connection whose message it handles
    todo,      \* units, or systems, it has still to do
    found,     \* result of find_obss
    proto,     \* the plan it hands out
    sent,      \* ghost: plans that were received, each a new object
    up         \* FALSE: the process died of an exception or a null read

obssVars == <<obssVec, key, held, aged>>
planVars == <<plan, running, os, op, tested>>
connVars == <<conn, open, deaf>>
gcVars   == <<gc, sp, todo, found, proto>>
vars     == <<obssVars, planVars, connVars, gcVars, sent, up>>

Slot(c) == CASE Kind[c] \in {"mount", "gftmount"} -> "mount"
             [] Kind[c] = "focus" -> "focus"
             [] OTHER -> "camera"

Nothing == [mount |-> None, focus |-> None, camera |-> None]

Init ==
    /\ obssVec = {}
    /\ key = [i \in Obss |-> <<"", AnyUnit>>]
    /\ held = [i \in Obss |-> Nothing]
    /\ aged = [i \in Obss |-> FALSE]
    /\ plan = [i \in Obss |-> None] /\ running = [i \in Obss |-> FALSE]
    /\ os = [i \in Obss |-> "idle"] /\ op = [i \in Obss |-> "wait"]
    /\ tested = [i \in Obss |-> None]
    /\ conn = [c \in Conns |-> "new"] /\ open = [c \in Conns |-> FALSE]
    /\ deaf = {}
    /\ gc = "idle" /\ sp = None /\ todo = {}
    /\ found = NoObss /\ proto = None /\ sent = {} /\ up = TRUE

-----------------------------------------------------------------------------
(* find_obss *)

(* IsMatched: an empty uid stands for the whole group, an empty gid and uid
   for all. *)
IsMatched(i, gid, uid) ==
    \/ gid = "" /\ uid = AnyUnit
    \/ gid = key[i][1] /\ uid \in {AnyUnit, key[i][2]}

Matching(gid, uid) == {i \in obssVec : IsMatched(i, gid, uid)}

Free == Obss \ (obssVec \cup {found})

(* ObservationSystem::Create, Start; lastClosed_ is now. *)
Create(gid, uid) == \E i \in Free :
    /\ \A j \in Free : i <= j
    /\ obssVec' = obssVec \cup {i} /\ found' = i
    /\ key' = [key EXCEPT ![i] = <<gid, uid>>]
    /\ held' = [held EXCEPT ![i] = Nothing]
    /\ aged' = [aged EXCEPT ![i] = FALSE]

(* An incomplete name finds the first system that matches, here any. *)
FindObss(gid, uid) ==
    \/ /\ found' \in Matching(gid, uid)
       /\ UNCHANGED obssVars
    \/ /\ Matching(gid, uid) = {} /\ gid # "" /\ uid # AnyUnit
       /\ Create(gid, uid)
    \/ /\ Matching(gid, uid) = {} /\ (gid = "" \/ uid = AnyUnit)
       /\ found' = NoObss
       /\ UNCHANGED obssVars

-----------------------------------------------------------------------------
(* Messages of devices, in the message loop of GeneralControl. *)

(* process_protocol_mount_gwac: imin, imax *)
Imin(gid) == IF gid = "001" THEN 1 ELSE SplitUnit
Imax(gid) == IF Imin(gid) = 0 THEN SplitUnit - 1 ELSE LastUnit

(* The units that a status of n mounts is passed on to. *)
StatusUnits(gid, n) == {u \in Imin(gid) .. Imax(gid) : u < n}

(* on_tcp_receive: the status of GWAC mounts *)
MountStatus(c, n) ==
    /\ gc = "idle" /\ Kind[c] = "mount" /\ conn[c] = "pool"
    /\ StatusUnits(ConnGid[c], n) # {}
    /\ gc' = "find" /\ sp' = c /\ todo' = StatusUnits(ConnGid[c], n)
    /\ UNCHANGED <<obssVars, planVars, connVars, found, proto, sent, up>>

(* A position or a response: the system is found or created, and no device
   coupled to it. *)
MountPosition(c, uid) ==
    /\ gc = "idle" /\ Kind[c] = "mount" /\ conn[c] = "pool"
    /\ Matching(ConnGid[c], uid) = {}
    /\ Create(ConnGid[c], uid)
    /\ gc' = "couple" /\ sp' = None /\ UNCHANGED todo
    /\ UNCHANGED <<planVars, connVars, proto, sent, up>>

(* process_protocol_focus, process_protocol_camera, process_protocol_mount_gft;
   cameras may leave out their group or unit, GFT mounts their unit.  What was
   read before the peer closed is handled as well. *)
UnitReport(c, gid, uid) ==
    /\ gc = "idle" /\ Kind[c] # "mount" /\ conn[c] = "pool"
    /\ gid = ConnGid[c] \/ (gid = "" /\ Kind[c] = "camera")
    /\ uid # AnyUnit \/ Kind[c] # "focus"
    /\ FindObss(gid, uid)
    /\ gc' = (IF found' = NoObss THEN "idle" ELSE "couple")
    /\ sp' = (IF found' = NoObss THEN None ELSE c)
    /\ UNCHANGED <<planVars, connVars, todo, proto, sent, up>>

(* A focuser's line finds or creates a system for any unit of three characters,
   and the unit is taken for a number: std::stoi throws if it is none, and
   nobody catches it. *)
WordFocus(c) ==
    /\ gc = "idle" /\ Kind[c] = "focus" /\ conn[c] = "pool"
    /\ up' = FALSE
    /\ UNCHANGED <<obssVars, planVars, connVars, gcVars, sent>>

FindNext ==
    /\ gc = "find"
    /\ \E u \in todo : /\ \A v \in todo : u <= v
                      /\ FindObss(ConnGid[sp], u)
                      /\ todo' = todo \ {u}
    /\ gc' = "couple"
    /\ UNCHANGED <<planVars, connVars, sp, proto, sent, up>>

(* The handler goes on with the next unit, or ends. *)
NextUnit ==
    /\ gc' = IF todo = {} THEN "idle" ELSE "find"
    /\ sp' = IF todo = {} THEN None ELSE sp
    /\ found' = NoObss
    /\ UNCHANGED <<todo, proto>>

Hold(i, c) == held' = [held EXCEPT ![i][Slot(c)] = c]

CoupleGwacFirst(i, c) ==   \* mutant
    /\ IF i \in obssVec /\ held[i][Slot(c)] = None THEN Hold(i, c) ELSE UNCHANGED held
    /\ UNCHANGED conn

(* CoupleMount for GWAC, CoupleFocus *)
CoupleGwac(i, c) ==
    /\ IF i \in obssVec THEN Hold(i, c) ELSE UNCHANGED held
    /\ UNCHANGED conn

(* CoupleMount for GFT, CoupleCamera: popped from the pool; destroyed with its
   last reference when it is refused or the system is stopped already.  A close
   that came before RegisterRead was done was announced to GeneralControl, if
   to anybody: the system never hears of it. *)
CoupleGiven(i, c) ==
    \/ /\ i \in obssVec /\ held[i][Slot(c)] = None
       /\ Hold(i, c)
       /\ conn' = [conn EXCEPT ![c] = "given"]
       /\ deaf' = IF open[c] THEN deaf ELSE deaf \cup {c}
       /\ UNCHANGED open
    \/ /\ i \notin obssVec \/ held[i][Slot(c)] # None
       /\ conn' = [conn EXCEPT ![c] = "gone"]
       /\ open' = [open EXCEPT ![c] = FALSE]
       /\ UNCHANGED <<held, deaf>>

Couple ==
    /\ gc = "couple"
    /\ \/ sp = None /\ UNCHANGED <<held, connVars>>
       \/ /\ sp # None /\ Kind[sp] \in {"mount", "focus"}
          /\ CoupleGwac(found, sp) /\ UNCHANGED <<open, deaf>>
       \/ /\ sp # None /\ Kind[sp] \in {"gftmount", "camera"}
          /\ CoupleGiven(found, sp)
    /\ NextUnit
    /\ UNCHANGED <<obssVec, key, aged, planVars, sent, up>>

DecoupledOne(c) ==   \* mutant
    LET S == {i \in obssVec : held[i][Slot(c)] = c}
    IN  {i \in S : \A j \in S : i <= j}

(* DecoupleMount, DecoupleFocus, for all systems *)
Decoupled(c) == {i \in obssVec : held[i][Slot(c)] = c}

(* on_tcp_close *)
GcClose(c) ==
    /\ gc = "idle" /\ conn[c] = "pool" /\ ~open[c]
    /\ conn' = [conn EXCEPT ![c] = "gone"]
    /\ held' = [i \in Obss |-> IF i \in Decoupled(c)
                               THEN [held[i] EXCEPT ![Slot(c)] = None] ELSE held[i]]
    /\ aged' = [i \in Obss |-> aged[i] /\ i \notin Decoupled(c)]
    /\ UNCHANGED <<obssVec, key, planVars, open, deaf, gcVars, sent, up>>

(* on_tcp_close of the system: cameras only; a GFT mount stays coupled *)
OsClose(i) ==
    /\ i \in obssVec /\ os[i] = "idle"
    /\ held[i].camera \notin deaf \cup {None} /\ ~open[held[i].camera]
    /\ conn' = [conn EXCEPT ![held[i].camera] = "gone"]
    /\ held' = [held EXCEPT ![i].camera = None]
    /\ aged' = [aged EXCEPT ![i] = FALSE]
    /\ UNCHANGED <<obssVec, key, planVars, open, deaf, gcVars, sent, up>>

(* tcp_accept: a device that returns has another connection; the peer closes *)
Connect(c) ==
    /\ conn[c] = "new"
    /\ conn' = [conn EXCEPT ![c] = "pool"] /\ open' = [open EXCEPT ![c] = TRUE]
    /\ UNCHANGED <<obssVars, planVars, deaf, gcVars, sent, up>>

PeerCloses(c) ==
    /\ open[c] /\ open' = [open EXCEPT ![c] = FALSE]
    /\ UNCHANGED <<obssVars, planVars, conn, deaf, gcVars, sent, up>>

-----------------------------------------------------------------------------
(* cycle_dump_obss *)

(* A mount reports more often than every 300 s. *)
Reported(i) == \E c \in Conns :
    /\ Kind[c] = "mount" /\ conn[c] = "pool" /\ open[c]
    /\ key[i][1] = ConnGid[c] /\ key[i][2] \in StatusUnits(ConnGid[c], StatusLen)

(* 300 s pass; no handler that has found the system takes that long. *)
Age(i) ==
    /\ i \in obssVec /\ ~aged[i] /\ found # i /\ ~Reported(i)
    /\ aged' = [aged EXCEPT ![i] = TRUE]
    /\ UNCHANGED <<obssVec, key, held, planVars, connVars, gcVars, sent, up>>

LastClosedNoCamera(i) == held[i].mount = None /\ held[i].focus = None /\ aged[i]   \* mutant

(* LastClosed(now) > limit *)
LastClosed(i) == held[i] = Nothing /\ aged[i]

(* Stop, which joins the system's threads, and erase; mtxObss_ keeps it from
   running while a message of a client is handled.  The plan goes with the
   system. *)
Dump(i) ==
    /\ i \in obssVec /\ LastClosed(i) /\ gc \notin {"notify", "end", "store"}
    /\ os[i] = "idle" /\ op[i] = "wait"
    /\ obssVec' = obssVec \ {i}
    /\ plan' = [plan EXCEPT ![i] = None]
    /\ running' = [running EXCEPT ![i] = FALSE]
    /\ tested' = [tested EXCEPT ![i] = None]
    /\ UNCHANGED <<key, held, aged, os, op, connVars, gcVars, sent, up>>

-----------------------------------------------------------------------------
(* Plans *)

UniqueAny(i) == plan[i] # None   \* mutant

(* plan_.unique(): no other system and no handler refers to the plan. *)
Unique(i) ==
    /\ plan[i] # None /\ proto # plan[i]
    /\ \A j \in Obss \ {i} : plan[j] # plan[i]

(* process_protocol_client: every plan received is an object of its own. *)
ClientPlan(p, gid, uid) ==
    /\ gc = "idle" /\ p \notin sent
    /\ Matching(gid, uid) # {}
    /\ gc' = "notify" /\ proto' = p /\ todo' = Matching(gid, uid)
    /\ sent' = sent \cup {p}
    /\ UNCHANGED <<obssVars, planVars, connVars, sp, found, up>>

Put(i, p) ==
    /\ plan' = [plan EXCEPT ![i] = p]
    /\ running' = [running EXCEPT ![i] = FALSE]
    /\ UNCHANGED <<os, op, tested>>

(* NotifyPlan: refused while cameras expose by hand; a unique plan is aborted
   first, any other one just replaced. *)
NotifyPlan ==
    /\ gc = "notify"
    /\ \E i \in todo :
         \/ /\ ~Unique(i) /\ held[i].camera # None
            /\ todo' = todo \ {i}
            /\ UNCHANGED <<planVars, gc, found>>
         \/ /\ ~Unique(i) /\ Put(i, proto)
            /\ todo' = todo \ {i}
            /\ UNCHANGED <<gc, found>>
         \/ /\ Unique(i)
            /\ gc' = "end" /\ found' = i
            /\ UNCHANGED <<planVars, todo>>
    /\ UNCHANGED <<obssVars, connVars, sp, proto, sent, up>>

StorePlan ==
    /\ gc = "store"
    /\ Put(found, proto)
    /\ gc' = "notify" /\ found' = NoObss /\ todo' = todo \ {found}
    /\ UNCHANGED <<obssVars, connVars, sp, proto, sent, up>>

(* The end of on_tcp_receive releases the plan. *)
Notified ==
    /\ gc = "notify" /\ todo = {}
    /\ gc' = "idle" /\ proto' = None
    /\ UNCHANGED <<obssVars, planVars, connVars, sp, todo, found, sent, up>>

(* A client's abort or park finds the plan of a system unique. *)
ClientAbort(i) ==
    /\ gc = "idle" /\ i \in obssVec /\ Unique(i)
    /\ gc' = "end" /\ found' = i
    /\ UNCHANGED <<obssVars, planVars, connVars, sp, todo, proto, sent, up>>

(* thread_obsplan: the conditions *)
TestPlan(i) ==
    /\ i \in obssVec /\ op[i] = "wait" /\ Unique(i) /\ ~running[i]
    /\ held[i].mount # None /\ held[i].camera # None
    /\ op' = [op EXCEPT ![i] = "start"]
    /\ tested' = [tested EXCEPT ![i] = plan[i]]
    /\ UNCHANGED <<obssVars, plan, running, os, connVars, gcVars, sent, up>>

(* What follows unique() reads plan_, and dies of a plan that was reset
   meanwhile but for the last read. *)
ReadsPlan(i) == up' = TRUE \/ (plan[i] = None /\ up' = FALSE)

(* process_new_plan: whatever plan_ is by now, its status becomes RUNNING. *)
RunPlan(i) ==
    /\ op[i] = "start"
    /\ op' = [op EXCEPT ![i] = "wait"]
    /\ running' = [running EXCEPT ![i] = TRUE]
    /\ ReadsPlan(i)
    /\ UNCHANGED <<obssVars, plan, os, tested, connVars, gcVars, sent>>

(* The last camera has exposed, or the plan is past its end: unique() *)
TestEnd(i) ==
    /\ i \in obssVec /\ Unique(i)
    /\ \/ /\ os[i] = "idle" /\ held[i].camera # None
          /\ os' = [os EXCEPT ![i] = "end"] /\ UNCHANGED op
       \/ /\ op[i] = "wait" /\ running[i]
          /\ op' = [op EXCEPT ![i] = "end"] /\ UNCHANGED os
    /\ UNCHANGED <<obssVars, plan, running, tested, connVars, gcVars, sent, up>>

(* Whatever plan_ is by now, it is reset; of the status that is written then
   only that it is RUNNING no more. *)
Reset(i) ==
    /\ plan' = [plan EXCEPT ![i] = None]
    /\ running' = [running EXCEPT ![i] = FALSE]
    /\ ReadsPlan(i)

(* process_protocol_camera, and Abort in thread_obsplan *)
EndPlan(i) ==
    /\ \/ os[i] = "end" /\ os' = [os EXCEPT ![i] = "idle"] /\ UNCHANGED op
       \/ op[i] = "end" /\ op' = [op EXCEPT ![i] = "wait"] /\ UNCHANGED os
    /\ Reset(i)
    /\ UNCHANGED <<obssVars, tested, connVars, gcVars, sent>>

(* Abort in the message loop: of a client, or before a new plan is stored *)
Abort ==
    /\ gc = "end"
    /\ Reset(found)
    /\ gc' = IF proto = None THEN "idle" ELSE "store"
    /\ found' = IF proto = None THEN NoObss ELSE found
    /\ UNCHANGED <<obssVars, os, op, tested, connVars, sp, todo, proto, sent>>

-----------------------------------------------------------------------------
(* External: systemd starts the server again; its connections are gone. *)
Restart ==
    /\ ~up /\ up' = TRUE
    /\ obssVec' = {}
    /\ key' = [i \in Obss |-> <<"", AnyUnit>>]
    /\ held' = [i \in Obss |-> Nothing]
    /\ aged' = [i \in Obss |-> FALSE]
    /\ plan' = [i \in Obss |-> None] /\ running' = [i \in Obss |-> FALSE]
    /\ os' = [i \in Obss |-> "idle"] /\ op' = [i \in Obss |-> "wait"]
    /\ tested' = [i \in Obss |-> None]
    /\ conn' = [c \in Conns |-> IF conn[c] = "new" THEN "new" ELSE "gone"]
    /\ open' = [c \in Conns |-> FALSE] /\ deaf' = {}
    /\ gc' = "idle" /\ sp' = None /\ todo' = {}
    /\ found' = NoObss /\ proto' = None /\ UNCHANGED sent

GcStep == FindNext \/ Couple \/ NotifyPlan \/ StorePlan \/ Abort \/ Notified

Message ==
    \/ \E c \in Conns :
         \/ Connect(c) \/ PeerCloses(c) \/ GcClose(c) \/ WordFocus(c)
         \/ \E n \in 0 .. StatusLen : MountStatus(c, n)
         \/ \E u \in Units : MountPosition(c, u)
         \/ \E gid \in Gids \cup {""}, u \in Units \cup {AnyUnit} : UnitReport(c, gid, u)
    \/ \E p \in Plans, gid \in Gids \cup {""}, u \in Units \cup {AnyUnit} :
         ClientPlan(p, gid, u)
    \/ \E i \in Obss : ClientAbort(i)

ObssStep(i) ==
    \/ Age(i) \/ Dump(i) \/ OsClose(i)
    \/ TestPlan(i) \/ RunPlan(i) \/ TestEnd(i) \/ EndPlan(i)

Next ==
    \/ up /\ (GcStep \/ Message \/ \E i \in Obss : ObssStep(i))
    \/ Restart

(* The message loop and the threads of a system go on with what they began;
   the loop handles in the end every close it hears of and one of the periodic
   reports of a mount; the dump thread gets the lock in the end. *)
Fairness ==
    /\ WF_vars(up /\ GcStep) /\ WF_vars(Restart)
    /\ \A c \in Conns : SF_vars(up /\ GcClose(c))
    /\ \A c \in Mounts : SF_vars(up /\ open[c] /\ MountStatus(c, StatusLen))
    /\ \A i \in Obss : /\ WF_vars(up /\ OsClose(i)) /\ WF_vars(up /\ Age(i))
                        /\ WF_vars(up /\ Dump(i))
                        /\ WF_vars(up /\ (RunPlan(i) \/ EndPlan(i)))

Spec == Init /\ [][Next]_vars /\ Fairness

-----------------------------------------------------------------------------
(* Properties. *)

(* The type invariant of the registry. *)
TypeOK ==
    /\ obssVec \subseteq Obss
    /\ key \in [Obss -> (Gids \cup {""}) \X (Units \cup {AnyUnit})]
    /\ held \in [Obss -> [{"mount", "focus", "camera"} -> Conns \cup {None}]]
    /\ aged \in [Obss -> BOOLEAN]
    /\ plan \in [Obss -> Plans \cup {None}] /\ running \in [Obss -> BOOLEAN]
    /\ conn \in [Conns -> {"new", "pool", "given", "gone"}] /\ open \in [Conns -> BOOLEAN]
    /\ deaf \subseteq Conns
    /\ os \in [Obss -> {"idle", "end"}] /\ op \in [Obss -> {"wait", "start", "end"}]
    /\ tested \in [Obss -> Plans \cup {None}]
    /\ gc \in {"idle", "find", "couple", "notify", "end", "store"}
    /\ sp \in Conns \cup {None} /\ proto \in Plans \cup {None}
    /\ found \in Obss \cup {NoObss}
    /\ todo \subseteq Nat /\ sent \subseteq Plans /\ up \in BOOLEAN

HandedOver(c) == Kind[c] \in {"gftmount", "camera"}

Holders(c) == {i \in obssVec : held[i][Slot(c)] = c}

(* A connection that left the pool is held by one system, and that system is
   registered: it was not dumped with a device, though devices are coupled
   outside of the lock.  No registered system holds a connection whose close
   GeneralControl has handled. *)
OneHome == \A c \in Conns :
    IF HandedOver(c)
      THEN /\ conn[c] = "given" <=> Holders(c) # {}
           /\ \A i, j \in Holders(c) : i = j
      ELSE Holders(c) # {} => conn[c] = "pool"

(* No two systems execute one plan, and what one executes no other holds,
   though a plan is handed to all that match it as one shared object and
   unique() is asked by threads without a lock: unless the plan was replaced
   after thread_obsplan had asked. *)
SoleRunner == \A i \in Obss :
    running[i] /\ plan[i] = tested[i]
      => /\ plan[i] # None /\ plan[i] # proto
         /\ \A j \in Obss \ {i} : plan[j] # plan[i]

(* A GWAC mount that stays connected and reports finds its way into a
   registered system, whatever is dumped meanwhile and whoever was there. *)
MountsFindHome == \A c \in Mounts :
    conn[c] = "pool" ~> ~open[c] \/ Holders(c) # {}

(* A connection that was closed is let go, but for that of a GFT mount and that
   of a camera whose close went to GeneralControl; and a system that is left
   without devices is dumped. *)
Stale(c) ==
    ~open[c] /\ Kind[c] # "gftmount" /\ c \notin deaf /\ Holders(c) # {}

DumpedInTheEnd ==
    /\ \A c \in Conns : Stale(c) ~> ~Stale(c)
    /\ \A i \in Obss : i \in obssVec ~> i \notin obssVec \/ held[i] # Nothing

=============================================================================
