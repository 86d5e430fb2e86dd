------------------------------ MODULE ObssPlan ------------------------------
(***************************************************************************)
(* One observation system of the server (class ObservationSystem): its     *)
(* plan, its mount, its cameras, and the three threads that share them     *)
(* without a common lock:                                                  *)
(*   - GC, the message loop of GeneralControl: client commands, mount      *)
(*     status, coupling of devices, closing of mount connections;          *)
(*   - OS, the message loop of the system: camera reports and closings;    *)
(*   - OP, thread_obsplan: starts a cataloged plan and times a running one *)
(*     out.                                                                *)
(* at[t] is the place thread t has reached.  Testing plan_, resetting it   *)
(* and publishing its status are steps of their own in every thread, and   *)
(* so are the reads of process_new_plan: other threads act in between.     *)
(***************************************************************************)
EXTENDS AstroDeviceDef, FiniteSets

CONSTANTS
    Cams,          \* the cameras (their cid)
    MountConns,    \* identities of mount TCP connections
    Plans,         \* plans clients submit
    Targets,       \* positions in the sky more than 5 arcsec apart
    TargetOf,      \* [Plans -> Targets], where the plan points
    Still,         \* plans of type bias or dark, that need no pointing
    Timed,         \* plans with a legal plan_end
    MountReports,  \* states a mount reports
    CamReports,    \* states a camera reports
    FreshStates,   \* values an uninitialized KVCamera::state may hold
    Gwac,          \* obssType_ == 0: GWAC; otherwise GFT
    NoPlan, NoConn, NoTarget

ASSUME ParametersOK ==
    /\ IsFiniteSet(Cams)
    /\ TargetOf \in [Plans -> Targets]
    /\ Still \subseteq Plans /\ Timed \subseteq Plans
    /\ MountReports \subseteq Int /\ CamReports \subseteq Int
    /\ FreshStates \subseteq Int
    /\ Gwac \in BOOLEAN
    /\ NoPlan \notin Plans /\ NoConn \notin MountConns /\ NoTarget \notin Targets

VARIABLES
    pool,       \* mount connections GeneralControl holds (tcpCliDevice_)
    tcpMount,   \* the mount connection of the system, or NoConn
    mountState, \* mountInfo_.state
    objTarget,  \* mountInfo_.objra/objdec; NoTarget is 1000
    known,      \* cameras with an entry in camInfoVec_
    online,     \* those whose entry holds a connection
    camState,   \* info.state of each entry
    camonline, exposing, waitflat,   \* the counters of SystemState
    plan,       \* plan_
    planState,  \* plan_state_->state, the last status published
    pending,    \* the plan NotifyPlan is about to store
    at,         \* [Threads -> Labels], what each thread does next
    down,       \* "no", or the thread that read through a null pointer
    tmend,      \* OP's local plan end is a date
    expired,    \* that date has passed by more than an exposure
    told,       \* ghost: exposure command each camera has yet to carry out
    sent,       \* ghost: the description of plan was written to the cameras
    wild,       \* ghost: some entry started with an exposing state
    raced       \* ghost: a thread changed what another relied on

mountVars == <<pool, tcpMount, mountState, objTarget>>
camVars   == <<known, online, camState, camonline, exposing, waitflat>>
planVars  == <<plan, planState, pending>>
opVars    == <<tmend, expired>>
ghostVars == <<told, sent, wild, raced>>
vars      == <<mountVars, camVars, planVars, at, down, opVars, ghostVars>>

Threads == {"GC", "OS", "OP"}

(* Ending a plan; NotifyPlan; a read of plan_ for a log or a returning camera;
   process_new_plan and the rest of thread_obsplan. *)
EndLabels   == {"target", "cameras", "ending", "reset", "publish"}
GcLabels    == {"replace", "store", "catalog", "tail", "look"}
StartLabels == {"check", "decide", "aim", "start", "describe", "announce", "deadline"}
Labels      == {"idle", "timeout"} \cup EndLabels \cup GcLabels \cup StartLabels

Commands == {"none", "start", "stop"}

MountTypeOK ==
    /\ pool \subseteq MountConns
    /\ tcpMount \in MountConns \cup {NoConn}
    /\ mountState \in Int
    /\ objTarget \in Targets \cup {NoTarget}

CameraTypeOK ==
    /\ known \subseteq Cams
    /\ online \subseteq known
    /\ camState \in [Cams -> Int]
    /\ camonline \in Nat /\ exposing \in Nat /\ waitflat \in Nat
    /\ told \in [Cams -> Commands]

PlanTypeOK ==
    /\ plan \in Plans \cup {NoPlan}
    /\ planState \in PlanCodes
    /\ pending \in Plans \cup {NoPlan}
    /\ sent \in BOOLEAN /\ raced \in BOOLEAN /\ wild \in BOOLEAN

ThreadTypeOK ==
    /\ at \in [Threads -> Labels]
    /\ at["GC"] \in {"idle"} \cup EndLabels \cup GcLabels
    /\ at["OS"] \in {"idle", "ending", "reset", "publish"}
    /\ at["OP"] \in {"idle", "timeout"} \cup EndLabels \cup StartLabels
    /\ down \in {"no"} \cup Threads
    /\ tmend \in BOOLEAN /\ expired \in BOOLEAN

(* The counters are natural numbers: no decrement goes below zero.  Every
   thread is at a place of its own. *)
TypeOK == MountTypeOK /\ CameraTypeOK /\ PlanTypeOK /\ ThreadTypeOK

Init ==
    /\ pool = {} /\ tcpMount = NoConn
    /\ mountState = MOUNT_ERROR /\ objTarget = NoTarget
    /\ known = {} /\ online = {}
    /\ camState = [c \in Cams |-> CAMCTL_ERROR]
    /\ camonline = 0 /\ exposing = 0 /\ waitflat = 0
    /\ plan = NoPlan /\ planState = OBSPLAN_MIN
    /\ pending = NoPlan
    /\ at = [t \in Threads |-> "idle"] /\ down = "no"
    /\ tmend = FALSE /\ expired = FALSE
    /\ told = [c \in Cams |-> "none"] /\ sent = FALSE
    /\ wild = FALSE /\ raced = FALSE

-----------------------------------------------------------------------------
(* SystemState: the counters, with their guarded decrements. *)

DecrementUnguarded(n) == n - 1   \* mutant

Decrement(n) == IF n > 0 THEN n - 1 ELSE n

CameraOnlineUp(on) == IF on THEN camonline + 1 ELSE camonline   \* mutant

CameraOnline(on) == IF on THEN camonline + 1 ELSE Decrement(camonline)

(* plan_.unique(): NotifyPlan holds the plan until its handler returns. *)
Unique == plan # NoPlan /\ at["GC"] \notin {"catalog", "tail"}

(* A camera entry counts as exposing. *)
Busy(s) == s > CAMCTL_IDLE

Exposing == {c \in Cams : Busy(camState[c])}

(* expose2camera: the command reaches the cameras of S that are connected. *)
Tell(cmd, S) == [c \in Cams |-> IF c \in S \cap online THEN cmd ELSE told[c]]

-----------------------------------------------------------------------------
(* Threads. *)

Go(t, label) == at' = [at EXCEPT ![t] = label]

(* The process dies of a null pointer that t reads. *)
NullRead(t) ==
    /\ down' = t
    /\ UNCHANGED <<mountVars, camVars, planVars, at, opVars, ghostVars>>

(* t has tested plan_ or tcpMount_ and not yet done what depends on it, or is
   between changing plan_ and publishing what became of it. *)
Relies(t) ==
    \/ at[t] \in {"reset", "publish", "catalog", "look", "timeout"} \cup StartLabels
    \/ t = "OP" /\ at[t] = "target"

(* t changes the plan or its status. *)
DisturbBy(t) == raced' = (raced \/ \E u \in Threads \ {t} : Relies(u))

(* t changes the mount or its target, on which only OP relies. *)
TurnBy(t) == raced' = (raced \/ (t # "OP" /\ Relies("OP")))

-----------------------------------------------------------------------------
(* Ending the plan: Abort, run by GC and OP; the last part also by OS. *)

(* The caller of Abort goes on, with storing a plan if it is NotifyPlan. *)
Return(t) == IF t = "GC" /\ pending # NoPlan THEN "store" ELSE "idle"

(* tcpMount_.use_count() *)
BeginAbort(t) == Go(t, IF tcpMount # NoConn THEN "target" ELSE "cameras")

(* The mount is told to stop, its target forgotten. *)
StopMount(t) ==
    /\ at[t] = "target"
    /\ \/ tcpMount = NoConn /\ NullRead(t)
       \/ /\ tcpMount # NoConn
          /\ objTarget' = NoTarget
          /\ Go(t, "cameras") /\ TurnBy(t)
          /\ UNCHANGED <<pool, tcpMount, mountState, camVars, planVars, down,
                         opVars, told, sent, wild>>

StopAllButOne == told' = IF exposing > 1 THEN Tell("stop", Cams) ELSE told   \* mutant

(* Cameras are told to stop if any is counted as exposing. *)
StopAll == told' = IF exposing > 0 THEN Tell("stop", Cams) ELSE told

StopCameras(t) ==
    /\ at[t] = "cameras" /\ StopAll /\ Go(t, "ending")
    /\ UNCHANGED <<mountVars, camVars, planVars, down, opVars, sent, wild, raced>>

TestPlan(t) ==
    /\ at[t] = "ending"
    /\ Go(t, IF Unique THEN "reset" ELSE Return(t))
    /\ UNCHANGED <<mountVars, camVars, planVars, down, opVars, ghostVars>>

ResetNothing(t) ==   \* mutant
    /\ at[t] = "reset" /\ Go(t, "publish") /\ DisturbBy(t)
    /\ UNCHANGED <<mountVars, camVars, planVars, down, opVars, told, sent, wild>>

(* plan_->plan_sn is logged, plan_ reset.  Where another thread has reset it
   since the test, that was before the read or after it. *)
ResetPlan(t) ==
    /\ at[t] = "reset"
    /\ \/ plan = NoPlan /\ NullRead(t)
       \/ /\ plan' = NoPlan
          /\ Go(t, "publish") /\ DisturbBy(t)
          /\ UNCHANGED <<mountVars, camVars, planState, pending, down, opVars,
                         told, sent, wild>>

PublishEnd(t) ==
    /\ at[t] = "publish"
    /\ planState' = IF t = "OS" THEN OBSPLAN_OVER ELSE OBSPLAN_INTERRUPTED
    /\ Go(t, Return(t)) /\ DisturbBy(t)
    /\ UNCHANGED <<mountVars, camVars, plan, pending, down, opVars, told, sent, wild>>

Ending(t) ==
    StopMount(t) \/ StopCameras(t) \/ TestPlan(t) \/ ResetPlan(t) \/ PublishEnd(t)

-----------------------------------------------------------------------------
(* GC: client commands. *)

Idle == at["GC"] = "idle"

(* NotifyPlan: refused while a manual exposure runs (no change then) *)
NotifyPlan(p) ==
    /\ Idle /\ (Unique \/ exposing = 0)
    /\ pending' = p /\ Go("GC", "replace")
    /\ UNCHANGED <<mountVars, camVars, plan, planState, down, opVars, ghostVars>>

ReplaceNoAbort ==   \* mutant
    /\ at["GC"] = "replace" /\ Go("GC", "store")
    /\ UNCHANGED <<mountVars, camVars, planVars, down, opVars, ghostVars>>

(* An earlier plan is aborted first. *)
ReplacePlan ==
    /\ at["GC"] = "replace"
    /\ IF Unique THEN BeginAbort("GC") ELSE Go("GC", "store")
    /\ UNCHANGED <<mountVars, camVars, planVars, down, opVars, ghostVars>>

StorePlan ==
    /\ at["GC"] = "store"
    /\ plan' = pending /\ pending' = NoPlan /\ sent' = FALSE
    /\ Go("GC", "catalog") /\ DisturbBy("GC")
    /\ UNCHANGED <<mountVars, camVars, planState, down, opVars, told, wild>>

(* The plan is published, through plan_; with nobody in the middle of acting
   on another plan, all threads agree on the new one. *)
CatalogPlan ==
    /\ at["GC"] = "catalog"
    /\ \/ plan = NoPlan /\ NullRead("GC")
       \/ /\ planState' = OBSPLAN_CATALOGED
          /\ Go("GC", "tail")
          /\ raced' = (plan = NoPlan \/ \E u \in {"OS", "OP"} : Relies(u))
          /\ UNCHANGED <<mountVars, camVars, plan, pending, down, opVars,
                         told, sent, wild>>

ReleasePlan ==
    /\ at["GC"] = "tail" /\ Go("GC", "idle")
    /\ UNCHANGED <<mountVars, camVars, planVars, down, opVars, ghostVars>>

Abort ==
    /\ Idle /\ BeginAbort("GC")
    /\ UNCHANGED <<mountVars, camVars, planVars, down, opVars, ghostVars>>

(* Park: as Abort, but a mount that parks is left alone. *)
Park ==
    /\ Idle
    /\ Go("GC", IF tcpMount # NoConn /\ mountState \notin {MOUNT_PARKED, MOUNT_PARKING}
                THEN "target" ELSE "cameras")
    /\ UNCHANGED <<mountVars, camVars, planVars, down, opVars, ghostVars>>

(* Slewto and TakeImage are refused while there is a plan: plan_->plan_sn is
   logged. *)
Refuse ==
    /\ Idle /\ Unique /\ Go("GC", "look")
    /\ UNCHANGED <<mountVars, camVars, planVars, down, opVars, ghostVars>>

(* plan_ is read after its test; another thread that has reset it since may
   have done so before the read. *)
Look ==
    /\ at["GC"] = "look"
    /\ \/ plan = NoPlan /\ NullRead("GC")
       \/ /\ Go("GC", "idle")
          /\ UNCHANGED <<mountVars, camVars, planVars, down, opVars, ghostVars>>

Slewto(t) ==
    /\ Idle /\ ~Unique /\ tcpMount # NoConn
    /\ objTarget' = t /\ TurnBy("GC")
    /\ UNCHANGED <<pool, tcpMount, mountState, camVars, planVars, at, down, opVars,
                   told, sent, wild>>

FindHome ==
    /\ Idle /\ tcpMount # NoConn
    /\ objTarget' = NoTarget /\ TurnBy("GC")
    /\ UNCHANGED <<pool, tcpMount, mountState, camVars, planVars, at, down, opVars,
                   told, sent, wild>>

(* TakeImage: S is one camera, or all when the command names none. *)
TakeImage(S) ==
    /\ Idle /\ ~Unique
    /\ told' = Tell("start", S)
    /\ UNCHANGED <<mountVars, camVars, planVars, at, down, opVars, sent, wild, raced>>

-----------------------------------------------------------------------------
(* GC: the mount. *)

MountConnect(m) ==
    /\ m \notin pool
    /\ pool' = pool \cup {m}
    /\ UNCHANGED <<tcpMount, mountState, objTarget, camVars, planVars, at, down,
                   opVars, ghostVars>>

(* NotifyMountState on a mount in state old: arriving on target while there is
   a plan starts the exposures (arriving after guiding only tells the cameras
   so); a code outside the enum is ignored. *)
Arrived(old, new) == old = MOUNT_SLEWING /\ new = MOUNT_TRACKING

NotifyMountState(old, new) ==
    IF new > MOUNT_MIN /\ new < MOUNT_MAX
    THEN /\ mountState' = new
         /\ told' = IF Arrived(old, new) /\ plan # NoPlan
                    THEN Tell("start", Cams) ELSE told
    ELSE mountState' = old /\ told' = told

(* A GWAC mount reports its state: the reporting connection is coupled, if it
   is not yet, and the state is then compared with what was known before. *)
MountStatus(m, new) ==
    /\ Gwac /\ Idle /\ m \in pool
    /\ tcpMount' = m
    /\ NotifyMountState(IF tcpMount = m THEN mountState ELSE MOUNT_MIN, new)
    /\ UNCHANGED <<pool, objTarget, camVars, planVars, at, down, opVars, sent, wild,
                   raced>>

(* A GFT mount is handed over to the system by its first message, and its later
   messages are not evaluated; a second one is dropped. *)
CoupleMountGft(m) ==
    /\ ~Gwac /\ Idle /\ m \in pool
    /\ pool' = pool \ {m}
    /\ IF tcpMount = NoConn
       THEN tcpMount' = m /\ mountState' = MOUNT_MIN
       ELSE UNCHANGED <<tcpMount, mountState>>
    /\ UNCHANGED <<objTarget, camVars, planVars, at, down, opVars, ghostVars>>

DecoupleMountKept(m) ==   \* mutant
    /\ mountState' = IF Gwac /\ tcpMount = m THEN MOUNT_ERROR ELSE mountState
    /\ UNCHANGED <<tcpMount, raced>>

DecoupleMount(m) ==
    IF Gwac /\ tcpMount = m
    THEN tcpMount' = NoConn /\ mountState' = MOUNT_ERROR /\ TurnBy("GC")
    ELSE UNCHANGED <<tcpMount, mountState, raced>>

MountClose(m) ==
    /\ Idle /\ m \in pool
    /\ pool' = pool \ {m}
    /\ DecoupleMount(m)
    /\ UNCHANGED <<objTarget, camVars, planVars, at, down, opVars, told, sent, wild>>

-----------------------------------------------------------------------------
(* GC: coupling of a camera.  A new entry starts with the uninitialized state
   of KVCamera; a camera that comes back is sent the plan, which is read after
   its test, and resumes it if the mount tracks. *)
CoupleCamera(c) ==
    /\ Idle /\ c \notin online
    /\ known' = known \cup {c} /\ online' = online \cup {c}
    /\ camonline' = CameraOnline(TRUE)
    /\ IF c \in known
       THEN /\ UNCHANGED <<camState, wild>>
            /\ told' = IF Unique /\ mountState = MOUNT_TRACKING
                       THEN [told EXCEPT ![c] = "start"] ELSE told
            /\ Go("GC", IF Unique THEN "look" ELSE "idle")
       ELSE /\ \E s \in FreshStates :
                 /\ camState' = [camState EXCEPT ![c] = s]
                 /\ wild' = (wild \/ Busy(s))
            /\ UNCHANGED <<told, at>>
    /\ UNCHANGED <<mountVars, exposing, waitflat, planVars, down, opVars, sent, raced>>

-----------------------------------------------------------------------------
(* OS: camera reports and closings. *)

CloseExposeNever(s)  == exposing              \* mutant
CloseExposeAlways(s) == Decrement(exposing)   \* mutant

(* The closed camera leaves the count of exposing ones if it was in it; the
   result of LeaveExpose is ignored: the plan is not declared over. *)
CloseExpose(s) == IF Busy(s) THEN Decrement(exposing) ELSE exposing

OnTcpClose(c) ==
    /\ at["OS"] = "idle" /\ c \in online
    /\ exposing' = CloseExpose(camState[c])
    /\ camonline' = CameraOnline(FALSE)
    /\ camState' = [camState EXCEPT ![c] = CAMCTL_ERROR]
    /\ online' = online \ {c}
    /\ told' = [told EXCEPT ![c] = "none"]
    /\ UNCHANGED <<mountVars, known, waitflat, planVars, at, down, opVars, sent, wild,
                   raced>>

(* A camera that stops exposing; with the last one the plan is to end. *)
LeaveExpose(c) ==
    /\ exposing' = Decrement(exposing)
    /\ told' = [told EXCEPT ![c] = "none"]
    /\ IF exposing' = 0 THEN Go("OS", "ending") ELSE at' = at
    /\ waitflat' = waitflat

EnterExpose == exposing' = exposing + 1 /\ UNCHANGED <<waitflat, told, at>>

(* Between two exposing states only waiting for the flat field is counted;
   when all wait, MSG_FLAT_RESLEW is posted, whose handler is empty. *)
ChangeWaitFlat(old, new) ==
    /\ waitflat' = IF new = CAMCTL_WAIT_FLAT THEN waitflat + 1
                   ELSE IF old = CAMCTL_WAIT_FLAT THEN Decrement(waitflat)
                   ELSE waitflat
    /\ UNCHANGED <<exposing, told, at>>

(* A report is taken over and counted.  Only OS reads the state of an entry, so
   the two are one step, that of the counter. *)
ProcessCamera(c, new) ==
    LET old == camState[c] IN
    /\ at["OS"] = "idle" /\ c \in online /\ new # old
    /\ camState' = [camState EXCEPT ![c] = new]
    /\ \/ Busy(old) /\ ~Busy(new) /\ LeaveExpose(c)
       \/ ~Busy(old) /\ Busy(new) /\ EnterExpose
       \/ (Busy(old) <=> Busy(new)) /\ ChangeWaitFlat(old, new)
    /\ UNCHANGED <<mountVars, known, online, camonline, planVars, down, opVars, sent,
                   wild, raced>>

-----------------------------------------------------------------------------
(* OP: thread_obsplan, awakened by NotifyPlan or every 10 seconds. *)

(* plan_.unique() *)
Wake ==
    /\ at["OP"] = "idle" /\ Unique
    /\ Go("OP", "check")
    /\ UNCHANGED <<mountVars, camVars, planVars, down, opVars, ghostVars>>

StartableNoMount ==   \* mutant
    planState = OBSPLAN_CATALOGED /\ camonline > 0 /\ exposing = 0

StartableTracking ==   \* mutant
    /\ planState = OBSPLAN_CATALOGED
    /\ mountState = MOUNT_TRACKING /\ camonline > 0 /\ exposing = 0

Startable ==
    /\ planState = OBSPLAN_CATALOGED
    /\ tcpMount # NoConn /\ camonline > 0 /\ exposing = 0

CheckPlan ==
    /\ at["OP"] = "check"
    /\ Go("OP", IF Startable THEN "decide"
                ELSE IF planState = OBSPLAN_RUNNING /\ tmend THEN "timeout"
                ELSE "idle")
    /\ UNCHANGED <<mountVars, camVars, planVars, down, opVars, ghostVars>>

(* process_new_plan: the target must be approached unless the plan needs none
   or it is the target of the last pointing. *)
SlewNever(p) == FALSE   \* mutant

SlewRequired(p) == p \notin Still /\ TargetOf[p] # objTarget

DecideSlew ==
    /\ at["OP"] = "decide"
    /\ \/ plan = NoPlan /\ NullRead("OP")
       \/ /\ plan # NoPlan
          /\ Go("OP", IF SlewRequired(plan) THEN "aim" ELSE "start")
          /\ UNCHANGED <<mountVars, camVars, planVars, down, opVars, ghostVars>>

(* The mount is sent to the target of the plan. *)
AimMount ==
    /\ at["OP"] = "aim"
    /\ \/ (plan = NoPlan \/ tcpMount = NoConn) /\ NullRead("OP")
       \/ /\ plan # NoPlan /\ tcpMount # NoConn
          /\ objTarget' = TargetOf[plan] /\ Go("OP", "describe")
          /\ UNCHANGED <<pool, tcpMount, mountState, camVars, planVars, down, opVars,
                         ghostVars>>

WritePlanOnSlew == sent' = (at["OP"] = "describe")   \* mutant

(* write2camera of the plan's description. *)
WritePlan == sent' = TRUE

(* The cameras get the plan, and start if the mount need not move. *)
WriteCameras ==
    /\ at["OP"] \in {"start", "describe"}
    /\ \/ plan = NoPlan /\ NullRead("OP")
       \/ /\ plan # NoPlan
          /\ WritePlan
          /\ told' = IF at["OP"] = "start" THEN Tell("start", Cams) ELSE told
          /\ Go("OP", "announce")
          /\ UNCHANGED <<mountVars, camVars, planVars, down, opVars, wild, raced>>

(* plan_->plan_sn is copied and the status published. *)
PublishRunning ==
    /\ at["OP"] = "announce"
    /\ \/ plan = NoPlan /\ NullRead("OP")
       \/ /\ planState' = OBSPLAN_RUNNING
          /\ Go("OP", "deadline") /\ DisturbBy("OP")
          /\ UNCHANGED <<mountVars, camVars, plan, pending, down, opVars, told, sent,
                         wild>>

(* plan_->plan_end *)
ReadDeadline ==
    /\ at["OP"] = "deadline"
    /\ \/ plan = NoPlan /\ NullRead("OP")
       \/ /\ plan # NoPlan
          /\ tmend' = (plan \in Timed) /\ expired' = FALSE
          /\ Go("OP", "idle")
          /\ UNCHANGED <<mountVars, camVars, planVars, down, ghostVars>>

(* External: time passes the end of the plan by more than an exposure. *)
Expire ==
    /\ tmend /\ ~expired
    /\ expired' = TRUE
    /\ UNCHANGED <<mountVars, camVars, planVars, at, down, tmend, ghostVars>>

ObsplanTimeoutExposing ==   \* mutant
    /\ at["OP"] = "timeout"
    /\ IF expired /\ exposing > 0 THEN BeginAbort("OP") ELSE Go("OP", "idle")
    /\ UNCHANGED <<mountVars, camVars, planVars, down, opVars, ghostVars>>

(* plan_->exptime is compared with the time since the end. *)
ObsplanTimeout ==
    /\ at["OP"] = "timeout"
    /\ \/ plan = NoPlan /\ NullRead("OP")
       \/ /\ plan # NoPlan
          /\ IF expired THEN BeginAbort("OP") ELSE Go("OP", "idle")
          /\ UNCHANGED <<mountVars, camVars, planVars, down, opVars, ghostVars>>

(* External: systemd starts the server again after a null read. *)
Restart ==
    /\ down # "no" /\ down' = "no"
    /\ pool' = {} /\ tcpMount' = NoConn
    /\ mountState' = MOUNT_ERROR /\ objTarget' = NoTarget
    /\ known' = {} /\ online' = {}
    /\ camState' = [c \in Cams |-> CAMCTL_ERROR]
    /\ camonline' = 0 /\ exposing' = 0 /\ waitflat' = 0
    /\ plan' = NoPlan /\ planState' = OBSPLAN_MIN /\ pending' = NoPlan
    /\ at' = [t \in Threads |-> "idle"]
    /\ tmend' = FALSE /\ expired' = FALSE
    /\ told' = [c \in Cams |-> "none"] /\ sent' = FALSE
    /\ wild' = FALSE /\ raced' = FALSE

-----------------------------------------------------------------------------
ClientStep ==
    \/ \E p \in Plans : NotifyPlan(p)
    \/ Abort \/ Park \/ Refuse \/ FindHome
    \/ \E t \in Targets : Slewto(t)
    \/ \E S \in {Cams} \cup {{c} : c \in Cams} : TakeImage(S)

MountStep ==
    \E m \in MountConns :
        \/ MountConnect(m)
        \/ \E s \in MountReports : MountStatus(m, s)
        \/ CoupleMountGft(m)
        \/ MountClose(m)

CameraStep ==
    \E c \in Cams :
        \/ CoupleCamera(c)
        \/ OnTcpClose(c)
        \/ \E s \in CamReports : ProcessCamera(c, s)

(* A handler goes on. *)
GcStep ==
    Ending("GC") \/ ReplacePlan \/ StorePlan \/ CatalogPlan \/ ReleasePlan \/ Look

OsStep == Ending("OS")

ObsplanStep ==
    \/ Wake \/ CheckPlan \/ DecideSlew \/ AimMount \/ WriteCameras
    \/ PublishRunning \/ ReadDeadline \/ ObsplanTimeout
    \/ Ending("OP")

Next ==
    \/ /\ down = "no"
       /\ \/ ClientStep \/ MountStep \/ CameraStep
          \/ GcStep \/ OsStep \/ ObsplanStep \/ Expire
    \/ Restart

(* GC and OS finish a handler they entered, thread_obsplan wakes at least every
   10 seconds, time passes, systemd starts a dead server again.  Nothing is
   assumed of clients, mounts or cameras. *)
Fairness ==
    /\ WF_vars(down = "no" /\ GcStep)
    /\ WF_vars(down = "no" /\ OsStep)
    /\ WF_vars(down = "no" /\ ObsplanStep)
    /\ WF_vars(down = "no" /\ Expire)
    /\ WF_vars(Restart)

Spec == Init /\ [][Next]_vars

FairSpec == Spec /\ Fairness

-----------------------------------------------------------------------------
(* Properties. *)

(* The number of cameras on line is counted right through every coupling,
   closing and coming back, though GC increments it and OS decrements it. *)
CamonlineExact == camonline = Cardinality(online)

(* No phantom exposure: the server never counts more exposing cameras than it
   has entries in an exposing state, so that idle cameras always let the next
   plan start (thread_obsplan) and be accepted (NotifyPlan).  Holds whatever
   value an uninitialized state has. *)
NoPhantomExposure == exposing <= Cardinality(Exposing)

(* The count is exact unless some new entry started with an exposing state,
   whose first report then moves a counter it had not entered. *)
ExposingExact == wild \/ exposing = Cardinality(Exposing)

(* A camera without a connection is recorded in error, hence not exposing: the
   strengthening the two counts rest on. *)
OfflineInError == \A c \in Cams \ online : camState[c] = CAMCTL_ERROR

(* A plan is declared over only when no camera of the system, the reporting
   one included, is still recorded as exposing, though GC goes on coupling
   cameras between the last report and the status. *)
OverIsQuiet ==
    [][planState' = OBSPLAN_OVER /\ planState # OBSPLAN_OVER
         => wild \/ Exposing' = {}]_vars

(* Whenever Abort or Park gets to the cameras, every connected one that is
   recorded as exposing is told to stop: the counter that decides is never
   zero by mistake.  A camera that has not reported yet, or reports afterwards,
   is not told. *)
InterruptStopsExposing ==
    [][\A t \in Threads : at[t] = "cameras" /\ at'[t] = "ending"
         => wild \/ \A c \in Exposing \cap online : told'[c] = "stop"]_vars

(* As long as no thread changes the plan under another, the system holds a plan
   exactly while that plan's end has not been published, but for the moment
   between the two in the thread that ends or stores it. *)
Open == planState \in {OBSPLAN_CATALOGED, OBSPLAN_RUNNING}
HeldPlanIsOpen ==
    raced \/
    /\ (\E t \in Threads : at[t] = "publish") => plan = NoPlan /\ Open
    /\ at["GC"] = "catalog" => plan # NoPlan /\ ~Open
    /\ (\A t \in Threads : at[t] \notin {"publish", "catalog"})
          => (plan # NoPlan <=> Open)

(* The statuses published follow the life of one plan after another, from one
   plan that is cataloged undisturbed until a thread changes what another
   relies on: there the abstract status is lost (Blank), as it is when the
   server dies, and the next such plan starts it again. *)
Lifecycle == INSTANCE PlanLifecycle
    WITH Cataloged <- OBSPLAN_CATALOGED, Running <- OBSPLAN_RUNNING,
         Over <- OBSPLAN_OVER, Interrupted <- OBSPLAN_INTERRUPTED,
         Blank <- OBSPLAN_MIN,
         status <- IF raced THEN OBSPLAN_MIN ELSE planState
LifecycleSpec == Lifecycle!Spec

(* The mount a GWAC system writes to is never one whose close GC has handled,
   even when two connections report for the same mount. *)
MountIsOpen == Gwac => tcpMount \in pool \cup {NoConn}

(* The tests of every thread protect the reads of plan_ and tcpMount_ behind
   them: a null pointer is read only after another thread changed the plan, its
   status or the mount in between. *)
CrashOnlyWhenRaced == down # "no" => raced

(* A plan is published as running only after its description was written to
   the cameras, unless it replaced another while that one was being started. *)
RunningWasSent ==
    plan # NoPlan /\ planState = OBSPLAN_RUNNING => sent \/ raced

(* A GFT mount's states are never evaluated, so a plan's exposures start only
   where the mount was last sent, never on the way to another target, unless
   the target or the plan changed while thread_obsplan was starting it. *)
StartsOnTarget ==
    [][\A c \in Cams : (told'[c] = "start" /\ told[c] # "start" /\ plan # NoPlan)
         => raced \/ plan \in Still \/ objTarget' = TargetOf[plan]]_vars

(* A cataloged plan with a mount, a camera and no exposure under way does not
   wait for ever: lost notifications are made up for by the 10 s period. *)
StartableNow ==
    /\ plan # NoPlan /\ planState = OBSPLAN_CATALOGED
    /\ tcpMount # NoConn /\ camonline > 0 /\ exposing = 0
StartableStarts == StartableNow ~> ~StartableNow

(* A running plan that has an end is ended, whatever its cameras report. *)
RunningTimed == plan # NoPlan /\ planState = OBSPLAN_RUNNING /\ tmend
TimedPlanEnds == RunningTimed ~> ~RunningTimed

-----------------------------------------------------------------------------
(* What the documentation says and the code does not do. *)

(* AstroDeviceDef.h calls the status over a completed plan; a plan that has
   not run cannot be completed. *)
OverOnlyAfterRunning ==
    [][planState' = OBSPLAN_OVER /\ planState # OBSPLAN_OVER
         => planState = OBSPLAN_RUNNING]_vars

=============================================================================
