--------------------------- MODULE ObssPlan_proofs ---------------------------
(***************************************************************************)
(* Theorems about ObssPlan, for every set of cameras, plans, targets and   *)
(* connections, every state a device may report, every value a fresh entry *)
(* may hold and both kinds of system.                                      *)
(***************************************************************************)
EXTENDS ObssPlan, FiniteSetTheorems, TLAPS

(* Codes in the order the server compares them. *)
USE DEF MOUNT_MIN, MOUNT_ERROR, MOUNT_PARKING, MOUNT_PARKED, MOUNT_SLEWING,
        MOUNT_TRACKING, MOUNT_GUIDING, MOUNT_MAX,
        CAMCTL_ERROR, CAMCTL_IDLE, CAMCTL_EXPOSING, CAMCTL_WAIT_FLAT,
        OBSPLAN_MIN, OBSPLAN_CATALOGED, OBSPLAN_RUNNING, OBSPLAN_OVER,
        OBSPLAN_INTERRUPTED, PlanCodes, Commands

-----------------------------------------------------------------------------
(* Frames: which steps touch which part of the state. *)

(* The counters and the entries change only with couplings, closings and
   reports. *)
LEMMA CameraFrame ==
    ASSUME Next, ~Restart, ~CameraStep
    PROVE  UNCHANGED camVars /\ wild' = wild
<1> USE DEF ghostVars
<1>1. CASE Ending("GC") \/ Ending("OS") \/ Ending("OP")
  BY <1>1 DEF Ending, StopMount, StopCameras, TestPlan, ResetPlan, PublishEnd,
     NullRead
<1>2. CASE ClientStep
  BY <1>2 DEF ClientStep, NotifyPlan, Abort, Park, Refuse, FindHome, Slewto,
     TakeImage
<1>3. CASE MountStep
  BY <1>3 DEF MountStep, MountConnect, MountStatus, CoupleMountGft, MountClose
<1>4. CASE ReplacePlan \/ StorePlan \/ CatalogPlan \/ ReleasePlan \/ Look
  BY <1>4 DEF ReplacePlan, StorePlan, CatalogPlan, ReleasePlan, Look, NullRead
<1>5. CASE Wake \/ CheckPlan \/ DecideSlew \/ AimMount \/ WriteCameras
  BY <1>5 DEF Wake, CheckPlan, DecideSlew, AimMount, WriteCameras, NullRead
<1>6. CASE PublishRunning \/ ReadDeadline \/ ObsplanTimeout \/ Expire
  BY <1>6 DEF PublishRunning, ReadDeadline, ObsplanTimeout, Expire, NullRead
<1> QED
  BY <1>1, <1>2, <1>3, <1>4, <1>5, <1>6
     DEF Next, GcStep, OsStep, ObsplanStep

(* The mount connections and the recorded state change only with what mounts
   send and close. *)
LEMMA MountFrame ==
    ASSUME Next, ~Restart, ~MountStep
    PROVE  UNCHANGED <<pool, tcpMount, mountState>>
<1> USE DEF mountVars
<1>1. CASE Ending("GC") \/ Ending("OS") \/ Ending("OP")
  BY <1>1 DEF Ending, StopMount, StopCameras, TestPlan, ResetPlan, PublishEnd,
     NullRead
<1>2. CASE ClientStep
  BY <1>2 DEF ClientStep, NotifyPlan, Abort, Park, Refuse, FindHome, Slewto,
     TakeImage
<1>3. CASE CameraStep
  BY <1>3 DEF CameraStep, CoupleCamera, OnTcpClose, ProcessCamera
<1>4. CASE ReplacePlan \/ StorePlan \/ CatalogPlan \/ ReleasePlan \/ Look
  BY <1>4 DEF ReplacePlan, StorePlan, CatalogPlan, ReleasePlan, Look, NullRead
<1>5. CASE Wake \/ CheckPlan \/ DecideSlew \/ AimMount \/ WriteCameras
  BY <1>5 DEF Wake, CheckPlan, DecideSlew, AimMount, WriteCameras, NullRead
<1>6. CASE PublishRunning \/ ReadDeadline \/ ObsplanTimeout \/ Expire
  BY <1>6 DEF PublishRunning, ReadDeadline, ObsplanTimeout, Expire, NullRead
<1> QED
  BY <1>1, <1>2, <1>3, <1>4, <1>5, <1>6
     DEF Next, GcStep, OsStep, ObsplanStep

-----------------------------------------------------------------------------
(* Types.  Each part of TypeOK is kept by every action. *)

(* A command leaves every camera with one of the three commands. *)
LEMMA TellType ==
    ASSUME CameraTypeOK, NEW cmd \in Commands, NEW S
    PROVE  Tell(cmd, S) \in [Cams -> Commands]
BY DEF CameraTypeOK, Tell

(* Stopping the cameras leaves each of them with one of the commands. *)
LEMMA StopAllType ==
    ASSUME CameraTypeOK, StopAll
    PROVE  told' \in [Cams -> Commands]
BY TellType DEF CameraTypeOK, StopAll

(* Whatever a step tells the cameras is a command. *)
LEMMA ToldTypes ==
    ASSUME TypeOK, Next
    PROVE  told' \in [Cams -> Commands]
<1> USE DEF TypeOK, CameraTypeOK, ghostVars
<1>1. CASE Ending("GC") \/ Ending("OS") \/ Ending("OP")
  BY <1>1, StopAllType DEF Ending, StopMount, StopCameras, TestPlan, ResetPlan,
     PublishEnd, NullRead
<1>2. CASE ClientStep
  BY <1>2, TellType DEF ClientStep, NotifyPlan, Abort, Park, Refuse, FindHome,
     Slewto, TakeImage
<1>3. CASE MountStep
  BY <1>3, TellType DEF MountStep, MountConnect, MountStatus, CoupleMountGft,
     MountClose, NotifyMountState
<1>4. CASE CameraStep
  BY <1>4 DEF CameraStep, CoupleCamera, OnTcpClose, ProcessCamera, LeaveExpose,
     EnterExpose, ChangeWaitFlat
<1>5. CASE ReplacePlan \/ StorePlan \/ CatalogPlan \/ ReleasePlan \/ Look
  BY <1>5 DEF ReplacePlan, StorePlan, CatalogPlan, ReleasePlan, Look, NullRead
<1>6. CASE Wake \/ CheckPlan \/ DecideSlew \/ AimMount \/ WriteCameras
  BY <1>6, TellType DEF Wake, CheckPlan, DecideSlew, AimMount, WriteCameras,
     NullRead
<1>7. CASE PublishRunning \/ ReadDeadline \/ ObsplanTimeout \/ Expire
  BY <1>7 DEF PublishRunning, ReadDeadline, ObsplanTimeout, Expire, NullRead
<1>8. CASE Restart
  BY <1>8 DEF Restart
<1> QED
  BY <1>1, <1>2, <1>3, <1>4, <1>5, <1>6, <1>7, <1>8
     DEF Next, GcStep, OsStep, ObsplanStep

(* Cameras, their counters and commands: the guard of the decrements keeps
   the counters natural numbers. *)
LEMMA CameraTypes ==
    ASSUME TypeOK, ParametersOK, Next
    PROVE  CameraTypeOK'
<1> USE DEF TypeOK, CameraTypeOK
<1>0. told' \in [Cams -> Commands]
  BY ToldTypes
<1>1. ASSUME NEW c \in Cams, CoupleCamera(c) PROVE CameraTypeOK'
  BY <1>0, <1>1 DEF CoupleCamera, CameraOnline, ParametersOK
<1>2. ASSUME NEW c \in Cams, OnTcpClose(c) PROVE CameraTypeOK'
  BY <1>0, <1>2 DEF OnTcpClose, CloseExpose, CameraOnline, Decrement
<1>3. ASSUME NEW c \in Cams, NEW s \in CamReports, ProcessCamera(c, s)
      PROVE CameraTypeOK'
  <2>1. camState' \in [Cams -> Int]
    BY <1>3 DEF ProcessCamera, ParametersOK
  <2>2. exposing' \in Nat /\ waitflat' \in Nat
    BY <1>3 DEF ProcessCamera, LeaveExpose, EnterExpose, ChangeWaitFlat, Decrement
  <2> QED BY <1>0, <1>3, <2>1, <2>2 DEF ProcessCamera
<1>4. CASE Restart
  BY <1>0, <1>4 DEF Restart
<1>5. CASE ~Restart /\ ~CameraStep
  BY <1>0, <1>5, CameraFrame DEF camVars
<1> QED BY <1>1, <1>2, <1>3, <1>4, <1>5 DEF CameraStep

(* Mount connections, state and target. *)
LEMMA MountTypes ==
    ASSUME TypeOK, ParametersOK, Next
    PROVE  MountTypeOK'
<1> USE DEF TypeOK, MountTypeOK, mountVars
<1>1. CASE Ending("GC") \/ Ending("OS") \/ Ending("OP")
  BY <1>1 DEF Ending, StopMount, StopCameras, TestPlan, ResetPlan, PublishEnd,
     NullRead
<1>2. CASE ClientStep
  BY <1>2 DEF ClientStep, NotifyPlan, Abort, Park, Refuse, FindHome, Slewto,
     TakeImage
<1>3. CASE MountStep
  BY <1>3 DEF MountStep, MountConnect, MountStatus, CoupleMountGft, MountClose,
     DecoupleMount, NotifyMountState, ParametersOK
<1>4. CASE CameraStep
  BY <1>4 DEF CameraStep, CoupleCamera, OnTcpClose, ProcessCamera
<1>5. CASE ReplacePlan \/ StorePlan \/ CatalogPlan \/ ReleasePlan \/ Look
  BY <1>5 DEF ReplacePlan, StorePlan, CatalogPlan, ReleasePlan, Look, NullRead
<1>6. CASE Wake \/ CheckPlan \/ DecideSlew \/ AimMount \/ WriteCameras
  BY <1>6 DEF Wake, CheckPlan, DecideSlew, AimMount, WriteCameras, NullRead,
     PlanTypeOK, ParametersOK
<1>7. CASE PublishRunning \/ ReadDeadline \/ ObsplanTimeout \/ Expire
  BY <1>7 DEF PublishRunning, ReadDeadline, ObsplanTimeout, Expire, NullRead
<1>8. CASE Restart
  BY <1>8 DEF Restart
<1> QED
  BY <1>1, <1>2, <1>3, <1>4, <1>5, <1>6, <1>7, <1>8
     DEF Next, GcStep, OsStep, ObsplanStep

(* The plan, its status and the ghosts. *)
LEMMA PlanTypes ==
    ASSUME TypeOK, ParametersOK, Next
    PROVE  PlanTypeOK'
<1> USE DEF TypeOK, PlanTypeOK, planVars, ghostVars, DisturbBy, TurnBy
<1>1. CASE Ending("GC") \/ Ending("OS") \/ Ending("OP")
  BY <1>1 DEF Ending, StopMount, StopCameras, TestPlan, ResetPlan, PublishEnd,
     NullRead
<1>2. CASE ClientStep
  BY <1>2 DEF ClientStep, NotifyPlan, Abort, Park, Refuse, FindHome, Slewto,
     TakeImage
<1>3. CASE MountStep
  BY <1>3 DEF MountStep, MountConnect, MountStatus, CoupleMountGft, MountClose,
     DecoupleMount
<1>4. CASE CameraStep
  BY <1>4 DEF CameraStep, CoupleCamera, OnTcpClose, ProcessCamera
<1>5. CASE ReplacePlan \/ StorePlan \/ CatalogPlan \/ ReleasePlan \/ Look
  BY <1>5 DEF ReplacePlan, StorePlan, CatalogPlan, ReleasePlan, Look, NullRead
<1>6. CASE Wake \/ CheckPlan \/ DecideSlew \/ AimMount \/ WriteCameras
  BY <1>6 DEF Wake, CheckPlan, DecideSlew, AimMount, WriteCameras, WritePlan,
     NullRead
<1>7. CASE PublishRunning \/ ReadDeadline \/ ObsplanTimeout \/ Expire
  BY <1>7 DEF PublishRunning, ReadDeadline, ObsplanTimeout, Expire, NullRead
<1>8. CASE Restart
  BY <1>8 DEF Restart
<1> QED
  BY <1>1, <1>2, <1>3, <1>4, <1>5, <1>6, <1>7, <1>8
     DEF Next, GcStep, OsStep, ObsplanStep

(* A thread that goes on reaches the named place; the others stay. *)
LEMMA GoOn ==
    ASSUME ThreadTypeOK, NEW t \in Threads, NEW label, Go(t, label)
    PROVE  at' = [u \in Threads |-> IF u = t THEN label ELSE at[u]]
BY DEF ThreadTypeOK, Go

(* Every thread goes to a place of its own, by whatever step. *)
LEMMA ThreadTypes ==
    ASSUME TypeOK, ParametersOK, Next
    PROVE  ThreadTypeOK'
<1> USE DEF TypeOK, ThreadTypeOK, opVars, Threads, Labels, EndLabels, GcLabels,
            StartLabels
<1>1. ASSUME NEW t \in Threads, Ending(t) PROVE ThreadTypeOK'
  <2>1. CASE StopMount(t)
    BY <2>1 DEF StopMount, NullRead, Go
  <2>2. CASE StopCameras(t)
    BY <2>2 DEF StopCameras, Go
  <2>3. CASE TestPlan(t)
    BY <2>3 DEF TestPlan, Return, Go
  <2>4. CASE ResetPlan(t)
    BY <2>4 DEF ResetPlan, NullRead, Go
  <2>5. CASE PublishEnd(t)
    BY <2>5 DEF PublishEnd, Return, Go
  <2> QED BY <1>1, <2>1, <2>2, <2>3, <2>4, <2>5 DEF Ending
<1>2. CASE ClientStep
  BY <1>2, GoOn DEF ClientStep, NotifyPlan, Abort, Park, Refuse, FindHome, Slewto,
     TakeImage, BeginAbort
<1>3. CASE MountStep
  BY <1>3 DEF MountStep, MountConnect, MountStatus, CoupleMountGft, MountClose
<1>4. ASSUME NEW c \in Cams,
             CoupleCamera(c) \/ OnTcpClose(c)
               \/ \E s \in CamReports : ProcessCamera(c, s)
      PROVE  ThreadTypeOK'
  <2>1. CASE CoupleCamera(c)
    BY <2>1 DEF CoupleCamera, Go
  <2>2. CASE OnTcpClose(c)
    BY <2>2 DEF OnTcpClose
  <2>3. ASSUME NEW s \in CamReports, ProcessCamera(c, s)
        PROVE  at' = at \/ Go("OS", "ending")
    BY <2>3 DEF ProcessCamera, LeaveExpose, EnterExpose, ChangeWaitFlat
  <2>4. ASSUME NEW s \in CamReports, ProcessCamera(c, s) PROVE ThreadTypeOK'
    BY <2>3, <2>4 DEF ProcessCamera, Go
  <2> QED BY <1>4, <2>1, <2>2, <2>4
<1>5. CASE ReplacePlan \/ StorePlan \/ CatalogPlan \/ ReleasePlan \/ Look
  BY <1>5, GoOn DEF ReplacePlan, StorePlan, CatalogPlan, ReleasePlan, Look, NullRead,
     BeginAbort
<1>6. CASE Wake \/ CheckPlan \/ DecideSlew \/ AimMount \/ WriteCameras
  BY <1>6, GoOn DEF Wake, CheckPlan, DecideSlew, AimMount, WriteCameras, NullRead
<1>7. CASE PublishRunning \/ Expire
  BY <1>7 DEF PublishRunning, Expire, NullRead, Go
<1>12. CASE ObsplanTimeout
  BY <1>12 DEF ObsplanTimeout, NullRead, BeginAbort, Go
<1>11. CASE ReadDeadline
  <2>1. CASE NullRead("OP")
    BY <2>1 DEF NullRead
  <2>2. CASE ~NullRead("OP")
    <3>1. tmend' = (plan \in Timed) /\ expired' = FALSE
      BY <1>11, <2>2 DEF ReadDeadline
    <3>2. tmend' \in BOOLEAN
      <4>1. tmend' = (plan \in Timed)
        BY <3>1
      <4>2. CASE plan \in Timed
        BY <4>1, <4>2
      <4>3. CASE plan \notin Timed
        BY <4>1, <4>3
      <4> QED BY <4>2, <4>3
    <3>3. down' = down /\ Go("OP", "idle")
      BY <1>11, <2>2 DEF ReadDeadline
    <3> QED BY <3>1, <3>2, <3>3 DEF Go
  <2> QED BY <2>1, <2>2
<1>8. CASE Restart
  BY <1>8 DEF Restart
<1>9. CASE Ending("GC") \/ Ending("OS") \/ Ending("OP")
  BY <1>1, <1>9 DEF Threads
<1>10. CASE CameraStep
  BY <1>4, <1>10 DEF CameraStep
<1> HIDE DEF TypeOK, ThreadTypeOK, opVars, Threads, Labels, EndLabels, GcLabels,
            StartLabels
<1> QED
  BY <1>2, <1>3, <1>5, <1>6, <1>7, <1>8, <1>9, <1>10, <1>11,
     <1>12
     DEF Next, GcStep, OsStep, ObsplanStep

(* The data members start within their types. *)
LEMMA InitType == Init => TypeOK
<1>1. Init => MountTypeOK
  BY DEF Init, MountTypeOK
<1>2. Init => CameraTypeOK
  BY DEF Init, CameraTypeOK
<1>3. Init => PlanTypeOK
  BY DEF Init, PlanTypeOK
<1>4. Init => ThreadTypeOK
  BY DEF Init, ThreadTypeOK, Threads, Labels
<1> QED BY <1>1, <1>2, <1>3, <1>4 DEF TypeOK

(* A step that changes nothing keeps the types. *)
LEMMA StutterType == ASSUME TypeOK, UNCHANGED vars PROVE TypeOK'
<1>1. MountTypeOK'
  BY DEF vars, mountVars, TypeOK, MountTypeOK
<1>2. CameraTypeOK'
  BY DEF vars, camVars, ghostVars, TypeOK, CameraTypeOK
<1>3. PlanTypeOK'
  BY DEF vars, planVars, ghostVars, TypeOK, PlanTypeOK
<1>4. ThreadTypeOK'
  BY DEF vars, opVars, TypeOK, ThreadTypeOK
<1> QED BY <1>1, <1>2, <1>3, <1>4 DEF TypeOK

(* Every step of the three threads keeps the types. *)
LEMMA NextType == TypeOK /\ [Next]_vars => TypeOK'
BY ParametersOK, MountTypes, CameraTypes, PlanTypes, ThreadTypes, StutterType
     DEF TypeOK

(* The state keeps its types; the counters of SystemState, decremented by two
   threads, are never negative, and OS never runs Abort as a whole. *)
THEOREM TypeCorrect == Spec => []TypeOK
BY InitType, NextType, PTL DEF Spec

-----------------------------------------------------------------------------
(* The mount connection. *)

(* A GWAC system never writes to a mount connection that GC has closed: only a
   connection of the pool is coupled, and its closing decouples it. *)
THEOREM MountOpen == Spec => []MountIsOpen
<1> USE DEF MountIsOpen
<1>1. Init => MountIsOpen
  BY DEF Init
<1>2. MountIsOpen /\ [Next]_vars => MountIsOpen'
  <2>1. ASSUME MountIsOpen, MountStep PROVE MountIsOpen'
    BY <2>1 DEF MountStep, MountConnect, MountStatus, CoupleMountGft, MountClose,
       DecoupleMount
  <2>2. ASSUME MountIsOpen, Restart PROVE MountIsOpen'
    BY <2>2 DEF Restart
  <2>3. ASSUME MountIsOpen, UNCHANGED <<pool, tcpMount, mountState>>
        PROVE  MountIsOpen'
    BY <2>3
  <2>4. UNCHANGED vars => UNCHANGED <<pool, tcpMount, mountState>>
    BY DEF vars, mountVars
  <2> QED BY <2>1, <2>2, <2>3, <2>4, MountFrame
<1> QED BY <1>1, <1>2, PTL DEF Spec

-----------------------------------------------------------------------------
(* The counters of SystemState against the camera entries. *)

(* The sets of entries that are counted are finite. *)
LEMMA FiniteCameraSets ==
    ASSUME ParametersOK, TypeOK
    PROVE  IsFiniteSet(online) /\ IsFiniteSet(Exposing)
BY FS_Subset DEF ParametersOK, TypeOK, CameraTypeOK, Exposing

(* How each camera action moves the set of entries recorded as exposing. *)
LEMMA CoupleExposing ==
    ASSUME TypeOK, OfflineInError, NEW c \in Cams, CoupleCamera(c)
    PROVE  /\ c \notin Exposing
           /\ \/ Exposing' = Exposing
              \/ Exposing' = Exposing \cup {c} /\ wild'
<1>1. c \notin Exposing
  BY DEF CoupleCamera, OfflineInError, Exposing, Busy
<1>2. CASE c \in known
  <2>1. camState' = camState
    BY <1>2 DEF CoupleCamera
  <2>2. Exposing' = Exposing
    BY <2>1 DEF Exposing
  <2> QED BY <1>1, <2>2
<1>3. CASE c \notin known
  <2>1. PICK s \in FreshStates : /\ camState' = [camState EXCEPT ![c] = s]
                                 /\ wild' = (wild \/ Busy(s))
    BY <1>3 DEF CoupleCamera
  <2>2. CASE Busy(s)
    <3>1. Exposing' = Exposing \cup {c}
      BY <2>1, <2>2 DEF Exposing, TypeOK, CameraTypeOK
    <3> QED BY <1>1, <2>1, <2>2, <3>1
  <2>3. CASE ~Busy(s)
    <3>1. Exposing' = Exposing
      BY <1>1, <2>1, <2>3 DEF Exposing, TypeOK, CameraTypeOK
    <3> QED BY <1>1, <3>1
  <2> QED BY <2>2, <2>3
<1> QED BY <1>1, <1>2, <1>3

(* A closed camera leaves the set, and no other does. *)
LEMMA CloseExposing ==
    ASSUME TypeOK, NEW c \in Cams, OnTcpClose(c)
    PROVE  Exposing' = Exposing \ {c}
BY DEF OnTcpClose, Exposing, Busy, TypeOK, CameraTypeOK

(* A report moves the reporting camera, and no other. *)
LEMMA ReportExposing ==
    ASSUME TypeOK, NEW c \in Cams, NEW s \in CamReports, ProcessCamera(c, s)
    PROVE  Exposing' = IF Busy(s) THEN Exposing \cup {c} ELSE Exposing \ {c}
<1>1. camState' = [camState EXCEPT ![c] = s]
  BY DEF ProcessCamera
<1>2. CASE Busy(s)
  BY <1>1, <1>2 DEF Exposing, TypeOK, CameraTypeOK
<1>3. CASE ~Busy(s)
  BY <1>1, <1>3 DEF Exposing, TypeOK, CameraTypeOK
<1> QED BY <1>2, <1>3

(* A step is one of the three camera actions, a restart, or leaves the entries
   and the counts alone. *)
LEMMA CameraCases ==
    ASSUME [Next]_vars
    PROVE  \/ UNCHANGED camVars /\ wild' = wild
           \/ Restart
           \/ \E c \in Cams :
                \/ CoupleCamera(c) \/ OnTcpClose(c)
                \/ \E s \in CamReports : ProcessCamera(c, s)
BY CameraFrame DEF CameraStep, vars, ghostVars

(* on_tcp_close records the error in the step that drops the connection. *)
LEMMA OfflineInErrorInductive ==
    ASSUME ParametersOK, TypeOK, OfflineInError, [Next]_vars
    PROVE  OfflineInError'
<1>1. CASE UNCHANGED camVars
  BY <1>1 DEF camVars, OfflineInError
<1>2. CASE Restart
  BY <1>2 DEF Restart, OfflineInError
<1>3. ASSUME NEW c \in Cams, CoupleCamera(c) PROVE OfflineInError'
  <2>1. online' = online \cup {c}
    BY <1>3 DEF CoupleCamera
  <2>2. \A d \in Cams \ {c} : camState'[d] = camState[d]
    BY <1>3 DEF CoupleCamera, TypeOK, CameraTypeOK
  <2> QED BY <2>1, <2>2 DEF OfflineInError
<1>4. ASSUME NEW c \in Cams, OnTcpClose(c) PROVE OfflineInError'
  BY <1>4 DEF OnTcpClose, OfflineInError, TypeOK, CameraTypeOK
<1>5. ASSUME NEW c \in Cams, NEW s \in CamReports, ProcessCamera(c, s)
      PROVE OfflineInError'
  BY <1>5 DEF ProcessCamera, OfflineInError, TypeOK, CameraTypeOK
<1> QED
  BY <1>1, <1>2, <1>3, <1>4, <1>5, CameraCases

(* Coupling and closing count the cameras on line one by one. *)
LEMMA CamonlineInductive ==
    ASSUME ParametersOK, TypeOK, CamonlineExact, [Next]_vars
    PROVE  CamonlineExact'
<1>1. CASE UNCHANGED camVars
  BY <1>1 DEF camVars, CamonlineExact
<1>2. CASE Restart
  BY <1>2, FS_EmptySet DEF Restart, CamonlineExact
<1>3. ASSUME NEW c \in Cams, CoupleCamera(c) PROVE CamonlineExact'
  <2>1. online' = online \cup {c} /\ c \notin online /\ camonline' = camonline + 1
    BY <1>3 DEF CoupleCamera, CameraOnline
  <2> QED BY <2>1, FiniteCameraSets, FS_AddElement DEF CamonlineExact
<1>4. ASSUME NEW c \in Cams, OnTcpClose(c) PROVE CamonlineExact'
  <2>1. online' = online \ {c} /\ c \in online /\ camonline' = Decrement(camonline)
    BY <1>4 DEF OnTcpClose, CameraOnline
  <2>2. Cardinality(online') = Cardinality(online) - 1
    BY <2>1, FiniteCameraSets, FS_RemoveElement
  <2>3. Cardinality(online) \in Nat /\ Cardinality(online') \in Nat
    BY <2>1, FiniteCameraSets, FS_CardinalityType, FS_RemoveElement
  <2> QED BY <2>1, <2>2, <2>3 DEF CamonlineExact, Decrement
<1>5. ASSUME NEW c \in Cams, NEW s \in CamReports, ProcessCamera(c, s)
      PROVE CamonlineExact'
  BY <1>5 DEF ProcessCamera, CamonlineExact
<1> QED
  BY <1>1, <1>2, <1>3, <1>4, <1>5, CameraCases

(* camonline is the number of connected cameras, through every coupling,
   closing and return. *)
THEOREM CamonlineCounted == Spec => []CamonlineExact
<1>1. Init => CamonlineExact
  BY FS_EmptySet DEF Init, CamonlineExact
<1>2. TypeOK /\ CamonlineExact /\ [Next]_vars => CamonlineExact'
  BY ParametersOK, CamonlineInductive
<1> QED BY <1>1, <1>2, TypeCorrect, PTL DEF Spec

(* A count that was not below the exposing entries is not after a step: with a
   guarded decrement it may only fall behind. *)
PhantomInv == OfflineInError /\ NoPhantomExposure

(* Each camera action changes the count by no more than it changes the set. *)
LEMMA PhantomInductive ==
    ASSUME ParametersOK, TypeOK, PhantomInv, [Next]_vars
    PROVE  NoPhantomExposure'
<1> USE DEF PhantomInv
<1>0. exposing \in Nat /\ Cardinality(Exposing) \in Nat /\ exposing <= Cardinality(Exposing)
  BY FiniteCameraSets, FS_CardinalityType DEF TypeOK, CameraTypeOK, NoPhantomExposure
<1>1. CASE UNCHANGED camVars
  BY <1>1 DEF camVars, NoPhantomExposure, Exposing
<1>2. CASE Restart
  <2>1. Exposing' = {}
    BY <1>2 DEF Restart, Exposing, Busy
  <2> QED BY <1>2, <2>1, FS_EmptySet DEF Restart, NoPhantomExposure
<1>3. ASSUME NEW c \in Cams, CoupleCamera(c) PROVE NoPhantomExposure'
  <2>1. exposing' = exposing
    BY <1>3 DEF CoupleCamera
  <2>2. Cardinality(Exposing') \in {Cardinality(Exposing), Cardinality(Exposing) + 1}
    BY <1>3, CoupleExposing, FiniteCameraSets, FS_AddElement
  <2> QED BY <1>0, <2>1, <2>2 DEF NoPhantomExposure
<1>4. ASSUME NEW c \in Cams, OnTcpClose(c) PROVE NoPhantomExposure'
  <2>1. c \in Exposing <=> Busy(camState[c])
    BY <1>4 DEF Exposing
  <2>2. Cardinality(Exposing') = IF c \in Exposing THEN Cardinality(Exposing) - 1
                                 ELSE Cardinality(Exposing)
    BY <1>4, CloseExposing, FiniteCameraSets, FS_RemoveElement
  <2>3. Cardinality(Exposing') \in Nat
    BY <1>4, CloseExposing, FiniteCameraSets, FS_RemoveElement, FS_CardinalityType
  <2>4. exposing' = IF c \in Exposing THEN Decrement(exposing) ELSE exposing
    BY <1>4, <2>1 DEF OnTcpClose, CloseExpose
  <2> QED BY <1>0, <2>2, <2>3, <2>4 DEF NoPhantomExposure, Decrement
<1>5. ASSUME NEW c \in Cams, NEW s \in CamReports, ProcessCamera(c, s)
      PROVE NoPhantomExposure'
  <2>1. Exposing' = IF Busy(s) THEN Exposing \cup {c} ELSE Exposing \ {c}
    BY <1>5, ReportExposing
  <2>2. c \in Exposing <=> Busy(camState[c])
    BY DEF Exposing
  <2>3. CASE Busy(camState[c]) /\ ~Busy(s)
    <3>1. exposing' = Decrement(exposing)
      BY <1>5, <2>3 DEF ProcessCamera, LeaveExpose
    <3>2. Cardinality(Exposing') = Cardinality(Exposing) - 1
      BY <2>1, <2>2, <2>3, FiniteCameraSets, FS_RemoveElement
    <3>3. Cardinality(Exposing') \in Nat
      BY <2>1, <2>3, FiniteCameraSets, FS_RemoveElement, FS_CardinalityType
    <3> QED BY <1>0, <3>1, <3>2, <3>3 DEF NoPhantomExposure, Decrement
  <2>4. CASE ~Busy(camState[c]) /\ Busy(s)
    <3>1. exposing' = exposing + 1
      BY <1>5, <2>4 DEF ProcessCamera, EnterExpose
    <3>2. Cardinality(Exposing') = Cardinality(Exposing) + 1
      BY <2>1, <2>2, <2>4, FiniteCameraSets, FS_AddElement
    <3> QED BY <1>0, <3>1, <3>2 DEF NoPhantomExposure
  <2>5. CASE Busy(camState[c]) <=> Busy(s)
    <3>1. exposing' = exposing
      BY <1>5, <2>5 DEF ProcessCamera, ChangeWaitFlat
    <3>2. Exposing' = Exposing
      BY <2>1, <2>2, <2>5
    <3> QED BY <1>0, <3>1, <3>2 DEF NoPhantomExposure
  <2> QED BY <2>3, <2>4, <2>5
<1> QED
  BY <1>1, <1>2, <1>3, <1>4, <1>5, CameraCases

(* The server never counts an exposure no camera is recorded to make, whatever
   an uninitialized state holds: an idle system accepts and starts plans. *)
THEOREM NoPhantom == Spec => []NoPhantomExposure
<1>1. Init => PhantomInv
  <2>1. Init => Exposing = {}
    BY DEF Init, Exposing, Busy
  <2> QED BY <2>1, FS_EmptySet DEF Init, PhantomInv, NoPhantomExposure, OfflineInError
<1>2. TypeOK /\ PhantomInv /\ [Next]_vars => PhantomInv'
  BY ParametersOK, PhantomInductive, OfflineInErrorInductive DEF PhantomInv
<1>3. PhantomInv => NoPhantomExposure
  BY DEF PhantomInv
<1> QED BY <1>1, <1>2, <1>3, TypeCorrect, PTL DEF Spec

-----------------------------------------------------------------------------
(* The exact count, as long as no uninitialized state was an exposing one. *)

ExactInv == OfflineInError /\ ExposingExact

(* As long as entries start idle, count and set change together. *)
LEMMA ExactInductive ==
    ASSUME ParametersOK, TypeOK, ExactInv, [Next]_vars
    PROVE  ExposingExact'
<1> USE DEF ExactInv
<1>6. CASE wild /\ ~Restart
  <2>1. wild'
    BY <1>6, CameraCases DEF CoupleCamera, OnTcpClose, ProcessCamera
  <2> QED BY <2>1 DEF ExposingExact
<1>2. CASE Restart
  <2>1. Exposing' = {}
    BY <1>2 DEF Restart, Exposing, Busy
  <2> QED BY <1>2, <2>1, FS_EmptySet DEF Restart, ExposingExact
<1> SUFFICES ASSUME ~wild, ~Restart PROVE ExposingExact'
  BY <1>6, <1>2
<1>0. /\ IsFiniteSet(Exposing)
      /\ Cardinality(Exposing) \in Nat
      /\ exposing = Cardinality(Exposing)
  BY FiniteCameraSets, FS_CardinalityType DEF ExposingExact
<1>1. CASE UNCHANGED camVars
  BY <1>1 DEF camVars, ExposingExact, Exposing
<1>3. ASSUME NEW c \in Cams, CoupleCamera(c) PROVE ExposingExact'
  <2>1. exposing' = exposing
    BY <1>3 DEF CoupleCamera
  <2>2. wild' \/ Exposing' = Exposing
    BY <1>3, CoupleExposing
  <2> QED BY <1>0, <2>1, <2>2 DEF ExposingExact
<1>4. ASSUME NEW c \in Cams, OnTcpClose(c) PROVE ExposingExact'
  <2>1. c \in Exposing <=> Busy(camState[c])
    BY <1>4 DEF Exposing
  <2>2. Cardinality(Exposing') = IF c \in Exposing THEN Cardinality(Exposing) - 1
                                 ELSE Cardinality(Exposing)
    BY <1>0, <1>4, CloseExposing, FS_RemoveElement
  <2>3. Cardinality(Exposing') \in Nat
    BY <1>0, <1>4, CloseExposing, FS_RemoveElement, FS_CardinalityType
  <2>4. exposing' = IF c \in Exposing THEN Decrement(exposing) ELSE exposing
    BY <1>4, <2>1 DEF OnTcpClose, CloseExpose
  <2> QED BY <1>0, <2>2, <2>3, <2>4 DEF ExposingExact, Decrement
<1>5. ASSUME NEW c \in Cams, NEW s \in CamReports, ProcessCamera(c, s)
      PROVE ExposingExact'
  <2>1. Exposing' = IF Busy(s) THEN Exposing \cup {c} ELSE Exposing \ {c}
    BY <1>5, ReportExposing
  <2>2. c \in Exposing <=> Busy(camState[c])
    BY DEF Exposing
  <2>3. CASE Busy(camState[c]) /\ ~Busy(s)
    <3>1. exposing' = Decrement(exposing)
      BY <1>5, <2>3 DEF ProcessCamera, LeaveExpose
    <3>2. Cardinality(Exposing') = Cardinality(Exposing) - 1
      BY <1>0, <2>1, <2>2, <2>3, FS_RemoveElement
    <3>3. Cardinality(Exposing') \in Nat
      BY <1>0, <2>1, <2>3, FS_RemoveElement, FS_CardinalityType
    <3> QED BY <1>0, <3>1, <3>2, <3>3 DEF ExposingExact, Decrement
  <2>4. CASE ~Busy(camState[c]) /\ Busy(s)
    <3>1. exposing' = exposing + 1
      BY <1>5, <2>4 DEF ProcessCamera, EnterExpose
    <3>2. Cardinality(Exposing') = Cardinality(Exposing) + 1
      BY <1>0, <2>1, <2>2, <2>4, FS_AddElement
    <3> QED BY <1>0, <3>1, <3>2 DEF ExposingExact
  <2>5. CASE Busy(camState[c]) <=> Busy(s)
    <3>1. exposing' = exposing
      BY <1>5, <2>5 DEF ProcessCamera, ChangeWaitFlat
    <3>2. Exposing' = Exposing
      BY <2>1, <2>2, <2>5
    <3> QED BY <1>0, <3>1, <3>2 DEF ExposingExact
  <2> QED BY <2>3, <2>4, <2>5
<1> QED
  BY <1>1, <1>3, <1>4, <1>5, CameraCases

(* The exact count and its strengthening hold in every state. *)
LEMMA ExactInvariant == Spec => []ExactInv
<1>1. Init => ExactInv
  <2>1. Init => Exposing = {}
    BY DEF Init, Exposing, Busy
  <2> QED BY <2>1, FS_EmptySet DEF Init, ExactInv, ExposingExact, OfflineInError
<1>2. TypeOK /\ ExactInv /\ [Next]_vars => ExactInv'
  BY ParametersOK, ExactInductive, OfflineInErrorInductive DEF ExactInv
<1> QED BY <1>1, <1>2, TypeCorrect, PTL DEF Spec

(* exposing counts the entries in an exposing state, through reports, closings
   and returns of any number of cameras, until an entry starts with a state
   that happens to be an exposing one. *)
THEOREM ExposingCounted == Spec => []ExposingExact
<1>1. ExactInv => ExposingExact
  BY DEF ExactInv
<1> QED BY <1>1, ExactInvariant, PTL

-----------------------------------------------------------------------------
(* The plan, its published status, and what the threads rely on. *)

(* The order of a GC handler: a plan waits to be stored until the earlier one is
   gone, and the mount GC has tested stays, as only GC decouples it. *)
GcOrder ==
    /\ at["GC"] \in {"replace", "store"} => pending # NoPlan
    /\ at["GC"] \in {"store", "publish"} => plan = NoPlan
    /\ at["GC"] = "target" => tcpMount # NoConn

(* Only one thread at a time is between changing plan_ and publishing what
   became of it, and no other then relies on the plan. *)
Alone ==
    \A t \in Threads : at[t] \in {"publish", "catalog"}
        => \A u \in Threads \ {t} : ~Relies(u)

(* What a thread relies on is still so: there is a plan, for OP a mount, and
   the plan is the one that was cataloged, written and pointed at. *)
StillHeld == \A t \in Threads : Relies(t) /\ at[t] # "publish" => plan # NoPlan

StillCoupled == at["OP"] \in {"decide", "aim", "target"} => tcpMount # NoConn

StillCataloged ==
    at["OP"] \in {"decide", "aim", "start", "describe", "announce"}
        => planState = OBSPLAN_CATALOGED

StillWritten ==
    \/ sent
    \/ at["OP"] # "announce" /\ (plan = NoPlan \/ planState # OBSPLAN_RUNNING)

StillAimed == at["OP"] = "start" => plan \in Still \/ objTarget = TargetOf[plan]

(* Held and open together, HeldPlanIsOpen without its exception. *)
HeldOpen ==
    /\ (\E t \in Threads : at[t] = "publish") => plan = NoPlan /\ Open
    /\ at["GC"] = "catalog" => plan # NoPlan /\ ~Open
    /\ (\A t \in Threads : at[t] \notin {"publish", "catalog"})
          => (plan # NoPlan <=> Open)

Agreed ==
    /\ HeldOpen /\ Alone /\ StillHeld /\ StillCoupled /\ StillCataloged
    /\ StillWritten /\ StillAimed

PlanInv == GcOrder /\ (raced \/ Agreed) /\ CrashOnlyWhenRaced

(* The order of GC's handlers is kept by every step. *)
LEMMA GcOrderInductive ==
    ASSUME TypeOK, ParametersOK, GcOrder, Next
    PROVE  GcOrder'
<1> USE DEF TypeOK, PlanTypeOK, ThreadTypeOK, GcOrder, planVars, mountVars, Threads
<1>1. ASSUME NEW t \in Threads, Ending(t) PROVE GcOrder'
  <2>1. CASE StopMount(t)
    BY <2>1 DEF StopMount, NullRead, Go
  <2>2. CASE StopCameras(t)
    BY <2>2 DEF StopCameras, Go
  <2>3. CASE TestPlan(t)
    BY <2>3 DEF TestPlan, Return, Go, Unique
  <2>4. CASE ResetPlan(t)
    BY <2>4 DEF ResetPlan, NullRead, Go
  <2>5. CASE PublishEnd(t)
    BY <2>5 DEF PublishEnd, Return, Go
  <2> QED BY <1>1, <2>1, <2>2, <2>3, <2>4, <2>5 DEF Ending
<1>2. CASE ClientStep
  BY <1>2, GoOn DEF ClientStep, NotifyPlan, Abort, Park, Refuse, FindHome, Slewto,
     TakeImage, BeginAbort, Idle, ParametersOK, Go
<1>3. CASE MountStep
  BY <1>3 DEF MountStep, MountConnect, MountStatus, CoupleMountGft, MountClose, Idle
<1>4. ASSUME NEW c \in Cams, CoupleCamera(c) PROVE GcOrder'
  BY <1>4 DEF CoupleCamera, Go
<1>5. ASSUME NEW c \in Cams, OnTcpClose(c) PROVE GcOrder'
  BY <1>5 DEF OnTcpClose
<1>6. ASSUME NEW c \in Cams, NEW s \in CamReports, ProcessCamera(c, s)
      PROVE  GcOrder'
  <2>1. at'["GC"] = at["GC"]
    BY <1>6 DEF ProcessCamera, LeaveExpose, EnterExpose, ChangeWaitFlat, Go
  <2> QED BY <1>6, <2>1 DEF ProcessCamera
<1>7. CASE ReplacePlan \/ StorePlan \/ CatalogPlan \/ ReleasePlan \/ Look
  BY <1>7 DEF ReplacePlan, StorePlan, CatalogPlan, ReleasePlan, Look, NullRead,
     BeginAbort, Go, Unique
<1>8. CASE Wake \/ CheckPlan \/ DecideSlew \/ AimMount \/ WriteCameras
  BY <1>8 DEF Wake, CheckPlan, DecideSlew, AimMount, WriteCameras, NullRead, Go
<1>9. CASE PublishRunning \/ ReadDeadline \/ ObsplanTimeout \/ Expire
  BY <1>9 DEF PublishRunning, ReadDeadline, ObsplanTimeout, Expire, NullRead,
     BeginAbort, Go
<1>10. CASE Restart
  BY <1>10 DEF Restart, Threads
<1>11. CASE Ending("GC") \/ Ending("OS") \/ Ending("OP")
  BY <1>1, <1>11 DEF Threads
<1>12. CASE CameraStep
  BY <1>4, <1>5, <1>6, <1>12 DEF CameraStep
<1> HIDE DEF TypeOK, PlanTypeOK, ThreadTypeOK, GcOrder, planVars, mountVars,
            Threads
<1> QED
  BY <1>2, <1>3, <1>7, <1>8, <1>9, <1>10, <1>11, <1>12
     DEF Next, GcStep, OsStep, ObsplanStep

(* A race once noted is forgotten only when a plan is cataloged undisturbed or
   the server dies. *)
LEMMA RacedStays ==
    ASSUME TypeOK, Next, raced, ~Restart, ~CatalogPlan
    PROVE  raced'
<1> USE DEF ghostVars, DisturbBy, TurnBy
<1>1. CASE Ending("GC") \/ Ending("OS") \/ Ending("OP")
  BY <1>1 DEF Ending, StopMount, StopCameras, TestPlan, ResetPlan, PublishEnd,
     NullRead
<1>2. CASE ClientStep
  BY <1>2 DEF ClientStep, NotifyPlan, Abort, Park, Refuse, FindHome, Slewto,
     TakeImage
<1>3. CASE MountStep
  BY <1>3 DEF MountStep, MountConnect, MountStatus, CoupleMountGft, MountClose,
     DecoupleMount
<1>4. CASE CameraStep
  BY <1>4 DEF CameraStep, CoupleCamera, OnTcpClose, ProcessCamera
<1>5. CASE ReplacePlan \/ StorePlan \/ ReleasePlan \/ Look
  BY <1>5 DEF ReplacePlan, StorePlan, ReleasePlan, Look, NullRead
<1>6. CASE Wake \/ CheckPlan \/ DecideSlew \/ AimMount \/ WriteCameras
  BY <1>6 DEF Wake, CheckPlan, DecideSlew, AimMount, WriteCameras, NullRead
<1>7. CASE PublishRunning \/ ReadDeadline \/ ObsplanTimeout \/ Expire
  BY <1>7 DEF PublishRunning, ReadDeadline, ObsplanTimeout, Expire, NullRead
<1> QED
  BY <1>1, <1>2, <1>3, <1>4, <1>5, <1>6, <1>7
     DEF Next, GcStep, OsStep, ObsplanStep

(* A report leaves the threads where they are, or makes OS end the plan. *)
LEMMA ReportMoves ==
    ASSUME NEW c \in Cams, NEW s \in CamReports, ProcessCamera(c, s)
    PROVE  /\ at["OS"] = "idle"
           /\ at' = at \/ Go("OS", "ending")
BY DEF ProcessCamera, LeaveExpose, EnterExpose, ChangeWaitFlat

(* Undisturbed, every step keeps what the threads agree on. *)
LEMMA AgreedInductive ==
    ASSUME TypeOK, ParametersOK, GcOrder, Agreed, Next, ~raced, ~raced'
    PROVE  Agreed'
<1> USE DEF TypeOK, PlanTypeOK, ThreadTypeOK, planVars, mountVars, ghostVars,
            Threads, Agreed, HeldOpen, Alone, StillHeld, StillCoupled,
            StillCataloged, StillWritten, StillAimed, Open, DisturbBy, TurnBy,
            Relies, StartLabels
<1>0. Unique => \A u \in Threads : at[u] \notin {"publish", "catalog"}
  BY DEF Unique, EndLabels, GcLabels
<1>1. ASSUME NEW t \in Threads, Ending(t) PROVE Agreed'
  <2>1. CASE StopMount(t)
    <3>1. CASE NullRead(t)
      BY <3>1 DEF NullRead
    <3>2. CASE ~NullRead(t)
      <4>1. /\ at[t] = "target" /\ at' = [at EXCEPT ![t] = "cameras"]
            /\ UNCHANGED <<tcpMount, plan, planState, sent>>
        BY <2>1, <3>2 DEF StopMount, Go
      <4>2. t # "OP" => ~Relies("OP")
        BY <2>1, <3>2 DEF StopMount
      <4>3. StillAimed'
        BY <4>1, <4>2
      <4> QED BY <4>1, <4>3
    <3> QED BY <3>1, <3>2
  <2>2. CASE StopCameras(t)
    BY <2>2 DEF StopCameras, Go
  <2>3. CASE TestPlan(t)
    <3>1. /\ at[t] = "ending"
          /\ UNCHANGED <<tcpMount, plan, planState, sent, objTarget>>
      BY <2>3 DEF TestPlan
    <3>2. CASE ~Unique
      BY <2>3, <3>1, <3>2 DEF TestPlan, Return, Go
    <3>3. CASE Unique
      <4>1. at' = [at EXCEPT ![t] = "reset"] /\ plan # NoPlan
        BY <2>3, <3>3 DEF TestPlan, Go, Unique
      <4> QED BY <1>0, <3>1, <3>3, <4>1
    <3> QED BY <3>2, <3>3
  <2>4. CASE ResetPlan(t)
    <3>1. CASE NullRead(t)
      BY <3>1 DEF NullRead
    <3>2. CASE ~NullRead(t)
      <4>1. /\ at[t] = "reset" /\ at' = [at EXCEPT ![t] = "publish"]
            /\ plan' = NoPlan
            /\ UNCHANGED <<tcpMount, planState, sent, objTarget>>
            /\ \A u \in Threads \ {t} : ~Relies(u)
        BY <2>4, <3>2 DEF ResetPlan, Go
      <4>2. plan # NoPlan /\ Open
        BY <4>1
      <4> QED BY <4>1, <4>2
    <3> QED BY <3>1, <3>2
  <2>5. CASE PublishEnd(t)
    BY <2>5 DEF PublishEnd, Return, Go
  <2> QED BY <1>1, <2>1, <2>2, <2>3, <2>4, <2>5 DEF Ending
<1>2. ASSUME ClientStep PROVE Agreed'
  <2>1. ASSUME NEW p \in Plans, NotifyPlan(p) PROVE Agreed'
    BY <2>1 DEF NotifyPlan, Go, Idle
  <2>2. CASE Abort
    BY <2>2 DEF Abort, BeginAbort, Go, Idle
  <2>3. CASE Park
    BY <2>3 DEF Park, Go, Idle
  <2>4. CASE Refuse
    <3>1. /\ at' = [at EXCEPT !["GC"] = "look"] /\ at["GC"] = "idle"
          /\ plan # NoPlan
          /\ UNCHANGED <<tcpMount, plan, planState, sent, objTarget>>
      BY <2>4 DEF Refuse, Go, Idle, Unique
    <3>2. \A u \in Threads : at[u] \notin {"publish", "catalog"}
      BY <1>0, <2>4 DEF Refuse
    <3> QED BY <3>1, <3>2
  <2>5. CASE FindHome
    BY <2>5 DEF FindHome
  <2>6. ASSUME NEW s \in Targets, Slewto(s) PROVE Agreed'
    BY <2>6 DEF Slewto
  <2>7. ASSUME NEW S \in {Cams} \cup {{c} : c \in Cams}, TakeImage(S)
        PROVE  Agreed'
    BY <2>7 DEF TakeImage
  <2> QED BY <1>2, <2>1, <2>2, <2>3, <2>4, <2>5, <2>6, <2>7 DEF ClientStep
<1>3. ASSUME NEW m \in MountConns PROVE
        (\/ MountConnect(m) \/ CoupleMountGft(m) \/ MountClose(m)
         \/ \E s \in MountReports : MountStatus(m, s)) => Agreed'
  <2>1. CASE MountConnect(m)
    BY <2>1 DEF MountConnect
  <2>2. CASE CoupleMountGft(m)
    BY <2>2 DEF CoupleMountGft, ParametersOK
  <2>3. CASE MountClose(m)
    BY <2>3 DEF MountClose, DecoupleMount
  <2>4. ASSUME NEW s \in MountReports, MountStatus(m, s) PROVE Agreed'
    BY <2>4 DEF MountStatus, ParametersOK
  <2> QED BY <2>1, <2>2, <2>3, <2>4
<1>4. ASSUME NEW c \in Cams, CoupleCamera(c) PROVE Agreed'
  <2>1. /\ at["GC"] = "idle"
        /\ UNCHANGED <<tcpMount, plan, planState, sent, objTarget>>
        /\ \/ at' = at
           \/ at' = [at EXCEPT !["GC"] = "idle"]
           \/ Unique /\ at' = [at EXCEPT !["GC"] = "look"]
    BY <1>4 DEF CoupleCamera, Go, Idle
  <2>2. CASE Unique /\ at' = [at EXCEPT !["GC"] = "look"]
    <3>1. plan # NoPlan
      BY <2>2 DEF Unique
    <3> QED BY <1>0, <2>1, <2>2, <3>1
  <2>3. CASE at' = at \/ at' = [at EXCEPT !["GC"] = "idle"]
    BY <2>1, <2>3
  <2> QED BY <2>1, <2>2, <2>3
<1>5. ASSUME NEW c \in Cams, OnTcpClose(c) PROVE Agreed'
  BY <1>5 DEF OnTcpClose
<1>6. ASSUME NEW c \in Cams, NEW s \in CamReports, ProcessCamera(c, s)
      PROVE  Agreed'
  <2>1. at["OS"] = "idle" /\ (at' = at \/ Go("OS", "ending"))
    BY <1>6, ReportMoves, Zenon
  <2> QED BY <1>6, <2>1 DEF ProcessCamera, Go
<1>7. CASE ReplacePlan
  BY <1>7 DEF ReplacePlan, BeginAbort, Go
<1>8. CASE StorePlan
  BY <1>8 DEF StorePlan, Go, GcOrder
<1>9. CASE CatalogPlan
  BY <1>9 DEF CatalogPlan, NullRead, Go
<1>10. CASE ReleasePlan
  BY <1>10 DEF ReleasePlan, Go
<1>11. CASE Look
  BY <1>11 DEF Look, NullRead, Go
<1>12. CASE Wake
  BY <1>12 DEF Wake, Go, Unique
<1>13. CASE CheckPlan
  BY <1>13 DEF CheckPlan, Startable, Go
<1>14. CASE DecideSlew
  BY <1>14 DEF DecideSlew, SlewRequired, NullRead, Go
<1>15. CASE AimMount
  BY <1>15 DEF AimMount, NullRead, Go
<1>16. CASE WriteCameras
  BY <1>16 DEF WriteCameras, WritePlan, NullRead, Go
<1>17. CASE PublishRunning
  BY <1>17 DEF PublishRunning, NullRead, Go
<1>18. CASE ReadDeadline
  BY <1>18 DEF ReadDeadline, NullRead, Go
<1>19. CASE ObsplanTimeout
  BY <1>19 DEF ObsplanTimeout, BeginAbort, NullRead, Go
<1>20. CASE Expire
  BY <1>20 DEF Expire
<1>21. CASE Restart
  BY <1>21 DEF Restart
<1>22. CASE Ending("GC") \/ Ending("OS") \/ Ending("OP")
  BY <1>1, <1>22 DEF Threads
<1>23. CASE CameraStep
  BY <1>4, <1>5, <1>6, <1>23 DEF CameraStep
<1>24. CASE MountStep
  BY <1>3, <1>24 DEF MountStep
<1> HIDE DEF TypeOK, PlanTypeOK, ThreadTypeOK, planVars, mountVars, ghostVars,
            Threads, Agreed, HeldOpen, Alone, StillHeld, StillCoupled,
            StillCataloged, StillWritten, StillAimed, Open, DisturbBy, TurnBy,
            Relies, StartLabels
<1> QED
  BY <1>2, <1>7, <1>8, <1>9, <1>10, <1>11, <1>12, <1>13, <1>14, <1>15, <1>16,
     <1>17, <1>18, <1>19, <1>20, <1>21, <1>22, <1>23, <1>24
     DEF Next, GcStep, OsStep, ObsplanStep

(* Once a plan is cataloged with no thread relying on another, all agree. *)
LEMMA AgreedAnew ==
    ASSUME TypeOK, ParametersOK, raced, CatalogPlan, ~raced'
    PROVE  Agreed'
<1> USE DEF TypeOK, ThreadTypeOK, Threads
<1>1. /\ at["GC"] = "catalog" /\ at' = [at EXCEPT !["GC"] = "tail"]
      /\ plan # NoPlan /\ plan' = plan /\ planState' = OBSPLAN_CATALOGED
      /\ ~Relies("OS") /\ ~Relies("OP")
  <2>1. ~NullRead("GC")
    BY DEF NullRead, ghostVars
  <2> QED BY <2>1 DEF CatalogPlan, Go
<1>2. \A t \in Threads : ~Relies(t)' /\ at'[t] \notin {"publish", "catalog"}
  BY <1>1 DEF Relies, StartLabels
<1>3. at'["OP"] \notin StartLabels /\ at'["OP"] # "target"
  BY <1>2 DEF Relies
<1> QED
  BY <1>1, <1>2, <1>3 DEF Agreed, HeldOpen, Alone, StillHeld, StillCoupled,
     StillCataloged, StillWritten, StillAimed, StartLabels, Open

(* A null pointer is read only where a test has been overtaken. *)
LEMMA NullReadRaced ==
    ASSUME TypeOK, GcOrder, raced \/ Agreed, CrashOnlyWhenRaced, Next
    PROVE  CrashOnlyWhenRaced'
<1> USE DEF CrashOnlyWhenRaced
<1>1. CASE Restart
  BY <1>1 DEF Restart
<1> SUFFICES ASSUME ~Restart, down = "no" PROVE CrashOnlyWhenRaced'
  BY <1>1 DEF Next
<1>2. ASSUME NEW t \in Threads, NullRead(t), raced PROVE CrashOnlyWhenRaced'
  BY <1>2 DEF NullRead, ghostVars
<1>3. ASSUME NEW t \in Threads, Relies(t), at[t] # "publish", plan = NoPlan
      PROVE  raced
  BY <1>3 DEF Agreed, StillHeld
<1>4. ASSUME NEW t \in Threads, Ending(t) PROVE CrashOnlyWhenRaced'
  <2>1. CASE StopMount(t)
    <3>1. CASE tcpMount = NoConn
      <4>1. t \in {"GC", "OP"}
        BY <2>1 DEF StopMount, TypeOK, ThreadTypeOK, Threads
      <4>2. raced
        BY <2>1, <3>1, <4>1 DEF StopMount, GcOrder, Agreed, StillCoupled
      <4>3. CASE NullRead(t)
        BY <1>2, <4>2, <4>3
      <4>4. CASE ~NullRead(t)
        BY <2>1, <3>1, <4>4 DEF StopMount
      <4> QED BY <4>3, <4>4
    <3>2. CASE tcpMount # NoConn
      BY <2>1, <3>2 DEF StopMount
    <3> QED BY <3>1, <3>2
  <2>2. CASE ResetPlan(t)
    <3>1. CASE plan = NoPlan /\ NullRead(t)
      <4>1. Relies(t) /\ at[t] # "publish"
        BY <2>2 DEF ResetPlan, Relies
      <4> QED BY <1>2, <1>3, <3>1, <4>1
    <3>2. CASE ~(plan = NoPlan /\ NullRead(t))
      BY <2>2, <3>2 DEF ResetPlan
    <3> QED BY <3>1, <3>2
  <2>3. CASE StopCameras(t) \/ TestPlan(t) \/ PublishEnd(t)
    BY <2>3 DEF StopCameras, TestPlan, PublishEnd
  <2> QED BY <1>4, <2>1, <2>2, <2>3 DEF Ending
<1>5. CASE CatalogPlan \/ Look
  <2>1. CASE plan = NoPlan /\ NullRead("GC")
    <3>1. Relies("GC") /\ at["GC"] # "publish"
      BY <1>5 DEF CatalogPlan, Look, Relies
    <3>2. "GC" \in Threads
      BY DEF Threads
    <3> QED BY <1>2, <1>3, <2>1, <3>1, <3>2
  <2>2. CASE ~(plan = NoPlan /\ NullRead("GC"))
    BY <1>5, <2>2 DEF CatalogPlan, Look
  <2> QED BY <2>1, <2>2
<1>6. CASE DecideSlew \/ AimMount \/ WriteCameras \/ PublishRunning
           \/ ReadDeadline \/ ObsplanTimeout
  <2>1. Relies("OP") /\ at["OP"] # "publish" /\ "OP" \in Threads
    BY <1>6 DEF DecideSlew, AimMount, WriteCameras, PublishRunning, ReadDeadline,
       ObsplanTimeout, Relies, StartLabels, Threads
  <2>2. CASE plan = NoPlan /\ NullRead("OP")
    BY <1>2, <1>3, <2>1, <2>2
  <2>3. CASE AimMount /\ tcpMount = NoConn /\ NullRead("OP")
    <3>1. raced
      BY <2>3 DEF AimMount, Agreed, StillCoupled
    <3> QED BY <1>2, <2>1, <2>3, <3>1
  <2>4. CASE /\ ~(plan = NoPlan /\ NullRead("OP"))
             /\ ~(AimMount /\ tcpMount = NoConn /\ NullRead("OP"))
    BY <1>6, <2>4 DEF DecideSlew, AimMount, WriteCameras, PublishRunning,
       ReadDeadline, ObsplanTimeout, opVars
  <2> QED BY <2>2, <2>3, <2>4
<1>7. CASE ReplacePlan \/ StorePlan \/ ReleasePlan \/ Wake \/ CheckPlan \/ Expire
  BY <1>7 DEF ReplacePlan, StorePlan, ReleasePlan, Wake, CheckPlan, Expire
<1>8. CASE ClientStep
  BY <1>8 DEF ClientStep, NotifyPlan, Abort, Park, Refuse, FindHome, Slewto,
     TakeImage
<1>9. CASE MountStep
  BY <1>9 DEF MountStep, MountConnect, MountStatus, CoupleMountGft, MountClose
<1>10. CASE CameraStep
  BY <1>10 DEF CameraStep, CoupleCamera, OnTcpClose, ProcessCamera
<1>11. CASE Ending("GC") \/ Ending("OS") \/ Ending("OP")
  BY <1>4, <1>11 DEF Threads
<1> QED
  BY <1>5, <1>6, <1>7, <1>8, <1>9, <1>10, <1>11
     DEF Next, GcStep, OsStep, ObsplanStep

(* Nothing is published, held or raced at the start. *)
LEMMA PlanInvInit == Init => PlanInv
<1> SUFFICES ASSUME Init PROVE PlanInv
  OBVIOUS
<1>1. \A t \in Threads : at[t] = "idle"
  BY DEF Init
<1>2. \A t \in Threads : ~Relies(t)
  BY <1>1 DEF Relies, StartLabels
<1>3. at["GC"] = "idle" /\ at["OP"] = "idle"
  BY <1>1 DEF Threads
<1> QED
  BY <1>1, <1>2, <1>3 DEF Init, PlanInv, GcOrder, Agreed, HeldOpen, Alone,
     StillHeld, StillCoupled, StillCataloged, StillWritten, StillAimed, Open,
     CrashOnlyWhenRaced

(* Every step keeps the invariant. *)
LEMMA PlanInvInductive == TypeOK /\ PlanInv /\ [Next]_vars => PlanInv'
<1>1. ASSUME PlanInv, UNCHANGED vars PROVE PlanInv'
  <2>1. GcOrder'
    BY <1>1 DEF PlanInv, GcOrder, vars, planVars, mountVars
  <2>2. CrashOnlyWhenRaced'
    BY <1>1 DEF PlanInv, CrashOnlyWhenRaced, vars, ghostVars
  <2>3. Agreed => Agreed'
    BY <1>1 DEF vars, planVars, mountVars, ghostVars, Agreed, HeldOpen, Alone,
       StillHeld, StillCoupled, StillCataloged, StillWritten, StillAimed, Open,
       Relies
  <2> QED BY <1>1, <2>1, <2>2, <2>3 DEF PlanInv, vars, ghostVars
<1>2. ASSUME TypeOK, PlanInv, Next PROVE PlanInv'
  <2>1. GcOrder' /\ CrashOnlyWhenRaced'
    BY <1>2, ParametersOK, GcOrderInductive, NullReadRaced DEF PlanInv
  <2>2. CASE Restart
    <3>1. \A t \in Threads : at'[t] = "idle"
      BY <2>2 DEF Restart
    <3>2. \A t \in Threads : ~Relies(t)'
      BY <3>1 DEF Relies, StartLabels
    <3>3. at'["GC"] = "idle" /\ at'["OP"] = "idle"
      BY <3>1 DEF Threads
    <3>4. Agreed'
      BY <2>2, <3>1, <3>2, <3>3 DEF Restart, Agreed, HeldOpen, Alone, StillHeld,
         StillCoupled, StillCataloged, StillWritten, StillAimed, Open
    <3> QED BY <2>1, <3>4 DEF PlanInv
  <2>3. CASE ~Restart /\ raced
    BY <1>2, <2>1, <2>3, ParametersOK, RacedStays, AgreedAnew DEF PlanInv
  <2>4. CASE ~raced
    BY <1>2, <2>1, <2>4, ParametersOK, AgreedInductive DEF PlanInv
  <2> QED BY <2>2, <2>3, <2>4
<1> QED BY <1>1, <1>2

(* The invariant of the plan and its threads holds in every state. *)
LEMMA PlanInvariant == Spec => []PlanInv
BY PlanInvInit, PlanInvInductive, TypeCorrect, PTL DEF Spec

(* As long as no thread changes the plan under another, a plan is held exactly
   while its end has not been published: NotifyPlan, Abort, Park, the end of
   the exposures and thread_obsplan interleaved in any way. *)
THEOREM HeldPlanOpen == Spec => []HeldPlanIsOpen
<1>1. PlanInv => HeldPlanIsOpen
  BY DEF PlanInv, Agreed, HeldOpen, HeldPlanIsOpen
<1> QED BY <1>1, PlanInvariant, PTL

(* plan_ and tcpMount_ are read through a null pointer, by Abort, the end of the
   exposures, the refusals, NotifyPlan or thread_obsplan, only after another
   thread changed the plan, its status or the mount since the test. *)
THEOREM CrashRaced == Spec => []CrashOnlyWhenRaced
<1>1. PlanInv => CrashOnlyWhenRaced
  BY DEF PlanInv
<1> QED BY <1>1, PlanInvariant, PTL

(* A plan published as running was written to the cameras before, unless the
   plan changed while it was being started. *)
THEOREM RunningSent == Spec => []RunningWasSent
<1>1. PlanInv => RunningWasSent
  BY DEF PlanInv, Agreed, StillWritten, RunningWasSent
<1> QED BY <1>1, PlanInvariant, PTL

(* The status is written in three places only. *)
LEMMA StatusFrame ==
    ASSUME Next, planState' # planState, ~Restart, ~CatalogPlan, ~PublishRunning
    PROVE  PublishEnd("GC") \/ PublishEnd("OS") \/ PublishEnd("OP")
<1> USE DEF planVars
<1>1. ASSUME NEW t, Ending(t), ~PublishEnd(t) PROVE FALSE
  BY <1>1 DEF Ending, StopMount, StopCameras, TestPlan, ResetPlan, NullRead
<1>2. CASE ClientStep
  BY <1>2 DEF ClientStep, NotifyPlan, Abort, Park, Refuse, FindHome, Slewto,
     TakeImage
<1>3. CASE MountStep
  BY <1>3 DEF MountStep, MountConnect, MountStatus, CoupleMountGft, MountClose
<1>4. CASE CameraStep
  BY <1>4 DEF CameraStep, CoupleCamera, OnTcpClose, ProcessCamera
<1>5. CASE ReplacePlan \/ StorePlan \/ ReleasePlan \/ Look
  BY <1>5 DEF ReplacePlan, StorePlan, ReleasePlan, Look, NullRead
<1>6. CASE Wake \/ CheckPlan \/ DecideSlew \/ AimMount \/ WriteCameras
  BY <1>6 DEF Wake, CheckPlan, DecideSlew, AimMount, WriteCameras, NullRead
<1>7. CASE ReadDeadline \/ ObsplanTimeout \/ Expire
  BY <1>7 DEF ReadDeadline, ObsplanTimeout, Expire, NullRead
<1> QED
  BY <1>1, <1>2, <1>3, <1>4, <1>5, <1>6, <1>7
     DEF Next, GcStep, OsStep, ObsplanStep

(* The status as PlanLifecycle sees it: lost while the threads interfere. *)
Status == IF raced THEN OBSPLAN_MIN ELSE planState

(* Every change of it is one of the lifecycle. *)
LEMMA StatusStep ==
    ASSUME TypeOK, PlanInv, [Next]_vars
    PROVE  [Lifecycle!Next]_Status
<1> USE DEF Lifecycle!Next, Lifecycle!Catalog, Lifecycle!Start, Lifecycle!Finish,
            Lifecycle!Interrupt, Lifecycle!Lose, Lifecycle!Ended, Lifecycle!Open,
            Status
<1>1. CASE UNCHANGED vars
  BY <1>1 DEF vars, planVars, ghostVars
<1>2. CASE raced'
  BY <1>2
<1>3. CASE Restart
  BY <1>3 DEF Restart
<1>4. ASSUME Next, ~raced', CatalogPlan PROVE [Lifecycle!Next]_Status
  <2>1. CASE NullRead("GC")
    <3>1. raced' = raced /\ planState' = planState
      BY <2>1 DEF NullRead, ghostVars, planVars
    <3> QED BY <3>1
  <2>2. CASE ~NullRead("GC")
    <3>1. planState' = OBSPLAN_CATALOGED /\ at["GC"] = "catalog"
      BY <1>4, <2>2 DEF CatalogPlan
    <3>2. raced \/ ~Open
      BY <3>1 DEF PlanInv, Agreed, HeldOpen
    <3>3. planState \in PlanCodes
      BY DEF TypeOK, PlanTypeOK
    <3> QED BY <1>4, <3>1, <3>2, <3>3 DEF Open
  <2> QED BY <2>1, <2>2
<1>5. ASSUME Next, ~raced', ~raced, PublishRunning PROVE [Lifecycle!Next]_Status
  <2>1. CASE NullRead("OP")
    <3>1. raced' = raced /\ planState' = planState
      BY <2>1 DEF NullRead, ghostVars, planVars
    <3> QED BY <3>1
  <2>2. CASE ~NullRead("OP")
    <3>1. planState' = OBSPLAN_RUNNING /\ at["OP"] = "announce"
      BY <1>5, <2>2 DEF PublishRunning
    <3>2. planState = OBSPLAN_CATALOGED
      BY <1>5, <3>1 DEF PlanInv, Agreed, StillCataloged
    <3> QED BY <1>5, <3>1, <3>2
  <2> QED BY <2>1, <2>2
<1>6. ASSUME Next, ~raced', ~raced, NEW t \in Threads, PublishEnd(t)
      PROVE [Lifecycle!Next]_Status
  <2>1. Open
    BY <1>6 DEF PublishEnd, PlanInv, Agreed, HeldOpen
  <2>2. planState' \in {OBSPLAN_OVER, OBSPLAN_INTERRUPTED}
    BY <1>6 DEF PublishEnd
  <2> QED BY <1>6, <2>1, <2>2 DEF Open
<1>7. ASSUME Next, ~raced', ~Restart, ~CatalogPlan, ~PublishRunning
      PROVE [Lifecycle!Next]_Status
  <2>1. ~raced
    BY <1>7, RacedStays
  <2>2. CASE planState' = planState
    BY <1>7, <2>1, <2>2
  <2>3. CASE planState' # planState
    BY <1>6, <1>7, <2>1, <2>3, StatusFrame DEF Threads
  <2> QED BY <2>2, <2>3
<1>8. ASSUME Next, ~raced', PublishRunning PROVE raced => Restart \/ CatalogPlan
  BY <1>8, RacedStays
<1> QED BY <1>1, <1>2, <1>3, <1>4, <1>5, <1>7, <1>8

(* The statuses published obey the lifecycle every client relies on, as long as
   no thread changes the plan under another; the next plan that is cataloged
   undisturbed starts it again. *)
THEOREM PublishesLifecycle == Spec => LifecycleSpec
<1>1. Init => Lifecycle!Init
  BY DEF Init, Lifecycle!Init
<1>2. TypeOK /\ PlanInv /\ [Next]_vars
        => [Lifecycle!Next]_(IF raced THEN OBSPLAN_MIN ELSE planState)
  BY StatusStep DEF Status
<1> QED
  BY <1>1, <1>2, TypeCorrect, PlanInvariant, PTL
     DEF Spec, LifecycleSpec, Lifecycle!Spec

-----------------------------------------------------------------------------
(* What the counts are for: ending a plan, and stopping the cameras. *)

(* From the report that brought the count to zero until it has published the end
   of the plan, OS finds no camera recorded as exposing. *)
OsQuiet == at["OS"] # "idle" => wild \/ Exposing = {}

(* A step that records no report leaves OS idle if it is. *)
LEMMA OsStays ==
    ASSUME TypeOK, [Next]_vars, UNCHANGED camVars, at["OS"] = "idle"
    PROVE  at'["OS"] = "idle"
<1> USE DEF TypeOK, ThreadTypeOK, Threads, Go
<1>1. CASE UNCHANGED vars
  BY <1>1 DEF vars
<1>2. CASE Ending("GC") \/ Ending("OS") \/ Ending("OP")
  BY <1>2 DEF Ending, StopMount, StopCameras, TestPlan, ResetPlan, PublishEnd,
     NullRead
<1>3. CASE ClientStep
  BY <1>3 DEF ClientStep, NotifyPlan, Abort, Park, Refuse, FindHome, Slewto,
     TakeImage, BeginAbort
<1>4. CASE MountStep
  BY <1>4 DEF MountStep, MountConnect, MountStatus, CoupleMountGft, MountClose
<1>5. ASSUME NEW c \in Cams, CoupleCamera(c) \/ OnTcpClose(c)
                \/ \E s \in CamReports : ProcessCamera(c, s)
      PROVE FALSE
  <2>1. CASE CoupleCamera(c) \/ OnTcpClose(c)
    BY <2>1 DEF CoupleCamera, OnTcpClose, camVars
  <2>2. ASSUME NEW s \in CamReports, ProcessCamera(c, s) PROVE FALSE
    <3>1. camState' = [camState EXCEPT ![c] = s] /\ s # camState[c]
      BY <2>2 DEF ProcessCamera
    <3>2. camState'[c] = s
      BY <3>1 DEF CameraTypeOK
    <3> QED BY <3>1, <3>2 DEF camVars
  <2> QED BY <1>5, <2>1, <2>2
<1>6. CASE ReplacePlan \/ StorePlan \/ CatalogPlan \/ ReleasePlan \/ Look
  BY <1>6 DEF ReplacePlan, StorePlan, CatalogPlan, ReleasePlan, Look, NullRead,
     BeginAbort
<1>7. CASE Wake \/ CheckPlan \/ DecideSlew \/ AimMount \/ WriteCameras
  BY <1>7 DEF Wake, CheckPlan, DecideSlew, AimMount, WriteCameras, NullRead
<1>8. CASE PublishRunning \/ ReadDeadline \/ ObsplanTimeout \/ Expire
  BY <1>8 DEF PublishRunning, ReadDeadline, ObsplanTimeout, Expire, NullRead,
     BeginAbort
<1>9. CASE Restart
  BY <1>9 DEF Restart
<1> HIDE DEF TypeOK, ThreadTypeOK, Threads, Go
<1>10. CASE CameraStep
  BY <1>5, <1>10 DEF CameraStep
<1> QED
  BY <1>1, <1>2, <1>3, <1>4, <1>6, <1>7, <1>8, <1>9, <1>10
     DEF Next, GcStep, OsStep, ObsplanStep

(* Only OS records what cameras report. *)
LEMMA OsQuietInductive ==
    ASSUME TypeOK, ParametersOK, ExactInv', OfflineInError, OsQuiet, [Next]_vars
    PROVE  OsQuiet'
<1> USE DEF OsQuiet
<1>1. CASE Restart
  BY <1>1 DEF Restart, Threads
<1>2. ASSUME NEW c \in Cams, CoupleCamera(c) PROVE OsQuiet'
  <2>1. at'["OS"] = at["OS"]
    BY <1>2 DEF CoupleCamera, Go, TypeOK, ThreadTypeOK, Threads
  <2>2. wild => wild'
    BY <1>2 DEF CoupleCamera
  <2> QED BY <1>2, <2>1, <2>2, CoupleExposing
<1>3. ASSUME NEW c \in Cams, OnTcpClose(c) PROVE OsQuiet'
  BY <1>3 DEF OnTcpClose
<1>4. ASSUME NEW c \in Cams, NEW s \in CamReports, ProcessCamera(c, s)
      PROVE  OsQuiet'
  <2>1. CASE Busy(camState[c]) /\ ~Busy(s) /\ exposing' = 0
    <3>1. wild' \/ Cardinality(Exposing') = 0
      BY <2>1 DEF ExactInv, ExposingExact
    <3>2. IsFiniteSet(Exposing')
      BY FS_Subset DEF ParametersOK, Exposing
    <3> QED BY <3>1, <3>2, FS_EmptySet
  <2>2. CASE ~(Busy(camState[c]) /\ ~Busy(s) /\ exposing' = 0)
    <3>1. at' = at /\ at["OS"] = "idle"
      BY <1>4, <2>2 DEF ProcessCamera, LeaveExpose, EnterExpose, ChangeWaitFlat
    <3> QED BY <3>1
  <2> QED BY <2>1, <2>2
<1>5. CASE UNCHANGED camVars /\ wild' = wild
  <2>1. at["OS"] = "idle" => at'["OS"] = "idle"
    BY <1>5, OsStays
  <2>2. Exposing' = Exposing
    BY <1>5 DEF camVars, Exposing
  <2> QED BY <1>5, <2>1, <2>2
<1> QED BY <1>1, <1>2, <1>3, <1>4, <1>5, CameraCases

(* A plan is declared over only when no camera is recorded as exposing, through
   any interleaving of OS with the couplings of GC, until an entry starts with
   a state that happens to be an exposing one. *)
THEOREM OverQuiet == Spec => OverIsQuiet
<1>1. Init => OsQuiet
  BY DEF Init, OsQuiet, Threads
<1>2. TypeOK /\ ExactInv /\ ExactInv' /\ OsQuiet /\ [Next]_vars => OsQuiet'
  BY ParametersOK, OsQuietInductive DEF ExactInv
<1>3. ASSUME TypeOK, OsQuiet, [Next]_vars, planState' = OBSPLAN_OVER,
             planState # OBSPLAN_OVER
      PROVE  wild \/ Exposing' = {}
  <2>1. Next /\ planState' # planState /\ ~Restart
    BY <1>3 DEF vars, planVars, Restart
  <2>2. PublishEnd("OS")
    <3>1. CatalogPlan => planState' # OBSPLAN_OVER
      BY <1>3 DEF CatalogPlan, NullRead, planVars
    <3>2. PublishRunning => planState' # OBSPLAN_OVER
      BY <1>3 DEF PublishRunning, NullRead, planVars
    <3>3. ~PublishEnd("GC") /\ ~PublishEnd("OP")
      BY <1>3 DEF PublishEnd
    <3> QED BY <1>3, <2>1, <3>1, <3>2, <3>3, StatusFrame
  <2>3. at["OS"] # "idle" /\ camState' = camState
    BY <2>2 DEF PublishEnd, camVars
  <2> QED BY <1>3, <2>3 DEF OsQuiet, Exposing
<1>4. TypeOK /\ OsQuiet /\ [Next]_vars
        => [planState' = OBSPLAN_OVER /\ planState # OBSPLAN_OVER
              => wild \/ Exposing' = {}]_vars
  BY <1>3
<1> QED
  BY <1>1, <1>2, <1>4, ExactInvariant, TypeCorrect, PTL DEF Spec, OverIsQuiet

(* A thread leaves the cameras in StopCameras only. *)
LEMMA LeavesCameras ==
    ASSUME TypeOK, Next, NEW t \in Threads, at[t] = "cameras", at'[t] = "ending"
    PROVE  StopAll
<1> USE DEF TypeOK, ThreadTypeOK, Threads, Go
<1>1. ASSUME NEW u \in Threads, Ending(u) PROVE StopAll
  <2>1. CASE StopCameras(u)
    BY <2>1 DEF StopCameras
  <2>2. CASE StopMount(u) \/ TestPlan(u) \/ ResetPlan(u) \/ PublishEnd(u)
    BY <2>2 DEF StopMount, TestPlan, ResetPlan, PublishEnd, NullRead, Return
  <2> QED BY <1>1, <2>1, <2>2 DEF Ending
<1>2. CASE ClientStep
  BY <1>2 DEF ClientStep, NotifyPlan, Abort, Park, Refuse, FindHome, Slewto,
     TakeImage, BeginAbort
<1>3. CASE MountStep
  BY <1>3 DEF MountStep, MountConnect, MountStatus, CoupleMountGft, MountClose
<1>4. ASSUME NEW c \in Cams, CoupleCamera(c) \/ OnTcpClose(c)
                \/ \E s \in CamReports : ProcessCamera(c, s)
      PROVE FALSE
  <2>1. CASE CoupleCamera(c) \/ OnTcpClose(c)
    BY <2>1 DEF CoupleCamera, OnTcpClose, Idle
  <2>2. ASSUME NEW s \in CamReports, ProcessCamera(c, s) PROVE FALSE
    <3>1. at["OS"] = "idle" /\ (at' = at \/ Go("OS", "ending"))
      BY <2>2, ReportMoves, Zenon
    <3> QED BY <3>1
  <2> QED BY <1>4, <2>1, <2>2
<1>5. CASE ReplacePlan \/ StorePlan \/ CatalogPlan \/ ReleasePlan \/ Look
  BY <1>5 DEF ReplacePlan, StorePlan, CatalogPlan, ReleasePlan, Look, NullRead,
     BeginAbort
<1>6. CASE Wake \/ CheckPlan \/ DecideSlew \/ AimMount \/ WriteCameras
  BY <1>6 DEF Wake, CheckPlan, DecideSlew, AimMount, WriteCameras, NullRead
<1>7. CASE PublishRunning \/ ReadDeadline \/ ObsplanTimeout \/ Expire
  BY <1>7 DEF PublishRunning, ReadDeadline, ObsplanTimeout, Expire, NullRead,
     BeginAbort
<1>8. CASE Restart
  BY <1>8 DEF Restart
<1>9. CASE Ending("GC") \/ Ending("OS") \/ Ending("OP")
  BY <1>1, <1>9
<1> HIDE DEF TypeOK, ThreadTypeOK, Threads, Go
<1>10. CASE CameraStep
  BY <1>4, <1>10 DEF CameraStep
<1> QED
  BY <1>2, <1>3, <1>5, <1>6, <1>7, <1>8, <1>9, <1>10
     DEF Next, GcStep, OsStep, ObsplanStep

(* Whoever gets to the cameras to interrupt, GC or OP, every connected camera
   recorded as exposing at that moment is told to stop, until an entry starts
   with a state that happens to be an exposing one. *)
THEOREM InterruptStops == Spec => InterruptStopsExposing
<1>1. ASSUME TypeOK, ExactInv, [Next]_vars, NEW t \in Threads,
             at[t] = "cameras", at'[t] = "ending", ~wild,
             NEW c \in Exposing \cap online
      PROVE  told'[c] = "stop"
  <2>1. StopAll
    <3>1. CASE UNCHANGED vars
      BY <1>1, <3>1 DEF vars
    <3>2. CASE Next
      BY <1>1, <3>2, LeavesCameras
    <3> QED BY <1>1, <3>1, <3>2
  <2>2. exposing > 0
    <3>1. Exposing # {} /\ IsFiniteSet(Exposing)
      BY <1>1, ParametersOK, FiniteCameraSets
    <3>2. Cardinality(Exposing) # 0 /\ Cardinality(Exposing) \in Nat
      BY <3>1, FS_EmptySet, FS_CardinalityType
    <3> QED BY <1>1, <3>2 DEF ExactInv, ExposingExact
  <2>3. c \in Cams
    BY <1>1 DEF Exposing
  <2> QED BY <1>1, <2>1, <2>2, <2>3 DEF StopAll, Tell
<1>2. TypeOK /\ ExactInv /\ [Next]_vars
        => [\A t \in Threads : at[t] = "cameras" /\ at'[t] = "ending"
              => wild \/ \A c \in Exposing \cap online : told'[c] = "stop"]_vars
  BY <1>1
<1> QED BY <1>2, ExactInvariant, TypeCorrect, PTL DEF Spec, InterruptStopsExposing

-----------------------------------------------------------------------------
(* A GFT system: where the mount points when a plan's exposures start. *)

(* The mount of a GFT system stays in the state it was coupled in: its reports
   are never evaluated, so it is never seen to arrive on a target. *)
GftMountUnseen == ~Gwac => mountState \in {MOUNT_ERROR, MOUNT_MIN}

(* Every action keeps it. *)
LEMMA GftMountInductive == GftMountUnseen /\ [Next]_vars => GftMountUnseen'
<1> USE DEF GftMountUnseen
<1>1. ASSUME GftMountUnseen, MountStep PROVE GftMountUnseen'
  BY <1>1 DEF MountStep, MountConnect, MountStatus, CoupleMountGft, MountClose,
     DecoupleMount, mountVars
<1>2. ASSUME GftMountUnseen, Restart PROVE GftMountUnseen'
  BY <1>2 DEF Restart
<1>3. UNCHANGED vars => UNCHANGED <<pool, tcpMount, mountState>>
  BY DEF vars, mountVars
<1> QED BY <1>1, <1>2, <1>3, MountFrame

(* A camera is told to start in four places; in a GFT system with a plan only
   process_new_plan does so, and it has pointed the mount first. *)
LEMMA StartsWherePointed ==
    ASSUME ~Gwac, TypeOK, GftMountUnseen, PlanInv, Next, NEW c \in Cams,
           told'[c] = "start", told[c] # "start", plan # NoPlan, ~raced
    PROVE  plan \in Still \/ objTarget' = TargetOf[plan]
<1> USE DEF ghostVars, mountVars, TypeOK, CameraTypeOK
<1>1. ASSUME NEW t, Ending(t) PROVE FALSE
  BY <1>1 DEF Ending, StopMount, StopCameras, StopAll, TestPlan, ResetPlan,
     PublishEnd, NullRead, Tell
<1>2. CASE ClientStep
  <2>1. ASSUME NEW S, TakeImage(S) PROVE FALSE
    BY <2>1 DEF TakeImage, Idle, Unique
  <2> QED BY <1>2, <2>1 DEF ClientStep, NotifyPlan, Abort, Park, Refuse, FindHome,
          Slewto
<1>3. CASE MountStep
  BY <1>3 DEF MountStep, MountConnect, MountStatus, CoupleMountGft, MountClose
<1>4. CASE CameraStep
  <2>1. ASSUME NEW d \in Cams, CoupleCamera(d) PROVE FALSE
    BY <2>1 DEF CoupleCamera, GftMountUnseen
  <2>2. ASSUME NEW d \in Cams, OnTcpClose(d) PROVE FALSE
    BY <2>2 DEF OnTcpClose
  <2>3. ASSUME NEW d \in Cams, NEW s \in CamReports, ProcessCamera(d, s)
        PROVE FALSE
    BY <2>3 DEF ProcessCamera, LeaveExpose, EnterExpose, ChangeWaitFlat
  <2> QED BY <1>4, <2>1, <2>2, <2>3 DEF CameraStep
<1>5. CASE ReplacePlan \/ StorePlan \/ CatalogPlan \/ ReleasePlan \/ Look
  BY <1>5 DEF ReplacePlan, StorePlan, CatalogPlan, ReleasePlan, Look, NullRead
<1>6. CASE WriteCameras
  <2>1. at["OP"] = "start"
    BY <1>6 DEF WriteCameras, NullRead
  <2>2. objTarget' = objTarget
    BY <1>6 DEF WriteCameras, NullRead
  <2> QED BY <2>1, <2>2 DEF PlanInv, Agreed, StillAimed
<1>7. CASE Wake \/ CheckPlan \/ DecideSlew \/ AimMount \/ PublishRunning
  BY <1>7 DEF Wake, CheckPlan, DecideSlew, AimMount, PublishRunning, NullRead
<1>8. CASE ReadDeadline \/ ObsplanTimeout \/ Expire
  BY <1>8 DEF ReadDeadline, ObsplanTimeout, Expire, NullRead
<1>9. CASE Restart
  BY <1>9 DEF Restart
<1> HIDE DEF TypeOK, CameraTypeOK
<1> QED
  BY <1>1, <1>2, <1>3, <1>4, <1>5, <1>6, <1>7, <1>8, <1>9
     DEF Next, GcStep, OsStep, ObsplanStep

(* In a GFT system a camera is told to start a plan's exposures only where the
   mount was last sent, unless the target or the plan changed between the
   decision of process_new_plan and its command to the cameras. *)
THEOREM StartsPointed == ~Gwac /\ Spec => StartsOnTarget
<1> SUFFICES ASSUME ~Gwac PROVE Spec => StartsOnTarget
  OBVIOUS
<1>1. Init => GftMountUnseen
  BY DEF Init, GftMountUnseen
<1>2. TypeOK /\ GftMountUnseen /\ PlanInv /\ [Next]_vars
      => [\A c \in Cams : (told'[c] = "start" /\ told[c] # "start" /\ plan # NoPlan)
            => raced \/ plan \in Still \/ objTarget' = TargetOf[plan]]_vars
  BY StartsWherePointed
<1> QED
  BY <1>1, <1>2, GftMountInductive, TypeCorrect, PlanInvariant, PTL
     DEF Spec, StartsOnTarget

=============================================================================
