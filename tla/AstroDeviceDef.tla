--------------------------- MODULE AstroDeviceDef ---------------------------
(***************************************************************************)
(* The state codes shared by the server and its devices, as the enums of   *)
(* AstroDeviceDef.h number them.  The order matters: the server compares   *)
(* camera states with CAMCTL_IDLE and mount states with MOUNT_MIN/MAX.     *)
(***************************************************************************)
EXTENDS Integers

MOUNT_MIN      == -1    \* coupled, nothing reported yet
MOUNT_ERROR    == 0
MOUNT_PARKING  == 4
MOUNT_PARKED   == 5
MOUNT_SLEWING  == 6
MOUNT_TRACKING == 7
MOUNT_GUIDING  == 8
MOUNT_MAX      == 9

CAMCTL_ERROR     == 0
CAMCTL_IDLE      == 1
CAMCTL_EXPOSING  == 2
CAMCTL_WAIT_FLAT == 6

OBSPLAN_MIN         == -1   \* here: plan_state_->state not yet written
OBSPLAN_CATALOGED   == 1
OBSPLAN_RUNNING     == 4
OBSPLAN_OVER        == 5
OBSPLAN_INTERRUPTED == 6
PlanCodes == {OBSPLAN_MIN, OBSPLAN_CATALOGED, OBSPLAN_RUNNING,
              OBSPLAN_OVER, OBSPLAN_INTERRUPTED}

=============================================================================
