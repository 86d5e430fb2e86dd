---------------------------- MODULE MCCameraConn ----------------------------
(* CameraConn on two connections: a talkative one and one that at most says
   which camera it is. *)
EXTENDS CameraConn

CONSTANTS k1, k2,
    MaxReceived   \* lines received by both of them together

BoundedNext ==
    /\ Next
    /\ got'[k1] + got'[k2] <= MaxReceived
    /\ got'[k2] <= 1

BoundedSpec == Init /\ [][BoundedNext]_vars /\ Fairness

=============================================================================
