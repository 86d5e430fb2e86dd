----------------------------- MODULE MCObssPlan -----------------------------
(* ObssPlan on small instances. *)
EXTENDS ObssPlan, TLC

CONSTANTS c1, c2, m1, m2, p1, p2, t1, t2, MaxFlat

MCTargetOf == [p \in Plans |-> IF p = p1 THEN t1 ELSE t2]

CamSymmetry == Permutations(Cams)

(* waitflat has no upper bound in the code (see the README): runs in which
   cameras wait for flats stop counting at MaxFlat. *)
BoundedNext == Next /\ waitflat' <= MaxFlat

BoundedSpec == Init /\ [][BoundedNext]_vars

(* Cameras that expose only when the server told them to: the runs that refute
   a statement of the documentation do not need any other. *)
ObedientNext ==
    /\ Next
    /\ \A c \in Cams : ~Busy(camState[c]) /\ Busy(camState'[c]) => told[c] = "start"

ObedientSpec == Init /\ [][ObedientNext]_vars

=============================================================================
