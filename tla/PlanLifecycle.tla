---------------------------- MODULE PlanLifecycle ----------------------------
(***************************************************************************)
(* What one observation system promises the clients about its plan: the    *)
(* sequence of statuses it publishes.  A plan is cataloged, may run, and   *)
(* ends as over or interrupted; the next plan is cataloged only after the  *)
(* previous one has ended.  A plan that is merely cataloged may be         *)
(* published as over: the code does that when the exposures of an earlier  *)
(* plan end late (see OverOnlyAfterRunning in ObssPlan).                   *)
(***************************************************************************)
CONSTANTS Cataloged, Running, Over, Interrupted, Blank
    \* the published status codes; Blank stands for "nothing published"

VARIABLE status

Ended == {Over, Interrupted, Blank}
Open  == {Cataloged, Running}

Init == status = Blank

Catalog   == status \in Ended    /\ status' = Cataloged
Start     == status = Cataloged  /\ status' = Running
Finish    == status \in Open     /\ status' = Over
Interrupt == status \in Open     /\ status' = Interrupted
Lose      == status' = Blank     \* the threads interfere, or the server dies

Next == Catalog \/ Start \/ Finish \/ Interrupt \/ Lose

Spec == Init /\ [][Next]_status

=============================================================================
