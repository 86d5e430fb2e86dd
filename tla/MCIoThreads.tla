---------------------------- MODULE MCIoThreads ----------------------------
(* IoThreads with a queue of one message and two connections; one of them is
   written to, and its buffer does not hold two commands. *)
EXTENDS IoThreads

CONSTANTS
    k1, k2,
    MaxInAll   \* messages of all connections together

MCCommands == {<<1, 2>>, <<3, 4, 5>>}

BoundedNext ==
    /\ Next
    /\ reads'[k1] + reads'[k2] <= MaxInAll
    /\ writes'[k2] = 0 /\ ~broken'[k2]

BoundedSpec == Init /\ [][BoundedNext]_vars /\ Fairness

=============================================================================
