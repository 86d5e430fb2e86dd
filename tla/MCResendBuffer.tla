--------------------------- MODULE MCResendBuffer ---------------------------
(* ResendBuffer with few commands and fewer serial numbers. *)
EXTENDS ResendBuffer

CONSTANT MaxCommands   \* commands built before clients fall silent

BoundedNext == Next /\ issued' <= MaxCommands

BoundedSpec == Init /\ [][BoundedNext]_vars /\ Fairness

=============================================================================
