--------------------------- MODULE MCObssRegistry ---------------------------
(* ObssRegistry with a GWAC group of two units, two of its mounts, a camera, a
   focuser, and room for a system that is dumped while the message loop uses
   it. *)
EXTENDS ObssRegistry

CONSTANTS m1, m2, k, f, p1, p2

MCKind == [c \in Conns |-> CASE c = k -> "camera" [] c = f -> "focus" [] OTHER -> "mount"]
MCConnGid == [c \in Conns |-> "001"]

(* m1 connects first, and one of the others may.  A plan is sent while a mount
   and the camera are connected; a second one while thread_obsplan starts the
   first, and then devices are silent. *)
BoundedNext ==
    /\ Next
    /\ {c \in Conns : conn'[c] # "new"} \in {{}, {m1}, {m1, m2}, {m1, k}, {m1, f}}
    /\ sent' # sent => open[k] /\ open[m1]
    /\ p2 \in sent' \ sent => p1 \in sent /\ \E i \in Obss : op[i] = "start"
    /\ p2 \in sent /\ up => UNCHANGED <<obssVars, connVars, sp>>

BoundedSpec == Init /\ [][BoundedNext]_vars /\ Fairness

=============================================================================
