--------------------------- MODULE NonKVProtocols ---------------------------
(***************************************************************************)
(* NonKVProtocol::Resolve: the lines of GWAC mounts and focusers,          *)
(*                                                                         *)
(*   g#<gid><uid><keyword><parts separated by %>%                          *)
(*                                                                         *)
(* A line is a record: is it framed by g# and %, its keyword, the ids      *)
(* before the keyword, and the parts after it.  A part is a string or      *)
(* Empty; that of a focus is a list of <<name, position>>.                 *)
(***************************************************************************)
EXTENDS Naturals, Sequences

CONSTANTS
    Ids,        \* group and unit identifiers of three characters
    Unset       \* INT_MAX: a position the line does not tell

(* A part without characters, an absent identifier. *)
Empty == ""

(* The empty NonKVBasePtr. *)
NoProto == [type |-> "none"]

MirrorNames == <<"es", "ws", "wn", "en", "mid">>
MirrorIndex == [es |-> 1, ws |-> 2, wn |-> 3, en |-> 4, mid |-> 5]

Part(parts, k) == IF k \in DOMAIN parts THEN parts[k] ELSE Empty

(* resolve_focus: index of the camera, -1 (here 0) for an unknown name. *)
resolve_focus(name) ==
    IF name \in DOMAIN MirrorIndex THEN MirrorIndex[name] ELSE 0

(* What follows the part with the data: date, time and serial number.  A
   line without the number is dropped, and so is one whose identifiers have
   another length. *)
Stamped(msg, parts) ==
    IF /\ msg.gid \in Ids /\ msg.uid \in Ids \cup {Empty}
       /\ Part(parts, 3) # Empty
      THEN [msg EXCEPT !.sn = Part(parts, 3)]
      ELSE NoProto

ResolveResponse(line) ==
    Stamped([type |-> "rsp", gid |-> line.gid, uid |-> line.uid, sn |-> Empty],
            line.parts)

(* The state of each mount of the group; the line has no uid. *)
ResolveStatus(line) ==
    Stamped([type |-> "status", gid |-> line.gid, uid |-> Empty, sn |-> Empty,
             state |-> Head(line.parts)], Tail(line.parts))

ResolvePosition(line) ==
    IF Part(line.parts, 1) # Empty /\ Part(line.parts, 2) # Empty
      THEN Stamped([type |-> "currentpos", gid |-> line.gid, uid |-> line.uid,
                    sn |-> Empty, ra |-> line.parts[1], dec |-> line.parts[2]],
                   SubSeq(line.parts, 3, Len(line.parts)))
      ELSE NoProto

(* A position is stored when the next name, or a separator, follows: the
   last one of a line that ends with the list is not.  Reading stops at a
   name that is not known, and nothing is returned then. *)
StoredItems(line) ==
    LET list == Head(line.parts)
    IN  IF Len(line.parts) > 1 THEN list ELSE SubSeq(list, 1, Len(list) - 1)

ResolveFocus(line) ==
    LET items  == StoredItems(line)
        At(k)  == {j \in DOMAIN items : resolve_focus(items[j][1]) = k}
        Last(J) == CHOOSE j \in J : \A i \in J : i <= j
    IN  IF items = <<>> \/ At(0) # {} THEN NoProto
        ELSE Stamped([type |-> "focus", gid |-> line.gid, uid |-> line.uid,
                      sn |-> Empty,
                      pos |-> [k \in DOMAIN MirrorNames |->
                                 IF At(k) = {} THEN Unset
                                 ELSE items[Last(At(k))][2]]],
                     Tail(line.parts))

(* The keywords are tried in this order; "finished" is known and dropped. *)
Resolve(line) ==
    IF ~line.framed THEN NoProto
    ELSE CASE line.keyword = "Rec"        -> ResolveResponse(line)
           [] line.keyword = "status"     -> ResolveStatus(line)
           [] line.keyword = "currentpos" -> ResolvePosition(line)
           [] line.keyword = "focus"      -> ResolveFocus(line)
           [] OTHER                       -> NoProto
=============================================================================
