---------------------------- MODULE FocusTracker ----------------------------
(***************************************************************************)
(* The focus of the cameras of an ObservationSystem.  The focuser reports  *)
(* the position of every camera's focus again and again (process_protocol_ *)
(* focus, NotifyFocus).  After a command of a client (Focus, FocusSync,    *)
(* NotifyFWHM) the system takes the move for done once a position has been *)
(* repeated often enough, and only then tells the camera.                  *)
(***************************************************************************)
EXTENDS NonKVProtocols, Integers

CONSTANTS
    Cams,       \* indices of the cameras: 1 .. 5
    Gid, Uid,   \* of the system and its focuser
    Word,       \* an identifier std::stoi cannot read
    Repeats,    \* 3: repetitions after which a focus is at rest
    Invalid,    \* 999999: the focPos of a new camera
    Span,       \* the focuser moves between 0 and Span
    Rels,       \* relative moves a client asks for
    StartLag,   \* reports the focuser may send before it starts to move
    MaxCmds     \* bound on commands

ASSUME FocusOK ==
    /\ Cams \subseteq DOMAIN MirrorNames
    /\ Gid \in Ids /\ Uid \in Ids /\ Word \in Ids \ {Uid}
    /\ {Span, StartLag, MaxCmds, Repeats, Invalid, Unset} \subseteq Nat
    /\ 1 < Repeats /\ StartLag < Repeats /\ Span < Invalid
    /\ Span < Unset /\ Invalid # Unset
    /\ Rels \subseteq Int \ {0}

VARIABLES
    cam,    \* camInfoVec_: known, online, focState, focPos, repeat
    tcp,    \* tcpFocus_: "none", the present connection or an "old" one
    link,   \* the focuser's connection is up
    dev,    \* the focuser: position, target and command not yet begun
    told,   \* the position each camera was last told, Invalid if none
    auto,   \* ghost: the last command let the focuser choose the position, or
            \* positions that were not in its lines were taken for one
    cmds    \* commands given

vars == <<cam, tcp, link, dev, told, auto, cmds>>

NewCamera == [known |-> FALSE, online |-> FALSE, focState |-> -1,
              focPos |-> Invalid, repeat |-> 0]

Init ==
    /\ cam = [c \in Cams |-> NewCamera]
    /\ tcp = "none" /\ link = FALSE
    /\ dev \in [Cams -> {[pos |-> p, tar |-> p, cmd |-> <<>>, age |-> 0] :
                            p \in {0, Span}}]
    /\ told = [c \in Cams |-> Invalid]
    /\ auto = [c \in Cams |-> FALSE]
    /\ cmds = 0

-----------------------------------------------------------------------------
(* The focuser *)

Clip(p) == IF p < 0 THEN 0 ELSE IF p > Span THEN Span ELSE p

(* A command takes effect after at most StartLag reports; from then on the
   focus moves between any two reports until it is at its target. *)
Begin(d) ==
    CASE d.cmd[1] = "move" ->
           [d EXCEPT !.tar = Clip(d.pos + d.cmd[2]), !.cmd = <<>>, !.age = 0]
      [] OTHER -> [d EXCEPT !.pos = 0, !.tar = 0, !.cmd = <<>>, !.age = 0]

Work(d, begins) ==
    LET e == IF d.cmd = <<>> THEN d
             ELSE IF begins THEN Begin(d)
             ELSE [d EXCEPT !.age = d.age + 1]
    IN  [e EXCEPT !.pos = IF e.pos < e.tar THEN e.pos + 1
                          ELSE IF e.pos > e.tar THEN e.pos - 1 ELSE e.pos]

MustBegin  == {c \in Cams : dev[c].cmd # <<>> /\ dev[c].age = StartLag}
MayBegin   == {c \in Cams : dev[c].cmd # <<>>}

(* What a focuser, or a program that took its port, sends: a report of all
   cameras, of all but camera o, of a unit that is no number, one without
   date and number, and lines of other kinds. *)
Report(d, shape, o) ==
    LET item(k) == <<MirrorNames[k], IF k \in Cams THEN d[k].pos ELSE 0>>
        list == [k \in 1 .. 5 |-> item(k)]
        rest == [k \in 1 .. 4 |-> item(IF k < o THEN k ELSE k + 1)]
        line == [framed |-> TRUE, keyword |-> "focus", gid |-> Gid, uid |-> Uid,
                 parts |-> <<list, "date", "time", "sn">>]
    IN  CASE shape = "whole"  -> line
          [] shape = "lacks"  -> [line EXCEPT !.parts[1] = rest]
          [] shape = "word"   -> [line EXCEPT !.uid = Word]
          [] shape = "short"  -> [line EXCEPT !.parts = <<list>>]
          [] shape = "mirror" -> [line EXCEPT !.parts[1][1][1] = "south"]
          [] shape = "rec"    -> [line EXCEPT !.keyword = "Rec",
                                              !.parts = Tail(@)]
          [] shape = "pos"    -> [line EXCEPT !.keyword = "currentpos",
                                              !.parts = <<"ra", "dec">> \o Tail(@)]
          [] shape = "status" -> [line EXCEPT !.keyword = "status",
                                              !.parts[1] = <<5, 5>>]

Shapes == {"whole", "lacks", "word", "short", "mirror", "rec", "pos", "status"}

(* A command of the system reaches the focuser if the connection it has is the
   present one, and up. *)
Send(d, cmd) == IF link /\ tcp = "now" THEN [d EXCEPT !.cmd = cmd, !.age = 0] ELSE d

(* It may connect again before the system has seen the last connection close. *)
LinkUp ==
    /\ ~link
    /\ link' = TRUE
    /\ tcp' = IF tcp = "now" THEN "old" ELSE tcp
    /\ UNCHANGED <<cam, dev, told, auto, cmds>>

LinkDown ==
    /\ link
    /\ link' = FALSE
    /\ UNCHANGED <<cam, tcp, dev, told, auto, cmds>>

-----------------------------------------------------------------------------
(* The system *)

(* NotifyFocus: a position counts as new, or as repeated while a command is
   not done. *)
Settles(f, pos) == f.focPos = pos /\ f.focState # 0 /\ f.repeat + 1 >= Repeats

NotifyFocusAsked(f, pos) ==   \* mutant
    CASE pos # f.focPos   -> [f EXCEPT !.focPos = pos, !.repeat = 0]
      [] f.focPos = pos /\ f.focState = 1 ->
           [f EXCEPT !.repeat = @ + 1,
                     !.focState = IF Settles(f, pos) THEN 0 ELSE @]
      [] OTHER -> f

NotifyFocus(f, pos) ==
    CASE pos # f.focPos  -> [f EXCEPT !.focPos = pos, !.repeat = 0]
      [] Settles(f, pos) -> [f EXCEPT !.repeat = @ + 1, !.focState = 0]
      [] pos = f.focPos /\ f.focState # 0 /\ ~Settles(f, pos) ->
           [f EXCEPT !.repeat = @ + 1]
      [] OTHER -> f

(* process_protocol_focus of a report: the focuser is coupled, in the place of
   an older connection, and each known camera of the unit notified. *)
NotifyAll(pos) ==
    /\ tcp' = "now"
    /\ cam' = [c \in Cams |-> IF cam[c].known THEN NotifyFocus(cam[c], pos[c])
                               ELSE cam[c]]
    /\ told' = [c \in Cams |-> IF cam[c].online /\ Settles(cam[c], pos[c])
                                 THEN pos[c] ELSE told[c]]
    /\ auto' = [c \in Cams |-> \/ auto[c]
                                \/ /\ cam[c].known /\ pos[c] = Unset
                                   /\ Settles(cam[c], Unset)]
    /\ UNCHANGED link

(* std::stoi throws and nobody catches it: the server dies, and is started
   again. *)
Die ==
    /\ cam' = [c \in Cams |-> NewCamera]
    /\ told' = [c \in Cams |-> Invalid]
    /\ tcp' = "none" /\ link' = FALSE
    /\ UNCHANGED auto

(* A response only empties the resend buffer. *)
HandleLine(msg) ==
    \/ msg.type = "focus" /\ msg.uid = Uid  /\ NotifyAll(msg.pos)
    \/ msg.type = "focus" /\ msg.uid = Word /\ Die
    \/ msg.type # "focus" /\ UNCHANGED <<tcp, link, cam, told, auto>>

FocuserReports(shape) ==
    /\ link
    /\ \E begins \in {B \in SUBSET MayBegin : MustBegin \subseteq B} :
       \E d \in {[c \in Cams |-> Work(dev[c], c \in begins)]}, o \in Cams :
       \E line \in {Report(d, shape, o)} :
         /\ dev' = d
         /\ HandleLine(Resolve(line))
    /\ UNCHANGED cmds

(* DecoupleFocus, from on_tcp_close of GeneralControl: only the connection the
   system has counts. *)
FocuserCloses ==
    /\ tcp = "old" \/ (tcp = "now" /\ ~link)
    /\ tcp' = "none"
    /\ UNCHANGED <<cam, link, dev, told, auto, cmds>>

(* CoupleCamera: a camera that comes back is told where its focus is. *)
CoupleCamera(c) ==
    /\ ~cam[c].online
    /\ cam' = [cam EXCEPT ![c].known = TRUE, ![c].online = TRUE]
    /\ told' = IF cam[c].known /\ cam[c].focState = 0
                 THEN [told EXCEPT ![c] = cam[c].focPos] ELSE told
    /\ auto' = [auto EXCEPT ![c] = @ \/ (cam[c].focState = 0 /\ cam[c].focPos = Unset)]
    /\ UNCHANGED <<tcp, link, dev, cmds>>

CameraCloses(c) ==
    /\ cam[c].online
    /\ cam' = [cam EXCEPT ![c].online = FALSE]
    /\ told' = [told EXCEPT ![c] = Invalid]
    /\ UNCHANGED <<tcp, link, dev, auto, cmds>>

(* The commands.  One is given after the last one has reached the focuser. *)
Command(S) ==
    /\ tcp # "none" /\ cmds < MaxCmds
    /\ \A c \in S : cam[c].known /\ dev[c].cmd = <<>>
    /\ cmds' = cmds + 1
    /\ UNCHANGED <<tcp, link, told>>

FocusCountsOn(c, relPos) ==   \* mutant
    /\ Command({c}) /\ relPos # 0
    /\ cam' = [cam EXCEPT ![c].focState = 1]
    /\ dev' = [dev EXCEPT ![c] = Send(dev[c], <<"move", relPos>>)]
    /\ auto' = [auto EXCEPT ![c] = FALSE]

Focus(c, relPos) ==
    /\ Command({c}) /\ relPos # 0
    /\ cam' = [cam EXCEPT ![c].focState = 1, ![c].repeat = 0]
    /\ dev' = [dev EXCEPT ![c] = Send(dev[c], <<"move", relPos>>)]
    /\ auto' = [auto EXCEPT ![c] = FALSE]

(* An empty cid resets every camera of the system. *)
FocusSync(S) ==
    /\ Command(S)
    /\ cam' = [c \in Cams |-> IF c \in S THEN [cam[c] EXCEPT !.focState = -1]
                              ELSE cam[c]]
    /\ dev' = [c \in Cams |-> IF c \in S THEN Send(dev[c], <<"clear">>)
                              ELSE dev[c]]
    /\ auto' = [c \in Cams |-> auto[c] \/ c \in S]

(* A FWHM that differs from the last one lets the focuser look for the
   focus, anywhere. *)
NotifyFWHM(c) ==
    /\ Command({c})
    /\ cam' = [cam EXCEPT ![c].focState = -1]
    /\ \E relPos \in Rels :
         dev' = [dev EXCEPT ![c] = Send(dev[c], <<"move", relPos>>)]
    /\ auto' = [auto EXCEPT ![c] = TRUE]

Known == {c \in Cams : cam[c].known}

Next ==
    \/ LinkUp \/ LinkDown
    \/ \E shape \in Shapes : FocuserReports(shape)
    \/ FocuserCloses
    \/ \E c \in Cams : CoupleCamera(c) \/ CameraCloses(c) \/ NotifyFWHM(c)
    \/ \E c \in Cams, relPos \in Rels : Focus(c, relPos)
    \/ \E S \in ({{c} : c \in Known} \cup {Known}) \ {{}} : FocusSync(S)

(* The focuser keeps reporting; the message loop handles the closing. *)
Fairness == WF_vars(FocuserReports("whole")) /\ WF_vars(FocuserCloses)

Spec == Init /\ [][Next]_vars /\ Fairness

-----------------------------------------------------------------------------
(* What the system may have written to the focuser. *)
FocuserCommands == {<<>>, <<"clear">>} \cup {<<"move", relPos>> : relPos \in Rels}

(* The type invariant: a camera's focPos is one the focuser reported, INT_MAX
   if its last line left the camera out, or none yet. *)
TypeOK ==
    /\ dev \in [Cams -> [pos : 0 .. Span, tar : 0 .. Span,
                         cmd : FocuserCommands, age : 0 .. StartLag]]
    /\ cam \in [Cams -> [known : BOOLEAN, online : BOOLEAN,
                         focState : {-1, 0, 1},
                         focPos : 0 .. Span \cup {Invalid, Unset},
                         repeat : Nat]]
    /\ tcp \in {"none", "now", "old"} /\ link \in BOOLEAN
    /\ told \in [Cams -> 0 .. Span \cup {Invalid, Unset}]
    /\ auto \in [Cams -> BOOLEAN] /\ cmds \in 0 .. MaxCmds

(* A camera on line whose focus the system takes for at rest, after a
   client's command or with none, has been told the position at which the
   focuser really stands, with no move left to do: not one the focuser
   stood at before it began to move, and not an earlier one of a camera
   that has come back; also where lines in between left the camera out, or
   killed the server.  Excepted is what the system takes from INT_MAX: lines
   that leave the camera out until it counts as at rest, or that are the last
   ones when it comes back. *)
CameraKnowsFocus ==
    \A c \in Cams :
      cam[c].online /\ cam[c].focState = 0 /\ ~auto[c] =>
        /\ told[c] = dev[c].pos
        /\ dev[c].tar = dev[c].pos /\ dev[c].cmd = <<>>

(* Every command ends: the system takes the focus for at rest again, or
   loses the focuser; also one that moves nothing, that is given in the
   middle of another move, or that never arrives.  A line that leaves the
   camera out starts the count anew. *)
FocusSettles ==
    \A c \in Cams :
      (cam[c].known /\ cam[c].focState # 0 /\ tcp # "none")
        ~> (cam[c].focState = 0 \/ tcp = "none" \/ cam[c].focPos = Unset)
=============================================================================
