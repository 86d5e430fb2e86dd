------------------------ MODULE FocusTracker_proofs ------------------------
(***************************************************************************)
(* Theorems about FocusTracker, for every set of cameras, every travel of  *)
(* the focuser, every set of moves clients ask for and every number of     *)
(* repetitions, if only it is above the focuser's reports before it moves. *)
(***************************************************************************)
EXTENDS FocusTracker, TLAPS

-----------------------------------------------------------------------------
(* What Resolve makes of the lines a focuser sends. *)

(* The names resolve_focus knows are those the focuser uses, in its order. *)
LEMMA MirrorsResolve ==
    /\ DOMAIN MirrorNames = 1 .. 5
    /\ \A k \in 1 .. 5 : resolve_focus(MirrorNames[k]) = k
<1>1. DOMAIN MirrorNames = 1 .. 5
  BY DEF MirrorNames
<1>2. DOMAIN MirrorIndex = {"es", "ws", "wn", "en", "mid"}
  BY DEF MirrorIndex
<1>3. /\ MirrorNames[1] = "es" /\ MirrorNames[2] = "ws" /\ MirrorNames[3] = "wn"
      /\ MirrorNames[4] = "en" /\ MirrorNames[5] = "mid"
  BY DEF MirrorNames
<1>4. /\ MirrorIndex["es"] = 1 /\ MirrorIndex["ws"] = 2 /\ MirrorIndex["wn"] = 3
      /\ MirrorIndex["en"] = 4 /\ MirrorIndex["mid"] = 5
  BY DEF MirrorIndex
<1>5. \A k \in 1 .. 5 : k = 1 \/ k = 2 \/ k = 3 \/ k = 4 \/ k = 5
  OBVIOUS
<1> QED BY <1>1, <1>2, <1>3, <1>4, <1>5 DEF resolve_focus

(* The line of a whole report, and the list in it. *)
ListOf(d) == [k \in 1 .. 5 |-> <<MirrorNames[k], IF k \in Cams THEN d[k].pos ELSE 0>>]

LineOf(d) == [framed |-> TRUE, keyword |-> "focus", gid |-> Gid, uid |-> Uid,
              parts |-> <<ListOf(d), "date", "time", "sn">>]

(* Every item of a whole line is stored. *)
LEMMA WholeStored ==
    ASSUME NEW d
    PROVE  StoredItems(LineOf(d)) = ListOf(d)
<1>1. LineOf(d).parts = <<ListOf(d), "date", "time", "sn">>
  BY DEF LineOf
<1>2. Head(LineOf(d).parts) = ListOf(d) /\ Len(LineOf(d).parts) = 4
  <2> HIDE DEF ListOf
  <2> QED BY <1>1
<1> QED BY <1>2 DEF StoredItems

(* A whole report is read as one of type focus, with the position of every
   camera where the system looks for it. *)
LEMMA WholeResolves ==
    ASSUME NEW d, NEW o, FocusOK
    PROVE  /\ Resolve(Report(d, "whole", o)).type = "focus"
           /\ Resolve(Report(d, "whole", o)).uid = Uid
           /\ \A c \in Cams : Resolve(Report(d, "whole", o)).pos[c] = d[c].pos
<1> DEFINE items   == StoredItems(LineOf(d))
           At(k)   == {j \in DOMAIN items : resolve_focus(items[j][1]) = k}
           Last(J) == CHOOSE j \in J : \A i \in J : i <= j
           pos     == [k \in DOMAIN MirrorNames |->
                          IF At(k) = {} THEN Unset ELSE items[Last(At(k))][2]]
           msg     == [type |-> "focus", gid |-> Gid, uid |-> Uid,
                       sn |-> Empty, pos |-> pos]
           rest    == Tail(LineOf(d).parts)
<1>1. Report(d, "whole", o) = LineOf(d)
  BY DEF Report, LineOf, ListOf
<1>2. Resolve(LineOf(d)) = ResolveFocus(LineOf(d))
  BY DEF Resolve, LineOf
<1>3. items = ListOf(d)
  BY WholeStored
<1>4. /\ DOMAIN items = 1 .. 5
      /\ \A k \in 1 .. 5 : items[k][1] = MirrorNames[k]
      /\ \A c \in Cams : items[c][2] = d[c].pos
  BY <1>3, MirrorsResolve DEF ListOf, FocusOK
<1>5. At(0) = {} /\ \A k \in 1 .. 5 : At(k) = {k}
  BY <1>4, MirrorsResolve
<1>6. \A k \in 1 .. 5 : Last({k}) = k
  OBVIOUS
<1>7. \A c \in Cams : pos[c] = d[c].pos
  BY <1>4, <1>5, <1>6, MirrorsResolve DEF FocusOK
<1>8. items # <<>>
  <2>1. 1 \in DOMAIN items
    BY <1>4
  <2> HIDE DEF items
  <2>2. 1 \notin DOMAIN <<>>
    OBVIOUS
  <2> QED BY <2>1, <2>2
<1>9. ResolveFocus(LineOf(d)) = Stamped(msg, rest)
  BY <1>5, <1>8 DEF ResolveFocus, LineOf
<1>10. Stamped(msg, rest) = [msg EXCEPT !.sn = Part(rest, 3)]
  <2>1. rest = <<"date", "time", "sn">>
    BY DEF LineOf
  <2> HIDE DEF pos, rest
  <2>2. Part(rest, 3) = "sn"
    BY <2>1 DEF Part
  <2>3. Part(rest, 3) # Empty
    BY <2>2 DEF Empty
  <2> QED BY <2>3 DEF Stamped, FocusOK
<1>11. /\ Stamped(msg, rest).type = "focus" /\ Stamped(msg, rest).uid = Uid
       /\ Stamped(msg, rest).pos = pos
  <2> HIDE DEF pos, rest
  <2> QED BY <1>10
<1>12. Resolve(Report(d, "whole", o)) = Stamped(msg, rest)
  BY <1>1, <1>2, <1>9
<1> HIDE DEF pos, msg, rest
<1> QED BY <1>7, <1>11, <1>12

(* The list of a report that leaves camera o out. *)
LackingOf(d, o) ==
    [k \in 1 .. 4 |-> LET j == IF k < o THEN k ELSE k + 1
                      IN  <<MirrorNames[j], IF j \in Cams THEN d[j].pos ELSE 0>>]

(* A report that leaves camera o out is read as one of type focus, too, with
   INT_MAX for the position of that camera. *)
LEMMA LackingResolves ==
    ASSUME NEW d, NEW o \in Cams, FocusOK
    PROVE  /\ Resolve(Report(d, "lacks", o)).type = "focus"
           /\ Resolve(Report(d, "lacks", o)).uid = Uid
           /\ \A c \in Cams : Resolve(Report(d, "lacks", o)).pos[c] =
                                 IF c = o THEN Unset ELSE d[c].pos
<1> DEFINE line    == [LineOf(d) EXCEPT !.parts[1] = LackingOf(d, o)]
           items   == StoredItems(line)
           At(k)   == {j \in DOMAIN items : resolve_focus(items[j][1]) = k}
           Last(J) == CHOOSE j \in J : \A i \in J : i <= j
           pos     == [k \in DOMAIN MirrorNames |->
                          IF At(k) = {} THEN Unset ELSE items[Last(At(k))][2]]
           msg     == [type |-> "focus", gid |-> Gid, uid |-> Uid,
                       sn |-> Empty, pos |-> pos]
           rest    == <<"date", "time", "sn">>
<1>1. Report(d, "lacks", o) = line
  BY DEF Report, LineOf, ListOf, LackingOf
<1>2. /\ line.framed /\ line.keyword = "focus" /\ line.gid = Gid /\ line.uid = Uid
      /\ line.parts = <<LackingOf(d, o), "date", "time", "sn">>
  <2> HIDE DEF LackingOf
  <2> QED BY DEF LineOf
<1>3. items = LackingOf(d, o) /\ Tail(line.parts) = rest
  <2> HIDE DEF LackingOf, line
  <2>1. Head(line.parts) = LackingOf(d, o) /\ Len(line.parts) = 4
    BY <1>2
  <2> QED BY <1>2, <2>1 DEF StoredItems
<1>4. /\ DOMAIN items = 1 .. 4 /\ items # <<>>
      /\ o \in 1 .. 5
      /\ \A k \in 1 .. 4 : LET j == IF k < o THEN k ELSE k + 1
                            IN  /\ items[k][1] = MirrorNames[j]
                                /\ j \in Cams => items[k][2] = d[j].pos
  BY <1>3, MirrorsResolve DEF LackingOf, FocusOK
<1>5. \A k \in 1 .. 4 : LET j == IF k < o THEN k ELSE k + 1
                         IN  j \in 1 .. 5 /\ resolve_focus(items[k][1]) = j
  BY <1>4, MirrorsResolve
<1>6. /\ At(0) = {} /\ At(o) = {}
      /\ \A k \in 1 .. 5 : k < o => At(k) = {k}
      /\ \A k \in 1 .. 5 : o < k => At(k) = {k - 1}
  <2> HIDE DEF items
  <2> QED BY <1>4, <1>5
<1>7. \A k \in 0 .. 5 : Last({k}) = k
  OBVIOUS
<1>8. \A c \in Cams : pos[c] = IF c = o THEN Unset ELSE d[c].pos
  <2> SUFFICES ASSUME NEW c \in Cams
               PROVE  pos[c] = IF c = o THEN Unset ELSE d[c].pos
    OBVIOUS
  <2>1. c \in 1 .. 5 /\ c \in DOMAIN MirrorNames
    BY MirrorsResolve DEF FocusOK
  <2>2. pos[c] = IF At(c) = {} THEN Unset ELSE items[Last(At(c))][2]
    BY <2>1
  <2> HIDE DEF items, Last, pos, At
  <2>3. CASE c = o
    BY <1>6, <2>2, <2>3
  <2>4. CASE c < o
    <3>1. At(c) = {c} /\ Last({c}) = c
      BY <1>6, <1>7, <2>1, <2>4
    <3>2. c \in 1 .. 4 /\ items[c][2] = d[c].pos
      BY <1>4, <2>1, <2>4
    <3> QED BY <1>4, <2>1, <2>2, <2>4, <3>1, <3>2
  <2>5. CASE o < c
    <3>1. At(c) = {c - 1} /\ Last({c - 1}) = c - 1
      <4>1. At(c) = {c - 1}
        BY <1>6, <2>1, <2>5
      <4>2. c - 1 \in 0 .. 5
        BY <2>1
      <4> QED BY <1>7, <4>1, <4>2
    <3>2. c - 1 \in 1 .. 4 /\ ~(c - 1 < o) /\ (c - 1) + 1 = c
      BY <1>4, <2>1, <2>5
    <3>3. items[c - 1][2] = d[c].pos
      BY <1>4, <3>2
    <3> QED BY <1>4, <2>1, <2>2, <2>5, <3>1, <3>3
  <2> QED BY <1>4, <2>1, <2>3, <2>4, <2>5
<1>9. ResolveFocus(line) = Stamped(msg, rest)
  BY <1>2, <1>3, <1>4, <1>6 DEF ResolveFocus
<1>10. Stamped(msg, rest) = [msg EXCEPT !.sn = "sn"]
  <2> HIDE DEF pos
  <2>1. Part(rest, 3) = "sn" /\ Part(rest, 3) # Empty
    BY DEF Part, Empty
  <2> QED BY <2>1 DEF Stamped, FocusOK
<1>11. /\ Stamped(msg, rest).type = "focus" /\ Stamped(msg, rest).uid = Uid
       /\ Stamped(msg, rest).pos = pos
  <2> HIDE DEF pos
  <2> QED BY <1>10
<1>12. Resolve(line) = Stamped(msg, rest)
  <2> HIDE DEF msg, rest
  <2> QED BY <1>2, <1>9 DEF Resolve
<1> HIDE DEF pos, msg, rest, line
<1> QED BY <1>1, <1>8, <1>11, <1>12

(* A whole report with another unit is one of that unit. *)
LEMMA WordResolves ==
    ASSUME NEW d, NEW o, FocusOK
    PROVE  Resolve(Report(d, "word", o)).type = "focus" =>
              Resolve(Report(d, "word", o)).uid = Word
<1> DEFINE line == [LineOf(d) EXCEPT !.uid = Word]
<1>1. Report(d, "word", o) = line
  BY DEF Report, LineOf, ListOf
<1>2. line.framed /\ line.keyword = "focus" /\ line.uid = Word
  BY DEF LineOf
<1> HIDE DEF line
<1>3. \A msg, parts : msg.uid = Word /\ "sn" \in DOMAIN msg =>
         Stamped(msg, parts).type # "focus" \/ Stamped(msg, parts).uid = Word
  BY DEF Stamped, NoProto
<1>4. \A pos : LET msg == [type |-> "focus", gid |-> line.gid, uid |-> Word,
                           sn |-> Empty, pos |-> pos]
               IN  msg.uid = Word /\ "sn" \in DOMAIN msg
  OBVIOUS
<1>5. ResolveFocus(line).type # "focus" \/ ResolveFocus(line).uid = Word
  BY <1>2, <1>3, <1>4 DEF ResolveFocus, NoProto
<1> QED BY <1>1, <1>2, <1>5 DEF Resolve

(* Stamping does not make a report of the focus out of another message. *)
LEMMA StampedOther ==
    ASSUME NEW msg, "type" \in DOMAIN msg, msg.type # "focus", NEW parts
    PROVE  Stamped(msg, parts).type # "focus"
BY DEF Stamped, NoProto

(* No other line of the focuser is read as one: it has another keyword,
   no number, or a name resolve_focus does not know. *)
LEMMA OthersResolve ==
    ASSUME NEW d, NEW o, NEW shape \in Shapes \ {"whole", "lacks", "word"}
    PROVE  Resolve(Report(d, shape, o)).type # "focus"
<1> DEFINE line == Report(d, shape, o)
<1>1. CASE shape = "short"
  <2>1. line = [LineOf(d) EXCEPT !.parts = <<ListOf(d)>>]
    BY <1>1 DEF Report, LineOf, ListOf
  <2>2. line.framed /\ line.keyword = "focus" /\ line.parts = <<ListOf(d)>>
    BY <2>1 DEF LineOf
  <2>3. Part(Tail(line.parts), 3) = Empty
    BY <2>2 DEF Part
  <2>4. \A msg : Stamped(msg, Tail(line.parts)) = NoProto
    BY <2>3 DEF Stamped
  <2>5. ResolveFocus(line) = NoProto
    BY <2>4 DEF ResolveFocus
  <2> QED BY <2>2, <2>5 DEF Resolve, NoProto
<1>2. CASE shape = "mirror"
  <2> DEFINE list == [ListOf(d) EXCEPT ![1][1] = "south"]
             At(k) == {j \in DOMAIN list : resolve_focus(list[j][1]) = k}
  <2>1. line = [LineOf(d) EXCEPT !.parts[1][1][1] = "south"]
    BY <1>2 DEF Report, LineOf, ListOf
  <2>2. /\ line.framed /\ line.keyword = "focus"
        /\ line.parts = [LineOf(d).parts EXCEPT ![1][1][1] = "south"]
    BY <2>1 DEF LineOf
  <2>3. StoredItems(line) = list
    <3>1. LineOf(d).parts = <<ListOf(d), "date", "time", "sn">>
      BY DEF LineOf
    <3> HIDE DEF line
    <3>2. Len(line.parts) = 4 /\ line.parts[1] = list
      <4> HIDE DEF ListOf
      <4> QED BY <2>2, <3>1
    <3>3. Head(line.parts) = list
      <4> HIDE DEF list
      <4> QED BY <3>2
    <3> QED BY <3>2, <3>3 DEF StoredItems
  <2>4. 1 \in DOMAIN list /\ list[1][1] = "south"
    BY DEF ListOf
  <2>5. resolve_focus("south") = 0
    BY DEF resolve_focus, MirrorIndex
  <2>6. 1 \in At(0)
    BY <2>4, <2>5
  <2>7. ResolveFocus(line) = NoProto
    BY <2>3, <2>6 DEF ResolveFocus
  <2> QED BY <2>2, <2>7 DEF Resolve, NoProto
<1>3. CASE shape = "rec"
  <2>1. line.framed /\ line.keyword = "Rec"
    BY <1>3 DEF Report
  <2> QED BY <2>1, StampedOther DEF Resolve, ResolveResponse
<1>4. CASE shape = "pos"
  <2>1. line.framed /\ line.keyword = "currentpos"
    BY <1>4 DEF Report
  <2> QED BY <2>1, StampedOther DEF Resolve, ResolvePosition, NoProto
<1>5. CASE shape = "status"
  <2>1. line.framed /\ line.keyword = "status"
    BY <1>5 DEF Report
  <2> QED BY <2>1, StampedOther DEF Resolve, ResolveStatus
<1> QED BY <1>1, <1>2, <1>3, <1>4, <1>5 DEF Shapes

-----------------------------------------------------------------------------
(* The focuser between two reports. *)

Cameras  == [known : BOOLEAN, online : BOOLEAN, focState : {-1, 0, 1},
             focPos : 0 .. Span \cup {Invalid, Unset}, repeat : Nat]
Focusers == [pos : 0 .. Span, tar : 0 .. Span,
             cmd : FocuserCommands, age : 0 .. StartLag]

(* The constants as numbers. *)
LEMMA Numbers ==
    ASSUME FocusOK
    PROVE  /\ Span \in Nat /\ StartLag \in Nat /\ Repeats \in Nat /\ Invalid \in Nat
           /\ MaxCmds \in Nat /\ Unset \in Nat
           /\ 1 < Repeats /\ StartLag < Repeats /\ Span < Invalid
           /\ Span < Unset /\ Invalid # Unset
BY DEF FocusOK

(* The focuser may have no command to begin. *)
LEMMA NoCommand == <<>> \in FocuserCommands
BY DEF FocuserCommands

(* One it has is a reset or a move. *)
LEMMA CommandForms ==
    ASSUME FocusOK, NEW cmd \in FocuserCommands, cmd # <<>>
    PROVE  \/ cmd = <<"clear">> /\ cmd[1] # "move"
           \/ /\ cmd # <<"clear">> /\ cmd[1] = "move" /\ cmd[2] \in Int
BY DEF FocuserCommands, FocusOK

(* The state a command begins from: a move has a target on the way from where
   the focus is, a reset puts it at rest. *)
LEMMA BeginForms ==
    ASSUME FocusOK, NEW d \in Focusers, d.cmd # <<>>
    PROVE  /\ Begin(d) \in Focusers
           /\ Begin(d).cmd = <<>>
           /\ d.cmd # <<"clear">> => Begin(d).pos = d.pos
<1>0. 0 \in 0 .. Span /\ 0 \in 0 .. StartLag
  BY Numbers
<1>1. CASE d.cmd = <<"clear">> /\ d.cmd[1] # "move"
  <2>1. Begin(d) = [d EXCEPT !.pos = 0, !.tar = 0, !.cmd = <<>>, !.age = 0]
    BY <1>1 DEF Begin
  <2>2. \A e \in Focusers, cmd \in FocuserCommands :
            LET b == [e EXCEPT !.pos = 0, !.tar = 0, !.cmd = cmd, !.age = 0]
            IN  b \in Focusers /\ b.cmd = cmd
    BY <1>0 DEF Focusers
  <2> QED BY <1>1, <2>1, <2>2, NoCommand
<1>2. CASE d.cmd # <<"clear">> /\ d.cmd[1] = "move" /\ d.cmd[2] \in Int
  <2> DEFINE tar == Clip(d.pos + d.cmd[2])
  <2>1. Begin(d) = [d EXCEPT !.tar = tar, !.cmd = <<>>, !.age = 0]
    BY <1>2 DEF Begin
  <2>2. tar \in 0 .. Span
    BY <1>2, Numbers DEF Clip, Focusers
  <2> HIDE DEF tar
  <2>3. \A cmd \in FocuserCommands :
            LET b == [d EXCEPT !.tar = tar, !.cmd = cmd, !.age = 0]
            IN  b \in Focusers /\ b.cmd = cmd /\ b.pos = d.pos
    BY <1>0, <2>2 DEF Focusers
  <2> QED BY <2>1, <2>3, NoCommand
<1> QED BY <1>1, <1>2, CommandForms DEF Focusers

(* Between two reports the focus moves by one towards its target. *)
Nearer(e) == [e EXCEPT !.pos = IF e.pos < e.tar THEN e.pos + 1
                               ELSE IF e.pos > e.tar THEN e.pos - 1 ELSE e.pos]

(* A focuser that begins a command moves at once, one that does not counts its
   reports, and one without a command goes on to its target. *)
LEMMA WorkForms ==
    ASSUME FocusOK, NEW d \in Focusers, NEW begins \in BOOLEAN,
           d.cmd # <<>> /\ d.age = StartLag => begins
    PROVE  /\ Work(d, begins) \in Focusers
           /\ d.cmd = <<>> => Work(d, begins) = Nearer(d)
           /\ d.cmd # <<>> /\ begins => Work(d, begins) = Nearer(Begin(d))
           /\ d.cmd # <<>> /\ ~begins =>
                /\ Work(d, begins) = Nearer([d EXCEPT !.age = d.age + 1])
                /\ d.age < StartLag
<1>1. ASSUME NEW e \in Focusers PROVE Nearer(e) \in Focusers
  BY <1>1, Numbers DEF Focusers, Nearer
<1>2. CASE d.cmd = <<>>
  BY <1>1, <1>2 DEF Work, Nearer
<1>3. CASE d.cmd # <<>> /\ begins
  BY <1>1, <1>3, BeginForms DEF Work, Nearer
<1>4. CASE d.cmd # <<>> /\ ~begins
  <2>1. d.age < StartLag /\ [d EXCEPT !.age = d.age + 1] \in Focusers
    BY <1>4, Numbers DEF Focusers
  <2> QED BY <1>1, <1>4, <2>1 DEF Work, Nearer
<1> QED BY <1>2, <1>3, <1>4

-----------------------------------------------------------------------------
(* What the record of a camera tells of its focus.                         *)

AtRest(d) == d.cmd = <<>> /\ d.tar = d.pos

(* The focus has yet to pass position p on its way. *)
Ahead(d, p) == (d.pos < p /\ p < d.tar) \/ (d.tar < p /\ p < d.pos)

(* While the command has not begun, no more repetitions are counted than
   reports came; the focus may still be on its way to an earlier target, and
   counts the recorded position once when it passes it. *)
Pending(f, d) ==
    /\ d.cmd # <<"clear">>
    /\ f.repeat <= d.age
    /\ d.pos = f.focPos /\ d.pos # d.tar => f.repeat <= 1
    /\ d.pos # f.focPos /\ f.focPos # Unset =>
          f.repeat = 0 \/ (f.repeat = 1 /\ 1 < d.age /\ ~Ahead(d, f.focPos))

(* While it moves, the repetitions do not suffice, nor will they with the one
   that is counted when it passes the recorded position. *)
Moving(f, d) ==
    d.pos # d.tar => IF Ahead(d, f.focPos) THEN f.repeat + 1 < Repeats
                                           ELSE f.repeat < Repeats

(* The record f of a camera that was last told position t, its focuser in
   state d, and whether the focuser chose the position, or was not asked. *)
Follows(f, d, t, chosen) ==
    /\ ~f.known => f.focState = -1 /\ ~f.online
    /\ f.focState = 1 => ~chosen
    /\ ~chosen /\ f.focState # 0 => IF d.cmd = <<>> THEN Moving(f, d) ELSE Pending(f, d)
    /\ ~chosen /\ f.focState = 0 => /\ AtRest(d)
                                    /\ f.focPos = d.pos \/ f.focPos = Unset
                                    /\ f.online => t = d.pos

FocusInv == TypeOK /\ \A c \in Cams : Follows(cam[c], dev[c], told[c], auto[c])

(* A line that is dropped: the focus moves, the record does not. *)
LEMMA DroppedFollows ==
    ASSUME FocusOK, NEW f \in Cameras, NEW d \in Focusers, NEW t, NEW chosen \in BOOLEAN,
           NEW begins \in BOOLEAN, d.cmd # <<>> /\ d.age = StartLag => begins,
           Follows(f, d, t, chosen)
    PROVE  Follows(f, Work(d, begins), t, chosen)
<1> DEFINE e == Work(d, begins)
<1>0. /\ d.pos \in 0 .. Span /\ d.tar \in 0 .. Span /\ d.age \in 0 .. StartLag
      /\ f.focPos \in Nat /\ f.repeat \in Nat
  BY Numbers DEF Focusers, Cameras
<1>1. CASE d.cmd = <<>>
  <2>1. e = Nearer(d)
    BY <1>1, WorkForms
  <2>2. /\ e.cmd = <<>> /\ e.tar = d.tar
        /\ e.pos = IF d.pos < d.tar THEN d.pos + 1
                   ELSE IF d.pos > d.tar THEN d.pos - 1 ELSE d.pos
    BY <1>1, <2>1 DEF Nearer, Focusers
  <2> HIDE DEF e
  <2>3. AtRest(d) => AtRest(e) /\ e.pos = d.pos
    BY <1>0, <2>2 DEF AtRest
  <2>4. Moving(f, d) => Moving(f, e)
    BY <1>0, <2>2, Numbers DEF Moving, Ahead
  <2>5. Follows(f, e, t, chosen)
    BY <1>1, <2>2, <2>3, <2>4 DEF Follows
  <2> QED BY <2>5 DEF e
<1>2. CASE d.cmd # <<>> /\ (chosen \/ f.focState = 0)
  <2>1. chosen
    BY <1>2 DEF Follows, AtRest
  <2> QED BY <1>2, <2>1 DEF Follows
<1>3. CASE d.cmd # <<>> /\ ~chosen /\ f.focState # 0 /\ begins
  <2>1. Pending(f, d)
    BY <1>3 DEF Follows
  <2>2. e = Nearer(Begin(d)) /\ Begin(d) \in Focusers
    BY <1>3, WorkForms, BeginForms
  <2>3. Begin(d).pos = d.pos /\ Begin(d).cmd = <<>>
    BY <1>3, <2>1, BeginForms DEF Pending
  <2>4. /\ e.cmd = <<>> /\ e.tar = Begin(d).tar /\ Begin(d).tar \in 0 .. Span
        /\ e.pos = IF d.pos < e.tar THEN d.pos + 1
                   ELSE IF d.pos > e.tar THEN d.pos - 1 ELSE d.pos
    BY <2>2, <2>3 DEF Nearer, Focusers
  <2>5. Moving(f, e)
    <3> HIDE DEF e
    <3>1. f.repeat <= d.age /\ d.age < Repeats
      BY <1>0, <2>1, Numbers DEF Pending
    <3>2. CASE f.focPos = Unset
      BY <1>0, <2>4, <3>1, <3>2, Numbers DEF Moving, Ahead
    <3>3. CASE f.focPos # Unset
      BY <1>0, <2>1, <2>4, <3>1, <3>3, Numbers DEF Pending, Moving, Ahead
    <3> QED BY <3>2, <3>3
  <2> HIDE DEF e
  <2>6. Follows(f, e, t, chosen)
    BY <1>3, <2>1, <2>4, <2>5 DEF Follows
  <2> QED BY <2>6 DEF e
<1>4. CASE d.cmd # <<>> /\ ~chosen /\ f.focState # 0 /\ ~begins
  <2>1. Pending(f, d)
    BY <1>4 DEF Follows
  <2>2. e = Nearer([d EXCEPT !.age = d.age + 1])
    BY <1>4, WorkForms
  <2>3. /\ e.cmd = d.cmd /\ e.tar = d.tar /\ e.age = d.age + 1
        /\ e.pos = IF d.pos < d.tar THEN d.pos + 1
                   ELSE IF d.pos > d.tar THEN d.pos - 1 ELSE d.pos
    BY <2>2 DEF Nearer, Focusers
  <2>4. Pending(f, e)
    <3> HIDE DEF e
    <3>1. /\ f.repeat <= e.age
          /\ e.pos = f.focPos /\ e.pos # e.tar => f.repeat <= 1
      BY <1>0, <2>1, <2>3 DEF Pending, Ahead
    <3>2. CASE d.pos = f.focPos
      BY <1>0, <2>1, <2>3, <3>1, <3>2 DEF Pending, Ahead
    <3>3. CASE d.pos # f.focPos
      <4>1. CASE f.focPos = Unset
        BY <2>1, <2>3, <3>1, <4>1 DEF Pending
      <4>2. CASE f.focPos # Unset
        BY <1>0, <2>1, <2>3, <3>1, <3>3, <4>2 DEF Pending, Ahead
      <4> QED BY <4>1, <4>2
    <3> QED BY <3>2, <3>3
  <2> HIDE DEF e
  <2>5. Follows(f, e, t, chosen)
    BY <1>4, <2>1, <2>3, <2>4 DEF Follows
  <2> QED BY <2>5 DEF e
<1> QED BY <1>1, <1>2, <1>3, <1>4

(* A repetition that is counted after a client's move: too few have been
   counted, or the focus is at rest. *)
LEMMA RepetitionCounted ==
    ASSUME FocusOK, NEW f \in Cameras, NEW d \in Focusers, NEW t, NEW chosen \in BOOLEAN,
           NEW begins \in BOOLEAN, d.cmd # <<>> /\ d.age = StartLag => begins,
           Follows(f, d, t, chosen), f.focState # 0, ~chosen,
           NEW e, e = Work(d, begins), e.pos = f.focPos
    PROVE  /\ e.cmd # <<>> => /\ e.cmd # <<"clear">>
                              /\ f.repeat + 1 <= e.age
                              /\ e.pos # e.tar => f.repeat + 1 <= 1
           /\ e.cmd = <<>> /\ e.pos # e.tar => f.repeat + 1 < Repeats
<1>0. /\ d.pos \in 0 .. Span /\ d.tar \in 0 .. Span /\ d.age \in 0 .. StartLag
      /\ f.focPos \in Nat /\ f.repeat \in Nat /\ f.focPos # Unset
  <2>1. e \in Focusers
    BY WorkForms
  <2> QED BY <2>1, Numbers DEF Focusers, Cameras
<1>1. CASE d.cmd = <<>>
  <2>1. e = Nearer(d) /\ Moving(f, d)
    BY <1>1, WorkForms DEF Follows
  <2>2. /\ e.cmd = <<>> /\ e.tar = d.tar
        /\ e.pos = IF d.pos < d.tar THEN d.pos + 1
                   ELSE IF d.pos > d.tar THEN d.pos - 1 ELSE d.pos
    BY <1>1, <2>1 DEF Nearer, Focusers
  <2> QED BY <1>0, <2>1, <2>2 DEF Moving, Ahead
<1>2. CASE d.cmd # <<>> /\ begins
  <2>1. Pending(f, d)
    BY <1>2 DEF Follows
  <2>2. e = Nearer(Begin(d)) /\ Begin(d) \in Focusers
    BY <1>2, WorkForms, BeginForms
  <2>3. Begin(d).pos = d.pos /\ Begin(d).cmd = <<>>
    BY <1>2, <2>1, BeginForms DEF Pending
  <2>4. /\ e.cmd = <<>> /\ e.tar \in 0 .. Span
        /\ e.pos = IF d.pos < e.tar THEN d.pos + 1
                   ELSE IF d.pos > e.tar THEN d.pos - 1 ELSE d.pos
    BY <2>2, <2>3 DEF Nearer, Focusers
  <2>5. e.pos # e.tar => d.pos # f.focPos
    BY <1>0, <2>4
  <2> QED BY <1>0, <2>1, <2>4, <2>5, Numbers DEF Pending
<1>3. CASE d.cmd # <<>> /\ ~begins
  <2>1. Pending(f, d)
    BY <1>3 DEF Follows
  <2>2. e = Nearer([d EXCEPT !.age = d.age + 1])
    BY <1>3, WorkForms
  <2>3. /\ e.cmd = d.cmd /\ e.tar = d.tar /\ e.age = d.age + 1
        /\ e.pos = IF d.pos < d.tar THEN d.pos + 1
                   ELSE IF d.pos > d.tar THEN d.pos - 1 ELSE d.pos
    BY <2>2 DEF Nearer, Focusers
  <2>4. e.pos # e.tar => d.pos # f.focPos /\ Ahead(d, f.focPos)
    BY <1>0, <2>3 DEF Ahead
  <2> QED BY <1>0, <1>3, <2>1, <2>3, <2>4 DEF Pending
<1> QED BY <1>1, <1>2, <1>3

(* What NotifyFocus makes of the record in each of its cases. *)
LEMMA NotifyForms ==
    ASSUME NEW f, NEW pos
    PROVE  /\ pos # f.focPos =>
                NotifyFocus(f, pos) = [f EXCEPT !.focPos = pos, !.repeat = 0]
           /\ pos = f.focPos /\ f.focState = 0 => NotifyFocus(f, pos) = f
           /\ pos = f.focPos /\ Settles(f, pos) =>
                NotifyFocus(f, pos) = [f EXCEPT !.repeat = @ + 1, !.focState = 0]
           /\ pos = f.focPos /\ f.focState # 0 /\ ~Settles(f, pos) =>
                NotifyFocus(f, pos) = [f EXCEPT !.repeat = @ + 1]
BY DEF NotifyFocus, Settles

(* A report that is read: NotifyFocus keeps the record right, and whoever is
   told a position is told the one at which the focus has come to rest. *)
LEMMA ReportFollows ==
    ASSUME FocusOK, NEW f \in Cameras, NEW d \in Focusers, NEW t, NEW chosen \in BOOLEAN,
           NEW begins \in BOOLEAN, d.cmd # <<>> /\ d.age = StartLag => begins,
           Follows(f, d, t, chosen), f.known,
           NEW e, e = Work(d, begins)
    PROVE  Follows(NotifyFocus(f, e.pos), e,
                   IF f.online /\ Settles(f, e.pos) THEN e.pos ELSE t, chosen)
<1> DEFINE g == NotifyFocus(f, e.pos)
           u == IF f.online /\ Settles(f, e.pos) THEN e.pos ELSE t
<1>0. /\ e \in Focusers /\ Follows(f, e, t, chosen)
      /\ f.repeat \in Nat /\ f.focState \in {-1, 0, 1}
      /\ e.age \in 0 .. StartLag
  <2>1. e \in Focusers
    BY WorkForms
  <2>2. Follows(f, e, t, chosen)
    BY DroppedFollows
  <2> QED BY <2>1, <2>2 DEF Cameras, Focusers
<1>1. CASE e.pos # f.focPos
  <2>0. ~Settles(f, e.pos)
    BY <1>1 DEF Settles
  <2>1. g = [f EXCEPT !.focPos = e.pos, !.repeat = 0] /\ u = t
    BY <1>1, <2>0, NotifyForms
  <2>2. /\ g.known = f.known /\ g.online = f.online /\ g.focState = f.focState
        /\ g.focPos = e.pos /\ g.repeat = 0
    BY <2>1 DEF Cameras
  <2> HIDE DEF g, u
  <2>3. Follows(g, e, u, chosen)
    BY <1>0, <1>1, <2>1, <2>2, Numbers
       DEF Follows, Moving, Pending, Ahead, AtRest, Focusers
  <2> QED BY <2>3 DEF g, u
<1>2. CASE e.pos = f.focPos /\ f.focState = 0
  <2>1. g = f /\ u = t
    BY <1>2, NotifyForms DEF Settles
  <2> QED BY <1>0, <2>1
<1>3. CASE e.pos = f.focPos /\ Settles(f, e.pos)
  <2>1. g = [f EXCEPT !.repeat = @ + 1, !.focState = 0]
    BY <1>3, NotifyForms
  <2>2. /\ g.known = f.known /\ g.online = f.online /\ g.focState = 0
        /\ g.focPos = e.pos
        /\ f.online => u = e.pos
    BY <1>3, <2>1 DEF Cameras
  <2>3. ~chosen => AtRest(e)
    <3>1. SUFFICES ASSUME ~chosen PROVE AtRest(e)
      OBVIOUS
    <3>2. f.focState # 0 /\ Repeats <= f.repeat + 1
      BY <1>3, Numbers DEF Settles, Cameras
    <3>3. /\ e.cmd # <<>> => f.repeat + 1 <= e.age
          /\ e.cmd = <<>> /\ e.pos # e.tar => f.repeat + 1 < Repeats
      BY <1>3, <3>1, <3>2, RepetitionCounted
    <3>4. e.cmd = <<>>
      BY <1>0, <3>2, <3>3, Numbers
    <3>5. e.pos = e.tar
      BY <1>0, <3>2, <3>3, <3>4, Numbers
    <3> QED BY <3>4, <3>5 DEF AtRest
  <2> HIDE DEF g, u
  <2>4. Follows(g, e, u, chosen)
    <3>1. g.known
      BY <2>2
    <3> QED BY <2>2, <2>3, <3>1 DEF Follows
  <2> QED BY <2>4 DEF g, u
<1>4. CASE e.pos = f.focPos /\ f.focState # 0 /\ ~Settles(f, e.pos)
  <2>1. g = [f EXCEPT !.repeat = @ + 1] /\ u = t
    BY <1>4, NotifyForms
  <2>2. /\ g.known = f.known /\ g.online = f.online /\ g.focState = f.focState
        /\ g.focPos = e.pos /\ g.repeat = f.repeat + 1
    BY <1>4, <2>1 DEF Cameras
  <2> HIDE DEF g, u
  <2>3. ~chosen => IF e.cmd = <<>> THEN Moving(g, e) ELSE Pending(g, e)
    <3>1. SUFFICES ASSUME ~chosen
                   PROVE  IF e.cmd = <<>> THEN Moving(g, e) ELSE Pending(g, e)
      OBVIOUS
    <3>2. CASE e.cmd = <<>>
      BY <1>0, <1>4, <2>2, <3>1, <3>2, RepetitionCounted, Numbers
         DEF Moving, Ahead, Focusers
    <3>3. CASE e.cmd # <<>>
      BY <1>0, <1>4, <2>2, <3>1, <3>3, RepetitionCounted DEF Pending
    <3> QED BY <3>2, <3>3
  <2>4. Follows(g, e, u, chosen)
    <3>1. ~g.known => g.focState = -1 /\ ~g.online
      BY <2>2
    <3>2. g.focState = 1 => ~chosen
      BY <1>0, <2>2 DEF Follows
    <3>3. g.focState # 0
      BY <1>4, <2>2
    <3> QED BY <2>2, <2>3, <3>1, <3>2, <3>3 DEF Follows
  <2> QED BY <2>4 DEF g, u
<1> QED BY <1>0, <1>1, <1>2, <1>3, <1>4 DEF Settles

-----------------------------------------------------------------------------
(* The invariant of the system, action by action.                          *)

(* What the invariant says of one camera. *)
LEMMA TypesOfRecords ==
    ASSUME FocusInv, NEW c \in Cams
    PROVE  /\ cam[c] \in Cameras /\ dev[c] \in Focusers
           /\ auto[c] \in BOOLEAN
           /\ told[c] \in 0 .. Span \cup {Invalid, Unset}
           /\ Follows(cam[c], dev[c], told[c], auto[c])
BY DEF FocusInv, TypeOK, Cameras, Focusers

(* A report is read for each camera but one it leaves out, kills the server,
   or changes no record. *)
LEMMA LineHandled ==
    ASSUME FocusOK, NEW shape \in Shapes, NEW d, NEW o \in Cams,
           HandleLine(Resolve(Report(d, shape, o)))
    PROVE  \/ \E pos : /\ \A c \in Cams : pos[c] \in {d[c].pos, Unset}
                       /\ NotifyAll(pos)
           \/ Die
           \/ UNCHANGED <<tcp, link, cam, told, auto>>
<1> DEFINE msg == Resolve(Report(d, shape, o))
<1>1. CASE shape \in {"whole", "lacks"}
  <2>1. /\ msg.type = "focus" /\ msg.uid = Uid
        /\ \A c \in Cams : msg.pos[c] \in {d[c].pos, Unset}
    BY <1>1, WholeResolves, LackingResolves
  <2> HIDE DEF msg
  <2>2. HandleLine(msg)
    BY DEF msg
  <2>3. NotifyAll(msg.pos)
    BY <2>1, <2>2 DEF HandleLine, FocusOK
  <2> QED BY <2>1, <2>3
<1>2. CASE shape = "word"
  <2>1. msg.type = "focus" => msg.uid = Word
    BY <1>2, WordResolves
  <2> HIDE DEF msg
  <2>2. HandleLine(msg)
    BY DEF msg
  <2> QED BY <2>1, <2>2 DEF HandleLine, FocusOK
<1>3. CASE shape \notin {"whole", "lacks", "word"}
  <2>1. msg.type # "focus"
    BY <1>3, OthersResolve
  <2> HIDE DEF msg
  <2>2. HandleLine(msg)
    BY DEF msg
  <2> QED BY <2>1, <2>2 DEF HandleLine
<1> QED BY <1>1, <1>2, <1>3

(* A report that leaves the camera out starts the count anew, and repeated
   it is taken for a position nobody asked the focuser for. *)
LEMMA LackingFollows ==
    ASSUME FocusOK, NEW f \in Cameras, NEW d \in Focusers, NEW t, NEW chosen \in BOOLEAN,
           NEW begins \in BOOLEAN, d.cmd # <<>> /\ d.age = StartLag => begins,
           Follows(f, d, t, chosen), f.known,
           NEW e, e = Work(d, begins)
    PROVE  Follows(NotifyFocus(f, Unset), e,
                   IF f.online /\ Settles(f, Unset) THEN Unset ELSE t,
                   chosen \/ Settles(f, Unset))
<1> DEFINE g == NotifyFocus(f, Unset)
<1>0. /\ f.repeat \in Nat /\ f.focState \in {-1, 0, 1}
      /\ e.pos \in Nat /\ e.pos # Unset /\ e.age \in 0 .. StartLag
      /\ ~Ahead(e, Unset)
      /\ Follows(f, e, t, chosen)
  <2>0. e \in Focusers
    BY WorkForms
  <2>1. e \in Focusers /\ Follows(f, e, t, chosen)
    BY <2>0, DroppedFollows
  <2>2. f.repeat \in Nat /\ f.focState \in {-1, 0, 1}
    BY DEF Cameras
  <2>3. e.pos \in 0 .. Span /\ e.tar \in 0 .. Span /\ e.age \in 0 .. StartLag
    BY <2>1 DEF Focusers
  <2> HIDE DEF Follows
  <2> QED BY <2>1, <2>2, <2>3, Numbers DEF Ahead
<1>1. CASE Unset # f.focPos
  <2>1. ~Settles(f, Unset)
    BY <1>1 DEF Settles
  <2>2. g = [f EXCEPT !.focPos = Unset, !.repeat = 0]
    BY <1>1, NotifyForms
  <2>3. /\ g.known = f.known /\ g.online = f.online /\ g.focState = f.focState
        /\ g.focPos = Unset /\ g.repeat = 0
    BY <2>2 DEF Cameras
  <2> HIDE DEF g
  <2>4. Follows(g, e, t, chosen)
    BY <1>0, <2>3, Numbers DEF Follows, Moving, Pending
  <2> QED BY <2>1, <2>4 DEF g
<1>2. CASE Unset = f.focPos /\ f.focState = 0
  <2>1. g = f /\ ~Settles(f, Unset)
    BY <1>2, NotifyForms DEF Settles
  <2>2. (chosen \/ Settles(f, Unset)) = chosen
    BY <2>1
  <2>3. (IF f.online /\ Settles(f, Unset) THEN Unset ELSE t) = t
    BY <2>1
  <2> QED BY <1>0, <2>1, <2>2, <2>3
<1>3. CASE Unset = f.focPos /\ Settles(f, Unset)
  <2>1. g = [f EXCEPT !.repeat = @ + 1, !.focState = 0]
    BY <1>3, NotifyForms
  <2>2. g.known /\ g.focState = 0
    BY <2>1 DEF Cameras
  <2> HIDE DEF g
  <2>3. \A u : Follows(g, e, u, TRUE)
    BY <2>2 DEF Follows
  <2> QED BY <1>3, <2>3 DEF g
<1>4. CASE Unset = f.focPos /\ f.focState # 0 /\ ~Settles(f, Unset)
  <2>1. g = [f EXCEPT !.repeat = @ + 1]
    BY <1>4, NotifyForms
  <2>2. /\ g.known = f.known /\ g.online = f.online /\ g.focState = f.focState
        /\ g.focPos = Unset /\ g.repeat = f.repeat + 1 /\ g.repeat < Repeats
    <3>1. f.repeat + 1 < Repeats
      BY <1>0, <1>4, Numbers DEF Settles
    <3> QED BY <1>4, <2>1, <3>1 DEF Cameras
  <2> HIDE DEF g
  <2>3. ~chosen /\ e.cmd # <<>> => g.repeat <= e.age /\ e.cmd # <<"clear">>
    <3> SUFFICES ASSUME ~chosen, e.cmd # <<>>
                 PROVE  g.repeat <= e.age /\ e.cmd # <<"clear">>
      OBVIOUS
    <3>1. d.cmd # <<>> /\ ~begins
      <4>1. ASSUME NEW x, x.cmd = <<>>, x \in Focusers PROVE Nearer(x).cmd = <<>>
        BY <4>1 DEF Nearer, Focusers
      <4>2. d.cmd # <<>>
        BY <4>1, WorkForms
      <4> QED BY <4>1, <4>2, WorkForms, BeginForms
    <3>2. e = Nearer([d EXCEPT !.age = d.age + 1]) /\ Pending(f, d)
      BY <1>4, <3>1, WorkForms DEF Follows
    <3>3. e.age = d.age + 1 /\ e.cmd = d.cmd /\ d.age \in Nat
      BY <3>2, Numbers DEF Nearer, Focusers
    <3> QED BY <1>0, <2>2, <3>2, <3>3 DEF Pending
  <2>4. Follows(g, e, t, chosen)
    BY <1>0, <1>4, <2>2, <2>3, Numbers DEF Follows, Moving, Pending
  <2> QED BY <1>4, <2>4 DEF g
<1> QED BY <1>0, <1>1, <1>2, <1>3, <1>4 DEF Settles

(* NotifyFocus keeps the types of a record. *)
LEMMA NotifyType ==
    ASSUME NEW f \in Cameras, NEW pos \in 0 .. Span \cup {Unset}
    PROVE  NotifyFocus(f, pos) \in Cameras
<1>0. pos \in 0 .. Span \cup {Invalid, Unset}
  OBVIOUS
<1>1. CASE pos # f.focPos
  <2>1. NotifyFocus(f, pos) = [f EXCEPT !.focPos = pos, !.repeat = 0]
    BY <1>1, NotifyForms
  <2>2. \A n \in Nat : [f EXCEPT !.focPos = pos, !.repeat = n] \in Cameras
    BY <1>0 DEF Cameras
  <2> QED BY <2>1, <2>2
<1>2. CASE pos = f.focPos /\ f.focState = 0
  <2>1. NotifyFocus(f, pos) = f
    BY <1>2, NotifyForms
  <2> QED BY <2>1
<1>3. CASE pos = f.focPos /\ Settles(f, pos)
  <2>1. NotifyFocus(f, pos) = [f EXCEPT !.repeat = @ + 1, !.focState = 0]
    BY <1>3, NotifyForms
  <2>2. \A n \in Nat, s \in {-1, 0, 1} :
            [f EXCEPT !.repeat = n, !.focState = s] \in Cameras
    BY DEF Cameras
  <2>3. f.repeat + 1 \in Nat
    BY DEF Cameras
  <2> QED BY <2>1, <2>2, <2>3
<1>4. CASE pos = f.focPos /\ f.focState # 0 /\ ~Settles(f, pos)
  <2>1. NotifyFocus(f, pos) = [f EXCEPT !.repeat = @ + 1]
    BY <1>4, NotifyForms
  <2> QED BY <2>1 DEF Cameras
<1> QED BY <1>1, <1>2, <1>3, <1>4 DEF Settles

(* A report of the focuser, of any shape. *)
LEMMA ReportsStep ==
    ASSUME FocusOK, FocusInv, NEW shape \in Shapes, FocuserReports(shape)
    PROVE  FocusInv'
<1>1. PICK B \in SUBSET MayBegin, o \in Cams :
        /\ MustBegin \subseteq B
        /\ dev' = [c \in Cams |-> Work(dev[c], c \in B)]
        /\ HandleLine(Resolve(Report(dev', shape, o)))
  BY DEF FocuserReports
<1>2. UNCHANGED cmds
  BY DEF FocuserReports
<1>3. ASSUME NEW c \in Cams
      PROVE  \E begins \in BOOLEAN :
               /\ dev[c].cmd # <<>> /\ dev[c].age = StartLag => begins
               /\ dev'[c] = Work(dev[c], begins)
  <2> DEFINE begins == c \in B
  <2>1. /\ begins \in BOOLEAN
        /\ dev[c].cmd # <<>> /\ dev[c].age = StartLag => begins
        /\ dev'[c] = Work(dev[c], begins)
    BY <1>1 DEF MustBegin
  <2> QED BY <2>1
<1>4. ASSUME NEW c \in Cams
      PROVE  /\ dev'[c] \in Focusers /\ dev'[c].pos \in 0 .. Span
             /\ Follows(cam[c], dev'[c], told[c], auto[c])
  <2>1. PICK begins \in BOOLEAN :
               /\ dev[c].cmd # <<>> /\ dev[c].age = StartLag => begins
               /\ dev'[c] = Work(dev[c], begins)
    BY <1>3
  <2>2. Work(dev[c], begins) \in Focusers
    BY <2>1, TypesOfRecords, WorkForms
  <2>3. Follows(cam[c], Work(dev[c], begins), told[c], auto[c])
    BY <2>1, TypesOfRecords, DroppedFollows
  <2> QED BY <2>1, <2>2, <2>3 DEF Focusers
<1>5. dev' \in [Cams -> Focusers]
  BY <1>1, <1>4
<1>6. CASE UNCHANGED <<tcp, link, cam, told, auto>>
  BY <1>2, <1>4, <1>5, <1>6 DEF FocusInv, TypeOK, Focusers
<1>7. CASE Die
  <2>1. /\ cam' = [c \in Cams |-> NewCamera] /\ told' = [c \in Cams |-> Invalid]
        /\ tcp' = "none" /\ link' = FALSE /\ auto' = auto
    BY <1>7 DEF Die
  <2>2. NewCamera \in Cameras
    BY Numbers DEF NewCamera, Cameras
  <2>3. TypeOK'
    BY <1>2, <1>5, <2>1, <2>2 DEF FocusInv, TypeOK, Cameras, Focusers
  <2>4. ASSUME NEW c \in Cams
        PROVE  Follows(cam'[c], dev'[c], told'[c], auto'[c])
    <3>1. /\ cam'[c] = NewCamera /\ auto'[c] = auto[c] /\ auto[c] \in BOOLEAN
          /\ Follows(cam[c], dev'[c], told[c], auto[c])
          /\ dev'[c].cmd \in FocuserCommands /\ dev'[c].age \in 0 .. StartLag
          /\ cam[c].focState \in {-1, 0, 1}
      BY <1>4, <2>1, TypesOfRecords DEF Focusers, Cameras
    <3>2. NewCamera.repeat = 0 /\ ~NewCamera.known /\ ~NewCamera.online
          /\ NewCamera.focState = -1
      BY DEF NewCamera
    <3>3. ~auto[c] /\ dev'[c].cmd # <<>> => dev'[c].cmd # <<"clear">>
      BY <3>1 DEF Follows, Pending, AtRest
    <3>4. Moving(NewCamera, dev'[c])
      BY <3>2, Numbers DEF Moving
    <3>5. dev'[c].cmd # <<"clear">> => Pending(NewCamera, dev'[c])
      BY <3>1, <3>2, Numbers DEF Pending
    <3>6. Follows(NewCamera, dev'[c], told'[c], auto[c])
      BY <3>2, <3>3, <3>4, <3>5 DEF Follows
    <3> QED BY <3>1, <3>6
  <2> QED BY <2>3, <2>4 DEF FocusInv
<1>8. ASSUME NEW pos, NotifyAll(pos), \A c \in Cams : pos[c] \in {dev'[c].pos, Unset}
      PROVE  FocusInv'
  <2>1. ASSUME NEW c \in Cams
        PROVE  /\ cam'[c] = IF cam[c].known THEN NotifyFocus(cam[c], pos[c]) ELSE cam[c]
               /\ told'[c] = IF cam[c].online /\ Settles(cam[c], pos[c])
                               THEN pos[c] ELSE told[c]
               /\ auto'[c] = (\/ auto[c]
                              \/ /\ cam[c].known /\ pos[c] = Unset
                                 /\ Settles(cam[c], Unset))
    BY <1>8 DEF NotifyAll
  <2>2. ASSUME NEW c \in Cams
        PROVE  cam'[c] \in Cameras /\ told'[c] \in 0 .. Span \cup {Invalid, Unset}
    <3>1. pos[c] \in 0 .. Span \cup {Unset}
      BY <1>4, <1>8
    <3>2. cam[c] \in Cameras => NotifyFocus(cam[c], pos[c]) \in Cameras
      BY <3>1, NotifyType
    <3>3. cam'[c] \in Cameras
      BY <2>1, <3>2, TypesOfRecords
    <3> QED BY <2>1, <3>1, <3>3, TypesOfRecords
  <2>3. TypeOK'
    <3>1. cam' \in [Cams -> Cameras] /\ told' \in [Cams -> 0 .. Span \cup {Invalid, Unset}]
      BY <1>8, <2>2 DEF NotifyAll
    <3>2. tcp' = "now" /\ link' = link /\ auto' \in [Cams -> BOOLEAN]
      BY <1>8 DEF NotifyAll
    <3> QED BY <1>2, <1>5, <3>1, <3>2 DEF FocusInv, TypeOK, Cameras, Focusers
  <2>4. ASSUME NEW c \in Cams
        PROVE  Follows(cam'[c], dev'[c], told'[c], auto'[c])
    <3>1. PICK begins \in BOOLEAN :
               /\ dev[c].cmd # <<>> /\ dev[c].age = StartLag => begins
               /\ dev'[c] = Work(dev[c], begins)
      BY <1>3
    <3>2. /\ cam[c] \in Cameras /\ dev[c] \in Focusers /\ auto[c] \in BOOLEAN
          /\ Follows(cam[c], dev[c], told[c], auto[c])
      BY TypesOfRecords
    <3>3. CASE ~cam[c].known
      <4>1. ~cam[c].online
        BY <3>2, <3>3 DEF Follows
      <4>2. cam'[c] = cam[c] /\ told'[c] = told[c] /\ auto'[c] = auto[c]
        BY <2>1, <3>2, <3>3, <4>1
      <4> QED BY <1>4, <4>2
    <3>4. CASE cam[c].known /\ pos[c] = Unset
      <4>1. Follows(NotifyFocus(cam[c], Unset), dev'[c],
                    IF cam[c].online /\ Settles(cam[c], Unset) THEN Unset ELSE told[c],
                    auto[c] \/ Settles(cam[c], Unset))
        BY <3>1, <3>2, <3>4, LackingFollows
      <4>2. /\ cam'[c] = NotifyFocus(cam[c], Unset)
            /\ told'[c] = IF cam[c].online /\ Settles(cam[c], Unset)
                            THEN Unset ELSE told[c]
            /\ auto'[c] = (auto[c] \/ Settles(cam[c], Unset))
        BY <2>1, <3>4
      <4> QED BY <4>1, <4>2
    <3>5. CASE cam[c].known /\ pos[c] # Unset
      <4>1. Follows(NotifyFocus(cam[c], dev'[c].pos), dev'[c],
                    IF cam[c].online /\ Settles(cam[c], dev'[c].pos)
                      THEN dev'[c].pos ELSE told[c], auto[c])
        BY <3>1, <3>2, <3>5, ReportFollows
      <4>2. /\ pos[c] = dev'[c].pos
            /\ cam'[c] = NotifyFocus(cam[c], dev'[c].pos)
            /\ told'[c] = IF cam[c].online /\ Settles(cam[c], dev'[c].pos)
                            THEN dev'[c].pos ELSE told[c]
            /\ auto'[c] = auto[c]
        BY <1>8, <2>1, <3>2, <3>5
      <4> QED BY <4>1, <4>2
    <3> QED BY <3>3, <3>4, <3>5
  <2> QED BY <2>3, <2>4 DEF FocusInv
<1>9. \/ \E pos : /\ \A c \in Cams : pos[c] \in {dev'[c].pos, Unset}
                  /\ NotifyAll(pos)
      \/ Die
      \/ UNCHANGED <<tcp, link, cam, told, auto>>
  BY <1>1, LineHandled
<1> QED BY <1>6, <1>7, <1>8, <1>9

(* A command written to the focuser, if its connection is up. *)
LEMMA SendForms ==
    ASSUME FocusOK, NEW d \in Focusers, NEW cmd \in FocuserCommands
    PROVE  /\ Send(d, cmd) \in Focusers
           /\ Send(d, cmd).pos = d.pos /\ Send(d, cmd).tar = d.tar
           /\ \/ Send(d, cmd) = d
              \/ Send(d, cmd).cmd = cmd /\ Send(d, cmd).age = 0
<1>1. 0 \in 0 .. StartLag
  BY Numbers
<1>2. CASE link /\ tcp = "now"
  <2>1. Send(d, cmd) = [d EXCEPT !.cmd = cmd, !.age = 0]
    BY <1>2 DEF Send
  <2> QED BY <1>1, <2>1 DEF Focusers
<1>3. CASE ~(link /\ tcp = "now")
  BY <1>3 DEF Send
<1> QED BY <1>2, <1>3

(* The moves of clients are commands of the focuser, and none is empty. *)
LEMMA MoveCommands ==
    /\ <<"clear">> \in FocuserCommands
    /\ \A relPos \in Rels : /\ <<"move", relPos>> \in FocuserCommands
                             /\ <<"move", relPos>> # <<>>
                             /\ <<"move", relPos>> # <<"clear">>
BY DEF FocuserCommands

(* Commands are counted up to their bound. *)
LEMMA CommandCounts ==
    ASSUME FocusOK, FocusInv, NEW S, Command(S)
    PROVE  cmds' \in 0 .. MaxCmds
BY Numbers DEF FocusInv, TypeOK, Command

(* Focus: the record starts to count anew, so nothing counted before the move
   can make it look done. *)
LEMMA FocusStep ==
    ASSUME FocusOK, FocusInv, NEW c \in Cams, NEW relPos \in Rels, Focus(c, relPos)
    PROVE  FocusInv'
<1> DEFINE f == [cam[c] EXCEPT !.focState = 1, !.repeat = 0]
           d == Send(dev[c], <<"move", relPos>>)
<1>1. /\ cam' = [cam EXCEPT ![c].focState = 1, ![c].repeat = 0]
      /\ dev' = [dev EXCEPT ![c] = d]
      /\ auto' = [auto EXCEPT ![c] = FALSE]
      /\ UNCHANGED <<tcp, link, told>>
      /\ cam[c].known /\ dev[c].cmd = <<>>
  BY DEF Focus, Command
<1>2. d \in Focusers
  BY TypesOfRecords, SendForms, MoveCommands
<1>3. f \in Cameras /\ f.known /\ f.focState = 1 /\ f.repeat = 0
  BY <1>1, TypesOfRecords DEF Cameras
<1>4. Follows(f, d, told[c], FALSE)
  <2>1. CASE d = dev[c]
    <3>1. d.cmd = <<>>
      BY <1>1, <2>1
    <3>2. Moving(f, d)
      BY <1>3, Numbers DEF Moving
    <3> HIDE DEF f, d
    <3> QED BY <1>3, <3>1, <3>2 DEF Follows
  <2>2. CASE d.cmd = <<"move", relPos>> /\ d.age = 0
    <3>1. d.cmd # <<>> /\ d.cmd # <<"clear">> /\ f.repeat = 0 /\ d.age = 0
      BY <1>3, <2>2, MoveCommands
    <3> HIDE DEF f, d
    <3> QED BY <1>3, <3>1 DEF Follows, Pending
  <2> QED BY <2>1, <2>2, TypesOfRecords, SendForms, MoveCommands
<1>5. cam'[c] = f /\ dev'[c] = d /\ told'[c] = told[c] /\ auto'[c] = FALSE
  BY <1>1 DEF FocusInv, TypeOK
<1>6. \A b \in Cams \ {c} : /\ cam'[b] = cam[b] /\ dev'[b] = dev[b]
                             /\ told'[b] = told[b] /\ auto'[b] = auto[b]
  BY <1>1 DEF FocusInv, TypeOK
<1>7. TypeOK'
  <2>1. cam' \in [Cams -> Cameras]
    BY <1>1, <1>3, <1>5, <1>6, TypesOfRecords DEF FocusInv, TypeOK
  <2>2. dev' \in [Cams -> Focusers]
    BY <1>1, <1>2, <1>5, <1>6, TypesOfRecords DEF FocusInv, TypeOK
  <2>3. cmds' \in 0 .. MaxCmds
    BY CommandCounts DEF Focus
  <2> QED BY <1>1, <2>1, <2>2, <2>3 DEF FocusInv, TypeOK, Cameras, Focusers
<1> HIDE DEF f, d
<1>8. \A b \in Cams : Follows(cam'[b], dev'[b], told'[b], auto'[b])
  BY <1>4, <1>5, <1>6, TypesOfRecords
<1> QED BY <1>7, <1>8 DEF FocusInv

(* A command after which the focuser is where it chooses to be: nothing more
   is asked of the record of a known camera. *)
LEMMA ChosenFollows ==
    ASSUME NEW f, f.known, f.focState = -1, NEW d, NEW t
    PROVE  Follows(f, d, t, TRUE)
BY DEF Follows

(* FocusSync, of one camera or of all. *)
LEMMA FocusSyncStep ==
    ASSUME FocusOK, FocusInv, NEW S \in SUBSET Cams, FocusSync(S)
    PROVE  FocusInv'
<1>1. /\ cam' = [c \in Cams |-> IF c \in S THEN [cam[c] EXCEPT !.focState = -1]
                                 ELSE cam[c]]
      /\ dev' = [c \in Cams |-> IF c \in S THEN Send(dev[c], <<"clear">>) ELSE dev[c]]
      /\ auto' = [c \in Cams |-> auto[c] \/ c \in S]
      /\ UNCHANGED <<tcp, link, told>>
      /\ \A c \in S : cam[c].known
  BY DEF FocusSync, Command
<1>2. ASSUME NEW c \in Cams, c \notin S
      PROVE  cam'[c] = cam[c] /\ dev'[c] = dev[c] /\ auto'[c] = auto[c]
  BY <1>1, <1>2, TypesOfRecords
<1>3. ASSUME NEW c \in S
      PROVE  /\ cam'[c] \in Cameras /\ dev'[c] \in Focusers
             /\ cam'[c].known /\ cam'[c].focState = -1 /\ auto'[c] = TRUE
  <2>1. cam'[c] = [cam[c] EXCEPT !.focState = -1] /\ dev'[c] = Send(dev[c], <<"clear">>)
    BY <1>1, <1>3
  <2>2. cam[c] \in Cameras /\ dev[c] \in Focusers
    BY <1>3, TypesOfRecords
  <2>3. cam'[c] \in Cameras /\ cam'[c].known /\ cam'[c].focState = -1
    BY <1>1, <1>3, <2>1, <2>2 DEF Cameras
  <2>4. dev'[c] \in Focusers
    BY <2>1, <2>2, SendForms, MoveCommands
  <2> QED BY <1>1, <1>3, <2>3, <2>4
<1>4. \A c \in Cams : Follows(cam'[c], dev'[c], told'[c], auto'[c])
  BY <1>1, <1>2, <1>3, ChosenFollows, TypesOfRecords
<1>5. TypeOK'
  <2>1. cam' \in [Cams -> Cameras] /\ dev' \in [Cams -> Focusers]
    BY <1>1, <1>2, <1>3, TypesOfRecords
  <2>2. cmds' \in 0 .. MaxCmds
    BY CommandCounts DEF FocusSync
  <2>3. auto' \in [Cams -> BOOLEAN]
    BY <1>1
  <2> QED BY <1>1, <2>1, <2>2, <2>3 DEF FocusInv, TypeOK, Cameras, Focusers
<1> QED BY <1>4, <1>5 DEF FocusInv

(* NotifyFWHM: the focuser is sent to look for the focus. *)
LEMMA NotifyFWHMStep ==
    ASSUME FocusOK, FocusInv, NEW c \in Cams, NotifyFWHM(c)
    PROVE  FocusInv'
<1>1. PICK relPos \in Rels :
         dev' = [dev EXCEPT ![c] = Send(dev[c], <<"move", relPos>>)]
  BY DEF NotifyFWHM
<1>2. /\ cam' = [cam EXCEPT ![c].focState = -1]
      /\ auto' = [auto EXCEPT ![c] = TRUE]
      /\ UNCHANGED <<tcp, link, told>>
      /\ cam[c].known
  BY DEF NotifyFWHM, Command
<1>3. \A b \in Cams \ {c} : /\ cam'[b] = cam[b] /\ dev'[b] = dev[b]
                             /\ told'[b] = told[b] /\ auto'[b] = auto[b]
  <2>1. /\ cam \in [Cams -> Cameras] /\ dev \in [Cams -> Focusers]
        /\ auto \in [Cams -> BOOLEAN]
    BY DEF FocusInv, TypeOK, Cameras, Focusers
  <2> QED BY <1>1, <1>2, <2>1
<1>4. /\ cam'[c] = [cam[c] EXCEPT !.focState = -1] /\ auto'[c] = TRUE
      /\ dev'[c] = Send(dev[c], <<"move", relPos>>)
  BY <1>1, <1>2 DEF FocusInv, TypeOK
<1>5. cam'[c] \in Cameras /\ cam'[c].known /\ cam'[c].focState = -1
  BY <1>2, <1>4, TypesOfRecords DEF Cameras
<1>6. dev'[c] \in Focusers
  BY <1>4, TypesOfRecords, SendForms, MoveCommands
<1>7. ASSUME NEW b \in Cams PROVE Follows(cam'[b], dev'[b], told'[b], auto'[b])
  <2>1. CASE b = c
    BY <1>4, <1>5, <2>1, ChosenFollows
  <2>2. CASE b # c
    BY <1>3, <2>2, TypesOfRecords
  <2> QED BY <2>1, <2>2
<1>8. TypeOK'
  <2>1. cam' \in [Cams -> Cameras] /\ dev' \in [Cams -> Focusers]
    BY <1>1, <1>2, <1>3, <1>5, <1>6, TypesOfRecords DEF FocusInv, TypeOK
  <2>2. cmds' \in 0 .. MaxCmds
    BY CommandCounts DEF NotifyFWHM
  <2> QED BY <1>2, <2>1, <2>2 DEF FocusInv, TypeOK, Cameras, Focusers
<1> QED BY <1>7, <1>8 DEF FocusInv

(* A camera that is coupled is told where its focus is at rest, if it is; one
   that closes forgets what it was told. *)
LEMMA CameraStep ==
    ASSUME FocusOK, FocusInv, NEW c \in Cams, CoupleCamera(c) \/ CameraCloses(c)
    PROVE  FocusInv'
<1>1. UNCHANGED <<tcp, link, dev, cmds>>
  BY DEF CoupleCamera, CameraCloses
<1>2. \A b \in Cams \ {c} : cam'[b] = cam[b] /\ told'[b] = told[b] /\ auto'[b] = auto[b]
  BY DEF CoupleCamera, CameraCloses, FocusInv, TypeOK
<1>3. /\ cam'[c] \in Cameras /\ told'[c] \in 0 .. Span \cup {Invalid, Unset}
      /\ auto'[c] \in BOOLEAN
      /\ Follows(cam'[c], dev[c], told'[c], auto'[c])
  <2>1. CASE CoupleCamera(c)
    <3>1. /\ cam'[c] = [cam[c] EXCEPT !.known = TRUE, !.online = TRUE]
          /\ told'[c] = IF cam[c].known /\ cam[c].focState = 0
                          THEN cam[c].focPos ELSE told[c]
          /\ auto'[c] = (auto[c] \/ (cam[c].focState = 0 /\ cam[c].focPos = Unset))
      BY <2>1 DEF CoupleCamera, FocusInv, TypeOK
    <3>2. /\ cam'[c] \in Cameras /\ cam'[c].known
          /\ cam'[c].focState = cam[c].focState /\ cam'[c].focPos = cam[c].focPos
          /\ cam'[c].repeat = cam[c].repeat
      BY <3>1, TypesOfRecords DEF Cameras
    <3>3. told'[c] \in 0 .. Span \cup {Invalid, Unset}
      BY <3>1, TypesOfRecords DEF Cameras
    <3>4. cam[c].focState = 0 => told'[c] = cam[c].focPos
      BY <3>1, TypesOfRecords DEF Follows
    <3>5. Follows(cam'[c], dev[c], told'[c], auto'[c])
      <4>1. Moving(cam[c], dev[c]) => Moving(cam'[c], dev[c])
        BY <3>2 DEF Moving
      <4>2. Pending(cam[c], dev[c]) => Pending(cam'[c], dev[c])
        BY <3>2 DEF Pending
      <4>3. cam[c].focState \in {-1, 0, 1} /\ auto[c] \in BOOLEAN
            /\ Follows(cam[c], dev[c], told[c], auto[c])
        BY TypesOfRecords DEF Cameras
      <4>4. CASE cam[c].focState = 0 /\ cam[c].focPos = Unset
        <5>1. auto'[c] = TRUE /\ cam'[c].focState = 0
          BY <3>1, <3>2, <4>4
        <5> QED BY <3>2, <5>1 DEF Follows
      <4>5. CASE ~(cam[c].focState = 0 /\ cam[c].focPos = Unset)
        <5>1. auto'[c] = auto[c]
          BY <3>1, <4>3, <4>5
        <5> QED BY <3>2, <3>4, <4>1, <4>2, <4>3, <4>5, <5>1 DEF Follows
      <4> QED BY <4>4, <4>5
    <3> QED BY <3>1, <3>2, <3>3, <3>5, TypesOfRecords
  <2>2. CASE CameraCloses(c)
    <3>1. /\ cam'[c] = [cam[c] EXCEPT !.online = FALSE] /\ told'[c] = Invalid
          /\ auto'[c] = auto[c]
      BY <2>2 DEF CameraCloses, FocusInv, TypeOK
    <3>2. /\ cam'[c] \in Cameras /\ ~cam'[c].online /\ cam'[c].known = cam[c].known
          /\ cam'[c].focState = cam[c].focState /\ cam'[c].focPos = cam[c].focPos
          /\ cam'[c].repeat = cam[c].repeat
      BY <3>1, TypesOfRecords DEF Cameras
    <3>3. Follows(cam'[c], dev[c], told'[c], auto'[c])
      BY <3>1, <3>2, TypesOfRecords DEF Follows, Moving, Pending
    <3> QED BY <3>1, <3>2, <3>3, TypesOfRecords
  <2> QED BY <2>1, <2>2
<1>4. TypeOK'
  <2>1. /\ cam' \in [Cams -> Cameras] /\ told' \in [Cams -> 0 .. Span \cup {Invalid, Unset}]
        /\ auto' \in [Cams -> BOOLEAN]
    BY <1>2, <1>3, TypesOfRecords DEF CoupleCamera, CameraCloses, FocusInv, TypeOK
  <2> QED BY <1>1, <2>1 DEF FocusInv, TypeOK, Cameras
<1>5. \A b \in Cams : Follows(cam'[b], dev'[b], told'[b], auto'[b])
  BY <1>1, <1>2, <1>3, TypesOfRecords
<1> QED BY <1>4, <1>5 DEF FocusInv

(* The focuser starts at rest, and no camera is known. *)
LEMMA InitFollows == FocusOK /\ Init => FocusInv
<1> SUFFICES ASSUME FocusOK, Init PROVE FocusInv
  OBVIOUS
<1>1. NewCamera \in Cameras
  BY Numbers DEF NewCamera, Cameras
<1>2. \A c \in Cams : /\ cam[c] = NewCamera /\ ~auto[c] /\ told[c] = Invalid
                     /\ \E p \in {0, Span} :
                           dev[c] = [pos |-> p, tar |-> p, cmd |-> <<>>, age |-> 0]
  BY DEF Init
<1>3. \A c \in Cams : dev[c] \in Focusers /\ AtRest(dev[c])
  BY <1>2, NoCommand, Numbers DEF Focusers, AtRest
<1>4. TypeOK
  <2>1. cam \in [Cams -> Cameras] /\ dev \in [Cams -> Focusers]
    BY <1>1, <1>2, <1>3 DEF Init
  <2>2. told \in [Cams -> 0 .. Span \cup {Invalid, Unset}] /\ auto \in [Cams -> BOOLEAN]
    BY DEF Init
  <2>3. tcp \in {"none", "now", "old"} /\ link \in BOOLEAN
    BY DEF Init
  <2>4. cmds \in 0 .. MaxCmds
    <3>1. cmds = 0
      BY DEF Init
    <3> QED BY <3>1, Numbers
  <2> QED BY <2>1, <2>2, <2>3, <2>4 DEF TypeOK, Cameras, Focusers
<1>5. \A c \in Cams : Follows(cam[c], dev[c], told[c], auto[c])
  BY <1>2, <1>3 DEF Follows, NewCamera, AtRest, Moving
<1> QED BY <1>4, <1>5 DEF FocusInv

(* Every step keeps it. *)
LEMMA FocusInductive == FocusOK /\ FocusInv /\ [Next]_vars => FocusInv'
<1> SUFFICES ASSUME FocusOK, FocusInv, [Next]_vars PROVE FocusInv'
  OBVIOUS
<1>1. CASE LinkUp \/ LinkDown \/ FocuserCloses
  BY <1>1 DEF LinkUp, LinkDown, FocuserCloses, FocusInv, TypeOK
<1>2. ASSUME NEW shape \in Shapes, FocuserReports(shape) PROVE FocusInv'
  BY <1>2, ReportsStep
<1>3. ASSUME NEW c \in Cams, CoupleCamera(c) \/ CameraCloses(c) \/ NotifyFWHM(c)
      PROVE  FocusInv'
  BY <1>3, CameraStep, NotifyFWHMStep
<1>4. ASSUME NEW c \in Cams, NEW relPos \in Rels, Focus(c, relPos) PROVE FocusInv'
  BY <1>4, FocusStep
<1>5. ASSUME NEW S \in ({{c} : c \in Known} \cup {Known}) \ {{}}, FocusSync(S)
      PROVE  FocusInv'
  <2>1. S \in SUBSET Cams
    BY <1>5 DEF Known
  <2> QED BY <1>5, <2>1, FocusSyncStep
<1>6. CASE UNCHANGED vars
  BY <1>6 DEF vars, FocusInv, TypeOK
<1> QED BY <1>1, <1>2, <1>3, <1>4, <1>5, <1>6 DEF Next

-----------------------------------------------------------------------------
(* The theorems. *)

(* The record of every camera is one NotifyFocus can have made, and the
   focuser's that of a focuser within its travel. *)
THEOREM FocusTypeCorrect == Spec => []TypeOK
<1>1. FocusInv => TypeOK
  BY DEF FocusInv
<1> QED BY <1>1, FocusOK, InitFollows, FocusInductive, PTL DEF Spec

(* A camera on line whose focus NotifyFocus takes for at rest was told the
   position at which the focuser stands with no move left to do: the count of
   repetitions outlasts the reports before a move begins, and is reset by the
   command, so neither an old position nor one passed on the way counts. *)
THEOREM CameraKnows == Spec => []CameraKnowsFocus
<1>1. FocusInv => CameraKnowsFocus
  BY DEF FocusInv, Follows, AtRest, CameraKnowsFocus
<1> QED BY <1>1, FocusOK, InitFollows, FocusInductive, PTL DEF Spec

=============================================================================
