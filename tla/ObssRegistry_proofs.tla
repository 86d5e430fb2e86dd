------------------------ MODULE ObssRegistry_proofs ------------------------
(***************************************************************************)
(* Theorems about ObssRegistry.  OneHome and SoleRunner are not inductive: *)
(* what the message loop has in its hands between two steps, in which slot *)
(* and group a device is held, and that a plan is an object of its own are *)
(* added in IInv.                                                          *)
(***************************************************************************)
EXTENDS ObssRegistry, TLAPS

(* A device is held in the slot of its kind, a mount by a system of its group. *)
SlotsOK == \A i \in Obss : \A s \in {"mount", "focus", "camera"} :
    held[i][s] # None => Slot(held[i][s]) = s

GroupsOK == \A i \in obssVec :
    held[i].mount # None => ConnGid[held[i].mount] = key[i][1]

(* The handler in progress: its connection is still in the pool, and only a
   mount has several units to be coupled with. *)
HandlerOK ==
    /\ gc = "idle" => todo = {}
    /\ gc = "notify" => todo \subseteq Obss /\ proto # None
    /\ gc = "end" => /\ found \in Obss
                     /\ IF proto = None THEN todo = {} ELSE todo \subseteq Obss
    /\ gc = "store" => found \in Obss /\ todo \subseteq Obss /\ proto # None
    /\ gc \in {"find", "couple"} => todo \subseteq Units
    /\ gc = "find" => sp # None /\ Kind[sp] = "mount" /\ conn[sp] = "pool"
    /\ gc = "couple" =>
         /\ found \in Obss
         /\ sp = None => todo = {}
         /\ sp # None => /\ conn[sp] = "pool"
                         /\ Kind[sp] # "mount" => todo = {}
                         /\ Kind[sp] # "camera" => key[found][1] = ConnGid[sp]

PlansSent == /\ \A i \in Obss : plan[i] \in sent \cup {None}
             /\ proto \in sent \cup {None}

(* Nobody else holds the plan that thread_obsplan asked about, from unique() on
   and as long as the system has not been given another one. *)
Sole(i) == /\ plan[i] # None /\ plan[i] # proto
           /\ \A j \in Obss \ {i} : plan[j] # plan[i]

TestedOK == \A i \in Obss :
    /\ tested[i] \in sent \cup {None} /\ (tested[i] # None => tested[i] # proto)
    /\ running[i] \/ op[i] = "start" => tested[i] # None
    /\ (running[i] \/ op[i] = "start") /\ plan[i] = tested[i] => Sole(i)

IInv == TypeOK /\ OneHome /\ TestedOK /\ SlotsOK /\ GroupsOK /\ HandlerOK /\ PlansSent

(* The facts on constants that the steps below need. *)
LEMMA Constants ==
    /\ Obss \subseteq Nat \ {0} /\ 0 \notin Obss
    /\ Kind \in [Conns -> {"mount", "focus", "gftmount", "camera"}]
    /\ ConnGid \in [Conns -> Gids] /\ "" \notin Gids
    /\ None \notin Conns /\ None \notin Plans
    /\ Units \subseteq Nat \ {0}
  <1>1. Obss \subseteq Nat \ {0} /\ 0 \notin Obss
    BY RegistryOK
  <1>2. Kind \in [Conns -> {"mount", "focus", "gftmount", "camera"}]
    BY RegistryOK
  <1>3. ConnGid \in [Conns -> Gids] /\ "" \notin Gids
    BY RegistryOK
  <1>4. None \notin Conns /\ None \notin Plans
    BY RegistryOK
  <1>5. Units \subseteq Nat \ {0}
    <2>1. LastUnit \in Nat
      BY RegistryOK
    <2> QED
      BY <2>1 DEF Units
  <1> QED
    BY <1>1, <1>2, <1>3, <1>4, <1>5

LEMMA Slots == \A c \in Conns :
    /\ Slot(c) \in {"mount", "focus", "camera"}
    /\ Slot(c) = "mount" <=> Kind[c] \in {"mount", "gftmount"}
    /\ Slot(c) = "focus" <=> Kind[c] = "focus"
    /\ Slot(c) = "camera" <=> Kind[c] = "camera"
  BY Constants DEF Slot

LEMMA NothingHeld ==
    /\ Nothing \in [{"mount", "focus", "camera"} -> Conns \cup {None}]
    /\ \A s \in {"mount", "focus", "camera"} : Nothing[s] = None
  BY DEF Nothing

LEMMA InitIInv == Init => IInv
  <1> SUFFICES ASSUME Init PROVE IInv
    OBVIOUS
  <1> USE Constants DEF Init, Nothing, NoObss, AnyUnit
  <1>1. TypeOK
    <2>1. key \in [Obss -> (Gids \cup {""}) \X (Units \cup {AnyUnit})]
      <3>1. <<"", AnyUnit>> \in (Gids \cup {""}) \X (Units \cup {AnyUnit})
        OBVIOUS
      <3> QED
        BY ONLY <3>1, Init DEF Init
    <2>3. held \in [Obss -> [{"mount", "focus", "camera"} -> Conns \cup {None}]]
      BY ONLY Init, NothingHeld DEF Init
    <2>2. /\ obssVec \subseteq Obss
          /\ aged \in [Obss -> BOOLEAN]
          /\ plan \in [Obss -> Plans \cup {None}] /\ running \in [Obss -> BOOLEAN]
          /\ conn \in [Conns -> {"new", "pool", "given", "gone"}]
          /\ open \in [Conns -> BOOLEAN]
          /\ os \in [Obss -> {"idle", "end"}] /\ op \in [Obss -> {"wait", "start", "end"}]
          /\ tested \in [Obss -> Plans \cup {None}]
          /\ gc = "idle" /\ sp = None /\ proto = None /\ deaf = {} /\ up \in BOOLEAN
          /\ found = NoObss /\ todo = {} /\ sent = {}
      BY ONLY Init DEF Init
    <2> QED
      BY <2>1, <2>2, <2>3 DEF TypeOK
  <1>2. OneHome
    BY Slots DEF OneHome, Holders
  <1>3. TestedOK /\ GroupsOK /\ HandlerOK /\ PlansSent
    BY DEF TestedOK, GroupsOK, HandlerOK, PlansSent
  <1>4. SlotsOK
    BY ONLY Init, NothingHeld DEF Init, SlotsOK
  <1> QED
    BY <1>1, <1>2, <1>3, <1>4 DEF IInv

LEMMA UnitsOfStatus ==
    ASSUME NEW gid \in Gids, NEW n \in 0 .. StatusLen
    PROVE  StatusUnits(gid, n) \subseteq Units
  <1>1. SplitUnit \in Nat /\ SplitUnit > 1 /\ LastUnit \in Nat
    BY RegistryOK
  <1> QED
    BY <1>1 DEF StatusUnits, Imin, Imax, Units

-----------------------------------------------------------------------------
(* What find_obss and Create do to the registry. *)

LEMMA CreateStep ==
    ASSUME TypeOK, NEW gid \in Gids \cup {""}, NEW uid \in Units \cup {AnyUnit},
           Create(gid, uid)
    PROVE  /\ found' \in Obss \ obssVec /\ found' # found
           /\ obssVec' = obssVec \cup {found'}
           /\ key' = [key EXCEPT ![found'] = <<gid, uid>>]
           /\ held' = [held EXCEPT ![found'] = Nothing]
           /\ aged' = [aged EXCEPT ![found'] = FALSE]
  BY DEF Create, Free

LEMMA FindStep ==
    ASSUME TypeOK, NEW gid \in Gids \cup {""}, NEW uid \in Units \cup {AnyUnit},
           FindObss(gid, uid)
    PROVE  \/ /\ found' \in Obss \ obssVec
              /\ obssVec' = obssVec \cup {found'}
              /\ key' = [key EXCEPT ![found'] = <<gid, uid>>]
              /\ held' = [held EXCEPT ![found'] = Nothing]
              /\ aged' = [aged EXCEPT ![found'] = FALSE]
           \/ /\ found' \in obssVec \cup {NoObss}
              /\ gid # "" /\ uid # AnyUnit => found' \in obssVec
              /\ gid # "" /\ found' # NoObss => key[found'][1] = gid
              /\ UNCHANGED obssVars
  <1>1. CASE Matching(gid, uid) = {} /\ gid # "" /\ uid # AnyUnit /\ Create(gid, uid)
    BY <1>1, CreateStep
  <1>2. CASE found' \in Matching(gid, uid) /\ UNCHANGED obssVars
    BY <1>2 DEF Matching, IsMatched
  <1>3. CASE Matching(gid, uid) = {} /\ (gid = "" \/ uid = AnyUnit)
             /\ found' = NoObss /\ UNCHANGED obssVars
    BY <1>3
  <1> QED
    BY <1>1, <1>2, <1>3 DEF FindObss

(* The effect on the registry of every step that finds or creates a system,
   as the other invariants need it: a new system holds nothing. *)
Found == \/ /\ found' \in Obss \ obssVec
            /\ obssVec' = obssVec \cup {found'}
            /\ \E k \in (Gids \cup {""}) \X (Units \cup {AnyUnit}) :
                 key' = [key EXCEPT ![found'] = k]
            /\ held' = [held EXCEPT ![found'] = Nothing]
            /\ aged' = [aged EXCEPT ![found'] = FALSE]
         \/ found' \in obssVec \cup {NoObss} /\ UNCHANGED obssVars

LEMMA FindNextStep ==
    ASSUME IInv, FindNext
    PROVE  Found /\ found' \in Obss /\ key'[found'][1] = ConnGid[sp]
           /\ todo' \subseteq todo
  <1>1. PICK u \in todo : FindObss(ConnGid[sp], u) /\ todo' = todo \ {u}
    BY DEF FindNext
  <1>2. /\ sp \in Conns /\ u \in Units
        /\ obssVec \subseteq Obss /\ DOMAIN key = Obss
    BY <1>1 DEF FindNext, IInv, HandlerOK, TypeOK
  <1>3. ConnGid[sp] \in Gids /\ ConnGid[sp] # "" /\ u # AnyUnit
    BY <1>2, Constants DEF AnyUnit
  <1>4. TypeOK
    BY DEF IInv
  <1>5. CASE found' \in Obss \ obssVec /\ key' = [key EXCEPT ![found'] = <<ConnGid[sp], u>>]
             /\ obssVec' = obssVec \cup {found'}
             /\ held' = [held EXCEPT ![found'] = Nothing]
             /\ aged' = [aged EXCEPT ![found'] = FALSE]
    <2>1. <<ConnGid[sp], u>> \in (Gids \cup {""}) \X (Units \cup {AnyUnit})
      BY <1>2, <1>3
    <2> QED
      BY <1>1, <1>2, <1>5, <2>1 DEF Found
  <1>6. CASE found' \in obssVec /\ key[found'][1] = ConnGid[sp] /\ UNCHANGED obssVars
    BY <1>1, <1>2, <1>6 DEF Found, obssVars
  <1>7. NoObss \notin obssVec
    BY <1>2, Constants DEF NoObss
  <1>8. ConnGid[sp] \in Gids \cup {""} /\ u \in Units \cup {AnyUnit}
    BY <1>2, <1>3
  <1>9. \/ /\ found' \in Obss \ obssVec
           /\ obssVec' = obssVec \cup {found'}
           /\ key' = [key EXCEPT ![found'] = <<ConnGid[sp], u>>]
           /\ held' = [held EXCEPT ![found'] = Nothing]
           /\ aged' = [aged EXCEPT ![found'] = FALSE]
        \/ /\ found' \in obssVec
           /\ found' # NoObss => key[found'][1] = ConnGid[sp]
           /\ UNCHANGED obssVars
    BY <1>1, <1>3, <1>4, <1>8, FindStep
  <1> QED
    BY <1>5, <1>6, <1>7, <1>9

LEMMA PositionStep ==
    ASSUME IInv, NEW c \in Conns, NEW uid \in Units, MountPosition(c, uid)
    PROVE  Found /\ found' \in Obss
  <1>1. ConnGid[c] \in Gids \cup {""} /\ uid \in Units \cup {AnyUnit}
    BY Constants
  <1>2. /\ found' \in Obss \ obssVec /\ found' # found
        /\ obssVec' = obssVec \cup {found'}
        /\ key' = [key EXCEPT ![found'] = <<ConnGid[c], uid>>]
        /\ held' = [held EXCEPT ![found'] = Nothing]
        /\ aged' = [aged EXCEPT ![found'] = FALSE]
    BY <1>1, CreateStep DEF MountPosition, IInv
  <1>3. <<ConnGid[c], uid>> \in (Gids \cup {""}) \X (Units \cup {AnyUnit})
    BY <1>1
  <1> QED
    BY <1>2, <1>3 DEF Found

LEMMA ReportStep ==
    ASSUME IInv, NEW c \in Conns, NEW gid \in Gids \cup {""},
           NEW uid \in Units \cup {AnyUnit}, UnitReport(c, gid, uid)
    PROVE  /\ Found
           /\ found' # NoObss => found' \in Obss
           /\ found' # NoObss /\ Kind[c] # "camera" => key'[found'][1] = ConnGid[c]
  <1> DEFINE New == /\ found' \in Obss \ obssVec
                    /\ obssVec' = obssVec \cup {found'}
                    /\ key' = [key EXCEPT ![found'] = <<gid, uid>>]
                    /\ held' = [held EXCEPT ![found'] = Nothing]
                    /\ aged' = [aged EXCEPT ![found'] = FALSE]
             Old == /\ found' \in obssVec \cup {NoObss}
                    /\ gid # "" /\ found' # NoObss => key[found'][1] = gid
                    /\ UNCHANGED obssVars
  <1>1. TypeOK /\ FindObss(gid, uid)
    BY DEF IInv, UnitReport
  <1>2. New \/ Old
    BY <1>1, FindStep
  <1>3. Kind[c] # "camera" => gid = ConnGid[c] /\ gid # ""
    <2>1. ConnGid[c] \in Gids /\ "" \notin Gids
      BY Constants
    <2>2. gid = ConnGid[c] \/ Kind[c] = "camera"
      BY DEF UnitReport
    <2> QED
      BY <2>1, <2>2
  <1>4. obssVec \subseteq Obss /\ DOMAIN key = Obss
    BY <1>1 DEF TypeOK
  <1>5. CASE New
    <2>1. <<gid, uid>> \in (Gids \cup {""}) \X (Units \cup {AnyUnit})
      OBVIOUS
    <2> QED
      BY <1>3, <1>4, <1>5, <2>1 DEF Found
  <1>6. CASE Old
    BY <1>3, <1>4, <1>6 DEF Found, obssVars
  <1> QED
    BY <1>2, <1>5, <1>6

-----------------------------------------------------------------------------
(* The type invariant. *)

LEMMA TypeNext == IInv /\ [Next]_vars => TypeOK'
  <1> SUFFICES ASSUME IInv, [Next]_vars PROVE TypeOK'
    OBVIOUS
  <1> USE Constants DEF TypeOK
  <1>t. TypeOK
    BY DEF IInv
  <1>f. ASSUME Found
        PROVE  /\ obssVec' \subseteq Obss
               /\ key' \in [Obss -> (Gids \cup {""}) \X (Units \cup {AnyUnit})]
               /\ held' \in [Obss -> [{"mount", "focus", "camera"} -> Conns \cup {None}]]
               /\ aged' \in [Obss -> BOOLEAN]
               /\ found' \in Obss \cup {NoObss}
    <2> DEFINE Key  == (Gids \cup {""}) \X (Units \cup {AnyUnit})
               Dev  == [{"mount", "focus", "camera"} -> Conns \cup {None}]
               New  == /\ found' \in Obss \ obssVec
                       /\ obssVec' = obssVec \cup {found'}
                       /\ \E k \in Key : key' = [key EXCEPT ![found'] = k]
                       /\ held' = [held EXCEPT ![found'] = Nothing]
                       /\ aged' = [aged EXCEPT ![found'] = FALSE]
               Same == /\ found' \in obssVec \cup {NoObss}
                       /\ obssVec' = obssVec /\ key' = key
                       /\ held' = held /\ aged' = aged
    <2>1. New \/ Same
      BY ONLY <1>f DEF Found, obssVars
    <2>2. /\ obssVec \subseteq Obss
          /\ key \in [Obss -> Key] /\ held \in [Obss -> Dev]
          /\ aged \in [Obss -> BOOLEAN]
      BY <1>t
    <2>3. Nothing \in Dev
      BY NothingHeld
    <2> HIDE DEF Key, Dev
    <2>4. obssVec' \subseteq Obss /\ found' \in Obss \cup {NoObss}
      BY ONLY <2>1, <2>2
    <2>5. key' \in [Obss -> Key]
      BY ONLY <2>1, <2>2
    <2>6. held' \in [Obss -> Dev]
      BY ONLY <2>1, <2>2, <2>3
    <2>7. aged' \in [Obss -> BOOLEAN]
      BY ONLY <2>1, <2>2
    <2> QED
      BY <2>4, <2>5, <2>6, <2>7 DEF Key, Dev
  <1>1. CASE FindNext
    <2>1. Found /\ todo' \subseteq todo
      BY <1>1, FindNextStep
    <2> QED
      BY <1>t, <1>1, <1>f, <2>1 DEF FindNext, planVars, connVars
  <1>2. CASE Couple
    <2>1. held' \in [Obss -> [{"mount", "focus", "camera"} -> Conns \cup {None}]]
      <3>1. CASE held' = held
        BY <1>t, <3>1
      <3>2. CASE sp \in Conns /\ found \in obssVec /\ Hold(found, sp)
        BY <1>t, <3>2, Slots DEF Hold
      <3> QED
        BY <1>t, <1>2, <3>1, <3>2 DEF Couple, CoupleGwac, CoupleGiven
    <2>2. /\ conn' \in [Conns -> {"new", "pool", "given", "gone"}]
          /\ open' \in [Conns -> BOOLEAN] /\ deaf' \subseteq Conns
      BY <1>t, <1>2 DEF Couple, CoupleGwac, CoupleGiven, connVars
    <2>3. /\ UNCHANGED <<obssVec, key, aged, plan, running, os, op, tested, sent,
                        todo, proto, up>>
          /\ gc' \in {"idle", "find"} /\ sp' \in {None, sp} /\ found' = NoObss
      BY ONLY <1>2 DEF Couple, NextUnit, planVars
    <2>4. /\ gc' \in {"idle", "find", "couple", "notify", "end", "store"}
          /\ sp' \in Conns \cup {None} /\ found' \in Obss \cup {NoObss}
      BY <1>t, <2>3
    <2> QED
      BY ONLY <1>t, <2>1, <2>2, <2>3, <2>4 DEF TypeOK
  <1>put. ASSUME NEW i \in Obss, Put(i, proto)
          PROVE  /\ plan' \in [Obss -> Plans \cup {None}]
                 /\ running' \in [Obss -> BOOLEAN]
                 /\ UNCHANGED <<os, op, tested>>
    BY <1>t, <1>put DEF Put
  <1>h. HandlerOK
    BY DEF IInv
  <1>3. CASE NotifyPlan
    <2>1. gc = "notify" /\ todo \subseteq Obss
      BY <1>h, <1>3 DEF NotifyPlan, HandlerOK
    <2>2. PICK i \in todo :
            \/ todo' = todo \ {i} /\ UNCHANGED <<planVars, gc, found>>
            \/ Put(i, proto) /\ todo' = todo \ {i} /\ UNCHANGED <<gc, found>>
            \/ gc' = "end" /\ found' = i /\ UNCHANGED <<planVars, todo>>
      BY <1>3 DEF NotifyPlan
    <2>3. UNCHANGED <<obssVec, key, held, aged, conn, open, deaf, sp, proto, sent, up>>
      BY <1>3 DEF NotifyPlan, obssVars, connVars
    <2>4. i \in Obss
      BY <2>1
    <2>5. CASE todo' = todo \ {i} /\ UNCHANGED <<planVars, gc, found>>
      BY ONLY <1>t, <2>3, <2>5 DEF TypeOK, planVars
    <2>6. CASE Put(i, proto) /\ todo' = todo \ {i} /\ UNCHANGED <<gc, found>>
      BY ONLY <1>t, <1>put, <2>3, <2>4, <2>6 DEF TypeOK
    <2>7. CASE gc' = "end" /\ found' = i /\ UNCHANGED <<planVars, todo>>
      BY ONLY <1>t, <2>3, <2>4, <2>7 DEF TypeOK, planVars
    <2> QED
      BY <2>2, <2>5, <2>6, <2>7
  <1>18. CASE StorePlan
    <2>1. found \in Obss /\ Put(found, proto)
      BY <1>h, <1>18 DEF StorePlan, HandlerOK
    <2>2. /\ UNCHANGED <<obssVec, key, held, aged, conn, open, deaf, sp, proto, sent, up>>
          /\ gc' = "notify" /\ found' = NoObss /\ todo' = todo \ {found}
      BY <1>18 DEF StorePlan, obssVars, connVars
    <2> QED
      BY ONLY <1>t, <1>put, <2>1, <2>2 DEF TypeOK
  <1>19. CASE Abort
    <2>1. found \in Obss /\ up' \in BOOLEAN
      BY <1>h, <1>19 DEF Abort, HandlerOK, Reset, ReadsPlan
    <2>2. plan' \in [Obss -> Plans \cup {None}] /\ running' \in [Obss -> BOOLEAN]
      BY <1>t, <1>19, <2>1 DEF Abort, Reset
    <2>3. /\ UNCHANGED <<obssVec, key, held, aged, conn, open, deaf, os, op, tested, sp,
                        todo, proto, sent>>
          /\ gc' \in {"idle", "store"} /\ found' \in {NoObss, found}
      BY <1>19 DEF Abort, obssVars, connVars
    <2> QED
      BY ONLY <1>t, <2>1, <2>2, <2>3 DEF TypeOK
  <1>20. ASSUME NEW c \in Conns, WordFocus(c) PROVE TypeOK'
    BY <1>t, <1>20 DEF WordFocus, obssVars, planVars, connVars, gcVars
  <1>21. ASSUME NEW i \in Obss, ClientAbort(i) PROVE TypeOK'
    BY <1>t, <1>21 DEF ClientAbort, obssVars, planVars, connVars
  <1>22. CASE Restart
    <2>1. key' \in [Obss -> (Gids \cup {""}) \X (Units \cup {AnyUnit})]
      <3>1. <<"", AnyUnit>> \in (Gids \cup {""}) \X (Units \cup {AnyUnit})
        OBVIOUS
      <3> QED
        BY ONLY <3>1, <1>22 DEF Restart
    <2>2. held' \in [Obss -> [{"mount", "focus", "camera"} -> Conns \cup {None}]]
      BY ONLY <1>22, NothingHeld DEF Restart
    <2>3. /\ obssVec' \subseteq Obss
          /\ aged' \in [Obss -> BOOLEAN]
          /\ plan' \in [Obss -> Plans \cup {None}] /\ running' \in [Obss -> BOOLEAN]
          /\ conn' \in [Conns -> {"new", "pool", "given", "gone"}]
          /\ open' \in [Conns -> BOOLEAN]
          /\ os' \in [Obss -> {"idle", "end"}]
          /\ op' \in [Obss -> {"wait", "start", "end"}]
          /\ tested' \in [Obss -> Plans \cup {None}]
          /\ gc' = "idle" /\ sp' = None /\ proto' = None /\ deaf' = {} /\ up' \in BOOLEAN
          /\ found' = NoObss /\ todo' = {} /\ sent' = sent
      BY ONLY <1>22 DEF Restart
    <2> QED
      BY ONLY <1>t, <2>1, <2>2, <2>3 DEF TypeOK
  <1>4. CASE Notified
    BY <1>t, <1>4 DEF Notified, obssVars, connVars, planVars
  <1>5. ASSUME NEW c \in Conns, Connect(c) PROVE TypeOK'
    BY <1>t, <1>5 DEF Connect, obssVars, planVars, gcVars
  <1>6. ASSUME NEW c \in Conns, PeerCloses(c) PROVE TypeOK'
    BY <1>t, <1>6 DEF PeerCloses, obssVars, planVars, gcVars
  <1>7. ASSUME NEW c \in Conns, GcClose(c) PROVE TypeOK'
    <2>1. held' \in [Obss -> [{"mount", "focus", "camera"} -> Conns \cup {None}]]
      BY <1>t, <1>7, Slots DEF GcClose
    <2> QED
      BY <1>t, <1>7, <2>1 DEF GcClose, planVars, gcVars
  <1>8. ASSUME NEW c \in Conns, NEW n \in 0 .. StatusLen, MountStatus(c, n)
        PROVE  TypeOK'
    <2>1. StatusUnits(ConnGid[c], n) \subseteq Nat
      BY UnitsOfStatus
    <2> QED
      BY <1>t, <1>8, <2>1 DEF MountStatus, obssVars, planVars, connVars
  <1>9. ASSUME NEW c \in Conns, NEW u \in Units, MountPosition(c, u) PROVE TypeOK'
    BY <1>t, <1>9, <1>f, PositionStep DEF MountPosition, planVars, connVars
  <1>10. ASSUME NEW c \in Conns, NEW gid \in Gids \cup {""},
                NEW u \in Units \cup {AnyUnit}, UnitReport(c, gid, u)
         PROVE  TypeOK'
    BY <1>t, <1>10, <1>f, ReportStep DEF UnitReport, planVars, connVars
  <1>11. ASSUME NEW p \in Plans, NEW gid \in Gids \cup {""},
                NEW u \in Units \cup {AnyUnit}, ClientPlan(p, gid, u)
         PROVE  TypeOK'
    BY <1>t, <1>11 DEF ClientPlan, Matching, obssVars, planVars, connVars
  <1>12. ASSUME NEW i \in Obss, Age(i) PROVE TypeOK'
    BY <1>t, <1>12 DEF Age, planVars, connVars, gcVars
  <1>13. ASSUME NEW i \in Obss, Dump(i) PROVE TypeOK'
    BY <1>t, <1>13 DEF Dump, connVars, gcVars
  <1>14. ASSUME NEW i \in Obss, OsClose(i) PROVE TypeOK'
    BY <1>t, <1>14 DEF OsClose, planVars, gcVars
  <1>15. ASSUME NEW i \in Obss, TestPlan(i) PROVE TypeOK'
    BY <1>t, <1>15 DEF TestPlan, obssVars, connVars, gcVars
  <1>16. ASSUME NEW i \in Obss, RunPlan(i) PROVE TypeOK'
    BY <1>t, <1>16 DEF RunPlan, ReadsPlan, obssVars, connVars, gcVars
  <1>23. ASSUME NEW i \in Obss, TestEnd(i) PROVE TypeOK'
    BY <1>t, <1>23 DEF TestEnd, obssVars, connVars, gcVars
  <1>24. ASSUME NEW i \in Obss, EndPlan(i) PROVE TypeOK'
    BY <1>t, <1>24 DEF EndPlan, Reset, ReadsPlan, obssVars, connVars, gcVars
  <1>17. CASE UNCHANGED vars
    BY <1>t, <1>17 DEF vars, obssVars, planVars, connVars, gcVars
  <1> QED
    BY <1>1, <1>2, <1>3, <1>4, <1>5, <1>6, <1>7, <1>8, <1>9, <1>10, <1>11,
       <1>12, <1>13, <1>14, <1>15, <1>16, <1>17, <1>18, <1>19, <1>20, <1>21,
       <1>22, <1>23, <1>24 DEF Next, GcStep, Message, ObssStep

-----------------------------------------------------------------------------
(* One runner for each plan. *)

PlansOK == PlansSent /\ TestedOK

LEMMA PlansNext == IInv /\ [Next]_vars => PlansOK'
  <1> SUFFICES ASSUME IInv, [Next]_vars PROVE PlansOK'
    OBVIOUS
  <1> USE DEF PlansOK
  <1>i. /\ PlansSent /\ TestedOK /\ None \notin Plans /\ sent \subseteq Plans
        /\ plan \in [Obss -> Plans \cup {None}] /\ running \in [Obss -> BOOLEAN]
        /\ tested \in [Obss -> Plans \cup {None}]
        /\ op \in [Obss -> {"wait", "start", "end"}] /\ HandlerOK
    BY Constants DEF IInv, TypeOK
  <1>same. ASSUME UNCHANGED <<plan, running, op, tested, proto, sent>>
           PROVE  PlansOK'
    BY <1>i, <1>same DEF PlansSent, TestedOK, Sole
  <1>put. ASSUME NEW i \in Obss, Put(i, proto), UNCHANGED <<proto, sent>>, proto # None
          PROVE  PlansOK'
    <2>1. /\ plan' = [plan EXCEPT ![i] = proto] /\ running' = [running EXCEPT ![i] = FALSE]
          /\ UNCHANGED <<op, tested>>
      BY <1>put DEF Put
    <2>2. PlansSent'
      BY <1>i, <1>put, <2>1 DEF PlansSent
    <2>3. plan'[i] = proto /\ tested[i] # proto
      BY <1>i, <1>put, <2>1 DEF TestedOK
    <2>4. \A j \in Obss : j # i => plan'[j] = plan[j] /\ running'[j] = running[j]
      BY <1>i, <2>1
    <2>5. ~running'[i]
      BY <1>i, <2>1
    <2>6. TestedOK'
      <3> SUFFICES ASSUME NEW j \in Obss
                   PROVE  /\ tested[j] \in sent \cup {None}
                          /\ (tested[j] # None => tested[j] # proto)
                          /\ running'[j] \/ op[j] = "start" => tested[j] # None
                          /\ (running'[j] \/ op[j] = "start") /\ plan'[j] = tested[j]
                                => Sole(j)'
        BY <1>put, <2>1 DEF TestedOK
      <3>1. CASE j = i
        BY <1>i, <2>3, <2>5, <3>1 DEF TestedOK
      <3>2. CASE j # i
        BY <1>i, <1>put, <2>3, <2>4, <3>2 DEF TestedOK, Sole
      <3> QED
        BY <3>1, <3>2
    <2> QED
      BY <2>2, <2>6
  <1>reset. ASSUME NEW i \in Obss, plan' = [plan EXCEPT ![i] = None],
                   running' = [running EXCEPT ![i] = FALSE],
                   \/ op' = op
                   \/ op[i] # "start" /\ op' = [op EXCEPT ![i] = "wait"],
                   UNCHANGED <<tested, proto, sent>>
            PROVE  PlansOK'
    <2>1. PlansSent'
      BY <1>i, <1>reset DEF PlansSent
    <2>2. plan'[i] = None /\ ~running'[i] /\ (op'[i] = "start" => op[i] = "start")
      BY <1>i, <1>reset
    <2>3. \A j \in Obss : j # i => /\ plan'[j] = plan[j] /\ running'[j] = running[j]
                                   /\ op'[j] = op[j]
      BY <1>i, <1>reset
    <2>4. TestedOK'
      <3> SUFFICES ASSUME NEW j \in Obss
                   PROVE  /\ tested[j] \in sent \cup {None}
                          /\ (tested[j] # None => tested[j] # proto)
                          /\ running'[j] \/ op'[j] = "start" => tested[j] # None
                          /\ (running'[j] \/ op'[j] = "start") /\ plan'[j] = tested[j]
                                => Sole(j)'
        BY <1>reset DEF TestedOK
      <3>1. CASE j = i
        BY <1>i, <2>2, <3>1 DEF TestedOK
      <3>2. CASE j # i
        BY <1>i, <1>reset, <2>2, <2>3, <3>2 DEF TestedOK, Sole
      <3> QED
        BY <3>1, <3>2
    <2> QED
      BY <2>1, <2>4
  <1>1. CASE FindNext
    BY <1>1, <1>same DEF FindNext, planVars
  <1>2. CASE Couple
    BY <1>2, <1>same DEF Couple, NextUnit, planVars
  <1>3. CASE NotifyPlan
    <2>1. gc = "notify" /\ todo \subseteq Obss /\ proto # None /\ UNCHANGED <<proto, sent>>
      BY <1>i, <1>3 DEF NotifyPlan, HandlerOK
    <2>2. CASE UNCHANGED planVars
      BY <2>1, <2>2, <1>same DEF planVars
    <2>3. ASSUME NEW i \in todo, Put(i, proto) PROVE PlansOK'
      BY <2>1, <2>3, <1>put
    <2> QED
      BY <1>3, <2>2, <2>3 DEF NotifyPlan
  <1>4. CASE Notified
    <2>1. proto' = None /\ UNCHANGED <<plan, running, op, tested, sent>>
      BY <1>4 DEF Notified, planVars
    <2> QED
      BY <1>i, <2>1 DEF PlansSent, TestedOK, Sole
  <1>5. ASSUME NEW c \in Conns,
               Connect(c) \/ PeerCloses(c) \/ GcClose(c) \/ WordFocus(c)
        PROVE  PlansOK'
    BY <1>5, <1>same DEF Connect, PeerCloses, GcClose, WordFocus, planVars, gcVars
  <1>6. ASSUME NEW c \in Conns, NEW n, MountStatus(c, n)
        PROVE  PlansOK'
    BY <1>6, <1>same DEF MountStatus, planVars
  <1>7. ASSUME NEW c \in Conns, NEW u, MountPosition(c, u)
        PROVE  PlansOK'
    BY <1>7, <1>same DEF MountPosition, planVars
  <1>8. ASSUME NEW c \in Conns, NEW gid, NEW u, UnitReport(c, gid, u)
        PROVE  PlansOK'
    BY <1>8, <1>same DEF UnitReport, planVars
  <1>9. ASSUME NEW p \in Plans, NEW gid, NEW u, ClientPlan(p, gid, u)
        PROVE  PlansOK'
    <2>1. /\ p \notin sent /\ proto' = p /\ sent' = sent \cup {p}
          /\ UNCHANGED <<plan, running, op, tested>>
      BY <1>9 DEF ClientPlan, planVars
    <2> QED
      BY <1>i, <2>1 DEF PlansSent, TestedOK, Sole
  <1>10. ASSUME NEW i \in Obss, Age(i) \/ OsClose(i) \/ ClientAbort(i) PROVE PlansOK'
    BY <1>10, <1>same DEF Age, OsClose, ClientAbort, planVars, gcVars
  <1>11. ASSUME NEW i \in Obss, Dump(i) PROVE PlansOK'
    <2>1. /\ plan' = [plan EXCEPT ![i] = None] /\ running' = [running EXCEPT ![i] = FALSE]
          /\ tested' = [tested EXCEPT ![i] = None] /\ op[i] = "wait"
          /\ UNCHANGED <<op, proto, sent>>
      BY <1>11 DEF Dump, gcVars
    <2>2. plan'[i] = None /\ ~running'[i] /\ tested'[i] = None
      BY <1>i, <2>1
    <2>3. \A j \in Obss : j # i => /\ plan'[j] = plan[j] /\ running'[j] = running[j]
                                   /\ tested'[j] = tested[j]
      BY <1>i, <2>1
    <2>4. PlansSent'
      BY <1>i, <2>1, <2>2, <2>3 DEF PlansSent
    <2>5. TestedOK'
      BY <1>i, <2>1, <2>2, <2>3 DEF TestedOK, Sole
    <2> QED
      BY <2>4, <2>5
  <1>12. ASSUME NEW i \in Obss, TestPlan(i) PROVE PlansOK'
    <2>1. /\ Unique(i) /\ op' = [op EXCEPT ![i] = "start"]
          /\ tested' = [tested EXCEPT ![i] = plan[i]]
          /\ UNCHANGED <<plan, running, proto, sent>>
      BY <1>12 DEF TestPlan, gcVars
    <2>2. tested'[i] = plan[i] /\ Sole(i)
      BY <1>i, <2>1 DEF Unique, Sole
    <2>3. \A j \in Obss : j # i => op'[j] = op[j] /\ tested'[j] = tested[j]
      BY <1>i, <2>1
    <2>4. \A j \in Obss : Sole(j)' <=> Sole(j)
      BY <2>1 DEF Sole
    <2>5. PlansSent'
      BY <1>i, <2>1 DEF PlansSent
    <2>6. TestedOK'
      <3> SUFFICES ASSUME NEW j \in Obss
                   PROVE  /\ tested'[j] \in sent \cup {None}
                          /\ (tested'[j] # None => tested'[j] # proto)
                          /\ running[j] \/ op'[j] = "start" => tested'[j] # None
                          /\ (running[j] \/ op'[j] = "start") /\ plan[j] = tested'[j]
                                => Sole(j)
        BY <2>1, <2>4 DEF TestedOK
      <3>1. CASE j = i
        BY <1>i, <2>2, <3>1 DEF PlansSent, Sole
      <3>2. CASE j # i
        BY <1>i, <2>3, <3>2 DEF TestedOK
      <3> QED
        BY <3>1, <3>2
    <2> QED
      BY <2>5, <2>6
  <1>13. CASE UNCHANGED vars
    BY <1>13, <1>same DEF vars, planVars, gcVars
  <1>14. CASE StorePlan
    BY <1>i, <1>14, <1>put DEF StorePlan, HandlerOK
  <1>15. CASE Abort
    <2>1. found \in Obss /\ UNCHANGED <<op, tested, proto, sent>> /\ Reset(found)
      BY <1>i, <1>15 DEF Abort, HandlerOK
    <2> QED
      BY <2>1, <1>reset DEF Reset
  <1>16. ASSUME NEW i \in Obss, RunPlan(i) PROVE PlansOK'
    <2>1. /\ op[i] = "start" /\ op' = [op EXCEPT ![i] = "wait"]
          /\ running' = [running EXCEPT ![i] = TRUE]
          /\ UNCHANGED <<plan, tested, proto, sent>>
      BY <1>16 DEF RunPlan, gcVars
    <2>2. \A j \in Obss : running'[j] \/ op'[j] = "start" => running[j] \/ op[j] = "start"
      BY <1>i, <2>1
    <2>3. \A j \in Obss : Sole(j)' <=> Sole(j)
      BY <2>1 DEF Sole
    <2>4. PlansSent'
      BY <1>i, <2>1 DEF PlansSent
    <2>5. TestedOK'
      BY <1>i, <2>1, <2>2, <2>3 DEF TestedOK
    <2> QED
      BY <2>4, <2>5
  <1>17. ASSUME NEW i \in Obss, TestEnd(i) PROVE PlansOK'
    <2>1. op' = op \/ op' = [op EXCEPT ![i] = "end"]
      BY <1>17 DEF TestEnd
    <2>2. \A j \in Obss : op'[j] = "start" => op[j] = "start"
      BY <1>i, <2>1
    <2>3. UNCHANGED <<plan, running, tested, proto, sent>>
      BY <1>17 DEF TestEnd, gcVars
    <2>4. \A j \in Obss : Sole(j)' <=> Sole(j)
      BY <2>3 DEF Sole
    <2> QED
      BY <1>i, <2>2, <2>3, <2>4 DEF PlansSent, TestedOK
  <1>18. ASSUME NEW i \in Obss, EndPlan(i) PROVE PlansOK'
    <2>1. /\ op' = op \/ (op[i] = "end" /\ op' = [op EXCEPT ![i] = "wait"])
          /\ UNCHANGED <<tested, proto, sent>> /\ Reset(i)
      BY <1>18 DEF EndPlan, gcVars
    <2> QED
      BY <2>1, <1>reset DEF Reset
  <1>19. CASE Restart
    BY <1>i, <1>19 DEF Restart, PlansSent, TestedOK
  <1> QED
    BY <1>1, <1>2, <1>3, <1>4, <1>5, <1>6, <1>7, <1>8, <1>9, <1>10, <1>11,
       <1>12, <1>13, <1>14, <1>15, <1>16, <1>17, <1>18, <1>19
       DEF Next, GcStep, Message, ObssStep

-----------------------------------------------------------------------------
(* What the message loop holds, the slots and the groups. *)

LEMMA HandlerNext == IInv /\ [Next]_vars => HandlerOK'
  <1> SUFFICES ASSUME IInv, [Next]_vars PROVE HandlerOK'
    OBVIOUS
  <1>i. HandlerOK /\ TypeOK /\ OneHome
    BY DEF IInv
  <1>idle. ASSUME gc' = "idle", todo' = {} PROVE HandlerOK'
    BY <1>idle DEF HandlerOK
  <1>same. ASSUME UNCHANGED <<gc, sp, found, todo, key, proto>>,
                  gc \in {"find", "couple"} /\ sp # None => conn'[sp] = conn[sp]
           PROVE  HandlerOK'
    BY <1>i, <1>same DEF HandlerOK
  <1>1. CASE FindNext
    <2>1. /\ found' \in Obss /\ key'[found'][1] = ConnGid[sp] /\ todo' \subseteq todo
      BY <1>1, FindNextStep
    <2>2. /\ gc = "find" /\ gc' = "couple" /\ sp' = sp /\ conn' = conn
      BY <1>1 DEF FindNext, connVars
    <2> QED
      BY <1>i, <2>1, <2>2 DEF HandlerOK
  <1>2. CASE Couple
    <2>1. CASE todo = {}
      BY <1>2, <2>1, <1>idle DEF Couple, NextUnit
    <2>2. CASE todo # {}
      <3>1. /\ gc = "couple" /\ sp # None /\ Kind[sp] = "mount" /\ conn[sp] = "pool"
            /\ todo \subseteq Units
        BY <1>i, <1>2, <2>2 DEF HandlerOK, Couple
      <3>2. conn' = conn /\ gc' = "find" /\ sp' = sp /\ todo' = todo
        BY <1>2, <2>2, <3>1 DEF Couple, CoupleGwac, NextUnit
      <3> QED
        BY <3>1, <3>2 DEF HandlerOK
    <2> QED
      BY <2>1, <2>2
  <1>3. CASE NotifyPlan
    <2>1. gc = "notify" /\ todo \subseteq Obss /\ proto # None /\ proto' = proto
      BY <1>i, <1>3 DEF NotifyPlan, HandlerOK
    <2>2. /\ todo' \subseteq todo
          /\ gc' = "notify" \/ (gc' = "end" /\ found' \in todo)
      BY <1>3 DEF NotifyPlan
    <2> QED
      BY <2>1, <2>2 DEF HandlerOK
  <1>15. CASE StorePlan
    BY <1>i, <1>15 DEF StorePlan, HandlerOK
  <1>16. CASE Abort
    BY <1>i, <1>16 DEF Abort, HandlerOK
  <1>17. ASSUME NEW c \in Conns, WordFocus(c) PROVE HandlerOK'
    BY <1>17, <1>same DEF WordFocus, obssVars, connVars, gcVars
  <1>18. ASSUME NEW i \in Obss, ClientAbort(i) PROVE HandlerOK'
    BY <1>i, <1>18 DEF ClientAbort, HandlerOK
  <1>19. CASE Restart
    BY <1>19, <1>idle DEF Restart
  <1>4. CASE Notified
    BY <1>4, <1>idle DEF Notified
  <1>5. ASSUME NEW c \in Conns, Connect(c) PROVE HandlerOK'
    <2>1. conn[c] = "new" /\ conn' = [conn EXCEPT ![c] = "pool"]
          /\ UNCHANGED <<gc, sp, found, todo, key, proto>>
      BY <1>5 DEF Connect, gcVars, obssVars
    <2>2. \A d \in Conns : d # c => conn'[d] = conn[d]
      BY <1>i, <2>1 DEF TypeOK
    <2>3. gc \in {"find", "couple"} /\ sp # None => sp # c /\ sp \in Conns
      BY <1>i, <2>1 DEF HandlerOK, TypeOK
    <2> QED
      BY <2>1, <2>2, <2>3, <1>same
  <1>6. ASSUME NEW c \in Conns, PeerCloses(c) PROVE HandlerOK'
    BY <1>6, <1>same DEF PeerCloses, obssVars, gcVars
  <1>7. ASSUME NEW c \in Conns, GcClose(c) PROVE HandlerOK'
    BY <1>7, <1>same DEF GcClose, gcVars
  <1>8. ASSUME NEW c \in Conns, NEW n \in 0 .. StatusLen, MountStatus(c, n)
        PROVE  HandlerOK'
    <2>1. StatusUnits(ConnGid[c], n) \subseteq Units /\ c # None
      BY UnitsOfStatus, Constants
    <2> QED
      BY <1>8, <2>1 DEF MountStatus, connVars, HandlerOK
  <1>9. ASSUME NEW c \in Conns, NEW u \in Units, MountPosition(c, u) PROVE HandlerOK'
    BY <1>i, <1>9, PositionStep DEF MountPosition, HandlerOK
  <1>10. ASSUME NEW c \in Conns, NEW gid \in Gids \cup {""},
                NEW u \in Units \cup {AnyUnit}, UnitReport(c, gid, u)
         PROVE  HandlerOK'
    <2>1. gc = "idle" /\ todo' = todo /\ conn[c] = "pool" /\ conn' = conn
      BY <1>10 DEF UnitReport, connVars
    <2>2. CASE found' = NoObss
      BY <1>i, <1>10, <2>1, <2>2, <1>idle DEF UnitReport, HandlerOK
    <2>3. CASE found' # NoObss
      BY <1>i, <1>10, <2>1, <2>3, ReportStep DEF UnitReport, HandlerOK
    <2> QED
      BY <2>2, <2>3
  <1>11. ASSUME NEW p \in Plans, NEW gid, NEW u, ClientPlan(p, gid, u) PROVE HandlerOK'
    BY <1>i, <1>11, Constants DEF ClientPlan, HandlerOK, Matching, TypeOK
  <1>12. ASSUME NEW i \in Obss, \/ Age(i) \/ Dump(i) \/ TestPlan(i)
                                \/ RunPlan(i) \/ TestEnd(i) \/ EndPlan(i)
         PROVE  HandlerOK'
    BY <1>12, <1>same DEF Age, Dump, TestPlan, RunPlan, TestEnd, EndPlan, obssVars,
       connVars, gcVars
  <1>13. ASSUME NEW i \in Obss, OsClose(i) PROVE HandlerOK'
    <2> DEFINE d == held[i].camera
    <2>a. held \in [Obss -> [{"mount", "focus", "camera"} -> Conns \cup {None}]]
      BY <1>i DEF TypeOK
    <2>b. /\ i \in obssVec /\ d # None
          /\ conn' = [conn EXCEPT ![d] = "gone"]
          /\ UNCHANGED <<gc, sp, found, todo, key, proto>>
      BY ONLY <1>13 DEF OsClose, gcVars
    <2>1. d # None /\ d \in Conns /\ i \in obssVec
          /\ conn' = [conn EXCEPT ![d] = "gone"]
          /\ UNCHANGED <<gc, sp, found, todo, key, proto>>
      BY <2>a, <2>b
    <2>2. Slot(d) = "camera"
      BY <2>1 DEF IInv, SlotsOK
    <2>3. conn[d] = "given"
      BY <1>i, <2>1, <2>2, Slots DEF OneHome, Holders, HandedOver
    <2>4. gc \in {"find", "couple"} /\ sp # None => sp # d /\ sp \in Conns
      BY <1>i, <2>3 DEF HandlerOK, TypeOK
    <2> QED
      BY <1>i, <2>1, <2>4, <1>same DEF TypeOK
  <1>14. CASE UNCHANGED vars
    BY <1>14, <1>same DEF vars, obssVars, connVars, gcVars
  <1> QED
    BY <1>1, <1>2, <1>3, <1>4, <1>5, <1>6, <1>7, <1>8, <1>9, <1>10, <1>11,
       <1>12, <1>13, <1>14, <1>15, <1>16, <1>17, <1>18, <1>19
       DEF Next, GcStep, Message, ObssStep

-----------------------------------------------------------------------------
(* Where connections are held: every step has one of these effects. *)

Keeps == UNCHANGED <<obssVec, key, held>>

HeldOK == OneHome /\ SlotsOK /\ GroupsOK

(* Only connections in the pool, or on their way to it, change by themselves. *)
LEMMA KeepsHeld ==
    ASSUME IInv, Keeps,
           \/ UNCHANGED conn
           \/ \E c \in Conns : conn[c] = "new" /\ conn' = [conn EXCEPT ![c] = "pool"]
           \/ \E c \in Conns : /\ conn[c] = "pool" /\ HandedOver(c)
                               /\ conn' = [conn EXCEPT ![c] = "gone"]
    PROVE  HeldOK'
  <1>1. SlotsOK' /\ GroupsOK'
    BY DEF IInv, Keeps, SlotsOK, GroupsOK, Slot
  <1>2. \A c \in Conns : Holders(c)' = Holders(c)
    BY DEF Keeps, Holders, Slot
  <1>3. OneHome
    BY DEF IInv
  <1>4. conn \in [Conns -> {"new", "pool", "given", "gone"}]
    BY DEF IInv, TypeOK
  <1>5. ASSUME NEW c \in Conns
        PROVE  /\ HandedOver(c) => (conn'[c] = "given" <=> conn[c] = "given")
               /\ ~HandedOver(c) /\ conn[c] = "pool" => conn'[c] = "pool"
    BY <1>4
  <1>6. OneHome'
    BY ONLY <1>2, <1>3, <1>5 DEF OneHome, HandedOver
  <1> QED
    BY <1>1, <1>6 DEF HeldOK

(* A system that is created holds nothing. *)
LEMMA FoundHeld == ASSUME IInv, Found, UNCHANGED conn PROVE HeldOK'
  <1>0. /\ OneHome /\ SlotsOK /\ GroupsOK /\ obssVec \subseteq Obss
        /\ DOMAIN held = Obss /\ DOMAIN key = Obss
    BY DEF IInv, TypeOK
  <1>1. CASE UNCHANGED obssVars
    BY <1>1, KeepsHeld DEF Keeps, obssVars
  <1>2. ASSUME found' \in Obss \ obssVec, obssVec' = obssVec \cup {found'},
               NEW k, key' = [key EXCEPT ![found'] = k],
               held' = [held EXCEPT ![found'] = Nothing]
        PROVE  HeldOK'
    <2>1. held'[found'] = Nothing
      BY <1>0, <1>2
    <2>2. \A i \in Obss : i # found' => held'[i] = held[i] /\ key'[i] = key[i]
      BY <1>0, <1>2
    <2>3. \A s \in {"mount", "focus", "camera"} : held'[found'][s] = None
      BY <2>1, NothingHeld
    <2>4. SlotsOK'
      BY <1>0, <2>2, <2>3 DEF SlotsOK, Slot
    <2>5. GroupsOK'
      BY <1>0, <1>2, <2>2, <2>3 DEF GroupsOK
    <2>6. ASSUME NEW c \in Conns PROVE Holders(c)' = Holders(c)
      <3>1. held'[found'][Slot(c)] # c
        BY <2>3, Slots, Constants
      <3> QED
        BY <1>0, <1>2, <2>2, <3>1 DEF Holders, Slot
    <2>7. OneHome'
      BY <1>0, <2>6 DEF OneHome, HandedOver
    <2> QED
      BY <2>4, <2>5, <2>7 DEF HeldOK
  <1> QED
    BY <1>1, <1>2 DEF Found

(* A coupling: the slot is that of the connection's kind; a mount that takes
   the place of another does so in its own group, where no GFT mount is. *)
LEMMA HoldHeld ==
    ASSUME IInv, NEW c \in Conns, NEW i \in obssVec, Hold(i, c),
           UNCHANGED <<obssVec, key>>, conn[c] = "pool",
           Kind[c] # "camera" => key[i][1] = ConnGid[c],
           \/ ~HandedOver(c) /\ UNCHANGED conn
           \/ /\ HandedOver(c) /\ held[i][Slot(c)] = None
              /\ conn' = [conn EXCEPT ![c] = "given"]
    PROVE  HeldOK'
  <1> DEFINE x == held[i][Slot(c)]
  <1>0. /\ OneHome /\ SlotsOK /\ GroupsOK /\ obssVec \subseteq Obss /\ i \in Obss
        /\ held \in [Obss -> [{"mount", "focus", "camera"} -> Conns \cup {None}]]
        /\ conn \in [Conns -> {"new", "pool", "given", "gone"}]
    BY DEF IInv, TypeOK
  <1>s. Slot(c) \in {"mount", "focus", "camera"}
    BY Slots
  <1>1. \A j \in Obss, t \in {"mount", "focus", "camera"} :
           held'[j][t] = IF j = i /\ t = Slot(c) THEN c ELSE held[j][t]
    BY <1>0, <1>s DEF Hold
  <1>2. SlotsOK'
    BY <1>0, <1>1 DEF SlotsOK, Slot
  <1>3. GroupsOK'
    <2> SUFFICES ASSUME NEW j \in obssVec, held'[j].mount # None
                 PROVE  ConnGid[held'[j].mount] = key[j][1]
      BY DEF GroupsOK
    <2>1. CASE j = i /\ Slot(c) = "mount"
      BY <1>0, <1>1, <2>1, Slots
    <2>2. CASE ~(j = i /\ Slot(c) = "mount")
      BY <1>0, <1>1, <2>2 DEF GroupsOK
    <2> QED
      BY <2>1, <2>2
  <1>4. ASSUME NEW d \in Conns PROVE Slot(d)' = Slot(d) /\ HandedOver(d)' = HandedOver(d)
    BY DEF Slot, HandedOver
  <1>5. ASSUME NEW d \in Conns, d # c, d # x PROVE Holders(d)' = Holders(d)
    BY <1>0, <1>1, <1>4, <1>5, Slots DEF Holders
  <1>6. x # None /\ x # c => ~HandedOver(x) /\ x \in Conns
    <2> SUFFICES ASSUME x # None, x # c, HandedOver(x) PROVE FALSE
      BY <1>0, <1>s
    <2>1. x \in Conns /\ Slot(x) = Slot(c) /\ ~HandedOver(c)
      BY <1>0, <1>s DEF SlotsOK
    <2>2. Kind[x] = "gftmount" /\ Kind[c] = "mount" /\ Slot(c) = "mount"
      BY <2>1, Slots, Constants DEF HandedOver
    <2>3. ConnGid[x] = key[i][1]
      BY <1>0, <2>2 DEF GroupsOK
    <2> QED
      BY <2>1, <2>2, <2>3, OneType
  <1>7. ASSUME NEW d \in Conns, d = x, d # c
        PROVE  ~HandedOver(d) /\ Holders(d)' \subseteq Holders(d)
    <2>1. d # None
      BY Constants
    <2> QED
      BY <1>0, <1>1, <1>4, <1>6, <1>7, <2>1, Slots DEF Holders
  <1>8. CASE ~HandedOver(c)
    <2>1. UNCHANGED conn
      BY <1>8
    <2>2. ASSUME NEW d \in Conns PROVE
             IF HandedOver(d)
               THEN /\ conn[d] = "given" <=> Holders(d)' # {}
                    /\ \A k, l \in Holders(d)' : k = l
               ELSE Holders(d)' # {} => conn[d] = "pool"
      BY <1>0, <1>5, <1>7, <1>8 DEF OneHome
    <2> QED
      BY <1>2, <1>3, <1>4, <2>1, <2>2 DEF HeldOK, OneHome
  <1>9. CASE HandedOver(c)
    <2>1. conn' = [conn EXCEPT ![c] = "given"] /\ x = None
      BY <1>9
    <2>2. Holders(c) = {}
      BY <1>0, <1>9 DEF OneHome
    <2>3. Holders(c)' = {i}
      <3>1. \A j \in obssVec : held[j][Slot(c)] # c
        BY <2>2 DEF Holders
      <3>2. \A j \in obssVec : held'[j][Slot(c)] = c <=> j = i
        BY <1>0, <1>1, <1>s, <3>1
      <3> QED
        BY <1>4, <3>2 DEF Holders
    <2>4. ASSUME NEW d \in Conns, d # c
          PROVE  Holders(d)' = Holders(d) /\ conn'[d] = conn[d]
      BY <1>0, <1>5, <2>1, <2>4, Constants
    <2>5. conn'[c] = "given"
      BY <1>0, <2>1
    <2>6. ASSUME NEW d \in Conns PROVE
             IF HandedOver(d)
               THEN /\ conn'[d] = "given" <=> Holders(d)' # {}
                    /\ \A k, l \in Holders(d)' : k = l
               ELSE Holders(d)' # {} => conn'[d] = "pool"
      <3>1. CASE d = c
        BY <1>9, <2>3, <2>5, <3>1
      <3>2. CASE d # c
        BY ONLY <1>0, <2>4, <3>2 DEF OneHome
      <3> QED
        BY <3>1, <3>2
    <2> QED
      BY <1>2, <1>3, <1>4, <2>6 DEF HeldOK, OneHome
  <1> QED
    BY <1>8, <1>9

(* Slots that are cleared: what is not handed over loses any holder, what is
   handed over leaves the only one it has. *)
LEMMA ClearHeld ==
    ASSUME IInv, NEW c \in Conns, NEW T \in SUBSET Obss,
           UNCHANGED <<obssVec, key>>, conn' = [conn EXCEPT ![c] = "gone"],
           \A i \in Obss, s \in {"mount", "focus", "camera"} :
             held'[i][s] = IF i \in T /\ s = Slot(c) THEN None ELSE held[i][s],
           \A i \in T : held[i][Slot(c)] = c,
           Holders(c) \subseteq T
    PROVE  HeldOK'
  <1>0. /\ OneHome /\ SlotsOK /\ GroupsOK /\ obssVec \subseteq Obss
        /\ conn \in [Conns -> {"new", "pool", "given", "gone"}]
    BY DEF IInv, TypeOK
  <1>1. SlotsOK'
    BY <1>0 DEF SlotsOK, Slot
  <1>2. GroupsOK'
    BY <1>0 DEF GroupsOK
  <1>4. ASSUME NEW d \in Conns PROVE Slot(d)' = Slot(d) /\ HandedOver(d)' = HandedOver(d)
    BY DEF Slot, HandedOver
  <1>5. ASSUME NEW d \in Conns, d # c
        PROVE  Holders(d)' = Holders(d) /\ conn'[d] = conn[d]
    <2>1. Slot(d) \in {"mount", "focus", "camera"} /\ d # None
      BY Slots, Constants
    <2>2. \A i \in obssVec : held'[i][Slot(d)] = d <=> held[i][Slot(d)] = d
      BY <1>0, <1>5, <2>1
    <2>3. Holders(d)' = Holders(d)
      BY <1>4, <2>2 DEF Holders
    <2>4. conn'[d] = conn[d]
      BY <1>0, <1>5
    <2> QED
      BY <2>3, <2>4
  <1>6. Holders(c)' = {} /\ conn'[c] = "gone"
    <2>1. Slot(c) \in {"mount", "focus", "camera"} /\ c # None
      BY Slots, Constants
    <2>2. \A i \in obssVec : held'[i][Slot(c)] # c
      BY <1>0, <2>1 DEF Holders
    <2> QED
      BY <1>0, <1>4, <2>2 DEF Holders
  <1>7. ASSUME NEW d \in Conns PROVE
           IF HandedOver(d)
             THEN /\ conn'[d] = "given" <=> Holders(d)' # {}
                  /\ \A k, l \in Holders(d)' : k = l
             ELSE Holders(d)' # {} => conn'[d] = "pool"
    <2>1. CASE d = c
      BY <1>6, <2>1
    <2>2. CASE d # c
      BY ONLY <1>0, <1>5, <2>2 DEF OneHome
    <2> QED
      BY <2>1, <2>2
  <1> QED
    BY <1>1, <1>2, <1>4, <1>7 DEF HeldOK, OneHome

LEMMA GcCloseHeld == ASSUME IInv, NEW c \in Conns, GcClose(c) PROVE HeldOK'
  <1>1. /\ UNCHANGED <<obssVec, key>> /\ conn' = [conn EXCEPT ![c] = "gone"]
        /\ held' = [i \in Obss |-> IF i \in Decoupled(c)
                                   THEN [held[i] EXCEPT ![Slot(c)] = None] ELSE held[i]]
    BY DEF GcClose
  <1>2. /\ obssVec \subseteq Obss
        /\ held \in [Obss -> [{"mount", "focus", "camera"} -> Conns \cup {None}]]
    BY DEF IInv, TypeOK
  <1>3. /\ Decoupled(c) \in SUBSET Obss /\ Holders(c) \subseteq Decoupled(c)
        /\ \A i \in Decoupled(c) : held[i][Slot(c)] = c
    BY <1>2 DEF Decoupled, Holders
  <1>4. \A i \in Obss, s \in {"mount", "focus", "camera"} :
           held'[i][s] = IF i \in Decoupled(c) /\ s = Slot(c) THEN None ELSE held[i][s]
    BY <1>1, <1>2
  <1> QED
    BY <1>1, <1>3, <1>4, ClearHeld

LEMMA OsCloseHeld == ASSUME IInv, NEW i \in Obss, OsClose(i) PROVE HeldOK'
  <1> DEFINE c == held[i].camera
  <1>1. /\ UNCHANGED <<obssVec, key>> /\ conn' = [conn EXCEPT ![c] = "gone"]
        /\ held' = [held EXCEPT ![i].camera = None]
        /\ i \in obssVec /\ c # None
    BY DEF OsClose
  <1>2. /\ OneHome /\ SlotsOK
        /\ held \in [Obss -> [{"mount", "focus", "camera"} -> Conns \cup {None}]]
    BY DEF IInv, TypeOK
  <1>3. c \in Conns /\ Slot(c) = "camera"
    BY <1>1, <1>2 DEF SlotsOK
  <1>4. Holders(c) \subseteq {i}
    <2>1. i \in Holders(c)
      BY <1>1, <1>3 DEF Holders
    <2>2. HandedOver(c)
      BY <1>3, Slots DEF HandedOver
    <2> QED
      BY <1>2, <1>3, <2>1, <2>2 DEF OneHome
  <1>5. \A j \in Obss, s \in {"mount", "focus", "camera"} :
           held'[j][s] = IF j \in {i} /\ s = Slot(c) THEN None ELSE held[j][s]
    BY <1>1, <1>2, <1>3
  <1>6. \A j \in {i} : held[j][Slot(c)] = c
    BY <1>3
  <1> HIDE DEF c
  <1> QED
    BY <1>1, <1>3, <1>4, <1>5, <1>6, ClearHeld

(* Only a system without devices is dumped. *)
LEMMA DumpHeld == ASSUME IInv, NEW i \in Obss, Dump(i) PROVE HeldOK'
  <1>1. /\ obssVec' = obssVec \ {i} /\ UNCHANGED <<key, held, conn>>
        /\ held[i] = Nothing
    BY DEF Dump, LastClosed, connVars
  <1>2. OneHome /\ SlotsOK /\ GroupsOK
    BY DEF IInv
  <1>3. SlotsOK' /\ GroupsOK'
    BY <1>1, <1>2 DEF SlotsOK, GroupsOK, Slot
  <1>4. ASSUME NEW c \in Conns PROVE Holders(c)' = Holders(c)
    <2>1. held[i][Slot(c)] # c
      BY <1>1, NothingHeld, Slots, Constants
    <2> QED
      BY <1>1, <2>1 DEF Holders, Slot
  <1>5. OneHome'
    BY <1>1, <1>2, <1>4 DEF OneHome, HandedOver
  <1> QED
    BY <1>3, <1>5 DEF HeldOK

LEMMA CoupleHeld == ASSUME IInv, Couple PROVE HeldOK'
  <1>1. /\ gc = "couple" /\ UNCHANGED <<obssVec, key>>
    BY DEF Couple
  <1>2. sp # None => /\ sp \in Conns /\ conn[sp] = "pool" /\ found \in Obss
                     /\ Kind[sp] # "camera" => key[found][1] = ConnGid[sp]
    BY <1>1 DEF IInv, HandlerOK, TypeOK
  <1>3. CASE UNCHANGED <<held, conn>>
    BY <1>1, <1>3, KeepsHeld DEF Keeps
  <1>4. CASE sp # None /\ Kind[sp] \in {"mount", "focus"} /\ CoupleGwac(found, sp)
    <2>1. CASE found \in obssVec
      <3>1. Hold(found, sp) /\ UNCHANGED conn /\ ~HandedOver(sp)
        BY <1>4, <2>1 DEF CoupleGwac, HandedOver
      <3> QED
        BY <1>1, <1>2, <1>4, <2>1, <3>1, HoldHeld
    <2>2. CASE found \notin obssVec
      BY <1>3, <1>4, <2>2 DEF CoupleGwac
    <2> QED
      BY <2>1, <2>2
  <1>5. CASE sp # None /\ Kind[sp] \in {"gftmount", "camera"} /\ CoupleGiven(found, sp)
    <2>0. HandedOver(sp)
      BY <1>5 DEF HandedOver
    <2>1. CASE found \in obssVec /\ held[found][Slot(sp)] = None /\ Hold(found, sp)
               /\ conn' = [conn EXCEPT ![sp] = "given"]
      BY <1>1, <1>2, <1>5, <2>0, <2>1, HoldHeld
    <2>2. CASE UNCHANGED held /\ conn' = [conn EXCEPT ![sp] = "gone"]
      BY <1>1, <1>2, <1>5, <2>0, <2>2, KeepsHeld DEF Keeps
    <2> QED
      BY <1>5, <2>1, <2>2 DEF CoupleGiven
  <1> QED
    BY <1>3, <1>4, <1>5 DEF Couple, connVars

(* After a restart nothing is held, and nothing given. *)
LEMMA RestartHeld == ASSUME IInv, Restart PROVE HeldOK'
  <1>1. obssVec' = {} /\ held' = [i \in Obss |-> Nothing]
    BY DEF Restart
  <1>2. \A c \in Conns : Holders(c)' = {} /\ conn'[c] # "given"
    BY <1>1 DEF Restart, Holders
  <1>3. OneHome' /\ GroupsOK'
    BY <1>1, <1>2 DEF OneHome, GroupsOK
  <1>4. SlotsOK'
    BY <1>1, NothingHeld DEF SlotsOK
  <1> QED
    BY <1>3, <1>4 DEF HeldOK

LEMMA HeldNext == IInv /\ [Next]_vars => HeldOK'
  <1> SUFFICES ASSUME IInv, [Next]_vars PROVE HeldOK'
    OBVIOUS
  <1>k. ASSUME Keeps, UNCHANGED conn PROVE HeldOK'
    BY <1>k, KeepsHeld
  <1>1. CASE FindNext
    BY <1>1, FindNextStep, FoundHeld DEF FindNext, connVars
  <1>2. CASE Couple
    BY <1>2, CoupleHeld
  <1>3. CASE NotifyPlan \/ StorePlan \/ Abort \/ Notified
    BY <1>3, <1>k DEF NotifyPlan, StorePlan, Abort, Notified, obssVars, connVars, Keeps
  <1>5. ASSUME NEW c \in Conns, Connect(c) PROVE HeldOK'
    BY <1>5, KeepsHeld DEF Connect, obssVars, Keeps
  <1>6. ASSUME NEW c \in Conns, PeerCloses(c) \/ WordFocus(c) PROVE HeldOK'
    BY <1>6, <1>k DEF PeerCloses, WordFocus, obssVars, connVars, Keeps
  <1>7. ASSUME NEW c \in Conns, GcClose(c) PROVE HeldOK'
    BY <1>7, GcCloseHeld
  <1>8. ASSUME NEW c \in Conns, NEW n, MountStatus(c, n) PROVE HeldOK'
    BY <1>8, <1>k DEF MountStatus, obssVars, connVars, Keeps
  <1>9. ASSUME NEW c \in Conns, NEW u \in Units, MountPosition(c, u) PROVE HeldOK'
    BY <1>9, PositionStep, FoundHeld DEF MountPosition, connVars
  <1>10. ASSUME NEW c \in Conns, NEW gid \in Gids \cup {""},
                NEW u \in Units \cup {AnyUnit}, UnitReport(c, gid, u)
         PROVE  HeldOK'
    BY <1>10, ReportStep, FoundHeld DEF UnitReport, connVars
  <1>11. ASSUME NEW p \in Plans, NEW gid, NEW u, ClientPlan(p, gid, u) PROVE HeldOK'
    BY <1>11, <1>k DEF ClientPlan, obssVars, connVars, Keeps
  <1>12. ASSUME NEW i \in Obss, \/ Age(i) \/ ClientAbort(i) \/ TestPlan(i)
                                \/ RunPlan(i) \/ TestEnd(i) \/ EndPlan(i)
         PROVE  HeldOK'
    BY <1>12, <1>k DEF Age, ClientAbort, TestPlan, RunPlan, TestEnd, EndPlan, obssVars,
       connVars, Keeps
  <1>13. ASSUME NEW i \in Obss, Dump(i) PROVE HeldOK'
    BY <1>13, DumpHeld
  <1>14. ASSUME NEW i \in Obss, OsClose(i) PROVE HeldOK'
    BY <1>14, OsCloseHeld
  <1>15. CASE UNCHANGED vars
    BY <1>15, <1>k DEF vars, obssVars, connVars, Keeps
  <1>16. CASE Restart
    BY <1>16, RestartHeld
  <1> QED
    BY <1>1, <1>2, <1>3, <1>5, <1>6, <1>7, <1>8, <1>9, <1>10, <1>11,
       <1>12, <1>13, <1>14, <1>15, <1>16 DEF Next, GcStep, Message, ObssStep

-----------------------------------------------------------------------------
(* The theorems. *)

LEMMA Inductive == Spec => []IInv
  <1>1. Init => IInv
    BY InitIInv
  <1>2. IInv /\ [Next]_vars => IInv'
    BY TypeNext, PlansNext, HandlerNext, HeldNext DEF IInv, HeldOK, PlansOK
  <1> QED
    BY <1>1, <1>2, PTL DEF Spec

(* Every variable keeps its type whatever devices connect, close and report,
   and whatever cycle_dump_obss erases meanwhile. *)
THEOREM RegistryTypeCorrect == Spec => []TypeOK
  <1>1. IInv => TypeOK
    BY DEF IInv
  <1> QED
    BY <1>1, Inductive, PTL

(* However many systems, groups, units and devices there are: what a system
   was handed over it alone holds and is registered while it does, and no
   system keeps a connection whose close GeneralControl has handled, though
   devices are coupled after mtxObss_ has been released. *)
THEOREM OneHomeCorrect == Spec => []OneHome
  <1>1. IInv => OneHome
    BY DEF IInv
  <1> QED
    BY <1>1, Inductive, PTL

(* However many systems share a plan, and whatever the other threads do between
   plan_.unique() and the start: as long as a system holds the plan that
   thread_obsplan asked about, it is the only one that holds it. *)
THEOREM SoleRunnerCorrect == Spec => []SoleRunner
  <1>1. IInv => SoleRunner
    BY DEF IInv, TestedOK, Sole, SoleRunner
  <1> QED
    BY <1>1, Inductive, PTL
=============================================================================
