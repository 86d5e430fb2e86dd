----------------------------- MODULE KVProtocols -----------------------------
(***************************************************************************)
(* The key-value protocols of clients, GFT mounts and cameras:             *)
(* KVProtocol::Resolve turns a line into the structure of its type, and    *)
(* ToString turns the structure into a line again.  A plan, a slew or a    *)
(* report goes through both on its way from a client to a device or back,  *)
(* and the other end reads it with the same code.  One line is followed    *)
(* through that chain.                                                     *)
(*                                                                         *)
(* Values are strings.  On a line: numbers ("0", "1", "2", "2000", ...),   *)
(* "fine", a number with more digits than operator<< prints, "coarse",     *)
(* what is printed of it, "least", such a number just above DBL_MIN,       *)
(* "subnormal", what is printed of that, "word", which is no number, and   *)
(* "", which also stands for a pair that does not split in two.  In a      *)
(* member also: "precise" and "tiny", the doubles read from "fine" and     *)
(* "least", and "undef", a number that was never assigned; on a line what  *)
(* is printed of it.                                                       *)
(***************************************************************************)
EXTENDS Naturals, Sequences, Functions

CONSTANTS
    Lines,     \* lines that clients and devices write
    MaxHops    \* how often the line is read

(* No line, no message *)
Null == [type |-> "none"]

(* A string without characters *)
Empty == ""

(* What only a member can be *)
MemberValues == {"precise", "tiny", "undef"}

ASSUME KVOK ==
    /\ Lines \subseteq
         [type : STRING, kvs : Seq(STRING \X (STRING \ MemberValues))]
    /\ MaxHops \in Nat

(* Members of the base class KVBase *)
BaseKeys == {"utc", "gid", "uid", "cid"}

(* The member a keyword is read into: all but these have its name. *)
MemberOf(key) == CASE key = "ecoch"    -> "epoch"
                   [] key = "coor_sys" -> "coorsys"
                   [] OTHER            -> key

(* What is not a number: any word, and the names a plan is given by default *)
Words == {"word", "BIAS", "DARK", "FLAT", "FOCUS", "OBJECT",
          "bias", "dark", "flat", "focs", "objt"}

(* std::stoi and std::stod on what they accept *)
stoi(v) == IF v \in {"fine", "coarse", "least", "subnormal"} THEN "whole" ELSE v
stod(v) == CASE v = "fine"  -> "precise"
             [] v = "least" -> "tiny"
             [] OTHER       -> v

(* join_kv: operator<< prints six digits of a double. *)
join_kv(key, v) == <<key, CASE v = "precise" -> "coarse"
                            [] v = "tiny"    -> "subnormal"
                            [] OTHER         -> v>>

(* Members that are printed only when they are not empty. *)
IfAny(f, key) == IF f[key] = Empty THEN <<>> ELSE <<key>>

-----------------------------------------------------------------------------
(* The structures: members of a new one, and the keywords ToString prints. *)

KVAppPlan == [plan_sn |-> Empty, objid |-> Empty, obstype |-> Empty,
    coorsys |-> "0", ra |-> "0", dec |-> "0", epoch |-> "2000",
    azi |-> "0", ele |-> "0", tle1 |-> Empty, tle2 |-> Empty,
    imgtype |-> Empty, filter |-> Empty, exptime |-> "0", delay |-> "0",
    frmcnt |-> "1", loopcnt |-> "1", priority |-> "0",
    plan_beg |-> Empty, plan_end |-> Empty]

(* mutant of PrintAppPlan: the epoch in every system *)
PrintAppPlanEpoch(f) == <<"coor_sys", "epoch">>
    \o (IF f.coorsys = "0" THEN <<"ra", "dec">> ELSE <<"azi", "ele">>)

PrintAppPlan(f) ==
    IfAny(f, "plan_sn") \o IfAny(f, "objid") \o IfAny(f, "obstype")
    \o <<"coor_sys">>
    \o (CASE f.coorsys = "0" -> <<"ra", "dec", "epoch">>
          [] f.coorsys = "1" -> <<"azi", "ele">>
          [] OTHER           -> <<"tle1", "tle2">>)
    \o <<"imgtype">> \o IfAny(f, "filter")
    \o <<"exptime", "delay", "frmcnt", "loopcnt", "priority">>
    \o IfAny(f, "plan_beg") \o IfAny(f, "plan_end")

KVCheckPlan == [plan_sn |-> Empty]
PrintCheckPlan(f) == IfAny(f, "plan_sn")

KVRemovePlan == [plan_sn |-> Empty]
PrintRemovePlan(f) == IfAny(f, "plan_sn")

KVPlan == [plan_sn |-> Empty, tm_start |-> Empty, tm_stop |-> Empty,
    state |-> "undef"]
PrintPlan(f) ==
    IfAny(f, "plan_sn") \o IfAny(f, "tm_start") \o IfAny(f, "tm_stop")
    \o <<"state">>

(* Commands that have no members of their own. *)
NoMembers     == [none |-> Empty]
KVAbort       == NoMembers
KVPark        == NoMembers
KVHome        == NoMembers
KVTrack       == NoMembers
KVFocusSync   == NoMembers
PrintBase(f)  == <<>>

KVOBSS == [state |-> "undef", mount |-> "undef", camera |-> "undef"]
PrintOBSS(f) == <<"state", "mount", "camera">>

COORSYS_ALTAZ == "0"
COORSYS_EQUA  == "1"

KVSlewto == [coorsys |-> "0", ra |-> "undef", dec |-> "undef",
    epoch |-> "undef", azi |-> "undef", ele |-> "undef",
    tle1 |-> Empty, tle2 |-> Empty]
PrintSlewto(f) == <<"coorsys">>
    \o (CASE f.coorsys = COORSYS_EQUA  -> <<"ra", "dec", "epoch">>
          [] f.coorsys = COORSYS_ALTAZ -> <<"azi", "ele">>
          [] OTHER                     -> <<"tle1", "tle2">>)

KVGuide == [result |-> "0", op |-> "0", ra |-> "0", dec |-> "0"]
PrintGuide(f) == <<"result", "op">>
    \o (IF f.ra # "0" \/ f.dec # "0" THEN <<"ra", "dec">> ELSE <<>>)

KVSync == [ra |-> "undef", dec |-> "undef", epoch |-> "undef"]
PrintSync(f) == <<"ra", "dec", "epoch">>

KVTrackVel == [ra |-> "undef", dec |-> "undef"]
PrintTrackVel(f) == <<"ra", "dec">>

KVMount == [state |-> "0", errcode |-> "1", mjd |-> "-1", lst |-> "-1",
    ra |-> "1000", dec |-> "1000", ra2k |-> "1000", dec2k |-> "1000",
    azi |-> "1000", ele |-> "1000"]
PrintMount(f) ==
    <<"state", "errcode", "mjd", "lst", "ra", "dec", "ra2k", "dec2k",
      "azi", "ele">>

KVExpose == [command |-> "undef", frmno |-> "0", loopno |-> "1"]
PrintExpose(f) == <<"command", "frmno", "loopno">>

KVCamSet == [optype |-> "-1", bitDepth |-> "undef", iADC |-> "undef",
    iReadPort |-> "undef", iReadRate |-> "undef", iVSRate |-> "undef",
    iGain |-> "undef", coolSet |-> "undef", bitPixel |-> "undef", ADC |-> Empty,
    readPort |-> Empty, readRate |-> Empty, vsRate |-> "undef",
    gain |-> "undef"]
(* mutant of PrintCamSet: the operation is not printed *)
PrintCamSetBare(f) ==
    IF f.optype = "0" THEN <<>> ELSE <<"bitPixel", "ADC", "readPort",
            "readRate", "vsRate", "gain">>

PrintCamSet(f) == <<"optype">>
    \o (IF f.optype # "2" THEN <<>> ELSE <<"bitDepth", "iADC", "iReadPort",
            "iReadRate", "iVSRate", "iGain", "coolSet">>)
    \o (IF f.optype = "0" THEN <<>> ELSE <<"bitPixel", "ADC", "readPort",
            "readRate", "vsRate", "gain">>)

KVCamera == [state |-> "undef", errcode |-> "undef", left |-> "undef",
    percent |-> "undef", coolget |-> "undef", imgtype |-> Empty,
    filter |-> Empty, freedisk |-> "undef", plan_sn |-> Empty,
    loopno |-> "undef", frmno |-> "undef", filename |-> Empty]
(* mutant of PrintCamera: percent is forgotten *)
PrintCameraForgets(f) ==
    <<"state", "errcode", "left", "coolget", "imgtype", "filter",
      "freedisk", "plan_sn", "loopno", "frmno", "filename">>

PrintCamera(f) ==
    <<"state", "errcode", "left", "percent", "coolget", "imgtype", "filter",
      "freedisk", "plan_sn", "loopno", "frmno", "filename">>

KVFocus == [optype |-> "0", state |-> "0", relpos |-> "0", pos |-> "999999",
    posTar |-> "999999"]
PrintFocus(f) == <<"optype">>
    \o (CASE f.optype = "0" -> <<"state", "pos", "posTar">>
          [] f.optype = "1" -> <<"relpos">>
          [] OTHER          -> <<>>)

KVFWHM == [value |-> "undef", tmimg |-> Empty]
PrintFWHM(f) == <<"value", "tmimg">>

KVDerot == [optype |-> "-1", command |-> "-1", state |-> "undef",
    postar |-> "undef", pos |-> "undef"]
PrintDerot(f) == <<"optype">>
    \o (CASE f.optype = "0" -> <<"state", "pos">>
          [] f.optype = "1" -> <<"command", "postar">>
          [] OTHER          -> <<>>)

KVDome == [optype |-> "-1", command |-> "-1", state |-> "undef",
    azi |-> "undef", ele |-> "undef", aziobj |-> "undef", eleobj |-> "undef"]
PrintDome(f) == <<"optype">>
    \o (CASE f.optype = "0" -> <<"state", "azi", "ele">>
          [] f.optype = "1" -> <<"command">>
          [] OTHER          -> <<>>)
    \o <<"aziobj", "eleobj">>

KVMirrCover == [optype |-> "-1", command |-> "-1", state |-> "undef"]
PrintMirrCover(f) == <<"optype">>
    \o (CASE f.optype = "0" -> <<"state">>
          [] f.optype = "1" -> <<"command">>
          [] OTHER          -> <<>>)

KVFilter == [optype |-> "-1", name |-> Empty]
PrintFilter(f) == <<"optype", "name">>

-----------------------------------------------------------------------------
(* The resolvers: what they start from, and the keywords they read as an   *)
(* int, as a double and as text.                                           *)

(* mutant of resolve_append_plan: imgtype is a code *)
resolve_append_plan_coded ==
   [new |-> [KVAppPlan EXCEPT !.coorsys = COORSYS_EQUA],
    ints  |-> {"coor_sys", "frmcnt", "loopcnt", "priority", "imgtype"},
    reals |-> {"ra", "dec", "ecoch", "azi", "ele", "exptime", "delay"},
    texts |-> {"plan_sn", "objid", "obstype", "tle1", "tle2", "filter",
               "plan_beg", "plan_end"}]

resolve_append_plan == [new |-> [KVAppPlan EXCEPT !.coorsys = COORSYS_EQUA],
    ints  |-> {"coor_sys", "frmcnt", "loopcnt", "priority"},
    reals |-> {"ra", "dec", "ecoch", "azi", "ele", "exptime", "delay"},
    texts |-> {"plan_sn", "objid", "obstype", "tle1", "tle2", "imgtype",
               "filter", "plan_beg", "plan_end"}]

resolve_append_gwac == resolve_append_plan
resolve_take_image  == resolve_append_plan

resolve_check_plan ==
    [new |-> KVCheckPlan, ints |-> {}, reals |-> {}, texts |-> {"plan_sn"}]

resolve_remove_plan ==
    [new |-> KVRemovePlan, ints |-> {}, reals |-> {}, texts |-> {"plan_sn"}]

resolve_plan == [new |-> KVPlan, ints |-> {"state"}, reals |-> {},
    texts |-> {"plan_sn", "tm_start", "tm_stop"}]

Nothing(new)       == [new |-> new, ints |-> {}, reals |-> {}, texts |-> {}]
resolve_abort      == Nothing(KVAbort)
resolve_home       == Nothing(KVHome)
resolve_park       == Nothing(KVPark)
resolve_track      == Nothing(KVTrack)
resolve_focus_sync == Nothing(KVFocusSync)

resolve_obss == [new |-> KVOBSS, ints |-> {"state", "mount", "camera"},
    reals |-> {}, texts |-> {}]

resolve_mount == [new |-> KVMount, ints |-> {"state", "errcode"},
    reals |-> {"mjd", "lst", "ra", "dec", "ra2k", "dec2k", "azi", "ele"},
    texts |-> {}]

resolve_camera == [new |-> KVCamera,
    ints  |-> {"state", "errcode", "freedisk", "coolget", "loopno", "frmno"},
    reals |-> {"left", "percent"},
    texts |-> {"imgtype", "filter", "filename", "plan_sn"}]

resolve_sync == [new |-> [KVSync EXCEPT !.epoch = "2000"], ints |-> {},
    reals |-> {"ra", "dec", "ecoch"}, texts |-> {}]

resolve_slewto ==
    [new |-> [KVSlewto EXCEPT !.coorsys = COORSYS_EQUA, !.epoch = "2000"],
     ints |-> {"coor_sys"}, reals |-> {"ra", "dec", "ecoch", "azi", "ele"},
     texts |-> {"tle1", "tle2"}]

resolve_guide == [new |-> KVGuide, ints |-> {"ra", "dec", "result", "op"},
    reals |-> {}, texts |-> {}]

resolve_trackvel ==
    [new |-> KVTrackVel, ints |-> {}, reals |-> {"ra", "dec"}, texts |-> {}]

resolve_expose == [new |-> KVExpose, ints |-> {"command", "frmno", "loopno"},
    reals |-> {}, texts |-> {}]

resolve_camset == [new |-> KVCamSet,
    ints  |-> {"optype", "bitDepth", "iADC", "iReadPort", "iReadRate",
               "iVSRate", "iGain", "coolSet", "bitPixel"},
    reals |-> {"vsRate", "gain"}, texts |-> {"ADC", "readPort", "readRate"}]

resolve_focus == [new |-> KVFocus,
    ints |-> {"optype", "state", "relpos", "pos", "posTar"},
    reals |-> {}, texts |-> {}]

resolve_fwhm ==
    [new |-> KVFWHM, ints |-> {}, reals |-> {"value"}, texts |-> {"tmimg"}]

resolve_derot == [new |-> KVDerot, ints |-> {"optype", "command", "state"},
    reals |-> {"postar", "pos"}, texts |-> {}]

resolve_dome == [new |-> KVDome, ints |-> {"optype", "command", "state"},
    reals |-> {"azi", "ele", "aziobj", "eleobj"}, texts |-> {}]

resolve_mcover == [new |-> KVMirrCover,
    ints |-> {"optype", "command", "state"}, reals |-> {}, texts |-> {}]

resolve_filter ==
    [new |-> KVFilter, ints |-> {"optype"}, reals |-> {}, texts |-> {"name"}]

Plans == {"append_plan", "append_gwac", "take_image"}

Types == Plans \cup {"check_plan", "remove_plan", "plan", "abort", "obss",
    "slew", "park", "guide", "home", "sync", "track", "trackvel", "mount",
    "expose", "camset", "camera", "focus", "focus_sync", "fwhm", "derot",
    "dome", "mcover", "filter"}

(* The dispatch of Resolve over the types; it knows no other, "geosite"
   among them. *)
Resolver == [t \in Types |->
    CASE t = "append_plan" -> resolve_append_plan
      [] t = "append_gwac" -> resolve_append_gwac
      [] t = "take_image"  -> resolve_take_image
      [] t = "check_plan"  -> resolve_check_plan
      [] t = "remove_plan" -> resolve_remove_plan
      [] t = "plan"        -> resolve_plan
      [] t = "abort"       -> resolve_abort
      [] t = "obss"        -> resolve_obss
      [] t = "slew"        -> resolve_slewto
      [] t = "park"        -> resolve_park
      [] t = "guide"       -> resolve_guide
      [] t = "home"        -> resolve_home
      [] t = "sync"        -> resolve_sync
      [] t = "track"       -> resolve_track
      [] t = "trackvel"    -> resolve_trackvel
      [] t = "mount"       -> resolve_mount
      [] t = "expose"      -> resolve_expose
      [] t = "camset"      -> resolve_camset
      [] t = "camera"      -> resolve_camera
      [] t = "focus"       -> resolve_focus
      [] t = "focus_sync"  -> resolve_focus_sync
      [] t = "fwhm"        -> resolve_fwhm
      [] t = "derot"       -> resolve_derot
      [] t = "dome"        -> resolve_dome
      [] t = "mcover"      -> resolve_mcover
      [] t = "filter"      -> resolve_filter]

(* The keywords that the virtual ToString of a type prints. *)
Printed(t, f) ==
    CASE t \in Plans       -> PrintAppPlan(f)
      [] t = "check_plan"  -> PrintCheckPlan(f)
      [] t = "remove_plan" -> PrintRemovePlan(f)
      [] t = "plan"        -> PrintPlan(f)
      [] t = "obss"        -> PrintOBSS(f)
      [] t = "slew"        -> PrintSlewto(f)
      [] t = "guide"       -> PrintGuide(f)
      [] t = "sync"        -> PrintSync(f)
      [] t = "trackvel"    -> PrintTrackVel(f)
      [] t = "mount"       -> PrintMount(f)
      [] t = "expose"      -> PrintExpose(f)
      [] t = "camset"      -> PrintCamSet(f)
      [] t = "camera"      -> PrintCamera(f)
      [] t = "focus"       -> PrintFocus(f)
      [] t = "fwhm"        -> PrintFWHM(f)
      [] t = "derot"       -> PrintDerot(f)
      [] t = "dome"        -> PrintDome(f)
      [] t = "mcover"      -> PrintMirrCover(f)
      [] t = "filter"      -> PrintFilter(f)
      [] OTHER             -> PrintBase(f)

-----------------------------------------------------------------------------
(* Reading and writing a line. *)

Reads(r) == r.ints \cup r.reals \cup r.texts

(* resolve_kv: the places of the pairs of a line.  One without a keyword or a
   value is dropped, and those of the base class are set apart. *)
Given(kvs)  == {i \in DOMAIN kvs : kvs[i][1] # Empty /\ kvs[i][2] # Empty}
Others(kvs) == {i \in Given(kvs) : kvs[i][1] \notin BaseKeys}

LastOf(kvs, at) == kvs[CHOOSE i \in at : \A j \in at : j <= i]

Basis(kvs) == [k \in BaseKeys |->
    LET at == {i \in Given(kvs) : kvs[i][1] = k}
    IN  IF at = {} THEN Empty ELSE LastOf(kvs, at)[2]]

Converted(r, p) ==
    CASE p[1] \in r.ints  -> stoi(p[2])
      [] p[1] \in r.reals -> stod(p[2])
      [] p[1] \in r.texts -> p[2]

(* The last value given for a member, or the one it has from the start. *)
Assign(r, kvs) == [m \in DOMAIN r.new |->
    LET at == {i \in Others(kvs) : /\ kvs[i][1] \in Reads(r)
                                   /\ MemberOf(kvs[i][1]) = m}
    IN  IF at = {} THEN r.new[m] ELSE Converted(r, LastOf(kvs, at))]

(* stoi and stod throw std::invalid_argument, or stod std::out_of_range of a
   number below DBL_MIN; the catch clause resets the pointer and then reads
   proto->type through it. *)
Throws(r, kvs) ==
    \E i \in Others(kvs) :
        \/ kvs[i][1] \in r.ints \cup r.reals /\ kvs[i][2] \in Words
        \/ kvs[i][1] \in r.reals /\ kvs[i][2] = "subnormal"

(* A double that was never assigned may be below DBL_MIN, too. *)
MayThrow(r, kvs) ==
    \E i \in Others(kvs) : kvs[i][1] \in r.reals /\ kvs[i][2] = "undef"

(* Defaults of a plan, set after its pairs are read. *)
AmendPlan(f) ==
    LET imgtype == IF f.imgtype # Empty THEN f.imgtype
                   ELSE IF f.exptime = "0" THEN "BIAS" ELSE "OBJECT"
        objid   == IF f.objid # Empty THEN f.objid
                   ELSE CASE imgtype = "BIAS"  -> "bias"
                          [] imgtype = "DARK"  -> "dark"
                          [] imgtype = "FLAT"  -> "flat"
                          [] imgtype = "FOCUS" -> "focs"
                          [] OTHER             -> "objt"
    IN [f EXCEPT !.imgtype = imgtype, !.objid = objid]

(* The pairs at the places P, in their order *)
Picked(kvs, P) ==
    LET upTo[n \in 0 .. Len(kvs)] ==
          IF n = 0 THEN <<>>
          ELSE IF n \in P THEN Append(upTo[n - 1], kvs[n]) ELSE upTo[n - 1]
    IN  upTo[Len(kvs)]

(* Pairs a plan does not know are kept in it; other types forget them. *)
Leftover(t, kvs) ==
    IF t \in Plans
    THEN Picked(kvs, {i \in Others(kvs) :
                        kvs[i][1] \notin Reads(resolve_append_plan)})
    ELSE <<>>

Resolve(l) ==
    LET f == Assign(Resolver[l.type], l.kvs)
    IN [type |-> l.type, base |-> Basis(l.kvs), kvs |-> Leftover(l.type, l.kvs),
        f |-> IF l.type \in Plans THEN AmendPlan(f) ELSE f]

(* The pairs of the keywords, with their members' values *)
Written(keys, f) ==
    [i \in DOMAIN keys |-> join_kv(keys[i], f[MemberOf(keys[i])])]

(* KVBase::ToString *)
BaseToString(base) ==
    Written(IfAny(base, "utc") \o IfAny(base, "gid")
              \o IfAny(base, "uid") \o IfAny(base, "cid"), base)

ToString(m) ==
    [type |-> m.type,
     kvs  |-> BaseToString(m.base)
                \o Written(Printed(m.type, m.f), m.f) \o m.kvs]

-----------------------------------------------------------------------------
VARIABLES
    line,    \* the line on its way, or Null once it is read
    held,    \* the message its reader holds, or Null
    first,   \* ghost: the message of the first reader
    sent,    \* ghost: the line as it was first written
    hops,    \* how often it has been read
    alive    \* FALSE: the reader died of a null pointer

vars == <<line, held, first, sent, hops, alive>>

Init ==
    /\ sent \in Lines /\ line = sent
    /\ held = Null /\ first = Null
    /\ hops = 0 /\ alive = TRUE

(* on_tcp_receive: a message of a type nobody knows closes its connection. *)
Refuse ==
    /\ alive /\ line # Null /\ line.type \notin Types
    /\ line' = Null
    /\ UNCHANGED <<held, first, sent, hops, alive>>

(* What is printed of a double never assigned that some reader has accepted,
   every reader accepts: only lines that print it first may throw, the second
   one that of a slew which lost its frame. *)
PrintsFirst == hops = 1 \/ (hops = 2 /\ first.type = "slew"
                                     /\ first.f.coorsys # COORSYS_EQUA)

Die ==
    /\ alive /\ line # Null /\ line.type \in Types
    /\ \/ Throws(Resolver[line.type], line.kvs)
       \/ PrintsFirst /\ MayThrow(Resolver[line.type], line.kvs)
    /\ alive' = FALSE
    /\ UNCHANGED <<line, held, first, sent, hops>>

Receive ==
    /\ alive /\ line # Null /\ line.type \in Types
    /\ ~Throws(Resolver[line.type], line.kvs)
    /\ hops < MaxHops
    /\ held' = Resolve(line)
    /\ first' = IF hops = 0 THEN held' ELSE first
    /\ line' = Null
    /\ hops' = hops + 1
    /\ UNCHANGED <<sent, alive>>

Send ==
    /\ alive /\ held # Null
    /\ line' = ToString(held)
    /\ held' = Null
    /\ UNCHANGED <<first, sent, hops, alive>>

Next == Refuse \/ Die \/ Receive \/ Send

Spec == Init /\ [][Next]_vars

-----------------------------------------------------------------------------
(* Properties. *)

(* Types whose position, mode or operation decides what is printed. *)
Selective == Plans \cup {"slew", "camset", "focus", "derot", "dome", "mcover"}

(* The second and third reader of a message hold what the first one held, up
   to the digits that are printed: every member, or those that ToString prints
   in the position or operation the message is about.  Two members are
   excepted, which are printed under a keyword that is not read: epoch, and
   coorsys of a slew; so a slew that is not equatorial keeps its position for
   one relay only. *)
RelayKeeps ==
    held # Null /\ hops > 1 =>
        /\ held.type = first.type /\ held.base = first.base
        /\ LET members == IF first.type \notin Selective THEN DOMAIN first.f
                ELSE {MemberOf(key) :
                        key \in Range(Printed(first.type, first.f))}
           IN \A m \in members \ {"epoch"} :
                \/ first.type = "slew" /\ m = "coorsys"
                \/ first.type = "slew" /\ first.f.coorsys # COORSYS_EQUA
                     /\ hops > 2
                \/ join_kv(m, held.f[m]) = join_kv(m, first.f[m])

(* Pairs of a plan that the program does not know reach every reader in the
   client's order.  An equatorial plan collects one pair more with each relay,
   the epoch it printed and did not recognise. *)
ExtrasKept ==
    held # Null /\ held.type \in Plans =>
        LET grown == IF first.f.coorsys = "0" THEN hops - 1 ELSE 0
        IN /\ Len(held.kvs) = Len(first.kvs) + grown
           /\ \A i \in 1 .. grown : held.kvs[i][1] = "epoch"
           /\ SubSeq(held.kvs, grown + 1, Len(held.kvs)) = first.kvs

(* An unassigned number is written only for a keyword that the first line did
   not give, except by the second relay of a slew, which lost its frame. *)
InventsOnlyTheMissing ==
    line # Null =>
        \A i \in DOMAIN line.kvs : line.kvs[i][2] = "undef" =>
            \/ MemberOf(line.kvs[i][1])
                 \notin {MemberOf(sent.kvs[j][1]) : j \in Others(sent.kvs)}
            \/ line.type = "slew" /\ hops > 1

(* A line this code has written is never refused, and kills its reader only
   if it carries a double that was never assigned, or one so near DBL_MIN that
   its printed digits are below it: all else that kills comes from outside. *)
OwnLinesAreSafe ==
    hops > 0 =>
        /\ line # Null \/ held # Null
        /\ ~alive => \E i \in Others(line.kvs) :
                        /\ line.kvs[i][1] \in Resolver[line.type].reals
                        /\ line.kvs[i][2] \in {"undef", "subnormal"}

=============================================================================
