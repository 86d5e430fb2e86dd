------------------------ MODULE KVProtocols_proofs ------------------------
(***************************************************************************)
(* What is proved of the relayed lines, for every set of lines that obeys  *)
(* KVOK and every number of readers: a line that ToString wrote is read    *)
(* again, a relay keeps what the first reader held and the pairs that a    *)
(* plan does not know, and it invents no number that was given.            *)
(*                                                                         *)
(* The lemmas say what each resolve_ function and each ToString of a type  *)
(* have in common, from their tables of keywords; what Picked computes     *)
(* along a line is shown with the least place at which it could go wrong,  *)
(* in place of an induction.                                               *)
(***************************************************************************)
EXTENDS KVProtocols, SequenceTheorems, WellFoundedInduction, TLAPS

(***************************************************************************)
(* Sequences                                                               *)
(***************************************************************************)

IsSeq(s) == s \in Seq(Range(s))

LEMMA SeqShape ==
    ASSUME NEW s, IsSeq(s)
    PROVE  /\ Len(s) \in Nat /\ DOMAIN s = 1 .. Len(s)
           /\ s = [i \in 1 .. Len(s) |-> s[i]]
           /\ Range(s) = {s[i] : i \in 1 .. Len(s)}
<1>1. /\ s \in [1 .. Len(s) -> Range(s)] /\ Len(s) \in Nat
      /\ DOMAIN s = 1 .. Len(s)
  BY LenProperties DEF IsSeq
<1> QED
  BY <1>1 DEF Range

LEMMA FunctionIsSeq ==
    ASSUME NEW n \in Nat, NEW s, s = [i \in 1 .. n |-> s[i]]
    PROVE  IsSeq(s) /\ Len(s) = n
<1>1. DOMAIN s = 1 .. n
  OBVIOUS
<1>2. s \in [1 .. n -> Range(s)]
  BY <1>1 DEF Range
<1>3. s \in Seq(Range(s))
  BY <1>2, SeqDef
<1> QED
  BY <1>3, <1>1, LenProperties DEF IsSeq

LEMMA MemberIsSeq ==
    ASSUME NEW S, NEW s \in Seq(S)
    PROVE  IsSeq(s) /\ Range(s) \subseteq S
BY SeqOfRange, RangeOfSeq DEF IsSeq

LEMMA JoinedSeqs ==
    ASSUME NEW a, NEW b, IsSeq(a), IsSeq(b)
    PROVE  /\ IsSeq(a \o b)
           /\ Len(a \o b) = Len(a) + Len(b)
           /\ Range(a \o b) = Range(a) \cup Range(b)
           /\ \A i \in 1 .. Len(a) + Len(b) :
                (a \o b)[i] = IF i <= Len(a) THEN a[i] ELSE b[i - Len(a)]
<1> DEFINE S == Range(a) \cup Range(b)
<1>1. a \in Seq(S) /\ b \in Seq(S)
  BY SeqMonotonic DEF IsSeq
<1>2. a \o b \in Seq(S)
  BY <1>1, ConcatProperties
<1> HIDE DEF S
<1>3. IsSeq(a \o b)
  BY <1>2, MemberIsSeq
<1>4. Range(a \o b) = Range(a) \cup Range(b)
  BY <1>1, RangeConcatenation
<1> QED
  BY <1>1, <1>3, <1>4, ConcatProperties

LEMMA EmptyIsSeq == IsSeq(<<>>) /\ Range(<<>>) = {} /\ Len(<<>>) = 0
<1>1. Len(<<>>) = 0 /\ DOMAIN <<>> = {}
  OBVIOUS
<1>2. Range(<<>>) = {}
  BY <1>1 DEF Range
<1>3. <<>> \in Seq(Range(<<>>))
  BY EmptySeq
<1> QED
  BY <1>1, <1>2, <1>3 DEF IsSeq

(* Every non-empty set of natural numbers has a least element: what stands
   for induction in this module. *)
LessThan == {ss \in Nat \X Nat : ss[1] < ss[2]}

LEMMA LeastNumber ==
    ASSUME NEW T \in SUBSET Nat, T # {}
    PROVE  \E n \in T : \A k \in T : n <= k
<1>1. IsWellFoundedOn(LessThan, Nat)
  BY NatLessThanWellFounded, Zenon DEF OpToRel, LessThan
<1>2. PICK n \in T : \A k \in T : ~(<<k, n>> \in LessThan)
  BY <1>1, WFMin
<1>3. ASSUME NEW k \in T PROVE n <= k
  <2>1. <<k, n>> \in Nat \X Nat /\ <<k, n>>[1] = k /\ <<k, n>>[2] = n
    OBVIOUS
  <2>2. ~(k < n)
    BY <1>2, <2>1 DEF LessThan
  <2> QED
    BY <2>2
<1> QED
  BY <1>3

LEMMA LastPlace ==
    ASSUME NEW n \in Nat, NEW P \in SUBSET (1 .. n), P # {}
    PROVE  \E i \in P : \A j \in P : j <= i
<1> DEFINE T == {k \in Nat : n - k \in P}
<1>1. PICK p \in P : TRUE
  OBVIOUS
<1>2. n - p \in T
  <2>1. n - (n - p) = p /\ n - p \in Nat
    BY <1>1
  <2> QED
    BY <2>1
<1>3. PICK k \in T : \A l \in T : k <= l
  BY <1>2, LeastNumber
<1>4. ASSUME NEW j \in P PROVE j <= n - k
  <2>1. n - j \in T
    <3>1. n - (n - j) = j /\ n - j \in Nat
      OBVIOUS
    <3> QED
      BY <3>1
  <2>2. k \in Nat /\ j \in Nat
    BY <1>3
  <2> HIDE DEF T
  <2>3. k <= n - j
    BY <1>3, <2>1
  <2> QED
    BY <2>2, <2>3
<1> QED
  BY <1>3, <1>4

LEMMA LastIsOneOf ==
    ASSUME NEW kvs, IsSeq(kvs), NEW P \in SUBSET DOMAIN kvs, P # {}
    PROVE  \E i \in P : LastOf(kvs, P) = kvs[i]
<1>1. Len(kvs) \in Nat /\ DOMAIN kvs = 1 .. Len(kvs)
  BY SeqShape
<1>2. \E i \in P : \A j \in P : j <= i
  BY <1>1, LastPlace
<1> QED
  BY <1>2 DEF LastOf

(***************************************************************************)
(* The resolvers                                                           *)
(***************************************************************************)

Numbers(r) == r.ints \cup r.reals

(* What the proofs need to know of a resolver.  No keyword is read in two
   ways, and no two keywords into the same member. *)
SoundKeys(r) ==
    /\ Numbers(r) \cap r.texts = {} /\ r.ints \cap r.reals = {}
    /\ Numbers(r) \cap {"epoch", "coorsys"} = {}
    /\ r.texts \cap {"ecoch", "coor_sys", "epoch", "coorsys"} = {}
    /\ Reads(r) \cap (BaseKeys \cup {Empty}) = {}

(* Numbers that are not printed as an int is, and those of them that only a
   member can be. *)
LongNumbers == {"fine", "coarse", "precise", "least", "subnormal", "tiny"}
Doubles     == {"precise", "tiny"}

(* Every keyword has a member.  No member starts with a word or with a number
   that has too many digits, and what is not set at all is read under its own
   name. *)
SoundMembers(r) ==
    /\ \A k \in Reads(r) : MemberOf(k) \in DOMAIN r.new
    /\ \A m \in DOMAIN r.new :
         r.new[m] \notin Words \cup LongNumbers
    /\ \A m \in DOMAIN r.new : r.new[m] = "undef" => m \in Reads(r)

SoundResolver(r) == SoundKeys(r) /\ SoundMembers(r)

(* What is empty is no word and no number. *)
LEMMA EmptyApart ==
    Empty \notin Words \cup LongNumbers \cup {"0", "1", "2", "2000", "whole", "undef"}
BY DEF Empty, Words, LongNumbers

LEMMA ResolversSound == \A t \in Types : SoundResolver(Resolver[t])
<1> SUFFICES ASSUME NEW t \in Types PROVE SoundResolver(Resolver[t])
  OBVIOUS
<1> USE EmptyApart DEF SoundResolver, SoundKeys, SoundMembers, Numbers, Reads,
                       MemberOf, BaseKeys, Words, LongNumbers
<1>1. CASE t = "append_plan"
  <2>1. Resolver[t] = resolve_append_plan
    BY <1>1 DEF Resolver
  <2>2. SoundKeys(resolve_append_plan)
    BY DEF resolve_append_plan, KVAppPlan, COORSYS_EQUA, Empty
  <2>3. SoundMembers(resolve_append_plan)
    BY DEF resolve_append_plan, KVAppPlan, COORSYS_EQUA
  <2> QED
    BY <2>1, <2>2, <2>3 DEF SoundResolver
<1>2. CASE t = "append_gwac"
  <2>1. Resolver[t] = resolve_append_gwac
    BY <1>2 DEF Resolver
  <2>2. SoundKeys(resolve_append_gwac)
    BY DEF resolve_append_gwac, resolve_append_plan, KVAppPlan, COORSYS_EQUA,
       Empty
  <2>3. SoundMembers(resolve_append_gwac)
    BY DEF resolve_append_gwac, resolve_append_plan, KVAppPlan, COORSYS_EQUA
  <2> QED
    BY <2>1, <2>2, <2>3 DEF SoundResolver
<1>3. CASE t = "take_image"
  <2>1. Resolver[t] = resolve_take_image
    BY <1>3 DEF Resolver
  <2>2. SoundKeys(resolve_take_image)
    BY DEF resolve_take_image, resolve_append_plan, KVAppPlan, COORSYS_EQUA,
       Empty
  <2>3. SoundMembers(resolve_take_image)
    BY DEF resolve_take_image, resolve_append_plan, KVAppPlan, COORSYS_EQUA
  <2> QED
    BY <2>1, <2>2, <2>3 DEF SoundResolver
<1>4. CASE t = "check_plan"
  <2>1. Resolver[t] = resolve_check_plan
    BY <1>4 DEF Resolver
  <2>2. SoundKeys(resolve_check_plan)
    BY DEF resolve_check_plan, KVCheckPlan, Empty
  <2>3. SoundMembers(resolve_check_plan)
    BY DEF resolve_check_plan, KVCheckPlan
  <2> QED
    BY <2>1, <2>2, <2>3 DEF SoundResolver
<1>5. CASE t = "remove_plan"
  <2>1. Resolver[t] = resolve_remove_plan
    BY <1>5 DEF Resolver
  <2>2. SoundKeys(resolve_remove_plan)
    BY DEF resolve_remove_plan, KVRemovePlan, Empty
  <2>3. SoundMembers(resolve_remove_plan)
    BY DEF resolve_remove_plan, KVRemovePlan
  <2> QED
    BY <2>1, <2>2, <2>3 DEF SoundResolver
<1>6. CASE t = "plan"
  <2>1. Resolver[t] = resolve_plan
    BY <1>6 DEF Resolver
  <2>2. SoundKeys(resolve_plan)
    BY DEF resolve_plan, KVPlan, Empty
  <2>3. SoundMembers(resolve_plan)
    BY DEF resolve_plan, KVPlan
  <2> QED
    BY <2>1, <2>2, <2>3 DEF SoundResolver
<1>7. CASE t = "abort"
  <2>1. Resolver[t] = resolve_abort
    BY <1>7 DEF Resolver
  <2>2. SoundKeys(resolve_abort)
    BY DEF resolve_abort, Nothing, KVAbort, NoMembers, Empty
  <2>3. SoundMembers(resolve_abort)
    BY DEF resolve_abort, Nothing, KVAbort, NoMembers
  <2> QED
    BY <2>1, <2>2, <2>3 DEF SoundResolver
<1>8. CASE t = "obss"
  <2>1. Resolver[t] = resolve_obss
    BY <1>8 DEF Resolver
  <2>2. SoundKeys(resolve_obss)
    BY DEF resolve_obss, KVOBSS, Empty
  <2>3. SoundMembers(resolve_obss)
    BY DEF resolve_obss, KVOBSS
  <2> QED
    BY <2>1, <2>2, <2>3 DEF SoundResolver
<1>9. CASE t = "slew"
  <2>1. Resolver[t] = resolve_slewto
    BY <1>9 DEF Resolver
  <2>2. SoundKeys(resolve_slewto)
    BY DEF resolve_slewto, KVSlewto, COORSYS_EQUA, Empty
  <2>3. SoundMembers(resolve_slewto)
    <3>1. resolve_slewto.new =
            [coorsys |-> "1", ra |-> "undef", dec |-> "undef", epoch |-> "2000",
             azi |-> "undef", ele |-> "undef", tle1 |-> Empty, tle2 |-> Empty]
      BY DEF resolve_slewto, KVSlewto, COORSYS_EQUA
    <3>2. Reads(resolve_slewto) =
            {"coor_sys", "ra", "dec", "ecoch", "azi", "ele", "tle1", "tle2"}
      BY DEF resolve_slewto
    <3> QED
      BY <3>1, <3>2
  <2> QED
    BY <2>1, <2>2, <2>3 DEF SoundResolver
<1>10. CASE t = "park"
  <2>1. Resolver[t] = resolve_park
    BY <1>10 DEF Resolver
  <2>2. SoundKeys(resolve_park)
    BY DEF resolve_park, Nothing, KVPark, NoMembers, Empty
  <2>3. SoundMembers(resolve_park)
    BY DEF resolve_park, Nothing, KVPark, NoMembers
  <2> QED
    BY <2>1, <2>2, <2>3 DEF SoundResolver
<1>11. CASE t = "guide"
  <2>1. Resolver[t] = resolve_guide
    BY <1>11 DEF Resolver
  <2>2. SoundKeys(resolve_guide)
    BY DEF resolve_guide, KVGuide, Empty
  <2>3. SoundMembers(resolve_guide)
    BY DEF resolve_guide, KVGuide
  <2> QED
    BY <2>1, <2>2, <2>3 DEF SoundResolver
<1>12. CASE t = "home"
  <2>1. Resolver[t] = resolve_home
    BY <1>12 DEF Resolver
  <2>2. SoundKeys(resolve_home)
    BY DEF resolve_home, Nothing, KVHome, NoMembers, Empty
  <2>3. SoundMembers(resolve_home)
    BY DEF resolve_home, Nothing, KVHome, NoMembers
  <2> QED
    BY <2>1, <2>2, <2>3 DEF SoundResolver
<1>13. CASE t = "sync"
  <2>1. Resolver[t] = resolve_sync
    BY <1>13 DEF Resolver
  <2>2. SoundKeys(resolve_sync)
    BY DEF resolve_sync, KVSync, Empty
  <2>3. SoundMembers(resolve_sync)
    BY DEF resolve_sync, KVSync
  <2> QED
    BY <2>1, <2>2, <2>3 DEF SoundResolver
<1>14. CASE t = "track"
  <2>1. Resolver[t] = resolve_track
    BY <1>14 DEF Resolver
  <2>2. SoundKeys(resolve_track)
    BY DEF resolve_track, Nothing, KVTrack, NoMembers, Empty
  <2>3. SoundMembers(resolve_track)
    BY DEF resolve_track, Nothing, KVTrack, NoMembers
  <2> QED
    BY <2>1, <2>2, <2>3 DEF SoundResolver
<1>15. CASE t = "trackvel"
  <2>1. Resolver[t] = resolve_trackvel
    BY <1>15 DEF Resolver
  <2>2. SoundKeys(resolve_trackvel)
    BY DEF resolve_trackvel, KVTrackVel, Empty
  <2>3. SoundMembers(resolve_trackvel)
    BY DEF resolve_trackvel, KVTrackVel
  <2> QED
    BY <2>1, <2>2, <2>3 DEF SoundResolver
<1>16. CASE t = "mount"
  <2>1. Resolver[t] = resolve_mount
    BY <1>16 DEF Resolver
  <2>2. SoundKeys(resolve_mount)
    BY DEF resolve_mount, KVMount, Empty
  <2>3. SoundMembers(resolve_mount)
    BY DEF resolve_mount, KVMount
  <2> QED
    BY <2>1, <2>2, <2>3 DEF SoundResolver
<1>17. CASE t = "expose"
  <2>1. Resolver[t] = resolve_expose
    BY <1>17 DEF Resolver
  <2>2. SoundKeys(resolve_expose)
    BY DEF resolve_expose, KVExpose, Empty
  <2>3. SoundMembers(resolve_expose)
    BY DEF resolve_expose, KVExpose
  <2> QED
    BY <2>1, <2>2, <2>3 DEF SoundResolver
<1>18. CASE t = "camset"
  <2>1. Resolver[t] = resolve_camset
    BY <1>18 DEF Resolver
  <2>2. SoundKeys(resolve_camset)
    BY DEF resolve_camset, KVCamSet, Empty
  <2>3. SoundMembers(resolve_camset)
    BY DEF resolve_camset, KVCamSet
  <2> QED
    BY <2>1, <2>2, <2>3 DEF SoundResolver
<1>19. CASE t = "camera"
  <2>1. Resolver[t] = resolve_camera
    BY <1>19 DEF Resolver
  <2>2. SoundKeys(resolve_camera)
    BY DEF resolve_camera, KVCamera, Empty
  <2>3. SoundMembers(resolve_camera)
    BY DEF resolve_camera, KVCamera
  <2> QED
    BY <2>1, <2>2, <2>3 DEF SoundResolver
<1>20. CASE t = "focus"
  <2>1. Resolver[t] = resolve_focus
    BY <1>20 DEF Resolver
  <2>2. SoundKeys(resolve_focus)
    BY DEF resolve_focus, KVFocus, Empty
  <2>3. SoundMembers(resolve_focus)
    BY DEF resolve_focus, KVFocus
  <2> QED
    BY <2>1, <2>2, <2>3 DEF SoundResolver
<1>21. CASE t = "focus_sync"
  <2>1. Resolver[t] = resolve_focus_sync
    BY <1>21 DEF Resolver
  <2>2. SoundKeys(resolve_focus_sync)
    BY DEF resolve_focus_sync, Nothing, KVFocusSync, NoMembers, Empty
  <2>3. SoundMembers(resolve_focus_sync)
    BY DEF resolve_focus_sync, Nothing, KVFocusSync, NoMembers
  <2> QED
    BY <2>1, <2>2, <2>3 DEF SoundResolver
<1>22. CASE t = "fwhm"
  <2>1. Resolver[t] = resolve_fwhm
    BY <1>22 DEF Resolver
  <2>2. SoundKeys(resolve_fwhm)
    BY DEF resolve_fwhm, KVFWHM, Empty
  <2>3. SoundMembers(resolve_fwhm)
    BY DEF resolve_fwhm, KVFWHM
  <2> QED
    BY <2>1, <2>2, <2>3 DEF SoundResolver
<1>23. CASE t = "derot"
  <2>1. Resolver[t] = resolve_derot
    BY <1>23 DEF Resolver
  <2>2. SoundKeys(resolve_derot)
    BY DEF resolve_derot, KVDerot, Empty
  <2>3. SoundMembers(resolve_derot)
    BY DEF resolve_derot, KVDerot
  <2> QED
    BY <2>1, <2>2, <2>3 DEF SoundResolver
<1>24. CASE t = "dome"
  <2>1. Resolver[t] = resolve_dome
    BY <1>24 DEF Resolver
  <2>2. SoundKeys(resolve_dome)
    BY DEF resolve_dome, KVDome, Empty
  <2>3. SoundMembers(resolve_dome)
    BY DEF resolve_dome, KVDome
  <2> QED
    BY <2>1, <2>2, <2>3 DEF SoundResolver
<1>25. CASE t = "mcover"
  <2>1. Resolver[t] = resolve_mcover
    BY <1>25 DEF Resolver
  <2>2. SoundKeys(resolve_mcover)
    BY DEF resolve_mcover, KVMirrCover, Empty
  <2>3. SoundMembers(resolve_mcover)
    BY DEF resolve_mcover, KVMirrCover
  <2> QED
    BY <2>1, <2>2, <2>3 DEF SoundResolver
<1>26. CASE t = "filter"
  <2>1. Resolver[t] = resolve_filter
    BY <1>26 DEF Resolver
  <2>2. SoundKeys(resolve_filter)
    BY DEF resolve_filter, KVFilter, Empty
  <2>3. SoundMembers(resolve_filter)
    BY DEF resolve_filter, KVFilter
  <2> QED
    BY <2>1, <2>2, <2>3 DEF SoundResolver
<1> QED
  BY <1>1, <1>2, <1>3, <1>4, <1>5, <1>6, <1>7, <1>8, <1>9, <1>10, <1>11, <1>12,
     <1>13, <1>14, <1>15, <1>16, <1>17, <1>18, <1>19, <1>20, <1>21, <1>22,
     <1>23, <1>24, <1>25, <1>26 DEF Types, Plans

(***************************************************************************)
(* The keywords that are printed                                           *)
(***************************************************************************)

(* A sequence of just these keywords *)
Lists(s, S) == IsSeq(s) /\ Range(s) = S

LEMMA JoinedLists ==
    ASSUME NEW a, NEW b, NEW A, NEW B, Lists(a, A), Lists(b, B)
    PROVE  Lists(a \o b, A \cup B)
BY JoinedSeqs DEF Lists

LEMMA EmptyList == Lists(<<>>, {})
BY EmptyIsSeq DEF Lists

(* Keywords of which those with a value are printed *)
Any(f, K) == {k \in K : f[k] # Empty}

LEMMA IfAnyList == ASSUME NEW f, NEW k PROVE Lists(IfAny(f, k), Any(f, {k}))
<1>1. Lists(<<k>>, {k})
  BY DEF Lists, IsSeq, Range
<1>2. CASE f[k] = Empty
  BY <1>2, EmptyList DEF IfAny, Any
<1>3. CASE f[k] # Empty
  <2>1. Any(f, {k}) = {k} /\ IfAny(f, k) = <<k>>
    BY <1>3 DEF Any, IfAny
  <2> QED
    BY <1>1, <2>1
<1> QED
  BY <1>2, <1>3

PlanPlace(f) == CASE f.coorsys = "0" -> {"ra", "dec", "epoch"}
                  [] f.coorsys = "1" -> {"azi", "ele"}
                  [] OTHER           -> {"tle1", "tle2"}

PlanAlways == {"coor_sys", "imgtype", "exptime", "delay", "frmcnt", "loopcnt",
               "priority"}
PlanIfAny  == {"plan_sn", "objid", "obstype", "filter", "plan_beg", "plan_end"}

LEMMA PlanList ==
    ASSUME NEW f
    PROVE  Lists(PrintAppPlan(f), PlanAlways \cup PlanPlace(f)
             \cup Any(f, PlanIfAny))
<1> DEFINE place == CASE f.coorsys = "0" -> <<"ra", "dec", "epoch">>
                      [] f.coorsys = "1" -> <<"azi", "ele">>
                      [] OTHER           -> <<"tle1", "tle2">>
<1> DEFINE p1 == IfAny(f, "plan_sn") \o IfAny(f, "objid")
           p2 == p1 \o IfAny(f, "obstype")
           p3 == p2 \o <<"coor_sys">>
           p4 == p3 \o place
           p5 == p4 \o <<"imgtype">>
           p6 == p5 \o IfAny(f, "filter")
           p7 == p6 \o <<"exptime", "delay", "frmcnt", "loopcnt", "priority">>
           p8 == p7 \o IfAny(f, "plan_beg")
           p9 == p8 \o IfAny(f, "plan_end")
<1>1. PrintAppPlan(f) = p9
  BY DEF PrintAppPlan
<1>2. Lists(place, PlanPlace(f))
  <2>1. /\ Lists(<<"ra", "dec", "epoch">>, {"ra", "dec", "epoch"})
        /\ Lists(<<"azi", "ele">>, {"azi", "ele"})
        /\ Lists(<<"tle1", "tle2">>, {"tle1", "tle2"})
    BY DEF Lists, IsSeq, Range
  <2> QED
    BY <2>1 DEF PlanPlace
<1>3. /\ Lists(<<"coor_sys">>, {"coor_sys"})
      /\ Lists(<<"imgtype">>, {"imgtype"})
      /\ Lists(<<"exptime", "delay", "frmcnt", "loopcnt", "priority">>,
               {"exptime", "delay", "frmcnt", "loopcnt", "priority"})
  BY DEF Lists, IsSeq, Range
<1> HIDE DEF place
<1>4. Lists(p2, Any(f, {"plan_sn"}) \cup Any(f, {"objid"})
        \cup Any(f, {"obstype"}))
  BY IfAnyList, JoinedLists
<1> HIDE DEF p2
<1>5. Lists(p4, Any(f, {"plan_sn"}) \cup Any(f, {"objid"})
        \cup Any(f, {"obstype"})
                  \cup {"coor_sys"} \cup PlanPlace(f))
  BY <1>2, <1>3, <1>4, JoinedLists
<1> HIDE DEF p4
<1>6. Lists(p6, Any(f, {"plan_sn"}) \cup Any(f, {"objid"})
        \cup Any(f, {"obstype"})
                  \cup {"coor_sys"} \cup PlanPlace(f)
                  \cup {"imgtype"} \cup Any(f, {"filter"}))
  BY <1>3, <1>5, IfAnyList, JoinedLists
<1> HIDE DEF p6
<1>7. Lists(p9, Any(f, {"plan_sn"}) \cup Any(f, {"objid"})
        \cup Any(f, {"obstype"})
                  \cup {"coor_sys"} \cup PlanPlace(f)
                  \cup {"imgtype"} \cup Any(f, {"filter"})
                  \cup {"exptime", "delay", "frmcnt", "loopcnt", "priority"}
                  \cup Any(f, {"plan_beg"}) \cup Any(f, {"plan_end"}))
  BY <1>3, <1>6, IfAnyList, JoinedLists
<1> HIDE DEF p9
<1>8. Any(f, {"plan_sn"}) \cup Any(f, {"objid"}) \cup Any(f, {"obstype"})
        \cup {"coor_sys"} \cup PlanPlace(f) \cup {"imgtype"}
          \cup Any(f, {"filter"})
        \cup {"exptime", "delay", "frmcnt", "loopcnt", "priority"}
        \cup Any(f, {"plan_beg"}) \cup Any(f, {"plan_end"})
      = PlanAlways \cup PlanPlace(f) \cup Any(f, PlanIfAny)
  BY DEF Any, PlanAlways, PlanIfAny
<1> QED
  BY <1>1, <1>7, <1>8

LEMMA StatusOfPlanList ==
    ASSUME NEW f
    PROVE  Lists(PrintPlan(f), {"state"}
             \cup Any(f, {"plan_sn", "tm_start", "tm_stop"}))
<1> DEFINE p1 == IfAny(f, "plan_sn") \o IfAny(f, "tm_start")
           p2 == p1 \o IfAny(f, "tm_stop")
<1>1. Lists(p2, Any(f, {"plan_sn"}) \cup Any(f, {"tm_start"})
        \cup Any(f, {"tm_stop"}))
  BY IfAnyList, JoinedLists
<1> HIDE DEF p2
<1>2. Lists(<<"state">>, {"state"})
  BY DEF Lists, IsSeq, Range
<1>3. Lists(p2 \o <<"state">>,
            Any(f, {"plan_sn"}) \cup Any(f, {"tm_start"})
              \cup Any(f, {"tm_stop"})
              \cup {"state"})
  BY <1>1, <1>2, JoinedLists
<1>4. Any(f, {"plan_sn"}) \cup Any(f, {"tm_start"}) \cup Any(f, {"tm_stop"})
        \cup {"state"} = {"state"}
          \cup Any(f, {"plan_sn", "tm_start", "tm_stop"})
  BY DEF Any
<1> QED
  BY <1>3, <1>4 DEF p2, PrintPlan

SlewPlace(f) == CASE f.coorsys = COORSYS_EQUA  -> {"ra", "dec", "epoch"}
                  [] f.coorsys = COORSYS_ALTAZ -> {"azi", "ele"}
                  [] OTHER                     -> {"tle1", "tle2"}

LEMMA SlewList ==
    ASSUME NEW f PROVE Lists(PrintSlewto(f), {"coorsys"} \cup SlewPlace(f))
<1> DEFINE place == CASE f.coorsys = COORSYS_EQUA  -> <<"ra", "dec", "epoch">>
                      [] f.coorsys = COORSYS_ALTAZ -> <<"azi", "ele">>
                      [] OTHER                     -> <<"tle1", "tle2">>
<1>1. /\ Lists(<<"ra", "dec", "epoch">>, {"ra", "dec", "epoch"})
      /\ Lists(<<"azi", "ele">>, {"azi", "ele"})
      /\ Lists(<<"tle1", "tle2">>, {"tle1", "tle2"})
      /\ Lists(<<"coorsys">>, {"coorsys"})
  BY DEF Lists, IsSeq, Range
<1>2. Lists(place, SlewPlace(f))
  BY <1>1 DEF SlewPlace, COORSYS_EQUA, COORSYS_ALTAZ
<1> HIDE DEF place
<1>3. Lists(<<"coorsys">> \o place, {"coorsys"} \cup SlewPlace(f))
  BY <1>1, <1>2, JoinedLists
<1> QED
  BY <1>3 DEF place, PrintSlewto

GuidePlace(f) == IF f.ra # "0" \/ f.dec # "0" THEN {"ra", "dec"} ELSE {}

LEMMA GuideList ==
    ASSUME NEW f PROVE Lists(PrintGuide(f), {"result", "op"} \cup GuidePlace(f))
<1> DEFINE place == IF f.ra # "0" \/ f.dec # "0" THEN <<"ra", "dec">> ELSE <<>>
<1>1. /\ Lists(<<"result", "op">>, {"result", "op"})
      /\ Lists(<<"ra", "dec">>, {"ra", "dec"})
  BY DEF Lists, IsSeq, Range
<1>2. Lists(place, GuidePlace(f))
  BY <1>1, EmptyList DEF GuidePlace
<1> HIDE DEF place
<1>3. Lists(<<"result", "op">> \o place, {"result", "op"} \cup GuidePlace(f))
  BY <1>1, <1>2, JoinedLists
<1> QED
  BY <1>3 DEF place, PrintGuide

(* Of these types the operation decides what is printed. *)
Dim  == {"bitDepth", "iADC", "iReadPort", "iReadRate", "iVSRate", "iGain",
         "coolSet"}
Wide == {"bitPixel", "ADC", "readPort", "readRate", "vsRate", "gain"}
CamSetKeys(f) == {"optype"} \cup (IF f.optype # "2" THEN {} ELSE Dim)
                           \cup (IF f.optype = "0" THEN {} ELSE Wide)

LEMMA CamSetList == ASSUME NEW f PROVE Lists(PrintCamSet(f), CamSetKeys(f))
<1> DEFINE a == <<"bitDepth", "iADC", "iReadPort", "iReadRate", "iVSRate",
           "iGain",
                  "coolSet">>
           b == <<"bitPixel", "ADC", "readPort", "readRate", "vsRate", "gain">>
           x == IF f.optype # "2" THEN <<>> ELSE a
           y == IF f.optype = "0" THEN <<>> ELSE b
<1>1. Lists(a, Dim) /\ Lists(b, Wide) /\ Lists(<<"optype">>, {"optype"})
  BY DEF Lists, IsSeq, Range, Dim, Wide
<1> HIDE DEF a, b
<1>2. /\ Lists(x, IF f.optype # "2" THEN {} ELSE Dim)
      /\ Lists(y, IF f.optype = "0" THEN {} ELSE Wide)
  BY <1>1, EmptyList
<1> HIDE DEF x, y
<1>3. Lists(<<"optype">> \o x \o y, CamSetKeys(f))
  BY <1>1, <1>2, JoinedLists DEF CamSetKeys
<1> QED
  BY <1>3 DEF a, b, x, y, PrintCamSet

FocusKeys(f) == {"optype"}
    \cup (CASE f.optype = "0" -> {"state", "pos", "posTar"}
            [] f.optype = "1" -> {"relpos"}
            [] OTHER          -> {})

LEMMA FocusList == ASSUME NEW f PROVE Lists(PrintFocus(f), FocusKeys(f))
<1> DEFINE x == CASE f.optype = "0" -> <<"state", "pos", "posTar">>
                  [] f.optype = "1" -> <<"relpos">>
                  [] OTHER          -> <<>>
           X == CASE f.optype = "0" -> {"state", "pos", "posTar"}
                  [] f.optype = "1" -> {"relpos"}
                  [] OTHER          -> {}
<1>1. /\ Lists(<<"optype">>, {"optype"})
      /\ Lists(<<"state", "pos", "posTar">>, {"state", "pos", "posTar"})
      /\ Lists(<<"relpos">>, {"relpos"})
  BY DEF Lists, IsSeq, Range
<1>2. Lists(x, X)
  BY <1>1, EmptyList
<1> HIDE DEF x, X
<1>3. Lists(<<"optype">> \o x, {"optype"} \cup X)
  BY <1>1, <1>2, JoinedLists
<1> QED
  BY <1>3 DEF x, X, FocusKeys, PrintFocus

DerotKeys(f) == {"optype"}
    \cup (CASE f.optype = "0" -> {"state", "pos"}
            [] f.optype = "1" -> {"command", "postar"}
            [] OTHER          -> {})

LEMMA DerotList == ASSUME NEW f PROVE Lists(PrintDerot(f), DerotKeys(f))
<1> DEFINE x == CASE f.optype = "0" -> <<"state", "pos">>
                  [] f.optype = "1" -> <<"command", "postar">>
                  [] OTHER          -> <<>>
           X == CASE f.optype = "0" -> {"state", "pos"}
                  [] f.optype = "1" -> {"command", "postar"}
                  [] OTHER          -> {}
<1>1. /\ Lists(<<"optype">>, {"optype"})
      /\ Lists(<<"state", "pos">>, {"state", "pos"})
      /\ Lists(<<"command", "postar">>, {"command", "postar"})
  BY DEF Lists, IsSeq, Range
<1>2. Lists(x, X)
  BY <1>1, EmptyList
<1> HIDE DEF x, X
<1>3. Lists(<<"optype">> \o x, {"optype"} \cup X)
  BY <1>1, <1>2, JoinedLists
<1> QED
  BY <1>3 DEF x, X, DerotKeys, PrintDerot

DomeKeys(f) == {"optype"}
    \cup (CASE f.optype = "0" -> {"state", "azi", "ele"}
            [] f.optype = "1" -> {"command"}
            [] OTHER          -> {}) \cup {"aziobj", "eleobj"}

LEMMA DomeList == ASSUME NEW f PROVE Lists(PrintDome(f), DomeKeys(f))
<1> DEFINE x == CASE f.optype = "0" -> <<"state", "azi", "ele">>
                  [] f.optype = "1" -> <<"command">>
                  [] OTHER          -> <<>>
           X == CASE f.optype = "0" -> {"state", "azi", "ele"}
                  [] f.optype = "1" -> {"command"}
                  [] OTHER          -> {}
<1>1. /\ Lists(<<"optype">>, {"optype"})
      /\ Lists(<<"state", "azi", "ele">>, {"state", "azi", "ele"})
      /\ Lists(<<"command">>, {"command"})
      /\ Lists(<<"aziobj", "eleobj">>, {"aziobj", "eleobj"})
  BY DEF Lists, IsSeq, Range
<1>2. Lists(x, X)
  BY <1>1, EmptyList
<1> HIDE DEF x, X
<1>3. Lists(<<"optype">> \o x \o <<"aziobj", "eleobj">>, {"optype"} \cup X
        \cup {"aziobj", "eleobj"})
  BY <1>1, <1>2, JoinedLists
<1> QED
  BY <1>3 DEF x, X, DomeKeys, PrintDome

CoverKeys(f) == {"optype"}
    \cup (CASE f.optype = "0" -> {"state"}
            [] f.optype = "1" -> {"command"}
            [] OTHER          -> {})

LEMMA CoverList == ASSUME NEW f PROVE Lists(PrintMirrCover(f), CoverKeys(f))
<1> DEFINE x == CASE f.optype = "0" -> <<"state">>
                  [] f.optype = "1" -> <<"command">>
                  [] OTHER          -> <<>>
           X == CASE f.optype = "0" -> {"state"}
                  [] f.optype = "1" -> {"command"}
                  [] OTHER          -> {}
<1>1. /\ Lists(<<"optype">>, {"optype"})
      /\ Lists(<<"state">>, {"state"})
      /\ Lists(<<"command">>, {"command"})
  BY DEF Lists, IsSeq, Range
<1>2. Lists(x, X)
  BY <1>1, EmptyList
<1> HIDE DEF x, X
<1>3. Lists(<<"optype">> \o x, {"optype"} \cup X)
  BY <1>1, <1>2, JoinedLists
<1> QED
  BY <1>3 DEF x, X, CoverKeys, PrintMirrCover

(* The keywords that ToString of a type prints *)
Shown(t, f) ==
    CASE t \in Plans -> PlanAlways \cup PlanPlace(f) \cup Any(f, PlanIfAny)
      [] t \in {"check_plan", "remove_plan"} -> Any(f, {"plan_sn"})
      [] t = "plan"     -> {"state"}
                            \cup Any(f, {"plan_sn", "tm_start", "tm_stop"})
      [] t = "slew"     -> {"coorsys"} \cup SlewPlace(f)
      [] t = "guide"    -> {"result", "op"} \cup GuidePlace(f)
      [] t = "camset"   -> CamSetKeys(f)
      [] t = "focus"    -> FocusKeys(f)
      [] t = "derot"    -> DerotKeys(f)
      [] t = "dome"     -> DomeKeys(f)
      [] t = "mcover"   -> CoverKeys(f)
      [] t = "obss"     -> {"state", "mount", "camera"}
      [] t = "sync"     -> {"ra", "dec", "epoch"}
      [] t = "trackvel" -> {"ra", "dec"}
      [] t = "mount"    -> {"state", "errcode", "mjd", "lst", "ra",
                            "dec", "ra2k", "dec2k", "azi", "ele"}
      [] t = "expose"   -> {"command", "frmno", "loopno"}
      [] t = "camera"   ->
                            {"state", "errcode", "left", "percent", "coolget",
                             "imgtype", "filter", "freedisk", "plan_sn",
                             "loopno", "frmno", "filename"}
      [] t = "fwhm"     -> {"value", "tmimg"}
      [] t = "filter"   -> {"optype", "name"}
      [] OTHER -> {}

LEMMA PrintedList ==
    ASSUME NEW t \in Types, NEW f PROVE Lists(Printed(t, f), Shown(t, f))
<1> USE DEF Printed, Shown, Plans
<1>1. CASE t \in Plans
  BY <1>1, PlanList
<1>2. CASE t \in {"check_plan", "remove_plan"}
  BY <1>2, IfAnyList DEF PrintCheckPlan, PrintRemovePlan
<1>3. CASE t = "plan"
  BY <1>3, StatusOfPlanList
<1>4. CASE t = "slew"
  BY <1>4, SlewList
<1>5. CASE t = "guide"
  BY <1>5, GuideList
<1>6. CASE t = "camset"
  BY <1>6, CamSetList
<1>7. CASE t = "focus"
  BY <1>7, FocusList
<1>8. CASE t = "derot"
  BY <1>8, DerotList
<1>9. CASE t = "dome"
  BY <1>9, DomeList
<1>10. CASE t = "mcover"
  BY <1>10, CoverList
<1>11. CASE t = "obss"
  <2>1. Lists(PrintOBSS(f), {"state", "mount", "camera"})
    BY DEF Lists, IsSeq, Range, PrintOBSS
  <2> QED
    BY <1>11, <2>1
<1>12. CASE t = "sync"
  <2>1. Lists(PrintSync(f), {"ra", "dec", "epoch"})
    BY DEF Lists, IsSeq, Range, PrintSync
  <2> QED
    BY <1>12, <2>1
<1>13. CASE t = "trackvel"
  <2>1. Lists(PrintTrackVel(f), {"ra", "dec"})
    BY DEF Lists, IsSeq, Range, PrintTrackVel
  <2> QED
    BY <1>13, <2>1
<1>14. CASE t = "mount"
  <2>1. Lists(PrintMount(f), {"state", "errcode", "mjd", "lst", "ra", "dec",
          "ra2k", "dec2k", "azi", "ele"})
    BY DEF Lists, IsSeq, Range, PrintMount
  <2> QED
    BY <1>14, <2>1
<1>15. CASE t = "expose"
  <2>1. Lists(PrintExpose(f), {"command", "frmno", "loopno"})
    BY DEF Lists, IsSeq, Range, PrintExpose
  <2> QED
    BY <1>15, <2>1
<1>16. CASE t = "camera"
  <2>1. Lists(PrintCamera(f), {"state", "errcode", "left", "percent", "coolget",
          "imgtype", "filter", "freedisk", "plan_sn", "loopno", "frmno",
          "filename"})
    BY DEF Lists, IsSeq, Range, PrintCamera
  <2> QED
    BY <1>16, <2>1
<1>17. CASE t = "fwhm"
  <2>1. Lists(PrintFWHM(f), {"value", "tmimg"})
    BY DEF Lists, IsSeq, Range, PrintFWHM
  <2> QED
    BY <1>17, <2>1
<1>18. CASE t = "filter"
  <2>1. Lists(PrintFilter(f), {"optype", "name"})
    BY DEF Lists, IsSeq, Range, PrintFilter
  <2> QED
    BY <1>18, <2>1
<1>19. CASE t \in {"abort", "park", "home", "track", "focus_sync"}
  BY <1>19, EmptyList DEF PrintBase
<1> QED
  BY <1>1, <1>2, <1>3, <1>4, <1>5, <1>6, <1>7, <1>8, <1>9, <1>10, <1>11, <1>12,
     <1>13, <1>14, <1>15, <1>16, <1>17, <1>18, <1>19 DEF Types

(***************************************************************************)
(* What is written and what is picked                                      *)
(***************************************************************************)

LEMMA WrittenShape ==
    ASSUME NEW keys, NEW K, Lists(keys, K), NEW f
    PROVE  /\ IsSeq(Written(keys, f)) /\ Len(Written(keys, f)) = Len(keys)
           /\ Range(Written(keys, f)) = {join_kv(k, f[MemberOf(k)]) : k \in K}
           /\ \A i \in 1 .. Len(keys) :
                Written(keys, f)[i] = join_kv(keys[i], f[MemberOf(keys[i])])
<1> DEFINE w == Written(keys, f)
<1>1. Len(keys) \in Nat /\ DOMAIN keys = 1 .. Len(keys)
  BY SeqShape DEF Lists
<1>2. w = [i \in 1 .. Len(keys) |-> join_kv(keys[i], f[MemberOf(keys[i])])]
  BY <1>1 DEF Written
<1>3. DOMAIN w = 1 .. Len(keys) /\ w = [i \in 1 .. Len(keys) |-> w[i]]
  BY <1>2
<1>4. IsSeq(w) /\ Len(w) = Len(keys)
  <2> HIDE DEF w
  <2> QED
    BY <1>1, <1>3, FunctionIsSeq
<1>5. \A i \in 1 .. Len(keys) : w[i] = join_kv(keys[i], f[MemberOf(keys[i])])
  BY <1>2
<1>6. K = {keys[i] : i \in 1 .. Len(keys)}
        /\ Range(w) = {w[i] : i \in 1 .. Len(keys)}
  BY <1>1, <1>3 DEF Lists, Range
<1> HIDE DEF w
<1>7. Range(w) = {join_kv(k, f[MemberOf(k)]) : k \in K}
  BY <1>5, <1>6
<1> QED
  BY <1>4, <1>5, <1>7 DEF w

(* The steps of Picked, up to place m *)
Steps(up, kvs, P, m) ==
    up = [n \in 0 .. m |->
            IF n = 0 THEN <<>>
            ELSE IF n \in P THEN Append(up[n - 1], kvs[n]) ELSE up[n - 1]]

LEMMA StepsExist ==
    ASSUME NEW kvs, NEW P, NEW len \in Nat
    PROVE  \E up : Steps(up, kvs, P, len)
<1> DEFINE T == {n \in Nat : ~\E up : Steps(up, kvs, P, n)}
<1>1. SUFFICES ASSUME T # {} PROVE FALSE
  OBVIOUS
<1>2. PICK m \in T : \A k \in T : m <= k
  BY <1>1, LeastNumber
<1>3. m # 0
  <2>1. Steps([n \in 0 .. 0 |-> <<>>], kvs, P, 0)
    BY DEF Steps
  <2> QED
    BY <1>2, <2>1
<1>4. m \in Nat /\ m - 1 \in Nat /\ m - 1 \notin T
  <2>1. m \in Nat /\ m - 1 \in Nat /\ ~(m <= m - 1)
    BY <1>2, <1>3
  <2> HIDE DEF T
  <2> QED
    BY <1>2, <2>1
<1>5. PICK u : Steps(u, kvs, P, m - 1)
  BY <1>4
<1> DEFINE w == [n \in 0 .. m |->
                   IF n < m THEN u[n]
                   ELSE IF m \in P THEN Append(u[m - 1], kvs[m]) ELSE u[m - 1]]
<1>6. Steps(w, kvs, P, m)
  <2>1. \A n \in 0 .. m - 1 :
          u[n] = IF n = 0 THEN <<>>
                 ELSE IF n \in P THEN Append(u[n - 1], kvs[n]) ELSE u[n - 1]
    BY <1>5 DEF Steps
  <2>2. \A n \in 0 .. m :
          w[n] = IF n = 0 THEN <<>>
                 ELSE IF n \in P THEN Append(w[n - 1], kvs[n]) ELSE w[n - 1]
    <3> TAKE n \in 0 .. m
    <3>1. CASE n = m
      BY <1>3, <1>4, <3>1
    <3>2. CASE n < m
      <4>1. n \in 0 .. m - 1 /\ (n # 0 => n - 1 \in 0 .. m - 1)
        BY <3>2, <1>4
      <4>2. w[n] = u[n] /\ (n # 0 => w[n - 1] = u[n - 1])
        BY <4>1, <3>2, <1>4
      <4> HIDE DEF w
      <4> QED
        BY <2>1, <4>1, <4>2
    <3> QED
      BY <3>1, <3>2, <1>4
  <2>3. w = [n \in 0 .. m |-> w[n]]
    OBVIOUS
  <2> HIDE DEF w
  <2> QED
    BY <2>2, <2>3 DEF Steps
<1> QED
  BY <1>6, <1>2

LEMMA PickedSteps ==
    ASSUME NEW kvs, IsSeq(kvs), NEW P
    PROVE  \E up : Steps(up, kvs, P, Len(kvs)) /\ Picked(kvs, P) = up[Len(kvs)]
<1> DEFINE C == CHOOSE up : Steps(up, kvs, P, Len(kvs))
<1>1. Len(kvs) \in Nat
  BY SeqShape
<1>2. Steps(C, kvs, P, Len(kvs))
  BY <1>1, StepsExist
<1>3. Picked(kvs, P) = C[Len(kvs)]
  BY DEF Picked, Steps
<1> QED
  BY <1>2, <1>3

LEMMA StepOf ==
    ASSUME NEW up, NEW kvs, NEW P, NEW len \in Nat, Steps(up, kvs, P, len)
    PROVE  /\ up[0] = <<>>
           /\ \A n \in 1 .. len :
                up[n] = IF n \in P THEN Append(up[n - 1], kvs[n]) ELSE up[n - 1]
<1>1. \A n \in 0 .. len :
        up[n] = IF n = 0 THEN <<>>
                ELSE IF n \in P THEN Append(up[n - 1], kvs[n]) ELSE up[n - 1]
  BY DEF Steps
<1>2. 0 \in 0 .. len /\ \A n \in 1 .. len : n \in 0 .. len /\ n # 0
  OBVIOUS
<1>3. up[0] = <<>>
  BY <1>1, <1>2
<1> QED
  BY <1>1, <1>2, <1>3

LEMMA Appended ==
    ASSUME NEW s, IsSeq(s), NEW e
    PROVE  IsSeq(Append(s, e)) /\ Range(Append(s, e)) = Range(s) \cup {e}
<1> DEFINE S == Range(s) \cup {e}
<1>1. s \in Seq(S) /\ e \in S
  BY SeqMonotonic DEF IsSeq
<1>2. Lists(<<e>>, {e})
  BY DEF Lists, IsSeq, Range
<1>3. Append(s, e) = s \o <<e>>
  <2> HIDE DEF S
  <2> QED
    BY <1>1, AppendIsConcat
<1> QED
  BY <1>2, <1>3, JoinedSeqs DEF Lists

(* Picked returns the pairs at the places, and nothing else. *)
LEMMA PickedShape ==
    ASSUME NEW kvs, IsSeq(kvs), NEW P \in SUBSET DOMAIN kvs
    PROVE  IsSeq(Picked(kvs, P)) /\ Range(Picked(kvs, P)) = {kvs[i] : i \in P}
<1> DEFINE len == Len(kvs)
<1>1. len \in Nat /\ DOMAIN kvs = 1 .. len
  BY SeqShape
<1>2. PICK up : Steps(up, kvs, P, len) /\ Picked(kvs, P) = up[len]
  BY PickedSteps
<1> HIDE DEF len
<1>3. /\ up[0] = <<>>
      /\ \A n \in 1 .. len :
           up[n] = IF n \in P THEN Append(up[n - 1], kvs[n]) ELSE up[n - 1]
  BY <1>1, <1>2, StepOf
<1> DEFINE Good(n) == IsSeq(up[n])
           /\ Range(up[n]) = {kvs[i] : i \in P \cap (1 .. n)}
           T == {n \in 0 .. len : ~Good(n)}
<1>4. Good(0)
  BY <1>3, EmptyIsSeq
<1>5. ASSUME NEW n \in 1 .. len, Good(n - 1) PROVE Good(n)
  <2>1. P \cap (1 .. n) = IF n \in P THEN (P \cap (1 .. n - 1)) \cup {n}
                          ELSE P \cap (1 .. n - 1)
    BY <1>1
  <2>2. CASE n \in P
    <3>1. up[n] = Append(up[n - 1], kvs[n])
      BY <1>3, <2>2
    <3>2. IsSeq(up[n]) /\ Range(up[n]) = Range(up[n - 1]) \cup {kvs[n]}
      BY <1>5, <3>1, Appended
    <3> QED
      BY <1>5, <2>1, <2>2, <3>2
  <2>3. CASE n \notin P
    <3>1. up[n] = up[n - 1]
      BY <1>3, <2>3
    <3> QED
      BY <1>5, <2>1, <2>3, <3>1
  <2> QED
    BY <2>2, <2>3
<1>6. T = {}
  <2> SUFFICES ASSUME T # {} PROVE FALSE
    OBVIOUS
  <2>1. PICK m \in T : \A k \in T : m <= k
    <3>1. T \in SUBSET Nat
      BY <1>1
    <3> HIDE DEF T
    <3> QED
      BY <3>1, LeastNumber
  <2>2. m # 0 /\ m \in 0 .. len /\ ~Good(m)
    BY <1>4, <2>1
  <2>3. m \in 1 .. len /\ m - 1 \in 0 .. len /\ ~(m <= m - 1)
    BY <2>2, <1>1
  <2> HIDE DEF Good
  <2>4. Good(m - 1)
    BY <2>1, <2>3
  <2> QED
    BY <1>5, <2>2, <2>3, <2>4
<1>7. Good(len)
  <2> HIDE DEF Good
  <2>1. len \in 0 .. len
    BY <1>1
  <2> QED
    BY <1>6, <2>1
<1>8. P \cap (1 .. len) = P
  BY <1>1
<1> QED
  BY <1>2, <1>7, <1>8

(***************************************************************************)
(* What a reader makes of a line                                           *)
(***************************************************************************)

(* Members after reading: nothing is empty that was not so from the start,
   the numbers are numbers, and what no keyword is read into is unchanged. *)
Assigned(r, f) ==
    /\ DOMAIN f = DOMAIN r.new
    /\ \A m \in DOMAIN r.new : f[m] = Empty => r.new[m] = Empty
    /\ \A k \in r.ints : f[MemberOf(k)] \notin Words \cup LongNumbers
    /\ \A k \in r.reals : f[MemberOf(k)] \notin Words \cup {"fine", "least"}
    /\ \A k \in r.texts : f[MemberOf(k)] \notin Doubles
    /\ \A m \in DOMAIN r.new : m \notin {MemberOf(k) : k \in Reads(r)}
         => f[m] = r.new[m]

(* Something that is no number, given for one *)
Worded(r, kvs) ==
    \E i \in Others(kvs) : kvs[i][1] \in Numbers(r) /\ kvs[i][2] \in Words

LEMMA ThrowsWords == ASSUME NEW r, NEW kvs, ~Throws(r, kvs) PROVE ~Worded(r, kvs)
BY DEF Throws, Worded, Numbers

(* A line that can be read, and the message its reader holds *)
Readable(l) ==
    /\ l = [type |-> l.type, kvs |-> l.kvs] /\ l.type \in Types
    /\ IsSeq(l.kvs)
    /\ \A p \in Range(l.kvs) : p = <<p[1], p[2]>> /\ p[2] \notin Doubles
    /\ ~Worded(Resolver[l.type], l.kvs)

Extra(p) ==
    /\ p = <<p[1], p[2]>> /\ p[2] \notin Doubles \cup {Empty}
    /\ p[1] \notin Reads(resolve_append_plan) \cup BaseKeys \cup {Empty}

WellFormed(h) ==
    /\ h = [type |-> h.type, base |-> h.base, kvs |-> h.kvs, f |-> h.f]
    /\ h.type \in Types
    /\ h.base = [k \in BaseKeys |-> h.base[k]]
    /\ \A k \in BaseKeys : h.base[k] \notin Doubles
    /\ Assigned(Resolver[h.type], h.f)
    /\ h.type \in Plans => h.f.imgtype # Empty /\ h.f.objid # Empty
    /\ IsSeq(h.kvs) /\ \A p \in Range(h.kvs) : Extra(p)
    /\ h.type \notin Plans => h.kvs = <<>>

(* The places of the pairs that are read into member m *)
Sources(r, kvs, m) ==
    {i \in Others(kvs) : kvs[i][1] \in Reads(r) /\ MemberOf(kvs[i][1]) = m}

LEMMA AssignValue ==
    ASSUME NEW r, NEW kvs, IsSeq(kvs), NEW m \in DOMAIN r.new
    PROVE  \/ Sources(r, kvs, m) = {} /\ Assign(r, kvs)[m] = r.new[m]
           \/ \E i \in Sources(r, kvs, m) :
                Assign(r, kvs)[m] = Converted(r, kvs[i])
<1> DEFINE at == Sources(r, kvs, m)
<1>1. Assign(r, kvs)[m] = IF at = {} THEN r.new[m]
        ELSE Converted(r, LastOf(kvs, at))
  BY DEF Assign, Sources
<1>2. at \subseteq DOMAIN kvs
  BY DEF Sources, Others, Given
<1> HIDE DEF at
<1>3. at # {} => \E i \in at : LastOf(kvs, at) = kvs[i]
  BY <1>2, LastIsOneOf
<1>4. \/ at = {} /\ Assign(r, kvs)[m] = r.new[m]
      \/ \E i \in at : Assign(r, kvs)[m] = Converted(r, kvs[i])
  BY <1>1, <1>3
<1> QED
  BY <1>4 DEF at

LEMMA OneKeyPerMember ==
    ASSUME NEW r, SoundKeys(r), NEW k \in Reads(r), NEW l \in Reads(r),
           MemberOf(k) = MemberOf(l)
    PROVE  k = l
BY DEF SoundKeys, Reads, Numbers, MemberOf

(* What a value becomes that no reader of its keyword refuses *)
LEMMA ConvertedValue ==
    ASSUME NEW r, SoundKeys(r), NEW k \in Reads(r), NEW v, v \notin Doubles,
           v # Empty,
           k \in Numbers(r) => v \notin Words
    PROVE  /\ Converted(r, <<k, v>>) # Empty
           /\ k \in r.ints =>
                Converted(r, <<k, v>>) \notin Words \cup LongNumbers
           /\ k \in r.reals => Converted(r, <<k, v>>) \notin Words \cup {"fine", "least"}
           /\ k \in r.texts => Converted(r, <<k, v>>) \notin Doubles
<1>1. /\ k \in r.ints => Converted(r, <<k, v>>) = stoi(v)
      /\ k \in r.reals => Converted(r, <<k, v>>) = stod(v)
      /\ k \in r.texts => Converted(r, <<k, v>>) = v
  BY DEF Converted, SoundKeys, Numbers
<1>2. k \in Numbers(r) => /\ stoi(v) \notin Words \cup LongNumbers \cup {Empty}
                          /\ stod(v) \notin Words \cup {"fine", "least", Empty}
  <2>1. /\ {"whole", "precise", "tiny"} \cap (Words \cup {"fine", "least", Empty}) = {}
        /\ "whole" \notin LongNumbers
    BY EmptyApart DEF Words, Empty, LongNumbers
  <2>2. v \notin LongNumbers \/ v \in Doubles \/ stoi(v) = "whole"
    BY DEF stoi, LongNumbers, Doubles
  <2>3. stoi(v) \in {v, "whole"} /\ (v \in {"fine", "least"} => stod(v) \in Doubles)
        /\ (v \notin {"fine", "least"} => stod(v) = v)
    BY DEF stoi, stod, Doubles
  <2> QED
    BY <2>1, <2>2, <2>3 DEF Doubles
<1> QED
  BY <1>1, <1>2 DEF Reads, Numbers

LEMMA AssignAssigned ==
    ASSUME NEW r, SoundResolver(r), NEW kvs, IsSeq(kvs),
           \A p \in Range(kvs) : p = <<p[1], p[2]>> /\ p[2] \notin Doubles,
           ~Worded(r, kvs)
    PROVE  Assigned(r, Assign(r, kvs))
<1> DEFINE f == Assign(r, kvs)
<1>1. DOMAIN f = DOMAIN r.new
  BY DEF Assign
<1>2. SoundKeys(r) /\ SoundMembers(r)
  BY DEF SoundResolver
<1>3. ASSUME NEW m \in DOMAIN r.new
      PROVE  \/ f[m] = r.new[m]
             \/ \E k \in Reads(r) : \E v :
                  /\ MemberOf(k) = m /\ f[m] = Converted(r, <<k, v>>)
                  /\ v \notin Doubles /\ v # Empty
                  /\ k \in Numbers(r) => v \notin Words
  <2>1. CASE \E i \in Sources(r, kvs, m) : f[m] = Converted(r, kvs[i])
    <3>1. PICK i \in Sources(r, kvs, m) : f[m] = Converted(r, kvs[i])
      BY <2>1
    <3>2. /\ i \in Others(kvs) /\ kvs[i][1] \in Reads(r)
          /\ MemberOf(kvs[i][1]) = m
          /\ i \in DOMAIN kvs /\ kvs[i][2] # Empty
      BY DEF Sources, Others, Given
    <3>3. kvs[i] = <<kvs[i][1], kvs[i][2]>> /\ kvs[i][2] \notin Doubles
      BY <3>2 DEF Range
    <3>4. kvs[i][1] \in Numbers(r) => kvs[i][2] \notin Words
      BY <3>2 DEF Worded
    <3> DEFINE k == kvs[i][1]
               v == kvs[i][2]
    <3>5. /\ k \in Reads(r) /\ MemberOf(k) = m /\ f[m] = Converted(r, <<k, v>>)
          /\ v \notin Doubles /\ v # Empty /\ (k \in Numbers(r) => v \notin Words)
      BY <3>1, <3>2, <3>3, <3>4
    <3> HIDE DEF k, v, f
    <3> QED
      BY <3>5
  <2>2. \/ Sources(r, kvs, m) = {} /\ f[m] = r.new[m]
        \/ \E i \in Sources(r, kvs, m) : f[m] = Converted(r, kvs[i])
    BY AssignValue
  <2> HIDE DEF f
  <2> QED
    BY <2>1, <2>2
<1>4. ASSUME NEW k \in Reads(r)
      PROVE  /\ MemberOf(k) \in DOMAIN r.new
             /\ \/ f[MemberOf(k)] = r.new[MemberOf(k)]
                \/ \E v : /\ f[MemberOf(k)] = Converted(r, <<k, v>>)
                          /\ v \notin Doubles /\ v # Empty
                          /\ k \in Numbers(r) => v \notin Words
  BY <1>2, <1>3, OneKeyPerMember DEF SoundMembers
<1> HIDE DEF f
<1>5. ASSUME NEW k \in Reads(r)
      PROVE  /\ k \in r.ints =>
                  f[MemberOf(k)] \notin Words \cup LongNumbers
             /\ k \in r.reals => f[MemberOf(k)] \notin Words \cup {"fine", "least"}
             /\ k \in r.texts => f[MemberOf(k)] \notin Doubles
  <2>1. CASE f[MemberOf(k)] = r.new[MemberOf(k)]
    BY <2>1, <1>2, <1>4 DEF SoundMembers, LongNumbers, Doubles
  <2>2. CASE \E v : /\ f[MemberOf(k)] = Converted(r, <<k, v>>)
                    /\ v \notin Doubles /\ v # Empty
                    /\ k \in Numbers(r) => v \notin Words
    BY <2>2, <1>2, ConvertedValue
  <2> QED
    BY <1>4, <2>1, <2>2
<1>6. \A m \in DOMAIN r.new : f[m] = Empty => r.new[m] = Empty
  <2>1. \A k \in Reads(r) : \A v :
          v \notin Doubles /\ v # Empty /\ (k \in Numbers(r) => v \notin Words)
            => Converted(r, <<k, v>>) # Empty
    BY <1>2, ConvertedValue
  <2> QED
    BY <1>3, <2>1
<1>7. \A m \in DOMAIN r.new : m \notin {MemberOf(k) : k \in Reads(r)}
        => f[m] = r.new[m]
  BY <1>3
<1>8. /\ r.ints \subseteq Reads(r) /\ r.reals \subseteq Reads(r)
      /\ r.texts \subseteq Reads(r)
  BY DEF Reads
<1>9. Assigned(r, f)
  BY <1>1, <1>5, <1>6, <1>7, <1>8 DEF Assigned
<1> QED
  BY <1>9 DEF f

LEMMA PlansAlike ==
    \A t \in Plans : t \in Types /\ Resolver[t] = resolve_append_plan
BY DEF Plans, Types, Resolver, resolve_append_gwac, resolve_take_image

LEMMA PlanMembers ==
    /\ {"imgtype", "objid", "exptime"} \subseteq DOMAIN resolve_append_plan.new
    /\ {"imgtype", "objid"} \subseteq resolve_append_plan.texts
    /\ \A k \in Reads(resolve_append_plan) :
         MemberOf(k) \in {"imgtype", "objid"} => k = MemberOf(k)
BY DEF resolve_append_plan, KVAppPlan, Reads, MemberOf

LEMMA AmendAssigned ==
    ASSUME NEW f, Assigned(resolve_append_plan, f)
    PROVE  /\ Assigned(resolve_append_plan, AmendPlan(f))
           /\ AmendPlan(f).imgtype # Empty /\ AmendPlan(f).objid # Empty
           /\ \A m \in DOMAIN f \ {"imgtype", "objid"} : AmendPlan(f)[m] = f[m]
           /\ f.imgtype # Empty => AmendPlan(f).imgtype = f.imgtype
           /\ f.objid # Empty => AmendPlan(f).objid = f.objid
<1> DEFINE g == AmendPlan(f)
           r == resolve_append_plan
<1>1. SoundResolver(r)
  BY PlansAlike, ResolversSound DEF Plans
<1>2. /\ DOMAIN f = DOMAIN r.new /\ DOMAIN g = DOMAIN f
      /\ {"imgtype", "objid", "exptime"} \subseteq DOMAIN f
  BY PlanMembers DEF Assigned, AmendPlan
<1>3. \A m \in DOMAIN f \ {"imgtype", "objid"} : g[m] = f[m]
  BY <1>2 DEF AmendPlan
<1>4. /\ g.imgtype # Empty
      /\ f.imgtype # Empty => g.imgtype = f.imgtype
      /\ f.imgtype = Empty => g.imgtype \in {"BIAS", "OBJECT"}
  BY <1>2, EmptyApart DEF AmendPlan, Words
<1>5. /\ g.objid # Empty
      /\ f.objid # Empty => g.objid = f.objid
      /\ f.objid = Empty => g.objid \in {"bias", "dark", "flat", "focs", "objt"}
  BY <1>2, EmptyApart DEF AmendPlan, Words
<1> HIDE DEF g
<1>6. \A k \in Reads(r) : /\ MemberOf(k) \in DOMAIN f
                          /\ MemberOf(k) \in {"imgtype", "objid"}
                               => k \in r.texts
  BY <1>1, <1>2, PlanMembers DEF SoundResolver, SoundMembers
<1>7. r.ints \cap r.texts = {} /\ r.reals \cap r.texts = {}
  BY <1>1 DEF SoundResolver, SoundKeys, Numbers
<1>8. /\ r.ints \subseteq Reads(r) /\ r.reals \subseteq Reads(r)
      /\ r.texts \subseteq Reads(r)
  BY DEF Reads
<1> HIDE DEF r
<1>9. \A k \in r.ints \cup r.reals : g[MemberOf(k)] = f[MemberOf(k)]
  BY <1>3, <1>6, <1>7, <1>8
<1>10. \A k \in r.texts : g[MemberOf(k)] \notin Doubles
  <2>1. \A k \in r.texts : f[MemberOf(k)] \notin Doubles
    BY DEF Assigned, r
  <2>2. \A k \in r.texts : k \in Reads(r) /\ MemberOf(k) \in DOMAIN f
    BY <1>6, <1>8
  <2>3. {"BIAS", "OBJECT", "bias", "dark", "flat", "focs", "objt"} \cap Doubles = {}
    BY DEF Doubles
  <2> QED
    <3> SUFFICES ASSUME NEW k \in r.texts PROVE g[MemberOf(k)] \notin Doubles
      OBVIOUS
    <3> DEFINE m == MemberOf(k)
    <3>1. m \in DOMAIN f /\ f[m] \notin Doubles
      BY <2>1, <2>2
    <3> HIDE DEF m
    <3>2. g[m] \notin Doubles
      <4>1. CASE m = "imgtype"
        BY <1>4, <2>3, <3>1, <4>1
      <4>2. CASE m = "objid"
        BY <1>5, <2>3, <3>1, <4>2
      <4>3. CASE m \notin {"imgtype", "objid"}
        BY <1>3, <3>1, <4>3
      <4> QED
        BY <4>1, <4>2, <4>3
    <3> QED
      BY <3>2 DEF m
<1>11. \A m \in DOMAIN f : g[m] = Empty => f[m] = Empty
  BY <1>3, <1>4, <1>5
<1>12. \A m \in DOMAIN r.new : m \notin {MemberOf(k) : k \in Reads(r)}
         => g[m] = f[m]
  BY <1>2, <1>3, <1>6, <1>8, PlanMembers DEF r, MemberOf
<1>13. Assigned(r, g)
  BY <1>2, <1>9, <1>10, <1>11, <1>12 DEF Assigned, r
<1> QED
  BY <1>3, <1>4, <1>5, <1>13 DEF g, r

LEMMA BasisValue ==
    ASSUME NEW kvs, IsSeq(kvs), NEW k \in BaseKeys
    PROVE  LET at == {i \in Given(kvs) : kvs[i][1] = k}
           IN  \/ at = {} /\ Basis(kvs)[k] = Empty
               \/ \E i \in at : Basis(kvs)[k] = kvs[i][2]
<1> DEFINE at == {i \in Given(kvs) : kvs[i][1] = k}
<1>1. Basis(kvs)[k] = IF at = {} THEN Empty ELSE LastOf(kvs, at)[2]
  BY DEF Basis
<1>2. at \subseteq DOMAIN kvs
  BY DEF Given
<1> HIDE DEF at
<1>3. at # {} => \E i \in at : LastOf(kvs, at) = kvs[i]
  BY <1>2, LastIsOneOf
<1>4. \/ at = {} /\ Basis(kvs)[k] = Empty
      \/ \E i \in at : Basis(kvs)[k] = kvs[i][2]
  BY <1>1, <1>3
<1> QED
  BY <1>4 DEF at

(* The extras of a plan are pairs of the line that the plan does not know. *)
LEMMA LeftoverShape ==
    ASSUME NEW t, NEW kvs, IsSeq(kvs)
    PROVE  /\ IsSeq(Leftover(t, kvs))
           /\ t \notin Plans => Leftover(t, kvs) = <<>>
           /\ t \in Plans =>
                Range(Leftover(t, kvs)) =
                  {kvs[i] : i \in {j \in Others(kvs) :
                                     kvs[j][1]
                                       \notin Reads(resolve_append_plan)}}
<1> DEFINE P == {i \in Others(kvs) :
           kvs[i][1] \notin Reads(resolve_append_plan)}
<1>1. P \in SUBSET DOMAIN kvs
  BY DEF Others, Given
<1>2. Leftover(t, kvs) = IF t \in Plans THEN Picked(kvs, P) ELSE <<>>
  BY DEF Leftover
<1> HIDE DEF P
<1>3. IsSeq(Picked(kvs, P)) /\ Range(Picked(kvs, P)) = {kvs[i] : i \in P}
  BY <1>1, PickedShape
<1>4. /\ IsSeq(Leftover(t, kvs))
      /\ t \notin Plans => Leftover(t, kvs) = <<>>
      /\ t \in Plans => Range(Leftover(t, kvs)) = {kvs[i] : i \in P}
  BY <1>2, <1>3, EmptyIsSeq
<1> QED
  BY <1>4 DEF P

LEMMA ResolveParts ==
    ASSUME NEW l
    PROVE  /\ Resolve(l).type = l.type /\ Resolve(l).base = Basis(l.kvs)
           /\ Resolve(l).kvs = Leftover(l.type, l.kvs)
           /\ Resolve(l).f = IF l.type \in Plans
                             THEN AmendPlan(Assign(Resolver[l.type], l.kvs))
                             ELSE Assign(Resolver[l.type], l.kvs)
           /\ Resolve(l) = [type |-> Resolve(l).type, base |-> Resolve(l).base,
                            kvs |-> Resolve(l).kvs, f |-> Resolve(l).f]
BY DEF Resolve

LEMMA ReadWell ==
    ASSUME NEW l, Readable(l) PROVE WellFormed(Resolve(l))
<1> DEFINE h == Resolve(l)
           r == Resolver[l.type]
<1>1. /\ l.type \in Types /\ IsSeq(l.kvs) /\ ~Worded(r, l.kvs)
      /\ SoundResolver(r)
      /\ \A p \in Range(l.kvs) : p = <<p[1], p[2]>> /\ p[2] \notin Doubles
  BY ResolversSound DEF Readable
<1>2. /\ h.type = l.type /\ h.base = Basis(l.kvs)
      /\ h.kvs = Leftover(l.type, l.kvs)
      /\ h.f = IF l.type \in Plans THEN AmendPlan(Assign(r, l.kvs))
           ELSE Assign(r, l.kvs)
      /\ h = [type |-> h.type, base |-> h.base, kvs |-> h.kvs, f |-> h.f]
  BY ResolveParts
<1> HIDE DEF h
<1>3. Assigned(r, Assign(r, l.kvs))
  BY <1>1, AssignAssigned
<1>4. /\ Assigned(r, h.f)
      /\ h.type \in Plans => h.f.imgtype # Empty /\ h.f.objid # Empty
  <2>1. CASE l.type \in Plans
    BY <2>1, <1>2, <1>3, PlansAlike, AmendAssigned
  <2>2. CASE l.type \notin Plans
    BY <2>2, <1>2, <1>3
  <2> QED
    BY <2>1, <2>2
<1>5. /\ h.base = [k \in BaseKeys |-> h.base[k]]
      /\ \A k \in BaseKeys : h.base[k] \notin Doubles
  <2>1. Basis(l.kvs) = [k \in BaseKeys |-> Basis(l.kvs)[k]]
    BY DEF Basis
  <2>2. ASSUME NEW k \in BaseKeys PROVE Basis(l.kvs)[k] \notin Doubles
    <3>1. \A i \in Given(l.kvs) : l.kvs[i][2] \notin Doubles
      BY <1>1 DEF Given, Range
    <3>2. Empty \notin Doubles
      BY EmptyApart DEF LongNumbers, Doubles
    <3> QED
      BY <1>1, <3>1, <3>2, BasisValue
  <2> QED
    BY <1>2, <2>1, <2>2
<1>6. /\ IsSeq(h.kvs) /\ \A p \in Range(h.kvs) : Extra(p)
      /\ h.type \notin Plans => h.kvs = <<>>
  <2>1. ASSUME NEW i \in Others(l.kvs),
               l.kvs[i][1] \notin Reads(resolve_append_plan)
        PROVE  Extra(l.kvs[i])
    BY <1>1, <2>1 DEF Others, Given, Extra, Range
  <2>2. CASE l.type \in Plans
    BY <2>1, <2>2, <1>1, <1>2, LeftoverShape
  <2>3. CASE l.type \notin Plans
    BY <2>3, <1>1, <1>2, LeftoverShape, EmptyIsSeq
  <2> QED
    BY <2>2, <2>3
<1>7. WellFormed(h)
  BY <1>1, <1>2, <1>4, <1>5, <1>6 DEF WellFormed
<1> QED
  BY <1>7 DEF h

(* What is printed has a member, and is read but for two keywords. *)
LEMMA ShownKnown ==
    ASSUME NEW t \in Types, NEW f
    PROVE  \A k \in Shown(t, f) : /\ k \in Reads(Resolver[t])
                                       \cup {"epoch", "coorsys"}
                                  /\ MemberOf(k) \in DOMAIN Resolver[t].new
<1> USE DEF Shown, Plans, Any, MemberOf, Reads
<1>1. CASE t \in Plans
  <2>1. Shown(t, f) \subseteq PlanAlways \cup PlanIfAny
            \cup {"ra", "dec", "epoch", "azi", "ele", "tle1", "tle2"}
    BY <1>1 DEF PlanPlace
  <2>2. Resolver[t] = resolve_append_plan
    BY <1>1, PlansAlike
  <2>3. \A k \in PlanAlways \cup PlanIfAny
                   \cup {"ra", "dec", "epoch", "azi", "ele", "tle1", "tle2"} :
          /\ k \in Reads(resolve_append_plan) \cup {"epoch", "coorsys"}
          /\ MemberOf(k) \in DOMAIN resolve_append_plan.new
    BY DEF resolve_append_plan, KVAppPlan, PlanAlways, PlanIfAny
  <2> HIDE DEF Shown, Plans, Any, MemberOf, Reads
  <2> QED
    BY <2>1, <2>2, <2>3
<1>2. CASE t = "check_plan"
  BY <1>2 DEF Types, Resolver, resolve_check_plan, KVCheckPlan
<1>3. CASE t = "remove_plan"
  BY <1>3 DEF Types, Resolver, resolve_remove_plan, KVRemovePlan
<1>4. CASE t = "plan"
  BY <1>4 DEF Types, Resolver, resolve_plan, KVPlan
<1>5. CASE t = "abort"
  BY <1>5 DEF Types, Resolver, resolve_abort, Nothing, KVAbort, NoMembers
<1>6. CASE t = "obss"
  BY <1>6 DEF Types, Resolver, resolve_obss, KVOBSS
<1>7. CASE t = "slew"
  BY <1>7 DEF Types, Resolver, resolve_slewto, KVSlewto, COORSYS_EQUA,
     SlewPlace, COORSYS_ALTAZ
<1>8. CASE t = "park"
  BY <1>8 DEF Types, Resolver, resolve_park, Nothing, KVPark, NoMembers
<1>9. CASE t = "guide"
  BY <1>9 DEF Types, Resolver, resolve_guide, KVGuide, GuidePlace
<1>10. CASE t = "home"
  BY <1>10 DEF Types, Resolver, resolve_home, Nothing, KVHome, NoMembers
<1>11. CASE t = "sync"
  BY <1>11 DEF Types, Resolver, resolve_sync, KVSync
<1>12. CASE t = "track"
  BY <1>12 DEF Types, Resolver, resolve_track, Nothing, KVTrack, NoMembers
<1>13. CASE t = "trackvel"
  BY <1>13 DEF Types, Resolver, resolve_trackvel, KVTrackVel
<1>14. CASE t = "mount"
  BY <1>14 DEF Types, Resolver, resolve_mount, KVMount
<1>15. CASE t = "expose"
  BY <1>15 DEF Types, Resolver, resolve_expose, KVExpose
<1>16. CASE t = "camset"
  BY <1>16 DEF Types, Resolver, resolve_camset, KVCamSet, CamSetKeys, Dim, Wide
<1>17. CASE t = "camera"
  BY <1>17 DEF Types, Resolver, resolve_camera, KVCamera
<1>18. CASE t = "focus"
  BY <1>18 DEF Types, Resolver, resolve_focus, KVFocus, FocusKeys
<1>19. CASE t = "focus_sync"
  BY <1>19 DEF Types, Resolver, resolve_focus_sync, Nothing, KVFocusSync,
     NoMembers
<1>20. CASE t = "fwhm"
  BY <1>20 DEF Types, Resolver, resolve_fwhm, KVFWHM
<1>21. CASE t = "derot"
  BY <1>21 DEF Types, Resolver, resolve_derot, KVDerot, DerotKeys
<1>22. CASE t = "dome"
  BY <1>22 DEF Types, Resolver, resolve_dome, KVDome, DomeKeys
<1>23. CASE t = "mcover"
  BY <1>23 DEF Types, Resolver, resolve_mcover, KVMirrCover, CoverKeys
<1>24. CASE t = "filter"
  BY <1>24 DEF Types, Resolver, resolve_filter, KVFilter
<1> QED
  BY <1>1, <1>2, <1>3, <1>4, <1>5, <1>6, <1>7, <1>8, <1>9, <1>10, <1>11, <1>12,
     <1>13, <1>14, <1>15, <1>16, <1>17, <1>18, <1>19, <1>20, <1>21, <1>22,
     <1>23, <1>24 DEF Types

(***************************************************************************)
(* What is written can be read                                             *)
(***************************************************************************)

(* operator<< *)
Digits(v) == CASE v = "precise" -> "coarse"
               [] v = "tiny"    -> "subnormal"
               [] OTHER         -> v

LEMMA JoinedPair ==
    ASSUME NEW k, NEW v
    PROVE  /\ join_kv(k, v) = <<k, Digits(v)>>
           /\ join_kv(k, v)[1] = k /\ join_kv(k, v)[2] = Digits(v)
BY DEF join_kv, Digits

LEMMA DigitsValue ==
    ASSUME NEW v
    PROVE  /\ Digits(v) \notin Doubles
           /\ Digits(v) = Empty <=> v = Empty
           /\ Digits(v) = "undef" <=> v = "undef"
           /\ v \notin Words => Digits(v) \notin Words
BY EmptyApart DEF Digits, Words, Doubles, LongNumbers

LEMMA BaseLine ==
    ASSUME NEW base
    PROVE  /\ IsSeq(BaseToString(base))
           /\ Range(BaseToString(base)) =
                {join_kv(k, base[k]) : k \in Any(base, BaseKeys)}
<1> DEFINE p1 == IfAny(base, "utc") \o IfAny(base, "gid")
           p2 == p1 \o IfAny(base, "uid")
           keys == p2 \o IfAny(base, "cid")
           K == Any(base, BaseKeys)
<1>1. Lists(keys, Any(base, {"utc"}) \cup Any(base, {"gid"})
        \cup Any(base, {"uid"})
                    \cup Any(base, {"cid"}))
  BY IfAnyList, JoinedLists
<1>2. Any(base, {"utc"}) \cup Any(base, {"gid"}) \cup Any(base, {"uid"})
        \cup Any(base, {"cid"}) = K
  BY DEF Any, BaseKeys
<1>3. BaseToString(base) = Written(keys, base)
  BY DEF BaseToString
<1>4. \A k \in K : MemberOf(k) = k
  BY DEF Any, BaseKeys, MemberOf
<1> HIDE DEF keys, K
<1>5. /\ IsSeq(Written(keys, base))
      /\ Range(Written(keys, base)) = {join_kv(k, base[MemberOf(k)]) : k \in K}
  BY <1>1, <1>2, WrittenShape
<1>6. /\ IsSeq(BaseToString(base))
      /\ Range(BaseToString(base)) = {join_kv(k, base[k]) : k \in K}
  BY <1>3, <1>4, <1>5
<1> QED
  BY <1>6 DEF K

LEMMA WrittenPairs ==
    ASSUME NEW h, WellFormed(h)
    PROVE  /\ ToString(h) = [type |-> h.type, kvs |-> ToString(h).kvs]
           /\ ToString(h).type = h.type
           /\ IsSeq(ToString(h).kvs)
           /\ Range(ToString(h).kvs) =
                {join_kv(k, h.base[k]) : k \in Any(h.base, BaseKeys)}
                \cup {join_kv(k, h.f[MemberOf(k)]) : k \in Shown(h.type, h.f)}
                \cup Range(h.kvs)
<1> DEFINE b == BaseToString(h.base)
           w == Written(Printed(h.type, h.f), h.f)
<1>1. ToString(h) = [type |-> h.type, kvs |-> b \o w \o h.kvs]
  BY DEF ToString
<1>2. IsSeq(b) /\ Range(b) = {join_kv(k, h.base[k]) :
        k \in Any(h.base, BaseKeys)}
  BY BaseLine
<1>3. /\ IsSeq(w)
      /\ Range(w) = {join_kv(k, h.f[MemberOf(k)]) : k \in Shown(h.type, h.f)}
  BY PrintedList, WrittenShape DEF WellFormed
<1>4. IsSeq(h.kvs)
  BY DEF WellFormed
<1> HIDE DEF b, w
<1>5. IsSeq(b \o w \o h.kvs) /\ Range(b \o w \o h.kvs) = Range(b) \cup Range(w)
        \cup Range(h.kvs)
  BY <1>2, <1>3, <1>4, JoinedSeqs
<1> QED
  BY <1>1, <1>2, <1>3, <1>5

(* The three kinds of pairs of a written line *)
LEMMA WrittenPair ==
    ASSUME NEW h, WellFormed(h), NEW p \in Range(ToString(h).kvs)
    PROVE  \/ \E k \in Any(h.base, BaseKeys) :
                p = <<k, Digits(h.base[k])>> /\ p[1] = k
                  /\ p[2] = Digits(h.base[k])
           \/ \E k \in Shown(h.type, h.f) :
                /\ p = <<k, Digits(h.f[MemberOf(k)])>>
                /\ p[1] = k /\ p[2] = Digits(h.f[MemberOf(k)])
           \/ h.type \in Plans /\ p \in Range(h.kvs) /\ Extra(p)
<1>1. \/ \E k \in Any(h.base, BaseKeys) : p = join_kv(k, h.base[k])
      \/ \E k \in Shown(h.type, h.f) : p = join_kv(k, h.f[MemberOf(k)])
      \/ p \in Range(h.kvs)
  BY WrittenPairs
<1>2. p \in Range(h.kvs) => h.type \in Plans /\ Extra(p)
  BY EmptyIsSeq DEF WellFormed
<1> QED
  BY <1>1, <1>2, JoinedPair

(* A number is printed as one. *)
LEMMA NumbersPrinted ==
    ASSUME NEW r, NEW f, Assigned(r, f), NEW k \in Numbers(r)
    PROVE  Digits(f[MemberOf(k)]) \notin Words
BY DigitsValue DEF Assigned, Numbers

(* A line that is written by the program can be read by it. *)
LEMMA WrittenReadable ==
    ASSUME NEW h, WellFormed(h) PROVE Readable(ToString(h))
<1> DEFINE l == ToString(h)
           r == Resolver[h.type]
<1>1. /\ l = [type |-> h.type, kvs |-> l.kvs] /\ l.type = h.type /\ IsSeq(l.kvs)
      /\ h.type \in Types /\ SoundKeys(r) /\ Assigned(r, h.f)
  BY WrittenPairs, ResolversSound DEF WellFormed, SoundResolver
<1>2. ASSUME NEW p \in Range(l.kvs) PROVE p = <<p[1], p[2]>> /\ p[2] \notin Doubles
  BY WrittenPair, DigitsValue DEF Extra
<1>3. ~Worded(r, l.kvs)
  <2> SUFFICES ASSUME NEW i \in Others(l.kvs), l.kvs[i][1] \in Numbers(r),
                      l.kvs[i][2] \in Words
               PROVE  FALSE
    BY DEF Worded
  <2>1. l.kvs[i] \in Range(l.kvs) /\ l.kvs[i][1] \notin BaseKeys
    BY DEF Others, Given, Range
  <2> DEFINE p == l.kvs[i]
  <2>2. ~\E k \in Any(h.base, BaseKeys) : p[1] = k
    BY <2>1 DEF Any
  <2>3. ASSUME NEW k \in Shown(h.type, h.f),
               p[1] = k, p[2] = Digits(h.f[MemberOf(k)])
        PROVE  FALSE
    BY <2>3, <1>1, NumbersPrinted
  <2>4. ~(h.type \in Plans /\ Extra(p))
    BY PlansAlike DEF Extra, Reads, Numbers
  <2> HIDE DEF p
  <2>5. p \in Range(l.kvs)
    BY <2>1 DEF p
  <2> QED
    BY <2>2, <2>3, <2>4, <2>5, WrittenPair
<1> QED
  BY <1>1, <1>2, <1>3 DEF Readable

(***************************************************************************)
(* Own lines                                                               *)
(***************************************************************************)

LEMMA LineOfOthers ==
    ASSUME NEW l \in Lines
    PROVE  /\ l = [type |-> l.type, kvs |-> l.kvs] /\ IsSeq(l.kvs)
           /\ \A p \in Range(l.kvs) : p = <<p[1], p[2]>>
                /\ p[2] \notin MemberValues
<1> DEFINE S == STRING \X (STRING \ MemberValues)
<1>1. l \in [type : STRING, kvs : Seq(S)]
  BY KVOK
<1>2. \A p \in S : p = <<p[1], p[2]>> /\ p[2] \notin MemberValues
  OBVIOUS
<1> HIDE DEF S
<1>3. l = [type |-> l.type, kvs |-> l.kvs] /\ l.kvs \in Seq(S)
  BY <1>1
<1> QED
  BY <1>2, <1>3, MemberIsSeq

LEMMA LineReadable ==
    ASSUME NEW l \in Lines, l.type \in Types, ~Throws(Resolver[l.type], l.kvs)
    PROVE  Readable(l)
BY LineOfOthers, ThrowsWords DEF Readable, MemberValues, Doubles

LEMMA NotNull ==
    /\ \A h : WellFormed(h) => h # Null
    /\ \A l : Readable(l) => l # Null
<1>1. \A a, b, c, d : [type |-> a, base |-> b, kvs |-> c, f |-> d] # Null
  BY DEF Null
<1>2. \A a, b : [type |-> a, kvs |-> b] # Null
  BY DEF Null
<1> QED
  BY <1>1, <1>2 DEF WellFormed, Readable

(* The inductive invariant: a message that is held can be written, and a line
   that was written can be read. *)
OwnInv ==
    /\ sent \in Lines /\ hops \in Nat
    /\ held # Null => hops > 0 /\ WellFormed(held)
    /\ line # Null => IF hops = 0 THEN line = sent ELSE Readable(line)
    /\ OwnLinesAreSafe

LEMMA OwnInductive == OwnInv /\ [Next]_vars => OwnInv'
<1> SUFFICES ASSUME OwnInv, [Next]_vars PROVE OwnInv'
  OBVIOUS
<1> USE DEF OwnInv, OwnLinesAreSafe
<1>1. CASE Refuse
  <2>1. hops = 0
    BY <1>1 DEF Refuse, Readable
  <2> QED
    BY <1>1, <2>1 DEF Refuse
<1>2. CASE Die
  <2>1. /\ line' = line /\ held' = held /\ hops' = hops /\ sent' = sent
        /\ line # Null
        /\ Throws(Resolver[line.type], line.kvs) \/ MayThrow(Resolver[line.type], line.kvs)
    BY <1>2 DEF Die
  <2>2. ASSUME hops > 0
        PROVE  \E i \in Others(line.kvs) :
                 /\ line.kvs[i][1] \in Resolver[line.type].reals
                 /\ line.kvs[i][2] \in {"undef", "subnormal"}
    <3>1. ~Worded(Resolver[line.type], line.kvs)
      BY <2>1, <2>2 DEF Readable
    <3> QED
      BY <2>1, <3>1 DEF Throws, MayThrow, Worded, Numbers
  <2> QED
    BY <2>1, <2>2
<1>3. CASE Receive
  <2>1. Readable(line)
    BY <1>3, LineReadable DEF Receive
  <2>2. WellFormed(held') /\ held' # Null
    BY <1>3, <2>1, ReadWell, NotNull DEF Receive
  <2>3. line' = Null /\ hops' = hops + 1 /\ hops' > 0 /\ hops' \in Nat
    BY <1>3 DEF Receive
  <2>4. sent' = sent /\ alive' = alive /\ alive
    BY <1>3 DEF Receive
  <2> QED
    BY <2>2, <2>3, <2>4
<1>4. CASE Send
  <2>1. WellFormed(held) /\ hops > 0 /\ hops' = hops
    BY <1>4 DEF Send
  <2>2. Readable(line') /\ line' # Null
    BY <1>4, <2>1, WrittenReadable, NotNull DEF Send
  <2>3. held' = Null /\ sent' = sent /\ alive' = alive /\ alive
    BY <1>4 DEF Send
  <2> QED
    BY <2>1, <2>2, <2>3
<1>5. CASE UNCHANGED vars
  BY <1>5 DEF vars
<1> QED
  BY <1>1, <1>2, <1>3, <1>4, <1>5 DEF Next

(* Whatever keywords and values the lines of clients and devices hold: a line
   that ToString has written is never refused by Resolve, never has a word where
   a number is read, and makes stod throw, which kills its reader
   (KVProtocol.cpp:173), only by a double that was never assigned or is printed
   below DBL_MIN. *)
THEOREM OwnLinesSafe == Spec => []OwnLinesAreSafe
<1>1. Init => OwnInv
  BY DEF Init, OwnInv, OwnLinesAreSafe
<1>2. OwnInv => OwnLinesAreSafe
  BY DEF OwnInv
<1> QED
  BY <1>1, <1>2, OwnInductive, PTL DEF Spec

(***************************************************************************)
(* Relays                                                                  *)
(***************************************************************************)

(* Reading back a printed value *)
LEMMA ReadBack ==
    ASSUME NEW r, SoundKeys(r), NEW f, Assigned(r, f), NEW k \in Reads(r)
    PROVE  Digits(Converted(r, <<k, Digits(f[MemberOf(k)])>>))
             = Digits(f[MemberOf(k)])
<1> DEFINE v == f[MemberOf(k)]
           c == Converted(r, <<k, Digits(v)>>)
<1>1. /\ k \in r.ints => c = stoi(Digits(v))
      /\ k \in r.reals => c = stod(Digits(v))
      /\ k \in r.texts => c = Digits(v)
  BY DEF Converted, SoundKeys, Numbers
<1>2. /\ k \in r.ints => v \notin LongNumbers
      /\ k \in r.reals => v \notin {"fine", "least"}
      /\ k \in r.texts => v \notin Doubles
  BY DEF Assigned
<1> HIDE DEF c, v
<1>3. Digits(c) = Digits(v)
  BY <1>1, <1>2 DEF Reads, Digits, stoi, stod, LongNumbers, Doubles
<1> QED
  BY <1>3 DEF c, v

(* The pairs of a written line that are read into a member are all the one
   that ToString printed for it. *)
LEMMA SourcesOfWritten ==
    ASSUME NEW h, WellFormed(h), NEW k \in Reads(Resolver[h.type])
    PROVE  LET kvs == ToString(h).kvs
               v   == h.f[MemberOf(k)]
               S   == Sources(Resolver[h.type], kvs, MemberOf(k))
           IN  /\ \A i \in S : /\ kvs[i] = <<k, Digits(v)>>
                               /\ k \in Shown(h.type, h.f) /\ v # Empty
               /\ k \in Shown(h.type, h.f) /\ v # Empty => S # {}
<1> DEFINE kvs == ToString(h).kvs
           r   == Resolver[h.type]
           v   == h.f[MemberOf(k)]
           S   == Sources(r, kvs, MemberOf(k))
<1>1. /\ h.type \in Types /\ SoundKeys(r) /\ k \notin BaseKeys \cup {Empty}
      /\ h.type \in Plans => r = resolve_append_plan
  BY ResolversSound, PlansAlike DEF WellFormed, SoundResolver, SoundKeys
<1>2. ASSUME NEW i \in S
      PROVE  kvs[i] = <<k, Digits(v)>> /\ k \in Shown(h.type, h.f) /\ v # Empty
  <2>1. /\ i \in DOMAIN kvs /\ kvs[i][2] # Empty /\ kvs[i][1] \notin BaseKeys
        /\ kvs[i][1] \in Reads(r) /\ MemberOf(kvs[i][1]) = MemberOf(k)
    BY DEF Sources, Others, Given
  <2>2. kvs[i][1] = k
    BY <1>1, <2>1, OneKeyPerMember
  <2>3. kvs[i] \in Range(kvs)
    BY <2>1 DEF Range
  <2>4. \E j \in Shown(h.type, h.f) :
          /\ kvs[i] = <<j, Digits(h.f[MemberOf(j)])>> /\ kvs[i][1] = j
          /\ kvs[i][2] = Digits(h.f[MemberOf(j)])
    BY <1>1, <2>1, <2>2, <2>3, WrittenPair DEF Any, Extra
  <2> QED
    BY <2>1, <2>2, <2>4, DigitsValue
<1>3. ASSUME k \in Shown(h.type, h.f), v # Empty PROVE S # {}
  <2>1. join_kv(k, v) \in Range(kvs)
    BY <1>3, WrittenPairs
  <2>2. PICK i \in DOMAIN kvs : kvs[i] = join_kv(k, v)
    BY <2>1 DEF Range
  <2>3. kvs[i][1] = k /\ kvs[i][2] = Digits(v) /\ Digits(v) # Empty
    BY <1>3, <2>2, JoinedPair, DigitsValue
  <2>4. i \in Others(kvs)
    BY <1>1, <2>2, <2>3 DEF Others, Given
  <2> QED
    BY <2>3, <2>4 DEF Sources
<1> QED
  BY <1>2, <1>3

LEMMA AssignWritten ==
    ASSUME NEW h, WellFormed(h), NEW k \in Reads(Resolver[h.type])
    PROVE  LET r == Resolver[h.type]
               m == MemberOf(k)
               a == Assign(r, ToString(h).kvs)
           IN  /\ k \in Shown(h.type, h.f) => Digits(a[m]) = Digits(h.f[m])
               /\ k \notin Shown(h.type, h.f) => a[m] = r.new[m]
<1> DEFINE r == Resolver[h.type]
           m == MemberOf(k)
           v == h.f[m]
           kvs == ToString(h).kvs
           a == Assign(r, kvs)
           S == Sources(r, kvs, m)
<1>1. /\ SoundResolver(r) /\ SoundKeys(r) /\ Assigned(r, h.f)
      /\ m \in DOMAIN r.new
  BY ResolversSound DEF WellFormed, SoundResolver, SoundMembers
<1>2. \/ S = {} /\ a[m] = r.new[m]
      \/ \E i \in S : a[m] = Converted(r, kvs[i])
  BY <1>1, WrittenPairs, AssignValue
<1>3. /\ \A i \in S : kvs[i] = <<k, Digits(v)>> /\ k \in Shown(h.type, h.f)
           /\ v # Empty
      /\ k \in Shown(h.type, h.f) /\ v # Empty => S # {}
  BY SourcesOfWritten
<1>4. Digits(Converted(r, <<k, Digits(v)>>)) = Digits(v)
  BY <1>1, ReadBack
<1>5. v = Empty => r.new[m] = Empty
  BY <1>1 DEF Assigned
<1> HIDE DEF S, a, v, r, m, kvs
<1>6. /\ k \in Shown(h.type, h.f) => Digits(a[m]) = Digits(v)
      /\ k \notin Shown(h.type, h.f) => a[m] = r.new[m]
  BY <1>2, <1>3, <1>4, <1>5
<1> QED
  BY <1>6 DEF a, v, r, m, kvs
LEMMA BaseKeysApart == Empty \notin BaseKeys
BY DEF Empty, BaseKeys

(* The members of the base class are read as they were printed. *)
LEMMA BasisWritten ==
    ASSUME NEW h, WellFormed(h)
    PROVE  Basis(ToString(h).kvs) = h.base
<1> DEFINE kvs == ToString(h).kvs
<1>1. h.base = [k \in BaseKeys |-> h.base[k]] /\ h.type \in Types
  BY DEF WellFormed
<1>2. ASSUME NEW k \in BaseKeys PROVE Basis(kvs)[k] = h.base[k]
  <2> DEFINE at == {i \in Given(kvs) : kvs[i][1] = k}
             v == h.base[k]
  <2>1. v \notin Doubles /\ Digits(v) = v
    BY DEF WellFormed, Digits, Doubles
  <2>2. ASSUME NEW i \in at PROVE kvs[i][2] = v /\ v # Empty
    <3>1. i \in DOMAIN kvs /\ kvs[i][1] = k /\ kvs[i][2] # Empty
      BY DEF Given
    <3>2. kvs[i] \in Range(kvs)
      BY <3>1 DEF Range
    <3>3. ~\E j \in Shown(h.type, h.f) : j = k
      <4>1. k \notin Reads(Resolver[h.type]) \cup {"epoch", "coorsys"}
        BY <1>1, ResolversSound DEF SoundResolver, SoundKeys, BaseKeys
      <4> QED
        BY <1>1, <4>1, ShownKnown
    <3>4. \E j \in Any(h.base, BaseKeys) :
            kvs[i][1] = j /\ kvs[i][2] = Digits(h.base[j])
      BY <3>1, <3>2, <3>3, WrittenPair DEF Extra
    <3> QED
      BY <2>1, <3>1, <3>4
  <2>3. v # Empty => at # {}
    <3> SUFFICES ASSUME v # Empty PROVE at # {}
      OBVIOUS
    <3>1. k \in Any(h.base, BaseKeys) /\ k # Empty
      <4>1. k # Empty
        BY BaseKeysApart
      <4> QED
        BY <4>1 DEF Any
    <3>2. join_kv(k, v) \in Range(kvs)
      BY <3>1, WrittenPairs
    <3>3. PICK i \in DOMAIN kvs : kvs[i] = join_kv(k, v)
      BY <3>2 DEF Range
    <3>4. kvs[i][1] = k /\ kvs[i][2] = v
      BY <2>1, <3>3, JoinedPair
    <3> QED
      BY <3>1, <3>3, <3>4 DEF Given
  <2>4. \/ at = {} /\ Basis(kvs)[k] = Empty
        \/ \E i \in at : Basis(kvs)[k] = kvs[i][2]
    BY WrittenPairs, BasisValue
  <2> HIDE DEF at, v, kvs
  <2>5. Basis(kvs)[k] = v
    BY <2>2, <2>3, <2>4
  <2> QED
    BY <2>5 DEF v
<1>3. Basis(kvs) = [k \in BaseKeys |-> Basis(kvs)[k]]
  BY DEF Basis
<1> HIDE DEF kvs
<1>4. Basis(kvs) = h.base
  BY <1>1, <1>2, <1>3
<1> QED
  BY <1>4 DEF kvs

(* What a plan always has, it always prints. *)
LEMMA PlanNames ==
    ASSUME NEW h, WellFormed(h), h.type \in Plans
    PROVE  {"imgtype", "objid"} \subseteq Shown(h.type, h.f)
<1>1. h.f.objid # Empty
  BY DEF WellFormed
<1>2. "objid" \in Any(h.f, PlanIfAny) /\ "imgtype" \in PlanAlways
  BY <1>1 DEF PlanIfAny, PlanAlways, Any
<1>3. Shown(h.type, h.f) = PlanAlways \cup PlanPlace(h.f)
        \cup Any(h.f, PlanIfAny)
  BY DEF Shown, Plans
<1> QED
  BY <1>2, <1>3

(* The next reader: what was printed is read again, up to its digits, and the
   rest is as in a new message. *)
LEMMA Relayed ==
    ASSUME NEW h, WellFormed(h)
    PROVE  LET g == Resolve(ToString(h))
               r == Resolver[h.type]
           IN  /\ g.type = h.type /\ g.base = h.base
               /\ DOMAIN g.f = DOMAIN h.f /\ DOMAIN h.f = DOMAIN r.new
               /\ \A k \in Reads(r) :
                    IF k \in Shown(h.type, h.f)
                    THEN Digits(g.f[MemberOf(k)]) = Digits(h.f[MemberOf(k)])
                    ELSE g.f[MemberOf(k)] = r.new[MemberOf(k)]
               /\ \A m \in DOMAIN r.new :
                    m \notin {MemberOf(k) : k \in Reads(r)} =>
                    g.f[m] = h.f[m]
<1> DEFINE l == ToString(h)
           g == Resolve(l)
           r == Resolver[h.type]
           a == Assign(r, l.kvs)
<1>1. /\ Readable(l) /\ WellFormed(g) /\ l.type = h.type
      /\ g.type = h.type /\ g.base = h.base
  BY WrittenReadable, ReadWell, WrittenPairs, BasisWritten, ResolveParts
<1>2. g.f = IF h.type \in Plans THEN AmendPlan(a) ELSE a
  BY <1>1, ResolveParts
<1>3. /\ Assigned(r, g.f) /\ Assigned(r, h.f) /\ h.type \in Types
      /\ SoundResolver(r)
  BY <1>1, ResolversSound DEF WellFormed
<1>4. ASSUME NEW k \in Reads(r)
      PROVE  /\ k \in Shown(h.type, h.f)
                  => Digits(a[MemberOf(k)]) = Digits(h.f[MemberOf(k)])
             /\ k \notin Shown(h.type, h.f)
                  => a[MemberOf(k)] = r.new[MemberOf(k)]
  BY AssignWritten
<1>5. ASSUME NEW k \in Reads(r) PROVE g.f[MemberOf(k)] = a[MemberOf(k)]
  <2>1. CASE h.type \notin Plans
    BY <1>2, <2>1
  <2>2. CASE h.type \in Plans
    <3>1. r = resolve_append_plan
      BY <2>2, PlansAlike
    <3>2. Assigned(r, a)
      BY <1>1, <1>3, AssignAssigned DEF Readable
    <3>3. /\ \A m \in DOMAIN a \ {"imgtype", "objid"} : AmendPlan(a)[m] = a[m]
          /\ a.imgtype # Empty => AmendPlan(a).imgtype = a.imgtype
          /\ a.objid # Empty => AmendPlan(a).objid = a.objid
      BY <3>1, <3>2, AmendAssigned
    <3>4. a.imgtype # Empty /\ a.objid # Empty
      <4>1. /\ {"imgtype", "objid"} \subseteq Shown(h.type, h.f)
            /\ {"imgtype", "objid"} \subseteq Reads(r)
            /\ MemberOf("imgtype") = "imgtype" /\ MemberOf("objid") = "objid"
        BY <2>2, <3>1, PlanNames, PlanMembers DEF MemberOf, Reads
      <4>2. /\ Digits(a.imgtype) = Digits(h.f.imgtype)
            /\ Digits(a.objid) = Digits(h.f.objid)
        BY <1>4, <4>1
      <4>3. h.f.imgtype # Empty /\ h.f.objid # Empty
        BY <2>2 DEF WellFormed
      <4> QED
        BY <4>2, <4>3, DigitsValue
    <3>5. MemberOf(k) \in DOMAIN a
      BY <1>3, <3>2 DEF SoundResolver, SoundMembers, Assigned
    <3> HIDE DEF a
    <3> QED
      BY <1>2, <2>2, <3>3, <3>4, <3>5
  <2> QED
    BY <2>1, <2>2
<1>6. \A m \in DOMAIN r.new : m \notin {MemberOf(k) : k \in Reads(r)}
        => g.f[m] = h.f[m]
  BY <1>3 DEF Assigned
<1> QED
  BY <1>1, <1>3, <1>4, <1>5, <1>6 DEF Assigned
(* Of the types without a selection, what is not printed is as in a new
   message. *)
LEMMA Unshown ==
    ASSUME NEW t \in Types \ Selective, NEW f, Assigned(Resolver[t], f),
           NEW k \in Reads(Resolver[t]), k \notin Shown(t, f),
           MemberOf(k) # "epoch"
    PROVE  Digits(f[MemberOf(k)]) = Digits(Resolver[t].new[MemberOf(k)])
<1> USE DEF Shown, Plans, Reads
<1>1. CASE t = "check_plan"
  <2>1. k = "plan_sn" /\ MemberOf(k) = k /\ Resolver[t].new[k] = Empty
    BY <1>1 DEF Resolver, Types, resolve_check_plan, KVCheckPlan, MemberOf
  <2> QED
    BY <1>1, <2>1 DEF Any
<1>2. CASE t = "remove_plan"
  <2>1. k = "plan_sn" /\ MemberOf(k) = k /\ Resolver[t].new[k] = Empty
    BY <1>2 DEF Resolver, Types, resolve_remove_plan, KVRemovePlan, MemberOf
  <2> QED
    BY <1>2, <2>1 DEF Any
<1>3. CASE t = "plan"
  <2>1. /\ k \in {"state", "plan_sn", "tm_start", "tm_stop"} /\ MemberOf(k) = k
        /\ k # "state" => Resolver[t].new[k] = Empty
    BY <1>3 DEF Resolver, Types, resolve_plan, KVPlan, MemberOf
  <2> QED
    BY <1>3, <2>1 DEF Any
<1>4. CASE t = "guide"
  <2>1. /\ k \in {"ra", "dec", "result", "op"} /\ MemberOf(k) = k
        /\ k \in {"ra", "dec"} => Resolver[t].new[k] = "0"
    BY <1>4 DEF Resolver, Types, resolve_guide, KVGuide, MemberOf
  <2> QED
    BY <1>4, <2>1 DEF GuidePlace
<1>5. CASE t \in {"abort", "park", "home", "track", "focus_sync"}
  BY <1>5 DEF Resolver, Types, resolve_abort, resolve_park, resolve_home,
              resolve_track, resolve_focus_sync, Nothing
<1>6. CASE t = "obss"
  BY <1>6 DEF Resolver, Types, resolve_obss
<1>7. CASE t = "sync"
  BY <1>7 DEF Resolver, Types, resolve_sync, MemberOf
<1>8. CASE t = "trackvel"
  BY <1>8 DEF Resolver, Types, resolve_trackvel
<1>9. CASE t = "mount"
  BY <1>9 DEF Resolver, Types, resolve_mount
<1>10. CASE t = "expose"
  BY <1>10 DEF Resolver, Types, resolve_expose
<1>11. CASE t = "camera"
  BY <1>11 DEF Resolver, Types, resolve_camera
<1>12. CASE t = "fwhm"
  BY <1>12 DEF Resolver, Types, resolve_fwhm
<1>13. CASE t = "filter"
  BY <1>13 DEF Resolver, Types, resolve_filter
<1> QED
  BY <1>1, <1>2, <1>3, <1>4, <1>5, <1>6, <1>7, <1>8, <1>9, <1>10, <1>11, <1>12,
     <1>13 DEF Types, Selective

(* Two messages of a type that agree in what the first one prints *)
Agree(t, F, G) == \A k \in Shown(t, F) \cap Reads(Resolver[t]) :
                     Digits(G[MemberOf(k)]) = Digits(F[MemberOf(k)])

LEMMA SameDigits ==
    ASSUME NEW v, NEW w, Digits(v) = Digits(w)
    PROVE  \A c \in {"0", "1", "2", Empty} : v = c <=> w = c
BY EmptyApart DEF Digits, LongNumbers

(* What the position and the operation select depends on the digits only. *)
LEMMA PlanShown ==
    ASSUME NEW t \in Plans, NEW F, NEW G, Agree(t, F, G)
    PROVE  Shown(t, F) \subseteq Shown(t, G)
             /\ Digits(G.coorsys) = Digits(F.coorsys)
<1>1. /\ Resolver[t] = resolve_append_plan
      /\ Shown(t, F) = PlanAlways \cup PlanPlace(F) \cup Any(F, PlanIfAny)
      /\ Shown(t, G) = PlanAlways \cup PlanPlace(G) \cup Any(G, PlanIfAny)
  BY PlansAlike DEF Shown, Plans
<1>2. /\ "coor_sys" \in PlanAlways /\ MemberOf("coor_sys") = "coorsys"
      /\ "coor_sys" \in Reads(resolve_append_plan)
  BY DEF PlanAlways, MemberOf, Reads, resolve_append_plan
<1>3. Digits(G.coorsys) = Digits(F.coorsys)
  BY <1>1, <1>2 DEF Agree
<1>4. PlanPlace(F) = PlanPlace(G)
  <2>1. (F.coorsys = "0" <=> G.coorsys = "0")
          /\ (F.coorsys = "1" <=> G.coorsys = "1")
    BY <1>3, SameDigits
  <2> QED
    BY <2>1 DEF PlanPlace
<1>5. Any(F, PlanIfAny) \subseteq Any(G, PlanIfAny)
  <2> SUFFICES ASSUME NEW k \in PlanIfAny, F[k] # Empty PROVE G[k] # Empty
    BY DEF Any
  <2>1. k \in Reads(resolve_append_plan) /\ MemberOf(k) = k
    BY DEF PlanIfAny, Reads, resolve_append_plan, MemberOf
  <2>2. Digits(G[k]) = Digits(F[k])
    BY <1>1, <2>1 DEF Agree, Any
  <2> QED
    BY <2>2, SameDigits
<1> QED
  BY <1>1, <1>3, <1>4, <1>5

Operated == {"camset", "focus", "derot", "dome", "mcover"}

LEMMA OperatedShown ==
    ASSUME NEW t \in Operated, NEW F, NEW G, Agree(t, F, G)
    PROVE  Shown(t, F) = Shown(t, G)
<1>1. Digits(G.optype) = Digits(F.optype)
  <2>1. "optype" \in Shown(t, F)
    <3>1. CASE t = "camset"
      BY <3>1 DEF Shown, Plans, CamSetKeys
    <3>2. CASE t = "focus"
      BY <3>2 DEF Shown, Plans, FocusKeys
    <3>3. CASE t = "derot"
      BY <3>3 DEF Shown, Plans, DerotKeys
    <3>4. CASE t = "dome"
      BY <3>4 DEF Shown, Plans, DomeKeys
    <3>5. CASE t = "mcover"
      BY <3>5 DEF Shown, Plans, CoverKeys
    <3> QED
      BY <3>1, <3>2, <3>3, <3>4, <3>5 DEF Operated
  <2>2. "optype" \in Reads(Resolver[t])
    <3>1. CASE t = "camset"
      BY <3>1 DEF Resolver, Types, Reads, resolve_camset
    <3>2. CASE t = "focus"
      BY <3>2 DEF Resolver, Types, Reads, resolve_focus
    <3>3. CASE t = "derot"
      BY <3>3 DEF Resolver, Types, Reads, resolve_derot
    <3>4. CASE t = "dome"
      BY <3>4 DEF Resolver, Types, Reads, resolve_dome
    <3>5. CASE t = "mcover"
      BY <3>5 DEF Resolver, Types, Reads, resolve_mcover
    <3> QED
      BY <3>1, <3>2, <3>3, <3>4, <3>5 DEF Operated
  <2>3. MemberOf("optype") = "optype"
    BY DEF MemberOf
  <2> QED
    BY <2>1, <2>2, <2>3 DEF Agree
<1>2. \A c \in {"0", "1", "2"} : F.optype = c <=> G.optype = c
  BY <1>1, SameDigits
<1>3. /\ CamSetKeys(F) = CamSetKeys(G) /\ FocusKeys(F) = FocusKeys(G)
      /\ DerotKeys(F) = DerotKeys(G) /\ DomeKeys(F) = DomeKeys(G)
      /\ CoverKeys(F) = CoverKeys(G)
  BY <1>2 DEF CamSetKeys, FocusKeys, DerotKeys, DomeKeys, CoverKeys
<1> QED
  BY <1>3 DEF Operated, Shown, Plans
(* What the n-th reader, who holds h, has of the message g of the first one *)
Kept(g, h, n) ==
    /\ n = 1 => h = g
    /\ h.type = g.type /\ h.base = g.base
    /\ g.type = "slew" /\ n > 1 => h.f.coorsys = COORSYS_EQUA
    /\ IF g.type \notin Selective
       THEN \A m \in DOMAIN g.f \ {"epoch"} : Digits(h.f[m]) = Digits(g.f[m])
       ELSE \/ g.type = "slew" /\ g.f.coorsys # COORSYS_EQUA /\ n > 2
            \/ Agree(g.type, g.f, h.f)

LEMMA SlewShown ==
    /\ \A f : Shown("slew", f) = {"coorsys"} \cup SlewPlace(f)
    /\ "coor_sys" \in Reads(Resolver["slew"])
    /\ MemberOf("coor_sys") = "coorsys"
    /\ Resolver["slew"].new.coorsys = COORSYS_EQUA
    /\ \A f : "coor_sys" \notin Shown("slew", f)
<1>1. \A f : Shown("slew", f) = {"coorsys"} \cup SlewPlace(f)
  BY DEF Shown, Plans
<1>2. Resolver["slew"] = resolve_slewto
  BY DEF Resolver, Types
<1>3. /\ "coor_sys" \in Reads(resolve_slewto)
      /\ MemberOf("coor_sys") = "coorsys"
      /\ resolve_slewto.new.coorsys = COORSYS_EQUA
  BY DEF Reads, resolve_slewto, MemberOf, KVSlewto
<1>4. \A f : "coor_sys" \notin {"coorsys"} \cup SlewPlace(f)
  BY DEF SlewPlace
<1> QED
  BY <1>1, <1>2, <1>3, <1>4

LEMMA SelectiveTypes ==
    /\ Plans \cup Operated \cup {"slew"} = Selective
    /\ "slew" \notin Plans \cup Operated
    /\ Selective \subseteq Types
BY DEF Plans, Operated, Selective, Types

(* Only a slew prints its position's frame under the name of the member. *)
LEMMA FrameShown ==
    ASSUME NEW t \in Selective, NEW f, "coorsys" \in Shown(t, f)
    PROVE  t = "slew"
<1>1. CASE t \in Plans
  <2>1. Shown(t, f) = PlanAlways \cup PlanPlace(f) \cup Any(f, PlanIfAny)
    BY <1>1 DEF Shown, Plans
  <2>2. /\ "coorsys" \notin PlanAlways /\ "coorsys" \notin PlanPlace(f)
        /\ "coorsys" \notin Any(f, PlanIfAny)
    BY DEF PlanAlways, PlanPlace, Any, PlanIfAny
  <2> QED
    BY <2>1, <2>2
<1>2. CASE t = "camset"
  BY <1>2 DEF Shown, Plans, CamSetKeys, Dim, Wide
<1>3. CASE t = "focus"
  BY <1>3 DEF Shown, Plans, FocusKeys
<1>4. CASE t = "derot"
  BY <1>4 DEF Shown, Plans, DerotKeys
<1>5. CASE t = "dome"
  BY <1>5 DEF Shown, Plans, DomeKeys
<1>6. CASE t = "mcover"
  BY <1>6 DEF Shown, Plans, CoverKeys
<1> QED
  BY <1>1, <1>2, <1>3, <1>4, <1>5, <1>6, SelectiveTypes DEF Operated

(* A relay keeps what the message before it kept. *)
LEMMA KeptRelayed ==
    ASSUME NEW g, NEW h, NEW n \in Nat \ {0},
           WellFormed(g), WellFormed(h), Kept(g, h, n)
    PROVE  Kept(g, Resolve(ToString(h)), n + 1)
<1> DEFINE i == Resolve(ToString(h))
           r == Resolver[g.type]
<1>1. /\ h.type = g.type /\ h.base = g.base /\ g.type \in Types
      /\ n + 1 # 1 /\ n + 1 > 1 /\ (n > 1 => n + 1 > 2)
  BY DEF Kept, WellFormed
<1>2. /\ i.type = g.type /\ i.base = g.base
      /\ DOMAIN i.f = DOMAIN h.f /\ DOMAIN h.f = DOMAIN r.new
      /\ \A k \in Reads(r) :
           IF k \in Shown(g.type, h.f)
           THEN Digits(i.f[MemberOf(k)]) = Digits(h.f[MemberOf(k)])
           ELSE i.f[MemberOf(k)] = r.new[MemberOf(k)]
      /\ \A m \in DOMAIN r.new : m \notin {MemberOf(k) : k \in Reads(r)} =>
           i.f[m] = h.f[m]
  BY <1>1, Relayed
<1>3. DOMAIN g.f = DOMAIN r.new /\ Assigned(r, h.f)
  BY <1>1 DEF WellFormed, Assigned
<1> HIDE DEF i
<1>4. g.type = "slew" => i.f.coorsys = COORSYS_EQUA
  BY <1>2, SlewShown
<1>5. ASSUME g.type \notin Selective PROVE Kept(g, i, n + 1)
  <2>1. ASSUME NEW m \in DOMAIN g.f \ {"epoch"}
        PROVE Digits(i.f[m]) = Digits(g.f[m])
    <3>1. Digits(h.f[m]) = Digits(g.f[m])
      BY <1>5 DEF Kept
    <3>2. CASE m \notin {MemberOf(k) : k \in Reads(r)}
      BY <1>2, <1>3, <3>1, <3>2
    <3>3. ASSUME NEW k \in Reads(r), m = MemberOf(k)
          PROVE  Digits(i.f[m]) = Digits(h.f[m])
      <4>1. CASE k \in Shown(g.type, h.f)
        BY <1>2, <3>3, <4>1
      <4>2. CASE k \notin Shown(g.type, h.f)
        BY <1>1, <1>2, <1>3, <1>5, <3>3, <4>2, Unshown
      <4> QED
        BY <4>1, <4>2
    <3> QED
      BY <3>1, <3>2, <3>3
  <2> QED
    BY <1>1, <1>2, <1>4, <1>5, <2>1 DEF Kept
<1>6. ASSUME g.type \in Selective PROVE Kept(g, i, n + 1)
  <2>1. Agree(g.type, g.f, i.f) => Kept(g, i, n + 1)
    BY <1>1, <1>2, <1>4, <1>6 DEF Kept
  <2>2. ASSUME Agree(g.type, g.f, h.f),
               Shown(g.type, g.f) \subseteq Shown(g.type, h.f)
        PROVE  Agree(g.type, g.f, i.f)
    BY <1>2, <2>2 DEF Agree
  <2>3. CASE g.type \in Plans
    <3>1. Agree(g.type, g.f, h.f)
      BY <1>6, <2>3, SelectiveTypes DEF Kept
    <3> QED
      BY <2>1, <2>2, <2>3, <3>1, PlanShown
  <2>4. CASE g.type \in Operated
    <3>1. Agree(g.type, g.f, h.f)
      BY <1>6, <2>4, SelectiveTypes DEF Kept
    <3> QED
      BY <2>1, <2>2, <2>4, <3>1, OperatedShown
  <2>5. CASE g.type = "slew" /\ g.f.coorsys # COORSYS_EQUA /\ n > 1
    BY <1>1, <1>2, <1>4, <1>6, <2>5 DEF Kept
  <2>6. CASE g.type = "slew" /\ ~(g.f.coorsys # COORSYS_EQUA /\ n > 1)
    <3>1. Agree(g.type, g.f, h.f)
      BY <1>6, <2>6 DEF Kept
    <3>2. (h.f.coorsys = COORSYS_EQUA /\ g.f.coorsys = COORSYS_EQUA) \/ h = g
      BY <2>6 DEF Kept
    <3>3. Shown(g.type, g.f) = Shown(g.type, h.f)
      BY <2>6, <3>2, SlewShown DEF SlewPlace
    <3> QED
      BY <2>1, <2>2, <3>1, <3>3
  <2> QED
    BY <1>6, <2>3, <2>4, <2>5, <2>6, SelectiveTypes
<1>7. Kept(g, i, n + 1)
  BY <1>5, <1>6
<1> QED
  BY <1>7 DEF i

(* The inductive invariant: what is held, or would be read from the line, is
   kept of the first message. *)
RelayInv ==
    /\ OwnInv
    /\ hops > 0 => WellFormed(first)
    /\ held # Null => Kept(first, held, hops)
    /\ line # Null /\ hops > 0 => Kept(first, Resolve(line), hops + 1)

LEMMA KeptAtFirst == ASSUME NEW h PROVE Kept(h, h, 1)
BY DEF Kept, Agree

LEMMA RelayInductive == RelayInv /\ [Next]_vars => RelayInv'
<1> SUFFICES ASSUME RelayInv, [Next]_vars PROVE RelayInv'
  OBVIOUS
<1>1. OwnInv /\ OwnInv'
  BY OwnInductive DEF RelayInv
<1>2. CASE Refuse
  BY <1>1, <1>2 DEF Refuse, RelayInv
<1>3. CASE Die
  BY <1>1, <1>3 DEF Die, RelayInv
<1>4. CASE Receive
  <2>1. /\ held' = Resolve(line) /\ line' = Null /\ hops' = hops + 1
        /\ line # Null
        /\ first' = IF hops = 0 THEN held' ELSE first
        /\ hops \in Nat /\ hops' > 0
    BY <1>1, <1>4 DEF Receive, OwnInv
  <2>2. held' # Null => WellFormed(held')
    BY <1>1 DEF OwnInv
  <2>3. WellFormed(held')
    <3>1. Readable(line)
      BY <1>1, <1>4, LineReadable DEF Receive, OwnInv
    <3> QED
      BY <2>1, <3>1, ReadWell
  <2>4. CASE hops = 0
    BY <1>1, <2>1, <2>3, <2>4, KeptAtFirst DEF RelayInv
  <2>5. CASE hops # 0
    BY <1>1, <2>1, <2>5 DEF RelayInv
  <2> QED
    BY <2>4, <2>5
<1>5. CASE Send
  <2>1. /\ line' = ToString(held) /\ held # Null /\ held' = Null
        /\ UNCHANGED <<first, hops>>
    BY <1>5 DEF Send
  <2>2. WellFormed(held) /\ WellFormed(first) /\ Kept(first, held, hops)
        /\ hops \in Nat \ {0}
    BY <1>1, <2>1 DEF RelayInv, OwnInv
  <2>3. Kept(first, Resolve(line'), hops + 1)
    BY <2>1, <2>2, KeptRelayed
  <2> QED
    BY <1>1, <2>1, <2>2, <2>3 DEF RelayInv
<1>6. CASE UNCHANGED vars
  BY <1>1, <1>6 DEF vars, RelayInv
<1> QED
  BY <1>2, <1>3, <1>4, <1>5, <1>6 DEF Next

LEMMA KeptIsRelayed ==
    ASSUME NEW g, NEW h, NEW n, n > 1, WellFormed(g), Kept(g, h, n)
    PROVE  /\ h.type = g.type /\ h.base = g.base
           /\ LET members == IF g.type \notin Selective THEN DOMAIN g.f
                    ELSE {MemberOf(key) : key \in Range(Printed(g.type, g.f))}
              IN \A m \in members \ {"epoch"} :
                   \/ g.type = "slew" /\ m = "coorsys"
                   \/ g.type = "slew" /\ g.f.coorsys # COORSYS_EQUA /\ n > 2
                   \/ join_kv(m, h.f[m]) = join_kv(m, g.f[m])
<1>1. \A m, v, w : Digits(v) = Digits(w) => join_kv(m, v) = join_kv(m, w)
  BY JoinedPair
<1>2. CASE g.type \notin Selective
  BY <1>1, <1>2 DEF Kept
<1>3. CASE g.type \in Selective
  <2>1. g.type \in Types /\ Range(Printed(g.type, g.f)) = Shown(g.type, g.f)
    BY PrintedList DEF WellFormed, Lists
  <2>2. ASSUME NEW k \in Shown(g.type, g.f), MemberOf(k) # "epoch"
        PROVE  \/ g.type = "slew" /\ MemberOf(k) = "coorsys"
               \/ g.type = "slew" /\ g.f.coorsys # COORSYS_EQUA /\ n > 2
               \/ join_kv(MemberOf(k), h.f[MemberOf(k)])
                    = join_kv(MemberOf(k), g.f[MemberOf(k)])
    <3>1. CASE k \in Reads(Resolver[g.type])
      BY <1>1, <1>3, <2>2, <3>1 DEF Kept, Agree
    <3>2. CASE k \notin Reads(Resolver[g.type])
      <4>1. k \in {"epoch", "coorsys"} /\ MemberOf(k) = k
        BY <2>1, <2>2, <3>2, ShownKnown DEF MemberOf
      <4> QED
        BY <1>3, <2>2, <4>1, FrameShown
    <3> QED
      BY <3>1, <3>2
  <2> QED
    BY <1>3, <2>1, <2>2 DEF Kept
<1> QED
  BY <1>2, <1>3

(* Whatever a line holds, and however often it is read and written again: the
   later readers hold what the first one held, up to the digits printed.  What
   the resolve_ functions read, the ToString functions print (KVProtocol.cpp,
   ProtoKV.h), but for the keywords that RelayKeeps excepts. *)
THEOREM RelaysKeep == Spec => []RelayKeeps
<1>1. Init => RelayInv
  BY DEF Init, RelayInv, OwnInv, OwnLinesAreSafe
<1>2. RelayInv => RelayKeeps
  <2> SUFFICES ASSUME RelayInv, held # Null, hops > 1 PROVE RelayKeeps
    BY DEF RelayKeeps
  <2>1. WellFormed(first) /\ Kept(first, held, hops)
    BY DEF RelayInv, OwnInv
  <2> QED
    BY <2>1, KeptIsRelayed DEF RelayKeeps
<1> QED
  BY <1>1, <1>2, RelayInductive, PTL DEF Spec

(***************************************************************************)
(* Numbers that were never assigned                                        *)
(***************************************************************************)

(* A message and a line with an unassigned number only where a new message of
   the type has one *)
DefiniteMessage(h) ==
    /\ \A m \in DOMAIN h.f : h.f[m] = "undef"
         => Resolver[h.type].new[m] = "undef"
    /\ \A k \in BaseKeys : h.base[k] # "undef"
    /\ \A p \in Range(h.kvs) : p[2] # "undef"

DefiniteLine(l) ==
    \A p \in Range(l.kvs) : p[2] = "undef" =>
        /\ p[1] \in Reads(Resolver[l.type])
        /\ Resolver[l.type].new[MemberOf(p[1])] = "undef"

LEMMA ConvertedDefinite ==
    ASSUME NEW r, SoundKeys(r), NEW p, p[1] \in Reads(r),
           Converted(r, p) = "undef"
    PROVE  p[2] = "undef"
<1>1. /\ p[1] \in r.ints => Converted(r, p) = stoi(p[2])
      /\ p[1] \in r.reals => Converted(r, p) = stod(p[2])
      /\ p[1] \in r.texts => Converted(r, p) = p[2]
  BY DEF Converted, SoundKeys, Numbers
<1> QED
  BY <1>1 DEF Reads, stoi, stod

LEMMA AmendDefinite ==
    ASSUME NEW f, Assigned(resolve_append_plan, f), NEW m \in DOMAIN f,
           AmendPlan(f)[m] = "undef"
    PROVE  f[m] = "undef"
<1>1. {"imgtype", "objid", "exptime"} \subseteq DOMAIN f
  BY PlanMembers DEF Assigned
<1>2. \A n \in DOMAIN f \ {"imgtype", "objid"} : AmendPlan(f)[n] = f[n]
  BY AmendAssigned
<1>3. AmendPlan(f).imgtype \in {f.imgtype, "BIAS", "OBJECT"}
  BY <1>1 DEF AmendPlan
<1>4. AmendPlan(f).objid \in {f.objid, "bias", "dark", "flat", "focs", "objt"}
  BY <1>1 DEF AmendPlan
<1> QED
  BY <1>2, <1>3, <1>4

(* What is read as unassigned was written so, or not given. *)
LEMMA ReadUndef ==
    ASSUME NEW l, Readable(l), NEW m \in DOMAIN Resolve(l).f,
           Resolve(l).f[m] = "undef"
    PROVE  LET r == Resolver[l.type]
           IN  /\ m \in DOMAIN r.new
               /\ \/ Sources(r, l.kvs, m) = {} /\ r.new[m] = "undef"
                  \/ \E i \in Sources(r, l.kvs, m) : l.kvs[i][2] = "undef"
<1> DEFINE r == Resolver[l.type]
           a == Assign(r, l.kvs)
           h == Resolve(l)
<1>1. /\ l.type \in Types /\ SoundResolver(r) /\ SoundKeys(r) /\ Assigned(r, a)
      /\ IsSeq(l.kvs)
  BY ResolversSound, AssignAssigned DEF Readable, SoundResolver
<1>2. h.f = IF l.type \in Plans THEN AmendPlan(a) ELSE a
  BY ResolveParts
<1>3. WellFormed(h) /\ h.type = l.type
  BY ReadWell, ResolveParts
<1>4. DOMAIN h.f = DOMAIN r.new /\ DOMAIN a = DOMAIN r.new
  BY <1>1, <1>3 DEF WellFormed, Assigned
<1>5. h.f[m] = "undef" /\ m \in DOMAIN h.f
  OBVIOUS
<1>6. a[m] = "undef"
  <2>1. CASE l.type \in Plans
    <3>1. r = resolve_append_plan
      BY <2>1, PlansAlike
    <3> HIDE DEF a, h
    <3> QED
      BY <1>1, <1>2, <1>4, <1>5, <2>1, <3>1, AmendDefinite
  <2>2. CASE l.type \notin Plans
    BY <1>2, <1>5, <2>2
  <2> QED
    BY <2>1, <2>2
<1>7. \/ Sources(r, l.kvs, m) = {} /\ a[m] = r.new[m]
      \/ \E i \in Sources(r, l.kvs, m) : a[m] = Converted(r, l.kvs[i])
  BY <1>1, <1>4, <1>5, AssignValue
<1>8. \A i \in Sources(r, l.kvs, m) : l.kvs[i][1] \in Reads(r)
  BY DEF Sources
<1> HIDE DEF a, h
<1> QED
  BY <1>1, <1>4, <1>5, <1>6, <1>7, <1>8, ConvertedDefinite

LEMMA DefiniteRead ==
    ASSUME NEW l, Readable(l), DefiniteLine(l)
    PROVE  DefiniteMessage(Resolve(l))
<1> DEFINE r == Resolver[l.type]
           h == Resolve(l)
<1>1. /\ l.type \in Types /\ SoundKeys(r) /\ IsSeq(l.kvs)
      /\ h.type = l.type /\ h.base = Basis(l.kvs)
      /\ h.kvs = Leftover(l.type, l.kvs)
  BY ResolversSound, ResolveParts DEF Readable, SoundResolver
<1>2. \A i \in DOMAIN l.kvs : l.kvs[i][2] = "undef" =>
         l.kvs[i][1] \in Reads(r) /\ r.new[MemberOf(l.kvs[i][1])] = "undef"
  BY DEF DefiniteLine, Range
<1>3. ASSUME NEW m \in DOMAIN h.f, h.f[m] = "undef" PROVE r.new[m] = "undef"
  <2>1. \/ Sources(r, l.kvs, m) = {} /\ r.new[m] = "undef"
        \/ \E i \in Sources(r, l.kvs, m) : l.kvs[i][2] = "undef"
    BY <1>3, ReadUndef
  <2>2. \A i \in Sources(r, l.kvs, m) : i \in DOMAIN l.kvs
          /\ MemberOf(l.kvs[i][1]) = m
    BY DEF Sources, Others, Given
  <2> QED
    BY <1>2, <2>1, <2>2
<1>4. ASSUME NEW k \in BaseKeys PROVE h.base[k] # "undef"
  <2>1. \A i \in {j \in Given(l.kvs) : l.kvs[j][1] = k} : l.kvs[i][2] # "undef"
    BY <1>1, <1>2 DEF Given, SoundKeys
  <2> QED
    BY <1>1, <2>1, BasisValue, EmptyApart
<1>5. ASSUME NEW p \in Range(h.kvs) PROVE p[2] # "undef"
  <2>1. CASE l.type \in Plans
    <3>1. PICK i \in Others(l.kvs) :
            p = l.kvs[i] /\ l.kvs[i][1] \notin Reads(resolve_append_plan)
      BY <1>1, <2>1, LeftoverShape
    <3>2. r = resolve_append_plan /\ i \in DOMAIN l.kvs
      BY <2>1, PlansAlike DEF Others, Given
    <3> QED
      BY <1>2, <3>1, <3>2
  <2>2. CASE l.type \notin Plans
    BY <1>1, <2>2, LeftoverShape, EmptyIsSeq
  <2> QED
    BY <2>1, <2>2
<1> HIDE DEF h
<1>6. DefiniteMessage(h)
  BY <1>1, <1>3, <1>4, <1>5 DEF DefiniteMessage
<1> QED
  BY <1>6 DEF h

(* An unassigned number is printed only where a reader has its keyword. *)
LEMMA PrintedUndef ==
    ASSUME NEW h, WellFormed(h), DefiniteMessage(h),
           NEW p \in Range(ToString(h).kvs), p[2] = "undef"
    PROVE  LET r == Resolver[h.type]
           IN  /\ p[1] \in Shown(h.type, h.f) \cap Reads(r)
               /\ h.f[MemberOf(p[1])] = "undef"
               /\ r.new[MemberOf(p[1])] = "undef"
<1> DEFINE r == Resolver[h.type]
<1>1. PICK k \in Shown(h.type, h.f) : p[1] = k
             /\ p[2] = Digits(h.f[MemberOf(k)])
  <2>1. p \notin Range(h.kvs)
    BY DEF DefiniteMessage
  <2>2. \A k \in Any(h.base, BaseKeys) : p[2] # Digits(h.base[k])
    BY DigitsValue DEF DefiniteMessage, Any
  <2> QED
    BY <2>1, <2>2, WrittenPair
<1>2. h.type \in Types /\ SoundResolver(r) /\ DOMAIN h.f = DOMAIN r.new
  BY ResolversSound DEF WellFormed, Assigned
<1>3. k \in Reads(r) \cup {"epoch", "coorsys"} /\ MemberOf(k) \in DOMAIN r.new
  BY <1>2, ShownKnown
<1>4. h.f[MemberOf(k)] = "undef"
  BY <1>1, DigitsValue
<1>5. r.new[MemberOf(k)] = "undef"
  BY <1>2, <1>3, <1>4 DEF DefiniteMessage
<1>6. MemberOf(k) \in Reads(r)
  BY <1>2, <1>3, <1>5 DEF SoundResolver, SoundMembers
<1>7. {"epoch", "coorsys"} \cap Reads(r) = {}
  BY <1>2 DEF SoundResolver, SoundKeys, Reads, Numbers
<1>8. k \in Reads(r)
  BY <1>3, <1>6, <1>7 DEF MemberOf
<1> QED
  BY <1>1, <1>4, <1>5, <1>8

LEMMA DefiniteWritten ==
    ASSUME NEW h, WellFormed(h), DefiniteMessage(h)
    PROVE  DefiniteLine(ToString(h))
<1>1. ToString(h).type = h.type
  BY WrittenPairs
<1> QED
  BY <1>1, PrintedUndef DEF DefiniteLine
(* The members that a line gives, whether its reader has them or not *)
GivenMembers(l) == {MemberOf(l.kvs[j][1]) : j \in Others(l.kvs)}

(* What the first reader has unassigned, the first line did not give. *)
LEMMA FirstUndef ==
    ASSUME NEW l \in Lines, Readable(l),
           NEW m \in DOMAIN Resolve(l).f, Resolve(l).f[m] = "undef"
    PROVE  m \notin GivenMembers(l)
<1> DEFINE r == Resolver[l.type]
<1>1. \A p \in Range(l.kvs) : p[2] # "undef"
  BY LineOfOthers DEF MemberValues
<1>2. /\ m \in DOMAIN r.new /\ Sources(r, l.kvs, m) = {} /\ r.new[m] = "undef"
  <2>1. \A i \in Sources(r, l.kvs, m) : l.kvs[i] \in Range(l.kvs)
    BY DEF Sources, Others, Given, Range
  <2> QED
    BY <1>1, <2>1, ReadUndef
<1>3. SoundResolver(r)
  BY ResolversSound DEF Readable
<1>4. m \in Reads(r) /\ m \notin {"epoch", "coorsys"}
  BY <1>2, <1>3 DEF SoundResolver, SoundMembers, SoundKeys, Reads, Numbers
<1>5. \A k : MemberOf(k) = m => k = m
  BY <1>4 DEF MemberOf
<1>6. ASSUME NEW j \in Others(l.kvs), MemberOf(l.kvs[j][1]) = m PROVE FALSE
  BY <1>2, <1>4, <1>5, <1>6 DEF Sources
<1> QED
  BY <1>6 DEF GivenMembers

(* No member of a plan or of a focus starts unassigned. *)
LEMMA PlanDefinite ==
    \A m \in DOMAIN resolve_append_plan.new :
      resolve_append_plan.new[m] # "undef"
BY EmptyApart DEF resolve_append_plan, KVAppPlan, COORSYS_EQUA

(* An unassigned number that a later reader prints was so from the first. *)
LEMMA KeptUndef ==
    ASSUME NEW g, NEW h, NEW n \in Nat \ {0}, WellFormed(g), WellFormed(h),
           Kept(g, h, n), ~(g.type = "slew" /\ n > 1),
           NEW k \in Shown(h.type, h.f) \cap Reads(Resolver[h.type]),
           h.f[MemberOf(k)] = "undef",
           Resolver[h.type].new[MemberOf(k)] = "undef"
    PROVE  MemberOf(k) \in DOMAIN g.f /\ g.f[MemberOf(k)] = "undef"
<1> DEFINE r == Resolver[g.type]
           m == MemberOf(k)
<1>1. /\ h.type = g.type /\ g.type \in Types /\ SoundResolver(r)
      /\ DOMAIN g.f = DOMAIN r.new /\ m \in DOMAIN r.new
  BY ResolversSound DEF Kept, WellFormed, Assigned, SoundResolver, SoundMembers
<1>2. Digits(h.f[m]) = Digits(g.f[m]) => g.f[m] = "undef"
  BY DigitsValue
<1>3. m # "epoch"
  BY <1>1 DEF SoundResolver, SoundMembers, SoundKeys, Reads, Numbers
<1> HIDE DEF m
<1>4. CASE n = 1
  BY <1>1, <1>4 DEF Kept, m
<1>5. CASE g.type \notin Selective
  BY <1>1, <1>2, <1>3, <1>5 DEF Kept, m
<1>6. CASE g.type \in Plans
  BY <1>1, <1>6, PlansAlike, PlanDefinite DEF m
<1>7. CASE g.type \in Operated
  <2>1. Agree(g.type, g.f, h.f)
    BY <1>7, SelectiveTypes DEF Kept
  <2>2. Shown(g.type, g.f) = Shown(h.type, h.f)
    BY <1>1, <1>7, <2>1, OperatedShown
  <2>3. Digits(h.f[m]) = Digits(g.f[m])
    BY <1>1, <2>1, <2>2 DEF Agree, m
  <2> QED
    BY <1>1, <1>2, <2>3 DEF m
<1>8. CASE g.type = "slew"
  BY <1>4, <1>8
<1> QED
  BY <1>4, <1>5, <1>6, <1>7, <1>8, SelectiveTypes

(* The inductive invariant *)
InventInv ==
    /\ RelayInv
    /\ held # Null => DefiniteMessage(held)
    /\ line # Null /\ hops > 0 => DefiniteLine(line)
    /\ hops > 0 => \A m \in DOMAIN first.f :
                     first.f[m] = "undef" => m \notin GivenMembers(sent)
    /\ InventsOnlyTheMissing

LEMMA InventInductive == InventInv /\ [Next]_vars => InventInv'
<1> SUFFICES ASSUME InventInv, [Next]_vars PROVE InventInv'
  OBVIOUS
<1>1. RelayInv /\ RelayInv' /\ OwnInv /\ hops \in Nat /\ sent \in Lines
  BY RelayInductive DEF InventInv, RelayInv, OwnInv
<1>2. CASE Refuse
  BY <1>1, <1>2 DEF Refuse, InventInv, InventsOnlyTheMissing
<1>3. CASE Die
  BY <1>1, <1>3 DEF Die, InventInv, InventsOnlyTheMissing
<1>4. CASE Receive
  <2>1. /\ held' = Resolve(line) /\ line' = Null /\ hops' = hops + 1
        /\ line # Null
        /\ first' = (IF hops = 0 THEN held' ELSE first) /\ sent' = sent
        /\ hops' > 0
    BY <1>1, <1>4 DEF Receive
  <2>2. Readable(line) /\ (hops = 0 => line = sent)
    BY <1>1, <1>4, LineReadable DEF Receive, OwnInv
  <2>3. DefiniteLine(line)
    <3>1. CASE hops = 0
      <4>1. \A p \in Range(line.kvs) : p[2] # "undef"
        BY <1>1, <2>2, <3>1, LineOfOthers DEF MemberValues
      <4> QED
        BY <4>1 DEF DefiniteLine
    <3>2. CASE hops # 0
      BY <1>1, <2>1, <3>2 DEF InventInv
    <3> QED
      BY <3>1, <3>2
  <2>4. DefiniteMessage(held')
    BY <2>1, <2>2, <2>3, DefiniteRead
  <2>5. \A m \in DOMAIN first'.f : first'.f[m] = "undef"
          => m \notin GivenMembers(sent')
    <3>1. CASE hops = 0
      BY <1>1, <2>1, <2>2, <3>1, FirstUndef
    <3>2. CASE hops # 0
      BY <1>1, <2>1, <3>2 DEF InventInv
    <3> QED
      BY <3>1, <3>2
  <2> QED
    BY <1>1, <2>1, <2>4, <2>5 DEF InventInv, InventsOnlyTheMissing
<1>5. CASE Send
  <2>1. /\ line' = ToString(held) /\ held # Null /\ held' = Null
        /\ UNCHANGED <<first, sent, hops>>
    BY <1>5 DEF Send
  <2>2. /\ WellFormed(held) /\ DefiniteMessage(held) /\ hops \in Nat \ {0}
        /\ WellFormed(first) /\ Kept(first, held, hops)
        /\ held.type = first.type
    BY <1>1, <2>1 DEF InventInv, RelayInv, OwnInv, Kept
  <2>3. DefiniteLine(line') /\ line'.type = held.type
    BY <2>1, <2>2, DefiniteWritten, WrittenPairs
  <2>4. ASSUME NEW i \in DOMAIN line'.kvs, line'.kvs[i][2] = "undef",
               ~(line'.type = "slew" /\ hops > 1)
        PROVE  MemberOf(line'.kvs[i][1]) \notin GivenMembers(sent)
    <3> DEFINE p == line'.kvs[i]
               k == p[1]
               r == Resolver[held.type]
    <3>1. p \in Range(ToString(held).kvs) /\ p[2] = "undef"
      BY <2>1, <2>4 DEF Range
    <3>2. /\ k \in Shown(held.type, held.f) \cap Reads(r)
          /\ held.f[MemberOf(k)] = "undef" /\ r.new[MemberOf(k)] = "undef"
      BY <2>2, <3>1, PrintedUndef
    <3> HIDE DEF p, k
    <3>3. MemberOf(k) \in DOMAIN first.f /\ first.f[MemberOf(k)] = "undef"
      BY <2>2, <2>3, <2>4, <3>2, KeptUndef
    <3> QED
      BY <2>2, <3>3 DEF InventInv, p, k
  <2>5. InventsOnlyTheMissing'
    BY <2>1, <2>4 DEF InventsOnlyTheMissing, GivenMembers
  <2> QED
    BY <1>1, <2>1, <2>3, <2>5 DEF InventInv
<1>6. CASE UNCHANGED vars
  BY <1>1, <1>6 DEF vars, InventInv, InventsOnlyTheMissing
<1> QED
  BY <1>2, <1>3, <1>4, <1>5, <1>6 DEF Next

(* Whatever a line holds: an unassigned member of ProtoKV.h (an int or a double
   without initializer) is printed only when the first line did not give it,
   but for a slew that is relayed twice. *)
THEOREM InventsOnly == Spec => []InventsOnlyTheMissing
<1>1. Init => InventInv
  <2> SUFFICES ASSUME Init PROVE InventInv
    OBVIOUS
  <2>1. RelayInv /\ hops = 0 /\ held = Null /\ line = sent /\ sent \in Lines
    BY DEF Init, RelayInv, OwnInv, OwnLinesAreSafe
  <2>2. \A i \in DOMAIN line.kvs : line.kvs[i][2] # "undef"
    BY <2>1, LineOfOthers DEF MemberValues, Range
  <2> QED
    BY <2>1, <2>2 DEF InventInv, InventsOnlyTheMissing
<1>2. InventInv => InventsOnlyTheMissing
  BY DEF InventInv
<1> QED
  BY <1>1, <1>2, InventInductive, PTL DEF Spec

(***************************************************************************)
(* The pairs that a plan does not know                                     *)
(***************************************************************************)

LEMMA AppendedAt ==
    ASSUME NEW s, IsSeq(s), NEW e
    PROVE  /\ IsSeq(Append(s, e)) /\ Len(Append(s, e)) = Len(s) + 1
           /\ \A i \in 1 .. Len(s) : Append(s, e)[i] = s[i]
           /\ Append(s, e)[Len(s) + 1] = e
<1> DEFINE S == Range(s) \cup {e}
<1>1. s \in Seq(S) /\ e \in S
  BY SeqMonotonic DEF IsSeq
<1> HIDE DEF S
<1>2. Len(s) \in Nat
  BY SeqShape
<1> QED
  BY <1>1, <1>2, AppendProperties, Appended

(* Nothing is picked on a stretch where no place is asked for. *)
LEMMA NonePicked ==
    ASSUME NEW len \in Nat, NEW up, NEW kvs, NEW P, Steps(up, kvs, P, len),
           NEW a \in 0 .. len, NEW b \in a .. len,
           \A n \in a + 1 .. b : n \notin P
    PROVE  up[b] = up[a]
<1> DEFINE T == {n \in a .. b : up[n] # up[a]}
<1>1. T = {}
  <2> SUFFICES ASSUME T # {} PROVE FALSE
    OBVIOUS
  <2>1. PICK m \in T : \A k \in T : m <= k
    <3>1. T \in SUBSET Nat
      OBVIOUS
    <3> HIDE DEF T
    <3> QED
      BY <3>1, LeastNumber
  <2>2. /\ m \in a + 1 .. b /\ m - 1 \in a .. b /\ ~(m <= m - 1)
        /\ m \in 1 .. len /\ up[m] # up[a]
    BY <2>1
  <2>3. up[m] = up[m - 1]
    BY <2>2, StepOf
  <2> QED
    BY <2>1, <2>2, <2>3
<1>2. b \in a .. b
  OBVIOUS
<1> QED
  BY <1>1, <1>2

(* The c places behind a are all in P *)
AllIn(P, a, c) == \A n \in a + 1 .. a + c : n \in P

(* t is s with the c pairs behind place a appended *)
Extended(t, s, kvs, a, c) ==
    /\ IsSeq(t) /\ Len(t) = Len(s) + c
    /\ \A i \in 1 .. Len(s) : t[i] = s[i]
    /\ \A j \in 1 .. c : t[Len(s) + j] = kvs[a + j]

(* All is picked, in its order, on a stretch where every place is asked for. *)
LEMMA AllPicked ==
    ASSUME NEW len \in Nat, NEW up, NEW kvs, NEW P, Steps(up, kvs, P, len),
           NEW a \in 0 .. len, IsSeq(up[a]), NEW c \in 0 .. len - a,
           AllIn(P, a, c)
    PROVE  Extended(up[a + c], up[a], kvs, a, c)
<1> DEFINE base == up[a]
           Good(d) == /\ IsSeq(up[a + d]) /\ Len(up[a + d]) = Len(base) + d
                      /\ \A i \in 1 .. Len(base) : up[a + d][i] = base[i]
                      /\ \A j \in 1 .. d : up[a + d][Len(base) + j] = kvs[a + j]
           T == {d \in 0 .. c : ~Good(d)}
<1>1. Len(base) \in Nat /\ a + 0 = a
  BY SeqShape
<1>2. Good(0)
  BY <1>1
<1>3. ASSUME NEW d \in 1 .. c, Good(d - 1) PROVE Good(d)
  <2>1. a + d \in P /\ a + d \in 1 .. len /\ (a + d) - 1 = a + (d - 1)
    BY DEF AllIn
  <2>2. up[a + d] = Append(up[a + (d - 1)], kvs[a + d])
    <3>1. \A n \in 1 .. len : n \in P => up[n] = Append(up[n - 1], kvs[n])
      BY StepOf
    <3>2. up[a + d] = Append(up[(a + d) - 1], kvs[a + d])
      BY <2>1, <3>1
    <3> QED
      BY <2>1, <3>2
  <2> DEFINE s == up[a + (d - 1)]
  <2>3. /\ IsSeq(s) /\ Len(s) = Len(base) + (d - 1)
        /\ \A i \in 1 .. Len(base) : s[i] = base[i]
        /\ \A j \in 1 .. d - 1 : s[Len(base) + j] = kvs[a + j]
    BY <1>3
  <2> HIDE DEF s, base
  <2>4. /\ IsSeq(up[a + d]) /\ Len(up[a + d]) = Len(s) + 1
        /\ \A i \in 1 .. Len(s) : up[a + d][i] = s[i]
        /\ up[a + d][Len(s) + 1] = kvs[a + d]
    <3> DEFINE t == up[a + d]
    <3>1. t = Append(s, kvs[a + d])
      BY <2>2 DEF s
    <3> HIDE DEF t
    <3>2. /\ IsSeq(t) /\ Len(t) = Len(s) + 1
          /\ \A i \in 1 .. Len(s) : t[i] = s[i]
          /\ t[Len(s) + 1] = kvs[a + d]
      BY <2>3, <3>1, AppendedAt
    <3> QED
      BY <3>2 DEF t
  <2>5. Len(up[a + d]) = Len(base) + d /\ Len(s) + 1 = Len(base) + d
    BY <1>1, <2>3, <2>4
  <2>6. \A i \in 1 .. Len(base) : up[a + d][i] = base[i]
    BY <1>1, <2>3, <2>4
  <2>7. ASSUME NEW j \in 1 .. d PROVE up[a + d][Len(base) + j] = kvs[a + j]
    <3>1. CASE j = d
      BY <2>4, <2>5, <3>1
    <3>2. CASE j # d
      <4>1. j \in 1 .. d - 1 /\ Len(base) + j \in 1 .. Len(s)
        BY <1>1, <2>3, <3>2
      <4> QED
        BY <2>3, <2>4, <4>1
    <3> QED
      BY <3>1, <3>2
  <2> QED
    BY <2>4, <2>5, <2>6, <2>7
<1> HIDE DEF Good
<1>4. T = {}
  <2> SUFFICES ASSUME T # {} PROVE FALSE
    OBVIOUS
  <2>1. PICK m \in T : \A k \in T : m <= k
    <3>1. T \in SUBSET Nat
      OBVIOUS
    <3> HIDE DEF T
    <3> QED
      BY <3>1, LeastNumber
  <2>2. /\ m \in 0 .. c /\ ~Good(m) /\ m # 0
    BY <1>2, <2>1
  <2>3. m \in 1 .. c /\ m - 1 \in 0 .. c /\ ~(m <= m - 1)
    BY <2>2
  <2>4. Good(m - 1)
    BY <2>1, <2>3
  <2> QED
    BY <1>3, <2>2, <2>3, <2>4
<1>5. Good(c)
  <2>1. c \in 0 .. c
    OBVIOUS
  <2> QED
    BY <1>4, <2>1
<1> QED
  BY <1>5 DEF Good, Extended

(* A sequence that has an element at one place only *)
Once(s, x) ==
    /\ IsSeq(s)
    /\ \E e \in 1 .. Len(s) : s[e] = x
         /\ \A i \in 1 .. Len(s) : s[i] = x => i = e

LEMMA NotIn ==
    ASSUME NEW s, IsSeq(s), NEW x, x \notin Range(s)
    PROVE  \A i \in 1 .. Len(s) : s[i] # x
BY SeqShape

LEMMA OnceLeft ==
    ASSUME NEW a, NEW b, NEW x, Once(a, x), IsSeq(b), x \notin Range(b)
    PROVE  Once(a \o b, x)
<1>1. IsSeq(a) /\ Len(a) \in Nat /\ Len(b) \in Nat
  BY SeqShape DEF Once
<1>2. /\ IsSeq(a \o b) /\ Len(a \o b) = Len(a) + Len(b)
      /\ \A i \in 1 .. Len(a) + Len(b) :
           (a \o b)[i] = IF i <= Len(a) THEN a[i] ELSE b[i - Len(a)]
  BY <1>1, JoinedSeqs
<1>3. PICK e \in 1 .. Len(a) : a[e] = x
             /\ \A i \in 1 .. Len(a) : a[i] = x => i = e
  BY DEF Once
<1>4. \A i \in 1 .. Len(b) : b[i] # x
  BY NotIn
<1> DEFINE c == a \o b
<1>5. e \in 1 .. Len(c) /\ c[e] = x
  BY <1>1, <1>2, <1>3
<1>6. ASSUME NEW i \in 1 .. Len(c), c[i] = x PROVE i = e
  <2>1. i \in 1 .. Len(a) + Len(b) /\ e \in 1 .. Len(a)
    BY <1>2
  <2>2. CASE i <= Len(a)
    BY <1>1, <1>2, <1>3, <1>6, <2>1, <2>2
  <2>3. CASE ~(i <= Len(a))
    <3>1. i - Len(a) \in 1 .. Len(b)
      BY <1>1, <2>1, <2>3
    <3> QED
      BY <1>2, <1>4, <1>6, <2>1, <2>3, <3>1
  <2> QED
    BY <2>2, <2>3
<1> QED
  BY <1>2, <1>5, <1>6 DEF Once

LEMMA OnceRight ==
    ASSUME NEW a, NEW b, NEW x, IsSeq(a), x \notin Range(a), Once(b, x)
    PROVE  Once(a \o b, x)
<1>1. IsSeq(b) /\ Len(a) \in Nat /\ Len(b) \in Nat
  BY SeqShape DEF Once
<1>2. /\ IsSeq(a \o b) /\ Len(a \o b) = Len(a) + Len(b)
      /\ \A i \in 1 .. Len(a) + Len(b) :
           (a \o b)[i] = IF i <= Len(a) THEN a[i] ELSE b[i - Len(a)]
  BY <1>1, JoinedSeqs
<1>3. PICK e \in 1 .. Len(b) : b[e] = x
             /\ \A i \in 1 .. Len(b) : b[i] = x => i = e
  BY DEF Once
<1>4. \A i \in 1 .. Len(a) : a[i] # x
  BY NotIn
<1> DEFINE c == a \o b
           d == Len(a) + e
<1>5. d \in 1 .. Len(c) /\ c[d] = x
  <2>1. d \in 1 .. Len(a) + Len(b) /\ ~(d <= Len(a)) /\ d - Len(a) = e
    BY <1>1, <1>3
  <2> QED
    BY <1>2, <1>3, <2>1
<1>6. ASSUME NEW i \in 1 .. Len(c), c[i] = x PROVE i = d
  <2>1. i \in 1 .. Len(a) + Len(b)
    BY <1>2
  <2>2. ~(i <= Len(a))
    BY <1>1, <1>2, <1>4, <1>6, <2>1
  <2>3. i - Len(a) \in 1 .. Len(b) /\ b[i - Len(a)] = x
    BY <1>1, <1>2, <1>6, <2>1, <2>2
  <2>4. i - Len(a) = e /\ i \in Nat /\ e \in Nat
    BY <1>3, <2>1, <2>3
  <2> QED
    BY <1>1, <2>4
<1> QED
  BY <1>2, <1>5, <1>6 DEF Once

LEMMA EpochOnce ==
    ASSUME NEW f, f.coorsys = "0" PROVE Once(PrintAppPlan(f), "epoch")
<1> DEFINE p3 == IfAny(f, "plan_sn") \o IfAny(f, "objid") \o IfAny(f, "obstype")
                   \o <<"coor_sys">>
           place == <<"ra", "dec", "epoch">>
           counts == <<"exptime", "delay", "frmcnt", "loopcnt", "priority">>
           p5 == p3 \o place \o <<"imgtype">>
           p7 == p5 \o IfAny(f, "filter") \o counts
           p9 == p7 \o IfAny(f, "plan_beg") \o IfAny(f, "plan_end")
<1>1. PrintAppPlan(f) = p9
  BY DEF PrintAppPlan
<1>2. \A k \in PlanIfAny : IsSeq(IfAny(f, k))
        /\ "epoch" \notin Range(IfAny(f, k))
  <2> SUFFICES ASSUME NEW k \in PlanIfAny
               PROVE  IsSeq(IfAny(f, k)) /\ "epoch" \notin Range(IfAny(f, k))
    OBVIOUS
  <2>1. Lists(IfAny(f, k), Any(f, {k})) /\ k # "epoch"
    BY IfAnyList DEF PlanIfAny
  <2> QED
    BY <2>1 DEF Lists, Any
<1>3. /\ IsSeq(<<"coor_sys">>) /\ "epoch" \notin Range(<<"coor_sys">>)
      /\ IsSeq(<<"imgtype">>) /\ "epoch" \notin Range(<<"imgtype">>)
      /\ IsSeq(counts) /\ "epoch" \notin Range(counts)
      /\ IsSeq(place)
  BY DEF IsSeq, Range
<1>4. Once(place, "epoch")
  <2>1. Len(place) = 3
    OBVIOUS
  <2>2. 3 \in 1 .. 3 /\ place[3] = "epoch"
          /\ \A i \in 1 .. 3 : place[i] = "epoch" => i = 3
    OBVIOUS
  <2> QED
    BY <1>3, <2>1, <2>2 DEF Once
<1>5. {"plan_sn", "objid", "obstype", "filter", "plan_beg", "plan_end"}
        = PlanIfAny
  BY DEF PlanIfAny
<1> HIDE DEF place, counts
<1>6. IsSeq(p3) /\ "epoch" \notin Range(p3)
  BY <1>2, <1>3, <1>5, JoinedSeqs
<1> HIDE DEF p3
<1>7. Once(p5, "epoch")
  BY <1>3, <1>4, <1>6, OnceLeft, OnceRight
<1> HIDE DEF p5
<1>8. Once(p7, "epoch")
  BY <1>2, <1>3, <1>5, <1>7, OnceLeft
<1> HIDE DEF p7
<1>9. Once(p9, "epoch")
  BY <1>2, <1>5, <1>8, OnceLeft
<1> QED
  BY <1>1, <1>9
(* The three stretches of a plan's line: the base class, what the plan prints,
   and its extras *)
Stretches(h, nb, nw) ==
    LET kvs  == ToString(h).kvs
        keys == Printed(h.type, h.f)
    IN  /\ nb \in Nat /\ nw = Len(keys) /\ nw \in Nat /\ Len(h.kvs) \in Nat
        /\ IsSeq(kvs) /\ Len(kvs) = nb + nw + Len(h.kvs)
        /\ \A i \in 1 .. nb : kvs[i][1] \in BaseKeys
        /\ \A i \in 1 .. nw : /\ kvs[nb + i][1] = keys[i]
                              /\ kvs[nb + i][2] = Digits(h.f[MemberOf(keys[i])])
        /\ \A i \in 1 .. Len(h.kvs) : kvs[nb + nw + i] = h.kvs[i]

LEMMA InStretch ==
    ASSUME NEW a \in Nat, NEW b \in Nat, NEW c \in Nat, NEW i \in 1 .. b
    PROVE  a + i \in 1 .. a + b + c
OBVIOUS

LEMMA ThreeJoined ==
    ASSUME NEW a, NEW b, NEW c, IsSeq(a), IsSeq(b), IsSeq(c)
    PROVE  LET s == (a \o b) \o c
           IN  /\ IsSeq(s) /\ Len(s) = Len(a) + Len(b) + Len(c)
               /\ \A i \in 1 .. Len(a) : s[i] = a[i]
               /\ \A i \in 1 .. Len(b) : s[Len(a) + i] = b[i]
               /\ \A i \in 1 .. Len(c) : s[Len(a) + Len(b) + i] = c[i]
<1> DEFINE d == a \o b
           s == d \o c
<1>1. Len(a) \in Nat /\ Len(b) \in Nat /\ Len(c) \in Nat
  BY SeqShape
<1>2. /\ IsSeq(d) /\ Len(d) = Len(a) + Len(b)
      /\ \A i \in 1 .. Len(a) + Len(b) :
           d[i] = IF i <= Len(a) THEN a[i] ELSE b[i - Len(a)]
  BY JoinedSeqs
<1> HIDE DEF d
<1>3. /\ IsSeq(s) /\ Len(s) = Len(d) + Len(c)
      /\ \A i \in 1 .. Len(d) + Len(c) :
           s[i] = IF i <= Len(d) THEN d[i] ELSE c[i - Len(d)]
  BY <1>2, JoinedSeqs
<1> HIDE DEF s
<1>4. \A i \in 1 .. Len(d) + Len(c) :
        s[i] = IF i <= Len(a) + Len(b) THEN d[i] ELSE c[i - (Len(a) + Len(b))]
  BY <1>2, <1>3
<1>5. /\ Len(s) = Len(a) + Len(b) + Len(c)
      /\ Len(d) + Len(c) = Len(a) + Len(b) + Len(c)
  BY <1>1, <1>2, <1>3
<1>6. ASSUME NEW i \in 1 .. Len(a) PROVE s[i] = a[i]
  <2>1. i \in 1 .. Len(a) + Len(b) /\ i <= Len(a) /\ i <= Len(a) + Len(b)
    BY <1>1
  <2>2. i \in 1 .. Len(d) + Len(c)
    BY <1>1, <1>5
  <2> QED
    BY <1>2, <1>4, <2>1, <2>2
<1>7. ASSUME NEW i \in 1 .. Len(b) PROVE s[Len(a) + i] = b[i]
  <2>1. /\ Len(a) + i \in 1 .. Len(a) + Len(b) /\ ~(Len(a) + i <= Len(a))
        /\ Len(a) + i <= Len(a) + Len(b) /\ (Len(a) + i) - Len(a) = i
    BY <1>1
  <2>2. Len(a) + i \in 1 .. Len(d) + Len(c)
    BY <1>1, <1>5
  <2> QED
    BY <1>2, <1>4, <2>1, <2>2
<1>8. ASSUME NEW i \in 1 .. Len(c) PROVE s[Len(a) + Len(b) + i] = c[i]
  <2>1. /\ ~(Len(a) + Len(b) + i <= Len(a) + Len(b))
        /\ (Len(a) + Len(b) + i) - (Len(a) + Len(b)) = i
    BY <1>1
  <2>2. Len(a) + Len(b) + i \in 1 .. Len(d) + Len(c)
    BY <1>1, <1>5
  <2> QED
    BY <1>4, <2>1, <2>2
<1> QED
  BY <1>3, <1>5, <1>6, <1>7, <1>8 DEF s, d

LEMMA LineStretches ==
    ASSUME NEW h, WellFormed(h) PROVE \E nb, nw : Stretches(h, nb, nw)
<1> DEFINE b == BaseToString(h.base)
           keys == Printed(h.type, h.f)
           w == Written(keys, h.f)
           kvs == ToString(h).kvs
<1>1. kvs = (b \o w) \o h.kvs
  BY DEF ToString
<1>2. IsSeq(b) /\ Range(b) = {join_kv(k, h.base[k]) :
        k \in Any(h.base, BaseKeys)}
  BY BaseLine
<1>3. /\ IsSeq(w) /\ Len(w) = Len(keys)
      /\ \A i \in 1 .. Len(keys) :
           w[i] = join_kv(keys[i], h.f[MemberOf(keys[i])])
  BY PrintedList, WrittenShape DEF WellFormed
<1>4. IsSeq(h.kvs)
  BY DEF WellFormed
<1> HIDE DEF b, w, keys, kvs
<1>5. Len(b) \in Nat /\ Len(w) \in Nat /\ Len(h.kvs) \in Nat
  BY <1>2, <1>3, <1>4, SeqShape
<1>6. /\ IsSeq(kvs) /\ Len(kvs) = Len(b) + Len(w) + Len(h.kvs)
      /\ \A i \in 1 .. Len(b) : kvs[i] = b[i]
      /\ \A i \in 1 .. Len(w) : kvs[Len(b) + i] = w[i]
      /\ \A i \in 1 .. Len(h.kvs) : kvs[Len(b) + Len(w) + i] = h.kvs[i]
  <2> DEFINE x == h.kvs
             s == (b \o w) \o x
  <2>1. IsSeq(b) /\ IsSeq(w) /\ IsSeq(x)
    BY <1>2, <1>3, <1>4
  <2> HIDE DEF x
  <2>2. /\ IsSeq(s) /\ Len(s) = Len(b) + Len(w) + Len(x)
        /\ \A i \in 1 .. Len(b) : s[i] = b[i]
        /\ \A i \in 1 .. Len(w) : s[Len(b) + i] = w[i]
        /\ \A i \in 1 .. Len(x) : s[Len(b) + Len(w) + i] = x[i]
    BY <2>1, ThreeJoined
  <2> USE DEF x
  <2> HIDE DEF s
  <2>3. kvs = s
    BY <1>1 DEF s
  <2> QED
    BY <2>2, <2>3, Zenon
<1>7. ASSUME NEW i \in 1 .. Len(b) PROVE kvs[i][1] \in BaseKeys
  <2>1. b[i] \in Range(b)
    BY <1>2, SeqShape
  <2>2. PICK k \in Any(h.base, BaseKeys) : b[i] = join_kv(k, h.base[k])
    BY <1>2, <2>1
  <2>3. kvs[i] = b[i] /\ k \in BaseKeys
    BY <1>6 DEF Any
  <2> QED
    BY <2>2, <2>3, JoinedPair
<1>8. \A i \in 1 .. Len(w) : /\ kvs[Len(b) + i][1] = keys[i]
                             /\ kvs[Len(b) + i][2]
                                  = Digits(h.f[MemberOf(keys[i])])
  <2> TAKE i \in 1 .. Len(w)
  <2>1. kvs[Len(b) + i] = join_kv(keys[i], h.f[MemberOf(keys[i])])
    <3>1. kvs[Len(b) + i] = w[i]
      BY <1>6
    <3> QED
      BY <1>3, <3>1
  <2> QED
    BY <2>1, JoinedPair
<1>9. Stretches(h, Len(b), Len(w))
  BY <1>3, <1>5, <1>6, <1>7, <1>8 DEF Stretches, keys, kvs
<1> QED
  BY <1>9

(* The places of the pairs that the next reader of a plan keeps *)
Unread(kvs) == {i \in Others(kvs) : kvs[i][1] \notin Reads(resolve_append_plan)}

LEMMA UnreadPlaces ==
    ASSUME NEW h, WellFormed(h), h.type \in Plans, NEW nb, NEW nw,
           Stretches(h, nb, nw)
    PROVE  LET P == Unread(ToString(h).kvs)
           IN  /\ \A i \in 1 .. nb : i \notin P
               /\ \A i \in 1 .. nw :
                    nb + i \in P <=> Printed(h.type, h.f)[i] = "epoch"
               /\ \A i \in 1 .. Len(h.kvs) : nb + nw + i \in P
<1> DEFINE kvs == ToString(h).kvs
           keys == Printed(h.type, h.f)
           r == resolve_append_plan
<1>1. /\ nb \in Nat /\ nw = Len(keys) /\ nw \in Nat /\ Len(h.kvs) \in Nat
      /\ IsSeq(kvs) /\ Len(kvs) = nb + nw + Len(h.kvs)
      /\ \A i \in 1 .. nb : kvs[i][1] \in BaseKeys
      /\ \A i \in 1 .. nw : /\ kvs[nb + i][1] = keys[i]
                            /\ kvs[nb + i][2] = Digits(h.f[MemberOf(keys[i])])
      /\ \A i \in 1 .. Len(h.kvs) : kvs[nb + nw + i] = h.kvs[i]
  BY DEF Stretches
<1>2. DOMAIN kvs = 1 .. nb + nw + Len(h.kvs)
  BY <1>1, SeqShape
<1>3. /\ h.type \in Types /\ Resolver[h.type] = r /\ Assigned(r, h.f)
      /\ SoundKeys(r)
  BY PlansAlike, ResolversSound DEF WellFormed, SoundResolver
<1>4. IsSeq(keys) /\ Range(keys) = Shown(h.type, h.f)
  BY <1>3, PrintedList DEF Lists
<1> HIDE DEF kvs, keys
<1>5. ASSUME NEW i \in 1 .. nw
      PROVE  nb + i \in Unread(kvs) <=> keys[i] = "epoch"
  <2>1. keys[i] \in Shown(h.type, h.f)
    BY <1>1, <1>4, SeqShape
  <2>2. keys[i] \in Reads(r) \cup {"epoch", "coorsys"}
    BY <1>3, <2>1, ShownKnown
  <2>3. keys[i] # "coorsys"
    BY <2>1, FrameShown, SelectiveTypes
  <2>4. nb + i \in DOMAIN kvs
    BY <1>1, <1>2, InStretch
  <2>5. ASSUME keys[i] = "epoch" PROVE nb + i \in Unread(kvs)
    <3>1. MemberOf("epoch") = "epoch" /\ "epoch" \notin BaseKeys \cup {Empty}
            \cup Reads(r)
      <4>1. "epoch" \notin Reads(r)
        BY <1>3 DEF SoundKeys, Reads, Numbers
      <4>2. "epoch" # Empty
        BY DEF Empty
      <4>3. "epoch" \notin BaseKeys /\ MemberOf("epoch") = "epoch"
        BY DEF BaseKeys, MemberOf
      <4> QED
        BY <4>1, <4>2, <4>3
    <3>2. h.f["epoch"] # Empty
      <4>1. "epoch" \in DOMAIN r.new /\ r.new["epoch"] = "2000"
        BY DEF resolve_append_plan, KVAppPlan
      <4> QED
        BY <1>3, <4>1, EmptyApart DEF Assigned
    <3>3. kvs[nb + i][1] = "epoch" /\ kvs[nb + i][2] # Empty
      <4>1. Digits(h.f["epoch"]) # Empty
        BY <3>2, DigitsValue
      <4>2. /\ kvs[nb + i][1] = keys[i]
            /\ kvs[nb + i][2] = Digits(h.f[MemberOf(keys[i])])
        BY <1>1
      <4> QED
        BY <2>5, <3>1, <4>1, <4>2
    <3> QED
      BY <2>4, <3>1, <3>3 DEF Unread, Others, Given
  <2>6. ASSUME nb + i \in Unread(kvs) PROVE keys[i] = "epoch"
    BY <1>1, <2>2, <2>3, <2>6 DEF Unread
  <2> QED
    BY <2>5, <2>6
<1>6. ASSUME NEW i \in 1 .. nb PROVE i \notin Unread(kvs)
  BY <1>1 DEF Unread, Others
<1>7. ASSUME NEW i \in 1 .. Len(h.kvs) PROVE nb + nw + i \in Unread(kvs)
  <2>1. nb + nw + i \in DOMAIN kvs
    BY <1>1, <1>2
  <2>2. h.kvs[i] \in Range(h.kvs)
    BY SeqShape DEF WellFormed
  <2>3. Extra(h.kvs[i])
    BY <2>2 DEF WellFormed
  <2> QED
    BY <1>1, <2>1, <2>3 DEF Extra, Unread, Others, Given
<1> QED
  BY <1>5, <1>6, <1>7 DEF kvs, keys

(* The next reader of a plan keeps its extras, behind the epoch if that was
   printed. *)
LEMMA NextExtras ==
    ASSUME NEW h, WellFormed(h), h.type \in Plans
    PROVE  LET x == Resolve(ToString(h)).kvs
               grown == IF h.f.coorsys = "0" THEN 1 ELSE 0
           IN  /\ Len(x) = Len(h.kvs) + grown
               /\ grown = 1 => x[1][1] = "epoch"
               /\ \A i \in 1 .. Len(h.kvs) : x[grown + i] = h.kvs[i]
<1> DEFINE kvs == ToString(h).kvs
           keys == Printed(h.type, h.f)
           P == Unread(kvs)
           len == Len(kvs)
           nx == Len(h.kvs)
           x == Resolve(ToString(h)).kvs
<1>1. PICK nb, nw : Stretches(h, nb, nw)
  BY LineStretches
<1> DEFINE n1 == nb + nw
<1>2. /\ nb \in Nat /\ nw = Len(keys) /\ nw \in Nat /\ nx \in Nat /\ IsSeq(kvs)
      /\ len = n1 + nx
      /\ \A i \in 1 .. nw : kvs[nb + i][1] = keys[i]
      /\ \A i \in 1 .. nx : kvs[n1 + i] = h.kvs[i]
  BY <1>1 DEF Stretches
<1>3. /\ \A i \in 1 .. nb : i \notin P
      /\ \A i \in 1 .. nw : nb + i \in P <=> keys[i] = "epoch"
      /\ \A i \in 1 .. nx : n1 + i \in P
  BY <1>1, UnreadPlaces
<1>4. /\ IsSeq(keys) /\ Range(keys) = Shown(h.type, h.f)
      /\ keys = PrintAppPlan(h.f)
  <2>1. h.type \in Types
    BY DEF WellFormed
  <2>2. keys = PrintAppPlan(h.f)
    BY DEF Printed, Plans
  <2> QED
    BY <2>1, <2>2, PrintedList DEF Lists
<1>5. x = Picked(kvs, P)
  BY ResolveParts, WrittenPairs DEF Leftover, Unread, Others, Given
<1> HIDE DEF kvs, keys, P, x
<1>6. PICK up : Steps(up, kvs, P, len) /\ x = up[len]
  BY <1>2, <1>5, PickedSteps
<1> HIDE DEF len, nx
<1>7. /\ n1 \in Nat /\ len \in Nat /\ n1 \in 0 .. len /\ nx \in 0 .. len - n1
      /\ n1 + nx = len
  BY <1>2
<1>8. up[0] = <<>> /\ IsSeq(up[0]) /\ Len(up[0]) = 0
  BY <1>6, <1>7, StepOf, EmptyIsSeq
<1>9. AllIn(P, n1, nx)
  <2> SUFFICES \A n \in n1 + 1 .. n1 + nx : n \in P
    BY DEF AllIn
  <2> TAKE n \in n1 + 1 .. n1 + nx
  <2>1. n - n1 \in 1 .. nx /\ n1 + (n - n1) = n
    BY <1>2
  <2> QED
    BY <1>3, <2>1
<1>10. ASSUME IsSeq(up[n1])
       PROVE  /\ Len(x) = Len(up[n1]) + nx
              /\ \A i \in 1 .. Len(up[n1]) : x[i] = up[n1][i]
              /\ \A i \in 1 .. nx : x[Len(up[n1]) + i] = h.kvs[i]
  <2> HIDE DEF n1
  <2>1. /\ len \in Nat /\ Steps(up, kvs, P, len) /\ n1 \in 0 .. len
        /\ nx \in 0 .. len - n1
    BY <1>6, <1>7
  <2>2. Extended(up[n1 + nx], up[n1], kvs, n1, nx)
    BY <1>9, <1>10, <2>1, AllPicked
  <2> QED
    BY <1>2, <1>6, <1>7, <2>2 DEF Extended
<1>11. CASE h.f.coorsys # "0"
  <2>1. "epoch" \notin Range(keys)
    <3>1. Shown(h.type, h.f) = PlanAlways \cup PlanPlace(h.f)
            \cup Any(h.f, PlanIfAny)
      BY DEF Shown, Plans
    <3>2. /\ "epoch" \notin PlanAlways /\ "epoch" \notin PlanPlace(h.f)
          /\ "epoch" \notin Any(h.f, PlanIfAny)
      BY <1>11 DEF PlanAlways, PlanPlace, Any, PlanIfAny
    <3> QED
      BY <1>4, <3>1, <3>2
  <2>2. \A i \in 1 .. nw : nb + i \notin P
    BY <1>2, <1>3, <1>4, <2>1, NotIn
  <2>3. \A n \in 0 + 1 .. n1 : n \notin P
    <3> TAKE n \in 0 + 1 .. n1
    <3>1. n \in 1 .. nb \/ (n - nb \in 1 .. nw /\ nb + (n - nb) = n)
      BY <1>2
    <3> QED
      BY <1>3, <2>2, <3>1
  <2>4. up[n1] = up[0]
    <3> HIDE DEF n1
    <3>1. 0 \in 0 .. len /\ n1 \in 0 .. len
      BY <1>7
    <3> QED
      BY <1>6, <1>7, <2>3, <3>1, NonePicked
  <2>5. Len(x) = nx /\ \A i \in 1 .. nx : x[0 + i] = h.kvs[i]
    BY <1>2, <1>8, <1>10, <2>4
  <2> QED
    BY <1>2, <1>11, <2>5 DEF x, nx
<1>12. CASE h.f.coorsys = "0"
  <2>1. Once(keys, "epoch")
    BY <1>4, <1>12, EpochOnce
  <2>2. PICK e \in 1 .. nw : keys[e] = "epoch"
               /\ \A i \in 1 .. nw : keys[i] = "epoch" => i = e
    BY <1>2, <2>1 DEF Once
  <2> DEFINE a == nb + (e - 1)
             b == nb + e
  <2>3. /\ a \in 0 .. len /\ b \in 0 .. len /\ b = a + 1 /\ n1 \in b .. len
        /\ a \in Nat /\ b \in Nat /\ 1 \in 0 .. len - a /\ 0 \in 0 .. len
    BY <1>2, <1>7, <2>2
  <2>4. \A n \in 0 + 1 .. a : n \notin P
    <3> TAKE n \in 0 + 1 .. a
    <3>1. n \in 1 .. nb \/ (n - nb \in 1 .. nw /\ nb + (n - nb) = n
            /\ n - nb # e)
      BY <1>2, <2>2
    <3> QED
      BY <1>3, <2>2, <3>1
  <2>5. \A n \in b + 1 .. n1 : n \notin P
    <3> TAKE n \in b + 1 .. n1
    <3>1. n - nb \in 1 .. nw /\ nb + (n - nb) = n /\ n - nb # e
      BY <1>2, <2>2
    <3> QED
      BY <1>3, <2>2, <3>1
  <2>6. b \in P /\ kvs[b][1] = "epoch"
    BY <1>2, <1>3, <2>2
  <2> HIDE DEF a, b, n1
  <2>7. up[a] = up[0]
    BY <1>6, <1>7, <2>3, <2>4, NonePicked
  <2>8. up[n1] = up[b]
    BY <1>6, <1>7, <2>3, <2>5, NonePicked
  <2>9. IsSeq(up[b]) /\ Len(up[b]) = 1 /\ up[b][1] = kvs[b]
    <3>1. b \in 1 .. len /\ b - 1 = a
      BY <2>3
    <3>2. len \in Nat /\ Steps(up, kvs, P, len)
      BY <1>6, <1>7
    <3>3. \A n \in 1 .. len :
            up[n] = IF n \in P THEN Append(up[n - 1], kvs[n]) ELSE up[n - 1]
      BY <3>2, StepOf
    <3>4. up[b] = Append(up[0], kvs[b])
      BY <2>6, <2>7, <3>1, <3>3
    <3> DEFINE s == up[0]
               t == up[b]
    <3>5. IsSeq(s) /\ Len(s) = 0 /\ t = Append(s, kvs[b])
      BY <1>8, <3>4
    <3> HIDE DEF s, t
    <3>6. IsSeq(t) /\ Len(t) = Len(s) + 1 /\ t[Len(s) + 1] = kvs[b]
      BY <3>5, AppendedAt
    <3>7. IsSeq(t) /\ Len(t) = 1 /\ t[1] = kvs[b]
      BY <3>5, <3>6
    <3> QED
      BY <3>7 DEF t
  <2>10. IsSeq(up[n1]) /\ Len(up[n1]) = 1 /\ up[n1][1][1] = "epoch"
    BY <2>6, <2>8, <2>9
  <2>11. /\ Len(x) = 1 + nx /\ x[1] = up[n1][1]
         /\ \A i \in 1 .. nx : x[1 + i] = h.kvs[i]
    BY <1>10, <2>10
  <2> QED
    BY <1>2, <1>12, <2>10, <2>11 DEF x, nx
<1> QED
  BY <1>11, <1>12

(* What the n-th reader of a plan has kept of the extras of the first one: all,
   in their order, behind the epochs printed since. *)
Grown(g, n) == IF g.f.coorsys = "0" THEN n - 1 ELSE 0

ExtraKept(g, h, n) ==
    /\ Len(h.kvs) = Len(g.kvs) + Grown(g, n)
    /\ \A i \in 1 .. Grown(g, n) : h.kvs[i][1] = "epoch"
    /\ \A i \in 1 .. Len(g.kvs) : h.kvs[Grown(g, n) + i] = g.kvs[i]

LEMMA ExtraKeptRelayed ==
    ASSUME NEW g, NEW h, NEW n \in Nat \ {0}, g.type \in Plans,
           WellFormed(g), WellFormed(h), Kept(g, h, n), ExtraKept(g, h, n)
    PROVE  ExtraKept(g, Resolve(ToString(h)), n + 1)
<1> DEFINE x == Resolve(ToString(h)).kvs
           ng == Len(g.kvs)
           nh == Len(h.kvs)
           old == Grown(g, n)
           grown == IF h.f.coorsys = "0" THEN 1 ELSE 0
<1>1. h.type = g.type /\ g.type \in Selective
  BY DEF Kept, Selective
<1>2. h.f.coorsys = "0" <=> g.f.coorsys = "0"
  <2>1. Agree(g.type, g.f, h.f)
    BY <1>1 DEF Kept, Plans
  <2>2. Digits(h.f.coorsys) = Digits(g.f.coorsys)
    BY <2>1, PlanShown
  <2> QED
    BY <2>2, SameDigits
<1>3. old \in Nat /\ grown \in {0, 1} /\ Grown(g, n + 1) = old + grown
      /\ (grown = 0 => old = 0)
  BY <1>2 DEF Grown
<1>4. ng \in Nat /\ nh \in Nat
  BY SeqShape DEF WellFormed
<1>5. /\ nh = ng + old
      /\ \A i \in 1 .. old : h.kvs[i][1] = "epoch"
      /\ \A i \in 1 .. ng : h.kvs[old + i] = g.kvs[i]
  BY DEF ExtraKept
<1>6. /\ Len(x) = nh + grown
      /\ grown = 1 => x[1][1] = "epoch"
      /\ \A i \in 1 .. nh : x[grown + i] = h.kvs[i]
  BY <1>1, NextExtras
<1> HIDE DEF x, ng, nh, old, grown
<1>7. Len(x) = ng + (old + grown)
  BY <1>3, <1>4, <1>5, <1>6
<1>8. ASSUME NEW i \in 1 .. old + grown PROVE x[i][1] = "epoch"
  <2>1. CASE grown = 0
    BY <1>3, <2>1
  <2>2. CASE grown = 1 /\ i = 1
    BY <1>6, <2>2
  <2>3. CASE grown = 1 /\ i # 1
    <3>1. /\ i - 1 \in 1 .. old /\ i - 1 \in 1 .. nh /\ grown + (i - 1) = i
      BY <1>3, <1>4, <1>5, <2>3
    <3> QED
      BY <1>5, <1>6, <3>1
  <2> QED
    BY <1>3, <2>1, <2>2, <2>3
<1>9. ASSUME NEW i \in 1 .. ng PROVE x[(old + grown) + i] = g.kvs[i]
  <2>1. old + i \in 1 .. nh /\ grown + (old + i) = (old + grown) + i
    BY <1>3, <1>4, <1>5
  <2> QED
    BY <1>5, <1>6, <2>1
<1> QED
  BY <1>3, <1>7, <1>8, <1>9 DEF ExtraKept, x, ng

LEMMA ExtraKeptAtFirst ==
    ASSUME NEW h, WellFormed(h) PROVE ExtraKept(h, h, 1)
<1>1. Grown(h, 1) = 0 /\ Len(h.kvs) \in Nat
  BY SeqShape DEF WellFormed, Grown
<1> QED
  BY <1>1 DEF ExtraKept

(* The inductive invariant: as RelayInv, for the extras of a plan *)
ExtraInv ==
    /\ RelayInv
    /\ hops > 0 /\ first.type \in Plans =>
         /\ held # Null => ExtraKept(first, held, hops)
         /\ line # Null => ExtraKept(first, Resolve(line), hops + 1)

LEMMA ExtraInductive == ExtraInv /\ [Next]_vars => ExtraInv'
<1> SUFFICES ASSUME ExtraInv, [Next]_vars PROVE ExtraInv'
  OBVIOUS
<1>1. RelayInv /\ RelayInv' /\ OwnInv /\ OwnInv' /\ hops \in Nat
  BY RelayInductive DEF ExtraInv, RelayInv, OwnInv
<1>2. CASE Refuse
  BY <1>1, <1>2 DEF Refuse, ExtraInv
<1>3. CASE Die
  BY <1>1, <1>3 DEF Die, ExtraInv
<1>4. CASE Receive
  <2>1. /\ held' = Resolve(line) /\ line' = Null /\ hops' = hops + 1
        /\ line # Null
        /\ first' = IF hops = 0 THEN held' ELSE first
    BY <1>4 DEF Receive
  <2>2. hops' > 0 /\ WellFormed(first')
    BY <1>1, <2>1 DEF RelayInv
  <2>3. CASE hops = 0
    BY <1>1, <2>1, <2>2, <2>3, ExtraKeptAtFirst DEF ExtraInv
  <2>4. CASE hops # 0
    BY <1>1, <2>1, <2>4 DEF ExtraInv
  <2> QED
    BY <2>3, <2>4
<1>5. CASE Send
  <2>1. /\ line' = ToString(held) /\ held # Null /\ held' = Null
        /\ UNCHANGED <<first, hops>>
    BY <1>5 DEF Send
  <2>2. WellFormed(held) /\ WellFormed(first) /\ Kept(first, held, hops)
        /\ hops \in Nat \ {0}
    BY <1>1, <2>1 DEF RelayInv, OwnInv
  <2>3. CASE first.type \in Plans
    <3>1. ExtraKept(first, held, hops)
      BY <2>1, <2>2, <2>3 DEF ExtraInv
    <3>2. ExtraKept(first, Resolve(line'), hops + 1)
      BY <2>1, <2>2, <2>3, <3>1, ExtraKeptRelayed
    <3> QED
      BY <1>1, <2>1, <3>2 DEF ExtraInv
  <2>4. CASE first.type \notin Plans
    BY <1>1, <2>1, <2>4 DEF ExtraInv
  <2> QED
    BY <2>3, <2>4
<1>6. CASE UNCHANGED vars
  BY <1>1, <1>6 DEF vars, ExtraInv
<1> QED
  BY <1>2, <1>3, <1>4, <1>5, <1>6 DEF Next

(* Cutting a sequence behind its first n elements *)
LEMMA Rest ==
    ASSUME NEW s, IsSeq(s), NEW t, IsSeq(t), NEW n \in Nat, Len(s) = Len(t) + n,
           \A i \in 1 .. Len(t) : s[n + i] = t[i]
    PROVE  SubSeq(s, n + 1, Len(s)) = t
<1> DEFINE u == SubSeq(s, n + 1, Len(s))
           S == Range(s)
<1>1. Len(t) \in Nat /\ Len(s) \in Nat
  BY SeqShape
<1>2. u = [i \in 1 .. Len(t) |-> s[n + i]]
  <2>1. s \in Seq(S)
    BY DEF IsSeq
  <2>2. u = [i \in 1 .. Len(s) - n |-> s[n + i]]
    BY <1>1
  <2> QED
    BY <1>1, <2>2
<1>3. t = [i \in 1 .. Len(t) |-> t[i]]
  BY SeqShape
<1> HIDE DEF u
<1>4. u = [i \in 1 .. Len(t) |-> t[i]]
  BY <1>1, <1>2
<1> QED
  BY <1>3, <1>4 DEF u

(* Whatever the client adds to a plan: each reader of a relayed plan keeps the
   pairs that resolve_append_plan does not know, in their order, and one epoch
   more per relay if the plan is equatorial (KVProtocol.cpp, ProtoKV.h). *)
THEOREM ExtrasStay == Spec => []ExtrasKept
<1>1. Init => ExtraInv
  BY DEF Init, ExtraInv, RelayInv, OwnInv, OwnLinesAreSafe
<1>2. ExtraInv => ExtrasKept
  <2> SUFFICES ASSUME ExtraInv, held # Null, held.type \in Plans
               PROVE ExtrasKept
    BY DEF ExtrasKept
  <2> DEFINE grown == Grown(first, hops)
  <2>1. /\ hops \in Nat \ {0} /\ WellFormed(first) /\ WellFormed(held)
        /\ held.type = first.type
    BY DEF ExtraInv, RelayInv, OwnInv, Kept
  <2>2. ExtraKept(first, held, hops)
    BY <2>1 DEF ExtraInv
  <2>3. grown \in Nat /\ grown = IF first.f.coorsys = "0" THEN hops - 1 ELSE 0
    BY <2>1 DEF Grown
  <2>4. IsSeq(held.kvs) /\ IsSeq(first.kvs)
    BY <2>1 DEF WellFormed
  <2>5. SubSeq(held.kvs, grown + 1, Len(held.kvs)) = first.kvs
    <3>1. /\ Len(held.kvs) = Len(first.kvs) + grown
          /\ \A i \in 1 .. Len(first.kvs) : held.kvs[grown + i] = first.kvs[i]
      BY <2>2 DEF ExtraKept
    <3> DEFINE s == held.kvs
               t == first.kvs
    <3>2. /\ grown \in Nat /\ IsSeq(s) /\ IsSeq(t) /\ Len(s) = Len(t) + grown
          /\ \A i \in 1 .. Len(t) : s[grown + i] = t[i]
      BY <2>3, <2>4, <3>1
    <3> HIDE DEF grown, s, t
    <3>3. SubSeq(s, grown + 1, Len(s)) = t
      BY <3>2, Rest
    <3> QED
      BY <3>3 DEF s, t
  <2> QED
    BY <2>2, <2>3, <2>5 DEF ExtrasKept, ExtraKept
<1> QED
  BY <1>1, <1>2, ExtraInductive, PTL DEF Spec

=============================================================================
