------------------------- MODULE ATimeSpace_proofs -------------------------
(***************************************************************************)
(* Proofs about ATimeSpace: a quantity that is kept is one of the day that *)
(* is stored and of the site, whatever was asked for before, and that day  *)
(* the one that was named, or the next just before midnight.               *)
(*                                                                         *)
(* The quantities are ranked by what they are computed from, so that what  *)
(* holds of the inputs and passes from the needs of a quantity to the      *)
(* quantity holds of all of them.  The calendar of the code, which goes    *)
(* through a date and back, is shown to give the day that was meant.       *)
(***************************************************************************)
EXTENDS ATimeSpace, FiniteSetTheorems, WellFoundedInduction, TLAPS

(***************************************************************************)
(* What is computed from what                                              *)
(***************************************************************************)

Inputs == {"MJD", "DAT", "SITE"}

LEMMA NamesAre == Names = Quantities \cup Inputs /\ DOMAIN Input = Inputs
BY DEF Names, Input, Inputs

(* Quantities are computed from inputs and from quantities of lower rank. *)
Rank(k) ==
    CASE k \in Inputs -> 0
      [] k \in {"JC", "JD", "TAI"} -> 1
      [] k \in {"GMST", "MO", "POSITION_SUN", "MASUN", "MAMOON",
                "MELONG_MOON_SUN", "MLAN_MOON", "RLONG_MOON", "ML_SUN",
                "ECCENTRICITY_EARTH", "PL_EARTH"} -> 2
      [] k \in {"LMST", "NL", "NO", "CENTER_SUN"} -> 3
      [] k \in {"GST", "TL_SUN", "TA_SUN", "POSITION_MOON"} -> 4
      [] OTHER -> 5

LEMMA QuantityNames ==
    Quantities =
      {"JC", "JD", "TAI", "GMST", "GST", "LMST", "LST", "MO", "NL", "NO",
       "MASUN", "MAMOON", "MELONG_MOON_SUN", "MLAN_MOON", "RLONG_MOON",
       "ML_SUN", "ECCENTRICITY_EARTH", "PL_EARTH", "CENTER_SUN", "TL_SUN",
       "TA_SUN", "POSITION_SUN", "POSITION_MOON", "POSITION_MOON_TOPO"}
<1>1. Quantities = UNION {DOMAIN TimeNeeds, DOMAIN SiderealNeeds,
        DOMAIN ObliquityNeeds, DOMAIN SunMoonNeeds, DOMAIN SunNeeds,
        DOMAIN MoonNeeds}
  <2>1. /\ AllNeeds[1] = TimeNeeds /\ AllNeeds[2] = SiderealNeeds
        /\ AllNeeds[3] = ObliquityNeeds /\ AllNeeds[4] = SunMoonNeeds
        /\ AllNeeds[5] = SunNeeds /\ AllNeeds[6] = MoonNeeds
        /\ DOMAIN AllNeeds = {1, 2, 3, 4, 5, 6}
    BY DEF AllNeeds
  <2> QED
    BY <2>1 DEF Quantities
<1>2. /\ DOMAIN TimeNeeds = {"JC", "JD", "TAI"}
      /\ DOMAIN SiderealNeeds = {"GMST", "GST", "LMST", "LST"}
      /\ DOMAIN ObliquityNeeds = {"MO", "NL", "NO"}
      /\ DOMAIN SunMoonNeeds =
           {"MASUN", "MAMOON", "MELONG_MOON_SUN", "MLAN_MOON", "RLONG_MOON",
            "ML_SUN", "ECCENTRICITY_EARTH", "PL_EARTH"}
      /\ DOMAIN SunNeeds = {"CENTER_SUN", "TL_SUN", "TA_SUN", "POSITION_SUN"}
      /\ DOMAIN MoonNeeds = {"POSITION_MOON", "POSITION_MOON_TOPO"}
  BY DEF TimeNeeds, SiderealNeeds, ObliquityNeeds, SunMoonNeeds, SunNeeds,
         MoonNeeds
<1> QED
  BY <1>1, <1>2

(* What is asked of the needs N of a quantity k *)
Grounded(k, N) ==
    /\ k \notin Inputs /\ Rank(k) \in 1 .. 5
    /\ \A j \in N : j \in Names /\ Rank(j) \in 0 .. 5 /\ Rank(j) < Rank(k)
    /\ N \ {"DAT", "SITE"} # {}

LEMMA TimeGrounded ==
    \A k \in DOMAIN TimeNeeds : Grounded(k, TimeNeeds[k])
BY QuantityNames, NamesAre DEF TimeNeeds, Grounded, Rank, Inputs

LEMMA SiderealGrounded ==
    \A k \in DOMAIN SiderealNeeds : Grounded(k, SiderealNeeds[k])
BY QuantityNames, NamesAre DEF SiderealNeeds, Grounded, Rank, Inputs

LEMMA ObliquityGrounded ==
    \A k \in DOMAIN ObliquityNeeds : Grounded(k, ObliquityNeeds[k])
BY QuantityNames, NamesAre DEF ObliquityNeeds, Nutation, Grounded, Rank, Inputs

LEMMA SunMoonGrounded ==
    \A k \in DOMAIN SunMoonNeeds : Grounded(k, SunMoonNeeds[k])
BY QuantityNames, NamesAre DEF SunMoonNeeds, Grounded, Rank, Inputs

LEMMA SunGrounded ==
    \A k \in DOMAIN SunNeeds : Grounded(k, SunNeeds[k])
BY QuantityNames, NamesAre DEF SunNeeds, Grounded, Rank, Inputs

LEMMA MoonGrounded ==
    \A k \in DOMAIN MoonNeeds : Grounded(k, MoonNeeds[k])
BY QuantityNames, NamesAre DEF MoonNeeds, Grounded, Rank, Inputs

LEMMA NeedsGrounded == \A k \in Quantities : Grounded(k, Needs[k])
<1>1. ASSUME NEW i \in DOMAIN AllNeeds, NEW k \in DOMAIN AllNeeds[i]
      PROVE  Grounded(k, AllNeeds[i][k])
  <2>1. i \in 1 .. 6
    BY DEF AllNeeds
  <2>2. /\ AllNeeds[1] = TimeNeeds /\ AllNeeds[2] = SiderealNeeds
        /\ AllNeeds[3] = ObliquityNeeds /\ AllNeeds[4] = SunMoonNeeds
        /\ AllNeeds[5] = SunNeeds /\ AllNeeds[6] = MoonNeeds
    BY DEF AllNeeds
  <2> QED
    BY <2>1, <2>2, TimeGrounded, SiderealGrounded, ObliquityGrounded,
       SunMoonGrounded, SunGrounded, MoonGrounded
<1> TAKE k \in Quantities
<1> DEFINE i == CHOOSE j \in DOMAIN AllNeeds : k \in DOMAIN AllNeeds[j]
<1>2. i \in DOMAIN AllNeeds /\ k \in DOMAIN AllNeeds[i]
  BY DEF Quantities
<1>3. Needs[k] = AllNeeds[i][k]
  BY DEF Needs
<1> QED
  BY <1>1, <1>2, <1>3

(***************************************************************************)
(* Functions that are computed along the needs                             *)
(***************************************************************************)

(* What R is if it has base[k] for a name in Stop, and for the others more[k]
   and what R has for their needs *)
Along(R, Stop, base, more) ==
    [k \in Names |-> IF k \in Stop THEN base[k]
                     ELSE more[k] \cup UNION {R[j] : j \in Needs[k]}]

(* R and T are equal up to rank n. *)
Equal(R, T, n) == \A k \in Names : Rank(k) <= n => R[k] = T[k]

LEMMA EqualAbove ==
    ASSUME NEW Stop, Inputs \subseteq Stop, NEW base, NEW more, NEW R, NEW T,
           NEW n \in Nat, Equal(R, T, n)
    PROVE  Equal(Along(R, Stop, base, more), Along(T, Stop, base, more), n + 1)
<1> SUFFICES ASSUME NEW k \in Names, Rank(k) <= n + 1, k \notin Stop
             PROVE  UNION {R[j] : j \in Needs[k]}
                      = UNION {T[j] : j \in Needs[k]}
  BY DEF Equal, Along
<1>1. k \in Quantities /\ Grounded(k, Needs[k])
  BY NeedsGrounded, NamesAre
<1>2. ASSUME NEW j \in Needs[k] PROVE R[j] = T[j]
  <2>1. j \in Names /\ Rank(j) \in Int /\ Rank(k) \in Int /\ Rank(j) < Rank(k)
    BY <1>1 DEF Grounded
  <2>2. Rank(j) <= n
    BY <2>1
  <2> QED
    BY <2>1, <2>2 DEF Equal
<1>3. {R[j] : j \in Needs[k]} = {T[j] : j \in Needs[k]}
  BY <1>2
<1> QED
  BY <1>3

LEMMA RankOfNames ==
    \A k \in Names : Rank(k) \in 0 .. 5 /\ (Rank(k) = 0 => k \in Inputs)
<1>1. \A k \in Inputs : Rank(k) = 0
  BY DEF Rank, Inputs
<1> QED
  BY <1>1, NeedsGrounded, NamesAre DEF Grounded

(* The needs form no cycle, so such a function exists: from any function it
   is reached in as many steps as there are ranks. *)
LEMMA AlongExists ==
    ASSUME NEW Stop, Inputs \subseteq Stop, NEW base, NEW more
    PROVE  \E R : R = Along(R, Stop, base, more)
<1> DEFINE F(R) == Along(R, Stop, base, more)
           r0 == [k \in Names |-> {}]
           r1 == F(r0)
           r2 == F(r1)
           r3 == F(r2)
           r4 == F(r3)
           r5 == F(r4)
           r6 == F(r5)
           r7 == F(r6)
<1>1. Equal(r1, r2, 0)
  BY RankOfNames DEF Equal, Along
<1>2. \A R, T : \A n \in Nat : Equal(R, T, n) => Equal(F(R), F(T), n + 1)
  BY EqualAbove
<1>3. r6 = F(r5) /\ r7 = F(r6)
  OBVIOUS
<1> HIDE DEF F
<1>4. Equal(r2, r3, 1)
  BY <1>1, <1>2
<1>5. Equal(r3, r4, 2)
  BY <1>2, <1>4
<1>6. Equal(r4, r5, 3)
  BY <1>2, <1>5
<1>7. Equal(r5, r6, 4)
  BY <1>2, <1>6
<1>8. Equal(r6, r7, 5)
  BY <1>2, <1>7
<1> HIDE DEF r5, r6, r7
<1>9. \A k \in Names : r6[k] = r7[k]
  BY <1>8, RankOfNames DEF Equal
<1>10. r6 = [k \in Names |-> r6[k]] /\ r7 = [k \in Names |-> r7[k]]
  BY <1>3 DEF F, Along
<1>11. r6 = F(r6)
  BY <1>3, <1>9, <1>10
<1> QED
  BY <1>11 DEF F

(* The value that a caller gets: a kept one, one that is set, or one computed
   from the values of what it needs. *)
LEMMA ValueOfNames ==
    ASSUME valid \subseteq Quantities
    PROVE  /\ \A k \in valid : ValueOf[k] = values[k]
           /\ \A k \in Inputs : ValueOf[k] = Input[k]
           /\ \A k \in Quantities \ valid :
                ValueOf[k] = UNION {ValueOf[j] : j \in Needs[k]}
<1> DEFINE Stop == Inputs \cup valid
           base == [k \in Names |-> IF k \in valid THEN values[k] ELSE Input[k]]
           more == [k \in Names |-> {}]
           E(v) == [k \in Names |->
                      IF k \in valid THEN values[k]
                      ELSE IF k \in DOMAIN Input THEN Input[k]
                      ELSE UNION {v[j] : j \in Needs[k]}]
<1>1. Quantities \cap Inputs = {}
  BY NeedsGrounded DEF Grounded
<1>2. \A v : E(v) = Along(v, Stop, base, more)
  <2> TAKE v
  <2>1. ASSUME NEW k \in Names
        PROVE  E(v)[k] = IF k \in Stop THEN base[k]
                         ELSE more[k] \cup UNION {v[j] : j \in Needs[k]}
    BY NamesAre
  <2> QED
    BY <2>1 DEF Along
<1>3. \E v : v = Along(v, Stop, base, more)
  BY AlongExists
<1>4. ValueOf = CHOOSE v : v = E(v)
  BY DEF ValueOf
<1> HIDE DEF E
<1>5. ValueOf = E(ValueOf)
  <2>1. \E v : v = E(v)
    BY <1>2, <1>3
  <2> QED
    BY <1>4, <2>1
<1> QED
  BY <1>1, <1>5, NamesAre DEF E

(* Induction along the needs, rank by rank *)
LEMMA ByRank ==
    ASSUME NEW T, \A k \in Inputs : k \in T,
           \A k \in Quantities : (\A j \in Needs[k] : j \in T) => k \in T
    PROVE  \A k \in Names : k \in T
<1> DEFINE UpTo(n) == \A k \in Names : Rank(k) <= n => k \in T
<1>1. UpTo(0)
  BY RankOfNames
<1>2. ASSUME NEW n \in Nat, UpTo(n) PROVE UpTo(n + 1)
  <2> SUFFICES ASSUME NEW k \in Quantities, Rank(k) <= n + 1 PROVE k \in T
    BY NamesAre
  <2>1. \A j \in Needs[k] : j \in Names /\ Rank(j) < Rank(k)
    BY NeedsGrounded DEF Grounded
  <2>2. \A j \in Needs[k] : Rank(j) <= n
    <3> TAKE j \in Needs[k]
    <3>1. Rank(j) \in Int /\ Rank(k) \in Int /\ Rank(j) < Rank(k)
      BY <2>1, RankOfNames, NamesAre
    <3> QED
      BY <3>1
  <2> QED
    BY <1>2, <2>1, <2>2
<1> HIDE DEF UpTo
<1>3. UpTo(1)
  BY <1>1, <1>2
<1>4. UpTo(2)
  BY <1>2, <1>3
<1>5. UpTo(3)
  BY <1>2, <1>4
<1>6. UpTo(4)
  BY <1>2, <1>5
<1>7. UpTo(5)
  BY <1>2, <1>6
<1> QED
  BY <1>7, RankOfNames DEF UpTo

(* What is computed on the way are quantities. *)
LEMMA ComputedNames ==
    ASSUME valid \subseteq Quantities
    PROVE  \A k \in Names : Computed[k] \subseteq Quantities
<1> DEFINE Stop == Inputs \cup valid
           base == [k \in Names |-> {}]
           more == [k \in Names |-> Together(k)]
           E(c) == [k \in Names |->
                      IF k \in valid \cup DOMAIN Input THEN {}
                      ELSE Together(k) \cup UNION {c[j] : j \in Needs[k]}]
<1>1. \A c : E(c) = Along(c, Stop, base, more)
  <2> TAKE c
  <2>1. ASSUME NEW k \in Names
        PROVE  E(c)[k] = IF k \in Stop THEN base[k]
                         ELSE more[k] \cup UNION {c[j] : j \in Needs[k]}
    BY NamesAre
  <2> QED
    BY <2>1 DEF Along
<1>2. \E c : c = Along(c, Stop, base, more)
  BY AlongExists
<1>3. Computed = CHOOSE c : c = E(c)
  BY DEF Computed
<1> HIDE DEF E
<1>4. Computed = E(Computed)
  <2>1. \E c : c = E(c)
    BY <1>1, <1>2
  <2> QED
    BY <1>3, <2>1
<1>5. \A k \in Names :
        Computed[k] = IF k \in valid \cup DOMAIN Input THEN {}
                      ELSE Together(k) \cup UNION {Computed[j] : j \in Needs[k]}
  BY <1>4 DEF E
<1> DEFINE T == {k \in Names : Computed[k] \subseteq Quantities}
<1>6. \A k \in Inputs : k \in T
  BY <1>5, NamesAre
<1>7. ASSUME NEW k \in Quantities, \A j \in Needs[k] : j \in T PROVE k \in T
  <2>1. Together(k) \subseteq Quantities
    <3>1. {"NL", "NO"} \subseteq Quantities
      BY QuantityNames
    <3> QED
      BY <3>1 DEF Together
  <2>2. k \in Names
    BY NamesAre
  <2> DEFINE U == UNION {Computed[j] : j \in Needs[k]}
  <2>3. U \subseteq Quantities
    BY <1>7
  <2> HIDE DEF U
  <2>4. Computed[k] = {} \/ Computed[k] = Together(k) \cup U
    BY <1>5, <2>2 DEF U
  <2> QED
    BY <2>1, <2>2, <2>3, <2>4
<1> HIDE DEF T
<1>8. \A k \in Names : k \in T
  BY <1>6, <1>7, ByRank
<1> QED
  BY <1>8 DEF T

(***************************************************************************)
(* The time and the place of what is kept                                  *)
(***************************************************************************)

(* S is from the time and the place that are set, or from an earlier place if
   the place was set after the time. *)
OfNow(S) ==
    /\ S \subseteq {<<"mjd", mjd>>, <<"dat", dat>>}
                     \cup {<<"site", s>> : s \in Sites}
    /\ ~moved => \A s \in Sites \ {site} : <<"site", s>> \notin S

LEMMA ValuesOfNow ==
    ASSUME valid \subseteq Quantities, site \in Sites,
           \A k \in valid : OfNow(values[k]) /\ <<"mjd", mjd>> \in values[k]
    PROVE  \A k \in Quantities :
             OfNow(ValueOf[k]) /\ <<"mjd", mjd>> \in ValueOf[k]
<1> DEFINE Good(k) ==
             /\ OfNow(ValueOf[k])
             /\ k \notin {"DAT", "SITE"} => <<"mjd", mjd>> \in ValueOf[k]
           T == {k \in Names : Good(k)}
<1>1. ASSUME NEW k \in Inputs PROVE k \in T
  <2>1. ValueOf[k] = Input[k] /\ k \in Names
    BY ValueOfNames, NamesAre
  <2>2. CASE k = "MJD"
    BY <2>1, <2>2 DEF Input, OfNow
  <2>3. CASE k = "DAT"
    BY <2>1, <2>3 DEF Input, OfNow
  <2>4. CASE k = "SITE"
    BY <2>1, <2>4 DEF Input, OfNow
  <2> QED
    BY <2>2, <2>3, <2>4 DEF Inputs
<1>2. ASSUME NEW k \in Quantities, \A j \in Needs[k] : j \in T PROVE k \in T
  <2>1. k \in Names
    BY NamesAre
  <2>2. CASE k \in valid
    BY <2>1, <2>2, ValueOfNames
  <2>3. CASE k \notin valid
    <3>1. ValueOf[k] = UNION {ValueOf[j] : j \in Needs[k]}
      BY <2>3, ValueOfNames
    <3>2. \A j \in Needs[k] : OfNow(ValueOf[j])
      BY <1>2
    <3>3. OfNow(ValueOf[k])
      <4> DEFINE A == {<<"mjd", mjd>>, <<"dat", dat>>}
                        \cup {<<"site", s>> : s \in Sites}
             Elsewhere == {<<"site", s>> : s \in Sites \ {site}}
      <4>1. \A j \in Needs[k] :
              /\ ValueOf[j] \subseteq A
              /\ ~moved => ValueOf[j] \cap Elsewhere = {}
        BY <3>2 DEF OfNow
      <4> HIDE DEF A, Elsewhere
      <4>2. /\ ValueOf[k] \subseteq A
            /\ ~moved => ValueOf[k] \cap Elsewhere = {}
        BY <3>1, <4>1
      <4> QED
        BY <4>2 DEF A, Elsewhere, OfNow
    <3>4. PICK j \in Needs[k] : j \notin {"DAT", "SITE"}
      BY NeedsGrounded DEF Grounded
    <3>5. <<"mjd", mjd>> \in ValueOf[j]
      BY <1>2, <3>4
    <3> QED
      BY <2>1, <3>1, <3>3, <3>5
  <2> QED
    BY <2>2, <2>3
<1> HIDE DEF T
<1>3. \A k \in Names : k \in T
  BY <1>1, <1>2, ByRank
<1>4. \A k \in Quantities : k \in Names /\ k \notin {"DAT", "SITE"}
  BY NamesAre, NeedsGrounded DEF Grounded, Inputs
<1> QED
  BY <1>3, <1>4 DEF T

(***************************************************************************)
(* The calendar: leap years                                                *)
(***************************************************************************)

LEMMA LeastNumber ==
    ASSUME NEW T \in SUBSET Nat, T # {}
    PROVE  \E n \in T : \A k \in T : n <= k
<1> DEFINE R == {ss \in Nat \X Nat : ss[1] < ss[2]}
<1>1. IsWellFoundedOn(R, Nat)
  BY NatLessThanWellFounded, Zenon DEF OpToRel
<1>2. PICK n \in T : \A k \in T : ~(<<k, n>> \in R)
  <2> HIDE DEF R
  <2> QED
    BY <1>1, WFMin
<1>3. ASSUME NEW k \in T PROVE n <= k
  <2>1. <<k, n>> \in Nat \X Nat /\ <<k, n>>[1] = k /\ <<k, n>>[2] = n
    OBVIOUS
  <2>2. ~(k < n)
    BY <1>2, <2>1
  <2> QED
    BY <2>2
<1> QED
  BY <1>3

(* 1 if n is divisible, else 0 *)
Next4(n) == n \div 4 - (n - 1) \div 4
Next100(n) == n \div 100 - (n - 1) \div 100
Next400(n) == n \div 400 - (n - 1) \div 400

LEMMA LeapStep ==
    ASSUME NEW n \in Int
    PROVE  Next4(n) - Next100(n) + Next400(n) = IF Leap(n, 2) THEN 1 ELSE 0
<1>1. n % 4 = 0 => Next4(n) = 1
  BY DEF Next4
<1>2. n % 4 # 0 => Next4(n) = 0
  BY DEF Next4
<1>3. n % 100 = 0 => Next100(n) = 1
  BY DEF Next100
<1>4. n % 100 # 0 => Next100(n) = 0
  BY DEF Next100
<1>5. n % 400 = 0 => Next400(n) = 1
  BY DEF Next400
<1>6. n % 400 # 0 => Next400(n) = 0
  BY DEF Next400
<1>7. (n % 400 = 0 => n % 100 = 0) /\ (n % 100 = 0 => n % 4 = 0)
  OBVIOUS
<1>8. n % 4 \in Int /\ n % 100 \in Int /\ n % 400 \in Int
  OBVIOUS
<1> QED
  BY <1>1, <1>2, <1>3, <1>4, <1>5, <1>6, <1>7, <1>8 DEF Leap

(* The leap years from 1970 on that are before year n, and how many *)
LeapYears(n) == {y \in 1970 .. n - 1 : Leap(y, 2)}
Leaps(n) == (n - 1) \div 4 - (n - 1) \div 100 + (n - 1) \div 400 - 477

LEMMA LeapCount ==
    ASSUME NEW n \in Int, n >= 1970
    PROVE  IsFiniteSet(LeapYears(n)) /\ Cardinality(LeapYears(n)) = Leaps(n)
<1> DEFINE P(k) == /\ IsFiniteSet(LeapYears(1970 + k))
                   /\ Cardinality(LeapYears(1970 + k)) = Leaps(1970 + k)
<1>1. P(0)
  <2>1. LeapYears(1970 + 0) = {}
    BY DEF LeapYears
  <2>2. Leaps(1970 + 0) = 0
    BY DEF Leaps
  <2> QED
    BY <2>1, <2>2, FS_EmptySet
<1>2. ASSUME NEW k \in Nat, P(k) PROVE P(k + 1)
  <2> DEFINE y == 1970 + k
  <2>1. Leaps(y + 1) = Leaps(y) + IF Leap(y, 2) THEN 1 ELSE 0
    <3>1. Leaps(y + 1) - Leaps(y) = Next4(y) - Next100(y) + Next400(y)
      BY DEF Leaps, Next4, Next100, Next400
    <3>2. Leaps(y + 1) \in Int /\ Leaps(y) \in Int
      BY DEF Leaps
    <3> QED
      BY <3>1, <3>2, LeapStep
  <2>2. /\ Leap(y, 2) => LeapYears(y + 1) = LeapYears(y) \cup {y}
        /\ ~Leap(y, 2) => LeapYears(y + 1) = LeapYears(y)
    <3>1. 1970 .. (y + 1) - 1 = (1970 .. y - 1) \cup {y}
      OBVIOUS
    <3> HIDE DEF y
    <3> QED
      BY <3>1 DEF LeapYears
  <2>3. y \notin LeapYears(y)
    BY DEF LeapYears
  <2>4. Leaps(y) \in Int /\ (y + 1) = 1970 + (k + 1)
    BY DEF Leaps
  <2>5. IsFiniteSet(LeapYears(y)) /\ Cardinality(LeapYears(y)) = Leaps(y)
    BY <1>2
  <2> HIDE DEF y
  <2>6. CASE Leap(y, 2)
    <3>1. LeapYears(y + 1) = LeapYears(y) \cup {y}
      BY <2>2, <2>6
    <3>2. /\ IsFiniteSet(LeapYears(y + 1))
          /\ Cardinality(LeapYears(y + 1)) = Cardinality(LeapYears(y)) + 1
      BY <2>3, <2>5, <3>1, FS_AddElement
    <3> QED
      BY <2>1, <2>4, <2>5, <2>6, <3>2
  <2>7. CASE ~Leap(y, 2)
    <3>1. LeapYears(y + 1) = LeapYears(y)
      BY <2>2, <2>7
    <3>2. Leaps(y + 1) = Leaps(y)
      BY <2>1, <2>4, <2>7
    <3> QED
      BY <2>4, <2>5, <3>1, <3>2
  <2> QED
    BY <2>6, <2>7
<1> DEFINE T == {k \in Nat : ~P(k)}
<1> HIDE DEF P
<1>3. ASSUME T # {} PROVE FALSE
  <2>1. PICK k \in T : \A j \in T : k <= j
    <3>1. T \in SUBSET Nat
      OBVIOUS
    <3> HIDE DEF T
    <3> QED
      BY <1>3, <3>1, LeastNumber
  <2>2. k # 0 /\ k \in Nat
    BY <1>1, <2>1
  <2>3. k - 1 \in Nat /\ k - 1 \notin T /\ (k - 1) + 1 = k
    BY <2>1, <2>2
  <2> QED
    BY <1>2, <2>1, <2>3
<1>4. n - 1970 \in Nat /\ 1970 + (n - 1970) = n
  OBVIOUS
<1>5. P(n - 1970)
  BY <1>3, <1>4
<1> QED
  BY <1>4, <1>5 DEF P

(***************************************************************************)
(* The calendar: months                                                    *)
(***************************************************************************)

(* The days of a common year before each month *)
DaysBefore == <<0, 31, 59, 90, 120, 151, 181, 212, 243, 273, 304, 334>>
LeapDay(iy, im) == IF im > 2 /\ Leap(iy, 2) THEN 1 ELSE 0

LEMMA DayOfDate ==
    ASSUME NEW iy \in Int, iy >= 1970, NEW im \in 1 .. 12, NEW id \in Int
    PROVE  DayOf(iy, im, id) = 40586 + 365 * (iy - 1970) + Leaps(iy)
                                 + DaysBefore[im] + LeapDay(iy, im) + id
<1> DEFINE E(v) == [k \in 0 .. 11 |->
                      IF k = 0 THEN 0 ELSE v[k - 1] + MonthDays(iy, k)]
           r == [k \in 0 .. 11 |-> DaysBefore[k + 1] + LeapDay(iy, k + 1)]
           months == CHOOSE v : v = E(v)
<1>1. DayOf(iy, im, id) = 40586 + 365 * (iy - 1970)
                            + Cardinality(LeapYears(iy)) + months[im - 1] + id
  BY DEF DayOf, LeapYears
<1>2. ASSUME NEW k \in 1 .. 12
      PROVE  /\ DaysBefore[k] + LeapDay(iy, k) \in Int
             /\ k # 12 => DaysBefore[k + 1] + LeapDay(iy, k + 1)
                            = (DaysBefore[k] + LeapDay(iy, k))
                                + MonthDays(iy, k)
  BY DEF DaysBefore, LeapDay, MonthDays, mdays, Leap
<1>3. DaysBefore[1] + LeapDay(iy, 1) = 0
  BY DEF DaysBefore, LeapDay
<1>4. r = E(r)
  <2>1. ASSUME NEW k \in 0 .. 11 PROVE r[k] = E(r)[k]
    <3>1. CASE k = 0
      BY <1>3, <3>1
    <3>2. CASE k # 0
      <4>1. k \in 1 .. 12 /\ k # 12 /\ k - 1 \in 0 .. 11 /\ (k - 1) + 1 = k
        BY <3>2
      <4> QED
        BY <1>2, <3>2, <4>1
    <3> QED
      BY <3>1, <3>2
  <2> QED
    BY <2>1
<1>5. months = E(months)
  BY <1>4
<1> HIDE DEF months
<1>6. months[im - 1] = DaysBefore[im] + LeapDay(iy, im)
  <2> DEFINE D(k) == DaysBefore[k] + LeapDay(iy, k)
             Q(k) == months[k] = D(k + 1)
  <2>1. Q(0)
    BY <1>3, <1>5
  <2>2. ASSUME NEW k \in 0 .. 10, Q(k) PROVE Q(k + 1)
    <3>1. months[k + 1] = months[k] + MonthDays(iy, k + 1)
      BY <1>5
    <3>2. D((k + 1) + 1) = D(k + 1) + MonthDays(iy, k + 1)
      BY <1>2
    <3> QED
      BY <2>2, <3>1, <3>2
  <2> HIDE DEF Q
  <2>3. Q(0) /\ Q(1) /\ Q(2) /\ Q(3)
    BY <2>1, <2>2
  <2>4. Q(4) /\ Q(5) /\ Q(6) /\ Q(7)
    BY <2>2, <2>3
  <2>5. Q(8) /\ Q(9) /\ Q(10) /\ Q(11)
    BY <2>2, <2>4
  <2>6. Q(im - 1)
    BY <2>3, <2>4, <2>5
  <2> QED
    BY <2>6 DEF Q
<1>7. Cardinality(LeapYears(iy)) = Leaps(iy) /\ Leaps(iy) \in Int
  BY LeapCount DEF Leaps
<1>8. DaysBefore[im] \in Int /\ LeapDay(iy, im) \in Int
  BY DEF DaysBefore, LeapDay
<1> QED
  BY <1>1, <1>6, <1>7, <1>8

(* What the terms of ModifiedJulianDay are for a year that begins in March *)
MarchDays(im) == (367 * (im - 2 - 12 * (IF im <= 2 THEN -1 ELSE 0))) \div 12
MarchYear(iy, im) == IF im <= 2 THEN iy - 1 ELSE iy

LEMMA MjdOfDate ==
    ASSUME NEW iy \in Int, NEW im \in 1 .. 12, NEW id \in Int
    PROVE  LET Y == MarchYear(iy, im)
           IN  ModifiedJulianDay(iy, im, id) =
                 365 * Y + Y \div 4 - Y \div 100 + Y \div 400
                   + MarchDays(im) + id - 678912
<1> DEFINE Y == MarchYear(iy, im)
           a == (1461 * (Y + 4800)) \div 4
           b == (3 * ((Y + 4900) \div 100)) \div 4
           e == MarchDays(im)
<1>1. ModifiedJulianDay(iy, im, id) = a + e - b + id - 2432076
  BY DEF ModifiedJulianDay, MarchDays, MarchYear
<1>2. Y \in Int /\ e \in Int
  BY DEF MarchYear, MarchDays
<1> HIDE DEF Y, e
<1>3. a = 365 * Y + 1753200 + Y \div 4
  BY <1>2
<1>4. b = (Y \div 100) + 36 - (Y \div 400)
  BY <1>2
<1> HIDE DEF a, b
<1>5. Y \div 4 \in Int /\ Y \div 100 \in Int /\ Y \div 400 \in Int
  BY <1>2
<1>6. ModifiedJulianDay(iy, im, id)
        = 365 * Y + Y \div 4 - Y \div 100 + Y \div 400 + e + id - 678912
  BY <1>1, <1>2, <1>3, <1>4, <1>5, SMT
<1> QED
  BY <1>6, SMT DEF Y, e

(* From 1970 on, the day number of a date is the one that is counted. *)
LEMMA MjdIsDayOf ==
    ASSUME NEW iy \in Int, iy >= 1970, NEW im \in 1 .. 12, NEW id \in Int
    PROVE  ModifiedJulianDay(iy, im, id) = DayOf(iy, im, id)
<1> DEFINE G(y) == 365 * y + y \div 4 - y \div 100 + y \div 400
<1>1. \A y \in Int : /\ G(y) \in Int
                     /\ G(y) = G(y - 1) + 365 + (IF Leap(y, 2) THEN 1 ELSE 0)
  <2> TAKE y \in Int
  <2>1. /\ y \div 4 \in Int /\ y \div 100 \in Int /\ y \div 400 \in Int
        /\ (y - 1) \div 4 \in Int /\ (y - 1) \div 100 \in Int
        /\ (y - 1) \div 400 \in Int
    OBVIOUS
  <2> QED
    BY <2>1, LeapStep DEF Next4, Next100, Next400
<1>2. G(iy - 1) = 365 * (iy - 1) + Leaps(iy) + 477
  BY DEF Leaps
<1>3. /\ im <= 2 => MarchDays(im) = DaysBefore[im] + 336
      /\ im > 2 => MarchDays(im) = DaysBefore[im] - 29
  BY DEF MarchDays, DaysBefore
<1>4. ModifiedJulianDay(iy, im, id)
        = G(MarchYear(iy, im)) + MarchDays(im) + id - 678912
  BY MjdOfDate
<1>5. DayOf(iy, im, id) = 40586 + 365 * (iy - 1970) + Leaps(iy)
                            + DaysBefore[im] + LeapDay(iy, im) + id
  BY DayOfDate
<1>6. DaysBefore[im] \in Int /\ Leaps(iy) \in Int
  BY DEF DaysBefore, Leaps
<1> HIDE DEF G
<1> DEFINE g == G(iy)
           g1 == G(iy - 1)
           M == ModifiedJulianDay(iy, im, id)
<1>7. /\ g \in Int /\ g1 \in Int
      /\ g = g1 + 365 + (IF Leap(iy, 2) THEN 1 ELSE 0)
      /\ g1 = 365 * (iy - 1) + Leaps(iy) + 477
  BY <1>1, <1>2
<1>8. CASE im <= 2
  <2>1. MarchYear(iy, im) = iy - 1 /\ LeapDay(iy, im) = 0
    BY <1>8 DEF MarchYear, LeapDay
  <2>2. M = g1 + MarchDays(im) + id - 678912
    BY <1>4, <2>1
  <2> HIDE DEF g, g1, M
  <2>3. M = DayOf(iy, im, id)
    BY <1>3, <1>5, <1>6, <1>7, <1>8, <2>1, <2>2, SMT
  <2> QED
    BY <2>3 DEF M
<1>9. CASE im > 2
  <2>1. /\ MarchYear(iy, im) = iy
        /\ LeapDay(iy, im) = IF Leap(iy, 2) THEN 1 ELSE 0
    BY <1>9 DEF MarchYear, LeapDay
  <2>2. M = g + MarchDays(im) + id - 678912
    BY <1>4, <2>1
  <2> HIDE DEF g, g1, M
  <2>3. M = DayOf(iy, im, id)
    BY <1>3, <1>5, <1>6, <1>7, <1>9, <2>1, <2>2, SMT
  <2> QED
    BY <2>3 DEF M
<1> QED
  BY <1>8, <1>9

(***************************************************************************)
(* The calendar: from a day to its date                                    *)
(***************************************************************************)

(* The century of a day: t counts centuries, C years from March on. *)
LEMMA Century ==
    ASSUME NEW j \in Int, NEW q \in Int, NEW r \in 0 .. 3, NEW C \in Int,
           4 * j - 7468865 >= 146097 * (4 * q + r),
           4 * j - 7468865 <= 146097 * (4 * q + r) + 146096,
           C = (100 * (j + 1525 + 3 * q + r) - 12210) \div 36525
    PROVE  /\ 100 * (4 * q + r + 4) <= C - 4716
           /\ C - 4716 < 100 * (4 * q + r + 5)
BY SMT

(* The day n of the year C: a year has 365 days, every fourth one has 366. *)
LEMMA DayOfYear ==
    ASSUME NEW B \in Int, NEW C \in Int, C = (100 * B - 12210) \div 36525,
           NEW n \in Int, n = B - (1461 * C) \div 4
    PROVE  /\ (1461 * C) \div 4 = 365 * C + C \div 4
           /\ n >= 123 /\ n <= 488
           /\ n = 488 => C = 4 * (C \div 4) + 3
<1>1. (1461 * C) \div 4 = 365 * C + C \div 4
  BY SMT
<1>2. 36525 * C <= 100 * B - 12210 /\ 100 * B - 12210 <= 36525 * C + 36524
  BY SMT
<1>3. /\ C \div 4 \in Int
      /\ 4 * (C \div 4) <= C /\ C <= 4 * (C \div 4) + 3
  BY SMT
<1> QED
  BY <1>1, <1>2, <1>3, SMT

(* The month E that follows day n, and the days before it *)
MonthAfter(n) == (n * 10000) \div 306001
DaysTo(E) == (306001 * E) \div 10000

MonthFound(n) ==
    LET E == MonthAfter(n)
    IN  /\ E \in 4 .. 15 /\ DaysTo(E) \in Int
        /\ 1 <= n - DaysTo(E)
        /\ n - DaysTo(E) <= DaysTo(E + 1) - DaysTo(E)

LEMMA MonthOfDay ==
    ASSUME NEW n \in 123 .. 488
    PROVE  MonthFound(n)
<1> DEFINE E == MonthAfter(n)
<1>1. E \in Int /\ 306001 * E <= n * 10000 /\ n * 10000 <= 306001 * E + 306000
  BY SMT DEF MonthAfter
<1>2. /\ DaysTo(4) = 122 /\ DaysTo(5) = 153 /\ DaysTo(6) = 183
      /\ DaysTo(7) = 214 /\ DaysTo(8) = 244 /\ DaysTo(9) = 275
      /\ DaysTo(10) = 306 /\ DaysTo(11) = 336 /\ DaysTo(12) = 367
      /\ DaysTo(13) = 397 /\ DaysTo(14) = 428 /\ DaysTo(15) = 459
      /\ DaysTo(16) = 489
  BY SMT DEF DaysTo
<1> HIDE DEF E
<1>3. E \in 4 .. 15
  BY <1>1, SMT
<1>4. \/ E = 4 \/ E = 5 \/ E = 6 \/ E = 7 \/ E = 8 \/ E = 9 \/ E = 10
      \/ E = 11 \/ E = 12 \/ E = 13 \/ E = 14 \/ E = 15
  BY <1>3, SMT
<1>5. /\ 1 <= n - DaysTo(E)
      /\ n - DaysTo(E) <= DaysTo(E + 1) - DaysTo(E)
      /\ DaysTo(E) \in Int
  BY <1>1, <1>2, <1>4, SMT
<1> QED
  BY <1>3, <1>5 DEF E, MonthFound

(* From 1972 on, a Julian day number has a date of the calendar, of which
   ModifiedJulianDay finds the day again. *)
LEMMA DateFound ==
    ASSUME NEW day \in Int, day >= 41317
    PROVE  \E iy \in Int, im \in 1 .. 12, id \in Int :
             /\ DateOf(day + 2400001) = <<iy, im, id>>
             /\ iy >= 1972 /\ id \in 1 .. MonthDays(iy, im)
             /\ ModifiedJulianDay(iy, im, id) = day
<1> DEFINE jdn == day + 2400001
           t   == (4 * jdn - 7468865) \div 146097
           q   == t \div 4
           r   == t % 4
           B   == jdn + 1 + t - t \div 4 + 1524
           C   == (100 * B - 12210) \div 36525
           D   == (1461 * C) \div 4
           n   == B - D
           E   == MonthAfter(n)
           im  == IF E < 14 THEN E - 1 ELSE E - 13
           iy  == IF im > 2 THEN C - 4716 ELSE C - 4715
           id  == n - DaysTo(E)
           Y   == C - 4716
<1>1. DateOf(day + 2400001) = <<iy, im, id>>
  BY SMT DEF DateOf, MonthAfter, DaysTo
<1>2. /\ t \in Int /\ q \in Int /\ r \in 0 .. 3 /\ t = 4 * q + r
      /\ 146097 * t <= 4 * jdn - 7468865
      /\ 4 * jdn - 7468865 <= 146097 * t + 146096
      /\ jdn \in Int /\ jdn >= 2441318 /\ jdn = day + 2400001
  <2>1. jdn \in Int /\ jdn >= 2441318 /\ jdn = day + 2400001
    BY SMT
  <2> HIDE DEF jdn
  <2>2. /\ t \in Int /\ 146097 * t <= 4 * jdn - 7468865
        /\ 4 * jdn - 7468865 <= 146097 * t + 146096
    BY <2>1, SMT
  <2> HIDE DEF t
  <2>3. q \in Int /\ r \in 0 .. 3 /\ t = 4 * q + r
    BY <2>2, SMT
  <2> QED
    BY <2>1, <2>2, <2>3
<1> HIDE DEF jdn, t
<1>3. B = jdn + 1525 + 3 * q + r /\ B \in Int
  BY <1>2, SMT
<1> HIDE DEF q, r, B
<1>4. C \in Int /\ Y \in Int
  BY <1>3, SMT
<1>5. 100 * (t + 4) <= Y /\ Y < 100 * (t + 5)
  <2>1. C = (100 * (jdn + 1525 + 3 * q + r) - 12210) \div 36525
    BY <1>3
  <2> HIDE DEF C
  <2> QED
    BY <1>2, <1>4, <2>1, Century, SMT
<1> HIDE DEF C
<1>6. /\ D = 365 * C + C \div 4 /\ C \div 4 \in Int
      /\ n \in 123 .. 488
      /\ n = 488 => C = 4 * (C \div 4) + 3
      /\ B = D + n /\ D \in Int
  <2>1. D \in Int /\ n \in Int /\ C \div 4 \in Int /\ B = D + n
    BY <1>3, <1>4, SMT
  <2>2. C = (100 * B - 12210) \div 36525
    BY DEF C
  <2>3. n = B - (1461 * C) \div 4 /\ D = (1461 * C) \div 4
    OBVIOUS
  <2> HIDE DEF n, D
  <2> QED
    BY <1>3, <1>4, <2>1, <2>2, <2>3, DayOfYear, SMT
<1> HIDE DEF D, n
<1>7. /\ E \in 4 .. 15
      /\ 1 <= id /\ id <= DaysTo(E + 1) - DaysTo(E)
      /\ DaysTo(E) \in Int /\ id = n - DaysTo(E) /\ id \in Int
  <2>1. n \in 123 .. 488 /\ n \in Int
    BY <1>6
  <2>2. /\ E \in 4 .. 15 /\ DaysTo(E) \in Int
        /\ 1 <= id /\ id <= DaysTo(E + 1) - DaysTo(E)
    <3>1. MonthFound(n)
      BY <2>1, MonthOfDay
    <3> QED
      BY <3>1 DEF MonthFound
  <2>3. id \in Int
    BY <2>1, <2>2
  <2> QED
    BY <2>2, <2>3
<1>8. Y \div 100 = t + 4 /\ Y \div 400 = q + 1 /\ Y \div 4 = C \div 4 - 1179
  <2>1. Y \div 4 = C \div 4 - 1179
    BY <1>4, SMT
  <2> HIDE DEF Y
  <2> QED
    BY <1>2, <1>4, <1>5, <2>1, SMT
<1> HIDE DEF E, id
<1>9. /\ im \in 1 .. 12
      /\ im > 2 <=> E < 14
      /\ MarchDays(im) = DaysTo(E) - 92
      /\ E # 15 => DaysTo(E + 1) - DaysTo(E) = mdays[im]
      /\ E = 15 => im = 2 /\ DaysTo(E) = 459
  <2>1. \/ E = 4 \/ E = 5 \/ E = 6 \/ E = 7 \/ E = 8 \/ E = 9 \/ E = 10
        \/ E = 11 \/ E = 12 \/ E = 13 \/ E = 14 \/ E = 15
    BY <1>7, SMT
  <2>2. /\ DaysTo(4) = 122 /\ DaysTo(5) = 153 /\ DaysTo(6) = 183
        /\ DaysTo(7) = 214 /\ DaysTo(8) = 244 /\ DaysTo(9) = 275
        /\ DaysTo(10) = 306 /\ DaysTo(11) = 336 /\ DaysTo(12) = 367
        /\ DaysTo(13) = 397 /\ DaysTo(14) = 428 /\ DaysTo(15) = 459
    BY SMT DEF DaysTo
  <2>3. /\ MarchDays(1) = 336 /\ MarchDays(2) = 367 /\ MarchDays(3) = 30
        /\ MarchDays(4) = 61 /\ MarchDays(5) = 91 /\ MarchDays(6) = 122
        /\ MarchDays(7) = 152 /\ MarchDays(8) = 183 /\ MarchDays(9) = 214
        /\ MarchDays(10) = 244 /\ MarchDays(11) = 275 /\ MarchDays(12) = 305
    BY SMT DEF MarchDays
  <2> QED
    BY <2>1, <2>2, <2>3, SMT DEF mdays
<1> HIDE DEF im
<1>10. iy \in Int /\ iy = (IF im > 2 THEN Y ELSE Y + 1) /\ MarchYear(iy, im) = Y
  <2>1. CASE im > 2
    BY <1>4, <1>9, <2>1, SMT DEF MarchYear
  <2>2. CASE im <= 2
    BY <1>4, <1>9, <2>2, SMT DEF MarchYear
  <2> QED
    BY <1>9, <2>1, <2>2
<1> HIDE DEF iy
<1>11. ModifiedJulianDay(iy, im, id) = day
  <2>1. ModifiedJulianDay(iy, im, id) =
          365 * Y + Y \div 4 - Y \div 100 + Y \div 400
            + MarchDays(im) + id - 678912
    <3>1. iy \in Int /\ im \in 1 .. 12 /\ id \in Int
      BY <1>7, <1>9, <1>10
    <3>2. ModifiedJulianDay(iy, im, id) =
            365 * MarchYear(iy, im) + MarchYear(iy, im) \div 4
              - MarchYear(iy, im) \div 100 + MarchYear(iy, im) \div 400
              + MarchDays(im) + id - 678912
      BY <3>1, MjdOfDate, SMT
    <3>3. MarchYear(iy, im) = Y
      BY <1>10
    <3> HIDE DEF Y
    <3> QED
      BY <3>2, <3>3, SMT
  <2>2. Y = C - 4716
    OBVIOUS
  <2> HIDE DEF Y
  <2> QED
    BY <1>2, <1>3, <1>4, <1>6, <1>7, <1>8, <1>9, <2>1, <2>2, SMT
<1>12. iy >= 1972
  <2>1. t >= 15 /\ 3 * q + r >= 12
    BY <1>2, SMT
  <2>2. C <= 6686 => D <= 2442061
    <3>1. 4 * (C \div 4) <= C
      BY <1>4, SMT
    <3> QED
      BY <1>4, <1>6, <3>1, SMT
  <2>3. C = 6687 => D = 2442426
    BY <1>6, SMT
  <2>4. C >= 6687
    BY <1>2, <1>3, <1>4, <1>6, <2>1, <2>2, SMT
  <2>5. C = 6687 => n >= 429
    BY <1>2, <1>3, <1>6, <2>1, <2>3, SMT
  <2>6. n >= 429 => E >= 14
    BY <1>6, SMT DEF E, MonthAfter
  <2>7. CASE C = 6687
    <3>1. E >= 14
      BY <2>5, <2>6, <2>7
    <3>2. ~(im > 2) /\ Y = 1971
      BY <1>7, <1>9, <2>7, <3>1, SMT
    <3> HIDE DEF Y
    <3> QED
      BY <1>10, <3>2, SMT
  <2>8. CASE C > 6687
    BY <1>4, <1>10, <2>8, SMT
  <2> QED
    BY <1>4, <2>4, <2>7, <2>8, SMT
<1>13. id <= MonthDays(iy, im)
  <2>1. CASE E # 15
    <3>1. id <= mdays[im] /\ mdays[im] \in Int
      <4>1. mdays[im] \in Int
        BY <1>9, SMT DEF mdays
      <4>2. DaysTo(E + 1) - DaysTo(E) = mdays[im]
        BY <1>9, <2>1
      <4> QED
        BY <1>7, <4>1, <4>2, SMT
    <3> QED
      BY <1>7, <3>1, SMT DEF MonthDays
  <2>2. CASE E = 15
    <3>1. /\ im = 2 /\ id = n - 459 /\ mdays[im] = 28
          /\ iy = Y + 1 /\ iy = C - 4715
      BY <1>4, <1>7, <1>9, <1>10, <2>2, SMT DEF mdays
    <3>2. CASE n # 488
      BY <1>6, <3>1, <3>2, SMT DEF MonthDays
    <3>3. CASE n = 488
      <4>1. iy % 4 = 0
        <5>1. iy = 4 * (C \div 4 - 1178)
          BY <1>4, <1>6, <3>1, <3>3, SMT
        <5> QED
          BY <1>6, <5>1, SMT
      <4>2. ASSUME iy % 100 = 0 PROVE iy % 400 = 0
        <5>1. iy = 100 * (iy \div 100) /\ iy \div 100 \in Int
          BY <1>10, <4>2, SMT
        <5>2. iy = 100 * (t + 5)
          BY <1>2, <1>4, <1>5, <3>1, <5>1, SMT
        <5>3. C = 100 * t + 5215
          BY <1>2, <1>4, <3>1, <5>2, SMT
        <5>4. C \div 4 = 25 * t + 1303
          BY <1>2, <5>3, SMT
        <5>5. r = 3
          BY <1>2, <1>3, <1>6, <3>3, <5>3, <5>4, SMT
        <5>6. iy = 400 * (q + 2)
          BY <1>2, <5>2, <5>5, SMT
        <5> QED
          BY <1>2, <5>6, SMT
      <4>3. Leap(iy, 2)
        BY <4>1, <4>2 DEF Leap
      <4> QED
        BY <3>1, <3>3, <4>3, SMT DEF MonthDays
    <3> QED
      BY <3>2, <3>3
  <2> QED
    BY <2>1, <2>2
<1>14. id \in 1 .. MonthDays(iy, im)
  <2>1. mdays[im] \in Int
    BY <1>9, SMT DEF mdays
  <2>2. MonthDays(iy, im) \in Int
    BY <2>1, SMT DEF MonthDays
  <2> QED
    BY <1>7, <1>13, <2>2, SMT
<1>15. iy \in Int /\ im \in 1 .. 12 /\ id \in Int
  BY <1>7, <1>9, <1>10
<1> HIDE DEF Y
<1> QED
  BY <1>1, <1>11, <1>12, <1>14, <1>15

(* A date of the calendar from 1972 on, with the day that ModifiedJulianDay
   finds for it *)
IsDateOf(date, day) ==
    \E iy \in Int, im \in 1 .. 12, id \in Int :
      /\ date = <<iy, im, id>>
      /\ iy >= 1972 /\ id \in 1 .. MonthDays(iy, im)
      /\ ModifiedJulianDay(iy, im, id) = day

(* From 1972 on, Mjd2Cal finds a date of the calendar: the one whose whole day
   ModifiedJulianDay finds to be that of mjd, or the next one if the sum at
   :74 was rounded up to it. *)
THEOREM DateOfDay ==
    ASSUME NEW whole \in Int, NEW carry \in {0, 1}, whole >= FirstDay
    PROVE  IsDateOf(Mjd2Cal(whole, carry), whole + carry)
<1>1. whole + carry \in Int /\ whole + carry >= 41317
  BY SMT DEF FirstDay
<1> QED
  BY <1>1, DateFound DEF Mjd2Cal, IsDateOf

(***************************************************************************)
(* The calendar: leap seconds                                              *)
(***************************************************************************)

(* The days of a year that are before a month, and before the year *)
InYear(iy, im) == DaysBefore[im] + LeapDay(iy, im)
NewYear(iy) == 40586 + 365 * (iy - 1970) + Leaps(iy)

MonthRoom(iy, im) ==
    /\ InYear(iy, im) \in Nat /\ MonthDays(iy, im) \in Nat
    /\ MonthDays(iy, im) >= 1
    /\ InYear(iy, im) + MonthDays(iy, im)
         <= 365 + (IF Leap(iy, 2) THEN 1 ELSE 0)
    /\ \A k \in 1 .. 12 :
         im < k => InYear(iy, im) + MonthDays(iy, im) <= InYear(iy, k)

LEMMA MonthsInYear == \A iy \in Int, im \in 1 .. 12 : MonthRoom(iy, im)
BY SMT DEF MonthRoom, InYear, DaysBefore, LeapDay, MonthDays, mdays, Leap

LEMMA YearsInOrder ==
    ASSUME NEW y \in Int, NEW c \in Int, y < c
    PROVE  /\ NewYear(y) \in Int /\ NewYear(c) \in Int
           /\ NewYear(y) + 365 + (IF Leap(y, 2) THEN 1 ELSE 0) <= NewYear(c)
<1>1. NewYear(y) \in Int /\ NewYear(c) \in Int /\ NewYear(y + 1) \in Int
  BY SMT DEF NewYear, Leaps
<1>2. NewYear(y) + 365 + (IF Leap(y, 2) THEN 1 ELSE 0) = NewYear(y + 1)
  <2>1. Leaps(y + 1) - Leaps(y) = Next4(y) - Next100(y) + Next400(y)
    BY DEF Leaps, Next4, Next100, Next400
  <2>2. Leaps(y + 1) \in Int /\ Leaps(y) \in Int
    BY DEF Leaps
  <2> QED
    BY <2>1, <2>2, LeapStep, SMT DEF NewYear
<1>3. NewYear(y + 1) <= NewYear(c)
  <2>1. /\ y \div 4 <= (c - 1) \div 4 /\ y \div 400 <= (c - 1) \div 400
        /\ (c - 1) \div 100 - y \div 100 <= c - (y + 1)
    BY SMT
  <2>2. /\ y \div 4 \in Int /\ y \div 100 \in Int /\ y \div 400 \in Int
        /\ (c - 1) \div 4 \in Int /\ (c - 1) \div 100 \in Int
        /\ (c - 1) \div 400 \in Int /\ (y + 1) - 1 = y
    BY SMT
  <2> QED
    BY <2>1, <2>2, SMT DEF NewYear, Leaps
<1> QED
  BY <1>1, <1>2, <1>3, SMT

(* No day from 1972 on has the number 0. *)
LEMMA DayOfIsLate ==
    ASSUME NEW iy \in Int, iy >= 1972, NEW im \in 1 .. 12, NEW id \in Int,
           id >= 1
    PROVE  DayOf(iy, im, id) \in Int /\ DayOf(iy, im, id) # Unset
<1>1. NewYear(1970) + 365 <= NewYear(iy) /\ NewYear(iy) \in Int
  <2>1. NewYear(1970) + 365 + (IF Leap(1970, 2) THEN 1 ELSE 0) <= NewYear(iy)
    BY YearsInOrder, SMT
  <2>2. NewYear(iy) \in Int /\ NewYear(1970) \in Int
    BY SMT DEF NewYear, Leaps
  <2> QED
    BY <2>1, <2>2, SMT
<1>2. NewYear(1970) = 40586
  BY SMT DEF NewYear, Leaps
<1>3. InYear(iy, im) \in Nat
  <2>1. MonthRoom(iy, im)
    BY MonthsInYear
  <2> QED
    BY <2>1 DEF MonthRoom
<1>4. /\ DaysBefore[im] \in Int /\ LeapDay(iy, im) \in Int
      /\ Leaps(iy) \in Int
  BY SMT DEF DaysBefore, LeapDay, Leaps
<1>5. DayOf(iy, im, id) = NewYear(iy) + InYear(iy, im) + id
  <2>1. DayOf(iy, im, id) = 40586 + 365 * (iy - 1970) + Leaps(iy)
                              + DaysBefore[im] + LeapDay(iy, im) + id
    BY DayOfDate, SMT
  <2> QED
    BY <1>4, <2>1, SMT DEF NewYear, InYear
<1> QED
  BY <1>1, <1>2, <1>3, <1>5, SMT DEF Unset

(* A month has begun on a day if the day's month is not an earlier one. *)
Begun(y, m, d, c, k) ==
    DayOf(c, k, 1) <= DayOf(y, m, d) <=> 12 * y + m >= 12 * c + k

LEMMA MonthBegun ==
    ASSUME NEW y \in Int, y >= 1970, NEW m \in 1 .. 12,
           NEW d \in 1 .. MonthDays(y, m),
           NEW c \in Int, c >= 1970, NEW k \in 1 .. 12
    PROVE  Begun(y, m, d, c, k)
<1> SUFFICES DayOf(c, k, 1) <= DayOf(y, m, d) <=> 12 * y + m >= 12 * c + k
  BY DEF Begun
<1>0. MonthRoom(y, m) /\ MonthRoom(c, k)
  BY MonthsInYear
<1>1. /\ MonthDays(y, m) \in Nat /\ InYear(y, m) \in Nat /\ InYear(c, k) \in Nat
      /\ MonthDays(c, k) \in Nat /\ NewYear(y) \in Int /\ NewYear(c) \in Int
  <2>1. NewYear(y) \in Int /\ NewYear(c) \in Int
    BY SMT DEF NewYear, Leaps
  <2> QED
    BY <1>0, <2>1 DEF MonthRoom
<1>2. d \in Int /\ 1 <= d /\ d <= MonthDays(y, m)
  BY <1>1
<1>3. /\ DayOf(y, m, d) = NewYear(y) + InYear(y, m) + d
      /\ DayOf(c, k, 1) = NewYear(c) + InYear(c, k) + 1
  <2>1. /\ DaysBefore[m] \in Int /\ LeapDay(y, m) \in Int
        /\ DaysBefore[k] \in Int /\ LeapDay(c, k) \in Int
    BY SMT DEF DaysBefore, LeapDay
  <2>2. Leaps(y) \in Int /\ Leaps(c) \in Int
    BY SMT DEF Leaps
  <2>3. DayOf(y, m, d) = 40586 + 365 * (y - 1970) + Leaps(y)
                           + DaysBefore[m] + LeapDay(y, m) + d
    BY <1>2, DayOfDate, SMT
  <2>4. DayOf(c, k, 1) = 40586 + 365 * (c - 1970) + Leaps(c)
                           + DaysBefore[k] + LeapDay(c, k) + 1
    BY DayOfDate, SMT
  <2> QED
    BY <1>2, <2>1, <2>2, <2>3, <2>4, SMT DEF NewYear, InYear
<1>4. CASE y < c
  <2>1. NewYear(y) + 365 + (IF Leap(y, 2) THEN 1 ELSE 0) <= NewYear(c)
    BY <1>4, YearsInOrder
  <2>2. InYear(y, m) + MonthDays(y, m) <= 365 + (IF Leap(y, 2) THEN 1 ELSE 0)
    BY <1>0 DEF MonthRoom
  <2> QED
    BY <1>1, <1>2, <1>3, <1>4, <2>1, <2>2, SMT
<1>5. CASE c < y
  <2>1. NewYear(c) + 365 + (IF Leap(c, 2) THEN 1 ELSE 0) <= NewYear(y)
    BY <1>5, YearsInOrder
  <2>2. InYear(c, k) + MonthDays(c, k) <= 365 + (IF Leap(c, 2) THEN 1 ELSE 0)
    BY <1>0 DEF MonthRoom
  <2>3. MonthDays(c, k) >= 1
    BY <1>0 DEF MonthRoom
  <2> QED
    BY <1>1, <1>2, <1>3, <1>5, <2>1, <2>2, <2>3, SMT
<1>6. CASE c = y /\ m < k
  <2>1. InYear(y, m) + MonthDays(y, m) <= InYear(y, k)
    BY <1>0, <1>6 DEF MonthRoom
  <2> QED
    BY <1>1, <1>2, <1>3, <1>6, <2>1, SMT
<1>7. CASE c = y /\ k <= m
  <2>1. InYear(y, k) <= InYear(y, m)
    <3>1. CASE k = m
      BY <1>1, <1>7, <3>1, SMT
    <3>2. CASE k < m
      <4>1. /\ InYear(y, k) + MonthDays(y, k) <= InYear(y, m)
            /\ MonthDays(y, k) \in Nat /\ InYear(y, k) \in Nat
        BY <1>0, <1>7, <3>2 DEF MonthRoom
      <4> QED
        BY <1>1, <4>1, SMT
    <3> QED
      BY <1>7, <3>1, <3>2, SMT
  <2> QED
    BY <1>1, <1>2, <1>3, <1>7, <2>1, SMT
<1> QED
  BY <1>4, <1>5, <1>6, <1>7, SMT

(* The months of the table, counted from year 0 *)
Months == <<23665, 23671, 23677, 23689, 23701, 23713, 23725, 23737, 23749,
            23761, 23779, 23791, 23803, 23827, 23857, 23881, 23893, 23911,
            23923, 23935, 23953, 23971, 23989, 24073, 24109, 24151, 24187,
            24205>>

LEMMA ChangesAre ==
    /\ DOMAIN changes = 1 .. 28 /\ Len(changes) = 28
    /\ \A i \in 1 .. 28 :
         /\ changes[i][1] \in Int /\ changes[i][1] >= 1972
         /\ changes[i][2] \in 1 .. 12
         /\ 12 * changes[i][1] + changes[i][2] = Months[i]
         /\ Months[i] \in Int
BY SMT DEF changes, Months

LEMMA MonthsInOrder ==
    \A i \in 1 .. 28, j \in 1 .. 28 : i <= j => Months[i] <= Months[j]
BY SMT DEF Months

(* DeltaAT finds the last entry that is not later than the month: the number
   of leap seconds until any day of the month. *)
THEOREM LeapSecondsFound ==
    ASSUME NEW iy \in Int, iy >= 1972, NEW im \in 1 .. 12,
           NEW id \in 1 .. MonthDays(iy, im)
    PROVE  DeltaAT(iy, im) = LeapSeconds(DayOf(iy, im, id))
<1> DEFINE x == 12 * iy + im
           Before(i) == x >= Months[i]
           Last(i) == Before(i) /\ (i = 28 \/ ~Before(i + 1))
           n == CHOOSE i \in 1 .. 28 : Last(i)
<1>1. DeltaAT(iy, im) = 9 + n
  <2> DEFINE B(i) == 12 * iy + im >= 12 * changes[i][1] + changes[i][2]
             L(i) == B(i) /\ (i = Len(changes) \/ ~B(i + 1))
             a == CHOOSE i \in 1 .. 28 : L(i)
  <2>1. \A i \in 1 .. 28 : L(i) <=> Last(i)
    <3> TAKE i \in 1 .. 28
    <3>1. B(i) <=> Before(i)
      BY ChangesAre
    <3>2. i # 28 => (B(i + 1) <=> Before(i + 1))
      <4>1. i # 28 => i + 1 \in 1 .. 28
        OBVIOUS
      <4> QED
        BY <4>1, ChangesAre
    <3> QED
      BY <3>1, <3>2, ChangesAre
  <2>2. DeltaAT(iy, im) = 9 + a
    BY ChangesAre DEF DeltaAT
  <2> HIDE DEF L, Last
  <2>3. a = n
    BY <2>1
  <2> HIDE DEF a, n
  <2> QED
    BY <2>2, <2>3
<1>2. n \in 1 .. 28 /\ Last(n)
  <2>1. ASSUME \A i \in 1 .. 28 : ~Last(i) PROVE FALSE
    <3>1. Before(1)
      BY SMT DEF Months
    <3>2. ASSUME NEW i \in 1 .. 28, Before(i) PROVE i # 28 /\ Before(i + 1)
      BY <2>1, <3>2
    <3> HIDE DEF Before
    <3>3. Before(2) /\ Before(3) /\ Before(4) /\ Before(5) /\ Before(6)
      BY <3>1, <3>2
    <3>4. Before(7) /\ Before(8) /\ Before(9) /\ Before(10) /\ Before(11)
      BY <3>2, <3>3
    <3>5. Before(12) /\ Before(13) /\ Before(14) /\ Before(15) /\ Before(16)
      BY <3>2, <3>4
    <3>6. Before(17) /\ Before(18) /\ Before(19) /\ Before(20) /\ Before(21)
      BY <3>2, <3>5
    <3>7. Before(22) /\ Before(23) /\ Before(24) /\ Before(25) /\ Before(26)
      BY <3>2, <3>6
    <3>8. Before(27) /\ Before(28)
      BY <3>2, <3>7
    <3> QED
      BY <3>2, <3>8
  <2> HIDE DEF Last
  <2> QED
    BY <2>1
<1>3. ASSUME NEW i \in 1 .. 28
      PROVE  Before(i) <=> i <= n
  <2>1. n \in 1 .. 28 /\ x >= Months[n] /\ (n = 28 \/ ~(x >= Months[n + 1]))
    BY <1>2
  <2> HIDE DEF n
  <2>2. x \in Int /\ Months[i] \in Int /\ Months[n] \in Int
    BY <2>1, ChangesAre
  <2>3. CASE i <= n
    <3>1. Months[i] <= Months[n]
      BY <2>1, <2>3, MonthsInOrder
    <3> HIDE DEF x
    <3> QED
      BY <2>1, <2>2, <2>3, <3>1
  <2>4. CASE n < i
    <3>1. n + 1 \in 1 .. 28 /\ n # 28 /\ n + 1 <= i
      BY <2>1, <2>4
    <3>2. Months[n + 1] <= Months[i] /\ Months[n + 1] \in Int
      BY <3>1, MonthsInOrder, ChangesAre
    <3> HIDE DEF x
    <3> QED
      BY <2>1, <2>2, <2>4, <3>1, <3>2
  <2> QED
    BY <2>1, <2>3, <2>4
<1>4. ASSUME NEW i \in 1 .. 28
      PROVE  DayOf(changes[i][1], changes[i][2], 1) <= DayOf(iy, im, id)
               <=> Before(i)
  <2>1. /\ changes[i][1] \in Int /\ changes[i][1] >= 1970
        /\ changes[i][2] \in 1 .. 12
        /\ 12 * changes[i][1] + changes[i][2] = Months[i]
    BY ChangesAre
  <2> DEFINE c == changes[i][1]
             k == changes[i][2]
  <2> HIDE DEF c, k
  <2>2. DayOf(c, k, 1) <= DayOf(iy, im, id) <=> 12 * iy + im >= 12 * c + k
    <3>1. Begun(iy, im, id, c, k)
      BY <2>1, MonthBegun DEF c, k
    <3> QED
      BY <3>1 DEF Begun
  <2> QED
    BY <2>1, <2>2, SMT DEF c, k
<1> DEFINE S == {i \in DOMAIN changes :
                   DayOf(changes[i][1], changes[i][2], 1) <= DayOf(iy, im, id)}
<1>5. S = 1 .. n
  <2>1. DOMAIN changes = 1 .. 28 /\ n \in 1 .. 28
    BY <1>2, ChangesAre
  <2> HIDE DEF n, Before
  <2>2. \A i : i \in S <=> i \in 1 .. 28 /\ i <= n
    BY <1>3, <1>4, <2>1
  <2> DEFINE N == 1 .. n
  <2>3. \A i : i \in N <=> i \in 1 .. 28 /\ i <= n
    BY <2>1
  <2> HIDE DEF S, N
  <2>4. S = N
    BY <2>2, <2>3
  <2> QED
    BY <2>4 DEF N
<1>6. Cardinality(1 .. n) = n
  <2>1. n \in 1 .. 28
    BY <1>2
  <2> HIDE DEF n
  <2>2. Cardinality(1 .. n) = IF 1 > n THEN 0 ELSE n - 1 + 1
    BY <2>1, FS_Interval
  <2> QED
    BY <2>1, <2>2
<1>7. LeapSeconds(DayOf(iy, im, id)) = 9 + Cardinality(S)
  BY DEF LeapSeconds
<1> HIDE DEF n, S
<1> QED
  BY <1>1, <1>5, <1>6, <1>7

(* The calendar is right for the days and the dates that are set. *)
CalendarRight ==
    /\ \A day \in Days, carry \in {0, 1} :
         LET date == Mjd2Cal(day, carry)
         IN  /\ ModifiedJulianDay(date[1], date[2], date[3]) = day + carry
             /\ DeltaAT(date[1], date[2]) = LeapSeconds(day + carry)
    /\ \A date \in Dates, fd \in Fractions :
         SetUTCCode(date[1], date[2], date[3], fd) = 0 =>
           LET day == DayOf(date[1], date[2], date[3])
           IN  /\ ModifiedJulianDay(date[1], date[2], date[3]) = day
               /\ day \in Int /\ day # Unset
               /\ DeltaAT(date[1], date[2]) = LeapSeconds(day)

LEMMA CalendarIsRight == CalendarRight
<1>1. ASSUME NEW day \in Days, NEW carry \in {0, 1}
      PROVE  LET date == Mjd2Cal(day, carry)
             IN  /\ ModifiedJulianDay(date[1], date[2], date[3]) = day + carry
                 /\ DeltaAT(date[1], date[2]) = LeapSeconds(day + carry)
  <2>1. day \in Int /\ day >= FirstDay
    BY From1972 DEF CalendarOK
  <2>2. PICK iy \in Int, im \in 1 .. 12, id \in Int :
          /\ Mjd2Cal(day, carry) = <<iy, im, id>>
          /\ iy >= 1972 /\ id \in 1 .. MonthDays(iy, im)
          /\ ModifiedJulianDay(iy, im, id) = day + carry
    <3>1. IsDateOf(Mjd2Cal(day, carry), day + carry)
      BY <2>1, DateOfDay, Zenon
    <3> QED
      BY <3>1 DEF IsDateOf
  <2>3. DayOf(iy, im, id) = day + carry
    BY <2>2, MjdIsDayOf
  <2>4. DeltaAT(iy, im) = LeapSeconds(day + carry)
    BY <2>2, <2>3, LeapSecondsFound
  <2> DEFINE date == Mjd2Cal(day, carry)
  <2>5. date[1] = iy /\ date[2] = im /\ date[3] = id
    BY <2>2
  <2> QED
    BY <2>2, <2>4, <2>5
<1>2. ASSUME NEW date \in Dates, NEW fd \in Fractions,
             SetUTCCode(date[1], date[2], date[3], fd) = 0
      PROVE  LET day == DayOf(date[1], date[2], date[3])
             IN  /\ ModifiedJulianDay(date[1], date[2], date[3]) = day
                 /\ day \in Int /\ day # Unset
                 /\ DeltaAT(date[1], date[2]) = LeapSeconds(day)
  <2> DEFINE iy == date[1]
             im == date[2]
             id == date[3]
  <2>1. iy \in Int /\ im \in Int /\ id \in Int /\ iy >= 1972
    BY <1>2, From1972 DEF CalendarOK
  <2>2. SetUTCCode(iy, im, id, fd) = 0
    BY <1>2
  <2> HIDE DEF iy, im, id
  <2>3. im \in 1 .. 12
    BY <2>1, <2>2, SMT DEF SetUTCCode
  <2>4. mdays[im] \in Int
    BY <2>3, SMT DEF mdays
  <2>5. id \in 1 .. MonthDays(iy, im)
    BY <2>1, <2>2, <2>3, <2>4, SMT DEF SetUTCCode, MonthDays
  <2>6. ModifiedJulianDay(iy, im, id) = DayOf(iy, im, id)
    BY <2>1, <2>3, MjdIsDayOf
  <2>7. DeltaAT(iy, im) = LeapSeconds(DayOf(iy, im, id))
    BY <2>1, <2>3, <2>5, LeapSecondsFound
  <2>8. DayOf(iy, im, id) \in Int /\ DayOf(iy, im, id) # Unset
    <3>0. id >= 1
      BY <2>1, <2>2, <2>3, <2>4, SMT DEF SetUTCCode
    <3>1. DayOf(iy, im, id) \in Int /\ DayOf(iy, im, id) # Unset
      BY <2>1, <2>3, <3>0, DayOfIsLate
    <3> QED
      BY <3>1
  <2> QED
    BY <2>6, <2>7, <2>8 DEF iy, im, id
<1> QED
  BY <1>1, <1>2 DEF CalendarRight

(***************************************************************************)
(* The invariant                                                           *)
(***************************************************************************)

(* What is kept is of the day and the leap seconds that are stored; these are
   near the day that was asked for, once a time is set. *)
PlaceInv ==
    /\ site \in Sites
    /\ valid \subseteq Quantities
    /\ asked # Unset => mjd \in Near /\ \E of \in Near : dat = LeapSeconds(of)
    /\ \A k \in valid : OfNow(values[k]) /\ <<"mjd", mjd>> \in values[k]

LEMMA PlaceInit == Init => PlaceInv
<1> SUFFICES ASSUME Init PROVE PlaceInv
  OBVIOUS
<1>1. valid = {}
  BY DEF Init, valid
<1>2. site \in Sites /\ asked = Unset
  BY DEF Init
<1> QED
  BY <1>1, <1>2 DEF PlaceInv

(* A time that is set forgets every quantity. *)
LEMMA TimeSetKeepsPlace ==
    ASSUME PlaceInv, NEW date, NEW carry, TimeSet(date, carry),
           ModifiedJulianDay(date[1], date[2], date[3]) + carry \in Near',
           \E of \in Near' : DeltaAT(date[1], date[2]) = LeapSeconds(of)
    PROVE  PlaceInv'
<1>1. valid' = {}
  BY DEF TimeSet, valid
<1>2. site' \in Sites /\ mjd' \in Near' /\ dat' = DeltaAT(date[1], date[2])
  BY DEF TimeSet, PlaceInv
<1>3. (\E of \in Near : dat = LeapSeconds(of))'
  BY <1>2 DEF LeapSeconds
<1> QED
  BY <1>1, <1>2, <1>3 DEF PlaceInv

(* The day that was asked for is near, and the next one if it was late. *)
LEMMA NearCarries ==
    ASSUME asked' \in Int, NEW carry \in {0, 1}, carry = 1 => late'
    PROVE  asked' + carry \in Near' /\ asked' + 0 \in Near'
<1>1. asked' \in Near' /\ asked' + 0 = asked'
  <2>1. asked' \in Near'
    BY Zenon DEF Near
  <2>2. \A n \in Int : n + 0 = n
    BY SMT
  <2> QED
    BY <2>1, <2>2, Zenon
<1>2. CASE carry = 0
  BY <1>1, <1>2
<1>3. CASE carry = 1
  <2>1. late'
    BY <1>3
  <2>2. asked' + 1 \in Near'
    BY <2>1, Zenon DEF Near
  <2> QED
    BY <1>1, <1>3, <2>2
<1> QED
  BY <1>2, <1>3

LEMMA SetMJDKeepsPlace ==
    ASSUME PlaceInv, NEW day \in Days, NEW fd \in Fractions, SetMJD(day, fd)
    PROVE  PlaceInv' \/ UNCHANGED vars
<1> PICK carry \in Carries(fd) :
      LET date == Mjd2Cal(day, carry)
      IN  IF SetUTCCode(date[1], date[2], date[3], fd) = 0
            THEN TimeSet(date, 0) /\ asked' = day /\ late' = (fd = "late")
            ELSE UNCHANGED vars
  BY DEF SetMJD
<1> DEFINE date == Mjd2Cal(day, carry)
           found == ModifiedJulianDay(date[1], date[2], date[3])
<1> SUFFICES ASSUME TimeSet(date, 0), asked' = day, late' = (fd = "late")
             PROVE  PlaceInv'
  BY Zenon
<1>1. carry \in {0, 1} /\ (carry = 1 => fd = "late") /\ day \in Int
  BY From1972 DEF Carries, CalendarOK
<1>2. found = day + carry /\ DeltaAT(date[1], date[2]) = LeapSeconds(day + carry)
  BY <1>1, CalendarIsRight DEF CalendarRight
<1>3. day + carry \in Near'
  <2>1. asked' = day /\ (carry = 1 => late')
    BY <1>1, Zenon
  <2> QED
    BY <1>1, <2>1, NearCarries
<1>4. found + 0 \in Near'
  BY <1>1, <1>2, <1>3
<1> HIDE DEF date, found
<1> QED
  BY <1>2, <1>3, <1>4, TimeSetKeepsPlace DEF found

LEMMA SetUTCKeepsPlace ==
    ASSUME PlaceInv, NEW date \in Dates, NEW fd \in Fractions, SetUTC(date, fd)
    PROVE  PlaceInv'
<1> PICK carry \in Carries(fd) : TimeSet(date, carry)
  BY DEF SetUTC
<1> DEFINE day == DayOf(date[1], date[2], date[3])
           found == ModifiedJulianDay(date[1], date[2], date[3])
<1>1. asked' = day /\ late' = (fd = "late")
  BY DEF SetUTC
<1>2. /\ found = day /\ day \in Int
      /\ DeltaAT(date[1], date[2]) = LeapSeconds(day)
  BY CalendarIsRight DEF CalendarRight, SetUTC
<1> HIDE DEF day, found
<1>3. found + carry \in Near' /\ day \in Near'
  <2>1. carry \in {0, 1} /\ (carry = 1 => fd = "late")
    BY DEF Carries
  <2>2. asked' = day /\ (carry = 1 => late')
    BY <1>1, <2>1, Zenon
  <2>3. day + carry \in Near' /\ day + 0 \in Near'
    BY <1>2, <2>1, <2>2, NearCarries
  <2> QED
    BY <1>2, <2>3
<1> QED
  BY <1>2, <1>3, TimeSetKeepsPlace DEF found

(* A site that is set leaves what is kept, of the sites until now. *)
LEMMA SetSiteKeepsPlace ==
    ASSUME PlaceInv, NEW s \in Sites, SetSite(s)
    PROVE  PlaceInv'
<1>1. /\ valid' = valid /\ values' = values /\ mjd' = mjd /\ dat' = dat
      /\ asked' = asked /\ late' = late /\ moved' = TRUE /\ site' = s
  BY DEF SetSite, valid
<1>2. Near' = Near /\ \A of : LeapSeconds(of)' = LeapSeconds(of)
  BY <1>1 DEF Near, LeapSeconds
<1>3. \A k \in valid : OfNow(values[k])'
  BY <1>1 DEF OfNow, PlaceInv
<1> QED
  BY <1>1, <1>2, <1>3 DEF PlaceInv

(* What is computed is of the time and the place that are set. *)
LEMMA GetKeepsPlace ==
    ASSUME PlaceInv, NEW W \in Wanted, Get(W)
    PROVE  PlaceInv'
<1> DEFINE new == UNION {Computed[k] : k \in W}
           all == valid \cup {j \in new : Kept(j)}
<1>1. new \subseteq Quantities
  BY ComputedNames, NamesAre, AsksForQuantities DEF PlaceInv, WantedOK
<1>2. values' = [k \in all |-> ValueOf[k]]
  BY DEF Get
<1>3. all \subseteq Quantities
  BY <1>1 DEF PlaceInv
<1> HIDE DEF new, all
<1>4. valid' = all /\ \A k \in all : values'[k] = ValueOf[k]
  BY <1>2 DEF valid
<1>5. /\ mjd' = mjd /\ dat' = dat /\ asked' = asked /\ moved' = moved
      /\ site' = site /\ late' = late
  BY DEF Get
<1>6. \A k \in all : OfNow(ValueOf[k]) /\ <<"mjd", mjd>> \in ValueOf[k]
  BY <1>3, ValuesOfNow DEF PlaceInv
<1>7. \A k \in all : OfNow(values[k])'
  BY <1>4, <1>5, <1>6 DEF OfNow
<1>8. \A k \in all : <<"mjd", mjd'>> \in values'[k]
  BY <1>4, <1>5, <1>6
<1>9. Near' = Near /\ \A of : LeapSeconds(of)' = LeapSeconds(of)
  BY <1>5 DEF Near, LeapSeconds
<1> QED
  BY <1>3, <1>4, <1>5, <1>7, <1>8, <1>9 DEF PlaceInv

LEMMA PlaceStep == PlaceInv /\ [Next]_vars => PlaceInv'
<1> SUFFICES ASSUME PlaceInv, [Next]_vars PROVE PlaceInv'
  OBVIOUS
<1>1. CASE UNCHANGED vars
  <2>1. /\ site' = site /\ mjd' = mjd /\ dat' = dat /\ values' = values
        /\ asked' = asked /\ late' = late /\ moved' = moved /\ valid' = valid
    BY <1>1 DEF vars, valid
  <2>2. Near' = Near /\ \A of : LeapSeconds(of)' = LeapSeconds(of)
    BY <2>1 DEF Near, LeapSeconds
  <2>3. \A k \in valid : OfNow(values[k])'
    BY <2>1 DEF OfNow, PlaceInv
  <2> QED
    BY <2>1, <2>2, <2>3 DEF PlaceInv
<1>2. ASSUME NEW day \in Days, NEW fd \in Fractions, SetMJD(day, fd)
      PROVE  PlaceInv'
  BY <1>1, <1>2, SetMJDKeepsPlace
<1>3. ASSUME NEW date \in Dates, NEW fd \in Fractions, SetUTC(date, fd)
      PROVE  PlaceInv'
  BY <1>3, SetUTCKeepsPlace
<1>4. ASSUME NEW date \in Dates, NEW fd \in Fractions, SetUTCRejects(date, fd)
      PROVE  PlaceInv'
  BY <1>1, <1>4 DEF SetUTCRejects
<1>5. ASSUME NEW s \in Sites, SetSite(s) PROVE PlaceInv'
  BY <1>5, SetSiteKeepsPlace
<1>6. ASSUME NEW W \in Wanted, Get(W) PROVE PlaceInv'
  BY <1>6, GetKeepsPlace
<1> QED
  BY <1>1, <1>2, <1>3, <1>4, <1>5, <1>6 DEF Next

LEMMA PlaceImplies == PlaceInv => OfTheTimeAndPlace
<1> SUFFICES ASSUME PlaceInv, asked # Unset PROVE OfTheTimeAndPlace
  BY DEF OfTheTimeAndPlace
<1>1. PICK of \in Near : dat = LeapSeconds(of)
  BY DEF PlaceInv
<1>2. mjd \in Near
  BY DEF PlaceInv
<1>3. \A k \in valid :
        /\ values[k] \subseteq {<<"mjd", mjd>>, <<"dat", LeapSeconds(of)>>}
                                 \cup {<<"site", s>> : s \in Sites}
        /\ <<"mjd", mjd>> \in values[k]
        /\ ~moved => \A s \in Sites \ {site} : <<"site", s>> \notin values[k]
  BY <1>1 DEF PlaceInv, OfNow
<1> QED
  BY <1>2, <1>3 DEF OfTheTimeAndPlace

(* Whatever is set and asked for, and in whatever order, once a time is set
   all quantities that are kept are of the day the caller named, or all of the
   next if the time was just before midnight, and of the site, unless the site
   was set after the time: SetUTC forgets all quantities, Mjd2Cal and
   ModifiedJulianDay agree on every day from 1972 on, and what a caller asks
   for is computed from what is set. *)
THEOREM PlaceCorrect == Spec => []OfTheTimeAndPlace
<1>1. Init => PlaceInv
  BY PlaceInit
<1>2. PlaceInv /\ [Next]_vars => PlaceInv'
  BY PlaceStep
<1>3. PlaceInv => OfTheTimeAndPlace
  BY PlaceImplies
<1> QED
  BY <1>1, <1>2, <1>3, PTL DEF Spec

=============================================================================
