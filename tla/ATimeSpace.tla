----------------------------- MODULE ATimeSpace -----------------------------
(***************************************************************************)
(* ATimeSpace: astronomical quantities of one time and one site.  Setting  *)
(* the time goes through the calendar and forgets every quantity; a        *)
(* quantity that is asked for is computed once, from others, and kept.     *)
(*                                                                         *)
(* The numbers are abstracted to what they were computed from: a quantity  *)
(* is the set of the times and sites that went into it.  A time is a whole *)
(* day and whether it is early in it, or late: so short before midnight,   *)
(* less than 3E-10 days, that a sum may round it to the next day.          *)
(***************************************************************************)
EXTENDS Integers, Sequences, FiniteSets

CONSTANTS
    Sites,      \* places that SetSite is called with
    Days,       \* MJD of the days that are set
    Dates,      \* <<iy, im, id>> that are set, some of them not in a calendar
    Wanted      \* sets of quantities that callers ask for together

-----------------------------------------------------------------------------
(* The calendar *)

mdays == <<31, 28, 31, 30, 31, 30, 31, 31, 30, 31, 30, 31>>

(* The checks of SetUTC. *)
Leap(iy, im) == im = 2 /\ iy % 4 = 0 /\ (iy % 100 # 0 \/ iy % 400 = 0)

Fractions == {"early", "late", "over"}     \* "over": fd < 0 or fd >= 1

SetUTCCode(iy, im, id, fd) ==
    CASE iy < -4799 -> -1
      [] iy >= -4799 /\ im \notin 1 .. 12 -> -2
      [] OTHER ->
           IF id < 1 \/ id > mdays[im] + (IF Leap(iy, im) THEN 1 ELSE 0)
             THEN -3
           ELSE IF fd = "over" THEN -4 ELSE 0

(* The days by which the sum of a day and a fraction may come out too late *)
Carries(fd) == IF fd = "late" THEN {0, 1} ELSE {0}

(* The days and the dates are from 1972 on; before, the table of DeltaAT has
   rates, which are left out. *)
FirstDay == 41317   \* 1 January 1972
CalendarOK ==
    /\ \A day \in Days : day \in Int /\ day >= FirstDay
    /\ \A date \in Dates :
         /\ date \in Int \X Int \X Int
         /\ \A fd \in Fractions : SetUTCCode(date[1], date[2], date[3], fd) = 0
              => date[1] >= 1972
ASSUME From1972 == CalendarOK

(* ModifiedJulianDay: January and February belong to the year before. *)
ModifiedJulianDay(iy, im, id) ==
    LET my     == IF im <= 2 THEN -1 ELSE 0
        iypmy  == iy + my
    IN  (1461 * (iypmy + 4800)) \div 4
          + (367 * (im - 2 - 12 * my)) \div 12
          - (3 * ((iypmy + 4900) \div 100)) \div 4
          + id - 2432076

(* The date of a Julian day number, for days after 1582.  The quotients by
   decimal fractions are written with integers: 36524.25, 365.25 and
   30.6000001 (here 30.6001). *)
DateOf(jdn) ==
    LET t  == (4 * jdn - 7468865) \div 146097
        B  == jdn + 1 + t - t \div 4 + 1524
        C  == (100 * B - 12210) \div 36525
        D  == (1461 * C) \div 4
        E  == ((B - D) * 10000) \div 306001
        im == IF E < 14 THEN E - 1 ELSE E - 13
    IN  <<IF im > 2 THEN C - 4716 ELSE C - 4715, im,
          B - D - (306001 * E) \div 10000>>

(* Mjd2Cal: the date is of the next day if carry is 1, for mjd + 2400001 has
   fewer digits after the point than mjd.  The fraction it finds is that of
   mjd all the same. *)
Mjd2Cal(mjd, carry) == DateOf(mjd + carry + 2400001)

(* DeltaAT from 1972 on: the last entry of the table that is not later than
   the month. *)
changes ==
    <<<<1972, 1>>, <<1972, 7>>, <<1973, 1>>, <<1974, 1>>, <<1975, 1>>,
      <<1976, 1>>, <<1977, 1>>, <<1978, 1>>, <<1979, 1>>, <<1980, 1>>,
      <<1981, 7>>, <<1982, 7>>, <<1983, 7>>, <<1985, 7>>, <<1988, 1>>,
      <<1990, 1>>, <<1991, 1>>, <<1992, 7>>, <<1993, 7>>, <<1994, 7>>,
      <<1996, 1>>, <<1997, 7>>, <<1999, 1>>, <<2006, 1>>, <<2009, 1>>,
      <<2012, 7>>, <<2015, 7>>, <<2017, 1>>>>

DeltaAT(iy, im) ==
    LET Before(i) == 12 * iy + im >= 12 * changes[i][1] + changes[i][2]
    IN  9 + (CHOOSE i \in DOMAIN changes :
               Before(i) /\ (i = Len(changes) \/ ~Before(i + 1)))

-----------------------------------------------------------------------------
(* What each quantity is computed from.  The table of the nutation and the
   other series are left out. *)

TimeNeeds == [JC |-> {"MJD"}, JD |-> {"MJD"}, TAI |-> {"MJD", "DAT"}]

SiderealNeeds == [GMST |-> {"JC"},
                  GST  |-> {"GMST", "NL", "MO", "NO"},
                  LMST |-> {"GMST", "SITE"},
                  LST  |-> {"GST", "SITE"}]

Nutation == {"JC", "MAMOON", "MASUN", "RLONG_MOON", "MELONG_MOON_SUN",
             "MLAN_MOON"}

ObliquityNeeds == [MO |-> {"JC"}, NL |-> Nutation, NO |-> Nutation]

SunMoonNeeds ==
    [k \in {"MASUN", "MAMOON", "MELONG_MOON_SUN", "MLAN_MOON", "RLONG_MOON",
            "ML_SUN", "ECCENTRICITY_EARTH", "PL_EARTH"} |-> {"JC"}]

SunNeeds == [CENTER_SUN   |-> {"JC", "MASUN"},
             TL_SUN       |-> {"ML_SUN", "CENTER_SUN"},
             TA_SUN       |-> {"MASUN", "CENTER_SUN"},
             POSITION_SUN |-> {"JC"}]

MoonNeeds == [POSITION_MOON      |-> {"MJD", "MO", "NO", "ML_SUN", "MASUN"},
              POSITION_MOON_TOPO |-> {"SITE", "LMST", "POSITION_MOON"}]

(* EqTransfer and EqReTransfer ask for these. *)
EqTransfer == {"JC", "MO", "NL", "NO", "ML_SUN", "CENTER_SUN",
               "ECCENTRICITY_EARTH", "PL_EARTH"}

AllNeeds == <<TimeNeeds, SiderealNeeds, ObliquityNeeds, SunMoonNeeds, SunNeeds,
              MoonNeeds>>
Quantities == UNION {DOMAIN AllNeeds[i] : i \in DOMAIN AllNeeds}
Needs == [k \in Quantities |->
            LET i == CHOOSE j \in DOMAIN AllNeeds : k \in DOMAIN AllNeeds[j]
            IN  AllNeeds[i][k]]

(* There is a function of the class for each quantity. *)
WantedOK == Wanted \subseteq SUBSET Quantities
ASSUME AsksForQuantities == WantedOK

(* The longitude and the obliquity of the nutation are computed together. *)
Together(k) == IF k \in {"NL", "NO"} THEN {"NL", "NO"} ELSE {k}

-----------------------------------------------------------------------------
VARIABLES
    site,     \* lgt_, lat_, alt_, tz_
    mjd,      \* values_[ATS_MJD]
    dat,      \* values_[ATS_DAT]
    values,   \* values_ of the quantities whose valid_ is set
    asked,    \* ghost: the day of the last call that set a time
    late,     \* ghost: that call named a time just before midnight
    moved     \* ghost: the site was set after the time

vars == <<site, mjd, dat, values, asked, late, moved>>

(* What is in memory before a time is set; no day that is set is 0. *)
Unset == 0

valid == DOMAIN values

TimeSetKeeps(date, carry) ==   \* mutant
    /\ mjd' = ModifiedJulianDay(date[1], date[2], date[3]) + carry
    /\ dat' = DeltaAT(date[1], date[2])
    /\ moved' = FALSE
    /\ UNCHANGED <<site, values>>

(* SetUTC with a date it accepts, to which a fraction is added; Mjd2Cal leads
   the other setters to it. *)
TimeSet(date, carry) ==
    /\ values' = <<>>
    /\ mjd' = ModifiedJulianDay(date[1], date[2], date[3]) + carry
    /\ dat' = DeltaAT(date[1], date[2])
    /\ moved' = FALSE
    /\ UNCHANGED site

(* The day a date means, counted from 1 January 1970 in years and months. *)
MonthDays(iy, im) == mdays[im] + (IF Leap(iy, im) THEN 1 ELSE 0)
DayOf(iy, im, id) ==
    LET months[k \in 0 .. 11] == IF k = 0 THEN 0
                                 ELSE months[k - 1] + MonthDays(iy, k)
    IN  40586 + 365 * (iy - 1970)
          + Cardinality({y \in 1970 .. iy - 1 : Leap(y, 2)})
          + months[im - 1] + id

Init ==
    /\ site \in Sites
    /\ mjd = Unset /\ dat = Unset /\ asked = Unset
    /\ values = <<>>
    /\ late = FALSE /\ moved = FALSE

(* SetMJD, and SetEpoch, which computes an MJD first.  The fraction is one of
   the MJD, to which adding the day is exact.  SetJD is given so few digits
   that its sum is exact too: it is never late. *)
SetMJD(day, fd) ==
    \E carry \in Carries(fd) :
      LET date == Mjd2Cal(day, carry)
      IN  IF SetUTCCode(date[1], date[2], date[3], fd) = 0
            THEN TimeSet(date, 0) /\ asked' = day /\ late' = (fd = "late")
            ELSE UNCHANGED vars

SetUTC(date, fd) ==
    /\ SetUTCCode(date[1], date[2], date[3], fd) = 0
    /\ \E carry \in Carries(fd) : TimeSet(date, carry)
    /\ asked' = DayOf(date[1], date[2], date[3])
    /\ late' = (fd = "late")

SetUTCRejects(date, fd) ==
    /\ SetUTCCode(date[1], date[2], date[3], fd) # 0
    /\ UNCHANGED vars

(* Quantities are kept when the site changes. *)
SetSite(s) ==
    /\ site' = s
    /\ moved' = TRUE
    /\ UNCHANGED <<mjd, dat, values, asked, late>>

(* What is set, and never computed *)
Input == [MJD |-> {<<"mjd", mjd>>}, DAT |-> {<<"dat", dat>>},
          SITE |-> {<<"site", site>>}]

Names == Quantities \cup DOMAIN Input

(* The value a caller gets, from what is valid or else computed now. *)
ValueOf ==
    LET v[k \in Names] ==
          IF k \in valid THEN values[k]
          ELSE IF k \in DOMAIN Input THEN Input[k]
          ELSE UNION {v[j] : j \in Needs[k]}
    IN  v

(* The quantities computed on the way to one. *)
Computed ==
    LET c[k \in Names] ==
          IF k \in valid \cup DOMAIN Input THEN {}
          ELSE Together(k) \cup UNION {c[j] : j \in Needs[k]}
    IN  c

(* MoonPosition sets values_ where it means valid_: it is never kept. *)
Kept(k) == k # "POSITION_MOON"

Get(W) ==
    LET new == UNION {Computed[k] : k \in W}
    IN  /\ new # {}
        /\ values' = [k \in valid \cup {j \in new : Kept(j)} |-> ValueOf[k]]
        /\ UNCHANGED <<site, mjd, dat, asked, late, moved>>

Next ==
    \/ \E day \in Days, fd \in Fractions \ {"over"} : SetMJD(day, fd)
    \/ \E date \in Dates, fd \in Fractions :
         SetUTC(date, fd) \/ SetUTCRejects(date, fd)
    \/ \E s \in Sites : SetSite(s)
    \/ \E W \in Wanted : Get(W)

Spec == Init /\ [][Next]_vars

-----------------------------------------------------------------------------
(* The type invariant: nothing is kept that is never marked valid. *)
TypeOK ==
    /\ site \in Sites /\ mjd \in Int /\ dat \in Int /\ asked \in Int
    /\ valid \subseteq {k \in Quantities : Kept(k)}
    /\ late \in BOOLEAN /\ moved \in BOOLEAN

(* TAI - UTC of a day, for the property only. *)
LeapSeconds(day) ==
    9 + Cardinality({i \in DOMAIN changes :
                       DayOf(changes[i][1], changes[i][2], 1) <= day})

(* The day that was named, and the next if the time was just before midnight *)
Near == {asked} \cup (IF late THEN {asked + 1} ELSE {})

(* Once a time is set, and whatever was asked for before, also before any time
   was set, all quantities that are kept are of one day and of the leap
   seconds of one day: the day the caller named in whichever calendar, or,
   only if the time was within 3E-10 days of midnight, the next (the sum in
   Mjd2Cal or in ModifiedJulianDay rounds).  And they are of the site unless
   the site was set after the time (a SetSite alone leaves what is kept). *)
OfTheTimeAndPlace ==
    asked # Unset =>
      \E day \in Near, of \in Near : \A k \in valid :
        /\ values[k] \subseteq {<<"mjd", day>>, <<"dat", LeapSeconds(of)>>}
                                 \cup {<<"site", s>> : s \in Sites}
        /\ <<"mjd", day>> \in values[k]
        /\ ~moved => \A s \in Sites \ {site} : <<"site", s>> \notin values[k]
=============================================================================
