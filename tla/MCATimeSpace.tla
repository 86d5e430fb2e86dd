---------------------------- MODULE MCATimeSpace ----------------------------
EXTENDS ATimeSpace

(* The first and the last day of months in common years, leap years, a
   century and years with leap seconds. *)
MCDays ==
    UNION {{DayOf(y, m, 1), DayOf(y, m, 1) - 1} :
             y \in {1973, 1996, 2000, 2017, 2100}, m \in {1, 3, 7}}
MCDates ==
    {<<2000, 2, 29>>, <<2015, 7, 1>>, <<2100, 2, 28>>, <<2016, 12, 31>>,
     <<2100, 2, 29>>, <<2019, 13, 1>>, <<-4800, 1, 1>>, <<2019, 4, 31>>}
MCSites == {"A", "B"}
MCWanted == {{"TAI", "JD"}, {"LST"}, {"LMST"}, {"POSITION_MOON_TOPO"},
             {"TL_SUN", "TA_SUN"}, EqTransfer}
=============================================================================
