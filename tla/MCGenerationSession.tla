------------------------ MODULE MCGenerationSession ------------------------
(* Configurations: whole years, years with a rest from a day that most     *)
(* Februaries lack, one period, half years.  Month 0 is January 2024.      *)
EXTENDS GenerationSession

January2024 == [month |-> 0, day |-> 1]
TwoYears ==
  [volume |-> 1, start |-> January2024, total |-> 24, fiscalYear |-> 12, stable |-> TRUE]
OtherVolume == [TwoYears EXCEPT !.volume = 2, !.stable = FALSE]
WithRest == [TwoYears EXCEPT !.start = [month |-> 1, day |-> 29], !.total = 30]
OnePeriod == [TwoYears EXCEPT !.total = 12]
HalfYears == [TwoYears EXCEPT !.total = 12, !.fiscalYear = 6]
LateStart == [HalfYears EXCEPT !.start = [month |-> 7, day |-> 31]]

SeveralConfigs == {TwoYears, OtherVolume, WithRest, OnePeriod}
OnlyTwoYears == {TwoYears}
OnlyHalfYears == {HalfYears}
OnlyWithRest == {WithRest}
OnlyLateStart == {LateStart}

Year == <<31, 28, 31, 30, 31, 30, 31, 31, 30, 31, 30, 31>>
LeapYear == [Year EXCEPT ![2] = 29]
FourYears == LeapYear \o Year \o Year \o Year

NoAppend == {}
AppendYear == {12}
AppendYears == {12, 24}
AppendHalfOrTwoYears == {6, 24}
=============================================================================
