-------------------------- MODULE MCTodayForecast --------------------------
(* A small instance of TodayForecast for TLC: an evening, the night and the  *)
(* day after it, and the next evening.                                       *)
EXTENDS TodayForecast, TLC

\* The first night colder than the others, or the others colder than it; the hours agree with
\* every low, or are too warm for those of the later nights.
MCReadings == {<<0, 2, 0, 2>>, <<2, 0, 2, 2>>}

\* All numbers, or all but the first period's or the second one's: the day's or the night's
\* that comes first.
MCGaps == {{}, {1}, {2}}
SourceSymmetry == Permutations(Sources)
=============================================================================
