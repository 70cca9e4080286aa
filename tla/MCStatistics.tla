------------------------------ MODULE MCStatistics ------------------------------
(* Five days around the ends of months and years, in a calendar that has a      *)
(* leap year.                                                                   *)
EXTENDS Statistics

\* In 2023: 1 and 31 January, 1, 5 and 31 March.
MCDays ==
  {FirstDay[12], FirstDay[13] - 1, FirstDay[14], FirstDay[14] + 4,
   FirstDay[15] - 1}

\* Custom periods start and end on 31 January and 1 March.
MCDates == {FirstDay[13] - 1, FirstDay[14]}
===============================================================================
