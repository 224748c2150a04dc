------------------------------ MODULE MCRunLog ------------------------------
(***************************************************************************)
(* RunLog for TLC, in ticks of ten minutes: the task every 2 (15 minutes,  *)
(* rounded up) with a limit of 1, abandoned after 3.  The 90 days of       *)
(* retention are 4 ticks, the threshold and a run's limit: the least that  *)
(* keeps the order in which these times pass for the age of a row.         *)
(***************************************************************************)
EXTENDS RunLog

MCRunId == 1 .. 6
MCFewRunIds == 1 .. 2
=============================================================================
