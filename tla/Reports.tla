------------------------------- MODULE Reports -------------------------------
(***************************************************************************)
(* What the reading tools conclude from the tables that Schema fills: the  *)
(* longitudinal report of tools/validate_feeds.py (which tools/health.py   *)
(* and tools/week1_check.py print too) and the coverage of                 *)
(* tools/yield_analysis.py.  All of it reads what is committed.  The third *)
(* flag of the longitudinal report, blocked_but_ok, asks the network for a *)
(* robots.txt and no table; it is not here, nor is the exit status it      *)
(* belongs to.                                                             *)
(***************************************************************************)
EXTENDS Schema

CONSTANTS
  MinAge,        \* ZERO_YIELD_MIN_AGE_D
  StalledWindow, \* STALLED_WINDOW_D
  FeedWindow     \* config.FEED_WINDOW_DAYS

ASSUME ReportAssumption == MinAge \in Nat /\ StalledWindow \in Nat /\ FeedWindow \in Nat
-----------------------------------------------------------------------------
(* longitudinal_report *)

HasAge(s) == disk.first[s] # NoDay

DaysSinceFirstSeen(s) == day - disk.first[s].day

\* WHERE enabled = 1: the report has no line for another source.
ZeroYield(s) ==
  /\ s \in disk.enabled
  /\ Fetched(disk, s) = {}
  /\ HasAge(s) /\ DaysSinceFirstSeen(s) > MinAge

Stalled(s) ==
  /\ s \in disk.enabled
  /\ Fetched(disk, s) # {}
  /\ \A d \in Fetched(disk, s) : d < day - StalledWindow

-----------------------------------------------------------------------------
(* coverage *)

\* Rows whose stage_counts are there and whose started_at _parse_ts can read;
\* the others are passed over.
ReadRows == {i \in DOMAIN disk.log : disk.log[i].counts # "none" /\ ~disk.log[i].started.precise}

SuccessDays(s) ==
  {disk.log[i].started.day : i \in {j \in ReadRows : s \notin disk.log[j].failed}}

Captured(s, d) == \E e \in d .. d + FeedWindow - 1 : e \in SuccessDays(s)
-----------------------------------------------------------------------------
(* An enabled source that became known longer ago than the limit and has   *)
(* given nothing since is flagged, if it has a date at all.  The sources   *)
(* of an old database get the date of the earliest run, which must not be  *)
(* later than the truth.                                                   *)
SilentIsFlagged ==
  \A s \in disk.enabled :
    HasAge(s) /\ Fetched(disk, s) = {} /\ day - since[s] > MinAge => ZeroYield(s)

(* And one that sync_sources dated is not flagged before its time.         *)
NotFlaggedEarly ==
  \A s \in disk.enabled :
    ZeroYield(s) /\ since[s] >= FirstDay => day - since[s] > MinAge

(* A source whose line says zero_yield or stalled says so until it has     *)
(* given something, or feeds.yaml has it no more or not enabled: no        *)
(* migration, sync, restart, crash, kill or other source's news, and no    *)
(* change of the file that leaves it enabled, clears its flag.             *)
FlagsClearByNews ==
  [][\A s \in disk.enabled \cap disk'.enabled :
       /\ ZeroYield(s) \/ Stalled(s)
       /\ ~(ZeroYield(s) \/ Stalled(s))'
       => Fetched(disk', s) # Fetched(disk, s)]_vars

(* _parse_ts knows whole seconds only and raises otherwise, so a date that *)
(* the backfill borrows from run_log must come from an earlier version's   *)
(* row, also when a run of today's has inserted one meanwhile.             *)
Readable == \A s \in disk.listed : HasAge(s) => ~disk.first[s].precise

(* The report can be made, and its flags are neither late nor early.       *)
FlagsExact == Readable /\ SilentIsFlagged /\ NotFlaggedEarly

(* db.py:46 calls the fallback "an honest lower bound": for a source that  *)
(* is younger than the pipeline it is not, and flags it early.             *)
BackfillHonest == \A s \in disk.enabled : ZeroYield(s) => day - since[s] > MinAge

(* tools/yield_analysis.py:16-18: a (source, day) pair counts "if there    *)
(* was at least one successful fetch" of the source that day or in the     *)
(* days after.  A day on which a run was clean, did not fail at the source *)
(* and articles of it came in is such a day, whatever else happened to     *)
(* feeds.yaml; the rows that runs write today have fractions of seconds   *)
(* in started_at, and not one of them is read.                             *)
SuccessIsCounted ==
  \A i \in DOMAIN disk.log : disk.log[i].counts \in {"flat", "nested"} =>
    \A s \in disk.enabled :
      s \notin disk.log[i].failed /\ disk.log[i].started.day \in Fetched(disk, s)
        => Captured(s, disk.log[i].started.day)
=============================================================================
