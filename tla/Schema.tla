------------------------------- MODULE Schema -------------------------------
(***************************************************************************)
(* The database of an earlier version and the runs that bring it up to     *)
(* date: init_schema of db.py statement by statement, at the start of every *)
(* process, then as much of the run as puts dates into the tables (its row  *)
(* of run_log, sync_sources, the articles fetched).                        *)
(*                                                                         *)
(* sqlite3 opens a transaction for INSERT, UPDATE and DELETE, not for ALTER *)
(* TABLE: a column added outside a transaction is there at once and for     *)
(* good, one added inside belongs to the transaction.                      *)
(***************************************************************************)
EXTENDS Integers, FiniteSets, Sequences

CONSTANTS
  Proc,         \* processes
  Source,       \* feeds
  OldDatabase,  \* databases an earlier version may have left, see Init
  FirstDay,     \* the day of the upgrade
  MaxDay,       \* bound: the last day
  MaxRuns,      \* bound: rows of run_log
  MaxFaults,    \* bound: kills and exceptions
  Edits,        \* bound: what the edits of feeds.yaml say of which source
  NoDay,        \* NULL
  NoProc        \* nobody holds the write lock

Day == 0 .. MaxDay
Column == {"disabled_reason", "first_seen_at", "last_stage"}

ASSUME DayAssumption == FirstDay \in Nat /\ MaxDay \in Nat /\ FirstDay <= MaxDay
Entry == {"absent", "off", "on"}

ASSUME BoundAssumption == MaxRuns \in Nat /\ MaxFaults \in Nat /\ Edits \subseteq Source \X Entry
\* started_at with fractions of a second, or without as earlier versions wrote it.
Stamp == [day : Day, precise : BOOLEAN]

ASSUME NullAssumption == NoDay \notin Day \cup Stamp /\ NoProc \notin Proc

\* What the day's fetch came to, for those who read run_log later.
Row == [started : Stamp, counts : {"none", "process", "flat", "nested"}, failed : SUBSET Source]

Database ==
  [columns : SUBSET Column,
   first : [Source -> Stamp \cup {NoDay}],  \* source.first_seen_at
   listed : SUBSET Source,                  \* the rows of source
   enabled : SUBSET Source,                 \* those with enabled = 1
   articles : SUBSET (Source \X Day),       \* by source and day of fetched_at
   log : Seq(Row)]

\* since is the day sync_sources first listed a source.
ASSUME OldAssumption ==
  \A old \in OldDatabase :
    /\ old.db \in Database
    /\ old.since \in [Source -> Day \cup {NoDay}]
    /\ "first_seen_at" \notin old.db.columns
    /\ old.db.enabled \subseteq old.db.listed
    /\ old.db.articles \subseteq old.db.listed \X (0 .. FirstDay)
    /\ \A i \in DOMAIN old.db.log : old.db.log[i].started.day <= FirstDay
    /\ \A s \in Source : old.db.first[s] = NoDay
    /\ \A s \in old.db.listed : old.since[s] \in Day /\ old.since[s] < FirstDay

VARIABLES
  disk,    \* what is committed
  work,    \* what the holder of the write lock sees
  writer,  \* the holder of the write lock
  at,      \* the statement a process does next
  saw,     \* the columns it found missing
  oldest,  \* MIN(started_at) as it read it
  mine,    \* its row of run_log
  feeds,   \* what feeds.yaml says of each source
  day,
  faults,
  since,   \* the day a source really became known, to state properties with
  cut      \* a migration ended between the ALTER and the commit of its backfill

vars == <<disk, work, writer, at, saw, oldest, mine, feeds, day, faults, since, cut>>

Place == {"idle", "columns", "reason", "first_seen", "fallback", "backfill", "log_columns",
          "last_stage", "commit", "insert", "sync", "fetch", "finish"}

View(p) == IF writer = p THEN work ELSE disk

\* A statement that writes waits for the lock.
MayWrite(p) == writer \in {NoProc, p}

Goto(p, place) == at' = [at EXCEPT ![p] = place]

\* Outside a transaction of p's a statement commits on its own.
Change(p, db) ==
  /\ MayWrite(p)
  /\ IF writer = p THEN work' = db /\ UNCHANGED disk ELSE disk' = db /\ work' = db
  /\ UNCHANGED writer

TypeOK ==
  /\ disk \in Database /\ work \in Database
  /\ writer \in Proc \cup {NoProc}
  /\ at \in [Proc -> Place]
  /\ saw \in [Proc -> SUBSET Column]
  /\ oldest \in [Proc -> Stamp \cup {NoDay}]
  /\ mine \in [Proc -> Nat]
  /\ feeds \in [Source -> Entry]
  /\ day \in Day /\ faults \in 0 .. MaxFaults
  /\ since \in [Source -> Day \cup {NoDay}]
  /\ cut \in BOOLEAN

Init ==
  /\ \E old \in OldDatabase :
       /\ disk = old.db /\ work = old.db
       /\ since = old.since
       /\ feeds = [s \in Source |-> IF s \in old.db.enabled THEN "on"
                                     ELSE IF s \in old.db.listed THEN "off" ELSE "absent"]
  /\ writer = NoProc
  /\ at = [p \in Proc |-> "idle"]
  /\ saw = [p \in Proc |-> {}]
  /\ oldest = [p \in Proc |-> NoDay]
  /\ mine = [p \in Proc |-> 0]
  /\ day = FirstDay
  /\ faults = 0
  /\ cut = FALSE
-----------------------------------------------------------------------------
(* init_schema *)

\* get_connection and the script, whose CREATE ... IF NOT EXISTS leaves the
\* tables of an old database as they are.
Begin(p) ==
  /\ at[p] = "idle"
  /\ Len(disk.log) < MaxRuns
  /\ Goto(p, "columns")
  /\ UNCHANGED <<disk, work, writer, saw, oldest, mine, feeds, day, faults, since, cut>>

ReadColumns(p) ==
  /\ at[p] = "columns"
  /\ saw' = [saw EXCEPT ![p] = {"disabled_reason", "first_seen_at"} \ View(p).columns]
  /\ Goto(p, "reason")
  /\ UNCHANGED <<disk, work, writer, oldest, mine, feeds, day, faults, since, cut>>

\* ALTER TABLE ... ADD COLUMN; a column somebody else has added meanwhile is
\* an error, which is Refused.
Add(p, column) ==
  /\ column \in saw[p]
  /\ column \notin View(p).columns
  /\ Change(p, [View(p) EXCEPT !.columns = @ \cup {column}])

AddReason(p) ==
  /\ at[p] = "reason"
  /\ \/ Add(p, "disabled_reason")
     \/ "disabled_reason" \notin saw[p] /\ UNCHANGED <<disk, work, writer>>
  /\ Goto(p, "first_seen")
  /\ UNCHANGED <<saw, oldest, mine, feeds, day, faults, since, cut>>

\* Mutant: the migration is taken for done when this column is there.
AddFirstSeenReturning(p) ==
  /\ at[p] = "first_seen"
  /\ \/ Add(p, "first_seen_at") /\ Goto(p, "fallback")
     \/ "first_seen_at" \notin saw[p] /\ Goto(p, "commit") /\ UNCHANGED <<disk, work, writer>>
  /\ UNCHANGED <<saw, oldest, mine, feeds, day, faults, since, cut>>

AddFirstSeen(p) ==
  /\ at[p] = "first_seen"
  /\ \/ Add(p, "first_seen_at") /\ Goto(p, "fallback")
     \/ "first_seen_at" \notin saw[p] /\ Goto(p, "log_columns") /\ UNCHANGED <<disk, work, writer>>
  /\ UNCHANGED <<saw, oldest, mine, feeds, day, faults, since, cut>>

\* Mutant: MAX(started_at).
EarliestLast(stamps) == CHOOSE t \in stamps : \A u \in stamps : u.day <= t.day

\* As text: whole seconds sort behind fractions of the same second, days decide.
Earliest(stamps) == CHOOSE t \in stamps : \A u \in stamps : t.day <= u.day

Started(db) == {db.log[i].started : i \in DOMAIN db.log}

ReadFallback(p) ==
  /\ at[p] = "fallback"
  /\ oldest' = [oldest EXCEPT ![p] =
       IF Started(View(p)) = {} THEN [day |-> day, precise |-> FALSE] ELSE Earliest(Started(View(p)))]
  /\ Goto(p, "backfill")
  /\ UNCHANGED <<disk, work, writer, saw, mine, feeds, day, faults, since, cut>>

Fetched(db, s) == {d \in Day : <<s, d>> \in db.articles}

\* Mutant: MAX(fetched_at).
FirstFetchLast(db, s) == CHOOSE d \in Fetched(db, s) : \A e \in Fetched(db, s) : e <= d

FirstFetch(db, s) == CHOOSE d \in Fetched(db, s) : \A e \in Fetched(db, s) : d <= e

\* COALESCE of the source's first article and the fallback.
Backfilled(p, db) ==
  [s \in Source |->
     IF s \notin db.listed \/ db.first[s] # NoDay THEN db.first[s]
     ELSE IF Fetched(db, s) # {} THEN [day |-> FirstFetch(db, s), precise |-> FALSE]
     ELSE oldest[p]]

Backfill(p) ==
  /\ at[p] = "backfill"
  /\ MayWrite(p)
  /\ writer' = p
  /\ work' = [View(p) EXCEPT !.first = Backfilled(p, View(p))]
  /\ oldest' = [oldest EXCEPT ![p] = NoDay]
  /\ Goto(p, "log_columns")
  /\ UNCHANGED <<disk, saw, mine, feeds, day, faults, since, cut>>

ReadLogColumns(p) ==
  /\ at[p] = "log_columns"
  /\ saw' = [saw EXCEPT ![p] = {"last_stage"} \ View(p).columns]
  /\ Goto(p, "last_stage")
  /\ UNCHANGED <<disk, work, writer, oldest, mine, feeds, day, faults, since, cut>>

\* Mutant: only where the source table was migrated too.
AddLastStageAlong(p) ==
  /\ at[p] = "last_stage"
  /\ \/ Add(p, "last_stage") /\ writer = p
     \/ ("last_stage" \notin saw[p] \/ writer # p) /\ UNCHANGED <<disk, work, writer>>
  /\ saw' = [saw EXCEPT ![p] = {}]
  /\ Goto(p, "commit")
  /\ UNCHANGED <<oldest, mine, feeds, day, faults, since, cut>>

AddLastStage(p) ==
  /\ at[p] = "last_stage"
  /\ \/ Add(p, "last_stage")
     \/ "last_stage" \notin saw[p] /\ UNCHANGED <<disk, work, writer>>
  /\ saw' = [saw EXCEPT ![p] = {}]
  /\ Goto(p, "commit")
  /\ UNCHANGED <<oldest, mine, feeds, day, faults, since, cut>>

CommitSchema(p) ==
  /\ at[p] = "commit"
  /\ IF writer = p THEN disk' = work /\ writer' = NoProc ELSE UNCHANGED <<disk, writer>>
  /\ Goto(p, "insert")
  /\ UNCHANGED <<work, saw, oldest, mine, feeds, day, faults, since, cut>>
-----------------------------------------------------------------------------
(* the run *)

InsertRow(p) ==
  /\ at[p] = "insert"
  /\ Len(disk.log) < MaxRuns
  /\ Change(p, [View(p) EXCEPT !.log = Append(@, [started |-> [day |-> day, precise |-> TRUE],
                  counts |-> "process", failed |-> {}])])
  /\ mine' = [mine EXCEPT ![p] = Len(View(p).log) + 1]
  /\ Goto(p, "sync")
  /\ UNCHANGED <<saw, oldest, feeds, day, faults, since, cut>>

\* The entries of the file, and those that are enabled.
Known == {s \in Source : feeds[s] # "absent"}
On == {s \in Source : feeds[s] = "on"}

\* Mutant: the date is set whenever the file lists the source.
DatedAlways(db) ==
  [s \in Source |-> IF s \in Known THEN [day |-> day, precise |-> FALSE] ELSE db.first[s]]

\* first_seen_at is set where the row of a source is inserted.
Dated(db) ==
  [s \in Source |-> IF s \in Known \ db.listed
                      THEN [day |-> day, precise |-> FALSE] ELSE db.first[s]]

\* sync_sources: a source that the file has no more is disabled too.
Sync(p) ==
  /\ at[p] = "sync"
  /\ Change(p, [View(p) EXCEPT !.listed = @ \cup Known, !.enabled = On, !.first = Dated(View(p))])
  /\ since' = [s \in Source |-> IF s \in Known \ View(p).listed THEN day ELSE since[s]]
  /\ Goto(p, "fetch")
  /\ UNCHANGED <<saw, oldest, mine, feeds, day, faults, cut>>

\* Mutant: fetched_at in the local time of somewhere east.
FetchAhead(p, failed, news) ==
  /\ at[p] = "fetch"
  /\ failed \subseteq View(p).enabled
  /\ news \subseteq View(p).enabled \ failed
  /\ Change(p, [View(p) EXCEPT
       !.articles = @ \cup (news \X {day + 1}),
       !.log[mine[p]].failed = failed])
  /\ Goto(p, "finish")
  /\ UNCHANGED <<saw, oldest, mine, feeds, day, faults, since, cut>>

\* The fetch of the enabled sources of the table, to its commit: some fail,
\* some of the others have news.
Fetch(p, failed, news) ==
  /\ at[p] = "fetch"
  /\ failed \subseteq View(p).enabled
  /\ news \subseteq View(p).enabled \ failed
  /\ Change(p, [View(p) EXCEPT
       !.articles = @ \cup (news \X {day}),
       !.log[mine[p]].failed = failed])
  /\ Goto(p, "finish")
  /\ UNCHANGED <<saw, oldest, mine, feeds, day, faults, since, cut>>

\* Ends the run, and its row.
Outcome(p, counts) ==
  /\ Change(p, [View(p) EXCEPT !.log[mine[p]].counts = counts])
  /\ mine' = [mine EXCEPT ![p] = 0]
  /\ Goto(p, "idle")
  /\ UNCHANGED <<saw, oldest, feeds, day, since, cut>>

Finish(p) ==
  /\ at[p] = "finish"
  /\ Outcome(p, "nested")
  /\ UNCHANGED faults

Crash(p) ==
  /\ at[p] \in {"sync", "fetch", "finish"}
  /\ faults < MaxFaults
  /\ faults' = faults + 1
  /\ Outcome(p, "process")
-----------------------------------------------------------------------------
\* Between the column and the commit of what belongs in it.
Migrating(p) == at[p] \in {"fallback", "backfill"} \/ writer = p

\* The process is gone, and its transaction with it.
Gone(p) ==
  /\ Goto(p, "idle")
  /\ writer' = IF writer = p THEN NoProc ELSE writer
  /\ work' = IF writer = p THEN disk ELSE work
  /\ saw' = [saw EXCEPT ![p] = {}]
  /\ oldest' = [oldest EXCEPT ![p] = NoDay]
  /\ mine' = [mine EXCEPT ![p] = 0]
  /\ UNCHANGED <<disk, feeds, day, since>>

\* "duplicate column name": run() logs it and returns 1.
Refused(p) ==
  /\ \/ at[p] = "reason" /\ "disabled_reason" \in saw[p] \cap View(p).columns
     \/ at[p] = "first_seen" /\ "first_seen_at" \in saw[p] \cap View(p).columns
     \/ at[p] = "last_stage" /\ "last_stage" \in saw[p] \cap View(p).columns
  /\ MayWrite(p)
  /\ Gone(p)
  /\ UNCHANGED <<faults, cut>>

\* A kill, or an exception (a lock not had in time) before the row exists.
Kill(p) ==
  /\ at[p] # "idle"
  /\ faults < MaxFaults
  /\ faults' = faults + 1
  /\ cut' = (cut \/ Migrating(p))
  /\ Gone(p)

Edit ==
  /\ \E edit \in Edits : feeds' = [feeds EXCEPT ![edit[1]] = edit[2]]
  /\ UNCHANGED <<disk, work, writer, at, saw, oldest, mine, day, faults, since, cut>>

NextDay ==
  /\ day < MaxDay
  /\ day' = day + 1
  /\ UNCHANGED <<disk, work, writer, at, saw, oldest, mine, feeds, faults, since, cut>>

Step(p) ==
  \/ Begin(p) \/ ReadColumns(p) \/ AddReason(p) \/ AddFirstSeen(p) \/ ReadFallback(p)
  \/ Backfill(p) \/ ReadLogColumns(p) \/ AddLastStage(p) \/ CommitSchema(p) \/ Refused(p)
  \/ InsertRow(p) \/ Sync(p) \/ Finish(p)
  \/ \E failed, news \in SUBSET Source : Fetch(p, failed, news)

Next ==
  \/ \E p \in Proc : Step(p) \/ Crash(p) \/ Kill(p)
  \/ Edit
  \/ NextDay

Spec == Init /\ [][Next]_vars

FairSpec == Spec /\ \A p \in Proc : WF_vars(Step(p))
-----------------------------------------------------------------------------
(* Whoever is past init_schema works on the current schema, also when two  *)
(* processes migrate side by side and both die on the way several times.   *)
MigratedBeforeUse ==
  \A p \in Proc : at[p] \in {"insert", "sync", "fetch", "finish"} => disk.columns = Column

(* A source's first_seen_at is not after anything fetched from it, whether *)
(* sync_sources set it or the backfill made it up.                         *)
SeenBeforeFetched ==
  \A s \in disk.listed :
    disk.first[s] # NoDay => \A d \in Fetched(disk, s) : disk.first[s].day <= d

(* db.py:20 says init_schema is "idempotent: safe to call on every run".   *)
(* Its column is; the backfill that belongs to the column is run by nobody *)
(* but the process that added it.  So a source is without first_seen_at    *)
(* only while that goes on, or for good after it was cut short.            *)
NullOnlyIfCut ==
  "first_seen_at" \in disk.columns =>
    \A s \in disk.listed : disk.first[s] = NoDay => cut \/ \E p \in Proc : Migrating(p)

(* What first_seen_at says of a source can be relied on.                   *)
FirstSeenSound == SeenBeforeFetched /\ NullOnlyIfCut

(* Once set it stays, whoever migrates or syncs ("never touched again",    *)
(* pipeline/ingest.py:82).  Proved in SchemaProofs.                         *)
SeenOnce ==
  [][\A s \in Source : disk.first[s] # NoDay => disk'.first[s] = disk.first[s]]_vars

(* The migration is retried by every run until it is whole.                *)
EventuallyMigrated == <>[](disk.columns = Column)

(* Does not hold: every source gets its date in the end.                   *)
EventuallySeen == <>[](\A s \in disk.listed : disk.first[s] # NoDay)
=============================================================================
