------------------------------- MODULE RunLog -------------------------------
(***************************************************************************)
(* The lifecycle of pipeline.run and its run_log row: the 15-minute        *)
(* scheduled task beside runs started by hand, the stage marks, the three  *)
(* handlers, the reaper, the pruning and the one-off abandoned-row         *)
(* backfill.                                                               *)
(*                                                                         *)
(* Time is relative: a row and a process have an age in ticks.  A row's    *)
(* age stops counting one past the retention window, so behaviours are     *)
(* infinite over finitely many states.  A run's article and source writes  *)
(* are counted, not represented: batch is how many feeds' results its open *)
(* transaction holds, and a row's kept is how many of them are committed.  *)
(***************************************************************************)
EXTENDS Integers, FiniteSets

CONSTANTS
    Manual,       \* processes that `python -m pipeline.run` starts by hand
    RunId,        \* run_log ids
    Feeds,        \* enabled feeds of a run
    Period,       \* ticks between triggers of the scheduled task
    Limit,        \* ExecutionTimeLimit of the scheduled task
    ManualLimit,  \* the longest a manual run may live; nothing enforces one
    Threshold,    \* ABANDONED_THRESHOLD_M
    Retention,    \* RUN_LOG_RETENTION_D
    MaxFaults,    \* bound on deaths, expired limits and exceptions
    MaxManual,    \* bound on manual runs
    MaxStops,     \* bound on Ctrl+C keystrokes
    MaxBackfills  \* bound on uses of tools/backfill_abandoned_historical.py

Scheduled == "scheduled"
Proc == Manual \cup {Scheduled}
NoRun == 0

ASSUME ManualAssumption == Scheduled \notin Manual
ASSUME RunIdAssumption == RunId \subseteq Nat \ {NoRun}
ASSUME TimeAssumption ==
    /\ Period \in Nat /\ Limit \in Nat /\ ManualLimit \in Nat
    /\ Threshold \in Nat /\ Retention \in Nat /\ Threshold < Retention
ASSUME CountAssumption ==
    Feeds \in Nat /\ MaxFaults \in Nat /\ MaxManual \in Nat /\ MaxStops \in Nat /\ MaxBackfills \in Nat

VARIABLES
    log,     \* the run_log rows, by id
    at,      \* what each process does next: a stage is named by its mark
    mine,    \* the row of each process
    age,     \* ticks since each process started
    stops,   \* Ctrl+C keystrokes each process has had
    batch,   \* feeds whose results are in its open transaction
    since,   \* ticks since the last trigger, stopping at Period
    seen,    \* the ids the backfill tool has read and not yet written
    used     \* how much of each bound is spent

procVars == <<at, mine, age, stops, batch>>
vars == <<log, procVars, since, seen, used>>

\* The stages whose mark is written inside run()'s try block.
TryStages == {"sources_synced", "pruned", "fetch_started", "await", "fetch_complete",
              "articles_written", "simhash", "embedded", "clustered", "rendered", "complete"}
Idle == {"off", "killed"}
Places == Idle \cup TryStages \cup
          {"reap", "insert", "context", "load", "config_loaded", "finish"}

After == [config_loaded |-> "sources_synced", sources_synced |-> "pruned",
          pruned |-> "fetch_started", fetch_started |-> "await",
          fetch_complete |-> "articles_written", articles_written |-> "simhash",
          simhash |-> "embedded", embedded |-> "clustered", clustered |-> "rendered",
          rendered |-> "complete", complete |-> "finish"]

Errors == {"none", "feeds", "fatal", "interrupted", "traceback", "abandoned", "historical"}
Row == [age: Nat, finished: BOOLEAN, errors: Errors, counts: {"none", "process", "full"},
        stage: TryStages \cup {"started", "config_loaded"}, kept: 0 .. Feeds]

Live(p) == at[p] \notin Idle
Open(r) == ~r.finished /\ r.errors = "none"

Init ==
    /\ log = [i \in {} |-> {}]
    /\ at = [p \in Proc |-> "off"]
    /\ mine = [p \in Proc |-> NoRun]
    /\ age = [p \in Proc |-> 0]
    /\ stops = [p \in Proc |-> 0]
    /\ batch = [p \in Proc |-> 0]
    /\ since = Period
    /\ seen = {}
    /\ used = [faults |-> 0, manual |-> 0, stops |-> 0, backfills |-> 0]

Spend(what, bound) ==
    used[what] < bound /\ used' = [used EXCEPT ![what] = @ + 1]

Goes(p, where) ==
    /\ at' = [at EXCEPT ![p] = where]
    /\ UNCHANGED <<mine, age, stops, batch>>

\* The process is gone; what its transaction held is rolled back or, if the
\* caller moved it to the row first, committed.
Ends(p, where) ==
    /\ at' = [at EXCEPT ![p] = where]
    /\ mine' = [mine EXCEPT ![p] = NoRun]
    /\ age' = [age EXCEPT ![p] = 0]
    /\ stops' = [stops EXCEPT ![p] = 0]
    /\ batch' = [batch EXCEPT ![p] = 0]

\* The row update of each handler and of the completion: conn.commit() also
\* commits the batch, and "AND errors IS NULL" guards the outcome.
OutcomeUnguarded(r, n, e) ==
    [r EXCEPT !.kept = IF n > 0 THEN n ELSE @, !.finished = TRUE, !.errors = e]

Outcome(r, n, e) ==
    LET committed == [r EXCEPT !.kept = IF n > 0 THEN n ELSE @]
    IN  IF r.errors = "none" THEN [committed EXCEPT !.finished = TRUE, !.errors = e]
                             ELSE committed

\* Update the row of p, if retention has not deleted it meanwhile.
WithRow(p, new(_)) ==
    log' = [i \in DOMAIN log |-> IF i = mine[p] THEN new(log[i]) ELSE log[i]]

\* SQLite has one writer: p's statement waits while another process holds an
\* uncommitted batch.  A wait over the 5 s busy timeout is an exception.
MayWrite(p) == \A q \in Proc \ {p} : batch[q] = 0

(***************************************************************************)
(* Starting                                                                *)
(***************************************************************************)
Starts(p) ==
    /\ ~Live(p)
    /\ at' = [at EXCEPT ![p] = "reap"]
    /\ UNCHANGED <<log, mine, age, stops, batch, seen>>

\* The repetition trigger; MultipleInstances IgnoreNew drops one that finds
\* the task running, StartWhenAvailable starts a missed one late.
Trigger ==
    /\ since = Period
    /\ since' = 0
    /\ UNCHANGED used
    /\ IF Live(Scheduled) THEN UNCHANGED <<log, procVars, seen>>
                          ELSE Starts(Scheduled)

StartByHand(p) ==
    /\ p \in Manual
    /\ Spend("manual", MaxManual)
    /\ Starts(p)
    /\ UNCHANGED since

ReapableTooSoon(r) == Open(r) /\ r.age < Threshold

ReapableUnfinished(r) == r.errors # "none" /\ ~r.finished /\ r.age > Threshold

\* finished_at IS NULL AND errors IS NULL AND started_at < now - threshold
Reapable(r) == Open(r) /\ r.age > Threshold

Reap(p) ==
    /\ at[p] = "reap"
    /\ MayWrite(p)
    /\ log' = [i \in DOMAIN log |->
                IF Reapable(log[i])
                THEN [log[i] EXCEPT !.errors = "abandoned", !.finished = TRUE]
                ELSE log[i]]
    /\ Goes(p, "insert")
    /\ UNCHANGED <<since, seen, used>>

Insert(p) ==
    /\ at[p] = "insert"
    /\ MayWrite(p)
    /\ \E i \in RunId \ DOMAIN log :
        /\ \A j \in RunId \ DOMAIN log : i <= j
        /\ log' = [j \in DOMAIN log \cup {i} |->
                    IF j = i THEN [age |-> 0, finished |-> FALSE, errors |-> "none",
                                   counts |-> "none", stage |-> "started", kept |-> 0]
                             ELSE log[j]]
        /\ mine' = [mine EXCEPT ![p] = i]
    /\ at' = [at EXCEPT ![p] = "context"]
    /\ UNCHANGED <<age, stops, batch, since, seen, used>>

\* stage_counts = {"process": ...}, at the start of the run.
Context(p) ==
    /\ at[p] = "context"
    /\ MayWrite(p)
    /\ WithRow(p, LAMBDA r : [r EXCEPT !.counts = "process"])
    /\ Goes(p, "load")
    /\ UNCHANGED <<since, seen, used>>

LoadFeeds(p) ==
    /\ at[p] = "load"
    /\ \/ Goes(p, "config_loaded") /\ UNCHANGED <<log, used>>
       \/ /\ MayWrite(p)
          /\ Spend("faults", MaxFaults)
          /\ WithRow(p, LAMBDA r : Outcome(r, 0, "fatal"))
          /\ Ends(p, "off")
    /\ UNCHANGED <<since, seen>>

(***************************************************************************)
(* The stages                                                              *)
(***************************************************************************)
\* Publish what the open transaction of p holds; kept records it on the row.
Marked(r, stage, n) ==
    [r EXCEPT !.stage = stage, !.kept = IF n > 0 THEN n ELSE @]

\* _mark_stage: its commit ends whatever the stage left uncommitted, so the
\* mark of "fetch_complete" is what commits the articles.
Mark(p) ==
    /\ at[p] \in DOMAIN After \ {"pruned"}
    /\ at[p] = "fetch_complete" => batch[p] = Feeds
    /\ MayWrite(p)
    /\ WithRow(p, LAMBDA r : Marked(r, at[p], batch[p]))
    /\ at' = [at EXCEPT ![p] = After[at[p]]]
    /\ batch' = [batch EXCEPT ![p] = 0]
    /\ UNCHANGED <<mine, age, stops, since, seen, used>>

PrunableTooSoon(r) == r.age >= Threshold

\* started_at < now - retention
Prunable(r) == r.age > Retention

\* _prune_run_log, and the mark after it.  A deleted row's id is free again
\* here, where it is not in the code: whoever remembered it forgets it.
MarkPruned(p) ==
    LET old == {i \in DOMAIN log : Prunable(log[i])}
    IN  /\ at[p] = "pruned"
        /\ MayWrite(p)
        /\ log' = [i \in DOMAIN log \ old |->
                     IF i = mine[p] THEN [log[i] EXCEPT !.stage = "pruned"] ELSE log[i]]
        /\ mine' = [q \in Proc |-> IF mine[q] \in old THEN NoRun ELSE mine[q]]
        /\ seen' = seen \ old
        /\ at' = [at EXCEPT ![p] = "fetch_started"]
        /\ UNCHANGED <<age, stops, batch, since, used>>

\* The one await of run(): after a Ctrl+C it raises CancelledError, which
\* neither except clause catches and whose finally writes nothing.
Awaited(p) ==
    /\ at[p] = "await"
    /\ IF stops[p] = 0 THEN Goes(p, "fetch_complete") ELSE Ends(p, "off")
    /\ UNCHANGED <<log, since, seen, used>>

\* Mutants of ProcessFeed: a commit for every feed; no end to the loop.
ProcessFeedCommits(p) ==
    /\ at[p] = "fetch_complete" /\ batch[p] < Feeds
    /\ WithRow(p, LAMBDA r : Marked(r, r.stage, batch[p] + 1))
    /\ batch' = [batch EXCEPT ![p] = @ + 1]
    /\ UNCHANGED <<at, mine, age, stops, since, seen, used>>

ProcessFeedAgain(p) ==
    /\ at[p] = "fetch_complete" /\ batch[p] <= Feeds
    /\ batch' = [batch EXCEPT ![p] = @ + 1]
    /\ UNCHANGED <<log, at, mine, age, stops, since, seen, used>>

\* One turn of ingest_once's loop over the results.
ProcessFeed(p) ==
    /\ at[p] = "fetch_complete" /\ batch[p] < Feeds
    /\ MayWrite(p)
    /\ batch' = [batch EXCEPT ![p] = @ + 1]
    /\ UNCHANGED <<log, at, mine, age, stops, since, seen, used>>

\* The finally clause of a completed run.  counts is merged only into a row
\* that has no outcome yet.
Finish(p) ==
    /\ at[p] = "finish"
    /\ MayWrite(p)
    /\ \E e \in {"none", "feeds"} :
        WithRow(p, LAMBDA r : IF r.errors = "none"
                              THEN [Outcome(r, 0, e) EXCEPT !.counts = "full"]
                              ELSE Outcome(r, 0, e))
    /\ Ends(p, "off")
    /\ UNCHANGED <<since, seen, used>>

(***************************************************************************)
(* Ending early                                                            *)
(***************************************************************************)
\* Mutant: the exception reaches the finally clause with run_ok set.
HandlerFallsThrough(p, e) ==
    /\ WithRow(p, LAMBDA r : Marked(r, r.stage, batch[p]))
    /\ Goes(p, "finish")

\* An except clause of run(): record the outcome, committing the batch with
\* it.  Once run_ok is set, the finally clause still follows.
Handler(p, e) ==
    /\ MayWrite(p)
    /\ WithRow(p, LAMBDA r : Outcome(r, batch[p], e))
    /\ IF at[p] = "complete" THEN Goes(p, "finish") ELSE Ends(p, "off")

Crash(p) ==
    /\ at[p] \in TryStages
    /\ Spend("faults", MaxFaults)
    /\ Handler(p, "traceback")
    /\ UNCHANGED <<since, seen>>

\* A kill (by the task's ExecutionTimeLimit, without which Tick would take it
\* past Limit), a power loss, or an exception no handler of run() sees.
Vanish(p) ==
    /\ Live(p)
    /\ Spend("faults", MaxFaults)
    /\ Ends(p, "killed")
    /\ UNCHANGED <<log, since, seen>>

\* asyncio.run turns the first Ctrl+C into a cancellation of run() that is
\* delivered at its next await, if it has one left; the second one raises
\* KeyboardInterrupt where the process is.
CtrlC(p) ==
    /\ p \in Manual /\ Live(p)
    /\ Spend("stops", MaxStops)
    /\ \/ /\ stops[p] = 0
          /\ stops' = [stops EXCEPT ![p] = 1]
          /\ UNCHANGED <<log, at, mine, age, batch>>
       \/ /\ stops[p] > 0 /\ at[p] \in TryStages \ {"await"}
          /\ Handler(p, "interrupted")
       \/ /\ stops[p] > 0 /\ at[p] \notin TryStages \ {"await"}
          /\ Ends(p, "off")
          /\ UNCHANGED log
    /\ UNCHANGED <<since, seen>>

(***************************************************************************)
(* Time, and tools/backfill_abandoned_historical.py                        *)
(***************************************************************************)
Tick ==
    /\ Live(Scheduled) => age[Scheduled] < Limit
    /\ \A p \in Manual : Live(p) => age[p] < ManualLimit
    /\ log' = [i \in DOMAIN log |->
                IF log[i].age > Retention THEN log[i] ELSE [log[i] EXCEPT !.age = @ + 1]]
    /\ age' = [p \in Proc |-> IF Live(p) THEN age[p] + 1 ELSE 0]
    /\ since' = IF since < Period THEN since + 1 ELSE since
    /\ UNCHANGED <<at, mine, stops, batch, seen, used>>

BackfillRead ==
    /\ seen = {}
    /\ Spend("backfills", MaxBackfills)
    /\ seen' = {i \in DOMAIN log : Open(log[i])}
    /\ UNCHANGED <<log, procVars, since>>

\* UPDATE ... WHERE id=?: whatever the row has become since it was read.
BackfillWrite ==
    /\ seen # {} /\ \A p \in Proc : batch[p] = 0
    /\ log' = [i \in DOMAIN log |->
                IF i \in seen
                THEN [log[i] EXCEPT !.errors = "historical", !.finished = TRUE]
                ELSE log[i]]
    /\ seen' = {}
    /\ UNCHANGED <<procVars, since, used>>

\* What the process does by itself.
Runs(p) ==
    \/ Reap(p) \/ Insert(p) \/ Context(p) \/ LoadFeeds(p) \/ Mark(p)
    \/ MarkPruned(p) \/ Awaited(p) \/ ProcessFeed(p) \/ Finish(p)

Next ==
    \/ \E p \in Proc : Runs(p) \/ StartByHand(p) \/ Crash(p) \/ Vanish(p) \/ CtrlC(p)
    \/ Trigger \/ Tick \/ BackfillRead \/ BackfillWrite

Spec == Init /\ [][Next]_vars

\* The machine stays on, the task scheduler starts the task, and a process
\* that may run does.  Nothing is assumed of a second operator.
FairSpec ==
    /\ Spec
    /\ WF_vars(Tick) /\ WF_vars(Trigger)
    /\ \A p \in Proc : WF_vars(Runs(p))

(***************************************************************************)
(* Properties                                                              *)
(***************************************************************************)
\* Every row, place, age and batch is of its type: in particular no run
\* processes more results than it has feeds.
TypeOK ==
    /\ DOMAIN log \subseteq RunId
    /\ \A i \in DOMAIN log : log[i] \in Row
    /\ at \in [Proc -> Places]
    /\ mine \in [Proc -> RunId \cup {NoRun}]
    /\ \A p \in Proc : mine[p] # NoRun => mine[p] \in DOMAIN log
    /\ age \in [Proc -> Nat]
    /\ stops \in [Proc -> 0 .. 1]
    /\ batch \in [Proc -> 0 .. Feeds]
    /\ since \in 0 .. Period
    /\ seen \subseteq DOMAIN log
    /\ used \in [{"faults", "manual", "stops", "backfills"} -> Nat]

\* The reaper takes a row from a live run only if that run has outlived the
\* threshold, by its own age and not by its row's: one that its limit keeps
\* under the threshold "cannot still be a live run" when it is reaped.
ReapedIsOverdue ==
    \A p \in Proc :
        Live(p) /\ mine[p] # NoRun /\ log[mine[p]].errors = "abandoned" => age[p] > Threshold

\* What the comment on _reap_abandoned_runs promises without that condition.
ReapedIsDead ==
    \A p \in Proc : Live(p) /\ mine[p] # NoRun => log[mine[p]].errors # "abandoned"

\* A row that reads as a completed run - finished, with no errors or with
\* per-feed ones - is of a run that passed every stage and committed the
\* results of every feed.
CleanMeansComplete ==
    \A i \in DOMAIN log :
        log[i].finished /\ log[i].errors \in {"none", "feeds"} =>
            log[i].stage = "complete" /\ log[i].kept = Feeds /\ log[i].counts = "full"

\* What run's docstring says of a crash: it leaves all or nothing of the
\* fetched results in the database.
AllOrNothing == \A i \in DOMAIN log : log[i].kept \in {0, Feeds}

\* A run the process did not survive, or that never left the await, has
\* left all or nothing: a rolled back batch leaves no trace.
KilledLeavesAllOrNothing ==
    \A i \in DOMAIN log :
        log[i].errors \notin {"traceback", "interrupted"} => log[i].kept \in {0, Feeds}

\* An outcome is written once, for all that live runs, their handlers and the
\* reaper do to one row: the "AND errors IS NULL" of the four updates.  The
\* one-off backfill alone writes without that guard.
OutcomeWrittenOnce ==
    [][\A i \in DOMAIN log \cap DOMAIN log' :
         log[i].errors # "none" => log'[i].errors \in {log[i].errors, "historical"}]_vars

\* Retention never deletes a run nobody has resolved, nor a live one's row.
PrunedIsResolved ==
    [][\A i \in DOMAIN log \ DOMAIN log' :
         ~Open(log[i]) /\ \A p \in Proc : Live(p) => mine[p] # i]_vars

Unresolved(i) == i \in DOMAIN log /\ Open(log[i])
Resolved(i) == i \in DOMAIN log /\ ~Open(log[i])

\* A process that ends by itself, not killed, has recorded how.  One that a
\* Ctrl+C cancels at the await of the fetch has not.
StopRecorded ==
    [][\A p \in Proc :
         Live(p) /\ at'[p] = "off" /\ mine[p] # NoRun => ~Open(log'[mine[p]])]_vars

\* A row that tools/backfill_abandoned_historical.py has marked is of no live
\* process: "known dead at the time this backfill ran".
BackfilledIsDead ==
    \A p \in Proc : Live(p) /\ mine[p] # NoRun => log[mine[p]].errors # "historical"

\* What tools/week1_check.py makes of a row: counts are there from the start
\* of the run, so every finished row is "clean".
Classify(r) ==
    CASE ~r.finished -> "hung"
      [] r.finished /\ r.counts # "none" -> "clean"
      [] r.finished /\ r.counts = "none" /\ r.errors = "interrupted" -> "interrupted"
      [] OTHER -> "crash"

\* What the comment on _classify says: stage_counts tells a clean run from
\* the exception paths.
ClassifyFaithful ==
    \A i \in DOMAIN log :
        Classify(log[i]) = "clean" => log[i].errors \in {"none", "feeds"}

\* However a run ends, it or a later run's reaper gives its row an outcome:
\* the log of a machine that keeps running has no permanent unknowns.
EventuallyResolved ==
    \A i \in RunId : [](Unresolved(i) => <>Resolved(i))
=============================================================================
