---------------------------- MODULE RunLogProofs ----------------------------
(***************************************************************************)
(* Proofs about RunLog, for every number of feeds, runs, operators and     *)
(* every length of the four durations.                                     *)
(***************************************************************************)
EXTENDS RunLog, TLAPS

(***************************************************************************)
(* Rows                                                                    *)
(***************************************************************************)
\* What the handlers and the completion write is a row, and only the guard
\* lets an outcome in: a row that has one keeps it.
LEMMA OutcomeRow ==
    ASSUME NEW r \in Row, NEW n \in 0 .. Feeds, NEW e \in Errors
    PROVE  /\ Outcome(r, n, e) \in Row
           /\ Outcome(r, n, e).age = r.age
           /\ Outcome(r, n, e).errors \in {r.errors, e}
           /\ r.errors # "none" => Outcome(r, n, e).errors = r.errors
BY DEF Outcome, Row

\* A mark changes neither the age nor the outcome of a row.
LEMMA MarkedRow ==
    ASSUME NEW r \in Row, NEW n \in 0 .. Feeds,
           NEW s \in TryStages \cup {"started", "config_loaded"}
    PROVE  /\ Marked(r, s, n) \in Row
           /\ Marked(r, s, n).age = r.age
           /\ Marked(r, s, n).errors = r.errors
BY DEF Marked, Row

\* The rows of log keep their type.
RowsOK == DOMAIN log \subseteq RunId /\ \A i \in DOMAIN log : log[i] \in Row

\* Each step of p rewrites the row of p alone, or nothing: what WithRow
\* leaves of the log, for any new row of the right type and age.
Rewrites(p, e) ==
    /\ DOMAIN log' = DOMAIN log
    /\ \A i \in DOMAIN log :
        /\ log'[i] \in Row
        /\ log'[i].age = log[i].age
        /\ log'[i].errors \in {log[i].errors, e}
        /\ log[i].errors # "none" => log'[i].errors = log[i].errors

\* The handlers' update is such a rewrite.
LEMMA RewritesByOutcome ==
    ASSUME RowsOK, NEW p \in Proc, NEW n \in 0 .. Feeds, NEW e \in Errors,
           WithRow(p, LAMBDA r : Outcome(r, n, e))
    PROVE  Rewrites(p, e)
BY OutcomeRow DEF WithRow, Rewrites, RowsOK

\* A mark, with what it commits, writes no outcome.
LEMMA RewritesByMark ==
    ASSUME RowsOK, NEW p \in Proc, NEW n \in 0 .. Feeds,
           NEW s \in TryStages \cup {"started", "config_loaded"},
           WithRow(p, LAMBDA r : Marked(r, s, n))
    PROVE  Rewrites(p, "none")
BY MarkedRow DEF WithRow, Rewrites, RowsOK

\* The completion merges the counts into a row without an outcome.
LEMMA RewritesByFinish ==
    ASSUME RowsOK, NEW p \in Proc, NEW e \in {"none", "feeds"},
           WithRow(p, LAMBDA r : IF r.errors = "none"
                                 THEN [Outcome(r, 0, e) EXCEPT !.counts = "full"]
                                 ELSE Outcome(r, 0, e))
    PROVE  Rewrites(p, e)
<1>1. 0 \in 0 .. Feeds /\ e \in Errors
  BY CountAssumption DEF Errors
<1>2. ASSUME NEW r \in Row
      PROVE  /\ [Outcome(r, 0, e) EXCEPT !.counts = "full"] \in Row
             /\ [Outcome(r, 0, e) EXCEPT !.counts = "full"].age = r.age
             /\ [Outcome(r, 0, e) EXCEPT !.counts = "full"].errors = Outcome(r, 0, e).errors
  <2>1. Outcome(r, 0, e) \in Row /\ Outcome(r, 0, e).age = r.age
    BY <1>1, OutcomeRow
  <2> QED
    BY <2>1 DEF Row
<1>3. ASSUME NEW r \in Row
      PROVE  /\ Outcome(r, 0, e) \in Row
             /\ Outcome(r, 0, e).age = r.age
             /\ Outcome(r, 0, e).errors \in {r.errors, e}
             /\ r.errors # "none" => Outcome(r, 0, e).errors = r.errors
  BY <1>1, OutcomeRow
<1> QED
  BY <1>2, <1>3 DEF WithRow, Rewrites, RowsOK

(***************************************************************************)
(* The type invariant                                                      *)
(***************************************************************************)
ProcsOK ==
    /\ at \in [Proc -> Places]
    /\ mine \in [Proc -> RunId \cup {NoRun}]
    /\ age \in [Proc -> Nat]
    /\ stops \in [Proc -> 0 .. 1]
    /\ batch \in [Proc -> 0 .. Feeds]

MineOK == \A p \in Proc : mine[p] # NoRun => mine[p] \in DOMAIN log

RestOK ==
    /\ since \in 0 .. Period
    /\ seen \subseteq DOMAIN log
    /\ used \in [{"faults", "manual", "stops", "backfills"} -> Nat]

\* The conjuncts of TypeOK, grouped by what the steps change together.
LEMMA TypeParts ==
    /\ TypeOK <=> RowsOK /\ ProcsOK /\ MineOK /\ RestOK
    /\ TypeOK' <=> RowsOK' /\ ProcsOK' /\ MineOK' /\ RestOK'
BY DEF TypeOK, RowsOK, ProcsOK, MineOK, RestOK

\* Moving on to another place keeps the types of the processes.
LEMMA GoesOK ==
    ASSUME ProcsOK, NEW p \in Proc, NEW where \in Places, Goes(p, where)
    PROVE  ProcsOK' /\ mine' = mine
BY DEF ProcsOK, Goes

\* So does ending, which lets go of the row.
LEMMA EndsOK ==
    ASSUME ProcsOK, NEW p \in Proc, NEW where \in Idle, Ends(p, where)
    PROVE  ProcsOK' /\ \A q \in Proc : mine'[q] \in {mine[q], NoRun}
BY CountAssumption DEF ProcsOK, Ends, Places

\* A log that has the rows it had, and processes that have no new row.
LEMMA SameRows ==
    ASSUME MineOK, DOMAIN log' = DOMAIN log,
           \A q \in Proc : mine'[q] \in {mine[q], NoRun}
    PROVE  MineOK'
BY DEF MineOK

\* Spending keeps the count of what is spent, for each of the bounds.
LEMMA SpendOK ==
    ASSUME RestOK, NEW what \in {"faults", "manual", "stops", "backfills"}, NEW bound,
           Spend(what, bound)
    PROVE  used' \in [{"faults", "manual", "stops", "backfills"} -> Nat]
BY DEF Spend, RestOK

\* An except clause keeps the type invariant, wherever it is entered.
LEMMA HandlerOK ==
    ASSUME RowsOK, ProcsOK, MineOK, NEW p \in Proc, NEW e \in Errors, Handler(p, e)
    PROVE  RowsOK' /\ ProcsOK' /\ MineOK' /\ DOMAIN log' = DOMAIN log /\ Rewrites(p, e)
<1>1. batch[p] \in 0 .. Feeds
  BY DEF ProcsOK
<1>2. Rewrites(p, e)
  BY <1>1, RewritesByOutcome DEF Handler
<1>3. RowsOK'
  BY <1>2 DEF Rewrites, RowsOK
<1>4. ProcsOK' /\ \A q \in Proc : mine'[q] \in {mine[q], NoRun}
  <2>1. CASE Goes(p, "finish")
    BY <2>1, GoesOK DEF Places
  <2>2. CASE Ends(p, "off")
    BY <2>2, EndsOK DEF Idle
  <2> QED
    BY <2>1, <2>2 DEF Handler
<1> QED
  BY <1>2, <1>3, <1>4, SameRows DEF Rewrites

\* What a process does by itself keeps the type invariant.
LEMMA RunsOK ==
    ASSUME TypeOK, NEW p \in Proc, Runs(p)
    PROVE  TypeOK'
<1> USE TypeParts
<1>1. CASE Reap(p)
  <2>1. RowsOK' /\ DOMAIN log' = DOMAIN log
    <3>1. /\ DOMAIN log' = DOMAIN log
          /\ \A i \in DOMAIN log :
               log'[i] \in {log[i], [log[i] EXCEPT !.errors = "abandoned", !.finished = TRUE]}
      BY <1>1 DEF Reap
    <3>2. ASSUME NEW i \in DOMAIN log  PROVE log'[i] \in Row
      <4>1. log[i] \in Row
        BY DEF RowsOK
      <4>2. [log[i] EXCEPT !.errors = "abandoned", !.finished = TRUE] \in Row
        BY <4>1 DEF Row, Errors
      <4> QED
        BY <3>1, <4>1, <4>2
    <3> QED
      BY <3>1, <3>2 DEF RowsOK
  <2>2. ProcsOK' /\ mine' = mine
    BY <1>1, GoesOK DEF Reap, Places
  <2> QED
    BY <1>1, <2>1, <2>2 DEF Reap, MineOK, RestOK
<1>2. CASE Insert(p)
  <2> PICK i \in RunId \ DOMAIN log :
        /\ log' = [j \in DOMAIN log \cup {i} |->
                    IF j = i THEN [age |-> 0, finished |-> FALSE, errors |-> "none",
                                   counts |-> "none", stage |-> "started", kept |-> 0]
                             ELSE log[j]]
        /\ mine' = [mine EXCEPT ![p] = i]
    BY <1>2 DEF Insert
  <2>1. RowsOK'
    BY CountAssumption DEF RowsOK, Row, Errors
  <2>2. ProcsOK'
    BY <1>2 DEF Insert, ProcsOK, Places
  <2>3. MineOK' /\ RestOK'
    BY <1>2 DEF Insert, MineOK, RestOK, ProcsOK
  <2> QED
    BY <2>1, <2>2, <2>3
<1>3. CASE Context(p)
  <2>1. RowsOK' /\ DOMAIN log' = DOMAIN log
    BY <1>3 DEF Context, WithRow, RowsOK, Row
  <2>2. ProcsOK' /\ mine' = mine
    BY <1>3, GoesOK DEF Context, Places
  <2> QED
    BY <1>3, <2>1, <2>2 DEF Context, MineOK, RestOK
<1>4. CASE LoadFeeds(p)
  <2>1. CASE Goes(p, "config_loaded") /\ UNCHANGED <<log, used>>
    <3>1. ProcsOK' /\ mine' = mine
      BY <2>1, GoesOK DEF Places
    <3> QED
      BY <1>4, <2>1, <3>1 DEF LoadFeeds, RowsOK, MineOK, RestOK
  <2>2. CASE /\ Spend("faults", MaxFaults)
             /\ WithRow(p, LAMBDA r : Outcome(r, 0, "fatal"))
             /\ Ends(p, "off")
    <3> 0 \in 0 .. Feeds /\ "fatal" \in Errors
      BY CountAssumption DEF Errors
    <3>1. Rewrites(p, "fatal")
      BY <2>2, RewritesByOutcome
    <3>2. ProcsOK' /\ \A q \in Proc : mine'[q] \in {mine[q], NoRun}
      BY <2>2, EndsOK DEF Idle
    <3>3. RestOK'
      BY <1>4, <2>2, <3>1, SpendOK DEF LoadFeeds, RestOK, Rewrites
    <3> QED
      BY <3>1, <3>2, <3>3, SameRows DEF Rewrites, RowsOK
  <2> QED
    BY <1>4, <2>1, <2>2 DEF LoadFeeds
<1>5. CASE Mark(p)
  <2>1. batch[p] \in 0 .. Feeds
    BY DEF ProcsOK
  <2>2. at[p] \in TryStages \cup {"started", "config_loaded"} /\ After[at[p]] \in Places
    BY <1>5 DEF Mark, After, TryStages, Places
  <2>3. Rewrites(p, "none")
    BY <1>5, <2>1, <2>2, RewritesByMark DEF Mark
  <2>4. ProcsOK' /\ mine' = mine
    BY <1>5, <2>2, CountAssumption DEF Mark, ProcsOK
  <2> QED
    BY <1>5, <2>3, <2>4 DEF Mark, Rewrites, RowsOK, MineOK, RestOK
<1>6. CASE MarkPruned(p)
  <2> DEFINE old == {i \in DOMAIN log : Prunable(log[i])}
  <2>1. DOMAIN log' = DOMAIN log \ old
    BY <1>6 DEF MarkPruned
  <2>2. RowsOK'
    BY <1>6, <2>1 DEF MarkPruned, RowsOK, Row, TryStages
  <2>3. mine' = [q \in Proc |-> IF mine[q] \in old THEN NoRun ELSE mine[q]]
    BY <1>6 DEF MarkPruned
  <2>4. ProcsOK'
    BY <1>6, <2>3 DEF MarkPruned, ProcsOK, Places, TryStages
  <2>5. MineOK' /\ RestOK'
    BY <1>6, <2>1, <2>3 DEF MarkPruned, MineOK, RestOK, ProcsOK
  <2> QED
    BY <2>2, <2>4, <2>5
<1>7. CASE Awaited(p)
  <2>1. ProcsOK' /\ \A q \in Proc : mine'[q] \in {mine[q], NoRun}
    <3>1. CASE Goes(p, "fetch_complete")
      BY <3>1, GoesOK DEF Places, TryStages
    <3>2. CASE Ends(p, "off")
      BY <3>2, EndsOK DEF Idle
    <3> QED
      BY <1>7, <3>1, <3>2 DEF Awaited
  <2> QED
    BY <1>7, <2>1, SameRows DEF Awaited, RowsOK, RestOK
<1>8. CASE ProcessFeed(p)
  <2>1. ProcsOK'
    BY <1>8, CountAssumption DEF ProcessFeed, ProcsOK
  <2> QED
    BY <1>8, <2>1 DEF ProcessFeed, RowsOK, MineOK, RestOK
<1>9. CASE Finish(p)
  <2>1. Rewrites(p, "none") \/ Rewrites(p, "feeds")
    BY <1>9, RewritesByFinish DEF Finish
  <2>2. RowsOK' /\ DOMAIN log' = DOMAIN log
    BY <2>1 DEF Rewrites, RowsOK
  <2>3. ProcsOK' /\ \A q \in Proc : mine'[q] \in {mine[q], NoRun}
    BY <1>9, EndsOK DEF Finish, Idle
  <2> QED
    BY <1>9, <2>2, <2>3, SameRows DEF Finish, RestOK
<1> QED
  BY <1>1, <1>2, <1>3, <1>4, <1>5, <1>6, <1>7, <1>8, <1>9 DEF Runs

\* What a process goes through, and what the operator starts, stops or
\* kills, keeps the type invariant.
LEMMA EndingOK ==
    ASSUME TypeOK, NEW p \in Proc,
           StartByHand(p) \/ Crash(p) \/ Vanish(p) \/ CtrlC(p)
    PROVE  TypeOK'
<1> USE TypeParts
<1>1. CASE StartByHand(p)
  <2>1. used' \in [{"faults", "manual", "stops", "backfills"} -> Nat]
    BY <1>1, SpendOK DEF StartByHand
  <2> QED
    BY <1>1, <2>1 DEF StartByHand, Starts, RowsOK, ProcsOK, MineOK, RestOK, Places
<1>2. CASE Crash(p)
  <2>1. RowsOK' /\ ProcsOK' /\ MineOK' /\ DOMAIN log' = DOMAIN log
    BY <1>2, HandlerOK DEF Crash, Errors
  <2>2. used' \in [{"faults", "manual", "stops", "backfills"} -> Nat]
    BY <1>2, SpendOK DEF Crash
  <2> QED
    BY <1>2, <2>1, <2>2 DEF Crash, RestOK
<1>3. CASE Vanish(p)
  <2>1. ProcsOK' /\ \A q \in Proc : mine'[q] \in {mine[q], NoRun}
    BY <1>3, EndsOK DEF Vanish, Idle
  <2>2. used' \in [{"faults", "manual", "stops", "backfills"} -> Nat]
    BY <1>3, SpendOK DEF Vanish
  <2> QED
    BY <1>3, <2>1, <2>2, SameRows DEF Vanish, RowsOK, RestOK
<1>4. CASE CtrlC(p)
  <2>1. used' \in [{"faults", "manual", "stops", "backfills"} -> Nat]
    BY <1>4, SpendOK DEF CtrlC
  <2>2. since' = since /\ seen' = seen
    BY <1>4 DEF CtrlC
  <2>3. CASE /\ stops' = [stops EXCEPT ![p] = 1]
             /\ UNCHANGED <<log, at, mine, age, batch>>
    BY <2>1, <2>2, <2>3 DEF RowsOK, ProcsOK, MineOK, RestOK
  <2>4. CASE Handler(p, "interrupted")
    BY <2>1, <2>2, <2>4, HandlerOK DEF Errors, RestOK
  <2>5. CASE Ends(p, "off") /\ UNCHANGED log
    <3>1. ProcsOK' /\ \A q \in Proc : mine'[q] \in {mine[q], NoRun}
      BY <2>5, EndsOK DEF Idle
    <3> QED
      BY <2>1, <2>2, <2>5, <3>1, SameRows DEF RowsOK, RestOK
  <2> QED
    BY <1>4, <2>3, <2>4, <2>5 DEF CtrlC
<1> QED
  BY <1>1, <1>2, <1>3, <1>4

\* So do the steps of the scheduler, the clock and the backfill.
LEMMA WorldOK ==
    ASSUME TypeOK, Trigger \/ Tick \/ BackfillRead \/ BackfillWrite
    PROVE  TypeOK'
<1> USE TypeParts
<1>1. CASE Trigger
  <2>1. since' \in 0 .. Period /\ used' = used
    BY <1>1, TimeAssumption DEF Trigger
  <2>2. RowsOK' /\ MineOK' /\ seen' = seen /\ log' = log
    BY <1>1 DEF Trigger, procVars, Starts, RowsOK, MineOK
  <2>3. ProcsOK'
    BY <1>1 DEF Trigger, procVars, Starts, ProcsOK, Places
  <2> QED
    BY <2>1, <2>2, <2>3 DEF RestOK
<1>2. CASE Tick
  <2>1. RowsOK' /\ DOMAIN log' = DOMAIN log
    BY <1>2 DEF Tick, RowsOK, Row
  <2>2. since' \in 0 .. Period
    BY <1>2, TimeAssumption DEF Tick, RestOK
  <2>3. ProcsOK'
    BY <1>2 DEF Tick, ProcsOK
  <2> QED
    BY <1>2, <2>1, <2>2, <2>3 DEF Tick, MineOK, RestOK
<1>3. CASE BackfillRead
  <2>1. used' \in [{"faults", "manual", "stops", "backfills"} -> Nat]
    BY <1>3, SpendOK DEF BackfillRead
  <2> QED
    BY <1>3, <2>1 DEF BackfillRead, procVars, RowsOK, ProcsOK, MineOK, RestOK
<1>4. CASE BackfillWrite
  <2>1. DOMAIN log' = DOMAIN log
    BY <1>4 DEF BackfillWrite
  <2>2. ASSUME NEW r \in Row
        PROVE  [r EXCEPT !.errors = "historical", !.finished = TRUE] \in Row
    BY DEF Row, Errors
  <2>3. RowsOK'
    BY <1>4, <2>1, <2>2 DEF BackfillWrite, RowsOK
  <2> QED
    BY <1>4, <2>1, <2>3 DEF BackfillWrite, procVars, ProcsOK, MineOK, RestOK
<1> QED
  BY <1>1, <1>2, <1>3, <1>4

\* The type invariant holds initially.
LEMMA TypeInit == Init => TypeOK
BY CountAssumption, TimeAssumption DEF Init, TypeOK, Places, Idle

\* No step breaks the type invariant.
LEMMA TypeStep == TypeOK /\ [Next]_vars => TypeOK'
<1> SUFFICES ASSUME TypeOK, [Next]_vars PROVE TypeOK'
  OBVIOUS
<1>1. ASSUME NEW p \in Proc, Runs(p) PROVE TypeOK'
  BY <1>1, RunsOK
<1>2. ASSUME NEW p \in Proc, StartByHand(p) \/ Crash(p) \/ Vanish(p) \/ CtrlC(p)
      PROVE  TypeOK'
  BY <1>2, EndingOK
<1>3. CASE Trigger \/ Tick \/ BackfillRead \/ BackfillWrite
  BY <1>3, WorldOK
<1>4. CASE UNCHANGED vars
  BY <1>4 DEF vars, procVars, TypeOK
<1> QED
  BY <1>1, <1>2, <1>3, <1>4 DEF Next

\* Rows, places, ages and batches keep their types: no run holds the results
\* of more feeds than it has, whatever kills, exceptions and keystrokes.
THEOREM TypeCorrect == Spec => []TypeOK
BY TypeInit, TypeStep, PTL DEF Spec

(***************************************************************************)
(* The reaper                                                              *)
(***************************************************************************)
\* The inductive invariant.  ReapedIsOverdue alone is not inductive: the
\* reaper knows the age of a row and not who writes to it, so the proof carries
\* that a row is no older than its process, and a process than its limit.
InTime ==
    \A p \in Proc :
        /\ ~Live(p) => age[p] = 0 /\ mine[p] = NoRun
        /\ age[p] <= IF p = Scheduled THEN Limit ELSE ManualLimit
        /\ mine[p] # NoRun => log[mine[p]].age <= age[p]
        /\ mine[p] # NoRun /\ log[mine[p]].errors = "abandoned" => age[p] > Threshold

\* Nothing that p records in its own row can be "abandoned".
LEMMA InTimeByGoes ==
    ASSUME TypeOK, InTime, NEW p \in Proc, NEW where \in Places \ Idle, Live(p),
           Goes(p, where),
           \A i \in DOMAIN log : log'[i].age = log[i].age,
           \A i \in DOMAIN log : log'[i].errors = "abandoned" =>
                log[i].errors = "abandoned" \/ log[i].age > Threshold
    PROVE  InTime'
<1>1. age' = age /\ mine' = mine
  BY DEF Goes
<1>2. \A q \in Proc : Live(q)' = Live(q)
  BY DEF TypeOK, Goes, Live
<1>3. \A q \in Proc : age[q] \in Nat
  BY DEF TypeOK
<1>4. \A q \in Proc : mine[q] # NoRun =>
        mine[q] \in DOMAIN log /\ log[mine[q]].age \in Nat
  BY DEF TypeOK, Row
<1>5. \A q \in Proc : mine[q] # NoRun /\ log[mine[q]].age > Threshold => age[q] > Threshold
  BY <1>3, <1>4, TimeAssumption DEF InTime
<1> QED
  BY <1>1, <1>2, <1>4, <1>5 DEF InTime

\* Nor does letting go of it, dead or alive, disturb another process's row.
LEMMA InTimeByEnds ==
    ASSUME TypeOK, InTime, NEW p \in Proc, NEW where \in Idle, Ends(p, where),
           \A i \in DOMAIN log :
               /\ log'[i].age = log[i].age
               /\ log'[i].errors = "abandoned" => log[i].errors = "abandoned"
    PROVE  InTime'
<1>1. age'[p] = 0 /\ mine'[p] = NoRun
  BY DEF TypeOK, Ends
<1>2. ASSUME NEW q \in Proc, q # p
      PROVE  age'[q] = age[q] /\ mine'[q] = mine[q] /\ at'[q] = at[q]
  BY <1>2 DEF TypeOK, Ends
<1>3. \A q \in Proc : mine[q] # NoRun => mine[q] \in DOMAIN log
  BY DEF TypeOK
<1>4. ASSUME NEW q \in Proc, q # p
      PROVE  /\ ~Live(q)' => age'[q] = 0 /\ mine'[q] = NoRun
             /\ age'[q] <= IF q = Scheduled THEN Limit ELSE ManualLimit
             /\ mine'[q] # NoRun => log'[mine'[q]].age <= age'[q]
             /\ mine'[q] # NoRun /\ log'[mine'[q]].errors = "abandoned" => age'[q] > Threshold
  BY <1>2, <1>3, <1>4 DEF InTime, Live
<1> QED
  BY <1>1, <1>4, TimeAssumption DEF InTime

\* A start leaves every age and row, and the process has no row yet.
LEMMA StartsInTime ==
    ASSUME TypeOK, InTime, NEW p \in Proc, Starts(p)
    PROVE  InTime'
BY DEF TypeOK, Starts, InTime, Live

\* What a process does by itself keeps InTime.
LEMMA RunsInTime ==
    ASSUME TypeOK, TypeOK', InTime, NEW p \in Proc, Runs(p)
    PROVE  InTime'
<1> USE DEF Idle
<1>1. CASE Reap(p)
  <2>1. Live(p) /\ Goes(p, "insert") /\ "insert" \in Places \ Idle
    BY <1>1 DEF Reap, Live, Places
  <2>2. ASSUME NEW i \in DOMAIN log
        PROVE  /\ log'[i].age = log[i].age
               /\ log'[i].errors = "abandoned" =>
                     log[i].errors = "abandoned" \/ log[i].age > Threshold
    <3>1. log[i] \in Row
      BY DEF TypeOK
    <3>2. CASE Reapable(log[i])
      <4>1. log'[i] = [log[i] EXCEPT !.errors = "abandoned", !.finished = TRUE]
        BY <1>1, <3>2 DEF Reap
      <4> QED
        BY <3>1, <3>2, <4>1 DEF Reapable, Row
    <3>3. CASE ~Reapable(log[i])
      BY <1>1, <3>3 DEF Reap
    <3> QED
      BY <3>2, <3>3
  <2> QED
    BY <2>1, <2>2, InTimeByGoes
<1>2. CASE Insert(p)
  <2> PICK i \in RunId \ DOMAIN log :
        /\ log' = [j \in DOMAIN log \cup {i} |->
                    IF j = i THEN [age |-> 0, finished |-> FALSE, errors |-> "none",
                                   counts |-> "none", stage |-> "started", kept |-> 0]
                             ELSE log[j]]
        /\ mine' = [mine EXCEPT ![p] = i]
    BY <1>2 DEF Insert
  <2>1. age' = age /\ at' = [at EXCEPT ![p] = "context"]
    BY <1>2 DEF Insert
  <2>2. ASSUME NEW q \in Proc, q # p
        PROVE  mine'[q] = mine[q] /\ at'[q] = at[q] /\ (mine[q] # NoRun => log'[mine[q]] = log[mine[q]])
    BY <2>1, <2>2 DEF TypeOK
  <2>3. mine'[p] = i /\ log'[i].age = 0 /\ log'[i].errors = "none" /\ at'[p] = "context"
    BY <2>1 DEF TypeOK
  <2> DEFINE Fine(q) ==
        /\ ~Live(q)' => age'[q] = 0 /\ mine'[q] = NoRun
        /\ age'[q] <= IF q = Scheduled THEN Limit ELSE ManualLimit
        /\ mine'[q] # NoRun => log'[mine'[q]].age <= age'[q]
        /\ mine'[q] # NoRun /\ log'[mine'[q]].errors = "abandoned" => age'[q] > Threshold
  <2>4. Fine(p)
    <3>1. age[p] \in Nat
      BY DEF TypeOK
    <3> QED
      BY <2>1, <2>3, <3>1 DEF InTime, Live
  <2>5. ASSUME NEW q \in Proc, q # p PROVE Fine(q)
    <3>1. mine'[q] = mine[q] /\ at'[q] = at[q] /\ age'[q] = age[q]
      BY <2>1, <2>2, <2>5
    <3>2. mine[q] # NoRun => log'[mine[q]] = log[mine[q]]
      BY <2>2, <2>5
    <3> QED
      BY <3>1, <3>2 DEF InTime, Live
  <2> QED
    BY <2>4, <2>5 DEF InTime
<1>3. CASE Context(p)
  <2>1. Live(p) /\ Goes(p, "load") /\ "load" \in Places \ Idle
    BY <1>3 DEF Context, Live, Places
  <2>2. \A i \in DOMAIN log :
          log'[i].age = log[i].age /\ log'[i].errors = log[i].errors
    BY <1>3 DEF Context, WithRow, TypeOK, Row
  <2> QED
    BY <2>1, <2>2, InTimeByGoes
<1>4. CASE LoadFeeds(p)
  <2>1. CASE Goes(p, "config_loaded") /\ log' = log
    <3>1. Live(p) /\ "config_loaded" \in Places \ Idle
      BY <1>4 DEF LoadFeeds, Live, Places
    <3> QED
      BY <2>1, <3>1, InTimeByGoes
  <2>2. CASE WithRow(p, LAMBDA r : Outcome(r, 0, "fatal")) /\ Ends(p, "off")
    <3> 0 \in 0 .. Feeds /\ "fatal" \in Errors
      BY CountAssumption DEF Errors
    <3>1. Rewrites(p, "fatal")
      BY <2>2, TypeParts, RewritesByOutcome
    <3> QED
      BY <2>2, <3>1, InTimeByEnds DEF Rewrites
  <2> QED
    BY <1>4, <2>1, <2>2 DEF LoadFeeds
<1>5. CASE Mark(p)
  <2>1. /\ at[p] \in TryStages \cup {"started", "config_loaded"} /\ batch[p] \in 0 .. Feeds
        /\ After[at[p]] \in Places \ Idle /\ Live(p)
    BY <1>5 DEF Mark, After, TryStages, Places, Live, TypeOK
  <2>2. Rewrites(p, "none")
    BY <1>5, <2>1, TypeParts, RewritesByMark DEF Mark
  <2>3. age' = age /\ mine' = mine /\ \A q \in Proc : Live(q)' = Live(q)
    BY <1>5, <2>1 DEF Mark, TypeOK, Live
  <2> QED
    BY <2>2, <2>3 DEF Rewrites, InTime, TypeOK
<1>6. CASE MarkPruned(p)
  <2>1. age' = age /\ \A q \in Proc : Live(q)' = Live(q) /\ mine'[q] \in {mine[q], NoRun}
    BY <1>6 DEF MarkPruned, Live, TypeOK
  <2>2. \A q \in Proc : mine'[q] # NoRun =>
          /\ mine'[q] = mine[q]
          /\ log'[mine[q]].age = log[mine[q]].age
          /\ log'[mine[q]].errors = log[mine[q]].errors
    BY <1>6 DEF MarkPruned, TypeOK, Row
  <2> QED
    BY <2>1, <2>2 DEF InTime
<1>7. CASE Awaited(p)
  <2>1. Live(p) /\ "fetch_complete" \in Places \ Idle /\ log' = log
    BY <1>7 DEF Awaited, Live, Places, TryStages
  <2>2. Goes(p, "fetch_complete") \/ Ends(p, "off")
    BY <1>7 DEF Awaited
  <2> QED
    BY <2>1, <2>2, InTimeByGoes, InTimeByEnds
<1>8. CASE ProcessFeed(p)
  BY <1>8 DEF ProcessFeed, InTime, Live
<1>9. CASE Finish(p)
  <2>1. Rewrites(p, "none") \/ Rewrites(p, "feeds")
    BY <1>9, TypeParts, RewritesByFinish DEF Finish
  <2>2. Ends(p, "off")
    BY <1>9 DEF Finish
  <2> QED
    BY <2>1, <2>2, InTimeByEnds DEF Rewrites
<1> QED
  BY <1>1, <1>2, <1>3, <1>4, <1>5, <1>6, <1>7, <1>8, <1>9 DEF Runs

\* A death, an exception, a keystroke or a start keeps InTime.
LEMMA EndingInTime ==
    ASSUME TypeOK, InTime, NEW p \in Proc,
           StartByHand(p) \/ Crash(p) \/ Vanish(p) \/ CtrlC(p)
    PROVE  InTime'
<1> USE DEF Idle
<1>1. CASE StartByHand(p)
  BY <1>1, StartsInTime DEF StartByHand
<1>2. ASSUME NEW e \in Errors \ {"abandoned"}, Handler(p, e), Live(p)
      PROVE  InTime'
  <2>1. Rewrites(p, e)
    BY <1>2, TypeParts, HandlerOK
  <2>2. Goes(p, "finish") \/ Ends(p, "off")
    BY <1>2 DEF Handler
  <2>3. "finish" \in Places \ Idle
    BY DEF Places
  <2> QED
    BY <1>2, <2>1, <2>2, <2>3, InTimeByGoes, InTimeByEnds DEF Rewrites
<1>3. CASE Crash(p)
  <2>1. Live(p) /\ Handler(p, "traceback")
    BY <1>3 DEF Crash, Live, TryStages
  <2> QED
    BY <1>2, <2>1 DEF Errors
<1>4. CASE Vanish(p)
  BY <1>4, InTimeByEnds DEF Vanish
<1>5. CASE CtrlC(p)
  <2>1. CASE UNCHANGED <<log, at, mine, age, batch>>
    BY <2>1 DEF InTime, Live
  <2>2. CASE Handler(p, "interrupted")
    BY <1>2, <1>5, <2>2 DEF CtrlC, Errors
  <2>3. CASE Ends(p, "off") /\ UNCHANGED log
    BY <2>3, InTimeByEnds
  <2> QED
    BY <1>5, <2>1, <2>2, <2>3 DEF CtrlC
<1> QED
  BY <1>1, <1>3, <1>4, <1>5

\* So do the scheduler, the clock and the backfill: only the clock ages a
\* row, and it ages the row's process as much.
LEMMA WorldInTime ==
    ASSUME TypeOK, InTime, Trigger \/ Tick \/ BackfillRead \/ BackfillWrite
    PROVE  InTime'
<1>1. CASE Trigger
  <2>1. CASE Live(Scheduled)
    BY <1>1, <2>1 DEF Trigger, procVars, InTime, Live
  <2>2. CASE ~Live(Scheduled)
    BY <1>1, <2>2, StartsInTime DEF Trigger, Proc
  <2> QED
    BY <2>1, <2>2
<1>2. CASE Tick
  <2>1. at' = at /\ mine' = mine
    BY <1>2 DEF Tick
  <2>2. ASSUME NEW q \in Proc, mine[q] # NoRun
        PROVE  /\ log'[mine[q]].age <= age'[q]
               /\ log'[mine[q]].errors = log[mine[q]].errors
    <3>1. mine[q] \in DOMAIN log /\ log[mine[q]] \in Row /\ age[q] \in Nat
      BY <2>2 DEF TypeOK
    <3>2. Live(q) /\ log[mine[q]].age <= age[q]
      BY <2>2 DEF InTime
    <3>3. age'[q] = age[q] + 1
      BY <1>2, <3>2 DEF Tick
    <3>4. log'[mine[q]] = log[mine[q]] \/ log'[mine[q]] = [log[mine[q]] EXCEPT !.age = @ + 1]
      BY <1>2, <3>1 DEF Tick
    <3> QED
      BY <3>1, <3>2, <3>3, <3>4 DEF Row
  <2>3. ASSUME NEW q \in Proc
        PROVE  /\ ~Live(q) => age'[q] = 0
               /\ age'[q] <= IF q = Scheduled THEN Limit ELSE ManualLimit
    <3>1. age[q] \in Nat
      BY DEF TypeOK
    <3> QED
      BY <1>2, <3>1, TimeAssumption DEF Tick, InTime, Proc
  <2> QED
    <3>1. ASSUME NEW q \in Proc, mine[q] # NoRun, log'[mine[q]].errors = "abandoned"
          PROVE  age'[q] > Threshold
      <4>1. age[q] \in Nat /\ Live(q) /\ age[q] > Threshold
        BY <2>2, <3>1 DEF InTime, TypeOK
      <4> QED
        BY <1>2, <4>1, TimeAssumption DEF Tick
    <3> QED
      BY <2>1, <2>2, <2>3, <3>1 DEF InTime, Live
<1>3. CASE BackfillRead
  BY <1>3 DEF BackfillRead, procVars, InTime, Live
<1>4. CASE BackfillWrite
  <2>1. ASSUME NEW i \in DOMAIN log
        PROVE  log'[i].age = log[i].age /\ log'[i].errors \in {log[i].errors, "historical"}
    BY <1>4 DEF BackfillWrite, TypeOK, Row
  <2> QED
    BY <1>4, <2>1 DEF BackfillWrite, procVars, InTime, Live, TypeOK
<1> QED
  BY <1>1, <1>2, <1>3, <1>4

\* InTime holds throughout.
LEMMA AlwaysInTime == Spec => []InTime
<1>1. Init => InTime
  BY TimeAssumption DEF Init, InTime, Proc
<1>2. TypeOK /\ TypeOK' /\ InTime /\ [Next]_vars => InTime'
  <2> SUFFICES ASSUME TypeOK, TypeOK', InTime, [Next]_vars PROVE InTime'
    OBVIOUS
  <2>1. ASSUME NEW p \in Proc, Runs(p) PROVE InTime'
    BY <2>1, RunsInTime
  <2>2. ASSUME NEW p \in Proc, StartByHand(p) \/ Crash(p) \/ Vanish(p) \/ CtrlC(p)
        PROVE  InTime'
    BY <2>2, EndingInTime
  <2>3. CASE Trigger \/ Tick \/ BackfillRead \/ BackfillWrite
    BY <2>3, WorldInTime
  <2>4. CASE UNCHANGED vars
    BY <2>4 DEF vars, procVars, InTime, Live
  <2> QED
    BY <2>1, <2>2, <2>3, <2>4 DEF Next
<1> QED
  BY <1>1, <1>2, TypeCorrect, PTL DEF Spec

\* The reaper takes a live run's row only when that run itself has outlived
\* the threshold, at any length of the limits and of the threshold: the
\* comparison of a row's started_at stands for the age of its run.
THEOREM ReaperSparesYoungRuns == Spec => []ReapedIsOverdue
<1>1. InTime => ReapedIsOverdue
  BY DEF InTime, ReapedIsOverdue
<1> QED
  BY <1>1, AlwaysInTime, PTL

\* What the code assumes of its runs: none outlives the threshold.
Bounded == Limit <= Threshold /\ ManualLimit <= Threshold

\* When no run outlives the threshold, the reaper takes no live run's row:
\* "cannot still be a live run" is a consequence of the limits.
THEOREM ReaperSparesLiveRuns ==
    ASSUME Bounded
    PROVE  Spec => []ReapedIsDead
<1>1. TypeOK /\ InTime => ReapedIsDead
  BY TimeAssumption DEF TypeOK, InTime, Bounded, ReapedIsDead
<1> QED
  BY <1>1, AlwaysInTime, TypeCorrect, PTL

(***************************************************************************)
(* Outcomes                                                                *)
(***************************************************************************)
OutcomesKept ==
    \A i \in DOMAIN log \cap DOMAIN log' :
        log[i].errors # "none" => log'[i].errors \in {log[i].errors, "historical"}

\* A process by itself gives an outcome to rows that have none, only.
LEMMA RunsKeepOutcomes ==
    ASSUME TypeOK, NEW p \in Proc, Runs(p)
    PROVE  OutcomesKept
<1>1. CASE Reap(p)
  BY <1>1 DEF Reap, Reapable, Open, OutcomesKept
<1>2. CASE Insert(p)
  BY <1>2 DEF Insert, OutcomesKept
<1>3. CASE Context(p)
  BY <1>3 DEF Context, WithRow, OutcomesKept, TypeOK, Row
<1>4. CASE LoadFeeds(p)
  <2>1. 0 \in 0 .. Feeds /\ "fatal" \in Errors
    BY CountAssumption DEF Errors
  <2>2. log' = log \/ Rewrites(p, "fatal")
    BY <1>4, <2>1, TypeParts, RewritesByOutcome DEF LoadFeeds
  <2> QED
    BY <2>2 DEF Rewrites, OutcomesKept
<1>5. CASE Mark(p)
  <2>1. at[p] \in TryStages \cup {"started", "config_loaded"} /\ batch[p] \in 0 .. Feeds
    BY <1>5 DEF Mark, After, TryStages, TypeOK
  <2>2. Rewrites(p, "none")
    BY <1>5, <2>1, TypeParts, RewritesByMark DEF Mark
  <2> QED
    BY <2>2 DEF Rewrites, OutcomesKept
<1>6. CASE MarkPruned(p)
  BY <1>6 DEF MarkPruned, OutcomesKept, TypeOK, Row
<1>7. CASE Awaited(p) \/ ProcessFeed(p)
  BY <1>7 DEF Awaited, ProcessFeed, OutcomesKept
<1>8. CASE Finish(p)
  <2>1. Rewrites(p, "none") \/ Rewrites(p, "feeds")
    BY <1>8, TypeParts, RewritesByFinish DEF Finish
  <2> QED
    BY <2>1 DEF Rewrites, OutcomesKept
<1> QED
  BY <1>1, <1>2, <1>3, <1>4, <1>5, <1>6, <1>7, <1>8 DEF Runs

\* No run, handler or reaper overwrites an outcome: the guard of each update
\* is enough, with any number of runs reaping one another while alive.
THEOREM OutcomeIsFinal == Spec => OutcomeWrittenOnce
<1>1. ASSUME TypeOK, [Next]_vars
      PROVE  OutcomesKept \/ UNCHANGED vars
  <2>1. ASSUME NEW p \in Proc, Runs(p)
        PROVE  OutcomesKept
    BY <1>1, <2>1, RunsKeepOutcomes
  <2>2. ASSUME NEW p \in Proc, Crash(p) \/ CtrlC(p)
        PROVE  OutcomesKept
    <3>1. log' = log \/ Rewrites(p, "traceback") \/ Rewrites(p, "interrupted")
      BY <1>1, <2>2, TypeParts, HandlerOK DEF Crash, CtrlC, Errors
    <3> QED
      BY <3>1 DEF Rewrites, OutcomesKept
  <2>3. ASSUME NEW p \in Proc, StartByHand(p) \/ Vanish(p)
        PROVE  OutcomesKept
    BY <2>3 DEF StartByHand, Starts, Vanish, OutcomesKept
  <2>4. CASE Trigger \/ BackfillRead
    BY <2>4 DEF Trigger, BackfillRead, Starts, OutcomesKept
  <2>5. CASE Tick
    <3>1. ASSUME NEW i \in DOMAIN log PROVE log'[i].errors = log[i].errors
      BY <1>1, <2>5 DEF Tick, TypeOK, Row
    <3> QED
      BY <2>5, <3>1 DEF Tick, OutcomesKept
  <2>6. CASE BackfillWrite
    <3>1. ASSUME NEW i \in DOMAIN log
          PROVE  log'[i].errors \in {log[i].errors, "historical"}
      BY <1>1, <2>6 DEF BackfillWrite, TypeOK, Row
    <3> QED
      BY <2>6, <3>1 DEF BackfillWrite, OutcomesKept
  <2> QED
    BY <1>1, <2>1, <2>2, <2>3, <2>4, <2>5, <2>6 DEF Next
<1>2. TypeOK /\ [Next]_vars => [OutcomesKept]_vars
  BY <1>1
<1>3. OutcomesKept <=> \A i \in DOMAIN log \cap DOMAIN log' :
          log[i].errors # "none" => log'[i].errors \in {log[i].errors, "historical"}
  BY DEF OutcomesKept
<1> QED
  BY <1>2, <1>3, TypeCorrect, PTL DEF Spec, OutcomeWrittenOnce

(***************************************************************************)
(* What a row says of its run                                              *)
(***************************************************************************)
\* A row that reads as completed is of a completed run.
RowDone(r) ==
    r.finished /\ r.errors \in {"none", "feeds"} =>
        r.stage = "complete" /\ r.kept = Feeds /\ r.counts = "full"

\* The places a run reaches with the results of every feed committed.
Fetched == {"articles_written", "simhash", "embedded", "clustered", "rendered",
            "complete", "finish"}

\* What the row of a live process says, given what the process does next: it
\* is not finished by that process yet, unless a handler has just done so.
OwnRow(place, r) ==
    /\ r.errors \notin {"feeds", "fatal"}
    /\ r.errors = "none" => ~r.finished
    /\ place \in Fetched => r.kept = Feeds
    /\ place = "finish" => r.stage = "complete" \/ r.errors # "none"

\* The inductive invariant.  CleanMeansComplete is about rows, which do not
\* know what their processes have yet to do: the proof carries that no two
\* processes write to one row, where an open transaction can be, and what
\* each process has put into its row on the way to where it is.
Progress ==
    /\ \A p, q \in Proc : mine[p] # NoRun /\ mine[p] = mine[q] => p = q
    /\ \A i \in DOMAIN log : RowDone(log[i])
    /\ \A p \in Proc : batch[p] # 0 => at[p] = "fetch_complete"
    /\ \A p \in Proc : mine[p] # NoRun => OwnRow(at[p], log[mine[p]])

\* Only p moves, and writes to no row but its own.
Alone(p) ==
    /\ DOMAIN log' = DOMAIN log
    /\ \A i \in DOMAIN log : i # mine[p] => log'[i] = log[i]
    /\ mine'[p] \in {mine[p], NoRun}
    /\ \A q \in Proc \ {p} :
         mine'[q] = mine[q] /\ at'[q] = at[q] /\ batch'[q] = batch[q]

\* Then Progress is a matter of the row and the place of p.
LEMMA ProgressAlone ==
    ASSUME TypeOK, Progress, NEW p \in Proc, Alone(p),
           mine[p] # NoRun => RowDone(log'[mine[p]]),
           mine'[p] # NoRun => OwnRow(at'[p], log'[mine[p]]),
           batch'[p] # 0 => at'[p] = "fetch_complete"
    PROVE  Progress'
<1>1. \A q \in Proc : mine'[q] \in {mine[q], NoRun}
  BY DEF Alone
<1>2. \A q, r \in Proc : mine'[q] # NoRun /\ mine'[q] = mine'[r] => q = r
  BY <1>1 DEF Progress
<1>3. ASSUME NEW i \in DOMAIN log' PROVE RowDone(log'[i])
  <2>1. CASE i = mine[p]
    <3>1. mine[p] # NoRun
      BY <2>1, RunIdAssumption DEF Alone, TypeOK
    <3> QED
      BY <2>1, <3>1
  <2>2. CASE i # mine[p]
    BY <2>2 DEF Alone, Progress
  <2> QED
    BY <2>1, <2>2
<1>4. \A q \in Proc : batch'[q] # 0 => at'[q] = "fetch_complete"
  BY DEF Alone, Progress
<1>5. ASSUME NEW q \in Proc, mine'[q] # NoRun PROVE OwnRow(at'[q], log'[mine'[q]])
  <2>1. CASE q = p
    BY <1>5, <2>1 DEF Alone
  <2>2. CASE q # p
    <3>1. mine'[q] = mine[q] /\ at'[q] = at[q] /\ mine[q] # mine[p]
      BY <1>5, <2>2 DEF Alone, Progress
    <3>2. log'[mine[q]] = log[mine[q]]
      BY <1>5, <3>1 DEF Alone, TypeOK
    <3> QED
      BY <1>5, <3>1, <3>2 DEF Progress
  <2> QED
    BY <2>1, <2>2
<1> QED
  BY <1>2, <1>3, <1>4, <1>5 DEF Progress

\* A step that ages rows, or gives them an outcome no run gives itself.
Resolves(i) ==
    /\ log'[i].stage = log[i].stage /\ log'[i].kept = log[i].kept
    /\ log'[i].counts = log[i].counts
    /\ \/ log'[i].errors = log[i].errors /\ log'[i].finished = log[i].finished
       \/ log'[i].errors \in {"abandoned", "historical"}

\* It disturbs no process, wherever it is.
LEMMA ProgressAcross ==
    ASSUME TypeOK, Progress, DOMAIN log' = DOMAIN log,
           \A i \in DOMAIN log : Resolves(i),
           mine' = mine, batch' = batch,
           \A q \in Proc : at'[q] = at[q] \/ (at'[q] \notin Fetched /\ batch[q] = 0)
    PROVE  Progress'
<1>1. \A i \in DOMAIN log' : RowDone(log'[i])
  BY DEF Resolves, RowDone, Progress
<1>2. ASSUME NEW q \in Proc, mine[q] # NoRun PROVE OwnRow(at'[q], log'[mine[q]])
  <2>1. mine[q] \in DOMAIN log /\ OwnRow(at[q], log[mine[q]])
    BY <1>2 DEF TypeOK, Progress
  <2>2. Resolves(mine[q])
    BY <2>1
  <2>3. at'[q] = at[q] \/ (at'[q] \notin Fetched /\ at'[q] # "finish")
    BY DEF Fetched
  <2> QED
    BY <2>1, <2>2, <2>3 DEF Resolves, OwnRow
<1> QED
  BY <1>1, <1>2 DEF Progress

\* Moving on or ending is moving alone.
LEMMA AloneByMoving ==
    ASSUME TypeOK, NEW p \in Proc, NEW where \in Places,
           Goes(p, where) \/ Ends(p, where),
           DOMAIN log' = DOMAIN log, \A i \in DOMAIN log : i # mine[p] => log'[i] = log[i]
    PROVE  /\ Alone(p) /\ at'[p] = where
           /\ Goes(p, where) => mine'[p] = mine[p] /\ batch'[p] = batch[p]
           /\ Ends(p, where) => mine'[p] = NoRun /\ batch'[p] = 0
BY DEF TypeOK, Goes, Ends, Alone

\* A handler makes no row read as completed, and ends the run unless it is
\* in the finally clause's way.
LEMMA HandlerProgress ==
    ASSUME TypeOK, Progress, NEW p \in Proc, NEW e \in {"traceback", "interrupted"},
           at[p] \in TryStages, Handler(p, e)
    PROVE  Progress'
<1>1. DOMAIN log' = DOMAIN log /\ \A i \in DOMAIN log : i # mine[p] => log'[i] = log[i]
  BY DEF Handler, WithRow
<1>2. /\ Alone(p)
      /\ at[p] = "complete" => at'[p] = "finish" /\ mine'[p] = mine[p] /\ batch'[p] = batch[p]
      /\ at[p] # "complete" => mine'[p] = NoRun /\ batch'[p] = 0
  <2>1. CASE at[p] = "complete"
    BY <1>1, <2>1, AloneByMoving DEF Handler, Places
  <2>2. CASE at[p] # "complete"
    BY <1>1, <2>2, AloneByMoving DEF Handler, Places, Idle
  <2> QED
    BY <2>1, <2>2
<1>3. at[p] = "complete" => batch[p] = 0
  BY DEF Progress
<1>4. ASSUME mine[p] # NoRun
      PROVE  RowDone(log'[mine[p]]) /\ (at[p] = "complete" => OwnRow("finish", log'[mine[p]]))
  <2> DEFINE r == log[mine[p]]
  <2>1. mine[p] \in DOMAIN log /\ r \in Row /\ OwnRow(at[p], r) /\ RowDone(r)
    BY <1>4 DEF TypeOK, Progress
  <2>2. log'[mine[p]] = Outcome(r, batch[p], e)
    BY <2>1 DEF Handler, WithRow
  <2> HIDE DEF r
  <2>3. Outcome(r, batch[p], e).errors \notin {"none", "feeds", "fatal"}
    BY <2>1 DEF Outcome, Row, OwnRow
  <2>4. batch[p] = 0 => Outcome(r, batch[p], e).kept = r.kept
    BY <2>1 DEF Outcome, Row
  <2> QED
    BY <1>3, <2>1, <2>2, <2>3, <2>4 DEF RowDone, OwnRow, Fetched
<1> QED
  BY <1>2, <1>3, <1>4, ProgressAlone

\* What a process does by itself keeps Progress.
LEMMA RunsProgress ==
    ASSUME TypeOK, Progress, NEW p \in Proc, Runs(p)
    PROVE  Progress'
<1>1. CASE Reap(p)
  <2>1. \A i \in DOMAIN log : Resolves(i)
    BY <1>1 DEF Reap, Resolves, TypeOK, Row
  <2>2. \A q \in Proc : at'[q] = at[q] \/ (at'[q] \notin Fetched /\ batch[q] = 0)
    BY <1>1 DEF Reap, Goes, TypeOK, Fetched, Progress
  <2> QED
    BY <1>1, <2>1, <2>2, ProgressAcross DEF Reap, Goes
<1>2. CASE Insert(p)
  <2> DEFINE new == [age |-> 0, finished |-> FALSE, errors |-> "none",
                     counts |-> "none", stage |-> "started", kept |-> 0]
  <2> PICK i \in RunId \ DOMAIN log :
        /\ log' = [j \in DOMAIN log \cup {i} |-> IF j = i THEN new ELSE log[j]]
        /\ mine' = [mine EXCEPT ![p] = i]
    BY <1>2 DEF Insert
  <2>1. batch' = batch /\ batch[p] = 0 /\ at' = [at EXCEPT ![p] = "context"]
    BY <1>2 DEF Insert, Progress
  <2>2. ASSUME NEW q \in Proc, q # p
        PROVE  /\ mine'[q] = mine[q] /\ at'[q] = at[q]
               /\ mine[q] # NoRun => mine[q] # i /\ log'[mine[q]] = log[mine[q]]
    BY <2>1, <2>2 DEF TypeOK
  <2>3. mine'[p] = i /\ log'[i] = new /\ at'[p] = "context"
    BY <2>1 DEF TypeOK
  <2>4. RowDone(new) /\ OwnRow("context", new)
    BY DEF RowDone, OwnRow, Fetched
  <2>5. \A j \in DOMAIN log' : RowDone(log'[j])
    BY <2>4 DEF Progress
  <2>6. \A q \in Proc : mine'[q] # NoRun => OwnRow(at'[q], log'[mine'[q]])
    BY <2>2, <2>3, <2>4 DEF Progress
  <2>7. \A q, r \in Proc : mine'[q] # NoRun /\ mine'[q] = mine'[r] => q = r
    BY <2>2, <2>3 DEF Progress
  <2>8. \A q \in Proc : batch'[q] # 0 => at'[q] = "fetch_complete"
    BY <2>1, <2>2 DEF Progress
  <2> QED
    BY <2>5, <2>6, <2>7, <2>8 DEF Progress
<1>3. CASE Context(p)
  <2>1. DOMAIN log' = DOMAIN log /\ \A i \in DOMAIN log : i # mine[p] => log'[i] = log[i]
    BY <1>3 DEF Context, WithRow
  <2>2. Alone(p) /\ at'[p] = "load" /\ mine'[p] = mine[p] /\ batch'[p] = batch[p]
    BY <1>3, <2>1, AloneByMoving DEF Context, Places
  <2>3. batch[p] = 0
    BY <1>3 DEF Context, Progress
  <2>4. mine[p] # NoRun => RowDone(log'[mine[p]]) /\ OwnRow("load", log'[mine[p]])
    BY <1>3 DEF Context, WithRow, TypeOK, Row, Progress, RowDone, OwnRow, Fetched
  <2> QED
    BY <2>2, <2>3, <2>4, ProgressAlone
<1>4. CASE LoadFeeds(p)
  <2>1. DOMAIN log' = DOMAIN log /\ \A i \in DOMAIN log : i # mine[p] => log'[i] = log[i]
    BY <1>4 DEF LoadFeeds, WithRow
  <2>2. batch[p] = 0
    BY <1>4 DEF LoadFeeds, Progress
  <2>3. CASE Goes(p, "config_loaded") /\ log' = log
    <3>1. Alone(p) /\ at'[p] = "config_loaded" /\ mine'[p] = mine[p] /\ batch'[p] = batch[p]
      BY <2>1, <2>3, AloneByMoving DEF Places
    <3>2. mine[p] # NoRun => RowDone(log[mine[p]]) /\ OwnRow("config_loaded", log[mine[p]])
      BY <2>3 DEF TypeOK, Progress, OwnRow, Fetched
    <3> QED
      BY <2>2, <2>3, <3>1, <3>2, ProgressAlone
  <2>4. CASE WithRow(p, LAMBDA r : Outcome(r, 0, "fatal")) /\ Ends(p, "off")
    <3>1. Alone(p) /\ mine'[p] = NoRun /\ batch'[p] = 0
      BY <2>1, <2>4, AloneByMoving DEF Places, Idle
    <3>2. mine[p] # NoRun => RowDone(log'[mine[p]])
      <4>1. mine[p] # NoRun => mine[p] \in DOMAIN log /\ OwnRow(at[p], log[mine[p]]) /\ log[mine[p]] \in Row
        BY DEF TypeOK, Progress
      <4>2. mine[p] # NoRun => log'[mine[p]] = Outcome(log[mine[p]], 0, "fatal")
        BY <2>4, <4>1 DEF WithRow
      <4>3. \A r \in Row : OwnRow(at[p], r) => RowDone(Outcome(r, 0, "fatal"))
        BY DEF Outcome, Row, OwnRow, RowDone
      <4> QED
        BY <4>1, <4>2, <4>3
    <3> QED
      BY <3>1, <3>2, ProgressAlone
  <2> QED
    BY <1>4, <2>3, <2>4 DEF LoadFeeds
<1>5. CASE Mark(p)
  <2>1. DOMAIN log' = DOMAIN log /\ \A i \in DOMAIN log : i # mine[p] => log'[i] = log[i]
    BY <1>5 DEF Mark, WithRow
  <2>2. /\ mine' = mine /\ batch'[p] = 0 /\ at'[p] = After[at[p]]
        /\ \A q \in Proc \ {p} : at'[q] = at[q] /\ batch'[q] = batch[q]
    BY <1>5 DEF Mark, TypeOK
  <2>3. batch[p] \in 0 .. Feeds /\ (batch[p] # 0 => at[p] = "fetch_complete" /\ batch[p] = Feeds)
    BY <1>5 DEF Mark, TypeOK, Progress
  <2>4. /\ After[at[p]] \in Fetched => at[p] \in Fetched \cup {"fetch_complete"}
        /\ After[at[p]] = "finish" => at[p] = "complete"
        /\ at[p] # "finish"
    BY <1>5 DEF Mark, After, Fetched
  <2>5. ASSUME mine[p] # NoRun
        PROVE  RowDone(log'[mine[p]]) /\ OwnRow(After[at[p]], log'[mine[p]])
    <3> DEFINE r == log[mine[p]]
    <3>1. mine[p] \in DOMAIN log /\ r \in Row /\ OwnRow(at[p], r) /\ RowDone(r)
      BY <2>5 DEF TypeOK, Progress
    <3>2. log'[mine[p]] = Marked(r, at[p], batch[p])
      BY <1>5, <3>1 DEF Mark, WithRow
    <3> HIDE DEF r
    <3> DEFINE m == Marked(r, at[p], batch[p])
    <3>3. /\ m.errors = r.errors /\ m.finished = r.finished /\ m.stage = at[p]
          /\ m.kept = IF batch[p] > 0 THEN batch[p] ELSE r.kept
      BY <3>1 DEF Marked, Row
    <3>4. RowDone(m)
      BY <3>1, <3>3 DEF RowDone, OwnRow
    <3>5. After[at[p]] \in Fetched => m.kept = Feeds
      <4>1. CASE batch[p] > 0
        BY <2>3, <3>3, <4>1
      <4>2. CASE batch[p] = 0 /\ at[p] \in Fetched
        BY <3>1, <3>3, <4>2 DEF OwnRow
      <4>3. CASE batch[p] = 0 /\ at[p] = "fetch_complete"
        <5>1. Feeds = 0 /\ r.kept \in 0 .. Feeds
          BY <1>5, <3>1, <4>3 DEF Mark, Row
        <5> QED
          BY <3>3, <4>3, <5>1
      <4> QED
        BY <2>3, <2>4, <4>1, <4>2, <4>3
    <3> QED
      BY <2>4, <3>1, <3>2, <3>3, <3>4, <3>5 DEF OwnRow
  <2> QED
    BY <2>1, <2>2, <2>5, ProgressAlone DEF Alone
<1>6. CASE MarkPruned(p)
  <2> DEFINE old == {i \in DOMAIN log : Prunable(log[i])}
  <2>1. /\ DOMAIN log' = DOMAIN log \ old
        /\ mine' = [q \in Proc |-> IF mine[q] \in old THEN NoRun ELSE mine[q]]
        /\ at' = [at EXCEPT ![p] = "fetch_started"] /\ batch' = batch /\ at[p] = "pruned"
    BY <1>6 DEF MarkPruned
  <2>2. \A i \in DOMAIN log' :
          /\ log'[i].errors = log[i].errors /\ log'[i].finished = log[i].finished
          /\ log'[i].kept = log[i].kept /\ log'[i].counts = log[i].counts
          /\ log'[i].stage = IF i = mine[p] THEN "pruned" ELSE log[i].stage
    BY <1>6, <2>1 DEF MarkPruned, TypeOK, Row
  <2>3. \A q \in Proc : /\ at'[q] = IF q = p THEN "fetch_started" ELSE at[q]
                        /\ mine'[q] \in {mine[q], NoRun}
                        /\ mine'[q] # NoRun => mine[q] \in DOMAIN log'
    BY <2>1 DEF TypeOK
  <2> HIDE DEF old
  <2>4. ASSUME NEW i \in DOMAIN log' PROVE RowDone(log'[i])
    <3>1. RowDone(log[i]) /\ (i = mine[p] => OwnRow(at[p], log[i]))
      BY <2>1, RunIdAssumption DEF Progress, TypeOK
    <3> QED
      BY <2>2, <3>1 DEF RowDone, OwnRow
  <2>5. ASSUME NEW q \in Proc, mine'[q] # NoRun PROVE OwnRow(at'[q], log'[mine'[q]])
    <3>1. mine'[q] = mine[q] /\ mine[q] \in DOMAIN log' /\ OwnRow(at[q], log[mine[q]])
      BY <2>3, <2>5 DEF Progress
    <3>2. CASE q = p
      BY <2>2, <2>3, <3>1, <3>2 DEF OwnRow, Fetched
    <3>3. CASE q # p
      <4>1. mine[q] # mine[p]
        BY <2>5, <3>1, <3>3 DEF Progress
      <4> QED
        BY <2>2, <2>3, <3>1, <3>3, <4>1 DEF OwnRow
    <3> QED
      BY <3>2, <3>3
  <2>6. \A q, r \in Proc : mine'[q] # NoRun /\ mine'[q] = mine'[r] => q = r
    BY <2>3 DEF Progress
  <2>7. \A q \in Proc : batch'[q] # 0 => at'[q] = "fetch_complete"
    BY <2>1, <2>3 DEF Progress
  <2> QED
    BY <2>4, <2>5, <2>6, <2>7 DEF Progress
<1>7. CASE Awaited(p)
  <2>1. DOMAIN log' = DOMAIN log /\ \A i \in DOMAIN log : i # mine[p] => log'[i] = log[i]
    BY <1>7 DEF Awaited
  <2>2. mine[p] # NoRun => RowDone(log[mine[p]]) /\ OwnRow("fetch_complete", log[mine[p]])
    BY DEF TypeOK, Progress, OwnRow, Fetched
  <2>3. CASE Goes(p, "fetch_complete")
    <3>1. Alone(p) /\ at'[p] = "fetch_complete" /\ mine'[p] = mine[p]
      BY <2>1, <2>3, AloneByMoving DEF Places, TryStages
    <3> QED
      BY <1>7, <2>2, <3>1, ProgressAlone DEF Awaited
  <2>4. CASE Ends(p, "off")
    <3>1. Alone(p) /\ mine'[p] = NoRun /\ batch'[p] = 0
      BY <2>1, <2>4, AloneByMoving DEF Places, Idle
    <3> QED
      BY <1>7, <2>2, <3>1, ProgressAlone DEF Awaited
  <2> QED
    BY <1>7, <2>3, <2>4 DEF Awaited
<1>8. CASE ProcessFeed(p)
  BY <1>8 DEF ProcessFeed, Progress, TypeOK
<1>9. CASE Finish(p)
  <2> PICK e \in {"none", "feeds"} :
        WithRow(p, LAMBDA r : IF r.errors = "none"
                              THEN [Outcome(r, 0, e) EXCEPT !.counts = "full"]
                              ELSE Outcome(r, 0, e))
    BY <1>9 DEF Finish
  <2>1. DOMAIN log' = DOMAIN log /\ \A i \in DOMAIN log : i # mine[p] => log'[i] = log[i]
    BY DEF WithRow
  <2>2. Alone(p) /\ mine'[p] = NoRun /\ batch'[p] = 0
    BY <1>9, <2>1, AloneByMoving DEF Finish, Places, Idle
  <2>3. ASSUME mine[p] # NoRun PROVE RowDone(log'[mine[p]])
    <3> DEFINE r == log[mine[p]]
    <3>1. mine[p] \in DOMAIN log /\ r \in Row /\ OwnRow("finish", r) /\ RowDone(r)
      BY <1>9, <2>3 DEF Finish, TypeOK, Progress
    <3>2. log'[mine[p]] = IF r.errors = "none"
                          THEN [Outcome(r, 0, e) EXCEPT !.counts = "full"]
                          ELSE Outcome(r, 0, e)
      BY <3>1 DEF WithRow
    <3> HIDE DEF r
    <3>3. CASE r.errors = "none"
      BY <3>1, <3>2, <3>3 DEF Outcome, Row, OwnRow, RowDone, Fetched
    <3>4. CASE r.errors # "none"
      BY <3>1, <3>2, <3>4 DEF Outcome, Row, OwnRow, RowDone
    <3> QED
      BY <3>3, <3>4
  <2> QED
    BY <2>2, <2>3, ProgressAlone
<1> QED
  BY <1>1, <1>2, <1>3, <1>4, <1>5, <1>6, <1>7, <1>8, <1>9 DEF Runs

\* A death, an exception, a keystroke or a start keeps Progress.
LEMMA EndingProgress ==
    ASSUME TypeOK, Progress, NEW p \in Proc,
           StartByHand(p) \/ Crash(p) \/ Vanish(p) \/ CtrlC(p)
    PROVE  Progress'
<1>1. ASSUME Ends(p, "off") \/ Ends(p, "killed"), log' = log PROVE Progress'
  <2>1. Alone(p) /\ mine'[p] = NoRun /\ batch'[p] = 0
    BY <1>1, AloneByMoving DEF Places, Idle
  <2>2. mine[p] # NoRun => RowDone(log[mine[p]])
    BY DEF TypeOK, Progress
  <2> QED
    BY <1>1, <2>1, <2>2, ProgressAlone
<1>2. CASE StartByHand(p)
  <2>1. batch[p] = 0
    BY <1>2 DEF StartByHand, Starts, Live, Idle, Progress
  <2>2. /\ log' = log /\ mine' = mine /\ batch' = batch
        /\ \A q \in Proc : at'[q] = at[q] \/ (at'[q] \notin Fetched /\ batch[q] = 0)
    BY <1>2, <2>1 DEF StartByHand, Starts, TypeOK, Fetched
  <2> QED
    BY <2>2, ProgressAcross DEF Resolves
<1>3. CASE Crash(p)
  BY <1>3, HandlerProgress DEF Crash
<1>4. CASE Vanish(p)
  BY <1>1, <1>4 DEF Vanish
<1>5. CASE CtrlC(p)
  <2>1. CASE UNCHANGED <<log, at, mine, age, batch>>
    BY <2>1 DEF Progress
  <2>2. CASE at[p] \in TryStages /\ Handler(p, "interrupted")
    BY <2>2, HandlerProgress
  <2>3. CASE Ends(p, "off") /\ UNCHANGED log
    BY <1>1, <2>3
  <2> QED
    BY <1>5, <2>1, <2>2, <2>3 DEF CtrlC
<1> QED
  BY <1>2, <1>3, <1>4, <1>5

\* So do the scheduler, the clock and the backfill.
LEMMA WorldProgress ==
    ASSUME TypeOK, Progress, Trigger \/ Tick \/ BackfillRead \/ BackfillWrite
    PROVE  Progress'
<1>1. CASE Trigger
  <2>1. CASE Live(Scheduled)
    BY <1>1, <2>1 DEF Trigger, procVars, Progress
  <2>2. CASE ~Live(Scheduled)
    <3>1. Scheduled \in Proc /\ batch[Scheduled] = 0
      BY <2>2 DEF Live, Idle, Progress, Proc
    <3>2. /\ log' = log /\ mine' = mine /\ batch' = batch
          /\ \A q \in Proc : at'[q] = at[q] \/ (at'[q] \notin Fetched /\ batch[q] = 0)
      BY <1>1, <2>2, <3>1 DEF Trigger, Starts, TypeOK, Fetched
    <3> QED
      BY <3>2, ProgressAcross DEF Resolves
  <2> QED
    BY <2>1, <2>2
<1>2. CASE Tick
  <2>1. DOMAIN log' = DOMAIN log /\ \A i \in DOMAIN log : Resolves(i)
    BY <1>2 DEF Tick, Resolves, TypeOK, Row
  <2> QED
    BY <1>2, <2>1, ProgressAcross DEF Tick
<1>3. CASE BackfillRead
  BY <1>3 DEF BackfillRead, procVars, Progress
<1>4. CASE BackfillWrite
  <2>1. DOMAIN log' = DOMAIN log /\ \A i \in DOMAIN log : Resolves(i)
    BY <1>4 DEF BackfillWrite, Resolves, TypeOK, Row
  <2> QED
    BY <1>4, <2>1, ProgressAcross DEF BackfillWrite, procVars
<1> QED
  BY <1>1, <1>2, <1>3, <1>4

\* Progress holds throughout.
LEMMA AlwaysProgress == Spec => []Progress
<1>1. Init => Progress
  BY DEF Init, Progress
<1>2. TypeOK /\ Progress /\ [Next]_vars => Progress'
  <2> SUFFICES ASSUME TypeOK, Progress, [Next]_vars PROVE Progress'
    OBVIOUS
  <2>1. ASSUME NEW p \in Proc, Runs(p) PROVE Progress'
    BY <2>1, RunsProgress
  <2>2. ASSUME NEW p \in Proc, StartByHand(p) \/ Crash(p) \/ Vanish(p) \/ CtrlC(p)
        PROVE  Progress'
    BY <2>2, EndingProgress
  <2>3. CASE Trigger \/ Tick \/ BackfillRead \/ BackfillWrite
    BY <2>3, WorldProgress
  <2>4. CASE UNCHANGED vars
    BY <2>4 DEF vars, procVars, Progress
  <2> QED
    BY <2>1, <2>2, <2>3, <2>4 DEF Next
<1> QED
  BY <1>1, <1>2, TypeCorrect, PTL DEF Spec

\* A row that reads as completed is of a run that passed every stage with
\* the results of every feed committed, for any number of runs that overlap,
\* are reaped alive, crash, are killed or interrupted anywhere.
THEOREM CleanIsComplete == Spec => []CleanMeansComplete
<1>1. Progress => CleanMeansComplete
  BY DEF Progress, RowDone, CleanMeansComplete
<1> QED
  BY <1>1, AlwaysProgress, PTL

(***************************************************************************)
(* What a run that was killed leaves                                       *)
(***************************************************************************)
\* The one-off backfill is not used, or no longer.
NoBackfill == MaxBackfills = 0

\* Without it, no row is marked by it.
Untouched == seen = {} /\ \A i \in DOMAIN log : log[i].errors # "historical"

\* No other step writes that mark.
LEMMA AlwaysUntouched ==
    ASSUME NoBackfill
    PROVE  Spec => []Untouched
<1>1. Init => Untouched
  BY DEF Init, Untouched
<1>2. TypeOK /\ Untouched /\ [Next]_vars => Untouched'
  <2> SUFFICES ASSUME TypeOK, Untouched, [Next]_vars PROVE Untouched'
    OBVIOUS
  <2>1. ASSUME NEW e \in Errors \ {"historical"}, NEW p \in Proc, Rewrites(p, e), seen' = seen
        PROVE  Untouched'
    BY <2>1 DEF Rewrites, Untouched
  <2>2. ASSUME NEW p \in Proc, Runs(p) PROVE Untouched'
    <3>1. CASE Reap(p)
      BY <3>1 DEF Reap, Untouched, TypeOK, Row
    <3>2. CASE Insert(p)
      BY <3>2 DEF Insert, Untouched
    <3>3. CASE Context(p)
      BY <3>3 DEF Context, WithRow, Untouched, TypeOK, Row
    <3>4. CASE LoadFeeds(p)
      <4>1. 0 \in 0 .. Feeds /\ "fatal" \in Errors \ {"historical"}
        BY CountAssumption DEF Errors
      <4>2. log' = log \/ Rewrites(p, "fatal")
        BY <3>4, <4>1, TypeParts, RewritesByOutcome DEF LoadFeeds
      <4> QED
        BY <2>1, <3>4, <4>1, <4>2 DEF LoadFeeds, Untouched
    <3>5. CASE Mark(p)
      <4>1. at[p] \in TryStages \cup {"started", "config_loaded"} /\ batch[p] \in 0 .. Feeds
        BY <3>5 DEF Mark, After, TryStages, TypeOK
      <4>2. Rewrites(p, "none")
        BY <3>5, <4>1, TypeParts, RewritesByMark DEF Mark
      <4> QED
        BY <2>1, <3>5, <4>2 DEF Mark, Errors
    <3>6. CASE MarkPruned(p)
      BY <3>6 DEF MarkPruned, Untouched, TypeOK, Row
    <3>7. CASE Awaited(p) \/ ProcessFeed(p)
      BY <3>7 DEF Awaited, ProcessFeed, Untouched
    <3>8. CASE Finish(p)
      <4>1. Rewrites(p, "none") \/ Rewrites(p, "feeds")
        BY <3>8, TypeParts, RewritesByFinish DEF Finish
      <4> QED
        BY <2>1, <3>8, <4>1 DEF Finish, Errors
    <3> QED
      BY <2>2, <3>1, <3>2, <3>3, <3>4, <3>5, <3>6, <3>7, <3>8 DEF Runs
  <2>3. ASSUME NEW p \in Proc, Crash(p) \/ CtrlC(p)
        PROVE  Untouched'
    <3>1. log' = log \/ Rewrites(p, "traceback") \/ Rewrites(p, "interrupted")
      BY <2>3, TypeParts, HandlerOK DEF Crash, CtrlC, Errors
    <3>2. seen' = seen
      BY <2>3 DEF Crash, CtrlC
    <3> QED
      BY <2>1, <3>1, <3>2 DEF Errors, Untouched
  <2>4. CASE \/ \E p \in Proc : StartByHand(p) \/ Vanish(p)
             \/ Trigger \/ UNCHANGED vars
    BY <2>4 DEF StartByHand, Starts, Vanish, Trigger, vars, Untouched
  <2>5. CASE Tick
    BY <2>5 DEF Tick, Untouched, TypeOK, Row
  <2>6. ~BackfillRead
    BY CountAssumption DEF BackfillRead, Spend, NoBackfill, TypeOK
  <2>7. CASE BackfillWrite
    BY <2>7 DEF BackfillWrite, Untouched
  <2> QED
    BY <2>2, <2>3, <2>4, <2>5, <2>6, <2>7 DEF Next
<1> QED
  BY <1>1, <1>2, TypeCorrect, PTL DEF Spec

\* What a step may do to a row's committed results: leave them with the
\* outcome they have, publish all or none, or record an exception with them.
Accounts(i) ==
    \/ log'[i].kept \in {0, Feeds}
    \/ log'[i].errors \in {"traceback", "interrupted"}
    \/ /\ i \in DOMAIN log /\ log'[i].kept = log[i].kept
       /\ log[i].errors \in {"traceback", "interrupted"} => log'[i].errors = log[i].errors

\* Steps that do keep the invariant.
LEMMA WholeByAccounts ==
    ASSUME KilledLeavesAllOrNothing, \A i \in DOMAIN log' : Accounts(i)
    PROVE  KilledLeavesAllOrNothing'
BY DEF KilledLeavesAllOrNothing, Accounts

\* A process by itself publishes all of its results or none.
LEMMA RunsAccount ==
    ASSUME TypeOK, Progress, NEW p \in Proc, Runs(p)
    PROVE  \A i \in DOMAIN log' : Accounts(i)
<1>1. CASE Reap(p)
  BY <1>1 DEF Reap, Reapable, Open, Accounts, TypeOK, Row
<1>2. CASE Insert(p)
  BY <1>2 DEF Insert, Accounts
<1>3. CASE Context(p)
  BY <1>3 DEF Context, WithRow, Accounts, TypeOK, Row
<1>4. CASE LoadFeeds(p)
  <2>1. CASE log' = log
    BY <2>1 DEF Accounts
  <2>2. CASE WithRow(p, LAMBDA r : Outcome(r, 0, "fatal"))
    <3>1. ASSUME NEW i \in DOMAIN log PROVE Accounts(i)
      <4>1. log[i] \in Row /\ log'[i] \in {log[i], Outcome(log[i], 0, "fatal")}
        BY <2>2 DEF WithRow, TypeOK
      <4>2. /\ Outcome(log[i], 0, "fatal").kept = log[i].kept
            /\ log[i].errors # "none" => Outcome(log[i], 0, "fatal").errors = log[i].errors
        BY <4>1 DEF Outcome, Row
      <4> QED
        BY <4>1, <4>2 DEF Accounts
    <3> QED
      BY <2>2, <3>1 DEF WithRow
  <2> QED
    BY <1>4, <2>1, <2>2 DEF LoadFeeds
<1>5. CASE Mark(p)
  <2>1. batch[p] \in 0 .. Feeds /\ (batch[p] # 0 => batch[p] = Feeds)
    BY <1>5 DEF Mark, TypeOK, Progress
  <2>2. at[p] \in TryStages \cup {"started", "config_loaded"}
    BY <1>5 DEF Mark, After, TryStages
  <2>3. ASSUME NEW i \in DOMAIN log PROVE Accounts(i)
    <3>1. log[i] \in Row /\ log'[i] \in {log[i], Marked(log[i], at[p], batch[p])}
      BY <1>5 DEF Mark, WithRow, TypeOK
    <3>2. /\ Marked(log[i], at[p], batch[p]).errors = log[i].errors
          /\ Marked(log[i], at[p], batch[p]).kept \in {log[i].kept, Feeds}
      BY <2>1, <3>1 DEF Marked, Row
    <3> QED
      BY <3>1, <3>2 DEF Accounts
  <2> QED
    BY <1>5, <2>3 DEF Mark, WithRow
<1>6. CASE MarkPruned(p)
  BY <1>6 DEF MarkPruned, Accounts, TypeOK, Row
<1>7. CASE Awaited(p) \/ ProcessFeed(p)
  BY <1>7 DEF Awaited, ProcessFeed, Accounts
<1>8. CASE Finish(p)
  <2> PICK e \in {"none", "feeds"} :
        WithRow(p, LAMBDA r : IF r.errors = "none"
                              THEN [Outcome(r, 0, e) EXCEPT !.counts = "full"]
                              ELSE Outcome(r, 0, e))
    BY <1>8 DEF Finish
  <2>1. ASSUME NEW i \in DOMAIN log PROVE Accounts(i)
    <3>1. /\ log[i] \in Row
          /\ log'[i] \in {log[i], [Outcome(log[i], 0, e) EXCEPT !.counts = "full"],
                          Outcome(log[i], 0, e)}
      BY DEF WithRow, TypeOK
    <3>2. /\ Outcome(log[i], 0, e).kept = log[i].kept
          /\ [Outcome(log[i], 0, e) EXCEPT !.counts = "full"].kept = log[i].kept
          /\ log[i].errors # "none" =>
               /\ Outcome(log[i], 0, e).errors = log[i].errors
               /\ [Outcome(log[i], 0, e) EXCEPT !.counts = "full"].errors = log[i].errors
      BY <3>1 DEF Outcome, Row
    <3> QED
      BY <3>1, <3>2 DEF Accounts
  <2> QED
    BY <2>1 DEF WithRow
<1> QED
  BY <1>1, <1>2, <1>3, <1>4, <1>5, <1>6, <1>7, <1>8 DEF Runs

\* A handler that commits a part of the results says so, unless the row was
\* taken from its live run.
LEMMA HandlerAccounts ==
    ASSUME TypeOK, Progress, Untouched, ReapedIsDead, NEW p \in Proc, Live(p),
           NEW e \in {"traceback", "interrupted"}, Handler(p, e)
    PROVE  \A i \in DOMAIN log' : Accounts(i)
<1>1. ASSUME NEW i \in DOMAIN log, i = mine[p] PROVE Accounts(i)
  <2> DEFINE r == log[i]
  <2>1. /\ r \in Row /\ mine[p] # NoRun
        /\ r.errors \notin {"abandoned", "historical", "feeds", "fatal"}
    BY <1>1, RunIdAssumption DEF TypeOK, Progress, OwnRow, Untouched, ReapedIsDead
  <2>2. log'[i] = Outcome(r, batch[p], e)
    BY <1>1 DEF Handler, WithRow
  <2> HIDE DEF r
  <2>3. Outcome(r, batch[p], e).errors \in {"traceback", "interrupted"}
    BY <2>1 DEF Outcome, Row, Errors
  <2> QED
    BY <2>2, <2>3 DEF Accounts
<1>2. ASSUME NEW i \in DOMAIN log, i # mine[p] PROVE Accounts(i)
  BY <1>2 DEF Handler, WithRow, Accounts
<1> QED
  BY <1>1, <1>2 DEF Handler, WithRow

\* A run that was killed, cancelled at its await, or never got so far leaves
\* all or nothing of the fetched results, when no live run's row is taken by
\* the reaper (the limits are within the threshold) or by the backfill.
THEOREM KilledLeavesWhole ==
    ASSUME Bounded, NoBackfill
    PROVE  Spec => []KilledLeavesAllOrNothing
<1>1. Init => KilledLeavesAllOrNothing
  BY DEF Init, KilledLeavesAllOrNothing
<1>2. /\ TypeOK /\ Progress /\ Untouched /\ ReapedIsDead /\ KilledLeavesAllOrNothing
      /\ [Next]_vars
      => KilledLeavesAllOrNothing'
  <2> SUFFICES ASSUME TypeOK, Progress, Untouched, ReapedIsDead,
                      KilledLeavesAllOrNothing, [Next]_vars
               PROVE  KilledLeavesAllOrNothing'
    OBVIOUS
  <2>1. ASSUME NEW p \in Proc, Runs(p) PROVE KilledLeavesAllOrNothing'
    BY <2>1, RunsAccount, WholeByAccounts
  <2>2. ASSUME log' = log PROVE KilledLeavesAllOrNothing'
    BY <2>2 DEF KilledLeavesAllOrNothing
  <2>3. ASSUME NEW p \in Proc, Crash(p) \/ CtrlC(p) PROVE KilledLeavesAllOrNothing'
    <3>1. \/ log' = log
          \/ Live(p) /\ Handler(p, "traceback")
          \/ Live(p) /\ Handler(p, "interrupted")
      BY <2>3 DEF Crash, CtrlC, Live, TryStages, Idle
    <3> QED
      BY <2>2, <3>1, HandlerAccounts, WholeByAccounts
  <2>4. ASSUME NEW p \in Proc, StartByHand(p) \/ Vanish(p) PROVE KilledLeavesAllOrNothing'
    BY <2>2, <2>4 DEF StartByHand, Starts, Vanish
  <2>5. CASE Tick
    BY <2>5 DEF Tick, KilledLeavesAllOrNothing, TypeOK, Row
  <2>6. CASE Trigger \/ BackfillRead \/ UNCHANGED vars
    BY <2>2, <2>6 DEF Trigger, Starts, BackfillRead, vars
  <2>7. ~BackfillWrite
    BY DEF BackfillWrite, Untouched
  <2> QED
    BY <2>1, <2>3, <2>4, <2>5, <2>6, <2>7 DEF Next
<1> QED
  BY <1>1, <1>2, TypeCorrect, AlwaysProgress, AlwaysUntouched, ReaperSparesLiveRuns, PTL DEF Spec

(***************************************************************************)
(* What retention deletes                                                  *)
(***************************************************************************)
\* A run that has reaped finds no older open row while it lasts: the rows
\* it left open were within the threshold then, and age as it does.
ReapedBefore ==
    \A p \in Proc : at[p] \notin Idle \cup {"reap"} =>
        \A i \in DOMAIN log : Open(log[i]) => log[i].age <= Threshold + age[p]

\* A step that opens no row and makes none older keeps that, for a process
\* that has reaped before it.
LEMMA ReapedByNone ==
    ASSUME TypeOK, ReapedBefore,
           \A i \in DOMAIN log' : Open(log'[i]) =>
               \/ i \in DOMAIN log /\ Open(log[i]) /\ log'[i].age = log[i].age
               \/ log'[i].age = 0,
           \A q \in Proc : at'[q] \notin Idle \cup {"reap"} =>
               at[q] \notin Idle \cup {"reap"} /\ age'[q] = age[q]
    PROVE  ReapedBefore'
BY TimeAssumption DEF ReapedBefore, TypeOK

\* What an update of one row that opens none leaves open.
LEMMA RewritesOpenNone ==
    ASSUME TypeOK, NEW p \in Proc, NEW e \in Errors, Rewrites(p, e),
           \A i \in DOMAIN log : log[i].finished => log'[i].finished
    PROVE  \A i \in DOMAIN log' : Open(log'[i]) =>
               i \in DOMAIN log /\ Open(log[i]) /\ log'[i].age = log[i].age
BY DEF Rewrites, Open, TypeOK, Row

\* The handlers, the mark and the completion finish rows and open none.
LEMMA FinishedStays ==
    ASSUME TypeOK, NEW p \in Proc,
           \/ \E n \in 0 .. Feeds, e \in Errors : WithRow(p, LAMBDA r : Outcome(r, n, e))
           \/ \E n \in 0 .. Feeds, s \in TryStages \cup {"started", "config_loaded"} :
                WithRow(p, LAMBDA r : Marked(r, s, n))
           \/ Finish(p)
    PROVE  \A i \in DOMAIN log : log[i].finished => log'[i].finished
<1>1. \A r \in Row, n \in 0 .. Feeds, e \in Errors : r.finished => Outcome(r, n, e).finished
  BY DEF Outcome, Row
<1>2. \A r \in Row, n \in 0 .. Feeds, s \in TryStages \cup {"started", "config_loaded"} :
        r.finished => Marked(r, s, n).finished
  BY DEF Marked, Row
<1>3. \A r \in Row, e \in {"none", "feeds"} :
        r.finished => /\ [Outcome(r, 0, e) EXCEPT !.counts = "full"].finished
                      /\ Outcome(r, 0, e).finished
  BY DEF Outcome, Row
<1>4. \A i \in DOMAIN log : log[i] \in Row
  BY DEF TypeOK
<1>5. CASE \E n \in 0 .. Feeds, e \in Errors : WithRow(p, LAMBDA r : Outcome(r, n, e))
  <2> PICK n \in 0 .. Feeds, e \in Errors : WithRow(p, LAMBDA r : Outcome(r, n, e))
    BY <1>5
  <2> QED
    BY <1>1, <1>4 DEF WithRow
<1>6. CASE \E n \in 0 .. Feeds, s \in TryStages \cup {"started", "config_loaded"} :
             WithRow(p, LAMBDA r : Marked(r, s, n))
  <2> PICK n \in 0 .. Feeds, s \in TryStages \cup {"started", "config_loaded"} :
        WithRow(p, LAMBDA r : Marked(r, s, n))
    BY <1>6
  <2> QED
    BY <1>2, <1>4 DEF WithRow
<1>7. CASE Finish(p)
  <2> PICK e \in {"none", "feeds"} :
        WithRow(p, LAMBDA r : IF r.errors = "none"
                              THEN [Outcome(r, 0, e) EXCEPT !.counts = "full"]
                              ELSE Outcome(r, 0, e))
    BY <1>7 DEF Finish
  <2> QED
    BY <1>3, <1>4 DEF WithRow
<1> QED
  BY <1>5, <1>6, <1>7

\* A process by itself keeps ReapedBefore: the reaper establishes it.
LEMMA RunsReapedBefore ==
    ASSUME TypeOK, ReapedBefore, NEW p \in Proc, Runs(p)
    PROVE  ReapedBefore'
<1> USE DEF Idle
<1>1. CASE Reap(p)
  <2>1. ASSUME NEW i \in DOMAIN log', Open(log'[i])
        PROVE  i \in DOMAIN log /\ log'[i] = log[i] /\ log[i].age \in Nat /\ log[i].age <= Threshold
    <3>1. i \in DOMAIN log /\ log[i] \in Row
      BY <1>1, <2>1 DEF Reap, TypeOK
    <3>2. CASE Reapable(log[i])
      BY <1>1, <2>1, <3>1, <3>2 DEF Reap, Open, Row
    <3>3. CASE ~Reapable(log[i])
      <4>1. log'[i] = log[i]
        BY <1>1, <3>1, <3>3 DEF Reap
      <4>2. Open(log[i]) /\ ~(log[i].age > Threshold) /\ log[i].age \in Nat
        BY <2>1, <3>1, <3>3, <4>1 DEF Reapable, Row
      <4> QED
        BY <3>1, <4>1, <4>2, TimeAssumption
    <3> QED
      BY <3>2, <3>3
  <2>2. age' = age /\ \A q \in Proc : age[q] \in Nat
    BY <1>1 DEF Reap, Goes, TypeOK
  <2> QED
    BY <2>1, <2>2, TimeAssumption DEF ReapedBefore
<1>2. CASE Insert(p)
  <2>1. \A i \in DOMAIN log' : log'[i].age = 0 \/ (i \in DOMAIN log /\ log'[i] = log[i])
    BY <1>2 DEF Insert
  <2>2. \A q \in Proc : at'[q] \notin Idle \cup {"reap"} =>
          at[q] \notin Idle \cup {"reap"} /\ age'[q] = age[q]
    BY <1>2 DEF Insert, TypeOK
  <2> QED
    BY <2>1, <2>2, ReapedByNone
<1> DEFINE Still == \A q \in Proc : at'[q] \notin Idle \cup {"reap"} =>
                        at[q] \notin Idle \cup {"reap"} /\ age'[q] = age[q]
           None  == \A i \in DOMAIN log' : Open(log'[i]) =>
                        i \in DOMAIN log /\ Open(log[i]) /\ log'[i].age = log[i].age
<1>10. Still /\ None => ReapedBefore'
  BY ReapedByNone
<1>11. ASSUME NEW where \in Places, Goes(p, where), at[p] \notin Idle \cup {"reap"} PROVE Still
  BY <1>11 DEF Goes, TypeOK
<1>12. ASSUME NEW where \in Idle, Ends(p, where) PROVE Still
  BY <1>12 DEF Ends, TypeOK
<1>13. log' = log => None
  OBVIOUS
<1> HIDE DEF Still, None
<1>3. CASE Context(p)
  <2>1. None
    BY <1>3 DEF Context, WithRow, None, Open, TypeOK, Row
  <2>2. Still
    BY <1>3, <1>11 DEF Context, Places
  <2> QED
    BY <1>10, <2>1, <2>2
<1>4. CASE LoadFeeds(p)
  <2>1. CASE Goes(p, "config_loaded") /\ log' = log
    BY <1>4, <1>10, <1>11, <1>13, <2>1 DEF LoadFeeds, Places
  <2>2. CASE WithRow(p, LAMBDA r : Outcome(r, 0, "fatal")) /\ Ends(p, "off")
    <3>1. 0 \in 0 .. Feeds /\ "fatal" \in Errors
      BY CountAssumption DEF Errors
    <3>2. Rewrites(p, "fatal")
      BY <2>2, <3>1, TypeParts, RewritesByOutcome
    <3>3. \A i \in DOMAIN log : log[i].finished => log'[i].finished
      BY <2>2, <3>1, FinishedStays
    <3>4. None
      BY <3>1, <3>2, <3>3, RewritesOpenNone DEF None
    <3> QED
      BY <1>10, <1>12, <2>2, <3>4
  <2> QED
    BY <1>4, <2>1, <2>2 DEF LoadFeeds
<1>5. CASE Mark(p)
  <2>1. /\ at[p] \in TryStages \cup {"started", "config_loaded"} /\ batch[p] \in 0 .. Feeds
        /\ at[p] \notin Idle \cup {"reap"}
    BY <1>5 DEF Mark, After, TryStages, TypeOK
  <2>2. Rewrites(p, "none")
    BY <1>5, <2>1, TypeParts, RewritesByMark DEF Mark
  <2>3. \A i \in DOMAIN log : log[i].finished => log'[i].finished
    BY <1>5, <2>1, FinishedStays DEF Mark
  <2>4. None
    BY <2>2, <2>3, RewritesOpenNone DEF None, Errors
  <2>5. Still
    BY <1>5, <2>1 DEF Mark, Still, TypeOK
  <2> QED
    BY <1>10, <2>4, <2>5
<1>6. CASE MarkPruned(p)
  <2>1. None
    BY <1>6 DEF MarkPruned, None, Open, TypeOK, Row
  <2>2. Still
    BY <1>6 DEF MarkPruned, Still, TypeOK
  <2> QED
    BY <1>10, <2>1, <2>2
<1>7. CASE Awaited(p)
  <2>1. Goes(p, "fetch_complete") \/ Ends(p, "off")
    BY <1>7 DEF Awaited
  <2> QED
    BY <1>7, <1>10, <1>11, <1>12, <1>13, <2>1 DEF Awaited, Places, TryStages
<1>8. CASE ProcessFeed(p)
  BY <1>8, <1>10, <1>13 DEF ProcessFeed, Still
<1>9. CASE Finish(p)
  <2>1. Rewrites(p, "none") \/ Rewrites(p, "feeds")
    BY <1>9, TypeParts, RewritesByFinish DEF Finish
  <2>2. \A i \in DOMAIN log : log[i].finished => log'[i].finished
    BY <1>9, FinishedStays
  <2>3. None
    BY <2>1, <2>2, RewritesOpenNone DEF None, Errors
  <2> QED
    BY <1>9, <1>10, <1>12, <2>3 DEF Finish
<1> QED
  BY <1>1, <1>2, <1>3, <1>4, <1>5, <1>6, <1>7, <1>8, <1>9 DEF Runs

\* So does everything else; the clock ages rows and processes alike.
LEMMA AlwaysReapedBefore == Spec => []ReapedBefore
<1> USE DEF Idle
<1>1. Init => ReapedBefore
  BY DEF Init, ReapedBefore
<1>2. TypeOK /\ ReapedBefore /\ [Next]_vars => ReapedBefore'
  <2> SUFFICES ASSUME TypeOK, ReapedBefore, [Next]_vars PROVE ReapedBefore'
    OBVIOUS
  <2>1. ASSUME NEW p \in Proc, Runs(p) PROVE ReapedBefore'
    BY <2>1, RunsReapedBefore
  <2>2. ASSUME NEW p \in Proc, StartByHand(p) PROVE ReapedBefore'
    BY <2>2 DEF StartByHand, Starts, ReapedBefore, TypeOK
  <2>3. ASSUME NEW p \in Proc, NEW e \in Errors, at[p] \in TryStages, Handler(p, e)
        PROVE  ReapedBefore'
    <3>1. Rewrites(p, e) /\ batch[p] \in 0 .. Feeds
      BY <2>3, TypeParts, HandlerOK DEF TypeOK
    <3>2. \A i \in DOMAIN log : log[i].finished => log'[i].finished
      BY <2>3, <3>1, FinishedStays DEF Handler
    <3>3. \A q \in Proc : at'[q] \notin Idle \cup {"reap"} =>
            at[q] \notin Idle \cup {"reap"} /\ age'[q] = age[q]
      BY <2>3 DEF Handler, Goes, Ends, TypeOK, TryStages
    <3> QED
      BY <3>1, <3>2, <3>3, RewritesOpenNone, ReapedByNone
  <2>4. ASSUME NEW p \in Proc, Crash(p) PROVE ReapedBefore'
    BY <2>3, <2>4 DEF Crash, Errors
  <2>5. ASSUME NEW p \in Proc, Ends(p, "off") \/ Ends(p, "killed"), log' = log
        PROVE  ReapedBefore'
    BY <2>5, ReapedByNone DEF Ends, TypeOK
  <2>6. ASSUME NEW p \in Proc, Vanish(p) PROVE ReapedBefore'
    BY <2>5, <2>6 DEF Vanish
  <2>7. ASSUME NEW p \in Proc, CtrlC(p) PROVE ReapedBefore'
    <3>1. CASE UNCHANGED <<log, at, mine, age, batch>>
      BY <3>1 DEF ReapedBefore
    <3>2. CASE at[p] \in TryStages /\ Handler(p, "interrupted")
      BY <2>3, <3>2 DEF Errors
    <3>3. CASE Ends(p, "off") /\ UNCHANGED log
      BY <2>5, <3>3
    <3> QED
      BY <2>7, <3>1, <3>2, <3>3 DEF CtrlC
  <2>8. CASE Trigger
    BY <2>8 DEF Trigger, Starts, procVars, ReapedBefore, TypeOK
  <2>9. CASE Tick
    <3>1. ASSUME NEW i \in DOMAIN log
          PROVE  /\ log'[i].errors = log[i].errors /\ log'[i].finished = log[i].finished
                 /\ log[i].age \in Nat /\ log'[i].age \in {log[i].age, log[i].age + 1}
      BY <2>9, <3>1 DEF Tick, TypeOK, Row
    <3>2. \A q \in Proc : age[q] \in Nat /\ (at[q] \notin Idle => age'[q] = age[q] + 1)
      BY <2>9 DEF Tick, Live, TypeOK
    <3>3. at' = at /\ DOMAIN log' = DOMAIN log
      BY <2>9 DEF Tick
    <3> QED
      BY <3>1, <3>2, <3>3, TimeAssumption DEF ReapedBefore, Open
  <2>10. CASE BackfillRead \/ UNCHANGED vars
    BY <2>10 DEF BackfillRead, procVars, vars, ReapedBefore
  <2>11. CASE BackfillWrite
    BY <2>11, ReapedByNone DEF BackfillWrite, procVars, TypeOK, Row, Open
  <2> QED
    BY <2>1, <2>2, <2>4, <2>6, <2>7, <2>8, <2>9, <2>10, <2>11 DEF Next
<1> QED
  BY <1>1, <1>2, TypeCorrect, PTL DEF Spec

\* Retention is longer than it takes to give up on a run and run again.
Patient == Threshold + Limit <= Retention /\ Threshold + ManualLimit <= Retention

\* Retention never deletes a run nobody has resolved, nor a live run's row,
\* however many runs reap, prune and die between one another: the reaping at
\* the start of each run is what makes its pruning safe.
THEOREM PrunedResolved ==
    ASSUME Patient
    PROVE  Spec => PrunedIsResolved
<1> DEFINE Gone == \A i \in DOMAIN log \ DOMAIN log' :
                      ~Open(log[i]) /\ \A p \in Proc : Live(p) => mine[p] # i
<1>1. TypeOK /\ InTime /\ ReapedBefore /\ [Next]_vars => Gone
  <2> SUFFICES ASSUME TypeOK, InTime, ReapedBefore, [Next]_vars PROVE Gone
    OBVIOUS
  <2>1. ASSUME NEW p \in Proc, MarkPruned(p) PROVE Gone
    <3>1. ASSUME NEW i \in DOMAIN log \ DOMAIN log' PROVE log[i].age \in Nat /\ log[i].age > Retention
      BY <2>1, <3>1 DEF MarkPruned, Prunable, TypeOK, Row
    <3>2. \A q \in Proc : age[q] \in Nat /\ (age[q] <= Limit \/ age[q] <= ManualLimit)
      BY DEF TypeOK, InTime
    <3>3. ASSUME NEW i \in DOMAIN log \ DOMAIN log' PROVE ~Open(log[i])
      <4>1. Open(log[i]) => log[i].age <= Threshold + age[p]
        BY <2>1 DEF MarkPruned, ReapedBefore, Idle
      <4> QED
        BY <3>1, <3>2, <4>1, TimeAssumption DEF Patient
    <3>4. ASSUME NEW i \in DOMAIN log \ DOMAIN log', NEW q \in Proc PROVE mine[q] # i
      <4>1. mine[q] = i => log[i].age <= age[q]
        BY RunIdAssumption DEF InTime, TypeOK
      <4> QED
        BY <3>1, <3>2, <4>1, TimeAssumption DEF Patient
    <3> QED
      BY <3>3, <3>4
  <2>2. ASSUME DOMAIN log' = DOMAIN log PROVE Gone
    BY <2>2
  <2>3. ASSUME NEW p \in Proc, Runs(p), ~MarkPruned(p) PROVE DOMAIN log \subseteq DOMAIN log'
    BY <2>3 DEF Runs, Reap, Insert, Context, LoadFeeds, Mark, Awaited, ProcessFeed, Finish, WithRow
  <2>4. ASSUME NEW p \in Proc, StartByHand(p) \/ Crash(p) \/ Vanish(p) \/ CtrlC(p)
        PROVE  DOMAIN log' = DOMAIN log
    BY <2>4 DEF StartByHand, Starts, Crash, Vanish, CtrlC, Handler, WithRow
  <2>5. CASE Trigger \/ Tick \/ BackfillRead \/ BackfillWrite \/ UNCHANGED vars
    BY <2>2, <2>5 DEF Trigger, Starts, Tick, BackfillRead, BackfillWrite, vars
  <2> QED
    BY <2>1, <2>2, <2>3, <2>4, <2>5 DEF Next
<1>2. TypeOK /\ InTime /\ ReapedBefore /\ [Next]_vars => [Gone]_vars
  BY <1>1
<1> QED
  BY <1>2, TypeCorrect, AlwaysInTime, AlwaysReapedBefore, PTL DEF Spec, PrunedIsResolved
=============================================================================
