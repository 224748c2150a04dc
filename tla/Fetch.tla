------------------------------- MODULE Fetch -------------------------------
(***************************************************************************)
(* The concurrent part of pipeline/ingest.py: one asyncio task per feed,   *)
(* with a lock per host for the politeness delay, a semaphore over all, a  *)
(* lock per host for robots.txt, and the two robots caches.                *)
(*                                                                         *)
(* The event loop runs one task at a time between awaits: an action is     *)
(* such a stretch.  Times are relative and stop counting where nothing     *)
(* distinguishes them any more: since[h] at Delay, a connect or a read at  *)
(* Timeout, which is httpx's limit for each of them and not for a request. *)
(***************************************************************************)
EXTENDS Integers, FiniteSets

CONSTANTS
    Task,     \* the feeds of a run, a task each
    Origin,   \* scheme and netloc pairs
    Host,     \* hostnames
    OriginOf, \* the origin of each task's feed
    HostOf,   \* the hostname of each origin
    Allows,   \* Allows[o]: whether o's robots.txt allows the feeds on it
    Delay,    \* PER_HOST_DELAY_S in ticks
    Timeout,  \* FETCH_TIMEOUT_S in ticks
    Cap,      \* MAX_CONCURRENCY
    Rows      \* what rows of the table may say when the run starts

NoTask == "NoTask"

ASSUME TaskAssumption == IsFiniteSet(Task) /\ NoTask \notin Task
ASSUME OriginAssumption ==
    OriginOf \in [Task -> Origin] /\ HostOf \in [Origin -> Host] /\ Allows \in [Origin -> BOOLEAN]
ASSUME RowsAssumption == Rows \subseteq {"allow", "deny", "absent", "broken"}
ASSUME FetchTimeAssumption == Delay \in Nat /\ Timeout \in Nat \ {0} /\ Cap \in Nat \ {0}

VARIABLES
    at,       \* where each task is
    left,     \* what is left of its sleep, or the age of its connect or read
    turn,     \* host_locks: the task that holds each
    since,    \* ticks since last_request_at, Delay if never
    opening,  \* robots_locks: the task that holds each
    memory,   \* the run's robots_cache dict, by hostname
    table,    \* the robots_cache table, by hostname
    requests  \* robots.txt requests made, by hostname

vars == <<at, left, turn, since, opening, memory, table, requests>>

HostAt(t) == HostOf[OriginOf[t]]
\* A robots.txt: it allows the feeds or it does not; unread when its fetch
\* failed, which counts as allowed; absent when there is none in the cache.
Robots == {"allow", "deny", "unread", "absent"}
\* What a row may hold besides: a body that RobotFileParser.parse raises on,
\* such as one with the line "Disallow: //[".
Bodies == Robots \cup {"broken"}
Body(o) == IF Allows[o] THEN "allow" ELSE "deny"
Done == {"ok", "error", "skipped", "raised", "cancelled"}
Places == {"start", "sleep", "queue", "robots", "robots_get", "get"} \cup Done

\* The rows of the table when the run starts: one past the TTL counts as
\* absent, and one within it may be of an older robots.txt.
Init ==
    /\ at = [t \in Task |-> "start"]
    /\ left = [t \in Task |-> 0]
    /\ turn = [h \in Host |-> NoTask]
    /\ since = [h \in Host |-> Delay]
    /\ opening = [h \in Host |-> NoTask]
    /\ memory = [h \in Host |-> "absent"]
    /\ table \in [Host -> Rows]
    /\ requests = [h \in Host |-> 0]

Permits == {t \in Task : at[t] \in {"robots", "robots_get", "get"}}
Requesting(t) == at[t] \in {"robots_get", "get"}

(***************************************************************************)
(* _wait_for_host                                                          *)
(***************************************************************************)
\* Without the lock: the remaining time is computed from a last request that
\* a sleeping task is about to replace.
TurnUnlocked(t) ==
    LET h == HostAt(t) IN
    /\ at[t] = "start"
    /\ IF since[h] < Delay
       THEN /\ left' = [left EXCEPT ![t] = Delay - since[h]]
            /\ at' = [at EXCEPT ![t] = "sleep"]
            /\ UNCHANGED since
       ELSE /\ since' = [since EXCEPT ![h] = 0]
            /\ at' = [at EXCEPT ![t] = "queue"]
            /\ UNCHANGED left
    /\ UNCHANGED <<turn, opening, memory, table, requests>>

\* Take the host's lock; sleep out the delay, if any is left, holding it.
Turn(t) ==
    LET h == HostAt(t) IN
    /\ at[t] = "start"
    /\ turn[h] = NoTask
    /\ IF since[h] < Delay
       THEN /\ left' = [left EXCEPT ![t] = Delay - since[h]]
            /\ turn' = [turn EXCEPT ![h] = t]
            /\ at' = [at EXCEPT ![t] = "sleep"]
            /\ UNCHANGED since
       ELSE /\ since' = [since EXCEPT ![h] = 0]
            /\ at' = [at EXCEPT ![t] = "queue"]
            /\ UNCHANGED <<left, turn>>
    /\ UNCHANGED <<opening, memory, table, requests>>

\* asyncio.sleep returns at its time or later.
Awake(t) ==
    LET h == HostAt(t) IN
    /\ at[t] = "sleep" /\ left[t] = 0
    /\ since' = [since EXCEPT ![h] = 0]
    /\ turn' = [turn EXCEPT ![h] = NoTask]
    /\ at' = [at EXCEPT ![t] = "queue"]
    /\ UNCHANGED <<left, opening, memory, table, requests>>

(***************************************************************************)
(* Inside the semaphore                                                    *)
(***************************************************************************)
Acquire(t) ==
    /\ at[t] = "queue"
    /\ Cardinality(Permits) < Cap
    /\ at' = [at EXCEPT ![t] = "robots"]
    /\ UNCHANGED <<left, turn, since, opening, memory, table, requests>>

\* can_fetch, and the feed request right after it.
Decides(t, robots) ==
    IF robots = "deny"
    THEN at' = [at EXCEPT ![t] = "skipped"] /\ UNCHANGED left
    ELSE /\ at' = [at EXCEPT ![t] = "get"]
         /\ left' = [left EXCEPT ![t] = 0]

\* _robots_allowed with an answer in the dict or a fresh one in the table.
RobotsCached(t) ==
    LET h == HostAt(t) IN
    /\ at[t] = "robots" /\ opening[h] = NoTask
    /\ memory[h] # "absent" \/ table[h] \in {"allow", "deny"}
    /\ memory' = [memory EXCEPT ![h] = IF @ = "absent" THEN table[h] ELSE @]
    /\ Decides(t, memory'[h])
    /\ UNCHANGED <<turn, since, opening, table, requests>>

RobotsRequestUnlocked(t) ==
    LET h == HostAt(t) IN
    /\ at[t] = "robots"
    /\ memory[h] = "absent" /\ table[h] = "absent"
    /\ at' = [at EXCEPT ![t] = "robots_get"]
    /\ left' = [left EXCEPT ![t] = 0]
    /\ requests' = [requests EXCEPT ![h] = @ + 1]
    /\ UNCHANGED <<turn, since, opening, memory, table>>

\* _robots_allowed without one: the request is made with the lock held.
RobotsRequest(t) ==
    LET h == HostAt(t) IN
    /\ at[t] = "robots" /\ opening[h] = NoTask
    /\ memory[h] = "absent" /\ table[h] = "absent"
    /\ opening' = [opening EXCEPT ![h] = t]
    /\ at' = [at EXCEPT ![t] = "robots_get"]
    /\ left' = [left EXCEPT ![t] = 0]
    /\ requests' = [requests EXCEPT ![h] = @ + 1]
    /\ UNCHANGED <<turn, since, memory, table>>

RobotsLost(t) ==
    LET h == HostAt(t) IN
    /\ at[t] = "robots_get"
    /\ at' = [at EXCEPT ![t] = "error"]
    /\ UNCHANGED <<left, turn, since, opening, memory, table, requests>>

\* What is read goes to the caches under the hostname: a body to both, a
\* failure to the run's dict only.
RobotsRead(t, robots) ==
    LET h == HostAt(t) IN
    /\ at[t] = "robots_get"
    /\ memory' = [memory EXCEPT ![h] = robots]
    /\ table' = [table EXCEPT ![h] = IF robots = "unread" THEN @ ELSE robots]
    /\ Decides(t, robots)
    /\ opening' = [opening EXCEPT ![h] = NoTask]
    /\ UNCHANGED <<turn, since, requests>>

\* The answer of the task's own origin, or an error of the network or of HTTP.
RobotsAnswer(t) == \E robots \in {Body(OriginOf[t]), "unread"} : RobotsRead(t, robots)

\* httpx.TimeoutException is an HTTPError.
RobotsTimeout(t) == left[t] = Timeout /\ RobotsRead(t, "unread")

\* The feed's request is over; the semaphore is released.
FeedEnds(t, outcome) ==
    /\ at[t] = "get"
    /\ at' = [at EXCEPT ![t] = outcome]
    /\ UNCHANGED <<left, turn, since, opening, memory, table, requests>>

FeedAnswer(t) == \E outcome \in {"ok", "error"} : FeedEnds(t, outcome)

FeedTimeout(t) == left[t] = Timeout /\ FeedEnds(t, "error")

\* The connection is made, a chunk of the body comes or a redirect is
\* followed: the next connect or read has the whole Timeout again.
Drip(t) ==
    /\ Requesting(t) /\ left[t] > 0
    /\ left' = [left EXCEPT ![t] = 0]
    /\ UNCHANGED <<at, turn, since, opening, memory, table, requests>>

(***************************************************************************)
(* An exception out of a task: gather is called without return_exceptions, *)
(* so the first one leaves ingest_once, the client is closed, run()        *)
(* returns and asyncio.run cancels what is still going on.                 *)
(***************************************************************************)
\* asyncio.gather has seen an exception.
Aborted == \E t \in Task : at[t] = "raised"

\* async with releases what the task holds; the host's dict entry is not made.
RaisesOut(t) ==
    /\ at' = [at EXCEPT ![t] = "raised"]
    /\ opening' = [h \in Host |-> IF opening[h] = t THEN NoTask ELSE opening[h]]
    /\ UNCHANGED <<left, turn, since, memory, requests>>

\* _parse_robots raises on the row of an earlier run or task.
RowBreaks(t) ==
    LET h == HostAt(t) IN
    /\ at[t] = "robots" /\ opening[h] = NoTask
    /\ memory[h] = "absent" /\ table[h] = "broken"
    /\ RaisesOut(t)
    /\ UNCHANGED table

\* _parse_robots raises on the answer, which is committed by then; or the
\* commit itself does, since another process holds the write lock.
AnswerBreaks(t) ==
    LET h == HostAt(t) IN
    /\ at[t] = "robots_get"
    /\ \E row \in {"broken", table[h]} : table' = [table EXCEPT ![h] = row]
    /\ RaisesOut(t)

\* A request on the client that the first exception has closed is a
\* RuntimeError, which _fetch_one does not catch either.
ClientClosed(t) ==
    /\ Aborted /\ at[t] = "get"
    /\ RaisesOut(t)
    /\ UNCHANGED table

\* asyncio.run cancels the tasks that are left when run() returns.
Cancel ==
    /\ Aborted /\ \E t \in Task : at[t] \notin Done
    /\ at' = [t \in Task |-> IF at[t] \in Done THEN at[t] ELSE "cancelled"]
    /\ turn' = [h \in Host |-> NoTask]
    /\ opening' = [h \in Host |-> NoTask]
    /\ UNCHANGED <<left, since, memory, table, requests>>

\* A sleep ends, and a connect or read by its timeout, before more time passes.
Tick ==
    /\ \A t \in Task : Requesting(t) => left[t] < Timeout
    /\ left' = [t \in Task |-> IF Requesting(t) THEN left[t] + 1
                               ELSE IF at[t] = "sleep" /\ left[t] > 0 THEN left[t] - 1
                               ELSE left[t]]
    /\ since' = [h \in Host |-> IF since[h] < Delay THEN since[h] + 1 ELSE since[h]]
    /\ UNCHANGED <<at, turn, opening, memory, table, requests>>

\* asyncio.gather has returned.
Gathered == (\A t \in Task : at[t] \in Done) /\ UNCHANGED vars

\* What the process does by itself.
Step(t) ==
    \/ Turn(t) \/ Awake(t) \/ Acquire(t) \/ RobotsCached(t) \/ RobotsRequest(t)
    \/ RobotsTimeout(t) \/ FeedTimeout(t) \/ RowBreaks(t)

\* What it is done by the network, or by another process.
Network(t) ==
    \/ RobotsAnswer(t) \/ FeedAnswer(t) \/ Drip(t)
    \/ AnswerBreaks(t) \/ ClientClosed(t)

Next == (\E t \in Task : Step(t) \/ Network(t)) \/ Cancel \/ Tick \/ Gathered

Spec == Init /\ [][Next]_vars

\* The event loop runs what can run, and the clock goes on.  No server owes
\* an answer.
FairSpec == Spec /\ WF_vars(Tick) /\ \A t \in Task : WF_vars(Step(t))

(***************************************************************************)
(* Properties                                                              *)
(***************************************************************************)
\* Types; a lock is held by a task that is where the code holds it.
TypeOK ==
    /\ at \in [Task -> Places]
    /\ left \in [Task -> 0 .. Delay + Timeout]
    /\ turn \in [Host -> Task \cup {NoTask}]
    /\ opening \in [Host -> Task \cup {NoTask}]
    /\ \A h \in Host : turn[h] # NoTask => at[turn[h]] = "sleep" /\ HostAt(turn[h]) = h
    /\ \A h \in Host : opening[h] # NoTask => at[opening[h]] = "robots_get" /\ HostAt(opening[h]) = h
    /\ since \in [Host -> 0 .. Delay]
    /\ memory \in [Host -> Robots] /\ table \in [Host -> Bodies]
    /\ requests \in [Host -> Nat]

\* FR-205: no more than Cap requests are under way, robots.txt requests and
\* tasks waiting for another's robots.txt included.  Proved in FetchProofs.
CapRespected == Cardinality(Permits) <= Cap

\* FR-205, for what the lock spaces: two turns at a host are Delay apart.
TurnsSpaced ==
    [][\A h \in Host : (\E t \in Task : HostAt(t) = h /\ at'[t] = "queue" /\ at[t] # "queue")
                        => since[h] = Delay]_vars

\* FR-203: one robots.txt request per host and run, also when it fails; not
\* when a commit raised, after which a waiter may ask again before the end.
RobotsReadOnce == Aborted \/ \A h \in Host : requests[h] <= 1

\* What the comment on _fetch_robots_body says: a feed gets its own origin's
\* robots.txt.  In a run that finds no row in the table, a feed whose origin
\* disallows it is requested only if a robots.txt could not be read.
OwnRobots ==
    \A t \in Task : at[t] = "get" /\ memory[HostAt(t)] # "unread" => Allows[OriginOf[t]]

\* NFR-401, as the comment on _fetch_one has it: "a single feed can never abort
\* the run".  No feed loses its result to what another feed's host answers.
OneFeedNeverAborts == \A t \in Task : at[t] # "cancelled"

\* gather returns or raises: no lock, delay, semaphore or unanswered request
\* keeps a feed waiting for good.  The exception is a server that drips for
\* ever, a chunk or a redirect within each Timeout: nothing in the code ends
\* its request, and every feed behind its permit or its robots lock waits.
EventuallyGathered ==
    \/ <>(\A t \in Task : at[t] \in Done)
    \/ []<><<\E t \in Task : Drip(t)>>_vars
=============================================================================
