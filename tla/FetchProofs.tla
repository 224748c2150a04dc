---------------------------- MODULE FetchProofs ----------------------------
(***************************************************************************)
(* Proofs about Fetch, for any feeds, hosts, origins, delay, timeout, cap  *)
(* and contents of the robots_cache table.                                 *)
(***************************************************************************)
EXTENDS Fetch, FiniteSetTheorems, TLAPS

\* What a deciding task does to its own place, and to nobody else's.
LEMMA DecidesOK ==
    ASSUME TypeOK, NEW t \in Task, NEW robots \in Robots, Decides(t, robots)
    PROVE  /\ at' \in [Task -> Places] /\ left' \in [Task -> 0 .. Delay + Timeout]
           /\ at'[t] \in {"get", "skipped"}
           /\ \A x \in Task \ {t} : at'[x] = at[x] /\ left'[x] = left[x]
BY OriginAssumption, FetchTimeAssumption DEF TypeOK, Decides, Places, Done, HostAt

\* What is read of a robots.txt, answered or not.
LEMMA ReadsOne ==
    ASSUME NEW t \in Task, RobotsAnswer(t) \/ RobotsTimeout(t)
    PROVE  \E robots \in {"allow", "deny", "unread"} : RobotsRead(t, robots)
BY DEF RobotsAnswer, RobotsTimeout, Body

\* A lock is let go by its holder alone: the locks of TypeOK stay with tasks
\* that are where the code holds them.
LocksOK ==
    /\ turn \in [Host -> Task \cup {NoTask}]
    /\ opening \in [Host -> Task \cup {NoTask}]
    /\ \A h \in Host : turn[h] # NoTask => at[turn[h]] = "sleep" /\ HostAt(turn[h]) = h
    /\ \A h \in Host : opening[h] # NoTask => at[opening[h]] = "robots_get" /\ HostAt(opening[h]) = h

\* The types are kept by every step of a task and by the clock.
LEMMA TypeStep == TypeOK /\ [Next]_vars => TypeOK'
<1> SUFFICES ASSUME TypeOK, [Next]_vars PROVE TypeOK'
  OBVIOUS
<1> USE OriginAssumption, FetchTimeAssumption, TaskAssumption
<1>host. \A t \in Task : HostAt(t) \in Host
  BY DEF HostAt
<1>1. ASSUME NEW t \in Task, Turn(t) PROVE TypeOK'
  BY <1>1, <1>host DEF Turn, TypeOK, Places, HostAt
<1>2. ASSUME NEW t \in Task, Awake(t) PROVE TypeOK'
  BY <1>2, <1>host DEF Awake, TypeOK, Places, HostAt
<1>3. ASSUME NEW t \in Task, Acquire(t) PROVE TypeOK'
  BY <1>3 DEF Acquire, TypeOK, Places, HostAt
<1>4. ASSUME NEW t \in Task, RobotsCached(t) PROVE TypeOK'
  <2>1. memory' \in [Host -> Robots] /\ memory'[HostAt(t)] \in Robots
    BY <1>4, <1>host DEF RobotsCached, TypeOK, Robots
  <2>2. at[t] = "robots" /\ UNCHANGED <<turn, since, opening, table, requests>>
    BY <1>4 DEF RobotsCached
  <2>3. Decides(t, memory'[HostAt(t)])
    BY <1>4 DEF RobotsCached
  <2>4. /\ at' \in [Task -> Places] /\ left' \in [Task -> 0 .. Delay + Timeout]
        /\ \A x \in Task \ {t} : at'[x] = at[x]
    BY <2>1, <2>3, DecidesOK
  <2>5. LocksOK'
    BY <2>2, <2>4 DEF TypeOK, LocksOK, HostAt
  <2> QED
    BY <2>1, <2>2, <2>4, <2>5 DEF TypeOK, LocksOK
<1>5. ASSUME NEW t \in Task, RobotsRequest(t) PROVE TypeOK'
  BY <1>5, <1>host DEF RobotsRequest, TypeOK, Places, HostAt
<1>6. ASSUME NEW t \in Task, NEW robots \in {"allow", "deny", "unread"}, RobotsRead(t, robots)
      PROVE  TypeOK'
  <2>1. /\ memory' = [memory EXCEPT ![HostAt(t)] = robots]
        /\ table' = [table EXCEPT ![HostAt(t)] = IF robots = "unread" THEN @ ELSE robots]
        /\ Decides(t, robots)
        /\ at[t] = "robots_get" /\ opening' = [opening EXCEPT ![HostAt(t)] = NoTask]
        /\ UNCHANGED <<turn, since, requests>>
    BY <1>6 DEF RobotsRead
  <2>2. robots \in Robots
    BY DEF Robots
  <2>4. /\ at' \in [Task -> Places] /\ left' \in [Task -> 0 .. Delay + Timeout]
        /\ \A x \in Task \ {t} : at'[x] = at[x]
    BY <2>1, <2>2, DecidesOK
  <2>5. memory' \in [Host -> Robots] /\ table' \in [Host -> Bodies]
    BY <2>1, <2>2, <1>host DEF TypeOK, Bodies
  <2>6. LocksOK'
    BY <2>1, <2>4, <1>host DEF TypeOK, LocksOK, HostAt
  <2> QED
    BY <2>1, <2>4, <2>5, <2>6 DEF TypeOK, LocksOK
<1>7. ASSUME NEW t \in Task, FeedAnswer(t) \/ FeedTimeout(t) \/ Drip(t) PROVE TypeOK'
  BY <1>7 DEF FeedAnswer, FeedTimeout, FeedEnds, Drip, Requesting, TypeOK, Places, Done, HostAt
<1>8. CASE Tick
  BY <1>8 DEF Tick, TypeOK, Requesting, HostAt
<1>9. CASE UNCHANGED vars
  BY <1>9 DEF vars, TypeOK, HostAt
<1>10. ASSUME NEW t \in Task, RaisesOut(t), at[t] # "sleep", table' \in [Host -> Bodies]
       PROVE  TypeOK'
  BY <1>10, <1>host DEF RaisesOut, TypeOK, Places, Done, HostAt
<1>11. ASSUME NEW t \in Task, RowBreaks(t) \/ AnswerBreaks(t) \/ ClientClosed(t)
       PROVE  TypeOK'
  <2>1. RaisesOut(t) /\ at[t] # "sleep"
    BY <1>11 DEF RowBreaks, AnswerBreaks, ClientClosed
  <2>2. table' \in [Host -> Bodies]
    BY <1>11, <1>host DEF RowBreaks, AnswerBreaks, ClientClosed, TypeOK, Bodies
  <2> QED
    BY <1>10, <2>1, <2>2
<1>12. CASE Cancel
  BY <1>12 DEF Cancel, TypeOK, Places, Done, HostAt
<1> QED
  BY <1>1, <1>2, <1>3, <1>4, <1>5, <1>6, <1>7, <1>8, <1>9, <1>11, <1>12, ReadsOne
  DEF Next, Step, Network, Gathered

\* Every place, lock, time and cached answer keeps its type; a lock is held
\* only by a task that is in the stretch the code holds it over.
THEOREM TypeCorrect == Spec => []TypeOK
<1>1. Init => TypeOK
  <2> SUFFICES ASSUME Init PROVE TypeOK
    OBVIOUS
  <2>1. table \in [Host -> Bodies] /\ memory \in [Host -> Robots]
    BY RowsAssumption DEF Init, Robots, Bodies
  <2>2. at \in [Task -> Places] /\ requests \in [Host -> Nat]
    BY DEF Init, Places
  <2>3. /\ left \in [Task -> 0 .. Delay + Timeout]
        /\ since \in [Host -> 0 .. Delay]
    BY FetchTimeAssumption DEF Init
  <2>4. LocksOK
    BY DEF Init, LocksOK
  <2> QED
    BY <2>1, <2>2, <2>3, <2>4 DEF TypeOK, LocksOK
<1> QED
  BY <1>1, TypeStep, PTL DEF Spec

(***************************************************************************)
(* The cap                                                                 *)
(***************************************************************************)
\* Whatever number of feeds a run has, no more than Cap tasks are past the
\* semaphore: the robots.txt requests count against it.
THEOREM CapHolds == Spec => []CapRespected
<1> USE TaskAssumption, FetchTimeAssumption
<1>1. Init => CapRespected
  <2> SUFFICES ASSUME Init PROVE CapRespected
    OBVIOUS
  <2>1. Permits = {}
    BY DEF Init, Permits
  <2> QED
    BY <2>1, FS_EmptySet DEF CapRespected
<1>2. TypeOK /\ CapRespected /\ [Next]_vars => CapRespected'
  <2> SUFFICES ASSUME TypeOK, CapRespected, [Next]_vars PROVE CapRespected'
    OBVIOUS
  <2>1. IsFiniteSet(Permits) /\ Cardinality(Permits) \in Nat
    BY FS_Subset, FS_CardinalityType DEF Permits
  <2>2. ASSUME Permits' \subseteq Permits PROVE CapRespected'
    <3>1. Cardinality(Permits') <= Cardinality(Permits) /\ Cardinality(Permits') \in Nat
      BY <2>1, <2>2, FS_Subset, FS_CardinalityType
    <3> QED
      BY <2>1, <3>1 DEF CapRespected
  <2>3. ASSUME NEW t \in Task, Acquire(t) PROVE CapRespected'
    <3>1. Permits' = Permits \cup {t} /\ t \notin Permits
      BY <2>3 DEF Acquire, Permits, TypeOK
    <3>2. Cardinality(Permits') = Cardinality(Permits) + 1
      BY <2>1, <3>1, FS_AddElement
    <3> QED
      BY <2>1, <2>3, <3>2 DEF Acquire, CapRespected
  <2>4. ASSUME NEW t \in Task, \/ Turn(t) \/ Awake(t) \/ RobotsRequest(t)
                               \/ FeedAnswer(t) \/ FeedTimeout(t) \/ Drip(t)
        PROVE  Permits' \subseteq Permits
    BY <2>4 DEF Turn, Awake, RobotsRequest, FeedAnswer, FeedTimeout, FeedEnds, Drip, Permits, TypeOK
  <2>5. ASSUME NEW t \in Task, NEW robots, Decides(t, robots), t \in Permits
        PROVE  Permits' \subseteq Permits
    BY <2>5 DEF Decides, Permits, TypeOK
  <2>6. ASSUME NEW t \in Task, RobotsCached(t) \/ RobotsAnswer(t) \/ RobotsTimeout(t)
        PROVE  Permits' \subseteq Permits
    BY <2>5, <2>6, ReadsOne DEF RobotsCached, RobotsRead, Permits
  <2>7. ASSUME NEW t \in Task, RowBreaks(t) \/ AnswerBreaks(t) \/ ClientClosed(t)
        PROVE  Permits' \subseteq Permits
    BY <2>7 DEF RowBreaks, AnswerBreaks, ClientClosed, RaisesOut, Permits, TypeOK
  <2>8. CASE Cancel \/ Tick \/ UNCHANGED vars
    <3>1. Permits' \subseteq Permits
      BY <2>8 DEF Cancel, Tick, vars, Permits, Done
    <3> QED
      BY <2>2, <3>1
  <2> QED
    BY <2>2, <2>3, <2>4, <2>6, <2>7, <2>8 DEF Next, Step, Network, Gathered
<1> QED
  BY <1>1, <1>2, TypeCorrect, PTL DEF Spec

(***************************************************************************)
(* One robots.txt request per host                                         *)
(***************************************************************************)
\* A task that waits for a robots.txt has its host's lock, and a host whose
\* file nobody holds or waits for has not been asked.
AskedHolding ==
    /\ \A t \in Task : at[t] = "robots_get" => opening[HostAt(t)] = t
    /\ \A h \in Host : memory[h] = "absent" /\ opening[h] = NoTask => requests[h] = 0
    /\ \A h \in Host : requests[h] <= 1

\* What raised is not taken back.
LEMMA AbortStays == TypeOK /\ [Next]_vars /\ Aborted => Aborted'
<1> SUFFICES ASSUME TypeOK, [Next]_vars, NEW a \in Task, at[a] = "raised"
             PROVE  at'[a] = "raised"
  BY DEF Aborted
<1> USE OriginAssumption
<1>1. ASSUME NEW t \in Task, \/ Turn(t) \/ Awake(t) \/ Acquire(t) \/ RobotsRequest(t)
                             \/ FeedAnswer(t) \/ FeedTimeout(t) \/ Drip(t)
      PROVE  at'[a] = "raised"
  BY <1>1 DEF Turn, Awake, Acquire, RobotsRequest, FeedAnswer, FeedTimeout, FeedEnds, Drip, TypeOK
<1>2. ASSUME NEW t \in Task, RobotsCached(t) \/ RobotsAnswer(t) \/ RobotsTimeout(t)
      PROVE  at'[a] = "raised"
  BY <1>2, ReadsOne DEF RobotsCached, RobotsRead, Decides, TypeOK
<1>3. ASSUME NEW t \in Task, RowBreaks(t) \/ AnswerBreaks(t) \/ ClientClosed(t)
      PROVE  at'[a] = "raised"
  BY <1>3 DEF RowBreaks, AnswerBreaks, ClientClosed, RaisesOut, TypeOK
<1>4. CASE Cancel \/ Tick \/ UNCHANGED vars
  BY <1>4 DEF Cancel, Tick, vars, Done
<1> QED
  BY <1>1, <1>2, <1>3, <1>4 DEF Next, Step, Network, Gathered

\* No step asks a second time: the request is made with the lock held and the
\* dict empty, and the lock is let go only with the dict filled, or with the
\* exception that aborts the run.
LEMMA AskedStep == TypeOK /\ AskedHolding /\ [Next]_vars => AskedHolding' \/ Aborted'
<1> SUFFICES ASSUME TypeOK, AskedHolding, [Next]_vars, ~ Aborted' PROVE AskedHolding'
  OBVIOUS
<1> USE TaskAssumption, OriginAssumption
<1>host. \A t \in Task : HostAt(t) \in Host /\ HostAt(t)' = HostAt(t) /\ t # NoTask
  BY DEF HostAt
<1>1. ASSUME NEW t \in Task, \/ Turn(t) \/ Awake(t) \/ Acquire(t)
                             \/ FeedAnswer(t) \/ FeedTimeout(t) \/ Drip(t)
      PROVE  AskedHolding'
  BY <1>1, <1>host DEF Turn, Awake, Acquire, FeedAnswer, FeedTimeout, FeedEnds, Drip, AskedHolding,
     TypeOK, Places
<1>2. ASSUME NEW t \in Task, RobotsCached(t) PROVE AskedHolding'
  <2>1. /\ at[t] = "robots" /\ opening[HostAt(t)] = NoTask
        /\ memory' = [memory EXCEPT ![HostAt(t)] = IF @ = "absent" THEN table[HostAt(t)] ELSE @]
        /\ memory'[HostAt(t)] \in Robots
        /\ Decides(t, memory'[HostAt(t)])
        /\ memory'[HostAt(t)] # "absent"
        /\ UNCHANGED <<opening, requests>>
    BY <1>2, <1>host DEF RobotsCached, TypeOK, Robots
  <2>2. at'[t] # "robots_get" /\ \A x \in Task \ {t} : at'[x] = at[x]
    BY <2>1, DecidesOK
  <2>3. \A h \in Host : memory'[h] = "absent" => memory[h] = "absent"
    BY <2>1, <1>host DEF TypeOK
  <2> QED
    BY <2>1, <2>2, <2>3, <1>host DEF AskedHolding
<1>3. ASSUME NEW t \in Task, RobotsRequest(t) PROVE AskedHolding'
  <2> DEFINE h == HostAt(t)
  <2>1. /\ opening' = [opening EXCEPT ![h] = t] /\ at' = [at EXCEPT ![t] = "robots_get"]
        /\ requests' = [requests EXCEPT ![h] = @ + 1] /\ memory' = memory
        /\ opening[h] = NoTask /\ memory[h] = "absent"
    BY <1>3 DEF RobotsRequest
  <2>2. requests[h] = 0
    BY <2>1, <1>host DEF AskedHolding
  <2>3. \A x \in Task : at'[x] = "robots_get" => opening'[HostAt(x)] = x
    BY <2>1, <1>host DEF AskedHolding, TypeOK
  <2>4. \A k \in Host : /\ memory'[k] = "absent" /\ opening'[k] = NoTask => requests'[k] = 0
                        /\ requests'[k] <= 1
    BY <2>1, <2>2, <1>host DEF AskedHolding, TypeOK
  <2> QED
    BY <2>3, <2>4, <1>host DEF AskedHolding
<1>4. ASSUME NEW t \in Task, RobotsAnswer(t) \/ RobotsTimeout(t) PROVE AskedHolding'
  <2> DEFINE h == HostAt(t)
  <2>1. PICK robots \in {"allow", "deny", "unread"} : RobotsRead(t, robots)
    BY <1>4, ReadsOne
  <2>2. robots \in Robots /\ robots # "absent"
    BY DEF Robots
  <2>3. /\ memory' = [memory EXCEPT ![h] = robots] /\ Decides(t, robots)
        /\ at[t] = "robots_get" /\ opening' = [opening EXCEPT ![h] = NoTask]
        /\ requests' = requests
    BY <2>1 DEF RobotsRead
  <2>4. at'[t] # "robots_get" /\ \A x \in Task \ {t} : at'[x] = at[x]
    BY <2>2, <2>3, DecidesOK
  <2>5. \A x \in Task : at'[x] = "robots_get" => opening'[HostAt(x)] = x
    BY <2>3, <2>4, <1>host DEF AskedHolding, TypeOK
  <2>6. \A k \in Host : memory'[k] = "absent" /\ opening'[k] = NoTask => requests'[k] = 0
    BY <2>2, <2>3, <1>host DEF AskedHolding, TypeOK
  <2> QED
    BY <2>3, <2>5, <2>6, <1>host DEF AskedHolding
<1>5. ASSUME NEW t \in Task, RowBreaks(t) \/ AnswerBreaks(t) \/ ClientClosed(t)
      PROVE  FALSE
  <2>1. at'[t] = "raised"
    BY <1>5 DEF RowBreaks, AnswerBreaks, ClientClosed, RaisesOut, TypeOK
  <2> QED
    BY <2>1 DEF Aborted
<1>6. CASE Cancel
  <2>1. PICK a \in Task : at[a] = "raised"
    BY <1>6 DEF Cancel, Aborted
  <2>2. at'[a] = "raised"
    BY <1>6, <2>1 DEF Cancel, Done
  <2> QED
    BY <2>2 DEF Aborted
<1>7. CASE Tick \/ UNCHANGED vars
  BY <1>7, <1>host DEF Tick, vars, AskedHolding
<1> QED
  BY <1>1, <1>2, <1>3, <1>4, <1>5, <1>6, <1>7 DEF Next, Step, Network, Gathered

\* FR-203 for any number of feeds and hosts: whatever the answers are and
\* whenever they come, a run asks a host for its robots.txt once.
THEOREM AskedOnce == Spec => []RobotsReadOnce
<1> DEFINE AskedInv == Aborted \/ AskedHolding
<1>1. Init => AskedInv
  BY DEF Init, AskedHolding
<1>2. TypeOK /\ AskedInv /\ [Next]_vars => AskedInv'
  BY AskedStep, AbortStays
<1>3. AskedInv => RobotsReadOnce
  BY DEF AskedHolding, RobotsReadOnce
<1> QED
  BY <1>1, <1>2, <1>3, TypeCorrect, PTL DEF Spec

(***************************************************************************)
(* The politeness delay                                                    *)
(***************************************************************************)
\* A sleeping task has its host's lock, and what is left of its sleep is what
\* is left of the delay.
SleepsRest ==
    \A t \in Task : at[t] = "sleep" =>
        turn[HostAt(t)] = t /\ left[t] + since[HostAt(t)] = Delay

\* Nobody moves a host's last request under a sleeping task.
LEMMA SleepStep == TypeOK /\ SleepsRest /\ [Next]_vars => SleepsRest'
<1> SUFFICES ASSUME TypeOK, SleepsRest, [Next]_vars PROVE SleepsRest'
  OBVIOUS
<1> USE TaskAssumption, OriginAssumption, FetchTimeAssumption
<1>host. \A t \in Task : HostAt(t) \in Host /\ HostAt(t)' = HostAt(t) /\ t # NoTask
  BY DEF HostAt
<1>1. ASSUME NEW t \in Task, Turn(t) PROVE SleepsRest'
  BY <1>1, <1>host DEF Turn, SleepsRest, TypeOK, Places
<1>2. ASSUME NEW t \in Task, Awake(t) PROVE SleepsRest'
  BY <1>2, <1>host DEF Awake, SleepsRest, TypeOK, Places
<1>3. ASSUME NEW t \in Task, \/ Acquire(t) \/ RobotsRequest(t)
                             \/ FeedAnswer(t) \/ FeedTimeout(t) \/ Drip(t)
      PROVE  SleepsRest'
  BY <1>3, <1>host DEF Acquire, RobotsRequest, FeedAnswer, FeedTimeout, FeedEnds, Drip, Requesting,
     SleepsRest, TypeOK, Places
<1>4. ASSUME NEW t \in Task, RobotsCached(t) \/ RobotsAnswer(t) \/ RobotsTimeout(t)
      PROVE  SleepsRest'
  <2>1. UNCHANGED <<turn, since>>
    BY <1>4, ReadsOne DEF RobotsCached, RobotsRead
  <2>2. PICK robots \in Robots : Decides(t, robots)
    BY <1>4, <1>host, ReadsOne DEF RobotsCached, RobotsRead, TypeOK, Robots
  <2>3. at'[t] # "sleep" /\ \A x \in Task \ {t} : at'[x] = at[x] /\ left'[x] = left[x]
    BY <2>2, DecidesOK
  <2> QED
    BY <2>1, <2>3, <1>host DEF SleepsRest
<1>5. CASE Tick
  <2> SUFFICES ASSUME NEW t \in Task, at'[t] = "sleep"
               PROVE  turn'[HostAt(t)] = t /\ left'[t] + since'[HostAt(t)] = Delay
    BY <1>host DEF SleepsRest
  <2> DEFINE h == HostAt(t)
  <2>1. at[t] = "sleep" /\ turn'[h] = turn[h] /\ ~ Requesting(t)
    BY <1>5 DEF Tick, Requesting
  <2>2. turn[h] = t /\ left[t] + since[h] = Delay
    BY <2>1 DEF SleepsRest
  <2>3. left'[t] = IF left[t] > 0 THEN left[t] - 1 ELSE left[t]
    BY <1>5, <2>1 DEF Tick
  <2>4. since'[h] = IF since[h] < Delay THEN since[h] + 1 ELSE since[h]
    BY <1>5, <1>host DEF Tick
  <2>5. left[t] \in 0 .. Delay + Timeout /\ since[h] \in 0 .. Delay
    BY <1>host DEF TypeOK
  <2> QED
    BY <2>1, <2>2, <2>3, <2>4, <2>5
<1>6. ASSUME NEW t \in Task, RowBreaks(t) \/ AnswerBreaks(t) \/ ClientClosed(t)
      PROVE  SleepsRest'
  BY <1>6, <1>host DEF RowBreaks, AnswerBreaks, ClientClosed, RaisesOut, SleepsRest, TypeOK
<1>7. CASE Cancel
  BY <1>7 DEF Cancel, SleepsRest, Done
<1>8. CASE UNCHANGED vars
  BY <1>8, <1>host DEF vars, SleepsRest
<1> QED
  BY <1>1, <1>2, <1>3, <1>4, <1>5, <1>6, <1>7, <1>8 DEF Next, Step, Network, Gathered

\* FR-205 for any delay and any number of feeds on a host: a task gets its
\* turn only when the whole delay has passed since the turn before it.
THEOREM DelayKept == Spec => TurnsSpaced
<1> DEFINE Spaced == \A h \in Host :
                       (\E t \in Task : HostAt(t) = h /\ at'[t] = "queue" /\ at[t] # "queue")
                         => since[h] = Delay
<1>1. Init => SleepsRest
  BY DEF Init, SleepsRest
<1>2. TypeOK /\ SleepsRest /\ [Next]_vars => [Spaced]_vars
  <2> SUFFICES ASSUME TypeOK, SleepsRest, Next,
                      NEW t \in Task, at'[t] = "queue", at[t] # "queue"
               PROVE  since[HostAt(t)] = Delay
    OBVIOUS
  <2> USE TaskAssumption, OriginAssumption, FetchTimeAssumption
  <2>host. HostAt(t) \in Host
    BY DEF HostAt
  <2>1. ASSUME NEW x \in Task, Turn(x) PROVE since[HostAt(t)] = Delay
    <3>1. x = t /\ ~ (since[HostAt(x)] < Delay)
      BY <2>1 DEF Turn, TypeOK
    <3> QED
      BY <3>1, <2>host DEF TypeOK
  <2>2. ASSUME NEW x \in Task, Awake(x) PROVE since[HostAt(t)] = Delay
    BY <2>2, <2>host DEF Awake, TypeOK, SleepsRest
  <2>3. ASSUME NEW x \in Task, \/ Acquire(x) \/ RobotsRequest(x)
                               \/ FeedAnswer(x) \/ FeedTimeout(x) \/ Drip(x)
        PROVE  FALSE
    BY <2>3 DEF Acquire, RobotsRequest, FeedAnswer, FeedTimeout, FeedEnds, Drip, TypeOK
  <2>4. ASSUME NEW x \in Task, RobotsCached(x) \/ RobotsAnswer(x) \/ RobotsTimeout(x) PROVE FALSE
    <3>1. HostAt(x) \in Host
      BY DEF HostAt
    <3>2. PICK robots \in Robots : Decides(x, robots)
      BY <2>4, <3>1, ReadsOne DEF RobotsCached, RobotsRead, TypeOK, Robots
    <3>3. at'[x] # "queue" /\ \A y \in Task \ {x} : at'[y] = at[y]
      BY <3>2, DecidesOK
    <3> QED
      BY <3>3
  <2>5. CASE Tick \/ Gathered
    BY <2>5 DEF Tick, Gathered, vars
  <2>6. ASSUME NEW x \in Task, RowBreaks(x) \/ AnswerBreaks(x) \/ ClientClosed(x) PROVE FALSE
    BY <2>6 DEF RowBreaks, AnswerBreaks, ClientClosed, RaisesOut, TypeOK
  <2>7. CASE Cancel
    BY <2>7 DEF Cancel
  <2> QED
    BY <2>1, <2>2, <2>3, <2>4, <2>5, <2>6, <2>7 DEF Next, Step, Network
<1> QED
  BY <1>1, <1>2, SleepStep, TypeCorrect, PTL DEF Spec, TurnsSpaced

(***************************************************************************)
(* The way to the end.  A waiting task waits for one that waits for nobody *)
(* but the clock, and no task takes a step back.                           *)
(***************************************************************************)
\* Some action of Step(t) has its guard: no answer is waited for here.
Ready(t) ==
    LET h == HostAt(t) IN
    \/ at[t] = "start" /\ turn[h] = NoTask
    \/ at[t] = "sleep" /\ left[t] = 0
    \/ at[t] = "queue" /\ Cardinality(Permits) < Cap
    \/ /\ at[t] = "robots" /\ opening[h] = NoTask
       /\ \/ memory[h] # "absent" \/ table[h] \in {"allow", "deny"}
          \/ memory[h] = "absent" /\ table[h] = "absent"
          \/ memory[h] = "absent" /\ table[h] = "broken"
    \/ Requesting(t) /\ left[t] = Timeout

\* The clock alone takes it on: it is asleep, or a connect or read has time left.
Timed(t) ==
    \/ at[t] = "sleep" /\ left[t] > 0
    \/ Requesting(t) /\ left[t] < Timeout

\* While a feed is without its result some task can go on, or the clock can
\* and takes one of them on.
NeverStuck ==
    \/ \A t \in Task : at[t] \in Done
    \/ \E t \in Task : Ready(t)
    \/ (\E t \in Task : Timed(t)) /\ \A t \in Task : Requesting(t) => left[t] < Timeout

\* A failed request leaves no row.
RowsRead == \A h \in Host : table[h] # "unread"

LEMMA RowsReadStep == TypeOK /\ RowsRead /\ [Next]_vars => RowsRead'
<1> SUFFICES ASSUME TypeOK, RowsRead, [Next]_vars PROVE RowsRead'
  OBVIOUS
<1>1. ASSUME NEW t \in Task, RobotsAnswer(t) \/ RobotsTimeout(t) PROVE RowsRead'
  <2>1. PICK robots \in {"allow", "deny", "unread"} : RobotsRead(t, robots)
    BY <1>1, ReadsOne
  <2>2. \A h \in Host : table'[h] = table[h] \/ table'[h] \in {"allow", "deny"}
    BY <2>1 DEF RobotsRead, TypeOK
  <2> QED
    BY <2>2 DEF RowsRead
<1>2. ASSUME NEW t \in Task, AnswerBreaks(t) PROVE RowsRead'
  <2>1. HostAt(t) \in Host
    BY OriginAssumption DEF HostAt
  <2>2. \A h \in Host : table'[h] \in {table[h], "broken"}
    BY <1>2, <2>1 DEF AnswerBreaks, TypeOK
  <2> QED
    BY <2>2 DEF RowsRead
<1>3. ASSUME UNCHANGED table PROVE RowsRead'
  BY <1>3 DEF RowsRead
<1> QED
  BY <1>1, <1>2, <1>3 DEF Next, Step, Network, Turn, Awake, Acquire, RobotsCached, RobotsRequest,
     FeedAnswer, FeedTimeout, FeedEnds, Drip, RowBreaks, ClientClosed, Cancel, Tick, Gathered, vars

\* No connect or read is older than the limit httpx gives it.
AgesBounded == \A t \in Task : Requesting(t) => left[t] <= Timeout

LEMMA AgesStep == TypeOK /\ AgesBounded /\ [Next]_vars => AgesBounded'
<1> SUFFICES ASSUME TypeOK, AgesBounded, [Next]_vars PROVE AgesBounded'
  OBVIOUS
<1> USE FetchTimeAssumption, OriginAssumption
<1>1. ASSUME NEW t \in Task, \/ Turn(t) \/ Awake(t) \/ Acquire(t) \/ RobotsRequest(t)
                             \/ FeedAnswer(t) \/ FeedTimeout(t) \/ Drip(t)
      PROVE  AgesBounded'
  BY <1>1 DEF Turn, Awake, Acquire, RobotsRequest, FeedAnswer, FeedTimeout, FeedEnds, Drip,
     AgesBounded, Requesting, TypeOK
<1>2. ASSUME NEW t \in Task, NEW robots, Decides(t, robots) PROVE AgesBounded'
  BY <1>2 DEF Decides, AgesBounded, Requesting, TypeOK
<1>3. ASSUME NEW t \in Task, RobotsCached(t) \/ RobotsAnswer(t) \/ RobotsTimeout(t)
      PROVE  AgesBounded'
  BY <1>2, <1>3, ReadsOne DEF RobotsCached, RobotsRead
<1>4. ASSUME NEW t \in Task, RowBreaks(t) \/ AnswerBreaks(t) \/ ClientClosed(t)
      PROVE  AgesBounded'
  BY <1>4 DEF RowBreaks, AnswerBreaks, ClientClosed, RaisesOut, AgesBounded, Requesting, TypeOK
<1>5. CASE Cancel \/ UNCHANGED vars
  BY <1>5 DEF Cancel, vars, AgesBounded, Requesting, Done
<1>6. CASE Tick
  BY <1>6 DEF Tick, AgesBounded, Requesting, TypeOK
<1> QED
  BY <1>1, <1>3, <1>4, <1>5, <1>6 DEF Next, Step, Network, Gathered

LEMMA WaitsEnd == ASSUME TypeOK, RowsRead, AgesBounded PROVE NeverStuck
<1> USE OriginAssumption
<1> SUFFICES ASSUME NEW t \in Task, at[t] \notin Done, ~\E x \in Task : Ready(x)
             PROVE  /\ \E x \in Task : Timed(x)
                    /\ \A x \in Task : Requesting(x) => left[x] < Timeout
  BY DEF NeverStuck
\* What can be taken on by the clock alone is, when nothing is ready.
<1>1. /\ \A x \in Task : at[x] = "sleep" => Timed(x)
      /\ \A x \in Task : Requesting(x) => Timed(x) /\ left[x] < Timeout
  <2> SUFFICES ASSUME NEW x \in Task
               PROVE  /\ at[x] = "sleep" => left[x] > 0
                      /\ Requesting(x) => left[x] < Timeout
    BY DEF Timed
  <2>1. left[x] \in 0 .. Delay + Timeout
    BY DEF TypeOK
  <2>2. at[x] = "sleep" => left[x] # 0
    BY DEF Ready
  <2>3. CASE Requesting(x)
    <3>1. left[x] # Timeout
      BY <2>3 DEF Ready
    <3>2. left[x] <= Timeout
      BY <2>3 DEF AgesBounded
    <3> QED
      BY <2>1, <2>2, <2>3, <3>1, <3>2, FetchTimeAssumption
  <2> QED
    BY <2>1, <2>2, <2>3, FetchTimeAssumption
<1>2. SUFFICES ASSUME \A x \in Task : at[x] # "sleep" /\ ~Requesting(x) PROVE FALSE
  BY <1>1
<1>3. \A x \in Task : at[x] # "robots"
  <2> SUFFICES ASSUME NEW x \in Task, at[x] = "robots" PROVE FALSE
    OBVIOUS
  <2>1. HostAt(x) \in Host
    BY DEF HostAt
  <2>2. table[HostAt(x)] \in {"allow", "deny", "absent", "broken"}
    BY <2>1 DEF TypeOK, Bodies, Robots, RowsRead
  <2>3. opening[HostAt(x)] # NoTask
    BY <2>2 DEF Ready
  <2>4. opening[HostAt(x)] \in Task /\ at[opening[HostAt(x)]] = "robots_get"
    BY <2>1, <2>3 DEF TypeOK
  <2> QED
    BY <1>2, <2>4 DEF Requesting
<1>4. \A x \in Task : at[x] # "queue"
  <2>1. Permits = {}
    BY <1>2, <1>3 DEF Permits, Requesting
  <2>2. Cardinality(Permits) < Cap
    BY <2>1, FS_EmptySet, FetchTimeAssumption
  <2> QED
    BY <2>2 DEF Ready
<1>5. at[t] # "start"
  <2> SUFFICES ASSUME at[t] = "start" PROVE FALSE
    OBVIOUS
  <2>1. HostAt(t) \in Host
    BY DEF HostAt
  <2>2. turn[HostAt(t)] # NoTask
    BY DEF Ready
  <2>3. turn[HostAt(t)] \in Task /\ at[turn[HostAt(t)]] = "sleep"
    BY <2>1, <2>2 DEF TypeOK
  <2> QED
    BY <1>2, <2>3
<1>6. at[t] \in {"start", "sleep", "queue", "robots", "robots_get", "get"}
  BY DEF TypeOK, Places
<1> QED
  BY <1>2, <1>3, <1>4, <1>5, <1>6 DEF Requesting

\* Whatever number of feeds, hosts and permits, in an aborted gather too:
\* host locks, semaphore and robots locks never wait in a circle.
THEOREM WaitingEnds == Spec => []NeverStuck
<1>1. Init => RowsRead /\ AgesBounded
  BY RowsAssumption DEF Init, RowsRead, AgesBounded, Requesting
<1> QED
  BY <1>1, TypeCorrect, RowsReadStep, AgesStep, WaitsEnd, PTL DEF Spec

\* How far a task is.
Stage(place) ==
    CASE place = "start" -> 0 [] place = "sleep" -> 1 [] place = "queue" -> 2
      [] place = "robots" -> 3 [] place = "robots_get" -> 4 [] place = "get" -> 5 [] OTHER -> 6

\* No task goes back, and a step that is neither the clock's nor a dripping
\* server's moves one on: a task makes at most six.
Advances ==
    [][/\ \A t \in Task : at'[t] # at[t] => Stage(at'[t]) > Stage(at[t])
       /\ Tick \/ (\E t \in Task : Drip(t)) \/ \E t \in Task : at'[t] # at[t]]_vars

THEOREM TasksAdvance == Spec => Advances
<1> DEFINE A == /\ \A t \in Task : at'[t] # at[t] => Stage(at'[t]) > Stage(at[t])
                /\ Tick \/ (\E t \in Task : Drip(t)) \/ \E t \in Task : at'[t] # at[t]
<1>1. ASSUME TypeOK, Next, ~UNCHANGED vars PROVE A
  <2>1. ASSUME NEW t \in Task, Step(t) \/ Network(t), ~Drip(t)
        PROVE  /\ \A x \in Task \ {t} : at'[x] = at[x]
               /\ Stage(at'[t]) > Stage(at[t])
    <3>1. at[t] \notin Done /\ at \in [Task -> Places]
      BY <1>1, <2>1, ReadsOne
      DEF Step, Network, Turn, Awake, Acquire, RobotsCached, RobotsRequest, RobotsRead,
          FeedAnswer, FeedTimeout, FeedEnds, RowBreaks, AnswerBreaks, ClientClosed, Done, TypeOK
    <3>2. \E place \in Places : at' = [at EXCEPT ![t] = place] /\ Stage(place) > Stage(at[t])
      BY <2>1, <3>1, ReadsOne
      DEF Step, Network, Turn, Awake, Acquire, RobotsCached, RobotsRequest, RobotsRead, Decides,
          FeedAnswer, FeedTimeout, FeedEnds, RowBreaks, AnswerBreaks, ClientClosed, RaisesOut,
          Done, Places, Stage
    <3> QED
      BY <3>1, <3>2
  <2>2. ASSUME Cancel PROVE A
    BY <2>2, <1>1 DEF Cancel, Done, Places, Stage, TypeOK
  <2>3. CASE Tick
    BY <2>3 DEF Tick
  <2>4. ASSUME NEW t \in Task, Step(t) \/ Network(t), ~Drip(t) PROVE A
    <3>1. Stage(at[t]) \in Nat
      BY DEF Stage
    <3> QED
      BY <2>1, <2>4, <3>1
  <2>5. ASSUME NEW t \in Task, Drip(t) PROVE A
    BY <2>5 DEF Drip
  <2> QED
    BY <1>1, <2>2, <2>3, <2>4, <2>5 DEF Next, Gathered
<1>2. TypeOK /\ [Next]_vars => [A]_vars
  BY <1>1
<1> QED
  BY <1>2, TypeCorrect, PTL DEF Spec, Advances
=============================================================================
