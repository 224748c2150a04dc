---------------------------- MODULE SchemaProofs ----------------------------
(***************************************************************************)
(* What Schema and Reports promise, for any processes, sources, bounds and *)
(* old databases.  The invariant says of each process how far its          *)
(* migration has come in the database it sees, of both versions of the     *)
(* database that their dates fit their articles, and of the one who holds  *)
(* the write lock that it only adds to what is committed.                  *)
(***************************************************************************)
EXTENDS Reports, NaturalsInduction, WellFoundedInduction, TLAPS

Base == {"disabled_reason", "first_seen_at"}

Beyond == {"insert", "sync", "fetch", "finish"}

Migration(p) ==
  /\ at[p] = "reason" => Base \subseteq View(p).columns \cup saw[p]
  /\ at[p] = "first_seen" => Base \subseteq View(p).columns \cup (saw[p] \cap {"first_seen_at"})
  /\ at[p] \in {"fallback", "backfill", "log_columns"} => Base \subseteq View(p).columns
  /\ at[p] = "last_stage" => Column \subseteq View(p).columns \cup (saw[p] \cap {"last_stage"})
  /\ at[p] \in {"commit"} \cup Beyond => Column \subseteq View(p).columns
  /\ at[p] = "backfill" => oldest[p] # NoDay /\ oldest[p].day <= day

Sound(db) ==
  /\ db.enabled \subseteq db.listed
  /\ db.articles \subseteq db.listed \X (0 .. day)
  /\ \A i \in DOMAIN db.log : db.log[i].started.day <= day
  /\ \A s \in Source : db.first[s] # NoDay =>
       /\ s \in db.listed
       /\ db.first[s].day <= day
       /\ \A d \in Fetched(db, s) : db.first[s].day <= d
  /\ \A s \in db.listed :
       /\ since[s] \in Day
       /\ since[s] >= FirstDay => db.first[s] # NoDay /\ db.first[s].day = since[s]

Adds ==
  /\ disk.columns \subseteq work.columns
  /\ work.listed = disk.listed /\ work.articles = disk.articles
  /\ \A s \in Source : disk.first[s] # NoDay => work.first[s] = disk.first[s]
  /\ \A s \in work.listed : work.first[s] # NoDay

Locked ==
  /\ writer = NoProc => work = disk
  /\ \A p \in Proc : writer = p =>
       /\ at[p] \in {"log_columns", "last_stage", "commit"}
       /\ at[p] = "last_stage" => saw[p] \cap work.columns = {}
       /\ Adds

IInv ==
  /\ TypeOK
  /\ \A p \in Proc : Migration(p)
  /\ Sound(disk) /\ Sound(work)
  /\ Locked
  /\ NullOnlyIfCut

\* What no step takes back.
Grows ==
  /\ disk.columns \subseteq disk'.columns
  /\ disk.listed \subseteq disk'.listed
  /\ disk.articles \subseteq disk'.articles
  /\ \A s \in Source : disk.first[s] # NoDay => disk'.first[s] = disk.first[s]
  /\ day <= day'
-----------------------------------------------------------------------------
LEMMA LeastDay ==
  ASSUME NEW S \in SUBSET Nat, S # {}
  PROVE  \E d \in S : \A e \in S : d <= e
<1>1. PICK d \in S : \A e \in S : <<e, d>> \notin OpToRel(<, Nat)
  BY NatLessThanWellFounded, WFMin, Zenon
<1>2. ASSUME NEW e \in S, e < d PROVE FALSE
  <2>1. <<e, d>> \in Nat \X Nat /\ <<e, d>>[1] < <<e, d>>[2]
    BY <1>2
  <2>2. <<e, d>> \in OpToRel(<, Nat)
    BY <2>1, Zenon DEF OpToRel
  <2> QED
    BY <1>1, <2>2
<1> QED
  BY <1>2

LEMMA EarliestIn ==
  ASSUME NEW stamps \in SUBSET Stamp, stamps # {}
  PROVE  Earliest(stamps) \in stamps
<1> DEFINE days == {t.day : t \in stamps}
<1>1. days \in SUBSET Nat /\ days # {}
  BY DayAssumption DEF Stamp, Day
<1>2. PICK d \in days : \A e \in days : d <= e
  BY <1>1, LeastDay
<1>3. \E t \in stamps : \A u \in stamps : t.day <= u.day
  BY <1>2
<1> QED
  BY <1>3 DEF Earliest

LEMMA FirstFetchIn ==
  ASSUME NEW db, NEW s, Fetched(db, s) # {}
  PROVE  FirstFetch(db, s) \in Fetched(db, s) /\ \A d \in Fetched(db, s) : FirstFetch(db, s) <= d
<1>1. Fetched(db, s) \in SUBSET Nat
  BY DayAssumption DEF Fetched, Day
<1>2. \E d \in Fetched(db, s) : \A e \in Fetched(db, s) : d <= e
  BY <1>1, LeastDay
<1> QED
  BY <1>2 DEF FirstFetch

Elsewhere(p) ==
  /\ \A q \in Proc \ {p} : at'[q] = at[q] /\ saw'[q] = saw[q] /\ oldest'[q] = oldest[q]
  /\ UNCHANGED day

LEMMA SilentFrame ==
  ASSUME IInv, NEW p \in Proc, Elsewhere(p), UNCHANGED <<disk, work, writer>>
  PROVE  \A q \in Proc \ {p} : Migration(q)'
  BY DEF IInv, Migration, Elsewhere, View

\* Only the holder of the lock, or anyone when it is free, writes.
LEMMA WriteFrame ==
  ASSUME IInv, NEW p \in Proc, Elsewhere(p), MayWrite(p), writer' \in {NoProc, p},
         disk.columns \subseteq disk'.columns
  PROVE  \A q \in Proc \ {p} : Migration(q)'
<1> SUFFICES ASSUME NEW q \in Proc \ {p} PROVE Migration(q)'
  OBVIOUS
<1>1. View(q) = disk /\ View(q)' = disk'
  BY NullAssumption DEF View, MayWrite
<1> QED
  BY <1>1 DEF IInv, Migration, Elsewhere

LEMMA InitInv == Init => IInv
<1> SUFFICES ASSUME Init PROVE IInv
  OBVIOUS
<1>1. PICK old \in OldDatabase : disk = old.db /\ work = old.db /\ since = old.since
  BY DEF Init
<1>2. TypeOK
  <2>1. disk \in Database /\ work \in Database /\ since \in [Source -> Day \cup {NoDay}]
    BY <1>1, OldAssumption
  <2>2. feeds \in [Source -> Entry]
    BY DEF Init, Entry
  <2>3. /\ writer = NoProc /\ day = FirstDay /\ faults = 0 /\ cut = FALSE
        /\ at = [p \in Proc |-> "idle"] /\ saw = [p \in Proc |-> {}]
        /\ oldest = [p \in Proc |-> NoDay] /\ mine = [p \in Proc |-> 0]
    BY DEF Init
  <2>4. day \in Day /\ faults \in 0 .. MaxFaults
    BY <2>3, DayAssumption, BoundAssumption DEF Day
  <2> QED
    BY <2>1, <2>2, <2>3, <2>4 DEF TypeOK, Place
<1>3. \A p \in Proc : Migration(p)
  BY DEF Init, Migration, Beyond
<1>4. Sound(disk) /\ Sound(work)
  BY <1>1, OldAssumption, DayAssumption DEF Init, Sound, Day, Database
<1>5. Locked
  BY <1>1, NullAssumption DEF Init, Locked
<1>6. NullOnlyIfCut
  BY <1>1, OldAssumption DEF NullOnlyIfCut
<1> QED
  BY <1>2, <1>3, <1>4, <1>5, <1>6 DEF IInv

\* A step of p that leaves both versions of the database alone.
LEMMA SilentInv ==
  ASSUME IInv, NEW p \in Proc, TypeOK', Elsewhere(p), UNCHANGED <<disk, work, writer, since>>,
         Migration(p)',
         writer = p => /\ at'[p] \in {"log_columns", "last_stage", "commit"}
                       /\ at'[p] = "last_stage" => saw'[p] \cap work.columns = {},
         cut => cut', Migrating(p) => cut' \/ Migrating(p)'
  PROVE  IInv' /\ Grows
<1>1. \A q \in Proc : Migration(q)'
  BY SilentFrame
<1>2. Sound(disk)' /\ Sound(work)'
  BY DEF IInv, Sound, Fetched, Elsewhere
<1>3. Locked'
  BY DEF IInv, Locked, Adds, Elsewhere
<1>4. NullOnlyIfCut'
  <2> SUFFICES ASSUME NEW q \in Proc \ {p}, Migrating(q) PROVE Migrating(q)'
    BY DEF IInv, NullOnlyIfCut
  <2> QED
    BY DEF Migrating, Elsewhere
<1>5. Grows
  BY DayAssumption DEF IInv, TypeOK, Day, Grows, Elsewhere
<1> QED
  BY <1>1, <1>2, <1>3, <1>4, <1>5 DEF IInv

LEMMA BeginInv == ASSUME IInv, NEW p \in Proc, Begin(p) PROVE IInv' /\ Grows
<1> USE DEF Begin, Goto
<1>1. TypeOK'
  BY DEF IInv, TypeOK, Place
<1>2. Migration(p)'
  BY DEF IInv, TypeOK, Migration, Beyond
<1>3. Elsewhere(p) /\ writer # p /\ ~Migrating(p)
  BY DEF Elsewhere, IInv, TypeOK, Locked, Migrating
<1> QED
  BY <1>1, <1>2, <1>3, SilentInv

LEMMA ReadColumnsInv == ASSUME IInv, NEW p \in Proc, ReadColumns(p) PROVE IInv' /\ Grows
<1> USE DEF ReadColumns, Goto
<1>1. TypeOK'
  BY DEF IInv, TypeOK, Place, Column
<1>2. Migration(p)'
  BY DEF IInv, TypeOK, Migration, Beyond, Base, View
<1>3. Elsewhere(p) /\ writer # p /\ ~Migrating(p)
  BY DEF Elsewhere, IInv, TypeOK, Locked, Migrating
<1> QED
  BY <1>1, <1>2, <1>3, SilentInv

LEMMA ReadFallbackInv == ASSUME IInv, NEW p \in Proc, ReadFallback(p) PROVE IInv' /\ Grows
<1> USE DEF ReadFallback, Goto
<1>1. writer # p /\ View(p) = disk
  BY DEF IInv, TypeOK, Locked, View
<1>2. oldest'[p] \in Stamp /\ oldest'[p].day <= day
  <2>1. CASE Started(disk) = {}
    BY <1>1, <2>1, DayAssumption DEF IInv, TypeOK, Stamp, Day
  <2>2. CASE Started(disk) # {}
    <3>1. Started(disk) \in SUBSET Stamp /\ \A t \in Started(disk) : t.day <= day
      <4>1. disk.log \in Seq(Row)
        BY DEF IInv, TypeOK, Database
      <4>2. \A i \in DOMAIN disk.log : disk.log[i] \in Row
        BY <4>1
      <4>3. \A i \in DOMAIN disk.log : disk.log[i].started \in Stamp
        BY <4>2 DEF Row
      <4> QED
        BY <4>3 DEF Started, IInv, Sound
    <3>2. Earliest(Started(disk)) \in Started(disk)
      BY <3>1, <2>2, EarliestIn
    <3> QED
      BY <1>1, <2>2, <3>1, <3>2 DEF IInv, TypeOK
  <2> QED
    BY <2>1, <2>2
<1>3. TypeOK'
  BY <1>2 DEF IInv, TypeOK, Place
<1>4. Migration(p)'
  BY <1>1, <1>2, NullAssumption DEF IInv, TypeOK, Migration, Beyond, View
<1>5. Elsewhere(p) /\ Migrating(p)'
  BY DEF Elsewhere, IInv, TypeOK, Migrating
<1> QED
  BY <1>1, <1>3, <1>4, <1>5, SilentInv

LEMMA ReadLogColumnsInv == ASSUME IInv, NEW p \in Proc, ReadLogColumns(p) PROVE IInv' /\ Grows
<1> USE DEF ReadLogColumns, Goto
<1>1. TypeOK'
  BY DEF IInv, TypeOK, Place, Column
<1>2. Migration(p)'
  BY DEF IInv, TypeOK, Migration, Beyond, Base, Column, View
<1>3. Elsewhere(p) /\ (Migrating(p) => Migrating(p)')
  BY DEF Elsewhere, IInv, TypeOK, Migrating
<1>4. at'[p] = "last_stage" /\ (writer = p => saw'[p] \cap work.columns = {})
  BY DEF IInv, TypeOK, View
<1> QED
  BY <1>1, <1>2, <1>3, <1>4, SilentInv

\* A column is added where the table is seen, and nothing else.
LEMMA AddTypes ==
  ASSUME IInv, NEW p \in Proc, NEW column \in Column, Add(p, column)
  PROVE  /\ disk' \in Database /\ work' \in Database
         /\ writer' = writer /\ MayWrite(p)
         /\ disk'.listed = disk.listed /\ disk'.articles = disk.articles
         /\ disk'.first = disk.first /\ disk'.log = disk.log
         /\ work'.listed = work.listed /\ work'.articles = work.articles
         /\ work'.first = work.first /\ work'.log = work.log
         /\ disk'.enabled = disk.enabled /\ work'.enabled = work.enabled
         /\ disk.columns \subseteq disk'.columns
         /\ writer = NoProc => work' = disk'
         /\ writer = p => disk' = disk /\ work'.columns = work.columns \cup {column}
         /\ writer # p => disk'.columns = disk.columns \cup {column}
<1>1. disk \in Database /\ work \in Database
  BY DEF IInv, TypeOK
<1>2. CASE writer = p
  <2>1. work' = [work EXCEPT !.columns = work.columns \cup {column}] /\ disk' = disk
    BY <1>2 DEF Add, Change, View
  <2>2. work' \in Database
    BY <1>1, <2>1 DEF Database
  <2> QED
    BY <1>1, <1>2, <2>1, <2>2, NullAssumption DEF Add, Change, Database
<1>3. CASE writer # p
  <2>1. disk' = [disk EXCEPT !.columns = disk.columns \cup {column}] /\ work' = disk' /\ writer = NoProc /\ work = disk
    BY <1>3 DEF Add, Change, View, MayWrite, IInv, Locked
  <2>2. disk' \in Database
    BY <1>1, <2>1 DEF Database
  <2> QED
    BY <1>1, <1>3, <2>1, <2>2 DEF Add, Change, Database
<1> QED
  BY <1>2, <1>3

\* The invariant of a step that adds a column on its way.
LEMMA AddInv ==
  ASSUME IInv, NEW p \in Proc, NEW column \in Column, Add(p, column), Elsewhere(p),
         TypeOK', Migration(p)', UNCHANGED <<since, cut>>,
         writer = p => at'[p] = "commit",
         column = "first_seen_at" => at'[p] = "fallback",
         at[p] \notin {"fallback", "backfill"}
  PROVE  IInv' /\ Grows
<1> USE AddTypes
<1>1. \A q \in Proc : Migration(q)'
  BY WriteFrame DEF MayWrite
<1>2. Sound(disk)' /\ Sound(work)'
  BY DEF IInv, Sound, Fetched, Elsewhere
<1>3. Locked'
  <2>1. writer \in {NoProc, p}
    BY DEF MayWrite
  <2>2. CASE writer = p
    BY <2>2, NullAssumption DEF IInv, Locked, Adds
  <2>3. CASE writer = NoProc
    BY <2>3, NullAssumption DEF Locked
  <2> QED
    BY <2>1, <2>2, <2>3
<1>4. NullOnlyIfCut'
  <2>1. \A q \in Proc \ {p} : Migrating(q) => Migrating(q)'
    BY DEF Migrating, Elsewhere
  <2>2. Migrating(p) => Migrating(p)'
    BY DEF Migrating
  <2>3. "first_seen_at" \in disk'.columns => "first_seen_at" \in disk.columns \/ Migrating(p)'
    BY DEF Migrating
  <2> QED
    BY <2>1, <2>2, <2>3 DEF IInv, NullOnlyIfCut
<1>5. Grows
  BY DayAssumption DEF IInv, TypeOK, Day, Grows, Elsewhere
<1> QED
  BY <1>1, <1>2, <1>3, <1>4, <1>5 DEF IInv

LEMMA AddReasonInv == ASSUME IInv, NEW p \in Proc, AddReason(p) PROVE IInv' /\ Grows
<1> USE DEF AddReason, Goto
<1>1. writer # p /\ Elsewhere(p) /\ ~Migrating(p)
  BY DEF Elsewhere, IInv, TypeOK, Locked, Migrating
<1>2. CASE Add(p, "disabled_reason")
  <2> USE <1>2, AddTypes DEF Column
  <2>1. TypeOK'
    BY DEF IInv, TypeOK, Place
  <2>2. Migration(p)'
    BY <1>1 DEF IInv, TypeOK, Migration, Beyond, Base, View
  <2> QED
    BY <1>1, <2>1, <2>2, AddInv
<1>3. CASE "disabled_reason" \notin saw[p] /\ UNCHANGED <<disk, work, writer>>
  <2>1. TypeOK'
    BY <1>3 DEF IInv, TypeOK, Place
  <2>2. Migration(p)'
    BY <1>3 DEF IInv, TypeOK, Migration, Beyond, Base, View
  <2> QED
    BY <1>1, <1>3, <2>1, <2>2, SilentInv
<1> QED
  BY <1>2, <1>3

LEMMA AddFirstSeenInv == ASSUME IInv, NEW p \in Proc, AddFirstSeen(p) PROVE IInv' /\ Grows
<1> USE DEF AddFirstSeen, Goto
<1>1. writer # p /\ Elsewhere(p) /\ ~Migrating(p)
  BY DEF Elsewhere, IInv, TypeOK, Locked, Migrating
<1>2. CASE Add(p, "first_seen_at") /\ at' = [at EXCEPT ![p] = "fallback"]
  <2> USE <1>2, AddTypes DEF Column
  <2>1. TypeOK'
    BY DEF IInv, TypeOK, Place
  <2>2. Migration(p)'
    BY <1>1 DEF IInv, TypeOK, Migration, Beyond, Base, View
  <2> QED
    BY <1>1, <2>1, <2>2, AddInv DEF IInv, TypeOK
<1>3. CASE /\ "first_seen_at" \notin saw[p] /\ UNCHANGED <<disk, work, writer>>
           /\ at' = [at EXCEPT ![p] = "log_columns"]
  <2>1. TypeOK'
    BY <1>3 DEF IInv, TypeOK, Place
  <2>2. Migration(p)'
    BY <1>3 DEF IInv, TypeOK, Migration, Beyond, Base, View
  <2> QED
    BY <1>1, <1>3, <2>1, <2>2, SilentInv
<1> QED
  BY <1>2, <1>3

LEMMA AddLastStageInv == ASSUME IInv, NEW p \in Proc, AddLastStage(p) PROVE IInv' /\ Grows
<1> USE DEF AddLastStage, Goto
<1>1. Elsewhere(p) /\ at'[p] = "commit"
  BY DEF Elsewhere, IInv, TypeOK
<1>2. CASE Add(p, "last_stage")
  <2> USE <1>2, AddTypes DEF Column
  <2>1. TypeOK'
    BY DEF IInv, TypeOK, Place
  <2>2. Migration(p)'
    BY DEF IInv, TypeOK, Migration, Beyond, Base, View
  <2> QED
    BY <1>1, <2>1, <2>2, AddInv
<1>3. CASE "last_stage" \notin saw[p] /\ UNCHANGED <<disk, work, writer>>
  <2>1. TypeOK'
    BY <1>3 DEF IInv, TypeOK, Place
  <2>2. Migration(p)'
    BY <1>3 DEF IInv, TypeOK, Migration, Beyond, Base, View
  <2>3. Migrating(p) => Migrating(p)'
    BY <1>3 DEF Migrating
  <2> QED
    BY <1>1, <1>3, <2>1, <2>2, <2>3, SilentInv
<1> QED
  BY <1>2, <1>3

\* The backfill dates every source that is listed, and changes no date.
LEMMA BackfilledSound ==
  ASSUME IInv, NEW p \in Proc, at[p] = "backfill"
  PROVE  LET new == Backfilled(p, disk) IN
         /\ new \in [Source -> Stamp \cup {NoDay}]
         /\ \A s \in Source : disk.first[s] # NoDay => new[s] = disk.first[s]
         /\ \A s \in disk.listed : new[s] # NoDay
         /\ \A s \in Source : disk.first[s] = NoDay /\ new[s] # NoDay =>
              /\ s \in disk.listed
              /\ new[s].day <= day
              /\ \A d \in Fetched(disk, s) : new[s].day <= d
<1> DEFINE new == Backfilled(p, disk)
<1>1. oldest[p] \in Stamp /\ oldest[p].day <= day
  BY DEF IInv, TypeOK, Migration
<1>2. disk.listed \subseteq Source /\ disk.first \in [Source -> Stamp \cup {NoDay}]
  BY DEF IInv, TypeOK, Database
<1>3. \A s \in Source : s \notin disk.listed => disk.first[s] = NoDay
  BY DEF IInv, Sound
<1> SUFFICES ASSUME NEW s \in Source
             PROVE  /\ new[s] \in Stamp \cup {NoDay}
                    /\ disk.first[s] # NoDay => new[s] = disk.first[s]
                    /\ s \in disk.listed => new[s] # NoDay
                    /\ disk.first[s] = NoDay /\ new[s] # NoDay =>
                         /\ s \in disk.listed
                         /\ new[s].day <= day
                         /\ \A d \in Fetched(disk, s) : new[s].day <= d
  BY <1>2 DEF Backfilled
<1>4. CASE s \notin disk.listed \/ disk.first[s] # NoDay
  BY <1>2, <1>3, <1>4 DEF Backfilled
<1>5. CASE s \in disk.listed /\ disk.first[s] = NoDay /\ Fetched(disk, s) # {}
  <2>1. FirstFetch(disk, s) \in Fetched(disk, s) /\ \A d \in Fetched(disk, s) : FirstFetch(disk, s) <= d
    BY <1>5, FirstFetchIn
  <2>2. FirstFetch(disk, s) \in Day /\ FirstFetch(disk, s) <= day
    BY <2>1 DEF Fetched, IInv, Sound
  <2>3. new[s] = [day |-> FirstFetch(disk, s), precise |-> FALSE]
    BY <1>5 DEF Backfilled
  <2>4. new[s] \in Stamp /\ new[s].day = FirstFetch(disk, s)
    BY <2>2, <2>3 DEF Stamp
  <2> HIDE DEF new
  <2> QED
    BY <1>5, <2>1, <2>2, <2>4, NullAssumption
<1>6. CASE s \in disk.listed /\ disk.first[s] = NoDay /\ Fetched(disk, s) = {}
  BY <1>1, <1>6, NullAssumption DEF Backfilled
<1> QED
  BY <1>4, <1>5, <1>6

LEMMA BackfillInv == ASSUME IInv, NEW p \in Proc, Backfill(p) PROVE IInv' /\ Grows
<1> DEFINE new == Backfilled(p, disk)
<1>1. writer = NoProc /\ View(p) = disk /\ work = disk
  BY DEF Backfill, MayWrite, IInv, Locked, View
<1>2. /\ work' = [disk EXCEPT !.first = new] /\ disk' = disk /\ writer' = p
      /\ at' = [at EXCEPT ![p] = "log_columns"] /\ oldest' = [oldest EXCEPT ![p] = NoDay]
      /\ UNCHANGED <<saw, mine, feeds, day, faults, since, cut>>
  BY <1>1 DEF Backfill, Goto
<1>3. /\ new \in [Source -> Stamp \cup {NoDay}]
      /\ \A s \in Source : disk.first[s] # NoDay => new[s] = disk.first[s]
      /\ \A s \in disk.listed : new[s] # NoDay
      /\ \A s \in Source : disk.first[s] = NoDay /\ new[s] # NoDay =>
           /\ s \in disk.listed
           /\ new[s].day <= day
           /\ \A d \in Fetched(disk, s) : new[s].day <= d
  BY BackfilledSound DEF Backfill
<1> HIDE DEF new
<1>4. /\ work'.columns = disk.columns /\ work'.listed = disk.listed
      /\ work'.articles = disk.articles /\ work'.log = disk.log /\ work'.first = new
      /\ work'.enabled = disk.enabled
      /\ work' \in Database
  BY <1>2, <1>3 DEF IInv, TypeOK, Database
<1>5. TypeOK'
  BY <1>2, <1>4 DEF IInv, TypeOK, Place
<1>6. Migration(p)'
  BY <1>2, <1>4 DEF Backfill, IInv, TypeOK, Migration, Beyond, View
<1>7. \A q \in Proc \ {p} : Migration(q)'
  BY <1>1, <1>2, WriteFrame DEF Backfill, Elsewhere, IInv, TypeOK
<1>8. Sound(disk)' /\ Sound(work)'
  <2>1. disk.listed \subseteq Source
    BY DEF IInv, TypeOK, Database
  <2> QED
    BY <1>2, <1>3, <1>4, <2>1 DEF IInv, Sound, Fetched
<1>9. Locked'
  BY <1>2, <1>3, <1>4, NullAssumption DEF Locked, Adds, IInv, TypeOK
<1>10. NullOnlyIfCut'
  BY <1>2 DEF NullOnlyIfCut, Migrating
<1>11. Grows
  BY <1>2, DayAssumption DEF Grows, IInv, TypeOK, Day
<1> QED
  BY <1>5, <1>6, <1>7, <1>8, <1>9, <1>10, <1>11 DEF IInv

LEMMA CommitSchemaInv == ASSUME IInv, NEW p \in Proc, CommitSchema(p) PROVE IInv' /\ Grows
<1> USE DEF CommitSchema, Goto
<1>1. Elsewhere(p) /\ at'[p] = "insert"
  BY DEF Elsewhere, IInv, TypeOK
<1>2. CASE writer # p
  <2>1. TypeOK'
    BY <1>2 DEF IInv, TypeOK, Place
  <2>2. Migration(p)'
    BY <1>2 DEF IInv, TypeOK, Migration, Beyond, View
  <2>3. ~Migrating(p)
    BY <1>2 DEF Migrating
  <2> QED
    BY <1>1, <1>2, <2>1, <2>2, <2>3, SilentInv
<1>3. CASE writer = p
  <2>1. disk' = work /\ work' = work /\ writer' = NoProc
    BY <1>3
  <2>2. Adds
    BY <1>3 DEF IInv, Locked
  <2>3. TypeOK'
    BY <2>1 DEF IInv, TypeOK, Place
  <2>4. Migration(p)'
    BY <1>3, <2>1, NullAssumption DEF IInv, TypeOK, Migration, Beyond, View
  <2>5. \A q \in Proc \ {p} : Migration(q)'
    BY <1>1, <1>3, <2>1, <2>2, WriteFrame DEF MayWrite, Adds
  <2>6. Sound(disk)' /\ Sound(work)'
    BY <2>1 DEF IInv, Sound, Fetched
  <2>7. Locked'
    BY <2>1, NullAssumption DEF Locked
  <2>8. NullOnlyIfCut'
    BY <2>1, <2>2 DEF NullOnlyIfCut, Adds
  <2>9. Grows
    BY <2>1, <2>2, DayAssumption DEF Grows, Adds, IInv, TypeOK, Day
  <2> QED
    BY <2>3, <2>4, <2>5, <2>6, <2>7, <2>8, <2>9 DEF IInv
<1> QED
  BY <1>2, <1>3

\* The process is gone, with its transaction if it had one.
LEMMA GoneInv ==
  ASSUME IInv, NEW p \in Proc, Gone(p), faults' \in 0 .. MaxFaults, cut' \in BOOLEAN,
         cut => cut', Migrating(p) => cut'
  PROVE  IInv' /\ Grows
<1> USE DEF Gone, Goto
<1>1. /\ disk' = disk /\ work' \in {disk, work}
      /\ writer = p => work' = disk /\ writer' = NoProc
      /\ writer # p => work' = work /\ writer' = writer
  OBVIOUS
<1>2. TypeOK'
  BY <1>1 DEF IInv, TypeOK, Place
<1>3. Migration(p)'
  BY DEF IInv, TypeOK, Migration, Beyond
<1>4. Elsewhere(p)
  BY DEF Elsewhere, IInv, TypeOK
<1>5. CASE writer = p
  <2>1. \A q \in Proc \ {p} : Migration(q)'
    BY <1>1, <1>4, <1>5, WriteFrame DEF MayWrite
  <2>2. Sound(disk)' /\ Sound(work)'
    BY <1>1, <1>5 DEF IInv, Sound, Fetched
  <2>3. Locked'
    BY <1>1, <1>5, NullAssumption DEF Locked
  <2>4. NullOnlyIfCut'
    BY <1>5 DEF NullOnlyIfCut, Migrating
  <2>5. Grows
    BY <1>1, DayAssumption DEF Grows, IInv, TypeOK, Day
  <2> QED
    BY <1>2, <1>3, <2>1, <2>2, <2>3, <2>4, <2>5 DEF IInv
<1>6. CASE writer # p
  BY <1>1, <1>2, <1>3, <1>4, <1>6, SilentInv
<1> QED
  BY <1>5, <1>6

LEMMA RefusedInv == ASSUME IInv, NEW p \in Proc, Refused(p) PROVE IInv' /\ Grows
<1>1. ~Migrating(p)
  <2>1. at[p] \in {"reason", "first_seen", "last_stage"}
    BY DEF Refused
  <2>2. writer # p
    BY <2>1 DEF Refused, IInv, Locked, View
  <2> QED
    BY <2>1, <2>2 DEF Migrating
<1> QED
  BY <1>1, GoneInv DEF Refused, IInv, TypeOK

LEMMA KillInv == ASSUME IInv, NEW p \in Proc, Kill(p) PROVE IInv' /\ Grows
<1>1. faults' \in 0 .. MaxFaults
  BY BoundAssumption DEF Kill, IInv, TypeOK
<1>2. cut' \in BOOLEAN /\ (cut => cut') /\ (Migrating(p) => cut')
  BY DEF Kill, IInv, TypeOK, Migrating
<1> QED
  BY <1>1, <1>2, GoneInv DEF Kill

\* A step of the run proper finds the lock free and its change committed.
LEMMA RunView ==
  ASSUME IInv, NEW p \in Proc, at[p] \in Beyond, MayWrite(p)
  PROVE  writer = NoProc /\ View(p) = disk /\ work = disk /\ ~Migrating(p) /\ Column \subseteq disk.columns
  BY DEF Beyond, MayWrite, IInv, Locked, View, Migrating, Migration

LEMMA RunInv ==
  ASSUME IInv, NEW p \in Proc, at[p] \in Beyond, MayWrite(p), TypeOK', Elsewhere(p),
         at'[p] \in Beyond \cup {"idle"},
         work' = disk', writer' = writer, cut' = cut,
         disk'.columns = disk.columns,
         Sound(disk)', Grows,
         \A s \in disk'.listed : disk'.first[s] = NoDay => s \in disk.listed /\ disk.first[s] = NoDay
  PROVE  IInv' /\ Grows
<1>1. writer = NoProc /\ ~Migrating(p) /\ Column \subseteq disk.columns
  BY RunView
<1>2. \A q \in Proc \ {p} : Migration(q)'
  BY <1>1, WriteFrame DEF Grows
<1>3. Migration(p)'
  BY <1>1, NullAssumption DEF Migration, Beyond, View
<1>4. Locked'
  BY <1>1, NullAssumption DEF Locked
<1>5. NullOnlyIfCut'
  <2>1. \A q \in Proc \ {p} : Migrating(q) => Migrating(q)'
    BY DEF Migrating, Elsewhere
  <2> QED
    BY <1>1, <2>1 DEF IInv, NullOnlyIfCut
<1>6. Sound(work)'
  BY DEF Sound, Fetched
<1> QED
  BY <1>2, <1>3, <1>4, <1>5, <1>6 DEF IInv

LEMMA InsertRowInv == ASSUME IInv, NEW p \in Proc, InsertRow(p) PROVE IInv' /\ Grows
<1> DEFINE row == [started |-> [day |-> day, precise |-> TRUE], counts |-> "process", failed |-> {}]
<1>1. at[p] \in Beyond /\ MayWrite(p)
  BY DEF InsertRow, Change, Beyond
<1>2. writer = NoProc /\ View(p) = disk /\ work = disk
  BY <1>1, RunView
<1>3. /\ disk' = [disk EXCEPT !.log = Append(disk.log, row)] /\ work' = disk' /\ writer' = writer
      /\ mine' = [mine EXCEPT ![p] = Len(disk.log) + 1] /\ at' = [at EXCEPT ![p] = "sync"]
      /\ UNCHANGED <<saw, oldest, feeds, day, faults, since, cut>>
  BY <1>2, NullAssumption DEF InsertRow, Change, Goto
<1>4. row \in Row /\ row.started.day = day
  BY DEF Row, Stamp, IInv, TypeOK
<1>5. disk.log \in Seq(Row)
  BY DEF IInv, TypeOK, Database
<1> HIDE DEF row
<1>6. Append(disk.log, row) \in Seq(Row)
  BY <1>4, <1>5
<1>7. disk' \in Database
  BY <1>3, <1>6 DEF IInv, TypeOK, Database
<1>8. /\ disk'.columns = disk.columns /\ disk'.listed = disk.listed /\ disk'.first = disk.first
      /\ disk'.articles = disk.articles /\ disk'.log = Append(disk.log, row)
      /\ disk'.enabled = disk.enabled
  BY <1>3 DEF IInv, TypeOK, Database
<1>9. TypeOK'
  BY <1>3, <1>5, <1>7 DEF IInv, TypeOK, Place
<1>10. \A i \in DOMAIN disk'.log : disk'.log[i].started.day <= day
  <2> SUFFICES ASSUME NEW i \in DOMAIN disk'.log PROVE disk'.log[i].started.day <= day
    OBVIOUS
  <2>1. (i \in DOMAIN disk.log /\ disk'.log[i] = disk.log[i]) \/ disk'.log[i] = row
    BY <1>5, <1>8
  <2> QED
    BY <1>4, <2>1 DEF IInv, Sound, TypeOK, Day
<1>11. Sound(disk)'
  BY <1>3, <1>8, <1>10 DEF IInv, Sound, Fetched
<1>12. Grows
  BY <1>3, <1>8, DayAssumption DEF Grows, IInv, TypeOK, Day
<1>13. Elsewhere(p) /\ at'[p] \in Beyond
  BY <1>3 DEF Elsewhere, IInv, TypeOK, Beyond
<1> QED
  BY <1>1, <1>3, <1>8, <1>9, <1>11, <1>12, <1>13, RunInv

LEMMA SyncInv == ASSUME IInv, NEW p \in Proc, Sync(p) PROVE IInv' /\ Grows
<1> DEFINE new == Known \ disk.listed
<1>1. at[p] \in Beyond /\ MayWrite(p)
  BY DEF Sync, Change, Beyond
<1>2. writer = NoProc /\ View(p) = disk /\ work = disk
  BY <1>1, RunView
<1>3. /\ disk' = [disk EXCEPT !.listed = disk.listed \cup Known, !.enabled = On, !.first = Dated(disk)]
      /\ work' = disk' /\ writer' = writer /\ at' = [at EXCEPT ![p] = "fetch"]
      /\ since' = [s \in Source |-> IF s \in new THEN day ELSE since[s]]
      /\ UNCHANGED <<saw, oldest, mine, feeds, day, faults, cut>>
  BY <1>2, NullAssumption DEF Sync, Change, Goto
<1>4. /\ disk.first \in [Source -> Stamp \cup {NoDay}] /\ disk.listed \subseteq Source
      /\ Known \subseteq Source /\ On \subseteq Known
      /\ day \in Day /\ since \in [Source -> Day \cup {NoDay}]
  BY DEF IInv, TypeOK, Database, Known, On
<1>5. /\ Dated(disk) \in [Source -> Stamp \cup {NoDay}]
      /\ \A s \in new : Dated(disk)[s] \in Stamp /\ Dated(disk)[s].day = day
      /\ \A s \in Source \ new : Dated(disk)[s] = disk.first[s]
  BY <1>4 DEF Dated, Stamp
<1>6. disk' \in Database
  BY <1>3, <1>4, <1>5 DEF IInv, TypeOK, Database
<1>7. /\ disk'.columns = disk.columns /\ disk'.listed = disk.listed \cup Known /\ disk'.first = Dated(disk)
      /\ disk'.articles = disk.articles /\ disk'.log = disk.log /\ disk'.enabled = On
  BY <1>3 DEF IInv, TypeOK, Database
<1>8. TypeOK'
  BY <1>3, <1>4, <1>6 DEF IInv, TypeOK, Place
<1>9. \A s \in new : disk.first[s] = NoDay /\ \A d \in Day : <<s, d>> \notin disk.articles
  BY <1>4 DEF IInv, Sound
<1>10. Sound(disk)'
  <2>1. \A s \in disk.listed : s \notin new
    OBVIOUS
  <2> QED
    BY <1>3, <1>4, <1>5, <1>7, <1>9, <2>1, NullAssumption, DayAssumption DEF IInv, Sound, Fetched, Day
<1>11. Grows
  BY <1>3, <1>4, <1>5, <1>7, <1>9, DayAssumption DEF Grows, Day
<1>12. Elsewhere(p) /\ at'[p] \in Beyond
  BY <1>3 DEF Elsewhere, IInv, TypeOK, Beyond
<1>13. \A s \in disk'.listed : disk'.first[s] = NoDay => s \in disk.listed /\ disk.first[s] = NoDay
  BY <1>4, <1>5, <1>7, NullAssumption
<1> QED
  BY <1>1, <1>3, <1>7, <1>8, <1>10, <1>11, <1>12, <1>13, RunInv

\* What a run writes into its row leaves the moments the rows started at.
LEMMA RowUpdate ==
  ASSUME NEW log \in Seq(Row), NEW i \in Nat, NEW row \in Row,
         i \in DOMAIN log => row.started = log[i].started
  PROVE  /\ [log EXCEPT ![i] = row] \in Seq(Row)
         /\ DOMAIN [log EXCEPT ![i] = row] = DOMAIN log
         /\ \A j \in DOMAIN log : [log EXCEPT ![i] = row][j].started = log[j].started
<1>1. /\ log \in [1 .. Len(log) -> Row] /\ DOMAIN log = 1 .. Len(log)
      /\ \A j \in DOMAIN log : log[j] \in Row
  OBVIOUS
<1>2. [log EXCEPT ![i] = row] \in [1 .. Len(log) -> Row]
  BY <1>1
<1> QED
  BY <1>1, <1>2

LEMMA FetchInv ==
  ASSUME IInv, NEW p \in Proc, NEW failed \in SUBSET Source, NEW news \in SUBSET Source,
         Fetch(p, failed, news)
  PROVE  IInv' /\ Grows
<1> DEFINE log == [disk.log EXCEPT ![mine[p]].failed = failed]
<1>1. at[p] \in Beyond /\ MayWrite(p)
  BY DEF Fetch, Change, Beyond
<1>2. writer = NoProc /\ View(p) = disk /\ work = disk
  BY <1>1, RunView
<1>3. /\ disk' = [disk EXCEPT !.articles = disk.articles \cup (news \X {day}), !.log = log]
      /\ work' = disk' /\ writer' = writer /\ at' = [at EXCEPT ![p] = "finish"]
      /\ UNCHANGED <<saw, oldest, mine, feeds, day, faults, since, cut>>
      /\ news \subseteq disk.enabled
  BY <1>2, NullAssumption DEF Fetch, Change, Goto
<1>4. disk \in Database /\ disk.log \in Seq(Row) /\ mine[p] \in Nat /\ day \in Day
  BY DEF IInv, TypeOK, Database
<1>5. /\ log \in Seq(Row) /\ DOMAIN log = DOMAIN disk.log
      /\ \A i \in DOMAIN log : log[i].started = disk.log[i].started
  <2>1. CASE mine[p] \in DOMAIN disk.log
    <3> DEFINE row == [disk.log[mine[p]] EXCEPT !.failed = failed]
    <3>1. disk.log[mine[p]] \in Row
      BY <1>4, <2>1
    <3>2. row \in Row /\ row.started = disk.log[mine[p]].started
      BY <3>1 DEF Row
    <3>3. log = [disk.log EXCEPT ![mine[p]] = row]
      BY <1>4, <2>1
    <3> HIDE DEF row, log
    <3> QED
      BY <1>4, <3>2, <3>3, RowUpdate
  <2>2. CASE mine[p] \notin DOMAIN disk.log
    <3>1. log = disk.log
      BY <1>4, <2>2
    <3> QED
      BY <1>4, <3>1
  <2> QED
    BY <2>1, <2>2
<1> HIDE DEF log
<1>6. disk' \in Database
  BY <1>3, <1>4, <1>5 DEF Database
<1>7. /\ disk'.columns = disk.columns /\ disk'.listed = disk.listed /\ disk'.first = disk.first
      /\ disk'.articles = disk.articles \cup (news \X {day}) /\ disk'.log = log
      /\ disk'.enabled = disk.enabled
  BY <1>3, <1>4 DEF Database
<1>8. TypeOK'
  BY <1>3, <1>6 DEF IInv, TypeOK, Place
<1>9. Sound(disk)'
  <2>1. disk'.articles \subseteq disk'.listed \X (0 .. day)
    BY <1>3, <1>4, <1>7, DayAssumption DEF IInv, Sound, Day
  <2>2. \A s \in Source : \A d \in Fetched(disk', s) : d \in Fetched(disk, s) \/ d = day
    BY <1>7 DEF Fetched
  <2>3. \A s \in Source : disk.first[s] # NoDay => disk.first[s].day <= day
    BY DEF IInv, Sound
  <2>4. \A s \in Source : disk.first[s] # NoDay => \A d \in Fetched(disk', s) : disk.first[s].day <= d
    BY <2>2, <2>3 DEF IInv, Sound
  <2> QED
    BY <1>3, <1>5, <1>7, <2>1, <2>4 DEF IInv, Sound, Fetched
<1>10. Grows
  BY <1>3, <1>4, <1>7, DayAssumption DEF Grows, Day
<1>11. Elsewhere(p) /\ at'[p] \in Beyond
  BY <1>3 DEF Elsewhere, IInv, TypeOK, Beyond
<1> QED
  BY <1>1, <1>3, <1>7, <1>8, <1>9, <1>10, <1>11, RunInv

LEMMA OutcomeInv ==
  ASSUME IInv, NEW p \in Proc, NEW counts \in {"process", "nested"}, Outcome(p, counts),
         at[p] \in Beyond, faults' \in 0 .. MaxFaults
  PROVE  IInv' /\ Grows
<1> DEFINE log == [disk.log EXCEPT ![mine[p]].counts = counts]
<1>1. MayWrite(p)
  BY DEF Outcome, Change
<1>2. writer = NoProc /\ View(p) = disk /\ work = disk
  BY <1>1, RunView
<1>3. /\ disk' = [disk EXCEPT !.log = log]
      /\ work' = disk' /\ writer' = writer /\ at' = [at EXCEPT ![p] = "idle"]
      /\ mine' = [mine EXCEPT ![p] = 0]
      /\ UNCHANGED <<saw, oldest, feeds, day, since, cut>>
  BY <1>2, NullAssumption DEF Outcome, Change, Goto
<1>4. disk \in Database /\ disk.log \in Seq(Row) /\ mine[p] \in Nat /\ day \in Day
  BY DEF IInv, TypeOK, Database
<1>5. /\ log \in Seq(Row) /\ DOMAIN log = DOMAIN disk.log
      /\ \A i \in DOMAIN log : log[i].started = disk.log[i].started
  <2>1. CASE mine[p] \in DOMAIN disk.log
    <3> DEFINE row == [disk.log[mine[p]] EXCEPT !.counts = counts]
    <3>1. disk.log[mine[p]] \in Row
      BY <1>4, <2>1
    <3>2. row \in Row /\ row.started = disk.log[mine[p]].started
      BY <3>1 DEF Row
    <3>3. log = [disk.log EXCEPT ![mine[p]] = row]
      BY <1>4, <2>1
    <3> HIDE DEF row, log
    <3> QED
      BY <1>4, <3>2, <3>3, RowUpdate
  <2>2. CASE mine[p] \notin DOMAIN disk.log
    <3>1. log = disk.log
      BY <1>4, <2>2
    <3> QED
      BY <1>4, <3>1
  <2> QED
    BY <2>1, <2>2
<1> HIDE DEF log
<1>6. disk' \in Database
  BY <1>3, <1>4, <1>5 DEF Database
<1>7. /\ disk'.columns = disk.columns /\ disk'.listed = disk.listed /\ disk'.first = disk.first
      /\ disk'.articles = disk.articles /\ disk'.log = log /\ disk'.enabled = disk.enabled
  BY <1>3, <1>4 DEF Database
<1>8. TypeOK'
  BY <1>3, <1>6 DEF IInv, TypeOK, Place
<1>9. Sound(disk)'
  BY <1>3, <1>5, <1>7 DEF IInv, Sound, Fetched
<1>10. Grows
  BY <1>3, <1>4, <1>7, DayAssumption DEF Grows, Day
<1>11. Elsewhere(p) /\ at'[p] = "idle"
  BY <1>3 DEF Elsewhere, IInv, TypeOK
<1> QED
  BY <1>1, <1>3, <1>7, <1>8, <1>9, <1>10, <1>11, RunInv

LEMMA FinishInv == ASSUME IInv, NEW p \in Proc, Finish(p) PROVE IInv' /\ Grows
  BY OutcomeInv DEF Finish, Beyond, IInv, TypeOK

LEMMA CrashInv == ASSUME IInv, NEW p \in Proc, Crash(p) PROVE IInv' /\ Grows
<1>1. faults' \in 0 .. MaxFaults
  BY BoundAssumption DEF Crash, IInv, TypeOK
<1> QED
  BY <1>1, OutcomeInv DEF Crash, Beyond

\* What happens outside the processes.
LEMMA OutsideInv ==
  ASSUME IInv, feeds' \in [Source -> Entry], day' \in Day, day <= day',
         UNCHANGED <<disk, work, writer, at, saw, oldest, mine, faults, since, cut>>
  PROVE  IInv' /\ Grows
<1>1. day \in Day
  BY DEF IInv, TypeOK
<1>2. TypeOK'
  BY DEF IInv, TypeOK
<1>3. \A p \in Proc : Migration(p)'
  <2> SUFFICES ASSUME NEW p \in Proc PROVE Migration(p)'
    OBVIOUS
  <2>1. Migration(p) /\ (oldest[p] # NoDay => oldest[p].day \in Day)
    BY DEF IInv, TypeOK, Stamp
  <2> QED
    BY <1>1, <2>1, DayAssumption DEF Migration, View, Day
<1>4. ASSUME NEW db \in {disk, work}
      PROVE  /\ db.enabled \subseteq db.listed
             /\ db.articles \subseteq db.listed \X (0 .. day')
             /\ \A i \in DOMAIN db.log : db.log[i].started.day <= day'
             /\ \A s \in Source : db.first[s] # NoDay => db.first[s].day <= day'
  <2>1. db \in Database /\ Sound(db)
    BY DEF IInv, TypeOK
  <2>2. db.articles \subseteq db.listed \X (0 .. day')
    BY <1>1, <2>1, DayAssumption DEF Sound, Day
  <2>3. \A i \in DOMAIN db.log : db.log[i].started.day <= day'
    <3> SUFFICES ASSUME NEW i \in DOMAIN db.log PROVE db.log[i].started.day <= day'
      OBVIOUS
    <3>1. db.log \in Seq(Row)
      BY <2>1 DEF Database
    <3>2. db.log[i] \in Row
      BY <3>1
    <3>3. db.log[i].started.day \in Day /\ db.log[i].started.day <= day
      BY <2>1, <3>2 DEF Row, Stamp, Sound
    <3> QED
      BY <1>1, <3>3, DayAssumption DEF Day
  <2>4. \A s \in Source : db.first[s] # NoDay => db.first[s].day <= day'
    BY <1>1, <2>1, DayAssumption DEF Sound, Day, Database, Stamp
  <2> QED
    BY <2>1, <2>2, <2>3, <2>4 DEF Sound
<1>5. Sound(disk)' /\ Sound(work)'
  BY <1>4 DEF IInv, Sound, Fetched
<1>6. Locked' /\ NullOnlyIfCut'
  BY DEF IInv, Locked, Adds, NullOnlyIfCut, Migrating
<1>7. Grows
  BY DEF Grows
<1> QED
  BY <1>2, <1>3, <1>5, <1>6, <1>7 DEF IInv

LEMMA EditInv == IInv /\ Edit => IInv' /\ Grows
<1> SUFFICES ASSUME IInv, NEW edit \in Edits, feeds' = [feeds EXCEPT ![edit[1]] = edit[2]],
                    UNCHANGED <<disk, work, writer, at, saw, oldest, mine, day, faults, since, cut>>
             PROVE  IInv' /\ Grows
  BY DEF Edit
<1>1. feeds' \in [Source -> Entry]
  BY BoundAssumption DEF IInv, TypeOK
<1>2. day' \in Day /\ day <= day'
  BY DayAssumption DEF IInv, TypeOK, Day
<1> QED
  BY <1>1, <1>2, OutsideInv

LEMMA NextDayInv == IInv /\ NextDay => IInv' /\ Grows
<1> SUFFICES ASSUME IInv, NextDay PROVE IInv' /\ Grows
  OBVIOUS
<1>1. day' \in Day /\ day <= day'
  BY DayAssumption DEF NextDay, IInv, TypeOK, Day
<1> QED
  BY <1>1, OutsideInv DEF NextDay, IInv, TypeOK

LEMMA StutterInv == IInv /\ UNCHANGED vars => IInv' /\ Grows
  BY OutsideInv, DayAssumption DEF vars, IInv, TypeOK, Day

LEMMA NextInv == IInv /\ [Next]_vars => IInv' /\ Grows
  BY BeginInv, ReadColumnsInv, AddReasonInv, AddFirstSeenInv, ReadFallbackInv, BackfillInv,
     ReadLogColumnsInv, AddLastStageInv, CommitSchemaInv, RefusedInv, InsertRowInv, SyncInv,
     FetchInv, FinishInv, CrashInv, KillInv, EditInv, NextDayInv, StutterInv DEF Next, Step

LEMMA Invariance == Spec => []IInv
  BY InitInv, NextInv, PTL DEF Spec
-----------------------------------------------------------------------------
\* Both versions of the database keep their types for any processes,
\* sources and old databases.
THEOREM TypeCorrect == Spec => []TypeOK
  BY Invariance, PTL DEF IInv

\* No run works on a schema that lacks a column, however many processes
\* migrate at once and wherever they die (db.py, _migrate).
THEOREM MigrationPrecedesUse == Spec => []MigratedBeforeUse
<1>1. ASSUME IInv, NEW p \in Proc, at[p] \in Beyond PROVE disk.columns = Column
  <2>1. View(p) = disk
    BY <1>1 DEF Beyond, IInv, Locked, View
  <2> QED
    BY <1>1, <2>1 DEF IInv, TypeOK, Database, Migration
<1>2. IInv => MigratedBeforeUse
  BY <1>1 DEF MigratedBeforeUse, Beyond
<1> QED
  BY <1>2, Invariance, PTL

\* first_seen_at is never later than an article of its source, whether
\* sync_sources or the backfill set it.
THEOREM SeenFirst == Spec => []SeenBeforeFetched
<1>1. IInv => SeenBeforeFetched
  BY DEF SeenBeforeFetched, IInv, Sound, TypeOK, Database
<1> QED
  BY <1>1, Invariance, PTL

\* The only way to a source without a date is a migration cut short.
THEOREM OnlyCutLeavesNull == Spec => []NullOnlyIfCut
  BY Invariance, PTL DEF IInv

\* Both together: what first_seen_at says of a source can be relied on.
THEOREM FirstSeenReliable == Spec => []FirstSeenSound
  BY SeenFirst, OnlyCutLeavesNull, PTL DEF FirstSeenSound

\* A date once set is never set again.
THEOREM SeenStays == Spec => SeenOnce
<1>1. IInv /\ [Next]_vars => [\A s \in Source : disk.first[s] # NoDay => disk'.first[s] = disk.first[s]]_vars
  BY NextInv DEF Grows
<1> QED
  BY <1>1, Invariance, PTL DEF Spec, SeenOnce

\* As long as a source stays enabled its flag goes by news of it alone.
THEOREM FlagsStay == Spec => FlagsClearByNews
<1> DEFINE A == \A s \in disk.enabled \cap disk'.enabled :
                  /\ ZeroYield(s) \/ Stalled(s)
                  /\ ~(ZeroYield(s) \/ Stalled(s))'
                  => Fetched(disk', s) # Fetched(disk, s)
<1>1. ASSUME IInv, [Next]_vars, NEW s \in disk.enabled \cap disk'.enabled,
             ZeroYield(s) \/ Stalled(s), ~(ZeroYield(s) \/ Stalled(s))'
      PROVE  Fetched(disk', s) # Fetched(disk, s)
  <2>1. Grows /\ day \in Day /\ day' \in Day /\ disk \in Database
    BY <1>1, NextInv DEF IInv, TypeOK
  <2>2. s \in Source
    BY <1>1, <2>1 DEF Database
  <2>3. CASE ZeroYield(s)
    <3>1. disk.first[s] # NoDay /\ disk'.first[s] = disk.first[s] /\ disk.first[s].day \in Day
      BY <2>1, <2>2, <2>3 DEF ZeroYield, HasAge, Grows, Database, Stamp
    <3>2. DaysSinceFirstSeen(s)' > MinAge
      BY <2>1, <2>3, <3>1, DayAssumption, ReportAssumption DEF ZeroYield, DaysSinceFirstSeen, Grows, Day
    <3>3. Fetched(disk', s) # {}
      BY <1>1, <3>1, <3>2 DEF ZeroYield, HasAge
    <3> QED
      BY <2>3, <3>3 DEF ZeroYield
  <2>4. CASE Stalled(s)
    <3>1. ASSUME Fetched(disk', s) = Fetched(disk, s) PROVE Stalled(s)'
      <4>1. \A d \in Fetched(disk, s) : d \in Nat /\ d < day - StalledWindow
        BY <2>4, DayAssumption DEF Stalled, Fetched, Day
      <4>2. day \in Nat /\ day' \in Nat /\ day <= day'
        BY <2>1, DayAssumption DEF Grows, Day
      <4>3. \A d \in Fetched(disk', s) : d < day' - StalledWindow
        BY <3>1, <4>1, <4>2, ReportAssumption
      <4> QED
        BY <1>1, <2>4, <3>1, <4>3 DEF Stalled
    <3> QED
      BY <1>1, <3>1
  <2> QED
    BY <1>1, <2>3, <2>4
<1>2. IInv /\ [Next]_vars => [A]_vars
  BY <1>1
<1> QED
  BY <1>2, Invariance, PTL DEF Spec, FlagsClearByNews

\* A source that sync_sources dated is not called silent before its time,
\* for any limit.
THEOREM FlagsAreDue == Spec => []NotFlaggedEarly
<1>1. IInv => NotFlaggedEarly
  BY DEF IInv, Sound, NotFlaggedEarly, ZeroYield, DaysSinceFirstSeen, HasAge
<1> QED
  BY <1>1, Invariance, PTL

-----------------------------------------------------------------------------
(* The dates an old database's sources are given, and what they are worth. *)

\* The old database is younger than the retention of run_log, so the run that
\* listed a source, or one before it, still has its row there: the sync comes
\* after the row's INSERT (run.py), and the retention deletes by started_at.
\* Its rows were written by versions whose dates had whole seconds.
OldLogKept ==
  \A old \in OldDatabase :
    /\ \A t \in Started(old.db) : ~t.precise
    /\ \A s \in old.db.listed : \E t \in Started(old.db) : t.day <= old.since[s]

\* The sources an earlier version had listed.
Inherited(s) == s \in disk.listed /\ since[s] < FirstDay

Borrowed(db) ==
  \A s \in db.listed : db.first[s] # NoDay =>
    /\ ~db.first[s].precise
    /\ since[s] < FirstDay => Fetched(db, s) # {} \/ db.first[s].day <= since[s]

Dates ==
  /\ FirstDay <= day
  /\ Started(work) = Started(disk)
  /\ \A t \in Started(disk) : t.precise => FirstDay <= t.day
  /\ \A s \in Source : Inherited(s) => \E t \in Started(disk) : t.day <= since[s]
  /\ Borrowed(disk) /\ Borrowed(work)
  /\ \A p \in Proc : at[p] = "backfill" =>
       \A s \in Source : Inherited(s) => ~oldest[p].precise /\ oldest[p].day <= since[s]

LEMMA StartedStamps ==
  ASSUME IInv
  PROVE  Started(disk) \in SUBSET Stamp
<1>1. disk.log \in Seq(Row)
  BY DEF IInv, TypeOK, Database
<1>2. \A i \in DOMAIN disk.log : disk.log[i] \in Row
  BY <1>1
<1> QED
  BY <1>2 DEF Started, Row

LEMMA EarliestLeast ==
  ASSUME NEW stamps \in SUBSET Stamp, stamps # {}
  PROVE  \A u \in stamps : Earliest(stamps).day <= u.day
<1> DEFINE days == {t.day : t \in stamps}
<1>1. days \in SUBSET Nat /\ days # {}
  BY DayAssumption DEF Stamp, Day
<1>2. PICK d \in days : \A e \in days : d <= e
  BY <1>1, LeastDay
<1>3. \E t \in stamps : \A u \in stamps : t.day <= u.day
  BY <1>2
<1> QED
  BY <1>3 DEF Earliest

LEMMA DatesInit == OldLogKept /\ Init => Dates
<1> SUFFICES ASSUME OldLogKept, Init PROVE Dates
  OBVIOUS
<1>1. PICK old \in OldDatabase : disk = old.db /\ work = old.db /\ since = old.since
  BY DEF Init
<1>2. /\ \A t \in Started(disk) : ~t.precise
      /\ \A s \in disk.listed : \E t \in Started(disk) : t.day <= since[s]
  BY <1>1 DEF OldLogKept
<1>3. \A s \in disk.listed : disk.first[s] = NoDay
  BY <1>1, OldAssumption DEF Database
<1>4. day = FirstDay /\ (\A p \in Proc : at[p] = "idle")
  BY DEF Init
<1>5. FirstDay <= day /\ Borrowed(disk) /\ Borrowed(work)
  BY <1>1, <1>3, <1>4, DayAssumption DEF Borrowed
<1> QED
  BY <1>1, <1>2, <1>4, <1>5 DEF Dates, Inherited

\* What every step but the reading of the fallback comes to.
LEMMA DatesFrame ==
  ASSUME IInv, Dates, day' \in Day, day <= day',
         Started(disk) \subseteq Started(disk'), Started(work') = Started(disk'),
         \A t \in Started(disk') : t \in Started(disk) \/ t.day = day,
         \A s \in Source : Inherited(s)' => Inherited(s) /\ since'[s] = since[s],
         Borrowed(disk)', Borrowed(work)',
         \A p \in Proc : at'[p] = "backfill" => at[p] = "backfill" /\ oldest'[p] = oldest[p]
  PROVE  Dates'
<1>1. FirstDay <= day'
  BY DayAssumption DEF Dates, IInv, TypeOK, Day
<1>2. \A t \in Started(disk') : t.precise => FirstDay <= t.day
  BY DEF Dates
<1>3. \A s \in Source : Inherited(s)' => \E t \in Started(disk') : t.day <= since'[s]
  BY DEF Dates
<1>4. ASSUME NEW p \in Proc, at'[p] = "backfill", NEW s \in Source, Inherited(s)'
      PROVE  ~oldest'[p].precise /\ oldest'[p].day <= since'[s]
  BY <1>4 DEF Dates
<1> QED
  BY <1>1, <1>2, <1>3, <1>4 DEF Dates

LEMMA SameDates ==
  ASSUME IInv, Dates, day' \in Day, day <= day', UNCHANGED <<disk, work, since>>,
         \A p \in Proc : at'[p] = "backfill" => at[p] = "backfill" /\ oldest'[p] = oldest[p]
  PROVE  Dates'
<1>1. Borrowed(disk)' /\ Borrowed(work)'
  BY DEF Dates, Borrowed, Fetched
<1>2. \A s \in Source : Inherited(s)' <=> Inherited(s)
  BY DEF Inherited
<1>3. Started(work') = Started(disk')
  BY DEF Dates
<1> QED
  BY <1>1, <1>2, <1>3, DatesFrame

\* A column more changes no date.
LEMMA AddDates ==
  ASSUME IInv, Dates, NEW p \in Proc, NEW column \in Column, Add(p, column), UNCHANGED <<since, day>>,
         \A q \in Proc : at'[q] = "backfill" => at[q] = "backfill" /\ oldest'[q] = oldest[q]
  PROVE  Dates'
<1>1. /\ disk'.listed = disk.listed /\ disk'.articles = disk.articles
      /\ disk'.first = disk.first /\ disk'.log = disk.log
      /\ work'.listed = work.listed /\ work'.articles = work.articles
      /\ work'.first = work.first /\ work'.log = work.log
  BY AddTypes
<1>2. Started(disk') = Started(disk) /\ Started(work') = Started(work)
  BY <1>1 DEF Started
<1>3. Borrowed(disk)' /\ Borrowed(work)'
  BY <1>1 DEF Dates, Borrowed, Fetched
<1>4. \A s \in Source : Inherited(s)' <=> Inherited(s)
  BY <1>1 DEF Inherited
<1>5. day' \in Day /\ day <= day' /\ Started(work') = Started(disk')
  BY <1>2, DayAssumption DEF IInv, TypeOK, Day, Dates
<1> QED
  BY <1>2, <1>3, <1>4, <1>5, DatesFrame

LEMMA ReadFallbackDates ==
  ASSUME IInv, Dates, NEW p \in Proc, ReadFallback(p)
  PROVE  Dates'
<1> USE DEF ReadFallback, Goto
<1>1. writer # p /\ View(p) = disk
  BY DEF IInv, TypeOK, Locked, View
<1>2. ASSUME NEW s \in Source, Inherited(s) PROVE ~oldest'[p].precise /\ oldest'[p].day <= since[s]
  <2>1. PICK t \in Started(disk) : t.day <= since[s]
    BY <1>2 DEF Dates
  <2>2. oldest'[p] = Earliest(Started(disk))
    BY <1>1, <2>1 DEF IInv, TypeOK
  <2>3. /\ Earliest(Started(disk)) \in Started(disk) /\ Earliest(Started(disk)).day <= t.day
        /\ Started(disk) \in SUBSET Stamp
    BY <2>1, StartedStamps, EarliestIn, EarliestLeast
  <2>4. since[s] \in Day /\ since[s] < FirstDay
    BY <1>2 DEF Inherited, IInv, Sound
  <2>5. oldest'[p].day \in Day /\ t.day \in Day
    BY <2>2, <2>3 DEF Stamp
  <2>6. oldest'[p].day <= since[s] /\ oldest'[p].day < FirstDay
    BY <2>1, <2>2, <2>3, <2>4, <2>5, DayAssumption DEF Day
  <2>7. ~(FirstDay <= oldest'[p].day)
    BY <2>5, <2>6, DayAssumption DEF Day
  <2> QED
    BY <2>2, <2>3, <2>6, <2>7 DEF Dates
<1>3. \A q \in Proc \ {p} : at'[q] = at[q] /\ oldest'[q] = oldest[q]
  BY DEF IInv, TypeOK
<1>4. Borrowed(disk)' /\ Borrowed(work)'
  BY DEF Dates, Borrowed, Fetched
<1>5. \A s \in Source : (Inherited(s)' <=> Inherited(s)) /\ since'[s] = since[s]
  BY DEF Inherited
<1>6. ASSUME NEW q \in Proc, at'[q] = "backfill", NEW s \in Source, Inherited(s)
      PROVE  ~oldest'[q].precise /\ oldest'[q].day <= since[s]
  BY <1>2, <1>3, <1>6 DEF Dates
<1> QED
  BY <1>4, <1>5, <1>6 DEF Dates

LEMMA BackfillDates ==
  ASSUME IInv, Dates, NEW p \in Proc, Backfill(p)
  PROVE  Dates'
<1> DEFINE new == Backfilled(p, disk)
<1>1. writer = NoProc /\ View(p) = disk /\ work = disk
  BY DEF Backfill, MayWrite, IInv, Locked, View
<1>2. /\ work' = [disk EXCEPT !.first = new] /\ disk' = disk
      /\ at' = [at EXCEPT ![p] = "log_columns"] /\ oldest' = [oldest EXCEPT ![p] = NoDay]
      /\ UNCHANGED <<day, since>>
  BY <1>1 DEF Backfill, Goto
<1>3. disk \in Database /\ disk.listed \subseteq Source
  BY DEF IInv, TypeOK, Database
<1>4. /\ work'.listed = disk.listed /\ work'.articles = disk.articles
      /\ work'.log = disk.log /\ work'.first = new
  BY <1>2, <1>3 DEF Database
<1>5. ASSUME NEW s \in disk.listed, new[s] # NoDay
      PROVE  /\ ~new[s].precise
             /\ since[s] < FirstDay => Fetched(disk, s) # {} \/ new[s].day <= since[s]
  <2>1. CASE disk.first[s] # NoDay
    <3>1. new[s] = disk.first[s]
      BY <1>3, <2>1 DEF Backfilled
    <3> QED
      BY <2>1, <3>1 DEF Dates, Borrowed
  <2>2. CASE disk.first[s] = NoDay /\ Fetched(disk, s) # {}
    <3>1. new[s] = [day |-> FirstFetch(disk, s), precise |-> FALSE]
      BY <1>3, <2>2 DEF Backfilled
    <3> HIDE DEF new
    <3> QED
      BY <2>2, <3>1
  <2>3. CASE disk.first[s] = NoDay /\ Fetched(disk, s) = {}
    <3>1. new[s] = oldest[p]
      BY <1>3, <2>3 DEF Backfilled
    <3>2. Inherited(s)
      BY <1>3, <2>3, DayAssumption DEF Inherited, IInv, Sound, Day
    <3> HIDE DEF new
    <3> QED
      BY <1>3, <3>1, <3>2 DEF Backfill, Dates
  <2> QED
    BY <2>1, <2>2, <2>3
<1> HIDE DEF new
<1>6. Borrowed(work)'
  BY <1>2, <1>4, <1>5 DEF Borrowed, Fetched
<1>7. Borrowed(disk)'
  BY <1>2 DEF Dates, Borrowed, Fetched
<1>8. Started(disk') = Started(disk) /\ Started(work') = Started(disk)
  BY <1>2, <1>4 DEF Started
<1>9. \A s \in Source : Inherited(s)' <=> Inherited(s)
  BY <1>2 DEF Inherited
<1>10. day' \in Day /\ day <= day'
  BY <1>2, DayAssumption DEF IInv, TypeOK, Day
<1>11. \A q \in Proc : at'[q] = "backfill" => at[q] = "backfill" /\ oldest'[q] = oldest[q]
  BY <1>2 DEF IInv, TypeOK
<1> QED
  BY <1>2, <1>6, <1>7, <1>8, <1>9, <1>10, <1>11, DatesFrame

LEMMA CommitDates ==
  ASSUME IInv, Dates, NEW p \in Proc, CommitSchema(p)
  PROVE  Dates'
<1>1. \A q \in Proc : at'[q] = "backfill" => at[q] = "backfill" /\ oldest'[q] = oldest[q]
  BY DEF CommitSchema, Goto, IInv, TypeOK
<1>2. day' \in Day /\ day <= day' /\ day' = day
  BY DayAssumption DEF CommitSchema, IInv, TypeOK, Day
<1>3. CASE writer # p
  BY <1>1, <1>2, <1>3, SameDates DEF CommitSchema
<1>4. CASE writer = p
  <2>1. disk' = work /\ work' = work /\ since' = since
    BY <1>4 DEF CommitSchema
  <2>2. work.listed = disk.listed
    BY <1>4 DEF IInv, Locked, Adds
  <2>3. Borrowed(disk)' /\ Borrowed(work)'
    BY <2>1 DEF Dates, Borrowed, Fetched
  <2>4. Started(disk') = Started(disk) /\ Started(work') = Started(disk)
    BY <2>1 DEF Dates
  <2>5. \A s \in Source : Inherited(s)' <=> Inherited(s)
    BY <2>1, <2>2 DEF Inherited
  <2> QED
    BY <1>1, <1>2, <2>1, <2>3, <2>4, <2>5, DatesFrame
<1> QED
  BY <1>3, <1>4

LEMMA GoneDates ==
  ASSUME IInv, Dates, NEW p \in Proc, Gone(p)
  PROVE  Dates'
<1>1. \A q \in Proc : at'[q] = "backfill" => at[q] = "backfill" /\ oldest'[q] = oldest[q]
  BY DEF Gone, Goto, IInv, TypeOK
<1>2. disk' = disk /\ work' \in {disk, work} /\ UNCHANGED <<day, since>>
  BY DEF Gone
<1>3. day' \in Day /\ day <= day'
  BY <1>2, DayAssumption DEF IInv, TypeOK, Day
<1>4. Borrowed(disk)' /\ Borrowed(work)'
  BY <1>2 DEF Dates, Borrowed, Fetched
<1>5. Started(disk') = Started(disk) /\ Started(work') = Started(disk)
  BY <1>2 DEF Dates
<1>6. \A s \in Source : Inherited(s)' <=> Inherited(s)
  BY <1>2 DEF Inherited
<1> QED
  BY <1>1, <1>2, <1>3, <1>4, <1>5, <1>6, DatesFrame

\* A run's own steps work on what is committed.
LEMMA RunDates ==
  ASSUME IInv, Dates, NEW p \in Proc, work' = disk', UNCHANGED day,
         at'[p] # "backfill", \A q \in Proc \ {p} : at'[q] = at[q] /\ oldest'[q] = oldest[q],
         Started(disk) \subseteq Started(disk'),
         \A t \in Started(disk') : t \in Started(disk) \/ t.day = day,
         \A s \in Source : Inherited(s)' => Inherited(s) /\ since'[s] = since[s],
         Borrowed(disk)'
  PROVE  Dates'
<1>1. day' \in Day /\ day <= day'
  BY DayAssumption DEF IInv, TypeOK, Day
<1>2. Borrowed(work)' /\ Started(work') = Started(disk')
  BY DEF Borrowed, Fetched
<1>3. \A q \in Proc : at'[q] = "backfill" => at[q] = "backfill" /\ oldest'[q] = oldest[q]
  OBVIOUS
<1> QED
  BY <1>1, <1>2, <1>3, DatesFrame

LEMMA InsertRowDates ==
  ASSUME IInv, Dates, NEW p \in Proc, InsertRow(p)
  PROVE  Dates'
<1> DEFINE row == [started |-> [day |-> day, precise |-> TRUE], counts |-> "process", failed |-> {}]
<1>1. at[p] \in Beyond /\ MayWrite(p)
  BY DEF InsertRow, Change, Beyond
<1>2. writer = NoProc /\ View(p) = disk /\ work = disk
  BY <1>1, RunView
<1>3. /\ disk' = [disk EXCEPT !.log = Append(disk.log, row)] /\ work' = disk'
      /\ at' = [at EXCEPT ![p] = "sync"]
      /\ UNCHANGED <<oldest, day, since>>
  BY <1>2, NullAssumption DEF InsertRow, Change, Goto
<1>4. row \in Row /\ row.started.day = day
  BY DEF Row, Stamp, IInv, TypeOK
<1>5. disk.log \in Seq(Row)
  BY DEF IInv, TypeOK, Database
<1> HIDE DEF row
<1>6. /\ disk'.listed = disk.listed /\ disk'.first = disk.first
      /\ disk'.articles = disk.articles /\ disk'.log = Append(disk.log, row)
  BY <1>3 DEF IInv, TypeOK, Database
<1>7. Started(disk') = Started(disk) \cup {row.started}
  <2>1. DOMAIN disk.log = 1 .. Len(disk.log) /\ DOMAIN disk'.log = 1 .. Len(disk.log) + 1
    BY <1>4, <1>5, <1>6
  <2>2. \A i \in DOMAIN disk.log : disk'.log[i] = disk.log[i]
    BY <1>4, <1>5, <1>6
  <2>3. disk'.log[Len(disk.log) + 1] = row
    BY <1>4, <1>5, <1>6
  <2>4. Len(disk.log) \in Nat
    BY <1>5
  <2>5. DOMAIN disk'.log = DOMAIN disk.log \cup {Len(disk.log) + 1}
    BY <2>1, <2>4
  <2> QED
    BY <2>2, <2>3, <2>5 DEF Started
<1>8. Borrowed(disk)'
  BY <1>3, <1>6 DEF Dates, Borrowed, Fetched
<1>9. \A s \in Source : Inherited(s)' => Inherited(s) /\ since'[s] = since[s]
  BY <1>3, <1>6 DEF Inherited
<1>10. at'[p] # "backfill" /\ \A q \in Proc \ {p} : at'[q] = at[q] /\ oldest'[q] = oldest[q]
  BY <1>3 DEF IInv, TypeOK
<1> QED
  BY <1>3, <1>4, <1>7, <1>8, <1>9, <1>10, RunDates

LEMMA SyncDates ==
  ASSUME IInv, Dates, NEW p \in Proc, Sync(p)
  PROVE  Dates'
<1> DEFINE new == Known \ disk.listed
<1>1. at[p] \in Beyond /\ MayWrite(p)
  BY DEF Sync, Change, Beyond
<1>2. writer = NoProc /\ View(p) = disk /\ work = disk
  BY <1>1, RunView
<1>3. /\ disk' = [disk EXCEPT !.listed = disk.listed \cup Known, !.enabled = On, !.first = Dated(disk)]
      /\ work' = disk' /\ at' = [at EXCEPT ![p] = "fetch"]
      /\ since' = [s \in Source |-> IF s \in new THEN day ELSE since[s]]
      /\ UNCHANGED <<oldest, day>>
  BY <1>2, NullAssumption DEF Sync, Change, Goto
<1>4. disk.listed \subseteq Source /\ Known \subseteq Source /\ day \in Day
  BY DEF IInv, TypeOK, Database, Known
<1>5. /\ \A s \in new : Dated(disk)[s] = [day |-> day, precise |-> FALSE]
      /\ \A s \in Source \ new : Dated(disk)[s] = disk.first[s]
  BY <1>4 DEF Dated
<1>6. /\ disk'.listed = disk.listed \cup Known /\ disk'.first = Dated(disk)
      /\ disk'.articles = disk.articles /\ disk'.log = disk.log
  BY <1>3 DEF IInv, TypeOK, Database
<1>7. Started(disk') = Started(disk)
  BY <1>6 DEF Started
<1>8. FirstDay <= day /\ day \in Nat /\ FirstDay \in Nat
  BY <1>4, DayAssumption DEF Dates, Day
<1>9. Borrowed(disk)'
  <2> SUFFICES ASSUME NEW s \in disk'.listed, disk'.first[s] # NoDay
               PROVE  /\ ~disk'.first[s].precise
                      /\ since'[s] < FirstDay => Fetched(disk', s) # {} \/ disk'.first[s].day <= since'[s]
    BY DEF Borrowed
  <2>1. CASE s \in new
    <3>1. disk'.first[s] = [day |-> day, precise |-> FALSE] /\ since'[s] = day
      BY <1>3, <1>4, <1>5, <1>6, <2>1
    <3> QED
      BY <1>8, <3>1
  <2>2. CASE s \notin new
    <3>1. s \in disk.listed /\ disk'.first[s] = disk.first[s] /\ since'[s] = since[s]
      BY <1>3, <1>4, <1>5, <1>6, <2>2
    <3> QED
      BY <1>6, <3>1 DEF Dates, Borrowed, Fetched
  <2> QED
    BY <2>1, <2>2
<1>10. \A s \in Source : Inherited(s)' => Inherited(s) /\ since'[s] = since[s]
  BY <1>3, <1>6, <1>8 DEF Inherited
<1>11. at'[p] # "backfill" /\ \A q \in Proc \ {p} : at'[q] = at[q] /\ oldest'[q] = oldest[q]
  BY <1>3 DEF IInv, TypeOK
<1> QED
  BY <1>3, <1>7, <1>9, <1>10, <1>11, RunDates

\* An update of a row leaves its moment; articles only make dates sounder.
LEMMA UpdateDates ==
  ASSUME IInv, Dates, NEW p \in Proc, work' = disk', UNCHANGED <<day, since>>,
         at'[p] # "backfill", \A q \in Proc \ {p} : at'[q] = at[q] /\ oldest'[q] = oldest[q],
         Started(disk') = Started(disk),
         disk'.listed = disk.listed, disk'.first = disk.first, disk.articles \subseteq disk'.articles
  PROVE  Dates'
<1>1. \A s \in Source : Inherited(s)' => Inherited(s) /\ since'[s] = since[s]
  BY DEF Inherited
<1>2. Borrowed(disk)'
  BY DEF Dates, Borrowed, Fetched
<1> QED
  BY <1>1, <1>2, RunDates

LEMMA StartedKept ==
  ASSUME NEW log \in Seq(Row), NEW i \in Nat, NEW failed \in SUBSET Source,
         NEW counts \in {"process", "nested"},
         NEW new, new \in {[log EXCEPT ![i].failed = failed], [log EXCEPT ![i].counts = counts]}
  PROVE  {new[j].started : j \in DOMAIN new} = {log[j].started : j \in DOMAIN log}
<1>1. CASE i \in DOMAIN log
  <2>1. log[i] \in Row
    BY <1>1
  <2>2. PICK row \in Row : row.started = log[i].started /\ new = [log EXCEPT ![i] = row]
    <3> DEFINE a == [log[i] EXCEPT !.failed = failed]
               b == [log[i] EXCEPT !.counts = counts]
    <3>1. a \in Row /\ a.started = log[i].started /\ b \in Row /\ b.started = log[i].started
      BY <2>1 DEF Row
    <3>2. new \in {[log EXCEPT ![i] = a], [log EXCEPT ![i] = b]}
      BY <1>1
    <3> HIDE DEF a, b
    <3> QED
      BY <3>1, <3>2
  <2>3. DOMAIN new = DOMAIN log /\ \A j \in DOMAIN log : new[j].started = log[j].started
    BY <2>2, RowUpdate
  <2> QED
    BY <2>3
<1>2. CASE i \notin DOMAIN log
  <2>1. new = log
    BY <1>2
  <2> QED
    BY <2>1
<1> QED
  BY <1>1, <1>2

LEMMA FetchDates ==
  ASSUME IInv, Dates, NEW p \in Proc, NEW failed \in SUBSET Source, NEW news \in SUBSET Source,
         Fetch(p, failed, news)
  PROVE  Dates'
<1> DEFINE log == [disk.log EXCEPT ![mine[p]].failed = failed]
<1>1. at[p] \in Beyond /\ MayWrite(p)
  BY DEF Fetch, Change, Beyond
<1>2. writer = NoProc /\ View(p) = disk /\ work = disk
  BY <1>1, RunView
<1>3. /\ disk' = [disk EXCEPT !.articles = disk.articles \cup (news \X {day}), !.log = log]
      /\ work' = disk' /\ at' = [at EXCEPT ![p] = "finish"]
      /\ UNCHANGED <<oldest, day, since>>
  BY <1>2, NullAssumption DEF Fetch, Change, Goto
<1>4. disk.log \in Seq(Row) /\ mine[p] \in Nat
  BY DEF IInv, TypeOK, Database
<1>5. {log[j].started : j \in DOMAIN log} = {disk.log[j].started : j \in DOMAIN disk.log}
  BY <1>4, StartedKept
<1> HIDE DEF log
<1>6. /\ disk'.listed = disk.listed /\ disk'.first = disk.first
      /\ disk.articles \subseteq disk'.articles /\ disk'.log = log
  BY <1>3 DEF IInv, TypeOK, Database
<1>7. Started(disk') = Started(disk)
  BY <1>5, <1>6 DEF Started
<1>8. at'[p] # "backfill" /\ \A q \in Proc \ {p} : at'[q] = at[q] /\ oldest'[q] = oldest[q]
  BY <1>3 DEF IInv, TypeOK
<1> QED
  BY <1>3, <1>6, <1>7, <1>8, UpdateDates

LEMMA OutcomeDates ==
  ASSUME IInv, Dates, NEW p \in Proc, NEW counts \in {"process", "nested"}, Outcome(p, counts),
         at[p] \in Beyond
  PROVE  Dates'
<1> DEFINE log == [disk.log EXCEPT ![mine[p]].counts = counts]
<1>1. MayWrite(p)
  BY DEF Outcome, Change
<1>2. writer = NoProc /\ View(p) = disk /\ work = disk
  BY <1>1, RunView
<1>3. /\ disk' = [disk EXCEPT !.log = log] /\ work' = disk' /\ at' = [at EXCEPT ![p] = "idle"]
      /\ UNCHANGED <<oldest, day, since>>
  BY <1>2, NullAssumption DEF Outcome, Change, Goto
<1>4. disk.log \in Seq(Row) /\ mine[p] \in Nat
  BY DEF IInv, TypeOK, Database
<1>5. {log[j].started : j \in DOMAIN log} = {disk.log[j].started : j \in DOMAIN disk.log}
  BY <1>4, StartedKept
<1> HIDE DEF log
<1>6. /\ disk'.listed = disk.listed /\ disk'.first = disk.first
      /\ disk.articles \subseteq disk'.articles /\ disk'.log = log
  BY <1>3 DEF IInv, TypeOK, Database
<1>7. Started(disk') = Started(disk)
  BY <1>5, <1>6 DEF Started
<1>8. at'[p] # "backfill" /\ \A q \in Proc \ {p} : at'[q] = at[q] /\ oldest'[q] = oldest[q]
  BY <1>3 DEF IInv, TypeOK
<1> QED
  BY <1>3, <1>6, <1>7, <1>8, UpdateDates

LEMMA NextDates == IInv /\ Dates /\ [Next]_vars => Dates'
<1> SUFFICES ASSUME IInv, Dates, [Next]_vars PROVE Dates'
  OBVIOUS
<1>1. day \in Nat /\ day \in Day /\ day <= day
  BY DayAssumption DEF IInv, TypeOK, Day
<1>2. ASSUME NEW p \in Proc, Begin(p) \/ ReadColumns(p) \/ ReadLogColumns(p) PROVE Dates'
  <2>1. /\ UNCHANGED <<disk, work, since, day, oldest>>
        /\ \A q \in Proc : at'[q] = "backfill" => at[q] = "backfill"
    BY <1>2 DEF Begin, ReadColumns, ReadLogColumns, Goto, IInv, TypeOK
  <2> QED
    BY <1>1, <2>1, SameDates
<1>3. ASSUME NEW p \in Proc, AddReason(p) \/ AddFirstSeen(p) \/ AddLastStage(p) PROVE Dates'
  <2>1. /\ UNCHANGED <<since, day, oldest>>
        /\ \A q \in Proc : at'[q] = "backfill" => at[q] = "backfill"
        /\ (\E column \in Column : Add(p, column)) \/ UNCHANGED <<disk, work>>
    BY <1>3 DEF AddReason, AddFirstSeen, AddLastStage, Goto, IInv, TypeOK, Column
  <2>2. CASE \E column \in Column : Add(p, column)
    BY <2>1, <2>2, AddDates
  <2>3. CASE UNCHANGED <<disk, work>>
    BY <1>1, <2>1, <2>3, SameDates
  <2> QED
    BY <2>1, <2>2, <2>3
<1>4. ASSUME NEW p \in Proc, Refused(p) \/ Kill(p) PROVE Dates'
  BY <1>4, GoneDates DEF Refused, Kill
<1>5. ASSUME NEW p \in Proc, Finish(p) \/ Crash(p) PROVE Dates'
  BY <1>5, OutcomeDates DEF Finish, Crash, Beyond
<1>6. CASE Edit
  BY <1>1, <1>6, SameDates DEF Edit
<1>7. CASE NextDay
  <2>1. day' \in Day /\ day <= day'
    BY <1>7, DayAssumption DEF NextDay, IInv, TypeOK, Day
  <2> QED
    BY <1>7, <2>1, SameDates DEF NextDay
<1>8. CASE UNCHANGED vars
  BY <1>1, <1>8, SameDates DEF vars
<1> QED
  BY <1>2, <1>3, <1>4, <1>5, <1>6, <1>7, <1>8, ReadFallbackDates, BackfillDates, CommitDates,
     InsertRowDates, SyncDates, FetchDates DEF Next, Step

\* The report of the feeds' health can always be made, and flags a silent
\* source neither late nor, when sync_sources dated it, early.
THEOREM FlagsAreExact ==
  ASSUME OldLogKept
  PROVE  Spec => []FlagsExact
<1>1. Init => Dates
  BY DatesInit
<1>2. Spec => []Dates
  BY <1>1, NextDates, Invariance, PTL DEF Spec
<1>3. IInv /\ Dates => FlagsExact
  <2> SUFFICES ASSUME IInv, Dates PROVE FlagsExact
    OBVIOUS
  <2>1. Readable
    BY DEF Readable, HasAge, Dates, Borrowed
  <2>2. NotFlaggedEarly
    BY DEF IInv, Sound, NotFlaggedEarly, ZeroYield, DaysSinceFirstSeen, HasAge
  <2>3. ASSUME NEW s \in disk.enabled, HasAge(s), Fetched(disk, s) = {}, day - since[s] > MinAge
        PROVE  ZeroYield(s)
    <3>1. disk.first[s] \in Stamp /\ since[s] \in Day /\ day \in Day /\ s \in disk.listed
      BY <2>3 DEF HasAge, IInv, TypeOK, Database, Sound
    <3>2. disk.first[s].day \in Day
      BY <3>1 DEF Stamp
    <3>3. disk.first[s].day <= since[s]
      BY <2>3, <3>1, <3>2, DayAssumption DEF HasAge, IInv, Sound, Dates, Borrowed, Day
    <3>4. day - disk.first[s].day > MinAge
      BY <2>3, <3>1, <3>2, <3>3, DayAssumption, ReportAssumption DEF Day
    <3> QED
      BY <2>3, <3>4 DEF ZeroYield, DaysSinceFirstSeen
  <2> QED
    BY <2>1, <2>2, <2>3 DEF FlagsExact, SilentIsFlagged
<1> QED
  BY <1>2, <1>3, Invariance, PTL
=============================================================================
