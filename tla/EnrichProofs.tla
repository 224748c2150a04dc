---- MODULE EnrichProofs ----
(***************************************************************************)
(* What Enrich promises, for any processes, articles, models and bounds.   *)
(* The first invariant is about types, the open transaction, which brings  *)
(* no articles and takes no clusters away, and what a placement in the     *)
(* midst of its statements has picked.  On it rest what a run knows of the *)
(* articles its embedding stage saw, and, for a single process under a     *)
(* single model, that a vector once there stays.                           *)
(***************************************************************************)
EXTENDS Enrich, TLAPS

Places == {"idle", "hash", "hashing", "bypass", "bypassing", "embed", "encode", "store",
           "cluster", "placing", "join", "mean", "seed", "seeded", "placed"}

\* Between the statements of a placement, where it holds the write lock.
Midway == {"mean", "seeded", "placed"}

\* Where a process may hold the write lock.
Writing == {"hashing", "bypassing", "store"} \cup Midway

\* Where the list is one of embedded articles.
Placing == {"placing", "join", "seed"} \cup Midway

Rows == UNION {[s -> Vector \cup {NoVector}] : s \in SUBSET Article}

Tables ==
  [article : SUBSET Article, simhash : SUBSET Article,
   embedding : [Article -> Vector \cup {NoVector}], cluster : Seq(Cluster)]

\* What is picked, and that the cluster is there.
Picked(p) ==
  /\ at[p] \in {"join", "mean", "seed", "seeded"} => pick[p].article \in Article /\ pick[p].vector \in Vector
  /\ at[p] = "join" => pick[p].cluster \in DOMAIN disk.cluster
  /\ at[p] \in {"mean", "seeded"} => pick[p].cluster \in DOMAIN work.cluster

IInv ==
  /\ TypeOK
  /\ disk \in Tables /\ work \in Tables
  /\ todo \in [Proc -> Rows] /\ known \in [Proc -> SUBSET Article]
  /\ used \in [changes : Nat, faults : Nat]
  /\ work.article = disk.article /\ DOMAIN disk.cluster \subseteq DOMAIN work.cluster
  /\ \A p \in Proc : writer = p => at[p] \in Writing
  /\ \A p \in Proc : at[p] \in Midway => writer = p
  /\ \A p \in Proc : at[p] \in Placing => \A a \in DOMAIN todo[p] : todo[p][a] # NoVector
  /\ \A p \in Proc : Picked(p)
-----------------------------------------------------------------------------
LEMMA NoVectorIsNone == NoVector \notin Vector
  BY EnrichBoundAssumption DEF NoVector, Vector

LEMMA RowsType ==
  ASSUME NEW rows \in Rows
  PROVE  /\ DOMAIN rows \subseteq Article
         /\ \A a \in DOMAIN rows : rows[a] \in Vector \cup {NoVector}
  BY DEF Rows

LEMMA WithoutRow ==
  ASSUME NEW rows \in Rows, NEW a
  PROVE  /\ Without(rows, a) \in Rows
         /\ DOMAIN Without(rows, a) = DOMAIN rows \ {a}
         /\ DOMAIN Without(rows, a) \subseteq DOMAIN rows
         /\ \A b \in DOMAIN Without(rows, a) : Without(rows, a)[b] = rows[b]
<1>1. PICK s \in SUBSET Article : rows \in [s -> Vector \cup {NoVector}]
  BY DEF Rows
<1>2. Without(rows, a) \in [s \ {a} -> Vector \cup {NoVector}] /\ s \ {a} \in SUBSET Article
  BY <1>1 DEF Without
<1>3. Without(rows, a) \in Rows
  BY <1>2 DEF Rows
<1> QED
  BY <1>3 DEF Without

LEMMA RowsMade ==
  ASSUME NEW s \in SUBSET Article, NEW f \in [s -> Vector \cup {NoVector}]
  PROVE  f \in Rows
  BY DEF Rows

LEMMA NoRowsIn == NoRows \in Rows /\ DOMAIN NoRows = {}
<1>1. NoRows \in [{} -> Vector \cup {NoVector}]
  BY DEF NoRows
<1>2. {} \in SUBSET Article
  OBVIOUS
<1> QED
  BY <1>1, <1>2 DEF Rows

\* What a process reads when it may write is what it has written.
LEMMA ViewIsWork ==
  ASSUME IInv, NEW p \in Proc, writer \in {NoOne, p}
  PROVE  View(p) = work
  BY DEF IInv, TypeOK, View

LEMMA ViewInTables ==
  ASSUME IInv, NEW p \in Proc
  PROVE  View(p) \in Tables /\ View(p).article = disk.article
  BY DEF IInv, View

LEMMA InitInv == Init => IInv
<1> SUFFICES ASSUME Init PROVE IInv
  OBVIOUS
<1>1. disk = [article |-> {}, simhash |-> {}, embedding |-> [a \in Article |-> NoVector], cluster |-> <<>>]
  BY DEF Init
<1>2. <<>> \in Seq(Cluster)
  OBVIOUS
<1>3. disk \in Tables /\ TablesOK(disk) /\ work = disk
  BY <1>1, <1>2 DEF Init, Tables, TablesOK
<1>4. NoRows \in Rows /\ DOMAIN NoRows = {}
  BY NoRowsIn
<1>5. /\ todo = [p \in Proc |-> NoRows] /\ known = [p \in Proc |-> {}] /\ at = [p \in Proc |-> "idle"]
      /\ writer = NoOne /\ now = 0 /\ setting \in Model /\ model = [p \in Proc |-> setting]
      /\ used = [changes |-> 0, faults |-> 0] /\ pick = [p \in Proc |-> NoPick]
  BY DEF Init
<1>6. NoPick \in Pick
  BY DEF NoPick, Pick, Mean
<1>7. TypeOK
  BY <1>3, <1>4, <1>5, <1>6, EnrichBoundAssumption DEF TypeOK
<1>8. \A p \in Proc : Picked(p) /\ at[p] \notin Midway
  BY <1>5 DEF Picked, Midway
<1> QED
  BY <1>3, <1>4, <1>5, <1>7, <1>8, EnrichProcAssumption DEF IInv

\* What a step of p leaves of the other processes.
LEMMA OthersPicked ==
  ASSUME IInv, NEW p \in Proc, NEW place, at' = [at EXCEPT ![p] = place],
         NEW k, pick' = [pick EXCEPT ![p] = k],
         DOMAIN disk.cluster \subseteq DOMAIN disk'.cluster,
         NEW q \in Proc \ {p}, at[q] \in Midway => work' = work
  PROVE  Picked(q)'
<1>1. at'[q] = at[q] /\ pick'[q] = pick[q]
  BY DEF IInv, TypeOK
<1> QED
  BY <1>1 DEF Picked, IInv, Midway

\* A step of p that writes nothing.
LEMMA SilentInv ==
  ASSUME IInv, NEW p \in Proc, UNCHANGED <<now, setting, disk, work, writer, used>>,
         NEW place \in Places \ Midway, at' = [at EXCEPT ![p] = place],
         model' \in [Proc -> Model],
         NEW rows \in Rows, todo' = [todo EXCEPT ![p] = rows],
         DOMAIN rows \subseteq disk.article,
         NEW k \in Pick, pick' = [pick EXCEPT ![p] = k],
         place \in {"join", "seed"} => k.article \in Article /\ k.vector \in Vector,
         place = "join" => k.cluster \in DOMAIN disk.cluster,
         NEW seen \in SUBSET disk.article, known' = [known EXCEPT ![p] = seen],
         writer = p => place \in Writing,
         place \in Placing => \A a \in DOMAIN rows : rows[a] # NoVector
  PROVE  IInv'
<1>1. at' \in [Proc -> Places] /\ todo' \in [Proc -> Rows] /\ pick' \in [Proc -> Pick]
  BY DEF IInv, TypeOK, Places
<1>2. known' \in [Proc -> SUBSET Article] /\ \A q \in Proc : DOMAIN todo'[q] \cup known'[q] \subseteq disk'.article
  BY DEF IInv, TypeOK, Tables
<1>3. TypeOK'
  BY <1>1, <1>2 DEF IInv, TypeOK, TablesOK, Places
<1>4. \A q \in Proc : (writer' = q => at'[q] \in Writing) /\ (at'[q] \in Midway => writer' = q)
  BY DEF IInv, TypeOK
<1>5. \A q \in Proc : at'[q] \in Placing => \A a \in DOMAIN todo'[q] : todo'[q][a] # NoVector
  BY DEF IInv, TypeOK
<1>6. at'[p] = place /\ pick'[p] = k
  BY DEF IInv, TypeOK
<1>7. Picked(p)'
  BY <1>6 DEF Picked, Midway
<1>8. \A q \in Proc \ {p} : Picked(q)'
  BY OthersPicked
<1> QED
  BY <1>1, <1>2, <1>3, <1>4, <1>5, <1>7, <1>8 DEF IInv

\* A step of p that writes, in its transaction.
LEMMA WriteInv ==
  ASSUME IInv, NEW p \in Proc, UNCHANGED <<now, setting, model, known, used>>,
         NEW place \in Places \cap Writing, at' = [at EXCEPT ![p] = place],
         NEW new \in Tables, Writes(p, new), new.article = disk.article,
         DOMAIN disk.cluster \subseteq DOMAIN new.cluster, new.simhash \subseteq new.article,
         NEW rows \in Rows, todo' = [todo EXCEPT ![p] = rows], DOMAIN rows \subseteq DOMAIN todo[p],
         place \in Placing => \A a \in DOMAIN rows : rows[a] # NoVector,
         NEW k \in Pick, pick' = [pick EXCEPT ![p] = k],
         place \in {"mean", "seeded"} =>
           k.article \in Article /\ k.vector \in Vector /\ k.cluster \in DOMAIN new.cluster
  PROVE  IInv'
<1>1. disk' = disk /\ work' = new /\ writer' = p /\ writer \in {NoOne, p}
  BY DEF Writes
<1>2. /\ todo' \in [Proc -> Rows] /\ \A q \in Proc : DOMAIN todo'[q] \cup known'[q] \subseteq disk'.article
      /\ at' \in [Proc -> Places] /\ pick' \in [Proc -> Pick]
      /\ at'[p] = place /\ pick'[p] = k
  BY <1>1 DEF IInv, TypeOK, Places
<1>3. TypeOK'
  BY <1>1, <1>2, EnrichProcAssumption DEF IInv, TypeOK, TablesOK, Tables, Places
<1>4. \A q \in Proc \ {p} : at'[q] = at[q] /\ at[q] \notin Midway
  BY <1>1, EnrichProcAssumption DEF IInv, TypeOK
<1>5. \A q \in Proc : at'[q] \in Placing => \A b \in DOMAIN todo'[q] : todo'[q][b] # NoVector
  BY DEF IInv, TypeOK
<1>6. Picked(p)'
  BY <1>1, <1>2 DEF Picked, Writing, Midway
<1>7. \A q \in Proc \ {p} : Picked(q)'
  BY <1>1, <1>4, OthersPicked
<1> QED
  BY <1>1, <1>2, <1>3, <1>4, <1>5, <1>6, <1>7 DEF IInv

\* A commit.
LEMMA CommitInv ==
  ASSUME IInv, NEW p \in Proc, UNCHANGED <<now, setting, model, todo, known, used>>,
         Commits(p), NEW place \in {"bypass", "embed", "encode", "placing"}, at' = [at EXCEPT ![p] = place],
         place = "placing" => at[p] \in Placing,
         NEW k \in Pick, pick' = [pick EXCEPT ![p] = k]
  PROVE  IInv'
<1>1. /\ disk' \in Tables /\ work' = work /\ TablesOK(disk')
      /\ disk'.article = disk.article
      /\ DOMAIN disk.cluster \subseteq DOMAIN disk'.cluster /\ DOMAIN disk'.cluster \subseteq DOMAIN work'.cluster
      /\ writer' \in Proc \cup {NoOne} /\ (writer' = NoOne => work' = disk')
      /\ writer' # p /\ (writer' # NoOne => writer' = writer)
      /\ (writer # p => writer' = writer)
  BY EnrichProcAssumption DEF Commits, IInv, TypeOK, TablesOK
<1>2. /\ at' \in [Proc -> Places] /\ pick' \in [Proc -> Pick]
      /\ at'[p] = place /\ \A q \in Proc \ {p} : at'[q] = at[q]
  BY DEF IInv, TypeOK, Places
<1>3. \A q \in Proc : (writer' = q => at'[q] \in Writing) /\ (at'[q] \in Midway => writer' = q)
  BY <1>1, <1>2, EnrichProcAssumption DEF IInv, TypeOK, Midway
<1>4. TypeOK'
  BY <1>1, <1>2 DEF IInv, TypeOK, Places, TablesOK
<1>5. \A q \in Proc : at'[q] \in Placing => \A a \in DOMAIN todo'[q] : todo'[q][a] # NoVector
  BY <1>2 DEF IInv, Placing, Midway
<1>6. Picked(p)'
  BY <1>2 DEF Picked
<1>7. \A q \in Proc \ {p} : Picked(q)'
  BY <1>1, OthersPicked
<1> QED
  BY <1>1, <1>2, <1>3, <1>4, <1>5, <1>6, <1>7 DEF IInv

\* What a step of p leaves alone, written as the lemmas above ask for it.
LEMMA SameTodo ==
  IInv => \A p \in Proc : /\ todo = [todo EXCEPT ![p] = todo[p]] /\ todo[p] \in Rows
                          /\ DOMAIN todo[p] \subseteq disk.article
  BY DEF IInv, TypeOK

LEMMA SamePick == IInv => \A p \in Proc : pick = [pick EXCEPT ![p] = pick[p]] /\ pick[p] \in Pick
  BY DEF IInv, TypeOK

LEMMA SameKnown ==
  IInv => \A p \in Proc : known = [known EXCEPT ![p] = known[p]] /\ known[p] \in SUBSET disk.article
  BY DEF IInv, TypeOK

LEMMA SameAt == IInv => \A p \in Proc : at = [at EXCEPT ![p] = at[p]]
  BY DEF IInv, TypeOK

LEMMA BeginInv == ASSUME IInv, NEW p \in Proc, Begin(p) PROVE IInv'
<1> DEFINE place == IF p \in RunProc THEN "hash" ELSE "embed"
<1>1. place \in Places \ Midway /\ place \notin Placing /\ writer # p
  BY DEF Begin, Places, IInv, Writing, Midway, Placing
<1>2. at' = [at EXCEPT ![p] = place] /\ model' \in [Proc -> Model]
  BY DEF Begin, Goes, IInv, TypeOK
<1>3. place \notin {"join", "seed"}
  OBVIOUS
<1>4. /\ todo' = [todo EXCEPT ![p] = todo[p]] /\ todo[p] \in Rows /\ DOMAIN todo[p] \subseteq disk.article
      /\ pick' = [pick EXCEPT ![p] = pick[p]] /\ pick[p] \in Pick
      /\ known' = [known EXCEPT ![p] = known[p]] /\ known[p] \in SUBSET disk.article
  BY SameTodo, SamePick, SameKnown DEF Begin
<1> HIDE DEF place
<1> QED
  BY <1>1, <1>2, <1>3, <1>4, SilentInv DEF Begin

\* The rows a query returns.
LEMMA FetchedRows ==
  ASSUME IInv, NEW p \in Proc, NEW s \in SUBSET disk.article, Fetches(p, s)
  PROVE  \E rows \in Rows : /\ todo' = [todo EXCEPT ![p] = rows]
                            /\ DOMAIN rows = s
                            /\ \A a \in s : rows[a] = View(p).embedding[a]
<1> DEFINE rows == [a \in s |-> View(p).embedding[a]]
<1>1. s \in SUBSET Article /\ View(p).embedding \in [Article -> Vector \cup {NoVector}]
  BY ViewInTables DEF IInv, Tables
<1>2. rows \in [s -> Vector \cup {NoVector}]
  BY <1>1
<1> QED
  BY <1>1, <1>2, RowsMade DEF Fetches

LEMMA ReadUnhashedInv == ASSUME IInv, NEW p \in Proc, ReadUnhashed(p) PROVE IInv'
<1>1. PICK rows \in Rows : todo' = [todo EXCEPT ![p] = rows] /\ DOMAIN rows \subseteq disk.article
  BY FetchedRows DEF ReadUnhashed
<1>2. "hashing" \in (Places \cap Writing) \ Midway /\ "hashing" \notin Placing \cup {"join", "seed"}
  BY DEF ReadUnhashed, Places, Writing, Midway, Placing, IInv
<1>3. at' = [at EXCEPT ![p] = "hashing"] /\ model' \in [Proc -> Model]
  BY DEF ReadUnhashed, Goes, IInv, TypeOK
<1> QED
  BY <1>1, <1>2, <1>3, SamePick, SameKnown, SilentInv DEF ReadUnhashed

\* A step that writes for one row of a list, and goes on with the others.
LEMMA RowWritten ==
  ASSUME IInv, NEW p \in Proc, UNCHANGED <<now, setting, at, model, pick, known, used>>,
         at[p] \in {"hashing", "bypassing", "store"},
         NEW new \in Tables, Writes(p, new), new.article = disk.article,
         DOMAIN disk.cluster \subseteq DOMAIN new.cluster, new.simhash \subseteq new.article,
         NEW a, todo' = [todo EXCEPT ![p] = Without(todo[p], a)]
  PROVE  IInv'
<1>1. /\ at[p] \in Places \cap Writing /\ at[p] \notin Placing \cup {"mean", "seeded"}
      /\ at' = [at EXCEPT ![p] = at[p]]
  BY SameAt DEF Places, Writing, Placing, Midway
<1>2. Without(todo[p], a) \in Rows /\ DOMAIN Without(todo[p], a) \subseteq DOMAIN todo[p]
  <2>1. todo[p] \in Rows
    BY DEF IInv
  <2> QED
    BY <2>1, WithoutRow
<1>3. pick' = [pick EXCEPT ![p] = pick[p]] /\ pick[p] \in Pick
  BY SamePick
<1> QED
  BY <1>1, <1>2, <1>3, WriteInv

LEMMA HashInv == ASSUME IInv, NEW p \in Proc, Hash(p) PROVE IInv'
<1>1. PICK a \in DOMAIN todo[p] : /\ Writes(p, [View(p) EXCEPT !.simhash = @ \cup {a}])
                                  /\ Drops(p, a)
  BY DEF Hash
<1> DEFINE new == [View(p) EXCEPT !.simhash = View(p).simhash \cup {a}]
<1>2. View(p) = work /\ Writes(p, new)
  BY <1>1, ViewIsWork DEF Writes
<1>3. a \in disk.article /\ a \in Article /\ work.simhash \subseteq work.article
  BY <1>1 DEF IInv, TypeOK, TablesOK
<1>4. /\ new \in Tables /\ new.article = disk.article /\ new.cluster = work.cluster
      /\ new.simhash \subseteq new.article
  BY <1>2, <1>3 DEF IInv, Tables
<1>5. DOMAIN disk.cluster \subseteq DOMAIN new.cluster
  BY <1>4 DEF IInv
<1> HIDE DEF new
<1>6. at[p] = "hashing" /\ todo' = [todo EXCEPT ![p] = Without(todo[p], a)] /\ UNCHANGED <<at, pick>>
  BY <1>1 DEF Hash, Drops
<1> QED
  BY <1>2, <1>4, <1>5, <1>6, RowWritten DEF Hash

LEMMA HashedInv == ASSUME IInv, NEW p \in Proc, Hashed(p) PROVE IInv'
  BY CommitInv, SamePick DEF Hashed, Goes

LEMMA ReadCandidatesInv == ASSUME IInv, NEW p \in Proc, ReadCandidates(p) PROVE IInv'
<1>1. PICK rows \in Rows : todo' = [todo EXCEPT ![p] = rows] /\ DOMAIN rows \subseteq disk.article
  BY FetchedRows DEF ReadCandidates, Bypassable
<1>2. "bypassing" \in (Places \cap Writing) \ Midway /\ "bypassing" \notin Placing \cup {"join", "seed"}
  BY DEF ReadCandidates, Places, Writing, Midway, Placing, IInv
<1>3. at' = [at EXCEPT ![p] = "bypassing"] /\ model' \in [Proc -> Model]
  BY DEF ReadCandidates, Goes, IInv, TypeOK
<1> QED
  BY <1>1, <1>2, <1>3, SamePick, SameKnown, SilentInv DEF ReadCandidates

\* A vector is written into a row, and nothing else.
LEMMA EmbedTables ==
  ASSUME IInv, NEW p \in Proc, NEW a \in Article, NEW v \in Vector,
         NEW new, new = [work EXCEPT !.embedding[a] = v]
  PROVE  /\ new \in Tables /\ new.article = disk.article
         /\ DOMAIN disk.cluster \subseteq DOMAIN new.cluster /\ new.simhash \subseteq new.article
<1>1. /\ work \in Tables /\ work.article = disk.article
      /\ DOMAIN disk.cluster \subseteq DOMAIN work.cluster /\ work.simhash \subseteq work.article
  BY DEF IInv, TypeOK, TablesOK
<1>2. [work.embedding EXCEPT ![a] = v] \in [Article -> Vector \cup {NoVector}]
  BY <1>1 DEF Tables
<1> QED
  BY <1>1, <1>2 DEF Tables

LEMMA MatchVector ==
  ASSUME IInv, NEW p \in Proc, NEW a, NEW m \in Matches(p, a)
  PROVE  m \in Article /\ View(p).embedding[m] \in Vector /\ View(p).embedding[m].model = model[p]
  BY ViewInTables DEF Matches, Tables

LEMMA BypassInv == ASSUME IInv, NEW p \in Proc, Bypass(p) PROVE IInv'
<1>1. PICK a \in DOMAIN todo[p] :
        /\ \/ UNCHANGED <<disk, work, writer>>
           \/ \E m \in Matches(p, a) :
                Writes(p, [View(p) EXCEPT !.embedding[a] = View(p).embedding[m]])
        /\ Drops(p, a)
  BY DEF Bypass
<1>2. /\ at[p] = "bypassing" /\ todo' = [todo EXCEPT ![p] = Without(todo[p], a)] /\ a \in Article
      /\ UNCHANGED <<at, pick>>
  BY <1>1 DEF Bypass, Drops, IInv, TypeOK, TablesOK
<1>3. CASE UNCHANGED <<disk, work, writer>>
  <2>1. /\ Without(todo[p], a) \in Rows /\ DOMAIN Without(todo[p], a) \subseteq DOMAIN todo[p]
        /\ DOMAIN todo[p] \subseteq disk.article
    <3>1. todo[p] \in Rows /\ DOMAIN todo[p] \subseteq disk.article
      BY DEF IInv, TypeOK
    <3> QED
      BY <3>1, WithoutRow
  <2>2. /\ "bypassing" \in (Places \cap Writing) \ Midway /\ "bypassing" \notin Placing \cup {"join", "seed"}
        /\ at' = [at EXCEPT ![p] = "bypassing"]
    BY <1>2, SameAt DEF Places, Writing, Placing, Midway
  <2>3. model' \in [Proc -> Model]
    BY DEF Bypass, IInv, TypeOK
  <2>4. /\ pick' = [pick EXCEPT ![p] = pick[p]] /\ pick[p] \in Pick
        /\ known' = [known EXCEPT ![p] = known[p]] /\ known[p] \in SUBSET disk.article
    BY <1>2, SamePick, SameKnown DEF Bypass
  <2> QED
    BY <1>2, <1>3, <2>1, <2>2, <2>3, <2>4, SilentInv DEF Bypass
<1>4. CASE \E m \in Matches(p, a) : Writes(p, [View(p) EXCEPT !.embedding[a] = View(p).embedding[m]])
  <2>1. PICK m \in Matches(p, a) : Writes(p, [View(p) EXCEPT !.embedding[a] = View(p).embedding[m]])
    BY <1>4
  <2>2. View(p) = work
    BY <2>1, ViewIsWork DEF Writes
  <2> DEFINE v == work.embedding[m]
             new == [work EXCEPT !.embedding[a] = v]
  <2>3. v \in Vector
    BY <2>2, MatchVector
  <2>4. Writes(p, new) /\ new = [work EXCEPT !.embedding[a] = v]
    BY <2>1, <2>2
  <2> HIDE DEF v, new
  <2>5. /\ new \in Tables /\ new.article = disk.article
        /\ DOMAIN disk.cluster \subseteq DOMAIN new.cluster /\ new.simhash \subseteq new.article
    BY <1>2, <2>3, <2>4, EmbedTables
  <2> QED
    BY <1>2, <2>4, <2>5, RowWritten DEF Bypass
<1> QED
  BY <1>1, <1>3, <1>4

LEMMA BypassedInv == ASSUME IInv, NEW p \in Proc, Bypassed(p) PROVE IInv'
  BY CommitInv, SamePick DEF Bypassed, Goes

LEMMA ReadPendingInv == ASSUME IInv, NEW p \in Proc, ReadPending(p) PROVE IInv'
<1>1. PICK rows \in Rows : todo' = [todo EXCEPT ![p] = rows] /\ DOMAIN rows \subseteq disk.article
  BY FetchedRows DEF ReadPending, Pending
<1>2. "encode" \in Places \ Midway /\ "encode" \notin Placing \cup {"join", "seed"} /\ writer # p
  BY DEF ReadPending, Places, Writing, Midway, Placing, IInv
<1>3. at' = [at EXCEPT ![p] = "encode"] /\ model' \in [Proc -> Model]
  BY DEF ReadPending, Goes, IInv, TypeOK
<1>4. known' = [known EXCEPT ![p] = disk.article]
  BY DEF ReadPending
<1> QED
  BY <1>1, <1>2, <1>3, <1>4, SamePick, SilentInv DEF ReadPending

LEMMA EncodeInv == ASSUME IInv, NEW p \in Proc, Encode(p) PROVE IInv'
<1>1. PICK s \in SUBSET DOMAIN todo[p] :
        todo' = [todo EXCEPT ![p] = [a \in DOMAIN todo[p] |-> IF a \in s THEN Own(p, a) ELSE todo[p][a]]]
  BY DEF Encode
<1> DEFINE rows == [a \in DOMAIN todo[p] |-> IF a \in s THEN Own(p, a) ELSE todo[p][a]]
<1>2. \A a \in Article : Own(p, a) \in Vector
  BY DEF Own, Vector, IInv, TypeOK
<1>3. /\ todo[p] \in Rows /\ DOMAIN todo[p] \subseteq disk.article /\ DOMAIN todo[p] \in SUBSET Article
      /\ \A a \in DOMAIN todo[p] : todo[p][a] \in Vector \cup {NoVector}
  BY RowsType DEF IInv, TypeOK
<1>4. rows \in [DOMAIN todo[p] -> Vector \cup {NoVector}] /\ DOMAIN rows = DOMAIN todo[p]
  BY <1>2, <1>3
<1>5. rows \in Rows
  BY <1>3, <1>4, RowsMade
<1>6. todo' = [todo EXCEPT ![p] = rows]
  BY <1>1
<1> HIDE DEF rows
<1>7. /\ "store" \in (Places \cap Writing) \ Midway /\ "store" \notin Placing \cup {"join", "seed"}
      /\ at' = [at EXCEPT ![p] = "store"] /\ model' \in [Proc -> Model]
  BY DEF Encode, Goes, Places, Writing, Placing, Midway, IInv, TypeOK
<1>8. /\ pick' = [pick EXCEPT ![p] = pick[p]] /\ pick[p] \in Pick
      /\ known' = [known EXCEPT ![p] = known[p]] /\ known[p] \in SUBSET disk.article
  BY SamePick, SameKnown DEF Encode
<1> QED
  BY <1>3, <1>4, <1>5, <1>6, <1>7, <1>8, SilentInv DEF Encode

LEMMA StoreInv == ASSUME IInv, NEW p \in Proc, Store(p) PROVE IInv'
<1>1. PICK a \in Encoded(p) : Writes(p, [View(p) EXCEPT !.embedding[a] = Own(p, a)]) /\ Drops(p, a)
  BY DEF Store
<1>2. /\ at[p] = "store" /\ todo' = [todo EXCEPT ![p] = Without(todo[p], a)] /\ a \in Article
      /\ UNCHANGED <<at, pick>>
  BY <1>1 DEF Store, Drops, Encoded, IInv, TypeOK, TablesOK
<1> DEFINE v == Own(p, a)
           new == [work EXCEPT !.embedding[a] = v]
<1>3. View(p) = work /\ v \in Vector
  BY <1>1, <1>2, ViewIsWork DEF Writes, Own, Vector, IInv, TypeOK
<1>4. Writes(p, new) /\ new = [work EXCEPT !.embedding[a] = v]
  BY <1>1, <1>3
<1> HIDE DEF v, new
<1>5. /\ new \in Tables /\ new.article = disk.article
      /\ DOMAIN disk.cluster \subseteq DOMAIN new.cluster /\ new.simhash \subseteq new.article
  <2>1. a \in Article /\ v \in Vector /\ new = [work EXCEPT !.embedding[a] = v]
    BY <1>2, <1>3, <1>4
  <2> QED
    BY <2>1, EmbedTables
<1> QED
  BY <1>2, <1>4, <1>5, RowWritten DEF Store

LEMMA StoredInv == ASSUME IInv, NEW p \in Proc, Stored(p) PROVE IInv'
  BY CommitInv, SamePick DEF Stored, Goes

LEMMA EmbeddedInv == ASSUME IInv, NEW p \in Proc, Embedded(p) PROVE IInv'
<1> DEFINE place == IF p \in RunProc THEN "cluster" ELSE "idle"
<1>1. place \in Places \ Midway /\ place \notin Placing /\ place \notin {"join", "seed"} /\ writer # p
  BY DEF Embedded, Places, IInv, Writing, Midway, Placing
<1>2. at' = [at EXCEPT ![p] = place] /\ model' \in [Proc -> Model]
  BY DEF Embedded, Goes, IInv, TypeOK
<1>3. /\ todo' = [todo EXCEPT ![p] = todo[p]] /\ todo[p] \in Rows /\ DOMAIN todo[p] \subseteq disk.article
      /\ pick' = [pick EXCEPT ![p] = pick[p]] /\ pick[p] \in Pick
      /\ known' = [known EXCEPT ![p] = known[p]] /\ known[p] \in SUBSET disk.article
  BY SameTodo, SamePick, SameKnown DEF Embedded
<1> HIDE DEF place
<1> QED
  BY <1>1, <1>2, <1>3, SilentInv DEF Embedded

LEMMA ReadUnclusteredInv == ASSUME IInv, NEW p \in Proc, ReadUnclustered(p) PROVE IInv'
<1> DEFINE s == {a \in disk.article \ Members : disk.embedding[a] # NoVector
                                                  /\ disk.embedding[a].model = model[p]}
<1>1. writer # p /\ View(p) = disk /\ s \in SUBSET disk.article
  BY DEF ReadUnclustered, IInv, Writing, Midway, View
<1>2. PICK rows \in Rows : /\ todo' = [todo EXCEPT ![p] = rows] /\ DOMAIN rows = s
                           /\ \A a \in s : rows[a] = View(p).embedding[a]
  <2>1. Fetches(p, s)
    BY DEF ReadUnclustered
  <2> HIDE DEF s
  <2> QED
    BY <1>1, <2>1, FetchedRows
<1>3. DOMAIN rows \subseteq disk.article /\ \A a \in DOMAIN rows : rows[a] # NoVector
  BY <1>1, <1>2
<1>4. /\ "placing" \in Places \ Midway /\ at' = [at EXCEPT ![p] = "placing"] /\ model' \in [Proc -> Model]
      /\ known' = [known EXCEPT ![p] = {}]
  BY DEF ReadUnclustered, Goes, Places, Midway, IInv, TypeOK
<1>5. /\ pick' = [pick EXCEPT ![p] = pick[p]] /\ pick[p] \in Pick
      /\ {} \in SUBSET disk.article
  BY SamePick DEF ReadUnclustered
<1>6. UNCHANGED <<now, setting, disk, work, writer, used>>
  BY DEF ReadUnclustered
<1> QED
  BY <1>1, <1>2, <1>3, <1>4, <1>5, <1>6, SilentInv

\* What is picked: an article of the list, with the vector that was read with
\* it, and no cluster or one that is committed, with the mean it has.
LEMMA Chosen ==
  ASSUME IInv, NEW p \in Proc, Choose(p)
  PROVE  \E a \in DOMAIN todo[p], k \in Pick :
           /\ a \in Article /\ todo[p][a] \in Vector
           /\ todo' = [todo EXCEPT ![p] = Without(todo[p], a)]
           /\ pick' = [pick EXCEPT ![p] = k] /\ k.article = a /\ k.vector = todo[p][a]
           /\ \/ at' = [at EXCEPT ![p] = "seed"] /\ k.mean = {}
              \/ /\ at' = [at EXCEPT ![p] = "join"]
                 /\ k.cluster \in DOMAIN disk.cluster /\ k.mean = disk.cluster[k.cluster].mean
<1>1. PICK a \in DOMAIN todo[p] :
        /\ Drops(p, a)
        /\ \/ /\ pick' = [pick EXCEPT ![p] =
                     [article |-> a, vector |-> todo[p][a], cluster |-> 0, mean |-> {}]]
              /\ Goes(p, "seed")
           \/ /\ \E c \in Active(p, a) :
                   pick' = [pick EXCEPT ![p] =
                     [article |-> a, vector |-> todo[p][a], cluster |-> c, mean |-> disk.cluster[c].mean]]
              /\ Goes(p, "join")
  BY DEF Choose
<1>2. at[p] \in Placing
  BY DEF Choose, Placing
<1>3. a \in Article /\ todo[p][a] \in Vector
  BY <1>2, RowsType DEF IInv
<1>4. todo' = [todo EXCEPT ![p] = Without(todo[p], a)]
  BY <1>1 DEF Drops
<1>5. CASE /\ pick' = [pick EXCEPT ![p] = [article |-> a, vector |-> todo[p][a], cluster |-> 0, mean |-> {}]]
           /\ Goes(p, "seed")
  <2> DEFINE k == [article |-> a, vector |-> todo[p][a], cluster |-> 0, mean |-> {}]
  <2>1. k \in Pick
    BY <1>3 DEF Pick, Mean
  <2> QED
    BY <1>3, <1>4, <1>5, <2>1 DEF Goes
<1>6. ASSUME NEW c \in Active(p, a), Goes(p, "join"),
             pick' = [pick EXCEPT ![p] = [article |-> a, vector |-> todo[p][a], cluster |-> c,
                                          mean |-> disk.cluster[c].mean]]
      PROVE  \E k \in Pick :
               /\ pick' = [pick EXCEPT ![p] = k] /\ k.article = a /\ k.vector = todo[p][a]
               /\ at' = [at EXCEPT ![p] = "join"]
               /\ k.cluster \in DOMAIN disk.cluster /\ k.mean = disk.cluster[k.cluster].mean
  <2> DEFINE k == [article |-> a, vector |-> todo[p][a], cluster |-> c, mean |-> disk.cluster[c].mean]
  <2>1. c \in DOMAIN disk.cluster /\ disk.cluster \in Seq(Cluster)
    BY DEF Active, IInv, Tables
  <2>2. c \in Nat /\ disk.cluster[c] \in Cluster
    BY <2>1
  <2>3. k \in Pick
    BY <1>3, <2>2 DEF Pick, Cluster
  <2> QED
    BY <1>6, <2>1, <2>3 DEF Goes
<1> QED
  BY <1>1, <1>3, <1>4, <1>5, <1>6

LEMMA ChooseInv == ASSUME IInv, NEW p \in Proc, Choose(p) PROVE IInv'
<1>1. PICK a \in DOMAIN todo[p], k \in Pick :
        /\ a \in Article /\ todo[p][a] \in Vector
        /\ todo' = [todo EXCEPT ![p] = Without(todo[p], a)]
        /\ pick' = [pick EXCEPT ![p] = k] /\ k.article = a /\ k.vector = todo[p][a]
        /\ \/ at' = [at EXCEPT ![p] = "seed"]
           \/ at' = [at EXCEPT ![p] = "join"] /\ k.cluster \in DOMAIN disk.cluster
  BY Chosen
<1>2. PICK place \in {"seed", "join"} :
        at' = [at EXCEPT ![p] = place] /\ (place = "join" => k.cluster \in DOMAIN disk.cluster)
  BY <1>1
<1>3. place \in Places \ Midway /\ at[p] = "placing" /\ at[p] \in Placing /\ writer # p
  BY DEF Choose, Places, Placing, Midway, Writing, IInv
<1>4. /\ Without(todo[p], a) \in Rows /\ DOMAIN Without(todo[p], a) \subseteq disk.article
      /\ \A b \in DOMAIN Without(todo[p], a) : Without(todo[p], a)[b] # NoVector
  <2>1. todo[p] \in Rows /\ DOMAIN todo[p] \subseteq disk.article /\ \A b \in DOMAIN todo[p] : todo[p][b] # NoVector
    BY <1>3 DEF IInv, TypeOK
  <2>2. /\ Without(todo[p], a) \in Rows /\ DOMAIN Without(todo[p], a) \subseteq DOMAIN todo[p]
        /\ \A b \in DOMAIN Without(todo[p], a) : Without(todo[p], a)[b] = todo[p][b]
    BY <2>1, WithoutRow
  <2> QED
    BY <2>1, <2>2
<1>5. model' \in [Proc -> Model]
  BY DEF Choose, IInv, TypeOK
<1>6. /\ known' = [known EXCEPT ![p] = known[p]] /\ known[p] \in SUBSET disk.article
  BY SameKnown DEF Choose
<1>7. UNCHANGED <<now, setting, disk, work, writer, used>>
  BY DEF Choose
<1>8. k.article \in Article /\ k.vector \in Vector
  BY <1>1
<1> QED
  BY <1>1, <1>2, <1>3, <1>4, <1>5, <1>6, <1>7, <1>8, SilentInv

\* A row of clusters is changed, or one comes at the end.
LEMMA ClusterTables ==
  ASSUME IInv, NEW new \in Cluster, NEW c \in DOMAIN work.cluster
  PROVE  LET db == [work EXCEPT !.cluster[c] = new] IN
         /\ db \in Tables /\ db.article = disk.article /\ db.simhash \subseteq db.article
         /\ db.embedding = work.embedding /\ db.cluster = [work.cluster EXCEPT ![c] = new]
         /\ DOMAIN db.cluster = DOMAIN work.cluster
<1>1. work \in Tables /\ work.cluster \in Seq(Cluster) /\ work.simhash \subseteq work.article
  BY DEF IInv, Tables, TypeOK, TablesOK
<1>2. [work.cluster EXCEPT ![c] = new] \in Seq(Cluster)
  BY <1>1
<1> QED
  BY <1>1, <1>2 DEF Tables, IInv

LEMMA AppendTables ==
  ASSUME IInv, NEW new \in Cluster
  PROVE  LET db == [work EXCEPT !.cluster = Append(work.cluster, new)] IN
         /\ db \in Tables /\ db.article = disk.article /\ db.simhash \subseteq db.article
         /\ db.embedding = work.embedding /\ db.cluster = Append(work.cluster, new)
         /\ DOMAIN work.cluster \subseteq DOMAIN db.cluster
         /\ Len(work.cluster) + 1 \in DOMAIN db.cluster /\ Len(work.cluster) \in Nat
<1>1. work \in Tables /\ work.cluster \in Seq(Cluster) /\ work.simhash \subseteq work.article
  BY DEF IInv, Tables, TypeOK, TablesOK
<1>2. Append(work.cluster, new) \in Seq(Cluster)
  BY <1>1
<1>3. /\ DOMAIN work.cluster \subseteq DOMAIN Append(work.cluster, new)
      /\ Len(work.cluster) + 1 \in DOMAIN Append(work.cluster, new) /\ Len(work.cluster) \in Nat
  BY <1>1
<1> QED
  BY <1>1, <1>2, <1>3 DEF Tables, IInv

\* The row that a statement of a placement writes.  The mean is the one of
\* the row, or that of the pick with the vector of the pick in it.
Written(p, new) ==
  /\ new \in Cluster
  /\ \/ new.mean = NewMean(p)
     \/ \E c \in DOMAIN work.cluster : new.mean = work.cluster[c].mean

\* A statement of a placement: it writes a row of clusters in the transaction
\* of p, in place of one or at the end.
Puts(p) ==
  \E new :
    /\ Written(p, new)
    /\ \/ \E c \in DOMAIN work.cluster : work' = [work EXCEPT !.cluster[c] = new]
       \/ work' = [work EXCEPT !.cluster = Append(work.cluster, new)]

LEMMA PutTables ==
  ASSUME IInv, NEW p \in Proc, Puts(p)
  PROVE  /\ work' \in Tables /\ work'.article = disk.article /\ work'.simhash \subseteq work'.article
         /\ work'.embedding = work.embedding /\ DOMAIN work.cluster \subseteq DOMAIN work'.cluster
<1>1. PICK new \in Cluster :
        \/ \E c \in DOMAIN work.cluster : work' = [work EXCEPT !.cluster[c] = new]
        \/ work' = [work EXCEPT !.cluster = Append(work.cluster, new)]
  BY DEF Puts, Written
<1> QED
  BY <1>1, ClusterTables, AppendTables

LEMMA NewMeanType ==
  ASSUME IInv, NEW p \in Proc, pick[p].article \in Article, pick[p].vector \in Vector
  PROVE  NewMean(p) \in Mean /\ Published[pick[p].article] \in Int
  BY NearAssumption DEF NewMean, Mean, IInv, TypeOK, Pick

LEMMA Entered ==
  ASSUME IInv, NEW p \in Proc, Enters(p), pick[p].article \in Article, pick[p].cluster \in DOMAIN work.cluster
  PROVE  Puts(p) /\ Writes(p, work') /\ UNCHANGED <<now, setting, model, cutoff, todo, pick, known, used>>
<1> DEFINE c == pick[p].cluster
           new == [work.cluster[c] EXCEPT !.member = @ \cup {pick[p].article}]
<1>1. View(p) = work
  BY ViewIsWork DEF Enters, Writes
<1>2. work \in Tables /\ work.cluster[c] \in Cluster
  BY DEF IInv, Tables
<1>3. new \in Cluster /\ new.mean = work.cluster[c].mean
  BY <1>2 DEF Cluster
<1>4. Writes(p, [work EXCEPT !.cluster[c] = new])
  BY <1>1, <1>2 DEF Enters, Tables
<1> HIDE DEF new
<1>5. work' = [work EXCEPT !.cluster[c] = new] /\ Writes(p, work')
  BY <1>4 DEF Writes
<1> QED
  BY <1>3, <1>5 DEF Enters, Puts, Written

LEMMA MeanMade ==
  ASSUME IInv, NEW p \in Proc, JoinMean(p)
  PROVE  Puts(p) /\ Writes(p, work') /\ UNCHANGED <<now, setting, model, cutoff, todo, pick, known, used>>
<1> DEFINE c == pick[p].cluster
           new == [member |-> work.cluster[c].member, mean |-> NewMean(p), updated |-> Published[pick[p].article]]
<1>1. View(p) = work
  BY ViewIsWork DEF JoinMean, Writes
<1>2. c \in DOMAIN work.cluster /\ pick[p].article \in Article /\ pick[p].vector \in Vector
  BY DEF JoinMean, IInv, Picked
<1>3. work \in Tables /\ work.cluster[c] \in Cluster
  BY <1>2 DEF IInv, Tables
<1>4. new \in Cluster /\ new.mean = NewMean(p)
  BY <1>2, <1>3, NewMeanType DEF Cluster
<1>5. Writes(p, [work EXCEPT !.cluster[c] = new])
  BY <1>1, <1>3 DEF JoinMean, Tables
<1> HIDE DEF new
<1>6. work' = [work EXCEPT !.cluster[c] = new] /\ Writes(p, work')
  BY <1>5 DEF Writes
<1> QED
  BY <1>2, <1>4, <1>6 DEF JoinMean, Puts, Written

LEMMA Seeded ==
  ASSUME IInv, NEW p \in Proc, SeedCluster(p)
  PROVE  /\ Puts(p) /\ Writes(p, work') /\ UNCHANGED <<now, setting, model, cutoff, todo, known, used>>
         /\ pick' = [pick EXCEPT ![p].cluster = Len(work.cluster) + 1]
         /\ Len(work.cluster) + 1 \in DOMAIN work'.cluster /\ Len(work.cluster) \in Nat
<1> DEFINE new == [member |-> {}, mean |-> NewMean(p), updated |-> Published[pick[p].article]]
<1>1. View(p) = work
  BY ViewIsWork DEF SeedCluster, Writes
<1>2. pick[p].article \in Article /\ pick[p].vector \in Vector
  BY DEF SeedCluster, IInv, Picked
<1>3. new \in Cluster /\ new.mean = NewMean(p)
  BY <1>2, NewMeanType DEF Cluster
<1>4. Writes(p, [work EXCEPT !.cluster = Append(work.cluster, new)])
  BY <1>1 DEF SeedCluster
<1> HIDE DEF new
<1>5. work' = [work EXCEPT !.cluster = Append(work.cluster, new)] /\ Writes(p, work')
  BY <1>4 DEF Writes
<1>6. Len(work.cluster) + 1 \in DOMAIN work'.cluster /\ Len(work.cluster) \in Nat
  BY <1>3, <1>5, AppendTables
<1> QED
  BY <1>1, <1>3, <1>5, <1>6 DEF SeedCluster, Puts, Written

\* A statement of a placement, after which its transaction is open.
LEMMA PutInv ==
  ASSUME IInv, NEW p \in Proc, Puts(p), Writes(p, work'), UNCHANGED <<now, setting, model, todo, known, used>>,
         at[p] \in Placing, NEW place \in Midway, at' = [at EXCEPT ![p] = place],
         NEW k \in Pick, pick' = [pick EXCEPT ![p] = k],
         place \in {"mean", "seeded"} =>
           k.article \in Article /\ k.vector \in Vector /\ k.cluster \in DOMAIN work'.cluster
  PROVE  IInv'
<1> DEFINE new == work'
<1>1. /\ new \in Tables /\ new.article = disk.article /\ new.simhash \subseteq new.article
      /\ DOMAIN disk.cluster \subseteq DOMAIN new.cluster
  BY PutTables DEF IInv
<1>2. Writes(p, new)
  OBVIOUS
<1>3. place \in Places \cap Writing
  BY DEF Places, Writing, Midway
<1>4. \A a \in DOMAIN todo[p] : todo[p][a] # NoVector
  BY DEF IInv
<1>5. place \in {"mean", "seeded"} =>
        k.article \in Article /\ k.vector \in Vector /\ k.cluster \in DOMAIN new.cluster
  OBVIOUS
<1> HIDE DEF new
<1> QED
  BY <1>1, <1>2, <1>3, <1>4, <1>5, SameTodo, WriteInv

LEMMA JoinMemberPuts ==
  ASSUME IInv, NEW p \in Proc, JoinMember(p)
  PROVE  /\ Puts(p) /\ Writes(p, work') /\ UNCHANGED <<now, setting, model, cutoff, todo, pick, known, used>>
         /\ pick[p].article \in Article /\ pick[p].vector \in Vector /\ pick[p].cluster \in DOMAIN work.cluster
<1>1. pick[p].article \in Article /\ pick[p].vector \in Vector /\ pick[p].cluster \in DOMAIN work.cluster
  BY DEF JoinMember, IInv, Picked
<1> QED
  BY <1>1, Entered DEF JoinMember

LEMMA SeedMemberPuts ==
  ASSUME IInv, NEW p \in Proc, SeedMember(p)
  PROVE  Puts(p) /\ Writes(p, work') /\ UNCHANGED <<now, setting, model, cutoff, todo, pick, known, used>>
<1>1. pick[p].article \in Article /\ pick[p].cluster \in DOMAIN work.cluster
  BY DEF SeedMember, IInv, Picked
<1> QED
  BY <1>1, Entered DEF SeedMember

LEMMA JoinMemberInv == ASSUME IInv, NEW p \in Proc, JoinMember(p) PROVE IInv'
<1>1. /\ Puts(p) /\ Writes(p, work') /\ UNCHANGED <<now, setting, model, todo, pick, known, used>>
      /\ pick[p].article \in Article /\ pick[p].vector \in Vector /\ pick[p].cluster \in DOMAIN work'.cluster
  BY JoinMemberPuts, PutTables
<1>2. at[p] \in Placing /\ "mean" \in Midway /\ at' = [at EXCEPT ![p] = "mean"]
  BY DEF JoinMember, Goes, Placing, Midway
<1> QED
  BY <1>1, <1>2, SamePick, PutInv

LEMMA JoinMeanInv == ASSUME IInv, NEW p \in Proc, JoinMean(p) PROVE IInv'
<1>1. at[p] \in Placing /\ "placed" \in Midway /\ at' = [at EXCEPT ![p] = "placed"]
  BY DEF JoinMean, Goes, Placing, Midway
<1>2. /\ Puts(p) /\ Writes(p, work') /\ UNCHANGED <<now, setting, model, todo, known, used>>
      /\ pick' = [pick EXCEPT ![p] = pick[p]] /\ pick[p] \in Pick
  BY MeanMade, SamePick
<1> QED
  BY <1>1, <1>2, PutInv

LEMMA SeedClusterInv == ASSUME IInv, NEW p \in Proc, SeedCluster(p) PROVE IInv'
<1> DEFINE k == [pick[p] EXCEPT !.cluster = Len(work.cluster) + 1]
<1>1. pick[p] \in Pick /\ pick[p].article \in Article /\ pick[p].vector \in Vector
  BY DEF SeedCluster, IInv, TypeOK, Picked
<1>2. /\ k \in Pick /\ k.article \in Article /\ k.vector \in Vector /\ k.cluster \in DOMAIN work'.cluster
      /\ pick' = [pick EXCEPT ![p] = k]
  <2>1. /\ Len(work.cluster) + 1 \in Nat /\ Len(work.cluster) + 1 \in DOMAIN work'.cluster
        /\ pick' = [pick EXCEPT ![p].cluster = Len(work.cluster) + 1]
    BY Seeded
  <2> QED
    BY <1>1, <2>1 DEF Pick
<1>3. at[p] \in Placing /\ "seeded" \in Midway /\ at' = [at EXCEPT ![p] = "seeded"]
  BY DEF SeedCluster, Goes, Placing, Midway
<1> HIDE DEF k
<1> QED
  BY <1>2, <1>3, Seeded, PutInv

LEMMA SeedMemberInv == ASSUME IInv, NEW p \in Proc, SeedMember(p) PROVE IInv'
<1>1. at[p] \in Placing /\ "placed" \in Midway /\ at' = [at EXCEPT ![p] = "placed"]
  BY DEF SeedMember, Goes, Placing, Midway
<1>2. /\ Puts(p) /\ Writes(p, work') /\ UNCHANGED <<now, setting, model, todo, known, used>>
      /\ pick' = [pick EXCEPT ![p] = pick[p]] /\ pick[p] \in Pick
  BY SeedMemberPuts, SamePick
<1> QED
  BY <1>1, <1>2, PutInv

LEMMA NoPickIn == NoPick \in Pick
  BY DEF NoPick, Pick, Mean

LEMMA PlacedOneInv == ASSUME IInv, NEW p \in Proc, PlacedOne(p) PROVE IInv'
  BY CommitInv, NoPickIn DEF PlacedOne, Goes, Placing, Midway

LEMMA PlacedInv == ASSUME IInv, NEW p \in Proc, Placed(p) PROVE IInv'
<1>1. /\ "idle" \in Places \ Midway /\ "idle" \notin Placing \cup {"join", "seed"} /\ writer # p
      /\ at' = [at EXCEPT ![p] = "idle"] /\ model' \in [Proc -> Model]
  BY DEF Placed, Goes, Places, IInv, TypeOK, Writing, Placing, Midway
<1>2. /\ todo' = [todo EXCEPT ![p] = todo[p]] /\ todo[p] \in Rows /\ DOMAIN todo[p] \subseteq disk.article
      /\ pick' = [pick EXCEPT ![p] = pick[p]] /\ pick[p] \in Pick
      /\ known' = [known EXCEPT ![p] = known[p]] /\ known[p] \in SUBSET disk.article
  BY SameTodo, SamePick, SameKnown DEF Placed
<1> QED
  BY <1>1, <1>2, SilentInv DEF Placed

LEMMA SpentIsCounted ==
  ASSUME IInv, NEW what \in {"changes", "faults"}, NEW bound, Spend(what, bound)
  PROVE  /\ used' \in [changes : Nat, faults : Nat]
         /\ what = "faults" => used'.changes = used.changes
         /\ what = "changes" => used'.changes # 0
  BY DEF Spend, IInv

\* The end of a process: what its transaction wrote is kept or lost.
LEMMA EndInv ==
  ASSUME IInv, NEW p \in Proc, Ends(p), disk' \in {disk, work}, work' = work \/ work' = disk,
         IF writer = p THEN writer' = NoOne /\ work' = disk' ELSE writer' = writer /\ UNCHANGED <<disk, work>>
  PROVE  IInv'
<1>1. /\ UNCHANGED <<now, setting, model>> /\ at' = [at EXCEPT ![p] = "idle"]
      /\ todo' = [todo EXCEPT ![p] = NoRows] /\ known' = [known EXCEPT ![p] = {}]
      /\ pick' = [pick EXCEPT ![p] = NoPick] /\ used' \in [changes : Nat, faults : Nat]
  BY SpentIsCounted DEF Ends, Goes
<1>2. /\ disk' \in Tables /\ work' \in Tables /\ disk'.article = disk.article /\ work'.article = disk.article
      /\ DOMAIN disk.cluster \subseteq DOMAIN disk'.cluster /\ DOMAIN disk'.cluster \subseteq DOMAIN work'.cluster
      /\ TablesOK(disk') /\ TablesOK(work')
  BY DEF IInv, TypeOK, TablesOK
<1>3. NoRows \in Rows /\ DOMAIN NoRows = {}
  BY NoRowsIn
<1>4. /\ todo' \in [Proc -> Rows] /\ \A q \in Proc : DOMAIN todo'[q] \cup known'[q] \subseteq disk'.article
      /\ known' \in [Proc -> SUBSET Article] /\ pick' \in [Proc -> Pick]
  BY <1>1, <1>2, <1>3, NoPickIn DEF IInv, TypeOK
<1>5. TypeOK'
  BY <1>1, <1>2, <1>4 DEF IInv, TypeOK
<1>6. at'[p] = "idle" /\ \A q \in Proc \ {p} : at'[q] = at[q] /\ todo'[q] = todo[q]
  BY <1>1 DEF IInv, TypeOK
<1>7. \A q \in Proc : (writer' = q => at'[q] \in Writing) /\ (at'[q] \in Midway => writer' = q)
  BY <1>6, EnrichProcAssumption DEF IInv, Midway
<1>8. \A q \in Proc : at'[q] \in Placing => \A b \in DOMAIN todo'[q] : todo'[q][b] # NoVector
  BY <1>6 DEF IInv, Placing, Midway
<1>9. Picked(p)'
  BY <1>6 DEF Picked
<1>10. \A q \in Proc \ {p} : Picked(q)'
  BY <1>1, <1>2, OthersPicked DEF IInv
<1> QED
  BY <1>1, <1>2, <1>4, <1>5, <1>7, <1>8, <1>9, <1>10 DEF IInv

LEMMA KillInv == ASSUME IInv, NEW p \in Proc, Kill(p) PROVE IInv'
  BY EndInv DEF Kill

LEMMA RaiseInv == ASSUME IInv, NEW p \in Proc, Raise(p) PROVE IInv'
  BY EndInv DEF Raise

LEMMA ArriveInv == ASSUME IInv, NEW a \in Article, Arrive(a) PROVE IInv'
<1>1. /\ disk' = [disk EXCEPT !.article = disk.article \cup {a}] /\ work' = disk' /\ work = disk
      /\ UNCHANGED <<now, setting, writer, at, model, todo, pick, known, used>>
  BY DEF Arrive, local, IInv, TypeOK
<1>2. /\ disk' \in Tables /\ disk'.article = disk.article \cup {a} /\ disk'.simhash = disk.simhash
      /\ disk'.cluster = disk.cluster /\ work'.cluster = work.cluster
  BY <1>1 DEF IInv, Tables
<1>3. TablesOK(disk') /\ TablesOK(work')
  BY <1>1, <1>2 DEF IInv, TypeOK, TablesOK, Tables
<1>4. TypeOK'
  BY <1>1, <1>2, <1>3 DEF IInv, TypeOK
<1>5. \A q \in Proc : Picked(q)'
  BY <1>1, <1>2 DEF Picked, IInv
<1> QED
  BY <1>1, <1>2, <1>4, <1>5 DEF IInv

LEMMA TickInv == IInv /\ Tick => IInv'
<1> SUFFICES ASSUME IInv, Tick PROVE IInv'
  OBVIOUS
<1>1. now' \in 0 .. MaxTime
  BY EnrichBoundAssumption DEF Tick, IInv, TypeOK
<1> QED
  BY <1>1 DEF Tick, local, IInv, TypeOK, TablesOK, Picked

LEMMA ChangeModelInv == IInv /\ ChangeModel => IInv'
<1> SUFFICES ASSUME IInv, ChangeModel PROVE IInv'
  OBVIOUS
<1>1. used' \in [changes : Nat, faults : Nat] /\ setting' \in Model
  BY SpentIsCounted DEF ChangeModel
<1> QED
  BY <1>1 DEF ChangeModel, local, IInv, TypeOK, TablesOK, Picked

LEMMA StutterInv == IInv /\ UNCHANGED vars => IInv'
  BY DEF vars, local, IInv, TypeOK, TablesOK, Picked

LEMMA NextInv == IInv /\ [Next]_vars => IInv'
  BY BeginInv, ReadUnhashedInv, HashInv, HashedInv, ReadCandidatesInv, BypassInv, BypassedInv,
     ReadPendingInv, EncodeInv, StoreInv, StoredInv, EmbeddedInv, ReadUnclusteredInv, ChooseInv,
     JoinMemberInv, JoinMeanInv, SeedClusterInv, SeedMemberInv, PlacedOneInv, PlacedInv, KillInv, RaiseInv, ArriveInv, TickInv, ChangeModelInv, StutterInv DEF Next, Step

LEMMA Invariance == Spec => []IInv
  BY InitInv, NextInv, PTL DEF Spec

\* The tables, the processes' lists and the open transaction keep their
\* types, for any processes, articles and models.
THEOREM TypeCorrect == Spec => []TypeOK
  BY Invariance, PTL DEF IInv

-----------------------------------------------------------------------------
(* What a run knows when it starts clustering.                             *)

\* No other process embeds, or none with another model.
Steady == (\A p, q \in Proc : p = q) \/ (\A m, n \in Model : m = n)

\* An open transaction takes no vector away.
Rises == \A a \in Article : work.embedding[a] \in Vector \cup {disk.embedding[a]}

\* What the embedding stage saw is embedded or on its list.
Covered(p) ==
  /\ at[p] \in {"encode", "store"} =>
       \A a \in known[p] : a \in DOMAIN todo[p] \/ View(p).embedding[a].model = model[p]
  /\ at[p] = "cluster" => \A a \in known[p] : View(p).embedding[a].model = model[p]

\* What a step of q does to the tables.
Moves(q) ==
  \/ UNCHANGED <<disk, work, writer>>
  \/ /\ writer \in {NoOne, q} /\ disk' = disk /\ writer' = q
     /\ \A a \in Article : work'.embedding[a] \in Vector \cup {work.embedding[a]}
  \/ writer = q /\ writer' = NoOne /\ work' = disk' /\ disk' \in {disk, work}

Act(q) == Step(q) \/ Kill(q) \/ Raise(q)

LEMMA HashNew ==
  ASSUME IInv, NEW p \in Proc, Hash(p)
  PROVE  Writes(p, work') /\ work'.embedding = work.embedding /\ work'.cluster = work.cluster /\ at' = at
<1>1. PICK a \in DOMAIN todo[p] : Writes(p, [View(p) EXCEPT !.simhash = @ \cup {a}])
  BY DEF Hash
<1>2. View(p) = work /\ work \in Tables
  BY <1>1, ViewIsWork DEF Writes, IInv
<1> QED
  BY <1>1, <1>2 DEF Writes, Tables, Hash

\* A vector of p's model is put into a row, and nothing else.
Fills(p, a) ==
  \E v \in Vector : /\ v.model = model[p] /\ work'.cluster = work.cluster
                   /\ work'.embedding = [work.embedding EXCEPT ![a] = v]

LEMMA BypassNew ==
  ASSUME IInv, NEW p \in Proc, Bypass(p)
  PROVE  /\ at[p] = "bypassing" /\ at' = at
         /\ \E a \in DOMAIN todo[p] :
              /\ todo' = [todo EXCEPT ![p] = Without(todo[p], a)]
              /\ \/ UNCHANGED <<disk, work, writer>>
                 \/ /\ Writes(p, work')
                    /\ Fills(p, a)
<1>1. PICK a \in DOMAIN todo[p] :
        /\ \/ UNCHANGED <<disk, work, writer>>
           \/ \E m \in Matches(p, a) :
                Writes(p, [View(p) EXCEPT !.embedding[a] = View(p).embedding[m]])
        /\ Drops(p, a)
  BY DEF Bypass
<1>2. ASSUME NEW m \in Matches(p, a), Writes(p, [View(p) EXCEPT !.embedding[a] = View(p).embedding[m]])
      PROVE  Writes(p, work') /\ Fills(p, a)
  <2> DEFINE v == View(p).embedding[m]
  <2>1. View(p) = work /\ work \in Tables
    BY <1>2, ViewIsWork DEF Writes, IInv
  <2>2. v \in Vector /\ v.model = model[p]
    BY MatchVector
  <2>3. Writes(p, work') /\ work' = [work EXCEPT !.embedding[a] = v]
    BY <1>2, <2>1 DEF Writes
  <2> HIDE DEF v
  <2>4. work'.embedding = [work.embedding EXCEPT ![a] = v] /\ work'.cluster = work.cluster
    BY <2>1, <2>3 DEF Tables
  <2> QED
    BY <2>2, <2>3, <2>4 DEF Fills
<1> QED
  BY <1>1, <1>2 DEF Bypass, Drops

LEMMA StoreNew ==
  ASSUME IInv, NEW p \in Proc, Store(p)
  PROVE  /\ at[p] = "store" /\ at' = at
         /\ \E a \in DOMAIN todo[p] :
              /\ todo' = [todo EXCEPT ![p] = Without(todo[p], a)]
              /\ Writes(p, work')
              /\ Fills(p, a)
<1>1. PICK a \in Encoded(p) : Writes(p, [View(p) EXCEPT !.embedding[a] = Own(p, a)]) /\ Drops(p, a)
  BY DEF Store
<1> DEFINE v == Own(p, a)
<1>2. a \in DOMAIN todo[p] /\ a \in Article
  BY <1>1 DEF Encoded, IInv, TypeOK, TablesOK
<1>3. View(p) = work /\ work \in Tables /\ v \in Vector /\ v.model = model[p]
  BY <1>1, <1>2, ViewIsWork DEF Writes, Own, Vector, IInv, TypeOK
<1>4. Writes(p, work') /\ work' = [work EXCEPT !.embedding[a] = v]
  BY <1>1, <1>3 DEF Writes
<1> HIDE DEF v
<1>5. work'.embedding = [work.embedding EXCEPT ![a] = v] /\ work'.cluster = work.cluster
  BY <1>3, <1>4 DEF Tables
<1>6. Fills(p, a)
  BY <1>3, <1>5 DEF Fills
<1> QED
  BY <1>1, <1>2, <1>4, <1>6 DEF Store, Drops

\* The statements of a placement.
Placement(p) == JoinMember(p) \/ JoinMean(p) \/ SeedCluster(p) \/ SeedMember(p)

LEMMA PlacementPuts ==
  ASSUME IInv, NEW p \in Proc, Placement(p)
  PROVE  /\ Puts(p) /\ Writes(p, work') /\ UNCHANGED <<now, setting, model, todo, known, used>>
         /\ work'.embedding = work.embedding
         /\ at[p] \in {"join", "mean", "seed", "seeded"} /\ at'[p] \in Midway
         /\ at'[p] # "placed" => NewMean(p)' = NewMean(p)
<1>1. Puts(p) /\ Writes(p, work') /\ UNCHANGED <<now, setting, model, todo, known, used>>
  BY JoinMemberPuts, MeanMade, Seeded, SeedMemberPuts DEF Placement
<1>2. work'.embedding = work.embedding
  BY <1>1, PutTables
<1>3. at[p] \in {"join", "mean", "seed", "seeded"} /\ at'[p] \in Midway
  BY DEF Placement, JoinMember, JoinMean, SeedCluster, SeedMember, Goes, Midway, IInv, TypeOK
<1>4. ASSUME at'[p] # "placed" PROVE pick'[p].article = pick[p].article /\ pick'[p].vector = pick[p].vector
                                    /\ pick'[p].mean = pick[p].mean
  <2>1. pick[p] \in Pick /\ pick \in [Proc -> Pick]
    BY DEF IInv, TypeOK
  <2>2. CASE JoinMember(p)
    BY <2>2, JoinMemberPuts
  <2>3. CASE SeedCluster(p)
    <3>1. pick' = [pick EXCEPT ![p].cluster = Len(work.cluster) + 1]
      BY <2>3, Seeded
    <3> QED
      BY <2>1, <3>1 DEF Pick
  <2>4. CASE JoinMean(p) \/ SeedMember(p)
    BY <1>4, <2>4 DEF JoinMean, SeedMember, Goes, IInv, TypeOK
  <2> QED
    BY <2>2, <2>3, <2>4 DEF Placement
<1> QED
  BY <1>1, <1>2, <1>3, <1>4 DEF NewMean

LEMMA ActMoves ==
  ASSUME IInv, NEW q \in Proc, Act(q)
  PROVE  /\ Moves(q)
         /\ \A p \in Proc \ {q} : at'[p] = at[p] /\ todo'[p] = todo[p] /\ known'[p] = known[p] /\ model'[p] = model[p]
<1> DEFINE Others == \A p \in Proc \ {q} : at'[p] = at[p] /\ todo'[p] = todo[p] /\ known'[p] = known[p] /\ model'[p] = model[p]
<1>1. CASE Begin(q) \/ ReadUnhashed(q) \/ ReadCandidates(q) \/ ReadPending(q) \/ Encode(q) \/ Embedded(q)
           \/ ReadUnclustered(q) \/ Choose(q) \/ Placed(q)
  BY <1>1 DEF Begin, ReadUnhashed, ReadCandidates, ReadPending, Encode, Embedded, ReadUnclustered, Choose, Placed, Drops,
              Goes, Fetches, Moves, IInv, TypeOK
<1>2. CASE Hash(q)
  <2>1. Moves(q)
    BY <1>2, HashNew DEF Moves, Writes
  <2> QED
    BY <1>2, <2>1 DEF Hash, Drops, IInv
<1>3. CASE Bypass(q)
  <2>1. PICK a \in DOMAIN todo[q] :
          /\ todo' = [todo EXCEPT ![q] = Without(todo[q], a)]
          /\ \/ UNCHANGED <<disk, work, writer>>
             \/ /\ Writes(q, work')
                /\ Fills(q, a)
    BY <1>3, BypassNew
  <2>2. work.embedding \in [Article -> Vector \cup {NoVector}]
    BY DEF IInv, Tables
  <2>3. Moves(q)
    BY <2>1, <2>2 DEF Moves, Writes, Fills
  <2> QED
    BY <1>3, <2>1, <2>3 DEF Bypass
<1>4. CASE Store(q)
  <2>1. PICK a \in DOMAIN todo[q] :
          /\ todo' = [todo EXCEPT ![q] = Without(todo[q], a)]
          /\ Writes(q, work')
          /\ Fills(q, a)
    BY <1>4, StoreNew
  <2>2. work.embedding \in [Article -> Vector \cup {NoVector}]
    BY DEF IInv, Tables
  <2>3. Moves(q)
    BY <2>1, <2>2 DEF Moves, Writes, Fills
  <2> QED
    BY <1>4, <2>1, <2>3 DEF Store
<1>5. CASE Hashed(q) \/ Bypassed(q) \/ Stored(q) \/ PlacedOne(q)
  BY <1>5 DEF Hashed, Bypassed, Stored, PlacedOne, Commits, Goes, Moves, IInv, TypeOK
<1>6. CASE Placement(q)
  <2>1. Moves(q)
    BY <1>6, PlacementPuts DEF Moves, Writes
  <2>2. UNCHANGED <<model, todo, known>>
    BY <1>6, PlacementPuts
  <2>3. \A p \in Proc \ {q} : at'[p] = at[p]
    BY <1>6 DEF Placement, JoinMember, JoinMean, SeedCluster, SeedMember, Goes, IInv, TypeOK
  <2> QED
    BY <2>1, <2>2, <2>3
<1>7. CASE Kill(q) \/ Raise(q)
  BY <1>7 DEF Kill, Raise, Ends, Goes, Moves, IInv, TypeOK
<1> QED
  BY <1>1, <1>2, <1>3, <1>4, <1>5, <1>6, <1>7 DEF Act, Step, Placement

LEMMA MovesRise ==
  ASSUME IInv, IInv', Rises, NEW q \in Proc, Moves(q)
  PROVE  Rises' /\ \A p \in Proc \ {q} : \A a \in Article :
                      View(p)'.embedding[a] \in Vector \cup {View(p).embedding[a]}
  BY EnrichProcAssumption DEF Moves, Rises, View, IInv, TypeOK

\* A step of another process.
LEMMA OtherCovered ==
  ASSUME Steady, IInv, IInv', Rises, NEW q \in Proc, Act(q), NEW p \in Proc \ {q}, Covered(p)
  PROVE  Covered(p)'
<1>1. \A m, n \in Model : m = n
  BY DEF Steady
<1>2. /\ at'[p] = at[p] /\ todo'[p] = todo[p] /\ known'[p] = known[p] /\ model'[p] = model[p]
      /\ \A a \in Article : View(p)'.embedding[a] \in Vector \cup {View(p).embedding[a]}
  BY ActMoves, MovesRise
<1>3. known[p] \in SUBSET Article /\ model[p] \in Model
  BY DEF IInv, TypeOK
<1>4. \A a \in known[p] : View(p).embedding[a].model = model[p] => View(p)'.embedding[a].model = model[p]
  BY <1>1, <1>2, <1>3 DEF Vector
<1> QED
  BY <1>2, <1>4 DEF Covered

\* A step of the process itself.
LEMMA OwnCovered ==
  ASSUME IInv, NEW p \in Proc, Act(p), Covered(p)
  PROVE  Covered(p)'
<1>1. CASE Begin(p) \/ ReadUnhashed(p) \/ Hash(p) \/ Hashed(p) \/ ReadCandidates(p) \/ Bypass(p) \/ Bypassed(p)
           \/ ReadUnclustered(p) \/ Choose(p) \/ Placement(p) \/ PlacedOne(p) \/ Placed(p) \/ Kill(p) \/ Raise(p)
  <2>1. at'[p] \notin {"encode", "store", "cluster"}
    BY <1>1 DEF Begin, ReadUnhashed, Hash, Hashed, ReadCandidates, Bypass, Bypassed, ReadUnclustered, Choose,
                Placement, JoinMember, JoinMean, SeedCluster, SeedMember, PlacedOne, Placed,
                Kill, Raise, Ends, Goes, IInv, TypeOK
  <2> QED
    BY <2>1 DEF Covered
<1>2. CASE ReadPending(p)
  <2>1. writer # p /\ View(p) = disk /\ View(p)' = disk
    BY <1>2 DEF ReadPending, IInv, Writing, Midway, View
  <2>2. /\ at'[p] = "encode" /\ known'[p] = disk.article /\ model' = model
        /\ DOMAIN todo'[p] = Pending(p)
    BY <1>2 DEF ReadPending, Goes, Fetches, IInv, TypeOK
  <2> QED
    BY <2>1, <2>2 DEF Pending, Covered
<1>3. CASE Encode(p)
  <2>1. at[p] = "encode" /\ at'[p] = "store" /\ DOMAIN todo'[p] = DOMAIN todo[p] /\ View(p)' = View(p)
        /\ UNCHANGED <<known, model>>
    BY <1>3 DEF Encode, Goes, View, IInv, TypeOK
  <2> QED
    BY <2>1 DEF Covered
<1>4. CASE Store(p)
  <2>1. at[p] = "store" /\ at' = at /\ UNCHANGED <<known, model>>
    BY <1>4, StoreNew DEF Store
  <2>2. PICK a \in DOMAIN todo[p] :
          /\ todo' = [todo EXCEPT ![p] = Without(todo[p], a)]
          /\ Writes(p, work')
          /\ Fills(p, a)
    BY <1>4, StoreNew
  <2>3. View(p) = work /\ View(p)' = work'
    BY <2>2, ViewIsWork DEF Writes, View
  <2>4. todo[p] \in Rows /\ known[p] \in SUBSET Article /\ work.embedding \in [Article -> Vector \cup {NoVector}]
    BY DEF IInv, Tables
  <2>5. DOMAIN todo'[p] = DOMAIN todo[p] \ {a}
    BY <2>2, <2>4, WithoutRow DEF IInv
  <2> QED
    BY <2>1, <2>2, <2>3, <2>4, <2>5 DEF Covered, Fills
<1>5. CASE Stored(p)
  <2>1. at[p] = "store" /\ at'[p] = "encode" /\ UNCHANGED <<todo, known, model>>
    BY <1>5 DEF Stored, Goes, IInv, TypeOK
  <2>2. View(p)' = View(p)
    BY <1>5, EnrichProcAssumption DEF Stored, Commits, View
  <2> QED
    BY <2>1, <2>2 DEF Covered
<1>6. CASE Embedded(p)
  <2>1. at[p] = "encode" /\ at'[p] \in {"cluster", "idle"} /\ DOMAIN todo[p] = {} /\ View(p)' = View(p)
        /\ UNCHANGED <<known, model>>
    BY <1>6 DEF Embedded, Goes, View, IInv, TypeOK
  <2> QED
    BY <2>1 DEF Covered
<1> QED
  BY <1>1, <1>2, <1>3, <1>4, <1>5, <1>6 DEF Act, Step, Placement

LEMMA OutsideCovered ==
  ASSUME IInv, Rises, \A p \in Proc : Covered(p), UNCHANGED <<writer, local>>,
         \/ UNCHANGED <<disk, work>>
         \/ disk'.embedding = disk.embedding /\ work'.embedding = work.embedding
  PROVE  Rises' /\ \A p \in Proc : Covered(p)'
<1>1. \A p \in Proc : View(p)'.embedding = View(p).embedding
  BY DEF View
<1>2. Rises'
  BY DEF Rises
<1> QED
  BY <1>1, <1>2 DEF Covered, local

LEMMA ArriveLeaves ==
  ASSUME IInv, NEW a \in Article, Arrive(a)
  PROVE  /\ disk'.embedding = disk.embedding /\ work'.embedding = work.embedding
         /\ disk'.cluster = disk.cluster /\ work'.cluster = work.cluster
  BY DEF Arrive, IInv, TypeOK, Tables

LEMMA NextCovered ==
  ASSUME Steady, IInv, IInv', Rises, \A p \in Proc : Covered(p), [Next]_vars
  PROVE  Rises' /\ \A p \in Proc : Covered(p)'
<1>1. ASSUME NEW q \in Proc, Act(q) PROVE Rises' /\ \A p \in Proc : Covered(p)'
  <2>1. Rises'
    BY <1>1, ActMoves, MovesRise
  <2>2. \A p \in Proc \ {q} : Covered(p)'
    BY <1>1, OtherCovered
  <2>3. Covered(q)'
    BY <1>1, OwnCovered
  <2> QED
    BY <2>1, <2>2, <2>3
<1>2. ASSUME NEW a \in Article, Arrive(a) PROVE Rises' /\ \A p \in Proc : Covered(p)'
  BY <1>2, ArriveLeaves, OutsideCovered DEF Arrive
<1>3. CASE Tick \/ ChangeModel
  BY <1>3, OutsideCovered DEF Tick, ChangeModel
<1>4. CASE UNCHANGED vars
  BY <1>4, OutsideCovered DEF vars
<1> QED
  BY <1>1, <1>2, <1>3, <1>4 DEF Next, Act

\* A run starts clustering with every article its embedding stage saw
\* embedded by its model (FR-401), however many processes run with one model
\* and whatever changes of the model a lone one lives through.
THEOREM ClustersTheEmbedded ==
  ASSUME Steady
  PROVE  Spec => []EmbeddedBeforeClustering
<1> DEFINE Inv == Rises /\ \A p \in Proc : Covered(p)
<1>1. Init => Inv
  BY DEF Init, Rises, Covered
<1>2. IInv /\ IInv' /\ Inv /\ [Next]_vars => Inv'
  BY NextCovered
<1>3. IInv /\ Inv => EmbeddedBeforeClustering
  BY DEF IInv, Writing, Midway, View, Covered, EmbeddedBeforeClustering
<1> QED
  BY <1>1, <1>2, <1>3, Invariance, PTL DEF Spec
-----------------------------------------------------------------------------
(* What the centroids are made of, with one process and no other model.    *)

Solo == \A p, q \in Proc : p = q

OfSetting(db) == \A a \in Article : db.embedding[a] \in Vector => db.embedding[a].model = setting

\* The vectors that went into a centroid are those the articles have.
Made(db) ==
  \A c \in DOMAIN db.cluster : \A entry \in db.cluster[c].mean : db.embedding[entry[1]] = entry[2]

Embedding == {"bypassing", "encode", "store"}

\* Every vector is the setting's, the articles on the lists to be embedded
\* have none, and what is about to enter a centroid is what the articles have.
Settled ==
  /\ \A p \in Proc : model[p] = setting
  /\ OfSetting(disk) /\ OfSetting(work)
  /\ Made(disk) /\ Made(work)
  /\ \A p \in Proc :
       /\ at[p] \in Embedding => \A a \in DOMAIN todo[p] : work.embedding[a] = NoVector
       /\ at[p] \in Placing => \A a \in DOMAIN todo[p] : todo[p][a] = work.embedding[a]
       /\ at[p] \in {"join", "mean", "seed", "seeded"} =>
            \A entry \in NewMean(p) : work.embedding[entry[1]] = entry[2]

StillSettled == used.changes = 0 => Settled

LEMMA Alone ==
  ASSUME Solo, IInv, NEW p \in Proc
  PROVE  /\ (writer = NoOne \/ writer = p) /\ View(p) = work /\ \A q \in Proc : q = p
         /\ writer # p => work = disk
  BY ViewIsWork DEF Solo, IInv, TypeOK

LEMMA MeanEntries ==
  ASSUME NEW db \in Tables, NEW c \in DOMAIN db.cluster, NEW entry \in db.cluster[c].mean
  PROVE  entry \in Article \X Vector
<1>1. db.cluster[c] \in Cluster
  BY DEF Tables
<1> QED
  BY <1>1 DEF Cluster, Mean

\* Only the process that moves has to be looked at.
LEMMA SettledBy ==
  ASSUME Solo, IInv, NEW p \in Proc, setting' = setting, model'[p] = setting,
         OfSetting(disk)', OfSetting(work)', Made(disk)', Made(work)',
         at'[p] \in Embedding => \A a \in DOMAIN todo'[p] : work'.embedding[a] = NoVector,
         at'[p] \in Placing => \A a \in DOMAIN todo'[p] : todo'[p][a] = work'.embedding[a],
         at'[p] \in {"join", "mean", "seed", "seeded"} =>
           \A entry \in NewMean(p)' : work'.embedding[entry[1]] = entry[2]
  PROVE  Settled'
<1>1. \A q \in Proc : q = p
  BY Alone
<1> QED
  BY <1>1 DEF Settled

\* A vector is put where there was none.
LEMMA FillSettled ==
  ASSUME Solo, IInv, Settled, NEW p \in Proc, at[p] \in {"bypassing", "store"}, at' = at,
         NEW a \in DOMAIN todo[p], todo' = [todo EXCEPT ![p] = Without(todo[p], a)],
         NEW v \in Vector, v.model = model[p], work'.embedding = [work.embedding EXCEPT ![a] = v],
         work'.cluster = work.cluster, Writes(p, work'), UNCHANGED <<setting, model>>
  PROVE  Settled'
<1>1. /\ disk' = disk /\ todo[p] \in Rows /\ a \in Article /\ work \in Tables
      /\ work.embedding \in [Article -> Vector \cup {NoVector}]
  BY DEF Writes, IInv, TypeOK, TablesOK, Tables
<1>2. DOMAIN todo'[p] = DOMAIN todo[p] \ {a} /\ DOMAIN todo[p] \subseteq Article
  BY <1>1, WithoutRow, RowsType DEF IInv
<1>3. work.embedding[a] = NoVector /\ \A b \in DOMAIN todo[p] : work.embedding[b] = NoVector
  BY DEF Settled, Embedding
<1>4. OfSetting(work)' /\ OfSetting(disk)'
  BY <1>1 DEF Settled, OfSetting
<1>5. Made(disk)'
  BY <1>1 DEF Settled, Made
<1>6. Made(work)'
  <2> SUFFICES ASSUME NEW c \in DOMAIN work.cluster, NEW entry \in work.cluster[c].mean
               PROVE  work'.embedding[entry[1]] = entry[2]
    BY DEF Made
  <2>1. work.embedding[entry[1]] = entry[2] /\ entry[1] \in Article /\ entry[2] \in Vector
    BY <1>1, MeanEntries DEF Settled, Made
  <2>2. entry[1] # a
    BY <1>3, <2>1, NoVectorIsNone
  <2> QED
    BY <1>1, <2>1, <2>2
<1>7. \A b \in DOMAIN todo'[p] : work'.embedding[b] = NoVector
  BY <1>1, <1>2, <1>3
<1>8. at'[p] \notin Placing /\ at'[p] \notin {"join", "mean", "seed", "seeded"} /\ model'[p] = setting
  BY DEF Placing, Midway, Settled
<1> QED
  BY <1>4, <1>5, <1>6, <1>7, <1>8, SettledBy

\* The tables stay, and a list is new only if the step makes it.
LEMMA ListSettled ==
  ASSUME Solo, IInv, Settled, NEW p \in Proc, UNCHANGED <<setting, disk, work>>, model'[p] = setting,
         \/ DOMAIN todo'[p] \subseteq DOMAIN todo[p] /\ at[p] \in Embedding /\ at'[p] \in Embedding
         \/ at'[p] \notin Embedding \cup Placing
         \/ at'[p] \in Embedding /\ \A a \in DOMAIN todo'[p] : work.embedding[a] = NoVector
         \/ at'[p] = "placing" /\ \A a \in DOMAIN todo'[p] : todo'[p][a] = work.embedding[a]
  PROVE  Settled'
<1>1. at'[p] \in Embedding => \A a \in DOMAIN todo'[p] : work'.embedding[a] = NoVector
  BY DEF Settled, Embedding
<1>2. /\ at'[p] \in Placing => \A a \in DOMAIN todo'[p] : todo'[p][a] = work'.embedding[a]
      /\ at'[p] \notin {"join", "mean", "seed", "seeded"}
  BY DEF Embedding, Placing, Midway
<1>3. OfSetting(disk)' /\ OfSetting(work)' /\ Made(disk)' /\ Made(work)'
  BY DEF Settled, OfSetting, Made
<1> QED
  BY <1>1, <1>2, <1>3, SettledBy

\* A commit.
LEMMA CommitSettled ==
  ASSUME Solo, IInv, Settled, NEW p \in Proc, UNCHANGED <<setting, model, todo>>, Commits(p),
         \/ at'[p] \notin Embedding \cup Placing
         \/ at[p] = "store" /\ at'[p] = "encode"
         \/ at[p] = "placed" /\ at'[p] = "placing"
  PROVE  Settled'
<1>1. work' = work /\ (disk' = work \/ disk' = disk)
  BY DEF Commits
<1>2. OfSetting(disk)' /\ OfSetting(work)' /\ Made(disk)' /\ Made(work)' /\ model'[p] = setting
  BY <1>1 DEF Settled, OfSetting, Made
<1>3. /\ at'[p] \in Embedding => \A a \in DOMAIN todo'[p] : work'.embedding[a] = NoVector
      /\ at'[p] \in Placing => \A a \in DOMAIN todo'[p] : todo'[p][a] = work'.embedding[a]
      /\ at'[p] \notin {"join", "mean", "seed", "seeded"}
  BY <1>1 DEF Settled, Embedding, Placing, Midway
<1> QED
  BY <1>2, <1>3, SettledBy

LEMMA EndSettled ==
  ASSUME Solo, IInv, Settled, NEW p \in Proc, Ends(p), disk' \in {disk, work}, work' \in {disk, work}
  PROVE  Settled'
<1>1. setting' = setting /\ model'[p] = setting /\ at'[p] = "idle"
  BY DEF Ends, Goes, IInv, TypeOK, Settled
<1>2. OfSetting(disk)' /\ OfSetting(work)' /\ Made(disk)' /\ Made(work)'
  BY <1>1 DEF Settled, OfSetting, Made
<1>3. at'[p] \notin Embedding \cup Placing /\ at'[p] \notin {"join", "mean", "seed", "seeded"}
  BY <1>1 DEF Embedding, Placing, Midway
<1> QED
  BY <1>1, <1>2, <1>3, SettledBy

LEMMA ChooseSettled ==
  ASSUME Solo, IInv, Settled, NEW p \in Proc, Choose(p)
  PROVE  Settled'
<1>1. PICK a \in DOMAIN todo[p], k \in Pick :
        /\ todo' = [todo EXCEPT ![p] = Without(todo[p], a)]
        /\ pick' = [pick EXCEPT ![p] = k] /\ k.article = a /\ k.vector = todo[p][a]
        /\ \/ at' = [at EXCEPT ![p] = "seed"] /\ k.mean = {}
           \/ /\ at' = [at EXCEPT ![p] = "join"]
              /\ k.cluster \in DOMAIN disk.cluster /\ k.mean = disk.cluster[k.cluster].mean
  BY Chosen
<1>2. UNCHANGED <<setting, disk, work, model>> /\ at[p] = "placing" /\ at[p] \in Placing
  BY DEF Choose, Placing
<1>3. work = disk
  <2>1. writer # p
    BY <1>2 DEF IInv, Writing, Midway
  <2> QED
    BY <2>1, Alone
<1>4. todo[p] \in Rows /\ \A b \in DOMAIN todo[p] : todo[p][b] = work.embedding[b]
  BY <1>2 DEF IInv, Settled
<1>5. \A b \in DOMAIN todo'[p] : todo'[p][b] = work'.embedding[b]
  <2>1. /\ DOMAIN Without(todo[p], a) \subseteq DOMAIN todo[p]
        /\ \A b \in DOMAIN Without(todo[p], a) : Without(todo[p], a)[b] = todo[p][b]
    BY <1>4, WithoutRow
  <2>2. todo'[p] = Without(todo[p], a)
    BY <1>1 DEF IInv
  <2> QED
    BY <1>2, <1>4, <2>1, <2>2
<1>6. \A entry \in NewMean(p)' : work'.embedding[entry[1]] = entry[2]
  <2>1. NewMean(p)' = k.mean \cup {<<a, todo[p][a]>>}
    BY <1>1 DEF NewMean, IInv, TypeOK
  <2>2. \A entry \in k.mean : work.embedding[entry[1]] = entry[2]
    BY <1>1, <1>3 DEF Settled, Made
  <2> QED
    BY <1>2, <1>4, <2>1, <2>2
<1>7. at'[p] \notin Embedding /\ model'[p] = setting
  BY <1>1, <1>2 DEF Embedding, IInv, TypeOK, Settled
<1>8. OfSetting(disk)' /\ OfSetting(work)' /\ Made(disk)' /\ Made(work)' /\ setting' = setting
  BY <1>2 DEF Settled, OfSetting, Made
<1> QED
  BY <1>5, <1>6, <1>7, <1>8, SettledBy

LEMMA PutSettled ==
  ASSUME Solo, IInv, Settled, NEW p \in Proc, Placement(p)
  PROVE  Settled'
<1>1. /\ Puts(p) /\ Writes(p, work') /\ UNCHANGED <<setting, model, todo>>
      /\ work'.embedding = work.embedding
      /\ at[p] \in {"join", "mean", "seed", "seeded"} /\ at'[p] \in Midway
      /\ at'[p] # "placed" => NewMean(p)' = NewMean(p)
  BY PlacementPuts
<1>2. disk' = disk /\ work.cluster \in Seq(Cluster)
  BY <1>1 DEF Writes, IInv, Tables
<1>3. PICK new \in Cluster :
        /\ \/ new.mean = NewMean(p)
           \/ \E c \in DOMAIN work.cluster : new.mean = work.cluster[c].mean
        /\ \/ \E c \in DOMAIN work.cluster : work' = [work EXCEPT !.cluster[c] = new]
           \/ work' = [work EXCEPT !.cluster = Append(work.cluster, new)]
  BY <1>1 DEF Puts, Written
<1>4. \A entry \in new.mean : work.embedding[entry[1]] = entry[2]
  BY <1>1, <1>3 DEF Settled, Made
<1>5. \A c \in DOMAIN work'.cluster : work'.cluster[c] = new \/ (c \in DOMAIN work.cluster /\ work'.cluster[c] = work.cluster[c])
  <2>1. CASE \E c \in DOMAIN work.cluster : work' = [work EXCEPT !.cluster[c] = new]
    <3>1. PICK c \in DOMAIN work.cluster : work' = [work EXCEPT !.cluster[c] = new]
      BY <2>1
    <3>2. work'.cluster = [work.cluster EXCEPT ![c] = new]
      BY <3>1, ClusterTables
    <3> QED
      BY <1>2, <3>2
  <2>2. CASE work' = [work EXCEPT !.cluster = Append(work.cluster, new)]
    <3>1. work'.cluster = Append(work.cluster, new)
      BY <2>2, AppendTables
    <3> QED
      BY <1>2, <3>1
  <2> QED
    BY <1>3, <2>1, <2>2
<1>6. Made(work)'
  BY <1>1, <1>4, <1>5 DEF Made, Settled
<1>7. OfSetting(disk)' /\ OfSetting(work)' /\ Made(disk)' /\ setting' = setting /\ model'[p] = setting
  BY <1>1, <1>2 DEF Settled, OfSetting, Made
<1>8. /\ at'[p] \notin Embedding
      /\ \A a \in DOMAIN todo'[p] : todo'[p][a] = work'.embedding[a]
      /\ at'[p] \in {"join", "mean", "seed", "seeded"} =>
           \A entry \in NewMean(p)' : work'.embedding[entry[1]] = entry[2]
  BY <1>1 DEF Embedding, Placing, Midway, Settled
<1> QED
  BY <1>6, <1>7, <1>8, SettledBy

LEMMA ActSettled ==
  ASSUME Solo, IInv, Settled, NEW p \in Proc, Act(p)
  PROVE  Settled'
<1> USE DEF Goes
<1>1. CASE Begin(p) \/ ReadUnhashed(p) \/ Embedded(p) \/ Placed(p)
  <2>1. /\ UNCHANGED <<setting, disk, work>> /\ model'[p] = setting
        /\ at'[p] \notin Embedding \cup Placing
    BY <1>1 DEF Begin, ReadUnhashed, Embedded, Placed, Embedding, Placing, Midway, IInv, TypeOK, Settled
  <2> QED
    BY <2>1, ListSettled
<1>2. CASE Hash(p)
  <2>1. /\ work'.embedding = work.embedding /\ disk' = disk /\ at' = at /\ at[p] = "hashing"
        /\ UNCHANGED <<setting, model>> /\ work'.cluster = work.cluster
    BY <1>2, HashNew DEF Hash, Writes
  <2>2. /\ OfSetting(disk)' /\ OfSetting(work)' /\ Made(disk)' /\ Made(work)'
        /\ setting' = setting /\ model'[p] = setting
    BY <2>1 DEF Settled, OfSetting, Made
  <2>3. at'[p] \notin Embedding \cup Placing \cup {"join", "mean", "seed", "seeded"}
    BY <2>1 DEF Embedding, Placing, Midway
  <2> QED
    BY <2>2, <2>3, SettledBy
<1>3. CASE Hashed(p) \/ Bypassed(p) \/ Stored(p) \/ PlacedOne(p)
  <2>1. /\ UNCHANGED <<setting, model, todo>> /\ Commits(p)
        /\ \/ at'[p] \notin Embedding \cup Placing
           \/ at[p] = "store" /\ at'[p] = "encode"
           \/ at[p] = "placed" /\ at'[p] = "placing"
    BY <1>3 DEF Hashed, Bypassed, Stored, PlacedOne, Embedding, Placing, Midway, IInv, TypeOK
  <2> QED
    BY <2>1, CommitSettled
<1>4. CASE ReadCandidates(p)
  <2>1. /\ UNCHANGED <<setting, disk, work, model>> /\ at'[p] = "bypassing"
        /\ DOMAIN todo'[p] = Bypassable /\ writer # p
    BY <1>4 DEF ReadCandidates, Fetches, IInv, TypeOK, Writing, Midway
  <2>2. work = disk
    BY <2>1, Alone
  <2>3. at'[p] \in Embedding /\ model'[p] = setting
    BY <2>1 DEF Embedding, Settled
  <2> QED
    BY <2>1, <2>2, <2>3, ListSettled DEF Bypassable
<1>5. CASE Bypass(p)
  <2>1. PICK a \in DOMAIN todo[p] :
          /\ todo' = [todo EXCEPT ![p] = Without(todo[p], a)]
          /\ \/ UNCHANGED <<disk, work, writer>>
             \/ /\ Writes(p, work')
                /\ Fills(p, a)
    BY <1>5, BypassNew
  <2>2. at[p] = "bypassing" /\ at' = at /\ UNCHANGED <<setting, model>>
    BY <1>5, BypassNew DEF Bypass
  <2>3. CASE UNCHANGED <<disk, work, writer>>
    <3>1. DOMAIN todo'[p] \subseteq DOMAIN todo[p]
      BY <2>1, WithoutRow DEF IInv
    <3>2. at[p] \in Embedding /\ at'[p] \in Embedding /\ model'[p] = setting
      BY <2>2 DEF Embedding, Settled
    <3> QED
      BY <2>2, <2>3, <3>1, <3>2, ListSettled
  <2>4. CASE Writes(p, work') /\ Fills(p, a)
    BY <2>1, <2>2, <2>4, FillSettled DEF Fills
  <2> QED
    BY <2>1, <2>3, <2>4
<1>6. CASE ReadPending(p)
  <2>1. /\ UNCHANGED <<setting, disk, work, model>> /\ at'[p] = "encode"
        /\ DOMAIN todo'[p] = Pending(p) /\ writer # p
    BY <1>6 DEF ReadPending, Fetches, IInv, TypeOK, Writing, Midway
  <2>2. work = disk
    BY <2>1, Alone
  <2>3. \A a \in Pending(p) : disk.embedding[a] = NoVector
    BY DEF Pending, Settled, OfSetting, IInv, Tables
  <2>4. at'[p] \in Embedding /\ model'[p] = setting
    BY <2>1 DEF Embedding, Settled
  <2> QED
    BY <2>1, <2>2, <2>3, <2>4, ListSettled
<1>7. CASE Encode(p)
  <2>1. /\ UNCHANGED <<setting, disk, work, model>> /\ at[p] = "encode" /\ at'[p] = "store"
        /\ DOMAIN todo'[p] = DOMAIN todo[p]
    BY <1>7 DEF Encode, IInv, TypeOK
  <2>2. at[p] \in Embedding /\ at'[p] \in Embedding /\ model'[p] = setting
    BY <2>1 DEF Embedding, Settled
  <2> QED
    BY <2>1, <2>2, ListSettled
<1>8. CASE Store(p)
  <2>1. PICK a \in DOMAIN todo[p] :
          /\ todo' = [todo EXCEPT ![p] = Without(todo[p], a)]
          /\ Writes(p, work')
          /\ Fills(p, a)
    BY <1>8, StoreNew
  <2>2. at[p] = "store" /\ at' = at /\ UNCHANGED <<setting, model>>
    BY <1>8, StoreNew DEF Store
  <2> QED
    BY <2>1, <2>2, FillSettled DEF Fills
<1>9. CASE ReadUnclustered(p)
  <2>1. /\ UNCHANGED <<setting, disk, work, model>> /\ at'[p] = "placing" /\ writer # p
        /\ \A a \in DOMAIN todo'[p] : todo'[p][a] = View(p).embedding[a]
    BY <1>9 DEF ReadUnclustered, Fetches, IInv, TypeOK, Writing, Midway
  <2>2. View(p) = work
    BY Alone
  <2>3. model'[p] = setting
    BY <2>1 DEF Settled
  <2> QED
    BY <2>1, <2>2, <2>3, ListSettled
<1>10. CASE Kill(p) \/ Raise(p)
  BY <1>10, EndSettled DEF Kill, Raise
<1>11. CASE Choose(p) \/ Placement(p)
  BY <1>11, ChooseSettled, PutSettled
<1> QED
  BY <1>1, <1>2, <1>3, <1>4, <1>5, <1>6, <1>7, <1>8, <1>9, <1>10, <1>11 DEF Act, Step, Placement

LEMMA NextSettled ==
  ASSUME Solo, IInv, StillSettled, [Next]_vars
  PROVE  StillSettled'
<1> SUFFICES ASSUME used'.changes = 0 PROVE Settled'
  BY DEF StillSettled
<1>1. ASSUME NEW p \in Proc, Act(p) PROVE Settled'
  <2>1. used'.changes = used.changes
    BY <1>1, SpentIsCounted DEF Act, Step, Begin, ReadUnhashed, Hash, Hashed, ReadCandidates, Bypass, Bypassed,
       ReadPending, Encode, Store, Stored, Embedded, ReadUnclustered, Choose, JoinMember, JoinMean, SeedCluster,
       SeedMember, Enters, PlacedOne, Placed, Kill, Raise, Ends
  <2> QED
    BY <1>1, <2>1, ActSettled DEF StillSettled
<1>2. ASSUME NEW a \in Article, Arrive(a) PROVE Settled'
  BY <1>2, ArriveLeaves DEF Arrive, local, StillSettled, Settled, OfSetting, Made, NewMean
<1>3. CASE Tick
  BY <1>3 DEF Tick, local, StillSettled, Settled, OfSetting, Made, NewMean
<1>4. CASE ChangeModel
  BY <1>4, SpentIsCounted DEF ChangeModel
<1>5. CASE UNCHANGED vars
  BY <1>5 DEF vars, local, StillSettled, Settled, OfSetting, Made, NewMean
<1> QED
  BY <1>1, <1>2, <1>3, <1>4, <1>5 DEF Next, Act

\* The vectors that went into a centroid are those that the articles have
\* (FR-504), as long as one process works and nobody changes the model: also
\* when an exception cut a placement in two and a handler committed the half.
THEOREM CentroidsOfEmbeddings ==
  ASSUME Solo
  PROVE  Spec => []CentroidOfEmbeddings
<1>1. Init => StillSettled
  <2> SUFFICES ASSUME Init PROVE Settled
    BY DEF StillSettled
  <2>1. /\ \A a \in Article : disk.embedding[a] = NoVector
        /\ work = disk /\ disk.cluster = <<>>
        /\ \A p \in Proc : model[p] = setting /\ at[p] = "idle"
    BY DEF Init
  <2> QED
    BY <2>1, NoVectorIsNone DEF Settled, OfSetting, Made, Embedding, Placing, Midway
<1>2. IInv /\ StillSettled /\ [Next]_vars => StillSettled'
  BY NextSettled
<1>3. StillSettled => CentroidOfEmbeddings
  BY DEF StillSettled, Settled, Made, CentroidOfEmbeddings
<1> QED
  BY <1>1, <1>2, <1>3, Invariance, PTL DEF Spec
====
