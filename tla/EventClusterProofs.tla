------------------------- MODULE EventClusterProofs -------------------------
(***************************************************************************)
(* Proofs about EventCluster, for every set of processes, articles, window *)
(* and bound.                                                              *)
(***************************************************************************)
EXTENDS EventCluster, SequenceTheorems, FiniteSetTheorems, NaturalsInduction,
        WellFoundedInduction, TLAPS

Writing == {"member", "count", "title", "commit"}

\* Where a process stands determines what its transaction holds.
Placing(p) ==
    LET k == pick[p] IN
    /\ writer = p <=> at[p] \in Writing
    /\ at[p] \in Writing \cup {"write"} => k.art \in todo[p]
    /\ at[p] = "write" => k.into \in {0} \cup Clusters(disk)
    /\ at[p] \in {"count", "title"} =>
        /\ k.into \in Clusters(disk)
        /\ Len(work.cluster) = Len(disk.cluster)
        /\ work.member = disk.member \cup {<<k.art, k.into>>}
    /\ at[p] = "member" =>
        /\ k.into = Len(work.cluster)
        /\ Len(work.cluster) = Len(disk.cluster) + 1
        /\ work.member = disk.member
    /\ at[p] = "commit" =>
        /\ k.into \in Clusters(work)
        /\ Len(work.cluster) \in {Len(disk.cluster), Len(disk.cluster) + 1}
        /\ work.member = disk.member \cup {<<k.art, k.into>>}

\* Membership rows refer to articles and clusters that exist.
Referred == ForeignKeys(disk)

Discipline == Referred /\ \A p \in Proc : Placing(p)

IInv == Typed /\ Discipline

-----------------------------------------------------------------------------
\* What one row update and one appended row do to the tables.
LEMMA UpdatedRow ==
    ASSUME NEW db \in Tables, NEW c \in Clusters(db), NEW row \in Row
    PROVE  LET new == [db EXCEPT !.cluster[c] = row] IN
           /\ new \in Tables
           /\ Len(new.cluster) = Len(db.cluster)
           /\ new.member = db.member
<1> USE DEF Tables, Clusters
<1>1. db.cluster \in Seq(Row) /\ c \in 1 .. Len(db.cluster)
    OBVIOUS
<1>2. [db.cluster EXCEPT ![c] = row] \in Seq(Row)
    BY <1>1, ExceptSeq
<1>3. Len([db.cluster EXCEPT ![c] = row]) = Len(db.cluster)
    BY <1>1, ExceptSeq
<1> QED
    BY <1>1, <1>2, <1>3

LEMMA AppendedRow ==
    ASSUME NEW db \in Tables, NEW row \in Row
    PROVE  LET new == [db EXCEPT !.cluster = Append(@, row)] IN
           /\ new \in Tables
           /\ Len(new.cluster) = Len(db.cluster) + 1
           /\ new.member = db.member
    BY DEF Tables

LEMMA SourcesFinite ==
    ASSUME Typed, NEW db, NEW c
    PROVE  DistinctSources(db, c) \in Nat
<1> DEFINE M == Members(db, c)
           S == {article[a].src : a \in M}
           f == [a \in M |-> article[a].src]
<1>1. IsFiniteSet(1 .. Len(article))
    BY FS_Interval DEF Typed
<1>2. IsFiniteSet(M)
    BY <1>1, FS_Subset DEF Members, Ids
<1>3. f \in Surjection(M, S)
    BY DEF Surjection
<1>4. IsFiniteSet(S)
    BY <1>2, <1>3, FS_Surjection
<1> QED
    BY <1>4, FS_CardinalityType DEF DistinctSources

LEMMA PlusType == ASSUME NEW v \in Vector, NEW w \in Vector PROVE Plus(v, w) \in Vector
    BY DEF Plus, Vector

LEMMA ArticleType ==
    ASSUME Typed, NEW a \in Ids
    PROVE  article[a] \in Arrivals /\ article[a] \in Article /\ a \in Nat
    BY ArrivalsAssumption, ElementOfSeq DEF Typed, Ids

\* The write lock admits one process.
LEMMA OthersWait ==
    ASSUME IInv, NEW p \in Proc, NEW q \in Proc \ {p}, writer \in {p, NoOne}
    PROVE  at[q] \notin Writing
    BY ProcAssumption DEF IInv, Discipline, Placing

-----------------------------------------------------------------------------
LEMMA InitInv == Init => IInv
<1> SUFFICES ASSUME Init PROVE IInv
    OBVIOUS
<1>1. Typed
  <2>1. <<>> \in Seq(Arrivals) /\ <<>> \in Seq(Row) /\ Len(<<>>) = 0
    BY EmptySeq
  <2>2. <<0, 0>> \in Vector
    BY DEF Vector
  <2> QED
    BY <2>1, <2>2, BoundAssumption DEF Init, Typed, Tables, Stages, NoPick
<1>2. Discipline
    BY ProcAssumption DEF Init, Discipline, ForeignKeys, Referred, Placing, Writing
<1> QED
    BY <1>1, <1>2 DEF IInv

-----------------------------------------------------------------------------
(***************************************************************************)
(* A step of p leaves the other processes where they were: either it does  *)
(* not touch the transaction, or it holds the lock they would need.        *)
(***************************************************************************)
Elsewhere(p) == \A q \in Proc \ {p} :
    at'[q] = at[q] /\ todo'[q] = todo[q] /\ pick'[q] = pick[q]

LEMMA FrameUnlocked ==
    ASSUME IInv, NEW p \in Proc, Elsewhere(p), UNCHANGED <<article, disk, work, writer>>
    PROVE  \A q \in Proc \ {p} : Placing(q)'
    BY DEF IInv, Discipline, Placing, Elsewhere, Clusters

LEMMA FrameLocked ==
    ASSUME IInv, NEW p \in Proc, Elsewhere(p),
           writer \in {p, NoOne}, writer' \in {p, NoOne},
           Clusters(disk) \subseteq Clusters(disk')
    PROVE  \A q \in Proc \ {p} : Placing(q)'
<1> SUFFICES ASSUME NEW q \in Proc \ {p} PROVE Placing(q)'
    OBVIOUS
<1>1. at[q] \notin Writing /\ at'[q] = at[q]
    BY OthersWait DEF Elsewhere
<1>2. Placing(q) /\ q # NoOne
    BY ProcAssumption DEF IInv, Discipline
<1> QED
    BY <1>1, <1>2 DEF Placing, Elsewhere, Writing

\* Ids and the queries over them do not depend on what a step leaves alone.
LEMMA ArriveInv == IInv /\ Arrive => IInv'
<1> SUFFICES ASSUME IInv, Arrive PROVE IInv'
    OBVIOUS
<1>1. PICK r \in Arrivals : article' = Append(article, r)
    BY DEF Arrive
<1>2. Len(article') = Len(article) + 1 /\ article' \in Seq(Arrivals) /\ Ids \subseteq Ids'
    BY <1>1 DEF IInv, Typed, Ids
<1>3. Typed'
    BY <1>2, BoundAssumption DEF IInv, Typed, Arrive
<1>4. Discipline'
    BY <1>2 DEF IInv, Discipline, ForeignKeys, Referred, Placing, Arrive, Clusters
<1> QED
    BY <1>3, <1>4 DEF IInv

LEMMA BeginInv == ASSUME IInv, NEW p \in Proc, Begin(p) PROVE IInv'
<1> USE DEF Begin
<1>1. Typed'
    BY DEF IInv, Typed, Pending, Ids, Stages
<1>2. Placing(p)'
    BY DEF IInv, Typed, Discipline, Placing, Writing
<1>3. \A q \in Proc \ {p} : Placing(q)'
    BY FrameUnlocked DEF Elsewhere, IInv, Typed
<1>4. Referred'
    BY DEF IInv, Discipline, ForeignKeys, Referred, Clusters, Ids
<1> QED
    BY <1>1, <1>2, <1>3, <1>4 DEF IInv, Discipline

LEMMA SelectInv == ASSUME IInv, NEW p \in Proc, Select(p) PROVE IInv'
<1>1. PICK a \in todo[p] :
        \/ pick' = [pick EXCEPT ![p] = [NoPick EXCEPT !.art = a]]
        \/ \E c \in Best(a) :
             pick' = [pick EXCEPT ![p] =
                [art |-> a, into |-> c,
                 sum |-> disk.cluster[c].sum, count |-> disk.cluster[c].count]]
    BY DEF Select
<1>2. a \in Ids /\ a \in Nat
    BY DEF IInv, Typed, Ids
<1>3. \A c \in Best(a) : c \in Clusters(disk) /\ c \in Nat /\ disk.cluster[c] \in Row
    BY ElementOfSeq DEF Best, Active, IInv, Typed, Tables, Clusters
<1>4. pick'[p].art = a /\ pick'[p].into \in {0} \cup Clusters(disk)
    BY <1>1, <1>3 DEF IInv, Typed, NoPick
<1>5. pick' \in [Proc -> [art: Nat, into: Nat, sum: Vector, count: Nat]]
  <2>1. CASE pick' = [pick EXCEPT ![p] = [NoPick EXCEPT !.art = a]]
    <3>1. <<0, 0>> \in Vector
        BY DEF Vector
    <3>2. [NoPick EXCEPT !.art = a] \in [art: Nat, into: Nat, sum: Vector, count: Nat]
        BY <1>2, <3>1 DEF NoPick
    <3> QED
        BY <2>1, <3>2 DEF IInv, Typed
  <2>2. ASSUME NEW c \in Best(a),
               pick' = [pick EXCEPT ![p] =
                [art |-> a, into |-> c,
                 sum |-> disk.cluster[c].sum, count |-> disk.cluster[c].count]]
        PROVE  pick' \in [Proc -> [art: Nat, into: Nat, sum: Vector, count: Nat]]
    <3>1. disk.cluster[c].sum \in Vector /\ disk.cluster[c].count \in Nat
        BY <1>3 DEF Row
    <3> QED
        BY <1>2, <1>3, <2>2, <3>1 DEF IInv, Typed
  <2> QED
    BY <1>1, <2>1, <2>2
<1>6. Typed'
    BY <1>5 DEF Select, IInv, Typed, Stages, Ids
<1>7. Placing(p)'
    BY <1>4 DEF Select, IInv, Typed, Discipline, Placing, Writing, Clusters
<1>8. \A q \in Proc \ {p} : Placing(q)'
    BY FrameUnlocked, <1>1 DEF Elsewhere, Select, IInv, Typed
<1>9. Referred'
    BY DEF Select, IInv, Discipline, ForeignKeys, Referred, Clusters, Ids
<1> QED
    BY <1>6, <1>7, <1>8, <1>9 DEF IInv, Discipline

LEMMA JoinRefusedInv == ASSUME IInv, NEW p \in Proc, JoinRefused(p) PROVE IInv'
<1> USE DEF JoinRefused
<1>1. NoPick \in [art: Nat, into: Nat, sum: Vector, count: Nat]
    BY DEF NoPick, Vector
<1>2. Typed'
    BY <1>1 DEF IInv, Typed, Ids, Stages
<1>3. Placing(p)'
    BY DEF IInv, Typed, Discipline, Placing, Writing
<1>4. \A q \in Proc \ {p} : Placing(q)'
    BY FrameUnlocked DEF Elsewhere, IInv, Typed
<1>5. Referred'
    BY DEF IInv, Discipline, ForeignKeys, Referred, Clusters, Ids
<1> QED
    BY <1>2, <1>3, <1>4, <1>5 DEF IInv, Discipline

LEMMA OutOfRangeInv == ASSUME IInv, NEW p \in Proc, OutOfRange(p) PROVE IInv'
<1> USE DEF OutOfRange
<1>1. Typed'
    BY DEF IInv, Typed, Ids, Stages
<1>2. Placing(p)'
    BY DEF IInv, Typed, Discipline, Placing, Writing
<1>3. \A q \in Proc \ {p} : Placing(q)'
    BY FrameUnlocked DEF Elsewhere, IInv, Typed
<1>4. Referred'
    BY DEF IInv, Discipline, ForeignKeys, Referred, Clusters, Ids
<1> QED
    BY <1>1, <1>2, <1>3, <1>4 DEF IInv, Discipline

LEMMA JoinMemberInv == ASSUME IInv, NEW p \in Proc, JoinMember(p) PROVE IInv'
<1> DEFINE k == pick[p]
<1>1. k.art \in Ids /\ k.into \in Clusters(disk) /\ k.art \in Nat /\ k.into \in Nat
    BY DEF JoinMember, IInv, Typed, Discipline, Placing, Ids, Clusters
<1>2. /\ work' = [disk EXCEPT !.member = disk.member \cup {<<k.art, k.into>>}]
      /\ disk \in Tables
    BY DEF JoinMember, IInv, Typed
<1>3. /\ work' \in Tables
      /\ work'.member = disk.member \cup {<<k.art, k.into>>}
      /\ work'.cluster = disk.cluster
    BY <1>1, <1>2 DEF Tables
<1>4. Typed'
    BY <1>3, ProcAssumption DEF JoinMember, IInv, Typed, Stages, Ids
<1>5. Placing(p)'
    BY <1>1, <1>3 DEF JoinMember, IInv, Typed, Discipline, Placing, Writing, Clusters
<1>6. \A q \in Proc \ {p} : Placing(q)'
    BY FrameLocked DEF Elsewhere, JoinMember, IInv, Typed, Clusters
<1>7. Referred'
    BY DEF JoinMember, IInv, Discipline, ForeignKeys, Referred, Clusters, Ids
<1> QED
    BY <1>4, <1>5, <1>6, <1>7 DEF IInv, Discipline

LEMMA JoinCountInv == ASSUME IInv, NEW p \in Proc, JoinCount(p) PROVE IInv'
<1> DEFINE k == pick[p]
           row == JoinedRow(work.cluster[k.into], k)
<1>1. /\ k.art \in Ids /\ k.into \in Clusters(work)
      /\ k.sum \in Vector /\ k.count \in Nat
    BY DEF JoinCount, IInv, Typed, Discipline, Placing, Writing, Clusters
<1>2. work \in Tables /\ work.cluster[k.into] \in Row
    BY <1>1, ElementOfSeq DEF IInv, Typed, Tables, Clusters
<1>3. article[k.art].vec \in Vector /\ article[k.art].pub \in Int
    BY <1>1, ArticleType DEF IInv, Article
<1>4. Plus(k.sum, article[k.art].vec) \in Vector
    BY <1>1, <1>3, PlusType
<1>5. row \in Row
  <2>1. \A r \in Row, v \in Vector, n \in Nat, t \in Int :
            [r EXCEPT !.sum = v, !.count = n, !.updated = t] \in Row
    BY DEF Row
  <2>2. k.count + 1 \in Nat
    BY <1>1
  <2> QED
    BY <1>2, <1>3, <1>4, <2>1, <2>2, Zenon DEF JoinedRow
<1>6. work' = [work EXCEPT !.cluster[k.into] = row]
    BY DEF JoinCount
<1>7. /\ work' \in Tables
      /\ Len(work'.cluster) = Len(work.cluster)
      /\ work'.member = work.member
    BY <1>1, <1>2, <1>5, <1>6, UpdatedRow
<1>8. writer = p
    BY DEF JoinCount, IInv, Discipline, Placing, Writing
<1>9. Typed'
    BY <1>7, <1>8, ProcAssumption DEF JoinCount, IInv, Typed, Stages, Ids
<1>10. Placing(p)'
    BY <1>1, <1>7, <1>8 DEF JoinCount, IInv, Typed, Discipline, Placing, Writing, Clusters
<1>11. \A q \in Proc \ {p} : Placing(q)'
    BY <1>8, FrameLocked DEF Elsewhere, JoinCount, IInv, Typed, Clusters
<1>12. Referred'
    BY DEF JoinCount, IInv, Discipline, ForeignKeys, Referred, Clusters, Ids
<1> QED
    BY <1>9, <1>10, <1>11, <1>12 DEF IInv, Discipline

LEMMA JoinTitleInv == ASSUME IInv, NEW p \in Proc, JoinTitle(p) PROVE IInv'
<1> DEFINE c == pick[p].into
<1>1. PICK t \in Headline(work, c) :
        work' = [work EXCEPT !.cluster[c] =
                    [@ EXCEPT !.title = t, !.sources = DistinctSources(work, c)]]
    BY DEF JoinTitle
<1> DEFINE row == [work.cluster[c] EXCEPT !.title = t, !.sources = DistinctSources(work, c)]
<1>2. c \in Clusters(work)
    BY DEF JoinTitle, IInv, Typed, Discipline, Placing, Writing, Clusters
<1>3. work \in Tables /\ work.cluster[c] \in Row
    BY <1>2, ElementOfSeq DEF IInv, Typed, Tables, Clusters
<1>4. t \in Nat /\ DistinctSources(work, c) \in Nat
    BY SourcesFinite DEF Headline, Members, Ids, IInv
<1>5. row \in Row
    BY <1>3, <1>4 DEF Row
<1>6. /\ work' \in Tables
      /\ Len(work'.cluster) = Len(work.cluster)
      /\ work'.member = work.member
  <2>1. work' = [work EXCEPT !.cluster[c] = row]
    BY <1>1
  <2> HIDE DEF row
  <2> QED
    BY <2>1, <1>2, <1>3, <1>5, UpdatedRow
<1>7. writer = p
    BY DEF JoinTitle, IInv, Discipline, Placing, Writing
<1>8. Typed'
    BY <1>6, <1>7, ProcAssumption DEF JoinTitle, IInv, Typed, Stages, Ids
<1>9. Placing(p)'
    BY <1>2, <1>6, <1>7 DEF JoinTitle, IInv, Typed, Discipline, Placing, Writing, Clusters
<1>10. \A q \in Proc \ {p} : Placing(q)'
    BY <1>7, FrameLocked DEF Elsewhere, JoinTitle, IInv, Typed, Clusters
<1>11. Referred'
    BY DEF JoinTitle, IInv, Discipline, ForeignKeys, Referred, Clusters, Ids
<1> QED
    BY <1>8, <1>9, <1>10, <1>11 DEF IInv, Discipline

LEMMA SeedClusterInv == ASSUME IInv, NEW p \in Proc, SeedCluster(p) PROVE IInv'
<1> DEFINE k == pick[p]
           r == article[k.art]
           row == [sum |-> r.vec, count |-> 1, title |-> k.art, sources |-> 1,
                   created |-> r.pub, updated |-> r.pub]
<1>1. k.art \in Ids /\ disk \in Tables
    BY DEF SeedCluster, IInv, Typed, Discipline, Placing
<1>2. row \in Row
    BY <1>1, ArticleType DEF IInv, Article, Row
<1>3. /\ work' \in Tables
      /\ Len(work'.cluster) = Len(disk.cluster) + 1
      /\ work'.member = disk.member
  <2>1. work' = [disk EXCEPT !.cluster = Append(@, row)]
    BY DEF SeedCluster
  <2> HIDE DEF row
  <2> QED
    BY <2>1, <1>1, <1>2, AppendedRow
<1>4. Len(disk.cluster) + 1 \in Nat
    BY <1>1, LenProperties DEF Tables
<1>5. /\ pick' \in [Proc -> [art: Nat, into: Nat, sum: Vector, count: Nat]]
      /\ pick'[p].art = k.art
      /\ pick'[p].into = Len(disk.cluster) + 1
    BY <1>4 DEF SeedCluster, IInv, Typed
<1>6. Typed'
    BY <1>3, <1>5, ProcAssumption DEF SeedCluster, IInv, Typed, Stages, Ids
<1>7. Placing(p)'
    BY <1>1, <1>3, <1>5 DEF SeedCluster, IInv, Typed, Discipline, Placing, Writing, Clusters
<1>8. \A q \in Proc \ {p} : Placing(q)'
    BY FrameLocked DEF Elsewhere, SeedCluster, IInv, Typed, Clusters
<1>9. Referred'
    BY DEF SeedCluster, IInv, Discipline, ForeignKeys, Referred, Clusters, Ids
<1> QED
    BY <1>6, <1>7, <1>8, <1>9 DEF IInv, Discipline

LEMMA SeedMemberInv == ASSUME IInv, NEW p \in Proc, SeedMember(p) PROVE IInv'
<1> DEFINE k == pick[p]
<1>1. /\ k.art \in Nat /\ k.into \in Nat /\ k.into \in Clusters(work)
      /\ work.member = disk.member
      /\ Len(work.cluster) = Len(disk.cluster) + 1
      /\ writer = p
  <2>1. k.into = Len(work.cluster) /\ Len(disk.cluster) \in Nat
    BY LenProperties DEF SeedMember, IInv, Typed, Tables, Discipline, Placing
  <2> QED
    BY <2>1 DEF SeedMember, IInv, Typed, Discipline, Placing, Writing, Clusters
<1>2. /\ work' = [work EXCEPT !.member = work.member \cup {<<k.art, k.into>>}]
      /\ work \in Tables
    BY DEF SeedMember, IInv, Typed
<1>3. /\ work' \in Tables
      /\ work'.member = disk.member \cup {<<k.art, k.into>>}
      /\ work'.cluster = work.cluster
    BY <1>1, <1>2 DEF Tables
<1>4. Typed'
    BY <1>1, <1>3, ProcAssumption DEF SeedMember, IInv, Typed, Stages, Ids
<1>5. Placing(p)'
    BY <1>1, <1>3 DEF SeedMember, IInv, Typed, Discipline, Placing, Writing, Clusters
<1>6. \A q \in Proc \ {p} : Placing(q)'
    BY <1>1, FrameLocked DEF Elsewhere, SeedMember, IInv, Typed, Clusters
<1>7. Referred'
    BY DEF SeedMember, IInv, Discipline, ForeignKeys, Referred, Clusters, Ids
<1> QED
    BY <1>4, <1>5, <1>6, <1>7 DEF IInv, Discipline

\* At any statement the transaction's own view respects the foreign keys and
\* has every committed cluster.
LEMMA WorkForeignKeys ==
    ASSUME IInv, NEW p \in Proc, at[p] \in Writing
    PROVE  /\ work.member \subseteq Ids \X Clusters(work)
           /\ Clusters(disk) \subseteq Clusters(work)
<1> DEFINE k == pick[p]
<1>1. k.art \in Ids /\ Referred /\ Placing(p)
    BY DEF IInv, Typed, Discipline, Placing, Writing
<1>2. Len(disk.cluster) \in Nat /\ Len(work.cluster) \in Nat
    BY LenProperties DEF IInv, Typed, Tables
<1>3. Clusters(disk) \subseteq Clusters(work)
    BY <1>1, <1>2 DEF Placing, Writing, Clusters
<1>4. CASE at[p] = "member"
    BY <1>1, <1>3, <1>4 DEF Placing, ForeignKeys, Referred
<1>5. CASE at[p] \in {"count", "title", "commit"}
    BY <1>1, <1>3, <1>5 DEF Placing, ForeignKeys, Referred
<1> QED
    BY <1>3, <1>4, <1>5 DEF Writing

LEMMA CommitInv == ASSUME IInv, NEW p \in Proc, Commit(p) PROVE IInv'
<1> USE DEF Commit
<1>1. at[p] \in Writing /\ writer = p
    BY DEF IInv, Discipline, Placing, Writing
<1>2. work.member \subseteq Ids \X Clusters(work) /\ Clusters(disk) \subseteq Clusters(work)
    BY <1>1, WorkForeignKeys
<1>3. NoPick \in [art: Nat, into: Nat, sum: Vector, count: Nat]
    BY DEF NoPick, Vector
<1>4. Typed'
    BY <1>3 DEF IInv, Typed, Ids, Stages
<1>5. Placing(p)'
    BY ProcAssumption DEF IInv, Typed, Discipline, Placing, Writing
<1>6. \A q \in Proc \ {p} : Placing(q)'
    BY <1>1, <1>2, FrameLocked DEF Elsewhere, IInv, Typed, Clusters
<1>7. Referred'
    BY <1>2 DEF ForeignKeys, Referred, Clusters, Ids
<1> QED
    BY <1>4, <1>5, <1>6, <1>7 DEF IInv, Discipline

LEMMA KillInv == ASSUME IInv, NEW p \in Proc, Kill(p) PROVE IInv'
<1> USE DEF Kill, Ends
<1>1. NoPick \in [art: Nat, into: Nat, sum: Vector, count: Nat]
    BY DEF NoPick, Vector
<1>2. Typed'
    BY <1>1, BoundAssumption DEF IInv, Typed, Ids, Stages
<1>3. Placing(p)'
    BY ProcAssumption DEF IInv, Typed, Discipline, Placing, Writing
<1>4. Elsewhere(p)
    BY DEF Elsewhere, IInv, Typed
<1>5. \A q \in Proc \ {p} : Placing(q)'
  <2>1. CASE writer = p
    BY <2>1, <1>4, FrameLocked DEF Clusters
  <2>2. CASE writer # p
    BY <2>2, <1>4, FrameUnlocked
  <2> QED
    BY <2>1, <2>2
<1>6. Referred'
    BY DEF IInv, Discipline, ForeignKeys, Referred, Clusters, Ids
<1> QED
    BY <1>2, <1>3, <1>5, <1>6 DEF IInv, Discipline

LEMMA RaiseInv == ASSUME IInv, NEW p \in Proc, Raise(p) PROVE IInv'
<1> USE DEF Raise, Ends
<1>1. at[p] \in Writing
    BY DEF IInv, Discipline, Placing
<1>2. work.member \subseteq Ids \X Clusters(work) /\ Clusters(disk) \subseteq Clusters(work)
    BY <1>1, WorkForeignKeys
<1>3. NoPick \in [art: Nat, into: Nat, sum: Vector, count: Nat]
    BY DEF NoPick, Vector
<1>4. Typed'
    BY <1>3, BoundAssumption DEF IInv, Typed, Ids, Stages
<1>5. Placing(p)'
    BY ProcAssumption DEF IInv, Typed, Discipline, Placing, Writing
<1>6. \A q \in Proc \ {p} : Placing(q)'
    BY <1>2, FrameLocked DEF Elsewhere, IInv, Typed, Clusters
<1>7. Referred'
    BY <1>2 DEF IInv, Discipline, ForeignKeys, Referred, Clusters, Ids
<1> QED
    BY <1>4, <1>5, <1>6, <1>7 DEF IInv, Discipline

LEMMA StutterInv == IInv /\ UNCHANGED vars => IInv'
    BY DEF vars, IInv, Typed, Discipline, ForeignKeys, Referred, Placing, Clusters, Ids

LEMMA NextInv == IInv /\ [Next]_vars => IInv'
    BY ArriveInv, BeginInv, SelectInv, OutOfRangeInv, JoinMemberInv, JoinRefusedInv, JoinCountInv,
       JoinTitleInv, SeedClusterInv, SeedMemberInv, CommitInv, KillInv, RaiseInv,
       StutterInv DEF Next, Step

LEMMA Invariance == Spec => []IInv
    BY InitInv, NextInv, PTL DEF Spec

\* Every reachable state is well typed and no membership row is without its
\* article or its cluster, committed or not: for any number of clusterers,
\* kills and handler commits.
THEOREM TypeCorrect == Spec => []TypeOK
<1>1. IInv => TypeOK
  <2> SUFFICES ASSUME IInv PROVE ForeignKeys(work)
    BY DEF IInv, Discipline, Referred, TypeOK
  <2>1. CASE writer = NoOne
    BY <2>1 DEF IInv, Typed, Discipline, Referred
  <2>2. CASE writer \in Proc
    BY <2>2, WorkForeignKeys DEF IInv, Discipline, Placing, ForeignKeys
  <2> QED
    BY <2>1, <2>2 DEF IInv, Typed
<1> QED
    BY <1>1, Invariance, PTL

-----------------------------------------------------------------------------
(***************************************************************************)
(* One clusterer: no article in two clusters.  What a pass still has to    *)
(* place is unclustered on disk, which a second process would break.       *)
(***************************************************************************)
Solo == \A p, q \in Proc : p = q

Functional(member) == \A a, c, d : <<a, c>> \in member /\ <<a, d>> \in member => c = d

Unplaced == \A p \in Proc : \A a \in todo[p] : \A c : <<a, c>> \notin disk.member

SoloInv == Functional(disk.member) /\ Unplaced

LEMMA WorkFunctional ==
    ASSUME IInv, SoloInv, NEW p \in Proc, at[p] \in Writing
    PROVE  Functional(work.member)
<1>1. pick[p].art \in todo[p] /\ Placing(p)
    BY DEF IInv, Discipline, Placing, Writing
<1>2. work.member = disk.member \/ work.member = disk.member \cup {<<pick[p].art, pick[p].into>>}
    BY <1>1 DEF Placing, Writing
<1>3. \A c : <<pick[p].art, c>> \notin disk.member
    BY <1>1 DEF SoloInv, Unplaced
<1> QED
    BY <1>2, <1>3 DEF Functional, SoloInv

LEMMA SoloStep ==
    ASSUME IInv, SoloInv, Solo, NEW p \in Proc,
           Step(p) \/ Kill(p) \/ Raise(p)
    PROVE  SoloInv'
<1> USE DEF SoloInv
<1>1. CASE Begin(p)
  <2>1. \A a \in Pending : \A c : <<a, c>> \notin disk.member
    BY DEF Pending, Clustered, IInv, Discipline, ForeignKeys, Referred
  <2> QED
    BY <1>1, <2>1 DEF Begin, Unplaced, IInv, Typed
<1>2. CASE Select(p) \/ JoinMember(p) \/ JoinCount(p) \/ JoinTitle(p)
           \/ SeedCluster(p) \/ SeedMember(p)
    BY <1>2 DEF Select, JoinMember, JoinCount, JoinTitle, SeedCluster, SeedMember, Unplaced
<1>3. CASE OutOfRange(p) \/ JoinRefused(p)
    BY <1>3 DEF OutOfRange, JoinRefused, Unplaced, IInv, Typed
<1>4. CASE Commit(p)
  <2>1. at[p] \in Writing /\ Placing(p)
    BY <1>4 DEF Commit, Writing, IInv, Discipline
  <2>2. Functional(disk'.member)
    BY <1>4, <2>1, WorkFunctional DEF Commit
  <2>3. disk'.member = disk.member \cup {<<pick[p].art, pick[p].into>>}
    BY <1>4, <2>1 DEF Commit, Placing
  <2>4. \A q \in Proc : todo'[q] \subseteq todo[q] \ {pick[p].art}
    BY <1>4 DEF Solo, Commit, IInv, Typed
  <2> QED
    BY <2>2, <2>3, <2>4 DEF Unplaced
<1>5. CASE Kill(p)
    BY <1>5 DEF Kill, Ends, Unplaced, IInv, Typed
<1>6. CASE Raise(p)
  <2>1. at[p] \in Writing
    BY <1>6 DEF Raise, IInv, Discipline, Placing
  <2>2. Functional(disk'.member)
    BY <1>6, <2>1, WorkFunctional DEF Raise
  <2>3. \A q \in Proc : todo'[q] = {}
    BY <1>6 DEF Solo, Raise, Ends, IInv, Typed
  <2> QED
    BY <2>2, <2>3 DEF Unplaced
<1> QED
    BY <1>1, <1>2, <1>3, <1>4, <1>5, <1>6 DEF Step

LEMMA SoloNext == ASSUME IInv, SoloInv, Solo, [Next]_vars PROVE SoloInv'
<1>1. CASE Arrive
    BY <1>1 DEF Arrive, SoloInv, Unplaced
<1>2. CASE \E p \in Proc : Step(p) \/ Kill(p) \/ Raise(p)
    BY <1>2, SoloStep
<1>3. CASE UNCHANGED vars
    BY <1>3 DEF vars, SoloInv, Unplaced
<1> QED
    BY <1>1, <1>2, <1>3 DEF Next

LEMMA SoloInit == Init => SoloInv
    BY DEF Init, SoloInv, Functional, Unplaced

\* FR-501 with a single clusterer, for every corpus, window and number of
\* kills and exceptions, the ones whose handler commits half a placement
\* included: no article is a member of two clusters.
THEOREM OneClusterPerArticle ==
    ASSUME Solo
    PROVE  Spec => []AtMostOneCluster
<1>1. SoloInv => AtMostOneCluster
    BY DEF SoloInv, Functional, AtMostOneCluster
<1>2. IInv /\ SoloInv /\ [Next]_vars => SoloInv'
    BY SoloNext
<1> QED
    BY <1>1, <1>2, SoloInit, Invariance, PTL DEF Spec

-----------------------------------------------------------------------------
(***************************************************************************)
(* Any number of clusterers: the title and the distinct-source count.      *)
(* Only the row of the cluster in hand may disagree, and only inside the   *)
(* transaction.                                                            *)
(***************************************************************************)
Shown(db, c) ==
    /\ db.cluster[c].title \in Headline(db, c)
    /\ db.cluster[c].sources = DistinctSources(db, c)

InHand(p) ==
    LET c == pick[p].into IN
    /\ \A d \in Clusters(work) \ {c} : Shown(work, d)
    /\ at[p] = "member" =>
        work.cluster[c].title = pick[p].art /\ work.cluster[c].sources = 1
    /\ at[p] = "commit" => Shown(work, c)

ShownInv ==
    /\ \A c \in Clusters(disk) : Shown(disk, c)
    /\ \A p \in Proc : at[p] \in Writing => InHand(p)

LEMMA ShownDepends ==
    ASSUME NEW db1, NEW db2, NEW c,
           Members(db1, c) = Members(db2, c), db1.cluster[c] = db2.cluster[c], Shown(db1, c)
    PROVE  Shown(db2, c)
    BY DEF Shown, Headline, DistinctSources

LEMMA ShownKept ==
    ASSUME ShownInv, UNCHANGED <<article, disk>>
    PROVE  (\A c \in Clusters(disk) : Shown(disk, c))'
<1> SUFFICES ASSUME NEW c \in Clusters(disk)' PROVE Shown(disk, c)'
    OBVIOUS
<1>1. Members(disk, c)' = Members(disk, c)
    BY DEF Members, Ids
<1>2. Headline(disk, c)' = Headline(disk, c)
    BY <1>1 DEF Headline
<1>3. DistinctSources(disk, c)' = DistinctSources(disk, c)
    BY <1>1 DEF DistinctSources
<1>4. Shown(disk, c)
    BY DEF ShownInv, Clusters
<1> QED
    BY <1>2, <1>3, <1>4 DEF Shown

LEMMA ShownWork ==
    ASSUME UNCHANGED article, NEW c, Shown(work', c)
    PROVE  Shown(work, c)'
<1>1. Members(work, c)' = Members(work', c)
    BY DEF Members, Ids
<1>2. Headline(work, c)' = Headline(work', c)
    BY <1>1 DEF Headline
<1>3. DistinctSources(work, c)' = DistinctSources(work', c)
    BY <1>1 DEF DistinctSources
<1> QED
    BY <1>2, <1>3 DEF Shown

\* Only the holder of the lock has rows in hand.
LEMMA ShownLocked ==
    ASSUME IInv, IInv', ShownInv, NEW p \in Proc, UNCHANGED <<article, disk>>, writer' = p,
           \A d \in Clusters(work') \ {pick'[p].into} : Shown(work', d),
           at'[p] = "member" => /\ work'.cluster[pick'[p].into].title = pick'[p].art
                                /\ work'.cluster[pick'[p].into].sources = 1,
           at'[p] = "commit" => Shown(work', pick'[p].into)
    PROVE  ShownInv'
<1>1. \A q \in Proc : at'[q] \in Writing => q = p
    BY DEF IInv, Discipline, Placing
<1>2. InHand(p)'
    BY ShownWork DEF InHand, Clusters
<1> QED
    BY <1>1, <1>2, ShownKept DEF ShownInv

LEMMA ShownArrive == ASSUME IInv, ShownInv, Arrive PROVE ShownInv'
<1>1. \A q \in Proc : at[q] \notin Writing
    BY ProcAssumption DEF Arrive, IInv, Discipline, Placing
<1>2. PICK r \in Arrivals : article' = Append(article, r)
    BY DEF Arrive
<1>3. Ids \subseteq Ids' /\ \A a \in Ids : article'[a] = article[a]
    BY <1>2 DEF IInv, Typed, Ids
<1>4. \A c : Members(disk, c)' = Members(disk, c)
    BY <1>3 DEF Arrive, Members, IInv, Discipline, ForeignKeys, Referred
<1>5. \A c : /\ Headline(disk, c)' = Headline(disk, c)
             /\ DistinctSources(disk, c)' = DistinctSources(disk, c)
  <2> SUFFICES ASSUME NEW c
               PROVE  /\ Headline(disk, c)' = Headline(disk, c)
                      /\ DistinctSources(disk, c)' = DistinctSources(disk, c)
    OBVIOUS
  <2>1. \A a \in Members(disk, c) : article'[a] = article[a]
    BY <1>3 DEF Members
  <2>2. Members(disk, c)' = Members(disk, c)
    BY <1>4
  <2>3. {article'[a].src : a \in Members(disk, c)} = {article[a].src : a \in Members(disk, c)}
    BY <2>1
  <2> QED
    BY <2>1, <2>2, <2>3 DEF Headline, DistinctSources
<1> QED
    BY <1>1, <1>5 DEF ShownInv, Shown, Arrive, Clusters

LEMMA ShownJoinMember ==
    ASSUME IInv, IInv', ShownInv, NEW p \in Proc, JoinMember(p) PROVE ShownInv'
<1> DEFINE k == pick[p]
<1>1. /\ work'.member = disk.member \cup {<<k.art, k.into>>}
      /\ work'.cluster = disk.cluster
      /\ pick' = pick /\ at'[p] = "count"
    BY DEF JoinMember, IInv, Typed, Tables
<1>2. ASSUME NEW d \in Clusters(work') \ {k.into} PROVE Shown(work', d)
  <2>1. Members(work', d) = Members(disk, d)
    BY <1>1 DEF Members
  <2> QED
    BY <2>1, <1>1, ShownDepends DEF ShownInv, Clusters
<1> QED
    BY <1>1, <1>2, ShownLocked DEF JoinMember

LEMMA ShownJoinCount ==
    ASSUME IInv, IInv', ShownInv, NEW p \in Proc, JoinCount(p) PROVE ShownInv'
<1> DEFINE c == pick[p].into
<1>1. /\ work \in Tables /\ work' \in Tables
      /\ work' = [work EXCEPT !.cluster[c] = JoinedRow(@, pick[p])]
      /\ pick' = pick /\ at'[p] = "title" /\ at[p] \in Writing
      /\ writer' = p
    BY DEF JoinCount, IInv, Typed, Writing, Discipline, Placing
<1>2. /\ work'.member = work.member
      /\ work'.cluster = [work.cluster EXCEPT ![c] = JoinedRow(work.cluster[c], pick[p])]
    BY <1>1 DEF Tables
<1>3. DOMAIN work.cluster = Clusters(work) /\ DOMAIN work'.cluster = Clusters(work')
    BY <1>1, LenProperties DEF Tables, Clusters
<1>4. ASSUME NEW d \in Clusters(work') \ {c} PROVE Shown(work', d)
  <2>1. d \in Clusters(work) /\ work'.cluster[d] = work.cluster[d]
    BY <1>2, <1>3
  <2>2. Members(work', d) = Members(work, d)
    BY <1>2 DEF Members
  <2>3. Shown(work, d)
    BY <1>1, <2>1 DEF ShownInv, InHand
  <2> QED
    BY <2>1, <2>2, <2>3, ShownDepends
<1> QED
    BY <1>1, <1>4, ShownLocked DEF JoinCount

LEMMA ShownJoinTitle ==
    ASSUME IInv, IInv', ShownInv, NEW p \in Proc, JoinTitle(p) PROVE ShownInv'
<1> DEFINE c == pick[p].into
<1>1. PICK t \in Headline(work, c) :
        work' = [work EXCEPT !.cluster[c] =
                    [@ EXCEPT !.title = t, !.sources = DistinctSources(work, c)]]
    BY DEF JoinTitle
<1> DEFINE row == [work.cluster[c] EXCEPT !.title = t, !.sources = DistinctSources(work, c)]
<1>2. /\ work \in Tables /\ work' \in Tables
      /\ pick' = pick /\ at'[p] = "commit" /\ at[p] \in Writing
      /\ writer' = p /\ c \in Clusters(work)
    BY DEF JoinTitle, IInv, Typed, Writing, Discipline, Placing, Clusters
<1>3. /\ work'.member = work.member
      /\ work'.cluster = [work.cluster EXCEPT ![c] = row]
    BY <1>1, <1>2 DEF Tables
<1>4. DOMAIN work.cluster = Clusters(work) /\ DOMAIN work'.cluster = Clusters(work')
    BY <1>2, LenProperties DEF Tables, Clusters
<1>5. \A d : Members(work', d) = Members(work, d)
    BY <1>3 DEF Members
<1>6. ASSUME NEW d \in Clusters(work') \ {c} PROVE Shown(work', d)
  <2>1. d \in Clusters(work) /\ work'.cluster[d] = work.cluster[d]
    BY <1>3, <1>4
  <2>2. Shown(work, d)
    BY <1>2, <2>1 DEF ShownInv, InHand
  <2> QED
    BY <2>1, <2>2, <1>5, ShownDepends
<1>7. Shown(work', c)
  <2>1. work.cluster[c] \in Row
    BY <1>2, ElementOfSeq DEF Tables, Clusters
  <2>2. work'.cluster[c].title = t /\ work'.cluster[c].sources = DistinctSources(work, c)
    BY <1>2, <1>3, <1>4, <2>1 DEF Row
  <2> QED
    BY <2>2, <1>1, <1>5 DEF Shown, Headline, DistinctSources
<1> QED
    BY <1>2, <1>6, <1>7, ShownLocked DEF JoinTitle

LEMMA ShownSeedCluster ==
    ASSUME IInv, IInv', ShownInv, NEW p \in Proc, SeedCluster(p) PROVE ShownInv'
<1> DEFINE k == pick[p]
           r == article[k.art]
           row == [sum |-> r.vec, count |-> 1, title |-> k.art, sources |-> 1,
                   created |-> r.pub, updated |-> r.pub]
           n == Len(disk.cluster) + 1
<1>1. /\ disk \in Tables /\ k.art \in Ids
      /\ work' = [disk EXCEPT !.cluster = Append(disk.cluster, row)]
      /\ pick'[p].into = n /\ pick'[p].art = k.art /\ at'[p] = "member"
    BY DEF SeedCluster, IInv, Typed, Discipline, Placing
<1>2. row \in Row
    BY <1>1, ArticleType DEF IInv, Article, Row
<1> HIDE DEF row
<1>3. /\ work'.member = disk.member
      /\ work'.cluster = Append(disk.cluster, row)
      /\ disk.cluster \in Seq(Row)
    BY <1>1 DEF Tables
<1>4. /\ Clusters(work') = 1 .. n
      /\ work'.cluster[n] = row
      /\ \A d \in Clusters(disk) : work'.cluster[d] = disk.cluster[d]
    BY <1>2, <1>3 DEF Clusters
<1>5. ASSUME NEW d \in Clusters(work') \ {n} PROVE Shown(work', d)
  <2>1. d \in Clusters(disk)
    BY <1>3, <1>4, LenProperties DEF Clusters
  <2>2. Members(work', d) = Members(disk, d)
    BY <1>3 DEF Members
  <2> QED
    BY <2>1, <2>2, <1>4, ShownDepends DEF ShownInv
<1>6. row.title = k.art /\ row.sources = 1
    BY DEF row
<1> QED
    BY <1>1, <1>4, <1>5, <1>6, ShownLocked DEF SeedCluster

LEMMA ShownSeedMember ==
    ASSUME IInv, IInv', ShownInv, NEW p \in Proc, SeedMember(p) PROVE ShownInv'
<1> DEFINE k == pick[p]
           c == pick[p].into
<1>1. /\ work \in Tables /\ disk \in Tables /\ at[p] \in Writing
      /\ work' = [work EXCEPT !.member = work.member \cup {<<k.art, c>>}]
      /\ pick' = pick /\ at'[p] = "commit" /\ writer' = p
      /\ k.art \in Ids /\ work.member = disk.member
      /\ c = Len(disk.cluster) + 1
    BY DEF SeedMember, IInv, Typed, Writing, Discipline, Placing
<1>2. work'.member = disk.member \cup {<<k.art, c>>} /\ work'.cluster = work.cluster
    BY <1>1 DEF Tables
<1>3. ASSUME NEW d \in Clusters(work') \ {c} PROVE Shown(work', d)
  <2>1. Members(work', d) = Members(work, d)
    BY <1>1, <1>2 DEF Members
  <2>2. Shown(work, d)
    BY <1>1, <1>2 DEF ShownInv, InHand, Clusters
  <2> QED
    BY <2>1, <2>2, <1>2, ShownDepends
<1>4. Members(work', c) = {k.art}
  <2>1. Len(disk.cluster) \in Nat
    BY <1>1, LenProperties DEF Tables
  <2>2. \A a : <<a, c>> \notin disk.member
    BY <1>1, <2>1 DEF IInv, Discipline, ForeignKeys, Referred, Clusters
  <2> QED
    BY <1>1, <1>2, <2>2 DEF Members
<1>5. Shown(work', c)
  <2>1. work'.cluster[c].title = k.art /\ work'.cluster[c].sources = 1
    BY <1>1, <1>2 DEF SeedMember, ShownInv, InHand
  <2>2. Headline(work', c) = {k.art}
    <3>1. article[k.art] \in Article
        BY <1>1, ArticleType DEF IInv
    <3>2. article[k.art].pub <= article[k.art].pub
        BY <3>1 DEF Article
    <3> QED
        BY <1>4, <3>2 DEF Headline
  <2>3. {article[a].src : a \in Members(work', c)} = {article[k.art].src}
    BY <1>4
  <2>4. DistinctSources(work', c) = 1
    BY <2>3, FS_Singleton DEF DistinctSources
  <2> QED
    BY <2>1, <2>2, <2>4 DEF Shown
<1> QED
    BY <1>1, <1>3, <1>5, ShownLocked DEF SeedMember

\* A step that leaves nothing in hand.
LEMMA ShownReleased ==
    ASSUME IInv, IInv', ShownInv, UNCHANGED <<article, disk>>, writer' = NoOne
    PROVE  ShownInv'
<1>1. \A q \in Proc : at'[q] \notin Writing
    BY ProcAssumption DEF IInv, Discipline, Placing
<1> QED
    BY <1>1, ShownKept DEF ShownInv

LEMMA ShownUnlocked ==
    ASSUME IInv, IInv', ShownInv, NEW p \in Proc, UNCHANGED <<article, disk, work, writer>>,
           Elsewhere(p), writer # p
    PROVE  ShownInv'
<1> SUFFICES ASSUME NEW q \in Proc, at'[q] \in Writing PROVE InHand(q)'
    BY ShownKept DEF ShownInv
<1>1. q # p /\ at[q] \in Writing /\ pick'[q] = pick[q] /\ at'[q] = at[q]
    BY DEF Elsewhere, IInv, Discipline, Placing
<1>2. InHand(q)
    BY <1>1 DEF ShownInv
<1>3. \A d : Shown(work, d) => Shown(work, d)'
  <2>1. \A d : Shown(work, d) => Shown(work', d)
    OBVIOUS
  <2> QED
    BY <2>1, ShownWork
<1> QED
    BY <1>1, <1>2, <1>3 DEF InHand, Clusters

LEMMA ShownCommit ==
    ASSUME IInv, IInv', ShownInv, NEW p \in Proc, Commit(p) PROVE ShownInv'
<1>1. \A q \in Proc : at'[q] \notin Writing
    BY ProcAssumption DEF Commit, IInv, Discipline, Placing
<1>2. InHand(p) /\ at[p] = "commit"
    BY DEF Commit, ShownInv, Writing
<1>3. \A c \in Clusters(work) : Shown(work, c)
    BY <1>2 DEF InHand
<1>4. (\A c \in Clusters(disk) : Shown(disk, c))'
  <2> SUFFICES ASSUME NEW c \in Clusters(disk)' PROVE Shown(disk, c)'
    OBVIOUS
  <2>1. Shown(work, c) /\ disk' = work /\ UNCHANGED article
    BY <1>3 DEF Commit, Clusters
  <2>2. Members(disk, c)' = Members(work, c)
    BY <2>1 DEF Members, Ids
  <2>3. Headline(disk, c)' = Headline(work, c)
    BY <2>1, <2>2 DEF Headline
  <2>4. DistinctSources(disk, c)' = DistinctSources(work, c)
    BY <2>1, <2>2 DEF DistinctSources
  <2> QED
    BY <2>1, <2>3, <2>4 DEF Shown
<1> QED
    BY <1>1, <1>4 DEF ShownInv

LEMMA ShownStep ==
    ASSUME RunProc = {}, IInv, IInv', ShownInv, [Next]_vars PROVE ShownInv'
<1>1. CASE Arrive
    BY <1>1, ShownArrive
<1>2. ASSUME NEW p \in Proc, Begin(p) \/ Select(p) \/ OutOfRange(p) \/ JoinRefused(p) PROVE ShownInv'
  <2>1. Elsewhere(p) /\ UNCHANGED <<article, disk, work, writer>>
    BY <1>2 DEF Begin, Select, OutOfRange, JoinRefused, Elsewhere, IInv, Typed
  <2>2. writer # p
    BY <1>2 DEF Begin, Select, OutOfRange, JoinRefused, IInv, Discipline, Placing, Writing
  <2> QED
    BY <2>1, <2>2, ShownUnlocked
<1>3. ASSUME NEW p \in Proc, Kill(p) PROVE ShownInv'
  <2>1. CASE writer = p
    BY <1>3, <2>1, ShownReleased DEF Kill, Ends
  <2>2. CASE writer # p
    BY <1>3, <2>2, ShownUnlocked DEF Kill, Ends, Elsewhere, IInv, Typed
  <2> QED
    BY <2>1, <2>2
<1>4. ASSUME NEW p \in Proc, Raise(p) PROVE ShownInv'
    BY <1>4, ShownReleased DEF Raise, Ends
<1>5. CASE UNCHANGED vars
  <2>1. CASE writer \in Proc
    <3>1. \A q \in Proc : at'[q] \in Writing => InHand(q)'
      <4> SUFFICES ASSUME NEW q \in Proc, at'[q] \in Writing PROVE InHand(q)'
        OBVIOUS
      <4>1. InHand(q)
        BY <1>5 DEF vars, ShownInv
      <4>2. \A d : Shown(work, d) => Shown(work, d)'
        BY <1>5, ShownWork DEF vars
      <4> QED
        BY <1>5, <4>1, <4>2 DEF vars, InHand, Clusters
    <3> QED
      BY <1>5, <3>1, ShownKept DEF vars, ShownInv
  <2>2. CASE writer = NoOne
    BY <1>5, <2>2, ShownReleased DEF vars
  <2> QED
    BY <2>1, <2>2 DEF IInv, Typed
<1> QED
    BY <1>1, <1>2, <1>3, <1>4, <1>5, ShownJoinMember, ShownJoinCount, ShownJoinTitle,
       ShownSeedCluster, ShownSeedMember, ShownCommit DEF Next, Step

\* FR-506 and FR-507 for every number of concurrent clusterers outside
\* pipeline.run's handlers: what the page shows of a committed cluster, its
\* title and its distinct-source count, agrees with its membership.
THEOREM DisplayCorrect ==
    ASSUME RunProc = {}
    PROVE  Spec => []DisplayAgrees
<1>1. Init => ShownInv
    BY DEF Init, ShownInv, Clusters, Writing
<1>2. IInv /\ IInv' /\ ShownInv /\ [Next]_vars => ShownInv'
    BY ShownStep
<1>3. ShownInv => DisplayAgrees
    BY DEF ShownInv, Shown, DisplayAgrees
<1> QED
    BY <1>1, <1>2, <1>3, Invariance, PTL DEF Spec

-----------------------------------------------------------------------------
(***************************************************************************)
(* Sums of embeddings.  VectorSum takes the terms one at a time in an      *)
(* order of CHOOSE; Folded is the function its LET defines, over the       *)
(* vectors of a sequence of articles.                                      *)
(***************************************************************************)
First(s) == CHOOSE x \in s : TRUE

Folded(g, seq, D) ==
    g = [s \in D |-> IF s = {} THEN <<0, 0>>
                     ELSE Plus(seq[First(s)].vec, g[s \ {First(s)}])]

Total(seq, S) == (CHOOSE g : Folded(g, seq, SUBSET S))[S]

LEMMA SumIsTotal ==
    ASSUME NEW seq, NEW S
    PROVE  VectorSum(LAMBDA a : seq[a].vec, S) = Total(seq, S)
    BY DEF VectorSum, MapThenFoldSet, Total, Folded, First

\* Among the subsets of a finite set with some property there is a minimal
\* one: what induction on the size of a sum amounts to.
LEMMA MinimalSubset ==
    ASSUME NEW U, IsFiniteSet(U), NEW C \in SUBSET SUBSET U, C # {}
    PROVE  \E T \in C : \A s \in C : s \subseteq T => s = T
<1>1. C \subseteq FiniteSubsetsOf(U)
    BY FS_FiniteSubsetsOfFinite
<1>2. PICK T \in C : \A s \in C : <<s, T>> \notin StrictSubsetOrdering(U)
    BY <1>1, FS_StrictSubsetOrderingWellFounded, WFMin, Zenon
<1> QED
    BY <1>2 DEF StrictSubsetOrdering

\* Of the elements of a finite set some is beaten by none.
LEMMA Unbeaten ==
    ASSUME NEW S, IsFiniteSet(S), S # {}, NEW R,
           \A x \in S : <<x, x>> \notin R,
           \A x, y, z \in S : <<x, y>> \in R /\ <<y, z>> \in R => <<x, z>> \in R
    PROVE  \E x \in S : \A y \in S : <<y, x>> \notin R
<1> DEFINE best(T) == \E x \in T : \A y \in T : <<y, x>> \notin R
           bad == {T \in SUBSET S : T # {} /\ ~best(T)}
<1> SUFFICES ASSUME bad # {} PROVE FALSE
  <2>1. S \notin bad
    OBVIOUS
  <2> QED
    BY <2>1
<1>1. PICK T \in bad : \A r \in bad : r \subseteq T => r = T
  <2>1. bad \in SUBSET SUBSET S
    OBVIOUS
  <2> HIDE DEF bad
  <2> QED
    BY <2>1, MinimalSubset
<1>2. PICK x \in T : TRUE
    OBVIOUS
<1>3. T \ {x} # {} /\ T \ {x} \notin bad /\ x \in S
  <2>1. T \in SUBSET S /\ T # {} /\ ~best(T)
    BY <1>1
  <2>2. ASSUME T = {x} PROVE FALSE
    <3>1. \A y \in T : <<y, x>> \notin R
        BY <2>1, <2>2
    <3> QED
        BY <1>2, <2>1, <3>1
  <2>3. T \ {x} \notin bad
    <3>1. T \ {x} \subseteq T /\ T \ {x} # T
        BY <1>2
    <3> HIDE DEF bad
    <3> QED
        BY <1>1, <3>1
  <2> QED
    BY <1>2, <2>1, <2>2, <2>3
<1>4. PICK c \in T \ {x} : \A d \in T \ {x} : <<d, c>> \notin R
    BY <1>1, <1>3
<1>5. CASE <<x, c>> \notin R
  <2>1. best(T)
    BY <1>2, <1>4, <1>5
  <2> QED
    BY <1>1, <2>1
<1>6. CASE <<x, c>> \in R
  <2>1. \A d \in T \ {x} : <<d, x>> \notin R
    BY <1>1, <1>3, <1>4, <1>6
  <2>2. best(T)
    BY <1>2, <1>3, <2>1
  <2> QED
    BY <1>1, <2>2
<1> QED
    BY <1>5, <1>6

LEMMA FirstIn == ASSUME NEW s, s # {} PROVE First(s) \in s
    BY DEF First

Alike(seq1, seq2, S) == \A a \in S : seq1[a].vec = seq2[a].vec

LEMMA FoldsAgree ==
    ASSUME NEW seq1, NEW seq2, NEW S, IsFiniteSet(S), Alike(seq1, seq2, S),
           NEW T1, NEW T2, S \subseteq T1, S \subseteq T2,
           NEW g1, NEW g2, Folded(g1, seq1, SUBSET T1), Folded(g2, seq2, SUBSET T2)
    PROVE  g1[S] = g2[S]
<1> DEFINE C == {s \in SUBSET S : g1[s] # g2[s]}
<1> SUFFICES ASSUME C # {} PROVE FALSE
    OBVIOUS
<1>1. PICK s \in C : \A t \in C : t \subseteq s => t = s
  <2> HIDE DEF C
  <2>1. C \in SUBSET SUBSET S
    BY DEF C
  <2> QED
    BY <2>1, MinimalSubset
<1>2. /\ g1[s] = IF s = {} THEN <<0, 0>> ELSE Plus(seq1[First(s)].vec, g1[s \ {First(s)}])
      /\ g2[s] = IF s = {} THEN <<0, 0>> ELSE Plus(seq2[First(s)].vec, g2[s \ {First(s)}])
    BY DEF Folded
<1>3. s # {}
    BY <1>2
<1>4. First(s) \in s
    BY <1>3, FirstIn
<1>5. g1[s \ {First(s)}] = g2[s \ {First(s)}]
    BY <1>1, <1>4
<1> QED
    BY <1>2, <1>3, <1>4, <1>5 DEF Alike

LEMMA FoldsAgreeWithin ==
    ASSUME NEW seq, NEW S, IsFiniteSet(S), NEW T, S \subseteq T,
           NEW g, NEW h, Folded(g, seq, SUBSET T), Folded(h, seq, SUBSET S)
    PROVE  g[S] = h[S]
<1>1. \A seq2, T2, f : S \subseteq T2 /\ Alike(seq, seq2, S) /\ Folded(f, seq2, SUBSET T2)
        => g[S] = f[S]
    BY FoldsAgree
<1>2. Alike(seq, seq, S)
    BY DEF Alike
<1>3. S \subseteq S
    OBVIOUS
<1> QED
    BY <1>1, <1>2, <1>3

LEMMA TotalStep ==
    ASSUME NEW seq, NEW S, IsFiniteSet(S), S # {},
           \E g : Folded(g, seq, SUBSET S),
           \E g : Folded(g, seq, SUBSET (S \ {First(S)}))
    PROVE  Total(seq, S) = Plus(seq[First(S)].vec, Total(seq, S \ {First(S)}))
<1> DEFINE R == S \ {First(S)}
           g == CHOOSE f : Folded(f, seq, SUBSET S)
           h == CHOOSE f : Folded(f, seq, SUBSET R)
<1>1. Folded(g, seq, SUBSET S) /\ Folded(h, seq, SUBSET R)
    OBVIOUS
<1>2. Total(seq, S) = g[S] /\ Total(seq, R) = h[R]
    BY DEF Total
<1> HIDE DEF g, h
<1>3. g[S] = Plus(seq[First(S)].vec, g[R])
    BY <1>1 DEF Folded
<1>4. IsFiniteSet(R)
    BY FS_Subset
<1>5. R \subseteq S
    OBVIOUS
<1>6. g[R] = h[R]
  <2> HIDE DEF R
  <2> QED
    BY <1>1, <1>4, <1>5, FoldsAgreeWithin
<1> QED
    BY <1>2, <1>3, <1>6

LEMMA TotalOfNone == ASSUME NEW seq PROVE Total(seq, {}) = <<0, 0>>
<1>1. Folded([s \in {{}} |-> <<0, 0>>], seq, SUBSET {})
    BY DEF Folded
<1>2. Folded(CHOOSE g : Folded(g, seq, SUBSET {}), seq, SUBSET {})
    BY <1>1
<1> QED
    BY <1>2 DEF Total, Folded

LEMMA FoldExists ==
    ASSUME NEW seq, NEW S, IsFiniteSet(S)
    PROVE  \E g : Folded(g, seq, SUBSET S)
<1> DEFINE C == {s \in SUBSET S : ~\E g : Folded(g, seq, SUBSET s)}
<1> SUFFICES ASSUME C # {} PROVE FALSE
    OBVIOUS
<1>1. PICK T \in C : \A s \in C : s \subseteq T => s = T
  <2> HIDE DEF C
  <2>1. C \in SUBSET SUBSET S
    BY DEF C
  <2> QED
    BY <2>1, MinimalSubset
<1>2. \A s \in SUBSET T : s # T => \E g : Folded(g, seq, SUBSET s)
    BY <1>1
<1> DEFINE v(s) == IF s = {} THEN <<0, 0>> ELSE Plus(seq[First(s)].vec, Total(seq, s \ {First(s)}))
           g == [s \in SUBSET T |-> v(s)]
<1>3. ASSUME NEW s \in SUBSET T, s # T PROVE Total(seq, s) = v(s)
  <2>1. CASE s = {}
    BY <2>1, TotalOfNone
  <2>2. CASE s # {}
    <3>1. First(s) \in s
        BY <2>2, FirstIn
    <3>2. s \ {First(s)} \in SUBSET T /\ s \ {First(s)} # T
        BY <3>1
    <3>3. IsFiniteSet(s)
        BY FS_Subset
    <3> QED
        BY <1>2, <1>3, <2>2, <3>2, <3>3, TotalStep
  <2> QED
    BY <2>1, <2>2
<1>4. ASSUME NEW s \in SUBSET T, s # {} PROVE g[s] = Plus(seq[First(s)].vec, g[s \ {First(s)}])
  <2>1. First(s) \in s
    BY <1>4, FirstIn
  <2>2. s \ {First(s)} \in SUBSET T /\ s \ {First(s)} # T
    BY <2>1
  <2>3. Total(seq, s \ {First(s)}) = v(s \ {First(s)})
    BY <1>3, <2>2
  <2> QED
    BY <1>4, <2>2, <2>3
<1>5. g[{}] = <<0, 0>>
    OBVIOUS
<1>6. Folded(g, seq, SUBSET T)
  <2>1. \A s \in SUBSET T : g[s] = IF s = {} THEN <<0, 0>>
                                   ELSE Plus(seq[First(s)].vec, g[s \ {First(s)}])
    BY <1>4, <1>5
  <2>2. g = [s \in SUBSET T |-> g[s]]
    OBVIOUS
  <2> HIDE DEF g
  <2> QED
    BY <2>1, <2>2 DEF Folded
<1> QED
    BY <1>1, <1>6

\* The sum over a set is that of any one of its elements and the rest.
LEMMA TotalTypeOf ==
    ASSUME NEW seq, NEW S, IsFiniteSet(S), \A a \in S : seq[a].vec \in Vector
    PROVE  Total(seq, S) \in Vector
<1> DEFINE C == {s \in SUBSET S : Total(seq, s) \notin Vector}
<1> SUFFICES ASSUME C # {} PROVE FALSE
    OBVIOUS
<1>1. PICK s \in C : \A t \in C : t \subseteq s => t = s
  <2> HIDE DEF C
  <2>1. C \in SUBSET SUBSET S
    BY DEF C
  <2> QED
    BY <2>1, MinimalSubset
<1>2. <<0, 0>> \in Vector
    BY DEF Vector
<1>3. s # {}
    BY <1>2, TotalOfNone
<1>4. First(s) \in s
    BY <1>3, FirstIn
<1>5. Total(seq, s \ {First(s)}) \in Vector
    BY <1>1, <1>4
<1>6. IsFiniteSet(s) /\ IsFiniteSet(s \ {First(s)})
    BY FS_Subset
<1>7. Total(seq, s) = Plus(seq[First(s)].vec, Total(seq, s \ {First(s)}))
    BY <1>3, <1>6, TotalStep, FoldExists
<1> QED
    BY <1>4, <1>5, <1>7, PlusType

LEMMA PlusTwice ==
    ASSUME NEW u \in Vector, NEW v \in Vector, NEW w \in Vector
    PROVE  Plus(u, Plus(v, w)) = Plus(v, Plus(u, w)) /\ Plus(u, v) = Plus(v, u)
    BY DEF Plus, Vector

LEMMA TotalWithout ==
    ASSUME NEW seq, NEW S, IsFiniteSet(S), \A a \in S : seq[a].vec \in Vector, NEW a \in S
    PROVE  Total(seq, S) = Plus(seq[a].vec, Total(seq, S \ {a}))
<1> DEFINE good(s, b) == Total(seq, s) = Plus(seq[b].vec, Total(seq, s \ {b}))
           C == {s \in SUBSET S : \E b \in s : ~good(s, b)}
<1> SUFFICES ASSUME C # {} PROVE FALSE
    OBVIOUS
<1>1. PICK s \in C : \A t \in C : t \subseteq s => t = s
  <2> HIDE DEF C
  <2>1. C \in SUBSET SUBSET S
    BY DEF C
  <2> QED
    BY <2>1, MinimalSubset
<1>2. PICK b \in s : ~good(s, b)
    OBVIOUS
<1> DEFINE x == First(s)
           r == s \ {x, b}
<1>3. x \in s
    BY FirstIn
<1> HIDE DEF x
<1>4. IsFiniteSet(s) /\ IsFiniteSet(s \ {x}) /\ IsFiniteSet(r)
    BY FS_Subset
<1>5. good(s, x)
    BY <1>4, TotalStep, FoldExists DEF x
<1>6. x # b
    BY <1>2, <1>5
<1>7. Total(seq, s \ {x}) = Plus(seq[b].vec, Total(seq, r))
  <2>1. s \ {x} \notin C /\ b \in s \ {x} /\ s \ {x} \in SUBSET S
    BY <1>1, <1>3, <1>6
  <2>2. (s \ {x}) \ {b} = r
    OBVIOUS
  <2> QED
    BY <2>1, <2>2
<1>8. Total(seq, s \ {b}) = Plus(seq[x].vec, Total(seq, r))
  <2>1. s \ {b} \notin C /\ x \in s \ {b} /\ s \ {b} \in SUBSET S
    BY <1>1, <1>3, <1>6
  <2>2. (s \ {b}) \ {x} = r
    OBVIOUS
  <2> QED
    BY <2>1, <2>2
<1>9. seq[x].vec \in Vector /\ seq[b].vec \in Vector /\ Total(seq, r) \in Vector
  <2>1. \A c \in r : seq[c].vec \in Vector
    OBVIOUS
  <2> QED
    BY <1>3, <1>4, <2>1, TotalTypeOf
<1>10. Plus(seq[x].vec, Plus(seq[b].vec, Total(seq, r)))
        = Plus(seq[b].vec, Plus(seq[x].vec, Total(seq, r)))
    BY <1>9, PlusTwice
<1> QED
    BY <1>2, <1>5, <1>7, <1>8, <1>10

\* One more article, and articles told apart only outside the set.
LEMMA TotalWith ==
    ASSUME NEW seq, NEW S, IsFiniteSet(S), NEW a, a \notin S, \A b \in S \cup {a} : seq[b].vec \in Vector
    PROVE  Total(seq, S \cup {a}) = Plus(Total(seq, S), seq[a].vec)
<1>1. IsFiniteSet(S \cup {a}) /\ (S \cup {a}) \ {a} = S
    BY FS_AddElement
<1>2. Total(seq, S \cup {a}) = Plus(seq[a].vec, Total(seq, S))
    BY <1>1, TotalWithout
<1>3. Total(seq, S) \in Vector /\ seq[a].vec \in Vector
    BY TotalTypeOf
<1> QED
    BY <1>2, <1>3, PlusTwice

LEMMA TotalAgrees ==
    ASSUME NEW seq1, NEW seq2, NEW S, IsFiniteSet(S), Alike(seq1, seq2, S)
    PROVE  Total(seq1, S) = Total(seq2, S)
<1>1. /\ Folded(CHOOSE g : Folded(g, seq1, SUBSET S), seq1, SUBSET S)
      /\ Folded(CHOOSE g : Folded(g, seq2, SUBSET S), seq2, SUBSET S)
    BY FoldExists
<1> QED
    BY <1>1, FoldsAgree DEF Total
-----------------------------------------------------------------------------
(***************************************************************************)
(* One clusterer: what its transaction adds to the committed rows, and     *)
(* that the choice Select made still stands when the step is published.    *)
(***************************************************************************)
\* The rows at work are the committed ones but for the one in hand, which is
\* the committed one with the article added, or a new one for it alone.
Staged(p) ==
    LET k == pick[p]
        r == article[k.art]
        old == disk.cluster[k.into]
        new == work.cluster[k.into]
    IN
    /\ at[p] \in {"write", "count"} /\ k.into # 0 => k.sum = old.sum /\ k.count = old.count
    /\ at[p] \in Writing =>
        \A d \in Clusters(disk) \ {k.into} : work.cluster[d] = disk.cluster[d]
    /\ at[p] \in {"title", "commit"} /\ k.into \in Clusters(disk) =>
        /\ new.sum = Plus(old.sum, r.vec) /\ new.count = old.count + 1 /\ new.updated = r.pub
        /\ Len(work.cluster) = Len(disk.cluster)
    /\ at[p] \in {"member", "commit"} /\ k.into \notin Clusters(disk) =>
        /\ new.sum = r.vec /\ new.count = 1 /\ new.updated = r.pub
        /\ k.into = Len(disk.cluster) + 1 /\ Len(work.cluster) = Len(disk.cluster) + 1

\* The article in hand is the first of the pass, and goes where the committed
\* rows say it belongs.
Chosen(p) ==
    LET k == pick[p] IN
    at[p] \notin {"idle", "select"} =>
        /\ IsFirst(k.art, todo[p])
        /\ k.into \in Clusters(disk) => k.into \in Best(k.art)
        /\ k.into \notin Clusters(disk) => Best(k.art) = {}

StagedInv == \A p \in Proc : Staged(p) /\ Chosen(p)

LEMMA ChoiceKept ==
    ASSUME UNCHANGED disk, NEW a, NEW s, \A b \in s \cup {a} : article'[b] = article[b]
    PROVE  Best(a)' = Best(a) /\ (IsFirst(a, s)' <=> IsFirst(a, s))
<1>1. Active(a)' = Active(a)
    BY DEF Active, Clusters
<1>2. Best(a)' = Best(a)
    BY <1>1 DEF Best, Clusters
<1>3. \A b \in s : Before(a, b)' <=> Before(a, b)
    BY DEF Before
<1> QED
    BY <1>2, <1>3 DEF IsFirst

\* The choice outlives every step that leaves the tables and the article in
\* hand alone.
LEMMA ChosenKept ==
    ASSUME UNCHANGED <<article, disk>>, NEW p \in Proc, Chosen(p), todo'[p] = todo[p],
           at[p] \notin {"idle", "select"}, pick'[p].art = pick[p].art,
           pick'[p].into \in Clusters(disk) <=> pick[p].into \in Clusters(disk),
           pick[p].into \in Clusters(disk) => pick'[p].into = pick[p].into
    PROVE  Chosen(p)'
    BY DEF Chosen, IsFirst, Before, Best, Active, Clusters

LEMMA StagedIdle ==
    ASSUME Solo, NEW p \in Proc, at'[p] \in {"idle", "select"}
    PROVE  StagedInv'
    BY DEF Solo, StagedInv, Staged, Chosen, Writing

LEMMA StagedArrive == ASSUME IInv, StagedInv, Arrive PROVE StagedInv'
<1> SUFFICES ASSUME NEW p \in Proc PROVE Staged(p)' /\ Chosen(p)'
    BY DEF StagedInv
<1>1. at[p] \notin Writing /\ Staged(p) /\ Chosen(p) /\ Placing(p)
    BY ProcAssumption DEF Arrive, IInv, Discipline, Placing, StagedInv
<1>2. Staged(p)'
    BY <1>1 DEF Arrive, Staged, Writing
<1>3. CASE at[p] \in {"idle", "select"}
    BY <1>2, <1>3 DEF Arrive, Chosen
<1>4. CASE at[p] = "write"
  <2>1. PICK a, s : a = pick[p].art /\ s = todo[p]
    OBVIOUS
  <2>2. a \in s /\ s \subseteq Ids
    BY <1>1, <1>4, <2>1 DEF Placing, IInv, Typed
  <2>3. PICK r \in Arrivals : article' = Append(article, r)
    BY DEF Arrive
  <2>4. \A b \in s \cup {a} : article'[b] = article[b]
    BY <2>2, <2>3 DEF IInv, Typed, Ids
  <2>5. disk' = disk /\ pick' = pick /\ at' = at /\ todo' = todo
    BY DEF Arrive
  <2>6. Best(a)' = Best(a) /\ (IsFirst(a, s)' <=> IsFirst(a, s))
    BY <2>4, <2>5, ChoiceKept
  <2>7. Chosen(p)' <=> /\ IsFirst(a, s)'
                       /\ pick[p].into \in Clusters(disk) => pick[p].into \in Best(a)'
                       /\ pick[p].into \notin Clusters(disk) => Best(a)' = {}
    BY <1>4, <2>1, <2>5 DEF Chosen, IsFirst, Before, Best, Active, Clusters
  <2> QED
    BY <1>1, <1>2, <1>4, <2>1, <2>6, <2>7 DEF Chosen
<1> QED
    BY <1>1, <1>2, <1>3, <1>4 DEF IInv, Typed, Stages, Writing

LEMMA StagedSelect ==
    ASSUME Solo, IInv, NEW p \in Proc, Select(p)
    PROVE  StagedInv'
<1>1. PICK a \in todo[p] :
        /\ IsFirst(a, todo[p])
        /\ \/ /\ Best(a) = {}
              /\ pick' = [pick EXCEPT ![p] = [NoPick EXCEPT !.art = a]]
           \/ \E c \in Best(a) :
                pick' = [pick EXCEPT ![p] =
                    [art |-> a, into |-> c,
                     sum |-> disk.cluster[c].sum, count |-> disk.cluster[c].count]]
    BY DEF Select
<1>2. /\ at'[p] = "write" /\ UNCHANGED <<article, disk, todo>>
      /\ pick \in [Proc -> [art: Nat, into: Nat, sum: Vector, count: Nat]]
    BY DEF Select, IInv, Typed
<1>3. /\ pick'[p].art = a
      /\ \/ pick'[p].into = 0 /\ Best(a) = {}
         \/ /\ pick'[p].into \in Best(a)
            /\ pick'[p].sum = disk.cluster[pick'[p].into].sum
            /\ pick'[p].count = disk.cluster[pick'[p].into].count
    BY <1>1, <1>2 DEF NoPick
<1>4. 0 \notin Clusters(disk) /\ Best(a) \subseteq Clusters(disk)
    BY DEF Clusters, Best, Active
<1>5. Staged(p)'
    BY <1>2, <1>3 DEF Staged, Writing
<1>6. Chosen(p)'
  <2>1. Chosen(p)' <=> /\ IsFirst(a, todo[p])
                       /\ pick'[p].into \in Clusters(disk) => pick'[p].into \in Best(a)
                       /\ pick'[p].into \notin Clusters(disk) => Best(a) = {}
    BY <1>2, <1>3 DEF Chosen, IsFirst, Before, Best, Active, Clusters
  <2> QED
    BY <1>1, <1>3, <1>4, <2>1
<1> QED
    BY <1>5, <1>6 DEF Solo, StagedInv

LEMMA StagedJoinMember ==
    ASSUME Solo, IInv, StagedInv, NEW p \in Proc, JoinMember(p)
    PROVE  StagedInv'
<1>1. /\ at[p] = "write" /\ at'[p] = "count" /\ pick' = pick /\ todo' = todo
      /\ UNCHANGED <<article, disk>> /\ work'.cluster = disk.cluster
    BY DEF JoinMember, IInv, Typed, Tables
<1>2. Staged(p)'
    BY <1>1 DEF JoinMember, StagedInv, Staged
<1>3. Chosen(p)'
    BY <1>1, ChosenKept DEF StagedInv
<1> QED
    BY <1>2, <1>3 DEF Solo, StagedInv

LEMMA StagedJoinCount ==
    ASSUME Solo, IInv, StagedInv, NEW p \in Proc, JoinCount(p)
    PROVE  StagedInv'
<1> DEFINE k == pick[p]
           row == JoinedRow(work.cluster[k.into], k)
<1>1. /\ at[p] = "count" /\ at'[p] = "title" /\ pick' = pick /\ todo' = todo
      /\ UNCHANGED <<article, disk>>
      /\ work' = [work EXCEPT !.cluster[k.into] = row] /\ work \in Tables
      /\ k.into \in Clusters(disk) /\ Len(work.cluster) = Len(disk.cluster)
    BY DEF JoinCount, IInv, Typed, Discipline, Placing
<1>2. /\ work'.cluster = [work.cluster EXCEPT ![k.into] = row]
      /\ work.cluster \in Seq(Row) /\ k.into \in 1 .. Len(work.cluster) /\ k.into # 0
  <2> HIDE DEF row
  <2> QED
    BY <1>1 DEF Tables, Clusters
<1>3. DOMAIN work.cluster = 1 .. Len(work.cluster) /\ work.cluster[k.into] \in Row
    BY <1>2, LenProperties, ElementOfSeq
<1>4. /\ row.sum = Plus(k.sum, article[k.art].vec)
      /\ row.count = k.count + 1 /\ row.updated = article[k.art].pub
    BY <1>3 DEF JoinedRow, Row
<1>5. k.sum = disk.cluster[k.into].sum /\ k.count = disk.cluster[k.into].count
    BY <1>1, <1>2 DEF StagedInv, Staged
<1>6. \A d \in Clusters(disk) \ {k.into} : work.cluster[d] = disk.cluster[d]
    BY <1>1 DEF StagedInv, Staged, Writing
<1>7. Len(work'.cluster) = Len(work.cluster)
  <2>1. DOMAIN work'.cluster = DOMAIN work.cluster
    BY <1>2
  <2>2. work' \in Tables
    BY <1>1, NextInv DEF JoinCount, IInv, Typed, Next, Step
  <2>3. work'.cluster \in Seq(Row)
    BY <2>2 DEF Tables
  <2> QED
    BY <1>2, <2>1, <2>3, LenProperties
<1>8. work'.cluster[k.into] = row /\ \A d \in Clusters(disk) \ {k.into} : work'.cluster[d] = work.cluster[d]
  <2> HIDE DEF row
  <2> QED
    BY <1>1, <1>2, <1>3 DEF Clusters
<1> HIDE DEF row
<1>9. Staged(p)'
    BY <1>1, <1>4, <1>5, <1>6, <1>7, <1>8 DEF Staged
<1>10. Chosen(p)'
    BY <1>1, ChosenKept DEF StagedInv
<1> QED
    BY <1>9, <1>10 DEF Solo, StagedInv

LEMMA StagedJoinTitle ==
    ASSUME Solo, IInv, IInv', StagedInv, NEW p \in Proc, JoinTitle(p)
    PROVE  StagedInv'
<1> DEFINE c == pick[p].into
<1>1. PICK t \in Headline(work, c) :
        work' = [work EXCEPT !.cluster[c] =
                    [@ EXCEPT !.title = t, !.sources = DistinctSources(work, c)]]
    BY DEF JoinTitle
<1> DEFINE row == [work.cluster[c] EXCEPT !.title = t, !.sources = DistinctSources(work, c)]
<1>2. /\ at[p] = "title" /\ at'[p] = "commit" /\ pick' = pick /\ todo' = todo
      /\ UNCHANGED <<article, disk>> /\ work \in Tables /\ work' \in Tables
      /\ c \in Clusters(disk) /\ Len(work.cluster) = Len(disk.cluster)
    BY DEF JoinTitle, IInv, Typed, Discipline, Placing
<1>3. work.cluster \in Seq(Row) /\ work'.cluster \in Seq(Row) /\ c \in 1 .. Len(work.cluster)
    BY <1>2 DEF Tables, Clusters
<1>4. work'.cluster = [work.cluster EXCEPT ![c] = row]
  <2>1. work' = [work EXCEPT !.cluster[c] = row]
    BY <1>1
  <2> HIDE DEF row
  <2> QED
    BY <1>2, <2>1 DEF Tables
<1>5. work.cluster[c] \in Row
    BY <1>3, ElementOfSeq
<1>6. row.sum = work.cluster[c].sum /\ row.count = work.cluster[c].count
      /\ row.updated = work.cluster[c].updated
    BY <1>5 DEF Row
<1> HIDE DEF row
<1>7. /\ Len(work'.cluster) = Len(work.cluster)
      /\ work'.cluster[c] = row
      /\ \A d \in Clusters(disk) \ {c} : work'.cluster[d] = work.cluster[d]
    BY <1>2, <1>3, <1>4, LenProperties DEF Clusters
<1>8. Staged(p)
    BY DEF StagedInv
<1>9. Staged(p)'
    BY <1>2, <1>6, <1>7, <1>8 DEF Staged, Writing
<1>10. Chosen(p)'
    BY <1>2, ChosenKept DEF StagedInv
<1> QED
    BY <1>9, <1>10 DEF Solo, StagedInv

LEMMA StagedSeedCluster ==
    ASSUME Solo, IInv, StagedInv, NEW p \in Proc, SeedCluster(p)
    PROVE  StagedInv'
<1> DEFINE k == pick[p]
           r == article[k.art]
           row == [sum |-> r.vec, count |-> 1, title |-> k.art, sources |-> 1,
                   created |-> r.pub, updated |-> r.pub]
           n == Len(disk.cluster) + 1
<1>1. /\ at[p] = "write" /\ at'[p] = "member" /\ todo' = todo /\ k.into = 0
      /\ pick'[p].into = n /\ pick'[p].art = k.art
      /\ UNCHANGED <<article, disk>> /\ disk \in Tables /\ k.art \in Ids
      /\ work' = [disk EXCEPT !.cluster = Append(disk.cluster, row)]
    BY DEF SeedCluster, IInv, Typed, Discipline, Placing
<1>2. row \in Row
    BY <1>1, ArticleType DEF IInv, Article, Row
<1>3. /\ row.sum = r.vec /\ row.count = 1 /\ row.updated = r.pub
    OBVIOUS
<1> HIDE DEF row
<1>4. disk.cluster \in Seq(Row) /\ Len(disk.cluster) \in Nat
      /\ work'.cluster = Append(disk.cluster, row)
    BY <1>1 DEF Tables
<1>5. /\ Len(work'.cluster) = n /\ work'.cluster[n] = row
      /\ \A d \in Clusters(disk) : work'.cluster[d] = disk.cluster[d]
    BY <1>2, <1>4 DEF Clusters
<1>6. 0 \notin Clusters(disk) /\ n \notin Clusters(disk)
    BY <1>4 DEF Clusters
<1>7. Staged(p)'
    BY <1>1, <1>3, <1>5, <1>6 DEF Staged, Writing, Clusters
<1>8. Chosen(p)'
    BY <1>1, <1>6, ChosenKept DEF StagedInv
<1> QED
    BY <1>7, <1>8 DEF Solo, StagedInv

LEMMA StagedSeedMember ==
    ASSUME Solo, IInv, StagedInv, NEW p \in Proc, SeedMember(p)
    PROVE  StagedInv'
<1>1. /\ at[p] = "member" /\ at'[p] = "commit" /\ pick' = pick /\ todo' = todo
      /\ UNCHANGED <<article, disk>> /\ work'.cluster = work.cluster
      /\ pick[p].into = Len(disk.cluster) + 1 /\ Len(disk.cluster) \in Nat
    BY LenProperties DEF SeedMember, IInv, Typed, Tables, Discipline, Placing
<1>2. Staged(p) /\ pick[p].into \notin Clusters(disk)
    BY <1>1 DEF StagedInv, Clusters
<1>3. Staged(p)'
    BY <1>1, <1>2 DEF Staged, Writing, Clusters
<1>4. Chosen(p)'
    BY <1>1, ChosenKept DEF StagedInv
<1> QED
    BY <1>3, <1>4 DEF Solo, StagedInv

LEMMA StagedNext ==
    ASSUME Solo, IInv, IInv', StagedInv, [Next]_vars
    PROVE  StagedInv'
<1>1. CASE Arrive
    BY <1>1, StagedArrive
<1>2. ASSUME NEW p \in Proc,
             Begin(p) \/ OutOfRange(p) \/ JoinRefused(p) \/ Commit(p) \/ Kill(p) \/ Raise(p)
      PROVE  StagedInv'
  <2>1. at'[p] \in {"idle", "select"}
    BY <1>2 DEF Begin, OutOfRange, JoinRefused, Commit, Kill, Raise, Ends, IInv, Typed
  <2> QED
    BY <2>1, StagedIdle
<1>3. CASE UNCHANGED vars
    BY <1>3 DEF vars, StagedInv, Staged, Chosen, IsFirst, Before, Best, Active, Clusters
<1> QED
    BY <1>1, <1>2, <1>3, StagedSelect, StagedJoinMember, StagedJoinCount, StagedJoinTitle,
       StagedSeedCluster, StagedSeedMember DEF Next, Step

\* What a commit makes of the committed rows.
LEMMA Published ==
    ASSUME IInv, SoloInv, StagedInv, NEW p \in Proc, Commit(p)
    PROVE  LET k == pick[p]
               r == article[k.art]
               old == disk.cluster[k.into]
               new == disk'.cluster[k.into]
           IN
           /\ k.art \in Ids /\ \A c : <<k.art, c>> \notin disk.member
           /\ IsFirst(k.art, todo[p])
           /\ disk'.member = disk.member \cup {<<k.art, k.into>>}
           /\ Clusters(disk') = Clusters(disk) \cup {k.into}
           /\ \A d \in Clusters(disk) \ {k.into} : disk'.cluster[d] = disk.cluster[d]
           /\ k.into \in Clusters(disk) =>
                /\ k.into \in Best(k.art) /\ Len(disk'.cluster) = Len(disk.cluster)
                /\ new.sum = Plus(old.sum, r.vec) /\ new.count = old.count + 1 /\ new.updated = r.pub
           /\ k.into \notin Clusters(disk) =>
                /\ Best(k.art) = {}
                /\ k.into = Len(disk.cluster) + 1 /\ Len(disk'.cluster) = Len(disk.cluster) + 1
                /\ new.sum = r.vec /\ new.count = 1 /\ new.updated = r.pub
<1>1. at[p] = "commit" /\ disk' = work /\ Len(disk.cluster) \in Nat
    BY LenProperties DEF Commit, IInv, Typed, Tables
<1>2. Placing(p) /\ Staged(p) /\ Chosen(p)
    BY DEF IInv, Discipline, StagedInv
<1>3. pick[p].art \in todo[p] /\ todo[p] \subseteq Ids
    BY <1>1, <1>2 DEF Placing, Writing, IInv, Typed
<1>4. \A c : <<pick[p].art, c>> \notin disk.member
    BY <1>3 DEF SoloInv, Unplaced
<1>5. pick[p].into \in Clusters(disk) => Len(disk'.cluster) = Len(disk.cluster)
    BY <1>1, <1>2 DEF Staged
<1>6. pick[p].into \notin Clusters(disk) =>
        pick[p].into = Len(disk.cluster) + 1 /\ Len(disk'.cluster) = Len(disk.cluster) + 1
    BY <1>1, <1>2 DEF Staged
<1>7. Clusters(disk') = Clusters(disk) \cup {pick[p].into}
    BY <1>1, <1>5, <1>6 DEF Clusters
<1>8. disk'.member = disk.member \cup {<<pick[p].art, pick[p].into>>}
    BY <1>1, <1>2 DEF Placing
<1> QED
    BY <1>1, <1>2, <1>3, <1>4, <1>5, <1>6, <1>7, <1>8 DEF Staged, Chosen, Writing

-----------------------------------------------------------------------------
(***************************************************************************)
(* One clusterer: the stored mean and count.                               *)
(***************************************************************************)
LEMMA MembersFinite ==
    ASSUME Typed, NEW db, NEW c
    PROVE  /\ IsFiniteSet(Members(db, c))
           /\ \A a \in Members(db, c) : article[a].vec \in Vector
<1>1. IsFiniteSet(1 .. Len(article))
    BY FS_Interval DEF Typed
<1>2. IsFiniteSet(Members(db, c))
    BY <1>1, FS_Subset DEF Members, Ids
<1> QED
    BY <1>2, ArticleType DEF Members, Article

Summed ==
    \A c \in Clusters(disk) :
        /\ disk.cluster[c].count = Cardinality(Members(disk, c))
        /\ disk.cluster[c].sum = Total(article, Members(disk, c))

LEMMA SummedKept ==
    ASSUME Summed, UNCHANGED <<article, disk>>
    PROVE  Summed'
<1>1. \A c : Members(disk, c)' = Members(disk, c)
    BY DEF Members, Ids
<1>2. \A c : Total(article, Members(disk, c))' = Total(article, Members(disk, c))
    BY <1>1 DEF Total, Folded
<1> QED
    BY <1>1, <1>2 DEF Summed, Clusters

LEMMA SummedArrive == ASSUME IInv, Summed, Arrive PROVE Summed'
<1>1. PICK r \in Arrivals : article' = Append(article, r)
    BY DEF Arrive
<1>2. Ids \subseteq Ids' /\ \A a \in Ids : article'[a] = article[a]
    BY <1>1 DEF IInv, Typed, Ids
<1>3. disk' = disk
    BY DEF Arrive
<1>4. \A c : Members(disk, c)' = Members(disk, c)
    BY <1>2, <1>3 DEF Members, IInv, Discipline, ForeignKeys, Referred
<1>5. ASSUME NEW c PROVE Total(article, Members(disk, c))' = Total(article, Members(disk, c))
  <2>1. PICK old, new, M : old = article /\ new = article' /\ M = Members(disk, c)
    OBVIOUS
  <2>2. IsFiniteSet(M) /\ Alike(new, old, M)
    BY <2>1, <1>2, MembersFinite DEF IInv, Alike, Members
  <2>3. Total(new, M) = Total(old, M)
    BY <2>2, TotalAgrees
  <2>4. Total(article, Members(disk, c))' = Total(article', Members(disk, c)')
    BY DEF Total, Folded
  <2> QED
    BY <2>1, <2>3, <2>4, <1>4
<1> QED
    BY <1>3, <1>4, <1>5 DEF Summed, Clusters

LEMMA SummedCommit ==
    ASSUME IInv, SoloInv, StagedInv, Summed, NEW p \in Proc, Commit(p)
    PROVE  Summed'
<1> DEFINE k == pick[p]
<1>1. article' = article /\ Ids' = Ids
    BY DEF Commit, Ids
<1>2. PICK a, c : a = k.art /\ c = k.into
    OBVIOUS
<1>3. /\ a \in Ids /\ \A d : <<a, d>> \notin disk.member
      /\ disk'.member = disk.member \cup {<<a, c>>}
      /\ Clusters(disk') = Clusters(disk) \cup {c}
      /\ \A d \in Clusters(disk) \ {c} : disk'.cluster[d] = disk.cluster[d]
    BY <1>2, Published
<1>4. /\ c \in Clusters(disk) =>
            /\ disk'.cluster[c].sum = Plus(disk.cluster[c].sum, article[a].vec)
            /\ disk'.cluster[c].count = disk.cluster[c].count + 1
      /\ c \notin Clusters(disk) =>
            disk'.cluster[c].sum = article[a].vec /\ disk'.cluster[c].count = 1
    BY <1>2, Published
<1>5. \A d : Members(disk, d)' = IF d = c THEN Members(disk, d) \cup {a} ELSE Members(disk, d)
    BY <1>1, <1>3 DEF Members
<1>6. \A d, S : S = Members(disk, d)' => Total(article, Members(disk, d))' = Total(article, S)
    BY <1>1 DEF Total, Folded
<1>7. \A d : a \notin Members(disk, d)
    BY <1>3 DEF Members
<1>8. article[a].vec \in Vector
    BY <1>3, ArticleType DEF IInv, Article
<1>9. ASSUME NEW d \in Clusters(disk)'
      PROVE  /\ disk'.cluster[d].count = Cardinality(Members(disk, d)')
             /\ disk'.cluster[d].sum = Total(article, Members(disk, d)')
  <2>1. CASE d # c
    BY <2>1, <1>3, <1>5 DEF Summed, Clusters
  <2>2. PICK S : S = Members(disk, c)
    OBVIOUS
  <2>3. /\ IsFiniteSet(S) /\ a \notin S /\ \A b \in S \cup {a} : article[b].vec \in Vector
    BY <2>2, <1>7, <1>8, MembersFinite DEF IInv
  <2>4. /\ Cardinality(S \cup {a}) = Cardinality(S) + 1
        /\ Total(article, S \cup {a}) = Plus(Total(article, S), article[a].vec)
    BY <2>3, FS_AddElement, TotalWith
  <2>5. CASE d = c /\ c \in Clusters(disk)
    BY <2>2, <2>4, <2>5, <1>4, <1>5 DEF Summed
  <2>6. CASE d = c /\ c \notin Clusters(disk)
    <3>1. S = {}
        BY <2>2, <2>6 DEF Members, IInv, Discipline, ForeignKeys, Referred
    <3>2. Plus(Total(article, S), article[a].vec) = article[a].vec
        BY <3>1, <1>8, TotalOfNone DEF Plus, Vector
    <3>3. Cardinality(S) = 0
        BY <3>1, FS_EmptySet
    <3>4. Members(disk, d)' = S \cup {a}
        BY <2>2, <2>6, <1>5
    <3>5. disk'.cluster[d].sum = article[a].vec /\ disk'.cluster[d].count = 1
        BY <2>6, <1>4
    <3> QED
        BY <2>4, <3>2, <3>3, <3>4, <3>5
  <2> QED
    BY <2>1, <2>5, <2>6
<1> QED
    BY <1>6, <1>9 DEF Summed, Clusters

LEMMA SummedNext ==
    ASSUME RunProc = {}, IInv, SoloInv, StagedInv, Summed, [Next]_vars
    PROVE  Summed'
<1>1. CASE Arrive
    BY <1>1, SummedArrive
<1>2. ASSUME NEW p \in Proc, Commit(p) PROVE Summed'
    BY <1>2, SummedCommit
<1>3. ASSUME UNCHANGED <<article, disk>> PROVE Summed'
    BY <1>3, SummedKept
<1> QED
    BY <1>1, <1>2, <1>3 DEF Next, Step, Begin, Select, OutOfRange, JoinMember, JoinRefused, JoinCount,
       JoinTitle, SeedCluster, SeedMember, Kill, Raise, Ends, vars

\* Everything that is invariant of a single clusterer outside the handlers.
OneInv == IInv /\ SoloInv /\ StagedInv /\ Summed

LEMMA OneInit == Init => OneInv
    BY InitInv, SoloInit
    DEF Init, OneInv, StagedInv, Staged, Chosen, Writing, Summed, Clusters

LEMMA OneNext == ASSUME Solo, RunProc = {}, OneInv, [Next]_vars PROVE OneInv'
    BY NextInv, SoloNext, StagedNext, SummedNext DEF OneInv

\* FR-504 with a single clusterer outside pipeline.run's handlers, for every
\* corpus, window and number of kills: the stored count and mean are those of
\* the members.
THEOREM MeanIsOfMembers ==
    ASSUME Solo, RunProc = {}
    PROVE  Spec => []MeanAgrees
<1>1. OneInv /\ [Next]_vars => OneInv'
    BY OneNext
<1>2. OneInv => MeanAgrees
    BY SumIsTotal DEF OneInv, Summed, MeanAgrees
<1> QED
    BY <1>1, <1>2, OneInit, PTL DEF Spec

-----------------------------------------------------------------------------
(***************************************************************************)
(* One clusterer: the promise.  A commit is one placement, every other     *)
(* step but an arrival changes nothing committed.                          *)
(***************************************************************************)
Activity == [c \in Clusters(disk) |-> disk.cluster[c].updated]

LEMMA SameCentroid ==
    ASSUME NEW c
    PROVE  Promise!Centroid(c) = Total(article, Members(disk, c))
<1>1. Promise!Centroid(c) = VectorSum(LAMBDA a : article[a].vec, Members(disk, c))
    BY DEF Promise!Centroid, Promise!VectorSum, VectorSum, Promise!MapThenFoldSet, MapThenFoldSet,
           Promise!Ids, Ids, Promise!Plus, Plus, Members
<1> QED
    BY <1>1, SumIsTotal

LEMMA SameComparison ==
    ASSUME NEW v, NEW s, NEW t
    PROVE  (Promise!Matches(v, s) <=> Matches(v, s)) /\ (Promise!Closer(v, s, t) <=> Closer(v, s, t))
    BY DEF Promise!Matches, Matches, Promise!Closer, Closer, Promise!Dot, Dot

\* What Select reads from the rows is what the promise reads from the members.
LEMMA SameCandidates ==
    ASSUME Summed, NEW a
    PROVE  /\ \A c \in Clusters(disk) : Promise!Centroid(c) = disk.cluster[c].sum
           /\ Promise!Candidates(a) =
                {c \in Active(a) : Matches(article[a].vec, disk.cluster[c].sum)}
<1>1. \A c \in Clusters(disk) : Promise!Centroid(c) = disk.cluster[c].sum
    BY SameCentroid DEF Summed
<1> QED
    BY <1>1, SameComparison DEF Promise!Candidates, Promise!Clusters, Active

LEMMA SameChoice ==
    ASSUME Summed, NEW a
    PROVE  Best(a) = {c \in Promise!Candidates(a) :
                \A d \in Promise!Candidates(a) :
                    ~Promise!Closer(article[a].vec, Promise!Centroid(d), Promise!Centroid(c))}
<1>1. \A c \in Clusters(disk) : Promise!Centroid(c) = disk.cluster[c].sum
    BY SameCandidates
<1>2. Promise!Candidates(a) = {c \in Active(a) : Matches(article[a].vec, disk.cluster[c].sum)}
    BY SameCandidates
<1>3. Active(a) \subseteq Clusters(disk)
    BY DEF Active
<1> QED
    BY <1>1, <1>2, <1>3, SameComparison DEF Best

LEMMA ActivityIsSeq ==
    ASSUME NEW db \in Tables
    PROVE  LET s == [c \in Clusters(db) |-> db.cluster[c].updated] IN
           s \in Seq(Int) /\ Len(s) = Len(db.cluster) /\ DOMAIN s = Clusters(db)
<1> DEFINE s == [c \in Clusters(db) |-> db.cluster[c].updated]
<1>1. db.cluster \in Seq(Row) /\ Len(db.cluster) \in Nat
    BY LenProperties DEF Tables
<1>2. \A c \in Clusters(db) : db.cluster[c] \in Row
    BY <1>1, ElementOfSeq DEF Clusters
<1>3. \A r \in Row : r.updated \in Int
    BY DEF Row
<1>4. \A c \in Clusters(db) : db.cluster[c].updated \in Int
    BY <1>2, <1>3
<1>5. DOMAIN s = 1 .. Len(db.cluster) /\ s \in [1 .. Len(db.cluster) -> Int]
    BY <1>4 DEF Clusters
<1> HIDE DEF s
<1>6. s \in Seq(Int)
    BY <1>1, <1>5, SeqDef
<1>7. Len(s) = Len(db.cluster)
    BY <1>1, <1>5, <1>6, LenProperties
<1> QED
    BY <1>5, <1>6, <1>7 DEF s, Clusters

(***************************************************************************)
(* Among candidates there is always a closest one: cosine comparison, on   *)
(* the cleared fractions, is a strict order of vectors that match.         *)
(***************************************************************************)
LEMMA Ratios ==
    ASSUME NEW A \in Nat, NEW a \in Nat, NEW B \in Nat, NEW b \in Nat, NEW C \in Nat, NEW c \in Nat,
           a > 0, b > 0, c > 0, A * b > B * a, B * c > C * b
    PROVE  A * c > C * a
<1>1. c * (A * b) > c * (B * a) /\ a * (B * c) > a * (C * b)
  <2>1. \A x, y, z \in Nat : x > y /\ z > 0 => z * x > z * y
    OBVIOUS
  <2>2. A * b \in Nat /\ B * a \in Nat /\ B * c \in Nat /\ C * b \in Nat
    OBVIOUS
  <2> QED
    BY <2>1, <2>2
<1>2. /\ c * (A * b) = b * (A * c) /\ c * (B * a) = a * (B * c) /\ a * (C * b) = b * (C * a)
    OBVIOUS
<1>3. b * (A * c) > b * (C * a)
  <2>1. /\ c * (A * b) \in Nat /\ c * (B * a) \in Nat /\ a * (C * b) \in Nat
    OBVIOUS
  <2> QED
    BY <1>1, <1>2, <2>1
<1>4. A * c <= C * a => b * (A * c) <= b * (C * a)
  <2>1. \A x, y, z \in Nat : x <= y => z * x <= z * y
    OBVIOUS
  <2> QED
    BY <2>1
<1>5. A * c \in Nat /\ C * a \in Nat /\ b * (A * c) \in Nat /\ b * (C * a) \in Nat
    OBVIOUS
<1> QED
    BY <1>3, <1>4, <1>5

LEMMA MatchingNorm ==
    ASSUME NEW v \in Vector, NEW s \in Vector, Matches(v, s)
    PROVE  Dot(s, s) \in Nat /\ Dot(s, s) > 0 /\ Dot(v, s) * Dot(v, s) \in Nat
<1>1. /\ v[1] \in Nat /\ v[2] \in Nat /\ s[1] \in Nat /\ s[2] \in Nat
      /\ v[1] * s[1] + v[2] * s[2] > 0
    BY DEF Vector, Matches, Dot
<1>2. s[1] > 0 \/ s[2] > 0
    BY <1>1
<1>3. \A x, y \in Nat : x * y \in Nat
    OBVIOUS
<1> DEFINE x == s[1]
           y == s[2]
<1>4. x * x + y * y \in Nat /\ x * x + y * y > 0
  <2>1. \A n \in Nat : n * n \in Nat /\ (n > 0 => n * n > 0)
    OBVIOUS
  <2>2. x \in Nat /\ y \in Nat /\ (x > 0 \/ y > 0)
    BY <1>1, <1>2
  <2> HIDE DEF x, y
  <2>3. x * x \in Nat /\ y * y \in Nat /\ (x * x > 0 \/ y * y > 0)
    BY <2>1, <2>2
  <2> QED
    BY <2>3
<1>5. v[1] * s[1] + v[2] * s[2] \in Nat
    BY <1>1, <1>3
<1>6. (v[1] * s[1] + v[2] * s[2]) * (v[1] * s[1] + v[2] * s[2]) \in Nat
    BY <1>3, <1>5
<1> QED
    BY <1>4, <1>6 DEF Dot

LEMMA CloserTransitive ==
    ASSUME NEW v \in Vector, NEW s \in Vector, NEW t \in Vector, NEW u \in Vector,
           Matches(v, s), Matches(v, t), Matches(v, u), Closer(v, s, t), Closer(v, t, u)
    PROVE  Closer(v, s, u)
<1> DEFINE A == Dot(v, s) * Dot(v, s)
           a == Dot(s, s)
           B == Dot(v, t) * Dot(v, t)
           b == Dot(t, t)
           C == Dot(v, u) * Dot(v, u)
           c == Dot(u, u)
<1>1. /\ A \in Nat /\ a \in Nat /\ a > 0
      /\ B \in Nat /\ b \in Nat /\ b > 0
      /\ C \in Nat /\ c \in Nat /\ c > 0
    BY MatchingNorm
<1>2. A * b > B * a /\ B * c > C * b
    BY DEF Closer
<1>3. A * c > C * a
  <2> HIDE DEF A, a, B, b, C, c
  <2> QED
    BY <1>1, <1>2, Ratios
<1> QED
    BY <1>3 DEF Closer

\* A positive multiple of a vector.
Scaled(k, s) == <<k * s[1], k * s[2]>>

LEMMA DotScaled ==
    ASSUME NEW v \in Vector, NEW s \in Vector, NEW k \in Nat
    PROVE  /\ Dot(v, s) \in Nat /\ Dot(s, s) \in Nat
           /\ Dot(v, Scaled(k, s)) = k * Dot(v, s)
           /\ Dot(Scaled(k, s), Scaled(k, s)) = (k * k) * Dot(s, s)
<1>1. v[1] \in Nat /\ v[2] \in Nat /\ s[1] \in Nat /\ s[2] \in Nat
    BY DEF Vector
<1>2. ASSUME NEW a \in Nat, NEW b \in Nat, NEW x \in Nat, NEW y \in Nat
      PROVE  /\ a * x + b * y \in Nat /\ x * x + y * y \in Nat
             /\ a * (k * x) + b * (k * y) = k * (a * x + b * y)
             /\ (k * x) * (k * x) + (k * y) * (k * y) = (k * k) * (x * x + y * y)
    OBVIOUS
<1>3. Scaled(k, s)[1] = k * s[1] /\ Scaled(k, s)[2] = k * s[2]
    BY DEF Scaled
<1> QED
    BY <1>1, <1>2, <1>3 DEF Dot

LEMMA Cancels ==
    ASSUME NEW K \in Nat, K > 0, NEW x \in Nat, NEW y \in Nat
    PROVE  K * x > K * y <=> x > y
<1>1. x > y => K * x > K * y
    OBVIOUS
<1>2. x <= y => K * x <= K * y
    OBVIOUS
<1>3. K * x \in Nat /\ K * y \in Nat
    OBVIOUS
<1> QED
    BY <1>1, <1>2, <1>3

\* Vectors keeps a centroid as the sum it is the mean of: with any positive
\* multiple in its place an article matches the same clusters, and of two
\* the same is closer.
THEOREM SumStandsForMean ==
    ASSUME NEW v \in Vector, NEW s \in Vector, NEW t \in Vector,
           NEW j \in Nat \ {0}, NEW k \in Nat \ {0}
    PROVE  /\ Matches(v, Scaled(j, s)) <=> Matches(v, s)
           /\ Closer(v, Scaled(j, s), Scaled(k, t)) <=> Closer(v, s, t)
<1> DEFINE d == Dot(v, s)
           e == Dot(v, t)
           vv == Dot(v, v)
           ss == Dot(s, s)
           tt == Dot(t, t)
<1>1. /\ d \in Nat /\ e \in Nat /\ vv \in Nat /\ ss \in Nat /\ tt \in Nat
      /\ Dot(v, Scaled(j, s)) = j * d /\ Dot(Scaled(j, s), Scaled(j, s)) = (j * j) * ss
      /\ Dot(v, Scaled(k, t)) = k * e /\ Dot(Scaled(k, t), Scaled(k, t)) = (k * k) * tt
    BY DotScaled
<1> DEFINE J == j * j
           K == k * k
<1>2. /\ J \in Nat /\ J > 0 /\ K \in Nat /\ K > 0 /\ J * K \in Nat /\ J * K > 0
  <2>1. \A x, y \in Nat : x > 0 /\ y > 0 => x * y \in Nat /\ x * y > 0
    OBVIOUS
  <2>2. J \in Nat /\ J > 0 /\ K \in Nat /\ K > 0
    BY <2>1
  <2> HIDE DEF J, K
  <2> QED
    BY <2>1, <2>2
<1>3. Matches(v, Scaled(j, s)) <=> Matches(v, s)
  <2>1. j * d > 0 <=> d > 0
    BY <1>1
  <2>2. /\ 16 * (j * d) * (j * d) = J * (16 * d * d)
        /\ 9 * vv * (J * ss) = J * (9 * vv * ss)
        /\ 16 * d * d \in Nat /\ 9 * vv * ss \in Nat
    <3> HIDE DEF d, vv, ss
    <3> QED
        BY <1>1
  <2>3. J * (16 * d * d) > J * (9 * vv * ss) <=> 16 * d * d > 9 * vv * ss
    <3> HIDE DEF d, vv, ss, J
    <3> QED
        BY <1>2, <2>2, Cancels
  <2> QED
    BY <1>1, <2>1, <2>2, <2>3 DEF Matches
<1>4. Closer(v, Scaled(j, s), Scaled(k, t)) <=> Closer(v, s, t)
  <2>1. /\ (j * d) * (j * d) * (K * tt) = (J * K) * (d * d * tt)
        /\ (k * e) * (k * e) * (J * ss) = (J * K) * (e * e * ss)
        /\ d * d * tt \in Nat /\ e * e * ss \in Nat
    <3> HIDE DEF d, e, ss, tt
    <3> QED
        BY <1>1
  <2>2. (J * K) * (d * d * tt) > (J * K) * (e * e * ss) <=> d * d * tt > e * e * ss
    <3> HIDE DEF d, e, ss, tt, J, K
    <3> QED
        BY <1>2, <2>1, Cancels
  <2> QED
    BY <1>1, <2>1, <2>2 DEF Closer
<1> QED
    BY <1>3, <1>4
LEMMA ClosestExists ==
    ASSUME NEW v \in Vector, NEW S, IsFiniteSet(S), S # {}, NEW f,
           \A c \in S : f[c] \in Vector /\ Matches(v, f[c])
    PROVE  \E c \in S : \A d \in S : ~Closer(v, f[d], f[c])
<1> DEFINE R == {r \in S \X S : Closer(v, f[r[1]], f[r[2]])}
<1>1. ASSUME NEW x \in S PROVE <<x, x>> \notin R
  <2>1. /\ Dot(f[x], f[x]) \in Nat /\ Dot(v, f[x]) * Dot(v, f[x]) \in Nat
    BY MatchingNorm
  <2>2. \A y \in Nat : ~(y > y)
    OBVIOUS
  <2>3. Dot(v, f[x]) * Dot(v, f[x]) * Dot(f[x], f[x]) \in Nat
    BY <2>1
  <2> QED
    BY <2>2, <2>3 DEF Closer
<1>2. \A x, y \in S : <<x, y>> \in R <=> Closer(v, f[x], f[y])
    OBVIOUS
<1>3. ASSUME NEW x \in S, NEW y \in S, NEW z \in S, <<x, y>> \in R, <<y, z>> \in R
      PROVE  <<x, z>> \in R
  <2>1. Closer(v, f[x], f[y]) /\ Closer(v, f[y], f[z])
    BY <1>2, <1>3
  <2>2. Closer(v, f[x], f[z])
    BY <2>1, CloserTransitive
  <2> QED
    BY <1>2, <2>2
<1> HIDE DEF R
<1>4. \E x \in S : \A y \in S : <<y, x>> \notin R
    BY <1>1, <1>3, Unbeaten
<1> QED
    BY <1>2, <1>4

LEMMA PromiseArrive == ASSUME Arrive PROVE Promise!Arrive
    BY DEF Arrive, Promise!Arrive, Clusters

LEMMA PromiseJoin ==
    ASSUME OneInv, NEW p \in Proc, Commit(p), pick[p].into \in Clusters(disk)
    PROVE  Promise!Next
<1>1. PICK a, c : a = pick[p].art /\ c = pick[p].into
    OBVIOUS
<1>2. /\ a \in Ids /\ \A d : <<a, d>> \notin disk.member
      /\ disk'.member = disk.member \cup {<<a, c>>}
      /\ Clusters(disk') = Clusters(disk)
      /\ \A d \in Clusters(disk) \ {c} : disk'.cluster[d] = disk.cluster[d]
      /\ c \in Best(a) /\ disk'.cluster[c].updated = article[a].pub
      /\ c \in Clusters(disk)
    BY <1>1, Published DEF OneInv
<1>3. /\ c \in Promise!Candidates(a)
      /\ \A d \in Promise!Candidates(a) :
            ~Promise!Closer(article[a].vec, Promise!Centroid(d), Promise!Centroid(c))
    BY <1>2, SameChoice DEF OneInv
<1>4. ~Promise!Placed(a)
    BY <1>2 DEF Promise!Placed
<1>5. Activity' = [Activity EXCEPT ![c] = article[a].pub]
    BY <1>2 DEF Activity, Clusters
<1>6. Promise!Join(a)
    BY <1>2, <1>3, <1>4, <1>5 DEF Promise!Join, Activity, Commit
<1> QED
    BY <1>2, <1>6 DEF Promise!Next, Promise!Ids, Ids

\* Best is empty only where nothing matches.
LEMMA NoneMatches ==
    ASSUME OneInv, NEW a \in Ids, Best(a) = {}
    PROVE  {c \in Active(a) : Matches(article[a].vec, disk.cluster[c].sum)} = {}
<1> DEFINE S == {c \in Active(a) : Matches(article[a].vec, disk.cluster[c].sum)}
           f == [c \in Clusters(disk) |-> disk.cluster[c].sum]
           v == article[a].vec
<1>1. S \subseteq Clusters(disk) /\ S = {c \in Active(a) : Matches(v, f[c])}
    BY DEF Active
<1>2. \A c \in S : f[c] \in Vector /\ f[c] = disk.cluster[c].sum
  <2>1. \A c \in Clusters(disk) : disk.cluster[c] \in Row
    BY ElementOfSeq DEF Clusters, OneInv, IInv, Typed, Tables
  <2> QED
    BY <1>1, <2>1 DEF Row
<1>3. IsFiniteSet(S) /\ v \in Vector
  <2>1. Len(disk.cluster) \in Int /\ 1 \in Int
    BY LenProperties DEF OneInv, IInv, Typed, Tables
  <2>2. IsFiniteSet(Clusters(disk))
    BY <2>1, FS_Interval DEF Clusters
  <2>3. v \in Vector
    BY ArticleType DEF OneInv, IInv, Article
  <2> QED
    BY <1>1, <2>2, <2>3, FS_Subset
<1>4. ASSUME S # {} PROVE FALSE
  <2>1. \A c \in S : f[c] \in Vector /\ Matches(v, f[c])
    BY <1>1, <1>2
  <2>2. \E c \in S : \A d \in S : ~Closer(v, f[d], f[c])
    <3> HIDE DEF S, f, v
    <3> QED
        BY <1>3, <1>4, <2>1, ClosestExists
  <2>3. PICK c \in S : \A d \in S : ~Closer(v, f[d], f[c])
    BY <2>2
  <2>4. c \in Best(a)
    BY <1>1, <1>2, <2>3 DEF Best
  <2> QED
    BY <2>4
<1> QED
    BY <1>4

LEMMA PromiseSeed ==
    ASSUME OneInv, OneInv', NEW p \in Proc, Commit(p), pick[p].into \notin Clusters(disk)
    PROVE  Promise!Next
<1>1. PICK a, n : a = pick[p].art /\ n = Len(disk.cluster) + 1
    OBVIOUS
<1>2. /\ a \in Ids /\ \A d : <<a, d>> \notin disk.member
      /\ disk'.member = disk.member \cup {<<a, n>>}
      /\ Clusters(disk') = Clusters(disk) \cup {n}
      /\ \A d \in Clusters(disk) \ {n} : disk'.cluster[d] = disk.cluster[d]
      /\ Best(a) = {} /\ disk'.cluster[n].updated = article[a].pub
    BY <1>1, Published DEF OneInv
<1>3. /\ Activity \in Seq(Int) /\ Len(Activity) = Len(disk.cluster)
      /\ Activity' \in Seq(Int) /\ Len(Activity') = Len(disk'.cluster)
      /\ DOMAIN Activity = Clusters(disk) /\ DOMAIN Activity' = Clusters(disk')
    BY ActivityIsSeq DEF OneInv, IInv, Typed, Activity
<1>4. article[a].pub \in Int
    BY <1>2, ArticleType DEF OneInv, IInv, Article
<1>5. Len(disk.cluster) \in Nat /\ n \notin Clusters(disk)
    BY <1>1, LenProperties DEF OneInv, IInv, Typed, Tables, Clusters
<1>6. Activity' = Append(Activity, article[a].pub)
  <2> DEFINE t == Append(Activity, article[a].pub)
  <2>1. /\ t \in Seq(Int) /\ Len(t) = Len(Activity) + 1
        /\ \A c \in 1 .. Len(Activity) : t[c] = Activity[c]
        /\ t[Len(Activity) + 1] = article[a].pub
    BY <1>3, <1>4, AppendProperties
  <2>2. Len(Activity') = n
    BY <1>1, <1>3, Published DEF OneInv
  <2>3. \A c \in Clusters(disk) : Activity'[c] = Activity[c]
    BY <1>2, <1>5 DEF Activity, Clusters
  <2>4. Activity'[n] = article[a].pub
    BY <1>2 DEF Activity, Clusters
  <2>5. \A c \in 1 .. n : Activity'[c] = t[c]
    BY <1>1, <1>3, <1>5, <2>1, <2>3, <2>4 DEF Clusters
  <2> HIDE DEF t
  <2>6. Len(t) = n /\ Len(Activity') = Len(t)
    BY <1>1, <1>3, <2>1, <2>2
  <2>7. Activity' = t
    BY <1>3, <2>1, <2>5, <2>6, SeqEqual
  <2> QED
    BY <2>7 DEF t
<1>7. Promise!Candidates(a) = {}
    BY <1>2, NoneMatches, SameCandidates DEF OneInv
<1>8. ~Promise!Placed(a)
    BY <1>2 DEF Promise!Placed
<1>9. Promise!Seed(a)
    BY <1>1, <1>2, <1>3, <1>6, <1>7, <1>8 DEF Promise!Seed, Activity, Commit
<1> QED
    BY <1>2, <1>9 DEF Promise!Next, Promise!Ids, Ids

LEMMA PromiseInit == Init => Promise!Init
<1> SUFFICES ASSUME Init PROVE Promise!Init
    OBVIOUS
<1>1. disk \in Tables /\ Len(disk.cluster) = 0
    BY InitInv DEF Init, IInv, Typed
<1>2. Activity \in Seq(Int) /\ Len(Activity) = 0
    BY <1>1, ActivityIsSeq DEF Activity
<1>3. Activity = <<>>
    BY <1>2, EmptySeq
<1> QED
    BY <1>3 DEF Init, Promise!Init, Activity

LEMMA PromiseStep ==
    ASSUME Solo, RunProc = {}, OneInv, OneInv', [Next]_vars
    PROVE  [Promise!Next]_(Promise!vars)
<1>1. CASE Arrive
    BY <1>1, PromiseArrive DEF Promise!Next
<1>2. ASSUME NEW p \in Proc, Commit(p) PROVE Promise!Next
    BY <1>2, PromiseJoin, PromiseSeed
<1>3. ASSUME UNCHANGED <<article, disk>> PROVE UNCHANGED Promise!vars
    BY <1>3 DEF Promise!vars, Clusters
<1> QED
    BY <1>1, <1>2, <1>3 DEF Next, Step, Begin, Select, OutOfRange, JoinMember, JoinRefused, JoinCount,
       JoinTitle, SeedCluster, SeedMember, Kill, Raise, Ends, vars

\* FR-501 to FR-504 with a single clusterer outside pipeline.run's handlers:
\* assign_pending, with its transactions, its stored means and its kills,
\* implements the atomic placements of ClusterPromise.
THEOREM KeepsPromise ==
    ASSUME Solo, RunProc = {}
    PROVE  Spec => ImplementsPromise
<1>1. OneInv /\ [Next]_vars => OneInv'
    BY OneNext
<1>2. OneInv /\ OneInv' /\ [Next]_vars => [Promise!Next]_(Promise!vars)
    BY PromiseStep
<1> QED
    BY <1>1, <1>2, OneInit, PromiseInit, PTL DEF Spec, ImplementsPromise, Promise!Spec

-----------------------------------------------------------------------------
(***************************************************************************)
(* One clusterer, articles in the order of their dates: what is clustered  *)
(* and what is left of a pass are without gaps, so the article in hand is  *)
(* younger than every clustered one, and updated_at never goes back.       *)
(***************************************************************************)
Grouped(a) == \E c : <<a, c>> \in disk.member

Gapless ==
    /\ \A a, b \in Ids : b < a /\ Grouped(a) => Grouped(b)
    /\ \A p \in Proc : \A a \in todo[p] : \A b \in Ids : b < a => Grouped(b) \/ b \in todo[p]

InOrderInv == ArrivedInOrder => Gapless /\ ActivityIsLatest

LEMMA InOrderKept ==
    ASSUME InOrderInv, UNCHANGED <<article, disk>>, IInv,
           \A p \in Proc : todo'[p] \in {todo[p], {}, Pending}
    PROVE  InOrderInv'
<1> SUFFICES ASSUME ArrivedInOrder' PROVE Gapless' /\ ActivityIsLatest'
    BY DEF InOrderInv
<1>1. ArrivedInOrder /\ Gapless /\ ActivityIsLatest
    BY DEF InOrderInv, ArrivedInOrder, Ids
<1>2. ActivityIsLatest'
    BY <1>1 DEF ActivityIsLatest, Clusters, Members, Ids
<1>3. \A b \in Ids : b \in Pending \/ Grouped(b)
    BY DEF Pending, Clustered, Grouped
<1>4. Gapless'
    BY <1>1, <1>3 DEF Gapless, Grouped, Ids
<1> QED
    BY <1>2, <1>4

LEMMA InOrderArrive == ASSUME IInv, InOrderInv, Arrive PROVE InOrderInv'
<1> SUFFICES ASSUME ArrivedInOrder' PROVE Gapless' /\ ActivityIsLatest'
    BY DEF InOrderInv
<1>1. PICK r \in Arrivals : article' = Append(article, r)
    BY DEF Arrive
<1>2. Ids \subseteq Ids' /\ (\A a \in Ids : article'[a] = article[a]) /\ Ids \subseteq Nat
    BY <1>1 DEF IInv, Typed, Ids
<1>3. ArrivedInOrder /\ Gapless /\ ActivityIsLatest
    BY <1>2 DEF InOrderInv, ArrivedInOrder
<1>4. UNCHANGED <<disk, todo>>
    BY DEF Arrive
<1>5. \A a, c : <<a, c>> \in disk.member => a \in Ids
    BY DEF IInv, Discipline, ForeignKeys, Referred
<1>6. \A a \in Ids : \A b \in Ids' : b < a => b \in Ids
    BY DEF Ids, IInv, Typed
<1>7. Gapless'
    BY <1>3, <1>4, <1>5, <1>6 DEF Gapless, Grouped, IInv, Typed
<1>8. ActivityIsLatest'
    BY <1>2, <1>3, <1>4, <1>5 DEF ActivityIsLatest, Members, Clusters
<1> QED
    BY <1>7, <1>8

\* Articles in order: the one a commit publishes is the next.
LEMMA NextInOrder ==
    ASSUME Solo, IInv, SoloInv, StagedInv, ArrivedInOrder, Gapless, NEW p \in Proc, Commit(p)
    PROVE  /\ \A b \in todo[p] \ {pick[p].art} : pick[p].art < b
           /\ \A b \in Ids : b < pick[p].art => Grouped(b)
<1>1. PICK a : a = pick[p].art
    OBVIOUS
<1>2. a \in Ids /\ IsFirst(a, todo[p])
    BY <1>1, Published
<1>3. todo[p] \subseteq Ids /\ a \in todo[p]
    BY <1>1 DEF Commit, IInv, Typed, Discipline, Placing, Writing
<1>4. \A b \in Ids : b \in Nat /\ article[b].pub \in Int
    BY ArticleType DEF IInv, Article
<1>5. \A b \in todo[p] \ {a} : a < b
    BY <1>2, <1>3, <1>4 DEF IsFirst, Before, ArrivedInOrder
<1>6. \A b \in Ids : b < a => Grouped(b)
    BY <1>2, <1>3, <1>4, <1>5 DEF Gapless
<1> QED
    BY <1>1, <1>5, <1>6

LEMMA InOrderCommit ==
    ASSUME Solo, IInv, SoloInv, StagedInv, InOrderInv, NEW p \in Proc, Commit(p)
    PROVE  InOrderInv'
<1> SUFFICES ASSUME ArrivedInOrder' PROVE Gapless' /\ ActivityIsLatest'
    BY DEF InOrderInv
<1>1. article' = article /\ Ids' = Ids
    BY DEF Commit, Ids
<1>2. ArrivedInOrder /\ Gapless /\ ActivityIsLatest
    BY <1>1 DEF InOrderInv, ArrivedInOrder
<1>3. PICK a, c : a = pick[p].art /\ c = pick[p].into
    OBVIOUS
<1>4. /\ a \in Ids /\ \A d : <<a, d>> \notin disk.member
      /\ IsFirst(a, todo[p])
      /\ disk'.member = disk.member \cup {<<a, c>>}
      /\ Clusters(disk') = Clusters(disk) \cup {c}
      /\ \A d \in Clusters(disk) \ {c} : disk'.cluster[d] = disk.cluster[d]
      /\ disk'.cluster[c].updated = article[a].pub
    BY <1>3, Published
<1>5. \A q \in Proc : todo'[q] = todo[q] \ {a} /\ todo[q] \subseteq Ids /\ q = p
    BY <1>3 DEF Solo, Commit, IInv, Typed
<1>6. \A b \in Ids : b \in Nat /\ article[b].pub \in Int
    BY ArticleType DEF IInv, Article
<1>7. \A b \in todo[p] \ {a} : a < b
    BY <1>2, <1>3, NextInOrder
<1>8. \A b \in Ids : b < a => Grouped(b)
    BY <1>2, <1>3, NextInOrder
<1>9. \A b : Grouped(b)' <=> Grouped(b) \/ b = a
    BY <1>4 DEF Grouped
<1>10. Gapless'
    BY <1>1, <1>2, <1>4, <1>5, <1>6, <1>8, <1>9 DEF Gapless
<1>11. \A b \in Ids : Grouped(b) => article[b].pub <= article[a].pub
  <2>1. ~Grouped(a)
    BY <1>4 DEF Grouped
  <2> QED
    BY <1>2, <1>4, <1>6, <2>1 DEF Gapless, ArrivedInOrder
<1>12. ActivityIsLatest'
  <2> SUFFICES ASSUME NEW d \in Clusters(disk)', NEW b \in Members(disk, d)'
               PROVE  article[b].pub <= disk'.cluster[d].updated
    BY <1>1 DEF ActivityIsLatest
  <2>1. b \in Ids /\ (<<b, d>> \in disk.member \/ (b = a /\ d = c))
    BY <1>1, <1>4 DEF Members
  <2>2. CASE d = c
    <3>1. Grouped(b) \/ b = a
        BY <2>1 DEF Grouped
    <3>2. article[b].pub <= article[a].pub
        BY <2>1, <3>1, <1>6, <1>11
    <3> QED
        BY <2>2, <3>2, <1>4
  <2>3. CASE d # c
    BY <2>1, <2>3, <1>2, <1>4 DEF ActivityIsLatest, Members, Clusters
  <2> QED
    BY <2>2, <2>3
<1> QED
    BY <1>10, <1>12

LEMMA InOrderNext ==
    ASSUME Solo, RunProc = {}, IInv, SoloInv, StagedInv, InOrderInv, [Next]_vars
    PROVE  InOrderInv'
<1>1. CASE Arrive
    BY <1>1, InOrderArrive
<1>2. ASSUME NEW p \in Proc, Commit(p) PROVE InOrderInv'
    BY <1>2, InOrderCommit
<1>3. ASSUME NEW p \in Proc, (Step(p) /\ ~Commit(p)) \/ Kill(p) \/ Raise(p) PROVE InOrderInv'
  <2>1. UNCHANGED <<article, disk>> /\ \A q \in Proc : todo'[q] \in {todo[q], {}, Pending}
    BY <1>3 DEF Step, Begin, Select, OutOfRange, JoinMember, JoinRefused, JoinCount, JoinTitle,
       SeedCluster, SeedMember, Kill, Raise, Ends, IInv, Typed
  <2> QED
    BY <2>1, InOrderKept
<1>4. CASE UNCHANGED vars
    BY <1>4, InOrderKept DEF vars
<1> QED
    BY <1>1, <1>2, <1>3, <1>4 DEF Next

LEMMA InOrderInit == Init => InOrderInv
    BY DEF Init, InOrderInv, Gapless, Grouped, ActivityIsLatest, Clusters, Ids

\* FR-503 and what render.py reads updated_at for, with a single clusterer:
\* whatever order articles of one moment take, and whatever was killed, a
\* cluster's recorded activity is no older than any of its members, if
\* articles arrived in order.
THEOREM ActivityCovers ==
    ASSUME Solo, RunProc = {}
    PROVE  Spec => [](ArrivedInOrder => ActivityIsLatest)
<1>1. OneInv /\ [Next]_vars => OneInv'
    BY OneNext
<1>2. OneInv /\ InOrderInv /\ [Next]_vars => InOrderInv'
    BY InOrderNext DEF OneInv
<1>3. InOrderInv => (ArrivedInOrder => ActivityIsLatest)
    BY DEF InOrderInv
<1> QED
    BY <1>1, <1>2, <1>3, OneInit, InOrderInit, PTL DEF Spec
-----------------------------------------------------------------------------
(***************************************************************************)
(* One clusterer, articles in the order of their dates: what it has built  *)
(* is what a backfill builds.  The backfill is traced along: run[n] is its *)
(* table after n articles, and the committed rows are those of run[N],     *)
(* where N articles are grouped.                                           *)
(***************************************************************************)
\* Places over the articles of a sequence.
Near(seq, table, a) ==
    {c \in DOMAIN table :
        /\ seq[table[c][Len(table[c])]].pub >= seq[a].pub - Window
        /\ Matches(seq[a].vec, Total(seq, Group(table, c)))}

Nearest(seq, table, a) ==
    {c \in Near(seq, table, a) : \A d \in Near(seq, table, a) :
        ~Closer(seq[a].vec, Total(seq, Group(table, d)), Total(seq, Group(table, c)))}

PlacesIn(seq, table, a) ==
    IF Near(seq, table, a) = {} THEN {Append(table, <<a>>)}
    ELSE {[table EXCEPT ![c] = Append(@, a)] : c \in Nearest(seq, table, a)}

LEMMA PlacesAre ==
    ASSUME NEW table, NEW a
    PROVE  Places(table, a) = PlacesIn(article, table, a)
    BY DEF Places, PlacesIn, Near, Nearest, VectorSum, MapThenFoldSet, Total, Folded, First

\* Tables of the first n articles.
Tabled(n) == Seq(Seq(1 .. n) \ {<<>>})

LEMMA TabledGroup ==
    ASSUME NEW n \in Nat, NEW t \in Tabled(n), NEW c \in DOMAIN t
    PROVE  /\ t[c] \in Seq(1 .. n) /\ Len(t[c]) \in Nat \ {0} /\ DOMAIN t[c] = 1 .. Len(t[c])
           /\ t[c][Len(t[c])] \in 1 .. n
           /\ Group(t, c) \subseteq 1 .. n /\ IsFiniteSet(Group(t, c))
<1>1. t[c] \in Seq(1 .. n) \ {<<>>}
  <2>1. c \in 1 .. Len(t)
    BY LenProperties DEF Tabled
  <2> QED
    BY <2>1, ElementOfSeq DEF Tabled
<1>2. Len(t[c]) \in Nat /\ DOMAIN t[c] = 1 .. Len(t[c]) /\ Len(t[c]) # 0
    BY <1>1, LenProperties, EmptySeq
<1>3. \A i \in DOMAIN t[c] : t[c][i] \in 1 .. n
    BY <1>1, <1>2, ElementOfSeq
<1>4. Group(t, c) \subseteq 1 .. n
    BY <1>3 DEF Group
<1>5. IsFiniteSet(1 .. n)
    BY FS_Interval
<1> QED
    BY <1>1, <1>2, <1>3, <1>4, <1>5, FS_Subset

LEMMA TabledMore ==
    ASSUME NEW n \in Nat, NEW m \in Nat, n <= m
    PROVE  Tabled(n) \subseteq Tabled(m)
<1> SUFFICES ASSUME NEW t \in Tabled(n) PROVE t \in Tabled(m)
    OBVIOUS
<1>1. \A s \in Seq(1 .. n) : s \in Seq(1 .. m)
    OBVIOUS
<1>2. Seq(1 .. n) \ {<<>>} \subseteq Seq(1 .. m) \ {<<>>}
    BY <1>1
<1>3. Len(t) \in Nat /\ t \in [1 .. Len(t) -> Seq(1 .. n) \ {<<>>}]
    BY LenProperties DEF Tabled
<1> QED
    BY <1>2, <1>3, SeqDef DEF Tabled

\* One more article in its place.
LEMMA AppendedGroup ==
    ASSUME NEW n \in Nat, NEW t \in Tabled(n)
    PROVE  LET u == Append(t, <<n + 1>>) IN
           /\ u \in Tabled(n + 1) /\ Len(u) = Len(t) + 1
           /\ \A c \in 1 .. Len(t) : u[c] = t[c]
           /\ u[Len(t) + 1] = <<n + 1>>
<1>1. t \in Seq(Seq(1 .. n + 1) \ {<<>>})
    BY TabledMore DEF Tabled
<1>2. <<n + 1>> \in Seq(1 .. n + 1) \ {<<>>}
    OBVIOUS
<1> QED
    BY <1>1, <1>2, AppendProperties DEF Tabled

LEMMA JoinedGroup ==
    ASSUME NEW n \in Nat, NEW t \in Tabled(n), NEW c \in DOMAIN t
    PROVE  LET u == [t EXCEPT ![c] = Append(@, n + 1)] IN
           /\ u \in Tabled(n + 1) /\ Len(u) = Len(t) /\ DOMAIN u = DOMAIN t
           /\ \A d \in DOMAIN t \ {c} : u[d] = t[d]
           /\ Len(u[c]) = Len(t[c]) + 1 /\ u[c][Len(u[c])] = n + 1
           /\ Group(u, c) = Group(t, c) \cup {n + 1}
<1> DEFINE s == Append(t[c], n + 1)
           u == [t EXCEPT ![c] = s]
<1>1. t[c] \in Seq(1 .. n) /\ Len(t[c]) \in Nat /\ DOMAIN t[c] = 1 .. Len(t[c])
    BY TabledGroup
<1>2. t[c] \in Seq(1 .. n + 1) /\ n + 1 \in 1 .. n + 1
    BY <1>1
<1>3. /\ s \in Seq(1 .. n + 1) /\ Len(s) = Len(t[c]) + 1
      /\ \A i \in 1 .. Len(t[c]) : s[i] = t[c][i]
      /\ s[Len(t[c]) + 1] = n + 1
    BY <1>2, AppendProperties
<1>4. DOMAIN s = 1 .. Len(t[c]) + 1 /\ s # <<>>
    BY <1>1, <1>3, LenProperties, EmptySeq
<1> HIDE DEF s
<1>5. t \in Seq(Seq(1 .. n + 1) \ {<<>>}) /\ c \in 1 .. Len(t)
    BY TabledMore, LenProperties DEF Tabled
<1>6. u \in Seq(Seq(1 .. n + 1) \ {<<>>}) /\ Len(u) = Len(t)
    BY <1>3, <1>4, <1>5, ExceptSeq
<1>7. u[c] = s /\ DOMAIN u = DOMAIN t /\ \A d \in DOMAIN t \ {c} : u[d] = t[d]
    OBVIOUS
<1>8. {s[i] : i \in DOMAIN s} = {t[c][i] : i \in DOMAIN t[c]} \cup {n + 1}
    BY <1>1, <1>3, <1>4
<1>9. Group(u, c) = Group(t, c) \cup {n + 1}
    BY <1>7, <1>8 DEF Group
<1> QED
    BY <1>3, <1>6, <1>7, <1>9 DEF s, Tabled

LEMMA PlacedTable ==
    ASSUME NEW seq, NEW n \in Nat, NEW t \in Tabled(n), NEW u \in PlacesIn(seq, t, n + 1)
    PROVE  u \in Tabled(n + 1)
<1>1. CASE u = Append(t, <<n + 1>>)
    BY <1>1, AppendedGroup
<1>2. ASSUME NEW c \in DOMAIN t, u = [t EXCEPT ![c] = Append(@, n + 1)] PROVE u \in Tabled(n + 1)
    BY <1>2, JoinedGroup
<1>3. Nearest(seq, t, n + 1) \subseteq DOMAIN t
    BY DEF Nearest, Near
<1> QED
    BY <1>1, <1>2, <1>3 DEF PlacesIn

\* Where an article goes depends on the articles in the table only.
LEMMA SamePlaces ==
    ASSUME NEW seq1, NEW seq2, NEW n \in Nat, NEW t \in Tabled(n),
           \A b \in 1 .. n + 1 : seq1[b] = seq2[b]
    PROVE  PlacesIn(seq1, t, n + 1) = PlacesIn(seq2, t, n + 1)
<1>1. ASSUME NEW c \in DOMAIN t
      PROVE  /\ Total(seq1, Group(t, c)) = Total(seq2, Group(t, c))
             /\ seq1[t[c][Len(t[c])]] = seq2[t[c][Len(t[c])]]
  <2>1. t[c][Len(t[c])] \in 1 .. n /\ Group(t, c) \subseteq 1 .. n /\ IsFiniteSet(Group(t, c))
    BY TabledGroup
  <2>2. Alike(seq1, seq2, Group(t, c))
    BY <2>1 DEF Alike
  <2>3. \A S : IsFiniteSet(S) /\ Alike(seq1, seq2, S) => Total(seq1, S) = Total(seq2, S)
    BY TotalAgrees
  <2> QED
    BY <2>1, <2>2, <2>3
<1>2. seq1[n + 1] = seq2[n + 1]
    OBVIOUS
<1>3. Near(seq1, t, n + 1) = Near(seq2, t, n + 1)
    BY <1>1, <1>2 DEF Near
<1>4. Nearest(seq1, t, n + 1) = Nearest(seq2, t, n + 1)
    BY <1>1, <1>2, <1>3 DEF Nearest, Near
<1> QED
    BY <1>3, <1>4 DEF PlacesIn

\* run is a backfill of the first N articles, and the rows are its table.
Trail(seq, N, run) ==
    /\ run[0] = <<>>
    /\ \A n \in 0 .. N : run[n] \in Tabled(n)
    /\ \A n \in 1 .. N : run[n] \in PlacesIn(seq, run[n - 1], n)

Represents(t) ==
    /\ Len(t) = Len(disk.cluster)
    /\ \A c \in Clusters(disk) :
        /\ Group(t, c) = Members(disk, c)
        /\ article[t[c][Len(t[c])]].pub = disk.cluster[c].updated

GroupedTo(N) == \A a \in Ids : Grouped(a) <=> a <= N

Traced == \E N \in 0 .. Len(article) : \E run :
            GroupedTo(N) /\ Trail(article, N, run) /\ Represents(run[N])

TracedInv == ArrivedInOrder => Traced

LEMMA TabledDomain ==
    ASSUME NEW n \in Nat, NEW t \in Tabled(n), Represents(t)
    PROVE  DOMAIN t = Clusters(disk)
    BY LenProperties DEF Tabled, Represents, Clusters

LEMMA TracedKept == ASSUME TracedInv, UNCHANGED <<article, disk>> PROVE TracedInv'
<1> SUFFICES ASSUME ArrivedInOrder' PROVE Traced'
    BY DEF TracedInv
<1>1. ArrivedInOrder
    BY DEF ArrivedInOrder, Ids
<1>2. PICK N, run : /\ N \in 0 .. Len(article) /\ GroupedTo(N)
                   /\ Trail(article, N, run) /\ Represents(run[N])
    BY <1>1 DEF TracedInv, Traced
<1>3. GroupedTo(N)' /\ Trail(article', N, run)
    BY <1>2 DEF GroupedTo, Grouped, Ids
<1>4. Represents(run[N])'
    BY <1>2 DEF Represents, Clusters, Members, Ids
<1> QED
    BY <1>2, <1>3, <1>4 DEF Traced

LEMMA TracedInit == Init => TracedInv
<1> SUFFICES ASSUME Init PROVE Traced
    BY DEF TracedInv
<1> DEFINE run == [n \in 0 .. 0 |-> <<>>]
<1>1. Len(article) = 0 /\ Len(disk.cluster) = 0
    BY DEF Init
<1>2. GroupedTo(0)
    BY <1>1 DEF GroupedTo, Ids
<1>3. Trail(article, 0, run)
    BY DEF Trail, Tabled
<1>4. Represents(run[0])
    BY <1>1 DEF Represents, Clusters
<1> HIDE DEF run
<1> QED
    BY <1>1, <1>2, <1>3, <1>4 DEF Traced

LEMMA TracedArrive == ASSUME IInv, TracedInv, Arrive PROVE TracedInv'
<1> SUFFICES ASSUME ArrivedInOrder' PROVE Traced'
    BY DEF TracedInv
<1>1. PICK r \in Arrivals : article' = Append(article, r)
    BY DEF Arrive
<1>2. /\ Len(article) \in Nat /\ Ids' = Ids \cup {Len(article) + 1} /\ Len(article') = Len(article) + 1
      /\ \A a \in Ids : article'[a] = article[a]
    BY <1>1 DEF IInv, Typed, Ids
<1>3. ArrivedInOrder /\ disk' = disk
    BY <1>2 DEF ArrivedInOrder, Arrive
<1>4. PICK N, run : /\ N \in 0 .. Len(article) /\ GroupedTo(N)
                   /\ Trail(article, N, run) /\ Represents(run[N])
    BY <1>3 DEF TracedInv, Traced
<1>5. GroupedTo(N)'
  <2>1. ~Grouped(Len(article) + 1)
    <3>1. Len(article) + 1 \notin Ids
        BY <1>2 DEF Ids
    <3> QED
        BY <3>1 DEF Grouped, IInv, Discipline, ForeignKeys, Referred
  <2>2. \A a : Grouped(a)' <=> Grouped(a)
    BY <1>3 DEF Grouped
  <2>3. ~(Len(article) + 1 <= N)
    BY <1>2, <1>4
  <2> QED
    BY <1>2, <1>4, <2>1, <2>2, <2>3 DEF GroupedTo
<1>6. ASSUME NEW n \in 1 .. N
      PROVE  PlacesIn(article', run[n - 1], n) = PlacesIn(article, run[n - 1], n)
  <2>1. PICK m, old, new : m = n - 1 /\ old = article /\ new = article'
    OBVIOUS
  <2>2. m \in Nat /\ n = m + 1 /\ run[m] \in Tabled(m) /\ 1 .. n \subseteq Ids
    BY <1>2, <1>4, <2>1 DEF Trail, Ids
  <2>3. \A b \in 1 .. m + 1 : new[b] = old[b]
    BY <1>2, <2>1, <2>2
  <2>4. PlacesIn(new, run[m], m + 1) = PlacesIn(old, run[m], m + 1)
    BY <2>2, <2>3, SamePlaces
  <2> QED
    BY <2>1, <2>2, <2>4
<1>7. Trail(article', N, run)
    BY <1>4, <1>6 DEF Trail
<1>8. Represents(run[N])'
  <2>1. run[N] \in Tabled(N) /\ N \in Nat
    BY <1>2, <1>4 DEF Trail
  <2>2. \A c \in Clusters(disk) : run[N][c][Len(run[N][c])] \in Ids
    BY <1>2, <1>4, <2>1, TabledGroup, TabledDomain DEF Ids
  <2>3. \A c : Members(disk, c)' = Members(disk, c)
    BY <1>2, <1>3 DEF Members, IInv, Discipline, ForeignKeys, Referred
  <2> QED
    BY <1>2, <1>3, <1>4, <2>2, <2>3 DEF Represents, Clusters
<1> QED
    BY <1>2, <1>4, <1>5, <1>7, <1>8 DEF Traced

\* On a table that is the rows, the backfill finds what Select finds.
LEMMA SameNear ==
    ASSUME OneInv, NEW n \in Nat, NEW t \in Tabled(n), Represents(t), NEW a
    PROVE  /\ Near(article, t, a) = {c \in Active(a) : Matches(article[a].vec, disk.cluster[c].sum)}
           /\ Nearest(article, t, a) = Best(a)
<1>1. DOMAIN t = Clusters(disk)
    BY TabledDomain
<1>2. \A c \in Clusters(disk) :
        /\ Total(article, Group(t, c)) = disk.cluster[c].sum
        /\ article[t[c][Len(t[c])]].pub = disk.cluster[c].updated
    BY DEF OneInv, Summed, Represents
<1>3. Near(article, t, a) = {c \in Active(a) : Matches(article[a].vec, disk.cluster[c].sum)}
    BY <1>1, <1>2 DEF Near, Active
<1>4. Active(a) \subseteq Clusters(disk)
    BY DEF Active
<1>5. Nearest(article, t, a) = Best(a)
    BY <1>2, <1>3, <1>4 DEF Nearest, Best
<1> QED
    BY <1>3, <1>5

LEMMA TracedCommit ==
    ASSUME Solo, OneInv, InOrderInv, TracedInv, NEW p \in Proc, Commit(p)
    PROVE  TracedInv'
<1> SUFFICES ASSUME ArrivedInOrder' PROVE Traced'
    BY DEF TracedInv
<1>1. article' = article /\ Ids' = Ids
    BY DEF Commit, Ids
<1>2. ArrivedInOrder /\ Gapless
    BY <1>1 DEF InOrderInv, ArrivedInOrder
<1>3. PICK a, c : a = pick[p].art /\ c = pick[p].into
    OBVIOUS
<1>4. /\ a \in Ids /\ \A d : <<a, d>> \notin disk.member
      /\ disk'.member = disk.member \cup {<<a, c>>}
      /\ Clusters(disk') = Clusters(disk) \cup {c}
      /\ \A d \in Clusters(disk) \ {c} : disk'.cluster[d] = disk.cluster[d]
      /\ disk'.cluster[c].updated = article[a].pub
      /\ c \in Clusters(disk) => c \in Best(a) /\ Len(disk'.cluster) = Len(disk.cluster)
      /\ c \notin Clusters(disk) =>
            /\ Best(a) = {}
            /\ c = Len(disk.cluster) + 1 /\ Len(disk'.cluster) = Len(disk.cluster) + 1
    BY <1>3, Published DEF OneInv
<1>5. PICK N, run : /\ N \in 0 .. Len(article) /\ GroupedTo(N)
                   /\ Trail(article, N, run) /\ Represents(run[N])
    BY <1>2 DEF TracedInv, Traced
<1>6. Len(article) \in Nat /\ N \in Nat /\ Len(disk.cluster) \in Nat
    BY <1>5, LenProperties DEF OneInv, IInv, Typed, Tables
<1>7. a = N + 1
  <2>1. \A b \in Ids : b < a => Grouped(b)
    BY <1>2, <1>3, NextInOrder DEF OneInv
  <2>2. ~Grouped(a)
    BY <1>4 DEF Grouped
  <2>3. a \in Nat
    BY <1>4, <1>6 DEF Ids
  <2>4. a <= N + 1
    <3>1. N + 1 \in Ids \/ a <= N + 1
        BY <1>4, <1>6 DEF Ids
    <3>2. N + 1 \in Ids => ~Grouped(N + 1)
        BY <1>5, <1>6 DEF GroupedTo
    <3> QED
        BY <1>6, <2>1, <2>3, <3>1, <3>2
  <2>5. ~(a <= N)
    BY <1>4, <1>5, <2>2 DEF GroupedTo
  <2> QED
    BY <1>6, <2>3, <2>4, <2>5
<1>8. PICK t : t = run[N] /\ t \in Tabled(N) /\ Represents(t)
    BY <1>5, <1>6 DEF Trail
<1>9. DOMAIN t = Clusters(disk) /\ Len(t) = Len(disk.cluster)
    BY <1>6, <1>8, TabledDomain DEF Represents
<1>10. \A d : Members(disk, d)' = IF d = c THEN Members(disk, d) \cup {a} ELSE Members(disk, d)
    BY <1>1, <1>4 DEF Members
<1>11. \E u : u \in PlacesIn(article, t, N + 1) /\ Represents(u)'
  <2>1. CASE c \in Clusters(disk)
    <3> DEFINE u == [t EXCEPT ![c] = Append(@, N + 1)]
    <3>1. c \in Nearest(article, t, N + 1)
        BY <2>1, <1>4, <1>6, <1>7, <1>8, SameNear
    <3>2. u \in PlacesIn(article, t, N + 1)
        BY <3>1 DEF PlacesIn, Nearest
    <3>3. /\ Len(u) = Len(t) /\ \A d \in DOMAIN t \ {c} : u[d] = t[d]
          /\ u[c][Len(u[c])] = N + 1 /\ Group(u, c) = Group(t, c) \cup {N + 1}
      <4>1. c \in DOMAIN t
        BY <2>1, <1>9
      <4> QED
        BY <4>1, <1>6, <1>8, JoinedGroup
    <3> HIDE DEF u
    <3>4. ASSUME NEW d \in Clusters(disk)'
          PROVE  /\ Group(u, d) = Members(disk, d)'
                 /\ article'[u[d][Len(u[d])]].pub = disk'.cluster[d].updated
      <4>1. CASE d = c
        BY <4>1, <2>1, <3>3, <1>1, <1>4, <1>7, <1>8, <1>10 DEF Represents
      <4>2. CASE d # c
        <5>1. d \in Clusters(disk) /\ u[d] = t[d]
            BY <4>2, <3>3, <1>4, <1>9 DEF Clusters
        <5>2. Group(u, d) = Group(t, d)
            BY <5>1 DEF Group
        <5> QED
            BY <4>2, <5>1, <5>2, <1>1, <1>4, <1>8, <1>10 DEF Represents
      <4> QED
        BY <4>1, <4>2
    <3> QED
        BY <2>1, <3>2, <3>3, <3>4, <1>4, <1>9 DEF Represents
  <2>2. CASE c \notin Clusters(disk)
    <3> DEFINE u == Append(t, <<N + 1>>)
    <3>1. Near(article, t, N + 1) = {}
        BY <2>2, <1>4, <1>6, <1>7, <1>8, SameNear, NoneMatches
    <3>2. u \in PlacesIn(article, t, N + 1)
        BY <3>1 DEF PlacesIn
    <3>3. /\ Len(u) = Len(t) + 1 /\ \A d \in 1 .. Len(t) : u[d] = t[d]
          /\ u[c] = <<N + 1>>
        BY <2>2, <1>4, <1>6, <1>8, <1>9, AppendedGroup
    <3> HIDE DEF u
    <3>4. ASSUME NEW d \in Clusters(disk)'
          PROVE  /\ Group(u, d) = Members(disk, d)'
                 /\ article'[u[d][Len(u[d])]].pub = disk'.cluster[d].updated
      <4>1. CASE d = c
        <5>1. Group(u, d) = {N + 1} /\ u[d][Len(u[d])] = N + 1
            BY <4>1, <3>3 DEF Group
        <5>2. Members(disk, c) = {}
            BY <2>2 DEF Members, OneInv, IInv, Discipline, ForeignKeys, Referred
        <5> QED
            BY <4>1, <5>1, <5>2, <1>1, <1>4, <1>7, <1>10
      <4>2. CASE d # c
        <5>1. d \in Clusters(disk) /\ u[d] = t[d]
            BY <4>2, <3>3, <1>4, <1>9 DEF Clusters
        <5>2. Group(u, d) = Group(t, d)
            BY <5>1 DEF Group
        <5> QED
            BY <4>2, <5>1, <5>2, <1>1, <1>4, <1>8, <1>10 DEF Represents
      <4> QED
        BY <4>1, <4>2
    <3> QED
        BY <2>2, <3>2, <3>3, <3>4, <1>4, <1>9 DEF Represents
  <2> QED
    BY <2>1, <2>2
<1>12. PICK u : u \in PlacesIn(article, t, N + 1) /\ Represents(u)'
    BY <1>11
<1> DEFINE more == [n \in 0 .. N + 1 |-> IF n = N + 1 THEN u ELSE run[n]]
<1>13. Trail(article, N + 1, more)
  <2>1. more[0] = <<>> /\ more[N + 1] = u /\ \A n \in 0 .. N : more[n] = run[n]
    BY <1>5, <1>6 DEF Trail
  <2> HIDE DEF more
  <2>2. u \in Tabled(N + 1)
    BY <1>6, <1>8, <1>12, PlacedTable
  <2>3. \A n \in 0 .. N + 1 : n = N + 1 \/ n \in 0 .. N
    BY <1>6
  <2>4. \A n \in 0 .. N + 1 : more[n] \in Tabled(n)
    BY <1>5, <2>1, <2>2, <2>3 DEF Trail
  <2>5. ASSUME NEW n \in 1 .. N + 1 PROVE more[n] \in PlacesIn(article, more[n - 1], n)
    <3>1. CASE n = N + 1
        BY <3>1, <2>1, <1>6, <1>8, <1>12
    <3>2. CASE n \in 1 .. N
        BY <3>2, <2>1, <1>5, <1>6 DEF Trail
    <3> QED
        BY <3>1, <3>2, <1>6
  <2> QED
    BY <2>1, <2>4, <2>5 DEF Trail
<1>14. GroupedTo(N + 1)'
  <2>1. \A b : Grouped(b)' <=> Grouped(b) \/ b = a
    BY <1>4 DEF Grouped
  <2>2. \A b \in Ids : b <= N + 1 <=> b <= N \/ b = N + 1
    BY <1>6 DEF Ids
  <2> QED
    BY <1>1, <1>5, <1>7, <2>1, <2>2 DEF GroupedTo
<1>15. N + 1 \in 0 .. Len(article) /\ more[N + 1] = u
    BY <1>4, <1>6, <1>7 DEF Ids
<1> HIDE DEF more
<1> QED
    BY <1>1, <1>12, <1>13, <1>14, <1>15 DEF Traced

LEMMA TracedNext ==
    ASSUME Solo, RunProc = {}, OneInv, InOrderInv, TracedInv, [Next]_vars
    PROVE  TracedInv'
<1>1. CASE Arrive
    BY <1>1, TracedArrive DEF OneInv
<1>2. ASSUME NEW p \in Proc, Commit(p) PROVE TracedInv'
    BY <1>2, TracedCommit
<1>3. ASSUME UNCHANGED <<article, disk>> PROVE TracedInv'
    BY <1>3, TracedKept
<1> QED
    BY <1>1, <1>2, <1>3 DEF Next, Step, Begin, Select, OutOfRange, JoinMember, JoinRefused, JoinCount,
       JoinTitle, SeedCluster, SeedMember, Kill, Raise, Ends, vars

\* Articles in the order of their dates have the order of their ids.
LEMMA DatesAreIds ==
    ASSUME Typed, ArrivedInOrder, NEW n \in Ids
    PROVE  ByDate[n] = n
<1>1. /\ Len(article) \in Nat /\ Ids \subseteq Nat
      /\ \A b \in Ids : article[b].pub \in Int
    BY ArticleType DEF Typed, Article, Ids
<1>2. \A a, b \in Ids : Before(b, a) <=> b < a
    BY <1>1 DEF Before, ArrivedInOrder
<1>3. ASSUME NEW a \in Ids PROVE Cardinality({b \in Ids : Before(b, a)}) = a - 1
  <2>1. {b \in Ids : Before(b, a)} = 1 .. a - 1
    BY <1>1, <1>2 DEF Ids
  <2>2. Cardinality(1 .. a - 1) = a - 1
    <3>1. a \in Nat /\ a >= 1 /\ a - 1 \in Int
        BY <1>1 DEF Ids
    <3>2. \A m \in Int : Cardinality(1 .. m) = IF 1 > m THEN 0 ELSE m - 1 + 1
        BY FS_Interval
    <3> QED
        BY <3>1, <3>2
  <2> QED
    BY <2>1, <2>2
<1>4. \A a \in Ids : Cardinality({b \in Ids : Before(b, a)}) = n - 1 <=> a = n
    BY <1>1, <1>3
<1>5. ByDate[n] = CHOOSE a \in Ids : Cardinality({b \in Ids : Before(b, a)}) = n - 1
    BY DEF ByDate
<1> QED
    BY <1>4, <1>5

LEMMA Least ==
    ASSUME NEW S \in SUBSET Nat, S # {}
    PROVE  \E n \in S : \A m \in S : n <= m
<1>1. PICK n \in S : \A m \in S : <<m, n>> \notin OpToRel(<, Nat)
    BY NatLessThanWellFounded, WFMin, Zenon
<1>2. ASSUME NEW m \in S, m < n PROVE FALSE
  <2>1. <<m, n>> \in Nat \X Nat /\ <<m, n>>[1] < <<m, n>>[2]
    BY <1>2
  <2>2. <<m, n>> \in OpToRel(<, Nat)
    BY <2>1, Zenon DEF OpToRel
  <2> QED
    BY <1>1, <2>2
<1> QED
    BY <1>2

\* Induction up to a bound.
LEMMA Induct ==
    ASSUME NEW d \in Nat, NEW C, 0 \in C, \A n \in 1 .. d : n - 1 \in C => n \in C
    PROVE  0 .. d \subseteq C
<1> DEFINE R == (0 .. d) \ C
<1> SUFFICES ASSUME R # {} PROVE FALSE
    OBVIOUS
<1>1. PICK n \in R : \A m \in R : n <= m
  <2>1. R \in SUBSET Nat
    OBVIOUS
  <2> HIDE DEF R
  <2> QED
    BY <2>1, Least
<1>2. n \in 1 .. d /\ n - 1 \in 0 .. d /\ n - 1 \notin R
    BY <1>1
<1> QED
    BY <1>1, <1>2

\* The tables a backfill may have after n articles: what the LET of Backfills
\* defines, up to the d-th.
Onward(n, S) == UNION {Places(t, ByDate[n]) : t \in S}

After(f, d) == f = [n \in 0 .. d |-> IF n = 0 THEN {<<>>} ELSE Onward(n, f[n - 1])]

LEMMA AfterExists == ASSUME NEW d \in Nat PROVE \E f : After(f, d)
<1> DEFINE C == {n \in 0 .. d : \E f : After(f, n)}
<1>1. 0 \in C
  <2>1. After([n \in 0 .. 0 |-> {<<>>}], 0)
    BY DEF After
  <2> QED
    BY <2>1
<1>2. ASSUME NEW n \in 1 .. d, n - 1 \in C PROVE n \in C
  <2>1. PICK f : After(f, n - 1)
    BY <1>2
  <2> DEFINE g == [k \in 0 .. n |-> IF k = n THEN Onward(n, f[n - 1]) ELSE f[k]]
  <2>2. ASSUME NEW k \in 0 .. n
        PROVE  g[k] = IF k = 0 THEN {<<>>} ELSE Onward(k, g[k - 1])
    <3>1. CASE k = n
      <4>1. g[n - 1] = f[n - 1] /\ g[n] = Onward(n, f[n - 1]) /\ n # 0
        OBVIOUS
      <4> QED
        BY <3>1, <4>1
    <3>2. CASE k # n
      <4>1. k \in 0 .. n - 1 /\ (k # 0 => k - 1 \in 0 .. n - 1)
        BY <3>2
      <4>2. g[k] = f[k] /\ (k # 0 => g[k - 1] = f[k - 1])
        BY <4>1
      <4>3. f[k] = IF k = 0 THEN {<<>>} ELSE Onward(k, f[k - 1])
        BY <2>1, <4>1 DEF After
      <4> QED
        BY <4>2, <4>3
    <3> QED
        BY <3>1, <3>2
  <2>3. g = [k \in 0 .. n |-> g[k]]
    OBVIOUS
  <2> HIDE DEF g
  <2>4. After(g, n)
    BY <2>2, <2>3 DEF After
  <2> QED
    BY <2>4
<1> HIDE DEF C
<1>3. 0 .. d \subseteq C
    BY <1>1, <1>2, Induct
<1> QED
    BY <1>3 DEF C

LEMMA BackfillsAre ==
    ASSUME Len(article) \in Nat
    PROVE  \E f : After(f, Len(article)) /\ Backfills = f[Len(article)]
<1> DEFINE f == CHOOSE f : After(f, Len(article))
<1>1. After(f, Len(article))
    BY AfterExists
<1>2. Backfills = f[Len(article)]
    BY DEF Backfills, After, Onward
<1> QED
    BY <1>1, <1>2

LEMMA TracedIsBackfill ==
    ASSUME Typed, ArrivedInOrder, NEW run, Trail(article, Len(article), run)
    PROVE  run[Len(article)] \in Backfills
<1> DEFINE L == Len(article)
<1>1. L \in Nat /\ Ids = 1 .. L
    BY LenProperties DEF Typed, Ids
<1>2. PICK f : After(f, L) /\ Backfills = f[L]
    BY <1>1, BackfillsAre
<1> HIDE DEF L
<1> DEFINE C == {n \in 0 .. L : run[n] \in f[n]}
<1>3. 0 \in C
    BY <1>1, <1>2 DEF After, Trail, L
<1>4. ASSUME NEW n \in 1 .. L, n - 1 \in C PROVE n \in C
  <2>1. run[n] \in PlacesIn(article, run[n - 1], n) /\ run[n - 1] \in f[n - 1]
    BY <1>4 DEF Trail, L
  <2>2. run[n] \in Places(run[n - 1], ByDate[n])
    BY <2>1, <1>1, PlacesAre, DatesAreIds
  <2>3. run[n] \in Onward(n, f[n - 1])
    BY <2>1, <2>2 DEF Onward
  <2>4. f[n] = Onward(n, f[n - 1])
    <3>1. n \in 0 .. L /\ n # 0
        BY <1>1
    <3>2. f[n] = IF n = 0 THEN {<<>>} ELSE Onward(n, f[n - 1])
        BY <1>2, <3>1 DEF After
    <3> QED
        BY <3>1, <3>2
  <2> QED
    BY <2>3, <2>4
<1> HIDE DEF C
<1>5. 0 .. L \subseteq C
    BY <1>1, <1>3, <1>4, Induct
<1>6. L \in C
    BY <1>1, <1>5
<1> QED
    BY <1>2, <1>6 DEF C, L

LEMMA TracedEquivalent == ASSUME IInv, TracedInv PROVE BackfillEquivalent
<1> SUFFICES ASSUME ArrivedInOrder, Clustered(disk) = Ids
             PROVE  \E t \in Backfills :
                        {Members(disk, c) : c \in Clusters(disk)} = {Group(t, c) : c \in DOMAIN t}
    BY DEF BackfillEquivalent
<1>1. PICK N, run : /\ N \in 0 .. Len(article) /\ GroupedTo(N)
                   /\ Trail(article, N, run) /\ Represents(run[N])
    BY DEF TracedInv, Traced
<1>2. Len(article) \in Nat /\ Typed
    BY LenProperties DEF IInv, Typed
<1>3. N = Len(article)
  <2>1. \A a \in Ids : Grouped(a)
    BY DEF Clustered, Grouped
  <2>2. Len(article) # 0 => Len(article) \in Ids
    BY <1>2 DEF Ids
  <2> QED
    BY <1>1, <1>2, <2>1, <2>2 DEF GroupedTo
<1>4. run[N] \in Backfills
    BY <1>1, <1>2, <1>3, TracedIsBackfill
<1>5. run[N] \in Tabled(N) /\ DOMAIN run[N] = Clusters(disk)
    BY <1>1, <1>2, TabledDomain DEF Trail
<1>6. \A c \in Clusters(disk) : Group(run[N], c) = Members(disk, c)
    BY <1>1 DEF Represents
<1> QED
    BY <1>4, <1>5, <1>6

\* What the docstring of cluster.py promises, with a single clusterer outside
\* pipeline.run's handlers and articles in the order of their dates: however
\* many passes it took, and whatever was killed, the groups are those of one
\* backfill of the whole corpus.
THEOREM GroupsLikeBackfill ==
    ASSUME Solo, RunProc = {}
    PROVE  Spec => []BackfillEquivalent
<1> DEFINE Inv == OneInv /\ InOrderInv /\ TracedInv
<1>1. Init => Inv
    BY OneInit, InOrderInit, TracedInit
<1>2. Inv /\ [Next]_vars => Inv'
    BY OneNext, InOrderNext, TracedNext DEF OneInv
<1>3. Inv => BackfillEquivalent
    BY TracedEquivalent DEF OneInv
<1> HIDE DEF Inv
<1> QED
    BY <1>1, <1>2, <1>3, PTL DEF Spec

-----------------------------------------------------------------------------
(***************************************************************************)
(* Any number of clusterers: a pass never stands still.  What a step       *)
(* chooses from is never empty, and the write lock is waited for by those  *)
(* that do not hold it only.                                               *)
(***************************************************************************)
\* Some action of Step(p) has its guard.
Ready(p) ==
    \/ at[p] = "idle" /\ Pending # {}
    \/ /\ at[p] = "select"
       /\ \E a \in todo[p] : IsFirst(a, todo[p])
    \/ at[p] = "write" /\ writer = NoOne
    \/ at[p] = "title" /\ Headline(work, pick[p].into) # {}
    \/ at[p] \in {"count", "member", "commit"}

PassGoesOn ==
    \A p \in Proc : at[p] # "idle" =>
        \/ Ready(p)
        \/ at[p] = "write" /\ \E q \in Proc \ {p} : writer = q /\ Ready(q)

\* A pass that looks for its next article has one left.
NotDone == \A p \in Proc : at[p] = "select" => todo[p] # {}

LEMMA NotDoneNext == IInv /\ NotDone /\ [Next]_vars => NotDone'
<1> SUFFICES ASSUME IInv, NotDone, [Next]_vars PROVE NotDone'
    OBVIOUS
<1>1. ASSUME NEW p \in Proc, Step(p) \/ Kill(p) \/ Raise(p)
      PROVE  /\ \A q \in Proc \ {p} : at'[q] = at[q] /\ todo'[q] = todo[q]
             /\ at'[p] = "select" => todo'[p] # {}
    BY <1>1 DEF Step, Begin, Select, OutOfRange, JoinMember, JoinRefused, JoinCount, JoinTitle,
       SeedCluster, SeedMember, Commit, Kill, Raise, Ends, IInv, Typed
<1>2. CASE UNCHANGED <<at, todo>>
    BY <1>2 DEF NotDone
<1> QED
    BY <1>1, <1>2 DEF Next, Arrive, vars, NotDone

LEMMA FirstExists ==
    ASSUME Typed, NEW S \in SUBSET Ids, S # {}
    PROVE  \E a \in S : IsFirst(a, S)
<1> DEFINE R == {r \in Ids \X Ids : Before(r[1], r[2])}
<1>1. IsFiniteSet(S)
  <2>1. IsFiniteSet(1 .. Len(article))
    BY FS_Interval DEF Typed
  <2> QED
    BY <2>1, FS_Subset DEF Ids
<1>2. \A a \in Ids : a \in Nat /\ article[a].pub \in Int
    BY ArticleType DEF Article, Ids
<1>3. /\ \A a \in S : <<a, a>> \notin R
      /\ \A a, b, c \in S : <<a, b>> \in R /\ <<b, c>> \in R => <<a, c>> \in R
    BY <1>2 DEF Before
<1>4. \E a \in S : \A b \in S : <<b, a>> \notin R
  <2> HIDE DEF R
  <2> QED
    BY <1>1, <1>3, Unbeaten
<1>5. PICK a \in S : \A b \in S : ~Before(b, a)
    BY <1>4
<1>6. \A b \in S \ {a} : Before(a, b)
    BY <1>2, <1>5 DEF Before
<1> QED
    BY <1>6 DEF IsFirst

LEMMA HeadlineExists ==
    ASSUME Typed, NEW db, NEW c, Members(db, c) # {}
    PROVE  Headline(db, c) # {}
<1> DEFINE S == Members(db, c)
           w(a) == Weight[article[a].src]
           heavier(b, a) == w(b) > w(a) \/ (w(b) = w(a) /\ article[b].pub < article[a].pub)
           R == {r \in S \X S : heavier(r[1], r[2])}
<1>1. IsFiniteSet(S)
    BY MembersFinite
<1>2. \A a \in S : w(a) \in Nat /\ article[a].pub \in Int
    BY ArticleType, WeightAssumption DEF Members, Article
<1>3. /\ \A a \in S : <<a, a>> \notin R
      /\ \A a, b, d \in S : <<a, b>> \in R /\ <<b, d>> \in R => <<a, d>> \in R
  <2> HIDE DEF S, w
  <2> QED
    BY <1>2
<1>4. \E a \in S : \A b \in S : <<b, a>> \notin R
  <2> HIDE DEF R, S
  <2> QED
    BY <1>1, <1>3, Unbeaten DEF S
<1>5. PICK a \in S : \A b \in S : <<b, a>> \notin R
    BY <1>4
<1>6. \A b \in S : w(a) > w(b) \/ (w(a) = w(b) /\ article[a].pub <= article[b].pub)
  <2>1. \A b \in S : ~heavier(b, a)
    <3>1. \A b \in S : <<b, a>>[1] = b /\ <<b, a>>[2] = a /\ <<b, a>> \in S \X S
        OBVIOUS
    <3> HIDE DEF S, heavier
    <3> QED
        BY <1>5, <3>1
  <2> HIDE DEF S, w
  <2> QED
    BY <1>2, <2>1
<1> QED
    BY <1>6 DEF Headline

LEMMA GoesOn == ASSUME IInv, NotDone PROVE PassGoesOn
<1>1. ASSUME NEW p \in Proc, at[p] \notin {"idle", "write"} PROVE Ready(p)
  <2>1. CASE at[p] = "select"
    <3>1. todo[p] \in SUBSET Ids /\ todo[p] # {}
        BY <2>1 DEF NotDone, IInv, Typed
    <3> QED
        BY <2>1, <3>1, FirstExists DEF Ready, IInv
  <2>2. CASE at[p] = "title"
    <3>1. pick[p].art \in Ids /\ <<pick[p].art, pick[p].into>> \in work.member
        BY <2>2 DEF IInv, Typed, Discipline, Placing, Writing
    <3>2. Members(work, pick[p].into) # {}
        BY <3>1 DEF Members
    <3> QED
        BY <2>2, <3>2, HeadlineExists DEF Ready, IInv
  <2> QED
    BY <1>1, <2>1, <2>2 DEF Ready, IInv, Typed, Stages
<1>2. ASSUME NEW p \in Proc, at[p] = "write", writer # NoOne
      PROVE  \E q \in Proc \ {p} : writer = q /\ Ready(q)
  <2>1. writer \in Proc /\ at[writer] \in Writing
    BY <1>2 DEF IInv, Typed, Discipline, Placing
  <2> QED
    BY <1>1, <1>2, <2>1 DEF Writing
<1> QED
    BY <1>1, <1>2 DEF PassGoesOn, Ready

\* For any number of clusterers, any corpus and any faults: a pass finds the
\* first of what it has left, a title for the cluster it wrote, and a lock
\* whose holder can go on.  Only faults and dates end it early.
THEOREM PassNeverStuck == Spec => []PassGoesOn
<1>1. Init => NotDone
    BY DEF Init, NotDone
<1> QED
    BY <1>1, NotDoneNext, GoesOn, Invariance, PTL DEF Spec
=============================================================================
