---------------------------- MODULE EventCluster ----------------------------
(***************************************************************************)
(* Level 1 event clustering: assign_pending of pipeline/cluster.py, run by *)
(* the processes in Proc against one SQLite database.                      *)
(*                                                                         *)
(* The database has a committed state, disk, and at most one open write    *)
(* transaction, whose view is work and whose owner is writer.  A process   *)
(* reads disk (its SELECTs run outside a transaction), takes the write     *)
(* lock with its first INSERT, and publishes with commit.  A kill rolls    *)
(* back.  A caught exception does NOT roll back: run.py's handlers commit  *)
(* the connection they were given, with whatever the open transaction      *)
(* holds.  `python -m pipeline.cluster` has no handler, so there the       *)
(* transaction is lost with the process.                                   *)
(***************************************************************************)
EXTENDS Integers, Sequences, FiniteSets, Vectors

CONSTANTS
    Proc,        \* processes that may run assign_pending
    RunProc,     \* those of them that run it inside pipeline.run's handlers
    Source,      \* feed sources
    Weight,      \* source.weight, a natural for each source
    Arrivals,    \* the articles the earlier stages may hand over
    Window,      \* ACTIVE_WINDOW_H
    MinDate,     \* datetime.min
    MaxArticles, \* bound on the articles that arrive
    MaxFaults    \* bound on kills and exceptions

NoOne == "NoOne"
Article == [pub: Int, vec: Vector, src: Source]

ASSUME ProcAssumption == NoOne \notin Proc /\ RunProc \subseteq Proc
ASSUME ArrivalsAssumption == Arrivals \subseteq Article
ASSUME WeightAssumption == Weight \in [Source -> Nat]
ASSUME BoundAssumption ==
    Window \in Nat /\ MinDate \in Int /\ MaxArticles \in Nat /\ MaxFaults \in Nat

VARIABLES
    article,  \* embedded articles, by id
    disk,     \* committed article_cluster and cluster tables
    work,     \* the same tables as the open transaction sees them
    writer,   \* the process that holds the write lock
    at,       \* where each process is in assign_pending
    todo,     \* ids left of the pending list each process fetched
    pick,     \* the article being placed and the match found for it
    faults    \* kills and exceptions so far

vars == <<article, disk, work, writer, at, todo, pick, faults>>

(***************************************************************************)
(* The tables                                                              *)
(***************************************************************************)
Ids == 1 .. Len(article)
Clusters(db) == 1 .. Len(db.cluster)
Members(db, c) == {a \in Ids : <<a, c>> \in db.member}
Clustered(db) == {a \in Ids : \E c \in Clusters(db) : <<a, c>> \in db.member}

Row == [sum: Vector, count: Nat, title: Nat, sources: Nat, created: Int, updated: Int]
Tables == [member: SUBSET (Nat \X Nat), cluster: Seq(Row)]
Stages == {"idle", "select", "write", "member", "count", "title", "commit"}
NoPick == [art |-> 0, into |-> 0, sum |-> <<0, 0>>, count |-> 0]

Init ==
    /\ article = <<>>
    /\ disk = [member |-> {}, cluster |-> <<>>]
    /\ work = disk
    /\ writer = NoOne
    /\ at = [p \in Proc |-> "idle"]
    /\ todo = [p \in Proc |-> {}]
    /\ pick = [p \in Proc |-> NoPick]
    /\ faults = 0

(***************************************************************************)
(* Queries                                                                 *)
(***************************************************************************)
PendingForgetsMembership == Ids

PendingAfterLatest == {a \in Ids : \A b \in Clustered(disk) : article[b].pub < article[a].pub}

\* Embedded articles without an article_cluster row.
Pending == Ids \ Clustered(disk)

\* ORDER BY published_at ASC, id ASC
Before(a, b) ==
    \/ article[a].pub < article[b].pub
    \/ article[a].pub = article[b].pub /\ a < b

IsFirst(a, s) == \A b \in s \ {a} : Before(a, b)

ActiveStrict(a) == {c \in Clusters(disk) : disk.cluster[c].updated > article[a].pub - Window}

\* updated_at >= published_at - ACTIVE_WINDOW_H, with no upper bound.
Active(a) == {c \in Clusters(disk) : disk.cluster[c].updated >= article[a].pub - Window}

\* The candidates _best_match may return: the query has no ORDER BY, so
\* among equal scores any may come first.
Best(a) ==
    LET v == article[a].vec
        s == [c \in Clusters(disk) |-> disk.cluster[c].sum]
        above == {c \in Active(a) : Matches(v, s[c])}
    IN  {c \in above : \A d \in above : ~Closer(v, s[d], s[c])}

\* The members _recompute_canonical_title may take the title of.
Headline(db, c) ==
    LET w(a) == Weight[article[a].src]
    IN  {a \in Members(db, c) : \A b \in Members(db, c) :
            \/ w(a) > w(b)
            \/ w(a) = w(b) /\ article[a].pub <= article[b].pub}

DistinctSources(db, c) == Cardinality({article[a].src : a \in Members(db, c)})

(***************************************************************************)
(* The steps of assign_pending                                             *)
(***************************************************************************)
\* Ingest, simhash and embed commit one more embedded article.
Arrive ==
    /\ Len(article) < MaxArticles
    /\ writer = NoOne
    /\ \E r \in Arrivals : article' = Append(article, r)
    /\ UNCHANGED <<disk, work, writer, at, todo, pick, faults>>

\* The pending list is fetched once, up front.
Begin(p) ==
    /\ at[p] = "idle"
    /\ Pending # {}
    /\ at' = [at EXCEPT ![p] = "select"]
    /\ todo' = [todo EXCEPT ![p] = Pending]
    /\ UNCHANGED <<article, disk, work, writer, pick, faults>>

\* datetime knows no date before MinDate.
HasCutoff(a) == article[a].pub - Window >= MinDate

\* Read the candidates for the next article and decide.
Select(p) ==
    /\ at[p] = "select"
    /\ \E a \in todo[p] :
        /\ IsFirst(a, todo[p]) /\ HasCutoff(a)
        /\ \/ /\ Best(a) = {}
              /\ pick' = [pick EXCEPT ![p] = [NoPick EXCEPT !.art = a]]
           \/ \E c \in Best(a) :
                pick' = [pick EXCEPT ![p] =
                    [art |-> a, into |-> c,
                     sum |-> disk.cluster[c].sum, count |-> disk.cluster[c].count]]
    /\ at' = [at EXCEPT ![p] = "write"]
    /\ UNCHANGED <<article, disk, work, writer, todo, faults>>

\* The subtraction overflows: end of the pass, with nothing open.
OutOfRange(p) ==
    /\ at[p] = "select"
    /\ \E a \in todo[p] : IsFirst(a, todo[p]) /\ ~HasCutoff(a)
    /\ at' = [at EXCEPT ![p] = "idle"]
    /\ todo' = [todo EXCEPT ![p] = {}]
    /\ UNCHANGED <<article, disk, work, writer, pick, faults>>

\* _join_cluster, first statement: the membership row.
JoinMember(p) ==
    LET k == pick[p] IN
    /\ at[p] = "write" /\ k.into # 0 /\ writer = NoOne
    /\ <<k.art, k.into>> \notin disk.member
    /\ work' = [disk EXCEPT !.member = @ \cup {<<k.art, k.into>>}]
    /\ writer' = p
    /\ at' = [at EXCEPT ![p] = "count"]
    /\ UNCHANGED <<article, disk, todo, pick, faults>>

\* The same statement meeting the primary key: IntegrityError, end of the pass.
JoinRefused(p) ==
    LET k == pick[p] IN
    /\ at[p] = "write" /\ k.into # 0 /\ writer = NoOne
    /\ <<k.art, k.into>> \in disk.member
    /\ at' = [at EXCEPT ![p] = "idle"]
    /\ todo' = [todo EXCEPT ![p] = {}]
    /\ pick' = [pick EXCEPT ![p] = NoPick]
    /\ UNCHANGED <<article, disk, work, writer, faults>>

JoinedRowKeepsActivity(row, k) ==
    [row EXCEPT !.sum = Plus(k.sum, article[k.art].vec), !.count = k.count + 1]

JoinedRowKeepsCount(row, k) ==
    [row EXCEPT !.sum = Plus(k.sum, article[k.art].vec), !.updated = article[k.art].pub]

\* The row after the second statement: the mean and the count are computed
\* from the values Select read, updated_at is the article's published_at.
JoinedRow(row, k) ==
    [row EXCEPT !.sum = Plus(k.sum, article[k.art].vec),
                !.count = k.count + 1,
                !.updated = article[k.art].pub]

\* _join_cluster, second statement: centroid, member_count, updated_at.
JoinCount(p) ==
    /\ at[p] = "count"
    /\ work' = [work EXCEPT !.cluster[pick[p].into] = JoinedRow(@, pick[p])]
    /\ at' = [at EXCEPT ![p] = "title"]
    /\ UNCHANGED <<article, disk, writer, todo, pick, faults>>

JoinTitleFromCommitted(p) ==
    LET c == pick[p].into IN
    /\ at[p] = "title"
    /\ \E t \in Headline(disk, c) :
        work' = [work EXCEPT !.cluster[c] =
                    [@ EXCEPT !.title = t, !.sources = DistinctSources(disk, c)]]
    /\ at' = [at EXCEPT ![p] = "commit"]
    /\ UNCHANGED <<article, disk, writer, todo, pick, faults>>

\* _join_cluster, third statement: canonical_title and distinct_sources,
\* recomputed from the membership the transaction sees.
JoinTitle(p) ==
    LET c == pick[p].into IN
    /\ at[p] = "title"
    /\ \E t \in Headline(work, c) :
        work' = [work EXCEPT !.cluster[c] =
                    [@ EXCEPT !.title = t, !.sources = DistinctSources(work, c)]]
    /\ at' = [at EXCEPT ![p] = "commit"]
    /\ UNCHANGED <<article, disk, writer, todo, pick, faults>>

SeedClusterReusesId(p) ==
    LET k == pick[p]
        r == article[k.art]
    IN
    /\ at[p] = "write" /\ k.into = 0 /\ writer = NoOne
    /\ work' = [disk EXCEPT !.cluster = Append(@,
            [sum |-> r.vec, count |-> 1, title |-> k.art, sources |-> 1,
             created |-> r.pub, updated |-> r.pub])]
    /\ writer' = p
    /\ pick' = [pick EXCEPT ![p].into = Len(disk.cluster)]
    /\ at' = [at EXCEPT ![p] = "member"]
    /\ UNCHANGED <<article, disk, todo, faults>>

\* _seed_cluster, first statement: the cluster row, under the next rowid.
SeedCluster(p) ==
    LET k == pick[p]
        r == article[k.art]
    IN
    /\ at[p] = "write" /\ k.into = 0 /\ writer = NoOne
    /\ work' = [disk EXCEPT !.cluster = Append(@,
            [sum |-> r.vec, count |-> 1, title |-> k.art, sources |-> 1,
             created |-> r.pub, updated |-> r.pub])]
    /\ writer' = p
    /\ pick' = [pick EXCEPT ![p].into = Len(disk.cluster) + 1]
    /\ at' = [at EXCEPT ![p] = "member"]
    /\ UNCHANGED <<article, disk, todo, faults>>

\* _seed_cluster, second statement: the membership row.
SeedMember(p) ==
    /\ at[p] = "member"
    /\ work' = [work EXCEPT !.member = @ \cup {<<pick[p].art, pick[p].into>>}]
    /\ at' = [at EXCEPT ![p] = "commit"]
    /\ UNCHANGED <<article, disk, writer, todo, pick, faults>>

\* conn.commit() at the end of each article's iteration.
Commit(p) ==
    /\ at[p] = "commit"
    /\ disk' = work
    /\ UNCHANGED work
    /\ writer' = NoOne
    /\ todo' = [todo EXCEPT ![p] = @ \ {pick[p].art}]
    /\ at' = [at EXCEPT ![p] = IF todo'[p] = {} THEN "idle" ELSE "select"]
    /\ pick' = [pick EXCEPT ![p] = NoPick]
    /\ UNCHANGED <<article, faults>>

(***************************************************************************)
(* Failure                                                                 *)
(***************************************************************************)
Ends(p) ==
    /\ faults < MaxFaults
    /\ faults' = faults + 1
    /\ at' = [at EXCEPT ![p] = "idle"]
    /\ todo' = [todo EXCEPT ![p] = {}]
    /\ pick' = [pick EXCEPT ![p] = NoPick]
    /\ UNCHANGED article

\* The process dies, or an exception ends the pass while it has no
\* transaction open: SQLite discards what was not committed.
Kill(p) ==
    /\ at[p] # "idle"
    /\ Ends(p)
    /\ disk' = disk
    /\ IF writer = p THEN work' = disk /\ writer' = NoOne
                     ELSE UNCHANGED <<work, writer>>

\* An exception or a second Ctrl+C surfaces between two statements.  The
\* handlers of pipeline.run update run_log and commit: the open transaction
\* goes with it.  Outside pipeline.run the connection is dropped.
Raise(p) ==
    /\ writer = p
    /\ Ends(p)
    /\ writer' = NoOne
    /\ IF p \in RunProc THEN disk' = work /\ UNCHANGED work
                        ELSE work' = disk /\ UNCHANGED disk

(***************************************************************************)
(* Specifications                                                          *)
(***************************************************************************)
Step(p) ==
    \/ Begin(p) \/ Select(p) \/ OutOfRange(p)
    \/ JoinMember(p) \/ JoinRefused(p) \/ JoinCount(p) \/ JoinTitle(p)
    \/ SeedCluster(p) \/ SeedMember(p) \/ Commit(p)

Next == Arrive \/ \E p \in Proc : Step(p) \/ Kill(p) \/ Raise(p)

Spec == Init /\ [][Next]_vars

\* Task Scheduler starts a pass again and again, and a process that runs
\* keeps running until it ends or is killed.
FairSpec == Spec /\ \A p \in Proc : WF_vars(Step(p))

-----------------------------------------------------------------------------
Typed ==
    /\ article \in Seq(Arrivals) /\ Len(article) <= MaxArticles
    /\ disk \in Tables /\ work \in Tables
    /\ writer \in Proc \cup {NoOne}
    /\ writer = NoOne => work = disk
    /\ at \in [Proc -> Stages]
    /\ todo \in [Proc -> SUBSET Ids]
    /\ pick \in [Proc -> [art: Nat, into: Nat, sum: Vector, count: Nat]]
    /\ faults \in 0 .. MaxFaults

\* The REFERENCES clauses of article_cluster, in the rows of a connection.
ForeignKeys(db) == db.member \subseteq Ids \X Clusters(db)

\* Types, and referential integrity: the membership rows name articles and
\* clusters that exist, on disk after any kill or handler commit and at each
\* statement of an open transaction, so the foreign keys refuse none of them.
TypeOK == Typed /\ ForeignKeys(disk) /\ ForeignKeys(work)

\* FR-501 (and the comment above assign_pending): no article is ever a
\* member of two clusters, at whatever statement a pass was killed, raised or
\* was committed half done by a handler, as long as one process clusters at a
\* time.  Two that cluster at once do put an article into two clusters.
AtMostOneCluster ==
    \A a \in Ids : \A c, d \in Clusters(disk) :
        <<a, c>> \in disk.member /\ <<a, d>> \in disk.member => c = d

\* FR-504: the count and the mean a committed cluster row stores are those
\* of its membership, after any number of increments.
MeanAgrees ==
    \A c \in Clusters(disk) :
        /\ disk.cluster[c].count = Cardinality(Members(disk, c))
        /\ disk.cluster[c].sum = VectorSum(LAMBDA a : article[a].vec, Members(disk, c))

\* FR-506 and FR-507: every committed cluster has members, the title of the
\* heaviest source's earliest one and the number of their sources.  Unlike
\* the mean these are recomputed inside the transaction, so they hold for
\* concurrent clusterers too.
DisplayAgrees ==
    \A c \in Clusters(disk) :
        /\ disk.cluster[c].title \in Headline(disk, c)
        /\ disk.cluster[c].sources = DistinctSources(disk, c)

\* Articles reached the database in the order they were published in.
ArrivedInOrder == \A a, b \in Ids : a < b => article[a].pub <= article[b].pub

\* FR-503 and render.py's reading of updated_at: a cluster's recorded
\* activity is no older than any of its members, so a cluster with an
\* article inside the window is inside the window.
ActivityIsLatest ==
    \A c \in Clusters(disk) : \A a \in Members(disk, c) :
        article[a].pub <= disk.cluster[c].updated

\* What the docstring of simhash.py expects: an article that got a copy of an
\* earlier one's embedding lands in that one's cluster by ordinary matching.
CopiesLandTogether ==
    \A a, b \in Clustered(disk) :
        /\ article[a].vec = article[b].vec
        /\ article[a].pub \in article[b].pub .. article[b].pub + Window
        => \E c \in Clusters(disk) : {a, b} \subseteq Members(disk, c)

\* The promise with the committed rows for its state.
Promise == INSTANCE ClusterPromise WITH
    member <- disk.member,
    activity <- [c \in Clusters(disk) |-> disk.cluster[c].updated]

\* FR-501 to FR-504: with one clusterer every commit is one placement of the
\* promise, although the stored mean it was decided by is an increment of an
\* increment, was read a step earlier and survived kills.
ImplementsPromise == Promise!Spec

\* FR-501: every embedded article is clustered in the end, through any
\* kill, exception or restart - unless some feed has sent a date clustering
\* cannot subtract its window from: that article is the first of every pass.
EventuallyClustered ==
    \A i \in 1 .. MaxArticles :
        Len(article) >= i ~> i \in Clustered(disk) \/ \E a \in Ids : ~HasCutoff(a)

\* Does not hold: the comment above assign_pending, of "every embedded,
\* unclustered article".
EveryArticleClustered ==
    \A i \in 1 .. MaxArticles : Len(article) >= i ~> i \in Clustered(disk)
-----------------------------------------------------------------------------
(***************************************************************************)
(* The clustering of the whole corpus in one pass over published_at, which *)
(* is what a backfill of a fresh database does.  A table of clusters is a  *)
(* sequence of sequences of ids in joining order; ties make it a set.      *)
(***************************************************************************)
Group(table, c) == {table[c][i] : i \in DOMAIN table[c]}

Places(table, a) ==
    LET mean(c) == VectorSum(LAMBDA i : article[i].vec, Group(table, c))
        near == {c \in DOMAIN table :
                    /\ article[table[c][Len(table[c])]].pub >= article[a].pub - Window
                    /\ Matches(article[a].vec, mean(c))}
    IN  IF near = {} THEN {Append(table, <<a>>)}
        ELSE {[table EXCEPT ![c] = Append(@, a)] :
                c \in {c \in near : \A d \in near :
                        ~Closer(article[a].vec, mean(d), mean(c))}}

ByDate[n \in Ids] == CHOOSE a \in Ids : Cardinality({b \in Ids : Before(b, a)}) = n - 1

Backfills ==
    LET after[n \in 0 .. Len(article)] ==
            IF n = 0 THEN {<<>>}
            ELSE UNION {Places(t, ByDate[n]) : t \in after[n - 1]}
    IN  after[Len(article)]

\* cluster.py's docstring: incremental clustering and a later backfill over
\* the same articles group them alike - if they arrived in order.
BackfillEquivalent ==
    ArrivedInOrder /\ Clustered(disk) = Ids =>
        \E t \in Backfills :
            {Members(disk, c) : c \in Clusters(disk)} = {Group(t, c) : c \in DOMAIN t}
=============================================================================
