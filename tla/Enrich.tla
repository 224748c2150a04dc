------------------------------- MODULE Enrich -------------------------------
(***************************************************************************)
(* What happens to an article between its INSERT and its cluster:          *)
(* apply_bypass of pipeline/simhash.py, embed_pending of pipeline/embed.py *)
(* and what assign_pending of pipeline/cluster.py takes from them.         *)
(*                                                                         *)
(* A vector is named by the article whose text it encodes and the model    *)
(* that encoded it.  Near stands for a Hamming distance of at most         *)
(* SIMHASH_HAMMING, which is symmetric and not transitive.  The database   *)
(* is as in EventCluster: disk is committed, work is what the open         *)
(* transaction of writer sees.  The similarity has any outcome; titles,    *)
(* sources and the weights of a mean are in EventCluster.                  *)
(***************************************************************************)
EXTENDS Integers, FiniteSets, Sequences

CONSTANTS
    Proc,       \* processes: pipeline.run and the entry points beside it
    RunProc,    \* those of them that run inside pipeline.run's handlers
    Article,    \* articles the feeds may bring, naturals from 1
    Published,  \* published_at of each, in hours of ACTIVE_WINDOW_H's kind
    Near,       \* pairs of articles with similar titles
    Model,      \* embedding models that were ever configured
    Batch,      \* EMBED_BATCH_SIZE
    Window,     \* ACTIVE_WINDOW_H
    MaxTime,    \* bound on the clock
    MaxChanges, \* bound on changes of EMBED_MODEL_NAME
    MaxFaults   \* bound on kills and exceptions

NoOne == "NoOne"

ASSUME EnrichProcAssumption == NoOne \notin Proc /\ RunProc \subseteq Proc
ASSUME NearAssumption ==
    /\ Published \in [Article -> Int]
    /\ \A a, b \in Article : <<a, b>> \in Near <=> <<b, a>> \in Near
ASSUME EnrichBoundAssumption ==
    /\ Article \subseteq Nat \ {0} /\ Batch \in Nat \ {0} /\ Window \in Nat
    /\ MaxTime \in Nat /\ MaxChanges \in Nat /\ MaxFaults \in Nat

VARIABLES
    now,     \* the clock
    setting, \* EMBED_MODEL_NAME in config.py
    disk,    \* committed article and cluster tables
    work,    \* the tables as the open transaction sees them
    writer,  \* the process whose transaction is open
    at,      \* where each process is
    model,   \* EMBED_MODEL_NAME as each process imported it
    cutoff,  \* the window each bypass computed from its clock
    todo,    \* the rows each process fetched and has not gone through
    pick,    \* the article each clusterer places, and what it read for that
    known,   \* the articles that were there when it looked for pending ones
    used     \* how much of each bound is spent

local == <<at, model, cutoff, todo, pick, known>>
vars == <<now, setting, disk, work, writer, local, used>>

Vector == [of: Article, model: Model]
NoVector == [of |-> 0, model |-> "NoModel"]
\* member has the rows of article_cluster; mean what went into the centroid,
\* the articles that were added to it and the vector of each.
Mean == SUBSET (Article \X Vector)
Cluster == [member: SUBSET Article, mean: Mean, updated: Int]
NoRows == [a \in {} |-> NoVector]
Pick == [article: Article \cup {0}, vector: Vector \cup {NoVector}, cluster: Nat, mean: Mean]
NoPick == [article |-> 0, vector |-> NoVector, cluster |-> 0, mean |-> {}]

Init ==
    /\ now = 0
    /\ setting \in Model
    /\ disk = [article |-> {}, simhash |-> {}, embedding |-> [a \in Article |-> NoVector],
               cluster |-> <<>>]
    /\ work = disk
    /\ writer = NoOne
    /\ at = [p \in Proc |-> "idle"]
    /\ model = [p \in Proc |-> setting]
    /\ cutoff = [p \in Proc |-> 0]
    /\ todo = [p \in Proc |-> NoRows]
    /\ pick = [p \in Proc |-> NoPick]
    /\ known = [p \in Proc |-> {}]
    /\ used = [changes |-> 0, faults |-> 0]

Spend(what, bound) ==
    used[what] < bound /\ used' = [used EXCEPT ![what] = @ + 1]

\* What p reads: its own open transaction, or what is committed.
View(p) == IF writer = p THEN work ELSE disk

Writes(p, new) ==
    /\ writer \in {NoOne, p}
    /\ work' = new
    /\ writer' = p
    /\ UNCHANGED disk

\* conn.commit(), which does nothing when no statement wrote.
Commits(p) ==
    IF writer = p THEN disk' = work /\ writer' = NoOne /\ UNCHANGED work
                  ELSE UNCHANGED <<disk, work, writer>>

Without(f, a) == [x \in DOMAIN f \ {a} |-> f[x]]
Goes(p, place) == at' = [at EXCEPT ![p] = place]
Fetches(p, s) == todo' = [todo EXCEPT ![p] = [a \in s |-> View(p).embedding[a]]]
Drops(p, a) == todo' = [todo EXCEPT ![p] = Without(@, a)]

(***************************************************************************)
(* Around the stages                                                       *)
(***************************************************************************)
Tick ==
    /\ now < MaxTime
    /\ now' = now + 1
    /\ UNCHANGED <<setting, disk, work, writer, local, used>>

\* An operator edits config.py.
ChangeModel ==
    /\ Spend("changes", MaxChanges)
    /\ setting' \in Model \ {setting}
    /\ UNCHANGED <<now, disk, work, writer, local>>

\* Ingest commits an article, without simhash and embedding.
Arrive(a) ==
    /\ writer = NoOne
    /\ a \notin disk.article /\ Published[a] <= now
    /\ disk' = [disk EXCEPT !.article = @ \cup {a}]
    /\ work' = disk'
    /\ UNCHANGED <<now, setting, writer, local, used>>

\* A process imports config and starts: pipeline.run with the bypass,
\* `python -m pipeline.embed` with the embedding.
Begin(p) ==
    /\ at[p] = "idle"
    /\ model' = [model EXCEPT ![p] = setting]
    /\ Goes(p, IF p \in RunProc THEN "hash" ELSE "embed")
    /\ UNCHANGED <<now, setting, disk, work, writer, cutoff, todo, pick, known, used>>

(***************************************************************************)
(* pipeline/simhash.py                                                     *)
(***************************************************************************)
\* _compute_pending_simhashes: titles do not change, so the rows it fetched
\* are hashed whatever happens meanwhile.
ReadUnhashed(p) ==
    /\ at[p] = "hash"
    /\ Fetches(p, disk.article \ disk.simhash)
    /\ Goes(p, "hashing")
    /\ UNCHANGED <<now, setting, disk, work, writer, model, cutoff, pick, known, used>>

Hash(p) ==
    /\ at[p] = "hashing"
    /\ \E a \in DOMAIN todo[p] :
        /\ Writes(p, [View(p) EXCEPT !.simhash = @ \cup {a}])
        /\ Drops(p, a)
    /\ UNCHANGED <<now, setting, at, model, cutoff, pick, known, used>>

Hashed(p) ==
    /\ at[p] = "hashing" /\ DOMAIN todo[p] = {}
    /\ Commits(p)
    /\ Goes(p, "bypass")
    /\ UNCHANGED <<now, setting, model, cutoff, todo, pick, known, used>>

BypassableAll == {a \in disk.article : a \in disk.simhash}

\* embedding IS NULL AND simhash IS NOT NULL
Bypassable == {a \in disk.article : a \in disk.simhash /\ disk.embedding[a] = NoVector}

\* apply_bypass: its candidates, fetched after the window was computed.
ReadCandidates(p) ==
    /\ at[p] = "bypass"
    /\ cutoff' = [cutoff EXCEPT ![p] = now - Window]
    /\ Fetches(p, Bypassable)
    /\ Goes(p, "bypassing")
    /\ UNCHANGED <<now, setting, disk, work, writer, model, pick, known, used>>

\* _find_syndication_match: the query has no ORDER BY, any match may be first.
Matches(p, a) ==
    LET db == View(p) IN
    {m \in db.article \ {a} :
        /\ m \in db.simhash /\ db.embedding[m] # NoVector
        /\ db.embedding[m].model = model[p]
        /\ Published[m] >= cutoff[p]
        /\ <<a, m>> \in Near}

\* The update does not look whether the row is still without an embedding.
Bypass(p) ==
    /\ at[p] = "bypassing"
    /\ \E a \in DOMAIN todo[p] :
        /\ \/ /\ Matches(p, a) = {}
              /\ UNCHANGED <<disk, work, writer>>
           \/ \E m \in Matches(p, a) :
                Writes(p, [View(p) EXCEPT !.embedding[a] = View(p).embedding[m]])
        /\ Drops(p, a)
    /\ UNCHANGED <<now, setting, at, model, cutoff, pick, known, used>>

Bypassed(p) ==
    /\ at[p] = "bypassing" /\ DOMAIN todo[p] = {}
    /\ Commits(p)
    /\ cutoff' = [cutoff EXCEPT ![p] = 0]
    /\ Goes(p, "embed")
    /\ UNCHANGED <<now, setting, model, todo, pick, known, used>>

(***************************************************************************)
(* pipeline/embed.py                                                       *)
(***************************************************************************)
PendingNull(p) == {a \in disk.article : disk.embedding[a] = NoVector}

\* embedding IS NULL OR embed_model != EMBED_MODEL_NAME
Pending(p) ==
    {a \in disk.article : disk.embedding[a] = NoVector \/ disk.embedding[a].model # model[p]}

\* The rows are fetched before the model is loaded.
ReadPending(p) ==
    /\ at[p] = "embed"
    /\ Fetches(p, Pending(p))
    /\ known' = [known EXCEPT ![p] = disk.article]
    /\ Goes(p, "encode")
    /\ UNCHANGED <<now, setting, disk, work, writer, model, cutoff, pick, used>>

\* A batch, encoded and not yet written: the rest of its rows stay in todo.
\* Rows of the batch are those with a vector of their own in it.
Own(p, a) == [of |-> a, model |-> model[p]]
Encoded(p) == {a \in DOMAIN todo[p] : todo[p][a] = Own(p, a)}

Encode(p) ==
    /\ at[p] = "encode"
    /\ \E s \in SUBSET DOMAIN todo[p] :
        /\ s # {} /\ Cardinality(s) <= Batch
        /\ s # DOMAIN todo[p] => Cardinality(s) = Batch
        /\ todo' = [todo EXCEPT ![p] = [a \in DOMAIN @ |-> IF a \in s THEN Own(p, a) ELSE @[a]]]
    /\ Goes(p, "store")
    /\ UNCHANGED <<now, setting, disk, work, writer, model, cutoff, pick, known, used>>

Store(p) ==
    /\ at[p] = "store"
    /\ \E a \in Encoded(p) :
        /\ Writes(p, [View(p) EXCEPT !.embedding[a] = Own(p, a)])
        /\ Drops(p, a)
    /\ UNCHANGED <<now, setting, at, model, cutoff, pick, known, used>>

StoredWithoutCommit(p) ==
    /\ at[p] = "store" /\ Encoded(p) = {}
    /\ UNCHANGED <<disk, work, writer>>
    /\ Goes(p, "encode")
    /\ UNCHANGED <<now, setting, model, cutoff, todo, pick, known, used>>

\* The commit of each batch.
Stored(p) ==
    /\ at[p] = "store" /\ Encoded(p) = {}
    /\ Commits(p)
    /\ Goes(p, "encode")
    /\ UNCHANGED <<now, setting, model, cutoff, todo, pick, known, used>>

\* Nothing left: a run goes on to its clusters.
Embedded(p) ==
    /\ at[p] = "encode" /\ DOMAIN todo[p] = {}
    /\ Goes(p, IF p \in RunProc THEN "cluster" ELSE "idle")
    /\ UNCHANGED <<now, setting, disk, work, writer, model, cutoff, todo, pick, known, used>>

(***************************************************************************)
(* pipeline/cluster.py                                                     *)
(***************************************************************************)
Members == UNION {disk.cluster[c].member : c \in DOMAIN disk.cluster}

\* Mutant: without the conditions on embedding and embed_model.
ReadUnclusteredAny(p) ==
    /\ at[p] = "cluster"
    /\ Fetches(p, disk.article \ Members)
    /\ known' = [known EXCEPT ![p] = {}]
    /\ Goes(p, "placing")
    /\ UNCHANGED <<now, setting, disk, work, writer, model, cutoff, pick, used>>

\* The embeddings are fetched with the list.
ReadUnclustered(p) ==
    /\ at[p] = "cluster"
    /\ Fetches(p, {a \in disk.article \ Members : disk.embedding[a] # NoVector
                                                 /\ disk.embedding[a].model = model[p]})
    /\ known' = [known EXCEPT ![p] = {}]
    /\ Goes(p, "placing")
    /\ UNCHANGED <<now, setting, disk, work, writer, model, cutoff, pick, used>>

\* _active_clusters does not ask for the model of a centroid.
Active(p, a) == {c \in DOMAIN disk.cluster : disk.cluster[c].updated >= Published[a] - Window}

\* The next article in published_at order, with no cluster near enough or one
\* that is best, whose centroid was read for the comparison.
Choose(p) ==
    /\ at[p] = "placing"
    /\ \E a \in DOMAIN todo[p] :
        /\ \A b \in DOMAIN todo[p] : Published[a] <= Published[b]
        /\ Drops(p, a)
        /\ \/ /\ pick' = [pick EXCEPT ![p] =
                     [article |-> a, vector |-> todo[p][a], cluster |-> 0, mean |-> {}]]
              /\ Goes(p, "seed")
           \/ /\ \E c \in Active(p, a) :
                   pick' = [pick EXCEPT ![p] =
                     [article |-> a, vector |-> todo[p][a], cluster |-> c, mean |-> disk.cluster[c].mean]]
              /\ Goes(p, "join")
    /\ UNCHANGED <<now, setting, disk, work, writer, model, cutoff, known, used>>

\* INSERT INTO article_cluster.  Its primary key refuses a row that is there:
\* the pass ends, as by Raise.
Enters(p) ==
    /\ pick[p].article \notin View(p).cluster[pick[p].cluster].member
    /\ Writes(p, [View(p) EXCEPT !.cluster[pick[p].cluster].member = @ \cup {pick[p].article}])
    /\ UNCHANGED <<now, setting, model, cutoff, todo, pick, known, used>>

\* The new centroid is made of the one that was read.
NewMean(p) == pick[p].mean \cup {<<pick[p].article, pick[p].vector>>}

\* _join_cluster: the row of the member, then that of the cluster.  Its last
\* statement, title and sources, writes nothing that is here.
JoinMember(p) ==
    /\ at[p] = "join"
    /\ Enters(p)
    /\ Goes(p, "mean")

JoinMean(p) ==
    /\ at[p] = "mean"
    /\ Writes(p, [View(p) EXCEPT !.cluster[pick[p].cluster] =
                    [member |-> @.member, mean |-> NewMean(p), updated |-> Published[pick[p].article]]])
    /\ Goes(p, "placed")
    /\ UNCHANGED <<now, setting, model, cutoff, todo, pick, known, used>>

\* _seed_cluster: the row of the cluster, then that of the member.
SeedCluster(p) ==
    /\ at[p] = "seed"
    /\ Writes(p, [View(p) EXCEPT !.cluster = Append(@,
                    [member |-> {}, mean |-> NewMean(p), updated |-> Published[pick[p].article]])])
    /\ pick' = [pick EXCEPT ![p].cluster = Len(View(p).cluster) + 1]
    /\ Goes(p, "seeded")
    /\ UNCHANGED <<now, setting, model, cutoff, todo, known, used>>

SeedMember(p) ==
    /\ at[p] = "seeded"
    /\ Enters(p)
    /\ Goes(p, "placed")

\* The commit of each article.
PlacedOne(p) ==
    /\ at[p] = "placed"
    /\ Commits(p)
    /\ pick' = [pick EXCEPT ![p] = NoPick]
    /\ Goes(p, "placing")
    /\ UNCHANGED <<now, setting, model, cutoff, todo, known, used>>

Placed(p) ==
    /\ at[p] = "placing" /\ DOMAIN todo[p] = {}
    /\ Goes(p, "idle")
    /\ UNCHANGED <<now, setting, disk, work, writer, model, cutoff, todo, pick, known, used>>

(***************************************************************************)
(* Failure                                                                 *)
(***************************************************************************)
Ends(p) ==
    /\ at[p] # "idle"
    /\ Spend("faults", MaxFaults)
    /\ Goes(p, "idle")
    /\ todo' = [todo EXCEPT ![p] = NoRows]
    /\ pick' = [pick EXCEPT ![p] = NoPick]
    /\ cutoff' = [cutoff EXCEPT ![p] = 0]
    /\ known' = [known EXCEPT ![p] = {}]
    /\ UNCHANGED <<now, setting, model>>

\* The process dies, and its open transaction with it.
Kill(p) ==
    /\ Ends(p)
    /\ IF writer = p THEN work' = disk /\ writer' = NoOne
                     ELSE UNCHANGED <<work, writer>>
    /\ UNCHANGED disk

\* An exception reaches a handler of pipeline.run, which commits; elsewhere
\* the connection is dropped.
Raise(p) ==
    /\ writer = p
    /\ Ends(p)
    /\ writer' = NoOne
    /\ IF p \in RunProc THEN disk' = work /\ UNCHANGED work
                        ELSE work' = disk /\ UNCHANGED disk

Step(p) ==
    \/ Begin(p) \/ ReadUnhashed(p) \/ Hash(p) \/ Hashed(p)
    \/ ReadCandidates(p) \/ Bypass(p) \/ Bypassed(p)
    \/ ReadPending(p) \/ Encode(p) \/ Store(p) \/ Stored(p) \/ Embedded(p)
    \/ ReadUnclustered(p) \/ Choose(p) \/ JoinMember(p) \/ JoinMean(p)
    \/ SeedCluster(p) \/ SeedMember(p) \/ PlacedOne(p) \/ Placed(p)

Next ==
    \/ \E p \in Proc : Step(p) \/ Kill(p) \/ Raise(p)
    \/ \E a \in Article : Arrive(a)
    \/ Tick \/ ChangeModel

Spec == Init /\ [][Next]_vars

\* The schedule starts a process again and again, and a process goes on.
FairSpec == Spec /\ \A p \in Proc : WF_vars(Step(p))

(***************************************************************************)
(* Properties                                                              *)
(***************************************************************************)
TablesOK(db) ==
    /\ db.simhash \subseteq db.article /\ db.article \subseteq Article
    /\ db.embedding \in [Article -> Vector \cup {NoVector}]
    /\ db.cluster \in Seq(Cluster)

\* Types; what no transaction holds is committed.
TypeOK ==
    /\ now \in 0 .. MaxTime /\ setting \in Model
    /\ TablesOK(disk) /\ TablesOK(work)
    /\ writer \in Proc \cup {NoOne}
    /\ writer = NoOne => work = disk
    /\ at \in [Proc -> {"idle", "hash", "hashing", "bypass", "bypassing", "embed", "encode",
                        "store", "cluster", "placing", "join", "mean", "seed", "seeded", "placed"}]
    /\ pick \in [Proc -> Pick]
    /\ model \in [Proc -> Model]
    /\ \A p \in Proc : DOMAIN todo[p] \cup known[p] \subseteq disk.article

\* FR-401 and the stage order of pipeline.run: when a run starts clustering,
\* every article its embedding stage could see has a vector of its model,
\* whether copied, encoded by it or by a process beside it.
EmbeddedBeforeClustering ==
    \A p \in Proc : at[p] = "cluster" => \A a \in known[p] : disk.embedding[a].model = model[p]

\* FR-504, and cluster.py's "literal running mean of member embeddings": a
\* centroid is made of the vectors that articles have, as long as the model
\* stays; nothing that has entered one is encoded or copied over later, also
\* when a placement was cut short and half of it committed by a handler.
\* After a change each article is embedded anew and no centroid is.
CentroidOfEmbeddings ==
    used.changes = 0 =>
        \A c \in DOMAIN disk.cluster : \A entry \in disk.cluster[c].mean :
            disk.embedding[entry[1]] = entry[2]

\* The rest of it, its members and no other articles: an exception between
\* the statements of a placement leaves the one without the other.
MeanOfMembers ==
    \A c \in DOMAIN disk.cluster :
        disk.cluster[c].member = {entry[1] : entry \in disk.cluster[c].mean}

\* FR-405, and embed.py's "rather than silently mixing vector spaces": a
\* centroid is a mean of vectors of one model.
OneSpace ==
    \A c \in DOMAIN disk.cluster :
        \A entry, other \in disk.cluster[c].mean : entry[2].model = other[2].model

\* simhash.py's "a copied embedding of a near-identical title": an article's
\* vector is its own or that of a text whose title is near.
CopyIsNear ==
    \A a \in Article : disk.embedding[a] \notin {NoVector} =>
        disk.embedding[a].of = a \/ <<a, disk.embedding[a].of>> \in Near

\* FR-401, FR-501: an article that arrived is embedded and clustered in the
\* end, through kills, exceptions and changes of the model.
EventuallyPlaced == \A a \in Article : a \in disk.article ~> a \in Members
=============================================================================
