--------------------------- MODULE ClusterPromise ---------------------------
(***************************************************************************)
(* What clustering promises, without transactions, stored means or stale   *)
(* reads: FR-501 to FR-504 as atomic placements.  An article is placed     *)
(* once.  It joins a cluster active in its window whose true centroid, the *)
(* mean of the members' embeddings, is above the threshold and at least as *)
(* close as any other, or seeds a new cluster when there is none.          *)
(***************************************************************************)
EXTENDS Integers, Sequences, Vectors

CONSTANTS Arrivals, Window

VARIABLES
    article,  \* embedded articles, by id
    member,   \* set of <<article, cluster>>
    activity  \* published_at of the article each cluster took last

vars == <<article, member, activity>>

Ids == 1 .. Len(article)
Clusters == DOMAIN activity
Placed(a) == \E c \in Clusters : <<a, c>> \in member

Centroid(c) == VectorSum(LAMBDA a : article[a].vec, {a \in Ids : <<a, c>> \in member})

Candidates(a) ==
    {c \in Clusters : /\ activity[c] >= article[a].pub - Window
                      /\ Matches(article[a].vec, Centroid(c))}

Init ==
    /\ article = <<>>
    /\ member = {}
    /\ activity = <<>>

Arrive ==
    /\ \E r \in Arrivals : article' = Append(article, r)
    /\ UNCHANGED <<member, activity>>

Join(a) ==
    /\ ~Placed(a)
    /\ \E c \in Candidates(a) :
        /\ \A d \in Candidates(a) : ~Closer(article[a].vec, Centroid(d), Centroid(c))
        /\ member' = member \cup {<<a, c>>}
        /\ activity' = [activity EXCEPT ![c] = article[a].pub]
    /\ UNCHANGED article

Seed(a) ==
    /\ ~Placed(a)
    /\ Candidates(a) = {}
    /\ member' = member \cup {<<a, Len(activity) + 1>>}
    /\ activity' = Append(activity, article[a].pub)
    /\ UNCHANGED article

Next == Arrive \/ \E a \in Ids : Join(a) \/ Seed(a)

Spec == Init /\ [][Next]_vars
=============================================================================
