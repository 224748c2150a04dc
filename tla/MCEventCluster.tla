--------------------------- MODULE MCEventCluster ---------------------------
(***************************************************************************)
(* Instances of EventCluster.  Embeddings are the four vectors of norm 5   *)
(* in the quadrant: neighbours are similar (cosine 0.80 to 0.96), the      *)
(* others are not (0 to 0.60), so similarity is not transitive and a mean  *)
(* moves in and out of reach of an article.                                *)
(***************************************************************************)
EXTENDS EventCluster

East == <<5, 0>>
EastNorth == <<4, 3>>
NorthEast == <<3, 4>>

MCWeight == [s \in Source |-> s]

\* Two sources of different weight, publication times 0 to 3.
MCArrivals ==
    {[pub |-> t, vec |-> v, src |-> s] :
        t \in 0 .. 3, v \in {East, NorthEast}, s \in {1}} \cup
    {[pub |-> t, vec |-> EastNorth, src |-> 2] : t \in {0, 2}}

MCMinDate == -1

\* With one that is dated before everything.
MCDatedArrivals == MCArrivals \cup {[pub |-> -1, vec |-> East, src |-> 1]}

\* Fewer, for two clusterers.
MCFewArrivals ==
    {[pub |-> 0, vec |-> East, src |-> 1],
     [pub |-> 2, vec |-> EastNorth, src |-> 2],
     [pub |-> 1, vec |-> NorthEast, src |-> 1]}

\* One moment, three directions: what matters is how a mean moves.
MCSameTime == {[pub |-> 0, vec |-> v, src |-> 1] : v \in {East, EastNorth, NorthEast}}
=============================================================================
