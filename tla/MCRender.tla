------------------------------ MODULE MCRender ------------------------------
(***************************************************************************)
(* Render for TLC, over the articles of MCEventCluster: a page whose       *)
(* window has all of them and one whose window has the latest.             *)
(***************************************************************************)
EXTENDS MCEventCluster, Render

MCMoments == {1, 3}

\* Of the articles of MCEventCluster those that tell the windows apart.
MCPageArrivals == {r \in MCArrivals : /\ r.vec = East => r.pub # 0
                                    /\ r.vec = NorthEast => r.pub = 2}
=============================================================================
