------------------------------ MODULE MCEnrich ------------------------------
(***************************************************************************)
(* Enrich for TLC: three articles, of which the second is near both others *)
(* and these are not near each other.  The models are alike, so the one    *)
(* that is configured first is named.                                      *)
(***************************************************************************)
EXTENDS Enrich

CONSTANTS p, q, m1, m2

MCArticle == 1 .. 3
MCPair == 1 .. 2
MCPublished == [a \in Article |-> IF a = 3 THEN 1 ELSE 0]
MCNear == {<<a, b>> \in Article \X Article : a - b \in {-1, 1}}

FirstModel == Init /\ setting = m1
MCSpec == FirstModel /\ [][Next]_vars /\ \A r \in Proc : WF_vars(Step(r))
=============================================================================
