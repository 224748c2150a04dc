--------------------------- MODULE MCSourceState ---------------------------
(***************************************************************************)
(* SourceState for TLC: two feeds that share an entry, one with validators *)
(* and a window that slides, one without.                                  *)
(***************************************************************************)
EXTENDS SourceState

CONSTANTS f, g, i1, i2, i3

MCVersion == 1 .. 2
MCOffers ==
    [u \in {f, g} |-> [v \in MCVersion |->
        CASE u = f /\ v = 1 -> {i1, i2}
          [] u = f /\ v = 2 -> {i2, i3}
          [] u = g -> {i2}]]
MCOneFeed == [u \in {f} |-> [v \in MCVersion |-> IF v = 1 THEN {i1, i2} ELSE {i2, i3}]]
=============================================================================
