------------------------------ MODULE MCReports ------------------------------
(***************************************************************************)
(* Reports for TLC: a database without any of the added columns, and one   *)
(* that has one; sources known at different times, one with an article.    *)
(***************************************************************************)
EXTENDS Reports, TLC

CONSTANTS a, b

Legacy(d, failed) ==
  [started |-> [day |-> d, precise |-> FALSE], counts |-> "flat", failed |-> failed]

Before ==
  [columns |-> {}, first |-> [s \in Source |-> NoDay], listed |-> {a, b}, enabled |-> {a, b},
   articles |-> {<<a, 1>>}, log |-> <<Legacy(0, {}), Legacy(1, {b})>>]

MCOldDatabase ==
  {[db |-> Before, since |-> (a :> 0 @@ b :> 1)],
   [db |-> [Before EXCEPT !.columns = {"disabled_reason"}, !.articles = {}, !.listed = {a}, !.enabled = {a},
                       !.log = <<Legacy(1, {a})>>],
    since |-> (a :> 1 @@ b :> NoDay)]}

\* a is switched off and on, b comes into the file.
MCEdits == {<<a, "off">>, <<a, "on">>, <<b, "on">>}
=============================================================================
