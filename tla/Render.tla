------------------------------- MODULE Render -------------------------------
(***************************************************************************)
(* The page of pipeline/render.py, put together while clusterers work: one *)
(* query for the clusters in the window, then one per cluster for its      *)
(* articles.  No transaction holds the queries together, so each sees what *)
(* is committed when it runs.  At the end write_text empties the file of   *)
(* the page before and then fills it.                                      *)
(***************************************************************************)
EXTENDS EventCluster

CONSTANT Moments  \* the times at which a page may be rendered

ASSUME MomentsAssumption == Moments \subseteq Int

VARIABLES
    cutoff,   \* <<cutoff_iso>>, while a page is in the making
    card,     \* the cards so far, by cluster
    unlisted, \* clusters whose articles have not been queried
    due,      \* articles a complete page has, to state properties with
    opened,   \* whether the file has been opened for writing
    file      \* index.html: whether it is whole, and the articles on it

page == <<cutoff, card, unlisted, due, opened, file>>
NoPage == <<>>
NoCards == [c \in {} |-> {}]

InitPage ==
    /\ cutoff = NoPage /\ card = NoCards /\ unlisted = {} /\ due = {} /\ opened = FALSE
    /\ file = [whole |-> FALSE, articles |-> {}]

ListedStrict(start) == {c \in Clusters(disk) : disk.cluster[c].updated > start}

\* WHERE updated_at >= ?
Listed(start) == {c \in Clusters(disk) : disk.cluster[c].updated >= start}

\* _active_clusters, its first query.
ListClusters(now) ==
    LET active == Listed(now - Window) IN
    /\ cutoff = NoPage
    /\ cutoff' = <<now - Window>>
    /\ card' = [c \in active |-> [title |-> disk.cluster[c].title,
                                  sources |-> disk.cluster[c].sources, articles |-> {}]]
    /\ unlisted' = active
    /\ due' = {a \in Clustered(disk) : article[a].pub >= now - Window}
    /\ UNCHANGED <<vars, opened, file>>

\* Mutant: the window applied to the articles as well.
ListRecentArticles(c) ==
    /\ c \in unlisted
    /\ card' = [card EXCEPT ![c].articles = {a \in Members(disk, c) : article[a].pub >= cutoff[1]}]
    /\ unlisted' = unlisted \ {c}
    /\ UNCHANGED <<vars, cutoff, due, opened, file>>

\* The articles of one more cluster.  The code takes the clusters by their
\* updated_at; any order is more behaviours.
ListArticles(c) ==
    /\ c \in unlisted
    /\ card' = [card EXCEPT ![c].articles = Members(disk, c)]
    /\ unlisted' = unlisted \ {c}
    /\ UNCHANGED <<vars, cutoff, due, opened, file>>

\* write_text opens the file, which truncates it.
OpenFile ==
    /\ cutoff # NoPage /\ unlisted = {} /\ ~opened
    /\ opened' = TRUE
    /\ file' = [whole |-> FALSE, articles |-> {}]
    /\ UNCHANGED <<vars, cutoff, card, unlisted, due>>

Forgotten ==
    cutoff' = NoPage /\ card' = NoCards /\ unlisted' = {} /\ due' = {} /\ opened' = FALSE

\* The text is in it, and render_index returns.
WriteFile ==
    /\ opened
    /\ file' = [whole |-> TRUE, articles |-> UNION {card[c].articles : c \in DOMAIN card}]
    /\ Forgotten
    /\ UNCHANGED vars

\* The process dies, or a query or the template raises.
Leave ==
    /\ cutoff # NoPage
    /\ faults < MaxFaults /\ faults' = faults + 1
    /\ Forgotten
    /\ UNCHANGED <<article, disk, work, writer, at, todo, pick, file>>

RenderStep ==
    \/ \E now \in Moments : ListClusters(now)
    \/ \E c \in unlisted : ListArticles(c)
    \/ OpenFile \/ WriteFile

RenderNext == (Next /\ UNCHANGED page) \/ RenderStep \/ Leave

\* The schedule renders again and again, and a renderer goes on.
RenderSpec ==
    /\ Init /\ InitPage
    /\ [][RenderNext]_<<vars, page>>
    /\ WF_<<vars, page>>(RenderStep)

-----------------------------------------------------------------------------
\* A card lists what its headline rests on: the titled article, and articles
\* of at least as many sources as it names.  Its row and its articles are of
\* different moments, and a clusterer may commit between and after them.
CardSupported ==
    \A c \in DOMAIN card \ unlisted :
        /\ card[c].title \in card[c].articles
        /\ card[c].sources <= Cardinality({article[a].src : a \in card[c].articles})

\* render.py's "clusters active in the last ACTIVE_WINDOW_H hours": a page that
\* is done shows every article of the window that was clustered when it began,
\* if articles arrived in order.  A late article takes updated_at back, and its
\* cluster's fresh articles off the page.
PageComplete ==
    ArrivedInOrder /\ unlisted = {} => due \subseteq UNION {card[c].articles : c \in DOMAIN card}

InEveryWindow(a) == \A now \in Moments : article[a].pub >= now - Window

\* FR-501 to the reader: an article clustered inside the window is on a whole
\* page in the end, whatever was committed between the queries and whenever a
\* renderer died, the file cut included - again of articles that arrived in order.
EventuallyShown ==
    \A i \in 1 .. MaxArticles :
        i \in Clustered(disk) /\ InEveryWindow(i)
            ~> (file.whole /\ i \in file.articles) \/ ~ArrivedInOrder

\* Does not hold: a reader never finds the page cut.
NeverCut == [][file.whole => file'.whole]_<<vars, page>>
=============================================================================
