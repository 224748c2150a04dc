---------------------------- MODULE RenderProofs ----------------------------
(***************************************************************************)
(* Proofs about Render, for every set of moments a page may be rendered    *)
(* at, and every corpus, window and bound of the clusterers it runs beside. *)
(***************************************************************************)
EXTENDS Render, EventClusterProofs

RenderVars == <<vars, page>>

(***************************************************************************)
(* What the renderer leaves alone.  It reads the database and counts a     *)
(* fault when it dies, so the clusterers' invariants are not affected.     *)
(***************************************************************************)
Beside == UNCHANGED <<article, disk, work, writer, at, todo, pick>>

LEMMA BesideInv ==
    ASSUME IInv, Beside, faults' \in 0 .. MaxFaults
    PROVE  IInv'
    BY DEF Beside, IInv, Typed, Discipline, ForeignKeys, Referred, Placing, Clusters, Ids

LEMMA BesideShown ==
    ASSUME ShownInv, Beside
    PROVE  ShownInv'
<1>1. ASSUME NEW q \in Proc, at'[q] \in Writing PROVE InHand(q)'
  <2>1. InHand(q)
    BY <1>1 DEF Beside, ShownInv
  <2>2. \A d : Shown(work, d) => Shown(work, d)'
    BY ShownWork DEF Beside
  <2> QED
    BY <2>1, <2>2 DEF Beside, InHand, Clusters
<1> QED
    BY <1>1, ShownKept DEF Beside, ShownInv

LEMMA BesideStaged ==
    ASSUME StagedInv, Beside
    PROVE  StagedInv'
    BY DEF Beside, StagedInv, Staged, Chosen, IsFirst, Before, Best, Active, Clusters

LEMMA BesideSolo ==
    ASSUME SoloInv, Beside
    PROVE  SoloInv'
    BY DEF Beside, SoloInv, Unplaced

\* A step of the renderer's specification is one of the clusterers', or none.
LEMMA StepOrBeside ==
    ASSUME IInv, [RenderNext]_RenderVars
    PROVE  [Next]_vars \/ (Beside /\ faults' \in 0 .. MaxFaults)
<1>1. CASE Leave
    BY <1>1, BoundAssumption DEF Leave, Beside, IInv, Typed
<1>2. CASE RenderStep
    BY <1>2 DEF RenderStep, ListClusters, ListArticles, OpenFile, WriteFile
<1> QED
    BY <1>1, <1>2 DEF RenderNext, RenderVars

LEMMA RenderInv ==
    ASSUME IInv, [RenderNext]_RenderVars
    PROVE  IInv'
    BY StepOrBeside, BesideInv, NextInv

-----------------------------------------------------------------------------
(***************************************************************************)
(* Committed membership only grows, and an article is never changed.       *)
(***************************************************************************)
Grown ==
    /\ Ids \subseteq Ids' /\ \A a \in Ids : article'[a] = article[a]
    /\ disk.member \subseteq disk'.member

LEMMA Growth == ASSUME IInv, [Next]_vars PROVE Grown
<1>1. CASE Arrive
  <2>1. PICK r \in Arrivals : article' = Append(article, r)
    BY <1>1 DEF Arrive
  <2> QED
    BY <1>1, <2>1 DEF Grown, Arrive, IInv, Typed, Ids
<1>2. ASSUME NEW p \in Proc, Commit(p) \/ Raise(p) PROVE Grown
  <2>1. at[p] \in Writing /\ Placing(p)
    BY <1>2 DEF Commit, Raise, Writing, IInv, Discipline, Placing
  <2>2. disk.member \subseteq work.member
    BY <2>1 DEF Placing, Writing
  <2> QED
    BY <1>2, <2>2 DEF Grown, Commit, Raise, Ends, Ids
<1>3. ASSUME UNCHANGED <<article, disk>> PROVE Grown
    BY <1>3 DEF Grown, Ids
<1> QED
    BY <1>1, <1>2, <1>3 DEF Next, Step, Begin, Select, OutOfRange, JoinMember, JoinRefused, JoinCount,
       JoinTitle, SeedCluster, SeedMember, Kill, Ends, vars

LEMMA RenderGrowth == ASSUME IInv, [RenderNext]_RenderVars PROVE Grown
    BY StepOrBeside, Growth DEF Beside, Grown, Ids

Names(seq, S) == {seq[a].src : a \in S}

LEMMA MoreNames ==
    ASSUME NEW seq, NEW n \in Nat, NEW T \in SUBSET (1 .. n), NEW S \in SUBSET T
    PROVE  /\ Cardinality(Names(seq, S)) \in Nat /\ Cardinality(Names(seq, T)) \in Nat
           /\ Cardinality(Names(seq, S)) <= Cardinality(Names(seq, T))
<1>1. IsFiniteSet(T)
  <2>1. IsFiniteSet(1 .. n)
    BY FS_Interval
  <2> QED
    BY <2>1, FS_Subset
<1> DEFINE f == [a \in T |-> seq[a].src]
<1>2. f \in Surjection(T, Names(seq, T))
    BY DEF Surjection, Names
<1>3. IsFiniteSet(Names(seq, T))
    BY <1>1, <1>2, FS_Surjection
<1>4. Names(seq, S) \in SUBSET Names(seq, T)
    BY DEF Names
<1>5. IsFiniteSet(Names(seq, S)) /\ Cardinality(Names(seq, S)) <= Cardinality(Names(seq, T))
    BY <1>3, <1>4, FS_Subset
<1> QED
    BY <1>3, <1>5, FS_CardinalityType

-----------------------------------------------------------------------------
(***************************************************************************)
(* Any number of clusterers: what a card claims.  A card whose articles    *)
(* are still to be queried is supported by the committed membership of the *)
(* moment, which only grows; after its query, by its own list.             *)
(***************************************************************************)
Supported(k, S) ==
    /\ k.title \in S
    /\ k.sources <= Cardinality(Names(article, S))

CardInv ==
    /\ card \in [DOMAIN card -> [title: Nat, sources: Nat, articles: SUBSET Nat]]
    /\ \A c \in DOMAIN card :
        /\ c \in unlisted => Supported(card[c], Members(disk, c))
        /\ c \notin unlisted => card[c].articles \subseteq Ids /\ Supported(card[c], card[c].articles)

LEMMA StillSupported ==
    ASSUME IInv, IInv', Grown, NEW k \in [title: Nat, sources: Nat, articles: SUBSET Nat],
           NEW S \in SUBSET Ids, NEW T \in SUBSET Ids', S \subseteq T, Supported(k, S)
    PROVE  Supported(k, T)'
<1> DEFINE new == article'
           n == Len(article')
<1>1. n \in Nat /\ T \in SUBSET (1 .. n)
    BY DEF IInv, Typed, Ids
<1>2. Names(article, S) = Names(new, S)
    BY DEF Grown, Names
<1> HIDE DEF new, n
<1>3. /\ Cardinality(Names(new, S)) \in Nat /\ Cardinality(Names(new, T)) \in Nat
      /\ Cardinality(Names(new, S)) <= Cardinality(Names(new, T))
    BY <1>1, MoreNames
<1>4. k.sources <= Cardinality(Names(new, T))
  <2>1. k.sources \in Nat /\ k.sources <= Cardinality(Names(new, S))
    BY <1>2 DEF Supported
  <2> QED
    BY <1>3, <2>1
<1> QED
    BY <1>4 DEF Supported, Names, new

LEMMA CardGrows ==
    ASSUME IInv, IInv', Grown, CardInv, UNCHANGED <<card, unlisted>>
    PROVE  CardInv'
<1> SUFFICES ASSUME NEW c \in DOMAIN card
             PROVE  /\ c \in unlisted => Supported(card[c], Members(disk, c))'
                    /\ c \notin unlisted => /\ card[c].articles \subseteq Ids'
                                            /\ Supported(card[c], card[c].articles)'
    BY DEF CardInv
<1>1. PICK k \in [title: Nat, sources: Nat, articles: SUBSET Nat] : k = card[c] /\ k = card'[c]
    BY DEF CardInv
<1>2. CASE c \in unlisted
  <2>1. PICK S, T : S = Members(disk, c) /\ T = Members(disk, c)'
    OBVIOUS
  <2>2. S \in SUBSET Ids /\ T \in SUBSET Ids' /\ S \subseteq T
    BY <2>1 DEF Members, Grown
  <2>3. Supported(k, S)
    BY <1>1, <1>2, <2>1 DEF CardInv
  <2>4. Supported(k, T)'
    BY <2>2, <2>3, StillSupported
  <2> QED
    BY <1>1, <1>2, <2>1, <2>4 DEF Supported, Names
<1>3. CASE c \notin unlisted
  <2>1. PICK S : S = k.articles
    OBVIOUS
  <2>2. S \in SUBSET Ids /\ Supported(k, S)
    BY <1>1, <1>3, <2>1 DEF CardInv
  <2>3. S \in SUBSET Ids' /\ S \subseteq S
    BY <2>2 DEF Grown
  <2>4. Supported(k, S)'
    BY <2>2, <2>3, StillSupported
  <2> QED
    BY <1>1, <1>3, <2>1, <2>3, <2>4 DEF Supported, Names
<1> QED
    BY <1>2, <1>3

LEMMA CardListClusters ==
    ASSUME IInv, ShownInv, NEW now \in Moments, ListClusters(now)
    PROVE  CardInv'
<1> DEFINE active == Listed(now - Window)
           k(c) == [title |-> disk.cluster[c].title, sources |-> disk.cluster[c].sources,
                    articles |-> {}]
<1>1. /\ card' = [c \in active |-> k(c)] /\ unlisted' = active
      /\ UNCHANGED <<article, disk>> /\ active \subseteq Clusters(disk)
    BY DEF ListClusters, vars, Listed
<1>2. \A c \in active : disk.cluster[c] \in Row
    BY <1>1, ElementOfSeq DEF Clusters, IInv, Typed, Tables
<1>3. \A c \in active : k(c) \in [title: Nat, sources: Nat, articles: SUBSET Nat]
    BY <1>2 DEF Row
<1>4. ASSUME NEW c \in active PROVE Supported(k(c), Members(disk, c))
  <2>1. Shown(disk, c)
    BY <1>1 DEF ShownInv
  <2>2. /\ disk.cluster[c].sources = Cardinality(Names(article, Members(disk, c)))
        /\ disk.cluster[c].title \in Members(disk, c)
    BY <2>1 DEF Shown, Headline, DistinctSources, Names
  <2>3. disk.cluster[c].sources \in Nat
    BY <1>2 DEF Row
  <2> QED
    BY <2>2, <2>3 DEF Supported
<1> HIDE DEF k
<1>5. \A c \in active : Supported(card[c], Members(disk, c))'
    BY <1>1, <1>4 DEF Supported, Names, Members, Ids
<1>6. DOMAIN card' = active /\ card' \in [active -> [title: Nat, sources: Nat, articles: SUBSET Nat]]
    BY <1>1, <1>3
<1> HIDE DEF active
<1> QED
    BY <1>1, <1>5, <1>6 DEF CardInv

LEMMA CardListArticles ==
    ASSUME IInv, CardInv, NEW c \in unlisted, ListArticles(c)
    PROVE  CardInv'
<1> DEFINE M == Members(disk, c)
<1>1. /\ card' = [card EXCEPT ![c].articles = M] /\ unlisted' = unlisted \ {c}
      /\ UNCHANGED <<article, disk>>
    BY DEF ListArticles, vars
<1>2. M \subseteq Ids /\ Ids \subseteq Nat /\ Ids' = Ids
    BY <1>1 DEF Members, Ids
<1>3. \A d \in DOMAIN card : d # c => card'[d] = card[d]
    BY <1>1
<1>4. c \in DOMAIN card =>
        /\ card'[c].title = card[c].title /\ card'[c].sources = card[c].sources
        /\ card'[c].articles = M
    BY <1>1 DEF CardInv
<1>5. /\ DOMAIN card' = DOMAIN card
      /\ card' \in [DOMAIN card -> [title: Nat, sources: Nat, articles: SUBSET Nat]]
  <2>1. \A k \in [title: Nat, sources: Nat, articles: SUBSET Nat] :
            [k EXCEPT !.articles = M] \in [title: Nat, sources: Nat, articles: SUBSET Nat]
    BY <1>2
  <2>2. card' = [card EXCEPT ![c] = [card[c] EXCEPT !.articles = M]]
    BY <1>1
  <2> HIDE DEF M
  <2> QED
    BY <2>1, <2>2 DEF CardInv
<1>6. \A d : Members(disk, d)' = Members(disk, d)
    BY <1>1 DEF Members, Ids
<1> SUFFICES ASSUME NEW d \in DOMAIN card
             PROVE  /\ d \in unlisted' => Supported(card[d], Members(disk, d))'
                    /\ d \notin unlisted' => /\ card'[d].articles \subseteq Ids'
                                             /\ Supported(card[d], card[d].articles)'
    BY <1>5 DEF CardInv
<1>7. CASE d = c
  <2>1. Supported(card[c], M)
    BY <1>7 DEF CardInv
  <2> QED
    BY <1>1, <1>2, <1>4, <1>7, <2>1 DEF Supported, Names
<1>8. CASE d # c
  <2>1. card'[d] = card[d] /\ (d \in unlisted' <=> d \in unlisted)
    BY <1>1, <1>3, <1>8
  <2>2. CASE d \in unlisted
    <3>1. Supported(card[d], Members(disk, d))
        BY <2>2 DEF CardInv
    <3>2. Supported(card[d], Members(disk, d))'
        BY <3>1, <2>1, <1>1, <1>6 DEF Supported, Names
    <3> QED
        BY <3>2, <2>1, <2>2
  <2>3. CASE d \notin unlisted
    <3>1. card[d].articles \subseteq Ids /\ Supported(card[d], card[d].articles)
        BY <2>3 DEF CardInv
    <3>2. Supported(card[d], card[d].articles)'
        BY <3>1, <2>1, <1>1 DEF Supported, Names
    <3> QED
        BY <3>1, <3>2, <2>1, <2>3, <1>2
  <2> QED
    BY <2>2, <2>3
<1> QED
    BY <1>7, <1>8

LEMMA CardInit == Init /\ InitPage => CardInv
    BY DEF InitPage, NoCards, CardInv

LEMMA CardNext ==
    ASSUME IInv, IInv', ShownInv, CardInv, [RenderNext]_RenderVars
    PROVE  CardInv'
<1>1. CASE UNCHANGED <<card, unlisted>>
    BY <1>1, RenderGrowth, CardGrows
<1>2. ASSUME NEW now \in Moments, ListClusters(now) PROVE CardInv'
    BY <1>2, CardListClusters
<1>3. ASSUME NEW c \in unlisted, ListArticles(c) PROVE CardInv'
    BY <1>3, CardListArticles
<1>4. CASE Forgotten
    BY <1>4 DEF Forgotten, NoCards, CardInv
<1> QED
    BY <1>1, <1>2, <1>3, <1>4 DEF RenderNext, RenderStep, OpenFile, WriteFile, Leave, RenderVars, page

\* However many clusterers commit between a page's queries, outside
\* pipeline.run's handlers: a card lists the article its headline is taken
\* from, and articles of at least as many sources as it names.
THEOREM CardsSupported ==
    ASSUME RunProc = {}
    PROVE  RenderSpec => []CardSupported
<1>1. Init /\ InitPage => IInv /\ ShownInv /\ CardInv
    BY InitInv, CardInit DEF Init, ShownInv, Clusters, Writing
<1>2. IInv /\ [RenderNext]_RenderVars => IInv'
    BY RenderInv
<1>3. IInv /\ IInv' /\ ShownInv /\ [RenderNext]_RenderVars => ShownInv'
    BY StepOrBeside, ShownStep, BesideShown
<1>4. IInv /\ IInv' /\ ShownInv /\ CardInv /\ [RenderNext]_RenderVars => CardInv'
    BY CardNext
<1>5. CardInv => CardSupported
    BY DEF CardInv, CardSupported, Supported, Names
<1> QED
    BY <1>1, <1>2, <1>3, <1>4, <1>5, PTL DEF RenderSpec, RenderVars

-----------------------------------------------------------------------------
(***************************************************************************)
(* One clusterer: nothing of the window is missing.  What is due is in the *)
(* committed membership of a listed cluster until its articles are         *)
(* queried, and on its card from then on.                                  *)
(***************************************************************************)
Awaited(a) ==
    \E c \in DOMAIN card : a \in IF c \in unlisted THEN Members(disk, c) ELSE card[c].articles

DueInv == ArrivedInOrder => \A a \in due : Awaited(a)

\* The queries of one page see articles in order if the last of them does.
LEMMA OrderBefore == ASSUME Grown, ArrivedInOrder' PROVE ArrivedInOrder
    BY DEF Grown, ArrivedInOrder

LEMMA DueGrows ==
    ASSUME Grown, DueInv, UNCHANGED <<card, unlisted, due>>
    PROVE  DueInv'
<1> SUFFICES ASSUME ArrivedInOrder', NEW a \in due PROVE Awaited(a)'
    BY DEF DueInv
<1>1. Awaited(a)
    BY OrderBefore DEF DueInv
<1>2. \A c : Members(disk, c) \subseteq Members(disk, c)'
    BY DEF Grown, Members
<1> QED
    BY <1>1, <1>2 DEF Awaited

LEMMA DueListClusters ==
    ASSUME IInv, InOrderInv, NEW now \in Moments, ListClusters(now)
    PROVE  DueInv'
<1> SUFFICES ASSUME ArrivedInOrder', NEW a \in due' PROVE Awaited(a)'
    BY DEF DueInv
<1> DEFINE start == now - Window
<1>1. /\ DOMAIN card' = Listed(start) /\ unlisted' = Listed(start)
      /\ UNCHANGED <<article, disk>>
      /\ a \in Clustered(disk) /\ article[a].pub >= start
    BY DEF ListClusters, vars
<1>2. PICK c \in Clusters(disk) : a \in Members(disk, c)
    BY <1>1 DEF Clustered, Members
<1>3. ActivityIsLatest
    BY <1>1 DEF InOrderInv, ArrivedInOrder, Ids
<1>4. article[a].pub <= disk.cluster[c].updated
    BY <1>2, <1>3 DEF ActivityIsLatest
<1>5. /\ article[a].pub \in Int /\ disk.cluster[c].updated \in Int /\ start \in Int
  <2>1. article[a] \in Article
    BY <1>2, ArticleType DEF IInv, Members
  <2>2. disk.cluster[c] \in Row
    BY <1>2, ElementOfSeq DEF Clusters, IInv, Typed, Tables
  <2> QED
    BY <2>1, <2>2, BoundAssumption, MomentsAssumption DEF Article, Row
<1>6. c \in Listed(start)
  <2> HIDE DEF start
  <2> QED
    BY <1>1, <1>2, <1>4, <1>5 DEF Listed
<1>7. a \in Members(disk, c)'
    BY <1>1, <1>2 DEF Members, Ids
<1> QED
    BY <1>1, <1>6, <1>7 DEF Awaited

LEMMA DueListArticles ==
    ASSUME CardInv, DueInv, NEW c \in unlisted, ListArticles(c)
    PROVE  DueInv'
<1> SUFFICES ASSUME ArrivedInOrder', NEW a \in due PROVE Awaited(a)'
    BY DEF DueInv, ListArticles
<1>1. /\ card' = [card EXCEPT ![c].articles = Members(disk, c)] /\ unlisted' = unlisted \ {c}
      /\ UNCHANGED <<article, disk>>
    BY DEF ListArticles, vars
<1>2. PICK d \in DOMAIN card : a \in IF d \in unlisted THEN Members(disk, d) ELSE card[d].articles
    BY <1>1 DEF DueInv, Awaited, ArrivedInOrder, Ids
<1>3. Members(disk, d)' = Members(disk, d) /\ d \in DOMAIN card'
    BY <1>1 DEF Members, Ids
<1>4. CASE d = c
  <2>1. card'[c].articles = Members(disk, c)
    BY <1>1, <1>2, <1>4 DEF CardInv
  <2> QED
    BY <2>1, <1>1, <1>2, <1>3, <1>4 DEF Awaited
<1>5. CASE d # c
  <2>1. card'[d] = card[d] /\ (d \in unlisted' <=> d \in unlisted)
    BY <1>1, <1>2, <1>5
  <2> QED
    BY <2>1, <1>2, <1>3 DEF Awaited
<1> QED
    BY <1>4, <1>5

LEMMA DueNext ==
    ASSUME IInv, InOrderInv, CardInv, DueInv, [RenderNext]_RenderVars
    PROVE  DueInv'
<1>1. CASE UNCHANGED <<card, unlisted, due>>
    BY <1>1, RenderGrowth, DueGrows
<1>2. ASSUME NEW now \in Moments, ListClusters(now) PROVE DueInv'
    BY <1>2, DueListClusters
<1>3. ASSUME NEW c \in unlisted, ListArticles(c) PROVE DueInv'
    BY <1>3, DueListArticles
<1>4. CASE Forgotten
    BY <1>4 DEF Forgotten, DueInv
<1> QED
    BY <1>1, <1>2, <1>3, <1>4 DEF RenderNext, RenderStep, OpenFile, WriteFile, Leave, RenderVars, page

LEMMA BesideInOrder ==
    ASSUME IInv, InOrderInv, Beside
    PROVE  InOrderInv'
    BY InOrderKept DEF Beside

\* render.py's "clusters active in the last ACTIVE_WINDOW_H hours", with one
\* clusterer outside pipeline.run's handlers and articles that arrived in
\* order: when its queries are done, a page has every article of the window
\* that was clustered when they began.
THEOREM PageIsComplete ==
    ASSUME Solo, RunProc = {}
    PROVE  RenderSpec => []PageComplete
<1> DEFINE Inv == IInv /\ ShownInv /\ SoloInv /\ StagedInv /\ InOrderInv /\ CardInv /\ DueInv
<1>1. Init /\ InitPage => Inv
  <2>1. Init => ShownInv /\ StagedInv
    BY DEF Init, ShownInv, StagedInv, Staged, Chosen, Clusters, Writing
  <2>2. InitPage => DueInv
    BY DEF InitPage, DueInv
  <2> QED
    BY <2>1, <2>2, InitInv, SoloInit, InOrderInit, CardInit
<1>2. Inv /\ [RenderNext]_RenderVars => Inv'
  <2> SUFFICES ASSUME Inv, [RenderNext]_RenderVars PROVE Inv'
    OBVIOUS
  <2>1. IInv'
    BY RenderInv
  <2>2. ShownInv' /\ SoloInv' /\ StagedInv' /\ InOrderInv'
    BY <2>1, StepOrBeside, ShownStep, SoloNext, StagedNext, InOrderNext,
       BesideShown, BesideSolo, BesideStaged, BesideInOrder
  <2> QED
    BY <2>1, <2>2, CardNext, DueNext
<1>3. Inv => PageComplete
  <2> SUFFICES ASSUME Inv, ArrivedInOrder, unlisted = {}, NEW a \in due
               PROVE  a \in UNION {card[c].articles : c \in DOMAIN card}
    BY DEF PageComplete
  <2>1. Awaited(a)
    BY DEF DueInv
  <2> QED
    BY <2>1 DEF Awaited
<1> QED
    BY <1>1, <1>2, <1>3, PTL DEF RenderSpec, RenderVars
=============================================================================
