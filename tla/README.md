# A verification project for Arc Loom

Arc Loom is a batch pipeline: every 15 minutes a Windows scheduled task starts
`python -m pipeline.run`, which fetches the RSS feeds of `feeds.yaml`, stores new
articles in one SQLite database, gives each an embedding, groups them into event
clusters and renders a page. An operator may start the same program, or single
stages of it, by hand at any time. Nothing in the program coordinates these
processes but the database.

Paths below are relative to `src/`.

## 1. The system

| Component | State it keeps | Operations | Modelled by |
|---|---|---|---|
| Scheduler (`tools/register_task.ps1`) | last trigger, running instance | trigger, skip while running, kill at the limit | `RunLog` |
| Run lifecycle (`pipeline/run.py`) | the run's `run_log` row | reap, insert, stage marks, three handlers, completion, pruning | `RunLog` |
| Historical backfill (`tools/backfill_abandoned_historical.py`) | - | read open rows, mark them | `RunLog` |
| Feed configuration (`config.py`, `feeds.yaml`) | the file | load | `SourceState` |
| Ingest, source state (`pipeline/ingest.py`) | `source`, `article` | sync_sources, results loop, validators, fail streaks, inserts | `SourceState` |
| Ingest, concurrent fetch (`pipeline/ingest.py`) | host locks, semaphore, robots locks and caches | one asyncio task per feed | `Fetch` |
| Syndication bypass (`pipeline/simhash.py`) | `article.simhash` | fingerprint, copy an embedding | `Enrich`, `Fingerprint` |
| Embedding (`pipeline/embed.py`) | `article.embedding`, `embed_model` | batches | `Enrich` |
| Event clustering (`pipeline/cluster.py`) | `cluster`, `article_cluster` | join, seed | `EventCluster`, `ClusterPromise` |
| Database (`db.py`, `schema.sql`) | committed and uncommitted state, the columns | commit, rollback, one writer; init_schema | `Schema`; transactions in each module |
| Normalization (`pipeline/normalize.py`) | none, pure | canonicalize_url, normalize_timestamp, derive_snippet | `Normalize` |
| Rendering (`pipeline/render.py`, `templates/`) | index.html | window query, the articles of each cluster, write | `Render` |
| Reports (`tools/week1_check.py`, `health.py`, `validate_feeds.py`, `yield_analysis.py`, `check_ac10.py`) | none | read and print | `Reports` (longitudinal flags, coverage); `_classify` in `RunLog` |
| One-off tools (`tools/migrate_snippets.py` and others) | - | derive stored snippets again | `Normalize`; the others not |
| Test servers, soak | - | - | no: test equipment |

How they interact. The scheduler starts a process. The process writes its
`run_log` row and commits it, then syncs `source` from the file, fetches, and
applies the results in ONE transaction that ends at the `fetch_complete` mark.
The bypass, the batches of the embedding and each placement of the clusterer
commit on their own. Every stage shares one connection, and the exception
handlers of `run()` use it too: `UPDATE run_log ...; conn.commit()`. That commit
also publishes whatever the stage that raised had left open. Most of what is
hard here follows from this and from two processes being allowed.

What makes each component correct, in one line each:

- run lifecycle: every run's row gets exactly one outcome, and the right one;
- source state: what the stored validators and statuses say of a feed is true of
  what is stored of it;
- fetch: politeness, the cap and robots.txt hold under every interleaving, and
  the fetch ends;
- normalization: what a page is stored under, dated and shortened to depends on
  the page and not on how a feed wraps it;
- database: no process works on a schema that is not its own;
- enrichment: every article has a vector of the configured model before it is
  clustered, and keeps it;
- clustering: every article is in one cluster, and what a cluster row stores
  agrees with its members.

What is hard: kills at any statement (the task's `ExecutionTimeLimit` is a
`TerminateProcess`), exceptions between two statements, two processes, articles
that arrive out of publication order, a model or a feed file that changes under
a run, and time: thresholds that are right only against one another. The full
list, with lines, is `hazards` in `PROJECT.json`; those without a property yet
say why.

### The database in the modules

`db.get_connection` opens SQLite in WAL mode with Python's default transaction
control. The modules use its semantics as follows.

- A SELECT runs outside a transaction unless the connection has written: it sees
  what is committed (`disk`). The first INSERT, UPDATE or DELETE opens a
  transaction and takes the one write lock (`writer`); from then on that
  connection reads its own writes (`work`).
- Waiting for the lock longer than the busy timeout is an exception, hence one
  of the faults.
- A killed process loses its open transaction. A caught exception does not: the
  transaction stays open until somebody commits, and in `pipeline.run` a handler
  does (`Raise`). Entry points such as `python -m pipeline.cluster` have no
  handler, so there it is lost.

## 2. Modules

### Run lifecycle: `RunLog`

State: the `run_log` rows (`log`), and of each process the stage it does next
(`at`, named by the mark that ends the stage), its row (`mine`), its `age`, and
`batch`, the number of feeds whose results its open transaction holds. A row
remembers as `kept` how many of those were committed, which is what
all-or-nothing speaks of.

Actions: `Trigger` and `StartByHand` start a process; `Reap`, `Insert`,
`Context`, `LoadFeeds`, `Mark`, `MarkPruned`, `Awaited`, `ProcessFeed` and `Finish`
are its way through `run()`; `Crash` is an exception in the try block and its
handler, `Vanish` a kill (or an exception no handler sees), `CtrlC` both ways
asyncio delivers an interrupt: the first as `CancelledError` at the await, which
no `except` clause of `run()` matches, the second as `KeyboardInterrupt` in
place. `BackfillRead` and `BackfillWrite` are the historical backfill.

Time is relative: rows and processes have ages in ticks, which stop counting
past the retention window. The limit of the task is a guard of `Tick`: time does
not take a scheduled run past it, so such a run either ends or is killed. A row
id is free again once its row is pruned and nobody holds it; the backfill tool
forgets ids whose rows are gone.

### Sources: `SourceState`

State: `feeds.yaml` (`config`), the servers (`version`, `robots`), the source and
article tables (`disk`, `work`), and of each process the file as it loaded it,
the validators it read, the results it has, and the document it goes through.

Actions: `Edit` and `Publish` are the world; `Load` and `Read` start a run;
`SyncFeed` is one statement of `sync_sources`, the upsert of a feed, and
`SyncRest` its last, which marks what left the file, with the commit.
`Disallowed`, `Fetched`, `FetchFails` are the results of the fetch; `Recorded`,
`Parsed`, `InsertEntry`, `FeedDone`, `Commit` apply them. A failure is two steps:
`RecordedFailure` (of the fetch) or `FeedFails` (of an entry) counts it, `FlagFailure`
reads the count back and sets the status, and a fault may come between. `Kill` and
`Raise` are the faults. A feed document is a version, its entries a set of
canonical urls, so that a feed's window can slide: an entry that version 1 had
and version 2 has not is lost unless version 1 was ingested. `Last-Modified`
follows the etag and is not represented; entries are inserted, and feeds
synced, in any order.

### Fetch: `Fetch`

The event loop runs one task at a time between awaits, so an action is such a
stretch: `Turn` and `Awake` are `_wait_for_host`, `Acquire` enters the semaphore,
`RobotsCached`, `RobotsRequest`, `RobotsAnswer` and `RobotsTimeout` are `_robots_allowed`,
`FeedAnswer` and `FeedTimeout` end the feed's request. `since[h]` is the time since a
host's last turn, up to the delay. The timeout given to httpx is the limit of one
connect or read and not of a request, and redirects are followed: `left[t]` is the age
of the current one, `Tick` may not take it past the timeout, and `Drip`, a chunk of
the answer or a redirect, starts it anew. `asyncio.Lock` and `Semaphore` serve waiters in order; the module
lets any waiter go first, which is more behaviours. `requests` is there to state
a property with.

An exception leaves a task in three ways: the stored robots.txt cannot be parsed
(`RowBreaks`), an answer cannot be, or its commit fails (`AnswerBreaks`), or the
client was closed under the task (`ClientClosed`). `gather` then hands the first
one on, the `async with` closes the client while the other tasks go on, and
`asyncio.run` cancels what is left (`Cancel`).

### Enrichment: `Enrich`

A vector is named by the article whose text it encodes and the model that
encoded it; `Near` is the relation "Hamming distance at most 3" between titles,
symmetric and not transitive. `Begin` imports `config` (with the model name of
that moment); `ReadUnhashed` to `Hashed` are `_compute_pending_simhashes`,
`ReadCandidates` to `Bypassed` are `apply_bypass`, `ReadPending` to `Embedded` are
`embed_pending` with its batches. `ReadUnclustered` to `Placed` are the clusterer as far
as it concerns vectors, statement by statement: `Choose` reads and decides, with any
outcome of the similarity, `JoinMember` and `JoinMean` or `SeedCluster` and `SeedMember`
write, `PlacedOne` commits. A cluster has its member rows and, apart from them, what
entered its mean: the articles and the vector each was added with. A fault between the
statements lets the two differ.

`Fingerprint` has what `Near` abstracts, as operators: the normalized title, its
trigrams, the vote on each bit, the signed form and the distance. The hash of a
trigram is a constant, any function. It is used by `Normalize`, whose rows have
titles.

### Entries: `Normalize`

State: the article table by canonical url, the links of the entries processed,
whether the snippets were migrated, the hour. `ProcessEntry` is a round of
`_process_entries` with the three functions of `pipeline/normalize.py` as
operators, `MigrateSnippets` is the tool. A link is a sequence of layers, the url
and what a query parameter of it holds, with flags for capitals, the names of
query parameters and the slashes at the end; a name kept is kept in its capitals.
What two links mean is defined apart from what the code does with them (`Wraps`,
`LeadsTo`, `SamePage`): a wrapper's parameter means the same in capitals, which the
code does not see. What `html.parser` hands over of a description is a constant,
`StripTags`: any function to sequences of words with widths. `MCNormalize` gives it one that
does what the parser does where it surprises: words are joined across a tag, escaped
markup comes out as markup, text that ends in an open entity is kept back. A date is
absent, unreadable or an hour. The loops (`Without`, `WidthTo`, and in `Fingerprint`
`NormalizeTitle`, `Power`, `Unsigned`) are recursive functions on 0 .. n, one value per
round of the loop.

### A new version: `Schema`, `Reports`

`Schema` starts from the database of an older version and lets processes of this
one run over it for some days. `Begin` to `CommitSchema` are `init_schema`
statement by statement: each ALTER TABLE commits on its own, the backfill of
`first_seen_at` opens a transaction that only the last commit ends. `InsertRow`,
`Sync`, `Fetch`, `Finish` are what the rest of a run does to the three tables
these dates rest on; `Crash`, `Refused` and `Kill` are the ways it ends early. The file
says of each source whether it is absent, off or on (`feeds`); a sync disables what is
off or absent, and only enabled sources are fetched.

`Reports` adds the conclusions of two reading tools: two of the three flags of
`validate_feeds --longitudinal` (`ZeroYield`, `Stalled`), for the enabled sources, and the
coverage of `yield_analysis` (`Captured`), as functions of what is committed. The third
flag, `blocked_but_ok`, asks the network, and the exit status covers all three: both are
left out.

### Clustering and the page: `EventCluster`, `Vectors`, `ClusterPromise`, `Render`

`EventCluster` is `assign_pending` statement by statement: `Begin` fetches the
pending list, `Select` reads the candidates and decides, `JoinMember`, `JoinCount`
and `JoinTitle` or `SeedCluster` and `SeedMember` write, `Commit` publishes;
`JoinRefused` is the primary key, `OutOfRange` a date the window cannot be
subtracted from, `Kill` and `Raise` the faults, `Arrive` the stages before. `Vectors` has the arithmetic in exact integers: a centroid is kept as the
sum it is the mean of, and cosines are compared as cross-multiplied squares, so
no square root is needed. The threshold there is 3/4 instead of the configured
one, so that small vectors can be near and far; float32 rounding is abstracted.
That the sum decides as the mean does is `SumStandsForMean`. `Backfills` says which
groups one run over given articles builds, as a function of how many of them it
has placed; `BackfillEquivalent` compares the committed clusters with it.

`Render` adds the page to it: `ListClusters` is the query for the clusters in the
window, `ListArticles` the one per cluster, `OpenFile` and `WriteFile` the two effects of
`write_text`, `Leave` a death or an exception anywhere. Each query sees what is
committed when it runs, so a card's row and its articles are of different
moments; clusterers commit in between.

`ClusterPromise` is what clustering promises without transactions, stored means
or stale reads: an article is placed once, atomically, with the closest of the
true centroids in its window. `ImplementsPromise` in `EventCluster` is the
refinement: members and activity as committed, everything else hidden. `ClusterSolo`
checks it on its instance, `KeepsPromise` proves it for every one.

## 3. What the runs check

Passing runs:

| Run | Properties | Instance |
|---|---|---|
| `ClusterSolo` | TypeOK, AtMostOneCluster, MeanAgrees, BackfillEquivalent, ImplementsPromise, EventuallyClustered | 1 clusterer without handler, 3 articles in any order, one perhaps dated before everything, 2 faults, weak fairness |
| `ClusterPair` | DisplayAgrees | 2 clusterers, one refused by the primary key, a fault |
| `RenderSolo` | CardSupported, PageComplete, EventuallyShown | page after page beside 1 clusterer, 3 articles in any order, a fault of either, two windows |
| `RunSolo` | TypeOK, KilledLeavesAllOrNothing, PrunedIsResolved, EventuallyResolved | the scheduled task for ever, 2 feeds, a fault anywhere, 6 row ids |
| `RunManual` | ReapedIsOverdue, CleanMeansComplete, OutcomeWrittenOnce | a run by hand that may outlive the threshold, a fault, Ctrl+C twice, one backfill |
| `SourceSolo` | TypeOK, ValidatorCovered, FileDecides, FlaggedAtLimit, EventuallyIngested | 2 feeds sharing an entry, 2 edits, 3 errors, a fault |
| `FetchAll` | TypeOK, RobotsReadOnce, TurnsSpaced, EventuallyGathered, no deadlock | 3 feeds on a host, 1 on another, cap 2, servers that drip, cache rows that forbid, are missing or cannot be parsed |
| `EnrichSolo` | TypeOK, EmbeddedBeforeClustering, CentroidOfEmbeddings, EventuallyPlaced | a run with handlers, 3 articles, batches of 2, a model change, 2 faults |
| `Normal` | RowsArePages, RowBounded, HeadlinesMatch, DatesSettled | any 2 of some 650 entries, beside a row of an older version or none |
| `Upgrade` | TypeOK, MigratedBeforeUse, FirstSeenSound, FlagsExact, FlagsClearByNews, EventuallyMigrated | 2 processes of the new version on an old database, 2 sources, one switched off and on and one new, 3 runs over 2 days, 2 faults |

Runs in which the code does something a doc, a comment or an assertion of the
repository says it does not (each is a finding in `PROJECT.json`, with the
quoted line):

| Run | Property | What happens |
|---|---|---|
| `YieldBlind` | SuccessIsCounted | a day on which a run was clean, did not fail at the source and brought articles of it does not count as captured: the report cannot read the row's date (`tools/yield_analysis.py:61`) |
| `FetchAborts` | OneFeedNeverAborts | a robots.txt that makes the parser raise ends the fetch of the other feeds too (`pipeline/ingest.py:211`) |

Several of these are conjunctions of parts that are named and explained in the
modules: FileDecides is FetchesItsFile and DisabledStaysDisabled, FlaggedAtLimit
is DegradedIsEarned and FailingIsFlagged; RowsArePages is OneRowPerPage and
NoPageLost, RowBounded is PublishedPlausible and SnippetBounded, HeadlinesMatch is
WordingDecides and SignTransparent; FirstSeenSound is SeenBeforeFetched and
NullOnlyIfCut; FlagsExact is SilentIsFlagged, NotFlaggedEarly and Readable.

Some properties state the assumption that saves them: BackfillEquivalent,
PageComplete and EventuallyShown (articles arrived in publication order),
CentroidOfEmbeddings (no model change), FailingIsFlagged (no edit of `feeds.yaml` or
`robots.txt`; a fault hides at most one failure), RowsArePages (a url that is held in
another is held in small letters), EventuallyGathered (no server drips for ever),
EventuallyClustered (every date is one the window can be subtracted from).
RobotsReadOnce speaks of a gather that no exception aborted. For others
the instance is the assumption: one clusterer for AtMostOneCluster, no handler for
MeanAgrees, one process at a time for FileDecides. The next table says what
happens without each.

### Divergences without a run

The modules state these promises too, and they do not hold. To see one fail, put
the property in the cfg named, with the constants changed as said.

| Property | Where | What happens |
|---|---|---|
| AtMostOneCluster (`EventCluster`) | `ClusterPair` | two clusterers read one pending list and put an article in two clusters, where the comment above `assign_pending` promises exactly one without a condition (`pipeline/cluster.py:166`) |
| MeanAgrees (`EventCluster`) | `ClusterSolo`, RunProc = {run} | an exception inside a join: the handler of `run()` commits half of it, a member the mean has not got (`run.py:435`) |
| EveryArticleClustered (`EventCluster`) | `ClusterSolo` | an article dated in the first days of year 1 ends every pass at its turn, which is the first (`pipeline/cluster.py:189`) |
| StopRecorded (`RunLog`) | `RunManual` | Ctrl+C during the fetch is a `CancelledError` that no handler matches: the row stays open (`run.py:336`) |
| OneSpace (`Enrich`) | `EnrichSolo` | after a model change new vectors are averaged into the centroids of the old (`embed.py:15`) |
| ReapedIsDead (`RunLog`) | `RunManual` | a run by hand longer than the threshold is marked abandoned while it works (`pipeline/run.py:190`) |
| AllOrNothing (`RunLog`) | `RunManual`, Feeds = 2 | an exception between two feeds' results: the handler's commit publishes the first feed's (`run.py:13`) |
| ClassifyFaithful (`RunLog`) | `RunManual` | the week-1 report takes a crashed run for a clean one (`tools/week1_check.py:47`) |
| BackfilledIsDead (`RunLog`) | `RunManual` | the historical backfill marks the row of a live run (`tools/backfill_abandoned_historical.py:13`) |
| FailingIsFlagged (`SourceState`) without its condition | `SourceSolo` | a degraded feed, disabled and enabled again, is ok with its streak (`pipeline/ingest.py:50`) |
| FailingIsFlagged (`SourceState`) without "+ used.faults" | `SourceSolo` | an exception between the two updates of a failure: the handler of `run()` commits the streak at the limit with status ok, until the next failure (`pipeline/ingest.py:344`) |
| FetchesItsFile, DisabledStaysDisabled (`SourceState`) | `SourceSolo`, Proc = {p, q}, Url = {f}, MCOneFeed | of two runs that loaded different files, the later sync decides what the other fetches, and a late result turns a disabled feed's status back to ok (`pipeline/run.py:329`) |
| BlockedNeverOk (`SourceState`) | `SourceSolo` | a step that only writes the file's feeds turns blocked to ok; a run that dies before the fetch leaves it so (`tools/validate_feeds.py:126`) |
| EventuallyGathered (`Fetch`) without its exception | `FetchAll` | a server that sends a chunk within each timeout keeps its request, the permit of the semaphore and, for a robots.txt, the host's lock: the fetch does not end (`pipeline/ingest.py:129`, `:243`) |
| OwnRobots (`Fetch`) | `FetchAll`, MCPorts, Rows = {"absent"} | two origins of a hostname share one robots.txt (`ingest.py:119`) |
| MeanOfMembers (`Enrich`) | `EnrichSolo` | an exception between the statements of a placement: the handler of `run()` commits a member whose vector the mean has not got, or a mean whose member has no row (`pipeline/run.py:435`) |
| CentroidOfEmbeddings (`Enrich`) | `EnrichSolo`, MCPair, Proc = RunProc = {p, q}, Model = {m1}, MaxChanges = 0 | one run replaces the vector of an article the other has clustered (`pipeline/simhash.py:129`) |
| CopyIsNear (`Enrich`) | `EnrichSolo`, Window = 1 | a copy of a copy: the vector of a title that is not near (`simhash.py:9`) |
| ActivityIsLatest (`EventCluster`) | `ClusterSolo` | a late article moves `updated_at` backwards (`pipeline/cluster.py:135`) |
| PageComplete (`Render`) without its condition | `RenderSolo` | a late article takes its cluster's fresh articles off the page (`pipeline/render.py:33`) |
| BackfillEquivalent without its condition | `ClusterSolo` | late articles are grouped otherwise than by a backfill (`cluster.py:13`) |
| NeverCut (`Render`) | `RenderSolo` | whoever reads the page between truncation and write finds it empty, until the next run if the renderer died there (`pipeline/render.py:93`) |
| CompliantSnippetsStay (`Normalize`) | `Normal` | the migration takes more from a snippet than the bounds ask for: text that looks like an open tag or ends in an open entity is gone (`tools/migrate_snippets.py:6`) |
| RowsArePages (`Normalize`) without HeldInSmall | `Normal` | a wrapper whose parameter, or whose url's scheme, is in capitals is not resolved: its page gets a second row (`pipeline/normalize.py:44`) |
| OneWrapperOnly (`Normalize`) | `Normal` | wrappers are resolved to the last, not one level (`pipeline/normalize.py:40`) |
| EventuallySeen (`Schema`) | `Upgrade` | a process killed between ALTER TABLE and the backfill's commit leaves sources without `first_seen_at` for good (`db.py:35`) |
| BackfillHonest (`Reports`) | `Upgrade`, MinAge = 1 | the backfill dates a young silent source by the oldest run there is: it is flagged early (`db.py:46`) |
| CopiesLandTogether (`EventCluster`) | MCSameTime, MaxArticles = 7, MaxFaults = 0 | the mean of a cluster moves until the duplicate of a member is not placed with it (`simhash.py:9`) |

### Bounds, and why they are enough

- Two processes: every race here is between a read and a write of one process
  and a commit of another. Where three could matter (a third run taking the lock
  between), the third's effect is one of the second's. `SourceState` and `Enrich`
  run one process at a time in TLC; what concerns several in the first is
  `ValidatorsCovered`, which is proved for any number, and in the second
  EmbeddedBeforeClustering and EventuallyPlaced, which also hold of a run beside
  `python -m pipeline.embed` (Proc = {p, q}, RunProc = {p}, MCPair, one model).
- One or two faults: a second fault can hit the recovery from the first, and no
  state remembers more than that.
- Three articles for clustering: a seed, a join, and an arrival that finds the
  mean moved.
- Four embeddings of norm 5 whose neighbours are similar and others are not:
  similarity is not transitive, ties occur, and a mean moves out of reach.
- Three articles for the enrichment: a middle title near both others, so that
  who copies from whom depends on the order; one model change, which leaves
  articles of both models under the same tables. One is published an hour after the
  others, with a window of 0 hours: the bypass finds matches outside of its window, and
  a cluster of the others is too old for it. The models are alike in everything, so
  `MCEnrich` names the first one.
- Two versions of a feed: enough for an entry that slides out of the window and
  for a 304 and a 200. Three errors for a limit of two: the third is the failure that
  flags a source whose second was counted and, by a fault, not flagged.
- Entries differ from a plain one in one respect at a time, in all ways in that
  respect: links, titles, the four date fields together, descriptions up to five
  tokens long. Two of them can meet in the table, and that is what its key is about.
- Two days before and after the upgrade: a source that is older than the log, one
  that is younger, and one that has given nothing. MinAge is 0 there, so that
  "early" and "late" both occur. The edits (`Edits`) switch a source that is in the
  file off and on again and bring one into it, in any order and at any time.
- Four feeds, cap 2, delay and timeout of 2 ticks: waiters for each lock, a
  waiter for the semaphore, sleeps and requests that overlap partly. A request that
  drips has no bound.
- Ticks in `RunLog`: `MCRunLog` maps minutes to ticks. The 90 days of retention
  are the smallest number that exceeds the threshold by a run's limit; nothing
  but that order is used. `RunSolo` has threshold and retention one less, to
  afford liveness. `RunManual` lets a run live one tick past the threshold.

A deadlock is checked in `FetchAll`. In the others the bounds end the
behaviours (no article left to arrive, no fault left to spend), which is no
deadlock of the program; what must go on is said by the liveness properties.

### Fairness

Weak fairness, of three kinds. A process that is running takes its next step
(an operating system schedules it; it is not fair to kills, errors or edits).
The clock goes on, and the task scheduler triggers again (`StartWhenAvailable`
makes up for a machine that was off). For the stages a new pass begins again and
again, which is that trigger seen from inside. Nothing is assumed of operators,
servers or faults; an error or a fault that must stop sometime does so because
its number is bounded. In `Fetch` the tasks' own steps and the clock are fair and
nothing of the network is: no server owes an answer, and the timeout is what ends its
request. `Upgrade` assumes it of the processes' steps only, and
`RenderSolo` of the renderer's: what is clustered is shown even if clustering stops.

## 4. What is proved

TLAPS checks these theorems for every value of the constants.

The names are those of the modules and of `PROJECT.json`; hypotheses are in the
theorems' statements and in the second table.

- `EventClusterProofs`
  - `TypeCorrect`: types and referential integrity, which the foreign keys of
    `article_cluster` would enforce, of what is committed and of what is written, for any
    number of processes. `IInv` adds what each place of a process implies about its
    pick, the lock and the open transaction.
  - `OneClusterPerArticle`: one clusterer never puts an article in two clusters, through kills
    and handler commits. The strengthening: the pick is not committed, the uncommitted rows
    are at most the pick's.
  - `DisplayCorrect`: title and source count of committed clusters, any number of
    clusterers, with no process inside the handlers.
  - `MeanIsOfMembers`: the stored count and mean are those of the members. `StagedInv`
    says what an open transaction has written at each place, and that what `Select` decided
    on is still the best there is when it is committed (`Chosen`). `Summed` is the invariant proper;
    that one more member adds its vector to the sum is a lemma about the folds of
    `Vectors` (`SumIsTotal`, `TotalWith`), proved by taking a smallest set on which it fails.
  - `KeepsPromise`: `assign_pending` implements `ClusterPromise`. Only `Commit` is a step
    there, every other one a stutter; the stored means order the clusters as the
    true ones do (`SameChoice`, from `MeanIsOfMembers`), and a closest one exists because
    closeness is transitive (`CloserTransitive`), which is arithmetic on squares.
  - `ActivityCovers`: in order, `updated_at` is that of the latest member. `Gapless`: what
    is clustered, or will be in this pass, is older than what is not.
  - `GroupsLikeBackfill`: in order, the clusters are those one run over everything clustered
    so far would build. `TracedInv` carries that run along as a history (`Trail`): its
    groups stand for the committed clusters (`Represents`), each commit is its next
    round (`NextInOrder`, `KeepsPromise`'s choice), and a seed is a round in which nothing
    matches (`NoneMatches`).
  - `PassNeverStuck`: of any number of clusterers, each one in a pass has a step, or waits for
    the lock of one that has. So nothing but a fault or a date that cannot be used
    keeps an article from its cluster.
  - `SumStandsForMean`: `Matches` and `Closer` do not change when a centroid is scaled.
- `RunLogProofs`
  - `TypeCorrect`.
  - `ReaperSparesYoungRuns`: a row is at most as old as its live process, so
    `started_at < cutoff` takes only a run that is itself past the threshold
    (`InTime`). `ReaperSparesLiveRuns` follows: if no run outlives the
    threshold, no live run is reaped.
  - `OutcomeIsFinal`: whoever else writes, an outcome stays, unless the historical
    backfill overwrites it.
  - `CleanIsComplete`: a row that reads as completed is of a run that did everything,
    for any overlapping runs. `Progress` carries that no two processes write one row and
    what each has put into its own on the way to where it is.
  - `KilledLeavesWhole`: no recorded exception, then all or none of the results. It
    needs `Progress` and that a live run is not reaped: a run reaped
    alive that then crashes keeps its "abandoned" and half of its results.
  - `PrunedResolved`: retention deletes no unresolved run. `ReapedBefore`: a run that
    has reaped finds no older open row while it lasts.
- `FetchProofs`
  - `TypeCorrect`; a lock belongs to a task in the stretch that holds it.
  - `CapHolds`.
  - `AskedOnce`: `AskedHolding` says that a task waiting for a robots.txt holds its
    host's lock, and a host that nobody holds and no dict entry answers for has
    not been asked. It says so of a gather that goes on; `AbortStays` adds that
    an aborted one does not recover.
  - `DelayKept`: `SleepsRest` says that what is left of a sleep is what is left
    of the delay, since nobody else moves the host's last request.
  - `WaitingEnds`: no circle of waiting, for any feeds, hosts and cap: a task that holds
    the host lock, a robots lock or a place under the cap never waits for a task behind
    it, and time can pass when all that remain are asleep. `FetchAll` looks for deadlocks on
    one instance.
  - `TasksAdvance`: no task goes back and every step but the clock's and a dripping
    server's moves one on, at most six per feed.
- `SourceProofs`
  - `TypeCorrect`, from `Shaped`, which adds that a transaction keeps the rows of
    the source table and adds only those of its file's feeds.
  - `ValidatorsCovered`: the strengthening `CoveredInside` covers the uncommitted
    tables too, and says of a document being processed that everything but its
    rest is in, and all of it is rest before the first statement. The latter
    is what another process's rollback needs.
  - `FlagIsStreak`: `AllEarned` is one direction, in the open transaction too; `Quiet` the
    other, while nobody has edited a file: a committed row that is overdue, at the limit
    or one failure further for each fault, is flagged, and one of the open transaction
    is flagged or has just been counted (`JustCounted`). A fault in between hides one
    failure, which the count of faults pays for. `RowOrigin` is the lemma both rest on:
    which statements a row can come from.
  - `FileIsObeyed`: `Files` says which rows are on as committed, as uncommitted and as read, at
    each place of the one process.
- `SchemaProofs`
  - `TypeCorrect`, `MigrationPrecedesUse`, and `FirstSeenReliable` from `SeenFirst` and
    `OnlyCutLeavesNull`. The invariant says per process which columns it may rely on where it stands
    (`Migration`), of both views of the tables that dates precede what they date
    (`Sound`), and that an open transaction only adds (`Adds`): so a rollback
    takes back nothing another process relied on.
  - `SeenStays`, `FlagsStay`, `FlagsAreDue` follow with `Grows`, what no step takes
    back: columns, dates, log rows and fetched articles. `FlagsStay` is about each source
    by itself, over every step that leaves it enabled: the other edits of the file are
    among them. CapRespected (`CapHolds`) and
    SeenOnce (`SeenStays`) have no run: they are proved.
  - `FlagsAreExact`: a silent source is flagged in time, and the report can be made. `Dates`
    says what the fallback date is worth: the oldest start in the log is a row
    of the old version, so it is in whole seconds and not after the source was listed.
- `EnrichProofs`
  - `TypeCorrect`, any number of processes, models and articles.
  - `ClustersTheEmbedded`: `Covered` says what a run knows of every article it
    saw, embedded or on its list; an open transaction takes no vector away (`Rises`).
  - `CentroidsOfEmbeddings`: what entered a centroid is what the articles have, also when
    an exception cut a placement and a handler committed the half (that its members are
    those articles is then not true: MeanOfMembers). `Settled` says that vectors are of one
    model, that those on the lists of the process are still missing and those there stay,
    of both views of the tables that their centroids are made of the embeddings (`Made`),
    and of a process between two statements of a placement that the centroid it read, and
    so the one it is about to write (`NewMean`), is too.
- `RenderProofs`
  - `CardsSupported`: `Growth` is what a clusterer's step never takes back (members,
    titles, counts), so `CardInv`, which compares a card read earlier with the tables
    of now, survives it.
  - `PageIsComplete`: `DueInv` says of an article the page owes that it is on a card, or
    that its cluster is listed and not yet read. It needs `ActivityCovers`.
- `NormalizeProofs`
  - `TypeCorrect`; the invariant `IInv` says of every row that its key is that of
    its link (`Sound`), and of every link seen that its key is in the table.
  - `KeysArePages`: two links with one key lead to one page (`KeyTellsPage`), in any capitals,
    and two that lead to one page have one key if what is held is held in small letters
    (`PageTellsKey`). The page is defined by what a link means, the key by what the
    code leaves of it: the recursion ends at one layer (`TargetEnds`), of that layer
    exactly the noise goes (`CleanDecides`), and where it ends too early, at a wrapper in
    capitals, the url that is left still leads where the link did (`WrapsAlike`, `TailsAlike`).
  - `RowsAreBounded`: `FirstSentencesBound` and `TruncatedBound` are the two cuts of
    `derive_snippet`; the second keeps the first's bound because a prefix has no more
    breaks (`BreaksOfPrefix`) and its width does not depend on what was cut
    (`WidthOfPrefix`). `StampType` is the date.
  - `DatesStay`.
  - `HeadlinesAreMatched`: `SaidAlike` is the induction over two titles at once, since
    each may have spaces where the other has none. `Digits` splits a fingerprint at any
    bit into what is below and a multiple of the power, whose last digit is the bit;
    the power that the sign takes off is an even multiple of it (`PowerDivides`),
    so `SignKeepsBits`. Nothing is assumed of the hash or of the number of bits.
  - `DistanceIsMetric`: `Near` in `Enrich` may be taken for symmetric, and a vector copied
    from a copy (CopyIsNear fails there) is within twice the threshold of its title.
  - The library's induction takes an operator, so here and in `EventClusterProofs` induction
    is done by least counterexample (`Least`, `Induct`), and that a loop's function exists is proved loop by loop from `Recursion`.

Assumptions on constants are the named ASSUMEs of the modules; TLC evaluates
them in every run. Of the assumptions on what is outside, `WrapperAssumption` says that
no wrapper's parameter counts as tracking, `ParserAssumption` that the HTML parser hands
over words, `SnippetsAreRead` that what is stored can be given to it again.
`LegacyAssumption` is one about the past: a row of an earlier version
differs from one of this version in its snippet only, which is all that
`tools/migrate_snippets.py` was written for. What a theorem assumes beyond them:

| Hypothesis | Of | What happens without |
|---|---|---|
| `Solo`: one process | OneClusterPerArticle, MeanIsOfMembers, KeepsPromise, ActivityCovers, GroupsLikeBackfill, PageIsComplete, FileIsObeyed, CentroidsOfEmbeddings | two clusterers, two files, two encoders: AtMostOneCluster, FileDecides and CentroidOfEmbeddings fail, as the divergences show. Nothing in the program keeps an operator from a second process; the task skips its own (`register_task.ps1`) |
| `RunProc = {}`: no handler of `run()` commits | DisplayCorrect, MeanIsOfMembers, KeepsPromise, ActivityCovers, GroupsLikeBackfill, CardsSupported, PageIsComplete | MeanAgrees: half a join is committed |
| `Bounded`: no run outlives the threshold | ReaperSparesLiveRuns, KilledLeavesWhole | ReapedIsDead. The scheduled task is killed before; a run by hand is not |
| `NoBackfill`: the one-off tool is not used, or no longer | KilledLeavesWhole | it gives an interrupted run an outcome that is read as a death |
| `Patient`: retention is longer than threshold and limit together | PrunedResolved | an open row could be deleted before a later run gives it its outcome. The numbers are 90 days, 30 minutes (`config.py`) and the 10 of the task (`register_task.ps1`); a run by hand has no limit |
| `Steady`: one process, or one model | ClustersTheEmbedded | another process embeds with another model between a run's embedding and its clustering |
| `OldLogKept`: the old database is younger than the retention | FlagsAreExact | the oldest row left is younger than the source: BackfillHonest |

Only model-checked: liveness. The prover has no ENABLED, so weak fairness cannot be
used in a proof, and the seven liveness properties stay with TLC. Of two of them the
argument up to fairness is proved. EventuallyGathered: somebody can always go
on (`WaitingEnds`) and every step but the clock's and a dripping server's is one of boundedly many
(`TasksAdvance`).
EventuallyClustered: a pass never gets stuck (`PassNeverStuck`). The `Ready` these
speak of spells out the guards of `Step`; that it is ENABLED Step and nothing
else was compared by TLC on the instances of `FetchAll`, `ClusterSolo` and
`ClusterPair`. The two finding runs show violations and have nothing to prove.

Every safety property of a passing run is stated by a theorem.

## 5. What is not modelled, and the plan

Done, in the order of their weight for the system: `EventCluster`, `RunLog`,
`SourceState`, `Fetch`, `Enrich`, `Render`, `Schema` with `Reports`, `Normalize` with
`Fingerprint`.

Next:

- `Pipeline`: the stages of one run over one database as a composition. What
  crosses two stages is checked where it bites already: `Enrich` from the insert
  to the cluster, `Render` from the cluster to the page.

Not modelled, and why:

- an edit of `source.weight` under clusters that stand: `DisplayAgrees` is about
  the weights of one file;
- a fingerprint that equal titles of different texts share: a statement about
  feeds, not about the code;
- the gates of `week1_check`, `health` and `check_ac10`: they read once, keep
  nothing and print; the validation of `load_feeds`, which raises or does not;
- the third flag of the longitudinal report, `blocked_but_ok`, which asks a server for its
  robots.txt and no table, and with it the exit status;
- what `html.parser` makes of a text, beyond what `MCNormalize` has of it;
- two renderers writing one file.

Left out for good: the model and its rounding, HTML layout, logging, the test
servers and the soak harness, which surround the program and keep no state of
it; tools that were run once over legacy rows, except the one that can meet a
live run.
