---------------------------- MODULE SourceState ----------------------------
(***************************************************************************)
(* What pipeline/ingest.py keeps about feeds from run to run: the source   *)
(* table reconciled with feeds.yaml, validators for conditional requests,  *)
(* the fail streak, and the articles.                                      *)
(*                                                                         *)
(* The database is as in EventCluster: disk is committed, work is what the *)
(* open transaction of writer sees.  A run reads the enabled sources after *)
(* its sync, fetches them with their stored validators, and then applies   *)
(* the results in one transaction.  Fetching is a step per feed, in any    *)
(* order; locks and delays of the fetch are not represented here.          *)
(***************************************************************************)
EXTENDS Integers, FiniteSets

CONSTANTS
    Proc,       \* processes that may run the pipeline
    Url,        \* feed urls that were ever in feeds.yaml
    Version,    \* versions of a feed document, 1 .. some n
    Item,       \* canonical urls of entries
    Offers,     \* Offers[u][v]: the entries of version v of feed u
    Validated,  \* feeds whose server sends an ETag
    FailLimit,  \* FAIL_STREAK_LIMIT
    MaxEdits,   \* bound on edits of feeds.yaml and of robots.txt
    MaxErrors,  \* bound on failed fetches and failed entries
    MaxFaults   \* bound on kills and exceptions

NoOne == "NoOne"
NoEtag == 0

ASSUME SourceProcAssumption == NoOne \notin Proc
ASSUME VersionAssumption == Version \subseteq Nat \ {NoEtag} /\ 1 \in Version
ASSUME OffersAssumption == Offers \in [Url -> [Version -> SUBSET Item]]
ASSUME SourceBoundAssumption ==
    /\ FailLimit \in Nat \ {0} /\ Validated \subseteq Url
    /\ MaxEdits \in Nat /\ MaxErrors \in Nat /\ MaxFaults \in Nat

VARIABLES
    config,    \* each url's entry in feeds.yaml
    robots,    \* feeds that robots.txt disallows
    version,   \* the version each feed's server has
    disk,      \* committed source and article tables
    work,      \* the tables as the open transaction sees them
    writer,    \* the process whose transaction is open
    at,        \* where each process is
    feeds,     \* feeds.yaml as each process loaded it
    unsynced,  \* the feeds of that file whose rows it has still to write
    validator, \* etags of the sources each process read and must still fetch
    result,    \* what its fetches brought, until it is processed
    entry,     \* the feed document it is going through
    used       \* how much of each bound is spent

server == <<config, robots, version>>
local == <<at, feeds, unsynced, validator, result, entry>>
vars == <<server, disk, work, writer, local, used>>

Entries == {"absent", "on", "off", "robots"}
Status == {"ok", "degraded", "disabled", "blocked"}
Source == [enabled: BOOLEAN, status: Status, streak: Nat, etag: Version \cup {NoEtag}]
Result == [kind: {"ok", "not_modified", "skipped", "error"}, ver: Version]
NoFile == [u \in Url |-> "absent"]
NoEntry == [url |-> "none", ver |-> NoEtag, rest |-> {}]

Init ==
    /\ config = [u \in Url |-> "on"]
    /\ robots = {}
    /\ version = [u \in Url |-> 1]
    /\ disk = [source |-> [u \in {} |-> {}], article |-> {}]
    /\ work = disk
    /\ writer = NoOne
    /\ at = [p \in Proc |-> "idle"]
    /\ feeds = [p \in Proc |-> NoFile]
    /\ unsynced = [p \in Proc |-> {}]
    /\ validator = [p \in Proc |-> [u \in {} |-> NoEtag]]
    /\ result = [p \in Proc |-> [u \in {} |-> {}]]
    /\ entry = [p \in Proc |-> NoEntry]
    /\ used = [edits |-> 0, errors |-> 0, faults |-> 0]

Spend(what, bound) ==
    used[what] < bound /\ used' = [used EXCEPT ![what] = @ + 1]

Without(f, u) == [x \in DOMAIN f \ {u} |-> f[x]]

MayWrite(p) == writer \in {NoOne, p}

\* A statement of p: it opens the transaction if none is open.
Writes(p, new) ==
    /\ MayWrite(p)
    /\ work' = new
    /\ writer' = p
    /\ UNCHANGED disk

(***************************************************************************)
(* The world outside                                                       *)
(***************************************************************************)
Edit(u) ==
    /\ Spend("edits", MaxEdits)
    /\ \/ config' \in {[config EXCEPT ![u] = c] : c \in Entries \ {config[u]}}
          /\ UNCHANGED robots
       \/ robots' = (robots \ {u}) \cup ({u} \ robots) /\ UNCHANGED config
    /\ UNCHANGED <<version, disk, work, writer, local>>

\* A new document, of other entries or with another ETag.
Publish(u) ==
    /\ version[u] + 1 \in Version
    /\ u \in Validated \/ Offers[u][version[u] + 1] # Offers[u][version[u]]
    /\ version' = [version EXCEPT ![u] = @ + 1]
    /\ UNCHANGED <<config, robots, disk, work, writer, local, used>>

(***************************************************************************)
(* Start of a run                                                          *)
(***************************************************************************)
\* config.load_feeds.
Load(p) ==
    /\ at[p] = "idle"
    /\ feeds' = [feeds EXCEPT ![p] = config]
    /\ unsynced' = [unsynced EXCEPT ![p] = {u \in Url : config[u] # "absent"}]
    /\ at' = [at EXCEPT ![p] = "sync"]
    /\ UNCHANGED <<server, disk, work, writer, validator, result, entry, used>>

ForcedStatusIsReason(c) == c

\* A feed that is off reads as disabled, or as blocked where the file says
\* that robots.txt is the reason.
ForcedStatus(c) == IF c = "robots" THEN "blocked" ELSE "disabled"

\* The row of u after its UPDATE, or its INSERT if there is none.
Listed(source, u, c) ==
    IF u \notin DOMAIN source
    THEN [enabled |-> c = "on", status |-> IF c = "on" THEN "ok" ELSE ForcedStatus(c),
          streak |-> 0, etag |-> NoEtag]
    ELSE [source[u] EXCEPT
            !.enabled = (c = "on"),
            !.status = IF c # "on" THEN ForcedStatus(c)
                       ELSE IF @ \in {"disabled", "blocked"} THEN "ok" ELSE @]

\* The table with that row.
WithFeed(source, u, c) ==
    [x \in DOMAIN source \cup {u} |-> IF x = u THEN Listed(source, u, c) ELSE source[x]]

Removed(row) == [row EXCEPT !.enabled = FALSE, !.status = "disabled"]

OthersKept(source, f) == source

\* The table with what is not in the file disabled.
OthersRemoved(source, f) ==
    [u \in DOMAIN source |-> IF f[u] = "absent" THEN Removed(source[u]) ELSE source[u]]

\* sync_sources, a statement per feed in the order of the file; any order is
\* more behaviours.
SyncFeed(p, u) ==
    /\ at[p] = "sync"
    /\ Writes(p, [work EXCEPT !.source = WithFeed(@, u, feeds[p][u])])
    /\ unsynced' = [unsynced EXCEPT ![p] = @ \ {u}]
    /\ UNCHANGED <<server, at, feeds, validator, result, entry, used>>

\* Its last statement and its commit.
SyncRest(p) ==
    /\ at[p] = "sync" /\ unsynced[p] = {}
    /\ MayWrite(p)
    /\ disk' = [work EXCEPT !.source = OthersRemoved(@, feeds[p])]
    /\ work' = disk' /\ writer' = NoOne
    /\ at' = [at EXCEPT ![p] = "read"]
    /\ UNCHANGED <<server, feeds, unsynced, validator, result, entry, used>>

\* SELECT ... FROM source WHERE enabled = 1
Read(p) ==
    LET enabled == {u \in DOMAIN disk.source : disk.source[u].enabled} IN
    /\ at[p] = "read"
    /\ validator' = [validator EXCEPT ![p] = [u \in enabled |-> disk.source[u].etag]]
    /\ result' = [result EXCEPT ![p] = [u \in {} |-> {}]]
    /\ at' = [at EXCEPT ![p] = "fetch"]
    /\ UNCHANGED <<server, disk, work, writer, feeds, unsynced, entry, used>>

(***************************************************************************)
(* Fetching                                                                *)
(***************************************************************************)
Answers(p, u, kind) ==
    /\ at[p] = "fetch" /\ u \in DOMAIN validator[p]
    /\ validator' = [validator EXCEPT ![p] = Without(@, u)]
    /\ result' = [result EXCEPT ![p] =
            [x \in DOMAIN @ \cup {u} |-> IF x = u THEN [kind |-> kind, ver |-> version[u]]
                                                  ELSE @[x]]]
    /\ UNCHANGED <<server, disk, work, writer, at, feeds, unsynced, entry>>

Disallowed(p, u) == u \in robots /\ Answers(p, u, "skipped") /\ UNCHANGED used

\* 304 for the stored validator, 200 for any other.
Fetched(p, u) ==
    /\ u \notin robots
    /\ u \in DOMAIN validator[p]
    /\ Answers(p, u, IF u \in Validated /\ validator[p][u] = version[u]
                     THEN "not_modified" ELSE "ok")
    /\ UNCHANGED used

FetchFails(p, u) ==
    /\ u \notin robots
    /\ Answers(p, u, "error")
    /\ Spend("errors", MaxErrors)

\* asyncio.gather returns when every feed has its result.
Gathered(p) ==
    /\ at[p] = "fetch" /\ DOMAIN validator[p] = {}
    /\ at' = [at EXCEPT ![p] = "results"]
    /\ UNCHANGED <<server, disk, work, writer, feeds, unsynced, validator, result, entry, used>>

(***************************************************************************)
(* Applying the results                                                    *)
(***************************************************************************)
\* _mark_source_result(ok=True): COALESCE keeps the old etag.
MarkedOk(row, etag) ==
    [row EXCEPT !.streak = 0, !.status = "ok",
                !.etag = IF etag = NoEtag THEN @ ELSE etag]

\* _mark_source_result(ok=False), first statement ...
Counted(row) == [row EXCEPT !.streak = @ + 1]

FlaggedLate(row) == IF row.streak > FailLimit THEN [row EXCEPT !.status = "degraded"] ELSE row

\* ... and the other two: the streak is read back and decides the status.
Flagged(row) == IF row.streak >= FailLimit THEN [row EXCEPT !.status = "degraded"] ELSE row

\* robots.txt disallowed the fetch.
MarkedSkipped(row) ==
    [row EXCEPT !.status = IF @ = "degraded" THEN @ ELSE "blocked"]

\* The update of the row of u by p.
Marks(p, u, row) == Writes(p, [work EXCEPT !.source[u] = row])

\* A result without a document that is no failure.
Recorded(p, u) ==
    LET kind == result[p][u].kind
        row == work.source[u]
    IN  /\ at[p] = "results" /\ kind \in {"not_modified", "skipped"}
        /\ Marks(p, u, IF kind = "skipped" THEN MarkedSkipped(row) ELSE MarkedOk(row, NoEtag))
        /\ result' = [result EXCEPT ![p] = Without(@, u)]
        /\ UNCHANGED <<server, at, feeds, unsynced, validator, entry, used>>

\* A failure of u is counted; the flag is still to come.
Counts(p, u) ==
    /\ Marks(p, u, Counted(work.source[u]))
    /\ at' = [at EXCEPT ![p] = "failed"]
    /\ entry' = [entry EXCEPT ![p] = [NoEntry EXCEPT !.url = u]]
    /\ UNCHANGED <<server, feeds, unsynced, validator>>

\* A fetch that failed.
RecordedFailure(p, u) ==
    /\ at[p] = "results" /\ result[p][u].kind = "error"
    /\ Counts(p, u)
    /\ result' = [result EXCEPT ![p] = Without(@, u)]
    /\ UNCHANGED used

\* feedparser.parse: the entries to go through.
Parsed(p, u) ==
    LET ver == result[p][u].ver IN
    /\ at[p] = "results" /\ result[p][u].kind = "ok"
    /\ entry' = [entry EXCEPT ![p] = [url |-> u, ver |-> ver, rest |-> Offers[u][ver]]]
    /\ result' = [result EXCEPT ![p] = Without(@, u)]
    /\ at' = [at EXCEPT ![p] = "entries"]
    /\ UNCHANGED <<server, disk, work, writer, feeds, unsynced, validator, used>>

\* INSERT OR IGNORE of one entry.
InsertEntry(p) ==
    /\ at[p] = "entries"
    /\ \E i \in entry[p].rest :
        /\ Writes(p, [work EXCEPT !.article = @ \cup {i}])
        /\ entry' = [entry EXCEPT ![p].rest = @ \ {i}]
    /\ UNCHANGED <<server, at, feeds, unsynced, validator, result, used>>

Leaves(p) ==
    /\ at' = [at EXCEPT ![p] = "results"]
    /\ entry' = [entry EXCEPT ![p] = NoEntry]
    /\ UNCHANGED <<server, feeds, unsynced, validator, result>>

\* The document is through: its validator is stored.
FeedDone(p) ==
    LET k == entry[p] IN
    /\ at[p] = "entries" /\ k.rest = {}
    /\ Marks(p, k.url, MarkedOk(work.source[k.url],
                                IF k.url \in Validated THEN k.ver ELSE NoEtag))
    /\ Leaves(p)
    /\ UNCHANGED used

FeedFailsDone(p) ==
    LET k == entry[p] IN
    /\ at[p] = "entries" /\ k.rest # {}
    /\ Marks(p, k.url, MarkedOk(work.source[k.url],
                                IF k.url \in Validated THEN k.ver ELSE NoEtag))
    /\ Spend("errors", MaxErrors)
    /\ Leaves(p)

\* An entry raises: the failure is counted, the entries already inserted
\* stay, and the validator does not change.
FeedFails(p) ==
    /\ at[p] = "entries" /\ entry[p].rest # {}
    /\ Counts(p, entry[p].url)
    /\ Spend("errors", MaxErrors)
    /\ UNCHANGED result

\* The flag of the failure just counted; the loop goes on with the next feed.
FlagFailure(p) ==
    LET u == entry[p].url IN
    /\ at[p] = "failed"
    /\ Marks(p, u, Flagged(work.source[u]))
    /\ Leaves(p)
    /\ UNCHANGED used

\* The commit of _mark_stage("fetch_complete").
Commit(p) ==
    /\ at[p] = "results" /\ DOMAIN result[p] = {}
    /\ IF writer = p THEN disk' = work /\ writer' = NoOne
                     ELSE UNCHANGED <<disk, writer>>
    /\ at' = [at EXCEPT ![p] = "idle"]
    /\ feeds' = [feeds EXCEPT ![p] = NoFile]
    /\ UNCHANGED <<server, work, unsynced, validator, result, entry, used>>

(***************************************************************************)
(* Failure                                                                 *)
(***************************************************************************)
Ends(p) ==
    /\ at[p] # "idle"
    /\ Spend("faults", MaxFaults)
    /\ at' = [at EXCEPT ![p] = "idle"]
    /\ feeds' = [feeds EXCEPT ![p] = NoFile]
    /\ unsynced' = [unsynced EXCEPT ![p] = {}]
    /\ validator' = [validator EXCEPT ![p] = [u \in {} |-> NoEtag]]
    /\ result' = [result EXCEPT ![p] = [u \in {} |-> {}]]
    /\ entry' = [entry EXCEPT ![p] = NoEntry]
    /\ UNCHANGED server

\* The process dies, and its open transaction with it.
Kill(p) ==
    /\ Ends(p)
    /\ IF writer = p THEN work' = disk /\ writer' = NoOne
                     ELSE UNCHANGED <<work, writer>>
    /\ UNCHANGED disk

\* An exception between two statements reaches a handler of pipeline.run,
\* whose commit publishes the open transaction.
Raise(p) ==
    /\ writer = p
    /\ Ends(p)
    /\ disk' = work /\ writer' = NoOne
    /\ UNCHANGED work

Step(p) ==
    \/ Load(p) \/ SyncRest(p) \/ Read(p) \/ Gathered(p)
    \/ \E u \in unsynced[p] : SyncFeed(p, u)
    \/ \E u \in DOMAIN validator[p] : Disallowed(p, u) \/ Fetched(p, u)
    \/ \E u \in DOMAIN result[p] : Recorded(p, u) \/ RecordedFailure(p, u) \/ Parsed(p, u)
    \/ InsertEntry(p) \/ FeedDone(p) \/ FlagFailure(p) \/ Commit(p)

Mishap(p) ==
    \/ \E u \in DOMAIN validator[p] : FetchFails(p, u)
    \/ FeedFails(p) \/ Kill(p) \/ Raise(p)

Next ==
    \/ \E p \in Proc : Step(p) \/ Mishap(p)
    \/ \E u \in Url : Edit(u) \/ Publish(u)

Spec == Init /\ [][Next]_vars

\* The schedule starts a run again and again, and a run goes on.
FairSpec == Spec /\ \A p \in Proc : WF_vars(Step(p))

(***************************************************************************)
(* Properties                                                              *)
(***************************************************************************)
TablesOK(db) ==
    /\ DOMAIN db = {"source", "article"}
    /\ DOMAIN db.source \subseteq Url
    /\ \A u \in DOMAIN db.source : db.source[u] \in Source
    /\ db.article \subseteq Item

\* Types, and the transaction discipline: what no transaction holds is
\* committed, and a process reads, fetches and marks rows that exist.
TypeOK ==
    /\ config \in [Url -> Entries] /\ robots \subseteq Url /\ version \in [Url -> Version]
    /\ TablesOK(disk) /\ TablesOK(work)
    /\ writer \in Proc \cup {NoOne}
    /\ writer = NoOne => work = disk
    /\ at \in [Proc -> {"idle", "sync", "read", "fetch", "results", "entries", "failed"}]
    /\ feeds \in [Proc -> [Url -> Entries]] /\ unsynced \in [Proc -> SUBSET Url]
    /\ \A p \in Proc :
        /\ DOMAIN validator[p] \cup DOMAIN result[p] \subseteq DOMAIN disk.source
        /\ \A u \in DOMAIN result[p] : result[p][u] \in Result
        /\ at[p] = "entries" => /\ entry[p].url \in DOMAIN disk.source
                                /\ entry[p].ver \in Version
                                /\ entry[p].rest \subseteq Offers[entry[p].url][entry[p].ver]
        /\ at[p] = "failed" => writer = p /\ entry[p].url \in DOMAIN disk.source
    /\ used \in [{"edits", "errors", "faults"} -> Nat]

\* FR-201: a stored validator makes the server answer 304 for that version,
\* and then nobody looks at its entries again.  So when a validator is
\* committed, every entry of its version must be: through partial failures,
\* kills, the handlers' commits and a second run with older validators.
ValidatorCovered ==
    \A u \in DOMAIN disk.source :
        disk.source[u].etag # NoEtag => Offers[u][disk.source[u].etag] \subseteq disk.article

\* AC-7: a run fetches only feeds that its feeds.yaml has enabled, although
\* it takes them from the table.
FetchesItsFile ==
    \A p \in Proc : \A u \in DOMAIN validator[p] \cup DOMAIN result[p] : feeds[p][u] = "on"

\* A source that is not enabled never reads ok or degraded: a result that
\* comes in late does not undo what the file said.
DisabledStaysDisabled ==
    \A u \in DOMAIN disk.source :
        ~disk.source[u].enabled => disk.source[u].status \in {"disabled", "blocked"}

\* FR-101: what the file says of a feed is what is fetched and shown of it.
FileDecides == FetchesItsFile /\ DisabledStaysDisabled

\* A source is flagged degraded only while its streak is at the limit.
DegradedIsEarned ==
    \A u \in DOMAIN disk.source :
        disk.source[u].status = "degraded" => disk.source[u].streak >= FailLimit

\* FR-104: an enabled source whose streak is at the limit is flagged degraded,
\* as long as nobody edits feeds.yaml or robots.txt: a degraded feed that
\* leaves the file and comes back is ok again with its old streak.  A handler
\* that commits between the count and the flag hides one failure, not more:
\* the next one flags the source, wherever the run that missed it ended.
FailingIsFlagged ==
    used.edits = 0 =>
        \A u \in DOMAIN disk.source :
            disk.source[u].enabled /\ disk.source[u].streak >= FailLimit + used.faults =>
                disk.source[u].status = "degraded"

\* The flag and the streak say the same.
FlaggedAtLimit == DegradedIsEarned /\ FailingIsFlagged

\* What tools/validate_feeds.py says should be structurally impossible: a
\* source reads ok again while robots.txt still disallows its fetch.
BlockedNeverOk ==
    [][\A u \in DOMAIN disk.source :
        /\ disk.source[u].enabled /\ disk.source[u].status = "blocked"
        /\ u \in robots
        => disk'.source[u].status # "ok"]_vars

\* FR-201 and NFR-401: what an enabled feed offers for good is in the
\* database in the end, whatever failed on the way.
EventuallyIngested ==
    \A u \in Url :
        <>[](config[u] = "on" /\ u \notin robots)
            => \A v \in Version : <>[](version[u] = v) => <>(Offers[u][v] \subseteq disk.article)
=============================================================================
