---------------------------- MODULE SourceProofs ----------------------------
(***************************************************************************)
(* Proofs about SourceState, for any processes, feeds, versions and        *)
(* entries, and any bounds on edits, errors and faults.                    *)
(*                                                                         *)
(* ValidatorCovered speaks of committed tables; what keeps it true is in   *)
(* the open transaction: its own validators are covered too, and of a      *)
(* document a process is going through everything but the rest is in.      *)
(***************************************************************************)
EXTENDS SourceState, TLAPS

\* The parts of TypeOK: what the world and the processes' places are ...
WorldOK ==
    /\ config \in [Url -> Entries] /\ robots \subseteq Url /\ version \in [Url -> Version]
    /\ at \in [Proc -> {"idle", "sync", "read", "fetch", "results", "entries", "failed"}]
    /\ feeds \in [Proc -> [Url -> Entries]] /\ unsynced \in [Proc -> SUBSET Url]
    /\ used \in [{"edits", "errors", "faults"} -> Nat]

\* ... the tables and their writer: a transaction changes rows of the source
\* table or adds some, and removes none ...
TablesShaped ==
    /\ TablesOK(disk) /\ TablesOK(work)
    /\ DOMAIN disk.source \subseteq DOMAIN work.source
    /\ writer \in Proc \cup {NoOne}
    /\ writer = NoOne => work = disk

\* ... and what a process has read and fetched.
LocalOK(p) ==
    /\ DOMAIN validator[p] \cup DOMAIN result[p] \subseteq DOMAIN disk.source
    /\ \A u \in DOMAIN result[p] : result[p][u] \in Result
    /\ at[p] = "entries" => /\ entry[p].url \in DOMAIN disk.source
                            /\ entry[p].ver \in Version
                            /\ entry[p].rest \subseteq Offers[entry[p].url][entry[p].ver]
    /\ at[p] = "failed" => writer = p /\ entry[p].url \in DOMAIN disk.source

LocalsShaped ==
    /\ DOMAIN validator = Proc /\ DOMAIN result = Proc /\ entry \in [Proc -> [url: Url \cup {"none"}, ver: Version \cup {NoEtag}, rest: SUBSET Item]]
    /\ \A p \in Proc : LocalOK(p)

\* The inductive form of TypeOK.
Shaped == WorldOK /\ TablesShaped /\ LocalsShaped

\* A result recorded in a row leaves a typed row; only a success with an etag
\* changes the validator.
LEMMA EtagOfMarks ==
    ASSUME NEW row \in Source, NEW etag \in Version \cup {NoEtag}
    PROVE  /\ MarkedOk(row, etag) \in Source
           /\ MarkedOk(row, etag).etag = IF etag = NoEtag THEN row.etag ELSE etag
           /\ Counted(row) \in Source /\ Counted(row).etag = row.etag
           /\ Flagged(row) \in Source /\ Flagged(row).etag = row.etag
           /\ MarkedSkipped(row) \in Source /\ MarkedSkipped(row).etag = row.etag
<1>1. MarkedOk(row, etag) \in Source
  BY DEF Source, Status, MarkedOk
<1>2. MarkedOk(row, etag).etag = IF etag = NoEtag THEN row.etag ELSE etag
  BY DEF Source, MarkedOk
<1>3. Counted(row) \in Source /\ Counted(row).etag = row.etag
  <2>1. row.streak + 1 \in Nat
    BY DEF Source
  <2> QED
    BY <2>1 DEF Source, Counted
<1>5. Flagged(row) \in Source /\ Flagged(row).etag = row.etag
  BY DEF Source, Status, Flagged
<1>4. MarkedSkipped(row) \in Source /\ MarkedSkipped(row).etag = row.etag
  BY DEF Source, Status, MarkedSkipped
<1> QED
  BY <1>1, <1>2, <1>3, <1>4, <1>5

\* The rows of new are typed and keep the validators of source.
RowsKept(source, new) ==
    /\ DOMAIN source \subseteq DOMAIN new /\ DOMAIN new \subseteq Url
    /\ \A x \in DOMAIN new :
         /\ new[x] \in Source
         /\ new[x].etag = IF x \in DOMAIN source THEN source[x].etag ELSE NoEtag

\* The statement for a feed writes a typed row, with the validator the feed
\* had or none ...
LEMMA FeedRow ==
    ASSUME NEW source, DOMAIN source \subseteq Url,
           \A x \in DOMAIN source : source[x] \in Source,
           NEW u \in Url, NEW c \in Entries
    PROVE  RowsKept(source, WithFeed(source, u, c))
<1>1. /\ Listed(source, u, c) \in Source
      /\ Listed(source, u, c).etag = IF u \in DOMAIN source THEN source[u].etag ELSE NoEtag
  BY DEF Source, Status, Listed, ForcedStatus
<1> QED
  BY <1>1 DEF WithFeed, RowsKept

\* ... and the last one keeps all of them.
LEMMA OtherRows ==
    ASSUME NEW source, DOMAIN source \subseteq Url,
           \A x \in DOMAIN source : source[x] \in Source, NEW f
    PROVE  RowsKept(source, OthersRemoved(source, f))
<1>1. ASSUME NEW x \in DOMAIN source
      PROVE  Removed(source[x]) \in Source /\ Removed(source[x]).etag = source[x].etag
  BY <1>1 DEF Source, Status, Removed
<1> QED
  BY <1>1 DEF OthersRemoved, RowsKept

\* A transaction that writes the source table and leaves the articles.
SourceWritten(p, new) ==
    /\ work'.source = new /\ work'.article = work.article
    /\ DOMAIN work' = {"source", "article"}
    /\ MayWrite(p)
    /\ \/ disk' = disk /\ writer' = p
       \/ disk' = work' /\ writer' = NoOne

\* What either statement of sync_sources does, to the tables and to the rest.
LEMMA SyncStep ==
    ASSUME Shaped, NEW p \in Proc,
           (\E u \in unsynced[p] : SyncFeed(p, u)) \/ SyncRest(p)
    PROVE  /\ \E new : SourceWritten(p, new) /\ RowsKept(work.source, new)
           /\ WorldOK' /\ UNCHANGED <<validator, result, entry>>
           /\ at[p] = "sync" /\ at'[p] \notin {"entries", "failed"} /\ \A q \in Proc \ {p} : at'[q] = at[q]
<1> USE DEF Shaped
<1>0. feeds[p] \in [Url -> Entries] /\ unsynced[p] \subseteq Url
  BY DEF WorldOK
<1>1. /\ DOMAIN work.source \subseteq Url /\ \A u \in DOMAIN work.source : work.source[u] \in Source
      /\ DOMAIN work = {"source", "article"}
  BY DEF TablesShaped, TablesOK
<1>2. ASSUME NEW u \in unsynced[p], SyncFeed(p, u)
      PROVE  SourceWritten(p, WithFeed(work.source, u, feeds[p][u]))
  BY <1>1, <1>2 DEF SyncFeed, Writes, SourceWritten
<1>3. ASSUME SyncRest(p) PROVE SourceWritten(p, OthersRemoved(work.source, feeds[p]))
  BY <1>1, <1>3 DEF SyncRest, SourceWritten
<1> DEFINE Aside ==
             /\ WorldOK' /\ UNCHANGED <<validator, result, entry>>
             /\ at[p] = "sync" /\ at'[p] \notin {"entries", "failed"} /\ \A q \in Proc \ {p} : at'[q] = at[q]
<1>4. ASSUME NEW u \in unsynced[p], SyncFeed(p, u)
      PROVE  RowsKept(work.source, WithFeed(work.source, u, feeds[p][u])) /\ Aside
  <2>1. u \in Url /\ feeds[p][u] \in Entries
    BY <1>0
  <2>2. RowsKept(work.source, WithFeed(work.source, u, feeds[p][u]))
    BY <1>1, <2>1, FeedRow
  <2>3. Aside
    BY <1>4 DEF SyncFeed, WorldOK, server
  <2> QED
    BY <2>2, <2>3
<1>5. ASSUME SyncRest(p)
      PROVE  RowsKept(work.source, OthersRemoved(work.source, feeds[p])) /\ Aside
  <2>1. RowsKept(work.source, OthersRemoved(work.source, feeds[p]))
    BY <1>1, OtherRows
  <2>2. Aside
    BY <1>5 DEF SyncRest, WorldOK, server
  <2> QED
    BY <2>1, <2>2
<1> QED
  BY <1>2, <1>3, <1>4, <1>5

\* A marked row is a row: the statement keeps the tables and the writer typed.
LEMMA MarksShaped ==
    ASSUME TablesShaped, NEW p \in Proc, NEW u \in DOMAIN disk.source,
           NEW row \in Source, Marks(p, u, row)
    PROVE  /\ TablesShaped' /\ disk' = disk /\ writer' = p
           /\ writer \in {NoOne, p}
           /\ work'.article = work.article
           /\ work'.source = [work.source EXCEPT ![u] = row]
BY SourceProcAssumption DEF TablesShaped, TablesOK, Marks, Writes, MayWrite


\* Shaped says what TypeOK says.
LEMMA ShapedTyped == Shaped => TypeOK
BY DEF Shaped, WorldOK, TablesShaped, LocalsShaped, LocalOK, TypeOK

\* Spending from a bound keeps the counters typed.
LEMMA SpendOK ==
    ASSUME used \in [{"edits", "errors", "faults"} -> Nat],
           NEW what \in {"edits", "errors", "faults"}, NEW bound, Spend(what, bound)
    PROVE  used' \in [{"edits", "errors", "faults"} -> Nat]
BY DEF Spend

\* A fetch moves a url from the validators to the results.
LEMMA AnswersShaped ==
    ASSUME Shaped, NEW p \in Proc, NEW u \in DOMAIN validator[p],
           NEW kind \in {"ok", "not_modified", "skipped", "error"}, Answers(p, u, kind)
    PROVE  TablesShaped' /\ LocalsShaped'
<1> USE DEF Shaped
<1>1. /\ validator' = [validator EXCEPT ![p] = Without(@, u)]
      /\ result' = [result EXCEPT ![p] =
            [x \in DOMAIN @ \cup {u} |-> IF x = u THEN [kind |-> kind, ver |-> version[u]] ELSE @[x]]]
      /\ UNCHANGED <<disk, work, writer, at, entry>>
  BY DEF Answers
<1>2. [kind |-> kind, ver |-> version[u]] \in Result
  BY DEF WorldOK, LocalsShaped, LocalOK, TablesShaped, TablesOK, Result
<1>3. DOMAIN validator'[p] \subseteq DOMAIN validator[p]
  BY <1>1 DEF LocalsShaped, Without
<1>4. DOMAIN result'[p] = DOMAIN result[p] \cup {u}
  BY <1>1 DEF LocalsShaped
<1>5. \A x \in DOMAIN result'[p] : result'[p][x] \in Result
  BY <1>1, <1>2, <1>4 DEF LocalsShaped, LocalOK
<1>6. \A q \in Proc \ {p} : validator'[q] = validator[q] /\ result'[q] = result[q]
  BY <1>1 DEF LocalsShaped
<1>7. TablesShaped'
  BY <1>1 DEF TablesShaped, TablesOK
<1>8. LocalOK(p)'
  BY <1>1, <1>3, <1>4, <1>5 DEF LocalsShaped, LocalOK
<1>9. ASSUME NEW q \in Proc \ {p} PROVE LocalOK(q)'
  BY <1>1, <1>6 DEF LocalsShaped, LocalOK
<1>10. LocalsShaped'
  BY <1>1, <1>8, <1>9 DEF LocalsShaped
<1> QED
  BY <1>7, <1>10

\* Whoever may write finds no other process between a count and its flag.
LEMMA OthersFlagged ==
    ASSUME LocalsShaped, NEW p \in Proc, writer \in {NoOne, p}
    PROVE  \A q \in Proc \ {p} : at[q] # "failed"
BY SourceProcAssumption DEF LocalsShaped, LocalOK

\* A process leaves a document, having written its row.
LEMMA LeavesShaped ==
    ASSUME Shaped, NEW p \in Proc, TablesShaped', disk' = disk, writer \in {NoOne, p}, Leaves(p)
    PROVE  LocalsShaped' /\ at' \in [Proc -> {"idle", "sync", "read", "fetch", "results", "entries", "failed"}]
<1>1. \A q \in Proc \ {p} : at[q] # "failed"
  BY OthersFlagged DEF Shaped
<1> QED
  BY <1>1 DEF Shaped, Leaves, WorldOK, LocalsShaped, LocalOK, NoEntry

\* A process counts a failure.
LEMMA CountsShaped ==
    ASSUME Shaped, NEW p \in Proc, NEW u \in DOMAIN disk.source, Counts(p, u),
           result' \in {result, [result EXCEPT ![p] = Without(@, u)]}
    PROVE  /\ TablesShaped' /\ LocalsShaped' /\ disk' = disk
           /\ at' \in [Proc -> {"idle", "sync", "read", "fetch", "results", "entries", "failed"}]
<1> DEFINE row == Counted(work.source[u])
<1>1. row \in Source /\ Marks(p, u, row)
  BY EtagOfMarks DEF Counts, Shaped, TablesShaped, TablesOK
<1>2. TablesShaped' /\ disk' = disk /\ writer' = p /\ writer \in {NoOne, p}
  BY <1>1, MarksShaped DEF Shaped
<1>3. \A q \in Proc \ {p} : at[q] # "failed"
  BY <1>2, OthersFlagged DEF Shaped
<1>4. /\ at' = [at EXCEPT ![p] = "failed"] /\ validator' = validator
      /\ entry' = [entry EXCEPT ![p] = [NoEntry EXCEPT !.url = u]]
  BY DEF Counts
<1>5. u \in Url /\ DOMAIN result' = DOMAIN result
      /\ \A q \in Proc : /\ DOMAIN result'[q] \subseteq DOMAIN result[q]
                         /\ \A x \in DOMAIN result'[q] : result'[q][x] = result[q][x]
  BY DEF Without, Shaped, LocalsShaped, TablesShaped, TablesOK
<1>6. [NoEntry EXCEPT !.url = u] = [url |-> u, ver |-> NoEtag, rest |-> {}]
  BY DEF NoEntry
<1>7. LocalOK(p)'
  BY <1>2, <1>4, <1>5, <1>6 DEF Shaped, WorldOK, LocalsShaped, LocalOK
<1>8. ASSUME NEW q \in Proc \ {p} PROVE LocalOK(q)'
  BY <1>2, <1>3, <1>4, <1>5 DEF Shaped, WorldOK, LocalsShaped, LocalOK
<1>9. entry' \in [Proc -> [url: Url \cup {"none"}, ver: Version \cup {NoEtag}, rest: SUBSET Item]]
  BY <1>4, <1>5, <1>6 DEF Shaped, LocalsShaped
<1>10. LocalsShaped'
  BY <1>4, <1>5, <1>7, <1>8, <1>9 DEF Shaped, LocalsShaped
<1> QED
  BY <1>2, <1>4, <1>10 DEF Shaped, WorldOK

\* A process that dies or raises drops what it had read.
LEMMA EndsShaped ==
    ASSUME Shaped, NEW p \in Proc, Ends(p), DOMAIN disk.source \subseteq DOMAIN disk'.source,
           writer' = writer \/ writer = p
    PROVE  LocalsShaped' /\ WorldOK'
<1>1. LocalsShaped'
  BY SourceProcAssumption DEF Shaped, Ends, WorldOK, LocalsShaped, LocalOK, NoEntry
<1>2. used' \in [{"edits", "errors", "faults"} -> Nat]
  BY SpendOK DEF Shaped, WorldOK, Ends
<1>3. WorldOK'
  BY <1>2 DEF Shaped, Ends, WorldOK, server, NoFile, Entries
<1> QED
  BY <1>1, <1>3

\* Every step keeps the types.
LEMMA ShapedStep == Shaped /\ [Next]_vars => Shaped'
<1> SUFFICES ASSUME Shaped, [Next]_vars PROVE Shaped'
  OBVIOUS
<1> USE SourceProcAssumption, VersionAssumption, OffersAssumption
<1>1. ASSUME NEW u \in Url, Edit(u) PROVE Shaped'
  <2>1. config' \in [Url -> Entries] /\ robots' \subseteq Url
    BY <1>1 DEF Edit, Shaped, WorldOK
  <2>2. used' \in [{"edits", "errors", "faults"} -> Nat]
    BY <1>1, SpendOK DEF Edit, Shaped, WorldOK
  <2>3. UNCHANGED <<version, disk, work, writer, local>>
    BY <1>1 DEF Edit
  <2> QED
    BY <2>1, <2>2, <2>3 DEF Shaped, WorldOK, TablesShaped, TablesOK, LocalsShaped, LocalOK, local
<1>2. ASSUME NEW u \in Url, Publish(u) PROVE Shaped'
  BY <1>2 DEF Publish, Shaped, WorldOK, TablesShaped, TablesOK, LocalsShaped, LocalOK, local
<1>3. ASSUME NEW p \in Proc, Load(p) PROVE Shaped'
  BY <1>3 DEF Load, server, Shaped, WorldOK, TablesShaped, TablesOK, LocalsShaped, LocalOK
<1>4. ASSUME NEW p \in Proc, (\E u \in unsynced[p] : SyncFeed(p, u)) \/ SyncRest(p)
      PROVE  Shaped'
  <2>1. PICK new : SourceWritten(p, new) /\ RowsKept(work.source, new)
    BY <1>4, SyncStep
  <2>2. /\ WorldOK' /\ UNCHANGED <<validator, result, entry>>
        /\ at[p] = "sync" /\ at'[p] \notin {"entries", "failed"} /\ \A q \in Proc \ {p} : at'[q] = at[q]
    BY <1>4, SyncStep
  <2>3. TablesOK(work)' /\ DOMAIN disk.source \subseteq DOMAIN work'.source
    BY <2>1 DEF SourceWritten, RowsKept, Shaped, TablesShaped, TablesOK
  <2>4. TablesShaped' /\ DOMAIN disk.source \subseteq DOMAIN disk'.source
    BY <2>1, <2>3 DEF SourceWritten, Shaped, TablesShaped, TablesOK
  <2>5. \A q \in Proc \ {p} : at[q] # "failed"
    BY <2>1, OthersFlagged DEF SourceWritten, MayWrite, Shaped
  <2>6. LocalsShaped'
    BY <2>2, <2>4, <2>5 DEF Shaped, LocalsShaped, LocalOK
  <2> QED
    BY <2>2, <2>4, <2>6 DEF Shaped
<1>5. ASSUME NEW p \in Proc, Read(p) PROVE Shaped'
  BY <1>5 DEF Read, server, Shaped, WorldOK, TablesShaped, TablesOK, LocalsShaped, LocalOK
<1>6. ASSUME NEW p \in Proc, NEW u \in DOMAIN validator[p],
             Disallowed(p, u) \/ Fetched(p, u) \/ FetchFails(p, u)
      PROVE  Shaped'
  <2>1. PICK kind \in {"ok", "not_modified", "skipped", "error"} : Answers(p, u, kind)
    BY <1>6 DEF Disallowed, Fetched, FetchFails
  <2>2. TablesShaped' /\ LocalsShaped'
    BY <2>1, AnswersShaped
  <2>3. used' \in [{"edits", "errors", "faults"} -> Nat]
    BY <1>6, SpendOK DEF Disallowed, Fetched, FetchFails, Shaped, WorldOK
  <2>4. UNCHANGED <<server, at, feeds, unsynced>>
    BY <2>1 DEF Answers
  <2> QED
    BY <2>2, <2>3, <2>4 DEF Shaped, WorldOK, server
<1>7. ASSUME NEW p \in Proc, Gathered(p) PROVE Shaped'
  BY <1>7 DEF Gathered, server, Shaped, WorldOK, TablesShaped, TablesOK, LocalsShaped, LocalOK
<1>8. ASSUME NEW p \in Proc, NEW u \in DOMAIN result[p], Recorded(p, u) PROVE Shaped'
  <2>1. u \in DOMAIN disk.source /\ work.source[u] \in Source
    BY DEF Shaped, LocalsShaped, LocalOK, TablesShaped, TablesOK
  <2>2. PICK row \in Source : Marks(p, u, row)
    BY <1>8, <2>1, EtagOfMarks DEF Recorded
  <2>3. TablesShaped' /\ disk' = disk /\ writer \in {NoOne, p}
    BY <2>1, <2>2, MarksShaped DEF Shaped
  <2>4. /\ at[p] = "results" /\ result' = [result EXCEPT ![p] = Without(@, u)]
        /\ UNCHANGED <<server, at, feeds, unsynced, validator, entry, used>>
    BY <1>8 DEF Recorded
  <2>5. WorldOK'
    BY <2>4 DEF Shaped, WorldOK, server
  <2>6. \A q \in Proc : at[q] # "failed"
    BY <2>3, <2>4, OthersFlagged DEF Shaped
  <2>7. LocalsShaped'
    BY <2>3, <2>4, <2>6 DEF Shaped, LocalsShaped, LocalOK, Without
  <2> QED
    BY <2>3, <2>5, <2>7 DEF Shaped
<1>15. ASSUME NEW p \in Proc, FeedFails(p) \/ \E u \in DOMAIN result[p] : RecordedFailure(p, u)
       PROVE  Shaped'
  <2>1. PICK u \in DOMAIN disk.source : /\ Counts(p, u)
                                       /\ result' \in {result, [result EXCEPT ![p] = Without(@, u)]}
    BY <1>15 DEF FeedFails, RecordedFailure, Shaped, LocalsShaped, LocalOK
  <2>2. /\ TablesShaped' /\ LocalsShaped' /\ disk' = disk
        /\ at' \in [Proc -> {"idle", "sync", "read", "fetch", "results", "entries", "failed"}]
    BY <2>1, CountsShaped
  <2>3. used' \in [{"edits", "errors", "faults"} -> Nat]
    BY <1>15, SpendOK DEF FeedFails, RecordedFailure, Shaped, WorldOK
  <2> QED
    BY <2>1, <2>2, <2>3 DEF Shaped, WorldOK, Counts, server
<1>9. ASSUME NEW p \in Proc, NEW u \in DOMAIN result[p], Parsed(p, u) PROVE Shaped'
  <2>1. u \in DOMAIN disk.source /\ u \in Url /\ result[p][u].ver \in Version
    BY DEF Shaped, LocalsShaped, LocalOK, TablesShaped, TablesOK, Result
  <2>2. /\ entry' = [entry EXCEPT ![p] = [url |-> u, ver |-> result[p][u].ver,
                                          rest |-> Offers[u][result[p][u].ver]]]
        /\ result' = [result EXCEPT ![p] = Without(@, u)]
        /\ at' = [at EXCEPT ![p] = "entries"]
        /\ UNCHANGED <<server, disk, work, writer, feeds, unsynced, validator, used>>
    BY <1>9 DEF Parsed
  <2>3. WorldOK' /\ TablesShaped'
    BY <2>2 DEF Shaped, WorldOK, server, TablesShaped, TablesOK
  <2>4. LocalsShaped'
    BY <2>1, <2>2 DEF Shaped, WorldOK, LocalsShaped, LocalOK, Without
  <2> QED
    BY <2>3, <2>4 DEF Shaped
<1>10. ASSUME NEW p \in Proc, InsertEntry(p) PROVE Shaped'
  <2>1. PICK i \in entry[p].rest :
          /\ Writes(p, [work EXCEPT !.article = @ \cup {i}])
          /\ entry' = [entry EXCEPT ![p].rest = @ \ {i}]
    BY <1>10 DEF InsertEntry
  <2>2. i \in Item
    BY DEF Shaped, LocalsShaped
  <2>3. UNCHANGED <<server, at, feeds, unsynced, validator, result, used>>
    BY <1>10 DEF InsertEntry
  <2>4. TablesShaped'
    BY <2>1, <2>2 DEF Shaped, TablesShaped, TablesOK, Writes
  <2>5. WorldOK'
    BY <2>3 DEF Shaped, WorldOK, server
  <2>6. \A q \in Proc : at[q] # "failed"
    BY <1>10, <2>1, OthersFlagged DEF InsertEntry, Writes, MayWrite, Shaped
  <2>7. LocalsShaped'
    BY <2>1, <2>3, <2>6 DEF Shaped, LocalsShaped, LocalOK, Writes
  <2> QED
    BY <2>4, <2>5, <2>7 DEF Shaped
<1>11. ASSUME NEW p \in Proc, FeedDone(p) \/ FlagFailure(p) PROVE Shaped'
  <2>1. /\ entry[p].url \in DOMAIN disk.source /\ work.source[entry[p].url] \in Source
        /\ FeedDone(p) => entry[p].ver \in Version
    BY <1>11 DEF FeedDone, FlagFailure, Shaped, LocalsShaped, LocalOK, TablesShaped, TablesOK
  <2>2. PICK row \in Source : Marks(p, entry[p].url, row)
    BY <1>11, <2>1, EtagOfMarks DEF FeedDone, FlagFailure
  <2>3. TablesShaped' /\ disk' = disk /\ writer \in {NoOne, p}
    BY <2>1, <2>2, MarksShaped DEF Shaped
  <2>4. Leaves(p) /\ used' = used
    BY <1>11 DEF FeedDone, FlagFailure
  <2>5. LocalsShaped' /\ at' \in [Proc -> {"idle", "sync", "read", "fetch", "results", "entries", "failed"}]
    BY <2>3, <2>4, LeavesShaped
  <2>6. WorldOK'
    BY <2>4, <2>5 DEF Shaped, WorldOK, Leaves, server
  <2> QED
    BY <2>3, <2>5, <2>6 DEF Shaped
<1>12. ASSUME NEW p \in Proc, Commit(p) PROVE Shaped'
  BY <1>12, SourceProcAssumption DEF Commit, server, NoFile, Entries, Shaped, WorldOK, TablesShaped, TablesOK, LocalsShaped, LocalOK
<1>13. ASSUME NEW p \in Proc, Kill(p) \/ Raise(p) PROVE Shaped'
  <2>1. /\ TablesShaped' /\ Ends(p) /\ DOMAIN disk.source \subseteq DOMAIN disk'.source
        /\ writer' = writer \/ writer = p
    BY <1>13 DEF Kill, Raise, Shaped, TablesShaped, TablesOK
  <2> QED
    BY <2>1, EndsShaped DEF Shaped
<1>14. CASE UNCHANGED vars
  BY <1>14 DEF vars, server, local, Shaped, WorldOK, TablesShaped, TablesOK, LocalsShaped, LocalOK
<1> QED
  BY <1>1, <1>2, <1>3, <1>4, <1>5, <1>6, <1>7, <1>8, <1>9, <1>10, <1>11, <1>12, <1>13, <1>14, <1>15
  DEF Next, Step, Mishap

\* The first state is typed.
LEMMA ShapedInit == Init => Shaped
<1> SUFFICES ASSUME Init PROVE Shaped
  OBVIOUS
<1>1. WorldOK
  BY VersionAssumption DEF Init, WorldOK, NoFile, Entries
<1>2. TablesShaped
  BY DEF Init, TablesShaped, TablesOK
<1>3. LocalsShaped
  BY DEF Init, LocalsShaped, LocalOK, NoEntry
<1> QED
  BY <1>1, <1>2, <1>3 DEF Shaped

\* Types and the transaction discipline of ingest, for any processes that run
\* it beside each other.
THEOREM TypeCorrect == Spec => []TypeOK
BY ShapedInit, ShapedStep, ShapedTyped, PTL DEF Spec

(***************************************************************************)
(* Validators                                                              *)
(***************************************************************************)
CoveredIn(db) ==
    \A u \in DOMAIN db.source :
        db.source[u].etag # NoEtag => Offers[u][db.source[u].etag] \subseteq db.article

\* What p still owes of its document is in rest; before its first statement it
\* owes all of it, so that another process's kill takes nothing it counts on.
DocumentIn(p) ==
    at[p] = "entries" =>
        /\ Offers[entry[p].url][entry[p].ver] \ entry[p].rest \subseteq work.article
        /\ writer # p => entry[p].rest = Offers[entry[p].url][entry[p].ver]

CoveredInside ==
    /\ CoveredIn(disk) /\ CoveredIn(work)
    /\ disk.article \subseteq work.article
    /\ \A p \in Proc : DocumentIn(p)

\* A step that leaves the tables and the documents alone.
LEMMA CoveredAside ==
    ASSUME CoveredInside, UNCHANGED <<disk, work, writer>>,
           \A p \in Proc : at'[p] = "entries" => at[p] = "entries" /\ entry'[p] = entry[p]
    PROVE  CoveredInside'
BY DEF CoveredInside, CoveredIn, DocumentIn

\* A row marked by p with the validator it had, or with that of the document
\* of which all entries are in.
LEMMA CoveredMarks ==
    ASSUME Shaped, CoveredInside, NEW p \in Proc, NEW u \in DOMAIN disk.source,
           NEW row \in Source, Marks(p, u, row),
           \/ row.etag = work.source[u].etag
           \/ row.etag # NoEtag => Offers[u][row.etag] \subseteq work.article,
           at'[p] # "entries",
           \A q \in Proc \ {p} : at'[q] = at[q] /\ entry'[q] = entry[q]
    PROVE  CoveredInside'
<1>1. /\ disk' = disk /\ writer' = p /\ work'.article = work.article
      /\ work'.source = [work.source EXCEPT ![u] = row]
  BY MarksShaped DEF Shaped
<1>2. CoveredIn(work')
  BY <1>1 DEF CoveredIn, CoveredInside
<1>3. writer \in {NoOne, p}
  BY DEF Marks, Writes, MayWrite
<1>4. ASSUME NEW q \in Proc PROVE DocumentIn(q)'
  <2>1. CASE q = p
    BY <2>1 DEF DocumentIn
  <2>2. CASE q # p
    <3>1. writer # q
      BY <1>3, <2>2, SourceProcAssumption
    <3> QED
      BY <1>1, <2>2, <3>1 DEF DocumentIn, CoveredInside
  <2> QED
    BY <2>1, <2>2
<1> QED
  BY <1>1, <1>2, <1>4 DEF CoveredInside, CoveredIn

\* Every step keeps the validators covered.
LEMMA CoveredStep == Shaped /\ CoveredInside /\ [Next]_vars => CoveredInside'
<1> SUFFICES ASSUME Shaped, CoveredInside, [Next]_vars PROVE CoveredInside'
  OBVIOUS
<1> USE SourceProcAssumption, VersionAssumption, OffersAssumption
<1>1. ASSUME NEW u \in Url, Edit(u) \/ Publish(u) PROVE CoveredInside'
  BY <1>1, CoveredAside DEF Edit, Publish, local
<1>2. ASSUME NEW p \in Proc, Load(p) \/ Read(p) \/ Gathered(p) PROVE CoveredInside'
  BY <1>2, CoveredAside DEF Load, Read, Gathered, Shaped, WorldOK
<1>3. ASSUME NEW p \in Proc, (\E u \in unsynced[p] : SyncFeed(p, u)) \/ SyncRest(p)
      PROVE  CoveredInside'
  <2>1. PICK new : SourceWritten(p, new) /\ RowsKept(work.source, new)
    BY <1>3, SyncStep
  <2>2. CoveredIn(work)'
    BY <2>1 DEF SourceWritten, RowsKept, CoveredInside, CoveredIn
  <2>3. CoveredIn(disk)' /\ disk'.article \subseteq work'.article
    BY <2>1, <2>2 DEF SourceWritten, CoveredInside, CoveredIn
  <2>4. ASSUME NEW q \in Proc PROVE DocumentIn(q)'
    <3>1. /\ at'[p] # "entries" /\ entry' = entry
          /\ q # p => at'[q] = at[q]
      BY <1>3, SyncStep
    <3>2. q # p => writer # q
      BY <2>1 DEF SourceWritten, MayWrite
    <3> QED
      BY <2>1, <3>1, <3>2 DEF SourceWritten, CoveredInside, DocumentIn
  <2> QED
    BY <2>2, <2>3, <2>4 DEF CoveredInside
<1>4. ASSUME NEW p \in Proc, NEW u \in DOMAIN validator[p],
             Disallowed(p, u) \/ Fetched(p, u) \/ FetchFails(p, u)
      PROVE  CoveredInside'
  BY <1>4, CoveredAside DEF Disallowed, Fetched, FetchFails, Answers
<1>5. ASSUME NEW p \in Proc, NEW u \in DOMAIN result[p], Recorded(p, u) PROVE CoveredInside'
  <2>1. u \in DOMAIN disk.source /\ work.source[u] \in Source
    BY DEF Shaped, LocalsShaped, LocalOK, TablesShaped, TablesOK
  <2>2. PICK row \in Source : Marks(p, u, row) /\ row.etag = work.source[u].etag
    BY <1>5, <2>1, EtagOfMarks DEF Recorded
  <2>3. at[p] = "results" /\ UNCHANGED <<at, entry>>
    BY <1>5 DEF Recorded
  <2> QED
    BY <2>1, <2>2, <2>3, CoveredMarks
<1>11. ASSUME NEW p \in Proc, FeedFails(p) \/ \E u \in DOMAIN result[p] : RecordedFailure(p, u)
       PROVE  CoveredInside'
  <2>1. PICK u \in DOMAIN disk.source : Counts(p, u) /\ work.source[u] \in Source
    BY <1>11 DEF FeedFails, RecordedFailure, Shaped, LocalsShaped, LocalOK, TablesShaped, TablesOK
  <2>2. /\ at'[p] # "entries"
        /\ \A q \in Proc \ {p} : at'[q] = at[q] /\ entry'[q] = entry[q]
    BY <2>1 DEF Counts, Shaped, WorldOK, LocalsShaped
  <2> QED
    BY <2>1, <2>2, EtagOfMarks, CoveredMarks DEF Counts
<1>6. ASSUME NEW p \in Proc, NEW u \in DOMAIN result[p], Parsed(p, u) PROVE CoveredInside'
  <2>1. /\ entry' = [entry EXCEPT ![p] = [url |-> u, ver |-> result[p][u].ver,
                                          rest |-> Offers[u][result[p][u].ver]]]
        /\ at' = [at EXCEPT ![p] = "entries"] /\ UNCHANGED <<disk, work, writer>>
    BY <1>6 DEF Parsed
  <2>2. DocumentIn(p)'
    BY <2>1 DEF DocumentIn, Shaped, LocalsShaped, WorldOK
  <2>3. \A q \in Proc \ {p} : DocumentIn(q)'
    BY <2>1 DEF CoveredInside, DocumentIn, Shaped, LocalsShaped, WorldOK
  <2> QED
    BY <2>1, <2>2, <2>3 DEF CoveredInside, CoveredIn
<1>7. ASSUME NEW p \in Proc, InsertEntry(p) PROVE CoveredInside'
  <2>1. PICK i \in entry[p].rest :
          /\ Writes(p, [work EXCEPT !.article = @ \cup {i}])
          /\ entry' = [entry EXCEPT ![p].rest = @ \ {i}]
    BY <1>7 DEF InsertEntry
  <2>2. /\ disk' = disk /\ writer' = p /\ writer \in {NoOne, p} /\ at' = at
        /\ work'.article = work.article \cup {i} /\ work'.source = work.source
    BY <1>7, <2>1 DEF InsertEntry, Writes, MayWrite, Shaped, TablesShaped, TablesOK
  <2>3. /\ entry'[p].url = entry[p].url /\ entry'[p].ver = entry[p].ver
        /\ entry'[p].rest = entry[p].rest \ {i}
    BY <2>1 DEF Shaped, LocalsShaped
  <2>4. DocumentIn(p)'
    BY <2>2, <2>3 DEF CoveredInside, DocumentIn
  <2>5. ASSUME NEW q \in Proc \ {p} PROVE DocumentIn(q)'
    <3>1. entry'[q] = entry[q] /\ writer # q
      BY <2>1, <2>2 DEF Shaped, LocalsShaped
    <3> QED
      BY <2>2, <3>1 DEF CoveredInside, DocumentIn
  <2> QED
    BY <2>2, <2>4, <2>5 DEF CoveredInside, CoveredIn
<1>8. ASSUME NEW p \in Proc, FeedDone(p) \/ FlagFailure(p) PROVE CoveredInside'
  <2> DEFINE u == entry[p].url
             etag == IF u \in Validated THEN entry[p].ver ELSE NoEtag
  <2>1. u \in DOMAIN disk.source /\ work.source[u] \in Source
    BY <1>8 DEF FeedDone, FlagFailure, Shaped, LocalsShaped, LocalOK, TablesShaped, TablesOK
  <2>2. /\ at'[p] # "entries"
        /\ \A q \in Proc \ {p} : at'[q] = at[q] /\ entry'[q] = entry[q]
    BY <1>8 DEF FeedDone, FlagFailure, Leaves, Shaped, WorldOK, LocalsShaped
  <2>3. CASE FeedDone(p)
    <3>0. at[p] = "entries" /\ entry[p].ver \in Version
      BY <2>3 DEF FeedDone, Shaped, LocalsShaped, LocalOK
    <3>1. Offers[u][entry[p].ver] \subseteq work.article
      BY <2>3, <3>0 DEF FeedDone, CoveredInside, DocumentIn
    <3>2. MarkedOk(work.source[u], etag) \in Source /\ Marks(p, u, MarkedOk(work.source[u], etag))
      BY <2>1, <2>3, <3>0, EtagOfMarks DEF FeedDone
    <3>3. \/ MarkedOk(work.source[u], etag).etag = work.source[u].etag
          \/ Offers[u][MarkedOk(work.source[u], etag).etag] \subseteq work.article
      BY <2>1, <3>0, <3>1, EtagOfMarks
    <3> QED
      BY <2>1, <2>2, <3>2, <3>3, CoveredMarks
  <2>4. CASE FlagFailure(p)
    BY <2>1, <2>2, <2>4, EtagOfMarks, CoveredMarks DEF FlagFailure
  <2> QED
    BY <1>8, <2>3, <2>4
<1>9. ASSUME NEW p \in Proc, Commit(p) \/ Kill(p) \/ Raise(p) PROVE CoveredInside'
  <2>1. /\ at' = [at EXCEPT ![p] = "idle"]
        /\ \A q \in Proc \ {p} : entry'[q] = entry[q]
    BY <1>9 DEF Commit, Kill, Raise, Ends, Shaped, LocalsShaped
  <2>2. \/ UNCHANGED <<disk, work, writer>>
        \/ writer = p /\ writer' = NoOne /\ disk' = work /\ work' = work
        \/ writer = p /\ writer' = NoOne /\ disk' = disk /\ work' = disk
    BY <1>9 DEF Commit, Kill, Raise
  <2>3. CoveredIn(disk)' /\ CoveredIn(work)' /\ disk'.article \subseteq work'.article
    BY <2>2 DEF CoveredInside, CoveredIn
  <2>4. ASSUME NEW q \in Proc, at'[q] = "entries"
        PROVE  q # p /\ at[q] = "entries" /\ entry'[q] = entry[q]
    BY <2>1, <2>4 DEF Shaped, WorldOK
  <2>5. ASSUME NEW q \in Proc PROVE DocumentIn(q)'
    BY <2>2, <2>4 DEF CoveredInside, DocumentIn
  <2> QED
    BY <2>3, <2>5 DEF CoveredInside
<1>10. CASE UNCHANGED vars
  BY <1>10, CoveredAside DEF vars, local
<1> QED
  BY <1>1, <1>2, <1>3, <1>4, <1>5, <1>6, <1>7, <1>8, <1>9, <1>10, <1>11 DEF Next, Step, Mishap

\* FR-201 for any number of processes, feeds and entries: no order of partial
\* failures, kills and handler commits leaves a validator whose entries are
\* not in the database.
THEOREM ValidatorsCovered == Spec => []ValidatorCovered
<1>1. Init => CoveredInside
  BY DEF Init, CoveredInside, CoveredIn, DocumentIn
<1>2. CoveredInside => ValidatorCovered
  BY DEF CoveredInside, CoveredIn, ValidatorCovered
<1> QED
  BY <1>1, <1>2, CoveredStep, ShapedInit, ShapedStep, PTL DEF Spec

(***************************************************************************)
(* Where rows come from                                                    *)
(***************************************************************************)
\* The feeds whose rows p has yet to mark.
Due(p) ==
    DOMAIN validator[p] \cup DOMAIN result[p]
        \cup IF at[p] \in {"entries", "failed"} THEN {entry[p].url} ELSE {}

\* What row of u a result that p has for it makes of the row it had.
MarkedBy(p, u, old, row) ==
    /\ u \in Due(p)
    /\ \/ \E etag \in Version \cup {NoEtag} : row = MarkedOk(old, etag)
       \/ row \in {Counted(old), Flagged(old)}
       \/ u \in DOMAIN result[p] /\ result[p][u].kind = "skipped" /\ row = MarkedSkipped(old)

\* A row of u after a step: one that was there, or one that a statement of
\* sync_sources or _mark_source_result has written.
RowOrigin(u, row) ==
    \/ u \in DOMAIN work.source /\ row = work.source[u]
    \/ u \in DOMAIN disk.source /\ row = disk.source[u]
    \/ \E p \in Proc :
        /\ at[p] = "sync"
        /\ \/ row = Listed(work.source, u, feeds[p][u])
           \/ u \in DOMAIN work.source /\ feeds[p][u] = "absent" /\ row = Removed(work.source[u])
    \/ u \in DOMAIN work.source /\ \E p \in Proc : MarkedBy(p, u, work.source[u], row)

\* Every step leaves rows of that origin, committed or not.
RowsFrom ==
    /\ \A u \in DOMAIN disk'.source : RowOrigin(u, disk'.source[u])
    /\ \A u \in DOMAIN work'.source : RowOrigin(u, work'.source[u])

\* A step that leaves the tables, or commits or rolls back.
LEMMA OldRows ==
    ASSUME disk' \in {disk, work}, work' \in {disk, work}
    PROVE  RowsFrom
BY DEF RowsFrom, RowOrigin

\* A row that p marks is of that origin.
LEMMA MarkedRows ==
    ASSUME Shaped, NEW p \in Proc, NEW u \in DOMAIN disk.source, NEW row \in Source,
           Marks(p, u, row), MarkedBy(p, u, work.source[u], row)
    PROVE  RowsFrom
<1>1. disk' = disk /\ work'.source = [work.source EXCEPT ![u] = row]
  BY MarksShaped DEF Shaped
<1>2. u \in DOMAIN work.source
  BY DEF Shaped, TablesShaped
<1> QED
  BY <1>1, <1>2 DEF RowsFrom, RowOrigin

\* No statement of the pipeline writes another row.
LEMMA RowsOrigin == Shaped /\ [Next]_vars => RowsFrom
<1> SUFFICES ASSUME Shaped, [Next]_vars PROVE RowsFrom
  OBVIOUS
<1> USE VersionAssumption
<1>1. ASSUME NEW u \in Url, Edit(u) \/ Publish(u) PROVE RowsFrom
  BY <1>1, OldRows DEF Edit, Publish
<1>2. ASSUME NEW p \in Proc, Load(p) \/ Read(p) \/ Gathered(p) PROVE RowsFrom
  BY <1>2, OldRows DEF Load, Read, Gathered
<1>3. ASSUME NEW p \in Proc, NEW u \in unsynced[p], SyncFeed(p, u) PROVE RowsFrom
  <2>1. /\ at[p] = "sync" /\ disk' = disk
        /\ work'.source = WithFeed(work.source, u, feeds[p][u])
    BY <1>3 DEF SyncFeed, Writes, Shaped, TablesShaped, TablesOK
  <2>2. ASSUME NEW x \in DOMAIN work'.source PROVE RowOrigin(x, work'.source[x])
    BY <2>1, <2>2 DEF WithFeed, RowOrigin
  <2> QED
    BY <2>1, <2>2 DEF RowsFrom, RowOrigin
<1>4. ASSUME NEW p \in Proc, SyncRest(p) PROVE RowsFrom
  <2>1. /\ at[p] = "sync" /\ disk' = work'
        /\ work'.source = OthersRemoved(work.source, feeds[p])
    BY <1>4 DEF SyncRest, Shaped, TablesShaped, TablesOK
  <2>2. ASSUME NEW x \in DOMAIN work'.source PROVE RowOrigin(x, work'.source[x])
    BY <2>1, <2>2 DEF OthersRemoved, RowOrigin
  <2> QED
    BY <2>1, <2>2 DEF RowsFrom
<1>5. ASSUME NEW p \in Proc, NEW u \in DOMAIN validator[p],
             Disallowed(p, u) \/ Fetched(p, u) \/ FetchFails(p, u)
      PROVE  RowsFrom
  BY <1>5, OldRows DEF Disallowed, Fetched, FetchFails, Answers
<1>6. ASSUME NEW p \in Proc, NEW u \in DOMAIN result[p], Recorded(p, u) PROVE RowsFrom
  <2>1. u \in DOMAIN disk.source /\ work.source[u] \in Source /\ u \in Due(p)
    BY DEF Shaped, LocalsShaped, LocalOK, TablesShaped, TablesOK, Due
  <2>2. PICK row \in Source : Marks(p, u, row) /\ MarkedBy(p, u, work.source[u], row)
    BY <1>6, <2>1, EtagOfMarks DEF Recorded, MarkedBy
  <2> QED
    BY <2>1, <2>2, MarkedRows
<1>12. ASSUME NEW p \in Proc, FeedFails(p) \/ \E u \in DOMAIN result[p] : RecordedFailure(p, u)
       PROVE  RowsFrom
  <2>1. PICK u \in DOMAIN disk.source :
            Counts(p, u) /\ work.source[u] \in Source /\ u \in Due(p)
    BY <1>12 DEF FeedFails, RecordedFailure, Shaped, LocalsShaped, LocalOK, TablesShaped, TablesOK, Due
  <2> QED
    BY <2>1, EtagOfMarks, MarkedRows DEF Counts, MarkedBy
<1>7. ASSUME NEW p \in Proc, NEW u \in DOMAIN result[p], Parsed(p, u) PROVE RowsFrom
  BY <1>7, OldRows DEF Parsed
<1>8. ASSUME NEW p \in Proc, InsertEntry(p) PROVE RowsFrom
  <2>1. disk' = disk /\ work'.source = work.source
    BY <1>8 DEF InsertEntry, Writes, Shaped, TablesShaped, TablesOK
  <2> QED
    BY <2>1 DEF RowsFrom, RowOrigin
<1>9. ASSUME NEW p \in Proc, FeedDone(p) \/ FlagFailure(p) PROVE RowsFrom
  <2> DEFINE u == entry[p].url
  <2>1. /\ u \in DOMAIN disk.source /\ work.source[u] \in Source
        /\ FeedDone(p) => entry[p].ver \in Version
        /\ u \in Due(p)
    BY <1>9 DEF FeedDone, FlagFailure, Shaped, LocalsShaped, LocalOK, TablesShaped, TablesOK, Due
  <2>2. PICK row \in Source : Marks(p, u, row) /\ MarkedBy(p, u, work.source[u], row)
    BY <1>9, <2>1, EtagOfMarks DEF FeedDone, FlagFailure, MarkedBy
  <2> QED
    BY <2>1, <2>2, MarkedRows
<1>10. ASSUME NEW p \in Proc, Commit(p) \/ Kill(p) \/ Raise(p) PROVE RowsFrom
  BY <1>10, OldRows DEF Commit, Kill, Raise
<1>11. CASE UNCHANGED vars
  BY <1>11, OldRows DEF vars
<1> QED
  BY <1>1, <1>2, <1>3, <1>4, <1>5, <1>6, <1>7, <1>8, <1>9, <1>10, <1>11, <1>12 DEF Next, Step, Mishap

(***************************************************************************)
(* The degraded flag                                                       *)
(***************************************************************************)
\* The two directions of FlaggedAtLimit, of a row.
Earned(row) == row.status = "degraded" => row.streak >= FailLimit
Seen(row, n) == row.streak >= n => row.status = "degraded"

\* The streak from which on a row must be flagged: each fault may have
\* committed one count without its flag.
Overdue == FailLimit + used.faults

\* The inductive invariant of the first: in the open transaction too.
AllEarned ==
    /\ \A u \in DOMAIN disk.source : Earned(disk.source[u])
    /\ \A u \in DOMAIN work.source : Earned(work.source[u])

\* A failure of u that its transaction has just counted and not flagged.
JustCounted(u) ==
    /\ \E p \in Proc : at[p] = "failed" /\ entry[p].url = u
    /\ work.source[u].streak <= Overdue

\* The inductive invariant of the second: before the first edit every file
\* that a run has loaded has every feed on and no fetch has been disallowed,
\* so that no statement disables, blocks or reopens a row.  A committed row
\* that is overdue is flagged; one of the open transaction is flagged or has
\* just become overdue, and is not if a fault commits it.
Undisturbed ==
    /\ config = [u \in Url |-> "on"] /\ robots = {}
    /\ \A p \in Proc : at[p] = "sync" => \A u \in Url : feeds[p][u] = "on"
    /\ \A p \in Proc : \A u \in DOMAIN result[p] : result[p][u].kind # "skipped"

AllSeen ==
    /\ \A u \in DOMAIN disk.source : Seen(disk.source[u], Overdue)
    /\ \A u \in DOMAIN work.source : Seen(work.source[u], Overdue) \/ JustCounted(u)

Quiet == used.edits = 0 => Undisturbed /\ AllSeen

\* What each statement makes of the count and the flag of a row.
LEMMA FlagOfRow ==
    ASSUME NEW old \in Source, NEW n \in Nat \ {0}
    PROVE  /\ Earned(old) => Earned(Removed(old)) /\ Earned(Counted(old)) /\ Earned(MarkedSkipped(old))
           /\ Earned(old) => Earned(Flagged(old))
           /\ n >= FailLimit => Seen(Flagged(old), n)
           /\ Seen(old, n) => Seen(Counted(old), n) \/ Counted(old).streak <= n
           /\ \A etag \in Version \cup {NoEtag} : Earned(MarkedOk(old, etag)) /\ Seen(MarkedOk(old, etag), n)
<1>1. FailLimit \in Nat \ {0} /\ old.streak \in Nat
  BY SourceBoundAssumption DEF Source
<1>2. Earned(old) => Earned(Removed(old)) /\ Earned(MarkedSkipped(old))
  BY DEF Source, Removed, MarkedSkipped, Earned
<1>3. Counted(old).streak = old.streak + 1 /\ Counted(old).status = old.status
  BY DEF Source, Counted
<1>4. /\ Flagged(old).streak = old.streak
      /\ Flagged(old).status = IF old.streak >= FailLimit THEN "degraded" ELSE old.status
  BY DEF Source, Flagged
<1>5. \A etag \in Version \cup {NoEtag} : Earned(MarkedOk(old, etag)) /\ Seen(MarkedOk(old, etag), n)
  BY <1>1 DEF Source, MarkedOk, Earned, Seen
<1>6. (Earned(old) => Earned(Counted(old)) /\ Earned(Flagged(old))) /\ (n >= FailLimit => Seen(Flagged(old), n))
  BY <1>1, <1>3, <1>4 DEF Earned, Seen
<1>7. Seen(old, n) => Seen(Counted(old), n) \/ Counted(old).streak <= n
  BY <1>1, <1>3 DEF Seen
<1> QED
  BY <1>2, <1>5, <1>6, <1>7

\* So does sync_sources, of a feed that is on.
LEMMA FlagOfListed ==
    ASSUME NEW source, NEW u, u \in DOMAIN source => source[u] \in Source, NEW c \in Entries
    PROVE  /\ (u \in DOMAIN source => Earned(source[u])) => Earned(Listed(source, u, c))
           /\ \A n \in Nat \ {0} :
                c = "on" /\ (u \in DOMAIN source => Seen(source[u], n)) => Seen(Listed(source, u, c), n)
<1>1. CASE u \in DOMAIN source
  <2>1. /\ Listed(source, u, c).streak = source[u].streak
        /\ Listed(source, u, c).status = IF c # "on" THEN ForcedStatus(c)
               ELSE IF source[u].status \in {"disabled", "blocked"} THEN "ok" ELSE source[u].status
    BY <1>1 DEF Listed, Source
  <2> QED
    BY <1>1, <2>1 DEF Earned, Seen, ForcedStatus
<1>2. CASE u \notin DOMAIN source
  BY <1>2, SourceBoundAssumption DEF Listed, Earned, Seen, ForcedStatus
<1> QED
  BY <1>1, <1>2

\* Every step keeps the flag earned.
LEMMA EarnedStep == Shaped /\ AllEarned /\ [Next]_vars => AllEarned'
<1> SUFFICES ASSUME Shaped, AllEarned, [Next]_vars PROVE AllEarned'
  OBVIOUS
<1>1. \A u \in DOMAIN work.source : work.source[u] \in Source
  BY DEF Shaped, TablesShaped, TablesOK
<1>2. ASSUME NEW u \in Url, NEW row, RowOrigin(u, row) PROVE Earned(row)
  <2>1. ASSUME NEW p \in Proc, row = Listed(work.source, u, feeds[p][u]) PROVE Earned(row)
    <3>1. feeds[p][u] \in Entries
      BY DEF Shaped, WorldOK
    <3> QED
      BY <1>1, <2>1, <3>1, FlagOfListed DEF AllEarned
  <2>2. ASSUME u \in DOMAIN work.source, row = Removed(work.source[u]) PROVE Earned(row)
    BY <1>1, <2>2, FlagOfRow, 1 \in Nat \ {0} DEF AllEarned
  <2>3. ASSUME u \in DOMAIN work.source, NEW p \in Proc, MarkedBy(p, u, work.source[u], row)
        PROVE  Earned(row)
    <3>1. work.source[u] \in Source /\ Earned(work.source[u])
      BY <1>1, <2>3 DEF AllEarned
    <3>2. /\ Earned(Counted(work.source[u])) /\ Earned(Flagged(work.source[u]))
          /\ Earned(MarkedSkipped(work.source[u]))
          /\ \A etag \in Version \cup {NoEtag} : Earned(MarkedOk(work.source[u], etag))
      BY <3>1, FlagOfRow, 1 \in Nat \ {0}
    <3> QED
      BY <2>3, <3>2 DEF MarkedBy
  <2> QED
    BY <1>2, <2>1, <2>2, <2>3 DEF RowOrigin, AllEarned
<1>3. RowsFrom /\ Shaped'
  BY RowsOrigin, ShapedStep
<1>4. DOMAIN disk'.source \subseteq Url /\ DOMAIN work'.source \subseteq Url
  BY <1>3 DEF Shaped, TablesShaped, TablesOK
<1> QED
  BY <1>2, <1>3, <1>4 DEF RowsFrom, AllEarned

\* Before the first edit, every step leaves the file and robots.txt alone.
LEMMA UndisturbedStep ==
    ASSUME Shaped, used.edits = 0 => Undisturbed, [Next]_vars, used'.edits = 0
    PROVE  used.edits = 0 /\ Undisturbed /\ Undisturbed'
<1>1. used \in [{"edits", "errors", "faults"} -> Nat]
  BY DEF Shaped, WorldOK
<1>2. \A u \in Url : ~Edit(u)
  BY <1>1 DEF Edit, Spend
<1>3. used.edits = 0
  <2>1. used' = used \/ \E w \in {"errors", "faults"}, b \in {MaxErrors, MaxFaults} : Spend(w, b)
    BY <1>2 DEF Next, Step, Mishap, Publish, Load, SyncFeed, SyncRest, Read, Gathered, Disallowed,
                Fetched, FetchFails, Recorded, RecordedFailure, Counts, Parsed, InsertEntry, FeedDone, FlagFailure, FeedFails, Commit,
                Kill, Raise, Ends, vars
  <2> QED
    BY <1>1, <2>1 DEF Spend
<1>4. /\ config = [u \in Url |-> "on"] /\ robots = {}
      /\ \A p \in Proc : at[p] = "sync" => \A u \in Url : feeds[p][u] = "on"
      /\ \A p \in Proc : \A u \in DOMAIN result[p] : result[p][u].kind # "skipped"
  BY <1>3 DEF Undisturbed
<1>5. UNCHANGED <<config, robots>>
  BY <1>2 DEF Next, Step, Mishap, Publish, Load, SyncFeed, SyncRest, Read, Gathered, Disallowed,
              Fetched, FetchFails, Answers, Recorded, RecordedFailure, Counts, Parsed, InsertEntry, FeedDone, FlagFailure, FeedFails,
              Leaves, Commit, Kill, Raise, Ends, server, vars
<1>6. ASSUME NEW p \in Proc, at'[p] = "sync", NEW u \in Url PROVE feeds'[p][u] = "on"
  <2>1. \/ at' = at /\ feeds' = feeds
        \/ \E q \in Proc : at' = [at EXCEPT ![q] = "sync"] /\ feeds' = [feeds EXCEPT ![q] = config]
        \/ \E q \in Proc : /\ at'[q] # "sync" /\ \A r \in Proc \ {q} : at'[r] = at[r] /\ feeds'[r] = feeds[r]
    <3> USE DEF Shaped, WorldOK
    <3>1. CASE UNCHANGED vars
      BY <3>1 DEF vars, local
    <3>2. ASSUME NEW v \in Url, Publish(v) PROVE at' = at /\ feeds' = feeds
      BY <3>2 DEF Publish, local
    <3>3. ASSUME NEW q \in Proc, Load(q)
          PROVE at' = [at EXCEPT ![q] = "sync"] /\ feeds' = [feeds EXCEPT ![q] = config]
      BY <3>3 DEF Load
    <3>4. ASSUME NEW q \in Proc,
                 \/ \E v \in unsynced[q] : SyncFeed(q, v)
                 \/ \E v \in DOMAIN validator[q] : Disallowed(q, v) \/ Fetched(q, v) \/ FetchFails(q, v)
                 \/ \E v \in DOMAIN result[q] : Recorded(q, v)
                 \/ InsertEntry(q)
          PROVE at' = at /\ feeds' = feeds
      BY <3>4 DEF SyncFeed, Disallowed, Fetched, FetchFails, Answers, Recorded, InsertEntry
    <3>5. ASSUME NEW q \in Proc,
                 \/ SyncRest(q) \/ Read(q) \/ Gathered(q) \/ (\E v \in DOMAIN result[q] : Parsed(q, v) \/ RecordedFailure(q, v))
                 \/ FeedDone(q) \/ FlagFailure(q) \/ FeedFails(q) \/ Commit(q) \/ Kill(q) \/ Raise(q)
          PROVE at'[q] # "sync" /\ \A r \in Proc \ {q} : at'[r] = at[r] /\ feeds'[r] = feeds[r]
      BY <3>5 DEF SyncRest, Read, Gathered, Parsed, RecordedFailure, Counts, FeedDone, FlagFailure, FeedFails, Leaves, Commit, Kill, Raise, Ends
    <3> QED
      BY <1>2, <3>1, <3>2, <3>3, <3>4, <3>5 DEF Next, Step, Mishap
  <2> QED
    BY <1>4, <1>6, <2>1 DEF Shaped, WorldOK
<1>7. ASSUME NEW p \in Proc, NEW u \in DOMAIN result'[p] PROVE result'[p][u].kind # "skipped"
  <2>1. ASSUME NEW q \in Proc, NEW v \in DOMAIN validator[q], Fetched(q, v) \/ FetchFails(q, v)
        PROVE  result'[p][u].kind # "skipped"
    <3>1. PICK kind \in {"ok", "not_modified", "error"} : Answers(q, v, kind)
      BY <2>1 DEF Fetched, FetchFails
    <3> QED
      BY <1>4, <1>7, <3>1 DEF Answers, Shaped, LocalsShaped
  <2>2. ASSUME NEW q \in Proc, NEW v \in DOMAIN result[q], Recorded(q, v) \/ RecordedFailure(q, v) \/ Parsed(q, v)
        PROVE  result'[p][u].kind # "skipped"
    BY <1>4, <1>7, <2>2 DEF Recorded, RecordedFailure, Parsed, Without, Shaped, LocalsShaped
  <2>3. ASSUME NEW q \in Proc, Read(q) \/ Kill(q) \/ Raise(q)
        PROVE  result'[p][u].kind # "skipped"
    BY <1>4, <1>7, <2>3 DEF Read, Kill, Raise, Ends, Shaped, LocalsShaped
  <2>4. ASSUME NEW q \in Proc, NEW v, Disallowed(q, v) PROVE FALSE
    BY <1>4, <2>4 DEF Disallowed
  <2>5. CASE result' = result
    BY <1>4, <1>7, <2>5
  <2>6. ASSUME NEW q \in Proc,
               \/ Load(q) \/ SyncRest(q) \/ Gathered(q) \/ (\E v \in unsynced[q] : SyncFeed(q, v))
               \/ InsertEntry(q) \/ FeedDone(q) \/ FlagFailure(q) \/ FeedFails(q) \/ Commit(q)
        PROVE  result' = result
    BY <2>6 DEF Load, SyncRest, Gathered, SyncFeed, InsertEntry, FeedDone, FlagFailure, FeedFails, Counts, Leaves, Commit
  <2>7. ASSUME (\E v \in Url : Publish(v)) \/ UNCHANGED vars PROVE result' = result
    BY <2>7 DEF Publish, local, vars
  <2> QED
    BY <1>2, <2>1, <2>2, <2>3, <2>4, <2>5, <2>6, <2>7 DEF Next, Step, Mishap
<1> QED
  BY <1>3, <1>4, <1>5, <1>6, <1>7 DEF Undisturbed

\* A row marked by a process that leaves no count unflagged.
LEMMA SeenMarks ==
    ASSUME Shaped, AllSeen, NEW p \in Proc, NEW u \in DOMAIN disk.source, NEW row \in Source,
           Marks(p, u, row), used'.faults = used.faults, Seen(row, Overdue),
           at[p] # "failed" \/ entry[p].url = u
    PROVE  AllSeen'
<1>1. /\ disk' = disk /\ writer \in {NoOne, p}
      /\ work'.source = [work.source EXCEPT ![u] = row]
  BY MarksShaped DEF Shaped
<1>2. \A q \in Proc \ {p} : at[q] # "failed"
  BY <1>1, OthersFlagged DEF Shaped
<1>3. \A x \in DOMAIN work.source \ {u} : Seen(work.source[x], Overdue)
  BY <1>2 DEF AllSeen, JustCounted
<1> QED
  BY <1>1, <1>3 DEF AllSeen, Overdue

\* Who may write and is not between a count and its flag sees every row flagged.
LEMMA NoneCounted ==
    ASSUME Shaped, AllSeen, NEW p \in Proc, writer \in {NoOne, p}, at[p] # "failed"
    PROVE  \A u \in DOMAIN work.source : Seen(work.source[u], Overdue)
<1>1. \A q \in Proc \ {p} : at[q] # "failed"
  BY OthersFlagged DEF Shaped
<1> QED
  BY <1>1 DEF AllSeen, JustCounted

\* A step that leaves the tables and the processes between a count and its
\* flag alone.
LEMMA SeenAside ==
    ASSUME AllSeen, UNCHANGED <<disk, work>>, used'.faults = used.faults,
           \A q \in Proc : at[q] = "failed" => at'[q] = "failed" /\ entry'[q] = entry[q]
    PROVE  AllSeen'
BY DEF AllSeen, JustCounted, Overdue

\* Before the first edit, every step leaves the overdue rows flagged.
LEMMA SeenStep ==
    ASSUME Shaped, Undisturbed, AllSeen, [Next]_vars, \A u \in Url : ~Edit(u)
    PROVE  AllSeen'
<1>1. /\ used \in [{"edits", "errors", "faults"} -> Nat]
      /\ FailLimit \in Nat \ {0} /\ Overdue \in Nat \ {0} /\ Overdue >= FailLimit
  BY SourceBoundAssumption DEF Shaped, WorldOK, Overdue
<1>2. /\ \A u \in DOMAIN work.source : work.source[u] \in Source
      /\ DOMAIN disk.source \subseteq DOMAIN work.source /\ DOMAIN work.source \subseteq Url
      /\ DOMAIN work = {"source", "article"}
  BY DEF Shaped, TablesShaped, TablesOK
<1>3. ASSUME NEW u \in Url, Publish(u) PROVE AllSeen'
  BY <1>3, SeenAside DEF Publish, local
<1>4. ASSUME NEW p \in Proc,
             \/ Load(p) \/ Read(p) \/ Gathered(p)
             \/ \E u \in DOMAIN validator[p] : Disallowed(p, u) \/ Fetched(p, u) \/ FetchFails(p, u)
             \/ \E u \in DOMAIN result[p] : Parsed(p, u)
      PROVE  AllSeen'
  <2>1. UNCHANGED <<disk, work>> /\ used'.faults = used.faults
    BY <1>1, <1>4 DEF Load, Read, Gathered, Disallowed, Fetched, FetchFails, Answers, Parsed, Spend
  <2>2. \A q \in Proc : at[q] = "failed" => at'[q] = "failed" /\ entry'[q] = entry[q]
    BY <1>4 DEF Load, Read, Gathered, Disallowed, Fetched, FetchFails, Answers, Parsed,
                Shaped, WorldOK, LocalsShaped
  <2> QED
    BY <2>1, <2>2, SeenAside
<1>5. ASSUME NEW p \in Proc, NEW u \in unsynced[p], SyncFeed(p, u) PROVE AllSeen'
  <2>1. /\ at[p] = "sync" /\ disk' = disk /\ used' = used /\ writer \in {NoOne, p}
        /\ work'.source = WithFeed(work.source, u, feeds[p][u])
    BY <1>2, <1>5 DEF SyncFeed, Writes, MayWrite
  <2>2. u \in Url /\ feeds[p][u] = "on" /\ "on" \in Entries
    BY <2>1 DEF Shaped, WorldOK, Undisturbed, Entries
  <2>3. \A x \in DOMAIN work.source : Seen(work.source[x], Overdue)
    BY <2>1, NoneCounted
  <2>4. Seen(Listed(work.source, u, "on"), Overdue)
    BY <1>1, <1>2, <2>2, <2>3, FlagOfListed
  <2> QED
    BY <2>1, <2>2, <2>3, <2>4 DEF AllSeen, Overdue, WithFeed
<1>6. ASSUME NEW p \in Proc, SyncRest(p) PROVE AllSeen'
  <2>1. /\ at[p] = "sync" /\ disk' = work' /\ used' = used /\ writer \in {NoOne, p}
        /\ work'.source = OthersRemoved(work.source, feeds[p])
    BY <1>2, <1>6 DEF SyncRest, MayWrite
  <2>2. \A u \in Url : feeds[p][u] = "on"
    BY <2>1 DEF Undisturbed
  <2>3. \A x \in DOMAIN work.source : Seen(work.source[x], Overdue)
    BY <2>1, NoneCounted
  <2> QED
    BY <1>2, <2>1, <2>2, <2>3 DEF AllSeen, Overdue, OthersRemoved
<1>7. ASSUME NEW p \in Proc, NEW u \in DOMAIN result[p], Recorded(p, u) PROVE AllSeen'
  <2>1. u \in DOMAIN disk.source /\ result[p][u].kind # "skipped"
    BY DEF Shaped, LocalsShaped, LocalOK, Undisturbed
  <2>2. /\ at[p] = "results" /\ used' = used
        /\ Marks(p, u, MarkedOk(work.source[u], NoEtag))
    BY <1>7, <2>1 DEF Recorded
  <2>3. MarkedOk(work.source[u], NoEtag) \in Source /\ Seen(MarkedOk(work.source[u], NoEtag), Overdue)
    BY <1>1, <1>2, <2>1, EtagOfMarks, FlagOfRow
  <2> QED
    BY <2>1, <2>2, <2>3, SeenMarks
<1>8. ASSUME NEW p \in Proc, FeedFails(p) \/ \E u \in DOMAIN result[p] : RecordedFailure(p, u)
      PROVE  AllSeen'
  <2>1. PICK u \in DOMAIN disk.source : Counts(p, u)
    BY <1>8 DEF FeedFails, RecordedFailure, Shaped, LocalsShaped, LocalOK
  <2>2. used'.faults = used.faults /\ at[p] # "failed"
    BY <1>1, <1>8 DEF FeedFails, RecordedFailure, Spend
  <2> DEFINE row == Counted(work.source[u])
  <2>3. row \in Source /\ Marks(p, u, row) /\ work.source[u] \in Source
    BY <1>2, <2>1, EtagOfMarks DEF Counts
  <2>4. /\ disk' = disk /\ writer \in {NoOne, p}
        /\ work'.source = [work.source EXCEPT ![u] = row]
    BY <2>3, MarksShaped DEF Shaped
  <2>5. \A x \in DOMAIN work.source : Seen(work.source[x], Overdue)
    BY <2>2, <2>4, NoneCounted
  <2>6. Seen(row, Overdue) \/ row.streak <= Overdue
    BY <1>1, <1>2, <2>3, <2>5, FlagOfRow
  <2>7. at'[p] = "failed" /\ entry'[p].url = u
    BY <2>1 DEF Counts, NoEntry, Shaped, WorldOK, LocalsShaped
  <2> HIDE DEF row
  <2> QED
    BY <1>2, <2>2, <2>4, <2>5, <2>6, <2>7 DEF AllSeen, JustCounted, Overdue
<1>9. ASSUME NEW p \in Proc, InsertEntry(p) PROVE AllSeen'
  <2>1. disk' = disk /\ work'.source = work.source /\ UNCHANGED <<at, used>>
    BY <1>2, <1>9 DEF InsertEntry, Writes
  <2>2. at[p] = "entries" /\ \A q \in Proc \ {p} : entry'[q] = entry[q]
    BY <1>9 DEF InsertEntry, Shaped, LocalsShaped
  <2> QED
    BY <2>1, <2>2 DEF AllSeen, JustCounted, Overdue
<1>10. ASSUME NEW p \in Proc, FeedDone(p) \/ FlagFailure(p) PROVE AllSeen'
  <2> DEFINE u == entry[p].url
  <2>1. /\ u \in DOMAIN disk.source /\ work.source[u] \in Source /\ used' = used
        /\ FeedDone(p) => entry[p].ver \in Version
    BY <1>10 DEF FeedDone, FlagFailure, Shaped, LocalsShaped, LocalOK, TablesShaped, TablesOK
  <2>2. PICK row \in Source : Marks(p, u, row) /\ Seen(row, Overdue)
    BY <1>1, <1>10, <2>1, EtagOfMarks, FlagOfRow DEF FeedDone, FlagFailure
  <2> QED
    BY <2>1, <2>2, SeenMarks
<1>11. ASSUME NEW p \in Proc, Commit(p) PROVE AllSeen'
  <2>1. CASE writer = p
    <3>1. \A x \in DOMAIN work.source : Seen(work.source[x], Overdue)
      BY <1>11, <2>1, NoneCounted DEF Commit
    <3> QED
      BY <1>11, <2>1, <3>1 DEF Commit, AllSeen, Overdue
  <2>2. CASE writer # p
    BY <1>11, <2>2, SeenAside DEF Commit, Shaped, WorldOK
  <2> QED
    BY <2>1, <2>2
<1>12. ASSUME NEW p \in Proc, Kill(p) \/ Raise(p) PROVE AllSeen'
  <2>1. Overdue' = Overdue + 1 /\ Ends(p)
    BY <1>1, <1>12 DEF Kill, Raise, Ends, Spend, Overdue
  <2>2. \A row : row.streak \in Nat /\ Seen(row, Overdue) => Seen(row, Overdue')
    BY <1>1, <2>1 DEF Seen
  <2>3. /\ \A u \in DOMAIN disk.source : disk.source[u].streak \in Nat
        /\ \A u \in DOMAIN work.source : work.source[u].streak \in Nat
    BY DEF Shaped, TablesShaped, TablesOK, Source
  <2>4. \A u \in DOMAIN disk.source : Seen(disk.source[u], Overdue')
    BY <2>2, <2>3 DEF AllSeen
  <2>5. ASSUME NEW u \in DOMAIN work.source, ~JustCounted(u) PROVE Seen(work.source[u], Overdue')
    BY <2>2, <2>3, <2>5 DEF AllSeen
  <2>6. CASE Kill(p) /\ writer = p
    BY <2>4, <2>6 DEF Kill, AllSeen
  <2>7. CASE Kill(p) /\ writer # p
    <3>1. work' = work /\ disk' = disk
      BY <2>7 DEF Kill
    <3>2. \A q \in Proc : at[q] = "failed" => at'[q] = "failed" /\ entry'[q] = entry[q]
      BY <2>1, <2>7 DEF Ends, Shaped, WorldOK, LocalsShaped, LocalOK
    <3>3. ASSUME NEW u \in DOMAIN work.source, JustCounted(u) PROVE JustCounted(u)'
      BY <1>1, <2>1, <2>3, <3>1, <3>2, <3>3 DEF JustCounted
    <3> QED
      BY <2>4, <2>5, <3>1, <3>3 DEF AllSeen
  <2>8. CASE Raise(p)
    <3>1. \A u \in DOMAIN work.source : JustCounted(u) => Seen(work.source[u], Overdue')
      BY <1>1, <2>1, <2>3 DEF JustCounted, Seen
    <3> QED
      BY <2>5, <2>8, <3>1 DEF Raise, AllSeen
  <2> QED
    BY <1>12, <2>6, <2>7, <2>8
<1>13. CASE UNCHANGED vars
  BY <1>13, SeenAside DEF vars, local
<1> QED
  BY <1>3, <1>4, <1>5, <1>6, <1>7, <1>8, <1>9, <1>10, <1>11, <1>12, <1>13 DEF Next, Step, Mishap

\* Every step keeps Quiet.
LEMMA QuietStep == Shaped /\ Quiet /\ [Next]_vars => Quiet'
<1> SUFFICES ASSUME Shaped, Quiet, [Next]_vars, used'.edits = 0 PROVE Undisturbed' /\ AllSeen'
  BY DEF Quiet
<1>1. used.edits = 0 /\ Undisturbed /\ Undisturbed' /\ AllSeen
  BY UndisturbedStep DEF Quiet
<1>2. \A u \in Url : ~Edit(u)
  BY <1>1 DEF Edit, Spend, Shaped, WorldOK
<1> QED
  BY <1>1, <1>2, SeenStep

\* A source is flagged degraded only while its streak is at the limit, and
\* while nobody edits feeds.yaml or robots.txt a source is flagged at the
\* limit, or as many failures later as counts were committed without their
\* flag: through any runs beside each other, failures, kills and handler
\* commits, those between the count and the flag included.
THEOREM FlagIsStreak == Spec => []FlaggedAtLimit
<1>1. Init => AllEarned /\ Quiet
  BY DEF Init, AllEarned, Quiet, Undisturbed, AllSeen
<1>2. AllEarned /\ Quiet => FlaggedAtLimit
  BY DEF AllEarned, Quiet, AllSeen, Overdue, Earned, Seen, FlaggedAtLimit, DegradedIsEarned,
         FailingIsFlagged
<1> QED
  BY <1>1, <1>2, EarnedStep, QuietStep, ShapedInit, ShapedStep, PTL DEF Spec

(***************************************************************************)
(* What the file says                                                      *)
(***************************************************************************)
\* One process runs the pipeline at a time.
Solo == \A p, q \in Proc : p = q

\* A row that is not enabled says so.
Shut(row) == ~row.enabled => row.status \in {"disabled", "blocked"}

\* What the run of p has from its file: while it writes the table, the rows
\* it is through with; when it reads the table, all of them; and then what it
\* is to fetch and to mark.
FileOf(p) ==
    /\ at[p] \in {"idle", "sync", "read"} => DOMAIN validator[p] = {} /\ DOMAIN result[p] = {}
    /\ at[p] \in {"results", "entries", "failed"} => DOMAIN validator[p] = {}
    /\ at[p] = "sync" =>
         \A u \in DOMAIN work.source \ unsynced[p] :
            feeds[p][u] # "absent" /\ work.source[u].enabled => feeds[p][u] = "on"
    /\ at[p] = "read" =>
         /\ writer = NoOne
         /\ \A u \in DOMAIN disk.source : disk.source[u].enabled => feeds[p][u] = "on"
    /\ \A u \in Due(p) : feeds[p][u] = "on" /\ work.source[u].enabled

\* The inductive invariant of FileDecides.
Files ==
    /\ \A p \in Proc : FileOf(p)
    /\ \A u \in DOMAIN disk.source : Shut(disk.source[u])
    /\ \A u \in DOMAIN work.source : Shut(work.source[u])

\* A statement opens no row that stays disabled, and a mark opens none at all.
LEMMA ShutRow ==
    ASSUME NEW old \in Source, Shut(old)
    PROVE  /\ Shut(Removed(old))
           /\ \A etag \in Version \cup {NoEtag} : MarkedOk(old, etag).enabled = old.enabled
           /\ Counted(old).enabled = old.enabled /\ Flagged(old).enabled = old.enabled
           /\ MarkedSkipped(old).enabled = old.enabled
BY DEF Source, Removed, MarkedOk, Counted, Flagged, MarkedSkipped, Shut

\* sync_sources leaves a row enabled or says that it is not.
LEMMA ShutListed ==
    ASSUME NEW source, NEW u, u \in DOMAIN source => source[u] \in Source, NEW c \in Entries
    PROVE  Shut(Listed(source, u, c)) /\ Listed(source, u, c).enabled = (c = "on")
BY DEF Source, Listed, ForcedStatus, Shut

\* Every row that a step leaves is enabled or says that it is not.
LEMMA ShutStep ==
    ASSUME Shaped, Files, [Next]_vars
    PROVE  /\ \A u \in DOMAIN disk'.source : Shut(disk'.source[u])
           /\ \A u \in DOMAIN work'.source : Shut(work'.source[u])
<1>1. \A u \in DOMAIN work.source : work.source[u] \in Source
  BY DEF Shaped, TablesShaped, TablesOK
<1>2. ASSUME NEW u \in Url, NEW row, RowOrigin(u, row) PROVE Shut(row)
  <2>1. ASSUME NEW p \in Proc, row = Listed(work.source, u, feeds[p][u]) PROVE Shut(row)
    <3>1. feeds[p][u] \in Entries
      BY DEF Shaped, WorldOK
    <3> QED
      BY <1>1, <2>1, <3>1, ShutListed
  <2>2. ASSUME u \in DOMAIN work.source, row = Removed(work.source[u]) PROVE Shut(row)
    BY <1>1, <2>2, ShutRow DEF Files
  <2>3. ASSUME u \in DOMAIN work.source, NEW p \in Proc, MarkedBy(p, u, work.source[u], row)
        PROVE  Shut(row)
    <3>1. work.source[u].enabled /\ Shut(work.source[u]) /\ work.source[u] \in Source
      BY <1>1, <2>3 DEF Files, FileOf, MarkedBy
    <3>2. row.enabled
      BY <2>3, <3>1, ShutRow DEF MarkedBy
    <3> QED
      BY <3>2 DEF Shut
  <2> QED
    BY <1>2, <2>1, <2>2, <2>3 DEF RowOrigin, Files
<1>3. RowsFrom /\ Shaped'
  BY RowsOrigin, ShapedStep
<1>4. DOMAIN disk'.source \subseteq Url /\ DOMAIN work'.source \subseteq Url
  BY <1>3 DEF Shaped, TablesShaped, TablesOK
<1> QED
  BY <1>2, <1>3, <1>4 DEF RowsFrom

\* A mark by p keeps which rows are enabled.
LEMMA MarksEnabled ==
    ASSUME Shaped, NEW p \in Proc, NEW u \in DOMAIN disk.source, NEW row \in Source,
           Marks(p, u, row), row.enabled = work.source[u].enabled
    PROVE  \A x \in DOMAIN disk.source : work'.source[x].enabled = work.source[x].enabled
<1>1. work'.source = [work.source EXCEPT ![u] = row]
  BY MarksShaped DEF Shaped
<1> QED
  BY <1>1 DEF Shaped, TablesShaped

\* What is due to a process is in the table.
LEMMA DueInTable ==
    ASSUME Shaped, NEW p \in Proc
    PROVE  Due(p) \subseteq DOMAIN disk.source
BY DEF Shaped, LocalsShaped, LocalOK, Due

\* With one process, every step keeps what it has from its file.
LEMMA FilesStep ==
    ASSUME Solo, Shaped, Files, [Next]_vars
    PROVE  Files'
<1> SUFFICES ASSUME NEW p \in Proc PROVE FileOf(p)'
  BY ShutStep DEF Files
<1>0. /\ FileOf(p) /\ \A q \in Proc : q = p
      /\ Due(p) \subseteq DOMAIN disk.source /\ DOMAIN disk.source \subseteq DOMAIN work.source
      /\ DOMAIN work.source \subseteq Url
  BY DueInTable DEF Files, Solo, Shaped, TablesShaped, TablesOK
<1> USE DEF FileOf
<1>1. ASSUME UNCHANGED <<disk, work, writer, local>> PROVE FileOf(p)'
  BY <1>0, <1>1 DEF local, Due
<1>2. CASE Load(p)
  BY <1>0, <1>2 DEF Load, Due, Shaped, WorldOK
<1>3. ASSUME NEW u \in unsynced[p], SyncFeed(p, u) PROVE FileOf(p)'
  <2>1. u \in Url /\ feeds[p][u] \in Entries
    BY DEF Shaped, WorldOK
  <2>2. /\ at[p] = "sync" /\ UNCHANGED <<at, feeds, validator, result, entry>>
        /\ unsynced'[p] = unsynced[p] \ {u}
        /\ work'.source = WithFeed(work.source, u, feeds[p][u])
    BY <1>3 DEF SyncFeed, Writes, Shaped, WorldOK, TablesShaped, TablesOK
  <2>3. Listed(work.source, u, feeds[p][u]).enabled = (feeds[p][u] = "on")
    <3>1. u \in DOMAIN work.source => work.source[u] \in Source
      BY DEF Shaped, TablesShaped, TablesOK
    <3> QED
      BY <2>1, <3>1, ShutListed
  <2>4. Due(p)' = {}
    BY <1>0, <2>2 DEF Due
  <2> QED
    BY <1>0, <2>2, <2>3, <2>4 DEF WithFeed
<1>4. CASE SyncRest(p)
  <2>1. /\ at[p] = "sync" /\ unsynced[p] = {} /\ at'[p] = "read" /\ writer' = NoOne
        /\ UNCHANGED <<feeds, validator, result, entry>>
        /\ disk'.source = OthersRemoved(work.source, feeds[p])
    BY <1>4 DEF SyncRest, Shaped, WorldOK, TablesShaped, TablesOK
  <2>2. Due(p)' = {}
    BY <1>0, <2>1 DEF Due
  <2>3. ASSUME NEW u \in DOMAIN disk'.source, disk'.source[u].enabled PROVE feeds[p][u] = "on"
    <3>1. u \in DOMAIN work.source /\ work.source[u] \in Source
      BY <2>1, <2>3 DEF OthersRemoved, Shaped, TablesShaped, TablesOK
    <3>2. feeds[p][u] # "absent" /\ disk'.source[u] = work.source[u]
      BY <2>1, <2>3, <3>1 DEF OthersRemoved, Removed, Source
    <3> QED
      BY <1>0, <2>1, <2>3, <3>1, <3>2
  <2> QED
    BY <1>0, <2>1, <2>2, <2>3
<1>5. CASE Read(p)
  <2>1. /\ at[p] = "read" /\ at'[p] = "fetch" /\ work = disk
        /\ DOMAIN validator'[p] = {u \in DOMAIN disk.source : disk.source[u].enabled}
        /\ DOMAIN result'[p] = {} /\ UNCHANGED <<feeds, work>>
    BY <1>0, <1>5 DEF Read, Shaped, WorldOK, TablesShaped, LocalsShaped
  <2> QED
    BY <1>0, <2>1 DEF Due
<1>6. ASSUME NEW u \in DOMAIN validator[p],
             Disallowed(p, u) \/ Fetched(p, u) \/ FetchFails(p, u)
      PROVE  FileOf(p)'
  <2>1. PICK kind : Answers(p, u, kind)
    BY <1>6 DEF Disallowed, Fetched, FetchFails
  <2>2. /\ at[p] = "fetch" /\ UNCHANGED <<disk, work, writer, at, feeds, unsynced, entry>>
        /\ DOMAIN validator'[p] \subseteq DOMAIN validator[p]
        /\ DOMAIN result'[p] = DOMAIN result[p] \cup {u}
    BY <2>1 DEF Answers, Without, Shaped, LocalsShaped
  <2> QED
    BY <1>0, <2>2 DEF Due
<1>7. CASE Gathered(p)
  BY <1>0, <1>7 DEF Gathered, Due, Shaped, WorldOK
<1>8. ASSUME NEW u \in DOMAIN result[p], Recorded(p, u) PROVE FileOf(p)'
  <2>1. u \in DOMAIN disk.source /\ work.source[u] \in Source /\ Shut(work.source[u]) /\ u \in Due(p)
    BY <1>0 DEF Shaped, TablesShaped, TablesOK, Files, Due
  <2>2. PICK row \in Source : Marks(p, u, row) /\ row.enabled = work.source[u].enabled
    BY <1>8, <2>1, EtagOfMarks, ShutRow, VersionAssumption DEF Recorded
  <2>3. \A x \in DOMAIN disk.source : work'.source[x].enabled = work.source[x].enabled
    BY <2>1, <2>2, MarksEnabled
  <2>4. /\ at[p] = "results" /\ UNCHANGED <<at, feeds, validator, entry>>
        /\ DOMAIN result'[p] \subseteq DOMAIN result[p]
    BY <1>8 DEF Recorded, Without, Shaped, LocalsShaped
  <2> QED
    BY <1>0, <2>3, <2>4 DEF Due
<1>14. ASSUME FeedFails(p) \/ \E u \in DOMAIN result[p] : RecordedFailure(p, u) PROVE FileOf(p)'
  <2>1. PICK u \in DOMAIN disk.source :
            /\ Counts(p, u) /\ u \in Due(p) /\ at[p] \in {"entries", "results"}
            /\ DOMAIN result'[p] \subseteq DOMAIN result[p]
    <3>1. CASE FeedFails(p)
      <4>1. /\ entry[p].url \in DOMAIN disk.source /\ Counts(p, entry[p].url) /\ at[p] = "entries"
            /\ result' = result
        BY <3>1 DEF FeedFails, Shaped, LocalsShaped, LocalOK
      <4> QED
        BY <4>1 DEF Due
    <3>2. ASSUME NEW u \in DOMAIN result[p], RecordedFailure(p, u)
          PROVE  /\ u \in DOMAIN disk.source /\ Counts(p, u) /\ u \in Due(p) /\ at[p] = "results"
                 /\ DOMAIN result'[p] \subseteq DOMAIN result[p]
      BY <1>0, <3>2 DEF RecordedFailure, Without, Due, Shaped, LocalsShaped
    <3> QED
      BY <1>14, <3>1, <3>2
  <2>2. work.source[u] \in Source /\ Shut(work.source[u])
    BY <1>0 DEF Shaped, TablesShaped, TablesOK, Files
  <2>3. \A x \in DOMAIN disk.source : work'.source[x].enabled = work.source[x].enabled
    BY <2>1, <2>2, EtagOfMarks, ShutRow, MarksEnabled DEF Counts
  <2>4. /\ at'[p] = "failed" /\ entry'[p].url = u /\ UNCHANGED <<feeds, validator>>
    BY <2>1 DEF Counts, NoEntry, Shaped, WorldOK, LocalsShaped
  <2> QED
    BY <1>0, <2>1, <2>3, <2>4 DEF Due
<1>9. ASSUME NEW u \in DOMAIN result[p], Parsed(p, u) PROVE FileOf(p)'
  <2>1. /\ at[p] = "results" /\ at'[p] = "entries" /\ entry'[p].url = u
        /\ UNCHANGED <<disk, work, writer, feeds, validator>>
        /\ DOMAIN result'[p] \subseteq DOMAIN result[p]
    BY <1>9 DEF Parsed, Without, Shaped, WorldOK, LocalsShaped
  <2> QED
    BY <1>0, <2>1 DEF Due
<1>10. CASE InsertEntry(p)
  <2>1. /\ at[p] = "entries" /\ UNCHANGED <<at, feeds, validator, result>>
        /\ entry'[p].url = entry[p].url /\ work'.source = work.source
    BY <1>10 DEF InsertEntry, Writes, Shaped, LocalsShaped, TablesShaped, TablesOK
  <2> QED
    BY <1>0, <2>1 DEF Due
<1>11. CASE FeedDone(p) \/ FlagFailure(p)
  <2> DEFINE u == entry[p].url
  <2>1. /\ u \in DOMAIN disk.source /\ work.source[u] \in Source /\ Shut(work.source[u])
        /\ FeedDone(p) => entry[p].ver \in Version
        /\ at[p] \in {"entries", "failed"}
    BY <1>0, <1>11 DEF FeedDone, FlagFailure, Shaped, LocalsShaped, LocalOK, TablesShaped, TablesOK, Files
  <2>2. PICK row \in Source : Marks(p, u, row) /\ row.enabled = work.source[u].enabled
    BY <1>11, <2>1, EtagOfMarks, ShutRow DEF FeedDone, FlagFailure
  <2>3. \A x \in DOMAIN disk.source : work'.source[x].enabled = work.source[x].enabled
    BY <2>1, <2>2, MarksEnabled
  <2>4. at'[p] = "results" /\ UNCHANGED <<feeds, validator, result>>
    BY <1>11 DEF FeedDone, FlagFailure, Leaves, Shaped, WorldOK
  <2> QED
    BY <1>0, <2>1, <2>3, <2>4 DEF Due
<1>12. CASE Commit(p)
  BY <1>0, <1>12 DEF Commit, Due, Shaped, WorldOK
<1>13. CASE Kill(p) \/ Raise(p)
  <2>1. at'[p] = "idle" /\ DOMAIN validator'[p] = {} /\ DOMAIN result'[p] = {}
    BY <1>13 DEF Kill, Raise, Ends, Shaped, WorldOK, LocalsShaped
  <2> QED
    BY <2>1 DEF Due
<1> QED
  BY <1>0, <1>1, <1>2, <1>3, <1>4, <1>5, <1>6, <1>7, <1>8, <1>9, <1>10, <1>11, <1>12, <1>13, <1>14
  DEF Next, Step, Mishap, Edit, Publish, vars

\* FR-101: while one process runs the pipeline at a time, what its feeds.yaml
\* says of a feed is what it fetches, and no late result, failed statement or
\* restart makes a disabled source read as anything else.
THEOREM FileIsObeyed ==
    ASSUME Solo
    PROVE  Spec => []FileDecides
<1>1. Init => Files
  BY DEF Init, Files, FileOf, Due
<1>2. Shaped /\ Files /\ [Next]_vars => Files'
  BY FilesStep
<1>3. Files => FileDecides
  BY DEF Files, FileOf, Due, Shut, FileDecides, FetchesItsFile, DisabledStaysDisabled
<1> QED
  BY <1>1, <1>2, <1>3, ShapedInit, ShapedStep, PTL DEF Spec
=============================================================================
