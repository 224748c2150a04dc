------------------------------ MODULE Normalize ------------------------------
(***************************************************************************)
(* From the entry of a feed to the row of an article: pipeline/normalize.py *)
(* as _process_entries of pipeline/ingest.py calls it, and the one-time     *)
(* tools/migrate_snippets.py, which derives stored snippets again.          *)
(*                                                                         *)
(* A link is a sequence of layers: the url itself, then the url that one of *)
(* its query parameters holds, and so on.  A layer's names are in lower     *)
(* case, with flags for what the feed wrote in capitals.  What html.parser  *)
(* leaves of a description is a sequence of words, each with its width in   *)
(* characters.  Dates are hours, in a proleptic calendar from 0 on.  The    *)
(* title is as written: the bypass hashes it (Fingerprint).                 *)
(***************************************************************************)
EXTENDS Fingerprint

CONSTANTS
  Entry,            \* what a feed may hold
  Legacy,           \* rows that earlier versions of the program left
  WrapperHosts,     \* config.WRAPPER_HOSTS
  KnownHttpsHosts,  \* config.KNOWN_HTTPS_HOSTS
  WrapperParams,    \* config.WRAPPER_URL_PARAM_NAMES
  TrackingParams,   \* config.TRACKING_PREFIXES and TRACKING_EXACT
  Html,             \* descriptions, and stored snippets, which the migration reads as such
  StripTags,        \* external: the text that html.parser hands to handle_data
  FutureTolerance,  \* config.FUTURE_TOLERANCE_H
  MaxSentences,     \* _SNIPPET_MAX_SENTENCES
  MaxChars,         \* _SNIPPET_MAX_CHARS
  Start,            \* the hour of the first fetch
  MaxTime,          \* bound: hours from Start to the last fetch
  MaxEntries        \* bound: entries processed

ASSUME DateAssumption == FutureTolerance \in Nat /\ Start \in Nat /\ MaxTime \in Nat
ASSUME SnippetAssumption == MaxSentences \in Nat \ {0} /\ MaxChars \in Nat \ {0}

\* No parameter is both: a wrapper's would be taken for noise.
ASSUME WrapperAssumption == WrapperParams \cap TrackingParams = {}

\* What urlsplit and parse_qsl see of a url.
UrlParam == [name : STRING, caps : BOOLEAN, holds_url : BOOLEAN]
UrlLayer == [scheme : {"http", "https"}, scheme_caps : BOOLEAN, host : STRING, host_caps : BOOLEAN,
             path : [stem : BOOLEAN, slashes : Nat], query : Seq(UrlParam), fragment : BOOLEAN]
Link == Seq(UrlLayer) \ {<<>>}

DateField == [is : {"absent", "bad"}] \cup [is : {"date"}, at : Nat]

\* A word of a text: does it end a sentence, does it begin in a capital, and
\* what would the parser make of it (its form, for StripTags alone).
Word == [width : Nat, form : STRING, stop : BOOLEAN, capital : BOOLEAN]

ASSUME ParserAssumption == StripTags \in [Html -> Seq(Word)]

ASSUME EntryAssumption ==
  /\ MaxEntries \in Nat
  /\ Entry \subseteq [link : Link, title : Seq(Char), published_parsed : DateField,
                     updated_parsed : DateField, published : DateField, updated : DateField,
                     summary : Html]

VARIABLES
  article,   \* the table: canonical url -> row
  seen,      \* the links of all entries processed, for the properties
  migrated,  \* migrate_snippets has been run
  now        \* the hour

vars == <<article, seen, migrated, now>>
-----------------------------------------------------------------------------
(* canonicalize_url *)

\* Mutant: any host is taken for a wrapper.
ResolvesAnyHost(u, i) ==
  /\ i < Len(u)
  /\ ~u[i + 1].scheme_caps
  /\ \E k \in DOMAIN u[i].query :
       u[i].query[k].holds_url /\ u[i].query[k].name \in WrapperParams /\ ~u[i].query[k].caps

\* A wrapper is resolved when a parameter of the right name holds an http
\* url; the test is on the value as written, in lower case.
Resolves(u, i) ==
  /\ i < Len(u)
  /\ u[i].host \in WrapperHosts
  /\ ~u[i + 1].scheme_caps
  /\ \E k \in DOMAIN u[i].query :
       u[i].query[k].holds_url /\ u[i].query[k].name \in WrapperParams /\ ~u[i].query[k].caps

\* The layer at which the recursion ends.
Target(u) == CHOOSE i \in DOMAIN u : ~Resolves(u, i) /\ \A j \in 1 .. i - 1 : Resolves(u, j)

Trimmed(path) == IF path = [stem |-> FALSE, slashes |-> 1] THEN path ELSE [path EXCEPT !.slashes = 0]

IsTracking(param) == param.name \in TrackingParams

\* The parameters whose names are not among these, in their order.
Without(query, names) ==
  LET kept[n \in 0 .. Len(query)] ==
        IF n = 0 THEN <<>>
        ELSE IF query[n].name \in names THEN kept[n - 1]
        ELSE Append(kept[n - 1], query[n])
  IN  kept[Len(query)]

Filtered(query) == Without(query, TrackingParams)

Clean(layer) ==
  [layer EXCEPT
     !.scheme = IF @ = "http" /\ layer.host \in KnownHttpsHosts THEN "https" ELSE @,
     !.scheme_caps = FALSE,
     !.host_caps = FALSE,
     !.path = Trimmed(@),
     !.query = Filtered(@),
     !.fragment = FALSE]

\* What the url at layer i still holds when its tracking parameters are gone.
Held(u, i) ==
  IF \E k \in DOMAIN u[i].query : u[i].query[k].holds_url /\ ~IsTracking(u[i].query[k])
    THEN SubSeq(u, i + 1, Len(u))
    ELSE <<>>

CanonicalizeUrl(u) == LET t == Target(u) IN <<Clean(u[t])>> \o Held(u, t)
-----------------------------------------------------------------------------
(* normalize_timestamp *)

IsDate(field) == field.is = "date"

\* The first of the two parsed fields that is a date; if neither is, the
\* first of the two raw ones that is present, when dateutil can read it.
Dated(e) ==
  IF IsDate(e.published_parsed) THEN e.published_parsed
  ELSE IF IsDate(e.updated_parsed) THEN e.updated_parsed
  ELSE IF e.published.is # "absent" THEN e.published
  ELSE e.updated

NormalizeTimestamp(e, fetched) ==
  IF IsDate(Dated(e)) /\ Dated(e).at <= fetched + FutureTolerance
    THEN [at |-> Dated(e).at, inferred |-> FALSE]
    ELSE [at |-> fetched, inferred |-> TRUE]
-----------------------------------------------------------------------------
(* derive_snippet *)

\* _SENTENCE_SPLIT_RE: a stop, white space, a capital.
Breaks(text) == {i \in 1 .. Len(text) - 1 : text[i].stop /\ text[i + 1].capital}

\* Mutant: one sentence too many.
FirstSentencesPlus(text) ==
  LET kept == {n \in 0 .. Len(text) : Cardinality({i \in Breaks(text) : i < n}) <= MaxSentences}
  IN  SubSeq(text, 1, CHOOSE n \in kept : \A m \in kept : m <= n)

FirstSentences(text) ==
  LET kept == {n \in 0 .. Len(text) : Cardinality({i \in Breaks(text) : i < n}) < MaxSentences}
  IN  SubSeq(text, 1, CHOOSE n \in kept : \A m \in kept : m <= n)

\* Characters of the first n words, with a space between two.
WidthTo(text, n) ==
  LET upto[k \in 0 .. Len(text)] ==
        IF k = 0 THEN 0 ELSE upto[k - 1] + text[k].width + (IF k = 1 THEN 0 ELSE 1)
  IN  upto[n]

Width(text) == WidthTo(text, Len(text))

\* Cut before the last space among the first MaxChars characters, or inside
\* the first word when there is none.
Truncated(text) ==
  LET fits == {n \in 1 .. Len(text) : WidthTo(text, n) < MaxChars}
  IN  IF Width(text) <= MaxChars THEN text
      ELSE IF fits = {} THEN <<[text[1] EXCEPT !.width = MaxChars]>>
      ELSE SubSeq(text, 1, CHOOSE n \in fits : \A m \in fits : m <= n)

DeriveSnippet(raw) == Truncated(FirstSentences(StripTags[raw]))

\* What is stored can be read again.
ASSUME SnippetsAreRead == \A raw \in Html : DeriveSnippet(raw) \in Html
-----------------------------------------------------------------------------
Row == [link : Link, title : Seq(Char), published : Nat, inferred : BOOLEAN, fetched : Nat,
        snippet : Html \cap Seq(Word), legacy : BOOLEAN]

\* Earlier versions stored more of the description, and the rest alike.
ASSUME LegacyAssumption ==
  \A table \in Legacy : \A url \in DOMAIN table :
    /\ table[url] \in Row
    /\ table[url].legacy
    /\ url = CanonicalizeUrl(table[url].link)
    /\ table[url].published <= table[url].fetched + FutureTolerance
    /\ table[url].inferred => table[url].published = table[url].fetched

Init ==
  /\ article \in Legacy
  /\ seen = {}
  /\ migrated = FALSE
  /\ now = Start

\* str.strip
Strip(title) ==
  LET word == {i \in DOMAIN title : title[i] \notin Space}
  IN  IF word = {} THEN <<>> ELSE SubSeq(title, Min(word), Max(word))

\* Mutant: INSERT OR REPLACE.
ProcessEntryReplacing(e) ==
  LET url == CanonicalizeUrl(e.link)
      stamp == NormalizeTimestamp(e, now)
      title == Strip(e.title)
      row == [link |-> e.link, title |-> title, published |-> stamp.at, inferred |-> stamp.inferred,
              fetched |-> now, snippet |-> DeriveSnippet(e.summary), legacy |-> FALSE]
  IN  /\ Cardinality(seen) < MaxEntries
      /\ title # <<>>
      /\ seen' = seen \cup {e.link}
      /\ article' = [k \in DOMAIN article \cup {url} |-> IF k = url THEN row ELSE article[k]]
      /\ UNCHANGED <<migrated, now>>

\* One round of the loop of _process_entries: an entry without link or title
\* is passed over, INSERT OR IGNORE keeps the row that is there.
ProcessEntry(e) ==
  LET url == CanonicalizeUrl(e.link)
      stamp == NormalizeTimestamp(e, now)
      title == Strip(e.title)
      row == [link |-> e.link, title |-> title, published |-> stamp.at, inferred |-> stamp.inferred,
              fetched |-> now, snippet |-> DeriveSnippet(e.summary), legacy |-> FALSE]
  IN  /\ Cardinality(seen) < MaxEntries
      /\ title # <<>>
      /\ seen' = seen \cup {e.link}
      /\ article' = [k \in DOMAIN article \cup {url} |->
                       IF k \in DOMAIN article THEN article[k] ELSE row]
      /\ UNCHANGED <<migrated, now>>

\* tools/migrate_snippets.py: one transaction over all rows.
MigrateSnippets ==
  /\ ~migrated
  /\ migrated' = TRUE
  /\ article' = [url \in DOMAIN article |->
                   [article[url] EXCEPT !.snippet = DeriveSnippet(@)]]
  /\ UNCHANGED <<seen, now>>

Tick ==
  /\ now < Start + MaxTime
  /\ now' = now + 1
  /\ UNCHANGED <<article, seen, migrated>>

Next ==
  \/ \E e \in Entry : ProcessEntry(e)
  \/ MigrateSnippets
  \/ Tick

Spec == Init /\ [][Next]_vars
-----------------------------------------------------------------------------
(* What two links that differ in noise alone have in common.  "/" and no   *)
(* path at all are left apart, as tests/test_normalize.py has it.          *)

SamePath(p, q) ==
  /\ p.stem = q.stem
  /\ p.stem \/ (p.slashes = 1 <=> q.slashes = 1)

SameQuery(p, q) == Without(p, TrackingParams) = Without(q, TrackingParams)

SameLayer(a, b) ==
  /\ a.host = b.host
  /\ a.scheme = b.scheme \/ a.host \in KnownHttpsHosts
  /\ SamePath(a.path, b.path)
  /\ SameQuery(a.query, b.query)

\* The url inside a parameter that is not noise.
Inside(u, i) ==
  IF \E k \in DOMAIN u[i].query : u[i].query[k].holds_url /\ u[i].query[k].name \notin TrackingParams
    THEN SubSeq(u, i + 1, Len(u))
    ELSE <<>>

\* A known wrapper around another url, in whatever capitals: names of
\* parameters and schemes mean the same in either.
Wraps(u, i) ==
  /\ i < Len(u)
  /\ u[i].host \in WrapperHosts
  /\ \E k \in DOMAIN u[i].query : u[i].query[k].holds_url /\ u[i].query[k].name \in WrapperParams

\* The page a link leads to: what the innermost wrapper is around.
LeadsTo(u, i) == ~Wraps(u, i) /\ \A k \in 1 .. i - 1 : Wraps(u, k)

SamePage(u, v) ==
  \E i \in DOMAIN u, j \in DOMAIN v :
    /\ LeadsTo(u, i)
    /\ LeadsTo(v, j)
    /\ SameLayer(u[i], v[j])
    /\ Inside(u, i) = Inside(v, j)

\* No url is held under a name in capitals, or has its scheme in capitals.
HeldInSmall(u) ==
  \A i \in 1 .. Len(u) - 1 :
    /\ ~u[i + 1].scheme_caps
    /\ \A k \in DOMAIN u[i].query : u[i].query[k].holds_url => ~u[i].query[k].caps

TypeOK ==
  /\ \A url \in DOMAIN article : article[url] \in Row
  /\ seen \subseteq Link
  /\ migrated \in BOOLEAN
  /\ now \in Start .. Start + MaxTime

(* A page is one article, whatever tracking parameters, slashes, fragments *)
(* and wrappers the feeds put around its url, and whatever is in capitals  *)
(* but a wrapper's parameter and the scheme of the url it holds: those are *)
(* compared as written, and such a link is left in its wrapper.            *)
(* canonical_url is the only key INSERT OR IGNORE goes by.                 *)
OneRowPerPage ==
  \A a, b \in DOMAIN article :
    LET u == article[a].link
        v == article[b].link
    IN  SamePage(u, v) /\ HeldInSmall(u) /\ HeldInSmall(v) => a = b

(* And no page disappears behind another one's row, in whatever capitals:  *)
(* every entry processed has a row that is of its own page.                *)
NoPageLost ==
  \A link \in seen : \E url \in DOMAIN article : SamePage(link, article[url].link)

Headlines == {article[url].title : url \in DOMAIN article}

(* What canonicalize_url drops and resolves is what does not tell pages    *)
(* apart: canonical_url and pages are one to one, but for the capitals.    *)
RowsArePages == OneRowPerPage /\ NoPageLost

(* Titles that say the same in other capitals and spacing have one         *)
(* fingerprint, which is what finds a syndicated headline (FR-301).        *)
WordingDecides ==
  \A t, u \in Headlines :
    t # u /\ Wording(t) = Wording(u) => ComputeSimhash(t) = ComputeSimhash(u)

(* The comment above _to_signed_64: a fingerprint fits SQLite's integer,   *)
(* and the sign it is stored with is transparent to the distance.          *)
SignTransparent ==
  \A t, u \in Headlines :
    t # u =>
      /\ ComputeSimhash(t) \in -Power[Bits - 1] .. Power[Bits - 1] - 1
      /\ HammingDistance(ComputeSimhash(t), ComputeSimhash(u)) = Cardinality(Disputed(t, u))

(* The distance the bypass measures is that of what the titles say.        *)
HeadlinesMatch == WordingDecides /\ SignTransparent

(* A stored date is at most the tolerance after the fetch, and a date that *)
(* was made up is the fetch's: clusters never grow into the future.        *)
PublishedPlausible ==
  \A url \in DOMAIN article :
    LET row == article[url]
    IN  /\ row.published <= row.fetched + FutureTolerance
        /\ row.inferred => row.published = row.fetched

(* An entry is seen at every fetch until its feed drops it, and an undated *)
(* one would get a new date each time: the row keeps the first.            *)
DatesSettled ==
  [][\A url \in DOMAIN article :
       /\ url \in DOMAIN article'
       /\ article'[url].published = article[url].published
       /\ article'[url].inferred = article[url].inferred]_vars

Sentences(text) == Cardinality(Breaks(text)) + 1

(* The two bounds that keep a snippet from being the article (AC-10): for  *)
(* every row this version wrote, and for all of them once migrated.        *)
SnippetBounded ==
  \A url \in DOMAIN article :
    migrated \/ ~article[url].legacy =>
      /\ Sentences(article[url].snippet) <= MaxSentences
      /\ Width(article[url].snippet) <= MaxChars

(* What a feed writes is bounded in the row, in length and in time.        *)
RowBounded == SnippetBounded /\ PublishedPlausible

(* tools/migrate_snippets.py:7-11 says it "further shortens what's already *)
(* there" by the bounds, so a snippet within them should stay.  It need    *)
(* not: text that ends in "AT&T" is kept back by the parser, and decoded   *)
(* markup is a tag the second time.                                        *)
CompliantSnippetsStay ==
  [][migrated' # migrated =>
       \A url \in DOMAIN article :
         ~article[url].legacy => article'[url].snippet = article[url].snippet]_vars

(* pipeline/normalize.py:40 says "one level" of wrapper is resolved; the   *)
(* recursion resolves them all.                                            *)
OneWrapperOnly == \A link \in seen : Target(link) <= 2
=============================================================================
