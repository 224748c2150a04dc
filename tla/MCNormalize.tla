----------------------------- MODULE MCNormalize -----------------------------
(***************************************************************************)
(* Normalize for TLC: links that differ in everything the code looks at,   *)
(* entries with every combination of dates, and short descriptions, each   *)
(* kind beside one another but not multiplied with one another.            *)
(***************************************************************************)
EXTENDS Normalize

MCWrapperHosts == {"wrapper"}
MCKnownHttpsHosts == {"wrapper"}
MCWrapperParams == {"url"}
MCTrackingParams == {"utm_source", "fbclid"}

Param(name, caps) == [name |-> name, caps |-> caps, holds_url |-> FALSE]
HolderIn(name, caps) == [name |-> name, caps |-> caps, holds_url |-> TRUE]
Holder(name) == HolderIn(name, FALSE)

Layer(scheme, host, caps, stem, slashes, query, fragment) ==
  [scheme |-> scheme, scheme_caps |-> caps, host |-> host, host_caps |-> caps,
   path |-> [stem |-> stem, slashes |-> slashes], query |-> query, fragment |-> fragment]

Page == Layer("https", "site", FALSE, TRUE, 0, <<>>, FALSE)

Queries ==
  {<<>>, <<Param("id", FALSE)>>, <<Param("id", TRUE)>>, <<Param("utm_source", FALSE)>>,
   <<Param("fbclid", TRUE), Param("id", FALSE)>>,
   <<Param("id", FALSE), Param("url", FALSE)>>}

PlainLinks ==
  {<<Layer(scheme, host, caps, TRUE, slashes, query, caps)>> :
     scheme \in {"http", "https"}, host \in {"site", "wrapper"}, caps \in BOOLEAN,
     slashes \in {0, 2}, query \in Queries}
  \cup {<<Layer("https", "site", caps, FALSE, slashes, <<>>, caps)>> :
          caps \in BOOLEAN, slashes \in 0 .. 2}

\* A wrapper around a page, under a parameter the code knows or does not,
\* around another wrapper, and in capitals.
Wrapping(name) == Layer("http", "wrapper", FALSE, TRUE, 0, <<Param("id", FALSE), Holder(name)>>, FALSE)

WrappedLinks ==
  {<<Wrapping(name), [Page EXCEPT !.scheme_caps = caps, !.query = query]>> :
     name \in {"url", "id"}, caps \in BOOLEAN,
     query \in {<<>>, <<Param("utm_source", FALSE)>>, <<Param("id", FALSE)>>}}
  \cup {<<Wrapping("url"), Wrapping(name), Page>> : name \in {"url", "id"}}
  \cup {<<[Page EXCEPT !.query = <<Holder(name)>>], [Page EXCEPT !.fragment = fragment]>> :
          name \in {"url", "utm_source"}, fragment \in BOOLEAN}
  \cup {<<[Wrapping("url") EXCEPT !.query = <<HolderIn("url", caps)>>], Wrapping("url"),
          [Page EXCEPT !.scheme_caps = scheme_caps]>> : caps, scheme_caps \in BOOLEAN}

Absent == [is |-> "absent"]
Bad == [is |-> "bad"]
Date(h) == [is |-> "date", at |-> h]

Short == [width |-> 1, form |-> "word", stop |-> FALSE, capital |-> TRUE]
Stop == [width |-> 2, form |-> "word", stop |-> TRUE, capital |-> FALSE]
Tag == [width |-> 3, form |-> "tag", stop |-> FALSE, capital |-> FALSE]
Escaped == [width |-> 3, form |-> "escaped", stop |-> FALSE, capital |-> FALSE]
Ampersand == [width |-> 4, form |-> "ampersand", stop |-> FALSE, capital |-> TRUE]
Long == [width |-> 12, form |-> "word", stop |-> FALSE, capital |-> FALSE]

Token == {Short, Stop, Tag, Escaped, Ampersand, Long}

\* The parser.  A tag stands between two words without white space, and they
\* are one when it is gone (''.join).  Escaped markup is text, and a tag when
\* read again.  Text that ends in an open "&name" is kept back until close()
\* is called, which it is not: nothing since the last tag is handed over.
Heard(raw) ==
  IF raw # <<>> /\ raw[Len(raw)].form = "ampersand"
    THEN SubSeq(raw, 1, SelectLastInSeq(raw, LAMBDA token : token.form = "tag"))
    ELSE raw

Glued(token, next) ==
  [next EXCEPT !.width = token.width + @, !.capital = token.capital]

Add(state, token) ==
  CASE token.form = "tag" -> [state EXCEPT !.glue = state.text # <<>>]
    [] token.form # "tag" /\ state.glue ->
         [glue |-> FALSE, text |-> Append(Front(state.text), Glued(Last(state.text), token))]
    [] OTHER ->
         [glue |-> FALSE,
          text |-> Append(state.text, IF token.form = "escaped" THEN [token EXCEPT !.form = "tag"] ELSE token)]

Parsed(raw) == FoldLeft(Add, [glue |-> FALSE, text |-> <<>>], Heard(raw)).text

\* What an earlier version stored: without markup, of any length.
LegacyText == {<<>>, <<Short, Stop, Short, Stop, Short>>, <<Long>>, <<Short, Ampersand>>,
               <<Tag, Stop, Tag, Short>>}

Descriptions ==
  UNION {[1 .. n -> Token] : n \in 0 .. 3}
  \cup {<<Stop, Short, Stop, t>> : t \in Token}
  \cup {<<Stop, Short, Stop, Short, t>> : t \in Token}

\* With what is stored of them, and what the migration makes of that.
Again(texts) == texts \cup {Truncated(FirstSentences(Parsed(raw))) : raw \in texts}

MCHtml == Again(Again(Again(Descriptions \cup LegacyText)))
MCStripTags == [raw \in MCHtml |-> Parsed(raw)]

OtherPage == [Page EXCEPT !.query = <<Param("id", FALSE)>>]

\* Characters: two kinds of whitespace, a capital and its small letter, a letter.
MCChar == 0 .. 4
MCSpace == {0, 1}
MCLower == [c \in MCChar |-> IF c = 2 THEN 3 ELSE c]
MCTrigramHash(t) == FoldSeq(LAMBDA c, h : (h * 29 + c * 11 + 7) % 64, 5, t)

Headline == <<3, 3, 4, 3>>
MCTitles ==
  UNION {[1 .. n -> {0, 3}] : n \in 0 .. 3}
  \cup {<<2, 3, 4, 3>>, <<3, 3, 0, 4, 3>>, <<2, 3, 1, 4, 3>>, <<0, 3, 2, 1, 0, 4, 3, 1>>,
        <<3, 4>>, <<4, 4, 3>>, <<4, 4, 4, 4>>, <<4, 3, 4, 4, 4>>}

Plain ==
  [link |-> <<Page>>, title |-> Headline, published_parsed |-> Date(5), updated_parsed |-> Absent,
   published |-> Date(5), updated |-> Absent, summary |-> <<Short, Stop>>]

MCEntry ==
  {[Plain EXCEPT !.link = link] : link \in PlainLinks \cup WrappedLinks}
  \cup {[Plain EXCEPT !.published_parsed = p, !.updated_parsed = u, !.published = q, !.updated = v] :
          p \in {Absent, Bad, Date(0), Date(9)}, u \in {Absent, Bad, Date(6)},
          q \in {Absent, Bad, Date(6), Date(9)}, v \in {Absent, Bad, Date(7)}}
  \cup {[Plain EXCEPT !.summary = text] : text \in Descriptions}
  \cup {[Plain EXCEPT !.title = t, !.link = link] :
          t \in MCTitles, link \in {<<Page>>, <<OtherPage>>}}

LegacyRow(text) ==
  <<Page>> :> [link |-> <<Page>>, title |-> Headline, published |-> 4, inferred |-> FALSE, fetched |-> 4,
               snippet |-> text, legacy |-> TRUE]

MCLegacy == {<<>>} \cup {LegacyRow(text) : text \in LegacyText}
=============================================================================
