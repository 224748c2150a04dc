--------------------------- MODULE NormalizeProofs ---------------------------
(***************************************************************************)
(* Proofs about Normalize and Fingerprint, for any entries, hosts,         *)
(* parameters, tolerances and bounds, any characters, hash and width.      *)
(* The loops of the code are functions on 0 .. n: that such a function     *)
(* exists, and where its values lie, is Recursion and Typed, once per loop *)
(* (KeptExist, WidthsExist, WordsExist, KeepsExist, PowersExist,          *)
(* SumsExist).                                                             *)
(***************************************************************************)
EXTENDS Normalize, NaturalsInduction, WellFoundedInduction, FiniteSetTheorems, SequenceTheorems,
        TLAPS

LEMMA Least ==
  ASSUME NEW S \in SUBSET Nat, S # {}
  PROVE  \E n \in S : \A m \in S : n <= m
<1>1. PICK n \in S : \A m \in S : <<m, n>> \notin OpToRel(<, Nat)
  BY NatLessThanWellFounded, WFMin, Zenon
<1>2. ASSUME NEW m \in S, m < n PROVE FALSE
  <2>1. <<m, n>> \in Nat \X Nat /\ <<m, n>>[1] < <<m, n>>[2]
    BY <1>2
  <2>2. <<m, n>> \in OpToRel(<, Nat)
    BY <2>1, Zenon DEF OpToRel
  <2> QED
    BY <1>1, <2>2
<1> QED
  BY <1>2

LEMMA Greatest ==
  ASSUME NEW b \in Nat, NEW S \in SUBSET (0 .. b), S # {}
  PROVE  \E n \in S : \A m \in S : m <= n
<1> DEFINE R == {b - n : n \in S}
<1>1. R \in SUBSET Nat /\ R # {}
  <2>1. ASSUME NEW n \in S PROVE b - n \in Nat
    BY n \in 0 .. b
  <2> QED
    BY <2>1
<1>2. PICK r \in R : \A q \in R : r <= q
  BY <1>1, Least
<1>3. PICK n \in S : r = b - n
  BY <1>2
<1>4. ASSUME NEW m \in S PROVE m <= n
  <2>1. b - m \in R
    OBVIOUS
  <2>2. r <= b - m
    BY <1>2, <2>1
  <2> QED
    BY <1>3, <2>2
<1> QED
  BY <1>4

\* Induction up to a bound.
LEMMA Induct ==
  ASSUME NEW d \in Nat, NEW C, 0 \in C, \A n \in 1 .. d : n - 1 \in C => n \in C
  PROVE  0 .. d \subseteq C
<1> DEFINE R == (0 .. d) \ C
<1> SUFFICES ASSUME R # {} PROVE FALSE
  OBVIOUS
<1>1. PICK n \in R : \A m \in R : n <= m
  <2>1. R \in SUBSET Nat
    OBVIOUS
  <2> HIDE DEF R
  <2> QED
    BY <2>1, Least
<1>2. n \in 1 .. d /\ n - 1 \in 0 .. d /\ n - 1 \notin R
  BY <1>1
<1> QED
  BY <1>1, <1>2

Follows(f, d, base, step) == f[0] = base /\ \A n \in 1 .. d : f[n] = step[n][f[n - 1]]

\* A function that is defined along the numbers, as the code's loops are.
LEMMA Recursion ==
  ASSUME NEW d \in Nat, NEW V, NEW base \in V, NEW step \in [1 .. d -> [V -> V]]
  PROVE  \E f \in [0 .. d -> V] : Follows(f, d, base, step)
<1> DEFINE Good(f, n) == /\ f \in [0 .. n -> V]
                         /\ f[0] = base
                         /\ \A k \in 1 .. n : f[k] = step[k][f[k - 1]]
           C == {n \in 0 .. d : \E f : Good(f, n)}
<1>1. 0 \in C
  <2>1. Good([k \in 0 .. 0 |-> base], 0)
    OBVIOUS
  <2> HIDE DEF Good
  <2> QED
    BY <2>1
<1>2. ASSUME NEW n \in 1 .. d, n - 1 \in C PROVE n \in C
  <2>1. PICK f : Good(f, n - 1)
    BY <1>2
  <2> DEFINE g == [k \in 0 .. n |-> IF k = n THEN step[n][f[n - 1]] ELSE f[k]]
  <2>2. step[n][f[n - 1]] \in V
    BY <2>1
  <2>3. g \in [0 .. n -> V] /\ g[0] = base
    BY <2>1, <2>2
  <2>4. ASSUME NEW k \in 1 .. n PROVE g[k] = step[k][g[k - 1]]
    <3>1. CASE k = n
      <4>1. g[n] = step[n][f[n - 1]] /\ g[n - 1] = f[n - 1]
        OBVIOUS
      <4> QED
        BY <3>1, <4>1
    <3>2. CASE k # n
      <4>1. k \in 1 .. n - 1 /\ k - 1 # n
        BY <3>2
      <4>2. g[k] = f[k] /\ g[k - 1] = f[k - 1]
        BY <4>1
      <4>3. f[k] = step[k][f[k - 1]]
        BY <2>1, <4>1
      <4> QED
        BY <4>2, <4>3
    <3> QED
      BY <3>1, <3>2
  <2> HIDE DEF g
  <2>5. Good(g, n)
    BY <2>3, <2>4
  <2> QED
    BY <2>5
<1>3. d \in 0 .. d
  OBVIOUS
<1> HIDE DEF C
<1>4. d \in C
  BY <1>1, <1>2, <1>3, Induct
<1> QED
  BY <1>4 DEF C, Follows

\* And every such function has its values where its steps have.
LEMMA Typed ==
  ASSUME NEW d \in Nat, NEW V, NEW g, g[0] \in V,
         \A n \in 1 .. d : g[n - 1] \in V => g[n] \in V
  PROVE  \A n \in 0 .. d : g[n] \in V
<1> DEFINE C == {n \in 0 .. d : g[n] \in V}
<1>1. 0 \in C
  OBVIOUS
<1>2. ASSUME NEW n \in 1 .. d, n - 1 \in C PROVE n \in C
  BY <1>2
<1> HIDE DEF C
<1>3. 0 .. d \subseteq C
  BY <1>1, <1>2, Induct
<1> QED
  BY <1>3 DEF C

-----------------------------------------------------------------------------
(* Pages and rows.                                                         *)

\* The recursion ends, at one layer.
Ends(u, i) == ~Resolves(u, i) /\ \A j \in 1 .. i - 1 : Resolves(u, j)

LEMMA TargetEnds ==
  ASSUME NEW u \in Link
  PROVE  Target(u) \in DOMAIN u /\ Ends(u, Target(u))
<1> DEFINE S == {i \in DOMAIN u : ~Resolves(u, i)}
<1>1. Len(u) \in DOMAIN u /\ DOMAIN u = 1 .. Len(u) /\ Len(u) \in Nat
  BY DEF Link
<1>2. ~Resolves(u, Len(u))
  BY <1>1 DEF Resolves
<1>3. S \in SUBSET Nat /\ S # {}
  BY <1>1, <1>2
<1>4. PICK i \in S : \A j \in S : i <= j
  BY <1>3, Least
<1>5. \A j \in 1 .. i - 1 : Resolves(u, j)
  BY <1>1, <1>4
<1> QED
  BY <1>4, <1>5 DEF Target, Ends

\* So do the wrappers.
LEMMA PageEnds ==
  ASSUME NEW u \in Link
  PROVE  \E i \in DOMAIN u : LeadsTo(u, i)
<1> DEFINE S == {i \in DOMAIN u : ~Wraps(u, i)}
<1>1. Len(u) \in DOMAIN u /\ DOMAIN u = 1 .. Len(u) /\ Len(u) \in Nat
  BY DEF Link
<1>2. ~Wraps(u, Len(u))
  BY <1>1 DEF Wraps
<1>3. S \in SUBSET Nat /\ S # {}
  BY <1>1, <1>2
<1>4. PICK i \in S : \A j \in S : i <= j
  BY <1>3, Least
<1>5. \A j \in 1 .. i - 1 : Wraps(u, j)
  BY <1>1, <1>4
<1> QED
  BY <1>4, <1>5 DEF LeadsTo

\* What is left of the first n parameters.
KeptOf(f, query, names) ==
  f = [n \in 0 .. Len(query) |->
         IF n = 0 THEN <<>>
         ELSE IF query[n].name \in names THEN f[n - 1]
         ELSE Append(f[n - 1], query[n])]

LEMMA KeptExist ==
  ASSUME NEW query \in Seq(UrlParam), NEW names
  PROVE  /\ \E f : KeptOf(f, query, names)
         /\ \A f : KeptOf(f, query, names) => f \in [0 .. Len(query) -> Seq(UrlParam)]
<1> DEFINE d == Len(query)
           V == Seq(UrlParam)
           step == [n \in 1 .. d |-> [v \in V |->
                      IF query[n].name \in names THEN v
                      ELSE Append(v, query[n])]]
<1>1. d \in Nat /\ <<>> \in V
  OBVIOUS
<1>2. ASSUME NEW n \in 1 .. d, NEW v \in V
      PROVE  (IF query[n].name \in names THEN v
              ELSE Append(v, query[n])) \in V
  <2>1. query[n] \in UrlParam
    OBVIOUS
  <2> QED
    BY <2>1
<1> HIDE DEF d, V
<1>3. step \in [1 .. d -> [V -> V]]
  BY <1>2
<1>4. \A n \in 1 .. d, v \in V :
        step[n][v] = IF query[n].name \in names THEN v
                     ELSE Append(v, query[n])
  OBVIOUS
<1> HIDE DEF step
<1>5. PICK f \in [0 .. d -> V] : Follows(f, d, <<>>, step)
  BY <1>1, <1>3, Recursion
<1>6. \A n \in 1 .. d : f[n - 1] \in V
  BY <1>1, <1>5
<1>7. \A n \in 0 .. d :
        f[n] = IF n = 0 THEN <<>>
               ELSE IF query[n].name \in names THEN f[n - 1]
               ELSE Append(f[n - 1], query[n])
  <2>1. f[0] = <<>>
    BY <1>5 DEF Follows
  <2>2. ASSUME NEW n \in 1 .. d
        PROVE  f[n] = IF query[n].name \in names THEN f[n - 1]
                      ELSE Append(f[n - 1], query[n])
    BY <1>4, <1>5, <1>6 DEF Follows
  <2>3. ASSUME NEW n \in 0 .. d, n # 0 PROVE n \in 1 .. d
    BY <1>1, <2>3
  <2> QED
    BY <2>1, <2>2, <2>3, Zenon
<1>8. KeptOf(f, query, names)
  <2>1. f = [n \in 0 .. d |-> f[n]]
    BY <1>5
  <2> QED
    BY <1>7, <2>1 DEF KeptOf, d
<1>9. ASSUME NEW g, KeptOf(g, query, names) PROVE g \in [0 .. d -> V]
  <2>1. /\ g = [n \in 0 .. d |-> g[n]]
        /\ \A n \in 0 .. d : g[n] = IF n = 0 THEN <<>>
                                  ELSE IF query[n].name \in names THEN g[n - 1]
                                  ELSE Append(g[n - 1], query[n])
    BY <1>9, Zenon DEF KeptOf, d
  <2>2. g[0] \in V
    <3>1. 0 \in 0 .. d
      BY <1>1
    <3>2. g[0] = <<>>
      BY <2>1, <3>1, Zenon
    <3> QED
      BY <1>1, <3>2
  <2>3. ASSUME NEW n \in 1 .. d, g[n - 1] \in V PROVE g[n] \in V
    <3>1. n \in 0 .. d /\ n # 0
      BY <1>1
    <3> QED
      BY <1>2, <2>1, <2>3, <3>1
  <2>4. \A n \in 0 .. d : g[n] \in V
    BY <1>1, <2>2, <2>3, Typed
  <2> QED
    BY <2>1, <2>4
<1> QED
  BY <1>8, <1>9 DEF d, V


LEMMA HeldIsInside == ASSUME NEW u, NEW i PROVE Held(u, i) = Inside(u, i)
BY DEF Held, IsTracking, Inside

SchemeOf(c) == IF c.scheme = "http" /\ c.host \in KnownHttpsHosts THEN "https" ELSE c.scheme

LEMMA CleanFields ==
  ASSUME NEW c \in UrlLayer
  PROVE  Clean(c) = [scheme |-> SchemeOf(c), scheme_caps |-> FALSE, host |-> c.host, host_caps |-> FALSE,
                     path |-> Trimmed(c.path), query |-> Filtered(c.query), fragment |-> FALSE]
<1>1. c = [scheme |-> c.scheme, scheme_caps |-> c.scheme_caps, host |-> c.host, host_caps |-> c.host_caps,
           path |-> c.path, query |-> c.query, fragment |-> c.fragment]
  BY DEF UrlLayer
<1>2. /\ Clean(c).scheme = SchemeOf(c)
      /\ Clean(c).host = c.host
      /\ Clean(c).path = Trimmed(c.path)
      /\ Clean(c).query = Filtered(c.query)
  BY <1>1 DEF Clean, SchemeOf, UrlLayer
<1>3. /\ Clean(c).scheme_caps = FALSE
      /\ Clean(c).host_caps = FALSE
      /\ Clean(c).fragment = FALSE
  BY <1>1 DEF Clean, UrlLayer
<1>4. DOMAIN Clean(c) = {"scheme", "scheme_caps", "host", "host_caps", "path", "query", "fragment"}
  BY <1>1 DEF Clean, UrlLayer
<1>5. Clean(c) = [f \in DOMAIN Clean(c) |-> Clean(c)[f]]
  BY DEF Clean
<1> QED
  BY <1>2, <1>3, <1>4, <1>5

LEMMA CleanDecides ==
  ASSUME NEW a \in UrlLayer, NEW b \in UrlLayer
  PROVE  Clean(a) = Clean(b) <=> SameLayer(a, b)
<1>1. Clean(a) = Clean(b) <=> /\ SchemeOf(a) = SchemeOf(b) /\ a.host = b.host
                              /\ Trimmed(a.path) = Trimmed(b.path) /\ Filtered(a.query) = Filtered(b.query)
  <2>1. \A c \in UrlLayer :
          /\ Clean(c).scheme = SchemeOf(c) /\ Clean(c).host = c.host
          /\ Clean(c).path = Trimmed(c.path) /\ Clean(c).query = Filtered(c.query)
    BY CleanFields
  <2>2. Clean(a) = [scheme |-> SchemeOf(a), scheme_caps |-> FALSE, host |-> a.host, host_caps |-> FALSE,
                    path |-> Trimmed(a.path), query |-> Filtered(a.query), fragment |-> FALSE]
    BY CleanFields
  <2>3. Clean(b) = [scheme |-> SchemeOf(b), scheme_caps |-> FALSE, host |-> b.host, host_caps |-> FALSE,
                    path |-> Trimmed(b.path), query |-> Filtered(b.query), fragment |-> FALSE]
    BY CleanFields
  <2> QED
    BY <2>1, <2>2, <2>3, Zenon
<1>2. a.host = b.host =>
        (SchemeOf(a) = SchemeOf(b) <=> a.scheme = b.scheme \/ a.host \in KnownHttpsHosts)
  BY DEF UrlLayer, SchemeOf
<1>3. Trimmed(a.path) = Trimmed(b.path) <=> SamePath(a.path, b.path)
  BY DEF Trimmed, SamePath, UrlLayer
<1>4. Filtered(a.query) = Filtered(b.query) <=> SameQuery(a.query, b.query)
  BY DEF SameQuery, Filtered
<1> QED
  BY <1>1, <1>2, <1>3, <1>4 DEF SameLayer

LEMMA JoinDecides ==
  ASSUME NEW T, NEW x \in T, NEW y \in T, NEW s \in Seq(T), NEW t \in Seq(T)
  PROVE  <<x>> \o s = <<y>> \o t <=> x = y /\ s = t
<1> SUFFICES ASSUME <<x>> \o s = <<y>> \o t PROVE x = y /\ s = t
  OBVIOUS
<1>1. (<<x>> \o s)[1] = x /\ (<<y>> \o t)[1] = y
  OBVIOUS
<1>2. Len(<<x>> \o s) = 1 + Len(s) /\ Len(<<y>> \o t) = 1 + Len(t)
  OBVIOUS
<1>3. Len(s) = Len(t) /\ Len(s) \in Nat
  BY <1>2
<1>4. ASSUME NEW i \in 1 .. Len(s) PROVE s[i] = t[i]
  <2>1. (<<x>> \o s)[i + 1] = s[i] /\ (<<y>> \o t)[i + 1] = t[i]
    BY <1>3
  <2> QED
    BY <2>1
<1> QED
  BY <1>1, <1>3, <1>4

LEMMA HeldType ==
  ASSUME NEW u \in Link, NEW i \in DOMAIN u
  PROVE  Held(u, i) \in Seq(UrlLayer)
BY DEF Held, Link

\* A parameter that wraps is not noise, so it is in what is left of a query.
Wrapping(param) == param.holds_url /\ param.name \in WrapperParams

LEMMA WrappingStays ==
  ASSUME NEW query \in Seq(UrlParam)
  PROVE  (\E k \in DOMAIN query : Wrapping(query[k]))
           <=> (\E k \in DOMAIN Filtered(query) : Wrapping(Filtered(query)[k]))
<1> DEFINE f == CHOOSE g : KeptOf(g, query, TrackingParams)
           d == Len(query)
<1>1. KeptOf(f, query, TrackingParams)
  BY KeptExist
<1>2. Filtered(query) = f[d]
  BY DEF Filtered, Without, KeptOf
<1> HIDE DEF f
<1>3. f \in [0 .. d -> Seq(UrlParam)] /\ d \in Nat
  <2>1. f \in [0 .. Len(query) -> Seq(UrlParam)]
    BY <1>1, KeptExist, Zenon
  <2> QED
    BY <2>1
<1> DEFINE Agree(n) == (\E k \in 1 .. n : Wrapping(query[k]))
                         <=> (\E k \in 1 .. Len(f[n]) : Wrapping(f[n][k]))
           C == {n \in 0 .. d : Agree(n)}
<1>4. 0 \in C
  <2>1. 0 \in 0 .. Len(query)
    OBVIOUS
  <2>2. f[0] = <<>>
    BY <1>1, <2>1, Zenon DEF KeptOf
  <2>3. Len(f[0]) = 0
    BY <2>2
  <2> QED
    BY <1>3, <2>3
<1>5. ASSUME NEW n \in 1 .. d, n - 1 \in C PROVE n \in C
  <2>1. n \in 0 .. d /\ n # 0 /\ n - 1 \in 0 .. d
    BY <1>3
  <2> query[n] \in UrlParam /\ f[n - 1] \in Seq(UrlParam)
    BY <1>3, <2>1
  <2>2. f[n] = IF query[n].name \in TrackingParams THEN f[n - 1] ELSE Append(f[n - 1], query[n])
    BY <1>1, <2>1, Zenon DEF KeptOf
  <2>3. (\E k \in 1 .. n : Wrapping(query[k]))
          <=> (\E k \in 1 .. n - 1 : Wrapping(query[k])) \/ Wrapping(query[n])
    <3>1. \A k \in 1 .. n : k \in 1 .. n - 1 \/ k = n
      OBVIOUS
    <3>2. \A k \in 1 .. n - 1 : k \in 1 .. n
      OBVIOUS
    <3>3. n \in 1 .. n
      OBVIOUS
    <3> QED
      BY <3>1, <3>2, <3>3, Zenon
  <2>4. Agree(n - 1)
    BY <1>5
  <2>5. CASE query[n].name \in TrackingParams
    <3>1. ~Wrapping(query[n]) /\ f[n] = f[n - 1]
      BY <2>2, <2>5, WrapperAssumption DEF Wrapping
    <3> QED
      BY <2>1, <2>3, <2>4, <3>1
  <2>6. CASE query[n].name \notin TrackingParams
    <3> DEFINE e == Len(f[n - 1])
    <3>1. /\ Len(f[n]) = e + 1 /\ f[n][e + 1] = query[n] /\ e \in Nat
          /\ \A k \in 1 .. e : f[n][k] = f[n - 1][k]
      BY <2>1, <2>2, <2>6
    <3>2. (\E k \in 1 .. Len(f[n]) : Wrapping(f[n][k]))
            <=> (\E k \in 1 .. e : Wrapping(f[n - 1][k])) \/ Wrapping(query[n])
      <4>1. \A k \in 1 .. e + 1 : k \in 1 .. e \/ k = e + 1
        BY <3>1
      <4>2. \A k \in 1 .. e : k \in 1 .. e + 1
        BY <3>1
      <4>3. e + 1 \in 1 .. e + 1
        BY <3>1
      <4> HIDE DEF e
      <4> QED
        BY <3>1, <4>1, <4>2, <4>3, Zenon
    <3> QED
      BY <2>1, <2>3, <2>4, <3>2
  <2> QED
    BY <2>5, <2>6
<1>6. d \in 0 .. d
  BY <1>3
<1> HIDE DEF C
<1>7. d \in C
  BY <1>3, <1>4, <1>5, <1>6, Induct
<1>8. Agree(d) /\ DOMAIN query = 1 .. d /\ f[d] \in Seq(UrlParam)
  BY <1>3, <1>7 DEF C
<1> QED
  BY <1>2, <1>8

\* Layers alike, around urls alike, are both wrappers or neither.
LEMMA WrapsAlike ==
  ASSUME NEW u \in Link, NEW v \in Link, NEW i \in DOMAIN u, NEW j \in DOMAIN v,
         SameLayer(u[i], v[j]), Inside(u, i) = Inside(v, j), Wraps(u, i)
  PROVE  Wraps(v, j) /\ SubSeq(u, i + 1, Len(u)) = SubSeq(v, j + 1, Len(v))
<1>1. /\ u \in Seq(UrlLayer) /\ v \in Seq(UrlLayer)
      /\ u[i] \in UrlLayer /\ v[j] \in UrlLayer
      /\ i \in 1 .. Len(u) /\ j \in 1 .. Len(v) /\ Len(u) \in Nat /\ Len(v) \in Nat
  BY DEF Link
<1>2. u[i].query \in Seq(UrlParam) /\ v[j].query \in Seq(UrlParam)
  BY <1>1 DEF UrlLayer
<1>3. PICK k \in DOMAIN u[i].query : Wrapping(u[i].query[k])
  BY DEF Wraps, Wrapping
<1>4. Inside(u, i) = SubSeq(u, i + 1, Len(u))
  BY <1>3, WrapperAssumption DEF Inside, Wrapping
<1>5. Inside(u, i) # <<>>
  <2>1. i < Len(u)
    BY DEF Wraps
  <2>2. Len(SubSeq(u, i + 1, Len(u))) = Len(u) - i
    BY <1>1, <2>1
  <2>3. Len(Inside(u, i)) # 0
    BY <1>1, <1>4, <2>1, <2>2
  <2> QED
    BY <2>3
<1>6. Inside(v, j) = SubSeq(v, j + 1, Len(v)) /\ j < Len(v)
  <2>1. Inside(v, j) = SubSeq(v, j + 1, Len(v))
    BY <1>5 DEF Inside
  <2>2. ~(j < Len(v)) => SubSeq(v, j + 1, Len(v)) = <<>>
    BY <1>1
  <2> QED
    BY <1>5, <2>1, <2>2
<1>7. v[j].host \in WrapperHosts
  BY DEF Wraps, SameLayer
<1>8. \E n \in DOMAIN v[j].query : Wrapping(v[j].query[n])
  <2>1. Filtered(u[i].query) = Filtered(v[j].query)
    BY DEF SameLayer, SameQuery, Filtered
  <2> QED
    BY <1>2, <1>3, <2>1, WrappingStays
<1> QED
  BY <1>4, <1>6, <1>7, <1>8 DEF Wraps, Wrapping

LEMMA TailIs ==
  ASSUME NEW T, NEW s \in Seq(T), NEW i \in Nat, i <= Len(s)
  PROVE  /\ SubSeq(s, i + 1, Len(s)) \in Seq(T)
         /\ Len(SubSeq(s, i + 1, Len(s))) = Len(s) - i
         /\ \A n \in 1 .. Len(s) - i : SubSeq(s, i + 1, Len(s))[n] = s[i + n]
<1>1. Len(s) \in Nat /\ i + 1 \in Int /\ \A n \in i + 1 .. Len(s) : s[n] \in T
  OBVIOUS
<1> DEFINE t == SubSeq(s, i + 1, Len(s))
<1>2. /\ t \in Seq(T)
      /\ Len(t) = IF i + 1 <= Len(s) THEN Len(s) - (i + 1) + 1 ELSE 0
      /\ \A n \in 1 .. Len(s) - (i + 1) + 1 : t[n] = s[i + 1 + n - 1]
  BY <1>1, SubSeqProperties
<1> HIDE DEF t
<1>3. Len(t) = Len(s) - i /\ Len(s) - (i + 1) + 1 = Len(s) - i
  BY <1>1, <1>2
<1>4. \A n \in 1 .. Len(s) - i : i + 1 + n - 1 = i + n
  BY <1>1
<1>5. \A n \in 1 .. Len(s) - i : t[n] = s[i + n]
  BY <1>2, <1>3, <1>4
<1> QED
  BY <1>2, <1>3, <1>5 DEF t

Shifts(a, b, i, j) ==
  \A n \in 1 .. a - i :
    /\ j + n \in Nat /\ j + n <= b /\ i + n \in Nat /\ i + n <= a
    /\ b - (j + n) = a - (i + n)
    /\ \A m \in 1 .. a - (i + n) :
         n + m \in 1 .. a - i /\ (j + n) + m = j + (n + m) /\ (i + n) + m = i + (n + m)

LEMMA Shifted ==
  ASSUME NEW a \in Nat, NEW b \in Nat, NEW i \in Nat, NEW j \in Nat, a - i = b - j
  PROVE  Shifts(a, b, i, j)
BY DEF Shifts

LEMMA SameSeq ==
  ASSUME NEW T, NEW s \in Seq(T), NEW t \in Seq(T), Len(s) = Len(t),
         \A n \in 1 .. Len(s) : s[n] = t[n]
  PROVE  s = t
OBVIOUS

\* From there on two links with the same tail are the same.
LEMMA TailsAlike ==
  ASSUME NEW u \in Link, NEW v \in Link, NEW i \in DOMAIN u, NEW j \in DOMAIN v,
         SubSeq(u, i + 1, Len(u)) = SubSeq(v, j + 1, Len(v))
  PROVE  \A n \in 1 .. Len(u) - i :
           /\ j + n \in DOMAIN v
           /\ v[j + n] = u[i + n]
           /\ Wraps(v, j + n) <=> Wraps(u, i + n)
           /\ Inside(v, j + n) = Inside(u, i + n)
<1> DEFINE s == SubSeq(u, i + 1, Len(u))
           t == SubSeq(v, j + 1, Len(v))
<1>1. /\ u \in Seq(UrlLayer) /\ v \in Seq(UrlLayer)
      /\ i \in 1 .. Len(u) /\ j \in 1 .. Len(v) /\ Len(u) \in Nat /\ Len(v) \in Nat
  BY DEF Link
<1>2. i \in Nat /\ i <= Len(u) /\ j \in Nat /\ j <= Len(v)
  BY <1>1
<1>3. Len(u) - i = Len(v) - j
  <2>1. Len(s) = Len(u) - i /\ Len(t) = Len(v) - j
    BY <1>1, <1>2, TailIs
  <2> QED
    BY <2>1
<1>4. \A n \in 1 .. Len(u) - i : s[n] = u[i + n]
  BY <1>1, <1>2, TailIs, Zenon
<1>5. \A n \in 1 .. Len(v) - j : t[n] = v[j + n]
  BY <1>1, <1>2, TailIs, Zenon
<1>6. \A n \in 1 .. Len(u) - i : v[j + n] = u[i + n]
  BY <1>3, <1>4, <1>5
<1> SUFFICES ASSUME NEW n \in 1 .. Len(u) - i
             PROVE  /\ j + n \in DOMAIN v
                    /\ v[j + n] = u[i + n]
                    /\ Wraps(v, j + n) <=> Wraps(u, i + n)
                    /\ Inside(v, j + n) = Inside(u, i + n)
  OBVIOUS
<1>7. j + n \in DOMAIN v /\ v[j + n] = u[i + n]
  BY <1>1, <1>3, <1>6
<1>8. j + n < Len(v) <=> i + n < Len(u)
  BY <1>1, <1>3
<1>9. SubSeq(v, (j + n) + 1, Len(v)) = SubSeq(u, (i + n) + 1, Len(u))
  <2> DEFINE p == SubSeq(v, (j + n) + 1, Len(v))
             q == SubSeq(u, (i + n) + 1, Len(u))
  <2>1. /\ j + n \in Nat /\ j + n <= Len(v)
        /\ i + n \in Nat /\ i + n <= Len(u)
        /\ Len(v) - (j + n) = Len(u) - (i + n)
        /\ \A m \in 1 .. Len(u) - (i + n) :
             n + m \in 1 .. Len(u) - i /\ (j + n) + m = j + (n + m) /\ (i + n) + m = i + (n + m)
    <3>1. Len(u) \in Nat /\ Len(v) \in Nat /\ i \in Nat /\ j \in Nat
      BY <1>1, <1>2
    <3>2. Shifts(Len(u), Len(v), i, j)
      BY <1>3, <3>1, Shifted, Zenon
    <3> QED
      BY <3>2, Zenon DEF Shifts
  <2>2. /\ p \in Seq(UrlLayer) /\ Len(p) = Len(v) - (j + n)
        /\ \A m \in 1 .. Len(v) - (j + n) : p[m] = v[(j + n) + m]
        /\ q \in Seq(UrlLayer) /\ Len(q) = Len(u) - (i + n)
        /\ \A m \in 1 .. Len(u) - (i + n) : q[m] = u[(i + n) + m]
    BY <1>1, <2>1, TailIs, Zenon
  <2> HIDE DEF p, q
  <2> DEFINE rest == Len(u) - (i + n)
  <2>6. Len(v) - (j + n) = rest
    BY <2>1, Zenon
  <2>3. Len(p) = rest /\ Len(q) = rest
    BY <2>2, <2>6, Zenon
  <2>4. ASSUME NEW m \in 1 .. rest PROVE p[m] = q[m]
    <3>1. /\ n + m \in 1 .. Len(u) - i
          /\ (j + n) + m = j + (n + m) /\ (i + n) + m = i + (n + m)
      BY <2>1, Zenon
    <3>2. v[j + (n + m)] = u[i + (n + m)]
      BY <1>6, <3>1
    <3>3. p[m] = v[(j + n) + m] /\ q[m] = u[(i + n) + m]
      BY <2>2, <2>6, Zenon
    <3> QED
      BY <3>1, <3>2, <3>3, Zenon
  <2>5. /\ Len(p) = Len(q)
        /\ \A m \in 1 .. Len(p) : p[m] = q[m]
    BY <2>3, <2>4, Zenon
  <2> QED
    <3>1. p = q
      BY <2>2, <2>5, SameSeq, Zenon
    <3> QED
      BY <3>1 DEF p, q
<1>10. Wraps(v, j + n) <=> Wraps(u, i + n)
  BY <1>7, <1>8 DEF Wraps
<1>11. Inside(v, j + n) = Inside(u, i + n)
  BY <1>7, <1>9 DEF Inside
<1> QED
  BY <1>7, <1>10, <1>11

\* One key is one layer, and one url in it.
LEMMA KeyIsLayer ==
  ASSUME NEW u \in Link, NEW v \in Link
  PROVE  CanonicalizeUrl(u) = CanonicalizeUrl(v)
           <=> /\ SameLayer(u[Target(u)], v[Target(v)])
               /\ Inside(u, Target(u)) = Inside(v, Target(v))
<1> DEFINE i == Target(u)
           j == Target(v)
           T == UrlLayer \cup {Clean(u[i]), Clean(v[j])}
<1>1. i \in DOMAIN u /\ j \in DOMAIN v
  BY TargetEnds
<1>2. u[i] \in UrlLayer /\ v[j] \in UrlLayer
  BY <1>1 DEF Link
<1>3. Held(u, i) \in Seq(T) /\ Held(v, j) \in Seq(T)
  <2>1. Held(u, i) \in Seq(UrlLayer) /\ Held(v, j) \in Seq(UrlLayer)
    BY <1>1, HeldType
  <2> HIDE DEF i, j
  <2> QED
    BY <2>1
<1>4. Clean(u[i]) \in T /\ Clean(v[j]) \in T
  OBVIOUS
<1> HIDE DEF T
<1>5. CanonicalizeUrl(u) = CanonicalizeUrl(v) <=> Clean(u[i]) = Clean(v[j]) /\ Held(u, i) = Held(v, j)
  BY <1>3, <1>4, JoinDecides DEF CanonicalizeUrl
<1> QED
  BY <1>2, <1>5, CleanDecides, HeldIsInside

\* Two links with one key are one page.  The code may stop at a wrapper in
\* capitals; what it then keeps of it holds the page, in both links.
LEMMA KeyTellsPage ==
  ASSUME NEW u \in Link, NEW v \in Link, CanonicalizeUrl(u) = CanonicalizeUrl(v)
  PROVE  SamePage(u, v)
<1> DEFINE i == Target(u)
           j == Target(v)
<1>1. /\ i \in DOMAIN u /\ Ends(u, i)
      /\ j \in DOMAIN v /\ Ends(v, j)
  BY TargetEnds
<1>2. SameLayer(u[i], v[j]) /\ Inside(u, i) = Inside(v, j)
  BY KeyIsLayer
<1> HIDE DEF i, j
<1>3. (\A k \in 1 .. i - 1 : Wraps(u, k)) /\ (\A k \in 1 .. j - 1 : Wraps(v, k))
  BY <1>1 DEF Ends, Resolves, Wraps
<1>4. /\ u[i] \in UrlLayer /\ v[j] \in UrlLayer /\ SameLayer(v[j], u[i])
      /\ Inside(v, j) = Inside(u, i)
      /\ i \in 1 .. Len(u) /\ j \in 1 .. Len(v) /\ Len(u) \in Nat /\ Len(v) \in Nat
      /\ DOMAIN u = 1 .. Len(u) /\ DOMAIN v = 1 .. Len(v)
  BY <1>1, <1>2 DEF Link, SameLayer, SamePath, SameQuery
<1>5. CASE ~Wraps(u, i)
  <2>1. ~Wraps(v, j)
    BY <1>1, <1>4, <1>5, WrapsAlike
  <2> QED
    BY <1>1, <1>2, <1>3, <1>5, <2>1 DEF SamePage, LeadsTo
<1>6. CASE Wraps(u, i)
  <2>1. Wraps(v, j) /\ SubSeq(u, i + 1, Len(u)) = SubSeq(v, j + 1, Len(v))
    BY <1>1, <1>2, <1>6, WrapsAlike
  <2>2. PICK p \in DOMAIN u : LeadsTo(u, p)
    BY PageEnds
  <2>3. p > i
    BY <1>3, <1>4, <1>6, <2>2 DEF LeadsTo
  <2> DEFINE n == p - i
             q == j + n
  <2>4. n \in 1 .. Len(u) - i /\ i + n = p
    BY <1>4, <2>2, <2>3
  <2>5. \A m \in 1 .. Len(u) - i :
          /\ j + m \in DOMAIN v
          /\ v[j + m] = u[i + m]
          /\ Wraps(v, j + m) <=> Wraps(u, i + m)
          /\ Inside(v, j + m) = Inside(u, i + m)
    BY <1>1, <2>1, TailsAlike
  <2>6. q \in DOMAIN v /\ v[q] = u[p] /\ ~Wraps(v, q) /\ Inside(v, q) = Inside(u, p)
    BY <2>2, <2>4, <2>5 DEF LeadsTo
  <2>7. ASSUME NEW k \in 1 .. q - 1 PROVE Wraps(v, k)
    <3>1. CASE k < j
      BY <1>3, <1>4, <3>1
    <3>2. CASE k = j
      BY <2>1, <3>2
    <3>3. CASE k > j
      <4>1. k - j \in 1 .. Len(u) - i /\ i + (k - j) \in 1 .. p - 1 /\ j + (k - j) = k
        BY <1>4, <2>4, <3>3
      <4>2. Wraps(u, i + (k - j))
        BY <2>2, <4>1 DEF LeadsTo
      <4> QED
        BY <2>5, <4>1, <4>2
    <3> QED
      BY <1>4, <2>4, <3>1, <3>2, <3>3
  <2>8. SameLayer(u[p], v[q])
    BY <2>6 DEF SameLayer, SamePath, SameQuery
  <2> HIDE DEF q
  <2> QED
    BY <2>2, <2>6, <2>7, <2>8 DEF SamePage, LeadsTo
<1> QED
  BY <1>5, <1>6

\* In small letters every wrapper is resolved.
LEMMA SmallResolves ==
  ASSUME NEW u \in Link, HeldInSmall(u), NEW i \in DOMAIN u
  PROVE  Wraps(u, i) <=> Resolves(u, i)
<1>1. i \in 1 .. Len(u) /\ Len(u) \in Nat
  BY DEF Link
<1>2. i < Len(u) => i \in 1 .. Len(u) - 1
  BY <1>1
<1> QED
  BY <1>2 DEF HeldInSmall, Wraps, Resolves

LEMMA SmallLeads ==
  ASSUME NEW u \in Link, HeldInSmall(u), NEW i \in DOMAIN u, LeadsTo(u, i)
  PROVE  i = Target(u)
<1>1. Target(u) \in DOMAIN u /\ Ends(u, Target(u))
  BY TargetEnds
<1>2. /\ i \in 1 .. Len(u) /\ Target(u) \in 1 .. Len(u) /\ Len(u) \in Nat
      /\ DOMAIN u = 1 .. Len(u)
  BY <1>1 DEF Link
<1>3. Ends(u, i)
  BY <1>2, SmallResolves DEF LeadsTo, Ends
<1>4. ~(i < Target(u)) /\ ~(Target(u) < i)
  BY <1>1, <1>2, <1>3 DEF Ends
<1> QED
  BY <1>2, <1>4

\* And then one page is one key.
LEMMA PageTellsKey ==
  ASSUME NEW u \in Link, NEW v \in Link, HeldInSmall(u), HeldInSmall(v), SamePage(u, v)
  PROVE  CanonicalizeUrl(u) = CanonicalizeUrl(v)
<1>1. PICK i \in DOMAIN u, j \in DOMAIN v :
        LeadsTo(u, i) /\ LeadsTo(v, j) /\ SameLayer(u[i], v[j]) /\ Inside(u, i) = Inside(v, j)
  BY DEF SamePage
<1>2. i = Target(u) /\ j = Target(v)
  BY <1>1, SmallLeads
<1> QED
  BY <1>1, <1>2, KeyIsLayer

-----------------------------------------------------------------------------
(* Types.                                                                  *)

\* The last place of a set of places.
LEMMA LastPlace ==
  ASSUME NEW b \in Nat, NEW S \in SUBSET (0 .. b), S # {}
  PROVE  LET last == CHOOSE n \in S : \A m \in S : m <= n
         IN  last \in S /\ \A m \in S : m <= last
BY Greatest

LEMMA PrefixType ==
  ASSUME NEW T, NEW s \in Seq(T), NEW n \in 0 .. Len(s)
  PROVE  /\ SubSeq(s, 1, n) \in Seq(T)
         /\ Len(SubSeq(s, 1, n)) = n
         /\ \A i \in 1 .. n : SubSeq(s, 1, n)[i] = s[i]
OBVIOUS

LEMMA StripType == ASSUME NEW title \in Seq(Char) PROVE Strip(title) \in Seq(Char)
<1> DEFINE word == {i \in DOMAIN title : title[i] \notin Space}
<1>1. CASE word = {}
  BY <1>1 DEF Strip
<1>2. CASE word # {}
  <2>1. word \in SUBSET (0 .. Len(title)) /\ Len(title) \in Nat /\ word \in SUBSET Nat
    OBVIOUS
  <2>2. \E n \in word : \A m \in word : m <= n
    BY <1>2, <2>1, Greatest
  <2>3. \E n \in word : \A m \in word : n <= m
    BY <1>2, <2>1, Least
  <2>4. Max(word) \in word
    BY <2>1, <2>2 DEF Max
  <2>5. Min(word) \in word
    BY <2>1, <2>3 DEF Min
  <2>6. Min(word) \in 1 .. Len(title) /\ Max(word) \in 1 .. Len(title)
    BY <2>4, <2>5
  <2> HIDE DEF word
  <2>7. SubSeq(title, Min(word), Max(word)) \in Seq(Char)
    BY <2>6
  <2> QED
    BY <1>2, <2>7 DEF Strip, word
<1> QED
  BY <1>1, <1>2

LEMMA StampType ==
  ASSUME NEW e \in Entry, NEW fetched \in Nat
  PROVE  LET stamp == NormalizeTimestamp(e, fetched)
         IN  /\ stamp.at \in Nat /\ stamp.inferred \in BOOLEAN
             /\ stamp.at <= fetched + FutureTolerance
             /\ stamp.inferred => stamp.at = fetched
<1>1. Dated(e) \in DateField
  BY EntryAssumption DEF Dated
<1>2. IsDate(Dated(e)) => Dated(e).at \in Nat
  BY <1>1 DEF IsDate, DateField
<1> QED
  BY <1>2, DateAssumption DEF NormalizeTimestamp

-----------------------------------------------------------------------------
(* The two bounds of a snippet.                                            *)

LEMMA BreaksFinite ==
  ASSUME NEW text \in Seq(Word)
  PROVE  IsFiniteSet(Breaks(text)) /\ Breaks(text) \subseteq 1 .. Len(text) - 1
<1>1. Len(text) - 1 \in Int /\ Breaks(text) \subseteq 1 .. Len(text) - 1
  BY DEF Breaks
<1>2. IsFiniteSet(1 .. Len(text) - 1)
  BY <1>1, FS_Interval
<1> QED
  BY <1>1, <1>2, FS_Subset

LEMMA BreaksOfPrefix ==
  ASSUME NEW text \in Seq(Word), NEW n \in 0 .. Len(text)
  PROVE  Breaks(SubSeq(text, 1, n)) = {i \in Breaks(text) : i < n}
<1> DEFINE t == SubSeq(text, 1, n)
<1>1. t \in Seq(Word) /\ Len(t) = n /\ \A i \in 1 .. n : t[i] = text[i]
  BY PrefixType
<1> HIDE DEF t
<1>2. Breaks(t) = {i \in 1 .. n - 1 : text[i].stop /\ text[i + 1].capital}
  BY <1>1 DEF Breaks
<1>3. {i \in Breaks(text) : i < n} = {i \in 1 .. n - 1 : text[i].stop /\ text[i + 1].capital}
  BY DEF Breaks
<1> QED
  BY <1>2, <1>3 DEF t

LEMMA FewerBreaks ==
  ASSUME NEW text \in Seq(Word), NEW n \in 0 .. Len(text)
  PROVE  Sentences(SubSeq(text, 1, n)) <= Sentences(text)
<1>1. {i \in Breaks(text) : i < n} \subseteq Breaks(text)
  OBVIOUS
<1>2. /\ Cardinality(Breaks(SubSeq(text, 1, n))) <= Cardinality(Breaks(text))
      /\ Cardinality(Breaks(SubSeq(text, 1, n))) \in Nat /\ Cardinality(Breaks(text)) \in Nat
  BY <1>1, BreaksOfPrefix, BreaksFinite, FS_Subset, FS_CardinalityType
<1> QED
  BY <1>2 DEF Sentences

LEMMA FirstSentencesBound ==
  ASSUME NEW text \in Seq(Word)
  PROVE  /\ FirstSentences(text) \in Seq(Word)
         /\ Sentences(FirstSentences(text)) <= MaxSentences
<1> DEFINE before(n) == {i \in Breaks(text) : i < n}
           kept == {n \in 0 .. Len(text) : Cardinality(before(n)) < MaxSentences}
           last == CHOOSE n \in kept : \A m \in kept : m <= n
<1>1. 0 \in kept
  <2>1. before(0) = {}
    BY BreaksFinite
  <2>2. Cardinality(before(0)) = 0
    BY <2>1, FS_EmptySet
  <2> HIDE DEF before
  <2> QED
    BY <2>2, SnippetAssumption
<1>2. last \in kept
  <2>1. kept \in SUBSET (0 .. Len(text)) /\ Len(text) \in Nat
    OBVIOUS
  <2> HIDE DEF kept
  <2> QED
    BY <1>1, <2>1, LastPlace
<1>3. FirstSentences(text) = SubSeq(text, 1, last)
  BY DEF FirstSentences
<1> HIDE DEF last
<1>4. last \in 0 .. Len(text) /\ Cardinality(before(last)) < MaxSentences
  BY <1>2
<1>5. Cardinality(before(last)) \in Nat
  <2>1. before(last) \subseteq Breaks(text)
    OBVIOUS
  <2> HIDE DEF before
  <2> QED
    BY <2>1, BreaksFinite, FS_Subset, FS_CardinalityType
<1>6. Sentences(SubSeq(text, 1, last)) = Cardinality(before(last)) + 1
  BY <1>4, BreaksOfPrefix DEF Sentences
<1> HIDE DEF before
<1> QED
  BY <1>3, <1>4, <1>5, <1>6, PrefixType, SnippetAssumption

\* The widths of the first n tokens.
Widths(f, text) ==
  f = [n \in 0 .. Len(text) |->
         IF n = 0 THEN 0
         ELSE f[n - 1] + text[n].width + (IF n = 1 THEN 0 ELSE 1)]

LEMMA WidthsExist ==
  ASSUME NEW text \in Seq(Word)
  PROVE  /\ \E f : Widths(f, text)
         /\ \A f : Widths(f, text) => f \in [0 .. Len(text) -> Nat]
<1> DEFINE d == Len(text)
           V == Nat
           step == [n \in 1 .. d |-> [v \in V |->
                      v + text[n].width + (IF n = 1 THEN 0 ELSE 1)]]
<1>1. d \in Nat /\ 0 \in V
  OBVIOUS
<1>2. ASSUME NEW n \in 1 .. d, NEW v \in V
      PROVE  (v + text[n].width + (IF n = 1 THEN 0 ELSE 1)) \in V
  <2>1. text[n] \in Word
    OBVIOUS
  <2> QED
    BY <2>1 DEF Word
<1> HIDE DEF d, V
<1>3. step \in [1 .. d -> [V -> V]]
  BY <1>2
<1>4. \A n \in 1 .. d, v \in V :
        step[n][v] = v + text[n].width + (IF n = 1 THEN 0 ELSE 1)
  OBVIOUS
<1> HIDE DEF step
<1>5. PICK f \in [0 .. d -> V] : Follows(f, d, 0, step)
  BY <1>1, <1>3, Recursion
<1>6. \A n \in 1 .. d : f[n - 1] \in V
  BY <1>1, <1>5
<1>7. \A n \in 0 .. d :
        f[n] = IF n = 0 THEN 0
               ELSE f[n - 1] + text[n].width + (IF n = 1 THEN 0 ELSE 1)
  <2>1. f[0] = 0
    BY <1>5 DEF Follows
  <2>2. ASSUME NEW n \in 1 .. d
        PROVE  f[n] = f[n - 1] + text[n].width + (IF n = 1 THEN 0 ELSE 1)
    BY <1>4, <1>5, <1>6 DEF Follows
  <2>3. ASSUME NEW n \in 0 .. d, n # 0 PROVE n \in 1 .. d
    BY <1>1, <2>3
  <2> QED
    BY <2>1, <2>2, <2>3, Zenon
<1>8. Widths(f, text)
  <2>1. f = [n \in 0 .. d |-> f[n]]
    BY <1>5
  <2> QED
    BY <1>7, <2>1 DEF Widths, d
<1>9. ASSUME NEW g, Widths(g, text) PROVE g \in [0 .. d -> V]
  <2>1. /\ g = [n \in 0 .. d |-> g[n]]
        /\ \A n \in 0 .. d : g[n] = IF n = 0 THEN 0
                                  ELSE g[n - 1] + text[n].width + (IF n = 1 THEN 0 ELSE 1)
    BY <1>9, Zenon DEF Widths, d
  <2>2. g[0] \in V
    <3>1. 0 \in 0 .. d
      BY <1>1
    <3>2. g[0] = 0
      BY <2>1, <3>1, Zenon
    <3> QED
      BY <1>1, <3>2
  <2>3. ASSUME NEW n \in 1 .. d, g[n - 1] \in V PROVE g[n] \in V
    <3>1. n \in 0 .. d /\ n # 0
      BY <1>1
    <3> QED
      BY <1>2, <2>1, <2>3, <3>1
  <2>4. \A n \in 0 .. d : g[n] \in V
    BY <1>1, <2>2, <2>3, Typed
  <2> QED
    BY <2>1, <2>4
<1> QED
  BY <1>8, <1>9 DEF d, V

LEMMA WidthSteps ==
  ASSUME NEW text \in Seq(Word), NEW n \in 0 .. Len(text)
  PROVE  /\ WidthTo(text, n) \in Nat
         /\ WidthTo(text, n) = IF n = 0 THEN 0
                               ELSE WidthTo(text, n - 1) + text[n].width + (IF n = 1 THEN 0 ELSE 1)
<1> DEFINE f == CHOOSE g : Widths(g, text)
<1>1. Widths(f, text)
  BY WidthsExist
<1>2. \A k : WidthTo(text, k) = f[k]
  BY DEF WidthTo, Widths
<1> HIDE DEF f
<1>3. f \in [0 .. Len(text) -> Nat]
  BY <1>1, WidthsExist
<1>4. f[n] = IF n = 0 THEN 0 ELSE f[n - 1] + text[n].width + (IF n = 1 THEN 0 ELSE 1)
  BY <1>1, Zenon DEF Widths
<1> QED
  BY <1>2, <1>3, <1>4

\* The width of the first tokens does not depend on what follows.
LEMMA WidthOfPrefix ==
  ASSUME NEW text \in Seq(Word), NEW n \in 0 .. Len(text)
  PROVE  Width(SubSeq(text, 1, n)) = WidthTo(text, n)
<1> DEFINE t == SubSeq(text, 1, n)
           C == {k \in 0 .. n : WidthTo(t, k) # WidthTo(text, k)}
<1>1. t \in Seq(Word) /\ Len(t) = n /\ \A i \in 1 .. n : t[i] = text[i]
  BY PrefixType
<1> HIDE DEF t
<1>2. ASSUME C # {} PROVE FALSE
  <2>1. PICK k \in C : \A m \in C : k <= m
    <3>1. C \in SUBSET Nat
      OBVIOUS
    <3> HIDE DEF C
    <3> QED
      BY <1>2, <3>1, Least
  <2>2. k \in 0 .. Len(text) /\ k \in 0 .. Len(t)
    BY <1>1
  <2>3. WidthTo(t, k) = IF k = 0 THEN 0
                        ELSE WidthTo(t, k - 1) + t[k].width + (IF k = 1 THEN 0 ELSE 1)
    BY <1>1, <2>2, WidthSteps
  <2>4. WidthTo(text, k) = IF k = 0 THEN 0
                           ELSE WidthTo(text, k - 1) + text[k].width + (IF k = 1 THEN 0 ELSE 1)
    BY <2>2, WidthSteps
  <2>5. k # 0 => k - 1 \in 0 .. n /\ k - 1 \notin C
    BY <2>1
  <2>6. k # 0 => WidthTo(t, k - 1) = WidthTo(text, k - 1) /\ t[k] = text[k]
    BY <1>1, <2>5
  <2> QED
    BY <2>1, <2>3, <2>4, <2>6
<1>3. n \in 0 .. n
  OBVIOUS
<1> QED
  BY <1>1, <1>2, <1>3 DEF Width, t

LEMMA TruncatedBound ==
  ASSUME NEW text \in Seq(Word), Sentences(text) <= MaxSentences
  PROVE  /\ Truncated(text) \in Seq(Word)
         /\ Sentences(Truncated(text)) <= MaxSentences
         /\ Width(Truncated(text)) <= MaxChars
<1> DEFINE fits == {n \in 1 .. Len(text) : WidthTo(text, n) < MaxChars}
           last == CHOOSE n \in fits : \A m \in fits : m <= n
<1>1. Len(text) \in Nat /\ Width(text) \in Nat
  BY WidthSteps DEF Width
<1>2. CASE Width(text) <= MaxChars
  BY <1>2 DEF Truncated
<1>3. CASE ~(Width(text) <= MaxChars) /\ fits = {}
  <2> DEFINE token == [text[1] EXCEPT !.width = MaxChars]
  <2>1. Truncated(text) = <<token>>
    BY <1>3 DEF Truncated
  <2>2. Len(text) # 0
    <3>1. 0 \in 0 .. Len(text)
      BY <1>1
    <3>2. WidthTo(text, 0) = 0
      BY <3>1, WidthSteps
    <3> QED
      BY <1>3, <3>2, SnippetAssumption DEF Width
  <2>3. token \in Word /\ token.width = MaxChars
    <3>1. text[1] \in Word
      BY <1>1, <2>2
    <3> QED
      BY <3>1, SnippetAssumption DEF Word
  <2> HIDE DEF token
  <2>4. <<token>> \in Seq(Word) /\ Len(<<token>>) = 1 /\ <<token>>[1] = token
    BY <2>3
  <2>5. Sentences(<<token>>) = 1
    <3>1. Breaks(<<token>>) = {}
      BY <2>4 DEF Breaks
    <3>2. Cardinality(Breaks(<<token>>)) = 0
      BY <3>1, FS_EmptySet
    <3> QED
      BY <3>2 DEF Sentences
  <2>6. Width(<<token>>) = MaxChars
    <3>1. 0 \in 0 .. Len(<<token>>) /\ 1 \in 0 .. Len(<<token>>)
      BY <2>4
    <3>2. \A k \in 0 .. Len(<<token>>) :
            WidthTo(<<token>>, k) = IF k = 0 THEN 0
              ELSE WidthTo(<<token>>, k - 1) + <<token>>[k].width + (IF k = 1 THEN 0 ELSE 1)
      BY <2>4, WidthSteps
    <3>3. WidthTo(<<token>>, 0) = 0
      BY <3>1, <3>2
    <3>4. WidthTo(<<token>>, 1) = WidthTo(<<token>>, 0) + <<token>>[1].width + 0
      BY <3>1, <3>2
    <3> QED
      BY <2>3, <2>4, <3>3, <3>4, SnippetAssumption DEF Width
  <2> QED
    BY <2>1, <2>4, <2>5, <2>6, SnippetAssumption
<1>4. CASE ~(Width(text) <= MaxChars) /\ fits # {}
  <2>1. last \in fits
    <3>1. fits \in SUBSET (0 .. Len(text))
      OBVIOUS
    <3> HIDE DEF fits
    <3> QED
      BY <1>1, <1>4, <3>1, LastPlace
  <2>2. Truncated(text) = SubSeq(text, 1, last)
    BY <1>4 DEF Truncated
  <2> HIDE DEF last
  <2>3. last \in 0 .. Len(text) /\ WidthTo(text, last) < MaxChars
    BY <2>1
  <2>4. Width(SubSeq(text, 1, last)) = WidthTo(text, last) /\ WidthTo(text, last) \in Nat
    BY <2>3, WidthOfPrefix, WidthSteps
  <2>5. Sentences(SubSeq(text, 1, last)) <= MaxSentences
    <3>1. Sentences(SubSeq(text, 1, last)) <= Sentences(text)
      BY <2>3, FewerBreaks
    <3>2. Sentences(SubSeq(text, 1, last)) \in Nat /\ Sentences(text) \in Nat
      <4>1. SubSeq(text, 1, last) \in Seq(Word)
        BY <2>3, PrefixType
      <4>2. \A t \in Seq(Word) : Cardinality(Breaks(t)) \in Nat
        BY BreaksFinite, FS_CardinalityType
      <4>3. \A t \in Seq(Word) : Sentences(t) \in Nat
        BY <4>2 DEF Sentences
      <4> HIDE DEF last
      <4> QED
        BY <4>1, <4>3, Zenon
    <3> QED
      BY <3>1, <3>2, SnippetAssumption
  <2> QED
    BY <2>2, <2>3, <2>4, <2>5, PrefixType, SnippetAssumption
<1> QED
  BY <1>2, <1>3, <1>4

\* What derive_snippet makes of any description.
Bounded(snippet) == Sentences(snippet) <= MaxSentences /\ Width(snippet) <= MaxChars

LEMMA SnippetOK ==
  ASSUME NEW raw \in Html
  PROVE  DeriveSnippet(raw) \in Html \cap Seq(Word) /\ Bounded(DeriveSnippet(raw))
<1>1. StripTags[raw] \in Seq(Word)
  BY ParserAssumption
<1>2. /\ FirstSentences(StripTags[raw]) \in Seq(Word)
      /\ Sentences(FirstSentences(StripTags[raw])) <= MaxSentences
  BY <1>1, FirstSentencesBound
<1>3. DeriveSnippet(raw) \in Html
  BY SnippetsAreRead
<1> QED
  BY <1>2, <1>3, TruncatedBound DEF DeriveSnippet, Bounded

-----------------------------------------------------------------------------
(* What titles say, and what becomes of it.                                *)

\* The letters among the first n characters, and where words begin.
Words(f, title) ==
  f = [n \in 0 .. Len(title) |->
         IF n = 0 THEN <<>>
         ELSE IF title[n] \in Space THEN f[n - 1]
         ELSE Append(f[n - 1], <<Lower[title[n]], f[n - 1] # <<>> /\ title[n - 1] \in Space>>)]

LEMMA WordsExist ==
  ASSUME NEW title \in Seq(Char)
  PROVE  /\ \E f : Words(f, title)
         /\ \A f : Words(f, title) => f \in [0 .. Len(title) -> Seq(Char \X BOOLEAN)]
<1> DEFINE d == Len(title)
           V == Seq(Char \X BOOLEAN)
           step == [n \in 1 .. d |-> [v \in V |->
                      IF title[n] \in Space THEN v
                      ELSE Append(v, <<Lower[title[n]], v # <<>> /\ title[n - 1] \in Space>>)]]
<1>1. d \in Nat /\ <<>> \in V
  OBVIOUS
<1>2. ASSUME NEW n \in 1 .. d, NEW v \in V
      PROVE  (IF title[n] \in Space THEN v
              ELSE Append(v, <<Lower[title[n]], v # <<>> /\ title[n - 1] \in Space>>)) \in V
  <2>1. title[n] \in Char
    OBVIOUS
  <2>2. Lower[title[n]] \in Char
    BY <2>1, CharAssumption
  <2>3. (v # <<>> /\ title[n - 1] \in Space) \in BOOLEAN
    OBVIOUS
  <2>4. <<Lower[title[n]], v # <<>> /\ title[n - 1] \in Space>> \in Char \X BOOLEAN
    BY <2>2, <2>3, Zenon
  <2> QED
    BY <2>4
<1> HIDE DEF d, V
<1>3. step \in [1 .. d -> [V -> V]]
  BY <1>2
<1>4. \A n \in 1 .. d, v \in V :
        step[n][v] = IF title[n] \in Space THEN v
                     ELSE Append(v, <<Lower[title[n]], v # <<>> /\ title[n - 1] \in Space>>)
  OBVIOUS
<1> HIDE DEF step
<1>5. PICK f \in [0 .. d -> V] : Follows(f, d, <<>>, step)
  BY <1>1, <1>3, Recursion
<1>6. \A n \in 1 .. d : f[n - 1] \in V
  BY <1>1, <1>5
<1>7. \A n \in 0 .. d :
        f[n] = IF n = 0 THEN <<>>
               ELSE IF title[n] \in Space THEN f[n - 1]
               ELSE Append(f[n - 1], <<Lower[title[n]], f[n - 1] # <<>> /\ title[n - 1] \in Space>>)
  <2>1. f[0] = <<>>
    BY <1>5 DEF Follows
  <2>2. ASSUME NEW n \in 1 .. d
        PROVE  f[n] = IF title[n] \in Space THEN f[n - 1]
                      ELSE Append(f[n - 1], <<Lower[title[n]], f[n - 1] # <<>> /\ title[n - 1] \in Space>>)
    BY <1>4, <1>5, <1>6 DEF Follows
  <2>3. ASSUME NEW n \in 0 .. d, n # 0 PROVE n \in 1 .. d
    BY <1>1, <2>3
  <2> QED
    BY <2>1, <2>2, <2>3, Zenon
<1>8. Words(f, title)
  <2>1. f = [n \in 0 .. d |-> f[n]]
    BY <1>5
  <2> QED
    BY <1>7, <2>1 DEF Words, d
<1>9. ASSUME NEW g, Words(g, title) PROVE g \in [0 .. d -> V]
  <2>1. /\ g = [n \in 0 .. d |-> g[n]]
        /\ \A n \in 0 .. d : g[n] = IF n = 0 THEN <<>>
                                  ELSE IF title[n] \in Space THEN g[n - 1]
                                  ELSE Append(g[n - 1], <<Lower[title[n]], g[n - 1] # <<>> /\ title[n - 1] \in Space>>)
    BY <1>9, Zenon DEF Words, d
  <2>2. g[0] \in V
    <3>1. 0 \in 0 .. d
      BY <1>1
    <3>2. g[0] = <<>>
      BY <2>1, <3>1, Zenon
    <3> QED
      BY <1>1, <3>2
  <2>3. ASSUME NEW n \in 1 .. d, g[n - 1] \in V PROVE g[n] \in V
    <3>1. n \in 0 .. d /\ n # 0
      BY <1>1
    <3> QED
      BY <1>2, <2>1, <2>3, <3>1
  <2>4. \A n \in 0 .. d : g[n] \in V
    BY <1>1, <2>2, <2>3, Typed
  <2> QED
    BY <2>1, <2>4
<1> QED
  BY <1>8, <1>9 DEF d, V

\* The text that the first n characters become.
Keeps(f, title) ==
  f = [n \in 0 .. Len(title) |->
         IF n = 0 THEN <<>>
         ELSE IF title[n] \in Space THEN f[n - 1]
         ELSE IF f[n - 1] # <<>> /\ title[n - 1] \in Space
           THEN f[n - 1] \o <<Blank, Lower[title[n]]>>
         ELSE Append(f[n - 1], Lower[title[n]])]

LEMMA KeepsExist ==
  ASSUME NEW title \in Seq(Char)
  PROVE  /\ \E f : Keeps(f, title)
         /\ \A f : Keeps(f, title) => f \in [0 .. Len(title) -> Seq(Char)]
<1> DEFINE d == Len(title)
           V == Seq(Char)
           step == [n \in 1 .. d |-> [v \in V |->
                      IF title[n] \in Space THEN v
                      ELSE IF v # <<>> /\ title[n - 1] \in Space
                        THEN v \o <<Blank, Lower[title[n]]>>
                      ELSE Append(v, Lower[title[n]])]]
<1>1. d \in Nat /\ <<>> \in V
  OBVIOUS
<1>2. ASSUME NEW n \in 1 .. d, NEW v \in V
      PROVE  (IF title[n] \in Space THEN v
              ELSE IF v # <<>> /\ title[n - 1] \in Space
                THEN v \o <<Blank, Lower[title[n]]>>
              ELSE Append(v, Lower[title[n]])) \in V
  <2>1. Lower[title[n]] \in Char /\ Blank \in Char
    BY CharAssumption
  <2> QED
    BY <2>1
<1> HIDE DEF d, V
<1>3. step \in [1 .. d -> [V -> V]]
  BY <1>2
<1>4. \A n \in 1 .. d, v \in V :
        step[n][v] = IF title[n] \in Space THEN v
                     ELSE IF v # <<>> /\ title[n - 1] \in Space
                       THEN v \o <<Blank, Lower[title[n]]>>
                     ELSE Append(v, Lower[title[n]])
  OBVIOUS
<1> HIDE DEF step
<1>5. PICK f \in [0 .. d -> V] : Follows(f, d, <<>>, step)
  BY <1>1, <1>3, Recursion
<1>6. \A n \in 1 .. d : f[n - 1] \in V
  BY <1>1, <1>5
<1>7. \A n \in 0 .. d :
        f[n] = IF n = 0 THEN <<>>
               ELSE IF title[n] \in Space THEN f[n - 1]
               ELSE IF f[n - 1] # <<>> /\ title[n - 1] \in Space
                 THEN f[n - 1] \o <<Blank, Lower[title[n]]>>
               ELSE Append(f[n - 1], Lower[title[n]])
  <2>1. f[0] = <<>>
    BY <1>5 DEF Follows
  <2>2. ASSUME NEW n \in 1 .. d
        PROVE  f[n] = IF title[n] \in Space THEN f[n - 1]
                      ELSE IF f[n - 1] # <<>> /\ title[n - 1] \in Space
                        THEN f[n - 1] \o <<Blank, Lower[title[n]]>>
                      ELSE Append(f[n - 1], Lower[title[n]])
    BY <1>4, <1>5, <1>6 DEF Follows
  <2>3. ASSUME NEW n \in 0 .. d, n # 0 PROVE n \in 1 .. d
    BY <1>1, <2>3
  <2> QED
    BY <2>1, <2>2, <2>3, Zenon
<1>8. Keeps(f, title)
  <2>1. f = [n \in 0 .. d |-> f[n]]
    BY <1>5
  <2> QED
    BY <1>7, <2>1 DEF Keeps, d
<1>9. ASSUME NEW g, Keeps(g, title) PROVE g \in [0 .. d -> V]
  <2>1. /\ g = [n \in 0 .. d |-> g[n]]
        /\ \A n \in 0 .. d : g[n] = IF n = 0 THEN <<>>
                                  ELSE IF title[n] \in Space THEN g[n - 1]
                                  ELSE IF g[n - 1] # <<>> /\ title[n - 1] \in Space
                                    THEN g[n - 1] \o <<Blank, Lower[title[n]]>>
                                  ELSE Append(g[n - 1], Lower[title[n]])
    BY <1>9, Zenon DEF Keeps, d
  <2>2. g[0] \in V
    <3>1. 0 \in 0 .. d
      BY <1>1
    <3>2. g[0] = <<>>
      BY <2>1, <3>1, Zenon
    <3> QED
      BY <1>1, <3>2
  <2>3. ASSUME NEW n \in 1 .. d, g[n - 1] \in V PROVE g[n] \in V
    <3>1. n \in 0 .. d /\ n # 0
      BY <1>1
    <3> QED
      BY <1>2, <2>1, <2>3, <3>1
  <2>4. \A n \in 0 .. d : g[n] \in V
    BY <1>1, <2>2, <2>3, Typed
  <2> QED
    BY <2>1, <2>4
<1> QED
  BY <1>8, <1>9 DEF d, V

\* The steps of one title: how what it says and what it becomes grow.
Steps(title, w, k) ==
  /\ w[0] = <<>> /\ k[0] = <<>>
  /\ \A n \in 0 .. Len(title) : w[n] \in Seq(Char \X BOOLEAN) /\ k[n] \in Seq(Char)
  /\ \A n \in 1 .. Len(title) :
       /\ title[n] \in Space => w[n] = w[n - 1] /\ k[n] = k[n - 1]
       /\ title[n] \notin Space =>
            /\ Lower[title[n]] \in Char
            /\ w[n] = Append(w[n - 1], <<Lower[title[n]], w[n - 1] # <<>> /\ title[n - 1] \in Space>>)
            /\ k[n] = IF k[n - 1] # <<>> /\ title[n - 1] \in Space
                        THEN k[n - 1] \o <<Blank, Lower[title[n]]>>
                        ELSE Append(k[n - 1], Lower[title[n]])

LEMMA TitleSteps ==
  ASSUME NEW title \in Seq(Char)
  PROVE  \E w, k : Steps(title, w, k) /\ w[Len(title)] = Wording(title)
                                      /\ k[Len(title)] = NormalizeTitle(title)
<1> DEFINE w == CHOOSE f : Words(f, title)
           k == CHOOSE f : Keeps(f, title)
<1>1. Words(w, title) /\ Keeps(k, title)
  BY WordsExist, KeepsExist
<1>2. w[Len(title)] = Wording(title) /\ k[Len(title)] = NormalizeTitle(title)
  BY DEF Wording, Words, NormalizeTitle, Keeps
<1> HIDE DEF w, k
<1>3. w \in [0 .. Len(title) -> Seq(Char \X BOOLEAN)] /\ k \in [0 .. Len(title) -> Seq(Char)]
  BY <1>1, WordsExist, KeepsExist
<1>4. \A n \in 0 .. Len(title) :
        w[n] = IF n = 0 THEN <<>>
               ELSE IF title[n] \in Space THEN w[n - 1]
               ELSE Append(w[n - 1], <<Lower[title[n]], w[n - 1] # <<>> /\ title[n - 1] \in Space>>)
  BY <1>1, Zenon DEF Words
<1>5. \A n \in 0 .. Len(title) :
        k[n] = IF n = 0 THEN <<>>
               ELSE IF title[n] \in Space THEN k[n - 1]
               ELSE IF k[n - 1] # <<>> /\ title[n - 1] \in Space
                 THEN k[n - 1] \o <<Blank, Lower[title[n]]>>
               ELSE Append(k[n - 1], Lower[title[n]])
  BY <1>1, Zenon DEF Keeps
<1>6. 0 \in 0 .. Len(title) /\ \A n \in 1 .. Len(title) : n \in 0 .. Len(title) /\ n # 0
  OBVIOUS
<1>7. \A n \in 1 .. Len(title) : Lower[title[n]] \in Char
  BY CharAssumption
<1>8. w[0] = <<>> /\ k[0] = <<>>
  BY <1>4, <1>5, <1>6, Zenon
<1>9. ASSUME NEW n \in 1 .. Len(title)
      PROVE  /\ title[n] \in Space => w[n] = w[n - 1] /\ k[n] = k[n - 1]
             /\ title[n] \notin Space =>
                  /\ w[n] = Append(w[n - 1], <<Lower[title[n]], w[n - 1] # <<>> /\ title[n - 1] \in Space>>)
                  /\ k[n] = IF k[n - 1] # <<>> /\ title[n - 1] \in Space
                              THEN k[n - 1] \o <<Blank, Lower[title[n]]>>
                              ELSE Append(k[n - 1], Lower[title[n]])
  BY <1>4, <1>5, <1>6, Zenon
<1>10. Steps(title, w, k)
  BY <1>3, <1>7, <1>8, <1>9, Zenon DEF Steps
<1> QED
  BY <1>2, <1>10

LEMMA NeverEmpty == ASSUME NEW T, NEW s \in Seq(T), NEW x PROVE Append(s, x) # <<>>
<1>1. Len(Append(s, x)) = Len(s) + 1 /\ Len(s) \in Nat
  OBVIOUS
<1> QED
  BY <1>1

LEMMA AppendDecides ==
  ASSUME NEW T, NEW s \in Seq(T), NEW t \in Seq(T), NEW x \in T, NEW y \in T
  PROVE  Append(s, x) = Append(t, y) => s = t /\ x = y
<1>1. /\ Len(Append(s, x)) = Len(s) + 1 /\ Append(s, x)[Len(s) + 1] = x
      /\ Len(Append(t, y)) = Len(t) + 1 /\ Append(t, y)[Len(t) + 1] = y
  OBVIOUS
<1>2. \A i \in 1 .. Len(s) : Append(s, x)[i] = s[i]
  OBVIOUS
<1>3. \A i \in 1 .. Len(t) : Append(t, y)[i] = t[i]
  OBVIOUS
<1>4. ASSUME Append(s, x) = Append(t, y) PROVE s = t /\ x = y
  <2>1. Len(s) = Len(t) /\ x = y
    BY <1>1, <1>4
  <2> QED
    BY <1>2, <1>3, <1>4, <2>1
<1> QED
  BY <1>4

\* A title that says nothing so far has become nothing so far.
LEMMA BothEmpty ==
  ASSUME NEW title \in Seq(Char), NEW w, NEW k, Steps(title, w, k)
  PROVE  \A n \in 0 .. Len(title) : w[n] = <<>> <=> k[n] = <<>>
<1> DEFINE C == {n \in 0 .. Len(title) : w[n] = <<>> <=> k[n] = <<>>}
<1>1. 0 \in C
  BY DEF Steps
<1>2. ASSUME NEW n \in 1 .. Len(title), n - 1 \in C PROVE n \in C
  <2>1. CASE title[n] \in Space
    <3>1. w[n] = w[n - 1] /\ k[n] = k[n - 1]
      BY <2>1 DEF Steps
    <3> QED
      BY <1>2, <3>1
  <2>2. CASE title[n] \notin Space
    <3>1. n - 1 \in 0 .. Len(title)
      OBVIOUS
    <3>2. w[n - 1] \in Seq(Char \X BOOLEAN) /\ k[n - 1] \in Seq(Char)
      BY <3>1 DEF Steps
    <3>3. Lower[title[n]] \in Char /\ Blank \in Char
      BY <2>2, CharAssumption DEF Steps
    <3>4. w[n] # <<>>
      <4>1. w[n] = Append(w[n - 1], <<Lower[title[n]], w[n - 1] # <<>> /\ title[n - 1] \in Space>>)
        BY <2>2 DEF Steps
      <4>2. <<Lower[title[n]], w[n - 1] # <<>> /\ title[n - 1] \in Space>> \in Char \X BOOLEAN
        BY <3>3, Zenon
      <4> QED
        BY <3>2, <4>1, <4>2, NeverEmpty
    <3>5. k[n] # <<>>
      <4>1. k[n - 1] \o <<Blank, Lower[title[n]]>> # <<>>
        BY <3>2, <3>3
      <4>2. Append(k[n - 1], Lower[title[n]]) # <<>>
        BY <3>2, <3>3, NeverEmpty
      <4> QED
        BY <2>2, <4>1, <4>2, Zenon DEF Steps
    <3> QED
      BY <3>4, <3>5
  <2> QED
    BY <2>1, <2>2
<1> HIDE DEF C
<1>3. Len(title) \in Nat
  OBVIOUS
<1>4. 0 .. Len(title) \subseteq C
  BY <1>1, <1>2, <1>3, Induct
<1> QED
  BY <1>4 DEF C

\* Two titles that say the same so far have become the same so far.
LEMMA SaidAlike ==
  ASSUME NEW t \in Seq(Char), NEW u \in Seq(Char), NEW wt, NEW kt, NEW wu, NEW ku,
         Steps(t, wt, kt), Steps(u, wu, ku)
  PROVE  wt[Len(t)] = wu[Len(u)] => kt[Len(t)] = ku[Len(u)]
<1> DEFINE Alike(n, m) == wt[n] = wu[m] => kt[n] = ku[m]
           d == Len(t) + Len(u)
           C == {s \in 0 .. d : \A n \in 0 .. Len(t), m \in 0 .. Len(u) : n + m <= s => Alike(n, m)}
<1>1. 0 \in C
  <2>1. Alike(0, 0)
    BY DEF Steps
  <2> HIDE DEF Alike
  <2> QED
    BY <2>1
<1>2. ASSUME NEW s \in 1 .. d, s - 1 \in C PROVE s \in C
  <2>1. ASSUME NEW n \in 0 .. Len(t), NEW m \in 0 .. Len(u), n + m = s PROVE Alike(n, m)
    <3>0. \A i \in 0 .. Len(t), j \in 0 .. Len(u) : i + j <= s - 1 => Alike(i, j)
      BY <1>2
    <3> HIDE DEF Alike, C
    <3>1. CASE n # 0 /\ t[n] \in Space
      <4>1. n \in 1 .. Len(t) /\ n - 1 \in 0 .. Len(t) /\ n - 1 + m <= s - 1
        BY <2>1, <3>1
      <4>2. wt[n] = wt[n - 1] /\ kt[n] = kt[n - 1]
        BY <3>1, <4>1 DEF Steps
      <4>3. Alike(n - 1, m)
        BY <3>0, <4>1
      <4> QED
        BY <4>2, <4>3 DEF Alike
    <3>2. CASE m # 0 /\ u[m] \in Space
      <4>1. m \in 1 .. Len(u) /\ m - 1 \in 0 .. Len(u) /\ n + (m - 1) <= s - 1
        BY <2>1, <3>2
      <4>2. wu[m] = wu[m - 1] /\ ku[m] = ku[m - 1]
        BY <3>2, <4>1 DEF Steps
      <4>3. Alike(n, m - 1)
        BY <3>0, <4>1
      <4> QED
        BY <4>2, <4>3 DEF Alike
    <3>3. CASE n = 0 \/ m = 0
      <4>1. wt[n] = <<>> <=> kt[n] = <<>>
        BY BothEmpty
      <4>2. wu[m] = <<>> <=> ku[m] = <<>>
        BY BothEmpty
      <4>3. wt[n] = <<>> \/ wu[m] = <<>>
        BY <3>3 DEF Steps
      <4> QED
        BY <4>1, <4>2, <4>3 DEF Alike
    <3>4. CASE n # 0 /\ t[n] \notin Space /\ m # 0 /\ u[m] \notin Space
      <4> SUFFICES ASSUME wt[n] = wu[m] PROVE kt[n] = ku[m]
        BY DEF Alike
      <4> DEFINE x == <<Lower[t[n]], wt[n - 1] # <<>> /\ t[n - 1] \in Space>>
                 y == <<Lower[u[m]], wu[m - 1] # <<>> /\ u[m - 1] \in Space>>
      <4>1. n \in 1 .. Len(t) /\ m \in 1 .. Len(u)
        BY <3>4
      <4>2. n - 1 \in 0 .. Len(t) /\ m - 1 \in 0 .. Len(u) /\ (n - 1) + (m - 1) <= s - 1
        BY <2>1, <4>1
      <4>3. wt[n] = Append(wt[n - 1], x) /\ wu[m] = Append(wu[m - 1], y)
        BY <3>4, <4>1 DEF Steps
      <4>4. wt[n - 1] \in Seq(Char \X BOOLEAN) /\ wu[m - 1] \in Seq(Char \X BOOLEAN)
        BY <4>2 DEF Steps
      <4>5. x \in Char \X BOOLEAN /\ y \in Char \X BOOLEAN
        <5>1. Lower[t[n]] \in Char /\ Lower[u[m]] \in Char
          BY <3>4, <4>1 DEF Steps
        <5> QED
          BY <5>1, Zenon
      <4>6. wt[n - 1] = wu[m - 1] /\ x = y
        <5> DEFINE T == Char \X BOOLEAN
        <5>1. wt[n - 1] \in Seq(T) /\ wu[m - 1] \in Seq(T) /\ x \in T /\ y \in T
          BY <4>4, <4>5
        <5>2. Append(wt[n - 1], x) = Append(wu[m - 1], y)
          BY <4>3
        <5> HIDE DEF T
        <5>3. \A a, b \in Seq(T), p, q \in T : Append(a, p) = Append(b, q) => a = b /\ p = q
          BY AppendDecides
        <5> HIDE DEF x, y
        <5>4. \A b \in Seq(T), p, q \in T : Append(wt[n - 1], p) = Append(b, q) => wt[n - 1] = b /\ p = q
          BY <5>1, <5>3
        <5> QED
          BY <5>1, <5>2, <5>4
      <4>7. Lower[t[n]] = Lower[u[m]]
        <5>1. x[1] = Lower[t[n]] /\ y[1] = Lower[u[m]]
          OBVIOUS
        <5> HIDE DEF x, y
        <5> QED
          BY <4>6, <5>1
      <4>8. (wt[n - 1] # <<>> /\ t[n - 1] \in Space) <=> (wu[m - 1] # <<>> /\ u[m - 1] \in Space)
        <5>1. x[2] = (wt[n - 1] # <<>> /\ t[n - 1] \in Space)
          BY Zenon
        <5>2. y[2] = (wu[m - 1] # <<>> /\ u[m - 1] \in Space)
          BY Zenon
        <5> HIDE DEF x, y
        <5> QED
          BY <4>6, <5>1, <5>2, Zenon
      <4>9. kt[n - 1] = ku[m - 1]
        BY <3>0, <4>2, <4>6 DEF Alike
      <4>10. (kt[n - 1] # <<>> /\ t[n - 1] \in Space) <=> (ku[m - 1] # <<>> /\ u[m - 1] \in Space)
        <5>1. wt[n - 1] = <<>> <=> kt[n - 1] = <<>>
          BY <4>2, BothEmpty
        <5>2. wu[m - 1] = <<>> <=> ku[m - 1] = <<>>
          BY <4>2, BothEmpty
        <5> HIDE DEF x, y
        <5> QED
          BY <4>8, <5>1, <5>2, Zenon
      <4>11. kt[n] = IF kt[n - 1] # <<>> /\ t[n - 1] \in Space
                       THEN kt[n - 1] \o <<Blank, Lower[t[n]]>>
                       ELSE Append(kt[n - 1], Lower[t[n]])
        BY <3>4, <4>1, Zenon DEF Steps
      <4>12. ku[m] = IF ku[m - 1] # <<>> /\ u[m - 1] \in Space
                       THEN ku[m - 1] \o <<Blank, Lower[u[m]]>>
                       ELSE Append(ku[m - 1], Lower[u[m]])
        BY <3>4, <4>1, Zenon DEF Steps
      <4> HIDE DEF x, y
      <4> QED
        BY <4>7, <4>9, <4>10, <4>11, <4>12, Zenon
    <3> QED
      BY <3>1, <3>2, <3>3, <3>4
  <2> HIDE DEF Alike
  <2> QED
    BY <1>2, <2>1
<1> HIDE DEF C
<1>3. Len(t) \in Nat /\ Len(u) \in Nat /\ d \in Nat /\ d \in 0 .. d
  OBVIOUS
<1>4. d \in C
  BY <1>1, <1>2, <1>3, Induct
<1>5. Alike(Len(t), Len(u))
  <2> HIDE DEF Alike
  <2> QED
    BY <1>3, <1>4 DEF C
<1> QED
  BY <1>5

LEMMA WordingIsTitle ==
  ASSUME NEW t \in Seq(Char), NEW u \in Seq(Char), Wording(t) = Wording(u)
  PROVE  NormalizeTitle(t) = NormalizeTitle(u)
<1>1. PICK wt, kt : Steps(t, wt, kt) /\ wt[Len(t)] = Wording(t) /\ kt[Len(t)] = NormalizeTitle(t)
  BY TitleSteps
<1>2. PICK wu, ku : Steps(u, wu, ku) /\ wu[Len(u)] = Wording(u) /\ ku[Len(u)] = NormalizeTitle(u)
  BY TitleSteps
<1> QED
  BY <1>1, <1>2, SaidAlike

-----------------------------------------------------------------------------
(* The bits of a fingerprint.                                              *)

\* The powers of two.
Powers(f) ==
  f = [n \in 0 .. Bits |->
         IF n = 0 THEN 1
         ELSE 2 * f[n - 1]]

LEMMA PowersExist ==
  /\ \E f : Powers(f)
  /\ \A f : Powers(f) => f \in [0 .. Bits -> Nat]
<1> DEFINE d == Bits
           V == Nat
           step == [n \in 1 .. d |-> [v \in V |->
                      2 * v]]
<1>1. d \in Nat /\ 1 \in V
  BY BitsAssumption
<1>2. ASSUME NEW n \in 1 .. d, NEW v \in V
      PROVE  (2 * v) \in V
  OBVIOUS
<1> HIDE DEF d, V
<1>3. step \in [1 .. d -> [V -> V]]
  BY <1>2
<1>4. \A n \in 1 .. d, v \in V :
        step[n][v] = 2 * v
  OBVIOUS
<1> HIDE DEF step
<1>5. PICK f \in [0 .. d -> V] : Follows(f, d, 1, step)
  BY <1>1, <1>3, Recursion
<1>6. \A n \in 1 .. d : f[n - 1] \in V
  BY <1>1, <1>5
<1>7. \A n \in 0 .. d :
        f[n] = IF n = 0 THEN 1
               ELSE 2 * f[n - 1]
  <2>1. f[0] = 1
    BY <1>5 DEF Follows
  <2>2. ASSUME NEW n \in 1 .. d
        PROVE  f[n] = 2 * f[n - 1]
    BY <1>4, <1>5, <1>6 DEF Follows
  <2>3. ASSUME NEW n \in 0 .. d, n # 0 PROVE n \in 1 .. d
    BY <1>1, <2>3
  <2> QED
    BY <2>1, <2>2, <2>3, Zenon
<1>8. Powers(f)
  <2>1. f = [n \in 0 .. d |-> f[n]]
    BY <1>5
  <2> QED
    BY <1>7, <2>1 DEF Powers, d
<1>9. ASSUME NEW g, Powers(g) PROVE g \in [0 .. d -> V]
  <2>1. /\ g = [n \in 0 .. d |-> g[n]]
        /\ \A n \in 0 .. d : g[n] = IF n = 0 THEN 1
                                  ELSE 2 * g[n - 1]
    BY <1>9, Zenon DEF Powers, d
  <2>2. g[0] \in V
    <3>1. 0 \in 0 .. d
      BY <1>1
    <3>2. g[0] = 1
      BY <2>1, <3>1, Zenon
    <3> QED
      BY <1>1, <3>2
  <2>3. ASSUME NEW n \in 1 .. d, g[n - 1] \in V PROVE g[n] \in V
    <3>1. n \in 0 .. d /\ n # 0
      BY <1>1
    <3> QED
      BY <1>2, <2>1, <2>3, <3>1
  <2>4. \A n \in 0 .. d : g[n] \in V
    BY <1>1, <2>2, <2>3, Typed
  <2> QED
    BY <2>1, <2>4
<1> QED
  BY <1>8, <1>9 DEF d, V

LEMMA PowerSteps ==
  /\ Power \in [0 .. Bits -> Nat]
  /\ Power[0] = 1
  /\ \A n \in 1 .. Bits : Power[n] = 2 * Power[n - 1]
<1>1. Powers(Power)
  BY PowersExist DEF Power, Powers
<1>2. Power \in [0 .. Bits -> Nat]
  BY <1>1, PowersExist
<1>3. \A n \in 0 .. Bits : Power[n] = IF n = 0 THEN 1 ELSE 2 * Power[n - 1]
  BY <1>1, Zenon DEF Powers
<1> QED
  BY <1>2, <1>3, BitsAssumption

\* What the bits below the n-th add up to.
Sums(f, bits) ==
  f = [n \in 0 .. Bits |->
         IF n = 0 THEN 0
         ELSE IF n - 1 \in bits THEN f[n - 1] + Power[n - 1]
         ELSE f[n - 1]]

LEMMA SumsExist ==
  ASSUME NEW bits \in SUBSET Nat
  PROVE  /\ \E f : Sums(f, bits)
         /\ \A f : Sums(f, bits) => f \in [0 .. Bits -> Nat]
<1> DEFINE d == Bits
           V == Nat
           step == [n \in 1 .. d |-> [v \in V |->
                      IF n - 1 \in bits THEN v + Power[n - 1]
                      ELSE v]]
<1>1. d \in Nat /\ 0 \in V
  BY BitsAssumption
<1>2. ASSUME NEW n \in 1 .. d, NEW v \in V
      PROVE  (IF n - 1 \in bits THEN v + Power[n - 1]
              ELSE v) \in V
  <2>1. n - 1 \in 0 .. Bits
    BY BitsAssumption
  <2>2. Power[n - 1] \in Nat
    BY <2>1, PowerSteps
  <2> QED
    BY <2>2
<1> HIDE DEF d, V
<1>3. step \in [1 .. d -> [V -> V]]
  BY <1>2
<1>4. \A n \in 1 .. d, v \in V :
        step[n][v] = IF n - 1 \in bits THEN v + Power[n - 1]
                     ELSE v
  OBVIOUS
<1> HIDE DEF step
<1>5. PICK f \in [0 .. d -> V] : Follows(f, d, 0, step)
  BY <1>1, <1>3, Recursion
<1>6. \A n \in 1 .. d : f[n - 1] \in V
  BY <1>1, <1>5
<1>7. \A n \in 0 .. d :
        f[n] = IF n = 0 THEN 0
               ELSE IF n - 1 \in bits THEN f[n - 1] + Power[n - 1]
               ELSE f[n - 1]
  <2>1. f[0] = 0
    BY <1>5 DEF Follows
  <2>2. ASSUME NEW n \in 1 .. d
        PROVE  f[n] = IF n - 1 \in bits THEN f[n - 1] + Power[n - 1]
                      ELSE f[n - 1]
    BY <1>4, <1>5, <1>6 DEF Follows
  <2>3. ASSUME NEW n \in 0 .. d, n # 0 PROVE n \in 1 .. d
    BY <1>1, <2>3
  <2> QED
    BY <2>1, <2>2, <2>3, Zenon
<1>8. Sums(f, bits)
  <2>1. f = [n \in 0 .. d |-> f[n]]
    BY <1>5
  <2> QED
    BY <1>7, <2>1 DEF Sums, d
<1>9. ASSUME NEW g, Sums(g, bits) PROVE g \in [0 .. d -> V]
  <2>1. /\ g = [n \in 0 .. d |-> g[n]]
        /\ \A n \in 0 .. d : g[n] = IF n = 0 THEN 0
                                  ELSE IF n - 1 \in bits THEN g[n - 1] + Power[n - 1]
                                  ELSE g[n - 1]
    BY <1>9, Zenon DEF Sums, d
  <2>2. g[0] \in V
    <3>1. 0 \in 0 .. d
      BY <1>1
    <3>2. g[0] = 0
      BY <2>1, <3>1, Zenon
    <3> QED
      BY <1>1, <3>2
  <2>3. ASSUME NEW n \in 1 .. d, g[n - 1] \in V PROVE g[n] \in V
    <3>1. n \in 0 .. d /\ n # 0
      BY <1>1
    <3> QED
      BY <1>2, <2>1, <2>3, <3>1
  <2>4. \A n \in 0 .. d : g[n] \in V
    BY <1>1, <2>2, <2>3, Typed
  <2> QED
    BY <2>1, <2>4
<1> QED
  BY <1>8, <1>9 DEF d, V

LEMMA Division ==
  ASSUME NEW p \in Nat \ {0}, NEW h \in Int, NEW r \in 0 .. p - 1
  PROVE  (r + p * h) \div p = h
BY Z3

LEMMA PowerPositive == \A n \in 0 .. Bits : Power[n] \in Nat \ {0}
<1> DEFINE C == {n \in 0 .. Bits : Power[n] # 0}
<1>1. 0 \in C
  BY PowerSteps, BitsAssumption
<1>2. ASSUME NEW n \in 1 .. Bits, n - 1 \in C PROVE n \in C
  <2>1. Power[n] = 2 * Power[n - 1] /\ n - 1 \in 0 .. Bits
    BY PowerSteps, BitsAssumption
  <2>2. Power[n - 1] \in Nat
    BY <2>1, PowerSteps
  <2> QED
    BY <1>2, <2>1, <2>2
<1> HIDE DEF C
<1>3. 0 .. Bits \subseteq C
  BY <1>1, <1>2, BitsAssumption, Induct
<1> QED
  BY <1>3, PowerSteps DEF C

\* Every lower power divides the highest, an even number of times.
LEMMA PowerDivides ==
  ASSUME NEW n \in 0 .. Bits - 1
  PROVE  \E k \in Nat : Power[Bits] = Power[n] * (2 * k)
<1> DEFINE C == {m \in 0 .. Bits - 1 : \E k \in Nat : Power[Bits] = Power[Bits - 1 - m] * (2 * k)}
<1>1. 0 \in C
  <2>1. Bits \in 1 .. Bits /\ 0 \in 0 .. Bits - 1 /\ Bits - 1 \in 0 .. Bits
    BY BitsAssumption
  <2>2. Power[Bits] = 2 * Power[Bits - 1] /\ Power[Bits - 1] \in Nat
    BY <2>1, PowerSteps
  <2>3. Power[Bits] = Power[Bits - 1] * (2 * 1)
    BY <2>2
  <2>4. Bits - 1 - 0 = Bits - 1
    BY BitsAssumption
  <2> QED
    BY <2>1, <2>3, <2>4
<1>2. ASSUME NEW m \in 1 .. Bits - 1, m - 1 \in C PROVE m \in C
  <2>1. PICK k \in Nat : Power[Bits] = Power[Bits - 1 - (m - 1)] * (2 * k)
    BY <1>2
  <2>2. /\ Bits - 1 - (m - 1) = Bits - m
        /\ Bits - m \in 1 .. Bits
        /\ Bits - 1 - m = Bits - m - 1
        /\ Bits - m - 1 \in 0 .. Bits
        /\ m \in 0 .. Bits - 1
    BY BitsAssumption
  <2>3. Power[Bits - m] = 2 * Power[Bits - m - 1] /\ Power[Bits - m - 1] \in Nat
    BY <2>2, PowerSteps
  <2>4. Power[Bits] = Power[Bits - 1 - m] * (2 * (2 * k))
    BY <2>1, <2>2, <2>3
  <2>5. 2 * k \in Nat
    OBVIOUS
  <2> QED
    BY <2>2, <2>4, <2>5
<1> HIDE DEF C
<1>3. Bits - 1 \in Nat
  BY BitsAssumption
<1>4. 0 .. Bits - 1 \subseteq C
  BY <1>1, <1>2, <1>3, Induct
<1>5. Bits - 1 - n \in C /\ Bits - 1 - (Bits - 1 - n) = n
  BY <1>3, <1>4
<1> QED
  BY <1>5 DEF C

\* The bits of a fingerprint as the code sums them up.
LEMMA SumSteps ==
  ASSUME NEW bits \in SUBSET Nat
  PROVE  \E f \in [0 .. Bits -> Nat] :
           /\ Unsigned(bits) = f[Bits]
           /\ f[0] = 0
           /\ \A n \in 1 .. Bits : f[n] = f[n - 1] + (IF n - 1 \in bits THEN Power[n - 1] ELSE 0)
<1> DEFINE f == CHOOSE g : Sums(g, bits)
<1>1. Sums(f, bits)
  BY SumsExist
<1>2. Unsigned(bits) = f[Bits]
  BY DEF Unsigned, Sums
<1> HIDE DEF f
<1>3. f \in [0 .. Bits -> Nat]
  BY <1>1, SumsExist
<1>4. \A n \in 0 .. Bits : f[n] = IF n = 0 THEN 0
                                  ELSE IF n - 1 \in bits THEN f[n - 1] + Power[n - 1]
                                  ELSE f[n - 1]
  BY <1>1, Zenon DEF Sums
<1>5. f[0] = 0
  BY <1>4, BitsAssumption
<1>6. ASSUME NEW n \in 1 .. Bits
      PROVE  f[n] = f[n - 1] + (IF n - 1 \in bits THEN Power[n - 1] ELSE 0)
  <2>1. n \in 0 .. Bits /\ n # 0 /\ n - 1 \in 0 .. Bits
    BY BitsAssumption
  <2>2. f[n] = IF n - 1 \in bits THEN f[n - 1] + Power[n - 1] ELSE f[n - 1]
    BY <1>4, <2>1
  <2>3. f[n - 1] \in Nat /\ Power[n - 1] \in Nat
    BY <1>3, <2>1, PowerSteps
  <2> QED
    BY <2>2, <2>3
<1> QED
  BY <1>2, <1>3, <1>5, <1>6

\* What is below a power does not reach it, and the rest is a multiple of it
\* whose last digit is the bit.
LEMMA Digits ==
  ASSUME NEW bits \in SUBSET Nat, NEW n \in 0 .. Bits
  PROVE  \E r \in 0 .. Power[n] - 1, h \in Nat :
           /\ Unsigned(bits) = r + Power[n] * h
           /\ n < Bits => h % 2 = IF n \in bits THEN 1 ELSE 0
           /\ n = Bits => h = 0
<1>1. PICK f \in [0 .. Bits -> Nat] :
        /\ Unsigned(bits) = f[Bits]
        /\ f[0] = 0
        /\ \A i \in 1 .. Bits : f[i] = f[i - 1] + (IF i - 1 \in bits THEN Power[i - 1] ELSE 0)
  BY SumSteps
<1> DEFINE d == Bits
           digit(i) == IF i \in bits THEN 1 ELSE 0
           Below == {i \in 0 .. d : f[i] \in 0 .. Power[i] - 1}
           Above == {m \in 0 .. d : \E h \in Nat :
                       /\ f[Bits] = f[Bits - m] + Power[Bits - m] * h
                       /\ Bits - m < Bits => h % 2 = digit(Bits - m)
                       /\ Bits - m = Bits => h = 0}
<1>2. d \in Nat /\ d = Bits
  BY BitsAssumption
<1>3. \A i \in 1 .. d : /\ i \in 0 .. d /\ i - 1 \in 0 .. d
                        /\ f[i] \in Nat /\ f[i - 1] \in Nat
                        /\ Power[i] = 2 * Power[i - 1]
                        /\ Power[i - 1] \in Nat \ {0}
                        /\ f[i] = f[i - 1] + Power[i - 1] * digit(i - 1)
  <2> TAKE i \in 1 .. d
  <2>1. i \in 0 .. Bits /\ i - 1 \in 0 .. Bits
    BY <1>2
  <2>2. f[i] \in Nat /\ f[i - 1] \in Nat
    BY <2>1
  <2>3. Power[i] = 2 * Power[i - 1] /\ Power[i - 1] \in Nat \ {0}
    BY <2>1, PowerSteps, PowerPositive
  <2>4. f[i] = f[i - 1] + (IF i - 1 \in bits THEN Power[i - 1] ELSE 0)
    BY <1>1
  <2>5. f[i] = f[i - 1] + Power[i - 1] * digit(i - 1)
    BY <2>2, <2>3, <2>4
  <2> QED
    BY <2>1, <2>2, <2>3, <2>5
<1>4. \A i : digit(i) \in {0, 1}
  OBVIOUS
<1> HIDE DEF d, digit
<1>5. 0 .. d \subseteq Below
  <2>1. 0 \in Below
    BY <1>1, <1>2, PowerSteps
  <2>2. ASSUME NEW i \in 1 .. d, i - 1 \in Below PROVE i \in Below
    <3>1. f[i - 1] \in 0 .. Power[i - 1] - 1
      BY <2>2
    <3>2. Power[i - 1] * digit(i - 1) \in 0 .. Power[i - 1]
      BY <1>3, <1>4
    <3>3. f[i] \in 0 .. Power[i] - 1
      BY <1>3, <3>1, <3>2
    <3> QED
      BY <1>3, <3>3
  <2> HIDE DEF Below
  <2> QED
    BY <1>2, <2>1, <2>2, Induct
<1>6. 0 .. d \subseteq Above
  <2>1. 0 \in Above
    <3>1. f[Bits] = f[Bits - 0] + Power[Bits - 0] * 0
      <4>1. f[Bits] \in Nat /\ Power[Bits] \in Nat /\ Bits - 0 = Bits
        BY <1>2, PowerSteps
      <4> QED
        BY <4>1
    <3>2. 0 \in 0 .. d /\ Bits - 0 = Bits /\ ~(Bits - 0 < Bits)
      BY <1>2
    <3> QED
      BY <3>1, <3>2
  <2>2. ASSUME NEW m \in 1 .. d, m - 1 \in Above PROVE m \in Above
    <3>1. PICK h \in Nat : f[Bits] = f[Bits - (m - 1)] + Power[Bits - (m - 1)] * h
      BY <2>2
    <3> DEFINE i == Bits - (m - 1)
    <3>2. i \in 1 .. d /\ Bits - m = i - 1 /\ m \in 0 .. d /\ Bits - m < Bits
      BY <1>2
    <3>3. f[Bits] = f[i] + Power[i] * h
      BY <3>1
    <3> HIDE DEF i
    <3>4. f[i] = f[i - 1] + Power[i - 1] * digit(i - 1) /\ Power[i] = 2 * Power[i - 1]
          /\ f[i - 1] \in Nat /\ Power[i - 1] \in Nat
      BY <1>3, <3>2
    <3> DEFINE q == 2 * h + digit(i - 1)
    <3>5. f[Bits] = f[i - 1] + Power[i - 1] * q
      BY <1>4, <3>3, <3>4
    <3>6. q \in Nat /\ q % 2 = digit(i - 1)
      BY <1>4
    <3> HIDE DEF q
    <3> QED
      BY <3>2, <3>5, <3>6
  <2> HIDE DEF Above
  <2> QED
    BY <1>2, <2>1, <2>2, Induct
<1>7. Bits - n \in 0 .. d /\ Bits - (Bits - n) = n
  BY <1>2
<1>8. PICK h \in Nat : /\ f[Bits] = f[n] + Power[n] * h
                       /\ n < Bits => h % 2 = digit(n)
                       /\ n = Bits => h = 0
  BY <1>6, <1>7
<1>9. f[n] \in 0 .. Power[n] - 1
  BY <1>2, <1>5
<1> QED
  BY <1>1, <1>8, <1>9 DEF digit

\* Storing a fingerprint with a sign moves none of its bits.
LEMMA SignKeepsBits ==
  ASSUME NEW bits \in SUBSET Nat, NEW n \in 0 .. Bits - 1
  PROVE  Bit(ToSigned(Unsigned(bits)), n) = IF n \in bits THEN 1 ELSE 0
<1>1. n \in 0 .. Bits /\ n < Bits
  BY BitsAssumption
<1>2. PICK r \in 0 .. Power[n] - 1, h \in Nat :
        Unsigned(bits) = r + Power[n] * h /\ h % 2 = IF n \in bits THEN 1 ELSE 0
  BY <1>1, Digits
<1>3. PICK k \in Nat : Power[Bits] = Power[n] * (2 * k)
  BY PowerDivides
<1>4. Power[n] \in Nat \ {0}
  BY <1>1, PowerPositive
<1>5. \A g \in Int : (r + Power[n] * g) \div Power[n] = g
  BY <1>4, Division
<1>6. CASE ToSigned(Unsigned(bits)) = Unsigned(bits)
  BY <1>2, <1>5, <1>6 DEF Bit
<1>7. CASE ToSigned(Unsigned(bits)) = Unsigned(bits) - Power[Bits]
  <2>1. h - 2 * k \in Int /\ (h - 2 * k) % 2 = h % 2
    OBVIOUS
  <2>2. ToSigned(Unsigned(bits)) = r + Power[n] * (h - 2 * k)
    BY <1>2, <1>3, <1>4, <1>7
  <2> QED
    BY <1>2, <1>5, <2>1, <2>2 DEF Bit
<1> QED
  BY <1>6, <1>7 DEF ToSigned

LEMMA SignedRange ==
  ASSUME NEW bits \in SUBSET Nat
  PROVE  ToSigned(Unsigned(bits)) \in -Power[Bits - 1] .. Power[Bits - 1] - 1
<1>1. Bits \in 1 .. Bits /\ Bits \in 0 .. Bits /\ Bits - 1 \in 0 .. Bits
  BY BitsAssumption
<1>2. Power[Bits] = 2 * Power[Bits - 1] /\ Power[Bits - 1] \in Nat
  BY <1>1, PowerSteps
<1>3. PICK r \in 0 .. Power[Bits] - 1, h \in Nat : Unsigned(bits) = r + Power[Bits] * h /\ h = 0
  BY <1>1, Digits
<1>4. Unsigned(bits) \in 0 .. Power[Bits] - 1
  BY <1>2, <1>3
<1> QED
  BY <1>2, <1>4 DEF ToSigned

\* The bits that more trigrams have than not.
Elected(title) == {i \in 0 .. Bits - 1 : Votes(Trigrams(NormalizeTitle(title)), i) > 0}

LEMMA DistanceIsDisputed ==
  ASSUME NEW t, NEW u
  PROVE  HammingDistance(ComputeSimhash(t), ComputeSimhash(u)) = Cardinality(Disputed(t, u))
<1>1. \A title : ComputeSimhash(title) = ToSigned(Unsigned(Elected(title)))
  BY DEF ComputeSimhash, Elected
<1>2. Elected(t) \in SUBSET Nat /\ Elected(u) \in SUBSET Nat
  BY BitsAssumption DEF Elected
<1>3. Disputed(t, u) = {i \in 0 .. Bits - 1 : (i \in Elected(t)) # (i \in Elected(u))}
  BY DEF Disputed, Elected
<1>4. ASSUME NEW i \in 0 .. Bits - 1
      PROVE  Bit(ComputeSimhash(t), i) # Bit(ComputeSimhash(u), i) <=> (i \in Elected(t)) # (i \in Elected(u))
  <2>1. Bit(ComputeSimhash(t), i) = IF i \in Elected(t) THEN 1 ELSE 0
    BY <1>1, <1>2, SignKeepsBits
  <2>2. Bit(ComputeSimhash(u), i) = IF i \in Elected(u) THEN 1 ELSE 0
    BY <1>1, <1>2, SignKeepsBits
  <2> QED
    BY <2>1, <2>2
<1>5. {i \in 0 .. Bits - 1 : Bit(ComputeSimhash(t), i) # Bit(ComputeSimhash(u), i)} = Disputed(t, u)
  BY <1>3, <1>4
<1> QED
  BY <1>5 DEF HammingDistance

\* None of it depends on which titles the table holds.
LEMMA SignsVanish == SignTransparent
<1>1. \A t : ComputeSimhash(t) \in -Power[Bits - 1] .. Power[Bits - 1] - 1
  <2> TAKE t
  <2>1. Elected(t) \in SUBSET Nat
    BY BitsAssumption DEF Elected
  <2>2. ComputeSimhash(t) = ToSigned(Unsigned(Elected(t)))
    BY DEF ComputeSimhash, Elected
  <2> QED
    BY <2>1, <2>2, SignedRange
<1> QED
  BY <1>1, DistanceIsDisputed DEF SignTransparent

\* The distance of two fingerprints is a metric on their bits: what Enrich
\* takes for granted of Near, symmetry, holds, and a vector that was copied
\* twice is at most twice the threshold away from the title it is of.
THEOREM DistanceIsMetric ==
  ASSUME NEW a, NEW b, NEW c
  PROVE  /\ HammingDistance(a, b) \in 0 .. Bits
         /\ HammingDistance(a, b) = 0 <=> \A i \in 0 .. Bits - 1 : Bit(a, i) = Bit(b, i)
         /\ HammingDistance(a, b) = HammingDistance(b, a)
         /\ HammingDistance(a, c) <= HammingDistance(a, b) + HammingDistance(b, c)
<1> DEFINE All == 0 .. Bits - 1
           Differ(x, y) == {i \in All : Bit(x, i) # Bit(y, i)}
<1>1. Bits \in Nat /\ IsFiniteSet(All) /\ Cardinality(All) = Bits
  <2>1. Bits \in Nat /\ Bits - 1 \in Int /\ 0 \in Int /\ Bits > 0
    BY BitsAssumption
  <2> QED
    BY <2>1, FS_Interval
<1>2. ASSUME NEW x, NEW y
      PROVE  IsFiniteSet(Differ(x, y)) /\ Cardinality(Differ(x, y)) \in 0 .. Bits
  <2>1. Differ(x, y) \subseteq All
    OBVIOUS
  <2> HIDE DEF Differ, All
  <2>2. IsFiniteSet(Differ(x, y)) /\ Cardinality(Differ(x, y)) <= Bits
    BY <1>1, <2>1, FS_Subset
  <2> QED
    BY <1>1, <2>2, FS_CardinalityType
<1>3. \A x, y : HammingDistance(x, y) = Cardinality(Differ(x, y))
  BY DEF HammingDistance
<1>4. Differ(a, b) = Differ(b, a)
  OBVIOUS
<1>5. Differ(a, b) = {} <=> \A i \in All : Bit(a, i) = Bit(b, i)
  OBVIOUS
<1>6. Cardinality(Differ(a, c)) <= Cardinality(Differ(a, b)) + Cardinality(Differ(b, c))
  <2>1. Differ(a, c) \subseteq Differ(a, b) \cup Differ(b, c)
    OBVIOUS
  <2> DEFINE S == Differ(a, b)
             T == Differ(b, c)
  <2>2. IsFiniteSet(S) /\ IsFiniteSet(T)
    BY <1>2
  <2> HIDE DEF Differ, S, T
  <2>3. /\ IsFiniteSet(S \cup T) /\ IsFiniteSet(S \cap T)
        /\ Cardinality(S \cup T) = Cardinality(S) + Cardinality(T) - Cardinality(S \cap T)
    BY <2>2, FS_Union, FS_Intersection
  <2>4. /\ Cardinality(S) \in Nat /\ Cardinality(T) \in Nat /\ Cardinality(S \cap T) \in Nat
        /\ Cardinality(S \cup T) \in Nat
    BY <2>2, <2>3, FS_CardinalityType
  <2>5. Cardinality(Differ(a, c)) <= Cardinality(S \cup T)
    BY <2>1, <2>3, FS_Subset DEF S, T
  <2>6. Cardinality(Differ(a, c)) \in Nat
    BY <1>1, <1>2
  <2> QED
    BY <2>3, <2>4, <2>5, <2>6 DEF S, T
<1>7. Cardinality(Differ(a, b)) = 0 <=> Differ(a, b) = {}
  <2> HIDE DEF Differ
  <2> QED
    BY <1>2, FS_EmptySet
<1> HIDE DEF Differ
<1> QED
  BY <1>2, <1>3, <1>4, <1>5, <1>6, <1>7

-----------------------------------------------------------------------------
(* The table.  A row's key is its link's, its date is plausible, and its   *)
(* snippet bounded if this version wrote it; every entry seen has its key  *)
(* in the table.                                                           *)

Sound(url, row) ==
  /\ row \in Row
  /\ url = CanonicalizeUrl(row.link)
  /\ row.published <= row.fetched + FutureTolerance
  /\ row.inferred => row.published = row.fetched
  /\ ~row.legacy \/ migrated => Bounded(row.snippet)

IInv ==
  /\ \A url \in DOMAIN article : Sound(url, article[url])
  /\ seen \subseteq Link
  /\ \A link \in seen : CanonicalizeUrl(link) \in DOMAIN article
  /\ migrated \in BOOLEAN
  /\ now \in Start .. Start + MaxTime

LEMMA InvInit == Init => IInv
<1> SUFFICES ASSUME Init PROVE IInv
  OBVIOUS
<1>1. article \in Legacy /\ seen = {} /\ migrated = FALSE /\ now = Start
  BY DEF Init
<1>2. ASSUME NEW url \in DOMAIN article PROVE Sound(url, article[url])
  BY <1>1, LegacyAssumption DEF Sound
<1>3. now \in Start .. Start + MaxTime
  BY <1>1, DateAssumption
<1> QED
  BY <1>1, <1>2, <1>3 DEF IInv

NewRow(e) ==
  [link |-> e.link, title |-> Strip(e.title), published |-> NormalizeTimestamp(e, now).at,
   inferred |-> NormalizeTimestamp(e, now).inferred, fetched |-> now,
   snippet |-> DeriveSnippet(e.summary), legacy |-> FALSE]

LEMMA NewRowSound ==
  ASSUME IInv, NEW e \in Entry
  PROVE  Sound(CanonicalizeUrl(e.link), NewRow(e))
<1>1. now \in Nat
  BY DateAssumption DEF IInv
<1>2. e.link \in Link /\ e.title \in Seq(Char) /\ e.summary \in Html
  BY EntryAssumption
<1>3. LET stamp == NormalizeTimestamp(e, now)
      IN  /\ stamp.at \in Nat /\ stamp.inferred \in BOOLEAN
          /\ stamp.at <= now + FutureTolerance
          /\ stamp.inferred => stamp.at = now
  BY <1>1, StampType
<1>4. Strip(e.title) \in Seq(Char)
  BY <1>2, StripType
<1>5. DeriveSnippet(e.summary) \in Html \cap Seq(Word) /\ Bounded(DeriveSnippet(e.summary))
  BY <1>2, SnippetOK
<1>6. NewRow(e) \in Row
  BY <1>1, <1>2, <1>3, <1>4, <1>5 DEF NewRow, Row
<1> QED
  BY <1>3, <1>5, <1>6 DEF Sound, NewRow

LEMMA InvNext == IInv /\ [Next]_vars => IInv'
<1> SUFFICES ASSUME IInv, [Next]_vars PROVE IInv'
  OBVIOUS
<1>1. ASSUME NEW e \in Entry, ProcessEntry(e) PROVE IInv'
  <2> DEFINE url == CanonicalizeUrl(e.link)
  <2>1. article' = [k \in DOMAIN article \cup {url} |->
                      IF k \in DOMAIN article THEN article[k] ELSE NewRow(e)]
    BY <1>1 DEF ProcessEntry, NewRow
  <2>2. UNCHANGED <<migrated, now>> /\ seen' = seen \cup {e.link}
    BY <1>1 DEF ProcessEntry
  <2>3. Sound(url, NewRow(e))
    BY NewRowSound
  <2>4. \A k \in DOMAIN article' : Sound(k, article'[k])
    BY <2>1, <2>3 DEF IInv
  <2>5. \A k \in DOMAIN article' : Sound(k, article[k])' 
    BY <2>2, <2>4 DEF Sound
  <2>6. e.link \in Link
    BY EntryAssumption
  <2> QED
    BY <2>1, <2>2, <2>5, <2>6 DEF IInv
<1>2. CASE MigrateSnippets
  <2>1. ASSUME NEW k \in DOMAIN article PROVE Sound(k, article[k])'
    <3> DEFINE row == article[k]
    <3>1. row \in Row /\ Sound(k, row)
      BY DEF IInv, Sound
    <3>2. row.snippet \in Html
      BY <3>1 DEF Row
    <3>3. article'[k] = [row EXCEPT !.snippet = DeriveSnippet(row.snippet)]
      BY <1>2 DEF MigrateSnippets
    <3>4. DeriveSnippet(row.snippet) \in Html \cap Seq(Word) /\ Bounded(DeriveSnippet(row.snippet))
      BY <3>2, SnippetOK
    <3> HIDE DEF row
    <3>5. article'[k] \in Row /\ article'[k].snippet = DeriveSnippet(row.snippet)
      BY <3>1, <3>3, <3>4 DEF Row
    <3>6. /\ article'[k].link = row.link /\ article'[k].published = row.published
          /\ article'[k].fetched = row.fetched /\ article'[k].inferred = row.inferred
      BY <3>1, <3>3 DEF Row
    <3> QED
      BY <3>1, <3>4, <3>5, <3>6 DEF Sound
  <2>2. DOMAIN article' = DOMAIN article
    BY <1>2 DEF MigrateSnippets
  <2> QED
    BY <1>2, <2>1, <2>2 DEF MigrateSnippets, IInv
<1>3. CASE Tick
  BY <1>3, DateAssumption DEF Tick, IInv, Sound
<1>4. CASE UNCHANGED vars
  BY <1>4 DEF vars, IInv, Sound
<1> QED
  BY <1>1, <1>2, <1>3, <1>4 DEF Next

LEMMA Invariance == Spec => []IInv
BY InvInit, InvNext, PTL DEF Spec

\* Rows, entries and the hour keep their types.
THEOREM TypeCorrect == Spec => []TypeOK
<1>1. IInv => TypeOK
  BY DEF IInv, Sound, TypeOK
<1> QED
  BY <1>1, Invariance, PTL

\* Two links have one key only if they lead to one page, so every page seen has
\* a row of its own; and they have one key if they lead to one page, unless a
\* wrapper's parameter or the scheme it holds is in capitals, so such a page has
\* one row.
THEOREM KeysArePages == Spec => []RowsArePages
<1> SUFFICES ASSUME IInv PROVE RowsArePages
  BY Invariance, PTL
<1>1. ASSUME NEW a \in DOMAIN article
      PROVE  article[a].link \in Link /\ a = CanonicalizeUrl(article[a].link)
  BY DEF IInv, Sound, Row
<1>2. OneRowPerPage
  BY <1>1, PageTellsKey DEF OneRowPerPage
<1>3. ASSUME NEW link \in seen
      PROVE  \E url \in DOMAIN article : SamePage(link, article[url].link)
  <2>1. link \in Link /\ CanonicalizeUrl(link) \in DOMAIN article
    BY DEF IInv
  <2> QED
    BY <1>1, <2>1, KeyTellsPage
<1> QED
  BY <1>2, <1>3 DEF RowsArePages, NoPageLost

\* Whatever a feed writes, the snippet a row keeps is within both bounds and
\* its date within the tolerance.
THEOREM RowsAreBounded == Spec => []RowBounded
<1>1. IInv => RowBounded
  BY DEF IInv, Sound, Bounded, RowBounded, SnippetBounded, PublishedPlausible
<1> QED
  BY <1>1, Invariance, PTL

\* No later fetch and no migration moves a row's date.
THEOREM DatesStay == Spec => DatesSettled
<1> DEFINE Kept == \A url \in DOMAIN article :
                     /\ url \in DOMAIN article'
                     /\ article'[url].published = article[url].published
                     /\ article'[url].inferred = article[url].inferred
<1>1. ASSUME IInv, [Next]_vars, NEW url \in DOMAIN article
      PROVE  /\ url \in DOMAIN article'
             /\ article'[url].published = article[url].published
             /\ article'[url].inferred = article[url].inferred
  <2>1. ASSUME NEW e \in Entry, ProcessEntry(e)
        PROVE  url \in DOMAIN article' /\ article'[url] = article[url]
    BY <2>1 DEF ProcessEntry
  <2>2. CASE MigrateSnippets
    <3>1. article[url] \in Row
      BY <1>1 DEF IInv, Sound
    <3> QED
      BY <2>2, <3>1 DEF MigrateSnippets, Row
  <2> QED
    BY <1>1, <2>1, <2>2 DEF Next, Tick, vars
<1>2. IInv /\ [Next]_vars => [Kept]_vars
  BY <1>1
<1> QED
  BY <1>2, Invariance, PTL DEF Spec, DatesSettled

\* Titles that say the same have one fingerprint, and the sign that SQLite
\* needs changes no distance: for any hash of trigrams, any characters and any
\* number of bits.
THEOREM HeadlinesAreMatched == Spec => []HeadlinesMatch
<1> SUFFICES ASSUME IInv PROVE HeadlinesMatch
  BY Invariance, PTL
<1>1. Headlines \subseteq Seq(Char)
  BY DEF Headlines, IInv, Sound, Row
<1>2. WordingDecides
  <2> SUFFICES ASSUME NEW t \in Headlines, NEW u \in Headlines, Wording(t) = Wording(u)
               PROVE  ComputeSimhash(t) = ComputeSimhash(u)
    BY DEF WordingDecides
  <2>1. NormalizeTitle(t) = NormalizeTitle(u)
    BY <1>1, WordingIsTitle
  <2> QED
    BY <2>1 DEF ComputeSimhash
<1>3. SignTransparent
  BY SignsVanish
<1> QED
  BY <1>2, <1>3 DEF HeadlinesMatch
=============================================================================
