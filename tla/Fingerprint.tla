---------------------------- MODULE Fingerprint ----------------------------
(***************************************************************************)
(* The fingerprint of a title and its distance, of pipeline/simhash.py.    *)
(* A title is a sequence of characters; blake2b is any function of         *)
(* trigrams to words of Bits bits.                                         *)
(***************************************************************************)
EXTENDS Integers, Sequences, FiniteSets, FiniteSetsExt, SequencesExt

CONSTANTS
    Char,           \* the characters of titles
    Space,          \* those that \s matches
    Blank,          \* the one that runs of them become
    Lower,          \* str.lower, character by character
    TrigramHash(_), \* _trigram_hash
    Bits            \* _HASH_BITS

ASSUME CharAssumption == Blank \in Space /\ Space \subseteq Char /\ Lower \in [Char -> Char]
ASSUME BitsAssumption == Bits \in Nat \ {0}

\* _normalize_title: in small letters, each run of whitespace a blank, and
\* none at the ends.
NormalizeTitle(title) ==
    LET kept[n \in 0 .. Len(title)] ==
            IF n = 0 THEN <<>>
            ELSE IF title[n] \in Space THEN kept[n - 1]
            ELSE IF kept[n - 1] # <<>> /\ title[n - 1] \in Space
                THEN kept[n - 1] \o <<Blank, Lower[title[n]]>>
            ELSE Append(kept[n - 1], Lower[title[n]])
    IN  kept[Len(title)]

Trigrams(text) ==
    IF text = <<>> THEN <<>>
    ELSE IF Len(text) < 3 THEN <<text>>
    ELSE [i \in 1 .. Len(text) - 2 |-> SubSeq(text, i, i + 2)]

Power[i \in 0 .. Bits] == IF i = 0 THEN 1 ELSE 2 * Power[i - 1]

\* x >> i & 1, in two's complement of however many bits.
Bit(x, i) == (x \div Power[i]) % 2

\* result |= 1 << bit, from the lowest bit to the highest.
Unsigned(bits) ==
    LET result[i \in 0 .. Bits] ==
            IF i = 0 THEN 0
            ELSE IF i - 1 \in bits THEN result[i - 1] + Power[i - 1]
            ELSE result[i - 1]
    IN  result[Bits]

\* weights[bit]: the trigrams that have the bit less those that have not.
Votes(trigrams, i) ==
    2 * Cardinality({k \in DOMAIN trigrams : Bit(TrigramHash(trigrams[k]), i) = 1}) - Len(trigrams)

\* _to_signed_64
ToSigned(x) == IF x >= Power[Bits - 1] THEN x - Power[Bits] ELSE x

\* A tie clears the bit, and no title at all has fingerprint 0.
ComputeSimhash(title) ==
    LET trigrams == Trigrams(NormalizeTitle(title)) IN
    ToSigned(Unsigned({i \in 0 .. Bits - 1 : Votes(trigrams, i) > 0}))

\* The number of ones in a ^ b without the mask: Python writes a negative
\* number as a sign and its magnitude.
HammingUnmasked(a, b) ==
    LET differing == Unsigned({i \in 0 .. Bits - 1 : Bit(a, i) # Bit(b, i)})
        xor == IF (a < 0) = (b < 0) THEN differing ELSE Power[Bits] - differing
    IN  Cardinality({i \in 0 .. Bits : Bit(xor, i) = 1})

\* hamming_distance: the bits of the exclusive or, masked.
HammingDistance(a, b) == Cardinality({i \in 0 .. Bits - 1 : Bit(a, i) # Bit(b, i)})

-----------------------------------------------------------------------------
\* What a title says: its letters in one case, and where words begin.
Wording(t) ==
    LET said[n \in 0 .. Len(t)] ==
            IF n = 0 THEN <<>>
            ELSE IF t[n] \in Space THEN said[n - 1]
            ELSE Append(said[n - 1], <<Lower[t[n]], said[n - 1] # <<>> /\ t[n - 1] \in Space>>)
    IN  said[Len(t)]

\* The bits in which two fingerprints differ, from the votes themselves.
Disputed(t, u) ==
    LET vote(title, i) == Votes(Trigrams(NormalizeTitle(title)), i) > 0
    IN  {i \in 0 .. Bits - 1 : vote(t, i) # vote(u, i)}
=============================================================================
