----------------------------- MODULE DeepSearch -----------------------------
(***************************************************************************)
(* The text search of the store (internal/canonical/search.go,             *)
(* sqlite_search.go): what is said in a conversation is cut into           *)
(* overlapping chunks, the index answers a query with the chunks in which  *)
(* all of its terms begin a word, and the conversations of those chunks    *)
(* are ranked and given previews.                                          *)
(*                                                                         *)
(* A character is a number; those below 1 are space.  Case and accents,    *)
(* which the index folds, punctuation inside a term and the shortening of  *)
(* a preview are left out.                                                 *)
(***************************************************************************)
EXTENDS Integers, FiniteSets, Sequences, SequencesExt

CONSTANTS
    ChunkRunes,    \* maxRunes of chunkSearchText
    ChunkOverlap,  \* overlap of chunkSearchText
    PreviewLimit,  \* searchPreviewMaxPerConversation
    NonASCII,      \* characters above 127
    SearchTexts,   \* texts to cut
    Archives,      \* sequences of conversations: key, at, subagent and messages
    Searches       \* sequences of terms

ASSUME ChunkAssumption ==
    ChunkRunes \in Nat \ {0} /\ ChunkOverlap \in Nat /\ PreviewLimit \in Nat \ {0}

Space == 0
Newline == -1
Return == -2

IsSpace(character) == character < 1
IsASCII(text) == ToSet(text) \cap NonASCII = {}

TrimSpace(text) ==
    LET inked == {i \in DOMAIN text : ~IsSpace(text[i])}
    IN IF inked = {} THEN <<>> ELSE SubSeq(text, Min(inked), Max(inked))

Ascending(numbers) ==
    [n \in 1..Cardinality(numbers) |->
        CHOOSE i \in numbers : Cardinality({j \in numbers : j <= i}) = n]

Lines(text) ==
    LET cuts == Ascending({0, Len(text) + 1} \cup {i \in DOMAIN text : text[i] = Newline})
    IN [k \in 1..Len(cuts) - 1 |-> SubSeq(text, cuts[k] + 1, cuts[k + 1] - 1)]

-----------------------------------------------------------------------------
(* Chunks *)

Overlap == IF ChunkOverlap >= ChunkRunes THEN ChunkRunes \div 2 ELSE ChunkOverlap
ChunkStep == ChunkRunes - Overlap

(* Of a text of n characters. *)
ChunkStart(k) == (k - 1) * ChunkStep + 1
ChunkEnd(n, k) == Min({(k - 1) * ChunkStep + ChunkRunes, n})

\* Mutant: the loop ends with the chunk after which less than a step is left.
ChunkCountShort(n) == Min({k \in 1..n : k * ChunkStep + Overlap >= n - 1})

(* The loop ends with the chunk that reaches the end. *)
ChunkCount(n) == Min({k \in 1..n : ChunkEnd(n, k) = n})

(* A short text is not trimmed. *)
ChunkSearchText(text) ==
    IF Len(text) <= ChunkRunes THEN <<text>>
    ELSE [k \in 1..ChunkCount(Len(text)) |->
             TrimSpace(SubSeq(text, ChunkStart(k), ChunkEnd(Len(text), k)))]

CanUseSearchFastPath(text) ==
    /\ text # <<>> /\ IsASCII(text)
    /\ ToSet(text) \cap {Newline, Return} = {}
    /\ ~IsSpace(text[1]) /\ ~IsSpace(text[Len(text)])

TrimAll(lines) == SelectSeq([k \in DOMAIN lines |-> TrimSpace(lines[k])], LAMBDA line : line # <<>>)
CutAll(texts) == FlattenSeq([k \in DOMAIN texts |-> ChunkSearchText(texts[k])])

LineUnits(text) == CutAll(TrimAll(Lines(text)))

SearchTextUnits(text) ==
    CASE text = <<>> -> <<>>
      [] text # <<>> /\ CanUseSearchFastPath(text) -> ChunkSearchText(text)
      [] OTHER -> LineUnits(text)

Texts(message) == <<message.text>> \o message.calls \o message.plans

\* Mutant: hidden messages are indexed as well.
BuildSearchUnitsOfAll(messages) ==
    FlattenSeq([i \in DOMAIN messages |->
        FlattenSeq([k \in DOMAIN Texts(messages[i]) |-> SearchTextUnits(Texts(messages[i])[k])])])

(* A unit's ordinal is its place in the session. *)
BuildSearchUnits(messages) ==
    LET said == SelectSeq(messages, LAMBDA message : message.visible)
        UnitsOf(message) == FlattenSeq([k \in DOMAIN Texts(message) |->
                                           SearchTextUnits(Texts(message)[k])])
    IN FlattenSeq([i \in DOMAIN said |-> UnitsOf(said[i])])

-----------------------------------------------------------------------------
(* Queries *)

At(text, i, term) ==
    i + Len(term) - 1 <= Len(text) /\ SubSeq(text, i, i + Len(term) - 1) = term

(* SQLite's full-text index: a word of the chunk begins with the term. *)
MatchesTerm(chunk, term) ==
    \E i \in DOMAIN chunk : (i = 1 \/ IsSpace(chunk[i - 1])) /\ At(chunk, i, term)

MatchingChunks(c, terms) ==
    LET units == BuildSearchUnits(c.messages)
    IN {i \in DOMAIN units : \A term \in ToSet(terms) : MatchesTerm(units[i], term)}

(* Each text once, at its first chunk. *)
FirstChunks(units, matching) ==
    {i \in matching : units[i] # <<>> /\ \A j \in matching : units[j] = units[i] => i <= j}

TextsOf(units, places) == [i \in 1..Min({PreviewLimit, Len(places)}) |-> units[places[i]]]

\* Mutant: a preview for every chunk that matches, the same text or not.
PreviewsOfAll(c, terms) == TextsOf(BuildSearchUnits(c.messages), Ascending(MatchingChunks(c, terms)))

Previews(c, terms) ==
    LET units == BuildSearchUnits(c.messages)
    IN TextsOf(units, Ascending(FirstChunks(units, MatchingChunks(c, terms))))

(* The earlier a conversation says it, then the newer it is. *)
RanksBefore(c, d, terms) ==
    LET Rank(x) == <<Min(MatchingChunks(x, terms)), -x.at>>
        Before(p, q) == p[1] < q[1] \/ (p[1] = q[1] /\ p[2] < q[2])
    IN Before(Rank(c), Rank(d))

Ranked(archive, terms) ==
    SetToSortSeq({c \in ToSet(archive) : MatchingChunks(c, terms) # {}},
                 LAMBDA c, d : RanksBefore(c, d, terms))

Results(listed, terms) ==
    [i \in DOMAIN listed |-> [key |-> listed[i].key, previews |-> Previews(listed[i], terms)]]

(* main are the keys of the conversations that the browser lists. *)
RunDeepSearch(archive, terms, main) ==
    IF terms = <<>> THEN <<>>
    ELSE Results(SelectSeq(Ranked(archive, terms), LAMBDA c : c.key \in main), terms)

-----------------------------------------------------------------------------
(* Properties *)

(* What stands together on a line. *)
Stretches(text) ==
    UNION {{SubSeq(line, i, j) : i \in DOMAIN line, j \in DOMAIN line} : line \in ToSet(Lines(text))}

StretchesFromWords(text) ==
    UNION {{SubSeq(line, i, j) : i \in {k \in DOMAIN line : k = 1 \/ IsSpace(line[k - 1])},
                                 j \in DOMAIN line} : line \in ToSet(Lines(text))}

Inked(stretch) == stretch # <<>> /\ ~IsSpace(stretch[1]) /\ ~IsSpace(stretch[Len(stretch)])

Holds(text, stretch) == \E i \in DOMAIN text : At(text, i, stretch)

(* What stands on a line within a stretch no longer than the overlap and    *)
(* one is whole in a chunk: cutting tears no short word and parts no near   *)
(* words.  No chunk is longer than allowed, or says what the text does not, *)
(* and the fast path cuts as the other (chunkSearchText, yieldSearchText-   *)
(* Units).                                                                  *)
ChunksRight ==
    \A text \in SearchTexts :
        LET units == SearchTextUnits(text) IN
        /\ \A stretch \in Stretches(text) :
               Inked(stretch) /\ Len(stretch) <= Overlap + 1 =>
                   \E unit \in ToSet(units) : Holds(unit, stretch)
        /\ \A unit \in ToSet(units) :
               Len(unit) <= ChunkRunes /\ (unit # <<>> => unit \in Stretches(text))
        /\ CanUseSearchFastPath(text) => units = LineUnits(text)

SaidIn(c) ==
    UNION {ToSet(Texts(message)) : message \in {x \in ToSet(c.messages) : x.visible}}

SaysNear(c, terms) ==
    \E text \in SaidIn(c) : \E stretch \in StretchesFromWords(text) :
        /\ Inked(stretch) /\ Len(stretch) <= Overlap + 1
        /\ \A term \in ToSet(terms) : MatchesTerm(stretch, term)

FoundRight(archive, terms, found) ==
    LET keys == [i \in DOMAIN found |-> found[i].key]
        Of(key) == CHOOSE c \in ToSet(archive) : c.key = key
    IN /\ \A c \in ToSet(archive) :
              /\ c.key \in ToSet(keys) =>
                     /\ ~c.subagent
                     /\ \A term \in ToSet(terms) : \E text \in SaidIn(c) : term \in Stretches(text)
              /\ ~c.subagent /\ terms # <<>> /\ SaysNear(c, terms) => c.key \in ToSet(keys)
       /\ Cardinality(ToSet(keys)) = Len(keys)
       /\ \A i, j \in DOMAIN keys : RanksBefore(Of(keys[i]), Of(keys[j]), terms) => i < j

PreviewsRight(previews, terms) ==
    /\ previews # <<>> /\ Len(previews) <= PreviewLimit
    /\ Cardinality(ToSet(previews)) = Len(previews)
    /\ \A p \in ToSet(previews) : \A t \in ToSet(terms) : MatchesTerm(p, t)

KeysOf(found) == {r.key : r \in ToSet(found)}
MainKeys(archive) == {c.key : c \in {x \in ToSet(archive) : ~x.subagent}}

(* A query finds every listed conversation that says all of its terms, as   *)
(* beginnings of words, within such a stretch, and none that does not say   *)
(* them; a further term never finds more.  Each is found once, in order,    *)
(* and its previews are different texts that answer the query               *)
(* (runSQLiteDeepSearch).                                                   *)
SearchFinds ==
    \A archive \in Archives :
        LET found == [terms \in Searches |-> RunDeepSearch(archive, terms, MainKeys(archive))]
            Right(results) ==
                \A terms \in Searches :
                    /\ FoundRight(archive, terms, results[terms])
                    /\ \A r \in ToSet(results[terms]) : PreviewsRight(r.previews, terms)
                    /\ \A fewer \in Searches : ToSet(fewer) \subseteq ToSet(terms) /\ fewer # <<>> =>
                           KeysOf(results[terms]) \subseteq KeysOf(results[fewer])
        IN Right(found)
=============================================================================
