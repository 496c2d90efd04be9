----------------------- MODULE IncrementalRebuildProofs -----------------------
(***************************************************************************)
(* Proofs about the incremental rebuild, for any set of files, any number  *)
(* of writes and losses, and full and incremental rebuilds in any order, in*)
(* three parts: the tables always tell of one catalogue                    *)
(* (TablesAlwaysAgree); how rollouts hang together; and what a rebuild     *)
(* leaves in the rows (ConversationsAlwaysCurrent, SessionsAreKept).       *)
(*                                                                         *)
(* The tables.                                                             *)
(* The invariant says that the rows are of two kinds, Claude's and Codex', *)
(* and that the tables are consistent.  The step that is not obvious is    *)
(* the transaction of an incremental rebuild: everything it inserts must   *)
(* be under a key it has deleted.  A key named by several conversations is *)
(* attached to one of them and deleted only if that one parsed, so it must *)
(* be shown that the conversation with a key of its own is never left      *)
(* behind by another that names the key (ParsedIsReplaced).  It holds for  *)
(* Claude because a slug, once written, stays, and for Codex because every *)
(* resolved family parses and two families never give one key.             *)
(*                                                                         *)
(* Chains of parents are climbed with a recursive function; what is needed *)
(* of it follows from the least-number principle.                          *)
(***************************************************************************)
EXTENDS IncrementalRebuild, FiniteSetTheorems, TLAPS

\* The order of the natural numbers, as a relation.
NatOrder == {ss \in Nat \X Nat : ss[1] < ss[2]}

\* The least-number principle, for a set.
LEMMA LeastNatural ==
  ASSUME NEW T \in SUBSET Nat, T # {}
  PROVE  \E m \in T : \A k \in T : m <= k
<1>1. IsWellFoundedOn(NatOrder, Nat)
  BY NatLessThanWellFounded, Zenon DEF OpToRel, NatOrder
<1>2. PICK m \in T : \A k \in T : ~(<<k, m>> \in NatOrder)
  BY <1>1, WFMin
<1>3. ASSUME NEW k \in T PROVE m <= k
  <2>1. k \in Nat /\ m \in Nat
    OBVIOUS
  <2>2. k < m => <<k, m>> \in NatOrder
    BY <2>1 DEF NatOrder
  <2>3. QED
    BY <1>2, <2>1, <2>2
<1>4. QED
  BY <1>3

\* One step up.
Step(archive, set, g) == IF archive[g].parent \in set THEN archive[g].parent ELSE g

\* up is the first k steps of a climb from f.
Climbs(archive, set, f, k, up) ==
    up = [n \in 0 .. k |-> IF n = 0 THEN f ELSE Step(archive, set, up[n - 1])]

\* The first k steps of a climb exist, whatever k.
LEMMA StagesExist ==
  ASSUME NEW archive, NEW set, NEW f, NEW k \in Nat
  PROVE  \E up : Climbs(archive, set, f, k, up)
<1> DEFINE bad == {j \in Nat : ~\E up : Climbs(archive, set, f, j, up)}
<1>1. ASSUME bad # {} PROVE FALSE
  <2>1. PICK j \in bad : \A i \in bad : j <= i
    BY <1>1, LeastNatural
  <2>2. j # 0
    <3>1. Climbs(archive, set, f, 0, [n \in 0 .. 0 |-> f])
      BY DEF Climbs
    <3>2. QED
      BY <2>1, <3>1
  <2>3. j - 1 \in Nat /\ j - 1 \notin bad
    BY <2>1, <2>2
  <2>4. PICK up : Climbs(archive, set, f, j - 1, up)
    BY <2>3
  <2>5. PICK longer : longer = [n \in 0 .. j |-> IF n = j THEN Step(archive, set, up[j - 1]) ELSE up[n]]
    OBVIOUS
  <2>6. Climbs(archive, set, f, j, longer)
    <3>1. \A n \in 0 .. (j - 1) : up[n] = IF n = 0 THEN f ELSE Step(archive, set, up[n - 1])
      BY <2>4 DEF Climbs
    <3>2. \A n \in 0 .. j : longer[n] = IF n = 0 THEN f ELSE Step(archive, set, longer[n - 1])
      <4> TAKE n \in 0 .. j
      <4>1. CASE n = j
        BY <2>5, <2>2, <2>3, <4>1
      <4>2. CASE n # j
        BY <2>5, <2>2, <2>3, <3>1, <4>2
      <4>3. QED
        BY <4>1, <4>2
    <3>3. longer = [n \in 0 .. j |-> longer[n]]
      BY <2>5
    <3>4. QED
      BY <3>2, <3>3 DEF Climbs
  <2>7. QED
    BY <2>1, <2>6
<1>2. QED
  BY <1>1

\* Climb is the function its recursion describes.
LEMMA ClimbSteps ==
  ASSUME NEW archive, NEW set, IsFiniteSet(set), NEW f
  PROVE  Climbs(archive, set, f, Cardinality(set), Climb(archive, set, f))
<1>1. PICK k \in Nat : k = Cardinality(set)
  BY FS_CardinalityType
<1>2. Climb(archive, set, f) = CHOOSE up : Climbs(archive, set, f, k, up)
  BY <1>1 DEF Climb, Climbs, Step
<1>3. \E up : Climbs(archive, set, f, k, up)
  BY StagesExist
<1>4. QED
  BY <1>1, <1>2, <1>3
\* Induction up to a bound, for a set.
LEMMA UpTo ==
  ASSUME NEW m \in Nat, NEW T,
         0 \in T, \A n \in 1 .. m : n - 1 \in T => n \in T
  PROVE  0 .. m \subseteq T
<1> DEFINE bad == {n \in 0 .. m : n \notin T}
<1>1. ASSUME bad # {} PROVE FALSE
  <2>a. bad \in SUBSET Nat
    OBVIOUS
  <2>b. \E j \in bad : \A i \in bad : j <= i
    <3> HIDE DEF bad
    <3>1. QED
      BY <1>1, <2>a, LeastNatural
  <2>1. PICK j \in bad : \A i \in bad : j <= i
    BY <2>b
  <2>2. j # 0 /\ j \in 0 .. m /\ j \notin T
    BY <2>1
  <2>3. j - 1 \in 0 .. m /\ j \in 1 .. m /\ ~(j <= j - 1)
    BY <2>2
  <2>4. j - 1 \in T
    BY <2>1, <2>3
  <2>5. QED
    BY <2>2, <2>3, <2>4
<1>2. QED
  BY <1>1

\* A climb never leaves the set it started in, and one whose first parent is
\* not in the set goes nowhere.
LEMMA ClimbStays ==
  ASSUME NEW archive, NEW set, IsFiniteSet(set), NEW f
  PROVE  \A n \in 0 .. Cardinality(set) :
            /\ Climb(archive, set, f)[n] \in set \cup {f}
            /\ archive[f].parent \notin set => Climb(archive, set, f)[n] = f
<1>0. PICK k \in Nat : k = Cardinality(set)
  BY FS_CardinalityType
<1>a. PICK up : up = Climb(archive, set, f)
  OBVIOUS
<1>1. up = Climb(archive, set, f) /\ k = Cardinality(set)
  BY <1>0, <1>a
<1>2. \A n \in 0 .. k : up[n] = IF n = 0 THEN f ELSE Step(archive, set, up[n - 1])
  BY <1>1, ClimbSteps DEF Climbs
<1> DEFINE Good == {n \in 0 .. k : /\ up[n] \in set \cup {f}
                                   /\ archive[f].parent \notin set => up[n] = f}
<1>3. 0 \in Good
  BY <1>2
<1>4. ASSUME NEW n \in 1 .. k, n - 1 \in Good PROVE n \in Good
  <2>1. n \in 0 .. k /\ n # 0
    OBVIOUS
  <2>2. up[n] = Step(archive, set, up[n - 1])
    BY <1>2, <2>1
  <2>3. QED
    BY <1>4, <2>1, <2>2 DEF Step
<1>5. 0 .. k \subseteq Good
  BY <1>3, <1>4, UpTo
<1>6. QED
  BY <1>1, <1>5

-----------------------------------------------------------------------------
(* Row IDs *)

\* Row IDs are natural numbers with a bound.
Bounded(table) == \E b \in Nat : \A x \in table : x.id \in Nat /\ x.id <= b

\* The next row ID is larger than any ID in use.
LEMMA NextIDIsFresh ==
  ASSUME NEW table, Bounded(table)
  PROVE  NextID(table) \in Nat /\ \A x \in table : x.id \in Nat /\ x.id < NextID(table)
<1> DEFINE T == {0} \cup {x.id : x \in table}
           U == {u \in Nat : \A t \in T : t <= u}
<1>1. T \subseteq Nat /\ U # {}
  BY DEF Bounded
<1>2. PICK m \in U : \A u \in U : m <= u
  BY <1>1, LeastNatural
<1>3. m \in T
  <2>1. CASE m = 0
    BY <2>1
  <2>2. CASE m # 0
    <3>1. m - 1 \in Nat /\ ~(m <= m - 1)
      BY <2>2
    <3>2. PICK t \in T : ~(t <= m - 1)
      BY <1>2, <3>1
    <3>3. t = m
      BY <1>1, <1>2, <3>2
    <3>4. QED
      BY <3>3
  <2>3. QED
    BY <2>1, <2>2
<1>4. \E x \in T : \A y \in T : x >= y
  BY <1>1, <1>2, <1>3
<1>5. Max(T) \in T /\ \A y \in T : Max(T) >= y
  BY <1>4 DEF Max
<1>6. NextID(table) = 1 + Max(T)
  BY DEF NextID
<1>7. QED
  BY <1>1, <1>5, <1>6

\* The row numbers of one insertion: each row gets one of its own.
Place(convs) == CHOOSE p \in Bijection(convs, 0 .. Cardinality(convs) - 1) : TRUE

\* Each row of an insertion has a number, and a number of its own.
LEMMA PlaceNumbers ==
  ASSUME NEW convs, IsFiniteSet(convs)
  PROVE  /\ Cardinality(convs) \in Nat
         /\ \A c \in convs : Place(convs)[c] \in 0 .. Cardinality(convs) - 1
         /\ \A c, d \in convs : Place(convs)[c] = Place(convs)[d] => c = d
<1>1. PICK n \in Nat : n = Cardinality(convs)
  BY FS_CardinalityType
<1>2. IsFiniteSet(0 .. n - 1) /\ Cardinality(0 .. n - 1) = n
  BY FS_Interval
<1>3. ExistsBijection(convs, 0 .. n - 1)
  BY <1>1, <1>2, FS_SameCardinalityBij
<1>4. Place(convs) \in Bijection(convs, 0 .. n - 1)
  BY <1>1, <1>3 DEF Place, ExistsBijection
<1>5. QED
  BY <1>1, <1>4 DEF Bijection, Injection, IsInjective

-----------------------------------------------------------------------------
(* Tables *)

\* A record of the four tables.
IsTables(t) == t = [rows |-> t.rows, chunks |-> t.chunks, fts |-> t.fts, stats |-> t.stats]

\* The statistics some rows call for.
StatsOf(rows) == UNION {{[ref |-> r.ref, file |-> f] : f \in r.files} : r \in rows}

\* Cache keys, row IDs and chunk IDs are unique.
KeysUnique(t) ==
    /\ \A q, r \in t.rows : q.ref = r.ref \/ q.id = r.id => q = r
    /\ \A c, d \in t.chunks : c.id = d.id => c = d

\* Every chunk has its row and the row's text, and every row has a chunk.
ChunksTell(t) ==
    /\ \A c \in t.chunks : \E r \in t.rows : r.id = c.conversation /\ r.text = c.text
    /\ \A r \in t.rows : \E c \in t.chunks : c.conversation = r.id

\* Tables the schema and the writers agree on, but for the index.
Consistent(t) ==
    /\ IsTables(t)
    /\ Bounded(t.rows) /\ Bounded(t.chunks)
    /\ KeysUnique(t)
    /\ ChunksTell(t)
    /\ t.stats = StatsOf(t.rows)

\* The row and the chunk an insertion makes of a content.
NewRow(t, convs, c) ==
    [id |-> NextID(t.rows) + Place(convs)[c], ref |-> c.ref, files |-> c.files, text |-> c.text]

NewChunk(t, convs, c) ==
    [id |-> NextID(t.chunks) + Place(convs)[c],
     conversation |-> NewRow(t, convs, c).id, text |-> c.text]

\* The tables after an insertion, one by one.
LEMMA WhatIsInserted ==
  ASSUME NEW t, IsTables(t), NEW convs, NEW u, u = InsertConversations(t, convs)
  PROVE  /\ IsTables(u)
         /\ u.fts = t.fts
         /\ u.rows = t.rows \cup {NewRow(t, convs, c) : c \in convs}
         /\ u.chunks = t.chunks \cup {NewChunk(t, convs, c) : c \in convs}
         /\ u.stats = t.stats \cup UNION {{[ref |-> c.ref, file |-> f] : f \in c.files} : c \in convs}
<1>1. u = [t EXCEPT
             !.rows   = t.rows \cup {NewRow(t, convs, c) : c \in convs},
             !.chunks = t.chunks \cup {NewChunk(t, convs, c) : c \in convs},
             !.stats  = t.stats \cup UNION {{[ref |-> c.ref, file |-> f] : f \in c.files} : c \in convs}]
  BY DEF InsertConversations, NewRow, NewChunk, Place
<1> HIDE DEF NewRow, NewChunk
<1>2. QED
  BY <1>1 DEF IsTables

\* Inserting contents with keys of their own keeps the tables consistent: row
\* IDs stay unique, chunks belong to rows and statistics follow the rows.
LEMMA InsertionIsConsistent ==
  ASSUME NEW t, Consistent(t), NEW convs, IsFiniteSet(convs),
         \A c, d \in convs : c.ref = d.ref => c = d,
         \A c \in convs : \A r \in t.rows : c.ref # r.ref,
         NEW u, u = InsertConversations(t, convs)
  PROVE  Consistent(u)
<1>1. PICK n \in Nat : n = NextID(t.rows)
  BY NextIDIsFresh DEF Consistent
<1>2. PICK m \in Nat : m = NextID(t.chunks)
  BY NextIDIsFresh DEF Consistent
<1>3. PICK k \in Nat : k = Cardinality(convs)
  BY PlaceNumbers
<1>4. PICK place : place = Place(convs)
  OBVIOUS
<1>5. \A c \in convs : place[c] \in 0 .. k - 1 /\ place[c] \in Nat
  BY <1>3, <1>4, PlaceNumbers
<1>6. \A c, d \in convs : place[c] = place[d] => c = d
  BY <1>4, PlaceNumbers
<1> DEFINE Row(c) == [id |-> n + place[c], ref |-> c.ref, files |-> c.files, text |-> c.text]
           Chunk(c) == [id |-> m + place[c], conversation |-> n + place[c], text |-> c.text]
<1>7. /\ IsTables(u)
      /\ u.rows = t.rows \cup {Row(c) : c \in convs}
      /\ u.chunks = t.chunks \cup {Chunk(c) : c \in convs}
      /\ u.stats = t.stats \cup UNION {{[ref |-> c.ref, file |-> f] : f \in c.files} : c \in convs}
  BY <1>1, <1>2, <1>4, WhatIsInserted DEF Consistent, NewRow, NewChunk
<1>8. \A r \in t.rows : r.id \in Nat /\ r.id < n
  BY <1>1, NextIDIsFresh DEF Consistent
<1>9. \A c \in t.chunks : c.id \in Nat /\ c.id < m
  BY <1>2, NextIDIsFresh DEF Consistent
<1>10. Bounded(u.rows)
  <2>1. \A r \in u.rows : r.id \in Nat /\ r.id <= n + k
    BY <1>5, <1>7, <1>8
  <2>2. QED
    BY <2>1 DEF Bounded
<1>11. Bounded(u.chunks)
  <2>1. \A c \in u.chunks : c.id \in Nat /\ c.id <= m + k
    BY <1>5, <1>7, <1>9
  <2>2. QED
    BY <2>1 DEF Bounded
<1>12. KeysUnique(u)
  <2>1. ASSUME NEW q \in u.rows, NEW r \in u.rows, q.ref = r.ref \/ q.id = r.id PROVE q = r
    <3>1. CASE q \in t.rows /\ r \in t.rows
      BY <2>1, <3>1 DEF Consistent, KeysUnique
    <3>2. CASE q \in t.rows /\ \E d \in convs : r = Row(d)
      BY <1>5, <1>8, <2>1, <3>2
    <3>3. CASE r \in t.rows /\ \E d \in convs : q = Row(d)
      BY <1>5, <1>8, <2>1, <3>3
    <3>4. ASSUME NEW c \in convs, NEW d \in convs, q = Row(c), r = Row(d) PROVE q = r
      <4>1. c.ref = d.ref \/ n + place[c] = n + place[d]
        BY <2>1, <3>4
      <4>2. c = d
        BY <1>5, <1>6, <4>1
      <4>3. QED
        BY <3>4, <4>2
    <3>5. QED
      BY <1>7, <3>1, <3>2, <3>3, <3>4
  <2>2. ASSUME NEW q \in u.chunks, NEW r \in u.chunks, q.id = r.id PROVE q = r
    <3>1. CASE q \in t.chunks /\ r \in t.chunks
      BY <2>2, <3>1 DEF Consistent, KeysUnique
    <3>2. CASE q \in t.chunks /\ \E d \in convs : r = Chunk(d)
      BY <1>5, <1>9, <2>2, <3>2
    <3>3. CASE r \in t.chunks /\ \E d \in convs : q = Chunk(d)
      BY <1>5, <1>9, <2>2, <3>3
    <3>4. ASSUME NEW c \in convs, NEW d \in convs, q = Chunk(c), r = Chunk(d) PROVE q = r
      <4>1. m + place[c] = m + place[d]
        BY <2>2, <3>4
      <4>2. c = d
        BY <1>5, <1>6, <4>1
      <4>3. QED
        BY <3>4, <4>2
    <3>5. QED
      BY <1>7, <3>1, <3>2, <3>3, <3>4
  <2>3. QED
    BY <2>1, <2>2 DEF KeysUnique
<1>13. ChunksTell(u)
  <2>1. ASSUME NEW c \in u.chunks
        PROVE  \E r \in u.rows : r.id = c.conversation /\ r.text = c.text
    <3>1. CASE c \in t.chunks
      BY <1>7, <3>1 DEF Consistent, ChunksTell
    <3>2. ASSUME NEW d \in convs, c = Chunk(d)
          PROVE  \E r \in u.rows : r.id = c.conversation /\ r.text = c.text
      <4>1. Row(d) \in u.rows /\ Row(d).id = c.conversation /\ Row(d).text = c.text
        BY <1>7, <3>2
      <4>2. QED
        BY <4>1
    <3>3. QED
      BY <1>7, <3>1, <3>2
  <2>2. ASSUME NEW r \in u.rows
        PROVE  \E c \in u.chunks : c.conversation = r.id
    <3>1. CASE r \in t.rows
      BY <1>7, <3>1 DEF Consistent, ChunksTell
    <3>2. ASSUME NEW d \in convs, r = Row(d)
          PROVE  \E c \in u.chunks : c.conversation = r.id
      <4>1. Chunk(d) \in u.chunks /\ Chunk(d).conversation = r.id
        BY <1>7, <3>2
      <4>2. QED
        BY <4>1
    <3>3. QED
      BY <1>7, <3>1, <3>2
  <2>3. QED
    BY <2>1, <2>2 DEF ChunksTell
<1>14. u.stats = StatsOf(u.rows)
  <2>1. t.stats = StatsOf(t.rows)
    BY DEF Consistent
  <2>2. \A s : s \in t.stats <=> \E r \in t.rows : \E f \in r.files : s = [ref |-> r.ref, file |-> f]
    BY <2>1 DEF StatsOf
  <2>3. \A s : s \in StatsOf(u.rows) <=> \E r \in u.rows : \E f \in r.files : s = [ref |-> r.ref, file |-> f]
    BY DEF StatsOf
  <2>4. u.stats = t.stats \cup UNION {{[ref |-> c.ref, file |-> f] : f \in c.files} : c \in convs}
    BY <1>7
  <2>5. \A s : s \in u.stats <=> s \in t.stats \/ \E c \in convs : \E f \in c.files : s = [ref |-> c.ref, file |-> f]
    BY <2>4
  <2>6. u.rows = t.rows \cup {Row(c) : c \in convs}
    BY <1>7
  <2>7. ASSUME NEW s, s \in u.stats PROVE s \in StatsOf(u.rows)
    <3>1. CASE s \in t.stats
      BY <2>2, <2>3, <2>6, <3>1
    <3>2. ASSUME NEW c \in convs, NEW f \in c.files, s = [ref |-> c.ref, file |-> f]
          PROVE  s \in StatsOf(u.rows)
      <4>1. Row(c) \in u.rows /\ Row(c).ref = c.ref /\ Row(c).files = c.files
        BY <2>6
      <4>2. QED
        BY <2>3, <3>2, <4>1
    <3>3. QED
      BY <2>5, <2>7, <3>1, <3>2
  <2>8. ASSUME NEW s, s \in StatsOf(u.rows) PROVE s \in u.stats
    <3>1. PICK r \in u.rows : \E f \in r.files : s = [ref |-> r.ref, file |-> f]
      BY <2>3, <2>8
    <3>2. CASE r \in t.rows
      BY <2>2, <2>5, <3>1, <3>2
    <3>3. ASSUME NEW c \in convs, r = Row(c) PROVE s \in u.stats
      <4>1. r.ref = c.ref /\ r.files = c.files
        BY <3>3
      <4>2. QED
        BY <2>5, <3>1, <4>1
    <3>4. QED
      BY <2>6, <3>2, <3>3
  <2>9. QED
    BY <2>7, <2>8
<1>15. QED
  BY <1>7, <1>10, <1>11, <1>12, <1>13, <1>14 DEF Consistent

\* The tables after the rows under the replaced keys are deleted.
LEMMA WhatIsCleared ==
  ASSUME IsTables(db), NEW refs, NEW u, u = Cleared(refs)
  PROVE  /\ IsTables(u)
         /\ u.rows = {r \in db.rows : r.ref \notin refs}
         /\ u.chunks = db.chunks \ ChunksOf(db, refs)
         /\ u.fts = db.fts \ Postings(ChunksOf(db, refs))
         /\ u.stats = {s \in db.stats : s.ref \notin refs}
<1>1. PICK t : t = DeleteSearchIndex(db, refs)
  OBVIOUS
<1>2. PICK v : v = DeleteStats(t, refs)
  OBVIOUS
<1>3. /\ IsTables(t) /\ t.rows = db.rows /\ t.chunks = db.chunks /\ t.stats = db.stats
      /\ t.fts = db.fts \ Postings(ChunksOf(db, refs))
  BY <1>1 DEF DeleteSearchIndex, IsTables
<1>4. /\ IsTables(v) /\ v.rows = db.rows /\ v.chunks = db.chunks
      /\ v.fts = db.fts \ Postings(ChunksOf(db, refs))
      /\ v.stats = {s \in db.stats : s.ref \notin refs}
  BY <1>2, <1>3 DEF DeleteStats, IsTables
<1>5. ChunksOf(v, refs) = ChunksOf(db, refs)
  BY <1>4 DEF ChunksOf
<1>6. u = DeleteConversations(v, refs)
  BY <1>1, <1>2 DEF Cleared
<1>7. QED
  BY <1>4, <1>5, <1>6 DEF DeleteConversations, IsTables

\* Deleting rows by key keeps the tables consistent: a chunk goes with its row
\* and the statistics of a key with the key.
LEMMA ClearingIsConsistent ==
  ASSUME Consistent(db), NEW refs, NEW u, u = Cleared(refs)
  PROVE  Consistent(u)
<1>0. IsTables(db) /\ KeysUnique(db) /\ ChunksTell(db) /\ Bounded(db.rows) /\ Bounded(db.chunks)
      /\ db.stats = StatsOf(db.rows)
  BY DEF Consistent
<1>1. /\ IsTables(u)
      /\ u.rows = {r \in db.rows : r.ref \notin refs}
      /\ u.chunks = db.chunks \ ChunksOf(db, refs)
      /\ u.stats = {s \in db.stats : s.ref \notin refs}
  BY <1>0, WhatIsCleared
<1>2. Bounded(u.rows) /\ Bounded(u.chunks)
  BY <1>0, <1>1 DEF Bounded
<1>3. KeysUnique(u)
  BY <1>0, <1>1 DEF KeysUnique
<1>4. ChunksTell(u)
  <2>1. ASSUME NEW c \in u.chunks
        PROVE  \E r \in u.rows : r.id = c.conversation /\ r.text = c.text
    <3>1. PICK r \in db.rows : r.id = c.conversation /\ r.text = c.text
      BY <1>0, <1>1 DEF ChunksTell
    <3>2. r.ref \notin refs
      BY <1>1, <3>1 DEF ChunksOf
    <3>3. QED
      BY <1>1, <3>1, <3>2
  <2>2. ASSUME NEW r \in u.rows
        PROVE  \E c \in u.chunks : c.conversation = r.id
    <3>1. PICK c \in db.chunks : c.conversation = r.id
      BY <1>0, <1>1 DEF ChunksTell
    <3>2. ASSUME c \in ChunksOf(db, refs) PROVE FALSE
      <4>1. PICK q \in db.rows : q.id = c.conversation /\ q.ref \in refs
        BY <3>2 DEF ChunksOf
      <4>2. q = r
        BY <1>0, <1>1, <3>1, <4>1 DEF KeysUnique
      <4>3. QED
        BY <1>1, <4>1, <4>2
    <3>3. QED
      BY <1>1, <3>1, <3>2
  <2>3. QED
    BY <2>1, <2>2 DEF ChunksTell
<1>5. u.stats = StatsOf(u.rows)
  <2>1. \A s : s \in db.stats <=> \E r \in db.rows : \E f \in r.files : s = [ref |-> r.ref, file |-> f]
    BY <1>0 DEF StatsOf
  <2>2. \A s : s \in StatsOf(u.rows) <=> \E r \in u.rows : \E f \in r.files : s = [ref |-> r.ref, file |-> f]
    BY DEF StatsOf
  <2>3. QED
    BY <1>1, <2>1, <2>2
<1>6. QED
  BY <1>1, <1>2, <1>3, <1>4, <1>5 DEF Consistent

\* Taking the postings of some chunks out of the index leaves those of the
\* rest: no two chunks share a posting.
LEMMA PostingsOfTheRest ==
  ASSUME NEW t, KeysUnique(t), NEW gone, gone \subseteq t.chunks
  PROVE  Postings(t.chunks) \ Postings(gone) = Postings(t.chunks \ gone)
<1>1. \A c, d \in t.chunks : c.id = d.id => c = d
  BY DEF KeysUnique
<1>2. ASSUME NEW p, p \in Postings(t.chunks), p \notin Postings(gone) PROVE p \in Postings(t.chunks \ gone)
  BY <1>2 DEF Postings
<1>3. ASSUME NEW p, p \in Postings(t.chunks \ gone) PROVE p \in Postings(t.chunks) /\ p \notin Postings(gone)
  <2>1. PICK c \in t.chunks \ gone : p = [rowid |-> c.id, text |-> c.text]
    BY <1>3 DEF Postings
  <2>2. ASSUME NEW d \in gone, p = [rowid |-> d.id, text |-> d.text] PROVE FALSE
    <3>1. c.id = d.id
      BY <2>1, <2>2
    <3>2. QED
      BY <1>1, <2>1, <3>1
  <2>3. QED
    BY <2>1, <2>2 DEF Postings
<1>4. QED
  BY <1>2, <1>3

\* Populating the index touches nothing but the index.
LEMMA WhatIsPopulated ==
  ASSUME NEW t, Consistent(t), NEW refs, NEW u, u = PopulateSearchIndex(t, refs)
  PROVE  /\ Consistent(u)
         /\ u.rows = t.rows /\ u.chunks = t.chunks
         /\ u.fts = t.fts \cup Postings(ChunksOf(t, refs))
<1>1. /\ IsTables(u) /\ u.rows = t.rows /\ u.chunks = t.chunks /\ u.stats = t.stats
      /\ u.fts = t.fts \cup Postings(ChunksOf(t, refs))
  BY DEF PopulateSearchIndex, Consistent, IsTables
<1>2. QED
  BY <1>1 DEF Consistent, KeysUnique, ChunksTell

(* Rows and index after a batch of contents has been inserted and indexed   *)
(* under refs that name each of them.                                       *)
LEMMA InsertionIsIndexed ==
  ASSUME NEW t, Consistent(t), t.fts = Postings(t.chunks), NEW convs, IsFiniteSet(convs),
         \A c, d \in convs : c.ref = d.ref => c = d,
         \A c \in convs : \A r \in t.rows : c.ref # r.ref,
         NEW v, v = InsertConversations(t, convs),
         NEW refs, \A c \in convs : c.ref \in refs,
         NEW u, u = PopulateSearchIndex(v, refs)
  PROVE  /\ Consistent(u) /\ u.fts = Postings(u.chunks)
         /\ \A r \in u.rows : \/ r \in t.rows
                              \/ \E c \in convs : r.ref = c.ref /\ r.files = c.files /\ r.text = c.text
         /\ \A c \in convs : \E r \in u.rows : r.ref = c.ref /\ r.files = c.files /\ r.text = c.text
         /\ t.rows \subseteq u.rows
<1>1. Consistent(v)
  BY InsertionIsConsistent
<1>2. /\ v.fts = t.fts
      /\ v.rows = t.rows \cup {NewRow(t, convs, c) : c \in convs}
      /\ v.chunks = t.chunks \cup {NewChunk(t, convs, c) : c \in convs}
  BY WhatIsInserted DEF Consistent
<1>3. /\ Consistent(u) /\ u.rows = v.rows /\ u.chunks = v.chunks
      /\ u.fts = v.fts \cup Postings(ChunksOf(v, refs))
  BY <1>1, WhatIsPopulated
<1>4. \A c \in convs : NewChunk(t, convs, c) \in ChunksOf(v, refs)
  <2>1. ASSUME NEW c \in convs PROVE NewChunk(t, convs, c) \in ChunksOf(v, refs)
    <3>1. NewRow(t, convs, c) \in v.rows /\ NewChunk(t, convs, c) \in v.chunks
      BY <1>2
    <3>2. NewRow(t, convs, c).id = NewChunk(t, convs, c).conversation
      BY DEF NewRow, NewChunk
    <3>3. NewRow(t, convs, c).ref \in refs
      BY DEF NewRow
    <3>4. QED
      BY <3>1, <3>2, <3>3 DEF ChunksOf
  <2>2. QED
    BY <2>1
<1>5. ChunksOf(v, refs) \subseteq v.chunks
  BY DEF ChunksOf
<1>6. u.fts = Postings(u.chunks)
  <2>1. v.chunks = t.chunks \cup ChunksOf(v, refs)
    BY <1>2, <1>4, <1>5
  <2>2. Postings(v.chunks) = Postings(t.chunks) \cup Postings(ChunksOf(v, refs))
    BY <2>1 DEF Postings
  <2>3. QED
    BY <1>2, <1>3, <2>2
<1>7. \A c \in convs : /\ NewRow(t, convs, c).ref = c.ref
                       /\ NewRow(t, convs, c).files = c.files
                       /\ NewRow(t, convs, c).text = c.text
  BY DEF NewRow
<1>8. QED
  BY <1>2, <1>3, <1>6, <1>7

-----------------------------------------------------------------------------
(* What the sources resolve *)

\* A main thread is its own root, whatever set it is looked at in.
LEMMA MainThreadIsItsRoot ==
  ASSUME NEW archive, NEW set, set \subseteq CodexFiles, NEW f, ~IsSubagent(archive, f)
  PROVE  /\ Climb(archive, set, f)[Cardinality(set)] = f
         /\ \A n \in 0 .. Cardinality(set) : Climb(archive, set, f)[n] = f
         /\ RootsIn(archive, set, f) = {f}
<1>1. IsFiniteSet(set)
  BY CodexFilesAssumption, FS_Subset
<1>2. PICK k \in Nat : k = Cardinality(set)
  BY <1>1, FS_CardinalityType
<1>3. archive[f].parent \notin set
  BY CodexFilesAssumption DEF IsSubagent
<1>4. \A n \in 0 .. k : Climb(archive, set, f)[n] = f
  BY <1>1, <1>2, <1>3, ClimbStays
<1>5. k \in 0 .. k
  OBVIOUS
<1>6. Climb(archive, set, f)[k] = f
  BY <1>4, <1>5
<1>7. RootsIn(archive, set, f) = {f}
  BY <1>2, <1>6 DEF RootsIn
<1>8. QED
  BY <1>2, <1>4, <1>6, <1>7

(* A group of rollouts is a main thread with its family, or a subagent.     *)
GroupUnder(archive, set, f, c) ==
    /\ c = CodexConversation(f, c.files)
    /\ f \in c.files /\ c.files \subseteq set
    /\ c.files = IF IsSubagent(archive, f) THEN {f}
                 ELSE {g \in set : RootsIn(archive, set, g) = {f}}

\* Every group the scan forms is that of a main thread or of one orphan.
LEMMA GroupsOfRollouts ==
  ASSUME NEW archive, NEW set, set \subseteq CodexFiles, NEW c \in GroupRollouts(archive, set)
  PROVE  \E f \in set : GroupUnder(archive, set, f, c)
<1>1. CASE c \in {CodexConversation(r, {f \in set : RootsIn(archive, set, f) = {r}}) :
                    r \in {f \in set : ~IsSubagent(archive, f)}}
  <2>1. PICK r \in set : /\ ~IsSubagent(archive, r)
                         /\ c = CodexConversation(r, {f \in set : RootsIn(archive, set, f) = {r}})
    BY <1>1
  <2>2. c.files = {f \in set : RootsIn(archive, set, f) = {r}}
    BY <2>1 DEF CodexConversation
  <2>3. RootsIn(archive, set, r) = {r}
    BY <2>1, MainThreadIsItsRoot
  <2>4. QED
    BY <2>1, <2>2, <2>3 DEF GroupUnder
<1>2. CASE c \in {CodexConversation(f, {f}) : f \in {g \in set : RootsIn(archive, set, g) = {}}}
  <2>1. PICK f \in set : RootsIn(archive, set, f) = {} /\ c = CodexConversation(f, {f})
    BY <1>2
  <2>2. c.files = {f}
    BY <2>1 DEF CodexConversation
  <2>3. IsSubagent(archive, f)
    <3>1. ASSUME ~IsSubagent(archive, f) PROVE FALSE
      <4>1. RootsIn(archive, set, f) = {f}
        BY <3>1, MainThreadIsItsRoot
      <4>2. QED
        BY <2>1, <4>1
    <3>2. QED
      BY <3>1
  <2>4. QED
    BY <2>1, <2>2, <2>3 DEF GroupUnder
<1>3. QED
  BY <1>1, <1>2 DEF GroupRollouts

\* The key of a Codex conversation names its thread.
LEMMA CodexRefs ==
  ASSUME NEW f, NEW g, NEW s, NEW t
  PROVE  /\ CodexConversation(f, s).ref = <<"codex", f>>
         /\ CodexConversation(f, s).files = s
         /\ CodexConversation(f, s).ref = CodexConversation(g, t).ref => f = g
         /\ CodexConversation(f, s).ref[1] = "codex"
         /\ CodexConversation(f, s).ref[2] = f
BY DEF CodexConversation

\* The groups of one scan have keys of their own.
LEMMA GroupsAreDistinct ==
  ASSUME NEW archive, NEW set, set \subseteq CodexFiles,
         NEW c \in GroupRollouts(archive, set), NEW d \in GroupRollouts(archive, set),
         c.ref = d.ref
  PROVE  c = d
<1>1. PICK f \in set : GroupUnder(archive, set, f, c)
  BY GroupsOfRollouts
<1>2. PICK h \in set : GroupUnder(archive, set, h, d)
  BY GroupsOfRollouts
<1>3. f = h
  BY <1>1, <1>2, CodexRefs DEF GroupUnder
<1>4. QED
  BY <1>1, <1>2, <1>3 DEF GroupUnder

(* The rows of the catalogue: Claude rows and Codex rows. *)
ClaudeRow(r) ==
    /\ r.files \subseteq ClaudeFiles
    /\ r.ref[1] \in {"path", "group"}
    /\ \A g \in r.files : IF claude[g] = Missing THEN g \in lost
                          ELSE r.ref \in {ClaudeRef(claude, g), <<"path", g>>}

CodexRow(r) ==
    /\ r.files \subseteq CodexFiles
    /\ \E f \in CodexFiles : r.ref = <<"codex", f>>

\* Every row is of one provider.
RowsOK == \A r \in db.rows : ClaudeRow(r) \/ CodexRow(r)

\* The stored conversation of a rollout is a Codex row.
LEMMA RowOfARollout ==
  ASSUME RowsOK, NEW f \in CodexFiles, NEW r \in StoredThread(db.rows, f)
  PROVE  /\ r \in db.rows /\ f \in r.files
         /\ r.files \subseteq CodexFiles
         /\ r.ref[1] = "codex" /\ r.ref[2] \in CodexFiles /\ r.ref = <<"codex", r.ref[2]>>
<1>1. r \in db.rows /\ f \in r.files
  BY DEF StoredThread
<1>2. CodexRow(r)
  BY <1>1, SourcesAssumption DEF RowsOK, ClaudeRow
<1>3. PICK g \in CodexFiles : r.ref = <<"codex", g>>
  BY <1>2 DEF CodexRow
<1>4. r.ref[1] = "codex" /\ r.ref[2] = g
  BY <1>3
<1>5. QED
  BY <1>1, <1>2, <1>3, <1>4 DEF CodexRow

\* The type of the Codex archive.
CodexTyped == codex \in [CodexFiles -> CodexEntries(1 .. MaxCodexWrites) \cup {Absent}]

\* The root an incremental resolution finds is a rollout, and a main thread is
\* its own.
LEMMA RootOfARollout ==
  ASSUME RowsOK, CodexTyped, NEW good,
         good \subseteq {f \in CodexFiles : CodexScans(codex, f)},
         NEW f \in good
  PROVE  /\ IncrementalRoot(codex, good, db.rows, f) \in CodexFiles
         /\ ~IsSubagent(codex, f) => IncrementalRoot(codex, good, db.rows, f) = f
<1>1. good \subseteq CodexFiles /\ IsFiniteSet(good)
  BY CodexFilesAssumption, FS_Subset
<1>2. PICK k \in Nat : k = Cardinality(good)
  BY <1>1, FS_CardinalityType
<1>3. PICK up : up = Climb(codex, good, f)
  OBVIOUS
<1>a. \A n \in 0 .. Cardinality(good) : Climb(codex, good, f)[n] \in good \cup {f}
  BY <1>1, ClimbStays
<1>4. \A n \in 0 .. k : up[n] \in good
  BY <1>2, <1>3, <1>a
<1>b. ~IsSubagent(codex, f) => \A n \in 0 .. k : up[n] = f
  <2>1. ASSUME ~IsSubagent(codex, f)
        PROVE  \A n \in 0 .. Cardinality(good) : Climb(codex, good, f)[n] = f
    BY <1>1, <2>1, MainThreadIsItsRoot
  <2>2. QED
    BY <1>2, <1>3, <2>1
<1> DEFINE twice == {n \in 1 .. k : codex[up[n - 1]].parent \in good /\ up[n] \in {up[m] : m \in 0 .. (n - 1)}}
           stored == StoredRoots(db.rows, codex[up[k]].parent)
<1>5. IncrementalRoot(codex, good, db.rows, f) =
        IF twice # {} THEN up[CHOOSE n \in twice : \A m \in twice : n <= m]
        ELSE IF ~IsSubagent(codex, up[k]) \/ stored = {} THEN up[k]
        ELSE CHOOSE r \in stored : TRUE
  BY <1>2, <1>3 DEF IncrementalRoot
<1>6. k \in 0 .. k /\ up[k] \in good
  BY <1>4
<1>7. CASE twice # {}
  <2>1. twice \in SUBSET Nat
    OBVIOUS
  <2>2. \E n \in twice : \A m \in twice : n <= m
    <3> HIDE DEF twice
    <3>1. QED
      BY <1>7, <2>1, LeastNatural
  <2>3. PICK n \in twice : n = CHOOSE j \in twice : \A m \in twice : j <= m
    BY <2>2
  <2>a. n \in 1 .. k /\ codex[up[n - 1]].parent \in good
    BY <2>3, Zenon
  <2>b. n \in 0 .. k /\ n - 1 \in 0 .. k
    BY <2>a
  <2>4. n \in 0 .. k /\ up[n] \in good
    BY <1>4, <2>b
  <2>5. IncrementalRoot(codex, good, db.rows, f) = up[n]
    BY <1>5, <1>7, <2>3
  <2>6. IsSubagent(codex, f)
    <3>1. ASSUME ~IsSubagent(codex, f) PROVE FALSE
      <4>1. \A i \in 0 .. k : up[i] = f
        BY <1>b, <3>1
      <4>2. n - 1 \in 0 .. k /\ codex[up[n - 1]].parent \in good
        BY <2>a, <2>b
      <4>3. codex[f].parent \in good
        BY <4>1, <4>2
      <4>4. QED
        BY <1>1, <3>1, <4>3, CodexFilesAssumption DEF IsSubagent
    <3>2. QED
      BY <3>1
  <2>7. QED
    BY <1>1, <2>4, <2>5, <2>6
<1>8. CASE twice = {} /\ (~IsSubagent(codex, up[k]) \/ stored = {})
  <2>1. IncrementalRoot(codex, good, db.rows, f) = up[k]
    BY <1>5, <1>8
  <2>2. ~IsSubagent(codex, f) => up[k] = f
    BY <1>6, <1>b
  <2>3. QED
    BY <1>1, <1>6, <2>1, <2>2
<1>9. CASE twice = {} /\ IsSubagent(codex, up[k]) /\ stored # {}
  <2>1. IncrementalRoot(codex, good, db.rows, f) \in stored
    BY <1>5, <1>9
  <2>2. codex[up[k]] \in CodexEntries(1 .. MaxCodexWrites)
    BY <1>1, <1>6 DEF CodexTyped, CodexScans
  <2>3. codex[up[k]].parent \in CodexFiles
    BY <1>9, <2>2 DEF CodexEntries, IsSubagent
  <2>4. \A x \in stored : x \in CodexFiles
    <3>1. PICK parent \in CodexFiles : parent = codex[up[k]].parent
      BY <2>3
    <3>2. \A r \in StoredThread(db.rows, parent) : r.ref[2] \in CodexFiles
      BY RowOfARollout
    <3>3. QED
      BY <3>1, <3>2 DEF StoredRoots
  <2>5. IsSubagent(codex, f)
    <3>1. ASSUME ~IsSubagent(codex, f) PROVE FALSE
      <4>1. up[k] = f
        BY <1>6, <1>b, <3>1
      <4>2. QED
        BY <1>9, <3>1, <4>1
    <3>2. QED
      BY <3>1
  <2>6. QED
    BY <2>1, <2>4, <2>5
<1>10. QED
  BY <1>7, <1>8, <1>9

(* A conversation a family gives: under its root, or a subagent of it.      *)
FamilyMember(c) ==
    /\ c.files \subseteq CodexFiles
    /\ \E f \in CodexFiles : c.ref = <<"codex", f>> /\ f \in c.files
    /\ c.ref \in c.replaces
    /\ \A ref \in c.replaces : ref[1] = "codex"

\* What the scan of a family gives: conversations keyed by a rollout they hold;
\* that of a main thread comes only from the thread itself or its root.
LEMMA ConversationsOfAFamily ==
  ASSUME RowsOK, NEW root \in CodexFiles, NEW members, members \subseteq CodexFiles,
         NEW c \in CodexFamily(codex, root, members, db.rows)
  PROVE  /\ FamilyMember(c)
         /\ \E f \in CodexFiles :
               /\ c.ref = <<"codex", f>>
               /\ IsSubagent(codex, f) => c.files = {f}
               /\ f \in members \/ f = root
<1> DEFINE stored == StoredThread(db.rows, root)
           paths == members \cup UNION {r.files : r \in stored}
           present == {f \in paths : codex[f] # Absent}
           grouped == GroupRollouts(codex, present)
           kept == IF stored = {} THEN grouped ELSE {d \in grouped : d.ref = <<"codex", root>>}
           refs == {r.ref : r \in stored} \cup {d.ref : d \in grouped}
<1>1. c \in {[ref |-> d.ref, files |-> d.files, replaces |-> refs] : d \in kept}
  BY DEF CodexFamily
<1>2. PICK d \in kept : c = [ref |-> d.ref, files |-> d.files, replaces |-> refs]
  BY <1>1
<1>3. c.ref = d.ref /\ c.files = d.files /\ c.replaces = refs
  BY <1>2
<1>4. \A r \in stored : r.files \subseteq CodexFiles /\ r.ref[1] = "codex"
  BY RowOfARollout
<1>5. present \subseteq CodexFiles
  BY <1>4
<1>6. d \in grouped
  BY <1>2
<1> HIDE DEF present
<1>7. \A e \in grouped : \E f \in present : GroupUnder(codex, present, f, e)
  BY <1>5, GroupsOfRollouts
<1>8. ASSUME NEW e \in grouped PROVE e.ref[1] = "codex"
  <2>1. PICK f \in present : e = CodexConversation(f, e.files)
    BY <1>7 DEF GroupUnder
  <2>2. QED
    BY <2>1, CodexRefs
<1>9. \A ref \in refs : ref[1] = "codex"
  BY <1>4, <1>8
<1>10. PICK f \in present : GroupUnder(codex, present, f, d)
  BY <1>6, <1>7
<1>11. d.ref = <<"codex", f>>
  BY <1>10, CodexRefs DEF GroupUnder
<1>12. c.ref \in refs
  BY <1>3, <1>6
<1>13. FamilyMember(c)
  BY <1>3, <1>5, <1>9, <1>10, <1>11, <1>12 DEF FamilyMember, GroupUnder
<1>14. f \in members \/ f = root
  <2>1. CASE stored = {}
    BY <2>1 DEF present
  <2>2. CASE stored # {}
    <3>1. d.ref = <<"codex", root>>
      BY <1>2, <2>2
    <3>2. QED
      BY <1>11, <3>1
  <2>3. QED
    BY <2>1, <2>2
<1>15. QED
  BY <1>3, <1>5, <1>10, <1>11, <1>13, <1>14 DEF GroupUnder

\* One family gives one conversation per key.
LEMMA FamiliesAreGroups ==
  ASSUME RowsOK, NEW root \in CodexFiles, NEW members, members \subseteq CodexFiles,
         NEW c \in CodexFamily(codex, root, members, db.rows),
         NEW d \in CodexFamily(codex, root, members, db.rows), c.ref = d.ref
  PROVE  c.files = d.files
<1> DEFINE stored == StoredThread(db.rows, root)
           paths == members \cup UNION {r.files : r \in stored}
           present == {f \in paths : codex[f] # Absent}
           grouped == GroupRollouts(codex, present)
           kept == IF stored = {} THEN grouped ELSE {e \in grouped : e.ref = <<"codex", root>>}
           refs == {r.ref : r \in stored} \cup {e.ref : e \in grouped}
<1>1. /\ c \in {[ref |-> e.ref, files |-> e.files, replaces |-> refs] : e \in kept}
      /\ d \in {[ref |-> e.ref, files |-> e.files, replaces |-> refs] : e \in kept}
  BY DEF CodexFamily
<1>2. \A r \in stored : r.files \subseteq CodexFiles
  BY RowOfARollout
<1>3. present \subseteq CodexFiles
  BY <1>2
<1> HIDE DEF present
<1>4. PICK e \in kept : c.ref = e.ref /\ c.files = e.files
  BY <1>1
<1>5. PICK g \in kept : d.ref = g.ref /\ d.files = g.files
  BY <1>1
<1>6. e \in grouped /\ g \in grouped
  BY <1>4, <1>5
<1>7. e = g
  BY <1>3, <1>4, <1>5, <1>6, GroupsAreDistinct
<1>8. QED
  BY <1>4, <1>5, <1>7

\* Of all the families a change resolves, no two give different conversations
\* under one key.
LEMMA ResolvedRollouts ==
  ASSUME RowsOK, CodexTyped, NEW changed, changed \subseteq CodexFiles
  PROVE  /\ \A c \in CodexResolve(codex, changed, db.rows) : FamilyMember(c)
         /\ \A c, d \in CodexResolve(codex, changed, db.rows) :
                c.ref = d.ref => c.files = d.files
<1> DEFINE good == {f \in changed : CodexScans(codex, f)}
           gone == {f \in changed : codex[f] = Absent}
           rootOf == [f \in good |-> IncrementalRoot(codex, good, db.rows, f)]
           roots == (UNION {StoredRoots(db.rows, f) : f \in gone}) \cup {rootOf[f] : f \in good}
           members(root) == {f \in good : rootOf[f] = root}
           family(root) == CodexFamily(codex, root, members(root), db.rows)
<1>1. \A c \in CodexResolve(codex, changed, db.rows) : \E root \in roots : c \in family(root)
  BY DEF CodexResolve
<1>2. good \subseteq {f \in CodexFiles : CodexScans(codex, f)}
  OBVIOUS
<1> HIDE DEF good
<1>3. \A f \in good : /\ rootOf[f] \in CodexFiles
                      /\ ~IsSubagent(codex, f) => rootOf[f] = f
  BY <1>2, RootOfARollout
<1>4. ASSUME NEW f \in gone PROVE StoredRoots(db.rows, f) \subseteq CodexFiles
  <2>1. \A r \in StoredThread(db.rows, f) : r.ref[2] \in CodexFiles
    BY RowOfARollout
  <2>2. QED
    BY <2>1 DEF StoredRoots
<1> HIDE DEF rootOf, gone
<1>5. ASSUME NEW x \in roots PROVE x \in CodexFiles
  <2>1. CASE x \in UNION {StoredRoots(db.rows, f) : f \in gone}
    <3>1. PICK f \in gone : x \in StoredRoots(db.rows, f)
      BY <2>1
    <3>2. QED
      BY <1>4, <3>1
  <2>2. CASE x \in {rootOf[f] : f \in good}
    BY <1>3, <2>2
  <2>3. QED
    BY <2>1, <2>2
<1>6. \A root : members(root) \subseteq CodexFiles
  BY <1>2
<1> HIDE DEF roots
<1>7. ASSUME NEW c \in CodexResolve(codex, changed, db.rows)
      PROVE  \E root \in CodexFiles :
               /\ c \in family(root) /\ FamilyMember(c)
               /\ \E f \in CodexFiles : /\ c.ref = <<"codex", f>>
                                        /\ IsSubagent(codex, f) => c.files = {f}
                                        /\ ~IsSubagent(codex, f) => f = root
  <2>1. PICK root \in CodexFiles : c \in family(root)
    BY <1>1, <1>5
  <2>2. members(root) \subseteq CodexFiles
    BY <1>6
  <2>3. PICK f \in CodexFiles :
          /\ FamilyMember(c)
          /\ c.ref = <<"codex", f>>
          /\ IsSubagent(codex, f) => c.files = {f}
          /\ f \in members(root) \/ f = root
    BY <2>1, <2>2, ConversationsOfAFamily
  <2>4. ~IsSubagent(codex, f) => f = root
    BY <1>3, <2>3
  <2>5. QED
    BY <2>1, <2>3, <2>4
<1>8. ASSUME NEW c \in CodexResolve(codex, changed, db.rows),
             NEW d \in CodexResolve(codex, changed, db.rows), c.ref = d.ref
      PROVE  c.files = d.files
  <2>1. PICK r1 \in CodexFiles :
          /\ c \in family(r1)
          /\ \E f \in CodexFiles : /\ c.ref = <<"codex", f>>
                                   /\ IsSubagent(codex, f) => c.files = {f}
                                   /\ ~IsSubagent(codex, f) => f = r1
    BY <1>7
  <2>2. PICK r2 \in CodexFiles :
          /\ d \in family(r2)
          /\ \E f \in CodexFiles : /\ d.ref = <<"codex", f>>
                                   /\ IsSubagent(codex, f) => d.files = {f}
                                   /\ ~IsSubagent(codex, f) => f = r2
    BY <1>7
  <2>3. PICK f \in CodexFiles : /\ c.ref = <<"codex", f>>
                                /\ IsSubagent(codex, f) => c.files = {f}
                                /\ ~IsSubagent(codex, f) => f = r1
    BY <2>1
  <2>4. PICK g \in CodexFiles : /\ d.ref = <<"codex", g>>
                                /\ IsSubagent(codex, g) => d.files = {g}
                                /\ ~IsSubagent(codex, g) => g = r2
    BY <2>2
  <2>a. <<"codex", f>> = <<"codex", g>>
    BY <1>8, <2>3, <2>4
  <2>5. f = g
    BY <2>a
  <2>6. CASE IsSubagent(codex, f)
    BY <2>3, <2>4, <2>5, <2>6
  <2>7. CASE ~IsSubagent(codex, f)
    <3>1. r1 = r2
      BY <2>3, <2>4, <2>5, <2>7
    <3>2. members(r1) \subseteq CodexFiles
      BY <1>6
    <3>3. c \in family(r1) /\ d \in family(r1)
      BY <2>1, <2>2, <3>1
    <3>4. QED
      BY <1>8, <3>2, <3>3, FamiliesAreGroups
  <2>8. QED
    BY <2>6, <2>7
<1>9. QED
  BY <1>7, <1>8

(* A Claude conversation: the members of its reference. *)
ClaudeGroup(c) ==
    /\ c.files = ClaudeMembers(claude, c.ref)
    /\ c.files # {} /\ c.files \subseteq ClaudeFiles
    /\ c.ref \in {ClaudeRef(claude, f) : f \in ClaudeFiles}
    /\ c.ref[1] \in {"path", "group"}
    /\ \A g \in c.files : claude[g] # Missing /\ ClaudeRef(claude, g) = c.ref

\* A Claude key is of a path or of a group, and a path key names its file.
LEMMA KindsOfClaudeRefs ==
  ASSUME NEW f
  PROVE  /\ ClaudeRef(claude, f)[1] \in {"path", "group"}
         /\ \A g : ClaudeRef(claude, f) = <<"path", g>> => f = g
<1>1. CASE f \in DOMAIN SubagentOf \/ claude[f].slug = NoSlug
  <2>1. ClaudeRef(claude, f) = <<"path", f>>
    BY <1>1 DEF ClaudeRef
  <2>2. <<"path", f>>[1] = "path" /\ <<"path", f>>[2] = f
    OBVIOUS
  <2>3. \A g : <<"path", g>>[2] = g
    OBVIOUS
  <2>4. QED
    BY <2>1, <2>2, <2>3
<1>2. CASE ~(f \in DOMAIN SubagentOf \/ claude[f].slug = NoSlug)
  <2>1. PICK s, p : ClaudeRef(claude, f) = <<"group", p, s>>
    BY <1>2 DEF ClaudeRef
  <2>2. <<"group", p, s>>[1] = "group"
    OBVIOUS
  <2>3. \A g : <<"path", g>>[1] = "path"
    OBVIOUS
  <2>4. QED
    BY <2>1, <2>2, <2>3
<1>3. QED
  BY <1>1, <1>2

\* Every Claude conversation holds exactly the members of its key.
LEMMA GroupsOfSessions ==
  ASSUME NEW c \in ClaudeConversations(claude)
  PROVE  ClaudeGroup(c)
<1> DEFINE refs == {ClaudeRef(claude, f) : f \in {g \in ClaudeFiles : ClaudeScans(claude, g)}}
<1>1. PICK r \in refs : /\ \E f \in ClaudeMembers(claude, r) : claude[f].level = 2
                        /\ c = [ref |-> r, files |-> ClaudeMembers(claude, r)]
  BY DEF ClaudeConversations
<1>2. c.ref = r /\ c.files = ClaudeMembers(claude, r)
  BY <1>1
<1>3. PICK f \in ClaudeFiles : r = ClaudeRef(claude, f)
  BY <1>1
<1>4. r[1] \in {"path", "group"}
  BY <1>3, KindsOfClaudeRefs
<1>5. \A g \in ClaudeMembers(claude, r) : g \in ClaudeFiles /\ claude[g] # Missing /\ ClaudeRef(claude, g) = r
  BY DEF ClaudeMembers, ClaudeScans
<1>6. QED
  BY <1>1, <1>2, <1>3, <1>4, <1>5 DEF ClaudeGroup

(* What a resolved Claude conversation replaces: itself, and the rows that  *)
(* hold one of its files.                                                   *)
LEMMA ResolvedSessions ==
  ASSUME NEW changed, changed \subseteq ClaudeFiles,
         NEW c \in ClaudeResolve(claude, changed, db.rows)
  PROVE  /\ ClaudeGroup(c)
         /\ c.ref \in c.replaces
         /\ \A ref \in c.replaces :
               \/ ref = c.ref
               \/ \E r \in db.rows : /\ r.ref = ref
                                     /\ \E f \in r.files : /\ f \in ClaudeFiles
                                                           /\ claude[f] # Missing
                                                           /\ ClaudeRef(claude, f) = c.ref
<1> DEFINE targets == {ClaudeRef(claude, f) : f \in {g \in changed : ClaudeScans(claude, g)}}
<1>1. PICK d \in ClaudeConversations(claude) :
        /\ d.ref \in targets
        /\ c = [ref |-> d.ref, files |-> d.files,
                replaces |-> ClaudeReplaces(claude, changed, db.rows, d.ref)]
  BY DEF ClaudeResolve
<1>2. /\ c.ref = d.ref /\ c.files = d.files
      /\ c.replaces = ClaudeReplaces(claude, changed, db.rows, d.ref)
  BY <1>1
<1>3. ClaudeGroup(d)
  BY GroupsOfSessions
<1>4. ClaudeGroup(c)
  BY <1>2, <1>3 DEF ClaudeGroup
<1>5. c.ref \in c.replaces
  <2>1. PICK f \in changed : ClaudeScans(claude, f) /\ ClaudeRef(claude, f) = d.ref
    BY <1>1
  <2>2. QED
    BY <1>2, <2>1 DEF ClaudeReplaces
<1>6. ASSUME NEW ref \in c.replaces, ref # c.ref
      PROVE  \E r \in db.rows : /\ r.ref = ref
                                /\ \E f \in r.files : /\ f \in ClaudeFiles
                                                      /\ claude[f] # Missing
                                                      /\ ClaudeRef(claude, f) = c.ref
  <2>1. PICK f \in changed : /\ ClaudeScans(claude, f) /\ ClaudeRef(claude, f) = d.ref
                             /\ ref \in StoredRefs(db.rows, f)
    BY <1>2, <1>6 DEF ClaudeReplaces
  <2>2. PICK r \in db.rows : f \in r.files /\ r.ref = ref
    BY <2>1 DEF StoredRefs, StoredRow
  <2>3. QED
    BY <1>2, <2>1, <2>2 DEF ClaudeScans
<1>7. QED
  BY <1>4, <1>5, <1>6

-----------------------------------------------------------------------------
(* What is parsed *)

\* What a function covers from a finite set is finite.
LEMMA ImageIsFinite ==
  ASSUME NEW S, IsFiniteSet(S), NEW g, NEW T, \A t \in T : \E s \in S : t = g[s]
  PROVE  IsFiniteSet(T)
<1>1. CASE T = {}
  BY <1>1, FS_EmptySet
<1>2. CASE T # {}
  <2>1. PICK t0 : t0 \in T
    BY <1>2
  <2>2. PICK h : h = [s \in S |-> IF g[s] \in T THEN g[s] ELSE t0]
    OBVIOUS
  <2>3. h \in [S -> T]
    BY <2>1, <2>2
  <2>4. \A t \in T : \E s \in S : h[s] = t
    BY <2>2
  <2>5. h \in Surjection(S, T)
    BY <2>3, <2>4 DEF Surjection
  <2>6. QED
    BY <2>5, FS_Surjection
<1>3. QED
  BY <1>1, <1>2

\* A parsed content: everything a rebuild stores of a conversation, determined
\* by its key for Claude, by its key and files for Codex.
ClaudeContent(p) ==
    /\ ClaudeGroup(p)
    /\ p = [ref |-> p.ref, files |-> ClaudeMembers(claude, p.ref),
            text |-> ClaudeTranscript(claude, [files |-> ClaudeMembers(claude, p.ref)])]

CodexContent(p) ==
    /\ p.files \subseteq CodexFiles
    /\ \E f \in CodexFiles : p.ref = <<"codex", f>> /\ f \in p.files
    /\ p = [ref |-> p.ref, files |-> p.files, text |-> CodexTranscript(codex, [files |-> p.files])]

\* A rebuild writes finitely many conversations.
LEMMA ContentsAreFinite ==
  ASSUME NEW T, \A p \in T : ClaudeContent(p) \/ CodexContent(p)
  PROVE  IsFiniteSet(T)
<1>1. IsFiniteSet({p \in T : ClaudeContent(p)})
  <2>1. PICK g : g = [f \in ClaudeFiles |->
          [ref |-> ClaudeRef(claude, f), files |-> ClaudeMembers(claude, ClaudeRef(claude, f)),
           text |-> ClaudeTranscript(claude, [files |-> ClaudeMembers(claude, ClaudeRef(claude, f))])]]
    OBVIOUS
  <2>2. ASSUME NEW p \in T, ClaudeContent(p) PROVE \E f \in ClaudeFiles : p = g[f]
    <3>1. PICK f \in ClaudeFiles : p.ref = ClaudeRef(claude, f)
      BY <2>2 DEF ClaudeContent, ClaudeGroup
    <3>2. p = g[f]
      BY <2>1, <2>2, <3>1 DEF ClaudeContent
    <3>3. QED
      BY <3>2
  <2>3. IsFiniteSet(ClaudeFiles)
    BY ClaudeFilesAssumption
  <2>4. QED
    BY <2>2, <2>3, ImageIsFinite
<1>2. IsFiniteSet({p \in T : CodexContent(p)})
  <2>1. PICK S : S = CodexFiles \X SUBSET CodexFiles
    OBVIOUS
  <2>2. IsFiniteSet(S)
    BY <2>1, CodexFilesAssumption, FS_SUBSET, FS_Product
  <2>3. PICK g : g = [s \in S |-> [ref |-> <<"codex", s[1]>>, files |-> s[2],
                                   text |-> CodexTranscript(codex, [files |-> s[2]])]]
    OBVIOUS
  <2>4. ASSUME NEW p \in T, CodexContent(p) PROVE \E s \in S : p = g[s]
    <3>1. PICK f \in CodexFiles : p.ref = <<"codex", f>>
      BY <2>4 DEF CodexContent
    <3>2. PICK s : s = <<f, p.files>>
      OBVIOUS
    <3>3. s \in S /\ s[1] = f /\ s[2] = p.files
      BY <2>1, <2>4, <3>2 DEF CodexContent
    <3>4. p = g[s]
      BY <2>3, <2>4, <3>1, <3>3 DEF CodexContent
    <3>5. QED
      BY <3>3, <3>4
  <2>5. QED
    BY <2>2, <2>4, ImageIsFinite
<1>3. T = {p \in T : ClaudeContent(p)} \cup {p \in T : CodexContent(p)}
  OBVIOUS
<1>4. QED
  BY <1>1, <1>2, <1>3, FS_Union

\* Parsing a Claude conversation gives the content of its key.
LEMMA ClaudeContents ==
  ASSUME NEW c, ClaudeGroup(c)
  PROVE  ClaudeContent(Claude(c)) /\ Claude(c).ref = c.ref
<1>1. Claude(c).ref = c.ref /\ Claude(c).files = c.files
  BY DEF Claude
<1>2. ClaudeTranscript(claude, c) = ClaudeTranscript(claude, [files |-> c.files])
  BY DEF ClaudeTranscript
<1>3. c.files = ClaudeMembers(claude, c.ref)
  BY DEF ClaudeGroup
<1>4. ClaudeGroup(Claude(c))
  BY <1>1 DEF ClaudeGroup
<1>5. QED
  BY <1>1, <1>2, <1>3, <1>4 DEF ClaudeContent, Claude

\* Parsing a Codex conversation gives the content of its files.
LEMMA CodexContents ==
  ASSUME NEW c, c.files \subseteq CodexFiles,
         \E f \in CodexFiles : c.ref = <<"codex", f>> /\ f \in c.files
  PROVE  CodexContent(Codex(c)) /\ Codex(c).ref = c.ref /\ Codex(c).files = c.files
<1>1. Codex(c).ref = c.ref /\ Codex(c).files = c.files
  BY DEF Codex
<1>2. CodexTranscript(codex, c) = CodexTranscript(codex, [files |-> c.files])
  BY DEF CodexTranscript
<1>3. QED
  BY <1>1, <1>2 DEF CodexContent, Codex

\* Contents of the two providers never share a key, and a key tells the content.
LEMMA KindsOfContents ==
  ASSUME NEW p, NEW q, p.ref = q.ref
  PROVE  /\ ~(ClaudeContent(p) /\ CodexContent(q))
         /\ ClaudeContent(p) /\ ClaudeContent(q) => p = q
         /\ CodexContent(p) /\ CodexContent(q) /\ p.files = q.files => p = q
<1>1. ClaudeContent(p) => p.ref[1] \in {"path", "group"}
  BY DEF ClaudeContent, ClaudeGroup
<1>2. CodexContent(q) => q.ref[1] = "codex"
  <2>1. ASSUME CodexContent(q) PROVE q.ref[1] = "codex"
    <3>1. PICK f \in CodexFiles : q.ref = <<"codex", f>>
      BY <2>1 DEF CodexContent
    <3>2. QED
      BY <3>1
  <2>2. QED
    BY <2>1
<1>3. ClaudeContent(p) /\ ClaudeContent(q) => p = q
  BY DEF ClaudeContent
<1>4. CodexContent(p) /\ CodexContent(q) /\ p.files = q.files => p = q
  BY DEF CodexContent
<1>5. QED
  BY <1>1, <1>2, <1>3, <1>4

\* A batch a rebuild may insert: contents, one per key.
Contents(T) ==
    /\ \A p \in T : ClaudeContent(p) \/ CodexContent(p)
    /\ \A p, q \in T : p.ref = q.ref => p = q

\* A full scan gives one content per key.
LEMMA FullContentsAreContents == Contents(FullContents)
<1> DEFINE set == {f \in CodexFiles : CodexScans(codex, f)}
<1>1. ASSUME NEW p \in FullContents
      PROVE  \/ ClaudeContent(p)
             \/ \E c \in GroupRollouts(codex, set) : p = Codex(c) /\ CodexContent(p) /\ p.ref = c.ref
  <2>1. CASE p \in ParsedClaude(ClaudeConversations(claude))
    <3>1. PICK c \in ClaudeConversations(claude) : p = Claude(c)
      BY <2>1 DEF ParsedClaude
    <3>2. QED
      BY <3>1, GroupsOfSessions, ClaudeContents
  <2>2. CASE p \in ParsedCodex(CodexConversations(codex))
    <3>1. PICK c \in GroupRollouts(codex, set) : p = Codex(c)
      BY <2>2 DEF ParsedCodex, CodexConversations
    <3>2. PICK f \in set : GroupUnder(codex, set, f, c)
      BY GroupsOfRollouts
    <3>3. c.files \subseteq CodexFiles /\ c.ref = <<"codex", f>> /\ f \in c.files
      BY <3>2, CodexRefs DEF GroupUnder
    <3>4. CodexContent(p) /\ p.ref = c.ref
      BY <3>1, <3>3, CodexContents
    <3>5. QED
      BY <3>1, <3>4
  <2>3. QED
    BY <2>1, <2>2 DEF FullContents
<1>2. ASSUME NEW p \in FullContents, NEW q \in FullContents, p.ref = q.ref PROVE p = q
  <2>1. CASE ClaudeContent(p)
    BY <1>1, <1>2, <2>1, KindsOfContents
  <2>2. CASE ~ClaudeContent(p)
    <3>1. PICK c \in GroupRollouts(codex, set) : p = Codex(c) /\ CodexContent(p) /\ p.ref = c.ref
      BY <1>1, <2>2
    <3>2. ~ClaudeContent(q)
      BY <1>2, <3>1, KindsOfContents
    <3>3. PICK d \in GroupRollouts(codex, set) : q = Codex(d) /\ q.ref = d.ref
      BY <1>1, <3>2
    <3>4. set \subseteq CodexFiles
      OBVIOUS
    <3>5. c = d
      BY <1>2, <3>1, <3>3, <3>4, GroupsAreDistinct
    <3>6. QED
      BY <3>1, <3>3, <3>5
  <2>3. QED
    BY <2>1, <2>2
<1>3. QED
  BY <1>1, <1>2 DEF Contents

\* A resolved conversation comes from one of the two resolvers.
LEMMA ResolutionIsSplit ==
  ASSUME RowsOK, CodexTyped, NEW c \in Resolution
  PROVE  \/ /\ c \in ClaudeResolve(claude, pending \cap ClaudeFiles, db.rows)
            /\ ClaudeGroup(c) /\ ~(c.files \subseteq CodexFiles)
            /\ c.ref \in c.replaces
            /\ \A ref \in c.replaces :
                 \/ ref = c.ref
                 \/ \E r \in db.rows : /\ r.ref = ref
                                       /\ \E f \in r.files : /\ f \in ClaudeFiles
                                                             /\ claude[f] # Missing
                                                             /\ ClaudeRef(claude, f) = c.ref
         \/ /\ c \in CodexResolve(codex, pending \cap CodexFiles, db.rows)
            /\ FamilyMember(c) /\ ~(c.files \subseteq ClaudeFiles)
<1>1. CASE c \in ClaudeResolve(claude, pending \cap ClaudeFiles, db.rows)
  <2>1. pending \cap ClaudeFiles \subseteq ClaudeFiles
    OBVIOUS
  <2>2. /\ ClaudeGroup(c) /\ c.ref \in c.replaces
        /\ \A ref \in c.replaces :
                 \/ ref = c.ref
                 \/ \E r \in db.rows : /\ r.ref = ref
                                       /\ \E f \in r.files : /\ f \in ClaudeFiles
                                                             /\ claude[f] # Missing
                                                             /\ ClaudeRef(claude, f) = c.ref
    BY <1>1, <2>1, ResolvedSessions
  <2>3. ~(c.files \subseteq CodexFiles)
    BY <2>2, SourcesAssumption DEF ClaudeGroup
  <2>4. QED
    BY <1>1, <2>2, <2>3
<1>2. CASE c \in CodexResolve(codex, pending \cap CodexFiles, db.rows)
  <2>1. pending \cap CodexFiles \subseteq CodexFiles
    OBVIOUS
  <2>2. FamilyMember(c)
    BY <1>2, <2>1, ResolvedRollouts
  <2>3. ~(c.files \subseteq ClaudeFiles)
    BY <2>2, SourcesAssumption DEF FamilyMember
  <2>4. QED
    BY <1>2, <2>2, <2>3
<1>3. QED
  BY <1>1, <1>2 DEF Resolution

\* Every parsed content comes from a resolved conversation of its key.
LEMMA ParsedContents ==
  ASSUME RowsOK, CodexTyped, NEW p \in Parsed(Resolution)
  PROVE  \/ /\ ClaudeContent(p)
            /\ \E c \in Resolution : ClaudeGroup(c) /\ c.ref = p.ref /\ c.ref \in c.replaces
         \/ /\ CodexContent(p)
            /\ \E c \in CodexResolve(codex, pending \cap CodexFiles, db.rows) :
                  /\ c \in Resolution /\ FamilyMember(c)
                  /\ c.ref = p.ref /\ c.files = p.files
<1>1. CASE p \in ParsedClaude({c \in Resolution : c.files \subseteq ClaudeFiles})
  <2>1. PICK c \in Resolution : c.files \subseteq ClaudeFiles /\ p = Claude(c)
    BY <1>1 DEF ParsedClaude
  <2>2. ClaudeGroup(c) /\ c.ref \in c.replaces
    BY <2>1, ResolutionIsSplit
  <2>3. QED
    BY <2>1, <2>2, ClaudeContents
<1>2. CASE p \in ParsedCodex({c \in Resolution : c.files \subseteq CodexFiles})
  <2>1. PICK c \in Resolution : c.files \subseteq CodexFiles /\ p = Codex(c)
    BY <1>2 DEF ParsedCodex
  <2>2. c \in CodexResolve(codex, pending \cap CodexFiles, db.rows) /\ FamilyMember(c)
    BY <2>1, ResolutionIsSplit
  <2>3. CodexContent(Codex(c)) /\ Codex(c).ref = c.ref /\ Codex(c).files = c.files
    BY <2>2, CodexContents DEF FamilyMember
  <2>4. QED
    BY <2>1, <2>2, <2>3
<1>3. QED
  BY <1>1, <1>2 DEF Parsed

\* An incremental rebuild parses one content per key.
LEMMA ParsedIsContents ==
  ASSUME RowsOK, CodexTyped
  PROVE  Contents(Parsed(Resolution))
<1>1. \A p \in Parsed(Resolution) : ClaudeContent(p) \/ CodexContent(p)
  BY ParsedContents
<1>2. ASSUME NEW p \in Parsed(Resolution), NEW q \in Parsed(Resolution), p.ref = q.ref PROVE p = q
  <2>1. CASE ClaudeContent(p)
    BY <1>1, <1>2, <2>1, KindsOfContents
  <2>2. CASE ~ClaudeContent(p)
    <3>1. CodexContent(p) /\ ~ClaudeContent(q)
      BY <1>1, <1>2, <2>2, KindsOfContents
    <3>2. PICK c \in CodexResolve(codex, pending \cap CodexFiles, db.rows) :
            c.ref = p.ref /\ c.files = p.files
      BY <2>2, ParsedContents
    <3>3. PICK d \in CodexResolve(codex, pending \cap CodexFiles, db.rows) :
            CodexContent(q) /\ d.ref = q.ref /\ d.files = q.files
      BY <3>1, ParsedContents
    <3>4. pending \cap CodexFiles \subseteq CodexFiles
      OBVIOUS
    <3>5. c.files = d.files
      BY <1>2, <3>2, <3>3, <3>4, ResolvedRollouts
    <3>6. QED
      BY <1>2, <3>1, <3>2, <3>3, <3>5, KindsOfContents
  <2>3. QED
    BY <2>1, <2>2
<1>3. QED
  BY <1>1, <1>2 DEF Contents

(* Every parsed content is stored under a key that the transaction replaces:*)
(* what a Claude conversation replaces and is not itself is a row whose     *)
(* file now belongs to it, and a row never belongs to two of them.          *)
LEMMA ParsedIsReplaced ==
  ASSUME RowsOK, CodexTyped, NEW attached \in Attachments(Resolution),
         NEW p \in Parsed(Resolution)
  PROVE  p.ref \in ReplacedRefs(attached, Parsed(Resolution))
<1>1. PICK c \in Resolution : c.ref = p.ref /\ c.ref \in c.replaces
  BY ParsedContents DEF FamilyMember
<1>2. DOMAIN attached = UNION {d.replaces : d \in Resolution}
  BY DEF Attachments
<1>3. p.ref \in DOMAIN attached
  BY <1>1, <1>2
<1>4. PICK d \in Resolution : d = attached[p.ref] /\ p.ref \in d.replaces
  BY <1>3 DEF Attachments
<1>5. \E q \in Parsed(Resolution) : q.ref = d.ref
  <2>1. CASE FamilyMember(d)
    <3>1. d.files \subseteq CodexFiles
      BY <2>1 DEF FamilyMember
    <3>2. Codex(d) \in Parsed(Resolution)
      BY <3>1 DEF Parsed, ParsedCodex
    <3>3. Codex(d).ref = d.ref
      BY DEF Codex
    <3>4. QED
      BY <3>2, <3>3
  <2>2. CASE ClaudeGroup(d) /\ d.ref = p.ref
    BY <2>2
  <2>3. ASSUME ClaudeGroup(d), p.ref # d.ref,
               NEW r \in db.rows, r.ref = p.ref,
               NEW f \in r.files, f \in ClaudeFiles, claude[f] # Missing,
               ClaudeRef(claude, f) = d.ref
        PROVE  FALSE
    <3>1. ClaudeRow(r)
      BY <2>3, SourcesAssumption DEF RowsOK, CodexRow
    <3>2. p.ref = <<"path", f>>
      BY <2>3, <3>1 DEF ClaudeRow
    <3>3. p.ref[1] = "path"
      BY <3>2
    <3>4. ClaudeContent(p)
      <4>1. ASSUME FamilyMember(c) PROVE FALSE
        <5>1. PICK g \in CodexFiles : p.ref = <<"codex", g>>
          BY <1>1, <4>1 DEF FamilyMember
        <5>2. p.ref[1] = "codex"
          BY <5>1
        <5>3. QED
          BY <3>3, <5>2
      <4>2. ASSUME CodexContent(p) PROVE FALSE
        <5>1. PICK g \in CodexFiles : p.ref = <<"codex", g>>
          BY <4>2 DEF CodexContent
        <5>2. p.ref[1] = "codex"
          BY <5>1
        <5>3. QED
          BY <3>3, <5>2
      <4>3. QED
        BY <4>2, ParsedContents
    <3>5. PICK g \in p.files : ClaudeRef(claude, g) = <<"path", f>>
      BY <3>2, <3>4 DEF ClaudeContent, ClaudeGroup
    <3>6. g = f
      BY <3>5, KindsOfClaudeRefs
    <3>7. QED
      BY <2>3, <3>2, <3>5, <3>6
  <2>4. QED
    BY <1>4, <2>1, <2>2, <2>3, ResolutionIsSplit
<1>6. QED
  BY <1>3, <1>4, <1>5 DEF ReplacedRefs

-----------------------------------------------------------------------------
(* The invariant *)

\* The types, with an outcome that is never a collision.
Typed ==
    /\ claude \in [ClaudeFiles -> ClaudeEntries(1..MaxClaudeWrites) \cup {Missing}]
    /\ CodexTyped
    /\ pending \subseteq Files
    /\ outcome \in {"none", "full", "incremental"}
    /\ built \in BOOLEAN
    /\ writes \in [claude : 0..MaxClaudeWrites, codex : 0..MaxCodexWrites]
    /\ lost \subseteq Files

\* Consistent tables whose index holds the postings of their chunks.
Indexed(t) == Consistent(t) /\ t.fts = Postings(t.chunks)

\* The inductive invariant.
TablesInv == Typed /\ RowsOK /\ Indexed(db)

\* The tables of a new database are consistent and indexed.
LEMMA EmptyTablesAreIndexed == Indexed(EmptyTables)
<1>1. PICK t : t = EmptyTables
  OBVIOUS
<1>2. t.rows = {} /\ t.chunks = {} /\ t.fts = {} /\ t.stats = {} /\ IsTables(t)
  BY <1>1 DEF EmptyTables, IsTables
<1>3. Consistent(t)
  BY <1>2 DEF Consistent, Bounded, KeysUnique, ChunksTell, StatsOf
<1>4. QED
  BY <1>1, <1>2, <1>3 DEF Indexed, Postings

\* A row that stores a content.
RowOfContent(r, p) == r.ref = p.ref /\ r.files = p.files /\ r.text = p.text

\* The row of a content is a row of its provider.
LEMMA RowsOfContents ==
  ASSUME NEW r, NEW p, RowOfContent(r, p), ClaudeContent(p) \/ CodexContent(p)
  PROVE  ClaudeRow(r) \/ CodexRow(r)
<1>1. CASE ClaudeContent(p)
  BY <1>1 DEF RowOfContent, ClaudeContent, ClaudeGroup, ClaudeRow
<1>2. CASE CodexContent(p)
  BY <1>2 DEF RowOfContent, CodexContent, CodexRow
<1>3. QED
  BY <1>1, <1>2

\* A full rebuild leaves consistent, indexed tables.
LEMMA FullTablesAreIndexed ==
  /\ Indexed(FullTables)
  /\ \A r \in FullTables.rows : ClaudeRow(r) \/ CodexRow(r)
  /\ \A r \in FullTables.rows : \E p \in FullContents : RowOfContent(r, p)
  /\ \A p \in FullContents : \E r \in FullTables.rows : RowOfContent(r, p)
<1>1. PICK t : t = EmptyTables
  OBVIOUS
<1>2. Consistent(t) /\ t.fts = Postings(t.chunks) /\ t.rows = {}
  BY <1>1, EmptyTablesAreIndexed DEF Indexed, EmptyTables
<1>3. PICK convs : convs = FullContents
  OBVIOUS
<1>4. /\ \A p \in convs : ClaudeContent(p) \/ CodexContent(p)
      /\ \A p, q \in convs : p.ref = q.ref => p = q
  BY <1>3, FullContentsAreContents DEF Contents
<1>5. IsFiniteSet(convs)
  BY <1>4, ContentsAreFinite
<1>6. PICK v : v = InsertConversations(t, convs)
  OBVIOUS
<1>7. PICK refs : refs = {r.ref : r \in v.rows}
  OBVIOUS
<1>8. PICK u : u = PopulateSearchIndex(v, refs)
  OBVIOUS
<1>9. v.rows = t.rows \cup {NewRow(t, convs, c) : c \in convs}
  BY <1>2, <1>6, WhatIsInserted DEF Consistent
<1>10. \A c \in convs : c.ref \in refs
  <2>1. ASSUME NEW c \in convs PROVE c.ref \in refs
    <3>1. NewRow(t, convs, c) \in v.rows
      BY <1>9
    <3>2. NewRow(t, convs, c).ref = c.ref
      BY DEF NewRow
    <3>3. QED
      BY <1>7, <3>1, <3>2
  <2>2. QED
    BY <2>1
<1>11. \A c \in convs : \A r \in t.rows : c.ref # r.ref
  BY <1>2
<1>12. /\ Consistent(u) /\ u.fts = Postings(u.chunks)
       /\ \A r \in u.rows : r \in t.rows \/ \E c \in convs : RowOfContent(r, c)
       /\ \A c \in convs : \E r \in u.rows : RowOfContent(r, c)
       /\ t.rows \subseteq u.rows
  <2>1. /\ Consistent(u) /\ u.fts = Postings(u.chunks)
        /\ \A r \in u.rows : \/ r \in t.rows
                             \/ \E c \in convs : r.ref = c.ref /\ r.files = c.files /\ r.text = c.text
        /\ \A c \in convs : \E r \in u.rows : r.ref = c.ref /\ r.files = c.files /\ r.text = c.text
        /\ t.rows \subseteq u.rows
    BY <1>2, <1>4, <1>5, <1>6, <1>8, <1>10, <1>11, InsertionIsIndexed
  <2>2. QED
    BY <2>1 DEF RowOfContent
<1>13. u = FullTables
  BY <1>1, <1>3, <1>6, <1>7, <1>8 DEF FullTables
<1>14. \A r \in u.rows : ClaudeRow(r) \/ CodexRow(r)
  BY <1>2, <1>4, <1>12, RowsOfContents
<1>15. QED
  BY <1>2, <1>3, <1>12, <1>13, <1>14 DEF Indexed

\* So does the transaction of an incremental rebuild, and it never meets a key
\* that is stored already.
LEMMA AppliedTablesAreIndexed ==
  ASSUME RowsOK, CodexTyped, Indexed(db), NEW attached \in Attachments(Resolution),
         NEW refs, refs = ReplacedRefs(attached, Parsed(Resolution))
  PROVE  /\ ~Collides(Cleared(refs), Parsed(Resolution))
         /\ Indexed(Applied(refs, Parsed(Resolution)))
         /\ \A r \in Applied(refs, Parsed(Resolution)).rows : ClaudeRow(r) \/ CodexRow(r)
         /\ \A r \in Applied(refs, Parsed(Resolution)).rows :
               \/ r \in db.rows /\ r.ref \notin refs
               \/ \E p \in Parsed(Resolution) : RowOfContent(r, p)
         /\ \A p \in Parsed(Resolution) :
               \E r \in Applied(refs, Parsed(Resolution)).rows : RowOfContent(r, p)
         /\ \A r \in db.rows : r.ref \notin refs => r \in Applied(refs, Parsed(Resolution)).rows
<1>1. PICK convs : convs = Parsed(Resolution)
  OBVIOUS
<1>2. PICK t : t = Cleared(refs)
  OBVIOUS
<1>3. \A c \in convs : c.ref \in refs
  BY <1>1, ParsedIsReplaced
<1>4. Consistent(t)
  BY <1>2, ClearingIsConsistent DEF Indexed
<1>5. /\ t.rows = {r \in db.rows : r.ref \notin refs}
      /\ t.chunks = db.chunks \ ChunksOf(db, refs)
      /\ t.fts = db.fts \ Postings(ChunksOf(db, refs))
  BY <1>2, WhatIsCleared DEF Indexed, Consistent
<1>6. t.fts = Postings(t.chunks)
  <2>1. ChunksOf(db, refs) \subseteq db.chunks
    BY DEF ChunksOf
  <2>2. QED
    BY <1>5, <2>1, PostingsOfTheRest DEF Indexed, Consistent
<1>7. \A c \in convs : \A r \in t.rows : c.ref # r.ref
  BY <1>3, <1>5
<1>8. ~Collides(t, convs)
  BY <1>7 DEF Collides
<1>9. /\ \A p \in convs : ClaudeContent(p) \/ CodexContent(p)
      /\ \A p, q \in convs : p.ref = q.ref => p = q
  BY <1>1, ParsedIsContents DEF Contents
<1>10. IsFiniteSet(convs)
  BY <1>9, ContentsAreFinite
<1>11. PICK v : v = InsertConversations(t, convs)
  OBVIOUS
<1>12. PICK u : u = PopulateSearchIndex(v, refs)
  OBVIOUS
<1>13. /\ Consistent(u) /\ u.fts = Postings(u.chunks)
       /\ \A r \in u.rows : r \in t.rows \/ \E c \in convs : RowOfContent(r, c)
       /\ \A c \in convs : \E r \in u.rows : RowOfContent(r, c)
       /\ t.rows \subseteq u.rows
  <2>1. /\ Consistent(u) /\ u.fts = Postings(u.chunks)
        /\ \A r \in u.rows : \/ r \in t.rows
                             \/ \E c \in convs : r.ref = c.ref /\ r.files = c.files /\ r.text = c.text
        /\ \A c \in convs : \E r \in u.rows : r.ref = c.ref /\ r.files = c.files /\ r.text = c.text
        /\ t.rows \subseteq u.rows
    BY <1>3, <1>4, <1>6, <1>7, <1>9, <1>10, <1>11, <1>12, InsertionIsIndexed
  <2>2. QED
    BY <2>1 DEF RowOfContent
<1>14. u = Applied(refs, Parsed(Resolution))
  BY <1>1, <1>2, <1>11, <1>12 DEF Applied
<1>15. \A r \in u.rows : ClaudeRow(r) \/ CodexRow(r)
  BY <1>5, <1>9, <1>13, RowsOfContents DEF RowsOK
<1>16. /\ \A r \in u.rows : (r \in db.rows /\ r.ref \notin refs) \/ \E c \in convs : RowOfContent(r, c)
       /\ \A c \in convs : \E r \in u.rows : RowOfContent(r, c)
       /\ \A r \in db.rows : r.ref \notin refs => r \in u.rows
  BY <1>5, <1>13
<1>17. Indexed(u)
  BY <1>13 DEF Indexed
<1>18. QED
  BY <1>1, <1>2, <1>8, <1>14, <1>15, <1>16, <1>17

\* The invariant holds before anything is stored.
LEMMA TablesInvInit == Init => TablesInv
<1> SUFFICES ASSUME Init PROVE TablesInv
  OBVIOUS
<1>1. Typed
  <2>1. claude \in [ClaudeFiles -> ClaudeEntries(1..MaxClaudeWrites) \cup {Missing}]
    BY DEF Init
  <2>2. CodexTyped
    BY DEF Init, CodexTyped
  <2>3. writes \in [claude : 0..MaxClaudeWrites, codex : 0..MaxCodexWrites]
    BY BoundsAssumption DEF Init
  <2>4. QED
    BY <2>1, <2>2, <2>3 DEF Init, Typed
<1>2. db.rows = {} /\ Indexed(db)
  BY EmptyTablesAreIndexed DEF Init, EmptyTables
<1>3. QED
  BY <1>1, <1>2 DEF TablesInv, RowsOK

\* A full rebuild keeps the invariant, whatever the tables held.
LEMMA TablesInvWriteFull ==
  ASSUME TablesInv, NEW how \in {"full"}, WriteFull(how)
  PROVE  TablesInv'
<1>1. Typed'
  BY DEF TablesInv, Typed, CodexTyped, WriteFull
<1>2. Indexed(db')
  BY FullTablesAreIndexed DEF WriteFull
<1>3. \A r \in db'.rows : ClaudeRow(r) \/ CodexRow(r)
  BY FullTablesAreIndexed DEF WriteFull
<1>4. RowsOK'
  BY <1>3 DEF RowsOK, ClaudeRow, CodexRow, WriteFull
<1>5. QED
  BY <1>1, <1>2, <1>4 DEF TablesInv

\* A Claude file that grows keeps the invariant: a slug, once written, stays, so
\* a file never leaves the group its row is keyed by.
LEMMA TablesInvWriteClaude ==
  ASSUME TablesInv, NEW f \in ClaudeFiles, WriteClaude(f)
  PROVE  TablesInv'
<1>1. PICK new \in ClaudeEntries(1..MaxClaudeWrites) :
        ClaudeGrows(claude[f], new) /\ claude' = [claude EXCEPT ![f] = new]
  BY DEF WriteClaude
<1>2. Typed /\ RowsOK /\ Indexed(db)
  BY DEF TablesInv
<1>3. UNCHANGED <<codex, db, built, outcome, lost>> /\ f \notin lost
  BY DEF WriteClaude
<1>4. claude' \in [ClaudeFiles -> ClaudeEntries(1..MaxClaudeWrites) \cup {Missing}]
  BY <1>1, <1>2 DEF Typed
<1>5. writes' \in [claude : 0..MaxClaudeWrites, codex : 0..MaxCodexWrites]
  BY <1>2, BoundsAssumption DEF Typed, WriteClaude, MayWrite
<1>6. Typed'
  BY <1>2, <1>3, <1>4, <1>5 DEF Typed, CodexTyped, WriteClaude, Files
<1>7. new # Missing
  <2>1. new \in ClaudeEntries(Nat)
    BY BoundsAssumption DEF ClaudeEntries
  <2>2. QED
    BY <2>1, MissingAssumption
<1>8. claude[f] # Missing => claude'[f].slug = claude[f].slug \/ claude[f].slug = NoSlug
  BY <1>1, <1>2 DEF ClaudeGrows, Typed, ClaudeEntries
<1>9. ASSUME NEW r \in db.rows, ClaudeRow(r) PROVE ClaudeRow(r)'
  <2>1. ASSUME NEW g \in r.files
        PROVE  IF claude'[g] = Missing THEN g \in lost
               ELSE r.ref \in {ClaudeRef(claude', g), <<"path", g>>}
    <3>1. IF claude[g] = Missing THEN g \in lost ELSE r.ref \in {ClaudeRef(claude, g), <<"path", g>>}
      BY <1>9 DEF ClaudeRow
    <3>2. CASE g = f
      <4>1. claude[f] # Missing /\ r.ref \in {ClaudeRef(claude, f), <<"path", f>>}
        BY <1>3, <3>1, <3>2
      <4>2. r.ref \in {ClaudeRef(claude', f), <<"path", f>>}
        BY <1>8, <4>1 DEF ClaudeRef
      <4>3. claude'[f] # Missing
        BY <1>1, <1>2, <1>7 DEF Typed
      <4>4. QED
        BY <3>2, <4>2, <4>3
    <3>3. CASE g # f
      <4>1. g \in ClaudeFiles
        BY <1>9 DEF ClaudeRow
      <4>2. claude'[g] = claude[g]
        BY <1>1, <1>2, <3>3, <4>1 DEF Typed
      <4>3. QED
        BY <3>1, <4>2 DEF ClaudeRef
    <3>4. QED
      BY <3>2, <3>3
  <2>2. QED
    BY <1>3, <1>9, <2>1 DEF ClaudeRow
<1>10. RowsOK'
  BY <1>2, <1>3, <1>9 DEF RowsOK, CodexRow
<1>11. QED
  BY <1>2, <1>3, <1>6, <1>10 DEF TablesInv

\* A rollout that grows keeps the invariant.
LEMMA TablesInvWriteCodex ==
  ASSUME TablesInv, NEW f \in CodexFiles, WriteCodex(f)
  PROVE  TablesInv'
<1>1. PICK new \in CodexEntries(1..MaxCodexWrites) : codex' = [codex EXCEPT ![f] = new]
  BY DEF WriteCodex
<1>2. Typed /\ RowsOK /\ Indexed(db)
  BY DEF TablesInv
<1>3. UNCHANGED <<claude, db, built, outcome, lost>>
  BY DEF WriteCodex
<1>4. CodexTyped'
  BY <1>1, <1>2 DEF Typed, CodexTyped
<1>5. writes' \in [claude : 0..MaxClaudeWrites, codex : 0..MaxCodexWrites]
  BY <1>2, BoundsAssumption DEF Typed, WriteCodex, MayWrite
<1>6. Typed'
  BY <1>2, <1>3, <1>4, <1>5 DEF Typed, WriteCodex, Files
<1>7. RowsOK'
  BY <1>2, <1>3 DEF RowsOK, CodexRow, ClaudeRow
<1>8. QED
  BY <1>2, <1>3, <1>6, <1>7 DEF TablesInv

\* A file that disappears keeps the invariant.
LEMMA TablesInvLoseFile ==
  ASSUME TablesInv, NEW f \in Files, LoseFile(f)
  PROVE  TablesInv'
<1>1. Typed /\ RowsOK /\ Indexed(db)
  BY DEF TablesInv
<1>2. UNCHANGED <<pending, db, built, outcome, writes>> /\ lost' = lost \cup {f}
  BY DEF LoseFile
<1>3. \/ f \in ClaudeFiles /\ claude' = [claude EXCEPT ![f] = Missing] /\ codex' = codex
      \/ f \notin ClaudeFiles /\ codex' = [codex EXCEPT ![f] = Absent] /\ claude' = claude
  BY DEF LoseFile
<1>4. claude' \in [ClaudeFiles -> ClaudeEntries(1..MaxClaudeWrites) \cup {Missing}]
  BY <1>1, <1>3 DEF Typed
<1>5. CodexTyped'
  BY <1>1, <1>3 DEF Typed, CodexTyped, Files
<1>6. Typed'
  BY <1>1, <1>2, <1>4, <1>5 DEF Typed
<1>7. \A g \in ClaudeFiles : claude'[g] = claude[g] \/ (g = f /\ claude'[g] = Missing)
  BY <1>1, <1>3 DEF Typed
<1>8. ASSUME NEW r \in db.rows, ClaudeRow(r) PROVE ClaudeRow(r)'
  BY <1>2, <1>7, <1>8 DEF ClaudeRow, ClaudeRef
<1>9. RowsOK'
  BY <1>1, <1>2, <1>8 DEF RowsOK, CodexRow
<1>10. QED
  BY <1>1, <1>2, <1>6, <1>9 DEF TablesInv

\* An incremental rebuild keeps the invariant.
LEMMA TablesInvIncremental ==
  ASSUME TablesInv, RebuildIncremental
  PROVE  TablesInv'
<1>1. Typed /\ RowsOK /\ Indexed(db) /\ CodexTyped
  BY DEF TablesInv, Typed
<1>2. PICK attached \in Attachments(Resolution) :
        LET refs == ReplacedRefs(attached, Parsed(Resolution))
        IN  IF Collides(Cleared(refs), Parsed(Resolution))
              THEN WriteFull("collided")
              ELSE /\ db' = Applied(refs, Parsed(Resolution))
                   /\ pending' = {}
                   /\ outcome' = "incremental"
                   /\ UNCHANGED <<claude, codex, built, writes, lost>>
  BY DEF RebuildIncremental
<1>3. PICK refs : refs = ReplacedRefs(attached, Parsed(Resolution))
  OBVIOUS
<1>4. /\ ~Collides(Cleared(refs), Parsed(Resolution))
      /\ Indexed(Applied(refs, Parsed(Resolution)))
      /\ \A r \in Applied(refs, Parsed(Resolution)).rows : ClaudeRow(r) \/ CodexRow(r)
  BY <1>1, <1>3, AppliedTablesAreIndexed
<1>5. /\ db' = Applied(refs, Parsed(Resolution))
      /\ pending' = {}
      /\ outcome' = "incremental"
      /\ UNCHANGED <<claude, codex, built, writes, lost>>
  BY <1>2, <1>3, <1>4
<1>6. Typed'
  BY <1>1, <1>5 DEF Typed, CodexTyped
<1>7. \A r \in db'.rows : ClaudeRow(r) \/ CodexRow(r)
  BY <1>4, <1>5
<1>8. RowsOK'
  BY <1>5, <1>7 DEF RowsOK, ClaudeRow, CodexRow
<1>9. QED
  BY <1>4, <1>5, <1>6, <1>8 DEF TablesInv

\* Every step keeps the invariant.
LEMMA TablesInvNext == TablesInv /\ [Next]_vars => TablesInv'
<1> SUFFICES ASSUME TablesInv, [Next]_vars PROVE TablesInv'
  OBVIOUS
<1>1. ASSUME NEW f \in ClaudeFiles, WriteClaude(f) PROVE TablesInv'
  BY <1>1, TablesInvWriteClaude
<1>2. ASSUME NEW f \in CodexFiles, WriteCodex(f) PROVE TablesInv'
  BY <1>2, TablesInvWriteCodex
<1>3. ASSUME NEW f \in Files, LoseFile(f) PROVE TablesInv'
  BY <1>3, TablesInvLoseFile
<1>4. CASE RebuildFull
  BY <1>4, TablesInvWriteFull DEF RebuildFull
<1>5. CASE RebuildIncremental
  BY <1>5, TablesInvIncremental
<1>6. CASE UNCHANGED vars
  BY <1>6 DEF vars, TablesInv, Typed, CodexTyped, RowsOK, ClaudeRow, CodexRow
<1>7. QED
  BY <1>1, <1>2, <1>3, <1>4, <1>5, <1>6 DEF Next

\* The invariant implies what is promised of the tables.
LEMMA TablesInvSuffices == TablesInv => TablesAgree
<1> SUFFICES ASSUME TablesInv PROVE TablesAgree
  OBVIOUS
<1>1. TypeOK
  BY DEF TablesInv, Typed, CodexTyped, Indexed, Consistent, KeysUnique, TypeOK
<1>2. IndexMatchesTranscripts
  BY DEF TablesInv, Indexed, Consistent, ChunksTell, IndexMatchesTranscripts
<1>3. StatsMatchCatalog
  BY DEF TablesInv, Indexed, Consistent, StatsOf, StatsMatchCatalog
<1>4. NeverCollides
  BY DEF TablesInv, Typed, NeverCollides
<1>5. QED
  BY <1>1, <1>2, <1>3, <1>4 DEF TablesAgree

\* In every behaviour, with any files, any number of writes and losses, and
\* full and incremental rebuilds in any order: row IDs and cache keys are
\* unique, the search index holds the postings of the stored transcripts and no
\* others, the statistics are those of the stored conversations, and no
\* incremental rebuild has to be given up for a key stored twice
\* (internal/canonical, sqlite_incremental.go and sqlite_search_refresh.go).
THEOREM TablesAlwaysAgree == Spec => []TablesAgree
BY TablesInvInit, TablesInvNext, TablesInvSuffices, PTL DEF Spec

-----------------------------------------------------------------------------
(***************************************************************************)
(* Lemmas about how rollouts hang together, in any archive and any set of  *)
(* rollouts: what is below a thread, what is above a rollout, and where    *)
(* the walk from a changed rollout to its root ends (CodexRollouts: Climb, *)
(* RootsIn, IncrementalRoot).                                              *)
(*                                                                         *)
(* Climb is a function of the number of steps; below and above are least   *)
(* sets, so that what holds of all of them is shown for one step.  The two *)
(* meet in BelowIsClimbed: the shortest way up visits no rollout twice,    *)
(* hence takes no more steps than Climb is given.                          *)
(***************************************************************************)

-----------------------------------------------------------------------------
(* Rollouts below a thread *)

(* What a chain of parents within a set leads from to a thread: the least   *)
(* part of the set with the thread and the children of its members.         *)
ClosedBelow(archive, set, t, S) ==
    t \in S /\ \A h \in set : archive[h].parent \in S => h \in S
Below(archive, set, t) == {g \in set : \A S \in SUBSET set : ClosedBelow(archive, set, t, S) => g \in S}

\* A thread is below itself, and so are the children of what is below it.
LEMMA BelowIsClosed ==
  ASSUME NEW archive, NEW set, NEW t \in set
  PROVE  /\ t \in Below(archive, set, t)
         /\ \A h \in set : archive[h].parent \in Below(archive, set, t) => h \in Below(archive, set, t)
BY DEF Below, ClosedBelow

\* Induction over what is below a thread.
LEMMA BelowInduction ==
  ASSUME NEW archive, NEW set, NEW t \in set, NEW S, t \in S,
         \A g \in Below(archive, set, t) :
            archive[g].parent \in S \cap Below(archive, set, t) => g \in S
  PROVE  Below(archive, set, t) \subseteq S
<1>1. PICK U : U = S \cap Below(archive, set, t)
  OBVIOUS
<1>2. U \in SUBSET set
  BY <1>1 DEF Below
<1>3. ClosedBelow(archive, set, t, U)
  <2>1. t \in U
    BY <1>1, BelowIsClosed
  <2>2. \A h \in set : archive[h].parent \in U => h \in U
    BY <1>1, BelowIsClosed
  <2>3. QED
    BY <2>1, <2>2 DEF ClosedBelow
<1>4. QED
  BY <1>1, <1>2, <1>3 DEF Below

\* The parent of what is below a thread, but for the thread itself.
LEMMA BelowParents ==
  ASSUME NEW archive, NEW set, NEW t \in set, NEW g \in Below(archive, set, t), g # t
  PROVE  archive[g].parent \in Below(archive, set, t)
<1>1. PICK S : S = {h \in Below(archive, set, t) : h = t \/ archive[h].parent \in Below(archive, set, t)}
  OBVIOUS
<1>2. t \in S
  BY <1>1, BelowIsClosed
<1>3. Below(archive, set, t) \subseteq S
  BY <1>1, <1>2, BelowInduction
<1>4. QED
  BY <1>1, <1>3

\* What is below a thread in a part of a set is below it in the set.
LEMMA BelowGrows ==
  ASSUME NEW archive, NEW set, NEW t \in set, NEW part, t \in part, Below(archive, part, t) \subseteq set
  PROVE  Below(archive, part, t) \subseteq Below(archive, set, t)
<1>1. t \in Below(archive, set, t)
  BY BelowIsClosed
<1>2. \A g \in Below(archive, part, t) :
        archive[g].parent \in Below(archive, set, t) \cap Below(archive, part, t)
            => g \in Below(archive, set, t)
  BY BelowIsClosed
<1>3. QED
  BY <1>1, <1>2, BelowInduction

-----------------------------------------------------------------------------
(* Where climbs end *)

\* Two climbs from one rollout agree as far as both go.
LEMMA ClimbsAgree ==
  ASSUME NEW archive, NEW set, NEW f, NEW k \in Nat, NEW j \in Nat, j <= k,
         NEW up, Climbs(archive, set, f, k, up), NEW vp, Climbs(archive, set, f, j, vp)
  PROVE  \A n \in 0 .. j : up[n] = vp[n]
<1>1. \A n \in 0 .. k : up[n] = IF n = 0 THEN f ELSE Step(archive, set, up[n - 1])
  BY DEF Climbs
<1>2. \A n \in 0 .. j : vp[n] = IF n = 0 THEN f ELSE Step(archive, set, vp[n - 1])
  BY DEF Climbs
<1>3. PICK T : T = {n \in 0 .. j : up[n] = vp[n]}
  OBVIOUS
<1>4. 0 \in T
  BY <1>1, <1>2, <1>3
<1>5. ASSUME NEW n \in 1 .. j, n - 1 \in T PROVE n \in T
  <2>1. n \in 0 .. k /\ n \in 0 .. j /\ n # 0
    OBVIOUS
  <2>2. QED
    BY <1>1, <1>2, <1>3, <1>5, <2>1
<1>6. 0 .. j \subseteq T
  BY <1>4, <1>5, UpTo
<1>7. QED
  BY <1>3, <1>6

\* A climb that reached a rollout without a parent in the set stays there.
LEMMA ClimbEnds ==
  ASSUME NEW archive, NEW set, NEW f, NEW k \in Nat, NEW up, Climbs(archive, set, f, k, up),
         NEW j \in 0 .. k, archive[up[j]].parent \notin set
  PROVE  \A n \in j .. k : up[n] = up[j]
<1>1. \A n \in 0 .. k : up[n] = IF n = 0 THEN f ELSE Step(archive, set, up[n - 1])
  BY DEF Climbs
<1>2. PICK T : T = {n \in 0 .. k - j : up[j + n] = up[j]}
  OBVIOUS
<1>3. 0 \in T
  BY <1>2
<1>4. ASSUME NEW n \in 1 .. k - j, n - 1 \in T PROVE n \in T
  <2>1. j + n \in 0 .. k /\ j + n # 0 /\ j + n - 1 = j + (n - 1) /\ n \in 0 .. k - j
    OBVIOUS
  <2>2. up[j + n] = Step(archive, set, up[j + (n - 1)])
    BY <1>1, <2>1
  <2>3. up[j + (n - 1)] = up[j]
    BY <1>2, <1>4
  <2>4. up[j + n] = up[j]
    BY <2>2, <2>3 DEF Step
  <2>5. QED
    BY <1>2, <2>1, <2>4
<1>5. k - j \in Nat
  OBVIOUS
<1>6. 0 .. (k - j) \subseteq T
  BY <1>3, <1>4, <1>5, UpTo
<1>7. ASSUME NEW n \in j .. k PROVE up[n] = up[j]
  <2>1. n - j \in 0 .. (k - j) /\ j + (n - j) = n
    OBVIOUS
  <2>2. QED
    BY <1>2, <1>6, <2>1
<1>8. QED
  BY <1>7

\* A rollout whose climb ends at a thread is below it.
LEMMA ClimbedIsBelow ==
  ASSUME NEW archive, NEW set, IsFiniteSet(set), NEW t \in set, NEW f \in set,
         Climb(archive, set, f)[Cardinality(set)] = t
  PROVE  f \in Below(archive, set, t)
<1>1. PICK k \in Nat : k = Cardinality(set)
  BY FS_CardinalityType
<1>2. PICK up : up = Climb(archive, set, f)
  OBVIOUS
<1>3. \A n \in 0 .. k : up[n] = IF n = 0 THEN f ELSE Step(archive, set, up[n - 1])
  BY <1>1, <1>2, ClimbSteps DEF Climbs
<1>4. \A n \in 0 .. k : up[n] \in set
  <2>1. \A n \in 0 .. Cardinality(set) : Climb(archive, set, f)[n] \in set \cup {f}
    BY ClimbStays
  <2>2. QED
    BY <1>1, <1>2, <2>1
<1>5. PICK T : T = {n \in 0 .. k : up[k - n] \in Below(archive, set, t)}
  OBVIOUS
<1>6. 0 \in T
  BY <1>1, <1>2, <1>5, BelowIsClosed
<1>7. ASSUME NEW n \in 1 .. k, n - 1 \in T PROVE n \in T
  <2>1. k - n \in 0 .. k /\ k - (n - 1) \in 0 .. k /\ k - (n - 1) # 0 /\ k - (n - 1) - 1 = k - n
        /\ n \in 0 .. k
    OBVIOUS
  <2>2. up[k - (n - 1)] = Step(archive, set, up[k - n])
    BY <1>3, <2>1
  <2>3. up[k - (n - 1)] \in Below(archive, set, t)
    BY <1>5, <1>7
  <2>4. up[k - n] \in Below(archive, set, t)
    BY <1>4, <2>1, <2>2, <2>3, BelowIsClosed DEF Step
  <2>5. QED
    BY <1>5, <2>1, <2>4
<1>8. k \in T
  BY <1>6, <1>7, UpTo
<1>9. up[0] = f
  BY <1>3
<1>10. QED
  BY <1>5, <1>8, <1>9

\* What is below a thread climbs to it in some number of steps.
LEMMA BelowClimbs ==
  ASSUME NEW archive, NEW set, NEW t \in set, NEW f \in Below(archive, set, t)
  PROVE  \E k \in Nat : \E up : Climbs(archive, set, f, k, up) /\ up[k] = t
<1>1. PICK S : S = {h \in set : \E k \in Nat : \E up : Climbs(archive, set, h, k, up) /\ up[k] = t}
  OBVIOUS
<1>2. t \in S
  <2>1. PICK up : Climbs(archive, set, t, 0, up)
    BY StagesExist
  <2>2. up[0] = t
    BY <2>1 DEF Climbs
  <2>3. QED
    BY <1>1, <2>1, <2>2
<1>3. ASSUME NEW h \in Below(archive, set, t), archive[h].parent \in S PROVE h \in S
  <2>0. PICK k \in Nat : \E up : Climbs(archive, set, archive[h].parent, k, up) /\ up[k] = t
    BY <1>1, <1>3
  <2>1. PICK up : Climbs(archive, set, archive[h].parent, k, up) /\ up[k] = t
    BY <2>0
  <2>2. PICK vp : vp = [n \in 0 .. k + 1 |-> IF n = 0 THEN h ELSE up[n - 1]]
    OBVIOUS
  <2>3. \A n \in 0 .. k : up[n] = IF n = 0 THEN archive[h].parent ELSE Step(archive, set, up[n - 1])
    BY <2>1 DEF Climbs
  <2>4. archive[h].parent \in set
    BY <1>1, <1>3
  <2>5. ASSUME NEW n \in 0 .. k + 1, n # 0 PROVE vp[n] = Step(archive, set, vp[n - 1])
    <3>1. n - 1 \in 0 .. k /\ n - 1 \in 0 .. k + 1
      BY <2>5
    <3>2. vp[n] = up[n - 1]
      BY <2>2, <2>5
    <3>3. CASE n = 1
      <4>1. vp[n - 1] = h /\ up[n - 1] = archive[h].parent
        BY <2>2, <2>3, <3>3
      <4>2. QED
        BY <2>4, <3>2, <4>1 DEF Step
    <3>4. CASE n # 1
      <4>1. n - 1 # 0 /\ n - 1 - 1 = n - 2
        BY <3>4
      <4>2. up[n - 1] = Step(archive, set, up[n - 2])
        BY <2>3, <3>1, <4>1
      <4>3. vp[n - 1] = up[n - 2]
        BY <2>2, <3>1, <4>1
      <4>4. QED
        BY <3>2, <4>2, <4>3
    <3>5. QED
      BY <3>3, <3>4
  <2>6. vp[0] = h
    BY <2>2
  <2>7. Climbs(archive, set, h, k + 1, vp)
    <3>1. vp = [n \in 0 .. k + 1 |-> vp[n]]
      BY <2>2
    <3>2. \A n \in 0 .. k + 1 : vp[n] = IF n = 0 THEN h ELSE Step(archive, set, vp[n - 1])
      BY <2>5, <2>6
    <3>3. vp = [n \in 0 .. k + 1 |-> IF n = 0 THEN h ELSE Step(archive, set, vp[n - 1])]
      BY <3>1, <3>2
    <3>4. QED
      BY <3>3 DEF Climbs
  <2>8. vp[k + 1] = t
    BY <2>1, <2>2
  <2>9. h \in set
    BY DEF Below
  <2>10. k + 1 \in Nat
    OBVIOUS
  <2>11. QED
    BY <1>1, <2>7, <2>8, <2>9, <2>10
<1>4. Below(archive, set, t) \subseteq S
  BY <1>2, <1>3, BelowInduction
<1>5. QED
  BY <1>1, <1>4

\* A climb that leads to a thread gets there within the size of the set, for
\* the shortest way never comes by the same rollout twice; the thread has no
\* parent in the set, so that the climb ends there.
LEMMA BelowIsClimbed ==
  ASSUME NEW archive, NEW set, IsFiniteSet(set), NEW t \in set, archive[t].parent \notin set,
         NEW f \in Below(archive, set, t)
  PROVE  Climb(archive, set, f)[Cardinality(set)] = t
<1>1. PICK K \in Nat : K = Cardinality(set)
  BY FS_CardinalityType
<1>2. PICK N : N = {k \in Nat : \E up : Climbs(archive, set, f, k, up) /\ up[k] = t}
  OBVIOUS
<1>3. N # {} /\ N \in SUBSET Nat
  BY <1>2, BelowClimbs
<1>4. PICK k \in N : \A j \in N : k <= j
  BY <1>3, LeastNatural
<1>5. k \in Nat
  BY <1>3
<1>6. PICK up : Climbs(archive, set, f, k, up) /\ up[k] = t
  BY <1>2, <1>4
<1>7. \A n \in 0 .. k : up[n] = IF n = 0 THEN f ELSE Step(archive, set, up[n - 1])
  BY <1>6 DEF Climbs
<1>8. f \in set
  BY DEF Below
<1>9. \A n \in 0 .. k : up[n] \in set
  <2>1. PICK T : T = {n \in 0 .. k : up[n] \in set}
    OBVIOUS
  <2>2. 0 \in T
    BY <1>5, <1>7, <1>8, <2>1
  <2>3. ASSUME NEW n \in 1 .. k, n - 1 \in T PROVE n \in T
    <3>1. n \in 0 .. k /\ n # 0
      BY <1>5
    <3>2. QED
      BY <1>7, <2>1, <2>3, <3>1 DEF Step
  <2>4. 0 .. k \subseteq T
    BY <1>5, <2>2, <2>3, UpTo
  <2>5. QED
    BY <2>1, <2>4
<1>10. ASSUME NEW i \in 0 .. k, NEW j \in 0 .. k, i < j, up[i] = up[j] PROVE FALSE
  <2>1. PICK d \in Nat : d = j - i /\ d # 0 /\ k - d \in Nat
    BY <1>5, <1>10
  <2>2. PICK vp : vp = [n \in 0 .. k - d |-> IF n <= i THEN up[n] ELSE up[n + d]]
    OBVIOUS
  <2>3. ASSUME NEW n \in 0 .. k - d, n # 0 PROVE vp[n] = Step(archive, set, vp[n - 1])
    <3>1. n - 1 \in 0 .. k - d
      BY <2>1, <2>3
    <3>2. CASE n <= i
      <4>1. n \in 0 .. k /\ n - 1 <= i
        BY <1>5, <2>1, <2>3, <3>2
      <4>2. QED
        BY <1>7, <2>2, <2>3, <3>1, <3>2, <4>1
    <3>3. CASE n = i + 1
      <4>1. n + d \in 0 .. k /\ n + d # 0 /\ n + d - 1 = j /\ ~(n <= i) /\ n - 1 = i /\ i <= i
        BY <1>5, <2>1, <2>3, <3>3
      <4>2. vp[n] = up[n + d] /\ up[n + d] = Step(archive, set, up[j])
        BY <1>7, <2>2, <4>1
      <4>3. vp[n - 1] = up[i]
        BY <2>2, <3>1, <4>1
      <4>4. QED
        BY <1>10, <4>2, <4>3
    <3>4. CASE n > i + 1
      <4>1. n + d \in 0 .. k /\ n + d # 0 /\ n + d - 1 = n - 1 + d /\ ~(n <= i) /\ ~(n - 1 <= i)
        BY <1>5, <2>1, <2>3, <3>4
      <4>2. vp[n] = up[n + d] /\ up[n + d] = Step(archive, set, up[n - 1 + d])
        BY <1>7, <2>2, <4>1
      <4>3. vp[n - 1] = up[n - 1 + d]
        BY <2>2, <3>1, <4>1
      <4>4. QED
        BY <4>2, <4>3
    <3>5. QED
      BY <2>3, <3>2, <3>3, <3>4
  <2>4. vp[0] = f
    BY <1>5, <1>7, <1>10, <2>1, <2>2
  <2>5. Climbs(archive, set, f, k - d, vp)
    <3>1. vp = [n \in 0 .. k - d |-> vp[n]]
      BY <2>2
    <3>2. \A n \in 0 .. k - d : vp[n] = IF n = 0 THEN f ELSE Step(archive, set, vp[n - 1])
      BY <2>3, <2>4
    <3>3. vp = [n \in 0 .. k - d |-> IF n = 0 THEN f ELSE Step(archive, set, vp[n - 1])]
      BY <3>1, <3>2
    <3>4. QED
      BY <3>3 DEF Climbs
  <2>6. vp[k - d] = t
    <3>1. CASE k - d <= i
      <4>1. k - d = i /\ k = j
        BY <1>5, <1>10, <2>1, <3>1
      <4>2. QED
        BY <1>6, <1>10, <2>1, <2>2, <4>1
    <3>2. CASE ~(k - d <= i)
      <4>1. k - d + d = k
        BY <1>5, <2>1
      <4>2. QED
        BY <1>6, <2>1, <2>2, <3>2, <4>1
    <3>3. QED
      BY <3>1, <3>2
  <2>7. k - d \in N
    BY <1>2, <2>1, <2>5, <2>6
  <2>8. QED
    BY <1>4, <1>5, <2>1, <2>7
<1>11. k + 1 <= K
  <2>1. up \in [0 .. k -> set]
    BY <1>6, <1>9 DEF Climbs
  <2>2. \A i, j \in 0 .. k : up[i] = up[j] => i = j
    <3>1. ASSUME NEW i \in 0 .. k, NEW j \in 0 .. k, up[i] = up[j] PROVE i = j
      <4>1. i < j \/ j < i \/ i = j
        BY <1>5
      <4>2. QED
        BY <1>10, <3>1, <4>1
    <3>2. QED
      BY <3>1
  <2>3. up \in Injection(0 .. k, set)
    <3>1. IsInjective(up)
      BY <2>1, <2>2 DEF IsInjective
    <3>2. QED
      BY <2>1, <3>1 DEF Injection
  <2>4. Cardinality(0 .. k) = k + 1
    BY <1>5, FS_Interval
  <2>5. QED
    BY <1>1, <2>3, <2>4, FS_Injection
<1>12. PICK vp : vp = Climb(archive, set, f)
  OBVIOUS
<1>13. Climbs(archive, set, f, K, vp)
  BY <1>1, <1>12, ClimbSteps
<1>14. k \in 0 .. K /\ k <= K /\ K \in k .. K
  BY <1>1, <1>5, <1>11
<1>15. vp[k] = up[k]
  BY <1>1, <1>5, <1>6, <1>13, <1>14, ClimbsAgree
<1>16. vp[K] = vp[k]
  BY <1>1, <1>6, <1>13, <1>14, <1>15, ClimbEnds
<1>17. QED
  BY <1>1, <1>6, <1>12, <1>15, <1>16

-----------------------------------------------------------------------------
(* Ancestors *)

(* The ancestors of a rollout in any archive. *)
ClosedAbove(archive, f, S) ==
    /\ archive[f].parent \in S \cup {NoParent}
    /\ \A g \in S : archive[g] # Absent => archive[g].parent \in S \cup {NoParent}
AncestorsIn(archive, f) ==
    {a \in CodexFiles : \A S \in SUBSET CodexFiles : ClosedAbove(archive, f, S) => a \in S}

\* What every rollout of the archive tells of its parent.
ParentsTyped(archive) ==
    \A f \in CodexFiles : archive[f] # Absent => archive[f].parent \in CodexFiles \cup {NoParent}

\* These are the ancestors the properties speak of.
LEMMA AncestorsAreThese == \A f : Ancestors(f) = AncestorsIn(codex, f)
BY DEF Ancestors, AncestorsIn, ClosedAbove

\* A parent is an ancestor.
LEMMA ParentIsAncestor ==
  ASSUME NEW archive, NEW f, archive[f].parent \in CodexFiles
  PROVE  archive[f].parent \in AncestorsIn(archive, f)
BY CodexFilesAssumption DEF AncestorsIn, ClosedAbove

\* The ancestors of an ancestor are ancestors.
LEMMA AncestorsOfAncestors ==
  ASSUME NEW archive, NEW f, NEW a \in AncestorsIn(archive, f), archive[a] # Absent
  PROVE  AncestorsIn(archive, a) \subseteq AncestorsIn(archive, f)
<1>1. ASSUME NEW b \in AncestorsIn(archive, a), NEW S \in SUBSET CodexFiles, ClosedAbove(archive, f, S)
      PROVE  b \in S
  <2>1. a \in S
    BY <1>1 DEF AncestorsIn
  <2>2. ClosedAbove(archive, a, S)
    BY <1>1, <2>1 DEF ClosedAbove
  <2>3. QED
    BY <1>1, <2>2 DEF AncestorsIn
<1>2. \A b \in AncestorsIn(archive, a) : b \in CodexFiles
  BY DEF AncestorsIn
<1>3. QED
  BY <1>1, <1>2 DEF AncestorsIn

\* The ancestors of a rollout whose parent is there: the parent and its own.
LEMMA AncestorsThroughParent ==
  ASSUME NEW archive, ParentsTyped(archive), NEW f, NEW h \in CodexFiles,
         archive[f].parent = h, archive[h] # Absent
  PROVE  AncestorsIn(archive, f) = {h} \cup AncestorsIn(archive, h)
<1>1. h \in AncestorsIn(archive, f)
  BY ParentIsAncestor
<1>2. AncestorsIn(archive, h) \subseteq AncestorsIn(archive, f)
  BY <1>1, AncestorsOfAncestors
<1>3. PICK S : S = {h} \cup AncestorsIn(archive, h)
  OBVIOUS
<1>4. S \in SUBSET CodexFiles
  BY <1>3 DEF AncestorsIn
<1>5. ClosedAbove(archive, f, S)
  <2>1. archive[f].parent \in S
    BY <1>3
  <2>2. ASSUME NEW g \in S, archive[g] # Absent PROVE archive[g].parent \in S \cup {NoParent}
    <3>1. archive[g].parent \in CodexFiles \cup {NoParent}
      BY <1>4, <2>2 DEF ParentsTyped
    <3>2. CASE archive[g].parent \in CodexFiles
      <4>1. archive[g].parent \in AncestorsIn(archive, g)
        BY <3>2, ParentIsAncestor
      <4>2. g = h \/ g \in AncestorsIn(archive, h)
        BY <1>3
      <4>3. AncestorsIn(archive, g) \subseteq AncestorsIn(archive, h)
        BY <2>2, <4>2, AncestorsOfAncestors
      <4>4. QED
        BY <1>3, <4>1, <4>3
    <3>3. QED
      BY <3>1, <3>2
  <2>3. QED
    BY <2>1, <2>2 DEF ClosedAbove
<1>6. AncestorsIn(archive, f) \subseteq S
  BY <1>4, <1>5 DEF AncestorsIn
<1>7. QED
  BY <1>1, <1>2, <1>3, <1>6

\* A main thread has none.
LEMMA MainThreadsHaveNoAncestors ==
  ASSUME NEW archive, NEW f, ~IsSubagent(archive, f)
  PROVE  AncestorsIn(archive, f) = {}
<1>1. ClosedAbove(archive, f, {})
  BY DEF ClosedAbove, IsSubagent
<1>2. QED
  BY <1>1 DEF AncestorsIn

\* In a family of rollouts that are there, with the parents of all of them, the
\* ancestors are of the family, and no other rollout has a say in it.
LEMMA AncestorsInFamily ==
  ASSUME NEW archive, NEW other, NEW F \in SUBSET CodexFiles,
         \A g \in F : /\ archive[g] # Absent /\ archive[g].parent \in F \cup {NoParent}
                      /\ other[g] = archive[g],
         NEW f \in F
  PROVE  AncestorsIn(archive, f) \subseteq F /\ AncestorsIn(archive, f) = AncestorsIn(other, f)
<1>1. ClosedAbove(archive, f, F)
  BY DEF ClosedAbove
<1>2. ASSUME NEW S \in SUBSET CodexFiles, ClosedAbove(other, f, S) PROVE ClosedAbove(archive, f, S \cap F)
  BY <1>2 DEF ClosedAbove
<1>3. ASSUME NEW S \in SUBSET CodexFiles, ClosedAbove(archive, f, S) PROVE ClosedAbove(other, f, S \cap F)
  BY <1>3 DEF ClosedAbove
<1>4. \A S \in SUBSET CodexFiles : S \cap F \in SUBSET CodexFiles
  OBVIOUS
<1>5. ASSUME NEW a \in AncestorsIn(archive, f), NEW S \in SUBSET CodexFiles, ClosedAbove(other, f, S)
      PROVE  a \in S
  <2>1. a \in S \cap F
    BY <1>2, <1>4, <1>5 DEF AncestorsIn
  <2>2. QED
    BY <2>1
<1>6. ASSUME NEW a \in AncestorsIn(other, f), NEW S \in SUBSET CodexFiles, ClosedAbove(archive, f, S)
      PROVE  a \in S
  <2>1. a \in S \cap F
    BY <1>3, <1>4, <1>6 DEF AncestorsIn
  <2>2. QED
    BY <2>1
<1>7. QED
  BY <1>1, <1>5, <1>6 DEF AncestorsIn

\* What is below a thread has it, and its ancestors, as ancestors.
LEMMA BelowAncestors ==
  ASSUME NEW archive, NEW set, set \subseteq {g \in CodexFiles : archive[g] # Absent},
         NEW t \in set, NEW f \in Below(archive, set, t)
  PROVE  /\ f = t \/ t \in AncestorsIn(archive, f)
         /\ AncestorsIn(archive, t) \subseteq AncestorsIn(archive, f)
<1>1. PICK S : S = {g \in set : /\ g = t \/ t \in AncestorsIn(archive, g)
                                /\ AncestorsIn(archive, t) \subseteq AncestorsIn(archive, g)}
  OBVIOUS
<1>2. t \in S
  BY <1>1
<1>3. ASSUME NEW g \in Below(archive, set, t), archive[g].parent \in S PROVE g \in S
  <2>1. archive[g].parent \in CodexFiles /\ archive[archive[g].parent] # Absent
    BY <1>1, <1>3
  <2>2. archive[g].parent \in AncestorsIn(archive, g)
    BY <2>1, ParentIsAncestor
  <2>3. AncestorsIn(archive, archive[g].parent) \subseteq AncestorsIn(archive, g)
    BY <2>1, <2>2, AncestorsOfAncestors
  <2>4. g \in set
    BY DEF Below
  <2>5. QED
    BY <1>1, <1>3, <2>2, <2>3, <2>4
<1>4. Below(archive, set, t) \subseteq S
  BY <1>2, <1>3, BelowInduction
<1>5. QED
  BY <1>1, <1>4

-----------------------------------------------------------------------------
(* Where the walk to the root of a changed rollout ends *)

(* The steps of the climb that come by a rollout again. *)
Twice(archive, good, f) ==
    {n \in 1 .. Cardinality(good) :
        /\ archive[Climb(archive, good, f)[n - 1]].parent \in good
        /\ Climb(archive, good, f)[n] \in {Climb(archive, good, f)[m] : m \in 0 .. (n - 1)}}

(* The root of what climbs to t. *)
EndOf(archive, rows, t) ==
    IF ~IsSubagent(archive, t) \/ StoredRoots(rows, archive[t].parent) = {} THEN t
    ELSE CHOOSE r \in StoredRoots(rows, archive[t].parent) : TRUE

(* A cycle of rollouts. *)
Cycle(archive, C) == \A c \in C : archive[c].parent \in C

\* Before a step to a parent in the set, every step was one.
LEMMA StepsBefore ==
  ASSUME NEW archive, NEW set, IsFiniteSet(set), NEW f, NEW n \in 1 .. Cardinality(set),
         archive[Climb(archive, set, f)[n - 1]].parent \in set
  PROVE  \A k \in 0 .. n - 1 :
            /\ archive[Climb(archive, set, f)[k]].parent \in set
            /\ Climb(archive, set, f)[k + 1] = archive[Climb(archive, set, f)[k]].parent
<1>1. PICK K \in Nat : K = Cardinality(set)
  BY FS_CardinalityType
<1>2. PICK up : up = Climb(archive, set, f)
  OBVIOUS
<1>3. Climbs(archive, set, f, K, up)
  BY <1>1, <1>2, ClimbSteps
<1>4. n \in 1 .. K
  BY <1>1
<1>5. ASSUME NEW i \in 0 .. n - 1 PROVE archive[up[i]].parent \in set /\ up[i + 1] = archive[up[i]].parent
  <2>1. i \in 0 .. K /\ n - 1 \in i .. K /\ i + 1 \in 0 .. K /\ i + 1 # 0 /\ i + 1 - 1 = i
    BY <1>1, <1>4
  <2>2. archive[up[i]].parent \in set
    <3>1. ASSUME archive[up[i]].parent \notin set PROVE FALSE
      <4>1. i \in 0 .. K /\ K \in i .. K
        BY <1>1, <2>1
      <4>2. K \in Nat
        BY <1>1
      <4>3. \A x \in i .. K : up[x] = up[i]
        BY <1>3, <3>1, <4>1, <4>2, ClimbEnds
      <4>4. up[n - 1] = up[i]
        BY <2>1, <4>3
      <4>5. QED
        BY <1>2, <3>1, <4>4
    <3>2. QED
      BY <3>1
  <2>3. up[i + 1] = Step(archive, set, up[i])
    BY <1>3, <2>1 DEF Climbs
  <2>4. QED
    BY <2>2, <2>3 DEF Step
<1>6. QED
  BY <1>2, <1>5

\* A climb that comes by a rollout again found a cycle, of ancestors.
LEMMA TwiceIsCycle ==
  ASSUME NEW archive, NEW good, good \subseteq {g \in CodexFiles : archive[g] # Absent},
         NEW f \in good, NEW n \in Twice(archive, good, f)
  PROVE  \E C \in SUBSET good : /\ Cycle(archive, C)
                                /\ Climb(archive, good, f)[n] \in C
                                /\ Climb(archive, good, f)[n] \in AncestorsIn(archive, f)
<1>1. IsFiniteSet(good)
  BY CodexFilesAssumption, FS_Subset
<1>2. PICK K \in Nat : K = Cardinality(good)
  BY <1>1, FS_CardinalityType
<1>3. PICK up : up = Climb(archive, good, f)
  OBVIOUS
<1>4. n \in 1 .. K /\ archive[up[n - 1]].parent \in good
  BY <1>2, <1>3 DEF Twice
<1>5. PICK m \in 0 .. (n - 1) : up[n] = up[m]
  BY <1>3 DEF Twice
<1>6. \A k \in 0 .. n - 1 : archive[up[k]].parent \in good /\ up[k + 1] = archive[up[k]].parent
  BY <1>1, <1>2, <1>3, <1>4, StepsBefore
<1>7. \A k \in 0 .. K : up[k] \in good
  <2>1. \A k \in 0 .. Cardinality(good) : Climb(archive, good, f)[k] \in good \cup {f}
    BY <1>1, ClimbStays
  <2>2. QED
    BY <1>2, <1>3, <2>1
<1>8. PICK C : C = {up[k] : k \in m .. n - 1}
  OBVIOUS
<1>9. C \in SUBSET good
  BY <1>4, <1>7, <1>8
<1>10. ASSUME NEW c \in C PROVE archive[c].parent \in C
  <2>1. PICK k \in m .. n - 1 : c = up[k]
    BY <1>8
  <2>2. k \in 0 .. n - 1
    BY <1>4
  <2>3. archive[c].parent = up[k + 1]
    BY <1>6, <2>1, <2>2
  <2>4. CASE k + 1 = n
    <3>1. m \in m .. n - 1
      BY <1>4
    <3>2. QED
      BY <1>5, <1>8, <2>3, <2>4, <3>1
  <2>5. CASE k + 1 # n
    <3>1. k + 1 \in m .. n - 1
      BY <1>4, <2>5
    <3>2. QED
      BY <1>8, <2>3, <3>1
  <2>6. QED
    BY <2>4, <2>5
<1>11. up[n] \in C
  <2>1. m \in m .. n - 1
    BY <1>4
  <2>2. QED
    BY <1>5, <1>8, <2>1
<1>12. up[n] \in AncestorsIn(archive, f)
  <2>1. PICK T : T = {k \in 0 .. n - 1 : up[k + 1] \in AncestorsIn(archive, f)}
    OBVIOUS
  <2>2. 0 \in 0 .. n - 1 /\ n - 1 \in Nat /\ 0 + 1 = 1 /\ 0 \in 0 .. K
    BY <1>4
  <2>3. up[0] = f
    BY <1>1, <1>2, <1>3, <2>2, ClimbSteps DEF Climbs
  <2>4. archive[f].parent \in AncestorsIn(archive, f)
    BY <1>6, <2>2, <2>3, ParentIsAncestor
  <2>5. 0 \in T
    BY <1>6, <2>1, <2>2, <2>3, <2>4
  <2>6. ASSUME NEW k \in 1 .. n - 1, k - 1 \in T PROVE k \in T
    <3>1. k \in 0 .. n - 1 /\ k - 1 + 1 = k /\ k \in 0 .. K
      BY <1>4
    <3>2. up[k] \in AncestorsIn(archive, f) /\ up[k] \in good
      BY <1>7, <2>1, <2>6, <3>1
    <3>3. archive[up[k]].parent \in AncestorsIn(archive, up[k])
      BY <1>6, <3>1, ParentIsAncestor
    <3>4. AncestorsIn(archive, up[k]) \subseteq AncestorsIn(archive, f)
      BY <3>2, AncestorsOfAncestors
    <3>5. QED
      BY <1>6, <2>1, <3>1, <3>3, <3>4
  <2>7. n - 1 \in T
    BY <2>2, <2>5, <2>6, UpTo
  <2>8. n - 1 + 1 = n
    BY <1>4
  <2>9. QED
    BY <2>1, <2>7, <2>8
<1>13. QED
  BY <1>3, <1>9, <1>10, <1>11, <1>12 DEF Cycle

\* A climb that never comes by a rollout twice ends at one without a parent in
\* the set: it cannot take more steps than the set has members.
LEMMA OnceEnds ==
  ASSUME NEW archive, NEW good, IsFiniteSet(good), NEW f \in good, Twice(archive, good, f) = {}
  PROVE  /\ Climb(archive, good, f)[Cardinality(good)] \in good
         /\ archive[Climb(archive, good, f)[Cardinality(good)]].parent \notin good
<1>1. PICK K \in Nat : K = Cardinality(good)
  BY FS_CardinalityType
<1>2. PICK up : up = Climb(archive, good, f)
  OBVIOUS
<1>3. Climbs(archive, good, f, K, up)
  BY <1>1, <1>2, ClimbSteps
<1>4. \A k \in 0 .. K : up[k] \in good
  <2>1. \A k \in 0 .. Cardinality(good) : Climb(archive, good, f)[k] \in good \cup {f}
    BY ClimbStays
  <2>2. QED
    BY <1>1, <1>2, <2>1
<1>5. ASSUME archive[up[K]].parent \in good PROVE FALSE
  <2>1. ASSUME NEW i \in 0 .. K, NEW j \in 0 .. K, i < j, up[i] = up[j] PROVE FALSE
    <3>1. j - 1 \in 0 .. K /\ K \in j - 1 .. K /\ i \in 0 .. (j - 1) /\ j \in 1 .. K
      BY <1>1, <2>1
    <3>2. archive[up[j - 1]].parent \in good
      <4>1. ASSUME archive[up[j - 1]].parent \notin good PROVE FALSE
        <5>1. up[K] = up[j - 1]
          BY <1>1, <1>3, <3>1, <4>1, ClimbEnds
        <5>2. QED
          BY <1>5, <4>1, <5>1
      <4>2. QED
        BY <4>1
    <3>3. up[j] \in {up[m] : m \in 0 .. (j - 1)}
      BY <2>1, <3>1
    <3>4. j \in Twice(archive, good, f)
      BY <1>1, <1>2, <3>1, <3>2, <3>3 DEF Twice
    <3>5. QED
      BY <3>4
  <2>2. up \in [0 .. K -> good]
    BY <1>3, <1>4 DEF Climbs
  <2>3. ASSUME NEW i \in 0 .. K, NEW j \in 0 .. K, up[i] = up[j] PROVE i = j
    <3>1. i < j \/ j < i \/ i = j
      BY <1>1
    <3>2. QED
      BY <2>1, <2>3, <3>1
  <2>4. up \in Injection(0 .. K, good)
    <3>1. IsInjective(up)
      BY <2>2, <2>3 DEF IsInjective
    <3>2. QED
      BY <2>2, <3>1 DEF Injection
  <2>5. Cardinality(0 .. K) = K + 1
    BY <1>1, FS_Interval
  <2>6. K + 1 <= K
    BY <1>1, <2>4, <2>5, FS_Injection
  <2>7. QED
    BY <1>1, <2>6
<1>6. K \in 0 .. K
  BY <1>1
<1>7. QED
  BY <1>1, <1>2, <1>4, <1>5, <1>6

\* What is below a thread without a parent in the set is on no cycle.
LEMMA NoCycleBelow ==
  ASSUME NEW archive, NEW good, NEW t \in good, archive[t].parent \notin good,
         NEW C \in SUBSET good, Cycle(archive, C)
  PROVE  Below(archive, good, t) \cap C = {}
<1>1. PICK S : S = {h \in good : h \notin C}
  OBVIOUS
<1>2. t \in S
  BY <1>1 DEF Cycle
<1>3. \A g \in Below(archive, good, t) : archive[g].parent \in S => g \in S
  BY <1>1 DEF Cycle, Below
<1>4. Below(archive, good, t) \subseteq S
  BY <1>2, <1>3, BelowInduction
<1>5. QED
  BY <1>1, <1>4

\* Nor does its climb come by a rollout twice.
LEMMA OnceBelow ==
  ASSUME NEW archive, NEW good, good \subseteq {g \in CodexFiles : archive[g] # Absent},
         NEW t \in good, archive[t].parent \notin good,
         NEW f \in Below(archive, good, t)
  PROVE  Twice(archive, good, f) = {}
<1>1. IsFiniteSet(good)
  BY CodexFilesAssumption, FS_Subset
<1>2. PICK K \in Nat : K = Cardinality(good)
  BY <1>1, FS_CardinalityType
<1>3. PICK up : up = Climb(archive, good, f)
  OBVIOUS
<1>4. Climbs(archive, good, f, K, up)
  BY <1>1, <1>2, <1>3, ClimbSteps
<1>5. \A n \in 0 .. K : up[n] = IF n = 0 THEN f ELSE Step(archive, good, up[n - 1])
  BY <1>4 DEF Climbs
<1>6. PICK T : T = {n \in 0 .. K : up[n] \in Below(archive, good, t)}
  OBVIOUS
<1>7. 0 \in T
  BY <1>2, <1>5, <1>6
<1>8. ASSUME NEW n \in 1 .. K, n - 1 \in T PROVE n \in T
  <2>1. n \in 0 .. K /\ n # 0
    BY <1>2
  <2>2. up[n] = Step(archive, good, up[n - 1])
    BY <1>5, <2>1
  <2>3. CASE up[n - 1] = t
    BY <1>6, <1>8, <2>1, <2>2, <2>3 DEF Step
  <2>4. CASE up[n - 1] # t
    <3>1. up[n - 1] \in Below(archive, good, t)
      BY <1>6, <1>8
    <3>2. archive[up[n - 1]].parent \in Below(archive, good, t)
      BY <2>4, <3>1, BelowParents
    <3>3. QED
      BY <1>6, <2>1, <2>2, <3>1, <3>2 DEF Step
  <2>5. QED
    BY <2>3, <2>4
<1>9. 0 .. K \subseteq T
  BY <1>2, <1>7, <1>8, UpTo
<1>10. ASSUME NEW n \in Twice(archive, good, f) PROVE FALSE
  <2>1. n \in 0 .. K
    BY <1>2 DEF Twice
  <2>2. f \in good
    BY DEF Below
  <2>3. PICK C \in SUBSET good : Cycle(archive, C) /\ up[n] \in C
    BY <1>3, <2>2, TwiceIsCycle
  <2>4. up[n] \in Below(archive, good, t)
    BY <1>6, <1>9, <2>1
  <2>5. QED
    BY <2>3, <2>4, NoCycleBelow
<1>11. QED
  BY <1>10

\* The walk from a changed rollout ends on a cycle of its ancestors, or at a
\* rollout without a changed parent: the root is then the same for all that
\* climb there.
LEMMA WalksEnd ==
  ASSUME NEW archive, NEW good, good \subseteq {g \in CodexFiles : archive[g] # Absent},
         NEW rows, NEW f \in good
  PROVE  \/ \E C \in SUBSET good : /\ Cycle(archive, C)
                                   /\ IncrementalRoot(archive, good, rows, f) \in C
                                   /\ IncrementalRoot(archive, good, rows, f) \in AncestorsIn(archive, f)
         \/ \E t \in good : /\ archive[t].parent \notin good
                            /\ f \in Below(archive, good, t)
                            /\ \A g \in Below(archive, good, t) :
                                 IncrementalRoot(archive, good, rows, g) = EndOf(archive, rows, t)
<1>1. IsFiniteSet(good)
  BY CodexFilesAssumption, FS_Subset
<1>2. ASSUME NEW g, Twice(archive, good, g) = {}
      PROVE  IncrementalRoot(archive, good, rows, g)
               = EndOf(archive, rows, Climb(archive, good, g)[Cardinality(good)])
  BY <1>2 DEF IncrementalRoot, Twice, EndOf
<1>3. CASE Twice(archive, good, f) # {}
  <2>1. IncrementalRoot(archive, good, rows, f)
          = Climb(archive, good, f)[CHOOSE n \in Twice(archive, good, f) :
                                      \A m \in Twice(archive, good, f) : n <= m]
    BY <1>3 DEF IncrementalRoot, Twice
  <2>2. Twice(archive, good, f) \in SUBSET Nat
    BY <1>1, FS_CardinalityType DEF Twice
  <2>3. \E n \in Twice(archive, good, f) : \A m \in Twice(archive, good, f) : n <= m
    BY <1>3, <2>2, LeastNatural
  <2>4. PICK n \in Twice(archive, good, f) :
          IncrementalRoot(archive, good, rows, f) = Climb(archive, good, f)[n]
    BY <2>1, <2>3
  <2>5. QED
    BY <2>4, TwiceIsCycle
<1>4. CASE Twice(archive, good, f) = {}
  <2>1. PICK t : t = Climb(archive, good, f)[Cardinality(good)]
    OBVIOUS
  <2>2. t \in good /\ archive[t].parent \notin good
    BY <1>1, <1>4, <2>1, OnceEnds
  <2>3. f \in Below(archive, good, t)
    BY <1>1, <2>1, <2>2, ClimbedIsBelow
  <2>4. ASSUME NEW g \in Below(archive, good, t)
        PROVE  IncrementalRoot(archive, good, rows, g) = EndOf(archive, rows, t)
    <3>1. Twice(archive, good, g) = {}
      BY <2>2, OnceBelow
    <3>2. Climb(archive, good, g)[Cardinality(good)] = t
      BY <1>1, <2>2, BelowIsClimbed
    <3>3. QED
      BY <1>2, <3>1, <3>2
  <2>5. QED
    BY <2>2, <2>3, <2>4
<1>5. QED
  BY <1>3, <1>4

-----------------------------------------------------------------------------
(***************************************************************************)
(* Proofs about what an incremental rebuild leaves in the store: whatever  *)
(* was written, lost and rebuilt, in any order, the conversations tell the *)
(* last revision of what a rebuild was given, and no session drops out of  *)
(* the catalogue.  For any files, projects, slugs and numbers of writes    *)
(* and losses.                                                             *)
(*                                                                         *)
(* Claude: a rebuild groups all the sessions that share the key of a       *)
(* changed one, so the row of a group is replaced as soon as a member      *)
(* changes (SessionsInv).                                                  *)
(*                                                                         *)
(* Codex: a change names a rollout, and the family is found by a walk over *)
(* parents through the changed rollouts and the stored rows.  Every row is *)
(* founded on its thread (ThreadsOK): each chain of parents among its      *)
(* files leads there or is broken by a file that disappeared.  From that   *)
(* follows that the root of a walk names its own row (RootOfStored), that  *)
(* what is replaced is listed again (RolloutsStayListed), and that a       *)
(* change below a main thread reaches the row of the thread unless a       *)
(* subagent on the way has a row of its own (RootOfAFamily), which no      *)
(* rebuild ever takes from it without listing it elsewhere                 *)
(* (NothingStranded).                                                      *)
(***************************************************************************)

-----------------------------------------------------------------------------
(* What a rebuild leaves *)

\* Every row of a full rebuild is that of a content, and every content has one.
LEMMA FullRebuildWrites ==
  ASSUME TablesInv, RebuildFull
  PROVE  /\ UNCHANGED <<claude, codex, lost>> /\ built' /\ pending' = {}
         /\ outcome' = "full"
         /\ \A r \in db'.rows : \E p \in FullContents : RowOfContent(r, p)
         /\ \A p \in FullContents : \E r \in db'.rows : RowOfContent(r, p)
BY FullTablesAreIndexed DEF RebuildFull, WriteFull

\* What refs an incremental rebuild replaces, and what rows it leaves.
Rewrites(refs) ==
    /\ \E attached \in Attachments(Resolution) : refs = ReplacedRefs(attached, Parsed(Resolution))
    /\ \A r \in db'.rows :
          \/ r \in db.rows /\ r.ref \notin refs
          \/ \E p \in Parsed(Resolution) : RowOfContent(r, p)
    /\ \A p \in Parsed(Resolution) : \E r \in db'.rows : RowOfContent(r, p)
    /\ \A r \in db.rows : r.ref \notin refs => r \in db'.rows
    /\ UNCHANGED <<claude, codex, lost, built>> /\ built /\ pending' = {}

\* An incremental rebuild keeps the rows it does not replace and adds one for
\* each content it parsed.
LEMMA IncrementalRebuildWrites ==
  ASSUME TablesInv, RebuildIncremental
  PROVE  \E refs : Rewrites(refs)
<1>1. RowsOK /\ Indexed(db) /\ CodexTyped
  BY DEF TablesInv, Typed
<1>2. PICK attached \in Attachments(Resolution) :
        LET refs == ReplacedRefs(attached, Parsed(Resolution))
        IN  IF Collides(Cleared(refs), Parsed(Resolution))
              THEN WriteFull("collided")
              ELSE /\ db' = Applied(refs, Parsed(Resolution))
                   /\ pending' = {}
                   /\ outcome' = "incremental"
                   /\ UNCHANGED <<claude, codex, built, writes, lost>>
  BY DEF RebuildIncremental
<1>3. PICK refs : refs = ReplacedRefs(attached, Parsed(Resolution))
  OBVIOUS
<1>4. /\ ~Collides(Cleared(refs), Parsed(Resolution))
      /\ \A r \in Applied(refs, Parsed(Resolution)).rows :
            \/ r \in db.rows /\ r.ref \notin refs
            \/ \E p \in Parsed(Resolution) : RowOfContent(r, p)
      /\ \A p \in Parsed(Resolution) :
            \E r \in Applied(refs, Parsed(Resolution)).rows : RowOfContent(r, p)
      /\ \A r \in db.rows : r.ref \notin refs => r \in Applied(refs, Parsed(Resolution)).rows
  BY <1>1, <1>3, AppliedTablesAreIndexed
<1>5. /\ db' = Applied(refs, Parsed(Resolution))
      /\ pending' = {}
      /\ UNCHANGED <<claude, codex, built, writes, lost>>
  BY <1>2, <1>3, <1>4
<1>6. built
  BY DEF RebuildIncremental
<1>7. Rewrites(refs)
  BY <1>3, <1>4, <1>5, <1>6 DEF Rewrites
<1>8. QED
  BY <1>7

\* A replaced key is attached to a resolved conversation that parsed.
LEMMA WhatIsReplaced ==
  ASSUME TablesInv, NEW refs, Rewrites(refs), NEW ref \in refs
  PROVE  \E d \in Resolution : /\ ref \in d.replaces
                               /\ \E p \in Parsed(Resolution) : p.ref = d.ref
<1>1. PICK attached \in Attachments(Resolution) : refs = ReplacedRefs(attached, Parsed(Resolution))
  BY DEF Rewrites
<1>2. ref \in DOMAIN attached /\ \E p \in Parsed(Resolution) : p.ref = attached[ref].ref
  BY <1>1 DEF ReplacedRefs
<1>3. attached[ref] \in Resolution /\ ref \in attached[ref].replaces
  BY <1>1, <1>2 DEF Attachments
<1>4. QED
  BY <1>2, <1>3

-----------------------------------------------------------------------------
(* Claude conversations *)

(* What the rows of Claude conversations have in common: the files that are *)
(* left scan, and a conversation of one path has one file.                  *)
SessionRow(r) ==
    /\ \A g \in r.files : claude[g] # Missing => ClaudeScans(claude, g)
    /\ \A g \in ClaudeFiles : r.ref = <<"path", g>> => r.files = {g}

\* The row of a Claude content is one of these.
LEMMA RowOfSessions ==
  ASSUME NEW r, NEW p, RowOfContent(r, p), ClaudeContent(p)
  PROVE  SessionRow(r) /\ ClaudeRow(r)
<1>1. r.ref = p.ref /\ r.files = ClaudeMembers(claude, p.ref) /\ r.files # {}
  BY DEF RowOfContent, ClaudeContent, ClaudeGroup
<1>2. \A g \in r.files : ClaudeScans(claude, g) /\ ClaudeRef(claude, g) = r.ref
  BY <1>1 DEF ClaudeMembers
<1>3. ASSUME NEW g \in ClaudeFiles, r.ref = <<"path", g>> PROVE r.files = {g}
  BY <1>1, <1>2, <1>3, KindsOfClaudeRefs
<1>4. ClaudeRow(r)
  BY DEF RowOfContent, ClaudeContent, ClaudeGroup, ClaudeRow
<1>5. QED
  BY <1>2, <1>3, <1>4 DEF SessionRow

\* A resolved conversation that names a Claude row either has its key or has
\* the file of the path the row is keyed by.
LEMMA WhoReplacesSessions ==
  ASSUME RowsOK, CodexTyped, NEW r \in db.rows, ClaudeRow(r),
         \A q \in db.rows : q.ref = r.ref => q = r,
         NEW d \in Resolution, r.ref \in d.replaces
  PROVE  /\ d \in ClaudeResolve(claude, pending \cap ClaudeFiles, db.rows)
         /\ ClaudeGroup(d)
         /\ \/ d.ref = r.ref
            \/ \E g \in r.files : /\ g \in ClaudeFiles
                                  /\ r.ref = <<"path", g>>
                                  /\ claude[g] # Missing
                                  /\ ClaudeRef(claude, g) = d.ref
<1>1. r.ref[1] \in {"path", "group"}
  BY DEF ClaudeRow
<1>2. ~FamilyMember(d)
  BY <1>1 DEF FamilyMember
<1>3. /\ d \in ClaudeResolve(claude, pending \cap ClaudeFiles, db.rows)
      /\ ClaudeGroup(d)
      /\ \/ r.ref = d.ref
         \/ \E q \in db.rows : /\ q.ref = r.ref
                               /\ \E f \in q.files : /\ f \in ClaudeFiles
                                                     /\ claude[f] # Missing
                                                     /\ ClaudeRef(claude, f) = d.ref
  BY <1>2, ResolutionIsSplit
<1>4. ASSUME r.ref # d.ref
      PROVE  \E g \in r.files : /\ g \in ClaudeFiles /\ r.ref = <<"path", g>>
                                /\ claude[g] # Missing /\ ClaudeRef(claude, g) = d.ref
  <2>1. PICK g \in r.files : g \in ClaudeFiles /\ claude[g] # Missing /\ ClaudeRef(claude, g) = d.ref
    BY <1>3, <1>4
  <2>2. r.ref = <<"path", g>>
    BY <1>4, <2>1 DEF ClaudeRow
  <2>3. QED
    BY <2>1, <2>2
<1>5. QED
  BY <1>3, <1>4

\* A session that is listed and still there is listed after an incremental
\* rebuild: its row stays, or the conversation that replaces it has the file.
LEMMA SessionsStayListed ==
  ASSUME TablesInv, NEW refs, Rewrites(refs), NEW r \in db.rows, ClaudeRow(r), SessionRow(r),
         NEW f \in r.files, claude[f] # Missing
  PROVE  \E q \in db'.rows : f \in q.files
<1>1. RowsOK /\ CodexTyped /\ \A q \in db.rows : q.ref = r.ref => q = r
  BY DEF TablesInv, Typed, Indexed, Consistent, KeysUnique
<1>2. CASE r.ref \notin refs
  BY <1>2 DEF Rewrites
<1>3. CASE r.ref \in refs
  <2>1. PICK d \in Resolution : /\ r.ref \in d.replaces
                                /\ \E p \in Parsed(Resolution) : p.ref = d.ref
    BY <1>3, WhatIsReplaced
  <2>2. PICK p \in Parsed(Resolution) : p.ref = d.ref
    BY <2>1
  <2>3. /\ ClaudeGroup(d)
        /\ \/ d.ref = r.ref
           \/ \E g \in r.files : /\ g \in ClaudeFiles /\ r.ref = <<"path", g>>
                                 /\ claude[g] # Missing /\ ClaudeRef(claude, g) = d.ref
    BY <1>1, <2>1, WhoReplacesSessions
  <2>4. ClaudeContent(p)
    <3>1. ASSUME CodexContent(p) PROVE FALSE
      <4>1. PICK g \in CodexFiles : p.ref = <<"codex", g>>
        BY <3>1 DEF CodexContent
      <4>2. p.ref[1] = "codex"
        BY <4>1
      <4>3. QED
        BY <2>2, <2>3, <4>2 DEF ClaudeGroup
    <3>2. QED
      BY <1>1, <3>1, ParsedContents
  <2>5. p.files = ClaudeMembers(claude, d.ref) /\ p.files # {}
    BY <2>2, <2>4 DEF ClaudeContent, ClaudeGroup
  <2>6. f \in ClaudeFiles /\ ClaudeScans(claude, f)
    BY DEF ClaudeRow, SessionRow
  <2>7. ClaudeRef(claude, f) = d.ref
    <3>1. CASE d.ref = r.ref
      <4>1. CASE r.ref = ClaudeRef(claude, f)
        BY <3>1, <4>1
      <4>2. CASE r.ref = <<"path", f>>
        <5>1. PICK g \in p.files : ClaudeRef(claude, g) = <<"path", f>>
          BY <2>5, <3>1, <4>2 DEF ClaudeMembers
        <5>2. g = f
          BY <5>1, KindsOfClaudeRefs
        <5>3. QED
          BY <3>1, <4>2, <5>1, <5>2
      <4>3. QED
        BY <4>1, <4>2 DEF ClaudeRow
    <3>2. CASE d.ref # r.ref
      <4>1. PICK g \in r.files : /\ g \in ClaudeFiles /\ r.ref = <<"path", g>>
                                 /\ ClaudeRef(claude, g) = d.ref
        BY <2>3, <3>2
      <4>2. r.files = {g}
        BY <4>1 DEF SessionRow
      <4>3. QED
        BY <4>1, <4>2
    <3>3. QED
      BY <3>1, <3>2
  <2>8. f \in p.files
    BY <2>5, <2>6, <2>7 DEF ClaudeMembers
  <2>9. PICK q \in db'.rows : RowOfContent(q, p)
    BY DEF Rewrites
  <2>10. QED
    BY <2>8, <2>9 DEF RowOfContent
<1>4. QED
  BY <1>2, <1>3

(* A Claude file that waits for a rebuild and is not there disappeared. *)
PendingOK == \A f \in pending \cap ClaudeFiles : claude[f] = Missing => f \in lost

(* Every Claude row is one of a session. *)
SessionsOK == \A r \in db.rows : ClaudeRow(r) => SessionRow(r)

(* What the tables say of the Claude files. *)
SessionsInv == PendingOK /\ SessionsOK /\ ClaudeConversationsCurrent

\* What makes a group a conversation.
LEMMA ConversationsOfSessions ==
  ASSUME NEW archive, NEW c
  PROVE  c \in ClaudeConversations(archive) <=>
            /\ c = [ref |-> c.ref, files |-> ClaudeMembers(archive, c.ref)]
            /\ \E g \in ClaudeMembers(archive, c.ref) : archive[g].level = 2
<1>1. ASSUME c \in ClaudeConversations(archive)
      PROVE  /\ c = [ref |-> c.ref, files |-> ClaudeMembers(archive, c.ref)]
             /\ \E g \in ClaudeMembers(archive, c.ref) : archive[g].level = 2
  <2>1. PICK q : /\ c = [ref |-> q, files |-> ClaudeMembers(archive, q)]
                 /\ \E g \in ClaudeMembers(archive, q) : archive[g].level = 2
    BY <1>1 DEF ClaudeConversations
  <2>2. c.ref = q
    BY <2>1
  <2>3. QED
    BY <2>1, <2>2
<1>2. ASSUME c = [ref |-> c.ref, files |-> ClaudeMembers(archive, c.ref)],
             \E g \in ClaudeMembers(archive, c.ref) : archive[g].level = 2
      PROVE  c \in ClaudeConversations(archive)
  <2>1. PICK q : q = c.ref
    OBVIOUS
  <2>2. PICK g \in ClaudeMembers(archive, q) : archive[g].level = 2
    BY <1>2, <2>1
  <2>3. g \in ClaudeFiles /\ ClaudeScans(archive, g) /\ ClaudeRef(archive, g) = q
    BY <2>2 DEF ClaudeMembers
  <2>4. c = [ref |-> q, files |-> ClaudeMembers(archive, q)]
    BY <1>2, <2>1
  <2>5. QED
    BY <2>2, <2>3, <2>4 DEF ClaudeConversations
<1>3. QED
  BY <1>1, <1>2

\* The invariant holds before anything is stored.
LEMMA SessionsInvInit == Init => SessionsInv
BY DEF Init, EmptyTables, SessionsInv, PendingOK, SessionsOK, ClaudeConversationsCurrent

\* A full rebuild stores every conversation that parses as it is.
LEMMA SessionsInvRebuildFull ==
  ASSUME TablesInv, RebuildFull
  PROVE  SessionsInv'
<1>1. /\ UNCHANGED <<claude, codex, lost>> /\ pending' = {}
      /\ \A r \in db'.rows : \E p \in FullContents : RowOfContent(r, p)
      /\ \A p \in FullContents : \E r \in db'.rows : RowOfContent(r, p)
  BY FullRebuildWrites
<1>2. PendingOK'
  BY <1>1 DEF PendingOK
<1>3. ASSUME NEW r \in db'.rows, ClaudeRow(r)' PROVE SessionRow(r)'
  <2>1. PICK p \in FullContents : RowOfContent(r, p)
    BY <1>1
  <2>2. r.ref[1] \in {"path", "group"}
    BY <1>3 DEF ClaudeRow
  <2>3. ~CodexContent(p)
    BY <2>1, <2>2 DEF RowOfContent, CodexContent
  <2>4. ClaudeContent(p)
    BY <2>3, FullContentsAreContents DEF Contents
  <2>5. SessionRow(r)
    BY <2>1, <2>4, RowOfSessions
  <2>6. QED
    BY <1>1, <2>5 DEF SessionRow
<1>4. SessionsOK'
  BY <1>3 DEF SessionsOK
<1>5. ASSUME NEW c \in ClaudeConversations(claude), ClaudeParses(claude, c)
      PROVE  \E r \in db'.rows : r.ref = c.ref /\ OwnRevisions(r, c.files, claude)
  <2>1. Claude(c) \in FullContents
    BY <1>5 DEF FullContents, ParsedClaude
  <2>2. PICK r \in db'.rows : RowOfContent(r, Claude(c))
    BY <1>1, <2>1
  <2>3. r.ref = c.ref /\ r.text = ClaudeTranscript(claude, c)
    BY <2>2 DEF RowOfContent, Claude
  <2>4. QED
    BY <2>3 DEF OwnRevisions, ClaudeTranscript
<1>6. ClaudeConversationsCurrent'
  BY <1>1, <1>5 DEF ClaudeConversationsCurrent
<1>7. QED
  BY <1>2, <1>4, <1>6 DEF SessionsInv

\* A rollout that grows does not concern the Claude rows.
LEMMA SessionsInvWriteCodex ==
  ASSUME TablesInv, SessionsInv, NEW f \in CodexFiles, WriteCodex(f)
  PROVE  SessionsInv'
<1>1. UNCHANGED <<claude, db, built, lost>> /\ pending' = pending \cup {f}
  BY DEF WriteCodex
<1>2. f \notin ClaudeFiles
  BY SourcesAssumption
<1>3. PendingOK' /\ SessionsOK'
  BY <1>1, <1>2 DEF SessionsInv, PendingOK, SessionsOK, ClaudeRow, SessionRow
<1>4. ClaudeConversationsCurrent'
  BY <1>1 DEF SessionsInv, ClaudeConversationsCurrent, Settled
<1>5. QED
  BY <1>3, <1>4 DEF SessionsInv

\* Once a file is lost nothing more is said of the conversations.
LEMMA SessionsInvLoseFile ==
  ASSUME TablesInv, SessionsInv, NEW f \in Files, LoseFile(f)
  PROVE  SessionsInv'
<1>1. UNCHANGED <<pending, db, built>> /\ lost' = lost \cup {f}
  BY DEF LoseFile
<1>2. claude \in [ClaudeFiles -> ClaudeEntries(1..MaxClaudeWrites) \cup {Missing}]
  BY DEF TablesInv, Typed
<1>3. \A g \in ClaudeFiles : claude'[g] = claude[g] \/ (g = f /\ claude'[g] = Missing)
  BY <1>2 DEF LoseFile
<1>4. PendingOK'
  BY <1>1, <1>3 DEF SessionsInv, PendingOK
<1>5. ASSUME NEW r \in db.rows, ClaudeRow(r)' PROVE SessionRow(r)'
  <2>1. ClaudeRow(r)
    <3>1. ClaudeRow(r) \/ CodexRow(r)
      BY DEF TablesInv, RowsOK
    <3>2. ~CodexRow(r)
      BY <1>5 DEF ClaudeRow, CodexRow
    <3>3. QED
      BY <3>1, <3>2
  <2>2. SessionRow(r) /\ r.files \subseteq ClaudeFiles
    BY <2>1 DEF SessionsInv, SessionsOK, ClaudeRow
  <2>3. \A g \in r.files : claude'[g] # Missing => ClaudeScans(claude', g)
    BY <1>3, <2>2 DEF SessionRow, ClaudeScans
  <2>4. QED
    BY <2>2, <2>3 DEF SessionRow
<1>6. SessionsOK'
  BY <1>1, <1>5 DEF SessionsOK
<1>7. lost' # {}
  BY <1>1
<1>8. ClaudeConversationsCurrent'
  BY <1>7 DEF ClaudeConversationsCurrent
<1>9. QED
  BY <1>4, <1>6, <1>8 DEF SessionsInv

\* A file that grows concerns only the conversation it is in, and that one is
\* not settled: a conversation without the file was one before.
LEMMA SessionsInvWriteClaude ==
  ASSUME TablesInv, SessionsInv, NEW f \in ClaudeFiles, WriteClaude(f)
  PROVE  SessionsInv'
<1>1. PICK new \in ClaudeEntries(1..MaxClaudeWrites) :
        ClaudeGrows(claude[f], new) /\ claude' = [claude EXCEPT ![f] = new]
  BY DEF WriteClaude
<1>2. UNCHANGED <<codex, db, built, outcome, lost>> /\ f \notin lost
      /\ pending' = pending \cup {f}
  BY DEF WriteClaude
<1>3. claude \in [ClaudeFiles -> ClaudeEntries(1..MaxClaudeWrites) \cup {Missing}]
  BY DEF TablesInv, Typed
<1>4. new # Missing
  <2>1. new \in ClaudeEntries(Nat)
    BY BoundsAssumption DEF ClaudeEntries
  <2>2. QED
    BY <2>1, MissingAssumption
<1>5. claude'[f] = new /\ \A g \in ClaudeFiles \ {f} : claude'[g] = claude[g]
  BY <1>1, <1>3
<1>6. claude[f] # Missing =>
        /\ claude'[f].slug = claude[f].slug \/ claude[f].slug = NoSlug
        /\ ClaudeScans(claude, f) => ClaudeScans(claude', f)
  BY <1>1, <1>3, <1>4, <1>5 DEF ClaudeGrows, ClaudeEntries, ClaudeScans
<1>7. PendingOK'
  BY <1>2, <1>4, <1>5 DEF SessionsInv, PendingOK
<1>8. ASSUME NEW r \in db.rows, ClaudeRow(r)' PROVE SessionRow(r)'
  <2>1. ClaudeRow(r)
    <3>1. ClaudeRow(r) \/ CodexRow(r)
      BY DEF TablesInv, RowsOK
    <3>2. ~CodexRow(r)
      BY <1>8 DEF ClaudeRow, CodexRow
    <3>3. QED
      BY <3>1, <3>2
  <2>2. SessionRow(r) /\ r.files \subseteq ClaudeFiles
    BY <2>1 DEF SessionsInv, SessionsOK, ClaudeRow
  <2>3. ASSUME NEW g \in r.files, claude'[g] # Missing PROVE ClaudeScans(claude', g)
    <3>1. CASE g = f
      <4>1. claude[f] # Missing
        BY <1>2, <2>1, <3>1 DEF ClaudeRow
      <4>2. QED
        BY <1>6, <2>2, <3>1, <4>1 DEF SessionRow
    <3>2. CASE g # f
      BY <1>5, <2>2, <2>3, <3>2 DEF SessionRow, ClaudeScans
    <3>3. QED
      BY <3>1, <3>2
  <2>4. QED
    BY <2>2, <2>3 DEF SessionRow
<1>9. SessionsOK'
  BY <1>2, <1>8 DEF SessionsOK
<1>10. ASSUME NEW g \in ClaudeFiles \ {f}
       PROVE  /\ ClaudeScans(claude', g) <=> ClaudeScans(claude, g)
              /\ ClaudeRef(claude', g) = ClaudeRef(claude, g)
  BY <1>5 DEF ClaudeScans, ClaudeRef
<1>11. ASSUME NEW c \in ClaudeConversations(claude'), f \notin c.files
       PROVE  c \in ClaudeConversations(claude)
  <2>1. /\ c = [ref |-> c.ref, files |-> ClaudeMembers(claude', c.ref)]
        /\ \E g \in ClaudeMembers(claude', c.ref) : claude'[g].level = 2
    BY ConversationsOfSessions
  <2>2. PICK g \in ClaudeMembers(claude', c.ref) : claude'[g].level = 2
    BY <2>1
  <2>3. c.files = ClaudeMembers(claude', c.ref)
    BY <2>1
  <2>4. g \in ClaudeFiles \ {f} /\ ClaudeScans(claude, g) /\ ClaudeRef(claude, g) = c.ref
    BY <1>10, <1>11, <2>2, <2>3 DEF ClaudeMembers
  <2>5. ASSUME f \in ClaudeMembers(claude, c.ref) PROVE FALSE
    <3>1. claude[f] # Missing /\ ClaudeScans(claude, f) /\ ClaudeRef(claude, f) = c.ref
      BY <2>5 DEF ClaudeMembers, ClaudeScans
    <3>2. ClaudeRef(claude', f) # c.ref
      BY <1>6, <1>11, <2>3, <3>1 DEF ClaudeMembers
    <3>3. c.ref = <<"path", f>>
      BY <1>6, <3>1, <3>2 DEF ClaudeRef
    <3>4. QED
      BY <2>4, <3>3, KindsOfClaudeRefs
  <2>6. ClaudeMembers(claude, c.ref) = ClaudeMembers(claude', c.ref)
    BY <1>10, <1>11, <2>3, <2>5 DEF ClaudeMembers
  <2>7. claude[g].level = 2
    BY <1>5, <2>2, <2>4
  <2>8. QED
    BY <2>1, <2>2, <2>6, <2>7, ConversationsOfSessions
<1>12. ASSUME built', NEW c \in ClaudeConversations(claude'), Settled(c.files)',
              ClaudeParses(claude', c), lost' = {}
       PROVE  \E r \in db'.rows : r.ref = c.ref /\ OwnRevisions(r, c.files, claude')
  <2>1. f \notin c.files /\ Settled(c.files)
    BY <1>2, <1>12 DEF Settled
  <2>2. c \in ClaudeConversations(claude)
    BY <1>11, <2>1
  <2>3. c.files \subseteq ClaudeFiles \ {f}
    <3>1. c = [ref |-> c.ref, files |-> ClaudeMembers(claude, c.ref)]
      BY <2>2, ConversationsOfSessions
    <3>2. c.files = ClaudeMembers(claude, c.ref)
      BY <3>1
    <3>3. QED
      BY <2>1, <3>2 DEF ClaudeMembers
  <2>4. ClaudeParses(claude, c)
    BY <1>5, <1>12, <2>3 DEF ClaudeParses
  <2>5. PICK r \in db.rows : r.ref = c.ref /\ OwnRevisions(r, c.files, claude)
    BY <1>2, <1>12, <2>1, <2>2, <2>4 DEF SessionsInv, ClaudeConversationsCurrent
  <2>6. QED
    BY <1>2, <1>5, <2>3, <2>5 DEF OwnRevisions
<1>13. ClaudeConversationsCurrent'
  BY <1>12 DEF ClaudeConversationsCurrent
<1>14. QED
  BY <1>7, <1>9, <1>13 DEF SessionsInv

\* An incremental rebuild: a conversation with a changed file is resolved and
\* parsed, the row of any other stays.
LEMMA SessionsInvIncremental ==
  ASSUME TablesInv, SessionsInv, RebuildIncremental
  PROVE  SessionsInv'
<1>1. PICK refs : Rewrites(refs)
  BY IncrementalRebuildWrites
<1>2. UNCHANGED <<claude, codex, lost, built>> /\ built /\ pending' = {}
  BY <1>1 DEF Rewrites
<1>3. RowsOK /\ CodexTyped /\ \A q, r \in db.rows : q.ref = r.ref => q = r
  BY DEF TablesInv, Typed, Indexed, Consistent, KeysUnique
<1>4. PendingOK'
  BY <1>2 DEF PendingOK
<1>5. ASSUME NEW r \in db'.rows, ClaudeRow(r)' PROVE SessionRow(r)'
  <2>1. CASE r \in db.rows
    <3>1. ClaudeRow(r)
      BY <1>2, <1>5 DEF ClaudeRow
    <3>2. QED
      BY <1>2, <2>1, <3>1 DEF SessionsInv, SessionsOK, SessionRow
  <2>2. CASE \E p \in Parsed(Resolution) : RowOfContent(r, p)
    <3>1. PICK p \in Parsed(Resolution) : RowOfContent(r, p)
      BY <2>2
    <3>2. r.ref[1] \in {"path", "group"}
      BY <1>5 DEF ClaudeRow
    <3>3. ~CodexContent(p)
      BY <3>1, <3>2 DEF RowOfContent, CodexContent
    <3>4. ClaudeContent(p)
      BY <1>3, <3>3, ParsedContents
    <3>5. SessionRow(r)
      BY <3>1, <3>4, RowOfSessions
    <3>6. QED
      BY <1>2, <3>5 DEF SessionRow
  <2>3. QED
    BY <1>1, <2>1, <2>2 DEF Rewrites
<1>6. SessionsOK'
  BY <1>5 DEF SessionsOK
<1>7. ASSUME NEW c \in ClaudeConversations(claude), ClaudeParses(claude, c), lost = {}
      PROVE  \E r \in db'.rows : r.ref = c.ref /\ OwnRevisions(r, c.files, claude)
  <2>1. c = [ref |-> c.ref, files |-> ClaudeMembers(claude, c.ref)]
        /\ \E g \in ClaudeMembers(claude, c.ref) : claude[g].level = 2
    BY ConversationsOfSessions
  <2>2. c.files = ClaudeMembers(claude, c.ref) /\ c.files \subseteq ClaudeFiles /\ c.files # {}
    BY <2>1 DEF ClaudeMembers
  <2>3. ASSUME NEW g \in c.files
        PROVE  claude[g] # Missing /\ ClaudeScans(claude, g) /\ ClaudeRef(claude, g) = c.ref
    BY <2>2 DEF ClaudeMembers, ClaudeScans
  <2>4. CASE ~Settled(c.files)
    <3> DEFINE changed == pending \cap ClaudeFiles
               replaces == ClaudeReplaces(claude, changed, db.rows, c.ref)
    <3>1. PICK f \in c.files : f \in pending
      BY <2>4 DEF Settled
    <3>2. c.ref \in {ClaudeRef(claude, g) : g \in {h \in changed : ClaudeScans(claude, h)}}
      BY <2>2, <2>3, <3>1
    <3>3. {g \in changed : claude[g] = Missing} = {}
      BY <1>7 DEF SessionsInv, PendingOK
    <3>4. ClaudeBlocked(claude, changed, db.rows) = {}
      BY <3>3 DEF ClaudeBlocked
    <3>5. PICK d : d = [ref |-> c.ref, files |-> c.files, replaces |-> replaces]
      OBVIOUS
    <3>6. d \in ClaudeResolve(claude, changed, db.rows)
      BY <3>2, <3>4, <3>5 DEF ClaudeResolve
    <3>7. d \in Resolution /\ d.ref = c.ref /\ d.files = c.files
      BY <3>5, <3>6 DEF Resolution
    <3>8. ClaudeParses(claude, d)
      BY <1>7, <3>7 DEF ClaudeParses
    <3>9. Claude(d) \in Parsed(Resolution)
      BY <2>2, <3>7, <3>8 DEF Parsed, ParsedClaude
    <3>10. PICK r \in db'.rows : RowOfContent(r, Claude(d))
      BY <1>1, <3>9 DEF Rewrites
    <3>11. r.ref = c.ref /\ r.text = ClaudeTranscript(claude, d)
      BY <3>7, <3>10 DEF RowOfContent, Claude
    <3>12. QED
      BY <3>7, <3>11 DEF OwnRevisions, ClaudeTranscript
  <2>5. CASE Settled(c.files)
    <3>1. PICK r \in db.rows : r.ref = c.ref /\ OwnRevisions(r, c.files, claude)
      BY <1>2, <1>7, <2>5 DEF SessionsInv, ClaudeConversationsCurrent
    <3>2. ASSUME r.ref \in refs PROVE FALSE
      <4>1. PICK d \in Resolution : r.ref \in d.replaces
        BY <1>1, <3>2, WhatIsReplaced
      <4>2. PICK m \in c.files : ClaudeRef(claude, m) = c.ref
        BY <2>2, <2>3
      <4>3. ClaudeRow(r)
        <5>1. r.ref[1] \in {"path", "group"}
          BY <3>1, <4>2, KindsOfClaudeRefs
        <5>2. ~CodexRow(r)
          BY <5>1 DEF CodexRow
        <5>3. QED
          BY <1>3, <5>2 DEF RowsOK
      <4>4. /\ d \in ClaudeResolve(claude, pending \cap ClaudeFiles, db.rows)
            /\ \/ d.ref = r.ref
               \/ \E g \in r.files : /\ g \in ClaudeFiles /\ r.ref = <<"path", g>>
                                     /\ claude[g] # Missing /\ ClaudeRef(claude, g) = d.ref
        BY <1>3, <4>1, <4>3, WhoReplacesSessions
      <4>5. CASE d.ref = r.ref
        <5>1. PICK f \in pending \cap ClaudeFiles :
                ClaudeScans(claude, f) /\ ClaudeRef(claude, f) = d.ref
          BY <4>4 DEF ClaudeResolve
        <5>2. f \in c.files
          BY <2>2, <3>1, <4>5, <5>1 DEF ClaudeMembers
        <5>3. QED
          BY <2>5, <5>1, <5>2 DEF Settled
      <4>6. CASE d.ref # r.ref
        <5>1. PICK g \in r.files : r.ref = <<"path", g>> /\ ClaudeRef(claude, g) = d.ref
          BY <4>4, <4>6
        <5>2. m = g
          BY <3>1, <4>2, <5>1, KindsOfClaudeRefs
        <5>3. QED
          BY <3>1, <4>2, <4>6, <5>1, <5>2
      <4>7. QED
        BY <4>5, <4>6
    <3>3. r \in db'.rows
      BY <1>1, <3>2 DEF Rewrites
    <3>4. QED
      BY <3>1, <3>3
  <2>6. QED
    BY <2>4, <2>5
<1>8. ClaudeConversationsCurrent'
  BY <1>2, <1>7 DEF ClaudeConversationsCurrent
<1>9. QED
  BY <1>4, <1>6, <1>8 DEF SessionsInv

\* Every step keeps it.
LEMMA SessionsInvNext == TablesInv /\ SessionsInv /\ [Next]_vars => SessionsInv'
<1> SUFFICES ASSUME TablesInv, SessionsInv, [Next]_vars PROVE SessionsInv'
  OBVIOUS
<1>1. ASSUME NEW f \in ClaudeFiles, WriteClaude(f) PROVE SessionsInv'
  BY <1>1, SessionsInvWriteClaude
<1>2. ASSUME NEW f \in CodexFiles, WriteCodex(f) PROVE SessionsInv'
  BY <1>2, SessionsInvWriteCodex
<1>3. ASSUME NEW f \in Files, LoseFile(f) PROVE SessionsInv'
  BY <1>3, SessionsInvLoseFile
<1>4. CASE RebuildFull
  BY <1>4, SessionsInvRebuildFull
<1>5. CASE RebuildIncremental
  BY <1>5, SessionsInvIncremental
<1>6. CASE UNCHANGED vars
  BY <1>6 DEF vars, SessionsInv, PendingOK, SessionsOK, SessionRow, ClaudeRow,
     ClaudeConversationsCurrent, Settled
<1>7. QED
  BY <1>1, <1>2, <1>3, <1>4, <1>5, <1>6 DEF Next

-----------------------------------------------------------------------------
(* What the rows of rollouts have in common *)

(* Every chain of parents in the files leads to the thread, but for those   *)
(* broken by a file that is not there.                                      *)
ClosedFrom(archive, F, t, S) ==
    t \in S /\ \A g \in F : archive[g] = Absent \/ archive[g].parent \in S => g \in S
Founded(archive, F, t) ==
    t \in F /\ \A S \in SUBSET F : ClosedFrom(archive, F, t, S) => F \subseteq S

(* A row of rollouts: founded on its thread, with no other rollout if the   *)
(* thread is a subagent; a file that is not there disappeared.              *)
ThreadRow(r) ==
    /\ Founded(codex, r.files, r.ref[2])
    /\ \A g \in r.files : codex[g] = Absent => g \in lost
    /\ codex[r.ref[2]] # Absent /\ IsSubagent(codex, r.ref[2]) => r.files = {r.ref[2]}
ThreadsOK == \A r \in db.rows : CodexRow(r) => ThreadRow(r)

\* Induction over founded files.
LEMMA FoundedInduction ==
  ASSUME NEW archive, NEW F, NEW t, Founded(archive, F, t), NEW S, t \in S,
         \A g \in F : archive[g] = Absent \/ archive[g].parent \in S \cap F => g \in S
  PROVE  F \subseteq S
<1>1. PICK U : U = S \cap F
  OBVIOUS
<1>2. U \in SUBSET F /\ t \in U
  BY <1>1 DEF Founded
<1>3. \A g \in F : archive[g] = Absent \/ archive[g].parent \in U => g \in U
  BY <1>1
<1>4. F \subseteq U
  BY <1>2, <1>3 DEF Founded, ClosedFrom
<1>5. QED
  BY <1>1, <1>4

\* The parent of a rollout, but for the thread, is among the files.
LEMMA FoundedParents ==
  ASSUME NEW archive, NEW F, NEW t, Founded(archive, F, t),
         NEW g \in F, g # t, archive[g] # Absent
  PROVE  archive[g].parent \in F
<1>1. PICK S : S = {h \in F : h = t \/ archive[h] = Absent \/ archive[h].parent \in F}
  OBVIOUS
<1>2. t \in S
  BY <1>1 DEF Founded
<1>3. \A h \in F : archive[h] = Absent \/ archive[h].parent \in S \cap F => h \in S
  BY <1>1
<1>4. F \subseteq S
  BY <1>2, <1>3, FoundedInduction
<1>5. QED
  BY <1>1, <1>4

\* One file is founded on itself.
LEMMA FoundedOnItself ==
  ASSUME NEW archive, NEW t
  PROVE  Founded(archive, {t}, t)
BY DEF Founded, ClosedFrom

\* What is below a thread is founded on it.
LEMMA FoundedBelow ==
  ASSUME NEW archive, NEW set, NEW t \in set, \A g \in set : archive[g] # Absent
  PROVE  Founded(archive, Below(archive, set, t), t)
<1>1. PICK F : F = Below(archive, set, t)
  OBVIOUS
<1>2. t \in F
  BY <1>1, BelowIsClosed
<1>3. ASSUME NEW S \in SUBSET F, t \in S,
             \A g \in F : archive[g] = Absent \/ archive[g].parent \in S => g \in S
      PROVE  F \subseteq S
  <2>1. \A g \in Below(archive, set, t) :
          archive[g].parent \in S \cap Below(archive, set, t) => g \in S
    BY <1>1, <1>3
  <2>2. QED
    BY <1>1, <1>3, <2>1, BelowInduction
<1>4. QED
  BY <1>1, <1>2, <1>3 DEF Founded, ClosedFrom

\* A family whose rollouts are all there: a row that shares one with it is of a
\* thread of the family.
LEMMA FamiliesMeet ==
  ASSUME NEW archive, NEW F \in SUBSET CodexFiles, NEW t, Founded(archive, F, t),
         ~IsSubagent(archive, t), \A g \in F : archive[g] # Absent,
         NEW T \in SUBSET CodexFiles, NEW y, Founded(archive, T, y),
         NEW a \in F, a \in T
  PROVE  y \in F
<1>1. PICK S : S = {g \in F : g \in T => y \in F}
  OBVIOUS
<1>2. ASSUME NEW g \in F, g \in T PROVE g = y \/ archive[g].parent \in T
  BY <1>2, FoundedParents
<1>3. t \in S
  <2>1. t \in F /\ archive[t].parent = NoParent
    BY DEF Founded, IsSubagent
  <2>2. t \in T => t = y
    BY <1>2, <2>1, CodexFilesAssumption
  <2>3. QED
    BY <1>1, <2>1, <2>2
<1>4. \A g \in F : archive[g] = Absent \/ archive[g].parent \in S \cap F => g \in S
  BY <1>1, <1>2
<1>5. F \subseteq S
  BY <1>3, <1>4, FoundedInduction
<1>6. QED
  BY <1>1, <1>5

\* The members of such a family but its thread are subagents, and the ancestors
\* of a member are members.
LEMMA WholeFamilies ==
  ASSUME CodexTyped, NEW F \in SUBSET CodexFiles, NEW t, Founded(codex, F, t),
         ~IsSubagent(codex, t), \A g \in F : codex[g] # Absent
  PROVE  /\ \A g \in F : codex[g].parent \in F \cup {NoParent}
         /\ \A g \in F : ~IsSubagent(codex, g) => g = t
         /\ \A g \in F : AncestorsIn(codex, g) \subseteq F
<1>1. \A g \in F : g # t => codex[g].parent \in F
  BY FoundedParents
<1>2. \A g \in F : codex[g].parent \in F \cup {NoParent}
  BY <1>1 DEF IsSubagent
<1>3. \A g \in F : ~IsSubagent(codex, g) => g = t
  BY <1>1, CodexFilesAssumption DEF IsSubagent
<1>4. \A g \in F : AncestorsIn(codex, g) \subseteq F
  BY <1>2, AncestorsInFamily
<1>5. QED
  BY <1>2, <1>3, <1>4

\* A main thread that is there is listed by its own row only.
LEMMA RowOfAMainThread ==
  ASSUME NEW r, CodexRow(r), ThreadRow(r), NEW z \in r.files, codex[z] # Absent, ~IsSubagent(codex, z)
  PROVE  r.ref[2] = z
<1>1. ASSUME r.ref[2] # z PROVE FALSE
  <2>1. codex[z].parent \in r.files
    BY <1>1, FoundedParents DEF ThreadRow
  <2>2. QED
    BY <2>1, CodexFilesAssumption DEF IsSubagent, CodexRow
<1>2. QED
  BY <1>1

\* A rollout on a cycle is listed by its own row only.
LEMMA RowOfACycle ==
  ASSUME NEW r, CodexRow(r), ThreadRow(r),
         NEW C, C \subseteq {g \in CodexFiles : codex[g] # Absent}, Cycle(codex, C),
         NEW z \in C, z \in r.files
  PROVE  r.ref[2] = z
<1>1. PICK x : x = r.ref[2]
  OBVIOUS
<1>2. PICK S : S = {g \in r.files : g \in C => x \in C}
  OBVIOUS
<1>3. Founded(codex, r.files, x)
  BY <1>1 DEF ThreadRow
<1>4. x \in S
  BY <1>2, <1>3 DEF Founded, ClosedFrom
<1>5. \A g \in r.files : codex[g] = Absent \/ codex[g].parent \in S \cap r.files => g \in S
  BY <1>2 DEF Cycle
<1>6. r.files \subseteq S
  BY <1>3, <1>4, <1>5, FoundedInduction
<1>7. x \in C
  BY <1>2, <1>6
<1>8. codex[x] # Absent /\ IsSubagent(codex, x)
  BY <1>7, CodexFilesAssumption DEF Cycle, IsSubagent
<1>9. QED
  BY <1>1, <1>8 DEF ThreadRow

\* The row of a subagent that is there lists nothing else.
LEMMA RowOfASubagent ==
  ASSUME NEW r, ThreadRow(r), codex[r.ref[2]] # Absent, IsSubagent(codex, r.ref[2])
  PROVE  r.files = {r.ref[2]}
BY DEF ThreadRow

-----------------------------------------------------------------------------
(* What the store answers *)

\* A rollout some row lists is found, in one row only.
LEMMA StoredOnce ==
  ASSUME TablesInv, NEW f
  PROVE  /\ \A q, r \in StoredThread(db.rows, f) : q = r
         /\ \A r \in db.rows : f \in r.files => StoredThread(db.rows, f) # {}
<1>1. /\ \A q, r \in db.rows : q.id = r.id => q = r
      /\ \A r \in db.rows : r.id \in Nat
  BY DEF TablesInv, Indexed, Consistent, KeysUnique, Bounded
<1>2. ASSUME NEW q \in StoredThread(db.rows, f), NEW r \in StoredThread(db.rows, f) PROVE q = r
  <2>1. q \in db.rows /\ r \in db.rows /\ q.id <= r.id /\ r.id <= q.id
    BY DEF StoredThread
  <2>2. QED
    BY <1>1, <2>1
<1>3. ASSUME NEW r \in db.rows, f \in r.files PROVE StoredThread(db.rows, f) # {}
  <2>1. PICK T : T = {n \in Nat : \E q \in db.rows : f \in q.files /\ q.id = n}
    OBVIOUS
  <2>2. T \in SUBSET Nat /\ T # {}
    BY <1>1, <1>3, <2>1
  <2>3. PICK n \in T : \A m \in T : n <= m
    BY <2>2, LeastNatural
  <2>4. PICK q \in db.rows : f \in q.files /\ q.id = n
    BY <2>1, <2>3
  <2>5. \A p \in db.rows : f \in p.files => q.id <= p.id
    BY <1>1, <2>1, <2>3, <2>4
  <2>6. QED
    BY <2>4, <2>5 DEF StoredThread
<1>4. QED
  BY <1>2, <1>3

\* Two Codex rows of one thread are one.
LEMMA RowsOfThreads ==
  ASSUME TablesInv, NEW q \in db.rows, NEW r \in db.rows, CodexRow(q), CodexRow(r),
         q.ref[2] = r.ref[2]
  PROVE  q = r
<1>1. PICK f \in CodexFiles : q.ref = <<"codex", f>>
  BY DEF CodexRow
<1>2. PICK g \in CodexFiles : r.ref = <<"codex", g>>
  BY DEF CodexRow
<1>3. q.ref[2] = f /\ r.ref[2] = g
  BY <1>1, <1>2
<1>4. q.ref = r.ref
  BY <1>1, <1>2, <1>3
<1>5. QED
  BY <1>4 DEF TablesInv, Indexed, Consistent, KeysUnique

\* The row the store answers with.
LEMMA RowOfTheStore ==
  ASSUME TablesInv, ThreadsOK, NEW f \in CodexFiles, NEW r \in StoredThread(db.rows, f)
  PROVE  r \in db.rows /\ f \in r.files /\ CodexRow(r) /\ ThreadRow(r) /\ r.ref[2] \in CodexFiles
         /\ r.ref = <<"codex", r.ref[2]>>
<1>1. r \in db.rows /\ f \in r.files
  BY DEF StoredThread
<1>2. CodexRow(r)
  BY <1>1, SourcesAssumption DEF TablesInv, RowsOK, ClaudeRow
<1>3. PICK g \in CodexFiles : r.ref = <<"codex", g>>
  BY <1>2 DEF CodexRow
<1>4. r.ref[2] = g
  BY <1>3
<1>5. QED
  BY <1>1, <1>2, <1>3, <1>4 DEF ThreadsOK

\* Where the root of what climbs to t is found.
LEMMA EndsOfWalks ==
  ASSUME NEW t
  PROVE  \/ /\ EndOf(codex, db.rows, t) = t
            /\ ~IsSubagent(codex, t) \/ StoredRoots(db.rows, codex[t].parent) = {}
         \/ /\ IsSubagent(codex, t)
            /\ \E q \in StoredThread(db.rows, codex[t].parent) : EndOf(codex, db.rows, t) = q.ref[2]
<1>1. CASE ~IsSubagent(codex, t) \/ StoredRoots(db.rows, codex[t].parent) = {}
  BY <1>1 DEF EndOf
<1>2. CASE ~(~IsSubagent(codex, t) \/ StoredRoots(db.rows, codex[t].parent) = {})
  <2>1. EndOf(codex, db.rows, t) = CHOOSE r \in StoredRoots(db.rows, codex[t].parent) : TRUE
    BY <1>2 DEF EndOf
  <2>2. EndOf(codex, db.rows, t) \in StoredRoots(db.rows, codex[t].parent)
    BY <1>2, <2>1
  <2>3. QED
    BY <1>2, <2>2 DEF StoredRoots
<1>3. QED
  BY <1>1, <1>2

-----------------------------------------------------------------------------
(* What a change of rollouts resolves *)

Good == {f \in pending \cap CodexFiles : CodexScans(codex, f)}
Gone == {f \in pending \cap CodexFiles : codex[f] = Absent}
Bad == {f \in pending \cap CodexFiles : codex[f] # Absent /\ ~CodexScans(codex, f)}
RootOf(f) == IncrementalRoot(codex, Good, db.rows, f)
Roots == (UNION {StoredRoots(db.rows, f) : f \in Gone}) \cup {RootOf(f) : f \in Good}
Blocked == UNION {StoredRoots(db.rows, f) : f \in Bad}

(* A family: the changed rollouts of a root, those stored under it, and the *)
(* ones of them that are there.                                             *)
Members(root) == {f \in Good : RootOf(f) = root}
Present(root) ==
    {f \in Members(root) \cup UNION {r.files : r \in StoredThread(db.rows, root)} : codex[f] # Absent}
Family(root) == CodexFamily(codex, root, Members(root), db.rows)
FamilyRefs(root) ==
    {r.ref : r \in StoredThread(db.rows, root)}
    \cup {e.ref : e \in GroupRollouts(codex, Present(root))}

\* The families are those of the roots no bad file blocks.
LEMMA ResolvedFamilies ==
  ASSUME NEW c
  PROVE  c \in CodexResolve(codex, pending \cap CodexFiles, db.rows) <=>
            \E root \in Roots \ Blocked : c \in Family(root)
<1> DEFINE changed == pending \cap CodexFiles
           rootOf == [f \in Good |-> IncrementalRoot(codex, Good, db.rows, f)]
<1>1. Good = {f \in changed : CodexScans(codex, f)} /\ Gone = {f \in changed : codex[f] = Absent}
  BY DEF Good, Gone
<1>2. Bad = changed \ (Good \cup Gone)
  BY DEF Good, Gone, Bad, CodexScans
<1>3. \A f \in Good : rootOf[f] = RootOf(f)
  BY DEF RootOf
<1>4. {rootOf[f] : f \in Good} = {RootOf(f) : f \in Good}
  BY <1>3
<1>5. \A root : {f \in Good : rootOf[f] = root} = Members(root)
  BY <1>3 DEF Members
<1>6. PICK fam : fam = [root \in Roots |->
                        CodexFamily(codex, root, {f \in Good : rootOf[f] = root}, db.rows)]
  OBVIOUS
<1>7. CodexResolve(codex, changed, db.rows) = UNION {fam[root] : root \in Roots \ Blocked}
  <2>1. CodexResolve(codex, changed, db.rows) =
          UNION {CodexFamily(codex, root, {f \in Good : rootOf[f] = root}, db.rows) :
                   root \in ((UNION {StoredRoots(db.rows, f) : f \in Gone}) \cup {rootOf[f] : f \in Good})
                              \ (UNION {StoredRoots(db.rows, f) : f \in Bad})}
    BY <1>1, <1>2 DEF CodexResolve
  <2> HIDE DEF rootOf, changed
  <2>2. CodexResolve(codex, changed, db.rows) =
          UNION {CodexFamily(codex, root, {f \in Good : rootOf[f] = root}, db.rows) :
                   root \in Roots \ Blocked}
    BY <1>4, <2>1 DEF Roots, Blocked
  <2>3. \A root \in Roots \ Blocked :
          fam[root] = CodexFamily(codex, root, {f \in Good : rootOf[f] = root}, db.rows)
    BY <1>6
  <2>4. {CodexFamily(codex, root, {f \in Good : rootOf[f] = root}, db.rows) : root \in Roots \ Blocked}
          = {fam[root] : root \in Roots \ Blocked}
    BY <2>3, Zenon
  <2>5. QED
    BY <2>2, <2>4, Zenon
<1> HIDE DEF rootOf, changed
<1>8. \A root \in Roots : fam[root] = Family(root)
  BY <1>5, <1>6 DEF Family
<1>9. QED
  BY <1>7, <1>8 DEF changed

\* What a family gives.
LEMMA WhatAFamilyGives ==
  ASSUME NEW root, NEW c
  PROVE  c \in Family(root) <=>
            /\ \A f \in Present(root) : CodexScans(codex, f)
            /\ \E e \in GroupRollouts(codex, Present(root)) :
                  /\ StoredThread(db.rows, root) # {} => e.ref = <<"codex", root>>
                  /\ c = [ref |-> e.ref, files |-> e.files, replaces |-> FamilyRefs(root)]
<1> DEFINE stored == StoredThread(db.rows, root)
           grouped == GroupRollouts(codex, Present(root))
           kept == IF stored = {} THEN grouped ELSE {d \in grouped : d.ref = <<"codex", root>>}
<1>1. Family(root) =
        IF \E f \in Present(root) : ~CodexScans(codex, f) THEN {}
        ELSE {[ref |-> d.ref, files |-> d.files, replaces |-> FamilyRefs(root)] : d \in kept}
  BY DEF Family, CodexFamily, Present, FamilyRefs
<1>2. QED
  BY <1>1

\* What is there of a family are rollouts that scan.
LEMMA PresentRollouts ==
  ASSUME TablesInv, ThreadsOK, NEW root \in CodexFiles
  PROVE  /\ Present(root) \subseteq {g \in CodexFiles : codex[g] # Absent}
         /\ Members(root) \subseteq Present(root)
         /\ Good \subseteq {g \in CodexFiles : codex[g] # Absent}
         /\ \A r \in StoredThread(db.rows, root) : \A g \in r.files : codex[g] # Absent => g \in Present(root)
<1>1. \A r \in StoredThread(db.rows, root) : r.files \subseteq CodexFiles
  BY RowOfTheStore DEF CodexRow
<1>2. Good \subseteq {g \in CodexFiles : codex[g] # Absent}
  BY DEF Good, CodexScans
<1>3. Members(root) \subseteq Good
  BY DEF Members
<1>4. QED
  BY <1>1, <1>2, <1>3 DEF Present

\* The rollouts grouped under a main thread are those below it.
LEMMA GroupIsBelow ==
  ASSUME NEW archive, NEW set, set \subseteq CodexFiles, NEW t \in set, ~IsSubagent(archive, t)
  PROVE  {g \in set : RootsIn(archive, set, g) = {t}} = Below(archive, set, t)
<1>1. IsFiniteSet(set)
  BY CodexFilesAssumption, FS_Subset
<1>2. archive[t].parent \notin set
  BY CodexFilesAssumption DEF IsSubagent
<1>3. ASSUME NEW g \in set, RootsIn(archive, set, g) = {t} PROVE g \in Below(archive, set, t)
  <2>1. Climb(archive, set, g)[Cardinality(set)] = t
    BY <1>3 DEF RootsIn
  <2>2. QED
    BY <1>1, <2>1, ClimbedIsBelow
<1>4. ASSUME NEW g \in Below(archive, set, t) PROVE g \in set /\ RootsIn(archive, set, g) = {t}
  <2>1. Climb(archive, set, g)[Cardinality(set)] = t
    BY <1>1, <1>2, BelowIsClimbed
  <2>2. QED
    BY <2>1 DEF RootsIn, Below
<1>5. QED
  BY <1>3, <1>4

\* A main thread that is there has its group.
LEMMA MainThreadsHaveGroups ==
  ASSUME NEW archive, NEW set, set \subseteq CodexFiles, NEW t \in set, ~IsSubagent(archive, t)
  PROVE  \E e \in GroupRollouts(archive, set) :
            e.ref = <<"codex", t>> /\ e.files = Below(archive, set, t)
<1>1. PICK e : e = CodexConversation(t, {g \in set : RootsIn(archive, set, g) = {t}})
  OBVIOUS
<1>2. e \in GroupRollouts(archive, set)
  BY <1>1 DEF GroupRollouts
<1>3. e.ref = <<"codex", t>> /\ e.files = {g \in set : RootsIn(archive, set, g) = {t}}
  BY <1>1, CodexRefs
<1>4. QED
  BY <1>2, <1>3, GroupIsBelow

\* The groups of rollouts that are there are founded on their threads.
LEMMA GroupsAreFounded ==
  ASSUME NEW archive, NEW set, set \subseteq {g \in CodexFiles : archive[g] # Absent},
         NEW e \in GroupRollouts(archive, set)
  PROVE  \E t \in set : /\ e.ref = <<"codex", t>> /\ e.ref[2] = t
                        /\ e.files \subseteq set
                        /\ Founded(archive, e.files, t)
                        /\ IsSubagent(archive, t) => e.files = {t}
                        /\ ~IsSubagent(archive, t) => e.files = Below(archive, set, t)
<1>1. PICK t \in set : GroupUnder(archive, set, t, e)
  BY GroupsOfRollouts
<1>2. e.ref = <<"codex", t>> /\ e.ref[2] = t
  BY <1>1, CodexRefs DEF GroupUnder
<1>3. CASE IsSubagent(archive, t)
  BY <1>1, <1>2, <1>3, FoundedOnItself DEF GroupUnder
<1>4. CASE ~IsSubagent(archive, t)
  <2>1. set \subseteq CodexFiles
    OBVIOUS
  <2>2. e.files = Below(archive, set, t)
    BY <1>1, <1>4, <2>1, GroupIsBelow DEF GroupUnder
  <2>3. Founded(archive, e.files, t)
    BY <2>2, FoundedBelow
  <2>4. QED
    BY <1>1, <1>2, <1>4, <2>2, <2>3 DEF GroupUnder
<1>5. QED
  BY <1>3, <1>4

\* What a family gives is parsed.
LEMMA FamiliesAreParsed ==
  ASSUME TablesInv, NEW root \in Roots \ Blocked, NEW c \in Family(root)
  PROVE  \E p \in Parsed(Resolution) : p.ref = c.ref /\ p.files = c.files
<1>1. c \in CodexResolve(codex, pending \cap CodexFiles, db.rows)
  BY ResolvedFamilies
<1>2. RowsOK /\ CodexTyped
  BY DEF TablesInv, Typed
<1>3. FamilyMember(c)
  <2>1. PICK changed : changed = pending \cap CodexFiles
    OBVIOUS
  <2>2. QED
    BY <1>1, <1>2, <2>1, ResolvedRollouts
<1>4. c \in Resolution /\ c.files \subseteq CodexFiles
  BY <1>1, <1>3 DEF Resolution, FamilyMember
<1>5. Codex(c) \in Parsed(Resolution)
  BY <1>4 DEF Parsed, ParsedCodex
<1>6. Codex(c).ref = c.ref /\ Codex(c).files = c.files
  BY DEF Codex
<1>7. QED
  BY <1>5, <1>6

-----------------------------------------------------------------------------
(* Rollouts nothing is missing above *)

\* What is said of a rollout that is not stranded.
LEMMA NotStranded ==
  ASSUME NEW f \in CodexFiles, codex[f] # Absent, f \notin Stranded
  PROVE  /\ AncestorsIn(codex, f) \cap lost = {}
         /\ \A q \in db.rows :
              /\ CodexRow(q)
              /\ codex[q.ref[2]] # Absent => IsSubagent(codex, q.ref[2])
              => q.files \cap AncestorsIn(codex, f) = {}
<1>1. f \in CodexFiles \cap Archived
  BY DEF Archived
<1>2. Ancestors(f) = AncestorsIn(codex, f)
  BY AncestorsAreThese
<1>3. \A q : CodexRow(q) => q.ref[1] = "codex"
  BY DEF CodexRow
<1>4. QED
  BY <1>1, <1>2, <1>3 DEF Stranded

\* A listed rollout whose ancestors are there is below the thread of its row, in
\* any set that holds the row's files.
LEMMA ListedIsBelow ==
  ASSUME CodexTyped, NEW r, CodexRow(r), ThreadRow(r), NEW set, r.ref[2] \in set,
         \A g \in r.files : codex[g] # Absent => g \in set,
         NEW f \in r.files, codex[f] # Absent, AncestorsIn(codex, f) \cap lost = {}
  PROVE  f \in Below(codex, set, r.ref[2])
<1>1. PICK x : x = r.ref[2]
  OBVIOUS
<1>2. PICK S : S = {g \in r.files : codex[g] # Absent /\ AncestorsIn(codex, g) \cap lost = {}
                                      => g \in Below(codex, set, x)}
  OBVIOUS
<1>3. Founded(codex, r.files, x)
  BY <1>1 DEF ThreadRow
<1>4. x \in S
  BY <1>1, <1>2, <1>3, BelowIsClosed DEF Founded
<1>5. ASSUME NEW g \in r.files, codex[g].parent \in S \cap r.files, codex[g] # Absent,
             AncestorsIn(codex, g) \cap lost = {}
      PROVE  g \in Below(codex, set, x)
  <2>1. PICK h : h = codex[g].parent
    OBVIOUS
  <2>2. h \in CodexFiles /\ h \in r.files
    BY <1>5, <2>1 DEF CodexRow
  <2>3. h \in AncestorsIn(codex, g)
    BY <2>1, <2>2, ParentIsAncestor
  <2>4. codex[h] # Absent
    BY <1>5, <2>2, <2>3 DEF ThreadRow
  <2>5. AncestorsIn(codex, h) \subseteq AncestorsIn(codex, g)
    BY <2>3, <2>4, AncestorsOfAncestors
  <2>6. h \in Below(codex, set, x)
    BY <1>2, <1>5, <2>1, <2>4, <2>5
  <2>7. g \in set
    BY <1>5
  <2>8. QED
    BY <1>1, <2>1, <2>6, <2>7, BelowIsClosed
<1>6. \A g \in r.files : codex[g] = Absent \/ codex[g].parent \in S \cap r.files => g \in S
  BY <1>2, <1>5
<1>7. r.files \subseteq S
  BY <1>3, <1>4, <1>6, FoundedInduction
<1>8. QED
  BY <1>1, <1>2, <1>7

-----------------------------------------------------------------------------
(* The roots of a change, and the families under them *)

\* Roots are rollouts.
LEMMA RootsAreRollouts ==
  ASSUME TablesInv, ThreadsOK
  PROVE  Roots \subseteq CodexFiles
<1>1. RowsOK /\ CodexTyped
  BY DEF TablesInv, Typed
<1>2. ASSUME NEW f \in Good PROVE RootOf(f) \in CodexFiles
  <2>1. PICK good : good = Good
    OBVIOUS
  <2>2. good \subseteq {g \in CodexFiles : CodexScans(codex, g)} /\ f \in good
    BY <2>1 DEF Good
  <2>3. IncrementalRoot(codex, good, db.rows, f) \in CodexFiles
    BY <1>1, <2>2, RootOfARollout
  <2>4. QED
    BY <2>1, <2>3 DEF RootOf
<1>3. ASSUME NEW f \in Gone, NEW z \in StoredRoots(db.rows, f) PROVE z \in CodexFiles
  <2>1. PICK q \in StoredThread(db.rows, f) : z = q.ref[2]
    BY <1>3 DEF StoredRoots
  <2>2. f \in CodexFiles
    BY DEF Gone
  <2>3. QED
    BY <2>1, <2>2, RowOfTheStore
<1>4. QED
  BY <1>2, <1>3 DEF Roots

\* A stored thread is listed by its row.
LEMMA ThreadsAreListed ==
  ASSUME NEW r, ThreadRow(r)
  PROVE  r.ref[2] \in r.files
BY DEF ThreadRow, Founded

\* The row the store answers with for a root that is there is the row of that
\* root.
LEMMA RootOfStored ==
  ASSUME TablesInv, ThreadsOK, NEW z \in Roots, codex[z] # Absent,
         NEW s \in StoredThread(db.rows, z)
  PROVE  s.ref[2] = z
<1>1. z \in CodexFiles
  BY RootsAreRollouts
<1>2. s \in db.rows /\ z \in s.files /\ CodexRow(s) /\ ThreadRow(s)
  BY <1>1, RowOfTheStore
<1>3. ~IsSubagent(codex, z) => s.ref[2] = z
  BY <1>2, RowOfAMainThread
<1>4. ASSUME NEW f \in CodexFiles, NEW q \in StoredThread(db.rows, f), q.ref[2] = z,
             IsSubagent(codex, z)
      PROVE  f = z
  <2>1. ThreadRow(q) /\ f \in q.files
    BY RowOfTheStore
  <2>2. q.files = {z}
    BY <1>4, <2>1, RowOfASubagent
  <2>3. QED
    BY <2>1, <2>2
<1>5. ASSUME NEW f \in Gone, z \in StoredRoots(db.rows, f), IsSubagent(codex, z) PROVE FALSE
  <2>1. PICK q \in StoredThread(db.rows, f) : z = q.ref[2]
    BY <1>5 DEF StoredRoots
  <2>2. f \in CodexFiles /\ codex[f] = Absent
    BY DEF Gone
  <2>3. f = z
    BY <1>4, <1>5, <2>1, <2>2
  <2>4. QED
    BY <2>2, <2>3
<1>6. ASSUME NEW f \in Good, z = RootOf(f), IsSubagent(codex, z) PROVE s.ref[2] = z
  <2>1. PICK good : good = Good
    OBVIOUS
  <2>2. good \subseteq {g \in CodexFiles : codex[g] # Absent} /\ f \in good
    BY <2>1 DEF Good, CodexScans
  <2>3. z = IncrementalRoot(codex, good, db.rows, f)
    BY <1>6, <2>1 DEF RootOf
  <2>4. ASSUME NEW C \in SUBSET good, Cycle(codex, C), z \in C PROVE s.ref[2] = z
    <3>1. C \subseteq {g \in CodexFiles : codex[g] # Absent}
      BY <2>2
    <3>2. QED
      BY <1>2, <2>4, <3>1, RowOfACycle
  <2>5. ASSUME NEW t \in good, z = EndOf(codex, db.rows, t) PROVE s.ref[2] = z
    <3>1. CASE t = z /\ StoredRoots(db.rows, codex[t].parent) = {}
      <4>1. StoredThread(db.rows, codex[z].parent) = {}
        BY <3>1 DEF StoredRoots
      <4>2. codex[z].parent \notin s.files
        BY <1>2, <4>1, StoredOnce
      <4>3. QED
        BY <1>2, <4>2, FoundedParents DEF ThreadRow
    <3>2. ASSUME NEW q \in StoredThread(db.rows, codex[t].parent), IsSubagent(codex, t), z = q.ref[2]
          PROVE  s.ref[2] = z
      <4>1. t \in CodexFiles /\ codex[t] # Absent
        BY <2>2, <2>5
      <4>2. codex[t].parent \in CodexFiles
        BY <3>2, <4>1 DEF TablesInv, Typed, CodexTyped, CodexEntries, IsSubagent
      <4>3. codex[t].parent = z
        BY <1>4, <1>6, <3>2, <4>2
      <4>4. q = s
        BY <3>2, <4>3, StoredOnce
      <4>5. QED
        BY <3>2, <4>4
    <3>3. QED
      BY <1>3, <1>6, <2>5, <3>1, <3>2, EndsOfWalks
  <2>6. QED
    BY <2>2, <2>3, <2>4, <2>5, WalksEnd
<1>7. QED
  BY <1>3, <1>5, <1>6 DEF Roots

-----------------------------------------------------------------------------
(* What an incremental rebuild replaces is listed again *)

\* The walk of a member ends on a cycle, at its root or at a child of a rollout
\* its root's row lists.
LEMMA WalksOfMembers ==
  ASSUME TablesInv, ThreadsOK, NEW z \in Roots, codex[z] # Absent,
         NEW x \in Members(z)
  PROVE  \/ \E C \in SUBSET Good : Cycle(codex, C) /\ z \in C /\ z \in AncestorsIn(codex, x)
         \/ \E t \in Good :
              /\ x \in Below(codex, Good, t)
              /\ Below(codex, Good, t) \subseteq Members(z)
              /\ codex[t].parent \notin Good
              /\ \/ t = z /\ (~IsSubagent(codex, t) \/ StoredRoots(db.rows, codex[t].parent) = {})
                 \/ /\ codex[t].parent \in CodexFiles /\ IsSubagent(codex, t)
                    /\ \E q \in StoredThread(db.rows, codex[t].parent) : q.ref[2] = z
<1>1. PICK good : good = Good
  OBVIOUS
<1>2. good \subseteq {g \in CodexFiles : codex[g] # Absent} /\ x \in good
  BY <1>1 DEF Good, CodexScans, Members
<1>3. \A g : RootOf(g) = IncrementalRoot(codex, good, db.rows, g)
  BY <1>1 DEF RootOf
<1>4. RootOf(x) = z
  BY DEF Members
<1>5. ASSUME NEW t \in good, codex[t].parent \notin good, x \in Below(codex, good, t),
             \A g \in Below(codex, good, t) : RootOf(g) = EndOf(codex, db.rows, t)
      PROVE  /\ x \in Below(codex, good, t)
             /\ Below(codex, good, t) \subseteq Members(z)
             /\ codex[t].parent \notin good
             /\ \/ t = z /\ (~IsSubagent(codex, t) \/ StoredRoots(db.rows, codex[t].parent) = {})
                \/ /\ codex[t].parent \in CodexFiles /\ IsSubagent(codex, t)
                   /\ \E q \in StoredThread(db.rows, codex[t].parent) : q.ref[2] = z
  <2>1. EndOf(codex, db.rows, t) = z
    BY <1>4, <1>5
  <2>2. Below(codex, good, t) \subseteq Members(z)
    BY <1>1, <1>5, <2>1 DEF Members, Below
  <2>3. IsSubagent(codex, t) => codex[t].parent \in CodexFiles
    BY <1>2, <1>5 DEF TablesInv, Typed, CodexTyped, CodexEntries, IsSubagent
  <2>4. QED
    BY <1>5, <2>1, <2>2, <2>3, EndsOfWalks
<1>6. \/ \E C \in SUBSET good : /\ Cycle(codex, C)
                                /\ IncrementalRoot(codex, good, db.rows, x) \in C
                                /\ IncrementalRoot(codex, good, db.rows, x) \in AncestorsIn(codex, x)
      \/ \E t \in good : /\ codex[t].parent \notin good
                         /\ x \in Below(codex, good, t)
                         /\ \A g \in Below(codex, good, t) :
                              IncrementalRoot(codex, good, db.rows, g) = EndOf(codex, db.rows, t)
  BY <1>2, WalksEnd
<1>7. QED
  BY <1>1, <1>3, <1>4, <1>5, <1>6

\* The members of a family whose row is stored are below its root if that is a
\* main thread, and have it as an ancestor if it is a subagent.
LEMMA MembersUnderTheirRow ==
  ASSUME TablesInv, ThreadsOK, NEW z \in Roots, codex[z] # Absent,
         NEW s \in StoredThread(db.rows, z),
         NEW x \in Members(z), AncestorsIn(codex, x) \cap lost = {}
  PROVE  /\ ~IsSubagent(codex, z) => x \in Below(codex, Present(z), z)
         /\ IsSubagent(codex, z) => x = z \/ z \in AncestorsIn(codex, x)
<1>1. z \in CodexFiles
  BY RootsAreRollouts
<1>2. s \in db.rows /\ z \in s.files /\ CodexRow(s) /\ ThreadRow(s) /\ s.ref[2] = z
  BY <1>1, RowOfTheStore, RootOfStored
<1>3. CodexTyped
  BY DEF TablesInv, Typed
<1>4. PICK P : P = Present(z)
  OBVIOUS
<1>5. /\ P \subseteq {g \in CodexFiles : codex[g] # Absent}
      /\ Members(z) \subseteq P
      /\ Good \subseteq {g \in CodexFiles : codex[g] # Absent}
      /\ \A g \in s.files : codex[g] # Absent => g \in P
  BY <1>1, <1>4, PresentRollouts
<1>6. z \in P
  BY <1>2, <1>5
<1>7. ASSUME NEW t \in Good, x \in Below(codex, Good, t), Below(codex, Good, t) \subseteq Members(z),
             codex[t].parent \in CodexFiles,
             NEW q \in StoredThread(db.rows, codex[t].parent), q.ref[2] = z
      PROVE  codex[t].parent \in s.files /\ codex[t].parent \in AncestorsIn(codex, x)
  <2>1. q \in db.rows /\ codex[t].parent \in q.files /\ CodexRow(q)
    BY <1>7, RowOfTheStore
  <2>2. q = s
    BY <1>2, <1>7, <2>1, RowsOfThreads
  <2>3. codex[t].parent \in AncestorsIn(codex, t)
    BY <1>7, ParentIsAncestor
  <2>4. AncestorsIn(codex, t) \subseteq AncestorsIn(codex, x)
    BY <1>5, <1>7, BelowAncestors
  <2>5. QED
    BY <2>1, <2>2, <2>3, <2>4
<1>8. CASE IsSubagent(codex, z)
  <2>1. s.files = {z}
    BY <1>2, <1>8, RowOfASubagent
  <2>2. ASSUME NEW t \in Good, x \in Below(codex, Good, t), t = z
        PROVE  x = z \/ z \in AncestorsIn(codex, x)
    BY <1>5, <2>2, BelowAncestors
  <2>3. QED
    BY <1>7, <1>8, <2>1, <2>2, WalksOfMembers
<1>9. CASE ~IsSubagent(codex, z)
  <2>1. ASSUME NEW C \in SUBSET Good, Cycle(codex, C), z \in C PROVE FALSE
    <3>1. codex[z].parent \in CodexFiles
      BY <1>5, <2>1 DEF Cycle
    <3>2. QED
      BY <1>9, <3>1, CodexFilesAssumption DEF IsSubagent
  <2>2. ASSUME NEW t \in Good, x \in Below(codex, Good, t), Below(codex, Good, t) \subseteq Members(z),
               t = z
        PROVE  x \in Below(codex, P, z)
    <3>1. Below(codex, Good, t) \subseteq P
      BY <1>5, <2>2
    <3>2. Below(codex, Good, t) \subseteq Below(codex, P, t)
      BY <1>6, <2>2, <3>1, BelowGrows
    <3>3. QED
      BY <2>2, <3>2
  <2>3. ASSUME NEW t \in Good, x \in Below(codex, Good, t), Below(codex, Good, t) \subseteq Members(z),
               codex[t].parent \in CodexFiles,
               NEW q \in StoredThread(db.rows, codex[t].parent), q.ref[2] = z
        PROVE  x \in Below(codex, P, z)
    <3>1. PICK h : h = codex[t].parent
      OBVIOUS
    <3>2. h \in s.files /\ h \in AncestorsIn(codex, x)
      BY <1>7, <2>3, <3>1
    <3>3. codex[h] # Absent
      BY <1>2, <3>2 DEF ThreadRow
    <3>4. AncestorsIn(codex, h) \subseteq AncestorsIn(codex, x)
      BY <3>2, <3>3, AncestorsOfAncestors
    <3>5. AncestorsIn(codex, h) \cap lost = {}
      BY <3>4
    <3>6. h \in Below(codex, P, s.ref[2])
      BY <1>2, <1>3, <1>5, <1>6, <3>2, <3>3, <3>5, ListedIsBelow
    <3>7. h \in Below(codex, P, z)
      BY <1>2, <3>6
    <3>8. \A g \in P : codex[g].parent \in Below(codex, P, z) => g \in Below(codex, P, z)
      BY <1>6, BelowIsClosed
    <3>9. t \in Below(codex, Good, t)
      BY BelowIsClosed
    <3>10. PICK S : S = Below(codex, P, z)
      OBVIOUS
    <3>11. t \in S
      BY <1>5, <2>3, <3>1, <3>7, <3>8, <3>9, <3>10
    <3>12. \A g \in Below(codex, Good, t) :
             codex[g].parent \in S \cap Below(codex, Good, t) => g \in S
      BY <1>5, <2>3, <3>8, <3>10
    <3>13. Below(codex, Good, t) \subseteq S
      BY <3>11, <3>12, BelowInduction
    <3>14. QED
      BY <2>3, <3>10, <3>13
  <2>4. QED
    BY <1>4, <1>9, <2>1, <2>2, <2>3, WalksOfMembers
<1>10. QED
  BY <1>8, <1>9

\* What names the row of a thread is resolved from a family.
LEMMA WhoReplacesRollouts ==
  ASSUME TablesInv, NEW r \in db.rows, CodexRow(r), NEW d \in Resolution, r.ref \in d.replaces
  PROVE  \E z \in Roots \ Blocked : d \in Family(z)
<1>1. RowsOK /\ CodexTyped
  BY DEF TablesInv, Typed
<1>2. r.ref[1] = "codex" /\ r.files \subseteq CodexFiles
  BY DEF CodexRow
<1>3. \A q \in db.rows : q.ref = r.ref => q = r
  BY DEF TablesInv, Indexed, Consistent, KeysUnique
<1>4. ASSUME ClaudeGroup(d),
             \A ref \in d.replaces :
                 \/ ref = d.ref
                 \/ \E q \in db.rows : /\ q.ref = ref
                                       /\ \E f \in q.files : /\ f \in ClaudeFiles
                                                             /\ claude[f] # Missing
                                                             /\ ClaudeRef(claude, f) = d.ref
      PROVE  FALSE
  <2>1. r.ref # d.ref
    BY <1>2, <1>4 DEF ClaudeGroup
  <2>2. \E f \in r.files : f \in ClaudeFiles
    BY <1>3, <1>4, <2>1
  <2>3. QED
    BY <1>2, <2>2, SourcesAssumption
<1>5. d \in CodexResolve(codex, pending \cap CodexFiles, db.rows)
  BY <1>1, <1>4, ResolutionIsSplit
<1>6. QED
  BY <1>5, ResolvedFamilies

\* The family of a stored root that is resolved has the stored row's rollouts
\* that nothing is missing above.
LEMMA StoredFamilies ==
  ASSUME TablesInv, ThreadsOK, NEW z \in Roots, codex[z] # Absent,
         NEW s \in StoredThread(db.rows, z), NEW e \in GroupRollouts(codex, Present(z)),
         e.ref = <<"codex", z>>
  PROVE  /\ ~IsSubagent(codex, z) => e.files = Below(codex, Present(z), z)
         /\ IsSubagent(codex, z) => e.files = {z}
         /\ \A f \in s.files : codex[f] # Absent /\ AncestorsIn(codex, f) \cap lost = {} => f \in e.files
<1>1. z \in CodexFiles
  BY RootsAreRollouts
<1>2. s \in db.rows /\ z \in s.files /\ CodexRow(s) /\ ThreadRow(s) /\ s.ref[2] = z
  BY <1>1, RowOfTheStore, RootOfStored
<1>3. CodexTyped
  BY DEF TablesInv, Typed
<1>4. PICK P : P = Present(z)
  OBVIOUS
<1>5. /\ P \subseteq {g \in CodexFiles : codex[g] # Absent}
      /\ \A g \in s.files : codex[g] # Absent => g \in P
  BY <1>1, <1>4, PresentRollouts
<1>6. PICK t \in P : /\ e.ref[2] = t
                     /\ IsSubagent(codex, t) => e.files = {t}
                     /\ ~IsSubagent(codex, t) => e.files = Below(codex, P, t)
  BY <1>4, <1>5, GroupsAreFounded
<1>7. t = z
  BY <1>6
<1>8. ASSUME NEW f \in s.files, codex[f] # Absent, AncestorsIn(codex, f) \cap lost = {}
      PROVE  f \in e.files
  <2>1. CASE IsSubagent(codex, z)
    BY <1>2, <1>6, <1>7, <2>1, RowOfASubagent
  <2>2. CASE ~IsSubagent(codex, z)
    <3>1. s.ref[2] \in P
      BY <1>2, <1>6, <1>7
    <3>2. f \in Below(codex, P, s.ref[2])
      BY <1>2, <1>3, <1>5, <1>8, <3>1, ListedIsBelow
    <3>3. QED
      BY <1>2, <1>6, <1>7, <2>2, <3>2
  <2>3. QED
    BY <2>1, <2>2
<1>9. QED
  BY <1>4, <1>6, <1>7, <1>8

\* A rollout of a replaced row, unless it is stranded, is in a conversation the
\* rebuild inserts.
LEMMA RolloutsStayListed ==
  ASSUME TablesInv, ThreadsOK, NEW refs, Rewrites(refs),
         NEW r \in db.rows, CodexRow(r), r.ref \in refs,
         NEW f \in r.files, codex[f] # Absent, f \notin Stranded
  PROVE  \E p \in Parsed(Resolution) : f \in p.files
<1>1. RowsOK /\ CodexTyped /\ ThreadRow(r) /\ f \in CodexFiles
  BY DEF TablesInv, Typed, ThreadsOK, CodexRow
<1>2. /\ AncestorsIn(codex, f) \cap lost = {}
      /\ \A q \in db.rows :
           /\ CodexRow(q)
           /\ codex[q.ref[2]] # Absent => IsSubagent(codex, q.ref[2])
           => q.files \cap AncestorsIn(codex, f) = {}
  BY <1>1, NotStranded
<1>3. PICK d \in Resolution : r.ref \in d.replaces
  BY WhatIsReplaced
<1>4. PICK z \in Roots \ Blocked : d \in Family(z)
  BY <1>3, WhoReplacesRollouts
<1>5. z \in CodexFiles /\ z \in Roots
  BY <1>4, RootsAreRollouts
<1>6. PICK e \in GroupRollouts(codex, Present(z)) :
        /\ StoredThread(db.rows, z) # {} => e.ref = <<"codex", z>>
        /\ d = [ref |-> e.ref, files |-> e.files, replaces |-> FamilyRefs(z)]
  BY <1>4, WhatAFamilyGives
<1>7. \A g \in Present(z) : CodexScans(codex, g)
  BY <1>4, WhatAFamilyGives
<1>8. PICK P : P = Present(z)
  OBVIOUS
<1>9. /\ P \subseteq {g \in CodexFiles : codex[g] # Absent}
      /\ Members(z) \subseteq P
      /\ P \subseteq Members(z) \cup UNION {q.files : q \in StoredThread(db.rows, z)}
  BY <1>5, <1>8, PresentRollouts DEF Present
<1>10. \A c \in Family(z) : f \in c.files => \E p \in Parsed(Resolution) : f \in p.files
  BY <1>4, FamiliesAreParsed
<1>11. d.ref = e.ref /\ d.files = e.files /\ d.replaces = FamilyRefs(z)
  BY <1>6
<1>12. r.ref \in {q.ref : q \in StoredThread(db.rows, z)} \cup {h.ref : h \in GroupRollouts(codex, P)}
  BY <1>3, <1>8, <1>11 DEF FamilyRefs
<1>13. ASSUME NEW x \in P, ~IsSubagent(codex, x), x \in Members(z) PROVE x = z
  <2>1. PICK good : good = Good
    OBVIOUS
  <2>2. good \subseteq {g \in CodexFiles : CodexScans(codex, g)} /\ x \in good
    BY <1>13, <2>1 DEF Good, Members
  <2>3. IncrementalRoot(codex, good, db.rows, x) = x
    BY <1>1, <1>13, <2>2, RootOfARollout
  <2>4. QED
    BY <1>13, <2>1, <2>3 DEF Members, RootOf
<1>14. ASSUME NEW h \in GroupRollouts(codex, P), r.ref = h.ref
       PROVE  \E x \in P : /\ r.ref = <<"codex", x>> /\ r.ref[2] = x /\ x \in h.files
                           /\ IsSubagent(codex, x) => r.files = {x}
  <2>1. PICK x \in P : h.ref = <<"codex", x>> /\ h.ref[2] = x /\ Founded(codex, h.files, x)
    BY <1>9, <1>14, GroupsAreFounded
  <2>2. codex[x] # Absent
    BY <1>9, <2>1
  <2>3. IsSubagent(codex, x) => r.files = {x}
    BY <1>1, <1>14, <2>1, <2>2, RowOfASubagent
  <2>4. QED
    BY <1>14, <2>1, <2>3 DEF Founded
<1>15. CASE StoredThread(db.rows, z) = {}
  <2>1. PICK h \in GroupRollouts(codex, P) : r.ref = h.ref
    BY <1>12, <1>15
  <2>2. PICK x \in P : r.ref[2] = x /\ x \in h.files /\ (IsSubagent(codex, x) => r.files = {x})
    BY <1>14, <2>1
  <2>3. IsSubagent(codex, x)
    <3>1. ASSUME ~IsSubagent(codex, x) PROVE FALSE
      <4>1. x \in Members(z)
        BY <1>9, <1>15, <2>2
      <4>2. x = z
        BY <1>13, <2>2, <3>1, <4>1
      <4>3. z \in r.files
        BY <1>1, <2>2, <4>2, ThreadsAreListed
      <4>4. QED
        BY <1>15, <4>3, StoredOnce
    <3>2. QED
      BY <3>1
  <2>4. f \in h.files
    BY <2>2, <2>3
  <2>5. PICK c : c = [ref |-> h.ref, files |-> h.files, replaces |-> FamilyRefs(z)]
    OBVIOUS
  <2>6. c \in Family(z)
    BY <1>7, <1>8, <1>15, <2>1, <2>5, WhatAFamilyGives
  <2>7. f \in c.files
    BY <2>4, <2>5
  <2>8. QED
    BY <1>10, <2>6, <2>7
<1>16. CASE StoredThread(db.rows, z) # {}
  <2>1. PICK s \in StoredThread(db.rows, z) : TRUE
    BY <1>16
  <2>2. e.ref = <<"codex", z>>
    BY <1>6, <1>16
  <2>3. PICK t \in P : e.ref[2] = t
    BY <1>6, <1>8, <1>9, GroupsAreFounded
  <2>4. codex[z] # Absent
    BY <1>9, <2>2, <2>3
  <2>5. s \in db.rows /\ z \in s.files /\ CodexRow(s) /\ ThreadRow(s) /\ s.ref[2] = z
        /\ s.ref = <<"codex", z>>
    BY <1>5, <2>1, <2>4, RowOfTheStore, RootOfStored
  <2>6. /\ ~IsSubagent(codex, z) => e.files = Below(codex, P, z)
        /\ IsSubagent(codex, z) => e.files = {z}
        /\ \A g \in s.files : codex[g] # Absent /\ AncestorsIn(codex, g) \cap lost = {} => g \in e.files
    BY <1>5, <1>6, <1>8, <2>1, <2>2, <2>4, StoredFamilies
  <2>7. ASSUME f \in s.files PROVE f \in e.files
    BY <1>2, <2>6, <2>7
  <2>8. f \in e.files
    <3>1. CASE \E q \in StoredThread(db.rows, z) : r.ref = q.ref
      <4>1. PICK q \in StoredThread(db.rows, z) : r.ref = q.ref
        BY <3>1
      <4>2. r.ref = s.ref
        BY <2>1, <4>1, StoredOnce
      <4>3. r = s
        BY <2>5, <4>2 DEF TablesInv, Indexed, Consistent, KeysUnique
      <4>4. QED
        BY <2>7, <4>3
    <3>2. CASE \E h \in GroupRollouts(codex, P) : r.ref = h.ref
      <4>1. PICK x \in P : /\ r.ref = <<"codex", x>> /\ r.ref[2] = x
                           /\ IsSubagent(codex, x) => r.files = {x}
        BY <1>14, <3>2
      <4>2. CASE x \in s.files
        <5>1. CASE IsSubagent(codex, x)
          BY <2>7, <4>1, <4>2, <5>1
        <5>2. CASE ~IsSubagent(codex, x)
          <6>1. codex[x] # Absent
            BY <1>9, <4>1
          <6>2. x = z
            BY <2>5, <4>2, <5>2, <6>1, RowOfAMainThread
          <6>3. r = s
            BY <2>5, <4>1, <6>2, RowsOfThreads
          <6>4. QED
            BY <2>7, <6>3
        <5>3. QED
          BY <5>1, <5>2
      <4>3. CASE x \notin s.files
        <5>1. x \in Members(z)
          <6>1. \A q \in StoredThread(db.rows, z) : q = s
            BY <2>1, StoredOnce
          <6>2. QED
            BY <1>9, <4>1, <4>3, <6>1
        <5>2. IsSubagent(codex, x)
          BY <1>13, <2>5, <4>1, <4>3, <5>1
        <5>3. f = x
          BY <4>1, <5>2
        <5>4. /\ ~IsSubagent(codex, z) => x \in Below(codex, Present(z), z)
              /\ IsSubagent(codex, z) => x = z \/ z \in AncestorsIn(codex, x)
          BY <1>2, <1>5, <2>1, <2>4, <5>1, <5>3, MembersUnderTheirRow
        <5>5. IsSubagent(codex, z) => z \notin AncestorsIn(codex, x)
          BY <1>2, <2>5, <5>3
        <5>6. x # z
          BY <2>5, <4>3
        <5>7. QED
          BY <1>8, <2>6, <5>3, <5>4, <5>5, <5>6
      <4>4. QED
        BY <4>2, <4>3
    <3>3. QED
      BY <1>12, <3>1, <3>2
  <2>9. d \in Family(z) /\ f \in d.files
    BY <1>4, <1>11, <2>8
  <2>10. QED
    BY <1>10, <2>9
<1>17. QED
  BY <1>15, <1>16

-----------------------------------------------------------------------------
(* The rows a rebuild writes for rollouts *)

(* A content founded on its thread, all of whose rollouts are there. *)
FoundedContent(p) ==
    \E t \in CodexFiles : /\ p.ref = <<"codex", t>> /\ p.ref[2] = t
                          /\ p.files \subseteq {g \in CodexFiles : codex[g] # Absent}
                          /\ Founded(codex, p.files, t)
                          /\ IsSubagent(codex, t) => p.files = {t}

\* So are the contents of a full rebuild,
LEMMA FullContentsAreFounded ==
  ASSUME NEW p \in FullContents, CodexContent(p)
  PROVE  FoundedContent(p)
<1>1. ASSUME p \in ParsedClaude(ClaudeConversations(claude)) PROVE FALSE
  <2>1. PICK c \in ClaudeConversations(claude) : p = Claude(c)
    BY <1>1 DEF ParsedClaude
  <2>2. ClaudeContent(p)
    BY <2>1, GroupsOfSessions, ClaudeContents
  <2>3. QED
    BY <2>2, KindsOfContents
<1>2. PICK c \in CodexConversations(codex) : p = Codex(c)
  BY <1>1 DEF FullContents, ParsedCodex
<1>3. PICK set : set = {f \in CodexFiles : CodexScans(codex, f)}
  OBVIOUS
<1>4. set \subseteq {g \in CodexFiles : codex[g] # Absent} /\ c \in GroupRollouts(codex, set)
  BY <1>2, <1>3 DEF CodexConversations, CodexScans
<1>5. PICK t \in set : /\ c.ref = <<"codex", t>> /\ c.ref[2] = t
                       /\ c.files \subseteq set
                       /\ Founded(codex, c.files, t)
                       /\ IsSubagent(codex, t) => c.files = {t}
  BY <1>4, GroupsAreFounded
<1>6. p.ref = c.ref /\ p.files = c.files
  BY <1>2 DEF Codex
<1>7. QED
  BY <1>4, <1>5, <1>6 DEF FoundedContent

\* and those of an incremental one.
LEMMA ParsedContentsAreFounded ==
  ASSUME TablesInv, ThreadsOK, NEW p \in Parsed(Resolution), CodexContent(p)
  PROVE  FoundedContent(p)
<1>1. RowsOK /\ CodexTyped
  BY DEF TablesInv, Typed
<1>2. PICK c \in CodexResolve(codex, pending \cap CodexFiles, db.rows) :
        c.ref = p.ref /\ c.files = p.files
  BY <1>1, ParsedContents, KindsOfContents
<1>3. PICK z \in Roots \ Blocked : c \in Family(z)
  BY <1>2, ResolvedFamilies
<1>4. PICK e \in GroupRollouts(codex, Present(z)) : c.ref = e.ref /\ c.files = e.files
  BY <1>3, WhatAFamilyGives
<1>5. PICK P : P = Present(z)
  OBVIOUS
<1>6. P \subseteq {g \in CodexFiles : codex[g] # Absent}
  BY <1>3, <1>5, RootsAreRollouts, PresentRollouts
<1>7. PICK t \in P : /\ e.ref = <<"codex", t>> /\ e.ref[2] = t
                     /\ e.files \subseteq P
                     /\ Founded(codex, e.files, t)
                     /\ IsSubagent(codex, t) => e.files = {t}
  BY <1>4, <1>5, <1>6, GroupsAreFounded
<1>8. QED
  BY <1>2, <1>4, <1>6, <1>7 DEF FoundedContent

\* The row of such a content has the last revision of each rollout.
LEMMA RowsOfRollouts ==
  ASSUME NEW r, NEW p, RowOfContent(r, p), CodexContent(p), FoundedContent(p)
  PROVE  ThreadRow(r) /\ OwnRevisions(r, r.files, codex)
<1>1. PICK t \in CodexFiles : /\ p.ref = <<"codex", t>> /\ p.ref[2] = t
                              /\ p.files \subseteq {g \in CodexFiles : codex[g] # Absent}
                              /\ Founded(codex, p.files, t)
                              /\ IsSubagent(codex, t) => p.files = {t}
  BY DEF FoundedContent
<1>2. r.ref = p.ref /\ r.files = p.files /\ r.text = p.text
  BY DEF RowOfContent
<1>3. ThreadRow(r)
  BY <1>1, <1>2 DEF ThreadRow
<1>4. p.text = {<<f, codex[f].rev>> : f \in p.files}
  BY DEF CodexContent, CodexTranscript
<1>5. OwnRevisions(r, r.files, codex)
  BY <1>2, <1>4 DEF OwnRevisions
<1>6. QED
  BY <1>3, <1>5

-----------------------------------------------------------------------------
(* When a row must be current, in any state of the archive *)

Strands(archive, gone, rows, f) ==
    \/ AncestorsIn(archive, f) \cap gone # {}
    \/ \E q \in rows : /\ q.ref[1] = "codex"
                       /\ archive[q.ref[2]] # Absent => IsSubagent(archive, q.ref[2])
                       /\ q.files \cap AncestorsIn(archive, f) # {}

CurrentHere(archive, gone, unread, rows, r) ==
    (/\ \A f \in r.files : CodexScans(archive, f)
     /\ ~IsSubagent(archive, r.ref[2])
     /\ \A f \in r.files : ~Strands(archive, gone, rows, f)
     /\ r.files \cap unread = {}) => OwnRevisions(r, r.files, archive)

CurrentIn(archive, gone, unread, rows) ==
    \A r \in rows : CodexRow(r) => CurrentHere(archive, gone, unread, rows, r)

\* That is what the property says of this state,
LEMMA CurrentNow ==
  ASSUME RowsOK
  PROVE  CodexRootsCurrent <=> CurrentIn(codex, lost, pending, db.rows)
<1>1. \A f \in CodexFiles : f \in Stranded <=> codex[f] # Absent /\ Strands(codex, lost, db.rows, f)
  BY SourcesAssumption, AncestorsAreThese DEF Stranded, Strands, Archived
<1>2. \A r \in db.rows : r.ref[1] = "codex" <=> CodexRow(r)
  BY DEF RowsOK, ClaudeRow, CodexRow
<1>3. ASSUME NEW r \in db.rows, CodexRow(r), \A f \in r.files : CodexScans(codex, f)
      PROVE  r.files \cap Stranded = {} <=> \A f \in r.files : ~Strands(codex, lost, db.rows, f)
  BY <1>1, <1>3 DEF CodexRow, CodexScans
<1>4. QED
  BY <1>2, <1>3 DEF CodexRootsCurrent, CurrentIn, CurrentHere, Settled

\* and of the next.
LEMMA CurrentNext ==
  ASSUME RowsOK'
  PROVE  CodexRootsCurrent' <=> CurrentIn(codex', lost', pending', db'.rows)
<1>1. \A f : Ancestors(f)' = AncestorsIn(codex', f)
  BY DEF Ancestors, AncestorsIn, ClosedAbove
<1>2. \A f \in CodexFiles : f \in Stranded' <=> codex'[f] # Absent /\ Strands(codex', lost', db'.rows, f)
  BY <1>1, SourcesAssumption DEF Stranded, Strands, Archived
<1>3. \A r \in db'.rows : r.ref[1] = "codex" <=> CodexRow(r)
  BY DEF RowsOK, ClaudeRow, CodexRow
<1>4. ASSUME NEW r \in db'.rows, CodexRow(r), \A f \in r.files : CodexScans(codex', f)
      PROVE  r.files \cap Stranded' = {} <=> \A f \in r.files : ~Strands(codex', lost', db'.rows, f)
  BY <1>2, <1>4 DEF CodexRow, CodexScans
<1>5. QED
  BY <1>3, <1>4 DEF CodexRootsCurrent, CurrentIn, CurrentHere, Settled

CodexInv == ThreadsOK /\ CodexRootsCurrent

\* Initially no row is stored.
LEMMA CodexInvInit == Init => CodexInv
BY DEF Init, EmptyTables, CodexInv, ThreadsOK, CodexRootsCurrent

\* A full rebuild leaves rows that are current.
LEMMA CodexInvRebuildFull ==
  ASSUME TablesInv, TablesInv', RebuildFull
  PROVE  CodexInv'
<1>1. UNCHANGED <<claude, codex, lost>> /\ \A r \in db'.rows : \E p \in FullContents : RowOfContent(r, p)
  BY FullRebuildWrites
<1>2. ASSUME NEW r \in db'.rows, CodexRow(r) PROVE ThreadRow(r) /\ OwnRevisions(r, r.files, codex)
  <2>1. PICK p \in FullContents : RowOfContent(r, p)
    BY <1>1, <1>2
  <2>2. ClaudeContent(p) \/ CodexContent(p)
    BY FullContentsAreContents DEF Contents
  <2>3. CodexContent(p)
    BY <1>2, <2>1, <2>2 DEF ClaudeContent, ClaudeGroup, CodexRow, RowOfContent
  <2>4. QED
    BY <2>1, <2>3, FullContentsAreFounded, RowsOfRollouts
<1>3. ThreadsOK'
  BY <1>1, <1>2 DEF ThreadsOK, ThreadRow, CodexRow
<1>4. CurrentIn(codex', lost', pending', db'.rows)
  BY <1>1, <1>2 DEF CurrentIn, CurrentHere
<1>5. CodexRootsCurrent'
  BY <1>4, CurrentNext DEF TablesInv
<1>6. QED
  BY <1>3, <1>5 DEF CodexInv

-----------------------------------------------------------------------------
(* Rollouts change between rebuilds *)

\* Nothing of the rollouts changes but what there is to read or what is lost.
LEMMA CodexInvOtherFile ==
  ASSUME TablesInv, TablesInv', CodexInv, UNCHANGED <<codex, db>>,
         pending \subseteq pending', lost \subseteq lost'
  PROVE  CodexInv'
<1>1. ThreadsOK'
  BY DEF CodexInv, ThreadsOK, ThreadRow, CodexRow
<1>2. CurrentIn(codex, lost, pending, db.rows)
  BY CurrentNow DEF CodexInv, TablesInv
<1>3. \A f : Strands(codex, lost, db.rows, f) => Strands(codex', lost', db'.rows, f)
  <2>1. PICK gone : gone = lost'
    OBVIOUS
  <2>2. \A f : Strands(codex, lost, db.rows, f) => Strands(codex, gone, db.rows, f)
    BY <2>1 DEF Strands
  <2>3. QED
    BY <2>1, <2>2
<1>4. CurrentIn(codex', lost', pending', db'.rows)
  BY <1>2, <1>3 DEF CurrentIn, CurrentHere
<1>5. QED
  BY <1>1, <1>4, CurrentNext DEF CodexInv, TablesInv

(* One rollout is written or disappears. *)
RolloutChanges(f) ==
    /\ db' = db
    /\ f \in pending' /\ pending \subseteq pending'
    /\ f \notin lost /\ lost \subseteq lost'
    /\ \A g \in CodexFiles : g # f => codex'[g] = codex[g]
    /\ codex'[f] = Absent => f \in lost'
    /\ codex[f] # Absent /\ codex'[f] # Absent => codex'[f].parent = codex[f].parent

\* A row stays founded on its thread.
LEMMA ThreadRowsStay ==
  ASSUME NEW f \in CodexFiles, RolloutChanges(f), NEW r, CodexRow(r), ThreadRow(r)
  PROVE  ThreadRow(r)'
<1>1. PICK F : F = r.files
  OBVIOUS
<1>2. PICK x : x = r.ref[2]
  OBVIOUS
<1>3. F \subseteq CodexFiles /\ x \in F /\ \A g \in F : codex[g] = Absent => g \in lost
  BY <1>1, <1>2, ThreadsAreListed DEF CodexRow, ThreadRow
<1>4. \A g \in F : codex'[g] = Absent => g \in lost'
  BY <1>3 DEF RolloutChanges
<1>5. \A g \in F : codex'[g] = Absent \/ (codex[g] # Absent /\ codex'[g].parent = codex[g].parent)
                   \/ (g # f /\ codex'[g] = codex[g])
  BY <1>3 DEF RolloutChanges
<1>6. codex'[x] # Absent /\ IsSubagent(codex', x) => F = {x}
  <2>1. codex'[x] # Absent => codex[x] # Absent /\ codex'[x].parent = codex[x].parent
    BY <1>3, <1>5 DEF RolloutChanges
  <2>2. QED
    BY <1>1, <1>2, <2>1 DEF ThreadRow, IsSubagent
<1>7. ASSUME NEW S \in SUBSET F, ClosedFrom(codex', F, x, S) PROVE F \subseteq S
  <2>1. x \in S /\ \A g \in F : codex'[g] = Absent \/ codex'[g].parent \in S => g \in S
    BY <1>7 DEF ClosedFrom
  <2>2. \A g \in F : codex[g] = Absent \/ codex[g].parent \in S => g \in S
    BY <1>3, <1>5, <2>1 DEF RolloutChanges
  <2>3. ClosedFrom(codex, F, x, S)
    BY <2>1, <2>2 DEF ClosedFrom
  <2>4. QED
    BY <1>1, <1>2, <1>7, <2>3 DEF ThreadRow, Founded
<1>8. Founded(codex', F, x)
  BY <1>3, <1>7 DEF Founded
<1>9. QED
  BY <1>1, <1>2, <1>4, <1>6, <1>8 DEF ThreadRow

\* A row that must be current had to be before.
LEMMA CurrentRowsStay ==
  ASSUME TablesInv, ThreadsOK, NEW f \in CodexFiles, RolloutChanges(f),
         NEW r \in db.rows, CodexRow(r), CurrentHere(codex, lost, pending, db.rows, r)
  PROVE  CurrentHere(codex', lost', pending', db'.rows, r)
<1> SUFFICES ASSUME \A g \in r.files : CodexScans(codex', g),
                    ~IsSubagent(codex', r.ref[2]),
                    \A g \in r.files : ~Strands(codex', lost', db'.rows, g),
                    r.files \cap pending' = {}
             PROVE  OwnRevisions(r, r.files, codex')
  BY DEF CurrentHere
<1>1. PICK F : F = r.files
  OBVIOUS
<1>2. PICK x : x = r.ref[2]
  OBVIOUS
<1>3. ThreadRow(r) /\ CodexTyped
  BY DEF ThreadsOK, TablesInv, Typed
<1>4. F \in SUBSET CodexFiles /\ x \in F /\ Founded(codex, F, x)
  BY <1>1, <1>2, <1>3, ThreadsAreListed DEF CodexRow, ThreadRow
<1>5. f \notin F
  BY <1>1 DEF RolloutChanges
<1>6. \A g \in F : codex'[g] = codex[g]
  BY <1>4, <1>5 DEF RolloutChanges
<1>7. /\ \A g \in F : CodexScans(codex, g) /\ codex[g] # Absent
      /\ ~IsSubagent(codex, x)
  BY <1>1, <1>2, <1>4, <1>6 DEF CodexScans, IsSubagent
<1>8. PICK other : other = codex'
  OBVIOUS
<1>9. \A g \in F : codex[g].parent \in F \cup {NoParent}
  BY <1>3, <1>4, <1>7, WholeFamilies
<1>10. \A g \in F : AncestorsIn(codex, g) = AncestorsIn(other, g)
  <2>1. PICK archive : archive = codex
    OBVIOUS
  <2>2. \A g \in F : /\ archive[g] # Absent /\ archive[g].parent \in F \cup {NoParent}
                     /\ other[g] = archive[g]
    BY <1>6, <1>7, <1>8, <1>9, <2>1
  <2>3. \A g \in F : AncestorsIn(archive, g) = AncestorsIn(other, g)
    BY <1>4, <2>2, AncestorsInFamily
  <2>4. QED
    BY <2>1, <2>3
<1>11. ASSUME NEW q \in db.rows, q.ref[1] = "codex",
              codex[q.ref[2]] # Absent => IsSubagent(codex, q.ref[2])
       PROVE  other[q.ref[2]] # Absent => IsSubagent(other, q.ref[2])
  <2>1. CodexRow(q)
    BY <1>11 DEF TablesInv, RowsOK, ClaudeRow
  <2>2. ThreadRow(q) /\ q.ref[2] \in q.files /\ q.ref[2] \in CodexFiles
    BY <2>1, ThreadsAreListed DEF ThreadsOK, CodexRow
  <2>3. q.ref[2] = f => codex[f] # Absent
    BY <2>2 DEF ThreadRow, RolloutChanges
  <2>4. QED
    BY <1>8, <1>11, <2>2, <2>3 DEF RolloutChanges, IsSubagent
<1>12. ASSUME NEW g \in F PROVE ~Strands(codex, lost, db.rows, g)
  <2>1. ~Strands(other, lost', db.rows, g)
    BY <1>1, <1>8 DEF RolloutChanges
  <2>2. AncestorsIn(codex, g) \cap lost = {}
    BY <1>10, <2>1 DEF Strands, RolloutChanges
  <2>3. ASSUME NEW q \in db.rows, q.ref[1] = "codex",
               codex[q.ref[2]] # Absent => IsSubagent(codex, q.ref[2]),
               q.files \cap AncestorsIn(codex, g) # {}
        PROVE  FALSE
    BY <1>10, <1>11, <2>1, <2>3 DEF Strands
  <2>4. QED
    BY <2>2, <2>3 DEF Strands
<1>13. r.files \cap pending = {}
  BY DEF RolloutChanges
<1>14. OwnRevisions(r, r.files, codex)
  BY <1>1, <1>2, <1>7, <1>12, <1>13 DEF CurrentHere
<1>15. QED
  BY <1>1, <1>6, <1>14 DEF OwnRevisions

\* A change of one rollout preserves the invariant.
LEMMA CodexInvRolloutChanges ==
  ASSUME TablesInv, TablesInv', CodexInv, NEW f \in CodexFiles, RolloutChanges(f)
  PROVE  CodexInv'
<1>1. db' = db
  BY DEF RolloutChanges
<1>2. ThreadsOK'
  BY <1>1, ThreadRowsStay DEF CodexInv, ThreadsOK, CodexRow
<1>3. CurrentIn(codex, lost, pending, db.rows)
  BY CurrentNow DEF CodexInv, TablesInv
<1>4. \A r \in db.rows : CodexRow(r) => CurrentHere(codex', lost', pending', db'.rows, r)
  BY <1>3, CurrentRowsStay DEF CurrentIn, CodexInv
<1>5. CurrentIn(codex', lost', pending', db'.rows)
  BY <1>1, <1>4 DEF CurrentIn
<1>6. QED
  BY <1>2, <1>5, CurrentNext DEF CodexInv, TablesInv

\* A write of a Claude file has no say,
LEMMA CodexInvWriteClaude ==
  ASSUME TablesInv, TablesInv', CodexInv, NEW f \in ClaudeFiles, WriteClaude(f)
  PROVE  CodexInv'
BY CodexInvOtherFile DEF WriteClaude

\* a write of a rollout changes it,
LEMMA CodexInvWriteCodex ==
  ASSUME TablesInv, TablesInv', CodexInv, NEW f \in CodexFiles, WriteCodex(f)
  PROVE  CodexInv'
<1>1. PICK new \in CodexEntries(1 .. MaxCodexWrites) :
        CodexGrows(codex[f], new) /\ codex' = [codex EXCEPT ![f] = new]
  BY DEF WriteCodex
<1>2. codex \in [CodexFiles -> CodexEntries(1 .. MaxCodexWrites) \cup {Absent}]
  BY DEF TablesInv, Typed, CodexTyped
<1>3. codex'[f] = new /\ \A g \in CodexFiles : g # f => codex'[g] = codex[g]
  BY <1>1, <1>2
<1>4. codex[f] # Absent => new.parent = codex[f].parent
  BY <1>1 DEF CodexGrows
<1>5. codex'[f] # Absent
  <2>1. new \in CodexEntries(Nat)
    BY BoundsAssumption DEF CodexEntries
  <2>2. QED
    BY <1>3, <2>1, AbsentAssumption
<1>6. RolloutChanges(f)
  BY <1>3, <1>4, <1>5 DEF WriteCodex, RolloutChanges
<1>7. QED
  BY <1>6, CodexInvRolloutChanges

\* and so does its disappearance.
LEMMA CodexInvLoseFile ==
  ASSUME TablesInv, TablesInv', CodexInv, NEW f \in Files, LoseFile(f)
  PROVE  CodexInv'
<1>1. CASE f \in ClaudeFiles
  BY <1>1, CodexInvOtherFile DEF LoseFile
<1>2. CASE f \notin ClaudeFiles
  <2>1. f \in CodexFiles
    BY <1>2 DEF Files
  <2>2. codex' = [codex EXCEPT ![f] = Absent]
    BY <1>2 DEF LoseFile
  <2>3. codex \in [CodexFiles -> CodexEntries(1 .. MaxCodexWrites) \cup {Absent}]
    BY DEF TablesInv, Typed, CodexTyped
  <2>4. codex'[f] = Absent /\ \A g \in CodexFiles : g # f => codex'[g] = codex[g]
    BY <2>1, <2>2, <2>3
  <2>5. RolloutChanges(f)
    BY <2>4 DEF LoseFile, RolloutChanges
  <2>6. QED
    BY <2>1, <2>5, CodexInvRolloutChanges
<1>3. QED
  BY <1>1, <1>2

-----------------------------------------------------------------------------
(* Rows an incremental rebuild leaves as they are *)

(* The family of a main thread all of whose rollouts scan. *)
WholeFamily(r) ==
    /\ r \in db.rows /\ CodexRow(r)
    /\ \A f \in r.files : CodexScans(codex, f)
    /\ ~IsSubagent(codex, r.ref[2])

\* What that says of its rollouts.
LEMMA WholeFamilyFacts ==
  ASSUME TablesInv, ThreadsOK, NEW r, WholeFamily(r)
  PROVE  /\ ThreadRow(r) /\ Founded(codex, r.files, r.ref[2])
         /\ r.files \in SUBSET CodexFiles /\ r.ref[2] \in r.files
         /\ \A g \in r.files : codex[g] # Absent
         /\ \A g \in r.files : codex[g].parent \in r.files \cup {NoParent}
         /\ \A g \in r.files : ~IsSubagent(codex, g) => g = r.ref[2]
         /\ \A g \in r.files : AncestorsIn(codex, g) \subseteq r.files
<1>1. ThreadRow(r) /\ CodexTyped
  BY DEF WholeFamily, ThreadsOK, TablesInv, Typed
<1>2. Founded(codex, r.files, r.ref[2]) /\ r.files \in SUBSET CodexFiles /\ r.ref[2] \in r.files
  BY <1>1, ThreadsAreListed DEF ThreadRow, WholeFamily, CodexRow
<1>3. (\A g \in r.files : codex[g] # Absent) /\ ~IsSubagent(codex, r.ref[2])
  BY DEF WholeFamily, CodexScans
<1>4. PICK F : F = r.files
  OBVIOUS
<1>5. PICK x : x = r.ref[2]
  OBVIOUS
<1>6. /\ F \in SUBSET CodexFiles /\ Founded(codex, F, x)
      /\ ~IsSubagent(codex, x) /\ \A g \in F : codex[g] # Absent
  BY <1>2, <1>3, <1>4, <1>5
<1>7. /\ \A g \in F : codex[g].parent \in F \cup {NoParent}
      /\ \A g \in F : ~IsSubagent(codex, g) => g = x
      /\ \A g \in F : AncestorsIn(codex, g) \subseteq F
  BY <1>1, <1>6, WholeFamilies
<1>8. QED
  BY <1>1, <1>2, <1>3, <1>4, <1>5, <1>7

\* A row that shares a rollout with the family is of a thread of the family.
LEMMA WhoMeetsAFamily ==
  ASSUME TablesInv, ThreadsOK, NEW r, WholeFamily(r),
         NEW T \in SUBSET CodexFiles, NEW y, Founded(codex, T, y),
         NEW a \in r.files, a \in T
  PROVE  /\ y \in r.files
         /\ ~IsSubagent(codex, y) => y = r.ref[2]
<1>1. PICK F : F = r.files
  OBVIOUS
<1>2. PICK x : x = r.ref[2]
  OBVIOUS
<1>3. /\ F \in SUBSET CodexFiles /\ Founded(codex, F, x)
      /\ ~IsSubagent(codex, x) /\ \A g \in F : codex[g] # Absent
      /\ \A g \in F : ~IsSubagent(codex, g) => g = x
  BY <1>1, <1>2, WholeFamilyFacts DEF WholeFamily
<1>4. y \in F
  BY <1>1, <1>3, FamiliesMeet
<1>5. QED
  BY <1>1, <1>2, <1>3, <1>4

\* A row that strands a rollout of the family is that of a subagent above it.
LEMMA WhoStrandsAFamily ==
  ASSUME TablesInv, ThreadsOK, NEW r, WholeFamily(r), NEW f \in r.files,
         NEW q \in db.rows, q.ref[1] = "codex",
         codex[q.ref[2]] # Absent => IsSubagent(codex, q.ref[2]),
         q.files \cap AncestorsIn(codex, f) # {}
  PROVE  /\ q.ref[2] \in r.files /\ q.ref[2] \in AncestorsIn(codex, f)
         /\ CodexRow(q) /\ q.files = {q.ref[2]} /\ IsSubagent(codex, q.ref[2])
<1>1. PICK a : a \in q.files /\ a \in AncestorsIn(codex, f)
  OBVIOUS
<1>2. a \in r.files
  BY <1>1, WholeFamilyFacts
<1>3. CodexRow(q)
  BY DEF TablesInv, RowsOK, ClaudeRow
<1>4. ThreadRow(q)
  BY <1>3 DEF ThreadsOK
<1>5. q.files \in SUBSET CodexFiles /\ Founded(codex, q.files, q.ref[2])
  BY <1>3, <1>4 DEF CodexRow, ThreadRow
<1>6. q.ref[2] \in r.files
  BY <1>1, <1>2, <1>5, WhoMeetsAFamily
<1>7. IsSubagent(codex, q.ref[2]) /\ codex[q.ref[2]] # Absent
  BY <1>6, WholeFamilyFacts
<1>8. q.files = {q.ref[2]}
  BY <1>4, <1>7, RowOfASubagent
<1>9. QED
  BY <1>1, <1>3, <1>6, <1>7, <1>8

\* If the rebuild keeps the row of the family and leaves nothing that strands it,
\* no subagent above its rollouts had a row of its own before.
LEMMA NothingStranded ==
  ASSUME TablesInv, ThreadsOK, NEW refs, Rewrites(refs), NEW r, WholeFamily(r), r.ref \notin refs,
         \A f \in r.files : ~Strands(codex, lost, db'.rows, f)
  PROVE  \A f \in r.files : ~Strands(codex, lost, db.rows, f)
<1>1. PICK F : F = r.files
  OBVIOUS
<1>2. PICK x : x = r.ref[2]
  OBVIOUS
<1>3. /\ ThreadRow(r) /\ Founded(codex, F, x)
      /\ F \in SUBSET CodexFiles /\ x \in F /\ ~IsSubagent(codex, x)
      /\ \A g \in F : codex[g] # Absent
      /\ \A g \in F : codex[g].parent \in F \cup {NoParent}
      /\ \A g \in F : AncestorsIn(codex, g) \subseteq F
  BY <1>1, <1>2, WholeFamilyFacts DEF WholeFamily
<1>4. RowsOK /\ CodexTyped /\ ParentsTyped(codex)
  BY DEF TablesInv, Typed, CodexTyped, CodexEntries, ParentsTyped
<1>5. PICK next : next = db'.rows
  OBVIOUS
<1>6. \A f \in F : ~Strands(codex, lost, next, f)
  BY <1>1, <1>5
<1>7. PICK Above : Above = {h \in F : \E f \in F : h \in AncestorsIn(codex, f)}
  OBVIOUS
<1>8. PICK Alone : Alone = {h \in CodexFiles : \E q \in db.rows : CodexRow(q) /\ q.ref[2] = h}
  OBVIOUS
<1>9. PICK S : S = {h \in F : ({h} \cup AncestorsIn(codex, h)) \cap Above \cap Alone \subseteq {x}}
  OBVIOUS
<1>10. x \in S
  <2>1. AncestorsIn(codex, x) = {}
    BY <1>3, MainThreadsHaveNoAncestors
  <2>2. QED
    BY <1>3, <1>9, <2>1
<1>11. ASSUME NEW h \in F, h # x, NEW k \in S, codex[h].parent = k PROVE h \in S
  <2>1. k \in F /\ k \in CodexFiles /\ codex[k] # Absent
    BY <1>3, <1>9
  <2>2. AncestorsIn(codex, h) = {k} \cup AncestorsIn(codex, k)
    BY <1>4, <1>11, <2>1, AncestorsThroughParent
  <2>3. (({k} \cup AncestorsIn(codex, k)) \cap Above) \cap Alone \subseteq {x}
    BY <1>9
  <2>4. ASSUME h \in Above, h \in Alone PROVE FALSE
    <3>1. PICK f \in F : h \in AncestorsIn(codex, f)
      BY <1>7, <2>4
    <3>2. PICK q \in db.rows : CodexRow(q) /\ q.ref[2] = h
      BY <1>8, <2>4
    <3>3. IsSubagent(codex, h)
      BY <1>1, <1>2, <1>11, WholeFamilyFacts
    <3>4. codex[h] # Absent /\ ThreadRow(q) /\ h \in CodexFiles
      BY <1>3, <3>2 DEF ThreadsOK
    <3>5. q.files = {h}
      BY <3>2, <3>3, <3>4, RowOfASubagent
    <3>6. AncestorsIn(codex, h) \subseteq AncestorsIn(codex, f)
      BY <3>1, <3>4, AncestorsOfAncestors
    <3>7. h \notin Stranded
      <4>1. AncestorsIn(codex, h) \cap lost = {}
        BY <1>6, <3>6 DEF Strands
      <4>2. ASSUME NEW p \in db.rows, p.ref[1] = "codex",
                   codex[p.ref[2]] # Absent => IsSubagent(codex, p.ref[2]),
                   p.files \cap AncestorsIn(codex, h) # {}
            PROVE  FALSE
        <5>1. /\ p.ref[2] \in F /\ p.ref[2] \in AncestorsIn(codex, h)
              /\ CodexRow(p) /\ IsSubagent(codex, p.ref[2])
          BY <1>1, <4>2, WhoStrandsAFamily
        <5>2. p.ref[2] \in Above /\ p.ref[2] \in Alone
          BY <1>3, <1>7, <1>8, <5>1
        <5>3. p.ref[2] = x
          BY <2>2, <2>3, <5>1, <5>2
        <5>4. QED
          BY <1>3, <5>1, <5>3
      <4>3. Ancestors(h) = AncestorsIn(codex, h)
        BY AncestorsAreThese
      <4>4. QED
        BY <4>1, <4>2, <4>3 DEF Stranded
    <3>8. q \notin next
      <4>1. q.ref[1] = "codex"
        BY <3>2 DEF CodexRow
      <4>2. q.files \cap AncestorsIn(codex, f) # {}
        BY <3>1, <3>5
      <4>3. QED
        BY <1>6, <3>2, <3>3, <4>1, <4>2 DEF Strands
    <3>9. q.ref \in refs
      BY <1>5, <3>8 DEF Rewrites
    <3>10. h \in q.files
      BY <3>5
    <3>11. PICK p \in Parsed(Resolution) : h \in p.files
      BY <3>2, <3>4, <3>7, <3>9, <3>10, RolloutsStayListed
    <3>12. CodexContent(p)
      <4>1. ClaudeContent(p) \/ CodexContent(p)
        BY <1>4, ParsedContents
      <4>2. QED
        BY <3>4, <3>11, <4>1, SourcesAssumption DEF ClaudeContent, ClaudeGroup
    <3>13. PICK y \in CodexFiles : /\ p.ref = <<"codex", y>> /\ p.ref[2] = y
                                   /\ p.files \subseteq CodexFiles
                                   /\ Founded(codex, p.files, y)
                                   /\ IsSubagent(codex, y) => p.files = {y}
      BY <3>11, <3>12, ParsedContentsAreFounded DEF FoundedContent
    <3>14. h \in r.files
      BY <1>1
    <3>15. y \in F /\ (~IsSubagent(codex, y) => y = x)
      BY <1>1, <1>2, <3>11, <3>13, <3>14, WhoMeetsAFamily
    <3>16. CASE ~IsSubagent(codex, y)
      <4>1. p.ref = r.ref
        <5>1. PICK g \in CodexFiles : r.ref = <<"codex", g>>
          BY DEF WholeFamily, CodexRow
        <5>2. QED
          BY <1>2, <3>13, <3>15, <3>16, <5>1
      <4>2. p.ref \in refs
        BY <1>4, ParsedIsReplaced DEF Rewrites
      <4>3. QED
        BY <4>1, <4>2
    <3>17. CASE IsSubagent(codex, y)
      <4>1. y = h
        BY <3>11, <3>13, <3>17
      <4>2. PICK s \in next : RowOfContent(s, p)
        BY <1>5 DEF Rewrites
      <4>3. s.ref[1] = "codex" /\ s.ref[2] = h /\ h \in s.files
        BY <3>11, <3>13, <4>1, <4>2 DEF RowOfContent
      <4>4. s.files \cap AncestorsIn(codex, f) # {}
        BY <3>1, <4>3
      <4>5. QED
        BY <1>6, <3>3, <4>2, <4>3, <4>4 DEF Strands
    <3>18. QED
      BY <3>16, <3>17
  <2>5. QED
    BY <1>9, <1>11, <2>2, <2>3, <2>4
<1>12. \A h \in F : codex[h] = Absent \/ codex[h].parent \in S \cap F => h \in S
  BY <1>3, <1>10, <1>11
<1>13. F \subseteq S
  BY <1>3, <1>10, <1>12, FoundedInduction
<1>14. ASSUME NEW f \in F, NEW q \in db.rows, q.ref[1] = "codex",
              codex[q.ref[2]] # Absent => IsSubagent(codex, q.ref[2]),
              q.files \cap AncestorsIn(codex, f) # {}
       PROVE  FALSE
  <2>1. /\ q.ref[2] \in F /\ q.ref[2] \in AncestorsIn(codex, f)
        /\ CodexRow(q) /\ IsSubagent(codex, q.ref[2])
    BY <1>1, <1>14, WhoStrandsAFamily
  <2>2. q.ref[2] \in Above /\ q.ref[2] \in Alone
    BY <1>3, <1>7, <1>8, <2>1
  <2>3. q.ref[2] = x
    BY <1>9, <1>13, <2>1, <2>2
  <2>4. QED
    BY <1>3, <2>1, <2>3
<1>15. QED
  BY <1>1, <1>6, <1>14 DEF Strands

\* A changed rollout of a family nothing strands is resolved to its thread.
LEMMA RootOfAFamily ==
  ASSUME TablesInv, ThreadsOK, NEW r, WholeFamily(r),
         NEW f \in r.files, ~Strands(codex, lost, db.rows, f), f \in Good
  PROVE  RootOf(f) = r.ref[2]
<1>1. PICK F : F = r.files
  OBVIOUS
<1>2. PICK x : x = r.ref[2]
  OBVIOUS
<1>3. /\ ThreadRow(r) /\ CodexRow(r) /\ r \in db.rows /\ Founded(codex, F, x)
      /\ F \in SUBSET CodexFiles /\ x \in F /\ ~IsSubagent(codex, x)
      /\ \A g \in F : codex[g] # Absent
      /\ \A g \in F : codex[g].parent \in F \cup {NoParent}
      /\ \A g \in F : ~IsSubagent(codex, g) => g = x
      /\ \A g \in F : AncestorsIn(codex, g) \subseteq F
  BY <1>1, <1>2, WholeFamilyFacts DEF WholeFamily
<1>4. PICK good : good = Good
  OBVIOUS
<1>5. good \subseteq {g \in CodexFiles : codex[g] # Absent} /\ f \in good
  BY <1>4 DEF Good, CodexScans
<1>6. PICK w : w = RootOf(f)
  OBVIOUS
<1>7. w = IncrementalRoot(codex, good, db.rows, f)
  BY <1>4, <1>6 DEF RootOf
<1>8. ASSUME NEW C \in SUBSET good, Cycle(codex, C), w \in C, w \in AncestorsIn(codex, f) PROVE FALSE
  <2>1. w \in F
    BY <1>1, <1>3, <1>8
  <2>2. C \subseteq {g \in CodexFiles : codex[g] # Absent}
    BY <1>5
  <2>3. w = x
    BY <1>1, <1>2, <1>3, <1>8, <2>1, <2>2, RowOfACycle
  <2>4. codex[x].parent \in CodexFiles
    BY <1>8, <2>2, <2>3 DEF Cycle
  <2>5. QED
    BY <1>3, <2>4, CodexFilesAssumption DEF IsSubagent
<1>9. ASSUME NEW t \in good, f \in Below(codex, good, t), w = EndOf(codex, db.rows, t)
      PROVE  w = x
  <2>1. (f = t \/ t \in AncestorsIn(codex, f)) /\ AncestorsIn(codex, t) \subseteq AncestorsIn(codex, f)
    BY <1>5, <1>9, BelowAncestors
  <2>2. t \in F
    BY <1>1, <1>3, <2>1
  <2>3. ASSUME IsSubagent(codex, t)
        PROVE  codex[t].parent \in F /\ codex[t].parent \in AncestorsIn(codex, f)
    <3>1. codex[t].parent \in F
      BY <1>3, <2>2, <2>3 DEF IsSubagent
    <3>2. codex[t].parent \in AncestorsIn(codex, t)
      BY <1>3, <3>1, ParentIsAncestor
    <3>3. QED
      BY <2>1, <3>1, <3>2
  <2>4. CASE w = t /\ ~IsSubagent(codex, t)
    BY <1>3, <2>2, <2>4
  <2>5. ASSUME IsSubagent(codex, t), StoredRoots(db.rows, codex[t].parent) = {} PROVE FALSE
    <3>1. StoredThread(db.rows, codex[t].parent) = {}
      BY <2>5 DEF StoredRoots
    <3>2. QED
      BY <1>1, <1>3, <2>3, <2>5, <3>1, StoredOnce
  <2>6. ASSUME IsSubagent(codex, t), NEW q \in StoredThread(db.rows, codex[t].parent), w = q.ref[2]
        PROVE  w = x
    <3>1. PICK h : h = codex[t].parent
      OBVIOUS
    <3>2. h \in F /\ h \in AncestorsIn(codex, f)
      BY <2>3, <2>6, <3>1
    <3>3. q \in db.rows /\ h \in q.files /\ CodexRow(q) /\ ThreadRow(q)
      BY <1>3, <2>6, <3>1, <3>2, RowOfTheStore
    <3>4. codex[w] # Absent /\ ~IsSubagent(codex, w)
      <4>1. q.ref[1] = "codex" /\ q.files \cap AncestorsIn(codex, f) # {}
        BY <3>2, <3>3 DEF CodexRow
      <4>2. QED
        BY <2>6, <3>3, <4>1 DEF Strands
    <3>5. q.files \in SUBSET CodexFiles /\ Founded(codex, q.files, w) /\ h \in r.files
      BY <1>1, <2>6, <3>2, <3>3 DEF CodexRow, ThreadRow
    <3>6. QED
      BY <1>2, <3>3, <3>4, <3>5, WhoMeetsAFamily
  <2>7. QED
    BY <1>9, <2>4, <2>5, <2>6, EndsOfWalks
<1>10. w = x
  BY <1>5, <1>7, <1>8, <1>9, WalksEnd
<1>11. QED
  BY <1>2, <1>6, <1>10

\* So its row is replaced.
LEMMA ChangedFamiliesAreReplaced ==
  ASSUME TablesInv, ThreadsOK, NEW refs, Rewrites(refs), NEW r, WholeFamily(r),
         \A f \in r.files : ~Strands(codex, lost, db.rows, f),
         r.files \cap pending # {}
  PROVE  r.ref \in refs
<1>1. RowsOK /\ CodexTyped
  BY DEF TablesInv, Typed
<1>2. PICK x : x = r.ref[2]
  OBVIOUS
<1>3. /\ ThreadRow(r) /\ CodexRow(r) /\ r \in db.rows
      /\ r.files \in SUBSET CodexFiles /\ x \in r.files /\ ~IsSubagent(codex, x)
      /\ codex[x] # Absent /\ \A g \in r.files : CodexScans(codex, g)
  BY <1>2, WholeFamilyFacts DEF WholeFamily
<1>4. PICK f \in r.files : f \in Good
  BY <1>3 DEF Good
<1>5. RootOf(f) = x
  BY <1>2, <1>4, RootOfAFamily
<1>6. x \in Roots /\ x \in CodexFiles
  BY <1>3, <1>4, <1>5 DEF Roots
<1>7. ASSUME NEW s \in StoredThread(db.rows, x) PROVE s = r
  <2>1. s \in db.rows /\ x \in s.files /\ CodexRow(s) /\ ThreadRow(s)
    BY <1>6, <1>7, RowOfTheStore
  <2>2. s.ref[2] = x
    BY <1>3, <2>1, RowOfAMainThread
  <2>3. QED
    BY <1>2, <1>3, <2>1, <2>2, RowsOfThreads
<1>8. x \notin Blocked
  <2>1. ASSUME NEW b \in Bad, x \in StoredRoots(db.rows, b) PROVE FALSE
    <3>1. PICK q \in StoredThread(db.rows, b) : q.ref[2] = x
      BY <2>1 DEF StoredRoots
    <3>2. b \in CodexFiles /\ ~CodexScans(codex, b)
      BY DEF Bad
    <3>3. q \in db.rows /\ b \in q.files /\ CodexRow(q)
      BY <3>1, <3>2, RowOfTheStore
    <3>4. q = r
      BY <1>2, <1>3, <3>1, <3>3, RowsOfThreads
    <3>5. QED
      BY <1>3, <3>2, <3>3, <3>4
  <2>2. QED
    BY <2>1 DEF Blocked
<1>9. PICK P : P = Present(x)
  OBVIOUS
<1>10. StoredThread(db.rows, x) # {}
  BY <1>3, StoredOnce
<1>11. /\ P \subseteq CodexFiles /\ x \in P
       /\ \A g \in P : CodexScans(codex, g)
  <2>1. P \subseteq {g \in CodexFiles : codex[g] # Absent}
        /\ \A s \in StoredThread(db.rows, x) : \A g \in s.files : codex[g] # Absent => g \in P
    BY <1>6, <1>9, PresentRollouts
  <2>2. x \in P
    BY <1>3, <1>7, <1>10, <2>1
  <2>3. ASSUME NEW g \in P PROVE CodexScans(codex, g)
    <3>1. g \in Members(x) \/ \E s \in StoredThread(db.rows, x) : g \in s.files
      BY <1>9 DEF Present
    <3>2. g \in Members(x) => CodexScans(codex, g)
      BY DEF Members, Good
    <3>3. QED
      BY <1>3, <1>7, <3>1, <3>2
  <2>4. QED
    BY <2>1, <2>2, <2>3
<1>12. PICK e \in GroupRollouts(codex, P) : e.ref = <<"codex", x>>
  BY <1>3, <1>11, MainThreadsHaveGroups
<1>13. PICK c : c = [ref |-> e.ref, files |-> e.files, replaces |-> FamilyRefs(x)]
  OBVIOUS
<1>14. c \in Family(x)
  BY <1>9, <1>11, <1>12, <1>13, WhatAFamilyGives
<1>15. PICK p \in Parsed(Resolution) : p.ref = c.ref
  BY <1>6, <1>8, <1>14, FamiliesAreParsed
<1>16. p.ref = r.ref
  <2>1. PICK g \in CodexFiles : r.ref = <<"codex", g>>
    BY <1>3 DEF CodexRow
  <2>2. QED
    BY <1>2, <1>12, <1>13, <1>15, <2>1
<1>17. p.ref \in refs
  BY <1>1, ParsedIsReplaced DEF Rewrites
<1>18. QED
  BY <1>16, <1>17

\* An incremental rebuild leaves rows that are current.
LEMMA CodexInvIncremental ==
  ASSUME TablesInv, TablesInv', CodexInv, RebuildIncremental
  PROVE  CodexInv'
<1>1. RowsOK /\ CodexTyped /\ ThreadsOK
  BY DEF TablesInv, Typed, CodexInv
<1>2. PICK refs : Rewrites(refs)
  BY IncrementalRebuildWrites
<1>3. /\ UNCHANGED <<codex, lost>> /\ pending' = {}
      /\ \A r \in db'.rows : \/ r \in db.rows /\ r.ref \notin refs
                             \/ \E p \in Parsed(Resolution) : RowOfContent(r, p)
  BY <1>2 DEF Rewrites
<1>4. ASSUME NEW r, CodexRow(r), NEW p \in Parsed(Resolution), RowOfContent(r, p)
      PROVE  ThreadRow(r) /\ OwnRevisions(r, r.files, codex)
  <2>1. CodexContent(p)
    <3>1. ClaudeContent(p) \/ CodexContent(p)
      BY <1>1, ParsedContents
    <3>2. QED
      BY <1>4, <3>1 DEF ClaudeContent, ClaudeGroup, CodexRow, RowOfContent
  <2>2. FoundedContent(p)
    BY <1>1, <2>1, ParsedContentsAreFounded
  <2>3. QED
    BY <1>4, <2>1, <2>2, RowsOfRollouts
<1>5. \A r \in db'.rows : CodexRow(r) => ThreadRow(r)
  BY <1>1, <1>3, <1>4 DEF ThreadsOK
<1>6. ThreadsOK'
  BY <1>3, <1>5 DEF ThreadsOK, ThreadRow, CodexRow
<1>7. CurrentIn(codex, lost, pending, db.rows)
  BY <1>1, CurrentNow DEF CodexInv
<1>8. ASSUME NEW r \in db.rows, r.ref \notin refs, CodexRow(r)
      PROVE  CurrentHere(codex, lost, {}, db'.rows, r)
  <2>1. SUFFICES ASSUME WholeFamily(r), \A f \in r.files : ~Strands(codex, lost, db'.rows, f)
                 PROVE  OwnRevisions(r, r.files, codex)
    BY <1>8 DEF CurrentHere, WholeFamily
  <2>2. \A f \in r.files : ~Strands(codex, lost, db.rows, f)
    BY <1>1, <1>2, <1>8, <2>1, NothingStranded
  <2>3. r.files \cap pending = {}
    BY <1>1, <1>2, <1>8, <2>1, <2>2, ChangedFamiliesAreReplaced
  <2>4. CurrentHere(codex, lost, pending, db.rows, r)
    BY <1>7, <1>8 DEF CurrentIn
  <2>5. QED
    BY <2>1, <2>2, <2>3, <2>4 DEF CurrentHere, WholeFamily
<1>9. ASSUME NEW r \in db'.rows, CodexRow(r)
      PROVE  CurrentHere(codex, lost, {}, db'.rows, r)
  <2>1. CASE r \in db.rows /\ r.ref \notin refs
    BY <1>8, <1>9, <2>1
  <2>2. CASE \E p \in Parsed(Resolution) : RowOfContent(r, p)
    BY <1>4, <1>9, <2>2 DEF CurrentHere
  <2>3. QED
    BY <1>3, <2>1, <2>2
<1>10. CurrentIn(codex', lost', pending', db'.rows)
  BY <1>3, <1>9 DEF CurrentIn
<1>11. CodexRootsCurrent'
  BY <1>10, CurrentNext DEF TablesInv
<1>12. QED
  BY <1>6, <1>11 DEF CodexInv

\* Every action preserves the invariant.
LEMMA CodexInvNext == TablesInv /\ TablesInv' /\ CodexInv /\ [Next]_vars => CodexInv'
<1> SUFFICES ASSUME TablesInv, TablesInv', CodexInv, [Next]_vars PROVE CodexInv'
  OBVIOUS
<1>1. ASSUME NEW f \in ClaudeFiles, WriteClaude(f) PROVE CodexInv'
  BY <1>1, CodexInvWriteClaude
<1>2. ASSUME NEW f \in CodexFiles, WriteCodex(f) PROVE CodexInv'
  BY <1>2, CodexInvWriteCodex
<1>3. ASSUME NEW f \in Files, LoseFile(f) PROVE CodexInv'
  BY <1>3, CodexInvLoseFile
<1>4. CASE RebuildFull
  BY <1>4, CodexInvRebuildFull
<1>5. CASE RebuildIncremental
  BY <1>5, CodexInvIncremental
<1>6. CASE UNCHANGED vars
  BY <1>6, CodexInvOtherFile DEF vars
<1>7. QED
  BY <1>1, <1>2, <1>3, <1>4, <1>5, <1>6 DEF Next

-----------------------------------------------------------------------------
(* The theorems *)

ContentInv == TablesInv /\ SessionsInv /\ CodexInv

\* The invariant holds initially and every step preserves it.
LEMMA ContentInvInductive ==
  /\ Init => ContentInv
  /\ ContentInv /\ [Next]_vars => ContentInv'
<1>1. Init => ContentInv
  BY TablesInvInit, SessionsInvInit, CodexInvInit DEF ContentInv
<1>2. ContentInv /\ [Next]_vars => ContentInv'
  BY TablesInvNext, SessionsInvNext, CodexInvNext DEF ContentInv
<1>3. QED
  BY <1>1, <1>2

\* In every behaviour, with any files, any number of writes and losses, and
\* full and incremental rebuilds in any order: a Claude conversation whose
\* members all parse, and the row of a Codex main thread whose rollouts all
\* scan, hold the last revision of each member once it was given to a rebuild,
\* but for what CodexRootsCurrent excludes (internal/source/claude/incremental.go
\* and internal/source/codex/incremental.go).
THEOREM ConversationsAlwaysCurrent == Spec => []ConversationsCurrent
<1>1. ContentInv => ConversationsCurrent
  BY DEF ContentInv, SessionsInv, CodexInv, ConversationsCurrent
<1>2. QED
  BY <1>1, ContentInvInductive, PTL DEF Spec

\* In an incremental rebuild every session that was listed and is still there,
\* but for a stranded rollout, is listed again.
LEMMA SessionsKeptByStep ==
  ASSUME ContentInv, Next, Incremental
  PROVE  (Catalogued \cap Archived) \ Stranded \subseteq Catalogued'
<1>1. RebuildIncremental
  <2>1. ASSUME NEW f, WriteClaude(f) PROVE FALSE
    BY <2>1 DEF WriteClaude, Incremental
  <2>2. ASSUME NEW f, WriteCodex(f) PROVE FALSE
    BY <2>2 DEF WriteCodex, Incremental
  <2>3. ASSUME NEW f, LoseFile(f) PROVE FALSE
    BY <2>3 DEF LoseFile, Incremental
  <2>4. ASSUME RebuildFull PROVE FALSE
    BY <2>4 DEF RebuildFull, WriteFull, Incremental
  <2>5. QED
    BY <2>1, <2>2, <2>3, <2>4 DEF Next
<1>2. TablesInv /\ ThreadsOK /\ SessionsOK /\ RowsOK
  BY DEF ContentInv, TablesInv, SessionsInv, CodexInv
<1>3. PICK refs : Rewrites(refs)
  BY <1>1, <1>2, IncrementalRebuildWrites
<1>4. ASSUME NEW f \in Archived, f \notin Stranded, NEW r \in db.rows, f \in r.files
      PROVE  \E q \in db'.rows : f \in q.files
  <2>1. CASE ClaudeRow(r)
    <3>1. f \in ClaudeFiles /\ claude[f] # Missing
      BY <1>4, <2>1, SourcesAssumption DEF ClaudeRow, Archived
    <3>2. SessionRow(r)
      BY <1>2, <2>1 DEF SessionsOK
    <3>3. QED
      BY <1>2, <1>3, <1>4, <2>1, <3>1, <3>2, SessionsStayListed
  <2>2. CASE CodexRow(r)
    <3>1. f \in CodexFiles /\ codex[f] # Absent
      BY <1>4, <2>2, SourcesAssumption DEF CodexRow, Archived
    <3>2. CASE r.ref \notin refs
      BY <1>3, <1>4, <3>2 DEF Rewrites
    <3>3. CASE r.ref \in refs
      <4>1. PICK p \in Parsed(Resolution) : f \in p.files
        BY <1>2, <1>3, <1>4, <2>2, <3>1, <3>3, RolloutsStayListed
      <4>2. PICK q \in db'.rows : RowOfContent(q, p)
        BY <1>3 DEF Rewrites
      <4>3. QED
        BY <4>1, <4>2 DEF RowOfContent
    <3>4. QED
      BY <3>2, <3>3
  <2>3. QED
    BY <1>2, <1>4, <2>1, <2>2 DEF RowsOK
<1>5. QED
  BY <1>4 DEF Catalogued

\* In every behaviour no incremental rebuild drops a session that was listed and
\* is still archived, stranded rollouts excepted: what is replaced is replaced by
\* conversations that list its files (internal/canonical/incremental.go).
THEOREM SessionsAreKept == Spec => SessionsKept
<1>1. ContentInv /\ [Next]_vars =>
        [Incremental => (Catalogued \cap Archived) \ Stranded \subseteq Catalogued']_vars
  BY SessionsKeptByStep
<1>2. QED
  BY <1>1, ContentInvInductive, PTL DEF Spec, SessionsKept
===============================================================================
