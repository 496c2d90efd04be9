----------------------- MODULE ClaudeTranscriptProofs -----------------------
(***************************************************************************)
(* Proofs about the reading of a Claude conversation.  The inductive       *)
(* invariant IInv relates, for each file, the scan to what parsing the     *)
(* file alone gives, and each goroutine of the load to what parsing the    *)
(* records it has read alone gives.                                        *)
(***************************************************************************)
EXTENDS ClaudeTranscript, FiniteSetTheorems, SequenceTheorems, TLAPS

-----------------------------------------------------------------------------
(* Natural numbers and recursive functions *)

\* The order of the natural numbers, as a relation.
NatOrder == {ss \in Nat \X Nat : ss[1] < ss[2]}

\* The least-number principle, for a set.
LEMMA LeastNatural ==
  ASSUME NEW T \in SUBSET Nat, T # {}
  PROVE  \E m \in T : \A k \in T : m <= k
<1>1. IsWellFoundedOn(NatOrder, Nat)
  BY NatLessThanWellFounded, Zenon DEF OpToRel, NatOrder
<1>2. PICK m \in T : \A k \in T : ~(<<k, m>> \in NatOrder)
  BY <1>1, WFMin
<1>3. ASSUME NEW k \in T PROVE m <= k
  <2>1. k \in Nat /\ m \in Nat
    OBVIOUS
  <2>2. k < m => <<k, m>> \in NatOrder
    BY <2>1 DEF NatOrder
  <2>3. QED
    BY <1>2, <2>1, <2>2
<1>4. QED
  BY <1>3

\* Induction up to a bound, for a set.
LEMMA UpTo ==
  ASSUME NEW m \in Nat, NEW T,
         0 \in T, \A n \in 1 .. m : n - 1 \in T => n \in T
  PROVE  0 .. m \subseteq T
<1> DEFINE bad == {n \in 0 .. m : n \notin T}
<1>1. ASSUME bad # {} PROVE FALSE
  <2>1. bad \in SUBSET Nat
    OBVIOUS
  <2>2. \E j \in bad : \A i \in bad : j <= i
    <3> HIDE DEF bad
    <3>1. QED
      BY <1>1, <2>1, LeastNatural
  <2>3. PICK j \in bad : \A i \in bad : j <= i
    BY <2>2
  <2>4. j # 0 /\ j \in 0 .. m /\ j \notin T
    BY <2>3
  <2>5. j - 1 \in 0 .. m /\ j \in 1 .. m /\ ~(j <= j - 1)
    BY <2>4
  <2>6. j - 1 \in T
    BY <2>3, <2>5
  <2>7. QED
    BY <2>4, <2>5, <2>6
<1>2. QED
  BY <1>1

\* up holds the concatenations of the first parts of ss, n of them.
Partial(ss, n, up) ==
    up = [i \in 1 .. n |-> IF i = 1 THEN ss[i] ELSE up[i - 1] \o ss[i]]

\* They exist, however many parts there are.
LEMMA PartialExists ==
  ASSUME NEW ss, NEW n \in Nat
  PROVE  \E up : Partial(ss, n, up)
<1> DEFINE good == {k \in 0 .. n : \E up : Partial(ss, k, up)}
<1>1. 0 \in good
  <2>1. Partial(ss, 0, <<>>)
    BY DEF Partial
  <2>2. QED
    BY <2>1
<1>2. ASSUME NEW k \in 1 .. n, k - 1 \in good PROVE k \in good
  <2>1. PICK up : Partial(ss, k - 1, up)
    BY <1>2
  <2>2. PICK longer : longer = [i \in 1 .. k |-> IF i = k
                                    THEN IF k = 1 THEN ss[k] ELSE up[k - 1] \o ss[k]
                                    ELSE up[i]]
    OBVIOUS
  <2>3. \A i \in 1 .. (k - 1) : up[i] = IF i = 1 THEN ss[i] ELSE up[i - 1] \o ss[i]
    BY <2>1 DEF Partial
  <2>4. \A i \in 1 .. k : longer[i] = IF i = 1 THEN ss[i] ELSE longer[i - 1] \o ss[i]
    <3> TAKE i \in 1 .. k
    <3>1. CASE i = k
      BY <2>2, <3>1
    <3>2. CASE i # k
      <4>1. i \in 1 .. (k - 1) /\ (i # 1 => i - 1 \in 1 .. (k - 1))
        BY <3>2
      <4>2. longer[i] = up[i] /\ (i # 1 => longer[i - 1] = up[i - 1])
        BY <2>2, <3>2, <4>1
      <4>3. QED
        BY <2>3, <4>1, <4>2
    <3>3. QED
      BY <3>1, <3>2
  <2>5. longer = [i \in 1 .. k |-> longer[i]]
    BY <2>2
  <2>6. Partial(ss, k, longer)
    BY <2>4, <2>5 DEF Partial
  <2>7. QED
    BY <2>6
<1>3. 0 .. n \subseteq good
  <2> HIDE DEF good
  <2>1. QED
    BY <1>1, <1>2, UpTo
<1>4. QED
  BY <1>3

\* FlattenSeq is the last of them.
LEMMA FlattenIsPartial ==
  ASSUME NEW ss, Len(ss) \in Nat \ {0}
  PROVE  \E up : Partial(ss, Len(ss), up) /\ FlattenSeq(ss) = up[Len(ss)]
<1>1. PICK n \in Nat : n = Len(ss) /\ n # 0
  OBVIOUS
<1>2. FlattenSeq(ss) = (CHOOSE up : Partial(ss, n, up))[n]
  BY <1>1 DEF FlattenSeq, Partial
<1>3. \E up : Partial(ss, n, up)
  BY PartialExists
<1>4. QED
  BY <1>1, <1>2, <1>3

\* The concatenations of the first parts depend on those parts only.
LEMMA PartialAgree ==
  ASSUME NEW ss, NEW tt, NEW up, NEW vp, NEW n \in Nat, NEW m \in Nat, n <= m,
         Partial(ss, n, up), Partial(tt, m, vp),
         \A i \in 1 .. n : ss[i] = tt[i],
         NEW k \in 1 .. n
  PROVE  up[k] = vp[k]
<1> DEFINE good == {i \in 0 .. n : i # 0 => up[i] = vp[i]}
<1>1. \A i \in 1 .. n : up[i] = IF i = 1 THEN ss[i] ELSE up[i - 1] \o ss[i]
  BY DEF Partial
<1>2. \A i \in 1 .. m : vp[i] = IF i = 1 THEN tt[i] ELSE vp[i - 1] \o tt[i]
  BY DEF Partial
<1>3. 0 \in good
  OBVIOUS
<1>4. ASSUME NEW i \in 1 .. n, i - 1 \in good PROVE i \in good
  BY <1>1, <1>2, <1>4
<1>5. 0 .. n \subseteq good
  <2> HIDE DEF good
  <2>1. QED
    BY <1>3, <1>4, UpTo
<1>6. QED
  BY <1>5

\* They are sequences.
LEMMA PartialType ==
  ASSUME NEW S, NEW n \in Nat, NEW ss, \A i \in 1 .. n : ss[i] \in Seq(S),
         NEW up, Partial(ss, n, up)
  PROVE  \A i \in 1 .. n : up[i] \in Seq(S)
<1> DEFINE good == {k \in 0 .. n : k # 0 => up[k] \in Seq(S)}
<1>1. \A i \in 1 .. n : up[i] = IF i = 1 THEN ss[i] ELSE up[i - 1] \o ss[i]
  BY DEF Partial
<1>2. 0 \in good
  OBVIOUS
<1>3. ASSUME NEW k \in 1 .. n, k - 1 \in good PROVE k \in good
  <2>1. CASE k = 1
    BY <1>1, <2>1
  <2>2. CASE k # 1
    <3>1. k - 1 \in 0 .. n /\ k - 1 # 0 /\ k \in 0 .. n
      BY <2>2
    <3>2. up[k - 1] \in Seq(S)
      BY <1>3, <3>1
    <3>3. up[k] = up[k - 1] \o ss[k] /\ ss[k] \in Seq(S)
      BY <1>1, <2>2
    <3>4. up[k] \in Seq(S)
      BY <3>2, <3>3, ConcatProperties
    <3>5. QED
      BY <3>1, <3>4
  <2>3. QED
    BY <2>1, <2>2
<1>4. 0 .. n \subseteq good
  <2> HIDE DEF good
  <2>1. QED
    BY <1>2, <1>3, UpTo
<1>5. QED
  BY <1>4

-----------------------------------------------------------------------------
(* Sums *)

\* up holds the sums of the first numbers of s, up to n of them.
Sums(s, n, up) == up = [k \in 0 .. n |-> IF k = 0 THEN 0 ELSE up[k - 1] + s[k]]

\* They exist, however many numbers there are.
LEMMA SumsExist ==
  ASSUME NEW s, NEW n \in Nat
  PROVE  \E up : Sums(s, n, up)
<1> DEFINE good == {k \in 0 .. n : \E up : Sums(s, k, up)}
<1>1. 0 \in good
  <2>1. Sums(s, 0, [i \in 0 .. 0 |-> 0])
    BY DEF Sums
  <2>2. QED
    BY <2>1
<1>2. ASSUME NEW k \in 1 .. n, k - 1 \in good PROVE k \in good
  <2>1. PICK up : Sums(s, k - 1, up)
    BY <1>2
  <2>2. PICK longer : longer = [i \in 0 .. k |-> IF i = k THEN up[k - 1] + s[k] ELSE up[i]]
    OBVIOUS
  <2>3. \A i \in 0 .. (k - 1) : up[i] = IF i = 0 THEN 0 ELSE up[i - 1] + s[i]
    BY <2>1 DEF Sums
  <2>4. \A i \in 0 .. k : longer[i] = IF i = 0 THEN 0 ELSE longer[i - 1] + s[i]
    <3> TAKE i \in 0 .. k
    <3>1. CASE i = k
      BY <2>2, <3>1
    <3>2. CASE i # k
      <4>1. i \in 0 .. (k - 1) /\ (i # 0 => i - 1 \in 0 .. (k - 1))
        BY <3>2
      <4>2. longer[i] = up[i] /\ (i # 0 => longer[i - 1] = up[i - 1])
        BY <2>2, <3>2, <4>1
      <4>3. QED
        BY <2>3, <4>1, <4>2
    <3>3. QED
      BY <3>1, <3>2
  <2>5. longer = [i \in 0 .. k |-> longer[i]]
    BY <2>2
  <2>6. Sums(s, k, longer)
    BY <2>4, <2>5 DEF Sums
  <2>7. QED
    BY <2>6
<1>3. 0 .. n \subseteq good
  <2> HIDE DEF good
  <2>1. QED
    BY <1>1, <1>2, UpTo
<1>4. QED
  BY <1>3

\* SumTo is the last of them.
LEMMA SumIsLast ==
  ASSUME NEW s, NEW n \in Nat
  PROVE  \E up : Sums(s, n, up) /\ SumTo(s, n) = up[n]
<1>1. SumTo(s, n) = (CHOOSE up : Sums(s, n, up))[n]
  BY DEF SumTo, Sums
<1>2. QED
  BY <1>1, SumsExist

\* The first sums are the same, however many are asked for.
LEMMA SumsAgree ==
  ASSUME NEW s, NEW n \in Nat, NEW m \in Nat, n <= m,
         NEW up, NEW vp, Sums(s, n, up), Sums(s, m, vp),
         NEW k \in 0 .. n
  PROVE  up[k] = vp[k]
<1> DEFINE good == {i \in 0 .. n : up[i] = vp[i]}
<1>1. \A i \in 0 .. n : up[i] = IF i = 0 THEN 0 ELSE up[i - 1] + s[i]
  BY DEF Sums
<1>2. \A i \in 0 .. m : vp[i] = IF i = 0 THEN 0 ELSE vp[i - 1] + s[i]
  BY DEF Sums
<1>3. 0 \in good
  BY <1>1, <1>2
<1>4. ASSUME NEW i \in 1 .. n, i - 1 \in good PROVE i \in good
  BY <1>1, <1>2, <1>4
<1>5. 0 .. n \subseteq good
  <2> HIDE DEF good
  <2>1. QED
    BY <1>3, <1>4, UpTo
<1>6. QED
  BY <1>5

\* The sum of no numbers.
LEMMA SumZero == ASSUME NEW s PROVE SumTo(s, 0) = 0
<1>1. PICK up : Sums(s, 0, up) /\ SumTo(s, 0) = up[0]
  BY SumIsLast
<1>2. up[0] = 0
  BY <1>1 DEF Sums
<1>3. QED
  BY <1>1, <1>2

\* A number more.
LEMMA SumStep ==
  ASSUME NEW s, NEW n \in Nat
  PROVE  SumTo(s, n + 1) = SumTo(s, n) + s[n + 1]
<1>1. PICK m \in Nat : m = n + 1 /\ n <= m
  OBVIOUS
<1>2. PICK up : Sums(s, n, up) /\ SumTo(s, n) = up[n]
  BY SumIsLast
<1>3. PICK vp : Sums(s, m, vp) /\ SumTo(s, m) = vp[m]
  BY SumIsLast
<1>4. vp[m] = vp[n] + s[m]
  <2>1. \A k \in 0 .. m : vp[k] = IF k = 0 THEN 0 ELSE vp[k - 1] + s[k]
    BY <1>3 DEF Sums
  <2>2. m \in 0 .. m /\ m # 0 /\ m - 1 = n
    BY <1>1
  <2>3. QED
    BY <2>1, <2>2
<1>5. up[n] = vp[n]
  <2>1. n \in 0 .. n
    OBVIOUS
  <2>2. QED
    BY <1>1, <1>2, <1>3, <2>1, SumsAgree
<1>6. QED
  BY <1>1, <1>2, <1>3, <1>4, <1>5

\* Sums of natural numbers are natural numbers.
LEMMA SumNat ==
  ASSUME NEW s, NEW n \in Nat, \A i \in 1 .. n : s[i] \in Nat, NEW k \in 0 .. n
  PROVE  SumTo(s, k) \in Nat
<1> DEFINE good == {i \in 0 .. n : SumTo(s, i) \in Nat}
<1>1. 0 \in good
  BY SumZero
<1>2. ASSUME NEW i \in 1 .. n, i - 1 \in good PROVE i \in good
  <2>1. PICK j \in Nat : j = i - 1 /\ i = j + 1 /\ i \in 0 .. n
    OBVIOUS
  <2>2. SumTo(s, i) = SumTo(s, j) + s[i]
    BY <2>1, SumStep
  <2>3. SumTo(s, j) \in Nat /\ s[i] \in Nat
    BY <1>2, <2>1
  <2>4. QED
    BY <2>1, <2>2, <2>3
<1>3. 0 .. n \subseteq good
  <2> HIDE DEF good
  <2>1. QED
    BY <1>1, <1>2, UpTo
<1>4. QED
  BY <1>3

\* The sum of more numbers has room for those between.
LEMMA SumGrows ==
  ASSUME NEW s, NEW n \in Nat, \A i \in 1 .. n : s[i] \in Nat,
         NEW j \in 1 .. n, NEW k \in 0 .. n, j <= k
  PROVE  SumTo(s, j - 1) + s[j] <= SumTo(s, k)
<1> DEFINE good == {i \in 0 .. n : j <= i => SumTo(s, j - 1) + s[j] <= SumTo(s, i)}
<1>1. 0 \in good
  OBVIOUS
<1>2. ASSUME NEW i \in 1 .. n, i - 1 \in good PROVE i \in good
  <2>1. PICK h \in Nat : h = i - 1 /\ i = h + 1 /\ i \in 0 .. n /\ h \in 0 .. n
    OBVIOUS
  <2>2. SumTo(s, i) = SumTo(s, h) + s[i]
    BY <2>1, SumStep
  <2>3. PICK g \in 0 .. n : g = j - 1
    OBVIOUS
  <2>4. SumTo(s, h) \in Nat /\ SumTo(s, g) \in Nat /\ s[i] \in Nat /\ s[j] \in Nat
    BY <2>1, <2>3, SumNat
  <2>5. CASE j = i
    <3>1. g = h
      BY <2>1, <2>3, <2>5
    <3>2. SumTo(s, i) = SumTo(s, g) + s[j]
      BY <2>2, <2>5, <3>1
    <3>3. QED
      BY <2>1, <2>3, <2>4, <3>2
  <2>6. CASE j < i
    <3>1. j <= h
      BY <2>1, <2>6
    <3>2. SumTo(s, g) + s[j] <= SumTo(s, h)
      BY <1>2, <2>1, <2>3, <3>1
    <3>3. QED
      BY <2>1, <2>2, <2>3, <2>4, <3>2
  <2>7. CASE i < j
    BY <2>1, <2>7
  <2>8. QED
    BY <2>5, <2>6, <2>7
<1>3. 0 .. n \subseteq good
  <2> HIDE DEF good
  <2>1. QED
    BY <1>1, <1>2, UpTo
<1>4. QED
  BY <1>3

-----------------------------------------------------------------------------
(* Parsing a file alone *)

\* up holds what the first records give, up to n of them.
Parses(records, n, up) ==
    up = [k \in 0 .. n |-> IF k = 0 THEN NothingParsed ELSE ParsedOneMore(up[k - 1], records[k])]

\* It exists, however many records there are.
LEMMA ParsesExist ==
  ASSUME NEW records, NEW n \in Nat
  PROVE  \E up : Parses(records, n, up)
<1> DEFINE good == {k \in 0 .. n : \E up : Parses(records, k, up)}
<1>1. 0 \in good
  <2>1. Parses(records, 0, [i \in 0 .. 0 |-> NothingParsed])
    BY DEF Parses
  <2>2. QED
    BY <2>1
<1>2. ASSUME NEW k \in 1 .. n, k - 1 \in good PROVE k \in good
  <2>1. PICK up : Parses(records, k - 1, up)
    BY <1>2
  <2>2. PICK longer : longer = [i \in 0 .. k |-> IF i = k THEN ParsedOneMore(up[k - 1], records[k])
                                                          ELSE up[i]]
    OBVIOUS
  <2>3. \A i \in 0 .. (k - 1) :
          up[i] = IF i = 0 THEN NothingParsed ELSE ParsedOneMore(up[i - 1], records[i])
    BY <2>1 DEF Parses
  <2>4. \A i \in 0 .. k :
          longer[i] = IF i = 0 THEN NothingParsed ELSE ParsedOneMore(longer[i - 1], records[i])
    <3> TAKE i \in 0 .. k
    <3>1. CASE i = k
      BY <2>2, <3>1
    <3>2. CASE i # k
      <4>1. i \in 0 .. (k - 1) /\ (i # 0 => i - 1 \in 0 .. (k - 1))
        BY <3>2
      <4>2. longer[i] = up[i] /\ (i # 0 => longer[i - 1] = up[i - 1])
        BY <2>2, <3>2, <4>1
      <4>3. QED
        BY <2>3, <4>1, <4>2
    <3>3. QED
      BY <3>1, <3>2
  <2>5. longer = [i \in 0 .. k |-> longer[i]]
    BY <2>2
  <2>6. Parses(records, k, longer)
    BY <2>4, <2>5 DEF Parses
  <2>7. QED
    BY <2>6
<1>3. 0 .. n \subseteq good
  <2> HIDE DEF good
  <2>1. QED
    BY <1>1, <1>2, UpTo
<1>4. QED
  BY <1>3

\* ParsedTo is the last of it.
LEMMA ParsedIsLast ==
  ASSUME NEW records, NEW n \in Nat
  PROVE  \E up : Parses(records, n, up) /\ ParsedTo(records, n) = up[n]
<1>1. ParsedTo(records, n) = (CHOOSE up : Parses(records, n, up))[n]
  BY DEF ParsedTo, Parses
<1>2. QED
  BY <1>1, ParsesExist

\* It depends on the first records only, and not on how many are looked at.
LEMMA ParsesAgree ==
  ASSUME NEW records, NEW others, NEW n \in Nat, NEW m \in Nat, n <= m,
         NEW up, NEW vp, Parses(records, n, up), Parses(others, m, vp),
         \A i \in 1 .. n : records[i] = others[i],
         NEW k \in 0 .. n
  PROVE  up[k] = vp[k]
<1> DEFINE good == {i \in 0 .. n : up[i] = vp[i]}
<1>1. \A i \in 0 .. n :
        up[i] = IF i = 0 THEN NothingParsed ELSE ParsedOneMore(up[i - 1], records[i])
  BY DEF Parses
<1>2. \A i \in 0 .. m :
        vp[i] = IF i = 0 THEN NothingParsed ELSE ParsedOneMore(vp[i - 1], others[i])
  BY DEF Parses
<1>3. 0 \in good
  BY <1>1, <1>2
<1>4. ASSUME NEW i \in 1 .. n, i - 1 \in good PROVE i \in good
  <2>1. i \in 0 .. n /\ i \in 0 .. m /\ i # 0
    OBVIOUS
  <2>2. up[i] = ParsedOneMore(up[i - 1], records[i]) /\ vp[i] = ParsedOneMore(vp[i - 1], others[i])
    BY <1>1, <1>2, <2>1
  <2>3. up[i - 1] = vp[i - 1] /\ records[i] = others[i]
    BY <1>4
  <2>4. QED
    BY <2>1, <2>2, <2>3
<1>5. 0 .. n \subseteq good
  <2> HIDE DEF good
  <2>1. QED
    BY <1>3, <1>4, UpTo
<1>6. QED
  BY <1>5

\* No record gives nothing.
LEMMA ParsedZero == ASSUME NEW records PROVE ParsedTo(records, 0) = NothingParsed
<1>1. PICK up : Parses(records, 0, up) /\ ParsedTo(records, 0) = up[0]
  BY ParsedIsLast
<1>2. up[0] = NothingParsed
  BY <1>1 DEF Parses
<1>3. QED
  BY <1>1, <1>2

\* A record more.
LEMMA ParsedStep ==
  ASSUME NEW records, NEW n \in Nat
  PROVE  ParsedTo(records, n + 1) = ParsedOneMore(ParsedTo(records, n), records[n + 1])
<1>1. PICK m \in Nat : m = n + 1 /\ n <= m
  OBVIOUS
<1>2. PICK up : Parses(records, n, up) /\ ParsedTo(records, n) = up[n]
  BY ParsedIsLast
<1>3. PICK vp : Parses(records, m, vp) /\ ParsedTo(records, m) = vp[m]
  BY ParsedIsLast
<1>4. vp[m] = ParsedOneMore(vp[n], records[m])
  <2>1. \A k \in 0 .. m :
          vp[k] = IF k = 0 THEN NothingParsed ELSE ParsedOneMore(vp[k - 1], records[k])
    BY <1>3 DEF Parses
  <2>2. m \in 0 .. m /\ m # 0 /\ m - 1 = n
    BY <1>1
  <2>3. QED
    BY <2>1, <2>2
<1>5. up[n] = vp[n]
  <2>1. n \in 0 .. n /\ n <= m /\ \A i \in 1 .. n : records[i] = records[i]
    BY <1>1
  <2>2. Parses(records, n, up) /\ Parses(records, m, vp)
    BY <1>2, <1>3
  <2>3. QED
    BY <2>1, <2>2, ParsesAgree, SMTT(30)
<1>6. QED
  BY <1>1, <1>2, <1>3, <1>4, <1>5

\* Records that come later change nothing.
LEMMA ParsedSame ==
  ASSUME NEW records, NEW others, NEW n \in Nat, \A i \in 1 .. n : records[i] = others[i]
  PROVE  ParsedTo(records, n) = ParsedTo(others, n)
<1>1. PICK up : Parses(records, n, up) /\ ParsedTo(records, n) = up[n]
  BY ParsedIsLast
<1>2. PICK vp : Parses(others, n, vp) /\ ParsedTo(others, n) = vp[n]
  BY ParsedIsLast
<1>3. n \in 0 .. n /\ n <= n
  OBVIOUS
<1>4. QED
  BY <1>1, <1>2, <1>3, ParsesAgree

-----------------------------------------------------------------------------
(* What the values of the state are *)

Message ==
    [role : {"", "user", "system", "assistant"}, text : {None, Prompt, System},
     sidechain : BOOLEAN, call : Calls \cup {None}, usage : Nat, paid : BOOLEAN,
     result : Calls \cup {None}, linked : BOOLEAN, bad : BOOLEAN, plan : Plans \cup {None}]

ParseState ==
    [next : Nat, calls : SUBSET (Calls \ {None}), lastID : [BOOLEAN -> Nat], len : Nat,
     detached : BOOLEAN, own : Seq(Message), status : {"running", "ok", "failed"}]

ScanState ==
    [count : Nat, main : Nat, found : BOOLEAN, slugged : BOOLEAN, content : BOOLEAN,
     usage : Nat, lastID : [BOOLEAN -> Nat], calls : SUBSET (Calls \ {None}), errors : Nat, rejects : Nat]

\* What is read of the records is a sequence of at most one message.
IsOneOrNone(messages) ==
    \/ messages = <<>>
    \/ \E msg \in Message : messages = <<msg>>

\* A new message, with a name for its flags.
LEMMA PlainMessage ==
  ASSUME NEW role, NEW r, NEW no, no = FALSE
  PROVE  NewMessage(role, r) =
            [role |-> role, text |-> None, sidechain |-> r.sidechain, call |-> None, usage |-> NoID,
             paid |-> no, result |-> None, linked |-> no, bad |-> no, plan |-> None]
  BY DEF NewMessage

\* The fields that the message of a user sets,
LEMMA UserFields ==
  ASSUME NEW role, NEW text, NEW sidechain, NEW no, NEW result, NEW linked, NEW bad, NEW plan,
         NEW none, NEW noid, NEW plain, NEW msg,
         plain = [role |-> role, text |-> none, sidechain |-> sidechain, call |-> none,
                  usage |-> noid, paid |-> no, result |-> none, linked |-> no, bad |-> no,
                  plan |-> none],
         msg = [plain EXCEPT !.text = text, !.result = result, !.linked = linked, !.bad = bad,
                             !.plan = plan]
  PROVE  msg = [role |-> role, text |-> text, sidechain |-> sidechain, call |-> none,
                usage |-> noid, paid |-> no, result |-> result, linked |-> linked, bad |-> bad,
                plan |-> plan]
<1>1. PICK half : half = [plain EXCEPT !.text = text, !.result = result]
  OBVIOUS
<1>2. half = [role |-> role, text |-> text, sidechain |-> sidechain, call |-> none,
              usage |-> noid, paid |-> no, result |-> result, linked |-> no, bad |-> no,
              plan |-> none]
  BY <1>1
<1>3. msg = [half EXCEPT !.linked = linked, !.bad = bad, !.plan = plan]
  BY <1>1
<1>4. QED
  BY <1>2, <1>3

\* and those of the assistant.
LEMMA AssistantFields ==
  ASSUME NEW sidechain, NEW no, NEW call, NEW usage, NEW paid, NEW none, NEW noid,
         NEW plain, NEW msg,
         plain = [role |-> "assistant", text |-> none, sidechain |-> sidechain, call |-> none,
                  usage |-> noid, paid |-> no, result |-> none, linked |-> no, bad |-> no,
                  plan |-> none],
         msg = [plain EXCEPT !.call = call, !.usage = usage, !.paid = paid]
  PROVE  msg = [role |-> "assistant", text |-> none, sidechain |-> sidechain, call |-> call,
                usage |-> usage, paid |-> paid, result |-> none, linked |-> no, bad |-> no,
                plan |-> none]
<1>1. PICK half : half = [plain EXCEPT !.call = call, !.usage = usage]
  OBVIOUS
<1>2. half = [role |-> "assistant", text |-> none, sidechain |-> sidechain, call |-> call,
              usage |-> usage, paid |-> no, result |-> none, linked |-> no, bad |-> no,
              plan |-> none]
  BY <1>1
<1>3. msg = [half EXCEPT !.paid = paid]
  BY <1>1
<1>4. QED
  BY <1>2, <1>3

\* The message of a user.
UserTold(p, r) ==
    \E msg \in Message :
        /\ UserMessages(p, r) = <<msg>>
        /\ msg.text = r.text /\ msg.paid = FALSE
        /\ msg.linked = (~r.blank /\ r.result \in p.calls)
        /\ msg.bad = (~r.blank /\ r.result # None /\ r.outcome # "ok")

LEMMA UserMessageIs ==
  ASSUME NEW p, NEW r \in UserRecords, r.text = None => ~(r.result = None \/ r.blank)
  PROVE  UserTold(p, r)
<1>1. r.text \in {None, Prompt, System} /\ r.sidechain \in BOOLEAN /\ r.blank \in BOOLEAN
      /\ r.result \in Calls \cup {None} /\ r.plan \in Plans \cup {None}
  BY DEF UserRecords
<1>2. PICK no \in BOOLEAN : no = FALSE
  OBVIOUS
<1>3. PICK linked \in BOOLEAN : linked = (~r.blank /\ r.result \in p.calls)
  OBVIOUS
<1>4. PICK bad \in BOOLEAN : bad = (~r.blank /\ r.result # None /\ r.outcome # "ok")
  OBVIOUS
<1>5. PICK result \in Calls \cup {None} : result = IF r.blank THEN None ELSE r.result
  BY <1>1
<1>6. PICK role \in {"user", "system"} : role = IF r.text = System THEN "system" ELSE "user"
  OBVIOUS
<1>7. PICK plain : plain = NewMessage(role, r)
  OBVIOUS
<1>8. PICK msg : msg = [plain EXCEPT !.text = r.text, !.result = result, !.linked = linked,
                                     !.bad = bad, !.plan = r.plan]
  OBVIOUS
<1>9. UserMessages(p, r) = <<msg>>
  <2>1. ~(r.text = None /\ (r.result = None \/ r.blank))
    OBVIOUS
  <2>2. UserMessages(p, r) =
          <<[NewMessage(role, r) EXCEPT !.text = r.text, !.result = result, !.linked = linked,
                                        !.bad = bad, !.plan = r.plan]>>
    BY <1>3, <1>4, <1>5, <1>6, <2>1, Zenon DEF UserMessages
  <2>3. QED
    BY <1>7, <1>8, <2>2, Zenon
<1>10. plain = [role |-> role, text |-> None, sidechain |-> r.sidechain, call |-> None,
                usage |-> NoID, paid |-> no, result |-> None, linked |-> no, bad |-> no,
                plan |-> None]
  BY <1>2, <1>7, PlainMessage
<1>11. msg = [role |-> role, text |-> r.text, sidechain |-> r.sidechain, call |-> None,
              usage |-> NoID, paid |-> no, result |-> result, linked |-> linked, bad |-> bad,
              plan |-> r.plan]
  BY <1>8, <1>10, UserFields, Zenon
<1>12. msg \in Message
  BY <1>1, <1>11 DEF Message, NoID
<1>13. msg.text = r.text /\ msg.paid = no /\ msg.linked = linked /\ msg.bad = bad
  BY <1>11
<1>14. QED
  BY <1>2, <1>3, <1>4, <1>9, <1>12, <1>13, Zenon DEF UserTold

\* The message of the assistant.
AssistantTold(p, r) ==
    \E msg \in Message :
        /\ AssistantMessages(p, r) = <<msg>>
        /\ msg.paid = (r.usage /\ IsNew(p.lastID, r)) /\ msg.linked = FALSE

LEMMA AssistantMessageIs ==
  ASSUME NEW p, NEW r \in AssistantRecords, Shows(r)
  PROVE  AssistantTold(p, r)
<1>1. r.sidechain \in BOOLEAN /\ r.call \in Calls \cup {None} /\ r.id \in Nat
  BY DEF AssistantRecords
<1>2. PICK no \in BOOLEAN : no = FALSE
  OBVIOUS
<1>3. PICK paid \in BOOLEAN : paid = (r.usage /\ IsNew(p.lastID, r))
  OBVIOUS
<1>4. PICK plain : plain = NewMessage("assistant", r)
  OBVIOUS
<1>5. PICK msg : msg = [plain EXCEPT !.call = r.call, !.usage = r.id, !.paid = paid]
  OBVIOUS
<1>6. AssistantMessages(p, r) = <<msg>>
  <2>1. AssistantMessages(p, r) =
          <<[NewMessage("assistant", r) EXCEPT !.call = r.call, !.usage = r.id, !.paid = paid]>>
    BY <1>3, Zenon DEF AssistantMessages
  <2>2. QED
    BY <1>4, <1>5, <2>1, Zenon
<1>7. plain = [role |-> "assistant", text |-> None, sidechain |-> r.sidechain, call |-> None,
               usage |-> NoID, paid |-> no, result |-> None, linked |-> no, bad |-> no, plan |-> None]
  BY <1>2, <1>4, PlainMessage
<1>8. msg = [role |-> "assistant", text |-> None, sidechain |-> r.sidechain, call |-> r.call,
             usage |-> r.id, paid |-> paid, result |-> None, linked |-> no, bad |-> no,
             plan |-> None]
  BY <1>5, <1>7, AssistantFields, Zenon
<1>9. msg \in Message
  BY <1>1, <1>8 DEF Message
<1>10. msg.paid = paid /\ msg.linked = no
  BY <1>8
<1>11. QED
  BY <1>2, <1>3, <1>6, <1>9, <1>10, Zenon DEF AssistantTold

\* Every record gives at most one message.
LEMMA MessagesType ==
  ASSUME NEW p, NEW r \in AllRecords
  PROVE  IsOneOrNone(MessagesOf(p, r))
<1>1. CASE r \in UserRecords
  <2>1. MessagesOf(p, r) = UserMessages(p, r)
    BY <1>1 DEF MessagesOf, UserRecords
  <2>2. CASE r.text = None /\ (r.result = None \/ r.blank)
    BY <2>1, <2>2 DEF UserMessages, IsOneOrNone
  <2>3. CASE r.text = None => ~(r.result = None \/ r.blank)
    BY <1>1, <2>1, <2>3, UserMessageIs, ZenonT(60) DEF UserTold, IsOneOrNone
  <2>4. QED
    BY <2>2, <2>3
<1>2. CASE r \in AssistantRecords
  <2>1. MessagesOf(p, r) = AssistantMessages(p, r)
    BY <1>2 DEF MessagesOf, AssistantRecords
  <2>2. CASE ~Shows(r)
    BY <2>1, <2>2 DEF AssistantMessages, IsOneOrNone
  <2>3. CASE Shows(r)
    BY <1>2, <2>1, <2>3, AssistantMessageIs DEF AssistantTold, IsOneOrNone
  <2>4. QED
    BY <2>2, <2>3
<1>3. CASE r \in TornRecords
  <2>1. MessagesOf(p, r) = <<>>
    BY <1>3 DEF MessagesOf, TornRecords
  <2>2. QED
    BY <2>1 DEF IsOneOrNone
<1>4. QED
  BY <1>1, <1>2, <1>3 DEF AllRecords
Parsed == [parse : ParseState, messages : Seq(Message)]

\* The calls and the tracker after a record.
IndexedCalls(calls, r) ==
    IF r.kind # "assistant" \/ ~Shows(r) THEN calls ELSE calls \cup ({r.call} \ {None})

IndexedID(lastID, r) ==
    IF r.kind = "assistant" /\ Shows(r) /\ r.usage /\ IsNew(lastID, r)
        THEN Track(lastID, r) ELSE lastID

\* The tracker stays one response per thread.
LEMMA TrackType ==
  ASSUME NEW tracker \in [BOOLEAN -> Nat], NEW r \in AssistantRecords
  PROVE  Track(tracker, r) \in [BOOLEAN -> Nat]
<1>1. r.sidechain \in BOOLEAN /\ r.id \in Nat
  BY DEF AssistantRecords
<1>2. QED
  BY <1>1 DEF Track

\* So they stay in their types.
LEMMA IndexedType ==
  ASSUME NEW p \in ParseState, NEW r \in AllRecords
  PROVE  /\ IndexedCalls(p.calls, r) \in SUBSET (Calls \ {None})
         /\ IndexedID(p.lastID, r) \in [BOOLEAN -> Nat]
<1>1. p.calls \in SUBSET (Calls \ {None}) /\ p.lastID \in [BOOLEAN -> Nat]
  BY DEF ParseState
<1>2. CASE r.kind # "assistant"
  BY <1>1, <1>2 DEF IndexedCalls, IndexedID
<1>3. CASE r.kind = "assistant"
  <2>1. r \in AssistantRecords
    BY <1>3 DEF AllRecords, UserRecords, TornRecords
  <2>2. r.call \in Calls \cup {None}
    BY <2>1 DEF AssistantRecords
  <2>3. Track(p.lastID, r) \in [BOOLEAN -> Nat]
    BY <1>1, <2>1, TrackType
  <2>4. QED
    BY <1>1, <2>2, <2>3 DEF IndexedCalls, IndexedID
<1>4. QED
  BY <1>2, <1>3

\* Of a parse they alone depend on the record,
LEMMA IndexedIs ==
  ASSUME NEW p \in ParseState, NEW r
  PROVE  Indexed(p, r) = [p EXCEPT !.calls = IndexedCalls(p.calls, r),
                                   !.lastID = IndexedID(p.lastID, r)]
<1>1. CASE r.kind # "assistant" \/ ~Shows(r)
  <2>1. IndexedCalls(p.calls, r) = p.calls /\ IndexedID(p.lastID, r) = p.lastID
    BY <1>1 DEF IndexedCalls, IndexedID
  <2>2. [p EXCEPT !.calls = p.calls, !.lastID = p.lastID] = p
    BY DEF ParseState
  <2>3. QED
    BY <1>1, <2>1, <2>2 DEF Indexed
<1>2. CASE ~(r.kind # "assistant" \/ ~Shows(r))
  <2>1. PICK calls : calls = p.calls \cup ({r.call} \ {None})
    OBVIOUS
  <2>2. PICK lastID : lastID = IF r.usage /\ IsNew(p.lastID, r) THEN Track(p.lastID, r) ELSE p.lastID
    OBVIOUS
  <2>3. IndexedCalls(p.calls, r) = calls /\ IndexedID(p.lastID, r) = lastID
    BY <1>2, <2>1, <2>2 DEF IndexedCalls, IndexedID
  <2>4. Indexed(p, r) = [p EXCEPT !.calls = calls, !.lastID = lastID]
    BY <1>2, <2>1, <2>2 DEF Indexed
  <2>5. QED
    BY <2>3, <2>4
<1>3. QED
  BY <1>1, <1>2

\* and on them alone depends the message.
LEMMA MessagesSame ==
  ASSUME NEW p, NEW q, p.calls = q.calls, p.lastID = q.lastID, NEW r
  PROVE  MessagesOf(p, r) = MessagesOf(q, r)
<1>1. UserMessages(p, r) = UserMessages(q, r)
  BY Zenon DEF UserMessages
<1>2. AssistantMessages(p, r) = AssistantMessages(q, r)
  BY Zenon DEF AssistantMessages
<1>3. QED
  BY <1>1, <1>2, Zenon DEF MessagesOf

\* A record more gives a parse again, with at most one message more.
LEMMA OneMoreType ==
  ASSUME NEW q \in Parsed, NEW r \in AllRecords, NEW more, more = ParsedOneMore(q, r)
  PROVE  /\ more \in Parsed
         /\ more.parse.calls = IndexedCalls(q.parse.calls, r)
         /\ more.parse.lastID = IndexedID(q.parse.lastID, r)
         /\ more.messages = q.messages \o MessagesOf(q.parse, r)
<1>1. q.parse \in ParseState /\ q.messages \in Seq(Message)
  BY DEF Parsed
<1>2. PICK calls \in SUBSET (Calls \ {None}) : calls = IndexedCalls(q.parse.calls, r)
  BY <1>1, IndexedType
<1>3. PICK lastID \in [BOOLEAN -> Nat] : lastID = IndexedID(q.parse.lastID, r)
  BY <1>1, IndexedType
<1>4. PICK p : p = [q.parse EXCEPT !.calls = calls, !.lastID = lastID]
  OBVIOUS
<1>5. Indexed(q.parse, r) = p
  BY <1>1, <1>2, <1>3, <1>4, IndexedIs
<1>6. p \in ParseState /\ p.calls = calls /\ p.lastID = lastID
  BY <1>1, <1>4 DEF ParseState
<1>7. q.messages \o MessagesOf(q.parse, r) \in Seq(Message)
  <2>1. CASE MessagesOf(q.parse, r) = <<>>
    BY <1>1, <2>1, EmptySeq, ConcatProperties
  <2>2. ASSUME NEW msg \in Message, MessagesOf(q.parse, r) = <<msg>>
        PROVE  q.messages \o MessagesOf(q.parse, r) \in Seq(Message)
    <3>1. <<msg>> \in Seq(Message)
      OBVIOUS
    <3>2. QED
      BY <1>1, <2>2, <3>1, ConcatProperties
  <2>3. QED
    BY <2>1, <2>2, MessagesType DEF IsOneOrNone
<1>8. more = [parse |-> p, messages |-> q.messages \o MessagesOf(q.parse, r)]
  BY <1>5 DEF ParsedOneMore
<1>9. QED
  BY <1>2, <1>3, <1>6, <1>7, <1>8 DEF Parsed

\* Nothing is read at first.
LEMMA NothingParsedType ==
  /\ NewParse \in ParseState /\ NewTracker \in [BOOLEAN -> Nat]
  /\ NothingParsed \in Parsed
  /\ NothingParsed.parse = NewParse /\ NothingParsed.messages = <<>>
<1>1. NewTracker \in [BOOLEAN -> Nat]
  BY DEF NewTracker, NoID
<1>2. PICK no \in BOOLEAN : no = FALSE
  OBVIOUS
<1>3. NewParse = [next |-> 1, calls |-> {}, lastID |-> NewTracker, len |-> 0, detached |-> no,
                  own |-> <<>>, status |-> "running"]
  BY <1>2 DEF NewParse
<1>4. <<>> \in Seq(Message)
  BY EmptySeq
<1>5. NewParse \in ParseState
  BY <1>1, <1>3, <1>4 DEF ParseState
<1>6. QED
  BY <1>1, <1>4, <1>5 DEF NothingParsed, Parsed

\* What is read of records is a parse, with no more messages than records.
LEMMA ParsedType ==
  ASSUME NEW records \in Seq(AllRecords), NEW n \in 0 .. Len(records)
  PROVE  ParsedTo(records, n) \in Parsed /\ Len(ParsedTo(records, n).messages) <= n
<1> DEFINE good == {k \in 0 .. n : /\ ParsedTo(records, k) \in Parsed
                                   /\ Len(ParsedTo(records, k).messages) <= k}
<1>1. 0 \in good
  BY ParsedZero, NothingParsedType, EmptySeq
<1>2. ASSUME NEW k \in 1 .. n, k - 1 \in good PROVE k \in good
  <2>1. PICK j \in Nat : j = k - 1 /\ k = j + 1 /\ k \in 1 .. Len(records) /\ k \in 0 .. n
    BY LenProperties
  <2>2. PICK q : q = ParsedTo(records, j)
    OBVIOUS
  <2>3. q \in Parsed /\ Len(q.messages) <= j /\ q.messages \in Seq(Message)
    BY <1>2, <2>1, <2>2 DEF Parsed
  <2>4. PICK r \in AllRecords : r = records[k]
    BY <2>1, ElementOfSeq
  <2>5. PICK more : more = ParsedOneMore(q, r) /\ more = ParsedTo(records, k)
    BY <2>1, <2>2, <2>4, ParsedStep
  <2>6. more \in Parsed /\ more.messages = q.messages \o MessagesOf(q.parse, r)
    BY <2>3, <2>5, OneMoreType
  <2>7. Len(more.messages) <= Len(q.messages) + 1
    <3>1. CASE MessagesOf(q.parse, r) = <<>>
      BY <2>3, <2>6, <3>1, ConcatEmptySeq, LenProperties
    <3>2. ASSUME NEW msg \in Message, MessagesOf(q.parse, r) = <<msg>>
          PROVE  Len(more.messages) <= Len(q.messages) + 1
      BY <2>3, <2>6, <3>2, ConcatProperties, LenProperties
    <3>3. QED
      BY <3>1, <3>2, MessagesType DEF IsOneOrNone
  <2>8. Len(more.messages) <= k
    BY <2>1, <2>3, <2>6, <2>7, LenProperties DEF Parsed
  <2>9. QED
    BY <2>1, <2>5, <2>6, <2>8
<1>3. 0 .. n \subseteq good
  <2> HIDE DEF good
  <2>1. n \in Nat
    BY LenProperties
  <2>2. QED
    BY <1>1, <1>2, <2>1, UpTo
<1>4. n \in 0 .. n
  BY LenProperties
<1>5. QED
  BY <1>3, <1>4
-----------------------------------------------------------------------------
(* Responses *)

IsAssistant(records, i) == i \in 1 .. Len(records) /\ records[i].kind = "assistant"

(* The ID of a response is at most the place of its records, and they are   *)
(* all in one thread.                                                       *)
IDsFit(records) ==
    /\ \A i \in 1 .. Len(records) : IsAssistant(records, i) => records[i].id <= i
    /\ \A i, j \in 1 .. Len(records) :
        IsAssistant(records, i) /\ IsAssistant(records, j)
        /\ records[i].id = records[j].id /\ records[i].id # NoID
            => records[i].sidechain = records[j].sidechain

\* r may be written after the records.
MayFollow(records, r) ==
    /\ r \in AllRecords
    /\ r.kind = "assistant" =>
        r.id \in {NoID, Len(records) + 1} \cup LastIDs(records, r.sidechain)

\* more is the records and r after them.
IsLonger(records, r, more) ==
    /\ more \in Seq(AllRecords)
    /\ Len(more) = Len(records) + 1
    /\ more[Len(records) + 1] = r
    /\ \A i \in 1 .. Len(records) : more[i] = records[i]

\* A record is written.
LEMMA Longer ==
  ASSUME NEW records \in Seq(AllRecords), NEW r \in AllRecords,
         NEW more, more = Append(records, r)
  PROVE  IsLonger(records, r, more)
  BY AppendProperties DEF IsLonger

\* The last response of a thread is that of one of its records.
LEMMA LastIsWritten ==
  ASSUME NEW records \in Seq(AllRecords), NEW sidechain, NEW id \in LastIDs(records, sidechain)
  PROVE  /\ id # NoID
         /\ \E i \in Assistant(records, sidechain) :
                records[i].id = id /\ \A k \in Assistant(records, sidechain) : k <= i
  BY DEF LastIDs

\* An assistant record is one.
LEMMA AssistantType ==
  ASSUME NEW records \in Seq(AllRecords), NEW i, IsAssistant(records, i)
  PROVE  records[i] \in AssistantRecords /\ records[i].id \in Nat /\ records[i].sidechain \in BOOLEAN
<1>1. records[i] \in AllRecords
  BY ElementOfSeq DEF IsAssistant
<1>2. records[i] \in AssistantRecords
  BY <1>1 DEF IsAssistant, AllRecords, UserRecords, TornRecords
<1>3. QED
  BY <1>2 DEF AssistantRecords

\* The IDs fit after every record that may follow.
LEMMA IDsStay ==
  ASSUME NEW records \in Seq(AllRecords), IDsFit(records),
         NEW r, MayFollow(records, r), NEW more, IsLonger(records, r, more)
  PROVE  IDsFit(more)
<1>1. PICK n \in Nat : n = Len(records)
  BY LenProperties
<1>2. Len(more) = n + 1 /\ more[n + 1] = r /\ \A i \in 1 .. n : more[i] = records[i]
  BY <1>1 DEF IsLonger
<1>3. \A i \in 1 .. n : IsAssistant(more, i) <=> IsAssistant(records, i)
  BY <1>1, <1>2 DEF IsAssistant
<1>4. \A i \in 1 .. n : IsAssistant(records, i) => records[i].id \in Nat /\ records[i].id <= i
  BY <1>1, AssistantType DEF IDsFit
<1>5. ASSUME r.kind = "assistant", NEW j \in 1 .. n, IsAssistant(records, j),
             records[j].id = r.id, r.id # NoID
      PROVE  records[j].sidechain = r.sidechain
  <2>1. r.id # n + 1
    BY <1>4, <1>5
  <2>2. r.id \in LastIDs(records, r.sidechain)
    BY <1>1, <1>5, <2>1 DEF MayFollow
  <2>3. PICK i \in Assistant(records, r.sidechain) : records[i].id = r.id
    BY <2>2, LastIsWritten
  <2>4. i \in 1 .. n /\ IsAssistant(records, i) /\ records[i].sidechain = r.sidechain
    BY <1>1, <2>3 DEF Assistant, IsAssistant
  <2>5. QED
    BY <1>1, <1>5, <2>3, <2>4 DEF IDsFit
<1>6. ASSUME r.kind = "assistant" PROVE r.id <= n + 1
  <2>1. CASE r.id = NoID
    BY <2>1 DEF NoID
  <2>2. CASE r.id = n + 1
    BY <2>2
  <2>3. CASE r.id \in LastIDs(records, r.sidechain)
    <3>1. PICK i \in Assistant(records, r.sidechain) : records[i].id = r.id
      BY <2>3, LastIsWritten
    <3>2. i \in 1 .. n /\ IsAssistant(records, i)
      BY <1>1, <3>1 DEF Assistant, IsAssistant
    <3>3. QED
      BY <1>4, <3>1, <3>2
  <2>4. QED
    BY <1>1, <1>6, <2>1, <2>2, <2>3 DEF MayFollow
<1>7. ASSUME NEW i \in 1 .. n + 1, IsAssistant(more, i) PROVE more[i].id <= i
  <2>1. CASE i = n + 1
    BY <1>2, <1>6, <1>7, <2>1 DEF IsAssistant
  <2>2. CASE i # n + 1
    <3>1. i \in 1 .. n
      BY <2>2
    <3>2. QED
      BY <1>2, <1>3, <1>4, <1>7, <3>1
  <2>3. QED
    BY <2>1, <2>2
<1>8. ASSUME NEW i \in 1 .. n + 1, NEW j \in 1 .. n + 1, IsAssistant(more, i), IsAssistant(more, j),
             more[i].id = more[j].id, more[i].id # NoID
      PROVE  more[i].sidechain = more[j].sidechain
  <2>1. CASE i = n + 1 /\ j = n + 1
    BY <2>1
  <2>2. CASE i = n + 1 /\ j # n + 1
    <3>1. j \in 1 .. n /\ r.kind = "assistant"
      BY <1>2, <1>8, <2>2 DEF IsAssistant
    <3>2. QED
      BY <1>2, <1>3, <1>5, <1>8, <2>2, <3>1
  <2>3. CASE i # n + 1 /\ j = n + 1
    <3>1. i \in 1 .. n /\ r.kind = "assistant"
      BY <1>2, <1>8, <2>3 DEF IsAssistant
    <3>2. QED
      BY <1>2, <1>3, <1>5, <1>8, <2>3, <3>1
  <2>4. CASE i # n + 1 /\ j # n + 1
    <3>1. i \in 1 .. n /\ j \in 1 .. n
      BY <2>4
    <3>2. QED
      BY <1>1, <1>2, <1>3, <1>8, <3>1 DEF IDsFit
  <2>5. QED
    BY <2>1, <2>2, <2>3, <2>4
<1>9. QED
  BY <1>2, <1>7, <1>8 DEF IDsFit

(* The tracker knows of each thread a response that was counted, and the    *)
(* response that the thread may go on with if that was counted.             *)
Tracks(records, places, tracker) ==
    /\ tracker \in [BOOLEAN -> Nat]
    /\ \A t \in BOOLEAN :
        tracker[t] # NoID => \E i \in places : records[i].id = tracker[t]
    /\ \A t \in BOOLEAN : \A id \in LastIDs(records, t) :
        (\E i \in places : records[i].id = id) => tracker[t] = id

(* count is the number of responses that have a record at the places.       *)
PaidFor(records, places, tracker, count) ==
    /\ \A i \in places : IsAssistant(records, i)
    /\ Tracks(records, places, tracker)
    /\ IsFiniteSet(Responses(records, places))
    /\ count = Cardinality(Responses(records, places))

\* The threads that a record does not belong to stay as they were.
LEMMA LastStays ==
  ASSUME NEW records \in Seq(AllRecords), NEW r, NEW more, IsLonger(records, r, more),
         NEW t, ~(r.kind = "assistant" /\ r.sidechain = t)
  PROVE  LastIDs(more, t) = LastIDs(records, t)
<1>1. PICK n \in Nat : n = Len(records)
  BY LenProperties
<1>2. Len(more) = n + 1 /\ more[n + 1] = r /\ \A i \in 1 .. n : more[i] = records[i]
  BY <1>1 DEF IsLonger
<1>3. Assistant(more, t) = Assistant(records, t)
  <2>1. ASSUME NEW i \in 1 .. n + 1
        PROVE  (more[i].kind = "assistant" /\ more[i].sidechain = t)
               <=> (i \in 1 .. n /\ records[i].kind = "assistant" /\ records[i].sidechain = t)
    <3>1. CASE i = n + 1
      BY <1>2, <3>1
    <3>2. CASE i # n + 1
      BY <1>2, <3>2
    <3>3. QED
      BY <3>1, <3>2
  <2>2. QED
    BY <1>1, <1>2, <2>1 DEF Assistant
<1>4. \A i \in Assistant(records, t) : more[i].id = records[i].id
  BY <1>1, <1>2 DEF Assistant
<1>5. QED
  BY <1>3, <1>4 DEF LastIDs

\* The thread of a record goes on with its response.
LEMMA LastIsNew ==
  ASSUME NEW records \in Seq(AllRecords), NEW r, NEW more, IsLonger(records, r, more),
         r.kind = "assistant"
  PROVE  LastIDs(more, r.sidechain) = {r.id} \ {NoID}
<1>1. PICK n \in Nat : n = Len(records)
  BY LenProperties
<1>2. Len(more) = n + 1 /\ more[n + 1] = r
  BY <1>1 DEF IsLonger
<1>3. PICK thread : thread = Assistant(more, r.sidechain)
  OBVIOUS
<1>4. n + 1 \in thread /\ \A i \in thread : i \in 1 .. n + 1
  BY <1>2, <1>3 DEF Assistant
<1>5. {j \in thread : \A k \in thread : k <= j} = {n + 1}
  BY <1>4
<1>6. LastIDs(more, r.sidechain) = {more[i].id : i \in {j \in thread : \A k \in thread : k <= j}} \ {NoID}
  BY <1>3 DEF LastIDs
<1>7. QED
  BY <1>2, <1>5, <1>6
\* A record more, at a place that does not count.
LEMMA PaidForStays ==
  ASSUME NEW records \in Seq(AllRecords), IDsFit(records),
         NEW r, MayFollow(records, r), NEW more, IsLonger(records, r, more),
         NEW places, NEW tracker, NEW count, PaidFor(records, places, tracker, count)
  PROVE  PaidFor(more, places, tracker, count)
<1>1. PICK n \in Nat : n = Len(records)
  BY LenProperties
<1>2. Len(more) = n + 1 /\ more[n + 1] = r /\ \A i \in 1 .. n : more[i] = records[i]
  BY <1>1 DEF IsLonger
<1>3. \A i \in places : i \in 1 .. n /\ more[i] = records[i] /\ records[i].kind = "assistant"
  BY <1>1, <1>2 DEF PaidFor, IsAssistant
<1>4. Tracks(records, places, tracker)
  BY DEF PaidFor
<1>5. \A i \in places : IsAssistant(more, i)
  BY <1>2, <1>3 DEF IsAssistant
<1>6. Responses(more, places) = Responses(records, places)
  BY <1>3 DEF Responses
<1>7. ASSUME NEW t \in BOOLEAN, NEW id \in LastIDs(more, t), NEW i \in places, more[i].id = id
      PROVE  tracker[t] = id
  <2>1. CASE r.kind = "assistant" /\ r.sidechain = t
    <3>1. id = r.id /\ id # NoID
      <4>1. LastIDs(more, r.sidechain) = {r.id} \ {NoID}
        BY <2>1, LastIsNew
      <4>2. QED
        BY <1>7, <2>1, <4>1
    <3>2. records[i].id = id /\ i \in 1 .. n /\ IsAssistant(records, i)
      BY <1>1, <1>3, <1>7 DEF PaidFor
    <3>3. id # n + 1
      <4>1. records[i].id <= i
        BY <1>1, <3>2 DEF IDsFit
      <4>2. QED
        BY <3>2, <4>1
    <3>4. id \in LastIDs(records, t)
      BY <1>1, <2>1, <3>1, <3>3 DEF MayFollow
    <3>5. QED
      BY <1>4, <3>2, <3>4 DEF Tracks
  <2>2. CASE ~(r.kind = "assistant" /\ r.sidechain = t)
    <3>1. id \in LastIDs(records, t)
      BY <1>7, <2>2, LastStays
    <3>2. records[i].id = id
      BY <1>3, <1>7
    <3>3. QED
      BY <1>4, <3>1, <3>2 DEF Tracks
  <2>3. QED
    BY <2>1, <2>2
<1>8. \A t \in BOOLEAN : tracker[t] # NoID => \E i \in places : more[i].id = tracker[t]
  BY <1>3, <1>4 DEF Tracks
<1>9. Tracks(more, places, tracker)
  BY <1>4, <1>7, <1>8 DEF Tracks
<1>10. QED
  BY <1>5, <1>6, <1>9 DEF PaidFor

\* A record more, at a place that counts: the tracker tells whether it is new.
LEMMA PaidForMore ==
  ASSUME NEW records \in Seq(AllRecords), IDsFit(records),
         NEW r, MayFollow(records, r), NEW more, IsLonger(records, r, more),
         r.kind = "assistant",
         NEW places, NEW tracker, NEW count, PaidFor(records, places, tracker, count),
         NEW tracker2, tracker2 = IF IsNew(tracker, r) THEN Track(tracker, r) ELSE tracker,
         NEW count2, count2 = IF IsNew(tracker, r) THEN count + 1 ELSE count
  PROVE  PaidFor(more, places \cup {Len(records) + 1}, tracker2, count2)
<1>1. PICK n \in Nat : n = Len(records)
  BY LenProperties
<1>2. Len(more) = n + 1 /\ more[n + 1] = r /\ \A i \in 1 .. n : more[i] = records[i]
  BY <1>1 DEF IsLonger
<1>3. \A i \in places : i \in 1 .. n /\ more[i] = records[i] /\ records[i].kind = "assistant"
                        /\ IsAssistant(records, i)
  BY <1>1, <1>2 DEF PaidFor, IsAssistant
<1>4. Tracks(records, places, tracker) /\ tracker \in [BOOLEAN -> Nat]
  BY DEF PaidFor, Tracks
<1>5. PICK all : all = places \cup {n + 1}
  OBVIOUS
<1>6. \A i \in all : IsAssistant(more, i)
  BY <1>2, <1>3, <1>5 DEF IsAssistant
<1>7. r \in AssistantRecords /\ r.id \in Nat /\ r.sidechain \in BOOLEAN
  BY DEF MayFollow, AllRecords, UserRecords, TornRecords, AssistantRecords
<1>8. IDsFit(more)
  BY IDsStay
<1>9. PICK old : old = Responses(records, places)
  OBVIOUS
<1>10. PICK one : one = <<r.id, IF r.id = NoID THEN n + 1 ELSE 0>>
  OBVIOUS
<1>11. Responses(more, all) = old \cup {one}
  <2>1. Responses(more, all) = Responses(more, places) \cup Responses(more, {n + 1})
    BY <1>5 DEF Responses
  <2>2. Responses(more, places) = old
    BY <1>3, <1>9 DEF Responses
  <2>3. Responses(more, {n + 1}) = {one}
    BY <1>2, <1>10 DEF Responses
  <2>4. QED
    BY <2>1, <2>2, <2>3
<1>12. \A i \in places : records[i].id \in Nat /\ records[i].id <= i /\ i <= n
  BY <1>1, <1>3, AssistantType DEF IDsFit
<1>13. IsNew(tracker, r) => one \notin old
  <2>1. ASSUME IsNew(tracker, r), one \in old PROVE FALSE
    <3>1. PICK i \in places :
            one = <<records[i].id, IF records[i].id = NoID THEN i ELSE 0>>
      BY <1>9, <2>1 DEF Responses
    <3>2. r.id = records[i].id /\ (r.id = NoID => n + 1 = i)
      BY <1>10, <3>1
    <3>3. r.id # NoID /\ r.id # n + 1
      BY <1>3, <1>12, <3>2
    <3>4. r.id \in LastIDs(records, r.sidechain)
      BY <1>1, <3>3 DEF MayFollow
    <3>5. tracker[r.sidechain] = r.id
      BY <1>4, <1>7, <3>2, <3>4 DEF Tracks
    <3>6. QED
      BY <2>1, <3>3, <3>5 DEF IsNew
  <2>2. QED
    BY <2>1
<1>14. ~IsNew(tracker, r) => r.id # NoID /\ tracker[r.sidechain] = r.id
  BY DEF IsNew
<1>15. ~IsNew(tracker, r) => one \in old
  <2>1. ASSUME ~IsNew(tracker, r) PROVE one \in old
    <3>1. PICK i \in places : records[i].id = r.id
      BY <1>4, <1>7, <1>14, <2>1 DEF Tracks
    <3>2. one = <<records[i].id, IF records[i].id = NoID THEN i ELSE 0>>
      BY <1>10, <1>14, <2>1, <3>1
    <3>3. QED
      BY <1>9, <3>2 DEF Responses
  <2>2. QED
    BY <2>1
<1>16. IsFiniteSet(old) /\ count = Cardinality(old)
  BY <1>9 DEF PaidFor
<1>17. IsFiniteSet(old \cup {one}) /\ count2 = Cardinality(old \cup {one})
  <2>1. CASE IsNew(tracker, r)
    <3>1. one \notin old /\ count2 = count + 1
      BY <1>13, <2>1
    <3>2. IsFiniteSet(old \cup {one}) /\ Cardinality(old \cup {one}) = Cardinality(old) + 1
      BY <1>16, <3>1, FS_AddElement
    <3>3. QED
      BY <1>16, <3>1, <3>2
  <2>2. CASE ~IsNew(tracker, r)
    <3>1. old \cup {one} = old /\ count2 = count
      BY <1>15, <2>2
    <3>2. QED
      BY <1>16, <3>1
  <2>3. QED
    BY <2>1, <2>2
<1>18. tracker2 \in [BOOLEAN -> Nat]
  BY <1>4, <1>7, TrackType
<1>19. r.id # NoID => tracker2[r.sidechain] = r.id
  <2>1. CASE IsNew(tracker, r)
    BY <1>4, <1>7, <2>1 DEF Track
  <2>2. CASE ~IsNew(tracker, r)
    BY <1>14, <2>2
  <2>3. QED
    BY <2>1, <2>2
<1>20. r.id = NoID => tracker2 = tracker
  BY DEF Track
<1>21. \A t \in BOOLEAN : t # r.sidechain => tracker2[t] = tracker[t]
  BY <1>4 DEF Track
<1>22. ASSUME NEW t \in BOOLEAN, tracker2[t] # NoID
       PROVE  \E i \in all : more[i].id = tracker2[t]
  <2>1. CASE tracker2[t] = tracker[t]
    BY <1>3, <1>4, <1>5, <1>22, <2>1 DEF Tracks
  <2>2. CASE tracker2[t] # tracker[t]
    <3>1. t = r.sidechain /\ r.id # NoID
      BY <1>20, <1>21, <2>2
    <3>2. QED
      BY <1>2, <1>5, <1>19, <3>1
  <2>3. QED
    BY <2>1, <2>2
<1>23. ASSUME NEW t \in BOOLEAN, NEW id \in LastIDs(more, t), NEW i \in all, more[i].id = id
       PROVE  tracker2[t] = id
  <2>1. CASE r.sidechain = t
    <3>1. id = r.id /\ id # NoID
      BY <2>1, LastIsNew
    <3>2. QED
      BY <1>19, <2>1, <3>1
  <2>2. CASE r.sidechain # t
    <3>1. id \in LastIDs(records, t)
      BY <1>23, <2>2, LastStays
    <3>2. PICK k \in Assistant(records, t) : records[k].id = id
      BY <3>1, LastIsWritten
    <3>3. k \in 1 .. n /\ IsAssistant(more, k) /\ more[k].id = id /\ more[k].sidechain = t
      BY <1>1, <1>2, <3>2 DEF Assistant, IsAssistant
    <3>4. id # NoID
      BY <3>1, LastIsWritten
    <3>5. more[i].sidechain = t
      <4>1. IsAssistant(more, i) /\ i \in 1 .. Len(more) /\ k \in 1 .. Len(more)
        BY <1>6, <3>3 DEF IsAssistant
      <4>2. QED
        BY <1>8, <1>23, <3>3, <3>4, <4>1 DEF IDsFit
    <3>6. i # n + 1
      BY <1>2, <2>2, <3>5
    <3>7. i \in places /\ records[i].id = id
      BY <1>3, <1>5, <1>23, <3>6
    <3>8. tracker[t] = id
      BY <1>4, <3>1, <3>7 DEF Tracks
    <3>9. QED
      BY <1>21, <2>2, <3>8
  <2>3. QED
    BY <2>1, <2>2
<1>24. Tracks(more, all, tracker2)
  BY <1>18, <1>22, <1>23 DEF Tracks
<1>25. QED
  BY <1>1, <1>5, <1>6, <1>11, <1>17, <1>24 DEF PaidFor
-----------------------------------------------------------------------------
(* A record in the scan and in the parse *)

\* Sets of places are finite, and so is one with a place more.
LEMMA PlacesFinite ==
  ASSUME NEW n \in Nat, NEW S \in SUBSET (1 .. n)
  PROVE  /\ IsFiniteSet(S) /\ Cardinality(S) \in Nat
         /\ Cardinality(S \cup {n + 1}) = Cardinality(S) + 1
<1>1. IsFiniteSet(1 .. n)
  BY FS_Interval
<1>2. IsFiniteSet(S)
  BY <1>1, FS_Subset
<1>3. n + 1 \notin S
  OBVIOUS
<1>4. QED
  BY <1>2, <1>3, FS_AddElement, FS_CardinalityType

\* The messages that are paid for, and those that tell of a failed call.
PaidIn(messages) == {i \in 1 .. Len(messages) : messages[i].paid}
FailedIn(messages) == {i \in 1 .. Len(messages) : messages[i].linked /\ messages[i].bad}

\* What a message more adds to them.
MessageAdded(messages, msg, more) ==
    /\ more \in Seq(Message) /\ Len(more) = Len(messages) + 1
    /\ more[Len(messages) + 1] = msg
    /\ \A i \in 1 .. Len(messages) : more[i] = messages[i]
    /\ Cardinality(PaidIn(more)) = Cardinality(PaidIn(messages)) + IF msg.paid THEN 1 ELSE 0
    /\ Cardinality(FailedIn(more)) =
            Cardinality(FailedIn(messages)) + IF msg.linked /\ msg.bad THEN 1 ELSE 0

LEMMA MessageMore ==
  ASSUME NEW messages \in Seq(Message), NEW msg \in Message, NEW more, more = messages \o <<msg>>
  PROVE  MessageAdded(messages, msg, more)
<1>1. PICK n \in Nat : n = Len(messages)
  BY LenProperties
<1>2. <<msg>> \in Seq(Message) /\ Len(<<msg>>) = 1 /\ <<msg>>[1] = msg
  OBVIOUS
<1>3. more \in Seq(Message) /\ Len(more) = n + 1 /\ more[n + 1] = msg
      /\ \A i \in 1 .. n : more[i] = messages[i]
  BY <1>1, <1>2, ConcatProperties
<1>4. PaidIn(messages) \in SUBSET (1 .. n) /\ FailedIn(messages) \in SUBSET (1 .. n)
  BY <1>1 DEF PaidIn, FailedIn
<1>5. PaidIn(more) = IF msg.paid THEN PaidIn(messages) \cup {n + 1} ELSE PaidIn(messages)
  <2>1. ASSUME NEW i \in 1 .. n + 1
        PROVE  i \in PaidIn(more) <=> (i \in PaidIn(messages) \/ (msg.paid /\ i = n + 1))
    <3>1. CASE i = n + 1
      BY <1>1, <1>3, <3>1 DEF PaidIn
    <3>2. CASE i # n + 1
      <4>1. i \in 1 .. n
        BY <3>2
      <4>2. QED
        BY <1>1, <1>3, <4>1, <3>2 DEF PaidIn
    <3>3. QED
      BY <3>1, <3>2
  <2>2. PaidIn(more) \in SUBSET (1 .. n + 1)
    BY <1>3 DEF PaidIn
  <2>3. CASE msg.paid
    <3>1. \A i : i \in PaidIn(more) <=> (i \in PaidIn(messages) \/ i = n + 1)
      BY <1>4, <2>1, <2>2, <2>3
    <3>2. QED
      BY <2>3, <3>1
  <2>4. CASE ~(msg.paid)
    <3>1. \A i : i \in PaidIn(more) <=> i \in PaidIn(messages)
      BY <1>4, <2>1, <2>2, <2>4
    <3>2. QED
      BY <2>4, <3>1
  <2>5. QED
    BY <2>3, <2>4
<1>6. FailedIn(more) = IF msg.linked /\ msg.bad THEN FailedIn(messages) \cup {n + 1}
                                                 ELSE FailedIn(messages)
  <2>1. ASSUME NEW i \in 1 .. n + 1
        PROVE  i \in FailedIn(more)
               <=> (i \in FailedIn(messages) \/ (msg.linked /\ msg.bad /\ i = n + 1))
    <3>1. CASE i = n + 1
      BY <1>1, <1>3, <3>1 DEF FailedIn
    <3>2. CASE i # n + 1
      <4>1. i \in 1 .. n
        BY <3>2
      <4>2. QED
        BY <1>1, <1>3, <4>1, <3>2 DEF FailedIn
    <3>3. QED
      BY <3>1, <3>2
  <2>2. FailedIn(more) \in SUBSET (1 .. n + 1)
    BY <1>3 DEF FailedIn
  <2>3. CASE msg.linked /\ msg.bad
    <3>1. \A i : i \in FailedIn(more) <=> (i \in FailedIn(messages) \/ i = n + 1)
      BY <1>4, <2>1, <2>2, <2>3
    <3>2. QED
      BY <2>3, <3>1
  <2>4. CASE ~(msg.linked /\ msg.bad)
    <3>1. \A i : i \in FailedIn(more) <=> i \in FailedIn(messages)
      BY <1>4, <2>1, <2>2, <2>4
    <3>2. QED
      BY <2>4, <3>1
  <2>5. QED
    BY <2>3, <2>4
<1>7. /\ Cardinality(PaidIn(messages)) \in Nat /\ Cardinality(FailedIn(messages)) \in Nat
      /\ Cardinality(PaidIn(messages) \cup {n + 1}) = Cardinality(PaidIn(messages)) + 1
      /\ Cardinality(FailedIn(messages) \cup {n + 1}) = Cardinality(FailedIn(messages)) + 1
  BY <1>4, PlacesFinite
<1>8. Cardinality(PaidIn(more)) = Cardinality(PaidIn(messages)) + IF msg.paid THEN 1 ELSE 0
  BY <1>5, <1>7
<1>9. Cardinality(FailedIn(more)) =
        Cardinality(FailedIn(messages)) + IF msg.linked /\ msg.bad THEN 1 ELSE 0
  BY <1>6, <1>7
<1>10. QED
  BY <1>1, <1>3, <1>8, <1>9 DEF MessageAdded

\* The records counted go up by at most one.
CountsUp(s, s2) ==
    \/ s2.count = s.count /\ s2.main = s.main
    \/ s2.count = s.count + 1 /\ s2.main \in {s.main, s.main + 1}

\* What the scan of a record of a user changes.
UserScanned(s, r, s2) ==
    /\ s2 \in ScanState /\ CountsUp(s, s2)
    /\ s2.calls = s.calls /\ s2.lastID = s.lastID /\ s2.usage = s.usage
    /\ s2.found = (s.found \/ (r.text = Prompt /\ ~r.meta))
    /\ s2.content = (s.content \/ UserContent(s, r))
    /\ s2.errors + s2.rejects =
            s.errors + s.rejects + IF r.result \in s.calls /\ r.outcome # "ok" THEN 1 ELSE 0

LEMMA UserIsScanned ==
  ASSUME NEW s \in ScanState, NEW r \in UserRecords
  PROVE  UserScanned(s, r, ScanUser(s, r))
<1>1. r.slug \in BOOLEAN /\ r.sidechain \in BOOLEAN
  BY DEF UserRecords
<1>2. /\ s.count \in Nat /\ s.main \in Nat /\ s.errors \in Nat /\ s.rejects \in Nat
      /\ s.slugged \in BOOLEAN
  BY DEF ScanState
<1>3. PICK content \in BOOLEAN : content = UserContent(s, r)
  <2>1. UserContent(s, r) \in BOOLEAN
    BY DEF UserContent
  <2>2. QED
    BY <2>1
<1>4. PICK failed \in BOOLEAN : failed = (r.result \in s.calls /\ r.outcome # "ok")
  OBVIOUS
<1>5. PICK slugged \in BOOLEAN : slugged = (s.slugged \/ r.slug)
  OBVIOUS
<1>6. PICK found \in BOOLEAN : found = (s.found \/ (r.text = Prompt /\ ~r.meta))
  OBVIOUS
<1>7. PICK contents \in BOOLEAN : contents = (s.content \/ content)
  OBVIOUS
<1>8. PICK errors \in Nat : errors = IF failed /\ ~Rejected(r) THEN s.errors + 1 ELSE s.errors
  BY <1>2
<1>9. PICK rejects \in Nat : rejects = IF failed /\ Rejected(r) THEN s.rejects + 1 ELSE s.rejects
  BY <1>2
<1>10. PICK half : half = [s EXCEPT !.slugged = slugged, !.found = found, !.content = contents]
  OBVIOUS
<1>11. /\ half \in ScanState /\ half.count = s.count /\ half.main = s.main
       /\ half.calls = s.calls /\ half.lastID = s.lastID /\ half.usage = s.usage
       /\ half.found = found /\ half.content = contents
  BY <1>10 DEF ScanState
<1>12. PICK seen : seen = [half EXCEPT !.errors = errors, !.rejects = rejects]
  OBVIOUS
<1>13. /\ seen \in ScanState /\ seen.count = s.count /\ seen.main = s.main
       /\ seen.calls = s.calls /\ seen.lastID = s.lastID /\ seen.usage = s.usage
       /\ seen.found = found /\ seen.content = contents
       /\ seen.errors = errors /\ seen.rejects = rejects
  BY <1>11, <1>12 DEF ScanState
<1>14. seen = [s EXCEPT !.slugged = slugged, !.found = found, !.content = contents,
                        !.errors = errors, !.rejects = rejects]
  BY <1>10, <1>12
<1>15. ScanUser(s, r) = IF content THEN Counted(seen, r) ELSE seen
  BY <1>3, <1>4, <1>5, <1>6, <1>7, <1>8, <1>9, <1>14, Zenon DEF ScanUser
<1>16. errors + rejects = s.errors + s.rejects + IF failed THEN 1 ELSE 0
  <2>1. CASE ~failed
    BY <1>2, <1>8, <1>9, <2>1
  <2>2. CASE failed /\ Rejected(r)
    BY <1>2, <1>8, <1>9, <2>2
  <2>3. CASE failed /\ ~Rejected(r)
    BY <1>2, <1>8, <1>9, <2>3
  <2>4. QED
    BY <2>1, <2>2, <2>3
<1>17. ASSUME NEW s2 \in ScanState,
              s2.calls = s.calls, s2.lastID = s.lastID, s2.usage = s.usage,
              s2.found = found, s2.content = contents, s2.errors = errors, s2.rejects = rejects,
              CountsUp(s, s2)
       PROVE  UserScanned(s, r, s2)
  <2>1. s2.errors + s2.rejects =
            s.errors + s.rejects + IF r.result \in s.calls /\ r.outcome # "ok" THEN 1 ELSE 0
    BY <1>4, <1>16, <1>17
  <2>2. s2.found = (s.found \/ (r.text = Prompt /\ ~r.meta))
        /\ s2.content = (s.content \/ UserContent(s, r))
    BY <1>3, <1>6, <1>7, <1>17, Zenon
  <2>3. QED
    BY <1>17, <2>1, <2>2, Zenon DEF UserScanned
<1>18. CASE content
  <2>1. PICK main \in Nat : main = IF r.sidechain THEN seen.main ELSE seen.main + 1
    BY <1>2, <1>13
  <2>2. PICK s2 : s2 = [seen EXCEPT !.count = @ + 1, !.main = main]
    OBVIOUS
  <2>3. ScanUser(s, r) = s2
    BY <1>15, <1>18, <2>1, <2>2 DEF Counted
  <2>4. /\ s2 \in ScanState /\ s2.count = s.count + 1 /\ s2.main = main
        /\ s2.calls = s.calls /\ s2.lastID = s.lastID /\ s2.usage = s.usage
        /\ s2.found = found /\ s2.content = contents
        /\ s2.errors = errors /\ s2.rejects = rejects
    <3>1. PICK count \in Nat : count = s.count + 1
      BY <1>2
    <3>2. s2 = [seen EXCEPT !.count = count, !.main = main]
      BY <1>13, <2>2, <3>1
    <3>3. s2 \in ScanState
      BY <1>13, <2>1, <3>1, <3>2 DEF ScanState
    <3>4. /\ s2.count = count /\ s2.main = main
          /\ s2.calls = seen.calls /\ s2.lastID = seen.lastID /\ s2.usage = seen.usage
          /\ s2.found = seen.found /\ s2.content = seen.content
          /\ s2.errors = seen.errors /\ s2.rejects = seen.rejects
      BY <1>13, <3>2 DEF ScanState
    <3>5. QED
      BY <1>13, <3>1, <3>3, <3>4
  <2>5. CountsUp(s, s2)
    BY <1>13, <2>1, <2>4 DEF CountsUp
  <2>6. QED
    BY <1>17, <2>3, <2>4, <2>5
<1>19. CASE ~content
  <2>1. ScanUser(s, r) = seen
    BY <1>15, <1>19
  <2>2. CountsUp(s, seen)
    BY <1>13 DEF CountsUp
  <2>3. QED
    BY <1>13, <1>17, <2>1, <2>2
<1>20. QED
  BY <1>18, <1>19
\* What the scan of an assistant record changes.
AssistantScanned(s, r, s2) ==
    /\ s2 \in ScanState /\ CountsUp(s, s2)
    /\ s2.calls = s.calls \cup ({r.call} \ {None})
    /\ s2.lastID = IF r.usage /\ IsNew(s.lastID, r) THEN Track(s.lastID, r) ELSE s.lastID
    /\ s2.usage = IF r.usage /\ IsNew(s.lastID, r) THEN s.usage + 1 ELSE s.usage
    /\ s2.found = s.found /\ s2.content = (s.content \/ Shows(r))
    /\ s2.errors = s.errors /\ s2.rejects = s.rejects

LEMMA AssistantIsScanned ==
  ASSUME NEW s \in ScanState, NEW r \in AssistantRecords
  PROVE  AssistantScanned(s, r, ScanAssistant(s, r))
<1>1. r.call \in Calls \cup {None} /\ r.sidechain \in BOOLEAN
  BY DEF AssistantRecords
<1>2. /\ s.count \in Nat /\ s.main \in Nat /\ s.usage \in Nat
      /\ s.lastID \in [BOOLEAN -> Nat] /\ s.calls \in SUBSET (Calls \ {None})
  BY DEF ScanState
<1>3. PICK count \in Nat : count = s.count + 1
  BY <1>2
<1>4. PICK main \in Nat : main = IF r.sidechain THEN s.main ELSE s.main + 1
  BY <1>2
<1>5. PICK new \in BOOLEAN : new = (r.usage /\ IsNew(s.lastID, r))
  OBVIOUS
<1>6. PICK content \in BOOLEAN : content = (s.content \/ Shows(r))
  OBVIOUS
<1>7. PICK usage \in Nat : usage = IF new THEN s.usage + 1 ELSE s.usage
  BY <1>2
<1>8. PICK lastID \in [BOOLEAN -> Nat] : lastID = IF new THEN Track(s.lastID, r) ELSE s.lastID
  BY <1>2, TrackType
<1>9. PICK calls \in SUBSET (Calls \ {None}) : calls = s.calls \cup ({r.call} \ {None})
  BY <1>1, <1>2
<1>10. PICK half : half = [s EXCEPT !.count = count, !.main = main]
  OBVIOUS
<1>11. /\ half \in ScanState /\ half.count = count /\ half.main = main
       /\ half.calls = s.calls /\ half.lastID = s.lastID /\ half.usage = s.usage
       /\ half.found = s.found /\ half.content = s.content
       /\ half.errors = s.errors /\ half.rejects = s.rejects
  BY <1>10 DEF ScanState
<1>12. Counted(s, r) = half
  <2>1. Counted(s, r) = [s EXCEPT !.count = s.count + 1,
                                  !.main = IF r.sidechain THEN s.main ELSE s.main + 1]
    BY DEF Counted
  <2>2. QED
    BY <1>3, <1>4, <1>10, <2>1
<1>13. PICK s2 : s2 = [half EXCEPT !.content = content, !.usage = usage, !.lastID = lastID,
                                   !.calls = calls]
  OBVIOUS
<1>14. ScanAssistant(s, r) = s2
  <2>1. ScanAssistant(s, r) =
          [half EXCEPT !.content = half.content \/ Shows(r),
                       !.usage = IF new THEN half.usage + 1 ELSE half.usage,
                       !.lastID = IF new THEN Track(half.lastID, r) ELSE half.lastID,
                       !.calls = half.calls \cup ({r.call} \ {None})]
    BY <1>5, <1>12, Zenon DEF ScanAssistant
  <2>2. QED
    BY <1>6, <1>7, <1>8, <1>9, <1>11, <1>13, <2>1, Zenon
<1>15. PICK most : most = [half EXCEPT !.content = content, !.usage = usage]
  OBVIOUS
<1>16. /\ most \in ScanState /\ most.count = count /\ most.main = main
       /\ most.usage = usage /\ most.found = s.found /\ most.content = content
       /\ most.errors = s.errors /\ most.rejects = s.rejects
  BY <1>11, <1>15 DEF ScanState
<1>17. s2 = [most EXCEPT !.lastID = lastID, !.calls = calls]
  BY <1>13, <1>15
<1>18. /\ s2 \in ScanState /\ s2.count = count /\ s2.main = main
       /\ s2.calls = calls /\ s2.lastID = lastID
       /\ s2.usage = usage /\ s2.found = s.found /\ s2.content = content
       /\ s2.errors = s.errors /\ s2.rejects = s.rejects
  BY <1>16, <1>17 DEF ScanState
<1>19. CountsUp(s, s2)
  BY <1>3, <1>4, <1>18 DEF CountsUp
<1>20. QED
  BY <1>5, <1>6, <1>7, <1>8, <1>9, <1>14, <1>18, <1>19, Zenon DEF AssistantScanned

\* What the scan of a torn line changes.
TornScanned(s, s2) ==
    /\ s2 \in ScanState /\ CountsUp(s, s2)
    /\ s2.calls = s.calls /\ s2.lastID = s.lastID /\ s2.usage = s.usage
    /\ s2.found = s.found /\ s2.content = s.content
    /\ s2.errors = s.errors /\ s2.rejects = s.rejects

LEMMA TornIsScanned ==
  ASSUME NEW s \in ScanState, NEW r
  PROVE  TornScanned(s, ScanTorn(s, r))
<1>1. CASE r.role = "assistant"
  <2>1. PICK count \in Nat : count = s.count + 1
    BY DEF ScanState
  <2>2. PICK main \in Nat : main = s.main + 1
    BY DEF ScanState
  <2>3. ScanTorn(s, r) = [s EXCEPT !.count = count, !.main = main]
    BY <1>1, <2>1, <2>2 DEF ScanTorn
  <2>4. PICK s2 : s2 = [s EXCEPT !.count = count, !.main = main]
    OBVIOUS
  <2>5. /\ s2 \in ScanState /\ s2.count = count /\ s2.main = main
        /\ s2.calls = s.calls /\ s2.lastID = s.lastID /\ s2.usage = s.usage
        /\ s2.found = s.found /\ s2.content = s.content
        /\ s2.errors = s.errors /\ s2.rejects = s.rejects
    BY <2>4 DEF ScanState
  <2>6. QED
    BY <2>1, <2>2, <2>3, <2>4, <2>5 DEF TornScanned, CountsUp
<1>2. CASE r.role # "assistant"
  BY <1>2 DEF ScanTorn, TornScanned, CountsUp
<1>3. QED
  BY <1>1, <1>2

(* What the scan of records and what parsing them alone gives have to do    *)
(* with each other.                                                         *)
ShownFits(s, q) ==
    /\ s.content => q.messages # <<>>
    /\ s.found => \E i \in 1 .. Len(q.messages) : q.messages[i].text = Prompt

FailuresFit(records, s, q) ==
    /\ Cardinality(FailedIn(q.messages)) <= s.errors + s.rejects
    /\ (\A i \in 1 .. Len(records) : records[i].kind = "user" => ~records[i].blank)
            => s.errors + s.rejects = Cardinality(FailedIn(q.messages))

CountsFit(records, s) ==
    s.main <= s.count /\ s.count <= Len(records) /\ s.usage <= Len(records)

ScanFits(records, s, q) ==
    /\ s \in ScanState /\ q \in Parsed
    /\ CountsFit(records, s)
    /\ s.calls = q.parse.calls
    /\ PaidFor(records, Billed(records), s.lastID, s.usage)
    /\ PaidFor(records, BilledShown(records), q.parse.lastID, Cardinality(PaidIn(q.messages)))
    /\ ShownFits(s, q)
    /\ FailuresFit(records, s, q)
\* The counts stay within the number of records.
LEMMA CountsStay ==
  ASSUME NEW records \in Seq(AllRecords), NEW r, NEW more, IsLonger(records, r, more),
         NEW s \in ScanState, CountsFit(records, s), NEW s2 \in ScanState, CountsUp(s, s2),
         s2.usage \in {s.usage, s.usage + 1}
  PROVE  CountsFit(more, s2)
<1>1. PICK n \in Nat : n = Len(records)
  BY LenProperties
<1>2. Len(more) = n + 1
  BY <1>1 DEF IsLonger
<1>3. s.count \in Nat /\ s.main \in Nat /\ s.usage \in Nat
  BY DEF ScanState
<1>4. s.main <= s.count /\ s.count <= n /\ s.usage <= n
  BY <1>1 DEF CountsFit
<1>5. s2.main <= s2.count /\ s2.count <= n + 1
  BY <1>3, <1>4 DEF CountsUp
<1>6. s2.usage <= n + 1
  BY <1>3, <1>4
<1>7. QED
  BY <1>2, <1>5, <1>6 DEF CountsFit

\* A place more belongs to a set of places or not.
LEMMA PlaceAdded ==
  ASSUME NEW n \in Nat, NEW S \in SUBSET (1 .. n), NEW S2 \in SUBSET (1 .. n + 1),
         \A i \in 1 .. n : i \in S2 <=> i \in S
  PROVE  /\ n + 1 \in S2 => S2 = S \cup {n + 1}
         /\ n + 1 \notin S2 => S2 = S
<1>1. CASE n + 1 \in S2
  <2>1. ASSUME NEW i \in 1 .. n + 1 PROVE i \in S2 <=> i \in S \cup {n + 1}
    BY <1>1
  <2>2. QED
    BY <1>1, <2>1
<1>2. CASE n + 1 \notin S2
  <2>1. ASSUME NEW i \in 1 .. n + 1 PROVE i \in S2 <=> i \in S
    BY <1>2
  <2>2. QED
    BY <1>2, <2>1
<1>3. QED
  BY <1>1, <1>2

\* Where a usage stands after a record more.
LEMMA BilledMore ==
  ASSUME NEW records \in Seq(AllRecords), NEW r, NEW more, IsLonger(records, r, more)
  PROVE  /\ Billed(more) = IF r.kind = "assistant" /\ r.usage
                           THEN Billed(records) \cup {Len(records) + 1} ELSE Billed(records)
         /\ BilledShown(more) = IF r.kind = "assistant" /\ r.usage /\ Shows(r)
                           THEN BilledShown(records) \cup {Len(records) + 1} ELSE BilledShown(records)
<1>1. PICK n \in Nat : n = Len(records)
  BY LenProperties
<1>2. Len(more) = n + 1 /\ more[n + 1] = r /\ \A i \in 1 .. n : more[i] = records[i]
  BY <1>1 DEF IsLonger
<1>3. Billed(records) \in SUBSET (1 .. n) /\ BilledShown(records) \in SUBSET (1 .. n)
  BY <1>1 DEF Billed, BilledShown
<1>4. Billed(more) \in SUBSET (1 .. n + 1) /\ BilledShown(more) \in SUBSET (1 .. n + 1)
  BY <1>2 DEF Billed, BilledShown
<1>5. ASSUME NEW i \in 1 .. n
      PROVE  /\ i \in Billed(more) <=> i \in Billed(records)
             /\ i \in BilledShown(more) <=> i \in BilledShown(records)
  <2>1. more[i] = records[i] /\ i \in 1 .. n + 1
    BY <1>2
  <2>2. i \in Billed(more) <=> i \in Billed(records)
    BY <1>1, <1>2, <2>1, Zenon DEF Billed
  <2>3. QED
    BY <2>1, <2>2, Zenon DEF BilledShown
<1>6. n + 1 \in 1 .. n + 1 /\ n + 1 \notin 1 .. n /\ (\A i \in 1 .. n + 1 : i # n + 1 => i \in 1 .. n)
  OBVIOUS
<1>7. n + 1 \in Billed(more) <=> (r.kind = "assistant" /\ r.usage)
  BY <1>2, <1>6, Zenon DEF Billed
<1>8. n + 1 \in BilledShown(more) <=> (r.kind = "assistant" /\ r.usage /\ Shows(r))
  BY <1>2, <1>7, Zenon DEF BilledShown
<1>9. Billed(more) = IF r.kind = "assistant" /\ r.usage
                     THEN Billed(records) \cup {n + 1} ELSE Billed(records)
  BY <1>3, <1>4, <1>5, <1>7, PlaceAdded
<1>10. BilledShown(more) = IF r.kind = "assistant" /\ r.usage /\ Shows(r)
                           THEN BilledShown(records) \cup {n + 1} ELSE BilledShown(records)
  BY <1>3, <1>4, <1>5, <1>8, PlaceAdded
<1>11. QED
  BY <1>1, <1>9, <1>10

\* Failures agree after a record that is no failed call's, or is one with a message of it.
LEMMA FailuresStay ==
  ASSUME NEW records \in Seq(AllRecords), NEW r, NEW more, IsLonger(records, r, more),
         NEW s \in ScanState, NEW q \in Parsed, FailuresFit(records, s, q),
         NEW s2 \in ScanState, NEW q2 \in Parsed, NEW failed \in 0 .. 1, NEW linked \in 0 .. 1,
         s2.errors + s2.rejects = s.errors + s.rejects + failed,
         Cardinality(FailedIn(q2.messages)) = Cardinality(FailedIn(q.messages)) + linked,
         linked <= failed, (r.kind = "user" => ~r.blank) => linked = failed
  PROVE  FailuresFit(more, s2, q2)
<1>1. PICK n \in Nat : n = Len(records)
  BY LenProperties
<1>2. Len(more) = n + 1 /\ more[n + 1] = r /\ \A i \in 1 .. n : more[i] = records[i]
  BY <1>1 DEF IsLonger
<1>3. PICK old \in Nat : old = Cardinality(FailedIn(q.messages))
  <2>1. q.messages \in Seq(Message)
    BY DEF Parsed
  <2>2. FailedIn(q.messages) \in SUBSET (1 .. Len(q.messages)) /\ Len(q.messages) \in Nat
    BY <2>1, LenProperties DEF FailedIn
  <2>3. QED
    BY <2>2, PlacesFinite
<1>4. PICK sum \in Nat : sum = s.errors + s.rejects
  BY DEF ScanState
<1>5. old <= sum
  BY <1>3, <1>4 DEF FailuresFit
<1>6. old + linked <= sum + failed
  BY <1>5
<1>7. ASSUME \A i \in 1 .. n + 1 : more[i].kind = "user" => ~more[i].blank
      PROVE  sum + failed = old + linked
  <2>1. \A i \in 1 .. n : records[i].kind = "user" => ~records[i].blank
    <3>1. \A i \in 1 .. n : i \in 1 .. n + 1
      OBVIOUS
    <3>2. QED
      BY <1>2, <1>7, <3>1, Zenon
  <2>2. sum = old
    BY <1>1, <1>3, <1>4, <2>1, Zenon DEF FailuresFit
  <2>3. r.kind = "user" => ~r.blank
    <3>1. n + 1 \in 1 .. n + 1
      OBVIOUS
    <3>2. QED
      BY <1>2, <1>7, <3>1, Zenon
  <2>4. linked = failed
    BY <2>3, Zenon
  <2>5. QED
    BY <2>2, <2>4
<1>8. s2.errors + s2.rejects = sum + failed /\ Cardinality(FailedIn(q2.messages)) = old + linked
  BY <1>3, <1>4
<1>9. QED
  BY <1>2, <1>6, <1>7, <1>8, Zenon DEF FailuresFit
\* The scan still fits after a record of a user,
LEMMA UserStep ==
  ASSUME NEW records \in Seq(AllRecords), IDsFit(records),
         NEW r \in UserRecords, MayFollow(records, r), NEW more, IsLonger(records, r, more),
         NEW s, NEW q, ScanFits(records, s, q),
         NEW s2, s2 = ScanUser(s, r), NEW q2, q2 = ParsedOneMore(q, r)
  PROVE  ScanFits(more, s2, q2)
<1>1. r \in AllRecords /\ r.kind = "user"
  BY DEF AllRecords, UserRecords
<1>2. s \in ScanState /\ q \in Parsed /\ q.messages \in Seq(Message) /\ q.parse \in ParseState
      /\ s.calls = q.parse.calls /\ s.calls \in SUBSET (Calls \ {None})
  BY DEF ScanFits, Parsed, ScanState
<1>3. UserScanned(s, r, s2)
  BY <1>2, UserIsScanned
<1>4. s2 \in ScanState
  BY <1>3 DEF UserScanned
<1>5. /\ q2 \in Parsed
      /\ q2.parse.calls = q.parse.calls /\ q2.parse.lastID = q.parse.lastID
      /\ q2.messages = q.messages \o UserMessages(q.parse, r)
  <2>1. IndexedCalls(q.parse.calls, r) = q.parse.calls /\ IndexedID(q.parse.lastID, r) = q.parse.lastID
    BY <1>1 DEF IndexedCalls, IndexedID
  <2>2. MessagesOf(q.parse, r) = UserMessages(q.parse, r)
    BY <1>1 DEF MessagesOf
  <2>3. QED
    BY <1>1, <1>2, <2>1, <2>2, OneMoreType, ZenonT(60)
<1>6. CountsFit(more, s2)
  BY <1>2, <1>3, <1>4, CountsStay DEF ScanFits, UserScanned
<1>7. Billed(more) = Billed(records) /\ BilledShown(more) = BilledShown(records)
  BY <1>1, BilledMore
<1>8. PaidFor(more, Billed(more), s2.lastID, s2.usage)
  BY <1>3, <1>7, PaidForStays DEF ScanFits, UserScanned
<1>9. s2.calls = q2.parse.calls
  BY <1>2, <1>3, <1>5 DEF UserScanned
<1>10. PICK failed \in 0 .. 1 : failed = IF r.result \in s.calls /\ r.outcome # "ok" THEN 1 ELSE 0
  OBVIOUS
<1>11. s2.errors + s2.rejects = s.errors + s.rejects + failed
  BY <1>3, <1>10 DEF UserScanned
<1>12. s2.found = (s.found \/ (r.text = Prompt /\ ~r.meta))
       /\ s2.content = (s.content \/ UserContent(s, r))
  BY <1>3 DEF UserScanned
<1>13. ShownFits(s, q) /\ FailuresFit(records, s, q)
  BY DEF ScanFits
<1>14. PaidFor(more, BilledShown(records), q.parse.lastID, Cardinality(PaidIn(q.messages)))
  BY PaidForStays DEF ScanFits
<1>15. Cardinality(PaidIn(q.messages)) \in Nat /\ Cardinality(FailedIn(q.messages)) \in Nat
  <2>1. PaidIn(q.messages) \in SUBSET (1 .. Len(q.messages))
        /\ FailedIn(q.messages) \in SUBSET (1 .. Len(q.messages)) /\ Len(q.messages) \in Nat
    BY <1>2, LenProperties DEF PaidIn, FailedIn
  <2>2. QED
    BY <2>1, PlacesFinite
<1>16. CASE r.text = None /\ (r.result = None \/ r.blank)
  <2>1. UserMessages(q.parse, r) = <<>>
    BY <1>16 DEF UserMessages
  <2>2. q2.messages = q.messages
    BY <1>2, <1>5, <2>1, ConcatEmptySeq
  <2>3. r.text # Prompt
    BY <1>16 DEF None, Prompt
  <2>4. UserContent(s, r) => s.found
    BY <1>16, <2>3 DEF UserContent
  <2>5. ShownFits(s2, q2)
    <3>1. s2.found => s.found
      BY <1>12, <2>3
    <3>2. s.found => q.messages # <<>>
      BY <1>2, <1>13, EmptySeq DEF ShownFits
    <3>3. QED
      BY <1>12, <1>13, <2>2, <2>4, <3>1, <3>2, Zenon DEF ShownFits
  <2>6. FailuresFit(more, s2, q2)
    <3>1. failed = 1 => r.blank
      BY <1>2, <1>10, <1>16
    <3>2. PICK linked \in 0 .. 1 : linked = 0
      OBVIOUS
    <3>3. Cardinality(FailedIn(q2.messages)) = Cardinality(FailedIn(q.messages)) + linked
      BY <1>15, <2>2, <3>2
    <3>4. linked <= failed /\ ((r.kind = "user" => ~r.blank) => linked = failed)
      BY <1>1, <3>1, <3>2
    <3>5. QED
      BY <1>2, <1>4, <1>5, <1>11, <1>13, <3>3, <3>4, FailuresStay
  <2>7. QED
    BY <1>4, <1>5, <1>6, <1>7, <1>8, <1>9, <1>14, <2>2, <2>5, <2>6 DEF ScanFits
<1>17. CASE r.text = None => ~(r.result = None \/ r.blank)
  <2>1. PICK msg \in Message :
          /\ UserMessages(q.parse, r) = <<msg>>
          /\ msg.text = r.text /\ msg.paid = FALSE
          /\ msg.linked = (~r.blank /\ r.result \in q.parse.calls)
          /\ msg.bad = (~r.blank /\ r.result # None /\ r.outcome # "ok")
    BY <1>17, UserMessageIs DEF UserTold
  <2>2. /\ q2.messages \in Seq(Message) /\ Len(q2.messages) = Len(q.messages) + 1
        /\ q2.messages[Len(q.messages) + 1] = msg
        /\ \A i \in 1 .. Len(q.messages) : q2.messages[i] = q.messages[i]
        /\ Cardinality(PaidIn(q2.messages)) = Cardinality(PaidIn(q.messages)) + IF msg.paid THEN 1 ELSE 0
        /\ Cardinality(FailedIn(q2.messages)) =
                Cardinality(FailedIn(q.messages)) + IF msg.linked /\ msg.bad THEN 1 ELSE 0
    <3>1. q2.messages = q.messages \o <<msg>> /\ q.messages \in Seq(Message)
      BY <1>2, <1>5, <2>1
    <3>2. MessageAdded(q.messages, msg, q2.messages)
      BY <3>1, MessageMore
    <3>3. QED
      BY <3>2 DEF MessageAdded
  <2>3. Cardinality(PaidIn(q2.messages)) = Cardinality(PaidIn(q.messages))
    BY <1>15, <2>1, <2>2
  <2>4. ShownFits(s2, q2)
    <3>1. PICK n \in Nat : n = Len(q.messages)
      BY <1>2, LenProperties
    <3>2. q2.messages # <<>>
      BY <2>2, <3>1, EmptySeq
    <3>3. \A i \in 1 .. n : i \in 1 .. n + 1
      OBVIOUS
    <3>4. n + 1 \in 1 .. n + 1
      OBVIOUS
    <3>5. ASSUME s.found PROVE \E i \in 1 .. n + 1 : q2.messages[i].text = Prompt
      <4>1. PICK i \in 1 .. n : q.messages[i].text = Prompt
        BY <1>13, <3>1, <3>5 DEF ShownFits
      <4>2. QED
        BY <2>2, <3>1, <3>3, <4>1
    <3>6. ASSUME r.text = Prompt PROVE \E i \in 1 .. n + 1 : q2.messages[i].text = Prompt
      BY <2>1, <2>2, <3>1, <3>4, <3>6
    <3>7. s2.found => \E i \in 1 .. n + 1 : q2.messages[i].text = Prompt
      BY <1>12, <3>5, <3>6, Zenon
    <3>8. Len(q2.messages) = n + 1
      BY <2>2, <3>1
    <3>9. QED
      BY <3>2, <3>7, <3>8, Zenon DEF ShownFits
  <2>5. FailuresFit(more, s2, q2)
    <3>1. PICK linked \in 0 .. 1 : linked = IF msg.linked /\ msg.bad THEN 1 ELSE 0
      OBVIOUS
    <3>2. linked = IF ~r.blank /\ failed = 1 THEN 1 ELSE 0
      <4>1. r.result \in q.parse.calls => r.result # None
        BY <1>2
      <4>2. (msg.linked /\ msg.bad) <=> (~r.blank /\ r.result \in s.calls /\ r.outcome # "ok")
        BY <1>2, <2>1, <4>1, Zenon
      <4>3. QED
        BY <1>10, <3>1, <4>2
    <3>3. linked <= failed /\ ((r.kind = "user" => ~r.blank) => linked = failed)
      BY <1>1, <3>2
    <3>4. Cardinality(FailedIn(q2.messages)) = Cardinality(FailedIn(q.messages)) + linked
      BY <2>2, <3>1
    <3>5. QED
      BY <1>2, <1>4, <1>5, <1>11, <1>13, <3>3, <3>4, FailuresStay
  <2>6. QED
    BY <1>4, <1>5, <1>6, <1>7, <1>8, <1>9, <1>14, <2>3, <2>4, <2>5 DEF ScanFits
<1>18. QED
  BY <1>16, <1>17
\* The number of responses paid for, after an assistant record with a usage or without.
PaidNext(records, r, places, tracker, count, places2, tracker2, count2) ==
    /\ places2 = IF r.usage THEN places \cup {Len(records) + 1} ELSE places
    /\ tracker2 = IF r.usage /\ IsNew(tracker, r) THEN Track(tracker, r) ELSE tracker
    /\ count2 = IF r.usage /\ IsNew(tracker, r) THEN count + 1 ELSE count

LEMMA PaidForNext ==
  ASSUME NEW records \in Seq(AllRecords), IDsFit(records),
         NEW r \in AssistantRecords, MayFollow(records, r), NEW more, IsLonger(records, r, more),
         NEW places, NEW tracker, NEW count, PaidFor(records, places, tracker, count),
         NEW places2, NEW tracker2, NEW count2,
         PaidNext(records, r, places, tracker, count, places2, tracker2, count2)
  PROVE  PaidFor(more, places2, tracker2, count2)
<1>1. r.kind = "assistant" /\ r.usage \in BOOLEAN
  BY DEF AssistantRecords
<1>2. CASE r.usage
  <2>1. tracker2 = IF IsNew(tracker, r) THEN Track(tracker, r) ELSE tracker
    BY <1>2 DEF PaidNext
  <2>2. count2 = IF IsNew(tracker, r) THEN count + 1 ELSE count
    BY <1>2 DEF PaidNext
  <2>3. PaidFor(more, places \cup {Len(records) + 1}, tracker2, count2)
    BY <1>1, <2>1, <2>2, PaidForMore
  <2>4. places2 = places \cup {Len(records) + 1}
    BY <1>2 DEF PaidNext
  <2>5. QED
    BY <2>3, <2>4
<1>3. CASE ~r.usage
  <2>1. places2 = places /\ tracker2 = tracker /\ count2 = count
    BY <1>3 DEF PaidNext
  <2>2. QED
    BY <2>1, PaidForStays
<1>4. QED
  BY <1>2, <1>3

\* after an assistant record,
LEMMA AssistantStep ==
  ASSUME NEW records \in Seq(AllRecords), IDsFit(records),
         NEW r \in AssistantRecords, MayFollow(records, r), NEW more, IsLonger(records, r, more),
         NEW s, NEW q, ScanFits(records, s, q),
         NEW s2, s2 = ScanAssistant(s, r), NEW q2, q2 = ParsedOneMore(q, r)
  PROVE  ScanFits(more, s2, q2)
<1>1. r \in AllRecords /\ r.kind = "assistant" /\ r.usage \in BOOLEAN
  BY DEF AllRecords, AssistantRecords
<1>2. s \in ScanState /\ q \in Parsed /\ q.messages \in Seq(Message) /\ q.parse \in ParseState
      /\ s.calls = q.parse.calls /\ s.usage \in Nat
  BY DEF ScanFits, Parsed, ScanState
<1>3. AssistantScanned(s, r, s2)
  BY <1>2, AssistantIsScanned
<1>4. s2 \in ScanState /\ s2.found = s.found /\ s2.content = (s.content \/ Shows(r))
  BY <1>3 DEF AssistantScanned
<1>5. /\ q2 \in Parsed
      /\ q2.parse.calls = IndexedCalls(q.parse.calls, r)
      /\ q2.parse.lastID = IndexedID(q.parse.lastID, r)
      /\ q2.messages = q.messages \o AssistantMessages(q.parse, r)
  <2>1. MessagesOf(q.parse, r) = AssistantMessages(q.parse, r)
    BY <1>1 DEF MessagesOf
  <2>2. QED
    BY <1>1, <1>2, <2>1, OneMoreType
<1>6. CountsFit(more, s2)
  <2>1. s2.usage \in {s.usage, s.usage + 1} /\ CountsUp(s, s2)
    BY <1>3 DEF AssistantScanned
  <2>2. CountsFit(records, s)
    BY DEF ScanFits
  <2>3. QED
    BY <1>2, <1>4, <2>1, <2>2, CountsStay
<1>7. PaidFor(more, Billed(more), s2.lastID, s2.usage)
  <2>1. Billed(more) = IF r.usage THEN Billed(records) \cup {Len(records) + 1} ELSE Billed(records)
    BY <1>1, BilledMore
  <2>2. s2.lastID = (IF r.usage /\ IsNew(s.lastID, r) THEN Track(s.lastID, r) ELSE s.lastID)
        /\ s2.usage = (IF r.usage /\ IsNew(s.lastID, r) THEN s.usage + 1 ELSE s.usage)
    BY <1>3 DEF AssistantScanned
  <2>3. PaidFor(records, Billed(records), s.lastID, s.usage)
    BY DEF ScanFits
  <2>4. PaidNext(records, r, Billed(records), s.lastID, s.usage, Billed(more), s2.lastID, s2.usage)
    BY <2>1, <2>2, Zenon DEF PaidNext
  <2>5. QED
    BY <2>3, <2>4, PaidForNext
<1>8. s2.calls = q2.parse.calls
  <2>1. s2.calls = s.calls \cup ({r.call} \ {None})
    BY <1>3 DEF AssistantScanned
  <2>2. ~Shows(r) => r.call = None
    BY DEF Shows
  <2>3. QED
    BY <1>1, <1>2, <1>5, <2>1, <2>2 DEF IndexedCalls
<1>9. ShownFits(s, q) /\ FailuresFit(records, s, q)
      /\ PaidFor(records, BilledShown(records), q.parse.lastID, Cardinality(PaidIn(q.messages)))
  BY DEF ScanFits
<1>10. Cardinality(PaidIn(q.messages)) \in Nat /\ Cardinality(FailedIn(q.messages)) \in Nat
  <2>1. PaidIn(q.messages) \in SUBSET (1 .. Len(q.messages))
        /\ FailedIn(q.messages) \in SUBSET (1 .. Len(q.messages)) /\ Len(q.messages) \in Nat
    BY <1>2, LenProperties DEF PaidIn, FailedIn
  <2>2. QED
    BY <2>1, PlacesFinite
<1>11. ASSUME Cardinality(FailedIn(q2.messages)) = Cardinality(FailedIn(q.messages))
       PROVE  FailuresFit(more, s2, q2)
  <2>1. PICK none \in 0 .. 1 : none = 0
    OBVIOUS
  <2>2. s2.errors + s2.rejects = s.errors + s.rejects + none
    <3>1. s2.errors = s.errors /\ s2.rejects = s.rejects
      BY <1>3 DEF AssistantScanned
    <3>2. s.errors \in Nat /\ s.rejects \in Nat
      BY <1>2 DEF ScanState
    <3>3. QED
      BY <2>1, <3>1, <3>2
  <2>3. Cardinality(FailedIn(q2.messages)) = Cardinality(FailedIn(q.messages)) + none
    BY <1>10, <1>11, <2>1
  <2>4. none <= none
    OBVIOUS
  <2>5. QED
    BY <1>2, <1>4, <1>5, <1>9, <2>2, <2>3, <2>4, FailuresStay
<1>12. CASE ~Shows(r)
  <2>1. AssistantMessages(q.parse, r) = <<>>
    BY <1>12 DEF AssistantMessages
  <2>2. q2.messages = q.messages
    BY <1>2, <1>5, <2>1, ConcatEmptySeq
  <2>3. q2.parse.lastID = q.parse.lastID
    BY <1>5, <1>12 DEF IndexedID
  <2>4. BilledShown(more) = BilledShown(records)
    BY <1>12, BilledMore
  <2>5. PaidFor(more, BilledShown(more), q2.parse.lastID, Cardinality(PaidIn(q2.messages)))
    BY <1>9, <2>2, <2>3, <2>4, PaidForStays
  <2>6. ShownFits(s2, q2)
    BY <1>4, <1>9, <1>12, <2>2, Zenon DEF ShownFits
  <2>7. FailuresFit(more, s2, q2)
    BY <1>11, <2>2
  <2>8. QED
    BY <1>4, <1>5, <1>6, <1>7, <1>8, <2>5, <2>6, <2>7 DEF ScanFits
<1>13. CASE Shows(r)
  <2>1. PICK msg \in Message :
          /\ AssistantMessages(q.parse, r) = <<msg>>
          /\ msg.paid = (r.usage /\ IsNew(q.parse.lastID, r)) /\ msg.linked = FALSE
    BY <1>13, AssistantMessageIs DEF AssistantTold
  <2>2. MessageAdded(q.messages, msg, q2.messages)
    <3>1. q2.messages = q.messages \o <<msg>> /\ q.messages \in Seq(Message)
      BY <1>2, <1>5, <2>1
    <3>2. QED
      BY <3>1, MessageMore
  <2>3. /\ q2.messages \in Seq(Message) /\ Len(q2.messages) = Len(q.messages) + 1
        /\ \A i \in 1 .. Len(q.messages) : q2.messages[i] = q.messages[i]
        /\ Cardinality(PaidIn(q2.messages)) = Cardinality(PaidIn(q.messages)) + IF msg.paid THEN 1 ELSE 0
        /\ Cardinality(FailedIn(q2.messages)) =
                Cardinality(FailedIn(q.messages)) + IF msg.linked /\ msg.bad THEN 1 ELSE 0
    BY <2>2 DEF MessageAdded
  <2>4. FailuresFit(more, s2, q2)
    <3>1. Cardinality(FailedIn(q2.messages)) = Cardinality(FailedIn(q.messages))
      BY <1>10, <2>1, <2>3
    <3>2. QED
      BY <1>11, <3>1
  <2>5. ShownFits(s2, q2)
    <3>1. PICK n \in Nat : n = Len(q.messages)
      BY <1>2, LenProperties
    <3>2. q2.messages # <<>> /\ Len(q2.messages) = n + 1
      BY <2>3, <3>1, EmptySeq
    <3>3. \A i \in 1 .. n : i \in 1 .. n + 1
      OBVIOUS
    <3>4. ASSUME s.found PROVE \E i \in 1 .. n + 1 : q2.messages[i].text = Prompt
      <4>1. PICK i \in 1 .. n : q.messages[i].text = Prompt
        BY <1>9, <3>1, <3>4 DEF ShownFits
      <4>2. QED
        BY <2>3, <3>1, <3>3, <4>1
    <3>5. QED
      BY <1>4, <3>2, <3>4, Zenon DEF ShownFits
  <2>6. PaidFor(more, BilledShown(more), q2.parse.lastID, Cardinality(PaidIn(q2.messages)))
    <3>1. BilledShown(more) = IF r.usage THEN BilledShown(records) \cup {Len(records) + 1}
                                         ELSE BilledShown(records)
      BY <1>1, <1>13, BilledMore
    <3>2. q2.parse.lastID = IF r.usage /\ IsNew(q.parse.lastID, r) THEN Track(q.parse.lastID, r)
                                                                  ELSE q.parse.lastID
      BY <1>1, <1>5, <1>13 DEF IndexedID
    <3>3. Cardinality(PaidIn(q2.messages)) =
            IF r.usage /\ IsNew(q.parse.lastID, r) THEN Cardinality(PaidIn(q.messages)) + 1
                                                   ELSE Cardinality(PaidIn(q.messages))
      <4>1. PICK paid \in BOOLEAN : paid = (r.usage /\ IsNew(q.parse.lastID, r))
        OBVIOUS
      <4>2. msg.paid = paid
        BY <2>1, <4>1, Zenon
      <4>3. CASE paid
        <5>1. Cardinality(PaidIn(q2.messages)) = Cardinality(PaidIn(q.messages)) + 1
          BY <2>3, <4>2, <4>3
        <5>2. r.usage /\ IsNew(q.parse.lastID, r)
          BY <4>1, <4>3, Zenon
        <5>3. QED
          BY <5>1, <5>2, Zenon
      <4>4. CASE ~paid
        <5>1. Cardinality(PaidIn(q2.messages)) = Cardinality(PaidIn(q.messages))
          BY <1>10, <2>3, <4>2, <4>4
        <5>2. ~(r.usage /\ IsNew(q.parse.lastID, r))
          BY <4>1, <4>4, Zenon
        <5>3. QED
          BY <5>1, <5>2, Zenon
      <4>5. QED
        BY <4>3, <4>4
    <3>4. PaidNext(records, r, BilledShown(records), q.parse.lastID, Cardinality(PaidIn(q.messages)),
                   BilledShown(more), q2.parse.lastID, Cardinality(PaidIn(q2.messages)))
      BY <3>1, <3>2, <3>3, Zenon DEF PaidNext
    <3>5. QED
      BY <1>9, <3>4, PaidForNext
  <2>7. QED
    BY <1>4, <1>5, <1>6, <1>7, <1>8, <2>4, <2>5, <2>6 DEF ScanFits
<1>14. QED
  BY <1>12, <1>13

\* after a torn line,
LEMMA TornStep ==
  ASSUME NEW records \in Seq(AllRecords), IDsFit(records),
         NEW r \in TornRecords, MayFollow(records, r), NEW more, IsLonger(records, r, more),
         NEW s, NEW q, ScanFits(records, s, q),
         NEW s2, s2 = ScanTorn(s, r), NEW q2, q2 = ParsedOneMore(q, r)
  PROVE  ScanFits(more, s2, q2)
<1>1. r \in AllRecords /\ r.kind = "torn"
  BY DEF AllRecords, TornRecords
<1>2. s \in ScanState /\ q \in Parsed /\ q.messages \in Seq(Message)
      /\ s.calls = q.parse.calls /\ s.errors \in Nat /\ s.rejects \in Nat
  BY DEF ScanFits, Parsed, ScanState
<1>3. TornScanned(s, s2)
  BY <1>2, TornIsScanned
<1>4. /\ s2 \in ScanState /\ CountsUp(s, s2)
      /\ s2.calls = s.calls /\ s2.lastID = s.lastID /\ s2.usage = s.usage
      /\ s2.found = s.found /\ s2.content = s.content
      /\ s2.errors = s.errors /\ s2.rejects = s.rejects
  BY <1>3 DEF TornScanned
<1>5. /\ q2 \in Parsed
      /\ q2.parse.calls = q.parse.calls /\ q2.parse.lastID = q.parse.lastID
      /\ q2.messages = q.messages \o <<>>
  <2>1. MessagesOf(q.parse, r) = <<>>
    BY <1>1 DEF MessagesOf
  <2>2. IndexedCalls(q.parse.calls, r) = q.parse.calls /\ IndexedID(q.parse.lastID, r) = q.parse.lastID
    BY <1>1 DEF IndexedCalls, IndexedID
  <2>3. QED
    BY <1>1, <1>2, <2>1, <2>2, OneMoreType
<1>6. q2.messages = q.messages
  BY <1>2, <1>5, ConcatEmptySeq
<1>7. CountsFit(more, s2)
  BY <1>2, <1>4, CountsStay DEF ScanFits
<1>8. Billed(more) = Billed(records) /\ BilledShown(more) = BilledShown(records)
  BY <1>1, BilledMore
<1>9. PaidFor(more, Billed(more), s2.lastID, s2.usage)
  BY <1>4, <1>8, PaidForStays DEF ScanFits
<1>10. PaidFor(more, BilledShown(more), q2.parse.lastID, Cardinality(PaidIn(q2.messages)))
  BY <1>5, <1>6, <1>8, PaidForStays DEF ScanFits
<1>11. ShownFits(s2, q2)
  BY <1>4, <1>6 DEF ScanFits, ShownFits
<1>12. FailuresFit(more, s2, q2)
  <2>1. PICK none \in 0 .. 1 : none = 0
    OBVIOUS
  <2>2. s2.errors + s2.rejects = s.errors + s.rejects + none
    BY <1>2, <1>4, <2>1
  <2>3. Cardinality(FailedIn(q2.messages)) = Cardinality(FailedIn(q.messages)) + none
    <3>1. FailedIn(q.messages) \in SUBSET (1 .. Len(q.messages)) /\ Len(q.messages) \in Nat
      BY <1>2, LenProperties DEF FailedIn
    <3>2. Cardinality(FailedIn(q.messages)) \in Nat
      BY <3>1, PlacesFinite
    <3>3. QED
      BY <1>6, <2>1, <3>2
  <2>4. none <= none /\ FailuresFit(records, s, q)
    BY DEF ScanFits
  <2>5. QED
    BY <1>2, <1>4, <1>5, <2>2, <2>3, <2>4, FailuresStay
<1>13. QED
  BY <1>2, <1>4, <1>5, <1>7, <1>9, <1>10, <1>11, <1>12 DEF ScanFits

\* hence after every record.
LEMMA RecordStep ==
  ASSUME NEW records \in Seq(AllRecords), IDsFit(records),
         NEW r, MayFollow(records, r), NEW more, IsLonger(records, r, more),
         NEW s, NEW q, ScanFits(records, s, q),
         NEW s2, s2 = ScanRecord(s, r), NEW q2, q2 = ParsedOneMore(q, r)
  PROVE  ScanFits(more, s2, q2)
<1>1. r \in AllRecords
  BY DEF MayFollow
<1>2. CASE r \in UserRecords
  <2>1. s2 = ScanUser(s, r)
    BY <1>2 DEF ScanRecord, UserRecords
  <2>2. QED
    BY <1>2, <2>1, UserStep
<1>3. CASE r \in AssistantRecords
  <2>1. s2 = ScanAssistant(s, r)
    BY <1>3 DEF ScanRecord, AssistantRecords
  <2>2. QED
    BY <1>3, <2>1, AssistantStep
<1>4. CASE r \in TornRecords
  <2>1. s2 = ScanTorn(s, r)
    BY <1>4 DEF ScanRecord, TornRecords
  <2>2. QED
    BY <1>4, <2>1, TornStep
<1>5. QED
  BY <1>1, <1>2, <1>3, <1>4 DEF AllRecords

-----------------------------------------------------------------------------
(* The inductive invariant *)

(* Each file and what the scan has of it fit together.                      *)
FilesFit ==
    /\ file \in [Files -> Seq(AllRecords)] /\ scan \in [Files -> ScanState]
    /\ \A f \in Files :
        /\ Len(file[f]) <= MaxRecords /\ IDsFit(file[f])
        /\ ScanFits(file[f], scan[f], ParsedTo(file[f], Len(file[f])))

(* A goroutine has what parsing the records it has read alone gives, in its *)
(* part of the buffer as long as that has room.                             *)
ReadFits(f) ==
    LET alone == ParsedTo(file[f], parse[f].next - 1) IN
    /\ \A i \in 1 .. (parse[f].next - 1) : file[f][i].kind # "torn"
    /\ parse[f].calls = alone.parse.calls /\ parse[f].lastID = alone.parse.lastID
    /\ Slice(f) = alone.messages

ParseFits(f) ==
    /\ parse[f].next \in 1 .. (Len(file[f]) + 1)
    /\ parse[f].len <= parse[f].next - 1
    /\ IF parse[f].detached THEN Len(parse[f].own) = parse[f].len /\ scan[f].count < parse[f].len
                            ELSE parse[f].len <= scan[f].count
    /\ parse[f].status = "ok" => parse[f].next = Len(file[f]) + 1
    /\ parse[f].status # "failed" => ReadFits(f)

AllParsesFit == \A f \in Files : ParseFits(f)

ParsesFit ==
    /\ parse \in [Files -> ParseState]
    /\ phase = "writing" => parse = [f \in Files |-> NewParse]
    /\ AllParsesFit

BufferFits ==
    /\ buffer \in Seq(Message)
    /\ Len(buffer) = IF phase = "writing" THEN 0 ELSE Total

(* What is loaded is made of what the goroutines have.                      *)
Loaded ==
    /\ \A f \in Files : parse[f].status = "ok"
    /\ bundle.messages = DeduplicatePlans(CollectProjectedConversation)
    /\ bundle.sessions = [i \in 1 .. Len(Sessions) |-> DeduplicatePlans(Slices[i])]
    /\ bundle.usage = SumTo([i \in 1 .. Len(Sessions) |-> Usage(Slices[i])], Len(Sessions))

BundleFits ==
    /\ phase \in {"writing", "parsing", "done"}
    /\ phase # "done" => bundle = NoBundle
    /\ bundle.outcome \in {"none", "loaded", "malformed"}
    /\ bundle.outcome = "loaded" => Loaded

IInv == FilesFit /\ ParsesFit /\ BufferFits /\ BundleFits

-----------------------------------------------------------------------------
(* The parts of the buffer *)

\* Where a file stands among the sessions.
LEMMA PlaceIs ==
  ASSUME NEW f \in Files
  PROVE  Place(f) \in 1 .. Len(Sessions) /\ Sessions[Place(f)] = f
<1>1. \E i \in 1 .. Len(Sessions) : Sessions[i] = f
  BY RecordsAssumption DEF Files, ToSet
<1>2. QED
  BY <1>1, Zenon DEF Place

LEMMA PlaceOf ==
  ASSUME NEW i \in 1 .. Len(Sessions)
  PROVE  Sessions[i] \in Files /\ Place(Sessions[i]) = i
<1>1. Sessions \in Seq(Files) /\ DOMAIN Sessions = 1 .. Len(Sessions)
  BY RecordsAssumption, LenProperties
<1>2. Sessions[i] \in Files
  BY <1>1
<1>3. Place(Sessions[i]) \in 1 .. Len(Sessions) /\ Sessions[Place(Sessions[i])] = Sessions[i]
  BY <1>2, PlaceIs
<1>4. QED
  BY <1>1, <1>2, <1>3, RecordsAssumption DEF IsInjective

\* There is a session, and the counts of the scan are natural numbers.
LEMMA CountsAre ==
  ASSUME scan \in [Files -> ScanState]
  PROVE  /\ Len(Sessions) \in Nat /\ Len(Sessions) # 0
         /\ \A i \in 1 .. Len(Sessions) : Counts[i] = scan[Sessions[i]].count /\ Counts[i] \in Nat
<1>1. Len(Sessions) \in Nat /\ Len(Sessions) # 0
  BY RecordsAssumption, LenProperties, EmptySeq
<1>2. ASSUME NEW i \in 1 .. Len(Sessions)
      PROVE  Counts[i] = scan[Sessions[i]].count /\ Counts[i] \in Nat
  <2>1. Counts[i] = scan[Sessions[i]].count
    BY DEF Counts
  <2>2. scan[Sessions[i]] \in ScanState
    BY PlaceOf
  <2>3. QED
    BY <2>1, <2>2 DEF ScanState
<1>3. QED
  BY <1>1, <1>2

\* A part lies within the buffer,
LEMMA PartInBuffer ==
  ASSUME scan \in [Files -> ScanState], NEW f \in Files
  PROVE  /\ Offset(f) \in Nat /\ Total \in Nat /\ scan[f].count \in Nat
         /\ Offset(f) + scan[f].count <= Total
<1>1. PICK n \in Nat : n = Len(Sessions)
  BY CountsAre
<1>2. \A i \in 1 .. n : Counts[i] = scan[Sessions[i]].count /\ Counts[i] \in Nat
  BY <1>1, CountsAre
<1>3. PICK i \in 1 .. n : i = Place(f) /\ Sessions[i] = f
  BY <1>1, PlaceIs
<1>4. PICK counts : counts = Counts
  OBVIOUS
<1>5. PICK j \in 0 .. n : j = i - 1
  OBVIOUS
<1>6. n \in 0 .. n /\ i <= n
  OBVIOUS
<1>7. Offset(f) = SumTo(counts, j) /\ Total = SumTo(counts, n)
  BY <1>1, <1>3, <1>4, <1>5 DEF Offset, Total
<1>8. SumTo(counts, j) \in Nat /\ SumTo(counts, n) \in Nat
  BY <1>2, <1>4, <1>6, SumNat
<1>9. SumTo(counts, i - 1) + counts[i] <= SumTo(counts, n)
  BY <1>2, <1>4, <1>6, SumGrows
<1>10. counts[i] = scan[f].count /\ scan[f].count \in Nat
  BY <1>2, <1>3, <1>4
<1>11. QED
  BY <1>5, <1>7, <1>8, <1>9, <1>10

\* and the parts of two files lie apart.
LEMMA PartsApart ==
  ASSUME scan \in [Files -> ScanState], NEW f \in Files, NEW g \in Files, f # g
  PROVE  \/ Offset(f) + scan[f].count <= Offset(g)
         \/ Offset(g) + scan[g].count <= Offset(f)
<1>1. PICK n \in Nat : n = Len(Sessions)
  BY CountsAre
<1>2. \A i \in 1 .. n : Counts[i] = scan[Sessions[i]].count /\ Counts[i] \in Nat
  BY <1>1, CountsAre
<1>3. PICK i \in 1 .. n : i = Place(f) /\ Sessions[i] = f
  BY <1>1, PlaceIs
<1>4. PICK j \in 1 .. n : j = Place(g) /\ Sessions[j] = g
  BY <1>1, PlaceIs
<1>5. PICK counts : counts = Counts
  OBVIOUS
<1>6. PICK h \in 0 .. n : h = i - 1
  OBVIOUS
<1>7. PICK k \in 0 .. n : k = j - 1
  OBVIOUS
<1>8. Offset(f) = SumTo(counts, h) /\ Offset(g) = SumTo(counts, k)
  BY <1>3, <1>4, <1>5, <1>6, <1>7 DEF Offset
<1>9. counts[i] = scan[f].count /\ counts[j] = scan[g].count
  BY <1>2, <1>3, <1>4, <1>5
<1>10. i # j
  BY <1>3, <1>4
<1>11. CASE i < j
  <2>1. i <= k
    BY <1>7, <1>11
  <2>2. SumTo(counts, i - 1) + counts[i] <= SumTo(counts, k)
    BY <1>2, <1>5, <2>1, SumGrows
  <2>3. QED
    BY <1>6, <1>8, <1>9, <2>2
<1>12. CASE j < i
  <2>1. j <= h
    BY <1>6, <1>12
  <2>2. SumTo(counts, j - 1) + counts[j] <= SumTo(counts, h)
    BY <1>2, <1>5, <2>1, SumGrows
  <2>3. QED
    BY <1>7, <1>8, <1>9, <2>2
<1>13. QED
  BY <1>10, <1>11, <1>12

-----------------------------------------------------------------------------
(* The initial state *)

\* Nothing of a file that is not read yet is in its part.
LEMMA EmptySlice ==
  ASSUME NEW s, NEW o \in Nat
  PROVE  SubSeq(s, o + 1, o + 0) = <<>>
<1>1. SubSeq(s, o + 1, o + 0) = [i \in 1 .. (1 + (o + 0) - (o + 1)) |-> s[i + (o + 1) - 1]]
  OBVIOUS
<1>2. 1 .. (1 + (o + 0) - (o + 1)) = {}
  OBVIOUS
<1>3. QED
  BY <1>1, <1>2

\* A goroutine that has read nothing yet.
NotBegun == FilesFit /\ parse = [f \in Files |-> NewParse]

LEMMA NotBegunFits == NotBegun => AllParsesFit
<1> SUFFICES ASSUME NotBegun, NEW f \in Files PROVE ParseFits(f)
  BY DEF AllParsesFit
<1>1. scan \in [Files -> ScanState] /\ file[f] \in Seq(AllRecords)
  BY DEF NotBegun, FilesFit
<1>2. PICK no \in BOOLEAN : no = FALSE
  OBVIOUS
<1>3. parse[f] = [next |-> 1, calls |-> {}, lastID |-> NewTracker, len |-> 0, detached |-> no,
                  own |-> <<>>, status |-> "running"]
  BY <1>2 DEF NotBegun, NewParse
<1>4. parse[f].next = 1 /\ parse[f].len = 0 /\ parse[f].detached = no /\ parse[f].status = "running"
      /\ parse[f].calls = {} /\ parse[f].lastID = NewTracker
  BY <1>3
<1>5. Offset(f) \in Nat /\ scan[f].count \in Nat
  BY <1>1, PartInBuffer
<1>6. Slice(f) = <<>>
  <2>1. Slice(f) = SubSeq(buffer, Offset(f) + 1, Offset(f) + parse[f].len)
    BY <1>2, <1>4 DEF Slice
  <2>2. QED
    BY <1>4, <1>5, <2>1, EmptySlice
<1>7. ParsedTo(file[f], 0) = NothingParsed /\ NothingParsed.messages = <<>>
      /\ NothingParsed.parse = NewParse /\ NewParse.calls = {} /\ NewParse.lastID = NewTracker
  BY ParsedZero, NothingParsedType DEF NewParse
<1>8. ReadFits(f)
  <2>1. parse[f].next - 1 = 0 /\ 1 .. 0 = {}
    BY <1>4
  <2>2. QED
    BY <1>4, <1>6, <1>7, <2>1, Zenon DEF ReadFits
<1>9. Len(file[f]) \in Nat
  BY <1>1, LenProperties
<1>10. QED
  <2>1. parse[f].next \in 1 .. (Len(file[f]) + 1) /\ parse[f].len <= parse[f].next - 1
    BY <1>4, <1>9
  <2>2. ~parse[f].detached /\ parse[f].len <= scan[f].count
    BY <1>2, <1>4, <1>5
  <2>3. parse[f].status # "ok"
    BY <1>4
  <2>4. QED
    BY <1>8, <2>1, <2>2, <2>3, Zenon DEF ParseFits

\* An empty file and a scan that has read nothing fit together.
LEMMA NothingFits == ScanFits(<<>>, NewScan, NothingParsed) /\ IDsFit(<<>>)
<1>1. PICK no \in BOOLEAN : no = FALSE
  OBVIOUS
<1>2. NewScan = [count |-> 0, main |-> 0, found |-> no, slugged |-> no, content |-> no,
                 usage |-> 0, lastID |-> NewTracker, calls |-> {}, errors |-> 0, rejects |-> 0]
  BY <1>1 DEF NewScan
<1>3. /\ NewScan.count = 0 /\ NewScan.main = 0 /\ NewScan.found = no /\ NewScan.content = no
      /\ NewScan.usage = 0 /\ NewScan.lastID = NewTracker /\ NewScan.calls = {}
      /\ NewScan.errors = 0 /\ NewScan.rejects = 0
  BY <1>2
<1>4. NewScan \in ScanState
  BY <1>2, NothingParsedType DEF ScanState
<1>5. NothingParsed \in Parsed /\ NothingParsed.messages = <<>>
      /\ NothingParsed.parse.calls = {} /\ NothingParsed.parse.lastID = NewTracker
  BY NothingParsedType DEF NewParse
<1>6. 1 .. 0 = {} /\ Len(<<>>) = 0
  OBVIOUS
<1>7. Billed(<<>>) = {} /\ BilledShown(<<>>) = {} /\ PaidIn(<<>>) = {} /\ FailedIn(<<>>) = {}
  BY <1>6 DEF Billed, BilledShown, PaidIn, FailedIn
<1>8. Responses(<<>>, {}) = {}
  BY DEF Responses
<1>9. \A t \in BOOLEAN : LastIDs(<<>>, t) = {} /\ NewTracker[t] = NoID
  <2>1. \A t \in BOOLEAN : Assistant(<<>>, t) = {}
    BY <1>6 DEF Assistant
  <2>2. QED
    BY <2>1 DEF LastIDs, NewTracker
<1>10. PaidFor(<<>>, {}, NewTracker, 0)
  BY <1>8, <1>9, NothingParsedType, FS_EmptySet DEF PaidFor, Tracks
<1>11. ShownFits(NewScan, NothingParsed)
  BY <1>1, <1>3 DEF ShownFits
<1>12. FailuresFit(<<>>, NewScan, NothingParsed)
  <2>1. Cardinality(FailedIn(NothingParsed.messages)) = 0
    BY <1>5, <1>7, FS_EmptySet
  <2>2. NewScan.errors + NewScan.rejects = 0
    BY <1>3
  <2>3. QED
    BY <2>1, <2>2 DEF FailuresFit
<1>13. CountsFit(<<>>, NewScan)
  BY <1>3, <1>6 DEF CountsFit
<1>14. Cardinality(PaidIn(NothingParsed.messages)) = 0
  BY <1>5, <1>7, FS_EmptySet
<1>15. IDsFit(<<>>)
  BY <1>6 DEF IDsFit
<1>16. QED
  BY <1>3, <1>4, <1>5, <1>7, <1>10, <1>11, <1>12, <1>13, <1>14, <1>15 DEF ScanFits

LEMMA InitFits == Init => IInv
<1> SUFFICES ASSUME Init PROVE IInv
  OBVIOUS
<1>1. FilesFit
  <2>1. NewScan \in ScanState /\ <<>> \in Seq(AllRecords) /\ Len(<<>>) = 0
    BY NothingFits DEF ScanFits
  <2>2. file \in [Files -> Seq(AllRecords)] /\ scan \in [Files -> ScanState]
    BY <2>1 DEF Init
  <2>3. ASSUME NEW f \in Files
        PROVE  /\ Len(file[f]) <= MaxRecords /\ IDsFit(file[f])
               /\ ScanFits(file[f], scan[f], ParsedTo(file[f], Len(file[f])))
    <3>1. file[f] = <<>> /\ scan[f] = NewScan
      BY DEF Init
    <3>2. ParsedTo(file[f], Len(file[f])) = NothingParsed
      BY <2>1, <3>1, ParsedZero
    <3>3. Len(file[f]) <= MaxRecords
      BY <2>1, <3>1, RecordsAssumption
    <3>4. QED
      BY <3>1, <3>2, <3>3, NothingFits
  <2>4. QED
    BY <2>2, <2>3 DEF FilesFit
<1>2. ParsesFit
  <2>1. parse = [f \in Files |-> NewParse]
    BY DEF Init
  <2>2. parse \in [Files -> ParseState]
    BY <2>1, NothingParsedType
  <2>3. QED
    BY <1>1, <2>1, <2>2, NotBegunFits DEF ParsesFit, NotBegun
<1>3. BufferFits
  BY DEF Init, BufferFits
<1>4. BundleFits
  BY DEF Init, BundleFits, NoBundle
<1>5. QED
  BY <1>1, <1>2, <1>3, <1>4 DEF IInv

-----------------------------------------------------------------------------
(* A record is written *)

\* What may be written after the records of a file.
LEMMA IdentifiedFits ==
  ASSUME FilesFit, NEW f \in Files, NEW r \in Records, NEW record \in Identified(f, r)
  PROVE  MayFollow(file[f], record)
<1>1. r \in AllRecords
  BY RecordsAssumption
<1>2. CASE r.kind # "assistant"
  BY <1>1, <1>2 DEF Identified, MayFollow
<1>3. CASE r.kind = "assistant"
  <2>1. r \in AssistantRecords
    BY <1>1, <1>3 DEF AllRecords, UserRecords, TornRecords, AssistantRecords
  <2>2. PICK id \in {NoID, Len(file[f]) + 1} \cup LastIDs(file[f], r.sidechain) :
             record = [r EXCEPT !.id = id]
    BY <1>3 DEF Identified
  <2>3. file[f] \in Seq(AllRecords) /\ Len(file[f]) \in Nat
    BY LenProperties DEF FilesFit
  <2>4. id \in Nat
    <3>1. ASSUME id \in LastIDs(file[f], r.sidechain) PROVE id \in Nat
      <4>1. PICK i \in Assistant(file[f], r.sidechain) : file[f][i].id = id
        BY <2>3, <3>1, LastIsWritten
      <4>2. IsAssistant(file[f], i)
        BY <4>1 DEF Assistant, IsAssistant
      <4>3. QED
        BY <2>3, <4>1, <4>2, AssistantType
    <3>2. QED
      BY <2>2, <2>3, <3>1 DEF NoID
  <2>5. record \in AssistantRecords /\ record.id = id /\ record.sidechain = r.sidechain
    BY <2>1, <2>2, <2>4 DEF AssistantRecords
  <2>6. QED
    BY <2>2, <2>5 DEF MayFollow, AllRecords
<1>4. QED
  BY <1>2, <1>3

\* The files and the scan fit together after it.
LEMMA WriteFiles ==
  ASSUME FilesFit, NEW f \in Files, NEW r \in Records, Write(f, r)
  PROVE  FilesFit'
<1>1. PICK record \in Identified(f, r) :
        /\ file' = [file EXCEPT ![f] = Append(file[f], record)]
        /\ scan' = [scan EXCEPT ![f] = ScanRecord(scan[f], record)]
  BY DEF Write
<1>2. file[f] \in Seq(AllRecords) /\ IDsFit(file[f]) /\ Len(file[f]) < MaxRecords
      /\ ScanFits(file[f], scan[f], ParsedTo(file[f], Len(file[f])))
  BY DEF FilesFit, Write
<1>3. PICK n \in Nat : n = Len(file[f])
  BY <1>2, LenProperties
<1>4. MayFollow(file[f], record)
  BY <1>1, IdentifiedFits
<1>5. PICK more : more = Append(file[f], record)
  OBVIOUS
<1>6. IsLonger(file[f], record, more)
  BY <1>2, <1>4, <1>5, Longer DEF MayFollow
<1>7. PICK s2 : s2 = ScanRecord(scan[f], record)
  OBVIOUS
<1>8. PICK q2 : q2 = ParsedOneMore(ParsedTo(file[f], n), record)
  OBVIOUS
<1>9. ScanFits(more, s2, q2)
  BY <1>2, <1>3, <1>4, <1>6, <1>7, <1>8, RecordStep
<1>10. IDsFit(more)
  BY <1>2, <1>4, <1>6, IDsStay
<1>11. Len(more) = n + 1 /\ more[n + 1] = record /\ more \in Seq(AllRecords)
       /\ \A i \in 1 .. n : more[i] = file[f][i]
  BY <1>3, <1>6 DEF IsLonger
<1>12. q2 = ParsedTo(more, Len(more))
  <2>1. ParsedTo(more, n) = ParsedTo(file[f], n)
    BY <1>11, ParsedSame
  <2>2. ParsedTo(more, n + 1) = ParsedOneMore(ParsedTo(more, n), more[n + 1])
    BY ParsedStep
  <2>3. QED
    BY <1>8, <1>11, <2>1, <2>2
<1>13. file' \in [Files -> Seq(AllRecords)] /\ scan' \in [Files -> ScanState]
  <2>1. s2 \in ScanState
    BY <1>9 DEF ScanFits
  <2>2. QED
    BY <1>1, <1>5, <1>7, <1>11, <2>1 DEF FilesFit
<1>14. ASSUME NEW g \in Files
       PROVE  /\ Len(file'[g]) <= MaxRecords /\ IDsFit(file'[g])
              /\ ScanFits(file'[g], scan'[g], ParsedTo(file'[g], Len(file'[g])))
  <2>1. CASE g = f
    <3>1. file'[g] = more /\ scan'[g] = s2
      BY <1>1, <1>5, <1>7, <2>1 DEF FilesFit
    <3>2. Len(more) <= MaxRecords
      BY <1>2, <1>3, <1>11, RecordsAssumption
    <3>3. QED
      BY <1>9, <1>10, <1>12, <3>1, <3>2
  <2>2. CASE g # f
    <3>1. file'[g] = file[g] /\ scan'[g] = scan[g]
      BY <1>1, <2>2 DEF FilesFit
    <3>2. QED
      BY <3>1 DEF FilesFit
  <2>3. QED
    BY <2>1, <2>2
<1>15. QED
  BY <1>13, <1>14 DEF FilesFit

\* Nothing is read yet.
LEMMA WriteFits ==
  ASSUME IInv, NEW f \in Files, NEW r \in Records, Write(f, r)
  PROVE  IInv'
<1>1. FilesFit'
  BY WriteFiles DEF IInv
<1>2. UNCHANGED <<phase, parse, buffer, bundle>> /\ phase = "writing"
  BY DEF Write
<1>3. parse = [g \in Files |-> NewParse] /\ parse \in [Files -> ParseState]
  BY <1>2 DEF IInv, ParsesFit
<1>4. ParsesFit'
  <2>1. NotBegun'
    BY <1>1, <1>2, <1>3 DEF NotBegun
  <2>2. AllParsesFit'
    BY <2>1, NotBegunFits, PTL
  <2>3. QED
    BY <1>2, <1>3, <2>2 DEF ParsesFit
<1>5. BufferFits'
  BY <1>2 DEF IInv, BufferFits
<1>6. BundleFits'
  BY <1>2 DEF IInv, BundleFits, NoBundle
<1>7. QED
  BY <1>1, <1>4, <1>5, <1>6 DEF IInv

\* The load begins.
LEMMA BeginFits ==
  ASSUME IInv, BeginLoad
  PROVE  IInv'
<1>1. /\ phase = "writing" /\ phase' = "parsing" /\ UNCHANGED <<file, scan, parse, bundle>>
      /\ buffer' = [i \in 1 .. Total |-> ZeroMessage]
  BY DEF BeginLoad
<1>2. FilesFit'
  BY <1>1 DEF IInv, FilesFit
<1>3. parse = [g \in Files |-> NewParse] /\ parse \in [Files -> ParseState]
  BY <1>1 DEF IInv, ParsesFit
<1>4. ParsesFit'
  <2>1. NotBegun'
    BY <1>1, <1>2, <1>3 DEF NotBegun
  <2>2. AllParsesFit'
    BY <2>1, NotBegunFits, PTL
  <2>3. QED
    BY <1>1, <1>3, <2>2 DEF ParsesFit
<1>5. BufferFits'
  <2>1. ZeroMessage \in Message
    <3>1. PICK no \in BOOLEAN : no = FALSE
      OBVIOUS
    <3>2. PICK r : r = [sidechain |-> no]
      OBVIOUS
    <3>3. ZeroMessage = NewMessage("", r)
      BY <3>1, <3>2 DEF ZeroMessage
    <3>4. ZeroMessage = [role |-> "", text |-> None, sidechain |-> r.sidechain, call |-> None,
             usage |-> NoID, paid |-> no, result |-> None, linked |-> no, bad |-> no, plan |-> None]
      BY <3>1, <3>3, PlainMessage
    <3>5. r.sidechain = no
      BY <3>2
    <3>6. QED
      BY <3>4, <3>5 DEF Message, NoID
  <2>2. PICK total \in Nat : total = Total
    <3>1. PICK g \in Files : TRUE
      BY DEF BeginLoad
    <3>2. QED
      BY PartInBuffer DEF IInv, FilesFit
  <2>3. Total' = total
    BY <1>1, <2>2 DEF Total, Counts
  <2>4. buffer' \in Seq(Message) /\ Len(buffer') = total
    BY <1>1, <2>1, <2>2
  <2>5. QED
    BY <1>1, <2>3, <2>4 DEF BufferFits
<1>6. BundleFits'
  BY <1>1 DEF IInv, BundleFits, NoBundle
<1>7. QED
  BY <1>2, <1>4, <1>5, <1>6 DEF IInv

-----------------------------------------------------------------------------
(* A goroutine reads a record *)

\* What a goroutine has is a sequence of messages, as many as it says.
LEMMA SliceIs ==
  ASSUME FilesFit, ParsesFit, BufferFits, phase # "writing", NEW f \in Files
  PROVE  Slice(f) \in Seq(Message) /\ Len(Slice(f)) = parse[f].len
<1>1. parse[f] \in ParseState /\ ParseFits(f) /\ scan \in [Files -> ScanState]
  BY DEF ParsesFit, AllParsesFit, FilesFit
<1>2. parse[f].len \in Nat /\ parse[f].own \in Seq(Message)
  BY <1>1 DEF ParseState
<1>3. CASE parse[f].detached
  <2>1. Slice(f) = parse[f].own
    BY <1>3 DEF Slice
  <2>2. Len(parse[f].own) = parse[f].len
    BY <1>1, <1>3 DEF ParseFits
  <2>3. QED
    BY <1>2, <2>1, <2>2
<1>4. CASE ~parse[f].detached
  <2>1. PICK o \in Nat : o = Offset(f)
    BY <1>1, PartInBuffer
  <2>2. PICK n \in Nat : n = parse[f].len
    BY <1>2
  <2>3. Slice(f) = SubSeq(buffer, o + 1, o + n)
    BY <1>4, <2>1, <2>2 DEF Slice
  <2>4. scan[f].count \in Nat /\ o + scan[f].count <= Total /\ Total \in Nat
    BY <1>1, <2>1, PartInBuffer
  <2>5. n <= scan[f].count
    BY <1>1, <1>4, <2>2 DEF ParseFits
  <2>6. buffer \in Seq(Message) /\ Len(buffer) = Total
    BY DEF BufferFits
  <2>7. \A i \in o + 1 .. o + n : i \in 1 .. Len(buffer)
    BY <2>4, <2>5, <2>6
  <2>8. SubSeq(buffer, o + 1, o + n) \in Seq(Message)
    BY <2>6, <2>7, SubSeqProperties
  <2>9. Len(SubSeq(buffer, o + 1, o + n)) = n
    BY <2>6, <2>7, SubSeqProperties
  <2>10. QED
    BY <2>2, <2>3, <2>8, <2>9
<1>5. QED
  BY <1>3, <1>4

\* Others keep what they have as long as their part is left alone.
LEMMA SliceStays ==
  ASSUME FilesFit, ParsesFit, UNCHANGED scan, NEW g \in Files, parse'[g] = parse[g],
         \A i \in Offset(g) + 1 .. Offset(g) + scan[g].count : buffer'[i] = buffer[i]
  PROVE  Slice(g)' = Slice(g)
<1>1. parse[g] \in ParseState /\ ParseFits(g) /\ scan \in [Files -> ScanState]
  BY DEF ParsesFit, AllParsesFit, FilesFit
<1>2. PICK n \in Nat : n = parse[g].len
  BY <1>1 DEF ParseState
<1>3. PICK o \in Nat : o = Offset(g)
  BY <1>1, PartInBuffer
<1>4. Offset(g)' = o
  BY <1>3 DEF Offset, Counts
<1>5. CASE parse[g].detached
  BY <1>5 DEF Slice
<1>6. CASE ~parse[g].detached
  <2>1. scan[g].count \in Nat
    BY <1>1 DEF ScanState
  <2>2. n <= scan[g].count
    BY <1>1, <1>2, <1>6 DEF ParseFits
  <2>3. \A i \in 1 .. (1 + (o + n) - (o + 1)) : i + (o + 1) - 1 \in o + 1 .. o + scan[g].count
    BY <2>1, <2>2
  <2>4. \A i \in 1 .. (1 + (o + n) - (o + 1)) : buffer'[i + (o + 1) - 1] = buffer[i + (o + 1) - 1]
    BY <1>3, <2>3
  <2>5. SubSeq(buffer', o + 1, o + n) = SubSeq(buffer, o + 1, o + n)
    BY <2>4
  <2>6. Slice(g) = SubSeq(buffer, o + 1, o + n) /\ Slice(g)' = SubSeq(buffer', o + 1, o + n)
    BY <1>2, <1>3, <1>4, <1>6 DEF Slice
  <2>7. QED
    BY <2>5, <2>6
<1>7. QED
  BY <1>5, <1>6

LEMMA OthersStay ==
  ASSUME FilesFit, ParsesFit, UNCHANGED <<file, scan>>, NEW g \in Files, parse'[g] = parse[g],
         \A i \in Offset(g) + 1 .. Offset(g) + scan[g].count : buffer'[i] = buffer[i]
  PROVE  ParseFits(g)'
<1>1. ParseFits(g) /\ Slice(g)' = Slice(g)
  BY SliceStays DEF ParsesFit, AllParsesFit
<1>2. ReadFits(g) => ReadFits(g)'
  BY <1>1 DEF ReadFits
<1>3. QED
  BY <1>1, <1>2 DEF ParseFits

\* What the reader has of a record that parses.
HasRead(f, r) ==
    /\ parse'[f].next = parse[f].next + 1
    /\ parse'[f].calls = IndexedCalls(parse[f].calls, r)
    /\ parse'[f].lastID = IndexedID(parse[f].lastID, r)
    /\ Slice(f)' = Slice(f) \o MessagesOf(parse[f], r)

LEMMA ReaderReads ==
  ASSUME FilesFit, ParsesFit, UNCHANGED file, NEW f \in Files,
         parse[f].status = "running", parse[f].next <= Len(file[f]),
         NEW r, r = file[f][parse[f].next], r.kind # "torn", HasRead(f, r)
  PROVE  ReadFits(f)'
<1>1. file[f] \in Seq(AllRecords) /\ parse[f] \in ParseState /\ ParseFits(f)
  BY DEF ParsesFit, AllParsesFit, FilesFit
<1>2. PICK m \in Nat : m = Len(file[f])
  BY <1>1, LenProperties
<1>3. ReadFits(f) /\ parse[f].next \in 1 .. m + 1
  BY <1>1, <1>2 DEF ParseFits
<1>4. PICK n \in 0 .. m : parse[f].next = n + 1 /\ n + 1 \in 1 .. m
  <2>1. PICK next \in 1 .. m : next = parse[f].next
    BY <1>2, <1>3
  <2>2. next - 1 \in 0 .. m /\ next = (next - 1) + 1
    OBVIOUS
  <2>3. QED
    BY <2>1, <2>2
<1>5. r = file[f][n + 1] /\ r \in AllRecords
  BY <1>1, <1>2, <1>4
<1>6. PICK q \in Parsed : q = ParsedTo(file[f], n)
  BY <1>1, <1>2, ParsedType
<1>7. parse[f].calls = q.parse.calls /\ parse[f].lastID = q.parse.lastID /\ Slice(f) = q.messages
      /\ \A i \in 1 .. n : file[f][i].kind # "torn"
  BY <1>3, <1>4, <1>6 DEF ReadFits
<1>8. PICK more : more = ParsedOneMore(q, r)
  OBVIOUS
<1>9. more = ParsedTo(file[f], n + 1)
  BY <1>4, <1>5, <1>6, <1>8, ParsedStep
<1>10. /\ more.parse.calls = IndexedCalls(q.parse.calls, r)
       /\ more.parse.lastID = IndexedID(q.parse.lastID, r)
       /\ more.messages = q.messages \o MessagesOf(q.parse, r)
  BY <1>5, <1>8, OneMoreType
<1>11. MessagesOf(parse[f], r) = MessagesOf(q.parse, r)
  BY <1>7, MessagesSame
<1>12. parse'[f].next - 1 = n + 1
  BY <1>4 DEF HasRead
<1>13. /\ parse'[f].calls = more.parse.calls /\ parse'[f].lastID = more.parse.lastID
       /\ Slice(f)' = more.messages
  BY <1>7, <1>10, <1>11 DEF HasRead
<1>14. \A i \in 1 .. n + 1 : file'[f][i].kind # "torn"
  <2> TAKE i \in 1 .. n + 1
  <2>1. CASE i = n + 1
    BY <1>5, <2>1
  <2>2. CASE i # n + 1
    BY <1>7, <2>2
  <2>3. QED
    BY <2>1, <2>2
<1>15. ParsedTo(file'[f], parse'[f].next - 1) = more
  BY <1>9, <1>12
<1>16. QED
  BY <1>12, <1>13, <1>14, <1>15 DEF ReadFits

\* What a record changes of a parse: next, the calls and the tracker.
LEMMA IndexedNext ==
  ASSUME NEW p0 \in ParseState, NEW r \in AllRecords, NEW p, p = [p0 EXCEPT !.next = p0.next + 1],
         NEW p2, p2 = Indexed(p, r)
  PROVE  /\ p2 \in ParseState /\ p2.next = p0.next + 1 /\ p2.len = p0.len
         /\ p2.detached = p0.detached /\ p2.own = p0.own /\ p2.status = p0.status
         /\ p2.calls = IndexedCalls(p0.calls, r) /\ p2.lastID = IndexedID(p0.lastID, r)
         /\ MessagesOf(p, r) = MessagesOf(p0, r)
<1>1. /\ p \in ParseState /\ p.next = p0.next + 1 /\ p.len = p0.len
      /\ p.detached = p0.detached /\ p.own = p0.own /\ p.status = p0.status
      /\ p.calls = p0.calls /\ p.lastID = p0.lastID
  <2>1. PICK next \in Nat : next = p0.next + 1
    BY DEF ParseState
  <2>2. p = [p0 EXCEPT !.next = next]
    BY <2>1
  <2>3. QED
    BY <2>1, <2>2 DEF ParseState
<1>2. PICK calls \in SUBSET (Calls \ {None}) : calls = IndexedCalls(p0.calls, r)
  BY IndexedType
<1>3. PICK lastID \in [BOOLEAN -> Nat] : lastID = IndexedID(p0.lastID, r)
  BY IndexedType
<1>4. p2 = [p EXCEPT !.calls = calls, !.lastID = lastID]
  <2>1. p \in ParseState
    BY <1>1
  <2>2. p2 = [p EXCEPT !.calls = IndexedCalls(p.calls, r), !.lastID = IndexedID(p.lastID, r)]
    BY <2>1, IndexedIs
  <2>3. QED
    BY <1>1, <1>2, <1>3, <2>2, Zenon
<1>5. MessagesOf(p, r) = MessagesOf(p0, r)
  BY <1>1, MessagesSame
<1>6. QED
  BY <1>1, <1>2, <1>3, <1>4, <1>5 DEF ParseState

\* What holds of a parse apart from what has been read.
RoomFits(f) ==
    /\ parse[f].next \in 1 .. (Len(file[f]) + 1)
    /\ parse[f].len <= parse[f].next - 1
    /\ IF parse[f].detached THEN Len(parse[f].own) = parse[f].len /\ scan[f].count < parse[f].len
                            ELSE parse[f].len <= scan[f].count
    /\ parse[f].status = "ok" => parse[f].next = Len(file[f]) + 1

\* A step of one goroutine leaves the rest of the state as it should be.
LEMMA OneReads ==
  ASSUME IInv, UNCHANGED <<file, scan, phase, bundle>>, phase = "parsing",
         NEW f \in Files, NEW p \in ParseState, parse' = [parse EXCEPT ![f] = p],
         buffer' \in Seq(Message), Len(buffer') = Len(buffer),
         \A g \in Files : g # f =>
            \A i \in Offset(g) + 1 .. Offset(g) + scan[g].count : buffer'[i] = buffer[i],
         ParseFits(f)'
  PROVE  IInv'
<1>1. FilesFit /\ ParsesFit /\ BufferFits /\ BundleFits
  BY DEF IInv
<1>2. FilesFit'
  BY <1>1 DEF FilesFit
<1>3. ParsesFit'
  <2>1. parse \in [Files -> ParseState]
    BY <1>1 DEF ParsesFit
  <2>2. parse' \in [Files -> ParseState]
    BY <2>1
  <2>3. ASSUME NEW g \in Files PROVE ParseFits(g)'
    <3>1. CASE g = f
      BY <3>1
    <3>2. CASE g # f
      <4>1. parse'[g] = parse[g]
        BY <2>1, <3>2
      <4>2. QED
        BY <1>1, <3>2, <4>1, OthersStay
    <3>3. QED
      BY <3>1, <3>2
  <2>4. QED
    BY <2>2, <2>3 DEF ParsesFit, AllParsesFit
<1>4. BufferFits'
  <2>1. Total' = Total
    BY DEF Total, Counts
  <2>2. QED
    BY <1>1, <2>1 DEF BufferFits
<1>5. BundleFits'
  BY <1>1 DEF BundleFits, NoBundle
<1>6. QED
  BY <1>2, <1>3, <1>4, <1>5 DEF IInv

\* A goroutine that stops, or reads a record that shows nothing, leaves the buffer alone.
LEMMA BufferAlone ==
  ASSUME IInv, UNCHANGED <<file, scan, phase, bundle, buffer>>, phase = "parsing",
         NEW f \in Files, NEW p \in ParseState, parse' = [parse EXCEPT ![f] = p],
         ParseFits(f)'
  PROVE  IInv'
<1>1. buffer' \in Seq(Message) /\ Len(buffer') = Len(buffer)
  BY DEF IInv, BufferFits
<1>2. QED
  BY <1>1, OneReads

LEMMA FinishFits ==
  ASSUME IInv, NEW f \in Files, FinishParse(f)
  PROVE  IInv'
<1>1. /\ phase = "parsing" /\ parse[f].status = "running" /\ parse[f].next > Len(file[f])
      /\ parse' = [parse EXCEPT ![f].status = "ok"]
      /\ UNCHANGED <<file, scan, phase, buffer, bundle>>
  BY DEF FinishParse
<1>2. parse \in [Files -> ParseState] /\ parse[f] \in ParseState /\ ParseFits(f)
  BY DEF IInv, ParsesFit, AllParsesFit
<1>3. PICK p : p = [parse[f] EXCEPT !.status = "ok"]
  OBVIOUS
<1>4. /\ p \in ParseState /\ p.status = "ok" /\ p.next = parse[f].next /\ p.len = parse[f].len
      /\ p.detached = parse[f].detached /\ p.own = parse[f].own
      /\ p.calls = parse[f].calls /\ p.lastID = parse[f].lastID
  BY <1>2, <1>3 DEF ParseState
<1>5. parse' = [parse EXCEPT ![f] = p] /\ parse'[f] = p
  BY <1>1, <1>2, <1>3
<1>6. ReadFits(f) /\ parse[f].next \in 1 .. Len(file[f]) + 1
  BY <1>1, <1>2 DEF ParseFits
<1>7. Slice(f)' = Slice(f)
  <2>1. Offset(f)' = Offset(f)
    BY <1>1 DEF Offset, Counts
  <2>2. QED
    BY <1>1, <1>4, <1>5, <2>1 DEF Slice
<1>8. ReadFits(f)'
  BY <1>1, <1>4, <1>5, <1>6, <1>7 DEF ReadFits
<1>9. RoomFits(f)'
  <2>1. parse[f].next = Len(file[f]) + 1
    <3>1. file[f] \in Seq(AllRecords)
      BY DEF IInv, FilesFit
    <3>2. Len(file[f]) \in Nat
      BY <3>1, LenProperties
    <3>3. QED
      BY <1>1, <1>6, <3>2
  <2>2. QED
    BY <1>1, <1>2, <1>4, <1>5, <1>6, <2>1 DEF RoomFits, ParseFits
<1>10. ParseFits(f)'
  BY <1>8, <1>9 DEF ParseFits, RoomFits
<1>11. QED
  BY <1>1, <1>4, <1>5, <1>10, BufferAlone

\* A goroutine that may read a record, and the record.
MayRead(f, r) ==
    /\ phase = "parsing" /\ parse[f].status = "running"
    /\ parse[f].next <= Len(file[f]) /\ r = file[f][parse[f].next]
    /\ UNCHANGED <<file, scan, phase, bundle>>

LEMMA ReaderIs ==
  ASSUME IInv, NEW f \in Files, NEW r, MayRead(f, r)
  PROVE  /\ FilesFit /\ ParsesFit /\ BufferFits
         /\ parse \in [Files -> ParseState] /\ parse[f] \in ParseState /\ ParseFits(f)
         /\ r \in AllRecords /\ Len(file[f]) \in Nat /\ parse[f].next \in 1 .. Len(file[f])
         /\ parse[f].len \in Nat /\ parse[f].len <= parse[f].next - 1
         /\ scan[f].count \in Nat
         /\ Offset(f)' = Offset(f) /\ Total' = Total
<1>1. FilesFit /\ ParsesFit /\ BufferFits
  BY DEF IInv
<1>2. parse \in [Files -> ParseState] /\ parse[f] \in ParseState /\ ParseFits(f)
      /\ file[f] \in Seq(AllRecords) /\ scan[f] \in ScanState
  BY <1>1 DEF ParsesFit, AllParsesFit, FilesFit
<1>3. Len(file[f]) \in Nat
  BY <1>2, LenProperties
<1>4. parse[f].next \in 1 .. Len(file[f]) + 1 /\ parse[f].len <= parse[f].next - 1
  BY <1>2 DEF ParseFits
<1>5. parse[f].next \in 1 .. Len(file[f])
  BY <1>3, <1>4 DEF MayRead
<1>6. r \in AllRecords
  BY <1>2, <1>5 DEF MayRead
<1>7. parse[f].len \in Nat /\ scan[f].count \in Nat
  BY <1>2 DEF ParseState, ScanState
<1>8. Offset(f)' = Offset(f) /\ Total' = Total
  BY DEF MayRead, Offset, Total, Counts
<1>9. QED
  BY <1>1, <1>2, <1>3, <1>4, <1>5, <1>6, <1>7, <1>8

\* A line is torn: the goroutine fails.
LEMMA TornFits ==
  ASSUME IInv, NEW f \in Files, NEW r, MayRead(f, r), UNCHANGED buffer,
         NEW p, p = [parse[f] EXCEPT !.next = parse[f].next + 1],
         parse' = [parse EXCEPT ![f] = [p EXCEPT !.status = "failed"]]
  PROVE  IInv'
<1>1. parse \in [Files -> ParseState] /\ parse[f] \in ParseState /\ ParseFits(f)
      /\ Len(file[f]) \in Nat /\ parse[f].next \in 1 .. Len(file[f])
      /\ parse[f].len \in Nat /\ parse[f].len <= parse[f].next - 1
  BY ReaderIs
<1>2. PICK next \in Nat : next = parse[f].next + 1
  BY <1>1
<1>3. PICK p2 : p2 = [p EXCEPT !.status = "failed"]
  OBVIOUS
<1>4. /\ p2 \in ParseState /\ p2.status = "failed" /\ p2.next = next /\ p2.len = parse[f].len
      /\ p2.detached = parse[f].detached /\ p2.own = parse[f].own
  <2>1. p = [parse[f] EXCEPT !.next = next]
    BY <1>2
  <2>2. QED
    BY <1>1, <1>3, <2>1 DEF ParseState
<1>5. parse' = [parse EXCEPT ![f] = p2] /\ parse'[f] = p2
  BY <1>1, <1>3
<1>6. UNCHANGED <<file, scan, phase, bundle, buffer>> /\ phase = "parsing"
  BY DEF MayRead
<1>7. p2.next \in 1 .. Len(file[f]) + 1 /\ p2.len <= p2.next - 1
  BY <1>1, <1>2, <1>4
<1>8. ParseFits(f)'
  <2>1. IF parse[f].detached THEN Len(parse[f].own) = parse[f].len /\ scan[f].count < parse[f].len
                             ELSE parse[f].len <= scan[f].count
    BY <1>1 DEF ParseFits
  <2>2. QED
    BY <1>4, <1>5, <1>6, <1>7, <2>1 DEF ParseFits
<1>9. QED
  BY <1>4, <1>5, <1>6, <1>8, BufferAlone

\* A record shows nothing.
LEMMA QuietFits ==
  ASSUME IInv, NEW f \in Files, NEW r, MayRead(f, r), r.kind # "torn", UNCHANGED buffer,
         NEW p, p = [parse[f] EXCEPT !.next = parse[f].next + 1],
         MessagesOf(p, r) = <<>>, parse' = [parse EXCEPT ![f] = Indexed(p, r)]
  PROVE  IInv'
<1>1. /\ FilesFit /\ ParsesFit /\ BufferFits
      /\ parse \in [Files -> ParseState] /\ parse[f] \in ParseState /\ ParseFits(f)
      /\ Len(file[f]) \in Nat /\ parse[f].next \in 1 .. Len(file[f])
      /\ parse[f].len \in Nat /\ parse[f].len <= parse[f].next - 1
      /\ r \in AllRecords /\ Offset(f)' = Offset(f)
  BY ReaderIs
<1>2. PICK p2 : p2 = Indexed(p, r)
  OBVIOUS
<1>3. /\ p2 \in ParseState /\ p2.next = parse[f].next + 1 /\ p2.len = parse[f].len
      /\ p2.detached = parse[f].detached /\ p2.own = parse[f].own /\ p2.status = parse[f].status
      /\ p2.calls = IndexedCalls(parse[f].calls, r) /\ p2.lastID = IndexedID(parse[f].lastID, r)
      /\ MessagesOf(p, r) = MessagesOf(parse[f], r)
  BY <1>1, <1>2, IndexedNext
<1>4. parse' = [parse EXCEPT ![f] = p2] /\ parse'[f] = p2
  BY <1>1, <1>2
<1>5. /\ UNCHANGED <<file, scan, phase, bundle, buffer>> /\ phase = "parsing"
      /\ parse[f].status = "running" /\ r = file[f][parse[f].next]
  BY DEF MayRead
<1>6. Slice(f)' = Slice(f)
  BY <1>1, <1>3, <1>4, <1>5 DEF Slice
<1>7. HasRead(f, r)
  <2>1. Slice(f) \in Seq(Message)
    BY <1>1, <1>5, SliceIs
  <2>2. Slice(f) \o <<>> = Slice(f)
    BY <2>1, ConcatEmptySeq
  <2>3. QED
    BY <1>3, <1>4, <1>6, <2>2 DEF HasRead
<1>8. ReadFits(f)'
  BY <1>1, <1>5, <1>7, ReaderReads
<1>9. p2.next \in 1 .. Len(file[f]) + 1 /\ p2.len <= p2.next - 1
  BY <1>1, <1>3
<1>10. RoomFits(f)'
  <2>1. IF parse[f].detached THEN Len(parse[f].own) = parse[f].len /\ scan[f].count < parse[f].len
                             ELSE parse[f].len <= scan[f].count
    BY <1>1 DEF ParseFits
  <2>2. QED
    BY <1>3, <1>4, <1>5, <1>9, <2>1 DEF RoomFits
<1>11. ParseFits(f)'
  BY <1>8, <1>10 DEF ParseFits, RoomFits
<1>12. QED
  BY <1>3, <1>4, <1>5, <1>11, BufferAlone

\* A message more in the part of the buffer.
IsPartLonger(s, msg, o, n, more) ==
    /\ more \in Seq(Message) /\ Len(more) = Len(s)
    /\ SubSeq(more, o + 1, o + (n + 1)) = SubSeq(s, o + 1, o + n) \o <<msg>>

LEMMA PartLonger ==
  ASSUME NEW s \in Seq(Message), NEW msg \in Message, NEW o \in Nat, NEW n \in Nat,
         o + n + 1 <= Len(s), NEW more, more = [s EXCEPT ![o + n + 1] = msg]
  PROVE  IsPartLonger(s, msg, o, n, more)
<1>1. PICK m \in Nat : m = Len(s)
  BY LenProperties
<1>2. o + n + 1 \in 1 .. m
  BY <1>1
<1>3. more \in Seq(Message) /\ Len(more) = m /\ more[o + n + 1] = msg
      /\ \A i \in 1 .. m : i # o + n + 1 => more[i] = s[i]
  BY <1>1, <1>2
<1>4. PICK part : part = SubSeq(s, o + 1, o + n)
  OBVIOUS
<1>5. \A i \in o + 1 .. o + n : i \in 1 .. Len(s)
  BY <1>1
<1>6. part \in Seq(Message) /\ Len(part) = n /\ \A i \in 1 .. n : part[i] = s[o + i]
  <2>1. part = [i \in 1 .. (1 + (o + n) - (o + 1)) |-> s[i + (o + 1) - 1]]
    BY <1>4
  <2>2. 1 + (o + n) - (o + 1) = n /\ \A i \in 1 .. n : i + (o + 1) - 1 = o + i
    OBVIOUS
  <2>3. \A i \in 1 .. n : part[i] = s[o + i]
    BY <2>1, <2>2
  <2>4. part \in Seq(Message)
    BY <1>4, <1>5, SubSeqProperties
  <2>5. Len(part) = n
    BY <1>4, <1>5, SubSeqProperties
  <2>6. QED
    BY <2>3, <2>4, <2>5
<1>7. PICK both : both = part \o <<msg>>
  OBVIOUS
<1>8. both \in Seq(Message) /\ Len(both) = n + 1 /\ both[n + 1] = msg
      /\ \A i \in 1 .. n : both[i] = part[i]
  <2>1. part \in Seq(Message) /\ Len(part) = n /\ both = part \o <<msg>>
    BY <1>6, <1>7
  <2>2. MessageAdded(part, msg, both)
    BY <2>1, MessageMore
  <2>3. QED
    BY <2>1, <2>2 DEF MessageAdded
<1>9. PICK longer : longer = SubSeq(more, o + 1, o + (n + 1))
  OBVIOUS
<1>10. longer \in Seq(Message) /\ Len(longer) = n + 1 /\ \A i \in 1 .. n + 1 : longer[i] = more[o + i]
  <2>1. longer = [i \in 1 .. (1 + (o + (n + 1)) - (o + 1)) |-> more[i + (o + 1) - 1]]
    BY <1>9
  <2>2. 1 + (o + (n + 1)) - (o + 1) = n + 1 /\ \A i \in 1 .. n + 1 : i + (o + 1) - 1 = o + i
    OBVIOUS
  <2>3. \A i \in 1 .. n + 1 : longer[i] = more[o + i]
    BY <2>1, <2>2
  <2>4. \A i \in o + 1 .. o + (n + 1) : i \in 1 .. Len(more)
    BY <1>1, <1>3
  <2>5. longer \in Seq(Message)
    BY <1>3, <1>9, <2>4, SubSeqProperties
  <2>6. Len(longer) = n + 1
    BY <1>3, <1>9, <2>4, SubSeqProperties
  <2>7. QED
    BY <2>3, <2>5, <2>6
<1>11. \A i \in 1 .. n + 1 : longer[i] = both[i]
  <2> TAKE i \in 1 .. n + 1
  <2>1. CASE i = n + 1
    BY <1>3, <1>8, <1>10, <2>1
  <2>2. CASE i # n + 1
    <3>1. i \in 1 .. n /\ o + i \in 1 .. m /\ o + i # o + n + 1
      BY <1>2, <2>2
    <3>2. QED
      BY <1>3, <1>6, <1>8, <1>10, <3>1
  <2>3. QED
    BY <2>1, <2>2
<1>12. longer = both
  BY <1>8, <1>10, <1>11, SeqEqual
<1>13. QED
  BY <1>1, <1>3, <1>4, <1>7, <1>9, <1>12 DEF IsPartLonger

\* The parse with a message more.
Reads(f, r, msg, p2) ==
    /\ p2 \in ParseState /\ p2.next = parse[f].next + 1 /\ p2.len = parse[f].len
    /\ p2.detached = parse[f].detached /\ p2.own = parse[f].own /\ p2.status = parse[f].status
    /\ p2.calls = IndexedCalls(parse[f].calls, r) /\ p2.lastID = IndexedID(parse[f].lastID, r)
    /\ msg \in Message /\ MessagesOf(parse[f], r) = <<msg>>

\* It is written in place,
LEMMA InPlaceFits ==
  ASSUME IInv, NEW f \in Files, NEW r, MayRead(f, r), r.kind # "torn",
         NEW p2, NEW msg, Reads(f, r, msg, p2), ~p2.detached, p2.len < scan[f].count,
         buffer' = [buffer EXCEPT ![Offset(f) + p2.len + 1] = msg],
         parse' = [parse EXCEPT ![f] = [p2 EXCEPT !.len = p2.len + 1]]
  PROVE  IInv'
<1>1. /\ FilesFit /\ ParsesFit /\ BufferFits
      /\ parse \in [Files -> ParseState] /\ parse[f] \in ParseState /\ ParseFits(f)
      /\ Len(file[f]) \in Nat /\ parse[f].next \in 1 .. Len(file[f])
      /\ parse[f].len \in Nat /\ parse[f].len <= parse[f].next - 1
      /\ Offset(f)' = Offset(f) /\ scan[f].count \in Nat
  BY ReaderIs
<1>2. /\ UNCHANGED <<file, scan, phase, bundle>> /\ phase = "parsing"
      /\ parse[f].status = "running" /\ r = file[f][parse[f].next]
  BY DEF MayRead
<1>3. /\ p2 \in ParseState /\ p2.next = parse[f].next + 1 /\ p2.len = parse[f].len
      /\ p2.detached = parse[f].detached /\ p2.own = parse[f].own /\ p2.status = parse[f].status
      /\ p2.calls = IndexedCalls(parse[f].calls, r) /\ p2.lastID = IndexedID(parse[f].lastID, r)
      /\ msg \in Message /\ MessagesOf(parse[f], r) = <<msg>>
  BY DEF Reads
<1>4. PICK n \in Nat : n = parse[f].len
  BY <1>1
<1>5. PICK len \in Nat : len = n + 1
  OBVIOUS
<1>6. PICK p3 : p3 = [p2 EXCEPT !.len = len]
  OBVIOUS
<1>7. /\ p3 \in ParseState /\ p3.next = p2.next /\ p3.len = len
      /\ p3.detached = p2.detached /\ p3.own = p2.own /\ p3.status = p2.status
      /\ p3.calls = p2.calls /\ p3.lastID = p2.lastID
  BY <1>3, <1>6 DEF ParseState
<1>8. parse' = [parse EXCEPT ![f] = p3] /\ parse'[f] = p3
  BY <1>1, <1>3, <1>4, <1>5, <1>6
<1>9. scan \in [Files -> ScanState]
  BY <1>1 DEF FilesFit
<1>10. PICK o \in Nat : o = Offset(f) /\ o + scan[f].count <= Total /\ Total \in Nat
  BY <1>9, PartInBuffer
<1>11. buffer \in Seq(Message) /\ Len(buffer) = Total
  BY <1>1, <1>2 DEF BufferFits
<1>12. n < scan[f].count
  BY <1>3, <1>4
<1>13. o + n + 1 <= Len(buffer)
  BY <1>1, <1>10, <1>11, <1>12
<1>14. buffer' = [buffer EXCEPT ![o + n + 1] = msg]
  BY <1>3, <1>4, <1>10
<1>15. /\ buffer' \in Seq(Message) /\ Len(buffer') = Len(buffer)
       /\ SubSeq(buffer', o + 1, o + (n + 1)) = SubSeq(buffer, o + 1, o + n) \o <<msg>>
  <2>1. IsPartLonger(buffer, msg, o, n, buffer')
    BY <1>3, <1>11, <1>13, <1>14, PartLonger
  <2>2. QED
    BY <2>1, Zenon DEF IsPartLonger
<1>16. ASSUME NEW g \in Files, g # f,
              NEW i \in Offset(g) + 1 .. Offset(g) + scan[g].count
       PROVE  buffer'[i] = buffer[i]
  <2>1. PICK k \in Nat : k = Offset(g)
    BY <1>9, PartInBuffer
  <2>2. PICK c \in Nat : c = scan[g].count /\ k + c <= Total
    BY <1>9, <2>1, PartInBuffer
  <2>3. PICK d \in Nat : d = scan[f].count /\ n < d
    BY <1>1, <1>12
  <2>4. o + d <= k \/ k + c <= o
    BY <1>9, <1>10, <1>16, <2>1, <2>2, <2>3, PartsApart
  <2>5. i \in k + 1 .. k + c
    BY <1>16, <2>1, <2>2
  <2>6. i \in 1 .. Total
    BY <1>10, <2>2, <2>5
  <2>7. i # o + n + 1
    BY <2>3, <2>4, <2>5
  <2>8. QED
    BY <1>11, <1>14, <2>6, <2>7
<1>17. HasRead(f, r)
  <2>1. Slice(f) = SubSeq(buffer, o + 1, o + n)
    BY <1>3, <1>4, <1>10 DEF Slice
  <2>2. Slice(f)' = SubSeq(buffer', o + 1, o + (n + 1))
    BY <1>1, <1>3, <1>5, <1>7, <1>8, <1>10 DEF Slice
  <2>3. Slice(f)' = Slice(f) \o MessagesOf(parse[f], r)
    BY <1>3, <1>15, <2>1, <2>2
  <2>4. QED
    BY <1>3, <1>7, <1>8, <2>3 DEF HasRead
<1>18. ReadFits(f)'
  BY <1>1, <1>2, <1>17, ReaderReads DEF MayRead
<1>19. p3.next \in 1 .. Len(file[f]) + 1 /\ p3.len <= p3.next - 1 /\ p3.len <= scan[f].count
  BY <1>1, <1>3, <1>4, <1>5, <1>7, <1>12, SMTT(30)
<1>20. ParseFits(f)'
  BY <1>2, <1>3, <1>7, <1>8, <1>18, <1>19 DEF ParseFits
<1>21. QED
  BY <1>2, <1>7, <1>8, <1>15, <1>16, <1>20, OneReads

\* or the slice moves away from the buffer, which stays.
LEMMA MovedFits ==
  ASSUME IInv, NEW f \in Files, NEW r, MayRead(f, r), r.kind # "torn",
         NEW p2, NEW msg, Reads(f, r, msg, p2), ~(~p2.detached /\ p2.len < scan[f].count),
         UNCHANGED buffer,
         parse' = [parse EXCEPT ![f] = [p2 EXCEPT !.detached = TRUE, !.own = Append(Slice(f), msg),
                                                  !.len = p2.len + 1]]
  PROVE  IInv'
<1>1. /\ FilesFit /\ ParsesFit /\ BufferFits
      /\ parse \in [Files -> ParseState] /\ parse[f] \in ParseState /\ ParseFits(f)
      /\ Len(file[f]) \in Nat /\ parse[f].next \in 1 .. Len(file[f])
      /\ parse[f].len \in Nat /\ parse[f].len <= parse[f].next - 1
      /\ scan[f].count \in Nat
  BY ReaderIs
<1>2. /\ UNCHANGED <<file, scan, phase, bundle, buffer>> /\ phase = "parsing"
      /\ parse[f].status = "running" /\ r = file[f][parse[f].next]
  BY DEF MayRead
<1>3. /\ p2 \in ParseState /\ p2.next = parse[f].next + 1 /\ p2.len = parse[f].len
      /\ p2.detached = parse[f].detached /\ p2.own = parse[f].own /\ p2.status = parse[f].status
      /\ p2.calls = IndexedCalls(parse[f].calls, r) /\ p2.lastID = IndexedID(parse[f].lastID, r)
      /\ msg \in Message /\ MessagesOf(parse[f], r) = <<msg>>
  BY DEF Reads
<1>4. PICK n \in Nat : n = parse[f].len
  BY <1>1
<1>5. PICK len \in Nat : len = n + 1
  OBVIOUS
<1>6. Slice(f) \in Seq(Message) /\ Len(Slice(f)) = n
  BY <1>1, <1>2, <1>4, SliceIs
<1>7. PICK own : own = Append(Slice(f), msg)
  OBVIOUS
<1>8. own \in Seq(Message) /\ Len(own) = len /\ own = Slice(f) \o <<msg>>
  BY <1>3, <1>5, <1>6, <1>7, AppendProperties, AppendIsConcat
<1>9. PICK yes \in BOOLEAN : yes = TRUE
  OBVIOUS
<1>10. PICK p3 : p3 = [p2 EXCEPT !.detached = yes, !.own = own, !.len = len]
  OBVIOUS
<1>11. /\ p3 \in ParseState /\ p3.next = p2.next /\ p3.len = len
       /\ p3.detached = yes /\ p3.own = own /\ p3.status = p2.status
       /\ p3.calls = p2.calls /\ p3.lastID = p2.lastID
  BY <1>3, <1>8, <1>10 DEF ParseState
<1>12. parse' = [parse EXCEPT ![f] = p3] /\ parse'[f] = p3
  <2>1. p2.len + 1 = len
    BY <1>3, <1>4, <1>5
  <2>2. [p2 EXCEPT !.detached = TRUE, !.own = Append(Slice(f), msg), !.len = p2.len + 1] = p3
    BY <1>7, <1>9, <1>10, <2>1, Zenon
  <2>3. QED
    BY <1>1, <2>2
<1>13. scan[f].count < len
  <2>1. CASE parse[f].detached
    <3>1. scan[f].count < n
      BY <1>1, <1>4, <2>1 DEF ParseFits
    <3>2. QED
      BY <1>1, <1>5, <3>1
  <2>2. CASE ~parse[f].detached
    <3>1. ~(n < scan[f].count)
      BY <1>3, <1>4, <2>2
    <3>2. QED
      BY <1>1, <1>5, <3>1
  <2>3. QED
    BY <2>1, <2>2
<1>14. HasRead(f, r)
  <2>1. Slice(f)' = own
    BY <1>9, <1>11, <1>12 DEF Slice
  <2>2. QED
    BY <1>3, <1>8, <1>11, <1>12, <2>1 DEF HasRead
<1>15. ReadFits(f)'
  BY <1>1, <1>2, <1>14, ReaderReads DEF MayRead
<1>16. p3.next \in 1 .. Len(file[f]) + 1 /\ p3.len <= p3.next - 1
  BY <1>1, <1>3, <1>4, <1>5, <1>11
<1>17. ParseFits(f)'
  BY <1>2, <1>3, <1>8, <1>9, <1>11, <1>12, <1>13, <1>15, <1>16 DEF ParseFits
<1>18. QED
  BY <1>2, <1>11, <1>12, <1>17, BufferAlone

LEMMA ParseRecordFits ==
  ASSUME IInv, NEW f \in Files, ParseRecord(f)
  PROVE  IInv'
<1>1. PICK r : r = file[f][parse[f].next]
  OBVIOUS
<1>2. PICK p : p = [parse[f] EXCEPT !.next = parse[f].next + 1]
  OBVIOUS
<1>3. MayRead(f, r)
  BY <1>1 DEF ParseRecord, MayRead
<1>4. r \in AllRecords /\ parse[f] \in ParseState
  BY <1>3, ReaderIs
<1>5. IF r.kind = "torn"
      THEN parse' = [parse EXCEPT ![f] = [p EXCEPT !.status = "failed"]] /\ UNCHANGED buffer
      ELSE IF MessagesOf(p, r) = <<>>
      THEN parse' = [parse EXCEPT ![f] = Indexed(p, r)] /\ UNCHANGED buffer
      ELSE AppendMessage(f, Indexed(p, r), Head(MessagesOf(p, r)))
  BY <1>1, <1>2, Zenon DEF ParseRecord
<1>6. CASE r.kind = "torn"
  BY <1>2, <1>3, <1>5, <1>6, TornFits
<1>7. CASE r.kind # "torn" /\ MessagesOf(p, r) = <<>>
  BY <1>2, <1>3, <1>5, <1>7, QuietFits
<1>8. CASE r.kind # "torn" /\ MessagesOf(p, r) # <<>>
  <2>1. PICK p2 : p2 = Indexed(p, r)
    OBVIOUS
  <2>2. PICK msg \in Message : MessagesOf(p, r) = <<msg>>
    BY <1>4, <1>8, MessagesType DEF IsOneOrNone
  <2>3. Head(MessagesOf(p, r)) = msg
    BY <2>2
  <2>4. Reads(f, r, msg, p2)
    BY <1>2, <1>4, <2>1, <2>2, IndexedNext DEF Reads
  <2>5. AppendMessage(f, p2, msg)
    BY <1>5, <1>8, <2>1, <2>3, Zenon
  <2>6. CASE ~p2.detached /\ p2.len < scan[f].count
    <3>1. /\ buffer' = [buffer EXCEPT ![Offset(f) + p2.len + 1] = msg]
          /\ parse' = [parse EXCEPT ![f] = [p2 EXCEPT !.len = p2.len + 1]]
      BY <2>5, <2>6, Zenon DEF AppendMessage
    <3>2. QED
      BY <1>3, <1>8, <2>4, <2>6, <3>1, InPlaceFits
  <2>7. CASE ~(~p2.detached /\ p2.len < scan[f].count)
    <3>1. /\ parse' = [parse EXCEPT ![f] = [p2 EXCEPT !.detached = TRUE,
                                               !.own = Append(Slice(f), msg), !.len = p2.len + 1]]
          /\ UNCHANGED buffer
      BY <2>5, <2>7, Zenon DEF AppendMessage
    <3>2. QED
      BY <1>3, <1>8, <2>4, <2>7, <3>1, MovedFits
  <2>8. QED
    BY <2>6, <2>7
<1>9. QED
  BY <1>6, <1>7, <1>8

-----------------------------------------------------------------------------
(* The invariant *)

\* What the goroutines have depends on these variables.
LEMMA ReadSame ==
  ASSUME UNCHANGED <<file, scan, parse, buffer>>
  PROVE  /\ Slices' = Slices /\ Exact' = Exact /\ Total' = Total
         /\ CollectProjectedConversation' = CollectProjectedConversation
         /\ \A f \in Files : Slice(f)' = Slice(f)
<1>1. Total' = Total /\ \A f \in Files : Offset(f)' = Offset(f)
  BY DEF Total, Offset, Counts
<1>2. Exact' = Exact
  BY DEF Exact
<1>3. ASSUME NEW f \in Files PROVE Slice(f)' = Slice(f)
  BY <1>1 DEF Slice
<1>4. Slices' = Slices
  <2>1. \A i \in 1 .. Len(Sessions) : Slice(Sessions[i])' = Slice(Sessions[i])
    BY <1>3, PlaceOf
  <2>2. QED
    BY <2>1 DEF Slices
<1>5. QED
  BY <1>1, <1>2, <1>3, <1>4 DEF CollectProjectedConversation

\* The load ends.
LEMMA EndFits ==
  ASSUME IInv, EndLoad
  PROVE  IInv'
<1>1. /\ phase = "parsing" /\ phase' = "done" /\ UNCHANGED <<file, scan, parse, buffer>>
      /\ \A f \in Files : parse[f].status # "running"
  BY DEF EndLoad
<1>2. FilesFit' /\ (\A f \in Files : parse[f] \in ParseState)
  BY <1>1 DEF IInv, FilesFit, ParsesFit
<1>3. /\ Slices' = Slices /\ Total' = Total
      /\ CollectProjectedConversation' = CollectProjectedConversation
      /\ \A f \in Files : Slice(f)' = Slice(f)
  BY <1>1, ReadSame
<1>4. ParsesFit'
  <2>1. ASSUME NEW f \in Files PROVE ParseFits(f)'
    <3>1. ParseFits(f)
      BY DEF IInv, ParsesFit, AllParsesFit
    <3>2. ReadFits(f) => ReadFits(f)'
      BY <1>1, <1>3 DEF ReadFits
    <3>3. QED
      BY <1>1, <3>1, <3>2 DEF ParseFits
  <2>2. QED
    BY <1>1, <2>1 DEF IInv, ParsesFit, AllParsesFit
<1>5. BufferFits'
  BY <1>1, <1>3 DEF IInv, BufferFits
<1>6. BundleFits'
  <2>1. CASE \E f \in Files : parse[f].status = "failed"
    <3>1. bundle' = [NoBundle EXCEPT !.outcome = "malformed"]
      BY <2>1 DEF EndLoad
    <3>2. bundle'.outcome = "malformed"
      BY <3>1 DEF NoBundle
    <3>3. QED
      BY <1>1, <3>2 DEF BundleFits
  <2>2. CASE ~\E f \in Files : parse[f].status = "failed"
    <3>1. bundle' =
            [outcome  |-> "loaded",
             messages |-> DeduplicatePlans(CollectProjectedConversation),
             sessions |-> [i \in 1 .. Len(Sessions) |-> DeduplicatePlans(Slices[i])],
             usage    |-> SumTo([i \in 1 .. Len(Sessions) |-> Usage(Slices[i])], Len(Sessions))]
      BY <2>2 DEF EndLoad
    <3>2. \A f \in Files : parse[f].status = "ok"
      BY <1>1, <1>2, <2>2 DEF ParseState
    <3>3. Loaded'
      BY <1>1, <1>3, <3>1, <3>2 DEF Loaded
    <3>4. bundle'.outcome = "loaded"
      BY <3>1
    <3>5. QED
      BY <1>1, <3>3, <3>4 DEF BundleFits
  <2>3. QED
    BY <2>1, <2>2
<1>7. QED
  BY <1>2, <1>4, <1>5, <1>6 DEF IInv

\* Nothing happens.
LEMMA StutterFits == IInv /\ UNCHANGED vars => IInv'
<1> SUFFICES ASSUME IInv, UNCHANGED vars PROVE IInv'
  OBVIOUS
<1>1. UNCHANGED <<file, scan, phase, parse, buffer, bundle>>
  BY DEF vars
<1>2. /\ Slices' = Slices /\ Total' = Total
      /\ CollectProjectedConversation' = CollectProjectedConversation
      /\ \A f \in Files : Slice(f)' = Slice(f)
  BY <1>1, ReadSame
<1>3. FilesFit'
  BY <1>1 DEF IInv, FilesFit
<1>4. ParsesFit'
  <2>1. ASSUME NEW f \in Files PROVE ParseFits(f)'
    <3>1. ParseFits(f)
      BY DEF IInv, ParsesFit, AllParsesFit
    <3>2. ReadFits(f) => ReadFits(f)'
      BY <1>1, <1>2 DEF ReadFits
    <3>3. QED
      BY <1>1, <3>1, <3>2 DEF ParseFits
  <2>2. QED
    BY <1>1, <2>1 DEF IInv, ParsesFit, AllParsesFit
<1>5. BufferFits'
  BY <1>1, <1>2 DEF IInv, BufferFits
<1>6. BundleFits'
  <2>1. Loaded => Loaded'
    BY <1>1, <1>2 DEF Loaded
  <2>2. QED
    BY <1>1, <2>1 DEF IInv, BundleFits
<1>7. QED
  BY <1>3, <1>4, <1>5, <1>6 DEF IInv

LEMMA NextFits == IInv /\ [Next]_vars => IInv'
<1> SUFFICES ASSUME IInv, [Next]_vars PROVE IInv'
  OBVIOUS
<1>1. CASE \E f \in Files, r \in Records : Write(f, r)
  BY <1>1, WriteFits
<1>2. CASE BeginLoad
  BY <1>2, BeginFits
<1>3. CASE \E f \in Files : ParseRecord(f)
  BY <1>3, ParseRecordFits
<1>4. CASE \E f \in Files : FinishParse(f)
  BY <1>4, FinishFits
<1>5. CASE EndLoad
  BY <1>5, EndFits
<1>6. CASE UNCHANGED vars
  BY <1>6, StutterFits
<1>7. QED
  BY <1>1, <1>2, <1>3, <1>4, <1>5, <1>6 DEF Next

THEOREM InvAlways == Spec => []IInv
<1>1. QED
  BY InitFits, NextFits, PTL DEF Spec

-----------------------------------------------------------------------------
(* The sessions *)

LEMMA InvTypes == IInv => TypeOK
<1> SUFFICES ASSUME IInv PROVE TypeOK
  OBVIOUS
<1>1. MaxRecords \in Nat
  BY RecordsAssumption
<1>2. ASSUME NEW f \in Files
      PROVE  /\ scan[f].count \in 0 .. MaxRecords /\ scan[f].main \in 0 .. scan[f].count
             /\ scan[f].usage \in 0 .. MaxRecords /\ scan[f].calls \subseteq Calls
             /\ parse[f].next \in 1 .. (Len(file[f]) + 1)
             /\ parse[f].len \in 0 .. (parse[f].next - 1)
             /\ parse[f].status \in {"running", "ok", "failed"}
  <2>1. /\ Len(file[f]) \in Nat /\ Len(file[f]) <= MaxRecords
        /\ scan[f] \in ScanState /\ CountsFit(file[f], scan[f])
    BY LenProperties DEF IInv, FilesFit, ScanFits
  <2>2. parse[f] \in ParseState /\ ParseFits(f)
    BY DEF IInv, ParsesFit, AllParsesFit
  <2>3. scan[f].count \in 0 .. MaxRecords /\ scan[f].main \in 0 .. scan[f].count
        /\ scan[f].usage \in 0 .. MaxRecords /\ scan[f].calls \subseteq Calls
    BY <1>1, <2>1 DEF ScanState, CountsFit
  <2>4. parse[f].len \in 0 .. (parse[f].next - 1)
    BY <2>1, <2>2 DEF ParseState, ParseFits
  <2>5. QED
    BY <2>2, <2>3, <2>4 DEF ParseState, ParseFits
<1>3. Len(buffer) \in {0, Total}
  BY DEF IInv, BufferFits
<1>4. QED
  BY <1>2, <1>3 DEF TypeOK, IInv, BundleFits

LEMMA InvApart == IInv => SessionsApart
  BY DEF IInv, ParsesFit, AllParsesFit, ParseFits, ReadFits, SessionsApart

\* What each goroutine has once all are done.
LEMMA SlicesAre ==
  ASSUME IInv, \A f \in Files : parse[f].status = "ok", phase = "done",
         NEW n \in Nat, n = Len(Sessions), NEW i \in 1 .. n
  PROVE  /\ Slices[i] = Slice(Sessions[i]) /\ Slices[i] = Alone(file[Sessions[i]])
         /\ Slices[i] \in Seq(Message) /\ Len(Slices[i]) = parse[Sessions[i]].len
         /\ ~Torn(file[Sessions[i]])
<1>1. PICK f \in Files : f = Sessions[i]
  BY PlaceOf
<1>2. Slices[i] = Slice(f)
  BY <1>1 DEF Slices
<1>3. Slice(f) \in Seq(Message) /\ Len(Slice(f)) = parse[f].len
  BY SliceIs DEF IInv
<1>4. ParseFits(f) /\ ReadFits(f) /\ parse[f].next = Len(file[f]) + 1
  BY DEF IInv, ParsesFit, AllParsesFit, ParseFits
<1>5. Len(file[f]) \in Nat
  BY LenProperties DEF IInv, FilesFit
<1>6. parse[f].next - 1 = Len(file[f])
  BY <1>4, <1>5
<1>7. Slice(f) = Alone(file[f]) /\ ~Torn(file[f])
  BY <1>4, <1>6, Zenon DEF ReadFits, Alone, Torn
<1>8. QED
  BY <1>1, <1>2, <1>3, <1>7

\* A part of the buffer after those before it.
LEMMA PartsJoin ==
  ASSUME NEW s \in Seq(Message), NEW a \in Nat, NEW c \in Nat, a + c <= Len(s)
  PROVE  SubSeq(s, 1, a) \o SubSeq(s, a + 1, a + c) = SubSeq(s, 1, a + c)
<1>1. PICK m \in Nat : m = Len(s)
  BY LenProperties
<1>2. PICK left : left = SubSeq(s, 1, a)
  OBVIOUS
<1>3. PICK right : right = SubSeq(s, a + 1, a + c)
  OBVIOUS
<1>4. PICK all : all = SubSeq(s, 1, a + c)
  OBVIOUS
<1>5. \A i \in 1 .. m : s[i] \in Message
  BY <1>1
<1>6. left \in Seq(Message) /\ Len(left) = a /\ \A i \in 1 .. a : left[i] = s[i]
  <2>1. \A i \in 1 .. a : s[i] \in Message
    BY <1>1, <1>5
  <2>2. left \in Seq(Message)
    BY <1>2, <2>1, SubSeqProperties
  <2>3. Len(left) = a
    BY <1>2, <2>1, SubSeqProperties
  <2>4. left = [i \in 1 .. (1 + a - 1) |-> s[i + 1 - 1]]
    BY <1>2
  <2>5. \A i \in 1 .. a : left[i] = s[i]
    BY <2>4
  <2>6. QED
    BY <2>2, <2>3, <2>5
<1>7. right \in Seq(Message) /\ Len(right) = c /\ \A i \in 1 .. c : right[i] = s[a + i]
  <2>1. \A i \in a + 1 .. a + c : s[i] \in Message
    BY <1>1, <1>5
  <2>2. right \in Seq(Message)
    BY <1>3, <2>1, SubSeqProperties
  <2>3. Len(right) = c
    BY <1>3, <2>1, SubSeqProperties
  <2>4. right = [i \in 1 .. (1 + (a + c) - (a + 1)) |-> s[i + (a + 1) - 1]]
    BY <1>3
  <2>5. 1 + (a + c) - (a + 1) = c /\ \A i \in 1 .. c : i + (a + 1) - 1 = a + i
    OBVIOUS
  <2>6. \A i \in 1 .. c : right[i] = s[a + i]
    BY <2>4, <2>5
  <2>7. QED
    BY <2>2, <2>3, <2>6
<1>8. all \in Seq(Message) /\ Len(all) = a + c /\ \A i \in 1 .. a + c : all[i] = s[i]
  <2>1. \A i \in 1 .. a + c : s[i] \in Message
    BY <1>1, <1>5
  <2>2. all \in Seq(Message)
    BY <1>4, <2>1, SubSeqProperties
  <2>3. Len(all) = a + c
    BY <1>4, <2>1, SubSeqProperties
  <2>4. all = [i \in 1 .. (1 + (a + c) - 1) |-> s[i + 1 - 1]]
    BY <1>4
  <2>5. \A i \in 1 .. a + c : all[i] = s[i]
    BY <2>4
  <2>6. QED
    BY <2>2, <2>3, <2>5
<1>9. PICK both : both = left \o right
  OBVIOUS
<1>10. both \in Seq(Message)
  BY <1>6, <1>7, <1>9, ConcatProperties
<1>11. Len(both) = a + c
  BY <1>6, <1>7, <1>9, ConcatProperties
<1>12. ASSUME NEW i \in 1 .. a + c PROVE both[i] = s[i]
  <2>1. both[i] = IF i <= Len(left) THEN left[i] ELSE right[i - Len(left)]
    BY <1>6, <1>7, <1>9, ConcatProperties
  <2>2. CASE i <= a
    BY <1>6, <2>1, <2>2
  <2>3. CASE ~(i <= a)
    <3>1. i - a \in 1 .. c /\ a + (i - a) = i
      BY <2>3
    <3>2. QED
      BY <1>6, <1>7, <2>1, <2>3, <3>1
  <2>4. QED
    BY <2>2, <2>3
<1>13. both = all
  BY <1>8, <1>10, <1>11, <1>12, SeqEqual
<1>14. QED
  BY <1>2, <1>3, <1>4, <1>9, <1>13

\* What is concatenated of the slices, part by part.
LEMMA FlatIs ==
  ASSUME IInv, \A f \in Files : parse[f].status = "ok", phase = "done",
         NEW n \in Nat, n = Len(Sessions)
  PROVE  \E up : Partial(Slices, n, up) /\ FlattenSeq(Slices) = up[n]
                 /\ \A i \in 1 .. n : up[i] \in Seq(Message)
<1>1. n # 0
  BY CountsAre DEF IInv, FilesFit
<1>2. Len(Slices) = n
  <2>1. Slices = [i \in 1 .. n |-> Slices[i]]
    BY DEF Slices
  <2>2. QED
    BY <2>1
<1>3. PICK up : Partial(Slices, n, up) /\ FlattenSeq(Slices) = up[n]
  BY <1>1, <1>2, FlattenIsPartial
<1>4. \A i \in 1 .. n : Slices[i] \in Seq(Message)
  BY SlicesAre
<1>5. \A i \in 1 .. n : up[i] \in Seq(Message)
  BY <1>3, <1>4, PartialType
<1>6. QED
  BY <1>3, <1>5

\* Where every part is exactly full they follow each other in the buffer.
LEMMA ExactIsFlat ==
  ASSUME IInv, \A f \in Files : parse[f].status = "ok", phase = "done", Exact
  PROVE  SubSeq(buffer, 1, Total) = FlattenSeq(Slices)
<1>1. scan \in [Files -> ScanState] /\ buffer \in Seq(Message) /\ Len(buffer) = Total
  BY DEF IInv, FilesFit, BufferFits
<1>2. PICK n \in Nat : n = Len(Sessions) /\ n # 0
  BY <1>1, CountsAre
<1>3. PICK up : Partial(Slices, n, up) /\ FlattenSeq(Slices) = up[n]
  BY <1>2, FlatIs
<1>4. PICK counts : counts = Counts
  OBVIOUS
<1>5. \A i \in 1 .. n : counts[i] = scan[Sessions[i]].count /\ counts[i] \in Nat
  BY <1>1, <1>2, <1>4, CountsAre
<1>6. Total = SumTo(counts, n)
  BY <1>2, <1>4 DEF Total
<1>7. ASSUME NEW i \in 1 .. n, NEW j \in 0 .. n, i = j + 1
      PROVE  /\ SumTo(counts, j) \in Nat /\ SumTo(counts, i) = SumTo(counts, j) + counts[i]
             /\ SumTo(counts, i) <= Len(buffer)
             /\ Slices[i] = SubSeq(buffer, SumTo(counts, j) + 1, SumTo(counts, j) + counts[i])
  <2>1. PICK f \in Files : f = Sessions[i] /\ Place(f) = i
    BY <1>2, PlaceOf
  <2>2. SumTo(counts, j) \in Nat /\ SumTo(counts, i) \in Nat
    BY <1>5, SumNat
  <2>3. SumTo(counts, i) = SumTo(counts, j) + counts[i]
    BY <1>7, SumStep
  <2>4. SumTo(counts, i - 1) + counts[i] <= SumTo(counts, n)
    <3>1. n \in 0 .. n /\ i <= n
      OBVIOUS
    <3>2. QED
      BY <1>5, <3>1, SumGrows
  <2>5. i - 1 = j
    BY <1>7
  <2>6. parse[f].len = counts[i] /\ ~parse[f].detached
    <3>1. parse[f].len = scan[f].count /\ counts[i] = scan[f].count /\ counts[i] \in Nat
      BY <1>5, <2>1 DEF Exact
    <3>2. ParseFits(f)
      BY DEF IInv, ParsesFit, AllParsesFit
    <3>3. parse[f].detached => scan[f].count < parse[f].len
      BY <3>2 DEF ParseFits
    <3>4. QED
      BY <3>1, <3>3
  <2>7. Offset(f) = SumTo(counts, j)
    BY <1>4, <2>1, <2>5 DEF Offset
  <2>8. Slices[i] = Slice(f)
    BY <1>2, <2>1, SlicesAre
  <2>9. Slice(f) = SubSeq(buffer, SumTo(counts, j) + 1, SumTo(counts, j) + counts[i])
    BY <2>6, <2>7 DEF Slice
  <2>10. QED
    BY <1>1, <1>6, <2>2, <2>3, <2>4, <2>5, <2>8, <2>9
<1> DEFINE good == {k \in 0 .. n : k # 0 => up[k] = SubSeq(buffer, 1, SumTo(counts, k))}
<1>8. 0 \in good
  OBVIOUS
<1>9. ASSUME NEW k \in 1 .. n, k - 1 \in good PROVE k \in good
  <2>1. PICK j \in 0 .. n : j = k - 1 /\ k = j + 1
    OBVIOUS
  <2>2. up[k] = IF k = 1 THEN Slices[k] ELSE up[k - 1] \o Slices[k]
    BY <1>3 DEF Partial
  <2>3. PICK a \in Nat : a = SumTo(counts, j)
    BY <1>7, <2>1
  <2>4. PICK c \in Nat : c = counts[k]
    BY <1>5
  <2>5. SumTo(counts, k) = a + c /\ a + c <= Len(buffer) /\ Slices[k] = SubSeq(buffer, a + 1, a + c)
    BY <1>7, <2>1, <2>3, <2>4
  <2>6. CASE k = 1
    <3>1. j = 0
      BY <2>1, <2>6
    <3>2. a = 0
      BY <2>3, <3>1, SumZero
    <3>3. up[k] = SubSeq(buffer, 1, SumTo(counts, k))
      BY <2>2, <2>5, <2>6, <3>2
    <3>4. QED
      BY <3>3
  <2>7. CASE k # 1
    <3>1. j # 0
      BY <2>1, <2>7
    <3>2. up[k - 1] = SubSeq(buffer, 1, a)
      BY <1>9, <2>1, <2>3, <3>1
    <3>3. SubSeq(buffer, 1, a) \o SubSeq(buffer, a + 1, a + c) = SubSeq(buffer, 1, a + c)
      BY <1>1, <2>5, PartsJoin
    <3>4. up[k] = SubSeq(buffer, 1, SumTo(counts, k))
      BY <2>2, <2>5, <2>7, <3>2, <3>3
    <3>5. QED
      BY <3>4
  <2>8. QED
    BY <2>6, <2>7
<1>10. 0 .. n \subseteq good
  <2> HIDE DEF good
  <2>1. QED
    BY <1>8, <1>9, UpTo
<1>11. up[n] = SubSeq(buffer, 1, SumTo(counts, n))
  BY <1>2, <1>10
<1>12. QED
  BY <1>3, <1>6, <1>11

\* However the messages are collected, they are those of the sessions in order.
LEMMA CollectIs ==
  ASSUME IInv, \A f \in Files : parse[f].status = "ok", phase = "done"
  PROVE  /\ CollectProjectedConversation = FlattenSeq(Slices)
         /\ FlattenSeq(Slices) \in Seq(Message)
<1>1. PICK n \in Nat : n = Len(Sessions) /\ n # 0
  BY CountsAre DEF IInv, FilesFit
<1>2. PICK up : FlattenSeq(Slices) = up[n] /\ \A i \in 1 .. n : up[i] \in Seq(Message)
  BY <1>1, FlatIs
<1>3. FlattenSeq(Slices) \in Seq(Message)
  BY <1>1, <1>2
<1>4. CollectProjectedConversation = FlattenSeq(Slices)
  BY ExactIsFlat DEF CollectProjectedConversation
<1>5. QED
  BY <1>3, <1>4

\* Plans are looked for in as many messages, and no other field changes.
PlansTakenOff(messages, n, off) ==
    /\ Len(off) = n
    /\ \A i \in 1 .. n :
         /\ off[i] \in Message /\ off[i].paid = messages[i].paid
         /\ off[i].plan = IF \E j \in (i + 1) .. n : messages[j].plan = messages[i].plan
                          THEN None ELSE messages[i].plan
         /\ [off[i] EXCEPT !.plan = None] = [messages[i] EXCEPT !.plan = None]

LEMMA PlansOff ==
  ASSUME NEW messages \in Seq(Message), NEW n \in Nat, n = Len(messages),
         NEW off, off = DeduplicatePlans(messages)
  PROVE  PlansTakenOff(messages, n, off)
<1>1. off = [i \in 1 .. n |-> IF \E j \in (i + 1) .. n : messages[j].plan = messages[i].plan
                              THEN [messages[i] EXCEPT !.plan = None] ELSE messages[i]]
  BY DEF DeduplicatePlans
<1>2. ASSUME NEW i \in 1 .. n
      PROVE  /\ off[i] \in Message /\ off[i].paid = messages[i].paid
             /\ off[i].plan = IF \E j \in (i + 1) .. n : messages[j].plan = messages[i].plan
                              THEN None ELSE messages[i].plan
             /\ [off[i] EXCEPT !.plan = None] = [messages[i] EXCEPT !.plan = None]
  <2>1. PICK msg \in Message : msg = messages[i]
    OBVIOUS
  <2>2. PICK bare : bare = [msg EXCEPT !.plan = None]
    OBVIOUS
  <2>3. bare \in Message /\ bare.paid = msg.paid /\ bare.plan = None
        /\ [bare EXCEPT !.plan = None] = bare
    BY <2>2 DEF Message
  <2>4. off[i] = IF \E j \in (i + 1) .. n : messages[j].plan = messages[i].plan
                 THEN bare ELSE msg
    BY <1>1, <2>1, <2>2
  <2>5. CASE \E j \in (i + 1) .. n : messages[j].plan = messages[i].plan
    BY <2>1, <2>2, <2>3, <2>4, <2>5, Zenon
  <2>6. CASE ~\E j \in (i + 1) .. n : messages[j].plan = messages[i].plan
    BY <2>1, <2>2, <2>3, <2>4, <2>6, Zenon
  <2>7. QED
    BY <2>5, <2>6
<1>3. Len(off) = n
  <2>1. off = [i \in 1 .. n |-> off[i]]
    BY <1>1
  <2>2. QED
    BY <2>1
<1>4. QED
  BY <1>2, <1>3, Zenon DEF PlansTakenOff

LEMMA InvInOrder == IInv => ConversationInOrder
<1> SUFFICES ASSUME IInv, bundle.outcome = "loaded" PROVE ConversationInOrder
  BY DEF ConversationInOrder
<1>1. Loaded /\ phase = "done"
  BY DEF IInv, BundleFits, NoBundle
<1>2. \A f \in Files : parse[f].status = "ok"
  BY <1>1 DEF Loaded
<1>3. PICK n \in Nat : n = Len(Sessions) /\ n # 0
  BY CountsAre DEF IInv, FilesFit
<1>4. PICK alone : alone = [i \in 1 .. n |-> Alone(file[Sessions[i]])]
  OBVIOUS
<1>5. alone = Slices
  <2>1. \A i \in 1 .. n : Slices[i] = Alone(file[Sessions[i]])
    BY <1>1, <1>2, <1>3, SlicesAre
  <2>2. Slices = [i \in 1 .. n |-> Slices[i]]
    BY <1>3 DEF Slices
  <2>3. QED
    BY <1>4, <2>1, <2>2
<1>6. PICK flat \in Seq(Message) : flat = FlattenSeq(alone)
  BY <1>1, <1>2, <1>5, CollectIs
<1>7. PICK off : off = bundle.messages
  OBVIOUS
<1>8. off = DeduplicatePlans(flat)
  BY <1>1, <1>2, <1>5, <1>6, <1>7, CollectIs DEF Loaded
<1>9. PICK m \in Nat : m = Len(flat)
  BY <1>6, LenProperties
<1>10. Len(off) = m /\ \A i \in 1 .. m : [off[i] EXCEPT !.plan = None] = [flat[i] EXCEPT !.plan = None]
  <2>1. PlansTakenOff(flat, m, off)
    BY <1>6, <1>8, <1>9, PlansOff
  <2>2. QED
    BY <2>1, Zenon DEF PlansTakenOff
<1>11. [i \in 1 .. Len(off) |-> [off[i] EXCEPT !.plan = None]]
            = [i \in 1 .. Len(flat) |-> [flat[i] EXCEPT !.plan = None]]
  BY <1>9, <1>10
<1>12. ~\E f \in Files : Torn(file[f])
  <2> SUFFICES ASSUME NEW f \in Files PROVE ~Torn(file[f])
    OBVIOUS
  <2>1. PICK i \in 1 .. n : Sessions[i] = f
    BY <1>3, PlaceIs
  <2>2. QED
    BY <1>1, <1>2, <1>3, <2>1, SlicesAre
<1>13. ASSUME NEW i \in 1 .. n PROVE Len(bundle.sessions[i]) = Len(alone[i])
  <2>1. bundle.sessions[i] = DeduplicatePlans(Slices[i])
    BY <1>1, <1>3 DEF Loaded
  <2>2. Slices[i] \in Seq(Message)
    BY <1>1, <1>2, <1>3, SlicesAre
  <2>3. PICK k \in Nat : k = Len(Slices[i])
    BY <2>2, LenProperties
  <2>4. Len(bundle.sessions[i]) = k
    BY <2>1, <2>2, <2>3, PlansOff DEF PlansTakenOff
  <2>5. QED
    BY <1>5, <2>3, <2>4
<1>14. QED
  BY <1>3, <1>4, <1>6, <1>7, <1>11, <1>12, <1>13, Zenon DEF ConversationInOrder

LEMMA InvWhole == IInv => SessionsWhole
  BY InvTypes, InvApart, InvInOrder DEF SessionsWhole

(* The goroutines of the load give the sessions, whole and in order: none   *)
(* writes into the part of another, however wrong the counts of the scan.   *)
THEOREM SessionsAlwaysWhole == Spec => []SessionsWhole
<1>1. QED
  BY InvAlways, InvWhole, PTL

-----------------------------------------------------------------------------
(* What is counted *)

\* The places of the messages with a plan.
PlacesOf(messages, plan) == {i \in 1 .. Len(messages) : messages[i].plan = plan}

\* Where a plan is taken off but for its last approval, that one stays.
LEMMA LastApproval ==
  ASSUME NEW messages \in Seq(Message), NEW off, off = DeduplicatePlans(messages), NEW plan \in Plans
  PROVE  PlacesOf(off, plan) =
            {i \in PlacesOf(messages, plan) : \A j \in PlacesOf(messages, plan) : j <= i}
<1>1. PICK n \in Nat : n = Len(messages)
  BY LenProperties
<1>2. plan # None
  BY RecordsAssumption
<1>3. /\ Len(off) = n
      /\ \A i \in 1 .. n :
           off[i].plan = IF \E j \in (i + 1) .. n : messages[j].plan = messages[i].plan
                         THEN None ELSE messages[i].plan
  <2>1. PlansTakenOff(messages, n, off)
    BY <1>1, PlansOff
  <2>2. QED
    BY <2>1, Zenon DEF PlansTakenOff
<1>4. ASSUME NEW i \in 1 .. n
      PROVE  off[i].plan = plan <=>
                (messages[i].plan = plan /\ \A j \in 1 .. n : messages[j].plan = plan => j <= i)
  <2>1. ASSUME messages[i].plan = plan
        PROVE  (\E j \in (i + 1) .. n : messages[j].plan = messages[i].plan)
                <=> ~\A j \in 1 .. n : messages[j].plan = plan => j <= i
    <3>1. \A j \in 1 .. n : ~(j <= i) <=> j \in (i + 1) .. n
      OBVIOUS
    <3>2. \A j \in (i + 1) .. n : j \in 1 .. n
      OBVIOUS
    <3>3. QED
      BY <2>1, <3>1, <3>2, Zenon
  <2>2. QED
    BY <1>2, <1>3, <2>1, Zenon
<1>5. QED
  BY <1>1, <1>3, <1>4, Zenon DEF PlacesOf

\* There is one last place at most.
LEMMA OneLast ==
  ASSUME NEW n \in Nat, NEW S \in SUBSET (1 .. n)
  PROVE  Cardinality({i \in S : \A j \in S : j <= i}) <= 1
<1>1. PICK T : T = {i \in S : \A j \in S : j <= i}
  OBVIOUS
<1>2. \A i \in T : \A j \in T : i = j
  BY <1>1
<1>3. CASE T = {}
  <2>1. Cardinality(T) = 0
    BY <1>3, FS_EmptySet
  <2>2. QED
    BY <1>1, <2>1
<1>4. CASE T # {}
  <2>1. PICK i : i \in T
    BY <1>4
  <2>2. T = {i}
    BY <1>2, <2>1
  <2>3. Cardinality(T) = 1
    BY <2>2, FS_Singleton
  <2>4. QED
    BY <1>1, <2>3
<1>5. QED
  BY <1>3, <1>4

LEMMA InvPlans == IInv => PlansShownOnce
<1> SUFFICES ASSUME IInv, bundle.outcome = "loaded", NEW plan \in Plans
             PROVE  /\ PlacesOf(bundle.messages, plan) =
                        {i \in PlacesOf(FlattenSeq(Slices), plan) :
                            \A j \in PlacesOf(FlattenSeq(Slices), plan) : j <= i}
                    /\ \A i \in 1 .. Len(Sessions) : Cardinality(PlacesOf(bundle.sessions[i], plan)) <= 1
  BY Zenon DEF PlansShownOnce, PlacesOf
<1>1. Loaded /\ phase = "done"
  BY DEF IInv, BundleFits, NoBundle
<1>2. \A f \in Files : parse[f].status = "ok"
  BY <1>1 DEF Loaded
<1>3. PICK flat \in Seq(Message) : flat = FlattenSeq(Slices)
  BY <1>1, <1>2, CollectIs
<1>4. bundle.messages = DeduplicatePlans(flat)
  BY <1>1, <1>2, <1>3, CollectIs DEF Loaded
<1>5. PlacesOf(bundle.messages, plan) =
        {i \in PlacesOf(flat, plan) : \A j \in PlacesOf(flat, plan) : j <= i}
  BY <1>4, LastApproval
<1>6. PICK n \in Nat : n = Len(Sessions) /\ n # 0
  BY CountsAre DEF IInv, FilesFit
<1>7. ASSUME NEW i \in 1 .. n PROVE Cardinality(PlacesOf(bundle.sessions[i], plan)) <= 1
  <2>1. PICK slice \in Seq(Message) : slice = Slices[i]
    BY <1>1, <1>2, <1>6, SlicesAre
  <2>2. bundle.sessions[i] = DeduplicatePlans(slice)
    BY <1>1, <1>6, <2>1 DEF Loaded
  <2>3. PICK k \in Nat : k = Len(slice)
    BY <2>1, LenProperties
  <2>4. PICK S \in SUBSET (1 .. k) : S = PlacesOf(slice, plan)
    BY <2>3 DEF PlacesOf
  <2>5. PlacesOf(bundle.sessions[i], plan) = {h \in S : \A j \in S : j <= h}
    BY <2>1, <2>2, <2>4, LastApproval
  <2>6. QED
    BY <2>5, OneLast
<1>8. QED
  BY <1>3, <1>5, <1>6, <1>7

\* Messages paid for in two sequences, one after the other.
LEMMA PaidConcat ==
  ASSUME NEW a \in Seq(Message), NEW b \in Seq(Message), NEW both, both = a \o b
  PROVE  /\ Usage(a) \in Nat /\ Usage(b) \in Nat
         /\ Usage(both) = Usage(a) + Usage(b)
<1>1. PICK m \in Nat : m = Len(a)
  BY LenProperties
<1>2. PICK n \in Nat : n = Len(b)
  BY LenProperties
<1>3. Len(both) = m + n
  BY <1>1, <1>2, ConcatProperties
<1>4. \A i \in 1 .. m + n : both[i] = IF i <= m THEN a[i] ELSE b[i - m]
  BY <1>1, <1>2, ConcatProperties
<1>5. PICK S \in SUBSET (1 .. m) : S = {i \in 1 .. m : a[i].paid}
  OBVIOUS
<1>6. PICK T \in SUBSET (1 .. n) : T = {i \in 1 .. n : b[i].paid}
  OBVIOUS
<1>7. PICK U : U = {m + i : i \in T}
  OBVIOUS
<1>8. {i \in 1 .. m + n : both[i].paid} = S \cup U
  <2>1. ASSUME NEW i \in 1 .. m + n PROVE both[i].paid <=> i \in S \cup U
    <3>1. CASE i <= m
      <4>1. i \in 1 .. m /\ i \notin U
        BY <1>7, <3>1
      <4>2. both[i] = a[i]
        BY <1>4, <3>1
      <4>3. QED
        BY <1>5, <4>1, <4>2, Zenon
    <3>2. CASE ~(i <= m)
      <4>1. i - m \in 1 .. n /\ i \notin S /\ (i \in U <=> i - m \in T)
        <5>1. i - m \in 1 .. n /\ i \notin S /\ m + (i - m) = i
          BY <3>2
        <5>2. \A k \in T : m + k = i => k = i - m
          OBVIOUS
        <5>3. QED
          BY <1>7, <5>1, <5>2
      <4>2. both[i] = b[i - m]
        BY <1>4, <3>2
      <4>3. QED
        BY <1>6, <4>1, <4>2, Zenon
    <3>3. QED
      BY <3>1, <3>2
  <2>2. S \cup U \subseteq 1 .. m + n
    <3>1. (\A k \in T : m + k \in 1 .. m + n) /\ 1 .. m \subseteq 1 .. m + n
      OBVIOUS
    <3>2. QED
      BY <1>7, <3>1
  <2>3. QED
    BY <2>1, <2>2, Zenon
<1>9. IsFiniteSet(S) /\ IsFiniteSet(T) /\ Cardinality(S) \in Nat /\ Cardinality(T) \in Nat
  BY PlacesFinite
<1>10. IsFiniteSet(U) /\ Cardinality(U) = Cardinality(T)
  <2>1. PICK g : g = [i \in T |-> m + i]
    OBVIOUS
  <2>2. g \in [T -> U] /\ (\A i \in T : g[i] = m + i)
    BY <1>7, <2>1
  <2>3. g \in Surjection(T, U)
    BY <1>7, <2>2 DEF Surjection
  <2>4. \A i, j \in T : g[i] = g[j] => i = j
    BY <2>2
  <2>5. g \in Injection(T, U)
    BY <2>2, <2>4 DEF Injection, IsInjective
  <2>6. QED
    BY <1>9, <2>3, <2>5, FS_Surjection
<1>11. S \cap U = {}
  BY <1>7
<1>12. Cardinality(S \cup U) = Cardinality(S) + Cardinality(U)
  <2>1. Cardinality(S \cup U) = Cardinality(S) + Cardinality(U) - Cardinality(S \cap U)
    BY <1>9, <1>10, FS_Union
  <2>2. Cardinality(S \cap U) = 0
    BY <1>11, FS_EmptySet
  <2>3. QED
    BY <1>9, <1>10, <2>1, <2>2
<1>13. Usage(a) = Cardinality(S) /\ Usage(b) = Cardinality(T) /\ Usage(both) = Cardinality(S \cup U)
  BY <1>1, <1>2, <1>3, <1>5, <1>6, <1>8 DEF Usage
<1>14. QED
  BY <1>9, <1>10, <1>12, <1>13

\* What the sessions have paid for, and the conversation.
LEMMA UsageIs ==
  ASSUME IInv, bundle.outcome = "loaded"
  PROVE  bundle.usage = Usage(bundle.messages)
<1>1. Loaded /\ phase = "done"
  BY DEF IInv, BundleFits, NoBundle
<1>2. \A f \in Files : parse[f].status = "ok"
  BY <1>1 DEF Loaded
<1>3. PICK n \in Nat : n = Len(Sessions) /\ n # 0
  BY CountsAre DEF IInv, FilesFit
<1>4. PICK up : /\ Partial(Slices, n, up) /\ FlattenSeq(Slices) = up[n]
                /\ \A i \in 1 .. n : up[i] \in Seq(Message)
  BY <1>1, <1>2, <1>3, FlatIs
<1>5. \A i \in 1 .. n : Slices[i] \in Seq(Message)
  BY <1>1, <1>2, <1>3, SlicesAre
<1>6. PICK usages : usages = [i \in 1 .. n |-> Usage(Slices[i])]
  OBVIOUS
<1> DEFINE good == {k \in 0 .. n : k # 0 => Usage(up[k]) = SumTo(usages, k)}
<1>7. 0 \in good
  OBVIOUS
<1>8. ASSUME NEW k \in 1 .. n, k - 1 \in good PROVE k \in good
  <2>1. PICK j \in 0 .. n : j = k - 1 /\ k = j + 1
    OBVIOUS
  <2>2. up[k] = IF k = 1 THEN Slices[k] ELSE up[k - 1] \o Slices[k]
    BY <1>4 DEF Partial
  <2>3. SumTo(usages, k) = SumTo(usages, j) + usages[k]
    BY <2>1, SumStep
  <2>4. usages[k] = Usage(Slices[k])
    BY <1>6
  <2>5. CASE k = 1
    <3>1. j = 0
      BY <2>1, <2>5
    <3>2. SumTo(usages, j) = 0
      BY <3>1, SumZero
    <3>3. Usage(Slices[k]) \in Nat
      BY <1>5, PaidConcat
    <3>4. Usage(up[k]) = SumTo(usages, k)
      BY <2>2, <2>3, <2>4, <2>5, <3>2, <3>3
    <3>5. QED
      BY <3>4
  <2>6. CASE k # 1
    <3>1. j \in 1 .. n
      BY <2>1, <2>6
    <3>2. Usage(up[j]) = SumTo(usages, j)
      BY <1>8, <2>1, <3>1
    <3>3. up[k] = up[j] \o Slices[k] /\ up[j] \in Seq(Message) /\ Slices[k] \in Seq(Message)
      BY <1>4, <1>5, <2>1, <2>2, <2>6, <3>1
    <3>4. Usage(up[k]) = Usage(up[j]) + Usage(Slices[k])
      BY <3>3, PaidConcat
    <3>5. Usage(up[k]) = SumTo(usages, k)
      BY <2>3, <2>4, <3>2, <3>4
    <3>6. QED
      BY <3>5
  <2>7. QED
    BY <2>5, <2>6
<1>9. 0 .. n \subseteq good
  <2> HIDE DEF good
  <2>1. QED
    BY <1>7, <1>8, UpTo
<1>10. Usage(FlattenSeq(Slices)) = SumTo(usages, n)
  BY <1>3, <1>4, <1>9
<1>11. PICK flat \in Seq(Message) : flat = FlattenSeq(Slices)
  BY <1>1, <1>2, CollectIs
<1>12. PICK off : off = bundle.messages
  OBVIOUS
<1>13. off = DeduplicatePlans(flat)
  BY <1>1, <1>2, <1>11, <1>12, CollectIs DEF Loaded
<1>14. PICK m \in Nat : m = Len(flat)
  BY <1>11, LenProperties
<1>15. Len(off) = m /\ \A i \in 1 .. m : off[i].paid = flat[i].paid
  <2>1. PlansTakenOff(flat, m, off)
    BY <1>11, <1>13, <1>14, PlansOff
  <2>2. QED
    BY <2>1, Zenon DEF PlansTakenOff
<1>16. Usage(off) = Usage(flat)
  BY <1>14, <1>15, Zenon DEF Usage
<1>17. bundle.usage = SumTo(usages, n)
  BY <1>1, <1>3, <1>6 DEF Loaded
<1>18. QED
  BY <1>10, <1>11, <1>12, <1>16, <1>17

\* What relates a file, its scan and what parsing it alone gives.
LEMMA FileFits ==
  ASSUME IInv, NEW f \in Files
  PROVE  \E q \in Parsed :
            /\ Alone(file[f]) = q.messages /\ q.messages \in Seq(Message)
            /\ ScanFits(file[f], scan[f], q)
<1>1. ScanFits(file[f], scan[f], ParsedTo(file[f], Len(file[f])))
  BY DEF IInv, FilesFit
<1>2. PICK q : q = ParsedTo(file[f], Len(file[f]))
  OBVIOUS
<1>3. q \in Parsed
  BY <1>1, <1>2 DEF ScanFits
<1>4. q.messages \in Seq(Message)
  BY <1>3 DEF Parsed
<1>5. Alone(file[f]) = q.messages
  BY <1>2 DEF Alone
<1>6. QED
  BY <1>1, <1>2, <1>3, <1>4, <1>5

LEMMA InvPaid == IInv => ResponsesPaidOnce
<1> SUFFICES ASSUME IInv PROVE ResponsesPaidOnce
  OBVIOUS
<1>1. ASSUME NEW f \in Files
      PROVE  /\ scan[f].usage = Cardinality(Responses(file[f], Billed(file[f])))
             /\ Usage(Alone(file[f])) = Cardinality(Responses(file[f], BilledShown(file[f])))
  <2>1. PICK q \in Parsed : Alone(file[f]) = q.messages /\ ScanFits(file[f], scan[f], q)
    BY FileFits
  <2>2. PaidFor(file[f], Billed(file[f]), scan[f].lastID, scan[f].usage)
    BY <2>1 DEF ScanFits
  <2>3. PaidFor(file[f], BilledShown(file[f]), q.parse.lastID, Cardinality(PaidIn(q.messages)))
    BY <2>1 DEF ScanFits
  <2>4. Usage(q.messages) = Cardinality(PaidIn(q.messages))
    BY DEF Usage, PaidIn
  <2>5. QED
    BY <2>1, <2>2, <2>3, <2>4 DEF PaidFor
<1>2. QED
  BY <1>1, UsageIs DEF ResponsesPaidOnce

LEMMA InvCounted == IInv => CountedOnce
  BY InvPlans, InvPaid DEF CountedOnce

(* A plan that was approved again is shown once, and a response is paid for *)
(* once, in the catalogue, in a session and in the conversation.            *)
THEOREM AlwaysCountedOnce == Spec => []CountedOnce
<1>1. QED
  BY InvAlways, InvCounted, PTL

-----------------------------------------------------------------------------
(* The scan and the parse *)

LEMMA InvListed == IInv => ListedIsShown
<1> SUFFICES ASSUME IInv, NEW f \in Files
             PROVE  /\ scan[f].content => Alone(file[f]) # <<>>
                    /\ scan[f].found => \E msg \in ToSet(Alone(file[f])) : msg.text = Prompt
  BY DEF ListedIsShown
<1>1. PICK q \in Parsed :
        Alone(file[f]) = q.messages /\ q.messages \in Seq(Message) /\ ScanFits(file[f], scan[f], q)
  BY FileFits
<1>2. ShownFits(scan[f], q)
  BY <1>1 DEF ScanFits
<1>3. ASSUME scan[f].found PROVE \E msg \in ToSet(q.messages) : msg.text = Prompt
  <2>1. PICK i \in 1 .. Len(q.messages) : q.messages[i].text = Prompt
    BY <1>2, <1>3 DEF ShownFits
  <2>2. DOMAIN q.messages = 1 .. Len(q.messages)
    BY <1>1, LenProperties
  <2>3. q.messages[i] \in ToSet(q.messages)
    BY <2>2 DEF ToSet
  <2>4. QED
    BY <2>1, <2>3
<1>4. QED
  BY <1>1, <1>2, <1>3 DEF ShownFits

LEMMA InvFailures == IInv => FailuresAgree
<1> SUFFICES ASSUME IInv, NEW f \in Files
             PROVE  LET linked == Cardinality(FailedIn(Alone(file[f])))
                        failed == scan[f].errors + scan[f].rejects
                    IN  /\ failed >= linked
                        /\ (\A r \in ToSet(file[f]) : r.kind = "user" => ~r.blank) => failed = linked
  BY Zenon DEF FailuresAgree, FailedIn
<1> DEFINE linked == Cardinality(FailedIn(Alone(file[f])))
           failed == scan[f].errors + scan[f].rejects
<1>1. PICK q \in Parsed :
        Alone(file[f]) = q.messages /\ q.messages \in Seq(Message) /\ ScanFits(file[f], scan[f], q)
  BY FileFits
<1>2. FailuresFit(file[f], scan[f], q) /\ scan[f] \in ScanState
  BY <1>1 DEF ScanFits
<1>3. linked = Cardinality(FailedIn(q.messages)) /\ failed \in Nat
  BY <1>1, <1>2 DEF ScanState
<1>4. linked \in Nat
  <2>1. PICK n \in Nat : n = Len(q.messages)
    BY <1>1, LenProperties
  <2>2. FailedIn(q.messages) \in SUBSET (1 .. n)
    BY <2>1 DEF FailedIn
  <2>3. QED
    BY <1>3, <2>2, PlacesFinite
<1>5. failed >= linked
  BY <1>2, <1>3, <1>4 DEF FailuresFit
<1>6. ASSUME \A r \in ToSet(file[f]) : r.kind = "user" => ~r.blank PROVE failed = linked
  <2>1. file[f] \in Seq(AllRecords)
    BY DEF IInv, FilesFit
  <2>2. DOMAIN file[f] = 1 .. Len(file[f])
    BY <2>1, LenProperties
  <2>3. \A i \in 1 .. Len(file[f]) : file[f][i] \in ToSet(file[f])
    BY <2>2 DEF ToSet
  <2>4. \A i \in 1 .. Len(file[f]) : file[f][i].kind = "user" => ~file[f][i].blank
    BY <1>6, <2>3, Zenon
  <2>5. QED
    BY <1>2, <1>3, <2>4, Zenon DEF FailuresFit
<1>7. QED
  BY <1>5, <1>6

LEMMA InvAgrees == IInv => ScanAgreesWithParse
  BY InvListed, InvFailures DEF ScanAgreesWithParse

(* What the catalogue lists and counts is what the transcript shows: the    *)
(* two passes agree though they do not read the same records.               *)
THEOREM ScanAlwaysAgrees == Spec => []ScanAgreesWithParse
<1>1. QED
  BY InvAlways, InvAgrees, PTL
=============================================================================
