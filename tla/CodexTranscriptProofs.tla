------------------------ MODULE CodexTranscriptProofs ------------------------
(***************************************************************************)
(* Proofs about the reading of Codex rollouts.  The inductive invariant    *)
(* IInv tells of each rollout what its load holds (types, the window of    *)
(* the request, no echo), that its scan agrees with it, and of the main    *)
(* rollout that the messages with what waits for one hold all that was     *)
(* said.  There is one lemma for each kind of record, and one for the      *)
(* flush that most of them begin with.                                     *)
(***************************************************************************)
EXTENDS CodexTranscript, FiniteSetTheorems, SequenceTheorems, TLAPS

-----------------------------------------------------------------------------
(* Natural numbers and recursive functions *)

\* The order of the natural numbers, as a relation.
NatOrder == {ss \in Nat \X Nat : ss[1] < ss[2]}

\* The least-number principle, for a set.
LEMMA LeastNatural ==
  ASSUME NEW T \in SUBSET Nat, T # {}
  PROVE  \E m \in T : \A k \in T : m <= k
<1>1. IsWellFoundedOn(NatOrder, Nat)
  BY NatLessThanWellFounded, Zenon DEF OpToRel, NatOrder
<1>2. PICK m \in T : \A k \in T : ~(<<k, m>> \in NatOrder)
  BY <1>1, WFMin
<1>3. ASSUME NEW k \in T PROVE m <= k
  <2>1. k \in Nat /\ m \in Nat
    OBVIOUS
  <2>2. k < m => <<k, m>> \in NatOrder
    BY <2>1 DEF NatOrder
  <2>3. QED
    BY <1>2, <2>1, <2>2
<1>4. QED
  BY <1>3

\* Induction up to a bound, for a set.
LEMMA UpTo ==
  ASSUME NEW m \in Nat, NEW T,
         0 \in T, \A n \in 1 .. m : n - 1 \in T => n \in T
  PROVE  0 .. m \subseteq T
<1> DEFINE bad == {n \in 0 .. m : n \notin T}
<1>1. ASSUME bad # {} PROVE FALSE
  <2>1. bad \in SUBSET Nat
    OBVIOUS
  <2>2. \E j \in bad : \A i \in bad : j <= i
    <3> HIDE DEF bad
    <3>1. QED
      BY <1>1, <2>1, LeastNatural
  <2>3. PICK j \in bad : \A i \in bad : j <= i
    BY <2>2
  <2>4. j # 0 /\ j \in 0 .. m /\ j \notin T
    BY <2>3
  <2>5. j - 1 \in 0 .. m /\ j \in 1 .. m /\ ~(j <= j - 1)
    BY <2>4
  <2>6. j - 1 \in T
    BY <2>3, <2>5
  <2>7. QED
    BY <2>4, <2>5, <2>6
<1>2. QED
  BY <1>1

\* up holds the concatenations of the first parts of ss, n of them.
Partial(ss, n, up) ==
    up = [i \in 1 .. n |-> IF i = 1 THEN ss[i] ELSE up[i - 1] \o ss[i]]

\* They exist, however many parts there are.
LEMMA PartialExists ==
  ASSUME NEW ss, NEW n \in Nat
  PROVE  \E up : Partial(ss, n, up)
<1> DEFINE good == {k \in 0 .. n : \E up : Partial(ss, k, up)}
<1>1. 0 \in good
  <2>1. Partial(ss, 0, <<>>)
    BY DEF Partial
  <2>2. QED
    BY <2>1
<1>2. ASSUME NEW k \in 1 .. n, k - 1 \in good PROVE k \in good
  <2>1. PICK up : Partial(ss, k - 1, up)
    BY <1>2
  <2>2. PICK longer : longer = [i \in 1 .. k |-> IF i = k
                                    THEN IF k = 1 THEN ss[k] ELSE up[k - 1] \o ss[k]
                                    ELSE up[i]]
    OBVIOUS
  <2>3. \A i \in 1 .. (k - 1) : up[i] = IF i = 1 THEN ss[i] ELSE up[i - 1] \o ss[i]
    BY <2>1 DEF Partial
  <2>4. \A i \in 1 .. k : longer[i] = IF i = 1 THEN ss[i] ELSE longer[i - 1] \o ss[i]
    <3> TAKE i \in 1 .. k
    <3>1. CASE i = k
      BY <2>2, <3>1
    <3>2. CASE i # k
      <4>1. i \in 1 .. (k - 1) /\ (i # 1 => i - 1 \in 1 .. (k - 1))
        BY <3>2
      <4>2. longer[i] = up[i] /\ (i # 1 => longer[i - 1] = up[i - 1])
        BY <2>2, <3>2, <4>1
      <4>3. QED
        BY <2>3, <4>1, <4>2
    <3>3. QED
      BY <3>1, <3>2
  <2>5. longer = [i \in 1 .. k |-> longer[i]]
    BY <2>2
  <2>6. Partial(ss, k, longer)
    BY <2>4, <2>5 DEF Partial
  <2>7. QED
    BY <2>6
<1>3. 0 .. n \subseteq good
  <2> HIDE DEF good
  <2>1. QED
    BY <1>1, <1>2, UpTo
<1>4. QED
  BY <1>3

\* FlattenSeq is the last of them.
LEMMA FlattenIsPartial ==
  ASSUME NEW ss, Len(ss) \in Nat \ {0}
  PROVE  \E up : Partial(ss, Len(ss), up) /\ FlattenSeq(ss) = up[Len(ss)]
<1>1. PICK n \in Nat : n = Len(ss) /\ n # 0
  OBVIOUS
<1>2. FlattenSeq(ss) = (CHOOSE up : Partial(ss, n, up))[n]
  BY <1>1 DEF FlattenSeq, Partial
<1>3. \E up : Partial(ss, n, up)
  BY PartialExists
<1>4. QED
  BY <1>1, <1>2, <1>3

\* The concatenations of the first parts depend on those parts only.
LEMMA PartialAgree ==
  ASSUME NEW ss, NEW tt, NEW up, NEW vp, NEW n \in Nat, NEW m \in Nat, n <= m,
         Partial(ss, n, up), Partial(tt, m, vp),
         \A i \in 1 .. n : ss[i] = tt[i],
         NEW k \in 1 .. n
  PROVE  up[k] = vp[k]
<1> DEFINE good == {i \in 0 .. n : i # 0 => up[i] = vp[i]}
<1>1. \A i \in 1 .. n : up[i] = IF i = 1 THEN ss[i] ELSE up[i - 1] \o ss[i]
  BY DEF Partial
<1>2. \A i \in 1 .. m : vp[i] = IF i = 1 THEN tt[i] ELSE vp[i - 1] \o tt[i]
  BY DEF Partial
<1>3. 0 \in good
  OBVIOUS
<1>4. ASSUME NEW i \in 1 .. n, i - 1 \in good PROVE i \in good
  BY <1>1, <1>2, <1>4
<1>5. 0 .. n \subseteq good
  <2> HIDE DEF good
  <2>1. QED
    BY <1>3, <1>4, UpTo
<1>6. QED
  BY <1>5

\* They are sequences.
LEMMA PartialType ==
  ASSUME NEW S, NEW n \in Nat, NEW ss, \A i \in 1 .. n : ss[i] \in Seq(S),
         NEW up, Partial(ss, n, up)
  PROVE  \A i \in 1 .. n : up[i] \in Seq(S)
<1> DEFINE good == {k \in 0 .. n : k # 0 => up[k] \in Seq(S)}
<1>1. \A i \in 1 .. n : up[i] = IF i = 1 THEN ss[i] ELSE up[i - 1] \o ss[i]
  BY DEF Partial
<1>2. 0 \in good
  OBVIOUS
<1>3. ASSUME NEW k \in 1 .. n, k - 1 \in good PROVE k \in good
  <2>1. CASE k = 1
    BY <1>1, <2>1
  <2>2. CASE k # 1
    <3>1. k - 1 \in 0 .. n /\ k - 1 # 0 /\ k \in 0 .. n
      BY <2>2
    <3>2. up[k - 1] \in Seq(S)
      BY <1>3, <3>1
    <3>3. up[k] = up[k - 1] \o ss[k] /\ ss[k] \in Seq(S)
      BY <1>1, <2>2
    <3>4. up[k] \in Seq(S)
      BY <3>2, <3>3, ConcatProperties
    <3>5. QED
      BY <3>1, <3>4
  <2>3. QED
    BY <2>1, <2>2
<1>4. 0 .. n \subseteq good
  <2> HIDE DEF good
  <2>1. QED
    BY <1>2, <1>3, UpTo
<1>5. QED
  BY <1>4

\* Concatenating no parts.
LEMMA FlattenEmpty == FlattenSeq(<<>>) = <<>>
  BY DEF FlattenSeq

\* Concatenating sequences gives a sequence.
LEMMA FlattenType ==
  ASSUME NEW S, NEW ss \in Seq(Seq(S))
  PROVE  FlattenSeq(ss) \in Seq(S)
<1>1. CASE ss = <<>>
  BY <1>1, FlattenEmpty, EmptySeq
<1>2. CASE ss # <<>>
  <2>1. Len(ss) \in Nat \ {0} /\ \A i \in 1 .. Len(ss) : ss[i] \in Seq(S)
    BY <1>2, EmptySeq, ElementOfSeq
  <2>2. PICK up : Partial(ss, Len(ss), up) /\ FlattenSeq(ss) = up[Len(ss)]
    BY <2>1, FlattenIsPartial
  <2>3. \A i \in 1 .. Len(ss) : up[i] \in Seq(S)
    BY <2>1, <2>2, PartialType
  <2>4. QED
    BY <2>1, <2>2, <2>3
<1>3. QED
  BY <1>1, <1>2

\* A part more at the end.
LEMMA FlattenAppend ==
  ASSUME NEW S, NEW ss \in Seq(Seq(S)), NEW s \in Seq(S)
  PROVE  FlattenSeq(Append(ss, s)) = FlattenSeq(ss) \o s
<1>1. PICK tt \in Seq(Seq(S)) : tt = Append(ss, s)
  BY AppendProperties
<1>2. PICK n \in Nat : n = Len(ss)
  OBVIOUS
<1>3. Len(tt) = n + 1 /\ tt[n + 1] = s /\ \A i \in 1 .. n : tt[i] = ss[i]
  BY <1>1, <1>2, AppendProperties
<1>4. PICK vp : Partial(tt, n + 1, vp) /\ FlattenSeq(tt) = vp[n + 1]
  BY <1>3, FlattenIsPartial, SMTT(30)
<1>5. vp[n + 1] = IF n = 0 THEN s ELSE vp[n] \o s
  <2>1. vp = [i \in 1 .. n + 1 |-> IF i = 1 THEN tt[i] ELSE vp[i - 1] \o tt[i]]
    BY <1>4 DEF Partial
  <2>2. n + 1 \in 1 .. n + 1 /\ (n + 1) - 1 = n /\ (n + 1 = 1 <=> n = 0)
    OBVIOUS
  <2>3. vp[n + 1] = IF n + 1 = 1 THEN tt[n + 1] ELSE vp[(n + 1) - 1] \o tt[n + 1]
    BY <2>1, <2>2
  <2>4. QED
    BY <1>3, <2>2, <2>3
<1>6. CASE n = 0
  <2>1. ss = <<>>
    BY <1>2, <1>6, EmptySeq
  <2>2. <<>> \o s = s
    BY ConcatEmptySeq
  <2>3. QED
    BY <1>1, <1>4, <1>5, <1>6, <2>1, <2>2, FlattenEmpty
<1>7. CASE n # 0
  <2>1. PICK up : Partial(ss, n, up) /\ FlattenSeq(ss) = up[n]
    BY <1>2, <1>7, FlattenIsPartial
  <2>2. up[n] = vp[n]
    <3>1. PICK m \in Nat : m = n + 1 /\ n <= m /\ n \in 1 .. n
      BY <1>7
    <3>2. \A i \in 1 .. n : ss[i] = tt[i]
      BY <1>3
    <3>3. Partial(ss, n, up) /\ Partial(tt, m, vp)
      BY <1>4, <2>1, <3>1
    <3>4. QED
      BY <3>1, <3>2, <3>3, PartialAgree
  <2>3. QED
    BY <1>1, <1>4, <1>5, <1>7, <2>1, <2>2
<1>8. QED
  BY <1>6, <1>7

\* The last part made longer.
LEMMA FlattenLonger ==
  ASSUME NEW S, NEW ss \in Seq(Seq(S)), NEW s \in Seq(S), NEW t \in Seq(S)
  PROVE  FlattenSeq(Append(ss, s \o t)) = FlattenSeq(Append(ss, s)) \o t
<1>1. FlattenSeq(ss) \in Seq(S) /\ s \o t \in Seq(S)
  BY FlattenType
<1>2. FlattenSeq(Append(ss, s \o t)) = FlattenSeq(ss) \o (s \o t)
  BY <1>1, FlattenAppend
<1>3. FlattenSeq(Append(ss, s)) = FlattenSeq(ss) \o s
  BY FlattenAppend
<1>4. QED
  BY <1>1, <1>2, <1>3, ConcatAssociative, SMTT(30)

\* The same, for two sequences of parts that differ in the last only.
LEMMA FlattenLastLonger ==
  ASSUME NEW S, NEW ss \in Seq(Seq(S)), NEW tt \in Seq(Seq(S)), NEW t \in Seq(S),
         ss # <<>>, Len(tt) = Len(ss), tt[Len(ss)] = ss[Len(ss)] \o t,
         \A i \in 1 .. Len(ss) - 1 : tt[i] = ss[i]
  PROVE  FlattenSeq(tt) = FlattenSeq(ss) \o t
<1>1. PICK n \in Nat : n = Len(ss) /\ n # 0 /\ n = Len(tt)
  BY EmptySeq
<1>2. PICK front \in Seq(Seq(S)), s \in Seq(S) : ss = Append(front, s)
  BY SequenceEmptyOrAppend
<1>3. Len(front) = n - 1 /\ ss[n] = s /\ \A i \in 1 .. n - 1 : ss[i] = front[i]
  <2>1. Len(ss) = Len(front) + 1 /\ ss[Len(front) + 1] = s
        /\ \A i \in 1 .. Len(front) : ss[i] = front[i]
    BY <1>2, AppendProperties
  <2>2. Len(front) \in Nat
    BY LenProperties
  <2>3. Len(front) = n - 1 /\ Len(front) + 1 = n
    BY <1>1, <2>1, <2>2
  <2>4. QED
    BY <2>1, <2>3
<1>4. s \o t \in Seq(S) /\ tt[n] = s \o t
  BY <1>1, <1>3, ConcatProperties
<1>5. PICK uu \in Seq(Seq(S)) : uu = Append(front, s \o t)
  BY <1>4, AppendProperties
<1>6. Len(uu) = n /\ uu[n] = s \o t /\ \A i \in 1 .. n - 1 : uu[i] = front[i]
  <2>1. Len(uu) = Len(front) + 1 /\ uu[Len(front) + 1] = s \o t
        /\ \A i \in 1 .. Len(front) : uu[i] = front[i]
    BY <1>4, <1>5, AppendProperties
  <2>2. Len(front) + 1 = n
    BY <1>1, <1>3
  <2>3. QED
    BY <1>3, <2>1, <2>2
<1>7. tt = uu
  <2>1. ASSUME NEW i \in 1 .. n PROVE tt[i] = uu[i]
    <3>1. CASE i = n
      BY <1>4, <1>6, <3>1
    <3>2. CASE i # n
      <4>1. i \in 1 .. n - 1
        BY <3>2
      <4>2. QED
        BY <1>1, <1>3, <1>6, <4>1
    <3>3. QED
      BY <3>1, <3>2
  <2>2. QED
    BY <1>1, <1>6, <2>1, SeqEqual
<1>8. QED
  BY <1>2, <1>5, <1>7, FlattenLonger

-----------------------------------------------------------------------------
(* What the values of the state are *)

Result == [call : Texts, known : BOOLEAN, bad : BOOLEAN]

Message ==
    [role : Roles, text : Texts \cup {None}, time : Nat, thoughts : Seq(Texts),
     hidden : BOOLEAN, calls : Seq(Texts), results : Seq(Result), plans : Seq(Texts),
     usage : Nat, sidechain : BOOLEAN]

Pending ==
    [thoughts : Seq(Texts), hidden : BOOLEAN, calls : Seq(Texts), results : Seq(Result),
     plans : Seq(Texts), time : Nat]

LoadState ==
    [messages : Seq(Message), called : SUBSET Texts, pending : Pending,
     windowStart : Nat, windowFirst : Nat, total : Nat]

ScanState ==
    [count : Nat, first : Texts \cup {None}, lastRole : Roles \cup {None},
     lastText : Texts \cup {None}, calls : SUBSET Texts, errors : Nat, usage : Nat]

\* The parts that CallsOf and ResultsOf concatenate.
LEMMA PartsType ==
  ASSUME NEW messages \in Seq(Message)
  PROVE  /\ [i \in 1 .. Len(messages) |-> messages[i].calls] \in Seq(Seq(Texts))
         /\ [i \in 1 .. Len(messages) |-> messages[i].results] \in Seq(Seq(Result))
         /\ Len([i \in 1 .. Len(messages) |-> messages[i].calls]) = Len(messages)
         /\ Len([i \in 1 .. Len(messages) |-> messages[i].results]) = Len(messages)
<1>1. PICK n \in Nat : n = Len(messages)
  BY LenProperties
<1>2. \A i \in 1 .. n : messages[i] \in Message
  BY <1>1, ElementOfSeq
<1>3. \A i \in 1 .. n : messages[i].calls \in Seq(Texts) /\ messages[i].results \in Seq(Result)
  BY <1>2 DEF Message
<1>4. [i \in 1 .. n |-> messages[i].calls] \in [1 .. n -> Seq(Texts)]
  BY <1>3
<1>5. [i \in 1 .. n |-> messages[i].results] \in [1 .. n -> Seq(Result)]
  BY <1>3
<1>6. QED
  BY <1>1, <1>4, <1>5, SMTT(30)

\* The calls and results of messages are sequences.
LEMMA OfType ==
  ASSUME NEW messages \in Seq(Message)
  PROVE  CallsOf(messages) \in Seq(Texts) /\ ResultsOf(messages) \in Seq(Result)
  BY PartsType, FlattenType DEF CallsOf, ResultsOf

\* more holds what messages hold and, after it, what is named.
Adds(messages, more, calls, results, plans, thoughts) ==
    /\ more \in Seq(Message)
    /\ CallsOf(more) = CallsOf(messages) \o calls
    /\ ResultsOf(more) = ResultsOf(messages) \o results
    /\ PlansOf(more) = PlansOf(messages) \cup plans
    /\ ThoughtsOf(more) = ThoughtsOf(messages) \cup thoughts

\* more is messages and msg after them.
IsAppended(messages, msg, more) ==
    /\ Len(more) = Len(messages) + 1
    /\ more[Len(messages) + 1] = msg
    /\ \A i \in 1 .. Len(messages) : more[i] = messages[i]
    /\ Adds(messages, more, msg.calls, msg.results, ToSet(msg.plans), ToSet(msg.thoughts))

\* more is messages with another last message.
IsReplaced(messages, msg, more) ==
    /\ Len(more) = Len(messages)
    /\ more[Len(messages)] = msg
    /\ \A i \in 1 .. Len(messages) - 1 : more[i] = messages[i]

\* A message more.
LEMMA Appended ==
  ASSUME NEW messages \in Seq(Message), NEW msg \in Message,
         NEW more, more = Append(messages, msg)
  PROVE  IsAppended(messages, msg, more)
<1>1. more \in Seq(Message) /\ more = Append(messages, msg)
  BY AppendProperties
<1>2. PICK n \in Nat : n = Len(messages)
  BY LenProperties
<1>3. Len(more) = n + 1 /\ more[n + 1] = msg /\ \A i \in 1 .. n : more[i] = messages[i]
  BY <1>1, <1>2, AppendProperties
<1>4. msg.calls \in Seq(Texts) /\ msg.results \in Seq(Result)
  BY DEF Message
<1>5. CallsOf(more) = CallsOf(messages) \o msg.calls
  <2>1. PICK ss \in Seq(Seq(Texts)) : ss = [i \in 1 .. n |-> messages[i].calls] /\ Len(ss) = n
    BY <1>2, PartsType
  <2>2. PICK tt \in Seq(Seq(Texts)) : tt = [i \in 1 .. n + 1 |-> more[i].calls] /\ Len(tt) = n + 1
    BY <1>1, <1>3, PartsType
  <2>3. Append(ss, msg.calls) \in Seq(Seq(Texts)) /\ Len(Append(ss, msg.calls)) = n + 1
        /\ Append(ss, msg.calls)[n + 1] = msg.calls
        /\ \A i \in 1 .. n : Append(ss, msg.calls)[i] = ss[i]
    BY <1>4, <2>1, AppendProperties
  <2>4. \A i \in 1 .. n + 1 : tt[i] = Append(ss, msg.calls)[i]
    BY <1>3, <2>1, <2>2, <2>3
  <2>5. tt = Append(ss, msg.calls)
    BY <2>2, <2>3, <2>4, SeqEqual
  <2>6. FlattenSeq(tt) = FlattenSeq(ss) \o msg.calls
    BY <1>4, <2>5, FlattenAppend
  <2>7. QED
    BY <1>2, <1>3, <2>1, <2>2, <2>6 DEF CallsOf
<1>6. ResultsOf(more) = ResultsOf(messages) \o msg.results
  <2>1. PICK ss \in Seq(Seq(Result)) : ss = [i \in 1 .. n |-> messages[i].results] /\ Len(ss) = n
    BY <1>2, PartsType
  <2>2. PICK tt \in Seq(Seq(Result)) : tt = [i \in 1 .. n + 1 |-> more[i].results] /\ Len(tt) = n + 1
    BY <1>1, <1>3, PartsType
  <2>3. Append(ss, msg.results) \in Seq(Seq(Result)) /\ Len(Append(ss, msg.results)) = n + 1
        /\ Append(ss, msg.results)[n + 1] = msg.results
        /\ \A i \in 1 .. n : Append(ss, msg.results)[i] = ss[i]
    BY <1>4, <2>1, AppendProperties
  <2>4. \A i \in 1 .. n + 1 : tt[i] = Append(ss, msg.results)[i]
    BY <1>3, <2>1, <2>2, <2>3
  <2>5. tt = Append(ss, msg.results)
    BY <2>2, <2>3, <2>4, SeqEqual
  <2>6. FlattenSeq(tt) = FlattenSeq(ss) \o msg.results
    BY <1>4, <2>5, FlattenAppend
  <2>7. QED
    BY <1>2, <1>3, <2>1, <2>2, <2>6 DEF ResultsOf
<1>7. 1 .. n + 1 = 1 .. n \cup {n + 1}
  OBVIOUS
<1>8. PlansOf(more) = PlansOf(messages) \cup ToSet(msg.plans)
  BY <1>2, <1>3, <1>7 DEF PlansOf
<1>9. ThoughtsOf(more) = ThoughtsOf(messages) \cup ToSet(msg.thoughts)
  BY <1>2, <1>3, <1>7 DEF ThoughtsOf
<1>10. QED
  BY <1>1, <1>2, <1>3, <1>5, <1>6, <1>8, <1>9 DEF Adds, IsAppended

\* The last message exchanged for one with more in it.
LEMMA LastReplaced ==
  ASSUME NEW messages \in Seq(Message), messages # <<>>, NEW msg \in Message,
         NEW calls \in Seq(Texts), NEW results \in Seq(Result), NEW plans, NEW thoughts,
         msg.calls = messages[Len(messages)].calls \o calls,
         msg.results = messages[Len(messages)].results \o results,
         ToSet(msg.plans) = ToSet(messages[Len(messages)].plans) \cup plans,
         ToSet(msg.thoughts) = ToSet(messages[Len(messages)].thoughts) \cup thoughts,
         NEW more, more = [messages EXCEPT ![Len(messages)] = msg]
  PROVE  /\ IsReplaced(messages, msg, more)
         /\ Adds(messages, more, calls, results, plans, thoughts)
<1>1. PICK n \in Nat : n = Len(messages) /\ n # 0
  BY EmptySeq
<1>a. n \in 1 .. n /\ n \in 1 .. Len(messages)
  BY <1>1
<1>2. more \in Seq(Message) /\ more = [messages EXCEPT ![n] = msg]
  BY <1>1, <1>a, ExceptSeq
<1>3. Len(more) = n /\ more[n] = msg /\ \A i \in 1 .. n - 1 : more[i] = messages[i]
  <2>1. Len(more) = Len(messages) /\ \A i \in 1 .. n : more[i] = IF i = n THEN msg ELSE messages[i]
    BY <1>1, <1>2, <1>a, ExceptSeq
  <2>2. \A i \in 1 .. n - 1 : i \in 1 .. n /\ i # n
    BY <1>1
  <2>3. QED
    BY <1>1, <1>a, <2>1, <2>2
<1>4. CallsOf(more) = CallsOf(messages) \o calls
  <2>1. PICK ss \in Seq(Seq(Texts)) : ss = [i \in 1 .. n |-> messages[i].calls] /\ Len(ss) = n
    BY <1>1, PartsType
  <2>2. PICK tt \in Seq(Seq(Texts)) : tt = [i \in 1 .. n |-> more[i].calls] /\ Len(tt) = n
    BY <1>2, <1>3, PartsType
  <2>a. tt[n] = more[n].calls /\ ss[n] = messages[n].calls
    BY <1>a, <2>1, <2>2
  <2>b. more[n].calls = messages[n].calls \o calls
    BY <1>1, <1>3
  <2>c. ASSUME NEW i \in 1 .. n - 1 PROVE tt[i] = ss[i]
    <3>1. i \in 1 .. n
      BY <1>1
    <3>2. QED
      BY <1>3, <2>1, <2>2, <3>1
  <2>3. tt[Len(ss)] = ss[Len(ss)] \o calls /\ \A i \in 1 .. Len(ss) - 1 : tt[i] = ss[i]
    BY <2>1, <2>a, <2>b, <2>c
  <2>4. ss # <<>>
    BY <1>1, <2>1, EmptySeq
  <2>5. FlattenSeq(tt) = FlattenSeq(ss) \o calls
    <3>1. Len(tt) = Len(ss)
      BY <2>1, <2>2
    <3>2. QED
      BY <2>3, <2>4, <3>1, FlattenLastLonger
  <2>6. QED
    BY <1>1, <1>3, <2>1, <2>2, <2>5 DEF CallsOf
<1>5. ResultsOf(more) = ResultsOf(messages) \o results
  <2>1. PICK ss \in Seq(Seq(Result)) : ss = [i \in 1 .. n |-> messages[i].results] /\ Len(ss) = n
    BY <1>1, PartsType
  <2>2. PICK tt \in Seq(Seq(Result)) : tt = [i \in 1 .. n |-> more[i].results] /\ Len(tt) = n
    BY <1>2, <1>3, PartsType
  <2>a. tt[n] = more[n].results /\ ss[n] = messages[n].results
    BY <1>a, <2>1, <2>2
  <2>b. more[n].results = messages[n].results \o results
    BY <1>1, <1>3
  <2>c. ASSUME NEW i \in 1 .. n - 1 PROVE tt[i] = ss[i]
    <3>1. i \in 1 .. n
      BY <1>1
    <3>2. QED
      BY <1>3, <2>1, <2>2, <3>1
  <2>3. tt[Len(ss)] = ss[Len(ss)] \o results /\ \A i \in 1 .. Len(ss) - 1 : tt[i] = ss[i]
    BY <2>1, <2>a, <2>b, <2>c
  <2>4. ss # <<>>
    BY <1>1, <2>1, EmptySeq
  <2>5. FlattenSeq(tt) = FlattenSeq(ss) \o results
    <3>1. Len(tt) = Len(ss)
      BY <2>1, <2>2
    <3>2. QED
      BY <2>3, <2>4, <3>1, FlattenLastLonger
  <2>6. QED
    BY <1>1, <1>3, <2>1, <2>2, <2>5 DEF ResultsOf
<1>6. 1 .. n = 1 .. n - 1 \cup {n}
  BY <1>1
<1>7. PlansOf(more) = PlansOf(messages) \cup plans
  <2> DEFINE front == UNION {ToSet(messages[i].plans) : i \in 1 .. n - 1}
  <2>1. PlansOf(messages) = front \cup ToSet(messages[n].plans)
    BY <1>1, <1>6 DEF PlansOf
  <2>a. UNION {ToSet(more[i].plans) : i \in 1 .. n - 1} = front
    BY <1>3
  <2>2. PlansOf(more) = front \cup ToSet(more[n].plans)
    <3>1. PlansOf(more) = UNION {ToSet(more[i].plans) : i \in 1 .. n}
      BY <1>3 DEF PlansOf
    <3> HIDE DEF front
    <3>2. QED
      BY <1>6, <2>a, <3>1
  <2>3. ToSet(more[n].plans) = ToSet(messages[n].plans) \cup plans
    BY <1>1, <1>3
  <2>4. QED
    BY <2>1, <2>2, <2>3
<1>8. ThoughtsOf(more) = ThoughtsOf(messages) \cup thoughts
  <2> DEFINE front == UNION {ToSet(messages[i].thoughts) : i \in 1 .. n - 1}
  <2>1. ThoughtsOf(messages) = front \cup ToSet(messages[n].thoughts)
    BY <1>1, <1>6 DEF ThoughtsOf
  <2>a. UNION {ToSet(more[i].thoughts) : i \in 1 .. n - 1} = front
    BY <1>3
  <2>2. ThoughtsOf(more) = front \cup ToSet(more[n].thoughts)
    <3>1. ThoughtsOf(more) = UNION {ToSet(more[i].thoughts) : i \in 1 .. n}
      BY <1>3 DEF ThoughtsOf
    <3> HIDE DEF front
    <3>2. QED
      BY <1>6, <2>a, <3>1
  <2>3. ToSet(more[n].thoughts) = ToSet(messages[n].thoughts) \cup thoughts
    BY <1>1, <1>3
  <2>4. QED
    BY <2>1, <2>2, <2>3
<1>9. QED
  BY <1>1, <1>2, <1>3, <1>4, <1>5, <1>7, <1>8 DEF Adds, IsReplaced

-----------------------------------------------------------------------------
(* The helpers of the load *)

\* up holds what AppendUniquePlans has after each of the added plans.
Grown(plans, added, n, up) ==
    up = [i \in 0 .. n |->
            IF i = 0 THEN plans
            ELSE IF Contains(up[i - 1], added[i]) THEN up[i - 1]
            ELSE Append(up[i - 1], added[i])]

\* It exists, however many plans are added.
LEMMA GrownExists ==
  ASSUME NEW plans, NEW added, NEW n \in Nat
  PROVE  \E up : Grown(plans, added, n, up)
<1> DEFINE step(before, k) == IF Contains(before, added[k]) THEN before ELSE Append(before, added[k])
           good == {k \in 0 .. n : \E up : Grown(plans, added, k, up)}
<1>1. 0 \in good
  <2>1. Grown(plans, added, 0, [i \in 0 .. 0 |-> plans])
    BY DEF Grown
  <2>2. QED
    BY <2>1
<1>2. ASSUME NEW k \in 1 .. n, k - 1 \in good PROVE k \in good
  <2>1. PICK up : Grown(plans, added, k - 1, up)
    BY <1>2
  <2>2. PICK longer : longer = [i \in 0 .. k |-> IF i = k THEN step(up[k - 1], k) ELSE up[i]]
    OBVIOUS
  <2>3. \A i \in 0 .. (k - 1) : up[i] = IF i = 0 THEN plans ELSE step(up[i - 1], i)
    BY <2>1 DEF Grown
  <2> HIDE DEF step
  <2>4. \A i \in 0 .. k : longer[i] = IF i = 0 THEN plans ELSE step(longer[i - 1], i)
    <3> TAKE i \in 0 .. k
    <3>1. CASE i = k
      BY <2>2, <3>1
    <3>2. CASE i # k
      <4>1. i \in 0 .. (k - 1) /\ (i # 0 => i - 1 \in 0 .. (k - 1))
        BY <3>2
      <4>2. longer[i] = up[i] /\ (i # 0 => longer[i - 1] = up[i - 1])
        BY <2>2, <3>2, <4>1
      <4>3. QED
        BY <2>3, <4>1, <4>2
    <3>3. QED
      BY <3>1, <3>2
  <2>5. longer = [i \in 0 .. k |-> longer[i]]
    BY <2>2
  <2>6. Grown(plans, added, k, longer)
    BY <2>4, <2>5 DEF Grown, step
  <2>7. QED
    BY <2>6
<1>3. 0 .. n \subseteq good
  <2> HIDE DEF good
  <2>1. QED
    BY <1>1, <1>2, UpTo
<1>4. QED
  BY <1>3

\* One more of anything.
LEMMA AppendSet ==
  ASSUME NEW S, NEW s \in Seq(S), NEW e \in S
  PROVE  Append(s, e) \in Seq(S) /\ ToSet(Append(s, e)) = ToSet(s) \cup {e}
<1>1. PICK t \in Seq(S) : t = Append(s, e)
  BY AppendProperties
<1>2. Len(t) = Len(s) + 1 /\ t[Len(s) + 1] = e /\ \A i \in 1 .. Len(s) : t[i] = s[i]
  BY <1>1, AppendProperties
<1>3. DOMAIN s = 1 .. Len(s) /\ DOMAIN t = 1 .. Len(t) /\ Len(s) \in Nat
  BY LenProperties
<1>4. 1 .. Len(t) = 1 .. Len(s) \cup {Len(s) + 1}
  BY <1>2, <1>3
<1>5. ToSet(s) = {s[i] : i \in 1 .. Len(s)} /\ ToSet(t) = {t[i] : i \in 1 .. Len(t)}
  BY <1>3 DEF ToSet
<1>6. ToSet(t) = {t[i] : i \in 1 .. Len(s)} \cup {t[Len(s) + 1]}
  BY <1>4, <1>5
<1>7. {t[i] : i \in 1 .. Len(s)} = {s[i] : i \in 1 .. Len(s)}
  BY <1>2
<1>8. ToSet(t) = ToSet(s) \cup {e}
  BY <1>2, <1>5, <1>6, <1>7
<1>9. QED
  BY <1>1, <1>8

\* Plans are added, whichever are there already.
LEMMA UniquePlans ==
  ASSUME NEW plans \in Seq(Texts), NEW added \in Seq(Texts)
  PROVE  /\ AppendUniquePlans(plans, added) \in Seq(Texts)
         /\ ToSet(AppendUniquePlans(plans, added)) = ToSet(plans) \cup ToSet(added)
<1>1. CASE plans = <<>>
  <2>1. AppendUniquePlans(plans, added) = added
    BY <1>1 DEF AppendUniquePlans
  <2>2. ToSet(plans) = {}
    BY <1>1 DEF ToSet
  <2>3. QED
    BY <2>1, <2>2
<1>2. CASE plans # <<>>
  <2>1. PICK n \in Nat : n = Len(added) /\ DOMAIN added = 1 .. n
    BY LenProperties
  <2>2. PICK up : Grown(plans, added, n, up) /\ AppendUniquePlans(plans, added) = up[n]
    <3>1. AppendUniquePlans(plans, added) = (CHOOSE up : Grown(plans, added, n, up))[n]
      BY <1>2, <2>1 DEF AppendUniquePlans, Grown
    <3>2. QED
      BY <3>1, GrownExists
  <2>3. up[0] = plans
    <3>1. 0 \in 0 .. n
      OBVIOUS
    <3>2. QED
      BY <2>2, <3>1 DEF Grown
  <2>4. \A i \in 1 .. n : up[i] = IF Contains(up[i - 1], added[i]) THEN up[i - 1]
                                   ELSE Append(up[i - 1], added[i])
    <3> TAKE i \in 1 .. n
    <3>1. i \in 0 .. n /\ i # 0
      OBVIOUS
    <3>2. QED
      BY <2>2, <3>1 DEF Grown
  <2> DEFINE good == {k \in 0 .. n : /\ up[k] \in Seq(Texts)
                                     /\ ToSet(up[k]) = ToSet(plans) \cup {added[j] : j \in 1 .. k}}
  <2>5. 0 \in good
    BY <2>3
  <2>6. ASSUME NEW k \in 1 .. n, k - 1 \in good PROVE k \in good
    <3>1. up[k - 1] \in Seq(Texts) /\ ToSet(up[k - 1]) = ToSet(plans) \cup {added[j] : j \in 1 .. k - 1}
      BY <2>6
    <3>2. added[k] \in Texts
      BY <2>1
    <3>3. 1 .. k = (1 .. k - 1) \cup {k}
      OBVIOUS
    <3>4. {added[j] : j \in 1 .. k} = {added[j] : j \in 1 .. k - 1} \cup {added[k]}
      BY <3>3
    <3>5. CASE Contains(up[k - 1], added[k])
      <4>1. up[k] = up[k - 1]
        BY <2>4, <3>5
      <4>2. added[k] \in ToSet(up[k - 1])
        BY <3>1, <3>5, LenProperties DEF Contains, ToSet
      <4>3. QED
        BY <3>1, <3>4, <4>1, <4>2
    <3>6. CASE ~Contains(up[k - 1], added[k])
      <4>1. up[k] = Append(up[k - 1], added[k])
        BY <2>4, <3>6
      <4>2. up[k] \in Seq(Texts) /\ ToSet(up[k]) = ToSet(up[k - 1]) \cup {added[k]}
        <5>1. PICK s \in Seq(Texts) : s = up[k - 1]
          BY <3>1
        <5>2. Append(s, added[k]) \in Seq(Texts) /\ ToSet(Append(s, added[k])) = ToSet(s) \cup {added[k]}
          BY <3>2, AppendSet
        <5>3. QED
          BY <4>1, <5>1, <5>2
      <4>3. QED
        BY <3>1, <3>4, <4>2
    <3>7. QED
      BY <3>5, <3>6
  <2>7. 0 .. n \subseteq good
    <3> HIDE DEF good
    <3>1. QED
      BY <2>5, <2>6, UpTo
  <2>8. up[n] \in Seq(Texts) /\ ToSet(up[n]) = ToSet(plans) \cup {added[j] : j \in 1 .. n}
    <3>1. n \in 0 .. n
      OBVIOUS
    <3>2. n \in good
      <4> HIDE DEF good
      <4>1. QED
        BY <2>7, <3>1
    <3>3. QED
      BY <3>2
  <2>9. ToSet(added) = {added[j] : j \in 1 .. n}
    BY <2>1 DEF ToSet
  <2>10. QED
    BY <2>2, <2>8, <2>9
<1>3. QED
  BY <1>1, <1>2

\* What is said of concatenated texts is what is said of each.
LEMMA ConcatSet ==
  ASSUME NEW S, NEW s \in Seq(S), NEW t \in Seq(S)
  PROVE  s \o t \in Seq(S) /\ ToSet(s \o t) = ToSet(s) \cup ToSet(t)
<1>1. PICK n \in Nat, m \in Nat : n = Len(s) /\ m = Len(t) /\ DOMAIN s = 1 .. n /\ DOMAIN t = 1 .. m
  BY LenProperties
<1>2. PICK u \in Seq(S) : u = s \o t
  BY ConcatProperties
<1>3. Len(u) = n + m /\ DOMAIN u = 1 .. n + m
      /\ \A i \in 1 .. n + m : u[i] = IF i <= n THEN s[i] ELSE t[i - n]
  BY <1>1, <1>2, ConcatProperties, LenProperties
<1>4. ToSet(u) \subseteq ToSet(s) \cup ToSet(t)
  <2>1. ASSUME NEW i \in 1 .. n + m PROVE u[i] \in ToSet(s) \cup ToSet(t)
    <3>1. CASE i <= n
      <4>1. i \in 1 .. n /\ u[i] = s[i]
        BY <1>3, <3>1
      <4>2. QED
        BY <1>1, <4>1 DEF ToSet
    <3>2. CASE ~(i <= n)
      <4>1. i - n \in 1 .. m /\ u[i] = t[i - n]
        BY <1>3, <3>2
      <4>2. QED
        BY <1>1, <4>1 DEF ToSet
    <3>3. QED
      BY <3>1, <3>2
  <2>2. QED
    BY <1>3, <2>1 DEF ToSet
<1>5. ASSUME NEW i \in 1 .. n PROVE s[i] \in ToSet(u)
  <2>1. i \in 1 .. n + m /\ u[i] = s[i]
    BY <1>3
  <2>2. QED
    BY <1>3, <2>1 DEF ToSet
<1>6. ASSUME NEW i \in 1 .. m PROVE t[i] \in ToSet(u)
  <2>1. i + n \in 1 .. n + m /\ ~(i + n <= n) /\ (i + n) - n = i
    OBVIOUS
  <2>2. u[i + n] = t[i]
    BY <1>3, <2>1
  <2>3. QED
    BY <1>3, <2>1, <2>2 DEF ToSet
<1>7. ToSet(s) \subseteq ToSet(u)
  BY <1>1, <1>5 DEF ToSet
<1>8. ToSet(t) \subseteq ToSet(u)
  BY <1>1, <1>6 DEF ToSet
<1>9. QED
  BY <1>2, <1>4, <1>7, <1>8

\* Thoughts are joined.
LEMMA JoinedText ==
  ASSUME NEW s \in Seq(Texts), NEW t \in Seq(Texts)
  PROVE  /\ JoinUniqueText(s, t) \in Seq(Texts)
         /\ ToSet(JoinUniqueText(s, t)) = ToSet(s) \cup ToSet(t)
  BY ConcatSet DEF JoinUniqueText

\* more is messages with one assistant message taken in: dropped when it is
\* empty, merged into the last message when it repeats it, else appended.
\* No message changes its role, its text or its usage.
TookIn(messages, msg, more) ==
    /\ Adds(messages, more, msg.calls, msg.results, ToSet(msg.plans), ToSet(msg.thoughts))
    /\ \A i \in 1 .. Len(messages) :
        /\ more[i].role = messages[i].role
        /\ more[i].text = messages[i].text
        /\ more[i].usage = messages[i].usage
        /\ more[i].time \in {messages[i].time, MaxTime(messages[i].time, msg.time)}
        /\ more[i].hidden /\ (messages[i].hidden => messages[i].thoughts = <<>>)
            => more[i].thoughts = <<>>
    /\ \/ Len(more) = Len(messages) /\ IsEmptyMessage(msg)
       \/ Len(more) = Len(messages) /\ IsEcho(messages, msg)
       \/ /\ Len(more) = Len(messages) + 1 /\ more[Len(messages) + 1] = msg
          /\ ~IsEmptyMessage(msg) /\ ~IsEcho(messages, msg)

\* What a message merged into the last one gives.
LEMMA Merged ==
  ASSUME NEW old \in Message, NEW msg \in Message
  PROVE  LET both == MergeAdjacent(old, msg) IN
         /\ both \in Message
         /\ both.role = old.role /\ both.text = old.text /\ both.usage = old.usage
         /\ both.time = MaxTime(old.time, msg.time)
         /\ both.calls = old.calls \o msg.calls
         /\ both.results = old.results \o msg.results
         /\ ToSet(both.plans) = ToSet(old.plans) \cup ToSet(msg.plans)
         /\ ToSet(both.thoughts) = ToSet(old.thoughts) \cup ToSet(msg.thoughts)
         /\ both.hidden => both.thoughts = <<>>
<1>1. /\ old.thoughts \in Seq(Texts) /\ msg.thoughts \in Seq(Texts)
      /\ old.plans \in Seq(Texts) /\ msg.plans \in Seq(Texts)
      /\ old.calls \in Seq(Texts) /\ msg.calls \in Seq(Texts)
      /\ old.results \in Seq(Result) /\ msg.results \in Seq(Result)
      /\ old.hidden \in BOOLEAN /\ msg.hidden \in BOOLEAN
      /\ old.time \in Nat /\ msg.time \in Nat
  BY DEF Message
<1>2. PICK thoughts \in Seq(Texts) : /\ thoughts = JoinUniqueText(old.thoughts, msg.thoughts)
                                     /\ ToSet(thoughts) = ToSet(old.thoughts) \cup ToSet(msg.thoughts)
  BY <1>1, JoinedText
<1>3. PICK plans \in Seq(Texts) : /\ plans = AppendUniquePlans(old.plans, msg.plans)
                                  /\ ToSet(plans) = ToSet(old.plans) \cup ToSet(msg.plans)
  BY <1>1, UniquePlans
<1>4. PICK calls \in Seq(Texts) : calls = old.calls \o msg.calls
  BY <1>1, ConcatProperties
<1>5. PICK results \in Seq(Result) : results = old.results \o msg.results
  BY <1>1, ConcatProperties
<1>6. PICK time \in Nat : time = MaxTime(old.time, msg.time)
  BY <1>1 DEF MaxTime
<1>7. PICK hidden \in BOOLEAN : hidden = (thoughts = <<>> /\ (old.hidden \/ msg.hidden))
  OBVIOUS
<1>8. MergeAdjacent(old, msg) =
        [old EXCEPT !.thoughts = thoughts, !.hidden = hidden, !.calls = calls,
                    !.results = results, !.plans = plans, !.time = time]
  BY <1>2, <1>3, <1>4, <1>5, <1>6, <1>7 DEF MergeAdjacent
<1>9. QED
  BY <1>2, <1>3, <1>4, <1>5, <1>6, <1>7, <1>8, ZenonT(60) DEF Message

\* An assistant message is dropped, merged or appended.
LEMMA AppendAssistantTakesIn ==
  ASSUME NEW messages \in Seq(Message), NEW msg \in Message
  PROVE  TookIn(messages, msg, AppendAssistant(messages, msg))
<1>1. PICK n \in Nat : n = Len(messages)
  BY LenProperties
<1>2. \A i \in 1 .. n : messages[i] \in Message
  BY <1>1, ElementOfSeq
<1>3. CallsOf(messages) \in Seq(Texts) /\ ResultsOf(messages) \in Seq(Result)
  BY OfType
<1>4. CASE IsEmptyMessage(msg)
  <2>1. AppendAssistant(messages, msg) = messages
    BY <1>4 DEF AppendAssistant
  <2>2. msg.calls = <<>> /\ msg.results = <<>> /\ ToSet(msg.plans) = {} /\ ToSet(msg.thoughts) = {}
    BY <1>4 DEF IsEmptyMessage, ToSet
  <2>3. CallsOf(messages) \o <<>> = CallsOf(messages) /\ ResultsOf(messages) \o <<>> = ResultsOf(messages)
    BY <1>3, ConcatEmptySeq
  <2>4. QED
    BY <1>4, <2>1, <2>2, <2>3 DEF TookIn, Adds
<1>5. CASE ~IsEmptyMessage(msg) /\ IsEcho(messages, msg)
  <2>1. messages # <<>> /\ n # 0 /\ n \in 1 .. n
    BY <1>1, <1>5, EmptySeq DEF IsEcho
  <2>2. PICK both \in Message :
            /\ both = MergeAdjacent(messages[n], msg)
            /\ both.role = messages[n].role /\ both.text = messages[n].text
            /\ both.usage = messages[n].usage
            /\ both.time = MaxTime(messages[n].time, msg.time)
            /\ both.calls = messages[n].calls \o msg.calls
            /\ both.results = messages[n].results \o msg.results
            /\ ToSet(both.plans) = ToSet(messages[n].plans) \cup ToSet(msg.plans)
            /\ ToSet(both.thoughts) = ToSet(messages[n].thoughts) \cup ToSet(msg.thoughts)
            /\ both.hidden => both.thoughts = <<>>
    BY <1>2, <2>1, Merged
  <2>3. PICK more : more = [messages EXCEPT ![n] = both] /\ more = AppendAssistant(messages, msg)
    BY <1>1, <1>5, <2>2 DEF AppendAssistant
  <2>4. msg.calls \in Seq(Texts) /\ msg.results \in Seq(Result)
    BY DEF Message
  <2>5. /\ Len(more) = n /\ more[n] = both
        /\ \A i \in 1 .. n - 1 : more[i] = messages[i]
        /\ Adds(messages, more, msg.calls, msg.results, ToSet(msg.plans), ToSet(msg.thoughts))
    <3>1. /\ both.calls = messages[Len(messages)].calls \o msg.calls
          /\ both.results = messages[Len(messages)].results \o msg.results
          /\ ToSet(both.plans) = ToSet(messages[Len(messages)].plans) \cup ToSet(msg.plans)
          /\ ToSet(both.thoughts) = ToSet(messages[Len(messages)].thoughts) \cup ToSet(msg.thoughts)
      BY <1>1, <2>2
    <3>2. more = [messages EXCEPT ![Len(messages)] = both]
      BY <1>1, <2>3
    <3>3. /\ IsReplaced(messages, both, more)
          /\ Adds(messages, more, msg.calls, msg.results, ToSet(msg.plans), ToSet(msg.thoughts))
      BY <2>1, <2>4, <3>1, <3>2, LastReplaced
    <3>4. QED
      BY <1>1, <3>3 DEF IsReplaced
  <2>6. ASSUME NEW i \in 1 .. n
        PROVE  /\ more[i].role = messages[i].role
               /\ more[i].text = messages[i].text
               /\ more[i].usage = messages[i].usage
               /\ more[i].time \in {messages[i].time, MaxTime(messages[i].time, msg.time)}
               /\ more[i].hidden /\ (messages[i].hidden => messages[i].thoughts = <<>>)
                    => more[i].thoughts = <<>>
    <3>1. CASE i = n
      BY <2>2, <2>5, <3>1
    <3>2. CASE i # n
      <4>1. i \in 1 .. n - 1
        BY <3>2
      <4>2. QED
        BY <2>5, <4>1
    <3>3. QED
      BY <3>1, <3>2
  <2>7. QED
    BY <1>1, <1>5, <2>3, <2>5, <2>6 DEF TookIn
<1>6. CASE ~IsEmptyMessage(msg) /\ ~IsEcho(messages, msg)
  <2>1. PICK more : more = Append(messages, msg) /\ more = AppendAssistant(messages, msg)
    BY <1>6 DEF AppendAssistant
  <2>2. /\ Len(more) = n + 1 /\ more[n + 1] = msg
        /\ \A i \in 1 .. n : more[i] = messages[i]
        /\ Adds(messages, more, msg.calls, msg.results, ToSet(msg.plans), ToSet(msg.thoughts))
    <3>1. IsAppended(messages, msg, more)
      BY <2>1, Appended
    <3>2. QED
      BY <1>1, <3>1 DEF IsAppended
  <2>3. QED
    BY <1>1, <1>6, <2>1, <2>2 DEF TookIn
<1>7. QED
  BY <1>4, <1>5, <1>6

-----------------------------------------------------------------------------
(* What a flush does *)

\* The parts of a rollout's state.
LEMMA LoadParts ==
  ASSUME NEW l \in LoadState
  PROVE  /\ l.messages \in Seq(Message) /\ l.called \in SUBSET Texts
         /\ l.pending \in Pending
         /\ l.windowStart \in Nat /\ l.windowFirst \in Nat /\ l.total \in Nat
         /\ Len(l.messages) \in Nat
  BY LenProperties DEF LoadState

\* The parts of what waits for its message.
LEMMA PendingParts ==
  ASSUME NEW p \in Pending
  PROVE  /\ p.thoughts \in Seq(Texts) /\ p.hidden \in BOOLEAN /\ p.calls \in Seq(Texts)
         /\ p.results \in Seq(Result) /\ p.plans \in Seq(Texts) /\ p.time \in Nat
  BY DEF Pending

\* Nothing waiting is a kind of waiting.
LEMMA NothingPendingType == NothingPending \in Pending
  BY EmptySeq DEF NothingPending, Pending

\* The message made of what waits.
IsMadeOf(p, text, time, msg) ==
    /\ msg \in Message
    /\ msg.role = "assistant" /\ msg.text = text /\ msg.time = MaxTime(p.time, time)
    /\ msg.thoughts = p.thoughts /\ msg.hidden = (p.hidden /\ p.thoughts = <<>>)
    /\ msg.calls = p.calls /\ msg.results = p.results /\ msg.plans = p.plans
    /\ msg.usage = 0

\* What waits makes a message of the assistant.
LEMMA MessageMade ==
  ASSUME NEW p \in Pending, NEW text \in Texts \cup {None}, NEW time \in Nat
  PROVE  IsMadeOf(p, text, time, AssistantMessage(p, text, time))
<1>1. PICK t \in Nat : t = MaxTime(p.time, time)
  BY PendingParts DEF MaxTime
<1>2. PICK hidden \in BOOLEAN : hidden = (p.hidden /\ p.thoughts = <<>>)
  OBVIOUS
<1>3. AssistantMessage(p, text, time) =
        [NewMessage("assistant", text, t) EXCEPT
            !.thoughts = p.thoughts, !.hidden = hidden, !.calls = p.calls,
            !.results = p.results, !.plans = p.plans]
  BY <1>1, <1>2 DEF AssistantMessage
<1>4. AssistantMessage(p, text, time) =
        [role |-> "assistant", text |-> text, time |-> t, thoughts |-> p.thoughts,
         hidden |-> hidden, calls |-> p.calls, results |-> p.results, plans |-> p.plans,
         usage |-> 0, sidechain |-> FALSE]
  BY <1>3 DEF NewMessage
<1>5. /\ p.thoughts \in Seq(Texts) /\ p.calls \in Seq(Texts)
      /\ p.results \in Seq(Result) /\ p.plans \in Seq(Texts)
  BY PendingParts
<1>6. QED
  BY <1>1, <1>2, <1>4, <1>5 DEF IsMadeOf, Message, Roles

\* l2 is l with what waited made a message.
Flushed(l, text, time, l2) ==
    \E msg :
        /\ IsMadeOf(l.pending, text, time, msg)
        /\ TookIn(l.messages, msg, l2.messages)
        /\ l2.called = l.called /\ l2.pending = NothingPending
        /\ l2.windowStart = l.windowStart /\ l2.total = l.total
        /\ l2.windowFirst =
               IF l.windowFirst = 0 /\ ~IsEmptyMessage(msg) /\ Len(l2.messages) >= l.windowStart
                   THEN Len(l2.messages) ELSE l.windowFirst

\* A flush does just that.
LEMMA FlushFlushes ==
  ASSUME NEW l \in LoadState, NEW text \in Texts \cup {None}, NEW time \in Nat
  PROVE  FlushAssistant(l, text, time) \in LoadState /\ Flushed(l, text, time, FlushAssistant(l, text, time))
<1>1. PICK msg : msg = AssistantMessage(l.pending, text, time)
  OBVIOUS
<1>2. IsMadeOf(l.pending, text, time, msg) /\ msg \in Message
  <2>1. l.pending \in Pending
    BY LoadParts
  <2>2. IsMadeOf(l.pending, text, time, msg)
    BY <1>1, <2>1, MessageMade
  <2>3. QED
    BY <2>2 DEF IsMadeOf
<1>3. PICK messages : messages = AppendAssistant(l.messages, msg)
  OBVIOUS
<1>4. TookIn(l.messages, msg, messages)
  BY <1>2, <1>3, LoadParts, AppendAssistantTakesIn
<1>5. messages \in Seq(Message) /\ Len(messages) \in Nat
  BY <1>4, LenProperties DEF TookIn, Adds
<1>6. PICK first \in Nat :
        first = IF l.windowFirst = 0 /\ ~IsEmptyMessage(msg) /\ Len(messages) >= l.windowStart
                    THEN Len(messages) ELSE l.windowFirst
  BY <1>5, LoadParts
<1>7. FlushAssistant(l, text, time) =
        [l EXCEPT !.messages = messages, !.pending = NothingPending, !.windowFirst = first]
  BY <1>1, <1>3, <1>6 DEF FlushAssistant
<1>8. PICK l2 \in LoadState :
        /\ l2 = FlushAssistant(l, text, time)
        /\ l2.messages = messages /\ l2.pending = NothingPending /\ l2.windowFirst = first
        /\ l2.called = l.called /\ l2.windowStart = l.windowStart /\ l2.total = l.total
  <2>1. PICK p \in Pending : p = NothingPending
    BY NothingPendingType
  <2>2. FlushAssistant(l, text, time) =
            [l EXCEPT !.messages = messages, !.pending = p, !.windowFirst = first]
    BY <1>7, <2>1
  <2>3. FlushAssistant(l, text, time) \in LoadState
    BY <1>5, <2>2 DEF LoadState
  <2>4. QED
    BY <2>1, <2>2, <2>3 DEF LoadState
<1>9. Flushed(l, text, time, l2)
  BY <1>2, <1>4, <1>6, <1>8 DEF Flushed
<1>10. QED
  BY <1>8, <1>9

-----------------------------------------------------------------------------
(* The invariant of one rollout *)

\* What is known of a rollout: what its messages hold and what waits.
AllCalls(l) == CallsOf(l.messages) \o l.pending.calls
AllResults(l) == ResultsOf(l.messages) \o l.pending.results
AllPlans(l) == PlansOf(l.messages) \cup ToSet(l.pending.plans)
AllThoughts(l) == ThoughtsOf(l.messages) \cup ToSet(l.pending.thoughts)

SameContent(l, l2) ==
    /\ AllCalls(l2) = AllCalls(l) /\ AllResults(l2) = AllResults(l)
    /\ AllPlans(l2) = AllPlans(l) /\ AllThoughts(l2) = AllThoughts(l)
    /\ l2.called = l.called

MessageFits(msg, now) ==
    /\ msg.time \in 1 .. now /\ msg.usage \in 0 .. now
    /\ msg.hidden => msg.thoughts = <<>>
    /\ msg.role # "assistant" => msg.text \in Texts

MessagesFit(messages, now) == \A i \in 1 .. Len(messages) : MessageFits(messages[i], now)

LoadFits(l, now) ==
    /\ MessagesFit(l.messages, now)
    /\ l.pending.time \in 0 .. now
    /\ HasPending(l) => l.pending.time >= 1

\* From the window's start on there are no questions and no usage.
WindowFits(l) ==
    /\ l.windowStart \in 1 .. (Len(l.messages) + 1)
    /\ \A i \in l.windowStart .. Len(l.messages) :
        l.messages[i].role # "user" /\ l.messages[i].usage = 0
    /\ l.windowFirst # 0 => /\ l.windowFirst \in l.windowStart .. Len(l.messages)
                            /\ l.messages[l.windowFirst].role = "assistant"

NoEchoIn(messages) ==
    \A i \in 1 .. (Len(messages) - 1) :
        messages[i].role = messages[i + 1].role /\ messages[i].text = messages[i + 1].text =>
            messages[i].text = None

LoadGood(l, now) ==
    /\ l \in LoadState
    /\ LoadFits(l, now) /\ WindowFits(l) /\ NoEchoIn(l.messages)

\* A flush moves what waits into the messages.
LEMMA FlushKeepsContent ==
  ASSUME NEW l \in LoadState, NEW l2 \in LoadState, NEW text, NEW time, Flushed(l, text, time, l2)
  PROVE  SameContent(l, l2)
<1>1. PICK msg \in Message :
        /\ IsMadeOf(l.pending, text, time, msg)
        /\ TookIn(l.messages, msg, l2.messages)
        /\ l2.called = l.called /\ l2.pending = NothingPending
  BY DEF Flushed, IsMadeOf
<1>2. /\ msg.calls = l.pending.calls /\ msg.results = l.pending.results
      /\ msg.plans = l.pending.plans /\ msg.thoughts = l.pending.thoughts
  BY <1>1 DEF IsMadeOf
<1>3. Adds(l.messages, l2.messages, msg.calls, msg.results, ToSet(msg.plans), ToSet(msg.thoughts))
  BY <1>1 DEF TookIn
<1>4. l2.messages \in Seq(Message)
  BY LoadParts
<1>5. CallsOf(l2.messages) \in Seq(Texts) /\ ResultsOf(l2.messages) \in Seq(Result)
  BY <1>4, OfType
<1>6. /\ CallsOf(l2.messages) \o <<>> = CallsOf(l2.messages)
      /\ ResultsOf(l2.messages) \o <<>> = ResultsOf(l2.messages)
  BY <1>5, ConcatEmptySeq
<1>7. /\ l2.pending.calls = <<>> /\ l2.pending.results = <<>>
      /\ l2.pending.plans = <<>> /\ l2.pending.thoughts = <<>>
  BY <1>1 DEF NothingPending
<1>8. ToSet(l2.pending.plans) = {} /\ ToSet(l2.pending.thoughts) = {}
  BY <1>7 DEF ToSet
<1>9. AllCalls(l2) = AllCalls(l)
  BY <1>2, <1>3, <1>6, <1>7 DEF AllCalls, Adds
<1>10. AllResults(l2) = AllResults(l)
  BY <1>2, <1>3, <1>6, <1>7 DEF AllResults, Adds
<1>11. AllPlans(l2) = AllPlans(l)
  BY <1>2, <1>3, <1>8 DEF AllPlans, Adds
<1>12. AllThoughts(l2) = AllThoughts(l)
  BY <1>2, <1>3, <1>8 DEF AllThoughts, Adds
<1>13. QED
  BY <1>1, <1>9, <1>10, <1>11, <1>12 DEF SameContent

\* Messages after a flush.
LEMMA FlushKeepsFit ==
  ASSUME NEW l \in LoadState, NEW l2 \in LoadState, NEW text, NEW now \in Nat, NEW time \in 0 .. now,
         text # None => time >= 1,
         LoadFits(l, now), Flushed(l, text, time, l2)
  PROVE  LoadFits(l2, now)
<1>1. PICK msg \in Message :
        /\ IsMadeOf(l.pending, text, time, msg)
        /\ TookIn(l.messages, msg, l2.messages)
        /\ l2.pending = NothingPending
  BY DEF Flushed, IsMadeOf
<1>2. PICK n \in Nat : n = Len(l.messages)
  BY LoadParts
<1>3. l.pending \in Pending /\ l.pending.time \in 0 .. now
  BY LoadParts DEF LoadFits
<1>4. msg.time \in 0 .. now /\ msg.time >= l.pending.time /\ msg.time >= time
  BY <1>1, <1>3 DEF IsMadeOf, MaxTime
<1>5. ASSUME NEW i \in 1 .. n PROVE MessageFits(l2.messages[i], now)
  <2>1. MessageFits(l.messages[i], now)
    BY <1>2 DEF LoadFits, MessagesFit
  <2>2. /\ l2.messages[i].role = l.messages[i].role
        /\ l2.messages[i].text = l.messages[i].text
        /\ l2.messages[i].usage = l.messages[i].usage
        /\ l2.messages[i].time \in {l.messages[i].time, MaxTime(l.messages[i].time, msg.time)}
        /\ l2.messages[i].hidden /\ (l.messages[i].hidden => l.messages[i].thoughts = <<>>)
                => l2.messages[i].thoughts = <<>>
    BY <1>1, <1>2 DEF TookIn
  <2>3. MaxTime(l.messages[i].time, msg.time) \in 1 .. now
    BY <1>4, <2>1 DEF MaxTime, MessageFits
  <2>4. QED
    BY <2>1, <2>2, <2>3 DEF MessageFits
<1>6. ~IsEmptyMessage(msg) => MessageFits(msg, now)
  <2>1. SUFFICES ASSUME ~IsEmptyMessage(msg) PROVE MessageFits(msg, now)
    OBVIOUS
  <2>2. text # None \/ HasPending(l)
    BY <1>1, <2>1 DEF IsEmptyMessage, HasPending, IsMadeOf
  <2>3. msg.time \in 1 .. now
    BY <1>3, <1>4, <2>2 DEF LoadFits
  <2>4. msg.hidden => msg.thoughts = <<>>
    BY <1>1, Zenon DEF IsMadeOf
  <2>5. msg.usage = 0 /\ msg.role = "assistant"
    BY <1>1 DEF IsMadeOf
  <2>6. QED
    BY <2>3, <2>4, <2>5 DEF MessageFits
<1>7. MessagesFit(l2.messages, now)
  <2>1. CASE Len(l2.messages) = n
    BY <1>5, <2>1 DEF MessagesFit
  <2>2. CASE Len(l2.messages) = n + 1 /\ l2.messages[n + 1] = msg /\ ~IsEmptyMessage(msg)
    <3>1. ASSUME NEW i \in 1 .. Len(l2.messages) PROVE MessageFits(l2.messages[i], now)
      BY <1>5, <1>6, <2>2
    <3>2. QED
      BY <3>1 DEF MessagesFit
  <2>3. QED
    BY <1>1, <1>2, <2>1, <2>2 DEF TookIn
<1>8. l2.pending.time = 0 /\ ~HasPending(l2)
  BY <1>1 DEF HasPending, NothingPending
<1>9. QED
  BY <1>7, <1>8 DEF LoadFits

\* The window after a flush: what is appended is an answer without usage.
LEMMA FlushKeepsWindow ==
  ASSUME NEW l \in LoadState, NEW l2 \in LoadState, NEW text, NEW time,
         WindowFits(l), Flushed(l, text, time, l2)
  PROVE  WindowFits(l2)
<1>1. PICK msg \in Message :
        /\ IsMadeOf(l.pending, text, time, msg)
        /\ TookIn(l.messages, msg, l2.messages)
        /\ l2.windowStart = l.windowStart
        /\ l2.windowFirst =
               IF l.windowFirst = 0 /\ ~IsEmptyMessage(msg) /\ Len(l2.messages) >= l.windowStart
                   THEN Len(l2.messages) ELSE l.windowFirst
  BY DEF Flushed, IsMadeOf
<1>2. PICK n \in Nat, m \in Nat : n = Len(l.messages) /\ m = Len(l2.messages)
  BY LoadParts
<1>3. m = n \/ (m = n + 1 /\ l2.messages[n + 1] = msg)
  BY <1>1, <1>2 DEF TookIn
<1>4. msg.role = "assistant" /\ msg.usage = 0
  BY <1>1 DEF IsMadeOf
<1>5. PICK w \in 1 .. n + 1 : w = l.windowStart /\ w = l2.windowStart
  BY <1>1, <1>2 DEF WindowFits
<1>6. ASSUME NEW i \in 1 .. n
      PROVE l2.messages[i].role = l.messages[i].role /\ l2.messages[i].usage = l.messages[i].usage
  BY <1>1, <1>2 DEF TookIn
<1>7. ASSUME NEW i \in w .. m PROVE l2.messages[i].role # "user" /\ l2.messages[i].usage = 0
  <2>1. CASE i \in w .. n
    <3>1. i \in 1 .. n
      BY <2>1
    <3>2. l.messages[i].role # "user" /\ l.messages[i].usage = 0
      BY <1>2, <1>5, <2>1 DEF WindowFits
    <3>3. QED
      BY <1>6, <3>1, <3>2
  <2>2. CASE i \notin w .. n
    <3>1. i = n + 1 /\ m = n + 1
      BY <1>3, <2>2
    <3>2. QED
      BY <1>3, <1>4, <3>1
  <2>3. QED
    BY <2>1, <2>2
<1>8. l2.windowFirst # 0 => l2.windowFirst \in w .. m /\ l2.messages[l2.windowFirst].role = "assistant"
  <2>1. CASE l.windowFirst = 0 /\ ~IsEmptyMessage(msg) /\ m >= w
    <3>1. l2.windowFirst = m /\ m \in w .. m
      BY <1>1, <1>2, <1>5, <2>1
    <3>2. CASE m = n
      <4>1. IsEcho(l.messages, msg)
        BY <1>1, <1>2, <2>1, <3>2 DEF TookIn
      <4>2. n \in 1 .. n /\ l.messages[n].role = "assistant"
        BY <1>2, <3>1, <3>2, <4>1 DEF IsEcho, Last
      <4>3. QED
        BY <1>6, <3>1, <3>2, <4>2
    <3>3. CASE m # n
      BY <1>3, <1>4, <3>1, <3>3
    <3>4. QED
      BY <3>2, <3>3
  <2>2. CASE ~(l.windowFirst = 0 /\ ~IsEmptyMessage(msg) /\ m >= w)
    <3>1. l2.windowFirst = l.windowFirst
      BY <1>1, <1>2, <1>5, <2>2
    <3>2. l.windowFirst # 0 => l.windowFirst \in w .. n /\ l.messages[l.windowFirst].role = "assistant"
      BY <1>2, <1>5 DEF WindowFits
    <3>3. l.windowFirst # 0 => l.windowFirst \in 1 .. n /\ l.windowFirst \in w .. m
      BY <1>3, <3>2
    <3>4. QED
      BY <1>6, <3>1, <3>2, <3>3
  <2>3. QED
    BY <2>1, <2>2
<1>9. w \in 1 .. m + 1
  BY <1>3
<1>10. QED
  BY <1>2, <1>5, <1>7, <1>8, <1>9 DEF WindowFits

\* A flush shows nothing twice.
LEMMA FlushKeepsNoEcho ==
  ASSUME NEW l \in LoadState, NEW l2 \in LoadState, NEW text, NEW time,
         NoEchoIn(l.messages), Flushed(l, text, time, l2)
  PROVE  NoEchoIn(l2.messages)
<1>1. PICK msg \in Message :
        IsMadeOf(l.pending, text, time, msg) /\ TookIn(l.messages, msg, l2.messages)
  BY DEF Flushed, IsMadeOf
<1>2. PICK n \in Nat, m \in Nat : n = Len(l.messages) /\ m = Len(l2.messages)
  BY LoadParts
<1>3. ASSUME NEW i \in 1 .. n
      PROVE l2.messages[i].role = l.messages[i].role /\ l2.messages[i].text = l.messages[i].text
  BY <1>1, <1>2 DEF TookIn
<1>4. ASSUME NEW i \in 1 .. n - 1,
             l2.messages[i].role = l2.messages[i + 1].role, l2.messages[i].text = l2.messages[i + 1].text
      PROVE  l2.messages[i].text = None
  <2>1. i \in 1 .. n /\ i + 1 \in 1 .. n
    OBVIOUS
  <2>2. l.messages[i].role = l.messages[i + 1].role /\ l.messages[i].text = l.messages[i + 1].text
    BY <1>3, <1>4, <2>1
  <2>3. l.messages[i].text = None
    BY <1>2, <2>2 DEF NoEchoIn
  <2>4. QED
    BY <1>3, <2>1, <2>3
<1>5. CASE m = n
  BY <1>2, <1>4, <1>5 DEF NoEchoIn
<1>6. CASE m = n + 1 /\ l2.messages[n + 1] = msg /\ ~IsEcho(l.messages, msg)
  <2>1. ASSUME n \in 1 .. n,
               l2.messages[n].role = msg.role, l2.messages[n].text = msg.text
        PROVE  l2.messages[n].text = None
    <3>1. l.messages[n].role = "assistant" /\ l.messages[n].text = msg.text
      BY <1>1, <1>3, <2>1 DEF IsMadeOf
    <3>2. l.messages # <<>> /\ Last(l.messages) = l.messages[n]
      BY <1>2, <2>1, EmptySeq DEF Last
    <3>3. msg.text = None
      BY <1>6, <3>1, <3>2 DEF IsEcho
    <3>4. QED
      BY <2>1, <3>3
  <2>2. ASSUME NEW i \in 1 .. m - 1,
               l2.messages[i].role = l2.messages[i + 1].role, l2.messages[i].text = l2.messages[i + 1].text
        PROVE  l2.messages[i].text = None
    <3>1. CASE i = n
      BY <1>6, <2>1, <2>2, <3>1
    <3>2. CASE i # n
      <4>1. i \in 1 .. n - 1
        BY <1>6, <3>2
      <4>2. QED
        BY <1>4, <2>2, <4>1
    <3>3. QED
      BY <3>1, <3>2
  <2>3. QED
    BY <1>2, <2>2 DEF NoEchoIn
<1>7. QED
  BY <1>1, <1>2, <1>5, <1>6 DEF TookIn

\* A flush keeps a good rollout good.
LEMMA FlushGood ==
  ASSUME NEW now \in Nat, NEW l, LoadGood(l, now), NEW text \in Texts \cup {None}, NEW time \in 0 .. now,
         text # None => time >= 1
  PROVE  /\ LoadGood(FlushAssistant(l, text, time), now)
         /\ SameContent(l, FlushAssistant(l, text, time))
         /\ Flushed(l, text, time, FlushAssistant(l, text, time))
<1>1. l \in LoadState /\ LoadFits(l, now) /\ WindowFits(l) /\ NoEchoIn(l.messages)
  BY DEF LoadGood
<1>2. PICK l2 \in LoadState : l2 = FlushAssistant(l, text, time) /\ Flushed(l, text, time, l2)
  <2>1. time \in Nat
    OBVIOUS
  <2>2. QED
    BY <1>1, <2>1, FlushFlushes
<1>3. SameContent(l, l2)
  BY <1>1, <1>2, FlushKeepsContent
<1>4. LoadFits(l2, now)
  BY <1>1, <1>2, FlushKeepsFit
<1>5. WindowFits(l2)
  BY <1>1, <1>2, FlushKeepsWindow
<1>6. NoEchoIn(l2.messages)
  BY <1>1, <1>2, FlushKeepsNoEcho
<1>7. QED
  BY <1>2, <1>3, <1>4, <1>5, <1>6 DEF LoadGood

\* Time passes.
LEMMA GoodLater ==
  ASSUME NEW now \in Nat, NEW l, LoadGood(l, now)
  PROVE  LoadGood(l, now + 1)
<1>1. l \in LoadState /\ LoadFits(l, now) /\ WindowFits(l) /\ NoEchoIn(l.messages)
  BY DEF LoadGood
<1>2. LoadFits(l, now + 1)
  BY <1>1 DEF LoadFits, MessagesFit, MessageFits
<1>3. QED
  BY <1>1, <1>2 DEF LoadGood

\* A new window is empty.
LEMMA WindowOpened ==
  ASSUME NEW l \in LoadState, NEW l2, l2 = OpenRequestWindow(l)
  PROVE  /\ l2 \in LoadState /\ WindowFits(l2)
         /\ l2.messages = l.messages /\ l2.pending = l.pending /\ l2.called = l.called
<1>1. PICK n \in Nat : n = Len(l.messages)
  BY LoadParts
<1>2. l2 = [l EXCEPT !.windowStart = n + 1, !.windowFirst = 0]
  BY <1>1 DEF OpenRequestWindow
<1>3. l2 \in LoadState /\ l2.windowStart = n + 1 /\ l2.windowFirst = 0
      /\ l2.messages = l.messages /\ l2.pending = l.pending /\ l2.called = l.called
  <2>1. n + 1 \in Nat /\ 0 \in Nat
    OBVIOUS
  <2>2. l2 \in LoadState
    BY <1>2, <2>1 DEF LoadState
  <2>3. QED
    BY <1>2, <2>1 DEF LoadState
<1>4. \A i \in n + 1 .. n : FALSE
  OBVIOUS
<1>5. WindowFits(l2)
  BY <1>1, <1>3, <1>4 DEF WindowFits
<1>6. QED
  BY <1>3, <1>5

\* l2 is l with a message of this role and text at the end, unless it was there.
PlainAdded(l, role, text, l2) ==
    /\ Len(l2.messages) \in {Len(l.messages), Len(l.messages) + 1}
    /\ \A i \in 1 .. Len(l.messages) : l2.messages[i] = l.messages[i]
    /\ Len(l2.messages) = Len(l.messages) + 1 =>
        /\ l2.messages[Len(l.messages) + 1].role = role
        /\ l2.messages[Len(l.messages) + 1].text = text
        /\ l2.messages[Len(l.messages) + 1].usage = 0
    /\ Len(l2.messages) = Len(l.messages) =>
        /\ l.messages # <<>>
        /\ Last(l.messages).role = role
        /\ Last(l.messages).text = text

\* A user message, a hidden one or a divider.
LEMMA PlainGood ==
  ASSUME NEW now \in Nat, NEW l, LoadGood(l, now), NEW time \in 1 .. now,
         NEW role \in Roles \ {"assistant"}, NEW text \in Texts,
         NEW l2, l2 = [l EXCEPT !.messages = AppendPlain(@, role, text, time)]
  PROVE  /\ l2 \in LoadState /\ LoadFits(l2, now) /\ NoEchoIn(l2.messages)
         /\ role # "user" => WindowFits(l2)
         /\ SameContent(l, l2)
         /\ PlainAdded(l, role, text, l2)
<1>1. l \in LoadState /\ LoadFits(l, now) /\ WindowFits(l) /\ NoEchoIn(l.messages)
  BY DEF LoadGood
<1>2. PICK n \in Nat : n = Len(l.messages) /\ l.messages \in Seq(Message)
  BY <1>1, LoadParts
<1>3. CASE l.messages # <<>> /\ Last(l.messages).role = role /\ Last(l.messages).text = text
  <2>1. l2 = [l EXCEPT !.messages = l.messages]
    BY <1>3 DEF AppendPlain
  <2>2. l2 = l
    BY <1>1, <2>1 DEF LoadState
  <2>3. SameContent(l, l2) /\ PlainAdded(l, role, text, l2)
    <3>1. SameContent(l, l2)
      BY <2>2 DEF SameContent
    <3>2. PlainAdded(l, role, text, l)
      BY <1>2, <1>3 DEF PlainAdded
    <3>3. QED
      BY <2>2, <3>1, <3>2
  <2>4. QED
    BY <1>1, <2>2, <2>3
<1>4. CASE ~(l.messages # <<>> /\ Last(l.messages).role = role /\ Last(l.messages).text = text)
  <2>1. PICK msg \in Message :
          /\ msg = NewMessage(role, text, time)
          /\ msg.role = role /\ msg.text = text /\ msg.time = time /\ msg.usage = 0
          /\ ~msg.hidden /\ msg.thoughts = <<>> /\ msg.plans = <<>>
          /\ msg.calls = <<>> /\ msg.results = <<>>
    <3>1. PICK msg : msg = NewMessage(role, text, time)
      OBVIOUS
    <3>2. msg = [role |-> role, text |-> text, time |-> time, thoughts |-> <<>>, hidden |-> FALSE,
                 calls |-> <<>>, results |-> <<>>, plans |-> <<>>, usage |-> 0, sidechain |-> FALSE]
      BY <3>1 DEF NewMessage
    <3>3. time \in Nat /\ role \in Roles /\ text \in Texts \cup {None}
      OBVIOUS
    <3>4. msg \in Message
      BY <3>2, <3>3, EmptySeq DEF Message
    <3>5. QED
      BY <3>1, <3>2, <3>4
  <2>2. PICK messages : messages = Append(l.messages, msg)
    OBVIOUS
  <2>3. l2 = [l EXCEPT !.messages = messages]
    BY <1>4, <2>1, <2>2, Zenon DEF AppendPlain
  <2>4. IsAppended(l.messages, msg, messages)
    BY <1>2, <2>2, Appended
  <2>5. messages \in Seq(Message)
    BY <2>4 DEF IsAppended, Adds
  <2>6. /\ l2 \in LoadState /\ l2.messages = messages /\ l2.pending = l.pending
        /\ l2.called = l.called /\ l2.windowStart = l.windowStart /\ l2.windowFirst = l.windowFirst
    BY <1>1, <2>3, <2>5 DEF LoadState
  <2>7. Len(messages) = n + 1 /\ messages[n + 1] = msg /\ \A i \in 1 .. n : messages[i] = l.messages[i]
    BY <1>2, <2>4 DEF IsAppended
  <2>8. LoadFits(l2, now)
    <3>1. MessageFits(msg, now)
      BY <2>1 DEF MessageFits
    <3>2. ASSUME NEW i \in 1 .. n PROVE MessageFits(messages[i], now)
      <4>1. MessageFits(l.messages[i], now)
        BY <1>1, <1>2 DEF LoadFits, MessagesFit
      <4>2. QED
        BY <2>7, <4>1
    <3>3. ASSUME NEW i \in 1 .. n + 1 PROVE MessageFits(messages[i], now)
      <4>1. CASE i = n + 1
        BY <2>7, <3>1, <4>1
      <4>2. CASE i # n + 1
        <5>1. i \in 1 .. n
          BY <4>2
        <5>2. QED
          BY <3>2, <5>1
      <4>3. QED
        BY <4>1, <4>2
    <3>4. MessagesFit(l2.messages, now)
      BY <2>6, <2>7, <3>3 DEF MessagesFit
    <3>5. l2.pending.time \in 0 .. now /\ (HasPending(l2) => l2.pending.time >= 1)
      BY <1>1, <2>6 DEF LoadFits, HasPending
    <3>6. QED
      BY <3>4, <3>5 DEF LoadFits
  <2>9. NoEchoIn(l2.messages)
    <3>1. ASSUME NEW i \in 1 .. n,
                 messages[i].role = messages[i + 1].role, messages[i].text = messages[i + 1].text
          PROVE  messages[i].text = None
      <4>1. CASE i = n
        <5>1. l.messages # <<>> /\ Last(l.messages) = l.messages[n]
          BY <1>2, <4>1, EmptySeq DEF Last
        <5>2. l.messages[n] = messages[n] /\ messages[n + 1] = msg
          BY <2>7, <4>1
        <5>3. FALSE
          BY <1>4, <2>1, <3>1, <4>1, <5>1, <5>2
        <5>4. QED
          BY <5>3
      <4>2. CASE i # n
        <5>1. i \in 1 .. n - 1 /\ i + 1 \in 1 .. n
          BY <4>2
        <5>2. messages[i] = l.messages[i] /\ messages[i + 1] = l.messages[i + 1]
          BY <2>7, <5>1
        <5>3. QED
          BY <1>1, <1>2, <3>1, <5>1, <5>2 DEF NoEchoIn
      <4>3. QED
        BY <4>1, <4>2
    <3>2. Len(messages) - 1 = n
      BY <2>7
    <3>3. QED
      BY <2>6, <3>1, <3>2 DEF NoEchoIn
  <2>10. ASSUME role # "user" PROVE WindowFits(l2)
    <3>1. PICK w \in 1 .. n + 1 : w = l.windowStart /\ w = l2.windowStart
      BY <1>1, <1>2, <2>6 DEF WindowFits
    <3>2. ASSUME NEW i \in w .. n + 1 PROVE messages[i].role # "user" /\ messages[i].usage = 0
      <4>1. CASE i = n + 1
        BY <2>1, <2>7, <2>10, <4>1
      <4>2. CASE i # n + 1
        <5>1. i \in w .. n /\ i \in 1 .. n
          BY <4>2
        <5>2. l.messages[i].role # "user" /\ l.messages[i].usage = 0
          BY <1>1, <1>2, <3>1, <5>1 DEF WindowFits
        <5>3. QED
          BY <2>7, <5>1, <5>2
      <4>3. QED
        BY <4>1, <4>2
    <3>3. l.windowFirst # 0 => l.windowFirst \in w .. n /\ l.messages[l.windowFirst].role = "assistant"
      BY <1>1, <1>2, <3>1 DEF WindowFits
    <3>4. l.windowFirst # 0 => l.windowFirst \in w .. n + 1 /\ messages[l.windowFirst].role = "assistant"
      <4>1. l.windowFirst # 0 => l.windowFirst \in 1 .. n /\ l.windowFirst \in w .. n + 1
        BY <3>3
      <4>2. QED
        BY <2>7, <3>3, <4>1
    <3>5. w \in 1 .. (n + 1) + 1
      OBVIOUS
    <3>6. QED
      BY <2>6, <2>7, <3>1, <3>2, <3>4, <3>5 DEF WindowFits
  <2>11. SameContent(l, l2)
    <3>1. /\ CallsOf(messages) = CallsOf(l.messages) \o <<>>
          /\ ResultsOf(messages) = ResultsOf(l.messages) \o <<>>
          /\ PlansOf(messages) = PlansOf(l.messages) \cup ToSet(<<>>)
          /\ ThoughtsOf(messages) = ThoughtsOf(l.messages) \cup ToSet(<<>>)
      BY <2>1, <2>4 DEF IsAppended, Adds
    <3>2. CallsOf(l.messages) \in Seq(Texts) /\ ResultsOf(l.messages) \in Seq(Result)
      BY <1>2, OfType
    <3>3. CallsOf(messages) = CallsOf(l.messages) /\ ResultsOf(messages) = ResultsOf(l.messages)
      BY <3>1, <3>2, ConcatEmptySeq
    <3>4. ToSet(<<>>) = {}
      BY DEF ToSet
    <3>5. PlansOf(messages) = PlansOf(l.messages) /\ ThoughtsOf(messages) = ThoughtsOf(l.messages)
      BY <3>1, <3>4
    <3>6. QED
      BY <2>6, <3>3, <3>5 DEF SameContent, AllCalls, AllResults, AllPlans, AllThoughts
  <2>12. PlainAdded(l, role, text, l2)
    BY <1>2, <2>1, <2>6, <2>7 DEF PlainAdded
  <2>13. QED
    BY <2>6, <2>8, <2>9, <2>10, <2>11, <2>12
<1>5. QED
  BY <1>3, <1>4

-----------------------------------------------------------------------------
(* The scan beside the load *)

LastShown(messages, role, text) ==
    \/ Visible(messages) = {} /\ role = None
    \/ \E k \in Visible(messages) :
        /\ \A j \in Visible(messages) : j <= k
        /\ messages[k].role = role /\ messages[k].text = text

FirstPrompt(messages, text) ==
    \/ text = None /\ \A i \in 1 .. Len(messages) : messages[i].role # "user"
    \/ text # None /\ \E k \in 1 .. Len(messages) :
        /\ messages[k].role = "user" /\ messages[k].text = text
        /\ \A j \in 1 .. Len(messages) : messages[j].role = "user" => k <= j

\* What the scan of a rollout and the messages loaded tell alike.
AgreesOn(s, messages) ==
    /\ s \in ScanState
    /\ s.count <= Cardinality(Visible(messages))
    /\ LastShown(messages, s.lastRole, s.lastText)
    /\ FirstPrompt(messages, s.first)

\* more begins with messages that have the roles and texts of messages.
Extends(messages, more) ==
    /\ Len(messages) <= Len(more)
    /\ \A i \in 1 .. Len(messages) :
        more[i].role = messages[i].role /\ more[i].text = messages[i].text

\* Nothing that the scan counts was added.
SameShown(messages, more) ==
    /\ Extends(messages, more)
    /\ \A i \in 1 .. Len(more) : i > Len(messages) =>
        /\ more[i].role # "user"
        /\ more[i].role = "assistant" => more[i].text = None

\* What is visible can be counted.
LEMMA VisibleFinite ==
  ASSUME NEW messages \in Seq(Message)
  PROVE  IsFiniteSet(Visible(messages)) /\ Cardinality(Visible(messages)) \in Nat
<1>1. PICK n \in Nat : n = Len(messages)
  BY LenProperties
<1>2. IsFiniteSet(1 .. n)
  BY FS_Interval
<1>3. Visible(messages) \subseteq 1 .. n
  BY <1>1 DEF Visible
<1>4. QED
  BY <1>2, <1>3, FS_Subset, FS_CardinalityType

\* The scan stays true while nothing it counts is added.
LEMMA AgreesSame ==
  ASSUME NEW s, NEW messages \in Seq(Message), NEW more \in Seq(Message),
         AgreesOn(s, messages), SameShown(messages, more)
  PROVE  AgreesOn(s, more)
<1>1. PICK n \in Nat, m \in Nat : n = Len(messages) /\ m = Len(more)
  BY LenProperties
<1>2. n <= m /\ \A i \in 1 .. n : more[i].role = messages[i].role /\ more[i].text = messages[i].text
  BY <1>1 DEF SameShown, Extends
<1>3. \A i \in 1 .. m : i > n => more[i].role # "user" /\ (more[i].role = "assistant" => more[i].text = None)
  BY <1>1 DEF SameShown
<1>4. Visible(more) = Visible(messages)
  <2>1. ASSUME NEW i \in 1 .. n PROVE i \in Visible(more) <=> i \in Visible(messages)
    BY <1>1, <1>2 DEF Visible
  <2>2. ASSUME NEW i \in Visible(more) PROVE i \in 1 .. n
    BY <1>1, <1>3 DEF Visible
  <2>3. ASSUME NEW i \in Visible(messages) PROVE i \in 1 .. n
    BY <1>1 DEF Visible
  <2>4. QED
    BY <2>1, <2>2, <2>3
<1>5. LastShown(more, s.lastRole, s.lastText)
  <2>1. CASE Visible(messages) = {} /\ s.lastRole = None
    BY <1>4, <2>1 DEF LastShown
  <2>2. CASE \E k \in Visible(messages) :
                /\ \A j \in Visible(messages) : j <= k
                /\ messages[k].role = s.lastRole /\ messages[k].text = s.lastText
    <3>1. PICK k \in Visible(messages) :
                /\ \A j \in Visible(messages) : j <= k
                /\ messages[k].role = s.lastRole /\ messages[k].text = s.lastText
      BY <2>2
    <3>2. k \in 1 .. n
      BY <1>1 DEF Visible
    <3>3. more[k].role = s.lastRole /\ more[k].text = s.lastText
      BY <1>2, <3>1, <3>2
    <3>4. QED
      BY <1>4, <3>1, <3>3 DEF LastShown
  <2>3. QED
    BY <2>1, <2>2 DEF AgreesOn, LastShown
<1>6. FirstPrompt(more, s.first)
  <2>1. ASSUME NEW j \in 1 .. m, more[j].role = "user" PROVE j \in 1 .. n /\ messages[j].role = "user"
    BY <1>2, <1>3, <2>1
  <2>2. CASE s.first = None /\ \A i \in 1 .. n : messages[i].role # "user"
    BY <1>1, <2>1, <2>2 DEF FirstPrompt
  <2>3. CASE s.first # None /\ \E k \in 1 .. n :
                /\ messages[k].role = "user" /\ messages[k].text = s.first
                /\ \A j \in 1 .. n : messages[j].role = "user" => k <= j
    <3>1. PICK k \in 1 .. n :
                /\ messages[k].role = "user" /\ messages[k].text = s.first
                /\ \A j \in 1 .. n : messages[j].role = "user" => k <= j
      BY <2>3
    <3>2. k \in 1 .. m /\ more[k].role = "user" /\ more[k].text = s.first
      BY <1>2, <3>1
    <3>3. \A j \in 1 .. m : more[j].role = "user" => k <= j
      BY <2>1, <3>1
    <3>4. QED
      BY <1>1, <2>3, <3>2, <3>3 DEF FirstPrompt
  <2>4. QED
    BY <1>1, <2>2, <2>3 DEF AgreesOn, FirstPrompt
<1>7. QED
  BY <1>4, <1>5, <1>6 DEF AgreesOn

\* A message that repeats the last one is not counted.
LEMMA AgreesEcho ==
  ASSUME NEW s, NEW messages \in Seq(Message), AgreesOn(s, messages),
         messages # <<>>, NEW r, r.role \in {"user", "assistant"}, r.text \in Texts,
         Last(messages).role = r.role, Last(messages).text = r.text
  PROVE  ScanMessage(s, r) = s
<1>1. PICK n \in Nat : n = Len(messages) /\ n # 0
  BY LenProperties, EmptySeq
<1>2. n \in 1 .. n /\ messages[n].role = r.role /\ messages[n].text = r.text /\ r.text # None
  BY <1>1, RecordsAssumption DEF Last
<1>3. n \in Visible(messages) /\ \A j \in Visible(messages) : j <= n /\ j \in Nat
  BY <1>1, <1>2 DEF Visible
<1>4. PICK k \in Visible(messages) :
        /\ \A j \in Visible(messages) : j <= k
        /\ messages[k].role = s.lastRole /\ messages[k].text = s.lastText
  BY <1>3 DEF AgreesOn, LastShown
<1>5. k = n
  BY <1>3, <1>4
<1>6. QED
  BY <1>2, <1>4, <1>5 DEF ScanMessage

\* One message that the scan sees too.
LEMMA AgreesMore ==
  ASSUME NEW s, NEW messages \in Seq(Message), NEW more \in Seq(Message), AgreesOn(s, messages),
         Extends(messages, more), Len(more) = Len(messages) + 1,
         NEW r, r.role \in {"user", "assistant"}, r.text \in Texts,
         more[Len(messages) + 1].role = r.role, more[Len(messages) + 1].text = r.text
  PROVE  AgreesOn(ScanMessage(s, r), more)
<1>1. PICK n \in Nat : n = Len(messages) /\ n + 1 = Len(more)
  BY LenProperties
<1>2. \A i \in 1 .. n : more[i].role = messages[i].role /\ more[i].text = messages[i].text
  BY <1>1 DEF Extends
<1>3. more[n + 1].role = r.role /\ more[n + 1].text = r.text /\ r.text # None /\ n + 1 \in 1 .. n + 1
  BY <1>1, RecordsAssumption
<1>4. Visible(more) = Visible(messages) \cup {n + 1}
  <2>1. ASSUME NEW i \in 1 .. n PROVE i \in Visible(more) <=> i \in Visible(messages)
    BY <1>1, <1>2 DEF Visible
  <2>2. n + 1 \in Visible(more)
    BY <1>1, <1>3 DEF Visible
  <2>3. ASSUME NEW i \in Visible(more) PROVE i \in 1 .. n \/ i = n + 1
    BY <1>1 DEF Visible
  <2>4. ASSUME NEW i \in Visible(messages) PROVE i \in 1 .. n
    BY <1>1 DEF Visible
  <2>5. QED
    BY <2>1, <2>2, <2>3, <2>4
<1>5. n + 1 \notin Visible(messages) /\ \A j \in Visible(messages) : j \in 1 .. n
  BY <1>1 DEF Visible
<1>6. Cardinality(Visible(more)) = Cardinality(Visible(messages)) + 1
      /\ Cardinality(Visible(messages)) \in Nat
  <2>1. IsFiniteSet(Visible(messages)) /\ Cardinality(Visible(messages)) \in Nat
    BY VisibleFinite
  <2>2. QED
    BY <1>4, <1>5, <2>1, FS_AddElement
<1>7. PICK t : t = ScanMessage(s, r)
  OBVIOUS
<1>8. s \in ScanState /\ s.count <= Cardinality(Visible(messages)) /\ s.count \in Nat
      /\ FirstPrompt(messages, s.first) /\ LastShown(messages, s.lastRole, s.lastText)
  BY DEF AgreesOn, ScanState
<1>9. /\ t \in ScanState
      /\ t.count \in {s.count, s.count + 1} /\ t.lastRole = r.role /\ t.lastText = r.text
      /\ t.first \in {s.first, r.text}
  <2>1. CASE s.lastRole = r.role /\ s.lastText = r.text
    <3>1. t = s
      BY <1>7, <2>1 DEF ScanMessage
    <3>2. QED
      BY <1>8, <2>1, <3>1
  <2>2. CASE ~(s.lastRole = r.role /\ s.lastText = r.text)
    <3>1. PICK first \in {s.first, r.text} :
            first = IF r.role = "user" /\ s.first = None THEN r.text ELSE s.first
      OBVIOUS
    <3>2. t = [s EXCEPT !.count = s.count + 1, !.lastRole = r.role, !.lastText = r.text,
                        !.first = first]
      BY <1>7, <2>2, <3>1 DEF ScanMessage
    <3>3. s.count + 1 \in Nat /\ r.role \in Roles \cup {None} /\ first \in Texts \cup {None}
      BY <1>8, <3>1 DEF Roles, ScanState
    <3>4. t \in ScanState
      BY <1>8, <3>2, <3>3 DEF ScanState
    <3>5. QED
      BY <1>8, <3>1, <3>2, <3>4 DEF ScanState
  <2>3. QED
    BY <2>1, <2>2
<1>10. t.count <= Cardinality(Visible(more))
  BY <1>6, <1>8, <1>9
<1>11. LastShown(more, t.lastRole, t.lastText)
  BY <1>3, <1>4, <1>5, <1>9 DEF LastShown
<1>12. FirstPrompt(more, t.first)
  <2>1. CASE s.first = None /\ \A i \in 1 .. n : messages[i].role # "user"
    <3>1. CASE r.role = "user"
      <4>1. s.lastRole # "user"
        <5>1. CASE Visible(messages) = {} /\ s.lastRole = None
          BY <5>1 DEF None
        <5>2. CASE \E k \in Visible(messages) : messages[k].role = s.lastRole
          BY <1>5, <2>1, <5>2
        <5>3. QED
          BY <1>8, <5>1, <5>2 DEF LastShown
      <4>2. t.first = r.text
        BY <1>7, <1>8, <2>1, <3>1, <4>1 DEF ScanMessage, ScanState
      <4>3. \A j \in 1 .. n + 1 : more[j].role = "user" => n + 1 <= j
        BY <1>2, <2>1
      <4>4. QED
        BY <1>1, <1>3, <3>1, <4>2, <4>3 DEF FirstPrompt
    <3>2. CASE r.role # "user"
      <4>1. t.first = s.first
        BY <1>7, <1>8, <3>2 DEF ScanMessage, ScanState
      <4>2. \A j \in 1 .. n + 1 : more[j].role # "user"
        <5> TAKE j \in 1 .. n + 1
        <5>1. CASE j = n + 1
          BY <1>3, <3>2, <5>1
        <5>2. CASE j # n + 1
          <6>1. j \in 1 .. n
            BY <5>2
          <6>2. QED
            BY <1>2, <2>1, <6>1
        <5>3. QED
          BY <5>1, <5>2
      <4>3. QED
        BY <1>1, <2>1, <4>1, <4>2 DEF FirstPrompt
    <3>3. QED
      BY <3>1, <3>2
  <2>2. CASE s.first # None /\ \E k \in 1 .. n :
                /\ messages[k].role = "user" /\ messages[k].text = s.first
                /\ \A j \in 1 .. n : messages[j].role = "user" => k <= j
    <3>1. PICK k \in 1 .. n :
                /\ messages[k].role = "user" /\ messages[k].text = s.first
                /\ \A j \in 1 .. n : messages[j].role = "user" => k <= j
      BY <2>2
    <3>2. k \in 1 .. n + 1 /\ more[k].role = "user" /\ more[k].text = s.first
      BY <1>2, <3>1
    <3>3. ASSUME NEW j \in 1 .. n + 1, more[j].role = "user" PROVE k <= j
      BY <1>2, <3>1, <3>3
    <3>4. t.first = s.first \/ s.first = None
      BY <1>7, <1>8 DEF ScanMessage, ScanState
    <3>5. CASE t.first = s.first
      BY <1>1, <2>2, <3>2, <3>3, <3>5 DEF FirstPrompt
    <3>6. CASE s.first = None
      BY <2>2, <3>6
    <3>7. QED
      BY <3>4, <3>5, <3>6
  <2>3. QED
    BY <1>1, <1>8, <2>1, <2>2 DEF FirstPrompt
<1>13. QED
  BY <1>7, <1>9, <1>10, <1>11, <1>12 DEF AgreesOn

\* The scan has the title that the transcript gives.
LEMMA TitleTold ==
  ASSUME NEW messages \in Seq(Message), NEW text, FirstPrompt(messages, text)
  PROVE  LinkedTitle(messages) = text
<1>1. PICK n \in Nat : n = Len(messages)
  BY LenProperties
<1>2. CASE text = None /\ \A i \in 1 .. n : messages[i].role # "user"
  BY <1>1, <1>2 DEF LinkedTitle
<1>3. CASE \E k \in 1 .. n :
            /\ messages[k].role = "user" /\ messages[k].text = text
            /\ \A j \in 1 .. n : messages[j].role = "user" => k <= j
  <2>1. PICK k \in 1 .. n :
            /\ messages[k].role = "user" /\ messages[k].text = text
            /\ \A j \in 1 .. n : messages[j].role = "user" => k <= j
    BY <1>3
  <2>2. PICK prompts : prompts = {i \in 1 .. n : messages[i].role = "user"}
    OBVIOUS
  <2>3. k \in prompts /\ (\A j \in prompts : k <= j) /\ prompts \subseteq Nat
    BY <2>1, <2>2
  <2>4. (CHOOSE i \in prompts : \A j \in prompts : i <= j) = k
    <3>1. \A i \in prompts : (\A j \in prompts : i <= j) => i = k
      BY <2>3
    <3>2. QED
      BY <2>3, <3>1
  <2>5. LinkedTitle(messages) = IF prompts = {} THEN None
            ELSE messages[CHOOSE i \in prompts : \A j \in prompts : i <= j].text
    BY <1>1, <2>2 DEF LinkedTitle
  <2>6. QED
    BY <2>1, <2>3, <2>4, <2>5
<1>4. QED
  BY <1>1, <1>2, <1>3 DEF FirstPrompt

\* What a flush shows.
LEMMA FlushShows ==
  ASSUME NEW l \in LoadState, NEW l2 \in LoadState, NEW text, NEW time, Flushed(l, text, time, l2)
  PROVE  /\ Extends(l.messages, l2.messages)
         /\ text = None => SameShown(l.messages, l2.messages)
         /\ text # None =>
              \/ /\ SameShown(l.messages, l2.messages) /\ l.messages # <<>>
                 /\ Last(l.messages).role = "assistant" /\ Last(l.messages).text = text
              \/ /\ Len(l2.messages) = Len(l.messages) + 1
                 /\ l2.messages[Len(l.messages) + 1].role = "assistant"
                 /\ l2.messages[Len(l.messages) + 1].text = text
<1>1. PICK msg \in Message :
        IsMadeOf(l.pending, text, time, msg) /\ TookIn(l.messages, msg, l2.messages)
  BY DEF Flushed, IsMadeOf
<1>2. PICK n \in Nat, m \in Nat : n = Len(l.messages) /\ m = Len(l2.messages)
  BY LoadParts
<1>3. msg.role = "assistant" /\ msg.text = text
  BY <1>1 DEF IsMadeOf
<1>4. \A i \in 1 .. n : l2.messages[i].role = l.messages[i].role /\ l2.messages[i].text = l.messages[i].text
  BY <1>1, <1>2 DEF TookIn
<1>5. \/ m = n /\ (IsEmptyMessage(msg) \/ IsEcho(l.messages, msg))
      \/ m = n + 1 /\ l2.messages[n + 1] = msg
  BY <1>1, <1>2 DEF TookIn
<1>6. Extends(l.messages, l2.messages)
  BY <1>2, <1>4, <1>5 DEF Extends
<1>7. m = n => SameShown(l.messages, l2.messages)
  BY <1>2, <1>6 DEF SameShown
<1>8. ASSUME m = n + 1, text = None PROVE SameShown(l.messages, l2.messages)
  <2>1. ASSUME NEW i \in 1 .. m, i > n
        PROVE  l2.messages[i].role # "user" /\ l2.messages[i].text = None
    <3>1. i = n + 1
      BY <1>8, <2>1
    <3>2. l2.messages[i] = msg
      BY <1>5, <1>8, <3>1
    <3>3. QED
      BY <1>3, <1>8, <3>2
  <2>2. QED
    BY <1>2, <1>6, <2>1 DEF SameShown
<1>9. ASSUME m = n, text # None
      PROVE  l.messages # <<>> /\ Last(l.messages).role = "assistant" /\ Last(l.messages).text = text
  BY <1>3, <1>5, <1>9 DEF IsEmptyMessage, IsEcho
<1>10. m = n + 1 => /\ l2.messages[n + 1].role = "assistant"
                    /\ l2.messages[n + 1].text = text
  BY <1>3, <1>5
<1>11. QED
  BY <1>2, <1>5, <1>6, <1>7, <1>8, <1>9, <1>10

-----------------------------------------------------------------------------
(* Each kind of record *)

\* The usage of a message changes once, and not before a question.
UsageOnce(l, l2) ==
    \A i \in 1 .. Len(l.messages) :
        l2.messages[i].usage # l.messages[i].usage =>
            /\ l.messages[i].usage = 0
            /\ \A j \in i .. Len(l2.messages) : l2.messages[j].role # "user"

\* A flush leaves the usage alone.
LEMMA FlushUsage ==
  ASSUME NEW l, NEW l2, NEW text, NEW time, Flushed(l, text, time, l2)
  PROVE  /\ \A i \in 1 .. Len(l.messages) : l2.messages[i].usage = l.messages[i].usage
         /\ UsageOnce(l, l2)
<1>1. \A i \in 1 .. Len(l.messages) : l2.messages[i].usage = l.messages[i].usage
  BY DEF Flushed, TookIn
<1>2. QED
  BY <1>1 DEF UsageOnce

\* A message of the assistant.
LEMMA AssistantRead ==
  ASSUME NEW now \in Nat, NEW time \in 1 .. now, NEW l, LoadGood(l, now),
         NEW s, AgreesOn(s, l.messages),
         NEW r, r.role = "assistant", r.text \in Texts,
         NEW l2, l2 = FlushAssistant(l, r.text, time)
  PROVE  LoadGood(l2, now) /\ SameContent(l, l2) /\ AgreesOn(ScanMessage(s, r), l2.messages)
         /\ UsageOnce(l, l2)
<1>1. l \in LoadState /\ r.text # None /\ r.text \in Texts \cup {None}
  BY RecordsAssumption DEF LoadGood
<1>2. LoadGood(l2, now) /\ SameContent(l, l2) /\ Flushed(l, r.text, time, l2)
  <2>1. time \in 0 .. now /\ time >= 1
    OBVIOUS
  <2>2. QED
    BY <1>1, <2>1, FlushGood
<1>3. l2 \in LoadState
  BY <1>2 DEF LoadGood
<1>4. l.messages \in Seq(Message) /\ l2.messages \in Seq(Message)
  BY <1>1, <1>3, LoadParts
<1>5. AgreesOn(ScanMessage(s, r), l2.messages)
  <2>1. Extends(l.messages, l2.messages)
    BY <1>1, <1>2, <1>3, FlushShows
  <2>2. \/ /\ SameShown(l.messages, l2.messages) /\ l.messages # <<>>
           /\ Last(l.messages).role = "assistant" /\ Last(l.messages).text = r.text
        \/ /\ Len(l2.messages) = Len(l.messages) + 1
           /\ l2.messages[Len(l.messages) + 1].role = "assistant"
           /\ l2.messages[Len(l.messages) + 1].text = r.text
    BY <1>1, <1>2, <1>3, FlushShows
  <2>3. CASE /\ SameShown(l.messages, l2.messages) /\ l.messages # <<>>
             /\ Last(l.messages).role = "assistant" /\ Last(l.messages).text = r.text
    <3>1. ScanMessage(s, r) = s
      BY <1>4, <2>3, AgreesEcho
    <3>2. AgreesOn(s, l2.messages)
      BY <1>4, <2>3, AgreesSame
    <3>3. QED
      BY <3>1, <3>2
  <2>4. CASE /\ Len(l2.messages) = Len(l.messages) + 1
             /\ l2.messages[Len(l.messages) + 1].role = "assistant"
             /\ l2.messages[Len(l.messages) + 1].text = r.text
    <3>1. r.role \in {"user", "assistant"}
      OBVIOUS
    <3>2. QED
      BY <1>4, <2>1, <2>4, <3>1, AgreesMore
  <2>5. QED
    BY <2>2, <2>3, <2>4
<1>6. UsageOnce(l, l2)
  BY <1>2, FlushUsage
<1>7. QED
  BY <1>2, <1>5, <1>6

\* A question, a hidden message or a divider.
LEMMA PlainRead ==
  ASSUME NEW now \in Nat, NEW time \in 1 .. now, NEW l, LoadGood(l, now),
         NEW s, AgreesOn(s, l.messages),
         NEW r, r.role \in Roles \ {"assistant"}, r.text \in Texts,
         NEW l2, l2 = LoadPlain(l, r, time)
  PROVE  /\ l2 \in LoadState /\ LoadFits(l2, now) /\ NoEchoIn(l2.messages)
         /\ r.role # "user" => WindowFits(l2)
         /\ SameContent(l, l2) /\ AgreesOn(ScanMessage(s, r), l2.messages) /\ UsageOnce(l, l2)
<1>1. l \in LoadState /\ r.text # None /\ None \in Texts \cup {None}
  BY RecordsAssumption DEF LoadGood
<1>2. PICK l1 : l1 = FlushAssistant(l, None, 0)
  OBVIOUS
<1>3. LoadGood(l1, now) /\ SameContent(l, l1) /\ Flushed(l, None, 0, l1)
  <2>1. 0 \in 0 .. now /\ (None # None => 0 >= 1)
    OBVIOUS
  <2>2. QED
    BY <1>1, <1>2, <2>1, FlushGood
<1>4. l1 \in LoadState
  BY <1>3 DEF LoadGood
<1>5. l2 = [l1 EXCEPT !.messages = AppendPlain(@, r.role, r.text, time)]
  BY <1>2 DEF LoadPlain, Flush
<1>6. /\ l2 \in LoadState /\ LoadFits(l2, now) /\ NoEchoIn(l2.messages)
      /\ r.role # "user" => WindowFits(l2)
      /\ SameContent(l1, l2)
      /\ PlainAdded(l1, r.role, r.text, l2)
  BY <1>3, <1>5, PlainGood
<1>7. SameContent(l, l2)
  BY <1>3, <1>6 DEF SameContent
<1>8. l.messages \in Seq(Message) /\ l1.messages \in Seq(Message) /\ l2.messages \in Seq(Message)
  BY <1>1, <1>4, <1>6, LoadParts
<1>9. PICK n \in Nat, m \in Nat : n = Len(l.messages) /\ m = Len(l1.messages)
  BY <1>8, LenProperties
<1>10. AgreesOn(s, l1.messages)
  <2>1. SameShown(l.messages, l1.messages)
    BY <1>1, <1>3, <1>4, FlushShows
  <2>2. QED
    BY <1>8, <2>1, AgreesSame
<1>11. Extends(l1.messages, l2.messages)
  BY <1>6, <1>9 DEF PlainAdded, Extends
<1>12. AgreesOn(ScanMessage(s, r), l2.messages)
  <2>1. CASE r.role = "user"
    <3>1. CASE Len(l2.messages) = m
      <4>1. l1.messages # <<>> /\ Last(l1.messages).role = r.role /\ Last(l1.messages).text = r.text
        BY <1>6, <1>9, <3>1 DEF PlainAdded
      <4>2. ScanMessage(s, r) = s
        BY <1>8, <1>10, <2>1, <4>1, AgreesEcho
      <4>3. SameShown(l1.messages, l2.messages)
        BY <1>9, <1>11, <3>1 DEF SameShown
      <4>4. QED
        BY <1>8, <1>10, <4>2, <4>3, AgreesSame
    <3>2. CASE Len(l2.messages) = m + 1
      <4>1. l2.messages[m + 1].role = r.role /\ l2.messages[m + 1].text = r.text
        BY <1>6, <1>9, <3>2 DEF PlainAdded
      <4>2. r.role \in {"user", "assistant"}
        BY <2>1
      <4>3. QED
        BY <1>8, <1>9, <1>10, <1>11, <3>2, <4>1, <4>2, AgreesMore, SMTT(30)
    <3>3. QED
      BY <1>6, <1>9, <3>1, <3>2 DEF PlainAdded
  <2>2. CASE r.role # "user"
    <3>1. r.role \in {"hidden", "divider"} /\ ScanMessage(s, r) = s
      BY <2>2 DEF ScanMessage, Roles
    <3>2. SameShown(l1.messages, l2.messages)
      <4>1. ASSUME NEW i \in 1 .. Len(l2.messages), i > m PROVE l2.messages[i].role = r.role
        <5>1. i = m + 1 /\ Len(l2.messages) = m + 1
          BY <1>6, <1>9, <4>1 DEF PlainAdded
        <5>2. QED
          BY <1>6, <1>9, <5>1 DEF PlainAdded
      <4>2. r.role # "user" /\ r.role # "assistant"
        BY <3>1
      <4>3. QED
        BY <1>9, <1>11, <4>1, <4>2 DEF SameShown
    <3>3. QED
      BY <1>8, <1>10, <3>1, <3>2, AgreesSame
  <2>3. QED
    BY <2>1, <2>2
<1>13. UsageOnce(l, l2)
  <2>1. n <= m /\ \A i \in 1 .. n : l1.messages[i].usage = l.messages[i].usage
    <3>1. \A i \in 1 .. n : l1.messages[i].usage = l.messages[i].usage
      BY <1>3, <1>9, FlushUsage
    <3>2. Extends(l.messages, l1.messages)
      BY <1>1, <1>3, <1>4, FlushShows
    <3>3. QED
      BY <1>9, <3>1, <3>2 DEF Extends
  <2>2. \A i \in 1 .. m : l2.messages[i] = l1.messages[i]
    BY <1>6, <1>9 DEF PlainAdded
  <2>3. \A i \in 1 .. n : l2.messages[i].usage = l.messages[i].usage
    BY <2>1, <2>2
  <2>4. QED
    BY <1>9, <2>3 DEF UsageOnce
<1>14. QED
  BY <1>6, <1>7, <1>12, <1>13

\* Any message.
LEMMA MessageRead ==
  ASSUME NEW now \in Nat, NEW time \in 1 .. now, NEW l, LoadGood(l, now),
         NEW s, AgreesOn(s, l.messages),
         NEW r, r.role \in Roles, r.text \in Texts,
         NEW l2, l2 = LoadMessage(l, r, time)
  PROVE  LoadGood(l2, now) /\ SameContent(l, l2) /\ AgreesOn(ScanMessage(s, r), l2.messages)
         /\ UsageOnce(l, l2)
<1>1. CASE r.role = "assistant"
  <2>1. l2 = FlushAssistant(l, r.text, time)
    BY <1>1 DEF LoadMessage
  <2>2. QED
    BY <1>1, <2>1, AssistantRead
<1>2. CASE r.role # "assistant"
  <2>1. PICK l1 : l1 = LoadPlain(l, r, time)
    OBVIOUS
  <2>2. /\ l1 \in LoadState /\ LoadFits(l1, now) /\ NoEchoIn(l1.messages)
        /\ r.role # "user" => WindowFits(l1)
        /\ SameContent(l, l1) /\ AgreesOn(ScanMessage(s, r), l1.messages) /\ UsageOnce(l, l1)
    <3>1. r.role \in Roles \ {"assistant"}
      BY <1>2
    <3>2. QED
      BY <2>1, <3>1, PlainRead
  <2>3. CASE r.role = "user"
    <3>1. l2 = OpenRequestWindow(l1)
      BY <2>1, <2>3 DEF LoadMessage
    <3>2. /\ l2 \in LoadState /\ WindowFits(l2)
          /\ l2.messages = l1.messages /\ l2.pending = l1.pending /\ l2.called = l1.called
      BY <2>2, <3>1, WindowOpened
    <3>3. LoadFits(l2, now)
      BY <2>2, <3>2 DEF LoadFits, HasPending
    <3>4. SameContent(l, l2)
      BY <2>2, <3>2 DEF SameContent, AllCalls, AllResults, AllPlans, AllThoughts
    <3>5. UsageOnce(l, l2)
      BY <2>2, <3>2 DEF UsageOnce
    <3>6. QED
      BY <2>2, <3>2, <3>3, <3>4, <3>5 DEF LoadGood
  <2>4. CASE r.role # "user"
    <3>1. l2 = l1
      BY <1>2, <2>1, <2>4 DEF LoadMessage
    <3>2. QED
      BY <2>2, <2>4, <3>1 DEF LoadGood
  <2>5. QED
    BY <2>3, <2>4
<1>3. QED
  BY <1>1, <1>2

\* l2 is l where p waits and these calls are known.
PendingIs(l, p, called, l2) ==
    l2.messages = l.messages /\ l2.pending = p /\ l2.called = called

\* What waits changes, and is of this time at the least.
LEMMA PendingChanges ==
  ASSUME NEW now \in Nat, NEW l, LoadGood(l, now),
         NEW p \in Pending, p.time \in 1 .. now, NEW called \in SUBSET Texts,
         NEW l2, l2 = [l EXCEPT !.pending = p, !.called = called]
  PROVE  LoadGood(l2, now) /\ UsageOnce(l, l2) /\ PendingIs(l, p, called, l2)
<1>1. l \in LoadState /\ LoadFits(l, now) /\ WindowFits(l) /\ NoEchoIn(l.messages)
  BY DEF LoadGood
<1>2. l2 \in LoadState
  BY <1>1 DEF LoadState
<1>3. /\ l2.messages = l.messages /\ l2.pending = p /\ l2.called = called
      /\ l2.windowStart = l.windowStart /\ l2.windowFirst = l.windowFirst
  BY <1>1 DEF LoadState
<1>4. LoadFits(l2, now)
  BY <1>1, <1>3 DEF LoadFits
<1>5. WindowFits(l2) /\ NoEchoIn(l2.messages)
  BY <1>1, <1>3 DEF WindowFits
<1>6. UsageOnce(l, l2)
  BY <1>3 DEF UsageOnce
<1>7. QED
  BY <1>2, <1>3, <1>4, <1>5, <1>6 DEF LoadGood, PendingIs

\* A concatenation with one more at its end.
LEMMA ConcatAppend ==
  ASSUME NEW S, NEW s \in Seq(S), NEW t \in Seq(S), NEW e \in S
  PROVE  s \o Append(t, e) = Append(s \o t, e)
<1>1. PICK one \in Seq(S) : one = <<e>>
  <2>1. <<e>> \in Seq(S)
    OBVIOUS
  <2>2. QED
    BY <2>1
<1>2. PICK st \in Seq(S) : st = s \o t
  BY ConcatProperties
<1>3. Append(t, e) = t \o one /\ Append(st, e) = st \o one
  BY <1>1, AppendIsConcat
<1>4. s \o (t \o one) = (s \o t) \o one
  BY ConcatAssociative, SMTT(30)
<1>5. QED
  BY <1>2, <1>3, <1>4

\* The later of two times.
LEMMA Later ==
  ASSUME NEW now \in Nat, NEW a \in 0 .. now, NEW time \in 1 .. now
  PROVE  MaxTime(a, time) \in 1 .. now
  BY DEF MaxTime

\* The same calls, results and plans, and perhaps a thought more.
ThoughtRead(l, text, l2) ==
    /\ AllCalls(l2) = AllCalls(l) /\ AllResults(l2) = AllResults(l) /\ AllPlans(l2) = AllPlans(l)
    /\ AllThoughts(l2) = AllThoughts(l) \cup ({text} \ {None})
    /\ l2.called = l.called /\ l2.messages = l.messages

\* Reasoning: a thought, the same thought again, or hidden thinking.
LEMMA ReasoningRead ==
  ASSUME NEW now \in Nat, NEW time \in 1 .. now, NEW l, LoadGood(l, now),
         NEW r, r.text \in Texts \cup {None}, r.encrypted \in BOOLEAN,
         NEW l2, l2 = LoadReasoning(l, r, time)
  PROVE  LoadGood(l2, now) /\ UsageOnce(l, l2) /\ ThoughtRead(l, r.text, l2)
<1>1. l \in LoadState /\ l.pending \in Pending /\ l.pending.time \in 0 .. now /\ l.called \in SUBSET Texts
  BY LoadParts DEF LoadGood, LoadFits
<1>2. PICK t \in Nat : t = MaxTime(l.pending.time, time) /\ t \in 1 .. now
  <2>1. MaxTime(l.pending.time, time) \in 1 .. now
    BY <1>1, Later
  <2>2. QED
    BY <2>1
<1>3. PICK called \in SUBSET Texts : called = l.called
  BY <1>1
<1>4. PICK old \in Seq(Texts) : old = l.pending.thoughts
  BY <1>1, PendingParts
<1>5. PICK p \in Pending :
        /\ l2 = [l EXCEPT !.pending = p]
        /\ p.time = t
        /\ p.calls = l.pending.calls /\ p.results = l.pending.results /\ p.plans = l.pending.plans
        /\ ToSet(p.thoughts) = ToSet(old) \cup ({r.text} \ {None})
  <2>1. CASE r.text = None
    <3>1. PICK hidden \in BOOLEAN : hidden = (l.pending.hidden \/ r.encrypted)
      OBVIOUS
    <3>2. PICK p : p = [l.pending EXCEPT !.time = t, !.hidden = hidden]
      OBVIOUS
    <3>3. l2 = [l EXCEPT !.pending = p]
      <4>1. l2 = [l EXCEPT !.pending = [[l.pending EXCEPT !.time = t] EXCEPT !.hidden = @ \/ r.encrypted]]
        BY <1>2, <2>1 DEF LoadReasoning
      <4>2. [[l.pending EXCEPT !.time = t] EXCEPT !.hidden = @ \/ r.encrypted] = p
        BY <1>1, <3>1, <3>2 DEF Pending
      <4>3. QED
        BY <4>1, <4>2
    <3>4. p \in Pending
      BY <1>1, <1>2, <3>2 DEF Pending
    <3>5. /\ p.time = t /\ p.thoughts = old
          /\ p.calls = l.pending.calls /\ p.results = l.pending.results /\ p.plans = l.pending.plans
      BY <1>1, <1>4, <3>2 DEF Pending
    <3>6. QED
      BY <2>1, <3>3, <3>4, <3>5
  <2>2. CASE r.text # None /\ old # <<>> /\ Last(old) = r.text
    <3>1. PICK p : p = [l.pending EXCEPT !.time = t]
      OBVIOUS
    <3>2. l2 = [l EXCEPT !.pending = p]
      BY <1>2, <1>4, <2>2, <3>1 DEF LoadReasoning
    <3>3. p \in Pending
      BY <1>1, <1>2, <3>1 DEF Pending
    <3>4. /\ p.time = t /\ p.thoughts = old
          /\ p.calls = l.pending.calls /\ p.results = l.pending.results /\ p.plans = l.pending.plans
      BY <1>1, <1>4, <3>1 DEF Pending
    <3>5. r.text \in ToSet(old)
      <4>1. Len(old) \in Nat /\ Len(old) # 0 /\ DOMAIN old = 1 .. Len(old)
        BY <2>2, EmptySeq, LenProperties
      <4>2. Len(old) \in 1 .. Len(old) /\ old[Len(old)] = r.text
        BY <2>2, <4>1 DEF Last
      <4>3. QED
        BY <4>1, <4>2 DEF ToSet
    <3>6. QED
      BY <2>2, <3>2, <3>3, <3>4, <3>5
  <2>3. CASE r.text # None /\ ~(old # <<>> /\ Last(old) = r.text)
    <3>1. PICK thoughts \in Seq(Texts) : /\ thoughts = Append(old, r.text)
                                         /\ ToSet(thoughts) = ToSet(old) \cup {r.text}
      <4>1. r.text \in Texts
        BY <2>3
      <4>2. Append(old, r.text) \in Seq(Texts) /\ ToSet(Append(old, r.text)) = ToSet(old) \cup {r.text}
        BY <4>1, AppendSet
      <4>3. QED
        BY <4>2
    <3>2. PICK p : p = [l.pending EXCEPT !.time = t, !.thoughts = thoughts]
      OBVIOUS
    <3>3. l2 = [l EXCEPT !.pending = p]
      <4>1. l2 = [l EXCEPT !.pending =
                    [[l.pending EXCEPT !.time = t] EXCEPT !.thoughts = Append(@, r.text)]]
        BY <1>2, <1>4, <2>3 DEF LoadReasoning
      <4>2. [[l.pending EXCEPT !.time = t] EXCEPT !.thoughts = Append(@, r.text)] = p
        BY <1>1, <1>4, <3>1, <3>2 DEF Pending
      <4>3. QED
        BY <4>1, <4>2
    <3>4. p \in Pending
      BY <1>1, <1>2, <3>2 DEF Pending
    <3>5. /\ p.time = t /\ p.thoughts = thoughts
          /\ p.calls = l.pending.calls /\ p.results = l.pending.results /\ p.plans = l.pending.plans
      BY <1>1, <3>2 DEF Pending
    <3>6. QED
      BY <2>3, <3>1, <3>3, <3>4, <3>5
  <2>4. QED
    BY <2>1, <2>2, <2>3
<1>6. l2 = [l EXCEPT !.pending = p, !.called = called]
  BY <1>1, <1>3, <1>5 DEF LoadState
<1>7. /\ LoadGood(l2, now) /\ UsageOnce(l, l2)
      /\ l2.messages = l.messages /\ l2.pending = p /\ l2.called = l.called
  <2>1. p.time \in 1 .. now
    BY <1>2, <1>5
  <2>2. LoadGood(l2, now) /\ UsageOnce(l, l2) /\ PendingIs(l, p, called, l2)
    BY <1>6, <2>1, PendingChanges
  <2>3. QED
    BY <1>3, <2>2 DEF PendingIs
<1>8. ThoughtRead(l, r.text, l2)
  BY <1>4, <1>5, <1>7 DEF ThoughtRead, AllCalls, AllResults, AllPlans, AllThoughts
<1>9. QED
  BY <1>7, <1>8

\* A call, kept with those before it.
LEMMA CallRead ==
  ASSUME NEW now \in Nat, NEW time \in 1 .. now, NEW l, LoadGood(l, now),
         NEW r, r.text \in Texts, NEW l2, l2 = LoadCall(l, r, time)
  PROVE  /\ LoadGood(l2, now) /\ UsageOnce(l, l2)
         /\ AllCalls(l2) = Append(AllCalls(l), r.text)
         /\ AllResults(l2) = AllResults(l) /\ AllPlans(l2) = AllPlans(l) /\ AllThoughts(l2) = AllThoughts(l)
         /\ l2.called = l.called \cup {r.text} /\ l2.messages = l.messages
<1>1. l \in LoadState /\ l.pending \in Pending /\ l.pending.time \in 0 .. now
      /\ l.called \in SUBSET Texts /\ l.messages \in Seq(Message)
  BY LoadParts DEF LoadGood, LoadFits
<1>2. PICK t \in Nat : t = MaxTime(l.pending.time, time) /\ t \in 1 .. now
  <2>1. MaxTime(l.pending.time, time) \in 1 .. now
    BY <1>1, Later
  <2>2. QED
    BY <2>1
<1>3. PICK called \in SUBSET Texts : called = l.called \cup {r.text}
  BY <1>1
<1>4. PICK old \in Seq(Texts) : old = l.pending.calls
  BY <1>1, PendingParts
<1>5. PICK calls \in Seq(Texts) : calls = Append(old, r.text)
  BY AppendProperties
<1>6. PICK p : p = [l.pending EXCEPT !.calls = calls, !.time = t]
  OBVIOUS
<1>7. l2 = [l EXCEPT !.pending = p, !.called = called]
  BY <1>1, <1>2, <1>3, <1>4, <1>5, <1>6 DEF LoadCall, LoadState, Pending
<1>8. p \in Pending
  BY <1>1, <1>2, <1>6 DEF Pending
<1>9. /\ p.time = t /\ p.thoughts = l.pending.thoughts /\ p.calls = calls
      /\ p.results = l.pending.results /\ p.plans = l.pending.plans
  BY <1>1, <1>6 DEF Pending
<1>10. /\ LoadGood(l2, now) /\ UsageOnce(l, l2)
       /\ l2.messages = l.messages /\ l2.pending = p /\ l2.called = called
  <2>1. p.time \in 1 .. now
    BY <1>2, <1>9
  <2>2. LoadGood(l2, now) /\ UsageOnce(l, l2) /\ PendingIs(l, p, called, l2)
    BY <1>7, <1>8, <2>1, PendingChanges
  <2>3. QED
    BY <2>2 DEF PendingIs
<1>11. AllCalls(l2) = Append(AllCalls(l), r.text)
  <2>1. PICK known \in Seq(Texts) : known = CallsOf(l.messages)
    BY <1>1, OfType
  <2>2. known \o Append(old, r.text) = Append(known \o old, r.text)
    BY ConcatAppend
  <2>3. QED
    BY <1>4, <1>5, <1>9, <1>10, <2>1, <2>2 DEF AllCalls
<1>12. AllResults(l2) = AllResults(l) /\ AllPlans(l2) = AllPlans(l) /\ AllThoughts(l2) = AllThoughts(l)
  BY <1>9, <1>10 DEF AllResults, AllPlans, AllThoughts
<1>13. QED
  BY <1>3, <1>10, <1>11, <1>12

\* A result more, as the records tell of it.
LEMMA OutcomesMore ==
  ASSUME NEW results \in Seq(Result), NEW x \in Result, NEW more, more = Append(results, x)
  PROVE  Outcomes(more) = Append(Outcomes(results), <<x.call, x.bad>>)
<1>1. more \in Seq(Result)
  BY AppendProperties
<1>2. PICK n \in Nat : n = Len(results)
  BY LenProperties
<1>3. Len(more) = n + 1 /\ more[n + 1] = x /\ \A i \in 1 .. n : more[i] = results[i]
  BY <1>2, AppendProperties
<1>4. PICK S : S = {<<results[i].call, results[i].bad>> : i \in 1 .. n} \cup {<<x.call, x.bad>>}
  OBVIOUS
<1>5. PICK old : old = [i \in 1 .. n |-> <<results[i].call, results[i].bad>>]
  OBVIOUS
<1>6. PICK new : new = [i \in 1 .. n + 1 |-> <<more[i].call, more[i].bad>>]
  OBVIOUS
<1>7. Outcomes(results) = old /\ Outcomes(more) = new
  BY <1>2, <1>3, <1>5, <1>6 DEF Outcomes
<1>8. \A i \in 1 .. n : old[i] = <<results[i].call, results[i].bad>> /\ old[i] \in S
  BY <1>4, <1>5
<1>9. old \in Seq(S) /\ Len(old) = n
  BY <1>5, <1>8
<1>10. PICK e \in S : e = <<x.call, x.bad>>
  BY <1>4
<1>11. \A i \in 1 .. n + 1 : new[i] = IF i = n + 1 THEN e ELSE old[i]
  <2> TAKE i \in 1 .. n + 1
  <2>1. CASE i = n + 1
    BY <1>3, <1>6, <1>10, <2>1
  <2>2. CASE i # n + 1
    <3>1. i \in 1 .. n
      BY <2>2
    <3>2. QED
      BY <1>3, <1>6, <1>8, <2>2, <3>1
  <2>3. QED
    BY <2>1, <2>2
<1>12. new \in Seq(S) /\ Len(new) = n + 1
  <2>1. ASSUME NEW i \in 1 .. n + 1 PROVE new[i] \in S
    <3>1. i # n + 1 => i \in 1 .. n
      OBVIOUS
    <3>2. QED
      BY <1>8, <1>11, <3>1
  <2>2. new \in [1 .. n + 1 -> S]
    BY <1>6, <2>1
  <2>3. QED
    BY <2>2
<1>13. PICK longer \in Seq(S) : longer = Append(old, e)
  BY <1>9, AppendProperties
<1>14. Len(longer) = n + 1 /\ longer[n + 1] = e /\ \A i \in 1 .. n : longer[i] = old[i]
  BY <1>9, <1>13, AppendProperties
<1>15. \A i \in 1 .. n + 1 : longer[i] = new[i]
  <2> TAKE i \in 1 .. n + 1
  <2>1. CASE i = n + 1
    BY <1>11, <1>14, <2>1
  <2>2. CASE i # n + 1
    <3>1. i \in 1 .. n
      BY <2>2
    <3>2. QED
      BY <1>11, <1>14, <2>2, <3>1
  <2>3. QED
    BY <2>1, <2>2
<1>16. longer = new
  BY <1>12, <1>14, <1>15, SeqEqual
<1>17. QED
  BY <1>7, <1>10, <1>13, <1>16

\* The failed results can be counted.
LEMMA FailedFinite ==
  ASSUME NEW results \in Seq(Result)
  PROVE  IsFiniteSet(Failed(results)) /\ Cardinality(Failed(results)) \in Nat
<1>1. PICK n \in Nat : n = Len(results)
  BY LenProperties
<1>2. IsFiniteSet(1 .. n)
  BY FS_Interval
<1>3. Failed(results) \subseteq 1 .. n
  BY <1>1 DEF Failed
<1>4. QED
  BY <1>2, <1>3, FS_Subset, FS_CardinalityType

\* A result more is a failure more if its call is known and it is bad.
LEMMA FailedMore ==
  ASSUME NEW results \in Seq(Result), NEW x \in Result, NEW more, more = Append(results, x)
  PROVE  Cardinality(Failed(more)) =
            IF x.known /\ x.bad THEN Cardinality(Failed(results)) + 1 ELSE Cardinality(Failed(results))
<1>1. more \in Seq(Result)
  BY AppendProperties
<1>2. PICK n \in Nat : n = Len(results)
  BY LenProperties
<1>3. Len(more) = n + 1 /\ more[n + 1] = x /\ \A i \in 1 .. n : more[i] = results[i]
  BY <1>2, AppendProperties
<1>4. ASSUME NEW i \in 1 .. n PROVE i \in Failed(more) <=> i \in Failed(results)
  <2>1. i \in 1 .. n + 1 /\ more[i] = results[i]
    BY <1>3
  <2>2. QED
    BY <1>2, <1>3, <2>1 DEF Failed
<1>5. \A i \in Failed(results) : i \in 1 .. n
  BY <1>2 DEF Failed
<1>6. \A i \in Failed(more) : i \in 1 .. n \/ i = n + 1
  BY <1>3 DEF Failed
<1>7. n + 1 \in Failed(more) <=> x.known /\ x.bad
  BY <1>3 DEF Failed
<1>8. n + 1 \notin Failed(results)
  BY <1>5
<1>9. CASE x.known /\ x.bad
  <2>1. Failed(more) = Failed(results) \cup {n + 1}
    BY <1>4, <1>5, <1>6, <1>7, <1>9
  <2>2. QED
    BY <1>8, <1>9, <2>1, FailedFinite, FS_AddElement
<1>10. CASE ~(x.known /\ x.bad)
  <2>1. Failed(more) = Failed(results)
    BY <1>4, <1>5, <1>6, <1>7, <1>10
  <2>2. QED
    BY <1>10, <2>1
<1>11. QED
  BY <1>9, <1>10

\* The same calls, plans and thoughts, and a result more.
ResultTold(l, r, l2) ==
    /\ AllCalls(l2) = AllCalls(l) /\ AllPlans(l2) = AllPlans(l) /\ AllThoughts(l2) = AllThoughts(l)
    /\ l2.called = l.called /\ l2.messages = l.messages
    /\ AllResults(l) \in Seq(Result)
    /\ \E x \in Result : /\ AllResults(l2) = Append(AllResults(l), x)
                         /\ x.call = r.text /\ x.bad = r.bad
                         /\ x.known = (r.text \in l.called)

\* A result, kept with those before it.
LEMMA ResultRead ==
  ASSUME NEW now \in Nat, NEW time \in 1 .. now, NEW l, LoadGood(l, now),
         NEW r, r.text \in Texts, r.bad \in BOOLEAN, NEW l2, l2 = LoadResult(l, r, time)
  PROVE  LoadGood(l2, now) /\ UsageOnce(l, l2) /\ ResultTold(l, r, l2)
<1>1. l \in LoadState /\ l.pending \in Pending /\ l.pending.time \in 0 .. now
      /\ l.called \in SUBSET Texts /\ l.messages \in Seq(Message)
  BY LoadParts DEF LoadGood, LoadFits
<1>2. PICK t \in Nat : t = MaxTime(l.pending.time, time) /\ t \in 1 .. now
  <2>1. MaxTime(l.pending.time, time) \in 1 .. now
    BY <1>1, Later
  <2>2. QED
    BY <2>1
<1>3. PICK called \in SUBSET Texts : called = l.called
  BY <1>1
<1>4. PICK old \in Seq(Result) : old = l.pending.results
  BY <1>1, PendingParts
<1>5. PICK x \in Result : /\ x = [call |-> r.text, known |-> r.text \in l.called, bad |-> r.bad]
                          /\ x.call = r.text /\ x.bad = r.bad /\ x.known = (r.text \in l.called)
  <2>1. \E known \in BOOLEAN : known = (r.text \in l.called)
    <3>1. CASE r.text \in l.called
      BY <3>1, Zenon
    <3>2. CASE r.text \notin l.called
      <4>1. FALSE = (r.text \in l.called)
        BY <3>2
      <4>2. QED
        BY <4>1
    <3>3. QED
      BY <3>1, <3>2
  <2>a. PICK known \in BOOLEAN : known = (r.text \in l.called)
    BY <2>1
  <2>2. [call |-> r.text, known |-> known, bad |-> r.bad] \in Result
    BY DEF Result
  <2>3. QED
    BY <2>a, <2>2
<1>6. PICK results \in Seq(Result) : results = Append(old, x)
  BY AppendProperties
<1>7. PICK p : p = [l.pending EXCEPT !.results = results, !.time = t]
  OBVIOUS
<1>8. l2 = [l EXCEPT !.pending = p, !.called = called]
  BY <1>1, <1>2, <1>3, <1>4, <1>5, <1>6, <1>7 DEF LoadResult, LoadState, Pending
<1>9. p \in Pending
  BY <1>1, <1>2, <1>7 DEF Pending
<1>10. /\ p.time = t /\ p.thoughts = l.pending.thoughts /\ p.calls = l.pending.calls
       /\ p.results = results /\ p.plans = l.pending.plans
  BY <1>1, <1>7 DEF Pending
<1>11. /\ LoadGood(l2, now) /\ UsageOnce(l, l2)
       /\ l2.messages = l.messages /\ l2.pending = p /\ l2.called = called
  <2>1. p.time \in 1 .. now
    BY <1>2, <1>10
  <2>2. LoadGood(l2, now) /\ UsageOnce(l, l2) /\ PendingIs(l, p, called, l2)
    BY <1>8, <1>9, <2>1, PendingChanges
  <2>3. QED
    BY <2>2 DEF PendingIs
<1>12. PICK known \in Seq(Result) : known = ResultsOf(l.messages)
  BY <1>1, OfType
<1>13. AllResults(l2) = Append(AllResults(l), x)
  <2>1. known \o Append(old, x) = Append(known \o old, x)
    BY ConcatAppend
  <2>2. QED
    BY <1>4, <1>6, <1>10, <1>11, <1>12, <2>1 DEF AllResults
<1>14. AllResults(l) \in Seq(Result)
  BY <1>4, <1>12, ConcatProperties DEF AllResults
<1>15. AllCalls(l2) = AllCalls(l) /\ AllPlans(l2) = AllPlans(l) /\ AllThoughts(l2) = AllThoughts(l)
  BY <1>10, <1>11 DEF AllCalls, AllPlans, AllThoughts
<1>16. QED
  BY <1>3, <1>5, <1>11, <1>13, <1>14, <1>15 DEF ResultTold

\* more differs from messages in what nobody asks for here: plans.
SameSight(messages, more) ==
    /\ Len(more) = Len(messages)
    /\ \A i \in 1 .. Len(messages) :
        /\ more[i].role = messages[i].role /\ more[i].text = messages[i].text
        /\ more[i].usage = messages[i].usage /\ more[i].time = messages[i].time
        /\ more[i].hidden = messages[i].hidden /\ more[i].thoughts = messages[i].thoughts

\* Such a change keeps a good rollout good.
LEMMA SightGood ==
  ASSUME NEW now \in Nat, NEW l, LoadGood(l, now), NEW more \in Seq(Message),
         SameSight(l.messages, more), NEW l2, l2 = [l EXCEPT !.messages = more]
  PROVE  /\ LoadGood(l2, now) /\ UsageOnce(l, l2) /\ SameShown(l.messages, l2.messages)
         /\ l2.messages = more /\ l2.pending = l.pending /\ l2.called = l.called
<1>1. l \in LoadState /\ LoadFits(l, now) /\ WindowFits(l) /\ NoEchoIn(l.messages)
  BY DEF LoadGood
<1>2. l2 \in LoadState
  BY <1>1 DEF LoadState
<1>3. /\ l2.messages = more /\ l2.pending = l.pending /\ l2.called = l.called
      /\ l2.windowStart = l.windowStart /\ l2.windowFirst = l.windowFirst
  BY <1>1 DEF LoadState
<1>4. PICK n \in Nat : n = Len(l.messages) /\ n = Len(more)
  BY <1>1, LoadParts DEF SameSight
<1>5. ASSUME NEW i \in 1 .. n
      PROVE /\ more[i].role = l.messages[i].role /\ more[i].text = l.messages[i].text
            /\ more[i].usage = l.messages[i].usage /\ more[i].time = l.messages[i].time
            /\ more[i].hidden = l.messages[i].hidden /\ more[i].thoughts = l.messages[i].thoughts
  BY <1>4 DEF SameSight
<1>6. LoadFits(l2, now)
  <2>1. ASSUME NEW i \in 1 .. n PROVE MessageFits(more[i], now)
    <3>1. MessageFits(l.messages[i], now)
      BY <1>1, <1>4 DEF LoadFits, MessagesFit
    <3>2. QED
      BY <1>5, <3>1 DEF MessageFits
  <2>2. MessagesFit(l2.messages, now)
    BY <1>3, <1>4, <2>1 DEF MessagesFit
  <2>3. QED
    BY <1>1, <1>3, <2>2 DEF LoadFits, HasPending
<1>7. WindowFits(l2)
  <2>1. PICK w \in 1 .. n + 1 : w = l.windowStart /\ w = l2.windowStart
    BY <1>1, <1>3, <1>4 DEF WindowFits
  <2>2. ASSUME NEW i \in w .. n PROVE more[i].role # "user" /\ more[i].usage = 0
    <3>1. i \in 1 .. n
      OBVIOUS
    <3>2. l.messages[i].role # "user" /\ l.messages[i].usage = 0
      BY <1>1, <1>4, <2>1 DEF WindowFits
    <3>3. QED
      BY <1>5, <3>1, <3>2
  <2>3. l.windowFirst # 0 => l.windowFirst \in w .. n /\ l.messages[l.windowFirst].role = "assistant"
    BY <1>1, <1>4, <2>1 DEF WindowFits
  <2>4. l.windowFirst # 0 => more[l.windowFirst].role = "assistant"
    <3>1. l.windowFirst # 0 => l.windowFirst \in 1 .. n
      BY <2>3
    <3>2. QED
      BY <1>5, <2>3, <3>1
  <2>5. QED
    BY <1>3, <1>4, <2>1, <2>2, <2>3, <2>4 DEF WindowFits
<1>8. NoEchoIn(l2.messages)
  <2>1. ASSUME NEW i \in 1 .. n - 1, more[i].role = more[i + 1].role, more[i].text = more[i + 1].text
        PROVE  more[i].text = None
    <3>1. i \in 1 .. n /\ i + 1 \in 1 .. n
      OBVIOUS
    <3>2. l.messages[i].role = l.messages[i + 1].role /\ l.messages[i].text = l.messages[i + 1].text
      BY <1>5, <2>1, <3>1
    <3>3. QED
      BY <1>1, <1>4, <1>5, <3>1, <3>2 DEF NoEchoIn
  <2>2. QED
    BY <1>3, <1>4, <2>1 DEF NoEchoIn
<1>9. UsageOnce(l, l2)
  BY <1>3, <1>4, <1>5 DEF UsageOnce
<1>10. SameShown(l.messages, l2.messages)
  BY <1>3, <1>4, <1>5 DEF SameShown, Extends
<1>11. QED
  BY <1>2, <1>3, <1>6, <1>7, <1>8, <1>9, <1>10 DEF LoadGood

\* The same calls, results and thoughts, and a plan.
PlanTold(l, text, l2) ==
    /\ AllCalls(l2) = AllCalls(l) /\ AllResults(l2) = AllResults(l) /\ AllThoughts(l2) = AllThoughts(l)
    /\ AllPlans(l2) = AllPlans(l) \cup {text}
    /\ l2.called = l.called

\* A plan, for the last message or the next.
LEMMA PlanRead ==
  ASSUME NEW now \in Nat, NEW time \in 1 .. now, NEW l, LoadGood(l, now),
         NEW r, r.text \in Texts, NEW l2, l2 = LoadPlan(l, r, time)
  PROVE  /\ LoadGood(l2, now) /\ UsageOnce(l, l2) /\ PlanTold(l, r.text, l2)
         /\ SameShown(l.messages, l2.messages)
<1>1. l \in LoadState /\ l.pending \in Pending /\ l.pending.time \in 0 .. now
      /\ l.called \in SUBSET Texts /\ l.messages \in Seq(Message)
  BY LoadParts DEF LoadGood, LoadFits
<1>2. PICK one \in Seq(Texts) : one = <<r.text>> /\ ToSet(one) = {r.text}
  <2>1. <<r.text>> \in Seq(Texts)
    OBVIOUS
  <2>2. ToSet(<<r.text>>) = {r.text}
    BY DEF ToSet
  <2>3. QED
    BY <2>1, <2>2
<1>3. PICK late \in BOOLEAN :
        late <=> /\ l.messages # <<>> /\ Last(l.messages).role = "assistant"
                 /\ l.pending.thoughts = <<>> /\ l.pending.calls = <<>>
                 /\ l.pending.results = <<>> /\ l.pending.plans = <<>>
  OBVIOUS
<1>4. CASE late
  <2>1. PICK n \in Nat : n = Len(l.messages) /\ n # 0 /\ n \in 1 .. n
    BY <1>1, <1>3, <1>4, LenProperties, EmptySeq
  <2>2. PICK old \in Message : old = l.messages[n]
    BY <1>1, <2>1, ElementOfSeq
  <2>3. old.plans \in Seq(Texts) /\ old.calls \in Seq(Texts) /\ old.results \in Seq(Result)
    BY DEF Message
  <2>4. PICK plans \in Seq(Texts) : plans = AppendUniquePlans(old.plans, one)
                                    /\ ToSet(plans) = ToSet(old.plans) \cup {r.text}
    <3>1. /\ AppendUniquePlans(old.plans, one) \in Seq(Texts)
          /\ ToSet(AppendUniquePlans(old.plans, one)) = ToSet(old.plans) \cup ToSet(one)
      BY <2>3, UniquePlans
    <3>2. QED
      BY <1>2, <3>1
  <2>5. PICK msg : msg = [old EXCEPT !.plans = plans]
    OBVIOUS
  <2>6. msg \in Message /\ msg.plans = plans /\ msg.calls = old.calls /\ msg.results = old.results
        /\ msg.thoughts = old.thoughts /\ msg.role = old.role /\ msg.text = old.text
        /\ msg.usage = old.usage /\ msg.time = old.time /\ msg.hidden = old.hidden
    BY <2>5 DEF Message
  <2>7. PICK more : more = [l.messages EXCEPT ![n] = msg]
    OBVIOUS
  <2>8. l2 = [l EXCEPT !.messages = more]
    <3>1. l2 = [l EXCEPT !.messages[n].plans = AppendUniquePlans(@, one)]
      BY <1>2, <1>3, <1>4, <2>1 DEF LoadPlan
    <3>2. QED
      BY <1>1, <2>1, <2>2, <2>4, <2>5, <2>7, <3>1 DEF LoadState, Message
  <2>9. IsReplaced(l.messages, msg, more) /\ Adds(l.messages, more, <<>>, <<>>, {r.text}, {})
    <3>1. msg.calls = l.messages[Len(l.messages)].calls \o <<>>
          /\ msg.results = l.messages[Len(l.messages)].results \o <<>>
      BY <2>1, <2>2, <2>3, <2>6, ConcatEmptySeq
    <3>2. ToSet(msg.plans) = ToSet(l.messages[Len(l.messages)].plans) \cup {r.text}
          /\ ToSet(msg.thoughts) = ToSet(l.messages[Len(l.messages)].thoughts) \cup {}
      BY <2>1, <2>2, <2>4, <2>6
    <3>3. more = [l.messages EXCEPT ![Len(l.messages)] = msg] /\ l.messages # <<>>
      BY <1>3, <1>4, <2>1, <2>7
    <3>4. <<>> \in Seq(Texts) /\ <<>> \in Seq(Result) /\ msg \in Message
      BY <2>6, EmptySeq
    <3>5. QED
      BY <1>1, <3>1, <3>2, <3>3, <3>4, LastReplaced
  <2>10. more \in Seq(Message)
    BY <2>9 DEF Adds
  <2>11. SameSight(l.messages, more)
    <3>1. Len(more) = n /\ more[n] = msg /\ \A i \in 1 .. n - 1 : more[i] = l.messages[i]
      BY <2>1, <2>9 DEF IsReplaced
    <3>2. ASSUME NEW i \in 1 .. n
          PROVE /\ more[i].role = l.messages[i].role /\ more[i].text = l.messages[i].text
                /\ more[i].usage = l.messages[i].usage /\ more[i].time = l.messages[i].time
                /\ more[i].hidden = l.messages[i].hidden /\ more[i].thoughts = l.messages[i].thoughts
      <4>1. CASE i = n
        BY <2>2, <2>6, <3>1, <4>1
      <4>2. CASE i # n
        <5>1. i \in 1 .. n - 1
          BY <4>2
        <5>2. QED
          BY <3>1, <5>1
      <4>3. QED
        BY <4>1, <4>2
    <3>3. QED
      BY <2>1, <3>1, <3>2 DEF SameSight
  <2>12. /\ LoadGood(l2, now) /\ UsageOnce(l, l2) /\ SameShown(l.messages, l2.messages)
         /\ l2.messages = more /\ l2.pending = l.pending /\ l2.called = l.called
    BY <2>8, <2>10, <2>11, SightGood
  <2>13. PlanTold(l, r.text, l2)
    <3>1. CallsOf(l.messages) \in Seq(Texts) /\ ResultsOf(l.messages) \in Seq(Result)
      BY <1>1, OfType
    <3>2. CallsOf(more) = CallsOf(l.messages) /\ ResultsOf(more) = ResultsOf(l.messages)
      BY <2>9, <3>1, ConcatEmptySeq DEF Adds
    <3>3. PlansOf(more) = PlansOf(l.messages) \cup {r.text} /\ ThoughtsOf(more) = ThoughtsOf(l.messages)
      BY <2>9 DEF Adds
    <3>4. QED
      BY <2>12, <3>2, <3>3 DEF PlanTold, AllCalls, AllResults, AllPlans, AllThoughts
  <2>14. QED
    BY <2>12, <2>13
<1>5. CASE ~late
  <2>1. PICK t \in Nat : t = MaxTime(l.pending.time, time) /\ t \in 1 .. now
    <3>1. MaxTime(l.pending.time, time) \in 1 .. now
      BY <1>1, Later
    <3>2. QED
      BY <3>1
  <2>2. PICK called \in SUBSET Texts : called = l.called
    BY <1>1
  <2>3. PICK old \in Seq(Texts) : old = l.pending.plans
    BY <1>1, PendingParts
  <2>4. PICK plans \in Seq(Texts) : plans = AppendUniquePlans(old, one)
                                    /\ ToSet(plans) = ToSet(old) \cup {r.text}
    <3>1. /\ AppendUniquePlans(old, one) \in Seq(Texts)
          /\ ToSet(AppendUniquePlans(old, one)) = ToSet(old) \cup ToSet(one)
      BY UniquePlans
    <3>2. QED
      BY <1>2, <3>1
  <2>5. PICK p : p = [l.pending EXCEPT !.plans = plans, !.time = t]
    OBVIOUS
  <2>6. l2 = [l EXCEPT !.pending = p, !.called = called]
    <3>1. l2 = [l EXCEPT !.pending.plans = AppendUniquePlans(@, one), !.pending.time = MaxTime(@, time)]
      BY <1>2, <1>3, <1>5 DEF LoadPlan
    <3>2. QED
      BY <1>1, <2>1, <2>2, <2>3, <2>4, <2>5, <3>1 DEF LoadState, Pending
  <2>7. p \in Pending
    BY <1>1, <2>1, <2>5 DEF Pending
  <2>8. /\ p.time = t /\ p.thoughts = l.pending.thoughts /\ p.calls = l.pending.calls
        /\ p.results = l.pending.results /\ p.plans = plans
    BY <1>1, <2>5 DEF Pending
  <2>9. /\ LoadGood(l2, now) /\ UsageOnce(l, l2)
        /\ l2.messages = l.messages /\ l2.pending = p /\ l2.called = called
    <3>1. p.time \in 1 .. now
      BY <2>1, <2>8
    <3>2. LoadGood(l2, now) /\ UsageOnce(l, l2) /\ PendingIs(l, p, called, l2)
      BY <2>6, <2>7, <3>1, PendingChanges
    <3>3. QED
      BY <3>2 DEF PendingIs
  <2>10. PlanTold(l, r.text, l2)
    BY <2>2, <2>3, <2>4, <2>8, <2>9 DEF PlanTold, AllCalls, AllResults, AllPlans, AllThoughts
  <2>11. SameShown(l.messages, l2.messages)
    <3>1. Len(l.messages) \in Nat
      BY <1>1, LenProperties
    <3>2. QED
      BY <2>9, <3>1 DEF SameShown, Extends
  <2>12. QED
    BY <2>9, <2>10, <2>11
<1>6. QED
  BY <1>4, <1>5

\* more differs from messages in the usage of the w-th only.
Used(messages, w, more) ==
    /\ Len(more) = Len(messages)
    /\ \A i \in 1 .. Len(messages) :
        /\ more[i].role = messages[i].role /\ more[i].text = messages[i].text
        /\ i # w => more[i].usage = messages[i].usage

\* A message is given its usage.
LEMMA UsageGiven ==
  ASSUME NEW now \in Nat, NEW l, LoadGood(l, now), NEW usage \in 0 .. now,
         NEW w \in 1 .. Len(l.messages), NEW l2, l2 = [l EXCEPT !.messages[w].usage = usage]
  PROVE  /\ l2 \in LoadState /\ LoadFits(l2, now) /\ NoEchoIn(l2.messages)
         /\ SameContent(l, l2) /\ SameShown(l.messages, l2.messages)
         /\ Used(l.messages, w, l2.messages)
<1>1. l \in LoadState /\ LoadFits(l, now) /\ NoEchoIn(l.messages)
  BY DEF LoadGood
<1>2. PICK n \in Nat : n = Len(l.messages) /\ l.messages \in Seq(Message)
  BY <1>1, LoadParts
<1>3. PICK old \in Message : old = l.messages[w]
  BY <1>2, ElementOfSeq
<1>4. PICK msg : msg = [old EXCEPT !.usage = usage]
  OBVIOUS
<1>5. usage \in Nat
  OBVIOUS
<1>6. /\ msg \in Message /\ msg.usage = usage
      /\ msg.plans = old.plans /\ msg.calls = old.calls /\ msg.results = old.results
      /\ msg.thoughts = old.thoughts /\ msg.role = old.role /\ msg.text = old.text
      /\ msg.time = old.time /\ msg.hidden = old.hidden
  BY <1>4, <1>5 DEF Message
<1>7. PICK more : more = [l.messages EXCEPT ![w] = msg]
  OBVIOUS
<1>8. more \in Seq(Message) /\ Len(more) = n
      /\ \A i \in 1 .. n : more[i] = IF i = w THEN msg ELSE l.messages[i]
  BY <1>2, <1>6, <1>7, ExceptSeq
<1>9. l2 = [l EXCEPT !.messages = more]
  BY <1>1, <1>2, <1>3, <1>4, <1>7 DEF LoadState, Message
<1>10. l2 \in LoadState /\ l2.messages = more /\ l2.pending = l.pending /\ l2.called = l.called
  BY <1>1, <1>8, <1>9 DEF LoadState
<1>11. ASSUME NEW i \in 1 .. n
       PROVE /\ more[i].role = l.messages[i].role /\ more[i].text = l.messages[i].text
             /\ more[i].time = l.messages[i].time
             /\ more[i].hidden = l.messages[i].hidden /\ more[i].thoughts = l.messages[i].thoughts
             /\ more[i].calls = l.messages[i].calls /\ more[i].results = l.messages[i].results
             /\ more[i].plans = l.messages[i].plans
             /\ more[i].usage = IF i = w THEN usage ELSE l.messages[i].usage
  BY <1>3, <1>6, <1>8
<1>12. LoadFits(l2, now)
  <2>1. ASSUME NEW i \in 1 .. n PROVE MessageFits(more[i], now)
    <3>1. MessageFits(l.messages[i], now)
      BY <1>1, <1>2 DEF LoadFits, MessagesFit
    <3>2. QED
      BY <1>11, <3>1 DEF MessageFits
  <2>2. MessagesFit(l2.messages, now)
    BY <1>8, <1>10, <2>1 DEF MessagesFit
  <2>3. QED
    BY <1>1, <1>10, <2>2 DEF LoadFits, HasPending
<1>13. NoEchoIn(l2.messages)
  <2>1. ASSUME NEW i \in 1 .. n - 1, more[i].role = more[i + 1].role, more[i].text = more[i + 1].text
        PROVE  more[i].text = None
    <3>1. i \in 1 .. n /\ i + 1 \in 1 .. n
      OBVIOUS
    <3>2. l.messages[i].role = l.messages[i + 1].role /\ l.messages[i].text = l.messages[i + 1].text
      BY <1>11, <2>1, <3>1
    <3>3. QED
      BY <1>1, <1>2, <1>11, <3>1, <3>2 DEF NoEchoIn
  <2>2. QED
    BY <1>8, <1>10, <2>1 DEF NoEchoIn
<1>14. SameContent(l, l2)
  <2>1. [i \in 1 .. n |-> more[i].calls] = [i \in 1 .. n |-> l.messages[i].calls]
    BY <1>11
  <2>2. [i \in 1 .. n |-> more[i].results] = [i \in 1 .. n |-> l.messages[i].results]
    BY <1>11
  <2>3. CallsOf(more) = CallsOf(l.messages) /\ ResultsOf(more) = ResultsOf(l.messages)
    BY <1>2, <1>8, <2>1, <2>2 DEF CallsOf, ResultsOf
  <2>4. PlansOf(more) = PlansOf(l.messages)
    BY <1>2, <1>8, <1>11 DEF PlansOf
  <2>5. ThoughtsOf(more) = ThoughtsOf(l.messages)
    BY <1>2, <1>8, <1>11 DEF ThoughtsOf
  <2>6. QED
    BY <1>10, <2>3, <2>4, <2>5 DEF SameContent, AllCalls, AllResults, AllPlans, AllThoughts
<1>15. SameShown(l.messages, l2.messages)
  BY <1>2, <1>8, <1>10, <1>11 DEF SameShown, Extends
<1>16. Used(l.messages, w, l2.messages)
  BY <1>2, <1>8, <1>10, <1>11 DEF Used
<1>17. QED
  BY <1>10, <1>12, <1>13, <1>14, <1>15, <1>16

\* What waits is flushed, the first message of the window gets the usage,
\* and a new window opens.
LEMMA UsageAttached ==
  ASSUME NEW now \in Nat, NEW usage \in 0 .. now, NEW l, LoadGood(l, now),
         NEW s, AgreesOn(s, l.messages),
         NEW l2, l2 = AttachRequestUsage(l, usage)
  PROVE  /\ LoadGood(l2, now) /\ UsageOnce(l, l2) /\ SameContent(l, l2)
         /\ AgreesOn(s, l2.messages)
<1>1. l \in LoadState
  BY DEF LoadGood
<1>2. PICK l1 : l1 = IF HasPending(l) THEN Flush(l) ELSE l
  OBVIOUS
<1>3. PICK n \in Nat : n = Len(l.messages)
  BY <1>1, LoadParts
<1>4. /\ LoadGood(l1, now) /\ SameContent(l, l1) /\ SameShown(l.messages, l1.messages)
      /\ \A i \in 1 .. n : l1.messages[i].usage = l.messages[i].usage
  <2>1. CASE HasPending(l)
    <3>1. l1 = FlushAssistant(l, None, 0)
      BY <1>2, <2>1 DEF Flush
    <3>2. LoadGood(l1, now) /\ SameContent(l, l1) /\ Flushed(l, None, 0, l1)
      <4>1. 0 \in 0 .. now /\ (None # None => 0 >= 1) /\ None \in Texts \cup {None}
        OBVIOUS
      <4>2. QED
        BY <3>1, <4>1, FlushGood
    <3>3. l1 \in LoadState
      BY <3>2 DEF LoadGood
    <3>4. SameShown(l.messages, l1.messages)
      BY <1>1, <3>2, <3>3, FlushShows
    <3>5. \A i \in 1 .. n : l1.messages[i].usage = l.messages[i].usage
      BY <1>3, <3>2, FlushUsage
    <3>6. QED
      BY <3>2, <3>4, <3>5
  <2>2. CASE ~HasPending(l)
    <3>1. l1 = l
      BY <1>2, <2>2
    <3>2. SameShown(l.messages, l.messages)
      BY <1>3 DEF SameShown, Extends
    <3>3. QED
      BY <3>1, <3>2 DEF SameContent
  <2>3. QED
    BY <2>1, <2>2
<1>5. l1 \in LoadState /\ LoadFits(l1, now) /\ WindowFits(l1) /\ NoEchoIn(l1.messages)
  BY <1>4 DEF LoadGood
<1>6. l.messages \in Seq(Message) /\ l1.messages \in Seq(Message) /\ AgreesOn(s, l1.messages)
  <2>1. l.messages \in Seq(Message) /\ l1.messages \in Seq(Message)
    BY <1>1, <1>5, LoadParts
  <2>2. QED
    BY <1>4, <2>1, AgreesSame
<1>7. PICK m \in Nat : m = Len(l1.messages) /\ n <= m
  BY <1>3, <1>4, <1>5, LoadParts DEF SameShown, Extends
<1>8. PICK l3 : /\ l3 = IF l1.windowFirst = 0 THEN l1
                        ELSE [l1 EXCEPT !.messages[l1.windowFirst].usage = usage]
                /\ l2 = OpenRequestWindow(l3)
  BY <1>2 DEF AttachRequestUsage
<1>9. /\ l3 \in LoadState /\ LoadFits(l3, now) /\ NoEchoIn(l3.messages)
      /\ SameContent(l1, l3) /\ AgreesOn(s, l3.messages) /\ UsageOnce(l, l3)
  <2>1. CASE l1.windowFirst = 0
    <3>1. l3 = l1
      BY <1>8, <2>1
    <3>2. UsageOnce(l, l1)
      BY <1>3, <1>4 DEF UsageOnce
    <3>3. QED
      BY <1>5, <1>6, <3>1, <3>2 DEF SameContent
  <2>2. CASE l1.windowFirst # 0
    <3>1. PICK w \in 1 .. m : /\ w = l1.windowFirst
                              /\ l1.messages[w].usage = 0
                              /\ \A i \in w .. m : l1.messages[i].role # "user"
      <4>1. PICK start \in 1 .. m + 1 : start = l1.windowStart
        BY <1>5, <1>7 DEF WindowFits
      <4>2. l1.windowFirst \in start .. m
        BY <1>5, <1>7, <2>2, <4>1 DEF WindowFits
      <4>3. \A i \in start .. m : l1.messages[i].role # "user" /\ l1.messages[i].usage = 0
        BY <1>5, <1>7, <4>1 DEF WindowFits
      <4>4. l1.windowFirst \in 1 .. m /\ \A i \in l1.windowFirst .. m : i \in start .. m
        BY <4>2
      <4>5. QED
        BY <4>2, <4>3, <4>4
    <3>2. l3 = [l1 EXCEPT !.messages[w].usage = usage]
      BY <1>8, <2>2, <3>1
    <3>3. /\ l3 \in LoadState /\ LoadFits(l3, now) /\ NoEchoIn(l3.messages)
          /\ SameContent(l1, l3) /\ SameShown(l1.messages, l3.messages)
          /\ Used(l1.messages, w, l3.messages)
      BY <1>4, <1>7, <3>2, UsageGiven
    <3>4. AgreesOn(s, l3.messages)
      <4>1. l3.messages \in Seq(Message)
        BY <3>3, LoadParts
      <4>2. QED
        BY <1>6, <3>3, <4>1, AgreesSame
    <3>5. UsageOnce(l, l3)
      <4>1. ASSUME NEW i \in 1 .. n, l3.messages[i].usage # l.messages[i].usage
            PROVE  /\ l.messages[i].usage = 0
                   /\ \A j \in i .. Len(l3.messages) : l3.messages[j].role # "user"
        <5>1. i \in 1 .. m /\ l1.messages[i].usage = l.messages[i].usage
          BY <1>4, <1>7
        <5>2. i = w
          BY <1>7, <3>3, <4>1, <5>1 DEF Used
        <5>3. Len(l3.messages) = m /\ \A j \in 1 .. m : l3.messages[j].role = l1.messages[j].role
          BY <1>7, <3>3 DEF Used
        <5>4. QED
          BY <3>1, <5>1, <5>2, <5>3, SMTT(30)
      <4>2. QED
        BY <1>3, <4>1 DEF UsageOnce
    <3>6. QED
      BY <3>3, <3>4, <3>5
  <2>3. QED
    BY <2>1, <2>2
<1>10. /\ l2 \in LoadState /\ WindowFits(l2)
       /\ l2.messages = l3.messages /\ l2.pending = l3.pending /\ l2.called = l3.called
  BY <1>8, <1>9, WindowOpened
<1>11. LoadFits(l2, now)
  BY <1>9, <1>10 DEF LoadFits, HasPending
<1>12. SameContent(l, l2)
  BY <1>4, <1>9, <1>10 DEF SameContent, AllCalls, AllResults, AllPlans, AllThoughts
<1>13. UsageOnce(l, l2)
  BY <1>9, <1>10 DEF UsageOnce
<1>14. QED
  BY <1>9, <1>10, <1>11, <1>12, <1>13 DEF LoadGood

\* A count of tokens: nothing when it was told before.
LEMMA TokensRead ==
  ASSUME NEW now \in Nat, NEW time \in 1 .. now, NEW l, LoadGood(l, now),
         NEW s, AgreesOn(s, l.messages),
         NEW r, r.total \in Nat \cup {NoTotal}, NEW l2, l2 = LoadTokens(l, r, time)
  PROVE  /\ LoadGood(l2, now) /\ UsageOnce(l, l2) /\ SameContent(l, l2)
         /\ AgreesOn(s, l2.messages)
<1>1. CASE ~IsNewRequest(l, r)
  <2>1. l2 = l
    BY <1>1 DEF LoadTokens
  <2>2. QED
    BY <2>1 DEF UsageOnce, SameContent
<1>2. CASE IsNewRequest(l, r)
  <2>1. l \in LoadState /\ LoadFits(l, now) /\ WindowFits(l) /\ NoEchoIn(l.messages)
    BY DEF LoadGood
  <2>2. PICK total \in Nat : total = IF r.total = NoTotal THEN l.total ELSE r.total
    BY <2>1, LoadParts
  <2>3. PICK l1 : l1 = [l EXCEPT !.total = total]
    OBVIOUS
  <2>4. l2 = AttachRequestUsage(l1, time)
    BY <1>2, <2>2, <2>3 DEF LoadTokens
  <2>5. l1 \in LoadState
    BY <2>1, <2>3 DEF LoadState
  <2>6. /\ l1.messages = l.messages /\ l1.pending = l.pending /\ l1.called = l.called
        /\ l1.windowStart = l.windowStart /\ l1.windowFirst = l.windowFirst
    BY <2>1, <2>3 DEF LoadState
  <2>7. LoadFits(l1, now) /\ WindowFits(l1) /\ NoEchoIn(l1.messages)
    BY <2>1, <2>6 DEF LoadFits, HasPending, WindowFits
  <2>8. LoadGood(l1, now) /\ time \in 0 .. now /\ AgreesOn(s, l1.messages)
    BY <2>5, <2>6, <2>7 DEF LoadGood
  <2>9. /\ LoadGood(l2, now) /\ UsageOnce(l1, l2) /\ SameContent(l1, l2)
        /\ AgreesOn(s, l2.messages)
    BY <2>4, <2>8, UsageAttached
  <2>10. QED
    BY <2>6, <2>9 DEF UsageOnce, SameContent, AllCalls, AllResults, AllPlans, AllThoughts
<1>3. QED
  BY <1>1, <1>2

-----------------------------------------------------------------------------
(* Any record *)

ScanFits(s, l) ==
    /\ AgreesOn(s, l.messages)
    /\ s.calls = l.called
    /\ s.errors = Cardinality(Failed(AllResults(l)))

\* What a record adds to what is known of its rollout.
Tells(l, r, l2) ==
    /\ AllCalls(l2) = IF r.kind = "call" THEN Append(AllCalls(l), r.text) ELSE AllCalls(l)
    /\ Outcomes(AllResults(l2)) =
           IF r.kind = "result" THEN Append(Outcomes(AllResults(l)), <<r.text, r.bad>>)
           ELSE Outcomes(AllResults(l))
    /\ AllPlans(l2) = IF r.kind = "plan" THEN AllPlans(l) \cup {r.text} ELSE AllPlans(l)
    /\ AllThoughts(l2) = IF r.kind = "reasoning" THEN AllThoughts(l) \cup ({r.text} \ {None})
                         ELSE AllThoughts(l)

\* The scan of a rollout whose counted messages are the same.
LEMMA ScanSame ==
  ASSUME NEW s, NEW messages, AgreesOn(s, messages), NEW t \in ScanState,
         t.count = s.count, t.first = s.first, t.lastRole = s.lastRole, t.lastText = s.lastText
  PROVE  AgreesOn(t, messages)
  BY DEF AgreesOn

\* A message, read by both passes.
LEMMA MessageStep ==
  ASSUME NEW now \in Nat, NEW time \in 1 .. now, NEW l, LoadGood(l, now), NEW s, ScanFits(s, l),
         NEW r \in [kind : {"message"}, role : Roles, text : Texts],
         NEW l2, l2 = LoadRecord(l, r, time), NEW t, t = ScanRecord(s, r)
  PROVE  LoadGood(l2, now) /\ ScanFits(t, l2) /\ UsageOnce(l, l2) /\ Tells(l, r, l2)
<1>1. r.kind = "message" /\ r.role \in Roles /\ r.text \in Texts
  OBVIOUS
<1>2. l2 = LoadMessage(l, r, time) /\ t = ScanMessage(s, r)
  BY <1>1 DEF LoadRecord, ScanRecord
<1>3. AgreesOn(s, l.messages) /\ s \in ScanState
  BY DEF ScanFits, AgreesOn
<1>4. LoadGood(l2, now) /\ SameContent(l, l2) /\ AgreesOn(t, l2.messages) /\ UsageOnce(l, l2)
  BY <1>1, <1>2, <1>3, MessageRead
<1>5. t.calls = s.calls /\ t.errors = s.errors
  BY <1>2, <1>3 DEF ScanMessage, ScanState
<1>6. ScanFits(t, l2)
  BY <1>4, <1>5 DEF ScanFits, SameContent
<1>7. Tells(l, r, l2)
  BY <1>1, <1>4 DEF Tells, SameContent
<1>8. QED
  BY <1>4, <1>6, <1>7

\* Reasoning, read by both passes.
LEMMA ReasoningStep ==
  ASSUME NEW now \in Nat, NEW time \in 1 .. now, NEW l, LoadGood(l, now), NEW s, ScanFits(s, l),
         NEW r \in [kind : {"reasoning"}, text : Texts \cup {None}, encrypted : BOOLEAN],
         NEW l2, l2 = LoadRecord(l, r, time), NEW t, t = ScanRecord(s, r)
  PROVE  LoadGood(l2, now) /\ ScanFits(t, l2) /\ UsageOnce(l, l2) /\ Tells(l, r, l2)
<1>1. r.kind = "reasoning" /\ r.text \in Texts \cup {None} /\ r.encrypted \in BOOLEAN
  OBVIOUS
<1>2. l2 = LoadReasoning(l, r, time) /\ t = s
  BY <1>1 DEF LoadRecord, ScanRecord
<1>3. LoadGood(l2, now) /\ UsageOnce(l, l2) /\ ThoughtRead(l, r.text, l2)
  BY <1>1, <1>2, ReasoningRead
<1>4. ScanFits(t, l2)
  BY <1>2, <1>3 DEF ScanFits, ThoughtRead
<1>5. Tells(l, r, l2)
  BY <1>1, <1>3 DEF Tells, ThoughtRead
<1>6. QED
  BY <1>3, <1>4, <1>5

\* A call, read by both passes.
LEMMA CallStep ==
  ASSUME NEW now \in Nat, NEW time \in 1 .. now, NEW l, LoadGood(l, now), NEW s, ScanFits(s, l),
         NEW r, r.kind = "call", r.text \in Texts,
         NEW l2, l2 = LoadRecord(l, r, time), NEW t, t = ScanRecord(s, r)
  PROVE  LoadGood(l2, now) /\ ScanFits(t, l2) /\ UsageOnce(l, l2) /\ Tells(l, r, l2)
<1>1. l2 = LoadCall(l, r, time) /\ t = [s EXCEPT !.calls = @ \cup {r.text}]
  BY DEF LoadRecord, ScanRecord
<1>2. s \in ScanState
  BY DEF ScanFits, AgreesOn
<1>3. /\ LoadGood(l2, now) /\ UsageOnce(l, l2)
      /\ AllCalls(l2) = Append(AllCalls(l), r.text)
      /\ AllResults(l2) = AllResults(l) /\ AllPlans(l2) = AllPlans(l) /\ AllThoughts(l2) = AllThoughts(l)
      /\ l2.called = l.called \cup {r.text} /\ l2.messages = l.messages
  BY <1>1, CallRead
<1>4. /\ t \in ScanState /\ t.calls = s.calls \cup {r.text} /\ t.errors = s.errors
      /\ t.count = s.count /\ t.first = s.first /\ t.lastRole = s.lastRole /\ t.lastText = s.lastText
  BY <1>1, <1>2 DEF ScanState
<1>5. AgreesOn(t, l2.messages)
  BY <1>3, <1>4, ScanSame DEF ScanFits
<1>6. ScanFits(t, l2)
  BY <1>3, <1>4, <1>5 DEF ScanFits
<1>7. Tells(l, r, l2)
  BY <1>3 DEF Tells
<1>8. QED
  BY <1>3, <1>6, <1>7

\* A result, read by both passes.
LEMMA ResultStep ==
  ASSUME NEW now \in Nat, NEW time \in 1 .. now, NEW l, LoadGood(l, now), NEW s, ScanFits(s, l),
         NEW r \in [kind : {"result"}, text : Texts, bad : BOOLEAN],
         NEW l2, l2 = LoadRecord(l, r, time), NEW t, t = ScanRecord(s, r)
  PROVE  LoadGood(l2, now) /\ ScanFits(t, l2) /\ UsageOnce(l, l2) /\ Tells(l, r, l2)
<1>1. r.kind = "result" /\ r.text \in Texts /\ r.bad \in BOOLEAN
  OBVIOUS
<1>2. l2 = LoadResult(l, r, time) /\ t = ScanResult(s, r)
  BY <1>1 DEF LoadRecord, ScanRecord
<1>3. s \in ScanState /\ s.calls = l.called
  BY DEF ScanFits, AgreesOn
<1>a. LoadGood(l2, now) /\ UsageOnce(l, l2) /\ ResultTold(l, r, l2)
  BY <1>1, <1>2, ResultRead
<1>4. /\ AllCalls(l2) = AllCalls(l) /\ AllPlans(l2) = AllPlans(l) /\ AllThoughts(l2) = AllThoughts(l)
      /\ l2.called = l.called /\ l2.messages = l.messages
      /\ AllResults(l) \in Seq(Result)
  BY <1>a DEF ResultTold
<1>5. PICK x \in Result : /\ AllResults(l2) = Append(AllResults(l), x)
                          /\ x.call = r.text /\ x.bad = r.bad
                          /\ x.known = (r.text \in l.called)
  BY <1>a DEF ResultTold
<1>6. Outcomes(AllResults(l2)) = Append(Outcomes(AllResults(l)), <<r.text, r.bad>>)
  <2>1. Outcomes(AllResults(l2)) = Append(Outcomes(AllResults(l)), <<x.call, x.bad>>)
    BY <1>4, <1>5, OutcomesMore
  <2>2. QED
    BY <1>5, <2>1
<1>7. Cardinality(Failed(AllResults(l2))) =
        IF x.known /\ x.bad THEN Cardinality(Failed(AllResults(l))) + 1
        ELSE Cardinality(Failed(AllResults(l)))
  BY <1>4, <1>5, FailedMore
<1>8. x.known /\ x.bad <=> r.bad /\ r.text \in s.calls
  <2>1. x.known <=> r.text \in l.called
    BY <1>5, Zenon
  <2>2. QED
    BY <1>3, <1>5, <2>1, Zenon
<1>9. /\ t \in ScanState /\ t.calls = s.calls
      /\ t.errors = IF r.bad /\ r.text \in s.calls THEN s.errors + 1 ELSE s.errors
      /\ t.count = s.count /\ t.first = s.first /\ t.lastRole = s.lastRole /\ t.lastText = s.lastText
  <2>1. CASE r.bad /\ r.text \in s.calls
    <3>1. t = [s EXCEPT !.errors = s.errors + 1]
      BY <1>2, <2>1 DEF ScanResult
    <3>2. s.errors + 1 \in Nat
      BY <1>3 DEF ScanState
    <3>3. QED
      BY <1>3, <2>1, <3>1, <3>2 DEF ScanState
  <2>2. CASE ~(r.bad /\ r.text \in s.calls)
    <3>1. t = s
      BY <1>2, <2>2 DEF ScanResult
    <3>2. QED
      BY <1>3, <2>2, <3>1
  <2>3. QED
    BY <2>1, <2>2
<1>10. AgreesOn(t, l2.messages)
  BY <1>4, <1>9, ScanSame DEF ScanFits
<1>11. t.errors = Cardinality(Failed(AllResults(l2)))
  <2>1. s.errors = Cardinality(Failed(AllResults(l)))
    BY DEF ScanFits
  <2>2. QED
    BY <1>7, <1>8, <1>9, <2>1
<1>12. ScanFits(t, l2)
  BY <1>3, <1>4, <1>9, <1>10, <1>11 DEF ScanFits
<1>13. Tells(l, r, l2)
  BY <1>1, <1>4, <1>6 DEF Tells
<1>14. QED
  BY <1>a, <1>12, <1>13

\* A plan, read by both passes.
LEMMA PlanStep ==
  ASSUME NEW now \in Nat, NEW time \in 1 .. now, NEW l, LoadGood(l, now), NEW s, ScanFits(s, l),
         NEW r, r.kind = "plan", r.text \in Texts,
         NEW l2, l2 = LoadRecord(l, r, time), NEW t, t = ScanRecord(s, r)
  PROVE  LoadGood(l2, now) /\ ScanFits(t, l2) /\ UsageOnce(l, l2) /\ Tells(l, r, l2)
<1>1. l2 = LoadPlan(l, r, time) /\ t = s
  BY DEF LoadRecord, ScanRecord
<1>2. /\ LoadGood(l2, now) /\ UsageOnce(l, l2) /\ PlanTold(l, r.text, l2)
      /\ SameShown(l.messages, l2.messages)
  BY <1>1, PlanRead
<1>3. l.messages \in Seq(Message) /\ l2.messages \in Seq(Message)
  BY <1>2, LoadParts DEF LoadGood
<1>4. AgreesOn(t, l2.messages)
  BY <1>1, <1>2, <1>3, AgreesSame DEF ScanFits
<1>5. ScanFits(t, l2)
  BY <1>1, <1>2, <1>4 DEF ScanFits, PlanTold
<1>6. Tells(l, r, l2)
  BY <1>2 DEF Tells, PlanTold
<1>7. QED
  BY <1>2, <1>5, <1>6

\* A count of tokens, read by both passes.
LEMMA TokensStep ==
  ASSUME NEW now \in Nat, NEW time \in 1 .. now, NEW l, LoadGood(l, now), NEW s, ScanFits(s, l),
         NEW r \in [kind : {"tokens"}, total : Nat \cup {NoTotal}, last : BOOLEAN],
         NEW l2, l2 = LoadRecord(l, r, time), NEW t, t = ScanRecord(s, r)
  PROVE  LoadGood(l2, now) /\ ScanFits(t, l2) /\ UsageOnce(l, l2) /\ Tells(l, r, l2)
<1>1. r.kind = "tokens" /\ r.total \in Nat \cup {NoTotal}
  OBVIOUS
<1>2. l2 = LoadTokens(l, r, time) /\ t = ScanTokens(s, r)
  BY <1>1 DEF LoadRecord, ScanRecord
<1>3. s \in ScanState /\ AgreesOn(s, l.messages)
  BY DEF ScanFits, AgreesOn
<1>4. /\ LoadGood(l2, now) /\ UsageOnce(l, l2) /\ SameContent(l, l2)
      /\ AgreesOn(s, l2.messages)
  BY <1>1, <1>2, <1>3, TokensRead
<1>5. /\ t \in ScanState /\ t.calls = s.calls /\ t.errors = s.errors
      /\ t.count = s.count /\ t.first = s.first /\ t.lastRole = s.lastRole /\ t.lastText = s.lastText
  <2>1. PICK usage \in Nat : usage = IF r.total = NoTotal THEN 0 ELSE r.total
    BY <1>1
  <2>2. t = [s EXCEPT !.usage = usage]
    BY <1>2, <2>1 DEF ScanTokens
  <2>3. QED
    BY <1>3, <2>2 DEF ScanState
<1>6. AgreesOn(t, l2.messages)
  BY <1>4, <1>5, ScanSame
<1>7. ScanFits(t, l2)
  BY <1>4, <1>5, <1>6 DEF ScanFits, SameContent
<1>8. Tells(l, r, l2)
  BY <1>1, <1>4 DEF Tells, SameContent
<1>9. QED
  BY <1>4, <1>7, <1>8

\* Any record, read by both passes, keeps what both know in step.
LEMMA RecordStep ==
  ASSUME NEW now \in Nat, NEW time \in 1 .. now, NEW l, LoadGood(l, now), NEW s, ScanFits(s, l),
         NEW r \in AllRecords,
         NEW l2, l2 = LoadRecord(l, r, time), NEW t, t = ScanRecord(s, r)
  PROVE  LoadGood(l2, now) /\ ScanFits(t, l2) /\ UsageOnce(l, l2) /\ Tells(l, r, l2)
<1>1. CASE r \in [kind : {"message"}, role : Roles, text : Texts]
  BY <1>1, MessageStep
<1>2. CASE r \in [kind : {"reasoning"}, text : Texts \cup {None}, encrypted : BOOLEAN]
  BY <1>2, ReasoningStep
<1>3. CASE r \in [kind : {"call", "plan"}, text : Texts]
  <2>1. r.kind \in {"call", "plan"} /\ r.text \in Texts
    BY <1>3
  <2>2. CASE r.kind = "call"
    BY <2>1, <2>2, CallStep
  <2>3. CASE r.kind = "plan"
    BY <2>1, <2>3, PlanStep
  <2>4. QED
    BY <2>1, <2>2, <2>3
<1>4. CASE r \in [kind : {"result"}, text : Texts, bad : BOOLEAN]
  BY <1>4, ResultStep
<1>5. CASE r \in [kind : {"tokens"}, total : Nat \cup {NoTotal}, last : BOOLEAN]
  BY <1>5, TokensStep
<1>6. QED
  BY <1>1, <1>2, <1>3, <1>4, <1>5 DEF AllRecords

-----------------------------------------------------------------------------
(* The specification *)

SaidType ==
    [calls : Seq(Texts), results : Seq(Texts \X BOOLEAN), plans : SUBSET Texts,
     thoughts : SUBSET Texts]

\* What is known of the main rollout is what its records held.
Told(l, heard) ==
    /\ heard \in SaidType
    /\ AllCalls(l) = heard.calls /\ Outcomes(AllResults(l)) = heard.results
    /\ AllPlans(l) = heard.plans /\ AllThoughts(l) = heard.thoughts

IInv ==
    /\ clock \in 1 .. (MaxRecords + 1)
    /\ load \in [Rollouts -> LoadState] /\ scan \in [Rollouts -> ScanState]
    /\ \A f \in Rollouts : LoadGood(load[f], clock) /\ ScanFits(scan[f], load[f])
    /\ Told(load[Main], said)

\* At first nothing is known, and that is good.
LEMMA NothingKnown ==
  /\ LoadGood(NewLoad, 1) /\ ScanFits(NewScan, NewLoad) /\ Told(NewLoad, NothingSaid)
  /\ NewLoad \in LoadState /\ NewScan \in ScanState
<1>1. NewLoad \in LoadState
  BY NothingPendingType, EmptySeq DEF NewLoad, LoadState
<1>2. NewScan \in ScanState
  BY DEF NewScan, ScanState
<1>3. /\ NewLoad.messages = <<>> /\ NewLoad.called = {} /\ NewLoad.pending = NothingPending
      /\ NewLoad.windowStart = 1 /\ NewLoad.windowFirst = 0 /\ Len(<<>>) = 0
  BY DEF NewLoad
<1>4. /\ NothingPending.calls = <<>> /\ NothingPending.results = <<>> /\ NothingPending.plans = <<>>
      /\ NothingPending.thoughts = <<>> /\ ~NothingPending.hidden /\ NothingPending.time = 0
  BY DEF NothingPending
<1>5. LoadGood(NewLoad, 1)
  BY <1>1, <1>3, <1>4
     DEF LoadGood, LoadFits, MessagesFit, HasPending, WindowFits, NoEchoIn
<1>6. <<>> = [i \in 1 .. 0 |-> <<>>[i].calls] /\ <<>> = [i \in 1 .. 0 |-> <<>>[i].results]
  OBVIOUS
<1>7. CallsOf(<<>>) = <<>> /\ ResultsOf(<<>>) = <<>>
  BY <1>3, FlattenEmpty DEF CallsOf, ResultsOf
<1>8. PlansOf(<<>>) = {} /\ ThoughtsOf(<<>>) = {}
  BY <1>3 DEF PlansOf, ThoughtsOf
<1>9. <<>> \o <<>> = <<>> /\ ToSet(<<>>) = {}
  BY DEF ToSet
<1>10. AllCalls(NewLoad) = <<>> /\ AllResults(NewLoad) = <<>> /\ AllPlans(NewLoad) = {}
       /\ AllThoughts(NewLoad) = {}
  BY <1>3, <1>4, <1>7, <1>8, <1>9 DEF AllCalls, AllResults, AllPlans, AllThoughts
<1>11. Outcomes(<<>>) = <<>> /\ Failed(<<>>) = {} /\ Cardinality({}) = 0
  BY <1>3, FS_EmptySet DEF Outcomes, Failed
<1>12. Told(NewLoad, NothingSaid)
  BY <1>10, <1>11, EmptySeq DEF Told, NothingSaid, SaidType
<1>13. AgreesOn(NewScan, <<>>)
  <2>1. Visible(<<>>) = {}
    BY <1>3 DEF Visible
  <2>2. NewScan.count = 0 /\ NewScan.lastRole = None /\ NewScan.first = None
    BY DEF NewScan
  <2>3. LastShown(<<>>, NewScan.lastRole, NewScan.lastText)
    BY <2>1, <2>2 DEF LastShown
  <2>4. FirstPrompt(<<>>, NewScan.first)
    BY <1>3, <2>2 DEF FirstPrompt
  <2>5. QED
    <3>1. NewScan.count <= Cardinality(Visible(<<>>))
      <4>1. Cardinality(Visible(<<>>)) = 0
        BY <1>11, <2>1, Zenon
      <4>2. QED
        BY <2>2, <4>1
    <3>2. QED
      BY <1>2, <2>3, <2>4, <3>1 DEF AgreesOn
<1>14. ScanFits(NewScan, NewLoad)
  BY <1>3, <1>10, <1>11, <1>13 DEF ScanFits, NewScan
<1>15. QED
  BY <1>1, <1>2, <1>5, <1>12, <1>14

\* The invariant holds at first.
LEMMA InvInit == Init => IInv
<1> SUFFICES ASSUME Init PROVE IInv
  OBVIOUS
<1>1. clock \in 1 .. (MaxRecords + 1) /\ clock = 1
  BY RecordsAssumption DEF Init
<1>2. load = [f \in Rollouts |-> NewLoad] /\ scan = [f \in Rollouts |-> NewScan] /\ said = NothingSaid
  BY DEF Init
<1>3. Main \in Rollouts
  BY DEF Rollouts
<1>4. QED
  BY <1>1, <1>2, <1>3, NothingKnown DEF IInv

\* What is heard of a record is what it adds.
LEMMA ToldMore ==
  ASSUME NEW l, NEW r \in AllRecords, NEW l2, Told(l, said), Tells(l, r, l2)
  PROVE  Told(l2, Heard(r))
<1>1. /\ said \in SaidType
      /\ AllCalls(l) = said.calls /\ Outcomes(AllResults(l)) = said.results
      /\ AllPlans(l) = said.plans /\ AllThoughts(l) = said.thoughts
  BY DEF Told
<1>2. CASE r \in [kind : {"message"}, role : Roles, text : Texts]
           \/ r \in [kind : {"tokens"}, total : Nat \cup {NoTotal}, last : BOOLEAN]
  <2>1. r.kind \in {"message", "tokens"}
    BY <1>2
  <2>2. Heard(r) = said
    BY <2>1 DEF Heard
  <2>3. QED
    BY <1>1, <2>1, <2>2 DEF Told, Tells
<1>3. CASE r \in [kind : {"reasoning"}, text : Texts \cup {None}, encrypted : BOOLEAN]
  <2>1. r.kind = "reasoning" /\ {r.text} \ {None} \subseteq Texts
    BY <1>3
  <2>2. PICK thoughts \in SUBSET Texts : thoughts = said.thoughts \cup ({r.text} \ {None})
    BY <1>1, <2>1 DEF SaidType
  <2>3. Heard(r) = [said EXCEPT !.thoughts = thoughts]
    BY <2>1, <2>2 DEF Heard
  <2>4. /\ Heard(r) \in SaidType /\ Heard(r).thoughts = thoughts
        /\ Heard(r).calls = said.calls /\ Heard(r).results = said.results /\ Heard(r).plans = said.plans
    BY <1>1, <2>3 DEF SaidType
  <2>5. QED
    BY <1>1, <2>1, <2>2, <2>4 DEF Told, Tells
<1>4. CASE r \in [kind : {"call", "plan"}, text : Texts] /\ r.kind = "call"
  <2>1. r.text \in Texts
    BY <1>4
  <2>2. PICK calls \in Seq(Texts) : calls = Append(said.calls, r.text)
    <3>1. said.calls \in Seq(Texts)
      BY <1>1 DEF SaidType
    <3>2. QED
      BY <2>1, <3>1, AppendProperties
  <2>3. Heard(r) = [said EXCEPT !.calls = calls]
    BY <1>4, <2>2 DEF Heard
  <2>4. /\ Heard(r) \in SaidType /\ Heard(r).calls = calls
        /\ Heard(r).results = said.results /\ Heard(r).plans = said.plans
        /\ Heard(r).thoughts = said.thoughts
    BY <1>1, <2>3 DEF SaidType
  <2>5. QED
    BY <1>1, <1>4, <2>2, <2>4 DEF Told, Tells
<1>5. CASE r \in [kind : {"call", "plan"}, text : Texts] /\ r.kind = "plan"
  <2>1. r.text \in Texts
    BY <1>5
  <2>2. PICK plans \in SUBSET Texts : plans = said.plans \cup {r.text}
    BY <1>1, <2>1 DEF SaidType
  <2>3. Heard(r) = [said EXCEPT !.plans = plans]
    BY <1>5, <2>2 DEF Heard
  <2>4. /\ Heard(r) \in SaidType /\ Heard(r).plans = plans
        /\ Heard(r).calls = said.calls /\ Heard(r).results = said.results
        /\ Heard(r).thoughts = said.thoughts
    BY <1>1, <2>3 DEF SaidType
  <2>5. QED
    BY <1>1, <1>5, <2>2, <2>4 DEF Told, Tells
<1>6. CASE r \in [kind : {"result"}, text : Texts, bad : BOOLEAN]
  <2>1. r.kind = "result" /\ <<r.text, r.bad>> \in Texts \X BOOLEAN
    BY <1>6
  <2>2. PICK results \in Seq(Texts \X BOOLEAN) : results = Append(said.results, <<r.text, r.bad>>)
    <3>1. said.results \in Seq(Texts \X BOOLEAN)
      BY <1>1 DEF SaidType
    <3>2. QED
      BY <2>1, <3>1, AppendProperties
  <2>3. Heard(r) = [said EXCEPT !.results = results]
    BY <2>1, <2>2 DEF Heard
  <2>4. /\ Heard(r) \in SaidType /\ Heard(r).results = results
        /\ Heard(r).calls = said.calls /\ Heard(r).plans = said.plans
        /\ Heard(r).thoughts = said.thoughts
    BY <1>1, <2>3 DEF SaidType
  <2>5. QED
    BY <1>1, <2>1, <2>2, <2>4 DEF Told, Tells
<1>7. r \in [kind : {"call", "plan"}, text : Texts] => r.kind \in {"call", "plan"}
  OBVIOUS
<1>8. QED
  BY <1>2, <1>3, <1>4, <1>5, <1>6, <1>7 DEF AllRecords

\* A record read keeps the invariant.
LEMMA ReadKeeps ==
  ASSUME IInv, NEW f \in Rollouts, NEW r \in AllRecords, ReadRecord(f, r)
  PROVE  IInv' /\ UsageOnce(load[f], load'[f]) /\ \A g \in Rollouts \ {f} : load'[g] = load[g]
<1>1. PICK now \in Nat : now = clock + 1 /\ clock' = now /\ now \in 1 .. (MaxRecords + 1) /\ clock \in Nat
  BY RecordsAssumption DEF IInv, ReadRecord
<1>2. PICK l2 : l2 = LoadRecord(load[f], r, now)
  OBVIOUS
<1>3. PICK t : t = ScanRecord(scan[f], r)
  OBVIOUS
<1>4. load' = [load EXCEPT ![f] = l2] /\ scan' = [scan EXCEPT ![f] = t]
  BY <1>1, <1>2, <1>3 DEF ReadRecord
<1>5. \A g \in Rollouts : LoadGood(load[g], now) /\ ScanFits(scan[g], load[g])
  <2>1. \A g \in Rollouts : LoadGood(load[g], clock) /\ ScanFits(scan[g], load[g])
    BY DEF IInv
  <2>2. QED
    BY <1>1, <2>1, GoodLater
<1>6. LoadGood(l2, now) /\ ScanFits(t, l2) /\ UsageOnce(load[f], l2) /\ Tells(load[f], r, l2)
  <2>1. now \in 1 .. now
    BY <1>1
  <2>2. QED
    BY <1>2, <1>3, <1>5, <2>1, RecordStep
<1>7. l2 \in LoadState /\ t \in ScanState
  BY <1>6 DEF LoadGood, ScanFits, AgreesOn
<1>8. load \in [Rollouts -> LoadState] /\ scan \in [Rollouts -> ScanState]
  BY DEF IInv
<1>9. load' \in [Rollouts -> LoadState] /\ scan' \in [Rollouts -> ScanState]
  BY <1>4, <1>7, <1>8
<1>10. load'[f] = l2 /\ scan'[f] = t
       /\ \A g \in Rollouts \ {f} : load'[g] = load[g] /\ scan'[g] = scan[g]
  BY <1>4, <1>8
<1>11. \A g \in Rollouts : LoadGood(load'[g], clock') /\ ScanFits(scan'[g], load'[g])
  BY <1>1, <1>5, <1>6, <1>10
<1>12. Told(load'[Main], said')
  <2>1. CASE f = Main
    <3>1. said' = Heard(r)
      BY <2>1 DEF ReadRecord
    <3>2. Told(load[Main], said)
      BY DEF IInv
    <3>3. QED
      BY <1>6, <1>10, <2>1, <3>1, <3>2, ToldMore
  <2>2. CASE f # Main
    <3>1. said' = said /\ load'[Main] = load[Main]
      BY <1>10, <2>2 DEF ReadRecord, Rollouts
    <3>2. QED
      BY <3>1 DEF IInv
  <2>3. QED
    BY <2>1, <2>2
<1>13. IInv'
  BY <1>1, <1>9, <1>11, <1>12 DEF IInv
<1>14. QED
  BY <1>6, <1>10, <1>13

\* Steps that leave every rollout as it is.
LEMMA OthersKeep ==
  ASSUME IInv, (\E c \in Children : StartChild(c)) \/ UNCHANGED vars
  PROVE  IInv' /\ load' = load
<1>1. load' = load /\ scan' = scan /\ said' = said
  BY DEF StartChild, vars
<1>2. CASE \E c \in Children : StartChild(c)
  <2>1. clock' = clock + 1 /\ clock' \in 1 .. (MaxRecords + 1) /\ clock \in Nat
    BY <1>2, RecordsAssumption DEF IInv, StartChild
  <2>2. \A g \in Rollouts : LoadGood(load[g], clock) /\ ScanFits(scan[g], load[g])
    BY DEF IInv
  <2>3. \A g \in Rollouts : LoadGood(load[g], clock + 1)
    BY <2>1, <2>2, GoodLater
  <2>4. \A g \in Rollouts : LoadGood(load'[g], clock') /\ ScanFits(scan'[g], load'[g])
    BY <1>1, <2>1, <2>2, <2>3
  <2>5. QED
    BY <1>1, <2>1, <2>4 DEF IInv
<1>3. CASE UNCHANGED vars
  BY <1>1, <1>3 DEF IInv, vars
<1>4. QED
  BY <1>2, <1>3

\* The steps, by what they read.
LEMMA StepsAre ==
  ASSUME [Next]_vars
  PROVE  \/ \E f \in Rollouts, r \in AllRecords : ReadRecord(f, r)
         \/ (\E c \in Children : StartChild(c)) \/ UNCHANGED vars
  BY RecordsAssumption DEF Next, Rollouts

\* Every step keeps the invariant.
LEMMA InvNext == IInv /\ [Next]_vars => IInv'
<1> SUFFICES ASSUME IInv, [Next]_vars PROVE IInv'
  OBVIOUS
<1>1. CASE \E f \in Rollouts, r \in AllRecords : ReadRecord(f, r)
  BY <1>1, ReadKeeps
<1>2. CASE (\E c \in Children : StartChild(c)) \/ UNCHANGED vars
  BY <1>2, OthersKeep
<1>3. QED
  BY <1>1, <1>2, StepsAre

\* The invariant always holds.
LEMMA InvAlways == Spec => []IInv
  BY InvInit, InvNext, PTL DEF Spec

\* What the load of a rollout would return now.
LEMMA TranscriptIs ==
  ASSUME IInv, NEW f \in Rollouts
  PROVE  \E l \in LoadState :
            /\ Transcript(f) = l.messages /\ l.pending = NothingPending
            /\ LoadGood(l, clock) /\ SameContent(load[f], l) /\ AgreesOn(scan[f], l.messages)
<1>1. PICK now \in Nat : now = clock
  BY DEF IInv
<1>2. LoadGood(load[f], now) /\ load[f] \in LoadState /\ AgreesOn(scan[f], load[f].messages)
  BY <1>1 DEF IInv, LoadGood, ScanFits
<1>3. PICK l : l = FlushAssistant(load[f], None, 0)
  OBVIOUS
<1>4. LoadGood(l, now) /\ SameContent(load[f], l) /\ Flushed(load[f], None, 0, l)
  <2>1. 0 \in 0 .. now /\ (None # None => 0 >= 1) /\ None \in Texts \cup {None}
    OBVIOUS
  <2>2. QED
    BY <1>2, <1>3, <2>1, FlushGood
<1>5. l \in LoadState
  BY <1>4 DEF LoadGood
<1>6. AgreesOn(scan[f], l.messages)
  <2>1. SameShown(load[f].messages, l.messages)
    BY <1>2, <1>4, <1>5, FlushShows
  <2>2. load[f].messages \in Seq(Message) /\ l.messages \in Seq(Message)
    BY <1>2, <1>5, LoadParts
  <2>3. QED
    BY <1>2, <2>1, <2>2, AgreesSame
<1>7. Transcript(f) = l.messages /\ l.pending = NothingPending
  BY <1>3, <1>4 DEF Transcript, Flush, Flushed
<1>8. QED
  BY <1>1, <1>4, <1>5, <1>6, <1>7

\* Nothing waits: all that is known of a rollout is in its messages.
LEMMA AllShown ==
  ASSUME NEW l \in LoadState, l.pending = NothingPending
  PROVE  /\ AllCalls(l) = CallsOf(l.messages) /\ AllResults(l) = ResultsOf(l.messages)
         /\ AllPlans(l) = PlansOf(l.messages) /\ AllThoughts(l) = ThoughtsOf(l.messages)
<1>1. /\ l.pending.calls = <<>> /\ l.pending.results = <<>>
      /\ l.pending.plans = <<>> /\ l.pending.thoughts = <<>> /\ ToSet(<<>>) = {}
  BY DEF NothingPending, ToSet
<1>2. CallsOf(l.messages) \in Seq(Texts) /\ ResultsOf(l.messages) \in Seq(Result)
  BY LoadParts, OfType
<1>3. CallsOf(l.messages) \o <<>> = CallsOf(l.messages)
      /\ ResultsOf(l.messages) \o <<>> = ResultsOf(l.messages)
  BY <1>2, ConcatEmptySeq
<1>4. QED
  BY <1>1, <1>3 DEF AllCalls, AllResults, AllPlans, AllThoughts

\* What follows from the invariant: types,
LEMMA InvTypes == IInv => TypeOK
<1> SUFFICES ASSUME IInv PROVE TypeOK
  OBVIOUS
<1>1. PICK now \in Nat : now = clock /\ now \in 1 .. (MaxRecords + 1)
  BY RecordsAssumption DEF IInv
<1>2. ASSUME NEW f \in Rollouts
      PROVE  /\ \A i \in 1..Len(load[f].messages) :
                  /\ load[f].messages[i].role \in Roles
                  /\ load[f].messages[i].usage \in 0..now
                  /\ load[f].messages[i].time \in 1..now
             /\ load[f].pending.time \in 0..now
             /\ load[f].windowStart \in 1..(Len(load[f].messages) + 1)
             /\ load[f].windowFirst \in 0..Len(load[f].messages)
  <2>1. PICK l \in LoadState : l = load[f] /\ LoadFits(l, now) /\ WindowFits(l)
    BY <1>1 DEF IInv, LoadGood
  <2>2. PICK n \in Nat : n = Len(l.messages) /\ l.messages \in Seq(Message)
    BY LoadParts
  <2>3. ASSUME NEW i \in 1 .. n
        PROVE l.messages[i].role \in Roles /\ l.messages[i].usage \in 0 .. now /\ l.messages[i].time \in 1 .. now
    <3>1. MessageFits(l.messages[i], now)
      BY <2>1, <2>2 DEF LoadFits, MessagesFit
    <3>2. l.messages[i] \in Message
      BY <2>2, ElementOfSeq
    <3>3. QED
      BY <3>1, <3>2 DEF MessageFits, Message
  <2>4. l.pending.time \in 0 .. now
    BY <2>1 DEF LoadFits
  <2>5. l.windowStart \in 1 .. n + 1 /\ (l.windowFirst # 0 => l.windowFirst \in l.windowStart .. n)
    BY <2>1, <2>2 DEF WindowFits
  <2>6. l.windowFirst \in 0 .. n
    BY <2>5
  <2>7. QED
    BY <2>1, <2>2, <2>3, <2>4, <2>5, <2>6
<1>3. QED
  BY <1>1, <1>2 DEF TypeOK

\* the window of the request,
LEMMA InvWindow == IInv => WindowOpen
<1> SUFFICES ASSUME IInv, NEW f \in Rollouts
             PROVE  LET l == load[f] IN
                    /\ l.windowStart \in 1..(Len(l.messages) + 1)
                    /\ l.windowFirst # 0 =>
                        /\ l.windowFirst \in l.windowStart..Len(l.messages)
                        /\ l.messages[l.windowFirst].role = "assistant"
                        /\ l.messages[l.windowFirst].usage = 0
  BY DEF WindowOpen
<1>1. WindowFits(load[f])
  BY DEF IInv, LoadGood
<1>2. QED
  BY <1>1 DEF WindowFits

\* what is shown of what was said,
LEMMA InvLost == IInv => NothingLost
<1> SUFFICES ASSUME IInv PROVE NothingLost
  OBVIOUS
<1>1. Main \in Rollouts
  BY DEF Rollouts
<1>2. PICK l \in LoadState :
        /\ Transcript(Main) = l.messages /\ l.pending = NothingPending
        /\ LoadGood(l, clock) /\ SameContent(load[Main], l)
  BY <1>1, TranscriptIs
<1>3. Told(load[Main], said)
  BY DEF IInv
<1>4. /\ CallsOf(l.messages) = said.calls
      /\ Outcomes(ResultsOf(l.messages)) = said.results
      /\ PlansOf(l.messages) = said.plans
      /\ ThoughtsOf(l.messages) = said.thoughts
  BY <1>2, <1>3, AllShown DEF SameContent, Told
<1>5. \A i \in 1 .. Len(l.messages) : l.messages[i].hidden => l.messages[i].thoughts = <<>>
  BY <1>2 DEF LoadGood, LoadFits, MessagesFit, MessageFits
<1>6. QED
  BY <1>2, <1>4, <1>5 DEF NothingLost

\* that nothing is shown twice,
LEMMA InvNoEcho == IInv => NoEchoShown
<1> SUFFICES ASSUME IInv, NEW f \in Rollouts PROVE NoEchoIn(Transcript(f))
  BY DEF NoEchoShown, NoEchoIn
<1>1. PICK l \in LoadState : Transcript(f) = l.messages /\ LoadGood(l, clock)
  BY TranscriptIs
<1>2. QED
  BY <1>1 DEF LoadGood

\* and that the catalogue agrees.
LEMMA InvAgrees == IInv => ScanAgreesWithLoad
<1> SUFFICES ASSUME IInv, NEW f \in Rollouts
             PROVE  /\ scan[f].count <= Cardinality(Visible(Transcript(f)))
                    /\ scan[f].first = LinkedTitle(Transcript(f))
                    /\ scan[f].errors = Cardinality(Failed(ResultsOf(Transcript(f))))
  BY DEF ScanAgreesWithLoad
<1>1. PICK l \in LoadState :
        /\ Transcript(f) = l.messages /\ l.pending = NothingPending
        /\ SameContent(load[f], l) /\ AgreesOn(scan[f], l.messages)
  BY TranscriptIs
<1>2. scan[f].errors = Cardinality(Failed(AllResults(load[f])))
  BY DEF IInv, ScanFits
<1>3. AllResults(load[f]) = ResultsOf(l.messages)
  BY <1>1, AllShown DEF SameContent
<1>4. l.messages \in Seq(Message)
  BY LoadParts
<1>5. scan[f].first = LinkedTitle(l.messages)
  BY <1>1, <1>4, TitleTold DEF AgreesOn
<1>6. scan[f].count <= Cardinality(Visible(l.messages))
  BY <1>1 DEF AgreesOn
<1>7. QED
  BY <1>1, <1>2, <1>3, <1>5, <1>6

-----------------------------------------------------------------------------
(* Theorems *)

\* Messages, what waits for its message and the window are what their types
\* say, however many rollouts, texts and records there are.
THEOREM TypesAlways == Spec => []TypeOK
  BY InvAlways, InvTypes, PTL

\* Whatever the order of its records, a rollout's transcript shows every call
\* and result once and in order, every plan and every thought, calls no shown
\* thinking hidden and repeats no message; the scan counts no message that is
\* not shown, has the same first prompt and the same failed calls.
THEOREM FaithfulAlways == Spec => []TranscriptFaithful
<1>1. IInv => TranscriptFaithful
  BY InvTypes, InvWindow, InvLost, InvNoEcho, InvAgrees DEF TranscriptFaithful
<1>2. QED
  BY <1>1, InvAlways, PTL

\* A message never loses or changes its usage, and none goes to an answer
\* given before the last question.
THEOREM UsageAlwaysOnce == Spec => UsageAttachedOnce
<1>1. ASSUME IInv, [Next]_vars
      PROVE  \A f \in Rollouts : UsageOnce(load[f], load'[f])
  <2>1. CASE \E f \in Rollouts, r \in AllRecords : ReadRecord(f, r)
    <3>1. PICK f \in Rollouts, r \in AllRecords : ReadRecord(f, r)
      BY <2>1
    <3>2. UsageOnce(load[f], load'[f]) /\ \A g \in Rollouts \ {f} : load'[g] = load[g]
      BY <1>1, <3>1, ReadKeeps
    <3>3. \A g \in Rollouts \ {f} : UsageOnce(load[g], load'[g])
      BY <3>2 DEF UsageOnce
    <3>4. QED
      BY <3>2, <3>3
  <2>2. CASE (\E c \in Children : StartChild(c)) \/ UNCHANGED vars
    <3>1. load' = load
      BY <1>1, <2>2, OthersKeep
    <3>2. QED
      BY <3>1 DEF UsageOnce
  <2>3. QED
    BY <1>1, <2>1, <2>2, StepsAre
<1>2. IInv /\ [Next]_vars =>
        [\A f \in Rollouts : \A i \in 1..Len(load[f].messages) :
            LET old == load[f].messages[i]
                new == load'[f].messages[i]
            IN  new.usage # old.usage =>
                    /\ old.usage = 0
                    /\ \A j \in i..Len(load'[f].messages) : load'[f].messages[j].role # "user"]_vars
  BY <1>1 DEF UsageOnce
<1>3. QED
  BY <1>2, InvAlways, PTL DEF UsageAttachedOnce, Spec
=============================================================================
