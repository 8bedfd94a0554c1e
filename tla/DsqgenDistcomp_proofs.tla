------------------------ MODULE DsqgenDistcomp_proofs ------------------------
(***************************************************************************)
(* The streams of dsqgen and the distributions that it reads, both built   *)
(* step by step.  For any number of templates, streams and versions and    *)
(* any random numbers: a stream that has ended is complete, and its order  *)
(* depends on its number alone.  For any number of distributions, of any   *)
(* size: one that is compiled, found and loaded is the one that was        *)
(* stated.  makePermutation, the sums of the weights, the offsets of the   *)
(* values and FlattenSeq are recursive functions, so the proof first shows *)
(* what such functions are.                                                *)
(***************************************************************************)
EXTENDS DsqgenStreams, Distcomp, SequenceTheorems, FiniteSetTheorems,
        WellFoundedInduction, TLAPS

(***************************************************************************)
(* Induction over the naturals, for a set, and the functions it defines.   *)
(***************************************************************************)
LEMMA LeastNatural ==
    ASSUME NEW S, S \subseteq Nat, S # {}
    PROVE  \E m \in S : \A k \in S : m <= k
<1>1. IsWellFoundedOn(OpToRel(<, Nat), Nat) BY NatLessThanWellFounded
<1>2. PICK m \in S : \A k \in S : ~ (<<k, m>> \in OpToRel(<, Nat)) BY <1>1, WFMin
<1>3. \A k \in S : ~(k < m)
  <2>1. ASSUME NEW k \in S, k < m PROVE FALSE
    <3>1. <<k, m>> \in OpToRel(<, Nat) BY <2>1 DEF OpToRel
    <3>2. QED BY <1>2, <3>1
  <2>2. QED BY <2>1
<1>4. QED BY <1>3

LEMMA SetInduction ==
    ASSUME NEW S, 0 \in S, \A n \in Nat : n \in S => n + 1 \in S
    PROVE  Nat \subseteq S
<1> SUFFICES ASSUME Nat \ S # {} PROVE FALSE OBVIOUS
<1>1. PICK m \in Nat \ S : \A k \in Nat \ S : m <= k BY LeastNatural
<1>2. m # 0 OBVIOUS
<1>3. m - 1 \in Nat /\ m - 1 \in S BY <1>1, <1>2
<1>4. QED BY <1>1, <1>3

\* f holds the values after the first n steps.
Steps(base, step, f, n) ==
    \A i \in 0 .. n : f[i] = IF i = 0 THEN base ELSE step[i][f[i - 1]]
HasSteps(S, base, step, n) == \E f \in [0 .. n -> S] : Steps(base, step, f, n)

\* What is built step by step exists.
LEMMA StepsExist ==
    ASSUME NEW S, NEW n \in Nat, NEW base \in S, NEW step \in [1 .. n -> [S -> S]]
    PROVE  HasSteps(S, base, step, n)
<1> DEFINE T == {m \in Nat : m <= n => HasSteps(S, base, step, m)}
<1>1. 0 \in T
  <2>1. [i \in 0 .. 0 |-> base] \in [0 .. 0 -> S] OBVIOUS
  <2>2. Steps(base, step, [i \in 0 .. 0 |-> base], 0) BY DEF Steps
  <2>3. QED BY <2>1, <2>2 DEF HasSteps
<1>2. ASSUME NEW m \in Nat, m \in T PROVE m + 1 \in T
  <2> SUFFICES ASSUME m + 1 <= n PROVE HasSteps(S, base, step, m + 1) OBVIOUS
  <2>1. PICK f \in [0 .. m -> S] : Steps(base, step, f, m) BY <1>2 DEF HasSteps
  <2>2. m + 1 \in 1 .. n /\ m \in 0 .. m OBVIOUS
  <2>3. PICK last \in S : last = step[m + 1][f[m]] BY <2>2
  <2> DEFINE g == [i \in 0 .. (m + 1) |-> IF i <= m THEN f[i] ELSE last]
  <2>4. g \in [0 .. (m + 1) -> S] BY <2>3
  <2>5. Steps(base, step, g, m + 1)
    <3> SUFFICES ASSUME NEW i \in 0 .. (m + 1)
                 PROVE  g[i] = IF i = 0 THEN base ELSE step[i][g[i - 1]]
        BY DEF Steps
    <3>1. CASE i = 0 BY <2>1, <3>1 DEF Steps
    <3>2. CASE i # 0 /\ i <= m BY <2>1, <3>2 DEF Steps
    <3>3. CASE i = m + 1 BY <2>3, <3>3
    <3>4. QED BY <3>1, <3>2, <3>3
  <2>6. HasSteps(S, base, step, m + 1)
    <3> HIDE DEF g
    <3>1. QED BY <2>4, <2>5 DEF HasSteps
  <2>7. QED BY <2>6
<1>3. Nat \subseteq T BY <1>1, <1>2, SetInduction
<1>4. QED BY <1>3

\* What takes each value of S to one of S stays in S.
LEMMA StepsStay ==
    ASSUME NEW S, NEW n \in Nat, NEW f, f[0] \in S,
           \A i \in 1 .. n : f[i - 1] \in S => f[i] \in S
    PROVE  \A i \in 0 .. n : f[i] \in S
<1> DEFINE T == {i \in Nat : i <= n => f[i] \in S}
<1>1. 0 \in T OBVIOUS
<1>2. ASSUME NEW i \in Nat, i \in T PROVE i + 1 \in T
  <2> SUFFICES ASSUME i + 1 <= n PROVE f[i + 1] \in S OBVIOUS
  <2>1. i + 1 \in 1 .. n /\ (i + 1) - 1 = i /\ f[i] \in S BY <1>2
  <2>2. QED BY <2>1
<1>3. Nat \subseteq T BY <1>1, <1>2, SetInduction
<1>4. QED BY <1>3

(***************************************************************************)
(* Permutations.                                                           *)
(***************************************************************************)
Injective(p, size) == \A i, j \in 1 .. size : p[i] = p[j] => i = j
Surjective(p, size) == \A t \in 1 .. size : \E i \in 1 .. size : p[i] = t
PermutationsOf(size) ==
    {p \in [1 .. size -> 1 .. size] : Injective(p, size) /\ Surjective(p, size)}
Shuffling(size) == [set : PermutationsOf(size), seed : Nat]

LEMMA SwapPermutes ==
    ASSUME NEW size \in Nat, NEW p \in PermutationsOf(size),
           NEW i \in 1 .. size, NEW k \in 1 .. size
    PROVE  Swap(p, i, k) \in PermutationsOf(size)
<1> DEFINE q == Swap(p, i, k)
<1>1. p \in [1 .. size -> 1 .. size] /\ Injective(p, size) /\ Surjective(p, size)
    BY DEF PermutationsOf
<1>2. q \in [1 .. size -> 1 .. size] BY <1>1 DEF Swap
<1>3. \A j \in 1 .. size : q[j] = IF j = k THEN p[i] ELSE IF j = i THEN p[k] ELSE p[j]
    BY <1>1 DEF Swap
<1> HIDE DEF q
<1>4. Injective(q, size) BY <1>1, <1>3 DEF Injective
<1>5. Surjective(q, size)
  <2> SUFFICES ASSUME NEW t \in 1 .. size PROVE \E j \in 1 .. size : q[j] = t BY DEF Surjective
  <2>1. PICK j \in 1 .. size : p[j] = t BY <1>1 DEF Surjective
  <2>2. CASE j = i BY <1>3, <2>1, <2>2
  <2>3. CASE j = k BY <1>3, <2>1, <2>3
  <2>4. CASE j # i /\ j # k BY <1>3, <2>1, <2>4
  <2>5. QED BY <2>2, <2>3, <2>4
<1>6. QED BY <1>2, <1>4, <1>5 DEF PermutationsOf, q

LEMMA DrawsInRange ==
    ASSUME NEW seed \in Nat, NEW size \in Nat \ {0}
    PROVE  next_random(seed) \in Nat /\ Uniform(seed, 0, size - 1) + 1 \in 1 .. size
<1>1. Mult * seed \in Nat BY StreamsAssumption
<1>2. PICK product \in Nat : product = Mult * seed BY <1>1
<1>3. next_random(seed) \in Nat BY <1>2, StreamsAssumption DEF next_random
<1>4. (next_random(seed) % size) \in 0 .. (size - 1) BY <1>3
<1>5. (size - 1) - 0 + 1 = size OBVIOUS
<1>6. QED BY <1>3, <1>4, <1>5 DEF Uniform

LEMMA UnshuffledPermutes ==
    ASSUME NEW size \in Nat PROVE Unshuffled(size) \in PermutationsOf(size)
BY DEF Unshuffled, PermutationsOf, Injective, Surjective

\* The passes of makePermutation.
Passes(set, size, seed) ==
    LET start == [set |-> IF set = <<>> THEN Unshuffled(size) ELSE set, seed |-> seed]
        after[i \in 0 .. size] == IF i = 0 THEN start ELSE SwapDrawn(after[i - 1], i, size)
    IN  after

LEMMA MakePermutation ==
    ASSUME NEW size \in Nat \ {0}, NEW seed \in Nat, NEW set,
           set = <<>> \/ set \in PermutationsOf(size)
    PROVE  makePermutation(set, size, seed) \in PermutationsOf(size)
<1> DEFINE start == [set |-> IF set = <<>> THEN Unshuffled(size) ELSE set, seed |-> seed]
           S == Shuffling(size)
           step == [i \in 1 .. size |-> [s \in S |-> SwapDrawn(s, i, size)]]
           after == Passes(set, size, seed)
<1>1. start \in S
  <2>1. Unshuffled(size) \in PermutationsOf(size) BY UnshuffledPermutes
  <2>2. QED BY <2>1 DEF Shuffling
<1>2. ASSUME NEW s \in S, NEW i \in 1 .. size PROVE SwapDrawn(s, i, size) \in S
  <2>1. s.set \in PermutationsOf(size) /\ s.seed \in Nat BY DEF Shuffling
  <2>2. Uniform(s.seed, 0, size - 1) + 1 \in 1 .. size /\ next_random(s.seed) \in Nat
      BY <2>1, DrawsInRange
  <2>3. Swap(s.set, i, Uniform(s.seed, 0, size - 1) + 1) \in PermutationsOf(size)
      BY <2>1, <2>2, SwapPermutes
  <2>4. QED BY <2>2, <2>3 DEF SwapDrawn, Shuffling
<1>3. step \in [1 .. size -> [S -> S]] BY <1>2
<1> HIDE DEF start
<1>4. \E f \in [0 .. size -> S] :
          f = [i \in 0 .. size |-> IF i = 0 THEN start ELSE SwapDrawn(f[i - 1], i, size)]
  <2>1. PICK f \in [0 .. size -> S] : Steps(start, step, f, size)
    <3> HIDE DEF S, step
    <3>1. QED BY <1>1, <1>3, StepsExist DEF HasSteps
  <2>2. ASSUME NEW i \in 0 .. size
        PROVE  f[i] = IF i = 0 THEN start ELSE SwapDrawn(f[i - 1], i, size)
    <3>1. CASE i = 0 BY <2>1, <3>1 DEF Steps
    <3>2. CASE i # 0
      <4>1. f[i] = step[i][f[i - 1]] BY <2>1, <3>2 DEF Steps
      <4>2. i \in 1 .. size /\ f[i - 1] \in S BY <3>2
      <4>3. step[i][f[i - 1]] = SwapDrawn(f[i - 1], i, size) BY <4>2
      <4>4. QED BY <3>2, <4>1, <4>3
    <3>3. QED BY <3>1, <3>2
  <2>3. QED BY <2>2
<1>5. after = [i \in 0 .. size |-> IF i = 0 THEN start ELSE SwapDrawn(after[i - 1], i, size)]
    BY <1>4 DEF Passes, start
<1> HIDE DEF after, S
<1>6. after[0] \in S BY <1>1, <1>5
<1>7. \A i \in 1 .. size : after[i - 1] \in S => after[i] \in S BY <1>2, <1>5
<1>8. after[size] \in S BY <1>6, <1>7, StepsStay
<1>9. makePermutation(set, size, seed) = after[size].set BY DEF makePermutation, Passes, after
<1>10. QED BY <1>8, <1>9 DEF S, Shuffling

LEMMA OrdersPermute ==
    /\ OrderOf[0] = <<>>
    /\ \A k \in 1 .. STREAMS : /\ OrderOf[k] = makePermutation(OrderOf[k - 1], N, OrderSeed)
                               /\ OrderOf[k] \in PermutationsOf(N)
<1> DEFINE S == {<<>>} \cup PermutationsOf(N)
           step == [k \in 1 .. STREAMS |-> [p \in S |-> makePermutation(p, N, OrderSeed)]]
<1>1. STREAMS \in Nat /\ N \in Nat \ {0} /\ OrderSeed \in Nat BY StreamsAssumption
<1>2. ASSUME NEW p \in S PROVE makePermutation(p, N, OrderSeed) \in PermutationsOf(N)
    BY <1>1, MakePermutation
<1>3. step \in [1 .. STREAMS -> [S -> S]] BY <1>2
<1>4. \E f \in [0 .. STREAMS -> S] :
          f = [k \in 0 .. STREAMS |-> IF k = 0 THEN <<>> ELSE makePermutation(f[k - 1], N, OrderSeed)]
  <2>1. PICK f \in [0 .. STREAMS -> S] : Steps(<<>>, step, f, STREAMS)
    <3>1. <<>> \in S OBVIOUS
    <3> HIDE DEF S, step
    <3>2. QED BY <1>1, <1>3, <3>1, StepsExist DEF HasSteps
  <2>2. ASSUME NEW k \in 0 .. STREAMS
        PROVE  f[k] = IF k = 0 THEN <<>> ELSE makePermutation(f[k - 1], N, OrderSeed)
    <3>1. CASE k = 0 BY <2>1, <3>1 DEF Steps
    <3>2. CASE k # 0
      <4>1. f[k] = step[k][f[k - 1]] BY <2>1, <3>2 DEF Steps
      <4>2. k \in 1 .. STREAMS /\ f[k - 1] \in S BY <1>1, <3>2
      <4>3. step[k][f[k - 1]] = makePermutation(f[k - 1], N, OrderSeed) BY <4>2
      <4>4. QED BY <3>2, <4>1, <4>3
    <3>3. QED BY <3>1, <3>2
  <2>3. QED BY <2>2
<1>5. OrderOf = [k \in 0 .. STREAMS |->
                    IF k = 0 THEN <<>> ELSE makePermutation(OrderOf[k - 1], N, OrderSeed)]
    BY <1>4 DEF OrderOf
<1>6. OrderOf[0] = <<>> BY <1>1, <1>5
<1>7. \A k \in 1 .. STREAMS : OrderOf[k] = makePermutation(OrderOf[k - 1], N, OrderSeed)
    BY <1>1, <1>5
<1>8. \A k \in 0 .. STREAMS : OrderOf[k] \in S
  <2>1. OrderOf[0] \in S BY <1>6
  <2>2. \A k \in 1 .. STREAMS : OrderOf[k - 1] \in S => OrderOf[k] \in S BY <1>2, <1>7
  <2> HIDE DEF S
  <2>3. QED BY <1>1, <2>1, <2>2, StepsStay
<1>9. \A k \in 1 .. STREAMS : k - 1 \in 0 .. STREAMS BY <1>1
<1>10. QED BY <1>2, <1>6, <1>7, <1>8, <1>9

(***************************************************************************)
(* The queries written are those whose turn has been.                      *)
(***************************************************************************)
InLoop == pc \in {"query", "select"}

ControlInv ==
    /\ stream \in 0 .. STREAMS
    /\ InLoop => /\ stream < STREAMS /\ query \in 1 .. N /\ version \in 1 .. COUNT
                 /\ order = OrderOf[stream + 1]
    /\ ~InLoop => order = OrderOf[stream]

\* The turn of version v of the query at place q of stream s has been.
Passed(s, q, v) ==
    \/ s < stream
    \/ s = stream /\ InLoop /\ (q < query \/ (q = query /\ v < version))

TemplateAt(s, q) == IF qualify THEN q ELSE OrderOf[s + 1][q]

IsOf(w, s, q, v) == w.stream = s /\ w.query = q /\ w.version = v

WrittenIsASequence == \E Entries : written \in Seq(Entries)
OnlyPassed ==
    \A i \in 1 .. Len(written) : \E s \in Nat, q \in 1 .. N, v \in 1 .. COUNT :
        IsOf(written[i], s, q, v) /\ Passed(s, q, v) /\ written[i].template = TemplateAt(s, q)
AllPassed ==
    \A s \in Nat, q \in 1 .. N, v \in 1 .. COUNT :
        Passed(s, q, v) => \E i \in 1 .. Len(written) : IsOf(written[i], s, q, v)
NoneTwice ==
    \A i, j \in 1 .. Len(written), s \in Nat, q \in 1 .. N, v \in 1 .. COUNT :
        IsOf(written[i], s, q, v) /\ IsOf(written[j], s, q, v) => i = j
WrittenInv == WrittenIsASequence /\ OnlyPassed /\ AllPassed /\ NoneTwice

StreamsInv == ControlInv /\ WrittenInv

LEMMA StreamsBegin == StreamInit => StreamsInv
<1> SUFFICES ASSUME StreamInit PROVE StreamsInv OBVIOUS
<1> USE DEF StreamInit
<1>1. ControlInv BY StreamsAssumption, OrdersPermute DEF ControlInv, InLoop
<1>2. written \in Seq({}) /\ Len(written) = 0 OBVIOUS
<1>3. \A s \in Nat, q \in 1 .. N, v \in 1 .. COUNT : ~Passed(s, q, v) BY DEF Passed, InLoop
<1>4. WrittenInv BY <1>2, <1>3
    DEF WrittenInv, WrittenIsASequence, OnlyPassed, AllPassed, NoneTwice
<1>5. QED BY <1>1, <1>4 DEF StreamsInv

\* A step that writes nothing and passes nothing.
LEMMA NothingWritten ==
    ASSUME WrittenInv, written' = written, qualify' = qualify,
           \A s \in Nat, q \in 1 .. N, v \in 1 .. COUNT : Passed(s, q, v)' <=> Passed(s, q, v)
    PROVE  WrittenInv'
<1>1. \A s \in Nat, q \in 1 .. N : TemplateAt(s, q)' = TemplateAt(s, q) BY DEF TemplateAt
<1>2. WrittenIsASequence' BY DEF WrittenInv, WrittenIsASequence
<1>3. OnlyPassed' BY <1>1 DEF WrittenInv, OnlyPassed, IsOf
<1>4. AllPassed' BY DEF WrittenInv, AllPassed, IsOf
<1>5. NoneTwice' BY DEF WrittenInv, NoneTwice, IsOf
<1>6. QED BY <1>2, <1>3, <1>4, <1>5 DEF WrittenInv

LEMMA EndParseStep == StreamsInv /\ EndParse => StreamsInv'
<1> SUFFICES ASSUME StreamsInv, EndParse PROVE StreamsInv' OBVIOUS
<1> USE DEF EndParse, StreamsInv, loop
<1>1. ControlInv' BY DEF ControlInv, InLoop
<1>2. \A s \in Nat, q \in 1 .. N, v \in 1 .. COUNT : Passed(s, q, v)' <=> Passed(s, q, v)
    BY DEF Passed, InLoop
<1>3. WrittenInv' BY <1>2, NothingWritten
<1>4. QED BY <1>1, <1>3

LEMMA BeginStreamStep == StreamsInv /\ BeginStream => StreamsInv'
<1> SUFFICES ASSUME StreamsInv, BeginStream PROVE StreamsInv' OBVIOUS
<1> USE DEF BeginStream, StreamsInv, loop
<1>1. STREAMS \in Nat /\ N \in Nat \ {0} /\ COUNT \in Nat \ {0} BY StreamsAssumption
<1>2. stream \in 0 .. STREAMS /\ stream < STREAMS /\ order = OrderOf[stream]
    BY DEF ControlInv, InLoop
<1>3. order' = OrderOf[stream + 1]
  <2>1. stream + 1 \in 1 .. STREAMS /\ (stream + 1) - 1 = stream BY <1>1, <1>2
  <2>2. OrderOf[stream + 1] = makePermutation(OrderOf[stream], N, OrderSeed)
      BY <2>1, OrdersPermute
  <2>3. QED BY <1>2, <2>2 DEF NextOrder
<1>4. ControlInv' BY <1>1, <1>2, <1>3 DEF ControlInv, InLoop
<1>5. \A s \in Nat, q \in 1 .. N, v \in 1 .. COUNT : Passed(s, q, v)' <=> Passed(s, q, v)
    BY <1>1, <1>2 DEF Passed, InLoop
<1>6. WrittenInv' BY <1>5, NothingWritten
<1>7. QED BY <1>4, <1>6

LEMMA BeginQueryStep == StreamsInv /\ BeginQuery => StreamsInv'
<1> SUFFICES ASSUME StreamsInv, BeginQuery PROVE StreamsInv' OBVIOUS
<1> USE DEF BeginQuery, StreamsInv, loop
<1>1. ControlInv' BY DEF ControlInv, InLoop
<1>2. \A s \in Nat, q \in 1 .. N, v \in 1 .. COUNT : Passed(s, q, v)' <=> Passed(s, q, v)
    BY DEF Passed, InLoop
<1>3. WrittenInv' BY <1>2, NothingWritten
<1>4. QED BY <1>1, <1>3

\* The turn of the query that is written passes, and no other.
LEMMA TurnPasses ==
    ASSUME StreamsInv, NEW text, EndQuery(text)
    PROVE  /\ ControlInv'
           /\ \A s \in Nat, q \in 1 .. N, v \in 1 .. COUNT :
                  Passed(s, q, v)' <=> \/ Passed(s, q, v)
                                       \/ s = stream /\ q = query /\ v = version
<1>1. STREAMS \in Nat /\ N \in Nat \ {0} /\ COUNT \in Nat \ {0} BY StreamsAssumption
<1>2. /\ stream \in 0 .. STREAMS /\ stream < STREAMS /\ query \in 1 .. N /\ version \in 1 .. COUNT
      /\ order = OrderOf[stream + 1]
    BY DEF StreamsInv, ControlInv, InLoop, EndQuery
<1>3. pc = "select" /\ order' = order BY DEF EndQuery
<1>4. CASE version < COUNT
  <2>1. query' = query /\ version' = version + 1 /\ pc' = "query" /\ stream' = stream
      BY <1>1, <1>2, <1>4 DEF EndQuery, Advance
  <2>2. ControlInv' BY <1>1, <1>2, <1>3, <1>4, <2>1 DEF ControlInv, InLoop
  <2>3. QED BY <1>1, <1>2, <1>3, <2>1, <2>2 DEF Passed, InLoop
<1>5. CASE ~(version < COUNT) /\ query < N
  <2>1. query' = query + 1 /\ version' = 1 /\ pc' = "query" /\ stream' = stream
      BY <1>1, <1>2, <1>5 DEF EndQuery, Advance
  <2>2. ControlInv' BY <1>1, <1>2, <1>3, <1>5, <2>1 DEF ControlInv, InLoop
  <2>3. version = COUNT BY <1>1, <1>2, <1>5
  <2>4. QED BY <1>1, <1>2, <1>3, <2>1, <2>2, <2>3 DEF Passed, InLoop
<1>6. CASE ~(version < COUNT) /\ ~(query < N)
  <2>1. pc' = "stream" /\ stream' = stream + 1 BY <1>1, <1>2, <1>6 DEF EndQuery, Advance
  <2>2. ControlInv' BY <1>1, <1>2, <1>3, <2>1 DEF ControlInv, InLoop
  <2>3. version = COUNT /\ query = N BY <1>1, <1>2, <1>6
  <2>4. QED BY <1>1, <1>2, <1>3, <2>1, <2>2, <2>3 DEF Passed, InLoop
<1>7. QED BY <1>4, <1>5, <1>6

LEMMA EndQueryStep ==
    ASSUME StreamsInv, NEW text, EndQuery(text)
    PROVE  StreamsInv'
<1>1. ControlInv' BY TurnPasses
<1>2. /\ stream \in Nat /\ query \in 1 .. N /\ version \in 1 .. COUNT
      /\ order = OrderOf[stream + 1] /\ InLoop
    BY StreamsAssumption DEF StreamsInv, ControlInv, InLoop, EndQuery
<1>3. ~Passed(stream, query, version)
    BY <1>2, StreamsAssumption DEF Passed
<1>4. PICK entry : entry = [stream |-> stream, query |-> query, version |-> version,
                            template |-> Current, text |-> text]
    OBVIOUS
<1>5. IsOf(entry, stream, query, version) BY <1>4 DEF IsOf
<1>6. entry.template = TemplateAt(stream, query) BY <1>2, <1>4 DEF Current, TemplateAt
<1>7. written' = Append(written, entry) /\ qualify' = qualify BY <1>4 DEF EndQuery
<1>8. PICK Entries : written \in Seq(Entries)
    BY DEF StreamsInv, WrittenInv, WrittenIsASequence
<1>9. PICK n \in Nat : n = Len(written) BY <1>8
<1>10. /\ written' \in Seq(Entries \cup {entry}) /\ Len(written') = n + 1
       /\ \A i \in 1 .. n : written'[i] = written[i]
       /\ written'[n + 1] = entry
    BY <1>7, <1>8, <1>9
<1>11. \A i \in 1 .. (n + 1) : i \in 1 .. n \/ i = n + 1 BY <1>9
<1>12. \A s, q : TemplateAt(s, q)' = TemplateAt(s, q) BY <1>7 DEF TemplateAt
<1>13. \A i \in 1 .. n : \E s \in Nat, q \in 1 .. N, v \in 1 .. COUNT :
           IsOf(written[i], s, q, v) /\ Passed(s, q, v) /\ written[i].template = TemplateAt(s, q)
    BY <1>9 DEF StreamsInv, WrittenInv, OnlyPassed
<1>14. \A i \in 1 .. n : ~IsOf(written[i], stream, query, version)
    BY <1>3, <1>13 DEF IsOf
<1>15. ASSUME NEW i \in 1 .. (n + 1)
       PROVE  \E s \in Nat, q \in 1 .. N, v \in 1 .. COUNT :
                  IsOf(written'[i], s, q, v) /\ Passed(s, q, v)'
                  /\ written'[i].template = TemplateAt(s, q)'
  <2>1. CASE i = n + 1 BY <1>2, <1>5, <1>6, <1>10, <1>12, <2>1, TurnPasses
  <2>2. CASE i \in 1 .. n BY <1>10, <1>12, <1>13, <2>2, TurnPasses
  <2>3. QED BY <1>11, <2>1, <2>2
<1>16. ASSUME NEW s \in Nat, NEW q \in 1 .. N, NEW v \in 1 .. COUNT, Passed(s, q, v)'
       PROVE  \E i \in 1 .. (n + 1) : IsOf(written'[i], s, q, v)
  <2>1. CASE Passed(s, q, v)
    <3>1. PICK i \in 1 .. n : IsOf(written[i], s, q, v)
        BY <1>9, <2>1 DEF StreamsInv, WrittenInv, AllPassed
    <3>2. i \in 1 .. (n + 1) /\ IsOf(written'[i], s, q, v) BY <1>10, <3>1
    <3>3. QED BY <3>2
  <2>2. CASE s = stream /\ q = query /\ v = version
    <3>1. n + 1 \in 1 .. (n + 1) /\ IsOf(written'[n + 1], s, q, v) BY <1>5, <1>9, <1>10, <2>2
    <3>2. QED BY <3>1
  <2>3. QED BY <1>16, <2>1, <2>2, TurnPasses
<1>17. ASSUME NEW i \in 1 .. (n + 1), NEW j \in 1 .. (n + 1),
              NEW s \in Nat, NEW q \in 1 .. N, NEW v \in 1 .. COUNT,
              IsOf(written'[i], s, q, v), IsOf(written'[j], s, q, v)
       PROVE  i = j
  <2>1. CASE i \in 1 .. n /\ j \in 1 .. n
    <3>1. IsOf(written[i], s, q, v) /\ IsOf(written[j], s, q, v) BY <1>10, <1>17, <2>1
    <3>2. QED BY <1>9, <2>1, <3>1 DEF StreamsInv, WrittenInv, NoneTwice
  <2>2. CASE i = n + 1 /\ j = n + 1 BY <2>2
  <2>3. CASE i \in 1 .. n /\ j = n + 1 BY <1>5, <1>10, <1>14, <1>17, <2>3 DEF IsOf
  <2>4. CASE i = n + 1 /\ j \in 1 .. n BY <1>5, <1>10, <1>14, <1>17, <2>4 DEF IsOf
  <2>5. QED BY <1>11, <2>1, <2>2, <2>3, <2>4
<1>18. WrittenInv'
  <2>1. WrittenIsASequence' BY <1>10 DEF WrittenIsASequence
  <2>2. Len(written') = n + 1 BY <1>10
  <2>3. OnlyPassed' BY <1>15, <2>2 DEF OnlyPassed, IsOf
  <2>4. AllPassed' BY <1>16, <2>2 DEF AllPassed, IsOf
  <2>5. NoneTwice' BY <1>17, <2>2 DEF NoneTwice, IsOf
  <2>6. QED BY <2>1, <2>3, <2>4, <2>5 DEF WrittenInv
<1>19. QED BY <1>1, <1>18 DEF StreamsInv

LEMMA StreamsContinue == StreamsInv /\ [StreamNext]_streamVars => StreamsInv'
<1> SUFFICES ASSUME StreamsInv, [StreamNext]_streamVars PROVE StreamsInv' OBVIOUS
<1>1. CASE UNCHANGED streamVars
  <2>1. ControlInv' BY <1>1 DEF StreamsInv, ControlInv, InLoop, streamVars, loop
  <2>2. \A s \in Nat, q \in 1 .. N, v \in 1 .. COUNT : Passed(s, q, v)' <=> Passed(s, q, v)
      BY <1>1 DEF Passed, InLoop, streamVars, loop
  <2>3. WrittenInv' BY <1>1, <2>2, NothingWritten DEF StreamsInv, streamVars
  <2>4. QED BY <2>1, <2>3 DEF StreamsInv
<1>2. CASE EndParse BY <1>2, EndParseStep
<1>3. CASE BeginStream BY <1>3, BeginStreamStep
<1>4. CASE BeginQuery BY <1>4, BeginQueryStep
<1>5. CASE \E text : EndQuery(text) BY <1>5, EndQueryStep
<1>6. QED BY <1>1, <1>2, <1>3, <1>4, <1>5 DEF StreamNext

(***************************************************************************)
(* Complete streams.                                                       *)
(***************************************************************************)
\* Each template has one place in a stream.
LEMMA OnePlace ==
    ASSUME NEW s \in 0 .. (STREAMS - 1), NEW t \in 1 .. N
    PROVE  \E q \in 1 .. N : TemplateAt(s, q) = t /\ \A p \in 1 .. N : TemplateAt(s, p) = t => p = q
<1>1. s + 1 \in 1 .. STREAMS BY StreamsAssumption
<1>2. OrderOf[s + 1] \in PermutationsOf(N) BY <1>1, OrdersPermute
<1>3. CASE qualify BY <1>3 DEF TemplateAt
<1>4. CASE ~qualify BY <1>2, <1>4 DEF TemplateAt, PermutationsOf, Injective, Surjective
<1>5. QED BY <1>3, <1>4

LEMMA CompleteStreams == StreamsInv => StreamsAreComplete
<1> SUFFICES ASSUME StreamsInv PROVE StreamsAreComplete OBVIOUS
<1>1. OrderIgnoresSeed BY DEF StreamsInv, ControlInv, InLoop, OrderIgnoresSeed
<1>2. ASSUME NEW s \in 0 .. (stream - 1), NEW t \in 1 .. N, NEW v \in 1 .. COUNT
      PROVE  \E i \in {i \in DOMAIN written : /\ written[i].stream = s
                                              /\ written[i].template = t
                                              /\ written[i].version = v} :
                 /\ {j \in DOMAIN written : /\ written[j].stream = s
                                            /\ written[j].template = t
                                            /\ written[j].version = v} = {i}
                 /\ qualify => written[i].query = t
  <2>1. s \in Nat /\ s \in 0 .. (STREAMS - 1) /\ s < stream
      BY StreamsAssumption DEF StreamsInv, ControlInv
  <2>2. PICK q \in 1 .. N : TemplateAt(s, q) = t /\ \A p \in 1 .. N : TemplateAt(s, p) = t => p = q
      BY <2>1, OnePlace
  <2>3. DOMAIN written = 1 .. Len(written)
      BY DEF StreamsInv, WrittenInv, WrittenIsASequence
  <2>4. PICK i \in 1 .. Len(written) : IsOf(written[i], s, q, v)
      BY <2>1 DEF StreamsInv, WrittenInv, AllPassed, Passed
  <2>5. \A j \in 1 .. Len(written) : \E s2 \in Nat, q2 \in 1 .. N, v2 \in 1 .. COUNT :
            IsOf(written[j], s2, q2, v2) /\ written[j].template = TemplateAt(s2, q2)
      BY DEF StreamsInv, WrittenInv, OnlyPassed
  <2>6. written[i].stream = s /\ written[i].template = t /\ written[i].version = v
      BY <2>2, <2>4, <2>5 DEF IsOf
  <2>7. ASSUME NEW j \in 1 .. Len(written), written[j].stream = s, written[j].template = t,
               written[j].version = v
        PROVE  j = i
    <3>1. IsOf(written[j], s, q, v) BY <2>2, <2>5, <2>7 DEF IsOf
    <3>2. QED BY <2>1, <2>4, <3>1 DEF StreamsInv, WrittenInv, NoneTwice
  <2>8. qualify => written[i].query = t BY <2>2, <2>4 DEF IsOf, TemplateAt
  <2>9. QED BY <2>3, <2>6, <2>7, <2>8
<1>3. EndedStreamsAreComplete BY <1>2 DEF EndedStreamsAreComplete
<1>4. QED BY <1>1, <1>3 DEF StreamsAreComplete

\* Every stream of every run of dsqgen holds each version of each template
\* once, and in the order that its number alone determines (QgenMain.c
\* generateQueryStreams, permute.c makePermutation).
THEOREM EveryStreamIsComplete == StreamSpec => []StreamsAreComplete
<1>1. StreamInit => StreamsInv BY StreamsBegin
<1>2. StreamsInv /\ [StreamNext]_streamVars => StreamsInv' BY StreamsContinue
<1>3. StreamsInv => StreamsAreComplete BY CompleteStreams
<1>4. QED BY <1>1, <1>2, <1>3, PTL DEF StreamSpec

(***************************************************************************)
(* Sequences and their parts.                                              *)
(***************************************************************************)
IsSequence(s) == \E X : s \in Seq(X)
\* s holds t behind its first elements, as many as from.
Holds(s, from, t) ==
    /\ from + Len(t) <= Len(s)
    /\ \A i \in 1 .. Len(t) : s[from + i] = t[i]

LEMMA Lengths ==
    ASSUME NEW s, IsSequence(s)
    PROVE  Len(s) \in Nat /\ DOMAIN s = 1 .. Len(s)
<1>1. PICK X : s \in Seq(X) BY DEF IsSequence
<1>2. QED BY <1>1, LenProperties

LEMMA FunctionIsSequence ==
    ASSUME NEW n \in Nat, NEW f, f = [i \in 1 .. n |-> f[i]]
    PROVE  IsSequence(f) /\ Len(f) = n
<1>1. PICK X : X = {f[i] : i \in 1 .. n} OBVIOUS
<1>2. f \in [1 .. n -> X] BY <1>1
<1>3. f \in Seq(X) BY <1>2, SeqDef
<1>4. Len(f) \in Nat /\ DOMAIN f = 1 .. Len(f) BY <1>3, LenProperties
<1>5. DOMAIN f = 1 .. n BY <1>2
<1>6. Len(f) = n BY <1>4, <1>5
<1>7. QED BY <1>3, <1>6 DEF IsSequence

LEMMA Equal ==
    ASSUME NEW s, NEW t, IsSequence(s), IsSequence(t), Len(s) = Len(t),
           \A i \in 1 .. Len(s) : s[i] = t[i]
    PROVE  s = t
<1>1. PICK X : s \in Seq(X) BY DEF IsSequence
<1>2. PICK Y : t \in Seq(Y) BY DEF IsSequence
<1>3. s \in Seq(X \cup Y) /\ t \in Seq(X \cup Y) BY <1>1, <1>2, SeqMonotonic
<1>4. QED BY <1>3, SeqEqual

LEMMA Join ==
    ASSUME NEW a, NEW b, IsSequence(a), IsSequence(b)
    PROVE  /\ IsSequence(a \o b) /\ Len(a \o b) = Len(a) + Len(b)
           /\ Holds(a \o b, 0, a) /\ Holds(a \o b, Len(a), b)
<1>1. PICK X : a \in Seq(X) BY DEF IsSequence
<1>2. PICK Y : b \in Seq(Y) BY DEF IsSequence
<1>3. a \in Seq(X \cup Y) /\ b \in Seq(X \cup Y) BY <1>1, <1>2, SeqMonotonic
<1>4. /\ a \o b \in Seq(X \cup Y) /\ Len(a \o b) = Len(a) + Len(b)
      /\ \A i \in 1 .. Len(a) + Len(b) : (a \o b)[i] = IF i <= Len(a) THEN a[i] ELSE b[i - Len(a)]
    BY <1>3, ConcatProperties
<1>5. Len(a) \in Nat /\ Len(b) \in Nat BY Lengths
<1>6. Holds(a \o b, 0, a) BY <1>4, <1>5 DEF Holds
<1>7. Holds(a \o b, Len(a), b) BY <1>4, <1>5 DEF Holds
<1>8. QED BY <1>4, <1>6, <1>7 DEF IsSequence

LEMMA Within ==
    ASSUME NEW s, NEW t, NEW u, IsSequence(s), IsSequence(t), IsSequence(u),
           NEW f \in Nat, NEW g \in Nat, Holds(s, f, t), Holds(t, g, u)
    PROVE  Holds(s, f + g, u)
<1>1. Len(s) \in Nat /\ Len(t) \in Nat /\ Len(u) \in Nat BY Lengths
<1>2. ASSUME NEW i \in 1 .. Len(u) PROVE s[(f + g) + i] = u[i]
  <2>1. g + i \in 1 .. Len(t) /\ t[g + i] = u[i] BY <1>1 DEF Holds
  <2>2. s[f + (g + i)] = t[g + i] BY <2>1 DEF Holds
  <2>3. f + (g + i) = (f + g) + i OBVIOUS
  <2>4. QED BY <2>1, <2>2, <2>3
<1>3. QED BY <1>1, <1>2 DEF Holds

LEMMA ReadPart ==
    ASSUME NEW s, NEW t, IsSequence(s), IsSequence(t), NEW from \in Nat, Holds(s, from, t)
    PROVE  SubSeq(s, from + 1, from + Len(t)) = t
<1>1. PICK X : s \in Seq(X) BY DEF IsSequence
<1>2. Len(s) \in Nat /\ Len(t) \in Nat BY Lengths
<1>3. PICK to \in Nat : to = from + Len(t) BY <1>2
<1>4. \A i \in (from + 1) .. to : s[i] \in X
  <2> TAKE i \in (from + 1) .. to
  <2>1. i \in 1 .. Len(s) BY <1>2, <1>3 DEF Holds
  <2>2. QED BY <1>1, <2>1, ElementOfSeq
<1>5. PICK r : r = SubSeq(s, from + 1, to) OBVIOUS
<1>6. /\ r \in Seq(X) /\ Len(r) = IF from + 1 <= to THEN to - (from + 1) + 1 ELSE 0
      /\ \A i \in 1 .. (to - (from + 1) + 1) : r[i] = s[(from + 1) + i - 1]
    BY <1>4, <1>5, SubSeqProperties
<1>7. Len(r) = Len(t) BY <1>2, <1>3, <1>6
<1>8. \A i \in 1 .. Len(t) : r[i] = t[i]
  <2> TAKE i \in 1 .. Len(t)
  <2>1. r[i] = s[(from + 1) + i - 1] BY <1>2, <1>3, <1>6
  <2>2. (from + 1) + i - 1 = from + i BY <1>2
  <2>3. QED BY <2>1, <2>2 DEF Holds
<1>9. QED BY <1>3, <1>5, <1>6, <1>7, <1>8, Equal DEF IsSequence

(***************************************************************************)
(* FlattenSeq of the first m sequences.                                    *)
(***************************************************************************)
Parts(seqs, m) == [i \in 1 .. m |-> seqs[i]]
Flattened(seqs, m) == FlattenSeq(Parts(seqs, m))

LEMMA FlattenedFrom ==
    ASSUME NEW n \in Nat, NEW seqs, NEW P,
           P[0] = <<>>, \A i \in 1 .. n : P[i] = P[i - 1] \o seqs[i],
           \A i \in 1 .. n : IsSequence(seqs[i])
    PROVE  Flattened(seqs, n) = P[n]
<1> DEFINE p == Parts(seqs, n)
           flat == LET flatten[i \in 1 .. Len(p)] ==
                           IF i = 1 THEN p[i] ELSE flatten[i - 1] \o p[i]
                   IN  flatten
<1>1. IsSequence(p) /\ Len(p) = n /\ \A i \in 1 .. n : p[i] = seqs[i]
    BY FunctionIsSequence DEF Parts
<1>2. CASE n = 0
  <2>1. Flattened(seqs, n) = p BY <1>1, <1>2 DEF Flattened, FlattenSeq
  <2>2. IsSequence(<<>>) /\ Len(<<>>) = 0 BY EmptySeq DEF IsSequence
  <2>3. p = <<>> 
    <3> HIDE DEF p
    <3>1. QED BY <1>1, <1>2, <2>2, Equal
  <2>4. QED BY <1>2, <2>1, <2>3
<1>3. CASE n # 0
  <2>1. Flattened(seqs, n) = flat[n] BY <1>1, <1>3 DEF Flattened, FlattenSeq
  <2>2. 1 \in 1 .. n BY <1>3
  <2>3. P[1] = seqs[1]
    <3>1. PICK X : seqs[1] \in Seq(X) BY <2>2 DEF IsSequence
    <3>2. PICK z \in Nat : z = 1 - 1 OBVIOUS
    <3>3. P[1] = <<>> \o seqs[1]
      <4>1. P[1] = P[z] \o seqs[1] BY <2>2, <3>2
      <4>2. z = 0 BY <3>2
      <4>3. QED BY <4>1, <4>2
    <3>4. QED BY <3>1, <3>3, ConcatEmptySeq
  <2>4. \E f : f = [i \in 1 .. Len(p) |-> IF i = 1 THEN p[i] ELSE f[i - 1] \o p[i]]
    <3> DEFINE f == [i \in 1 .. n |-> P[i]]
    <3> HIDE DEF p
    <3>1. ASSUME NEW i \in 1 .. n PROVE f[i] = IF i = 1 THEN p[i] ELSE f[i - 1] \o p[i]
      <4>1. CASE i = 1 BY <1>1, <2>2, <2>3, <4>1
      <4>2. CASE i # 1
        <5>1. i - 1 \in 1 .. n /\ p[i] = seqs[i] BY <1>1, <4>2
        <5>2. P[i] = P[i - 1] \o seqs[i] OBVIOUS
        <5>3. QED BY <4>2, <5>1, <5>2
      <4>3. QED BY <4>1, <4>2
    <3>2. f = [i \in 1 .. n |-> f[i]] OBVIOUS
    <3> HIDE DEF f
    <3>3. f = [i \in 1 .. n |-> IF i = 1 THEN p[i] ELSE f[i - 1] \o p[i]] BY <3>1, <3>2
    <3>4. QED BY <1>1, <3>3
  <2>5. flat = [i \in 1 .. Len(p) |-> IF i = 1 THEN p[i] ELSE flat[i - 1] \o p[i]]
    <3> HIDE DEF p
    <3>1. QED BY <2>4
  <2> HIDE DEF flat, p
  <2>6. \A i \in 1 .. n : flat[i] = IF i = 1 THEN seqs[i] ELSE flat[i - 1] \o seqs[i]
      BY <1>1, <2>5
  <2> DEFINE T == {i \in Nat : i + 1 \in 1 .. n => flat[i + 1] = P[i + 1]}
  <2>7. 0 \in T BY <2>2, <2>3, <2>6
  <2>8. ASSUME NEW i \in Nat, i \in T PROVE i + 1 \in T
    <3> SUFFICES ASSUME (i + 1) + 1 \in 1 .. n PROVE flat[(i + 1) + 1] = P[(i + 1) + 1] OBVIOUS
    <3>1. PICK k \in 2 .. n : k = (i + 1) + 1 OBVIOUS
    <3>2. k - 1 = i + 1 /\ i + 1 \in 1 .. n /\ k \in 1 .. n /\ k # 1 BY <3>1
    <3>3. flat[k - 1] = P[k - 1] BY <2>8, <3>2
    <3>4. flat[k] = flat[k - 1] \o seqs[k] BY <2>6, <3>2
    <3>5. P[k] = P[k - 1] \o seqs[k] BY <3>2
    <3>6. QED BY <3>1, <3>3, <3>4, <3>5
  <2>9. Nat \subseteq T
    <3> HIDE DEF T
    <3>1. QED BY <2>7, <2>8, SetInduction
  <2>10. n - 1 \in T /\ (n - 1) + 1 = n BY <1>3, <2>9
  <2>11. flat[n] = P[n] BY <1>3, <2>10
  <2>12. QED BY <2>1, <2>11
<1>4. QED BY <1>2, <1>3

LEMMA FlattenedParts ==
    ASSUME NEW n \in Nat, NEW seqs, \A i \in 1 .. n : IsSequence(seqs[i])
    PROVE  /\ Flattened(seqs, 0) = <<>>
           /\ \A m \in 1 .. n : Flattened(seqs, m) = Flattened(seqs, m - 1) \o seqs[m]
           /\ \A m \in 0 .. n : IsSequence(Flattened(seqs, m))
<1> DEFINE X == UNION {{seqs[i][j] : j \in 1 .. Len(seqs[i])} : i \in 1 .. n}
           S == Seq(X)
           step == [i \in 1 .. n |-> [s \in S |-> s \o seqs[i]]]
<1>1. ASSUME NEW i \in 1 .. n PROVE seqs[i] \in S
  <2>1. PICK Y : seqs[i] \in Seq(Y) BY DEF IsSequence
  <2>2. PICK q : q = seqs[i] OBVIOUS
  <2>3. q \in Seq(Y) /\ Len(q) \in Nat /\ q \in [1 .. Len(q) -> Y]
      BY <2>1, <2>2, LenProperties
  <2>4. \A j \in 1 .. Len(q) : q[j] \in X BY <2>2
  <2> HIDE DEF X
  <2>5. q \in [1 .. Len(q) -> X] BY <2>3, <2>4
  <2>6. QED BY <2>2, <2>3, <2>5, SeqDef
<1> HIDE DEF X
<1>2. ASSUME NEW s \in S, NEW i \in 1 .. n PROVE s \o seqs[i] \in S
    BY <1>1, ConcatProperties
<1>3. <<>> \in S BY EmptySeq
<1>4. step \in [1 .. n -> [S -> S]] BY <1>2
<1>5. PICK P \in [0 .. n -> S] : Steps(<<>>, step, P, n)
  <2> HIDE DEF S, step
  <2>1. QED BY <1>3, <1>4, StepsExist DEF HasSteps
<1>6. P[0] = <<>>
  <2> HIDE DEF S, step
  <2>1. QED BY <1>5 DEF Steps
<1>7. ASSUME NEW i \in 1 .. n PROVE P[i] = P[i - 1] \o seqs[i]
  <2>1. P[i] = step[i][P[i - 1]]
    <3> HIDE DEF S, step
    <3>1. QED BY <1>5 DEF Steps
  <2>2. i - 1 \in 0 .. n /\ P[i - 1] \in S BY <1>5
  <2> HIDE DEF S
  <2>3. QED BY <2>1, <2>2
<1>8. \A m \in 0 .. n : Flattened(seqs, m) = P[m]
  <2> TAKE m \in 0 .. n
  <2> HIDE DEF S
  <2>1. m \in Nat /\ \A i \in 1 .. m : i \in 1 .. n OBVIOUS
  <2>2. QED BY <1>6, <1>7, <2>1, FlattenedFrom
<1>9. \A m \in 1 .. n : Flattened(seqs, m) = Flattened(seqs, m - 1) \o seqs[m]
  <2> TAKE m \in 1 .. n
  <2> HIDE DEF S
  <2>1. m - 1 \in 0 .. n /\ m \in 0 .. n OBVIOUS
  <2>2. QED BY <1>7, <1>8, <2>1
<1>10. \A m \in 0 .. n : IsSequence(Flattened(seqs, m))
  <2> TAKE m \in 0 .. n
  <2>1. P[m] \in Seq(X) BY <1>5
  <2>2. QED BY <1>8, <2>1 DEF IsSequence
<1>11. Flattened(seqs, 0) = <<>>
  <2> HIDE DEF S
  <2>1. 0 \in 0 .. n OBVIOUS
  <2>2. QED BY <1>6, <1>8, <2>1
<1>12. QED BY <1>9, <1>10, <1>11

\* In what is flattened each part lies behind the parts before it.
LEMMA PartHeld ==
    ASSUME NEW n \in Nat, NEW seqs, \A i \in 1 .. n : IsSequence(seqs[i]), NEW k \in 1 .. n
    PROVE  Holds(Flattened(seqs, n), Len(Flattened(seqs, k - 1)), seqs[k])
<1> DEFINE F(m) == Flattened(seqs, m)
           T == {m \in Nat : m \in k .. n => Holds(F(m), Len(F(k - 1)), seqs[k])}
<1>1. \A m \in 1 .. n : F(m) = F(m - 1) \o seqs[m] BY FlattenedParts
<1>2. \A m \in 0 .. n : IsSequence(F(m)) BY FlattenedParts
<1> HIDE DEF F
<1>3. k - 1 \in 0 .. n OBVIOUS
<1>4. Len(F(k - 1)) \in Nat BY <1>2, <1>3, Lengths
<1>5. Holds(F(k), Len(F(k - 1)), seqs[k]) BY <1>1, <1>2, <1>3, Join
<1>6. 0 \in T OBVIOUS
<1>7. ASSUME NEW m \in Nat, m \in T PROVE m + 1 \in T
  <2> SUFFICES ASSUME m + 1 \in k .. n PROVE Holds(F(m + 1), Len(F(k - 1)), seqs[k]) OBVIOUS
  <2>1. CASE m + 1 = k BY <1>5, <2>1
  <2>2. CASE m + 1 # k
    <3>1. PICK l \in 1 .. n : l = m + 1 OBVIOUS
    <3>2. m \in k .. n /\ m \in 0 .. n /\ l - 1 = m BY <2>2, <3>1
    <3>3. Holds(F(m), Len(F(k - 1)), seqs[k]) BY <1>7, <3>2
    <3>4. F(l) = F(m) \o seqs[l] BY <1>1, <3>1, <3>2
    <3>5. IsSequence(F(m)) /\ IsSequence(F(l)) /\ IsSequence(seqs[l]) /\ IsSequence(seqs[k])
        BY <1>2, <3>1, <3>2
    <3>6. Holds(F(l), 0, F(m)) BY <3>4, <3>5, Join
    <3>7. Holds(F(l), 0 + Len(F(k - 1)), seqs[k]) BY <1>4, <3>3, <3>5, <3>6, Within
    <3>8. 0 + Len(F(k - 1)) = Len(F(k - 1)) BY <1>4
    <3>9. QED BY <3>1, <3>7, <3>8
  <2>3. QED BY <2>1, <2>2
<1>8. Nat \subseteq T
  <2> HIDE DEF T
  <2>1. QED BY <1>6, <1>7, SetInduction
<1>9. n \in T /\ n \in k .. n BY <1>8
<1>10. QED BY <1>9 DEF F

\* Parts of one length lie at its multiples.
LEMMA EvenParts ==
    ASSUME NEW n \in Nat, NEW seqs, \A i \in 1 .. n : IsSequence(seqs[i]),
           NEW size \in Nat, \A i \in 1 .. n : Len(seqs[i]) = size
    PROVE  /\ Len(Flattened(seqs, n)) = n * size
           /\ \A k \in 1 .. n : Holds(Flattened(seqs, n), (k - 1) * size, seqs[k])
<1> DEFINE F(m) == Flattened(seqs, m)
           T == {m \in Nat : m <= n => Len(F(m)) = m * size}
<1>1. F(0) = <<>> /\ \A m \in 1 .. n : F(m) = F(m - 1) \o seqs[m] BY FlattenedParts
<1>2. \A m \in 0 .. n : IsSequence(F(m)) BY FlattenedParts
<1> HIDE DEF F
<1>3. Len(F(0)) = 0 BY <1>1, EmptySeq
<1>4. 0 \in T
  <2>1. 0 * size = 0 BY SMT
  <2>2. QED BY <1>3, <2>1
<1>5. ASSUME NEW m \in Nat, m \in T PROVE m + 1 \in T
  <2> SUFFICES ASSUME m + 1 <= n PROVE Len(F(m + 1)) = (m + 1) * size OBVIOUS
  <2>1. PICK l \in 1 .. n : l = m + 1 OBVIOUS
  <2>2. m \in 0 .. n /\ l - 1 = m BY <2>1
  <2>3. F(l) = F(m) \o seqs[l] BY <1>1, <2>2
  <2>4. Len(F(l)) = Len(F(m)) + size BY <1>2, <2>1, <2>2, <2>3, Join
  <2>5. Len(F(m)) = m * size BY <1>5, <2>2
  <2>6. (m + 1) * size = m * size + size BY SMT
  <2>7. QED BY <2>1, <2>4, <2>5, <2>6
<1>6. Nat \subseteq T
  <2> HIDE DEF T
  <2>1. QED BY <1>4, <1>5, SetInduction
<1>7. Len(F(n)) = n * size
  <2>1. n \in T BY <1>6
  <2>2. QED BY <2>1
<1>8. ASSUME NEW k \in 1 .. n PROVE Holds(F(n), (k - 1) * size, seqs[k])
  <2>1. k - 1 \in T /\ k - 1 <= n BY <1>6
  <2>2. Len(F(k - 1)) = (k - 1) * size BY <2>1
  <2>3. Holds(F(n), Len(F(k - 1)), seqs[k]) BY PartHeld DEF F
  <2>4. QED BY <2>2, <2>3
<1>9. QED BY <1>7, <1>8 DEF F

\* A sequence of sequences is its parts.
LEMMA AllParts ==
    ASSUME NEW seqs, IsSequence(seqs)
    PROVE  FlattenSeq(seqs) = Flattened(seqs, Len(seqs))
<1>1. PICK n \in Nat : n = Len(seqs) BY Lengths
<1>2. PICK p : p = Parts(seqs, n) OBVIOUS
<1>3. p = [i \in 1 .. n |-> p[i]] /\ \A i \in 1 .. n : p[i] = seqs[i] BY <1>2 DEF Parts
<1>4. IsSequence(p) /\ Len(p) = n BY <1>3, FunctionIsSequence
<1>5. p = seqs BY <1>1, <1>3, <1>4, Equal
<1>6. QED BY <1>1, <1>2, <1>5 DEF Flattened

LEMMA Appended ==
    ASSUME NEW s, IsSequence(s), NEW x
    PROVE  /\ IsSequence(Append(s, x)) /\ Len(Append(s, x)) = Len(s) + 1
           /\ \A i \in 1 .. Len(s) : Append(s, x)[i] = s[i]
           /\ Append(s, x)[Len(s) + 1] = x
<1>1. PICK X : s \in Seq(X) BY DEF IsSequence
<1>2. PICK Y : Y = X \cup {x} OBVIOUS
<1>3. s \in Seq(Y) /\ x \in Y BY <1>1, <1>2, SeqMonotonic
<1>4. QED BY <1>3, AppendProperties DEF IsSequence

LEMMA Replaced ==
    ASSUME NEW s, IsSequence(s), NEW k \in 1 .. Len(s), NEW x
    PROVE  /\ IsSequence([s EXCEPT ![k] = x]) /\ Len([s EXCEPT ![k] = x]) = Len(s)
           /\ \A i \in 1 .. Len(s) : [s EXCEPT ![k] = x][i] = IF i = k THEN x ELSE s[i]
<1>1. PICK X : s \in Seq(X) BY DEF IsSequence
<1>2. PICK Y : Y = X \cup {x} OBVIOUS
<1>3. s \in Seq(Y) /\ x \in Y BY <1>1, <1>2, SeqMonotonic
<1>4. QED BY <1>3, ExceptSeq DEF IsSequence

LEMMA Beginning ==
    ASSUME NEW s, IsSequence(s), NEW n \in Nat, n <= Len(s)
    PROVE  /\ IsSequence(SubSeq(s, 1, n)) /\ Len(SubSeq(s, 1, n)) = n
           /\ \A i \in 1 .. n : SubSeq(s, 1, n)[i] = s[i]
<1>1. PICK X : s \in Seq(X) BY DEF IsSequence
<1>2. Len(s) \in Nat BY Lengths
<1>3. \A i \in 1 .. n : s[i] \in X BY <1>1, <1>2, ElementOfSeq
<1>4. PICK r : r = SubSeq(s, 1, n) OBVIOUS
<1>5. /\ r \in Seq(X) /\ Len(r) = IF 1 <= n THEN n - 1 + 1 ELSE 0
      /\ \A i \in 1 .. (n - 1 + 1) : r[i] = s[1 + i - 1]
    BY <1>3, <1>4, SubSeqProperties
<1>6. \A i \in 1 .. n : r[i] = s[i] BY <1>5
<1>7. QED BY <1>4, <1>5, <1>6 DEF IsSequence

\* Two functions that agree at 0 and continue alike agree.
LEMMA SameSteps ==
    ASSUME NEW n \in Nat, NEW f, NEW g, f[0] = g[0],
           \A i \in 1 .. n : f[i - 1] = g[i - 1] => f[i] = g[i]
    PROVE  \A i \in 0 .. n : f[i] = g[i]
<1> DEFINE T == {i \in Nat : i <= n => f[i] = g[i]}
<1>1. 0 \in T OBVIOUS
<1>2. ASSUME NEW i \in Nat, i \in T PROVE i + 1 \in T
  <2> SUFFICES ASSUME i + 1 <= n PROVE f[i + 1] = g[i + 1] OBVIOUS
  <2>1. i + 1 \in 1 .. n /\ (i + 1) - 1 = i /\ f[i] = g[i] BY <1>2
  <2>2. QED BY <2>1
<1>3. Nat \subseteq T BY <1>1, <1>2, SetInduction
<1>4. QED BY <1>3

(***************************************************************************)
(* The entries that are stated.                                            *)
(***************************************************************************)
EntryFields == {"name", "type_vector", "w_width", "length", "weight_sets", "value_sets",
                "strings", "names", "title", "rows"}
IsEntry(e) == e = [field \in EntryFields |-> e[field]]
IsSized(e) ==
    /\ IsSequence(e.type_vector) /\ v_width(e) <= MaxWidth
    /\ e.w_width \in Nat /\ e.w_width <= MaxWidth
    /\ e.length \in Nat /\ (v_width(e) = 0 \/ e.w_width = 0 => e.length = 0)
    /\ IsSequence(e.strings)
    /\ IsSequence(e.rows) /\ Len(e.rows) = e.length
\* The weights are those of the rows.
WeightsStated(e) ==
    /\ IsSequence(e.weight_sets) /\ Len(e.weight_sets) = e.w_width
    /\ \A i \in 1 .. e.w_width :
         /\ e.weight_sets[i] \in Seq(Nat) /\ Len(e.weight_sets[i]) = e.length
         /\ \A r \in 1 .. e.length : e.weight_sets[i][r] = e.rows[r].weights[i]
\* The values of the rows are found where the offsets say.
ValuesStated(e) ==
    /\ IsSequence(e.value_sets) /\ Len(e.value_sets) = v_width(e)
    /\ \A i \in 1 .. v_width(e) :
         /\ IsSequence(e.value_sets[i]) /\ Len(e.value_sets[i]) = e.length
         /\ \A r \in 1 .. e.length :
              /\ e.value_sets[i][r] \in Nat /\ e.value_sets[i][r] + 1 <= Len(e.strings)
              /\ e.strings[e.value_sets[i][r] + 1] = e.rows[r].values[i]
\* The alias of a position is its number.
NamesStated(e) ==
    e.names = <<>> \/ (/\ v_width(e) # 0 /\ e.w_width # 0
                       /\ e.names = [i \in 1 .. (v_width(e) + e.w_width) |-> i])
EntryInv(e) ==
    IsEntry(e) /\ IsSized(e) /\ WeightsStated(e) /\ ValuesStated(e) /\ NamesStated(e)

LEMMA EmptySequence == IsSequence(<<>>) /\ Len(<<>>) = 0
BY EmptySeq DEF IsSequence

LEMMA NewEntry == ASSUME NEW name PROVE EntryInv(newEntry(name))
<1> DEFINE e == newEntry(name)
<1>1. IsEntry(e) BY DEF IsEntry, EntryFields, newEntry
<1>2. /\ e.type_vector = <<>> /\ e.w_width = 0 /\ e.length = 0 /\ e.weight_sets = <<>>
      /\ e.value_sets = <<>> /\ e.strings = <<>> /\ e.names = <<>> /\ e.rows = <<>>
    BY DEF newEntry
<1> HIDE DEF e
<1>3. v_width(e) = 0 BY <1>2, EmptySequence DEF v_width
<1>4. IsSized(e) BY <1>2, <1>3, EmptySequence, DistAssumption DEF IsSized
<1>5. WeightsStated(e) BY <1>2, EmptySequence DEF WeightsStated
<1>6. ValuesStated(e) BY <1>2, <1>3, EmptySequence DEF ValuesStated
<1>7. NamesStated(e) BY <1>2 DEF NamesStated
<1>8. QED BY <1>1, <1>4, <1>5, <1>6, <1>7 DEF EntryInv, e

LEMMA TypesStated ==
    ASSUME NEW e, EntryInv(e), v_width(e) = 0, NEW types \in TypeRows
    PROVE  EntryInv([e EXCEPT !.type_vector = types,
                              !.value_sets = [i \in DOMAIN types |-> <<>>]])
<1> DEFINE f == [e EXCEPT !.type_vector = types, !.value_sets = [i \in DOMAIN types |-> <<>>]]
<1>1. IsEntry(e) BY DEF EntryInv
<1>2. IsEntry(f) BY <1>1 DEF IsEntry, EntryFields
<1>3. /\ f.type_vector = types /\ f.value_sets = [i \in DOMAIN types |-> <<>>]
      /\ f.w_width = e.w_width /\ f.length = e.length /\ f.weight_sets = e.weight_sets
      /\ f.strings = e.strings /\ f.names = e.names /\ f.rows = e.rows
    BY <1>1 DEF IsEntry, EntryFields
<1> HIDE DEF f
<1>4. IsSequence(types) /\ Len(types) \in 1 .. MaxWidth /\ DOMAIN types = 1 .. Len(types)
  <2>1. IsSequence(types) BY DistAssumption DEF IsSequence
  <2>2. QED BY <2>1, Lengths, DistAssumption
<1>5. v_width(f) = Len(types) BY <1>3 DEF v_width
<1>6. e.length = 0 BY DEF EntryInv, IsSized
<1>7. IsSized(f)
    BY <1>3, <1>4, <1>5, <1>6, DistAssumption DEF EntryInv, IsSized
<1>8. WeightsStated(f) BY <1>3 DEF EntryInv, WeightsStated
<1>9. ValuesStated(f)
  <2>1. PICK sets : sets = [i \in 1 .. Len(types) |-> <<>>] OBVIOUS
  <2>2. sets = [i \in 1 .. Len(types) |-> sets[i]] BY <2>1
  <2>3. IsSequence(sets) /\ Len(sets) = Len(types) BY <1>4, <2>2, FunctionIsSequence
  <2>4. f.value_sets = sets BY <1>3, <1>4, <2>1
  <2>5. \A i \in 1 .. Len(types) : sets[i] = <<>> BY <2>1
  <2>6. QED BY <1>3, <1>5, <1>6, <2>3, <2>4, <2>5, EmptySequence DEF ValuesStated
<1>10. NamesStated(f) BY <1>3 DEF EntryInv, NamesStated
<1>11. QED BY <1>2, <1>7, <1>8, <1>9, <1>10 DEF EntryInv, f

LEMMA WidthStated ==
    ASSUME NEW e, EntryInv(e), e.w_width = 0, NEW width \in 1 .. MaxWidth
    PROVE  EntryInv([e EXCEPT !.w_width = width,
                              !.weight_sets = [i \in 1 .. width |-> <<>>]])
<1> DEFINE f == [e EXCEPT !.w_width = width, !.weight_sets = [i \in 1 .. width |-> <<>>]]
<1>1. IsEntry(e) BY DEF EntryInv
<1>2. IsEntry(f) BY <1>1 DEF IsEntry, EntryFields
<1>3. /\ f.w_width = width /\ f.weight_sets = [i \in 1 .. width |-> <<>>]
      /\ f.type_vector = e.type_vector /\ f.length = e.length /\ f.value_sets = e.value_sets
      /\ f.strings = e.strings /\ f.names = e.names /\ f.rows = e.rows
    BY <1>1 DEF IsEntry, EntryFields
<1> HIDE DEF f
<1>4. v_width(f) = v_width(e) BY <1>3 DEF v_width
<1>5. e.length = 0 BY DEF EntryInv, IsSized
<1>6. IsSized(f) BY <1>3, <1>4, <1>5, DistAssumption DEF EntryInv, IsSized
<1>7. ValuesStated(f) BY <1>3, <1>4 DEF EntryInv, ValuesStated
<1>8. WeightsStated(f)
  <2>1. PICK sets : sets = [i \in 1 .. width |-> <<>>] OBVIOUS
  <2>2. sets = [i \in 1 .. width |-> sets[i]] BY <2>1
  <2>3. IsSequence(sets) /\ Len(sets) = width BY DistAssumption, <2>2, FunctionIsSequence
  <2>4. f.weight_sets = sets BY <1>3, <2>1
  <2>5. \A i \in 1 .. width : sets[i] = <<>> BY <2>1
  <2>6. <<>> \in Seq(Nat) BY EmptySeq
  <2>7. QED BY <1>3, <1>5, <2>3, <2>4, <2>5, <2>6, EmptySequence DEF WeightsStated
<1>9. NamesStated(f) BY <1>3, <1>4 DEF EntryInv, NamesStated
<1>10. QED BY <1>2, <1>6, <1>7, <1>8, <1>9 DEF EntryInv, f

LEMMA AliasesStated ==
    ASSUME NEW e, EntryInv(e), v_width(e) # 0, e.w_width # 0
    PROVE  EntryInv([e EXCEPT !.names = [i \in 1 .. (v_width(e) + e.w_width) |-> i]])
<1> DEFINE f == [e EXCEPT !.names = [i \in 1 .. (v_width(e) + e.w_width) |-> i]]
<1>1. IsEntry(e) BY DEF EntryInv
<1>2. IsEntry(f) BY <1>1 DEF IsEntry, EntryFields
<1>3. /\ f.names = [i \in 1 .. (v_width(e) + e.w_width) |-> i]
      /\ f.type_vector = e.type_vector /\ f.w_width = e.w_width /\ f.length = e.length
      /\ f.weight_sets = e.weight_sets /\ f.value_sets = e.value_sets
      /\ f.strings = e.strings /\ f.rows = e.rows
    BY <1>1 DEF IsEntry, EntryFields
<1> HIDE DEF f
<1>4. v_width(f) = v_width(e) BY <1>3 DEF v_width
<1>5. IsSized(f) BY <1>3, <1>4 DEF EntryInv, IsSized
<1>6. WeightsStated(f) BY <1>3 DEF EntryInv, WeightsStated
<1>7. ValuesStated(f) BY <1>3, <1>4 DEF EntryInv, ValuesStated
<1>8. NamesStated(f) BY <1>3, <1>4 DEF NamesStated
<1>9. QED BY <1>2, <1>5, <1>6, <1>7, <1>8 DEF EntryInv, f

LEMMA CellsOf ==
    ASSUME NEW text, LengthOf(text) \in Nat
    PROVE  /\ IsSequence(cells(text)) /\ Len(cells(text)) = LengthOf(text) + 1
           /\ cells(text)[1] = text
<1>1. PICK n \in Nat : n = LengthOf(text) OBVIOUS
<1>2. PICK more : more = [i \in 1 .. n |-> "more"] OBVIOUS
<1>3. more = [i \in 1 .. n |-> more[i]] BY <1>2
<1>4. IsSequence(more) /\ Len(more) = n BY <1>3, FunctionIsSequence
<1>5. IsSequence(<<text>>) /\ Len(<<text>>) = 1 /\ <<text>>[1] = text
  <2>1. <<text>> \in Seq({text}) OBVIOUS
  <2>2. QED BY <2>1 DEF IsSequence
<1>6. cells(text) = <<text>> \o more BY <1>1, <1>2 DEF cells
<1>7. /\ IsSequence(cells(text)) /\ Len(cells(text)) = 1 + n
      /\ Holds(cells(text), 0, <<text>>)
    BY <1>4, <1>5, <1>6, Join
<1>8. cells(text)[0 + 1] = text BY <1>5, <1>7 DEF Holds
<1>9. QED BY <1>1, <1>7, <1>8

\* The cells of the values of a row.
TextOf(values, v) == [i \in 1 .. v |-> cells(values[i])]

LEMMA TextParts ==
    ASSUME NEW v \in Nat, NEW values, \A i \in 1 .. v : LengthOf(values[i]) \in Nat
    PROVE  \A i \in 1 .. v : /\ IsSequence(TextOf(values, v)[i])
                             /\ Len(TextOf(values, v)[i]) = LengthOf(values[i]) + 1
                             /\ TextOf(values, v)[i][1] = values[i]
<1> TAKE i \in 1 .. v
<1>1. TextOf(values, v)[i] = cells(values[i]) BY DEF TextOf
<1>2. QED BY <1>1, CellsOf

\* The offset of a value is the place of its first cell.
LEMMA OffsetIsPlace ==
    ASSUME NEW e, IsSequence(e.strings), NEW v \in Nat, NEW values,
           \A i \in 1 .. v : LengthOf(values[i]) \in Nat, NEW k \in 1 .. v
    PROVE  offsetOf(e, values, k) = Len(e.strings) + Len(Flattened(TextOf(values, v), k - 1))
<1> DEFINE text == TextOf(values, v)
           F(m) == Flattened(text, m)
           next == LET next[j \in 0..(k - 1)] ==
                           IF j = 0 THEN Len(e.strings) ELSE next[j - 1] + (LengthOf(values[j]) + 1)
                   IN  next
<1>1. PICK first \in Nat : first = Len(e.strings) BY Lengths
<1>2. \A i \in 1 .. v : IsSequence(text[i]) /\ Len(text[i]) = LengthOf(values[i]) + 1
    BY TextParts
<1> HIDE DEF text
<1>3. F(0) = <<>> /\ (\A m \in 1 .. v : F(m) = F(m - 1) \o text[m])
      /\ \A m \in 0 .. v : IsSequence(F(m))
    BY <1>2, FlattenedParts
<1> HIDE DEF F
<1>4. PICK g : g = [j \in 0 .. (k - 1) |-> first + Len(F(j))] OBVIOUS
<1>5. ASSUME NEW j \in 1 .. (k - 1)
      PROVE  g[j] = g[j - 1] + (LengthOf(values[j]) + 1) /\ g[j - 1] \in Nat
  <2>1. j \in 1 .. v /\ j - 1 \in 0 .. v /\ j \in 0 .. (k - 1) /\ j - 1 \in 0 .. (k - 1) OBVIOUS
  <2>2. Len(F(j)) = Len(F(j - 1)) + (LengthOf(values[j]) + 1) BY <1>2, <1>3, <2>1, Join
  <2>3. PICK a \in Nat : a = Len(F(j - 1)) BY <1>3, <2>1, Lengths
  <2>4. PICK b \in Nat : b = LengthOf(values[j]) BY <2>1
  <2>5. g[j] = first + Len(F(j)) /\ g[j - 1] = first + Len(F(j - 1)) BY <1>4, <2>1
  <2>6. g[j] = first + (a + (b + 1)) /\ g[j - 1] = first + a BY <2>2, <2>3, <2>4, <2>5
  <2>7. QED BY <2>4, <2>6
<1>6. g[0] = first
  <2>1. 0 \in 0 .. (k - 1) OBVIOUS
  <2>2. g[0] = first + Len(F(0)) BY <1>4, <2>1
  <2>3. QED BY <1>3, <2>2, EmptySequence
<1>7. \E f : f = [j \in 0 .. (k - 1) |->
                      IF j = 0 THEN Len(e.strings) ELSE f[j - 1] + (LengthOf(values[j]) + 1)]
  <2>1. \A j \in 0 .. (k - 1) :
            g[j] = IF j = 0 THEN Len(e.strings) ELSE g[j - 1] + (LengthOf(values[j]) + 1)
    <3> TAKE j \in 0 .. (k - 1)
    <3>1. CASE j = 0 BY <1>1, <1>6, <3>1
    <3>2. CASE j # 0
      <4>1. j \in 1 .. (k - 1) BY <3>2
      <4>2. QED BY <1>5, <3>2, <4>1
    <3>3. QED BY <3>1, <3>2
  <2>2. g = [j \in 0 .. (k - 1) |-> g[j]] BY <1>4
  <2>3. QED BY <2>1, <2>2
<1>8. next = [j \in 0 .. (k - 1) |->
                  IF j = 0 THEN Len(e.strings) ELSE next[j - 1] + (LengthOf(values[j]) + 1)]
    BY <1>7
<1>9. offsetOf(e, values, k) = next[k - 1] BY DEF offsetOf
<1> HIDE DEF next
<1>10. next[0] = g[0] BY <1>1, <1>6, <1>8
<1>11. \A j \in 1 .. (k - 1) : next[j - 1] = g[j - 1] => next[j] = g[j]
  <2> TAKE j \in 1 .. (k - 1)
  <2>1. next[j] = next[j - 1] + (LengthOf(values[j]) + 1) BY <1>8
  <2>2. QED BY <1>5, <2>1
<1>12. k - 1 \in Nat /\ k - 1 \in 0 .. (k - 1) OBVIOUS
<1>13. next[k - 1] = g[k - 1] BY <1>10, <1>11, <1>12, SameSteps
<1>14. QED BY <1>1, <1>4, <1>9, <1>12, <1>13 DEF F, text

LEMMA RowStated ==
    ASSUME NEW e, EntryInv(e), v_width(e) # 0, e.w_width # 0,
           NEW values \in ValueRows, NEW weights \in WeightRows
    PROVE  EntryInv([e EXCEPT
               !.weight_sets = [i \in DOMAIN @ |-> Append(@[i], weights[i])],
               !.value_sets = [i \in DOMAIN @ |-> Append(@[i], offsetOf(e, values, i))],
               !.strings = @ \o FlattenSeq([i \in 1..v_width(e) |-> cells(values[i])]),
               !.length = @ + 1,
               !.rows = Append(@, [values |-> SubSeq(values, 1, v_width(e)),
                                   weights |-> SubSeq(weights, 1, e.w_width)])])
<1> DEFINE row == [values |-> SubSeq(values, 1, v_width(e)),
                   weights |-> SubSeq(weights, 1, e.w_width)]
           wsets == [i \in DOMAIN e.weight_sets |-> Append(e.weight_sets[i], weights[i])]
           vsets == [i \in DOMAIN e.value_sets |-> Append(e.value_sets[i], offsetOf(e, values, i))]
           text == FlattenSeq([i \in 1..v_width(e) |-> cells(values[i])])
           f == [e EXCEPT
                    !.weight_sets = [i \in DOMAIN @ |-> Append(@[i], weights[i])],
                    !.value_sets = [i \in DOMAIN @ |-> Append(@[i], offsetOf(e, values, i))],
                    !.strings = @ \o FlattenSeq([i \in 1..v_width(e) |-> cells(values[i])]),
                    !.length = @ + 1,
                    !.rows = Append(@, [values |-> SubSeq(values, 1, v_width(e)),
                                        weights |-> SubSeq(weights, 1, e.w_width)])]
<1>1. IsEntry(e) BY DEF EntryInv
<1>2. IsEntry(f) BY <1>1 DEF IsEntry, EntryFields
<1>3. /\ f.weight_sets = wsets /\ f.value_sets = vsets /\ f.strings = e.strings \o text
      /\ f.length = e.length + 1 /\ f.rows = Append(e.rows, row)
      /\ f.type_vector = e.type_vector /\ f.w_width = e.w_width /\ f.names = e.names
    BY <1>1 DEF IsEntry, EntryFields
<1> HIDE DEF f
<1>4. PICK v \in Nat : v = v_width(e) BY Lengths DEF EntryInv, IsSized, v_width
<1>5. PICK n \in Nat : n = e.length BY DEF EntryInv, IsSized
<1>6. PICK w \in Nat : w = e.w_width BY DEF EntryInv, IsSized
<1>7. v <= MaxWidth /\ w <= MaxWidth /\ MaxWidth \in Nat /\ v_width(f) = v
    BY <1>3, <1>4, <1>6, DistAssumption DEF EntryInv, IsSized, v_width
<1>8. /\ IsSequence(values) /\ v <= Len(values) /\ IsSequence(weights) /\ w <= Len(weights)
      /\ weights \in Seq(Nat) /\ Len(weights) \in Nat
      /\ \A i \in 1 .. v : LengthOf(values[i]) \in Nat
  <2>1. IsSequence(values) /\ IsSequence(weights) /\ weights \in Seq(Nat)
      BY DistAssumption DEF IsSequence
  <2>2. Len(values) \in Nat /\ DOMAIN values = 1 .. Len(values) /\ Len(weights) \in Nat
      BY <2>1, Lengths
  <2>3. Len(values) >= MaxWidth /\ Len(weights) >= MaxWidth
        /\ \A i \in DOMAIN values : LengthOf(values[i]) \in Nat
      BY DistAssumption
  <2>4. QED BY <1>7, <2>1, <2>2, <2>3
<1>9. /\ \A i \in 1 .. v : row.values[i] = values[i]
      /\ \A i \in 1 .. w : row.weights[i] = weights[i] /\ weights[i] \in Nat
  <2>1. \A i \in 1 .. v : SubSeq(values, 1, v)[i] = values[i] BY <1>8, Beginning
  <2>2. \A i \in 1 .. w : SubSeq(weights, 1, w)[i] = weights[i] BY <1>8, Beginning
  <2>3. \A i \in 1 .. w : weights[i] \in Nat BY <1>8, ElementOfSeq
  <2>4. row.values = SubSeq(values, 1, v) /\ row.weights = SubSeq(weights, 1, w) BY <1>4, <1>6
  <2> HIDE DEF row
  <2>5. QED BY <2>1, <2>2, <2>3, <2>4
<1> HIDE DEF row
<1>10. /\ IsSequence(f.rows) /\ Len(f.rows) = n + 1
       /\ (\A r \in 1 .. n : f.rows[r] = e.rows[r]) /\ f.rows[n + 1] = row
    BY <1>3, <1>5, Appended DEF EntryInv, IsSized
<1>11. PICK t : t = TextOf(values, v) OBVIOUS
<1>12. \A i \in 1 .. v : /\ IsSequence(t[i]) /\ Len(t[i]) = LengthOf(values[i]) + 1
                         /\ t[i][1] = values[i]
    BY <1>8, <1>11, TextParts
<1>13. text = Flattened(t, v)
  <2>1. t = [i \in 1 .. v |-> t[i]] BY <1>11 DEF TextOf
  <2>2. IsSequence(t) /\ Len(t) = v BY <2>1, FunctionIsSequence
  <2>3. text = FlattenSeq(t) BY <1>4, <1>11 DEF TextOf
  <2>4. QED BY <2>2, <2>3, AllParts
<1> HIDE DEF text
<1>14. IsSequence(text) /\ IsSequence(e.strings)
  <2>1. v \in 0 .. v OBVIOUS
  <2>2. QED BY <1>12, <1>13, <2>1, FlattenedParts DEF EntryInv, IsSized
<1>15. /\ IsSequence(f.strings) /\ Len(f.strings) = Len(e.strings) + Len(text)
       /\ Holds(f.strings, 0, e.strings) /\ Holds(f.strings, Len(e.strings), text)
    BY <1>3, <1>14, Join
<1>16. Len(text) \in Nat /\ Len(e.strings) \in Nat BY <1>14, Lengths
<1>17. IsSized(f)
    BY <1>3, <1>4, <1>5, <1>6, <1>7, <1>10, <1>15 DEF EntryInv, IsSized, v_width
<1>18. WeightsStated(f)
  <2>1. WeightsStated(e) BY DEF EntryInv
  <2>2. IsSequence(e.weight_sets) /\ Len(e.weight_sets) = w BY <1>6, <2>1 DEF WeightsStated
  <2>3. wsets = [i \in 1 .. w |-> Append(e.weight_sets[i], weights[i])] BY <2>2, Lengths
  <2>4. PICK sets : sets = wsets OBVIOUS
  <2>5. sets = [i \in 1 .. w |-> sets[i]] BY <2>3, <2>4
  <2>6. IsSequence(sets) /\ Len(sets) = w BY <2>5, FunctionIsSequence
  <2>7. ASSUME NEW i \in 1 .. w
        PROVE  /\ sets[i] \in Seq(Nat) /\ Len(sets[i]) = n + 1
               /\ \A r \in 1 .. (n + 1) : sets[i][r] = f.rows[r].weights[i]
    <3>1. sets[i] = Append(e.weight_sets[i], weights[i]) BY <2>3, <2>4
    <3>2. /\ e.weight_sets[i] \in Seq(Nat) /\ Len(e.weight_sets[i]) = n
          /\ \A r \in 1 .. n : e.weight_sets[i][r] = e.rows[r].weights[i]
        BY <1>5, <1>6, <2>1 DEF WeightsStated
    <3>3. /\ sets[i] \in Seq(Nat) /\ Len(sets[i]) = n + 1
          /\ (\A r \in 1 .. n : sets[i][r] = e.weight_sets[i][r]) /\ sets[i][n + 1] = weights[i]
        BY <1>9, <3>1, <3>2, AppendProperties
    <3>4. ASSUME NEW r \in 1 .. (n + 1) PROVE sets[i][r] = f.rows[r].weights[i]
      <4>1. CASE r = n + 1 BY <1>9, <1>10, <3>3, <4>1
      <4>2. CASE r # n + 1
        <5>1. r \in 1 .. n BY <4>2
        <5>2. QED BY <1>10, <3>2, <3>3, <5>1
      <4>3. QED BY <4>1, <4>2
    <3>5. QED BY <3>3, <3>4
  <2> HIDE DEF wsets
  <2>8. QED BY <1>3, <1>5, <1>6, <2>4, <2>6, <2>7 DEF WeightsStated
<1>19. ValuesStated(f)
  <2>1. ValuesStated(e) BY DEF EntryInv
  <2>2. IsSequence(e.value_sets) /\ Len(e.value_sets) = v BY <1>4, <2>1 DEF ValuesStated
  <2>3. vsets = [i \in 1 .. v |-> Append(e.value_sets[i], offsetOf(e, values, i))]
      BY <2>2, Lengths
  <2>4. PICK sets : sets = vsets OBVIOUS
  <2>5. sets = [i \in 1 .. v |-> sets[i]] BY <2>3, <2>4
  <2>6. IsSequence(sets) /\ Len(sets) = v BY <2>5, FunctionIsSequence
  <2>7. ASSUME NEW i \in 1 .. v
        PROVE  /\ IsSequence(sets[i]) /\ Len(sets[i]) = n + 1
               /\ \A r \in 1 .. (n + 1) :
                    /\ sets[i][r] \in Nat /\ sets[i][r] + 1 <= Len(f.strings)
                    /\ f.strings[sets[i][r] + 1] = f.rows[r].values[i]
    <3>1. sets[i] = Append(e.value_sets[i], offsetOf(e, values, i)) BY <2>3, <2>4
    <3>2. /\ IsSequence(e.value_sets[i]) /\ Len(e.value_sets[i]) = n
          /\ \A r \in 1 .. n : /\ e.value_sets[i][r] \in Nat
                               /\ e.value_sets[i][r] + 1 <= Len(e.strings)
                               /\ e.strings[e.value_sets[i][r] + 1] = e.rows[r].values[i]
        BY <1>4, <1>5, <2>1 DEF ValuesStated
    <3>3. /\ IsSequence(sets[i]) /\ Len(sets[i]) = n + 1
          /\ \A r \in 1 .. n : sets[i][r] = e.value_sets[i][r]
          /\ sets[i][n + 1] = offsetOf(e, values, i)
        BY <3>1, <3>2, Appended
    <3>4. PICK p : p = Len(Flattened(t, i - 1)) OBVIOUS
    <3>5. offsetOf(e, values, i) = Len(e.strings) + p
        BY <1>8, <1>11, <1>14, <3>4, OffsetIsPlace
    <3>6. p \in Nat
      <4>1. i - 1 \in 0 .. v OBVIOUS
      <4>2. IsSequence(Flattened(t, i - 1)) BY <1>12, <4>1, FlattenedParts
      <4>3. QED BY <3>4, <4>2, Lengths
    <3>7. Holds(text, p, t[i]) BY <1>12, <1>13, <3>4, PartHeld
    <3>8. Holds(f.strings, Len(e.strings) + p, t[i])
        BY <1>12, <1>14, <1>15, <1>16, <3>6, <3>7, Within
    <3>9. PICK o \in Nat : o = Len(e.strings) + p BY <1>16, <3>6
    <3>10. o + 1 <= Len(f.strings) /\ f.strings[o + 1] = values[i]
      <4>1. Len(t[i]) \in Nat /\ Len(t[i]) >= 1 /\ t[i][1] = values[i] BY <1>8, <1>12
      <4>2. Len(f.strings) \in Nat BY <1>15, Lengths
      <4>3. QED BY <3>8, <3>9, <4>1, <4>2 DEF Holds
    <3>11. ASSUME NEW r \in 1 .. (n + 1)
           PROVE  /\ sets[i][r] \in Nat /\ sets[i][r] + 1 <= Len(f.strings)
                  /\ f.strings[sets[i][r] + 1] = f.rows[r].values[i]
      <4>1. CASE r = n + 1 BY <1>9, <1>10, <3>3, <3>5, <3>9, <3>10, <4>1
      <4>2. CASE r # n + 1
        <5>1. r \in 1 .. n BY <4>2
        <5>2. PICK q \in Nat : q = e.value_sets[i][r] BY <3>2, <5>1
        <5>3. q + 1 <= Len(e.strings) /\ e.strings[q + 1] = e.rows[r].values[i] BY <3>2, <5>1, <5>2
        <5>4. q + 1 \in 1 .. Len(e.strings) BY <1>16, <5>3
        <5>5. f.strings[0 + (q + 1)] = e.strings[q + 1] BY <1>15, <5>4 DEF Holds
        <5>6. 0 + (q + 1) = q + 1 OBVIOUS
        <5>7. q + 1 <= Len(f.strings) BY <1>15, <1>16, <5>3
        <5>8. sets[i][r] = q /\ f.rows[r] = e.rows[r] BY <1>10, <3>3, <5>1, <5>2
        <5>9. QED BY <5>3, <5>5, <5>6, <5>7, <5>8
      <4>3. QED BY <4>1, <4>2
    <3>12. QED BY <3>3, <3>11
  <2> HIDE DEF vsets
  <2>8. QED BY <1>3, <1>5, <1>7, <2>4, <2>6, <2>7 DEF ValuesStated
<1>20. NamesStated(f) BY <1>3, <1>4, <1>7 DEF EntryInv, NamesStated
<1>21. QED BY <1>2, <1>17, <1>18, <1>19, <1>20 DEF EntryInv, f

(***************************************************************************)
(* What is written is read.                                                *)
(***************************************************************************)
AliasCells(e) == [i \in DOMAIN e.names |-> <<e.names[i], "more">>]
\* Where the parts of an entry are in its body.
IsBody(b, e, v, w, n, space) ==
    /\ IsSequence(b)
    /\ Holds(b, 0, e.type_vector)
    /\ \A i \in 1 .. w : Holds(b, v + (i - 1) * n, e.weight_sets[i])
    /\ \A i \in 1 .. v : Holds(b, (v + w * n) + (i - 1) * n, e.value_sets[i])
    /\ \E aliases : /\ IsSequence(aliases) /\ Len(aliases) = space
                    /\ Holds(b, (v + w * n) + v * n, aliases)
                    /\ \A i \in 1 .. Len(e.names) : aliases[2 * i - 1] = e.names[i]
    /\ Holds(b, ((v + w * n) + v * n) + space, e.strings)

LEMMA AliasesOf ==
    ASSUME NEW e, IsSequence(e.names)
    PROVE  /\ IsSequence(FlattenSeq(AliasCells(e)))
           /\ Len(FlattenSeq(AliasCells(e))) = 2 * Len(e.names)
           /\ \A i \in 1 .. Len(e.names) : FlattenSeq(AliasCells(e))[2 * i - 1] = e.names[i]
<1>1. PICK a : a = AliasCells(e) OBVIOUS
<1>2. PICK n \in Nat : n = Len(e.names) BY Lengths
<1>3. DOMAIN e.names = 1 .. n BY <1>2, Lengths
<1>4. a = [i \in 1 .. n |-> <<e.names[i], "more">>] BY <1>1, <1>3 DEF AliasCells
<1>5. a = [i \in 1 .. n |-> a[i]] BY <1>4
<1>6. IsSequence(a) /\ Len(a) = n BY <1>5, FunctionIsSequence
<1>7. ASSUME NEW i \in 1 .. n
      PROVE  IsSequence(a[i]) /\ Len(a[i]) = 2 /\ a[i][1] = e.names[i]
  <2>1. PICK x : x = e.names[i] OBVIOUS
  <2>2. a[i] = <<x, "more">> BY <1>4, <2>1
  <2>3. PICK Y : Y = {x, "more"} OBVIOUS
  <2>4. <<x, "more">> \in Seq(Y) /\ Len(<<x, "more">>) = 2 /\ <<x, "more">>[1] = x BY <2>3
  <2>5. QED BY <2>1, <2>2, <2>4 DEF IsSequence
<1>8. PICK f : f = FlattenSeq(a) OBVIOUS
<1>9. f = Flattened(a, n) BY <1>6, <1>8, AllParts
<1>10. Len(f) = n * 2 /\ \A k \in 1 .. n : Holds(f, (k - 1) * 2, a[k])
  <2>1. PICK size \in Nat : size = 2 OBVIOUS
  <2>2. \A i \in 1 .. n : IsSequence(a[i]) /\ Len(a[i]) = size BY <1>7, <2>1
  <2>3. Len(f) = n * size /\ \A k \in 1 .. n : Holds(f, (k - 1) * size, a[k])
      BY <1>9, <2>2, EvenParts
  <2>4. QED BY <2>1, <2>3
<1>11. IsSequence(f)
  <2>1. n \in 0 .. n BY <1>2
  <2>2. QED BY <1>7, <1>9, <2>1, FlattenedParts
<1>12. ASSUME NEW i \in 1 .. n PROVE f[2 * i - 1] = e.names[i]
  <2>1. Holds(f, (i - 1) * 2, a[i]) /\ Len(a[i]) = 2 /\ a[i][1] = e.names[i] BY <1>7, <1>10
  <2>2. f[(i - 1) * 2 + 1] = a[i][1] BY <2>1 DEF Holds
  <2>3. (i - 1) * 2 + 1 = 2 * i - 1 OBVIOUS
  <2>4. QED BY <2>1, <2>2, <2>3
<1>13. n * 2 = 2 * n OBVIOUS
<1>14. QED BY <1>1, <1>2, <1>8, <1>10, <1>11, <1>12, <1>13

LEMMA BodyHolds ==
    ASSUME NEW e, EntryInv(e)
    PROVE  IsBody(body(e), e, v_width(e), e.w_width, e.length, 2 * Len(e.names))
<1>1. PICK v \in Nat : v = v_width(e) BY Lengths DEF EntryInv, IsSized, v_width
<1>2. PICK w \in Nat : w = e.w_width BY DEF EntryInv, IsSized
<1>3. PICK n \in Nat : n = e.length BY DEF EntryInv, IsSized
<1>4. IsSequence(e.names) /\ Len(e.names) \in Nat
  <2>1. CASE e.names = <<>> BY <2>1, EmptySequence
  <2>2. CASE e.names # <<>>
    <3>1. PICK m \in Nat : m = v + w OBVIOUS
    <3>2. e.names = [i \in 1 .. m |-> i] BY <1>1, <1>2, <2>2, <3>1 DEF EntryInv, NamesStated
    <3>3. e.names = [i \in 1 .. m |-> e.names[i]] BY <3>2
    <3>4. QED BY <3>1, <3>3, FunctionIsSequence
  <2>3. QED BY <2>1, <2>2
<1>5. PICK space \in Nat : space = 2 * Len(e.names) BY <1>4
<1>6. PICK ws \in Nat : ws = w * n BY SMT
<1>7. PICK vs \in Nat : vs = v * n BY SMT
<1>8. PICK T : T = e.type_vector OBVIOUS
<1>9. PICK W : W = FlattenSeq(e.weight_sets) OBVIOUS
<1>10. PICK V : V = FlattenSeq(e.value_sets) OBVIOUS
<1>11. PICK A : A = FlattenSeq(AliasCells(e)) OBVIOUS
<1>12. PICK S : S = e.strings OBVIOUS
<1>13. body(e) = T \o W \o V \o A \o S
    BY <1>8, <1>9, <1>10, <1>11, <1>12 DEF body, AliasCells
<1>14. IsSequence(T) /\ Len(T) = v /\ IsSequence(S)
    BY <1>1, <1>8, <1>12 DEF EntryInv, IsSized, v_width
<1>15. /\ IsSequence(W) /\ Len(W) = ws
       /\ \A i \in 1 .. w : /\ IsSequence(e.weight_sets[i]) /\ Len(e.weight_sets[i]) = n
                            /\ Holds(W, (i - 1) * n, e.weight_sets[i])
  <2>1. IsSequence(e.weight_sets) /\ Len(e.weight_sets) = w
      BY <1>2 DEF EntryInv, WeightsStated
  <2>2. \A i \in 1 .. w : IsSequence(e.weight_sets[i]) /\ Len(e.weight_sets[i]) = n
      BY <1>2, <1>3 DEF EntryInv, WeightsStated, IsSequence
  <2>3. W = Flattened(e.weight_sets, w) BY <1>9, <2>1, AllParts
  <2>4. w \in 0 .. w OBVIOUS
  <2>5. IsSequence(W) BY <2>2, <2>3, <2>4, FlattenedParts
  <2>6. Len(W) = w * n /\ \A i \in 1 .. w : Holds(W, (i - 1) * n, e.weight_sets[i])
      BY <2>2, <2>3, EvenParts
  <2>7. QED BY <1>6, <2>2, <2>5, <2>6
<1>16. /\ IsSequence(V) /\ Len(V) = vs
       /\ \A i \in 1 .. v : /\ IsSequence(e.value_sets[i]) /\ Len(e.value_sets[i]) = n
                            /\ Holds(V, (i - 1) * n, e.value_sets[i])
  <2>1. IsSequence(e.value_sets) /\ Len(e.value_sets) = v
      BY <1>1 DEF EntryInv, ValuesStated
  <2>2. \A i \in 1 .. v : IsSequence(e.value_sets[i]) /\ Len(e.value_sets[i]) = n
      BY <1>1, <1>3 DEF EntryInv, ValuesStated
  <2>3. V = Flattened(e.value_sets, v) BY <1>10, <2>1, AllParts
  <2>4. v \in 0 .. v OBVIOUS
  <2>5. IsSequence(V) BY <2>2, <2>3, <2>4, FlattenedParts
  <2>6. Len(V) = v * n /\ \A i \in 1 .. v : Holds(V, (i - 1) * n, e.value_sets[i])
      BY <2>2, <2>3, EvenParts
  <2>7. QED BY <1>7, <2>2, <2>5, <2>6
<1>17. /\ IsSequence(A) /\ Len(A) = space
       /\ \A i \in 1 .. Len(e.names) : A[2 * i - 1] = e.names[i]
    BY <1>4, <1>5, <1>11, AliasesOf
\* The joins, from the left.
<1>18. PICK TW : TW = T \o W OBVIOUS
<1>19. PICK TV : TV = TW \o V OBVIOUS
<1>20. PICK TA : TA = TV \o A OBVIOUS
<1>21. PICK b : b = TA \o S OBVIOUS
<1>22. b = body(e) BY <1>13, <1>18, <1>19, <1>20, <1>21
<1>23. IsSequence(TW) /\ Len(TW) = v + ws /\ Holds(TW, 0, T) /\ Holds(TW, v, W)
    BY <1>14, <1>15, <1>18, Join
<1>24. IsSequence(TV) /\ Len(TV) = (v + ws) + vs /\ Holds(TV, 0, TW) /\ Holds(TV, v + ws, V)
    BY <1>16, <1>19, <1>23, Join
<1>25. /\ IsSequence(TA) /\ Len(TA) = ((v + ws) + vs) + space
       /\ Holds(TA, 0, TV) /\ Holds(TA, (v + ws) + vs, A)
    BY <1>17, <1>20, <1>24, Join
<1>26. IsSequence(b) /\ Holds(b, 0, TA) /\ Holds(b, ((v + ws) + vs) + space, S)
    BY <1>14, <1>21, <1>25, Join
<1>27. ASSUME NEW x, IsSequence(x), NEW p \in Nat, Holds(TA, p, x) PROVE Holds(b, p, x)
  <2>1. Holds(b, 0 + p, x) BY <1>25, <1>26, <1>27, Within
  <2>2. 0 + p = p OBVIOUS
  <2>3. QED BY <2>1, <2>2
<1>28. ASSUME NEW x, IsSequence(x), NEW p \in Nat, Holds(TV, p, x) PROVE Holds(b, p, x)
  <2>1. Holds(TA, 0 + p, x) BY <1>24, <1>25, <1>28, Within
  <2>2. 0 + p = p OBVIOUS
  <2>3. QED BY <1>27, <1>28, <2>1, <2>2
<1>29. ASSUME NEW x, IsSequence(x), NEW p \in Nat, Holds(TW, p, x) PROVE Holds(b, p, x)
  <2>1. Holds(TV, 0 + p, x) BY <1>23, <1>24, <1>29, Within
  <2>2. 0 + p = p OBVIOUS
  <2>3. QED BY <1>28, <1>29, <2>1, <2>2
<1>30. Holds(b, 0, T) BY <1>14, <1>23, <1>29
<1>31. ASSUME NEW i \in 1 .. w PROVE Holds(b, v + (i - 1) * n, e.weight_sets[i])
  <2>1. PICK p \in Nat : p = (i - 1) * n
    <3>1. i - 1 \in Nat OBVIOUS
    <3>2. (i - 1) * n \in Nat BY <3>1, SMT
    <3>3. QED BY <3>2
  <2>2. IsSequence(e.weight_sets[i]) /\ Holds(W, p, e.weight_sets[i]) BY <1>15, <2>1
  <2>3. Holds(TW, v + p, e.weight_sets[i]) BY <1>15, <1>23, <2>2, Within
  <2>4. v + p \in Nat OBVIOUS
  <2>5. QED BY <1>29, <2>1, <2>2, <2>3, <2>4
<1>32. ASSUME NEW i \in 1 .. v PROVE Holds(b, (v + w * n) + (i - 1) * n, e.value_sets[i])
  <2>1. PICK p \in Nat : p = (i - 1) * n
    <3>1. i - 1 \in Nat OBVIOUS
    <3>2. (i - 1) * n \in Nat BY <3>1, SMT
    <3>3. QED BY <3>2
  <2>2. IsSequence(e.value_sets[i]) /\ Holds(V, p, e.value_sets[i]) BY <1>16, <2>1
  <2>3. v + ws \in Nat OBVIOUS
  <2>4. Holds(TV, (v + ws) + p, e.value_sets[i]) BY <1>16, <1>24, <2>2, <2>3, Within
  <2>5. (v + ws) + p \in Nat OBVIOUS
  <2>6. QED BY <1>6, <1>28, <2>1, <2>2, <2>4, <2>5
<1>33. Holds(b, (v + ws) + vs, A)
  <2>1. (v + ws) + vs \in Nat OBVIOUS
  <2>2. QED BY <1>17, <1>25, <1>27, <2>1
<1>34. IsBody(b, e, v, w, n, space)
  <2>1. \E aliases : /\ IsSequence(aliases) /\ Len(aliases) = space
                     /\ Holds(b, (v + w * n) + v * n, aliases)
                     /\ \A i \in 1 .. Len(e.names) : aliases[2 * i - 1] = e.names[i]
      BY <1>6, <1>7, <1>17, <1>33
  <2>2. Holds(b, ((v + w * n) + v * n) + space, e.strings) BY <1>6, <1>7, <1>12, <1>26
  <2>3. QED BY <1>8, <1>26, <1>30, <1>31, <1>32, <2>1, <2>2 DEF IsBody
<1>35. QED BY <1>1, <1>2, <1>3, <1>5, <1>22, <1>34

\* The entries stated so far; of two names that are the same to strcasecmp the
\* later one was truncated.
EntriesInv ==
    /\ IsSequence(xEntries)
    /\ \A n \in 1 .. Len(xEntries) : EntryInv(xEntries[n])
    /\ \A m, n \in 1 .. Len(xEntries) :
         m < n /\ Folded(xEntries[m].name) = Folded(xEntries[n].name) =>
             xEntries[n].title # xEntries[n].name
FileOf ==
    <<Len(xEntries)>> \o bodies(Len(xEntries)) \o [n \in DOMAIN xEntries |-> indexEntry(n)]
HeaderOf ==
    [n \in DOMAIN xEntries |-> [i \in DOMAIN xEntries[n].names |-> defined(xEntries[n], i)]]

\* Every body lies where its entry of the index says, and the index at the end.
LEMMA FileHolds ==
    ASSUME EntriesInv, xEntries # <<>>, xFile = FileOf
    PROVE  /\ IsSequence(xFile) /\ xFile[1] = Len(xEntries)
           /\ Len(xFile) - Len(xEntries) \in Nat
           /\ \A k \in 1 .. Len(xEntries) :
                /\ xFile[(Len(xFile) - Len(xEntries)) + k] = indexEntry(k)
                /\ indexEntry(k).offset \in Nat
                /\ Holds(xFile, indexEntry(k).offset, body(xEntries[k]))
<1>1. IsSequence(xEntries) /\ DOMAIN xEntries = 1 .. Len(xEntries) BY Lengths DEF EntriesInv
<1>2. PICK size \in Nat : size = Len(xEntries) BY <1>1, Lengths
<1>3. PICK bs : bs = [i \in 1 .. size |-> body(xEntries[i])] OBVIOUS
<1>4. \A i \in 1 .. size : IsSequence(bs[i]) /\ bs[i] = body(xEntries[i])
    BY <1>2, <1>3, BodyHolds DEF EntriesInv, IsBody
<1>5. \A m \in 0 .. size : bodies(m) = Flattened(bs, m)
  <2> TAKE m \in 0 .. size
  <2>1. Parts(bs, m) = [i \in 1 .. m |-> body(xEntries[i])] BY <1>4 DEF Parts
  <2>2. QED BY <2>1 DEF bodies, Flattened
<1>6. PICK B : B = bodies(size) OBVIOUS
<1>7. IsSequence(B) /\ B = Flattened(bs, size)
  <2>1. size \in 0 .. size OBVIOUS
  <2>2. QED BY <1>4, <1>5, <1>6, <2>1, FlattenedParts
<1>8. PICK index : index = [n \in 1 .. size |-> indexEntry(n)] OBVIOUS
<1>9. IsSequence(index) /\ Len(index) = size
  <2>1. index = [n \in 1 .. size |-> index[n]] BY <1>8
  <2>2. QED BY <2>1, FunctionIsSequence
<1>10. PICK first : first = <<size>> OBVIOUS
<1>11. IsSequence(first) /\ Len(first) = 1 /\ first[1] = size
  <2>1. first \in Seq(Nat) BY <1>10
  <2>2. QED BY <1>10, <2>1 DEF IsSequence
<1>12. xFile = first \o B \o index BY <1>1, <1>2, <1>6, <1>8, <1>10 DEF FileOf
<1>13. PICK front : front = first \o B OBVIOUS
<1>14. /\ IsSequence(front) /\ Len(front) = 1 + Len(B)
       /\ Holds(front, 0, first) /\ Holds(front, 1, B)
    BY <1>7, <1>11, <1>13, Join
<1>15. /\ IsSequence(xFile) /\ Len(xFile) = Len(front) + size
       /\ Holds(xFile, 0, front) /\ Holds(xFile, Len(front), index)
    BY <1>9, <1>12, <1>13, <1>14, Join
<1>16. Len(front) \in Nat /\ Len(B) \in Nat BY <1>7, <1>14, Lengths
<1>17. xFile[1] = size
  <2>1. Holds(xFile, 0 + 0, first) BY <1>11, <1>14, <1>15, Within
  <2>2. xFile[(0 + 0) + 1] = first[1] BY <1>11, <2>1 DEF Holds
  <2>3. QED BY <1>11, <2>2
<1>18. Len(xFile) - size = Len(front) BY <1>15, <1>16
<1>19. ASSUME NEW k \in 1 .. size
       PROVE  /\ xFile[Len(front) + k] = indexEntry(k) /\ indexEntry(k).offset \in Nat
              /\ Holds(xFile, indexEntry(k).offset, body(xEntries[k]))
  <2>1. xFile[Len(front) + k] = index[k] BY <1>9, <1>15 DEF Holds
  <2>2. index[k] = indexEntry(k) BY <1>8
  <2>3. PICK o : o = Len(bodies(k - 1)) OBVIOUS
  <2>4. indexEntry(k).offset = 1 + o BY <2>3 DEF indexEntry
  <2>5. k - 1 \in 0 .. size OBVIOUS
  <2>6. o = Len(Flattened(bs, k - 1)) BY <1>5, <2>3, <2>5
  <2>7. IsSequence(Flattened(bs, k - 1)) BY <1>4, <2>5, FlattenedParts
  <2>8. o \in Nat BY <2>6, <2>7, Lengths
  <2>9. Holds(B, o, bs[k]) BY <1>4, <1>7, <2>6, PartHeld
  <2>10. Holds(front, 1 + o, bs[k]) BY <1>4, <1>7, <1>14, <2>8, <2>9, Within
  <2>11. 1 + o \in Nat /\ 0 + (1 + o) = 1 + o BY <2>8
  <2>12. Holds(xFile, 0 + (1 + o), bs[k]) BY <1>4, <1>14, <1>15, <2>10, <2>11, Within
  <2>13. QED BY <1>4, <2>1, <2>2, <2>4, <2>11, <2>12
<1>20. QED BY <1>2, <1>15, <1>16, <1>17, <1>18, <1>19

\* The index is searched for the name.
LEMMA FoundInIndex ==
    ASSUME EntriesInv, xEntries # <<>>, xFile = FileOf, NEW name, NEW di \in find_dist(name)
    PROVE  \E k \in 1 .. Len(xEntries) : di = indexEntry(k)
<1>1. PICK size \in Nat : size = Len(xEntries) BY Lengths DEF EntriesInv
<1>2. PICK front \in Nat : front = Len(xFile) - size BY <1>1, FileHolds
<1>3. xFile[1] = size /\ IsSequence(xFile) BY <1>1, FileHolds
<1>4. PICK last \in Nat : last = Len(xFile) BY <1>3, Lengths
<1>5. \A n \in 1 .. size : xFile[front + n] = indexEntry(n) BY <1>1, <1>2, FileHolds
<1>6. PICK i \in (last - size + 1) .. last : di = xFile[i] BY <1>3, <1>4 DEF find_dist
<1>7. PICK n \in 1 .. size : i = front + n
  <2>1. i - front \in 1 .. size /\ i = front + (i - front) BY <1>2, <1>4
  <2>2. QED BY <2>1
<1>8. QED BY <1>1, <1>5, <1>6, <1>7

\* What is read is an entry.
IsRead(d, e) ==
    /\ d.name = e.name /\ d.length = e.length /\ d.type_vector = e.type_vector
    /\ d.weight_sets = [i \in 1 .. e.w_width |-> upTo(e.weight_sets[i])]
    /\ d.value_sets = [i \in 1 .. v_width(e) |-> e.value_sets[i]]
    /\ d.names = [i \in 1 .. Len(e.names) |-> e.names[i]]
    /\ d.strings = e.strings

LEMMA ReadBehind ==
    ASSUME NEW s, NEW b, NEW t, IsSequence(s), IsSequence(b), IsSequence(t),
           NEW o \in Nat, NEW p \in Nat, Holds(s, o, b), Holds(b, p, t)
    PROVE  SubSeq(s, o + p + 1, o + p + Len(t)) = t
<1>1. Holds(s, o + p, t) /\ o + p \in Nat BY Within
<1>2. QED BY <1>1, ReadPart

LEMMA ReadsEntry ==
    ASSUME EntriesInv, xFile = FileOf, NEW k \in 1 .. Len(xEntries)
    PROVE  IsRead(load_dist(indexEntry(k)), xEntries[k])
<1>1. xEntries # <<>> BY EmptySequence
<1>2. PICK e : e = xEntries[k] OBVIOUS
<1>3. EntryInv(e) BY <1>2 DEF EntriesInv
<1>4. PICK di : di = indexEntry(k) OBVIOUS
<1>5. PICK v \in Nat : v = v_width(e) BY <1>3, Lengths DEF EntryInv, IsSized, v_width
<1>6. PICK w \in Nat : w = e.w_width BY <1>3 DEF EntryInv, IsSized
<1>7. PICK n \in Nat : n = e.length BY <1>3 DEF EntryInv, IsSized
<1>8. PICK m \in Nat : m = Len(e.names)
  <2>1. CASE e.names = <<>> BY <2>1, EmptySequence
  <2>2. CASE e.names # <<>>
    <3>1. PICK both \in Nat : both = v + w OBVIOUS
    <3>2. e.names = [i \in 1 .. both |-> i] BY <1>3, <1>5, <1>6, <2>2, <3>1 DEF EntryInv, NamesStated
    <3>3. e.names = [i \in 1 .. both |-> e.names[i]] BY <3>2
    <3>4. QED BY <3>1, <3>3, FunctionIsSequence
  <2>3. QED BY <2>1, <2>2
<1>9. PICK o \in Nat : o = di.offset BY <1>1, <1>4, FileHolds
<1>10. PICK b : b = body(e) OBVIOUS
<1>11. IsSequence(xFile) /\ Holds(xFile, o, b) BY <1>1, <1>2, <1>4, <1>9, <1>10, FileHolds
<1>12. PICK space \in Nat : space = 2 * m OBVIOUS
<1>13. IsBody(b, e, v, w, n, space) BY <1>3, <1>5, <1>6, <1>7, <1>8, <1>10, <1>12, BodyHolds
<1>14. /\ di.name = e.name /\ di.length = n /\ di.w_width = w /\ di.v_width = v
       /\ di.name_space = space /\ di.str_space = Len(e.strings)
    BY <1>2, <1>4, <1>5, <1>6, <1>7, <1>8, <1>12 DEF indexEntry
<1>15. PICK ws \in Nat : ws = w * n BY SMT
<1>16. PICK vs \in Nat : vs = v * n BY SMT
<1>17. PICK d : d = load_dist(di) OBVIOUS
<1>18. IsSequence(b) BY <1>13 DEF IsBody
<1>19. d.name = e.name /\ d.length = e.length BY <1>7, <1>14, <1>17 DEF load_dist
<1>20. d.type_vector = e.type_vector
  <2>1. PICK p \in Nat : p = 0 OBVIOUS
  <2>2. d.type_vector = SubSeq(xFile, o + p + 1, o + p + v) BY <1>9, <1>14, <1>17, <2>1 DEF load_dist
  <2>3. PICK t : t = e.type_vector OBVIOUS
  <2>4. IsSequence(t) /\ Len(t) = v /\ Holds(b, p, t)
      BY <1>3, <1>5, <1>13, <2>1, <2>3 DEF EntryInv, IsSized, v_width, IsBody
  <2>5. SubSeq(xFile, o + p + 1, o + p + Len(t)) = t BY <1>11, <1>18, <2>4, ReadBehind
  <2>6. QED BY <2>2, <2>3, <2>4, <2>5
<1>21. d.weight_sets = [i \in 1 .. w |-> upTo(e.weight_sets[i])]
  <2>1. d.weight_sets = [i \in 1 .. w |-> upTo(SubSeq(xFile, o + (v + (i - 1) * n) + 1,
                                                           o + (v + (i - 1) * n) + n))]
      BY <1>9, <1>14, <1>17 DEF load_dist
  <2>2. ASSUME NEW i \in 1 .. w
        PROVE  SubSeq(xFile, o + (v + (i - 1) * n) + 1, o + (v + (i - 1) * n) + n) = e.weight_sets[i]
    <3>1. PICK p \in Nat : p = v + (i - 1) * n
      <4>1. i - 1 \in Nat OBVIOUS
      <4>2. (i - 1) * n \in Nat BY <4>1, SMT
      <4>3. QED BY <4>2
    <3>2. /\ IsSequence(e.weight_sets[i]) /\ Len(e.weight_sets[i]) = n
          /\ Holds(b, p, e.weight_sets[i])
        BY <1>3, <1>6, <1>7, <1>13, <3>1 DEF EntryInv, WeightsStated, IsBody, IsSequence
    <3>3. SubSeq(xFile, o + p + 1, o + p + n) = e.weight_sets[i]
        BY <1>11, <1>18, <3>2, ReadBehind
    <3>4. QED BY <3>1, <3>3
  <2>3. QED BY <2>1, <2>2
<1>22. d.value_sets = [i \in 1 .. v |-> e.value_sets[i]]
  <2>1. d.value_sets = [i \in 1 .. v |-> SubSeq(xFile, o + ((v + w * n) + (i - 1) * n) + 1,
                                                     o + ((v + w * n) + (i - 1) * n) + n)]
      BY <1>9, <1>14, <1>17 DEF load_dist
  <2>2. ASSUME NEW i \in 1 .. v
        PROVE  SubSeq(xFile, o + ((v + w * n) + (i - 1) * n) + 1,
                             o + ((v + w * n) + (i - 1) * n) + n) = e.value_sets[i]
    <3>1. PICK p \in Nat : p = (v + w * n) + (i - 1) * n
      <4>1. i - 1 \in Nat OBVIOUS
      <4>2. PICK q \in Nat : q = (i - 1) * n BY <4>1, SMT
      <4>3. (v + ws) + q \in Nat OBVIOUS
      <4>4. QED BY <1>15, <4>2, <4>3
    <3>2. /\ IsSequence(e.value_sets[i]) /\ Len(e.value_sets[i]) = n
          /\ Holds(b, p, e.value_sets[i])
        BY <1>3, <1>5, <1>7, <1>13, <3>1 DEF EntryInv, ValuesStated, IsBody
    <3>3. SubSeq(xFile, o + p + 1, o + p + n) = e.value_sets[i]
        BY <1>11, <1>18, <3>2, ReadBehind
    <3>4. QED BY <3>1, <3>3
  <2>3. QED BY <2>1, <2>2
<1>23. d.names = [i \in 1 .. m |-> e.names[i]]
  <2>1. PICK p \in Nat : p = (v + w * n) + v * n BY <1>15, <1>16
  <2>2. d.names = [i \in 1 .. (space \div 2) |-> SubSeq(xFile, o + p + 1, o + p + space)[2 * i - 1]]
      BY <1>9, <1>14, <1>17, <2>1 DEF load_dist
  <2>3. space \div 2 = m BY <1>12
  <2>4. PICK a : /\ IsSequence(a) /\ Len(a) = space /\ Holds(b, p, a)
                 /\ \A i \in 1 .. m : a[2 * i - 1] = e.names[i]
      BY <1>8, <1>13, <2>1 DEF IsBody
  <2>5. SubSeq(xFile, o + p + 1, o + p + Len(a)) = a
    <3>1. IsSequence(a) /\ Holds(b, p, a) BY <2>4
    <3>2. QED BY <1>11, <1>18, <3>1, ReadBehind
  <2>6. SubSeq(xFile, o + p + 1, o + p + space) = a BY <2>4, <2>5
  <2>7. QED BY <2>2, <2>3, <2>4, <2>6
<1>24. d.strings = e.strings
  <2>1. PICK p \in Nat : p = (v + w * n) + v * n + space BY <1>15, <1>16
  <2>2. PICK t : t = e.strings OBVIOUS
  <2>3. d.strings = SubSeq(xFile, o + p + 1, o + p + Len(t))
      BY <1>9, <1>14, <1>17, <2>1, <2>2 DEF load_dist
  <2>4. IsSequence(t) /\ Holds(b, p, t)
      BY <1>3, <1>13, <2>1, <2>2 DEF EntryInv, IsSized, IsBody
  <2>5. SubSeq(xFile, o + p + 1, o + p + Len(t)) = t BY <1>11, <1>18, <2>4, ReadBehind
  <2>6. QED BY <2>2, <2>3, <2>5
<1>25. IsRead(d, e) BY <1>5, <1>6, <1>8, <1>19, <1>20, <1>21, <1>22, <1>23, <1>24 DEF IsRead
<1>26. QED BY <1>2, <1>4, <1>17, <1>25

(***************************************************************************)
(* The invariant of the compiler and its reader.                           *)
(***************************************************************************)
FileInv == xStatus = "written" => xEntries # <<>> /\ xFile = FileOf /\ xHeader = HeaderOf
ReadInv ==
    xDist # <<>> => /\ xStatus = "written"
                    /\ \E k \in 1 .. Len(xEntries) : IsRead(xDist, xEntries[k])
DistInv == EntriesInv /\ FileInv /\ ReadInv

LEMMA DistBegins == DistInit \/ DistIdle => DistInv
<1> SUFFICES ASSUME DistInit \/ DistIdle PROVE DistInv OBVIOUS
<1>1. xEntries = <<>> /\ xDist = <<>> /\ xStatus # "written" BY DEF DistInit, DistIdle
<1>2. EntriesInv BY <1>1, EmptySequence DEF EntriesInv
<1>3. QED BY <1>1, <1>2 DEF DistInv, FileInv, ReadInv

\* A statement leaves nothing written or read behind.
LEMMA StillParsing ==
    ASSUME DistInv, Statement, xStatus' \in {"parsing", "failed"}
    PROVE  FileInv' /\ ReadInv'
<1>1. xDist = <<>> /\ xDist' = <<>> BY DEF DistInv, ReadInv, Statement
<1>2. QED BY <1>1 DEF FileInv, ReadInv

LEMMA CurrentChanged ==
    ASSUME EntriesInv, xEntries # <<>>, NEW e, EntryInv(e), 
           e.name = current.name, e.title = current.title, ToCurrent(e)
    PROVE  EntriesInv'
<1>1. IsSequence(xEntries) BY DEF EntriesInv
<1>2. PICK n \in Nat : n = Len(xEntries) BY <1>1, Lengths
<1>3. n # 0 BY <1>1, <1>2, EmptySequence, Equal
<1>4. /\ xEntries' = [xEntries EXCEPT ![n] = e]
      /\ e.name = xEntries[n].name /\ e.title = xEntries[n].title
    BY <1>2 DEF ToCurrent, current
<1>5. /\ IsSequence(xEntries') /\ Len(xEntries') = n
      /\ \A i \in 1 .. n : xEntries'[i] = IF i = n THEN e ELSE xEntries[i]
  <2>1. n \in 1 .. Len(xEntries) BY <1>2, <1>3
  <2>2. PICK old : old = xEntries OBVIOUS
  <2>3. PICK new : new = [old EXCEPT ![n] = e] OBVIOUS
  <2>4. /\ IsSequence(new) /\ Len(new) = Len(old)
        /\ \A i \in 1 .. Len(old) : new[i] = IF i = n THEN e ELSE old[i]
    <3>1. IsSequence(old) /\ n \in 1 .. Len(old) BY <1>1, <2>1, <2>2
    <3>2. /\ IsSequence([old EXCEPT ![n] = e]) /\ Len([old EXCEPT ![n] = e]) = Len(old)
          /\ \A i \in 1 .. Len(old) : [old EXCEPT ![n] = e][i] = IF i = n THEN e ELSE old[i]
        BY <3>1, Replaced
    <3>3. QED BY <2>3, <3>2
  <2>5. xEntries' = new BY <1>4, <2>2, <2>3
  <2>6. QED BY <1>2, <2>2, <2>4, <2>5
<1>6. \A i \in 1 .. n : EntryInv(xEntries'[i]) BY <1>2, <1>5 DEF EntriesInv
<1>7. \A i \in 1 .. n :
          xEntries'[i].name = xEntries[i].name /\ xEntries'[i].title = xEntries[i].title
    BY <1>4, <1>5
<1>8. \A i, j \in 1 .. n : i < j /\ Folded(xEntries'[i].name) = Folded(xEntries'[j].name) =>
          xEntries'[j].title # xEntries'[j].name
    BY <1>2, <1>7 DEF EntriesInv
<1>9. QED BY <1>5, <1>6, <1>8 DEF EntriesInv

LEMMA CurrentStated ==
    ASSUME EntriesInv, xEntries # <<>>
    PROVE  EntryInv(current) /\ IsEntry(current)
<1>1. IsSequence(xEntries) BY DEF EntriesInv
<1>2. PICK n \in Nat : n = Len(xEntries) BY <1>1, Lengths
<1>3. n # 0 BY <1>1, <1>2, EmptySequence, Equal
<1>4. EntryInv(xEntries[n]) BY <1>2, <1>3 DEF EntriesInv
<1>5. QED BY <1>2, <1>4 DEF current, EntryInv

LEMMA DistributionStep ==
    ASSUME DistInv, NEW name, ProcessDistribution(name) PROVE DistInv'
<1>1. Statement /\ xStatus = "parsing" BY DEF ProcessDistribution, Statement
<1>2. xStatus' \in {"parsing", "failed"} BY <1>1 DEF ProcessDistribution, Fail, Accept
<1>3. EntriesInv BY DEF DistInv
<1>4. EntriesInv'
  <2>1. CASE UNCHANGED xEntries BY <1>3, <2>1 DEF EntriesInv
  <2>2. CASE /\ xEntries' = Append(xEntries, newEntry(name))
             /\ ~ \E i \in DOMAIN xEntries : Folded(xEntries[i].name) = Folded(name)
    <3>1. IsSequence(xEntries) BY <1>3 DEF EntriesInv
    <3>2. PICK n \in Nat : n = Len(xEntries) /\ DOMAIN xEntries = 1 .. n BY <3>1, Lengths
    <3>3. PICK e : e = newEntry(name) OBVIOUS
    <3>4. EntryInv(e) /\ e.name = Truncated(name) /\ e.title = name
        BY <3>3, NewEntry DEF newEntry
    <3>5. /\ IsSequence(xEntries') /\ Len(xEntries') = n + 1
          /\ (\A i \in 1 .. n : xEntries'[i] = xEntries[i]) /\ xEntries'[n + 1] = e
        BY <2>2, <3>1, <3>2, <3>3, Appended
    <3>6. \A i \in 1 .. (n + 1) : i \in 1 .. n \/ i = n + 1 OBVIOUS
    <3>7. \A i \in 1 .. (n + 1) : EntryInv(xEntries'[i])
        BY <1>3, <3>2, <3>4, <3>5, <3>6 DEF EntriesInv
    <3>8. \A i, j \in 1 .. (n + 1) :
              i < j /\ Folded(xEntries'[i].name) = Folded(xEntries'[j].name) =>
                  xEntries'[j].title # xEntries'[j].name
      <4> TAKE i, j \in 1 .. (n + 1)
      <4> HAVE i < j /\ Folded(xEntries'[i].name) = Folded(xEntries'[j].name)
      <4>1. i \in 1 .. n OBVIOUS
      <4>2. CASE j = n + 1
        <5>1. Folded(xEntries[i].name) # Folded(name) BY <2>2, <3>2, <4>1
        <5>2. Folded(xEntries[i].name) = Folded(Truncated(name)) BY <3>4, <3>5, <4>1, <4>2
        <5>3. name # Truncated(name) BY <5>1, <5>2
        <5>4. QED BY <3>4, <3>5, <4>2, <5>3
      <4>3. CASE j \in 1 .. n BY <1>3, <3>2, <3>5, <4>1, <4>3 DEF EntriesInv
      <4>4. QED BY <3>6, <4>2, <4>3
    <3>9. QED BY <3>5, <3>7, <3>8 DEF EntriesInv
  <2>3. QED BY <2>1, <2>2 DEF ProcessDistribution, Fail, Accept
<1>5. QED BY <1>1, <1>2, <1>4, StillParsing DEF DistInv

LEMMA TypesStep ==
    ASSUME DistInv, NEW types \in TypeRows, ProcessTypes(types) PROVE DistInv'
<1>1. Statement /\ xEntries # <<>> /\ v_width(current) = 0 BY DEF ProcessTypes
<1>2. xStatus' \in {"parsing", "failed"} BY DEF ProcessTypes, Statement, Accept
<1>3. EntriesInv BY DEF DistInv
<1>4. PICK c : c = current OBVIOUS
<1>5. EntryInv(c) /\ IsEntry(c) BY <1>1, <1>3, <1>4, CurrentStated
<1>6. PICK e : e = [c EXCEPT !.type_vector = types, !.value_sets = [i \in DOMAIN types |-> <<>>]]
    OBVIOUS
<1>7. EntryInv(e) BY <1>1, <1>4, <1>5, <1>6, TypesStated
<1>8. e.name = c.name /\ e.title = c.title BY <1>5, <1>6 DEF IsEntry, EntryFields
<1>9. ToCurrent(e) BY <1>4, <1>6 DEF ProcessTypes
<1>10. EntriesInv' BY <1>1, <1>3, <1>4, <1>7, <1>8, <1>9, CurrentChanged
<1>11. QED BY <1>1, <1>2, <1>10, StillParsing DEF DistInv

LEMMA WeightsStep ==
    ASSUME DistInv, NEW width \in 1 .. MaxWidth, ProcessWeights(width) PROVE DistInv'
<1>1. Statement /\ xEntries # <<>> /\ current.w_width = 0 BY DEF ProcessWeights
<1>2. xStatus' \in {"parsing", "failed"} BY DEF ProcessWeights, Statement, Accept
<1>3. EntriesInv BY DEF DistInv
<1>4. PICK c : c = current OBVIOUS
<1>5. EntryInv(c) /\ IsEntry(c) BY <1>1, <1>3, <1>4, CurrentStated
<1>6. PICK e : e = [c EXCEPT !.w_width = width, !.weight_sets = [i \in 1 .. width |-> <<>>]]
    OBVIOUS
<1>7. EntryInv(e) BY <1>1, <1>4, <1>5, <1>6, WidthStated
<1>8. e.name = c.name /\ e.title = c.title BY <1>5, <1>6 DEF IsEntry, EntryFields
<1>9. ToCurrent(e) BY <1>4, <1>6 DEF ProcessWeights
<1>10. EntriesInv' BY <1>1, <1>3, <1>4, <1>7, <1>8, <1>9, CurrentChanged
<1>11. QED BY <1>1, <1>2, <1>10, StillParsing DEF DistInv

LEMMA NamesStep == ASSUME DistInv, ProcessNames PROVE DistInv'
<1>1. Statement /\ xEntries # <<>> BY DEF ProcessNames
<1>2. xStatus' \in {"parsing", "failed"} BY DEF ProcessNames, Statement, Accept, Fail
<1>3. EntriesInv BY DEF DistInv
<1>4. EntriesInv'
  <2>1. CASE UNCHANGED xEntries BY <1>3, <2>1 DEF EntriesInv
  <2>2. CASE /\ v_width(current) # 0 /\ current.w_width # 0
             /\ ToCurrent([current EXCEPT !.names =
                               [i \in 1..(v_width(current) + current.w_width) |-> i]])
    <3>1. PICK c : c = current OBVIOUS
    <3>2. EntryInv(c) /\ IsEntry(c) BY <1>1, <1>3, <3>1, CurrentStated
    <3>3. PICK e : e = [c EXCEPT !.names = [i \in 1 .. (v_width(c) + c.w_width) |-> i]] OBVIOUS
    <3>4. EntryInv(e) BY <2>2, <3>1, <3>2, <3>3, AliasesStated
    <3>5. e.name = c.name /\ e.title = c.title BY <3>2, <3>3 DEF IsEntry, EntryFields
    <3>6. ToCurrent(e) BY <2>2, <3>1, <3>3
    <3>7. QED BY <1>1, <1>3, <3>1, <3>4, <3>5, <3>6, CurrentChanged
  <2>3. QED BY <2>1, <2>2 DEF ProcessNames, Fail, Accept
<1>5. QED BY <1>1, <1>2, <1>4, StillParsing DEF DistInv

LEMMA AddStep ==
    ASSUME DistInv, NEW values \in ValueRows, NEW weights \in WeightRows,
           ProcessAdd(values, weights)
    PROVE  DistInv'
<1>1. Statement /\ xEntries # <<>> BY DEF ProcessAdd
<1>2. xStatus' \in {"parsing", "failed"} BY DEF ProcessAdd, Statement, Accept, Fail
<1>3. EntriesInv BY DEF DistInv
<1>4. EntriesInv'
  <2>1. CASE UNCHANGED xEntries BY <1>3, <2>1 DEF EntriesInv
  <2>2. CASE ~ UNCHANGED xEntries
    <3>1. PICK c : c = current OBVIOUS
    <3>2. EntryInv(c) /\ IsEntry(c) BY <1>1, <1>3, <3>1, CurrentStated
    <3>3. PICK e : e = [c EXCEPT
               !.weight_sets = [i \in DOMAIN @ |-> Append(@[i], weights[i])],
               !.value_sets = [i \in DOMAIN @ |-> Append(@[i], offsetOf(c, values, i))],
               !.strings = @ \o FlattenSeq([i \in 1..v_width(c) |-> cells(values[i])]),
               !.length = @ + 1,
               !.rows = Append(@, [values |-> SubSeq(values, 1, v_width(c)),
                                   weights |-> SubSeq(weights, 1, c.w_width)])]
        OBVIOUS
    <3>4. v_width(c) # 0 /\ c.w_width # 0 /\ ToCurrent(e)
        BY <2>2, <3>1, <3>3 DEF ProcessAdd, Fail
    <3>5. EntryInv(e) BY <3>2, <3>3, <3>4, RowStated
    <3>6. e.name = c.name /\ e.title = c.title BY <3>2, <3>3 DEF IsEntry, EntryFields
    <3>7. QED BY <1>1, <1>3, <3>1, <3>4, <3>5, <3>6, CurrentChanged
  <2>3. QED BY <2>1, <2>2
<1>5. QED BY <1>1, <1>2, <1>4, StillParsing DEF DistInv

LEMMA FileStays == UNCHANGED xEntries => FileOf' = FileOf /\ HeaderOf' = HeaderOf
BY DEF FileOf, HeaderOf, bodies, indexEntry

LEMMA WriteStep == ASSUME DistInv, WriteIndex PROVE DistInv'
<1>1. xEntries' = xEntries /\ xEntries # <<>> /\ xDist = <<>> /\ xDist' = <<>>
    BY DEF WriteIndex, DistInv, ReadInv
<1>2. xFile' = FileOf /\ xHeader' = HeaderOf BY DEF WriteIndex, FileOf, HeaderOf
<1>3. FileInv' BY <1>1, <1>2, FileStays DEF FileInv
<1>4. EntriesInv' BY <1>1 DEF DistInv, EntriesInv
<1>5. QED BY <1>1, <1>3, <1>4 DEF DistInv, ReadInv

LEMMA LoadStep == ASSUME DistInv, NEW name, LoadDistribution(name) PROVE DistInv'
<1>1. /\ xStatus = "written" /\ xStatus' = xStatus /\ xEntries' = xEntries
      /\ xFile' = xFile /\ xHeader' = xHeader
    BY DEF LoadDistribution
<1>2. EntriesInv /\ xEntries # <<>> /\ xFile = FileOf BY <1>1 DEF DistInv, FileInv
<1>3. PICK di \in find_dist(name) : xDist' = load_dist(di) BY DEF LoadDistribution
<1>4. PICK k \in 1 .. Len(xEntries) : di = indexEntry(k) BY <1>2, <1>3, FoundInIndex
<1>5. IsRead(load_dist(indexEntry(k)), xEntries[k]) BY <1>2, ReadsEntry
<1>6. IsRead(xDist', xEntries[k]) BY <1>3, <1>4, <1>5
<1>7. ReadInv' BY <1>1, <1>6 DEF ReadInv
<1>8. EntriesInv' BY <1>1, <1>2 DEF EntriesInv
<1>9. FileInv' BY <1>1, FileStays DEF DistInv, FileInv
<1>10. QED BY <1>7, <1>8, <1>9 DEF DistInv

LEMMA DistContinues == DistInv /\ [DistNext]_distVars => DistInv'
<1> SUFFICES ASSUME DistInv, [DistNext]_distVars PROVE DistInv' OBVIOUS
<1>1. CASE \E name \in DistNames : ProcessDistribution(name) BY <1>1, DistributionStep
<1>2. CASE \E name \in DistNames : LoadDistribution(name) BY <1>2, LoadStep
<1>3. CASE \E types \in TypeRows : ProcessTypes(types) BY <1>3, TypesStep
<1>4. CASE \E width \in 1..MaxWidth : ProcessWeights(width) BY <1>4, WeightsStep
<1>5. CASE ProcessNames BY <1>5, NamesStep
<1>6. CASE \E values \in ValueRows, row \in WeightRows : ProcessAdd(values, row) BY <1>6, AddStep
<1>7. CASE WriteIndex BY <1>7, WriteStep
<1>8. CASE UNCHANGED distVars
  <2>1. /\ xEntries' = xEntries /\ xStatus' = xStatus /\ xFile' = xFile
        /\ xHeader' = xHeader /\ xDist' = xDist
      BY <1>8 DEF distVars
  <2>2. EntriesInv' BY <2>1 DEF DistInv, EntriesInv
  <2>3. FileInv' BY <2>1, FileStays DEF DistInv, FileInv
  <2>4. ReadInv' BY <2>1 DEF DistInv, ReadInv
  <2>5. QED BY <2>2, <2>3, <2>4 DEF DistInv
<1>9. QED BY <1>1, <1>2, <1>3, <1>4, <1>5, <1>6, <1>7, <1>8 DEF DistNext

(***************************************************************************)
(* The rows that are drawn.                                                *)
(***************************************************************************)
Below(U, r) == IF r > 1 THEN U[r - 1] ELSE 0
Summed(U, set, n) ==
    /\ U \in [1 .. n -> Nat]
    /\ \A j \in 1 .. n : set[j] \in Nat /\ U[j] = Below(U, j) + set[j]

LEMMA UpToSums ==
    ASSUME NEW set, set \in Seq(Nat) PROVE Summed(upTo(set), set, Len(set))
<1>0. PICK n \in Nat : n = Len(set) BY LenProperties
<1> DEFINE step == [i \in 1 .. n |-> [s \in Nat |-> s + set[i]]]
           sum == LET sum[j \in 0..Len(set)] == IF j = 0 THEN 0 ELSE sum[j - 1] + set[j] IN sum
<1>1. \A j \in 1 .. n : set[j] \in Nat BY <1>0, ElementOfSeq
<1>2. DOMAIN set = 1 .. n BY <1>0, LenProperties
<1>3. step \in [1 .. n -> [Nat -> Nat]] BY <1>1
<1>4. PICK g : g \in [0 .. n -> Nat] /\ Steps(0, step, g, n)
  <2> HIDE DEF step
  <2>1. QED BY <1>3, StepsExist DEF HasSteps
<1>5. g[0] = 0 /\ \A j \in 1 .. n : g[j] = step[j][g[j - 1]]
  <2> HIDE DEF step
  <2>1. QED BY <1>4 DEF Steps
<1>6. ASSUME NEW j \in 1 .. n PROVE g[j] = g[j - 1] + set[j] /\ g[j - 1] \in Nat
  <2>1. j - 1 \in 0 .. n OBVIOUS
  <2>2. g[j - 1] \in Nat BY <1>4, <2>1
  <2>3. step[j][g[j - 1]] = g[j - 1] + set[j] BY <2>2
  <2>4. QED BY <1>5, <2>2, <2>3
<1>7. \E f : f = [j \in 0 .. Len(set) |-> IF j = 0 THEN 0 ELSE f[j - 1] + set[j]]
  <2>1. \A j \in 0 .. n : g[j] = IF j = 0 THEN 0 ELSE g[j - 1] + set[j]
    <3> TAKE j \in 0 .. n
    <3>1. CASE j = 0 BY <1>5, <3>1
    <3>2. CASE j # 0
      <4>1. j \in 1 .. n BY <3>2
      <4>2. QED BY <1>6, <3>2, <4>1
    <3>3. QED BY <3>1, <3>2
  <2>2. g = [j \in 0 .. n |-> g[j]] BY <1>4
  <2>3. g = [j \in 0 .. n |-> IF j = 0 THEN 0 ELSE g[j - 1] + set[j]] BY <2>1, <2>2
  <2>4. QED BY <1>0, <2>3
<1>8. sum = [j \in 0 .. n |-> IF j = 0 THEN 0 ELSE sum[j - 1] + set[j]] BY <1>0, <1>7
<1>9. upTo(set) = [j \in DOMAIN set |-> sum[j]] BY DEF upTo
<1> HIDE DEF sum
<1>10. sum[0] = g[0] BY <1>5, <1>8
<1>11. \A j \in 1 .. n : sum[j - 1] = g[j - 1] => sum[j] = g[j]
  <2> TAKE j \in 1 .. n
  <2>1. sum[j] = sum[j - 1] + set[j] BY <1>8
  <2>2. QED BY <1>6, <2>1
<1>12. \A j \in 0 .. n : sum[j] = g[j]
  <2> DEFINE T == {j \in Nat : j <= n => sum[j] = g[j]}
  <2>1. 0 \in T BY <1>10
  <2>2. ASSUME NEW j \in Nat, j \in T PROVE j + 1 \in T
    <3> SUFFICES ASSUME j + 1 <= n PROVE sum[j + 1] = g[j + 1] OBVIOUS
    <3>1. PICK k \in 1 .. n : k = j + 1 OBVIOUS
    <3>2. k - 1 = j /\ sum[j] = g[j] BY <2>2, <3>1
    <3>3. QED BY <1>11, <3>1, <3>2
  <2>3. Nat \subseteq T
    <3> HIDE DEF T
    <3>1. QED BY <2>1, <2>2, SetInduction
  <2>4. QED BY <2>3
<1>13. PICK U : U = upTo(set) OBVIOUS
<1>14. U = [j \in 1 .. n |-> g[j]]
  <2>1. U = [j \in 1 .. n |-> sum[j]] BY <1>2, <1>9, <1>13
  <2>2. QED BY <1>12, <2>1
<1>15. U \in [1 .. n -> Nat] BY <1>4, <1>14
<1>16. ASSUME NEW j \in 1 .. n PROVE U[j] = Below(U, j) + set[j]
  <2>1. U[j] = g[j - 1] + set[j] BY <1>6, <1>14
  <2>2. CASE j = 1 BY <1>5, <2>1, <2>2 DEF Below
  <2>3. CASE j > 1
    <3>1. j - 1 \in 1 .. n BY <2>3
    <3>2. U[j - 1] = g[j - 1] BY <1>14, <3>1
    <3>3. QED BY <2>1, <2>3, <3>2 DEF Below
  <2>4. QED BY <2>2, <2>3
<1>17. QED BY <1>0, <1>1, <1>13, <1>15, <1>16 DEF Summed

LEMMA SumsGrow ==
    ASSUME NEW n \in Nat, NEW U, NEW set, Summed(U, set, n)
    PROVE  \A i, j \in 1 .. n : i <= j => U[i] <= U[j]
<1> SUFFICES ASSUME NEW i \in 1 .. n PROVE \A j \in 1 .. n : i <= j => U[i] <= U[j] OBVIOUS
<1>1. U \in [1 .. n -> Nat] BY DEF Summed
<1> DEFINE T == {j \in Nat : j \in i .. n => U[i] <= U[j]}
<1>2. 0 \in T OBVIOUS
<1>3. ASSUME NEW j \in Nat, j \in T PROVE j + 1 \in T
  <2> SUFFICES ASSUME j + 1 \in i .. n PROVE U[i] <= U[j + 1] OBVIOUS
  <2>1. CASE i = j + 1 BY <1>1, <2>1
  <2>2. CASE i # j + 1
    <3>1. PICK k \in 2 .. n : k = j + 1 BY <2>2
    <3>2. k - 1 = j /\ j \in i .. n /\ k \in 1 .. n /\ j \in 1 .. n BY <2>2, <3>1
    <3>3. U[k] = U[j] + set[k] /\ set[k] \in Nat BY <3>1, <3>2 DEF Summed, Below
    <3>4. U[i] <= U[j] BY <1>3, <3>2
    <3>5. U[i] \in Nat /\ U[j] \in Nat BY <1>1, <3>2
    <3>6. QED BY <3>1, <3>3, <3>4, <3>5
  <2>3. QED BY <2>1, <2>2
<1>4. Nat \subseteq T
  <2> HIDE DEF T
  <2>1. QED BY <1>2, <1>3, SetInduction
<1>5. QED BY <1>4

\* A level draws the row between whose sums it lies.
LEMMA LevelsOf ==
    ASSUME NEW d, NEW w, NEW n \in Nat, NEW set,
           d.length = n, Summed(d.weight_sets[w], set, n), NEW l \in 1 .. maximum(d, w)
    PROVE  /\ picked(d, l, w) \in 1 .. n
           /\ \A r \in 1 .. n : picked(d, l, w) = r <=>
                 Below(d.weight_sets[w], r) < l /\ l <= d.weight_sets[w][r]
<1>1. PICK U : U = d.weight_sets[w] OBVIOUS
<1>2. Summed(U, set, n) BY <1>1
<1>3. U \in [1 .. n -> Nat] BY <1>2 DEF Summed
<1>4. n # 0 /\ n \in 1 .. n /\ l <= U[n] /\ l \in Nat
  <2>1. n # 0 BY DEF maximum
  <2>2. U[n] \in Nat BY <1>3, <2>1
  <2>3. QED BY <1>1, <2>1, <2>2 DEF maximum
<1>5. \A i, j \in 1 .. n : i <= j => U[i] <= U[j] BY <1>2, SumsGrow
<1> DEFINE Draws(i) == l <= U[i] /\ \A j \in 1..(i - 1) : l > U[j]
<1>6. \E i \in 1 .. n : Draws(i)
  <2> DEFINE R == {i \in 1 .. n : l <= U[i]}
  <2>1. R \subseteq Nat /\ R # {} BY <1>4
  <2>2. PICK i \in R : \A k \in R : i <= k
    <3> HIDE DEF R
    <3>1. QED BY <2>1, LeastNatural
  <2>3. \A j \in 1 .. (i - 1) : l > U[j]
    <3> TAKE j \in 1 .. (i - 1)
    <3>1. j \in 1 .. n /\ j \notin R BY <2>2
    <3>2. U[j] \in Nat /\ ~(l <= U[j]) BY <1>3, <3>1
    <3>3. QED BY <1>4, <3>2
  <2>4. QED BY <2>2, <2>3
<1>7. picked(d, l, w) = CHOOSE i \in 1 .. n : Draws(i) BY <1>1 DEF picked
<1>8. PICK p : p = picked(d, l, w) OBVIOUS
<1>9. p \in 1 .. n /\ Draws(p)
  <2> HIDE DEF Draws
  <2>1. QED BY <1>6, <1>7, <1>8
<1>10. ASSUME NEW r \in 1 .. n PROVE p = r <=> Below(U, r) < l /\ l <= U[r]
  <2>1. ASSUME p = r PROVE Below(U, r) < l /\ l <= U[r]
    <3>1. CASE r = 1 BY <1>4, <1>9, <2>1, <3>1 DEF Below
    <3>2. CASE r > 1
      <4>1. r - 1 \in 1 .. (p - 1) /\ r - 1 \in 1 .. n BY <2>1, <3>2
      <4>2. U[r - 1] \in Nat /\ l > U[r - 1] BY <1>3, <1>9, <4>1
      <4>3. QED BY <1>4, <1>9, <2>1, <3>2, <4>2 DEF Below
    <3>3. QED BY <3>1, <3>2
  <2>2. ASSUME Below(U, r) < l, l <= U[r], p < r PROVE FALSE
    <3>1. r > 1 /\ r - 1 \in 1 .. n /\ p <= r - 1 BY <1>9, <2>2
    <3>2. U[p] <= U[r - 1] /\ U[p] \in Nat /\ U[r - 1] \in Nat BY <1>3, <1>5, <1>9, <3>1
    <3>3. U[r - 1] < l BY <2>2, <3>1 DEF Below
    <3>4. QED BY <1>4, <1>9, <3>2, <3>3
  <2>3. ASSUME Below(U, r) < l, l <= U[r], r < p PROVE FALSE
    <3>1. r \in 1 .. (p - 1) BY <1>9, <2>3
    <3>2. l > U[r] /\ U[r] \in Nat BY <1>3, <1>9, <3>1
    <3>3. QED BY <1>4, <2>3, <3>2
  <2>4. p < r \/ p = r \/ r < p BY <1>9
  <2>5. QED BY <2>1, <2>2, <2>3, <2>4
<1>11. QED BY <1>1, <1>8, <1>9, <1>10

\* As many levels draw a row as its weight says.
LEMMA LevelsCounted ==
    ASSUME NEW d, NEW w, NEW n \in Nat, NEW set,
           d.length = n, Summed(d.weight_sets[w], set, n), NEW r \in 1 .. n
    PROVE  Cardinality({l \in 1..maximum(d, w) : picked(d, l, w) = r}) = set[r]
<1>1. PICK U : U = d.weight_sets[w] OBVIOUS
<1>2. Summed(U, set, n) BY <1>1
<1>3. U \in [1 .. n -> Nat] /\ n \in 1 .. n BY <1>2 DEF Summed
<1>4. maximum(d, w) = U[n] /\ U[n] \in Nat BY <1>1, <1>3 DEF maximum
<1>5. PICK low \in Nat : low = Below(U, r)
  <2>1. CASE r = 1 BY <2>1 DEF Below
  <2>2. CASE r > 1
    <3>1. r - 1 \in 1 .. n BY <2>2
    <3>2. U[r - 1] \in Nat BY <1>3, <3>1
    <3>3. QED BY <2>2, <3>2 DEF Below
  <2>3. QED BY <2>1, <2>2
<1>6. U[r] \in Nat /\ U[r] <= U[n] /\ set[r] \in Nat /\ U[r] = low + set[r]
  <2>1. U[r] \in Nat /\ r <= n BY <1>3
  <2>2. U[r] <= U[n] BY <1>2, <1>3, <2>1, SumsGrow
  <2>3. set[r] \in Nat /\ U[r] = Below(U, r) + set[r] BY <1>2 DEF Summed
  <2>4. QED BY <1>5, <2>1, <2>2, <2>3
<1>7. {l \in 1..maximum(d, w) : picked(d, l, w) = r} = (low + 1) .. U[r]
  <2>1. ASSUME NEW l, l \in 1 .. maximum(d, w) PROVE picked(d, l, w) = r <=> low < l /\ l <= U[r]
      BY <1>1, <1>5, <2>1, LevelsOf
  <2>2. \A l \in (low + 1) .. U[r] : l \in 1 .. maximum(d, w) /\ low < l /\ l <= U[r]
      BY <1>4, <1>6
  <2>3. \A l \in 1 .. maximum(d, w) : low < l /\ l <= U[r] => l \in (low + 1) .. U[r]
      BY <1>4, <1>6
  <2>4. QED BY <2>1, <2>2, <2>3
<1>8. PICK high \in Nat : high = U[r] BY <1>6
<1>9. PICK first \in Nat : first = low + 1 OBVIOUS
<1>10. Cardinality(first .. high) = IF first > high THEN 0 ELSE high - first + 1
    BY FS_Interval
<1>11. PICK size \in Nat : size = set[r] BY <1>6
<1>12. high = low + size BY <1>6, <1>8, <1>11
<1>13. Cardinality(first .. high) = size BY <1>9, <1>10, <1>12
<1>14. QED BY <1>7, <1>8, <1>9, <1>11, <1>13

(***************************************************************************)
(* What is read is what was stated.                                        *)
(***************************************************************************)
ValuesAreRead(d, e) ==
    \A r \in 1 .. e.length, i \in 1 .. v_width(e) :
        dist_member(d, r, i) = e.rows[r].values[i]
\* The weights of a row, as read.
WeightsAreRead(d, e) ==
    \A w \in 1 .. e.w_width :
        /\ \A r \in 1 .. e.length :
             /\ e.rows[r].weights[w] \in Nat
             /\ dist_weight(d, r, w) = e.rows[r].weights[w]
             /\ Cardinality({l \in 1..maximum(d, w) : picked(d, l, w) = r}) = e.rows[r].weights[w]
        /\ \A l \in 1..maximum(d, w) : picked(d, l, w) \in 1 .. e.length
NamesAreRead(d, e) ==
    \A a \in DOMAIN e.names :
        DistNameIndex(d, IF a <= v_width(e) THEN "value" ELSE "weight", a)
          = (IF a = v_width(e) + 1 THEN -1 ELSE defined(e, a))

LEMMA ValuesRead ==
    ASSUME NEW d, NEW e, EntryInv(e), IsRead(d, e) PROVE ValuesAreRead(d, e)
<1> SUFFICES ASSUME NEW r \in 1 .. e.length, NEW i \in 1 .. v_width(e)
             PROVE  dist_member(d, r, i) = e.rows[r].values[i]
    BY DEF ValuesAreRead
<1>1. d.value_sets[i] = e.value_sets[i] /\ d.strings = e.strings BY DEF IsRead
<1>2. e.strings[e.value_sets[i][r] + 1] = e.rows[r].values[i] BY DEF EntryInv, ValuesStated
<1>3. QED BY <1>1, <1>2 DEF dist_member, valueAt

LEMMA WeightsRead ==
    ASSUME NEW d, NEW e, EntryInv(e), IsRead(d, e) PROVE WeightsAreRead(d, e)
<1>1. PICK n \in Nat : n = e.length BY DEF EntryInv, IsSized
<1>2. ASSUME NEW w \in 1 .. e.w_width
      PROVE  /\ \A r \in 1 .. n :
                  /\ e.rows[r].weights[w] \in Nat
                  /\ dist_weight(d, r, w) = e.rows[r].weights[w]
                  /\ Cardinality({l \in 1..maximum(d, w) : picked(d, l, w) = r})
                       = e.rows[r].weights[w]
             /\ \A l \in 1..maximum(d, w) : picked(d, l, w) \in 1 .. n
  <2>1. PICK set : set = e.weight_sets[w] OBVIOUS
  <2>2. /\ set \in Seq(Nat) /\ Len(set) = n
        /\ \A r \in 1 .. n : set[r] = e.rows[r].weights[w]
      BY <1>1, <2>1 DEF EntryInv, WeightsStated
  <2>3. d.weight_sets[w] = upTo(set) /\ d.length = n BY <1>1, <2>1 DEF IsRead
  <2>4. PICK U : U = d.weight_sets[w] OBVIOUS
  <2>5. Summed(U, set, n) BY <2>2, <2>3, <2>4, UpToSums
  <2>6. ASSUME NEW r \in 1 .. n
        PROVE  /\ e.rows[r].weights[w] \in Nat
               /\ dist_weight(d, r, w) = e.rows[r].weights[w]
               /\ Cardinality({l \in 1..maximum(d, w) : picked(d, l, w) = r})
                    = e.rows[r].weights[w]
    <3>1. PICK size \in Nat : size = set[r] BY <2>5 DEF Summed
    <3>2. PICK low \in Nat : low = Below(U, r)
      <4>1. CASE r = 1 BY <4>1 DEF Below
      <4>2. CASE r > 1
        <5>1. r - 1 \in 1 .. n BY <4>2
        <5>2. U[r - 1] \in Nat BY <2>5, <5>1 DEF Summed
        <5>3. QED BY <4>2, <5>2 DEF Below
      <4>3. QED BY <4>1, <4>2
    <3>3. U[r] = low + size BY <2>5, <3>1, <3>2 DEF Summed
    <3>4. dist_weight(d, r, w) = U[r] - low BY <2>4, <3>2 DEF dist_weight, Below
    <3>5. dist_weight(d, r, w) = size BY <3>3, <3>4
    <3>6. Cardinality({l \in 1..maximum(d, w) : picked(d, l, w) = r}) = set[r]
        BY <2>3, <2>4, <2>5, LevelsCounted
    <3>7. QED BY <2>2, <3>1, <3>5, <3>6
  <2>7. ASSUME NEW l \in 1..maximum(d, w) PROVE picked(d, l, w) \in 1 .. n
      BY <2>3, <2>4, <2>5, LevelsOf
  <2>8. QED BY <2>6, <2>7
<1>3. QED BY <1>1, <1>2 DEF WeightsAreRead

LEMMA NamesRead ==
    ASSUME NEW d, NEW e, EntryInv(e), IsRead(d, e) PROVE NamesAreRead(d, e)
<1>1. PICK v \in Nat : v = v_width(e) BY Lengths DEF EntryInv, IsSized, v_width
<1>2. PICK w \in Nat : w = e.w_width BY DEF EntryInv, IsSized
<1>3. CASE e.names = <<>>
  <2>1. DOMAIN e.names = {} BY <1>3
  <2>2. QED BY <2>1 DEF NamesAreRead
<1>4. CASE e.names # <<>>
  <2>1. PICK m \in Nat : m = v + w OBVIOUS
  <2>2. e.names = [i \in 1 .. m |-> i] BY <1>1, <1>2, <1>4, <2>1 DEF EntryInv, NamesStated
  <2>3. e.names = [i \in 1 .. m |-> e.names[i]] BY <2>2
  <2>4. Len(e.names) = m BY <2>3, FunctionIsSequence
  <2>5. d.names = [i \in 1 .. m |-> i] BY <2>2, <2>4 DEF IsRead
  <2>6. Len(d.type_vector) = v BY <1>1 DEF IsRead, v_width
  <2>7. ASSUME NEW a \in 1 .. m
        PROVE  DistNameIndex(d, IF a <= v THEN "value" ELSE "weight", a)
                 = (IF a = v + 1 THEN -1 ELSE defined(e, a))
    <3>1. {i \in DOMAIN d.names : d.names[i] = a} = {a} BY <2>5
    <3>2. Min({a}) = a BY DEF Min
    <3>3. {a} # {} OBVIOUS
    <3>4. PICK res \in Nat : res = a - 1 OBVIOUS
    <3>5. ASSUME NEW kind
          PROVE  DistNameIndex(d, kind, a) =
                   IF kind = "value" /\ res < v THEN res + 1
                   ELSE IF kind = "weight" /\ res > v THEN res - v + 1 ELSE -1
        BY <2>6, <3>1, <3>2, <3>3, <3>4 DEF DistNameIndex
    <3>6. CASE a <= v
      <4>1. DistNameIndex(d, "value", a) = res + 1 BY <3>4, <3>5, <3>6
      <4>2. defined(e, a) = a /\ a # v + 1 BY <1>1, <3>6 DEF defined
      <4>3. QED BY <3>4, <3>6, <4>1, <4>2
    <3>7. CASE a > v
      <4>1. DistNameIndex(d, "weight", a) = IF res > v THEN res - v + 1 ELSE -1 BY <3>5
      <4>2. defined(e, a) = a - v BY <1>1, <3>7 DEF defined
      <4>3. QED BY <3>4, <3>7, <4>1, <4>2
    <3>8. QED BY <3>6, <3>7
  <2>8. DOMAIN e.names = 1 .. m BY <2>2
  <2>9. QED BY <1>1, <2>7, <2>8 DEF NamesAreRead
<1>5. QED BY <1>3, <1>4

\* What CompiledIsRead says of what is read of the k-th entry.
AsStated(d, k, e) ==
    /\ d.length = Len(e.rows) /\ d.type_vector = e.type_vector
    /\ Len(d.weight_sets) = e.w_width
    /\ \A r \in DOMAIN e.rows :
         /\ \A i \in 1..v_width(e) : dist_member(d, r, i) = e.rows[r].values[i]
         /\ \A w \in 1..e.w_width :
              /\ dist_weight(d, r, w) = e.rows[r].weights[w]
              /\ Cardinality({l \in 1..maximum(d, w) : picked(d, l, w) = r})
                   = e.rows[r].weights[w]
    /\ \A w \in 1..e.w_width : \A l \in 1..maximum(d, w), i \in 1..v_width(e) :
         dist_op_pick(d, l, i, w) = e.rows[picked(d, l, w)].values[i]
    /\ \A w \in 1..e.w_width :
         dist_active(d, w) = Cardinality({r \in DOMAIN e.rows : e.rows[r].weights[w] > 0})
    /\ \A a \in DOMAIN e.names :
         DistNameIndex(d, IF a <= v_width(e) THEN "value" ELSE "weight", a)
           = (IF a = v_width(e) + 1 THEN -1 ELSE xHeader[k][a])

\* The name of the k-th entry is that of no other, but for a truncated one.
NameOfOne(k) ==
    \A i \in DOMAIN xEntries : Folded(xEntries[i].name) = Folded(xEntries[k].name) =>
        \/ i = k
        \/ LET later == xEntries[IF i < k THEN k ELSE i] IN later.title # later.name

LEMMA ReadAsStated == DistInv => CompiledIsRead
<1> SUFFICES ASSUME DistInv, xDist # <<>> PROVE CompiledIsRead BY DEF CompiledIsRead
<1>1. PICK d : d = xDist OBVIOUS
<1>2. PICK k \in 1 .. Len(xEntries) : IsRead(d, xEntries[k]) BY <1>1 DEF DistInv, ReadInv
<1>3. PICK e : e = xEntries[k] OBVIOUS
<1>4. EntriesInv /\ xHeader = HeaderOf BY DEF DistInv, ReadInv, FileInv
<1>5. EntryInv(e) /\ IsRead(d, e) BY <1>2, <1>3, <1>4 DEF EntriesInv
<1>6. DOMAIN xEntries = 1 .. Len(xEntries) BY <1>4, Lengths DEF EntriesInv
<1>7. d.name = e.name /\ NameOfOne(k)
  <2>1. d.name = e.name BY <1>5 DEF IsRead
  <2>2. PICK size \in Nat : size = Len(xEntries) BY <1>4, Lengths DEF EntriesInv
  <2>3. ASSUME NEW i \in 1 .. size, Folded(xEntries[i].name) = Folded(xEntries[k].name), i # k
        PROVE  LET later == xEntries[IF i < k THEN k ELSE i] IN later.title # later.name
    <3>1. CASE i < k BY <1>4, <2>2, <2>3, <3>1 DEF EntriesInv
    <3>2. CASE k < i BY <1>4, <2>2, <2>3, <3>2 DEF EntriesInv
    <3>3. i < k \/ k < i BY <2>2, <2>3
    <3>4. QED BY <2>2, <3>1, <3>2, <3>3
  <2>4. QED BY <1>3, <1>6, <2>1, <2>2, <2>3 DEF NameOfOne
<1>8. IsSequence(e.rows) /\ Len(e.rows) = e.length /\ DOMAIN e.rows = 1 .. e.length
    BY <1>5, Lengths DEF EntryInv, IsSized
<1>9. ValuesAreRead(d, e) /\ WeightsAreRead(d, e) /\ NamesAreRead(d, e)
    BY <1>5, ValuesRead, WeightsRead, NamesRead
<1>10. d.length = e.length /\ d.type_vector = e.type_vector BY <1>5 DEF IsRead
<1>11. \A r \in DOMAIN e.rows :
         /\ \A i \in 1..v_width(e) : dist_member(d, r, i) = e.rows[r].values[i]
         /\ \A w \in 1..e.w_width :
              /\ dist_weight(d, r, w) = e.rows[r].weights[w]
              /\ Cardinality({l \in 1..maximum(d, w) : picked(d, l, w) = r})
                   = e.rows[r].weights[w]
    BY <1>8, <1>9 DEF ValuesAreRead, WeightsAreRead
<1>12. \A w \in 1..e.w_width : \A l \in 1..maximum(d, w), i \in 1..v_width(e) :
         dist_op_pick(d, l, i, w) = e.rows[picked(d, l, w)].values[i]
  <2> TAKE w \in 1..e.w_width
  <2> TAKE l \in 1..maximum(d, w), i \in 1..v_width(e)
  <2>1. PICK p : p = picked(d, l, w) OBVIOUS
  <2>2. p \in 1 .. e.length BY <1>9, <2>1 DEF WeightsAreRead
  <2>3. dist_member(d, p, i) = e.rows[p].values[i] BY <1>9, <2>2 DEF ValuesAreRead
  <2>4. QED BY <2>1, <2>3 DEF dist_op_pick, dist_member
<1>13. \A w \in 1..e.w_width :
         dist_active(d, w) = Cardinality({r \in DOMAIN e.rows : e.rows[r].weights[w] > 0})
  <2> TAKE w \in 1..e.w_width
  <2>1. ASSUME NEW r \in 1 .. e.length
        PROVE  dist_weight(d, r, w) # 0 <=> e.rows[r].weights[w] > 0
    <3>1. PICK size \in Nat : size = e.rows[r].weights[w] /\ size = dist_weight(d, r, w)
        BY <1>9 DEF WeightsAreRead
    <3>2. size # 0 <=> size > 0 OBVIOUS
    <3>3. QED BY <3>1, <3>2
  <2>2. {r \in 1 .. d.length : dist_weight(d, r, w) # 0}
          = {r \in DOMAIN e.rows : e.rows[r].weights[w] > 0}
      BY <1>8, <1>10, <2>1
  <2>3. QED BY <2>2 DEF dist_active
<1>14. \A a \in DOMAIN e.names :
         DistNameIndex(d, IF a <= v_width(e) THEN "value" ELSE "weight", a)
           = (IF a = v_width(e) + 1 THEN -1 ELSE xHeader[k][a])
  <2> TAKE a \in DOMAIN e.names
  <2>1. xHeader[k][a] = defined(e, a) BY <1>3, <1>4, <1>6 DEF HeaderOf
  <2>2. QED BY <1>9, <2>1 DEF NamesAreRead
<1>15. d.length = Len(e.rows) /\ Len(d.weight_sets) = e.w_width
  <2>1. PICK w \in Nat : w = e.w_width BY <1>5 DEF EntryInv, IsSized
  <2>2. PICK sets : sets = d.weight_sets OBVIOUS
  <2>3. sets = [i \in 1 .. w |-> upTo(e.weight_sets[i])] BY <1>5, <2>1, <2>2 DEF IsRead
  <2>4. sets = [i \in 1 .. w |-> sets[i]] BY <2>3
  <2>5. Len(sets) = w BY <2>1, <2>4, FunctionIsSequence
  <2>6. QED BY <1>8, <1>10, <2>1, <2>2, <2>5
<1>16. AsStated(d, k, e) BY <1>10, <1>11, <1>12, <1>13, <1>14, <1>15 DEF AsStated
<1>17. /\ k \in DOMAIN xEntries /\ xDist.name = xEntries[k].name /\ NameOfOne(k)
       /\ AsStated(xDist, k, xEntries[k])
    BY <1>1, <1>3, <1>6, <1>7, <1>16
<1>18. QED BY <1>17 DEF CompiledIsRead, AsStated, NameOfOne

\* Whatever distributions are stated, one that is loaded has the types, values,
\* weights and names of its statements.
THEOREM DistributionsAreRead == DistSpec => []CompiledIsRead
<1>1. DistInit \/ DistIdle => DistInv BY DistBegins
<1>2. DistInv /\ [DistNext]_distVars => DistInv' BY DistContinues
<1>3. DistInv => CompiledIsRead BY ReadAsStated
<1>4. QED BY <1>1, <1>2, <1>3, PTL DEF DistSpec
=============================================================================
