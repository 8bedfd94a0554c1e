---------------------------- MODULE DsqgenStreams ---------------------------
(***************************************************************************)
(* The loops of dsqgen (QgenMain.c generateQueryStreams): for every stream *)
(* the order of its queries is shuffled once more, and each query of that  *)
(* order is written COUNT times.  What a query says is left to Dsqgen,     *)
(* whose steps are those of this module and steps between them.            *)
(***************************************************************************)
EXTENDS Integers, Sequences

CONSTANTS
    Templates,     \* the templates: name, definitions and references
    STREAMS,       \* -STREAMS
    COUNT,         \* -COUNT, the versions of each query in a stream
    OrderSeed,     \* the seed of the order of the templates: 19620718
    Mult, MAXINT   \* the random number generator

N == Len(Templates)

ASSUME StreamsAssumption ==
    /\ N \in Nat \ {0} /\ STREAMS \in Nat /\ COUNT \in Nat \ {0}
    /\ OrderSeed \in Nat /\ Mult \in Nat /\ MAXINT \in Nat \ {0}

VARIABLES
    qualify,       \* -QUALIFY
    pc,            \* what the generator is doing
    order,         \* pPermutation: the templates in the order of the stream
    stream,        \* nStream
    query,         \* nQuery: the position in the order
    version,       \* nCount
    written        \* the queries in the output files

loop == <<stream, query, version>>
streamVars == <<qualify, pc, order, loop, written>>

(***************************************************************************)
(* Random numbers.                                                         *)
(***************************************************************************)
next_random(seed) == (Mult * seed) % MAXINT

\* genrand_integer and genrand_key, uniform.
Uniform(seed, min, max) == (next_random(seed) % (max - min + 1)) + min

\* One pass of makePermutation: entry i changes places with one that is drawn.
Swap(set, i, k) == [set EXCEPT ![i] = set[k], ![k] = set[i]]
SwapDrawn(s, i, size) ==
    [set |-> Swap(s.set, i, Uniform(s.seed, 0, size - 1) + 1), seed |-> next_random(s.seed)]

\* A permutation that there is already is shuffled again.
Unshuffled(size) == [i \in 1 .. size |-> i]
makePermutation(set, size, seed) ==
    LET start == [set |-> IF set = <<>> THEN Unshuffled(size) ELSE set, seed |-> seed]
        after[i \in 0 .. size] == IF i = 0 THEN start ELSE SwapDrawn(after[i - 1], i, size)
    IN  after[size].set

(***************************************************************************)
(* The loops.                                                              *)
(***************************************************************************)
StreamInit ==
    /\ qualify \in BOOLEAN
    /\ pc = "parse"
    /\ order = <<>>
    /\ stream = 0
    /\ query = 1
    /\ version = 1
    /\ written = <<>>

\* All templates are parsed.
EndParse ==
    /\ pc = "parse"
    /\ pc' = "stream"
    /\ UNCHANGED <<qualify, order, loop, written>>

\* Stream 1 of the random numbers, seeded anew, shuffles the order again.
NextOrder == makePermutation(order, N, OrderSeed)

BeginStream ==
    /\ pc = "stream"
    /\ stream < STREAMS
    /\ order' = NextOrder
    /\ query' = 1
    /\ version' = 1
    /\ pc' = "query"
    /\ UNCHANGED <<qualify, stream, written>>

Current == IF qualify THEN query ELSE order[query]

\* GenerateQuery begins.
BeginQuery ==
    /\ pc = "query"
    /\ pc' = "select"
    /\ UNCHANGED <<qualify, order, loop, written>>

\* Mutant: the versions after the first are left out.
OneVersion == <<query + 1, 1>>

\* The loops over the queries and their versions.
Advance == IF version < COUNT THEN <<query, version + 1>> ELSE <<query + 1, 1>>

\* GenerateQuery ends with the text of the query in its file.
EndQuery(text) ==
    /\ pc = "select"
    /\ written' = Append(written, [stream |-> stream, query |-> query, version |-> version,
                                   template |-> Current, text |-> text])
    /\ query' = Advance[1]
    /\ version' = Advance[2]
    /\ pc' = IF Advance[1] > N THEN "stream" ELSE "query"
    /\ stream' = IF Advance[1] > N THEN stream + 1 ELSE stream
    /\ UNCHANGED <<qualify, order>>

StreamNext == EndParse \/ BeginStream \/ BeginQuery \/ \E text : EndQuery(text)

StreamSpec == StreamInit /\ [][StreamNext]_streamVars

(***************************************************************************)
(* Properties.                                                             *)
(***************************************************************************)
\* A stream that has ended holds every version of every template once, and with
\* -QUALIFY in the order of the template list.
EndedStreamsAreComplete ==
    \A s \in 0 .. stream - 1 : \A t \in 1 .. N : \A v \in 1 .. COUNT :
        LET Q == {i \in DOMAIN written : /\ written[i].stream = s
                                         /\ written[i].template = t
                                         /\ written[i].version = v}
        IN  \E i \in Q : Q = {i} /\ (qualify => written[i].query = t)

OrderOf[k \in 0 .. STREAMS] ==
    IF k = 0 THEN <<>> ELSE makePermutation(OrderOf[k - 1], N, OrderSeed)

\* The order of a stream depends on nothing but its number: "to assure
\* permutation stability regardless of command line seed".
OrderIgnoresSeed == pc \in {"query", "select"} => order = OrderOf[stream + 1]

\* Streams are complete, each in the order that belongs to its number
\* (QgenMain.c generateQueryStreams, permute.c makePermutation).
StreamsAreComplete == EndedStreamsAreComplete /\ OrderIgnoresSeed
=============================================================================
