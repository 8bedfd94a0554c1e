------------------------------ MODULE Distcomp ------------------------------
(***************************************************************************)
(* The distribution compiler and the reader of what it writes.  distcomp   *)
(* parses statements that define distributions (grammar.c, dcgram.c) and   *)
(* writes them to one file with an index at its end (dcomp.c); dsdgen and  *)
(* dsqgen find a distribution in the index, load it and draw from it       *)
(* (dist.c).  The file is a sequence of cells, an integer or a character   *)
(* each; a value of n characters takes n + 1 cells, the first stands for   *)
(* all of them.                                                            *)
(***************************************************************************)
EXTENDS Integers, SequencesExt, FiniteSetsExt

CONSTANTS
    DistNames,   \* names that a distribution may be given
    Folded(_),   \* a name as strcasecmp sees it
    Truncated(_),\* the first D_NAME_LEN characters of a name
    LengthOf(_), \* the length of a value's text
    TypeRows,    \* types that a distribution may have
    ValueRows,   \* values that a row may have, of at least MaxWidth columns
    WeightRows,  \* and weights
    MaxWidth,    \* bound: columns of values, and of weights
    MaxRows,     \* bound: rows of a distribution
    MaxDists     \* bound: distributions

ASSUME DistAssumption ==
    /\ MaxWidth \in Nat /\ MaxRows \in Nat /\ MaxDists \in Nat
    /\ \A types \in TypeRows : types \in Seq(ToSet(types)) /\ Len(types) \in 1..MaxWidth
    /\ \A values \in ValueRows :
           /\ values \in Seq(ToSet(values)) /\ Len(values) >= MaxWidth
           /\ \A i \in DOMAIN values : LengthOf(values[i]) \in Nat
    /\ \A weights \in WeightRows : weights \in Seq(Nat) /\ Len(weights) >= MaxWidth

VARIABLES
    xStatus,   \* "idle", "parsing", "failed" or "written"
    xEntries,  \* pDistIndex, the last entry is the current one
    xFile,     \* the file written
    xHeader,   \* by distribution, the numbers that the header defines for its aliases
    xDist      \* the distribution loaded last; <<>> if there is none
distVars == <<xStatus, xEntries, xFile, xHeader, xDist>>

cells(text) == <<text>> \o [i \in 1..LengthOf(text) |-> "more"]

(***************************************************************************)
(* dcgram.c                                                                *)
(***************************************************************************)
newEntry(name) ==
    [name |-> Truncated(name), type_vector |-> <<>>, w_width |-> 0, length |-> 0, weight_sets |-> <<>>,
     value_sets |-> <<>>, strings |-> <<>>, names |-> <<>>,
     title |-> name, rows |-> <<>>]    \* as stated, for the properties
current == xEntries[Len(xEntries)]
v_width(e) == Len(e.type_vector)
ToCurrent(e) == xEntries' = [xEntries EXCEPT ![Len(xEntries)] = e]

DistIdle == xStatus = "idle" /\ xEntries = <<>> /\ xFile = <<>> /\ xHeader = <<>> /\ xDist = <<>>
DistInit == xStatus = "parsing" /\ xEntries = <<>> /\ xFile = <<>> /\ xHeader = <<>> /\ xDist = <<>>

\* ParseFile: a statement; one that fails ends the program.
Statement == xStatus = "parsing" /\ UNCHANGED <<xFile, xHeader, xDist>>
Fail == xStatus' = "failed" /\ UNCHANGED xEntries
Accept == UNCHANGED xStatus

\* create: AddDistribution; a name is compared before it is truncated, so two
\* distributions may come to have one name.
ProcessDistribution(name) ==
    /\ Statement /\ Len(xEntries) < MaxDists
    /\ IF \E i \in DOMAIN xEntries : Folded(xEntries[i].name) = Folded(name) THEN Fail
       ELSE Accept /\ xEntries' = Append(xEntries, newEntry(name))

\* set types, set weights, set names, each once for a distribution.
ProcessTypes(types) ==
    /\ Statement /\ xEntries # <<>> /\ v_width(current) = 0
    /\ Accept /\ ToCurrent([current EXCEPT !.type_vector = types, !.value_sets = [i \in DOMAIN types |-> <<>>]])

ProcessWeights(width) ==
    /\ Statement /\ xEntries # <<>> /\ current.w_width = 0
    /\ Accept /\ ToCurrent([current EXCEPT !.w_width = width, !.weight_sets = [i \in 1..width |-> <<>>]])

\* The aliases of the values, then of the weights; an alias is its position.
ProcessNames ==
    /\ Statement /\ xEntries # <<>> /\ current.names = <<>>
    /\ IF v_width(current) = 0 \/ current.w_width = 0 THEN Fail
       ELSE Accept /\ ToCurrent([current EXCEPT !.names =
                          [i \in 1..(v_width(current) + current.w_width) |-> i]])

\* add: the weights and the places of the values to their sets, the values to
\* the strings.
offsetOf_NoEnd(e, values, i) ==
    LET next[j \in 0..(i - 1)] ==
            IF j = 0 THEN Len(e.strings) ELSE next[j - 1] + LengthOf(values[j])
    IN  next[i - 1]
offsetOf(e, values, i) ==
    LET next[j \in 0..(i - 1)] ==
            IF j = 0 THEN Len(e.strings) ELSE next[j - 1] + (LengthOf(values[j]) + 1)
    IN  next[i - 1]
ProcessAdd(values, weights) ==
    /\ Statement /\ xEntries # <<>> /\ current.length < MaxRows
    /\ IF v_width(current) = 0 \/ current.w_width = 0 THEN Fail
       ELSE /\ Accept
            /\ LET e == current
               IN  ToCurrent([e EXCEPT
                    !.weight_sets = [i \in DOMAIN @ |-> Append(@[i], weights[i])],
                    !.value_sets = [i \in DOMAIN @ |-> Append(@[i], offsetOf(e, values, i))],
                    !.strings = @ \o FlattenSeq([i \in 1..v_width(e) |-> cells(values[i])]),
                    !.length = @ + 1,
                    !.rows = Append(@, [values |-> SubSeq(values, 1, v_width(e)),
                                        weights |-> SubSeq(weights, 1, e.w_width)])])

(***************************************************************************)
(* dcomp.c                                                                 *)
(***************************************************************************)
body(e) == e.type_vector \o FlattenSeq(e.weight_sets) \o FlattenSeq(e.value_sets)
           \o FlattenSeq([i \in DOMAIN e.names |-> <<e.names[i], "more">>]) \o e.strings
bodies(n) == FlattenSeq([i \in 1..n |-> body(xEntries[i])])

indexEntry(n) ==
    LET e == xEntries[n]
    IN  [name |-> e.name, offset |-> 1 + Len(bodies(n - 1)), str_space |-> Len(e.strings),
         length |-> e.length, w_width |-> e.w_width, v_width |-> v_width(e),
         name_space |-> 2 * Len(e.names)]

\* What the header defines the i-th alias of an entry as.
defined(e, i) == IF i > v_width(e) THEN i - v_width(e) ELSE i

\* At the end of the input: the count of the distributions, each of them, and
\* the index.
WriteIndex ==
    /\ xStatus = "parsing" /\ xEntries # <<>>
    /\ xStatus' = "written"
    /\ xFile' = <<Len(xEntries)>> \o bodies(Len(xEntries)) \o [n \in DOMAIN xEntries |-> indexEntry(n)]
    /\ xHeader' = [n \in DOMAIN xEntries |->
                       [i \in DOMAIN xEntries[n].names |-> defined(xEntries[n], i)]]
    /\ UNCHANGED <<xEntries, xDist>>

(***************************************************************************)
(* dist.c                                                                  *)
(***************************************************************************)
\* The index is as many entries from the end as the first cell says; of two of
\* one name the search finds either.
find_dist(name) ==
    {xFile[i] : i \in {j \in (Len(xFile) - xFile[1] + 1)..Len(xFile) :
                          Folded(xFile[j].name) = Folded(name)}}

\* The parts of a distribution one after the other; the weights are summed up.
upTo(set) ==
    LET sum[j \in 0..Len(set)] == IF j = 0 THEN 0 ELSE sum[j - 1] + set[j]
    IN  [j \in DOMAIN set |-> sum[j]]
load_dist(di) ==
    LET v == di.v_width
        w == di.w_width
        part(from, size) == SubSeq(xFile, di.offset + from + 1, di.offset + from + size)
        weights == v
        offsets == weights + w * di.length
        aliases == offsets + v * di.length
        strings == aliases + di.name_space
    IN  [name |-> di.name, length |-> di.length,
         type_vector |-> part(0, v),
         weight_sets |-> [i \in 1..w |-> upTo(part(weights + (i - 1) * di.length, di.length))],
         value_sets |-> [i \in 1..v |-> part(offsets + (i - 1) * di.length, di.length)],
         names |-> [i \in 1..(di.name_space \div 2) |-> part(aliases, di.name_space)[2 * i - 1]],
         strings |-> part(strings, di.str_space)]

\* A longer name would not fit the key of the search; no caller has one.
LoadDistribution(name) ==
    /\ xStatus = "written" /\ xDist = <<>> /\ Truncated(name) = name
    /\ \E di \in find_dist(name) : xDist' = load_dist(di)
    /\ UNCHANGED <<xStatus, xEntries, xFile, xHeader>>

maximum(d, w) == IF d.length = 0 THEN 0 ELSE d.weight_sets[w][d.length]
valueAt(d, row, v) == d.strings[d.value_sets[v][row] + 1]
\* pick_distribution, for a level that it drew; dist_member; dist_weight.
picked(d, level, w) ==
    CHOOSE i \in 1..d.length :
        level <= d.weight_sets[w][i] /\ \A j \in 1..(i - 1) : level > d.weight_sets[w][j]
dist_op_pick(d, level, v, w) == valueAt(d, picked(d, level, w), v)
dist_member(d, row, v) == valueAt(d, row, v)
dist_weight(d, row, w) == d.weight_sets[w][row] - (IF row > 1 THEN d.weight_sets[w][row - 1] ELSE 0)
dist_active(d, w) == Cardinality({i \in 1..d.length : dist_weight(d, i, w) # 0})

\* The alias of the first weights is past the last value, and not found.
DistNameIndex(d, kind, alias) ==
    LET v == Len(d.type_vector)
        at == {i \in DOMAIN d.names : d.names[i] = alias}
        res == IF at = {} THEN Len(d.names) ELSE Min(at) - 1
    IN  IF kind = "value" /\ res < v THEN res + 1
        ELSE IF kind = "weight" /\ res > v THEN res - v + 1 ELSE -1

DistNext ==
    \/ \E name \in DistNames : ProcessDistribution(name) \/ LoadDistribution(name)
    \/ \E types \in TypeRows : ProcessTypes(types)
    \/ \E width \in 1..MaxWidth : ProcessWeights(width)
    \/ ProcessNames
    \/ \E values \in ValueRows, row \in WeightRows : ProcessAdd(values, row)
    \/ WriteIndex
DistSpec == (DistInit \/ DistIdle) /\ [][DistNext]_distVars

(***************************************************************************)
(* Properties                                                              *)
(***************************************************************************)
\* A distribution that is found, whatever the case of its name, and read, at
\* whatever place of the file, is one that was stated under that name, the only
\* one unless the name of another was truncated to it: its types, its values
\* in every row and column, and a row is drawn by exactly as many levels as its
\* weight says; an alias has the number that the header defines for it, but for
\* that of the first weights, which is not found (dcgram.c, dcomp.c WriteIndex,
\* dist.c).
CompiledIsRead ==
    xDist # <<>> => \E n \in DOMAIN xEntries :
        LET d == xDist
            e == xEntries[n]
            v == v_width(e)
        IN  /\ d.name = e.name
            /\ \A i \in DOMAIN xEntries : Folded(xEntries[i].name) = Folded(e.name) =>
                 \/ i = n
                 \/ LET later == xEntries[IF i < n THEN n ELSE i] IN later.title # later.name
            /\ d.length = Len(e.rows) /\ d.type_vector = e.type_vector
            /\ Len(d.weight_sets) = e.w_width
            /\ \A r \in DOMAIN e.rows :
                 /\ \A i \in 1..v : dist_member(d, r, i) = e.rows[r].values[i]
                 /\ \A w \in 1..e.w_width :
                      /\ dist_weight(d, r, w) = e.rows[r].weights[w]
                      /\ Cardinality({l \in 1..maximum(d, w) : picked(d, l, w) = r})
                           = e.rows[r].weights[w]
            /\ \A w \in 1..e.w_width : \A l \in 1..maximum(d, w), i \in 1..v :
                 dist_op_pick(d, l, i, w) = e.rows[picked(d, l, w)].values[i]
            /\ \A w \in 1..e.w_width :
                 dist_active(d, w) = Cardinality({r \in DOMAIN e.rows : e.rows[r].weights[w] > 0})
            /\ \A a \in DOMAIN e.names :
                 DistNameIndex(d, IF a <= v THEN "value" ELSE "weight", a)
                   = (IF a = v + 1 THEN -1 ELSE xHeader[n][a])
=============================================================================
