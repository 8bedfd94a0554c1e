------------------------------- MODULE Dsqgen -------------------------------
(***************************************************************************)
(* dsqgen, the query generator of TPC-DS.  It parses the query templates,  *)
(* each a list of definitions and a text with references to them, and then *)
(* writes for every stream one query (or COUNT versions) of every template *)
(* in an order of the stream's own.  For each query every definition is    *)
(* evaluated in turn, each at most once: a definition that a later one     *)
(* refers to is evaluated when it is needed, and found done at its turn.   *)
(*                                                                         *)
(* The text of a value is a sequence of strings, those that AddBuffer has  *)
(* put into its buffer.  Buffers are shared: a value that is copied (by    *)
(* memcpy) keeps pointing at the buffer of the original.                   *)
(***************************************************************************)
EXTENDS DsqgenExpressions, DsqgenStreams, SequencesExt

CONSTANT Seeds     \* the values of -RNGSEED

VARIABLES
    lists,         \* the SubstitutionList of every template parsed so far
    turn,          \* the definition of SubstitutionList whose turn it is
    number,        \* nQueryCount of GenerateQuery: the queries written so far
    mem,           \* the values, their buffers and the seed of stream 0
    log            \* the values of this query that were logged

vars == <<streamVars, lists, turn, number, mem, log>>

SubstitutionList(t) == FoldLeft(addList, <<>>, Templates[t].defines)

Define(t, name) == LET D == Templates[t].defines
                   IN  D[CHOOSE i \in DOMAIN D : D[i].name = name].expr

ValueCount(e) == IF nSubParts(e) = 0 THEN 1 ELSE nSubParts(e)

(***************************************************************************)
(* The values.  A cell of arValues is a number or points at a buffer, and  *)
(* carries the number of the query it was evaluated for.                   *)
(***************************************************************************)
Names(t) == {Templates[t].defines[i].name : i \in DOMAIN Templates[t].defines}
Buffer(t, name, i) == <<t, name, i>>
Buffers == UNION {UNION {{Buffer(t, name, i) : i \in 1 .. ValueCount(Define(t, name))}
                           : name \in Names(t)} : t \in 1 .. N}

EmptyMemory(seed) ==
    [cells |-> [t \in 1 .. N |-> [name \in Names(t) |->
                  [i \in 1 .. ValueCount(Define(t, name)) |->
                     [int |-> FALSE, n |-> 0, buf |-> Buffer(t, name, i), query |-> 0]]]],
     text |-> [b \in Buffers |-> <<>>],
     asked |-> [t \in 1 .. N |-> [name \in Names(t) |-> 0]],
     perms |-> [t \in 1 .. N |-> [name \in Names(t) |-> <<>>]],
     seed |-> seed,
     draws |-> 0]

Drawn(m, n) == [m EXCEPT !.seed = FoldLeft(LAMBDA s, i : next_random(s), @, [i \in 1 .. n |-> i]),
                         !.draws = @ + n]

IntValue(n) == [int |-> TRUE, n |-> n, text |-> <<>>]
TextValue(s) == [int |-> FALSE, n |-> 0, text |-> s]
Member(x) == IF x.int THEN IntValue(x.n) ELSE TextValue(<<x.s>>)

\* The value of a cell, as findValue and an argument list read it.
Read(cell, m) == IF cell.int THEN IntValue(cell.n) ELSE TextValue(m.text[cell.buf])
AsText(v) == IF v.int THEN <<ToString(v.n)>> ELSE v.text

\* EvalKeywordExpr.
Keyword(k, t) == [_QUERY |-> IntValue(query), _STREAM |-> IntValue(stream),
                  _TEMPLATE |-> TextValue(<<Templates[t].name>>)][k]

\* The first of the choices that the draw falls on, by their weights.
Weighted(choices, draw) ==
    LET upTo(i) == FoldLeft(LAMBDA a, c : a + c.weight, 0, SubSeq(choices, 1, i))
    IN  choices[CHOOSE i \in DOMAIN choices : upTo(i - 1) < draw /\ draw <= upTo(i)]
Weight(choices) == FoldLeft(LAMBDA a, c : a + c.weight, 0, choices)

\* The members of a distribution that a list of n different strings takes: a
\* string that is there already is passed over.
RECURSIVE Unique(_, _, _, _)
Unique(members, perm, n, found) ==
    IF Len(found) = n THEN found
    ELSE LET m == members[Head(perm)]
         IN  Unique(members, Tail(perm), n,
                    IF ~m.int /\ \E f \in ToSet(found) : f.s = m.s
                    THEN found ELSE Append(found, m))
UniqueMembers(members, perm, n) == Unique(members, perm, n, <<>>)

ListedNumber(perm, i, min, max) == (perm[i] % (max - min + 1)) + min

EvalArithmetic(op, a, b) ==
    CASE op = "+" /\ a.int /\ b.int -> IntValue(a.n + b.n)
      [] op = "+" /\ ~(a.int /\ b.int) -> TextValue(AsText(a) \o AsText(b))
      [] op = "-" -> IntValue(a.n - b.n)

\* Mutants: a value of an earlier query is taken for one of this query; a value
\* of this query is not recognised.
MemoForever(cell) == cell.query # 0
MemoNever(cell) == FALSE

\* EvalExpr evaluates an expression once per query.
Memo(cell) == cell.query = number

\* ResetBuffer for every buffer that the values of a definition point at.
Reset(t, name, m) ==
    [m EXCEPT !.text = [b \in Buffers |->
        IF \E i \in DOMAIN m.cells[t][name] : m.cells[t][name][i].buf = b THEN <<>> ELSE @[b]]]

\* Put values into the cells of a definition, AddBuffer behind what is there.
Store(t, name, values, m) ==
    LET cells == m.cells[t][name]
        put(i) == IF i \notin DOMAIN values THEN cells[i]
                  ELSE [cells[i] EXCEPT !.int = @ \/ values[i].int, !.n = values[i].n]
    IN  [m EXCEPT
           !.cells[t][name] = [i \in DOMAIN cells |->
               IF i = 1 THEN [put(i) EXCEPT !.query = number] ELSE put(i)],
           !.text = [b \in Buffers |->
               IF \E i \in DOMAIN values : ~values[i].int /\ cells[i].buf = b
               THEN @[b] \o values[CHOOSE i \in DOMAIN values : cells[i].buf = b].text
               ELSE @[b]]]

\* What a function returns: its values, and the memory after it.
Result(values, after) == [values |-> values, mem |-> after]

EvalTextExpr(e, m) ==
    LET draw == Uniform(m.seed, 1, Weight(e.choices))
    IN  Result(<<TextValue(<<Weighted(e.choices, draw).s>>)>>, Drawn(m, 1))

\* The permutation of a list is kept for the next query, and shuffled again.
Shuffled(t, name, size, m) == makePermutation(m.perms[t][name], size, m.seed)
Kept(t, name, perm, m) == [Drawn(m, Len(perm)) EXCEPT !.perms[t][name] = perm]

EvalRandomExpr(t, name, e, min, max, m) ==
    LET perm == Shuffled(t, name, max - min + 1, m)
    IN  IF e.list = 0 THEN Result(<<IntValue(Uniform(m.seed, min, max))>>, Drawn(m, 1))
        ELSE Result([i \in 1 .. e.list |-> IntValue(ListedNumber(perm, i, min, max))],
                    Kept(t, name, perm, m))

EvalDistExpr(t, name, e, m) ==
    LET draw == Uniform(m.seed, 1, Weight(e.members))
        perm == Shuffled(t, name, Len(e.members), m)
        found == UniqueMembers(e.members, perm, e.list)
    IN  IF e.list = 0 THEN Result(<<Member(Weighted(e.members, draw))>>, Drawn(m, 1))
        ELSE Result([i \in 1 .. e.list |-> Member(found[i])], Kept(t, name, perm, m))

\* A day is written as the begin of its range and its place there.
EvalDateExpr(e, from, m) ==
    Result(<<TextValue(<<AsText(from)[1], ToString(Uniform(m.seed, 1, e.days))>>)>>, Drawn(m, 1))

RECURSIVE Evaluate(_, _, _), Argument(_, _, _), Values(_, _, _, _)

\* A reference evaluates the definition it names unless one did in this query.
Ask(t, name, m) ==
    IF m.asked[t][name] = number THEN m
    ELSE [Evaluate(t, name, m) EXCEPT !.asked[t][name] = number]

\* EvalExpr for a definition, with the cells of arValues as its result.
Evaluate(t, name, m) ==
    LET e == Define(t, name)
        copied == Ask(t, e.name, m)
        done == Values(t, name, e, m)
    IN  IF e.kind \in {"int", "string", "keyword"} THEN Store(t, name, <<Argument(t, e, m).value>>, m)
        ELSE IF Memo(m.cells[t][name][1]) THEN m
        ELSE IF e.kind = "ref"
        THEN [copied EXCEPT !.cells[t][name][1] =
                 [copied.cells[t][e.name][e.part] EXCEPT !.query = number]]
        ELSE Store(t, name, done.values, done.mem)

\* EvalExpr for an argument: its value, in a buffer of its own.
Argument(t, e, m) ==
    LET asked == Ask(t, e.name, m)
        done == Values(t, "none", e, m)
    IN  CASE e.kind = "int"     -> [value |-> IntValue(e.n), mem |-> m]
          [] e.kind = "string"  -> [value |-> TextValue(<<e.s>>), mem |-> m]
          [] e.kind = "keyword" -> [value |-> Keyword(e.keyword, t), mem |-> m]
          [] e.kind = "ref"     -> [value |-> Read(asked.cells[t][e.name][e.part], asked),
                                    mem |-> asked]
          [] OTHER              -> [value |-> done.values[1], mem |-> done.mem]

\* A function: its arguments from left to right, then the function itself.
Values(t, name, e, m) ==
    LET a == Argument(t, e.args[1], m)
        b == Argument(t, e.args[2], a.mem)
    IN  CASE e.kind = "text" -> EvalTextExpr(e, m)
          [] e.kind = "dist" -> EvalDistExpr(t, name, e, m)
          [] e.kind = "distmember" -> Result(<<Member(e.members[a.value.n])>>, a.mem)
          [] e.kind = "random" -> EvalRandomExpr(t, name, e, a.value.n, b.value.n, b.mem)
          [] e.kind = "date" -> EvalDateExpr(e, a.value, b.mem)
          [] e.kind \in {"+", "-"} -> Result(<<EvalArithmetic(e.kind, a.value, b.value)>>, b.mem)

(***************************************************************************)
(* The generator.                                                          *)
(***************************************************************************)
Init ==
    /\ StreamInit
    /\ lists = <<>>
    /\ turn = 1
    /\ number = 1
    /\ \E seed \in Seeds : mem = EmptyMemory(seed)
    /\ log = <<>>

\* parseTemplate: the definitions of the dialect come before its own.
ParseTemplate ==
    /\ pc = "parse"
    /\ Len(lists) < N
    /\ lists' = Append(lists, SubstitutionList(Len(lists) + 1))
    /\ IF Len(lists) + 1 = N THEN EndParse ELSE UNCHANGED streamVars
    /\ UNCHANGED <<turn, number, mem, log>>

OrderQueries ==
    /\ BeginStream
    /\ UNCHANGED <<lists, turn, number, mem, log>>

\* GenerateQuery begins with an empty log.
OpenQuery ==
    /\ BeginQuery
    /\ turn' = 1
    /\ log' = <<>>
    /\ mem' = [mem EXCEPT !.draws = 0]
    /\ UNCHANGED <<lists, number>>

\* The next definition of the list: its buffers are emptied, it is evaluated
\* and its values are logged.
Select ==
    /\ pc = "select"
    /\ turn <= Len(lists[Current])
    /\ LET d == lists[Current][turn]
           m == Evaluate(Current, d.name, Reset(Current, d.name, mem))
           cells == m.cells[Current][d.name]
       IN  /\ mem' = m
           /\ log' = Append(log, [name |-> d.name,
                                  values |-> [i \in DOMAIN cells |-> Read(cells[i], m)]])
    /\ turn' = turn + 1
    /\ UNCHANGED <<streamVars, lists, number>>

\* nSubUse: the parts of a list are counted from 1, others from 0.
Place(t, ref) == IF nSubParts(Define(t, ref.name)) > 0 THEN ref.suffix ELSE ref.suffix + 1

\* findValue: what a reference in the text is replaced by.
Printed(t, ref) == Read(mem.cells[t][ref.name][Place(t, ref)], mem)

\* The counter of GenerateQuery.
CountQuery == number + 1

\* The text is written with the values in the places of the references.
PrintQuery ==
    /\ pc = "select"
    /\ turn > Len(lists[Current])
    /\ EndQuery([draws |-> mem.draws, log |-> ToSet(log),
                 values |-> [i \in DOMAIN Templates[Current].text |->
                               Printed(Current, Templates[Current].text[i])]])
    /\ number' = CountQuery
    /\ UNCHANGED <<lists, turn, mem, log>>

Done == /\ pc = "stream"
        /\ stream = STREAMS
        /\ UNCHANGED vars

Next == ParseTemplate \/ OrderQueries \/ OpenQuery \/ Select \/ PrintQuery \/ Done

Spec == Init /\ [][Next]_vars

(***************************************************************************)
(* Properties.                                                             *)
(***************************************************************************)
\* The draws that selecting every value of a template once takes.
NeededBy(e) ==
    CASE e.kind \in {"text", "date"} -> 1
      [] e.kind \in {"random", "dist"} /\ e.list = 0 -> 1
      [] e.kind = "random" /\ e.list > 0 -> e.args[2].n - e.args[1].n + 1
      [] e.kind = "dist" /\ e.list > 0 -> Len(e.members)
      [] OTHER -> 0
Needed(t) == FoldLeft(LAMBDA a, d : a + NeededBy(d.expr), 0, Templates[t].defines)

\* Every definition is evaluated exactly once per query, be it first needed by
\* another definition or reached in its own turn: "expressions get evaluated
\* once per query".
OncePerQuery == \A i \in DOMAIN written : written[i].text.draws = Needed(written[i].template)

Refs(t) == Templates[t].text

\* Definition d of template t is copied by another one.
Copied(t, name) == \E i \in DOMAIN Templates[t].defines :
    LET e == Templates[t].defines[i].expr IN e.kind = "ref" /\ e.name = name

\* What an expression over other definitions must be, given what is printed of
\* those in query q.
RECURSIVE Expected(_, _)
Expected(q, e) ==
    CASE e.kind = "int"     -> IntValue(e.n)
      [] e.kind = "string"  -> TextValue(<<e.s>>)
      [] e.kind = "keyword" -> [_QUERY |-> IntValue(q.query), _STREAM |-> IntValue(q.stream),
                                _TEMPLATE |-> TextValue(<<Templates[q.template].name>>)][e.keyword]
      [] e.kind = "ref" -> q.text.values[CHOOSE i \in DOMAIN q.text.values :
                                      /\ Refs(q.template)[i].name = e.name
                                      /\ Place(q.template, Refs(q.template)[i]) = e.part]
      [] e.kind = "distmember" -> Member(e.members[Expected(q, e.args[1]).n])
      [] e.kind \in {"+", "-"} ->
           EvalArithmetic(e.kind, Expected(q, e.args[1]), Expected(q, e.args[2]))

\* All places of a query that depend on one definition show one selection of
\* it: a county and its state, a year and the year before.  The header and the
\* footer name this query.
OneSelection ==
    \A i \in DOMAIN written : LET q == written[i] IN \A k \in DOMAIN q.text.values :
        LET ref == Refs(q.template)[k]
            e == Define(q.template, ref.name)
        IN  e.kind \in {"ref", "distmember", "+", "-"} /\ ~Copied(q.template, ref.name)
              => q.text.values[k] = Expected(q, e)

\* A text that no definition copies is one of those it may be: never empty, and
\* never behind what an earlier query left in the buffer.
TextsAreFresh ==
    \A i \in DOMAIN written : LET q == written[i] IN \A k \in DOMAIN q.text.values :
        LET e == Define(q.template, Refs(q.template)[k].name)
        IN  ~Copied(q.template, Refs(q.template)[k].name) =>
              /\ e.kind = "text" => \E c \in ToSet(e.choices) : q.text.values[k] = TextValue(<<c.s>>)
              /\ e.kind = "dist" => \E m \in ToSet(e.members) : q.text.values[k] = Member(m)
              /\ e.kind = "date" => Len(q.text.values[k].text) = 2

\* The values of a list are different ones of its range.
ListsAreUnique ==
    \A i \in DOMAIN written : LET q == written[i] IN \A j, k \in DOMAIN q.text.values :
        LET r == Refs(q.template)[j]
            e == Define(q.template, r.name)
        IN  nSubParts(e) > 0 =>
              /\ Refs(q.template)[k].name = r.name /\ Refs(q.template)[k].suffix # r.suffix
                   => q.text.values[j] # q.text.values[k]
              /\ e.kind = "random" => q.text.values[j].n \in e.args[1].n .. e.args[2].n

\* What is printed for a definition is one of the values that were logged when
\* they were selected, and not an empty text.  (It is not so for a text that
\* another definition copies, which no template of the repository does: both
\* share one buffer, which its own turn empties.)
SelectedValuesPrinted ==
    \A i \in DOMAIN written : LET q == written[i] IN \A k \in DOMAIN q.text.values :
        /\ q.text.values[k] # TextValue(<<>>)
        /\ \E l \in q.text.log : /\ l.name = Refs(q.template)[k].name
                            /\ q.text.values[k] \in ToSet(l.values)

\* The text of a query agrees with itself, with what was selected for it and
\* with what its definitions allow.
ReferencesAgree == OneSelection /\ TextsAreFresh /\ ListsAreUnique /\ SelectedValuesPrinted
=============================================================================
