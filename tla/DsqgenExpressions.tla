-------------------------- MODULE DsqgenExpressions --------------------------
(***************************************************************************)
(* The expressions that dsqgen parses definitions into, under the names of *)
(* the functions that make them.  A name is compared by its rank, its      *)
(* place in the order of strcasecmp.                                       *)
(***************************************************************************)
EXTENDS Integers, Sequences

MakeIntConstant(n) == [kind |-> "int", n |-> n]
MakeStringConstant(s) == [kind |-> "string", s |-> s]

\* _QUERY, _STREAM and _TEMPLATE are definitions that every template finds.
getKeywordValue(k) == [kind |-> "keyword", keyword |-> k]

\* [NAME.part]; without a part, or with .begin, it is the first value.
MakeVariableReference(name, part) ==
    [kind |-> "ref", name |-> name, part |-> IF part >= 1 THEN part ELSE 1]

\* op is "+" or "-".
makeArithmeticExpr(op, a, b) == [kind |-> op, args |-> <<a, b>>]

MakeReplacement(s, weight) == [int |-> FALSE, n |-> 0, s |-> s, weight |-> weight]

\* A member of a distribution, a string or an integer, and its weight.
StringMember(s, weight) == [int |-> FALSE, n |-> 0, s |-> s, weight |-> weight]
IntMember(n, weight) == [int |-> TRUE, n |-> n, s |-> "", weight |-> weight]

\* MakeFunctionCall, by the keyword of the function.
CallText(choices) == [kind |-> "text", choices |-> choices]
CallRandom(a, b) == [kind |-> "random", args |-> <<a, b>>, list |-> 0]
CallDist(members) == [kind |-> "dist", members |-> members, list |-> 0]
CallDistMember(members, a) == [kind |-> "distmember", members |-> members, args |-> <<a>>]
CallDate(from, to, days) == [kind |-> "date", args |-> <<from, to>>, days |-> days]

\* ulist(e, n).
MakeListExpr(e, n) == [e EXCEPT !.list = n]

\* nSubParts: the values a definition has, if it is a list.
nSubParts(e) == IF e.kind \in {"random", "dist"} THEN e.list ELSE 0

\* A definition, and a reference to one in the text of a query.
defineSubstitution(name, rank, e) == [name |-> name, rank |-> rank, expr |-> e]
AddQuerySubstitution(name, suffix) == [name |-> name, suffix |-> suffix]

compareSubstitution(d1, d2) == d1.rank - d2.rank

(***************************************************************************)
(* The sorted list of the definitions.  A new element becomes the head, or *)
(* goes right behind the head: the loop that looks for its place stops at  *)
(* the head, which is smaller.                                             *)
(***************************************************************************)
addList(list, d) ==
    IF list = <<>> THEN <<d>>
    ELSE IF compareSubstitution(d, Head(list)) <= 0 THEN <<d>> \o list
    ELSE <<Head(list), d>> \o Tail(list)
=============================================================================
