------------------------------ MODULE MCDsqgen ------------------------------
(***************************************************************************)
(* Three templates with the kinds of definitions that the templates of     *)
(* trino-tpcds-kit/query-templates have, and the definitions of impala.tpl *)
(* before them.  Small random numbers.                                     *)
(***************************************************************************)
EXTENDS Dsqgen

Plus(a, b) == makeArithmeticExpr("+", a, b)
Ref(name) == MakeVariableReference(name, 0)
Random(min, max) == CallRandom(MakeIntConstant(min), MakeIntConstant(max))

\* A banner names the query, the stream and the template.
Banner(word) == Plus(Plus(Plus(MakeStringConstant(word), getKeywordValue("_QUERY")),
                          getKeywordValue("_STREAM")), getKeywordValue("_TEMPLATE"))

\* The ranks are those of the names without case; "_" comes before letters.
Dialect == <<defineSubstitution("__LIMITA", 1, MakeStringConstant("limit")),
             defineSubstitution("_BEGIN", 2, Banner("start")),
             defineSubstitution("_END", 3, Banner("end"))>>

\* A template, with references by name or, to a part of a list, <<name, part>>.
Template(name, defines, text) ==
    [name |-> name, defines |-> Dialect \o defines,
     text |-> <<AddQuerySubstitution("_BEGIN", 0)>>
              \o [i \in DOMAIN text |-> AddQuerySubstitution(text[i][1], text[i][2])]
              \o <<AddQuerySubstitution("_END", 0)>>]

fips_county == <<StringMember("WA", 1), StringMember("OR", 2), StringMember("CA", 1),
                 StringMember("NV", 1)>>
categories == <<StringMember("Books", 1), StringMember("Music", 2), StringMember("Books", 2),
                StringMember("Shoes", 1)>>
i_manager_id == <<IntMember(2, 1), IntMember(5, 2), IntMember(7, 1)>>

County == Template("query1",
    <<defineSubstitution("COUNTY", 13, Random(1, 4)),
      defineSubstitution("STATE", 29, CallDistMember(fips_county, Ref("COUNTY"))),
      defineSubstitution("AGG_FIELD", 10, CallText(
          <<MakeReplacement("sr_fee", 1), MakeReplacement("sr_return_amt", 2)>>))>>,
    <<<<"COUNTY", 0>>, <<"AGG_FIELD", 0>>, <<"STATE", 0>>, <<"AGG_FIELD", 0>>>>)

StateOf(part) == CallDistMember(fips_county, MakeVariableReference("STATENUMBER", part))

States == Template("query27",
    <<defineSubstitution("STATENUMBER", 30, MakeListExpr(Random(1, 4), 3)),
      defineSubstitution("STATE_A", 27, StateOf(1)),
      defineSubstitution("STATE_C", 28, StateOf(3)),
      defineSubstitution("YEAR", 35, Random(1998, 2002)),
      defineSubstitution("PRIOR", 20, makeArithmeticExpr("-", Ref("YEAR"), MakeIntConstant(1))),
      defineSubstitution("YEAR_TOO", 36, Ref("YEAR")),
      defineSubstitution("SDATE", 22, CallDate(Plus(Ref("YEAR"), MakeStringConstant("-01-01")),
                                               Plus(Ref("YEAR"), MakeStringConstant("-01-05")), 5))>>,
    <<<<"STATENUMBER", 1>>, <<"STATENUMBER", 2>>, <<"STATENUMBER", 3>>, <<"STATE_A", 0>>,
      <<"STATE_C", 0>>, <<"YEAR", 0>>, <<"PRIOR", 0>>, <<"YEAR_TOO", 0>>, <<"SDATE", 0>>>>)

Managers == Template("query19",
    <<defineSubstitution("CATEGORY", 12, MakeListExpr(CallDist(categories), 3)),
      defineSubstitution("MGR_IDX", 19, CallDist(<<IntMember(1, 1), IntMember(2, 2)>>)),
      defineSubstitution("MANAGER", 18,
          CallRandom(CallDistMember(i_manager_id, Ref("MGR_IDX")), MakeIntConstant(8)))>>,
    <<<<"CATEGORY", 1>>, <<"CATEGORY", 2>>, <<"CATEGORY", 3>>, <<"MANAGER", 0>>, <<"MGR_IDX", 0>>>>)

MCTemplates == <<County, States, Managers>>
MCSeeds == 1 .. 30
=============================================================================
