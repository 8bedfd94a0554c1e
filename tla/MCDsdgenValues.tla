--------------------------- MODULE MCDsdgenValues ---------------------------
(***************************************************************************)
(* An instance of DsdgenValues: the real tables, calendar and scales; jobs *)
(* at the ends of the tables and where scales and dates meet a boundary.   *)
(***************************************************************************)
EXTENDS DsdgenInstance, DsdgenValues

MCLayouts == tableLayouts

\* date_dim in overlapping parts, so that any order of building is covered by
\* chunks that a process may have.
MCDateStarts == {1000 * i : i \in 0..73}

History_Job(table, scale, first) == [table |-> table, scale |-> scale, first |-> first]
MCDimensionJobs == {
    History_Job("CALL_CENTER", 1, 1), History_Job("CALL_CENTER", 5, 1),
    History_Job("CALL_CENTER", 10, 13), History_Job("WEB_SITE", 1, 19),
    History_Job("WEB_SITE", 7, 1), History_Job("WEB_SITE", 100, 1),
    History_Job("STORE", 1, 1), History_Job("STORE", 5, 43),
    History_Job("ITEM", 1, 1), History_Job("ITEM", 3000, 359989),
    History_Job("ITEM", 100000, 501991), History_Job("WEB_PAGE", 10, 193),
    History_Job("WEB_PAGE", 1, 1)}

Orders_Job(table, scale, parallel, child) ==
    [table |-> table, scale |-> scale, parallel |-> parallel, child |-> child]
MCOrderJobs == {
    Orders_Job("CATALOG_SALES", 10, 263, 2), Orders_Job("CATALOG_SALES", 10, 263, 6),
    Orders_Job("CATALOG_SALES", 10, 526, 2), Orders_Job("STORE_SALES", 10, 200, 1),
    Orders_Job("STORE_SALES", 10, 200, 2), Orders_Job("STORE_SALES", 10, 200, 7),
    Orders_Job("WEB_SALES", 1, 1, 1), Orders_Job("WEB_SALES", 1, 2, 2),
    Orders_Job("WEB_SALES", 100, 100, 2)}

\* Dates of every zone: its ends, the leap day, leap years and others.
MCPickedDates ==
    [low |-> {dttoj(1998, 1, 1), dttoj(2000, 1, 1), dttoj(1999, 2, 28),
              dttoj(2000, 7, 31), dttoj(2002, 7, 31)},
     medium |-> {dttoj(1998, 8, 1), dttoj(2000, 10, 31), dttoj(2001, 10, 30)},
     high |-> {dttoj(1998, 11, 1), dttoj(2002, 12, 31), dttoj(2000, 12, 31),
               dttoj(2001, 12, 20)}]

MCFolded(name) == IF name = "Colors" THEN "colors" ELSE name
MCTruncated(name) == IF name = "sizes_of_all" THEN "sizes" ELSE name
MCLengthOf(text) == IF text = "red" THEN 3 ELSE 1
MCTypeRows == {<<"int">>, <<"varchar", "int">>}
MCValueRows == {<<"7", "red">>, <<"red", "7">>}
MCWeightRows == {<<2, 1>>, <<0, 3>>}

\* Command lines: two or three options that may get into each other's way, and
\* every table by its name and its abbreviation.
Given(name, value) == [name |-> name, value |-> value]
StrayWord == Given("", "stray")
FileLine(name, value, residue) == [name |-> name, value |-> value, residue |-> residue]
MCParameterFiles == [
    small |-> <<FileLine("SCALE", "10", ""), FileLine("FORCE", "Y", ""),
                FileLine("nonsense", "1", "")>>,
    large |-> <<FileLine("DIR", "/data", ""), FileLine("SCALE", "1000", ""),
                FileLine("SCALE", "1", "")>>,
    bare |-> <<FileLine("QUIET", "", "10"), FileLine("FORCE", "", "Y"),
               FileLine("VERBOSE", "", "")>>]
MCAbbreviations == [
    sc |-> {"SCALE"}, s |-> {"SCALE", "SUFFIX"}, filt |-> {"FILTER"}, nonsense |-> {},
    f |-> {"FORCE", "FILTER"}, par |-> {"PARAMS", "PARALLEL"}, param |-> {"PARAMS"}]
KnownNumbers == (0..9) \cup {10, 50, 100, 1000, 100000, -5}
MCNumbers == [n \in {ToString(i) : i \in KnownNumbers} |->
                 CHOOSE i \in KnownNumbers : ToString(i) = n]
Interplay == {
    Given("sc", "100"), Given("param", "small"), Given("PARAMS", "large"),
    Given("PARAMS", "bare"), Given("FORCE", "N"), Given("FILTER", ""), StrayWord}
Settings == Interplay \cup {
    Given("SCALE", "0"), Given("SCALE", "-5"), Given("FORCE", ""), Given("filt", ""),
    Given("param", "missing"), Given("s", "1"), Given("nonsense", ""), Given("DIR", "/tmp"),
    Given("TERMINATE", "N")}
LastOptions == {Given("SCALE", ""), Given("RELEASE", ""), Given("HELP", ""), Given("VERBOSE", "Y")}
Sizes == {Given("PARALLEL", "4"), Given("PARALLEL", "1"), Given("CHILD", "0")}
ChosenTables ==
    {Given("TABLE", t) : t \in ToSet(tdefs_Order) \cup {"ALL", "store_s"}}
    \cup {Given("ABREVIATION", a) : a \in ToSet(abreviations) \cup {"ALL", "xx"}}
MCCommandLines ==
    {<<>>} \cup (Settings \X Settings) \cup (Interplay \X Interplay \X Interplay)
    \cup (Settings \X LastOptions) \cup (Sizes \X Sizes)
    \cup {<<table>> \o update \o filter : table \in ChosenTables,
             update \in {<<>>, <<Given("UPDATE", "1")>>}, filter \in {<<>>, <<Given("FILTER", "")>>}}

\* Every table by itself; one after the other where the rows of both are alike.
MCTables == itsTables
MCStreamArray == itsStreamArray
MCSerial == itsSerial
MCValidations == {<<t>> : t \in itsTables} \cup {
    <<"CALL_CENTER", "ITEM">>, <<"STORE_SALES", "STORE">>, <<"S_PURCHASE", "S_WEB_ORDER">>}
MCRandomRows == [t \in itsTables |-> IF t = "S_ZIPG" THEN {1, 600, 601, 1001} ELSE 1..7]
MCItemKeys == {<<3, 5, 2, 6, 1, 7, 4>>}

\* Both ends of every range but for the widest, and a third of the percentages:
\* amounts that do not divide.
MCTried(low, high) ==
    {high, IF high - low > 1000 THEN low + (high - low) \div 7 ELSE low}
    \cup (IF high - low \in 99..100 THEN {low + (high - low) \div 3} ELSE {})
=============================================================================
