--------------------------- MODULE DsdgenValidation --------------------------
(***************************************************************************)
(* dsdgen -validate: rows of a table picked at random and built by         *)
(* themselves, to be compared with those of the data files (validate.c,    *)
(* the vld_* of the builders, main).  A stream is given by the number of   *)
(* draws made from it since its seed, as far as that can be told: behind a *)
(* row it depends on what was drawn.                                       *)
(***************************************************************************)
EXTENDS DsdgenTdefs, DsdgenDimension, SequencesExt

CONSTANTS
    Tables,       \* those that dsdgen implements, as in DsdgenParallel
    StreamArray,  \* the streams as they are at first: the table, the draws of a
                  \* row, whether another stream duplicates it, the tables whose
                  \* builder draws from it, and the draws made, 0
    Serial,       \* by table, how a run from the first row draws: first, the
                  \* streams of the first row alone, and rate, those that every
                  \* row moves by the same number, with the number
    Validations,  \* the tables of one process: a sequence
    RandomRows,   \* by table, rows that may be picked
    VCOUNT,       \* the rows to be picked of each
    ItemKeys      \* permutations: by row of s_item and s_web_page the warehouse row

VARIABLES
    vTables,  \* the tables still to validate, the first one now
    vCount,   \* kValidateCount
    vKeys,    \* the permutation
    vStreams, \* Streams[], with the draws made from each, or Elsewhere
    vBegun,   \* the tables whose builder was called
    vMade,    \* the rows built for the last row picked, each with the draws made
              \* from the streams until then
    vSerial,  \* Serial of the tables to validate
    vLine     \* what was printed last: the table, row and line, its number and
              \* the lines of the order
validationVars == <<vTables, vCount, vKeys, vStreams, vBegun, vMade, vSerial, vLine>>

Elsewhere == -1
implemented == w_tdefs @@ s_tdefs

(***************************************************************************)
(* parallel.c, genrand.c                                                   *)
(***************************************************************************)
\* The powers of the multiplier by squaring: where N draws lead to.
RECURSIVE skip_power(_, _, _)
skip_power(n, z, m) ==
    IF n = 0 THEN z ELSE skip_power(n \div 2, IF n % 2 # 0 THEN z + m ELSE z, m + m)
skip_random(n) == skip_power(n, 0, 1)

\* A stream that another one duplicates is moved whatever the table.
row_skip(streams, table, count) ==
    [s \in DOMAIN streams |->
        IF streams[s].nTable = table \/ streams[s].duplicated
          THEN [streams[s] EXCEPT !.drawn = skip_random(count * streams[s].nUsedPerRow)]
        ELSE streams[s]]
row_stop(streams, table) ==
    [s \in DOMAIN streams |->
        [streams[s] EXCEPT !.drawn = IF streams[s].nTable = table THEN Elsewhere ELSE @]]

(***************************************************************************)
(* What a process has done, v, is changed by the calls that move or use    *)
(* the streams.                                                            *)
(***************************************************************************)
\* The histories of the update set are built by the routine of the warehouse.
WarehouseOf(t) == CASE t = "S_ITEM" -> "ITEM" [] t = "S_WEB_PAGE" -> "WEB_PAGE" [] OTHER -> t

\* The builder of table t, for row k, when the table validated is of.
builder(v, of, t, k) ==
    [streams |-> [s \in DOMAIN v.streams |->
                     [v.streams[s] EXCEPT !.drawn = IF {of, t} \cap v.streams[s].drawnBy # {} THEN Elsewhere
                                                    ELSE @]],
     begun |-> v.begun \cup {t},
     made |-> Append(v.made, [table |-> t, row |-> k, first |-> t \notin v.begun,
                              drawn |-> [s \in DOMAIN v.streams |-> v.streams[s].drawn]])]

Skip(t, n) == [name |-> "row_skip", table |-> t, of |-> t, n |-> n]
Stop(t) == [name |-> "row_stop", table |-> t, of |-> t, n |-> 0]
Build(of, t, k) == [name |-> "builder", table |-> t, of |-> of, n |-> k]

afterCall(v, call) ==
    CASE call.name = "row_skip" -> [v EXCEPT !.streams = row_skip(@, call.table, call.n)]
      [] call.name = "row_stop" -> [v EXCEPT !.streams = row_stop(@, call.table)]
      [] call.name = "builder" -> builder(v, call.of, call.table, call.n)
afterCalls(v, calls) ==
    LET after[i \in 0..Len(calls)] == IF i = 0 THEN v ELSE afterCall(after[i - 1], calls[i])
    IN  after[Len(calls)]

(***************************************************************************)
(* The functions that validate row k of table t, as the calls they make.   *)
(***************************************************************************)
\* A table of the update set that a builder of the warehouse makes.
PassedThrough(t) ==
    IF "PASSTHRU" \notin implemented[t].flags THEN t
    ELSE CASE t = "S_CUSTOMER_ADDRESS" -> "CUSTOMER_ADDRESS"
           [] t = "S_CATALOG_PAGE" -> "CATALOG_PAGE"
           [] OTHER -> t

validateGeneric(t, k) ==
    LET table == PassedThrough(t)
        child == implemented[table].child
    IN  <<Skip(table, k - 1)>> \o (IF child # "none" THEN <<Skip(child, k - 1)>> ELSE <<>>)
        \o <<Build(table, t, k)>>

\* The revisions before a row are built before it.
RECURSIVE validateSCD(_, _, _)
validateSCD(t, k, keys) ==
    LET table == WarehouseOf(t)
        id == IF table # t THEN keys[k] ELSE k
    IN  <<Skip(t, k - 1)>>
        \o (IF ~newBKey(id) /\ k > 1 THEN validateSCD(t, k - 1, keys) ELSE <<>>)
        \o <<Skip(table, k - 1), Build(table, t, k)>>

\* The lines of an order, and of one that is validated; the number drawn is the
\* same for both.
LineRange(t) == CASE t \in {"STORE_SALES", "WEB_SALES"} -> [lo |-> 8, hi |-> 16]
                  [] t = "CATALOG_SALES" -> [lo |-> 4, hi |-> 14]
                  [] t \in {"S_PURCHASE", "S_WEB_ORDER"} -> [lo |-> 12, hi |-> 12]
                  [] t = "S_CATALOG_ORDER" -> [lo |-> 9, hi |-> 9]
validatedLines(t, x) ==
    CASE t \in {"STORE_SALES", "WEB_SALES"} -> 8 + (x % 9)
      [] t = "CATALOG_SALES" -> 4 + (x % 11)
      [] t \in {"S_PURCHASE", "S_WEB_ORDER"} -> 12
      [] t = "S_CATALOG_ORDER" -> 9
OrderTables == {"STORE_SALES", "WEB_SALES", "CATALOG_SALES", "S_PURCHASE", "S_WEB_ORDER", "S_CATALOG_ORDER"}

\* The sales, and the orders of the update set; the budget of the lines of a
\* catalog order is that of one line.
vld_web_sales_AnyReturns(k) == <<Skip("WEB_SALES", k - 1), Build("WEB_SALES", "WEB_SALES", k)>>
vld_web_sales(k) ==
    <<Skip("WEB_SALES", k - 1), Skip("WEB_RETURNS", k - 1), Build("WEB_SALES", "WEB_SALES", k)>>
vld_w_store_sales(k) ==
    <<Skip("STORE_SALES", k - 1), Skip("STORE_RETURNS", k - 1), Build("STORE_SALES", "STORE_SALES", k)>>
vld_w_catalog_sales(k) ==
    <<Skip("CATALOG_SALES", k - 1), Skip("CATALOG_RETURNS", k - 1),
      Build("CATALOG_SALES", "CATALOG_SALES", k)>>
vld_s_web_order(k) ==
    <<Skip("S_WEB_ORDER", k - 1), Skip("S_WEB_ORDER_LINEITEM", k - 1), Skip("S_WEB_RETURNS", k - 1),
      Build("S_WEB_ORDER", "S_WEB_ORDER", k)>>
vld_s_purchase(k) ==
    <<Skip("S_PURCHASE", k - 1), Skip("S_PURCHASE_LINEITEM", k - 1), Skip("S_STORE_RETURNS", k - 1),
      Build("S_PURCHASE", "S_PURCHASE", k)>>
vld_s_catalog_order(k) ==
    <<Skip("S_CATALOG_ORDER", k - 1), Skip("S_CATALOG_ORDER_LINEITEM", (k - 1) * 9),
      Skip("S_CATALOG_RETURNS", k - 1), Build("S_CATALOG_ORDER", "S_CATALOG_ORDER", k)>>

vld_s_promotion(k) ==
    <<Skip("PROMOTION", k - 1), Build("PROMOTION", "S_PROMOTION", k), Stop("PROMOTION")>>
vld_s_item(k, keys) == validateSCD("S_ITEM", k, keys)
vld_s_web_page(k, keys) == validateSCD("S_WEB_PAGE", k, keys)
vld_s_customer_address(k) == validateGeneric("S_CUSTOMER_ADDRESS", k)
vld_s_catalog_page(k) == validateGeneric("S_CATALOG_PAGE", k)

\* row_skip for a table that is not there; nothing is drawn.
vld_s_zip(k) == <<Build("S_ZIPG", "S_ZIPG", k), Stop("S_ZIPG")>>

\* The columns validate of w_tdef_funcs and s_tdef_funcs.  A date draws nothing
\* but its nulls (vld_w_date).
validate(t, k, keys) ==
    CASE t \in {"CALL_CENTER", "ITEM", "STORE", "WEB_PAGE", "WEB_SITE"} -> validateSCD(t, k, keys)
      [] t = "CATALOG_SALES" -> vld_w_catalog_sales(k)
      [] t = "STORE_SALES" -> vld_w_store_sales(k)
      [] t = "WEB_SALES" -> vld_web_sales(k)
      [] t = "DATE" -> <<Build("DATE", "DATE", k)>>
      [] t = "S_CUSTOMER_ADDRESS" -> vld_s_customer_address(k)
      [] t = "S_CATALOG_ORDER" -> vld_s_catalog_order(k)
      [] t = "S_CATALOG_PAGE" -> vld_s_catalog_page(k)
      [] t = "S_ITEM" -> vld_s_item(k, keys)
      [] t = "S_PROMOTION" -> vld_s_promotion(k)
      [] t = "S_PURCHASE" -> vld_s_purchase(k)
      [] t = "S_WEB_ORDER" -> vld_s_web_order(k)
      [] t = "S_WEB_PAGE" -> vld_s_web_page(k, keys)
      [] t = "S_ZIPG" -> vld_s_zip(k)
      [] OTHER -> validateGeneric(t, k)
NeverValidated == {t \in Tables : "CHILD" \in implemented[t].flags} \cup {"DBGEN_VERSION"}

(***************************************************************************)
(* s_zip_to_gmt.c: the last zip code of each region and its offset.        *)
(***************************************************************************)
NoOffset == -99
arGMTOffset == <<
    <<599, NoOffset>>, <<33999, -5>>, <<34999, -6>>, <<34095, -5>>, <<36999, -6>>, <<38599, -5>>,
    <<39999, -6>>, <<41799, -5>>, <<42799, -6>>, <<49999, -5>>, <<57499, -6>>, <<57999, -7>>,
    <<58499, -6>>, <<59999, -7>>, <<68999, -6>>, <<69999, -7>>, <<78999, -6>>, <<83699, -7>>,
    <<83999, -8>>, <<88999, -7>>, <<96699, -8>>, <<96899, -10>>, <<99499, -8>>, <<99999, -9>> >>
mk_s_zip(k) ==
    LET region == CHOOSE i \in DOMAIN arGMTOffset :
                     /\ k - 1 <= arGMTOffset[i][1]
                     /\ \A j \in 1..(i - 1) : k - 1 > arGMTOffset[j][1]
    IN  arGMTOffset[region][2]

nothingPrinted == [table |-> "none", row |-> 0, line |-> 0, lines |-> 0, key |-> 0]

\* The line printed for a row: of an order any one, x being what the stream of
\* the order number gives; none of a zip code that is not used.
linesPrinted(t, k) ==
    LET printed(line, lines, key) ==
            [table |-> t, row |-> k, line |-> line, lines |-> lines, key |-> key]
        range == LineRange(t)
        number(line, lines) ==
            IF "VPRINT" \in implemented[t].flags THEN 0 ELSE (k - 1) * lines + line
    IN  CASE t \in OrderTables ->
               UNION {LET lines == range.lo + (x % (range.hi - range.lo + 1))
                      IN  {printed(line, lines, number(line, lines)) : line \in {1, validatedLines(t, x)}}
                      : x \in {0, 8, 10}}
          [] t = "S_ZIPG" /\ mk_s_zip(k) = NoOffset -> {nothingPrinted}
          [] t = "S_ZIPG" /\ mk_s_zip(k) # NoOffset -> {printed(1, 1, k - 600)}
          [] OTHER -> {printed(1, 1, k)}

(***************************************************************************)
(* main                                                                    *)
(***************************************************************************)
ValidationIdle ==
    vTables = <<>> /\ vCount = 0 /\ vKeys = <<>> /\ vStreams = <<>> /\ vBegun = {} /\ vMade = <<>>
    /\ vSerial = <<>> /\ vLine = nothingPrinted
ValidationInit ==
    /\ vTables \in Validations /\ vCount = VCOUNT /\ vKeys \in ItemKeys /\ vStreams = StreamArray
    /\ vSerial = Restrict(Serial, ToSet(vTables))
    /\ vBegun = {} /\ vMade = <<>> /\ vLine = nothingPrinted

\* One random row.
ValidateRow ==
    /\ vTables # <<>> /\ vCount > 0 /\ Head(vTables) \notin NeverValidated
    /\ \E k \in RandomRows[Head(vTables)] :
         /\ \E v \in {afterCalls([streams |-> vStreams, begun |-> vBegun, made |-> <<>>],
                                 validate(Head(vTables), k, vKeys))} :
              vStreams' = v.streams /\ vBegun' = v.begun /\ vMade' = v.made
         /\ vLine' \in linesPrinted(Head(vTables), k)
    /\ vCount' = vCount - 1
    /\ UNCHANGED <<vTables, vKeys, vSerial>>

NextTable ==
    /\ vTables # <<>> /\ (vCount = 0 \/ Head(vTables) \in NeverValidated)
    /\ vTables' = Tail(vTables) /\ vCount' = VCOUNT
    /\ UNCHANGED <<vKeys, vStreams, vBegun, vMade, vSerial, vLine>>

(***************************************************************************)
(* Properties                                                              *)
(***************************************************************************)
\* S_CALL_CENTER, S_STORE and S_WAREHOUSE make the permutation of their ids
\* from the stream that the ids come from, which the skip to the row has moved.
OwnPermutation == {"S_CALL_CENTER", "S_STORE", "S_WAREHOUSE"}
\* The nulls of a date are drawn and not used; the id of a history of the update
\* set was drawn before its builder is called.
Unwatched(t) == IF t \in {"DATE", "S_ITEM", "S_WEB_PAGE"}
                  THEN {s \in DOMAIN vStreams : vStreams[s].nTable = t} ELSE {}

\* A row that is picked to be validated is built from the numbers that a run
\* from the first row on gives it: whatever was validated before, every stream
\* of its builder, and of its lines and returns, stands where that run has it,
\* and a permutation is made from the start of its stream.  A row of a history
\* is built after all the rows of its business key before it, in order; the
\* line that is printed is one of its order and carries the number that it has
\* in the data files (validate.c validateGeneric, validateSCD, the vld_*).
ValidatedRowIsSerial ==
    /\ \A i \in DOMAIN vMade :
         LET m == vMade[i]
         IN  /\ \A s \in DOMAIN vSerial[m.table].rate \ Unwatched(m.table) :
                  m.table \notin OwnPermutation => m.drawn[s] = (m.row - 1) * vSerial[m.table].rate[s]
             /\ m.first /\ m.table \notin OwnPermutation =>
                  \A s \in vSerial[m.table].first : m.drawn[s] = 0
    /\ vMade # <<>> /\ WarehouseOf(vMade[1].table) = vMade[1].table =>
         /\ \A i \in 1..(Len(vMade) - 1) : vMade[i + 1].row = vMade[i].row + 1
         /\ vMade[1].table \in DOMAIN w_tdefs /\ "TYPE_2" \in w_tdefs[vMade[1].table].flags
              => newBKey(vMade[1].row)
    /\ vLine # nothingPrinted =>
         /\ vLine.line \in 1..vLine.lines
         /\ vLine.table = "S_ZIPG" => vLine.key = Cardinality({z \in 1..vLine.row : mk_s_zip(z) # NoOffset})
=============================================================================
