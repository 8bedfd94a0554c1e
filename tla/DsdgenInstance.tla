------------------------- MODULE DsdgenInstance -------------------------
(***************************************************************************)
(* The tables, streams and builders of dsdgen as they are, with small row  *)
(* counts, as constants for DsdgenParallel.  A stream is given by its      *)
(* number, which is that of its column.                                    *)
(***************************************************************************)
EXTENDS DsdgenSourceBuilders, DsdgenColumns, DsdgenStreams, DsdgenTdefs, SequencesExt

\* By table, the parts of the generator that dsdgen implements (not FL_NOP).
ColumnsOf == [
    CALL_CENTER |-> CALL_CENTER_Columns, CATALOG_PAGE |-> CATALOG_PAGE_Columns,
    CATALOG_RETURNS |-> CATALOG_RETURNS_Columns, CATALOG_SALES |-> CATALOG_SALES_Columns,
    CUSTOMER |-> CUSTOMER_Columns, CUSTOMER_ADDRESS |-> CUSTOMER_ADDRESS_Columns,
    CUSTOMER_DEMOGRAPHICS |-> CUSTOMER_DEMOGRAPHICS_Columns, DATE |-> DATE_Columns,
    HOUSEHOLD_DEMOGRAPHICS |-> HOUSEHOLD_DEMOGRAPHICS_Columns, INCOME_BAND |-> INCOME_BAND_Columns,
    INVENTORY |-> INVENTORY_Columns, ITEM |-> ITEM_Columns, PROMOTION |-> PROMOTION_Columns,
    REASON |-> REASON_Columns, SHIP_MODE |-> SHIP_MODE_Columns, STORE |-> STORE_Columns,
    STORE_RETURNS |-> STORE_RETURNS_Columns, STORE_SALES |-> STORE_SALES_Columns,
    TIME |-> TIME_Columns, WAREHOUSE |-> WAREHOUSE_Columns, WEB_PAGE |-> WEB_PAGE_Columns,
    WEB_RETURNS |-> WEB_RETURNS_Columns, WEB_SALES |-> WEB_SALES_Columns,
    WEB_SITE |-> WEB_SITE_Columns, DBGEN_VERSION |-> DBGEN_VERSION_Columns,
    S_CUSTOMER_ADDRESS |-> S_CUSTOMER_ADDRESS_Columns, S_CALL_CENTER |-> S_CALL_CENTER_Columns,
    S_CATALOG_ORDER |-> S_CATALOG_ORDER_Columns,
    S_CATALOG_ORDER_LINEITEM |-> S_CATALOG_ORDER_LINEITEM_Columns,
    S_CATALOG_PAGE |-> S_CATALOG_PAGE_Columns, S_CATALOG_RETURNS |-> S_CATALOG_RETURNS_Columns,
    S_CUSTOMER |-> S_CUSTOMER_Columns, S_INVENTORY |-> S_INVENTORY_Columns,
    S_ITEM |-> S_ITEM_Columns, S_PROMOTION |-> S_PROMOTION_Columns,
    S_PURCHASE |-> S_PURCHASE_Columns, S_PURCHASE_LINEITEM |-> S_PURCHASE_LINEITEM_Columns,
    S_STORE |-> S_STORE_Columns, S_STORE_RETURNS |-> S_STORE_RETURNS_Columns,
    S_WAREHOUSE |-> S_WAREHOUSE_Columns, S_WEB_ORDER |-> S_WEB_ORDER_Columns,
    S_WEB_ORDER_LINEITEM |-> S_WEB_ORDER_LINEITEM_Columns, S_WEB_PAGE |-> S_WEB_PAGE_Columns,
    S_WEB_RETURNS |-> S_WEB_RETURNS_Columns, S_WEB_SITE |-> S_WEB_SITE_Columns,
    S_ZIPG |-> S_ZIPG_Columns]

BudgetsOf == [
    CALL_CENTER |-> CALL_CENTER_Streams, CATALOG_PAGE |-> CATALOG_PAGE_Streams,
    CATALOG_RETURNS |-> CATALOG_RETURNS_Streams, CATALOG_SALES |-> CATALOG_SALES_Streams,
    CUSTOMER |-> CUSTOMER_Streams, CUSTOMER_ADDRESS |-> CUSTOMER_ADDRESS_Streams,
    CUSTOMER_DEMOGRAPHICS |-> CUSTOMER_DEMOGRAPHICS_Streams, DATE |-> DATE_Streams,
    HOUSEHOLD_DEMOGRAPHICS |-> HOUSEHOLD_DEMOGRAPHICS_Streams, INCOME_BAND |-> INCOME_BAND_Streams,
    INVENTORY |-> INVENTORY_Streams, ITEM |-> ITEM_Streams, PROMOTION |-> PROMOTION_Streams,
    REASON |-> REASON_Streams, SHIP_MODE |-> SHIP_MODE_Streams, STORE |-> STORE_Streams,
    STORE_RETURNS |-> STORE_RETURNS_Streams, STORE_SALES |-> STORE_SALES_Streams,
    TIME |-> TIME_Streams, WAREHOUSE |-> WAREHOUSE_Streams, WEB_PAGE |-> WEB_PAGE_Streams,
    WEB_RETURNS |-> WEB_RETURNS_Streams, WEB_SALES |-> WEB_SALES_Streams,
    WEB_SITE |-> WEB_SITE_Streams, DBGEN_VERSION |-> DBGEN_VERSION_Streams,
    S_CUSTOMER_ADDRESS |-> S_CUSTOMER_ADDRESS_Streams, S_CALL_CENTER |-> S_CALL_CENTER_Streams,
    S_CATALOG_ORDER |-> S_CATALOG_ORDER_Streams,
    S_CATALOG_ORDER_LINEITEM |-> S_CATALOG_ORDER_LINEITEM_Streams,
    S_CATALOG_PAGE |-> S_CATALOG_PAGE_Streams, S_CATALOG_RETURNS |-> S_CATALOG_RETURNS_Streams,
    S_CUSTOMER |-> S_CUSTOMER_Streams, S_INVENTORY |-> S_INVENTORY_Streams,
    S_ITEM |-> S_ITEM_Streams, S_PROMOTION |-> S_PROMOTION_Streams,
    S_PURCHASE |-> S_PURCHASE_Streams, S_PURCHASE_LINEITEM |-> S_PURCHASE_LINEITEM_Streams,
    S_STORE |-> S_STORE_Streams, S_STORE_RETURNS |-> S_STORE_RETURNS_Streams,
    S_WAREHOUSE |-> S_WAREHOUSE_Streams, S_WEB_ORDER |-> S_WEB_ORDER_Streams,
    S_WEB_ORDER_LINEITEM |-> S_WEB_ORDER_LINEITEM_Streams, S_WEB_PAGE |-> S_WEB_PAGE_Streams,
    S_WEB_RETURNS |-> S_WEB_RETURNS_Streams, S_WEB_SITE |-> S_WEB_SITE_Streams,
    S_ZIPG |-> S_ZIPG_Streams]

itsTables == {
    "CALL_CENTER", "CATALOG_PAGE", "CATALOG_RETURNS", "CATALOG_SALES", "CUSTOMER",
    "CUSTOMER_ADDRESS", "CUSTOMER_DEMOGRAPHICS", "DATE", "HOUSEHOLD_DEMOGRAPHICS",
    "INCOME_BAND", "INVENTORY", "ITEM", "PROMOTION", "REASON", "SHIP_MODE", "STORE",
    "STORE_RETURNS", "STORE_SALES", "TIME", "WAREHOUSE", "WEB_PAGE", "WEB_RETURNS",
    "WEB_SALES", "WEB_SITE", "DBGEN_VERSION", "S_CUSTOMER_ADDRESS", "S_CALL_CENTER",
    "S_CATALOG_ORDER", "S_CATALOG_ORDER_LINEITEM", "S_CATALOG_PAGE",
    "S_CATALOG_RETURNS", "S_CUSTOMER", "S_INVENTORY", "S_ITEM", "S_PROMOTION",
    "S_PURCHASE", "S_PURCHASE_LINEITEM", "S_STORE", "S_STORE_RETURNS", "S_WAREHOUSE",
    "S_WEB_ORDER", "S_WEB_ORDER_LINEITEM", "S_WEB_PAGE", "S_WEB_RETURNS", "S_WEB_SITE",
    "S_ZIPG"}
itsTraversal == SelectSeq(w_tdefs_Order \o s_tdefs_Order, LAMBDA t : t \in itsTables)
ASSUME itsTables = ToSet(itsTraversal)
Description == w_tdefs @@ s_tdefs
BaseTables == {t \in itsTables : t \in DOMAIN w_tdefs}

\* The draws of the builders, by table: a child has no builder of its own.
LeastOf == w_builders("least") @@ s_builders("least")
MostOf == w_builders("most") @@ s_builders("most")

\* There are more ids of items than an order has lines.
FirstOf == w_firstCall(20) @@ s_firstCall(
    [call_center |-> 3, item |-> 20, customer |-> 9, promotion |-> 3, store |-> 3,
     warehouse |-> 3, web_page |-> 3])

Budget == [name \in UNION {DOMAIN BudgetsOf[t] : t \in itsTables} |->
              LET t == CHOOSE t \in itsTables : name \in DOMAIN BudgetsOf[t] IN BudgetsOf[t][name]]
Drawn == UNION {DOMAIN MostOf[t] : t \in DOMAIN MostOf}
         \cup UNION {DOMAIN FirstOf[t] : t \in DOMAIN FirstOf}

(***************************************************************************)
(* The streams, numbered in the order of their columns.  One that no       *)
(* builder draws from has no data in it and is left out.                   *)
(***************************************************************************)
Columns == FlattenSeq([i \in DOMAIN itsTraversal |-> ColumnsOf[itsTraversal[i]]])
Names == SelectSeq(Columns, LAMBDA name : name \in Drawn)
itsStreams == 1 .. 278
ASSUME itsStreams = DOMAIN Names
Number == [name \in ToSet(Names) |-> CHOOSE s \in itsStreams : Names[s] = name]
itsTableOf == [s \in itsStreams |-> CHOOSE t \in itsTables : Names[s] \in DOMAIN BudgetsOf[t]]
itsPerRow == [s \in itsStreams |-> Budget[Names[s]]]
itsTwin == LET twins == {name \in DOMAIN Duplicates : {name, Duplicates[name]} \subseteq ToSet(Names)}
           IN  [s \in {Number[name] : name \in twins} |-> Number[Duplicates[Names[s]]]]

\* Every stream belongs to one column of its table.
ASSUME \A t \in itsTables : ToSet(ColumnsOf[t]) = DOMAIN BudgetsOf[t]
ASSUME Cardinality(ToSet(Columns)) = Len(Columns)

itsPassed == {t \in itsTables : "CHILD" \in Description[t].flags}
itsChildOf == [t \in itsTables |-> Description[t].child]

\* The draws of a table's builder, as functions of the streams.
Draws(B) == [s \in itsStreams |-> CopiesIn(Names[s], B)]
itsDemand == [t \in itsTables |->
    IF t \in DOMAIN LeastOf THEN {Draws(LeastOf[t]), Draws(MostOf[t])} ELSE {}]

itsOnce == [t \in itsTables |-> Draws(IF t \in DOMAIN FirstOf THEN FirstOf[t] ELSE EmptyBag)]
itsStops == [t \in itsTables |-> IF t \in DOMAIN s_rowStops THEN {s_rowStops[t]} ELSE {}]

(***************************************************************************)
(* Some of the tables that have enough rows to be split at the usual       *)
(* scales, here with enough rows for unequal shares; inventory at the      *)
(* boundary and the calendar below it; the others too small to be split.   *)
(***************************************************************************)
itsMinSplit == 4
SplitTables == {"CATALOG_SALES", "CUSTOMER", "STORE_SALES", "WEB_SALES",
                "S_CATALOG_ORDER", "S_CUSTOMER", "S_PURCHASE", "S_WEB_ORDER"}
itsRowCount == [t \in itsTables |->
    IF t \in SplitTables THEN 5
    ELSE IF t \in {"INVENTORY", "S_INVENTORY"} THEN itsMinSplit
    ELSE IF t = "DATE" THEN itsMinSplit - 1
    ELSE IF t = "ITEM" THEN 2 ELSE 1]

Job(tables, n, force, kill) ==
    [tables |-> tables, parallel |-> n, force |-> force,
     update |-> tables \cap BaseTables = {}, kills |-> kill]

\* Every table alone, some with a kill, with and without -force, some by three
\* processes; and all the base tables together.
itsJobs == {Job({t}, 2, TRUE, 0) : t \in itsTables \ itsPassed}
           \cup {Job({t}, 2, TRUE, 1) : t \in {"CATALOG_SALES", "CUSTOMER"}}
           \cup {Job({t}, 2, FALSE, 1) : t \in {"INVENTORY", "S_CUSTOMER"}}
           \cup {Job({t}, 3, TRUE, 0) : t \in {"CUSTOMER", "INVENTORY"}}
           \cup {Job(BaseTables, 2, FALSE, 0)}

\* An order table of the update set, and its lines and returns with it.
itsUpdateJobs == {Job({"S_PURCHASE"}, 2, TRUE, 0)}

(***************************************************************************)
(* What the builders draw, for DsdgenValidation.                           *)
(***************************************************************************)
everDrawn(once, demand) ==
    {s \in DOMAIN once : once[s] > 0 \/ \E d \in demand : d[s] > 0}
StreamArrayOf(tableOf, perRow, twin, drawnBy) ==
    [s \in DOMAIN tableOf |->
        [nTable |-> tableOf[s], nUsedPerRow |-> perRow[s],
         duplicated |-> \E other \in DOMAIN twin : twin[other] = s,
         drawnBy |-> {t \in DOMAIN drawnBy : s \in drawnBy[t]}, drawn |-> 0]]
itsStreamArray ==
    StreamArrayOf(itsTableOf, itsPerRow, itsTwin,
                  [t \in itsTables |-> everDrawn(itsOnce[t], itsDemand[t])])

\* A row draws from stream s and tops it up at its end if row_stop moves it: the
\* streams of the table, of its children and of the table it is built by.
StoppedWith(t) ==
    LET children == {t, itsChildOf[t]} \cap itsTables
    IN  children \cup itsStops[t] \cup ({itsChildOf[c] : c \in children} \cap itsTables)
SerialOf(stopped, once, demand, tableOf, perRow) ==
    LET moved(s) == {IF d[s] < perRow[s] THEN perRow[s] ELSE d[s] : d \in demand}
        steady == {s \in everDrawn(once, demand) :
                      tableOf[s] \in stopped /\ once[s] = 0 /\ Cardinality(moved(s)) = 1}
    IN  [first |-> {s \in DOMAIN once : once[s] > 0},
         rate |-> [s \in steady |-> CHOOSE n \in moved(s) : TRUE]]
itsSerial == [t \in itsTables |->
    SerialOf(StoppedWith(t), itsOnce[t], itsDemand[t], itsTableOf, itsPerRow)]
=========================================================================
