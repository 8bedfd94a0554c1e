----------------------------- MODULE DsdgenTdefs ----------------------------
(*****************************************************************************)
(* The table descriptions: flags, the child of a parent, how often a row has *)
(* nulls (per 10000), and the bits of its NOT NULL columns.                  *)
(*****************************************************************************)
EXTENDS Naturals, Sequences

Tdef(flags, child, nullPct, notNull) ==
    [flags |-> flags, child |-> child, nullPct |-> nullPct, notNull |-> notNull]

\* The warehouse tables, in the order of their numbers.
w_tdefs_Order == <<
    "CALL_CENTER", "CATALOG_PAGE", "CATALOG_RETURNS", "CATALOG_SALES", "CUSTOMER",
    "CUSTOMER_ADDRESS", "CUSTOMER_DEMOGRAPHICS", "DATE", "HOUSEHOLD_DEMOGRAPHICS",
    "INCOME_BAND", "INVENTORY", "ITEM", "PROMOTION", "REASON", "SHIP_MODE", "STORE",
    "STORE_RETURNS", "STORE_SALES", "TIME", "WAREHOUSE", "WEB_PAGE", "WEB_RETURNS", "WEB_SALES",
    "WEB_SITE", "DBGEN_VERSION">>

w_tdefs == [
    CALL_CENTER |-> Tdef({"SMALL", "TYPE_2"}, "none", 100, {0, 1, 3}),
    CATALOG_PAGE |-> Tdef({}, "none", 200, {0, 1}),
    CATALOG_RETURNS |-> Tdef({"CHILD"}, "none", 400, {0, 1, 2, 16}),
    CATALOG_SALES |-> Tdef({"DATE_BASED", "PARENT", "VPRINT"}, "CATALOG_RETURNS", 100, {15, 17}),
    CUSTOMER |-> Tdef({}, "none", 700, {0, 1, 4}),
    CUSTOMER_ADDRESS |-> Tdef({}, "none", 600, {0, 1}),
    CUSTOMER_DEMOGRAPHICS |-> Tdef({}, "none", 0, {0}),
    DATE |-> Tdef({}, "none", 0, {0, 1}),
    HOUSEHOLD_DEMOGRAPHICS |-> Tdef({}, "none", 0, {0}),
    INCOME_BAND |-> Tdef({}, "none", 0, {0}),
    INVENTORY |-> Tdef({"DATE_BASED"}, "none", 1000, {0, 1, 2}),
    ITEM |-> Tdef({"TYPE_2"}, "none", 50, {0, 1, 3}),
    PROMOTION |-> Tdef({}, "none", 200, {0, 1}),
    REASON |-> Tdef({}, "none", 0, {0, 1}),
    SHIP_MODE |-> Tdef({}, "none", 0, {0, 1}),
    STORE |-> Tdef({"SMALL", "TYPE_2"}, "none", 100, {0, 1, 3}),
    STORE_RETURNS |-> Tdef({"CHILD"}, "none", 700, {2, 9}),
    STORE_SALES |-> Tdef({"DATE_BASED", "PARENT", "VPRINT"}, "STORE_RETURNS", 900, {2, 9}),
    TIME |-> Tdef({}, "none", 0, {0, 1}),
    WAREHOUSE |-> Tdef({"SMALL"}, "none", 200, {0, 1}),
    WEB_PAGE |-> Tdef({"TYPE_2"}, "none", 250, {0, 1, 3}),
    WEB_RETURNS |-> Tdef({"CHILD"}, "none", 900, {2, 13}),
    WEB_SALES |-> Tdef({"DATE_BASED", "PARENT", "VPRINT"}, "WEB_RETURNS", 5, {3, 17}),
    WEB_SITE |-> Tdef({"SMALL", "TYPE_2"}, "none", 100, {0, 1, 3}),
    DBGEN_VERSION |-> Tdef({}, "none", 0, {})]

\* The tables of the update set.
s_tdefs_Order == <<
    "S_BRAND", "S_CUSTOMER_ADDRESS", "S_CALL_CENTER", "S_CATALOG", "S_CATALOG_ORDER",
    "S_CATALOG_ORDER_LINEITEM", "S_CATALOG_PAGE", "S_CATALOG_PROMOTIONAL_ITEM",
    "S_CATALOG_RETURNS", "S_CATEGORY", "S_CLASS", "S_COMPANY", "S_CUSTOMER", "S_DIVISION",
    "S_INVENTORY", "S_ITEM", "S_MANAGER", "S_MANUFACTURER", "S_MARKET", "S_PRODUCT",
    "S_PROMOTION", "S_PURCHASE", "S_PURCHASE_LINEITEM", "S_REASON", "S_STORE",
    "S_STORE_PROMOTIONAL_ITEM", "S_STORE_RETURNS", "S_SUBCATEGORY", "S_SUBCLASS", "S_WAREHOUSE",
    "S_WEB_ORDER", "S_WEB_ORDER_LINEITEM", "S_WEB_PAGE", "S_WEB_PROMOTIONAL_ITEM",
    "S_WEB_RETURNS", "S_WEB_SITE", "S_ZIPG">>

s_tdefs == [
    S_BRAND |-> Tdef({"NOP", "SOURCE_DDL"}, "none", 0, {}),
    S_CUSTOMER_ADDRESS |-> Tdef({"PASSTHRU", "SOURCE_DDL"}, "none", 0, {0}),
    S_CALL_CENTER |-> Tdef({"SOURCE_DDL"}, "none", 0, {1}),
    S_CATALOG |-> Tdef({"NOP", "SOURCE_DDL"}, "none", 0, {}),
    S_CATALOG_ORDER |-> Tdef({"DATE_BASED", "PARENT", "SOURCE_DDL"}, "S_CATALOG_ORDER_LINEITEM", 0, {0}),
    S_CATALOG_ORDER_LINEITEM |-> Tdef({"CHILD", "PARENT", "SOURCE_DDL"}, "S_CATALOG_RETURNS", 0, {0, 1, 2}),
    S_CATALOG_PAGE |-> Tdef({"PASSTHRU", "SOURCE_DDL"}, "none", 0, {0, 1, 4, 5}),
    S_CATALOG_PROMOTIONAL_ITEM |-> Tdef({"NOP", "SOURCE_DDL"}, "none", 0, {}),
    S_CATALOG_RETURNS |-> Tdef({"CHILD", "SOURCE_DDL"}, "none", 0, {1, 2, 3}),
    S_CATEGORY |-> Tdef({"NOP", "SOURCE_DDL"}, "none", 0, {}),
    S_CLASS |-> Tdef({"NOP", "SOURCE_DDL"}, "none", 0, {}),
    S_COMPANY |-> Tdef({"NOP", "SOURCE_DDL"}, "none", 0, {}),
    S_CUSTOMER |-> Tdef({"SOURCE_DDL"}, "none", 0, {0}),
    S_DIVISION |-> Tdef({"NOP", "SOURCE_DDL"}, "none", 0, {}),
    S_INVENTORY |-> Tdef({"DATE_BASED", "SOURCE_DDL"}, "none", 0, {0, 1, 2}),
    S_ITEM |-> Tdef({"SOURCE_DDL"}, "none", 0, {0}),
    S_MANAGER |-> Tdef({"NOP", "SOURCE_DDL"}, "none", 0, {}),
    S_MANUFACTURER |-> Tdef({"NOP", "SOURCE_DDL"}, "none", 0, {}),
    S_MARKET |-> Tdef({"NOP", "SOURCE_DDL"}, "none", 0, {}),
    S_PRODUCT |-> Tdef({"NOP", "SOURCE_DDL"}, "none", 0, {}),
    S_PROMOTION |-> Tdef({"PASSTHRU", "SOURCE_DDL"}, "none", 0, {0}),
    S_PURCHASE |-> Tdef({"DATE_BASED", "PARENT", "SOURCE_DDL"}, "S_PURCHASE_LINEITEM", 0, {0}),
    S_PURCHASE_LINEITEM |-> Tdef({"CHILD", "PARENT", "SOURCE_DDL"}, "S_STORE_RETURNS", 0, {0, 1, 2}),
    S_REASON |-> Tdef({"NOP", "SOURCE_DDL"}, "none", 0, {}),
    S_STORE |-> Tdef({"SOURCE_DDL"}, "none", 0, {0}),
    S_STORE_PROMOTIONAL_ITEM |-> Tdef({"NOP", "SOURCE_DDL"}, "none", 0, {}),
    S_STORE_RETURNS |-> Tdef({"CHILD", "SOURCE_DDL"}, "none", 0, {1, 2, 3}),
    S_SUBCATEGORY |-> Tdef({"NOP", "SOURCE_DDL"}, "none", 0, {}),
    S_SUBCLASS |-> Tdef({"NOP", "SOURCE_DDL"}, "none", 0, {}),
    S_WAREHOUSE |-> Tdef({"SOURCE_DDL"}, "none", 0, {0}),
    S_WEB_ORDER |-> Tdef({"DATE_BASED", "PARENT", "SOURCE_DDL"}, "S_WEB_ORDER_LINEITEM", 0, {0}),
    S_WEB_ORDER_LINEITEM |-> Tdef({"CHILD", "PARENT", "SOURCE_DDL"}, "S_WEB_RETURNS", 0, {0, 1, 2}),
    S_WEB_PAGE |-> Tdef({"PASSTHRU", "SOURCE_DDL"}, "none", 0, {0}),
    S_WEB_PROMOTIONAL_ITEM |-> Tdef({"NOP", "SOURCE_DDL"}, "none", 0, {}),
    S_WEB_RETURNS |-> Tdef({"CHILD", "SOURCE_DDL"}, "none", 0, {1, 2, 3}),
    S_WEB_SITE |-> Tdef({"SOURCE_DDL"}, "none", 0, {0}),
    S_ZIPG |-> Tdef({"SOURCE_DDL", "VPRINT"}, "none", 0, {0, 1})]

=============================================================================
