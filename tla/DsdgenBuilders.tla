--------------------------- MODULE DsdgenBuilders ---------------------------
(***************************************************************************)
(* The builders of the warehouse tables (w_*.c): what one call draws from  *)
(* which stream.  m says whether the shortest or the longest course of the *)
(* call is meant.  The builder of a sales table makes the order, its lines *)
(* and the returns of the lines in one call.                               *)
(***************************************************************************)
EXTENDS DsdgenDraws

mk_w_call_center(m) ==
    nullSetDraws("CC_NULLS")
    (+) AtMost(m, genrand_integer({"CC_OPEN_DATE_ID"})     \* only for a new business key
                  (+) mk_address("CC_ADDRESS"))
    (+) next_random({"CC_SCD"})
    (+) pick_distribution({"CC_CLASS", "CC_HOURS"})
    (+) genrand_integer({"CC_EMPLOYEES", "CC_SQ_FT", "CC_MARKET_ID"})
    (+) Times(2, pick_distribution({"CC_MANAGER", "CC_MARKET_MANAGER"}))
    (+) gen_text(m, "CC_MARKET_CLASS", 50)
    (+) gen_text(m, "CC_MARKET_DESC", 100)
    (+) Times(2, genrand_integer({"CC_COMPANY"}))  \* company and division
    (+) genrand_decimal({"CC_TAX_PERCENTAGE"})

mk_w_catalog_page(m) == nullSetDraws("CP_NULLS") (+) gen_text(m, "CP_DESCRIPTION", 99)

mk_w_catalog_returns(m) ==
    nullSetDraws("CR_NULLS")
    (+) mk_join(m, "CR_RETURNING_CUSTOMER_SK", "CUSTOMER")
    (+) genrand_integer({"CR_RETURNING_CUSTOMER_SK"})
    (+) mk_join(m, "CR_RETURNING_CDEMO_SK", "CUSTOMER_DEMOGRAPHICS")
    (+) mk_join(m, "CR_RETURNING_HDEMO_SK", "HOUSEHOLD_DEMOGRAPHICS")
    (+) mk_join(m, "CR_RETURNING_ADDR_SK", "CUSTOMER_ADDRESS")
    (+) mk_join(m, "CR_RETURNED_DATE_SK", "DATE")
    (+) mk_join(m, "CR_RETURNED_TIME_SK", "TIME")
    (+) mk_join(m, "CR_SHIP_MODE_SK", "SHIP_MODE")
    (+) mk_join(m, "CR_WAREHOUSE_SK", "WAREHOUSE")
    (+) mk_join(m, "CR_REASON_SK", "REASON")
    (+) AtMost(m, genrand_integer({"CR_PRICING"}))  \* unless the sale's quantity is null
    (+) set_pricing("CR_PRICING")

cs_mk_master(m) ==
    mk_join(m, "CS_SOLD_TIME_SK", "TIME")
    (+) AtMost(m, mk_join(m, "CS_CALL_CENTER_SK", "CALL_CENTER"))  \* unless the date is null
    (+) mk_join(m, "CS_BILL_CUSTOMER_SK", "CUSTOMER")
    (+) mk_join(m, "CS_BILL_CDEMO_SK", "CUSTOMER_DEMOGRAPHICS")
    (+) mk_join(m, "CS_BILL_HDEMO_SK", "HOUSEHOLD_DEMOGRAPHICS")
    (+) mk_join(m, "CS_BILL_ADDR_SK", "CUSTOMER_ADDRESS")
    (+) genrand_integer({"CS_SHIP_CUSTOMER_SK"})
    (+) AtMost(m, mk_join(m, "CS_SHIP_CUSTOMER_SK", "CUSTOMER")   \* a gift
                  (+) mk_join(m, "CS_SHIP_CDEMO_SK", "CUSTOMER_DEMOGRAPHICS")
                  (+) mk_join(m, "CS_SHIP_HDEMO_SK", "HOUSEHOLD_DEMOGRAPHICS")
                  (+) mk_join(m, "CS_SHIP_ADDR_SK", "CUSTOMER_ADDRESS"))
    (+) genrand_integer({"CS_SOLD_ITEM_SK"})

cs_mk_detail(m) ==
    nullSetDraws("CS_NULLS")
    (+) genrand_integer({"CS_SHIP_DATE_SK"})
    (+) AtMost(m, mk_join(m, "CS_CATALOG_PAGE_SK", "CATALOG_PAGE"))
    (+) mk_join(m, "CS_SHIP_MODE_SK", "SHIP_MODE")
    (+) mk_join(m, "CS_WAREHOUSE_SK", "WAREHOUSE")
    (+) mk_join(m, "CS_PROMO_SK", "PROMOTION")
    (+) set_pricing("CS_PRICING")
    (+) genrand_integer({"CR_IS_RETURNED"})
    (+) AtMost(m, mk_w_catalog_returns(m))

mk_w_catalog_sales(m) ==
    cs_mk_master(m) (+) genrand_integer({"CS_ORDER_NUMBER"})
    (+) Times(Between(m, 4, 14), cs_mk_detail(m))

mk_w_customer(m) ==
    nullSetDraws("C_NULLS")
    (+) genrand_integer({"C_PREFERRED_CUST_FLAG"})
    (+) mk_join(m, "C_CURRENT_HDEMO_SK", "HOUSEHOLD_DEMOGRAPHICS")
    (+) mk_join(m, "C_CURRENT_CDEMO_SK", "CUSTOMER_DEMOGRAPHICS")
    (+) mk_join(m, "C_CURRENT_ADDR_SK", "CUSTOMER_ADDRESS")
    (+) pick_distribution({"C_FIRST_NAME", "C_LAST_NAME", "C_SALUTATION", "C_BIRTH_COUNTRY"})
    (+) genrand_date({"C_BIRTH_DAY", "C_LAST_REVIEW_DATE", "C_FIRST_SALES_DATE_ID"})
    (+) genrand_email("C_EMAIL_ADDRESS")

mk_w_customer_address(m) ==
    nullSetDraws("CA_NULLS")
    (+) pick_distribution({"CA_LOCATION_TYPE"})
    (+) mk_address("CA_ADDRESS")

\* Everything else of a demographic is computed from its number.
mk_w_customer_demographics(m) == nullSetDraws("CD_NULLS")
mk_w_household_demographics(m) == nullSetDraws("HD_NULLS")
mk_w_income_band(m) == nullSetDraws("IB_NULLS")

mk_w_dateDraws(m) == nullSetDraws("D_NULLS")
mk_w_time(m) == nullSetDraws("T_NULLS")
mk_w_reason(m) == nullSetDraws("R_NULLS")
mk_dbgen_version(m) == EmptyBag

mk_w_inventory(m) == nullSetDraws("INV_NULLS") (+) genrand_integer({"INV_QUANTITY_ON_HAND"})

\* The container is drawn from the stream whose number is that of the table
\* ITEM; that number is the number of a column of the call centers.
ITEM_asStream == "CC_HOURS"

mk_w_item(m) ==
    nullSetDraws("I_NULLS")
    (+) pick_distribution({"I_MANAGER_ID"}) (+) genrand_key({"I_MANAGER_ID"})
    (+) next_random({"I_SCD"})
    (+) gen_text(m, "I_ITEM_DESC", 200)
    (+) pick_distribution({"I_CURRENT_PRICE"}) (+) genrand_decimal({"I_CURRENT_PRICE"})
    (+) genrand_decimal({"I_WHOLESALE_COST"})
    (+) hierarchy_item("I_CATEGORY") (+) hierarchy_item("I_CLASS") (+) hierarchy_item("I_BRAND")
    (+) pick_distribution({"I_SIZE", "I_COLOR", "I_UNITS"})
    (+) pick_distribution({"I_MANUFACT_ID"}) (+) genrand_integer({"I_MANUFACT_ID"})
    (+) gen_charset("I_FORMULATION", 20) (+) embed_string("I_FORMULATION")
    (+) pick_distribution({ITEM_asStream})
    (+) mk_join(m, "I_PROMO_SK", "PROMOTION") (+) genrand_integer({"I_PROMO_SK"})

mk_w_promotion(m) ==
    nullSetDraws("P_NULLS")
    (+) genrand_integer({"P_START_DATE_ID", "P_END_DATE_ID", "P_CHANNEL_DMAIL"})
    (+) mk_join(m, "P_ITEM_SK", "ITEM")
    (+) gen_text(m, "P_CHANNEL_DETAILS", 60)
    (+) pick_distribution({"P_PURPOSE"})

mk_w_ship_mode(m) == nullSetDraws("SM_NULLS") (+) gen_charset("SM_CONTRACT", 20)

mk_w_store(m) ==
    nullSetDraws("W_STORE_NULLS")
    (+) next_random({"W_STORE_SCD"})
    (+) Times(2, genrand_integer({"W_STORE_CLOSED_DATE_ID"}))
    (+) pick_distribution({"W_STORE_TYPE", "W_STORE_HOURS", "W_STORE_GEOGRAPHY_CLASS",
                           "W_STORE_DIVISION_NAME", "W_STORE_COMPANY_NAME"})
    (+) genrand_integer({"W_STORE_EMPLOYEES", "W_STORE_FLOOR_SPACE", "W_STORE_MARKET_ID"})
    (+) Times(2, pick_distribution({"W_STORE_MANAGER", "W_STORE_MARKET_MANAGER"}))
    (+) genrand_decimal({"W_STORE_TAX_PERCENTAGE"})
    (+) gen_text(m, "W_STORE_MARKET_DESC", 100)
    (+) mk_address("W_STORE_ADDRESS")

mk_w_store_returns(m) ==
    nullSetDraws("SR_NULLS")
    (+) mk_join(m, "SR_CUSTOMER_SK", "CUSTOMER")
    (+) genrand_integer({"SR_TICKET_NUMBER", "SR_RETURNED_TIME_SK", "SR_PRICING"})
    (+) mk_join(m, "SR_RETURNED_DATE_SK", "DATE")
    (+) mk_join(m, "SR_CDEMO_SK", "CUSTOMER_DEMOGRAPHICS")
    (+) mk_join(m, "SR_HDEMO_SK", "HOUSEHOLD_DEMOGRAPHICS")
    (+) mk_join(m, "SR_ADDR_SK", "CUSTOMER_ADDRESS")
    (+) mk_join(m, "SR_STORE_SK", "STORE")
    (+) mk_join(m, "SR_REASON_SK", "REASON")
    (+) set_pricing("SR_PRICING")

ss_mk_master(m) ==
    mk_join(m, "SS_SOLD_STORE_SK", "STORE")
    (+) mk_join(m, "SS_SOLD_TIME_SK", "TIME")
    (+) mk_join(m, "SS_SOLD_DATE_SK", "DATE")
    (+) mk_join(m, "SS_SOLD_CUSTOMER_SK", "CUSTOMER")
    (+) mk_join(m, "SS_SOLD_CDEMO_SK", "CUSTOMER_DEMOGRAPHICS")
    (+) mk_join(m, "SS_SOLD_HDEMO_SK", "HOUSEHOLD_DEMOGRAPHICS")
    (+) mk_join(m, "SS_SOLD_ADDR_SK", "CUSTOMER_ADDRESS")
    (+) genrand_integer({"SS_SOLD_ITEM_SK"})

ss_mk_detail(m) ==
    nullSetDraws("SS_NULLS")
    (+) mk_join(m, "SS_SOLD_PROMO_SK", "PROMOTION")
    (+) set_pricing("SS_PRICING")
    (+) genrand_integer({"SR_IS_RETURNED"})
    (+) AtMost(m, mk_w_store_returns(m))

mk_w_store_sales(m) ==
    ss_mk_master(m) (+) genrand_integer({"SS_TICKET_NUMBER"})
    (+) Times(Between(m, 8, 16), ss_mk_detail(m))

mk_w_warehouse(m) ==
    nullSetDraws("W_NULLS")
    (+) gen_text(m, "W_WAREHOUSE_NAME", 20)
    (+) genrand_integer({"W_WAREHOUSE_SQ_FT"})
    (+) mk_address("W_WAREHOUSE_ADDRESS")

mk_w_web_page(m) ==
    nullSetDraws("WP_NULLS")
    (+) next_random({"WP_SCD"})
    (+) mk_join(m, "WP_CREATION_DATE_SK", "DATE")
    (+) genrand_integer({"WP_ACCESS_DATE_SK", "WP_AUTOGEN_FLAG", "WP_LINK_COUNT",
                         "WP_IMAGE_COUNT", "WP_MAX_AD_COUNT", "WP_CHAR_COUNT"})
    (+) mk_join(m, "WP_CUSTOMER_SK", "CUSTOMER")
    (+) pick_distribution({"WP_TYPE"})

mk_w_web_returns(m) ==
    nullSetDraws("WR_NULLS")
    (+) mk_join(m, "WR_RETURNED_DATE_SK", "DATE")
    (+) mk_join(m, "WR_RETURNED_TIME_SK", "TIME")
    (+) mk_join(m, "WR_REFUNDED_CUSTOMER_SK", "CUSTOMER")
    (+) mk_join(m, "WR_REFUNDED_CDEMO_SK", "CUSTOMER_DEMOGRAPHICS")
    (+) mk_join(m, "WR_REFUNDED_HDEMO_SK", "HOUSEHOLD_DEMOGRAPHICS")
    (+) mk_join(m, "WR_REFUNDED_ADDR_SK", "CUSTOMER_ADDRESS")
    (+) genrand_integer({"WR_RETURNING_CUSTOMER_SK", "WR_PRICING"})
    (+) mk_join(m, "WR_REASON_SK", "REASON")
    (+) set_pricing("WR_PRICING")

ws_mk_master(m) ==
    mk_join(m, "WS_SOLD_DATE_SK", "DATE")
    (+) mk_join(m, "WS_SOLD_TIME_SK", "TIME")
    (+) mk_join(m, "WS_BILL_CUSTOMER_SK", "CUSTOMER")
    (+) mk_join(m, "WS_BILL_CDEMO_SK", "CUSTOMER_DEMOGRAPHICS")
    (+) mk_join(m, "WS_BILL_HDEMO_SK", "HOUSEHOLD_DEMOGRAPHICS")
    (+) mk_join(m, "WS_BILL_ADDR_SK", "CUSTOMER_ADDRESS")
    (+) genrand_integer({"WS_SHIP_CUSTOMER_SK"})
    (+) AtMost(m, mk_join(m, "WS_SHIP_CUSTOMER_SK", "CUSTOMER")   \* a gift
                  (+) mk_join(m, "WS_SHIP_CDEMO_SK", "CUSTOMER_DEMOGRAPHICS")
                  (+) mk_join(m, "WS_SHIP_HDEMO_SK", "HOUSEHOLD_DEMOGRAPHICS")
                  (+) mk_join(m, "WS_SHIP_ADDR_SK", "CUSTOMER_ADDRESS"))
    (+) genrand_integer({"WS_ITEM_SK"})

ws_mk_detail(m) ==
    nullSetDraws("WS_NULLS")
    (+) genrand_integer({"WS_SHIP_DATE_SK"})
    (+) mk_join(m, "WS_WEB_PAGE_SK", "WEB_PAGE")
    (+) mk_join(m, "WS_WEB_SITE_SK", "WEB_SITE")
    (+) mk_join(m, "WS_SHIP_MODE_SK", "SHIP_MODE")
    (+) mk_join(m, "WS_WAREHOUSE_SK", "WAREHOUSE")
    (+) mk_join(m, "WS_PROMO_SK", "PROMOTION")
    (+) set_pricing("WS_PRICING")
    (+) genrand_integer({"WR_IS_RETURNED"})
    (+) AtMost(m, mk_w_web_returns(m))

mk_w_web_sales(m) ==
    ws_mk_master(m) (+) genrand_integer({"WS_ORDER_NUMBER"})
    (+) Times(Between(m, 8, 16), ws_mk_detail(m))

mk_w_web_site(m) ==
    nullSetDraws("WEB_NULLS")
    (+) AtMost(m, mk_join(m, "WEB_OPEN_DATE", "DATE")      \* only for a new business key
                  (+) mk_join(m, "WEB_CLOSE_DATE", "DATE"))
    (+) next_random({"WEB_SCD"})
    (+) Times(2, pick_distribution({"WEB_MANAGER", "WEB_MARKET_MANAGER"}))
    (+) genrand_integer({"WEB_MARKET_ID", "WEB_COMPANY_ID"})
    (+) gen_text(m, "WEB_MARKET_CLASS", 50)
    (+) gen_text(m, "WEB_MARKET_DESC", 100)
    (+) mk_address("WEB_ADDRESS")
    (+) genrand_decimal({"WEB_TAX_PERCENTAGE"})

(***************************************************************************)
(* The builder of each table, and what its first call draws besides: the   *)
(* permutation of the item numbers that its orders take their items from.  *)
(***************************************************************************)
w_builders(m) == [
    CALL_CENTER |-> mk_w_call_center(m), CATALOG_PAGE |-> mk_w_catalog_page(m),
    CATALOG_SALES |-> mk_w_catalog_sales(m), CUSTOMER |-> mk_w_customer(m),
    CUSTOMER_ADDRESS |-> mk_w_customer_address(m),
    CUSTOMER_DEMOGRAPHICS |-> mk_w_customer_demographics(m), DATE |-> mk_w_dateDraws(m),
    HOUSEHOLD_DEMOGRAPHICS |-> mk_w_household_demographics(m),
    INCOME_BAND |-> mk_w_income_band(m), INVENTORY |-> mk_w_inventory(m),
    ITEM |-> mk_w_item(m), PROMOTION |-> mk_w_promotion(m), REASON |-> mk_w_reason(m),
    SHIP_MODE |-> mk_w_ship_mode(m), STORE |-> mk_w_store(m),
    STORE_SALES |-> mk_w_store_sales(m), TIME |-> mk_w_time(m),
    WAREHOUSE |-> mk_w_warehouse(m), WEB_PAGE |-> mk_w_web_page(m),
    WEB_SALES |-> mk_w_web_sales(m), WEB_SITE |-> mk_w_web_site(m),
    DBGEN_VERSION |-> mk_dbgen_version(m)]

w_firstCall(items) == [
    CATALOG_SALES |-> makePermutation("CS_PERMUTE", items),
    STORE_SALES |-> makePermutation("SS_PERMUTATION", items),
    WEB_SALES |-> makePermutation("WS_PERMUTATION", items)]
=============================================================================
