------------------------ MODULE DsdgenSourceBuilders ------------------------
(***************************************************************************)
(* The builders of the update set (s_*.c): what one call draws from which  *)
(* stream.  Those that take a row of a warehouse table make it with the    *)
(* builder of that table.                                                  *)
(***************************************************************************)
EXTENDS DsdgenBuilders, Naturals

\* A revision of the id is drawn, for two ids in three.
getSKFromIDDraws(m, s) == AtMost(m, genrand_integer({s}))

mk_s_call_center(m) == getSKFromIDDraws(m, "S_CALL_CENTER_ID") (+) mk_w_call_center(m)
mk_s_store(m) == getSKFromIDDraws(m, "S_STORE_ID") (+) mk_w_store(m)
mk_s_warehouse(m) == mk_w_warehouse(m)
mk_s_web_page(m) == getSKFromIDDraws(m, "S_WPAG_ID") (+) mk_w_web_page(m)
mk_s_catalog_page(m) == mk_w_catalog_page(m)
mk_s_item(m) == getSKFromIDDraws(m, "S_ITEM_ID") (+) mk_w_item(m)
mk_s_promotion(m) == mk_w_promotion(m)

\* Three of them also end the row of the warehouse table they took.
s_rowStops == [S_CATALOG_PAGE |-> "CATALOG_PAGE", S_ITEM |-> "ITEM", S_PROMOTION |-> "PROMOTION"]

\* The second half of the builder is the address of the customer.
mk_s_customer(m) ==
    mk_join(m, "S_CUST_GENDER", "CUSTOMER_DEMOGRAPHICS")
    (+) pick_distribution({"S_CUST_FIRST_NAME", "S_CUST_SALUTATION", "S_CUST_LAST_NAME",
                           "S_CUST_LOCATION_TYPE", "S_CUST_VEHICLE_CNT",
                           "S_CUST_PURCHASE_ESTIMATE"})
    (+) genrand_integer({"S_CUST_PREFERRED_FLAG", "S_CUST_FIRST_SHIPTO_DATE"})
    (+) genrand_date({"S_CUST_BIRTH_DATE", "S_CUST_FIRST_PURCHASE_DATE", "S_CUST_LAST_LOGIN",
                      "S_CUST_LAST_REVIEW"})
    (+) gen_charset("S_CUST_LOGIN", 13)
    (+) genrand_email("S_CUST_EMAIL")
    (+) genrand_ipaddr("S_CUST_PRIMARY_MACHINE") (+) genrand_ipaddr("S_CUST_SECONDARY_MACHINE")
    (+) genrand_decimal({"S_CUST_INCOME"})
    (+) mk_w_customer_address(m)

mk_s_inventory(m) == genrand_integer({"S_INVN_QUANTITY"})
mk_s_zip_to_gmt(m) == EmptyBag

(***************************************************************************)
(* The orders: a master, its lines, and the returns of the lines.          *)
(***************************************************************************)
mk_s_catalog_order_lineitem(m) ==
    mk_join(m, "S_CLIN_PROMOTION_ID", "PROMOTION")
    (+) mk_join(m, "S_CLIN_WAREHOUSE_ID", "WAREHOUSE")
    (+) genrand_integer({"S_CLIN_SHIP_DATE"})
    (+) mk_join(m, "S_CLIN_CATALOG_PAGE_ID", "CATALOG_PAGE")
    (+) set_pricing("S_CLIN_PRICING")

mk_s_catalog_returns(m) ==
    genrand_integer({"S_CRET_DATE", "S_CRET_PRICING"})
    (+) mk_join(m, "S_CRET_TIME", "TIME")
    (+) mk_join(m, "S_CRET_CALL_CENTER_ID", "CALL_CENTER")
    (+) mk_join(m, "S_CRET_REASON_ID", "REASON")
    (+) set_pricing("S_CRET_PRICING")
    (+) mk_join(m, "S_CRET_SHIPMODE_ID", "SHIP_MODE")
    (+) mk_join(m, "S_CRET_WAREHOUSE_ID", "WAREHOUSE")

s_cord_mk_master(m) ==
    genrand_integer({"S_CORD_ORDER_TIME", "S_CORD_SHIP_CUSTOMER_ID"})
    (+) mk_join(m, "S_CORD_BILL_CUSTOMER_ID", "CUSTOMER")
    (+) AtMost(m, mk_join(m, "S_CORD_SHIP_CUSTOMER_ID", "CUSTOMER"))
    (+) mk_join(m, "S_CORD_SHIP_MODE_ID", "SHIP_MODE")
    (+) gen_text(m, "S_CORD_COMMENT", 100)

s_cord_mk_detail(m) ==
    mk_s_catalog_order_lineitem(m)
    (+) genrand_integer({"S_CLIN_IS_RETURNED"})
    (+) AtMost(m, mk_s_catalog_returns(m))

mk_s_catalog_order(m) ==
    s_cord_mk_master(m) (+) genrand_integer({"S_CLIN_ITEM_ID"})
    (+) Times(9, s_cord_mk_detail(m))

mk_s_pline(m) ==
    mk_join(m, "S_PLINE_PROMOTION_ID", "PROMOTION")
    (+) genrand_integer({"S_PLINE_QUANTITY"})
    (+) set_pricing("S_PLINE_PRICING")
    (+) gen_text(m, "S_PLINE_COMMENT", 100)

mk_s_store_returns(m) ==
    genrand_integer({"S_SRET_RETURN_DATE", "S_SRET_PRICING"})
    (+) mk_join(m, "S_SRET_RETURN_TIME", "TIME")
    (+) mk_join(m, "S_SRET_REASON_ID", "REASON")
    (+) set_pricing("S_SRET_PRICING")

s_purchase_mk_master(m) ==
    mk_join(m, "S_PURCHASE_STORE_ID", "STORE")
    (+) mk_join(m, "S_PURCHASE_CUSTOMER_ID", "CUSTOMER")
    (+) genrand_integer({"S_PURCHASE_REGISTER", "S_PURCHASE_CLERK"})
    (+) gen_text(m, "S_PURCHASE_COMMENT", 100)

s_purchase_mk_detail(m) ==
    mk_s_pline(m)
    (+) genrand_integer({"S_PLINE_IS_RETURNED"})
    (+) AtMost(m, mk_s_store_returns(m))

mk_s_purchase(m) ==
    s_purchase_mk_master(m) (+) genrand_integer({"S_PLINE_ITEM_ID"})
    (+) Times(12, s_purchase_mk_detail(m))

mk_s_web_order_lineitem(m) ==
    mk_join(m, "S_WLIN_PROMOTION_ID", "PROMOTION")
    (+) mk_join(m, "S_WLIN_WAREHOUSE_ID", "WAREHOUSE")
    (+) genrand_integer({"S_WLIN_SHIP_DATE"})
    (+) mk_join(m, "S_WLIN_WEB_PAGE_ID", "WEB_PAGE")
    (+) set_pricing("S_WLIN_PRICING")

\* The reason is drawn twice.
mk_s_web_return(m) ==
    genrand_integer({"S_WRET_RETURN_DATE", "S_WRET_PRICING"})
    (+) mk_join(m, "S_WRET_RETURN_TIME", "TIME")
    (+) Times(2, mk_join(m, "S_WRET_REASON_ID", "REASON"))
    (+) set_pricing("S_WRET_PRICING")

s_word_mk_master(m) ==
    genrand_integer({"S_WORD_ORDER_TIME", "S_WORD_SHIP_CUSTOMER_ID"})
    (+) mk_join(m, "S_WORD_BILL_CUSTOMER_ID", "CUSTOMER")
    (+) AtMost(m, mk_join(m, "S_WORD_SHIP_CUSTOMER_ID", "CUSTOMER"))
    (+) mk_join(m, "S_WORD_SHIP_MODE_ID", "SHIP_MODE")
    (+) mk_join(m, "S_WORD_WEB_SITE_ID", "WEB_SITE")
    (+) gen_text(m, "S_WORD_COMMENT", 100)

s_word_mk_detail(m) ==
    mk_s_web_order_lineitem(m)
    (+) genrand_integer({"S_WLIN_IS_RETURNED"})
    (+) AtMost(m, mk_s_web_return(m))

mk_s_web_order(m) ==
    s_word_mk_master(m) (+) genrand_integer({"S_WLIN_ITEM_ID"})
    (+) Times(12, s_word_mk_detail(m))

(***************************************************************************)
(* The builder of each table: the customer's builder makes the address     *)
(* that s_customer_address prints, and that table has one of its own.      *)
(***************************************************************************)
s_builders(m) == [
    S_CUSTOMER_ADDRESS |-> mk_w_customer_address(m), S_CALL_CENTER |-> mk_s_call_center(m),
    S_CATALOG_ORDER |-> mk_s_catalog_order(m),
    S_CATALOG_PAGE |-> mk_s_catalog_page(m),
    S_CUSTOMER |-> mk_s_customer(m), S_INVENTORY |-> mk_s_inventory(m),
    S_ITEM |-> mk_s_item(m),
    S_PROMOTION |-> mk_s_promotion(m), S_PURCHASE |-> mk_s_purchase(m),
    S_STORE |-> mk_s_store(m), S_WAREHOUSE |-> mk_s_warehouse(m),
    S_WEB_ORDER |-> mk_s_web_order(m), S_WEB_PAGE |-> mk_s_web_page(m),
    S_WEB_SITE |-> mk_w_web_site(m), S_ZIPG |-> mk_s_zip_to_gmt(m)]

\* The permutations of the first calls; n is the number of ids of a table.
s_firstCall(n) == [
    S_CALL_CENTER |-> makePermutation("S_CALL_CENTER_ID", n.call_center),
    S_CATALOG_ORDER |-> makePermutation("S_CLIN_PERMUTE", n.item),
    S_CUSTOMER |-> makePermutation("S_CUST_ID", n.customer),
    S_ITEM |-> makePermutation("S_ITEM_PERMUTE", n.item),
    S_PROMOTION |-> makePermutation("S_PROMOTION_ID", n.promotion),
    S_PURCHASE |-> makePermutation("S_PLINE_PERMUTE", n.item),
    S_STORE |-> makePermutation("S_STORE_ID", n.store),
    S_WAREHOUSE |-> makePermutation("S_WRHS_ID", n.warehouse),
    S_WEB_ORDER |-> makePermutation("S_WLIN_PERMUTE", n.item),
    S_WEB_PAGE |-> makePermutation("S_WPAG_PERMUTE", n.web_page)]
=============================================================================
