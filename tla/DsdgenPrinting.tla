--------------------------- MODULE DsdgenPrinting ---------------------------
(***************************************************************************)
(* The rows of dsdgen's files: the fields that every pr_* writes, in their *)
(* order, the tables that tpcds.sql and tpcds_source.sql declare for them, *)
(* and the bitmap of nulls between a builder and its printer (print.c,     *)
(* nulls.c).  A file is loaded by position, so the two must agree.         *)
(***************************************************************************)
EXTENDS DsdgenColumns, DsdgenTdefs, SequencesExt

\* print_key, print_id, ...: a column to check for null and a value to print.
\* A value is named for its column, but where several values share one.
Fields(kind, columns) ==
    [i \in DOMAIN columns |-> [kind |-> kind, column |-> columns[i], value |-> columns[i]]]
Sharing(kind, column, values) ==
    [i \in DOMAIN values |-> [kind |-> kind, column |-> column, value |-> values[i]]]
keys(columns) == Fields("key", columns)
ids(columns) == Fields("id", columns)
integers(columns) == Fields("integer", columns)
varchars(columns) == Fields("varchar", columns)
decimals(columns) == Fields("decimal", columns)
dates(columns) == Fields("date", columns)
times(columns) == Fields("time", columns)
booleans(columns) == Fields("boolean", columns)

\* A declared table: its columns, and the places that are NOT NULL. A column is
\* named for the value it is declared for: cc_closed_date_sk for CC_CLOSED_DATE_ID.
Typed(type, values) == [i \in DOMAIN values |-> [type |-> type, value |-> values[i]]]
integer(values) == Typed("integer", values)
char(values) == Typed("char", values)
date(values) == Typed("date", values)
decimal(values) == Typed("decimal", values)
time(values) == Typed("time", values)
Table(columns, notNull) == [columns |-> columns, notNull |-> notNull]

(***************************************************************************)
(* pr_*: what is printed                                                   *)
(***************************************************************************)
pr_w_call_center == keys(<<"CC_CALL_CENTER_SK">>) \o varchars(<<"CC_CALL_CENTER_ID">>)
    \o dates(<<"CC_REC_START_DATE_ID", "CC_REC_END_DATE_ID">>) \o keys(<<"CC_CLOSED_DATE_ID",
    "CC_OPEN_DATE_ID">>) \o varchars(<<"CC_NAME", "CC_CLASS">>) \o integers(<<"CC_EMPLOYEES",
    "CC_SQ_FT">>) \o varchars(<<"CC_HOURS", "CC_MANAGER">>) \o integers(<<"CC_MARKET_ID">>)
    \o varchars(<<"CC_MARKET_CLASS", "CC_MARKET_DESC", "CC_MARKET_MANAGER">>)
    \o integers(<<"CC_DIVISION">>) \o varchars(<<"CC_DIVISION_NAME">>)
    \o integers(<<"CC_COMPANY">>) \o varchars(<<"CC_COMPANY_NAME">>)
    \o Sharing("integer", "CC_ADDRESS", <<"CC_STREET_NUM">>) \o Sharing("varchar", "CC_ADDRESS", <<"CC_STREET_NAME1",
    "CC_STREET_TYPE", "CC_SUITE_NUM", "CC_CITY", "CC_COUNTY", "CC_STATE", "CC_ZIP",
    "CC_COUNTRY">>) \o Sharing("integer", "CC_ADDRESS", <<"CC_GMT_OFFSET">>)
    \o decimals(<<"CC_TAX_PERCENTAGE">>)

pr_w_catalog_page == keys(<<"CP_CATALOG_PAGE_SK">>) \o varchars(<<"CP_CATALOG_PAGE_ID">>)
    \o keys(<<"CP_START_DATE_ID", "CP_END_DATE_ID">>) \o varchars(<<"CP_DEPARTMENT">>)
    \o integers(<<"CP_CATALOG_NUMBER", "CP_CATALOG_PAGE_NUMBER">>) \o varchars(<<"CP_DESCRIPTION",
    "CP_TYPE">>)

pr_w_catalog_returns == keys(<<"CR_RETURNED_DATE_SK", "CR_RETURNED_TIME_SK", "CR_ITEM_SK",
    "CR_REFUNDED_CUSTOMER_SK", "CR_REFUNDED_CDEMO_SK", "CR_REFUNDED_HDEMO_SK",
    "CR_REFUNDED_ADDR_SK", "CR_RETURNING_CUSTOMER_SK", "CR_RETURNING_CDEMO_SK",
    "CR_RETURNING_HDEMO_SK", "CR_RETURNING_ADDR_SK", "CR_CALL_CENTER_SK", "CR_CATALOG_PAGE_SK",
    "CR_SHIP_MODE_SK", "CR_WAREHOUSE_SK", "CR_REASON_SK", "CR_ORDER_NUMBER">>)
    \o integers(<<"CR_PRICING_QUANTITY">>) \o decimals(<<"CR_PRICING_NET_PAID",
    "CR_PRICING_EXT_TAX", "CR_PRICING_NET_PAID_INC_TAX", "CR_PRICING_FEE",
    "CR_PRICING_EXT_SHIP_COST", "CR_PRICING_REFUNDED_CASH", "CR_PRICING_REVERSED_CHARGE",
    "CR_PRICING_STORE_CREDIT", "CR_PRICING_NET_LOSS">>)

pr_w_catalog_sales == keys(<<"CS_SOLD_DATE_SK", "CS_SOLD_TIME_SK", "CS_SHIP_DATE_SK",
    "CS_BILL_CUSTOMER_SK", "CS_BILL_CDEMO_SK", "CS_BILL_HDEMO_SK", "CS_BILL_ADDR_SK",
    "CS_SHIP_CUSTOMER_SK", "CS_SHIP_CDEMO_SK", "CS_SHIP_HDEMO_SK", "CS_SHIP_ADDR_SK",
    "CS_CALL_CENTER_SK", "CS_CATALOG_PAGE_SK", "CS_SHIP_MODE_SK", "CS_WAREHOUSE_SK",
    "CS_SOLD_ITEM_SK", "CS_PROMO_SK", "CS_ORDER_NUMBER">>) \o integers(<<"CS_PRICING_QUANTITY">>)
    \o decimals(<<"CS_PRICING_WHOLESALE_COST", "CS_PRICING_LIST_PRICE", "CS_PRICING_SALES_PRICE",
    "CS_PRICING_EXT_DISCOUNT_AMOUNT", "CS_PRICING_EXT_SALES_PRICE",
    "CS_PRICING_EXT_WHOLESALE_COST", "CS_PRICING_EXT_LIST_PRICE", "CS_PRICING_EXT_TAX",
    "CS_PRICING_COUPON_AMT", "CS_PRICING_EXT_SHIP_COST", "CS_PRICING_NET_PAID",
    "CS_PRICING_NET_PAID_INC_TAX", "CS_PRICING_NET_PAID_INC_SHIP",
    "CS_PRICING_NET_PAID_INC_SHIP_TAX", "CS_PRICING_NET_PROFIT">>)

pr_w_customer == keys(<<"C_CUSTOMER_SK">>) \o varchars(<<"C_CUSTOMER_ID">>)
    \o keys(<<"C_CURRENT_CDEMO_SK", "C_CURRENT_HDEMO_SK", "C_CURRENT_ADDR_SK">>)
    \o integers(<<"C_FIRST_SHIPTO_DATE_ID", "C_FIRST_SALES_DATE_ID">>)
    \o varchars(<<"C_SALUTATION", "C_FIRST_NAME", "C_LAST_NAME">>)
    \o booleans(<<"C_PREFERRED_CUST_FLAG">>) \o integers(<<"C_BIRTH_DAY", "C_BIRTH_MONTH",
    "C_BIRTH_YEAR">>) \o varchars(<<"C_BIRTH_COUNTRY", "C_LOGIN", "C_EMAIL_ADDRESS">>)
    \o integers(<<"C_LAST_REVIEW_DATE">>)

pr_w_customer_address == keys(<<"CA_ADDRESS_SK">>) \o varchars(<<"CA_ADDRESS_ID">>)
    \o integers(<<"CA_ADDRESS_STREET_NUM">>) \o varchars(<<"CA_ADDRESS_STREET_NAME1",
    "CA_ADDRESS_STREET_TYPE", "CA_ADDRESS_SUITE_NUM", "CA_ADDRESS_CITY", "CA_ADDRESS_COUNTY",
    "CA_ADDRESS_STATE", "CA_ADDRESS_ZIP", "CA_ADDRESS_COUNTRY">>)
    \o integers(<<"CA_ADDRESS_GMT_OFFSET">>) \o varchars(<<"CA_LOCATION_TYPE">>)

pr_w_customer_demographics == keys(<<"CD_DEMO_SK">>) \o varchars(<<"CD_GENDER",
    "CD_MARITAL_STATUS", "CD_EDUCATION_STATUS">>) \o integers(<<"CD_PURCHASE_ESTIMATE">>)
    \o varchars(<<"CD_CREDIT_RATING">>) \o integers(<<"CD_DEP_COUNT", "CD_DEP_EMPLOYED_COUNT",
    "CD_DEP_COLLEGE_COUNT">>)

pr_w_date == keys(<<"D_DATE_SK">>) \o varchars(<<"D_DATE_ID">>) 
    \o Sharing("date", "D_DATE_SK", <<"D_DATE">>)
    \o integers(<<"D_MONTH_SEQ", "D_WEEK_SEQ", "D_QUARTER_SEQ", "D_YEAR", "D_DOW", "D_MOY",
    "D_DOM", "D_QOY", "D_FY_YEAR", "D_FY_QUARTER_SEQ", "D_FY_WEEK_SEQ">>)
    \o varchars(<<"D_DAY_NAME", "D_QUARTER_NAME">>) \o booleans(<<"D_HOLIDAY", "D_WEEKEND",
    "D_FOLLOWING_HOLIDAY">>) \o integers(<<"D_FIRST_DOM", "D_LAST_DOM", "D_SAME_DAY_LY",
    "D_SAME_DAY_LQ">>) \o booleans(<<"D_CURRENT_DAY", "D_CURRENT_WEEK", "D_CURRENT_MONTH",
    "D_CURRENT_QUARTER", "D_CURRENT_YEAR">>)

pr_w_household_demographics == keys(<<"HD_DEMO_SK", "HD_INCOME_BAND_ID">>)
    \o varchars(<<"HD_BUY_POTENTIAL">>) \o integers(<<"HD_DEP_COUNT", "HD_VEHICLE_COUNT">>)

pr_w_income_band == integers(<<"IB_INCOME_BAND_ID", "IB_LOWER_BOUND", "IB_UPPER_BOUND">>)

pr_w_inventory == keys(<<"INV_DATE_SK", "INV_ITEM_SK", "INV_WAREHOUSE_SK">>)
    \o integers(<<"INV_QUANTITY_ON_HAND">>)

pr_w_item == keys(<<"I_ITEM_SK">>) \o varchars(<<"I_ITEM_ID">>) \o dates(<<"I_REC_START_DATE_ID",
    "I_REC_END_DATE_ID">>) \o varchars(<<"I_ITEM_DESC">>) \o decimals(<<"I_CURRENT_PRICE",
    "I_WHOLESALE_COST">>) \o keys(<<"I_BRAND_ID">>) \o varchars(<<"I_BRAND">>)
    \o keys(<<"I_CLASS_ID">>) \o varchars(<<"I_CLASS">>) \o keys(<<"I_CATEGORY_ID">>)
    \o varchars(<<"I_CATEGORY">>) \o keys(<<"I_MANUFACT_ID">>) \o varchars(<<"I_MANUFACT",
    "I_SIZE", "I_FORMULATION", "I_COLOR", "I_UNITS", "I_CONTAINER">>) \o keys(<<"I_MANAGER_ID">>)
    \o varchars(<<"I_PRODUCT_NAME">>)

pr_w_promotion == keys(<<"P_PROMO_SK">>) \o varchars(<<"P_PROMO_ID">>) \o keys(<<"P_START_DATE_ID",
    "P_END_DATE_ID", "P_ITEM_SK">>) \o decimals(<<"P_COST">>) \o integers(<<"P_RESPONSE_TARGET">>)
    \o varchars(<<"P_PROMO_NAME">>) \o booleans(<<"P_CHANNEL_DMAIL", "P_CHANNEL_EMAIL",
    "P_CHANNEL_CATALOG", "P_CHANNEL_TV", "P_CHANNEL_RADIO", "P_CHANNEL_PRESS", "P_CHANNEL_EVENT",
    "P_CHANNEL_DEMO">>) \o varchars(<<"P_CHANNEL_DETAILS", "P_PURPOSE">>)
    \o booleans(<<"P_DISCOUNT_ACTIVE">>)

pr_w_reason == keys(<<"R_REASON_SK">>) \o varchars(<<"R_REASON_ID", "R_REASON_DESCRIPTION">>)

pr_w_ship_mode == keys(<<"SM_SHIP_MODE_SK">>) \o varchars(<<"SM_SHIP_MODE_ID", "SM_TYPE",
    "SM_CODE", "SM_CARRIER", "SM_CONTRACT">>)

pr_w_store == keys(<<"W_STORE_SK">>) \o varchars(<<"W_STORE_ID">>)
    \o dates(<<"W_STORE_REC_START_DATE_ID", "W_STORE_REC_END_DATE_ID">>)
    \o keys(<<"W_STORE_CLOSED_DATE_ID">>) \o varchars(<<"W_STORE_NAME">>)
    \o integers(<<"W_STORE_EMPLOYEES", "W_STORE_FLOOR_SPACE">>) \o varchars(<<"W_STORE_HOURS",
    "W_STORE_MANAGER">>) \o integers(<<"W_STORE_MARKET_ID">>)
    \o varchars(<<"W_STORE_GEOGRAPHY_CLASS", "W_STORE_MARKET_DESC", "W_STORE_MARKET_MANAGER">>)
    \o keys(<<"W_STORE_DIVISION_ID">>) \o varchars(<<"W_STORE_DIVISION_NAME">>)
    \o keys(<<"W_STORE_COMPANY_ID">>) \o varchars(<<"W_STORE_COMPANY_NAME">>)
    \o integers(<<"W_STORE_ADDRESS_STREET_NUM">>) \o varchars(<<"W_STORE_ADDRESS_STREET_NAME1",
    "W_STORE_ADDRESS_STREET_TYPE", "W_STORE_ADDRESS_SUITE_NUM", "W_STORE_ADDRESS_CITY",
    "W_STORE_ADDRESS_COUNTY", "W_STORE_ADDRESS_STATE", "W_STORE_ADDRESS_ZIP",
    "W_STORE_ADDRESS_COUNTRY">>) \o integers(<<"W_STORE_ADDRESS_GMT_OFFSET">>)
    \o decimals(<<"W_STORE_TAX_PERCENTAGE">>)

pr_w_store_returns == keys(<<"SR_RETURNED_DATE_SK", "SR_RETURNED_TIME_SK", "SR_ITEM_SK",
    "SR_CUSTOMER_SK", "SR_CDEMO_SK", "SR_HDEMO_SK", "SR_ADDR_SK", "SR_STORE_SK", "SR_REASON_SK",
    "SR_TICKET_NUMBER">>) \o integers(<<"SR_PRICING_QUANTITY">>)
    \o decimals(<<"SR_PRICING_NET_PAID", "SR_PRICING_EXT_TAX", "SR_PRICING_NET_PAID_INC_TAX",
    "SR_PRICING_FEE", "SR_PRICING_EXT_SHIP_COST", "SR_PRICING_REFUNDED_CASH",
    "SR_PRICING_REVERSED_CHARGE", "SR_PRICING_STORE_CREDIT", "SR_PRICING_NET_LOSS">>)

pr_w_store_sales == keys(<<"SS_SOLD_DATE_SK", "SS_SOLD_TIME_SK", "SS_SOLD_ITEM_SK",
    "SS_SOLD_CUSTOMER_SK", "SS_SOLD_CDEMO_SK", "SS_SOLD_HDEMO_SK", "SS_SOLD_ADDR_SK",
    "SS_SOLD_STORE_SK", "SS_SOLD_PROMO_SK", "SS_TICKET_NUMBER">>)
    \o integers(<<"SS_PRICING_QUANTITY">>) \o decimals(<<"SS_PRICING_WHOLESALE_COST",
    "SS_PRICING_LIST_PRICE", "SS_PRICING_SALES_PRICE", "SS_PRICING_COUPON_AMT",
    "SS_PRICING_EXT_SALES_PRICE", "SS_PRICING_EXT_WHOLESALE_COST", "SS_PRICING_EXT_LIST_PRICE",
    "SS_PRICING_EXT_TAX", "SS_PRICING_COUPON_AMT", "SS_PRICING_NET_PAID",
    "SS_PRICING_NET_PAID_INC_TAX", "SS_PRICING_NET_PROFIT">>)

pr_w_time == keys(<<"T_TIME_SK">>) \o varchars(<<"T_TIME_ID">>) \o integers(<<"T_TIME", "T_HOUR",
    "T_MINUTE", "T_SECOND">>) \o varchars(<<"T_AM_PM", "T_SHIFT", "T_SUB_SHIFT", "T_MEAL_TIME">>)

pr_w_warehouse == keys(<<"W_WAREHOUSE_SK">>) \o varchars(<<"W_WAREHOUSE_ID", "W_WAREHOUSE_NAME">>)
    \o integers(<<"W_WAREHOUSE_SQ_FT", "W_ADDRESS_STREET_NUM">>)
    \o varchars(<<"W_ADDRESS_STREET_NAME1", "W_ADDRESS_STREET_TYPE", "W_ADDRESS_SUITE_NUM",
    "W_ADDRESS_CITY", "W_ADDRESS_COUNTY", "W_ADDRESS_STATE", "W_ADDRESS_ZIP",
    "W_ADDRESS_COUNTRY">>) \o integers(<<"W_ADDRESS_GMT_OFFSET">>)

pr_w_web_page == keys(<<"WP_PAGE_SK">>) \o varchars(<<"WP_PAGE_ID">>)
    \o dates(<<"WP_REC_START_DATE_ID", "WP_REC_END_DATE_ID">>) \o keys(<<"WP_CREATION_DATE_SK",
    "WP_ACCESS_DATE_SK">>) \o booleans(<<"WP_AUTOGEN_FLAG">>) \o keys(<<"WP_CUSTOMER_SK">>)
    \o varchars(<<"WP_URL", "WP_TYPE">>) \o integers(<<"WP_CHAR_COUNT", "WP_LINK_COUNT",
    "WP_IMAGE_COUNT", "WP_MAX_AD_COUNT">>)

pr_w_web_returns == keys(<<"WR_RETURNED_DATE_SK", "WR_RETURNED_TIME_SK", "WR_ITEM_SK",
    "WR_REFUNDED_CUSTOMER_SK", "WR_REFUNDED_CDEMO_SK", "WR_REFUNDED_HDEMO_SK",
    "WR_REFUNDED_ADDR_SK", "WR_RETURNING_CUSTOMER_SK", "WR_RETURNING_CDEMO_SK",
    "WR_RETURNING_HDEMO_SK", "WR_RETURNING_ADDR_SK", "WR_WEB_PAGE_SK", "WR_REASON_SK",
    "WR_ORDER_NUMBER">>) \o integers(<<"WR_PRICING_QUANTITY">>)
    \o decimals(<<"WR_PRICING_NET_PAID", "WR_PRICING_EXT_TAX", "WR_PRICING_NET_PAID_INC_TAX",
    "WR_PRICING_FEE", "WR_PRICING_EXT_SHIP_COST", "WR_PRICING_REFUNDED_CASH",
    "WR_PRICING_REVERSED_CHARGE", "WR_PRICING_STORE_CREDIT", "WR_PRICING_NET_LOSS">>)

pr_w_web_sales == keys(<<"WS_SOLD_DATE_SK", "WS_SOLD_TIME_SK", "WS_SHIP_DATE_SK", "WS_ITEM_SK",
    "WS_BILL_CUSTOMER_SK", "WS_BILL_CDEMO_SK", "WS_BILL_HDEMO_SK", "WS_BILL_ADDR_SK",
    "WS_SHIP_CUSTOMER_SK", "WS_SHIP_CDEMO_SK", "WS_SHIP_HDEMO_SK", "WS_SHIP_ADDR_SK",
    "WS_WEB_PAGE_SK", "WS_WEB_SITE_SK", "WS_SHIP_MODE_SK", "WS_WAREHOUSE_SK", "WS_PROMO_SK",
    "WS_ORDER_NUMBER">>) \o integers(<<"WS_PRICING_QUANTITY">>)
    \o decimals(<<"WS_PRICING_WHOLESALE_COST", "WS_PRICING_LIST_PRICE", "WS_PRICING_SALES_PRICE",
    "WS_PRICING_EXT_DISCOUNT_AMT", "WS_PRICING_EXT_SALES_PRICE", "WS_PRICING_EXT_WHOLESALE_COST",
    "WS_PRICING_EXT_LIST_PRICE", "WS_PRICING_EXT_TAX", "WS_PRICING_COUPON_AMT",
    "WS_PRICING_EXT_SHIP_COST", "WS_PRICING_NET_PAID", "WS_PRICING_NET_PAID_INC_TAX",
    "WS_PRICING_NET_PAID_INC_SHIP", "WS_PRICING_NET_PAID_INC_SHIP_TAX", "WS_PRICING_NET_PROFIT">>)

pr_w_web_site == keys(<<"WEB_SITE_SK">>) \o varchars(<<"WEB_SITE_ID">>)
    \o dates(<<"WEB_REC_START_DATE_ID", "WEB_REC_END_DATE_ID">>) \o varchars(<<"WEB_NAME">>)
    \o keys(<<"WEB_OPEN_DATE", "WEB_CLOSE_DATE">>) \o varchars(<<"WEB_CLASS", "WEB_MANAGER">>)
    \o integers(<<"WEB_MARKET_ID">>) \o varchars(<<"WEB_MARKET_CLASS", "WEB_MARKET_DESC",
    "WEB_MARKET_MANAGER">>) \o integers(<<"WEB_COMPANY_ID">>) \o varchars(<<"WEB_COMPANY_NAME">>)
    \o integers(<<"WEB_ADDRESS_STREET_NUM">>) \o varchars(<<"WEB_ADDRESS_STREET_NAME1",
    "WEB_ADDRESS_STREET_TYPE", "WEB_ADDRESS_SUITE_NUM", "WEB_ADDRESS_CITY", "WEB_ADDRESS_COUNTY",
    "WEB_ADDRESS_STATE", "WEB_ADDRESS_ZIP", "WEB_ADDRESS_COUNTRY">>)
    \o integers(<<"WEB_ADDRESS_GMT_OFFSET">>) \o decimals(<<"WEB_TAX_PERCENTAGE">>)

pr_dbgen_version == varchars(<<"DV_VERSION", "DV_CREATE_DATE", "DV_CREATE_TIME",
    "DV_CMDLINE_ARGS">>)

pr_s_customer_address == varchars(<<"S_CADR_ID">>) \o integers(<<"S_CADR_ADDRESS_STREET_NUMBER">>)
    \o varchars(<<"S_CADR_ADDRESS_STREET_NAME1", "S_CADR_ADDRESS_STREET_NAME2",
    "S_CADR_ADDRESS_STREET_TYPE", "S_CADR_ADDRESS_SUITE_NUM", "S_CADR_ADDRESS_CITY",
    "S_CADR_ADDRESS_COUNTY", "S_CADR_ADDRESS_STATE", "S_CADR_ADDRESS_ZIP",
    "S_CADR_ADDRESS_COUNTRY">>)

pr_s_call_center == ids(<<"CC_CALL_CENTER_SK">>) \o dates(<<"CC_OPEN_DATE_ID",
    "CC_CLOSED_DATE_ID">>) \o varchars(<<"CC_NAME", "CC_CLASS">>) \o integers(<<"CC_EMPLOYEES",
    "CC_SQ_FT">>) \o varchars(<<"CC_HOURS", "CC_MANAGER">>) \o decimals(<<"CC_TAX_PERCENTAGE">>)

pr_s_catalog_order == keys(<<"S_CORD_ID">>) \o ids(<<"S_CORD_BILL_CUSTOMER_ID",
    "S_CORD_SHIP_CUSTOMER_ID">>) \o dates(<<"S_CORD_ORDER_DATE">>)
    \o integers(<<"S_CORD_ORDER_TIME">>) \o ids(<<"S_CORD_SHIP_MODE_ID",
    "S_CORD_CALL_CENTER_ID">>) \o varchars(<<"S_CORD_COMMENT">>)

pr_s_catalog_order_lineitem == keys(<<"S_CLIN_ORDER_ID", "S_CLIN_LINE_NUMBER">>)
    \o ids(<<"S_CLIN_ITEM_ID", "S_CLIN_PROMOTION_ID">>) \o integers(<<"S_CLIN_QUANTITY">>)
    \o Sharing("decimal", "S_CLIN_PRICING", <<"S_CLIN_SALES_PRICE">>)
    \o decimals(<<"S_CLIN_COUPON_AMT">>) \o ids(<<"S_CLIN_WAREHOUSE_ID">>)
    \o dates(<<"S_CLIN_SHIP_DATE">>) \o keys(<<"S_CLIN_CATALOG_ID", "S_CLIN_CATALOG_PAGE_ID">>)
    \o decimals(<<"S_CLIN_SHIP_COST">>)

pr_s_catalog_page == integers(<<"S_CATALOG_PAGE_CATALOG_NUMBER", "S_CATALOG_PAGE_NUMBER">>)
    \o varchars(<<"S_CATALOG_PAGE_DEPARTMENT", "S_CP_ID">>) \o dates(<<"S_CP_START_DATE",
    "S_CP_END_DATE">>) \o varchars(<<"S_CP_DESCRIPTION", "S_CP_TYPE">>)

pr_s_catalog_returns == ids(<<"S_CRET_CALL_CENTER_ID">>) \o keys(<<"S_CRET_ORDER_ID",
    "S_CRET_LINE_NUMBER">>) \o ids(<<"S_CRET_ITEM_ID", "S_CRET_RETURN_CUSTOMER_ID",
    "S_CRET_REFUND_CUSTOMER_ID">>) \o dates(<<"S_CRET_DATE">>) \o times(<<"S_CRET_TIME">>)
    \o integers(<<"S_CRET_QUANTITY">>) \o decimals(<<"S_CRET_AMOUNT", "S_CRET_TAX", "S_CRET_FEE",
    "S_CRET_SHIP_COST", "S_CRET_REFUNDED_CASH", "S_CRET_REVERSED_CHARGE",
    "S_CRET_MERCHANT_CREDIT">>) \o ids(<<"S_CRET_REASON_ID", "S_CRET_SHIPMODE_ID",
    "S_CRET_WAREHOUSE_ID", "S_CRET_CATALOG_PAGE_ID">>)

pr_s_customer == ids(<<"S_CUST_ID">>) \o varchars(<<"S_CUST_SALUTATION", "S_CUST_LAST_NAME",
    "S_CUST_FIRST_NAME">>) \o booleans(<<"S_CUST_PREFERRED_FLAG">>)
    \o dates(<<"S_CUST_BIRTH_DATE">>) \o varchars(<<"S_CUST_BIRTH_COUNTRY", "S_CUST_LOGIN",
    "S_CUST_EMAIL">>) \o dates(<<"S_CUST_LAST_LOGIN", "S_CUST_FIRST_SHIPTO_DATE",
    "S_CUST_FIRST_PURCHASE_DATE", "S_CUST_LAST_REVIEW">>) \o varchars(<<"S_CUST_PRIMARY_MACHINE",
    "S_CUST_SECONDARY_MACHINE">>) \o integers(<<"S_CUST_ADDRESS_STREET_NUM">>)
    \o varchars(<<"S_CUST_ADDRESS_SUITE_NUM", "S_CUST_ADDRESS_STREET_NAME1",
    "S_CUST_ADDRESS_STREET_NAME2", "S_CUST_ADDRESS_STREET_TYPE", "S_CUST_ADDRESS_CITY",
    "S_CUST_ADDRESS_ZIP", "S_CUST_ADDRESS_COUNTY", "S_CUST_ADDRESS_STATE",
    "S_CUST_ADDRESS_COUNTRY", "S_CUST_LOCATION_TYPE", "S_CUST_GENDER", "S_CUST_MARITAL_STATUS",
    "S_CUST_EDUCATION", "S_CUST_CREDIT_RATING">>) \o integers(<<"S_CUST_PURCHASE_ESTIMATE">>)
    \o varchars(<<"S_CUST_BUY_POTENTIAL">>) \o integers(<<"S_CUST_DEPENDENT_CNT",
    "S_CUST_EMPLOYED_CNT", "S_CUST_COLLEGE_CNT", "S_CUST_VEHICLE_CNT">>)
    \o decimals(<<"S_CUST_INCOME">>)

pr_s_inventory == ids(<<"S_INVN_WAREHOUSE", "S_INVN_ITEM">>) \o dates(<<"S_INVN_DATE">>)
    \o integers(<<"S_INVN_QUANTITY">>)

pr_s_item == varchars(<<"S_ITEM_ID", "S_ITEM_DESC">>) \o decimals(<<"S_ITEM_LIST_PRICE",
    "S_ITEM_WHOLESALE_COST">>) \o varchars(<<"S_ITEM_SIZE", "S_ITEM_FORMULATION", "S_ITEM_FLAVOR",
    "S_ITEM_UNITS", "S_ITEM_CONTAINER">>) \o keys(<<"S_ITEM_MANAGER_ID">>)

pr_s_promotion == varchars(<<"P_PROMO_ID", "P_PROMO_NAME">>) \o Sharing("date", "P_START_DATE_ID",
    <<"P_START_DATE_ID", "P_END_DATE_ID">>) \o decimals(<<"P_COST">>) \o integers(<<"P_RESPONSE_TARGET">>)
    \o booleans(<<"P_CHANNEL_DMAIL", "P_CHANNEL_EMAIL", "P_CHANNEL_CATALOG", "P_CHANNEL_TV",
    "P_CHANNEL_RADIO", "P_CHANNEL_PRESS", "P_CHANNEL_EVENT", "P_CHANNEL_DEMO">>)
    \o varchars(<<"P_CHANNEL_DETAILS", "P_PURPOSE">>) \o booleans(<<"P_DISCOUNT_ACTIVE">>)

pr_s_purchase == keys(<<"S_PURCHASE_ID">>) \o varchars(<<"S_PURCHASE_STORE_ID",
    "S_PURCHASE_CUSTOMER_ID">>) \o dates(<<"S_PURCHASE_DATE">>) \o integers(<<"S_PURCHASE_TIME",
    "S_PURCHASE_REGISTER", "S_PURCHASE_CLERK">>) \o varchars(<<"S_PURCHASE_COMMENT">>)

pr_s_pline == keys(<<"S_PLINE_PURCHASE_ID", "S_PLINE_NUMBER">>) \o ids(<<"S_PLINE_ITEM_ID",
    "S_PLINE_PROMOTION_ID">>) \o integers(<<"S_PLINE_QUANTITY">>)
    \o decimals(<<"S_PLINE_SALE_PRICE", "S_PLINE_COUPON_AMT">>) \o varchars(<<"S_PLINE_COMMENT">>)

pr_s_store == varchars(<<"W_STORE_ID">>) \o dates(<<"W_STORE_CLOSED_DATE_ID">>)
    \o varchars(<<"W_STORE_NAME">>) \o integers(<<"W_STORE_EMPLOYEES", "W_STORE_FLOOR_SPACE">>)
    \o varchars(<<"W_STORE_HOURS", "W_STORE_MANAGER">>) \o integers(<<"W_STORE_MARKET_ID">>)
    \o varchars(<<"W_STORE_GEOGRAPHY_CLASS", "W_STORE_MARKET_MANAGER">>)
    \o decimals(<<"W_STORE_TAX_PERCENTAGE">>)

pr_s_store_returns == ids(<<"S_SRET_STORE_ID">>) \o keys(<<"S_SRET_PURCHASE_ID",
    "S_SRET_LINENUMBER">>) \o ids(<<"S_SRET_ITEM_ID", "S_SRET_CUSTOMER_ID">>)
    \o dates(<<"S_SRET_RETURN_DATE">>) \o times(<<"S_SRET_RETURN_TIME">>)
    \o keys(<<"S_SRET_TICKET_NUMBER">>) \o integers(<<"S_SRET_RETURN_QUANTITY">>)
    \o decimals(<<"S_SRET_RETURN_AMT", "S_SRET_RETURN_TAX", "S_SRET_RETURN_FEE",
    "S_SRET_RETURN_SHIP_COST", "S_SRET_REFUNDED_CASH", "S_SRET_REVERSED_CHARGE",
    "S_SRET_MERCHANT_CREDIT">>) \o ids(<<"S_SRET_REASON_ID">>)

pr_s_warehouse == varchars(<<"W_WAREHOUSE_ID", "W_WAREHOUSE_NAME">>)
    \o integers(<<"W_WAREHOUSE_SQ_FT">>)

pr_s_web_order == keys(<<"S_WORD_ID">>) \o ids(<<"S_WORD_BILL_CUSTOMER_ID",
    "S_WORD_SHIP_CUSTOMER_ID">>) \o dates(<<"S_WORD_ORDER_DATE">>)
    \o integers(<<"S_WORD_ORDER_TIME">>) \o ids(<<"S_WORD_SHIP_MODE_ID", "S_WORD_WEB_SITE_ID">>)
    \o varchars(<<"S_WORD_COMMENT">>)

pr_s_web_order_lineitem == keys(<<"S_WLIN_ID", "S_WLIN_LINE_NUMBER">>) \o ids(<<"S_WLIN_ITEM_ID",
    "S_WLIN_PROMOTION_ID">>) \o integers(<<"S_WLIN_QUANTITY">>) \o Sharing("decimal", "S_WLIN_PRICING",
    <<"S_WLIN_SALES_PRICE">>) \o decimals(<<"S_WLIN_COUPON_AMT">>) \o ids(<<"S_WLIN_WAREHOUSE_ID">>) \o dates(<<"S_WLIN_SHIP_DATE">>)
    \o decimals(<<"S_WLIN_SHIP_COST">>) \o ids(<<"S_WLIN_WEB_PAGE_ID">>)

pr_s_web_page == varchars(<<"WP_PAGE_ID">>) \o dates(<<"WP_CREATION_DATE_SK",
    "WP_ACCESS_DATE_SK">>) \o booleans(<<"WP_AUTOGEN_FLAG">>) \o varchars(<<"WP_URL", "WP_TYPE">>)
    \o integers(<<"WP_CHAR_COUNT", "WP_LINK_COUNT", "WP_IMAGE_COUNT", "WP_MAX_AD_COUNT">>)

pr_s_web_return == ids(<<"S_WRET_SITE_ID">>) \o keys(<<"S_WRET_ORDER_ID">>)
    \o integers(<<"S_WRET_LINE_NUMBER">>) \o ids(<<"S_WRET_ITEM_ID", "S_WRET_RETURN_CUST_ID",
    "S_WRET_REFUND_CUST_ID">>) \o dates(<<"S_WRET_RETURN_DATE">>)
    \o times(<<"S_WRET_RETURN_TIME">>) \o Sharing("integer", "S_WRET_PRICING",
    <<"S_WRET_QUANTITY">>) \o Sharing("decimal", "S_WRET_PRICING", <<"S_WRET_AMT", "S_WRET_TAX",
    "S_WRET_FEE", "S_WRET_SHIP_COST", "S_WRET_REFUNDED_CASH", "S_WRET_REVERSED_CHARGE",
    "S_WRET_ACCOUNT_CREDIT">>) \o ids(<<"S_WRET_REASON_ID">>)

pr_s_web_site == varchars(<<"WEB_SITE_ID">>) \o dates(<<"WEB_OPEN_DATE", "WEB_CLOSE_DATE">>)
    \o varchars(<<"WEB_NAME", "WEB_CLASS", "WEB_MANAGER">>) \o decimals(<<"WEB_TAX_PERCENTAGE">>)

pr_s_zip == varchars(<<"S_ZIPG_ZIP">>) \o integers(<<"S_ZIPG_GMT">>)

(***************************************************************************)
(* What is declared                                                        *)
(***************************************************************************)
table_call_center == Table(integer(<<"CC_CALL_CENTER_SK">>) \o char(<<"CC_CALL_CENTER_ID">>)
    \o date(<<"CC_REC_START_DATE_ID", "CC_REC_END_DATE_ID">>) \o integer(<<"CC_CLOSED_DATE_ID",
    "CC_OPEN_DATE_ID">>) \o char(<<"CC_NAME", "CC_CLASS">>) \o integer(<<"CC_EMPLOYEES",
    "CC_SQ_FT">>) \o char(<<"CC_HOURS", "CC_MANAGER">>) \o integer(<<"CC_MARKET_ID">>)
    \o char(<<"CC_MARKET_CLASS", "CC_MARKET_DESC", "CC_MARKET_MANAGER">>)
    \o integer(<<"CC_DIVISION">>) \o char(<<"CC_DIVISION_NAME">>) \o integer(<<"CC_COMPANY">>)
    \o char(<<"CC_COMPANY_NAME", "CC_STREET_NUM", "CC_STREET_NAME1", "CC_STREET_TYPE",
    "CC_SUITE_NUM", "CC_CITY", "CC_COUNTY", "CC_STATE", "CC_ZIP", "CC_COUNTRY">>)
    \o decimal(<<"CC_GMT_OFFSET", "CC_TAX_PERCENTAGE">>), {0, 1})
table_catalog_page == Table(integer(<<"CP_CATALOG_PAGE_SK">>) \o char(<<"CP_CATALOG_PAGE_ID">>)
    \o integer(<<"CP_START_DATE_ID", "CP_END_DATE_ID">>) \o char(<<"CP_DEPARTMENT">>)
    \o integer(<<"CP_CATALOG_NUMBER", "CP_CATALOG_PAGE_NUMBER">>) \o char(<<"CP_DESCRIPTION",
    "CP_TYPE">>), {0, 1})
table_catalog_returns == Table(integer(<<"CR_RETURNED_DATE_SK", "CR_RETURNED_TIME_SK",
    "CR_ITEM_SK", "CR_REFUNDED_CUSTOMER_SK", "CR_REFUNDED_CDEMO_SK", "CR_REFUNDED_HDEMO_SK",
    "CR_REFUNDED_ADDR_SK", "CR_RETURNING_CUSTOMER_SK", "CR_RETURNING_CDEMO_SK",
    "CR_RETURNING_HDEMO_SK", "CR_RETURNING_ADDR_SK", "CR_CALL_CENTER_SK", "CR_CATALOG_PAGE_SK",
    "CR_SHIP_MODE_SK", "CR_WAREHOUSE_SK", "CR_REASON_SK", "CR_ORDER_NUMBER",
    "CR_PRICING_QUANTITY">>) \o decimal(<<"CR_PRICING_NET_PAID", "CR_PRICING_EXT_TAX",
    "CR_PRICING_NET_PAID_INC_TAX", "CR_PRICING_FEE", "CR_PRICING_EXT_SHIP_COST",
    "CR_PRICING_REFUNDED_CASH", "CR_PRICING_REVERSED_CHARGE", "CR_PRICING_STORE_CREDIT",
    "CR_PRICING_NET_LOSS">>), {2, 16})
table_catalog_sales == Table(integer(<<"CS_SOLD_DATE_SK", "CS_SOLD_TIME_SK", "CS_SHIP_DATE_SK",
    "CS_BILL_CUSTOMER_SK", "CS_BILL_CDEMO_SK", "CS_BILL_HDEMO_SK", "CS_BILL_ADDR_SK",
    "CS_SHIP_CUSTOMER_SK", "CS_SHIP_CDEMO_SK", "CS_SHIP_HDEMO_SK", "CS_SHIP_ADDR_SK",
    "CS_CALL_CENTER_SK", "CS_CATALOG_PAGE_SK", "CS_SHIP_MODE_SK", "CS_WAREHOUSE_SK",
    "CS_SOLD_ITEM_SK", "CS_PROMO_SK", "CS_ORDER_NUMBER", "CS_PRICING_QUANTITY">>)
    \o decimal(<<"CS_PRICING_WHOLESALE_COST", "CS_PRICING_LIST_PRICE", "CS_PRICING_SALES_PRICE",
    "CS_PRICING_EXT_DISCOUNT_AMOUNT", "CS_PRICING_EXT_SALES_PRICE",
    "CS_PRICING_EXT_WHOLESALE_COST", "CS_PRICING_EXT_LIST_PRICE", "CS_PRICING_EXT_TAX",
    "CS_PRICING_COUPON_AMT", "CS_PRICING_EXT_SHIP_COST", "CS_PRICING_NET_PAID",
    "CS_PRICING_NET_PAID_INC_TAX", "CS_PRICING_NET_PAID_INC_SHIP",
    "CS_PRICING_NET_PAID_INC_SHIP_TAX", "CS_PRICING_NET_PROFIT">>), {15, 17})
table_customer == Table(integer(<<"C_CUSTOMER_SK">>) \o char(<<"C_CUSTOMER_ID">>)
    \o integer(<<"C_CURRENT_CDEMO_SK", "C_CURRENT_HDEMO_SK", "C_CURRENT_ADDR_SK",
    "C_FIRST_SHIPTO_DATE_ID", "C_FIRST_SALES_DATE_ID">>) \o char(<<"C_SALUTATION", "C_FIRST_NAME",
    "C_LAST_NAME", "C_PREFERRED_CUST_FLAG">>) \o integer(<<"C_BIRTH_DAY", "C_BIRTH_MONTH",
    "C_BIRTH_YEAR">>) \o char(<<"C_BIRTH_COUNTRY", "C_LOGIN", "C_EMAIL_ADDRESS",
    "C_LAST_REVIEW_DATE">>), {0, 1})
table_customer_address == Table(integer(<<"CA_ADDRESS_SK">>) \o char(<<"CA_ADDRESS_ID",
    "CA_ADDRESS_STREET_NUM", "CA_ADDRESS_STREET_NAME1", "CA_ADDRESS_STREET_TYPE",
    "CA_ADDRESS_SUITE_NUM", "CA_ADDRESS_CITY", "CA_ADDRESS_COUNTY", "CA_ADDRESS_STATE",
    "CA_ADDRESS_ZIP", "CA_ADDRESS_COUNTRY">>) \o decimal(<<"CA_ADDRESS_GMT_OFFSET">>)
    \o char(<<"CA_LOCATION_TYPE">>), {0, 1})
table_customer_demographics == Table(integer(<<"CD_DEMO_SK">>) \o char(<<"CD_GENDER",
    "CD_MARITAL_STATUS", "CD_EDUCATION_STATUS">>) \o integer(<<"CD_PURCHASE_ESTIMATE">>)
    \o char(<<"CD_CREDIT_RATING">>) \o integer(<<"CD_DEP_COUNT", "CD_DEP_EMPLOYED_COUNT",
    "CD_DEP_COLLEGE_COUNT">>), {0})
table_date_dim == Table(integer(<<"D_DATE_SK">>) \o char(<<"D_DATE_ID">>) \o date(<<"D_DATE">>)
    \o integer(<<"D_MONTH_SEQ", "D_WEEK_SEQ", "D_QUARTER_SEQ", "D_YEAR", "D_DOW", "D_MOY",
    "D_DOM", "D_QOY", "D_FY_YEAR", "D_FY_QUARTER_SEQ", "D_FY_WEEK_SEQ">>) \o char(<<"D_DAY_NAME",
    "D_QUARTER_NAME", "D_HOLIDAY", "D_WEEKEND", "D_FOLLOWING_HOLIDAY">>)
    \o integer(<<"D_FIRST_DOM", "D_LAST_DOM", "D_SAME_DAY_LY", "D_SAME_DAY_LQ">>)
    \o char(<<"D_CURRENT_DAY", "D_CURRENT_WEEK", "D_CURRENT_MONTH", "D_CURRENT_QUARTER",
    "D_CURRENT_YEAR">>), {0, 1})
table_household_demographics == Table(integer(<<"HD_DEMO_SK", "HD_INCOME_BAND_ID">>)
    \o char(<<"HD_BUY_POTENTIAL">>) \o integer(<<"HD_DEP_COUNT", "HD_VEHICLE_COUNT">>), {0})
table_income_band == Table(integer(<<"IB_INCOME_BAND_ID", "IB_LOWER_BOUND", "IB_UPPER_BOUND">>),
    {0})
table_inventory == Table(integer(<<"INV_DATE_SK", "INV_ITEM_SK", "INV_WAREHOUSE_SK",
    "INV_QUANTITY_ON_HAND">>), {0, 1, 2})
table_item == Table(integer(<<"I_ITEM_SK">>) \o char(<<"I_ITEM_ID">>)
    \o date(<<"I_REC_START_DATE_ID", "I_REC_END_DATE_ID">>) \o char(<<"I_ITEM_DESC">>)
    \o decimal(<<"I_CURRENT_PRICE", "I_WHOLESALE_COST">>) \o integer(<<"I_BRAND_ID">>)
    \o char(<<"I_BRAND">>) \o integer(<<"I_CLASS_ID">>) \o char(<<"I_CLASS">>)
    \o integer(<<"I_CATEGORY_ID">>) \o char(<<"I_CATEGORY">>) \o integer(<<"I_MANUFACT_ID">>)
    \o char(<<"I_MANUFACT", "I_SIZE", "I_FORMULATION", "I_COLOR", "I_UNITS", "I_CONTAINER">>)
    \o integer(<<"I_MANAGER_ID">>) \o char(<<"I_PRODUCT_NAME">>), {0, 1})
table_promotion == Table(integer(<<"P_PROMO_SK">>) \o char(<<"P_PROMO_ID">>)
    \o integer(<<"P_START_DATE_ID", "P_END_DATE_ID", "P_ITEM_SK">>) \o decimal(<<"P_COST">>)
    \o integer(<<"P_RESPONSE_TARGET">>) \o char(<<"P_PROMO_NAME", "P_CHANNEL_DMAIL",
    "P_CHANNEL_EMAIL", "P_CHANNEL_CATALOG", "P_CHANNEL_TV", "P_CHANNEL_RADIO", "P_CHANNEL_PRESS",
    "P_CHANNEL_EVENT", "P_CHANNEL_DEMO", "P_CHANNEL_DETAILS", "P_PURPOSE", "P_DISCOUNT_ACTIVE">>),
    {0, 1})
table_reason == Table(integer(<<"R_REASON_SK">>) \o char(<<"R_REASON_ID",
    "R_REASON_DESCRIPTION">>), {0, 1})
table_ship_mode == Table(integer(<<"SM_SHIP_MODE_SK">>) \o char(<<"SM_SHIP_MODE_ID", "SM_TYPE",
    "SM_CODE", "SM_CARRIER", "SM_CONTRACT">>), {0, 1})
table_store == Table(integer(<<"W_STORE_SK">>) \o char(<<"W_STORE_ID">>)
    \o date(<<"W_STORE_REC_START_DATE_ID", "W_STORE_REC_END_DATE_ID">>)
    \o integer(<<"W_STORE_CLOSED_DATE_ID">>) \o char(<<"W_STORE_NAME">>)
    \o integer(<<"W_STORE_EMPLOYEES", "W_STORE_FLOOR_SPACE">>) \o char(<<"W_STORE_HOURS",
    "W_STORE_MANAGER">>) \o integer(<<"W_STORE_MARKET_ID">>) \o char(<<"W_STORE_GEOGRAPHY_CLASS",
    "W_STORE_MARKET_DESC", "W_STORE_MARKET_MANAGER">>) \o integer(<<"W_STORE_DIVISION_ID">>)
    \o char(<<"W_STORE_DIVISION_NAME">>) \o integer(<<"W_STORE_COMPANY_ID">>)
    \o char(<<"W_STORE_COMPANY_NAME", "W_STORE_ADDRESS_STREET_NUM",
    "W_STORE_ADDRESS_STREET_NAME1", "W_STORE_ADDRESS_STREET_TYPE", "W_STORE_ADDRESS_SUITE_NUM",
    "W_STORE_ADDRESS_CITY", "W_STORE_ADDRESS_COUNTY", "W_STORE_ADDRESS_STATE",
    "W_STORE_ADDRESS_ZIP", "W_STORE_ADDRESS_COUNTRY">>) \o decimal(<<"W_STORE_ADDRESS_GMT_OFFSET",
    "W_STORE_TAX_PERCENTAGE">>), {0, 1})
table_store_returns == Table(integer(<<"SR_RETURNED_DATE_SK", "SR_RETURNED_TIME_SK", "SR_ITEM_SK",
    "SR_CUSTOMER_SK", "SR_CDEMO_SK", "SR_HDEMO_SK", "SR_ADDR_SK", "SR_STORE_SK", "SR_REASON_SK",
    "SR_TICKET_NUMBER", "SR_PRICING_QUANTITY">>) \o decimal(<<"SR_PRICING_NET_PAID",
    "SR_PRICING_EXT_TAX", "SR_PRICING_NET_PAID_INC_TAX", "SR_PRICING_FEE",
    "SR_PRICING_EXT_SHIP_COST", "SR_PRICING_REFUNDED_CASH", "SR_PRICING_REVERSED_CHARGE",
    "SR_PRICING_STORE_CREDIT", "SR_PRICING_NET_LOSS">>), {2, 9})
table_store_sales == Table(integer(<<"SS_SOLD_DATE_SK", "SS_SOLD_TIME_SK", "SS_SOLD_ITEM_SK",
    "SS_SOLD_CUSTOMER_SK", "SS_SOLD_CDEMO_SK", "SS_SOLD_HDEMO_SK", "SS_SOLD_ADDR_SK",
    "SS_SOLD_STORE_SK", "SS_SOLD_PROMO_SK", "SS_TICKET_NUMBER", "SS_PRICING_QUANTITY">>)
    \o decimal(<<"SS_PRICING_WHOLESALE_COST", "SS_PRICING_LIST_PRICE", "SS_PRICING_SALES_PRICE",
    "SS_EXT_DISCOUNT_AMT", "SS_PRICING_EXT_SALES_PRICE", "SS_PRICING_EXT_WHOLESALE_COST",
    "SS_PRICING_EXT_LIST_PRICE", "SS_PRICING_EXT_TAX", "SS_PRICING_COUPON_AMT",
    "SS_PRICING_NET_PAID", "SS_PRICING_NET_PAID_INC_TAX", "SS_PRICING_NET_PROFIT">>), {2, 9})
table_time_dim == Table(integer(<<"T_TIME_SK">>) \o char(<<"T_TIME_ID">>) \o integer(<<"T_TIME",
    "T_HOUR", "T_MINUTE", "T_SECOND">>) \o char(<<"T_AM_PM", "T_SHIFT", "T_SUB_SHIFT",
    "T_MEAL_TIME">>), {0, 1})
table_warehouse == Table(integer(<<"W_WAREHOUSE_SK">>) \o char(<<"W_WAREHOUSE_ID",
    "W_WAREHOUSE_NAME">>) \o integer(<<"W_WAREHOUSE_SQ_FT">>) \o char(<<"W_ADDRESS_STREET_NUM",
    "W_ADDRESS_STREET_NAME1", "W_ADDRESS_STREET_TYPE", "W_ADDRESS_SUITE_NUM", "W_ADDRESS_CITY",
    "W_ADDRESS_COUNTY", "W_ADDRESS_STATE", "W_ADDRESS_ZIP", "W_ADDRESS_COUNTRY">>)
    \o decimal(<<"W_ADDRESS_GMT_OFFSET">>), {0, 1})
table_web_page == Table(integer(<<"WP_PAGE_SK">>) \o char(<<"WP_PAGE_ID">>)
    \o date(<<"WP_REC_START_DATE_ID", "WP_REC_END_DATE_ID">>) \o integer(<<"WP_CREATION_DATE_SK",
    "WP_ACCESS_DATE_SK">>) \o char(<<"WP_AUTOGEN_FLAG">>) \o integer(<<"WP_CUSTOMER_SK">>)
    \o char(<<"WP_URL", "WP_TYPE">>) \o integer(<<"WP_CHAR_COUNT", "WP_LINK_COUNT",
    "WP_IMAGE_COUNT", "WP_MAX_AD_COUNT">>), {0, 1})
table_web_returns == Table(integer(<<"WR_RETURNED_DATE_SK", "WR_RETURNED_TIME_SK", "WR_ITEM_SK",
    "WR_REFUNDED_CUSTOMER_SK", "WR_REFUNDED_CDEMO_SK", "WR_REFUNDED_HDEMO_SK",
    "WR_REFUNDED_ADDR_SK", "WR_RETURNING_CUSTOMER_SK", "WR_RETURNING_CDEMO_SK",
    "WR_RETURNING_HDEMO_SK", "WR_RETURNING_ADDR_SK", "WR_WEB_PAGE_SK", "WR_REASON_SK",
    "WR_ORDER_NUMBER", "WR_PRICING_QUANTITY">>) \o decimal(<<"WR_PRICING_NET_PAID",
    "WR_PRICING_EXT_TAX", "WR_PRICING_NET_PAID_INC_TAX", "WR_PRICING_FEE",
    "WR_PRICING_EXT_SHIP_COST", "WR_PRICING_REFUNDED_CASH", "WR_PRICING_REVERSED_CHARGE",
    "WR_PRICING_STORE_CREDIT", "WR_PRICING_NET_LOSS">>), {2, 13})
table_web_sales == Table(integer(<<"WS_SOLD_DATE_SK", "WS_SOLD_TIME_SK", "WS_SHIP_DATE_SK",
    "WS_ITEM_SK", "WS_BILL_CUSTOMER_SK", "WS_BILL_CDEMO_SK", "WS_BILL_HDEMO_SK",
    "WS_BILL_ADDR_SK", "WS_SHIP_CUSTOMER_SK", "WS_SHIP_CDEMO_SK", "WS_SHIP_HDEMO_SK",
    "WS_SHIP_ADDR_SK", "WS_WEB_PAGE_SK", "WS_WEB_SITE_SK", "WS_SHIP_MODE_SK", "WS_WAREHOUSE_SK",
    "WS_PROMO_SK", "WS_ORDER_NUMBER", "WS_PRICING_QUANTITY">>)
    \o decimal(<<"WS_PRICING_WHOLESALE_COST", "WS_PRICING_LIST_PRICE", "WS_PRICING_SALES_PRICE",
    "WS_PRICING_EXT_DISCOUNT_AMT", "WS_PRICING_EXT_SALES_PRICE", "WS_PRICING_EXT_WHOLESALE_COST",
    "WS_PRICING_EXT_LIST_PRICE", "WS_PRICING_EXT_TAX", "WS_PRICING_COUPON_AMT",
    "WS_PRICING_EXT_SHIP_COST", "WS_PRICING_NET_PAID", "WS_PRICING_NET_PAID_INC_TAX",
    "WS_PRICING_NET_PAID_INC_SHIP", "WS_PRICING_NET_PAID_INC_SHIP_TAX",
    "WS_PRICING_NET_PROFIT">>), {3, 17})
table_web_site == Table(integer(<<"WEB_SITE_SK">>) \o char(<<"WEB_SITE_ID">>)
    \o date(<<"WEB_REC_START_DATE_ID", "WEB_REC_END_DATE_ID">>) \o char(<<"WEB_NAME">>)
    \o integer(<<"WEB_OPEN_DATE", "WEB_CLOSE_DATE">>) \o char(<<"WEB_CLASS", "WEB_MANAGER">>)
    \o integer(<<"WEB_MARKET_ID">>) \o char(<<"WEB_MARKET_CLASS", "WEB_MARKET_DESC",
    "WEB_MARKET_MANAGER">>) \o integer(<<"WEB_COMPANY_ID">>) \o char(<<"WEB_COMPANY_NAME",
    "WEB_ADDRESS_STREET_NUM", "WEB_ADDRESS_STREET_NAME1", "WEB_ADDRESS_STREET_TYPE",
    "WEB_ADDRESS_SUITE_NUM", "WEB_ADDRESS_CITY", "WEB_ADDRESS_COUNTY", "WEB_ADDRESS_STATE",
    "WEB_ADDRESS_ZIP", "WEB_ADDRESS_COUNTRY">>) \o decimal(<<"WEB_ADDRESS_GMT_OFFSET",
    "WEB_TAX_PERCENTAGE">>), {0, 1})
table_dbgen_version == Table(char(<<"DV_VERSION">>) \o date(<<"DV_CREATE_DATE">>)
    \o time(<<"DV_CREATE_TIME">>) \o char(<<"DV_CMDLINE_ARGS">>), {})
table_s_customer_address == Table(char(<<"S_CADR_ID">>)
    \o integer(<<"S_CADR_ADDRESS_STREET_NUMBER">>) \o char(<<"S_CADR_ADDRESS_STREET_NAME1",
    "S_CADR_ADDRESS_STREET_NAME2", "S_CADR_ADDRESS_STREET_TYPE", "S_CADR_ADDRESS_SUITE_NUM",
    "S_CADR_ADDRESS_CITY", "S_CADR_ADDRESS_COUNTY", "S_CADR_ADDRESS_STATE", "S_CADR_ADDRESS_ZIP",
    "S_CADR_ADDRESS_COUNTRY">>), {0})
table_s_call_center == Table(char(<<"CC_CALL_CENTER_SK", "CC_OPEN_DATE_ID", "CC_CLOSED_DATE_ID",
    "CC_NAME", "CC_CLASS">>) \o integer(<<"CC_EMPLOYEES", "CC_SQ_FT">>) \o char(<<"CC_HOURS",
    "CC_MANAGER">>) \o decimal(<<"CC_TAX_PERCENTAGE">>), {0})
table_s_catalog_order == Table(integer(<<"S_CORD_ID">>) \o char(<<"S_CORD_BILL_CUSTOMER_ID",
    "S_CORD_SHIP_CUSTOMER_ID", "S_CORD_ORDER_DATE">>) \o integer(<<"S_CORD_ORDER_TIME">>)
    \o char(<<"S_CORD_SHIP_MODE_ID", "S_CORD_CALL_CENTER_ID", "S_CORD_COMMENT">>), {0})
table_s_catalog_order_lineitem == Table(integer(<<"S_CLIN_ORDER_ID", "S_CLIN_LINE_NUMBER">>)
    \o char(<<"S_CLIN_ITEM_ID", "S_CLIN_PROMOTION_ID">>) \o integer(<<"S_CLIN_QUANTITY">>)
    \o decimal(<<"S_CLIN_SALES_PRICE", "S_CLIN_COUPON_AMT">>) \o char(<<"S_CLIN_WAREHOUSE_ID",
    "S_CLIN_SHIP_DATE">>) \o integer(<<"S_CLIN_CATALOG_ID", "S_CLIN_CATALOG_PAGE_ID">>)
    \o decimal(<<"S_CLIN_SHIP_COST">>), {0, 1})
table_s_catalog_page == Table(integer(<<"S_CATALOG_PAGE_CATALOG_NUMBER",
    "S_CATALOG_PAGE_NUMBER">>) \o char(<<"S_CATALOG_PAGE_DEPARTMENT", "S_CP_ID",
    "S_CP_START_DATE", "S_CP_END_DATE", "S_CP_DESCRIPTION", "S_CP_TYPE">>), {0, 1})
table_s_catalog_returns == Table(char(<<"S_CRET_CALL_CENTER_ID">>) \o integer(<<"S_CRET_ORDER_ID",
    "S_CRET_LINE_NUMBER">>) \o char(<<"S_CRET_ITEM_ID", "S_CRET_RETURN_CUSTOMER_ID",
    "S_CRET_REFUND_CUSTOMER_ID", "S_CRET_DATE", "S_CRET_TIME">>) \o integer(<<"S_CRET_QUANTITY">>)
    \o decimal(<<"S_CRET_AMOUNT", "S_CRET_TAX", "S_CRET_FEE", "S_CRET_SHIP_COST",
    "S_CRET_REFUNDED_CASH", "S_CRET_REVERSED_CHARGE", "S_CRET_MERCHANT_CREDIT">>)
    \o char(<<"S_CRET_REASON_ID", "S_CRET_SHIPMODE_ID", "S_CRET_CATALOG_PAGE_ID",
    "S_CRET_WAREHOUSE_ID">>), {1, 2, 3})
table_s_customer == Table(char(<<"S_CUST_ID", "S_CUST_SALUTATION", "S_CUST_LAST_NAME",
    "S_CUST_FIRST_NAME", "S_CUST_PREFERRED_FLAG", "S_CUST_BIRTH_DATE", "S_CUST_BIRTH_COUNTRY",
    "S_CUST_LOGIN", "S_CUST_EMAIL", "S_CUST_LAST_LOGIN", "S_CUST_FIRST_SHIPTO_DATE",
    "S_CUST_FIRST_PURCHASE_DATE", "S_CUST_LAST_REVIEW", "S_CUST_PRIMARY_MACHINE",
    "S_CUST_SECONDARY_MACHINE">>) \o integer(<<"S_CUST_ADDRESS_STREET_NUM">>)
    \o char(<<"S_CUST_ADDRESS_SUITE_NUM", "S_CUST_ADDRESS_STREET_NAME1",
    "S_CUST_ADDRESS_STREET_NAME2", "S_CUST_ADDRESS_STREET_TYPE", "S_CUST_ADDRESS_CITY",
    "S_CUST_ADDRESS_ZIP", "S_CUST_ADDRESS_COUNTY", "S_CUST_ADDRESS_STATE",
    "S_CUST_ADDRESS_COUNTRY", "S_CUST_LOCATION_TYPE", "S_CUST_GENDER", "S_CUST_MARITAL_STATUS",
    "S_CUST_EDUCATION", "S_CUST_CREDIT_RATING">>) \o decimal(<<"S_CUST_PURCHASE_ESTIMATE">>)
    \o char(<<"S_CUST_BUY_POTENTIAL">>) \o integer(<<"S_CUST_DEPENDENT_CNT",
    "S_CUST_EMPLOYED_CNT", "S_CUST_COLLEGE_CNT", "S_CUST_VEHICLE_CNT">>)
    \o decimal(<<"S_CUST_INCOME">>), {0})
table_s_inventory == Table(char(<<"S_INVN_WAREHOUSE", "S_INVN_ITEM", "S_INVN_DATE">>)
    \o integer(<<"S_INVN_QUANTITY">>), {0, 1, 2})
table_s_item == Table(char(<<"S_ITEM_ID", "S_ITEM_DESC">>) \o decimal(<<"S_ITEM_LIST_PRICE",
    "S_ITEM_WHOLESALE_COST">>) \o char(<<"S_ITEM_SIZE", "S_ITEM_FORMULATION", "S_ITEM_FLAVOR",
    "S_ITEM_UNITS", "S_ITEM_CONTAINER">>) \o integer(<<"S_ITEM_MANAGER_ID">>), {0})
table_s_promotion == Table(char(<<"P_PROMO_ID", "P_PROMO_NAME", "P_START_DATE_ID",
    "P_END_DATE_ID">>) \o decimal(<<"P_COST">>) \o char(<<"P_RESPONSE_TARGET", "P_CHANNEL_DMAIL",
    "P_CHANNEL_EMAIL", "P_CHANNEL_CATALOG", "P_CHANNEL_TV", "P_CHANNEL_RADIO", "P_CHANNEL_PRESS",
    "P_CHANNEL_EVENT", "P_CHANNEL_DEMO", "P_CHANNEL_DETAILS", "P_PURPOSE", "P_DISCOUNT_ACTIVE">>)
    \o decimal(<<"P_DISCOUNT_PCT">>), {0})
table_s_purchase == Table(integer(<<"S_PURCHASE_ID">>) \o char(<<"S_PURCHASE_STORE_ID",
    "S_PURCHASE_CUSTOMER_ID", "S_PURCHASE_DATE">>) \o integer(<<"S_PURCHASE_TIME",
    "S_PURCHASE_REGISTER", "S_PURCHASE_CLERK">>) \o char(<<"S_PURCHASE_COMMENT">>), {0})
table_s_purchase_lineitem == Table(integer(<<"S_PLINE_PURCHASE_ID", "S_PLINE_NUMBER">>)
    \o char(<<"S_PLINE_ITEM_ID", "S_PLINE_PROMOTION_ID">>) \o integer(<<"S_PLINE_QUANTITY">>)
    \o decimal(<<"S_PLINE_SALE_PRICE", "S_PLINE_COUPON_AMT">>) \o char(<<"S_PLINE_COMMENT">>),
    {0, 1})
table_s_store == Table(char(<<"W_STORE_ID", "W_STORE_CLOSED_DATE_ID", "W_STORE_NAME">>)
    \o integer(<<"W_STORE_EMPLOYEES", "W_STORE_FLOOR_SPACE">>) \o char(<<"W_STORE_HOURS",
    "W_STORE_MANAGER">>) \o integer(<<"W_STORE_MARKET_ID">>) \o char(<<"W_STORE_GEOGRAPHY_CLASS",
    "W_STORE_MARKET_MANAGER">>) \o decimal(<<"W_STORE_TAX_PERCENTAGE">>), {0})
table_s_store_returns == Table(char(<<"S_SRET_STORE_ID", "S_SRET_PURCHASE_ID">>)
    \o integer(<<"S_SRET_LINENUMBER">>) \o char(<<"S_SRET_ITEM_ID", "S_SRET_CUSTOMER_ID",
    "S_SRET_RETURN_DATE", "S_SRET_RETURN_TIME", "S_SRET_TICKET_NUMBER">>)
    \o integer(<<"S_SRET_RETURN_QUANTITY">>) \o decimal(<<"S_SRET_RETURN_AMT",
    "S_SRET_RETURN_TAX", "S_SRET_RETURN_FEE", "S_SRET_RETURN_SHIP_COST", "S_SRET_REFUNDED_CASH",
    "S_SRET_REVERSED_CHARGE", "S_SRET_MERCHANT_CREDIT">>) \o char(<<"S_SRET_REASON_ID">>),
    {1, 2, 3})
table_s_warehouse == Table(char(<<"W_WAREHOUSE_ID", "W_WAREHOUSE_NAME">>)
    \o integer(<<"W_WAREHOUSE_SQ_FT">>), {0})
table_s_web_order == Table(integer(<<"S_WORD_ID">>) \o char(<<"S_WORD_BILL_CUSTOMER_ID",
    "S_WORD_SHIP_CUSTOMER_ID", "S_WORD_ORDER_DATE">>) \o integer(<<"S_WORD_ORDER_TIME">>)
    \o char(<<"S_WORD_SHIP_MODE_ID", "S_WORD_WEB_SITE_ID", "S_WORD_COMMENT">>), {0})
table_s_web_order_lineitem == Table(integer(<<"S_WLIN_ID", "S_WLIN_LINE_NUMBER">>)
    \o char(<<"S_WLIN_ITEM_ID", "S_WLIN_PROMOTION_ID">>) \o integer(<<"S_WLIN_QUANTITY">>)
    \o decimal(<<"S_WLIN_SALES_PRICE", "S_WLIN_COUPON_AMT">>) \o char(<<"S_WLIN_WAREHOUSE_ID",
    "S_WLIN_SHIP_DATE">>) \o decimal(<<"S_WLIN_SHIP_COST">>) \o char(<<"S_WLIN_WEB_PAGE_ID">>),
    {0, 1})
table_s_web_page == Table(char(<<"WP_PAGE_ID", "WP_CREATION_DATE_SK", "WP_ACCESS_DATE_SK",
    "WP_AUTOGEN_FLAG", "WP_URL", "WP_TYPE">>) \o integer(<<"WP_CHAR_COUNT", "WP_LINK_COUNT",
    "WP_IMAGE_COUNT", "WP_MAX_AD_COUNT">>), {0})
table_s_web_returns == Table(char(<<"S_WRET_SITE_ID">>) \o integer(<<"S_WRET_ORDER_ID",
    "S_WRET_LINE_NUMBER">>) \o char(<<"S_WRET_ITEM_ID", "S_WRET_RETURN_CUST_ID",
    "S_WRET_REFUND_CUST_ID", "S_WRET_RETURN_DATE", "S_WRET_RETURN_TIME">>)
    \o integer(<<"S_WRET_QUANTITY">>) \o decimal(<<"S_WRET_AMT", "S_WRET_TAX", "S_WRET_FEE",
    "S_WRET_SHIP_COST", "S_WRET_REFUNDED_CASH", "S_WRET_REVERSED_CHARGE",
    "S_WRET_ACCOUNT_CREDIT">>) \o char(<<"S_WRET_REASON_ID">>), {1, 2, 3})
table_s_web_site == Table(char(<<"WEB_SITE_ID", "WEB_OPEN_DATE", "WEB_CLOSE_DATE", "WEB_NAME",
    "WEB_CLASS", "WEB_MANAGER">>) \o decimal(<<"WEB_TAX_PERCENTAGE">>), {0})
table_s_zip_to_gmt == Table(char(<<"S_ZIPG_ZIP">>) \o integer(<<"S_ZIPG_GMT">>), {0, 1})

\* By table: its columns, the stream that its builder draws its nulls from,
\* its printer and its declaration.
Layout(columns, nulls, fields, table) ==
    [columns |-> columns, nulls |-> nulls, fields |-> fields, table |-> table]
tableLayouts == [
    CALL_CENTER |-> Layout(CALL_CENTER_Columns, "CC_NULLS", pr_w_call_center, table_call_center),
    CATALOG_PAGE |->
        Layout(CATALOG_PAGE_Columns, "CP_NULLS", pr_w_catalog_page, table_catalog_page),
    CATALOG_RETURNS |->
        Layout(CATALOG_RETURNS_Columns, "CR_NULLS", pr_w_catalog_returns, table_catalog_returns),
    CATALOG_SALES |->
        Layout(CATALOG_SALES_Columns, "CS_NULLS", pr_w_catalog_sales, table_catalog_sales),
    CUSTOMER |-> Layout(CUSTOMER_Columns, "C_NULLS", pr_w_customer, table_customer),
    CUSTOMER_ADDRESS |->
        Layout(CUSTOMER_ADDRESS_Columns, "CA_NULLS", pr_w_customer_address, table_customer_address),
    CUSTOMER_DEMOGRAPHICS |->
        Layout(CUSTOMER_DEMOGRAPHICS_Columns, "CD_NULLS", pr_w_customer_demographics, table_customer_demographics),
    DATE |-> Layout(DATE_Columns, "D_NULLS", pr_w_date, table_date_dim),
    HOUSEHOLD_DEMOGRAPHICS |->
        Layout(HOUSEHOLD_DEMOGRAPHICS_Columns, "HD_NULLS", pr_w_household_demographics, table_household_demographics),
    INCOME_BAND |-> Layout(INCOME_BAND_Columns, "IB_NULLS", pr_w_income_band, table_income_band),
    INVENTORY |-> Layout(INVENTORY_Columns, "INV_NULLS", pr_w_inventory, table_inventory),
    ITEM |-> Layout(ITEM_Columns, "I_NULLS", pr_w_item, table_item),
    PROMOTION |-> Layout(PROMOTION_Columns, "P_NULLS", pr_w_promotion, table_promotion),
    REASON |-> Layout(REASON_Columns, "R_NULLS", pr_w_reason, table_reason),
    SHIP_MODE |-> Layout(SHIP_MODE_Columns, "SM_NULLS", pr_w_ship_mode, table_ship_mode),
    STORE |-> Layout(STORE_Columns, "W_STORE_NULLS", pr_w_store, table_store),
    STORE_RETURNS |->
        Layout(STORE_RETURNS_Columns, "SR_NULLS", pr_w_store_returns, table_store_returns),
    STORE_SALES |-> Layout(STORE_SALES_Columns, "SS_NULLS", pr_w_store_sales, table_store_sales),
    TIME |-> Layout(TIME_Columns, "T_NULLS", pr_w_time, table_time_dim),
    WAREHOUSE |-> Layout(WAREHOUSE_Columns, "W_NULLS", pr_w_warehouse, table_warehouse),
    WEB_PAGE |-> Layout(WEB_PAGE_Columns, "WP_NULLS", pr_w_web_page, table_web_page),
    WEB_RETURNS |-> Layout(WEB_RETURNS_Columns, "WR_NULLS", pr_w_web_returns, table_web_returns),
    WEB_SALES |-> Layout(WEB_SALES_Columns, "WS_NULLS", pr_w_web_sales, table_web_sales),
    WEB_SITE |-> Layout(WEB_SITE_Columns, "WEB_NULLS", pr_w_web_site, table_web_site),
    DBGEN_VERSION |-> Layout(DBGEN_VERSION_Columns, "none", pr_dbgen_version, table_dbgen_version),
    S_CUSTOMER_ADDRESS |->
        Layout(S_CUSTOMER_ADDRESS_Columns, "none", pr_s_customer_address, table_s_customer_address),
    S_CALL_CENTER |-> Layout(S_CALL_CENTER_Columns, "none", pr_s_call_center, table_s_call_center),
    S_CATALOG_ORDER |->
        Layout(S_CATALOG_ORDER_Columns, "none", pr_s_catalog_order, table_s_catalog_order),
    S_CATALOG_ORDER_LINEITEM |->
        Layout(S_CATALOG_ORDER_LINEITEM_Columns, "none", pr_s_catalog_order_lineitem, table_s_catalog_order_lineitem),
    S_CATALOG_PAGE |->
        Layout(S_CATALOG_PAGE_Columns, "none", pr_s_catalog_page, table_s_catalog_page),
    S_CATALOG_RETURNS |->
        Layout(S_CATALOG_RETURNS_Columns, "none", pr_s_catalog_returns, table_s_catalog_returns),
    S_CUSTOMER |-> Layout(S_CUSTOMER_Columns, "none", pr_s_customer, table_s_customer),
    S_INVENTORY |-> Layout(S_INVENTORY_Columns, "none", pr_s_inventory, table_s_inventory),
    S_ITEM |-> Layout(S_ITEM_Columns, "none", pr_s_item, table_s_item),
    S_PROMOTION |-> Layout(S_PROMOTION_Columns, "none", pr_s_promotion, table_s_promotion),
    S_PURCHASE |-> Layout(S_PURCHASE_Columns, "none", pr_s_purchase, table_s_purchase),
    S_PURCHASE_LINEITEM |->
        Layout(S_PURCHASE_LINEITEM_Columns, "none", pr_s_pline, table_s_purchase_lineitem),
    S_STORE |-> Layout(S_STORE_Columns, "none", pr_s_store, table_s_store),
    S_STORE_RETURNS |->
        Layout(S_STORE_RETURNS_Columns, "none", pr_s_store_returns, table_s_store_returns),
    S_WAREHOUSE |-> Layout(S_WAREHOUSE_Columns, "none", pr_s_warehouse, table_s_warehouse),
    S_WEB_ORDER |-> Layout(S_WEB_ORDER_Columns, "none", pr_s_web_order, table_s_web_order),
    S_WEB_ORDER_LINEITEM |->
        Layout(S_WEB_ORDER_LINEITEM_Columns, "none", pr_s_web_order_lineitem, table_s_web_order_lineitem),
    S_WEB_PAGE |-> Layout(S_WEB_PAGE_Columns, "none", pr_s_web_page, table_s_web_page),
    S_WEB_RETURNS |-> Layout(S_WEB_RETURNS_Columns, "none", pr_s_web_return, table_s_web_returns),
    S_WEB_SITE |-> Layout(S_WEB_SITE_Columns, "none", pr_s_web_site, table_s_web_site),
    S_ZIPG |-> Layout(S_ZIPG_Columns, "none", pr_s_zip, table_s_zip_to_gmt)]

(***************************************************************************)
(* A builder and a printer                                                 *)
(***************************************************************************)
CONSTANT Layouts    \* tableLayouts

VARIABLES
    pStage,      \* by table of a job: its row is "new", "built" or "printed"
    kNullBitMap, \* by table of a job, the bits of its null columns
    pLine        \* the line printed last: its table and its blank fields
printVars == <<pStage, kNullBitMap, pLine>>

printed_tdefs == w_tdefs @@ s_tdefs
getTableFromColumn(column) ==
    CHOOSE t \in DOMAIN Layouts : \E i \in DOMAIN Layouts[t].columns : Layouts[t].columns[i] = column

\* The bitmap is a number of 1 to MAXINT: one bit, all of them, or none where
\* the threshold leaves the row alone, stand for all the others.
MAXINT_Bits == 0..30
nullSet_NoMask(stream) ==
    LET t == printed_tdefs[getTableFromColumn(stream)]
    IN  {{}} \cup (IF t.nullPct = 0 THEN {} ELSE {{b} : b \in MAXINT_Bits} \cup {MAXINT_Bits})
nullSet(stream) ==
    LET t == printed_tdefs[getTableFromColumn(stream)]
    IN  {{}} \cup (IF t.nullPct = 0 THEN {}
                   ELSE {bits \ t.notNull : bits \in {{b} : b \in MAXINT_Bits} \cup {MAXINT_Bits}})

\* print_start leaves the bitmap and the first column of a table for nullCheck.
nullCheck(table, column) ==
    \E b \in kNullBitMap[table] :
        b < Len(Layouts[table].columns) /\ Layouts[table].columns[b + 1] = column

noLine == [table |-> "none", blank |-> {}]
PrintIdle == pStage = <<>> /\ kNullBitMap = <<>> /\ pLine = noLine
\* A job: a row of a table, and of its child.
PrintInit ==
    /\ \E t \in DOMAIN Layouts :
           LET tables == {t, printed_tdefs[t].child} \ {"none"}
           IN  /\ pStage = [u \in tables |-> "new"]
               /\ kNullBitMap = [u \in tables |-> {}]
    /\ pLine = noLine

\* The mk_* of a table, a child's in its parent's; those of the update set call
\* no nullSet.
BuildRow(t) ==
    /\ pStage[t] = "new"
    /\ \A u \in DOMAIN pStage : printed_tdefs[u].child = t => pStage[u] = "built"
    /\ IF Layouts[t].nulls = "none" THEN UNCHANGED kNullBitMap
       ELSE \E bits \in nullSet(Layouts[t].nulls) : kNullBitMap' = [kNullBitMap EXCEPT ![t] = bits]
    /\ pStage' = [pStage EXCEPT ![t] = "built"]
    /\ UNCHANGED pLine

\* Its pr_*: print_start, the fields, print_end. A sale is printed after its
\* return, if it has one.
PrintRow(t) ==
    /\ pStage[t] = "built"
    /\ \A u \in DOMAIN pStage : printed_tdefs[t].child = u => pStage[u] # "built"
    /\ pLine' = [table |-> t,
                 blank |-> {i \in DOMAIN Layouts[t].fields : nullCheck(t, Layouts[t].fields[i].column)}]
    /\ pStage' = [pStage EXCEPT ![t] = "printed"]
    /\ UNCHANGED kNullBitMap

(***************************************************************************)
(* Properties                                                              *)
(***************************************************************************)
\* The fields that a column of a type can be loaded from.
Loads == [integer |-> {"key", "integer"}, decimal |-> {"decimal", "integer"},
          date |-> {"date", "varchar"}, time |-> {"varchar", "time"},
          char |-> {"key", "id", "integer", "varchar", "decimal", "date", "time", "boolean"}]

\* The fields that are out of place, with the column whose value they hold: a
\* return of the update set has its warehouse and its catalog page in each
\* other's place, and a store sale repeats its coupon where its discount is
\* declared (s_catalog_returns.c:150-151 against tpcds_source.sql:391-392,
\* w_store_sales.c:196).
Misplaced == <<"S_CATALOG_RETURNS", 19>> :> 20 @@ <<"S_CATALOG_RETURNS", 20>> :> 19
             @@ <<"STORE_SALES", 15>> :> 20
ColumnOf(table, i) == IF <<table, i>> \in DOMAIN Misplaced THEN Misplaced[<<table, i>>] ELSE i

\* A line fills its table by position: it has a field for every declared column
\* but the last one of s_promotion, which pr_s_promotion does not print; the
\* field is of a kind that the column can be loaded from and holds the value that
\* the column is declared for, or if it is Misplaced another column; and the bits
\* that the builder draws, with the mask that tdefs.c declares apart from the tables,
\* leave no NOT NULL column blank, though a return is built and printed between
\* a sale and its line (nulls.c nullSet, print.c nullCheck, every pr_*).
RowsFillTheTables ==
    pLine.table # "none" =>
        LET fields == Layouts[pLine.table].fields
            table == Layouts[pLine.table].table
        IN  /\ Len(table.columns) = Len(fields) + (IF pLine.table = "S_PROMOTION" THEN 1 ELSE 0)
            /\ \A i \in DOMAIN fields :
                   /\ fields[i].kind \in Loads[table.columns[i].type]
                   /\ fields[i].value = table.columns[ColumnOf(pLine.table, i)].value
            /\ \A i \in pLine.blank : i - 1 \notin table.notNull
=============================================================================
