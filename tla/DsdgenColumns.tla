---------------------------- MODULE DsdgenColumns ---------------------------
(*****************************************************************************)
(* The columns of the tables of dsdgen, in the order of their numbers. A     *)
(* number names both the column and its random number stream; a column is a  *)
(* bit of the null bitmap of its table, counted from the first.              *)
(*****************************************************************************)

CALL_CENTER_Columns == <<
    "CC_CALL_CENTER_SK", "CC_CALL_CENTER_ID", "CC_REC_START_DATE_ID", "CC_REC_END_DATE_ID",
    "CC_CLOSED_DATE_ID", "CC_OPEN_DATE_ID", "CC_NAME", "CC_CLASS", "CC_EMPLOYEES", "CC_SQ_FT",
    "CC_HOURS", "CC_MANAGER", "CC_MARKET_ID", "CC_MARKET_CLASS", "CC_MARKET_DESC",
    "CC_MARKET_MANAGER", "CC_DIVISION", "CC_DIVISION_NAME", "CC_COMPANY", "CC_COMPANY_NAME",
    "CC_STREET_NUMBER", "CC_STREET_NAME", "CC_STREET_TYPE", "CC_SUITE_NUMBER", "CC_CITY",
    "CC_COUNTY", "CC_STATE", "CC_ZIP", "CC_COUNTRY", "CC_GMT_OFFSET", "CC_ADDRESS",
    "CC_TAX_PERCENTAGE", "CC_SCD", "CC_NULLS">>

CATALOG_PAGE_Columns == <<
    "CP_CATALOG_PAGE_SK", "CP_CATALOG_PAGE_ID", "CP_START_DATE_ID", "CP_END_DATE_ID",
    "CP_PROMO_ID", "CP_DEPARTMENT", "CP_CATALOG_NUMBER", "CP_CATALOG_PAGE_NUMBER",
    "CP_DESCRIPTION", "CP_TYPE", "CP_NULLS">>

CATALOG_RETURNS_Columns == <<
    "CR_RETURNED_DATE_SK", "CR_RETURNED_TIME_SK", "CR_ITEM_SK", "CR_REFUNDED_CUSTOMER_SK",
    "CR_REFUNDED_CDEMO_SK", "CR_REFUNDED_HDEMO_SK", "CR_REFUNDED_ADDR_SK",
    "CR_RETURNING_CUSTOMER_SK", "CR_RETURNING_CDEMO_SK", "CR_RETURNING_HDEMO_SK",
    "CR_RETURNING_ADDR_SK", "CR_CALL_CENTER_SK", "CR_CATALOG_PAGE_SK", "CR_SHIP_MODE_SK",
    "CR_WAREHOUSE_SK", "CR_REASON_SK", "CR_ORDER_NUMBER", "CR_PRICING_QUANTITY",
    "CR_PRICING_NET_PAID", "CR_PRICING_EXT_TAX", "CR_PRICING_NET_PAID_INC_TAX",
    "CR_PRICING_FEE", "CR_PRICING_EXT_SHIP_COST", "CR_PRICING_REFUNDED_CASH",
    "CR_PRICING_REVERSED_CHARGE", "CR_PRICING_STORE_CREDIT", "CR_PRICING_NET_LOSS", "CR_NULLS",
    "CR_PRICING">>

CATALOG_SALES_Columns == <<
    "CS_SOLD_DATE_SK", "CS_SOLD_TIME_SK", "CS_SHIP_DATE_SK", "CS_BILL_CUSTOMER_SK",
    "CS_BILL_CDEMO_SK", "CS_BILL_HDEMO_SK", "CS_BILL_ADDR_SK", "CS_SHIP_CUSTOMER_SK",
    "CS_SHIP_CDEMO_SK", "CS_SHIP_HDEMO_SK", "CS_SHIP_ADDR_SK", "CS_CALL_CENTER_SK",
    "CS_CATALOG_PAGE_SK", "CS_SHIP_MODE_SK", "CS_WAREHOUSE_SK", "CS_SOLD_ITEM_SK",
    "CS_PROMO_SK", "CS_ORDER_NUMBER", "CS_PRICING_QUANTITY", "CS_PRICING_WHOLESALE_COST",
    "CS_PRICING_LIST_PRICE", "CS_PRICING_SALES_PRICE", "CS_PRICING_COUPON_AMT",
    "CS_PRICING_EXT_SALES_PRICE", "CS_PRICING_EXT_DISCOUNT_AMOUNT",
    "CS_PRICING_EXT_WHOLESALE_COST", "CS_PRICING_EXT_LIST_PRICE", "CS_PRICING_EXT_TAX",
    "CS_PRICING_EXT_SHIP_COST", "CS_PRICING_NET_PAID", "CS_PRICING_NET_PAID_INC_TAX",
    "CS_PRICING_NET_PAID_INC_SHIP", "CS_PRICING_NET_PAID_INC_SHIP_TAX", "CS_PRICING_NET_PROFIT",
    "CS_PRICING", "CS_PERMUTE", "CS_NULLS", "CR_IS_RETURNED", "CS_PERMUTATION">>

CUSTOMER_Columns == <<
    "C_CUSTOMER_SK", "C_CUSTOMER_ID", "C_CURRENT_CDEMO_SK", "C_CURRENT_HDEMO_SK",
    "C_CURRENT_ADDR_SK", "C_FIRST_SHIPTO_DATE_ID", "C_FIRST_SALES_DATE_ID", "C_SALUTATION",
    "C_FIRST_NAME", "C_LAST_NAME", "C_PREFERRED_CUST_FLAG", "C_BIRTH_DAY", "C_BIRTH_MONTH",
    "C_BIRTH_YEAR", "C_BIRTH_COUNTRY", "C_LOGIN", "C_EMAIL_ADDRESS", "C_LAST_REVIEW_DATE",
    "C_NULLS">>

CUSTOMER_ADDRESS_Columns == <<
    "CA_ADDRESS_SK", "CA_ADDRESS_ID", "CA_ADDRESS_STREET_NUM", "CA_ADDRESS_STREET_NAME1",
    "CA_ADDRESS_STREET_TYPE", "CA_ADDRESS_SUITE_NUM", "CA_ADDRESS_CITY", "CA_ADDRESS_COUNTY",
    "CA_ADDRESS_STATE", "CA_ADDRESS_ZIP", "CA_ADDRESS_COUNTRY", "CA_ADDRESS_GMT_OFFSET",
    "CA_LOCATION_TYPE", "CA_NULLS", "CA_ADDRESS", "CA_ADDRESS_STREET_NAME2">>

CUSTOMER_DEMOGRAPHICS_Columns == <<
    "CD_DEMO_SK", "CD_GENDER", "CD_MARITAL_STATUS", "CD_EDUCATION_STATUS",
    "CD_PURCHASE_ESTIMATE", "CD_CREDIT_RATING", "CD_DEP_COUNT", "CD_DEP_EMPLOYED_COUNT",
    "CD_DEP_COLLEGE_COUNT", "CD_NULLS">>

DATE_Columns == <<
    "D_DATE_SK", "D_DATE_ID", "D_DATE", "D_MONTH_SEQ", "D_WEEK_SEQ", "D_QUARTER_SEQ", "D_YEAR",
    "D_DOW", "D_MOY", "D_DOM", "D_QOY", "D_FY_YEAR", "D_FY_QUARTER_SEQ", "D_FY_WEEK_SEQ",
    "D_DAY_NAME", "D_QUARTER_NAME", "D_HOLIDAY", "D_WEEKEND", "D_FOLLOWING_HOLIDAY",
    "D_FIRST_DOM", "D_LAST_DOM", "D_SAME_DAY_LY", "D_SAME_DAY_LQ", "D_CURRENT_DAY",
    "D_CURRENT_WEEK", "D_CURRENT_MONTH", "D_CURRENT_QUARTER", "D_CURRENT_YEAR", "D_NULLS">>

HOUSEHOLD_DEMOGRAPHICS_Columns == <<
    "HD_DEMO_SK", "HD_INCOME_BAND_ID", "HD_BUY_POTENTIAL", "HD_DEP_COUNT", "HD_VEHICLE_COUNT",
    "HD_NULLS">>

INCOME_BAND_Columns == <<
    "IB_INCOME_BAND_ID", "IB_LOWER_BOUND", "IB_UPPER_BOUND", "IB_NULLS">>

INVENTORY_Columns == <<
    "INV_DATE_SK", "INV_ITEM_SK", "INV_WAREHOUSE_SK", "INV_QUANTITY_ON_HAND", "INV_NULLS">>

ITEM_Columns == <<
    "I_ITEM_SK", "I_ITEM_ID", "I_REC_START_DATE_ID", "I_REC_END_DATE_ID", "I_ITEM_DESC",
    "I_CURRENT_PRICE", "I_WHOLESALE_COST", "I_BRAND_ID", "I_BRAND", "I_CLASS_ID", "I_CLASS",
    "I_CATEGORY_ID", "I_CATEGORY", "I_MANUFACT_ID", "I_MANUFACT", "I_SIZE", "I_FORMULATION",
    "I_COLOR", "I_UNITS", "I_CONTAINER", "I_MANAGER_ID", "I_PRODUCT_NAME", "I_NULLS", "I_SCD",
    "I_PROMO_SK">>

PROMOTION_Columns == <<
    "P_PROMO_SK", "P_PROMO_ID", "P_START_DATE_ID", "P_END_DATE_ID", "P_ITEM_SK", "P_COST",
    "P_RESPONSE_TARGET", "P_PROMO_NAME", "P_CHANNEL_DMAIL", "P_CHANNEL_EMAIL",
    "P_CHANNEL_CATALOG", "P_CHANNEL_TV", "P_CHANNEL_RADIO", "P_CHANNEL_PRESS",
    "P_CHANNEL_EVENT", "P_CHANNEL_DEMO", "P_CHANNEL_DETAILS", "P_PURPOSE", "P_DISCOUNT_ACTIVE",
    "P_NULLS">>

REASON_Columns == <<
    "R_REASON_SK", "R_REASON_ID", "R_REASON_DESCRIPTION", "R_NULLS">>

SHIP_MODE_Columns == <<
    "SM_SHIP_MODE_SK", "SM_SHIP_MODE_ID", "SM_TYPE", "SM_CODE", "SM_CONTRACT", "SM_CARRIER",
    "SM_NULLS">>

STORE_Columns == <<
    "W_STORE_SK", "W_STORE_ID", "W_STORE_REC_START_DATE_ID", "W_STORE_REC_END_DATE_ID",
    "W_STORE_CLOSED_DATE_ID", "W_STORE_NAME", "W_STORE_EMPLOYEES", "W_STORE_FLOOR_SPACE",
    "W_STORE_HOURS", "W_STORE_MANAGER", "W_STORE_MARKET_ID", "W_STORE_TAX_PERCENTAGE",
    "W_STORE_GEOGRAPHY_CLASS", "W_STORE_MARKET_DESC", "W_STORE_MARKET_MANAGER",
    "W_STORE_DIVISION_ID", "W_STORE_DIVISION_NAME", "W_STORE_COMPANY_ID",
    "W_STORE_COMPANY_NAME", "W_STORE_ADDRESS_STREET_NUM", "W_STORE_ADDRESS_STREET_NAME1",
    "W_STORE_ADDRESS_STREET_TYPE", "W_STORE_ADDRESS_SUITE_NUM", "W_STORE_ADDRESS_CITY",
    "W_STORE_ADDRESS_COUNTY", "W_STORE_ADDRESS_STATE", "W_STORE_ADDRESS_ZIP",
    "W_STORE_ADDRESS_COUNTRY", "W_STORE_ADDRESS_GMT_OFFSET", "W_STORE_NULLS", "W_STORE_TYPE",
    "W_STORE_SCD", "W_STORE_ADDRESS">>

STORE_RETURNS_Columns == <<
    "SR_RETURNED_DATE_SK", "SR_RETURNED_TIME_SK", "SR_ITEM_SK", "SR_CUSTOMER_SK", "SR_CDEMO_SK",
    "SR_HDEMO_SK", "SR_ADDR_SK", "SR_STORE_SK", "SR_REASON_SK", "SR_TICKET_NUMBER",
    "SR_PRICING_QUANTITY", "SR_PRICING_NET_PAID", "SR_PRICING_EXT_TAX",
    "SR_PRICING_NET_PAID_INC_TAX", "SR_PRICING_FEE", "SR_PRICING_EXT_SHIP_COST",
    "SR_PRICING_REFUNDED_CASH", "SR_PRICING_REVERSED_CHARGE", "SR_PRICING_STORE_CREDIT",
    "SR_PRICING_NET_LOSS", "SR_PRICING", "SR_NULLS">>

STORE_SALES_Columns == <<
    "SS_SOLD_DATE_SK", "SS_SOLD_TIME_SK", "SS_SOLD_ITEM_SK", "SS_SOLD_CUSTOMER_SK",
    "SS_SOLD_CDEMO_SK", "SS_SOLD_HDEMO_SK", "SS_SOLD_ADDR_SK", "SS_SOLD_STORE_SK",
    "SS_SOLD_PROMO_SK", "SS_TICKET_NUMBER", "SS_PRICING_QUANTITY", "SS_PRICING_WHOLESALE_COST",
    "SS_PRICING_LIST_PRICE", "SS_PRICING_SALES_PRICE", "SS_PRICING_COUPON_AMT",
    "SS_PRICING_EXT_SALES_PRICE", "SS_PRICING_EXT_WHOLESALE_COST", "SS_PRICING_EXT_LIST_PRICE",
    "SS_PRICING_EXT_TAX", "SS_PRICING_NET_PAID", "SS_PRICING_NET_PAID_INC_TAX",
    "SS_PRICING_NET_PROFIT", "SR_IS_RETURNED", "SS_PRICING", "SS_NULLS", "SS_PERMUTATION">>

TIME_Columns == <<
    "T_TIME_SK", "T_TIME_ID", "T_TIME", "T_HOUR", "T_MINUTE", "T_SECOND", "T_AM_PM", "T_SHIFT",
    "T_SUB_SHIFT", "T_MEAL_TIME", "T_NULLS">>

WAREHOUSE_Columns == <<
    "W_WAREHOUSE_SK", "W_WAREHOUSE_ID", "W_WAREHOUSE_NAME", "W_WAREHOUSE_SQ_FT",
    "W_ADDRESS_STREET_NUM", "W_ADDRESS_STREET_NAME1", "W_ADDRESS_STREET_TYPE",
    "W_ADDRESS_SUITE_NUM", "W_ADDRESS_CITY", "W_ADDRESS_COUNTY", "W_ADDRESS_STATE",
    "W_ADDRESS_ZIP", "W_ADDRESS_COUNTRY", "W_ADDRESS_GMT_OFFSET", "W_NULLS",
    "W_WAREHOUSE_ADDRESS">>

WEB_PAGE_Columns == <<
    "WP_PAGE_SK", "WP_PAGE_ID", "WP_REC_START_DATE_ID", "WP_REC_END_DATE_ID",
    "WP_CREATION_DATE_SK", "WP_ACCESS_DATE_SK", "WP_AUTOGEN_FLAG", "WP_CUSTOMER_SK", "WP_URL",
    "WP_TYPE", "WP_CHAR_COUNT", "WP_LINK_COUNT", "WP_IMAGE_COUNT", "WP_MAX_AD_COUNT",
    "WP_NULLS", "WP_SCD">>

WEB_RETURNS_Columns == <<
    "WR_RETURNED_DATE_SK", "WR_RETURNED_TIME_SK", "WR_ITEM_SK", "WR_REFUNDED_CUSTOMER_SK",
    "WR_REFUNDED_CDEMO_SK", "WR_REFUNDED_HDEMO_SK", "WR_REFUNDED_ADDR_SK",
    "WR_RETURNING_CUSTOMER_SK", "WR_RETURNING_CDEMO_SK", "WR_RETURNING_HDEMO_SK",
    "WR_RETURNING_ADDR_SK", "WR_WEB_PAGE_SK", "WR_REASON_SK", "WR_ORDER_NUMBER",
    "WR_PRICING_QUANTITY", "WR_PRICING_NET_PAID", "WR_PRICING_EXT_TAX",
    "WR_PRICING_NET_PAID_INC_TAX", "WR_PRICING_FEE", "WR_PRICING_EXT_SHIP_COST",
    "WR_PRICING_REFUNDED_CASH", "WR_PRICING_REVERSED_CHARGE", "WR_PRICING_STORE_CREDIT",
    "WR_PRICING_NET_LOSS", "WR_PRICING", "WR_NULLS">>

WEB_SALES_Columns == <<
    "WS_SOLD_DATE_SK", "WS_SOLD_TIME_SK", "WS_SHIP_DATE_SK", "WS_ITEM_SK",
    "WS_BILL_CUSTOMER_SK", "WS_BILL_CDEMO_SK", "WS_BILL_HDEMO_SK", "WS_BILL_ADDR_SK",
    "WS_SHIP_CUSTOMER_SK", "WS_SHIP_CDEMO_SK", "WS_SHIP_HDEMO_SK", "WS_SHIP_ADDR_SK",
    "WS_WEB_PAGE_SK", "WS_WEB_SITE_SK", "WS_SHIP_MODE_SK", "WS_WAREHOUSE_SK", "WS_PROMO_SK",
    "WS_ORDER_NUMBER", "WS_PRICING_QUANTITY", "WS_PRICING_WHOLESALE_COST",
    "WS_PRICING_LIST_PRICE", "WS_PRICING_SALES_PRICE", "WS_PRICING_EXT_DISCOUNT_AMT",
    "WS_PRICING_EXT_SALES_PRICE", "WS_PRICING_EXT_WHOLESALE_COST", "WS_PRICING_EXT_LIST_PRICE",
    "WS_PRICING_EXT_TAX", "WS_PRICING_COUPON_AMT", "WS_PRICING_EXT_SHIP_COST",
    "WS_PRICING_NET_PAID", "WS_PRICING_NET_PAID_INC_TAX", "WS_PRICING_NET_PAID_INC_SHIP",
    "WS_PRICING_NET_PAID_INC_SHIP_TAX", "WS_PRICING_NET_PROFIT", "WS_PRICING", "WS_NULLS",
    "WR_IS_RETURNED", "WS_PERMUTATION">>

WEB_SITE_Columns == <<
    "WEB_SITE_SK", "WEB_SITE_ID", "WEB_REC_START_DATE_ID", "WEB_REC_END_DATE_ID", "WEB_NAME",
    "WEB_OPEN_DATE", "WEB_CLOSE_DATE", "WEB_CLASS", "WEB_MANAGER", "WEB_MARKET_ID",
    "WEB_MARKET_CLASS", "WEB_MARKET_DESC", "WEB_MARKET_MANAGER", "WEB_COMPANY_ID",
    "WEB_COMPANY_NAME", "WEB_ADDRESS_STREET_NUM", "WEB_ADDRESS_STREET_NAME1",
    "WEB_ADDRESS_STREET_TYPE", "WEB_ADDRESS_SUITE_NUM", "WEB_ADDRESS_CITY",
    "WEB_ADDRESS_COUNTY", "WEB_ADDRESS_STATE", "WEB_ADDRESS_ZIP", "WEB_ADDRESS_COUNTRY",
    "WEB_ADDRESS_GMT_OFFSET", "WEB_TAX_PERCENTAGE", "WEB_NULLS", "WEB_ADDRESS", "WEB_SCD">>

DBGEN_VERSION_Columns == <<
    "DV_VERSION", "DV_CREATE_DATE", "DV_CREATE_TIME", "DV_CMDLINE_ARGS", "VALIDATE_STREAM">>

S_BRAND_Columns == <<
    "S_BRAND_ID", "S_BRAND_SUBCLASS_ID", "S_BRAND_MANAGER_ID", "S_BRAND_MANUFACTURER_ID",
    "S_BRAND_NAME">>

S_CUSTOMER_ADDRESS_Columns == <<
    "S_CADR_ID", "S_CADR_ADDRESS_STREET_NUMBER", "S_CADR_ADDRESS_STREET_NAME1",
    "S_CADR_ADDRESS_STREET_NAME2", "S_CADR_ADDRESS_STREET_TYPE", "S_CADR_ADDRESS_SUITE_NUM",
    "S_CADR_ADDRESS_CITY", "S_CADR_ADDRESS_COUNTY", "S_CADR_ADDRESS_STATE",
    "S_CADR_ADDRESS_ZIP", "S_CADR_ADDRESS_COUNTRY", "S_BADDR_ADDRESS">>

S_CALL_CENTER_Columns == <<
    "S_CALL_CENTER_ID", "S_CALL_CENTER_DIVISION_ID", "S_CALL_CENTER_OPEN_DATE",
    "S_CALL_CENTER_CLOSED_DATE", "S_CALL_CENTER_NAME", "S_CALL_CENTER_CLASS",
    "S_CALL_CENTER_EMPLOYEES", "S_CALL_CENTER_SQFT", "S_CALL_CENTER_HOURS",
    "S_CALL_CENTER_MANAGER_ID", "S_CALL_CENTER_MARKET_ID", "S_CALL_CENTER_ADDRESS_ID",
    "S_CALL_CENTER_TAX_PERCENTAGE", "S_CALL_CENTER_SCD">>

S_CATALOG_Columns == <<
    "S_CATALOG_NUMBER", "S_CATALOG_START_DATE", "S_CATALOG_END_DATE", "S_CATALOG_DESC",
    "S_CATALOG_TYPE">>

S_CATALOG_ORDER_Columns == <<
    "S_CORD_ID", "S_CORD_BILL_CUSTOMER_ID", "S_CORD_SHIP_CUSTOMER_ID", "S_CORD_ORDER_DATE",
    "S_CORD_ORDER_TIME", "S_CORD_SHIP_MODE_ID", "S_CORD_CALL_CENTER_ID", "S_CLIN_ITEM_ID",
    "S_CORD_COMMENT">>

S_CATALOG_ORDER_LINEITEM_Columns == <<
    "S_CLIN_ORDER_ID", "S_CLIN_LINE_NUMBER", "S_CLIN_PROMOTION_ID", "S_CLIN_QUANTITY",
    "S_CLIN_COUPON_AMT", "S_CLIN_WAREHOUSE_ID", "S_CLIN_SHIP_DATE", "S_CLIN_CATALOG_ID",
    "S_CLIN_CATALOG_PAGE_ID", "S_CLIN_PRICING", "S_CLIN_SHIP_COST", "S_CLIN_IS_RETURNED",
    "S_CLIN_PERMUTE">>

S_CATALOG_PAGE_Columns == <<
    "S_CATALOG_PAGE_CATALOG_NUMBER", "S_CATALOG_PAGE_NUMBER", "S_CATALOG_PAGE_DEPARTMENT",
    "S_CP_ID", "S_CP_START_DATE", "S_CP_END_DATE", "S_CP_DESCRIPTION", "S_CP_TYPE">>

S_CATALOG_PROMOTIONAL_ITEM_Columns == <<
    "S_CATALOG_PROMOTIONAL_ITEM_CATALOG_NUMBER",
    "S_CATALOG_PROMOTIONAL_ITEM_CATALOG_PAGE_NUMBER", "S_CATALOG_PROMOTIONAL_ITEM_ITEM_ID",
    "S_CATALOG_PROMOTIONAL_ITEM_PROMOTION_ID">>

S_CATALOG_RETURNS_Columns == <<
    "S_CRET_CALL_CENTER_ID", "S_CRET_ORDER_ID", "S_CRET_LINE_NUMBER", "S_CRET_ITEM_ID",
    "S_CRET_RETURN_CUSTOMER_ID", "S_CRET_REFUND_CUSTOMER_ID", "S_CRET_DATE", "S_CRET_TIME",
    "S_CRET_QUANTITY", "S_CRET_AMOUNT", "S_CRET_TAX", "S_CRET_FEE", "S_CRET_SHIP_COST",
    "S_CRET_REFUNDED_CASH", "S_CRET_REVERSED_CHARGE", "S_CRET_MERCHANT_CREDIT",
    "S_CRET_REASON_ID", "S_CRET_PRICING", "S_CRET_SHIPMODE_ID", "S_CRET_WAREHOUSE_ID",
    "S_CRET_CATALOG_PAGE_ID">>

S_CATEGORY_Columns == <<
    "S_CATEGORY_ID", "S_CATEGORY_NAME", "S_CATEGORY_DESC">>

S_CLASS_Columns == <<
    "S_CLASS_ID", "S_CLASS_SUBCAT_ID", "S_CLASS_DESC">>

S_COMPANY_Columns == <<
    "S_COMPANY_ID", "S_COMPANY_NAME">>

S_CUSTOMER_Columns == <<
    "S_CUST_ID", "S_CUST_SALUTATION", "S_CUST_LAST_NAME", "S_CUST_FIRST_NAME",
    "S_CUST_PREFERRED_FLAG", "S_CUST_BIRTH_DATE", "S_CUST_FIRST_PURCHASE_DATE",
    "S_CUST_FIRST_SHIPTO_DATE", "S_CUST_BIRTH_COUNTRY", "S_CUST_LOGIN", "S_CUST_EMAIL",
    "S_CUST_LAST_LOGIN", "S_CUST_LAST_REVIEW", "S_CUST_PRIMARY_MACHINE",
    "S_CUST_SECONDARY_MACHINE", "S_CUST_ADDRESS", "S_CUST_ADDRESS_STREET_NUM",
    "S_CUST_ADDRESS_STREET_NAME1", "S_CUST_ADDRESS_STREET_NAME2", "S_CUST_ADDRESS_STREET_TYPE",
    "S_CUST_ADDRESS_SUITE_NUM", "S_CUST_ADDRESS_CITY", "S_CUST_ADDRESS_ZIP",
    "S_CUST_ADDRESS_COUNTY", "S_CUST_ADDRESS_STATE", "S_CUST_ADDRESS_COUNTRY",
    "S_CUST_LOCATION_TYPE", "S_CUST_GENDER", "S_CUST_MARITAL_STATUS", "S_CUST_EDUCATION",
    "S_CUST_CREDIT_RATING", "S_CUST_PURCHASE_ESTIMATE", "S_CUST_BUY_POTENTIAL",
    "S_CUST_DEPENDENT_CNT", "S_CUST_EMPLOYED_CNT", "S_CUST_COLLEGE_CNT", "S_CUST_VEHICLE_CNT",
    "S_CUST_INCOME">>

S_DIVISION_Columns == <<
    "S_DIVISION_ID", "S_DIVISION_COMPANY", "S_DIVISION_NAME">>

S_INVENTORY_Columns == <<
    "S_INVN_WAREHOUSE", "S_INVN_ITEM", "S_INVN_DATE", "S_INVN_QUANTITY">>

S_ITEM_Columns == <<
    "S_ITEM_ID", "S_ITEM_PERMUTE", "S_ITEM_PRODUCT_ID", "S_ITEM_DESC", "S_ITEM_LIST_PRICE",
    "S_ITEM_WHOLESALE_COST", "S_ITEM_MANAGER_ID", "S_ITEM_SIZE", "S_ITEM_FORMULATION",
    "S_ITEM_FLAVOR", "S_ITEM_UNITS", "S_ITEM_CONTAINER", "S_ITEM_SCD">>

S_MANAGER_Columns == <<
    "S_MANAGER_ID", "S_MANAGER_NAME">>

S_MANUFACTURER_Columns == <<
    "S_MANUFACTURER_ID", "S_MANUFACTURER_NAME">>

S_MARKET_Columns == <<
    "S_MARKET_ID", "S_MARKET_CLASS_NAME", "S_MARKET_DESC", "S_MARKET_MANAGER_ID">>

S_PRODUCT_Columns == <<
    "S_PRODUCT_ID", "S_PRODUCT_BRAND_ID", "S_PRODUCT_NAME", "S_PRODUCT_TYPE">>

S_PROMOTION_Columns == <<
    "S_PROMOTION_ID", "S_PROMOTION_ITEM_ID", "S_PROMOTION_START_DATE", "S_PROMOTION_END_DATE",
    "S_PROMOTION_COST", "S_PROMOTION_RESPONSE_TARGET", "S_PROMOTION_DMAIL", "S_PROMOTION_EMAIL",
    "S_PROMOTION_CATALOG", "S_PROMOTION_TV", "S_PROMOTION_RADIO", "S_PROMOTION_PRESS",
    "S_PROMOTION_EVENT", "S_PROMOTION_DEMO", "S_PROMOTION_DETAILS", "S_PROMOTION_PURPOSE",
    "S_PROMOTION_DISCOUNT_ACTIVE", "S_PROMOTION_DISCOUNT_PCT", "S_PROMOTION_NAME",
    "S_PROMOTION_BITFIELD">>

S_PURCHASE_Columns == <<
    "S_PURCHASE_ID", "S_PURCHASE_STORE_ID", "S_PURCHASE_CUSTOMER_ID", "S_PURCHASE_DATE",
    "S_PURCHASE_TIME", "S_PURCHASE_REGISTER", "S_PURCHASE_CLERK", "S_PURCHASE_COMMENT",
    "S_PURCHASE_PRICING", "S_PLINE_ITEM_ID">>

S_PURCHASE_LINEITEM_Columns == <<
    "S_PLINE_PURCHASE_ID", "S_PLINE_NUMBER", "S_PLINE_PROMOTION_ID", "S_PLINE_SALE_PRICE",
    "S_PLINE_QUANTITY", "S_PLINE_COUPON_AMT", "S_PLINE_COMMENT", "S_PLINE_PRICING",
    "S_PLINE_IS_RETURNED", "S_PLINE_PERMUTE">>

S_REASON_Columns == <<
    "S_REASON_ID", "S_REASON_DESC">>

S_STORE_Columns == <<
    "S_STORE_ID", "S_STORE_ADDRESS_ID", "S_STORE_DIVISION_ID", "S_STORE_OPEN_DATE",
    "S_STORE_CLOSE_DATE", "S_STORE_NAME", "S_STORE_CLASS", "S_STORE_EMPLOYEES",
    "S_STORE_FLOOR_SPACE", "S_STORE_HOURS", "S_STORE_MARKET_MANAGER_ID", "S_STORE_MANAGER_ID",
    "S_STORE_MARKET_ID", "S_STORE_GEOGRAPHY_CLASS", "S_STORE_TAX_PERCENTAGE">>

S_STORE_PROMOTIONAL_ITEM_Columns == <<
    "S_SITM_PROMOTION_ID", "S_SITM_ITEM_ID", "S_SITM_STORE_ID">>

S_STORE_RETURNS_Columns == <<
    "S_SRET_STORE_ID", "S_SRET_PURCHASE_ID", "S_SRET_LINENUMBER", "S_SRET_ITEM_ID",
    "S_SRET_CUSTOMER_ID", "S_SRET_RETURN_DATE", "S_SRET_RETURN_TIME", "S_SRET_TICKET_NUMBER",
    "S_SRET_RETURN_QUANTITY", "S_SRET_RETURN_AMT", "S_SRET_RETURN_TAX", "S_SRET_RETURN_FEE",
    "S_SRET_RETURN_SHIP_COST", "S_SRET_REFUNDED_CASH", "S_SRET_REVERSED_CHARGE",
    "S_SRET_MERCHANT_CREDIT", "S_SRET_REASON_ID", "S_SRET_PRICING">>

S_SUBCATEGORY_Columns == <<
    "S_SBCT_ID", "S_SBCT_CATEGORY_ID", "S_SBCT_NAME", "S_SBCT_DESC">>

S_SUBCLASS_Columns == <<
    "S_SUBC_ID", "S_SUBC_CLASS_ID", "S_SUBC_NAME", "S_SUBC_DESC">>

S_WAREHOUSE_Columns == <<
    "S_WRHS_ID", "S_WRHS_DESC", "S_WRHS_SQFT", "S_WRHS_ADDRESS_ID">>

S_WEB_ORDER_Columns == <<
    "S_WORD_ID", "S_WORD_BILL_CUSTOMER_ID", "S_WORD_SHIP_CUSTOMER_ID", "S_WORD_ORDER_DATE",
    "S_WORD_ORDER_TIME", "S_WORD_SHIP_MODE_ID", "S_WORD_WEB_SITE_ID", "S_WORD_COMMENT",
    "S_WLIN_ITEM_ID">>

S_WEB_ORDER_LINEITEM_Columns == <<
    "S_WLIN_ID", "S_WLIN_LINE_NUMBER", "S_WLIN_PROMOTION_ID", "S_WLIN_QUANTITY",
    "S_WLIN_COUPON_AMT", "S_WLIN_WAREHOUSE_ID", "S_WLIN_SHIP_DATE", "S_WLIN_WEB_PAGE_ID",
    "S_WLIN_PRICING", "S_WLIN_SHIP_COST", "S_WLIN_IS_RETURNED", "S_WLIN_PERMUTE">>

S_WEB_PAGE_Columns == <<
    "S_WPAG_SITE_ID", "S_WPAG_ID", "S_WPAG_CREATE_DATE", "S_WPAG_ACCESS_DATE",
    "S_WPAG_AUTOGEN_FLAG", "S_WPAG_DEPARTMENT", "S_WPAG_URL", "S_WPAG_TYPE", "S_WPAG_CHAR_CNT",
    "S_WPAG_LINK_CNT", "S_WPAG_IMAGE_CNT", "S_WPAG_MAX_AD_CNT", "S_WPAG_PERMUTE">>

S_WEB_PROMOTIONAL_ITEM_Columns == <<
    "S_WITM_SITE_ID", "S_WITM_PAGE_ID", "S_WITM_ITEM_ID", "S_WITM_PROMOTION_ID">>

S_WEB_RETURNS_Columns == <<
    "S_WRET_SITE_ID", "S_WRET_ORDER_ID", "S_WRET_LINE_NUMBER", "S_WRET_ITEM_ID",
    "S_WRET_RETURN_CUST_ID", "S_WRET_REFUND_CUST_ID", "S_WRET_RETURN_DATE",
    "S_WRET_RETURN_TIME", "S_WRET_REASON_ID", "S_WRET_PRICING">>

S_WEB_SITE_Columns == <<
    "S_WSIT_ID", "S_WSIT_OPEN_DATE", "S_WSIT_CLOSE_DATE", "S_WSIT_NAME", "S_WSIT_ADDRESS_ID",
    "S_WSIT_DIVISION_ID", "S_WSIT_CLASS", "S_WSIT_MANAGER_ID", "S_WSIT_MARKET_ID",
    "S_WSIT_TAX_PERCENTAGE">>

S_ZIPG_Columns == <<
    "S_ZIPG_ZIP", "S_ZIPG_GMT">>

=============================================================================
