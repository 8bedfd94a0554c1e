---------------------------- MODULE DsdgenStreams ---------------------------
(*****************************************************************************)
(* The random number streams of dsdgen: for every column the numbers a row   *)
(* may use of its stream (nUsedPerRow). After every row the rest of the      *)
(* budget is drawn, and skipping a row skips the whole budget, used or not.  *)
(*****************************************************************************)

CALL_CENTER_Streams == [
    CC_CALL_CENTER_SK |-> 0, CC_CALL_CENTER_ID |-> 15, CC_REC_START_DATE_ID |-> 10,
    CC_REC_END_DATE_ID |-> 1, CC_CLOSED_DATE_ID |-> 4, CC_OPEN_DATE_ID |-> 10, CC_NAME |-> 0,
    CC_CLASS |-> 2, CC_EMPLOYEES |-> 1, CC_SQ_FT |-> 1, CC_HOURS |-> 1, CC_MANAGER |-> 2,
    CC_MARKET_ID |-> 1, CC_MARKET_CLASS |-> 50, CC_MARKET_DESC |-> 50, CC_MARKET_MANAGER |-> 2,
    CC_DIVISION |-> 2, CC_DIVISION_NAME |-> 2, CC_COMPANY |-> 2, CC_COMPANY_NAME |-> 2,
    CC_STREET_NUMBER |-> 0, CC_STREET_NAME |-> 0, CC_STREET_TYPE |-> 0, CC_SUITE_NUMBER |-> 0,
    CC_CITY |-> 0, CC_COUNTY |-> 0, CC_STATE |-> 0, CC_ZIP |-> 0, CC_COUNTRY |-> 0,
    CC_GMT_OFFSET |-> 0, CC_ADDRESS |-> 15, CC_TAX_PERCENTAGE |-> 1, CC_SCD |-> 1,
    CC_NULLS |-> 2]

CATALOG_PAGE_Streams == [
    CP_CATALOG_PAGE_SK |-> 1, CP_CATALOG_PAGE_ID |-> 1, CP_START_DATE_ID |-> 1,
    CP_END_DATE_ID |-> 1, CP_PROMO_ID |-> 1, CP_DEPARTMENT |-> 1, CP_CATALOG_NUMBER |-> 1,
    CP_CATALOG_PAGE_NUMBER |-> 1, CP_DESCRIPTION |-> 100, CP_TYPE |-> 1, CP_NULLS |-> 2]

CATALOG_RETURNS_Streams == [
    CR_RETURNED_DATE_SK |-> 28, CR_RETURNED_TIME_SK |-> 28, CR_ITEM_SK |-> 14,
    CR_REFUNDED_CUSTOMER_SK |-> 14, CR_REFUNDED_CDEMO_SK |-> 14, CR_REFUNDED_HDEMO_SK |-> 14,
    CR_REFUNDED_ADDR_SK |-> 14, CR_RETURNING_CUSTOMER_SK |-> 28, CR_RETURNING_CDEMO_SK |-> 14,
    CR_RETURNING_HDEMO_SK |-> 14, CR_RETURNING_ADDR_SK |-> 14, CR_CALL_CENTER_SK |-> 0,
    CR_CATALOG_PAGE_SK |-> 14, CR_SHIP_MODE_SK |-> 14, CR_WAREHOUSE_SK |-> 14,
    CR_REASON_SK |-> 14, CR_ORDER_NUMBER |-> 0, CR_PRICING_QUANTITY |-> 0,
    CR_PRICING_NET_PAID |-> 0, CR_PRICING_EXT_TAX |-> 0, CR_PRICING_NET_PAID_INC_TAX |-> 0,
    CR_PRICING_FEE |-> 0, CR_PRICING_EXT_SHIP_COST |-> 0, CR_PRICING_REFUNDED_CASH |-> 0,
    CR_PRICING_REVERSED_CHARGE |-> 0, CR_PRICING_STORE_CREDIT |-> 0, CR_PRICING_NET_LOSS |-> 0,
    CR_NULLS |-> 28, CR_PRICING |-> 70]

CATALOG_SALES_Streams == [
    CS_SOLD_DATE_SK |-> 1, CS_SOLD_TIME_SK |-> 2, CS_SHIP_DATE_SK |-> 14,
    CS_BILL_CUSTOMER_SK |-> 1, CS_BILL_CDEMO_SK |-> 1, CS_BILL_HDEMO_SK |-> 1,
    CS_BILL_ADDR_SK |-> 1, CS_SHIP_CUSTOMER_SK |-> 2, CS_SHIP_CDEMO_SK |-> 1,
    CS_SHIP_HDEMO_SK |-> 1, CS_SHIP_ADDR_SK |-> 1, CS_CALL_CENTER_SK |-> 1,
    CS_CATALOG_PAGE_SK |-> 42, CS_SHIP_MODE_SK |-> 14, CS_WAREHOUSE_SK |-> 14,
    CS_SOLD_ITEM_SK |-> 1, CS_PROMO_SK |-> 14, CS_ORDER_NUMBER |-> 1, CS_PRICING_QUANTITY |-> 0,
    CS_PRICING_WHOLESALE_COST |-> 0, CS_PRICING_LIST_PRICE |-> 0, CS_PRICING_SALES_PRICE |-> 0,
    CS_PRICING_COUPON_AMT |-> 0, CS_PRICING_EXT_SALES_PRICE |-> 0,
    CS_PRICING_EXT_DISCOUNT_AMOUNT |-> 0, CS_PRICING_EXT_WHOLESALE_COST |-> 0,
    CS_PRICING_EXT_LIST_PRICE |-> 0, CS_PRICING_EXT_TAX |-> 0, CS_PRICING_EXT_SHIP_COST |-> 0,
    CS_PRICING_NET_PAID |-> 0, CS_PRICING_NET_PAID_INC_TAX |-> 0,
    CS_PRICING_NET_PAID_INC_SHIP |-> 0, CS_PRICING_NET_PAID_INC_SHIP_TAX |-> 0,
    CS_PRICING_NET_PROFIT |-> 0, CS_PRICING |-> 112, CS_PERMUTE |-> 0, CS_NULLS |-> 28,
    CR_IS_RETURNED |-> 14, CS_PERMUTATION |-> 0]

CUSTOMER_Streams == [
    C_CUSTOMER_SK |-> 1, C_CUSTOMER_ID |-> 1, C_CURRENT_CDEMO_SK |-> 1,
    C_CURRENT_HDEMO_SK |-> 1, C_CURRENT_ADDR_SK |-> 1, C_FIRST_SHIPTO_DATE_ID |-> 0,
    C_FIRST_SALES_DATE_ID |-> 1, C_SALUTATION |-> 1, C_FIRST_NAME |-> 1, C_LAST_NAME |-> 1,
    C_PREFERRED_CUST_FLAG |-> 2, C_BIRTH_DAY |-> 1, C_BIRTH_MONTH |-> 0, C_BIRTH_YEAR |-> 0,
    C_BIRTH_COUNTRY |-> 1, C_LOGIN |-> 1, C_EMAIL_ADDRESS |-> 23, C_LAST_REVIEW_DATE |-> 1,
    C_NULLS |-> 2]

CUSTOMER_ADDRESS_Streams == [
    CA_ADDRESS_SK |-> 1, CA_ADDRESS_ID |-> 1, CA_ADDRESS_STREET_NUM |-> 1,
    CA_ADDRESS_STREET_NAME1 |-> 1, CA_ADDRESS_STREET_TYPE |-> 1, CA_ADDRESS_SUITE_NUM |-> 1,
    CA_ADDRESS_CITY |-> 1, CA_ADDRESS_COUNTY |-> 1, CA_ADDRESS_STATE |-> 1,
    CA_ADDRESS_ZIP |-> 1, CA_ADDRESS_COUNTRY |-> 1, CA_ADDRESS_GMT_OFFSET |-> 1,
    CA_LOCATION_TYPE |-> 1, CA_NULLS |-> 2, CA_ADDRESS |-> 7, CA_ADDRESS_STREET_NAME2 |-> 1]

CUSTOMER_DEMOGRAPHICS_Streams == [
    CD_DEMO_SK |-> 1, CD_GENDER |-> 1, CD_MARITAL_STATUS |-> 1, CD_EDUCATION_STATUS |-> 1,
    CD_PURCHASE_ESTIMATE |-> 1, CD_CREDIT_RATING |-> 1, CD_DEP_COUNT |-> 1,
    CD_DEP_EMPLOYED_COUNT |-> 1, CD_DEP_COLLEGE_COUNT |-> 1, CD_NULLS |-> 2]

DATE_Streams == [
    D_DATE_SK |-> 0, D_DATE_ID |-> 0, D_DATE |-> 0, D_MONTH_SEQ |-> 0, D_WEEK_SEQ |-> 0,
    D_QUARTER_SEQ |-> 0, D_YEAR |-> 0, D_DOW |-> 0, D_MOY |-> 0, D_DOM |-> 0, D_QOY |-> 0,
    D_FY_YEAR |-> 0, D_FY_QUARTER_SEQ |-> 0, D_FY_WEEK_SEQ |-> 0, D_DAY_NAME |-> 0,
    D_QUARTER_NAME |-> 0, D_HOLIDAY |-> 0, D_WEEKEND |-> 0, D_FOLLOWING_HOLIDAY |-> 0,
    D_FIRST_DOM |-> 0, D_LAST_DOM |-> 0, D_SAME_DAY_LY |-> 0, D_SAME_DAY_LQ |-> 0,
    D_CURRENT_DAY |-> 0, D_CURRENT_WEEK |-> 0, D_CURRENT_MONTH |-> 0, D_CURRENT_QUARTER |-> 0,
    D_CURRENT_YEAR |-> 0, D_NULLS |-> 2]

HOUSEHOLD_DEMOGRAPHICS_Streams == [
    HD_DEMO_SK |-> 1, HD_INCOME_BAND_ID |-> 1, HD_BUY_POTENTIAL |-> 1, HD_DEP_COUNT |-> 1,
    HD_VEHICLE_COUNT |-> 1, HD_NULLS |-> 2]

INCOME_BAND_Streams == [
    IB_INCOME_BAND_ID |-> 1, IB_LOWER_BOUND |-> 1, IB_UPPER_BOUND |-> 1, IB_NULLS |-> 2]

INVENTORY_Streams == [
    INV_DATE_SK |-> 1, INV_ITEM_SK |-> 1, INV_WAREHOUSE_SK |-> 1, INV_QUANTITY_ON_HAND |-> 1,
    INV_NULLS |-> 2]

ITEM_Streams == [
    I_ITEM_SK |-> 1, I_ITEM_ID |-> 1, I_REC_START_DATE_ID |-> 1, I_REC_END_DATE_ID |-> 2,
    I_ITEM_DESC |-> 200, I_CURRENT_PRICE |-> 2, I_WHOLESALE_COST |-> 1, I_BRAND_ID |-> 1,
    I_BRAND |-> 1, I_CLASS_ID |-> 1, I_CLASS |-> 1, I_CATEGORY_ID |-> 1, I_CATEGORY |-> 1,
    I_MANUFACT_ID |-> 2, I_MANUFACT |-> 1, I_SIZE |-> 1, I_FORMULATION |-> 50, I_COLOR |-> 1,
    I_UNITS |-> 1, I_CONTAINER |-> 1, I_MANAGER_ID |-> 2, I_PRODUCT_NAME |-> 1, I_NULLS |-> 2,
    I_SCD |-> 1, I_PROMO_SK |-> 2]

PROMOTION_Streams == [
    P_PROMO_SK |-> 1, P_PROMO_ID |-> 1, P_START_DATE_ID |-> 1, P_END_DATE_ID |-> 1,
    P_ITEM_SK |-> 1, P_COST |-> 1, P_RESPONSE_TARGET |-> 1, P_PROMO_NAME |-> 1,
    P_CHANNEL_DMAIL |-> 1, P_CHANNEL_EMAIL |-> 1, P_CHANNEL_CATALOG |-> 1, P_CHANNEL_TV |-> 1,
    P_CHANNEL_RADIO |-> 1, P_CHANNEL_PRESS |-> 1, P_CHANNEL_EVENT |-> 1, P_CHANNEL_DEMO |-> 1,
    P_CHANNEL_DETAILS |-> 100, P_PURPOSE |-> 1, P_DISCOUNT_ACTIVE |-> 1, P_NULLS |-> 2]

REASON_Streams == [
    R_REASON_SK |-> 1, R_REASON_ID |-> 1, R_REASON_DESCRIPTION |-> 1, R_NULLS |-> 2]

SHIP_MODE_Streams == [
    SM_SHIP_MODE_SK |-> 1, SM_SHIP_MODE_ID |-> 1, SM_TYPE |-> 1, SM_CODE |-> 1,
    SM_CONTRACT |-> 21, SM_CARRIER |-> 1, SM_NULLS |-> 2]

STORE_Streams == [
    W_STORE_SK |-> 1, W_STORE_ID |-> 1, W_STORE_REC_START_DATE_ID |-> 1,
    W_STORE_REC_END_DATE_ID |-> 2, W_STORE_CLOSED_DATE_ID |-> 2, W_STORE_NAME |-> 0,
    W_STORE_EMPLOYEES |-> 1, W_STORE_FLOOR_SPACE |-> 1, W_STORE_HOURS |-> 1,
    W_STORE_MANAGER |-> 2, W_STORE_MARKET_ID |-> 1, W_STORE_TAX_PERCENTAGE |-> 1,
    W_STORE_GEOGRAPHY_CLASS |-> 1, W_STORE_MARKET_DESC |-> 100, W_STORE_MARKET_MANAGER |-> 2,
    W_STORE_DIVISION_ID |-> 1, W_STORE_DIVISION_NAME |-> 1, W_STORE_COMPANY_ID |-> 1,
    W_STORE_COMPANY_NAME |-> 1, W_STORE_ADDRESS_STREET_NUM |-> 1,
    W_STORE_ADDRESS_STREET_NAME1 |-> 1, W_STORE_ADDRESS_STREET_TYPE |-> 1,
    W_STORE_ADDRESS_SUITE_NUM |-> 1, W_STORE_ADDRESS_CITY |-> 1, W_STORE_ADDRESS_COUNTY |-> 1,
    W_STORE_ADDRESS_STATE |-> 1, W_STORE_ADDRESS_ZIP |-> 1, W_STORE_ADDRESS_COUNTRY |-> 1,
    W_STORE_ADDRESS_GMT_OFFSET |-> 1, W_STORE_NULLS |-> 2, W_STORE_TYPE |-> 1,
    W_STORE_SCD |-> 1, W_STORE_ADDRESS |-> 7]

STORE_RETURNS_Streams == [
    SR_RETURNED_DATE_SK |-> 32, SR_RETURNED_TIME_SK |-> 32, SR_ITEM_SK |-> 16,
    SR_CUSTOMER_SK |-> 16, SR_CDEMO_SK |-> 16, SR_HDEMO_SK |-> 16, SR_ADDR_SK |-> 16,
    SR_STORE_SK |-> 16, SR_REASON_SK |-> 16, SR_TICKET_NUMBER |-> 16, SR_PRICING_QUANTITY |-> 0,
    SR_PRICING_NET_PAID |-> 0, SR_PRICING_EXT_TAX |-> 0, SR_PRICING_NET_PAID_INC_TAX |-> 0,
    SR_PRICING_FEE |-> 0, SR_PRICING_EXT_SHIP_COST |-> 0, SR_PRICING_REFUNDED_CASH |-> 0,
    SR_PRICING_REVERSED_CHARGE |-> 0, SR_PRICING_STORE_CREDIT |-> 0, SR_PRICING_NET_LOSS |-> 0,
    SR_PRICING |-> 80, SR_NULLS |-> 32]

STORE_SALES_Streams == [
    SS_SOLD_DATE_SK |-> 2, SS_SOLD_TIME_SK |-> 2, SS_SOLD_ITEM_SK |-> 1,
    SS_SOLD_CUSTOMER_SK |-> 1, SS_SOLD_CDEMO_SK |-> 1, SS_SOLD_HDEMO_SK |-> 1,
    SS_SOLD_ADDR_SK |-> 1, SS_SOLD_STORE_SK |-> 1, SS_SOLD_PROMO_SK |-> 16,
    SS_TICKET_NUMBER |-> 1, SS_PRICING_QUANTITY |-> 1, SS_PRICING_WHOLESALE_COST |-> 0,
    SS_PRICING_LIST_PRICE |-> 0, SS_PRICING_SALES_PRICE |-> 0, SS_PRICING_COUPON_AMT |-> 0,
    SS_PRICING_EXT_SALES_PRICE |-> 0, SS_PRICING_EXT_WHOLESALE_COST |-> 0,
    SS_PRICING_EXT_LIST_PRICE |-> 0, SS_PRICING_EXT_TAX |-> 0, SS_PRICING_NET_PAID |-> 0,
    SS_PRICING_NET_PAID_INC_TAX |-> 0, SS_PRICING_NET_PROFIT |-> 0, SR_IS_RETURNED |-> 16,
    SS_PRICING |-> 128, SS_NULLS |-> 32, SS_PERMUTATION |-> 0]

TIME_Streams == [
    T_TIME_SK |-> 1, T_TIME_ID |-> 1, T_TIME |-> 1, T_HOUR |-> 1, T_MINUTE |-> 1,
    T_SECOND |-> 1, T_AM_PM |-> 1, T_SHIFT |-> 1, T_SUB_SHIFT |-> 1, T_MEAL_TIME |-> 1,
    T_NULLS |-> 2]

WAREHOUSE_Streams == [
    W_WAREHOUSE_SK |-> 1, W_WAREHOUSE_ID |-> 1, W_WAREHOUSE_NAME |-> 80,
    W_WAREHOUSE_SQ_FT |-> 1, W_ADDRESS_STREET_NUM |-> 1, W_ADDRESS_STREET_NAME1 |-> 1,
    W_ADDRESS_STREET_TYPE |-> 1, W_ADDRESS_SUITE_NUM |-> 1, W_ADDRESS_CITY |-> 1,
    W_ADDRESS_COUNTY |-> 1, W_ADDRESS_STATE |-> 1, W_ADDRESS_ZIP |-> 1, W_ADDRESS_COUNTRY |-> 1,
    W_ADDRESS_GMT_OFFSET |-> 1, W_NULLS |-> 2, W_WAREHOUSE_ADDRESS |-> 7]

WEB_PAGE_Streams == [
    WP_PAGE_SK |-> 1, WP_PAGE_ID |-> 1, WP_REC_START_DATE_ID |-> 1, WP_REC_END_DATE_ID |-> 1,
    WP_CREATION_DATE_SK |-> 2, WP_ACCESS_DATE_SK |-> 1, WP_AUTOGEN_FLAG |-> 1,
    WP_CUSTOMER_SK |-> 1, WP_URL |-> 1, WP_TYPE |-> 1, WP_CHAR_COUNT |-> 1, WP_LINK_COUNT |-> 1,
    WP_IMAGE_COUNT |-> 1, WP_MAX_AD_COUNT |-> 1, WP_NULLS |-> 2, WP_SCD |-> 1]

WEB_RETURNS_Streams == [
    WR_RETURNED_DATE_SK |-> 32, WR_RETURNED_TIME_SK |-> 32, WR_ITEM_SK |-> 16,
    WR_REFUNDED_CUSTOMER_SK |-> 16, WR_REFUNDED_CDEMO_SK |-> 16, WR_REFUNDED_HDEMO_SK |-> 16,
    WR_REFUNDED_ADDR_SK |-> 16, WR_RETURNING_CUSTOMER_SK |-> 16, WR_RETURNING_CDEMO_SK |-> 16,
    WR_RETURNING_HDEMO_SK |-> 16, WR_RETURNING_ADDR_SK |-> 16, WR_WEB_PAGE_SK |-> 16,
    WR_REASON_SK |-> 16, WR_ORDER_NUMBER |-> 0, WR_PRICING_QUANTITY |-> 0,
    WR_PRICING_NET_PAID |-> 0, WR_PRICING_EXT_TAX |-> 0, WR_PRICING_NET_PAID_INC_TAX |-> 0,
    WR_PRICING_FEE |-> 0, WR_PRICING_EXT_SHIP_COST |-> 0, WR_PRICING_REFUNDED_CASH |-> 0,
    WR_PRICING_REVERSED_CHARGE |-> 0, WR_PRICING_STORE_CREDIT |-> 0, WR_PRICING_NET_LOSS |-> 0,
    WR_PRICING |-> 80, WR_NULLS |-> 32]

WEB_SALES_Streams == [
    WS_SOLD_DATE_SK |-> 2, WS_SOLD_TIME_SK |-> 2, WS_SHIP_DATE_SK |-> 16, WS_ITEM_SK |-> 1,
    WS_BILL_CUSTOMER_SK |-> 1, WS_BILL_CDEMO_SK |-> 1, WS_BILL_HDEMO_SK |-> 1,
    WS_BILL_ADDR_SK |-> 1, WS_SHIP_CUSTOMER_SK |-> 2, WS_SHIP_CDEMO_SK |-> 2,
    WS_SHIP_HDEMO_SK |-> 1, WS_SHIP_ADDR_SK |-> 1, WS_WEB_PAGE_SK |-> 16, WS_WEB_SITE_SK |-> 16,
    WS_SHIP_MODE_SK |-> 16, WS_WAREHOUSE_SK |-> 16, WS_PROMO_SK |-> 16, WS_ORDER_NUMBER |-> 1,
    WS_PRICING_QUANTITY |-> 1, WS_PRICING_WHOLESALE_COST |-> 1, WS_PRICING_LIST_PRICE |-> 0,
    WS_PRICING_SALES_PRICE |-> 0, WS_PRICING_EXT_DISCOUNT_AMT |-> 0,
    WS_PRICING_EXT_SALES_PRICE |-> 0, WS_PRICING_EXT_WHOLESALE_COST |-> 0,
    WS_PRICING_EXT_LIST_PRICE |-> 0, WS_PRICING_EXT_TAX |-> 0, WS_PRICING_COUPON_AMT |-> 0,
    WS_PRICING_EXT_SHIP_COST |-> 0, WS_PRICING_NET_PAID |-> 0,
    WS_PRICING_NET_PAID_INC_TAX |-> 0, WS_PRICING_NET_PAID_INC_SHIP |-> 0,
    WS_PRICING_NET_PAID_INC_SHIP_TAX |-> 0, WS_PRICING_NET_PROFIT |-> 0, WS_PRICING |-> 128,
    WS_NULLS |-> 32, WR_IS_RETURNED |-> 16, WS_PERMUTATION |-> 0]

WEB_SITE_Streams == [
    WEB_SITE_SK |-> 1, WEB_SITE_ID |-> 1, WEB_REC_START_DATE_ID |-> 1,
    WEB_REC_END_DATE_ID |-> 1, WEB_NAME |-> 1, WEB_OPEN_DATE |-> 1, WEB_CLOSE_DATE |-> 1,
    WEB_CLASS |-> 1, WEB_MANAGER |-> 2, WEB_MARKET_ID |-> 1, WEB_MARKET_CLASS |-> 20,
    WEB_MARKET_DESC |-> 100, WEB_MARKET_MANAGER |-> 2, WEB_COMPANY_ID |-> 1,
    WEB_COMPANY_NAME |-> 1, WEB_ADDRESS_STREET_NUM |-> 1, WEB_ADDRESS_STREET_NAME1 |-> 1,
    WEB_ADDRESS_STREET_TYPE |-> 1, WEB_ADDRESS_SUITE_NUM |-> 1, WEB_ADDRESS_CITY |-> 1,
    WEB_ADDRESS_COUNTY |-> 1, WEB_ADDRESS_STATE |-> 1, WEB_ADDRESS_ZIP |-> 1,
    WEB_ADDRESS_COUNTRY |-> 1, WEB_ADDRESS_GMT_OFFSET |-> 1, WEB_TAX_PERCENTAGE |-> 1,
    WEB_NULLS |-> 2, WEB_ADDRESS |-> 7, WEB_SCD |-> 70]

DBGEN_VERSION_Streams == [
    DV_VERSION |-> 0, DV_CREATE_DATE |-> 0, DV_CREATE_TIME |-> 0, DV_CMDLINE_ARGS |-> 0,
    VALIDATE_STREAM |-> 0]

S_BRAND_Streams == [
    S_BRAND_ID |-> 0, S_BRAND_SUBCLASS_ID |-> 0, S_BRAND_MANAGER_ID |-> 1,
    S_BRAND_MANUFACTURER_ID |-> 1, S_BRAND_NAME |-> 6]

S_CUSTOMER_ADDRESS_Streams == [
    S_CADR_ID |-> 0, S_CADR_ADDRESS_STREET_NUMBER |-> 1, S_CADR_ADDRESS_STREET_NAME1 |-> 1,
    S_CADR_ADDRESS_STREET_NAME2 |-> 1, S_CADR_ADDRESS_STREET_TYPE |-> 1,
    S_CADR_ADDRESS_SUITE_NUM |-> 1, S_CADR_ADDRESS_CITY |-> 1, S_CADR_ADDRESS_COUNTY |-> 1,
    S_CADR_ADDRESS_STATE |-> 1, S_CADR_ADDRESS_ZIP |-> 1, S_CADR_ADDRESS_COUNTRY |-> 1,
    S_BADDR_ADDRESS |-> 7]

S_CALL_CENTER_Streams == [
    S_CALL_CENTER_ID |-> 1, S_CALL_CENTER_DIVISION_ID |-> 1, S_CALL_CENTER_OPEN_DATE |-> 1,
    S_CALL_CENTER_CLOSED_DATE |-> 0, S_CALL_CENTER_NAME |-> 0, S_CALL_CENTER_CLASS |-> 0,
    S_CALL_CENTER_EMPLOYEES |-> 1, S_CALL_CENTER_SQFT |-> 1, S_CALL_CENTER_HOURS |-> 1,
    S_CALL_CENTER_MANAGER_ID |-> 1, S_CALL_CENTER_MARKET_ID |-> 1,
    S_CALL_CENTER_ADDRESS_ID |-> 1, S_CALL_CENTER_TAX_PERCENTAGE |-> 1, S_CALL_CENTER_SCD |-> 1]

S_CATALOG_Streams == [
    S_CATALOG_NUMBER |-> 0, S_CATALOG_START_DATE |-> 1, S_CATALOG_END_DATE |-> 1,
    S_CATALOG_DESC |-> 10, S_CATALOG_TYPE |-> 1]

S_CATALOG_ORDER_Streams == [
    S_CORD_ID |-> 0, S_CORD_BILL_CUSTOMER_ID |-> 1, S_CORD_SHIP_CUSTOMER_ID |-> 2,
    S_CORD_ORDER_DATE |-> 1, S_CORD_ORDER_TIME |-> 1, S_CORD_SHIP_MODE_ID |-> 1,
    S_CORD_CALL_CENTER_ID |-> 1, S_CLIN_ITEM_ID |-> 1, S_CORD_COMMENT |-> 100]

S_CATALOG_ORDER_LINEITEM_Streams == [
    S_CLIN_ORDER_ID |-> 1, S_CLIN_LINE_NUMBER |-> 0, S_CLIN_PROMOTION_ID |-> 1,
    S_CLIN_QUANTITY |-> 1, S_CLIN_COUPON_AMT |-> 1, S_CLIN_WAREHOUSE_ID |-> 1,
    S_CLIN_SHIP_DATE |-> 1, S_CLIN_CATALOG_ID |-> 1, S_CLIN_CATALOG_PAGE_ID |-> 2,
    S_CLIN_PRICING |-> 8, S_CLIN_SHIP_COST |-> 0, S_CLIN_IS_RETURNED |-> 1, S_CLIN_PERMUTE |-> 0]

S_CATALOG_PAGE_Streams == [
    S_CATALOG_PAGE_CATALOG_NUMBER |-> 0, S_CATALOG_PAGE_NUMBER |-> 0,
    S_CATALOG_PAGE_DEPARTMENT |-> 1, S_CP_ID |-> 1, S_CP_START_DATE |-> 1, S_CP_END_DATE |-> 1,
    S_CP_DESCRIPTION |-> 100, S_CP_TYPE |-> 1]

S_CATALOG_PROMOTIONAL_ITEM_Streams == [
    S_CATALOG_PROMOTIONAL_ITEM_CATALOG_NUMBER |-> 1,
    S_CATALOG_PROMOTIONAL_ITEM_CATALOG_PAGE_NUMBER |-> 1,
    S_CATALOG_PROMOTIONAL_ITEM_ITEM_ID |-> 1, S_CATALOG_PROMOTIONAL_ITEM_PROMOTION_ID |-> 0]

S_CATALOG_RETURNS_Streams == [
    S_CRET_CALL_CENTER_ID |-> 9, S_CRET_ORDER_ID |-> 0, S_CRET_LINE_NUMBER |-> 0,
    S_CRET_ITEM_ID |-> 0, S_CRET_RETURN_CUSTOMER_ID |-> 0, S_CRET_REFUND_CUSTOMER_ID |-> 0,
    S_CRET_DATE |-> 9, S_CRET_TIME |-> 18, S_CRET_QUANTITY |-> 0, S_CRET_AMOUNT |-> 0,
    S_CRET_TAX |-> 0, S_CRET_FEE |-> 0, S_CRET_SHIP_COST |-> 0, S_CRET_REFUNDED_CASH |-> 0,
    S_CRET_REVERSED_CHARGE |-> 0, S_CRET_MERCHANT_CREDIT |-> 0, S_CRET_REASON_ID |-> 9,
    S_CRET_PRICING |-> 72, S_CRET_SHIPMODE_ID |-> 9, S_CRET_WAREHOUSE_ID |-> 9,
    S_CRET_CATALOG_PAGE_ID |-> 0]

S_CATEGORY_Streams == [
    S_CATEGORY_ID |-> 0, S_CATEGORY_NAME |-> 0, S_CATEGORY_DESC |-> 10]

S_CLASS_Streams == [
    S_CLASS_ID |-> 0, S_CLASS_SUBCAT_ID |-> 1, S_CLASS_DESC |-> 10]

S_COMPANY_Streams == [
    S_COMPANY_ID |-> 0, S_COMPANY_NAME |-> 0]

S_CUSTOMER_Streams == [
    S_CUST_ID |-> 0, S_CUST_SALUTATION |-> 1, S_CUST_LAST_NAME |-> 1, S_CUST_FIRST_NAME |-> 1,
    S_CUST_PREFERRED_FLAG |-> 1, S_CUST_BIRTH_DATE |-> 1, S_CUST_FIRST_PURCHASE_DATE |-> 1,
    S_CUST_FIRST_SHIPTO_DATE |-> 1, S_CUST_BIRTH_COUNTRY |-> 1, S_CUST_LOGIN |-> 25,
    S_CUST_EMAIL |-> 23, S_CUST_LAST_LOGIN |-> 1, S_CUST_LAST_REVIEW |-> 1,
    S_CUST_PRIMARY_MACHINE |-> 4, S_CUST_SECONDARY_MACHINE |-> 4, S_CUST_ADDRESS |-> 7,
    S_CUST_ADDRESS_STREET_NUM |-> 1, S_CUST_ADDRESS_STREET_NAME1 |-> 1,
    S_CUST_ADDRESS_STREET_NAME2 |-> 1, S_CUST_ADDRESS_STREET_TYPE |-> 1,
    S_CUST_ADDRESS_SUITE_NUM |-> 1, S_CUST_ADDRESS_CITY |-> 1, S_CUST_ADDRESS_ZIP |-> 1,
    S_CUST_ADDRESS_COUNTY |-> 1, S_CUST_ADDRESS_STATE |-> 1, S_CUST_ADDRESS_COUNTRY |-> 1,
    S_CUST_LOCATION_TYPE |-> 1, S_CUST_GENDER |-> 1, S_CUST_MARITAL_STATUS |-> 1,
    S_CUST_EDUCATION |-> 1, S_CUST_CREDIT_RATING |-> 1, S_CUST_PURCHASE_ESTIMATE |-> 1,
    S_CUST_BUY_POTENTIAL |-> 1, S_CUST_DEPENDENT_CNT |-> 1, S_CUST_EMPLOYED_CNT |-> 1,
    S_CUST_COLLEGE_CNT |-> 1, S_CUST_VEHICLE_CNT |-> 1, S_CUST_INCOME |-> 1]

S_DIVISION_Streams == [
    S_DIVISION_ID |-> 0, S_DIVISION_COMPANY |-> 0, S_DIVISION_NAME |-> 0]

S_INVENTORY_Streams == [
    S_INVN_WAREHOUSE |-> 1, S_INVN_ITEM |-> 1, S_INVN_DATE |-> 2, S_INVN_QUANTITY |-> 1]

S_ITEM_Streams == [
    S_ITEM_ID |-> 1, S_ITEM_PERMUTE |-> 0, S_ITEM_PRODUCT_ID |-> 1, S_ITEM_DESC |-> 200,
    S_ITEM_LIST_PRICE |-> 2, S_ITEM_WHOLESALE_COST |-> 1, S_ITEM_MANAGER_ID |-> 1,
    S_ITEM_SIZE |-> 1, S_ITEM_FORMULATION |-> 50, S_ITEM_FLAVOR |-> 1, S_ITEM_UNITS |-> 1,
    S_ITEM_CONTAINER |-> 1, S_ITEM_SCD |-> 1]

S_MANAGER_Streams == [
    S_MANAGER_ID |-> 0, S_MANAGER_NAME |-> 2]

S_MANUFACTURER_Streams == [
    S_MANUFACTURER_ID |-> 0, S_MANUFACTURER_NAME |-> 0]

S_MARKET_Streams == [
    S_MARKET_ID |-> 0, S_MARKET_CLASS_NAME |-> 0, S_MARKET_DESC |-> 10,
    S_MARKET_MANAGER_ID |-> 1]

S_PRODUCT_Streams == [
    S_PRODUCT_ID |-> 0, S_PRODUCT_BRAND_ID |-> 1, S_PRODUCT_NAME |-> 0, S_PRODUCT_TYPE |-> 1]

S_PROMOTION_Streams == [
    S_PROMOTION_ID |-> 1, S_PROMOTION_ITEM_ID |-> 1, S_PROMOTION_START_DATE |-> 1,
    S_PROMOTION_END_DATE |-> 1, S_PROMOTION_COST |-> 1, S_PROMOTION_RESPONSE_TARGET |-> 1,
    S_PROMOTION_DMAIL |-> 0, S_PROMOTION_EMAIL |-> 0, S_PROMOTION_CATALOG |-> 0,
    S_PROMOTION_TV |-> 0, S_PROMOTION_RADIO |-> 0, S_PROMOTION_PRESS |-> 0,
    S_PROMOTION_EVENT |-> 0, S_PROMOTION_DEMO |-> 0, S_PROMOTION_DETAILS |-> 100,
    S_PROMOTION_PURPOSE |-> 1, S_PROMOTION_DISCOUNT_ACTIVE |-> 1,
    S_PROMOTION_DISCOUNT_PCT |-> 1, S_PROMOTION_NAME |-> 0, S_PROMOTION_BITFIELD |-> 1]

S_PURCHASE_Streams == [
    S_PURCHASE_ID |-> 0, S_PURCHASE_STORE_ID |-> 1, S_PURCHASE_CUSTOMER_ID |-> 1,
    S_PURCHASE_DATE |-> 1, S_PURCHASE_TIME |-> 1, S_PURCHASE_REGISTER |-> 1,
    S_PURCHASE_CLERK |-> 1, S_PURCHASE_COMMENT |-> 100, S_PURCHASE_PRICING |-> 7,
    S_PLINE_ITEM_ID |-> 1]

S_PURCHASE_LINEITEM_Streams == [
    S_PLINE_PURCHASE_ID |-> 12, S_PLINE_NUMBER |-> 12, S_PLINE_PROMOTION_ID |-> 12,
    S_PLINE_SALE_PRICE |-> 12, S_PLINE_QUANTITY |-> 12, S_PLINE_COUPON_AMT |-> 12,
    S_PLINE_COMMENT |-> 1200, S_PLINE_PRICING |-> 96, S_PLINE_IS_RETURNED |-> 12,
    S_PLINE_PERMUTE |-> 0]

S_REASON_Streams == [
    S_REASON_ID |-> 0, S_REASON_DESC |-> 10]

S_STORE_Streams == [
    S_STORE_ID |-> 1, S_STORE_ADDRESS_ID |-> 1, S_STORE_DIVISION_ID |-> 1,
    S_STORE_OPEN_DATE |-> 1, S_STORE_CLOSE_DATE |-> 1, S_STORE_NAME |-> 0, S_STORE_CLASS |-> 0,
    S_STORE_EMPLOYEES |-> 1, S_STORE_FLOOR_SPACE |-> 1, S_STORE_HOURS |-> 1,
    S_STORE_MARKET_MANAGER_ID |-> 0, S_STORE_MANAGER_ID |-> 1, S_STORE_MARKET_ID |-> 1,
    S_STORE_GEOGRAPHY_CLASS |-> 1, S_STORE_TAX_PERCENTAGE |-> 1]

S_STORE_PROMOTIONAL_ITEM_Streams == [
    S_SITM_PROMOTION_ID |-> 1, S_SITM_ITEM_ID |-> 1, S_SITM_STORE_ID |-> 1]

S_STORE_RETURNS_Streams == [
    S_SRET_STORE_ID |-> 0, S_SRET_PURCHASE_ID |-> 0, S_SRET_LINENUMBER |-> 0,
    S_SRET_ITEM_ID |-> 0, S_SRET_CUSTOMER_ID |-> 0, S_SRET_RETURN_DATE |-> 24,
    S_SRET_RETURN_TIME |-> 12, S_SRET_TICKET_NUMBER |-> 0, S_SRET_RETURN_QUANTITY |-> 0,
    S_SRET_RETURN_AMT |-> 0, S_SRET_RETURN_TAX |-> 0, S_SRET_RETURN_FEE |-> 0,
    S_SRET_RETURN_SHIP_COST |-> 0, S_SRET_REFUNDED_CASH |-> 0, S_SRET_REVERSED_CHARGE |-> 0,
    S_SRET_MERCHANT_CREDIT |-> 0, S_SRET_REASON_ID |-> 12, S_SRET_PRICING |-> 84]

S_SUBCATEGORY_Streams == [
    S_SBCT_ID |-> 0, S_SBCT_CATEGORY_ID |-> 1, S_SBCT_NAME |-> 0, S_SBCT_DESC |-> 10]

S_SUBCLASS_Streams == [
    S_SUBC_ID |-> 0, S_SUBC_CLASS_ID |-> 1, S_SUBC_NAME |-> 0, S_SUBC_DESC |-> 10]

S_WAREHOUSE_Streams == [
    S_WRHS_ID |-> 1, S_WRHS_DESC |-> 10, S_WRHS_SQFT |-> 1, S_WRHS_ADDRESS_ID |-> 1]

S_WEB_ORDER_Streams == [
    S_WORD_ID |-> 1, S_WORD_BILL_CUSTOMER_ID |-> 1, S_WORD_SHIP_CUSTOMER_ID |-> 2,
    S_WORD_ORDER_DATE |-> 1, S_WORD_ORDER_TIME |-> 1, S_WORD_SHIP_MODE_ID |-> 1,
    S_WORD_WEB_SITE_ID |-> 1, S_WORD_COMMENT |-> 100, S_WLIN_ITEM_ID |-> 1]

S_WEB_ORDER_LINEITEM_Streams == [
    S_WLIN_ID |-> 12, S_WLIN_LINE_NUMBER |-> 0, S_WLIN_PROMOTION_ID |-> 12,
    S_WLIN_QUANTITY |-> 12, S_WLIN_COUPON_AMT |-> 12, S_WLIN_WAREHOUSE_ID |-> 12,
    S_WLIN_SHIP_DATE |-> 12, S_WLIN_WEB_PAGE_ID |-> 12, S_WLIN_PRICING |-> 96,
    S_WLIN_SHIP_COST |-> 0, S_WLIN_IS_RETURNED |-> 12, S_WLIN_PERMUTE |-> 0]

S_WEB_PAGE_Streams == [
    S_WPAG_SITE_ID |-> 1, S_WPAG_ID |-> 1, S_WPAG_CREATE_DATE |-> 1, S_WPAG_ACCESS_DATE |-> 1,
    S_WPAG_AUTOGEN_FLAG |-> 1, S_WPAG_DEPARTMENT |-> 1, S_WPAG_URL |-> 1, S_WPAG_TYPE |-> 1,
    S_WPAG_CHAR_CNT |-> 1, S_WPAG_LINK_CNT |-> 1, S_WPAG_IMAGE_CNT |-> 1,
    S_WPAG_MAX_AD_CNT |-> 1, S_WPAG_PERMUTE |-> 0]

S_WEB_PROMOTIONAL_ITEM_Streams == [
    S_WITM_SITE_ID |-> 1, S_WITM_PAGE_ID |-> 1, S_WITM_ITEM_ID |-> 1, S_WITM_PROMOTION_ID |-> 1]

S_WEB_RETURNS_Streams == [
    S_WRET_SITE_ID |-> 0, S_WRET_ORDER_ID |-> 0, S_WRET_LINE_NUMBER |-> 0, S_WRET_ITEM_ID |-> 0,
    S_WRET_RETURN_CUST_ID |-> 0, S_WRET_REFUND_CUST_ID |-> 0, S_WRET_RETURN_DATE |-> 24,
    S_WRET_RETURN_TIME |-> 12, S_WRET_REASON_ID |-> 12, S_WRET_PRICING |-> 84]

S_WEB_SITE_Streams == [
    S_WSIT_ID |-> 1, S_WSIT_OPEN_DATE |-> 1, S_WSIT_CLOSE_DATE |-> 1, S_WSIT_NAME |-> 0,
    S_WSIT_ADDRESS_ID |-> 1, S_WSIT_DIVISION_ID |-> 1, S_WSIT_CLASS |-> 1,
    S_WSIT_MANAGER_ID |-> 1, S_WSIT_MARKET_ID |-> 1, S_WSIT_TAX_PERCENTAGE |-> 1]

S_ZIPG_Streams == [
    S_ZIPG_ZIP |-> 0, S_ZIPG_GMT |-> 0]

\* nDuplicateOf, of the streams that do not stand for themselves.
Duplicates == [
    CP_DESCRIPTION |-> "S_CP_DESCRIPTION", I_ITEM_DESC |-> "S_ITEM_DESC",
    S_BADDR_ADDRESS |-> "CA_ADDRESS", S_CP_DESCRIPTION |-> "CP_DESCRIPTION",
    S_ITEM_DESC |-> "I_ITEM_DESC", S_ITEM_LIST_PRICE |-> "I_CURRENT_PRICE",
    S_ITEM_WHOLESALE_COST |-> "I_WHOLESALE_COST", S_ITEM_MANAGER_ID |-> "I_MANAGER_ID",
    S_ITEM_SIZE |-> "I_SIZE", S_ITEM_FORMULATION |-> "I_FORMULATION",
    S_ITEM_FLAVOR |-> "I_COLOR", S_ITEM_UNITS |-> "I_UNITS", S_ITEM_CONTAINER |-> "I_CONTAINER",
    S_ITEM_SCD |-> "I_SCD", S_PROMOTION_DETAILS |-> "P_CHANNEL_DETAILS"]

=============================================================================
