---------------------------- MODULE DsdgenPricing ----------------------------
(***************************************************************************)
(* The prices of a sale and of its return: pricing.c over the decimals of  *)
(* decimal.c.  A row of a sales table draws its prices; a return copies    *)
(* the prices of the sale, takes a part of the quantity and prices it      *)
(* again.  Amounts are whole cents.                                        *)
(***************************************************************************)
EXTENDS Integers

CONSTANT Tried(_, _)    \* the draws of a run between the two ends of a range

VARIABLES payStage,     \* "idle", "start", "sold", "returned"
          payTable,     \* the table of the sale
          paySold,      \* the pricing of its global row
          payReturned   \* the pricing of the return's

pricingVars == <<payStage, payTable, paySold, payReturned>>
-----------------------------------------------------------------------------
\* The decimals: a number with "places" digits after its point.
strtodec(negative, whole, fraction, places) ==
    LET number == (IF negative THEN -whole ELSE whole) * 10^places + fraction
    IN IF negative /\ number > 0 THEN -number ELSE number
itodec(number) == number
plus(a, b) == a + b
minus(a, b) == a - b
mult0(a, b) == a * b
mult2(a, b) == IF a * b < 0 THEN -((-(a * b)) \div 100) ELSE (a * b) \div 100

decimalDraws(low, high) == {n \in Tried(low, high) : n \in low..high}
integerDraws(low, high) == {n \in Tried(low, high) : n \in low..high}

\* A number as the printer writes it: its sign, whole part and two digits.
format_decimal(number) ==
    LET v == IF number < 0 THEN -number ELSE number
    IN <<number < 0, v \div 100, (v % 100) \div 10, v % 10>>
-----------------------------------------------------------------------------
SaleTables == {"CS", "SS", "WS", "S_PLINE", "S_CLIN", "S_WLIN"}
SourceTables == {"S_PLINE", "S_CLIN", "S_WLIN"}

Limits(markup) ==
    [quantity |-> 100, markup |-> markup, discount |-> strtodec(FALSE, 1, 0, 2),
     wholesale |-> strtodec(FALSE, 100, 0, 2)]
\* The limits of a table; source lines have those of the web.
aPriceLimits(table) == Limits(strtodec(FALSE, IF table = "SS" THEN 1 ELSE 2, 0, 2))

dOne == strtodec(FALSE, 1, 0, 2)
dOneHalf == strtodec(FALSE, 0, 50, 2)
d9pct == strtodec(FALSE, 0, 9, 2)
dHundred == strtodec(FALSE, 100, 0, 2)

\* What the customer pays: the fields that follow from net_paid on both sides.
Paid(old, net_paid, ext_ship, tax_pct, ext_wholesale) ==
    LET inc_ship == plus(net_paid, ext_ship)
        ext_tax == mult2(net_paid, tax_pct)
    IN [old EXCEPT
          !.net_paid = net_paid, !.ext_ship_cost = ext_ship, !.net_paid_inc_ship = inc_ship,
          !.ext_tax = ext_tax, !.net_paid_inc_tax = plus(net_paid, ext_tax),
          !.net_paid_inc_ship_tax = plus(inc_ship, ext_tax),
          !.net_profit = minus(net_paid, ext_wholesale)]

\* The branch of set_pricing for a sale, over the pricing "old" of the row.
set_sale_pricing(old, d) ==
    LET q == itodec(d.quantity)
        list == mult2(d.wholesale, plus(d.markup, dOne))
        sales == mult2(list, plus(-d.discount, dOne))
        ext_list == mult0(list, q)
        ext_sales == mult0(sales, q)
        ext_wholesale == mult0(q, d.wholesale)
        coupon == IF d.usage <= 20 THEN mult2(ext_sales, d.coupon) ELSE 0
        ship == mult2(list, d.ship)
    IN [Paid(old, minus(ext_sales, coupon), mult0(ship, q), d.tax, ext_wholesale) EXCEPT
          !.quantity = d.quantity, !.wholesale_cost = d.wholesale,
          !.ext_wholesale_cost = ext_wholesale, !.list_price = list, !.sales_price = sales,
          !.ext_list_price = ext_list, !.ext_sales_price = ext_sales,
          !.ext_discount_amt = minus(ext_list, ext_sales), !.coupon_amt = coupon,
          !.ship_cost = ship, !.tax_pct = d.tax]

SaleDraws(limits) ==
    [quantity : integerDraws(1, limits.quantity),
     wholesale : decimalDraws(dOne, limits.wholesale),
     markup : decimalDraws(0, limits.markup), discount : decimalDraws(0, limits.discount),
     coupon : decimalDraws(0, dOne), usage : {20, 21} \cap (1..100),
     ship : decimalDraws(0, dOneHalf), tax : decimalDraws(0, d9pct)]

reversed_OfAll(net_paid, cash, pct) == mult2(net_paid, pct)
\* The part of a refund that goes back to the card: of what cash leaves.
reversed(net_paid, cash, pct) == mult2(minus(net_paid, cash), itodec(pct))

\* The branch for a return; the quantity is in the pricing it is called with.
set_return_pricing(old, d) ==
    LET q == itodec(old.quantity)
        ext_wholesale == mult0(q, old.wholesale_cost)
        ext_sales == mult0(old.sales_price, q)
        ship == mult2(old.list_price, d.ship)
        paid == Paid(old, ext_sales, mult0(ship, q), old.tax_pct, ext_wholesale)
        cash == mult2(itodec(d.cash), ext_sales)
        charge == reversed(ext_sales, cash, d.credit)
        credit == minus(minus(ext_sales, charge), cash)
        loss == minus(minus(minus(paid.net_paid_inc_ship_tax, credit), cash), charge)
    IN [paid EXCEPT
          !.ext_wholesale_cost = ext_wholesale, !.ext_list_price = mult0(old.list_price, q),
          !.ext_sales_price = ext_sales, !.ship_cost = ship, !.refunded_cash = cash,
          !.reversed_charge = charge, !.store_credit = credit, !.fee = d.fee,
          !.net_loss = plus(loss, d.fee)]

ReturnDraws ==
    [ship : decimalDraws(0, dOneHalf), cash : integerDraws(0, 100),
     credit : integerDraws(1, 100), fee : decimalDraws(dOneHalf, dHundred)]
-----------------------------------------------------------------------------
\* ds_pricing_t, and a global row before anything is built.
pricingFields == {
    "quantity", "wholesale_cost", "list_price", "sales_price", "ext_discount_amt",
    "ext_sales_price", "ext_wholesale_cost", "ext_list_price", "tax_pct", "ext_tax",
    "coupon_amt", "ship_cost", "ext_ship_cost", "net_paid", "net_paid_inc_tax",
    "net_paid_inc_ship", "net_paid_inc_ship_tax", "net_profit", "refunded_cash",
    "reversed_charge", "store_credit", "fee", "net_loss"}
Blank == [f \in pricingFields |-> 0]

PricingInit ==
    /\ payStage = "start"
    /\ payTable \in SaleTables
    /\ paySold = Blank
    /\ payReturned = Blank

PricingIdle ==
    /\ payStage = "idle"
    /\ payTable = "none"
    /\ paySold = <<>>
    /\ payReturned = <<>>

\* mk_w_*_sales and the source lines price their row.
SellRow ==
    /\ payStage = "start"
    /\ \E d \in SaleDraws(aPriceLimits(payTable)) : paySold' = set_sale_pricing(paySold, d)
    /\ payStage' = "sold"
    /\ UNCHANGED <<payTable, payReturned>>

\* The return takes over the whole pricing and draws its own quantity.
Copied(sold, quantity) == [sold EXCEPT !.quantity = quantity]
Quantities(sold) ==
    IF sold.quantity # -1 THEN integerDraws(1, sold.quantity) ELSE {-1}

\* mk_w_*_returns: the copy is priced again.
ReturnRow ==
    /\ payStage = "sold"
    /\ payTable \notin SourceTables
    /\ \E quantity \in Quantities(paySold), d \in ReturnDraws :
          payReturned' = set_return_pricing(Copied(paySold, quantity), d)
    /\ payStage' = "returned"
    /\ UNCHANGED <<payTable, paySold>>

\* mk_s_*_returns: set_pricing has no case for the returns of source lines.
ReturnSourceRow ==
    /\ payStage = "sold"
    /\ payTable \in SourceTables
    /\ \E quantity \in Quantities(paySold) : payReturned' = Copied(paySold, quantity)
    /\ payStage' = "returned"
    /\ UNCHANGED <<payTable, paySold>>

PricingNext == SellRow \/ ReturnRow \/ ReturnSourceRow

\* What the part does in a run of DsdgenValues.
PricingSpec == (PricingInit \/ PricingIdle) /\ [][PricingNext]_pricingVars
-----------------------------------------------------------------------------
SaleAddsUp(p) ==
    /\ 0 <= p.coupon_amt /\ p.coupon_amt <= p.ext_sales_price
    /\ p.ext_sales_price <= p.ext_list_price /\ p.ext_wholesale_cost <= p.ext_list_price
    /\ p.ext_list_price =
          p.ext_wholesale_cost + p.net_profit + p.coupon_amt + p.ext_discount_amt
    /\ p.net_paid_inc_ship_tax = p.net_paid_inc_tax + p.ext_ship_cost
    /\ p.net_loss = 0 /\ p.fee = 0

ReturnAddsUp(p, sold) ==
    /\ p.refunded_cash >= 0 /\ p.reversed_charge >= 0 /\ p.store_credit >= 0
    /\ p.refunded_cash + p.reversed_charge + p.store_credit = p.net_paid
    /\ p.net_loss = p.ext_ship_cost + p.ext_tax + p.fee
    /\ 1 <= p.quantity /\ p.quantity <= sold.quantity /\ p.net_paid <= sold.ext_sales_price
    /\ p.quantity = sold.quantity /\ sold.coupon_amt = 0 =>
          \A f \in {"net_paid", "ext_tax", "net_paid_inc_tax", "net_profit"} : p[f] = sold[f]

\* The number that a reader of the printed text gets.
ReadBack(text) == (IF text[1] THEN -1 ELSE 1) * (100 * text[2] + 10 * text[3] + text[4])

\* The amounts of a sale add up to its list price and to what is paid; "the
\* returned amounts add up to the total returned" (pricing.c:243), no part of
\* a refund is negative, the loss of a return is its shipping, tax and fee, and
\* a return of all of a sale without coupon undoes its payment, tax and profit.
\* The text of every amount, a loss among them, reads as the amount.
AmountsAddUp ==
    /\ payStage \in {"sold", "returned"} => SaleAddsUp(paySold)
    /\ payStage = "returned" /\ payTable \notin SourceTables => ReturnAddsUp(payReturned, paySold)
    /\ \A p \in {paySold, payReturned} : \A f \in DOMAIN p : ReadBack(format_decimal(p[f])) = p[f]
=============================================================================
