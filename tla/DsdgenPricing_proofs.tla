------------------------ MODULE DsdgenPricing_proofs ------------------------
(* Proofs about the prices of dsdgen, for every draw and not only for those   *)
(* that a run tries: the amounts of a sale and of its return add up, and the  *)
(* printed text of an amount reads as the amount.                             *)
EXTENDS DsdgenPricing, TLAPS

-----------------------------------------------------------------------------
(* Decimals.                                                                 *)

LEMMA Limits_Of ==
    ASSUME NEW table
    PROVE  /\ dOne = 100 /\ dOneHalf = 50 /\ d9pct = 9 /\ dHundred = 10000
           /\ aPriceLimits(table).quantity = 100 /\ aPriceLimits(table).discount = 100
           /\ aPriceLimits(table).wholesale = 10000
           /\ aPriceLimits(table).markup \in {100, 200}
<1>1. 10^2 = 100 BY SMT
<1>2. QED
  BY <1>1 DEF dOne, dOneHalf, d9pct, dHundred, aPriceLimits, Limits, strtodec

LEMMA ProductType == ASSUME NEW a \in Int, NEW b \in Int PROVE a * b \in Int
  BY SMT

LEMMA ProductNat == ASSUME NEW a \in Nat, NEW b \in Nat PROVE a * b \in Nat
  BY SMT

LEMMA ProductMonotone ==
    ASSUME NEW a \in Nat, NEW b \in Nat, NEW k \in Nat, a <= b
    PROVE  a * k <= b * k /\ k * a <= k * b
  BY SMT

LEMMA ProductSwap == ASSUME NEW a \in Nat, NEW b \in Nat PROVE a * b = b * a
  BY SMT

\* A product rounded towards 0 to two digits.
LEMMA MultType == ASSUME NEW a \in Int, NEW b \in Int PROVE mult2(a, b) \in Int
<1>1. PICK x \in Int : x = a * b BY ProductType
<1>2. QED BY <1>1 DEF mult2

LEMMA MultNat ==
    ASSUME NEW a \in Nat, NEW b \in Nat
    PROVE  mult2(a, b) \in Nat /\ mult2(a, b) = (a * b) \div 100
<1>1. PICK x \in Nat : x = a * b BY ProductNat
<1>2. QED BY <1>1 DEF mult2

\* A percentage of an amount is a part of it.
LEMMA PartOf ==
    ASSUME NEW a \in Nat, NEW b \in 0..100 PROVE mult2(a, b) \in 0..a /\ mult2(b, a) \in 0..a
<1>1. PICK x \in Nat : x = a * b BY ProductNat
<1>2. x <= a * 100 BY <1>1, ProductMonotone
<1>3. mult2(a, b) \in Nat /\ mult2(a, b) = x \div 100
  <2>1. b \in Nat OBVIOUS
  <2>2. QED BY <1>1, <2>1, MultNat
<1>4. mult2(b, a) = mult2(a, b) BY <1>1, ProductSwap DEF mult2
<1>5. x \div 100 <= a BY <1>2
<1>6. QED BY <1>3, <1>4, <1>5

\* One and a part of an amount is no less than the amount.
LEMMA MoreThan == ASSUME NEW a \in Nat, NEW b \in Nat, b >= 100 PROVE mult2(a, b) >= a
<1>1. PICK x \in Nat : x = a * b BY ProductNat
<1>2. a * 100 <= x BY <1>1, ProductMonotone
<1>3. mult2(a, b) = x \div 100 BY <1>1, MultNat
<1>4. QED BY <1>2, <1>3

\* The text of a number reads as the number.
LEMMA TextIsRead == ASSUME NEW n \in Int PROVE ReadBack(format_decimal(n)) = n
<1> DEFINE v == IF n < 0 THEN -n ELSE n
<1>1. PICK h \in Int, t \in Int, u \in Int : h = v \div 100 /\ t = (v % 100) \div 10 /\ u = v % 10
  OBVIOUS
<1>2. v = 100 * h + 10 * t + u BY <1>1
<1>3. CASE n < 0
  <2>1. format_decimal(n) = <<TRUE, h, t, u>> BY <1>1, <1>3 DEF format_decimal
  <2>2. ReadBack(<<TRUE, h, t, u>>) = (-1) * (100 * h + 10 * t + u) BY DEF ReadBack
  <2>3. QED BY <1>2, <1>3, <2>1, <2>2
<1>4. CASE ~(n < 0)
  <2>0. (n < 0) = FALSE BY <1>4
  <2>1. format_decimal(n) = <<FALSE, h, t, u>>
    <3>1. format_decimal(n) = <<n < 0, h, t, u>> BY <1>1, Zenon DEF format_decimal
    <3>2. QED BY <2>0, <3>1, Zenon
  <2>2. ReadBack(<<FALSE, h, t, u>>) = 1 * (100 * h + 10 * t + u) BY DEF ReadBack
  <2>3. QED BY <1>2, <1>4, <2>1, <2>2
<1>5. QED BY <1>3, <1>4

-----------------------------------------------------------------------------
(* The pricing of a sale.                                                    *)

Pricings == [pricingFields -> Int]

LEMMA DrawType ==
    ASSUME NEW low \in Nat, NEW high \in Nat
    PROVE  /\ \A n \in decimalDraws(low, high) : n \in Nat /\ n >= low /\ n <= high
           /\ \A n \in integerDraws(low, high) : n \in Nat /\ n >= low /\ n <= high
  BY DEF decimalDraws, integerDraws

LEMMA SaleDrawsType ==
    ASSUME NEW table, NEW d \in SaleDraws(aPriceLimits(table))
    PROVE  /\ d.quantity \in Nat \ {0} /\ d.wholesale \in Nat /\ d.markup \in Nat
           /\ d.discount \in 0..100 /\ d.coupon \in 0..100 /\ d.usage \in Int
           /\ d.ship \in Nat /\ d.tax \in Nat
<1>1. PICK top \in Nat, rise \in Nat :
        top = aPriceLimits(table).wholesale /\ rise = aPriceLimits(table).markup
  BY Limits_Of
<1>2. /\ d.quantity \in integerDraws(1, 100) /\ d.wholesale \in decimalDraws(100, top)
      /\ d.markup \in decimalDraws(0, rise)
      /\ d.discount \in decimalDraws(0, 100) /\ d.coupon \in decimalDraws(0, 100)
      /\ d.usage \in {20, 21} /\ d.ship \in decimalDraws(0, 50) /\ d.tax \in decimalDraws(0, 9)
  BY <1>1, Limits_Of DEF SaleDraws
<1>3. d.quantity \in Nat \ {0} BY <1>2, DrawType
<1>4. d.wholesale \in Nat /\ d.markup \in Nat BY <1>1, <1>2, DrawType
<1>5. d.ship \in Nat /\ d.tax \in Nat BY <1>2, DrawType
<1>6. d.discount \in 0..100 /\ d.coupon \in 0..100 BY <1>2 DEF decimalDraws
<1>7. d.usage \in Int BY <1>2
<1>8. QED BY <1>3, <1>4, <1>5, <1>6, <1>7

\* The amounts of a sale, by the prices and the quantity it has drawn.
SoldAs(p, d, list, sales, coupon) ==
    /\ p.quantity = d.quantity /\ p.wholesale_cost = d.wholesale
    /\ p.list_price = list /\ p.sales_price = sales /\ p.tax_pct = d.tax
    /\ p.ext_list_price = list * d.quantity /\ p.ext_sales_price = sales * d.quantity
    /\ p.ext_wholesale_cost = d.quantity * d.wholesale
    /\ p.ext_discount_amt = list * d.quantity - sales * d.quantity
    /\ p.coupon_amt = coupon
    /\ p.net_paid = sales * d.quantity - coupon
    /\ p.ext_ship_cost = mult2(list, d.ship) * d.quantity
    /\ p.ext_tax = mult2(sales * d.quantity - coupon, d.tax)
    /\ p.net_paid_inc_tax = p.net_paid + p.ext_tax
    /\ p.net_paid_inc_ship = p.net_paid + p.ext_ship_cost
    /\ p.net_paid_inc_ship_tax = p.net_paid + p.ext_ship_cost + p.ext_tax
    /\ p.net_profit = p.net_paid - p.ext_wholesale_cost
    /\ p.ship_cost = mult2(list, d.ship)
    /\ \A f \in {"refunded_cash", "reversed_charge", "store_credit", "fee", "net_loss"} : p[f] = 0

LEMMA PaidFields ==
    ASSUME NEW old \in Pricings, NEW n \in Int, NEW s \in Int, NEW t \in Int, NEW w \in Int
    PROVE  LET p == Paid(old, n, s, t, w) IN
           /\ DOMAIN p = pricingFields
           /\ p.net_paid = n /\ p.ext_ship_cost = s /\ p.net_paid_inc_ship = n + s
           /\ p.ext_tax = mult2(n, t) /\ p.net_paid_inc_tax = n + mult2(n, t)
           /\ p.net_paid_inc_ship_tax = n + s + mult2(n, t) /\ p.net_profit = n - w
           /\ \A f \in pricingFields \ {"net_paid", "ext_ship_cost", "net_paid_inc_ship", "ext_tax",
                   "net_paid_inc_tax", "net_paid_inc_ship_tax", "net_profit"} : p[f] = old[f]
           /\ p \in Pricings
<1>1. PICK x \in Int : x = mult2(n, t) BY MultType
<1>2. PICK p : p = Paid(old, n, s, t, w) OBVIOUS
<1>3. p = [old EXCEPT !.net_paid = n, !.ext_ship_cost = s, !.net_paid_inc_ship = n + s,
              !.ext_tax = x, !.net_paid_inc_tax = n + x,
              !.net_paid_inc_ship_tax = n + s + x, !.net_profit = n - w]
  BY <1>1, <1>2 DEF Paid, plus, minus
<1>4. DOMAIN old = pricingFields BY DEF Pricings
<1>5. DOMAIN p = pricingFields BY <1>3, <1>4
<1>6. /\ p.net_paid = n /\ p.ext_ship_cost = s /\ p.net_paid_inc_ship = n + s
      /\ p.ext_tax = x /\ p.net_paid_inc_tax = n + x
      /\ p.net_paid_inc_ship_tax = n + s + x /\ p.net_profit = n - w
  BY <1>3, <1>4 DEF pricingFields
<1>7. \A f \in pricingFields \ {"net_paid", "ext_ship_cost", "net_paid_inc_ship", "ext_tax",
            "net_paid_inc_tax", "net_paid_inc_ship_tax", "net_profit"} : p[f] = old[f]
  BY <1>3, <1>4
<1>8. p \in Pricings
  <2>1. \A f \in pricingFields : old[f] \in Int BY DEF Pricings
  <2>2. \A f \in pricingFields : p[f] \in Int
    BY <1>6, <1>7, <2>1
  <2>3. p = [f \in pricingFields |-> p[f]] BY <1>3, <1>4
  <2>4. QED BY <2>2, <2>3 DEF Pricings
<1>9. QED BY <1>1, <1>2, <1>5, <1>6, <1>7, <1>8

\* The prices of a sale: the list price is no less than the cost, the sales
\* price no more than the list price, and a coupon no more than the sale.
LEMMA SalePrices ==
    ASSUME NEW table, NEW d \in SaleDraws(aPriceLimits(table))
    PROVE  \E list \in Nat, sales \in Nat, coupon \in Nat :
             /\ d.wholesale <= list /\ sales <= list /\ coupon <= sales * d.quantity
             /\ SoldAs(set_sale_pricing(Blank, d), d, list, sales, coupon)
             /\ set_sale_pricing(Blank, d) \in Pricings
<1>1. /\ d.quantity \in Nat \ {0} /\ d.wholesale \in Nat /\ d.markup \in Nat
      /\ d.discount \in 0..100 /\ d.coupon \in 0..100 /\ d.usage \in Int
      /\ d.ship \in Nat /\ d.tax \in Nat
  BY SaleDrawsType
<1>2. dOne = 100 BY Limits_Of
<1>3. PICK list : list = mult2(d.wholesale, plus(d.markup, dOne)) OBVIOUS
<1>4. list \in Nat /\ d.wholesale <= list
  <2>1. d.wholesale \in Nat /\ plus(d.markup, dOne) \in Nat /\ plus(d.markup, dOne) >= 100
    BY <1>1, <1>2 DEF plus
  <2>2. QED BY <1>3, <2>1, MultNat, MoreThan
<1>5. PICK sales : sales = mult2(list, plus(-d.discount, dOne)) OBVIOUS
<1>6. sales \in Nat /\ sales <= list
  <2>1. plus(-d.discount, dOne) \in 0..100 BY <1>1, <1>2 DEF plus
  <2>2. sales \in 0..list BY <1>4, <1>5, <2>1, PartOf
  <2>3. QED BY <1>4, <2>2
<1>7. d.quantity \in Nat /\ d.wholesale \in Nat /\ d.ship \in Int /\ d.tax \in Int BY <1>1
<1>8. PICK ext : ext = sales * d.quantity OBVIOUS
<1>9. PICK total, cost : total = list * d.quantity /\ cost = d.quantity * d.wholesale OBVIOUS
<1>10. ext \in Nat /\ total \in Nat /\ cost \in Nat
  BY <1>4, <1>6, <1>7, <1>8, <1>9, ProductNat
<1>11. PICK coupon : coupon = IF d.usage <= 20 THEN mult2(ext, d.coupon) ELSE 0 OBVIOUS
<1>12. coupon \in Nat /\ coupon <= ext
  <2>1. mult2(ext, d.coupon) \in 0..ext BY <1>1, <1>10, PartOf
  <2>2. QED BY <1>10, <1>11, <2>1
<1>13. PICK ship : ship = mult2(list, d.ship) OBVIOUS
<1>14. PICK shipping : shipping = ship * d.quantity OBVIOUS
<1>15. ship \in Int /\ shipping \in Int
  <2>1. ship \in Int
    <3>1. list \in Int BY <1>4
    <3>2. QED BY <1>7, <1>13, <3>1, MultType
  <2>2. d.quantity \in Int BY <1>7
  <2>3. QED BY <1>14, <2>1, <2>2, ProductType
<1>16. PICK paid : paid = Paid(Blank, ext - coupon, shipping, d.tax, cost) OBVIOUS
<1>17. Blank \in Pricings BY DEF Blank, Pricings
<1>18. ext - coupon \in Int BY <1>10, <1>12
<1>19. /\ DOMAIN paid = pricingFields
       /\ paid.net_paid = ext - coupon /\ paid.ext_ship_cost = shipping
       /\ paid.net_paid_inc_ship = (ext - coupon) + shipping
       /\ paid.ext_tax = mult2(ext - coupon, d.tax)
       /\ paid.net_paid_inc_tax = (ext - coupon) + mult2(ext - coupon, d.tax)
       /\ paid.net_paid_inc_ship_tax = (ext - coupon) + shipping + mult2(ext - coupon, d.tax)
       /\ paid.net_profit = (ext - coupon) - cost
       /\ \A f \in pricingFields \ {"net_paid", "ext_ship_cost", "net_paid_inc_ship", "ext_tax",
                   "net_paid_inc_tax", "net_paid_inc_ship_tax", "net_profit"} : paid[f] = Blank[f]
       /\ paid \in Pricings
  BY <1>7, <1>10, <1>15, <1>16, <1>17, <1>18, PaidFields
<1>20. PICK p : p = set_sale_pricing(Blank, d) OBVIOUS
<1>21. p = [paid EXCEPT
             !.quantity = d.quantity, !.wholesale_cost = d.wholesale,
             !.ext_wholesale_cost = cost, !.list_price = list, !.sales_price = sales,
             !.ext_list_price = total, !.ext_sales_price = ext,
             !.ext_discount_amt = total - ext, !.coupon_amt = coupon,
             !.ship_cost = ship, !.tax_pct = d.tax]
  BY <1>3, <1>5, <1>8, <1>9, <1>11, <1>13, <1>14, <1>16, <1>20, Zenon
  DEF set_sale_pricing, itodec, mult0, minus
<1>22. /\ p.quantity = d.quantity /\ p.wholesale_cost = d.wholesale
       /\ p.ext_wholesale_cost = cost /\ p.list_price = list /\ p.sales_price = sales
       /\ p.ext_list_price = total /\ p.ext_sales_price = ext
       /\ p.ext_discount_amt = total - ext /\ p.coupon_amt = coupon
       /\ p.ship_cost = ship /\ p.tax_pct = d.tax
  BY <1>19, <1>21 DEF pricingFields
<1>23. \A f \in pricingFields \ {"quantity", "wholesale_cost", "ext_wholesale_cost", "list_price",
            "sales_price", "ext_list_price", "ext_sales_price", "ext_discount_amt", "coupon_amt",
            "ship_cost", "tax_pct"} : p[f] = paid[f]
  BY <1>19, <1>21
<1>24. p \in Pricings
  <2>1. \A f \in pricingFields : paid[f] \in Int BY <1>19 DEF Pricings
  <2>2. /\ d.quantity \in Int /\ d.wholesale \in Int /\ cost \in Int /\ list \in Int /\ sales \in Int
        /\ total \in Int /\ ext \in Int /\ total - ext \in Int /\ coupon \in Int
    BY <1>4, <1>6, <1>7, <1>10, <1>12
  <2>3. \A f \in pricingFields : p[f] \in Int BY <1>7, <1>15, <1>22, <1>23, <2>1, <2>2
  <2>4. p = [f \in pricingFields |-> p[f]] BY <1>19, <1>21
  <2>5. QED BY <2>3, <2>4 DEF Pricings
<1>25. \A f \in {"refunded_cash", "reversed_charge", "store_credit", "fee", "net_loss"} : p[f] = 0
  BY <1>19, <1>23 DEF Blank, pricingFields
<1>26. /\ p.net_paid = paid.net_paid /\ p.ext_ship_cost = paid.ext_ship_cost
       /\ p.net_paid_inc_ship = paid.net_paid_inc_ship /\ p.ext_tax = paid.ext_tax
       /\ p.net_paid_inc_tax = paid.net_paid_inc_tax
       /\ p.net_paid_inc_ship_tax = paid.net_paid_inc_ship_tax /\ p.net_profit = paid.net_profit
  BY <1>23 DEF pricingFields
<1>27. SoldAs(p, d, list, sales, coupon)
  BY <1>8, <1>9, <1>13, <1>14, <1>19, <1>22, <1>25, <1>26, Zenon DEF SoldAs
<1>28. QED BY <1>4, <1>6, <1>8, <1>12, <1>20, <1>24, <1>27

LEMMA SaleSum ==
    ASSUME NEW table, NEW d \in SaleDraws(aPriceLimits(table))
    PROVE  SaleAddsUp(set_sale_pricing(Blank, d))
<1>1. PICK p : p = set_sale_pricing(Blank, d) OBVIOUS
<1>2. PICK list \in Nat, sales \in Nat, coupon \in Nat :
             /\ d.wholesale <= list /\ sales <= list /\ coupon <= sales * d.quantity
             /\ SoldAs(p, d, list, sales, coupon) /\ p \in Pricings
  BY <1>1, SalePrices
<1>3. d.quantity \in Nat /\ d.wholesale \in Nat BY SaleDrawsType
<1>4. PICK ext \in Nat, total \in Nat, cost \in Nat :
        ext = sales * d.quantity /\ total = list * d.quantity /\ cost = d.quantity * d.wholesale
  BY <1>3, ProductNat
<1>5. ext <= total /\ cost <= total
  <2>1. sales * d.quantity <= list * d.quantity BY <1>2, <1>3, ProductMonotone
  <2>2. d.quantity * d.wholesale <= d.quantity * list BY <1>2, <1>3, ProductMonotone
  <2>3. d.quantity * list = list * d.quantity BY <1>3, ProductSwap
  <2>4. QED BY <1>4, <2>1, <2>2, <2>3
<1>6. /\ p.coupon_amt = coupon /\ p.ext_sales_price = ext /\ p.ext_list_price = total
      /\ p.ext_wholesale_cost = cost /\ p.ext_discount_amt = total - ext
      /\ p.net_paid = ext - coupon /\ p.net_profit = p.net_paid - cost
      /\ p.net_paid_inc_tax = p.net_paid + p.ext_tax
      /\ p.net_paid_inc_ship_tax = p.net_paid + p.ext_ship_cost + p.ext_tax
      /\ p.net_loss = 0 /\ p.fee = 0
  BY <1>2, <1>4 DEF SoldAs
<1>7. p.ext_tax \in Int /\ p.ext_ship_cost \in Int BY <1>2 DEF Pricings, pricingFields
<1>8. coupon <= ext BY <1>2, <1>4
<1>9. QED BY <1>1, <1>5, <1>6, <1>7, <1>8 DEF SaleAddsUp

-----------------------------------------------------------------------------
(* The pricing of a return.                                                  *)

LEMMA ReturnDrawsType ==
    ASSUME NEW r \in ReturnDraws
    PROVE  /\ r.ship \in Nat /\ r.cash \in 0..100 /\ r.credit \in 0..100 /\ r.fee \in Nat
<1>1. PICK top \in Nat : top = dHundred BY Limits_Of
<1>2. /\ r.ship \in decimalDraws(0, 50) /\ r.cash \in integerDraws(0, 100)
      /\ r.credit \in integerDraws(1, 100) /\ r.fee \in decimalDraws(50, top)
  BY <1>1, Limits_Of DEF ReturnDraws
<1>3. r.ship \in Nat /\ r.fee \in Nat BY <1>1, <1>2, DrawType
<1>4. r.cash \in 0..100 BY <1>2 DEF integerDraws
<1>5. r.credit \in 0..100 BY <1>2 DEF integerDraws
<1>6. QED BY <1>3, <1>4, <1>5

\* What is given back in cash, to the card and as credit adds up.
LEMMA RefundParts ==
    ASSUME NEW ext \in Nat, NEW r \in ReturnDraws
    PROVE  LET cash == mult2(itodec(r.cash), ext)
               charge == reversed(ext, cash, r.credit)
           IN  /\ cash \in Nat /\ charge \in Nat /\ ext - charge - cash \in Nat
<1>1. PICK cash, charge : cash = mult2(itodec(r.cash), ext) /\ charge = reversed(ext, cash, r.credit)
  OBVIOUS
<1>2. cash \in 0..ext BY <1>1, ReturnDrawsType, PartOf DEF itodec
<1>3. charge \in 0..(ext - cash)
  <2>1. ext - cash \in Nat BY <1>2
  <2>2. charge = mult2(ext - cash, r.credit) BY <1>1 DEF reversed, itodec, minus
  <2>3. QED BY <2>1, <2>2, ReturnDrawsType, PartOf
<1>4. cash \in Nat /\ charge \in Nat /\ ext - charge - cash \in Nat BY <1>2, <1>3
<1>5. QED BY <1>1, <1>4

LEMMA ReturnSum ==
    ASSUME NEW table, NEW d \in SaleDraws(aPriceLimits(table)), NEW sold,
           sold = set_sale_pricing(Blank, d),
           NEW q \in Nat \ {0}, q <= sold.quantity, NEW r \in ReturnDraws
    PROVE  /\ ReturnAddsUp(set_return_pricing(Copied(sold, q), r), sold)
           /\ set_return_pricing(Copied(sold, q), r) \in Pricings
<1>1. PICK list \in Nat, sales \in Nat, coupon \in Nat :
             SoldAs(sold, d, list, sales, coupon) /\ sold \in Pricings
  BY SalePrices
<1>2. d.quantity \in Nat /\ d.wholesale \in Nat /\ d.tax \in Nat BY SaleDrawsType
<1>3. PICK old : old = Copied(sold, q) OBVIOUS
<1>4. /\ old \in Pricings /\ old.quantity = q /\ old.wholesale_cost = d.wholesale
      /\ old.list_price = list /\ old.sales_price = sales /\ old.tax_pct = d.tax
  <2>1. old = [sold EXCEPT !.quantity = q] BY <1>3 DEF Copied
  <2>2. q \in Int OBVIOUS
  <2>3. old \in Pricings BY <1>1, <2>1, <2>2 DEF Pricings
  <2>4. /\ old.quantity = q /\ old.wholesale_cost = sold.wholesale_cost
        /\ old.list_price = sold.list_price /\ old.sales_price = sold.sales_price
        /\ old.tax_pct = sold.tax_pct
    BY <1>1, <2>1 DEF Pricings, pricingFields
  <2>5. QED BY <1>1, <2>3, <2>4 DEF SoldAs
<1>5. PICK ext, cost, total : ext = sales * q /\ cost = q * d.wholesale /\ total = list * q
  OBVIOUS
<1>6. ext \in Nat /\ cost \in Nat /\ total \in Nat BY <1>2, <1>5, ProductNat
<1>7. PICK ship : ship = mult2(list, r.ship) OBVIOUS
<1>8. PICK shipping : shipping = ship * q OBVIOUS
<1>9. ship \in Int /\ shipping \in Int
  <2>1. ship \in Int
    <3>1. r.ship \in Nat BY ReturnDrawsType
    <3>2. r.ship \in Int /\ list \in Int BY <3>1
    <3>3. QED BY <1>7, <3>2, MultType
  <2>2. q \in Int OBVIOUS
  <2>3. QED BY <1>8, <2>1, <2>2, ProductType
<1>10. PICK cash, charge : cash = mult2(itodec(r.cash), ext) /\ charge = reversed(ext, cash, r.credit)
  OBVIOUS
<1>11. cash \in Nat /\ charge \in Nat /\ ext - charge - cash \in Nat
  BY <1>6, <1>10, RefundParts
<1>12. PICK tax \in Int : tax = mult2(ext, d.tax) BY <1>2, <1>6, MultType
<1>13. PICK paid : paid = Paid(old, ext, shipping, d.tax, cost) OBVIOUS
<1>14. /\ DOMAIN paid = pricingFields
       /\ paid.net_paid = ext /\ paid.ext_ship_cost = shipping
       /\ paid.ext_tax = tax /\ paid.net_paid_inc_tax = ext + tax
       /\ paid.net_paid_inc_ship_tax = ext + shipping + tax /\ paid.net_profit = ext - cost
       /\ paid.quantity = q
       /\ paid \in Pricings
  <2>1. ext \in Int /\ cost \in Int /\ d.tax \in Int BY <1>2, <1>6
  <2>2. /\ DOMAIN paid = pricingFields
        /\ paid.net_paid = ext /\ paid.ext_ship_cost = shipping
        /\ paid.ext_tax = mult2(ext, d.tax) /\ paid.net_paid_inc_tax = ext + mult2(ext, d.tax)
        /\ paid.net_paid_inc_ship_tax = ext + shipping + mult2(ext, d.tax)
        /\ paid.net_profit = ext - cost
        /\ \A f \in pricingFields \ {"net_paid", "ext_ship_cost", "net_paid_inc_ship", "ext_tax",
                   "net_paid_inc_tax", "net_paid_inc_ship_tax", "net_profit"} : paid[f] = old[f]
        /\ paid \in Pricings
    BY <1>4, <1>9, <1>13, <2>1, PaidFields
  <2>3. paid.quantity = q BY <1>4, <2>2 DEF pricingFields
  <2>4. QED BY <1>12, <2>2, <2>3
<1>15. PICK credit, loss : /\ credit = ext - charge - cash
                           /\ loss = paid.net_paid_inc_ship_tax - credit - cash - charge
  OBVIOUS
<1>16. credit \in Nat /\ loss = shipping + tax
  BY <1>6, <1>9, <1>11, <1>12, <1>14, <1>15
<1>17. PICK p : p = set_return_pricing(old, r) OBVIOUS
<1>18. p = [paid EXCEPT
             !.ext_wholesale_cost = cost, !.ext_list_price = total,
             !.ext_sales_price = ext, !.ship_cost = ship, !.refunded_cash = cash,
             !.reversed_charge = charge, !.store_credit = credit, !.fee = r.fee,
             !.net_loss = loss + r.fee]
  BY <1>4, <1>5, <1>7, <1>8, <1>10, <1>13, <1>15, <1>17, Zenon
  DEF set_return_pricing, itodec, mult0, minus, plus
<1>19. /\ p.refunded_cash = cash /\ p.reversed_charge = charge /\ p.store_credit = credit
       /\ p.fee = r.fee /\ p.net_loss = loss + r.fee
       /\ p.ext_wholesale_cost = cost /\ p.ext_list_price = total /\ p.ext_sales_price = ext
       /\ p.ship_cost = ship
  BY <1>14, <1>18 DEF pricingFields
<1>20. \A f \in pricingFields \ {"ext_wholesale_cost", "ext_list_price", "ext_sales_price",
            "ship_cost", "refunded_cash", "reversed_charge", "store_credit", "fee", "net_loss"} :
         p[f] = paid[f]
  BY <1>14, <1>18
<1>21. r.fee \in Int BY ReturnDrawsType
<1>22. p \in Pricings
  <2>1. \A f \in pricingFields : paid[f] \in Int BY <1>14 DEF Pricings
  <2>2. /\ cost \in Int /\ total \in Int /\ ext \in Int /\ cash \in Int /\ charge \in Int
        /\ credit \in Int /\ loss + r.fee \in Int
    BY <1>6, <1>9, <1>11, <1>12, <1>16, <1>21
  <2>3. \A f \in pricingFields : p[f] \in Int BY <1>9, <1>19, <1>20, <1>21, <2>1, <2>2
  <2>4. p = [f \in pricingFields |-> p[f]] BY <1>14, <1>18
  <2>5. QED BY <2>3, <2>4 DEF Pricings
<1>23. /\ p.net_paid = ext /\ p.ext_ship_cost = shipping /\ p.ext_tax = tax /\ p.quantity = q
       /\ p.net_paid_inc_tax = ext + tax /\ p.net_profit = ext - cost
  BY <1>14, <1>20 DEF pricingFields
<1>24. sold.quantity = d.quantity /\ sold.ext_sales_price = sales * d.quantity BY <1>1 DEF SoldAs
\* A part of the quantity is a part of the sale.
<1>25. ext <= sold.ext_sales_price
  <2>1. q <= d.quantity BY <1>24
  <2>2. q \in Nat OBVIOUS
  <2>3. sales * q <= sales * d.quantity BY <1>2, <2>1, <2>2, ProductMonotone, Zenon
  <2>4. QED BY <1>5, <1>24, <2>3
\* All of a sale without coupon.
<1>26. ASSUME q = sold.quantity, sold.coupon_amt = 0
       PROVE  \A f \in {"net_paid", "ext_tax", "net_paid_inc_tax", "net_profit"} : p[f] = sold[f]
  <2>1. coupon = 0 /\ q = d.quantity BY <1>1, <1>24, <1>26 DEF SoldAs
  <2>2. sales * d.quantity - coupon = ext BY <1>5, <1>6, <2>1
  <2>3. /\ sold.net_paid = sales * d.quantity - coupon
        /\ sold.ext_tax = mult2(sales * d.quantity - coupon, d.tax)
        /\ sold.net_paid_inc_tax = sold.net_paid + sold.ext_tax
        /\ sold.net_profit = sold.net_paid - sold.ext_wholesale_cost
        /\ sold.ext_wholesale_cost = d.quantity * d.wholesale
    BY <1>1 DEF SoldAs
  <2>4. sold.net_paid = ext /\ sold.ext_tax = tax BY <1>12, <2>2, <2>3, Zenon
  <2>5. sold.ext_wholesale_cost = cost BY <1>5, <2>1, <2>3, Zenon
  <2>6. sold.net_paid_inc_tax = ext + tax /\ sold.net_profit = ext - cost
    BY <2>3, <2>4, <2>5, Zenon
  <2>7. QED BY <1>23, <2>4, <2>6
<1>27. ReturnAddsUp(p, sold)
  <2>1. p.refunded_cash >= 0 /\ p.reversed_charge >= 0 /\ p.store_credit >= 0
    BY <1>11, <1>16, <1>19
  <2>2. p.refunded_cash + p.reversed_charge + p.store_credit = p.net_paid
    BY <1>6, <1>11, <1>15, <1>19, <1>23
  <2>3. p.net_loss = p.ext_ship_cost + p.ext_tax + p.fee
    BY <1>16, <1>19, <1>23
  <2>4. 1 <= p.quantity /\ p.quantity <= sold.quantity /\ p.net_paid <= sold.ext_sales_price
    BY <1>23, <1>25
  <2>5. p.quantity = sold.quantity /\ sold.coupon_amt = 0 =>
          \A f \in {"net_paid", "ext_tax", "net_paid_inc_tax", "net_profit"} : p[f] = sold[f]
    BY <1>23, <1>26
  <2>6. QED BY <2>1, <2>2, <2>3, <2>4, <2>5 DEF ReturnAddsUp
<1>28. QED BY <1>3, <1>17, <1>22, <1>27

-----------------------------------------------------------------------------
(* The rows.                                                                 *)

\* A sale is what set_pricing made of its draws, a return what it made of the
\* sale; the return of a source line is the sale with a quantity of its own.
SoldRow ==
    /\ payTable \in SaleTables
    /\ \E d \in SaleDraws(aPriceLimits(payTable)) : paySold = set_sale_pricing(Blank, d)

ReturnedRow ==
    \E q \in Nat \ {0} :
        /\ q <= paySold.quantity
        /\ IF payTable \in SourceTables THEN payReturned = Copied(paySold, q)
           ELSE \E r \in ReturnDraws : payReturned = set_return_pricing(Copied(paySold, q), r)

PayInv ==
    \/ payStage = "idle" /\ paySold = <<>> /\ payReturned = <<>>
    \/ payStage = "start" /\ payTable \in SaleTables /\ paySold = Blank /\ payReturned = Blank
    \/ payStage = "sold" /\ SoldRow /\ payReturned = Blank
    \/ payStage = "returned" /\ SoldRow /\ ReturnedRow

LEMMA SoldRowFacts ==
    ASSUME SoldRow
    PROVE  paySold \in Pricings /\ SaleAddsUp(paySold) /\ paySold.quantity \in Nat \ {0}
<1>1. PICK d \in SaleDraws(aPriceLimits(payTable)) : paySold = set_sale_pricing(Blank, d)
  BY DEF SoldRow
<1>2. paySold \in Pricings /\ paySold.quantity = d.quantity BY <1>1, SalePrices DEF SoldAs
<1>3. QED BY <1>1, <1>2, SaleDrawsType, SaleSum

LEMMA QuantitiesType ==
    ASSUME SoldRow, NEW q \in Quantities(paySold)
    PROVE  q \in Nat \ {0} /\ q <= paySold.quantity
<1>1. paySold.quantity \in Nat \ {0} BY SoldRowFacts
<1>2. q \in integerDraws(1, paySold.quantity) BY <1>1 DEF Quantities
<1>3. QED BY <1>1, <1>2, DrawType

LEMMA PayInvInductive == PayInv /\ [PricingNext]_pricingVars => PayInv'
<1> SUFFICES ASSUME PayInv, [PricingNext]_pricingVars PROVE PayInv' OBVIOUS
<1>1. CASE SellRow
  <2>1. /\ payTable \in SaleTables /\ paySold = Blank /\ payReturned = Blank
    BY <1>1 DEF SellRow, PayInv
  <2>2. PICK d \in SaleDraws(aPriceLimits(payTable)) : paySold' = set_sale_pricing(Blank, d)
    BY <1>1, <2>1 DEF SellRow
  <2>3. payStage' = "sold" /\ payTable' = payTable /\ payReturned' = payReturned BY <1>1 DEF SellRow
  <2>4. SoldRow' BY <2>1, <2>2, <2>3 DEF SoldRow
  <2>5. QED BY <2>1, <2>3, <2>4 DEF PayInv
<1>2. CASE ReturnRow
  <2>1. SoldRow BY <1>2 DEF ReturnRow, PayInv
  <2>2. PICK q \in Quantities(paySold), r \in ReturnDraws :
          payReturned' = set_return_pricing(Copied(paySold, q), r)
    BY <1>2 DEF ReturnRow
  <2>3. payStage' = "returned" /\ payTable' = payTable /\ paySold' = paySold
        /\ payTable \notin SourceTables
    BY <1>2 DEF ReturnRow
  <2>4. SoldRow' BY <2>1, <2>3 DEF SoldRow
  <2>5. q \in Nat \ {0} /\ q <= paySold.quantity BY <2>1, QuantitiesType
  <2>6. ReturnedRow' BY <2>2, <2>3, <2>5 DEF ReturnedRow
  <2>7. QED BY <2>3, <2>4, <2>6 DEF PayInv
<1>3. CASE ReturnSourceRow
  <2>1. SoldRow BY <1>3 DEF ReturnSourceRow, PayInv
  <2>2. PICK q \in Quantities(paySold) : payReturned' = Copied(paySold, q)
    BY <1>3 DEF ReturnSourceRow
  <2>3. payStage' = "returned" /\ payTable' = payTable /\ paySold' = paySold
        /\ payTable \in SourceTables
    BY <1>3 DEF ReturnSourceRow
  <2>4. SoldRow' BY <2>1, <2>3 DEF SoldRow
  <2>5. q \in Nat \ {0} /\ q <= paySold.quantity BY <2>1, QuantitiesType
  <2>6. ReturnedRow' BY <2>2, <2>3, <2>5 DEF ReturnedRow
  <2>7. QED BY <2>3, <2>4, <2>6 DEF PayInv
<1>4. CASE UNCHANGED pricingVars
  BY <1>4 DEF PayInv, SoldRow, ReturnedRow, pricingVars
<1>5. QED BY <1>1, <1>2, <1>3, <1>4 DEF PricingNext

LEMMA PricingsAreRead ==
    ASSUME NEW p \in Pricings PROVE \A f \in DOMAIN p : ReadBack(format_decimal(p[f])) = p[f]
<1>1. \A f \in DOMAIN p : p[f] \in Int BY DEF Pricings
<1>2. QED BY <1>1, TextIsRead

LEMMA PayInvAddsUp == PayInv => AmountsAddUp
<1> SUFFICES ASSUME PayInv PROVE AmountsAddUp OBVIOUS
<1>1. Blank \in Pricings BY DEF Blank, Pricings
<1>2. payStage \in {"sold", "returned"} => SoldRow BY DEF PayInv
<1>3. payStage \in {"sold", "returned"} => SaleAddsUp(paySold) /\ paySold \in Pricings
  BY <1>2, SoldRowFacts
<1>4. ASSUME payStage = "returned", payTable \notin SourceTables
      PROVE  ReturnAddsUp(payReturned, paySold) /\ payReturned \in Pricings
  <2>1. SoldRow /\ ReturnedRow BY <1>4 DEF PayInv
  <2>2. PICK d \in SaleDraws(aPriceLimits(payTable)) : paySold = set_sale_pricing(Blank, d)
    BY <2>1 DEF SoldRow
  <2>3. PICK q \in Nat \ {0}, r \in ReturnDraws :
          q <= paySold.quantity /\ payReturned = set_return_pricing(Copied(paySold, q), r)
    BY <1>4, <2>1 DEF ReturnedRow
  <2>4. QED BY <2>2, <2>3, ReturnSum
<1>5. ASSUME payStage = "returned", payTable \in SourceTables PROVE payReturned \in Pricings
  <2>1. ReturnedRow /\ paySold \in Pricings BY <1>3, <1>5 DEF PayInv
  <2>2. PICK q \in Nat \ {0} : payReturned = Copied(paySold, q) BY <1>5, <2>1 DEF ReturnedRow
  <2>3. q \in Int OBVIOUS
  <2>4. QED BY <2>1, <2>2, <2>3 DEF Copied, Pricings
<1>6. \A p \in {paySold, payReturned} : p \in Pricings \/ p = <<>>
  BY <1>1, <1>3, <1>4, <1>5 DEF PayInv
<1>7. \A p \in {paySold, payReturned} : \A f \in DOMAIN p : ReadBack(format_decimal(p[f])) = p[f]
  <2>1. DOMAIN <<>> = {} OBVIOUS
  <2>2. QED BY <1>6, <2>1, PricingsAreRead
<1>8. QED BY <1>3, <1>4, <1>7 DEF AmountsAddUp

(* AmountsAddUp: for every draw of a sale and of its return, the amounts of   *)
(* the sale add up to its list price and to what is paid, the parts of the    *)
(* refund to what is returned, and the text of every amount reads as it.      *)
THEOREM EveryAmountAddsUp == PricingSpec => []AmountsAddUp
<1>1. PricingInit \/ PricingIdle => PayInv BY DEF PricingInit, PricingIdle, PayInv
<1>2. QED BY <1>1, PayInvInductive, PayInvAddsUp, PTL DEF PricingSpec

=============================================================================
