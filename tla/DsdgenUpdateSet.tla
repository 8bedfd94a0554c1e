--------------------------- MODULE DsdgenUpdateSet --------------------------
(***************************************************************************)
(* An update set: its dates, two for each zone of the calendar, and the    *)
(* rows of its orders and inventories on them (scaling.c, w_inventory.c,   *)
(* s_inventory.c).                                                         *)
(***************************************************************************)
EXTENDS DsdgenScaling

CONSTANTS
    PickedDates,   \* by zone, the dates that getSkewedJulianDate may pick
    StockItems,    \* the item ids and the warehouses of an inventory,
    Warehouses,    \* in place of the thousands of a scale
    UpdateScale    \* the scale of the orders

\* The tables of an update set that take their rows from its dates.
DatedTables == {"S_PURCHASE", "S_CATALOG_ORDER", "S_WEB_ORDER", "S_INVENTORY"}

ASSUME StockAssumption ==
    /\ StockItems \in Nat \ {0} /\ Warehouses \in Nat \ {0}
    /\ \A table \in DatedTables \ {"S_INVENTORY"} :
           get_rowcount(salesOf(table), UpdateScale) \in Nat

VARIABLES
    uPick,      \* by zone, the date picked; <<>> before
    uOrders,    \* arUpdateDates
    uInventory, \* arInventoryUpdateDates
    uTable,     \* the table scaled last
    kDayRowcount\* by date, the rows of that table up to it
updateVars == <<uPick, uOrders, uInventory, uTable, kDayRowcount>>

zoneOrder == <<"low", "medium", "high">>

\* dist_weight of a row of the calendar: row 367 is beyond its end, and any
\* number may stand there.
weights(row, zone) == IF row \in calendar_Rows THEN {calendar_weight(row, zone)} ELSE {0, 1}
calendar_dow(julian) == set_dow(jtodt(julian))

\* The second date of the orders: the next day, where the row after the day's is
\* in the zone, or the day before.
orderPairs(d0, zone) ==
    {<<d0, IF w # 0 THEN d0 + 1 ELSE d0 - 1>> : w \in weights(day_number(jtodt(d0)) + 1, zone)}

\* The Thursday of the week, or else of the week before or after; then the next
\* one, or the one before. The low zone tests the row after that of the second.
inventoryPair_NoBack(d0, zone) ==
    LET inZone(d) == calendar_weight(day_number(jtodt(d)), zone) # 0
        thursday == d0 + (4 - calendar_dow(d0))
        t0 == IF inZone(thursday) THEN thursday
              ELSE IF inZone(thursday - 7) THEN thursday - 7 ELSE thursday + 7
    IN  <<t0, t0 + 7>>
inventoryPair(d0, zone) ==
    LET row(d) == day_number(jtodt(d))
        inZone(r) == calendar_weight(r, zone) # 0
        thursday == d0 + (4 - calendar_dow(d0))
        t0 == IF inZone(row(thursday)) THEN thursday
              ELSE IF inZone(row(thursday - 7)) THEN thursday - 7 ELSE thursday + 7
        tested == row(t0 + 7) + (IF zone = "low" THEN 1 ELSE 0)
    IN  <<t0, IF inZone(tested) THEN t0 + 7 ELSE t0 - 7>>

UpdateIdle ==
    uPick = <<>> /\ uOrders = <<>> /\ uInventory = <<>> /\ uTable = "none" /\ kDayRowcount = <<>>
UpdateInit ==
    /\ uPick \in [1..3 -> UNION {PickedDates[z] : z \in DOMAIN PickedDates}]
    /\ \A i \in 1..3 : uPick[i] \in PickedDates[zoneOrder[i]]
    /\ uOrders = <<>> /\ uInventory = <<>> /\ uTable = "none" /\ kDayRowcount = <<>>

\* Each pass of its loop overwrites the dates of the one before: only the last
\* pass matters.
setUpdateDates ==
    /\ uPick # <<>> /\ uOrders = <<>>
    /\ \E l \in orderPairs(uPick[1], "low"), m \in orderPairs(uPick[2], "medium"),
          h \in orderPairs(uPick[3], "high") : uOrders' = l \o m \o h
    /\ uInventory' = inventoryPair(uPick[1], "low") \o inventoryPair(uPick[2], "medium")
                     \o inventoryPair(uPick[3], "high")
    /\ UNCHANGED <<uPick, uTable, kDayRowcount>>

\* The rows of a date of the update set.
rowsOn(table, julian) ==
    IF table = "S_INVENTORY" THEN StockItems * Warehouses
    ELSE dateScaling(salesOf(table), get_rowcount(salesOf(table), UpdateScale), julian)

\* By date, the rows of a table up to it.
dayRowcounts(table) ==
    LET upTo[i \in 1..6] == (IF i = 1 THEN 0 ELSE upTo[i - 1]) + rowsOn(table, uOrders[i])
    IN  upTo

\* One of the four tables that main scales; each has counts of its own.
setUpdateScaling(table) ==
    /\ uOrders # <<>> /\ uTable = "none"
    /\ uTable' = table
    /\ kDayRowcount' = dayRowcounts(table)
    /\ UNCHANGED <<uPick, uOrders, uInventory>>

\* The date of a row: the first whose rows reach it, or else the last.
getUpdateSlot_Early(k) ==
    CHOOSE i \in 1..6 : /\ k < kDayRowcount[i] \/ i = 6
                        /\ \A j \in 1..(i - 1) : k >= kDayRowcount[j]
getUpdateSlot(k) ==
    CHOOSE i \in 1..6 : /\ k <= kDayRowcount[i] \/ i = 6
                        /\ \A j \in 1..(i - 1) : k > kDayRowcount[j]
getUpdateDate(table, k) ==
    IF table = "S_INVENTORY" THEN uInventory[getUpdateSlot(k)] ELSE uOrders[getUpdateSlot(k)]

\* The item id and the warehouse of a row of either inventory, and the week of
\* the base one. Its first week is that of the first date.
stockOf(k) == [item |-> ((k - 1) % StockItems) + 1,
               warehouse |-> (((k - 1) \div StockItems) % Warehouses) + 1]
weekOf(k) == DATE_MINIMUM + 7 * ((k - 1) \div (StockItems * Warehouses))

UpdateNext == setUpdateDates \/ \E table \in DatedTables : setUpdateScaling(table)
UpdateSpec == (UpdateInit \/ UpdateIdle) /\ [][UpdateNext]_updateVars

(***************************************************************************)
(* Properties                                                              *)
(***************************************************************************)
\* The row of the calendar for a day, February 29 counted in every year.
TrueRow(d) == m_days[2][jtodt(d).month] + jtodt(d).day
InTheZone(d, zone) == TrueRow(d) \in zones[zone]
LeapYear(d) == jtodt(d).year % 4 = 0

\* A date that the weekly inventories of the base table have.
Weeks == 0..260
InventoryWeek(n) == DATE_MINIMUM + 7 * n

\* The order dates of a zone are two adjacent days and its inventory dates two
\* Thursdays a week apart, the first within three days of a week from the day picked, and
\* dates of the weekly inventories if in their five years; in a leap year they lie in the zone, but for the picks of December 31, whose next row the
\* calendar does not have; in another year they may pass its end by a day, for
\* day_number does not skip the leap day (scaling.c setUpdateDates).
UpdateDatesInZones ==
    uOrders # <<>> =>
        \A i \in 1..3 :
            LET zone == zoneOrder[i]
                d == uOrders[2 * i - 1]
                e == uOrders[2 * i]
                t == uInventory[2 * i - 1]
                u == uInventory[2 * i]
                slack == IF LeapYear(d) THEN 0 ELSE 1
                near(x) == \E back \in 0..slack : InTheZone(x - back, zone)
            IN  /\ d = uPick[i] /\ InTheZone(d, zone) /\ e \in {d - 1, d + 1}
                /\ near(e) \/ (TrueRow(d) = 366 /\ e = d + 1)
                /\ calendar_dow(t) = 4 /\ calendar_dow(u) = 4 /\ u \in {t - 7, t + 7}
                /\ near(t) /\ near(u) /\ t \in (d - 10)..(d + 11)
                /\ \A x \in {t, u} \cap (DATE_MINIMUM..DATE_MAXIMUM) :
                       \E n \in Weeks : x = InventoryWeek(n)

\* Every date of an update set has as many orders as the base table has on that
\* date, and of an inventory every item and warehouse exactly once; in a week of
\* the base inventory the base table has the same ones (scaling.c
\* setUpdateScaling, getUpdateDate, dateScaling; mk_s_inventory, mk_w_inventory).
UpdateRowsOnTheirDates ==
    uTable # "none" =>
        LET rows == 1..kDayRowcount[6]
            dated(i) == {k \in rows : getUpdateSlot(k) = i}
        IN  IF uTable = "S_INVENTORY"
              THEN /\ kDayRowcount[6] = StockItems * Warehouses * 6
                   /\ \A i \in 1..6, item \in 1..StockItems, w \in 1..Warehouses :
                          Cardinality({k \in dated(i) : stockOf(k) = [item |-> item, warehouse |-> w]}) = 1
                   /\ \A k \in rows, n \in Weeks : getUpdateDate(uTable, k) = InventoryWeek(n) =>
                          \E b \in 1..(StockItems * Warehouses * 261) :
                              stockOf(b) = stockOf(k) /\ weekOf(b) = InventoryWeek(n)
            ELSE \A i \in 1..6 : Cardinality(dated(i)) = rowsOn(uTable, uOrders[i])
=============================================================================
