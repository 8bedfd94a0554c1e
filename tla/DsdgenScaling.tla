---------------------------- MODULE DsdgenScaling ---------------------------
(***************************************************************************)
(* How many rows a table has at a scale, and a day of it has (scaling.c,   *)
(* scaling.dst).  A scale is a size in GB.                                 *)
(***************************************************************************)
EXTENDS DsdgenCalendar, DsdgenTdefs, FiniteSetsExt

arScaleVolume == <<1, 10, 100, 300, 1000, 3000, 10000, 30000, 100000>>

\* The rowcounts distribution: a power of ten, how to interpolate, and a count
\* for each volume. Only the tables that the modules ask for.
static == 1
linear == 2
logarithmic == 3
Rowcount(power, model, weights) == [power |-> power, model |-> model, weights |-> weights]
rowcounts == [
    CALL_CENTER |-> Rowcount(0, logarithmic, <<3, 12, 15, 18, 21, 24, 27, 30, 30>>),
    CATALOG_SALES |-> Rowcount(4, linear, <<16, 160, 1600, 4800, 16000, 48000, 160000, 480000, 1600000>>),
    CUSTOMER |-> Rowcount(3, logarithmic, <<100, 500, 2000, 5000, 12000, 30000, 65000, 80000, 100000>>),
    ITEM |-> Rowcount(3, logarithmic, <<9, 51, 102, 132, 150, 180, 201, 231, 251>>),
    REASON |-> Rowcount(0, logarithmic, <<35, 45, 55, 60, 65, 67, 70, 72, 75>>),
    SHIP_MODE |-> Rowcount(0, static, <<20, 20, 20, 20, 20, 20, 20, 20, 20>>),
    STORE |-> Rowcount(0, logarithmic, <<6, 51, 201, 402, 501, 675, 750, 852, 951>>),
    STORE_SALES |-> Rowcount(4, linear, <<24, 240, 2400, 7200, 24000, 72000, 240000, 720000, 2400000>>),
    WAREHOUSE |-> Rowcount(0, logarithmic, <<5, 10, 15, 17, 20, 22, 25, 27, 30>>),
    WEB_PAGE |-> Rowcount(0, logarithmic, <<30, 100, 1020, 1302, 1500, 1800, 2001, 2301, 2502>>),
    WEB_SALES |-> Rowcount(3, linear, <<60, 600, 6000, 18000, 60000, 180000, 600000, 1800000, 6000000>>),
    WEB_SITE |-> Rowcount(0, logarithmic, <<15, 21, 12, 21, 27, 33, 39, 42, 48>>)]

\* The first volume that is not below the scale.
getScaleSlot(scale) == CHOOSE i \in DOMAIN arScaleVolume :
    arScaleVolume[i] >= scale /\ \A j \in 1..(i - 1) : arScaleVolume[j] < scale

\* Between two volumes, the part of the difference that the scale has reached,
\* cut toward zero. The code divides floats, which may round a whole number
\* down; it does not at the scales of the instance.
LogScale(table, scale) ==
    LET i == getScaleSlot(scale)
        w == rowcounts[table].weights
        part(delta) == ((scale - arScaleVolume[i - 1]) * delta)
                       \div (arScaleVolume[i] - arScaleVolume[i - 1])
    IN  w[i - 1] + (IF w[i] >= w[i - 1] THEN part(w[i] - w[i - 1]) ELSE -part(w[i - 1] - w[i]))

StaticScale(table) == rowcounts[table].weights[1]

\* The scale as a sum of volumes, the large ones first, each as often as it fits.
LinearScale(table, scale) ==
    LET left[i \in 1..9] == IF i = 9 THEN scale ELSE left[i + 1] % arScaleVolume[i + 1]
    IN  MapThenSumSet(
            LAMBDA i : (left[i] \div arScaleVolume[i]) * rowcounts[table].weights[i], 1..9)

Multiplier(table) ==
    (IF table \in DOMAIN w_tdefs /\ "TYPE_2" \in w_tdefs[table].flags THEN 2 ELSE 1)
    * 10 ^ rowcounts[table].power

get_rowcount(table, scale) ==
    Multiplier(table)
    * (IF \E i \in DOMAIN arScaleVolume : arScaleVolume[i] = scale
         THEN rowcounts[table].weights[getScaleSlot(scale)]
       ELSE IF rowcounts[table].model = linear THEN LinearScale(table, scale)
       ELSE IF rowcounts[table].model = static THEN StaticScale(table)
       ELSE LogScale(table, scale))

\* Of six rows of a table that keeps history, three are first revisions.
getIDCount(table, scale) ==
    LET rows == get_rowcount(table, scale)
    IN  IF "TYPE_2" \in w_tdefs[table].flags
          THEN (rows \div 6) * 3 + <<0, 1, 2, 2, 3, 3>>[(rows % 6) + 1]
        ELSE rows

\* Five years of weekly inventories.
DATE_MINIMUM == dttoj(1998, 1, 1)
DATE_MAXIMUM == dttoj(2002, 12, 31)

\* The rows of a day: its share of five years, rounded to the nearest.
salesOf(table) ==
    CASE table = "S_PURCHASE" -> "STORE_SALES"
      [] table = "S_CATALOG_ORDER" -> "CATALOG_SALES"
      [] table = "S_WEB_ORDER" -> "WEB_SALES"
      [] OTHER -> table
dateScaling(table, rows, julian) ==
    LET d == jtodt(julian)
        column == sales_column(d.year)
        total == 5 * calendar_max[column]
    IN  (rows * calendar_weight(day_number(d), column) + (total \div 2)) \div total
=============================================================================
