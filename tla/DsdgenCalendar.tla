--------------------------- MODULE DsdgenCalendar ---------------------------
(***************************************************************************)
(* Dates and the calendar distribution (date.c, calendar.dst).  A date is  *)
(* a record of its parts and its day number, called julian in the code.    *)
(* C's integer division is \div: every quantity here is positive.          *)
(***************************************************************************)
EXTENDS Integers, Sequences

\* The days of a year before a month: of a year without, then with, a leap day.
m_days == <<
    <<0, 31, 59, 90, 120, 151, 181, 212, 243, 273, 304, 334>>,
    <<0, 31, 60, 91, 121, 152, 182, 213, 244, 274, 305, 335>>>>

\* Every year that ends in 00 is a leap year: the remainder by 400 is even.
is_leap(year) ==
    IF year % 100 = 0 THEN (IF ((year % 400) % 2) = 0 THEN 1 ELSE 0)
    ELSE IF year % 4 = 0 THEN 1 ELSE 0

jtodt(julian) ==
    LET l1 == julian + 68569
        n == (4 * l1) \div 146097
        l2 == l1 - ((146097 * n + 3) \div 4)
        i == (4000 * (l2 + 1)) \div 1461001
        l3 == l2 - ((1461 * i) \div 4) + 31
        j == (80 * l3) \div 2447
    IN  [julian |-> julian, day |-> l3 - ((2447 * j) \div 80),
         month |-> j + 2 - 12 * (j \div 11), year |-> 100 * (n - 49) + i + (j \div 11)]

dttoj(year, month, day) ==
    LET m == IF month <= 2 THEN month + 12 ELSE month
        y == IF month <= 2 THEN year - 1 ELSE year
    IN  day + ((153 * m - 457) \div 5) + 365 * y + (y \div 4) - (y \div 100) + (y \div 400) + 1721119

\* The day of the week, from a day of its month that falls on the year's doomsday.
doomsday == <<3, 2, 0, 5>>
known(year) == <<3 + is_leap(year), is_leap(year), 0, 4, 9, 6, 11, 8, 5, 10, 7, 12>>
set_dow(d) ==
    LET q == d.year % 100
        r == q % 12
        dday == (doomsday[(((d.year \div 100) - 15) % 4) + 1] + (q \div 12) + r + (r \div 4)) % 7
    IN  (((d.day - known(d.year)[d.month]) % 7) + dday) % 7

\* The row of the calendar distribution for a date. Row 60 is February 29, and
\* a year without that day does not skip it.
day_number(d) == m_days[is_leap(d.year) + 1][d.month] + d.day

(***************************************************************************)
(* date_t_op: the dates that a row of date_dim refers to.                  *)
(***************************************************************************)
\* The beginning of the quarter of a month.
qtr_start(year, month) == dttoj(year, 3 * ((month - 1) \div 3) + 1, 1)
OP_FIRST_DOM(d) == d.julian - d.day + 1
\* It adds the days before the month, not the days of the month.
OP_LAST_DOM(d) == d.julian - d.day + m_days[is_leap(d.year) + 1][d.month]
OP_SAME_LY(d) ==
    IF is_leap(d.year) = 1 /\ d.month = 2 /\ d.day = 29 THEN dttoj(d.year - 1, 2, 28)
    ELSE dttoj(d.year - 1, d.month, d.day)
OP_SAME_LQ(d) ==
    (d.julian - qtr_start(d.year, d.month))
    + (IF d.month <= 3 THEN qtr_start(d.year - 1, 12) ELSE qtr_start(d.year, d.month - 3))

(***************************************************************************)
(* calendar.dst: a row per day of a leap year, in three zones of density.  *)
(***************************************************************************)
calendar_Rows == 1..366
zones == [low |-> 1..213, medium |-> 214..305, high |-> 306..366]
sales_likelihood(row) == IF row \in zones.low THEN 29 ELSE IF row \in zones.medium THEN 66 ELSE 100

\* A weight of the calendar: only the columns for leap years count the leap day.
calendar_weight(row, column) ==
    CASE column \in DOMAIN zones -> IF row \in zones[column] \ {60} THEN 1 ELSE 0
      [] column = "sales" -> IF row = 60 THEN 0 ELSE sales_likelihood(row)
      [] column = "sales_leap" -> sales_likelihood(row)
\* What dist_max says of a column: the sum of its weights.
calendar_max == [sales |-> 18320, sales_leap |-> 18349]
calendar_quarter(row) ==
    IF row <= 91 THEN 1 ELSE IF row <= 182 THEN 2 ELSE IF row <= 274 THEN 3 ELSE 4

\* getDateWeightFromJulian, dateScaling: the column follows the leap year.
sales_column(year) == IF is_leap(year) = 1 THEN "sales_leap" ELSE "sales"
getDateWeightFromJulian(julian) ==
    LET d == jtodt(julian) IN calendar_weight(day_number(d), sales_column(d.year))

\* constants.h
DATA_START_DATE == dttoj(1998, 1, 1)
DATA_END_DATE == dttoj(2003, 12, 31)
=============================================================================
