--------------------------- MODULE DsdgenDateTable --------------------------
(***************************************************************************)
(* The rows of date_dim, built one after the other (w_datetbl.c).          *)
(***************************************************************************)
EXTENDS DsdgenCalendar

CONSTANT DateStarts    \* rows at which a part of the table begins
CONSTANT DatePart      \* rows in a part

VARIABLES
    dIndex,    \* the row built last, 0 before the first
    dLast,     \* the last row to build
    dRow,      \* g_w_date, the row itself
    dPrevious  \* the row before it
dateVars == <<dIndex, dLast, dRow, dPrevious>>

CURRENT_YEAR == 2003
\* A field that mk_w_date assigns only in the current year: the row keeps the old one.
flag_NoReset(now, value, kept) == kept \/ (now /\ value)
flag(now, value, kept) == IF now THEN value ELSE kept
noRow == [sk |-> 0, current_month |-> FALSE, current_quarter |-> FALSE]

mk_w_date(index, r) ==
    LET d == jtodt(index + dttoj(1900, 1, 1))
        dow == set_dow(d)
        qoy == calendar_quarter(day_number(d))
        now == d.year = CURRENT_YEAR
    IN  [sk |-> d.julian, year |-> d.year, moy |-> d.month, dom |-> d.day, dow |-> dow,
         week_seq |-> (index + 6) \div 7,
         month_seq |-> (d.year - 1900) * 12 + d.month - 1,
         quarter_seq |-> (d.year - 1900) * 4 + (d.month \div 3) + 1,
         qoy |-> qoy, weekend |-> dow \in {5, 6},
         first_dom |-> OP_FIRST_DOM(d), last_dom |-> OP_LAST_DOM(d),
         same_day_ly |-> OP_SAME_LY(d), same_day_lq |-> OP_SAME_LQ(d),
         current_month |-> flag(now, d.month = 1, r.current_month),
         current_quarter |-> flag(now, qoy = 1, r.current_quarter)]

\* A date that is validated: the same fields, with the flags reset before.
vld_w_date(index) == mk_w_date(index, noRow)

DateIdle == dIndex = 0 /\ dLast = 0 /\ dRow = noRow /\ dPrevious = noRow
DateInit ==
    /\ dIndex \in DateStarts /\ dLast = dIndex + DatePart
    /\ dRow = noRow /\ dPrevious = noRow

BuildDate ==
    /\ dIndex < dLast
    /\ dIndex' = dIndex + 1
    /\ dRow' = mk_w_date(dIndex', dRow)
    /\ dPrevious' = dRow
    /\ UNCHANGED dLast

(***************************************************************************)
(* Properties                                                              *)
(***************************************************************************)
TrueLeap(y) == y % 4 = 0 /\ (y % 100 # 0 \/ y % 400 = 0)
DaysOf(y, m) ==
    IF m = 2 THEN (IF TrueLeap(y) THEN 29 ELSE 28) ELSE IF m \in {4, 6, 9, 11} THEN 30 ELSE 31
DayAfter(r) ==
    IF r.dom < DaysOf(r.year, r.moy) THEN <<r.year, r.moy, r.dom + 1>>
    ELSE IF r.moy < 12 THEN <<r.year, r.moy + 1, 1>> ELSE <<r.year + 1, 1, 1>>
\* Where the weekday is wrong: is_leap takes 1900 and 2100 for leap years.
WrongLeap(r) == r.year \in {1900, 2100} /\ r.moy <= 2

\* The rows of date_dim are the days one after the other; the weekday moves on
\* by one but where is_leap is wrong, a week begins on a Tuesday and a month's
\* number moves with the month; the first of the month, the day a year ago and
\* the day a quarter ago are those of the calendar (a quarter ago is the day
\* after that quarter where it was shorter); and the flags of the current month,
\* which most rows leave as they are, are up in January 2003 alone.
\* The row that is built by itself to be validated is the same
\* (w_datetbl.c mk_w_date, vld_w_date, date.c).
CalendarRows ==
    dPrevious.sk > 0 =>
        LET r == dRow
            p == dPrevious
            first == jtodt(r.first_dom)
            quarter == jtodt(r.same_day_lq)
        IN  /\ r.sk = p.sk + 1 /\ <<r.year, r.moy, r.dom>> = DayAfter(p)
            /\ WrongLeap(p) \/ WrongLeap(r) \/ r.dow = (p.dow + 1) % 7
            /\ WrongLeap(r) \/ ((r.week_seq = p.week_seq + 1) <=> (r.dow = 2))
            /\ r.month_seq - p.month_seq = (IF r.dom = 1 THEN 1 ELSE 0)
            /\ r.quarter_seq - p.quarter_seq \in 0..1
            /\ first.day = 1 /\ first.month = r.moy /\ r.first_dom \in (r.sk - 30)..r.sk
            /\ r.sk - r.same_day_ly = (IF r.moy > 2 \/ (r.moy = 2 /\ r.dom = 29)
                                         THEN IF TrueLeap(r.year) THEN 366 ELSE 365
                                         ELSE IF TrueLeap(r.year - 1) THEN 366 ELSE 365)
            /\ \/ (quarter.month - 1) \div 3 = ((r.moy + 8) % 12) \div 3
               \/ r.moy \in {6, 9} /\ r.dom = 30 /\ quarter.day = 1
            /\ r.current_month <=> (r.year = CURRENT_YEAR /\ r.moy = 1)
            /\ r = vld_w_date(dIndex)
=============================================================================
