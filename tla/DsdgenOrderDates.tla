-------------------------- MODULE DsdgenOrderDates --------------------------
(***************************************************************************)
(* The dates of the orders of a sales table.  An order is dated by its row *)
(* number alone, so that a child of a parallel run finds the day at which  *)
(* its rows begin by counting the rows of the days before (driver.c        *)
(* skipDays, the masters of w_store_sales.c, w_catalog_sales.c and         *)
(* w_web_sales.c).                                                         *)
(***************************************************************************)
EXTENDS DsdgenScaling

CONSTANT OrderJobs    \* records of a table, a scale, -parallel and -child
CONSTANT DaysBuilt    \* days that a child builds before the model stops

ASSUME OrderJobsAssumption ==
    \A j \in OrderJobs :
        /\ get_rowcount(j.table, j.scale) \in Nat
        /\ j.parallel \in Nat \ {0} /\ j.child \in 1..j.parallel

VARIABLES
    oJob,      \* the job, with the first and the last row of the child
    oStage,    \* "skip", "orders", or "none" for a child without rows
    oIndex,    \* skipDays: the first row of jDate; after: the next row to build
    jDate,     \* the day, counted from the first
    kNewDateIndex,  \* the last row of the day
    oBuilt     \* the rows built last and their day, and how many days were built
orderVars == <<oJob, oStage, oIndex, jDate, kNewDateIndex, oBuilt>>

\* split_work, where a table is split at all.
least(a, b) == IF a < b THEN a ELSE b
split_work(rows, parallel, child) ==
    LET extra == rows % parallel
        size == rows \div parallel
        first == 1 + (child - 1) * size + least(child - 1, extra)
    IN  IF rows < 1000000
          THEN [first |-> 1, last |-> IF child > 1 THEN 0 ELSE rows]
        ELSE [first |-> first, last |-> first + size - (IF child <= extra THEN 0 ELSE 1)]

\* The rows of a day.
c(job, day) ==
    dateScaling(salesOf(job.table), get_rowcount(job.table, job.scale), DATA_START_DATE + day)

noOrders == [table |-> "none", scale |-> 1, first |-> 1, last |-> 0]
noneBuilt == [first |-> 0, last |-> 0, day |-> 0, days |-> 0]
OrderIdle ==
    oJob = noOrders /\ oStage = "none" /\ oIndex = 1 /\ jDate = 0 /\ kNewDateIndex = 0
    /\ oBuilt = noneBuilt
OrderInit ==
    /\ \E j \in OrderJobs :
           LET share == split_work(get_rowcount(j.table, j.scale), j.parallel, j.child)
           IN  /\ oJob = [table |-> j.table, scale |-> j.scale, first |-> share.first, last |-> share.last]
               /\ oStage = IF share.last < share.first THEN "none" ELSE "skip"
               /\ kNewDateIndex = IF share.last < share.first THEN 0
                                  ELSE c(oJob, 0) + 1
    /\ oIndex = 1 /\ jDate = 0 /\ oBuilt = noneBuilt

\* skipDays: a day whose rows, but perhaps the last ones, another child builds.
SkipDay ==
    /\ oStage = "skip" /\ oIndex < oJob.first
    /\ oIndex' = oIndex + c(oJob, jDate)
    /\ jDate' = jDate + 1
    /\ kNewDateIndex' = oIndex'
    /\ UNCHANGED <<oJob, oStage, oBuilt>>

\* The day before is not over where more rows were counted than are skipped.
BeginOrders_NextDay ==
    /\ oStage = "skip" /\ oIndex >= oJob.first
    /\ oStage' = "orders"
    /\ oIndex' = oJob.first
    /\ UNCHANGED <<oJob, jDate, kNewDateIndex, oBuilt>>
BeginOrders ==
    /\ oStage = "skip" /\ oIndex >= oJob.first
    /\ oStage' = "orders"
    /\ jDate' = IF oIndex > oJob.first THEN jDate - 1 ELSE jDate
    /\ oIndex' = oJob.first
    /\ UNCHANGED <<oJob, kNewDateIndex, oBuilt>>

\* mk_master: a row past the last one of the day belongs to the next.
NextDay ==
    /\ oStage = "orders" /\ oIndex <= oJob.last /\ oIndex > kNewDateIndex
    /\ oBuilt.days < DaysBuilt
    /\ jDate' = jDate + 1
    /\ kNewDateIndex' = kNewDateIndex + c(oJob, jDate')
    /\ UNCHANGED <<oJob, oStage, oIndex, oBuilt>>

\* The rows that mk_master gives the day.
BuildOrders ==
    /\ oStage = "orders" /\ oIndex <= oJob.last /\ oIndex <= kNewDateIndex
    /\ LET last == least(kNewDateIndex, oJob.last)
       IN  /\ oBuilt' = [first |-> oIndex, last |-> last, day |-> jDate, days |-> oBuilt.days + 1]
           /\ oIndex' = last + 1
    /\ UNCHANGED <<oJob, oStage, jDate, kNewDateIndex>>

OrderNext == SkipDay \/ BeginOrders \/ NextDay \/ BuildOrders
OrderSpec == (OrderInit \/ OrderIdle) /\ [][OrderNext]_orderVars

(***************************************************************************)
(* Properties                                                              *)
(***************************************************************************)
\* The last row of each day in one serial run.
SerialEnds(job) ==
    LET end[day \in Nat] == IF day = 0 THEN 1 + c(job, 0) ELSE end[day - 1] + c(job, day)
    IN  end
SerialEnd(day) == SerialEnds(oJob)[day]
OnSerialDay(row, day) == row <= SerialEnd(day) /\ (day = 0 \/ row > SerialEnd(day - 1))

\* The child begins with the last row of a day, and skipDays goes on to the next.
EndsAtFirst(day) ==
    /\ SerialEnd(day) = oJob.first
    /\ \A earlier \in 0..(day - 1) : SerialEnd(earlier) < oJob.first
BeginsAtAnEnd == oJob.first > 1 /\ \E day \in 0..jDate : EndsAtFirst(day)
DayBegun == 1 + CHOOSE day \in 0..jDate : EndsAtFirst(day)

\* The rows of a child have the dates that one serial run gives them, leap days,
\* days without sales and all, unless the child begins with the last row of a
\* day. Then skipDays gives this row the next day, and no other: all rows after
\* it are dated as if the rows of that day had been built already (driver.c
\* skipDays, parallel.c split_work, mk_master).
ChunkDatesAreSerial ==
    oBuilt # noneBuilt =>
        \A row \in {oBuilt.first, oBuilt.last} :
            IF ~BeginsAtAnEnd THEN OnSerialDay(row, oBuilt.day)
            ELSE IF oBuilt.day = DayBegun THEN row = oJob.first
            ELSE oBuilt.day > DayBegun /\ OnSerialDay(row + c(oJob, DayBegun), oBuilt.day)
=============================================================================
