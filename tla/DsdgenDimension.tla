--------------------------- MODULE DsdgenDimension --------------------------
(***************************************************************************)
(* The dimensions that keep their history: of six rows, the first is an    *)
(* item with one revision, the next two one with two and the last three    *)
(* one with three (scd.c).  The value of a field is the row that drew it,  *)
(* or -1 where the row has put that in its place.                          *)
(***************************************************************************)
EXTENDS DsdgenScaling

CONSTANT DimensionJobs    \* records of a table, a scale and a first row

\* The tables with the flag TYPE_2.
HistoryTables == {"CALL_CENTER", "ITEM", "STORE", "WEB_PAGE", "WEB_SITE"}

\* A job begins with a row that owes nothing to the one before it: the first of
\* six.  Its table has a number of rows at its scale.
ASSUME DimensionJobsAssumption ==
    \A j \in DimensionJobs :
        /\ j.table \in HistoryTables
        /\ j.first \in Nat /\ j.first % 6 = 1
        /\ get_rowcount(j.table, j.scale) \in Nat

VARIABLES
    hJob,      \* the job
    hRow,      \* the row built last: its keys, its dates, its fields
    hOld,      \* g_OldValues, the fields to retain
    hHistory,  \* the keys and dates of the rows built
    hDraws,    \* what each row of the item drew: its flags, wp_autogen_flag
    hJoin      \* the last join: its id, its date, what it returned
historyVars == <<hJob, hRow, hOld, hHistory, hDraws, hJoin>>

\* The bound of a job: two rounds of six rows.
RowsBuilt == 12

\* The position of a table, by which its revisions come earlier.
tableNumber(table) == CHOOSE n \in 0..24 : w_tdefs_Order[n + 1] = table

jMinimumDataDate == DATA_START_DATE
jMaximumDataDate == DATA_END_DATE
jH1DataDate == jMinimumDataDate + ((jMaximumDataDate - jMinimumDataDate) \div 2)
jThird == (jMaximumDataDate - jMinimumDataDate) \div 3
jT1DataDate == jMinimumDataDate + jThird
jT2DataDate == jT1DataDate + jThird

newBKey(index) == (index % 6) \in {1, 2, 4}

\* The first revision of the item that a row is a revision of.
firstRevision(index) ==
    CASE (index % 6) \in {1, 2, 4} -> index
      [] (index % 6) \in {3, 5} -> index - 1
      [] OTHER -> index - 2

setSCDKeys_NotEarly(table, index) ==
    LET early == tableNumber(table) * 6
        at == index % 6
    IN  [key |-> firstRevision(index),
         begin |-> CASE at = 3 -> jH1DataDate + 1
                     [] at = 5 -> jT1DataDate + 1
                     [] at = 0 -> jT2DataDate + 1
                     [] OTHER -> jMinimumDataDate - early,
         end |-> CASE at = 2 -> jH1DataDate - early
                   [] at = 4 -> jT1DataDate - early
                   [] at = 5 -> jT2DataDate - early
                   [] OTHER -> -1]

\* The key of a row is that of its first revision; an end of -1 is open, and no
\* end comes after the data. The revisions of a table come six days earlier
\* than those of the table before it.
setSCDKeys(table, index) ==
    LET early == tableNumber(table) * 6
        at == index % 6
        end == CASE at = 2 -> jH1DataDate - early
                 [] at = 4 -> jT1DataDate - early
                 [] at = 5 -> jT2DataDate - early
                 [] OTHER -> -1
    IN  [key |-> firstRevision(index),
         begin |-> CASE at = 3 -> jH1DataDate - early + 1
                     [] at = 5 -> jT1DataDate - early + 1
                     [] at = 0 -> jT2DataDate - early + 1
                     [] OTHER -> jMinimumDataDate - early,
         end |-> IF end > jMaximumDataDate THEN -1 ELSE end]

(***************************************************************************)
(* From an id to a row                                                     *)
(***************************************************************************)
matchSCDSK_NoCap(table, scale, unique, julian) ==
    LET after(d) == IF julian > d THEN 1 ELSE 0
        base == (unique \div 3) * 6
    IN  IF unique % 3 = 1 THEN base + 1
        ELSE IF unique % 3 = 2 THEN base + 2 + after(jH1DataDate)
        ELSE base - 2 + after(jT1DataDate) + after(jT2DataDate)
matchSCDSK(table, scale, unique, julian) ==
    LET after(d) == IF julian > d THEN 1 ELSE 0
        base == (unique \div 3) * 6
        row == IF unique % 3 = 1 THEN base + 1
               ELSE IF unique % 3 = 2 THEN base + 2 + after(jH1DataDate)
               ELSE base - 2 + after(jT1DataDate) + after(jT2DataDate)
        rows == get_rowcount(table, scale)
    IN  IF row > rows THEN rows ELSE row

\* Any id, and no row after the last date.
scd_join(table, scale, unique, julian) ==
    LET row == matchSCDSK(table, scale, unique, julian)
    IN  IF julian > jMaximumDataDate \/ row > get_rowcount(table, scale) THEN -1 ELSE row

getFirstSK(id) ==
    IF id % 3 = 1 THEN (id \div 3) * 6 + 1
    ELSE IF id % 3 = 2 THEN (id \div 3) * 6 + 2 ELSE ((id \div 3) - 1) * 6 + 4

\* Any revision of the id.
getSKFromID(id) ==
    IF id % 3 = 1 THEN {(id \div 3) * 6 + 1}
    ELSE IF id % 3 = 2 THEN {(id \div 3) * 6 + i : i \in 2..3}
    ELSE {((id \div 3) - 1) * 6 + i : i \in 4..6}

(***************************************************************************)
(* changeSCD                                                               *)
(***************************************************************************)
\* The kinds of the fields in the order of their calls. FIRST is a field that is
\* assigned when the key is new and left alone after; PRICE is a decimal that is
\* copied as an int, which is not its number.
w_call_center_Fields == <<"FIRST", "PTR", "INT", "INT", "PTR", "CHAR", "INT", "CHAR", "CHAR",
    "CHAR", "INT", "INT", "CHAR", "CHAR", "DEC">>
w_item_Fields == <<"CHAR", "PRICE", "DEC", "KEY", "KEY", "PTR", "KEY", "CHAR", "CHAR", "PTR",
    "PTR", "PTR">>
w_store_Fields == <<"KEY", "CHAR", "INT", "INT", "PTR", "CHAR", "INT", "DEC", "PTR", "CHAR",
    "CHAR", "KEY", "PTR", "KEY", "PTR", "PTR", "PTR", "INT", "PTR", "PTR", "PTR", "PTR", "INT",
    "INT">>
w_web_page_Fields == <<"KEY", "KEY", "INT", "KEY", "CHAR", "PTR", "INT", "INT", "INT", "INT">>
w_web_site_Fields == <<"FIRST", "CHAR", "INT", "CHAR", "CHAR", "CHAR", "INT", "CHAR", "PTR",
    "PTR", "INT", "PTR", "PTR", "PTR", "PTR", "INT", "INT", "DEC">>
FieldsOf(table) ==
    CASE table = "CALL_CENTER" -> w_call_center_Fields
      [] table = "ITEM" -> w_item_Fields
      [] table = "STORE" -> w_store_Fields
      [] table = "WEB_PAGE" -> w_web_page_Fields
      [] table = "WEB_SITE" -> w_web_site_Fields

\* The bit patterns of the flags that a row may draw: their odd bits retain.
FlagPatterns == {"none", "all", "odd", "even"}
odd(flags, call) ==
    flags = "all" \/ (flags = "odd" /\ call % 2 = 1) \/ (flags = "even" /\ call % 2 = 0)

\* A pointer is copied to a parameter: it is neither retained nor remembered.
changeSCD_Forgets(kind, new, old, retain, first) ==
    IF kind \in {"PTR", "PRICE"} THEN [new |-> new, old |-> old]
    ELSE IF retain /\ ~first THEN [new |-> old, old |-> old]
    ELSE [new |-> new, old |-> IF first THEN new ELSE old]
changeSCD(kind, new, old, retain, first) ==
    IF kind \in {"PTR", "PRICE"} THEN [new |-> new, old |-> old]
    ELSE IF retain /\ ~first THEN [new |-> old, old |-> old] ELSE [new |-> new, old |-> new]

\* A web page that is not generated has no customer: its row gets -1 after
\* changeSCD has retained or remembered one. (The -1 for an access or closing
\* date of 0 is never needed: such a date is drawn, and no drawn date is 0.)
wp_autogen_flag == 3
wp_customer_sk == 4
NoCustomer(table, i, autogen) == table = "WEB_PAGE" /\ i = wp_customer_sk /\ autogen = 0

(***************************************************************************)
(* The rows of a job                                                       *)
(***************************************************************************)
noRevision == [sk |-> 0, key |-> 0, begin |-> 0, end |-> 0, autogen |-> 1, fields |-> <<>>]
noJob == [table |-> "none", scale |-> 1, first |-> 1]
noJoin == [unique |-> 0, julian |-> 0, sk |-> 0]
DimensionIdle ==
    hJob = noJob /\ hRow = noRevision /\ hOld = <<>> /\ hHistory = <<>> /\ hDraws = <<>>
    /\ hJoin = noJoin
DimensionInit ==
    /\ hJob \in DimensionJobs
    /\ hRow = noRevision
    /\ hOld = [i \in DOMAIN FieldsOf(hJob.table) |-> 0]
    /\ hHistory = <<>> /\ hDraws = <<>> /\ hJoin = noJoin

LastBuilt(job) ==
    LET rows == get_rowcount(job.table, job.scale)
    IN  IF rows < job.first + RowsBuilt - 1 THEN rows ELSE job.first + RowsBuilt - 1

\* The number of the call that a field is changed by: the flags are halved in it.
CallNumber(kinds, i) == Cardinality({j \in 1..i : kinds[j] # "FIRST"})

\* A field of the row at an index, new and old.
RevisedField(kinds, i, index, flags) ==
    IF kinds[i] = "FIRST"
      THEN [new |-> IF newBKey(index) THEN index ELSE hRow.fields[i], old |-> 0]
    ELSE changeSCD(kinds[i], index, hOld[i], odd(flags, CallNumber(kinds, i)), newBKey(index))

\* The mk_w_* of a table. mk_w_item copies its first revision to the old values;
\* only mk_w_web_page draws a wp_autogen_flag, of which the row holds what its
\* old values hold.
BuildRevision ==
    LET index == hJob.first + Len(hHistory)
        kinds == FieldsOf(hJob.table)
        scd == setSCDKeys(hJob.table, index)
        first == newBKey(index)
    IN  /\ hJob # noJob /\ index <= LastBuilt(hJob)
        /\ \E flags \in FlagPatterns, drawn \in IF hJob.table = "WEB_PAGE" THEN {0, 1} ELSE {1} :
               LET field(i) == RevisedField(kinds, i, index, flags)
                   autogen == changeSCD("INT", drawn, hRow.autogen,
                                        odd(flags, CallNumber(kinds, wp_autogen_flag)), first).new
               IN  /\ hDraws' = Append(IF first THEN <<>> ELSE hDraws,
                                      [flags |-> flags, autogen |-> drawn])
                   /\ hRow' = [sk |-> index, key |-> scd.key, begin |-> scd.begin, end |-> scd.end,
                               autogen |-> autogen,
                               fields |-> [i \in DOMAIN kinds |->
                                              IF NoCustomer(hJob.table, i, autogen) THEN -1
                                              ELSE field(i).new]]
                   /\ hOld' = IF hJob.table = "ITEM" /\ first THEN hRow'.fields
                              ELSE [i \in DOMAIN kinds |-> field(i).old]
        /\ hHistory' = Append(hHistory, [sk |-> index, key |-> scd.key, begin |-> scd.begin, end |-> scd.end])
        /\ UNCHANGED <<hJob, hJoin>>

\* The ids of the rows built, and the dates around which a revision changes.
IdsBuilt ==
    LET before == (hJob.first \div 6) * 3
    IN  {u \in (before + 1)..(before + RowsBuilt) :
            u <= getIDCount(hJob.table, hJob.scale) /\ getFirstSK(u) <= hRow.sk}
JoinDates == UNION {(d - 1)..(d + 1) : d \in {jMinimumDataDate + 1, jH1DataDate, jT1DataDate,
                                              jT2DataDate, jMaximumDataDate}}

\* A sale or an inventory picks a row of the built table for a date; what the
\* rows drew makes no difference to it (bound: one choice of the draws).
JoinRevision ==
    /\ hJob # noJob /\ hRow.sk = LastBuilt(hJob) /\ hJoin = noJoin
    /\ \A n \in DOMAIN hDraws : hDraws[n] = [flags |-> "none", autogen |-> 1]
    /\ \E u \in IdsBuilt, d \in JoinDates :
           hJoin' = [unique |-> u, julian |-> d, sk |-> scd_join(hJob.table, hJob.scale, u, d)]
    /\ UNCHANGED <<hJob, hRow, hOld, hHistory, hDraws>>

HistoryNext == BuildRevision \/ JoinRevision
HistorySpec == (DimensionInit \/ DimensionIdle) /\ [][HistoryNext]_historyVars

(***************************************************************************)
(* Properties                                                              *)
(***************************************************************************)
Rows(key) == {i \in DOMAIN hHistory : hHistory[i].key = key}

\* The first revision of a key begins before the data does, the others follow
\* without a gap or an overlap, and the last one is open when the next key
\* begins: a table may only end inside a history (scd.c setSCDKeys).
RevisionsFollow ==
    \A i \in DOMAIN hHistory :
        LET r == hHistory[i]
            next == hHistory[i + 1]
        IN  /\ r.key = r.sk => r.begin = jMinimumDataDate - 6 * tableNumber(hJob.table)
            /\ i < Len(hHistory) =>
                   IF next.key = r.key THEN r.begin <= r.end /\ next.begin = r.end + 1
                   ELSE r.end = -1 /\ next.key = next.sk

\* The rows of an item that drew a field themselves, by their place in the item;
\* the fields that mk_* assigns when the key is new are the first one's.
Drew(draws, kinds, i) ==
    {n \in DOMAIN draws :
        \/ n = 1
        \/ /\ kinds[i] # "FIRST"
           /\ kinds[i] \in {"PTR", "PRICE"} \/ ~odd(draws[n].flags, CallNumber(kinds, i))}
LastDrawn(draws, kinds, i) ==
    CHOOSE n \in Drew(draws, kinds, i) : \A m \in Drew(draws, kinds, i) : m <= n

\* Every field of a revision is that of the last revision of the same item that
\* drew it, however many have retained it since: never another item's. The
\* customer of a web page is the exception: it is -1 in every revision whose
\* wp_autogen_flag, retained or drawn, is 0, and comes back with the flag (scd.c
\* changeSCD, the calls of mk_w_*, w_web_page.c:153).
RetainedFromOwnItem ==
    hRow # noRevision =>
        LET kinds == FieldsOf(hJob.table)
            last(i) == LastDrawn(hDraws, kinds, i)
        IN  \A i \in DOMAIN kinds :
               hRow.fields[i] =
                   IF NoCustomer(hJob.table, i, hDraws[last(wp_autogen_flag)].autogen) THEN -1
                   ELSE hRow.key + last(i) - 1

\* For a date of the data a join returns a row of the id it picked, the one
\* whose revision holds on that date or, for as many days as the table's
\* revisions come early, the one that has just ended; the other ways from an id
\* to a row return rows of the same item; after the last date there is no row
\* (scd.c scd_join, matchSCDSK, getSKFromID, getFirstSK).
JoinFindsRevision ==
    hJoin # noJoin =>
        LET key == getFirstSK(hJoin.unique)
            at == CHOOSE i \in DOMAIN hHistory : hHistory[i].sk = hJoin.sk
            r == hHistory[at]
        IN  IF hJoin.julian > jMaximumDataDate THEN hJoin.sk = -1
            ELSE /\ \E i \in Rows(key) : hHistory[i].sk = hJoin.sk
                 /\ r.begin <= hJoin.julian
                 /\ \/ r.end = -1 \/ hJoin.julian <= r.end + 6 * tableNumber(hJob.table)
                    \/ hJoin.sk = get_rowcount(hJob.table, hJob.scale)
                 /\ \A sk \in getSKFromID(hJoin.unique) :
                        sk <= hRow.sk => \E i \in Rows(key) : hHistory[i].sk = sk

\* A key has one history without gaps, and whatever way a sale goes from an item
\* and a date to a row ends in the revision of that date (scd.c).
HistoryIsSound == RevisionsFollow /\ JoinFindsRevision
=============================================================================
