------------------------- MODULE DsdgenDates_proofs -------------------------
(***************************************************************************)
(* Proofs about the dates of dsdgen, for all jobs and scales: of a history *)
(* table, the revisions of a key follow without a gap, a field is that of  *)
(* the last revision that drew it and a join finds the revision of its     *)
(* date; the orders of a child have the dates of one serial run; the rows  *)
(* of an update set lie on its dates.                                      *)
(***************************************************************************)
EXTENDS DsdgenDimension, DsdgenOrderDates, DsdgenUpdateSet, SequenceTheorems,
        FiniteSetTheorems, WellFoundedInduction, TLAPS

-----------------------------------------------------------------------------
(* Dates and tables.                                                         *)

LEMMA DataDates ==
    /\ jMinimumDataDate = 2450815 /\ jT1DataDate = 2451545
    /\ jH1DataDate = 2451910 /\ jT2DataDate = 2452275 /\ jMaximumDataDate = 2453005
<1>1. jMinimumDataDate = 2450815 BY DEF jMinimumDataDate, DATA_START_DATE, dttoj
<1>2. jMaximumDataDate = 2453005 BY DEF jMaximumDataDate, DATA_END_DATE, dttoj
<1>3. jThird = 730 BY <1>1, <1>2 DEF jThird
<1>4. QED BY <1>1, <1>2, <1>3 DEF jH1DataDate, jT1DataDate, jT2DataDate

LEMMA TableNumbers ==
    ASSUME NEW table \in HistoryTables PROVE tableNumber(table) \in 0..24
<1>1. \E n \in 0..24 : w_tdefs_Order[n + 1] = table
  <2>1. CASE table = "CALL_CENTER" BY <2>1 DEF w_tdefs_Order
  <2>2. CASE table = "ITEM" BY <2>2 DEF w_tdefs_Order
  <2>3. CASE table = "STORE" BY <2>3 DEF w_tdefs_Order
  <2>4. CASE table = "WEB_PAGE" BY <2>4 DEF w_tdefs_Order
  <2>5. CASE table = "WEB_SITE" BY <2>5 DEF w_tdefs_Order
  <2>6. QED BY <2>1, <2>2, <2>3, <2>4, <2>5 DEF HistoryTables
<1>2. QED BY <1>1 DEF tableNumber

-----------------------------------------------------------------------------
(* The keys and dates of a row and of the next one.                          *)

LEMMA KeysOf ==
    ASSUME NEW table \in HistoryTables, NEW index \in Nat
    PROVE  LET k == setSCDKeys(table, index)
           IN  /\ k.key = firstRevision(index) /\ k.begin \in Int /\ k.end \in Int
               /\ k.begin = CASE index % 6 = 3 -> 2451911 - tableNumber(table) * 6
                              [] index % 6 = 5 -> 2451546 - tableNumber(table) * 6
                              [] index % 6 = 0 -> 2452276 - tableNumber(table) * 6
                              [] OTHER -> 2450815 - tableNumber(table) * 6
               /\ k.end = CASE index % 6 = 2 -> 2451910 - tableNumber(table) * 6
                            [] index % 6 = 4 -> 2451545 - tableNumber(table) * 6
                            [] index % 6 = 5 -> 2452275 - tableNumber(table) * 6
                            [] OTHER -> -1
<1>1. tableNumber(table) \in 0..24 BY TableNumbers
<1>2. PICK t \in 0..24 : t = tableNumber(table) BY <1>1
<1>3. PICK m \in 0..5 : m = index % 6 OBVIOUS
<1>4. QED BY <1>2, <1>3, DataDates DEF setSCDKeys

LEMMA FirstRevisions ==
    ASSUME NEW index \in Nat
    PROVE  /\ firstRevision(index) \in Int /\ firstRevision(index) <= index
           /\ newBKey(index) <=> firstRevision(index) = index
           /\ newBKey(index + 1) => firstRevision(index + 1) = index + 1
           /\ ~newBKey(index + 1) => firstRevision(index + 1) = firstRevision(index)
<1>1. index % 6 \in 0..5 BY SMT
<1>2. (index + 1) % 6 = IF index % 6 = 5 THEN 0 ELSE (index % 6) + 1 BY SMT
<1>3. QED BY <1>1, <1>2 DEF firstRevision, newBKey

\* A revision follows the one before it, and the last of a key is open.
LEMMA NextRevision ==
    ASSUME NEW table \in HistoryTables, NEW index \in Nat
    PROVE  LET r == setSCDKeys(table, index)
               next == setSCDKeys(table, index + 1)
           IN  IF newBKey(index + 1) THEN r.end = -1
               ELSE r.begin <= r.end /\ next.begin = r.end + 1
<1>1. PICK t \in 0..24 : t = tableNumber(table) BY TableNumbers
<1>2. index % 6 \in 0..5 BY SMT
<1>3. (index + 1) % 6 = IF index % 6 = 5 THEN 0 ELSE (index % 6) + 1 BY SMT
<1>4. QED BY <1>1, <1>2, <1>3, KeysOf DEF newBKey

\* The first row of an id is a first revision.
LEMMA FirstRows ==
    ASSUME NEW u \in Nat \ {0}
    PROVE  getFirstSK(u) \in Nat \ {0} /\ firstRevision(getFirstSK(u)) = getFirstSK(u)
<1>1. PICK q \in Nat : q = u \div 3 BY SMT
<1>2. PICK r \in 0..2 : r = u % 3 BY SMT
<1>3. u = 3 * q + r BY <1>1, <1>2
<1>4. getFirstSK(u) = IF r = 1 THEN q * 6 + 1 ELSE IF r = 2 THEN q * 6 + 2 ELSE q * 6 - 2
  BY <1>1, <1>2 DEF getFirstSK
<1>5. (q * 6 + 1) % 6 = 1 /\ (q * 6 + 2) % 6 = 2 /\ (q >= 1 => (q * 6 - 2) % 6 = 4) BY SMT
<1>6. r = 0 => q >= 1 BY <1>3
<1>7. QED BY <1>4, <1>5, <1>6 DEF firstRevision

\* For a date of the data, a join finds the revision of an id that holds on the
\* date, or the last row of the table.
LEMMA JoinFinds ==
    ASSUME NEW table \in HistoryTables, NEW scale, NEW u \in Nat \ {0}, NEW d \in Nat,
           get_rowcount(table, scale) \in Nat, getFirstSK(u) <= get_rowcount(table, scale),
           jMinimumDataDate <= d, d <= jMaximumDataDate
    PROVE  LET sk == scd_join(table, scale, u, d)
               r == setSCDKeys(table, sk)
           IN  /\ sk \in Nat /\ sk <= get_rowcount(table, scale)
               /\ firstRevision(sk) = getFirstSK(u) /\ r.begin <= d
               /\ \/ r.end = -1 \/ d <= r.end + 6 * tableNumber(table)
                  \/ sk = get_rowcount(table, scale)
<1>1. PICK q \in Nat : q = u \div 3 BY SMT
<1>2. PICK r \in 0..2 : r = u % 3 BY SMT
<1>3. u = 3 * q + r BY <1>1, <1>2
<1>4. r = 0 => q >= 1 BY <1>3
<1>5. PICK rows \in Nat : rows = get_rowcount(table, scale) OBVIOUS
<1>6. PICK t \in 0..24 : t = tableNumber(table) BY TableNumbers
<1>7. PICK row : row = IF r = 1 THEN q * 6 + 1
                       ELSE IF r = 2 THEN q * 6 + 2 + (IF d > 2451910 THEN 1 ELSE 0)
                       ELSE q * 6 - 2 + (IF d > 2451545 THEN 1 ELSE 0)
                                      + (IF d > 2452275 THEN 1 ELSE 0)
  OBVIOUS
<1>8. getFirstSK(u) = IF r = 1 THEN q * 6 + 1 ELSE IF r = 2 THEN q * 6 + 2 ELSE q * 6 - 2
  BY <1>1, <1>2 DEF getFirstSK
<1>9. PICK sk : sk = IF row > rows THEN rows ELSE row OBVIOUS
<1>10. scd_join(table, scale, u, d) = sk
  <2>1. matchSCDSK(table, scale, u, d) = sk
    BY <1>1, <1>2, <1>5, <1>7, <1>9, DataDates DEF matchSCDSK
  <2>2. ~(d > jMaximumDataDate) BY DataDates
  <2>3. row \in Int BY <1>7
  <2>4. ~(sk > rows) BY <1>9, <2>3
  <2>5. QED BY <1>5, <2>1, <2>2, <2>4 DEF scd_join
<1>11. /\ sk \in Nat /\ sk <= rows /\ getFirstSK(u) <= sk
       /\ sk = rows \/ sk = row
  BY <1>4, <1>5, <1>7, <1>8, <1>9
<1>12. sk <= row /\ row \in Nat BY <1>4, <1>7, <1>9
<1>13. setSCDKeys(table, sk).begin <= d
       /\ firstRevision(sk) = getFirstSK(u)
       /\ (sk = row => \/ setSCDKeys(table, sk).end = -1
                       \/ d <= setSCDKeys(table, sk).end + 6 * t)
  <2>1. CASE r = 1
    <3>1. sk = q * 6 + 1 BY <1>7, <1>8, <1>11, <1>12, <2>1
    <3>2. sk % 6 = 1 BY <3>1
    <3>3. QED BY <1>6, <1>8, <1>11, <2>1, <3>1, <3>2, KeysOf, DataDates DEF firstRevision
  <2>2. CASE r = 2
    <3>1. sk = q * 6 + 2 \/ sk = q * 6 + 3 BY <1>7, <1>8, <1>11, <1>12, <2>2
    <3>2. CASE sk = q * 6 + 2
      <4>1. sk % 6 = 2 BY <3>2
      <4>2. sk = row => d <= 2451910 BY <1>7, <2>2, <3>2
      <4>3. QED BY <1>6, <1>8, <1>11, <2>2, <3>2, <4>1, <4>2, KeysOf, DataDates DEF firstRevision
    <3>3. CASE sk = q * 6 + 3
      <4>1. sk % 6 = 3 BY <3>3
      <4>2. d > 2451910 BY <1>7, <1>12, <2>2, <3>3
      <4>3. QED BY <1>6, <1>8, <1>11, <2>2, <3>3, <4>1, <4>2, KeysOf, DataDates DEF firstRevision
    <3>4. QED BY <3>1, <3>2, <3>3
  <2>3. CASE r = 0
    <3>1. q >= 1 BY <1>4, <2>3
    <3>2. sk = q * 6 - 2 \/ sk = q * 6 - 1 \/ sk = q * 6
      BY <1>7, <1>8, <1>11, <1>12, <2>3, <3>1
    <3>3. CASE sk = q * 6 - 2
      <4>1. sk % 6 = 4 BY <3>1, <3>3
      <4>2. sk = row => d <= 2451545 BY <1>7, <2>3, <3>3
      <4>3. QED BY <1>6, <1>8, <1>11, <2>3, <3>3, <4>1, <4>2, KeysOf, DataDates DEF firstRevision
    <3>4. CASE sk = q * 6 - 1
      <4>1. sk % 6 = 5 BY <3>1, <3>4
      <4>2. d > 2451545 /\ (sk = row => d <= 2452275) BY <1>7, <1>12, <2>3, <3>4
      <4>3. QED BY <1>6, <1>8, <1>11, <2>3, <3>4, <4>1, <4>2, KeysOf, DataDates DEF firstRevision
    <3>5. CASE sk = q * 6
      <4>1. sk % 6 = 0 BY <3>1, <3>5
      <4>2. d > 2452275 BY <1>7, <1>12, <2>3, <3>5
      <4>3. QED BY <1>6, <1>8, <1>11, <2>3, <3>5, <4>1, <4>2, KeysOf, DataDates DEF firstRevision
    <3>6. QED BY <3>2, <3>3, <3>4, <3>5
  <2>4. QED BY <2>1, <2>2, <2>3
<1>14. QED BY <1>5, <1>6, <1>10, <1>11, <1>13

\* Whatever other way leads from an id to a row ends in a revision of the id.
LEMMA RowsOfId ==
    ASSUME NEW u \in Nat \ {0}, NEW sk \in getSKFromID(u)
    PROVE  sk \in Nat /\ firstRevision(sk) = getFirstSK(u)
<1>1. PICK q \in Nat : q = u \div 3 BY SMT
<1>2. PICK r \in 0..2 : r = u % 3 BY SMT
<1>3. u = 3 * q + r BY <1>1, <1>2
<1>4. r = 0 => q >= 1 BY <1>3
<1>5. getFirstSK(u) = IF r = 1 THEN q * 6 + 1 ELSE IF r = 2 THEN q * 6 + 2 ELSE q * 6 - 2
  BY <1>1, <1>2 DEF getFirstSK
<1>6. \/ r = 1 /\ sk = q * 6 + 1
      \/ r = 2 /\ (sk = q * 6 + 2 \/ sk = q * 6 + 3)
      \/ r = 0 /\ (sk = q * 6 - 2 \/ sk = q * 6 - 1 \/ sk = q * 6)
  <2>1. CASE r = 1 BY <1>1, <1>2, <2>1 DEF getSKFromID
  <2>2. CASE r = 2
    <3>1. PICK i \in 2..3 : sk = q * 6 + i BY <1>1, <1>2, <2>2 DEF getSKFromID
    <3>2. QED BY <2>2, <3>1
  <2>3. CASE r = 0
    <3>1. PICK i \in 4..6 : sk = (q - 1) * 6 + i BY <1>1, <1>2, <2>3 DEF getSKFromID
    <3>2. QED BY <2>3, <3>1
  <2>4. QED BY <2>1, <2>2, <2>3
<1>7. /\ (q * 6 + 1) % 6 = 1 /\ (q * 6 + 2) % 6 = 2 /\ (q * 6 + 3) % 6 = 3
      /\ q >= 1 => (q * 6 - 2) % 6 = 4 /\ (q * 6 - 1) % 6 = 5 /\ (q * 6) % 6 = 0
  BY SMT
<1>8. QED BY <1>4, <1>5, <1>6, <1>7 DEF firstRevision

-----------------------------------------------------------------------------
(* The inductive invariant.                                                  *)

Revision(table, index) ==
    LET scd == setSCDKeys(table, index)
    IN  [sk |-> index, key |-> scd.key, begin |-> scd.begin, end |-> scd.end]

Revisions == [sk : Int, key : Int, begin : Int, end : Int]

\* The rows built are those of the job, from its first on.
JobInv ==
    /\ hJob # noJob => hJob \in DimensionJobs
    /\ hJob = noJob => hHistory = <<>> /\ hJoin = noJoin
    /\ hHistory \in Seq(Revisions)
    /\ \A i \in 1..Len(hHistory) : hHistory[i] = Revision(hJob.table, hJob.first + i - 1)

\* The last row of an item that drew a field.
LastOf(draws, kinds, i, n) ==
    n \in Drew(draws, kinds, i) /\ \A m \in Drew(draws, kinds, i) : m <= n

Draws == [flags : FlagPatterns, autogen : {0, 1}]

\* A field and its old value are what the last row that drew the field left;
\* where the row puts -1 for it, its old value still is.
FieldDrawn(table, kinds, key, i) ==
    \E n \in Nat :
        /\ LastOf(hDraws, kinds, i, n)
        /\ kinds[i] \notin {"FIRST", "PTR", "PRICE"} => hOld[i] = key + n - 1
        /\ hRow.fields[i] = IF NoCustomer(table, i, hRow.autogen) THEN -1 ELSE key + n - 1

FlagDrawn(table, kinds) ==
    table = "WEB_PAGE" =>
        \E n \in Nat : /\ LastOf(hDraws, kinds, wp_autogen_flag, n)
                       /\ hRow.autogen = hDraws[n].autogen

\* There is one draw for every row of the item built last, and what the row and
\* the old values hold is what was drawn last.
RowInv ==
    /\ Len(hHistory) = 0 => hRow = noRevision
    /\ Len(hHistory) > 0 =>
        LET index == hJob.first + Len(hHistory) - 1
            kinds == FieldsOf(hJob.table)
        IN  /\ hRow.sk = index /\ hRow.key = firstRevision(index)
            /\ hDraws \in Seq(Draws) /\ Len(hDraws) = index - hRow.key + 1
            /\ FlagDrawn(hJob.table, kinds)
            /\ \A i \in DOMAIN kinds : FieldDrawn(hJob.table, kinds, hRow.key, i)

\* A join is made when the last row is built.
JoinInv ==
    hJoin # noJoin =>
        /\ Len(hHistory) > 0 /\ hRow.sk = LastBuilt(hJob)
        /\ \E u \in IdsBuilt, d \in JoinDates :
               hJoin = [unique |-> u, julian |-> d, sk |-> scd_join(hJob.table, hJob.scale, u, d)]

LEMMA JobFacts ==
    ASSUME NEW job \in DimensionJobs
    PROVE  /\ job.table \in HistoryTables /\ job.first \in Nat /\ job.first % 6 = 1
           /\ get_rowcount(job.table, job.scale) \in Nat /\ job # noJob
<1>1. job.table \in HistoryTables /\ job.first \in Nat /\ job.first % 6 = 1
      /\ get_rowcount(job.table, job.scale) \in Nat
  BY DimensionJobsAssumption
<1>2. job.table # "none" BY <1>1 DEF HistoryTables
<1>3. QED BY <1>1, <1>2 DEF noJob

LEMMA RevisionType ==
    ASSUME NEW table \in HistoryTables, NEW index \in Nat
    PROVE  Revision(table, index) \in Revisions
<1>1. setSCDKeys(table, index).key \in Int /\ setSCDKeys(table, index).begin \in Int
      /\ setSCDKeys(table, index).end \in Int
  BY KeysOf, FirstRevisions
<1>2. QED BY <1>1 DEF Revision, Revisions

-----------------------------------------------------------------------------
(* A row is built.                                                           *)

\* The row keeps the field of the row before, if that is of the same item.
Retains(kinds, i, flags) ==
    \/ kinds[i] = "FIRST"
    \/ kinds[i] \notin {"PTR", "PRICE"} /\ odd(flags, CallNumber(kinds, i))

\* Only one row is the last that drew a field.
LEMMA LastIs ==
    ASSUME NEW draws \in Seq(Draws), NEW kinds, NEW i, NEW n, LastOf(draws, kinds, i, n)
    PROVE  LastDrawn(draws, kinds, i) = n
<1>1. Drew(draws, kinds, i) \subseteq Int BY DEF Drew
<1>2. PICK d : d = Drew(draws, kinds, i) OBVIOUS
<1>3. n \in d /\ \A m \in d : m <= n BY <1>2 DEF LastOf
<1>4. LastDrawn(draws, kinds, i) = CHOOSE k \in d : \A m \in d : m <= k
    BY <1>2 DEF LastDrawn
<1>5. \A k \in d : (\A m \in d : m <= k) => k = n BY <1>1, <1>2, <1>3
<1>6. QED BY <1>3, <1>4, <1>5

\* The first row of an item draws every field.
LEMMA FirstDraws ==
    ASSUME NEW kinds, NEW i, NEW d \in Draws
    PROVE  LastOf(<<d>>, kinds, i, 1)
BY DEF LastOf, Drew

\* The next row of an item draws a field or leaves it to the one that drew it last.
LEMMA NextDraws ==
    ASSUME NEW draws \in Seq(Draws), NEW kinds, NEW i, NEW d \in Draws,
           NEW n \in Nat, LastOf(draws, kinds, i, n)
    PROVE  LastOf(Append(draws, d), kinds, i,
                  IF Retains(kinds, i, d.flags) THEN n ELSE Len(draws) + 1)
<1>1. PICK len \in Nat : len = Len(draws) OBVIOUS
<1>2. PICK more : more = Append(draws, d) OBVIOUS
<1>3. /\ DOMAIN draws = 1..len /\ DOMAIN more = 1..(len + 1)
      /\ \A m \in 1..len : more[m] = draws[m]
      /\ more[len + 1] = d
  BY <1>1, <1>2
<1>4. n \in Drew(draws, kinds, i) /\ \A m \in Drew(draws, kinds, i) : m <= n BY DEF LastOf
<1>5. n \in 1..len BY <1>3, <1>4 DEF Drew
<1>6. \A m \in 1..len : m \in Drew(more, kinds, i) <=> m \in Drew(draws, kinds, i)
  BY <1>3 DEF Drew
<1>7. len + 1 \in Drew(more, kinds, i) <=> ~Retains(kinds, i, d.flags)
  <2>1. len + 1 # 1 /\ len + 1 \in DOMAIN more BY <1>3, <1>5
  <2>2. QED BY <1>3, <2>1 DEF Drew, Retains
<1>8. Drew(more, kinds, i) \subseteq 1..(len + 1) BY <1>3 DEF Drew
<1>9. CASE Retains(kinds, i, d.flags)
  <2>1. \A m \in Drew(more, kinds, i) : m \in Drew(draws, kinds, i)
    BY <1>6, <1>7, <1>8, <1>9
  <2>2. QED BY <1>2, <1>4, <1>5, <1>6, <1>9, <2>1 DEF LastOf
<1>10. CASE ~Retains(kinds, i, d.flags)
  BY <1>1, <1>2, <1>7, <1>8, <1>10 DEF LastOf
<1>11. QED BY <1>9, <1>10

\* Where a customer may be put to -1 the page's flag is a field that may be
\* retained, and the customer is none that is left alone.
LEMMA PageFields ==
    LET kinds == FieldsOf("WEB_PAGE")
    IN  /\ kinds[wp_autogen_flag] = "INT" /\ kinds[wp_customer_sk] = "KEY"
BY DEF FieldsOf, w_web_page_Fields, wp_autogen_flag, wp_customer_sk

\* A revised field is that of the n-th row of the item, the last that drew it so
\* far, or of the row itself.
FieldReady(kinds, i, index, key, n) ==
    ~newBKey(index) =>
        /\ kinds[i] = "FIRST" => hRow.fields[i] = key + n - 1
        /\ kinds[i] \notin {"FIRST", "PTR", "PRICE"} => hOld[i] = key + n - 1

FieldDone(kinds, i, key, at, f) ==
    /\ f.new = key + at - 1
    /\ kinds[i] \notin {"FIRST", "PTR", "PRICE"} => f.old = key + at - 1

LEMMA FieldOf ==
    ASSUME NEW kinds, NEW i, NEW index \in Nat, NEW flags, NEW n \in Nat,
           NEW key \in Int, key = firstRevision(index),
           NEW at, at = IF ~newBKey(index) /\ Retains(kinds, i, flags) THEN n ELSE index - key + 1,
           FieldReady(kinds, i, index, key, n)
    PROVE  FieldDone(kinds, i, key, at, RevisedField(kinds, i, index, flags))
<1> USE DEF FieldReady, FieldDone
<1>1. key + (index - key + 1) - 1 = index OBVIOUS
<1>2. CASE kinds[i] = "FIRST"
  BY <1>1, <1>2 DEF RevisedField, Retains
<1>3. CASE kinds[i] \in {"PTR", "PRICE"}
  BY <1>1, <1>3 DEF RevisedField, changeSCD, Retains
<1>4. CASE /\ kinds[i] \notin {"FIRST", "PTR", "PRICE"}
           /\ odd(flags, CallNumber(kinds, i)) /\ ~newBKey(index)
  BY <1>1, <1>4 DEF RevisedField, changeSCD, Retains
<1>5. CASE /\ kinds[i] \notin {"FIRST", "PTR", "PRICE"}
           /\ ~(odd(flags, CallNumber(kinds, i)) /\ ~newBKey(index))
  BY <1>1, <1>5 DEF RevisedField, changeSCD, Retains
<1>6. QED BY <1>2, <1>3, <1>4, <1>5

\* Between two revisions of an item nothing is lost of what was drawn.
LEMMA DrawsSoFar ==
    ASSUME JobInv, RowInv, hJob \in DimensionJobs,
           NEW index, index = hJob.first + Len(hHistory), ~newBKey(index)
    PROVE  /\ Len(hHistory) > 0 /\ hRow.key = firstRevision(index)
           /\ hDraws \in Seq(Draws) /\ Len(hDraws) = index - firstRevision(index)
           /\ FlagDrawn(hJob.table, FieldsOf(hJob.table))
           /\ \A i \in DOMAIN FieldsOf(hJob.table) :
                 FieldDrawn(hJob.table, FieldsOf(hJob.table), hRow.key, i)
<1>1. hJob.first \in Nat /\ hJob.first % 6 = 1 BY JobFacts
<1>2. Len(hHistory) \in Nat BY DEF JobInv
<1>3. index % 6 # 1 BY DEF newBKey
<1>4. Len(hHistory) > 0 BY <1>1, <1>2, <1>3
<1>5. index - 1 \in Nat /\ (index - 1) + 1 = index BY <1>1, <1>2, <1>4
<1>6. firstRevision(index) = firstRevision(index - 1) /\ firstRevision(index) \in Int
  BY <1>5, FirstRevisions
<1>7. index - 1 = hJob.first + Len(hHistory) - 1 BY <1>1, <1>2
<1>8. hRow.key = firstRevision(index - 1) /\ Len(hDraws) = (index - 1) - hRow.key + 1
  BY <1>4, <1>7 DEF RowInv
<1>9. Len(hDraws) = index - firstRevision(index) BY <1>5, <1>6, <1>8
<1>10. QED BY <1>4, <1>6, <1>8, <1>9 DEF RowInv

\* What building a row does, in terms of the row's index.
LEMMA RowBuilt ==
    ASSUME JobInv, RowInv, BuildRevision
    PROVE  LET index == hJob.first + Len(hHistory)
               kinds == FieldsOf(hJob.table)
           IN  /\ index \in Nat /\ index <= LastBuilt(hJob)
               /\ hHistory' = Append(hHistory, Revision(hJob.table, index))
               /\ hJob \in DimensionJobs /\ hJob' = hJob /\ hJoin' = hJoin
               /\ hRow'.sk = index /\ hRow'.key = firstRevision(index)
               /\ hDraws' \in Seq(Draws) /\ Len(hDraws') = index - hRow'.key + 1
               /\ FlagDrawn(hJob.table, kinds)'
               /\ \A i \in DOMAIN kinds : FieldDrawn(hJob.table, kinds, hRow.key, i)'
<1>1. PICK table, kinds : table = hJob.table /\ kinds = FieldsOf(table) OBVIOUS
<1>2. PICK index : index = hJob.first + Len(hHistory) OBVIOUS
<1>3. /\ hJob # noJob /\ index <= LastBuilt(hJob) /\ hJob' = hJob /\ hJoin' = hJoin
      /\ hHistory' = Append(hHistory, Revision(hJob.table, index))
  BY <1>2 DEF BuildRevision, Revision
<1>4. hJob \in DimensionJobs BY <1>3 DEF JobInv
<1>5. hJob.table \in HistoryTables /\ hJob.first \in Nat /\ hJob.first % 6 = 1
  BY <1>4, JobFacts
<1>6. Len(hHistory) \in Nat BY DEF JobInv
<1>7. index \in Nat BY <1>2, <1>5, <1>6
<1>8. PICK flags \in FlagPatterns, drawn \in {0, 1} :
         /\ hDraws' = Append(IF newBKey(index) THEN <<>> ELSE hDraws,
                             [flags |-> flags, autogen |-> drawn])
         /\ hRow' = [sk |-> index, key |-> setSCDKeys(table, index).key,
                     begin |-> setSCDKeys(table, index).begin,
                     end |-> setSCDKeys(table, index).end,
                     autogen |-> changeSCD("INT", drawn, hRow.autogen,
                                     odd(flags, CallNumber(kinds, wp_autogen_flag)),
                                     newBKey(index)).new,
                     fields |-> [i \in DOMAIN kinds |->
                         IF NoCustomer(table, i,
                                changeSCD("INT", drawn, hRow.autogen,
                                     odd(flags, CallNumber(kinds, wp_autogen_flag)),
                                     newBKey(index)).new)
                         THEN -1 ELSE RevisedField(kinds, i, index, flags).new]]
         /\ hOld' = IF table = "ITEM" /\ newBKey(index) THEN hRow'.fields
                    ELSE [i \in DOMAIN kinds |-> RevisedField(kinds, i, index, flags).old]
  BY <1>1, <1>2 DEF BuildRevision
<1>9. PICK key \in Int : key = firstRevision(index) /\ (newBKey(index) <=> key = index)
  BY <1>7, FirstRevisions
<1>10. hRow'.sk = index /\ hRow'.key = key BY <1>1, <1>5, <1>7, <1>8, <1>9, KeysOf
<1>11. PICK d \in Draws : d = [flags |-> flags, autogen |-> drawn] BY DEF Draws
<1>12. d.flags = flags /\ d.autogen = drawn BY <1>11
<1>13. ASSUME newBKey(index)
       PROVE  hDraws' = <<d>> /\ index - key + 1 = 1
  BY <1>7, <1>8, <1>9, <1>11, <1>13
<1>14. ASSUME ~newBKey(index)
       PROVE  /\ hDraws' = Append(hDraws, d) /\ hDraws \in Seq(Draws)
              /\ Len(hDraws) + 1 = index - key + 1
              /\ hRow.key = key /\ FlagDrawn(table, kinds)
              /\ \A i \in DOMAIN kinds : FieldDrawn(table, kinds, key, i)
  <2>1. /\ hRow.key = key /\ hDraws \in Seq(Draws) /\ Len(hDraws) = index - key
        /\ FlagDrawn(table, kinds)
        /\ \A i \in DOMAIN kinds : FieldDrawn(table, kinds, hRow.key, i)
    BY <1>1, <1>2, <1>4, <1>9, <1>14, DrawsSoFar
  <2>2. QED BY <1>7, <1>8, <1>9, <1>11, <1>14, <2>1
<1>15. hDraws' \in Seq(Draws) /\ Len(hDraws') = index - key + 1
  <2>1. CASE newBKey(index)
    <3>1. <<d>> \in Seq(Draws) /\ Len(<<d>>) = 1 OBVIOUS
    <3>2. QED BY <1>13, <2>1, <3>1
  <2>2. CASE ~newBKey(index)
    <3>1. PICK draws \in Seq(Draws) : draws = hDraws BY <1>14, <2>2
    <3>2. Append(draws, d) \in Seq(Draws) /\ Len(Append(draws, d)) = Len(draws) + 1 OBVIOUS
    <3>3. QED BY <1>14, <2>2, <3>1, <3>2
  <2>3. QED BY <2>1, <2>2
\* Of a field that was drawn last by row n, the row that draws it last now.
<1>16. ASSUME NEW i, NEW n \in Nat, ~newBKey(index) => LastOf(hDraws, kinds, i, n)
       PROVE  LastOf(hDraws', kinds, i,
                     IF ~newBKey(index) /\ Retains(kinds, i, flags) THEN n ELSE index - key + 1)
  <2>1. CASE newBKey(index) BY <1>13, <2>1, FirstDraws
  <2>2. CASE ~newBKey(index)
    <3>1. LastOf(Append(hDraws, d), kinds, i,
                 IF Retains(kinds, i, d.flags) THEN n ELSE Len(hDraws) + 1)
      BY <1>14, <1>16, <2>2, NextDraws
    <3>2. QED BY <1>12, <1>14, <2>2, <3>1
  <2>3. QED BY <2>1, <2>2
<1>17. FlagDrawn(table, kinds)'
  <2> SUFFICES ASSUME table = "WEB_PAGE"
               PROVE  \E n \in Nat : /\ LastOf(hDraws', kinds, wp_autogen_flag, n)
                                     /\ hRow'.autogen = hDraws'[n].autogen
    BY DEF FlagDrawn
  <2>1. PICK call : call = odd(flags, CallNumber(kinds, wp_autogen_flag)) OBVIOUS
  <2>2. hRow'.autogen = IF call /\ ~newBKey(index) THEN hRow.autogen ELSE drawn
    BY <1>8, <2>1 DEF changeSCD
  <2>3. Retains(kinds, wp_autogen_flag, flags) <=> call BY <1>1, <2>1, PageFields DEF Retains
  <2>4. CASE newBKey(index)
    <3>1. LastOf(hDraws', kinds, wp_autogen_flag, 1) BY <1>13, <2>4, FirstDraws
    <3>2. hDraws'[1].autogen = drawn BY <1>12, <1>13, <2>4
    <3>3. QED BY <2>2, <2>4, <3>1, <3>2
  <2>5. CASE ~newBKey(index)
    <3>1. PICK n \in Nat : /\ LastOf(hDraws, kinds, wp_autogen_flag, n)
                           /\ hRow.autogen = hDraws[n].autogen
      BY <1>14, <2>5 DEF FlagDrawn
    <3>2. LastOf(hDraws', kinds, wp_autogen_flag, IF call THEN n ELSE Len(hDraws) + 1)
      BY <1>14, <1>16, <2>3, <2>5, <3>1
    <3>3. n \in 1..Len(hDraws) BY <1>14, <2>5, <3>1 DEF LastOf, Drew
    <3>4. hDraws'[n] = hDraws[n] /\ hDraws'[Len(hDraws) + 1] = d
          /\ Len(hDraws) + 1 \in Nat
      BY <1>14, <2>5, <3>3
    <3>5. CASE call BY <2>2, <2>5, <3>1, <3>2, <3>4, <3>5
    <3>6. CASE ~call BY <1>12, <2>2, <2>5, <3>2, <3>4, <3>6
    <3>7. QED BY <3>5, <3>6
  <2>6. QED BY <2>4, <2>5
<1>18. ASSUME NEW i \in DOMAIN kinds PROVE FieldDrawn(table, kinds, hRow.key, i)'
  <2>1. PICK n \in Nat :
            ~newBKey(index) =>
                /\ LastOf(hDraws, kinds, i, n)
                /\ kinds[i] \notin {"FIRST", "PTR", "PRICE"} => hOld[i] = key + n - 1
                /\ hRow.fields[i] = IF NoCustomer(table, i, hRow.autogen) THEN -1
                                    ELSE key + n - 1
    <3>1. CASE newBKey(index) BY <3>1
    <3>2. CASE ~newBKey(index) BY <1>14, <3>2 DEF FieldDrawn
    <3>3. QED BY <3>1, <3>2
  <2>2. FieldReady(kinds, i, index, key, n)
    <3>1. kinds[i] = "FIRST" => ~NoCustomer(table, i, hRow.autogen)
      BY <1>1, PageFields DEF NoCustomer
    <3>2. QED BY <2>1, <3>1 DEF FieldReady
  <2>3. PICK at : at = IF ~newBKey(index) /\ Retains(kinds, i, flags) THEN n ELSE index - key + 1
    OBVIOUS
  <2>4. /\ RevisedField(kinds, i, index, flags).new = key + at - 1
        /\ kinds[i] \notin {"FIRST", "PTR", "PRICE"} =>
              RevisedField(kinds, i, index, flags).old = key + at - 1
    <3>1. FieldDone(kinds, i, key, at, RevisedField(kinds, i, index, flags))
      BY <1>7, <1>9, <2>2, <2>3, FieldOf
    <3>2. QED BY <3>1 DEF FieldDone
  <2>5. LastOf(hDraws', kinds, i, at) BY <1>16, <2>1, <2>3
  <2>6. at \in Nat
    <3>1. index - key + 1 \in Nat BY <1>15
    <3>2. QED BY <2>3, <3>1
  <2>7. hRow'.fields[i] = IF NoCustomer(table, i, hRow'.autogen) THEN -1 ELSE key + at - 1
    BY <1>8, <2>4
  <2>8. kinds[i] \notin {"FIRST", "PTR", "PRICE"} => hOld'[i] = key + at - 1
    <3>1. CASE table = "ITEM" /\ newBKey(index)
      <4>1. hOld'[i] = hRow'.fields[i] BY <1>8, <3>1
      <4>2. ~NoCustomer(table, i, hRow'.autogen) BY <3>1 DEF NoCustomer
      <4>3. QED BY <2>7, <4>1, <4>2
    <3>2. CASE ~(table = "ITEM" /\ newBKey(index)) BY <1>8, <2>4, <3>2
    <3>3. QED BY <3>1, <3>2
  <2>9. QED BY <1>10, <2>5, <2>6, <2>7, <2>8 DEF FieldDrawn
<1>19. QED BY <1>1, <1>2, <1>3, <1>4, <1>7, <1>9, <1>10, <1>15, <1>17, <1>18

-----------------------------------------------------------------------------
(* The invariant is inductive.                                               *)

HistoryInv == JobInv /\ RowInv /\ JoinInv

LEMMA InitHistoryInv == DimensionInit \/ DimensionIdle => HistoryInv
<1>1. ASSUME DimensionInit PROVE HistoryInv
  <2>1. /\ hHistory = <<>> /\ hJoin = noJoin /\ hJob \in DimensionJobs /\ hJob # noJob
        /\ hRow = noRevision
    BY <1>1, JobFacts DEF DimensionInit
  <2>2. QED BY <2>1 DEF HistoryInv, JobInv, RowInv, JoinInv
<1>2. ASSUME DimensionIdle PROVE HistoryInv
  BY <1>2 DEF DimensionIdle, HistoryInv, JobInv, RowInv, JoinInv
<1>3. QED BY <1>1, <1>2

LEMMA BuildRevisionInv == ASSUME HistoryInv, BuildRevision PROVE HistoryInv'
<1>1. PICK kinds : kinds = FieldsOf(hJob.table) OBVIOUS
<1>2. PICK index : index = hJob.first + Len(hHistory) OBVIOUS
<1>3. /\ index \in Nat /\ index <= LastBuilt(hJob)
      /\ hHistory' = Append(hHistory, Revision(hJob.table, index))
      /\ hJob \in DimensionJobs /\ hJob' = hJob /\ hJoin' = hJoin
      /\ hRow'.sk = index /\ hRow'.key = firstRevision(index)
      /\ hDraws' \in Seq(Draws) /\ Len(hDraws') = index - hRow'.key + 1
      /\ FlagDrawn(hJob.table, kinds)'
      /\ \A i \in DOMAIN kinds : FieldDrawn(hJob.table, kinds, hRow.key, i)'
  BY <1>1, <1>2, RowBuilt DEF HistoryInv
<1>4. /\ hJob.table \in HistoryTables /\ hJob.first \in Nat /\ hJob # noJob
      /\ get_rowcount(hJob.table, hJob.scale) \in Nat
  BY <1>3, JobFacts
<1>5. /\ hHistory \in Seq(Revisions) /\ Len(hHistory) \in Nat
      /\ \A i \in 1..Len(hHistory) : hHistory[i] = Revision(hJob.table, hJob.first + i - 1)
  BY DEF HistoryInv, JobInv
<1>6. /\ hHistory' \in Seq(Revisions) /\ Len(hHistory') = Len(hHistory) + 1
      /\ \A i \in 1..Len(hHistory) : hHistory'[i] = hHistory[i]
      /\ hHistory'[Len(hHistory) + 1] = Revision(hJob.table, index)
  <2>1. Revision(hJob.table, index) \in Revisions BY <1>3, <1>4, RevisionType
  <2>2. PICK r \in Revisions : r = Revision(hJob.table, index) BY <2>1
  <2>3. QED BY <1>3, <1>5, <2>2
<1>7. JobInv'
  <2>1. ASSUME NEW i \in 1..Len(hHistory')
        PROVE  hHistory'[i] = Revision(hJob.table, hJob.first + i - 1)
    <3>1. CASE i = Len(hHistory) + 1
      <4>1. hJob.first + i - 1 = index BY <1>2, <1>4, <1>5, <3>1
      <4>2. QED BY <1>6, <3>1, <4>1
    <3>2. CASE i # Len(hHistory) + 1
      <4>1. i \in 1..Len(hHistory) BY <1>5, <1>6, <3>2
      <4>2. QED BY <1>5, <1>6, <4>1
    <3>3. QED BY <3>1, <3>2
  <2>2. QED BY <1>3, <1>4, <1>6, <2>1 DEF JobInv
<1>8. RowInv'
  <2>1. hJob'.first + Len(hHistory') - 1 = index BY <1>2, <1>3, <1>4, <1>5, <1>6
  <2>2. FieldsOf(hJob'.table) = kinds BY <1>1, <1>3
  <2>3. QED BY <1>3, <1>5, <1>6, <2>1, <2>2 DEF RowInv
<1>9. hJoin = noJoin
  <2>1. SUFFICES ASSUME hJoin # noJoin PROVE FALSE OBVIOUS
  <2>2. Len(hHistory) > 0 /\ hRow.sk = LastBuilt(hJob) BY <2>1 DEF HistoryInv, JoinInv
  <2>3. hRow.sk = hJob.first + Len(hHistory) - 1 BY <2>2 DEF HistoryInv, RowInv
  <2>4. QED BY <1>2, <1>3, <1>4, <1>5, <2>2, <2>3
<1>10. JoinInv' BY <1>3, <1>9 DEF JoinInv
<1>11. QED BY <1>7, <1>8, <1>10 DEF HistoryInv

LEMMA JoinRevisionInv == ASSUME HistoryInv, JoinRevision PROVE HistoryInv'
<1>1. /\ hJob # noJob /\ hRow.sk = LastBuilt(hJob)
      /\ UNCHANGED <<hJob, hRow, hOld, hHistory, hDraws>>
  BY DEF JoinRevision
<1>2. PICK u \in IdsBuilt, d \in JoinDates :
         hJoin' = [unique |-> u, julian |-> d, sk |-> scd_join(hJob.table, hJob.scale, u, d)]
  BY DEF JoinRevision
<1>3. JobInv' BY <1>1 DEF HistoryInv, JobInv
<1>4. RowInv' BY <1>1 DEF HistoryInv, RowInv, FlagDrawn, FieldDrawn
<1>5. Len(hHistory) > 0
  \* Without a row there is no id whose first row is built.
  <2>1. hJob.first \in Nat /\ Len(hHistory) \in Nat
    BY <1>1, JobFacts DEF HistoryInv, JobInv
  <2>2. u \in Nat \ {0} BY <2>1 DEF IdsBuilt, RowsBuilt
  <2>3. getFirstSK(u) \in Nat \ {0} /\ getFirstSK(u) <= hRow.sk BY <2>2, FirstRows DEF IdsBuilt
  <2>4. hRow # noRevision BY <2>3 DEF noRevision
  <2>5. QED BY <2>1, <2>4 DEF HistoryInv, RowInv
<1>6. JoinInv'
  <2>1. IdsBuilt' = IdsBuilt BY <1>1 DEF IdsBuilt
  <2>2. QED BY <1>1, <1>2, <1>5, <2>1 DEF JoinInv
<1>7. QED BY <1>3, <1>4, <1>6 DEF HistoryInv

THEOREM HistoryInvariant == HistorySpec => []HistoryInv
<1>1. HistoryInv /\ [HistoryNext]_historyVars => HistoryInv'
  <2> SUFFICES ASSUME HistoryInv, [HistoryNext]_historyVars PROVE HistoryInv' OBVIOUS
  <2>1. CASE BuildRevision BY <2>1, BuildRevisionInv
  <2>2. CASE JoinRevision BY <2>2, JoinRevisionInv
  <2>3. CASE UNCHANGED historyVars
    BY <2>3 DEF historyVars, HistoryInv, JobInv, RowInv, FlagDrawn, FieldDrawn, JoinInv,
             IdsBuilt
  <2>4. QED BY <2>1, <2>2, <2>3 DEF HistoryNext
<1>2. QED BY <1>1, InitHistoryInv, PTL DEF HistorySpec

-----------------------------------------------------------------------------
(* Retained fields.                                                          *)

\* Every field of every revision of every job is what the last revision of its
\* own item that drew the field has drawn, and -1 for the customer of a web page
\* whose flag, drawn or retained, says so.
THEOREM RevisionsKeepTheirItem == HistorySpec => []RetainedFromOwnItem
<1>1. HistoryInv => RetainedFromOwnItem
  <2> SUFFICES ASSUME HistoryInv, hRow # noRevision, NEW i \in DOMAIN FieldsOf(hJob.table)
               PROVE  LET kinds == FieldsOf(hJob.table)
                          last(j) == LastDrawn(hDraws, kinds, j)
                      IN  hRow.fields[i] =
                             IF NoCustomer(hJob.table, i, hDraws[last(wp_autogen_flag)].autogen)
                             THEN -1 ELSE hRow.key + last(i) - 1
    BY DEF RetainedFromOwnItem
  <2>1. PICK table, kinds : table = hJob.table /\ kinds = FieldsOf(table) OBVIOUS
  <2>2. Len(hHistory) \in Nat BY DEF HistoryInv, JobInv
  <2>3. Len(hHistory) > 0 BY <2>2 DEF HistoryInv, RowInv
  <2>4. /\ hDraws \in Seq(Draws) /\ FlagDrawn(table, kinds)
        /\ FieldDrawn(table, kinds, hRow.key, i)
    BY <2>1, <2>3 DEF HistoryInv, RowInv
  <2>5. PICK n \in Nat :
            /\ LastOf(hDraws, kinds, i, n)
            /\ hRow.fields[i] = IF NoCustomer(table, i, hRow.autogen) THEN -1
                                ELSE hRow.key + n - 1
    BY <2>4 DEF FieldDrawn
  <2>6. LastDrawn(hDraws, kinds, i) = n BY <2>4, <2>5, LastIs
  <2>7. PICK flag : flag = hDraws[LastDrawn(hDraws, kinds, wp_autogen_flag)].autogen OBVIOUS
  <2>8. table = "WEB_PAGE" => hRow.autogen = flag
    <3> SUFFICES ASSUME table = "WEB_PAGE" PROVE hRow.autogen = flag OBVIOUS
    <3>1. PICK m \in Nat : /\ LastOf(hDraws, kinds, wp_autogen_flag, m)
                           /\ hRow.autogen = hDraws[m].autogen
      BY <2>4 DEF FlagDrawn
    <3>2. LastDrawn(hDraws, kinds, wp_autogen_flag) = m BY <2>4, <3>1, LastIs
    <3>3. QED BY <2>7, <3>1, <3>2
  <2>9. NoCustomer(table, i, hRow.autogen) <=> NoCustomer(table, i, flag)
    BY <2>8 DEF NoCustomer
  <2>10. QED BY <2>1, <2>5, <2>6, <2>7, <2>9
<1>2. QED BY <1>1, HistoryInvariant, PTL

-----------------------------------------------------------------------------
(* Histories without gaps, and joins that end in them.                       *)

\* The revisions of a key follow without a gap or an overlap, and the last one
\* is open.
LEMMA RevisionsFollowEachOther == HistoryInv => RevisionsFollow
<1> SUFFICES ASSUME HistoryInv, NEW i \in DOMAIN hHistory
             PROVE  LET r == hHistory[i]
                        next == hHistory[i + 1]
                    IN  /\ r.key = r.sk => r.begin = jMinimumDataDate - 6 * tableNumber(hJob.table)
                        /\ i < Len(hHistory) =>
                              IF next.key = r.key THEN r.begin <= r.end /\ next.begin = r.end + 1
                              ELSE r.end = -1 /\ next.key = next.sk
  BY DEF RevisionsFollow
<1>1. /\ hHistory \in Seq(Revisions) /\ Len(hHistory) \in Nat
      /\ \A k \in 1..Len(hHistory) : hHistory[k] = Revision(hJob.table, hJob.first + k - 1)
  BY DEF HistoryInv, JobInv
<1>2. i \in 1..Len(hHistory) BY <1>1
<1>3. hJob \in DimensionJobs BY <1>2 DEF HistoryInv, JobInv
<1>4. hJob.table \in HistoryTables /\ hJob.first \in Nat BY <1>3, JobFacts
<1>5. PICK table \in HistoryTables : table = hJob.table BY <1>4
<1>6. PICK index : index = hJob.first + i - 1 OBVIOUS
<1>7. index \in Nat /\ index + 1 = hJob.first + (i + 1) - 1 BY <1>2, <1>4, <1>6
<1>8. PICK r : r = setSCDKeys(table, index) OBVIOUS
<1>9. PICK next : next = setSCDKeys(table, index + 1) OBVIOUS
<1>10. /\ hHistory[i].sk = index /\ hHistory[i].key = r.key
       /\ hHistory[i].begin = r.begin /\ hHistory[i].end = r.end
  <2>1. hHistory[i] = Revision(table, index) BY <1>1, <1>2, <1>5, <1>6
  <2>2. QED BY <1>8, <2>1 DEF Revision
<1>11. r.key = firstRevision(index) /\ next.key = firstRevision(index + 1)
  BY <1>7, <1>8, <1>9, KeysOf
<1>12. r.key = index => r.begin = jMinimumDataDate - 6 * tableNumber(table)
  <2>1. SUFFICES ASSUME r.key = index PROVE r.begin = jMinimumDataDate - 6 * tableNumber(table)
    OBVIOUS
  <2>2. PICK t \in 0..24 : t = tableNumber(table) BY TableNumbers
  <2>3. newBKey(index) BY <1>7, <1>11, <2>1, FirstRevisions
  <2>4. index % 6 \in {1, 2, 4} BY <2>3 DEF newBKey
  <2>5. r.begin = 2450815 - t * 6 BY <1>7, <1>8, <2>2, <2>4, KeysOf
  <2>6. QED BY <2>2, <2>5, DataDates
<1>13. ASSUME i < Len(hHistory)
       PROVE  IF hHistory[i + 1].key = r.key
                THEN r.begin <= r.end /\ hHistory[i + 1].begin = r.end + 1
              ELSE r.end = -1 /\ hHistory[i + 1].key = hHistory[i + 1].sk
  <2>1. i + 1 \in 1..Len(hHistory) BY <1>1, <1>2, <1>13
  <2>2. hHistory[i + 1] = Revision(table, index + 1) BY <1>1, <1>5, <1>7, <2>1
  <2>3. /\ hHistory[i + 1].sk = index + 1 /\ hHistory[i + 1].key = next.key
        /\ hHistory[i + 1].begin = next.begin
    BY <1>9, <2>2 DEF Revision
  <2>4. IF newBKey(index + 1) THEN r.end = -1 ELSE r.begin <= r.end /\ next.begin = r.end + 1
    BY <1>7, <1>8, <1>9, NextRevision
  <2>5. newBKey(index + 1) => next.key = index + 1 /\ next.key # r.key
    BY <1>7, <1>11, FirstRevisions
  <2>6. ~newBKey(index + 1) => next.key = r.key BY <1>7, <1>11, FirstRevisions
  <2>7. QED BY <2>3, <2>4, <2>5, <2>6
<1>14. QED BY <1>5, <1>10, <1>12, <1>13

\* The rows a job has built contain every revision of the ids that it joins.
LEMMA JoinsFindRevisions == HistoryInv => JoinFindsRevision
<1> SUFFICES ASSUME HistoryInv, hJoin # noJoin PROVE JoinFindsRevision
  BY DEF JoinFindsRevision
<1>1. PICK u \in IdsBuilt, d \in JoinDates :
         hJoin = [unique |-> u, julian |-> d, sk |-> scd_join(hJob.table, hJob.scale, u, d)]
  BY DEF HistoryInv, JoinInv
<1>2. PICK n : n = Len(hHistory) OBVIOUS
<1>3. n \in Nat /\ n > 0 /\ hRow.sk = LastBuilt(hJob) /\ hJob \in DimensionJobs
  BY <1>2 DEF HistoryInv, JoinInv, JobInv
<1>4. PICK table \in HistoryTables : table = hJob.table BY <1>3, JobFacts
<1>5. PICK rows \in Nat : rows = get_rowcount(table, hJob.scale) BY <1>3, <1>4, JobFacts
<1>6. PICK first \in Nat : first = hJob.first /\ first % 6 = 1 BY <1>3, JobFacts
<1>7. /\ \A k \in 1..n : hHistory[k] = Revision(table, first + k - 1)
      /\ DOMAIN hHistory = 1..n
  BY <1>2, <1>4, <1>6 DEF HistoryInv, JobInv
<1>8. PICK last \in Nat : last = first + n - 1 BY <1>3, <1>6
<1>9. hRow.sk = last BY <1>2, <1>3, <1>6, <1>8 DEF HistoryInv, RowInv
<1>10. last = IF rows < first + 11 THEN rows ELSE first + 11
  BY <1>3, <1>4, <1>5, <1>6, <1>9 DEF LastBuilt, RowsBuilt
<1>11. u \in Nat \ {0} /\ u >= (first \div 6) * 3 + 1 /\ getFirstSK(u) <= last
  BY <1>6, <1>9 DEF IdsBuilt, RowsBuilt
<1>12. d \in Nat /\ jMinimumDataDate <= d
  <2>1. PICK cut \in {jMinimumDataDate + 1, jH1DataDate, jT1DataDate, jT2DataDate, jMaximumDataDate} :
           d \in (cut - 1)..(cut + 1)
    BY DEF JoinDates
  <2>2. QED BY <2>1, DataDates
<1>13. PICK key \in Nat \ {0} : key = getFirstSK(u) BY <1>11, FirstRows
<1>14. first <= key
  <2>1. PICK q \in Nat : q = u \div 3 BY <1>11
  <2>2. PICK r \in 0..2 : r = u % 3 BY <1>11
  <2>3. u = 3 * q + r BY <1>11, <2>1, <2>2
  <2>4. key = IF r = 1 THEN q * 6 + 1 ELSE IF r = 2 THEN q * 6 + 2 ELSE q * 6 - 2
    BY <1>13, <2>1, <2>2 DEF getFirstSK
  <2>5. PICK p \in Nat : p = first \div 6 /\ first = 6 * p + 1 BY <1>6
  <2>6. u >= 3 * p + 1 BY <1>11, <2>5
  <2>7. QED BY <2>3, <2>4, <2>5, <2>6
\* A row of the id up to the last row of the table has been built.
<1>15. ASSUME NEW sk \in Nat, firstRevision(sk) = key, sk <= rows
       PROVE  /\ sk - first + 1 \in DOMAIN hHistory
              /\ hHistory[sk - first + 1] = Revision(table, sk)
              /\ sk - first + 1 \in Rows(key)
  <2>1. key <= sk /\ sk <= key + 2 BY <1>15 DEF firstRevision
  <2>2. sk <= last
    <3>1. SUFFICES ASSUME rows >= first + 11, sk > first + 11 PROVE FALSE
      BY <1>10, <1>15
    <3>2. last = first + 11 /\ key <= first + 11 BY <1>10, <1>11, <1>13, <3>1
    <3>3. PICK p \in Nat : first = 6 * p + 1 BY <1>6
    <3>4. sk = 6 * p + 13 \/ sk = 6 * p + 14 BY <2>1, <3>1, <3>2, <3>3
    <3>5. sk % 6 \in {1, 2} BY <3>4
    <3>6. QED BY <1>15, <3>1, <3>2, <3>5 DEF firstRevision
  <2>3. PICK k \in 1..n : k = sk - first + 1 BY <1>3, <1>8, <1>14, <2>1, <2>2
  <2>4. first + k - 1 = sk BY <2>3
  <2>5. hHistory[k] = Revision(table, sk) BY <1>7, <2>4
  <2>6. Revision(table, sk).key = key BY <1>15, KeysOf DEF Revision
  <2>7. QED BY <1>7, <2>3, <2>5, <2>6 DEF Rows
<1>16. PICK sk : sk = scd_join(table, hJob.scale, u, d) OBVIOUS
<1>17. hJoin.unique = u /\ hJoin.julian = d /\ hJoin.sk = sk BY <1>1, <1>4, <1>16
<1>18. CASE d > jMaximumDataDate
  <2>1. sk = -1 BY <1>16, <1>18 DEF scd_join
  <2>2. QED BY <1>17, <1>18, <2>1 DEF JoinFindsRevision
<1>19. CASE ~(d > jMaximumDataDate)
  <2>1. d <= jMaximumDataDate BY <1>12, <1>19, DataDates
  <2>2. key <= rows BY <1>3, <1>6, <1>8, <1>10, <1>11, <1>13
  <2>3. PICK r : r = setSCDKeys(table, sk) OBVIOUS
  <2>4. /\ sk \in Nat /\ sk <= rows /\ firstRevision(sk) = key /\ r.begin <= d
        /\ r.end = -1 \/ d <= r.end + 6 * tableNumber(table) \/ sk = rows
    BY <1>5, <1>11, <1>12, <1>13, <1>16, <2>1, <2>2, <2>3, JoinFinds
  <2>5. PICK at \in DOMAIN hHistory : at \in Rows(key) /\ hHistory[at] = Revision(table, sk)
    BY <1>15, <2>4
  <2>6. hHistory[at].sk = sk BY <2>5 DEF Revision
  <2>7. PICK place : place = CHOOSE i \in DOMAIN hHistory : hHistory[i].sk = sk OBVIOUS
  <2>8. place \in DOMAIN hHistory /\ hHistory[place].sk = sk BY <2>5, <2>6, <2>7
  <2>9. hHistory[place] = Revision(table, sk) BY <1>7, <2>8 DEF Revision
  <2>10. hHistory[place].begin = r.begin /\ hHistory[place].end = r.end BY <2>3, <2>9 DEF Revision
  <2>11. ASSUME NEW other \in getSKFromID(u), other <= hRow.sk
         PROVE  \E i \in Rows(key) : hHistory[i].sk = other
    <3>1. other \in Nat /\ firstRevision(other) = key BY <1>11, <1>13, RowsOfId
    <3>2. other <= rows BY <1>9, <1>10, <2>11, <3>1
    <3>3. PICK k : k = other - first + 1 OBVIOUS
    <3>4. k \in Rows(key) /\ hHistory[k] = Revision(table, other) BY <1>15, <3>1, <3>2, <3>3
    <3>5. hHistory[k].sk = other BY <3>4 DEF Revision
    <3>6. QED BY <3>4, <3>5
  <2>12. \E i \in Rows(key) : hHistory[i].sk = sk BY <2>5, <2>6
  <2>13. hHistory[place].end = -1 \/ d <= hHistory[place].end + 6 * tableNumber(table) \/ sk = rows
    BY <2>4, <2>10
  <2>14. hHistory[place].begin <= d BY <2>4, <2>10
  <2>15. QED
    BY <1>4, <1>5, <1>13, <1>17, <1>19, <2>7, <2>11, <2>12, <2>13, <2>14 DEF JoinFindsRevision
<1>20. QED BY <1>18, <1>19

\* A key has one history without gaps, and whatever way a sale goes from an item
\* and a date to a row ends in the revision of that date.
THEOREM HistoriesAreSound == HistorySpec => []HistoryIsSound
<1>1. HistoryInv => HistoryIsSound
  BY RevisionsFollowEachOther, JoinsFindRevisions DEF HistoryIsSound
<1>2. QED BY <1>1, HistoryInvariant, PTL

(***************************************************************************)
(* Induction over the naturals, for a set.                                 *)
(***************************************************************************)
LEMMA LeastNatural ==
    ASSUME NEW S, S \subseteq Nat, S # {}
    PROVE  \E m \in S : \A k \in S : m <= k
<1>1. IsWellFoundedOn(OpToRel(<, Nat), Nat) BY NatLessThanWellFounded
<1>2. PICK m \in S : \A k \in S : ~ (<<k, m>> \in OpToRel(<, Nat)) BY <1>1, WFMin
<1>3. \A k \in S : ~(k < m)
  <2>1. ASSUME NEW k \in S, k < m PROVE FALSE
    <3>1. <<k, m>> \in OpToRel(<, Nat) BY <2>1 DEF OpToRel
    <3>2. QED BY <1>2, <3>1
  <2>2. QED BY <2>1
<1>4. QED BY <1>3

LEMMA SetInduction ==
    ASSUME NEW S, 0 \in S, \A n \in Nat : n \in S => n + 1 \in S
    PROVE  Nat \subseteq S
<1> SUFFICES ASSUME Nat \ S # {} PROVE FALSE OBVIOUS
<1>1. PICK m \in Nat \ S : \A k \in Nat \ S : m <= k BY LeastNatural
<1>2. m # 0 OBVIOUS
<1>3. m - 1 \in Nat /\ m - 1 \in S BY <1>1, <1>2
<1>4. QED BY <1>1, <1>3

(***************************************************************************)
(* Sums without end.                                                       *)
(***************************************************************************)
\* f holds the first n + 1 sums of s.
SumsUpTo(s, f, n) ==
    \A d \in 0..n : f[d] = IF d = 0 THEN 1 + s[0] ELSE f[d - 1] + s[d]

HasSumsUpTo(s, n) == \E f \in [0..n -> Nat] : SumsUpTo(s, f, n)

LEMMA SumsUpToExist ==
    ASSUME NEW s \in [Nat -> Nat]
    PROVE  \A n \in Nat : HasSumsUpTo(s, n)
<1> DEFINE S == {n \in Nat : HasSumsUpTo(s, n)}
<1>1. 0 \in S
  <2>1. [d \in 0..0 |-> 1 + s[0]] \in [0..0 -> Nat] OBVIOUS
  <2>2. SumsUpTo(s, [d \in 0..0 |-> 1 + s[0]], 0) BY DEF SumsUpTo
  <2>3. QED BY <2>1, <2>2 DEF HasSumsUpTo
<1>2. ASSUME NEW n \in Nat, n \in S PROVE n + 1 \in S
  <2>1. PICK f \in [0..n -> Nat] : SumsUpTo(s, f, n) BY <1>2 DEF HasSumsUpTo
  <2> DEFINE g == [d \in 0..(n + 1) |-> IF d <= n THEN f[d] ELSE f[n] + s[n + 1]]
  <2>2. g \in [0..(n + 1) -> Nat]
    <3>1. ASSUME NEW d \in 0..(n + 1)
          PROVE  (IF d <= n THEN f[d] ELSE f[n] + s[n + 1]) \in Nat
      <4>1. CASE d <= n BY <4>1
      <4>2. CASE ~(d <= n)
        <5>1. f[n] \in Nat /\ s[n + 1] \in Nat OBVIOUS
        <5>2. \A x, y \in Nat : x + y \in Nat OBVIOUS
        <5>3. f[n] + s[n + 1] \in Nat BY <5>1, <5>2, Zenon
        <5>4. QED BY <4>2, <5>3
      <4>3. QED BY <4>1, <4>2
    <3>2. QED BY <3>1
  <2>3. SumsUpTo(s, g, n + 1)
    <3> SUFFICES ASSUME NEW d \in 0..(n + 1)
                 PROVE  g[d] = IF d = 0 THEN 1 + s[0] ELSE g[d - 1] + s[d]
        BY DEF SumsUpTo
    <3>1. CASE d = 0 BY <2>1, <3>1 DEF SumsUpTo
    <3>2. CASE d # 0 /\ d <= n BY <2>1, <3>2 DEF SumsUpTo
    <3>3. CASE d = n + 1 BY <3>3
    <3>4. QED BY <3>1, <3>2, <3>3
  <2>4. HasSumsUpTo(s, n + 1)
    <3> HIDE DEF g
    <3>1. QED BY <2>2, <2>3 DEF HasSumsUpTo
  <2>5. QED BY <2>4
<1>3. Nat \subseteq S BY <1>1, <1>2, SetInduction
<1>4. QED BY <1>3

LEMMA SumsAreUnique ==
    ASSUME NEW s \in [Nat -> Nat], NEW m \in Nat, NEW n \in Nat, m <= n,
           NEW f \in [0..m -> Nat], NEW g \in [0..n -> Nat],
           SumsUpTo(s, f, m), SumsUpTo(s, g, n)
    PROVE  f[m] = g[m]
<1> DEFINE S == {d \in Nat : d <= m => f[d] = g[d]}
<1>1. 0 \in S BY DEF SumsUpTo
<1>2. ASSUME NEW d \in Nat, d \in S PROVE d + 1 \in S
  <2> SUFFICES ASSUME d + 1 <= m PROVE f[d + 1] = g[d + 1] OBVIOUS
  <2>1. f[d] = g[d] BY <1>2
  <2>2. d + 1 \in 0..m /\ d + 1 \in 0..n /\ d + 1 # 0 /\ (d + 1) - 1 = d OBVIOUS
  <2>3. f[d + 1] = f[d] + s[d + 1] BY <2>2 DEF SumsUpTo
  <2>4. g[d + 1] = g[d] + s[d + 1] BY <2>2 DEF SumsUpTo
  <2>5. QED BY <2>1, <2>3, <2>4
<1>3. Nat \subseteq S BY <1>1, <1>2, SetInduction
<1>4. QED BY <1>3

(***************************************************************************)
(* The rows of a day, and the last row of a day in one serial run.         *)
(***************************************************************************)
LEMMA DaysHaveRows ==
    ASSUME NEW table, NEW rows \in Nat, NEW julian
    PROVE  dateScaling(table, rows, julian) \in Nat
<1> DEFINE d == jtodt(julian)
           column == sales_column(d.year)
<1>1. column \in {"sales", "sales_leap"} BY DEF sales_column
<1>2. calendar_weight(day_number(d), column) \in {0, 29, 66, 100}
  <2>1. \A row : sales_likelihood(row) \in {29, 66, 100} BY DEF sales_likelihood
  <2>2. "sales" \notin DOMAIN zones /\ "sales_leap" \notin DOMAIN zones BY DEF zones
  <2>3. CASE column = "sales" BY <2>1, <2>2, <2>3 DEF calendar_weight
  <2>4. CASE column = "sales_leap" BY <2>1, <2>2, <2>4 DEF calendar_weight
  <2>5. QED BY <1>1, <2>3, <2>4
<1>3. PICK w : w = calendar_weight(day_number(d), column) OBVIOUS
<1>4. PICK total : total = 5 * calendar_max[column] OBVIOUS
<1>5. total \in Nat \ {0} BY <1>1, <1>4 DEF calendar_max
<1>6. PICK share : share = rows * w OBVIOUS
<1>7. share \in Nat BY <1>2, <1>3, <1>6
<1>8. total \div 2 \in Nat BY <1>5
<1>9. (share + (total \div 2)) \div total \in Nat BY <1>5, <1>7, <1>8
<1>10. QED BY <1>3, <1>4, <1>6, <1>9 DEF dateScaling

\* What is known of the table of a job.
Counted(job) == get_rowcount(job.table, job.scale) \in Nat

LEMMA RowsOfADay ==
    ASSUME NEW job, Counted(job), NEW day PROVE c(job, day) \in Nat
BY DaysHaveRows DEF Counted, c

\* The days of a serial run end one after the other.
LEMMA SerialEndsAreSums ==
    ASSUME NEW job, Counted(job)
    PROVE  SerialEnds(job) = [day \in Nat |->
               IF day = 0 THEN 1 + c(job, 0) ELSE SerialEnds(job)[day - 1] + c(job, day)]
<1> DEFINE s == [day \in Nat |-> c(job, day)]
           first(n) == CHOOSE f \in [0..n -> Nat] : SumsUpTo(s, f, n)
           g == [day \in Nat |-> first(day)[day]]
<1>1. s \in [Nat -> Nat] BY RowsOfADay
<1>2. \A n \in Nat : first(n) \in [0..n -> Nat] /\ SumsUpTo(s, first(n), n)
    BY <1>1, SumsUpToExist DEF HasSumsUpTo
<1>3. ASSUME NEW day \in Nat
      PROVE  g[day] = IF day = 0 THEN 1 + s[0] ELSE g[day - 1] + s[day]
  <2> HIDE DEF first, s
  <2>1. first(day)[day] = IF day = 0 THEN 1 + s[0] ELSE first(day)[day - 1] + s[day]
      BY <1>2 DEF SumsUpTo
  <2>2. ASSUME day # 0 PROVE first(day)[day - 1] = first(day - 1)[day - 1]
    <3>1. day - 1 \in Nat /\ day - 1 <= day BY <2>2
    <3>2. QED BY <1>1, <1>2, <3>1, SumsAreUnique
  <2>3. QED BY <2>1, <2>2
<1>4. g = [day \in Nat |-> IF day = 0 THEN 1 + c(job, 0) ELSE g[day - 1] + c(job, day)]
  <2> HIDE DEF first
  <2>1. \A day \in Nat : s[day] = c(job, day) OBVIOUS
  <2> HIDE DEF s
  <2>2. QED BY <1>3, <2>1
<1>5. QED BY <1>4 DEF SerialEnds

\* What the rest of the proof uses of the last rows of the days.
LEMMA SerialEndsGrow ==
    ASSUME NEW job, Counted(job)
    PROVE  /\ SerialEnds(job) \in [Nat -> Nat \ {0}]
           /\ SerialEnds(job)[0] = 1 + c(job, 0)
           /\ \A day \in Nat : day # 0 => SerialEnds(job)[day] = SerialEnds(job)[day - 1] + c(job, day)
           /\ \A a, b \in Nat : a <= b => SerialEnds(job)[a] <= SerialEnds(job)[b]
<1> DEFINE end == SerialEnds(job)
<1>1. end = [day \in Nat |-> IF day = 0 THEN 1 + c(job, 0) ELSE end[day - 1] + c(job, day)]
    BY SerialEndsAreSums
<1> HIDE DEF end
<1>2. end[0] = 1 + c(job, 0) BY <1>1
<1>3. \A day \in Nat : day # 0 => end[day] = end[day - 1] + c(job, day) BY <1>1
<1>4. \A day \in Nat : c(job, day) \in Nat BY RowsOfADay
<1>5. \A day \in Nat : end[day] \in Nat \ {0}
  <2> DEFINE S == {day \in Nat : end[day] \in Nat \ {0}}
  <2>1. 0 \in S BY <1>2, <1>4
  <2>2. ASSUME NEW n \in Nat, n \in S PROVE n + 1 \in S
    <3>1. end[n + 1] = end[n] + c(job, n + 1) BY <1>3
    <3>2. end[n] \in Nat \ {0} /\ c(job, n + 1) \in Nat BY <1>4, <2>2
    <3>3. end[n + 1] \in Nat \ {0} BY <3>1, <3>2
    <3>4. QED BY <3>3
  <2>3. Nat \subseteq S BY <2>1, <2>2, SetInduction
  <2>4. QED BY <2>3
<1>6. end \in [Nat -> Nat \ {0}]
  <2>1. end = [day \in Nat |-> end[day]] BY <1>1
  <2>2. QED BY <1>5, <2>1
<1>7. ASSUME NEW a \in Nat, NEW b \in Nat, a <= b PROVE end[a] <= end[b]
  <2> DEFINE S == {n \in Nat : a <= n => end[a] <= end[n]}
  <2>1. 0 \in S BY <1>5
  <2>2. ASSUME NEW n \in Nat, n \in S PROVE n + 1 \in S
    <3> SUFFICES ASSUME a <= n + 1 PROVE end[a] <= end[n + 1] OBVIOUS
    <3>1. end[n + 1] = end[n] + c(job, n + 1) BY <1>3
    <3>2. end[a] \in Nat /\ end[n] \in Nat /\ c(job, n + 1) \in Nat BY <1>4, <1>5
    <3>3. CASE a = n + 1 BY <3>2, <3>3
    <3>4. CASE a <= n BY <2>2, <3>1, <3>2, <3>4
    <3>5. QED BY <3>3, <3>4
  <2>3. Nat \subseteq S BY <2>1, <2>2, SetInduction
  <2>4. QED BY <1>7, <2>3
<1>8. QED BY <1>2, <1>3, <1>6, <1>7 DEF end

(***************************************************************************)
(* The child's days.  Where it begins inside a day, or with the first row  *)
(* of one, its days are those of the serial run; where it begins with the  *)
(* last row of a day, all its later rows are dated as if the rows of the   *)
(* day begun, which skipDays has gone on to, had been built.               *)
(***************************************************************************)
ChildTyped ==
    /\ Counted(oJob)
    /\ oJob.first \in Nat \ {0} /\ oJob.last \in Int
    /\ jDate \in Nat /\ oIndex \in Int

NoRows == oStage = "none" /\ oBuilt = noneBuilt

Skipping ==
    /\ oStage = "skip" /\ oBuilt = noneBuilt
    /\ \/ jDate = 0 /\ oIndex = 1 /\ kNewDateIndex = SerialEnd(0)
       \/ /\ jDate # 0 /\ oJob.first # 1
          /\ oIndex = SerialEnd(jDate - 1) /\ kNewDateIndex = oIndex
          /\ \A day \in Nat : day < jDate - 1 => SerialEnd(day) < oJob.first

RowsOnDay(day) == \A row \in {oBuilt.first, oBuilt.last} : OnSerialDay(row, day)
OnSerialDays ==
    /\ oStage = "orders"
    /\ kNewDateIndex = SerialEnd(jDate)
    /\ jDate # 0 => oIndex > SerialEnd(jDate - 1)
    /\ oJob.first # 1 => \A day \in Nat : SerialEnd(day) # oJob.first
    /\ oBuilt # noneBuilt => RowsOnDay(oBuilt.day)

BuiltLate(begun) ==
    /\ oBuilt.day \in Nat /\ oBuilt.day >= begun
    /\ \A row \in {oBuilt.first, oBuilt.last} :
           IF oBuilt.day = begun THEN row = oJob.first
           ELSE OnSerialDay(row + c(oJob, begun), oBuilt.day)
AfterDayBegun(begun) ==
    /\ oStage = "orders" /\ oJob.first # 1
    /\ begun \in 1..jDate
    /\ SerialEnd(begun - 1) = oJob.first
    /\ \A day \in Nat : day < begun - 1 => SerialEnd(day) < oJob.first
    /\ kNewDateIndex = SerialEnd(jDate) - c(oJob, begun)
    /\ oIndex >= oJob.first
    /\ jDate # begun => oIndex > SerialEnd(jDate - 1) - c(oJob, begun)
    /\ oBuilt # noneBuilt => BuiltLate(begun)

DatesInv ==
    \/ NoRows
    \/ ChildTyped /\ (Skipping \/ OnSerialDays \/ \E begun \in Nat : AfterDayBegun(begun))

\* What the invariant says of the rows built is the property.
LEMMA DatesFollow == DatesInv => ChunkDatesAreSerial
<1> SUFFICES ASSUME DatesInv, oBuilt # noneBuilt PROVE ChunkDatesAreSerial
    BY DEF ChunkDatesAreSerial
<1>1. ChildTyped /\ (OnSerialDays \/ \E begun \in Nat : AfterDayBegun(begun))
    BY DEF DatesInv, NoRows, Skipping
<1>2. CASE OnSerialDays
  <2>1. ~BeginsAtAnEnd BY <1>1, <1>2 DEF OnSerialDays, BeginsAtAnEnd, EndsAtFirst, ChildTyped
  <2>2. QED BY <1>2, <2>1 DEF OnSerialDays, RowsOnDay, ChunkDatesAreSerial
<1>3. CASE \E begun \in Nat : AfterDayBegun(begun)
  <2>1. PICK begun \in Nat : AfterDayBegun(begun) BY <1>3
  <2>2. begun - 1 \in 0..jDate /\ jDate \in Nat BY <1>1, <2>1 DEF AfterDayBegun, ChildTyped
  <2>3. EndsAtFirst(begun - 1) BY <2>1, <2>2 DEF AfterDayBegun, EndsAtFirst
  <2>4. BeginsAtAnEnd BY <1>1, <2>1, <2>2, <2>3 DEF BeginsAtAnEnd, AfterDayBegun, ChildTyped
  <2>5. DayBegun = begun
    <3>1. ASSUME NEW day \in 0..jDate, EndsAtFirst(day) PROVE day = begun - 1
      <4>1. day \in Nat /\ ~(day < begun - 1)
          BY <1>1, <2>1, <3>1 DEF AfterDayBegun, EndsAtFirst, ChildTyped
      <4>2. ~(begun - 1 < day)
        <5>1. SUFFICES ASSUME begun - 1 < day PROVE FALSE OBVIOUS
        <5>2. begun - 1 \in 0..(day - 1) BY <2>2, <4>1, <5>1
        <5>3. SerialEnd(begun - 1) < oJob.first BY <3>1, <5>2 DEF EndsAtFirst
        <5>4. QED BY <1>1, <2>1, <5>3 DEF AfterDayBegun, ChildTyped
      <4>3. QED BY <2>2, <4>1, <4>2
    <3>2. (CHOOSE day \in 0..jDate : EndsAtFirst(day)) = begun - 1 BY <2>2, <2>3, <3>1
    <3>3. DayBegun = 1 + (begun - 1) BY <3>2, Zenon DEF DayBegun
    <3>4. QED BY <3>3
  <2>6. QED BY <2>1, <2>4, <2>5 DEF AfterDayBegun, BuiltLate, ChunkDatesAreSerial
<1>4. QED BY <1>1, <1>2, <1>3

LEMMA ShareBegins ==
    ASSUME NEW rows \in Nat, NEW parallel \in Nat \ {0}, NEW child \in 1..parallel
    PROVE  /\ split_work(rows, parallel, child).first \in Nat \ {0}
           /\ split_work(rows, parallel, child).last \in Int
<1>1. PICK size : size = rows \div parallel OBVIOUS
<1>2. PICK extra : extra = rows % parallel OBVIOUS
<1>3. size \in Nat /\ extra \in Nat BY <1>1, <1>2
<1>4. PICK before : before = (child - 1) * size OBVIOUS
<1>5. before \in Nat
  <2>1. \A a, b \in Nat : a * b \in Nat OBVIOUS
  <2>2. child - 1 \in Nat OBVIOUS
  <2>3. QED BY <1>3, <1>4, <2>1, <2>2
<1>6. least(child - 1, extra) \in Nat BY <1>3 DEF least
<1>7. QED BY <1>1, <1>2, <1>3, <1>4, <1>5, <1>6 DEF split_work

LEMMA DatesBegin == OrderInit \/ OrderIdle => DatesInv
<1>1. CASE OrderIdle BY <1>1 DEF OrderIdle, DatesInv, NoRows
<1>2. CASE OrderInit
  <2>1. PICK j \in OrderJobs :
            LET share == split_work(get_rowcount(j.table, j.scale), j.parallel, j.child)
            IN  /\ oJob = [table |-> j.table, scale |-> j.scale, first |-> share.first, last |-> share.last]
                /\ oStage = IF share.last < share.first THEN "none" ELSE "skip"
                /\ kNewDateIndex = IF share.last < share.first THEN 0
                                   ELSE c(oJob, 0) + 1
      BY <1>2 DEF OrderInit
  <2>2. PICK share : share = split_work(get_rowcount(j.table, j.scale), j.parallel, j.child)
      OBVIOUS
  <2>3. PICK rows : rows = get_rowcount(j.table, j.scale) OBVIOUS
  <2>4. rows \in Nat BY <2>3, OrderJobsAssumption
  <2>5. share.first \in Nat \ {0} /\ share.last \in Int
      BY <2>2, <2>3, <2>4, OrderJobsAssumption, ShareBegins
  <2>6. oIndex = 1 /\ jDate = 0 /\ oBuilt = noneBuilt BY <1>2 DEF OrderInit
  <2>7. CASE share.last < share.first BY <2>1, <2>2, <2>6, <2>7 DEF DatesInv, NoRows
  <2>8. CASE ~(share.last < share.first)
    <3>1. oJob.first = share.first /\ oJob.last = share.last /\ Counted(oJob)
        BY <2>1, <2>2, <2>3, <2>4 DEF Counted
    <3>2. oStage = "skip" /\ kNewDateIndex = c(oJob, 0) + 1 BY <2>1, <2>2, <2>8
    <3>3. SerialEnd(0) = 1 + c(oJob, 0) /\ c(oJob, 0) \in Nat
        BY <3>1, SerialEndsGrow, RowsOfADay DEF SerialEnd
    <3>4. ChildTyped BY <2>5, <2>6, <3>1 DEF ChildTyped
    <3>5. Skipping BY <2>6, <3>2, <3>3 DEF Skipping
    <3>6. QED BY <3>4, <3>5 DEF DatesInv
  <2>9. QED BY <2>7, <2>8
<1>3. QED BY <1>1, <1>2

(***************************************************************************)
(* The steps.                                                              *)
(***************************************************************************)
LEMMA EndsOfTheJob ==
    ASSUME ChildTyped
    PROVE  /\ \A day \in Nat : SerialEnd(day) \in Nat \ {0} /\ c(oJob, day) \in Nat
           /\ \A day \in Nat : day # 0 => SerialEnd(day) = SerialEnd(day - 1) + c(oJob, day)
           /\ \A a, b \in Nat : a <= b => SerialEnd(a) <= SerialEnd(b)
           /\ SerialEnd(0) = 1 + c(oJob, 0)
BY SerialEndsGrow, RowsOfADay DEF ChildTyped, SerialEnd

\* A step leaves the job alone, and with it the days of the serial run.
LEMMA JobStays ==
    ASSUME OrderNext
    PROVE  /\ oJob' = oJob
           /\ \A day : SerialEnd(day)' = SerialEnd(day) /\ c(oJob, day)' = c(oJob, day)
<1>1. oJob' = oJob BY DEF OrderNext, SkipDay, BeginOrders, NextDay, BuildOrders
<1>2. QED BY <1>1 DEF SerialEnd

LEMMA SkipDayStep ==
    ASSUME ChildTyped, Skipping, SkipDay
    PROVE  (ChildTyped /\ Skipping)'
<1>1. oJob' = oJob /\ \A day : SerialEnd(day)' = SerialEnd(day)
    BY JobStays DEF OrderNext
<1>2. jDate \in Nat /\ oJob.first \in Nat /\ oIndex < oJob.first BY DEF ChildTyped, SkipDay
<1>3. jDate' = jDate + 1 /\ kNewDateIndex' = oIndex' /\ oStage' = "skip" /\ oBuilt' = noneBuilt
    BY DEF SkipDay, Skipping
<1>4. oIndex' = SerialEnd(jDate)
  <2>1. oIndex' = oIndex + c(oJob, jDate) BY DEF SkipDay
  <2>2. CASE jDate = 0 BY <2>1, <2>2, EndsOfTheJob DEF Skipping
  <2>3. CASE jDate # 0 BY <1>2, <2>1, <2>3, EndsOfTheJob DEF Skipping
  <2>4. QED BY <2>2, <2>3
<1>5. oJob.first # 1
  <2>1. CASE jDate = 0 BY <1>2, <2>1 DEF Skipping
  <2>2. CASE jDate # 0 BY <2>2 DEF Skipping
  <2>3. QED BY <2>1, <2>2
<1>6. \A day \in Nat : day < jDate => SerialEnd(day) < oJob.first
  <2> SUFFICES ASSUME NEW day \in Nat, day < jDate PROVE SerialEnd(day) < oJob.first OBVIOUS
  <2>1. jDate # 0 /\ jDate - 1 \in Nat BY <1>2
  <2>2. SerialEnd(jDate - 1) < oJob.first BY <1>2, <2>1 DEF Skipping
  <2>3. CASE day = jDate - 1 BY <2>2, <2>3
  <2>4. CASE day < jDate - 1 BY <2>1, <2>4 DEF Skipping
  <2>5. QED BY <1>2, <2>3, <2>4
<1>7. SerialEnd(jDate) \in Nat BY <1>2, EndsOfTheJob
<1>8. ChildTyped' BY <1>1, <1>2, <1>3, <1>4, <1>7 DEF ChildTyped
<1>9. Skipping'
  <2>1. jDate' # 0 /\ jDate' - 1 = jDate BY <1>2, <1>3
  <2>2. QED BY <1>1, <1>3, <1>4, <1>5, <1>6, <2>1 DEF Skipping
<1>10. QED BY <1>8, <1>9

LEMMA BeginOrdersStep ==
    ASSUME ChildTyped, Skipping, BeginOrders
    PROVE  (ChildTyped /\ (OnSerialDays \/ \E begun \in Nat : AfterDayBegun(begun)))'
<1>1. oJob' = oJob /\ \A day : SerialEnd(day)' = SerialEnd(day) /\ c(oJob, day)' = c(oJob, day)
    BY JobStays DEF OrderNext
<1>2. jDate \in Nat /\ oJob.first \in Nat \ {0} /\ oIndex >= oJob.first
    BY DEF ChildTyped, BeginOrders
<1>3. oStage' = "orders" /\ oIndex' = oJob.first /\ oBuilt' = noneBuilt
      /\ kNewDateIndex' = kNewDateIndex
    BY DEF BeginOrders, Skipping
<1>4. jDate' = IF oIndex > oJob.first THEN jDate - 1 ELSE jDate BY DEF BeginOrders
<1>5. CASE jDate = 0
  <2>1. oJob.first = 1 /\ jDate' = 0 BY <1>2, <1>4, <1>5 DEF Skipping
  <2>2. ChildTyped' BY <1>1, <1>2, <1>3, <2>1 DEF ChildTyped
  <2>3. OnSerialDays' BY <1>1, <1>3, <1>5, <2>1 DEF OnSerialDays, Skipping
  <2>4. QED BY <2>2, <2>3
<1>6. CASE jDate # 0 /\ oIndex > oJob.first
  <2>1. jDate' = jDate - 1 /\ jDate - 1 \in Nat BY <1>2, <1>4, <1>6
  <2>2. kNewDateIndex' = SerialEnd(jDate - 1) /\ SerialEnd(jDate - 1) > oJob.first
      BY <1>3, <1>6 DEF Skipping
  <2>3. \A day \in Nat : day < jDate - 1 => SerialEnd(day) < oJob.first BY <1>6 DEF Skipping
  <2>4. ASSUME NEW day \in Nat PROVE SerialEnd(day) # oJob.first
    <3>1. SerialEnd(day) \in Nat /\ SerialEnd(jDate - 1) \in Nat BY <2>1, EndsOfTheJob
    <3>2. CASE day < jDate - 1 BY <1>2, <2>3, <3>1, <3>2
    <3>3. CASE jDate - 1 <= day
      <4>1. SerialEnd(jDate - 1) <= SerialEnd(day) BY <2>1, <3>3, EndsOfTheJob
      <4>2. QED BY <1>2, <2>2, <3>1, <4>1
    <3>4. QED BY <1>2, <3>2, <3>3
  <2>5. ASSUME jDate - 1 # 0 PROVE oJob.first > SerialEnd(jDate - 2)
    <3>1. jDate - 2 \in Nat /\ jDate - 2 < jDate - 1 BY <1>2, <1>6, <2>5
    <3>2. QED BY <1>2, <2>3, <3>1, EndsOfTheJob
  <2>6. ChildTyped' BY <1>1, <1>2, <1>3, <2>1 DEF ChildTyped
  <2>7. OnSerialDays'
    <3>1. jDate' - 1 = jDate - 2 BY <1>2, <2>1
    <3>2. QED BY <1>1, <1>3, <2>1, <2>2, <2>4, <2>5, <3>1 DEF OnSerialDays
  <2>8. QED BY <2>6, <2>7
<1>7. CASE jDate # 0 /\ oIndex = oJob.first
  <2>1. jDate' = jDate BY <1>2, <1>4, <1>7
  <2>2. SerialEnd(jDate - 1) = oJob.first /\ kNewDateIndex' = oJob.first /\ oJob.first # 1
        /\ \A day \in Nat : day < jDate - 1 => SerialEnd(day) < oJob.first
      BY <1>3, <1>7 DEF Skipping
  <2>3. kNewDateIndex' = SerialEnd(jDate) - c(oJob, jDate)
    <3>1. SerialEnd(jDate) = SerialEnd(jDate - 1) + c(oJob, jDate) /\ c(oJob, jDate) \in Nat
        BY <1>2, <1>7, EndsOfTheJob
    <3>2. QED BY <1>2, <2>2, <3>1
  <2>4. ChildTyped' BY <1>1, <1>2, <1>3, <2>1 DEF ChildTyped
  <2>5. jDate \in 1..jDate' /\ oJob.first >= oJob.first BY <1>2, <1>7, <2>1
  <2>6. AfterDayBegun(jDate)'
    <3> SUFFICES /\ oStage' = "orders" /\ oJob'.first # 1
                 /\ jDate' \in 1..jDate'
                 /\ SerialEnd(jDate - 1)' = oJob'.first
                 /\ \A day \in Nat : day < jDate' - 1 => SerialEnd(day)' < oJob'.first
                 /\ kNewDateIndex' = SerialEnd(jDate)' - c(oJob, jDate)'
                 /\ oIndex' >= oJob'.first
                 /\ oBuilt' = noneBuilt
        BY DEF AfterDayBegun
    <3>1. QED BY <1>1, <1>3, <2>1, <2>2, <2>3, <2>5
  <2>7. QED BY <1>2, <2>1, <2>4, <2>6
<1>8. QED BY <1>2, <1>5, <1>6, <1>7 DEF ChildTyped

LEMMA NextDayStep ==
    ASSUME ChildTyped, NextDay
    PROVE  /\ ChildTyped'
           /\ OnSerialDays => OnSerialDays'
           /\ \A begun \in Nat : AfterDayBegun(begun) => AfterDayBegun(begun)'
<1>1. oJob' = oJob /\ \A day : SerialEnd(day)' = SerialEnd(day) /\ c(oJob, day)' = c(oJob, day)
    BY JobStays DEF OrderNext
<1>2. jDate \in Nat /\ jDate' = jDate + 1 /\ jDate' \in Nat /\ jDate' # 0 /\ jDate' - 1 = jDate
    BY DEF ChildTyped, NextDay
<1>3. oIndex \in Int /\ oIndex > kNewDateIndex /\ oJob.first \in Nat BY DEF ChildTyped, NextDay
<1>4. kNewDateIndex' = kNewDateIndex + c(oJob, jDate') BY <1>1 DEF NextDay
<1>5. oStage' = oStage /\ oIndex' = oIndex /\ oBuilt' = oBuilt BY DEF NextDay
<1>6. SerialEnd(jDate') = SerialEnd(jDate) + c(oJob, jDate')
      /\ SerialEnd(jDate) \in Nat /\ c(oJob, jDate') \in Nat
    BY <1>2, EndsOfTheJob
<1>7. ChildTyped' BY <1>1, <1>2, <1>3, <1>5 DEF ChildTyped
<1>8. ASSUME OnSerialDays PROVE OnSerialDays'
  <2>1. kNewDateIndex' = SerialEnd(jDate') BY <1>4, <1>6, <1>8 DEF OnSerialDays
  <2>2. oIndex > SerialEnd(jDate) BY <1>3, <1>8 DEF OnSerialDays
  <2>3. oBuilt # noneBuilt => RowsOnDay(oBuilt.day)'
      BY <1>1, <1>5, <1>8 DEF OnSerialDays, RowsOnDay, OnSerialDay
  <2>4. (oBuilt # noneBuilt => RowsOnDay(oBuilt.day))' BY <1>5, <2>3 DEF RowsOnDay
  <2>5. QED BY <1>1, <1>2, <1>5, <1>8, <2>1, <2>2, <2>4 DEF OnSerialDays
<1>9. ASSUME NEW begun \in Nat, AfterDayBegun(begun) PROVE AfterDayBegun(begun)'
  <2>1. c(oJob, begun) \in Nat BY EndsOfTheJob
  <2>2. kNewDateIndex = SerialEnd(jDate) - c(oJob, begun) BY <1>9 DEF AfterDayBegun
  <2>3. kNewDateIndex' = SerialEnd(jDate') - c(oJob, begun) BY <1>4, <1>6, <2>1, <2>2
  <2>4. oIndex > SerialEnd(jDate) - c(oJob, begun) BY <1>3, <2>2
  <2>5. begun \in 1..jDate' BY <1>2, <1>9 DEF AfterDayBegun
  <2>6. (oBuilt # noneBuilt => BuiltLate(begun))'
      BY <1>1, <1>5, <1>9 DEF AfterDayBegun, BuiltLate, OnSerialDay
  <2>7. QED BY <1>1, <1>2, <1>5, <1>9, <2>3, <2>4, <2>5, <2>6 DEF AfterDayBegun
<1>10. QED BY <1>7, <1>8, <1>9

LEMMA BuildOrdersStep ==
    ASSUME ChildTyped, BuildOrders, OnSerialDays \/ \E begun \in Nat : AfterDayBegun(begun)
    PROVE  /\ ChildTyped'
           /\ OnSerialDays => OnSerialDays'
           /\ \A begun \in Nat : AfterDayBegun(begun) => AfterDayBegun(begun)'
<1>1. oJob' = oJob /\ \A day : SerialEnd(day)' = SerialEnd(day) /\ c(oJob, day)' = c(oJob, day)
    BY JobStays DEF OrderNext
<1>2. PICK last : last = least(kNewDateIndex, oJob.last) OBVIOUS
<1>3. oBuilt' = [first |-> oIndex, last |-> last, day |-> jDate, days |-> oBuilt.days + 1]
      /\ oIndex' = last + 1
    BY <1>2 DEF BuildOrders
<1>4. oBuilt'.first = oIndex /\ oBuilt'.last = last /\ oBuilt'.day = jDate BY <1>3
<1>5. oStage' = oStage /\ jDate' = jDate /\ kNewDateIndex' = kNewDateIndex BY DEF BuildOrders
<1>6. oIndex \in Int /\ oJob.last \in Int /\ oJob.first \in Nat /\ jDate \in Nat BY DEF ChildTyped
<1>7. oIndex <= oJob.last /\ oIndex <= kNewDateIndex BY DEF BuildOrders
<1>8. SerialEnd(jDate) \in Nat /\ (jDate # 0 => SerialEnd(jDate - 1) \in Nat)
    BY <1>6, EndsOfTheJob
<1>9. ASSUME kNewDateIndex \in Int
      PROVE  last \in Int /\ oIndex <= last /\ last <= kNewDateIndex
    BY <1>2, <1>6, <1>7, <1>9 DEF least
<1>10. ASSUME kNewDateIndex \in Int PROVE ChildTyped'
    BY <1>1, <1>3, <1>5, <1>9, <1>10 DEF ChildTyped
<1>11. ASSUME OnSerialDays PROVE OnSerialDays' /\ kNewDateIndex \in Int
  <2>1. kNewDateIndex = SerialEnd(jDate) BY <1>11 DEF OnSerialDays
  <2>2. last \in Int /\ oIndex <= last /\ last <= SerialEnd(jDate) BY <1>8, <1>9, <2>1
  <2>3. jDate # 0 => oIndex > SerialEnd(jDate - 1) BY <1>11 DEF OnSerialDays
  <2>4. OnSerialDay(oIndex, jDate) /\ OnSerialDay(last, jDate)
      BY <1>6, <1>8, <2>2, <2>3 DEF OnSerialDay
  <2>5. (RowsOnDay(oBuilt.day))' BY <1>1, <1>4, <2>4 DEF RowsOnDay, OnSerialDay
  <2>6. jDate # 0 => oIndex' > SerialEnd(jDate - 1) BY <1>3, <1>6, <1>8, <2>2, <2>3
  <2>7. OnSerialDays' BY <1>1, <1>5, <1>11, <2>1, <2>5, <2>6 DEF OnSerialDays
  <2>8. QED BY <1>8, <2>1, <2>7
<1>12. ASSUME NEW begun \in Nat, AfterDayBegun(begun)
       PROVE  AfterDayBegun(begun)' /\ kNewDateIndex \in Int
  <2>1. c(oJob, begun) \in Nat BY EndsOfTheJob
  <2>2. begun \in 1..jDate /\ oIndex >= oJob.first BY <1>12 DEF AfterDayBegun
  <2>3. kNewDateIndex = SerialEnd(jDate) - c(oJob, begun) BY <1>12 DEF AfterDayBegun
  <2>4. last \in Int /\ oIndex <= last /\ last <= kNewDateIndex BY <1>8, <1>9, <2>1, <2>3
  <2>5. jDate # begun => oIndex > SerialEnd(jDate - 1) - c(oJob, begun)
      BY <1>12 DEF AfterDayBegun
  <2>6. ASSUME jDate = begun PROVE BuiltLate(begun)'
    <3>1. SerialEnd(begun) = SerialEnd(begun - 1) + c(oJob, begun) BY <1>6, <2>2, EndsOfTheJob
    <3>2. SerialEnd(begun - 1) = oJob.first BY <1>12 DEF AfterDayBegun
    <3>3. kNewDateIndex = oJob.first BY <1>6, <2>1, <2>3, <2>6, <3>1, <3>2
    <3>4. oIndex = oJob.first /\ last = oJob.first BY <1>6, <2>2, <2>4, <3>3
    <3>5. BuiltLate(begun)' BY <1>1, <1>4, <1>6, <2>6, <3>4 DEF BuiltLate
    <3>6. QED BY <3>5
  <2>7. ASSUME jDate # begun PROVE BuiltLate(begun)'
    <3>1. jDate # 0 /\ jDate >= begun BY <1>6, <2>2
    <3>2. SerialEnd(jDate) \in Nat /\ SerialEnd(jDate - 1) \in Nat BY <1>8, <3>1
    <3>3. OnSerialDay(oIndex + c(oJob, begun), jDate) /\ OnSerialDay(last + c(oJob, begun), jDate)
        BY <1>6, <2>1, <2>3, <2>4, <2>5, <2>7, <3>2 DEF OnSerialDay
    <3>4. BuiltLate(begun)' BY <1>1, <1>4, <1>6, <2>7, <3>1, <3>3 DEF BuiltLate, OnSerialDay
    <3>5. QED BY <3>4
  <2>8. oIndex' >= oJob.first /\ oIndex' > oIndex BY <1>3, <1>6, <2>2, <2>4
  <2>9. jDate # begun => oIndex' > SerialEnd(jDate - 1) - c(oJob, begun)
    <3> SUFFICES ASSUME jDate # begun PROVE oIndex' > SerialEnd(jDate - 1) - c(oJob, begun)
        OBVIOUS
    <3>1. SerialEnd(jDate - 1) \in Nat BY <1>6, <1>8, <2>2
    <3>2. oIndex' \in Int BY <1>3, <2>4
    <3>3. QED BY <1>6, <2>1, <2>5, <2>8, <3>1, <3>2
  <2>10. AfterDayBegun(begun)'
      BY <1>1, <1>5, <1>12, <2>6, <2>7, <2>8, <2>9 DEF AfterDayBegun
  <2>11. QED BY <1>8, <2>1, <2>3, <2>10
<1>13. kNewDateIndex \in Int BY <1>11, <1>12
<1>14. QED BY <1>10, <1>11, <1>12, <1>13

LEMMA DatesContinue == DatesInv /\ [OrderNext]_orderVars => DatesInv'
<1> SUFFICES ASSUME DatesInv, [OrderNext]_orderVars PROVE DatesInv' OBVIOUS
<1>1. CASE UNCHANGED orderVars
  <2>1. NoRows => NoRows' BY <1>1 DEF orderVars, NoRows
  <2>2. ChildTyped => ChildTyped' BY <1>1 DEF orderVars, ChildTyped, Counted
  <2>3. Skipping => Skipping' BY <1>1 DEF orderVars, Skipping, SerialEnd
  <2>4. OnSerialDays => OnSerialDays'
      BY <1>1 DEF orderVars, OnSerialDays, RowsOnDay, OnSerialDay, SerialEnd
  <2>5. ASSUME NEW begun \in Nat, AfterDayBegun(begun) PROVE AfterDayBegun(begun)'
      BY <1>1, <2>5 DEF orderVars, AfterDayBegun, BuiltLate, OnSerialDay, SerialEnd
  <2>6. QED BY <2>1, <2>2, <2>3, <2>4, <2>5 DEF DatesInv
<1>2. CASE SkipDay
  <2>1. ChildTyped /\ Skipping
      BY <1>2 DEF DatesInv, NoRows, OnSerialDays, AfterDayBegun, SkipDay
  <2>2. QED BY <1>2, <2>1, SkipDayStep DEF DatesInv
<1>3. CASE BeginOrders
  <2>1. ChildTyped /\ Skipping
      BY <1>3 DEF DatesInv, NoRows, OnSerialDays, AfterDayBegun, BeginOrders
  <2>2. QED BY <1>3, <2>1, BeginOrdersStep DEF DatesInv
<1>4. CASE NextDay
  <2>1. ChildTyped /\ (OnSerialDays \/ \E begun \in Nat : AfterDayBegun(begun))
      BY <1>4 DEF DatesInv, NoRows, Skipping, NextDay
  <2>2. QED BY <1>4, <2>1, NextDayStep DEF DatesInv
<1>5. CASE BuildOrders
  <2>1. ChildTyped /\ (OnSerialDays \/ \E begun \in Nat : AfterDayBegun(begun))
      BY <1>5 DEF DatesInv, NoRows, Skipping, BuildOrders
  <2>2. QED BY <1>5, <2>1, BuildOrdersStep DEF DatesInv
<1>6. QED BY <1>1, <1>2, <1>3, <1>4, <1>5 DEF OrderNext

\* Every child of every parallel run of a sales table dates its rows as the
\* serial run does, or, where it begins with the last row of a day, as the rows
\* that skipDays takes for built put them (driver.c skipDays, the masters).
THEOREM ChunksFollowTheDays == OrderSpec => []ChunkDatesAreSerial
<1>1. OrderInit \/ OrderIdle => DatesInv BY DatesBegin
<1>2. DatesInv /\ [OrderNext]_orderVars => DatesInv' BY DatesContinue
<1>3. DatesInv => ChunkDatesAreSerial BY DatesFollow
<1>4. QED BY <1>1, <1>2, <1>3, PTL DEF OrderSpec

(***************************************************************************)
(* Update sets: the rows of a date end where those of the next begin.      *)
(***************************************************************************)
LEMMA QuotientIs ==
    ASSUME NEW d \in Nat \ {0}, NEW q \in Nat, NEW r \in Nat, r < d,
           NEW n \in Nat, n = d * q + r
    PROVE  n \div d = q /\ n % d = r
<1>1. PICK p \in Nat, m \in Nat : p = n \div d /\ m = n % d /\ m < d /\ n = d * p + m BY SMT
<1>2. d * q + r = d * p + m BY <1>1
<1>3. ~(q < p)
  <2> SUFFICES ASSUME q + 1 <= p PROVE FALSE OBVIOUS
  <2>1. d * (q + 1) <= d * p BY SMT
  <2>2. d * (q + 1) = d * q + d BY SMT
  <2>3. QED
    <3>1. PICK x, y : x = d * q /\ y = d * p OBVIOUS
    <3>2. x \in Nat /\ y \in Nat BY <3>1
    <3>3. x + d <= y /\ x + r = y + m BY <1>2, <2>1, <2>2, <3>1
    <3>4. QED BY <1>1, <3>2, <3>3
<1>4. ~(p < q)
  <2> SUFFICES ASSUME p + 1 <= q PROVE FALSE OBVIOUS
  <2>1. d * (p + 1) <= d * q BY SMT
  <2>2. d * (p + 1) = d * p + d BY SMT
  <2>3. QED
    <3>1. PICK x, y : x = d * q /\ y = d * p OBVIOUS
    <3>2. x \in Nat /\ y \in Nat BY <3>1
    <3>3. y + d <= x /\ x + r = y + m BY <1>2, <2>1, <2>2, <3>1
    <3>4. QED BY <1>1, <3>2, <3>3
<1>5. p = q BY <1>3, <1>4
<1>6. m = r
  <2>1. PICK x : x = d * q OBVIOUS
  <2>2. x \in Nat /\ x + r = x + m BY <1>2, <1>5, <2>1
  <2>3. QED BY <1>1, <2>2
<1>7. QED BY <1>1, <1>5, <1>6

LEMMA RowsOnType ==
    ASSUME NEW table \in DatedTables, NEW julian PROVE rowsOn(table, julian) \in Nat
<1>1. CASE table = "S_INVENTORY"
  <2>1. StockItems * Warehouses \in Nat BY StockAssumption, SMT
  <2>2. QED BY <1>1, <2>1 DEF rowsOn
<1>2. CASE table # "S_INVENTORY"
  <2>1. PICK sales, rows : sales = salesOf(table) /\ rows = get_rowcount(salesOf(table), UpdateScale)
      OBVIOUS
  <2>2. rows \in Nat BY <1>2, <2>1, StockAssumption
  <2>3. dateScaling(sales, rows, julian) \in Nat BY <2>2, DaysHaveRows
  <2>4. QED BY <1>2, <2>1, <2>3 DEF rowsOn
<1>3. QED BY <1>1, <1>2

\* The recursion that adds up the dates has a solution.
LEMMA DayRowcounts ==
    ASSUME NEW table \in DatedTables
    PROVE  dayRowcounts(table) = [i \in 1..6 |->
               (IF i = 1 THEN 0 ELSE dayRowcounts(table)[i - 1]) + rowsOn(table, uOrders[i])]
<1> DEFINE r(i) == rowsOn(table, uOrders[i])
           two == r(1) + r(2)
           three == two + r(3)
           four == three + r(4)
           five == four + r(5)
           six == five + r(6)
           f == [i \in 1..6 |-> CASE i = 1 -> r(1) [] i = 2 -> two [] i = 3 -> three
                                  [] i = 4 -> four [] i = 5 -> five [] OTHER -> six]
           g == [i \in 1..6 |-> (IF i = 1 THEN 0 ELSE f[i - 1]) + r(i)]
<1>1. \A i \in 1..6 : r(i) \in Nat BY RowsOnType
<1>2. two \in Nat /\ three \in Nat /\ four \in Nat /\ five \in Nat /\ six \in Nat
  <2> HIDE DEF r
  <2>1. QED BY <1>1
<1>3. \A i \in 1..6 : f[i] = (IF i = 1 THEN 0 ELSE f[i - 1]) + r(i)
  <2> HIDE DEF r
  <2> TAKE i \in 1..6
  <2>1. CASE i = 1 BY <1>1, <2>1
  <2>2. CASE i = 2 BY <2>2
  <2>3. CASE i = 3 BY <2>3
  <2>4. CASE i = 4 BY <2>4
  <2>5. CASE i = 5 BY <2>5
  <2>6. CASE i = 6 BY <2>6
  <2>7. QED BY <2>1, <2>2, <2>3, <2>4, <2>5, <2>6
<1>4. f = g
  <2> HIDE DEF r, two, three, four, five, six
  <2>1. QED BY <1>3
<1>5. \E h : h = [i \in 1..6 |-> (IF i = 1 THEN 0 ELSE h[i - 1]) + rowsOn(table, uOrders[i])]
  <2>1. f = [i \in 1..6 |-> (IF i = 1 THEN 0 ELSE f[i - 1]) + rowsOn(table, uOrders[i])]
    <3> HIDE DEF f
    <3>1. QED BY <1>4
  <2> HIDE DEF f
  <2>2. QED BY <2>1
<1>6. QED BY <1>5 DEF dayRowcounts

\* The rows of the table scaled last, from date to date.
Ends(count, table) ==
    /\ count \in [1..6 -> Nat]
    /\ count[1] = rowsOn(table, uOrders[1])
    /\ \A i \in 2..6 : count[i] = count[i - 1] + rowsOn(table, uOrders[i])

LEMMA DayRowcountsEnd ==
    ASSUME NEW table \in DatedTables PROVE Ends(dayRowcounts(table), table)
<1>1. PICK count : count = dayRowcounts(table) OBVIOUS
<1>2. count = [i \in 1..6 |->
                  (IF i = 1 THEN 0 ELSE count[i - 1]) + rowsOn(table, uOrders[i])]
    BY <1>1, DayRowcounts
<1>3. PICK r : r = [i \in 1..6 |-> rowsOn(table, uOrders[i])] OBVIOUS
<1>4. \A i \in 1..6 : r[i] = rowsOn(table, uOrders[i]) /\ r[i] \in Nat BY <1>3, RowsOnType
<1>5. count = [i \in 1..6 |-> (IF i = 1 THEN 0 ELSE count[i - 1]) + r[i]] BY <1>2, <1>4
<1>6. count[1] = r[1] BY <1>4, <1>5
<1>7. \A i \in 2..6 : count[i] = count[i - 1] + r[i] BY <1>5
<1>8. count[1] \in Nat /\ count[2] \in Nat /\ count[3] \in Nat BY <1>4, <1>6, <1>7
<1>9. count[4] \in Nat /\ count[5] \in Nat /\ count[6] \in Nat BY <1>4, <1>7, <1>8
<1>10. \A i \in 1..6 : count[i] \in Nat
  <2> TAKE i \in 1..6
  <2>1. i \in {1, 2, 3, 4, 5, 6} OBVIOUS
  <2>2. QED BY <1>8, <1>9, <2>1
<1>11. count \in [1..6 -> Nat] BY <1>5, <1>10
<1>12. QED BY <1>1, <1>4, <1>6, <1>7, <1>11 DEF Ends

Before(count, i) == IF i = 1 THEN 0 ELSE count[i - 1]

\* The slot of a row is the date whose rows it lies among.
LEMMA SlotOf ==
    ASSUME NEW table \in DatedTables, Ends(kDayRowcount, table),
           NEW k \in 1..kDayRowcount[6], NEW i \in 1..6
    PROVE  getUpdateSlot(k) = i <=> k \in (Before(kDayRowcount, i) + 1)..kDayRowcount[i]
<1> DEFINE slot(s) == /\ k <= kDayRowcount[s] \/ s = 6
                      /\ \A j \in 1..(s - 1) : k > kDayRowcount[j]
<1>1. kDayRowcount \in [1..6 -> Nat] BY DEF Ends
<1>2. \A s \in 1..5 : kDayRowcount[s] <= kDayRowcount[s + 1]
  <2> TAKE s \in 1..5
  <2>1. rowsOn(table, uOrders[s + 1]) \in Nat BY RowsOnType
  <2>2. kDayRowcount[s + 1] = kDayRowcount[s] + rowsOn(table, uOrders[s + 1]) BY DEF Ends
  <2>3. QED BY <1>1, <2>1, <2>2
<1>3. \A s \in 1..6 : slot(s) <=> k \in (Before(kDayRowcount, s) + 1)..kDayRowcount[s]
  <2>1. \A j \in 1..5 : k > kDayRowcount[j] => \A b \in 1..j : k > kDayRowcount[b]
    <3> TAKE j \in 1..5
    <3>1. kDayRowcount[1] <= kDayRowcount[2] /\ kDayRowcount[2] <= kDayRowcount[3]
          /\ kDayRowcount[3] <= kDayRowcount[4] /\ kDayRowcount[4] <= kDayRowcount[5] BY <1>2
    <3>2. QED BY <1>1, <3>1
  <2> TAKE s \in 1..6
  <2>2. CASE s = 1 BY <1>1, <2>2 DEF Before
  <2>3. CASE s # 1
    <3>1. s - 1 \in 1..5 BY <2>3
    <3>2. (\A j \in 1..(s - 1) : k > kDayRowcount[j]) <=> k > kDayRowcount[s - 1]
        BY <2>1, <3>1
    <3>3. QED BY <1>1, <2>3, <3>1, <3>2 DEF Before
  <2>4. QED BY <2>2, <2>3
<1>4. \E s \in 1..6 : slot(s)
  <2> HIDE DEF slot
  <2>1. CASE k <= kDayRowcount[1] BY <1>1, <1>3, <2>1 DEF Before
  <2>2. CASE k > kDayRowcount[1] /\ k <= kDayRowcount[2] BY <1>1, <1>3, <2>2 DEF Before
  <2>3. CASE k > kDayRowcount[2] /\ k <= kDayRowcount[3] BY <1>1, <1>3, <2>3 DEF Before
  <2>4. CASE k > kDayRowcount[3] /\ k <= kDayRowcount[4] BY <1>1, <1>3, <2>4 DEF Before
  <2>5. CASE k > kDayRowcount[4] /\ k <= kDayRowcount[5] BY <1>1, <1>3, <2>5 DEF Before
  <2>6. CASE k > kDayRowcount[5] BY <1>1, <1>3, <2>6 DEF Before
  <2>7. QED BY <1>1, <2>1, <2>2, <2>3, <2>4, <2>5, <2>6
<1>5. \A s, t \in 1..6 : slot(s) /\ slot(t) => s = t
  <2> TAKE s, t \in 1..6
  <2> SUFFICES ASSUME slot(s), slot(t), s < t PROVE FALSE
    <3>1. ~(s < t) /\ ~(t < s) => s = t OBVIOUS
    <3>2. QED BY <1>1
  <2>1. s \in 1..(t - 1) /\ s # 6 OBVIOUS
  <2>2. QED BY <1>1, <2>1
<1>6. getUpdateSlot(k) = CHOOSE s \in 1..6 : slot(s) BY DEF getUpdateSlot
<1>7. getUpdateSlot(k) \in 1..6 /\ slot(getUpdateSlot(k))
  <2> HIDE DEF slot
  <2>1. QED BY <1>4, <1>6
<1>8. getUpdateSlot(k) = i <=> slot(i)
  <2> HIDE DEF slot
  <2>1. QED BY <1>5, <1>7
<1>9. QED BY <1>3, <1>8

Dated(i) == {k \in 1..kDayRowcount[6] : getUpdateSlot(k) = i}

LEMMA DatedRows ==
    ASSUME NEW table \in DatedTables, Ends(kDayRowcount, table), NEW i \in 1..6
    PROVE  Dated(i) = (Before(kDayRowcount, i) + 1)..kDayRowcount[i]
<1>1. kDayRowcount \in [1..6 -> Nat] BY DEF Ends
<1>2. kDayRowcount[i] <= kDayRowcount[6]
  <2>1. \A s \in 1..5 : kDayRowcount[s] <= kDayRowcount[s + 1]
    <3> TAKE s \in 1..5
    <3>1. rowsOn(table, uOrders[s + 1]) \in Nat BY RowsOnType
    <3>2. kDayRowcount[s + 1] = kDayRowcount[s] + rowsOn(table, uOrders[s + 1]) BY DEF Ends
    <3>3. QED BY <1>1, <3>1, <3>2
  <2>2. i \in {1, 2, 3, 4, 5, 6} OBVIOUS
  <2>3. QED BY <1>1, <2>1, <2>2
<1>3. Before(kDayRowcount, i) \in Nat BY <1>1 DEF Before
<1>4. (Before(kDayRowcount, i) + 1)..kDayRowcount[i] \subseteq 1..kDayRowcount[6]
    BY <1>1, <1>2, <1>3
<1>5. QED BY <1>4, SlotOf DEF Dated

\* Every date has its rows.
LEMMA DatedCount ==
    ASSUME NEW table \in DatedTables, Ends(kDayRowcount, table), NEW i \in 1..6
    PROVE  Cardinality(Dated(i)) = rowsOn(table, uOrders[i])
<1>1. kDayRowcount \in [1..6 -> Nat] BY DEF Ends
<1>2. PICK a, b, r : a = Before(kDayRowcount, i) /\ b = kDayRowcount[i]
                     /\ r = rowsOn(table, uOrders[i]) OBVIOUS
<1>3. a \in Nat /\ b \in Nat /\ r \in Nat BY <1>1, <1>2, RowsOnType DEF Before
<1>4. b = a + r
  <2>1. CASE i = 1 BY <1>1, <1>2, <1>3, <2>1 DEF Ends, Before
  <2>2. CASE i # 1
    <3>1. i \in 2..6 BY <2>2
    <3>2. QED BY <1>2, <2>2, <3>1 DEF Ends, Before
  <2>3. QED BY <2>1, <2>2
<1>5. Dated(i) = (a + 1)..b BY <1>2, DatedRows
<1>6. Cardinality((a + 1)..b) = IF a + 1 > b THEN 0 ELSE b - (a + 1) + 1
    BY <1>3, FS_Interval
<1>7. QED BY <1>2, <1>3, <1>4, <1>5, <1>6

\* The row of an item and a warehouse in round n of all of them.
StockRow(n, item, w) == StockItems * (Warehouses * n + (w - 1)) + item
Stocks == StockItems * Warehouses

LEMMA StockRows ==
    ASSUME NEW n \in Nat, NEW item \in 1..StockItems, NEW w \in 1..Warehouses
    PROVE  LET k == StockRow(n, item, w)
           IN  /\ k \in (Stocks * n + 1)..(Stocks * n + Stocks)
               /\ stockOf(k) = [item |-> item, warehouse |-> w]
               /\ weekOf(k) = InventoryWeek(n)
<1>1. PICK s \in Nat \ {0}, h \in Nat \ {0} : s = StockItems /\ h = Warehouses
    BY StockAssumption
<1>2. PICK a \in Nat, b \in Nat : a = item - 1 /\ b = w - 1 /\ a < s /\ b < h BY <1>1
<1>3. PICK hn \in Nat : hn = h * n BY SMT
<1>4. PICK q \in Nat : q = hn + b BY <1>3
<1>5. PICK sq \in Nat : sq = s * q BY SMT
<1>6. PICK k \in Nat : k = sq + a BY <1>5
<1>7. StockRow(n, item, w) = k + 1
  <2>1. Warehouses * n + (w - 1) = q BY <1>1, <1>2, <1>3, <1>4
  <2>2. QED BY <1>1, <1>2, <1>5, <1>6, <2>1 DEF StockRow
<1>8. k \div s = q /\ k % s = a BY <1>1, <1>2, <1>5, <1>6, QuotientIs
<1>9. q % h = b BY <1>1, <1>2, <1>3, <1>4, QuotientIs
<1>10. stockOf(k + 1) = [item |-> item, warehouse |-> w]
  <2>1. (k + 1) - 1 = k BY <1>6
  <2>2. a + 1 = item /\ b + 1 = w BY <1>2
  <2>3. QED BY <1>1, <1>8, <1>9, <2>1, <2>2 DEF stockOf
<1>11. PICK p \in Nat \ {0} : p = s * h BY SMT
<1>12. PICK pn \in Nat : pn = p * n BY SMT
<1>13. PICK r \in Nat : r = s * b + a /\ r < p /\ k = pn + r
  <2>1. s * b \in Nat /\ s * b + s <= p
    <3>1. s * b \in Nat BY SMT
    <3>2. s * (b + 1) <= s * h BY <1>2, SMT
    <3>3. s * (b + 1) = s * b + s BY SMT
    <3>4. QED BY <1>11, <3>1, <3>2, <3>3
  <2>2. sq = pn + s * b
    <3>1. s * (hn + b) = s * hn + s * b BY SMT
    <3>2. s * (h * n) = (s * h) * n BY SMT
    <3>3. QED BY <1>3, <1>4, <1>5, <1>11, <1>12, <3>1, <3>2
  <2>3. PICK sb : sb = s * b OBVIOUS
  <2>4. sb \in Nat /\ sb + s <= p /\ sq = pn + sb BY <2>1, <2>2, <2>3
  <2>5. sb + a \in Nat /\ sb + a < p /\ k = pn + (sb + a) BY <1>2, <1>6, <2>4
  <2>6. QED BY <2>3, <2>5
<1>14. k \div p = n BY <1>11, <1>12, <1>13, QuotientIs
<1>15. p = Stocks BY <1>1, <1>11 DEF Stocks
<1>16. weekOf(k + 1) = InventoryWeek(n)
  <2>1. (k + 1) - 1 = k BY <1>6
  <2>2. QED BY <1>14, <1>15, <2>1 DEF weekOf, InventoryWeek, Stocks
<1>17. k + 1 \in (pn + 1)..(pn + p) BY <1>11, <1>13
<1>18. QED BY <1>7, <1>10, <1>12, <1>15, <1>16, <1>17

\* Each row is that of its own item and warehouse, in some round.
LEMMA RowsAreStockRows ==
    ASSUME NEW k \in Nat \ {0}
    PROVE  /\ stockOf(k).item \in 1..StockItems /\ stockOf(k).warehouse \in 1..Warehouses
           /\ \E n \in Nat : k = StockRow(n, stockOf(k).item, stockOf(k).warehouse)
<1>1. PICK s \in Nat \ {0}, h \in Nat \ {0} : s = StockItems /\ h = Warehouses
    BY StockAssumption
<1>2. PICK m \in Nat : m = k - 1 OBVIOUS
<1>3. PICK q \in Nat, a \in Nat : q = m \div s /\ a = m % s /\ a < s /\ m = s * q + a
    BY <1>1, SMT
<1>4. PICK n \in Nat, b \in Nat : n = q \div h /\ b = q % h /\ b < h /\ q = h * n + b
    BY <1>1, SMT
<1>5. stockOf(k) = [item |-> a + 1, warehouse |-> b + 1]
    BY <1>1, <1>2, <1>3, <1>4 DEF stockOf
<1>6. a + 1 \in 1..StockItems /\ b + 1 \in 1..Warehouses BY <1>1, <1>3, <1>4
<1>7. k = StockRow(n, a + 1, b + 1)
  <2>1. h * n + ((b + 1) - 1) = q
    <3>1. PICK hn \in Nat : hn = h * n BY SMT
    <3>2. QED BY <1>4, <3>1
  <2>2. PICK sq \in Nat : sq = s * q BY SMT
  <2>3. k = sq + (a + 1) BY <1>2, <1>3, <2>2
  <2>4. QED BY <1>1, <2>1, <2>2, <2>3 DEF StockRow
<1>8. QED BY <1>5, <1>6, <1>7

LEMMA QuotientIsOne ==
    ASSUME NEW d \in Nat \ {0}, NEW q \in Nat, NEW r \in Nat, r < d,
           NEW p \in Nat, NEW t \in Nat, t < d, NEW n \in Nat, n = d * q + r, n = d * p + t
    PROVE  q = p
<1>1. n \div d = q
  <2>1. PICK x \in Nat : x = d * q BY SMT
  <2>2. QED BY <2>1, QuotientIs
<1>2. n \div d = p
  <2>1. PICK x \in Nat : x = d * p BY SMT
  <2>2. QED BY <2>1, QuotientIs
<1>3. QED BY <1>1, <1>2

\* Rounds follow each other.
LEMMA RoundsAreApart ==
    ASSUME NEW n \in Nat, NEW m \in Nat, NEW k \in Nat,
           k \in (Stocks * n + 1)..(Stocks * n + Stocks),
           k \in (Stocks * m + 1)..(Stocks * m + Stocks)
    PROVE  n = m
<1>1. PICK p \in Nat \ {0} : p = Stocks
  <2>1. StockItems * Warehouses \in Nat \ {0} BY StockAssumption, SMT
  <2>2. QED BY <2>1 DEF Stocks
<1>2. PICK r \in Nat : r = k - (p * n + 1) /\ r < p
  <2>1. PICK x \in Nat : x = p * n BY SMT
  <2>2. k \in (x + 1)..(x + p) BY <1>1, <2>1
  <2>3. k - (x + 1) \in Nat /\ k - (x + 1) < p BY <2>2
  <2>4. QED BY <2>1, <2>3
<1>3. PICK t \in Nat : t = k - (p * m + 1) /\ t < p
  <2>1. PICK x \in Nat : x = p * m BY SMT
  <2>2. k \in (x + 1)..(x + p) BY <1>1, <2>1
  <2>3. k - (x + 1) \in Nat /\ k - (x + 1) < p BY <2>2
  <2>4. QED BY <2>1, <2>3
<1>4. k - 1 \in Nat /\ k - 1 = p * n + r /\ k - 1 = p * m + t
  <2>1. PICK x \in Nat, y \in Nat : x = p * n /\ y = p * m BY SMT
  <2>2. k \in (x + 1)..(x + p) BY <1>1, <2>1
  <2>3. k - 1 \in Nat /\ k - 1 = x + r /\ k - 1 = y + t BY <1>2, <1>3, <2>1, <2>2
  <2>4. QED BY <2>1, <2>3
<1>5. PICK j \in Nat : j = k - 1 BY <1>4
<1>6. j = p * n + r /\ j = p * m + t BY <1>4, <1>5
<1>7. QED BY <1>2, <1>3, <1>6, QuotientIsOne

\* Of an inventory each date is a round of all items and warehouses.
LEMMA InventoryRounds ==
    ASSUME Ends(kDayRowcount, "S_INVENTORY"), NEW i \in 1..6
    PROVE  /\ Dated(i) = (Stocks * (i - 1) + 1)..(Stocks * (i - 1) + Stocks)
           /\ kDayRowcount[6] = Stocks * 6
<1>1. PICK p \in Nat : p = Stocks
  <2>1. StockItems * Warehouses \in Nat BY StockAssumption, SMT
  <2>2. QED BY <2>1 DEF Stocks
<1>2. "S_INVENTORY" \in DatedTables BY DEF DatedTables
<1>3. \A julian : rowsOn("S_INVENTORY", julian) = p BY <1>1 DEF rowsOn, Stocks
<1>4. kDayRowcount[1] = p /\ \A j \in 2..6 : kDayRowcount[j] = kDayRowcount[j - 1] + p
    BY <1>3 DEF Ends
<1>5. /\ kDayRowcount[1] = p * 1 /\ kDayRowcount[2] = p * 2 /\ kDayRowcount[3] = p * 3
      /\ kDayRowcount[4] = p * 4 /\ kDayRowcount[5] = p * 5 /\ kDayRowcount[6] = p * 6
  <2>1. kDayRowcount[2] = kDayRowcount[1] + p /\ kDayRowcount[3] = kDayRowcount[2] + p
        /\ kDayRowcount[4] = kDayRowcount[3] + p BY <1>4
  <2>2. kDayRowcount[5] = kDayRowcount[4] + p /\ kDayRowcount[6] = kDayRowcount[5] + p BY <1>4
  <2>3. QED BY <1>4, <2>1, <2>2
<1>6. i \in {1, 2, 3, 4, 5, 6} OBVIOUS
<1>7. Before(kDayRowcount, i) = p * (i - 1) /\ kDayRowcount[i] = p * (i - 1) + p
    BY <1>5, <1>6 DEF Before
<1>8. Dated(i) = (Before(kDayRowcount, i) + 1)..kDayRowcount[i] BY <1>2, DatedRows
<1>9. QED BY <1>1, <1>5, <1>7, <1>8

LEMMA EachStockOnce ==
    ASSUME Ends(kDayRowcount, "S_INVENTORY"), NEW i \in 1..6,
           NEW item \in 1..StockItems, NEW w \in 1..Warehouses
    PROVE  Cardinality({k \in Dated(i) : stockOf(k) = [item |-> item, warehouse |-> w]}) = 1
<1>1. PICK row : row = StockRow(i - 1, item, w) OBVIOUS
<1>2. i - 1 \in Nat OBVIOUS
<1>3. /\ row \in Dated(i) /\ stockOf(row) = [item |-> item, warehouse |-> w]
  <2>1. row \in (Stocks * (i - 1) + 1)..(Stocks * (i - 1) + Stocks)
        /\ stockOf(row) = [item |-> item, warehouse |-> w] BY <1>1, <1>2, StockRows
  <2>2. QED BY <2>1, InventoryRounds
<1>4. ASSUME NEW k \in Dated(i), stockOf(k) = [item |-> item, warehouse |-> w]
      PROVE  k = row
  <2>1. k \in Nat \ {0}
    <3>1. kDayRowcount[6] \in Nat BY DEF Ends
    <3>2. QED BY <3>1 DEF Dated
  <2>2. PICK n \in Nat : k = StockRow(n, stockOf(k).item, stockOf(k).warehouse)
      BY <2>1, RowsAreStockRows
  <2>3. stockOf(k).item = item /\ stockOf(k).warehouse = w BY <1>4
  <2>4. k \in (Stocks * n + 1)..(Stocks * n + Stocks)
    <3>1. StockRow(n, item, w) \in (Stocks * n + 1)..(Stocks * n + Stocks) BY StockRows
    <3>2. QED BY <2>2, <2>3, <3>1
  <2>5. k \in (Stocks * (i - 1) + 1)..(Stocks * (i - 1) + Stocks) BY <1>4, InventoryRounds
  <2>6. n = i - 1 BY <1>2, <2>1, <2>4, <2>5, RoundsAreApart
  <2>7. QED BY <1>1, <2>2, <2>3, <2>6
<1>5. {k \in Dated(i) : stockOf(k) = [item |-> item, warehouse |-> w]} = {row}
    BY <1>3, <1>4
<1>6. QED BY <1>5, FS_Singleton

LEMMA WeekHasStock ==
    ASSUME NEW k \in Nat \ {0}, NEW n \in Weeks
    PROVE  \E b \in 1..(StockItems * Warehouses * 261) :
               stockOf(b) = stockOf(k) /\ weekOf(b) = InventoryWeek(n)
<1>1. PICK item, w : item = stockOf(k).item /\ w = stockOf(k).warehouse OBVIOUS
<1>2. item \in 1..StockItems /\ w \in 1..Warehouses BY <1>1, RowsAreStockRows
<1>3. stockOf(k) = [item |-> item, warehouse |-> w] BY <1>1 DEF stockOf
<1>4. n \in Nat BY DEF Weeks
<1>5. PICK b : b = StockRow(n, item, w) OBVIOUS
<1>6. /\ b \in (Stocks * n + 1)..(Stocks * n + Stocks)
      /\ stockOf(b) = [item |-> item, warehouse |-> w] /\ weekOf(b) = InventoryWeek(n)
    BY <1>2, <1>4, <1>5, StockRows
<1>7. b \in 1..(StockItems * Warehouses * 261)
  <2>1. PICK p \in Nat : p = StockItems * Warehouses
    <3>1. StockItems * Warehouses \in Nat BY StockAssumption, SMT
    <3>2. QED BY <3>1
  <2>2. p = Stocks BY <2>1 DEF Stocks
  <2>3. p * n \in Nat BY <1>4, SMT
  <2>4. p * n <= p * 260 BY <1>4, SMT DEF Weeks
  <2>5. PICK x \in Nat : x = p * n BY <2>3
  <2>6. b \in (x + 1)..(x + p) BY <1>6, <2>2, <2>5
  <2>7. b \in 1..(p * 261) BY <2>4, <2>5, <2>6
  <2>8. QED BY <2>1, <2>7
<1>8. QED BY <1>3, <1>6, <1>7

(***************************************************************************)
(* The invariant: the rows up to each date are those of the table scaled.  *)
(***************************************************************************)
UpdateInv ==
    uTable # "none" => uTable \in DatedTables /\ uOrders # <<>> /\ Ends(kDayRowcount, uTable)

LEMMA UpdateInvHolds == UpdateSpec => []UpdateInv
<1>1. UpdateInit \/ UpdateIdle => UpdateInv BY DEF UpdateInit, UpdateIdle, UpdateInv
<1>2. UpdateInv /\ [UpdateNext]_updateVars => UpdateInv'
  <2> SUFFICES ASSUME UpdateInv, [UpdateNext]_updateVars PROVE UpdateInv' OBVIOUS
  <2>1. CASE setUpdateDates BY <2>1 DEF setUpdateDates, UpdateInv
  <2>2. ASSUME NEW table \in DatedTables, setUpdateScaling(table) PROVE UpdateInv'
    <3>1. uOrders' = uOrders /\ uTable' = table /\ kDayRowcount' = dayRowcounts(table)
          /\ uOrders # <<>>
        BY <2>2 DEF setUpdateScaling
    <3>2. Ends(dayRowcounts(table), table) BY DayRowcountsEnd
    <3>3. Ends(kDayRowcount, table)' BY <3>1, <3>2 DEF Ends, rowsOn
    <3>4. QED BY <3>1, <3>3 DEF UpdateInv
  <2>3. CASE UNCHANGED updateVars BY <2>3 DEF updateVars, UpdateInv, Ends, rowsOn
  <2>4. QED BY <2>1, <2>2, <2>3 DEF UpdateNext
<1>3. QED BY <1>1, <1>2, PTL DEF UpdateSpec

\* In an update set of any scale, every date has the orders that the base table
\* has on it, and an inventory every item and warehouse once on every date, in
\* weeks whose inventory the base table has too (scaling.c setUpdateScaling,
\* getUpdateDate, s_inventory.c mk_s_inventory, w_inventory.c mk_w_inventory).
THEOREM UpdatesFillTheirDates == UpdateSpec => []UpdateRowsOnTheirDates
<1>1. UpdateInv => UpdateRowsOnTheirDates
  <2> SUFFICES ASSUME UpdateInv, uTable # "none" PROVE UpdateRowsOnTheirDates
      BY DEF UpdateRowsOnTheirDates
  <2>1. uTable \in DatedTables /\ Ends(kDayRowcount, uTable) BY DEF UpdateInv
  <2>2. CASE uTable = "S_INVENTORY"
    <3>1. Ends(kDayRowcount, "S_INVENTORY") BY <2>1, <2>2
    <3>2. kDayRowcount[6] = StockItems * Warehouses * 6 BY <3>1, InventoryRounds DEF Stocks
    <3>3. \A i \in 1..6, item \in 1..StockItems, w \in 1..Warehouses :
              Cardinality({k \in Dated(i) : stockOf(k) = [item |-> item, warehouse |-> w]}) = 1
        BY <3>1, EachStockOnce
    <3>4. \A k \in 1..kDayRowcount[6], n \in Weeks :
              \E b \in 1..(StockItems * Warehouses * 261) :
                  stockOf(b) = stockOf(k) /\ weekOf(b) = InventoryWeek(n)
      <4>1. 1..kDayRowcount[6] \subseteq Nat \ {0} BY <3>1 DEF Ends
      <4>2. QED BY <4>1, WeekHasStock
    <3>5. QED BY <2>2, <3>2, <3>3, <3>4 DEF UpdateRowsOnTheirDates, Dated
  <2>3. CASE uTable # "S_INVENTORY"
    <3>1. \A i \in 1..6 : Cardinality(Dated(i)) = rowsOn(uTable, uOrders[i])
        BY <2>1, DatedCount
    <3>2. QED BY <2>3, <3>1 DEF UpdateRowsOnTheirDates, Dated
  <2>4. QED BY <2>2, <2>3
<1>2. QED BY <1>1, UpdateInvHolds, PTL
=============================================================================
