----------------------- MODULE DsdgenParallel_proofs -----------------------
(* Proofs about dsdgen -parallel, for any tables, streams, row counts, draws  *)
(* of the builders and command lines: the shares of the processes are         *)
(* disjoint, no row is written twice, every row is made from the numbers that *)
(* a serial run makes it from wherever row_skip and row_stop reach its        *)
(* streams, the processes together implement one serial run, and when all of  *)
(* them have succeeded every row that was asked for is written.               *)
EXTENDS DsdgenParallel, TLAPS

-----------------------------------------------------------------------------
(* Arithmetic.                                                               *)

LEMMA DivMod ==
    ASSUME NEW rows \in Nat, NEW n \in Nat \ {0}
    PROVE  /\ rows \div n \in Nat
           /\ rows % n \in 0 .. n - 1
           /\ rows = n * (rows \div n) + (rows % n)
<1>1. rows \div n \in Nat BY SMT
<1>2. rows % n \in 0 .. n - 1 BY SMT
<1>3. rows = n * (rows \div n) + (rows % n) BY SMT
<1>4. QED BY <1>1, <1>2, <1>3

LEMMA TimesType == ASSUME NEW a \in Nat, NEW k \in Nat PROVE a * k \in Nat
  BY SMT

LEMMA TimesMonotone ==
    ASSUME NEW a \in Nat, NEW b \in Nat, NEW k \in Nat, a <= b
    PROVE  a * k <= b * k
  BY SMT

LEMMA TimesStep == ASSUME NEW a \in Nat, NEW k \in Nat PROVE (a + 1) * k = a * k + k
  BY SMT

LEMMA QuotientPositive ==
    ASSUME NEW rows \in Nat, NEW n \in Nat \ {0}, n <= rows PROVE rows \div n >= 1
  BY SMT

-----------------------------------------------------------------------------
(* split_work: the shares of a table.                                        *)

\* A table that is not split belongs to process 1.
LEMMA ShareOfSmall ==
    ASSUME NEW rows \in Nat, NEW n, NEW c \in Nat, rows < MinSplit
    PROVE  Share(rows, n, c) = [first |-> 1, count |-> IF c > 1 THEN 0 ELSE rows]
  BY DEF Share

\* The others: the first rows % n processes take one row more.
LEMMA ShareOfLarge ==
    ASSUME NEW rows \in Nat, NEW n \in Nat \ {0}, NEW c \in 1 .. n, rows >= MinSplit
    PROVE  /\ Share(rows, n, c).first = 1 + (c - 1) * (rows \div n)
                                          + (IF c - 1 < rows % n THEN c - 1 ELSE rows % n)
           /\ Share(rows, n, c).count = (IF c <= rows % n THEN rows \div n + 1 ELSE rows \div n)
  BY TablesAssumption DEF TablesAssumption, Share

\* A share is a number of rows from a row number on.
LEMMA ShareType ==
    ASSUME NEW rows \in Nat, NEW n \in Nat \ {0}, NEW c \in 1 .. n
    PROVE  /\ Share(rows, n, c).first \in Nat \ {0}
           /\ Share(rows, n, c).count \in Nat
<1>1. CASE rows < MinSplit BY <1>1, ShareOfSmall
<1>2. CASE rows >= MinSplit
  <2> DEFINE size == rows \div n
             extra == rows % n
  <2>1. size \in Nat /\ extra \in 0 .. n - 1 BY DivMod
  <2>2. c - 1 \in Nat OBVIOUS
  <2>3. (c - 1) * size \in Nat BY <2>1, <2>2, TimesType
  <2> HIDE DEF size, extra
  <2>4. /\ Share(rows, n, c).first = 1 + (c - 1) * size + (IF c - 1 < extra THEN c - 1 ELSE extra)
        /\ Share(rows, n, c).count = (IF c <= extra THEN size + 1 ELSE size)
    BY <1>2, ShareOfLarge DEF size, extra
  <2>5. QED BY <2>1, <2>2, <2>3, <2>4
<1>3. QED BY <1>1, <1>2, TablesAssumption DEF TablesAssumption

\* Process 1 begins with row 1; a later process with a share begins later.
LEMMA ShareBegins ==
    ASSUME NEW rows \in Nat, NEW n \in Nat \ {0}, n <= MinSplit, NEW c \in 1 .. n
    PROVE  /\ Share(rows, n, 1).first = 1
           /\ c > 1 /\ Share(rows, n, c).count > 0 => Share(rows, n, c).first > 1
<1> USE TablesAssumption DEF TablesAssumption
<1>1. CASE rows < MinSplit BY <1>1, ShareOfSmall
<1>2. CASE rows >= MinSplit
  <2> DEFINE size == rows \div n
             extra == rows % n
  <2>1. size \in Nat /\ size >= 1 /\ extra \in 0 .. n - 1
    <3>1. n <= rows BY <1>2
    <3>2. QED BY <3>1, DivMod, QuotientPositive
  <2>2. 0 * size = 0 BY <2>1
  <2>3. c > 1 => (c - 1) * size >= 1
    <3>1. SUFFICES ASSUME c > 1 PROVE (c - 1) * size >= 1 OBVIOUS
    <3>2. c - 1 \in Nat /\ 1 <= c - 1 BY <3>1
    <3>3. 1 * size <= (c - 1) * size BY <3>2, <2>1, TimesMonotone
    <3>4. (c - 1) * size \in Nat BY <3>2, <2>1, TimesType
    <3>5. QED BY <3>3, <3>4, <2>1
  <2> HIDE DEF size, extra
  <2>4. 1 \in 1 .. n OBVIOUS
  <2>5. Share(rows, n, 1).first = 1 + (1 - 1) * size + (IF 1 - 1 < extra THEN 1 - 1 ELSE extra)
    BY <1>2, <2>4, ShareOfLarge DEF size, extra
  <2>6. Share(rows, n, c).first = 1 + (c - 1) * size + (IF c - 1 < extra THEN c - 1 ELSE extra)
    BY <1>2, ShareOfLarge DEF size, extra
  <2>7. Share(rows, n, 1).first = 1 BY <2>1, <2>2, <2>5
  <2>8. c > 1 => Share(rows, n, c).first > 1
    <3>1. SUFFICES ASSUME c > 1 PROVE Share(rows, n, c).first > 1 OBVIOUS
    <3>2. c - 1 \in Nat /\ (c - 1) * size \in Nat
      <4>1. c - 1 \in Nat OBVIOUS
      <4>2. QED BY <4>1, <2>1, TimesType
    <3>3. QED BY <3>1, <3>2, <2>1, <2>3, <2>6
  <2>9. QED BY <2>7, <2>8
<1>3. QED BY <1>1, <1>2

\* The share of a process ends before that of any later one begins.
LEMMA SharesDisjoint ==
    ASSUME NEW rows \in Nat, NEW n \in Nat \ {0}, NEW c \in 1 .. n, NEW d \in 1 .. n, c < d
    PROVE  \/ Share(rows, n, d).count = 0
           \/ Share(rows, n, c).first + Share(rows, n, c).count <= Share(rows, n, d).first
<1> USE TablesAssumption DEF TablesAssumption
<1>1. CASE rows < MinSplit BY <1>1, ShareOfSmall
<1>2. CASE rows >= MinSplit
  <2> DEFINE size == rows \div n
             extra == rows % n
  <2>1. size \in Nat /\ extra \in 0 .. n - 1 BY DivMod
  <2>2. c * size = (c - 1) * size + size
    <3>1. c - 1 \in Nat OBVIOUS
    <3>2. ((c - 1) + 1) * size = (c - 1) * size + size BY <2>1, <3>1, TimesStep
    <3>3. QED BY <3>2
  <2>3. c - 1 \in Nat /\ c \in Nat /\ d - 1 \in Nat /\ c <= d - 1 OBVIOUS
  <2>4. c * size <= (d - 1) * size BY <2>1, <2>3, TimesMonotone
  <2>5. (c - 1) * size \in Nat /\ c * size \in Nat /\ (d - 1) * size \in Nat
    BY <2>1, <2>3, TimesType
  <2> HIDE DEF size, extra
  <2>6. /\ Share(rows, n, c).first = 1 + (c - 1) * size + (IF c - 1 < extra THEN c - 1 ELSE extra)
        /\ Share(rows, n, c).count = (IF c <= extra THEN size + 1 ELSE size)
        /\ Share(rows, n, d).first = 1 + (d - 1) * size + (IF d - 1 < extra THEN d - 1 ELSE extra)
    BY <1>2, ShareOfLarge DEF size, extra
  <2> DEFINE x == (c - 1) * size
             y == c * size
             z == (d - 1) * size
  <2>7. /\ x \in Nat /\ y \in Nat /\ z \in Nat
        /\ y = x + size /\ y <= z
    BY <2>2, <2>4, <2>5
  <2>8. /\ Share(rows, n, c).first = 1 + x + (IF c - 1 < extra THEN c - 1 ELSE extra)
        /\ Share(rows, n, c).count = (IF c <= extra THEN size + 1 ELSE size)
        /\ Share(rows, n, d).first = 1 + z + (IF d - 1 < extra THEN d - 1 ELSE extra)
    BY <2>6
  <2> HIDE DEF x, y, z
  <2>9. Share(rows, n, c).first + Share(rows, n, c).count <= Share(rows, n, d).first
    BY <2>1, <2>7, <2>8
  <2>10. QED BY <2>9
<1>3. QED BY <1>1, <1>2

LEMMA TimesSum ==
    ASSUME NEW a \in Nat, NEW b \in Nat, NEW k \in Nat PROVE (a + b) * k = a * k + b * k
  BY SMT

LEMMA TimesSwap == ASSUME NEW a \in Nat, NEW k \in Nat PROVE a * k = k * a
  BY SMT

\* No share goes beyond the last row.
LEMMA ShareEnds ==
    ASSUME NEW rows \in Nat, NEW n \in Nat \ {0}, NEW c \in 1 .. n
    PROVE  \/ Share(rows, n, c).count = 0
           \/ Share(rows, n, c).first + Share(rows, n, c).count <= rows + 1
<1> USE TablesAssumption DEF TablesAssumption
<1>1. CASE rows < MinSplit BY <1>1, ShareOfSmall
<1>2. CASE rows >= MinSplit
  <2>1. PICK size, extra, x, y, z : /\ size = rows \div n /\ extra = rows % n
                                    /\ x = (c - 1) * size /\ y = c * size /\ z = n * size
    OBVIOUS
  <2>2. size \in Nat /\ extra \in 0 .. n - 1 /\ rows = z + extra BY <2>1, DivMod
  <2>3. c - 1 \in Nat /\ c \in Nat /\ c <= n OBVIOUS
  <2>4. x \in Nat /\ y \in Nat /\ z \in Nat BY <2>1, <2>2, <2>3, TimesType
  <2>5. y <= z BY <2>1, <2>2, <2>3, TimesMonotone
  <2>6. y = x + size
    <3>1. ((c - 1) + 1) * size = (c - 1) * size + size BY <2>2, <2>3, TimesStep
    <3>2. (c - 1) + 1 = c OBVIOUS
    <3>3. QED BY <2>1, <3>1, <3>2
  <2>7. /\ Share(rows, n, c).first = 1 + x + (IF c - 1 < extra THEN c - 1 ELSE extra)
        /\ Share(rows, n, c).count = (IF c <= extra THEN size + 1 ELSE size)
    BY <1>2, <2>1, ShareOfLarge
  <2>8. QED BY <2>2, <2>3, <2>4, <2>5, <2>6, <2>7
<1>3. QED BY <1>1, <1>2

\* Every row is in the share of some process.
LEMMA SharesCover ==
    ASSUME NEW rows \in Nat, NEW n \in Nat \ {0}, n <= MinSplit, NEW r \in 1 .. rows
    PROVE  \E c \in 1 .. n : /\ r >= Share(rows, n, c).first
                             /\ r < Share(rows, n, c).first + Share(rows, n, c).count
<1>0. MinSplit \in Nat \ {0} BY TablesAssumption DEF TablesAssumption
<1>1. CASE rows < MinSplit
  <2>1. Share(rows, n, 1) = [first |-> 1, count |-> rows] BY <1>0, <1>1, ShareOfSmall
  <2>2. 1 \in 1 .. n OBVIOUS
  <2>3. r >= Share(rows, n, 1).first /\ r < Share(rows, n, 1).first + Share(rows, n, 1).count
    BY <2>1
  <2>4. QED BY <2>2, <2>3
<1>2. CASE rows >= MinSplit
  <2>1. PICK size, extra, z : size = rows \div n /\ extra = rows % n /\ z = n * size OBVIOUS
  <2>2. size \in Nat \ {0} /\ extra \in 0 .. n - 1 /\ rows = z + extra /\ z \in Nat
    <3>1. n <= rows BY <1>0, <1>2
    <3>2. size \in Nat \ {0} /\ extra \in 0 .. n - 1 /\ rows = z + extra
      <4>1. rows \div n \in Nat /\ rows \div n >= 1 BY <3>1, DivMod, QuotientPositive
      <4>2. rows % n \in 0 .. n - 1 /\ rows = n * (rows \div n) + (rows % n) BY DivMod
      <4>3. QED BY <2>1, <4>1, <4>2
    <3>3. QED BY <2>1, <3>2, TimesType
  <2>3. PICK long : long = extra * (size + 1) OBVIOUS
  <2>4. long \in Nat
    <3>1. extra \in Nat /\ size + 1 \in Nat BY <2>2
    <3>2. QED BY <2>3, <3>1, TimesType
  \* The shares that have one row more.
  <2>5. CASE r <= long
    <3>1. PICK q, m, x : q = (r - 1) \div (size + 1) /\ m = (r - 1) % (size + 1) /\ x = q * size
      OBVIOUS
    <3>2. /\ q \in Nat /\ m \in 0 .. size /\ r - 1 = (size + 1) * q + m
      <4>1. r - 1 \in Nat /\ size + 1 \in Nat \ {0} /\ (size + 1) - 1 = size BY <2>2
      <4>2. QED BY <3>1, <4>1, DivMod
    <3>3. x \in Nat BY <2>2, <3>1, <3>2, TimesType
    <3>4. (size + 1) * q = x + q
      <4>1. size + 1 \in Nat BY <2>2
      <4>2. (size + 1) * q = size * q + q BY <2>2, <3>2, TimesStep
      <4>3. size * q = x BY <2>2, <3>1, <3>2, TimesSwap
      <4>4. QED BY <4>2, <4>3
    <3>5. q < extra
      <4>1. SUFFICES ASSUME extra <= q PROVE FALSE BY <2>2, <3>2
      <4>2. extra \in Nat /\ size + 1 \in Nat BY <2>2
      <4>3. extra * (size + 1) <= q * (size + 1) BY <3>2, <4>1, <4>2, TimesMonotone
      <4>4. q * (size + 1) = (size + 1) * q BY <3>2, <4>2, TimesSwap
      <4>5. long <= x + q BY <2>3, <3>4, <4>3, <4>4
      <4>6. r - 1 = (x + q) + m BY <3>2, <3>4, Zenon
      <4>7. q \in Nat /\ m \in Nat BY <2>2, <3>2
      <4>8. QED BY <2>4, <2>5, <3>3, <4>5, <4>6, <4>7
    <3>6. PICK c : c = q + 1 OBVIOUS
    <3>7. c \in 1 .. n /\ c - 1 = q /\ c <= extra BY <2>2, <3>2, <3>5, <3>6
    <3>8. /\ Share(rows, n, c).first = 1 + x + q
          /\ Share(rows, n, c).count = size + 1
      BY <1>2, <2>1, <3>1, <3>5, <3>7, ShareOfLarge
    <3>9. r >= Share(rows, n, c).first /\ r < Share(rows, n, c).first + Share(rows, n, c).count
      BY <2>2, <3>2, <3>3, <3>4, <3>8
    <3>10. QED BY <3>7, <3>9
  \* The others.
  <2>6. CASE r > long
    <3>1. PICK b : b = r - 1 - long OBVIOUS
    <3>2. b \in Nat BY <2>4, <2>6, <3>1
    <3>3. PICK q, m, x : q = b \div size /\ m = b % size /\ x = q * size OBVIOUS
    <3>4. PICK w : w = extra * size OBVIOUS
    <3>5. PICK e : e = n - extra OBVIOUS
    <3>6. q \in Nat /\ m \in 0 .. size - 1 /\ b = size * q + m BY <2>2, <3>2, <3>3, DivMod
    <3>7. x \in Nat /\ w \in Nat /\ size * q = x /\ extra \in Nat /\ e \in Nat /\ extra + e = n
      <4>1. extra \in Nat /\ e \in Nat /\ extra + e = n BY <2>2, <3>5
      <4>2. QED BY <2>2, <3>3, <3>4, <3>6, <4>1, TimesType, TimesSwap
    <3>8. long = w + extra
      <4>1. extra * (size + 1) = (size + 1) * extra
        <5>1. size + 1 \in Nat BY <2>2
        <5>2. QED BY <3>7, <5>1, TimesSwap
      <4>2. (size + 1) * extra = size * extra + extra BY <2>2, <3>7, TimesStep
      <4>3. size * extra = w BY <2>2, <3>4, <3>7, TimesSwap
      <4>4. QED BY <2>3, <4>1, <4>2, <4>3
    <3>9. z = w + e * size /\ e * size \in Nat
      <4>1. (extra + e) * size = extra * size + e * size BY <2>2, <3>7, TimesSum
      <4>2. QED BY <2>1, <2>2, <3>4, <3>7, <4>1, TimesType
    <3>10. q < e
      <4>1. SUFFICES ASSUME e <= q PROVE FALSE BY <3>6, <3>7
      <4>2. e * size <= x BY <2>2, <3>3, <3>6, <3>7, <4>1, TimesMonotone
      <4>3. PICK v : v = e * size OBVIOUS
      <4>4. v \in Nat /\ v <= x /\ z = w + v BY <3>9, <4>2, <4>3
      <4>5. b <= v - 1 BY <2>2, <3>1, <3>7, <3>8, <4>4
      <4>6. QED BY <3>2, <3>6, <3>7, <4>4, <4>5
    <3>11. PICK c : c = extra + q + 1 OBVIOUS
    <3>12. c \in 1 .. n /\ c - 1 = extra + q /\ ~(c <= extra) /\ ~(c - 1 < extra)
      BY <2>2, <3>6, <3>7, <3>10, <3>11
    <3>13. (extra + q) * size = w + x BY <2>2, <3>3, <3>4, <3>6, <3>7, TimesSum
    <3>14. /\ Share(rows, n, c).first = 1 + (w + x) + extra
           /\ Share(rows, n, c).count = size
      BY <1>2, <2>1, <3>12, <3>13, ShareOfLarge
    <3>15. r >= Share(rows, n, c).first /\ r < Share(rows, n, c).first + Share(rows, n, c).count
      BY <2>2, <3>1, <3>6, <3>7, <3>8, <3>14, <2>4
    <3>16. QED BY <3>12, <3>15
  <2>7. QED BY <2>2, <2>4, <2>5, <2>6
<1>3. QED BY <1>0, <1>1, <1>2

-----------------------------------------------------------------------------
(* The types.                                                                *)

LEMMA JobFacts ==
    ASSUME job \in Jobs
    PROVE  /\ job.tables \subseteq Tables
           /\ job.parallel \in Nat \ {0} /\ job.parallel <= MinSplit
           /\ job.force \in BOOLEAN
           /\ Children = 1 .. job.parallel
  BY JobsAssumption, TablesAssumption DEF JobsAssumption, TablesAssumption, Children

LEMMA InitTypeOK == Init => TypeOK
  BY DEF Init, TypeOK, States

\* The table that main takes next is one that it visits.
LEMMA AheadFacts ==
    ASSUME NEW i, NEW k \in Ahead(i)
    PROVE  /\ k \in DOMAIN Traversal /\ k \in Nat \ {0} /\ k > i
           /\ Traversal[k] \in job.tables /\ Traversal[k] \notin Passed
           /\ Traversal[k] \in Tables
<1>1. Traversal \in Seq(Tables) BY TablesAssumption DEF TablesAssumption
<1>2. k \in DOMAIN Traversal BY DEF Ahead
<1>3. Traversal[k] \in Tables /\ k \in Nat \ {0} BY <1>1, <1>2
<1>4. QED BY <1>2, <1>3 DEF Ahead

LEMMA BeginTableType ==
    ASSUME TypeOK, NEW c \in Children, BeginTable(c) PROVE TypeOK'
<1>1. PICK k \in Ahead(at[c]) :
        LET t == Traversal[k]
            share == Share(RowCount[t], job.parallel, c)
            skip == share.first - 1
            moved(s) == skip # 0 /\ Repositioned(t, s)
        IN  /\ row' = [row EXCEPT ![c] = share.first]
            /\ left' = [left EXCEPT ![c] = share.count]
            /\ pc' = [pc EXCEPT ![c] = IF share.count = 0 THEN "tables" ELSE "rows"]
            /\ drawn' = [drawn EXCEPT ![c] =
                            [s \in Streams |-> IF moved(s) THEN skip * PerRow[s] ELSE @[s]]]
            /\ used' = [used EXCEPT ![c] = [s \in Streams |-> IF moved(s) THEN 0 ELSE @[s]]]
            /\ at' = [at EXCEPT ![c] = k]
  BY DEF BeginTable
<1> DEFINE t == Traversal[k]
           share == Share(RowCount[t], job.parallel, c)
           skip == share.first - 1
           moved(s) == skip # 0 /\ Repositioned(t, s)
<1>2. UNCHANGED <<job, begun, opened, files, deletes, out, kills>> BY DEF BeginTable, disk
<1>3. t \in Tables /\ k \in Nat BY AheadFacts
<1>4. RowCount[t] \in Nat BY <1>3, TablesAssumption DEF TablesAssumption
<1>5. c \in 1 .. job.parallel /\ job.parallel \in Nat \ {0} BY JobFacts DEF TypeOK
<1>6. share.first \in Nat \ {0} /\ share.count \in Nat BY <1>4, <1>5, ShareType
<1>7. skip \in Nat BY <1>6
<1>8. \A s \in Streams : PerRow[s] \in Nat /\ skip * PerRow[s] \in Nat
  BY <1>7, TimesType, StreamsAssumption DEF StreamsAssumption
<1> HIDE DEF share, skip
<1>9. drawn[c] \in [Streams -> Nat] /\ used[c] \in [Streams -> Nat] BY DEF TypeOK
<1>10. [s \in Streams |-> IF moved(s) THEN skip * PerRow[s] ELSE drawn[c][s]] \in [Streams -> Nat]
  BY <1>8, <1>9
<1>11. [s \in Streams |-> IF moved(s) THEN 0 ELSE used[c][s]] \in [Streams -> Nat] BY <1>9
<1>12. drawn' \in [Children -> [Streams -> Nat]]
  <2>1. drawn' = [drawn EXCEPT ![c] =
                   [s \in Streams |-> IF moved(s) THEN skip * PerRow[s] ELSE drawn[c][s]]]
    BY <1>1 DEF share, skip, TypeOK
  <2>2. QED BY <1>10, <2>1 DEF TypeOK
<1>13. used' \in [Children -> [Streams -> Nat]]
  <2>1. used' = [used EXCEPT ![c] = [s \in Streams |-> IF moved(s) THEN 0 ELSE used[c][s]]]
    BY <1>1 DEF share, skip, TypeOK
  <2>2. QED BY <1>11, <2>1 DEF TypeOK
<1>14. /\ row' \in [Children -> Nat \ {0}] /\ left' \in [Children -> Nat]
       /\ at' \in [Children -> Nat] /\ pc' \in [Children -> States]
  <2>1. row' = [row EXCEPT ![c] = share.first] /\ left' = [left EXCEPT ![c] = share.count]
        /\ at' = [at EXCEPT ![c] = k]
        /\ pc' = [pc EXCEPT ![c] = IF share.count = 0 THEN "tables" ELSE "rows"]
    BY <1>1 DEF share
  <2>2. QED BY <1>3, <1>6, <2>1 DEF TypeOK, States
<1>15. Children' = Children BY <1>2 DEF Children
<1>16. QED BY <1>2, <1>12, <1>13, <1>14, <1>15 DEF TypeOK

-----------------------------------------------------------------------------
(* The loop of a process: it builds its share of a table it was asked for.   *)

Chunk(t, c) == Share(RowCount[t], job.parallel, c)

InTable(c) ==
    /\ at[c] \in DOMAIN Traversal
    /\ Building(c) \in Tables \ Passed
    /\ left[c] # 0
    /\ row[c] >= Chunk(Building(c), c).first
    /\ row[c] + left[c] = Chunk(Building(c), c).first + Chunk(Building(c), c).count

\* What a running process has opened it came by.
OpenedBefore(c) == \A t \in opened[c] : \E k \in DOMAIN Traversal : k <= at[c] /\ Traversal[k] = t

RunOf(c) ==
    /\ pc[c] = "rows" => InTable(c)
    /\ pc[c] \in {"access", "fopen"} => opened[c] = {} /\ at[c] \in {1, 2}
    /\ pc[c] \in {"tables", "rows"} => OpenedBefore(c)

RunInv == \A c \in Children : RunOf(c)

\* The numbers one call of the builder draws.
Call(t, c, d) == [s \in Streams |-> d[s] + (IF t \in begun[c] THEN 0 ELSE Once[t][s])]

NewRow(c) == [child |-> c, table |-> Building(c), row |-> row[c],
              drift |-> Drift(Building(c), row[c], drawn[c])]
Kept(c) == IF Building(c) \in opened[c] THEN out
           ELSE {o \in out : o.child # c \/ o.table # Building(c)}

\* What BuildRow does, with the draws it made.
LEMMA BuildRowEffect ==
    ASSUME TypeOK, RunInv, NEW c \in Children, BuildRow(c)
    PROVE  /\ pc[c] = "rows" /\ ~Refused(c) /\ InTable(c)
           /\ out' = Kept(c) \cup {NewRow(c)}
           /\ begun' = [begun EXCEPT ![c] = @ \cup {Building(c)}]
           /\ opened' = [opened EXCEPT ![c] = @ \cup {Building(c)}]
           /\ files' = files \cup {<<c, Building(c)>>}
           /\ row' = [row EXCEPT ![c] = @ + 1]
           /\ left' = [left EXCEPT ![c] = @ - 1]
           /\ pc' = [pc EXCEPT ![c] = IF left[c] = 1 THEN "tables" ELSE "rows"]
           /\ UNCHANGED <<job, at, deletes, kills>>
           /\ \E d \in Demand[Building(c)] :
                /\ drawn' = [drawn EXCEPT ![c] = AfterRow(Building(c), drawn[c], used[c], Call(Building(c), c, d))]
                /\ used' = [used EXCEPT ![c] = UsedAfterRow(Building(c), used[c], Call(Building(c), c, d))]
<1>1. pc[c] = "rows" /\ ~Refused(c) /\ InTable(c) BY DEF BuildRow, RunInv, RunOf
<1>2. /\ out' = Kept(c) \cup {NewRow(c)}
      /\ begun' = [begun EXCEPT ![c] = @ \cup {Building(c)}]
      /\ opened' = [opened EXCEPT ![c] = @ \cup {Building(c)}]
      /\ files' = files \cup {<<c, Building(c)>>}
      /\ row' = [row EXCEPT ![c] = @ + 1]
      /\ left' = [left EXCEPT ![c] = @ - 1]
      /\ pc' = [pc EXCEPT ![c] = IF left[c] = 1 THEN "tables" ELSE "rows"]
      /\ UNCHANGED <<job, at, deletes, kills>>
  BY DEF BuildRow, Kept, NewRow
<1>3. PICK d \in Demand[Building(c)] :
        /\ drawn' = [drawn EXCEPT ![c] = AfterRow(Building(c), @, used[c], Call(Building(c), c, d))]
        /\ used' = [used EXCEPT ![c] = UsedAfterRow(Building(c), @, Call(Building(c), c, d))]
  BY DEF BuildRow, Call
<1>4. /\ drawn' = [drawn EXCEPT ![c] = AfterRow(Building(c), drawn[c], used[c], Call(Building(c), c, d))]
      /\ used' = [used EXCEPT ![c] = UsedAfterRow(Building(c), used[c], Call(Building(c), c, d))]
  BY <1>3 DEF TypeOK
<1>5. QED BY <1>1, <1>2, <1>4

LEMMA CallType ==
    ASSUME NEW t \in Tables, NEW c, NEW d \in Demand[t] PROVE Call(t, c, d) \in [Streams -> Nat]
<1>1. d \in [Streams -> Nat] /\ Once[t] \in [Streams -> Nat]
  BY StreamsAssumption DEF StreamsAssumption
<1>2. QED BY <1>1 DEF Call

LEMMA AfterRowType ==
    ASSUME NEW t, NEW dr \in [Streams -> Nat], NEW us \in [Streams -> Nat], NEW d \in [Streams -> Nat]
    PROVE  AfterRow(t, dr, us, d) \in [Streams -> Nat] /\ UsedAfterRow(t, us, d) \in [Streams -> Nat]
<1>1. \A s \in Streams : PerRow[s] \in Nat BY StreamsAssumption DEF StreamsAssumption
<1>2. \A s \in Streams : TopUp(s, us[s] + d[s]) \in Nat BY <1>1 DEF TopUp
<1>3. \A s \in Streams : us[s] + d[s] \in Nat /\ dr[s] + d[s] \in Nat OBVIOUS
<1>4. AfterRow(t, dr, us, d) \in [Streams -> Nat]
  <2>1. \A s \in Streams : dr[s] + d[s] + (IF TableOf[s] \in Stopped(t)
                                          THEN TopUp(s, us[s] + d[s]) ELSE 0) \in Nat
    BY <1>2, <1>3
  <2>2. QED BY <2>1 DEF AfterRow
<1>5. UsedAfterRow(t, us, d) \in [Streams -> Nat] BY <1>3 DEF UsedAfterRow
<1>6. QED BY <1>4, <1>5

LEMMA BuildRowType ==
    ASSUME TypeOK, RunInv, NEW c \in Children, BuildRow(c) PROVE TypeOK'
<1> DEFINE t == Building(c)
<1>1. pc[c] = "rows" /\ InTable(c) BY BuildRowEffect
<1>2. t \in Tables BY <1>1 DEF InTable
<1>3. PICK d \in Demand[t] :
        /\ drawn' = [drawn EXCEPT ![c] = AfterRow(t, drawn[c], used[c], Call(t, c, d))]
        /\ used' = [used EXCEPT ![c] = UsedAfterRow(t, used[c], Call(t, c, d))]
  BY BuildRowEffect
<1>4. Call(t, c, d) \in [Streams -> Nat] BY <1>2, CallType
<1>5. drawn[c] \in [Streams -> Nat] /\ used[c] \in [Streams -> Nat] BY DEF TypeOK
<1>6. drawn' \in [Children -> [Streams -> Nat]] /\ used' \in [Children -> [Streams -> Nat]]
  <2>1. /\ AfterRow(t, drawn[c], used[c], Call(t, c, d)) \in [Streams -> Nat]
        /\ UsedAfterRow(t, used[c], Call(t, c, d)) \in [Streams -> Nat]
    BY <1>4, <1>5, AfterRowType
  <2>2. QED BY <1>3, <2>1 DEF TypeOK
<1>7. NewRow(c) \in [child : Children, table : Tables, row : Nat \ {0}, drift : SUBSET Streams]
  BY <1>2 DEF NewRow, TypeOK, Drift, DrawnBy
<1>8. Kept(c) \subseteq out BY DEF Kept
<1>9. /\ out' = Kept(c) \cup {NewRow(c)}
      /\ begun' = [begun EXCEPT ![c] = @ \cup {t}]
      /\ opened' = [opened EXCEPT ![c] = @ \cup {t}]
      /\ files' = files \cup {<<c, t>>}
      /\ row' = [row EXCEPT ![c] = @ + 1]
      /\ left' = [left EXCEPT ![c] = @ - 1]
      /\ pc' = [pc EXCEPT ![c] = IF left[c] = 1 THEN "tables" ELSE "rows"]
      /\ UNCHANGED <<job, at, deletes, kills>>
  BY BuildRowEffect
<1>10. Children' = Children BY <1>9 DEF Children
<1>11. out' \subseteq [child : Children, table : Tables, row : Nat \ {0}, drift : SUBSET Streams]
  BY <1>7, <1>8, <1>9 DEF TypeOK
<1>12. /\ begun' \in [Children -> SUBSET Tables] /\ opened' \in [Children -> SUBSET Tables]
       /\ files' \subseteq Children \X Tables
  BY <1>2, <1>9 DEF TypeOK
<1>13. row' \in [Children -> Nat \ {0}] /\ left' \in [Children -> Nat]
  <2>1. row[c] + 1 \in Nat \ {0} /\ left[c] - 1 \in Nat BY <1>1 DEF TypeOK, InTable
  <2>2. QED BY <1>9, <2>1 DEF TypeOK
<1>14. pc' \in [Children -> States] BY <1>9 DEF TypeOK, States
<1>15. QED BY <1>6, <1>9, <1>10, <1>11, <1>12, <1>13, <1>14 DEF TypeOK

LEMMA OtherStepsType ==
    ASSUME TypeOK, RunInv, NEW c \in Children,
           \/ Launch(c) \/ CheckDeleteFile(c) \/ OpenDeleteFile(c) \/ RefuseFile(c)
           \/ Finish(c) \/ StartAgain(c) \/ Kill(c)
    PROVE  TypeOK'
<1> USE DEF TypeOK, Children, own, disk, States
<1>1. CASE Launch(c) BY <1>1 DEF Launch
<1>2. CASE CheckDeleteFile(c) BY <1>2 DEF CheckDeleteFile
<1>3. CASE OpenDeleteFile(c)
  <2>1. deletes' \subseteq {"delete", "inventory_delete"}
    <3>1. at[c] \in {1, 2} BY <1>3 DEF OpenDeleteFile, RunInv, RunOf
    <3>2. DeleteFiles[at[c]] \in {"delete", "inventory_delete"} BY <3>1 DEF DeleteFiles
    <3>3. deletes' = deletes \cup {DeleteFiles[at[c]]} BY <1>3 DEF OpenDeleteFile
    <3>4. QED BY <3>2, <3>3
  <2>2. QED BY <1>3, <2>1 DEF OpenDeleteFile
<1>4. CASE RefuseFile(c) BY <1>4 DEF RefuseFile
<1>5. CASE Finish(c) BY <1>5 DEF Finish
<1>6. CASE StartAgain(c) BY <1>6 DEF StartAgain
<1>7. CASE Kill(c) BY <1>7 DEF Kill
<1>8. QED BY <1>1, <1>2, <1>3, <1>4, <1>5, <1>6, <1>7

Act(c) == Step(c) \/ Kill(c)

LEMMA ActType ==
    ASSUME TypeOK, RunInv, NEW c \in Children, Act(c) PROVE TypeOK'
  BY BeginTableType, BuildRowType, OtherStepsType DEF Act, Step

\* A process touches nothing of another one but the shared files.
LEMMA OthersStay ==
    ASSUME TypeOK, NEW c \in Children, Act(c)
    PROVE  /\ job' = job
           /\ \A d \in Children \ {c} :
                /\ pc'[d] = pc[d] /\ at'[d] = at[d] /\ row'[d] = row[d] /\ left'[d] = left[d]
                /\ drawn'[d] = drawn[d] /\ used'[d] = used[d]
                /\ begun'[d] = begun[d] /\ opened'[d] = opened[d]
<1> USE DEF TypeOK, own, disk
<1>1. CASE Launch(c) BY <1>1 DEF Launch
<1>2. CASE CheckDeleteFile(c) BY <1>2 DEF CheckDeleteFile
<1>3. CASE OpenDeleteFile(c) BY <1>3 DEF OpenDeleteFile
<1>4. CASE BeginTable(c) BY <1>4 DEF BeginTable
<1>5. CASE RefuseFile(c) BY <1>5 DEF RefuseFile
<1>6. CASE BuildRow(c) BY <1>6 DEF BuildRow
<1>7. CASE Finish(c) BY <1>7 DEF Finish
<1>8. CASE StartAgain(c) BY <1>8 DEF StartAgain
<1>9. CASE Kill(c) BY <1>9 DEF Kill
<1>10. QED BY <1>1, <1>2, <1>3, <1>4, <1>5, <1>6, <1>7, <1>8, <1>9 DEF Act, Step

\* What BeginTable does, with the table it takes.
LEMMA BeginTableEffect ==
    ASSUME TypeOK, NEW c \in Children, BeginTable(c)
    PROVE  /\ pc[c] = "tables"
           /\ UNCHANGED <<job, begun, opened, files, deletes, out, kills>>
           /\ \E k \in Ahead(at[c]) :
                LET t == Traversal[k]
                    skip == Chunk(t, c).first - 1
                IN  /\ \A m \in Ahead(at[c]) : k <= m
                    /\ at'[c] = k
                    /\ row'[c] = Chunk(t, c).first
                    /\ left'[c] = Chunk(t, c).count
                    /\ pc'[c] = IF Chunk(t, c).count = 0 THEN "tables" ELSE "rows"
                    /\ \A s \in Streams :
                         /\ drawn'[c][s] = IF skip # 0 /\ Repositioned(t, s)
                                           THEN skip * PerRow[s] ELSE drawn[c][s]
                         /\ used'[c][s] = IF skip # 0 /\ Repositioned(t, s) THEN 0 ELSE used[c][s]
<1>1. pc[c] = "tables" /\ UNCHANGED <<job, begun, opened, files, deletes, out, kills>>
  BY DEF BeginTable, disk
<1>2. PICK k \in Ahead(at[c]) :
        LET t == Traversal[k]
            share == Chunk(t, c)
            skip == share.first - 1
            moved(s) == skip # 0 /\ Repositioned(t, s)
        IN  /\ \A m \in Ahead(at[c]) : k <= m
            /\ row' = [row EXCEPT ![c] = share.first]
            /\ left' = [left EXCEPT ![c] = share.count]
            /\ pc' = [pc EXCEPT ![c] = IF share.count = 0 THEN "tables" ELSE "rows"]
            /\ drawn' = [drawn EXCEPT ![c] =
                            [s \in Streams |-> IF moved(s) THEN skip * PerRow[s] ELSE @[s]]]
            /\ used' = [used EXCEPT ![c] = [s \in Streams |-> IF moved(s) THEN 0 ELSE @[s]]]
            /\ at' = [at EXCEPT ![c] = k]
  BY DEF BeginTable, Chunk
<1>3. /\ c \in DOMAIN drawn /\ c \in DOMAIN used /\ c \in DOMAIN row /\ c \in DOMAIN left
      /\ c \in DOMAIN pc /\ c \in DOMAIN at
  BY DEF TypeOK
<1>4. QED BY <1>1, <1>2, <1>3

LEMMA RunInvStep ==
    ASSUME TypeOK, RunInv, NEW c \in Children, Act(c) PROVE RunInv'
<1>1. job' = job /\ Children' = Children BY OthersStay DEF Children
<1>2. ASSUME NEW d \in Children \ {c} PROVE RunOf(d)'
  <2>1. RunOf(d) BY DEF RunInv
  <2>2. /\ pc'[d] = pc[d] /\ at'[d] = at[d] /\ row'[d] = row[d] /\ left'[d] = left[d]
        /\ opened'[d] = opened[d]
    BY OthersStay
  <2>3. QED BY <1>1, <2>1, <2>2 DEF RunOf, InTable, OpenedBefore, Building, Chunk
<1>3. RunOf(c)'
  <2> USE DEF RunOf, TypeOK, own, disk
  <2>0. RunOf(c) BY DEF RunInv
  <2>1. CASE Launch(c)
    <3>1. /\ pc'[c] = (IF job.update THEN "access" ELSE "tables") /\ opened'[c] = {}
          /\ at'[c] = (IF job.update THEN 1 ELSE 0)
      BY <2>1 DEF Launch
    <3>2. QED BY <3>1 DEF OpenedBefore
  <2>2. CASE CheckDeleteFile(c)
    <3>1. /\ pc[c] = "access" /\ pc'[c] \in {"failed", "fopen"}
          /\ opened'[c] = opened[c] /\ at'[c] = at[c]
      BY <2>2 DEF CheckDeleteFile
    <3>2. QED BY <2>0, <3>1
  <2>3. CASE OpenDeleteFile(c)
    <3>1. pc[c] = "fopen" /\ opened' = opened BY <2>3 DEF OpenDeleteFile
    <3>2. opened[c] = {} /\ at[c] \in {1, 2} BY <2>0, <3>1
    <3>3. \/ pc'[c] = "access" /\ at'[c] = at[c] + 1 /\ at[c] < 2
          \/ pc'[c] = "tables"
      BY <2>3 DEF OpenDeleteFile, DeleteFiles
    <3>4. QED BY <3>1, <3>2, <3>3 DEF OpenedBefore
  <2>4. CASE BeginTable(c)
    <3>1. PICK k \in Ahead(at[c]) :
            /\ at'[c] = k
            /\ row'[c] = Chunk(Traversal[k], c).first
            /\ left'[c] = Chunk(Traversal[k], c).count
            /\ pc'[c] = IF Chunk(Traversal[k], c).count = 0 THEN "tables" ELSE "rows"
      BY <2>4, BeginTableEffect
    <3>2. OpenedBefore(c) /\ opened' = opened BY <2>0, <2>4, BeginTableEffect
    <3>3. /\ k \in DOMAIN Traversal /\ k \in Nat /\ k > at[c]
          /\ Traversal[k] \in Tables \ Passed
      BY AheadFacts
    <3>4. Chunk(Traversal[k], c).first \in Nat /\ Chunk(Traversal[k], c).count \in Nat
      <4>1. RowCount[Traversal[k]] \in Nat BY <3>3, TablesAssumption DEF TablesAssumption
      <4>2. c \in 1 .. job.parallel /\ job.parallel \in Nat \ {0} BY JobFacts
      <4>3. QED BY <4>1, <4>2, ShareType DEF Chunk
    <3>5. OpenedBefore(c)'
      <4>1. at[c] \in Nat /\ at'[c] = k /\ at[c] < k BY <3>1, <3>3
      <4>2. \A i \in DOMAIN Traversal : i <= at[c] => i <= k
        <5>1. DOMAIN Traversal \subseteq Nat BY TablesAssumption DEF TablesAssumption
        <5>2. QED BY <4>1, <3>3, <5>1
      <4>3. QED BY <3>2, <4>1, <4>2 DEF OpenedBefore
    <3>6. pc'[c] = "rows" => InTable(c)'
      <4>1. Building(c)' = Traversal[k] /\ Chunk(Traversal[k], c)' = Chunk(Traversal[k], c)
        BY <1>1, <3>1 DEF Building, Chunk
      <4>2. QED BY <3>1, <3>3, <3>4, <4>1, <1>1 DEF InTable, Chunk, Building
    <3>7. QED BY <3>1, <3>5, <3>6
  <2>5. CASE RefuseFile(c) BY <2>5 DEF RefuseFile
  <2>6. CASE BuildRow(c)
    <3>1. /\ pc[c] = "rows" /\ InTable(c)
          /\ opened'[c] = opened[c] \cup {Building(c)}
          /\ row'[c] = row[c] + 1 /\ left'[c] = left[c] - 1
          /\ pc'[c] = (IF left[c] = 1 THEN "tables" ELSE "rows")
          /\ at'[c] = at[c]
      BY <2>6, BuildRowEffect
    <3>2. OpenedBefore(c)'
      <4>1. OpenedBefore(c) BY <2>0, <3>1
      <4>2. at[c] \in DOMAIN Traversal /\ at[c] <= at[c] BY <3>1 DEF InTable
      <4>3. QED BY <3>1, <4>1, <4>2 DEF OpenedBefore, Building
    <3>3. pc'[c] = "rows" => InTable(c)'
      <4> DEFINE n == Chunk(Building(c), c).first
                 m == Chunk(Building(c), c).count
      <4>1. /\ row[c] >= n /\ row[c] + left[c] = n + m /\ left[c] # 0 BY <3>1 DEF InTable
      <4>2. n \in Nat /\ m \in Nat
        <5>1. RowCount[Building(c)] \in Nat BY <3>1, TablesAssumption DEF TablesAssumption, InTable
        <5>2. c \in 1 .. job.parallel /\ job.parallel \in Nat \ {0} BY JobFacts
        <5>3. QED BY <5>1, <5>2, ShareType DEF Chunk
      <4>3. row[c] \in Nat /\ left[c] \in Nat OBVIOUS
      <4>4. Building(c)' = Building(c) /\ Chunk(Building(c), c)' = Chunk(Building(c), c)
        BY <1>1, <3>1 DEF Building, Chunk
      <4> HIDE DEF n, m
      <4>5. row[c] + 1 >= n /\ (row[c] + 1) + (left[c] - 1) = n + m BY <4>1, <4>2, <4>3
      <4>6. QED BY <3>1, <4>4, <4>5 DEF InTable, n, m
    <3>4. QED BY <3>1, <3>2, <3>3
  <2>7. CASE Finish(c) BY <2>7 DEF Finish
  <2>8. CASE StartAgain(c) BY <2>8 DEF StartAgain
  <2>9. CASE Kill(c) BY <2>9 DEF Kill
  <2>10. QED BY <2>1, <2>2, <2>3, <2>4, <2>5, <2>6, <2>7, <2>8, <2>9 DEF Act, Step
<1>4. QED BY <1>1, <1>2, <1>3 DEF RunInv

LEMMA InitRunInv == Init => RunInv
  BY DEF Init, RunInv, RunOf

LEMMA StutterFacts ==
    ASSUME UNCHANGED vars
    PROVE  /\ UNCHANGED <<job, pc, at, row, left, drawn, used, begun, opened>>
           /\ UNCHANGED <<files, deletes, out, kills>> /\ Children' = Children
  BY DEF vars, own, disk, Children

LEMMA StutterType == ASSUME TypeOK, RunInv, UNCHANGED vars PROVE TypeOK' /\ RunInv'
<1>1. TypeOK' BY StutterFacts DEF TypeOK
<1>2. RunInv' BY StutterFacts DEF RunInv, RunOf, InTable, OpenedBefore, Building, Chunk
<1>3. QED BY <1>1, <1>2

\* A step of the system is a step of one process or none.
LEMMA NextCases ==
    ASSUME [Next]_vars PROVE (\E c \in Children : Act(c)) \/ UNCHANGED vars
  BY DEF Next, Act, Done

(* TypeOK: the variables keep their types; it needs the shape of a process    *)
(* that is in the middle of a table.                                          *)
THEOREM TypeCorrect == Spec => []TypeOK
<1>1. Init => TypeOK /\ RunInv BY InitTypeOK, InitRunInv
<1>2. TypeOK /\ RunInv /\ [Next]_vars => (TypeOK /\ RunInv)'
  <2>1. SUFFICES ASSUME TypeOK, RunInv, [Next]_vars PROVE TypeOK' /\ RunInv' OBVIOUS
  <2>2. ASSUME NEW c \in Children, Act(c) PROVE TypeOK' /\ RunInv'
    BY <2>1, <2>2, ActType, RunInvStep
  <2>3. QED BY <2>1, <2>2, NextCases, StutterType
<1>3. QED BY <1>1, <1>2, PTL DEF Spec

-----------------------------------------------------------------------------
(* The output files.                                                         *)

\* A row lies in the share of its process, in a file that there is, and
\* before the row that the process builds next.
PlaceOf(o) ==
    /\ <<o.child, o.table>> \in files
    /\ o.row >= Chunk(o.table, o.child).first
    /\ o.row < Chunk(o.table, o.child).first + Chunk(o.table, o.child).count
    /\ (/\ pc[o.child] = "rows"
        /\ o.table = Building(o.child)
        /\ o.table \in opened[o.child]) => o.row < row[o.child]

InPlace == \A o \in out : PlaceOf(o)

\* No process writes a row twice.
OwnOnce == \A o, p \in out : o.child = p.child /\ o.table = p.table /\ o.row = p.row => o = p

OutInv == InPlace /\ OwnOnce

\* A table that a process comes to it has not opened.
LEMMA FreshTable ==
    ASSUME TypeOK, RunInv, NEW c \in Children, pc[c] = "tables", NEW k \in Ahead(at[c])
    PROVE  Traversal[k] \notin opened[c]
<1>1. OpenedBefore(c) BY DEF RunInv, RunOf
<1>2. k \in DOMAIN Traversal /\ k > at[c] /\ at[c] \in Nat BY AheadFacts DEF TypeOK
<1>3. DOMAIN Traversal \subseteq Nat BY TablesAssumption DEF TablesAssumption
<1>4. SUFFICES ASSUME Traversal[k] \in opened[c] PROVE FALSE OBVIOUS
<1>5. PICK j \in DOMAIN Traversal : j <= at[c] /\ Traversal[j] = Traversal[k]
  BY <1>1, <1>4 DEF OpenedBefore
<1>6. j = k BY <1>2, <1>5, TablesAssumption DEF TablesAssumption
<1>7. QED BY <1>2, <1>3, <1>5, <1>6

LEMMA ChunkType ==
    ASSUME TypeOK, NEW t \in Tables, NEW c \in Children
    PROVE  Chunk(t, c).first \in Nat \ {0} /\ Chunk(t, c).count \in Nat
<1>1. RowCount[t] \in Nat BY TablesAssumption DEF TablesAssumption
<1>2. c \in 1 .. job.parallel /\ job.parallel \in Nat \ {0} BY JobFacts DEF TypeOK
<1>3. QED BY <1>1, <1>2, ShareType DEF Chunk

\* Only BuildRow writes.
LEMMA OtherStepsKeep ==
    ASSUME TypeOK, NEW c \in Children, Act(c), ~BuildRow(c)
    PROVE  out' = out /\ files' = files
<1> USE DEF own, disk
<1>1. CASE Launch(c) BY <1>1 DEF Launch
<1>2. CASE CheckDeleteFile(c) BY <1>2 DEF CheckDeleteFile
<1>3. CASE OpenDeleteFile(c) BY <1>3 DEF OpenDeleteFile
<1>4. CASE BeginTable(c) BY <1>4 DEF BeginTable
<1>5. CASE RefuseFile(c) BY <1>5 DEF RefuseFile
<1>6. CASE Finish(c) BY <1>6 DEF Finish
<1>7. CASE StartAgain(c) BY <1>7 DEF StartAgain
<1>8. CASE Kill(c) BY <1>8 DEF Kill
<1>9. QED BY <1>1, <1>2, <1>3, <1>4, <1>5, <1>6, <1>7, <1>8 DEF Act, Step

\* Only BeginTable and BuildRow leave a process in the loop of a table.
LEMMA OtherStepsLeave ==
    ASSUME TypeOK, NEW c \in Children, Act(c), ~BuildRow(c), ~BeginTable(c)
    PROVE  pc'[c] # "rows"
<1> USE DEF TypeOK
<1>1. CASE Launch(c) BY <1>1 DEF Launch
<1>2. CASE CheckDeleteFile(c) BY <1>2 DEF CheckDeleteFile
<1>3. CASE OpenDeleteFile(c) BY <1>3 DEF OpenDeleteFile
<1>4. CASE RefuseFile(c) BY <1>4 DEF RefuseFile
<1>5. CASE Finish(c) BY <1>5 DEF Finish
<1>6. CASE StartAgain(c) BY <1>6 DEF StartAgain
<1>7. CASE Kill(c) BY <1>7 DEF Kill
<1>8. QED BY <1>1, <1>2, <1>3, <1>4, <1>5, <1>6, <1>7 DEF Act, Step

LEMMA OutInvStep ==
    ASSUME TypeOK, RunInv, OutInv, NEW c \in Children, Act(c) PROVE OutInv'
<1>1. job' = job BY OthersStay
<1>2. \A t, d : Chunk(t, d)' = Chunk(t, d) BY <1>1 DEF Chunk
<1>3. ASSUME NEW o \in out, o.child # c, files \subseteq files' PROVE PlaceOf(o)'
  <2>1. o.child \in Children \ {c} BY <1>3 DEF TypeOK
  <2>2. PlaceOf(o) BY DEF OutInv, InPlace
  <2>3. /\ pc'[o.child] = pc[o.child] /\ at'[o.child] = at[o.child]
        /\ row'[o.child] = row[o.child] /\ opened'[o.child] = opened[o.child]
    BY <2>1, OthersStay
  <2>4. QED BY <1>2, <1>3, <2>2, <2>3 DEF PlaceOf, Building
<1>4. CASE ~BuildRow(c)
  <2>1. out' = out /\ files' = files BY <1>4, OtherStepsKeep
  <2>2. ASSUME NEW o \in out, o.child = c PROVE PlaceOf(o)'
    <3>1. PlaceOf(o) BY DEF OutInv, InPlace
    <3>2. pc'[c] = "rows" => ~(o.table = Building(c)' /\ o.table \in opened'[c])
      <4>1. CASE BeginTable(c)
        <5>1. pc[c] = "tables" /\ opened' = opened BY <4>1, BeginTableEffect
        <5>2. PICK k \in Ahead(at[c]) : at'[c] = k BY <4>1, BeginTableEffect
        <5>3. Traversal[k] \notin opened[c] BY <5>1, FreshTable
        <5>4. QED BY <5>1, <5>2, <5>3 DEF Building
      <4>2. CASE ~BeginTable(c) BY <1>4, <4>2, OtherStepsLeave
      <4>3. QED BY <4>1, <4>2
    <3>3. QED BY <1>2, <2>1, <2>2, <3>1, <3>2 DEF PlaceOf
  <2>3. \A o \in out' : PlaceOf(o)' BY <1>3, <2>1, <2>2
  <2>4. QED BY <2>1, <2>3 DEF OutInv, InPlace, OwnOnce
<1>5. CASE BuildRow(c)
  <2> DEFINE t == Building(c)
  <2>1. /\ pc[c] = "rows" /\ InTable(c)
        /\ out' = Kept(c) \cup {NewRow(c)}
        /\ files' = files \cup {<<c, t>>}
        /\ row'[c] = row[c] + 1 /\ at'[c] = at[c]
    BY <1>5, BuildRowEffect DEF TypeOK
  <2>2. Building(c)' = t BY <2>1 DEF Building
  <2>3. row[c] \in Nat /\ left[c] \in Nat BY DEF TypeOK
  <2>4. ASSUME NEW o \in Kept(c), o.child = c, o.table = t PROVE o.row < row[c]
    <3>1. o \in out /\ t \in opened[c] BY <2>4 DEF Kept
    <3>2. QED BY <2>1, <2>4, <3>1 DEF OutInv, InPlace, PlaceOf
  <2>5. ASSUME NEW o \in Kept(c), o.child = c PROVE PlaceOf(o)'
    <3>1. o \in out BY DEF Kept
    <3>2. PlaceOf(o) /\ o.row \in Nat BY <3>1 DEF OutInv, InPlace, TypeOK
    <3>3. o.table = t => o.row < row[c] + 1 BY <2>3, <2>4, <2>5, <3>2
    <3>4. QED BY <1>2, <2>1, <2>2, <2>5, <3>2, <3>3 DEF PlaceOf
  <2>6. ASSUME NEW o, o = NewRow(c) PROVE PlaceOf(o)'
    <3>1. Chunk(t, c).first \in Nat /\ Chunk(t, c).count \in Nat
      BY <2>1, ChunkType DEF InTable
    <3>2. /\ row[c] >= Chunk(t, c).first
          /\ row[c] < Chunk(t, c).first + Chunk(t, c).count
      BY <2>1, <2>3, <3>1 DEF InTable
    <3>3. o.child = c /\ o.table = t /\ o.row = row[c] BY <2>6 DEF NewRow
    <3>4. QED BY <1>2, <2>1, <2>2, <2>3, <3>2, <3>3 DEF PlaceOf
  <2>7. InPlace'
    <3>1. files \subseteq files' /\ Kept(c) \subseteq out BY <2>1 DEF Kept
    <3>2. QED BY <1>3, <2>1, <2>5, <2>6, <3>1 DEF InPlace
  <2>8. OwnOnce'
    <3> SUFFICES ASSUME NEW o \in out', NEW p \in out',
                        o.child = p.child, o.table = p.table, o.row = p.row
                 PROVE  o = p
      BY DEF OwnOnce
    <3>1. CASE o \in Kept(c) /\ p \in Kept(c) BY <3>1 DEF OutInv, OwnOnce, Kept
    <3>2. NewRow(c).child = c /\ NewRow(c).table = t /\ NewRow(c).row = row[c] BY DEF NewRow
    <3>3. \A q \in Kept(c) : ~(q.child = c /\ q.table = t /\ q.row = row[c])
      BY <2>3, <2>4
    <3>4. QED BY <2>1, <3>1, <3>2, <3>3
  <2>9. QED BY <2>7, <2>8 DEF OutInv
<1>6. QED BY <1>4, <1>5

LEMMA StutterOutInv == ASSUME OutInv, UNCHANGED vars PROVE OutInv'
<1>1. out' = out BY StutterFacts
<1>2. ASSUME NEW o \in out PROVE PlaceOf(o)'
  <2>1. PlaceOf(o) BY DEF OutInv, InPlace
  <2>2. QED BY <2>1, StutterFacts DEF PlaceOf, Building, Chunk
<1>3. QED BY <1>1, <1>2 DEF OutInv, InPlace, OwnOnce

\* The inductive invariant so far.
FileInv == TypeOK /\ RunInv /\ OutInv

LEMMA FileInvInductive == FileInv /\ [Next]_vars => FileInv'
<1>1. SUFFICES ASSUME TypeOK, RunInv, OutInv, [Next]_vars PROVE TypeOK' /\ RunInv' /\ OutInv'
  BY DEF FileInv
<1>2. ASSUME NEW c \in Children, Act(c) PROVE TypeOK' /\ RunInv' /\ OutInv'
  BY <1>1, <1>2, ActType, RunInvStep, OutInvStep
<1>3. QED BY <1>1, <1>2, NextCases, StutterType, StutterOutInv

LEMMA InitFileInv == Init => FileInv
<1>1. Init => OutInv BY DEF Init, OutInv, InPlace, OwnOnce
<1>2. QED BY <1>1, InitTypeOK, InitRunInv DEF FileInv

\* The shares of two processes have no row in common.
LEMMA FileInvRowsOnce == FileInv => RowsOnce
<1>1. SUFFICES ASSUME TypeOK, RunInv, OutInv, NEW o \in out, NEW p \in out,
                      o.table = p.table, o.row = p.row
               PROVE  o = p
  BY DEF FileInv, RowsOnce
<1>2. /\ o.child \in Children /\ p.child \in Children /\ o.table \in Tables /\ o.row \in Nat
  BY <1>1 DEF TypeOK
<1>3. PlaceOf(o) /\ PlaceOf(p) BY <1>1 DEF OutInv, InPlace
<1>4. ASSUME NEW c \in Children, NEW d \in Children, c < d,
             o.row >= Chunk(o.table, d).first,
             o.row < Chunk(o.table, d).first + Chunk(o.table, d).count,
             o.row < Chunk(o.table, c).first + Chunk(o.table, c).count
      PROVE  FALSE
  <2>1. job.parallel \in Nat \ {0} /\ c \in 1 .. job.parallel /\ d \in 1 .. job.parallel
    BY <1>1, JobFacts DEF TypeOK
  <2>2. RowCount[o.table] \in Nat BY <1>2, TablesAssumption DEF TablesAssumption
  <2>3. \/ Chunk(o.table, d).count = 0
        \/ Chunk(o.table, c).first + Chunk(o.table, c).count <= Chunk(o.table, d).first
    BY <1>4, <2>1, <2>2, SharesDisjoint DEF Chunk
  <2>4. /\ Chunk(o.table, c).first \in Nat /\ Chunk(o.table, c).count \in Nat
        /\ Chunk(o.table, d).first \in Nat /\ Chunk(o.table, d).count \in Nat
    BY <1>1, <1>2, ChunkType
  <2>5. QED BY <1>2, <1>4, <2>3, <2>4
<1>5. o.child = p.child
  <2>1. o.child \in Nat /\ p.child \in Nat BY <1>1, <1>2, JobFacts DEF TypeOK
  <2>2. ~(o.child < p.child) BY <1>1, <1>2, <1>3, <1>4 DEF PlaceOf
  <2>3. ~(p.child < o.child) BY <1>1, <1>2, <1>3, <1>4 DEF PlaceOf
  <2>4. QED BY <2>1, <2>2, <2>3
<1>6. QED BY <1>1, <1>5 DEF OutInv, OwnOnce

(* RowsOnce: no row is in the output files twice, for any row counts, any     *)
(* number of processes, and whoever is killed and started again.              *)
THEOREM RowsWrittenOnce == Spec => []RowsOnce
<1>1. QED BY InitFileInv, FileInvInductive, FileInvRowsOnce, PTL DEF Spec

(* KeepsFiles: without -force no step takes a row out of an output file.      *)
THEOREM FilesAreKept == Spec => KeepsFiles
<1>1. FileInv /\ [Next]_vars => [job.force \/ out \subseteq out']_vars
  <2>1. SUFFICES ASSUME TypeOK, RunInv, OutInv, ~job.force, NEW c \in Children, Act(c)
                 PROVE  out \subseteq out'
    BY NextCases DEF FileInv
  <2>2. CASE ~BuildRow(c) BY <2>1, <2>2, OtherStepsKeep
  <2>3. CASE BuildRow(c)
    <3>1. ~Refused(c) /\ out' = Kept(c) \cup {NewRow(c)} BY <2>1, <2>3, BuildRowEffect
    <3>2. Building(c) \notin opened[c] => <<c, Building(c)>> \notin files
      BY <2>1, <3>1 DEF Refused
    <3>3. \A o \in out : <<o.child, o.table>> \in files BY <2>1 DEF OutInv, InPlace, PlaceOf
    <3>4. out \subseteq Kept(c) BY <3>2, <3>3 DEF Kept
    <3>5. QED BY <3>1, <3>4
  <2>4. QED BY <2>2, <2>3
<1>2. QED BY <1>1, InitFileInv, FileInvInductive, PTL DEF Spec, KeepsFiles

-----------------------------------------------------------------------------
(* The numbers the rows are made from.                                       *)

\* Where a process stands in the streams that a serial run reaches too.
PosOf(c) == \A k \in DOMAIN Traversal : \A s \in Streams : Reproducible(Traversal[k], s) =>
    /\ pc[c] = "rows" /\ k = at[c] =>
         drawn[c][s] = (row[c] - 1) * PerRow[s] /\ used[c][s] = 0
    /\ pc[c] \in {"tables", "rows"} /\ k > at[c] /\ c = 1 =>
         drawn[c][s] = 0 /\ used[c][s] = 0
    /\ pc[c] \in {"access", "fopen"} => drawn[c][s] = 0 /\ used[c][s] = 0

PosInv == (\A c \in Children : PosOf(c)) /\ RowsAreSerial

\* A row of the stream's own table takes exactly the budget.
LEMMA OwnRow ==
    ASSUME TypeOK, NEW t \in Tables, NEW s \in Streams, Reproducible(t, s),
           NEW c \in Children, NEW d \in Demand[t], used[c][s] = 0
    PROVE  /\ AfterRow(t, drawn[c], used[c], Call(t, c, d))[s] = drawn[c][s] + PerRow[s]
           /\ UsedAfterRow(t, used[c], Call(t, c, d))[s] = 0
<1>1. PerRow[s] \in Nat /\ d[s] \in Nat /\ drawn[c][s] \in Nat
  BY StreamsAssumption DEF StreamsAssumption, TypeOK
<1>2. d[s] <= PerRow[s] /\ Once[t][s] = 0 BY DEF Reproducible
<1>3. TableOf[s] \in Stopped(t)
  <2>1. TableOf[s] \in Tables /\ TableOf[s] \in {t, ChildOf[t]} /\ NoTable \notin Tables
    BY TablesAssumption, StreamsAssumption DEF TablesAssumption, StreamsAssumption, Reproducible
  <2>2. TableOf[s] \in Descent(t) BY <2>1 DEF Descent
  <2>3. QED BY <2>2 DEF Stopped
<1>4. Call(t, c, d)[s] = d[s] BY <1>1, <1>2 DEF Call
<1>5. TopUp(s, used[c][s] + Call(t, c, d)[s]) + d[s] = PerRow[s]
  BY <1>1, <1>2, <1>4 DEF TopUp
<1>6. AfterRow(t, drawn[c], used[c], Call(t, c, d))[s]
        = drawn[c][s] + d[s] + TopUp(s, used[c][s] + Call(t, c, d)[s])
  BY <1>3, <1>4 DEF AfterRow
<1>7. TopUp(s, used[c][s] + Call(t, c, d)[s]) \in Nat BY <1>1, <1>4 DEF TopUp
<1>8. AfterRow(t, drawn[c], used[c], Call(t, c, d))[s] = drawn[c][s] + PerRow[s]
  BY <1>1, <1>5, <1>6, <1>7
<1>9. UsedAfterRow(t, used[c], Call(t, c, d))[s] = 0 BY <1>3 DEF UsedAfterRow
<1>10. QED BY <1>8, <1>9

\* A row of another table takes nothing.
LEMMA OtherRow ==
    ASSUME TypeOK, NEW t \in Tables \ Passed, NEW u, u # t, NEW s \in Streams, Reproducible(u, s),
           NEW c \in Children, NEW d \in Demand[t]
    PROVE  /\ AfterRow(t, drawn[c], used[c], Call(t, c, d))[s] = drawn[c][s]
           /\ UsedAfterRow(t, used[c], Call(t, c, d))[s] = used[c][s]
<1>1. drawn[c][s] \in Nat /\ used[c][s] \in Nat BY DEF TypeOK
<1>2. TableOf[s] \notin Stopped(t) /\ Once[t][s] = 0 /\ d[s] = 0 BY DEF Reproducible
<1>3. Call(t, c, d)[s] = 0 BY <1>2 DEF Call
<1>4. QED BY <1>1, <1>2, <1>3 DEF AfterRow, UsedAfterRow

LEMMA OtherStepsPos ==
    ASSUME TypeOK, NEW c \in Children, PosOf(c), Act(c), ~BuildRow(c), ~BeginTable(c)
    PROVE  PosOf(c)'
<1>1. pc'[c] # "rows" BY OtherStepsLeave
<1>2. SUFFICES ASSUME NEW s \in Streams, NEW k \in DOMAIN Traversal, Reproducible(Traversal[k], s),
                      pc'[c] \in {"tables", "access", "fopen"}
               PROVE  drawn'[c][s] = 0 /\ used'[c][s] = 0
  BY <1>1 DEF PosOf
<1> USE DEF TypeOK, own, disk
<1>3. CASE Launch(c) BY <1>3 DEF Launch
<1>4. CASE CheckDeleteFile(c)
  <2>1. pc[c] = "access" /\ drawn' = drawn /\ used' = used BY <1>4 DEF CheckDeleteFile
  <2>2. QED BY <1>2, <2>1 DEF PosOf
<1>5. CASE OpenDeleteFile(c)
  <2>1. pc[c] = "fopen" /\ drawn' = drawn /\ used' = used BY <1>5 DEF OpenDeleteFile
  <2>2. QED BY <1>2, <2>1 DEF PosOf
<1>6. CASE RefuseFile(c) BY <1>2, <1>6 DEF RefuseFile
<1>7. CASE Finish(c) BY <1>2, <1>7 DEF Finish
<1>8. CASE StartAgain(c) BY <1>2, <1>8 DEF StartAgain
<1>9. CASE Kill(c) BY <1>2, <1>9 DEF Kill
<1>10. QED BY <1>3, <1>4, <1>5, <1>6, <1>7, <1>8, <1>9 DEF Act, Step

LEMMA BeginTablePos ==
    ASSUME TypeOK, RunInv, NEW c \in Children, PosOf(c), BeginTable(c) PROVE PosOf(c)'
<1>1. PICK k \in Ahead(at[c]) :
        /\ at'[c] = k
        /\ row'[c] = Chunk(Traversal[k], c).first
        /\ pc'[c] = (IF Chunk(Traversal[k], c).count = 0 THEN "tables" ELSE "rows")
        /\ \A s \in Streams :
             LET skip == Chunk(Traversal[k], c).first - 1
             IN  /\ drawn'[c][s] = IF skip # 0 /\ Repositioned(Traversal[k], s)
                                   THEN skip * PerRow[s] ELSE drawn[c][s]
                 /\ used'[c][s] = IF skip # 0 /\ Repositioned(Traversal[k], s) THEN 0 ELSE used[c][s]
  BY BeginTableEffect
<1> DEFINE t == Traversal[k]
           n == Chunk(t, c).first
<1>2. pc[c] = "tables" BY BeginTableEffect
<1>3. k \in DOMAIN Traversal /\ k > at[c] /\ t \in Tables /\ at[c] \in Nat /\ k \in Nat
  BY AheadFacts DEF TypeOK
<1>4. n \in Nat \ {0} /\ Chunk(t, c).count \in Nat BY <1>3, ChunkType
<1>5. /\ Chunk(t, 1).first = 1
      /\ c > 1 /\ Chunk(t, c).count > 0 => n > 1
  <2>1. RowCount[t] \in Nat BY <1>3, TablesAssumption DEF TablesAssumption
  <2>2. c \in 1 .. job.parallel /\ job.parallel \in Nat \ {0} /\ job.parallel <= MinSplit
    BY JobFacts DEF TypeOK
  <2>3. QED BY <2>1, <2>2, ShareBegins DEF Chunk
<1>6. c \in Nat \ {0} BY JobFacts DEF TypeOK
<1>7. c = 1 => n = 1 BY <1>5
<1>8. ASSUME NEW s \in Streams, Reproducible(t, s), pc'[c] = "rows"
      PROVE  drawn'[c][s] = (row'[c] - 1) * PerRow[s] /\ used'[c][s] = 0
  <2>1. Repositioned(t, s) BY <1>8 DEF Reproducible, Repositioned
  <2>2. CASE n # 1
    <3>1. n - 1 # 0 BY <1>4, <2>2
    <3>2. QED BY <1>1, <2>1, <3>1
  <2>3. CASE n = 1
    <3>1. c = 1
      <4>1. Chunk(t, c).count > 0 BY <1>1, <1>4, <1>8
      <4>2. QED BY <1>5, <1>6, <2>3, <4>1
    <3>2. drawn[c][s] = 0 /\ used[c][s] = 0 BY <1>2, <1>3, <1>8, <3>1 DEF PosOf
    <3>3. n - 1 = 0 BY <2>3
    <3>4. drawn'[c][s] = 0 /\ used'[c][s] = 0 BY <1>1, <3>2, <3>3
    <3>5. 0 * PerRow[s] = 0 BY StreamsAssumption DEF StreamsAssumption
    <3>6. QED BY <1>1, <3>3, <3>4, <3>5
  <2>4. QED BY <2>2, <2>3
<1>9. ASSUME NEW j \in DOMAIN Traversal, NEW s \in Streams, Reproducible(Traversal[j], s), j > k, c = 1
      PROVE  drawn'[c][s] = 0 /\ used'[c][s] = 0
  <2>1. j > at[c]
    <3>1. j \in Nat BY TablesAssumption DEF TablesAssumption
    <3>2. QED BY <1>3, <1>9, <3>1
  <2>2. drawn[c][s] = 0 /\ used[c][s] = 0 BY <1>2, <1>9, <2>1 DEF PosOf
  <2>3. n - 1 = 0 BY <1>7, <1>9
  <2>4. QED BY <1>1, <2>2, <2>3
<1>10. QED BY <1>1, <1>8, <1>9 DEF PosOf

LEMMA BuildRowPos ==
    ASSUME TypeOK, RunInv, NEW c \in Children, PosOf(c), BuildRow(c) PROVE PosOf(c)'
<1> DEFINE t == Building(c)
<1>1. /\ pc[c] = "rows" /\ InTable(c)
      /\ row'[c] = row[c] + 1 /\ at'[c] = at[c]
      /\ pc'[c] \in {"tables", "rows"}
  BY BuildRowEffect DEF TypeOK
<1>2. t \in Tables \ Passed /\ t = Traversal[at[c]] /\ at[c] \in DOMAIN Traversal
  BY <1>1 DEF InTable, Building
<1>3. PICK d \in Demand[t] :
        /\ drawn'[c] = AfterRow(t, drawn[c], used[c], Call(t, c, d))
        /\ used'[c] = UsedAfterRow(t, used[c], Call(t, c, d))
  BY BuildRowEffect DEF TypeOK
<1>4. ASSUME NEW s \in Streams, Reproducible(t, s)
      PROVE  drawn'[c][s] = (row'[c] - 1) * PerRow[s] /\ used'[c][s] = 0
  <2>1. drawn[c][s] = (row[c] - 1) * PerRow[s] /\ used[c][s] = 0 BY <1>1, <1>2, <1>4 DEF PosOf
  <2>2. row[c] - 1 \in Nat /\ row[c] \in Nat /\ PerRow[s] \in Nat
    BY StreamsAssumption DEF StreamsAssumption, TypeOK
  <2>3. ((row[c] - 1) + 1) * PerRow[s] = (row[c] - 1) * PerRow[s] + PerRow[s] BY <2>2, TimesStep
  <2>4. row'[c] - 1 = (row[c] - 1) + 1 BY <1>1, <2>2
  <2>5. drawn'[c][s] = drawn[c][s] + PerRow[s] /\ used'[c][s] = 0
    BY <1>2, <1>3, <1>4, <2>1, OwnRow
  <2>6. QED BY <2>1, <2>3, <2>4, <2>5
<1>5. ASSUME NEW j \in DOMAIN Traversal, NEW s \in Streams, Reproducible(Traversal[j], s),
             j > at[c], c = 1
      PROVE  drawn'[c][s] = 0 /\ used'[c][s] = 0
  <2>1. drawn[c][s] = 0 /\ used[c][s] = 0 BY <1>1, <1>5 DEF PosOf
  <2>2. Traversal[j] # t
    <3>1. j # at[c]
      <4>1. DOMAIN Traversal \subseteq Nat BY TablesAssumption DEF TablesAssumption
      <4>2. QED BY <1>2, <1>5, <4>1
    <3>2. QED BY <1>2, <3>1, TablesAssumption DEF TablesAssumption
  <2>3. QED BY <1>2, <1>3, <1>5, <2>1, <2>2, OtherRow
<1>6. QED BY <1>1, <1>2, <1>4, <1>5 DEF PosOf

LEMMA PosInvStep ==
    ASSUME TypeOK, RunInv, PosInv, NEW c \in Children, Act(c) PROVE PosInv'
<1>1. job' = job /\ Children' = Children BY OthersStay DEF Children
<1>2. ASSUME NEW d \in Children \ {c} PROVE PosOf(d)'
  <2>1. PosOf(d) BY DEF PosInv
  <2>2. /\ pc'[d] = pc[d] /\ at'[d] = at[d] /\ row'[d] = row[d]
        /\ drawn'[d] = drawn[d] /\ used'[d] = used[d]
    BY OthersStay
  <2>3. QED BY <2>1, <2>2 DEF PosOf
<1>3. PosOf(c) BY DEF PosInv
<1>4. PosOf(c)' BY <1>3, OtherStepsPos, BeginTablePos, BuildRowPos
<1>5. RowsAreSerial'
  <2>1. RowsAreSerial BY DEF PosInv
  <2>2. CASE ~BuildRow(c) BY <2>1, <2>2, OtherStepsKeep DEF RowsAreSerial
  <2>3. CASE BuildRow(c)
    <3>1. /\ pc[c] = "rows" /\ InTable(c) /\ out' = Kept(c) \cup {NewRow(c)}
          /\ Kept(c) \subseteq out
      BY <2>3, BuildRowEffect DEF Kept
    <3>2. Building(c) = Traversal[at[c]] /\ at[c] \in DOMAIN Traversal BY <3>1 DEF InTable, Building
    <3>3. \A s \in Streams : Reproducible(Building(c), s) => drawn[c][s] = (row[c] - 1) * PerRow[s]
      BY <1>3, <3>1, <3>2 DEF PosOf
    <3>4. \A s \in NewRow(c).drift : ~Reproducible(NewRow(c).table, s)
      <4>1. NewRow(c).drift = Drift(Building(c), row[c], drawn[c]) /\ NewRow(c).table = Building(c)
        BY DEF NewRow
      <4>2. QED BY <3>3, <4>1 DEF Drift, DrawnBy
    <3>5. QED BY <2>1, <3>1, <3>4 DEF RowsAreSerial
  <2>4. QED BY <2>2, <2>3
<1>6. QED BY <1>1, <1>2, <1>4, <1>5 DEF PosInv

LEMMA InitPosInv == Init => PosInv
  BY DEF Init, PosInv, PosOf, RowsAreSerial

LEMMA StutterPosInv == ASSUME PosInv, UNCHANGED vars PROVE PosInv'
<1>1. ASSUME NEW c \in Children PROVE PosOf(c)'
  <2>1. PosOf(c) BY DEF PosInv
  <2>2. QED BY <2>1, StutterFacts DEF PosOf
<1>2. RowsAreSerial' BY StutterFacts DEF PosInv, RowsAreSerial
<1>3. QED BY <1>1, <1>2, StutterFacts DEF PosInv

IInv == FileInv /\ PosInv

LEMMA IInvInductive == IInv /\ [Next]_vars => IInv'
<1>1. SUFFICES ASSUME FileInv, PosInv, [Next]_vars PROVE FileInv' /\ PosInv' BY DEF IInv
<1>2. FileInv' BY <1>1, FileInvInductive
<1>3. PosInv'
  <2>1. TypeOK /\ RunInv BY <1>1 DEF FileInv
  <2>2. ASSUME NEW c \in Children, Act(c) PROVE PosInv' BY <1>1, <2>1, <2>2, PosInvStep
  <2>3. QED BY <1>1, <2>2, NextCases, StutterPosInv
<1>4. QED BY <1>2, <1>3

LEMMA InitIInv == Init => IInv
  BY InitFileInv, InitPosInv DEF IInv

(* RowsAreSerial: every row is made from the numbers that a serial run makes  *)
(* it from, in every stream that row_skip and row_stop keep in step.          *)
THEOREM RowsFromSerialNumbers == Spec => []RowsAreSerial
<1>1. IInv => RowsAreSerial BY DEF IInv, PosInv
<1>2. QED BY <1>1, InitIInv, IInvInductive, PTL DEF Spec

-----------------------------------------------------------------------------
(* The processes implement one serial run.                                   *)

DataRight == \A x \in RowsOf : Data(x) = IF x \in Written THEN "serial" ELSE "absent"

\* No row is ever wrong.
LEMMA DataOK == IInv => DataRight
<1> SUFFICES ASSUME IInv PROVE DataRight OBVIOUS
<1>1. RowsOnce /\ RowsAreSerial BY FileInvRowsOnce DEF IInv, PosInv
<1>2. \A o \in out : ~Wrong(o) BY <1>1 DEF Wrong, RowsOnce, RowsAreSerial
<1>3. QED BY <1>2 DEF Data, DataRight

\* A step adds at most one row.
LEMMA OneRowAtATime ==
    ASSUME IInv, [Next]_vars, NEW x, NEW y,
           x \in Written', y \in Written', x \notin Written, y \notin Written
    PROVE  x = y
<1>0. TypeOK /\ RunInv BY DEF IInv, FileInv
<1>1. CASE UNCHANGED vars BY <1>1, StutterFacts DEF Written
<1>2. ASSUME NEW c \in Children, Act(c) PROVE x = y
  <2>1. CASE ~BuildRow(c) BY <1>0, <1>2, <2>1, OtherStepsKeep DEF Written
  <2>2. CASE BuildRow(c)
    <3>1. out' = Kept(c) \cup {NewRow(c)} /\ Kept(c) \subseteq out
      BY <1>0, <2>2, BuildRowEffect DEF Kept
    <3>2. Written' \subseteq Written \cup {<<NewRow(c).table, NewRow(c).row>>} BY <3>1 DEF Written
    <3>3. QED BY <3>2
  <2>3. QED BY <2>1, <2>2
<1>3. QED BY <1>1, <1>2, NextCases

(* ImplementsSerial: the output of the processes behaves as that of one       *)
(* serial run: a row is absent or serial, and rows are written one at a time. *)
THEOREM ParallelImplementsSerial == Spec => ImplementsSerial
<1>1. Init => Serial!Init
  <2>1. SUFFICES ASSUME Init PROVE \A x \in RowsOf : Data(x) = "absent"
    BY DEF Serial!Init
  <2>2. QED BY <2>1 DEF Init, Data, Written
<1>2. DataRight /\ DataRight' /\ IInv /\ [Next]_vars => [Serial!Next]_([x \in RowsOf |-> Data(x)])
  <2>1. SUFFICES ASSUME DataRight, DataRight', IInv, [Next]_vars PROVE Serial!Next OBVIOUS
  <2>2. \A x \in RowsOf : Data(x) = IF x \in Written THEN "serial" ELSE "absent"
    BY <2>1 DEF DataRight
  <2>3. \A x \in RowsOf : Data(x)' = IF x \in Written' THEN "serial" ELSE "absent"
    BY <2>1 DEF DataRight
  <2>4. [x \in RowsOf |-> Data(x)]' \in [RowsOf -> {"absent", "serial"}] BY <2>3
  <2>5. \A x, y \in Serial!New : x = y
    <3>1. ASSUME NEW x \in Serial!New PROVE x \in Written' /\ x \notin Written
      BY <2>2, <2>3, <3>1 DEF Serial!New
    <3>2. QED BY <2>1, <3>1, OneRowAtATime
  <2>6. QED BY <2>4, <2>5 DEF Serial!Next
<1>3. QED BY <1>1, <1>2, DataOK, InitIInv, IInvInductive, PTL DEF Spec, ImplementsSerial, Serial!Spec

-----------------------------------------------------------------------------
(* A run that nobody disturbs.                                               *)

\* Without a kill a process has opened every file that bears its number.
CleanOf(c) ==
    /\ pc[c] = "killed" => kills > 0
    /\ pc[c] \in {"access", "fopen"} => job.update
    /\ pc[c] = "failed" => kills > 0 \/ job.update
    /\ kills = 0 => /\ \A t \in Tables : <<c, t>> \in files => t \in opened[c]
                    /\ pc[c] = "idle" => opened[c] = {}

CleanInv == \A c \in Children : CleanOf(c)

LEMMA CleanInvStep ==
    ASSUME TypeOK, RunInv, CleanInv, NEW c \in Children, Act(c) PROVE CleanInv'
<1>1. job' = job /\ Children' = Children BY OthersStay DEF Children
<1>2. kills \in Nat /\ kills' \in Nat /\ kills' >= kills
  <2> USE DEF TypeOK
  <2>1. CASE Launch(c) BY <2>1 DEF Launch
  <2>2. CASE CheckDeleteFile(c) BY <2>2 DEF CheckDeleteFile
  <2>3. CASE OpenDeleteFile(c) BY <2>3 DEF OpenDeleteFile
  <2>4. CASE BeginTable(c) BY <2>4 DEF BeginTable
  <2>5. CASE RefuseFile(c) BY <2>5 DEF RefuseFile
  <2>6. CASE BuildRow(c) BY <2>6 DEF BuildRow
  <2>7. CASE Finish(c) BY <2>7 DEF Finish
  <2>8. CASE StartAgain(c) BY <2>8 DEF StartAgain
  <2>9. CASE Kill(c) BY <2>9 DEF Kill
  <2>10. QED BY <2>1, <2>2, <2>3, <2>4, <2>5, <2>6, <2>7, <2>8, <2>9 DEF Act, Step
<1>3. ASSUME NEW d \in Children \ {c} PROVE CleanOf(d)'
  <2>1. CleanOf(d) BY DEF CleanInv
  <2>2. pc'[d] = pc[d] /\ opened'[d] = opened[d] BY OthersStay
  <2>3. \A t : <<d, t>> \in files' => <<d, t>> \in files
    <3>1. CASE BuildRow(c) BY <3>1, BuildRowEffect
    <3>2. CASE ~BuildRow(c) BY <3>2, OtherStepsKeep
    <3>3. QED BY <3>1, <3>2
  <2>4. QED BY <1>1, <1>2, <2>1, <2>2, <2>3 DEF CleanOf
<1>4. CleanOf(c)'
  <2>0. CleanOf(c) BY DEF CleanInv
  <2> USE DEF CleanOf, TypeOK, own, disk
  <2>1. CASE Launch(c)
    <3>1. /\ pc[c] = "idle" /\ opened'[c] = {} /\ files' = files /\ kills' = kills
          /\ pc'[c] = (IF job.update THEN "access" ELSE "tables")
      BY <2>1 DEF Launch
    <3>2. kills = 0 => \A t \in Tables : <<c, t>> \notin files BY <2>0, <3>1
    <3>3. QED BY <1>1, <3>1, <3>2
  <2>2. CASE CheckDeleteFile(c)
    <3>1. /\ pc[c] = "access" /\ pc'[c] \in {"failed", "fopen"}
          /\ opened' = opened /\ files' = files /\ kills' = kills
      BY <2>2 DEF CheckDeleteFile
    <3>2. QED BY <1>1, <2>0, <3>1
  <2>3. CASE OpenDeleteFile(c)
    <3>1. /\ pc[c] = "fopen" /\ pc'[c] \in {"access", "tables"}
          /\ opened' = opened /\ files' = files /\ kills' = kills
      BY <2>3 DEF OpenDeleteFile
    <3>2. QED BY <1>1, <2>0, <3>1
  <2>4. CASE BeginTable(c)
    <3>1. pc'[c] \in {"tables", "rows"} BY <2>4, BeginTableEffect
    <3>2. opened' = opened /\ files' = files /\ kills' = kills BY <2>4, BeginTableEffect
    <3>3. QED BY <2>0, <3>1, <3>2
  <2>5. CASE RefuseFile(c)
    <3>1. /\ pc[c] = "rows" /\ Refused(c) /\ pc'[c] = "failed"
          /\ opened' = opened /\ files' = files /\ kills' = kills
      BY <2>5 DEF RefuseFile
    <3>2. Building(c) \in Tables BY <3>1 DEF RunInv, RunOf, InTable
    <3>3. kills # 0 BY <2>0, <3>1, <3>2 DEF Refused
    <3>4. QED BY <2>0, <3>1, <3>3
  <2>6. CASE BuildRow(c)
    <3>1. /\ opened'[c] = opened[c] \cup {Building(c)}
          /\ files' = files \cup {<<c, Building(c)>>}
          /\ pc'[c] \in {"tables", "rows"} /\ kills' = kills
      BY <2>6, BuildRowEffect
    <3>2. QED BY <2>0, <3>1
  <2>7. CASE Finish(c) BY <2>0, <2>7 DEF Finish
  <2>8. CASE StartAgain(c)
    <3>1. /\ pc[c] = "killed" /\ pc'[c] = "idle"
          /\ opened' = opened /\ files' = files /\ kills' = kills
      BY <2>8 DEF StartAgain
    <3>2. QED BY <2>0, <3>1
  <2>9. CASE Kill(c)
    <3>1. pc'[c] = "killed" /\ kills' = kills + 1 BY <2>9 DEF Kill
    <3>2. QED BY <3>1
  <2>10. QED BY <2>1, <2>2, <2>3, <2>4, <2>5, <2>6, <2>7, <2>8, <2>9 DEF Act, Step
<1>5. QED BY <1>1, <1>3, <1>4 DEF CleanInv

(* CleanRunSucceeds: while nobody is killed, no process of a base run takes a *)
(* file of the same run for an old one.                                       *)
THEOREM UndisturbedRunSucceeds == Spec => []CleanRunSucceeds
<1>1. Init => CleanInv BY DEF Init, CleanInv, CleanOf
<1>2. FileInv /\ CleanInv /\ [Next]_vars => CleanInv'
  <2>1. SUFFICES ASSUME FileInv, CleanInv, [Next]_vars PROVE CleanInv' OBVIOUS
  <2>2. ASSUME NEW c \in Children, Act(c) PROVE CleanInv'
    BY <2>1, <2>2, CleanInvStep DEF FileInv
  <2>3. CASE UNCHANGED vars BY <2>1, <2>3, StutterFacts DEF CleanInv, CleanOf
  <2>4. QED BY <2>1, <2>2, <2>3, NextCases
<1>3. CleanInv => CleanRunSucceeds BY DEF CleanInv, CleanOf, CleanRunSucceeds
<1>4. QED BY <1>1, <1>2, <1>3, InitFileInv, FileInvInductive, PTL DEF Spec

-----------------------------------------------------------------------------
(* Every row is written.                                                     *)

\* The rows of process c's share of table t before row n are in its file.
Holds(c, t, n) == \A r \in Nat : r >= Chunk(t, c).first /\ r < n =>
                      \E o \in out : o.child = c /\ o.table = t /\ o.row = r
Whole(c, t) == Holds(c, t, Chunk(t, c).first + Chunk(t, c).count)

\* A process has written its shares of the tables that it has passed, and the
\* rows of the table that it is in as far as it has come.
BuiltOf(c) ==
    /\ pc[c] = "tables" => \A k \in Ahead(0) : k <= at[c] => Whole(c, Traversal[k])
    /\ pc[c] = "rows" =>
         /\ Traversal[at[c]] \in job.tables
         /\ \A k \in Ahead(0) : k < at[c] => Whole(c, Traversal[k])
         /\ Building(c) \in opened[c] => Holds(c, Building(c), row[c])
         /\ Building(c) \notin opened[c] => row[c] = Chunk(Building(c), c).first
    /\ pc[c] = "done" => \A k \in Ahead(0) : Whole(c, Traversal[k])

\* Nobody writes rows of a table that was not asked for.
AskedFor == \A o \in out : o.table \in job.tables \cap Visited

BuiltInv == (\A c \in Children : BuiltOf(c)) /\ AskedFor

LEMMA PositionsAreNumbers == DOMAIN Traversal \subseteq Nat \ {0}
  BY TablesAssumption DEF TablesAssumption

LEMMA AheadIsThere ==
    ASSUME NEW k \in Ahead(0)
    PROVE  k \in Nat \ {0} /\ k \in DOMAIN Traversal /\ Traversal[k] \in Tables
  BY AheadFacts

\* What a process has written stays while its own rows do.
LEMMA HoldsKept ==
    ASSUME NEW c, NEW t, NEW n \in Nat, Holds(c, t, n), job' = job,
           \A o \in out : o.child = c /\ o.table = t => o \in out'
    PROVE  \A r \in Nat : r >= Chunk(t, c).first /\ r < n =>
              \E o \in out' : o.child = c /\ o.table = t /\ o.row = r
  BY DEF Holds

LEMMA WholeStays ==
    ASSUME TypeOK, NEW c \in Children, NEW t \in Tables, Whole(c, t), job' = job,
           \A o \in out : o.child = c /\ o.table = t => o \in out'
    PROVE  Whole(c, t)'
<1>1. Chunk(t, c)' = Chunk(t, c) BY DEF Chunk
<1>2. Chunk(t, c).first + Chunk(t, c).count \in Nat BY ChunkType
<1>3. QED BY <1>1, <1>2, HoldsKept DEF Whole, Holds

\* A process leaves the rows of the others alone.
LEMMA OthersRowsStay ==
    ASSUME TypeOK, RunInv, NEW c \in Children, Act(c), NEW d, d # c
    PROVE  \A o \in out : o.child = d => o \in out'
<1>1. CASE ~BuildRow(c) BY <1>1, OtherStepsKeep
<1>2. CASE BuildRow(c) BY <1>2, BuildRowEffect DEF Kept
<1>3. QED BY <1>1, <1>2

LEMMA OthersBuilt ==
    ASSUME TypeOK, RunInv, NEW c \in Children, Act(c), NEW d \in Children \ {c}, BuiltOf(d)
    PROVE  BuiltOf(d)'
<1>1. job' = job BY OthersStay
<1>2. pc'[d] = pc[d] /\ at'[d] = at[d] /\ row'[d] = row[d] /\ opened'[d] = opened[d]
  BY OthersStay
<1>3. \A o \in out : o.child = d => o \in out' BY OthersRowsStay
<1>4. Ahead(0)' = Ahead(0) BY <1>1 DEF Ahead
<1>5. \A t \in Tables : Whole(d, t) => Whole(d, t)' BY <1>1, <1>3, WholeStays
<1>6. \A k \in Ahead(0) : Whole(d, Traversal[k]) => Whole(d, Traversal[k])'
  BY <1>5, AheadIsThere
<1>7. pc[d] = "rows" => Building(d)' = Building(d) /\ Chunk(Building(d), d)' = Chunk(Building(d), d)
  BY <1>1, <1>2 DEF Building, Chunk
<1>8. pc[d] = "rows" /\ Building(d) \in opened[d] => Holds(d, Building(d), row[d])'
  <2>1. SUFFICES ASSUME pc[d] = "rows", Building(d) \in opened[d]
                 PROVE  Holds(d, Building(d), row[d])'
    OBVIOUS
  <2>2. Holds(d, Building(d), row[d]) /\ row[d] \in Nat BY <2>1 DEF BuiltOf, TypeOK
  <2>3. \A r \in Nat : r >= Chunk(Building(d), d).first /\ r < row[d] =>
           \E o \in out' : o.child = d /\ o.table = Building(d) /\ o.row = r
    BY <1>1, <1>3, <2>2, HoldsKept
  <2>4. QED BY <1>2, <1>7, <2>1, <2>3 DEF Holds
<1>9. QED BY <1>1, <1>2, <1>4, <1>6, <1>7, <1>8 DEF BuiltOf

LEMMA BeginTableBuilt ==
    ASSUME TypeOK, RunInv, NEW c \in Children, BuiltOf(c), BeginTable(c) PROVE BuiltOf(c)'
<1>1. pc[c] = "tables" /\ job' = job /\ out' = out /\ opened' = opened BY BeginTableEffect
<1>2. PICK k \in Ahead(at[c]) :
        /\ \A m \in Ahead(at[c]) : k <= m
        /\ at'[c] = k
        /\ row'[c] = Chunk(Traversal[k], c).first
        /\ pc'[c] = IF Chunk(Traversal[k], c).count = 0 THEN "tables" ELSE "rows"
  BY BeginTableEffect
<1> DEFINE t == Traversal[k]
<1>3. /\ k \in DOMAIN Traversal /\ k \in Nat \ {0} /\ k > at[c] /\ at[c] \in Nat
      /\ t \in job.tables /\ t \in Tables
  BY AheadFacts DEF TypeOK
<1>4. Ahead(0)' = Ahead(0) BY <1>1 DEF Ahead
<1>5. \A j \in Ahead(0) : Whole(c, Traversal[j]) => Whole(c, Traversal[j])'
  BY <1>1, AheadIsThere, WholeStays
\* main passes over no table that was asked for.
<1>6. ASSUME NEW j \in Ahead(0), j < k PROVE Whole(c, Traversal[j])'
  <2>1. j \in Nat /\ j \in DOMAIN Traversal BY AheadIsThere
  <2>2. j <= at[c]
    <3>1. SUFFICES ASSUME j > at[c] PROVE FALSE BY <1>3, <2>1
    <3>2. j \in Ahead(at[c]) BY <1>6, <3>1 DEF Ahead
    <3>3. QED BY <1>2, <1>3, <1>6, <2>1, <3>2
  <2>3. QED BY <1>1, <1>5, <2>2 DEF BuiltOf
<1>7. t \notin opened[c] BY <1>1, FreshTable
<1>8. Chunk(t, c)' = Chunk(t, c) BY <1>1 DEF Chunk
<1>9. CASE Chunk(t, c).count = 0
  <2>1. Chunk(t, c).first \in Nat BY <1>3, ChunkType
  <2>2. Whole(c, t)' BY <1>8, <1>9, <2>1 DEF Whole, Holds
  <2>3. pc'[c] = "tables" BY <1>2, <1>9
  <2>4. \A j \in Ahead(0) : j <= k => j < k \/ j = k BY <1>3, AheadIsThere
  <2>5. QED BY <1>2, <1>4, <1>6, <2>2, <2>3, <2>4 DEF BuiltOf
<1>10. CASE Chunk(t, c).count # 0
  <2>1. pc'[c] = "rows" BY <1>2, <1>10
  <2>2. Building(c)' = t BY <1>2 DEF Building
  <2>3. QED BY <1>1, <1>2, <1>3, <1>4, <1>6, <1>7, <1>8, <2>1, <2>2 DEF BuiltOf
<1>11. QED BY <1>9, <1>10

LEMMA BuildRowBuilt ==
    ASSUME TypeOK, RunInv, OutInv, NEW c \in Children, BuiltOf(c), BuildRow(c) PROVE BuiltOf(c)'
<1> DEFINE t == Building(c)
           first == Chunk(t, c).first
<1>1. /\ pc[c] = "rows" /\ InTable(c)
      /\ out' = Kept(c) \cup {NewRow(c)}
      /\ job' = job /\ at' = at
      /\ opened'[c] = opened[c] \cup {t}
      /\ row'[c] = row[c] + 1
      /\ pc'[c] = IF left[c] = 1 THEN "tables" ELSE "rows"
  BY BuildRowEffect DEF TypeOK
<1>2. at[c] \in DOMAIN Traversal /\ t = Traversal[at[c]] /\ t \in Tables /\ t \in job.tables
  BY <1>1 DEF BuiltOf, InTable, Building
<1>3. at[c] \in Nat /\ row[c] \in Nat /\ left[c] \in Nat BY DEF TypeOK
<1>4. Ahead(0)' = Ahead(0) /\ Building(c)' = t /\ Chunk(t, c)' = Chunk(t, c)
  BY <1>1 DEF Ahead, Building, Chunk
<1>5. first \in Nat /\ Chunk(t, c).count \in Nat BY <1>2, ChunkType
\* The rows of the table so far, and this one.
<1>6. \A r \in Nat : r >= first /\ r < row[c] + 1 =>
         \E o \in out' : o.child = c /\ o.table = t /\ o.row = r
  <2>1. SUFFICES ASSUME NEW r \in Nat, r >= first, r < row[c] + 1
                 PROVE  \E o \in out' : o.child = c /\ o.table = t /\ o.row = r
    OBVIOUS
  <2>2. CASE r = row[c]
    <3>1. NewRow(c) \in out' BY <1>1
    <3>2. NewRow(c).child = c /\ NewRow(c).table = t /\ NewRow(c).row = row[c] BY DEF NewRow
    <3>3. QED BY <2>2, <3>1, <3>2
  <2>3. CASE r < row[c]
    <3>1. t \in opened[c]
      <4>1. t \notin opened[c] => row[c] = first BY <1>1 DEF BuiltOf
      <4>2. QED BY <1>3, <1>5, <2>1, <2>3, <4>1
    <3>2. Holds(c, t, row[c]) BY <1>1, <3>1 DEF BuiltOf
    <3>3. PICK o \in out : o.child = c /\ o.table = t /\ o.row = r
      BY <2>1, <2>3, <3>2 DEF Holds
    <3>4. o \in out' BY <1>1, <3>1 DEF Kept
    <3>5. QED BY <3>3, <3>4
  <2>4. QED BY <1>3, <2>1, <2>2, <2>3
\* The other tables of the process.
<1>7. ASSUME NEW j \in Ahead(0), j < at[c] PROVE Whole(c, Traversal[j])'
  <2>1. Whole(c, Traversal[j]) BY <1>1, <1>7 DEF BuiltOf
  <2>2. j \in Nat /\ j \in DOMAIN Traversal /\ Traversal[j] \in Tables BY AheadIsThere
  <2>3. Traversal[j] # t
    <3>1. j # at[c] BY <1>3, <1>7, <2>2
    <3>2. QED BY <1>2, <2>2, <3>1, TablesAssumption DEF TablesAssumption
  <2>4. \A o \in out : o.child = c /\ o.table = Traversal[j] => o \in out'
    BY <1>1, <2>3 DEF Kept
  <2>5. QED BY <1>1, <2>1, <2>2, <2>4, WholeStays
<1>8. CASE left[c] = 1
  <2>1. row[c] + 1 = first + Chunk(t, c).count
    <3>1. row[c] + left[c] = first + Chunk(t, c).count BY <1>1 DEF InTable
    <3>2. QED BY <1>8, <3>1
  <2>2. Whole(c, t)' BY <1>4, <1>6, <2>1 DEF Whole, Holds
  <2>3. pc'[c] = "tables" BY <1>1, <1>8
  <2>4. \A j \in Ahead(0) : j <= at[c] => j < at[c] \/ j = at[c] BY <1>3, AheadIsThere
  <2>5. QED BY <1>1, <1>2, <1>4, <1>7, <2>2, <2>3, <2>4 DEF BuiltOf
<1>9. CASE left[c] # 1
  <2>1. pc'[c] = "rows" BY <1>1, <1>9
  <2>2. Holds(c, Building(c), row[c])' BY <1>1, <1>4, <1>6 DEF Holds
  <2>3. Building(c)' \in opened'[c] BY <1>1, <1>4
  <2>4. Traversal[at[c]]' \in job.tables' BY <1>1, <1>2
  <2>5. QED BY <1>1, <1>4, <1>7, <2>1, <2>2, <2>3, <2>4 DEF BuiltOf
<1>10. QED BY <1>8, <1>9

LEMMA OtherStepsBuilt ==
    ASSUME TypeOK, RunInv, NEW c \in Children, BuiltOf(c), Act(c), ~BuildRow(c), ~BeginTable(c)
    PROVE  BuiltOf(c)'
<1>1. job' = job /\ out' = out BY OthersStay, OtherStepsKeep
<1>2. Ahead(0)' = Ahead(0) BY <1>1 DEF Ahead
<1>3. \A k \in Ahead(0) : Whole(c, Traversal[k]) => Whole(c, Traversal[k])'
  BY <1>1, AheadIsThere, WholeStays
<1>4. pc'[c] # "rows" BY OtherStepsLeave
<1>5. \A k \in Ahead(0) : ~(k <= 0) BY AheadIsThere
<1> USE DEF TypeOK
<1>6. CASE Launch(c)
  <2>1. pc'[c] = "access" \/ (pc'[c] = "tables" /\ at'[c] = 0) BY <1>6 DEF Launch
  <2>2. QED BY <1>2, <1>5, <2>1 DEF BuiltOf
<1>7. CASE CheckDeleteFile(c)
  <2>1. pc'[c] \in {"failed", "fopen"} BY <1>7 DEF CheckDeleteFile
  <2>2. QED BY <2>1 DEF BuiltOf
<1>8. CASE OpenDeleteFile(c)
  <2>1. pc'[c] = "access" \/ (pc'[c] = "tables" /\ at'[c] = 0) BY <1>8 DEF OpenDeleteFile
  <2>2. QED BY <1>2, <1>5, <2>1 DEF BuiltOf
<1>9. CASE RefuseFile(c)
  <2>1. pc'[c] = "failed" BY <1>9 DEF RefuseFile
  <2>2. QED BY <2>1 DEF BuiltOf
<1>10. CASE Finish(c)
  <2>1. pc[c] = "tables" /\ Ahead(at[c]) = {} /\ pc'[c] = "done" BY <1>10 DEF Finish
  <2>2. ASSUME NEW k \in Ahead(0) PROVE Whole(c, Traversal[k])
    <3>1. ~(k > at[c]) BY <2>1 DEF Ahead
    <3>2. k <= at[c] BY <3>1, AheadIsThere
    <3>3. QED BY <2>1, <3>2 DEF BuiltOf
  <2>3. QED BY <1>2, <1>3, <2>1, <2>2 DEF BuiltOf
<1>11. CASE StartAgain(c)
  <2>1. pc'[c] = "idle" BY <1>11 DEF StartAgain
  <2>2. QED BY <2>1 DEF BuiltOf
<1>12. CASE Kill(c)
  <2>1. pc'[c] = "killed" BY <1>12 DEF Kill
  <2>2. QED BY <2>1 DEF BuiltOf
<1>13. QED BY <1>6, <1>7, <1>8, <1>9, <1>10, <1>11, <1>12 DEF Act, Step

LEMMA AskedForStep ==
    ASSUME TypeOK, RunInv, BuiltInv, NEW c \in Children, Act(c) PROVE AskedFor'
<1>1. job' = job BY OthersStay
<1>2. AskedFor BY DEF BuiltInv
<1>3. CASE ~BuildRow(c) BY <1>1, <1>2, <1>3, OtherStepsKeep DEF AskedFor
<1>4. CASE BuildRow(c)
  <2>1. /\ pc[c] = "rows" /\ InTable(c) /\ out' = Kept(c) \cup {NewRow(c)}
        /\ Kept(c) \subseteq out
    BY <1>4, BuildRowEffect DEF Kept
  <2>2. Building(c) \in job.tables BY <2>1 DEF BuiltInv, BuiltOf, Building
  <2>3. Building(c) \in Visited BY <2>1 DEF InTable, Building, Visited
  <2>4. NewRow(c).table = Building(c) BY DEF NewRow
  <2>5. QED BY <1>1, <1>2, <2>1, <2>2, <2>3, <2>4 DEF AskedFor
<1>5. QED BY <1>3, <1>4

LEMMA BuiltInvStep ==
    ASSUME FileInv, BuiltInv, NEW c \in Children, Act(c) PROVE BuiltInv'
<1>1. TypeOK /\ RunInv /\ OutInv BY DEF FileInv
<1>2. Children' = Children BY <1>1, OthersStay DEF Children
<1>3. ASSUME NEW d \in Children PROVE BuiltOf(d)'
  <2>1. BuiltOf(d) BY DEF BuiltInv
  <2>2. CASE d # c BY <1>1, <2>1, <2>2, OthersBuilt
  <2>3. CASE d = c BY <1>1, <2>1, <2>3, BeginTableBuilt, BuildRowBuilt, OtherStepsBuilt
  <2>4. QED BY <2>2, <2>3
<1>4. QED BY <1>1, <1>2, <1>3, AskedForStep DEF BuiltInv

LEMMA StutterBuiltInv == ASSUME BuiltInv, UNCHANGED vars PROVE BuiltInv'
<1>1. ASSUME NEW c \in Children PROVE BuiltOf(c)'
  <2>1. BuiltOf(c) BY DEF BuiltInv
  <2>2. QED BY <2>1, StutterFacts DEF BuiltOf, Whole, Holds, Chunk, Building, Ahead
<1>2. QED BY <1>1, StutterFacts DEF BuiltInv, AskedFor

LEMMA InitBuiltInv == Init => BuiltInv
  BY DEF Init, BuiltInv, BuiltOf, AskedFor

LEMMA BuiltMeansComplete == FileInv /\ BuiltInv => DoneMeansComplete
<1> SUFFICES ASSUME FileInv, BuiltInv, \A c \in Children : pc[c] = "done"
             PROVE  Written = Wanted
  BY DEF DoneMeansComplete
<1>1. TypeOK /\ RunInv /\ OutInv BY DEF FileInv
<1>2. job.parallel \in Nat \ {0} /\ job.parallel <= MinSplit /\ Children = 1 .. job.parallel
  BY <1>1, JobFacts DEF TypeOK
<1>3. ASSUME NEW o \in out PROVE <<o.table, o.row>> \in Wanted
  <2>1. PlaceOf(o) /\ o.table \in job.tables \cap Visited BY <1>1 DEF OutInv, InPlace, BuiltInv, AskedFor
  <2>2. o.child \in Children /\ o.table \in Tables /\ o.row \in Nat \ {0} BY <1>1 DEF TypeOK
  <2>3. RowCount[o.table] \in Nat BY <2>2, TablesAssumption DEF TablesAssumption
  <2>4. \/ Chunk(o.table, o.child).count = 0
        \/ Chunk(o.table, o.child).first + Chunk(o.table, o.child).count <= RowCount[o.table] + 1
    BY <1>2, <2>2, <2>3, ShareEnds DEF Chunk
  <2>5. Chunk(o.table, o.child).first \in Nat /\ Chunk(o.table, o.child).count \in Nat
    BY <1>1, <2>2, ChunkType
  <2>6. o.row \in 1 .. RowCount[o.table] BY <2>1, <2>2, <2>3, <2>4, <2>5 DEF PlaceOf
  <2>7. QED BY <2>1, <2>6 DEF Wanted
<1>4. ASSUME NEW t \in job.tables \cap Visited, NEW r \in 1 .. RowCount[t]
      PROVE  <<t, r>> \in Written
  <2>1. PICK k \in DOMAIN Traversal : Traversal[k] = t BY DEF Visited
  <2>2. k \in Ahead(0)
    <3>1. t \notin Passed /\ t \in job.tables BY DEF Visited
    <3>2. k \in Nat \ {0} BY PositionsAreNumbers
    <3>3. k > 0 BY <3>2
    <3>4. QED BY <2>1, <3>1, <3>3 DEF Ahead
  <2>3. t \in Tables /\ RowCount[t] \in Nat
    <3>1. t \in Tables BY <2>1, <2>2, AheadIsThere
    <3>2. QED BY <3>1, TablesAssumption DEF TablesAssumption
  <2>4. PICK c \in Children : /\ r >= Chunk(t, c).first
                              /\ r < Chunk(t, c).first + Chunk(t, c).count
    BY <1>2, <2>3, SharesCover DEF Chunk
  <2>5. Whole(c, t) BY <2>1, <2>2 DEF BuiltInv, BuiltOf
  <2>6. r \in Nat BY <2>3
  <2>7. PICK o \in out : o.table = t /\ o.row = r BY <2>4, <2>5, <2>6 DEF Whole, Holds
  <2>8. QED BY <2>7 DEF Written
<1>5. QED BY <1>3, <1>4 DEF Written, Wanted

(* DoneMeansComplete: when every process has ended well the output files hold *)
(* every row of the tables that were asked for, and no other: the shares of   *)
(* split_work leave no row out, and a table begun again is written from its   *)
(* first row on.                                                              *)
THEOREM DoneIsComplete == Spec => []DoneMeansComplete
<1>1. FileInv /\ BuiltInv /\ [Next]_vars => BuiltInv'
  <2>1. SUFFICES ASSUME FileInv, BuiltInv, [Next]_vars PROVE BuiltInv' OBVIOUS
  <2>2. ASSUME NEW c \in Children, Act(c) PROVE BuiltInv' BY <2>1, <2>2, BuiltInvStep
  <2>3. QED BY <2>1, <2>2, NextCases, StutterBuiltInv
<1>2. QED BY <1>1, InitFileInv, FileInvInductive, InitBuiltInv, BuiltMeansComplete, PTL DEF Spec

=============================================================================
