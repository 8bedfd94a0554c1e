--------------------------- MODULE DsdgenParallel ---------------------------
(***************************************************************************)
(* dsdgen with -parallel n: n independent processes, each started with its *)
(* own -child number, generate the rows of the same tables.  A process     *)
(* walks the tables (main), takes its share of each (split_work), moves    *)
(* the random number streams of the table to the first row of the share    *)
(* (row_skip), and builds row after row (gen_tbl), topping every stream of *)
(* the table up to its budget at the end of each row (row_stop), so that   *)
(* row r always starts at draw (r - 1) * budget of the stream.             *)
(*                                                                         *)
(* A stream is modelled by the number of draws made from it since its      *)
(* seed: the generator is deterministic, so equal counts are equal data.   *)
(***************************************************************************)
EXTENDS Naturals, Sequences, FiniteSets

CONSTANTS
    Streams,       \* the columns that own a random number stream
    Tables,        \* the tables
    NoTable,       \* the child of a table without one
    Traversal,     \* the tables in the order main visits them
    Passed,        \* those main passes over: FL_NOP and FL_CHILD
    ChildOf,       \* nParam of a parent table
    TableOf,       \* the table of a stream
    PerRow,        \* its draws per row (nUsedPerRow)
    Twin,          \* the stream that one of them duplicates (nDuplicateOf)
    RowCount,      \* get_rowcount
    MinSplit,      \* the row count from which a table is split: 1000000
    Demand,        \* the draws one call of a table's builder may make
    Once,          \* the draws its first call makes besides (permutations)
    Stops,         \* the tables whose row its builder ends itself (row_stop)
    Jobs           \* the command lines: tables, -parallel, -force, -update,
                   \* and kills, the bound on the processes that get killed

ASSUME TablesAssumption ==
    /\ NoTable \notin Tables
    /\ Traversal \in Seq(Tables)
    /\ \A i, j \in DOMAIN Traversal : Traversal[i] = Traversal[j] => i = j
    /\ Passed \subseteq Tables
    /\ ChildOf \in [Tables -> Tables \cup {NoTable}]
    /\ RowCount \in [Tables -> Nat]
    /\ MinSplit \in Nat \ {0}

ASSUME StreamsAssumption ==
    /\ TableOf \in [Streams -> Tables]
    /\ PerRow \in [Streams -> Nat]
    /\ DOMAIN Twin \subseteq Streams
    /\ Demand \in [Tables -> SUBSET [Streams -> Nat]]
    /\ Once \in [Tables -> [Streams -> Nat]]
    /\ Stops \in [Tables -> SUBSET Tables]

\* Nobody asks for more processes than the smallest split table has rows.
ASSUME JobsAssumption ==
    \A j \in Jobs : /\ j.tables \subseteq Tables
                    /\ j.parallel \in 1 .. MinSplit
                    /\ j.force \in BOOLEAN
                    /\ j.update \in BOOLEAN
                    /\ j.kills \in Nat

VARIABLES
    job,         \* the command line every process was given
    pc,          \* what each process is doing
    at,          \* how far it has come in Traversal, or in the delete files
    row,         \* the row it builds next
    left,        \* the rows it still has to build of this table
    drawn,       \* the draws made from each of its streams since the seed
    used,        \* the draws made since the last row_stop (nUsed)
    begun,       \* the tables whose builder it has called (bInit)
    opened,      \* the tables whose output file it has opened (outfile)
    files,       \* the output files there are, by process and table
    deletes,     \* the delete files of the update set, shared by all
    out,         \* the rows the output files hold
    kills        \* the processes killed so far

own  == <<at, row, left, drawn, used, begun, opened>>
disk == <<files, deletes, out>>
vars == <<job, pc, own, disk, kills>>

Children == 1 .. job.parallel

(***************************************************************************)
(* The arithmetic.                                                         *)
(***************************************************************************)
\* Mutants: the rows that do not divide evenly are lost; a share begins one
\* row too early; every share takes one row more.
ShareWithoutRest(rows, n, c) ==
    IF rows < MinSplit THEN [first |-> 1, count |-> IF c > 1 THEN 0 ELSE rows]
    ELSE [first |-> 1 + (c - 1) * (rows \div n), count |-> rows \div n]
ShareFromZero(rows, n, c) ==
    IF rows < MinSplit THEN [first |-> 1, count |-> IF c > 1 THEN 0 ELSE rows]
    ELSE [first |-> (c - 1) * (rows \div n), count |-> rows \div n]
ShareOverlapping(rows, n, c) ==
    IF rows < MinSplit THEN [first |-> 1, count |-> IF c > 1 THEN 0 ELSE rows]
    ELSE [first |-> 1 + (c - 1) * (rows \div n), count |-> rows \div n + 1]

\* split_work: process c of n takes count rows from row first on.
Share(rows, n, c) ==
    LET extra == rows % n
        size  == rows \div n
        least(a, b) == IF a < b THEN a ELSE b
    IN  IF rows < MinSplit
        THEN [first |-> 1, count |-> IF c > 1 THEN 0 ELSE rows]
        ELSE [first |-> 1 + (c - 1) * size + least(c - 1, extra),
              count |-> IF c <= extra THEN size + 1 ELSE size]

\* Mutant: the child of a parent table is not moved.
RepositionedAlone(t, s) == TableOf[s] = t \/ \E i \in DOMAIN Twin : Twin[i] = s

\* main calls row_skip for the table and its direct child; the streams that
\* another one duplicates are moved with every table.
Repositioned(t, s) == TableOf[s] \in {t, ChildOf[t]} \/ \E i \in DOMAIN Twin : Twin[i] = s

\* row_stop tops up the streams of the table, its child and its grandchild;
\* a builder may have called it for another table before.
Descent(t) == IF ChildOf[t] \in Tables
              THEN {t, ChildOf[t], ChildOf[ChildOf[t]]} \ {NoTable} ELSE {t}
Stopped(t) == Descent(t) \cup Stops[t]

\* Mutant: a row that uses less than its budget is not topped up.
TopUpNothing(s, u) == 0

\* checkSeeds draws until the budget of the row is used up.
TopUp(s, u) == IF u < PerRow[s] THEN PerRow[s] - u ELSE 0

\* A row built with draws d: where the streams stand after its row_stop.
AfterRow(t, dr, us, d) ==
    [s \in Streams |-> dr[s] + d[s] + (IF TableOf[s] \in Stopped(t)
                                       THEN TopUp(s, us[s] + d[s]) ELSE 0)]
UsedAfterRow(t, us, d) ==
    [s \in Streams |-> IF TableOf[s] \in Stopped(t) THEN 0 ELSE us[s] + d[s]]

(***************************************************************************)
(* The streams a row is made from, and those that do not stand where a     *)
(* serial run that takes exactly the budget for every row has them.        *)
(***************************************************************************)
DrawnBy(t) == {s \in Streams : Once[t][s] > 0 \/ \E d \in Demand[t] : d[s] > 0}
Drift(t, r, dr) == {s \in DrawnBy(t) : dr[s] # (r - 1) * PerRow[s]}

(***************************************************************************)
(* Stream s stands, when any process builds a row of table t, where the    *)
(* serial run has it: it belongs to t or its direct child, t never draws   *)
(* more than its budget, nor anything from it for the first row only, and  *)
(* no other table that main visits draws from it or ends its row.          *)
(***************************************************************************)
Reproducible(t, s) ==
    /\ t \notin Passed
    /\ TableOf[s] \in {t, ChildOf[t]}
    /\ Once[t][s] = 0
    /\ \A d \in Demand[t] : d[s] <= PerRow[s]
    /\ \A u \in Tables \ ({t} \cup Passed) : /\ TableOf[s] \notin Stopped(u)
                                            /\ Once[u][s] = 0
                                            /\ \A d \in Demand[u] : d[s] = 0

(***************************************************************************)
(* The processes.                                                          *)
(***************************************************************************)
Init ==
    /\ job \in Jobs
    /\ pc = [c \in Children |-> "idle"]
    /\ at = [c \in Children |-> 0]
    /\ row = [c \in Children |-> 1]
    /\ left = [c \in Children |-> 0]
    /\ drawn = [c \in Children |-> [s \in Streams |-> 0]]
    /\ used = [c \in Children |-> [s \in Streams |-> 0]]
    /\ begun = [c \in Children |-> {}]
    /\ opened = [c \in Children |-> {}]
    /\ files = {}
    /\ deletes = {}
    /\ out = {}
    /\ kills = 0

DeleteFiles == <<"delete", "inventory_delete">>

\* The process starts with fresh memory: init_rand seeds every stream.
Launch(c) ==
    /\ pc[c] = "idle"
    /\ pc' = [pc EXCEPT ![c] = IF job.update THEN "access" ELSE "tables"]
    /\ at' = [at EXCEPT ![c] = IF job.update THEN 1 ELSE 0]
    /\ row' = [row EXCEPT ![c] = 1]
    /\ left' = [left EXCEPT ![c] = 0]
    /\ drawn' = [drawn EXCEPT ![c] = [s \in Streams |-> 0]]
    /\ used' = [used EXCEPT ![c] = [s \in Streams |-> 0]]
    /\ begun' = [begun EXCEPT ![c] = {}]
    /\ opened' = [opened EXCEPT ![c] = {}]
    /\ UNCHANGED <<job, disk, kills>>

\* openDeleteFile, first half: the path does not name the child, and a file
\* that is there ends the process unless -force is given.
CheckDeleteFile(c) ==
    /\ pc[c] = "access"
    /\ pc' = [pc EXCEPT ![c] = IF DeleteFiles[at[c]] \in deletes /\ ~job.force
                               THEN "failed" ELSE "fopen"]
    /\ UNCHANGED <<job, own, disk, kills>>

\* Second half: the file is created or emptied, and the dates written.
OpenDeleteFile(c) ==
    /\ pc[c] = "fopen"
    /\ deletes' = deletes \cup {DeleteFiles[at[c]]}
    /\ IF at[c] < Len(DeleteFiles)
       THEN /\ pc' = [pc EXCEPT ![c] = "access"]
            /\ at' = [at EXCEPT ![c] = @ + 1]
       ELSE /\ pc' = [pc EXCEPT ![c] = "tables"]
            /\ at' = [at EXCEPT ![c] = 0]
    /\ UNCHANGED <<job, row, left, drawn, used, begun, opened, files, out, kills>>

\* The tables main will build after position i.
Ahead(i) == {k \in DOMAIN Traversal : /\ k > i
                                      /\ Traversal[k] \in job.tables
                                      /\ Traversal[k] \notin Passed}

\* main takes the next table: split_work, then row_skip if there are rows to
\* skip.  A share of no rows ends with gen_tbl's loop never entered.
BeginTable(c) ==
    /\ pc[c] = "tables"
    /\ \E k \in Ahead(at[c]) :
         /\ \A m \in Ahead(at[c]) : k <= m
         /\ LET t == Traversal[k]
                share == Share(RowCount[t], job.parallel, c)
                skip == share.first - 1
                moved(s) == skip # 0 /\ Repositioned(t, s)
            IN  /\ row' = [row EXCEPT ![c] = share.first]
                /\ left' = [left EXCEPT ![c] = share.count]
                /\ pc' = [pc EXCEPT ![c] = IF share.count = 0 THEN "tables" ELSE "rows"]
                /\ drawn' = [drawn EXCEPT ![c] =
                     [s \in Streams |-> IF moved(s) THEN skip * PerRow[s] ELSE @[s]]]
                /\ used' = [used EXCEPT ![c] =
                     [s \in Streams |-> IF moved(s) THEN 0 ELSE @[s]]]
         /\ at' = [at EXCEPT ![c] = k]
    /\ UNCHANGED <<job, begun, opened, disk, kills>>

Building(c) == Traversal[at[c]]

\* Mutants: the check for an old file is dropped; -force is not seen; the
\* process forgets that it opened the file itself.
RefusedNever(c) == FALSE
RefusedDespiteForce(c) == LET t == Building(c)
                          IN  t \notin opened[c] /\ <<c, t>> \in files
RefusedForOwn(c) == <<c, Building(c)>> \in files /\ ~job.force

\* print_start opens the file of the table at its first row, and refuses one
\* that is there already unless -force is given.
Refused(c) == LET t == Building(c)
              IN  t \notin opened[c] /\ <<c, t>> \in files /\ ~job.force

RefuseFile(c) ==
    /\ pc[c] = "rows"
    /\ Refused(c)
    /\ pc' = [pc EXCEPT ![c] = "failed"]
    /\ UNCHANGED <<job, own, disk, kills>>

\* One turn of gen_tbl's loop: the builder, the loader and row_stop.
BuildRow(c) ==
    /\ pc[c] = "rows"
    /\ ~Refused(c)
    /\ LET t    == Building(c)
           kept == IF t \in opened[c] THEN out
                   ELSE {o \in out : o.child # c \/ o.table # t}
       IN  /\ \E d \in Demand[t] :
                LET all == [s \in Streams |-> d[s] + (IF t \in begun[c] THEN 0 ELSE Once[t][s])]
                IN  /\ drawn' = [drawn EXCEPT ![c] = AfterRow(t, @, used[c], all)]
                    /\ used' = [used EXCEPT ![c] = UsedAfterRow(t, @, all)]
           /\ out' = kept \cup {[child |-> c, table |-> t, row |-> row[c],
                                 drift |-> Drift(t, row[c], drawn[c])]}
           /\ begun' = [begun EXCEPT ![c] = @ \cup {t}]
           /\ opened' = [opened EXCEPT ![c] = @ \cup {t}]
           /\ files' = files \cup {<<c, t>>}
    /\ row' = [row EXCEPT ![c] = @ + 1]
    /\ left' = [left EXCEPT ![c] = @ - 1]
    /\ pc' = [pc EXCEPT ![c] = IF left[c] = 1 THEN "tables" ELSE "rows"]
    /\ UNCHANGED <<job, at, deletes, kills>>

\* main comes to the end of the tables.
Finish(c) ==
    /\ pc[c] = "tables"
    /\ Ahead(at[c]) = {}
    /\ pc' = [pc EXCEPT ![c] = "done"]
    /\ UNCHANGED <<job, own, disk, kills>>

\* A process is killed (a lost node, a map task over its time).
Kill(c) ==
    /\ pc[c] \in {"access", "fopen", "tables", "rows"}
    /\ kills < job.kills
    /\ kills' = kills + 1
    /\ pc' = [pc EXCEPT ![c] = "killed"]
    /\ UNCHANGED <<job, own, disk>>

\* Whoever started it starts it again, with the same command line.
StartAgain(c) ==
    /\ pc[c] = "killed"
    /\ pc' = [pc EXCEPT ![c] = "idle"]
    /\ UNCHANGED <<job, own, disk, kills>>

Step(c) == \/ Launch(c) \/ CheckDeleteFile(c) \/ OpenDeleteFile(c) \/ BeginTable(c)
           \/ RefuseFile(c) \/ BuildRow(c) \/ Finish(c) \/ StartAgain(c)

Ended(c) == pc[c] \in {"done", "failed"}

Done == (\A c \in Children : Ended(c)) /\ UNCHANGED vars

Next == (\E c \in Children : Step(c) \/ Kill(c)) \/ Done

\* The operating system keeps running some process that can go on, and a killed
\* one is started again by the job that runs it.  The work is finite, so no
\* fairness between the processes is needed.
Spec == Init /\ [][Next]_vars /\ WF_vars(\E c \in Children : Step(c))

(***************************************************************************)
(* Properties.                                                             *)
(***************************************************************************)
States == {"idle", "access", "fopen", "tables", "rows", "done", "failed", "killed"}

\* The variables have their types.
TypeOK ==
    /\ job \in Jobs
    /\ pc \in [Children -> States]
    /\ at \in [Children -> Nat]
    /\ row \in [Children -> Nat \ {0}]
    /\ left \in [Children -> Nat]
    /\ drawn \in [Children -> [Streams -> Nat]]
    /\ used \in [Children -> [Streams -> Nat]]
    /\ begun \in [Children -> SUBSET Tables]
    /\ opened \in [Children -> SUBSET Tables]
    /\ files \subseteq Children \X Tables
    /\ deletes \subseteq {"delete", "inventory_delete"}
    /\ out \subseteq [child : Children, table : Tables, row : Nat \ {0}, drift : SUBSET Streams]
    /\ kills \in Nat

\* No row is in the output files twice, whoever was killed and started again
\* in between: split_work gives disjoint shares, and a file that is written
\* again is emptied first.
RowsOnce == \A o, p \in out : o.table = p.table /\ o.row = p.row => o = p

\* Every row is made from the numbers that a serial run makes it from, in
\* every stream that does not run over its budget: row_skip and row_stop
\* agree about where a row begins.
RowsAreSerial == \A o \in out : \A s \in o.drift : ~Reproducible(o.table, s)

Visited == {Traversal[k] : k \in DOMAIN Traversal} \ Passed
Wanted == UNION {{t} \X (1 .. RowCount[t]) : t \in job.tables \cap Visited}
Written == {<<o.table, o.row>> : o \in out}

\* When every process has ended well, every row of the tables that were asked
\* for is in some output file, and nothing else.
DoneMeansComplete == (\A c \in Children : pc[c] = "done") => Written = Wanted

\* The check for existing files never stops a run that finds none: without a
\* kill, processes of one run do not take each other's files for old ones.
\* It holds for the base tables only: the delete files of an update set carry
\* no child number, and the second process that comes to them is refused.
CleanRunSucceeds == \A c \in Children : pc[c] = "failed" => kills > 0 \/ job.update

\* Without -force nothing that is in an output file is lost.
KeepsFiles == [][job.force \/ out \subseteq out']_vars

\* With -force and restarts every row is written in the end, and stays.
EveryRowIsWritten == job.force => <>[](Written = Wanted)

(***************************************************************************)
(* The processes implement one serial run.                                 *)
(***************************************************************************)
RowsOf == UNION {{t} \X (1 .. RowCount[t]) : t \in Tables}

\* A row is wrong if it was made from other numbers, or is there twice.
Wrong(o) == \/ \E s \in o.drift : Reproducible(o.table, s)
            \/ \E p \in out \ {o} : p.table = o.table /\ p.row = o.row

Data(x) == IF x \notin Written THEN "absent"
           ELSE IF \E o \in out : <<o.table, o.row>> = x /\ Wrong(o) THEN "wrong" ELSE "serial"

Serial == INSTANCE DsdgenSerial WITH Rows <- RowsOf, data <- [x \in RowsOf |-> Data(x)]

\* Every row is written once and with the data of the serial run.
ImplementsSerial == Serial!Spec

\* A serial run of table t has used up exactly the budgets of stream s when it
\* begins a row: s is topped up after every row, and never runs over.
Steady(t, s) == /\ TableOf[s] \in Stopped(t)
                /\ Once[t][s] = 0
                /\ \A d \in Demand[t] : d[s] <= PerRow[s]

\* What -parallel is documented to do: the chunks of a table together are its
\* serial file, in the columns of its children and grandchildren too.
ChunksMatchSerial == \A o \in out : \A s \in o.drift : ~Steady(o.table, s)
=============================================================================
