---------------------------- MODULE DsdgenOptions ---------------------------
(***************************************************************************)
(* The command line of dsdgen: its options and parameter files             *)
(* (r_params.c), and the tables that main then builds (driver.c).  A use   *)
(* of an option is what somebody typed, in any case or abbreviated, with   *)
(* the value behind it; a use without a name is a stray word.              *)
(***************************************************************************)
EXTENDS DsdgenTdefs, SequencesExt, Integers, TLC

CONSTANTS
    CommandLines,   \* sequences of uses: records of a name and a value
    ParameterFiles, \* by name, the lines of the parameter files: a name, a
                    \* value, and what the buffer holds behind a bare name
    Abbreviations,  \* by word typed, the options whose names begin with it
    Numbers         \* what atoi makes of a word; 0 of any other

VARIABLES
    cUses,   \* the command line
    cAt,     \* option_num
    cStep,   \* res: how far the last option moves it
    cfg,     \* params, the options with OPT_SET, the two cached flags, and what
             \* dsdgen is doing
    cTable,  \* tabid, the number of the table asked for, or -1
    cNext,   \* the number of the table main comes to next
    cBuilt   \* the tables whose builder main has called
optionVars == <<cUses, cAt, cStep, cfg, cTable, cNext, cBuilt>>

NoWord == ""

(***************************************************************************)
(* params.h                                                                *)
(***************************************************************************)
FlagOptions == {"FORCE", "QUIET", "TERMINATE", "VERBOSE", "CHKSEEDS", "RELEASE", "FILTER",
                "VALIDATE", "_CHILD_ONLY"}
dflt == [ABREVIATION |-> NoWord, DELIMITER |-> "|", DIR |-> ".", DISTRIBUTIONS |-> "tpcds.idx",
         PARAMS |-> NoWord, PROG |-> "dsdgen", SUFFIX |-> ".dat", TABLE |-> "ALL",
         VSUFFIX |-> ".vld"]
        @@ [HELP |-> "0", SCALE |-> "1", UPDATE |-> NoWord, _SCALE_INDEX |-> "1",
            PARALLEL |-> NoWord, CHILD |-> "1", VCOUNT |-> "50", RNGSEED |-> "19620718"]
        @@ [o \in FlagOptions |-> IF o = "TERMINATE" THEN "Y" ELSE "N"]
IntOptions == {"HELP", "SCALE", "UPDATE", "_SCALE_INDEX", "PARALLEL", "CHILD", "VCOUNT", "RNGSEED"}
Options == DOMAIN dflt

(***************************************************************************)
(* r_params.c                                                              *)
(***************************************************************************)
NoOption == "none"

\* The only option that begins with the word.
fnd_param(word) ==
    LET found == IF word \in Options THEN {word} ELSE Abbreviations[word]
    IN  IF Cardinality(found) = 1 THEN CHOOSE o \in found : TRUE ELSE NoOption

atoi(word) == IF word \in DOMAIN Numbers THEN Numbers[word] ELSE 0

init_params == [params |-> dflt, set |-> {"PROG"}, filter |-> FALSE, child |-> FALSE,
                doing |-> "options"]

\* The two flags that are cached are cached under their whole names only.
put_flag(c, name, on) ==
    [c EXCEPT !.params[fnd_param(name)] = IF on THEN "Y" ELSE "N",
              !.filter = IF name = "FILTER" THEN on ELSE @,
              !.child = IF name = "_CHILD_ONLY" THEN on ELSE @]
set_flg(c, name) == put_flag(c, name, TRUE)
clr_flg(c, name) == put_flag(c, name, FALSE)

put_value(c, name, value) ==
    [c EXCEPT !.params[fnd_param(name)] = value, !.set = @ \cup {fnd_param(name)}]
set_int(c, name, value) == put_value(c, name, value)
set_str(c, name, value) == put_value(c, name, value)

is_set(c, o) ==
    IF o \in FlagOptions THEN c.params[o] = "Y" ELSE o \in c.set \/ dflt[o] # NoWord
get_int(c, o) == atoi(c.params[o])
get_str(c, o) == c.params[o]

\* usage and printReleaseInfo end the process.
usage(c) == [c EXCEPT !.doing = "usage"]
printReleaseInfo(c) == [c EXCEPT !.doing = "release"]

\* The number of digits of the scale, by which the distributions are looked up.
SetScaleIndex(c, value) ==
    LET scale == IF atoi(value) = 0 THEN 1 ELSE atoi(value)
        digits == CHOOSE n \in 1..9 : 10 ^ (n - 1) <= scale /\ (n = 9 \/ scale < 10 ^ n)
    IN  set_int(c, "_SCALE_INDEX", ToString(digits))

\* An option by itself; a value that is missing is dereferenced. A flag that
\* is followed by another option has no value.
set_plain(c, name, missing, option, value) ==
    LET o == fnd_param(name)
        set(d) == [d EXCEPT !.set = @ \cup {o}]
    IN  IF o \in FlagOptions
          THEN IF ~missing /\ ~option /\ value # "Y" THEN set(clr_flg(c, name))
               ELSE IF o = "RELEASE" THEN printReleaseInfo(c)
               ELSE set(set_flg(c, name))
        ELSE IF o = "HELP" THEN usage(c)
        ELSE IF missing THEN [c EXCEPT !.doing = "crash"]
        ELSE IF o = "SCALE"
          THEN IF atoi(value) < 0 THEN usage(c)
               ELSE set_int(SetScaleIndex(c, value), name, ToString(atoi(value)))
        ELSE IF o \in IntOptions THEN set_int(c, name, value) ELSE set_str(c, name, value)

\* Mutant: a file does not ask whether the command line has set the option.
ReadLine_Always(c, line) ==
    LET value == IF line.value # NoWord THEN line.value ELSE line.residue
    IN  IF fnd_param(line.name) = NoOption \/ value = NoWord \/ c.doing # "options" THEN c
        ELSE set_plain(c, line.name, FALSE, FALSE, value)

\* One line of a parameter file: a name nobody knows is skipped, and so is an
\* option that is set already. A name without a value takes what an earlier
\* line has left in the buffer.
ReadLine(c, line) ==
    LET value == IF line.value # NoWord THEN line.value ELSE line.residue
        o == fnd_param(line.name)
    IN  IF o = NoOption \/ o \in c.set \/ value = NoWord \/ c.doing # "options" THEN c
        ELSE set_plain(c, line.name, FALSE, FALSE, value)

\* No parameter file of an instance names another one.
ASSUME FilesAssumption ==
    \A f \in DOMAIN ParameterFiles :
        \A i \in DOMAIN ParameterFiles[f] : fnd_param(ParameterFiles[f][i].name) # "PARAMS"

read_file(c, file) ==
    IF file \in DOMAIN ParameterFiles THEN FoldLeft(ReadLine, c, ParameterFiles[file]) ELSE usage(c)

set_option(c, name, missing, option, value) ==
    LET read == IF fnd_param(name) = "PARAMS" /\ ~missing THEN read_file(c, value) ELSE c
    IN  IF fnd_param(name) = NoOption THEN usage(c)
        ELSE IF read.doing # "options" THEN read
        ELSE set_plain(read, name, missing, option, value)

(***************************************************************************)
(* The command line                                                        *)
(***************************************************************************)
Token(dash, text) == [dash |-> dash, text |-> text]
Words(use) == (IF use.name = NoWord THEN <<>> ELSE <<Token(TRUE, use.name)>>)
              \o (IF use.value = NoWord THEN <<>> ELSE <<Token(FALSE, use.value)>>)
argv == FlattenSeq([i \in DOMAIN cUses |-> Words(cUses[i])])

idleOptions == [init_params EXCEPT !.doing = "idle"]
OptionsIdle ==
    cUses = <<>> /\ cAt = 0 /\ cStep = 0 /\ cfg = idleOptions /\ cTable = 0 /\ cNext = 0 /\ cBuilt = {}
OptionsInit ==
    cUses \in CommandLines /\ cAt = 1 /\ cStep = 1 /\ cfg = init_params /\ cTable = -1 /\ cNext = 0
    /\ cBuilt = {}

\* One turn of process_options. A word that is no option is stepped over as
\* far as the option before it was.
process_options ==
    LET word == argv[cAt]
        missing == cAt = Len(argv)
        next == IF missing THEN Token(FALSE, NoWord) ELSE argv[cAt + 1]
        text == IF next.dash THEN "-" \o next.text ELSE next.text
    IN  /\ cfg.doing = "options" /\ cAt <= Len(argv)
        /\ IF word.dash
             THEN /\ cfg' = set_option(cfg, word.text, missing, next.dash, text)
                  /\ cStep' = IF fnd_param(word.text) \in FlagOptions THEN 1 ELSE 2
             ELSE UNCHANGED <<cfg, cStep>>
        /\ cAt' = cAt + cStep'
        /\ UNCHANGED <<cUses, cTable, cNext, cBuilt>>

validate_options(c) ==
    is_set(c, "PARALLEL") => get_int(c, "PARALLEL") >= 2 /\ get_int(c, "CHILD") >= 1

(***************************************************************************)
(* The tables                                                              *)
(***************************************************************************)
tdefs_Order == w_tdefs_Order \o s_tdefs_Order
tdefs == w_tdefs @@ s_tdefs
S_BRAND == Len(w_tdefs_Order)
tdefOf(number) == tdefs[tdefs_Order[number + 1]]

abreviations == <<
    "cc", "cp", "cr", "cs", "cu", "ca", "cd", "da", "hd", "ib", "inv", "it", "pr", "re", "sm",
    "st", "sr", "ss", "ti", "wa", "wp", "wr", "ws", "web", "dv",
    "s_br", "s_ca", "s_cc", "s_ct", "s_cord", "s_cl", "s_cp", "s_ci", "s_cr", "s_cg", "s_cl",
    "s_co", "s_cu", "s_di", "s_in", "s_it", "s_mg", "s_mn", "s_mk", "s_pr", "s_pm", "s_pu", "s_pl",
    "s_re", "s_st", "s_sp", "s_sr", "s_ct", "s_sc", "s_wh", "s_wo", "s_wl", "s_wp", "s_wi", "s_wr",
    "s_ws", "s_zi">>

\* The numbers of the tables with this name or abreviation.
matches(option, word) ==
    {n \in 0..(Len(tdefs_Order) - 1) :
        word = IF option = "ABREVIATION" THEN abreviations[n + 1] ELSE tdefs_Order[n + 1]}

\* The first exact match. Without one the search goes on behind the last
\* table, whose name is a null pointer.
find_table(option, word) ==
    IF word = "ALL" THEN {0}
    ELSE {n \in matches(option, word) : \A m \in matches(option, word) : n <= m}

\* main, before it comes to the tables.
ChooseTables ==
    LET tname == get_str(cfg, "TABLE")
        option == IF tname # "ALL" THEN "TABLE" ELSE "ABREVIATION"
        found == find_table(option, get_str(cfg, option))
    IN  /\ cfg.doing = "options" /\ cAt > Len(argv)
        /\ cNext' = IF is_set(cfg, "UPDATE") THEN S_BRAND ELSE 0
        /\ IF ~validate_options(cfg)
             THEN cfg' = usage(cfg) /\ UNCHANGED cTable
           ELSE IF tname = "ALL" /\ ~is_set(cfg, "ABREVIATION")
             THEN cfg' = [cfg EXCEPT !.doing = "tables"] /\ UNCHANGED cTable
           ELSE IF found = {}
             THEN cfg' = [cfg EXCEPT !.doing = "crash"] /\ UNCHANGED cTable
           ELSE cfg' = [cfg EXCEPT !.doing = "tables"] /\ \E n \in found : cTable' = n
        /\ UNCHANGED <<cUses, cAt, cStep, cBuilt>>

\* Mutant: a child that is asked for is passed over and nothing is built.
AskedChild_Lost(c, number) == [config |-> c, table |-> number]

\* A child is built by its parent, which the warehouse tables have behind it.
AskedChild(c, number) == [config |-> set_flg(c, "_CHILD_ONLY"), table |-> number + 1]

\* One turn of main's loop over the tables.
BuildTable ==
    LET last == cNext = Len(tdefs_Order) \/ (cNext = S_BRAND /\ ~is_set(cfg, "UPDATE"))
        flags == tdefOf(cNext).flags
        child == AskedChild(cfg, cTable)
    IN  /\ cfg.doing = "tables"
        /\ IF last THEN cfg' = [cfg EXCEPT !.doing = "done"] /\ UNCHANGED <<cTable, cBuilt, cNext>>
           ELSE /\ cNext' = cNext + 1
                /\ IF "NOP" \in flags
                     THEN /\ cfg' = [cfg EXCEPT !.doing = IF cTable = cNext THEN "refused" ELSE @]
                          /\ UNCHANGED <<cTable, cBuilt>>
                   ELSE IF "CHILD" \in flags
                     THEN /\ cfg' = IF cTable = cNext THEN child.config ELSE cfg
                          /\ cTable' = IF cTable = cNext THEN child.table ELSE cTable
                          /\ UNCHANGED cBuilt
                   ELSE /\ cBuilt' = IF cTable \in {-1, cNext} THEN cBuilt \cup {cNext} ELSE cBuilt
                        /\ UNCHANGED <<cfg, cTable>>
        /\ UNCHANGED <<cUses, cAt, cStep>>

\* What the builders of the sales write: to standard output the table that was
\* asked for, into files the returns too.
Written ==
    UNION {LET t == tdefs_Order[n + 1] IN
              IF tdefs[t].child = "none" \/ n >= S_BRAND THEN {t}
              ELSE (IF cfg.filter /\ cfg.child THEN {} ELSE {t})
                   \cup (IF cfg.filter /\ ~cfg.child THEN {} ELSE {tdefs[t].child}) : n \in cBuilt}

(***************************************************************************)
(* Properties                                                              *)
(***************************************************************************)
UsesOf(o) == {i \in DOMAIN cUses : cUses[i].name # NoWord /\ fnd_param(cUses[i].name) = o}
StrayAt(i) == cUses[i].name = NoWord

\* What a value says of an option.
Meant(o, value) ==
    IF o \in FlagOptions THEN IF value \in {NoWord, "Y"} THEN "Y" ELSE "N"
    ELSE IF o = "SCALE" THEN ToString(atoi(value)) ELSE value

\* The lines for an option in the files of the command line, in their order.
FileLines(o) ==
    LET uses == SelectSeq(cUses, LAMBDA u : u.name # NoWord /\ fnd_param(u.name) = "PARAMS")
        lines == FlattenSeq([i \in DOMAIN uses |-> ParameterFiles[uses[i].value]])
    IN  SelectSeq(lines, LAMBDA line : fnd_param(line.name) = o)

\* The last value on the command line, or the first in a file, or the default.
Intended(o) ==
    IF UsesOf(o) # {} THEN Meant(o, cUses[CHOOSE i \in UsesOf(o) : \A j \in UsesOf(o) : j <= i].value)
    ELSE IF FileLines(o) # <<>> THEN Meant(o, FileLines(o)[1].value) ELSE dflt[o]

\* Where it is not clear what was intended: around a stray word, which the flag
\* before it takes for its value and which may hide an option behind it, and for
\* a name without a value in a file.
Unclear(o) ==
    \/ \E i \in UsesOf(o) \cup UsesOf("PARAMS"), j \in DOMAIN cUses :
           StrayAt(j) /\ (j < i \/ (o \in FlagOptions /\ j = i + 1))
    \/ UsesOf(o) = {} /\ \E i \in DOMAIN FileLines(o) : FileLines(o)[i].value = NoWord

\* The tables of the set that is built, and those of them that were asked for.
Implemented == {n \in 0..(Len(tdefs_Order) - 1) :
                   "NOP" \notin tdefOf(n).flags /\ (n >= S_BRAND <=> is_set(cfg, "UPDATE"))}
Asked ==
    IF get_str(cfg, "TABLE") # "ALL" THEN matches("TABLE", get_str(cfg, "TABLE")) \cap Implemented
    ELSE IF is_set(cfg, "ABREVIATION")
      THEN matches("ABREVIATION", get_str(cfg, "ABREVIATION")) \cap Implemented
    ELSE Implemented
Kin(t) == {t} \cup {u \in DOMAIN tdefs : tdefs[u].child = t \/ tdefs[t].child = u}

\* An option has the value that the command line gives it last, or else the
\* first parameter file that gives it one, or else its default; the cached flags
\* and the scale index agree with their options. A table that was asked for is
\* written and nothing else but its returns or its sales, on standard output
\* nothing else at all; so are all tables with builders of their own when none was
\* asked for. Not said of an abbreviated -filter, which is not cached, of the tables
\* of a whole set on standard output, which lack the returns, of -abreviation ALL,
\* which builds the first table only, and of the lines and the returns of the
\* update set, for which main takes the table behind them (r_params.c
\* set_option, read_file, SetScaleIndex; driver.c find_table, main).
CommandIsObeyed ==
    cfg.doing = "done" =>
        /\ \A o \in Options \ {"_SCALE_INDEX", "_CHILD_ONLY"} :
               Unclear(o) \/ cfg.params[o] = Intended(o)
        /\ 10 ^ (get_int(cfg, "_SCALE_INDEX") - 1) <= get_int(cfg, "SCALE") \/ get_int(cfg, "SCALE") = 0
        /\ get_int(cfg, "SCALE") < 10 ^ get_int(cfg, "_SCALE_INDEX")
        /\ (\A i \in UsesOf("FILTER") : cUses[i].name = "FILTER") => (cfg.filter <=> is_set(cfg, "FILTER"))
        /\ LET asked == Asked
               names == {tdefs_Order[n + 1] : n \in asked}
               written == Written
               all == get_str(cfg, "TABLE") = "ALL" /\ get_str(cfg, "ABREVIATION") = NoWord
           IN  \/ (all /\ cfg.filter) \/ get_str(cfg, "ABREVIATION") = "ALL"
               \/ ~all /\ \E n \in asked : n >= S_BRAND /\ "CHILD" \in tdefOf(n).flags
               \/ /\ {t \in names : all => "CHILD" \notin tdefs[t].flags} \subseteq written
                  /\ all \/ written \subseteq UNION {IF cfg.filter THEN {t} ELSE Kin(t) : t \in names}
=============================================================================
