---------------------------- MODULE DsdgenDraws ----------------------------
(***************************************************************************)
(* How many random numbers the helpers of dsdgen's builders take from a    *)
(* stream.  What is drawn is a bag of streams: a stream is in it as often  *)
(* as a number is drawn from it.  Streams have the names of their columns. *)
(*                                                                         *)
(* Where the number depends on what was drawn (the length of a text, a     *)
(* join that draws only for some rows), "most" says whether the longest or *)
(* the shortest course is meant: m is one of Courses.                      *)
(***************************************************************************)
EXTENDS Integers, Bags

Courses == {"least", "most"}
Between(m, least, most) == IF m = "most" THEN most ELSE least

Times(n, B) == [s \in DOMAIN B |-> n * B[s]]
\* B when the course is the longest one, nothing otherwise.
AtMost(m, B) == Between(m, EmptyBag, B)

(***************************************************************************)
(* genrand.c: one draw from each stream of S.                              *)
(***************************************************************************)
next_random(S) == SetToBag(S)
genrand_integer(S) == next_random(S)
genrand_key(S) == next_random(S)
genrand_decimal(S) == next_random(S)
genrand_date(S) == genrand_integer(S)

\* The length, then max characters whatever the length.
gen_charset(s, max) == genrand_integer({s}) (+) Times(max, genrand_integer({s}))

\* dist.h: a weight is drawn and looked up in the distribution.
pick_distribution(S) == genrand_integer(S)

genrand_email(s) == pick_distribution({s}) (+) genrand_integer({s}) (+) gen_charset(s, 20)
genrand_ipaddr(s) == Times(4, genrand_integer({s}))

\* One draw per entry of the permutation, when it is made.
makePermutation(s, size) == Times(size, genrand_integer({s}))

\* nulls.c: the threshold and the bitmap, whether or not they are used.
nullSetDraws(s) == genrand_integer({s}) (+) genrand_key({s})

(***************************************************************************)
(* build_support.c                                                         *)
(***************************************************************************)
\* The brand follows from the class and the row.
hierarchy_item(level) == IF level \in {"I_CATEGORY", "I_CLASS"} THEN pick_distribution({level})
                         ELSE EmptyBag
embed_string(s) == pick_distribution({s}) (+) genrand_integer({s})

(***************************************************************************)
(* address.c: number, two street names, type, suite, city and county.      *)
(***************************************************************************)
mk_address(s) == Times(2, genrand_integer({s}))                   \* number, suite
                 (+) Times(3, pick_distribution({s}))             \* street
                 (+) genrand_integer({s}) (+) genrand_integer({s}) \* city, county

(***************************************************************************)
(* text.c: a sentence takes a draw for its syntax and one for every word;  *)
(* sentences follow each other until the length that was drawn is reached. *)
(* The longest course is a bound: by the shortest words that fit into each *)
(* syntax of english.dst, no text of max characters takes more draws than  *)
(* a sentence of 9 + (max + 1) \div 2 words does.                          *)
(***************************************************************************)
mk_sentence(s, words) == Times(1 + words, pick_distribution({s}))
gen_text(m, s, max) ==
    genrand_integer({s}) (+) mk_sentence(s, Between(m, 3, 9 + (max + 1) \div 2))

(***************************************************************************)
(* pricing.c: a sale draws quantity, cost, markup, discount, coupon, its   *)
(* use, shipping and tax; a return draws shipping, cash, credit and fee; a *)
(* return of the update set is no case of it and draws nothing.            *)
(***************************************************************************)
set_pricing(s) ==
    CASE s \in {"SS_PRICING", "CS_PRICING", "WS_PRICING",
                "S_PLINE_PRICING", "S_CLIN_PRICING", "S_WLIN_PRICING"} ->
           Times(2, genrand_integer({s})) (+) Times(6, genrand_decimal({s}))
      [] s \in {"CR_PRICING", "SR_PRICING", "WR_PRICING"} ->
           Times(2, genrand_integer({s})) (+) Times(2, genrand_decimal({s}))
      [] OTHER -> EmptyBag

(***************************************************************************)
(* join.c and scd.c: a foreign key from column s to a table.               *)
(***************************************************************************)
\* The web site and web page dates are computed; only the creation date of
\* a page whose site is replaced is drawn.
web_join(m, s) == IF s = "WP_CREATION_DATE_SK" THEN AtMost(m, genrand_integer({s})) ELSE EmptyBag

\* A day of the calendar for a sale, a lag behind the sale for a return.
date_join(m, s) ==
    CASE s \in {"CR_RETURNED_DATE_SK", "SR_RETURNED_DATE_SK", "WR_RETURNED_DATE_SK"} ->
           genrand_integer({s})
      [] s \in {"WP_CREATION_DATE_SK", "WEB_OPEN_DATE", "WEB_CLOSE_DATE"} -> web_join(m, s)
      [] OTHER -> pick_distribution({s})

time_join(s) == pick_distribution({s}) (+) genrand_integer({s})
cp_join(s) == pick_distribution({s}) (+) genrand_integer({s})
scd_joinDraws(s) == genrand_key({s})

HistoryKeeping == {"CALL_CENTER", "ITEM", "STORE", "WEB_PAGE", "WEB_SITE"}  \* FL_TYPE_2

mk_join(m, s, to) ==
    CASE to = "CATALOG_PAGE" -> cp_join(s)
      [] to = "DATE" -> genrand_integer({s}) (+) date_join(m, s)
      [] to = "TIME" -> time_join(s)
      [] to \in HistoryKeeping -> scd_joinDraws(s)
      [] OTHER -> genrand_key({s})
=============================================================================
