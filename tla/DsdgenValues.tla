---------------------------- MODULE DsdgenValues ----------------------------
(***************************************************************************)
(* What dsdgen puts into the rows, one part at a time: the rows of         *)
(* date_dim, the revisions of the history tables, the dates of the orders, *)
(* those of an update set, the printed lines, the distributions that all   *)
(* of them draw from, the command line that says what is built, the rows   *)
(* built again to be validated, and the prices.  The parts share their     *)
(* tables and no state: a behaviour is one of one part, the others idle.   *)
(***************************************************************************)
EXTENDS DsdgenDateTable, DsdgenDimension, DsdgenOrderDates, DsdgenUpdateSet,
        DsdgenPrinting, Distcomp, DsdgenOptions, DsdgenValidation, DsdgenPricing

vars == <<dateVars, historyVars, orderVars, updateVars, printVars, distVars, optionVars,
          validationVars, pricingVars>>

Parts == {"dates", "history", "orders", "update", "lines", "compile", "options", "validation",
          "pricing"}
Init ==
    \E part \in Parts :
        /\ IF part = "dates" THEN DateInit ELSE DateIdle
        /\ IF part = "history" THEN DimensionInit ELSE DimensionIdle
        /\ IF part = "orders" THEN OrderInit ELSE OrderIdle
        /\ IF part = "update" THEN UpdateInit ELSE UpdateIdle
        /\ IF part = "lines" THEN PrintInit ELSE PrintIdle
        /\ IF part = "compile" THEN DistInit ELSE DistIdle
        /\ IF part = "options" THEN OptionsInit ELSE OptionsIdle
        /\ IF part = "validation" THEN ValidationInit ELSE ValidationIdle
        /\ IF part = "pricing" THEN PricingInit ELSE PricingIdle

Dates ==
    /\ BuildDate
    /\ UNCHANGED <<historyVars, orderVars, updateVars, printVars, distVars, optionVars,
                  validationVars, pricingVars>>

History ==
    /\ HistoryNext
    /\ UNCHANGED <<dateVars, orderVars, updateVars, printVars, distVars, optionVars,
                  validationVars, pricingVars>>

Orders ==
    /\ OrderNext
    /\ UNCHANGED <<dateVars, historyVars, updateVars, printVars, distVars, optionVars,
                  validationVars, pricingVars>>

Update ==
    /\ UpdateNext
    /\ UNCHANGED <<dateVars, historyVars, orderVars, printVars, distVars, optionVars,
                  validationVars, pricingVars>>

Lines ==
    /\ \E table \in DOMAIN pStage : BuildRow(table) \/ PrintRow(table)
    /\ UNCHANGED <<dateVars, historyVars, orderVars, updateVars, distVars, optionVars,
                  validationVars, pricingVars>>

Compile ==
    /\ DistNext
    /\ UNCHANGED <<dateVars, historyVars, orderVars, updateVars, printVars, optionVars,
                  validationVars, pricingVars>>

CommandLine ==
    /\ process_options \/ ChooseTables \/ BuildTable
    /\ UNCHANGED <<dateVars, historyVars, orderVars, updateVars, printVars, distVars,
                  validationVars, pricingVars>>

Validation ==
    /\ ValidateRow \/ NextTable
    /\ UNCHANGED <<dateVars, historyVars, orderVars, updateVars, printVars, distVars, optionVars,
                  pricingVars>>

Prices ==
    /\ PricingNext
    /\ UNCHANGED <<dateVars, historyVars, orderVars, updateVars, printVars, distVars, optionVars,
                  validationVars>>

Next ==
    \/ Dates \/ History \/ Orders \/ Update \/ Lines \/ Compile \/ CommandLine
    \/ Validation \/ Prices

Spec == Init /\ [][Next]_vars
=============================================================================
