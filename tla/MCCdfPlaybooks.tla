--------------------------- MODULE MCCdfPlaybooks ---------------------------
(***************************************************************************)
(* Two runs at once, and one fault.                                        *)
(***************************************************************************)
EXTENDS CdfPlaybooks

MCPlays == {"p1", "p2"}
=============================================================================
