------------------------- MODULE MCDsdgenParallel -------------------------
(***************************************************************************)
(* The constants have two names because TLC evaluates a definition that a  *)
(* configuration assigns to a constant anew at every use, and one that it  *)
(* refers to only once.                                                    *)
(***************************************************************************)
EXTENDS DsdgenInstance, DsdgenParallel

MCStreams == itsStreams
MCTables == itsTables
MCTraversal == itsTraversal
MCPassed == itsPassed
MCChildOf == itsChildOf
MCTableOf == itsTableOf
MCPerRow == itsPerRow
MCTwin == itsTwin
MCRowCount == itsRowCount
MCMinSplit == itsMinSplit
MCDemand == itsDemand
MCOnce == itsOnce
MCStops == itsStops
MCJobs == itsJobs
MCUpdateJobs == itsUpdateJobs
===========================================================================
