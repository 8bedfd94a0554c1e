------------------------- MODULE MCEphemeralRunner -------------------------
(* EphemeralRunner with the launcher's timeout of 120 s (24 units). The lags   *)
(* are: usable at once, after some retries, at the last retry, and too late.   *)
EXTENDS EphemeralRunner

MCLags == {0, 3, 26, 40}
=============================================================================
