--------------------------- MODULE MCParallelJobs ---------------------------
(* Three jobs, two of them of the same service (ENABLE_DATA_SERVICES=         *)
(* "cdw,cml,cai"), with two reuses of a process id.                           *)
EXTENDS ParallelJobs

MCToken == <<"cdw", "cai", "cai">>
=============================================================================
