---------------------------- MODULE ParallelBatch ----------------------------
(* What hol_enable_data_services and disable_data_services promise of a batch *)
(* of playbooks started in the background: the caller goes on only when every *)
(* one has ended, and learns whether one of them failed.                      *)
CONSTANT Jobs

VARIABLES
    status,  \* of each job
    result   \* what the caller was told, "waiting" until then

Init ==
    /\ status = [j \in Jobs |-> "running"]
    /\ result = "waiting"

Finish(j) ==
    /\ status[j] = "running"
    /\ \E s \in {"ok", "failed"} : status' = [status EXCEPT ![j] = s]
    /\ UNCHANGED result

Return ==
    /\ result = "waiting"
    /\ \A j \in Jobs : status[j] # "running"
    /\ result' = IF \E j \in Jobs : status[j] = "failed" THEN "failed" ELSE "ok"
    /\ UNCHANGED status

Next == Return \/ \E j \in Jobs : Finish(j)

Spec == Init /\ [][Next]_<<status, result>> /\ WF_<<status, result>>(Return)
=============================================================================
