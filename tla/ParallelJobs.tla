---------------------------- MODULE ParallelJobs -----------------------------
(* hol_wait_parallel_data_services (hol-output.sh): the shell polls its        *)
(* background jobs with "kill -0" and collects the ones that are gone with     *)
(* "wait", in its main loop and while it prints the heartbeat. Jobs end at any *)
(* moment, and the process id of a job that has ended may be given to a        *)
(* foreign process, for which "kill -0" succeeds.                              *)
EXTENDS Integers, Sequences, FiniteSets

CONSTANTS
    N,         \* number of jobs
    Token,     \* the service of each job; "cml,cai" makes two jobs of one service
    MaxReuse   \* bound: process ids reused in a behaviour

ASSUME NAssumption == N \in Nat \ {0}
ASSUME MaxReuseAssumption == MaxReuse \in Nat

Jobs == 1..N

VARIABLES
    status,      \* of each job
    foreign,     \* jobs whose process id belongs to another process now
    reuses,
    pc,          \* "scan" the jobs, "beat" the heartbeat, "test" the loop, "end"
    i,           \* index of the for loop
    reaped,      \* indices of the jobs collected, in order
    failedShort, \* services of the jobs that failed, in order
    result       \* return status

outside == <<status, foreign, reuses>>
vars == <<status, foreign, reuses, pc, i, reaped, failedShort, result>>

TypeOK ==
    /\ status \in [Jobs -> {"running", "ok", "failed"}]
    /\ foreign \subseteq Jobs /\ reuses \in 0..MaxReuse
    /\ pc \in {"scan", "beat", "test", "end"}
    /\ i \in 1..(N + 1)
    /\ reaped \in Seq(Jobs) /\ Len(failedShort) <= Len(reaped)
    /\ result \in {"waiting", "ok", "failed"}

Init ==
    /\ status = [j \in Jobs |-> "running"]
    /\ foreign = {} /\ reuses = 0
    /\ pc = "test" /\ i = 1
    /\ reaped = <<>> /\ failedShort = <<>>
    /\ result = "waiting"

-----------------------------------------------------------------------------
(* The jobs and the operating system.                                        *)

JobEnds(j) ==
    /\ status[j] = "running"
    /\ \E s \in {"ok", "failed"} : status' = [status EXCEPT ![j] = s]
    /\ UNCHANGED <<foreign, reuses, pc, i, reaped, failedShort, result>>

PidReused(j) ==
    /\ status[j] # "running" /\ j \notin foreign
    /\ reuses < MaxReuse /\ reuses' = reuses + 1
    /\ foreign' = foreign \cup {j}
    /\ UNCHANGED <<status, pc, i, reaped, failedShort, result>>

PidFreed(j) ==
    /\ j \in foreign
    /\ foreign' = foreign \ {j}
    /\ UNCHANGED <<status, reuses, pc, i, reaped, failedShort, result>>

\* kill -0 "$pid"
Alive(j) == status[j] = "running" \/ j \in foreign

-----------------------------------------------------------------------------
(* The waiting shell.                                                        *)

\* Variant: the comparison in the loop over reaped never succeeds.
NeverReaped(j) == FALSE

\* Variant: reaped jobs are looked up by their service.
ServiceIsReaped(j) == \E k \in 1..Len(reaped) : Token[reaped[k]] = Token[j]

\* _hol_ds_is_reaped
IsReaped(j) == \E k \in 1..Len(reaped) : reaped[k] = j

\* Variant: the exit status is read after another command has overwritten $?.
ReapWithoutStatus(j) ==
    /\ reaped' = Append(reaped, j)
    /\ UNCHANGED failedShort

\* Variant: the loop that calls it records the failure as well.
ReapNamedTwice(j) ==
    /\ reaped' = Append(reaped, j)
    /\ failedShort' = IF status[j] = "failed"
                         THEN failedShort \o <<Token[j], Token[j]>> ELSE failedShort

\* _hol_ds_reap_finished: "wait" returns the exit status the shell remembers.
Reap(j) ==
    /\ reaped' = Append(reaped, j)
    /\ failedShort' = IF status[j] = "failed" THEN Append(failedShort, Token[j])
                                              ELSE failedShort

\* while ((${#reaped[@]} < ${#_hol_pids[@]}))
EnterLoop ==
    /\ pc = "test" /\ Len(reaped) < N
    /\ pc' = "scan" /\ i' = 1
    /\ UNCHANGED <<outside, reaped, failedShort, result>>

\* One round of a for loop over the jobs, in the scan or in the heartbeat.
Visit ==
    /\ pc \in {"scan", "beat"} /\ i <= N
    /\ IF ~IsReaped(i) /\ ~Alive(i) THEN Reap(i) ELSE UNCHANGED <<reaped, failedShort>>
    /\ i' = i + 1
    /\ UNCHANGED <<outside, pc, result>>

\* After the scan: leave the loop, print the heartbeat when it is due, or sleep.
ScanEnds ==
    /\ pc = "scan" /\ i = N + 1
    /\ \/ pc' = "test" /\ UNCHANGED i
       \/ Len(reaped) < N /\ pc' = "beat" /\ i' = 1
    /\ UNCHANGED <<outside, reaped, failedShort, result>>

BeatEnds ==
    /\ pc = "beat" /\ i = N + 1
    /\ pc' = "test"
    /\ UNCHANGED <<outside, i, reaped, failedShort, result>>

Return ==
    /\ pc = "test" /\ Len(reaped) >= N
    /\ pc' = "end"
    /\ result' = IF Len(failedShort) = 0 THEN "ok" ELSE "failed"
    /\ UNCHANGED <<outside, i, reaped, failedShort>>

Wait == EnterLoop \/ Visit \/ ScanEnds \/ BeatEnds \/ Return

Next == Wait \/ \E j \in Jobs : JobEnds(j) \/ PidReused(j) \/ PidFreed(j)

\* The shell goes on polling, and a foreign process does not live for ever.
Spec ==
    /\ Init /\ [][Next]_vars
    /\ WF_vars(Wait) /\ \A j \in Jobs : WF_vars(PidFreed(j))

-----------------------------------------------------------------------------
(* Properties.                                                               *)

\* No job is collected twice or before it has ended, so the counter of the main
\* loop counts jobs, although two loops collect them.
ReapedOnce ==
    /\ \A k, l \in 1..Len(reaped) : reaped[k] = reaped[l] => k = l
    /\ \A k \in 1..Len(reaped) : status[reaped[k]] # "running"

\* f numbers the failed jobs among those collected, in the order of collection.
NumbersFailures(f) ==
    /\ f \in [1..Len(failedShort) -> 1..Len(reaped)]
    /\ \A k, l \in 1..Len(failedShort) : k < l => f[k] < f[l]
    /\ \A m \in 1..Len(reaped) :
          status[reaped[m]] = "failed" <=> \E k \in 1..Len(failedShort) : f[k] = m

\* The failed services named to the operator are those of the failed jobs, one
\* entry for each, in the order of collection (HOL_FAILED_DATA_SERVICES).
FailuresNamed ==
    \E f \in [1..Len(failedShort) -> 1..Len(reaped)] :
        /\ NumbersFailures(f)
        /\ \A k \in 1..Len(failedShort) : failedShort[k] = Token[reaped[f[k]]]

\* The caller is told the truth about the batch, and only when it has ended.
ResultIsTrue ==
    result # "waiting" =>
        /\ \A j \in Jobs : status[j] # "running"
        /\ result = IF \E j \in Jobs : status[j] = "failed" THEN "failed" ELSE "ok"

\* The polling loop implements the batch as its callers see it, and returns
\* once every job has ended.
Batch == INSTANCE ParallelBatch
ImplementsBatch == Batch!Spec
=============================================================================
