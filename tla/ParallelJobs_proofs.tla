------------------------- MODULE ParallelJobs_proofs -------------------------
(* Proofs about the polling wait of hol_wait_parallel_data_services, for any  *)
(* number of jobs, any services and any number of reused process ids: it      *)
(* collects every job once, names the failed ones in their order, tells its   *)
(* caller the truth, and each of its steps is a step of the batch the caller  *)
(* sees, or none.                                                             *)
EXTENDS ParallelJobs, FiniteSetTheorems, SequenceTheorems, TLAPS

-----------------------------------------------------------------------------
(* The inductive invariant.                                                  *)

Services == {Token[j] : j \in Jobs}

\* TypeOK, with failedShort a sequence of services.
TypeInv == TypeOK /\ failedShort \in Seq(Services)

\* "kill -0" fails only for jobs that have ended: a process id that was reused
\* is the one of an ended job.
ForeignEnded == \A j \in foreign : status[j] # "running"

\* A failure was recorded exactly when a failed job was collected.
FailureRecorded ==
    Len(failedShort) # 0 <=> \E k \in 1..Len(reaped) : status[reaped[k]] = "failed"

\* The main loop has been left with N entries collected.
ReturnedLate ==
    result # "waiting" =>
        /\ pc = "end" /\ Len(reaped) >= N
        /\ result = IF Len(failedShort) = 0 THEN "ok" ELSE "failed"

IInv == TypeInv /\ ForeignEnded /\ ReapedOnce /\ FailureRecorded /\ ReturnedLate

-----------------------------------------------------------------------------
(* What Reap does to the two sequences.                                      *)

LEMMA AppendFacts ==
    ASSUME NEW S, NEW s \in Seq(S), NEW e \in S
    PROVE  /\ Append(s, e) \in Seq(S)
           /\ Len(Append(s, e)) = Len(s) + 1
           /\ \A k \in 1..Len(s) : Append(s, e)[k] = s[k]
           /\ Append(s, e)[Len(s) + 1] = e
    OBVIOUS

\* The jobs collected when the main loop ends are all the jobs: N entries
\* without repetition.
LEMMA AllReaped ==
    ASSUME TypeInv, ReapedOnce, Len(reaped) >= N
    PROVE  \A j \in Jobs : \E k \in 1..Len(reaped) : reaped[k] = j
<1> DEFINE D == 1..Len(reaped)
<1>1. Len(reaped) \in Nat /\ reaped \in [D -> Jobs]
  BY LenProperties DEF TypeInv, TypeOK
<1>2. reaped \in Injection(D, Jobs)
  BY <1>1 DEF ReapedOnce, Injection, IsInjective
<1>3. IsFiniteSet(Jobs) /\ Cardinality(Jobs) = N
  BY FS_Interval, NAssumption DEF Jobs
<1>4. Cardinality(D) = Len(reaped)
  BY <1>1, FS_Interval
<1>5. Cardinality(D) <= Cardinality(Jobs)
  BY <1>2, <1>3, FS_Injection
<1>6. Cardinality(D) = Cardinality(Jobs)
  BY <1>1, <1>3, <1>4, <1>5, NAssumption
<1>7. reaped \in Surjection(D, Jobs)
  BY <1>2, <1>3, <1>6, FS_Injection
<1> QED
  BY <1>7 DEF Surjection

-----------------------------------------------------------------------------
LEMMA InitIInv == Init => IInv
<1> SUFFICES ASSUME Init PROVE IInv
  OBVIOUS
<1> USE NAssumption, MaxReuseAssumption DEF Init, Jobs
<1>1. TypeInv
  BY EmptySeq DEF TypeInv, TypeOK
<1>2. ForeignEnded /\ ReapedOnce /\ ReturnedLate
  BY DEF ForeignEnded, ReapedOnce, ReturnedLate
<1>3. FailureRecorded
  BY DEF FailureRecorded
<1> QED
  BY <1>1, <1>2, <1>3 DEF IInv

\* A job that is not alive has ended.
LEMMA NotAliveEnded ==
    ASSUME IInv, NEW j \in Jobs, ~Alive(j)
    PROVE  status[j] \in {"ok", "failed"}
  BY DEF IInv, TypeInv, TypeOK, Alive

\* Collecting one more job keeps the two sequences right.
LEMMA ReapKeeps ==
    ASSUME IInv, NEW j \in Jobs, ~IsReaped(j), ~Alive(j), Reap(j),
           UNCHANGED <<outside, pc, result>>, i' \in 1..(N + 1), pc # "end"
    PROVE  IInv'
<1>1. reaped \in Seq(Jobs) /\ failedShort \in Seq(Services) /\ Token[j] \in Services
  BY DEF IInv, TypeInv, TypeOK, Services
<1>2. Len(reaped) \in Nat /\ Len(failedShort) \in Nat
  BY <1>1, LenProperties
<1>3. status[j] \in {"ok", "failed"}
  BY NotAliveEnded
<1>4. /\ reaped' \in Seq(Jobs)
      /\ Len(reaped') = Len(reaped) + 1
      /\ \A k \in 1..Len(reaped) : reaped'[k] = reaped[k]
      /\ reaped'[Len(reaped) + 1] = j
  BY <1>1, AppendFacts DEF Reap
<1>5. /\ failedShort' \in Seq(Services)
      /\ status[j] = "failed" => Len(failedShort') = Len(failedShort) + 1
      /\ status[j] # "failed" => failedShort' = failedShort
  BY <1>1, AppendFacts DEF Reap
<1>6. status' = status /\ foreign' = foreign /\ reuses' = reuses /\ pc' = pc /\ result' = result
  BY DEF outside
<1>7. TypeInv'
  BY <1>2, <1>4, <1>5, <1>6 DEF IInv, TypeInv, TypeOK, Services
<1>8. ForeignEnded'
  BY <1>6 DEF IInv, ForeignEnded
<1>9. ReapedOnce'
  <2>1. \A k \in 1..Len(reaped) : reaped[k] # j
    BY DEF IsReaped
  <2>2. \A k \in 1..Len(reaped') : k \in 1..Len(reaped) \/ k = Len(reaped) + 1
    BY <1>2, <1>4
  <2>3. ASSUME NEW k \in 1..Len(reaped'), NEW l \in 1..Len(reaped'), reaped'[k] = reaped'[l]
        PROVE  k = l
    BY <2>1, <2>2, <2>3, <1>4 DEF IInv, ReapedOnce
  <2>4. ASSUME NEW k \in 1..Len(reaped') PROVE status'[reaped'[k]] # "running"
    BY <2>2, <1>3, <1>4, <1>6 DEF IInv, ReapedOnce
  <2> QED
    BY <2>3, <2>4 DEF ReapedOnce
<1>10. FailureRecorded'
  <2>1. (\E k \in 1..Len(reaped') : status'[reaped'[k]] = "failed")
           <=> (status[j] = "failed" \/ \E k \in 1..Len(reaped) : status[reaped[k]] = "failed")
    BY <1>2, <1>4, <1>6
  <2> QED
    BY <2>1, <1>2, <1>5 DEF IInv, FailureRecorded
<1>11. ReturnedLate'
  BY <1>6 DEF IInv, ReturnedLate
<1> QED
  BY <1>7, <1>8, <1>9, <1>10, <1>11 DEF IInv

\* Every step keeps the invariant.
LEMMA NextIInv == IInv /\ [Next]_vars => IInv'
<1> SUFFICES ASSUME IInv, [Next]_vars PROVE IInv'
  OBVIOUS
<1> USE NAssumption, MaxReuseAssumption
<1>0. Len(reaped) \in Nat /\ reaped \in [1..Len(reaped) -> Jobs] /\ Len(failedShort) \in Nat
  BY LenProperties DEF IInv, TypeInv, TypeOK
<1>1. ASSUME NEW j \in Jobs, JobEnds(j) PROVE IInv'
  <2>1. status' \in [Jobs -> {"running", "ok", "failed"}]
    BY <1>1 DEF JobEnds, IInv, TypeInv, TypeOK
  <2>2. \A m \in Jobs : status[m] # "running" => status'[m] = status[m]
    BY <1>1 DEF JobEnds, IInv, TypeInv, TypeOK
  <2>3. \A k \in 1..Len(reaped) : status'[reaped[k]] = status[reaped[k]]
    BY <1>0, <2>2 DEF IInv, ReapedOnce
  <2>4. TypeInv'
    BY <1>1, <2>1 DEF JobEnds, IInv, TypeInv, TypeOK, Services
  <2>5. ForeignEnded'
    BY <1>1, <2>2 DEF JobEnds, IInv, TypeInv, TypeOK, ForeignEnded
  <2>6. ReapedOnce'
    BY <1>1, <2>3 DEF JobEnds, IInv, ReapedOnce
  <2>7. FailureRecorded'
    BY <1>1, <2>3 DEF JobEnds, IInv, FailureRecorded
  <2>8. ReturnedLate'
    BY <1>1 DEF JobEnds, IInv, ReturnedLate
  <2> QED
    BY <2>4, <2>5, <2>6, <2>7, <2>8 DEF IInv
<1>2. ASSUME NEW j \in Jobs, PidReused(j) PROVE IInv'
  BY <1>2 DEF PidReused, IInv, TypeInv, TypeOK, ForeignEnded, ReapedOnce,
              FailureRecorded, ReturnedLate, Services
<1>3. ASSUME NEW j \in Jobs, PidFreed(j) PROVE IInv'
  BY <1>3 DEF PidFreed, IInv, TypeInv, TypeOK, ForeignEnded, ReapedOnce,
              FailureRecorded, ReturnedLate, Services
<1>4. CASE EnterLoop
  BY <1>4 DEF EnterLoop, outside, IInv, TypeInv, TypeOK, ForeignEnded, ReapedOnce,
              FailureRecorded, ReturnedLate, Services
<1>5. CASE Visit
  <2>1. i \in Jobs /\ i' \in 1..(N + 1) /\ pc # "end" /\ UNCHANGED <<outside, pc, result>>
    BY <1>5 DEF Visit, IInv, TypeInv, TypeOK, Jobs
  <2>2. CASE ~IsReaped(i) /\ ~Alive(i)
    BY <1>5, <2>1, <2>2, ReapKeeps DEF Visit
  <2>3. CASE IsReaped(i) \/ Alive(i)
    BY <1>5, <2>1, <2>3 DEF Visit, outside, IInv, TypeInv, TypeOK, ForeignEnded, ReapedOnce,
                            FailureRecorded, ReturnedLate, Services
  <2> QED
    BY <2>2, <2>3
<1>6. CASE ScanEnds
  BY <1>6 DEF ScanEnds, outside, IInv, TypeInv, TypeOK, ForeignEnded, ReapedOnce,
              FailureRecorded, ReturnedLate, Services
<1>7. CASE BeatEnds
  BY <1>7 DEF BeatEnds, outside, IInv, TypeInv, TypeOK, ForeignEnded, ReapedOnce,
              FailureRecorded, ReturnedLate, Services
<1>8. CASE Return
  BY <1>0, <1>8 DEF Return, outside, IInv, TypeInv, TypeOK, ForeignEnded, ReapedOnce,
              FailureRecorded, ReturnedLate, Services
<1>9. CASE UNCHANGED vars
  BY <1>9 DEF vars, IInv, TypeInv, TypeOK, ForeignEnded, ReapedOnce,
              FailureRecorded, ReturnedLate, Services
<1> QED
  BY <1>1, <1>2, <1>3, <1>4, <1>5, <1>6, <1>7, <1>8, <1>9 DEF Next, Wait

\* A job that is collected gets the next number if it failed.
LEMMA ReapNames ==
    ASSUME IInv, FailuresNamed, NEW j \in Jobs, ~Alive(j), Reap(j), UNCHANGED outside
    PROVE  FailuresNamed'
<1> DEFINE n == Len(failedShort)
           m == Len(reaped)
<1>1. reaped \in Seq(Jobs) /\ failedShort \in Seq(Services) /\ Token[j] \in Services
  BY DEF IInv, TypeInv, TypeOK, Services
<1>2. m \in Nat /\ n \in Nat
  BY <1>1, LenProperties
<1>3. status' = status
  BY DEF outside
<1>4. /\ Len(reaped') = m + 1
      /\ \A k \in 1..m : reaped'[k] = reaped[k]
      /\ reaped'[m + 1] = j
  BY <1>1, AppendFacts DEF Reap
<1>5. PICK f \in [1..n -> 1..m] :
         /\ NumbersFailures(f)
         /\ \A k \in 1..n : failedShort[k] = Token[reaped[f[k]]]
  BY DEF FailuresNamed
<1>6. CASE status[j] = "failed"
  <2> PICK g : g = [k \in 1..(n + 1) |-> IF k \in 1..n THEN f[k] ELSE m + 1]
    OBVIOUS
  <2>1. /\ Len(failedShort') = n + 1
        /\ \A k \in 1..n : failedShort'[k] = failedShort[k]
        /\ failedShort'[n + 1] = Token[j]
    BY <1>1, <1>6, AppendFacts DEF Reap
  <2>2. \A k \in 1..n : f[k] \in 1..m /\ g[k] = f[k]
    BY <1>2, <1>5
  <2>3. g[n + 1] = m + 1
    BY <1>2
  <2>4. g \in [1..(n + 1) -> 1..(m + 1)]
    BY <1>2, <2>2
  <2>5. \A k \in 1..(n + 1) : k \in 1..n \/ k = n + 1
    BY <1>2
  <2>6. \A k, l \in 1..(n + 1) : k < l => g[k] < g[l]
    BY <1>2, <1>5, <2>2, <2>3, <2>5 DEF NumbersFailures
  <2>7. ASSUME NEW q \in 1..(m + 1)
        PROVE  status[reaped'[q]] = "failed" <=> \E k \in 1..(n + 1) : g[k] = q
    <3>1. CASE q \in 1..m
      <4>1. reaped'[q] = reaped[q]
        BY <1>4, <3>1
      <4>2. (\E k \in 1..(n + 1) : g[k] = q) <=> \E k \in 1..n : f[k] = q
        BY <1>2, <2>2, <2>3, <2>5, <3>1
      <4> QED
        BY <1>5, <3>1, <4>1, <4>2 DEF NumbersFailures
    <3>2. CASE q = m + 1
      BY <1>2, <1>4, <1>6, <2>3, <3>2
    <3> QED
      BY <1>2, <3>1, <3>2
  <2>8. ASSUME NEW k \in 1..(n + 1) PROVE failedShort'[k] = Token[reaped'[g[k]]]
    <3>1. CASE k \in 1..n
      BY <1>4, <1>5, <2>1, <2>2, <3>1
    <3>2. CASE k = n + 1
      BY <1>4, <2>1, <2>3, <3>2
    <3> QED
      BY <2>5, <3>1, <3>2
  <2>9. NumbersFailures(g)'
    BY <1>3, <1>4, <2>1, <2>4, <2>6, <2>7 DEF NumbersFailures
  <2>10. g \in [1..Len(failedShort') -> 1..Len(reaped')]
    BY <1>4, <2>1, <2>4
  <2>11. \A k \in 1..Len(failedShort') : failedShort'[k] = Token[reaped'[g[k]]]
    BY <2>1, <2>8
  <2> QED
    BY <2>9, <2>10, <2>11, Zenon DEF FailuresNamed
<1>7. CASE status[j] # "failed"
  <2>1. failedShort' = failedShort
    BY <1>7 DEF Reap
  <2>2. f \in [1..n -> 1..(m + 1)]
    BY <1>2, <1>5
  <2>3. ASSUME NEW q \in 1..(m + 1)
        PROVE  status[reaped'[q]] = "failed" <=> \E k \in 1..n : f[k] = q
    <3>1. CASE q \in 1..m
      BY <1>4, <1>5, <3>1 DEF NumbersFailures
    <3>2. CASE q = m + 1
      BY <1>2, <1>4, <1>5, <1>7, <3>2
    <3> QED
      BY <1>2, <3>1, <3>2
  <2>4. \A k \in 1..n : failedShort'[k] = Token[reaped'[f[k]]]
    BY <1>4, <1>5, <2>1
  <2>5. NumbersFailures(f)'
    BY <1>3, <1>4, <1>5, <2>1, <2>2, <2>3 DEF NumbersFailures
  <2> QED
    BY <1>4, <2>1, <2>2, <2>4, <2>5 DEF FailuresNamed
<1> QED
  BY <1>6, <1>7

\* Every step keeps the names right: a job that ends was not yet collected.
LEMMA NextNames == IInv /\ FailuresNamed /\ [Next]_vars => FailuresNamed'
<1> SUFFICES ASSUME IInv, FailuresNamed, [Next]_vars PROVE FailuresNamed'
  OBVIOUS
<1>1. ASSUME NEW j \in Jobs, JobEnds(j) PROVE FailuresNamed'
  <2>1. \A k \in 1..Len(reaped) : status'[reaped[k]] = status[reaped[k]]
    BY <1>1, LenProperties DEF JobEnds, IInv, TypeInv, TypeOK, ReapedOnce
  <2>2. reaped' = reaped /\ failedShort' = failedShort
    BY <1>1 DEF JobEnds
  <2>3. PICK f \in [1..Len(failedShort) -> 1..Len(reaped)] :
           /\ NumbersFailures(f)
           /\ \A k \in 1..Len(failedShort) : failedShort[k] = Token[reaped[f[k]]]
    BY DEF FailuresNamed
  <2>4. NumbersFailures(f)'
    BY <2>1, <2>2, <2>3 DEF NumbersFailures
  <2> QED
    BY <2>2, <2>3, <2>4 DEF FailuresNamed
<1>2. CASE Visit
  <2>1. i \in Jobs /\ UNCHANGED outside
    BY <1>2 DEF Visit, IInv, TypeInv, TypeOK, Jobs
  <2>2. CASE ~IsReaped(i) /\ ~Alive(i)
    BY <1>2, <2>1, <2>2, ReapNames DEF Visit
  <2>3. CASE IsReaped(i) \/ Alive(i)
    BY <1>2, <2>1, <2>3 DEF Visit, outside, FailuresNamed, NumbersFailures
  <2> QED
    BY <2>2, <2>3
<1>3. CASE UNCHANGED <<status, reaped, failedShort>>
  BY <1>3 DEF FailuresNamed, NumbersFailures
<1> QED
  BY <1>1, <1>2, <1>3
     DEF Next, Wait, PidReused, PidFreed, EnterLoop, ScanEnds, BeatEnds, Return, outside, vars

LEMMA InitNames == Init => FailuresNamed
<1> SUFFICES ASSUME Init PROVE FailuresNamed
  OBVIOUS
<1>1. Len(failedShort) = 0 /\ Len(reaped) = 0 /\ \A k \in Int : k \notin 1..0
  BY DEF Init
<1>2. PICK f : f = [k \in 1..0 |-> 0]
  OBVIOUS
<1>3. f \in [1..0 -> 1..0]
  BY <1>1, <1>2
<1>4. NumbersFailures(f)
  BY <1>1, <1>3 DEF NumbersFailures
<1>5. f \in [1..Len(failedShort) -> 1..Len(reaped)]
  BY <1>1, <1>3
<1>6. \A k \in 1..Len(failedShort) : failedShort[k] = Token[reaped[f[k]]]
  BY <1>1
<1> QED
  BY <1>4, <1>5, <1>6, Zenon DEF FailuresNamed

LEMMA Invariance == Spec => []IInv
  BY InitIInv, NextIInv, PTL DEF Spec

\* The invariant makes the return status true.
LEMMA IInvTrue == IInv => ResultIsTrue
<1> SUFFICES ASSUME IInv, result # "waiting" PROVE
        /\ \A j \in Jobs : status[j] # "running"
        /\ result = IF \E j \in Jobs : status[j] = "failed" THEN "failed" ELSE "ok"
  BY DEF ResultIsTrue
<1>1. \A j \in Jobs : \E k \in 1..Len(reaped) : reaped[k] = j
  BY AllReaped DEF IInv, ReturnedLate
<1>2. \A k \in 1..Len(reaped) : reaped[k] \in Jobs
  BY LenProperties DEF IInv, TypeInv, TypeOK
<1>3. \A j \in Jobs : status[j] # "running"
  BY <1>1 DEF IInv, ReapedOnce
<1>4. (\E j \in Jobs : status[j] = "failed")
         <=> \E k \in 1..Len(reaped) : status[reaped[k]] = "failed"
  BY <1>1, <1>2
<1> QED
  BY <1>3, <1>4 DEF IInv, FailureRecorded, ReturnedLate

-----------------------------------------------------------------------------
(* The theorems.                                                             *)

\* The variables of hol_wait_parallel_data_services keep their types: the loops
\* stay within the jobs, and no failure is recorded without a collected job.
THEOREM TypeCorrect == Spec => []TypeOK
<1>1. IInv => TypeOK
  BY DEF IInv, TypeInv
<1> QED
  BY <1>1, Invariance, PTL

\* HOL_FAILED_DATA_SERVICES has one entry for each failed job that
\* hol_wait_parallel_data_services has collected, in the order of collection.
THEOREM FailuresAreNamed == Spec => []FailuresNamed
  BY InitNames, NextNames, Invariance, PTL DEF Spec

\* hol_wait_parallel_data_services collects no job twice and none before it has
\* ended.
THEOREM CollectedOnce == Spec => []ReapedOnce
<1>1. IInv => ReapedOnce
  BY DEF IInv
<1> QED
  BY <1>1, Invariance, PTL

\* hol_wait_parallel_data_services returns only when every job has ended, and
\* its status says whether one of them failed.
THEOREM StatusIsTrue == Spec => []ResultIsTrue
  BY Invariance, IInvTrue, PTL

\* Every step of the polling loop is a step of the batch seen by
\* hol_enable_data_services and disable_data_services, or leaves it alone.
THEOREM RefinesBatch == Spec => Batch!Init /\ [][Batch!Next]_<<status, result>>
<1>1. Init => Batch!Init
  BY DEF Init, Batch!Init
<1>2. ASSUME IInv, IInv', [Next]_vars PROVE [Batch!Next]_<<status, result>>
  <2>1. ASSUME NEW j \in Jobs, JobEnds(j) PROVE Batch!Finish(j)
    BY <2>1 DEF JobEnds, Batch!Finish
  <2>2. CASE Return
    <3>1. result = "waiting" /\ result' # "waiting" /\ status' = status
      BY <1>2, <2>2 DEF Return, outside, IInv, ReturnedLate, TypeInv, TypeOK
    <3>2. ResultIsTrue'
      BY <1>2, IInvTrue, PTL
    <3> QED
      BY <3>1, <3>2 DEF ResultIsTrue, Batch!Next, Batch!Return
  <2>3. ASSUME NEW j \in Jobs, PidReused(j) \/ PidFreed(j) PROVE UNCHANGED <<status, result>>
    BY <2>3 DEF PidReused, PidFreed
  <2>4. CASE EnterLoop \/ Visit \/ ScanEnds \/ BeatEnds
    BY <2>4 DEF EnterLoop, Visit, ScanEnds, BeatEnds, outside
  <2>5. CASE UNCHANGED vars
    BY <2>5 DEF vars
  <2> QED
    BY <1>2, <2>1, <2>2, <2>3, <2>4, <2>5 DEF Next, Wait, Batch!Next
<1> QED
  BY <1>1, <1>2, Invariance, PTL DEF Spec
=============================================================================
