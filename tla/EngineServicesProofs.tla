------------------------ MODULE EngineServicesProofs ------------------------
(***************************************************************************)
(* The durable services of engine/, for every value of the constants.      *)
(* Durable operations: a worker whose lease still runs is in the row,      *)
(* unless a worker that had lost its lease put the row to failed, after    *)
(* which the next claim is of another attempt.  Evolution search: no real  *)
(* model call is made without having been charged; the accounting is per   *)
(* call, two threads never work on the same call, as the task is part of   *)
(* its key, and an act of the operator comes between two runs.  The search *)
(* parents are earned: the plan of stages fixes who contends where, a      *)
(* decision is the verdict of its confirmation, the lineage of the archive *)
(* walks along the decisions and is ahead by one at most, a candidate is   *)
(* out or selected for a reason that is on record, and the candidates of a *)
(* generation are what its requests were answered with.  Continuous A/B: a *)
(* round that is running knows how far its task has come, rounds that      *)
(* retired do not change any more, no search round is planned while a      *)
(* proposal is pending, and the promoted ChangeSets lead from the initial  *)
(* agent to the active one.                                                *)
(***************************************************************************)
EXTENDS EngineServices, Sequences, SequenceTheorems, FiniteSetTheorems,
        WellFoundedInduction, TLAPS

-----------------------------------------------------------------------------
(* Durable operations.                                                     *)

\* The row names w with its attempt and the end of its lease.
Leased(w) ==
    /\ row.status = "running" /\ row.owner = w
    /\ row.attempt = worker[w].attempt /\ row.expires = worker[w].now + LeaseTime

\* What the row says while w executes under a lease that still runs.
LeaseInv ==
    \A w \in Workers :
        (Durable!Holding(w) /\ Durable!Unexpired(w)) =>
            /\ usurped \/ Leased(w)
            /\ \/ row.attempt > worker[w].attempt
               \/ row.attempt = worker[w].attempt /\ (Leased(w) \/ row.status = "failed")

\* No attempt is ahead of the row's, no reading ahead of the clock, and a completed
\* row names the result of its last attempt.
RowInv ==
    /\ \A w \in Workers : worker[w].attempt <= row.attempt /\ worker[w].now <= now
    /\ row.status \in {"none", "prepared"} <=> row.attempt = 0
    /\ row.attempt <= MaxAttempts
    /\ row.status = "completed" => row.result = row.attempt
    /\ \A w \in Workers : worker[w].pc \in {"execute", "hash", "commit", "fail"} =>
          worker[w].attempt \in Durable!Attempts

DurableInv == Durable!TypeOK /\ RowInv /\ LeaseInv /\ Durable!AttemptIsNotShared

-----------------------------------------------------------------------------
LEMMA DurableInit == ASSUME Durable!DurableOperationAssumption, Durable!Init PROVE DurableInv
<1>1. Durable!TypeOK
    BY DEF Durable!Init, Durable!TypeOK, Durable!NoRow, Durable!Idle
<1>2. RowInv /\ LeaseInv /\ Durable!AttemptIsNotShared
    BY DEF Durable!DurableOperationAssumption, Durable!Init, Durable!NoRow, Durable!Idle,
           RowInv, LeaseInv, Durable!AttemptIsNotShared, Durable!Holding
<1> QED
    BY <1>1, <1>2 DEF DurableInv

\* Whoever does not execute afterwards and leaves row and clock alone, or a row of
\* which nobody is the holder, disturbs nothing.
LEMMA LetGo ==
    ASSUME Durable!DurableOperationAssumption, DurableInv, Durable!TypeOK', NEW w \in Workers,
           NEW place \in {"idle", "claim", "fail"},
           worker'[w].pc = place, worker'[w].now <= now, worker'[w].attempt <= row.attempt,
           place = "fail" => worker'[w].attempt \in Durable!Attempts,
           \A v \in Workers : v # w => worker'[v] = worker[v],
           row' = row, usurped' = usurped, now' = now
    PROVE  DurableInv'
<1>1. RowInv'
    BY DEF DurableInv, RowInv
<1>2. /\ ~Durable!Holding(w)'
      /\ \A v \in Workers : v # w =>
            /\ Durable!Holding(v)' = Durable!Holding(v)
            /\ Durable!Unexpired(v)' = Durable!Unexpired(v)
    BY DEF Durable!Holding, Durable!Unexpired
<1>3. LeaseInv'
    BY <1>2 DEF DurableInv, LeaseInv, Leased
<1>4. Durable!AttemptIsNotShared'
    BY <1>2 DEF DurableInv, Durable!AttemptIsNotShared
<1> QED
    BY <1>1, <1>3, <1>4 DEF DurableInv

\* A worker that goes on executing its attempt under the same row disturbs nothing.
LEMMA GoOn ==
    ASSUME Durable!DurableOperationAssumption, DurableInv, Durable!TypeOK', NEW w \in Workers,
           Durable!Holding(w), worker'[w].pc \in {"hash", "commit", "fail"},
           worker'[w].now = worker[w].now, worker'[w].attempt = worker[w].attempt,
           \A v \in Workers : v # w => worker'[v] = worker[v],
           row' = row, usurped' = usurped, now' = now
    PROVE  DurableInv'
<1>1. RowInv'
    BY DEF DurableInv, RowInv, Durable!Holding
<1>2. \A v \in Workers : /\ Durable!Holding(v)' => Durable!Holding(v)
                         /\ Durable!Unexpired(v)' = Durable!Unexpired(v)
                         /\ worker'[v].attempt = worker[v].attempt
                         /\ worker'[v].now = worker[v].now
    BY DEF Durable!Holding, Durable!Unexpired
<1>3. LeaseInv'
    BY <1>2 DEF DurableInv, LeaseInv, Leased
<1>4. Durable!AttemptIsNotShared'
    BY <1>2 DEF DurableInv, Durable!AttemptIsNotShared
<1> QED
    BY <1>1, <1>3, <1>4 DEF DurableInv

\* A worker that takes the lease of an attempt nobody else executes under a lease
\* that still runs.
LEMMA TakeLease ==
    ASSUME Durable!DurableOperationAssumption, DurableInv, Durable!TypeOK', NEW w \in Workers,
           NEW attempt \in Durable!Attempts, attempt >= row.attempt, Durable!Lease(w, attempt),
           worker'[w].pc = "execute", worker'[w].now = worker[w].now,
           worker'[w].attempt = attempt,
           \A v \in Workers : v # w => worker'[v] = worker[v],
           usurped' = usurped, now' = now,
           \A v \in Workers : (v # w /\ Durable!Holding(v) /\ Durable!Unexpired(v)) =>
                 usurped /\ worker[v].attempt < attempt
    PROVE  DurableInv'
<1>1. /\ row'.status = "running" /\ row'.owner = w /\ row'.attempt = attempt
      /\ row'.expires = worker[w].now + LeaseTime
    BY DEF Durable!Lease, Durable!NoRow
<1>2. RowInv'
    <2>1. attempt \in Nat /\ attempt # 0 /\ attempt <= MaxAttempts
        BY DEF Durable!Attempts, Durable!DurableOperationAssumption
    <2>2. \A v \in Workers : worker'[v].attempt <= attempt /\ worker'[v].now <= now
        BY <2>1 DEF DurableInv, RowInv, Durable!TypeOK
    <2>3. \A v \in Workers : worker'[v].pc \in {"execute", "hash", "commit", "fail"} =>
              worker'[v].attempt \in Durable!Attempts
        BY DEF DurableInv, RowInv
    <2> QED
        BY <1>1, <2>1, <2>2, <2>3 DEF RowInv
<1>3. \A v \in Workers : v # w =>
        /\ Durable!Holding(v)' = Durable!Holding(v)
        /\ Durable!Unexpired(v)' = Durable!Unexpired(v)
    BY DEF Durable!Holding, Durable!Unexpired
<1>4. LeaseInv'
    <2> SUFFICES ASSUME NEW v \in Workers, Durable!Holding(v)', Durable!Unexpired(v)'
                 PROVE  /\ (usurped \/ Leased(v))'
                        /\ \/ (row.attempt > worker[v].attempt)'
                           \/ (row.attempt = worker[v].attempt /\ (Leased(v) \/ row.status = "failed"))'
        BY DEF LeaseInv
    <2>1. CASE v = w
        BY <2>1, <1>1 DEF Leased
    <2>2. CASE v # w
        BY <2>2, <1>1, <1>3 DEF Leased, DurableInv, Durable!TypeOK
    <2> QED
        BY <2>1, <2>2
<1>5. Durable!AttemptIsNotShared'
    BY <1>3 DEF DurableInv, Durable!AttemptIsNotShared, Durable!TypeOK, Durable!Attempts
<1> QED
    BY <1>2, <1>4, <1>5 DEF DurableInv

LEMMA DurableType ==
    ASSUME Durable!DurableOperationAssumption, Durable!TypeOK, RowInv,
           [Durable!Next]_(Durable!vars)
    PROVE  Durable!TypeOK'
<1> DEFINE Row == [status : {"none", "prepared", "running", "failed", "completed"},
                   contract : BOOLEAN, attempt : Nat, owner : Workers \cup {None},
                   expires : Nat, result : Nat, hash : Workers \cup {None}]
           Worker == [pc : {"idle", "claim", "execute", "hash", "commit", "fail"},
                      now : Nat, attempt : Nat, reuse : BOOLEAN,
                      hash : Workers \cup {None}]
<1>0. /\ row \in Row
      /\ Durable!NoRow \in Row
      /\ Durable!Idle \in Worker
      /\ \A w \in Workers : worker[w] \in Worker
    BY DEF Durable!TypeOK, Durable!NoRow, Durable!Idle
<1>1. ASSUME NEW w \in Workers, Durable!Run(w) PROVE Durable!TypeOK'
    <2>1. CASE Durable!Start(w)
        <3>1. [Durable!Idle EXCEPT !.pc = "claim", !.now = now] \in Worker
            BY <1>0 DEF Durable!TypeOK
        <3> QED
            BY <2>1, <3>1 DEF Durable!Start, Durable!Move, Durable!TypeOK
    <2>2. CASE Durable!Prepare(w)
        <3>1. \A b \in BOOLEAN :
                  [Durable!NoRow EXCEPT !.status = "prepared", !.contract = b] \in Row
            BY <1>0
        <3>2. (w \in Foreign) \in BOOLEAN
            OBVIOUS
        <3> QED
            BY <2>2, <3>1, <3>2 DEF Durable!Prepare, Durable!TypeOK
    <2>3. CASE Durable!Refuse(w) \/ Durable!Replay(w)
        BY <1>0, <2>3 DEF Durable!Refuse, Durable!Replay, Durable!Move, Durable!TypeOK
    <2>4. ASSUME NEW attempt \in Nat, NEW reuse \in BOOLEAN, Durable!Lease(w, attempt),
                 Durable!Move(w, [worker[w] EXCEPT !.pc = "execute", !.attempt = attempt,
                                           !.reuse = reuse])
          PROVE  row' \in Row /\ worker' \in [Workers -> Worker]
        <3>1. row' \in Row
            <4>1. row.contract \in BOOLEAN /\ worker[w].now + LeaseTime \in Nat
                BY <1>0 DEF Durable!DurableOperationAssumption
            <4>2. \A b \in BOOLEAN, e \in Nat :
                    [Durable!NoRow EXCEPT !.status = "running", !.contract = b, !.attempt = attempt,
                                  !.owner = w, !.expires = e] \in Row
                BY <1>0
            <4> QED
                BY <2>4, <4>1, <4>2 DEF Durable!Lease
        <3>2. [worker[w] EXCEPT !.pc = "execute", !.attempt = attempt, !.reuse = reuse] \in Worker
            BY <1>0
        <3> QED
            BY <2>4, <3>1, <3>2 DEF Durable!Move, Durable!TypeOK
    <2>5. CASE Durable!Claim(w)
        <3>1. [worker[w] EXCEPT !.pc = "execute", !.attempt = row.attempt + 1]
                = [worker[w] EXCEPT !.pc = "execute", !.attempt = row.attempt + 1,
                                    !.reuse = worker[w].reuse]
            BY <1>0
        <3>2. row.attempt + 1 \in Nat /\ worker[w].reuse \in BOOLEAN
            BY <1>0
        <3>3. row' \in Row /\ worker' \in [Workers -> Worker]
            BY <2>4, <2>5, <3>1, <3>2 DEF Durable!Claim
        <3> QED
            BY <2>5, <3>3 DEF Durable!Claim, Durable!TypeOK
    <2>6. CASE Durable!Recover(w)
        <3>1. row.attempt \in Nat /\ (file[row.attempt] # None) \in BOOLEAN
            BY <1>0
        <3>2. row' \in Row /\ worker' \in [Workers -> Worker]
            BY <2>4, <2>6, <3>1 DEF Durable!Recover
        <3> QED
            BY <2>6, <3>2 DEF Durable!Recover, Durable!TypeOK
    <2>7. CASE Durable!Execute(w) \/ Durable!Reuse(w)
        <3>1. \A place \in {"hash", "fail"} : [worker[w] EXCEPT !.pc = place] \in Worker
            BY <1>0
        <3> QED
            BY <2>7, <3>1
            DEF Durable!Execute, Durable!Reuse, Durable!Move, Durable!To, Durable!TypeOK
    <2>8. CASE Durable!Hash(w)
        <3>1. worker[w].attempt \in Durable!Attempts
            BY <2>8 DEF Durable!Hash, RowInv
        <3>2. /\ [worker[w] EXCEPT !.pc = "fail"] \in Worker
              /\ [worker[w] EXCEPT !.pc = "commit", !.hash = file[worker[w].attempt]] \in Worker
            BY <1>0, <3>1 DEF Durable!TypeOK
        <3>3. worker' \in [Workers -> Worker]
            BY <2>8, <3>2 DEF Durable!Hash, Durable!Move, Durable!To, Durable!TypeOK
        <3> QED
            BY <2>8, <3>3 DEF Durable!Hash, Durable!TypeOK
    <2>9. CASE Durable!Commit(w)
        <3>1. /\ [worker[w] EXCEPT !.pc = "fail"] \in Worker
              /\ [row EXCEPT !.status = "completed", !.owner = None, !.expires = 0,
                             !.result = row.attempt, !.hash = worker[w].hash] \in Row
            BY <1>0
        <3>2. worker \in [Workers -> Worker]
            BY DEF Durable!TypeOK
        <3> HIDE DEF Row, Worker
        <3>3. ASSUME Durable!Owns(w) PROVE worker' \in [Workers -> Worker] /\ row' \in Row
            BY <1>0, <2>9, <3>1, <3>2, <3>3 DEF Durable!Commit, Durable!Move
        <3>4. ASSUME ~Durable!Owns(w) PROVE worker' \in [Workers -> Worker] /\ row' \in Row
            BY <1>0, <2>9, <3>1, <3>2, <3>4 DEF Durable!Commit, Durable!Move, Durable!To
        <3>5. worker' \in [Workers -> Worker] /\ row' \in Row
            BY <3>3, <3>4
        <3> USE DEF Row, Worker
        <3> QED
            BY <2>9, <3>5 DEF Durable!Commit, Durable!TypeOK
    <2>10. CASE Durable!RecordFailure(w)
        <3>1. [row EXCEPT !.status = "failed", !.owner = None, !.expires = 0] \in Row
            BY <1>0
        <3> QED
            BY <1>0, <2>10, <3>1
            DEF Durable!RecordFailure, Durable!Owns, Durable!Move, Durable!TypeOK
    <2> QED
        BY <1>1, <2>1, <2>2, <2>3, <2>5, <2>6, <2>7, <2>8, <2>9, <2>10 DEF Durable!Run
<1>2. ASSUME NEW w \in Workers, Durable!RunFails(w) \/ Durable!Kill(w) PROVE Durable!TypeOK'
    <2>1. [worker[w] EXCEPT !.pc = "fail"] \in Worker
        BY <1>0
    <2> QED
        BY <1>0, <1>2, <2>1
        DEF Durable!RunFails, Durable!Kill, Durable!Move, Durable!To, Durable!Disturb,
            Durable!TypeOK
<1>3. CASE Durable!Alter \/ Durable!Tick \/ UNCHANGED Durable!vars
    BY <1>3 DEF Durable!Alter, Durable!Tick, Durable!Disturb, Durable!vars, Durable!TypeOK
<1> QED
    BY <1>1, <1>2, <1>3 DEF Durable!Next

LEMMA DurableRun ==
    ASSUME Durable!DurableOperationAssumption, DurableInv,
           Durable!TypeOK', NEW w \in Workers, Durable!Run(w)
    PROVE  DurableInv'
<1>0. Durable!TypeOK /\ RowInv
    BY DEF DurableInv
<1>1. CASE Durable!Start(w)
    BY <1>0, <1>1, LetGo DEF Durable!Start, Durable!Move, Durable!Idle, Durable!TypeOK
<1>2. CASE Durable!Prepare(w)
    <2>1. /\ row.status = "none" /\ row'.attempt = row.attempt /\ row'.status = "prepared"
          /\ UNCHANGED <<worker, usurped, now>>
        BY <1>0, <1>2 DEF Durable!Prepare, Durable!NoRow, RowInv, Durable!TypeOK
    <2>2. \A v \in Workers : ~(Durable!Holding(v) /\ Durable!Unexpired(v))
        BY <1>0, <2>1
        DEF DurableInv, LeaseInv, Leased, RowInv, Durable!Holding, Durable!TypeOK,
            Durable!Attempts
    <2> QED
        BY <2>1, <2>2, <1>0
        DEF DurableInv, RowInv, LeaseInv, Durable!AttemptIsNotShared, Durable!Holding,
            Durable!Unexpired
<1>3. CASE Durable!Refuse(w) \/ Durable!Replay(w)
    BY <1>0, <1>3, LetGo
    DEF Durable!Refuse, Durable!Replay, Durable!Move, Durable!Idle, Durable!TypeOK
<1>4. CASE Durable!Claim(w)
    <2>1. /\ Durable!Lease(w, row.attempt + 1) /\ row.attempt + 1 \in Durable!Attempts
          /\ row.status \in {"prepared", "failed", "completed"}
          /\ worker'[w].pc = "execute" /\ worker'[w].attempt = row.attempt + 1
          /\ worker'[w].now = worker[w].now
          /\ \A v \in Workers : v # w => worker'[v] = worker[v]
          /\ UNCHANGED <<usurped, now>>
        BY SMTT(30), <1>0, <1>4
        DEF Durable!Claim, Durable!Move, Durable!TypeOK, Durable!Attempts,
            Durable!DurableOperationAssumption
    <2>2. \A v \in Workers : (v # w /\ Durable!Holding(v) /\ Durable!Unexpired(v)) =>
              usurped /\ worker[v].attempt < row.attempt + 1
        BY <1>0, <2>1 DEF DurableInv, LeaseInv, Leased, RowInv, Durable!TypeOK
    <2> QED
        BY <2>1, <2>2, <1>0, TakeLease DEF Durable!TypeOK
<1>5. CASE Durable!Recover(w)
    <2>1. /\ Durable!Lease(w, row.attempt)
          /\ row.status = "running" /\ row.expires <= worker[w].now
          /\ worker'[w].pc = "execute" /\ worker'[w].attempt = row.attempt
          /\ worker'[w].now = worker[w].now
          /\ \A v \in Workers : v # w => worker'[v] = worker[v]
          /\ UNCHANGED <<usurped, now>>
        BY <1>0, <1>5 DEF Durable!Recover, Durable!Move, Durable!TypeOK
    <2>2. \A v \in Workers : Durable!Holding(v) /\ Durable!Unexpired(v) => ~Leased(v)
        BY <1>0, <2>1
        DEF RowInv, Leased, Durable!Unexpired, Durable!TypeOK,
            Durable!DurableOperationAssumption
    <2>3. \A v \in Workers : (v # w /\ Durable!Holding(v) /\ Durable!Unexpired(v)) =>
              usurped /\ worker[v].attempt < row.attempt
        BY <1>0, <2>1, <2>2 DEF DurableInv, LeaseInv, Durable!TypeOK
    <2>4. row.attempt \in Durable!Attempts
        BY <1>0, <2>1
        DEF RowInv, Durable!TypeOK, Durable!Attempts, Durable!DurableOperationAssumption
    <2> QED
        BY <2>1, <2>3, <2>4, <1>0, TakeLease DEF Durable!TypeOK
<1>6. CASE Durable!Execute(w)
    BY <1>0, <1>6, GoOn
    DEF Durable!Execute, Durable!To, Durable!Move, Durable!TypeOK, Durable!Holding
<1>7. CASE Durable!Reuse(w)
    BY <1>0, <1>7, GoOn DEF Durable!Reuse, Durable!To, Durable!Move, Durable!TypeOK,
                            Durable!Holding
<1>8. CASE Durable!Hash(w)
    <2>1. /\ Durable!Holding(w) /\ worker'[w].pc \in {"commit", "fail"}
          /\ worker'[w].now = worker[w].now /\ worker'[w].attempt = worker[w].attempt
        <3>1. CASE file[worker[w].attempt] = None
            BY <1>0, <1>8, <3>1
            DEF Durable!Hash, Durable!To, Durable!Move, Durable!TypeOK, Durable!Holding
        <3>2. CASE file[worker[w].attempt] # None
            <4>1. worker' = [worker EXCEPT ![w] =
                        [worker[w] EXCEPT !.pc = "commit", !.hash = file[worker[w].attempt]]]
                BY <1>8, <3>2 DEF Durable!Hash, Durable!Move
            <4> QED
                BY <1>0, <1>8, <4>1 DEF Durable!Hash, Durable!TypeOK, Durable!Holding
        <3> QED
            BY <3>1, <3>2
    <2> QED
        BY <1>0, <1>8, <2>1, GoOn DEF Durable!Hash, Durable!To, Durable!Move,
                                      Durable!TypeOK
<1>9. CASE Durable!Commit(w)
    <2>1. CASE ~Durable!Owns(w)
        BY <1>0, <1>9, <2>1, GoOn
        DEF Durable!Commit, Durable!To, Durable!Move, Durable!TypeOK, Durable!Holding
    <2>2. CASE Durable!Owns(w)
        <3>1. /\ row'.status = "completed" /\ row'.attempt = row.attempt
              /\ row'.result = row.attempt /\ row.owner = w /\ row.attempt = worker[w].attempt
              /\ worker'[w] = Durable!Idle /\ \A v \in Workers : v # w => worker'[v] = worker[v]
              /\ UNCHANGED <<usurped, now>>
            BY <1>0, <1>9, <2>2 DEF Durable!Commit, Durable!Owns, Durable!Move,
                                    Durable!TypeOK
        <3>2. \A v \in Workers : (v # w /\ Durable!Holding(v) /\ Durable!Unexpired(v)) =>
                  usurped /\ row.attempt > worker[v].attempt
            BY <1>0, <3>1, <2>2 DEF DurableInv, LeaseInv, Leased, Durable!Owns,
                                    Durable!TypeOK
        <3>3. /\ ~Durable!Holding(w)'
              /\ \A v \in Workers : v # w =>
                    /\ Durable!Holding(v)' = Durable!Holding(v)
                    /\ Durable!Unexpired(v)' = Durable!Unexpired(v)
            BY <3>1 DEF Durable!Holding, Durable!Unexpired, Durable!Idle
        <3>4. RowInv'
            BY <1>0, <3>1, <2>2 DEF Durable!Owns, RowInv, Durable!Idle, Durable!TypeOK
        <3>5. LeaseInv'
            BY <1>0, <3>1, <3>2, <3>3 DEF LeaseInv
        <3>6. Durable!AttemptIsNotShared'
            BY <1>0, <3>1, <3>3 DEF DurableInv, Durable!AttemptIsNotShared
        <3> QED
            BY <1>0, <3>4, <3>5, <3>6 DEF DurableInv
    <2> QED
        BY <2>1, <2>2
<1>10. CASE Durable!RecordFailure(w)
    <2>1. /\ row'.status = "failed" /\ row'.attempt = row.attempt /\ row'.result = row.result
          /\ worker'[w] = Durable!Idle /\ \A v \in Workers : v # w => worker'[v] = worker[v]
          /\ usurped' = (usurped \/ ~Durable!Owns(w)) /\ UNCHANGED now /\ worker[w].pc = "fail"
        BY <1>0, <1>10 DEF Durable!RecordFailure, Durable!Move, Durable!TypeOK
    <2>2. /\ ~Durable!Holding(w)'
          /\ \A v \in Workers : v # w =>
                /\ Durable!Holding(v)' = Durable!Holding(v)
                /\ Durable!Unexpired(v)' = Durable!Unexpired(v)
        BY <2>1 DEF Durable!Holding, Durable!Unexpired, Durable!Idle
    <2>3. \A v \in Workers : (v # w /\ Leased(v)) => usurped'
        BY <2>1 DEF Leased, Durable!Owns
    <2>4. \A v \in Workers : (v # w /\ Durable!Holding(v) /\ Durable!Unexpired(v)) =>
              usurped' /\ row.attempt >= worker[v].attempt
        BY <1>0, <2>1, <2>3 DEF DurableInv, LeaseInv, Durable!TypeOK
    <2>5. row.attempt # 0
        BY <1>0, <2>1 DEF RowInv, Durable!TypeOK, Durable!Attempts
    <2>6. RowInv'
        <3>1. \A v \in Workers : /\ worker'[v].attempt <= row.attempt /\ worker'[v].now <= now
                                 /\ worker'[v].pc \in {"execute", "hash", "commit", "fail"} =>
                                        worker'[v].attempt \in Durable!Attempts
            BY <1>0, <2>1 DEF RowInv, Durable!Idle, Durable!TypeOK
        <3>2. row.attempt <= MaxAttempts
            BY <1>0 DEF RowInv
        <3> QED
            BY <2>1, <2>5, <3>1, <3>2 DEF RowInv
    <2>7. LeaseInv'
        <3>1. \A v \in Workers : (Durable!Holding(v)' /\ Durable!Unexpired(v)') =>
                  /\ usurped' /\ row'.attempt >= worker'[v].attempt
                  /\ row'.attempt \in Nat /\ worker'[v].attempt \in Nat
            BY <1>0, <2>1, <2>2, <2>4 DEF Durable!TypeOK
        <3> QED
            BY <2>1, <3>1 DEF LeaseInv
    <2>8. Durable!AttemptIsNotShared'
        BY <1>0, <2>1, <2>2 DEF DurableInv, Durable!AttemptIsNotShared
    <2> QED
        BY <1>0, <2>6, <2>7, <2>8 DEF DurableInv
<1> QED
    BY <1>1, <1>2, <1>3, <1>4, <1>5, <1>6, <1>7, <1>8, <1>9, <1>10 DEF Durable!Run

LEMMA DurableNext ==
    ASSUME Durable!DurableOperationAssumption, DurableInv, [Durable!Next]_(Durable!vars)
    PROVE  DurableInv'
<1>0. Durable!TypeOK /\ Durable!TypeOK'
    BY DurableType DEF DurableInv
<1>1. ASSUME NEW w \in Workers, Durable!Run(w) PROVE DurableInv'
    BY <1>0, <1>1, DurableRun
<1>2. ASSUME NEW w \in Workers, Durable!RunFails(w) PROVE DurableInv'
    BY <1>0, <1>2, GoOn
    DEF Durable!RunFails, Durable!To, Durable!Move, Durable!Disturb, Durable!TypeOK,
        Durable!Holding
<1>3. ASSUME NEW w \in Workers, Durable!Kill(w) PROVE DurableInv'
    BY <1>0, <1>3, LetGo
    DEF Durable!Kill, Durable!Move, Durable!Idle, Durable!Disturb, Durable!TypeOK
<1>4. CASE Durable!Alter \/ UNCHANGED Durable!vars
    <2>1. UNCHANGED <<row, worker, usurped, now>>
        BY <1>4 DEF Durable!Alter, Durable!vars
    <2> QED
        BY <1>0, <2>1
        DEF DurableInv, RowInv, LeaseInv, Durable!AttemptIsNotShared, Durable!Holding,
            Durable!Unexpired, Leased
<1>5. CASE Durable!Tick
    <2>1. UNCHANGED <<row, worker, usurped>> /\ now' = now + 1
        BY <1>5 DEF Durable!Tick
    <2>2. \A v \in Workers :
            /\ Durable!Holding(v)' = Durable!Holding(v)
            /\ (Durable!Unexpired(v)' => Durable!Unexpired(v))
        BY <1>0, <2>1
        DEF Durable!Holding, Durable!Unexpired, Durable!TypeOK,
            Durable!DurableOperationAssumption
    <2> QED
        BY <1>0, <2>1, <2>2
        DEF DurableInv, RowInv, LeaseInv, Durable!AttemptIsNotShared, Leased,
            Durable!TypeOK
<1> QED
    BY <1>1, <1>2, <1>3, <1>4, <1>5 DEF Durable!Next

-----------------------------------------------------------------------------
\* A completed row is reopened only for its result or by a worker that lost the lease.
LEMMA KeepsStep ==
    ASSUME Durable!DurableOperationAssumption, DurableInv, [Durable!Next]_(Durable!vars)
    PROVE  Durable!KeepsCompletion
<1>0. Durable!TypeOK /\ (row.status = "completed" => row.result = row.attempt)
    BY DEF DurableInv, RowInv
<1>1. CASE row' = row
    BY <1>0, <1>1 DEF Durable!KeepsCompletion
<1>2. ASSUME NEW w \in Workers, Durable!Prepare(w) \/ Durable!Claim(w) \/ Durable!Recover(w)
      PROVE  Durable!KeepsCompletion
    <2>1. /\ row'.status \in {"prepared", "running"}
          /\ row.status = "completed" => ~Durable!ResultIsValid
        BY <1>0, <1>2
        DEF Durable!Prepare, Durable!Claim, Durable!Recover, Durable!Lease, Durable!NoRow
    <2> QED
        BY <2>1 DEF Durable!KeepsCompletion
<1>3. ASSUME NEW w \in Workers, Durable!Commit(w) PROVE row' = row \/ Durable!KeepsCompletion
    BY <1>0, <1>3 DEF Durable!Commit, Durable!Owns, Durable!KeepsCompletion, Durable!TypeOK
<1>4. ASSUME NEW w \in Workers, Durable!RecordFailure(w) PROVE Durable!KeepsCompletion
    BY <1>0, <1>4 DEF Durable!RecordFailure, Durable!Owns, Durable!KeepsCompletion,
                      Durable!TypeOK
<1>5. ASSUME NEW w \in Workers, Durable!Run(w) PROVE Durable!KeepsCompletion
    BY <1>1, <1>2, <1>3, <1>4, <1>5
    DEF Durable!Run, Durable!Start, Durable!Refuse, Durable!Replay, Durable!Execute,
        Durable!Reuse, Durable!Hash
<1>6. ASSUME NEW w \in Workers, Durable!RunFails(w) \/ Durable!Kill(w) PROVE row' = row
    BY <1>6 DEF Durable!RunFails, Durable!Kill
<1>7. CASE Durable!Alter \/ Durable!Tick \/ UNCHANGED Durable!vars
    BY <1>1, <1>7 DEF Durable!Alter, Durable!Tick, Durable!vars
<1> QED
    BY <1>1, <1>5, <1>6, <1>7 DEF Durable!Next

-----------------------------------------------------------------------------
(* The evolution search.                                                   *)

CallStatuses == {"none", "reserved", "completed", "retracted"}
Steps == {"load", "reserve", "dispatch", "receipt", "evaluate", "record", "done", "error"}
Threads == [arm : Nat, place : Steps]
IsRun(r) == r = [place |-> r.place, stage |-> r.stage, request |-> r.request,
                 found |-> r.found, why |-> r.why]

\* The state the accounting depends on.
Accounts ==
    /\ calls \in [Search!Keys -> [status : CallStatuses, count : Nat]]
    /\ charged \in Nat /\ charged <= CallCap
    /\ dispatched \in [Search!Keys -> Nat] /\ retracted \in [Search!Keys -> Nat]

\* What a call may still do: one without a standing reservation has a retraction for
\* every charge.
CallFits(k) ==
    /\ dispatched[k] <= calls[k].count
    /\ calls[k].count <= 1 + retracted[k]
    /\ calls[k].status \in {"none", "retracted"} => calls[k].count <= retracted[k]

\* A thread that is about to dispatch holds a charge that was not used.
HoldsCharge(t) ==
    Search!In(t, "dispatch") /\ Search!Key(t) \in Search!Keys =>
        dispatched[Search!Key(t)] < calls[Search!Key(t)].count

ChargeInv ==
    /\ Accounts
    /\ thread \in [Tasks -> Threads] /\ IsRun(run)
    /\ \A k \in Search!Keys : CallFits(k)
    /\ \A t \in Tasks : HoldsCharge(t)

-----------------------------------------------------------------------------

\* The search starts with nothing charged.
LEMMA ChargeInit == ASSUME Search!EvolutionSearchAssumption PROVE Search!Init => ChargeInv
<1> SUFFICES ASSUME Search!Init PROVE ChargeInv
  OBVIOUS
<1>1. Accounts
  BY DEF Search!Init, Accounts, Search!EvolutionSearchAssumption, CallStatuses
<1>2. thread \in [Tasks -> Threads]
  BY DEF Search!Init, Search!Resting, Threads, Steps
<1>3. IsRun(run)
  BY DEF Search!Init, Search!Idle, IsRun
<1>4. \A k \in Search!Keys : CallFits(k)
  BY DEF Search!Init, CallFits
<1>5. \A t \in Tasks : HoldsCharge(t)
  BY DEF Search!Init, HoldsCharge, Search!In, Search!At, Search!Idle
<1> QED BY <1>1, <1>2, <1>3, <1>4, <1>5 DEF ChargeInv

\* A step that leaves the accounts alone and does not stay in a stage's arms.
LEMMA Elsewhere ==
    ASSUME ChargeInv, IsRun(run)', thread' \in [Tasks -> Threads],
           UNCHANGED <<calls, dispatched, retracted>>,
           charged' \in Nat, charged' <= CallCap,
           run'.place = "arms" => \A t \in Tasks : thread'[t].place # "dispatch"
    PROVE  ChargeInv'
<1>1. Accounts'
  BY DEF ChargeInv, Accounts
<1>2. \A k \in Search!Keys : CallFits(k)'
  BY DEF ChargeInv, CallFits
<1>3. \A t \in Tasks : HoldsCharge(t)'
  BY DEF HoldsCharge, Search!In, Search!At
<1> QED BY <1>1, <1>2, <1>3 DEF ChargeInv

\* A step of one thread that leaves the accounts alone and does not take it to dispatch.
LEMMA ThreadMoves ==
    ASSUME ChargeInv, UNCHANGED <<claims, calls, charged, dispatched, retracted, run>>,
           NEW t \in Tasks, NEW w \in Threads, w.place # "dispatch",
           thread' = [thread EXCEPT ![t] = w]
    PROVE  ChargeInv'
<1>1. Accounts'
  BY DEF ChargeInv, Accounts
<1>2. thread' \in [Tasks -> Threads] /\ IsRun(run)'
  BY DEF ChargeInv
<1>3. \A k \in Search!Keys : CallFits(k)'
  BY DEF ChargeInv, CallFits
<1>4. ASSUME NEW u \in Tasks PROVE HoldsCharge(u)'
  <2>1. CASE u = t
    BY <2>1, <1>2 DEF ChargeInv, HoldsCharge, Search!In
  <2>2. CASE u # t
    <3>1. thread'[u] = thread[u]
      BY <2>2 DEF ChargeInv
    <3> QED BY <3>1 DEF ChargeInv, HoldsCharge, Search!In, Search!At, Search!Key
  <2> QED BY <2>1, <2>2
<1> QED BY <1>1, <1>2, <1>3, <1>4 DEF ChargeInv

\* What a thread becomes.
LEMMA GoIs ==
    ASSUME ChargeInv, NEW t \in Tasks, NEW place \in Steps, Search!Go(t, place)
    PROVE  \E w \in Threads : w.place = place /\ thread' = [thread EXCEPT ![t] = w]
<1> DEFINE w == [thread[t] EXCEPT !.place = place]
<1>1. w \in Threads /\ w.place = place
  BY DEF ChargeInv, Threads, Steps
<1>2. thread' = [thread EXCEPT ![t] = w]
  BY DEF ChargeInv, Search!Go
<1> QED BY <1>1, <1>2

\* The same, for the step that goes on with the next arm.
LEMMA NextArmIs ==
    ASSUME ChargeInv, NEW t \in Tasks, Search!NextArm(t)
    PROVE  \E w \in Threads : w.place # "dispatch" /\ thread' = [thread EXCEPT ![t] = w]
<1>1. thread[t] \in Threads /\ thread \in [Tasks -> Threads]
  BY DEF ChargeInv
<1>2. CASE thread[t].arm = Len(claims[run.stage].arms)
  <2> DEFINE w == [thread[t] EXCEPT !.place = "done"]
  <2>1. w \in Threads /\ w.place = "done"
    BY <1>1 DEF Threads, Steps
  <2>2. thread' = [thread EXCEPT ![t] = w]
    BY <1>1, <1>2 DEF Search!NextArm
  <2> QED BY <2>1, <2>2
<1>3. CASE thread[t].arm # Len(claims[run.stage].arms)
  <2> DEFINE w == [arm |-> thread[t].arm + 1, place |-> "load"]
  <2>1. w \in Threads /\ w.place = "load"
    BY <1>1 DEF Threads, Steps
  <2>2. thread' = [thread EXCEPT ![t] = w]
    BY <1>1, <1>3 DEF Search!NextArm
  <2> QED BY <2>1, <2>2
<1> QED BY <1>2, <1>3

-----------------------------------------------------------------------------
(* The steps of a thread.                                                  *)

\* Reserving charges a call that has no standing reservation, within the cap.
LEMMA ReserveKeeps ==
    ASSUME Search!EvolutionSearchAssumption, ChargeInv, NEW t \in Tasks, Search!Reserve(t)
    PROVE  ChargeInv'
<1>1. UNCHANGED <<claims, dispatched, retracted, run>>
  BY DEF Search!Reserve, Search!kept
<1>2. CASE calls[Search!Key(t)].status \in {"none", "retracted"} /\ charged < CallCap
  <2>1. /\ calls' = [calls EXCEPT ![Search!Key(t)] = [status |-> "reserved", count |-> @.count + 1]]
        /\ charged' = charged + 1 /\ Search!Go(t, "dispatch")
    <3>1. Search!Grant(t)
      BY <1>2 DEF Search!Reserve
    <3> QED BY <1>2, <3>1 DEF Search!Grant
  <2>2. Accounts'
    <3>1. charged' \in Nat /\ charged' <= CallCap
      BY <1>2, <2>1 DEF ChargeInv, Accounts, Search!EvolutionSearchAssumption
    <3>2. calls' \in [Search!Keys -> [status : CallStatuses, count : Nat]]
      <4>1. CASE Search!Key(t) \in Search!Keys
        BY <2>1, <4>1 DEF ChargeInv, Accounts, CallStatuses
      <4>2. CASE Search!Key(t) \notin Search!Keys
        BY <2>1, <4>2 DEF ChargeInv, Accounts
      <4> QED BY <4>1, <4>2
    <3> QED BY <1>1, <3>1, <3>2 DEF ChargeInv, Accounts
  <2>3. thread' \in [Tasks -> Threads] /\ IsRun(run)'
    <3>1. PICK w \in Threads : thread' = [thread EXCEPT ![t] = w]
      BY <2>1, GoIs DEF Steps
    <3> QED BY <1>1, <3>1 DEF ChargeInv, IsRun
  <2>4. ASSUME NEW k \in Search!Keys
        PROVE  CallFits(k)' /\ (k = Search!Key(t) => dispatched'[k] < calls'[k].count)
    <3>1. CallFits(k) /\ Accounts
      BY DEF ChargeInv
    <3>2. CASE k = Search!Key(t)
      <4>1. calls'[k] = [status |-> "reserved", count |-> calls[k].count + 1]
        BY <2>1, <3>1, <3>2 DEF Accounts
      <4>2. calls[k].count <= retracted[k] /\ dispatched[k] <= calls[k].count
        BY <1>2, <3>1, <3>2 DEF CallFits
      <4>3. calls[k].count \in Nat /\ retracted[k] \in Nat /\ dispatched[k] \in Nat
        BY <3>1 DEF Accounts
      <4> QED BY <1>1, <4>1, <4>2, <4>3 DEF CallFits
    <3>3. CASE k # Search!Key(t)
      <4>1. calls'[k] = calls[k]
        BY <2>1, <3>1, <3>3 DEF Accounts
      <4> QED BY <1>1, <3>1, <3>3, <4>1 DEF CallFits
    <3> QED BY <3>2, <3>3
  <2>5. ASSUME NEW u \in Tasks PROVE HoldsCharge(u)'
    <3>1. CASE u = t
      <4>1. Search!Key(t)' = Search!Key(t)
        BY <1>1, <2>1 DEF Search!Key, Search!Go, ChargeInv, Threads
      <4> QED BY <3>1, <4>1, <2>4 DEF HoldsCharge
    <3>2. CASE u # t
      <4>1. thread'[u] = thread[u]
        BY <2>1, <3>2 DEF Search!Go, ChargeInv
      <4>2. /\ Search!Key(u)' = Search!Key(u)
            /\ Search!Key(u) # Search!Key(t)
            /\ Search!In(u, "dispatch")' = Search!In(u, "dispatch")
        BY <1>1, <4>1, <3>2 DEF Search!Key, Search!In, Search!At
      <4>3. Search!Key(u) \in Search!Keys => calls'[Search!Key(u)] = calls[Search!Key(u)]
        BY <2>1, <4>2 DEF ChargeInv, Accounts
      <4> QED BY <1>1, <4>2, <4>3 DEF HoldsCharge, ChargeInv
    <3> QED BY <3>1, <3>2
  <2> QED BY <2>2, <2>3, <2>4, <2>5 DEF ChargeInv
<1>3. CASE ~(calls[Search!Key(t)].status \in {"none", "retracted"} /\ charged < CallCap)
  <2>1. UNCHANGED <<calls, charged>> /\ (Search!Go(t, "error") \/ Search!Go(t, "evaluate"))
    <3>1. CASE calls[Search!Key(t)].status \in {"none", "retracted"}
      <4>1. Search!Grant(t)
        BY <3>1 DEF Search!Reserve
      <4> QED BY <1>3, <3>1, <4>1 DEF Search!Grant
    <3>2. CASE calls[Search!Key(t)].status \notin {"none", "retracted"}
      BY <3>2 DEF Search!Reserve
    <3> QED BY <3>1, <3>2
  <2>2. \E w \in Threads : w.place # "dispatch" /\ thread' = [thread EXCEPT ![t] = w]
    BY <2>1, GoIs DEF Steps
  <2> QED BY <1>1, <2>1, <2>2, ThreadMoves
<1> QED BY <1>2, <1>3

\* A dispatch uses the charge its thread holds.
LEMMA DispatchKeeps ==
    ASSUME ChargeInv, NEW t \in Tasks, Search!Dispatch(t) PROVE ChargeInv'
<1>1. /\ UNCHANGED <<claims, calls, charged, retracted, run>> /\ Search!Go(t, "receipt")
      /\ dispatched' = [dispatched EXCEPT ![Search!Key(t)] = @ + 1] /\ Search!In(t, "dispatch")
  BY DEF Search!Dispatch, Search!controller
<1>2. Accounts'
  <2>1. CASE Search!Key(t) \in Search!Keys
    BY <1>1, <2>1 DEF ChargeInv, Accounts
  <2>2. CASE Search!Key(t) \notin Search!Keys
    <3>1. dispatched' = dispatched
      BY <1>1, <2>2 DEF ChargeInv, Accounts
    <3> QED BY <1>1, <3>1 DEF ChargeInv, Accounts
  <2> QED BY <2>1, <2>2
<1>0. PICK w \in Threads : w.place = "receipt" /\ thread' = [thread EXCEPT ![t] = w]
  BY <1>1, GoIs DEF Steps
<1>3. thread' \in [Tasks -> Threads] /\ IsRun(run)'
  BY <1>0, <1>1 DEF ChargeInv, IsRun
<1>4. ASSUME NEW k \in Search!Keys PROVE CallFits(k)'
  <2>1. CallFits(k) /\ HoldsCharge(t) /\ Accounts
    BY DEF ChargeInv
  <2>2. CASE k = Search!Key(t)
    <3>1. dispatched'[k] = dispatched[k] + 1
      BY <1>1, <2>1, <2>2 DEF Accounts
    <3>2. dispatched[k] < calls[k].count
      BY <1>1, <2>1, <2>2 DEF HoldsCharge
    <3>3. calls[k].count \in Nat /\ dispatched[k] \in Nat
      BY <2>1 DEF Accounts
    <3> QED BY <1>1, <2>1, <3>1, <3>2, <3>3 DEF CallFits
  <2>3. CASE k # Search!Key(t)
    <3>1. dispatched'[k] = dispatched[k]
      BY <1>1, <2>1, <2>3 DEF Accounts
    <3> QED BY <1>1, <2>1, <3>1 DEF CallFits
  <2> QED BY <2>2, <2>3
<1>5. ASSUME NEW u \in Tasks PROVE HoldsCharge(u)'
  <2>1. CASE u = t
    BY <1>0, <2>1 DEF HoldsCharge, Search!In, ChargeInv
  <2>2. CASE u # t
    <3>1. thread'[u] = thread[u]
      BY <1>1, <2>2 DEF Search!Go, ChargeInv
    <3>2. /\ Search!Key(u)' = Search!Key(u)
          /\ Search!Key(u) # Search!Key(t)
          /\ Search!In(u, "dispatch")' = Search!In(u, "dispatch")
      BY <1>1, <3>1, <2>2 DEF Search!Key, Search!In, Search!At
    <3>3. Search!Key(u) \in Search!Keys => dispatched'[Search!Key(u)] = dispatched[Search!Key(u)]
      BY <1>1, <3>2 DEF ChargeInv, Accounts
    <3> QED BY <1>1, <3>2, <3>3 DEF HoldsCharge, ChargeInv
  <2> QED BY <2>1, <2>2
<1> QED BY <1>2, <1>3, <1>4, <1>5 DEF ChargeInv

\* Evidence completes the reservation of a call and charges nothing.
LEMMA RecordEvidenceKeeps ==
    ASSUME ChargeInv, NEW t \in Tasks, Search!RecordEvidence(t) PROVE ChargeInv'
<1>1. UNCHANGED <<claims, charged, dispatched, retracted, run>>
  BY DEF Search!RecordEvidence, Search!kept
<1>2. CASE UNCHANGED calls
  <2>1. Search!NextArm(t) \/ Search!Go(t, "error")
    BY DEF Search!RecordEvidence
  <2>2. \E w \in Threads : w.place # "dispatch" /\ thread' = [thread EXCEPT ![t] = w]
    BY <2>1, GoIs, NextArmIs DEF Steps
  <2> QED BY <1>1, <1>2, <2>2, ThreadMoves
<1>3. CASE calls' # calls
  <2>1. /\ calls[Search!Key(t)].status \in {"reserved", "completed"} /\ Search!NextArm(t)
        /\ calls' = [calls EXCEPT ![Search!Key(t)].status = "completed"]
    BY <1>3 DEF Search!RecordEvidence
  <2>2. PICK w \in Threads : w.place # "dispatch" /\ thread' = [thread EXCEPT ![t] = w]
    BY <2>1, NextArmIs
  <2>3. Accounts'
    BY <1>1, <2>1 DEF ChargeInv, Accounts, CallStatuses
  <2>4. \A k \in Search!Keys : calls'[k].count = calls[k].count
                        /\ (calls'[k].status \in {"none", "retracted"} => calls'[k] = calls[k])
    BY <2>1 DEF ChargeInv, Accounts
  <2>5. \A k \in Search!Keys : CallFits(k)'
    BY <1>1, <2>4 DEF ChargeInv, CallFits
  <2>6. thread' \in [Tasks -> Threads] /\ IsRun(run)'
    BY <1>1, <2>2 DEF ChargeInv
  <2>7. ASSUME NEW u \in Tasks PROVE HoldsCharge(u)'
    <3>1. CASE u = t
      BY <2>2, <3>1 DEF HoldsCharge, Search!In, ChargeInv
    <3>2. CASE u # t
      <4>1. thread'[u] = thread[u]
        BY <2>2, <3>2 DEF ChargeInv
      <4>2. /\ Search!Key(u)' = Search!Key(u)
            /\ Search!In(u, "dispatch")' = Search!In(u, "dispatch")
        BY <1>1, <4>1 DEF Search!Key, Search!In, Search!At
      <4> QED BY <1>1, <2>4, <4>2 DEF HoldsCharge, ChargeInv
    <3> QED BY <3>1, <3>2
  <2> QED BY <2>3, <2>5, <2>6, <2>7 DEF ChargeInv
<1> QED BY <1>2, <1>3

\* The steps of a thread that only move it.
LEMMA ThreadKeeps ==
    ASSUME ChargeInv, NEW t \in Tasks,
           Search!Load(t) \/ Search!WriteReceipt(t) \/ Search!Evaluate(t) \/ Search!ArmFails(t)
    PROVE  ChargeInv'
<1>1. UNCHANGED <<claims, calls, charged, dispatched, retracted, run>>
  BY DEF Search!Load, Search!WriteReceipt, Search!Evaluate, Search!ArmFails,
         Search!History, Search!controller, Search!kept
<1>2. Search!Go(t, "record") \/ Search!Go(t, "reserve") \/ Search!Go(t, "evaluate")
      \/ Search!Go(t, "error")
  BY DEF Search!Load, Search!WriteReceipt, Search!Evaluate, Search!ArmFails
<1>3. \E w \in Threads : w.place # "dispatch" /\ thread' = [thread EXCEPT ![t] = w]
  BY <1>2, GoIs DEF Steps
<1> QED BY <1>1, <1>3, ThreadMoves

-----------------------------------------------------------------------------
(* The steps of the search, and faults.                                    *)

\* What To and Refuse make of the run.
LEMMA ToIs ==
    ASSUME ChargeInv, NEW place, Search!To(place)
    PROVE  IsRun(run)' /\ run'.place = place
BY DEF ChargeInv, Search!To, IsRun

LEMMA RefuseIs ==
    ASSUME NEW why, Search!Refuse(why)
    PROVE  IsRun(run)' /\ run'.place = "refused"
<1>1. IsRun(Search!Idle)
  BY DEF Search!Idle, IsRun
<1> QED BY <1>1 DEF Search!Refuse, IsRun, Search!Idle

\* A run or a stage begins with every thread at rest.
LEMMA BeginKeeps ==
    ASSUME ChargeInv, Search!Start \/ Search!ClaimStage PROVE ChargeInv'
<1>1. UNCHANGED <<calls, charged, dispatched, retracted>>
  BY DEF Search!Start, Search!ClaimStage, Search!controller, Search!kept
<1>2. thread' = [t \in Tasks |-> Search!Resting]
  BY DEF Search!Start, Search!ClaimStage
<1>3. thread' \in [Tasks -> Threads] /\ \A t \in Tasks : thread'[t].place # "dispatch"
  BY <1>2 DEF Search!Resting, Threads, Steps
<1>4. IsRun(run)'
  <2>1. CASE Search!Start
    <3>1. IsRun([Search!Idle EXCEPT !.place = "claim"])
      BY DEF Search!Idle, IsRun
    <3> QED BY <2>1, <3>1, RefuseIs DEF Search!Start
  <2>2. CASE Search!ClaimStage
    <3>1. Search!To("arms") \/ Search!Refuse("claim differs") \/ Search!Refuse("arms not distinct")
      BY <2>2 DEF Search!ClaimStage
    <3> QED BY <3>1, ToIs, RefuseIs
  <2> QED BY <2>1, <2>2
<1> QED BY <1>1, <1>3, <1>4, Elsewhere DEF ChargeInv, Accounts

\* A transition in the archive changes only where the run is.
LEMMA TransitionIs ==
    ASSUME ChargeInv, NEW p, NEW state, NEW place, place # "arms",
           Search!Transition(p, state, place)
    PROVE  IsRun(run)' /\ run'.place # "arms"
<1>1. CASE Search!To(place)
  BY <1>1, ToIs
<1>2. CASE Search!Refuse("illegal transition")
  BY <1>2, RefuseIs
<1> QED BY <1>1, <1>2 DEF Search!Transition

\* The steps of a stage outside its arms, and the decision.
LEMMA StageKeeps ==
    ASSUME ChargeInv,
           Search!MarkCandidates \/ Search!Join \/ Search!CompleteStage \/ Search!Eliminate
           \/ Search!Select
           \/ Search!RecordRollback \/ Search!AdvanceParent \/ Search!RecordDecision
    PROVE  ChargeInv'
<1>1. UNCHANGED <<calls, charged, dispatched, retracted, thread>>
  BY DEF Search!MarkCandidates, Search!Join, Search!CompleteStage, Search!Eliminate,
         Search!Select, Search!RecordRollback, Search!AdvanceParent, Search!RecordDecision,
         Search!controller, Search!kept
<1>2. IsRun(run)' /\ run'.place # "arms"
  <2>1. CASE Search!MarkCandidates
    BY <2>1, ToIs DEF Search!MarkCandidates
  <2>2. CASE Search!Join
    <3>1. Search!Refuse("arm") \/ Search!To("complete")
      BY <2>2 DEF Search!Join
    <3> QED BY <3>1, ToIs, RefuseIs
  <2>3. CASE Search!CompleteStage
    <3>1. Search!To("mine") \/ Search!To("select") \/ Search!To("eliminate")
      BY <2>3 DEF Search!CompleteStage
    <3> QED BY <3>1, ToIs
  <2>4. CASE Search!Eliminate
    <3>1. CASE run' = [run EXCEPT !.stage = @ + 1, !.place = "claim"]
      BY <3>1 DEF ChargeInv, IsRun
    <3>2. CASE \E p \in Search!Eliminated : Search!Transition(p, "rejected", "eliminate")
      BY <3>2, TransitionIs
    <3> QED BY <2>4, <3>1, <3>2 DEF Search!Eliminate
  <2>5. CASE Search!Select
    BY <2>5, TransitionIs DEF Search!Select
  <2>6. CASE Search!RecordRollback
    BY <2>6, ToIs DEF Search!RecordRollback
  <2>7. CASE Search!AdvanceParent
    <3>1. CASE Search!To("decide")
      BY <3>1, ToIs
    <3>2. CASE Search!Refuse("stale parent")
      BY <3>2, RefuseIs
    <3> QED BY <2>7, <3>1, <3>2 DEF Search!AdvanceParent
  <2>8. CASE Search!RecordDecision
    <3>1. CASE Search!To("mine")
      BY <3>1, ToIs
    <3>2. CASE Search!Refuse("decision differs") \/ Search!Refuse("stale parent")
      BY <3>2, RefuseIs
    <3> QED BY <2>8, <3>1, <3>2 DEF Search!RecordDecision
  <2> QED BY <2>1, <2>2, <2>3, <2>4, <2>5, <2>6, <2>7, <2>8
<1> QED BY <1>1, <1>2, Elsewhere DEF ChargeInv, Accounts

\* The steps of the proposals; asking charges within the cap.
LEMMA ProposalKeeps ==
    ASSUME Search!EvolutionSearchAssumption, ChargeInv,
           Search!Mine \/ Search!Ask \/ Search!WriteAnswer \/ Search!CompleteAsk
           \/ Search!FailRequest \/ Search!Register \/ Search!WriteBlob
           \/ Search!NextGeneration \/ Search!AskFails \/ Search!AnswerIsInvalid
    PROVE  ChargeInv'
<1>1. UNCHANGED <<calls, dispatched, retracted, thread>>
  BY DEF Search!Mine, Search!Ask, Search!WriteAnswer, Search!CompleteAsk,
         Search!FailRequest, Search!Register, Search!WriteBlob, Search!NextGeneration,
         Search!AskFails, Search!AnswerIsInvalid, Search!History, Search!controller,
         Search!kept
<1>2. charged' \in Nat /\ charged' <= CallCap
  <2>1. charged' = charged \/ (charged < CallCap /\ charged' = charged + 1)
    BY DEF Search!Mine, Search!Ask, Search!WriteAnswer, Search!CompleteAsk,
           Search!FailRequest, Search!Register, Search!WriteBlob, Search!NextGeneration,
           Search!AskFails, Search!AnswerIsInvalid, Search!controller
  <2> QED BY <2>1 DEF ChargeInv, Accounts, Search!EvolutionSearchAssumption
<1>3. IsRun(run)
  BY DEF ChargeInv
<1>4. ASSUME Search!SkipRequest PROVE IsRun(run)' /\ run'.place # "arms"
  BY <1>3, <1>4 DEF Search!SkipRequest, IsRun
<1>5. IsRun(run)' /\ run'.place # "arms"
  <2>1. CASE Search!Mine
    <3>1. PICK n \in 0 .. MaxCandidates :
            run' = [run EXCEPT !.place = IF n = 0 THEN "finished" ELSE "propose",
                               !.request = 1, !.found = <<>>]
      BY <2>1 DEF Search!Mine
    <3> QED BY <1>3, <3>1 DEF IsRun
  <2>2. CASE Search!Ask
    <3>1. Search!SkipRequest \/ Search!To("ask") \/ Search!Refuse("budget")
      BY <2>2 DEF Search!Ask
    <3> QED BY <1>4, <3>1, ToIs, RefuseIs
  <2>3. CASE Search!WriteAnswer \/ Search!AnswerIsInvalid
    BY <2>3, ToIs DEF Search!WriteAnswer, Search!AnswerIsInvalid
  <2>4. CASE Search!CompleteAsk
    BY <2>4, ToIs DEF Search!CompleteAsk
  <2>5. CASE Search!FailRequest \/ Search!AskFails
    BY <1>4, <2>5 DEF Search!FailRequest, Search!AskFails
  <2>6. CASE Search!Register
    <3>1. run.place = "propose"
      BY <2>6 DEF Search!Register, Search!At
    <3>2. CASE run' = [run EXCEPT !.request = @ + 1, !.found = Append(@, Search!Answer)]
      <4>1. run'.place = run.place
        BY <1>3, <3>2 DEF IsRun
      <4>2. IsRun(run)'
        BY <1>3, <3>2 DEF IsRun
      <4> QED BY <3>1, <4>1, <4>2
    <3>3. CASE Search!To("blob")
      BY <3>3, ToIs
    <3>4. CASE Search!Refuse("immutable candidate")
      BY <3>4, RefuseIs
    <3> QED BY <2>6, <3>2, <3>3, <3>4 DEF Search!Register
  <2>7. CASE Search!WriteBlob
    BY <1>3, <2>7 DEF Search!WriteBlob, IsRun
  <2>8. CASE Search!NextGeneration
    <3>1. Search!To("finished") \/ run' = [run EXCEPT !.stage = @ + 1, !.place = "mark"]
      BY <2>8 DEF Search!NextGeneration
    <3>2. CASE run' = [run EXCEPT !.stage = @ + 1, !.place = "mark"]
      BY <1>3, <3>2 DEF IsRun
    <3> QED BY <3>1, <3>2, ToIs
  <2> QED BY <2>1, <2>2, <2>3, <2>4, <2>5, <2>6, <2>7, <2>8
<1> QED BY <1>1, <1>2, <1>5, Elsewhere DEF ChargeInv

\* A kill ends the threads; the operator acts when no search runs.
LEMMA OutsideKeeps ==
    ASSUME ChargeInv, Search!Kill \/ Search!Retract \/ Search!Quarantine
                      \/ Search!RetractRequest
    PROVE  ChargeInv'
<1>1. CASE Search!Kill
  <2>1. IsRun(run)' /\ run'.place # "arms"
    BY <1>1 DEF Search!Kill, Search!Idle, IsRun
  <2>2. UNCHANGED <<calls, charged, dispatched, retracted, thread>>
    BY <1>1 DEF Search!Kill, Search!History, Search!controller
  <2> QED BY <2>1, <2>2, Elsewhere DEF ChargeInv, Accounts
<1>2. CASE Search!RetractRequest
  <2>1. UNCHANGED <<calls, charged, dispatched, retracted, thread, run>> /\ run.place # "arms"
    BY <1>2 DEF Search!RetractRequest, Search!Act, Search!Running
  <2> QED BY <2>1, Elsewhere DEF ChargeInv, Accounts
<1>3. CASE Search!Retract \/ Search!Quarantine
  <2>1. UNCHANGED <<charged, dispatched, thread, run>> /\ run.place # "arms"
    BY <1>3 DEF Search!Retract, Search!Quarantine, Search!Act, Search!Running
  <2>2. Accounts' /\ \A k \in Search!Keys : CallFits(k)'
    <3>1. CASE Search!Retract
      <4>1. PICK k \in Search!Keys : /\ calls[k].status = "reserved"
                              /\ calls' = [calls EXCEPT ![k].status = "retracted"]
                              /\ retracted' = [retracted EXCEPT ![k] = @ + 1]
        BY <3>1 DEF Search!Retract
      <4>2. Accounts'
        BY <2>1, <4>1 DEF ChargeInv, Accounts, CallStatuses
      <4>3. ASSUME NEW j \in Search!Keys PROVE CallFits(j)'
        <5>1. /\ calls'[j].count = calls[j].count /\ calls[j].count \in Nat
              /\ retracted'[j] = IF j = k THEN retracted[j] + 1 ELSE retracted[j]
              /\ j # k => calls'[j] = calls[j]
              /\ retracted[j] \in Nat
          BY <4>1 DEF ChargeInv, Accounts
        <5> QED BY <2>1, <5>1 DEF ChargeInv, CallFits
      <4> QED BY <4>2, <4>3
    <3>2. CASE Search!Quarantine
      <4>1. PICK k \in evidence : calls' = [calls EXCEPT ![k].status = "reserved"]
        BY <3>2 DEF Search!Quarantine
      <4>2. UNCHANGED retracted
        BY <3>2 DEF Search!Quarantine
      <4>3. Accounts'
        BY <2>1, <4>1, <4>2 DEF ChargeInv, Accounts, CallStatuses
      <4>4. \A j \in Search!Keys : calls'[j].count = calls[j].count
                            /\ (calls'[j].status \in {"none", "retracted"} => calls'[j] = calls[j])
        BY <4>1 DEF ChargeInv, Accounts
      <4> QED BY <2>1, <4>2, <4>3, <4>4 DEF ChargeInv, CallFits
    <3> QED BY <1>3, <3>1, <3>2
  <2>3. \A t \in Tasks : HoldsCharge(t)'
    BY <2>1 DEF HoldsCharge, Search!In, Search!At
  <2> QED BY <2>1, <2>2, <2>3 DEF ChargeInv
<1> QED BY <1>1, <1>2, <1>3

-----------------------------------------------------------------------------

\* Every step keeps the accounting.
LEMMA ChargeNext ==
    ASSUME Search!EvolutionSearchAssumption
    PROVE  ChargeInv /\ [Search!Next]_(Search!vars) => ChargeInv'
<1> SUFFICES ASSUME ChargeInv, [Search!Next]_(Search!vars) PROVE ChargeInv'
  OBVIOUS
<1>1. CASE Search!Start \/ Search!ClaimStage
  BY <1>1, BeginKeeps
<1>2. CASE Search!MarkCandidates \/ Search!Join \/ Search!CompleteStage \/ Search!Eliminate
           \/ Search!Select
           \/ Search!RecordRollback \/ Search!AdvanceParent \/ Search!RecordDecision
  BY <1>2, StageKeeps
<1>3. CASE Search!Mine \/ Search!Ask \/ Search!WriteAnswer \/ Search!CompleteAsk
           \/ Search!FailRequest \/ Search!Register \/ Search!WriteBlob
           \/ Search!NextGeneration \/ Search!AskFails \/ Search!AnswerIsInvalid
  BY <1>3, ProposalKeeps
<1>4. CASE \E t \in Tasks : Search!Thread(t) \/ Search!ArmFails(t)
  BY <1>4, ReserveKeeps, DispatchKeeps, RecordEvidenceKeeps, ThreadKeeps DEF Search!Thread
<1>5. CASE Search!Kill \/ Search!Retract \/ Search!Quarantine \/ Search!RetractRequest
  BY <1>5, OutsideKeeps
<1>6. CASE UNCHANGED Search!vars
  <2>1. UNCHANGED <<claims, calls, charged, dispatched, retracted, run, thread>>
    BY <1>6 DEF Search!vars, Search!controller, Search!kept
  <2>2. Accounts' /\ thread' \in [Tasks -> Threads] /\ IsRun(run)'
    BY <2>1 DEF ChargeInv, Accounts
  <2>3. \A k \in Search!Keys : CallFits(k)'
    BY <2>1 DEF ChargeInv, CallFits
  <2>4. \A t \in Tasks : HoldsCharge(t)'
    BY <2>1 DEF ChargeInv, HoldsCharge, Search!In, Search!At, Search!Key
  <2> QED BY <2>2, <2>3, <2>4 DEF ChargeInv
<1> QED BY <1>1, <1>2, <1>3, <1>4, <1>5, <1>6 DEF Search!Next, Search!Step

-----------------------------------------------------------------------------
(* The plan of stages and the archive of candidates.                      *)

\* The states of a candidate, and those of one whose scout stage was claimed.
CandidateStates == {"none", "directory", "inactive", "evaluating", "rejected", "selected"}
Evaluated == {"evaluating", "rejected", "selected"}

Deciding == {"select", "rollback", "advance", "decide"}
Proposing == {"propose", "ask", "answered", "blob"}

Claimed(s) == claims[s].status # "none"
Complete(s) == claims[s].status = "complete"

\* p was proposed in generation g.
Of(g, p) == registered[p].by # <<>> /\ registered[p].by[1] = g
Enters(g, p) == Of(g, p) /\ registered[p].state \in Evaluated \cup {"inactive"}
Entered(g, p) == Of(g, p) /\ registered[p].state \in Evaluated

RunType ==
    /\ IsRun(run) /\ run.stage \in Search!Stages /\ run.request \in Nat
    /\ run.found \in Seq(Programs)

ArchiveType ==
    /\ registered \in [Programs -> [by : {<<>>} \cup (Nat \X Nat \X {1}),
                                    state : CandidateStates]]
    /\ \A p \in Programs : registered[p].by = <<>> <=> registered[p].state = "none"

ClaimsType ==
    /\ claims \in [Search!Stages -> [arms : Seq(Programs),
                                     status : {"none", "claimed", "complete"}]]
    /\ outcome = [s \in Search!Stages |-> outcome[s]]

PlanType == ClaimsType /\ ArchiveType /\ RunType

\* A stage: its outcome is what its evidence may say, its arms are distinct, and its
\* candidates come from the generation before, or from the stage before.
StageInv(s) ==
    /\ Complete(s) => outcome[s] \in Search!Outcomes(s)
    /\ ~Complete(s) => outcome[s] = None
    /\ Claimed(s) =>
        /\ claims[s].arms = <<Original, claims[s].arms[2]>> \o Search!Candidates(s)
        /\ claims[s].arms[2] \in Programs /\ Search!Candidates(s) \in Seq(Programs)
        /\ Search!IsInjective(claims[s].arms)
        /\ \A r \in Search!Stages : r < s => Complete(r)
        /\ s = 1 => Search!Candidates(s) = <<>>
        /\ s > 1 /\ ~Search!IsScout(s) => Search!Candidates(s) = outcome[s - 1]
        /\ s > 1 => \A p \in Search!ToSet(Search!Candidates(s)) :
                        Entered(Search!Generation(s) - 1, p)

\* Where the run is in the plan, and what it has in hand there.
Reached(s) == \A r \in Search!Stages : r < s => Complete(r)
MarkFits ==
    /\ run.place = "mark" /\ Search!IsScout(run.stage)
    /\ \A p \in Search!ToSet(run.found) : Enters(Search!Generation(run.stage) - 1, p)
ClaimFits ==
    /\ run.place = "claim"
    /\ Search!IsScout(run.stage) =>
         \A p \in Search!ToSet(run.found) : Entered(Search!Generation(run.stage) - 1, p)
ArmsFit == run.place \in {"arms", "complete"} /\ Claimed(run.stage)
EliminateFits ==
    /\ run.place = "eliminate" /\ Complete(run.stage)
    /\ run.stage # 1 /\ ~Search!IsConfirmation(run.stage)
DecideFits ==
    run.place \in Deciding /\ Complete(run.stage) /\ Search!IsConfirmation(run.stage)
Ended(s) ==
    /\ Complete(s) /\ (s = 1 \/ Search!IsConfirmation(s))
MineFits == run.place = "mine" /\ Ended(run.stage)
ProposeFits ==
    /\ run.place \in Proposing /\ Ended(run.stage)
    /\ \A p \in Search!ToSet(run.found) : Enters(Search!Generation(run.stage), p)
BlobFits ==
    run.place = "blob" =>
        /\ Search!Answer \in Programs
        /\ registered[Search!Answer] = [by |-> Search!Request(1), state |-> "directory"]
PlaceInv ==
    Search!Running =>
        /\ Reached(run.stage) /\ BlobFits
        /\ \/ MarkFits \/ ClaimFits \/ ArmsFit \/ EliminateFits \/ DecideFits
           \/ MineFits \/ ProposeFits

PlanInv == PlanType /\ (\A s \in Search!Stages : StageInv(s)) /\ PlaceInv

-----------------------------------------------------------------------------
\* The search parent after n decisions.
ParentAfter(n) == IF n = 0 THEN Seed ELSE history[n].parent
Final(g) == 3 * g + 1
Winner(g) == outcome[3 * g][1]

\* What is decided of generation g.
Verdict(g) == [generation |-> g, previous |-> claims[Final(g)].arms[2],
               parent |-> IF outcome[Final(g)] THEN Winner(g) ELSE claims[Final(g)].arms[2]]

DecisionInv ==
    /\ history \in Seq([generation : Nat, previous : Programs, parent : Programs])
    /\ Len(history) <= Generations
    /\ \A g \in 1 .. Len(history) : Complete(Final(g)) /\ history[g] = Verdict(g)
    /\ \A s \in Search!Stages : s > 1 /\ Claimed(s) =>
         /\ Search!Generation(s) <= Len(history) + 1
         /\ claims[s].arms[2] = ParentAfter(Search!Generation(s) - 1)

\* The i-th search parent of the archive won the confirmation of generation g.
WonBy(i, g) ==
    /\ Complete(Final(g)) /\ outcome[Final(g)] = TRUE
    /\ Winner(g) = lineage[i] /\ claims[Final(g)].arms[2] = lineage[i - 1]
    /\ registered[lineage[i]].state = "selected" /\ lineage[i] \in rolledBack

\* at leads along the decisions through the lineage, which is ahead by one at most.
Trail(at) ==
    /\ at \in [0 .. Len(history) -> 1 .. Len(lineage)] /\ at[0] = 1
    /\ \A i \in 0 .. Len(history) : lineage[at[i]] = ParentAfter(i)
    /\ \A i \in 1 .. Len(history) :
         at[i] = IF history[i].parent = history[i].previous THEN at[i - 1] ELSE at[i - 1] + 1
    /\ Len(lineage) <= at[Len(history)] + 1
Walk(at) ==
    /\ Trail(at)
    /\ \A i \in 2 .. Len(lineage) : \E g \in 1 .. Generations :
         WonBy(i, g) /\ g <= Len(history) + 1 /\ (g <= Len(history) <=> i <= at[Len(history)])

ArchiveInv ==
    /\ lineage \in Seq(Programs) /\ Len(lineage) > 0 /\ lineage[1] = Seed
    /\ \E at \in [0 .. Len(history) -> 1 .. Len(lineage)] : Walk(at)

DecidingInv ==
    LET s == run.stage IN
    Search!Running =>
        /\ Search!Generation(s) <= Len(history) + 1
        /\ run.place \in {"mine"} \cup Proposing => Search!Generation(s) <= Len(history)
        /\ run.place \in {"rollback", "advance"} =>
             outcome[s] = TRUE /\ registered[Search!Champion].state = "selected"
        /\ run.place = "advance" => Search!Champion \in rolledBack
        /\ run.place = "decide" /\ outcome[s] =>
             Search!Follows(Search!Champion, Search!PreviousParent)

LineageInv == DecisionInv /\ ArchiveInv /\ DecidingInv

-----------------------------------------------------------------------------
\* Why a candidate is out, and why one is selected.
LostAt(p, s) ==
    /\ s > 1 /\ Complete(s) /\ p \in Search!ToSet(Search!Candidates(s))
    /\ IF Search!IsConfirmation(s) THEN outcome[s] = FALSE
       ELSE p \notin Search!ToSet(outcome[s])
WonAt(p, s) ==
    /\ Search!IsConfirmation(s) /\ Complete(s) /\ outcome[s] = TRUE
    /\ p \in Search!ToSet(Search!Candidates(s))

ReasonInv ==
    \A p \in Programs :
        /\ registered[p].state = "rejected" => \E s \in Search!Stages : LostAt(p, s)
        /\ registered[p].state = "selected" => \E s \in Search!Stages : WonAt(p, s)

-----------------------------------------------------------------------------
AttemptOf(g, k) == IF raws[<<g, k, 1>>] = "invalid" THEN 2 ELSE 1
AnswerOf(g, k) == raws[<<g, k, AttemptOf(g, k)>>]

\* Request k of generation g has no candidate, now and in every later run.
Failed(g, k) ==
    \/ AnswerOf(g, k) = "invalid"
    \/ AnswerOf(g, k) = None /\ asked[<<g, k, AttemptOf(g, k)>>] \in {"reserved", "completed"}

\* f holds the candidates of the first n requests of generation g, in their order.
Ordered(g, f, n) ==
    /\ \A i \in DOMAIN f : \E k \in 1 .. n : registered[f[i]].by = <<g, k, 1>>
    /\ \A i, j \in DOMAIN f : i < j => registered[f[i]].by[2] < registered[f[j]].by[2]
Settled(g, f, n) ==
    \A k \in 1 .. n : Failed(g, k) \/ \E i \in DOMAIN f : registered[f[i]].by = <<g, k, 1>>
\* f is what the requests before the n-th leave of c.
Before(f, c, n) ==
    /\ Len(f) <= Len(c) /\ \A i \in DOMAIN f : f[i] = c[i]
    /\ \A i \in DOMAIN c : i \in DOMAIN f <=> registered[c[i]].by[2] < n

AskedType ==
    /\ raws \in [Search!Requests -> Programs \cup {None, "invalid"}]
    /\ asked \in [Search!Requests -> {"none", "reserved", "completed", "retracted"}]
    /\ wanted \in [0 .. Generations -> (0 .. MaxCandidates) \cup {None}]
    /\ reopened \in BOOLEAN

\* A candidate is what its request was answered with.
AnsweredInv ==
    \A p \in Programs : registered[p].by # <<>> =>
        \E g \in 0 .. Generations, k \in 1 .. MaxCandidates :
            registered[p].by = <<g, k, 1>> /\ AnswerOf(g, k) = p

\* The candidates of a scout stage are those of all requests of the generation before.
EntrantsInv ==
    \A s \in Search!Stages : Search!IsScout(s) /\ Claimed(s) =>
        LET g == Search!Generation(s) - 1 IN
        /\ wanted[g] # None
        /\ ~reopened => /\ Ordered(g, Search!Candidates(s), wanted[g])
                        /\ Settled(g, Search!Candidates(s), wanted[g])

\* f is what the requests of generation g before the q-th leave, and so it was before.
Onward(s) == s + 1 \in Search!Stages /\ Claimed(s + 1)
Asks(s, g, q, f) ==
    /\ wanted[g] # None /\ q \in 1 .. wanted[g] + 1
    /\ ~reopened => /\ Ordered(g, f, q - 1) /\ Settled(g, f, q - 1)
                    /\ Onward(s) => Before(f, Search!Candidates(s + 1), q)
AskingFits ==
    LET s == run.stage
        g == Search!Generation(s)
        q == run.request
    IN  /\ Asks(s, g, q, run.found)
        /\ run.place # "propose" => q <= wanted[g] /\ (reopened \/ ~Onward(s))
        /\ run.place = "ask" =>
             AnswerOf(g, q) = None /\ asked[<<g, q, AttemptOf(g, q)>>] = "reserved"

\* f is what all requests of generation g leave, and so it was before.
Founds(s, g, f) ==
    /\ wanted[g] # None
    /\ ~reopened => /\ Ordered(g, f, wanted[g]) /\ Settled(g, f, wanted[g])
                    /\ Claimed(s) => f = Search!Candidates(s)
FoundFits == Founds(run.stage, Search!Generation(run.stage) - 1, run.found)

RequestInv ==
    /\ run.place \in Proposing => AskingFits
    /\ run.place \in {"mark", "claim"} /\ Search!IsScout(run.stage) => FoundFits

AskedInv == AskedType /\ AnsweredInv /\ EntrantsInv /\ RequestInv

-----------------------------------------------------------------------------
(* The numbers of stages, and the candidates of a claim.                   *)

\* Stage 1 measures the seed; then each generation has three stages, from its scout on.
LEMMA StageNumbers ==
    ASSUME Search!EvolutionSearchAssumption, NEW s \in Search!Stages
    PROVE  /\ s \in Nat /\ s >= 1 /\ Search!Generation(s) \in 0 .. Generations
           /\ s = 1 => Search!Generation(s) = 0 /\ ~Search!IsScout(s) /\ ~Search!IsConfirmation(s)
           /\ s > 1 => Search!Generation(s) >= 1
           /\ Search!IsScout(s) => s = 3 * Search!Generation(s) - 1
           /\ Search!IsConfirmation(s) => s = 3 * Search!Generation(s) + 1
           /\ s > 1 /\ ~Search!IsScout(s) /\ ~Search!IsConfirmation(s) =>
                s = 3 * Search!Generation(s)
BY DEF Search!EvolutionSearchAssumption, Search!Stages, Search!Generation, Search!IsScout,
       Search!IsConfirmation

\* What the number of a stage says of the stages before and after it.
LEMMA NextStageNumbers ==
    ASSUME Search!EvolutionSearchAssumption, NEW s \in Search!Stages
    PROVE  /\ s = 1 \/ Search!IsConfirmation(s) =>
                Search!IsScout(s + 1) /\ Search!Generation(s + 1) = Search!Generation(s) + 1
           /\ s # 1 /\ ~Search!IsConfirmation(s) =>
                /\ ~Search!IsScout(s + 1) /\ Search!Generation(s + 1) = Search!Generation(s)
                /\ s + 1 \in Search!Stages
           /\ Search!IsScout(s) => ~Search!IsConfirmation(s)
BY DEF Search!EvolutionSearchAssumption, Search!Stages, Search!Generation, Search!IsScout,
       Search!IsConfirmation

\* The stages of generation g.
LEMMA FinalNumbers ==
    ASSUME Search!EvolutionSearchAssumption, NEW g \in 1 .. Generations
    PROVE  /\ {3 * g - 1, 3 * g, 3 * g + 1} \subseteq Search!Stages
           /\ Search!IsScout(3 * g - 1) /\ Search!Generation(3 * g - 1) = g
           /\ ~Search!IsScout(3 * g) /\ ~Search!IsConfirmation(3 * g)
           /\ Search!Generation(3 * g) = g
           /\ Search!IsConfirmation(3 * g + 1) /\ Search!Generation(3 * g + 1) = g
BY DEF Search!EvolutionSearchAssumption, Search!Stages, Search!Generation, Search!IsScout,
       Search!IsConfirmation

LEMMA ArmsAre ==
    ASSUME NEW a \in Programs, NEW b \in Programs, NEW c \in Seq(Programs)
    PROVE  LET arms == <<a, b>> \o c IN
           /\ arms \in Seq(Programs) /\ Len(arms) = 2 + Len(c)
           /\ SubSeq(arms, 3, Len(arms)) = c /\ arms[1] = a /\ arms[2] = b
           /\ \A i \in 1 .. Len(c) : arms[i + 2] = c[i]
OBVIOUS

LEMMA SetOfIs ==
    ASSUME NEW f \in Seq(Programs)
    PROVE  /\ Search!ToSet(f) \subseteq Programs
           /\ \A p : p \in Search!ToSet(f) <=> \E i \in 1 .. Len(f) : f[i] = p
BY DEF Search!ToSet

-----------------------------------------------------------------------------
(* What the place of the run says.                                         *)

\* The place of a run says which of the alternatives of PlaceInv holds.
LEMMA PlaceIs ==
    ASSUME PlaceInv
    PROVE  /\ Search!Running => Reached(run.stage) /\ BlobFits
           /\ run.place = "mark" => MarkFits
           /\ run.place = "claim" => ClaimFits
           /\ run.place \in {"arms", "complete"} => ArmsFit
           /\ run.place = "eliminate" => EliminateFits
           /\ run.place \in Deciding => DecideFits
           /\ run.place = "mine" => MineFits
           /\ run.place \in Proposing => ProposeFits
BY DEF PlaceInv, Search!Running, MarkFits, ClaimFits, ArmsFit, EliminateFits, DecideFits,
       MineFits, ProposeFits, Deciding, Proposing

\* Where the run is in a place.
LEMMA RunningIs ==
    ASSUME run.place \in {"mark", "claim", "arms", "complete", "eliminate", "mine"}
                        \cup Deciding \cup Proposing
    PROVE  Search!Running
BY DEF Search!Running, Deciding, Proposing
-----------------------------------------------------------------------------
(* What is on disk only grows.                                             *)

\* Claims, outcomes and registrations stay, and the states of candidates go one way.
ArchiveGrows ==
    \A p \in Programs :
        /\ registered[p].by # <<>> => registered'[p].by = registered[p].by
        /\ registered[p].state \in Evaluated \cup {"inactive"} =>
             registered'[p].state \in Evaluated \cup {"inactive"}
        /\ registered[p].state \in Evaluated => registered'[p].state \in Evaluated
        /\ registered[p].state \in {"rejected", "selected"} =>
             registered'[p].state = registered[p].state
ClaimGrows(s) ==
    /\ Claimed(s) => Claimed(s)' /\ claims'[s].arms = claims[s].arms
    /\ Complete(s) => Complete(s)' /\ outcome'[s] = outcome[s]
Grows == ArchiveGrows /\ \A s \in Search!Stages : ClaimGrows(s)

\* Whoever leaves the registrations alone leaves the archive as it was.
LEMMA ArchiveStays ==
    ASSUME ArchiveType, UNCHANGED registered PROVE ArchiveType' /\ ArchiveGrows
BY DEF ArchiveType, ArchiveGrows

\* One candidate is given another state or is registered.
LEMMA OneMoves ==
    ASSUME ArchiveType, NEW p,
           NEW r \in [by : Nat \X Nat \X {1}, state : CandidateStates \ {"none"}],
           registered' = [registered EXCEPT ![p] = r],
           registered[p].by \in {<<>>, r.by},
           \/ registered[p].state \in {"none", "directory"}
           \/ registered[p].state = "evaluating" /\ r.state \in Evaluated
    PROVE  ArchiveType' /\ ArchiveGrows
<1>1. \A q \in Programs : registered'[q] = IF q = p THEN r ELSE registered[q]
    BY DEF ArchiveType
<1>2. r.by # <<>> /\ r.state # "none"
    <2>1. r.by \in Nat \X Nat \X {1} /\ r.state \in CandidateStates \ {"none"}
        OBVIOUS
    <2>2. PICK g \in Nat, k \in Nat : r.by = <<g, k, 1>>
        BY <2>1
    <2> QED
        BY <2>1, <2>2
<1>3. ArchiveType'
    BY <1>1, <1>2 DEF ArchiveType
<1>4. ArchiveGrows
    BY <1>1, <1>2 DEF ArchiveType, ArchiveGrows, Evaluated
<1> QED
    BY <1>3, <1>4

\* A transition moves one candidate, along the table of EvolutionTransition.
LEMMA TransitionMoves ==
    ASSUME ArchiveType, NEW p \in Programs, NEW state \in {"rejected", "selected"}, NEW place,
           Search!Transition(p, state, place)
    PROVE  ArchiveType' /\ ArchiveGrows
<1>1. CASE registered' = registered
    BY <1>1, ArchiveStays
<1>2. CASE /\ registered[p].state = "evaluating"
           /\ registered' = [registered EXCEPT ![p].state = state]
    <2> DEFINE r == [registered[p] EXCEPT !.state = state]
    <2>1. registered[p].by \in Nat \X Nat \X {1}
        BY <1>2 DEF ArchiveType
    <2>2. r = [by |-> registered[p].by, state |-> state]
        BY DEF ArchiveType
    <2>3. r \in [by : Nat \X Nat \X {1}, state : CandidateStates \ {"none"}]
        BY <2>1, <2>2 DEF CandidateStates
    <2>4. r.by = registered[p].by /\ r.state \in Evaluated
        BY <2>2 DEF Evaluated
    <2>5. registered' = [registered EXCEPT ![p] = r]
        BY <1>2
    <2> HIDE DEF r
    <2> QED
        BY <1>2, <2>3, <2>4, <2>5, OneMoves
<1> QED
    BY <1>1, <1>2 DEF Search!Transition

\* Marking the candidates of a scout stage moves those that are not yet evaluated.
LEMMA MarkMoves ==
    ASSUME ArchiveType, Search!MarkCandidates PROVE ArchiveType' /\ ArchiveGrows
<1>1. \A p \in Programs :
        \/ registered'[p] = registered[p]
        \/ /\ registered[p].state = "inactive"
           /\ registered'[p] = [registered[p] EXCEPT !.state = "evaluating"]
    BY DEF Search!MarkCandidates
<1>2. DOMAIN registered' = Programs /\ registered' = [p \in Programs |-> registered'[p]]
    BY DEF Search!MarkCandidates
<1>3. ASSUME NEW p \in Programs
      PROVE  \/ registered'[p] = registered[p]
             \/ /\ registered[p].state = "inactive"
                /\ registered'[p] = [by |-> registered[p].by, state |-> "evaluating"]
    <2>1. registered[p] = [by |-> registered[p].by, state |-> registered[p].state]
        BY DEF ArchiveType
    <2>2. [registered[p] EXCEPT !.state = "evaluating"]
          = [by |-> registered[p].by, state |-> "evaluating"]
        BY <2>1
    <2> QED
        BY <1>1, <2>2
<1>4. ASSUME NEW p \in Programs
      PROVE  registered'[p] \in [by : {<<>>} \cup (Nat \X Nat \X {1}), state : CandidateStates]
    <2>1. /\ registered[p] \in [by : {<<>>} \cup (Nat \X Nat \X {1}), state : CandidateStates]
          /\ registered[p].by \in {<<>>} \cup (Nat \X Nat \X {1})
        BY DEF ArchiveType
    <2>2. "evaluating" \in CandidateStates
        BY DEF CandidateStates
    <2>3. [by |-> registered[p].by, state |-> "evaluating"]
          \in [by : {<<>>} \cup (Nat \X Nat \X {1}), state : CandidateStates]
        BY <2>1, <2>2
    <2> QED
        BY <1>3, <2>1, <2>3
<1>6. ASSUME NEW p \in Programs
      PROVE  /\ registered'[p].by = registered[p].by
             /\ \/ registered'[p].state = registered[p].state
                \/ registered[p].state = "inactive" /\ registered'[p].state = "evaluating"
    <2>1. CASE registered'[p] = registered[p]
        BY <2>1
    <2>2. CASE /\ registered[p].state = "inactive"
               /\ registered'[p] = [by |-> registered[p].by, state |-> "evaluating"]
        BY <2>2
    <2> QED
        BY <1>3, <2>1, <2>2
<1>5. ArchiveType'
    <2>1. \A p \in Programs : registered'[p].by = <<>> <=> registered'[p].state = "none"
        BY <1>6 DEF ArchiveType
    <2> QED
        BY <1>2, <1>4, <2>1 DEF ArchiveType
<1>7. ArchiveGrows
    BY <1>6 DEF ArchiveGrows, Evaluated
<1> QED
    BY <1>5, <1>7

LEMMA RequestIs ==
    ASSUME Search!EvolutionSearchAssumption, RunType
    PROVE  /\ Search!Request(1) \in Nat \X Nat \X {1}
           /\ Search!Request(1)[1] = Search!Generation(run.stage)
<1>1. Search!Generation(run.stage) \in Nat
    BY StageNumbers DEF RunType
<1> QED
    BY <1>1 DEF Search!Request, RunType

\* A candidate is registered once, under the request it answers.
LEMMA RegisterMoves ==
    ASSUME Search!EvolutionSearchAssumption, PlanType, Search!Register
    PROVE  ArchiveType' /\ ArchiveGrows
<1>1. CASE registered' = registered
    BY <1>1, ArchiveStays DEF PlanType
<1>2. CASE /\ registered[Search!Answer] = Search!Unknown
           /\ registered' = [registered EXCEPT ![Search!Answer] =
                                [by |-> Search!Request(1), state |-> "directory"]]
    <2> DEFINE r == [by |-> Search!Request(1), state |-> "directory"]
    <2>1. r \in [by : Nat \X Nat \X {1}, state : CandidateStates \ {"none"}]
        BY RequestIs DEF CandidateStates, PlanType
    <2>2. registered[Search!Answer].by = <<>> /\ registered[Search!Answer].state = "none"
        BY <1>2 DEF Search!Unknown
    <2>3. registered' = [registered EXCEPT ![Search!Answer] = r]
        BY <1>2
    <2> HIDE DEF r
    <2> QED
        BY <2>1, <2>2, <2>3, OneMoves DEF PlanType
<1> QED
    BY <1>1, <1>2 DEF Search!Register

\* The blob of a registered candidate makes it inactive, which it may become once.
LEMMA BlobMoves ==
    ASSUME Search!EvolutionSearchAssumption, PlanType, PlaceInv, Search!WriteBlob
    PROVE  ArchiveType' /\ ArchiveGrows
<1> DEFINE r == [by |-> Search!Request(1), state |-> "inactive"]
<1>1. registered[Search!Answer] = [by |-> Search!Request(1), state |-> "directory"]
    BY PlaceIs, RunningIs DEF Search!WriteBlob, Search!At, Proposing, BlobFits
<1>2. registered' = [registered EXCEPT ![Search!Answer] = r]
    <2>1. [registered[Search!Answer] EXCEPT !.state = "inactive"] = r
        BY <1>1
    <2> QED
        BY <2>1 DEF Search!WriteBlob
<1>3. r \in [by : Nat \X Nat \X {1}, state : CandidateStates \ {"none"}]
    BY RequestIs DEF CandidateStates, PlanType
<1>4. r.by = Search!Request(1)
    OBVIOUS
<1>5. /\ registered[Search!Answer].by = Search!Request(1)
      /\ registered[Search!Answer].state = "directory"
    BY <1>1
<1> HIDE DEF r
<1> QED
    BY <1>2, <1>3, <1>4, <1>5, OneMoves DEF PlanType

-----------------------------------------------------------------------------
(* A stage.                                                                *)

LEMMA EnteredStays ==
    ASSUME Grows, NEW g, NEW p \in Programs
    PROVE  /\ Of(g, p) => Of(g, p)'
           /\ Entered(g, p) => Entered(g, p)'
           /\ Enters(g, p) => Enters(g, p)'
BY DEF Grows, ArchiveGrows, Of, Entered, Enters

\* A stage that is on disk stays as it is when the archive grows.
LEMMA StageStays ==
    ASSUME Search!EvolutionSearchAssumption, \A r \in Search!Stages : StageInv(r), Grows,
           NEW s \in Search!Stages, claims'[s] = claims[s], outcome'[s] = outcome[s]
    PROVE  StageInv(s)'
<1>1. Search!Candidates(s)' = Search!Candidates(s)
    BY DEF Search!Candidates
<1>2. Search!Outcomes(s)' = Search!Outcomes(s)
    BY <1>1 DEF Search!Outcomes
<1>3. /\ Complete(s)' = Complete(s) /\ Claimed(s)' = Claimed(s)
      /\ StageInv(s)
    BY DEF Complete, Claimed
<1>4. ASSUME Claimed(s), NEW r \in Search!Stages, r < s PROVE Complete(r)'
    BY <1>3, <1>4 DEF StageInv, Grows, ClaimGrows
<1>5. ASSUME Claimed(s), s > 1, ~Search!IsScout(s) PROVE Search!Candidates(s) = outcome'[s - 1]
    <2>1. s - 1 \in Search!Stages /\ s - 1 < s
        BY <1>5 DEF Search!Stages, Search!EvolutionSearchAssumption
    <2>2. Complete(s - 1)
        BY <1>3, <1>5, <2>1 DEF StageInv
    <2> QED
        BY <1>3, <1>5, <2>1, <2>2 DEF StageInv, Grows, ClaimGrows
<1>6. ASSUME Claimed(s), s > 1, NEW p \in Search!ToSet(Search!Candidates(s))
      PROVE  Entered(Search!Generation(s) - 1, p)'
    <2>1. p \in Programs
        BY <1>3, <1>6, SetOfIs DEF StageInv
    <2>2. Entered(Search!Generation(s) - 1, p)
        BY <1>3, <1>6 DEF StageInv
    <2> QED
        BY <2>1, <2>2, EnteredStays
<1> QED
    BY <1>1, <1>2, <1>3, <1>4, <1>5, <1>6 DEF StageInv

\* The finalists of a stage are candidates of it, and the champion's stage leaves one.
LEMMA OutcomeIs ==
    ASSUME Search!EvolutionSearchAssumption, NEW s \in Search!Stages, StageInv(s), Complete(s)
    PROVE  /\ s = 1 \/ Search!IsConfirmation(s) => outcome[s] \in BOOLEAN
           /\ s # 1 /\ ~Search!IsConfirmation(s) =>
                /\ outcome[s] \in Seq(Programs)
                /\ Search!ToSet(outcome[s]) \subseteq Search!ToSet(Search!Candidates(s))
                /\ ~Search!IsScout(s) => Len(outcome[s]) = 1
<1>1. Search!Candidates(s) \in Seq(Programs) /\ outcome[s] \in Search!Outcomes(s)
    BY DEF StageInv, Complete, Claimed
<1>2. ASSUME s = 1 \/ Search!IsConfirmation(s) PROVE outcome[s] \in BOOLEAN
    BY <1>1, <1>2 DEF Search!Outcomes
<1>3. ASSUME s # 1, ~Search!IsConfirmation(s)
      PROVE  /\ outcome[s] \in Seq(Programs)
             /\ Search!ToSet(outcome[s]) \subseteq Search!ToSet(Search!Candidates(s))
             /\ ~Search!IsScout(s) => Len(outcome[s]) = 1
    <2> DEFINE m == IF Search!IsScout(s) THEN Search!LEQ(MaxFinalists, Len(Search!Candidates(s)))
                    ELSE 1
    <2>1. m \in Nat
        BY <1>1 DEF Search!LEQ, Search!EvolutionSearchAssumption
    <2>2. outcome[s] \in [1 .. m -> Search!ToSet(Search!Candidates(s))]
        BY <1>1, <1>3 DEF Search!Outcomes
    <2>3. ~Search!IsScout(s) => m = 1
        OBVIOUS
    <2> HIDE DEF m
    <2>4. Search!ToSet(Search!Candidates(s)) \subseteq Programs
        BY <1>1, SetOfIs
    <2>5. outcome[s] \in Seq(Search!ToSet(Search!Candidates(s))) /\ Len(outcome[s]) = m
        BY <2>1, <2>2
    <2>6. outcome[s] \in Seq(Programs)
        BY <2>1, <2>2, <2>4
    <2>7. Search!ToSet(outcome[s]) \subseteq Search!ToSet(Search!Candidates(s))
        BY <2>2 DEF Search!ToSet
    <2> QED
        BY <2>3, <2>5, <2>6, <2>7
<1> QED
    BY <1>2, <1>3

\* Who contends at a stage that is claimed.
LEMMA ContendersAre ==
    ASSUME Search!EvolutionSearchAssumption, PlanInv, Search!At("claim")
    PROVE  LET s == run.stage IN
           /\ Search!Contenders \in Seq(Programs)
           /\ s = 1 => Search!Contenders = <<>>
           /\ s > 1 /\ ~Search!IsScout(s) =>
                /\ Search!Contenders = outcome[s - 1] /\ s - 1 \in Search!Stages
                /\ Complete(s - 1)
           /\ s > 1 => \A p \in Search!ToSet(Search!Contenders) :
                           Entered(Search!Generation(s) - 1, p)
<1> DEFINE s == run.stage
<1>1. s \in Search!Stages /\ s \in Nat /\ s >= 1 /\ run.found \in Seq(Programs)
    BY StageNumbers DEF PlanInv, PlanType, RunType
<1>2. /\ \A r \in Search!Stages : r < s => Complete(r)
      /\ Search!IsScout(s) => \A p \in Search!ToSet(run.found) :
                                  Entered(Search!Generation(s) - 1, p)
    BY PlaceIs, RunningIs DEF PlanInv, Reached, ClaimFits, Search!At
<1>3. CASE s = 1
    BY <1>3 DEF Search!Contenders
<1>4. CASE s > 1 /\ Search!IsScout(s)
    BY <1>1, <1>2, <1>4 DEF Search!Contenders
<1>5. CASE s > 1 /\ ~Search!IsScout(s)
    <2> DEFINE r == s - 1
    <2>1. r \in Search!Stages /\ r < s /\ r + 1 = s
        BY <1>1, <1>5 DEF Search!Stages, Search!EvolutionSearchAssumption
    <2>2. Complete(r) /\ StageInv(r) /\ Claimed(r)
        BY <1>2, <2>1 DEF PlanInv, Complete, Claimed
    <2>3. Search!Contenders = outcome[r]
        BY <1>5 DEF Search!Contenders
    <2> HIDE DEF r
    <2>4. r # 1 /\ ~Search!IsConfirmation(r) /\ Search!Generation(r) = Search!Generation(s)
        BY <1>5, <2>1, NextStageNumbers
    <2>5. /\ outcome[r] \in Seq(Programs)
          /\ Search!ToSet(outcome[r]) \subseteq Search!ToSet(Search!Candidates(r))
        BY <2>1, <2>2, <2>4, OutcomeIs
    <2>6. r > 1
        BY <2>1, <2>4, StageNumbers
    <2>7. \A p \in Search!ToSet(Search!Candidates(r)) : Entered(Search!Generation(s) - 1, p)
        BY <2>2, <2>4, <2>6 DEF StageInv
    <2>8. r = s - 1
        BY DEF r
    <2> QED
        BY <1>5, <2>1, <2>2, <2>3, <2>5, <2>7, <2>8
<1> QED
    BY <1>1, <1>3, <1>4, <1>5

\* A stage is claimed.
LEMMA ClaimMoves ==
    ASSUME Search!EvolutionSearchAssumption, PlanInv, Search!Parent \in Programs,
           Search!ClaimStage
    PROVE  /\ ArchiveType' /\ Grows /\ ClaimsType'
           /\ \A r \in Search!Stages : StageInv(r)'
<1>1. ArchiveType' /\ ArchiveGrows /\ outcome' = outcome
    BY ArchiveStays DEF PlanInv, PlanType, Search!ClaimStage, Search!archive, Search!files
<1>2. CASE claims' = claims
    <2>1. Grows
        BY <1>1, <1>2 DEF Grows, ClaimGrows, Claimed, Complete
    <2>2. \A r \in Search!Stages : StageInv(r)'
        BY <1>1, <1>2, <2>1, StageStays DEF PlanInv
    <2>3. ClaimsType'
        BY <1>1, <1>2 DEF ClaimsType, PlanInv, PlanType
    <2> QED
        BY <1>1, <2>1, <2>2, <2>3
<1>3. CASE claims' # claims
    <2> DEFINE arms == <<Original, Search!Parent>> \o Search!Contenders
    <2>1. PICK s \in Search!Stages : s = run.stage
        BY DEF PlanInv, PlanType, RunType
    <2>2. /\ claims[s].status = "none" /\ Search!IsInjective(arms)
          /\ claims' = [claims EXCEPT ![s] = [arms |-> arms, status |-> "claimed"]]
        BY <1>3, <2>1 DEF Search!ClaimStage
    <2>3. /\ Search!Contenders \in Seq(Programs)
          /\ s = 1 => Search!Contenders = <<>>
          /\ s > 1 /\ ~Search!IsScout(s) => Search!Contenders = outcome[s - 1]
          /\ s > 1 => \A p \in Search!ToSet(Search!Contenders) :
                          Entered(Search!Generation(s) - 1, p)
        BY <2>1, ContendersAre DEF Search!ClaimStage
    <2>4. /\ arms \in Seq(Programs) /\ SubSeq(arms, 3, Len(arms)) = Search!Contenders
          /\ arms[2] = Search!Parent
        BY <2>3, ArmsAre DEF Search!EvolutionSearchAssumption
    <2>5. \A r \in Search!Stages : r < s => Complete(r)
        BY <2>1, PlaceIs, RunningIs DEF PlanInv, Reached, Search!ClaimStage, Search!At
    <2> HIDE DEF arms
    <2>6. /\ claims'[s] = [arms |-> arms, status |-> "claimed"]
          /\ \A r \in Search!Stages \ {s} : claims'[r] = claims[r]
        BY <2>2 DEF PlanInv, PlanType, ClaimsType
    <2>7. Grows
        BY <1>1, <2>2, <2>6 DEF Grows, ClaimGrows, Claimed, Complete
    <2>8. /\ Search!Candidates(s)' = Search!Contenders
          /\ Search!Candidates(s)' \in Seq(Programs)
          /\ claims'[s].arms = <<Original, claims'[s].arms[2]>> \o Search!Candidates(s)'
          /\ claims'[s].arms[2] \in Programs
          /\ Search!IsInjective(claims'[s].arms)
        <3>1. claims'[s].arms = arms
            BY <2>6
        <3>2. arms = <<Original, Search!Parent>> \o Search!Contenders
            BY DEF arms
        <3> QED
            BY <2>2, <2>3, <2>4, <3>1, <3>2 DEF Search!Candidates
    <2>9. StageInv(s)'
        <3>1. ~Complete(s)' /\ ~Complete(s) /\ outcome'[s] = None
            <4>1. ~Complete(s)' /\ ~Complete(s)
                BY <2>2, <2>6 DEF Complete
            <4>2. outcome[s] = None
                BY <4>1 DEF PlanInv, StageInv
            <4> QED
                BY <1>1, <4>1, <4>2
        <3>2. \A r \in Search!Stages : r < s => Complete(r)'
            BY <2>5, <2>7 DEF Grows, ClaimGrows
        <3>3. s > 1 => \A p \in Search!ToSet(Search!Contenders) :
                           Entered(Search!Generation(s) - 1, p)'
            BY <2>3, <2>7, EnteredStays, SetOfIs
        <3> QED
            BY <1>1, <2>3, <2>8, <3>1, <3>2, <3>3 DEF StageInv
    <2>10. \A r \in Search!Stages : StageInv(r)'
        BY <1>1, <2>6, <2>7, <2>9, StageStays DEF PlanInv
    <2>11. ClaimsType'
        <3>1. [arms |-> arms, status |-> "claimed"]
              \in [arms : Seq(Programs), status : {"none", "claimed", "complete"}]
            BY <2>4
        <3> QED
            BY <1>1, <2>2, <3>1 DEF ClaimsType, PlanInv, PlanType
    <2> QED
        BY <1>1, <2>7, <2>10, <2>11
<1> QED
    BY <1>2, <1>3

\* A stage is completed.
LEMMA CompleteMoves ==
    ASSUME Search!EvolutionSearchAssumption, PlanInv, Search!CompleteStage
    PROVE  /\ ArchiveType' /\ Grows /\ ClaimsType'
           /\ Complete(run.stage)'
           /\ \A r \in Search!Stages : StageInv(r)'
<1>1. ArchiveType' /\ ArchiveGrows
    BY ArchiveStays DEF PlanInv, PlanType, Search!CompleteStage, Search!archive
<1>2. PICK s \in Search!Stages : s = run.stage
    BY DEF PlanInv, PlanType, RunType
<1>3. PICK result \in Search!Outcomes(s) :
        outcome' = [outcome EXCEPT ![s] = IF @ = None THEN result ELSE @]
    BY <1>2, Zenon DEF Search!CompleteStage
<1>4. claims' = [claims EXCEPT ![s].status = "complete"]
    BY <1>2 DEF Search!CompleteStage
<1>5. Claimed(s) /\ StageInv(s)
    BY <1>2, PlaceIs DEF PlanInv, ArmsFit, Search!CompleteStage, Search!At
<1>6. /\ claims'[s].arms = claims[s].arms /\ claims'[s].status = "complete"
      /\ \A r \in Search!Stages \ {s} : claims'[r] = claims[r]
    BY <1>4 DEF PlanInv, PlanType, ClaimsType
<1>7. /\ outcome'[s] = IF outcome[s] = None THEN result ELSE outcome[s]
      /\ \A r \in Search!Stages \ {s} : outcome'[r] = outcome[r]
    BY <1>3 DEF PlanInv, PlanType, ClaimsType
<1>8. outcome'[s] \in Search!Outcomes(s) /\ (Complete(s) => outcome'[s] = outcome[s])
    <2>1. CASE ~Complete(s)
        BY <1>5, <1>7, <2>1 DEF StageInv
    <2>2. CASE Complete(s)
        <3>1. outcome[s] # None
            <4>1. outcome[s] \in BOOLEAN \cup Seq(Programs)
                BY <1>5, <2>2, OutcomeIs
            <4> QED
                BY <4>1 DEF Search!EvolutionSearchAssumption
        <3> QED
            BY <1>5, <1>7, <2>2, <3>1 DEF StageInv
    <2> QED
        BY <2>1, <2>2
<1>9. Grows
    BY <1>1, <1>6, <1>7, <1>8 DEF Grows, ClaimGrows, Claimed, Complete
<1>10. StageInv(s)'
    <2>1. Search!Candidates(s)' = Search!Candidates(s)
        BY <1>6 DEF Search!Candidates
    <2>2. Search!Outcomes(s)' = Search!Outcomes(s)
        BY <2>1 DEF Search!Outcomes
    <2>3. Complete(s)'
        BY <1>6 DEF Complete
    <2>4. \A r \in Search!Stages : r < s => Complete(r)'
        BY <1>5, <1>9 DEF StageInv, Grows, ClaimGrows
    <2>5. ASSUME s > 1, ~Search!IsScout(s) PROVE Search!Candidates(s) = outcome'[s - 1]
        <3>1. s - 1 \in Search!Stages \ {s}
            BY <2>5 DEF Search!Stages, Search!EvolutionSearchAssumption
        <3> QED
            BY <1>5, <1>7, <2>5, <3>1 DEF StageInv
    <2>6. s > 1 => \A p \in Search!ToSet(Search!Candidates(s)) :
                       Entered(Search!Generation(s) - 1, p)'
        BY <1>5, <1>9, EnteredStays, SetOfIs DEF StageInv
    <2> QED
        BY <1>5, <1>6, <1>8, <2>1, <2>2, <2>3, <2>4, <2>5, <2>6 DEF StageInv
<1>11. \A r \in Search!Stages : StageInv(r)'
    BY <1>6, <1>7, <1>9, <1>10, StageStays DEF PlanInv
<1>12. ClaimsType'
    BY <1>3, <1>4 DEF ClaimsType, PlanInv, PlanType
<1>13. Complete(run.stage)'
    <2>1. run'.stage = run.stage
        <3>1. IsRun(run) /\ \E place : Search!To(place)
            BY DEF Search!CompleteStage, PlanInv, PlanType, RunType
        <3> QED
            BY <3>1 DEF Search!To, IsRun
    <2> QED
        BY <1>2, <1>6, <2>1 DEF Complete
<1> QED
    BY <1>1, <1>9, <1>11, <1>12, <1>13
-----------------------------------------------------------------------------
(* Where a run goes.                                                       *)

LEMMA ToRuns ==
    ASSUME RunType, NEW place, Search!To(place)
    PROVE  /\ RunType' /\ run'.place = place /\ run'.stage = run.stage
           /\ run'.request = run.request /\ run'.found = run.found /\ run'.why = run.why
<1>1. run' = [place |-> place, stage |-> run.stage, request |-> run.request,
              found |-> run.found, why |-> run.why]
    BY DEF RunType, IsRun, Search!To
<1> QED
    BY <1>1 DEF RunType, IsRun

\* A new process, or one that has ended.
LEMMA IdleRuns ==
    ASSUME Search!EvolutionSearchAssumption, NEW place, NEW why,
           run' = [place |-> place, stage |-> 1, request |-> 1, found |-> <<>>, why |-> why]
    PROVE  /\ RunType' /\ run'.place = place /\ run'.stage = 1 /\ run'.why = why
           /\ run'.found = <<>>
<1>1. 1 \in Search!Stages
    BY DEF Search!Stages, Search!EvolutionSearchAssumption
<1>2. /\ run'.place = place /\ run'.stage = 1 /\ run'.request = 1 /\ run'.why = why
      /\ run'.found = <<>>
    OBVIOUS
<1>3. IsRun(run)'
    BY DEF IsRun
<1> QED
    BY <1>1, <1>2, <1>3 DEF RunType

\* A run that is refused is at rest.
LEMMA RefuseRuns ==
    ASSUME Search!EvolutionSearchAssumption, NEW why, Search!Refuse(why)
    PROVE  RunType' /\ PlaceInv' /\ run'.place = "refused" /\ run'.why = why
<1>1. RunType' /\ run'.place = "refused" /\ run'.why = why
    <2>1. run' = [place |-> "refused", stage |-> 1, request |-> 1, found |-> <<>>, why |-> why]
        BY DEF Search!Refuse, Search!Idle
    <2> QED
        BY <2>1, IdleRuns
<1> QED
    BY <1>1 DEF PlaceInv, Search!Running

\* Nothing on disk changes.
LEMMA OnlyRun ==
    ASSUME PlanInv, UNCHANGED <<claims, outcome, registered>>
    PROVE  /\ Grows /\ ClaimsType' /\ ArchiveType'
           /\ \A s \in Search!Stages : StageInv(s)' /\ Claimed(s)' = Claimed(s)
                                       /\ Complete(s)' = Complete(s)
           /\ \A g, p : Entered(g, p)' = Entered(g, p) /\ Enters(g, p)' = Enters(g, p)
<1>1. ArchiveType' /\ ArchiveGrows
    BY ArchiveStays DEF PlanInv, PlanType
<1>2. Grows
    BY <1>1 DEF Grows, ClaimGrows, Claimed, Complete
<1>3. ClaimsType'
    BY DEF PlanInv, PlanType, ClaimsType
<1>4. ASSUME NEW s \in Search!Stages
      PROVE  StageInv(s)' /\ Claimed(s)' = Claimed(s) /\ Complete(s)' = Complete(s)
    <2>1. /\ \A r : Claimed(r)' = Claimed(r) /\ Complete(r)' = Complete(r)
          /\ \A r : Search!Candidates(r)' = Search!Candidates(r)
        BY DEF Claimed, Complete, Search!Candidates
    <2>2. \A g, p : Entered(g, p)' = Entered(g, p)
        BY DEF Entered, Of
    <2>3. Search!Outcomes(s)' = Search!Outcomes(s)
        BY <2>1 DEF Search!Outcomes
    <2> QED
        BY <2>1, <2>2, <2>3 DEF PlanInv, StageInv
<1>5. \A g, p : Entered(g, p)' = Entered(g, p) /\ Enters(g, p)' = Enters(g, p)
    BY DEF Entered, Enters, Of
<1> QED
    BY <1>1, <1>2, <1>3, <1>4, <1>5

\* The run stays where it is.
LEMMA RunFits ==
    ASSUME UNCHANGED <<claims, outcome, registered, run>>
    PROVE  /\ Search!Running' = Search!Running
           /\ Reached(run.stage)' = Reached(run.stage)
           /\ MarkFits' = MarkFits /\ ClaimFits' = ClaimFits /\ ArmsFit' = ArmsFit
           /\ EliminateFits' = EliminateFits /\ DecideFits' = DecideFits
           /\ MineFits' = MineFits /\ ProposeFits' = ProposeFits
<1>1. /\ \A s : Complete(s)' = Complete(s) /\ Claimed(s)' = Claimed(s)
      /\ \A g, p : Entered(g, p)' = Entered(g, p) /\ Enters(g, p)' = Enters(g, p)
    BY DEF Complete, Claimed, Entered, Enters, Of
<1> QED
    BY <1>1 DEF Search!Running, Reached, MarkFits, ClaimFits, ArmsFit, EliminateFits,
                DecideFits, MineFits, ProposeFits, Ended

\* The steps of threads, and acts of the operator on calls.
LEMMA QuietPlan ==
    ASSUME PlanInv, UNCHANGED <<claims, outcome, registered, raws, run>>
    PROVE  PlanInv' /\ Grows
<1>1. PlaceInv'
    <2>1. BlobFits' = BlobFits
        BY DEF BlobFits, Search!Answer, Search!Attempt, Search!Request
    <2> QED
        BY <2>1, RunFits DEF PlanInv, PlaceInv
<1>2. RunType'
    BY DEF PlanInv, PlanType, RunType, IsRun
<1> QED
    BY <1>1, <1>2, OnlyRun DEF PlanInv, PlanType

\* A run that is started begins with the first stage, whatever is on disk.
LEMMA StartPlan ==
    ASSUME Search!EvolutionSearchAssumption, PlanInv, Search!Start \/ Search!Kill
    PROVE  PlanInv' /\ Grows
<1>1. UNCHANGED <<claims, outcome, registered>>
    BY DEF Search!Start, Search!Kill, Search!controller, Search!files, Search!archive
<1>2. RunType' /\ PlaceInv'
    <2>1. CASE run' = [Search!Idle EXCEPT !.place = "claim"]
        <3>1. run' = [place |-> "claim", stage |-> 1, request |-> 1, found |-> <<>>,
                      why |-> "none"]
            BY <2>1 DEF Search!Idle
        <3>2. RunType' /\ run'.place = "claim" /\ run'.stage = 1
            BY <3>1, IdleRuns
        <3>3. \A r \in Search!Stages : ~(r < 1)
            BY StageNumbers
        <3>4. ~Search!IsScout(1)
            BY DEF Search!IsScout
        <3> QED
            BY <3>2, <3>3, <3>4 DEF PlaceInv, Reached, BlobFits, ClaimFits
    <2>2. CASE run' = Search!Idle
        <3>1. run' = [place |-> "stopped", stage |-> 1, request |-> 1, found |-> <<>>,
                      why |-> "none"]
            BY <2>2 DEF Search!Idle
        <3>2. RunType' /\ run'.place = "stopped"
            BY <3>1, IdleRuns
        <3> QED
            BY <3>2 DEF PlaceInv, Search!Running
    <2>3. CASE Search!Refuse("damaged")
        BY <2>3, RefuseRuns
    <2> QED
        BY <2>1, <2>2, <2>3 DEF Search!Start, Search!Kill
<1> QED
    BY <1>1, <1>2, OnlyRun DEF PlanInv, PlanType

\* The run stays at its stage, or goes to the next when it is complete.
LEMMA StageKept ==
    ASSUME PlanInv, Grows, RunType', Search!Running,
           run'.stage = run.stage, run'.place # "blob",
           MarkFits' \/ ClaimFits' \/ ArmsFit' \/ EliminateFits' \/ DecideFits'
           \/ MineFits' \/ ProposeFits'
    PROVE  PlaceInv'
<1>1. Reached(run.stage)'
    BY PlaceIs DEF PlanInv, Reached, Grows, ClaimGrows
<1> QED
    BY <1>1 DEF PlaceInv, BlobFits

\* The steps of a stage that change nothing on disk of the plan.
LEMMA StagePlan ==
    ASSUME Search!EvolutionSearchAssumption, PlanInv,
           Search!Join \/ Search!RecordRollback \/ Search!AdvanceParent \/ Search!RecordDecision
    PROVE  PlanInv' /\ Grows
<1>1. UNCHANGED <<claims, outcome, registered>>
    BY DEF Search!Join, Search!RecordRollback, Search!AdvanceParent, Search!RecordDecision,
           Search!controller, Search!files, Search!archive
<1>2. RunType
    BY DEF PlanInv, PlanType
<1>3. \/ \E why : Search!Refuse(why)
      \/ Search!At("arms") /\ Search!To("complete")
      \/ Search!At("rollback") /\ Search!To("advance")
      \/ Search!At("advance") /\ Search!To("decide")
      \/ Search!At("decide") /\ Search!To("mine")
    BY DEF Search!Join, Search!RecordRollback, Search!AdvanceParent, Search!RecordDecision
<1>4. RunType' /\ PlaceInv'
    <2>1. CASE \E why : Search!Refuse(why)
        BY <2>1, RefuseRuns
    <2>2. CASE Search!At("arms") /\ Search!To("complete")
        <3>1. ArmsFit'
            BY <1>1, <1>2, <2>2, ToRuns, OnlyRun, PlaceIs DEF PlanInv, Search!At, ArmsFit, RunType
        <3> QED
            BY <1>1, <1>2, <2>2, <3>1, ToRuns, OnlyRun, StageKept, RunningIs
               DEF Search!At, Deciding
    <2>3. CASE \/ Search!At("rollback") /\ Search!To("advance")
               \/ Search!At("advance") /\ Search!To("decide")
        <3>1. DecideFits'
            BY <1>1, <1>2, <2>3, ToRuns, OnlyRun, PlaceIs
               DEF PlanInv, Search!At, DecideFits, RunType, Deciding
        <3> QED
            BY <1>1, <1>2, <2>3, <3>1, ToRuns, OnlyRun, StageKept, RunningIs
               DEF Search!At, Deciding
    <2>4. CASE Search!At("decide") /\ Search!To("mine")
        <3>1. MineFits'
            BY <1>1, <1>2, <2>4, ToRuns, OnlyRun, PlaceIs
               DEF PlanInv, Search!At, DecideFits, MineFits, Ended, RunType, Deciding
        <3> QED
            BY <1>1, <1>2, <2>4, <3>1, ToRuns, OnlyRun, StageKept, RunningIs
               DEF Search!At, Deciding
    <2> QED
        BY <1>3, <2>1, <2>2, <2>3, <2>4
<1> QED
    BY <1>1, <1>4, OnlyRun DEF PlanInv, PlanType

\* How the proposals move the run: mining begins without candidates, a request is
\* skipped, or something is waited for.
LEMMA MineRuns ==
    ASSUME RunType, Search!Mine
    PROVE  /\ RunType' /\ run'.place \in {"finished", "propose"} /\ run'.stage = run.stage
           /\ run'.request = 1 /\ run'.found = <<>> /\ run'.why = run.why
<1>1. PICK n \in 0 .. MaxCandidates :
        run' = [run EXCEPT !.place = IF n = 0 THEN "finished" ELSE "propose",
                           !.request = 1, !.found = <<>>]
    BY DEF Search!Mine
<1>2. \E place \in {"finished", "propose"} :
        run' = [place |-> place, stage |-> run.stage, request |-> 1, found |-> <<>>,
                why |-> run.why]
    BY <1>1 DEF RunType, IsRun
<1> QED
    BY <1>2 DEF RunType, IsRun

LEMMA SkipRuns ==
    ASSUME RunType, Search!SkipRequest
    PROVE  /\ RunType' /\ run'.place = "propose" /\ run'.stage = run.stage
           /\ run'.request = run.request + 1 /\ run'.found = run.found /\ run'.why = run.why
<1>1. run' = [place |-> "propose", stage |-> run.stage, request |-> run.request + 1,
              found |-> run.found, why |-> run.why]
    BY DEF RunType, IsRun, Search!SkipRequest
<1> QED
    BY <1>1 DEF RunType, IsRun

LEMMA StageRuns ==
    ASSUME RunType, NEW place, run' = [run EXCEPT !.stage = @ + 1, !.place = place],
           run.stage + 1 \in Search!Stages
    PROVE  /\ RunType' /\ run'.place = place /\ run'.stage = run.stage + 1
           /\ run'.request = run.request /\ run'.found = run.found /\ run'.why = run.why
<1>1. run' = [place |-> place, stage |-> run.stage + 1, request |-> run.request,
              found |-> run.found, why |-> run.why]
    BY DEF RunType, IsRun
<1> QED
    BY <1>1 DEF RunType, IsRun

LEMMA FoundRuns ==
    ASSUME RunType, NEW p \in Programs,
           run' = [run EXCEPT !.request = @ + 1, !.found = Append(@, p), !.place = "propose"]
    PROVE  /\ RunType' /\ run'.place = "propose" /\ run'.stage = run.stage
           /\ run'.request = run.request + 1 /\ run'.found = Append(run.found, p)
           /\ run'.why = run.why
<1>1. run' = [place |-> "propose", stage |-> run.stage, request |-> run.request + 1,
              found |-> Append(run.found, p), why |-> run.why]
    BY DEF RunType, IsRun
<1>2. Append(run.found, p) \in Seq(Programs)
    BY DEF RunType
<1>3. IsRun(run)'
    BY <1>1 DEF IsRun
<1> QED
    BY <1>1, <1>2, <1>3 DEF RunType

\* What a run has found is found still, with one more candidate.
LEMMA FoundIs ==
    ASSUME NEW f \in Seq(Programs), NEW p \in Programs
    PROVE  Search!ToSet(Append(f, p)) = Search!ToSet(f) \cup {p}
<1>1. /\ Append(f, p) \in Seq(Programs) /\ Len(Append(f, p)) = Len(f) + 1
      /\ Append(f, p)[Len(f) + 1] = p
      /\ \A i \in 1 .. Len(f) : Append(f, p)[i] = f[i]
    BY AppendProperties
<1>2. Len(f) \in Nat
    BY LenProperties
<1>3. 1 .. Len(f) + 1 = (1 .. Len(f)) \cup {Len(f) + 1}
    BY <1>2
<1>4. \A q : q \in Search!ToSet(Append(f, p)) <=> \E i \in 1 .. Len(f) + 1 : Append(f, p)[i] = q
    BY <1>1, SetOfIs
<1>5. \A q : (\E i \in 1 .. Len(f) + 1 : Append(f, p)[i] = q)
             <=> (\E i \in 1 .. Len(f) : f[i] = q) \/ q = p
    BY <1>1, <1>3
<1>6. \A q : q \in Search!ToSet(Append(f, p)) <=> q \in Search!ToSet(f) \/ q = p
    BY <1>4, <1>5, SetOfIs, Zenon
<1> QED
    BY <1>6

\* The proposals that change nothing in the archive.
LEMMA ProposalPlan ==
    ASSUME Search!EvolutionSearchAssumption, PlanInv,
           Search!Mine \/ Search!Ask \/ Search!WriteAnswer \/ Search!CompleteAsk
           \/ Search!FailRequest \/ Search!AskFails \/ Search!AnswerIsInvalid
           \/ Search!NextGeneration
    PROVE  PlanInv' /\ Grows
<1>1. UNCHANGED <<claims, outcome, registered>>
    BY DEF Search!Mine, Search!Ask, Search!WriteAnswer, Search!CompleteAsk,
           Search!FailRequest, Search!AskFails, Search!AnswerIsInvalid,
           Search!NextGeneration, Search!controller, Search!files, Search!archive
<1>2. RunType /\ PlaceInv
    BY DEF PlanInv, PlanType
<1>3. CASE Search!Mine
    <2>1. /\ RunType' /\ run'.place \in {"finished", "propose"} /\ run'.stage = run.stage
          /\ run'.found = <<>>
        BY <1>2, <1>3, MineRuns
    <2>2. Ended(run.stage)' /\ Search!Running
        BY <1>1, <1>2, <1>3, <2>1, PlaceIs, OnlyRun, RunningIs
           DEF Search!Mine, Search!At, MineFits, Ended, RunType
    <2>3. PlaceInv'
        <3>1. CASE run'.place = "propose"
            <4>1. Search!ToSet(run'.found) = {}
                BY <2>1 DEF Search!ToSet
            <4>2. ProposeFits'
                BY <2>1, <2>2, <3>1, <4>1 DEF ProposeFits, Proposing, Ended
            <4> QED
                BY <1>1, <2>1, <2>2, <3>1, <4>2, OnlyRun, StageKept
        <3>2. CASE run'.place = "finished"
            BY <3>2 DEF PlaceInv, Search!Running
        <3> QED
            BY <2>1, <3>1, <3>2
    <2> QED
        BY <1>1, <2>1, <2>3, OnlyRun DEF PlanInv, PlanType
<1>4. CASE Search!NextGeneration
    <2>1. /\ run.place = "propose"
          /\ \/ Search!To("finished")
             \/ /\ run.stage + 1 \in Search!Stages
                /\ run' = [run EXCEPT !.stage = @ + 1, !.place = "mark"]
        BY <1>4 DEF Search!NextGeneration, Search!At
    <2>2. ProposeFits /\ Search!Running /\ Reached(run.stage)
        BY <1>2, <2>1, PlaceIs, RunningIs DEF Proposing
    <2>3. CASE Search!To("finished")
        <3>1. RunType' /\ run'.place = "finished"
            BY <1>2, <2>3, ToRuns
        <3> QED
            BY <1>1, <3>1, OnlyRun DEF PlanInv, PlanType, PlaceInv, Search!Running
    <2>4. CASE /\ run.stage + 1 \in Search!Stages
               /\ run' = [run EXCEPT !.stage = @ + 1, !.place = "mark"]
        <3>1. /\ RunType' /\ run'.place = "mark" /\ run'.stage = run.stage + 1
              /\ run'.found = run.found
            BY <1>2, <2>4, StageRuns
        <3>2. PICK s \in Search!Stages : s = run.stage
            BY <1>2 DEF RunType
        <3>3. Search!IsScout(s + 1) /\ Search!Generation(s + 1) = Search!Generation(s) + 1
            BY <2>2, <3>2, NextStageNumbers DEF ProposeFits, Ended
        <3>4. Search!Generation(s + 1) - 1 = Search!Generation(s)
            BY <3>3, StageNumbers
        <3>5. \A p \in Search!ToSet(run.found) : Enters(Search!Generation(s), p)'
            BY <1>1, <2>2, <3>2, OnlyRun DEF ProposeFits
        <3>6. MarkFits'
            BY <3>1, <3>2, <3>3, <3>4, <3>5 DEF MarkFits
        <3>7. Reached(s + 1)'
            <4>1. ASSUME NEW r \in Search!Stages, r < s + 1 PROVE Complete(r)
                <5>1. r < s \/ r = s
                    BY <4>1, StageNumbers
                <5> QED
                    BY <2>2, <3>2, <5>1 DEF Reached, ProposeFits, Ended
            <4> QED
                BY <1>1, <4>1, OnlyRun DEF Reached
        <3> QED
            BY <1>1, <3>1, <3>2, <3>6, <3>7, OnlyRun
               DEF PlanInv, PlanType, PlaceInv, BlobFits
    <2> QED
        BY <2>1, <2>3, <2>4
<1>5. CASE Search!Ask \/ Search!WriteAnswer \/ Search!CompleteAsk
           \/ Search!FailRequest \/ Search!AskFails \/ Search!AnswerIsInvalid
    <2>1. /\ run.place \in Proposing
          /\ \/ Search!Refuse("budget") \/ Search!SkipRequest
             \/ \E place \in Proposing \ {"blob"} : Search!To(place)
        BY <1>5 DEF Search!Ask, Search!WriteAnswer, Search!CompleteAsk, Search!FailRequest,
                    Search!AskFails, Search!AnswerIsInvalid, Search!At, Proposing
    <2>2. CASE Search!Refuse("budget")
        BY <1>1, <2>2, RefuseRuns, OnlyRun DEF PlanInv, PlanType
    <2>3. CASE Search!SkipRequest \/ \E place \in Proposing \ {"blob"} : Search!To(place)
        <3>1. /\ RunType' /\ run'.place \in Proposing \ {"blob"} /\ run'.stage = run.stage
              /\ run'.found = run.found
            BY <1>2, <2>3, ToRuns, SkipRuns DEF Proposing
        <3>2. ProposeFits /\ Search!Running
            BY <1>2, <2>1, PlaceIs, RunningIs
        <3>3. ProposeFits'
            BY <1>1, <1>2, <3>1, <3>2, OnlyRun DEF ProposeFits, Ended, RunType
        <3> QED
            BY <1>1, <3>1, <3>2, <3>3, OnlyRun, StageKept DEF PlanInv, PlanType
    <2> QED
        BY <2>1, <2>2, <2>3
<1> QED
    BY <1>3, <1>4, <1>5

\* The candidates of a generation are being evaluated from the mark on.
LEMMA MarkPlan ==
    ASSUME Search!EvolutionSearchAssumption, PlanInv, Search!MarkCandidates
    PROVE  PlanInv' /\ Grows
<1>1. UNCHANGED <<claims, outcome>> /\ Search!To("claim") /\ run.place = "mark"
    BY DEF Search!MarkCandidates, Search!controller, Search!files, Search!At
<1>2. ArchiveType' /\ ArchiveGrows
    BY MarkMoves DEF PlanInv, PlanType
<1>3. Grows
    BY <1>1, <1>2 DEF Grows, ClaimGrows, Claimed, Complete
<1>4. \A s \in Search!Stages : StageInv(s)'
    BY <1>1, <1>3, StageStays DEF PlanInv
<1>5. ClaimsType'
    BY <1>1 DEF PlanInv, PlanType, ClaimsType
<1>6. /\ RunType' /\ run'.place = "claim" /\ run'.stage = run.stage /\ run'.found = run.found
    BY <1>1, ToRuns DEF PlanInv, PlanType
<1>7. MarkFits /\ Search!Running
    BY <1>1, PlaceIs, RunningIs DEF PlanInv
<1>8. ASSUME NEW p \in Search!ToSet(run.found)
      PROVE  Entered(Search!Generation(run.stage) - 1, p)'
    <2>1. p \in Programs
        BY <1>8, SetOfIs DEF PlanInv, PlanType, RunType
    <2>2. Enters(Search!Generation(run.stage) - 1, p)
        BY <1>7, <1>8 DEF MarkFits
    <2>3. CASE registered[p].state = "inactive"
        <3>1. registered'[p] = [registered[p] EXCEPT !.state = "evaluating"]
            BY <1>8, <2>1, <2>3 DEF Search!MarkCandidates
        <3>2. registered[p] = [by |-> registered[p].by, state |-> registered[p].state]
            BY <2>1 DEF PlanInv, PlanType, ArchiveType
        <3>3. registered'[p].by = registered[p].by /\ registered'[p].state = "evaluating"
            BY <3>1, <3>2
        <3>4. Of(Search!Generation(run.stage) - 1, p)'
            BY <1>6, <2>2, <3>3 DEF Enters, Of
        <3> QED
            BY <3>3, <3>4 DEF Entered, Evaluated
    <2>4. CASE registered[p].state # "inactive"
        <3>1. Entered(Search!Generation(run.stage) - 1, p)
            BY <2>2, <2>4 DEF Enters, Entered
        <3> QED
            BY <1>3, <1>6, <2>1, <3>1, EnteredStays
    <2> QED
        BY <2>3, <2>4
<1>9. ClaimFits'
    BY <1>6, <1>8 DEF ClaimFits
<1>10. PlaceInv'
    BY <1>3, <1>6, <1>7, <1>9, StageKept
<1> QED
    BY <1>2, <1>3, <1>4, <1>5, <1>6, <1>10 DEF PlanInv, PlanType

\* A stage is claimed, and completed.
LEMMA ClaimPlan ==
    ASSUME Search!EvolutionSearchAssumption, PlanInv, Search!Parent \in Programs,
           Search!ClaimStage
    PROVE  PlanInv' /\ Grows
<1>1. /\ ArchiveType' /\ Grows /\ ClaimsType'
      /\ \A r \in Search!Stages : StageInv(r)'
    BY ClaimMoves
<1>2. /\ run.place = "claim" /\ RunType
    BY DEF Search!ClaimStage, Search!At, PlanInv, PlanType
<1>3. RunType' /\ PlaceInv'
    <2>1. CASE \E why : Search!Refuse(why)
        BY <2>1, RefuseRuns
    <2>2. CASE Search!To("arms") /\ (Claimed(run.stage) \/ claims' # claims)
        <3>1. /\ RunType' /\ run'.place = "arms" /\ run'.stage = run.stage
            BY <1>2, <2>2, ToRuns
        <3>2. Claimed(run.stage)'
            <4>1. CASE Claimed(run.stage)
                BY <1>1, <1>2, <3>1, <4>1 DEF Grows, ClaimGrows, RunType, Claimed
            <4>2. CASE claims' # claims
                <5>1. PICK s \in Search!Stages : s = run.stage
                    BY <1>2 DEF RunType
                <5>2. \E arms : claims' = [claims EXCEPT ![s] = [arms |-> arms, status |-> "claimed"]]
                    BY <4>2, <5>1 DEF Search!ClaimStage
                <5>3. claims'[s].status = "claimed"
                    BY <5>2 DEF PlanInv, PlanType, ClaimsType
                <5> QED
                    BY <3>1, <5>1, <5>3 DEF Claimed
            <4> QED
                BY <2>2, <4>1, <4>2
        <3>3. ArmsFit'
            BY <3>1, <3>2 DEF ArmsFit, Claimed
        <3> QED
            BY <1>1, <1>2, <3>1, <3>3, StageKept, RunningIs
    <2>3. \/ \E why : Search!Refuse(why)
          \/ Search!To("arms") /\ (Claimed(run.stage) \/ claims' # claims)
        <3>1. CASE claims[run.stage].status # "none"
            BY <3>1 DEF Search!ClaimStage, Claimed
        <3>2. CASE claims[run.stage].status = "none"
            <4>1. \/ Search!Refuse("arms not distinct")
                  \/ /\ Search!To("arms")
                     /\ \E arms : claims' = [claims EXCEPT ![run.stage] =
                                                [arms |-> arms, status |-> "claimed"]]
                BY <3>2 DEF Search!ClaimStage
            <4>2. ASSUME NEW arms, claims' = [claims EXCEPT ![run.stage] =
                                                [arms |-> arms, status |-> "claimed"]]
                  PROVE  claims' # claims
                <5>1. claims'[run.stage].status = "claimed"
                    BY <1>2, <4>2 DEF PlanInv, PlanType, ClaimsType, RunType
                <5> QED
                    BY <3>2, <5>1
            <4> QED
                BY <4>1, <4>2
        <3> QED
            BY <3>1, <3>2
    <2> QED
        BY <2>1, <2>2, <2>3
<1> QED
    BY <1>1, <1>3 DEF PlanInv, PlanType

\* A stage is completed with what its evidence says.
LEMMA CompletePlan ==
    ASSUME Search!EvolutionSearchAssumption, PlanInv, Search!CompleteStage
    PROVE  PlanInv' /\ Grows
<1>1. /\ ArchiveType' /\ Grows /\ ClaimsType' /\ Complete(run.stage)'
      /\ \A r \in Search!Stages : StageInv(r)'
    BY CompleteMoves
<1>2. /\ run.place = "complete" /\ RunType
    BY DEF Search!CompleteStage, Search!At, PlanInv, PlanType
<1>3. \/ Search!To("mine") /\ run.stage = 1
      \/ Search!To("select") /\ Search!IsConfirmation(run.stage)
      \/ /\ Search!To("eliminate")
         /\ run.stage # 1 /\ ~Search!IsConfirmation(run.stage)
    BY DEF Search!CompleteStage
<1>4. /\ RunType' /\ run'.place \in {"mine", "select", "eliminate"} /\ run'.stage = run.stage
      /\ run'.place = "mine" => run.stage = 1
      /\ run'.place = "select" => Search!IsConfirmation(run.stage)
      /\ run'.place = "eliminate" => run.stage # 1 /\ ~Search!IsConfirmation(run.stage)
    BY <1>2, <1>3, ToRuns
<1>5. MineFits' \/ DecideFits' \/ EliminateFits'
    BY <1>1, <1>4 DEF MineFits, DecideFits, EliminateFits, Ended, Deciding, Complete
<1>6. PlaceInv'
    BY <1>1, <1>2, <1>4, <1>5, StageKept, RunningIs
<1> QED
    BY <1>1, <1>4, <1>6 DEF PlanInv, PlanType

\* The champion of a confirmation.
LEMMA WinnerIs ==
    ASSUME Search!EvolutionSearchAssumption, \A r \in Search!Stages : StageInv(r),
           NEW s \in Search!Stages, Search!IsConfirmation(s), Claimed(s)
    PROVE  /\ s - 1 \in Search!Stages /\ Complete(s - 1)
           /\ outcome[s - 1][1] \in Programs
           /\ Search!ToSet(Search!Candidates(s)) = {outcome[s - 1][1]}
           /\ claims[s].arms[3] = outcome[s - 1][1]
           /\ claims[s].arms[2] \in Programs /\ claims[s].arms[2] # outcome[s - 1][1]
           /\ Entered(Search!Generation(s) - 1, outcome[s - 1][1])
<1> DEFINE r == s - 1
           f == outcome[r]
<1>1. /\ s > 1 /\ ~Search!IsScout(s) /\ r \in Search!Stages /\ r < s /\ r # 1
      /\ ~Search!IsScout(r) /\ ~Search!IsConfirmation(r)
    <2>1. /\ s = 3 * Search!Generation(s) + 1 /\ Search!Generation(s) \in 0 .. Generations
          /\ s # 1 /\ s \in Nat /\ s >= 1
        BY StageNumbers
    <2>2. Search!Generation(s) \in 1 .. Generations
        BY <2>1 DEF Search!EvolutionSearchAssumption
    <2>3. r = 3 * Search!Generation(s)
        BY <2>1, <2>2
    <2>4. r \in Search!Stages /\ ~Search!IsScout(r) /\ ~Search!IsConfirmation(r)
        BY <2>2, <2>3, FinalNumbers
    <2> QED
        BY <2>1, <2>2, <2>3, <2>4, NextStageNumbers
<1>2. /\ Complete(r) /\ Search!Candidates(s) = f
      /\ claims[s].arms = <<Original, claims[s].arms[2]>> \o Search!Candidates(s)
      /\ claims[s].arms[2] \in Programs /\ Search!IsInjective(claims[s].arms)
      /\ \A p \in Search!ToSet(Search!Candidates(s)) : Entered(Search!Generation(s) - 1, p)
    BY <1>1 DEF StageInv
<1> HIDE DEF r
<1>3. f \in Seq(Programs) /\ Len(f) = 1
    BY <1>1, <1>2, OutcomeIs
<1> HIDE DEF f
<1>4. f[1] \in Programs /\ DOMAIN f = 1 .. 1
    BY <1>3
<1>5. Search!ToSet(f) = {f[1]}
    BY <1>4 DEF Search!ToSet
<1>6. /\ claims[s].arms \in Seq(Programs) /\ Len(claims[s].arms) = 3
      /\ claims[s].arms[3] = f[1]
    <2>1. PICK q \in Programs : q = claims[s].arms[2]
        BY <1>2
    <2>0. PICK c \in Seq(Programs) : c = f
        BY <1>3
    <2> DEFINE arms == <<Original, q>> \o c
    <2>2. /\ arms \in Seq(Programs) /\ Len(arms) = 2 + Len(c)
          /\ \A i \in 1 .. Len(c) : arms[i + 2] = c[i]
        <3>1. Original \in Programs
            BY DEF Search!EvolutionSearchAssumption
        <3> QED
            BY <3>1, ArmsAre
    <2>3. claims[s].arms = arms
        BY <1>2, <2>0, <2>1
    <2> HIDE DEF arms
    <2>4. Len(arms) = 3 /\ arms[3] = f[1]
        <3>1. Len(c) = 1 /\ c[1] = f[1]
            BY <1>3, <2>0
        <3>2. 1 \in 1 .. Len(c) /\ 2 + Len(c) = 3 /\ 1 + 2 = 3
            BY <3>1
        <3>3. arms[1 + 2] = c[1]
            BY <2>2, <3>2
        <3> QED
            BY <2>2, <3>1, <3>2, <3>3
    <2> QED
        BY <2>2, <2>3, <2>4
<1>7. claims[s].arms[2] # claims[s].arms[3]
    <2>1. DOMAIN claims[s].arms = 1 .. 3
        BY <1>6
    <2>2. 2 \in DOMAIN claims[s].arms /\ 3 \in DOMAIN claims[s].arms
        BY <2>1
    <2> QED
        BY <1>2, <2>2 DEF Search!IsInjective
<1> QED
    BY <1>1, <1>2, <1>4, <1>5, <1>6, <1>7 DEF r, f

\* The champion of the run's stage.
LEMMA ChampionIs ==
    ASSUME Search!EvolutionSearchAssumption, PlanInv, run.place \in Deciding
    PROVE  /\ Search!IsConfirmation(run.stage) /\ Complete(run.stage) /\ run.stage \in Search!Stages
           /\ Search!Champion = outcome[run.stage - 1][1] /\ Search!Champion \in Programs
           /\ Search!ToSet(Search!Candidates(run.stage)) = {Search!Champion}
           /\ claims[run.stage].arms[3] = Search!Champion
           /\ Search!PreviousParent \in Programs /\ Search!PreviousParent # Search!Champion
           /\ outcome[run.stage] \in BOOLEAN
<1>1. /\ Search!IsConfirmation(run.stage) /\ Complete(run.stage) /\ run.stage \in Search!Stages
      /\ Claimed(run.stage)
    BY PlaceIs DEF PlanInv, DecideFits, PlanType, RunType, Complete, Claimed
<1>2. outcome[run.stage] \in BOOLEAN
    BY <1>1, OutcomeIs DEF PlanInv
<1> QED
    BY <1>1, <1>2, WinnerIs DEF PlanInv, Search!Champion, Search!PreviousParent

\* A transition is made at the stage the run is at, or refused.
LEMMA TransitionPlan ==
    ASSUME Search!EvolutionSearchAssumption, PlanInv, UNCHANGED <<claims, outcome>>,
           NEW p \in Programs, NEW state \in {"rejected", "selected"}, NEW place,
           Search!Transition(p, state, place),
           \/ run.place = "eliminate" /\ place = "eliminate"
           \/ run.place = "select" /\ place \in {"rollback", "decide"}
    PROVE  PlanInv' /\ Grows
<1>1. ArchiveType' /\ ArchiveGrows
    BY TransitionMoves DEF PlanInv, PlanType
<1>2. Grows
    BY <1>1 DEF Grows, ClaimGrows, Claimed, Complete
<1>3. \A s \in Search!Stages : StageInv(s)'
    BY <1>2, StageStays DEF PlanInv
<1>4. ClaimsType'
    BY DEF PlanInv, PlanType, ClaimsType
<1>5. RunType' /\ PlaceInv'
    <2>1. CASE Search!Refuse("illegal transition")
        BY <2>1, RefuseRuns
    <2>2. CASE Search!To(place)
        <3>1. /\ RunType' /\ run'.place = place /\ run'.stage = run.stage
            BY <2>2, ToRuns DEF PlanInv, PlanType
        <3>2. \A s : Complete(s)' = Complete(s)
            BY DEF Complete
        <3>3. EliminateFits' \/ DecideFits'
            BY <3>1, <3>2, PlaceIs DEF PlanInv, EliminateFits, DecideFits, Deciding
        <3>4. Search!Running
            BY RunningIs DEF Deciding
        <3> QED
            BY <1>2, <3>1, <3>3, <3>4, StageKept
    <2> QED
        BY <2>1, <2>2 DEF Search!Transition
<1> QED
    BY <1>1, <1>2, <1>3, <1>4, <1>5 DEF PlanInv, PlanType

\* Who is not a finalist is rejected.
LEMMA EliminatePlan ==
    ASSUME Search!EvolutionSearchAssumption, PlanInv, Search!Eliminate
    PROVE  PlanInv' /\ Grows
<1>1. UNCHANGED <<claims, outcome>> /\ run.place = "eliminate"
    BY DEF Search!Eliminate, Search!At, Search!controller, Search!files
<1>2. EliminateFits /\ Search!Running /\ Reached(run.stage) /\ RunType
    BY <1>1, PlaceIs, RunningIs DEF PlanInv, PlanType
<1>3. CASE /\ run' = [run EXCEPT !.stage = @ + 1, !.place = "claim"]
           /\ registered' = registered
    <2>1. PICK s \in Search!Stages : s = run.stage
        BY <1>2 DEF RunType
    <2>2. s + 1 \in Search!Stages /\ ~Search!IsScout(s + 1)
        BY <1>2, <2>1, NextStageNumbers DEF EliminateFits
    <2>3. /\ RunType' /\ run'.place = "claim" /\ run'.stage = s + 1
        BY <1>2, <1>3, <2>1, <2>2, StageRuns
    <2>4. Reached(s + 1)'
        <3>1. ASSUME NEW r \in Search!Stages, r < s + 1 PROVE Complete(r)
            <4>1. r < s \/ r = s
                BY <3>1, StageNumbers
            <4> QED
                BY <1>2, <2>1, <4>1 DEF Reached, EliminateFits
        <3> QED
            BY <1>1, <1>3, <3>1, OnlyRun DEF Reached
    <2>5. PlaceInv'
        BY <2>2, <2>3, <2>4 DEF PlaceInv, BlobFits, ClaimFits
    <2> QED
        BY <1>1, <1>3, <2>3, <2>5, OnlyRun DEF PlanInv, PlanType
<1>4. CASE \E p \in Search!Eliminated : Search!Transition(p, "rejected", "eliminate")
    <2>1. PICK p \in Search!Eliminated : Search!Transition(p, "rejected", "eliminate")
        BY <1>4
    <2>2. p \in Programs
        <3>1. StageInv(run.stage) /\ Claimed(run.stage)
            BY <1>2 DEF PlanInv, EliminateFits, RunType, Complete, Claimed
        <3> QED
            BY <3>1, SetOfIs DEF StageInv, Search!Eliminated
    <2> QED
        BY <1>1, <2>1, <2>2, TransitionPlan
<1> QED
    BY <1>3, <1>4 DEF Search!Eliminate

\* Who wins or loses a confirmation is selected or rejected.
LEMMA SelectPlan ==
    ASSUME Search!EvolutionSearchAssumption, PlanInv, Search!Select
    PROVE  PlanInv' /\ Grows
<1>1. UNCHANGED <<claims, outcome>> /\ run.place = "select"
    BY DEF Search!Select, Search!At, Search!controller, Search!files
<1>2. Search!Champion \in Programs
    BY <1>1, ChampionIs DEF Deciding
<1>3. \/ Search!Transition(Search!Champion, "selected", "rollback")
      \/ Search!Transition(Search!Champion, "rejected", "decide")
    BY DEF Search!Select
<1> QED
    BY <1>1, <1>2, <1>3, TransitionPlan

\* A candidate that is registered anew still lacks its blob, or is met again.
LEMMA RegisterPlan ==
    ASSUME Search!EvolutionSearchAssumption, PlanInv, Search!Register
    PROVE  PlanInv' /\ Grows
<1>1. UNCHANGED <<claims, outcome, raws>> /\ run.place = "propose" /\ Search!Answer \in Programs
    BY DEF Search!Register, Search!At, Search!controller, Search!files
<1>2. ArchiveType' /\ ArchiveGrows
    BY RegisterMoves DEF PlanInv
<1>3. Grows
    BY <1>1, <1>2 DEF Grows, ClaimGrows, Claimed, Complete
<1>4. (\A s \in Search!Stages : StageInv(s)') /\ ClaimsType'
    BY <1>1, <1>3, StageStays DEF PlanInv, PlanType, ClaimsType
<1>5. ProposeFits /\ Search!Running /\ RunType /\ Reached(run.stage)
    BY <1>1, PlaceIs, RunningIs DEF PlanInv, PlanType, Proposing
<1>6. Ended(run.stage)' = Ended(run.stage) \/ run'.stage # run.stage
    BY <1>1 DEF Ended, Complete
<1>7. ASSUME NEW p \in Search!ToSet(run.found)
      PROVE  Enters(Search!Generation(run.stage), p)' \/ run'.stage # run.stage
    <2>1. p \in Programs /\ Enters(Search!Generation(run.stage), p)
        BY <1>5, <1>7, SetOfIs DEF ProposeFits, RunType
    <2> QED
        BY <1>3, <2>1, EnteredStays
<1>8. CASE /\ registered' = registered
           /\ run' = [run EXCEPT !.request = @ + 1, !.found = Append(@, Search!Answer)]
           /\ registered[Search!Answer].state \notin {"none", "directory"}
           /\ registered[Search!Answer].by = Search!Request(1)
    <2>1. run' = [run EXCEPT !.request = @ + 1, !.found = Append(@, Search!Answer),
                             !.place = "propose"]
        BY <1>1, <1>5, <1>8 DEF RunType, IsRun
    <2>2. /\ RunType' /\ run'.place = "propose" /\ run'.stage = run.stage
          /\ run'.found = Append(run.found, Search!Answer)
        BY <1>1, <1>5, <2>1, FoundRuns
    <2>3. Enters(Search!Generation(run.stage), Search!Answer)
        <3>1. registered[Search!Answer].state \in Evaluated \cup {"inactive"}
            BY <1>1, <1>8 DEF PlanInv, PlanType, ArchiveType, CandidateStates, Evaluated
        <3>2. Search!Request(1) # <<>> /\ Search!Request(1)[1] = Search!Generation(run.stage)
            BY <1>5, RequestIs
        <3> QED
            BY <1>8, <3>1, <3>2 DEF Enters, Of
    <2>4. Search!ToSet(run'.found) = Search!ToSet(run.found) \cup {Search!Answer}
        BY <1>1, <1>5, <2>2, FoundIs DEF RunType
    <2>5. \A p \in Search!ToSet(run'.found) : Enters(Search!Generation(run.stage), p)
        BY <1>5, <2>3, <2>4 DEF ProposeFits
    <2>6. ProposeFits'
        BY <1>5, <1>6, <1>8, <2>2, <2>5, OnlyRun, <1>1 DEF ProposeFits, Proposing
    <2>7. PlaceInv'
        BY <1>3, <1>5, <2>2, <2>6, StageKept
    <2> QED
        BY <1>2, <1>3, <1>4, <2>2, <2>7 DEF PlanInv, PlanType
<1>9. CASE /\ registered' = [registered EXCEPT ![Search!Answer] =
                                [by |-> Search!Request(1), state |-> "directory"]]
           /\ Search!To("blob")
    <2>1. /\ RunType' /\ run'.place = "blob" /\ run'.stage = run.stage
          /\ run'.request = run.request /\ run'.found = run.found
        BY <1>5, <1>9, ToRuns
    <2>2. ProposeFits'
        BY <1>5, <1>6, <1>7, <2>1 DEF ProposeFits, Proposing
    <2>3. Search!Answer' = Search!Answer /\ Search!Request(1)' = Search!Request(1)
        BY <1>1, <2>1 DEF Search!Answer, Search!Attempt, Search!Request
    <2>4. registered'[Search!Answer] = [by |-> Search!Request(1), state |-> "directory"]
        BY <1>1, <1>9 DEF PlanInv, PlanType, ArchiveType
    <2>5. BlobFits'
        BY <1>1, <2>3, <2>4 DEF BlobFits
    <2>6. Reached(run.stage)'
        BY <1>3, <1>5 , <2>1 DEF Reached, Grows, ClaimGrows
    <2>7. PlaceInv'
        BY <2>1, <2>2, <2>5, <2>6 DEF PlaceInv
    <2> QED
        BY <1>2, <1>3, <1>4, <2>1, <2>7 DEF PlanInv, PlanType
<1>10. CASE Search!Refuse("immutable candidate")
    BY <1>2, <1>3, <1>4, <1>10, RefuseRuns DEF PlanInv, PlanType
<1>11. CASE registered[Search!Answer] = Search!Unknown
    BY <1>9, <1>11 DEF Search!Register, Search!Unknown
<1>12. CASE registered[Search!Answer] # Search!Unknown
    <2>1. \/ Search!Refuse("immutable candidate")
          \/ /\ registered' = registered
             /\ run' = [run EXCEPT !.request = @ + 1, !.found = Append(@, Search!Answer)]
             /\ registered[Search!Answer].state \notin {"none", "directory"}
             /\ registered[Search!Answer].by = Search!Request(1)
        BY <1>12 DEF Search!Register
    <2> QED
        BY <1>8, <1>10, <2>1
<1> QED
    BY <1>11, <1>12

\* The blob of a candidate that was registered is written, and the next request is asked.
LEMMA BlobPlan ==
    ASSUME Search!EvolutionSearchAssumption, PlanInv, Search!WriteBlob
    PROVE  PlanInv' /\ Grows
<1>1. UNCHANGED <<claims, outcome>> /\ run.place = "blob"
    BY DEF Search!WriteBlob, Search!At, Search!controller, Search!files
<1>2. ArchiveType' /\ ArchiveGrows
    BY BlobMoves DEF PlanInv
<1>3. Grows
    BY <1>1, <1>2 DEF Grows, ClaimGrows, Claimed, Complete
<1>4. (\A s \in Search!Stages : StageInv(s)') /\ ClaimsType'
    BY <1>1, <1>3, StageStays DEF PlanInv, PlanType, ClaimsType
<1>5. ProposeFits /\ Search!Running /\ RunType /\ BlobFits
    BY <1>1, PlaceIs, RunningIs DEF PlanInv, PlanType, Proposing
<1>6. PICK p \in Programs :
        /\ p = Search!Answer
        /\ registered[p] = [by |-> Search!Request(1), state |-> "directory"]
    BY <1>1, <1>5 DEF BlobFits
<1>7. /\ RunType' /\ run'.place = "propose" /\ run'.stage = run.stage
      /\ run'.found = Append(run.found, p)
    BY <1>5, <1>6, FoundRuns DEF Search!WriteBlob
<1>8. Enters(Search!Generation(run.stage), p)'
    <2>1. registered'[p] = [by |-> Search!Request(1), state |-> "inactive"]
        <3>1. registered'[p] = [registered[p] EXCEPT !.state = "inactive"]
            BY <1>6 DEF Search!WriteBlob, PlanInv, PlanType, ArchiveType
        <3> QED
            BY <1>6, <3>1
    <2>2. Search!Request(1) # <<>> /\ Search!Request(1)[1] = Search!Generation(run.stage)
        BY <1>5, RequestIs
    <2> QED
        BY <1>7, <2>1, <2>2 DEF Enters, Of
<1>9. \A q \in Search!ToSet(run'.found) : Enters(Search!Generation(run.stage), q)'
    <2>1. Search!ToSet(run'.found) = Search!ToSet(run.found) \cup {p}
        BY <1>5, <1>7, FoundIs DEF RunType
    <2>2. ASSUME NEW q \in Search!ToSet(run.found)
          PROVE  Enters(Search!Generation(run.stage), q)'
        <3>1. q \in Programs /\ Enters(Search!Generation(run.stage), q)
            BY <1>5, <2>2, SetOfIs DEF ProposeFits, RunType
        <3> QED
            BY <1>3, <1>7, <3>1, EnteredStays
    <2> QED
        BY <1>8, <2>1, <2>2
<1>10. ProposeFits'
    BY <1>1, <1>5, <1>7, <1>9 DEF ProposeFits, Proposing, Ended, Complete
<1>11. PlaceInv'
    BY <1>3, <1>5, <1>7, <1>10, StageKept
<1> QED
    BY <1>2, <1>3, <1>4, <1>7, <1>11 DEF PlanInv, PlanType

-----------------------------------------------------------------------------
(* The plan.                                                               *)

LEMMA PlanInit == ASSUME Search!EvolutionSearchAssumption, Search!Init PROVE PlanInv
<1>1. ClaimsType
    BY DEF Search!Init, ClaimsType
<1>2. ArchiveType
    BY DEF Search!Init, ArchiveType, Search!Unknown, CandidateStates
<1>3. RunType
    BY DEF Search!Init, Search!Idle, RunType, IsRun, Search!Stages,
           Search!EvolutionSearchAssumption
<1>4. \A s \in Search!Stages : StageInv(s)
    BY DEF Search!Init, StageInv, Claimed, Complete
<1>5. PlaceInv
    BY DEF Search!Init, Search!Idle, PlaceInv, Search!Running
<1> QED
    BY <1>1, <1>2, <1>3, <1>4, <1>5 DEF PlanInv, PlanType

\* The threads, the operator and a stutter leave the plan alone.
Quiet ==
    \/ \E t \in Tasks : Search!Thread(t) \/ Search!ArmFails(t)
    \/ Search!Retract \/ Search!Quarantine \/ Search!RetractRequest
    \/ UNCHANGED Search!vars

\* The threads and the operator write other files.
LEMMA QuietLeaves ==
    ASSUME Quiet
    PROVE  UNCHANGED <<claims, outcome, registered, raws, run, history, rolledBack, lineage,
                       wanted>>
<1>1. CASE \E t \in Tasks : Search!Thread(t) \/ Search!ArmFails(t)
    <2>1. PICK t \in Tasks : Search!Thread(t) \/ Search!ArmFails(t)
        BY <1>1
    <2>2. \/ Search!Load(t) \/ Search!Reserve(t) \/ Search!Dispatch(t)
          \/ Search!WriteReceipt(t) \/ Search!Evaluate(t) \/ Search!RecordEvidence(t)
          \/ Search!ArmFails(t)
        BY <2>1 DEF Search!Thread
    <2> QED
        BY <2>2 DEF Search!Load, Search!Reserve, Search!Dispatch, Search!WriteReceipt,
                    Search!Evaluate, Search!RecordEvidence, Search!ArmFails,
                    Search!controller, Search!files, Search!archive
<1>2. CASE Search!Retract \/ Search!Quarantine \/ Search!RetractRequest
    BY <1>2 DEF Search!Retract, Search!Quarantine, Search!RetractRequest, Search!files,
                Search!archive
<1>3. CASE UNCHANGED Search!vars
    BY <1>3 DEF Search!vars, Search!controller, Search!files, Search!archive
<1> QED
    BY <1>1, <1>2, <1>3 DEF Quiet

\* Every step keeps the plan, and what is on disk grows.
LEMMA PlanNext ==
    ASSUME Search!EvolutionSearchAssumption, PlanInv, Search!Parent \in Programs,
           [Search!Next]_(Search!vars)
    PROVE  PlanInv' /\ Grows
<1>1. CASE Quiet
    BY <1>1, QuietLeaves, QuietPlan
<1>2. CASE Search!Start \/ Search!Kill
    BY <1>2, StartPlan
<1>3. CASE Search!MarkCandidates \/ Search!ClaimStage \/ Search!CompleteStage
           \/ Search!Eliminate \/ Search!Select
    BY <1>3, MarkPlan, ClaimPlan, CompletePlan, EliminatePlan, SelectPlan
<1>4. CASE Search!Join \/ Search!RecordRollback \/ Search!AdvanceParent
           \/ Search!RecordDecision
    BY <1>4, StagePlan
<1>5. CASE \/ Search!Mine \/ Search!Ask \/ Search!WriteAnswer \/ Search!CompleteAsk
           \/ Search!FailRequest \/ Search!AskFails \/ Search!AnswerIsInvalid
           \/ Search!NextGeneration
    BY <1>5, ProposalPlan
<1>6. CASE Search!Register \/ Search!WriteBlob
    BY <1>6, RegisterPlan, BlobPlan
<1> QED
    BY <1>1, <1>2, <1>3, <1>4, <1>5, <1>6 DEF Quiet, Search!Next, Search!Step
-----------------------------------------------------------------------------
(* The way of a run through the plan.                                      *)

\* The run ends, begins, goes to the next stage, or goes on at its stage.
Goes(from, to) == run.place = from /\ run'.place = to
Moves ==
    \/ ~Search!Running'
    \/ run'.stage = 1 /\ run'.place = "claim"
    \/ /\ run'.stage = run.stage + 1
       /\ Goes("eliminate", "claim") \/ Goes("propose", "mark")
    \/ /\ run'.stage = run.stage
       /\ \/ run'.place = run.place
          \/ Goes("mark", "claim") \/ Goes("claim", "arms") \/ Goes("arms", "complete")
          \/ Goes("complete", "mine") /\ run.stage = 1
          \/ Goes("complete", "select") \/ Goes("complete", "eliminate")
          \/ Goes("select", "rollback") \/ Goes("select", "decide") \/ Goes("rollback", "advance")
          \/ Goes("advance", "decide") \/ Goes("decide", "mine") \/ Goes("mine", "propose")
          \/ run.place \in Proposing /\ run'.place \in Proposing

\* Every step of a run is one of these.
LEMMA RunMoves ==
    ASSUME Search!EvolutionSearchAssumption, PlanInv, [Search!Next]_(Search!vars)
    PROVE  Moves
<1>1. RunType
    BY DEF PlanInv, PlanType
<1>2. CASE \E why : Search!Refuse(why)
    BY <1>2, RefuseRuns DEF Moves, Search!Running
<1>3. CASE run' = run
    BY <1>3 DEF Moves
<1>4. CASE Search!Kill
    BY <1>4 DEF Search!Kill, Search!Idle, Moves, Search!Running
<1>5. CASE Search!Start /\ ~\E why : Search!Refuse(why)
    <2>1. run' = [place |-> "claim", stage |-> 1, request |-> 1, found |-> <<>>, why |-> "none"]
        BY <1>5 DEF Search!Start, Search!Idle
    <2> QED
        BY <2>1 DEF Moves
<1>6. CASE Search!MarkCandidates
    BY <1>1, <1>6, ToRuns DEF Search!MarkCandidates, Search!At, Moves, Goes
<1>7. CASE Search!ClaimStage /\ ~\E why : Search!Refuse(why)
    <2>1. Search!At("claim") /\ Search!To("arms")
        BY <1>7 DEF Search!ClaimStage
    <2> QED
        BY <1>1, <2>1, ToRuns DEF Search!At, Moves, Goes
<1>8. CASE Search!Join /\ ~\E why : Search!Refuse(why)
    BY <1>1, <1>8, ToRuns DEF Search!Join, Search!At, Moves, Goes
<1>9. CASE Search!CompleteStage
    <2>1. /\ run.place = "complete"
          /\ \/ Search!To("mine") /\ run.stage = 1
             \/ Search!To("select") \/ Search!To("eliminate")
        BY <1>9 DEF Search!CompleteStage, Search!At
    <2> QED
        BY <1>1, <2>1, ToRuns DEF Moves, Goes
<1>10. CASE Search!Eliminate /\ ~\E why : Search!Refuse(why)
    <2>1. run.place = "eliminate"
        BY <1>10 DEF Search!Eliminate, Search!At
    <2>2. CASE run' = [run EXCEPT !.stage = @ + 1, !.place = "claim"]
        <3>1. run.stage + 1 \in Search!Stages
            BY <1>1, <2>1, PlaceIs, NextStageNumbers DEF EliminateFits, RunType, PlanInv
        <3> QED
            BY <1>1, <2>1, <2>2, <3>1, StageRuns DEF Moves, Goes
    <2>3. CASE \E p \in Search!Eliminated : Search!Transition(p, "rejected", "eliminate")
        <3>1. Search!To("eliminate")
            BY <1>10, <2>3 DEF Search!Transition
        <3> QED
            BY <1>1, <2>1, <3>1, ToRuns DEF Moves
    <2> QED
        BY <1>10, <2>2, <2>3 DEF Search!Eliminate
<1>11. CASE Search!Select /\ ~\E why : Search!Refuse(why)
    <2>1. run.place = "select" /\ (Search!To("rollback") \/ Search!To("decide"))
        BY <1>11 DEF Search!Select, Search!At, Search!Transition
    <2> QED
        BY <1>1, <2>1, ToRuns DEF Moves, Goes
<1>12. CASE \/ Search!RecordRollback \/ Search!AdvanceParent \/ Search!RecordDecision
    <2>1. \/ \E why : Search!Refuse(why)
          \/ Search!At("rollback") /\ Search!To("advance")
          \/ Search!At("advance") /\ Search!To("decide")
          \/ Search!At("decide") /\ Search!To("mine")
        BY <1>12 DEF Search!RecordRollback, Search!AdvanceParent, Search!RecordDecision
    <2> QED
        BY <1>1, <1>2, <2>1, ToRuns DEF Search!At, Moves, Goes
<1>13. CASE Search!Mine
    BY <1>1, <1>13, MineRuns DEF Search!Mine, Search!At, Moves, Goes, Search!Running
<1>14. CASE Search!NextGeneration
    <2>1. /\ run.place = "propose"
          /\ \/ Search!To("finished")
             \/ /\ run.stage + 1 \in Search!Stages
                /\ run' = [run EXCEPT !.stage = @ + 1, !.place = "mark"]
        BY <1>14 DEF Search!NextGeneration, Search!At
    <2> QED
        BY <1>1, <2>1, ToRuns, StageRuns DEF Moves, Goes, Search!Running
<1>15. CASE \/ Search!Ask \/ Search!WriteAnswer \/ Search!CompleteAsk
            \/ Search!FailRequest \/ Search!AskFails \/ Search!AnswerIsInvalid
    <2>1. /\ run.place \in Proposing
          /\ \/ \E why : Search!Refuse(why)
             \/ Search!SkipRequest
             \/ \E place \in Proposing : Search!To(place)
        BY <1>15 DEF Search!Ask, Search!WriteAnswer, Search!CompleteAsk, Search!FailRequest,
                     Search!AskFails, Search!AnswerIsInvalid, Search!At, Proposing
    <2> QED
        BY <1>1, <1>2, <2>1, ToRuns, SkipRuns DEF Moves, Proposing
<1>16. CASE Search!Register \/ Search!WriteBlob
    <2>1. run.place \in Proposing /\ (run.place = "blob" => Search!WriteBlob)
        BY <1>16 DEF Search!Register, Search!WriteBlob, Search!At, Proposing
    <2>2. Search!Answer \in Programs
        BY <1>16, PlaceIs, RunningIs
           DEF Search!Register, Search!WriteBlob, Search!At, PlanInv, BlobFits, Proposing
    <2>3. \/ \E why : Search!Refuse(why)
          \/ Search!To("blob")
          \/ run' = [run EXCEPT !.request = @ + 1, !.found = Append(@, Search!Answer)]
          \/ run' = [run EXCEPT !.request = @ + 1, !.found = Append(@, Search!Answer),
                                !.place = "propose"]
        BY <1>16 DEF Search!Register, Search!WriteBlob
    <2>4. CASE run' = [run EXCEPT !.request = @ + 1, !.found = Append(@, Search!Answer)]
        <3>1. run' = [place |-> run.place, stage |-> run.stage, request |-> run.request + 1,
                      found |-> Append(run.found, Search!Answer), why |-> run.why]
            BY <1>1, <2>4 DEF RunType, IsRun
        <3> QED
            BY <2>1, <3>1 DEF Moves
    <2> QED
        BY <1>1, <1>2, <2>1, <2>2, <2>3, <2>4, ToRuns, FoundRuns DEF Moves, Proposing
<1>17. CASE Quiet
    BY <1>3, <1>17, QuietLeaves
<1> QED
    BY <1>2, <1>4, <1>5, <1>6, <1>7, <1>8, <1>9, <1>10, <1>11, <1>12, <1>13, <1>14, <1>15,
       <1>16, <1>17 DEF Quiet, Search!Next, Search!Step
-----------------------------------------------------------------------------
(* The decisions on the search parent.                                     *)

\* The last decision is on the parent of the moment.
LEMMA LastIs ==
    ASSUME Search!EvolutionSearchAssumption, DecisionInv
    PROVE  /\ Len(history) \in Nat
           /\ Search!Parent = ParentAfter(Len(history))
           /\ \A n \in 0 .. Len(history) : ParentAfter(n) \in Programs
<1>1. Len(history) \in Nat /\ (history = <<>> <=> Len(history) = 0)
    BY DEF DecisionInv
<1>2. Search!Parent = ParentAfter(Len(history))
    BY <1>1 DEF Search!Parent, ParentAfter, Search!Last
<1>3. ASSUME NEW n \in 0 .. Len(history) PROVE ParentAfter(n) \in Programs
    <2>1. CASE n = 0
        BY <2>1 DEF ParentAfter, Search!EvolutionSearchAssumption
    <2>2. CASE n # 0
        <3>1. n \in 1 .. Len(history)
            BY <1>1, <2>2
        <3> DEFINE Decided == [generation : Nat, previous : Programs, parent : Programs]
        <3>2. history \in Seq(Decided)
            BY DEF DecisionInv
        <3>3. history[n] \in Decided
            <4> HIDE DEF Decided
            <4> QED
                BY <3>1, <3>2
        <3> QED
            BY <2>2, <3>3 DEF ParentAfter
    <2> QED
        BY <2>1, <2>2
<1> QED
    BY <1>1, <1>2, <1>3

\* The verdict on a generation stays when its confirmation is complete.
LEMMA VerdictStays ==
    ASSUME Search!EvolutionSearchAssumption, PlanInv, Grows, NEW g \in 1 .. Generations,
           Complete(Final(g))
    PROVE  /\ Complete(Final(g))' /\ Verdict(g)' = Verdict(g) /\ Winner(g)' = Winner(g)
           /\ claims'[Final(g)].arms = claims[Final(g)].arms
           /\ outcome'[Final(g)] = outcome[Final(g)]
<1>1. {3 * g, Final(g)} \subseteq Search!Stages /\ 3 * g < Final(g)
    BY FinalNumbers DEF Final
<1>2. Claimed(Final(g)) /\ Complete(3 * g)
    BY <1>1 DEF PlanInv, StageInv, Claimed, Complete
<1> QED
    BY <1>1, <1>2 DEF Grows, ClaimGrows, Verdict, Winner

\* The decisions stay verdicts while the archive grows.
LEMMA DecisionStays ==
    ASSUME Search!EvolutionSearchAssumption, PlanInv, Grows, DecisionInv, history' = history,
           \A s \in Search!Stages : s > 1 /\ Claimed(s)' /\ ~Claimed(s) =>
               /\ Search!Generation(s) <= Len(history) + 1
               /\ claims'[s].arms[2] = ParentAfter(Search!Generation(s) - 1)
    PROVE  DecisionInv'
<1>1. Len(history) \in Nat
    BY LastIs
<1>2. \A g \in 1 .. Len(history) : g \in 1 .. Generations
    BY <1>1 DEF DecisionInv, Search!EvolutionSearchAssumption
<1>3. \A g \in 1 .. Len(history) : Complete(Final(g))' /\ history[g] = Verdict(g)'
    BY <1>2, VerdictStays DEF DecisionInv
<1>4. \A n : ParentAfter(n)' = ParentAfter(n)
    BY DEF ParentAfter
<1>5. ASSUME NEW s \in Search!Stages, s > 1, Claimed(s)'
      PROVE  /\ Search!Generation(s) <= Len(history) + 1
             /\ claims'[s].arms[2] = ParentAfter(Search!Generation(s) - 1)
    <2>1. CASE Claimed(s)
        BY <1>5, <2>1 DEF DecisionInv, Grows, ClaimGrows
    <2>2. CASE ~Claimed(s)
        BY <1>5, <2>2
    <2> QED
        BY <2>1, <2>2
<1> QED
    BY <1>3, <1>4, <1>5 DEF DecisionInv

\* A stage that is claimed takes the parent of the moment, which is that of the
\* generation before.
LEMMA ClaimDecision ==
    ASSUME Search!EvolutionSearchAssumption, PlanInv, Grows, DecisionInv, DecidingInv,
           Search!ClaimStage
    PROVE  DecisionInv'
<1>1. history' = history /\ run.place = "claim"
    BY DEF Search!ClaimStage, Search!At
<1>2. ASSUME NEW s \in Search!Stages, s > 1, Claimed(s)', ~Claimed(s)
      PROVE  /\ Search!Generation(s) <= Len(history) + 1
             /\ claims'[s].arms[2] = ParentAfter(Search!Generation(s) - 1)
    <2>1. s = run.stage
        BY <1>2 DEF Search!ClaimStage, Claimed, PlanInv, PlanType, ClaimsType
    <2>2. /\ claims' = [claims EXCEPT ![s] = [arms |-> <<Original, Search!Parent>>
                                                        \o Search!Contenders,
                                               status |-> "claimed"]]
        BY <1>2, <2>1 DEF Search!ClaimStage, Claimed
    <2>3. claims'[s].arms = <<Original, Search!Parent>> \o Search!Contenders
        BY <2>2 DEF PlanInv, PlanType, ClaimsType
    <2>4. Search!Contenders \in Seq(Programs)
        BY <1>1, ContendersAre DEF Search!At
    <2>5. Search!Parent \in Programs /\ Original \in Programs
        BY LastIs DEF Search!EvolutionSearchAssumption
    <2>6. claims'[s].arms[2] = Search!Parent
        BY <2>3, <2>4, <2>5, ArmsAre
    <2> DEFINE g == Search!Generation(s)
    <2>7. g <= Len(history) + 1 /\ g \in 1 .. Generations /\ Len(history) \in Nat
        BY <1>1, <1>2, <2>1, LastIs, StageNumbers, RunningIs
           DEF DecidingInv, Search!EvolutionSearchAssumption
    <2>8. ~(g <= Len(history))
        <3>1. SUFFICES ASSUME g <= Len(history) PROVE FALSE
            OBVIOUS
        <3>2. g \in 1 .. Len(history)
            BY <2>7, <3>1
        <3>3. Complete(Final(g))
            BY <3>2 DEF DecisionInv
        <3>4. Final(g) \in Search!Stages /\ s <= Final(g)
            BY <1>2, <2>7, StageNumbers, FinalNumbers DEF Final
        <3>5. s = Final(g) \/ s < Final(g)
            BY <3>4, StageNumbers
        <3>6. Claimed(Final(g))
            BY <3>3 DEF Claimed, Complete
        <3>7. Claimed(s)
            BY <3>3, <3>4, <3>5, <3>6 DEF PlanInv, StageInv, Claimed, Complete
        <3> QED
            BY <1>2, <3>7
    <2>9. g - 1 = Len(history)
        BY <2>7, <2>8
    <2> QED
        BY <2>6, <2>7, <2>9, LastIs
<1> QED
    BY <1>1, <1>2, DecisionStays

\* What is decided at a confirmation is the verdict on its generation, which is the next
\* one or one that was decided before.
LEMMA DecideIs ==
    ASSUME Search!EvolutionSearchAssumption, PlanInv, DecisionInv, DecidingInv,
           run.place \in Deciding, NEW g, g = Search!Generation(run.stage)
    PROVE  /\ g \in 1 .. Generations /\ Final(g) = run.stage /\ g <= Len(history) + 1
           /\ Complete(Final(g)) /\ Claimed(Final(g))
           /\ Search!Champion = Winner(g) /\ Winner(g) \in Programs
           /\ Search!Decision = Verdict(g) /\ Search!Decision.generation = g
           /\ Search!PreviousParent = claims[Final(g)].arms[2]
           /\ Search!PreviousParent = ParentAfter(g - 1)
           /\ Search!PreviousParent \in Programs /\ Search!PreviousParent # Winner(g)
           /\ outcome[Final(g)] \in BOOLEAN
<1>1. /\ Search!IsConfirmation(run.stage) /\ Complete(run.stage) /\ run.stage \in Search!Stages
      /\ Search!Champion = outcome[run.stage - 1][1] /\ Search!Champion \in Programs
      /\ Search!PreviousParent \in Programs /\ Search!PreviousParent # Search!Champion
      /\ outcome[run.stage] \in BOOLEAN
    BY ChampionIs
<1>2. run.stage \in Nat /\ run.stage > 1 /\ g \in 0 .. Generations /\ g >= 1
    BY <1>1, StageNumbers DEF Search!IsConfirmation
<1>3. g \in 1 .. Generations
    BY <1>2 DEF Search!EvolutionSearchAssumption
<1>4. run.stage = 3 * g + 1
    BY <1>1, StageNumbers
<1>5. run.stage = Final(g) /\ run.stage - 1 = 3 * g
    BY <1>3, <1>4 DEF Final
<1>6. Search!Champion = Winner(g)
    BY <1>1, <1>5 DEF Winner
<1>7. Search!PreviousParent = claims[Final(g)].arms[2]
    BY <1>5 DEF Search!PreviousParent
<1>8. Search!Decision = Verdict(g) /\ Search!Decision.generation = g
    BY <1>5, <1>6, <1>7 DEF Search!Decision, Verdict
<1>9. Search!Running /\ Claimed(Final(g))
    BY <1>1, <1>5, RunningIs DEF Claimed, Complete
<1>10. g <= Len(history) + 1
    BY <1>9 DEF DecidingInv
<1>11. Search!PreviousParent = ParentAfter(g - 1)
    BY <1>1, <1>2, <1>5, <1>7, <1>9 DEF DecisionInv
<1> QED
    BY <1>1, <1>3, <1>5, <1>6, <1>7, <1>8, <1>9, <1>10, <1>11

\* A decision that is on record is the verdict.
LEMMA OwnIs ==
    ASSUME Search!EvolutionSearchAssumption, DecisionInv, NEW g \in Nat
    PROVE  {i \in DOMAIN history : history[i].generation = g}
             = IF g \in 1 .. Len(history) THEN {g} ELSE {}
<1>1. DOMAIN history = 1 .. Len(history) /\ Len(history) \in Nat
    BY DEF DecisionInv
<1>2. \A i \in 1 .. Len(history) : history[i].generation = i
    <2>1. \A i : Verdict(i).generation = i
        BY DEF Verdict
    <2>2. \A i \in 1 .. Len(history) : history[i] = Verdict(i)
        BY DEF DecisionInv
    <2> QED
        BY <2>1, <2>2
<1> QED
    BY <1>1, <1>2

\* A decision is recorded for the first time or is met again, and never differs.
LEMMA RecordIs ==
    ASSUME Search!EvolutionSearchAssumption, PlanInv, DecisionInv, DecidingInv,
           Search!RecordDecision, NEW g, g = Search!Generation(run.stage)
    PROVE  /\ UNCHANGED <<claims, outcome, registered, rolledBack, lineage>>
           /\ run.place = "decide"
           /\ \/ g \in 1 .. Len(history) /\ history' = history /\ Search!To("mine")
              \/ /\ g = Len(history) + 1 /\ history' = Append(history, Verdict(g))
                 /\ Search!To("mine")
<1>1. run.place = "decide" /\ run.place \in Deciding
    BY DEF Search!RecordDecision, Search!At, Deciding
<1>2. /\ g \in 1 .. Generations /\ g <= Len(history) + 1 /\ Search!Decision = Verdict(g)
      /\ Search!Decision.generation = g /\ Search!PreviousParent = ParentAfter(g - 1)
    BY <1>1, DecideIs
<1>3. g \in Nat /\ Len(history) \in Nat
    BY <1>2, LastIs DEF Search!EvolutionSearchAssumption
<1> DEFINE own == {i \in DOMAIN history : history[i].generation = Search!Decision.generation}
<1>4. own = IF g \in 1 .. Len(history) THEN {g} ELSE {}
    BY <1>2, <1>3, OwnIs
<1>5. CASE g \in 1 .. Len(history)
    <2>1. own # {} /\ (CHOOSE i \in own : TRUE) = g
        <3>1. own = {g}
            BY <1>4, <1>5
        <3> HIDE DEF own
        <3>2. \E i : i \in own
            BY <3>1
        <3>3. (CHOOSE i \in own : TRUE) \in own
            BY <3>2, Zenon
        <3> QED
            BY <3>1, <3>3
    <2>2. history[g] = Verdict(g)
        BY <1>5 DEF DecisionInv
    <2>3. history' = history /\ Search!To("mine")
        BY <1>2, <2>1, <2>2 DEF Search!RecordDecision
    <2> QED
        BY <1>1, <1>5, <2>3 DEF Search!RecordDecision, Search!files, Search!archive
<1>6. CASE g \notin 1 .. Len(history)
    <2>1. own = {} /\ g = Len(history) + 1 /\ g - 1 = Len(history)
        BY <1>2, <1>3, <1>4, <1>6
    <2>2. Search!PreviousParent = Search!Parent
        BY <1>2, <2>1, LastIs
    <2>3. history' = Append(history, Verdict(g)) /\ Search!To("mine")
        BY <1>2, <2>1, <2>2 DEF Search!RecordDecision
    <2> QED
        BY <1>1, <2>1, <2>3 DEF Search!RecordDecision, Search!files, Search!archive
<1> QED
    BY <1>5, <1>6

\* The history after a decision.
LEMMA AppendedIs ==
    ASSUME Search!EvolutionSearchAssumption, DecisionInv, NEW d,
           d \in [generation : Nat, previous : Programs, parent : Programs],
           history' = Append(history, d)
    PROVE  /\ history' \in Seq([generation : Nat, previous : Programs, parent : Programs])
           /\ Len(history') = Len(history) + 1 /\ history'[Len(history) + 1] = d
           /\ \A i \in 1 .. Len(history) : history'[i] = history[i]
           /\ \A n \in 0 .. Len(history) : ParentAfter(n)' = ParentAfter(n)
           /\ \A n : n = Len(history) + 1 => ParentAfter(n)' = d.parent
<1> DEFINE Decided == [generation : Nat, previous : Programs, parent : Programs]
<1>1. history \in Seq(Decided) /\ d \in Decided
    BY DEF DecisionInv
<1> HIDE DEF Decided
<1>2. /\ history' \in Seq(Decided) /\ Len(history') = Len(history) + 1
      /\ history'[Len(history) + 1] = d /\ Len(history) \in Nat
      /\ \A i \in 1 .. Len(history) : history'[i] = history[i]
    BY <1>1
<1>3. \A n \in 0 .. Len(history) : ParentAfter(n)' = ParentAfter(n)
    BY <1>2 DEF ParentAfter
<1>4. ASSUME NEW n, n = Len(history) + 1 PROVE ParentAfter(n)' = d.parent
    <2>1. n # 0 /\ history'[n] = d
        BY <1>2, <1>4
    <2> QED
        BY <2>1 DEF ParentAfter
<1> QED
    BY <1>2, <1>3, <1>4 DEF Decided

LEMMA VerdictIs ==
    ASSUME Search!EvolutionSearchAssumption, PlanInv, DecisionInv, DecidingInv,
           run.place \in Deciding, NEW g, g = Search!Generation(run.stage)
    PROVE  Verdict(g) \in [generation : Nat, previous : Programs, parent : Programs]
<1>1. /\ g \in 1 .. Generations /\ Winner(g) \in Programs /\ Generations \in Nat
      /\ claims[Final(g)].arms[2] \in Programs
    BY DecideIs DEF Search!EvolutionSearchAssumption
<1>2. g \in Nat
    BY <1>1
<1> QED
    BY <1>1, <1>2 DEF Verdict

\* A decision that is recorded keeps the decisions those of a run of verdicts.
LEMMA RecordDecisionInv ==
    ASSUME Search!EvolutionSearchAssumption, PlanInv, Grows, DecisionInv, DecidingInv,
           Search!RecordDecision
    PROVE  DecisionInv'
<1>1. PICK g : g = Search!Generation(run.stage)
    OBVIOUS
<1>2. /\ UNCHANGED <<claims, outcome>> /\ run.place \in Deciding
      /\ \/ history' = history
         \/ g = Len(history) + 1 /\ history' = Append(history, Verdict(g))
    BY <1>1, RecordIs DEF Deciding
<1>3. CASE history' = history
    <2>1. \A s : Claimed(s)' = Claimed(s)
        BY <1>2 DEF Claimed
    <2> QED
        BY <1>3, <2>1, DecisionStays
<1>4. CASE g = Len(history) + 1 /\ history' = Append(history, Verdict(g))
    <2>1. Verdict(g) \in [generation : Nat, previous : Programs, parent : Programs]
        BY <1>1, <1>2, VerdictIs
    <2>2. PICK d : d = Verdict(g)
        OBVIOUS
    <2>3. /\ history' \in Seq([generation : Nat, previous : Programs, parent : Programs])
          /\ Len(history') = Len(history) + 1 /\ history'[Len(history) + 1] = d
          /\ \A i \in 1 .. Len(history) : history'[i] = history[i]
          /\ \A n \in 0 .. Len(history) : ParentAfter(n)' = ParentAfter(n)
        BY <1>4, <2>1, <2>2, AppendedIs
    <2>4. Len(history) \in Nat /\ g \in 1 .. Generations /\ Complete(Final(g))
        BY <1>1, <1>2, LastIs, DecideIs
    <2>5. Len(history') <= Generations
        BY <1>4, <2>3, <2>4
    <2>6. \A i : Verdict(i)' = Verdict(i) /\ Complete(i)' = Complete(i) /\ Claimed(i)' = Claimed(i)
        BY <1>2 DEF Verdict, Winner, Complete, Claimed
    <2>7. ASSUME NEW i \in 1 .. Len(history')
          PROVE  Complete(Final(i))' /\ history'[i] = Verdict(i)'
        <3>1. i \in 1 .. Len(history) \/ i = g
            BY <1>4, <2>3, <2>4
        <3>2. CASE i \in 1 .. Len(history)
            BY <2>3, <2>6, <3>2 DEF DecisionInv
        <3>3. CASE i = g
            BY <1>4, <2>2, <2>3, <2>4, <2>6, <3>3
        <3> QED
            BY <3>1, <3>2, <3>3
    <2>8. ASSUME NEW s \in Search!Stages, s > 1, Claimed(s)'
          PROVE  /\ Search!Generation(s) <= Len(history') + 1
                 /\ claims'[s].arms[2] = ParentAfter(Search!Generation(s) - 1)'
        <3>1. /\ Search!Generation(s) <= Len(history) + 1
              /\ claims[s].arms[2] = ParentAfter(Search!Generation(s) - 1)
            BY <2>6, <2>8 DEF DecisionInv
        <3>2. Search!Generation(s) \in Nat /\ Search!Generation(s) >= 1
            BY <2>8, StageNumbers DEF Search!EvolutionSearchAssumption
        <3>3. Search!Generation(s) - 1 \in 0 .. Len(history)
            BY <2>4, <3>1, <3>2
        <3>4. ParentAfter(Search!Generation(s) - 1)' = ParentAfter(Search!Generation(s) - 1)
            BY <2>3, <3>3
        <3> QED
            BY <1>2, <2>3, <2>4, <3>1, <3>2, <3>4
    <2> QED
        BY <2>3, <2>5, <2>7, <2>8 DEF DecisionInv
<1> QED
    BY <1>2, <1>3, <1>4

-----------------------------------------------------------------------------
(* The lineage of the archive.                                             *)

\* The lineage along the decisions.
LEMMA LineageIs ==
    ASSUME Search!EvolutionSearchAssumption, DecisionInv, ArchiveInv
    PROVE  \E at, m, n :
             /\ m = Len(lineage) /\ n = Len(history) /\ m \in Nat \ {0} /\ n \in Nat
             /\ Walk(at) /\ at[n] \in 1 .. m /\ m \in {at[n], at[n] + 1}
             /\ Search!Last(lineage) = lineage[m]
             /\ \A i \in 1 .. m : lineage[i] \in Programs
<1>1. PICK m, n : m = Len(lineage) /\ n = Len(history)
    OBVIOUS
<1>2. m \in Nat \ {0} /\ n \in Nat
    BY <1>1, LastIs DEF ArchiveInv
<1>3. PICK at : Walk(at)
    BY DEF ArchiveInv
<1>4. at \in [0 .. n -> 1 .. m] /\ m <= at[n] + 1
    BY <1>1, <1>3 DEF Walk, Trail
<1>5. at[n] \in 1 .. m
    BY <1>2, <1>4
<1>6. m \in {at[n], at[n] + 1}
    BY <1>2, <1>4, <1>5
<1>7. Search!Last(lineage) = lineage[m] /\ \A i \in 1 .. m : lineage[i] \in Programs
    BY <1>1 DEF Search!Last, ArchiveInv
<1> QED
    BY <1>1, <1>2, <1>3, <1>5, <1>6, <1>7

\* A parent of the lineage that won a confirmation won that of one generation.
LEMMA WonOnce ==
    ASSUME Search!EvolutionSearchAssumption, PlanInv, NEW g \in 1 .. Generations,
           NEW h \in 1 .. Generations, Claimed(Final(g)), Claimed(Final(h)),
           Winner(g) = Winner(h)
    PROVE  g = h
<1>1. ASSUME NEW k \in 1 .. Generations, Claimed(Final(k))
      PROVE  Winner(k) \in Programs /\ registered[Winner(k)].by[1] = k - 1
    <2>1. Final(k) \in Search!Stages /\ Search!IsConfirmation(Final(k))
          /\ Search!Generation(Final(k)) = k /\ Final(k) - 1 = 3 * k
        BY FinalNumbers DEF Final
    <2>2. outcome[3 * k][1] \in Programs /\ Entered(k - 1, outcome[3 * k][1])
        BY <1>1, <2>1, WinnerIs DEF PlanInv
    <2> QED
        BY <2>2 DEF Winner, Entered, Of
<1>2. g - 1 = h - 1
    BY <1>1
<1> QED
    BY <1>2 DEF Search!EvolutionSearchAssumption

\* A generation that was decided for its champion is in the lineage.
LEMMA EarnedFollows ==
    ASSUME Search!EvolutionSearchAssumption, PlanInv, DecisionInv, ArchiveInv,
           NEW g \in 1 .. Len(history), outcome[Final(g)],
           Winner(g) # claims[Final(g)].arms[2]
    PROVE  Search!Follows(Winner(g), claims[Final(g)].arms[2])
<1>1. PICK at, m, n :
        /\ m = Len(lineage) /\ n = Len(history) /\ m \in Nat \ {0} /\ n \in Nat
        /\ Walk(at)
    BY LineageIs
<1>2. /\ Trail(at) /\ at \in [0 .. n -> 1 .. m]
      /\ g \in 0 .. n /\ g - 1 \in 0 .. n /\ g \in 1 .. n
    BY <1>1 DEF Walk, Trail
<1>3. history[g] = Verdict(g) /\ Complete(Final(g))
    BY DEF DecisionInv
<1>4. history[g].parent = Winner(g) /\ history[g].previous = claims[Final(g)].arms[2]
    BY <1>3 DEF Verdict
<1>5. at[g] = at[g - 1] + 1
    BY <1>1, <1>2, <1>4 DEF Trail
<1>6. at[g] \in 1 .. m /\ at[g - 1] \in 1 .. m
    BY <1>2
<1>7. at[g] \in 2 .. m /\ at[g] - 1 = at[g - 1]
    BY <1>1, <1>5, <1>6
<1>8. lineage[at[g]] = ParentAfter(g) /\ lineage[at[g - 1]] = ParentAfter(g - 1)
    BY <1>1, <1>2 DEF Trail
<1>9. ParentAfter(g) = Winner(g)
    BY <1>2, <1>4 DEF ParentAfter
<1>10. claims[Final(g)].arms[2] = ParentAfter(g - 1)
    <2>1. g \in 1 .. Generations
        BY <1>1, <1>2 DEF DecisionInv, Search!EvolutionSearchAssumption
    <2>2. Final(g) \in Search!Stages /\ Search!Generation(Final(g)) = g /\ Final(g) > 1
        BY <2>1, FinalNumbers, StageNumbers DEF Final, Search!IsConfirmation
    <2> QED
        BY <1>3, <2>2 DEF DecisionInv, Claimed, Complete
<1> QED
    BY <1>1, <1>7, <1>8, <1>9, <1>10 DEF Search!Follows

\* The lineage is ahead by the parent that won the generation to be decided next.
LEMMA PendingIs ==
    ASSUME Search!EvolutionSearchAssumption, DecisionInv, ArchiveInv, NEW at, Walk(at),
           NEW m, NEW n, m = Len(lineage), n = Len(history), m = at[n] + 1
    PROVE  m \in 2 .. m /\ WonBy(m, n + 1)
<1>1. m \in Nat \ {0} /\ n \in Nat /\ at[n] \in 1 .. m
    BY LastIs DEF ArchiveInv, Walk, Trail
<1>2. m \in 2 .. m /\ ~(m <= at[n])
    BY <1>1
<1>3. PICK g \in 1 .. Generations :
        WonBy(m, g) /\ g <= n + 1 /\ (g <= n <=> m <= at[n])
    BY <1>2 DEF Walk
<1>4. g = n + 1
    BY <1>1, <1>2, <1>3 DEF Search!EvolutionSearchAssumption
<1> QED
    BY <1>2, <1>3, <1>4

\* A win is for good.
LEMMA WonStays ==
    ASSUME Search!EvolutionSearchAssumption, PlanInv, Grows, rolledBack \subseteq rolledBack',
           NEW i, NEW g \in 1 .. Generations, lineage[i] \in Programs,
           lineage'[i] = lineage[i], lineage'[i - 1] = lineage[i - 1], WonBy(i, g)
    PROVE  WonBy(i, g)'
<1>1. Complete(Final(g)) /\ registered[lineage[i]].state = "selected"
    BY DEF WonBy
<1>2. /\ Complete(Final(g))' /\ Winner(g)' = Winner(g)
      /\ claims'[Final(g)].arms = claims[Final(g)].arms
      /\ outcome'[Final(g)] = outcome[Final(g)]
    BY <1>1, VerdictStays
<1>3. registered'[lineage[i]].state = "selected"
    BY <1>1 DEF Grows, ArchiveGrows
<1> QED
    BY <1>2, <1>3 DEF WonBy

\* A lineage that is not written stays earned.
LEMMA LineageStays ==
    ASSUME Search!EvolutionSearchAssumption, PlanInv, Grows, rolledBack \subseteq rolledBack',
           DecisionInv, ArchiveInv, UNCHANGED <<history, lineage>>
    PROVE  ArchiveInv'
<1>1. PICK at, m, n :
        /\ m = Len(lineage) /\ n = Len(history) /\ m \in Nat \ {0} /\ n \in Nat
        /\ Walk(at) /\ \A i \in 1 .. m : lineage[i] \in Programs
    BY LineageIs
<1>2. Trail(at)'
    BY <1>1 DEF Walk, Trail, ParentAfter
<1>3. ASSUME NEW i \in 2 .. Len(lineage)
      PROVE  \E g \in 1 .. Generations :
               WonBy(i, g)' /\ g <= Len(history) + 1 /\ (g <= Len(history) <=> i <= at[Len(history)])
    <2>1. PICK g \in 1 .. Generations :
            WonBy(i, g) /\ g <= Len(history) + 1 /\ (g <= Len(history) <=> i <= at[Len(history)])
        BY <1>1 DEF Walk
    <2>2. i \in 1 .. m
        BY <1>1
    <2>3. WonBy(i, g)'
        BY <1>1, <2>1, <2>2, WonStays
    <2> QED
        BY <2>1, <2>3
<1>4. Walk(at)'
    BY <1>2, <1>3 DEF Walk
<1> QED
    BY <1>4 DEF ArchiveInv, Walk, Trail

\* The archive moves on to the champion, has it already, or finds another parent.
LEMMA AdvanceIs ==
    ASSUME Search!AdvanceParent
    PROVE  /\ UNCHANGED <<claims, outcome, registered, rolledBack, history>>
           /\ run.place = "advance"
           /\ \/ lineage' = lineage /\ Search!Refuse("stale parent")
                 /\ Search!Last(lineage) # Search!PreviousParent
                 /\ ~Search!Follows(Search!Champion, Search!PreviousParent)
              \/ /\ Search!Follows(Search!Champion, Search!PreviousParent)
                 /\ lineage' = lineage /\ Search!To("decide")
              \/ /\ ~Search!Follows(Search!Champion, Search!PreviousParent)
                 /\ Search!Last(lineage) = Search!PreviousParent
                 /\ lineage' = Append(lineage, Search!Champion) /\ Search!To("decide")
BY DEF Search!AdvanceParent, Search!At, Search!controller, Search!files

\* The archive is ahead by the champion of the generation that is decided next, and only
\* when it was not before.
LEMMA AdvanceLineage ==
    ASSUME Search!EvolutionSearchAssumption, PlanInv, Grows, LineageInv,
           Search!AdvanceParent
    PROVE  ArchiveInv'
<1>1. PICK at, m, n :
        /\ m = Len(lineage) /\ n = Len(history) /\ m \in Nat \ {0} /\ n \in Nat
        /\ Walk(at) /\ at[n] \in 1 .. m /\ m \in {at[n], at[n] + 1}
        /\ Search!Last(lineage) = lineage[m] /\ \A i \in 1 .. m : lineage[i] \in Programs
    BY LineageIs DEF LineageInv
<1>2. PICK g : g = Search!Generation(run.stage)
    OBVIOUS
<1>3. run.place \in Deciding /\ Search!Running
    BY AdvanceIs, RunningIs DEF Deciding
<1>4. /\ g \in 1 .. Generations /\ Final(g) = run.stage /\ g <= n + 1
      /\ Complete(Final(g)) /\ Claimed(Final(g))
      /\ Search!Champion = Winner(g) /\ Winner(g) \in Programs
      /\ Search!PreviousParent = claims[Final(g)].arms[2]
      /\ Search!PreviousParent # Winner(g)
    BY <1>1, <1>2, <1>3, DecideIs DEF LineageInv
<1>5. /\ outcome[Final(g)] = TRUE /\ registered[Winner(g)].state = "selected"
      /\ Winner(g) \in rolledBack
    BY <1>3, <1>4, AdvanceIs DEF LineageInv, DecidingInv
<1>6. UNCHANGED <<history, rolledBack, claims, outcome, registered>>
    BY AdvanceIs
<1>7. CASE lineage' = lineage
    BY <1>6, <1>7, LineageStays DEF LineageInv
<1>8. CASE /\ ~Search!Follows(Winner(g), claims[Final(g)].arms[2])
           /\ lineage[m] = claims[Final(g)].arms[2]
           /\ lineage' = Append(lineage, Winner(g))
    <2>1. ~(g \in 1 .. n)
        BY <1>1, <1>4, <1>5, <1>8, EarnedFollows DEF LineageInv
    <2>2. g = n + 1
        BY <1>1, <1>4, <2>1 DEF Search!EvolutionSearchAssumption
    <2>3. m = at[n]
        <3>1. SUFFICES ASSUME m = at[n] + 1 PROVE FALSE
            BY <1>1
        <3>2. m \in 2 .. m /\ WonBy(m, g)
            BY <1>1, <2>2, <3>1, PendingIs DEF LineageInv
        <3>3. Search!Follows(Winner(g), claims[Final(g)].arms[2])
            BY <1>1, <3>2 DEF WonBy, Search!Follows
        <3> QED
            BY <1>8, <3>3
    <2>4. /\ lineage' \in Seq(Programs) /\ Len(lineage') = m + 1 /\ lineage'[m + 1] = Winner(g)
          /\ \A i \in 1 .. m : lineage'[i] = lineage[i]
        BY <1>1, <1>4, <1>8 DEF LineageInv, ArchiveInv
    <2>5. Trail(at)'
        <3>1. /\ Trail(at) /\ at \in [0 .. n -> 1 .. m]
            BY <1>1 DEF Walk, Trail
        <3>2. at \in [0 .. n -> 1 .. m + 1] /\ \A i \in 0 .. n : at[i] \in 1 .. m
            BY <1>1, <3>1
        <3>3. \A i \in 0 .. n : lineage'[at[i]] = ParentAfter(i)
            BY <1>1, <2>4, <3>1, <3>2 DEF Trail
        <3>4. \A i : ParentAfter(i)' = ParentAfter(i)
            BY <1>6 DEF ParentAfter
        <3>5. /\ at[0] = 1
              /\ \A i \in 1 .. n :
                   at[i] = IF history[i].parent = history[i].previous
                           THEN at[i - 1] ELSE at[i - 1] + 1
            BY <1>1, <3>1 DEF Trail
        <3>6. m + 1 <= at[n] + 1
            BY <1>1, <2>3
        <3> QED
            BY <1>1, <1>6, <2>4, <3>2, <3>3, <3>4, <3>5, <3>6 DEF Trail
    <2>6. ASSUME NEW i \in 2 .. m + 1
          PROVE  \E h \in 1 .. Generations : WonBy(i, h)' /\ h <= n + 1 /\ (h <= n <=> i <= at[n])
        <3>1. CASE i \in 2 .. m
            <4>1. PICK h \in 1 .. Generations :
                    WonBy(i, h) /\ h <= n + 1 /\ (h <= n <=> i <= at[n])
                BY <1>1, <3>1 DEF Walk
            <4>2. i \in 1 .. m /\ i - 1 \in 1 .. m
                BY <1>1, <3>1
            <4>3. WonBy(i, h)'
                BY <1>1, <1>6, <2>4, <4>1, <4>2, WonStays
            <4> QED
                BY <4>1, <4>3
        <3>2. CASE i = m + 1
            <4>1. i - 1 = m /\ i - 1 \in 1 .. m
                BY <1>1, <3>2
            <4>2. lineage'[i] = Winner(g) /\ lineage'[i - 1] = claims[Final(g)].arms[2]
                BY <1>8, <2>4, <3>2, <4>1
            <4>3. \A k : Complete(k)' = Complete(k) /\ Winner(k)' = Winner(k)
                BY <1>6 DEF Complete, Winner
            <4>4. WonBy(i, g)'
                BY <1>4, <1>5, <1>6, <4>2, <4>3 DEF WonBy
            <4>5. g <= n + 1 /\ (g <= n <=> i <= at[n])
                BY <1>1, <2>2, <2>3, <3>2
            <4> QED
                BY <1>4, <4>4, <4>5
        <3> QED
            BY <1>1, <2>6, <3>1, <3>2
    <2>7. Walk(at)'
        BY <1>1, <1>6, <2>4, <2>5, <2>6 DEF Walk
    <2>8. Len(lineage') > 0 /\ lineage'[1] = Seed
        BY <1>1, <2>4 DEF LineageInv, ArchiveInv
    <2> QED
        BY <2>4, <2>7, <2>8 DEF ArchiveInv, Walk, Trail
<1> QED
    BY <1>1, <1>4, <1>7, <1>8, AdvanceIs

\* A decision for the champion moves on to the parent that the archive is ahead by.
LEMMA RecordLineage ==
    ASSUME Search!EvolutionSearchAssumption, PlanInv, Grows, LineageInv,
           Search!RecordDecision
    PROVE  ArchiveInv'
<1>1. PICK at, m, n :
        /\ m = Len(lineage) /\ n = Len(history) /\ m \in Nat \ {0} /\ n \in Nat
        /\ Walk(at) /\ at[n] \in 1 .. m /\ m \in {at[n], at[n] + 1}
        /\ \A i \in 1 .. m : lineage[i] \in Programs
    BY LineageIs DEF LineageInv
<1>2. PICK g : g = Search!Generation(run.stage)
    OBVIOUS
<1>3. /\ UNCHANGED <<claims, outcome, registered, rolledBack, lineage>>
      /\ run.place = "decide" /\ run.place \in Deciding
      /\ \/ history' = history
         \/ g = n + 1 /\ history' = Append(history, Verdict(g))
    BY <1>1, <1>2, RecordIs DEF LineageInv, Deciding
<1>4. /\ g \in 1 .. Generations /\ Final(g) = run.stage
      /\ Complete(Final(g)) /\ Claimed(Final(g))
      /\ Search!Champion = Winner(g) /\ Search!PreviousParent # Winner(g)
      /\ Search!PreviousParent = claims[Final(g)].arms[2]
      /\ Search!PreviousParent = ParentAfter(g - 1) /\ outcome[Final(g)] \in BOOLEAN
    BY <1>2, <1>3, DecideIs DEF LineageInv
<1>5. CASE history' = history
    BY <1>3, <1>5, LineageStays DEF LineageInv
<1>6. CASE g = n + 1 /\ history' = Append(history, Verdict(g))
    <2>1. Verdict(g) \in [generation : Nat, previous : Programs, parent : Programs]
        BY <1>2, <1>3, VerdictIs DEF LineageInv
    <2>2. PICK d : d = Verdict(g)
        OBVIOUS
    <2>3. /\ Len(history') = n + 1 /\ history'[n + 1] = d
          /\ \A i \in 1 .. n : history'[i] = history[i]
          /\ \A i \in 0 .. n : ParentAfter(i)' = ParentAfter(i)
          /\ ParentAfter(g)' = d.parent
        BY <1>1, <1>6, <2>1, <2>2, AppendedIs DEF LineageInv
    <2>4. /\ d.previous = ParentAfter(n)
          /\ d.parent = IF outcome[Final(g)] THEN Winner(g) ELSE d.previous
          /\ d.previous # Winner(g)
        <3>1. g - 1 = n
            BY <1>1, <1>6
        <3>2. /\ d.previous = claims[Final(g)].arms[2]
              /\ d.parent = IF outcome[Final(g)] THEN Winner(g) ELSE claims[Final(g)].arms[2]
            BY <2>2 DEF Verdict
        <3>3. /\ claims[Final(g)].arms[2] = ParentAfter(n)
              /\ claims[Final(g)].arms[2] # Winner(g)
            BY <1>4, <3>1
        <3> QED
            BY <3>2, <3>3
    <2>5. Trail(at) /\ at \in [0 .. n -> 1 .. m] /\ lineage[at[n]] = ParentAfter(n)
        BY <1>1 DEF Walk, Trail
    <2>6. PICK k : k = IF outcome[Final(g)] THEN at[n] + 1 ELSE at[n]
        OBVIOUS
    <2>7. k = m /\ lineage[k] = d.parent
        <3>1. CASE outcome[Final(g)]
            <4>1. Search!Follows(Winner(g), claims[Final(g)].arms[2])
                BY <1>3, <1>4, <3>1, RunningIs DEF LineageInv, DecidingInv
            <4>2. PICK i \in 2 .. m : lineage[i] = Winner(g)
                BY <1>1, <4>1 DEF Search!Follows
            <4>3. PICK h \in 1 .. Generations :
                    WonBy(i, h) /\ h <= n + 1 /\ (h <= n <=> i <= at[n])
                BY <1>1 DEF Walk
            <4>4. h = g
                <5>1. Claimed(Final(h)) /\ Winner(h) = Winner(g)
                    BY <4>2, <4>3 DEF WonBy, Claimed, Complete
                <5> QED
                    BY <1>4, <5>1, WonOnce
            <4>5. ~(i <= at[n])
                BY <1>1, <1>6, <4>3, <4>4
            <4>6. i = m /\ m = at[n] + 1
                BY <1>1, <4>5
            <4> QED
                BY <2>4, <2>6, <3>1, <4>2, <4>6
        <3>2. CASE ~outcome[Final(g)]
            <4>1. m # at[n] + 1
                <5>1. SUFFICES ASSUME m = at[n] + 1 PROVE FALSE
                    OBVIOUS
                <5>2. WonBy(m, g)
                    BY <1>1, <1>6, <5>1, PendingIs DEF LineageInv
                <5> QED
                    BY <3>2, <5>2 DEF WonBy
            <4> QED
                BY <1>1, <2>4, <2>5, <2>6, <3>2, <4>1
        <3> QED
            BY <3>1, <3>2
    <2> DEFINE to == [i \in 0 .. n + 1 |-> IF i = n + 1 THEN k ELSE at[i]]
    <2>8. /\ to \in [0 .. n + 1 -> 1 .. m] /\ to[n + 1] = m
          /\ \A i \in 0 .. n : to[i] = at[i]
        <3>1. k \in 1 .. m
            BY <1>1, <2>7
        <3> QED
            BY <1>1, <2>5, <2>7, <3>1
    <2> HIDE DEF to
    <2>9. Trail(to)'
        <3>1. ASSUME NEW i \in 0 .. n + 1 PROVE lineage[to[i]] = ParentAfter(i)'
            <4>1. CASE i = n + 1
                BY <1>6, <2>3, <2>7, <2>8, <4>1
            <4>2. CASE i \in 0 .. n
                BY <1>1, <2>3, <2>5, <2>8, <4>2 DEF Trail
            <4> QED
                BY <1>1, <4>1, <4>2
        <3>2. ASSUME NEW i \in 1 .. n + 1
              PROVE  to[i] = IF history'[i].parent = history'[i].previous
                             THEN to[i - 1] ELSE to[i - 1] + 1
            <4>1. CASE i = n + 1
                <5>1. i - 1 = n /\ to[i - 1] = at[n] /\ to[i] = k /\ history'[i] = d
                    BY <1>1, <2>3, <2>7, <2>8, <4>1
                <5> QED
                    BY <2>4, <2>6, <5>1
            <4>2. CASE i \in 1 .. n
                <5>1. to[i] = at[i] /\ to[i - 1] = at[i - 1] /\ history'[i] = history[i]
                    BY <1>1, <2>3, <2>8, <4>2
                <5> QED
                    BY <1>1, <2>5, <4>2, <5>1 DEF Trail
            <4> QED
                BY <1>1, <4>1, <4>2
        <3>3. to[0] = 1
            BY <1>1, <2>5, <2>8 DEF Trail
        <3>4. m <= to[n + 1] + 1
            BY <1>1, <2>8
        <3> QED
            BY <1>1, <1>3, <2>3, <2>8, <3>1, <3>2, <3>3, <3>4 DEF Trail
    <2>10. ASSUME NEW i \in 2 .. m
           PROVE  \E h \in 1 .. Generations :
                    WonBy(i, h)' /\ h <= n + 2 /\ (h <= n + 1 <=> i <= to[n + 1])
        <3>1. PICK h \in 1 .. Generations : WonBy(i, h) /\ h <= n + 1
            BY <1>1 DEF Walk
        <3>2. WonBy(i, h)'
            BY <1>3, <3>1 DEF WonBy, Complete, Winner
        <3>3. h <= n + 2 /\ i <= to[n + 1]
            BY <1>1, <2>8, <3>1 DEF Search!EvolutionSearchAssumption
        <3> QED
            BY <3>1, <3>2, <3>3
    <2>11. Walk(to)'
        <3>1. n + 1 + 1 = n + 2
            BY <1>1
        <3> QED
            BY <1>1, <1>3, <2>3, <2>9, <2>10, <3>1 DEF Walk
    <2> QED
        BY <1>3, <2>11 DEF LineageInv, ArchiveInv, Walk, Trail
<1> QED
    BY <1>3, <1>5, <1>6

\* What moves the decisions, the lineage and the rollbacks.
LEMMA LineageMoves ==
    ASSUME Search!EvolutionSearchAssumption, PlanInv, [Search!Next]_(Search!vars)
    PROVE  /\ Search!RecordDecision \/ history' = history
           /\ Search!AdvanceParent \/ lineage' = lineage
           /\ rolledBack \subseteq rolledBack'
           /\ Search!ClaimStage \/ \A s \in Search!Stages : Claimed(s)' => Claimed(s)
<1>1. CASE Quiet \/ Search!Start \/ Search!Kill
    <2>1. UNCHANGED <<claims, history, lineage, rolledBack>>
        BY <1>1, QuietLeaves DEF Search!Start, Search!Kill, Search!controller, Search!archive
    <2> QED
        BY <2>1 DEF Claimed
<1>2. CASE \/ Search!MarkCandidates \/ Search!Join \/ Search!Eliminate \/ Search!Select
           \/ Search!RecordRollback \/ Search!AdvanceParent
    <2>1. /\ UNCHANGED <<claims, history>> /\ rolledBack \subseteq rolledBack'
          /\ Search!AdvanceParent \/ lineage' = lineage
        BY <1>2 DEF Search!MarkCandidates, Search!Join, Search!Eliminate, Search!Select,
                    Search!RecordRollback, Search!AdvanceParent, Search!controller,
                    Search!archive
    <2> QED
        BY <2>1 DEF Claimed
<1>3. CASE Search!ClaimStage \/ Search!RecordDecision
    <2>1. /\ UNCHANGED <<rolledBack, lineage>>
          /\ \/ Search!ClaimStage /\ history' = history
             \/ Search!RecordDecision /\ claims' = claims
        BY <1>3 DEF Search!ClaimStage, Search!RecordDecision, Search!archive
    <2> QED
        BY <2>1 DEF Claimed
<1>4. CASE Search!CompleteStage
    <2>1. /\ UNCHANGED <<rolledBack, lineage, history>> /\ run.place = "complete"
          /\ claims' = [claims EXCEPT ![run.stage].status = "complete"]
        BY <1>4 DEF Search!CompleteStage, Search!archive, Search!At
    <2>2. Claimed(run.stage)
        BY <2>1, PlaceIs DEF PlanInv, ArmsFit
    <2>3. \A s \in Search!Stages : Claimed(s)' => Claimed(s)
        BY <2>1, <2>2 DEF Claimed, PlanInv, PlanType, ClaimsType
    <2> QED
        BY <2>1, <2>3
<1>5. CASE \/ Search!Mine \/ Search!Ask \/ Search!WriteAnswer \/ Search!CompleteAsk
           \/ Search!FailRequest \/ Search!AskFails \/ Search!AnswerIsInvalid
           \/ Search!NextGeneration \/ Search!Register \/ Search!WriteBlob
    <2>1. UNCHANGED <<claims, history, lineage, rolledBack>>
        BY <1>5 DEF Search!Mine, Search!Ask, Search!WriteAnswer, Search!CompleteAsk,
                    Search!FailRequest, Search!AskFails, Search!AnswerIsInvalid,
                    Search!NextGeneration, Search!Register, Search!WriteBlob,
                    Search!controller, Search!archive
    <2> QED
        BY <2>1 DEF Claimed
<1> QED
    BY <1>1, <1>2, <1>3, <1>4, <1>5 DEF Quiet, Search!Next, Search!Step

\* While it decides, a run does nothing else.
LEMMA DecidingSteps ==
    ASSUME [Search!Next]_(Search!vars), run.place \in Deciding
    PROVE  \/ Quiet \/ ~Search!Running'
           \/ run.place = "select" /\ Search!Select
           \/ run.place = "rollback" /\ Search!RecordRollback
           \/ run.place = "advance" /\ Search!AdvanceParent
           \/ run.place = "decide" /\ Search!RecordDecision
<1>1. CASE Search!Kill
    BY <1>1 DEF Search!Kill, Search!Running, Search!Idle
<1>2. CASE \/ Search!Start \/ Search!MarkCandidates \/ Search!Join \/ Search!Eliminate
           \/ Search!ClaimStage \/ Search!CompleteStage
    BY <1>2 DEF Search!Start, Search!MarkCandidates, Search!Join, Search!Eliminate,
                Search!ClaimStage, Search!CompleteStage, Search!At, Deciding
<1>3. CASE \/ Search!Mine \/ Search!Ask \/ Search!WriteAnswer \/ Search!CompleteAsk
           \/ Search!FailRequest \/ Search!AskFails \/ Search!AnswerIsInvalid
           \/ Search!NextGeneration \/ Search!Register \/ Search!WriteBlob
    BY <1>3 DEF Search!Mine, Search!Ask, Search!WriteAnswer, Search!CompleteAsk,
                Search!FailRequest, Search!AskFails, Search!AnswerIsInvalid,
                Search!NextGeneration, Search!Register, Search!WriteBlob, Search!At, Deciding
<1>4. CASE Search!Select \/ Search!RecordRollback \/ Search!AdvanceParent
           \/ Search!RecordDecision
    BY <1>4 DEF Search!Select, Search!RecordRollback, Search!AdvanceParent,
                Search!RecordDecision, Search!At
<1> QED
    BY <1>1, <1>2, <1>3, <1>4 DEF Quiet, Search!Next, Search!Step

\* Decisions are only added.
LEMMA HistoryGrows ==
    ASSUME Search!EvolutionSearchAssumption, PlanInv, DecisionInv, DecidingInv,
           [Search!Next]_(Search!vars)
    PROVE  /\ Len(history) \in Nat /\ Len(history') \in Nat /\ Len(history) <= Len(history')
           /\ Search!RecordDecision => Search!Generation(run.stage) <= Len(history')
<1>1. Len(history) \in Nat
    BY LastIs
<1>2. CASE Search!RecordDecision
    <2>1. PICK g : g = Search!Generation(run.stage)
        OBVIOUS
    <2>2. /\ run.place \in Deciding
          /\ \/ g \in 1 .. Len(history) /\ history' = history
             \/ g = Len(history) + 1 /\ history' = Append(history, Verdict(g))
        BY <1>2, <2>1, RecordIs DEF Deciding
    <2>3. CASE g = Len(history) + 1 /\ history' = Append(history, Verdict(g))
        <3>1. Verdict(g) \in [generation : Nat, previous : Programs, parent : Programs]
            BY <2>1, <2>2, VerdictIs
        <3>2. PICK d : d = Verdict(g)
            OBVIOUS
        <3>3. Len(history') = Len(history) + 1
            BY <2>3, <3>1, <3>2, AppendedIs
        <3> QED
            BY <1>1, <2>1, <2>3, <3>3
    <2> QED
        BY <1>1, <2>1, <2>2, <2>3
<1> QED
    BY <1>1, <1>2, LineageMoves

\* What a run decides it decides on evidence, candidates and a lineage that stay.
LEMMA DecidingMoves ==
    ASSUME Search!EvolutionSearchAssumption, PlanInv, LineageInv, Grows,
           [Search!Next]_(Search!vars), run.place \in Deciding, Search!Running',
           ~Quiet
    PROVE  /\ run'.stage = run.stage
           /\ run'.place \in {"rollback", "advance"} =>
                /\ outcome'[run.stage] = TRUE
                /\ registered'[Search!Champion].state = "selected"
           /\ run'.place = "advance" => Search!Champion \in rolledBack'
           /\ run'.place = "decide" /\ outcome'[run.stage] =>
                Search!Follows(Search!Champion, Search!PreviousParent)'
           /\ run'.place = "mine" => Search!RecordDecision
           /\ run'.place \in Deciding \cup {"mine"}
<1>1. /\ Search!IsConfirmation(run.stage) /\ run.stage \in Search!Stages
      /\ Search!Champion \in Programs /\ outcome[run.stage] \in BOOLEAN /\ RunType
    BY ChampionIs DEF PlanInv, PlanType
<1>2. ASSUME NEW why PROVE ~Search!Refuse(why)
    BY RefuseRuns DEF Search!Running
<1>3. CASE run.place = "select" /\ Search!Select
    <2>1. /\ outcome' = outcome
          /\ \/ outcome[run.stage] /\ Search!Transition(Search!Champion, "selected", "rollback")
             \/ ~outcome[run.stage] /\ Search!Transition(Search!Champion, "rejected", "decide")
        BY <1>1, <1>3 DEF Search!Select, Search!files
    <2>2. CASE outcome[run.stage] /\ Search!Transition(Search!Champion, "selected", "rollback")
        <3>1. Search!To("rollback") /\ registered'[Search!Champion].state = "selected"
            <4>1. PICK p \in Programs : p = Search!Champion
                BY <1>1
            <4>2. /\ Search!To("rollback")
                  /\ \/ registered[p].state = "selected" /\ registered' = registered
                     \/ registered' = [registered EXCEPT ![p].state = "selected"]
                BY <1>2, <2>2, <4>1 DEF Search!Transition
            <4>3. registered \in [Programs -> [by : {<<>>} \cup (Nat \X Nat \X {1}),
                                               state : CandidateStates]]
                BY DEF PlanInv, PlanType, ArchiveType
            <4>4. registered'[p].state = "selected"
                BY <4>2, <4>3
            <4> QED
                BY <4>1, <4>2, <4>4
        <3>2. run'.place = "rollback" /\ run'.stage = run.stage
            BY <1>1, <3>1, ToRuns
        <3> QED
            BY <1>1, <2>1, <2>2, <3>1, <3>2 DEF Deciding
    <2>3. CASE ~outcome[run.stage] /\ Search!Transition(Search!Champion, "rejected", "decide")
        <3>1. Search!To("decide")
            BY <1>2, <2>3 DEF Search!Transition
        <3>2. run'.place = "decide" /\ run'.stage = run.stage
            BY <1>1, <3>1, ToRuns
        <3> QED
            BY <2>1, <2>3, <3>2 DEF Deciding
    <2> QED
        BY <2>1, <2>2, <2>3
<1>4. CASE run.place = "rollback" /\ Search!RecordRollback
    <2>1. /\ UNCHANGED <<outcome, registered>> /\ Search!To("advance")
          /\ Search!Champion \in rolledBack'
        BY <1>4 DEF Search!RecordRollback, Search!files
    <2>2. run'.place = "advance" /\ run'.stage = run.stage
        BY <1>1, <2>1, ToRuns
    <2>3. outcome[run.stage] = TRUE /\ registered[Search!Champion].state = "selected"
        BY <1>4, RunningIs DEF LineageInv, DecidingInv, Deciding
    <2> QED
        BY <2>1, <2>2, <2>3 DEF Deciding
<1>5. CASE run.place = "advance" /\ Search!AdvanceParent
    <2>1. /\ UNCHANGED <<claims, outcome, registered>> /\ Search!To("decide")
          /\ \/ /\ Search!Follows(Search!Champion, Search!PreviousParent)
                /\ lineage' = lineage
             \/ /\ Search!Last(lineage) = Search!PreviousParent
                /\ lineage' = Append(lineage, Search!Champion)
        BY <1>2, <1>5, AdvanceIs
    <2>2. run'.place = "decide" /\ run'.stage = run.stage
        BY <1>1, <2>1, ToRuns
    <2>3. PICK p, q : p = Search!Champion /\ q = Search!PreviousParent
        OBVIOUS
    <2>4. Search!Champion' = p /\ Search!PreviousParent' = q
        BY <2>1, <2>2, <2>3 DEF Search!Champion, Search!PreviousParent
    <2>5. Search!Follows(p, q)'
        <3>1. CASE Search!Follows(p, q) /\ lineage' = lineage
            BY <3>1 DEF Search!Follows
        <3>2. CASE Search!Last(lineage) = q /\ lineage' = Append(lineage, p)
            <4>1. PICK m : m = Len(lineage) /\ m \in Nat \ {0} /\ Search!Last(lineage) = lineage[m]
                BY LineageIs DEF LineageInv
            <4>2. /\ Len(lineage') = m + 1 /\ lineage'[m + 1] = p
                  /\ lineage'[m] = q
                BY <1>1, <2>3, <3>2, <4>1 DEF LineageInv, ArchiveInv
            <4>3. m + 1 \in 2 .. m + 1 /\ (m + 1) - 1 = m
                BY <4>1
            <4> QED
                BY <4>2, <4>3 DEF Search!Follows
        <3> QED
            BY <2>1, <2>3, <3>1, <3>2
    <2> QED
        BY <2>2, <2>3, <2>4, <2>5 DEF Deciding
<1>6. CASE run.place = "decide" /\ Search!RecordDecision
    <2>1. Search!To("mine")
        BY <1>6, RecordIs DEF LineageInv
    <2>2. run'.place = "mine" /\ run'.stage = run.stage
        BY <1>1, <2>1, ToRuns
    <2> QED
        BY <1>6, <2>2
<1> QED
    BY <1>3, <1>4, <1>5, <1>6, DecidingSteps

\* What a run knows while it decides, it knows still after any step.
LEMMA DecidingNext ==
    ASSUME Search!EvolutionSearchAssumption, PlanInv, LineageInv, Grows,
           [Search!Next]_(Search!vars)
    PROVE  DecidingInv'
<1>1. SUFFICES ASSUME Search!Running' PROVE DecidingInv'
    BY DEF DecidingInv
<1>2. /\ Len(history) \in Nat /\ Len(history') \in Nat /\ Len(history) <= Len(history')
      /\ Search!RecordDecision => Search!Generation(run.stage) <= Len(history')
    BY HistoryGrows DEF LineageInv
<1>3. Moves /\ RunType /\ run.stage \in Search!Stages
    BY RunMoves DEF PlanInv, PlanType, RunType
<1>4. Search!Generation(run.stage) \in Nat
    BY <1>3, StageNumbers DEF Search!EvolutionSearchAssumption
<1>5. CASE Quiet
    <2>1. UNCHANGED <<claims, outcome, registered, run, history, rolledBack, lineage>>
        BY <1>5, QuietLeaves
    <2>2. /\ Search!Champion' = Search!Champion
          /\ Search!PreviousParent' = Search!PreviousParent
          /\ \A p, q : Search!Follows(p, q)' = Search!Follows(p, q)
        BY <2>1 DEF Search!Champion, Search!PreviousParent, Search!Follows
    <2> QED
        BY <1>1, <2>1, <2>2 DEF LineageInv, DecidingInv, Search!Running
<1>6. CASE run.place \in Deciding /\ ~Quiet
    <2>1. /\ run'.stage = run.stage
          /\ run'.place \in {"rollback", "advance"} =>
               /\ outcome'[run.stage] = TRUE
               /\ registered'[Search!Champion].state = "selected"
          /\ run'.place = "advance" => Search!Champion \in rolledBack'
          /\ run'.place = "decide" /\ outcome'[run.stage] =>
               Search!Follows(Search!Champion, Search!PreviousParent)'
          /\ run'.place = "mine" => Search!RecordDecision
          /\ run'.place \in Deciding \cup {"mine"}
        BY <1>1, <1>6, DecidingMoves
    <2>2. Search!Champion' = Search!Champion
        <3>1. Search!IsConfirmation(run.stage) /\ Complete(run.stage)
            BY <1>6, ChampionIs
        <3>2. run.stage - 1 \in Search!Stages /\ Complete(run.stage - 1)
            BY <1>3, <3>1, WinnerIs DEF PlanInv, Claimed, Complete
        <3>3. outcome'[run.stage - 1] = outcome[run.stage - 1]
            BY <3>2 DEF Grows, ClaimGrows
        <3> QED
            BY <2>1, <3>3 DEF Search!Champion
    <2>3. Search!Generation(run.stage) <= Len(history) + 1
        BY <1>6, RunningIs DEF LineageInv, DecidingInv
    <2>4. Search!Generation(run.stage) <= Len(history') + 1
        BY <1>2, <1>4, <2>3
    <2>5. run'.place \notin Proposing
        BY <2>1 DEF Deciding, Proposing
    <2> QED
        BY <1>2, <2>1, <2>2, <2>4, <2>5 DEF DecidingInv
<1>7. CASE run.place \notin Deciding /\ ~Quiet
    <2>1. SUFFICES /\ Search!Generation(run'.stage) <= Len(history') + 1
                   /\ run'.place \in {"mine"} \cup Proposing =>
                        Search!Generation(run'.stage) <= Len(history')
                   /\ run'.place \notin Deciding \ {"select"}
        BY DEF DecidingInv, Deciding
    <2>2. CASE run'.stage = 1 /\ run'.place = "claim"
        <3>1. 1 \in Search!Stages /\ Search!Generation(1) = 0
            BY <1>3, StageNumbers DEF Search!Stages, Search!EvolutionSearchAssumption
        <3> QED
            BY <1>2, <2>2, <3>1 DEF Deciding, Proposing
    <2>3. CASE run'.stage = run.stage + 1 /\ Goes("eliminate", "claim")
        <3>1. Search!Generation(run'.stage) = Search!Generation(run.stage)
            BY <1>3, <2>3, PlaceIs, NextStageNumbers DEF PlanInv, EliminateFits, Goes
        <3>2. Search!Generation(run.stage) <= Len(history) + 1
            BY <2>3, RunningIs DEF LineageInv, DecidingInv, Goes
        <3> QED
            BY <1>2, <1>4, <2>3, <3>1, <3>2 DEF Goes, Deciding, Proposing
    <2>4. CASE run'.stage = run.stage + 1 /\ Goes("propose", "mark")
        <3>1. Search!Generation(run'.stage) = Search!Generation(run.stage) + 1
            BY <1>3, <2>4, PlaceIs, NextStageNumbers
               DEF PlanInv, ProposeFits, Ended, Goes, Proposing
        <3>2. Search!Generation(run.stage) <= Len(history)
            BY <2>4, RunningIs DEF LineageInv, DecidingInv, Goes, Proposing
        <3> QED
            BY <1>2, <1>4, <2>4, <3>1, <3>2 DEF Goes, Deciding, Proposing
    <2>5. CASE /\ run'.stage = run.stage
               /\ \/ run'.place = run.place
                  \/ Goes("mark", "claim") \/ Goes("claim", "arms") \/ Goes("arms", "complete")
                  \/ Goes("complete", "mine") /\ run.stage = 1
                  \/ Goes("complete", "select") \/ Goes("complete", "eliminate")
                  \/ Goes("mine", "propose")
                  \/ run.place \in Proposing /\ run'.place \in Proposing
        <3>1. Search!Running
            BY <1>1, <2>5, RunningIs DEF Search!Running, Goes
        <3>2. /\ Search!Generation(run.stage) <= Len(history) + 1
              /\ run.place \in {"mine"} \cup Proposing => Search!Generation(run.stage) <= Len(history)
            BY <3>1 DEF LineageInv, DecidingInv
        <3>3. run.stage = 1 => Search!Generation(run.stage) = 0
            BY <1>3, StageNumbers
        <3>4. \/ run'.place \notin {"mine"} \cup Proposing
              \/ run.stage = 1
              \/ run.place \in {"mine"} \cup Proposing
            BY <2>5 DEF Goes, Proposing
        <3>5. run'.place \notin Deciding \ {"select"}
            BY <1>7, <2>5 DEF Goes, Deciding, Proposing
        <3> QED
            BY <1>2, <1>4, <2>5, <3>2, <3>3, <3>4, <3>5
    <2> QED
        BY <1>1, <1>3, <1>7, <2>2, <2>3, <2>4, <2>5 DEF Moves, Goes, Deciding
<1> QED
    BY <1>5, <1>6, <1>7

-----------------------------------------------------------------------------
(* The earned lineage.                                                     *)

LEMMA LineageInit ==
    ASSUME Search!EvolutionSearchAssumption, Search!Init
    PROVE  LineageInv
<1>1. /\ history = <<>> /\ lineage = <<Seed>> /\ run.place = "stopped"
      /\ \A s \in Search!Stages : ~Claimed(s)
    BY DEF Search!Init, Search!Idle, Claimed
<1>2. DecisionInv
    BY <1>1 DEF DecisionInv, Search!EvolutionSearchAssumption
<1>3. DecidingInv
    BY <1>1 DEF DecidingInv, Search!Running
<1>4. ArchiveInv
    <2> DEFINE at == [i \in 0 .. 0 |-> 1]
    <2>1. Len(history) = 0 /\ Len(lineage) = 1 /\ lineage[1] = Seed /\ lineage \in Seq(Programs)
        BY <1>1 DEF Search!EvolutionSearchAssumption
    <2>2. at \in [0 .. 0 -> 1 .. 1] /\ at[0] = 1 /\ 1 .. 0 = {} /\ 2 .. 1 = {}
        OBVIOUS
    <2> HIDE DEF at
    <2>3. \A i \in 0 .. 0 : lineage[at[i]] = ParentAfter(i)
        BY <2>1, <2>2 DEF ParentAfter
    <2>4. Trail(at)
        BY <2>1, <2>2, <2>3 DEF Trail
    <2>5. Walk(at)
        BY <2>1, <2>2, <2>4 DEF Walk
    <2> QED
        BY <2>1, <2>2, <2>5 DEF ArchiveInv
<1> QED
    BY <1>2, <1>3, <1>4 DEF LineageInv

\* Every step keeps the decisions and the lineage earned.
LEMMA LineageNext ==
    ASSUME Search!EvolutionSearchAssumption, PlanInv, LineageInv, [Search!Next]_(Search!vars)
    PROVE  PlanInv' /\ Grows /\ LineageInv'
<1>1. Search!Parent \in Programs
    BY LastIs DEF LineageInv
<1>2. PlanInv' /\ Grows
    BY <1>1, PlanNext
<1>3. DecidingInv'
    BY <1>2, DecidingNext
<1>4. DecisionInv'
    <2>1. CASE Search!ClaimStage
        BY <1>2, <2>1, ClaimDecision DEF LineageInv
    <2>2. CASE Search!RecordDecision
        BY <1>2, <2>2, RecordDecisionInv DEF LineageInv
    <2>3. CASE ~Search!ClaimStage /\ ~Search!RecordDecision
        <3>1. history' = history /\ \A s \in Search!Stages : Claimed(s)' => Claimed(s)
            BY <2>3, LineageMoves
        <3> QED
            BY <1>2, <3>1, DecisionStays DEF LineageInv
    <2> QED
        BY <2>1, <2>2, <2>3
<1>5. ArchiveInv'
    <2>1. CASE Search!AdvanceParent
        BY <1>2, <2>1, AdvanceLineage
    <2>2. CASE Search!RecordDecision
        BY <1>2, <2>2, RecordLineage
    <2>3. CASE ~Search!AdvanceParent /\ ~Search!RecordDecision
        BY <1>2, <2>3, LineageMoves, LineageStays DEF LineageInv
    <2> QED
        BY <2>1, <2>2, <2>3
<1> QED
    BY <1>2, <1>3, <1>4, <1>5 DEF LineageInv

\* The walk of the invariant is what the property asks for.
LEMMA LineageEarned ==
    ASSUME Search!EvolutionSearchAssumption, PlanInv, LineageInv
    PROVE  Search!LineageIsEarned
<1>1. PICK at, m, n :
        /\ m = Len(lineage) /\ n = Len(history) /\ m \in Nat \ {0} /\ n \in Nat
        /\ Walk(at)
    BY LineageIs DEF LineageInv
<1>2. DOMAIN lineage = 1 .. m /\ DOMAIN history = 1 .. n /\ lineage[1] = Seed
    BY <1>1 DEF LineageInv, ArchiveInv, DecisionInv
<1>3. /\ at \in [0 .. n -> 1 .. m] /\ at[0] = 1 /\ m <= at[n] + 1
      /\ \A i \in 1 .. n :
           /\ lineage[at[i]] = history[i].parent
           /\ at[i] = IF history[i].parent = history[i].previous THEN at[i - 1]
                      ELSE at[i - 1] + 1
    <2>1. Trail(at)
        BY <1>1 DEF Walk
    <2>2. \A i \in 1 .. n : i \in 0 .. n /\ ParentAfter(i) = history[i].parent
        BY <1>1 DEF ParentAfter
    <2> QED
        BY <1>1, <2>1, <2>2 DEF Trail
<1>4. ASSUME NEW i \in 2 .. m
      PROVE  /\ registered[lineage[i]].state = "selected" /\ lineage[i] \in rolledBack
             /\ \E s \in Search!Stages :
                  /\ Search!IsConfirmation(s) /\ claims[s].status = "complete"
                  /\ outcome[s] = TRUE
                  /\ claims[s].arms[3] = lineage[i]
                  /\ claims[s].arms[2] = lineage[i - 1]
    <2>1. PICK g \in 1 .. Generations : WonBy(i, g)
        BY <1>1 DEF Walk
    <2>2. Final(g) \in Search!Stages /\ Search!IsConfirmation(Final(g)) /\ Final(g) - 1 = 3 * g
        BY FinalNumbers DEF Final
    <2>3. Complete(Final(g)) /\ Claimed(Final(g))
        BY <2>1 DEF WonBy, Claimed, Complete
    <2>4. claims[Final(g)].arms[3] = Winner(g)
        BY <2>2, <2>3, WinnerIs DEF Winner, PlanInv
    <2> QED
        BY <2>1, <2>2, <2>3, <2>4 DEF WonBy, Complete
<1>5. \E to \in [0 .. Len(history) -> DOMAIN lineage] :
        /\ to[0] = 1 /\ Len(lineage) <= to[Len(history)] + 1
        /\ \A i \in DOMAIN history :
             /\ lineage[to[i]] = history[i].parent
             /\ to[i] = IF history[i].parent = history[i].previous THEN to[i - 1]
                        ELSE to[i - 1] + 1
    <2>1. at \in [0 .. Len(history) -> DOMAIN lineage]
        BY <1>1, <1>2, <1>3
    <2> QED
        BY <1>1, <1>2, <1>3, <2>1, Zenon
<1>6. \A i \in 2 .. Len(lineage) :
        /\ registered[lineage[i]].state = "selected" /\ lineage[i] \in rolledBack
        /\ \E s \in Search!Stages :
             /\ Search!IsConfirmation(s) /\ claims[s].status = "complete"
             /\ outcome[s] = TRUE
             /\ claims[s].arms[3] = lineage[i]
             /\ claims[s].arms[2] = lineage[i - 1]
    BY <1>1, <1>4, Zenon
<1> QED
    BY <1>2, <1>5, <1>6, Zenon DEF Search!LineageIsEarned

-----------------------------------------------------------------------------
(* A run that is started again agrees with the decisions and the states it finds. *)

\* A reason is for good.
LEMMA ReasonStays ==
    ASSUME PlanInv, Grows, NEW s \in Search!Stages, NEW p
    PROVE  (LostAt(p, s) => LostAt(p, s)') /\ (WonAt(p, s) => WonAt(p, s)')
<1>1. SUFFICES ASSUME Complete(s) PROVE (LostAt(p, s) => LostAt(p, s)') /\ (WonAt(p, s) => WonAt(p, s)')
    BY DEF LostAt, WonAt
<1>2. Complete(s)' /\ outcome'[s] = outcome[s] /\ claims'[s].arms = claims[s].arms
    BY <1>1 DEF Grows, ClaimGrows, Claimed, Complete
<1>3. Search!Candidates(s)' = Search!Candidates(s)
    BY <1>2 DEF Search!Candidates
<1> QED
    BY <1>2, <1>3 DEF LostAt, WonAt

\* A candidate competes in its own generation only.
LEMMA CompetesOnce ==
    ASSUME Search!EvolutionSearchAssumption, PlanInv, NEW s \in Search!Stages,
           NEW t \in Search!Stages, s > 1, t > 1, Claimed(s), Claimed(t),
           NEW p \in Programs, p \in Search!ToSet(Search!Candidates(s)),
           p \in Search!ToSet(Search!Candidates(t))
    PROVE  Search!Generation(s) = Search!Generation(t)
<1>1. Entered(Search!Generation(s) - 1, p) /\ Entered(Search!Generation(t) - 1, p)
    BY DEF PlanInv, StageInv
<1>2. Search!Generation(s) - 1 = Search!Generation(t) - 1
    BY <1>1 DEF Entered, Of
<1>3. Search!Generation(s) \in Nat /\ Search!Generation(t) \in Nat
    BY StageNumbers DEF Search!EvolutionSearchAssumption
<1> QED
    BY <1>2, <1>3

\* None is out in one stage and wins another.
LEMMA LostOrWon ==
    ASSUME Search!EvolutionSearchAssumption, PlanInv, NEW s \in Search!Stages,
           NEW t \in Search!Stages, NEW p \in Programs, LostAt(p, s), WonAt(p, t)
    PROVE  FALSE
<1>1. /\ s > 1 /\ Complete(s) /\ Claimed(s) /\ p \in Search!ToSet(Search!Candidates(s))
      /\ Search!IsConfirmation(t) /\ Complete(t) /\ Claimed(t) /\ outcome[t] = TRUE
      /\ p \in Search!ToSet(Search!Candidates(t)) /\ t > 1
    BY DEF LostAt, WonAt, Claimed, Complete, Search!IsConfirmation
<1>2. Search!Generation(s) = Search!Generation(t)
    BY <1>1, CompetesOnce
<1>3. PICK g : g = Search!Generation(t)
    OBVIOUS
<1>4. g \in 1 .. Generations /\ t = 3 * g + 1
    BY <1>1, <1>3, StageNumbers DEF Search!EvolutionSearchAssumption
<1>5. /\ {3 * g - 1, 3 * g, 3 * g + 1} \subseteq Search!Stages
      /\ ~Search!IsScout(3 * g) /\ ~Search!IsConfirmation(3 * g)
      /\ ~Search!IsScout(t) /\ 3 * g > 1
    <2>1. ~Search!IsScout(t)
        BY <1>1, NextStageNumbers
    <2>2. 3 * g > 1
        BY <1>4 DEF Search!EvolutionSearchAssumption
    <2> QED
        BY <1>4, <2>1, <2>2, FinalNumbers
<1>6. Complete(3 * g) /\ Claimed(3 * g) /\ Complete(3 * g - 1)
    <2>1. 3 * g < t /\ 3 * g - 1 < t
        BY <1>4 DEF Search!EvolutionSearchAssumption
    <2> QED
        BY <1>1, <1>5, <2>1 DEF PlanInv, StageInv, Claimed, Complete
<1>7. Search!Candidates(t) = outcome[3 * g] /\ Search!Candidates(3 * g) = outcome[3 * g - 1]
    <2>1. t - 1 = 3 * g
        BY <1>4 DEF Search!EvolutionSearchAssumption
    <2> QED
        BY <1>1, <1>5, <1>6, <2>1 DEF PlanInv, StageInv
<1>8. p \in Search!ToSet(outcome[3 * g]) /\ p \in Search!ToSet(outcome[3 * g - 1])
    <2>1. Search!ToSet(outcome[3 * g]) \subseteq Search!ToSet(Search!Candidates(3 * g))
        BY <1>5, <1>6, OutcomeIs DEF PlanInv
    <2> QED
        BY <1>1, <1>7, <2>1
<1>9. s \in {3 * g - 1, 3 * g, t}
    <2>1. g = Search!Generation(s)
        BY <1>2, <1>3
    <2> QED
        BY <1>1, <1>4, <2>1, StageNumbers
<1>10. CASE s = t
    BY <1>1, <1>10 DEF LostAt
<1>11. CASE s \in {3 * g - 1, 3 * g}
    <2>1. ~Search!IsConfirmation(s)
        BY <1>4, <1>5, <1>11, FinalNumbers, NextStageNumbers
    <2> QED
        BY <1>8, <1>11, <2>1 DEF LostAt
<1> QED
    BY <1>9, <1>10, <1>11

\* Who is out of the stage of the run, and who won it.
LEMMA EliminatedIs ==
    ASSUME Search!EvolutionSearchAssumption, PlanInv, run.place = "eliminate",
           NEW p \in Search!Eliminated
    PROVE  /\ p \in Programs /\ LostAt(p, run.stage) /\ run.stage \in Search!Stages
           /\ registered[p].state \in {"evaluating", "selected"}
<1>1. EliminateFits /\ run.stage \in Search!Stages
    BY PlaceIs DEF PlanInv, PlanType, RunType
<1>2. run.stage > 1 /\ Claimed(run.stage)
    BY <1>1, StageNumbers DEF EliminateFits, Claimed, Complete
<1>3. p \in Search!ToSet(Search!Candidates(run.stage)) /\ registered[p].state # "rejected"
      /\ p \notin Search!ToSet(outcome[run.stage])
    BY DEF Search!Eliminated
<1>4. LostAt(p, run.stage)
    BY <1>1, <1>2, <1>3 DEF LostAt, EliminateFits
<1>5. p \in Programs
    <2>1. Search!Candidates(run.stage) \in Seq(Programs)
        BY <1>1, <1>2 DEF PlanInv, StageInv
    <2> QED
        BY <1>3, <2>1, SetOfIs
<1>6. registered[p].state \in Evaluated
    BY <1>1, <1>2, <1>3 DEF PlanInv, StageInv, Entered
<1> QED
    BY <1>1, <1>3, <1>4, <1>5, <1>6 DEF Evaluated

\* A candidate that is judged once more is judged as before.
LEMMA JudgedIs ==
    ASSUME Search!EvolutionSearchAssumption, PlanInv, run.place \in Deciding
    PROVE  /\ Search!Champion \in Programs /\ run.stage \in Search!Stages
           /\ outcome[run.stage] => WonAt(Search!Champion, run.stage)
           /\ ~outcome[run.stage] => LostAt(Search!Champion, run.stage)
           /\ registered[Search!Champion].state \in Evaluated
<1>1. /\ Search!IsConfirmation(run.stage) /\ Complete(run.stage) /\ run.stage \in Search!Stages
      /\ Search!Champion \in Programs
      /\ Search!ToSet(Search!Candidates(run.stage)) = {Search!Champion}
      /\ outcome[run.stage] \in BOOLEAN
    BY ChampionIs
<1>2. run.stage > 1 /\ Claimed(run.stage)
    BY <1>1 DEF Search!IsConfirmation, Claimed, Complete
<1>3. registered[Search!Champion].state \in Evaluated
    BY <1>1, <1>2 DEF PlanInv, StageInv, Entered
<1> QED
    BY <1>1, <1>2, <1>3 DEF WonAt, LostAt

\* What puts a candidate out or selects it.
LEMMA StateMoves ==
    ASSUME Search!EvolutionSearchAssumption, PlanInv, [Search!Next]_(Search!vars),
           NEW p \in Programs, registered'[p].state \in {"rejected", "selected"},
           registered'[p].state # registered[p].state
    PROVE  \E s \in Search!Stages :
             /\ registered'[p].state = "rejected" => LostAt(p, s)
             /\ registered'[p].state = "selected" => WonAt(p, s)
<1>1. ArchiveType
    BY DEF PlanInv, PlanType
<1>2. registered' # registered
    OBVIOUS
<1>3. CASE Search!Eliminate
    <2>1. run.place = "eliminate"
        BY <1>3 DEF Search!Eliminate, Search!At
    <2>2. PICK q \in Search!Eliminated :
            registered' = [registered EXCEPT ![q].state = "rejected"]
        BY <1>2, <1>3 DEF Search!Eliminate, Search!Transition
    <2>3. q \in Programs /\ LostAt(q, run.stage) /\ run.stage \in Search!Stages
        BY <2>1, EliminatedIs
    <2>4. p = q
        BY <1>1, <2>2 DEF ArchiveType
    <2>5. registered'[p].state = "rejected"
        BY <1>1, <2>2, <2>4 DEF ArchiveType
    <2> QED
        BY <2>3, <2>4, <2>5
<1>4. CASE Search!Select
    <2>1. run.place = "select" /\ run.place \in Deciding
        BY <1>4 DEF Search!Select, Search!At, Deciding
    <2>2. PICK q, state :
            /\ q = Search!Champion
            /\ state = IF outcome[run.stage] THEN "selected" ELSE "rejected"
            /\ registered' = [registered EXCEPT ![q].state = state]
        BY <1>2, <1>4 DEF Search!Select, Search!Transition
    <2>3. /\ q \in Programs /\ run.stage \in Search!Stages
          /\ outcome[run.stage] => WonAt(q, run.stage)
          /\ ~outcome[run.stage] => LostAt(q, run.stage)
        BY <2>1, <2>2, JudgedIs
    <2>4. p = q /\ registered'[p].state = state
        BY <1>1, <2>2, <2>3 DEF ArchiveType
    <2> QED
        BY <2>2, <2>3, <2>4
<1>5. CASE Search!MarkCandidates
    <2>1. registered'[p] = IF p \in Search!ToSet(run.found) /\ registered[p].state = "inactive"
                           THEN [registered[p] EXCEPT !.state = "evaluating"] ELSE registered[p]
        BY <1>5 DEF Search!MarkCandidates
    <2> QED
        BY <1>1, <2>1 DEF ArchiveType
<1>6. CASE Search!Register \/ Search!WriteBlob
    <2>1. PICK q, r : q = Search!Answer /\ r = Search!Request(1)
        OBVIOUS
    <2>2. \/ registered' = [registered EXCEPT ![q] = [by |-> r, state |-> "directory"]]
          \/ registered' = [registered EXCEPT ![q].state = "inactive"]
        BY <1>2, <1>6, <2>1 DEF Search!Register, Search!WriteBlob
    <2> QED
        BY <1>1, <2>2 DEF ArchiveType
<1>7. CASE \/ Quiet \/ Search!Start \/ Search!Kill \/ Search!ClaimStage \/ Search!CompleteStage
           \/ Search!Join \/ Search!RecordRollback \/ Search!AdvanceParent
           \/ Search!RecordDecision
    <2>1. registered' = registered
        BY <1>7, QuietLeaves DEF Search!Start, Search!Kill, Search!ClaimStage,
              Search!CompleteStage, Search!Join, Search!RecordRollback, Search!AdvanceParent,
              Search!RecordDecision, Search!archive
    <2> QED
        BY <1>2, <2>1
<1>8. CASE \/ Search!Mine \/ Search!Ask \/ Search!WriteAnswer \/ Search!CompleteAsk
           \/ Search!FailRequest \/ Search!AskFails \/ Search!AnswerIsInvalid
           \/ Search!NextGeneration
    <2>1. registered' = registered
        BY <1>8 DEF Search!Mine, Search!Ask, Search!WriteAnswer, Search!CompleteAsk,
                    Search!FailRequest, Search!AskFails, Search!AnswerIsInvalid,
                    Search!NextGeneration, Search!archive
    <2> QED
        BY <1>2, <2>1
<1> QED
    BY <1>3, <1>4, <1>5, <1>6, <1>7, <1>8 DEF Quiet, Search!Next, Search!Step

\* Every step keeps the reasons of the states.
LEMMA ReasonNext ==
    ASSUME Search!EvolutionSearchAssumption, PlanInv, ReasonInv, Grows,
           [Search!Next]_(Search!vars)
    PROVE  ReasonInv'
<1>1. SUFFICES ASSUME NEW p \in Programs
               PROVE  /\ registered'[p].state = "rejected" => \E s \in Search!Stages : LostAt(p, s)'
                      /\ registered'[p].state = "selected" => \E s \in Search!Stages : WonAt(p, s)'
    BY DEF ReasonInv
<1>2. CASE registered'[p].state = registered[p].state
    BY <1>2, ReasonStays DEF ReasonInv
<1>3. CASE registered'[p].state # registered[p].state
    BY <1>3, StateMoves, ReasonStays
<1> QED
    BY <1>2, <1>3

\* A step whose refusal is a disagreement is never refused.
Disagreements == {"decision differs", "stale parent", "illegal transition"}

\* A run never finds a candidate in a state from which it cannot go where it has to.
LEMMA NoIllegalTransition ==
    ASSUME Search!EvolutionSearchAssumption, PlanInv, ReasonInv,
           Search!Eliminate \/ Search!Select
    PROVE  run'.why = run.why
<1>1. RunType
    BY DEF PlanInv, PlanType
<1>2. CASE Search!Eliminate
    <2>1. run.place = "eliminate"
        BY <1>2 DEF Search!Eliminate, Search!At
    <2>2. CASE run' = [run EXCEPT !.stage = @ + 1, !.place = "claim"]
        <3>1. run.stage + 1 \in Search!Stages
            BY <1>1, <2>1, PlaceIs, NextStageNumbers DEF EliminateFits, RunType, PlanInv
        <3> QED
            BY <1>1, <2>2, <3>1, StageRuns
    <2>3. CASE \E p \in Search!Eliminated : Search!Transition(p, "rejected", "eliminate")
        <3>1. PICK p \in Search!Eliminated : Search!Transition(p, "rejected", "eliminate")
            BY <2>3
        <3>2. /\ p \in Programs /\ LostAt(p, run.stage) /\ run.stage \in Search!Stages
              /\ registered[p].state \in {"evaluating", "selected"}
            BY <2>1, EliminatedIs
        <3>3. registered[p].state # "selected"
            BY <3>2, LostOrWon DEF ReasonInv
        <3>4. Search!To("eliminate")
            BY <3>1, <3>2, <3>3 DEF Search!Transition
        <3> QED
            BY <1>1, <3>4, ToRuns
    <2> QED
        BY <1>2, <2>2, <2>3 DEF Search!Eliminate
<1>3. CASE Search!Select
    <2>1. run.place = "select" /\ run.place \in Deciding
        BY <1>3 DEF Search!Select, Search!At, Deciding
    <2>2. PICK p : p = Search!Champion
        OBVIOUS
    <2>3. /\ p \in Programs /\ run.stage \in Search!Stages
          /\ outcome[run.stage] => WonAt(p, run.stage)
          /\ ~outcome[run.stage] => LostAt(p, run.stage)
          /\ registered[p].state \in Evaluated
        BY <2>1, <2>2, JudgedIs
    <2>4. /\ outcome[run.stage] => registered[p].state # "rejected"
          /\ ~outcome[run.stage] => registered[p].state # "selected"
        BY <2>3, LostOrWon DEF ReasonInv
    <2>5. Search!To("rollback") \/ Search!To("decide")
        BY <1>3, <2>2, <2>3, <2>4 DEF Search!Select, Search!Transition, Evaluated
    <2> QED
        BY <1>1, <2>5, ToRuns
<1> QED
    BY <1>2, <1>3

\* A champion always follows the search parent of the archive, or is it already.
LEMMA NoStaleParent ==
    ASSUME Search!EvolutionSearchAssumption, PlanInv, LineageInv, Search!AdvanceParent
    PROVE  run'.why = run.why
<1>1. PICK at, m, n :
        /\ m = Len(lineage) /\ n = Len(history) /\ m \in Nat \ {0} /\ n \in Nat
        /\ Walk(at) /\ at[n] \in 1 .. m /\ m \in {at[n], at[n] + 1}
        /\ Search!Last(lineage) = lineage[m]
    BY LineageIs DEF LineageInv
<1>2. PICK g : g = Search!Generation(run.stage)
    OBVIOUS
<1>3. run.place = "advance" /\ run.place \in Deciding /\ Search!Running /\ RunType
    BY AdvanceIs, RunningIs DEF Deciding, PlanInv, PlanType
<1>4. /\ g \in 1 .. Generations /\ Final(g) = run.stage /\ g <= n + 1
      /\ Search!Champion = Winner(g)
      /\ Search!PreviousParent = claims[Final(g)].arms[2]
      /\ Search!PreviousParent = ParentAfter(g - 1)
      /\ Search!PreviousParent # Winner(g)
    BY <1>1, <1>2, <1>3, DecideIs DEF LineageInv
<1>5. outcome[Final(g)] = TRUE
    BY <1>3, <1>4 DEF LineageInv, DecidingInv
<1>6. \/ Search!Last(lineage) = Search!PreviousParent
      \/ Search!Follows(Search!Champion, Search!PreviousParent)
    <2>1. CASE g \in 1 .. n
        BY <1>1, <1>4, <1>5, <2>1, EarnedFollows DEF LineageInv
    <2>2. CASE g \notin 1 .. n
        <3>1. g = n + 1 /\ g - 1 = n
            BY <1>1, <1>4, <2>2 DEF Search!EvolutionSearchAssumption
        <3>2. CASE m = at[n]
            <4>1. lineage[at[n]] = ParentAfter(n)
                BY <1>1 DEF Walk, Trail
            <4> QED
                BY <1>1, <1>4, <3>1, <3>2, <4>1
        <3>3. CASE m = at[n] + 1
            <4>1. m \in 2 .. m /\ WonBy(m, g)
                BY <1>1, <3>1, <3>3, PendingIs DEF LineageInv
            <4> QED
                BY <1>1, <1>4, <4>1 DEF WonBy, Search!Follows
        <3> QED
            BY <1>1, <3>2, <3>3
    <2> QED
        BY <2>1, <2>2
<1>7. Search!To("decide")
    BY <1>6, AdvanceIs
<1> QED
    BY <1>3, <1>7, ToRuns

\* Why a run is refused.
LEMMA WhyMoves ==
    ASSUME Search!EvolutionSearchAssumption, PlanInv, LineageInv, ReasonInv,
           [Search!Next]_(Search!vars)
    PROVE  \/ run'.why = run.why
           \/ run'.why \notin Disagreements \cup {"claim differs"}
           \/ /\ Search!ClaimStage /\ Claimed(run.stage)
              /\ Search!Candidates(run.stage) # Search!Contenders
<1>1. RunType
    BY DEF PlanInv, PlanType
<1>2. ASSUME NEW why, why \notin Disagreements \cup {"claim differs"}, Search!Refuse(why)
      PROVE  run'.why \notin Disagreements \cup {"claim differs"}
    BY <1>2, RefuseRuns
<1>3. ASSUME NEW place, Search!To(place) PROVE run'.why = run.why
    BY <1>1, <1>3, ToRuns
<1>4. CASE Search!Eliminate \/ Search!Select \/ Search!AdvanceParent
    BY <1>4, NoIllegalTransition, NoStaleParent
<1>5. CASE Search!RecordDecision
    <2>1. Search!To("mine")
        BY <1>5, RecordIs DEF LineageInv
    <2> QED
        BY <1>3, <2>1
<1>6. CASE Search!ClaimStage
    <2>1. \/ Search!To("arms") \/ Search!Refuse("arms not distinct")
          \/ /\ Claimed(run.stage)
             /\ Search!Candidates(run.stage) # Search!Contenders
        BY <1>6 DEF Search!ClaimStage, Claimed, Search!Candidates
    <2> QED
        BY <1>2, <1>3, <1>6, <2>1 DEF Disagreements
<1>7. CASE Search!Start \/ Search!Kill
    <2>1. \/ Search!Refuse("damaged")
          \/ run' = [Search!Idle EXCEPT !.place = "claim"] \/ run' = Search!Idle
        BY <1>7 DEF Search!Start, Search!Kill
    <2>2. Search!Idle.why = "none" /\ [Search!Idle EXCEPT !.place = "claim"].why = "none"
        BY DEF Search!Idle
    <2> QED
        BY <1>2, <2>1, <2>2 DEF Disagreements
<1>8. CASE Search!MarkCandidates \/ Search!Join \/ Search!CompleteStage
           \/ Search!RecordRollback
    <2>1. Search!Refuse("arm") \/ \E place : Search!To(place)
        BY <1>8 DEF Search!MarkCandidates, Search!Join, Search!CompleteStage,
                    Search!RecordRollback
    <2> QED
        BY <1>2, <1>3, <2>1 DEF Disagreements
<1>9. CASE \/ Search!Ask \/ Search!WriteAnswer \/ Search!CompleteAsk
           \/ Search!FailRequest \/ Search!AskFails \/ Search!AnswerIsInvalid
    <2>1. Search!Refuse("budget") \/ Search!SkipRequest \/ \E place : Search!To(place)
        BY <1>9 DEF Search!Ask, Search!WriteAnswer, Search!CompleteAsk, Search!FailRequest,
                    Search!AskFails, Search!AnswerIsInvalid
    <2> QED
        BY <1>1, <1>2, <1>3, <2>1, SkipRuns DEF Disagreements
<1>10. CASE Search!Mine
    BY <1>1, <1>10, MineRuns
<1>11. CASE Search!NextGeneration
    <2>1. \/ Search!To("finished")
          \/ /\ run.stage + 1 \in Search!Stages
             /\ run' = [run EXCEPT !.stage = @ + 1, !.place = "mark"]
        BY <1>11 DEF Search!NextGeneration
    <2> QED
        BY <1>1, <1>3, <2>1, StageRuns
<1>12. CASE Search!Register \/ Search!WriteBlob
    <2>1. PICK p : p = Search!Answer
        OBVIOUS
    <2>2. \/ Search!Refuse("immutable candidate") \/ Search!To("blob")
          \/ run' = [run EXCEPT !.request = @ + 1, !.found = Append(@, p)]
          \/ run' = [run EXCEPT !.request = @ + 1, !.found = Append(@, p),
                                !.place = "propose"]
        BY <1>12, <2>1 DEF Search!Register, Search!WriteBlob
    <2>3. CASE \/ run' = [run EXCEPT !.request = @ + 1, !.found = Append(@, p)]
               \/ run' = [run EXCEPT !.request = @ + 1, !.found = Append(@, p),
                                     !.place = "propose"]
        BY <1>1, <2>3 DEF RunType, IsRun
    <2> QED
        BY <1>2, <1>3, <2>2, <2>3 DEF Disagreements
<1>13. CASE Quiet
    BY <1>13, QuietLeaves
<1> QED
    BY <1>4, <1>5, <1>6, <1>7, <1>8, <1>9, <1>10, <1>11, <1>12, <1>13
       DEF Quiet, Search!Next, Search!Step

-----------------------------------------------------------------------------
(* A run that is started again finds the candidates that an earlier one found.     *)

\* The requests of a generation, and the two attempts at each.
LEMMA RequestsAre ==
    ASSUME Search!EvolutionSearchAssumption, AskedType, NEW g \in 0 .. Generations,
           NEW k \in 1 .. MaxCandidates
    PROVE  /\ <<g, k, 1>> \in Search!Requests /\ <<g, k, 2>> \in Search!Requests
           /\ AttemptOf(g, k) \in {1, 2} /\ <<g, k, AttemptOf(g, k)>> \in Search!Requests
           /\ AnswerOf(g, k) \in Programs \cup {None, "invalid"}
<1>1. <<g, k, 1>> \in Search!Requests /\ <<g, k, 2>> \in Search!Requests
    BY DEF Search!Requests
<1>2. AttemptOf(g, k) \in {1, 2}
    BY DEF AttemptOf
<1>3. <<g, k, AttemptOf(g, k)>> \in Search!Requests
    BY <1>1, <1>2
<1>4. AnswerOf(g, k) \in Programs \cup {None, "invalid"}
    BY <1>3 DEF AnswerOf, AskedType
<1> QED
    BY <1>1, <1>2, <1>3, <1>4

LEMMA WantedIs ==
    ASSUME Search!EvolutionSearchAssumption, AskedType, NEW g \in 0 .. Generations,
           wanted[g] # None
    PROVE  wanted[g] \in Nat /\ wanted[g] <= MaxCandidates /\ MaxCandidates \in Nat
<1>1. wanted[g] \in 0 .. MaxCandidates /\ MaxCandidates \in Nat
    BY DEF AskedType, Search!EvolutionSearchAssumption
<1> QED
    BY <1>1

\* The request of the moment.
LEMMA AnswerIs ==
    ASSUME NEW g, NEW k, g = Search!Generation(run.stage), k = run.request
    PROVE  /\ Search!Attempt = AttemptOf(g, k) /\ Search!Answer = AnswerOf(g, k)
           /\ Search!Request(Search!Attempt) = <<g, k, AttemptOf(g, k)>>
           /\ Search!Request(1) = <<g, k, 1>>
BY DEF Search!Attempt, Search!Answer, Search!Request, AttemptOf, AnswerOf

\* A request with a candidate has not failed: its candidate is its answer.
LEMMA CandidateAnswers ==
    ASSUME Search!EvolutionSearchAssumption, AskedType, AnsweredInv, NEW p \in Programs,
           NEW g, NEW k, registered[p].by = <<g, k, 1>>
    PROVE  AnswerOf(g, k) = p /\ ~Failed(g, k)
<1>1. registered[p].by # <<>>
    OBVIOUS
<1>2. PICK h \in 0 .. Generations, j \in 1 .. MaxCandidates :
        registered[p].by = <<h, j, 1>> /\ AnswerOf(h, j) = p
    BY <1>1 DEF AnsweredInv
<1>3. h = g /\ j = k
    BY <1>2
<1>4. p # None /\ p # "invalid"
    BY DEF Search!EvolutionSearchAssumption
<1> QED
    BY <1>2, <1>3, <1>4 DEF Failed

\* The candidates that were found stay found.
LEMMA OrderedStays ==
    ASSUME Grows, NEW g, NEW f \in Seq(Programs), NEW n, Ordered(g, f, n)
    PROVE  Ordered(g, f, n)' /\ \A i \in DOMAIN f : registered'[f[i]].by = registered[f[i]].by
<1>1. ASSUME NEW i \in DOMAIN f PROVE registered'[f[i]].by = registered[f[i]].by
    <2>1. f[i] \in Programs
        OBVIOUS
    <2>2. PICK k \in 1 .. n : registered[f[i]].by = <<g, k, 1>>
        BY DEF Ordered
    <2>3. registered[f[i]].by # <<>>
        BY <2>2
    <2> QED
        BY <2>1, <2>3 DEF Grows, ArchiveGrows
<1> QED
    BY <1>1 DEF Ordered

\* What was left of a stage stays left of it.
LEMMA BeforeStays ==
    ASSUME Grows, NEW g, NEW f, NEW c \in Seq(Programs), NEW n, NEW w, Ordered(g, c, w),
           Before(f, c, n)
    PROVE  Before(f, c, n)'
BY OrderedStays DEF Before

\* One more request that has no candidate, or that leaves p.
LEMMA SkippedIs ==
    ASSUME Search!EvolutionSearchAssumption, AskedType, AnsweredInv,
           NEW g, NEW f \in Seq(Programs), NEW q \in Nat \ {0}, Ordered(g, f, q - 1),
           Settled(g, f, q - 1),
           Failed(g, q)
    PROVE  Ordered(g, f, q) /\ Settled(g, f, q)
<1>1. q - 1 \in Nat /\ \A k \in 1 .. q : k \in 1 .. q - 1 \/ k = q
    OBVIOUS
<1>2. 1 .. q - 1 \subseteq 1 .. q
    OBVIOUS
<1> QED
    BY <1>1, <1>2 DEF Ordered, Settled

LEMMA SkippedBefore ==
    ASSUME Search!EvolutionSearchAssumption, AskedType, AnsweredInv,
           NEW g, NEW f, NEW q \in Nat \ {0}, Failed(g, q), NEW c \in Seq(Programs),
           NEW w \in Nat,
           Ordered(g, c, w), Before(f, c, q)
    PROVE  Before(f, c, q + 1)
<1>1. ASSUME NEW i \in DOMAIN c
      PROVE  registered[c[i]].by[2] < q <=> registered[c[i]].by[2] < q + 1
    <2>1. PICK k \in 1 .. w : registered[c[i]].by = <<g, k, 1>>
        BY DEF Ordered
    <2>2. c[i] \in Programs
        OBVIOUS
    <2>3. k # q
        BY <2>1, <2>2, CandidateAnswers
    <2>4. registered[c[i]].by[2] = k
        BY <2>1
    <2> QED
        BY <2>3, <2>4
<1> QED
    BY <1>1 DEF Before

LEMMA TookIs ==
    ASSUME NEW g, NEW f \in Seq(Programs), NEW q \in Nat \ {0}, Ordered(g, f, q - 1),
           Settled(g, f, q - 1), NEW p \in Programs, registered[p].by = <<g, q, 1>>
    PROVE  Ordered(g, Append(f, p), q) /\ Settled(g, Append(f, p), q)
<1>1. PICK e, n : e = Append(f, p) /\ n = Len(f)
    OBVIOUS
<1>2. /\ n \in Nat /\ DOMAIN f = 1 .. n /\ DOMAIN e = 1 .. n + 1 /\ e[n + 1] = p
      /\ \A i \in 1 .. n : e[i] = f[i]
    BY <1>1
<1>3. ASSUME NEW i \in DOMAIN e
      PROVE  (i \in 1 .. n /\ e[i] = f[i]) \/ (i = n + 1 /\ e[i] = p)
    BY <1>2
<1>4. ASSUME NEW i \in 1 .. n
      PROVE  \E k \in 1 .. q - 1 : registered[f[i]].by = <<g, k, 1>> /\ registered[f[i]].by[2] = k
    <2>1. PICK k \in 1 .. q - 1 : registered[f[i]].by = <<g, k, 1>>
        BY <1>2 DEF Ordered
    <2>2. registered[f[i]].by[2] = k
        BY <2>1
    <2> QED
        BY <2>1, <2>2
<1>5. ASSUME NEW i \in DOMAIN e PROVE \E k \in 1 .. q : registered[e[i]].by = <<g, k, 1>>
    <2>1. q \in 1 .. q /\ 1 .. q - 1 \subseteq 1 .. q
        OBVIOUS
    <2>2. CASE i \in 1 .. n /\ e[i] = f[i]
        BY <1>4, <2>1, <2>2
    <2>3. CASE i = n + 1 /\ e[i] = p
        BY <2>1, <2>3
    <2> QED
        BY <1>3, <1>5, <2>2, <2>3
<1>6. ASSUME NEW i \in DOMAIN e, NEW j \in DOMAIN e, i < j
      PROVE  registered[e[i]].by[2] < registered[e[j]].by[2]
    <2>1. i \in 1 .. n
        BY <1>2, <1>6
    <2>2. CASE j \in 1 .. n
        BY <1>2, <1>6, <2>1, <2>2 DEF Ordered
    <2>3. CASE j = n + 1
        <3>1. PICK k \in 1 .. q - 1 : registered[f[i]].by[2] = k
            BY <1>4, <2>1
        <3>2. registered[p].by[2] = q
            OBVIOUS
        <3> QED
            BY <1>2, <2>1, <2>3, <3>1, <3>2
    <2> QED
        BY <1>2, <2>2, <2>3
<1>7. ASSUME NEW k \in 1 .. q
      PROVE  Failed(g, k) \/ \E i \in DOMAIN e : registered[e[i]].by = <<g, k, 1>>
    <2>1. CASE k = q
        <3>1. n + 1 \in DOMAIN e /\ registered[e[n + 1]].by = <<g, k, 1>>
            BY <1>2, <2>1
        <3> QED
            BY <3>1
    <2>2. CASE k \in 1 .. q - 1
        <3>1. Failed(g, k) \/ \E i \in 1 .. n : registered[f[i]].by = <<g, k, 1>>
            BY <1>2, <2>2 DEF Settled
        <3> QED
            BY <1>2, <3>1
    <2> QED
        BY <2>1, <2>2
<1> QED
    BY <1>1, <1>5, <1>6, <1>7 DEF Ordered, Settled

LEMMA TookBefore ==
    ASSUME Search!EvolutionSearchAssumption, AskedType, AnsweredInv,
           NEW g, NEW f \in Seq(Programs), NEW q \in Nat \ {0}, NEW p \in Programs,
           registered[p].by = <<g, q, 1>>,
           NEW c \in Seq(Programs), NEW w \in Nat, q <= w, Ordered(g, c, w), Settled(g, c, w),
           Before(f, c, q)
    PROVE  Before(Append(f, p), c, q + 1)
<1>1. PICK e, n : e = Append(f, p) /\ n = Len(f)
    OBVIOUS
<1>2. /\ n \in Nat /\ DOMAIN f = 1 .. n /\ DOMAIN e = 1 .. n + 1 /\ Len(e) = n + 1
      /\ e[n + 1] = p /\ \A i \in 1 .. n : e[i] = f[i]
    BY <1>1
<1>3. PICK m : m = Len(c) /\ m \in Nat /\ DOMAIN c = 1 .. m /\ \A i \in 1 .. m : c[i] \in Programs
    OBVIOUS
<1>4. ASSUME NEW i \in 1 .. m
      PROVE  /\ registered[c[i]].by = <<g, registered[c[i]].by[2], 1>>
             /\ registered[c[i]].by[2] \in Nat /\ (i <= n <=> registered[c[i]].by[2] < q)
             /\ \A j \in 1 .. m : i < j => registered[c[i]].by[2] < registered[c[j]].by[2]
    <2>1. PICK k \in 1 .. w : registered[c[i]].by = <<g, k, 1>>
        BY <1>3 DEF Ordered
    <2>2. registered[c[i]].by[2] = k
        BY <2>1
    <2>3. i \in 1 .. n <=> registered[c[i]].by[2] < q
        BY <1>2, <1>3 DEF Before
    <2>4. \A j \in 1 .. m : i < j => registered[c[i]].by[2] < registered[c[j]].by[2]
        BY <1>3 DEF Ordered
    <2>5. k \in Nat /\ (i <= n <=> i \in 1 .. n)
        BY <1>2
    <2> QED
        BY <2>1, <2>2, <2>3, <2>4, <2>5
<1>5. PICK i \in 1 .. m : c[i] = p /\ registered[c[i]].by[2] = q
    <2>1. ~Failed(g, q) /\ AnswerOf(g, q) = p
        BY CandidateAnswers
    <2>2. PICK i \in 1 .. m : registered[c[i]].by = <<g, q, 1>>
        <3>1. q \in 1 .. w
            OBVIOUS
        <3>2. Failed(g, q) \/ \E i \in DOMAIN c : registered[c[i]].by = <<g, q, 1>>
            BY <3>1 DEF Settled
        <3> QED
            BY <1>3, <2>1, <3>2
    <2>3. AnswerOf(g, q) = c[i]
        BY <1>3, <2>2, CandidateAnswers
    <2> QED
        BY <2>1, <2>2, <2>3
<1>6. i = n + 1
    <2>1. ~(i <= n)
        BY <1>4, <1>5
    <2>2. SUFFICES ASSUME i > n + 1 PROVE FALSE
        BY <1>2, <2>1
    <2>3. n + 1 \in 1 .. m /\ n + 1 < i /\ ~(n + 1 <= n)
        BY <1>2, <1>3, <2>2
    <2>4. /\ registered[c[n + 1]].by[2] < registered[c[i]].by[2]
          /\ ~(registered[c[n + 1]].by[2] < q)
        BY <1>4, <2>3
    <2> QED
        BY <1>4, <1>5, <2>3, <2>4
<1>7. n + 1 <= m /\ \A j \in 1 .. n + 1 : e[j] = c[j]
    <2>1. \A j \in 1 .. n : e[j] = c[j]
        BY <1>2 DEF Before
    <2> QED
        BY <1>2, <1>3, <1>5, <1>6, <2>1
<1>8. ASSUME NEW j \in 1 .. m
      PROVE  j \in 1 .. n + 1 <=> registered[c[j]].by[2] < q + 1
    <2>1. CASE j <= n
        BY <1>2, <1>4, <2>1
    <2>2. CASE j = n + 1
        BY <1>2, <1>5, <1>6, <2>2
    <2>3. CASE j > n + 1
        <3>1. registered[c[i]].by[2] < registered[c[j]].by[2]
            BY <1>4, <1>6, <2>3
        <3> QED
            BY <1>2, <1>4, <1>5, <2>3, <3>1
    <2> QED
        BY <1>2, <2>1, <2>2, <2>3
<1> QED
    BY <1>1, <1>2, <1>3, <1>7, <1>8 DEF Before

\* Retractions and threads leave what a run has found.
LEMMA QuietAsks ==
    ASSUME Quiet
    PROVE  \/ UNCHANGED <<asked, reopened>>
           \/ ~Search!Running /\ UNCHANGED reopened /\ asked' = asked
           \/ /\ ~Search!Running /\ reopened' = TRUE
              /\ \E r \in Search!Requests : asked' = [asked EXCEPT ![r] = "retracted"]
<1>1. CASE \E t \in Tasks : Search!Thread(t) \/ Search!ArmFails(t)
    <2>1. PICK t \in Tasks : Search!Thread(t) \/ Search!ArmFails(t)
        BY <1>1
    <2>2. \/ Search!Load(t) \/ Search!Reserve(t) \/ Search!Dispatch(t)
          \/ Search!WriteReceipt(t) \/ Search!Evaluate(t) \/ Search!RecordEvidence(t)
          \/ Search!ArmFails(t)
        BY <2>1 DEF Search!Thread
    <2> QED
        BY <2>2 DEF Search!Load, Search!Reserve, Search!Dispatch, Search!WriteReceipt,
                    Search!Evaluate, Search!RecordEvidence, Search!ArmFails,
                    Search!controller, Search!kept, Search!History
<1>2. CASE Search!Retract \/ Search!Quarantine
    BY <1>2 DEF Search!Retract, Search!Quarantine
<1>3. CASE Search!RetractRequest
    BY <1>3 DEF Search!RetractRequest, Search!Act
<1>4. CASE UNCHANGED Search!vars
    BY <1>4 DEF Search!vars, Search!controller, Search!kept
<1> QED
    BY <1>1, <1>2, <1>3, <1>4 DEF Quiet

\* An answer is written at the request of the moment, which has none.
Answers ==
    \E g \in 0 .. Generations, k \in 1 .. MaxCandidates, answer \in Programs \cup {"invalid"} :
        /\ run.place = "ask" /\ g = Search!Generation(run.stage) /\ k = run.request
        /\ AnswerOf(g, k) = None
        /\ raws' = [raws EXCEPT ![<<g, k, AttemptOf(g, k)>>] = answer]
Reserves ==
    \E r \in Search!Requests, status \in {"reserved", "completed"} :
        asked' = [asked EXCEPT ![r] = status]
Retracts ==
    reopened' = TRUE /\ \E r \in Search!Requests : asked' = [asked EXCEPT ![r] = "retracted"]
Mines ==
    \E g \in 0 .. Generations, n \in 0 .. MaxCandidates :
        wanted[g] \in {None, n} /\ wanted' = [wanted EXCEPT ![g] = n]

\* A run that proposes asks one of the requests of its generation, or is past the last.
LEMMA AskingIs ==
    ASSUME Search!EvolutionSearchAssumption, PlanInv, AskedInv, run.place \in Proposing,
           NEW g, NEW k, g = Search!Generation(run.stage), k = run.request
    PROVE  /\ AskingFits /\ g \in 0 .. Generations /\ run.stage \in Search!Stages
           /\ wanted[g] # None /\ wanted[g] \in Nat /\ k \in Nat \ {0} /\ k <= wanted[g] + 1
           /\ k <= wanted[g] => k \in 1 .. MaxCandidates
           /\ run.found \in Seq(Programs) /\ Ended(run.stage)
<1>1. AskingFits /\ AskedType /\ RunType
    BY DEF AskedInv, RequestInv, PlanInv, PlanType
<1>2. run.stage \in Search!Stages /\ run.found \in Seq(Programs) /\ g \in 0 .. Generations
    BY <1>1, StageNumbers DEF RunType
<1>3. wanted[g] # None /\ k \in 1 .. wanted[g] + 1
    BY <1>1 DEF AskingFits, Asks
<1>4. wanted[g] \in Nat /\ wanted[g] <= MaxCandidates /\ MaxCandidates \in Nat
    BY <1>1, <1>2, <1>3, WantedIs
<1>5. Ended(run.stage)
    BY PlaceIs DEF PlanInv, ProposeFits
<1> QED
    BY <1>1, <1>2, <1>3, <1>4, <1>5

\* An answer is stored once for an attempt that was paid.
LEMMA AnswerMoves ==
    ASSUME Search!EvolutionSearchAssumption, PlanInv, AskedInv,
           Search!WriteAnswer \/ Search!AnswerIsInvalid
    PROVE  Answers /\ UNCHANGED <<asked, wanted, reopened, claims, registered>>
           /\ Search!To("answered") /\ run.place = "ask"
<1>1. /\ UNCHANGED <<asked, wanted, reopened, claims, registered>>
      /\ Search!To("answered") /\ run.place = "ask"
    BY DEF Search!WriteAnswer, Search!AnswerIsInvalid, Search!At, Search!controller,
           Search!archive, Search!kept, Search!History
<1>2. PICK g, k : g = Search!Generation(run.stage) /\ k = run.request
    OBVIOUS
<1>3. AskingFits /\ g \in 0 .. Generations /\ k \in 1 .. MaxCandidates /\ AnswerOf(g, k) = None
    <2>1. AskingFits /\ g \in 0 .. Generations /\ (k <= wanted[g] => k \in 1 .. MaxCandidates)
        BY <1>1, <1>2, AskingIs DEF Proposing
    <2> QED
        BY <1>1, <1>2, <2>1 DEF AskingFits
<1>4. \E answer \in Programs \cup {"invalid"} :
        raws' = [raws EXCEPT ![<<g, k, AttemptOf(g, k)>>] = answer]
    <2>1. PICK r : r = Search!Request(Search!Attempt)
        OBVIOUS
    <2>2. r = <<g, k, AttemptOf(g, k)>>
        BY <1>2, <2>1, AnswerIs
    <2>3. \E answer \in Programs \cup {"invalid"} : raws' = [raws EXCEPT ![r] = answer]
        BY <2>1 DEF Search!WriteAnswer, Search!AnswerIsInvalid
    <2> QED
        BY <2>2, <2>3
<1> QED
    BY <1>1, <1>2, <1>3, <1>4 DEF Answers

LEMMA AskMoves ==
    ASSUME Search!EvolutionSearchAssumption, PlanInv, AskedInv,
           Search!Ask \/ Search!CompleteAsk
    PROVE  /\ asked' = asked \/ Reserves
           /\ UNCHANGED <<raws, wanted, reopened, claims, registered>>
<1>1. UNCHANGED <<raws, wanted, reopened, claims, registered>>
    BY DEF Search!Ask, Search!CompleteAsk, Search!files, Search!archive, Search!kept
<1>2. run.place \in Proposing /\ (run.place = "propose" \/ run.place = "answered")
    BY DEF Search!Ask, Search!CompleteAsk, Search!At, Proposing
<1>3. PICK g, k : g = Search!Generation(run.stage) /\ k = run.request
    OBVIOUS
<1>4. g \in 0 .. Generations /\ k \in 1 .. MaxCandidates
    <2>1. AskingFits /\ g \in 0 .. Generations /\ (k <= wanted[g] => k \in 1 .. MaxCandidates)
        BY <1>2, <1>3, AskingIs
    <2>2. k <= wanted[g]
        BY <1>3, <2>1 DEF AskingFits, Search!Ask, Search!CompleteAsk, Search!At
    <2> QED
        BY <2>1, <2>2
<1>5. CASE Search!Ask
    <2>1. PICK r : r = Search!Request(Search!Attempt)
        OBVIOUS
    <2>2. r = <<g, k, AttemptOf(g, k)>>
        BY <1>3, <2>1, AnswerIs
    <2>3. r \in Search!Requests
        BY <1>4, <2>2, RequestsAre DEF AskedInv
    <2>4. asked' = asked \/ asked' = [asked EXCEPT ![r] = "reserved"]
        BY <1>5, <2>1 DEF Search!Ask
    <2> QED
        BY <1>1, <2>3, <2>4 DEF Reserves
<1>6. CASE Search!CompleteAsk
    <2>1. PICK a \in {1, 2} : asked' = [asked EXCEPT ![Search!Request(a)] = "completed"]
        BY <1>6 DEF Search!CompleteAsk
    <2>2. PICK r : r = Search!Request(a)
        OBVIOUS
    <2>3. r \in Search!Requests
        BY <1>3, <1>4, <2>2, RequestsAre DEF AskedInv, Search!Request
    <2> QED
        BY <1>1, <2>1, <2>2, <2>3 DEF Reserves
<1> QED
    BY <1>5, <1>6

\* The number of requests is fixed when a generation is mined first.
LEMMA MineMoves ==
    ASSUME Search!EvolutionSearchAssumption, PlanInv, Search!Mine
    PROVE  Mines /\ UNCHANGED <<raws, asked, reopened, claims, registered>>
<1>1. UNCHANGED <<raws, asked, reopened, claims, registered>>
    BY DEF Search!Mine, Search!controller, Search!archive, Search!kept
<1>2. PICK g : g = Search!Generation(run.stage)
    OBVIOUS
<1>3. g \in 0 .. Generations
    BY <1>2, StageNumbers DEF PlanInv, PlanType, RunType
<1>4. PICK n \in 0 .. MaxCandidates :
        wanted[g] \in {None, n} /\ wanted' = [wanted EXCEPT ![g] = n]
    BY <1>2 DEF Search!Mine
<1> QED
    BY <1>1, <1>3, <1>4 DEF Mines

\* What the steps do to requests and answers.
LEMMA AskedMoves ==
    ASSUME Search!EvolutionSearchAssumption, PlanInv, AskedInv,
           [Search!Next]_(Search!vars)
    PROVE  /\ raws' = raws \/ (Answers /\ asked' = asked)
           /\ asked' = asked \/ Reserves \/ Retracts
           /\ wanted' = wanted \/ Mines
           /\ reopened' = reopened \/ reopened' = TRUE
<1>1. CASE Search!Mine
    BY <1>1, MineMoves
<1>2. CASE Search!Ask \/ Search!CompleteAsk
    BY <1>2, AskMoves
<1>3. CASE Search!WriteAnswer \/ Search!AnswerIsInvalid
    BY <1>3, AnswerMoves
<1>4. CASE Quiet
    BY <1>4, QuietLeaves, QuietAsks DEF Retracts
<1>5. CASE \/ Search!Start \/ Search!Kill \/ Search!MarkCandidates \/ Search!ClaimStage
           \/ Search!Join \/ Search!CompleteStage \/ Search!Eliminate \/ Search!Select
    BY <1>5 DEF Search!Start, Search!Kill, Search!MarkCandidates, Search!ClaimStage,
                Search!Join, Search!CompleteStage, Search!Eliminate, Search!Select,
                Search!controller, Search!files, Search!kept, Search!History
<1>6. CASE \/ Search!RecordRollback \/ Search!AdvanceParent \/ Search!RecordDecision
           \/ Search!FailRequest \/ Search!AskFails \/ Search!NextGeneration
           \/ Search!Register \/ Search!WriteBlob
    BY <1>6 DEF Search!RecordRollback, Search!AdvanceParent, Search!RecordDecision,
                Search!FailRequest, Search!AskFails, Search!NextGeneration, Search!Register,
                Search!WriteBlob, Search!controller, Search!files, Search!kept,
                Search!History
<1> QED
    BY <1>1, <1>2, <1>3, <1>4, <1>5, <1>6 DEF Quiet, Search!Next, Search!Step

LEMMA AskedTypeNext ==
    ASSUME Search!EvolutionSearchAssumption, PlanInv, AskedInv,
           [Search!Next]_(Search!vars)
    PROVE  AskedType'
<1>1. AskedType
    BY DEF AskedInv
<1>2. raws' \in [Search!Requests -> Programs \cup {None, "invalid"}]
    <2>1. CASE raws' = raws
        BY <1>1, <2>1 DEF AskedType
    <2>2. CASE Answers
        <3>1. PICK answer \in Programs \cup {"invalid"} :
                \E r : raws' = [raws EXCEPT ![r] = answer]
            BY <2>2 DEF Answers
        <3>2. PICK r : raws' = [raws EXCEPT ![r] = answer]
            BY <3>1
        <3> QED
            BY <1>1, <3>2 DEF AskedType
    <2> QED
        BY <2>1, <2>2, AskedMoves
<1>3. asked' \in [Search!Requests -> {"none", "reserved", "completed", "retracted"}]
    BY <1>1, AskedMoves DEF AskedType, Reserves, Retracts
<1>4. wanted' \in [0 .. Generations -> (0 .. MaxCandidates) \cup {None}]
    BY <1>1, AskedMoves DEF AskedType, Mines
<1>5. reopened' \in BOOLEAN
    BY <1>1, AskedMoves DEF AskedType
<1> QED
    BY <1>2, <1>3, <1>4, <1>5 DEF AskedType

\* The number of requests stays.
LEMMA WantedStays ==
    ASSUME Search!EvolutionSearchAssumption, PlanInv, AskedInv,
           [Search!Next]_(Search!vars), NEW g \in 0 .. Generations, wanted[g] # None
    PROVE  wanted'[g] = wanted[g]
<1>1. CASE Mines
    <2>1. PICK h \in 0 .. Generations, n \in 0 .. MaxCandidates :
            wanted[h] \in {None, n} /\ wanted' = [wanted EXCEPT ![h] = n]
        BY <1>1 DEF Mines
    <2> QED
        BY <2>1 DEF AskedInv, AskedType
<1> QED
    BY <1>1, AskedMoves

\* Answers stay, and so does what they are for.
LEMMA AnswersStay ==
    ASSUME Search!EvolutionSearchAssumption, PlanInv, AskedInv,
           [Search!Next]_(Search!vars), NEW g \in 0 .. Generations, NEW k \in 1 .. MaxCandidates
    PROVE  /\ AnswerOf(g, k) # None => AnswerOf(g, k)' = AnswerOf(g, k)
           /\ \/ raws' = raws
              \/ run.place = "ask" /\ g = Search!Generation(run.stage) /\ k = run.request
              \/ /\ AnswerOf(g, k)' = AnswerOf(g, k) /\ AttemptOf(g, k)' = AttemptOf(g, k)
                 /\ asked' = asked
<1>1. CASE raws' = raws
    BY <1>1 DEF AnswerOf, AttemptOf
<1>2. CASE Answers /\ asked' = asked
    <2>1. PICK h \in 0 .. Generations, j \in 1 .. MaxCandidates,
               answer \in Programs \cup {"invalid"} :
            /\ run.place = "ask" /\ h = Search!Generation(run.stage) /\ j = run.request
            /\ AnswerOf(h, j) = None
            /\ raws' = [raws EXCEPT ![<<h, j, AttemptOf(h, j)>>] = answer]
        BY <1>2 DEF Answers
    <2>2. CASE g = h /\ k = j
        BY <2>1, <2>2
    <2>3. CASE ~(g = h /\ k = j)
        <3>1. PICK a : a = AttemptOf(h, j) /\ raws' = [raws EXCEPT ![<<h, j, a>>] = answer]
            BY <2>1
        <3>2. raws'[<<g, k, 1>>] = raws[<<g, k, 1>>] /\ raws'[<<g, k, 2>>] = raws[<<g, k, 2>>]
            BY <2>3, <3>1, RequestsAre DEF AskedInv, AskedType
        <3>3. AttemptOf(g, k)' = AttemptOf(g, k) /\ AttemptOf(g, k) \in {1, 2}
            BY <3>2 DEF AttemptOf
        <3>4. AnswerOf(g, k)' = AnswerOf(g, k)
            BY <3>2, <3>3 DEF AnswerOf
        <3> QED
            BY <1>2, <3>3, <3>4
    <2> QED
        BY <2>2, <2>3
<1> QED
    BY <1>1, <1>2, AskedMoves

\* A request that failed stays so, unless its call is retracted.
LEMMA FailedStays ==
    ASSUME Search!EvolutionSearchAssumption, PlanInv, AskedInv,
           [Search!Next]_(Search!vars), NEW g \in 0 .. Generations, NEW k \in 1 .. MaxCandidates,
           reopened' # TRUE, Failed(g, k),
           \/ raws' = raws
           \/ ~(run.place = "ask" /\ g = Search!Generation(run.stage) /\ k = run.request)
    PROVE  Failed(g, k)'
<1>1. AnswerOf(g, k)' = AnswerOf(g, k) /\ AttemptOf(g, k)' = AttemptOf(g, k)
    BY AnswersStay DEF AnswerOf, AttemptOf
<1>2. PICK r \in Search!Requests : r = <<g, k, AttemptOf(g, k)>>
    BY RequestsAre DEF AskedInv
<1>3. asked[r] \in {"reserved", "completed"} => asked'[r] \in {"reserved", "completed"}
    <2>1. CASE asked' = asked
        BY <2>1
    <2>2. CASE Reserves
        BY <2>2 DEF Reserves, AskedInv, AskedType
    <2> QED
        BY <2>1, <2>2, AskedMoves DEF Retracts
<1> QED
    BY <1>1, <1>2, <1>3 DEF Failed

\* Requests that are settled stay so, unless a call is retracted.
LEMMA SettledStays ==
    ASSUME Search!EvolutionSearchAssumption, PlanInv, AskedInv, Grows,
           [Search!Next]_(Search!vars), NEW g \in 0 .. Generations, NEW f \in Seq(Programs),
           NEW n \in Nat, n <= MaxCandidates, reopened' # TRUE, Ordered(g, f, n),
           Settled(g, f, n),
           \/ raws' = raws
           \/ ~(run.place = "ask" /\ g = Search!Generation(run.stage) /\ run.request \in 1 .. n)
    PROVE  Ordered(g, f, n)' /\ Settled(g, f, n)'
<1>1. Ordered(g, f, n)' /\ \A i \in DOMAIN f : registered'[f[i]].by = registered[f[i]].by
    BY OrderedStays
<1>2. ASSUME NEW k \in 1 .. n
      PROVE  Failed(g, k)' \/ \E i \in DOMAIN f : registered'[f[i]].by = <<g, k, 1>>
    <2>1. k \in 1 .. MaxCandidates
        BY DEF Search!EvolutionSearchAssumption
    <2>2. CASE Failed(g, k)
        BY <2>1, <2>2, FailedStays
    <2>3. CASE \E i \in DOMAIN f : registered[f[i]].by = <<g, k, 1>>
        BY <1>1, <2>3
    <2> QED
        BY <2>2, <2>3 DEF Settled
<1> QED
    BY <1>1, <1>2 DEF Settled

\* Only a registration gives a program its request.
LEMMA RegistersOnly ==
    ASSUME Search!EvolutionSearchAssumption, PlanInv, [Search!Next]_(Search!vars),
           NEW p \in Programs, registered'[p].by # registered[p].by
    PROVE  Search!Register
<1>1. ArchiveType
    BY DEF PlanInv, PlanType
<1>2. CASE Search!Eliminate \/ Search!Select
    <2>1. registered' = registered \/ \E q, state : registered' = [registered EXCEPT ![q].state = state]
        BY <1>2 DEF Search!Eliminate, Search!Select, Search!Transition
    <2> QED
        BY <1>1, <2>1 DEF ArchiveType
<1>3. CASE Search!WriteBlob
    <2>1. PICK q : q = Search!Answer
        OBVIOUS
    <2>2. registered' = [registered EXCEPT ![q].state = "inactive"]
        BY <1>3, <2>1 DEF Search!WriteBlob
    <2> QED
        BY <1>1, <2>2 DEF ArchiveType
<1>4. CASE Search!MarkCandidates
    <2>1. registered'[p] = IF p \in Search!ToSet(run.found) /\ registered[p].state = "inactive"
                           THEN [registered[p] EXCEPT !.state = "evaluating"] ELSE registered[p]
        BY <1>4 DEF Search!MarkCandidates
    <2> QED
        BY <1>1, <2>1 DEF ArchiveType
<1>5. CASE \/ Quiet \/ Search!Start \/ Search!Kill \/ Search!ClaimStage \/ Search!CompleteStage
           \/ Search!Join \/ Search!RecordRollback \/ Search!AdvanceParent
           \/ Search!RecordDecision
    BY <1>5, QuietLeaves DEF Search!Start, Search!Kill, Search!ClaimStage,
       Search!CompleteStage, Search!Join, Search!RecordRollback, Search!AdvanceParent,
       Search!RecordDecision, Search!archive
<1>6. CASE \/ Search!Mine \/ Search!Ask \/ Search!WriteAnswer \/ Search!CompleteAsk
           \/ Search!FailRequest \/ Search!AskFails \/ Search!AnswerIsInvalid
           \/ Search!NextGeneration
    BY <1>6 DEF Search!Mine, Search!Ask, Search!WriteAnswer, Search!CompleteAsk,
                Search!FailRequest, Search!AskFails, Search!AnswerIsInvalid,
                Search!NextGeneration, Search!archive
<1> QED
    BY <1>2, <1>3, <1>4, <1>5, <1>6 DEF Quiet, Search!Next, Search!Step

\* Every candidate stays the answer to its request.
LEMMA AnsweredNext ==
    ASSUME Search!EvolutionSearchAssumption, PlanInv, AskedInv, Grows,
           [Search!Next]_(Search!vars)
    PROVE  AnsweredInv'
<1>1. SUFFICES ASSUME NEW p \in Programs, registered'[p].by # <<>>
               PROVE  \E g \in 0 .. Generations, k \in 1 .. MaxCandidates :
                        registered'[p].by = <<g, k, 1>> /\ AnswerOf(g, k)' = p
    BY DEF AnsweredInv
<1>2. CASE registered[p].by # <<>>
    <2>1. PICK g \in 0 .. Generations, k \in 1 .. MaxCandidates :
            registered[p].by = <<g, k, 1>> /\ AnswerOf(g, k) = p
        BY <1>2 DEF AskedInv, AnsweredInv
    <2>2. registered'[p].by = registered[p].by
        BY <1>2 DEF Grows, ArchiveGrows
    <2>3. p # None
        BY DEF Search!EvolutionSearchAssumption
    <2>4. AnswerOf(g, k)' = p
        BY <2>1, <2>3, AnswersStay
    <2> QED
        BY <2>1, <2>2, <2>4
<1>3. CASE registered[p].by = <<>>
    <2>1. Search!Register
        BY <1>1, <1>3, RegistersOnly
    <2>2. PICK g, k : g = Search!Generation(run.stage) /\ k = run.request
        OBVIOUS
    <2>3. /\ run.place = "propose" /\ k <= wanted[g] /\ raws' = raws
          /\ Search!Answer = AnswerOf(g, k) /\ Search!Request(1) = <<g, k, 1>>
        BY <2>1, <2>2, AnswerIs DEF Search!Register, Search!At, Search!files
    <2>4. g \in 0 .. Generations /\ k \in 1 .. MaxCandidates
        BY <2>2, <2>3, AskingIs DEF Proposing
    <2>5. PICK q, r : q = Search!Answer /\ r = Search!Request(1)
        OBVIOUS
    <2>6. registered' = [registered EXCEPT ![q] = [by |-> r, state |-> "directory"]]
        BY <1>1, <1>3, <2>1, <2>5 DEF Search!Register
    <2>7. p = q /\ registered'[p].by = r
        BY <1>1, <1>3, <2>6 DEF PlanInv, PlanType, ArchiveType
    <2>8. AnswerOf(g, k)' = AnswerOf(g, k)
        BY <2>3 DEF AnswerOf, AttemptOf
    <2> QED
        BY <2>3, <2>4, <2>5, <2>7, <2>8
<1> QED
    BY <1>2, <1>3

LEMMA ScoutAfter ==
    ASSUME Search!EvolutionSearchAssumption, NEW s \in Search!Stages, NEW t \in Search!Stages,
           t = 1 \/ Search!IsConfirmation(t), Search!IsScout(s),
           Search!Generation(s) - 1 = Search!Generation(t)
    PROVE  s = t + 1
<1>1. /\ s = 3 * Search!Generation(s) - 1 /\ Search!Generation(s) \in Int
      /\ Search!Generation(t) \in Int /\ s \in Int /\ t \in Int
    BY StageNumbers DEF Search!EvolutionSearchAssumption
<1>2. t = 3 * Search!Generation(t) + 1
    BY StageNumbers
<1> QED
    BY <1>1, <1>2

\* What a new claim takes.
LEMMA NewClaimIs ==
    ASSUME Search!EvolutionSearchAssumption, PlanInv, Search!Parent \in Programs,
           Search!ClaimStage, NEW s \in Search!Stages, ~Claimed(s), Claimed(s)'
    PROVE  s = run.stage /\ Search!Candidates(s)' = Search!Contenders
<1>1. s = run.stage
    BY DEF Search!ClaimStage, Claimed, PlanInv, PlanType, ClaimsType
<1>2. claims' = [claims EXCEPT ![s] = [arms |-> <<Original, Search!Parent>> \o Search!Contenders,
                                       status |-> "claimed"]]
    BY <1>1 DEF Search!ClaimStage, Claimed
<1>3. claims'[s].arms = <<Original, Search!Parent>> \o Search!Contenders
    BY <1>2 DEF PlanInv, PlanType, ClaimsType
<1>4. Search!Contenders \in Seq(Programs) /\ Original \in Programs
    BY ContendersAre DEF Search!ClaimStage, Search!EvolutionSearchAssumption
<1>5. PICK p, c : p = Search!Parent /\ c = Search!Contenders
    OBVIOUS
<1>6. SubSeq(claims'[s].arms, 3, Len(claims'[s].arms)) = c
    BY <1>3, <1>4, <1>5, ArmsAre
<1> QED
    BY <1>1, <1>5, <1>6 DEF Search!Candidates

\* A scout stage that is claimed takes all candidates of its generation.
LEMMA EntrantsNext ==
    ASSUME Search!EvolutionSearchAssumption, PlanInv, AskedInv, Grows,
           Search!Parent \in Programs, [Search!Next]_(Search!vars)
    PROVE  EntrantsInv'
<1>1. SUFFICES ASSUME NEW s \in Search!Stages, Search!IsScout(s), Claimed(s)',
                      NEW g, g = Search!Generation(s) - 1
               PROVE  /\ wanted'[g] # None
                      /\ reopened' # TRUE => /\ Ordered(g, Search!Candidates(s), wanted[g])'
                                             /\ Settled(g, Search!Candidates(s), wanted[g])'
    BY DEF EntrantsInv
<1>2. s > 1 /\ g \in 0 .. Generations /\ run.stage \in Search!Stages
    <2>1. s > 1 /\ Search!Generation(s) \in 1 .. Generations
        BY <1>1, StageNumbers DEF Search!EvolutionSearchAssumption
    <2> QED
        BY <1>1, <2>1 DEF Search!EvolutionSearchAssumption, PlanInv, PlanType, RunType
<1>3. reopened' # TRUE => reopened = FALSE
    BY AskedMoves DEF AskedInv, AskedType
<1>4. CASE Claimed(s)
    <2>1. PICK c, w : c = Search!Candidates(s) /\ w = wanted[g]
        OBVIOUS
    <2>2. Search!Candidates(s)' = c /\ c \in Seq(Programs)
        BY <1>4, <2>1 DEF Grows, ClaimGrows, Search!Candidates, PlanInv, StageInv
    <2>3. /\ w # None /\ (reopened = FALSE => Ordered(g, c, w) /\ Settled(g, c, w))
        BY <1>1, <1>4, <2>1 DEF AskedInv, EntrantsInv
    <2>4. wanted'[g] = w /\ w \in Nat /\ w <= MaxCandidates
        BY <1>2, <2>1, <2>3, WantedStays, WantedIs DEF AskedInv
    <2>5. ASSUME reopened' # TRUE PROVE Ordered(g, c, w)' /\ Settled(g, c, w)'
        <3>1. ~(run.place = "ask" /\ g = Search!Generation(run.stage))
            <4>1. SUFFICES ASSUME run.place = "ask", g = Search!Generation(run.stage)
                           PROVE  FALSE
                OBVIOUS
            <4>2. AskingFits /\ Ended(run.stage)
                BY <4>1, AskingIs DEF Proposing
            <4>3. s = run.stage + 1
                BY <1>1, <1>2, <4>1, <4>2, ScoutAfter DEF Ended
            <4> QED
                BY <1>3, <1>4, <2>5, <4>1, <4>2, <4>3 DEF AskingFits, Onward
        <3> QED
            BY <1>2, <1>3, <2>2, <2>3, <2>4, <2>5, <3>1, SettledStays
    <2> QED
        BY <2>2, <2>3, <2>4, <2>5
<1>5. CASE ~Claimed(s)
    <2>1. Search!ClaimStage
        BY <1>1, <1>5, LineageMoves
    <2>2. s = run.stage /\ Search!Candidates(s)' = run.found /\ run.place = "claim"
        <3>1. s = run.stage /\ Search!Candidates(s)' = Search!Contenders
            BY <1>1, <1>5, <2>1, NewClaimIs
        <3>2. Search!Contenders = run.found
            BY <1>1, <1>2, <3>1 DEF Search!Contenders
        <3>3. run.place = "claim"
            BY <2>1 DEF Search!ClaimStage, Search!At
        <3> QED
            BY <3>1, <3>2, <3>3
    <2>3. FoundFits
        BY <1>1, <2>2 DEF AskedInv, RequestInv
    <2>4. UNCHANGED <<raws, asked, wanted, registered, reopened>>
        BY <2>1 DEF Search!ClaimStage, Search!files, Search!archive, Search!kept
    <2>5. PICK c, w : c = run.found /\ w = wanted[g]
        OBVIOUS
    <2>6. /\ w # None /\ (reopened = FALSE => Ordered(g, c, w) /\ Settled(g, c, w))
        BY <1>1, <2>2, <2>3, <2>5 DEF FoundFits, Founds
    <2>7. Ordered(g, c, w)' = Ordered(g, c, w) /\ Settled(g, c, w)' = Settled(g, c, w)
        BY <2>4 DEF Ordered, Settled, Failed, AnswerOf, AttemptOf
    <2> QED
        BY <1>3, <2>2, <2>4, <2>5, <2>6, <2>7
<1> QED
    BY <1>4, <1>5

\* What was found for the requests so far holds still.
LEMMA AsksStays ==
    ASSUME Search!EvolutionSearchAssumption, PlanInv, AskedInv, Grows,
           [Search!Next]_(Search!vars), ~Search!ClaimStage,
           NEW s \in Search!Stages, Ended(s), NEW g, g = Search!Generation(s), NEW q,
           NEW f \in Seq(Programs), Asks(s, g, q, f),
           raws' = raws \/ (s = run.stage /\ q = run.request)
    PROVE  Asks(s, g, q, f)'
<1>1. g \in 0 .. Generations
    BY StageNumbers
<1>2. wanted[g] \in Nat /\ wanted[g] <= MaxCandidates /\ wanted[g] # None /\ q \in 1 .. wanted[g] + 1
    BY <1>1, WantedIs DEF AskedInv, Asks
<1>3. wanted'[g] = wanted[g]
    BY <1>1, <1>2, WantedStays
<1>4. SUFFICES ASSUME reopened' # TRUE
               PROVE  /\ Ordered(g, f, q - 1)' /\ Settled(g, f, q - 1)'
                      /\ Onward(s)' => Before(f, Search!Candidates(s + 1), q)'
    BY <1>2, <1>3 DEF Asks
<1>5. reopened = FALSE
    BY <1>4, AskedMoves DEF AskedInv, AskedType
<1>6. Ordered(g, f, q - 1) /\ Settled(g, f, q - 1)
    BY <1>5 DEF Asks
<1>7. Ordered(g, f, q - 1)' /\ Settled(g, f, q - 1)'
    <2>1. q - 1 \in Nat /\ q - 1 <= MaxCandidates /\ q \notin 1 .. q - 1
        BY <1>2 DEF Search!EvolutionSearchAssumption
    <2> QED
        BY <1>1, <1>4, <1>6, <2>1, SettledStays
<1>8. ASSUME Onward(s)' PROVE Before(f, Search!Candidates(s + 1), q)'
    <2>1. s + 1 \in Search!Stages /\ Claimed(s + 1)
        BY <1>8, LineageMoves DEF Onward
    <2>2. Search!IsScout(s + 1) /\ Search!Generation(s + 1) - 1 = g
        <3>1. Search!IsScout(s + 1) /\ Search!Generation(s + 1) = Search!Generation(s) + 1
            BY NextStageNumbers DEF Ended
        <3> QED
            BY <1>1, <3>1
    <2>3. PICK c, t : c = Search!Candidates(t) /\ t = s + 1 /\ t \in Search!Stages
        BY <2>1
    <2>4. Search!Candidates(t)' = c /\ c \in Seq(Programs)
        BY <2>1, <2>3 DEF Grows, ClaimGrows, Search!Candidates, PlanInv, StageInv
    <2>5. Ordered(g, c, wanted[g]) /\ Before(f, c, q)
        BY <1>5, <2>1, <2>2, <2>3 DEF AskedInv, EntrantsInv, Asks, Onward
    <2>6. Before(f, c, q)'
        BY <2>4, <2>5, BeforeStays
    <2> QED
        BY <2>3, <2>4, <2>6
<1> QED
    BY <1>7, <1>8

\* The candidates of the next scout stage, if it was claimed.
LEMMA EntrantsAre ==
    ASSUME Search!EvolutionSearchAssumption, PlanInv, AskedInv, reopened = FALSE,
           NEW s \in Search!Stages, Ended(s), NEW g, g = Search!Generation(s), Onward(s)
    PROVE  \E c \in Seq(Programs), w \in Nat :
             /\ c = Search!Candidates(s + 1) /\ w = wanted[g]
             /\ Ordered(g, c, w) /\ Settled(g, c, w)
<1>1. Search!IsScout(s + 1) /\ Search!Generation(s + 1) - 1 = g /\ g \in 0 .. Generations
    <2>1. Search!IsScout(s + 1) /\ Search!Generation(s + 1) = Search!Generation(s) + 1
        BY NextStageNumbers DEF Ended
    <2>2. g \in 0 .. Generations
        BY StageNumbers
    <2> QED
        BY <2>1, <2>2
<1>2. PICK t \in Search!Stages : t = s + 1 /\ Claimed(t)
    BY DEF Onward
<1>3. PICK c, w : c = Search!Candidates(t) /\ w = wanted[g]
    OBVIOUS
<1>4. w # None /\ Ordered(g, c, w) /\ Settled(g, c, w)
    BY <1>1, <1>2, <1>3 DEF AskedInv, EntrantsInv
<1>5. c \in Seq(Programs) /\ w \in Nat
    BY <1>1, <1>2, <1>3, <1>4, WantedIs DEF AskedInv, PlanInv, StageInv
<1> QED
    BY <1>2, <1>3, <1>4, <1>5

\* A later run meets at a request the candidate an earlier run met.
LEMMA AskedBefore ==
    ASSUME Search!EvolutionSearchAssumption, PlanInv, AskedInv, reopened = FALSE,
           NEW s \in Search!Stages, Ended(s), NEW g, g = Search!Generation(s), Onward(s),
           NEW q \in Nat \ {0}, q <= wanted[g]
    PROVE  Failed(g, q) \/ \E p \in Programs : registered[p].by = <<g, q, 1>>
<1>1. PICK c \in Seq(Programs), w \in Nat : w = wanted[g] /\ Settled(g, c, w)
    BY EntrantsAre
<1>2. q \in 1 .. w
    BY <1>1
<1>3. Failed(g, q) \/ \E i \in DOMAIN c : registered[c[i]].by = <<g, q, 1>>
    BY <1>1, <1>2 DEF Settled
<1>4. \A i \in DOMAIN c : c[i] \in Programs
    OBVIOUS
<1> QED
    BY <1>3, <1>4

\* A request without a candidate is passed by.
LEMMA AsksSkip ==
    ASSUME Search!EvolutionSearchAssumption, PlanInv, AskedInv,
           NEW s \in Search!Stages, Ended(s), NEW g, g = Search!Generation(s),
           NEW q \in Nat \ {0}, NEW f \in Seq(Programs), Asks(s, g, q, f),
           wanted[g] \in Nat, q <= wanted[g], Failed(g, q)
    PROVE  Asks(s, g, q + 1, f)
<1>1. (q + 1) - 1 = q /\ q + 1 \in 1 .. wanted[g] + 1
    OBVIOUS
<1>2. ASSUME reopened = FALSE PROVE Ordered(g, f, q) /\ Settled(g, f, q)
    BY <1>2, SkippedIs DEF Asks, AskedInv
<1>3. ASSUME reopened = FALSE, Onward(s) PROVE Before(f, Search!Candidates(s + 1), q + 1)
    <2>1. PICK c \in Seq(Programs), w \in Nat :
            c = Search!Candidates(s + 1) /\ Ordered(g, c, w)
        BY <1>3, EntrantsAre
    <2>2. Before(f, c, q)
        BY <1>3, <2>1 DEF Asks
    <2> QED
        BY <2>1, <2>2, SkippedBefore DEF AskedInv
<1>4. reopened \in BOOLEAN
    BY DEF AskedInv, AskedType
<1> QED
    BY <1>1, <1>2, <1>3, <1>4 DEF Asks

\* A request with a candidate adds it to those that were found.
LEMMA AsksTake ==
    ASSUME Search!EvolutionSearchAssumption, PlanInv, AskedInv,
           NEW s \in Search!Stages, Ended(s), NEW g, g = Search!Generation(s),
           NEW q \in Nat \ {0}, NEW f \in Seq(Programs), Asks(s, g, q, f),
           wanted[g] \in Nat, q <= wanted[g], NEW p \in Programs,
           registered[p].by = <<g, q, 1>>
    PROVE  Asks(s, g, q + 1, Append(f, p))
<1>1. (q + 1) - 1 = q /\ q + 1 \in 1 .. wanted[g] + 1
    OBVIOUS
<1>2. ASSUME reopened = FALSE PROVE Ordered(g, Append(f, p), q) /\ Settled(g, Append(f, p), q)
    BY <1>2, TookIs DEF Asks
<1>3. ASSUME reopened = FALSE, Onward(s)
      PROVE  Before(Append(f, p), Search!Candidates(s + 1), q + 1)
    <2>1. PICK c \in Seq(Programs), w \in Nat :
            /\ c = Search!Candidates(s + 1) /\ w = wanted[g]
            /\ Ordered(g, c, w) /\ Settled(g, c, w)
        BY <1>3, EntrantsAre
    <2>2. Before(f, c, q) /\ q <= w
        BY <1>3, <2>1 DEF Asks
    <2> QED
        BY <2>1, <2>2, TookBefore DEF AskedInv
<1>4. reopened \in BOOLEAN
    BY DEF AskedInv, AskedType
<1> QED
    BY <1>1, <1>2, <1>3, <1>4 DEF Asks

\* When all requests were asked, the run has what the next stage was claimed with.
LEMMA AsksEnd ==
    ASSUME Search!EvolutionSearchAssumption, PlanInv, AskedInv,
           NEW s \in Search!Stages, Ended(s), NEW g, g = Search!Generation(s),
           NEW q \in Nat \ {0}, NEW f \in Seq(Programs), Asks(s, g, q, f),
           wanted[g] \in Nat, q > wanted[g], s + 1 \in Search!Stages
    PROVE  Founds(s + 1, g, f)
<1>1. q - 1 = wanted[g] /\ wanted[g] # None
    BY DEF Asks
<1>2. ASSUME reopened = FALSE PROVE Ordered(g, f, wanted[g]) /\ Settled(g, f, wanted[g])
    BY <1>1, <1>2 DEF Asks
<1>3. ASSUME reopened = FALSE, Claimed(s + 1) PROVE f = Search!Candidates(s + 1)
    <2>1. Onward(s)
        BY <1>3 DEF Onward
    <2>2. PICK c \in Seq(Programs), w \in Nat :
            c = Search!Candidates(s + 1) /\ w = wanted[g] /\ Ordered(g, c, w)
        BY <1>3, <2>1, EntrantsAre
    <2>3. Before(f, c, q)
        BY <1>3, <2>1, <2>2 DEF Asks
    <2>4. \A i \in DOMAIN c : registered[c[i]].by[2] < q
        <3>1. SUFFICES ASSUME NEW i \in DOMAIN c PROVE registered[c[i]].by[2] < q
            OBVIOUS
        <3>2. PICK k \in 1 .. w : registered[c[i]].by = <<g, k, 1>>
            BY <2>2 DEF Ordered
        <3>3. registered[c[i]].by[2] = k /\ k < q
            BY <1>1, <2>2, <3>2
        <3> QED
            BY <3>3
    <2>5. DOMAIN c \subseteq DOMAIN f /\ Len(f) <= Len(c) /\ \A i \in DOMAIN f : f[i] = c[i]
        BY <2>3, <2>4 DEF Before
    <2>6. Len(f) = Len(c)
        BY <2>5
    <2> QED
        BY <2>2, <2>5, <2>6
<1>4. reopened \in BOOLEAN
    BY DEF AskedInv, AskedType
<1> QED
    BY <1>1, <1>2, <1>3, <1>4 DEF Founds

\* What was found for a scout stage holds still.
LEMMA FoundsStay ==
    ASSUME Grows, UNCHANGED <<raws, asked, wanted, reopened, claims>>,
           NEW s, NEW g, NEW f \in Seq(Programs), Founds(s, g, f)
    PROVE  Founds(s, g, f)'
<1>1. PICK w : w = wanted[g]
    OBVIOUS
<1>2. ASSUME Ordered(g, f, w), Settled(g, f, w) PROVE Ordered(g, f, w)' /\ Settled(g, f, w)'
    <2>1. Ordered(g, f, w)' /\ \A i \in DOMAIN f : registered'[f[i]].by = registered[f[i]].by
        BY <1>2, OrderedStays
    <2>2. \A k : Failed(g, k)' = Failed(g, k)
        BY DEF Failed, AnswerOf, AttemptOf
    <2> QED
        BY <1>2, <2>1, <2>2 DEF Settled
<1> QED
    BY <1>1, <1>2 DEF Founds, Claimed, Search!Candidates

\* A run that proposes after the step knows what it has found.
LEMMA NowAsks ==
    ASSUME NEW s, NEW g, NEW q, NEW f, g = Search!Generation(s), run'.stage = s,
           run'.request = q, run'.found = f, Asks(s, g, q, f)',
           \/ run'.place = "propose"
           \/ /\ run'.place \in {"answered", "blob"}
              /\ q <= wanted'[g] /\ (reopened' = TRUE \/ ~Onward(s)')
           \/ /\ run'.place = "ask"
              /\ q <= wanted'[g] /\ (reopened' = TRUE \/ ~Onward(s)')
              /\ AnswerOf(g, q)' = None /\ asked'[<<g, q, AttemptOf(g, q)'>>] = "reserved"
    PROVE  RequestInv'
<1>1. AskingFits'
    BY DEF AskingFits
<1>2. run'.place \notin {"mark", "claim"}
    OBVIOUS
<1> QED
    BY <1>1, <1>2 DEF RequestInv

\* The next request, without or with a candidate of the one before.
LEMMA SkipNext ==
    ASSUME Search!EvolutionSearchAssumption, PlanInv, AskedInv, Grows,
           [Search!Next]_(Search!vars), run.place \in Proposing, raws' = raws,
           NEW g, NEW q, g = Search!Generation(run.stage), q = run.request,
           q <= wanted[g], Failed(g, q), Search!SkipRequest
    PROVE  RequestInv'
<1>1. PICK s, f : s = run.stage /\ f = run.found
    OBVIOUS
<1>2. /\ AskingFits /\ s \in Search!Stages /\ wanted[g] \in Nat /\ q \in Nat \ {0}
      /\ f \in Seq(Programs) /\ Ended(s)
    BY <1>1, AskingIs
<1>3. Asks(s, g, q, f)
    BY <1>1, <1>2 DEF AskingFits
<1>4. Asks(s, g, q + 1, f)
    BY <1>1, <1>2, <1>3, AsksSkip
<1>5. /\ run'.place = "propose" /\ run'.stage = s /\ run'.request = q + 1 /\ run'.found = f
    BY <1>1, SkipRuns DEF PlanInv, PlanType
<1>6. ~Search!ClaimStage
    BY DEF Search!ClaimStage, Search!At, Proposing
<1>7. PICK k : k = q + 1
    OBVIOUS
<1>8. Asks(s, g, k, f)'
    BY <1>1, <1>2, <1>4, <1>6, <1>7, AsksStays
<1> QED
    BY <1>1, <1>5, <1>7, <1>8, NowAsks

\* The next request, with one candidate more.
LEMMA TakeNext ==
    ASSUME Search!EvolutionSearchAssumption, PlanInv, AskedInv, Grows,
           [Search!Next]_(Search!vars), run.place \in Proposing, raws' = raws,
           NEW g, NEW q, g = Search!Generation(run.stage), q = run.request,
           q <= wanted[g], NEW p \in Programs, registered[p].by = <<g, q, 1>>,
           run'.place = "propose", run'.stage = run.stage, run'.request = run.request + 1,
           run'.found = Append(run.found, p)
    PROVE  RequestInv'
<1>1. PICK s, f : s = run.stage /\ f = run.found
    OBVIOUS
<1>2. /\ AskingFits /\ s \in Search!Stages /\ wanted[g] \in Nat /\ q \in Nat \ {0}
      /\ f \in Seq(Programs) /\ Ended(s)
    BY <1>1, AskingIs
<1>3. Asks(s, g, q, f)
    BY <1>1, <1>2 DEF AskingFits
<1>4. Asks(s, g, q + 1, Append(f, p))
    BY <1>1, <1>2, <1>3, AsksTake
<1>5. ~Search!ClaimStage
    BY DEF Search!ClaimStage, Search!At, Proposing
<1>6. PICK k, e : k = q + 1 /\ e = Append(f, p)
    OBVIOUS
<1>7. Asks(s, g, k, e)'
    <2>1. e \in Seq(Programs)
        BY <1>2, <1>6
    <2> QED
        BY <1>1, <1>2, <1>4, <1>5, <1>6, <2>1, AsksStays
<1> QED
    BY <1>1, <1>6, <1>7, NowAsks

\* Mining begins with the first request, and nothing found.
LEMMA MineNext ==
    ASSUME Search!EvolutionSearchAssumption, PlanInv, AskedInv, Search!Mine
    PROVE  RequestInv'
<1>1. /\ RunType' /\ run'.place \in {"finished", "propose"} /\ run'.stage = run.stage
      /\ run'.request = 1 /\ run'.found = <<>>
    BY MineRuns DEF PlanInv, PlanType
<1>2. CASE run'.place = "finished"
    BY <1>2 DEF RequestInv, Proposing
<1>3. CASE run'.place = "propose"
    <2>1. PICK s, g : s = run.stage /\ g = Search!Generation(s)
        OBVIOUS
    <2>2. /\ s \in Search!Stages /\ g \in 0 .. Generations /\ Ended(s)
        <3>1. MineFits
            BY PlaceIs DEF PlanInv, Search!Mine, Search!At
        <3> QED
            BY <2>1, <3>1, StageNumbers DEF MineFits, PlanInv, PlanType, RunType
    <2>3. PICK n \in 0 .. MaxCandidates :
            wanted[g] \in {None, n} /\ wanted' = [wanted EXCEPT ![g] = n]
        BY <2>1 DEF Search!Mine
    <2>4. wanted'[g] = n /\ n # None /\ 1 \in 1 .. n + 1 /\ n \in Nat
        BY <2>2, <2>3 DEF AskedInv, AskedType, Search!EvolutionSearchAssumption
    <2>5. UNCHANGED <<raws, asked, reopened, claims, registered>>
        BY MineMoves
    <2>6. Ordered(g, <<>>, 0)' /\ Settled(g, <<>>, 0)'
        BY DEF Ordered, Settled
    <2>7. ASSUME reopened' # TRUE, Onward(s)'
          PROVE  Before(<<>>, Search!Candidates(s + 1), 1)'
        <3>1. reopened = FALSE /\ Onward(s)
            BY <2>5, <2>7 DEF AskedInv, AskedType, Onward, Claimed
        <3>2. PICK c \in Seq(Programs), w \in Nat :
                c = Search!Candidates(s + 1) /\ Ordered(g, c, w)
            BY <2>1, <2>2, <3>1, EntrantsAre
        <3>3. \A i \in DOMAIN c : ~(registered[c[i]].by[2] < 1)
            <4>1. SUFFICES ASSUME NEW i \in DOMAIN c PROVE ~(registered[c[i]].by[2] < 1)
                OBVIOUS
            <4>2. PICK k \in 1 .. w : registered[c[i]].by = <<g, k, 1>>
                BY <3>2 DEF Ordered
            <4>3. registered[c[i]].by[2] = k /\ ~(k < 1)
                BY <4>2
            <4> QED
                BY <4>3
        <3>4. Search!Candidates(s + 1)' = c
            BY <2>5, <3>2 DEF Search!Candidates
        <3>5. Before(<<>>, c, 1)'
            BY <2>5, <3>3 DEF Before
        <3> QED
            BY <3>4, <3>5
    <2>8. PICK f : f = <<>>
        OBVIOUS
    <2>9. 1 - 1 = 0
        OBVIOUS
    <2>10. Asks(s, g, 1, f)'
        BY <2>4, <2>6, <2>7, <2>8, <2>9 DEF Asks
    <2> QED
        BY <1>1, <1>3, <2>1, <2>8, <2>10, NowAsks
<1> QED
    BY <1>1, <1>2, <1>3

\* After the last request the run goes to the scout stage with all it found.
LEMMA FinishNext ==
    ASSUME Search!EvolutionSearchAssumption, PlanInv, AskedInv, Grows,
           Search!NextGeneration
    PROVE  RequestInv'
<1>1. UNCHANGED <<raws, asked, wanted, reopened, claims>> /\ run.place = "propose"
    BY DEF Search!NextGeneration, Search!At, Search!controller, Search!files, Search!kept
<1>2. PICK s, g, q, f : /\ s = run.stage /\ g = Search!Generation(s) /\ q = run.request
                        /\ f = run.found
    OBVIOUS
<1>3. /\ AskingFits /\ s \in Search!Stages /\ wanted[g] \in Nat /\ q \in Nat \ {0}
      /\ f \in Seq(Programs) /\ Ended(s) /\ g \in 0 .. Generations
    BY <1>1, <1>2, AskingIs DEF Proposing
<1>4. CASE Search!To("finished")
    <2>1. run'.place = "finished"
        BY <1>4, ToRuns DEF PlanInv, PlanType
    <2> QED
        BY <2>1 DEF RequestInv, Proposing
<1>5. CASE /\ s + 1 \in Search!Stages
           /\ run' = [run EXCEPT !.stage = @ + 1, !.place = "mark"]
    <2>1. run'.place = "mark" /\ run'.stage = s + 1 /\ run'.found = f
        BY <1>2, <1>5, StageRuns DEF PlanInv, PlanType
    <2>2. q > wanted[g]
        BY <1>2 DEF Search!NextGeneration
    <2>3. Founds(s + 1, g, f)
        BY <1>2, <1>3, <1>5, <2>2, AsksEnd DEF AskingFits
    <2>4. PICK t : t = s + 1
        OBVIOUS
    <2>5. Founds(t, g, f)'
        BY <1>1, <1>3, <2>3, <2>4, FoundsStay
    <2>6. Search!Generation(t) - 1 = g
        <3>1. Search!Generation(s + 1) = g + 1
            BY <1>2, <1>3, NextStageNumbers DEF Ended
        <3> QED
            BY <1>3, <2>4, <3>1
    <2>7. FoundFits'
        BY <2>1, <2>4, <2>5, <2>6 DEF FoundFits
    <2> QED
        BY <2>1, <2>7 DEF RequestInv, Proposing
<1> QED
    BY <1>2, <1>4, <1>5 DEF Search!NextGeneration

\* Marking leaves the candidates of the scout stage.
LEMMA MarkNext ==
    ASSUME Search!EvolutionSearchAssumption, PlanInv, AskedInv, Grows,
           Search!MarkCandidates
    PROVE  RequestInv'
<1>1. UNCHANGED <<raws, asked, wanted, reopened, claims>> /\ run.place = "mark"
    BY DEF Search!MarkCandidates, Search!At, Search!controller, Search!files, Search!kept
<1>2. PICK s, g, f : s = run.stage /\ g = Search!Generation(s) - 1 /\ f = run.found
    OBVIOUS
<1>3. RunType /\ f \in Seq(Programs) /\ Search!IsScout(s)
    BY <1>1, <1>2, PlaceIs DEF PlanInv, PlanType, RunType, MarkFits
<1>4. Founds(s, g, f)
    BY <1>1, <1>2, <1>3 DEF AskedInv, RequestInv, FoundFits
<1>5. Founds(s, g, f)'
    BY <1>1, <1>3, <1>4, FoundsStay
<1>6. run'.place = "claim" /\ run'.stage = s /\ run'.found = f
    BY <1>2, <1>3, ToRuns DEF Search!MarkCandidates
<1>7. FoundFits'
    BY <1>2, <1>5, <1>6 DEF FoundFits
<1> QED
    BY <1>6, <1>7 DEF RequestInv, Proposing

\* A proposer call is reserved where the request has no answer yet.
LEMMA AskNext ==
    ASSUME Search!EvolutionSearchAssumption, PlanInv, AskedInv, Grows,
           [Search!Next]_(Search!vars), Search!Ask
    PROVE  RequestInv'
<1>1. /\ UNCHANGED <<raws, wanted, reopened, claims, registered>>
      /\ run.place = "propose" /\ run.place \in Proposing /\ ~Search!ClaimStage
    BY DEF Search!Ask, Search!ClaimStage, Search!At, Search!files, Search!archive, Search!kept,
           Proposing
<1>2. PICK s, g, q, f : /\ s = run.stage /\ g = Search!Generation(s) /\ q = run.request
                        /\ f = run.found
    OBVIOUS
<1>3. /\ AskingFits /\ s \in Search!Stages /\ wanted[g] \in Nat /\ q \in Nat \ {0}
      /\ f \in Seq(Programs) /\ Ended(s) /\ g \in 0 .. Generations
      /\ q <= wanted[g] => q \in 1 .. MaxCandidates
    BY <1>1, <1>2, AskingIs
<1>4. PICK r : r = <<g, q, AttemptOf(g, q)>>
    OBVIOUS
<1>5. /\ q <= wanted[g] /\ AnswerOf(g, q) = None
      /\ \/ asked[r] \in {"reserved", "completed"} /\ Search!SkipRequest
         \/ /\ asked[r] \in {"none", "retracted"} /\ asked' = [asked EXCEPT ![r] = "reserved"]
            /\ Search!To("ask")
         \/ Search!Refuse("budget")
    BY <1>2, <1>4, AnswerIs DEF Search!Ask
<1>6. CASE asked[r] \in {"reserved", "completed"} /\ Search!SkipRequest
    <2>1. Failed(g, q)
        BY <1>4, <1>5, <1>6 DEF Failed
    <2> QED
        BY <1>1, <1>2, <1>5, <1>6, <2>1, SkipNext
<1>7. CASE /\ asked[r] \in {"none", "retracted"} /\ asked' = [asked EXCEPT ![r] = "reserved"]
           /\ Search!To("ask")
    <2>1. /\ run'.place = "ask" /\ run'.stage = s /\ run'.request = q /\ run'.found = f
        BY <1>2, <1>7, ToRuns DEF PlanInv, PlanType
    <2>2. Asks(s, g, q, f)'
        BY <1>1, <1>2, <1>3, AsksStays DEF AskingFits
    <2>3. reopened' = TRUE \/ ~Onward(s)'
        <3>1. SUFFICES ASSUME reopened' # TRUE, Onward(s)' PROVE FALSE
            OBVIOUS
        <3>2. reopened = FALSE /\ Onward(s)
            BY <1>1, <3>1 DEF AskedInv, AskedType, Onward, Claimed
        <3>3. ~Failed(g, q)
            <4>1. None # "invalid"
                BY DEF Search!EvolutionSearchAssumption
            <4> QED
                BY <1>4, <1>5, <1>7, <4>1 DEF Failed
        <3>4. PICK p \in Programs : registered[p].by = <<g, q, 1>>
            BY <1>2, <1>3, <1>5, <3>2, <3>3, AskedBefore
        <3>5. AnswerOf(g, q) = p /\ p # None
            BY <3>4, CandidateAnswers DEF AskedInv, Search!EvolutionSearchAssumption
        <3> QED
            BY <1>5, <3>5
    <2>4. AnswerOf(g, q)' = None /\ AttemptOf(g, q)' = AttemptOf(g, q)
        BY <1>1, <1>5 DEF AnswerOf, AttemptOf
    <2>5. asked'[r] = "reserved"
        <3>1. r \in Search!Requests
            BY <1>3, <1>4, <1>5, RequestsAre DEF AskedInv
        <3> QED
            BY <1>7, <3>1 DEF AskedInv, AskedType
    <2> QED
        BY <1>1, <1>2, <1>4, <1>5, <2>1, <2>2, <2>3, <2>4, <2>5, NowAsks
<1>8. CASE Search!Refuse("budget")
    <2>1. run'.place = "refused"
        BY <1>8, RefuseRuns
    <2> QED
        BY <2>1 DEF RequestInv, Proposing
<1> QED
    BY <1>5, <1>6, <1>7, <1>8

\* An answer is written, is invalid, or its proposer call is completed.
LEMMA AnswerNext ==
    ASSUME Search!EvolutionSearchAssumption, PlanInv, AskedInv, Grows,
           [Search!Next]_(Search!vars),
           Search!WriteAnswer \/ Search!AnswerIsInvalid \/ Search!CompleteAsk
    PROVE  RequestInv'
<1>1. /\ UNCHANGED <<wanted, reopened, claims>>
      /\ \/ run.place = "ask" /\ Search!To("answered")
         \/ run.place = "answered" /\ Search!To("propose")
    BY AnswerMoves, AskMoves DEF Search!CompleteAsk, Search!At
<1>2. run.place \in Proposing /\ ~Search!ClaimStage
    BY <1>1 DEF Search!ClaimStage, Search!At, Proposing
<1>3. PICK s, g, q, f : /\ s = run.stage /\ g = Search!Generation(s) /\ q = run.request
                        /\ f = run.found
    OBVIOUS
<1>4. /\ AskingFits /\ s \in Search!Stages /\ f \in Seq(Programs) /\ Ended(s)
    BY <1>2, <1>3, AskingIs
<1>5. Asks(s, g, q, f)'
    BY <1>2, <1>3, <1>4, AsksStays DEF AskingFits
<1>6. /\ run'.place \in {"answered", "propose"} /\ run'.stage = s /\ run'.request = q
      /\ run'.found = f
    BY <1>1, <1>3, ToRuns DEF PlanInv, PlanType
<1>7. q <= wanted[g] /\ (reopened = TRUE \/ ~Onward(s))
    BY <1>1, <1>3, <1>4 DEF AskingFits, AskedInv, AskedType
<1>8. q <= wanted'[g] /\ (reopened' = TRUE \/ ~Onward(s)')
    BY <1>1, <1>7 DEF Onward, Claimed
<1> QED
    BY <1>3, <1>5, <1>6, <1>8, NowAsks

\* A proposer call without an answer has failed.
LEMMA FailNext ==
    ASSUME Search!EvolutionSearchAssumption, PlanInv, AskedInv, Grows,
           [Search!Next]_(Search!vars), Search!FailRequest \/ Search!AskFails
    PROVE  RequestInv'
<1>1. PICK g, q : g = Search!Generation(run.stage) /\ q = run.request
    OBVIOUS
<1>2. /\ raws' = raws /\ Search!SkipRequest /\ run.place \in Proposing
      /\ run.place \in {"propose", "ask"}
      /\ Search!FailRequest => run.place = "propose"
      /\ Search!AskFails => run.place = "ask"
    BY DEF Search!FailRequest, Search!AskFails, Search!At, Search!files, Proposing
<1>3. AskingFits
    BY <1>1, <1>2, AskingIs
<1>4. CASE Search!FailRequest
    <2>1. q <= wanted[g] /\ AnswerOf(g, q) = "invalid"
        BY <1>1, <1>4, AnswerIs DEF Search!FailRequest
    <2>2. Failed(g, q)
        BY <2>1 DEF Failed
    <2> QED
        BY <1>1, <1>2, <2>1, <2>2, SkipNext
<1>5. CASE Search!AskFails
    <2>1. q <= wanted[g] /\ Failed(g, q)
        BY <1>1, <1>2, <1>3, <1>5 DEF AskingFits, Failed
    <2> QED
        BY <1>1, <1>2, <2>1, SkipNext
<1> QED
    BY <1>4, <1>5

\* A registered candidate is taken, a new one waits for its blob.
LEMMA RegisterNext ==
    ASSUME Search!EvolutionSearchAssumption, PlanInv, AskedInv, Grows,
           [Search!Next]_(Search!vars), Search!Register
    PROVE  RequestInv'
<1>1. /\ UNCHANGED <<raws, wanted, reopened, claims>>
      /\ run.place = "propose" /\ run.place \in Proposing /\ ~Search!ClaimStage
    BY DEF Search!Register, Search!ClaimStage, Search!At, Search!controller, Search!files,
           Search!kept, Proposing
<1>2. PICK s, g, q, f : /\ s = run.stage /\ g = Search!Generation(s) /\ q = run.request
                        /\ f = run.found
    OBVIOUS
<1>3. /\ AskingFits /\ s \in Search!Stages /\ wanted[g] \in Nat /\ q \in Nat \ {0}
      /\ f \in Seq(Programs) /\ Ended(s)
    BY <1>1, <1>2, AskingIs
<1>4. PICK p : p = AnswerOf(g, q)
    OBVIOUS
<1>5. /\ q <= wanted[g] /\ p \in Programs /\ p = Search!Answer
      /\ Search!Request(1) = <<g, q, 1>>
    BY <1>2, <1>4, AnswerIs DEF Search!Register
<1>6. \/ registered[p] = Search!Unknown /\ Search!To("blob")
      \/ /\ registered[p].by = <<g, q, 1>>
         /\ run' = [run EXCEPT !.request = @ + 1, !.found = Append(@, p)]
      \/ Search!Refuse("immutable candidate")
    BY <1>5 DEF Search!Register
<1>7. CASE registered[p] = Search!Unknown /\ Search!To("blob")
    <2>1. /\ run'.place = "blob" /\ run'.stage = s /\ run'.request = q /\ run'.found = f
        BY <1>2, <1>7, ToRuns DEF PlanInv, PlanType
    <2>2. Asks(s, g, q, f)'
        BY <1>1, <1>2, <1>3, AsksStays DEF AskingFits
    <2>3. reopened' = TRUE \/ ~Onward(s)'
        <3>1. SUFFICES ASSUME reopened' # TRUE, Onward(s)' PROVE FALSE
            OBVIOUS
        <3>2. reopened = FALSE /\ Onward(s)
            BY <1>1, <3>1 DEF AskedInv, AskedType, Onward, Claimed
        <3>3. ~Failed(g, q)
            BY <1>4, <1>5 DEF Failed, Search!EvolutionSearchAssumption
        <3>4. PICK c \in Programs : registered[c].by = <<g, q, 1>>
            BY <1>2, <1>3, <1>5, <3>2, <3>3, AskedBefore
        <3>5. c = p
            BY <1>4, <3>4, CandidateAnswers DEF AskedInv
        <3>6. registered[p].by = <<>>
            BY <1>7 DEF Search!Unknown
        <3>7. registered[p].by = <<g, q, 1>>
            BY <3>4, <3>5
        <3> QED
            BY <3>6, <3>7
    <2>4. q <= wanted'[g]
        BY <1>1, <1>5
    <2> QED
        BY <1>2, <2>1, <2>2, <2>3, <2>4, NowAsks
<1>8. CASE /\ registered[p].by = <<g, q, 1>>
           /\ run' = [run EXCEPT !.request = @ + 1, !.found = Append(@, p)]
    <2>1. run' = [run EXCEPT !.request = @ + 1, !.found = Append(@, p), !.place = "propose"]
        BY <1>1, <1>8 DEF PlanInv, PlanType, RunType, IsRun
    <2>2. /\ run'.place = "propose" /\ run'.stage = run.stage
          /\ run'.request = run.request + 1 /\ run'.found = Append(run.found, p)
        BY <1>5, <2>1, FoundRuns DEF PlanInv, PlanType
    <2> QED
        BY <1>1, <1>2, <1>5, <1>8, <2>2, TakeNext
<1>9. CASE Search!Refuse("immutable candidate")
    <2>1. run'.place = "refused"
        BY <1>9, RefuseRuns
    <2> QED
        BY <2>1 DEF RequestInv, Proposing
<1> QED
    BY <1>6, <1>7, <1>8, <1>9

\* A candidate with its blob is taken.
LEMMA BlobNext ==
    ASSUME Search!EvolutionSearchAssumption, PlanInv, AskedInv, Grows,
           [Search!Next]_(Search!vars), Search!WriteBlob
    PROVE  RequestInv'
<1>1. raws' = raws /\ run.place = "blob" /\ run.place \in Proposing
    BY DEF Search!WriteBlob, Search!At, Search!files, Proposing
<1>2. PICK g, q, p : /\ g = Search!Generation(run.stage) /\ q = run.request
                     /\ p = Search!Answer
    OBVIOUS
<1>3. p \in Programs /\ registered[p].by = <<g, q, 1>>
    <2>1. BlobFits
        BY <1>1, PlaceIs, RunningIs DEF PlanInv
    <2> QED
        BY <1>1, <1>2, <2>1, AnswerIs DEF BlobFits
<1>4. q <= wanted[g]
    BY <1>1, <1>2, AskingIs DEF AskingFits
<1>5. /\ run'.place = "propose" /\ run'.stage = run.stage
      /\ run'.request = run.request + 1 /\ run'.found = Append(run.found, p)
    BY <1>2, <1>3, FoundRuns DEF Search!WriteBlob, PlanInv, PlanType
<1> QED
    BY <1>1, <1>2, <1>3, <1>4, <1>5, TakeNext

LEMMA QuietNext ==
    ASSUME Search!EvolutionSearchAssumption, PlanInv, AskedInv, Quiet
    PROVE  RequestInv'
<1>1. UNCHANGED <<claims, registered, raws, run, wanted>>
    BY QuietLeaves
<1>2. CASE UNCHANGED <<asked, reopened>>
    <2>1. /\ \A g, k : /\ AnswerOf(g, k)' = AnswerOf(g, k) /\ AttemptOf(g, k)' = AttemptOf(g, k)
                       /\ Failed(g, k)' = Failed(g, k)
          /\ \A s : Onward(s)' = Onward(s) /\ Search!Candidates(s)' = Search!Candidates(s)
                    /\ Claimed(s)' = Claimed(s)
        <3>1. ASSUME NEW g, NEW k
              PROVE  AnswerOf(g, k)' = AnswerOf(g, k) /\ AttemptOf(g, k)' = AttemptOf(g, k)
            BY <1>1 DEF AnswerOf, AttemptOf
        <3>2. ASSUME NEW g, NEW k PROVE Failed(g, k)' = Failed(g, k)
            BY <1>2, <3>1 DEF Failed
        <3>3. ASSUME NEW s
              PROVE  /\ Onward(s)' = Onward(s) /\ Claimed(s)' = Claimed(s)
                     /\ Search!Candidates(s)' = Search!Candidates(s)
            BY <1>1 DEF Onward, Claimed, Search!Candidates
        <3> QED
            BY <3>1, <3>2, <3>3
    <2>2. \A g, f, n : Ordered(g, f, n)' = Ordered(g, f, n) /\ Settled(g, f, n)' = Settled(g, f, n)
        <3>1. \A g, f, n : Ordered(g, f, n)' = Ordered(g, f, n)
            BY <1>1 DEF Ordered
        <3>2. \A g, f, n : Settled(g, f, n)' = Settled(g, f, n)
            BY <1>1, <2>1 DEF Settled
        <3> QED
            BY <3>1, <3>2
    <2>3. \A f, c, n : Before(f, c, n)' = Before(f, c, n)
        BY <1>1 DEF Before
    <2>4. PICK s, q, f : s = run.stage /\ q = run.request /\ f = run.found
        OBVIOUS
    <2>5. PICK g, w : g = Search!Generation(s) /\ w = wanted[g]
        OBVIOUS
    <2>6. ASSUME Asks(s, g, q, f) PROVE Asks(s, g, q, f)'
        <3>1. PICK c : c = Search!Candidates(s + 1)
            OBVIOUS
        <3> QED
            BY <1>1, <1>2, <2>1, <2>2, <2>3, <2>5, <2>6, <3>1 DEF Asks
    <2>7. AskingFits => AskingFits'
        BY <1>1, <1>2, <2>1, <2>4, <2>5, <2>6 DEF AskingFits
    <2>8. FoundFits => FoundFits'
        <3>1. PICK h, v, c : h = g - 1 /\ v = wanted[h] /\ c = Search!Candidates(s)
            OBVIOUS
        <3>2. Founds(s, h, f) => Founds(s, h, f)'
            BY <1>1, <1>2, <2>1, <2>2, <3>1 DEF Founds
        <3> QED
            BY <1>1, <2>4, <2>5, <3>1, <3>2 DEF FoundFits
    <2> QED
        BY <1>1, <2>7, <2>8 DEF AskedInv, RequestInv
<1>3. CASE ~Search!Running
    <2>1. run'.place \notin Proposing \cup {"mark", "claim"}
        BY <1>1, <1>3 DEF Search!Running, Proposing
    <2> QED
        BY <2>1 DEF RequestInv
<1> QED
    BY <1>2, <1>3, QuietAsks

\* The other steps do not lead to a scout stage or to a proposal.
LEMMA ElseNext ==
    ASSUME Search!EvolutionSearchAssumption, PlanInv, [Search!Next]_(Search!vars),
           \/ Search!Start \/ Search!Kill \/ Search!ClaimStage \/ Search!Join
           \/ Search!CompleteStage \/ Search!Eliminate \/ Search!Select
           \/ Search!RecordRollback \/ Search!AdvanceParent \/ Search!RecordDecision
    PROVE  RequestInv'
<1>1. RunType /\ Moves
    BY RunMoves DEF PlanInv, PlanType
<1>2. SUFFICES /\ run'.place \notin Proposing \cup {"mark"}
               /\ run'.place = "claim" => ~Search!IsScout(run'.stage)
    BY DEF RequestInv
<1>3. CASE Search!ClaimStage
    <2>1. Search!To("arms") \/ \E why : Search!Refuse(why)
        BY <1>3 DEF Search!ClaimStage
    <2>2. run'.place \in {"arms", "refused"}
        BY <1>1, <2>1, ToRuns, RefuseRuns
    <2> QED
        BY <2>2 DEF Proposing
<1>4. CASE Search!Start \/ Search!Kill
    <2>1. (\E why : Search!Refuse(why)) \/ run' = [Search!Idle EXCEPT !.place = "claim"]
          \/ run' = Search!Idle
        BY <1>4 DEF Search!Start, Search!Kill
    <2>2. run'.place \in {"refused", "claim", "stopped"} /\ (run'.place = "claim" => run'.stage = 1)
        BY <2>1, RefuseRuns DEF Search!Idle
    <2>3. ~Search!IsScout(1)
        BY DEF Search!IsScout
    <2> QED
        BY <2>2, <2>3 DEF Proposing
<1>5. CASE run.place \in {"arms", "complete", "eliminate", "select", "rollback", "advance", "decide"}
    <2>1. CASE run'.place = "claim" /\ run'.stage = run.stage + 1 /\ run.place = "eliminate"
        <3>1. ~Search!IsScout(run.stage + 1)
            BY <1>1, <2>1, PlaceIs, NextStageNumbers DEF EliminateFits, RunType, PlanInv
        <3> QED
            BY <2>1, <3>1 DEF Proposing
    <2>2. CASE run'.place = "claim" /\ run'.stage = 1
        <3>1. ~Search!IsScout(1)
            BY DEF Search!IsScout
        <3> QED
            BY <2>2, <3>1 DEF Proposing
    <2>3. CASE ~Search!Running'
        BY <2>3 DEF Search!Running, Proposing
    <2>4. CASE run'.place \in {"arms", "complete", "eliminate", "select", "rollback", "advance",
                               "decide", "mine"}
        BY <2>4 DEF Proposing
    <2> QED
        BY <1>1, <1>5, <2>1, <2>2, <2>3, <2>4 DEF Moves, Goes, Proposing
<1>6. \/ Search!Start \/ Search!Kill \/ Search!ClaimStage
      \/ run.place \in {"arms", "complete", "eliminate", "select", "rollback", "advance", "decide"}
    BY DEF Search!Join, Search!CompleteStage, Search!Eliminate, Search!Select,
           Search!RecordRollback, Search!AdvanceParent, Search!RecordDecision, Search!At
<1> QED
    BY <1>3, <1>4, <1>5, <1>6

\* Every step keeps the candidates those of the requests.
LEMMA ProposalNext ==
    ASSUME Search!EvolutionSearchAssumption, PlanInv, AskedInv, Grows,
           Search!Parent \in Programs, [Search!Next]_(Search!vars)
    PROVE  AskedInv'
<1>1. RequestInv'
    <2>1. CASE Quiet
        BY <2>1, QuietNext
    <2>2. CASE \/ Search!Start \/ Search!Kill \/ Search!ClaimStage \/ Search!Join
               \/ Search!CompleteStage \/ Search!Eliminate \/ Search!Select
               \/ Search!RecordRollback \/ Search!AdvanceParent \/ Search!RecordDecision
        BY <2>2, ElseNext
    <2>3. CASE Search!MarkCandidates \/ Search!NextGeneration \/ Search!Mine \/ Search!Ask
        BY <2>3, MarkNext, FinishNext, MineNext, AskNext
    <2>4. CASE Search!WriteAnswer \/ Search!AnswerIsInvalid \/ Search!CompleteAsk
        BY <2>4, AnswerNext
    <2>5. CASE Search!FailRequest \/ Search!AskFails
        BY <2>5, FailNext
    <2>6. CASE Search!Register \/ Search!WriteBlob
        BY <2>6, RegisterNext, BlobNext
    <2> QED
        BY <2>1, <2>2, <2>3, <2>4, <2>5, <2>6 DEF Quiet, Search!Next, Search!Step
<1> QED
    BY <1>1, AskedTypeNext, AnsweredNext, EntrantsNext DEF AskedInv

-----------------------------------------------------------------------------
(* The search.                                                             *)

SearchInv ==
    PlanInv /\ LineageInv /\ ReasonInv /\ AskedInv /\ Search!ResumeIsConsistent

LEMMA SearchInit ==
    ASSUME Search!EvolutionSearchAssumption, Search!Init
    PROVE  SearchInv
<1>1. /\ \A p \in Programs : registered[p].by = <<>> /\ registered[p].state = "none"
      /\ run.place = "stopped" /\ run.why = "none" /\ reopened = FALSE
      /\ \A s \in Search!Stages : ~Claimed(s)
    BY DEF Search!Init, Search!Idle, Search!Unknown, Claimed
<1>2. PlanInv /\ LineageInv
    BY PlanInit, LineageInit
<1>3. ReasonInv
    BY <1>1 DEF ReasonInv
<1>4. AskedType
    BY DEF Search!Init, AskedType
<1>5. AnsweredInv /\ EntrantsInv /\ RequestInv
    BY <1>1 DEF AnsweredInv, EntrantsInv, RequestInv, Proposing
<1>6. Search!ResumeIsConsistent
    BY <1>1 DEF Search!ResumeIsConsistent
<1> QED
    BY <1>2, <1>3, <1>4, <1>5, <1>6 DEF SearchInv, AskedInv

\* A stage is asked for with the candidates it was claimed with.
LEMMA ClaimAgrees ==
    ASSUME Search!EvolutionSearchAssumption, PlanInv, AskedInv, Search!ClaimStage,
           Claimed(run.stage), reopened = FALSE
    PROVE  Search!Candidates(run.stage) = Search!Contenders
<1>1. run.place = "claim" /\ run.stage \in Search!Stages
    BY DEF Search!ClaimStage, Search!At, PlanInv, PlanType, RunType
<1>2. CASE run.stage = 1
    BY <1>1, <1>2 DEF Search!Contenders, PlanInv, StageInv
<1>3. CASE run.stage # 1 /\ Search!IsScout(run.stage)
    BY <1>1, <1>3 DEF Search!Contenders, AskedInv, RequestInv, FoundFits, Founds
<1>4. CASE run.stage # 1 /\ ~Search!IsScout(run.stage)
    <2>1. run.stage > 1
        BY <1>1, <1>4, StageNumbers
    <2> QED
        BY <1>1, <1>4, <2>1 DEF Search!Contenders, PlanInv, StageInv
<1> QED
    BY <1>2, <1>3, <1>4

\* Every step of the search keeps the invariant.
LEMMA SearchNext ==
    ASSUME Search!EvolutionSearchAssumption, SearchInv, [Search!Next]_(Search!vars)
    PROVE  SearchInv'
<1>1. PlanInv /\ LineageInv /\ ReasonInv /\ AskedInv /\ Search!ResumeIsConsistent
    BY DEF SearchInv
<1>2. PlanInv' /\ Grows /\ LineageInv'
    BY <1>1, LineageNext
<1>3. ReasonInv'
    BY <1>1, <1>2, ReasonNext
<1>4. Search!Parent \in Programs
    BY <1>1, LastIs DEF LineageInv
<1>5. AskedInv'
    BY <1>1, <1>2, <1>4, ProposalNext
<1>6. Search!ResumeIsConsistent'
    <2>1. reopened = TRUE => reopened' = TRUE
        BY <1>1, AskedMoves
    <2>2. reopened \in BOOLEAN /\ reopened' \in BOOLEAN
        BY <1>1, <1>5 DEF AskedInv, AskedType
    <2>3. CASE run'.why = run.why
        BY <1>1, <2>1, <2>2, <2>3 DEF Search!ResumeIsConsistent
    <2>4. CASE run'.why \notin Disagreements \cup {"claim differs"}
        BY <2>4 DEF Search!ResumeIsConsistent, Disagreements
    <2>5. CASE /\ Search!ClaimStage /\ Claimed(run.stage)
               /\ Search!Candidates(run.stage) # Search!Contenders
        <3>1. reopened = TRUE
            BY <1>1, <2>2, <2>5, ClaimAgrees
        <3>2. Search!Refuse("claim differs")
            BY <2>5 DEF Search!ClaimStage, Claimed, Search!Candidates
        <3>3. run'.why = "claim differs"
            BY <3>2, RefuseRuns
        <3> QED
            BY <2>1, <3>1, <3>3 DEF Search!ResumeIsConsistent
    <2> QED
        BY <1>1, <2>3, <2>4, <2>5, WhyMoves
<1> QED
    BY <1>2, <1>3, <1>5, <1>6 DEF SearchInv

LEMMA SearchEarned ==
    ASSUME Search!EvolutionSearchAssumption, SearchInv
    PROVE  Search!LineageIsEarned /\ Search!ResumeIsConsistent
BY LineageEarned DEF SearchInv

-----------------------------------------------------------------------------
(* Continuous A/B.                                                         *)

\* Every set of numbers that is not empty has a least element, which Min names.
LEMMA MinIsLeast ==
    ASSUME NEW S \in SUBSET Nat, S # {}
    PROVE  AB!Min(S) \in S
<1>1. PICK x \in S : \A y \in S : ~(<<y, x>> \in OpToRel(<, Nat))
    BY NatLessThanWellFounded, WFMin
<1>2. \A y \in S : <<y, x>> \in OpToRel(<, Nat) <=> y < x
    BY DEF OpToRel
<1>3. \A y \in S : ~(y < x)
    BY <1>1, <1>2, Zenon
<1>4. \A y \in S : x <= y
    BY <1>3
<1> QED
    BY <1>4 DEF AB!Min

\* Cardinality and IsFiniteSet are instantiated with the service.
LEMMA SameFinite == \A S : AB!IsFiniteSet(S) = IsFiniteSet(S)
BY DEF AB!IsFiniteSet, IsFiniteSet

LEMMA SameSize == \A S : AB!Cardinality(S) = Cardinality(S)
BY SameFinite DEF AB!Cardinality, Cardinality

LEMMA RangeSize ==
    ASSUME NEW a \in Int, NEW b \in Int
    PROVE  /\ AB!IsFiniteSet(a .. b)
           /\ AB!Cardinality(a .. b) = IF a > b THEN 0 ELSE b - a + 1
BY FS_Interval, SameFinite, SameSize

LEMMA FinitePart ==
    ASSUME NEW S, AB!IsFiniteSet(S), NEW T, T \subseteq S
    PROVE  AB!IsFiniteSet(T) /\ AB!Cardinality(T) \in Nat
BY FS_Subset, FS_CardinalityType, SameFinite, SameSize

LEMMA OneMore ==
    ASSUME NEW S, AB!IsFiniteSet(S), NEW x, x \notin S
    PROVE  AB!Cardinality(S \cup {x}) = AB!Cardinality(S) + 1
BY FS_AddElement, SameFinite, SameSize

\* Two sets differ by what each has alone.
LEMMA Balance ==
    ASSUME NEW S, AB!IsFiniteSet(S), NEW T, AB!IsFiniteSet(T)
    PROVE  AB!Cardinality(S) - AB!Cardinality(T)
             = AB!Cardinality(S \ T) - AB!Cardinality(T \ S)
<1>1. S \cap T = T \cap S
    OBVIOUS
<1>0. IsFiniteSet(S) /\ IsFiniteSet(T)
    BY SameFinite
<1>2. /\ Cardinality(S \ T) = Cardinality(S) - Cardinality(S \cap T)
      /\ Cardinality(T \ S) = Cardinality(T) - Cardinality(S \cap T)
    <2>1. Cardinality(S \ T) = Cardinality(S) - Cardinality(S \cap T)
        BY <1>0, FS_Difference
    <2>2. Cardinality(T \ S) = Cardinality(T) - Cardinality(T \cap S)
        BY <1>0, FS_Difference
    <2> QED
        BY <1>1, <2>1, <2>2
<1>3. Cardinality(S) \in Nat /\ Cardinality(T) \in Nat /\ Cardinality(S \cap T) \in Nat
    <2>1. IsFiniteSet(S \cap T)
        BY FS_Subset, SameFinite
    <2> QED
        BY <2>1, FS_CardinalityType, SameFinite
<1> QED
    BY <1>2, <1>3, SameSize

-----------------------------------------------------------------------------

Phases == {"planned", "frozen", "frozen with evidence", "evaluated", "retired"}
Measures == UNION {Pairs[partition] : partition \in AB!Partitions}
RoundType == [task : 1 .. AB!Rounds, evolved : Agents, phase : Phases,
              pair : Measures \cup {None}]
ProposalType == [at : Nat, parent : Agents, candidate : Agents,
                 status : {"proposed", "promoted", "rejected", "rolled_back"}]
OpType == [call : {"none", "plan", "propose", "decide", "record"},
           place : {"none", "reconcile", "act", "claim", "results", "retire task",
                    "retire round"},
           round : Nat, agent : Agents \cup {None}]

ABType ==
    /\ pool \in [1 .. AB!Rounds -> {"unopened", "opened", "retired"}]
    /\ rounds \in Seq(RoundType) /\ proposals \in Seq(ProposalType)
    /\ active \in Agents /\ op \in OpType

\* A round is of the partition of its task, and measures a task of its own.
RoundInv ==
    /\ \A i \in DOMAIN rounds : AB!Partition(rounds[i].task) = AB!Partition(i)
    /\ \A i, j \in DOMAIN rounds : rounds[i].task = rounds[j].task => i = j
    /\ \A i \in DOMAIN rounds :
         rounds[i].phase \in {"evaluated", "retired"} => rounds[i].pair # None
    /\ \A i \in AB!Retired : AB!TaskIs(i, "retired")

\* What the running call has established.
CallInv ==
    /\ op.place = "act" =>
         AB!Unsettled = {} /\ (op.call \in {"plan", "propose"} => op.agent \in Agents)
    /\ op.place = "reconcile" /\ op.call \in {"plan", "propose"} => op.agent \in Agents
    /\ op.place = "claim" =>
         op.round \in DOMAIN rounds /\ AB!TaskIs(op.round, "unopened")
    /\ op.place = "results" =>
         /\ op.round \in DOMAIN rounds
         /\ rounds[op.round].phase \in {"frozen", "frozen with evidence"}
    /\ op.place \in {"retire task", "retire round"} =>
         op.round \in DOMAIN rounds /\ rounds[op.round].phase = "evaluated"
    /\ op.place = "retire round" => AB!TaskIs(op.round, "retired")

\* The block of a proposal: the rounds that follow it.
Own(p) == proposals[p].at + 1 .. proposals[p].at + Block

\* What a block of pairs shows when its candidate is better.
Won(pairs) ==
    LET resolved(arm, family) ==
            AB!Cardinality({i \in DOMAIN pairs : pairs[i][arm] /\ pairs[i].family \in family})
        families == {pairs[i].family : i \in DOMAIN pairs}
    IN /\ resolved("evolved", families) > resolved("baseline", families)
       /\ \A f \in families : resolved("evolved", {f}) >= resolved("baseline", {f})

Earned(p) ==
    /\ Own(p) \subseteq AB!Retired
    /\ \A i \in Own(p) : rounds[i].evolved = proposals[p].candidate
    /\ Won([i \in Own(p) |-> rounds[i].pair])

ProposalInv ==
    \A p \in DOMAIN proposals :
        /\ proposals[p].at <= Len(rounds)
        /\ proposals[p].status = "proposed" =>
             \A i \in DOMAIN rounds : i > proposals[p].at => AB!Partition(i) # "search"
        /\ proposals[p].status \in {"promoted", "rolled_back"} => Earned(p)

\* The promoted ChangeSets lead from the initial agent to the active one: every agent
\* between them was entered as often as it was left.
Promoted == {p \in DOMAIN proposals : proposals[p].status = "promoted"}
Into(agent) == {p \in Promoted : proposals[p].candidate = agent}
OutOf(agent) == {p \in Promoted : proposals[p].parent = agent}
One(condition) == IF condition THEN 1 ELSE 0

TrailInv ==
    \A agent \in Agents :
        AB!Cardinality(Into(agent)) + One(agent = InitialAgent)
            = AB!Cardinality(OutOf(agent)) + One(agent = active)

ABInv == ABType /\ RoundInv /\ CallInv /\ ProposalInv /\ TrailInv

LEMMA ABInit == ASSUME AB!ContinuousABAssumption, AB!Init PROVE ABInv
<1>1. ABType
    BY DEF AB!ContinuousABAssumption, AB!Init, ABType, AB!Idle, OpType
<1>2. RoundInv /\ CallInv
    BY DEF AB!Init, RoundInv, CallInv, AB!Retired, AB!Idle
<1>3. ProposalInv
    BY DEF AB!Init, ProposalInv
<1>4. TrailInv
    <2>1. Promoted = {}
        BY DEF AB!Init, Promoted
    <2>2. \A agent : Into(agent) = OutOf(agent)
        BY <2>1 DEF Into, OutOf
    <2>3. active = InitialAgent
        BY DEF AB!Init
    <2> QED
        BY <2>2, <2>3 DEF TrailInv
<1> QED
    BY <1>1, <1>2, <1>3, <1>4 DEF ABInv

\* What no step does to the rounds: take one away, touch a retired one, or plan a search
\* round while a proposal is pending.
RoundsGrow ==
    /\ Len(rounds) <= Len(rounds')
    /\ \A i \in AB!Retired : i \in AB!Retired' /\ rounds'[i] = rounds[i]
    /\ \A i \in DOMAIN rounds' :
         i \in DOMAIN rounds \/ AB!Partition(i) # "search" \/ AB!Pending = {}

LEMMA RoundIs ==
    ASSUME ABType
    PROVE  \A i \in DOMAIN rounds :
             /\ rounds[i] \in RoundType /\ rounds[i].task \in 1 .. AB!Rounds
             /\ rounds[i].phase \in Phases /\ i \in Nat \ {0} /\ i <= Len(rounds)
<1>1. rounds \in Seq(RoundType)
    BY DEF ABType
<1>2. \A i \in DOMAIN rounds : rounds[i] \in RoundType /\ i \in Nat \ {0} /\ i <= Len(rounds)
    BY <1>1
<1>3. \A r \in RoundType : r.task \in 1 .. AB!Rounds /\ r.phase \in Phases
    BY DEF RoundType
<1> QED
    BY <1>2, <1>3

LEMMA ChangeRound ==
    ASSUME ABType, RoundInv, NEW i \in DOMAIN rounds, NEW r \in RoundType,
           r.task = rounds[i].task, r.phase \in {"evaluated", "retired"} => r.pair # None,
           r.phase = "retired" => AB!TaskIs(i, "retired"),
           rounds[i].phase # "retired",
           rounds' = [rounds EXCEPT ![i] = r], pool' = pool
    PROVE  /\ rounds' \in Seq(RoundType) /\ RoundInv' /\ RoundsGrow
           /\ DOMAIN rounds' = DOMAIN rounds /\ rounds'[i] = r
           /\ \A j \in DOMAIN rounds : rounds'[j].task = rounds[j].task
<1>1. rounds \in Seq(RoundType)
    BY DEF ABType
<1>2. /\ rounds' \in Seq(RoundType) /\ DOMAIN rounds' = DOMAIN rounds
      /\ Len(rounds') = Len(rounds)
      /\ \A j \in DOMAIN rounds : rounds'[j] = IF j = i THEN r ELSE rounds[j]
    BY <1>1
<1>3. \A j \in DOMAIN rounds : rounds'[j].task = rounds[j].task
    BY <1>2
<1>4. /\ \A j \in DOMAIN rounds' : AB!Partition(rounds'[j].task) = AB!Partition(j)
      /\ \A j, k \in DOMAIN rounds' : rounds'[j].task = rounds'[k].task => j = k
      /\ \A j \in DOMAIN rounds' :
           rounds'[j].phase \in {"evaluated", "retired"} => rounds'[j].pair # None
    BY <1>2, <1>3 DEF RoundInv
<1>5. \A j \in AB!Retired' : AB!TaskIs(j, "retired")'
    BY <1>2 DEF RoundInv, AB!Retired, AB!TaskIs
<1>6. RoundInv'
    BY <1>4, <1>5 DEF RoundInv
<1>7. RoundsGrow
    BY <1>2 DEF RoundsGrow, AB!Retired
<1> QED
    BY <1>2, <1>3, <1>6, <1>7

LEMMA ChangePool ==
    ASSUME ABType, RoundInv, NEW t \in 1 .. AB!Rounds,
           NEW state \in {"unopened", "opened", "retired"},
           pool[t] = "retired" => state = "retired",
           pool' = [pool EXCEPT ![t] = state], rounds' = rounds
    PROVE  /\ pool' \in [1 .. AB!Rounds -> {"unopened", "opened", "retired"}]
           /\ RoundInv' /\ RoundsGrow /\ pool'[t] = state
<1>1. pool \in [1 .. AB!Rounds -> {"unopened", "opened", "retired"}]
    BY DEF ABType
<1>2. pool' \in [1 .. AB!Rounds -> {"unopened", "opened", "retired"}] /\ pool'[t] = state
      /\ \A u \in 1 .. AB!Rounds : pool[u] = "retired" => pool'[u] = "retired"
    BY <1>1
<1>3. \A i \in DOMAIN rounds : rounds[i].task \in 1 .. AB!Rounds
    BY RoundIs
<1>4. RoundInv'
    BY <1>2, <1>3 DEF RoundInv, AB!TaskIs, AB!Retired
<1>5. RoundsGrow
    <2>1. Len(rounds) \in Nat
        BY DEF ABType
    <2> QED
        BY <2>1 DEF RoundsGrow, AB!Retired
<1> QED
    BY <1>2, <1>4, <1>5

\* A step that leaves rounds and pool alone.
LEMMA RoundsStay ==
    ASSUME ABType, RoundInv, UNCHANGED <<rounds, pool>>
    PROVE  RoundInv' /\ RoundsGrow
<1>1. Len(rounds) \in Nat
    BY DEF ABType
<1> QED
    BY <1>1 DEF RoundInv, RoundsGrow, AB!Retired, AB!TaskIs

\* Nothing is asked of a call at a place it only returns to.
LEMMA AtRest ==
    ASSUME op' = AB!Idle
    PROVE  CallInv' /\ op' \in OpType
BY DEF CallInv, AB!Idle, OpType

WorldInv == ABType /\ RoundInv /\ CallInv
WorldNext == WorldInv' /\ RoundsGrow

LEMMA CallWorld == ASSUME AB!ContinuousABAssumption, WorldInv, AB!Call PROVE WorldNext
<1>1. UNCHANGED <<rounds, pool, proposals, active>>
    BY DEF AB!Call, AB!registry
<1>2. PICK ask \in AB!Asks : op' = [ask EXCEPT !.place = "reconcile"]
    BY DEF AB!Call
<1>3. op' \in OpType /\ op'.place = "reconcile"
      /\ (op'.call \in {"plan", "propose"} => op'.agent \in Agents)
    <2>1. ask \in OpType /\ (ask.call \in {"plan", "propose"} => ask.agent \in Agents)
        <3>1. CASE ask \in [call : {"plan", "propose"}, place : {"none"}, round : {0},
                            agent : Agents]
            <4>1. PICK call \in {"plan", "propose"}, agent \in Agents :
                    ask = [call |-> call, place |-> "none", round |-> 0, agent |-> agent]
                BY <3>1
            <4> QED
                BY <4>1 DEF OpType
        <3>2. CASE ask = [AB!Idle EXCEPT !.call = "decide"]
            <4>1. ask = [call |-> "decide", place |-> "none", round |-> 0, agent |-> None]
                BY <3>2 DEF AB!Idle
            <4> QED
                BY <4>1 DEF OpType
        <3> QED
            BY <3>1, <3>2 DEF AB!Asks
    <2> QED
        BY <1>2, <2>1 DEF OpType
<1>4. RoundInv' /\ RoundsGrow
    BY <1>1, RoundsStay DEF WorldInv
<1>5. ABType'
    BY <1>1, <1>3 DEF WorldInv, ABType
<1>6. CallInv'
    BY <1>3 DEF CallInv
<1> QED
    BY <1>4, <1>5, <1>6 DEF WorldNext, WorldInv

LEMMA ReconcileWorld == ASSUME AB!ContinuousABAssumption, WorldInv, AB!Reconcile PROVE WorldNext
<1> DEFINE i == AB!Min(AB!Unsettled)
<1>1. UNCHANGED <<proposals, active>> /\ op.place = "reconcile"
    BY DEF AB!Reconcile, AB!registry
<1>2. op \in OpType /\ (op.call \in {"plan", "propose"} => op.agent \in Agents)
    BY <1>1 DEF WorldInv, ABType, CallInv
<1>3. CASE AB!Unsettled = {}
    <2>1. UNCHANGED <<rounds, pool>> /\ op' = [op EXCEPT !.place = "act"]
        BY <1>3 DEF AB!Reconcile, AB!To
    <2>2. op' \in OpType /\ op'.place = "act" /\ op'.call = op.call /\ op'.agent = op.agent
        BY <1>2, <2>1 DEF OpType
    <2>3. AB!Unsettled' = {}
        BY <1>3, <2>1 DEF AB!Unsettled, AB!TaskIs
    <2>4. CallInv'
        BY <1>2, <2>2, <2>3 DEF CallInv
    <2>5. RoundInv' /\ RoundsGrow
        BY <2>1, RoundsStay DEF WorldInv
    <2>6. ABType'
        BY <1>1, <2>1, <2>2 DEF WorldInv, ABType
    <2> QED
        BY <2>4, <2>5, <2>6 DEF WorldNext, WorldInv
<1>4. CASE AB!Unsettled # {}
    <2>1. i \in AB!Unsettled
        <3>1. AB!Unsettled \in SUBSET Nat
            BY RoundIs DEF AB!Unsettled, WorldInv
        <3> QED
            BY <3>1, <1>4, MinIsLeast
    <2>2. i \in DOMAIN rounds /\ rounds[i] \in RoundType /\ rounds[i].task \in 1 .. AB!Rounds
        BY <2>1, RoundIs DEF AB!Unsettled, WorldInv
    <2>3. op' = op
        BY <1>4 DEF AB!Reconcile
    <2>4. CallInv'
        BY <2>3, <1>1, <1>2 DEF CallInv
    <2>5. CASE AB!TaskIs(i, "unopened") \/ AB!TaskIs(i, "opened")
        <3>1. PICK state \in {"opened", "retired"} :
                pool' = [pool EXCEPT ![rounds[i].task] = state] /\ rounds' = rounds
            BY <1>4, <2>5 DEF AB!Reconcile
        <3>2. pool[rounds[i].task] # "retired"
            BY <2>5 DEF AB!TaskIs
        <3>3. pool' \in [1 .. AB!Rounds -> {"unopened", "opened", "retired"}] /\ RoundInv'
              /\ RoundsGrow
            BY <2>2, <3>1, <3>2, ChangePool DEF WorldInv
        <3>4. ABType'
            BY <1>1, <2>3, <3>1, <3>3 DEF WorldInv, ABType
        <3> QED
            BY <2>4, <3>3, <3>4 DEF WorldNext, WorldInv
    <2>6. CASE ~AB!TaskIs(i, "unopened") /\ ~AB!TaskIs(i, "opened")
        <3>1. rounds' = [rounds EXCEPT ![i].phase = "retired"] /\ pool' = pool
            BY <1>4, <2>6 DEF AB!Reconcile
        <3>2. rounds[i].phase = "evaluated"
            BY <2>1, <2>6 DEF AB!Unsettled
        <3>3. AB!TaskIs(i, "retired")
            BY <2>2, <2>6 DEF WorldInv, ABType, AB!TaskIs
        <3>4. rounds[i].pair # None
            BY <2>2, <3>2 DEF WorldInv, RoundInv
        <3> DEFINE r == [rounds[i] EXCEPT !.phase = "retired"]
        <3>5. r \in RoundType /\ r.task = rounds[i].task /\ r.pair = rounds[i].pair
              /\ r.phase = "retired" /\ rounds' = [rounds EXCEPT ![i] = r]
            BY <2>2, <3>1 DEF RoundType, Phases
        <3> HIDE DEF r
        <3>6. rounds' \in Seq(RoundType) /\ RoundInv' /\ RoundsGrow
            BY <2>2, <3>1, <3>2, <3>3, <3>4, <3>5, ChangeRound DEF WorldInv
        <3>7. ABType'
            BY <1>1, <2>3, <3>1, <3>6 DEF WorldInv, ABType
        <3> QED
            BY <2>4, <3>6, <3>7 DEF WorldNext, WorldInv
    <2> QED
        BY <2>5, <2>6
<1> QED
    BY <1>3, <1>4

LEMMA PartitionIs ==
    \A n \in Int : /\ AB!Partition(n) \in AB!Partitions
                   /\ AB!Partition(n) = "final_sealed" <=> n > Cycles * AB!CycleLength
BY DEF AB!Partition, AB!Partitions

LEMMA PlanWorld == ASSUME AB!ContinuousABAssumption, WorldInv, AB!PlanRound PROVE WorldNext
<1> DEFINE n == AB!NextRound
           t == AB!Min(AB!Available(AB!Partition(n)))
<1>1. UNCHANGED <<proposals, active, pool>> /\ op.place = "act" /\ op.call = "plan"
    BY DEF AB!PlanRound, AB!registry, AB!At
<1>2. AB!Unsettled = {} /\ op.agent \in Agents /\ op \in OpType
    BY <1>1 DEF WorldInv, CallInv, ABType
<1>3. rounds \in Seq(RoundType)
    BY DEF WorldInv, ABType
<1>4. CASE rounds' = rounds /\ (op' = op \/ op' = AB!Idle)
    <2>1. RoundInv' /\ RoundsGrow
        BY <1>1, <1>4, RoundsStay DEF WorldInv
    <2>2. CASE op' = op
        <3>1. AB!Unsettled' = AB!Unsettled
            BY <1>1, <1>4 DEF AB!Unsettled, AB!TaskIs
        <3>2. CallInv'
            BY <2>2, <3>1, <1>1, <1>2 DEF CallInv
        <3>3. ABType'
            BY <1>1, <1>4, <2>2 DEF WorldInv, ABType
        <3> QED
            BY <2>1, <3>2, <3>3 DEF WorldNext, WorldInv
    <2>3. CASE op' = AB!Idle
        <3>1. CallInv' /\ op' \in OpType
            BY <2>3, AtRest
        <3>2. ABType'
            BY <1>1, <1>4, <3>1 DEF WorldInv, ABType
        <3> QED
            BY <2>1, <3>1, <3>2 DEF WorldNext, WorldInv
    <2> QED
        BY <1>4, <2>2, <2>3
<1>5. CASE /\ AB!MayPlan(op.agent) /\ AB!Available(AB!Partition(n)) # {}
           /\ rounds' = Append(rounds, [task |-> t, evolved |-> op.agent,
                                        phase |-> "planned", pair |-> None])
           /\ op' = [op EXCEPT !.place = "claim", !.round = n]
    <2>1. n \in Nat /\ n = Len(rounds) + 1
        BY <1>3 DEF AB!NextRound
    <2>2. t \in AB!Available(AB!Partition(n))
        <3>1. AB!Available(AB!Partition(n)) \in SUBSET Nat
            BY DEF AB!Available
        <3> QED
            BY <3>1, <1>5, MinIsLeast
    <2>3. t \in 1 .. AB!Rounds /\ AB!Partition(t) = AB!Partition(n) /\ pool[t] = "unopened"
        BY <2>2 DEF AB!Available
    <2> DEFINE r == [task |-> t, evolved |-> op.agent, phase |-> "planned", pair |-> None]
    <2>4. r \in RoundType /\ r.task = t /\ r.phase = "planned"
        BY <2>3, <1>2 DEF RoundType, Phases
    <2> HIDE DEF r, n, t
    <2>5. rounds' = Append(rounds, r)
        BY <1>5 DEF r
    <2>6. /\ rounds' \in Seq(RoundType) /\ Len(rounds') = n /\ rounds'[n] = r
          /\ \A i \in DOMAIN rounds : rounds'[i] = rounds[i] /\ i # n
          /\ \A i \in DOMAIN rounds' : i = n \/ i \in DOMAIN rounds
          /\ \A i \in DOMAIN rounds : i \in DOMAIN rounds'
          /\ n \in DOMAIN rounds'
        BY <1>3, <2>1, <2>4, <2>5
    <2>7. \A i \in DOMAIN rounds : rounds[i].task # t
        BY <1>2, <2>3 DEF AB!Unsettled, AB!TaskIs
    <2>8. RoundInv'
        <3>1. \A i \in DOMAIN rounds' : AB!Partition(rounds'[i].task) = AB!Partition(i)
            BY <2>3, <2>4, <2>6 DEF WorldInv, RoundInv
        <3>2. \A i, j \in DOMAIN rounds' : rounds'[i].task = rounds'[j].task => i = j
            BY <2>4, <2>6, <2>7 DEF WorldInv, RoundInv
        <3>3. \A i \in DOMAIN rounds' :
                rounds'[i].phase \in {"evaluated", "retired"} => rounds'[i].pair # None
            BY <2>4, <2>6 DEF WorldInv, RoundInv
        <3>4. \A i \in AB!Retired' : AB!TaskIs(i, "retired")'
            BY <2>4, <2>6, <1>1 DEF WorldInv, RoundInv, AB!Retired, AB!TaskIs
        <3> QED
            BY <3>1, <3>2, <3>3, <3>4 DEF RoundInv
    <2>9. RoundsGrow
        <3>1. AB!Partition(n) = "search" => AB!Pending = {}
            BY <1>5 DEF AB!MayPlan, n
        <3>2. Len(rounds) <= Len(rounds')
            BY <2>1, <2>6, <1>3
        <3>3. \A i \in AB!Retired : i \in AB!Retired' /\ rounds'[i] = rounds[i]
            BY <2>6 DEF AB!Retired
        <3> QED
            BY <2>6, <3>1, <3>2, <3>3 DEF RoundsGrow
    <2>10. op' \in OpType /\ op'.place = "claim" /\ op'.round = n
        BY <1>2, <1>5, <2>1 DEF OpType
    <2>11. CallInv'
        <3>1. op'.round \in DOMAIN rounds' /\ AB!TaskIs(op.round, "unopened")'
            BY <2>10, <2>6, <2>4, <2>3, <1>1 DEF AB!TaskIs
        <3> QED
            BY <3>1, <2>10 DEF CallInv
    <2>12. ABType'
        BY <1>1, <2>6, <2>10 DEF WorldInv, ABType
    <2> QED
        BY <2>8, <2>9, <2>11, <2>12 DEF WorldNext, WorldInv
<1>6. \/ rounds' = rounds /\ (op' = op \/ op' = AB!Idle)
      \/ /\ AB!MayPlan(op.agent) /\ AB!Available(AB!Partition(n)) # {}
         /\ rounds' = Append(rounds, [task |-> t, evolved |-> op.agent,
                                        phase |-> "planned", pair |-> None])
         /\ op' = [op EXCEPT !.place = "claim", !.round = n]
    BY DEF AB!PlanRound, AB!Return
<1> QED
    BY <1>4, <1>5, <1>6

\* A step that changes the phase of one round.
LEMMA PhaseWorld ==
    ASSUME WorldInv, NEW i \in DOMAIN rounds, NEW r \in RoundType,
           r.task = rounds[i].task, r.phase \in {"evaluated", "retired"} => r.pair # None,
           r.phase = "retired" => AB!TaskIs(i, "retired"),
           rounds[i].phase # "retired",
           rounds' = [rounds EXCEPT ![i] = r], UNCHANGED <<pool, proposals, active>>,
           op' \in OpType, CallInv'
    PROVE  WorldNext
<1>1. rounds' \in Seq(RoundType) /\ RoundInv' /\ RoundsGrow
    BY ChangeRound DEF WorldInv
<1>2. ABType'
    BY <1>1 DEF WorldInv, ABType
<1> QED
    BY <1>1, <1>2 DEF WorldNext, WorldInv

LEMMA RecordingWorld ==
    ASSUME AB!ContinuousABAssumption, WorldInv,
           AB!FreezePredictions \/ AB!RecordNative \/ AB!RecordPlain
    PROVE  WorldNext
<1>1. op = AB!Idle /\ UNCHANGED <<pool, proposals, active>>
    BY DEF AB!FreezePredictions, AB!RecordNative, AB!RecordPlain, AB!registry
<1>2. PICK i \in DOMAIN rounds : \E phase \in {"frozen", "frozen with evidence"} :
        /\ rounds[i].phase \in {"planned", "frozen", "frozen with evidence"}
        /\ rounds' = [rounds EXCEPT ![i].phase = phase] \/ rounds' = rounds
        /\ \/ op' = op
           \/ /\ op' = [AB!Idle EXCEPT !.call = "record", !.place = "results", !.round = i]
              /\ \/ rounds' = [rounds EXCEPT ![i].phase = phase]
                 \/ rounds' = rounds /\ rounds[i].phase = phase
    BY DEF AB!FreezePredictions, AB!RecordNative, AB!RecordPlain
<1>3. PICK phase \in {"frozen", "frozen with evidence"} :
        /\ rounds[i].phase \in {"planned", "frozen", "frozen with evidence"}
        /\ rounds' = [rounds EXCEPT ![i].phase = phase] \/ rounds' = rounds
        /\ \/ op' = op
           \/ /\ op' = [AB!Idle EXCEPT !.call = "record", !.place = "results", !.round = i]
              /\ \/ rounds' = [rounds EXCEPT ![i].phase = phase]
                 \/ rounds' = rounds /\ rounds[i].phase = phase
    BY <1>2
<1> DEFINE r == [rounds[i] EXCEPT !.phase = phase]
<1>4. rounds[i] \in RoundType /\ i \in Nat
    BY RoundIs DEF WorldInv
<1>5. r \in RoundType /\ r.task = rounds[i].task /\ r.phase = phase
    BY <1>4 DEF RoundType, Phases
<1>6. rounds' = [rounds EXCEPT ![i] = r] \/ rounds' = rounds
    BY <1>3
<1>7. rounds \in Seq(RoundType)
    BY DEF WorldInv, ABType
<1>8. i \in DOMAIN rounds' /\ (op' # op => rounds'[i].phase = phase)
    BY <1>3, <1>5, <1>6, <1>7
<1> HIDE DEF r
<1>9. op' \in OpType /\ CallInv'
    <2>1. CASE op' = op
        BY <2>1, <1>1, AtRest
    <2>2. CASE op' # op
        <3>1. op' = [call |-> "record", place |-> "results", round |-> i, agent |-> None]
            BY <1>3, <2>2 DEF AB!Idle
        <3> QED
            BY <3>1, <1>4, <1>8, <2>2 DEF OpType, CallInv
    <2> QED
        BY <2>1, <2>2
<1>10. CASE rounds' = rounds
    <2>1. RoundInv' /\ RoundsGrow
        BY <1>1, <1>10, RoundsStay DEF WorldInv
    <2>2. ABType'
        BY <1>1, <1>9, <1>10 DEF WorldInv, ABType
    <2> QED
        BY <2>1, <2>2, <1>9 DEF WorldNext, WorldInv
<1>11. CASE rounds' = [rounds EXCEPT ![i] = r]
    BY <1>1, <1>3, <1>5, <1>9, <1>11, PhaseWorld
<1> QED
    BY <1>6, <1>10, <1>11

LEMMA ResultsWorld ==
    ASSUME AB!ContinuousABAssumption, WorldInv, AB!RecordResults
    PROVE  WorldNext
<1> DEFINE i == op.round
<1>1. /\ UNCHANGED <<pool, proposals, active>> /\ op.place = "results"
      /\ op' = [op EXCEPT !.place = "retire task"]
    BY DEF AB!RecordResults, AB!registry, AB!At, AB!To
<1>2. i \in DOMAIN rounds /\ rounds[i].phase \in {"frozen", "frozen with evidence"}
      /\ op \in OpType
    BY <1>1 DEF WorldInv, CallInv, ABType
<1>3. rounds[i] \in RoundType /\ i \in Nat
    BY <1>2, RoundIs DEF WorldInv
<1>4. PICK pair \in Pairs[AB!Partition(i)] :
        rounds' = [rounds EXCEPT ![i].phase = "evaluated", ![i].pair = pair]
    BY DEF AB!RecordResults
<1>5. pair \in Measures /\ pair # None
    BY <1>3, <1>4, PartitionIs DEF Measures, AB!ContinuousABAssumption
<1> DEFINE r == [rounds[i] EXCEPT !.phase = "evaluated", !.pair = pair]
<1>6. r \in RoundType /\ r.task = rounds[i].task /\ r.phase = "evaluated" /\ r.pair = pair
    BY <1>3, <1>5 DEF RoundType, Phases
<1>7. rounds \in Seq(RoundType)
    BY DEF WorldInv, ABType
<1>8. rounds' = [rounds EXCEPT ![i] = r]
    BY <1>2, <1>4, <1>7
<1> HIDE DEF r
<1>9. op' \in OpType /\ op'.place = "retire task" /\ op'.round = i
    BY <1>1, <1>2 DEF OpType
<1>10. i \in DOMAIN rounds' /\ rounds'[i].phase = "evaluated"
    BY <1>2, <1>6, <1>7, <1>8
<1>11. CallInv'
    BY <1>9, <1>10 DEF CallInv
<1> QED
    BY <1>1, <1>2, <1>5, <1>6, <1>8, <1>9, <1>11, PhaseWorld

LEMMA RetireWorld ==
    ASSUME AB!ContinuousABAssumption, WorldInv, AB!ClaimTask \/ AB!RetireTask \/ AB!RetireRound
    PROVE  WorldNext
<1> DEFINE i == op.round
<1>1. /\ UNCHANGED <<proposals, active>>
      /\ op.place \in {"claim", "retire task", "retire round"}
      /\ op \in OpType
    BY DEF AB!ClaimTask, AB!RetireTask, AB!RetireRound, AB!registry, AB!At, WorldInv, ABType
<1>2. i \in DOMAIN rounds
    BY <1>1 DEF WorldInv, CallInv
<1>3. rounds[i] \in RoundType /\ i \in Nat /\ rounds[i].task \in 1 .. AB!Rounds
    BY <1>2, RoundIs DEF WorldInv
<1>4. CASE AB!ClaimTask \/ (AB!RetireTask /\ AB!TaskIs(i, "opened"))
    <2>1. PICK state \in {"opened", "retired"} :
            /\ pool' = [pool EXCEPT ![rounds[i].task] = state] /\ rounds' = rounds
            /\ op' = AB!Idle \/ (op' = [op EXCEPT !.place = "retire round"] /\ state = "retired"
                                   /\ op.place = "retire task")
        BY <1>4 DEF AB!ClaimTask, AB!RetireTask, AB!Return, AB!To, AB!At
    <2>2. pool[rounds[i].task] # "retired"
        BY <1>4, <1>1 DEF WorldInv, CallInv, AB!TaskIs, AB!ClaimTask, AB!At
    <2>3. /\ pool' \in [1 .. AB!Rounds -> {"unopened", "opened", "retired"}]
          /\ RoundInv' /\ RoundsGrow /\ pool'[rounds[i].task] = state
        BY <1>3, <2>1, <2>2, ChangePool DEF WorldInv
    <2>4. op' \in OpType /\ CallInv'
        <3>1. CASE op' = AB!Idle
            BY <3>1, AtRest
        <3>2. CASE op' = [op EXCEPT !.place = "retire round"] /\ state = "retired"
                   /\ op.place = "retire task"
            <4>1. op' \in OpType /\ op'.place = "retire round" /\ op'.round = i
                BY <3>2, <1>1 DEF OpType
            <4>2. rounds[i].phase = "evaluated"
                BY <3>2 DEF WorldInv, CallInv
            <4> QED
                BY <4>1, <4>2, <1>2, <2>1, <2>3, <3>2 DEF CallInv, AB!TaskIs
        <3> QED
            BY <2>1, <3>1, <3>2
    <2>5. ABType'
        BY <1>1, <2>1, <2>3, <2>4 DEF WorldInv, ABType
    <2> QED
        BY <2>3, <2>4, <2>5 DEF WorldNext, WorldInv
<1>5. CASE AB!RetireTask /\ ~AB!TaskIs(i, "opened")
    <2>1. op' = AB!Idle /\ UNCHANGED <<pool, rounds>>
        BY <1>5 DEF AB!RetireTask, AB!Return
    <2>2. CallInv' /\ op' \in OpType /\ RoundInv' /\ RoundsGrow
        BY <2>1, AtRest, RoundsStay DEF WorldInv
    <2>3. ABType'
        BY <1>1, <2>1, <2>2 DEF WorldInv, ABType
    <2> QED
        BY <2>2, <2>3 DEF WorldNext, WorldInv
<1>6. CASE AB!RetireRound
    <2>1. op' = AB!Idle /\ pool' = pool /\ rounds' = [rounds EXCEPT ![i].phase = "retired"]
          /\ op.place = "retire round"
        BY <1>6 DEF AB!RetireRound, AB!Return, AB!At
    <2>2. rounds[i].phase = "evaluated" /\ AB!TaskIs(i, "retired")
        BY <2>1 DEF WorldInv, CallInv
    <2>3. rounds[i].pair # None
        BY <1>2, <2>2 DEF WorldInv, RoundInv
    <2> DEFINE r == [rounds[i] EXCEPT !.phase = "retired"]
    <2>4. r \in RoundType /\ r.task = rounds[i].task /\ r.pair = rounds[i].pair
          /\ r.phase = "retired" /\ rounds' = [rounds EXCEPT ![i] = r]
        BY <1>3, <2>1 DEF RoundType, Phases
    <2> HIDE DEF r
    <2>5. CallInv' /\ op' \in OpType
        BY <2>1, AtRest
    <2> QED
        BY <1>1, <1>2, <2>1, <2>2, <2>3, <2>4, <2>5, PhaseWorld
<1> QED
    BY <1>4, <1>5, <1>6

\* What a step may do to the proposals.
Proposes ==
    /\ op.agent \in Agents /\ AB!Retired = DOMAIN rounds /\ active' = active
    /\ proposals' = Append(proposals,
           [at |-> Len(rounds), parent |-> active, candidate |-> op.agent,
            status |-> "proposed"])

Promotes(p) ==
    /\ p \in AB!Pending /\ proposals[p].parent = active
    /\ AB!BlockOf(p) \subseteq AB!Retired /\ AB!Cardinality(AB!BlockOf(p)) = Block
    /\ \A i \in AB!BlockOf(p) : rounds[i].evolved = proposals[p].candidate
    /\ AB!Approves(AB!PairsOf(p))
    /\ proposals' = [proposals EXCEPT ![p].status = "promoted"]
    /\ active' = proposals[p].candidate

Rejects(p) ==
    /\ p \in AB!Pending /\ active' = active
    /\ proposals' = [proposals EXCEPT ![p].status = "rejected"]

RollsBack(p) ==
    /\ p \in Promoted /\ active = proposals[p].candidate
    /\ proposals' = [proposals EXCEPT ![p].status = "rolled_back"]
    /\ active' = proposals[p].parent

Settles == Proposes \/ \E p \in DOMAIN proposals : Promotes(p) \/ Rejects(p) \/ RollsBack(p)

LEMMA SettleMoves ==
    ASSUME AB!ContinuousABAssumption, WorldInv, AB!Propose \/ AB!Decide \/ AB!Rollback
    PROVE  /\ UNCHANGED <<rounds, pool>> /\ op' \in {op, AB!Idle} /\ (op' = op => op = AB!Idle)
           /\ Settles \/ UNCHANGED <<proposals, active>>
<1>1. CASE AB!Propose
    <2>1. op.agent \in Agents
        BY <1>1 DEF AB!Propose, AB!At, WorldInv, CallInv
    <2> QED
        BY <1>1, <2>1 DEF AB!Propose, AB!Return, Settles, Proposes
<1>2. CASE AB!Decide
    <2>1. UNCHANGED <<rounds, pool>> /\ op' = AB!Idle
        BY <1>2 DEF AB!Decide, AB!Return
    <2>2. \/ UNCHANGED <<proposals, active>>
          \/ \E p \in AB!Pending : Promotes(p) \/ Rejects(p)
        BY <1>2 DEF AB!Decide, AB!Settle, Promotes, Rejects
    <2> QED
        BY <2>1, <2>2 DEF Settles, AB!Pending
<1>3. CASE AB!Rollback
    <2>1. UNCHANGED <<rounds, pool, op>> /\ op = AB!Idle
        BY <1>3 DEF AB!Rollback
    <2>2. \E p \in DOMAIN proposals : RollsBack(p)
        BY <1>3 DEF AB!Rollback, RollsBack, Promoted
    <2> QED
        BY <2>1, <2>2 DEF Settles
<1> QED
    BY <1>1, <1>2, <1>3

LEMMA SettleType ==
    ASSUME WorldInv, Settles
    PROVE  proposals' \in Seq(ProposalType) /\ active' \in Agents
<1>1. proposals \in Seq(ProposalType) /\ active \in Agents /\ Len(rounds) \in Nat
    BY DEF WorldInv, ABType
<1>2. CASE Proposes
    <2>1. [at |-> Len(rounds), parent |-> active, candidate |-> op.agent,
            status |-> "proposed"] \in ProposalType
        BY <1>1, <1>2 DEF Proposes, ProposalType
    <2> QED
        BY <1>1, <1>2, <2>1 DEF Proposes
<1>3. ASSUME NEW p \in DOMAIN proposals, Promotes(p) \/ Rejects(p) \/ RollsBack(p)
      PROVE  proposals' \in Seq(ProposalType) /\ active' \in Agents
    <2>1. proposals[p] \in ProposalType
        BY <1>1
    <2>2. PICK status \in {"promoted", "rejected", "rolled_back"} :
            proposals' = [proposals EXCEPT ![p].status = status]
        BY <1>3 DEF Promotes, Rejects, RollsBack
    <2>3. [proposals[p] EXCEPT !.status = status] \in ProposalType
        BY <2>1 DEF ProposalType
    <2>4. proposals' \in Seq(ProposalType)
        BY <1>1, <2>2, <2>3
    <2>5. active' \in {active, proposals[p].candidate, proposals[p].parent}
        BY <1>3 DEF Promotes, Rejects, RollsBack
    <2> QED
        BY <1>1, <2>1, <2>4, <2>5 DEF ProposalType
<1> QED
    BY <1>2, <1>3 DEF Settles

LEMMA OtherWorld ==
    ASSUME AB!ContinuousABAssumption, WorldInv,
           AB!Propose \/ AB!Decide \/ AB!Rollback \/ AB!OpenFinal \/ AB!Kill \/ UNCHANGED AB!vars
    PROVE  WorldNext
<1>1. /\ UNCHANGED <<rounds, pool>> /\ (op' = op \/ op' = AB!Idle)
      /\ Settles \/ UNCHANGED <<proposals, active>>
    <2>1. CASE AB!Propose \/ AB!Decide \/ AB!Rollback
        BY <2>1, SettleMoves
    <2>2. CASE AB!OpenFinal \/ AB!Kill \/ UNCHANGED AB!vars
        BY <2>2 DEF AB!OpenFinal, AB!Kill, AB!vars, AB!registry, AB!Return
    <2> QED
        BY <2>1, <2>2
<1>2. proposals' \in Seq(ProposalType) /\ active' \in Agents
    BY <1>1, SettleType DEF WorldInv, ABType
<1>3. RoundInv' /\ RoundsGrow
    BY <1>1, RoundsStay DEF WorldInv
<1>4. CallInv' /\ op' \in OpType
    <2>1. CASE op' = op
        <3>1. AB!Unsettled' = AB!Unsettled
            BY <1>1 DEF AB!Unsettled, AB!TaskIs
        <3> QED
            BY <2>1, <3>1, <1>1 DEF WorldInv, CallInv, ABType, AB!TaskIs
    <2> QED
        BY <2>1, <1>1, AtRest
<1>5. ABType'
    BY <1>1, <1>2, <1>4 DEF WorldInv, ABType
<1> QED
    BY <1>3, <1>4, <1>5 DEF WorldNext, WorldInv

LEMMA WorldStep ==
    ASSUME AB!ContinuousABAssumption, WorldInv, AB!Next \/ UNCHANGED AB!vars
    PROVE  WorldNext
BY CallWorld, ReconcileWorld, PlanWorld, RecordingWorld, ResultsWorld, RetireWorld, OtherWorld
   DEF AB!Next, AB!Step

LEMMA ProposalMoves ==
    ASSUME AB!ContinuousABAssumption, WorldInv, AB!Next \/ UNCHANGED AB!vars
    PROVE  \/ Settles /\ rounds' = rounds
           \/ UNCHANGED <<proposals, active>>
<1>1. CASE AB!Propose \/ AB!Decide \/ AB!Rollback
    BY <1>1, SettleMoves
<1>2. CASE AB!Call \/ AB!Reconcile \/ AB!PlanRound \/ AB!ClaimTask
           \/ AB!FreezePredictions \/ AB!RecordNative \/ AB!RecordPlain
    BY <1>2 DEF AB!Call, AB!Reconcile, AB!PlanRound, AB!ClaimTask, AB!FreezePredictions,
                AB!RecordNative, AB!RecordPlain, AB!registry
<1>3. CASE AB!RecordResults \/ AB!RetireTask \/ AB!RetireRound \/ AB!OpenFinal \/ AB!Kill
           \/ UNCHANGED AB!vars
    BY <1>3 DEF AB!RecordResults, AB!RetireTask, AB!RetireRound, AB!OpenFinal, AB!Kill,
                AB!vars, AB!registry
<1> QED
    BY <1>1, <1>2, <1>3 DEF AB!Next, AB!Step

-----------------------------------------------------------------------------

\* The block of a pending proposal that is full is the rounds that follow it.
LEMMA BlockIsOwn ==
    ASSUME AB!ContinuousABAssumption, WorldInv, ProposalInv, NEW p \in AB!Pending,
           AB!Cardinality(AB!BlockOf(p)) = Block
    PROVE  AB!BlockOf(p) = Own(p)
<1> DEFINE at == proposals[p].at
           length == Len(rounds)
           main == Cycles * AB!CycleLength
           last == IF length <= main THEN length ELSE main
<1>1. length \in Nat /\ main \in Nat /\ Block \in Nat \ {0} /\ DOMAIN rounds = 1 .. length
    BY DEF WorldInv, ABType, AB!ContinuousABAssumption, AB!PromotionGateAssumption,
           AB!CycleLength
<1>2. at \in Nat /\ p \in DOMAIN proposals /\ proposals[p].status = "proposed"
    <2>1. proposals[p] \in ProposalType
        BY DEF WorldInv, ABType, AB!Pending
    <2> QED
        BY <2>1 DEF ProposalType, AB!Pending
<1>3. \A i \in DOMAIN rounds : i > at => AB!Partition(rounds[i].task) = AB!Partition(i)
                                        /\ AB!Partition(i) # "search"
    BY <1>2 DEF ProposalInv, WorldInv, RoundInv
<1>4. \A i \in DOMAIN rounds : i > at =>
         (AB!Partition(rounds[i].task) = "promotion" <=> i <= main)
    BY <1>1, <1>3 DEF AB!Partition
<1> HIDE DEF at, length, main
<1>5. AB!BlockOf(p) = at + 1 .. last
    <2>1. AB!BlockOf(p) = {i \in 1 .. length : i > at /\ i <= main}
        BY <1>1, <1>4 DEF AB!BlockOf, at
    <2> QED
        BY <2>1, <1>1, <1>2
<1>6. last - at = Block
    <2>1. last \in Int
        BY <1>1
    <2> HIDE DEF last
    <2>2. Block = IF at + 1 > last THEN 0 ELSE last - (at + 1) + 1
        BY <2>1, <1>2, <1>5, RangeSize
    <2> QED
        BY <2>1, <2>2, <1>1, <1>2
<1> QED
    BY <1>1, <1>2, <1>5, <1>6 DEF Own, at

\* A block the gate approves was won: the pairs one arm alone resolved make the
\* difference between the arms.
LEMMA ApprovedIsWon ==
    ASSUME AB!ContinuousABAssumption, NEW own, AB!IsFiniteSet(own), NEW pairs,
           DOMAIN pairs = own,
           \A i \in own : pairs[i].baseline \in BOOLEAN /\ pairs[i].evolved \in BOOLEAN,
           AB!Approves(pairs)
    PROVE  Won(pairs)
<1> DEFINE E == {i \in own : pairs[i].evolved}
           B == {i \in own : pairs[i].baseline}
           families == {pairs[i].family : i \in DOMAIN pairs}
<1>1. /\ AB!IsFiniteSet(E) /\ AB!IsFiniteSet(B)
      /\ AB!Cardinality(E) \in Nat /\ AB!Cardinality(B) \in Nat
      /\ AB!Cardinality(E \ B) \in Nat /\ AB!Cardinality(B \ E) \in Nat
    BY FinitePart
<1>2. AB!Wins(pairs) = AB!Cardinality(E \ B) /\ AB!Losses(pairs) = AB!Cardinality(B \ E)
    <2>1. E \ B = {i \in DOMAIN pairs : ~pairs[i].baseline /\ pairs[i].evolved}
        OBVIOUS
    <2>2. B \ E = {i \in DOMAIN pairs : pairs[i].baseline /\ ~pairs[i].evolved}
        OBVIOUS
    <2> QED
        BY <2>1, <2>2, Zenon DEF AB!Wins, AB!Losses
<1>3. AB!Wins(pairs) - AB!Losses(pairs) >= Margin /\ Margin \in Nat \ {0}
    BY DEF AB!Approves, AB!ContinuousABAssumption, AB!PromotionGateAssumption
<1>4. AB!Cardinality(E) - AB!Cardinality(B) = AB!Cardinality(E \ B) - AB!Cardinality(B \ E)
    BY <1>1, Balance
<1>5. AB!Cardinality(E) > AB!Cardinality(B)
    <2> HIDE DEF E, B
    <2> QED
        BY <1>1, <1>2, <1>3, <1>4
<1>6. /\ {i \in DOMAIN pairs : pairs[i]["evolved"] /\ pairs[i].family \in families} = E
      /\ {i \in DOMAIN pairs : pairs[i]["baseline"] /\ pairs[i].family \in families} = B
    OBVIOUS
<1>7. ASSUME NEW f \in families
      PROVE  AB!Cardinality({i \in DOMAIN pairs : pairs[i]["evolved"] /\ pairs[i].family \in {f}})
               >= AB!Cardinality({i \in DOMAIN pairs :
                                 pairs[i]["baseline"] /\ pairs[i].family \in {f}})
    <2> DEFINE mine == {i \in DOMAIN pairs : pairs[i].family = f}
    <2>1. AB!Cardinality({i \in mine : pairs[i].evolved})
            >= AB!Cardinality({i \in mine : pairs[i].baseline})
        BY <1>7 DEF AB!Approves, AB!FamilyNonregression
    <2>2. /\ {i \in DOMAIN pairs : pairs[i]["evolved"] /\ pairs[i].family \in {f}}
               = {i \in mine : pairs[i].evolved}
          /\ {i \in DOMAIN pairs : pairs[i]["baseline"] /\ pairs[i].family \in {f}}
               = {i \in mine : pairs[i].baseline}
        OBVIOUS
    <2> QED
        BY <2>1, <2>2
<1> QED
    BY <1>5, <1>6, <1>7 DEF Won

\* What was won stays won: the rounds of its block have retired.
LEMMA EarnedStays ==
    ASSUME RoundsGrow, NEW p, Earned(p), proposals'[p].at = proposals[p].at,
           proposals'[p].candidate = proposals[p].candidate
    PROVE  Earned(p)'
<1>1. Own(p)' = Own(p)
    BY DEF Own
<1>2. Own(p) \subseteq AB!Retired' /\ \A i \in Own(p) : rounds'[i] = rounds[i]
    BY DEF Earned, RoundsGrow
<1>3. [i \in Own(p) |-> rounds[i].pair]' = [i \in Own(p) |-> rounds[i].pair]
    BY <1>1, <1>2
<1> QED
    BY <1>1, <1>2, <1>3 DEF Earned

LEMMA PromotesEarned ==
    ASSUME AB!ContinuousABAssumption, WorldInv, ProposalInv, NEW p \in AB!Pending, Promotes(p)
    PROVE  Earned(p)
<1> DEFINE own == Own(p)
           pairs == AB!PairsOf(p)
<1>1. AB!BlockOf(p) = own
    BY BlockIsOwn DEF Promotes
<1>2. pairs = [i \in own |-> rounds[i].pair] /\ DOMAIN pairs = own
    BY <1>1 DEF AB!PairsOf
<1>3. AB!IsFiniteSet(own)
    <2>1. proposals[p] \in ProposalType
        BY DEF WorldInv, ABType, AB!Pending
    <2>2. proposals[p].at + 1 \in Int /\ proposals[p].at + Block \in Int
        BY <2>1 DEF ProposalType, AB!ContinuousABAssumption, AB!PromotionGateAssumption
    <2> QED
        BY <2>2, RangeSize DEF Own
<1>4. own \subseteq AB!Retired /\ \A i \in own : rounds[i].evolved = proposals[p].candidate
    BY <1>1 DEF Promotes
<1>5. \A i \in own : pairs[i].baseline \in BOOLEAN /\ pairs[i].evolved \in BOOLEAN
    <2> SUFFICES ASSUME NEW i \in own
                 PROVE  pairs[i].baseline \in BOOLEAN /\ pairs[i].evolved \in BOOLEAN
        OBVIOUS
    <2>1. i \in DOMAIN rounds /\ rounds[i].phase = "retired"
        BY <1>4 DEF AB!Retired
    <2>2. rounds[i] \in RoundType /\ rounds[i].pair # None
        BY <2>1, RoundIs DEF WorldInv, RoundInv
    <2>3. rounds[i].pair \in Measures
        BY <2>2 DEF RoundType
    <2>4. pairs[i] = rounds[i].pair
        BY <1>2
    <2> QED
        BY <2>3, <2>4 DEF Measures, AB!ContinuousABAssumption
<1>6. AB!Approves(pairs)
    BY DEF Promotes
<1>7. Won(pairs)
    <2> HIDE DEF own, pairs
    <2> QED
        BY <1>2, <1>3, <1>5, <1>6, ApprovedIsWon
<1> QED
    BY <1>2, <1>4, <1>7 DEF Earned

LEMMA ProposalStep ==
    ASSUME AB!ContinuousABAssumption, WorldInv, ProposalInv, AB!Next \/ UNCHANGED AB!vars
    PROVE  ProposalInv'
<1>1. WorldInv' /\ RoundsGrow
    BY WorldStep DEF WorldNext
<1>2. /\ proposals \in Seq(ProposalType) /\ Len(rounds) \in Nat /\ Len(rounds') \in Nat
      /\ Len(rounds) <= Len(rounds') /\ DOMAIN rounds = 1 .. Len(rounds)
    BY <1>1 DEF WorldInv, ABType, RoundsGrow
<1>3. \A p \in DOMAIN proposals : proposals[p] \in ProposalType /\ proposals[p].at \in Nat
    <2>1. \A p \in DOMAIN proposals : proposals[p] \in ProposalType
        BY <1>2
    <2> QED
        BY <2>1 DEF ProposalType
<1> DEFINE Fine(p) ==
            /\ proposals'[p].at <= Len(rounds')
            /\ proposals'[p].status = "proposed" =>
                 \A i \in DOMAIN rounds' : i > proposals'[p].at => AB!Partition(i) # "search"
            /\ proposals'[p].status \in {"promoted", "rolled_back"} => Earned(p)'
\* A proposal that keeps its status.
<1>4. ASSUME NEW p \in DOMAIN proposals, proposals'[p] = proposals[p]
      PROVE  Fine(p)
    <2>1. proposals'[p].at <= Len(rounds')
        BY <1>2, <1>3, <1>4 DEF ProposalInv
    <2>2. ASSUME proposals'[p].status = "proposed", NEW i \in DOMAIN rounds',
                 i > proposals'[p].at
          PROVE  AB!Partition(i) # "search"
        <3>1. p \in AB!Pending
            BY <1>4, <2>2 DEF AB!Pending
        <3>2. i \in DOMAIN rounds \/ AB!Partition(i) # "search"
            BY <3>1, <1>1 DEF RoundsGrow
        <3> QED
            BY <3>2, <2>2, <1>4 DEF ProposalInv
    <2>3. ASSUME proposals'[p].status \in {"promoted", "rolled_back"}
          PROVE  Earned(p)'
        <3>1. Earned(p)
            BY <2>3, <1>4 DEF ProposalInv
        <3> QED
            BY <3>1, <1>1, <1>4, EarnedStays
    <2> QED
        BY <2>1, <2>2, <2>3
<1>5. CASE Proposes /\ rounds' = rounds
    <2> DEFINE last == Len(proposals) + 1
    <2>1. /\ DOMAIN proposals' = DOMAIN proposals \cup {last}
          /\ \A p \in DOMAIN proposals : proposals'[p] = proposals[p]
          /\ proposals'[last].at = Len(rounds) /\ proposals'[last].status = "proposed"
        BY <1>2, <1>5 DEF Proposes
    <2>2. Fine(last)
        BY <2>1, <1>2, <1>5
    <2>3. \A p \in DOMAIN proposals' : Fine(p)
        BY <2>1, <2>2, <1>4
    <2> QED
        BY <2>3 DEF ProposalInv
<1>6. ASSUME NEW p \in DOMAIN proposals, Promotes(p) \/ Rejects(p) \/ RollsBack(p),
             rounds' = rounds
      PROVE  ProposalInv'
    <2>1. PICK status \in {"promoted", "rejected", "rolled_back"} :
            /\ proposals' = [proposals EXCEPT ![p].status = status]
            /\ status = "promoted" => Promotes(p)
            /\ status = "rolled_back" => RollsBack(p)
        BY <1>6 DEF Promotes, Rejects, RollsBack
    <2>2. /\ DOMAIN proposals' = DOMAIN proposals
          /\ \A q \in DOMAIN proposals : q # p => proposals'[q] = proposals[q]
          /\ proposals'[p] = [proposals[p] EXCEPT !.status = status]
        BY <2>1
    <2>3. /\ proposals'[p].at = proposals[p].at
          /\ proposals'[p].candidate = proposals[p].candidate /\ proposals'[p].status = status
        BY <2>2, <1>3 DEF ProposalType
    <2>4. ASSUME status \in {"promoted", "rolled_back"}
          PROVE  Earned(p)
        <3>1. CASE Promotes(p)
            BY <3>1, PromotesEarned DEF Promotes
        <3>2. CASE RollsBack(p)
            BY <3>2 DEF RollsBack, Promoted, ProposalInv
        <3> QED
            BY <2>1, <2>4, <3>1, <3>2
    <2>5. Fine(p)
        <3>1. proposals'[p].at <= Len(rounds')
            BY <2>3, <1>6 DEF ProposalInv
        <3>2. status \in {"promoted", "rolled_back"} => Earned(p)'
            BY <2>3, <2>4, <1>1, EarnedStays
        <3> QED
            BY <3>1, <3>2, <2>1, <2>3
    <2>6. \A q \in DOMAIN proposals' : Fine(q)
        BY <2>2, <2>5, <1>4
    <2> QED
        BY <2>6 DEF ProposalInv
<1>7. CASE UNCHANGED proposals
    <2>1. \A p \in DOMAIN proposals' : Fine(p)
        BY <1>4, <1>7
    <2> QED
        BY <2>1 DEF ProposalInv
<1> QED
    BY <1>5, <1>6, <1>7, ProposalMoves DEF Settles

-----------------------------------------------------------------------------

\* A proposal that becomes promoted is added to the trail, one that is rolled back is
\* taken off it.
LEMMA TrailMoves ==
    ASSUME WorldInv, NEW p \in DOMAIN proposals,
           NEW status \in {"promoted", "rejected", "rolled_back"},
           proposals' = [proposals EXCEPT ![p].status = status]
    PROVE  \A agent :
             /\ status = "promoted" =>
                  /\ Into(agent)' = Into(agent)
                                     \cup {q \in {p} : proposals[p].candidate = agent}
                  /\ OutOf(agent)' = OutOf(agent)
                                      \cup {q \in {p} : proposals[p].parent = agent}
             /\ status # "promoted" =>
                  Into(agent)' = Into(agent) \ {p} /\ OutOf(agent)' = OutOf(agent) \ {p}
<1>1. proposals \in Seq(ProposalType)
    BY DEF WorldInv, ABType
<1>2. proposals[p] \in ProposalType
    BY <1>1
<1>3. /\ DOMAIN proposals' = DOMAIN proposals
      /\ \A q \in DOMAIN proposals : q # p => proposals'[q] = proposals[q]
      /\ proposals'[p] = [proposals[p] EXCEPT !.status = status]
    BY <1>1
<1>4. /\ proposals'[p].status = status /\ proposals'[p].parent = proposals[p].parent
      /\ proposals'[p].candidate = proposals[p].candidate
    BY <1>2, <1>3 DEF ProposalType
<1>5. \A q \in DOMAIN proposals : /\ proposals'[q].parent = proposals[q].parent
                                  /\ proposals'[q].candidate = proposals[q].candidate
    BY <1>3, <1>4
<1>6. Promoted' = IF status = "promoted" THEN Promoted \cup {p} ELSE Promoted \ {p}
    BY <1>3, <1>4 DEF Promoted
<1> QED
    BY <1>5, <1>6 DEF Into, OutOf, Promoted

LEMMA TrailFinite ==
    ASSUME WorldInv, NEW agent
    PROVE  /\ AB!IsFiniteSet(Into(agent)) /\ AB!Cardinality(Into(agent)) \in Nat
           /\ AB!IsFiniteSet(OutOf(agent)) /\ AB!Cardinality(OutOf(agent)) \in Nat
<1>1. Len(proposals) \in Nat /\ DOMAIN proposals = 1 .. Len(proposals)
    BY DEF WorldInv, ABType
<1>2. AB!IsFiniteSet(DOMAIN proposals)
    BY <1>1, RangeSize
<1> QED
    BY <1>2, FinitePart DEF Into, OutOf, Promoted

\* Adding to a set of proposals one that may belong there, and taking one off.
LEMMA MaybeMore ==
    ASSUME NEW S, AB!IsFiniteSet(S), AB!Cardinality(S) \in Nat, NEW x, x \notin S,
           NEW T \in SUBSET {x}
    PROVE  AB!Cardinality(S \cup T) = AB!Cardinality(S) + One(x \in T)
<1>1. CASE x \in T
    <2>1. S \cup T = S \cup {x}
        BY <1>1
    <2> QED
        BY <1>1, <2>1, OneMore DEF One
<1>2. CASE x \notin T
    <2>1. S \cup T = S
        BY <1>2
    <2>2. AB!Cardinality(S \cup T) = AB!Cardinality(S)
        BY <2>1, Zenon
    <2> QED
        BY <1>2, <2>2 DEF One
<1> QED
    BY <1>1, <1>2

LEMMA MaybeLess ==
    ASSUME NEW S, AB!IsFiniteSet(S), AB!Cardinality(S) \in Nat, NEW x
    PROVE  AB!Cardinality(S) = AB!Cardinality(S \ {x}) + One(x \in S)
<1> DEFINE T == S \ {x}
<1>1. AB!IsFiniteSet(T) /\ AB!Cardinality(T) \in Nat
    BY FinitePart
<1>2. CASE x \in S
    <2>1. S = T \cup {x} /\ x \notin T
        BY <1>2
    <2> QED
        BY <1>1, <1>2, <2>1, OneMore DEF One
<1>3. CASE x \notin S
    <2>1. S = S \ {x}
        BY <1>3
    <2>2. AB!Cardinality(S) = AB!Cardinality(S \ {x})
        BY <2>1, Zenon
    <2> QED
        BY <1>3, <2>2 DEF One
<1> QED
    BY <1>2, <1>3

LEMMA TrailStep ==
    ASSUME AB!ContinuousABAssumption, WorldInv, TrailInv, AB!Next \/ UNCHANGED AB!vars
    PROVE  TrailInv'
<1> SUFFICES ASSUME NEW agent \in Agents
             PROVE  AB!Cardinality(Into(agent)') + One(agent = InitialAgent)
                        = AB!Cardinality(OutOf(agent)') + One(agent = active')
    BY DEF TrailInv
<1>1. AB!Cardinality(Into(agent)) + One(agent = InitialAgent)
        = AB!Cardinality(OutOf(agent)) + One(agent = active)
    BY DEF TrailInv
<1>2. /\ AB!IsFiniteSet(Into(agent)) /\ AB!Cardinality(Into(agent)) \in Nat
      /\ AB!IsFiniteSet(OutOf(agent)) /\ AB!Cardinality(OutOf(agent)) \in Nat
    BY TrailFinite
<1>3. CASE Into(agent)' = Into(agent) /\ OutOf(agent)' = OutOf(agent) /\ active' = active
    BY <1>1, <1>3
<1>4. CASE Proposes
    <2>1. proposals \in Seq(ProposalType) /\ Len(proposals) \in Nat
        BY DEF WorldInv, ABType
    <2>2. /\ DOMAIN proposals' = DOMAIN proposals \cup {Len(proposals) + 1}
          /\ \A p \in DOMAIN proposals : proposals'[p] = proposals[p]
          /\ proposals'[Len(proposals) + 1].status = "proposed"
        BY <2>1, <1>4 DEF Proposes
    <2>3. Promoted' = Promoted
        BY <2>2 DEF Promoted
    <2>4. Into(agent)' = Into(agent) /\ OutOf(agent)' = OutOf(agent)
        BY <2>2, <2>3 DEF Into, OutOf, Promoted
    <2> QED
        BY <1>3, <1>4, <2>4 DEF Proposes
<1>5. ASSUME NEW p \in DOMAIN proposals, Promotes(p)
      PROVE  AB!Cardinality(Into(agent)') + One(agent = InitialAgent)
                 = AB!Cardinality(OutOf(agent)') + One(agent = active')
    <2>1. /\ Into(agent)' = Into(agent) \cup {q \in {p} : proposals[p].candidate = agent}
          /\ OutOf(agent)' = OutOf(agent) \cup {q \in {p} : proposals[p].parent = agent}
        BY <1>5, TrailMoves DEF Promotes
    <2>2. p \notin Into(agent) /\ p \notin OutOf(agent)
        BY <1>5 DEF Promotes, AB!Pending, Into, OutOf, Promoted
    <2> DEFINE entered == {q \in {p} : proposals[p].candidate = agent}
               left == {q \in {p} : proposals[p].parent = agent}
    <2>3. /\ AB!Cardinality(Into(agent)') = AB!Cardinality(Into(agent)) + One(p \in entered)
          /\ AB!Cardinality(OutOf(agent)') = AB!Cardinality(OutOf(agent)) + One(p \in left)
        <3>1. entered \in SUBSET {p} /\ left \in SUBSET {p}
            OBVIOUS
        <3> HIDE DEF entered, left
        <3>2. AB!Cardinality(Into(agent) \cup entered)
                = AB!Cardinality(Into(agent)) + One(p \in entered)
            BY <3>1, <2>2, <1>2, MaybeMore
        <3>3. AB!Cardinality(OutOf(agent) \cup left) = AB!Cardinality(OutOf(agent)) + One(p \in left)
            BY <3>1, <2>2, <1>2, MaybeMore
        <3> QED
            BY <2>1, <3>2, <3>3 DEF entered, left
    <2>4. proposals[p].parent = active /\ active' = proposals[p].candidate
        BY <1>5 DEF Promotes
    <2> QED
        BY <2>3, <2>4, <1>1, <1>2 DEF One
<1>6. ASSUME NEW p \in DOMAIN proposals, Rejects(p)
      PROVE  Into(agent)' = Into(agent) /\ OutOf(agent)' = OutOf(agent) /\ active' = active
    <2>1. Into(agent)' = Into(agent) \ {p} /\ OutOf(agent)' = OutOf(agent) \ {p}
        BY <1>6, TrailMoves DEF Rejects
    <2>2. p \notin Into(agent) /\ p \notin OutOf(agent)
        BY <1>6 DEF Rejects, AB!Pending, Into, OutOf, Promoted
    <2> QED
        BY <2>1, <2>2, <1>6 DEF Rejects
<1>7. ASSUME NEW p \in DOMAIN proposals, RollsBack(p)
      PROVE  AB!Cardinality(Into(agent)') + One(agent = InitialAgent)
                 = AB!Cardinality(OutOf(agent)') + One(agent = active')
    <2>1. Into(agent)' = Into(agent) \ {p} /\ OutOf(agent)' = OutOf(agent) \ {p}
        BY <1>7, TrailMoves DEF RollsBack
    <2>2. /\ AB!Cardinality(Into(agent)) = AB!Cardinality(Into(agent)') + One(p \in Into(agent))
          /\ AB!Cardinality(OutOf(agent)) = AB!Cardinality(OutOf(agent)') + One(p \in OutOf(agent))
        BY <2>1, <1>2, MaybeLess
    <2>3. /\ p \in Into(agent) <=> agent = active
          /\ p \in OutOf(agent) <=> agent = active'
        BY <1>7 DEF RollsBack, Into, OutOf
    <2>4. AB!Cardinality(Into(agent)') \in Nat /\ AB!Cardinality(OutOf(agent)') \in Nat
        BY <2>1, <1>2, FinitePart
    <2> QED
        BY <2>2, <2>3, <2>4, <1>1, <1>2 DEF One
<1>8. CASE UNCHANGED <<proposals, active>>
    <2>1. Into(agent)' = Into(agent) /\ OutOf(agent)' = OutOf(agent)
        BY <1>8 DEF Into, OutOf, Promoted
    <2> QED
        BY <2>1, <1>3, <1>8
<1> QED
    BY <1>3, <1>4, <1>5, <1>6, <1>7, <1>8, ProposalMoves DEF Settles

LEMMA ABStep ==
    ASSUME AB!ContinuousABAssumption, ABInv, AB!Next \/ UNCHANGED AB!vars
    PROVE  ABInv'
BY WorldStep, ProposalStep, TrailStep DEF ABInv, WorldInv, WorldNext

\* The agent the trail ends in was entered, unless it is the one it starts from.
LEMMA ABEarned ==
    ASSUME AB!ContinuousABAssumption, ABInv
    PROVE  AB!TaskIsMeasuredOnce /\ AB!PromotionIsEarned
<1>1. AB!TaskIsMeasuredOnce
    <2>1. \A i \in AB!Retired : rounds[i].pair # None
        BY DEF ABInv, RoundInv, AB!Retired
    <2> QED
        BY <2>1 DEF ABInv, RoundInv, AB!TaskIsMeasuredOnce
<1>2. active = InitialAgent \/ \E p \in DOMAIN proposals :
        proposals[p].status = "promoted" /\ proposals[p].candidate = active
    <2> SUFFICES ASSUME active # InitialAgent
                 PROVE  \E p \in DOMAIN proposals :
                          proposals[p].status = "promoted" /\ proposals[p].candidate = active
        OBVIOUS
    <2>1. active \in Agents
        BY DEF ABInv, ABType
    <2>2. AB!Cardinality(Into(active)) = AB!Cardinality(OutOf(active)) + 1
        <3>1. AB!Cardinality(Into(active)) + One(active = InitialAgent)
                = AB!Cardinality(OutOf(active)) + One(active = active)
            BY <2>1 DEF ABInv, TrailInv
        <3>2. AB!Cardinality(Into(active)) \in Nat /\ AB!Cardinality(OutOf(active)) \in Nat
            BY TrailFinite DEF ABInv, WorldInv
        <3> QED
            BY <3>1, <3>2 DEF One
    <2>3. Into(active) # {}
        <3>1. AB!Cardinality(OutOf(active)) \in Nat
            BY TrailFinite DEF ABInv, WorldInv
        <3>2. AB!Cardinality(1 .. 0) = 0
            BY RangeSize
        <3>3. 1 .. 0 = {}
            OBVIOUS
        <3>4. AB!Cardinality({}) = 0
            BY <3>2, <3>3, Zenon
        <3>5. SUFFICES ASSUME Into(active) = {}
                       PROVE  FALSE
            OBVIOUS
        <3>6. AB!Cardinality(Into(active)) = 0
            BY <3>4, <3>5, Zenon
        <3> QED
            BY <2>2, <3>1, <3>6
    <2> QED
        BY <2>3 DEF Into, Promoted
<1>3. ASSUME NEW p \in DOMAIN proposals, proposals[p].status \in {"promoted", "rolled_back"}
      PROVE  LET own == {i \in DOMAIN rounds : /\ i > proposals[p].at
                                               /\ i <= proposals[p].at + Block}
                 resolved(arm, family) ==
                     AB!Cardinality({i \in own : rounds[i].pair[arm]
                                                /\ rounds[i].pair.family \in family})
                 families == {rounds[i].pair.family : i \in own}
             IN /\ AB!Cardinality(own) = Block /\ own \subseteq AB!Retired
                /\ \A i \in own : rounds[i].evolved = proposals[p].candidate
                /\ resolved("evolved", families) > resolved("baseline", families)
                /\ \A f \in families : resolved("evolved", {f}) >= resolved("baseline", {f})
    <2> DEFINE own == {i \in DOMAIN rounds : i > proposals[p].at
                                              /\ i <= proposals[p].at + Block}
               pairs == [i \in own |-> rounds[i].pair]
               families == {rounds[i].pair.family : i \in own}
               measured(arm, family) ==
                   {i \in DOMAIN pairs : pairs[i][arm] /\ pairs[i].family \in family}
               resolved(arm, family) ==
                   {i \in own : rounds[i].pair[arm] /\ rounds[i].pair.family \in family}
    <2>1. Earned(p)
        BY <1>3 DEF ABInv, ProposalInv
    <2>2. /\ proposals[p].at \in Nat /\ Block \in Nat \ {0}
          /\ DOMAIN rounds = 1 .. Len(rounds) /\ Len(rounds) \in Nat
        <3>1. proposals[p] \in ProposalType
            BY DEF ABInv, ABType
        <3> QED
            BY <3>1 DEF ProposalType, ABInv, ABType, AB!ContinuousABAssumption,
                        AB!PromotionGateAssumption
    <2>3. Own(p) \subseteq DOMAIN rounds
        BY <2>1 DEF Earned, AB!Retired
    <2>4. own = Own(p)
        BY <2>2, <2>3 DEF Own
    <2>5. AB!Cardinality(own) = Block
        <3> DEFINE at == proposals[p].at
                   first == at + 1
                   last == at + Block
        <3>1. at \in Nat /\ first \in Int /\ last \in Int
            BY <2>2
        <3>2. ~(first > last) /\ last - first + 1 = Block
            BY <2>2
        <3> HIDE DEF at, first, last
        <3>3. AB!Cardinality(first .. last) = Block
            BY <3>1, <3>2, RangeSize
        <3> QED
            BY <2>4, <3>3 DEF Own, at, first, last
    <2>6. Won(pairs)
        BY <2>1, <2>4 DEF Earned
    <2>7. DOMAIN pairs = own /\ \A i \in own : pairs[i] = rounds[i].pair
        OBVIOUS
    <2>8. /\ \A arm, family : measured(arm, family) = resolved(arm, family)
          /\ {pairs[i].family : i \in DOMAIN pairs} = families
        BY <2>7
    <2>9. /\ AB!Cardinality(measured("evolved", families))
               > AB!Cardinality(measured("baseline", families))
          /\ \A f \in families : AB!Cardinality(measured("evolved", {f}))
                                   >= AB!Cardinality(measured("baseline", {f}))
        BY <2>6, <2>8 DEF Won
    <2>10. /\ AB!Cardinality(resolved("evolved", families))
               > AB!Cardinality(resolved("baseline", families))
           /\ \A f \in families : AB!Cardinality(resolved("evolved", {f}))
                                    >= AB!Cardinality(resolved("baseline", {f}))
        BY <2>8, <2>9, Zenon
    <2>11. own \subseteq AB!Retired /\ \A i \in own : rounds[i].evolved = proposals[p].candidate
        BY <2>1, <2>4 DEF Earned
    <2> QED
        BY <2>5, <2>10, <2>11
<1> QED
    BY <1>1, <1>2, <1>3 DEF AB!PromotionIsEarned

-----------------------------------------------------------------------------
(* The services together: a behaviour is one of a service, to the end.     *)

ServicesInv ==
    /\ service = "durable operation" => DurableInv
    /\ service = "continuous ab" => ABInv
    /\ service = "evolution search" => ChargeInv /\ SearchInv

LEMMA ServicesInit == Init => ServicesInv
<1> SUFFICES ASSUME Init PROVE ServicesInv
    OBVIOUS
<1>1. ASSUME service = "durable operation" PROVE DurableInv
    <2>1. Durable!Init
        BY <1>1 DEF Init, InitDurable
    <2> QED
        BY <2>1, DurableInit, EngineAssumption
<1>2. ASSUME service = "evolution search" PROVE ChargeInv /\ SearchInv
    <2>1. Search!Init
        BY <1>2 DEF Init, InitSearch
    <2>2. ChargeInv
        BY <2>1, ChargeInit, EngineAssumption
    <2>3. SearchInv
        BY <2>1, SearchInit, EngineAssumption
    <2> QED
        BY <2>2, <2>3
<1>3. ASSUME service = "continuous ab" PROVE ABInv
    <2>1. AB!Init
        BY <1>3 DEF Init, InitAB
    <2> QED
        BY <2>1, ABInit, EngineAssumption
<1> QED
    BY <1>1, <1>2, <1>3 DEF ServicesInv

\* A step of a behaviour is a step of its service, or none.
LEMMA StepOfService ==
    ASSUME [Next]_vars
    PROVE  /\ service' = service
           /\ service = "durable operation" => [Durable!Next]_(Durable!vars)
           /\ service = "continuous ab" => [AB!Next]_(AB!vars)
           /\ service = "evolution search" => [Search!Next]_(Search!vars)
<1>1. CASE Next
    BY <1>1 DEF Next
<1>2. CASE UNCHANGED vars
    <2>1. UNCHANGED <<service, durable, ab, search>>
        BY <1>2 DEF vars
    <2>2. UNCHANGED Durable!vars
        BY <2>1 DEF durable, Durable!vars
    <2>3. UNCHANGED Search!vars
        BY <2>1 DEF search, Search!vars, Search!controller, Search!files, Search!archive,
                    Search!kept
    <2>4. UNCHANGED AB!vars
        BY <2>1 DEF ab, AB!vars, AB!registry
    <2> QED
        BY <2>1, <2>2, <2>3, <2>4
<1> QED
    BY <1>1, <1>2

LEMMA ServicesNext == ServicesInv /\ [Next]_vars => ServicesInv'
<1> SUFFICES ASSUME ServicesInv, [Next]_vars PROVE ServicesInv'
    OBVIOUS
<1>1. service' = service
    BY StepOfService
<1>2. ASSUME service = "durable operation" PROVE DurableInv'
    <2>1. [Durable!Next]_(Durable!vars) /\ DurableInv
        BY <1>2, StepOfService DEF ServicesInv
    <2> QED
        BY <2>1, DurableNext, EngineAssumption
<1>3. ASSUME service = "evolution search" PROVE ChargeInv' /\ SearchInv'
    <2>1. [Search!Next]_(Search!vars) /\ ChargeInv /\ SearchInv
        BY <1>3, StepOfService DEF ServicesInv
    <2>2. ChargeInv'
        BY <2>1, ChargeNext, EngineAssumption
    <2>3. SearchInv'
        BY <2>1, SearchNext, EngineAssumption
    <2> QED
        BY <2>2, <2>3
<1>4. ASSUME service = "continuous ab" PROVE ABInv'
    <2>1. [AB!Next]_(AB!vars) /\ ABInv
        BY <1>4, StepOfService DEF ServicesInv
    <2> QED
        BY <2>1, ABStep, EngineAssumption
<1> QED
    BY <1>1, <1>2, <1>3, <1>4 DEF ServicesInv

LEMMA ServicesInvariance == Spec => []ServicesInv
BY ServicesInit, ServicesNext, PTL DEF Spec

\* Durable operations: an attempt is executed under one lease that still runs.
AttemptIsNotShared == service = "durable operation" => Durable!AttemptIsNotShared

\* Two workers execute the same attempt of an operation only after the lease of one
\* has run out, whatever workers that lost their lease record meanwhile.
THEOREM AttemptBelongsToOne == Spec => []AttemptIsNotShared
<1>1. ServicesInv => AttemptIsNotShared
    BY DEF ServicesInv, DurableInv, AttemptIsNotShared
<1> QED
    BY <1>1, ServicesInvariance, PTL

\* A worker that executes under a lease that still runs is alone in the operation,
\* unless a worker that had lost its lease recorded its failure over the row.
THEOREM LeaseIsExclusive == Spec => []LeaseExcludes
<1>1. DurableInv => Durable!LeaseExcludes
    BY DEF DurableInv, LeaseInv, Leased, Durable!LeaseExcludes
<1>2. ServicesInv => LeaseExcludes
    BY <1>1 DEF ServicesInv, LeaseExcludes
<1> QED
    BY <1>2, ServicesInvariance, PTL

\* A completed operation is reopened only because its result is gone or changed, or by
\* the failure of a worker that lost the lease.
THEOREM CompletionIsKept == Spec => CompletedIsKept
<1>1. ASSUME ServicesInv, [Next]_vars PROVE KeepsCompletion
    <2>1. ASSUME service = "durable operation" PROVE Durable!KeepsCompletion
        <3>1. [Durable!Next]_(Durable!vars) /\ DurableInv
            BY <1>1, <2>1, StepOfService DEF ServicesInv
        <3> QED
            BY <3>1, KeepsStep, EngineAssumption
    <2> QED
        BY <2>1 DEF KeepsCompletion
<1>2. ServicesInv /\ [Next]_vars => [KeepsCompletion]_vars
    BY <1>1
<1> QED
    BY <1>2, ServicesInvariance, PTL DEF Spec, CompletedIsKept

\* reserve_agent_call is the only way to a dispatch: whatever is killed, restarted,
\* retracted or quarantined, a call is dispatched at most as often as it was charged,
\* charged again only after a retraction, and the total stays within the cap.
THEOREM CallsStayCharged == Spec => []CallsAreCharged
<1>1. ChargeInv => Search!CallsAreCharged
    BY DEF ChargeInv, Accounts, CallFits, Search!CallsAreCharged
<1>2. ServicesInv => CallsAreCharged
    BY <1>1 DEF ServicesInv, CallsAreCharged
<1> QED
    BY <1>2, ServicesInvariance, PTL

\* Wherever a run of the search was killed between the writes of its controller and of
\* the candidate archive, the search parents of both are the winners of confirmations,
\* in the order of the decisions, and the archive is ahead by one at most; and a run that
\* is started again finds its earlier decisions, claims and states where it expects them.
THEOREM ParentsAreEarned == Spec => []LineageIsEarned
<1>1. ServicesInv => LineageIsEarned
    BY SearchEarned, EngineAssumption DEF ServicesInv, LineageIsEarned
<1> QED
    BY <1>1, ServicesInvariance, PTL

\* Whatever writes a kill falls between, a task is measured by one round; and the agent
\* that serves is the initial one or was promoted by the gate on the block of rounds
\* that followed its proposal, which it won as a whole and lost in no family.
THEOREM PromotionsAreEarned == Spec => []PromotionIsEarned
<1>1. ServicesInv => PromotionIsEarned
    BY ABEarned, EngineAssumption DEF ServicesInv, PromotionIsEarned
<1> QED
    BY <1>1, ServicesInvariance, PTL
=============================================================================
