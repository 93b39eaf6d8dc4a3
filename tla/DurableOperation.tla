-------------------------- MODULE DurableOperation --------------------------
(***************************************************************************)
(* DurableOperationService: several worker processes run one operation     *)
(* whose row lives in SQLite.  A worker claims the row with a lease, runs  *)
(* the trusted integration into the attempt's directory, hashes the result *)
(* and completes the row.  An expired lease is recovered under the same    *)
(* attempt, a completed row is answered from its result while the result   *)
(* is intact.  A transaction is one action; what a worker does outside of  *)
(* one interleaves with the others.  The runner is external.               *)
(***************************************************************************)
EXTENDS Naturals, FiniteSets

CONSTANTS
    Workers,
    Foreign,        \* workers that were started with another contract
    LeaseTime,
    None,
    MaxTime,        \* bound on the clock
    MaxAttempts,    \* bound on attempts
    MaxFaults       \* bound on kills, failing runs and altered results

DurableOperationAssumption ==
    /\ Foreign \subseteq Workers /\ LeaseTime \in Nat \ {0}
    /\ MaxTime \in Nat /\ MaxAttempts \in Nat \ {0} /\ MaxFaults \in Nat
    /\ None \notin Workers \cup Nat

Attempts == 1 .. MaxAttempts

VARIABLES
    row,       \* the operation's row
    file,      \* attempt -> bytes of its result.json: who wrote them
    worker,    \* worker -> place, clock reading, attempt, hash it took
    usurped,   \* a worker without the lease has recorded a failure
    now, faults

vars == <<row, file, worker, usurped, now, faults>>

Idle == [pc |-> "idle", now |-> 0, attempt |-> 0, reuse |-> FALSE, hash |-> None]
NoRow == [status |-> "none", contract |-> FALSE, attempt |-> 0, owner |-> None,
          expires |-> 0, result |-> 0, hash |-> None]

Init ==
    /\ row = NoRow /\ file = [a \in Attempts |-> None]
    /\ worker = [w \in Workers |-> Idle]
    /\ usurped = FALSE /\ now = 0 /\ faults = 0

Move(w, fields) == worker' = [worker EXCEPT ![w] = fields]
To(w, place) == Move(w, [worker[w] EXCEPT !.pc = place])

Owns(w) == row.owner = w /\ row.attempt = worker[w].attempt /\ row.status = "running"

ResultIsValid == row.result # 0 /\ file[row.result] # None /\ file[row.result] = row.hash

-----------------------------------------------------------------------------
(* A worker's run.                                                         *)

\* The clock is read once, before the claim.
Start(w) ==
    /\ worker[w].pc = "idle"
    /\ Move(w, [Idle EXCEPT !.pc = "claim", !.now = now])
    /\ UNCHANGED <<row, file, usurped, now, faults>>

\* The first transaction creates the row.
Prepare(w) ==
    /\ worker[w].pc = "claim" /\ row.status = "none"
    /\ row' = [NoRow EXCEPT !.status = "prepared", !.contract = (w \in Foreign)]
    /\ UNCHANGED <<file, worker, usurped, now, faults>>

\* Another contract, or another worker's unexpired lease.
Refuse(w) ==
    /\ worker[w].pc = "claim" /\ row.status # "none"
    /\ \/ row.contract # (w \in Foreign)
       \/ row.status = "running" /\ row.expires > worker[w].now
    /\ Move(w, Idle)
    /\ UNCHANGED <<row, file, usurped, now, faults>>

\* A completed operation is answered; the row is read again for the answer.
Replay(w) ==
    /\ worker[w].pc = "claim" /\ row.contract = (w \in Foreign)
    /\ row.status = "completed" /\ ResultIsValid
    /\ Move(w, Idle)
    /\ UNCHANGED <<row, file, usurped, now, faults>>

Lease(w, attempt) ==
    row' = [NoRow EXCEPT !.status = "running", !.contract = row.contract,
                         !.attempt = attempt, !.owner = w,
                         !.expires = worker[w].now + LeaseTime]

\* Prepared, failed, or completed with a result that is gone or changed, which is
\* put aside: a new attempt.
Claim(w) ==
    /\ worker[w].pc = "claim" /\ row.contract = (w \in Foreign)
    /\ row.attempt < MaxAttempts
    /\ \/ row.status \in {"prepared", "failed"} /\ UNCHANGED file
       \/ /\ row.status = "completed" /\ ~ResultIsValid
          /\ file' = [file EXCEPT ![row.result] = None]
    /\ Lease(w, row.attempt + 1)
    /\ Move(w, [worker[w] EXCEPT !.pc = "execute", !.attempt = row.attempt + 1])
    /\ UNCHANGED <<usurped, now, faults>>

\* Mutant: a running row is recovered whether or not its lease has expired.
RecoverEarly(w) ==
    /\ worker[w].pc = "claim" /\ row.contract = (w \in Foreign)
    /\ row.status = "running"
    /\ Lease(w, row.attempt)
    /\ Move(w, [worker[w] EXCEPT !.pc = "execute", !.attempt = row.attempt,
                                 !.reuse = file[row.attempt] # None])
    /\ UNCHANGED <<file, usurped, now, faults>>

\* An expired lease is taken over with its attempt, and with its result if the
\* lost worker had written one.
Recover(w) ==
    /\ worker[w].pc = "claim" /\ row.contract = (w \in Foreign)
    /\ row.status = "running" /\ row.expires <= worker[w].now
    /\ Lease(w, row.attempt)
    /\ Move(w, [worker[w] EXCEPT !.pc = "execute", !.attempt = row.attempt,
                                 !.reuse = file[row.attempt] # None])
    /\ UNCHANGED <<file, usurped, now, faults>>

\* Run the integration, or take the result that is there.
Execute(w) ==
    /\ worker[w].pc = "execute" /\ ~worker[w].reuse
    /\ file' = [file EXCEPT ![worker[w].attempt] = w] /\ To(w, "hash")
    /\ UNCHANGED <<row, usurped, now, faults>>

Reuse(w) ==
    /\ worker[w].pc = "execute" /\ worker[w].reuse
    /\ To(w, IF file[worker[w].attempt] = None THEN "fail" ELSE "hash")
    /\ UNCHANGED <<row, file, usurped, now, faults>>

\* The result is hashed before the transaction that completes the row.
Hash(w) ==
    /\ worker[w].pc = "hash"
    /\ LET bytes == file[worker[w].attempt] IN
         IF bytes = None THEN To(w, "fail")
         ELSE Move(w, [worker[w] EXCEPT !.pc = "commit", !.hash = bytes])
    /\ UNCHANGED <<row, file, usurped, now, faults>>

\* Mutant: the row is completed whoever holds the lease.
CommitUnchecked(w) ==
    /\ worker[w].pc = "commit"
    /\ row' = [row EXCEPT !.status = "completed", !.owner = None, !.expires = 0,
                          !.result = worker[w].attempt, !.hash = worker[w].hash]
    /\ Move(w, Idle)
    /\ UNCHANGED <<file, usurped, now, faults>>

\* Complete the row, as its owner; a worker that lost the lease goes on to record
\* a failure.
Commit(w) ==
    /\ worker[w].pc = "commit"
    /\ IF Owns(w)
       THEN /\ row' = [row EXCEPT !.status = "completed", !.owner = None, !.expires = 0,
                                  !.result = row.attempt, !.hash = worker[w].hash]
            /\ Move(w, Idle)
       ELSE To(w, "fail") /\ UNCHANGED row
    /\ UNCHANGED <<file, usurped, now, faults>>

\* _record_failure sets the row to failed without looking at it.
RecordFailure(w) ==
    /\ worker[w].pc = "fail"
    /\ row' = [row EXCEPT !.status = "failed", !.owner = None, !.expires = 0]
    /\ usurped' = (usurped \/ ~Owns(w))
    /\ Move(w, Idle)
    /\ UNCHANGED <<file, now, faults>>

-----------------------------------------------------------------------------
(* The environment.                                                        *)

Disturb == faults < MaxFaults /\ faults' = faults + 1

\* The integration fails, times out or exceeds the artifact budget.
RunFails(w) ==
    /\ worker[w].pc = "execute" /\ ~worker[w].reuse /\ Disturb
    /\ file' \in {file, [file EXCEPT ![worker[w].attempt] = w]}
    /\ To(w, "fail")
    /\ UNCHANGED <<row, usurped, now>>

Kill(w) ==
    /\ worker[w].pc # "idle" /\ Disturb
    /\ Move(w, Idle) /\ UNCHANGED <<row, file, usurped, now>>

\* A result file is lost or truncated.
Alter ==
    /\ Disturb
    /\ \E a \in Attempts : file[a] # None /\ file' = [file EXCEPT ![a] = None]
    /\ UNCHANGED <<row, worker, usurped, now>>

Tick == now < MaxTime /\ now' = now + 1 /\ UNCHANGED <<row, file, worker, usurped, faults>>

Run(w) == \/ Start(w) \/ Prepare(w) \/ Refuse(w) \/ Replay(w) \/ Claim(w) \/ Recover(w)
          \/ Execute(w) \/ Reuse(w) \/ Hash(w) \/ Commit(w) \/ RecordFailure(w)

Next == (\E w \in Workers : Run(w) \/ RunFails(w) \/ Kill(w)) \/ Alter \/ Tick
Spec == Init /\ [][Next]_vars

-----------------------------------------------------------------------------
(* Properties.                                                             *)

\* Every variable has its type.
TypeOK ==
    /\ row \in [status : {"none", "prepared", "running", "failed", "completed"},
                contract : BOOLEAN, attempt : Nat, owner : Workers \cup {None},
                expires : Nat, result : Nat, hash : Workers \cup {None}]
    /\ file \in [Attempts -> Workers \cup {None}]
    /\ worker \in [Workers -> [pc : {"idle", "claim", "execute", "hash", "commit", "fail"},
                                now : Nat, attempt : Nat, reuse : BOOLEAN,
                                hash : Workers \cup {None}]]
    /\ usurped \in BOOLEAN /\ now \in Nat /\ faults \in Nat

Holding(w) == worker[w].pc \in {"execute", "hash", "commit"}
Unexpired(w) == worker[w].now + LeaseTime > now

\* Two workers execute one attempt only after the first one's lease has run out.
AttemptIsNotShared ==
    \A v, w \in Workers :
        (v # w /\ Holding(v) /\ Holding(w) /\ worker[v].attempt = worker[w].attempt)
            => ~Unexpired(v) \/ ~Unexpired(w)

\* Two workers whose leases both still run execute nothing at the same time, unless
\* a worker that had lost its lease recorded its failure over the row of another.
LeaseExcludes ==
    \A v, w \in Workers :
        (v # w /\ Holding(v) /\ Holding(w) /\ Unexpired(v) /\ Unexpired(w)) => usurped

\* A completed operation is reopened only because its result is gone or changed, or
\* by the failure of a worker that lost the lease; and a completed row names the
\* bytes a worker of its contract hashed in its last attempt.
KeepsCompletion ==
    /\ (row.status = "completed" /\ row'.status # "completed") =>
          ~ResultIsValid \/ (usurped' /\ row'.status = "failed")
    /\ row'.status = "completed" => /\ row'.result = row'.attempt
                                    /\ row'.attempt = row.attempt
                                    /\ (row.status = "running" \/ row = row')
CompletedIsKept == [][KeepsCompletion]_vars
=============================================================================
