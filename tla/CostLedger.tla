------------------------------ MODULE CostLedger ------------------------------
(***************************************************************************)
(* kernel/budget_manager.py, class DurableCostLedger: the append-only file  *)
(* of reservations and charges that every paid Teacher call goes through,   *)
(* used by several processes at once and across crashes.                    *)
(*                                                                         *)
(* Three files are shared: the event log, the head anchor (which names the  *)
(* last event and is replaced atomically) and the writer lease (created     *)
(* with O_EXCL, unlinked in a finally block).  A process runs one method of *)
(* its ledger object at a time; each step below is one access to one of     *)
(* those files.  Steps that only read while the lease is held are merged,   *)
(* because every write to the log and the head happens under the lease.     *)
(*                                                                         *)
(* An event's hash is modelled by the event itself and the hash of its      *)
(* predecessor by the predecessor's identity: what matters is which event   *)
(* was last when the writer looked.                                         *)
(***************************************************************************)
EXTENDS Authorization, Sequences, FiniteSetsExt

CONSTANTS Procs,            \* processes (or threads) with a ledger object
          ReservationIds,   \* identities callers give to reservations
          ResultIds,        \* identities callers give to results
          MaxFaults,        \* bound on exceptions and kills in a behaviour
          NoProc,           \* the lease file does not exist
          Stale,            \* the lease file outlived the process that made it
          NoId              \* no event identity

ASSUME LedgerAssumption ==
    /\ MaxFaults \in Nat
    /\ NoProc \notin Procs /\ Stale \notin Procs /\ NoProc # Stale

VARIABLES
    log,         \* the complete lines of the event log
    tail,        \* "absent": no log file; "torn": the last line is incomplete;
                 \* "whole": the file ends with a newline
    head,        \* the head anchor file
    lease,       \* who created the lease file
    pc,          \* where each process is in its current method
    op,          \* which method that is
    req,         \* the event the method wants to append
    view,        \* the events the method has read
    outcome,     \* how the last method returned, or the exception it raised
    dispatched,  \* how often each reservation's paid call was made
    faults       \* exceptions and kills so far

files == <<log, tail, head>>
procs == <<pc, op, req, view, outcome>>
vars == <<files, lease, procs, dispatched, faults>>

-----------------------------------------------------------------------------
(* Events.  Facts are what a caller asks to record; the stored event adds   *)
(* its place in the chain.                                                  *)

OpenId == "ledger-open"
EventIds == ReservationIds \union ResultIds
Ids == EventIds \union {OpenId}

Facts == [kind : {"none", "opened", "reservation", "charge"},
          event_id : Ids \union {NoId},
          reservation_id : EventIds \union {NoId},
          amount : Amount]

Event == [facts : Facts, sequence : Nat, previous : Ids \union {NoId}]

NoFacts == [kind |-> "none", event_id |-> NoId, reservation_id |-> NoId,
            amount |-> Nothing]
Opened == [kind |-> "opened", event_id |-> OpenId, reservation_id |-> NoId,
           amount |-> Authorized]
Reservation(id, amount) ==
    [kind |-> "reservation", event_id |-> id, reservation_id |-> NoId,
     amount |-> amount]
Charge(id, rid, actual) ==
    [kind |-> "charge", event_id |-> id, reservation_id |-> rid,
     amount |-> actual]

Requests ==
    {Reservation(i, a) : i \in ReservationIds, a \in ReserveAmounts}
      \union {Charge(i, j, a) : i \in ResultIds, j \in ReservationIds,
                               a \in ChargeAmounts}

Kind(s, i) == s[i].facts.kind
EventId(s, i) == s[i].facts.event_id
ReservationId(s, i) == s[i].facts.reservation_id

Reserves(s, id) == \E i \in DOMAIN s : Kind(s, i) = "reservation" /\ EventId(s, i) = id
Charged(s, id) == \E i \in DOMAIN s : Kind(s, i) = "charge" /\ ReservationId(s, i) = id

\* _snapshot: what is reserved and not yet charged, and what was charged.
Outstanding(s) ==
    {i \in DOMAIN s : Kind(s, i) = "reservation" /\ ~ Charged(s, EventId(s, i))}
Charges(s) == {i \in DOMAIN s : Kind(s, i) = "charge"}

SumOver(s, indices) ==
    [r \in Resource |-> MapThenSumSet(LAMBDA i : s[i].facts.amount[r], indices)]
ReservedIn(s) == SumOver(s, Outstanding(s))
SpentIn(s) == SumOver(s, Charges(s))

-----------------------------------------------------------------------------
(* What a reader demands of the log: _read_events and _validate_replay.     *)

Chained(s) ==
    \A i \in DOMAIN s :
       /\ s[i].sequence = i - 1
       /\ s[i].previous = IF i = 1 THEN NoId ELSE EventId(s, i - 1)

UniqueIds(s) ==
    \A i, j \in DOMAIN s : EventId(s, i) = EventId(s, j) => i = j

\* The structural part of _validate_replay: one genesis, and each charge
\* settles a reservation made before it that no earlier charge settled.
LegalHistory(s) ==
    /\ s # << >> => s[1].facts = Opened
    /\ \A i \in DOMAIN s : i > 1 => Kind(s, i) \in {"reservation", "charge"}
    /\ \A i \in Charges(s) :
          /\ \E j \in 1 .. (i - 1) :
                Kind(s, j) = "reservation" /\ EventId(s, j) = ReservationId(s, i)
          /\ \A j \in 1 .. (i - 1) :
                ~ (Kind(s, j) = "charge" /\ ReservationId(s, j) = ReservationId(s, i))

\* The accounting part: no prefix of the history exceeds the authorization.
Affordable(s) ==
    \A n \in 2 .. Len(s) :
       LET t == SubSeq(s, 1, n)
       IN  Within(Plus(SpentIn(t), ReservedIn(t)), Authorized)

Replays(s) ==
    s # << >> /\ Chained(s) /\ UniqueIds(s) /\ LegalHistory(s) /\ Affordable(s)

Readable == tail = "whole" /\ Replays(log)

-----------------------------------------------------------------------------
(* The head anchor: _write_head and _validate_head.                          *)

Heads == [event_count : Nat, head_event : Event]

NoEvent == [facts |-> NoFacts, sequence |-> 0, previous |-> NoId]
NoHead == [event_count |-> 0, head_event |-> NoEvent]
HeadAt(e) == [event_count |-> e.sequence + 1, head_event |-> e]

HeadExact(s) == head # NoHead /\ head.event_count = Len(s) /\ head.head_event = s[Len(s)]

StrictOneEventPrefix(s) ==
    /\ head.event_count >= 1
    /\ head.event_count + 1 = Len(s)
    /\ head.head_event = s[head.event_count]

-----------------------------------------------------------------------------
PCs == {"down", "ready", "init_head", "init_lease", "init_recheck", "read_log",
        "read_head", "recover_lease", "recover", "acquire", "locked", "append",
        "appending", "anchor", "release", "dispatch"}
Ops == {"none", "construct", "mutate", "dispatch", "snapshot"}
Outcomes == {"none", "read", "written", "duplicate", "conflict", "exceeded",
             "unknown", "busy", "integrity", "error"}

TypeOK ==
    /\ log \in Seq(Event)
    /\ tail \in {"absent", "torn", "whole"}
    /\ head \in Heads
    /\ lease \in Procs \union {NoProc, Stale}
    /\ pc \in [Procs -> PCs]
    /\ op \in [Procs -> Ops]
    /\ req \in [Procs -> Facts]
    /\ view \in [Procs -> Seq(Event)]
    /\ outcome \in [Procs -> Outcomes]
    /\ dispatched \in [ReservationIds -> Nat]
    /\ faults \in 0 .. MaxFaults

Init ==
    /\ log = << >> /\ tail = "absent" /\ head = NoHead
    /\ lease = NoProc
    /\ pc = [p \in Procs |-> "down"]
    /\ op = [p \in Procs |-> "none"]
    /\ req = [p \in Procs |-> NoFacts]
    /\ view = [p \in Procs |-> << >>]
    /\ outcome = [p \in Procs |-> "none"]
    /\ dispatched = [i \in ReservationIds |-> 0]
    /\ faults = 0

-----------------------------------------------------------------------------
(* Control within one method.                                                *)

Goto(p, there) == pc' = [pc EXCEPT ![p] = there]
SetOutcome(p, what) == outcome' = [outcome EXCEPT ![p] = what]

\* Mutant of After: dispatch_once ignores reserve's answer.
AfterIgnoringAnswer(o, out) ==
    IF o = "construct" /\ out \notin {"read", "written"} THEN "down"
    ELSE IF o = "dispatch" /\ out \in {"written", "duplicate"} THEN "dispatch"
    ELSE "ready"

\* Where a method that ends this way leaves its process: a constructor that
\* raises leaves no ledger object, and dispatch_once goes on to make the paid
\* call only when its reservation was newly written.
After(o, out) ==
    IF o = "construct" /\ out \notin {"read", "written"} THEN "down"
    ELSE IF o = "dispatch" /\ out = "written" THEN "dispatch"
    ELSE "ready"

\* The method is over and its locals are gone; dispatch_once keeps its own.
Return(p, out) ==
    /\ Goto(p, After(op[p], out))
    /\ SetOutcome(p, out)
    /\ view' = [view EXCEPT ![p] = << >>]
    /\ req' = IF After(op[p], out) = "dispatch" THEN req
              ELSE [req EXCEPT ![p] = NoFacts]
    /\ op' = IF After(op[p], out) = "dispatch" THEN op
             ELSE [op EXCEPT ![p] = "none"]

Call(p, o, facts, there) ==
    /\ op' = [op EXCEPT ![p] = o]
    /\ req' = [req EXCEPT ![p] = facts]
    /\ Goto(p, there)
    /\ SetOutcome(p, "none")
    /\ UNCHANGED <<files, lease, view, dispatched, faults>>

-----------------------------------------------------------------------------
(* The methods.                                                              *)

\* __init__ and the first test of _initialize: path.exists().
Construct(p) ==
    /\ pc[p] = "down"
    /\ Call(p, "construct", Opened, IF tail = "absent" THEN "init_head" ELSE "read_log")

\* _initialize: a head without a log is refused.
InitHead(p) ==
    /\ pc[p] = "init_head"
    /\ \/ head # NoHead /\ Return(p, "integrity")
       \/ head = NoHead /\ Goto(p, "init_lease") /\ UNCHANGED <<op, req, view, outcome>>
    /\ UNCHANGED <<files, lease, dispatched, faults>>

\* reserve, record, and dispatch_once, which starts with reserve.
Mutate(p, facts) ==
    /\ pc[p] = "ready"
    /\ Call(p, "mutate", facts, "acquire")

DispatchOnce(p, facts) ==
    /\ pc[p] = "ready"
    /\ facts.kind = "reservation"
    /\ Call(p, "dispatch", facts, "acquire")

\* snapshot and events: read without the lease.
Snapshot(p) ==
    /\ pc[p] = "ready"
    /\ Call(p, "snapshot", NoFacts, "read_log")

\* _writer_lease: O_EXCL creation of the lease file, or LedgerBusy.
UnderLease == [init_lease |-> "init_recheck", acquire |-> "locked",
               recover_lease |-> "recover"]

\* Mutant of AcquireLease: creates the file without O_EXCL.
AcquireLeaseShared(p) ==
    /\ pc[p] \in DOMAIN UnderLease
    /\ lease' = p
    /\ Goto(p, UnderLease[pc[p]])
    /\ UNCHANGED <<files, op, req, view, outcome, dispatched, faults>>

AcquireLease(p) ==
    /\ pc[p] \in DOMAIN UnderLease
    /\ lease = NoProc
    /\ lease' = p
    /\ Goto(p, UnderLease[pc[p]])
    /\ UNCHANGED <<files, op, req, view, outcome, dispatched, faults>>

LeaseBusy(p) ==
    /\ pc[p] \in DOMAIN UnderLease
    /\ lease # NoProc
    /\ Return(p, "busy")
    /\ UNCHANGED <<files, lease, dispatched, faults>>

\* The end of the with block, reached on return and on every exception.
Release(p) ==
    /\ pc[p] = "release"
    /\ lease' = NoProc
    /\ Return(p, outcome[p])
    /\ UNCHANGED <<files, dispatched, faults>>

\* Mutant of LockedRead: accepts a head one event behind and leaves it there.
LockedReadWithoutRecovery(p, whatNext) ==
    \/ /\ ~ (Readable /\ (HeadExact(log) \/ StrictOneEventPrefix(log)))
       /\ SetOutcome(p, "integrity")
       /\ Goto(p, "release")
       /\ UNCHANGED <<head, view>>
    \/ /\ Readable /\ (HeadExact(log) \/ StrictOneEventPrefix(log))
       /\ head' = head
       /\ whatNext

\* _read_events(recover_head=True, writer_lease_held=True) with what follows
\* it: nothing is returned from a damaged ledger, and a head that is one event
\* behind is rewritten.
LockedRead(p, whatNext) ==
    \/ /\ ~ (Readable /\ (HeadExact(log) \/ StrictOneEventPrefix(log)))
       /\ SetOutcome(p, "integrity")
       /\ Goto(p, "release")
       /\ UNCHANGED <<head, view>>
    \/ /\ Readable /\ (HeadExact(log) \/ StrictOneEventPrefix(log))
       /\ head' = HeadAt(log[Len(log)])
       /\ whatNext

\* _initialize under the lease: another process may have created the log.
InitRecheck(p) ==
    /\ pc[p] = "init_recheck"
    /\ \/ /\ tail = "absent"
          /\ Goto(p, "append")
          /\ UNCHANGED <<head, view, outcome>>
       \/ /\ tail # "absent"
          /\ LockedRead(p, SetOutcome(p, "read") /\ Goto(p, "release") /\ UNCHANGED view)
    /\ UNCHANGED <<log, tail, lease, op, req, dispatched, faults>>

\* Mutants of Verdict: the same identity with other facts counts as the same
\* request; record does not look for the reservation.
VerdictById(s, f) ==
    IF \E i \in DOMAIN s : EventId(s, i) = f.event_id THEN "duplicate" ELSE "ok"
VerdictUnknownCharge(s, f) ==
    IF \E i \in DOMAIN s : EventId(s, i) = f.event_id THEN "conflict"
    ELSE IF f.kind = "charge"
      THEN IF Within(Plus(SpentIn(s), f.amount), Authorized) THEN "ok" ELSE "exceeded"
    ELSE IF Within(Plus(Plus(SpentIn(s), ReservedIn(s)), f.amount), Authorized)
      THEN "ok" ELSE "exceeded"

\* _append_mutation's answer for facts f on the events s, with the validate
\* callbacks of reserve and record; "ok" means append.
Verdict(s, f) ==
    IF \E i \in DOMAIN s : s[i].facts = f THEN "duplicate"
    ELSE IF \E i \in DOMAIN s : EventId(s, i) = f.event_id THEN "conflict"
    ELSE IF f.kind = "reservation"
      THEN IF Within(Plus(Plus(SpentIn(s), ReservedIn(s)), f.amount), Authorized)
             THEN "ok" ELSE "exceeded"
    ELSE IF ~ Reserves(s, f.reservation_id) THEN "unknown"
    ELSE IF Charged(s, f.reservation_id) THEN "conflict"
    ELSE IF Within(Plus(SpentIn(s), f.amount), Authorized) THEN "ok" ELSE "exceeded"

Decide(p) ==
    /\ pc[p] = "locked"
    /\ LockedRead(p,
          /\ view' = [view EXCEPT ![p] = log]
          /\ \/ Verdict(log, req[p]) = "ok" /\ Goto(p, "append") /\ UNCHANGED outcome
             \/ /\ Verdict(log, req[p]) # "ok"
                /\ SetOutcome(p, Verdict(log, req[p]))
                /\ Goto(p, "release"))
    /\ UNCHANGED <<log, tail, lease, op, req, dispatched, faults>>

\* _append_event: the event is chained to the events that were read, the file
\* is opened (and created), written and synced; then the head is replaced.
NewEvent(p) ==
    [facts |-> req[p], sequence |-> Len(view[p]),
     previous |-> IF view[p] = << >> THEN NoId
                  ELSE EventId(view[p], Len(view[p]))]

AppendBegin(p) ==
    /\ pc[p] = "append"
    /\ tail' = "torn"
    /\ Goto(p, "appending")
    /\ UNCHANGED <<log, head, lease, op, req, view, outcome, dispatched, faults>>

AppendEnd(p) ==
    /\ pc[p] = "appending"
    /\ log' = Append(log, NewEvent(p))
    /\ tail' = "whole"
    /\ Goto(p, "anchor")
    /\ UNCHANGED <<head, lease, op, req, view, outcome, dispatched, faults>>

WriteHead(p) ==
    /\ pc[p] = "anchor"
    /\ head' = HeadAt(NewEvent(p))
    /\ SetOutcome(p, "written")
    /\ Goto(p, "release")
    /\ UNCHANGED <<log, tail, lease, op, req, view, dispatched, faults>>

\* dispatch_once: the paid call, after the lease was released.
Dispatch(p) ==
    /\ pc[p] = "dispatch"
    /\ dispatched' = [dispatched EXCEPT ![req[p].event_id] = @ + 1]
    /\ Goto(p, "ready")
    /\ op' = [op EXCEPT ![p] = "none"]
    /\ req' = [req EXCEPT ![p] = NoFacts]
    /\ UNCHANGED <<files, lease, view, outcome, faults>>

\* _read_events without the lease: first the log,
ReadLog(p) ==
    /\ pc[p] = "read_log"
    /\ \/ ~ Readable /\ Return(p, "integrity")
       \/ /\ Readable
          /\ view' = [view EXCEPT ![p] = log]
          /\ Goto(p, "read_head")
          /\ UNCHANGED <<op, req, outcome>>
    /\ UNCHANGED <<files, lease, dispatched, faults>>

\* then the head, which another process may have moved in between.
ReadHead(p) ==
    /\ pc[p] = "read_head"
    /\ \/ HeadExact(view[p]) /\ Return(p, "read")
       \/ /\ ~ HeadExact(view[p]) /\ StrictOneEventPrefix(view[p])
          /\ Goto(p, "recover_lease")
          /\ UNCHANGED <<op, req, view, outcome>>
       \/ /\ ~ HeadExact(view[p]) /\ ~ StrictOneEventPrefix(view[p])
          /\ Return(p, "integrity")
    /\ UNCHANGED <<files, lease, dispatched, faults>>

\* _validate_head's second look, under the lease.
Recover(p) ==
    /\ pc[p] = "recover"
    /\ LockedRead(p, SetOutcome(p, "read") /\ Goto(p, "release") /\ UNCHANGED view)
    /\ UNCHANGED <<log, tail, lease, op, req, dispatched, faults>>

-----------------------------------------------------------------------------
(* Faults.                                                                   *)

\* An exception (a full disk, an interrupt) while the lease is held: the
\* finally block still releases it.
Raise(p) ==
    /\ faults < MaxFaults
    /\ pc[p] \in {"init_recheck", "locked", "append", "appending", "anchor", "recover"}
    /\ faults' = faults + 1
    /\ SetOutcome(p, "error")
    /\ Goto(p, "release")
    /\ UNCHANGED <<files, lease, op, req, view, dispatched>>

\* SIGTERM or SIGKILL: no finally block runs, so a lease file stays behind.
Kill(p) ==
    /\ faults < MaxFaults
    /\ pc[p] # "down"
    /\ faults' = faults + 1
    /\ lease' = IF lease = p THEN Stale ELSE lease
    /\ Goto(p, "down")
    /\ SetOutcome(p, "none")
    /\ op' = [op EXCEPT ![p] = "none"]
    /\ req' = [req EXCEPT ![p] = NoFacts]
    /\ view' = [view EXCEPT ![p] = << >>]
    /\ UNCHANGED <<files, dispatched>>

\* External: an operator deletes a lease file whose writer is gone.  Nothing
\* in the code does.
RemoveStaleLease ==
    /\ lease = Stale
    /\ lease' = NoProc
    /\ UNCHANGED <<files, procs, dispatched, faults>>

-----------------------------------------------------------------------------
\* The steps of a method under way; starting a method is the caller's choice.
Step(p) ==
    \/ InitHead(p) \/ AcquireLease(p) \/ LeaseBusy(p) \/ Release(p)
    \/ InitRecheck(p) \/ Decide(p) \/ AppendBegin(p) \/ AppendEnd(p)
    \/ WriteHead(p) \/ Dispatch(p) \/ ReadLog(p) \/ ReadHead(p) \/ Recover(p)

Start(p) ==
    \/ Construct(p) \/ Snapshot(p)
    \/ \E facts \in Requests : Mutate(p, facts) \/ DispatchOnce(p, facts)

Next ==
    \/ \E p \in Procs : Step(p) \/ Start(p) \/ Raise(p) \/ Kill(p)
    \/ RemoveStaleLease

Spec == Init /\ [][Next]_vars

-----------------------------------------------------------------------------
(* Properties.                                                               *)

(* However constructors, mutations and recoveries of several processes       *)
(* interleave and wherever a process is killed, the complete lines of the    *)
(* log form one hash chain with one genesis, unique identities, and every    *)
(* charge settling an earlier reservation that no other charge settled       *)
(* (_append_mutation, _append_event, _writer_lease).                         *)
LogIsLegalChain == Chained(log) /\ UniqueIds(log) /\ LegalHistory(log)

(* The head anchor is never ahead of the log and never more than one event   *)
(* behind it, and names the event it counts: the crash window _validate_head *)
(* recovers is the only one there is.                                        *)
HeadAnchorsLog ==
    /\ head.event_count <= Len(log)
    /\ head.event_count + 1 >= Len(log)
    /\ head.event_count > 0 => head.head_event = log[head.event_count]

(* dispatch_once: a paid call is made at most once for a reservation id, over *)
(* all processes and restarts, and only when its reservation is durable and   *)
(* anchored by the head.                                                      *)
DispatchAtMostOnce ==
    \A id \in ReservationIds :
       /\ dispatched[id] <= 1
       /\ dispatched[id] = 1 =>
             \E i \in 1 .. head.event_count :
                Kind(log, i) = "reservation" /\ EventId(log, i) = id

(* reserve and record report True only for an event that is in the log and   *)
(* under the head, and False only for one that was there with the same       *)
(* facts, also when the caller's first attempt ended in an exception or a    *)
(* kill after the event was written.                                         *)
AcknowledgedIsDurable ==
    \A p \in Procs :
       pc[p] \in {"release", "dispatch"} /\ outcome[p] \in {"written", "duplicate"} =>
          \E i \in 1 .. head.event_count : log[i].facts = req[p]

(* No step ever changes or drops a complete line of the log, and the head    *)
(* never moves back.                                                         *)
AppendOnly ==
    [][ /\ Len(log') >= Len(log)
        /\ \A i \in DOMAIN log : log'[i] = log[i]
        /\ head'.event_count >= head.event_count ]_<<log, head>>

(* Every step of the durable ledger is a step of the in-memory accounting or *)
(* leaves it alone: crashes, recoveries and duplicate submissions never      *)
(* reserve or charge anything a BudgetManager would not.                     *)
Budget == INSTANCE BudgetManager
            WITH reserved <- ReservedIn(log), spent <- SpentIn(log)
ImplementsBudgetManager == Budget!BMSpec

-----------------------------------------------------------------------------
(* What the repository says of the ledger and the code does not do.          *)

(* "Replay domain invariants so a valid chain is also a valid budget history" *)
(* (_validate_replay): a log written by reserve and record alone, with no     *)
(* fault, is accepted by the next reader.                                     *)
SelfWrittenLogReplays == faults = 0 /\ tail = "whole" => Replays(log)
=============================================================================
