-------------------------- MODULE CostLedgerProofs --------------------------
(***************************************************************************)
(* Safety of the durable ledger for any number of processes, identities,    *)
(* amounts and faults.  The properties of CostLedger are not inductive: they *)
(* hold because a process that is about to append holds the lease, has read  *)
(* the very log it appends to, and has made the head exact.  WriterInv says  *)
(* so; the other parts follow the facts a process carries along.  At the end *)
(* the refinement of BudgetManager, by what an append does to the sums of    *)
(* the log, and the accounting of BudgetManager itself.                      *)
(***************************************************************************)
EXTENDS CostLedger, BudgetManager, FiniteSetTheorems, WellFoundedInduction, TLAPS

Holding == {"init_recheck", "locked", "append", "appending", "anchor",
            "release", "recover"}
Idle == {"down", "ready", "init_head", "init_lease", "init_recheck", "read_log",
         "acquire", "locked", "dispatch"}

\* A process inside the with block of _writer_lease owns the lease file.
LeaseInv == \A p \in Procs : pc[p] \in Holding => lease = p

\* What a process carries before it has read anything.
CarryInv ==
    /\ tail = "absent" => log = << >> /\ head.event_count = 0
    /\ \A p \in Procs :
          /\ pc[p] \in Idle => view[p] = << >>
          /\ pc[p] \in {"init_head", "init_lease", "init_recheck"} => req[p] = Opened
          /\ pc[p] \in {"acquire", "locked"} => req[p] \in Requests
          /\ op[p] = "dispatch" => req[p].kind = "reservation"
          /\ op[p] = "dispatch" => req[p].event_id \in ReservationIds
          /\ pc[p] = "dispatch" => op[p] = "dispatch" /\ outcome[p] = "written"

\* What request f asks for fits what the events s have left.
Affords(s, f) ==
    IF f.kind = "reservation"
    THEN Within(Plus(Plus(SpentIn(s), ReservedIn(s)), f.amount), Authorized)
    ELSE Within(Plus(SpentIn(s), f.amount), Authorized)

\* facts f may be appended to the events s.
MayAppend(s, f) ==
    \/ s = << >> /\ f = Opened
    \/ /\ s # << >> /\ f \in Requests /\ Affords(s, f)
       /\ f.kind \in {"reservation", "charge"}
       /\ \A i \in DOMAIN s : EventId(s, i) # f.event_id
       /\ f.kind = "charge" =>
             Reserves(s, f.reservation_id) /\ ~ Charged(s, f.reservation_id)

\* What the writer knows between its decision and its append, and then until
\* the head is replaced.
WriterInv ==
    \A p \in Procs :
       /\ pc[p] \in {"append", "appending"} =>
             /\ view[p] = log
             /\ head.event_count = Len(log)
             /\ MayAppend(log, req[p])
       /\ pc[p] = "anchor" =>
             /\ Len(log) = Len(view[p]) + 1
             /\ log[Len(log)] = NewEvent(p)

\* The one caller that still owes, or has the right to, the paid call of its
\* reservation: dispatch_once after its event was appended.
Owes(p) ==
    /\ op[p] = "dispatch"
    /\ \/ pc[p] \in {"anchor", "dispatch"}
       \/ pc[p] = "release" /\ outcome[p] = "written"

LogFacts == {log[i].facts : i \in DOMAIN log}
AnchoredFacts == {log[i].facts : i \in 1 .. head.event_count}

AckInv ==
    \A p \in Procs :
       pc[p] \in {"release", "dispatch"} /\ outcome[p] \in {"written", "duplicate"} =>
          req[p] \in AnchoredFacts

DispatchInv ==
    /\ \A p \in Procs : Owes(p) =>
          dispatched[req[p].event_id] = 0 /\ req[p] \in LogFacts
    /\ \A p, q \in Procs :
          Owes(p) /\ Owes(q) /\ req[p].event_id = req[q].event_id => p = q
    /\ \A id \in ReservationIds :
          /\ dispatched[id] <= 1
          /\ dispatched[id] = 1 =>
                \E f \in AnchoredFacts : f.kind = "reservation" /\ f.event_id = id

Inv == /\ TypeOK /\ LeaseInv /\ CarryInv /\ WriterInv
       /\ LogIsLegalChain /\ HeadAnchorsLog /\ AckInv /\ DispatchInv

-----------------------------------------------------------------------------
(* Operators.                                                                *)

(* Every constant event a method builds, and every request, is typed.        *)
LEMMA FactsTyped ==
    /\ NoFacts \in Facts /\ Opened \in Facts /\ Requests \subseteq Facts
    /\ NoEvent \in Event /\ NoHead \in Heads
<1>1. Nothing \in Amount
    BY DEF Nothing, Amount
<1>2. NoFacts \in Facts /\ Opened \in Facts
    BY <1>1, LedgerAssumption, BudgetAssumption DEF NoFacts, Opened, Facts, Ids
<1>3. ASSUME NEW i \in ReservationIds, NEW a \in ReserveAmounts
      PROVE  Reservation(i, a) \in Facts
    BY LedgerAssumption, BudgetAssumption DEF Reservation, Facts, Ids, EventIds
<1>4. ASSUME NEW i \in ResultIds, NEW j \in ReservationIds, NEW a \in ChargeAmounts
      PROVE  Charge(i, j, a) \in Facts
    BY LedgerAssumption, BudgetAssumption DEF Charge, Facts, Ids, EventIds
<1>5. Requests \subseteq Facts
    BY <1>3, <1>4 DEF Requests
<1>6. NoEvent \in Event /\ NoHead \in Heads
    BY <1>2 DEF NoEvent, Event, NoHead, Heads
<1> QED
    BY <1>2, <1>5, <1>6

(* A request is a reservation of a reservation identity, or a charge.        *)
LEMMA RequestKinds ==
    ASSUME NEW f \in Requests
    PROVE  /\ f.kind \in {"reservation", "charge"}
           /\ f.kind = "reservation" => f.event_id \in ReservationIds
BY DEF Requests, Reservation, Charge

(* The answers of _append_mutation.                                          *)
LEMMA VerdictMeaning ==
    ASSUME NEW s, NEW f \in Requests
    PROVE  /\ Verdict(s, f) \in {"ok", "duplicate", "conflict", "exceeded", "unknown"}
           /\ Verdict(s, f) = "duplicate" => \E i \in DOMAIN s : s[i].facts = f
           /\ Verdict(s, f) = "ok" /\ s # << >> => MayAppend(s, f)
BY RequestKinds, Zenon DEF Verdict, MayAppend, Affords

(* The event a writer appends is typed.                                      *)
LEMMA NewEventTyped ==
    ASSUME TypeOK, NEW p \in Procs
    PROVE  NewEvent(p) \in Event
<1>1. view[p] \in Seq(Event) /\ req[p] \in Facts
    BY DEF TypeOK
<1>2. CASE view[p] = << >>
    BY <1>1, <1>2 DEF NewEvent, Event
<1>3. CASE view[p] # << >>
    <2>1. view[p][Len(view[p])] \in Event
        BY <1>1, <1>3
    <2>2. EventId(view[p], Len(view[p])) \in Ids \union {NoId}
        BY <2>1 DEF Event, Facts, EventId
    <2> QED
        BY <1>1, <1>3, <2>2 DEF NewEvent, Event
<1> QED
    BY <1>2, <1>3

(* A head is typed, and counts the events up to the one it names.            *)
LEMMA HeadTyped ==
    ASSUME NEW e \in Event
    PROVE  HeadAt(e) \in Heads /\ HeadAt(e).event_count = e.sequence + 1
                              /\ HeadAt(e).head_event = e
<1>1. e.sequence + 1 \in Nat
    BY DEF Event
<1> QED
    BY <1>1 DEF HeadAt, Heads

LEMMA LastIsEvent ==
    ASSUME NEW s \in Seq(Event), s # << >>
    PROVE  s[Len(s)] \in Event /\ Len(s) \in Nat \ {0}
OBVIOUS

(* Appending what may be appended keeps the log a legal chain.               *)
LEMMA AppendLegal ==
    ASSUME NEW s \in Seq(Event), NEW e \in Event,
           Chained(s), UniqueIds(s), LegalHistory(s),
           MayAppend(s, e.facts),
           e.sequence = Len(s),
           e.previous = IF s = << >> THEN NoId ELSE EventId(s, Len(s))
    PROVE  LET t == Append(s, e)
           IN  Chained(t) /\ UniqueIds(t) /\ LegalHistory(t)
<1> DEFINE t == Append(s, e)
<1>1. /\ t \in Seq(Event) /\ Len(t) = Len(s) + 1
      /\ DOMAIN t = 1 .. Len(t) /\ DOMAIN s = 1 .. Len(s) /\ Len(s) \in Nat
      /\ \A i \in 1 .. Len(s) : t[i] = s[i]
      /\ t[Len(s) + 1] = e
    OBVIOUS
<1> HIDE DEF t
<1>2. Chained(t)
    BY <1>1 DEF Chained, EventId
<1>3. UniqueIds(t)
    <2>1. \A i \in 1 .. Len(s) : EventId(s, i) # e.facts.event_id
        BY <1>1 DEF MayAppend
    <2> QED
        BY <1>1, <2>1 DEF UniqueIds, EventId
<1>4. LegalHistory(t)
    <2>1. t[1].facts = Opened
        BY <1>1 DEF LegalHistory, MayAppend
    <2>2. ASSUME NEW i \in DOMAIN t, i > 1
          PROVE  Kind(t, i) \in {"reservation", "charge"}
        <3>1. CASE i \in 1 .. Len(s)
            BY <1>1, <2>2, <3>1 DEF LegalHistory, Kind
        <3>2. CASE i = Len(s) + 1
            BY <1>1, <2>2, <3>2 DEF MayAppend, Kind
        <3> QED
            BY <1>1, <3>1, <3>2
    <2>3. ASSUME NEW i \in Charges(t)
          PROVE  /\ \E j \in 1 .. (i - 1) :
                       Kind(t, j) = "reservation" /\ EventId(t, j) = ReservationId(t, i)
                 /\ \A j \in 1 .. (i - 1) :
                       ~ (Kind(t, j) = "charge" /\ ReservationId(t, j) = ReservationId(t, i))
        <3>0. i \in 1 .. Len(t) /\ Kind(t, i) = "charge"
            BY <1>1 DEF Charges
        <3>1. CASE i \in 1 .. Len(s)
            <4>1. i \in Charges(s)
                BY <1>1, <3>0, <3>1 DEF Charges, Kind
            <4>2. \A j \in 1 .. i : /\ Kind(t, j) = Kind(s, j)
                                    /\ EventId(t, j) = EventId(s, j)
                                    /\ ReservationId(t, j) = ReservationId(s, j)
                BY <1>1, <3>1 DEF Kind, EventId, ReservationId
            <4> QED
                BY <3>1, <4>1, <4>2 DEF LegalHistory
        <3>2. CASE i = Len(s) + 1
            <4>1. /\ e.facts.kind = "charge"
                  /\ ReservationId(t, i) = e.facts.reservation_id
                BY <1>1, <3>0, <3>2 DEF Kind, ReservationId
            <4>2. /\ Reserves(s, e.facts.reservation_id)
                  /\ ~ Charged(s, e.facts.reservation_id)
                BY <4>1 DEF MayAppend, Opened
            <4> QED
                BY <1>1, <3>2, <4>1, <4>2
                DEF Reserves, Charged, Kind, EventId, ReservationId
        <3> QED
            BY <1>1, <3>0, <3>1, <3>2
    <2> QED
        BY <2>1, <2>2, <2>3 DEF LegalHistory
<1> QED
    BY <1>2, <1>3, <1>4 DEF t

-----------------------------------------------------------------------------
(* The actions, once: a step of Next is one of these.                        *)
LEMMA NextCases ==
    ASSUME [Next]_vars
    PROVE  \/ \E p \in Procs :
                \/ InitHead(p) \/ AcquireLease(p) \/ LeaseBusy(p) \/ Release(p)
                \/ InitRecheck(p) \/ Decide(p) \/ AppendBegin(p) \/ AppendEnd(p)
                \/ WriteHead(p) \/ Dispatch(p) \/ ReadLog(p) \/ ReadHead(p)
                \/ Recover(p) \/ Construct(p) \/ Snapshot(p) \/ Raise(p) \/ Kill(p)
                \/ \E f \in Requests : Mutate(p, f) \/ DispatchOnce(p, f)
           \/ RemoveStaleLease
           \/ UNCHANGED vars
BY DEF Next, Step, Start

LEMMA TypeStep == TypeOK /\ CarryInv /\ [Next]_vars => TypeOK'
<1> SUFFICES ASSUME TypeOK, CarryInv, [Next]_vars
             PROVE  TypeOK'
    OBVIOUS
<1> USE FactsTyped DEF TypeOK, files, procs, PCs, Ops, Outcomes
<1>r. ASSUME NEW p \in Procs, NEW out \in {"read", "busy", "integrity", outcome[p]}, Return(p, out)
      PROVE  /\ pc' \in [Procs -> PCs]
             /\ op' \in [Procs -> Ops]
             /\ req' \in [Procs -> Facts]
             /\ view' \in [Procs -> Seq(Event)]
             /\ outcome' \in [Procs -> Outcomes]
    <2>1. After(op[p], out) \in {"down", "ready", "dispatch"}
        BY DEF After
    <2>2. out \in Outcomes
        BY DEF Outcomes
    <2> QED
        BY <1>r, <2>1, <2>2 DEF Return, Goto, SetOutcome, PCs, Ops, Outcomes
<1>l. ASSUME NEW p \in Procs, NEW A, LockedRead(p, A)
      PROVE  head' \in Heads
    <2>1. log # << >> => HeadAt(log[Len(log)]) \in Heads
        BY HeadTyped, LastIsEvent
    <2> QED
        BY <1>l, <2>1 DEF LockedRead, Readable, Replays
<1>1. ASSUME NEW p \in Procs, InitHead(p) PROVE TypeOK'
    BY <1>1, <1>r DEF InitHead, Goto, PCs, Ops, Outcomes
<1>2. ASSUME NEW p \in Procs, AcquireLease(p) PROVE TypeOK'
    BY <1>2 DEF AcquireLease, Goto, UnderLease
<1>3. ASSUME NEW p \in Procs, LeaseBusy(p) PROVE TypeOK'
    BY <1>3, <1>r DEF LeaseBusy, PCs, Ops, Outcomes
<1>4. ASSUME NEW p \in Procs, Release(p) PROVE TypeOK'
    BY <1>4, <1>r DEF Release, PCs, Ops, Outcomes
<1>5. ASSUME NEW p \in Procs, InitRecheck(p) PROVE TypeOK'
    <2>1. head' \in Heads
        BY <1>5, <1>l DEF InitRecheck
    <2> QED
        BY <1>5, <2>1 DEF InitRecheck, LockedRead, Goto, SetOutcome
<1>6. ASSUME NEW p \in Procs, Decide(p) PROVE TypeOK'
    <2>1. head' \in Heads
        BY <1>6, <1>l DEF Decide
    <2>2. Verdict(log, req[p]) \in {"ok", "duplicate", "conflict", "exceeded", "unknown"}
        BY <1>6, VerdictMeaning DEF Decide, CarryInv
    <2> HIDE DEF TypeOK
    <2>3. /\ pc \in [Procs -> PCs] /\ outcome \in [Procs -> Outcomes]
          /\ view \in [Procs -> Seq(Event)] /\ log \in Seq(Event)
        BY DEF TypeOK
    <2>4. pc' \in [Procs -> PCs]
        BY <1>6, <2>3 DEF Decide, LockedRead, Goto, PCs
    <2>5. outcome' \in [Procs -> Outcomes]
        BY <1>6, <2>2, <2>3 DEF Decide, LockedRead, SetOutcome, Outcomes
    <2>6. view' \in [Procs -> Seq(Event)]
        BY <1>6, <2>3 DEF Decide, LockedRead
    <2> QED
        BY <1>6, <2>1, <2>4, <2>5, <2>6 DEF Decide, TypeOK, PCs, Outcomes
<1>7. ASSUME NEW p \in Procs, AppendBegin(p) PROVE TypeOK'
    BY <1>7 DEF AppendBegin, Goto
<1>8. ASSUME NEW p \in Procs, AppendEnd(p) PROVE TypeOK'
    BY <1>8, NewEventTyped DEF AppendEnd, Goto
<1>9. ASSUME NEW p \in Procs, WriteHead(p) PROVE TypeOK'
    <2>1. head' \in Heads
        BY <1>9, NewEventTyped, HeadTyped DEF WriteHead
    <2> QED
        BY <1>9, <2>1 DEF WriteHead, Goto, SetOutcome
<1>10. ASSUME NEW p \in Procs, Dispatch(p) PROVE TypeOK'
    <2>1. req[p].event_id \in ReservationIds
        BY <1>10 DEF Dispatch, CarryInv
    <2>2. dispatched[req[p].event_id] + 1 \in Nat
        BY <2>1
    <2>3. dispatched' \in [ReservationIds -> Nat]
        BY <1>10, <2>1, <2>2 DEF Dispatch
    <2> QED
        BY <1>10, <2>3 DEF Dispatch, Goto
<1>11. ASSUME NEW p \in Procs, ReadLog(p) PROVE TypeOK'
    <2>1. CASE Return(p, "integrity")
        BY <1>11, <1>r, <2>1 DEF ReadLog, Outcomes
    <2>2. CASE /\ view' = [view EXCEPT ![p] = log] /\ Goto(p, "read_head")
               /\ UNCHANGED <<op, req, outcome>>
        BY <1>11, <2>2 DEF ReadLog, Goto, PCs
    <2> QED
        BY <1>11, <2>1, <2>2, Zenon DEF ReadLog
<1>12. ASSUME NEW p \in Procs, ReadHead(p) PROVE TypeOK'
    BY <1>12, <1>r DEF ReadHead, Goto, PCs, Ops, Outcomes
<1>13. ASSUME NEW p \in Procs, Recover(p) PROVE TypeOK'
    <2>1. head' \in Heads
        BY <1>13, <1>l DEF Recover
    <2> QED
        BY <1>13, <2>1 DEF Recover, LockedRead, Goto, SetOutcome
<1>14. ASSUME NEW p \in Procs, Construct(p) PROVE TypeOK'
    BY <1>14 DEF Construct, Call, Goto, SetOutcome
<1>15. ASSUME NEW p \in Procs, Snapshot(p) PROVE TypeOK'
    BY <1>15 DEF Snapshot, Call, Goto, SetOutcome
<1>16. ASSUME NEW p \in Procs, Raise(p) PROVE TypeOK'
    BY <1>16, LedgerAssumption, BudgetAssumption DEF Raise, Goto, SetOutcome
<1>17. ASSUME NEW p \in Procs, Kill(p) PROVE TypeOK'
    BY <1>17, LedgerAssumption, BudgetAssumption DEF Kill, Goto, SetOutcome
<1>18. ASSUME NEW p \in Procs, NEW f \in Requests, Mutate(p, f) \/ DispatchOnce(p, f)
       PROVE  TypeOK'
    <2>1. PICK o \in Ops : Call(p, o, f, "acquire")
        BY <1>18, Zenon DEF Mutate, DispatchOnce, Ops
    <2>2. f \in Facts
        BY <1>18 DEF Facts
    <2> QED
        BY <2>1, <2>2 DEF Call, Goto, SetOutcome
<1>19. CASE RemoveStaleLease
    BY <1>19 DEF RemoveStaleLease
<1>20. CASE UNCHANGED vars
    BY <1>20 DEF vars
<1> QED
    BY <1>1, <1>2, <1>3, <1>4, <1>5, <1>6, <1>7, <1>8, <1>9, <1>10, <1>11, <1>12,
       <1>13, <1>14, <1>15, <1>16, <1>17, <1>18, <1>19, <1>20, NextCases

(* The lease: only its owner is inside a with block (_writer_lease).        *)
LEMMA LeaseStep == TypeOK /\ LeaseInv /\ [Next]_vars => LeaseInv'
<1> SUFFICES ASSUME TypeOK, LeaseInv, [Next]_vars
             PROVE  LeaseInv'
    OBVIOUS
<1> USE LedgerAssumption, BudgetAssumption DEF TypeOK, LeaseInv, Holding, files, procs, PCs
<1>1. ASSUME NEW p \in Procs, InitHead(p) PROVE LeaseInv'
    BY <1>1 DEF InitHead, Return, After, Goto, SetOutcome
<1>2. ASSUME NEW p \in Procs, AcquireLease(p) PROVE LeaseInv'
    BY <1>2 DEF AcquireLease, Goto, UnderLease
<1>3. ASSUME NEW p \in Procs, LeaseBusy(p) PROVE LeaseInv'
    BY <1>3 DEF LeaseBusy, UnderLease, Return, After, Goto, SetOutcome
<1>4. ASSUME NEW p \in Procs, Release(p) PROVE LeaseInv'
    BY <1>4 DEF Release, Return, After, Goto, SetOutcome
<1>5. ASSUME NEW p \in Procs, InitRecheck(p) PROVE LeaseInv'
    BY <1>5 DEF InitRecheck, LockedRead, Goto, SetOutcome
<1>6. ASSUME NEW p \in Procs, Decide(p) PROVE LeaseInv'
    BY <1>6 DEF Decide, LockedRead, Goto, SetOutcome
<1>7. ASSUME NEW p \in Procs, AppendBegin(p) PROVE LeaseInv'
    BY <1>7 DEF AppendBegin, Goto
<1>8. ASSUME NEW p \in Procs, AppendEnd(p) PROVE LeaseInv'
    BY <1>8 DEF AppendEnd, Goto
<1>9. ASSUME NEW p \in Procs, WriteHead(p) PROVE LeaseInv'
    BY <1>9 DEF WriteHead, Goto, SetOutcome
<1>10. ASSUME NEW p \in Procs, Dispatch(p) PROVE LeaseInv'
    BY <1>10 DEF Dispatch, Goto
<1>11. ASSUME NEW p \in Procs, ReadLog(p) PROVE LeaseInv'
    BY <1>11 DEF ReadLog, Return, After, Goto, SetOutcome
<1>12. ASSUME NEW p \in Procs, ReadHead(p) PROVE LeaseInv'
    BY <1>12 DEF ReadHead, Return, After, Goto, SetOutcome
<1>13. ASSUME NEW p \in Procs, Recover(p) PROVE LeaseInv'
    BY <1>13 DEF Recover, LockedRead, Goto, SetOutcome
<1>14. ASSUME NEW p \in Procs, Construct(p) PROVE LeaseInv'
    BY <1>14 DEF Construct, Call, Goto, SetOutcome
<1>15. ASSUME NEW p \in Procs, Snapshot(p) PROVE LeaseInv'
    BY <1>15 DEF Snapshot, Call, Goto, SetOutcome
<1>16. ASSUME NEW p \in Procs, Raise(p) PROVE LeaseInv'
    BY <1>16 DEF Raise, Goto, SetOutcome
<1>17. ASSUME NEW p \in Procs, Kill(p) PROVE LeaseInv'
    BY <1>17 DEF Kill, Goto, SetOutcome
<1>18. ASSUME NEW p \in Procs, NEW f \in Requests, Mutate(p, f) \/ DispatchOnce(p, f)
       PROVE  LeaseInv'
    BY <1>18 DEF Mutate, DispatchOnce, Call, Goto, SetOutcome
<1>19. CASE RemoveStaleLease
    BY <1>19 DEF RemoveStaleLease
<1>20. CASE UNCHANGED vars
    BY <1>20 DEF vars
<1> QED
    BY <1>1, <1>2, <1>3, <1>4, <1>5, <1>6, <1>7, <1>8, <1>9, <1>10, <1>11, <1>12,
       <1>13, <1>14, <1>15, <1>16, <1>17, <1>18, <1>19, <1>20, NextCases

(* What a process carries before it reads.                                  *)
LEMMA CarryStep == TypeOK /\ CarryInv /\ WriterInv /\ [Next]_vars => CarryInv'
<1> SUFFICES ASSUME TypeOK, CarryInv, WriterInv, [Next]_vars
             PROVE  CarryInv'
    OBVIOUS
<1> USE DEF TypeOK, CarryInv, Idle, files, procs, PCs, Ops
<1>1. ASSUME NEW p \in Procs, InitHead(p) PROVE CarryInv'
    BY <1>1 DEF InitHead, Return, After, Goto, SetOutcome
<1>2. ASSUME NEW p \in Procs, AcquireLease(p) PROVE CarryInv'
    BY <1>2 DEF AcquireLease, Goto, UnderLease
<1>3. ASSUME NEW p \in Procs, LeaseBusy(p) PROVE CarryInv'
    BY <1>3 DEF LeaseBusy, UnderLease, Return, After, Goto, SetOutcome
<1>4. ASSUME NEW p \in Procs, Release(p) PROVE CarryInv'
    BY <1>4 DEF Release, Return, After, Goto, SetOutcome
<1>5. ASSUME NEW p \in Procs, InitRecheck(p) PROVE CarryInv'
    BY <1>5 DEF InitRecheck, LockedRead, Goto, SetOutcome
<1>6. ASSUME NEW p \in Procs, Decide(p) PROVE CarryInv'
    BY <1>6 DEF Decide, LockedRead, Goto, SetOutcome, Readable
<1>7. ASSUME NEW p \in Procs, AppendBegin(p) PROVE CarryInv'
    BY <1>7 DEF AppendBegin, Goto
<1>8. ASSUME NEW p \in Procs, AppendEnd(p) PROVE CarryInv'
    BY <1>8 DEF AppendEnd, Goto
<1>9. ASSUME NEW p \in Procs, WriteHead(p) PROVE CarryInv'
    <2>1. log # << >>
        BY <1>9 DEF WriteHead, WriterInv
    <2> QED
        BY <1>9, <2>1 DEF WriteHead, Goto, SetOutcome
<1>10. ASSUME NEW p \in Procs, Dispatch(p) PROVE CarryInv'
    BY <1>10 DEF Dispatch, Goto
<1>11. ASSUME NEW p \in Procs, ReadLog(p) PROVE CarryInv'
    BY <1>11 DEF ReadLog, Return, After, Goto, SetOutcome
<1>12. ASSUME NEW p \in Procs, ReadHead(p) PROVE CarryInv'
    <2>1. CASE Return(p, "read") \/ Return(p, "integrity")
        BY <1>12, <2>1 DEF ReadHead, Return, After, Goto, SetOutcome
    <2>2. CASE Goto(p, "recover_lease") /\ UNCHANGED <<op, req, view, outcome>>
        BY <1>12, <2>2 DEF ReadHead, Goto
    <2> QED
        BY <1>12, <2>1, <2>2 DEF ReadHead
<1>13. ASSUME NEW p \in Procs, Recover(p) PROVE CarryInv'
    BY <1>13 DEF Recover, LockedRead, Goto, SetOutcome, Readable
<1>14. ASSUME NEW p \in Procs, Construct(p) PROVE CarryInv'
    BY <1>14 DEF Construct, Call, Goto, SetOutcome
<1>15. ASSUME NEW p \in Procs, Snapshot(p) PROVE CarryInv'
    BY <1>15 DEF Snapshot, Call, Goto, SetOutcome
<1>16. ASSUME NEW p \in Procs, Raise(p) PROVE CarryInv'
    BY <1>16 DEF Raise, Goto, SetOutcome
<1>17. ASSUME NEW p \in Procs, Kill(p) PROVE CarryInv'
    BY <1>17 DEF Kill, Goto, SetOutcome
<1>18. ASSUME NEW p \in Procs, NEW f \in Requests, Mutate(p, f) \/ DispatchOnce(p, f)
       PROVE  CarryInv'
    <2>1. f.kind = "reservation" => f.event_id \in ReservationIds
        BY RequestKinds
    <2>2. /\ UNCHANGED <<log, tail, head, view>>
          /\ pc[p] = "ready" /\ pc' = [pc EXCEPT ![p] = "acquire"]
          /\ req' = [req EXCEPT ![p] = f]
          /\ outcome' = [outcome EXCEPT ![p] = "none"]
        BY <1>18 DEF Mutate, DispatchOnce, Call, Goto, SetOutcome
    <2>3. \/ op' = [op EXCEPT ![p] = "mutate"]
          \/ op' = [op EXCEPT ![p] = "dispatch"] /\ f.kind = "reservation"
        BY <1>18 DEF Mutate, DispatchOnce, Call
    <2> QED
        BY <2>1, <2>2, <2>3
<1>19. CASE RemoveStaleLease
    BY <1>19 DEF RemoveStaleLease
<1>20. CASE UNCHANGED vars
    BY <1>20 DEF vars
<1> QED
    BY <1>1, <1>2, <1>3, <1>4, <1>5, <1>6, <1>7, <1>8, <1>9, <1>10, <1>11, <1>12,
       <1>13, <1>14, <1>15, <1>16, <1>17, <1>18, <1>19, <1>20, NextCases

(* Under the lease: what LockedRead leaves behind is exact.                  *)
LEMMA LockedReadHead ==
    ASSUME TypeOK, LogIsLegalChain, NEW p, NEW A, LockedRead(p, A)
    PROVE  \/ head' = head
           \/ /\ log # << >> /\ head' \in Heads
              /\ head'.event_count = Len(log)
              /\ head'.head_event = log[Len(log)]
<1>1. CASE head' = HeadAt(log[Len(log)]) /\ Readable
    <2>1. log # << >> /\ log \in Seq(Event)
        BY <1>1 DEF Readable, Replays, TypeOK
    <2>2. log[Len(log)].sequence = Len(log) - 1
        BY <2>1 DEF LogIsLegalChain, Chained
    <2> QED
        BY <1>1, <2>1, <2>2, HeadTyped, LastIsEvent
<1> QED
    BY <1>1 DEF LockedRead

(* The writer appends to the log it has read, with the head exact.          *)
LEMMA WriterStep == TypeOK /\ LeaseInv /\ CarryInv /\ WriterInv /\ LogIsLegalChain /\ [Next]_vars => WriterInv'
<1> SUFFICES ASSUME TypeOK, LeaseInv, CarryInv, WriterInv, LogIsLegalChain, [Next]_vars
             PROVE  WriterInv'
    OBVIOUS
<1> USE DEF TypeOK, LeaseInv, Holding, WriterInv, files, procs, PCs
<1>1. ASSUME NEW p \in Procs, InitHead(p) PROVE WriterInv'
    BY <1>1 DEF InitHead, Return, After, Goto, SetOutcome, NewEvent, EventId
<1>2. ASSUME NEW p \in Procs, AcquireLease(p) PROVE WriterInv'
    BY <1>2 DEF AcquireLease, Goto, UnderLease, NewEvent, EventId
<1>3. ASSUME NEW p \in Procs, LeaseBusy(p) PROVE WriterInv'
    BY <1>3 DEF LeaseBusy, UnderLease, Return, After, Goto, SetOutcome, NewEvent, EventId
<1>4. ASSUME NEW p \in Procs, Release(p) PROVE WriterInv'
    BY <1>4 DEF Release, Return, After, Goto, SetOutcome, NewEvent, EventId
<1>5. ASSUME NEW p \in Procs, InitRecheck(p) PROVE WriterInv'
    <2>1. /\ lease = p /\ UNCHANGED <<log, tail, req>>
          /\ pc' \in {[pc EXCEPT ![p] = "append"], [pc EXCEPT ![p] = "release"]}
        BY <1>5 DEF InitRecheck, LockedRead, Goto
    <2>2. CASE pc' = [pc EXCEPT ![p] = "append"]
        <3>1. tail = "absent" /\ UNCHANGED <<head, view>>
            BY <1>5, <2>2 DEF InitRecheck, LockedRead, Goto
        <3>2. log = << >> /\ head.event_count = 0 /\ view[p] = << >> /\ req[p] = Opened
            BY <1>5, <3>1 DEF InitRecheck, CarryInv, Idle
        <3> QED
            BY <2>1, <2>2, <3>1, <3>2 DEF MayAppend
    <2>3. CASE pc' = [pc EXCEPT ![p] = "release"]
        BY <2>1, <2>3
    <2> QED
        BY <2>1, <2>2, <2>3
<1>6. ASSUME NEW p \in Procs, Decide(p) PROVE WriterInv'
    <2>1. lease = p /\ UNCHANGED <<log, tail, req>> /\ pc[p] = "locked"
        BY <1>6 DEF Decide
    <2>2. \A q \in Procs : q # p => pc[q] \notin {"append", "appending", "anchor"}
        BY <2>1
    <2>3. CASE pc' = [pc EXCEPT ![p] = "append"]
        <3>1. /\ view' = [view EXCEPT ![p] = log]
              /\ Verdict(log, req[p]) = "ok"
              /\ log # << >>
              /\ head' = HeadAt(log[Len(log)])
            BY <1>6, <2>3 DEF Decide, LockedRead, Goto, Readable, Replays
        <3>2. head'.event_count = Len(log)
            <4>1. log[Len(log)].sequence = Len(log) - 1
                BY <3>1, LastIsEvent DEF LogIsLegalChain, Chained
            <4> QED
                BY <3>1, <4>1, HeadTyped, LastIsEvent
        <3>3. MayAppend(log, req[p])
            BY <1>6, <3>1, VerdictMeaning DEF Decide, CarryInv
        <3> QED
            BY <2>1, <2>2, <2>3, <3>1, <3>2, <3>3
    <2>4. CASE pc' = [pc EXCEPT ![p] = "release"]
        BY <2>1, <2>2, <2>4
    <2> QED
        BY <1>6, <2>3, <2>4 DEF Decide, LockedRead, Goto
<1>7. ASSUME NEW p \in Procs, AppendBegin(p) PROVE WriterInv'
    BY <1>7 DEF AppendBegin, Goto, NewEvent, EventId
<1>8. ASSUME NEW p \in Procs, AppendEnd(p) PROVE WriterInv'
    <2>1. /\ lease = p /\ pc[p] = "appending" /\ pc' = [pc EXCEPT ![p] = "anchor"]
          /\ log' = Append(log, NewEvent(p)) /\ UNCHANGED <<head, view, req>>
        BY <1>8 DEF AppendEnd, Goto
    <2>2. \A q \in Procs : q # p => pc[q] \notin {"append", "appending", "anchor"}
        BY <2>1
    <2>3. Len(log') = Len(log) + 1 /\ log'[Len(log')] = NewEvent(p)
        BY <2>1, NewEventTyped
    <2>4. NewEvent(p)' = NewEvent(p)
        BY <2>1 DEF NewEvent, EventId
    <2> QED
        BY <2>1, <2>2, <2>3, <2>4
<1>9. ASSUME NEW p \in Procs, WriteHead(p) PROVE WriterInv'
    <2>1. /\ lease = p /\ UNCHANGED <<log, view, req>>
          /\ pc[p] = "anchor" /\ pc' = [pc EXCEPT ![p] = "release"]
        BY <1>9 DEF WriteHead, Goto
    <2> QED
        BY <2>1
<1>10. ASSUME NEW p \in Procs, Dispatch(p) PROVE WriterInv'
    BY <1>10 DEF Dispatch, Goto, NewEvent, EventId
<1>11. ASSUME NEW p \in Procs, ReadLog(p) PROVE WriterInv'
    BY <1>11 DEF ReadLog, Return, After, Goto, SetOutcome, NewEvent, EventId
<1>12. ASSUME NEW p \in Procs, ReadHead(p) PROVE WriterInv'
    BY <1>12 DEF ReadHead, Return, After, Goto, SetOutcome, NewEvent, EventId
<1>13. ASSUME NEW p \in Procs, Recover(p) PROVE WriterInv'
    <2>1. /\ lease = p /\ UNCHANGED <<log, view, req>>
          /\ pc[p] = "recover" /\ pc' = [pc EXCEPT ![p] = "release"]
        BY <1>13 DEF Recover, LockedRead, Goto
    <2> QED
        BY <2>1
<1>14. ASSUME NEW p \in Procs, Construct(p) PROVE WriterInv'
    BY <1>14 DEF Construct, Call, Goto, SetOutcome, NewEvent, EventId
<1>15. ASSUME NEW p \in Procs, Snapshot(p) PROVE WriterInv'
    BY <1>15 DEF Snapshot, Call, Goto, SetOutcome, NewEvent, EventId
<1>16. ASSUME NEW p \in Procs, Raise(p) PROVE WriterInv'
    BY <1>16 DEF Raise, Goto, SetOutcome, NewEvent, EventId
<1>17. ASSUME NEW p \in Procs, Kill(p) PROVE WriterInv'
    BY <1>17 DEF Kill, Goto, SetOutcome, NewEvent, EventId
<1>18. ASSUME NEW p \in Procs, NEW f \in Requests, Mutate(p, f) \/ DispatchOnce(p, f)
       PROVE  WriterInv'
    <2>1. /\ UNCHANGED <<log, tail, head, view>>
          /\ pc[p] = "ready" /\ pc' = [pc EXCEPT ![p] = "acquire"]
          /\ req' = [req EXCEPT ![p] = f]
        BY <1>18 DEF Mutate, DispatchOnce, Call, Goto
    <2> QED
        BY <2>1 DEF NewEvent, EventId
<1>19. CASE RemoveStaleLease
    BY <1>19 DEF RemoveStaleLease, NewEvent, EventId
<1>20. CASE UNCHANGED vars
    BY <1>20 DEF vars, NewEvent, EventId
<1> QED
    BY <1>1, <1>2, <1>3, <1>4, <1>5, <1>6, <1>7, <1>8, <1>9, <1>10, <1>11, <1>12,
       <1>13, <1>14, <1>15, <1>16, <1>17, <1>18, <1>19, <1>20, NextCases

-----------------------------------------------------------------------------
(* How the files change.                                                     *)

(* Only _append_event's write changes the log.                               *)
LEMMA LogChange ==
    ASSUME [Next]_vars
    PROVE  log' = log \/ \E p \in Procs : AppendEnd(p)
BY NextCases
DEF InitHead, AcquireLease, LeaseBusy, Release, InitRecheck, Decide, AppendBegin,
    WriteHead, Dispatch, ReadLog, ReadHead, Recover, Construct, Snapshot, Raise,
    Kill, Mutate, DispatchOnce, Call, RemoveStaleLease, vars, files

(* A legal append: what AppendEnd does to the log.                           *)
LEMMA AppendStep ==
    ASSUME TypeOK, WriterInv, NEW p \in Procs, AppendEnd(p)
    PROVE  /\ log' = Append(log, NewEvent(p)) /\ head' = head
           /\ NewEvent(p) \in Event /\ NewEvent(p).facts = req[p]
           /\ NewEvent(p).sequence = Len(log)
           /\ NewEvent(p).previous = IF log = << >> THEN NoId ELSE EventId(log, Len(log))
           /\ MayAppend(log, req[p])
           /\ head.event_count = Len(log)
           /\ log \in Seq(Event)
BY NewEventTyped DEF AppendEnd, WriterInv, NewEvent, TypeOK

(* The head is only ever set to anchor the last event of the log.            *)
LEMMA HeadChange ==
    ASSUME TypeOK, WriterInv, LogIsLegalChain, [Next]_vars
    PROVE  \/ head' = head
           \/ /\ log' = log /\ log # << >> /\ head' \in Heads
              /\ head'.event_count = Len(log)
              /\ head'.head_event = log[Len(log)]
<1>1. ASSUME NEW p \in Procs, InitRecheck(p) \/ Decide(p) \/ Recover(p)
      PROVE  \/ head' = head
             \/ /\ log' = log /\ log # << >> /\ head' \in Heads
                /\ head'.event_count = Len(log)
                /\ head'.head_event = log[Len(log)]
    BY <1>1, LockedReadHead DEF InitRecheck, Decide, Recover
<1>2. ASSUME NEW p \in Procs, WriteHead(p)
      PROVE  /\ log' = log /\ log # << >> /\ head' \in Heads
             /\ head'.event_count = Len(log)
             /\ head'.head_event = log[Len(log)]
    <2>1. /\ log' = log /\ head' = HeadAt(NewEvent(p))
          /\ Len(log) = Len(view[p]) + 1 /\ log[Len(log)] = NewEvent(p)
        BY <1>2 DEF WriteHead, WriterInv
    <2>2. NewEvent(p) \in Event /\ NewEvent(p).sequence = Len(view[p])
        BY NewEventTyped DEF NewEvent
    <2> QED
        BY <2>1, <2>2, HeadTyped DEF TypeOK
<1> QED
    BY <1>1, <1>2, NextCases
    DEF InitHead, AcquireLease, LeaseBusy, Release, AppendBegin, AppendEnd, Dispatch,
        ReadLog, ReadHead, Construct, Snapshot, Raise, Kill, Mutate, DispatchOnce,
        Call, RemoveStaleLease, vars, files

(* Nothing durable is lost or rewritten.                                     *)
LEMMA Monotone ==
    ASSUME TypeOK, WriterInv, LogIsLegalChain, HeadAnchorsLog, [Next]_vars
    PROVE  /\ Len(log') >= Len(log)
           /\ \A i \in DOMAIN log : i \in DOMAIN log' /\ log'[i] = log[i]
           /\ head'.event_count >= head.event_count
<1>1. /\ Len(log') >= Len(log)
      /\ \A i \in DOMAIN log : i \in DOMAIN log' /\ log'[i] = log[i]
    <2>1. ASSUME NEW p \in Procs, AppendEnd(p)
          PROVE  /\ Len(log') >= Len(log)
                 /\ \A i \in DOMAIN log : i \in DOMAIN log' /\ log'[i] = log[i]
        <3>1. log' = Append(log, NewEvent(p)) /\ NewEvent(p) \in Event /\ log \in Seq(Event)
            BY <2>1, AppendStep
        <3> QED
            BY <3>1
    <2>2. CASE log' = log
        BY <2>2 DEF TypeOK
    <2> QED
        BY <2>1, <2>2, LogChange
<1>2. head'.event_count >= head.event_count
    BY HeadChange DEF HeadAnchorsLog, TypeOK, Heads
<1> QED
    BY <1>1, <1>2

(* The log stays a legal chain.                                              *)
LEMMA HistoryStep ==
    ASSUME TypeOK, WriterInv, LogIsLegalChain, [Next]_vars
    PROVE  LogIsLegalChain'
<1>1. ASSUME NEW p \in Procs, AppendEnd(p)
      PROVE  LogIsLegalChain'
    BY <1>1, AppendStep, AppendLegal DEF LogIsLegalChain
<1> QED
    BY <1>1, LogChange
    DEF LogIsLegalChain, Chained, UniqueIds, LegalHistory, Charges, Kind, EventId,
        ReservationId

(* The head stays an anchor of the log.                                      *)
LEMMA HeadStep ==
    ASSUME TypeOK, WriterInv, LogIsLegalChain, HeadAnchorsLog, [Next]_vars
    PROVE  HeadAnchorsLog'
<1>1. ASSUME NEW p \in Procs, AppendEnd(p)
      PROVE  HeadAnchorsLog'
    <2>1. /\ log' = Append(log, NewEvent(p)) /\ NewEvent(p) \in Event
          /\ log \in Seq(Event) /\ head' = head /\ head.event_count = Len(log)
        BY <1>1, AppendStep
    <2>2. /\ Len(log') = Len(log) + 1 /\ Len(log) \in Nat
          /\ \A i \in 1 .. Len(log) : log'[i] = log[i]
        BY <2>1
    <2> QED
        BY <2>1, <2>2 DEF HeadAnchorsLog
<1>2. CASE log' = log /\ head' = head
    BY <1>2 DEF HeadAnchorsLog
<1>3. CASE /\ log' = log /\ log # << >>
           /\ head'.event_count = Len(log) /\ head'.head_event = log[Len(log)]
    BY <1>3 DEF HeadAnchorsLog, TypeOK
<1> QED
    BY <1>1, <1>2, <1>3, LogChange, HeadChange

(* What is anchored stays anchored, and is in the log.                       *)
LEMMA AnchoredGrow ==
    ASSUME TypeOK, WriterInv, LogIsLegalChain, HeadAnchorsLog, [Next]_vars
    PROVE  /\ AnchoredFacts \subseteq AnchoredFacts'
           /\ LogFacts \subseteq LogFacts'
           /\ AnchoredFacts \subseteq LogFacts
<1>1. /\ log \in Seq(Event) /\ head.event_count \in Nat
      /\ head.event_count <= Len(log)
    BY DEF TypeOK, Heads, HeadAnchorsLog
<1>2. /\ \A i \in DOMAIN log : i \in DOMAIN log' /\ log'[i] = log[i]
      /\ head'.event_count >= head.event_count
    BY Monotone
<1>3. 1 .. head.event_count \subseteq DOMAIN log
    BY <1>1
<1>4. head'.event_count \in Int
    BY <1>1, HeadChange
<1>5. 1 .. head.event_count \subseteq 1 .. head'.event_count
    BY <1>1, <1>2, <1>4
<1> QED
    BY <1>2, <1>3, <1>5 DEF AnchoredFacts, LogFacts

(* A reported write stays durable.                                           *)
LEMMA AckStep == TypeOK /\ CarryInv /\ WriterInv /\ LogIsLegalChain /\ HeadAnchorsLog /\ AckInv /\ [Next]_vars => AckInv'
<1> SUFFICES ASSUME TypeOK, CarryInv, WriterInv, LogIsLegalChain, HeadAnchorsLog, AckInv, [Next]_vars
             PROVE  AckInv'
    OBVIOUS
<1> USE DEF TypeOK, AckInv, files, procs, PCs
<1>a. AnchoredFacts \subseteq AnchoredFacts'
    BY AnchoredGrow
<1>1. ASSUME NEW p \in Procs, InitHead(p) PROVE AckInv'
    BY <1>1, <1>a DEF InitHead, Return, After, Goto, SetOutcome
<1>2. ASSUME NEW p \in Procs, AcquireLease(p) PROVE AckInv'
    BY <1>2, <1>a DEF AcquireLease, Goto, UnderLease
<1>3. ASSUME NEW p \in Procs, LeaseBusy(p) PROVE AckInv'
    BY <1>3, <1>a DEF LeaseBusy, UnderLease, Return, After, Goto, SetOutcome
<1>4. ASSUME NEW p \in Procs, Release(p) PROVE AckInv'
    BY <1>4, <1>a DEF Release, Return, After, Goto, SetOutcome
<1>5. ASSUME NEW p \in Procs, InitRecheck(p) PROVE AckInv'
    BY <1>5, <1>a DEF InitRecheck, LockedRead, Goto, SetOutcome
<1>6. ASSUME NEW p \in Procs, Decide(p) PROVE AckInv'
    <2>1. /\ pc[p] = "locked" /\ req' = req /\ log' = log
          /\ pc' \in {[pc EXCEPT ![p] = "append"], [pc EXCEPT ![p] = "release"]}
          /\ \A q \in Procs : q # p => outcome'[q] = outcome[q]
        BY <1>6 DEF Decide, LockedRead, Goto, SetOutcome
    <2>2. ASSUME pc'[p] = "release", outcome'[p] \in {"written", "duplicate"}
          PROVE  req[p] \in AnchoredFacts'
        <3>1. /\ Readable /\ head' = HeadAt(log[Len(log)])
              /\ outcome'[p] = Verdict(log, req[p])
            BY <1>6, <2>2 DEF Decide, LockedRead, Goto, SetOutcome
        <3>2. \E i \in DOMAIN log : log[i].facts = req[p]
            <4>1. req[p] \in Requests
                BY <1>6 DEF Decide, CarryInv
            <4>2. Verdict(log, req[p]) = "duplicate"
                BY <2>2, <3>1, <4>1, VerdictMeaning
            <4> QED
                BY <4>1, <4>2, VerdictMeaning, Zenon
        <3>3. head'.event_count = Len(log)
            <4>1. log # << >> /\ log[Len(log)].sequence = Len(log) - 1
                BY <3>1, LastIsEvent DEF LogIsLegalChain, Chained, Readable, Replays
            <4> QED
                BY <3>1, <4>1, HeadTyped, LastIsEvent
        <3> QED
            BY <2>1, <3>2, <3>3 DEF AnchoredFacts
    <2> QED
        BY <2>1, <2>2, <1>a
<1>7. ASSUME NEW p \in Procs, AppendBegin(p) PROVE AckInv'
    BY <1>7, <1>a DEF AppendBegin, Goto
<1>8. ASSUME NEW p \in Procs, AppendEnd(p) PROVE AckInv'
    BY <1>8, <1>a DEF AppendEnd, Goto
<1>9. ASSUME NEW p \in Procs, WriteHead(p) PROVE AckInv'
    <2>1. /\ UNCHANGED <<log, req>> /\ pc' = [pc EXCEPT ![p] = "release"]
          /\ outcome' = [outcome EXCEPT ![p] = "written"]
        BY <1>9 DEF WriteHead, Goto, SetOutcome
    <2>2. req[p] \in AnchoredFacts'
        <3>1. /\ head' = HeadAt(NewEvent(p)) /\ Len(log) = Len(view[p]) + 1
              /\ log[Len(log)] = NewEvent(p)
            BY <1>9 DEF WriteHead, WriterInv
        <3>2. /\ NewEvent(p) \in Event /\ NewEvent(p).sequence = Len(view[p])
              /\ NewEvent(p).facts = req[p]
            BY NewEventTyped DEF NewEvent
        <3>3. head'.event_count = Len(log) /\ Len(log) \in Nat /\ Len(log) >= 1
            BY <3>1, <3>2, HeadTyped
        <3>4. Len(log) \in 1 .. head'.event_count /\ log'[Len(log)].facts = req[p]
            BY <2>1, <3>1, <3>2, <3>3
        <3> QED
            BY <3>4, Zenon DEF AnchoredFacts
    <2> QED
        BY <2>1, <2>2, <1>a
<1>10. ASSUME NEW p \in Procs, Dispatch(p) PROVE AckInv'
    BY <1>10, <1>a DEF Dispatch, Goto
<1>11. ASSUME NEW p \in Procs, ReadLog(p) PROVE AckInv'
    BY <1>11, <1>a DEF ReadLog, Return, After, Goto, SetOutcome
<1>12. ASSUME NEW p \in Procs, ReadHead(p) PROVE AckInv'
    BY <1>12, <1>a DEF ReadHead, Return, After, Goto, SetOutcome
<1>13. ASSUME NEW p \in Procs, Recover(p) PROVE AckInv'
    BY <1>13, <1>a DEF Recover, LockedRead, Goto, SetOutcome
<1>14. ASSUME NEW p \in Procs, Construct(p) PROVE AckInv'
    BY <1>14, <1>a DEF Construct, Call, Goto, SetOutcome
<1>15. ASSUME NEW p \in Procs, Snapshot(p) PROVE AckInv'
    BY <1>15, <1>a DEF Snapshot, Call, Goto, SetOutcome
<1>16. ASSUME NEW p \in Procs, Raise(p) PROVE AckInv'
    BY <1>16, <1>a DEF Raise, Goto, SetOutcome
<1>17. ASSUME NEW p \in Procs, Kill(p) PROVE AckInv'
    BY <1>17, <1>a DEF Kill, Goto, SetOutcome
<1>18. ASSUME NEW p \in Procs, NEW f \in Requests, Mutate(p, f) \/ DispatchOnce(p, f)
       PROVE  AckInv'
    <2>1. /\ UNCHANGED <<log, head>> /\ pc' = [pc EXCEPT ![p] = "acquire"]
          /\ req' = [req EXCEPT ![p] = f]
          /\ outcome' = [outcome EXCEPT ![p] = "none"]
        BY <1>18 DEF Mutate, DispatchOnce, Call, Goto, SetOutcome
    <2> QED
        BY <2>1, <1>a
<1>19. CASE RemoveStaleLease
    BY <1>19, <1>a DEF RemoveStaleLease
<1>20. CASE UNCHANGED vars
    BY <1>20, <1>a DEF vars
<1> QED
    BY <1>1, <1>2, <1>3, <1>4, <1>5, <1>6, <1>7, <1>8, <1>9, <1>10, <1>11, <1>12,
       <1>13, <1>14, <1>15, <1>16, <1>17, <1>18, <1>19, <1>20, NextCases


(* A paid call is owed by one process at a time and made once.               *)
LEMMA DispatchStep == TypeOK /\ CarryInv /\ WriterInv /\ LogIsLegalChain /\ HeadAnchorsLog /\ AckInv /\ DispatchInv /\ [Next]_vars => DispatchInv'
<1> SUFFICES ASSUME TypeOK, CarryInv, WriterInv, LogIsLegalChain, HeadAnchorsLog, AckInv, DispatchInv, [Next]_vars
             PROVE  DispatchInv'
    OBVIOUS
<1> USE DEF TypeOK, DispatchInv, files, procs, PCs, Ops
<1>a. /\ AnchoredFacts \subseteq AnchoredFacts' /\ LogFacts \subseteq LogFacts'
      /\ AnchoredFacts \subseteq LogFacts
    BY AnchoredGrow
<1> DEFINE Frame == /\ dispatched' = dispatched
                    /\ \A q \in Procs : Owes(q)' => Owes(q) /\ req'[q] = req[q]
<1>f. Frame => DispatchInv'
    BY <1>a
<1> HIDE DEF Frame, DispatchInv
<1>1. ASSUME NEW p \in Procs, InitHead(p) PROVE DispatchInv'
    BY <1>1, <1>f DEF InitHead, Return, After, Goto, SetOutcome, Owes, Frame
<1>2. ASSUME NEW p \in Procs, AcquireLease(p) PROVE DispatchInv'
    BY <1>2, <1>f DEF AcquireLease, Goto, UnderLease, Owes, Frame
<1>3. ASSUME NEW p \in Procs, LeaseBusy(p) PROVE DispatchInv'
    BY <1>3, <1>f DEF LeaseBusy, UnderLease, Return, After, Goto, SetOutcome, Owes, Frame
<1>4. ASSUME NEW p \in Procs, Release(p) PROVE DispatchInv'
    BY <1>4, <1>f DEF Release, Return, After, Goto, SetOutcome, Owes, Frame
<1>5. ASSUME NEW p \in Procs, InitRecheck(p) PROVE DispatchInv'
    BY <1>5, <1>f DEF InitRecheck, LockedRead, Goto, SetOutcome, Owes, Frame
<1>6. ASSUME NEW p \in Procs, Decide(p) PROVE DispatchInv'
    <2>1. Verdict(log, req[p]) # "written"
        BY <1>6, VerdictMeaning DEF Decide, CarryInv
    <2>2. /\ UNCHANGED <<dispatched, op, req>>
          /\ \/ pc' = [pc EXCEPT ![p] = "append"] /\ outcome' = outcome
             \/ /\ pc' = [pc EXCEPT ![p] = "release"]
                /\ \/ outcome' = [outcome EXCEPT ![p] = "integrity"]
                   \/ outcome' = [outcome EXCEPT ![p] = Verdict(log, req[p])]
        BY <1>6 DEF Decide, LockedRead, Goto, SetOutcome
    <2> QED
        BY <2>1, <2>2, <1>f DEF Owes, Frame
<1>7. ASSUME NEW p \in Procs, AppendBegin(p) PROVE DispatchInv'
    BY <1>7, <1>f DEF AppendBegin, Goto, Owes, Frame
<1>8. ASSUME NEW p \in Procs, AppendEnd(p) PROVE DispatchInv'
    <2>1. /\ UNCHANGED <<dispatched, op, req, outcome>> /\ pc' = [pc EXCEPT ![p] = "anchor"]
        BY <1>8 DEF AppendEnd, Goto
    <2>2. \A q \in Procs : q # p => (Owes(q)' => Owes(q))
        BY <2>1 DEF Owes
    <2>3. /\ log' = Append(log, NewEvent(p)) /\ NewEvent(p) \in Event
          /\ NewEvent(p).facts = req[p] /\ MayAppend(log, req[p]) /\ log \in Seq(Event)
        BY <1>8, AppendStep
    <2>4. req[p] \in LogFacts'
        <3>1. Len(log) + 1 \in DOMAIN log' /\ log'[Len(log) + 1].facts = req[p]
            BY <2>3
        <3> QED
            BY <3>1, Zenon DEF LogFacts
    <2>5. ASSUME op[p] = "dispatch"
          PROVE  /\ req[p].event_id \in ReservationIds
                 /\ \A f \in LogFacts : f.event_id # req[p].event_id
        BY <2>3, <2>5 DEF CarryInv, MayAppend, Opened, LogFacts, EventId
    <2>6. op[p] = "dispatch" => dispatched[req[p].event_id] = 0
        <3>1. \A id \in ReservationIds : dispatched[id] = 0 \/ dispatched[id] = 1
            BY DEF DispatchInv
        <3>2. ASSUME op[p] = "dispatch", dispatched[req[p].event_id] = 1 PROVE FALSE
            <4>1. PICK f \in AnchoredFacts : f.event_id = req[p].event_id
                BY <2>5, <3>2 DEF DispatchInv
            <4> QED
                BY <1>a, <2>5, <3>2, <4>1
        <3> QED
            BY <2>5, <3>1, <3>2
    <2> QED
        BY <2>1, <2>2, <2>4, <2>5, <2>6, <1>a DEF Owes, DispatchInv
<1>9. ASSUME NEW p \in Procs, WriteHead(p) PROVE DispatchInv'
    BY <1>9, <1>f DEF WriteHead, Goto, SetOutcome, Owes, Frame
<1>10. ASSUME NEW p \in Procs, Dispatch(p) PROVE DispatchInv'
    <2>1. /\ pc[p] = "dispatch" /\ op[p] = "dispatch" /\ outcome[p] = "written"
          /\ req[p].kind = "reservation" /\ req[p].event_id \in ReservationIds
          /\ UNCHANGED <<log, head>>
        BY <1>10 DEF Dispatch, CarryInv
    <2>2. req[p] \in AnchoredFacts /\ Owes(p)
        BY <2>1 DEF AckInv, Owes
    <2>3. /\ dispatched' = [dispatched EXCEPT ![req[p].event_id] = dispatched[req[p].event_id] + 1]
          /\ dispatched[req[p].event_id] = 0
        BY <1>10, <2>2 DEF Dispatch, DispatchInv
    <2>4. /\ ~ Owes(p)'
          /\ \A q \in Procs : q # p => req'[q] = req[q] /\ (Owes(q)' => Owes(q))
        BY <1>10 DEF Dispatch, Goto, Owes
    <2>5. \A q \in Procs : Owes(q)' =>
             /\ q # p /\ req[q].event_id # req[p].event_id
             /\ dispatched'[req'[q].event_id] = 0 /\ req'[q] \in LogFacts'
        BY <2>2, <2>3, <2>4, <1>a DEF DispatchInv
    <2>6. \A q, r \in Procs :
             Owes(q)' /\ Owes(r)' /\ req'[q].event_id = req'[r].event_id => q = r
        BY <2>4, <2>5 DEF DispatchInv
    <2>7. \A id \in ReservationIds :
             /\ dispatched'[id] <= 1
             /\ dispatched'[id] = 1 =>
                   \E f \in AnchoredFacts' : f.kind = "reservation" /\ f.event_id = id
        BY <2>1, <2>2, <2>3, <1>a DEF DispatchInv
    <2> QED
        BY <2>5, <2>6, <2>7 DEF DispatchInv
<1>11. ASSUME NEW p \in Procs, ReadLog(p) PROVE DispatchInv'
    BY <1>11, <1>f DEF ReadLog, Return, After, Goto, SetOutcome, Owes, Frame
<1>12. ASSUME NEW p \in Procs, ReadHead(p) PROVE DispatchInv'
    BY <1>12, <1>f DEF ReadHead, Return, After, Goto, SetOutcome, Owes, Frame
<1>13. ASSUME NEW p \in Procs, Recover(p) PROVE DispatchInv'
    BY <1>13, <1>f DEF Recover, LockedRead, Goto, SetOutcome, Owes, Frame
<1>14. ASSUME NEW p \in Procs, Construct(p) PROVE DispatchInv'
    BY <1>14, <1>f DEF Construct, Call, Goto, SetOutcome, Owes, Frame
<1>15. ASSUME NEW p \in Procs, Snapshot(p) PROVE DispatchInv'
    BY <1>15, <1>f DEF Snapshot, Call, Goto, SetOutcome, Owes, Frame
<1>16. ASSUME NEW p \in Procs, Raise(p) PROVE DispatchInv'
    BY <1>16, <1>f DEF Raise, Goto, SetOutcome, Owes, Frame
<1>17. ASSUME NEW p \in Procs, Kill(p) PROVE DispatchInv'
    BY <1>17, <1>f DEF Kill, Goto, SetOutcome, Owes, Frame
<1>18. ASSUME NEW p \in Procs, NEW f \in Requests, Mutate(p, f) \/ DispatchOnce(p, f)
       PROVE  DispatchInv'
    <2>1. /\ UNCHANGED <<dispatched>> /\ pc' = [pc EXCEPT ![p] = "acquire"]
          /\ req' = [req EXCEPT ![p] = f]
          /\ \A q \in Procs : q # p => op'[q] = op[q] /\ outcome'[q] = outcome[q]
        BY <1>18 DEF Mutate, DispatchOnce, Call, Goto, SetOutcome
    <2> QED
        BY <2>1, <1>f DEF Owes, Frame
<1>19. CASE RemoveStaleLease
    BY <1>19, <1>f DEF RemoveStaleLease, Owes, Frame
<1>20. CASE UNCHANGED vars
    BY <1>20, <1>f DEF vars, Owes, Frame
<1> QED
    BY <1>1, <1>2, <1>3, <1>4, <1>5, <1>6, <1>7, <1>8, <1>9, <1>10, <1>11, <1>12,
       <1>13, <1>14, <1>15, <1>16, <1>17, <1>18, <1>19, <1>20, NextCases

-----------------------------------------------------------------------------
(* The theorems.                                                             *)

LEMMA InvInit == Init => Inv
<1> SUFFICES ASSUME Init PROVE Inv
    OBVIOUS
<1> USE DEF Init
<1>1. TypeOK
    BY FactsTyped, LedgerAssumption, BudgetAssumption DEF TypeOK, PCs, Ops, Outcomes
<1>2. LeaseInv /\ CarryInv /\ WriterInv /\ AckInv
    BY DEF LeaseInv, Holding, CarryInv, Idle, WriterInv, AckInv, NoHead
<1>3. LogIsLegalChain
    BY DEF LogIsLegalChain, Chained, UniqueIds, LegalHistory, Charges
<1>4. HeadAnchorsLog
    BY DEF HeadAnchorsLog, NoHead
<1>5. DispatchInv
    BY DEF DispatchInv, Owes
<1> QED
    BY <1>1, <1>2, <1>3, <1>4, <1>5 DEF Inv

LEMMA InvStep == Inv /\ [Next]_vars => Inv'
BY TypeStep, LeaseStep, CarryStep, WriterStep, HistoryStep, HeadStep, AckStep,
   DispatchStep DEF Inv

LEMMA Invariance == Spec => []Inv
BY InvInit, InvStep, PTL DEF Spec

(* Every field of the shared files and of every process keeps its type.      *)
THEOREM TypeCorrect == Spec => []TypeOK
BY Invariance, PTL DEF Inv

(* For any number of processes and faults, the complete lines of the log are *)
(* one legal hash chain (_writer_lease, _append_mutation, _append_event).    *)
THEOREM LedgerIsLegalChain == Spec => []LogIsLegalChain
BY Invariance, PTL DEF Inv

(* The head anchor names an event of the log and lags by at most one, however *)
(* often writers crash between the two writes (_write_head, _validate_head).  *)
THEOREM HeadIsAnchor == Spec => []HeadAnchorsLog
BY Invariance, PTL DEF Inv

(* What reserve and record report as written, or as already there, is in the  *)
(* log and under the head.                                                    *)
THEOREM Acknowledged == Spec => []AcknowledgedIsDurable
<1>1. Inv => AcknowledgedIsDurable
    BY DEF Inv, AckInv, AcknowledgedIsDurable, AnchoredFacts
<1> QED
    BY <1>1, Invariance, PTL

(* dispatch_once makes each paid call at most once, over all processes,       *)
(* crashes and retries, and never without an anchored reservation.            *)
THEOREM DispatchedOnce == Spec => []DispatchAtMostOnce
<1>1. Inv => DispatchAtMostOnce
    <2> SUFFICES ASSUME Inv, NEW id \in ReservationIds
                 PROVE  /\ dispatched[id] <= 1
                        /\ dispatched[id] = 1 =>
                              \E i \in 1 .. head.event_count :
                                 Kind(log, i) = "reservation" /\ EventId(log, i) = id
        BY DEF DispatchAtMostOnce
    <2>1. /\ dispatched[id] <= 1
          /\ dispatched[id] = 1 =>
                \E f \in AnchoredFacts : f.kind = "reservation" /\ f.event_id = id
        BY DEF Inv, DispatchInv
    <2> QED
        BY <2>1, Zenon DEF AnchoredFacts, Kind, EventId
<1> QED
    BY <1>1, Invariance, PTL

(* No step rewrites or drops a line of the log or moves the head back.        *)
THEOREM LedgerAppendOnly == Spec => AppendOnly
<1>1. Inv /\ [Next]_vars =>
        [ /\ Len(log') >= Len(log)
          /\ \A i \in DOMAIN log : log'[i] = log[i]
          /\ head'.event_count >= head.event_count ]_<<log, head>>
    BY Monotone DEF Inv
<1> QED
    BY <1>1, Invariance, PTL DEF Spec, AppendOnly

-----------------------------------------------------------------------------
(* Sums over finite sets.  FoldSet and its kin are recursive functions on    *)
(* the subsets of a set; that one exists is shown from smaller to larger     *)
(* subsets, and what it yields by a smallest subset for which it would not.  *)

Least(s) == CHOOSE x \in s : TRUE

\* h sums g over every subset of S as MapThenFoldSet does.
Sums(g, S, h) ==
    h = [s \in SUBSET S |-> IF s = {} THEN 0 ELSE g[Least(s)] + h[s \ {Least(s)}]]
Total(g, S) == MapThenSumSet(LAMBDA p : g[p], S)

LEMMA LeastIn == \A s : s # {} => Least(s) \in s
BY DEF Least

LEMMA TotalUnfolds ==
    ASSUME NEW g, NEW S
    PROVE  Total(g, S) = (CHOOSE h : Sums(g, S, h))[S]
BY DEF Total, MapThenSumSet, MapThenFoldSet, Sums, Least

\* Every set of numbers that is not empty has a least element.
LEMMA LeastNumber ==
    ASSUME NEW T \in SUBSET Nat, T # {}
    PROVE  \E n \in T : \A m \in T : n <= m
<1>1. PICK n \in T : \A m \in T : ~(<<m, n>> \in OpToRel(<, Nat))
    BY NatLessThanWellFounded, WFMin
<1>2. \A m \in T : <<m, n>> \in OpToRel(<, Nat) <=> m < n
    BY DEF OpToRel
<1>3. \A m \in T : ~(m < n)
    BY <1>1, <1>2, Zenon
<1> QED
    BY <1>3

\* A set of finite sets that is not empty has one with the fewest elements.
LEMMA Smallest ==
    ASSUME NEW S, IsFiniteSet(S), NEW B \in SUBSET (SUBSET S), B # {}
    PROVE  \E s \in B : \A x \in s : s \ {x} \notin B
<1> DEFINE Sizes == {Cardinality(s) : s \in B}
<1>1. \A s \in SUBSET S : IsFiniteSet(s) /\ Cardinality(s) \in Nat
    BY FS_Subset, FS_CardinalityType
<1>2. PICK n \in Sizes : \A m \in Sizes : n <= m
    <2>1. Sizes \in SUBSET Nat /\ Sizes # {}
        BY <1>1
    <2> HIDE DEF Sizes
    <2> QED
        BY <2>1, LeastNumber
<1>3. PICK s \in B : n = Cardinality(s)
    BY <1>2
<1>4. ASSUME NEW x \in s, s \ {x} \in B PROVE FALSE
    <2>1. Cardinality(s \ {x}) = Cardinality(s) - 1
        BY <1>1, FS_RemoveElement
    <2>2. Cardinality(s \ {x}) \in Sizes
        BY <1>4
    <2> QED
        BY <1>1, <1>2, <1>3, <2>1, <2>2
<1> QED
    BY <1>3, <1>4

\* Two such functions agree where both are defined.
LEMMA SumsAgree ==
    ASSUME NEW g, NEW S, IsFiniteSet(S), NEW T, NEW h, NEW k, Sums(g, S, h), Sums(g, T, k)
    PROVE  \A s \in SUBSET (S \cap T) : h[s] = k[s]
<1> DEFINE B == {s \in SUBSET (S \cap T) : h[s] # k[s]}
<1>1. SUFFICES ASSUME B # {} PROVE FALSE
    OBVIOUS
<1>2. PICK s \in B : \A x \in s : s \ {x} \notin B
    BY <1>1, Smallest
<1>3. s \in SUBSET S /\ s \in SUBSET T /\ h[s] # k[s]
    OBVIOUS
<1>4. /\ h[s] = IF s = {} THEN 0 ELSE g[Least(s)] + h[s \ {Least(s)}]
      /\ k[s] = IF s = {} THEN 0 ELSE g[Least(s)] + k[s \ {Least(s)}]
    BY <1>3 DEF Sums
<1>5. s # {} => h[s \ {Least(s)}] = k[s \ {Least(s)}]
    BY <1>2, LeastIn
<1> QED
    BY <1>3, <1>4, <1>5

LEMMA SumsExist == ASSUME NEW g, NEW S, IsFiniteSet(S) PROVE \E h : Sums(g, S, h)
<1> DEFINE Upto(n) == {s \in SUBSET S : Cardinality(s) <= n}
           Level(n, h) == [s \in Upto(n) |-> IF s = {} THEN 0 ELSE g[Least(s)] + h[s \ {Least(s)}]]
           Exist(n) == \E h : h = Level(n, h)
           Bad == {n \in Nat : ~Exist(n)}
<1>1. \A s \in SUBSET S : /\ IsFiniteSet(s) /\ Cardinality(s) \in Nat
                          /\ Cardinality(s) = 0 => s = {}
                          /\ s # {} => Cardinality(s \ {Least(s)}) = Cardinality(s) - 1
    BY FS_Subset, FS_CardinalityType, FS_EmptySet, FS_RemoveElement, LeastIn
<1>2. Exist(0)
    <2>1. ASSUME NEW s \in Upto(0) PROVE s = {}
        <3>1. s \in SUBSET S /\ Cardinality(s) <= 0
            BY <2>1
        <3>2. Cardinality(s) \in Nat /\ (Cardinality(s) = 0 => s = {})
            BY <1>1, <3>1
        <3> QED
            BY <3>1, <3>2
    <2>2. \A h : Level(0, h) = [s \in Upto(0) |-> 0]
        BY <2>1
    <2> QED
        BY <2>2
<1>3. ASSUME NEW n \in Nat \ {0}, Exist(n - 1) PROVE Exist(n)
    <2>1. PICK h : h = Level(n - 1, h)
        BY <1>3
    <2>2. ASSUME NEW s \in Upto(n - 1) PROVE s \in Upto(n) /\ h[s] = Level(n, h)[s]
        <3>1. Cardinality(s) \in Nat /\ Cardinality(s) <= n - 1
            BY <1>1, <2>2
        <3>2. s \in Upto(n)
            BY <2>2, <3>1
        <3>3. h[s] = IF s = {} THEN 0 ELSE g[Least(s)] + h[s \ {Least(s)}]
            BY <2>1, <2>2
        <3> QED
            BY <3>2, <3>3
    <2>3. ASSUME NEW s \in Upto(n), s # {} PROVE s \ {Least(s)} \in Upto(n - 1)
        <3>1. Cardinality(s) \in Nat /\ Cardinality(s) <= n
            BY <1>1, <2>3
        <3>2. Cardinality(s \ {Least(s)}) = Cardinality(s) - 1
            BY <1>1, <2>3
        <3> QED
            BY <2>3, <3>1, <3>2
    <2>4. \A s \in Upto(n) : s # {} => h[s \ {Least(s)}] = Level(n, h)[s \ {Least(s)}]
        BY <2>2, <2>3
    <2>5. Level(n, h) = Level(n, Level(n, h))
        BY <2>4
    <2> QED
        BY <2>5
<1>4. Exist(Cardinality(S))
    <2> HIDE DEF Exist
    <2>1. SUFFICES ASSUME Bad # {} PROVE FALSE
        BY <1>1
    <2>2. PICK n \in Bad : \A m \in Bad : n <= m
        BY <2>1, LeastNumber
    <2>3. n \in Nat \ {0} /\ n - 1 \in Nat /\ ~(n <= n - 1)
        BY <1>2
    <2>4. Exist(n - 1)
        BY <2>2, <2>3
    <2> QED
        BY <1>3, <2>3, <2>4
<1>5. Upto(Cardinality(S)) = SUBSET S
    BY FS_Subset
<1> QED
    BY <1>4, <1>5 DEF Sums

LEMMA TotalIs ==
    ASSUME NEW g, NEW S, IsFiniteSet(S)
    PROVE  Total(g, S) = IF S = {} THEN 0 ELSE g[Least(S)] + Total(g, S \ {Least(S)})
<1>1. \A T \in SUBSET S : IsFiniteSet(T)
    BY FS_Subset
<1>2. PICK h : h = (CHOOSE k : Sums(g, S, k)) /\ Sums(g, S, h) /\ Total(g, S) = h[S]
    BY SumsExist, TotalUnfolds
<1>3. \A T \in SUBSET S : Total(g, T) = h[T]
    <2> SUFFICES ASSUME NEW T \in SUBSET S PROVE Total(g, T) = h[T]
        OBVIOUS
    <2>1. PICK k : Sums(g, T, k) /\ Total(g, T) = k[T]
        BY <1>1, SumsExist, TotalUnfolds
    <2> QED
        BY <1>2, <2>1, SumsAgree
<1>4. h[S] = IF S = {} THEN 0 ELSE g[Least(S)] + h[S \ {Least(S)}]
    BY <1>2 DEF Sums
<1> QED
    BY <1>2, <1>3, <1>4

\* The sum is that of the values on the set.
LEMMA TotalSame ==
    ASSUME NEW S, IsFiniteSet(S), NEW g, NEW k, \A p \in S : g[p] = k[p]
    PROVE  Total(g, S) = Total(k, S)
<1> DEFINE B == {T \in SUBSET S : Total(g, T) # Total(k, T)}
<1>1. SUFFICES ASSUME B # {} PROVE FALSE
    OBVIOUS
<1>2. PICK T \in B : \A x \in T : T \ {x} \notin B
    BY <1>1, Smallest
<1>3. T \in SUBSET S /\ IsFiniteSet(T)
    BY FS_Subset
<1>4. T # {} => /\ Total(g, T \ {Least(T)}) = Total(k, T \ {Least(T)})
               /\ g[Least(T)] = k[Least(T)]
    BY <1>2, LeastIn
<1>5. /\ Total(g, T) = IF T = {} THEN 0 ELSE g[Least(T)] + Total(g, T \ {Least(T)})
      /\ Total(k, T) = IF T = {} THEN 0 ELSE k[Least(T)] + Total(k, T \ {Least(T)})
    BY <1>3, TotalIs
<1> QED
    BY <1>2, <1>4, <1>5

\* Naturals sum to a natural.
LEMMA TotalIsNat ==
    ASSUME NEW S, IsFiniteSet(S), NEW g, \A p \in S : g[p] \in Nat
    PROVE  Total(g, S) \in Nat
<1> DEFINE B == {T \in SUBSET S : Total(g, T) \notin Nat}
<1>1. SUFFICES ASSUME B # {} PROVE FALSE
    OBVIOUS
<1>2. PICK T \in B : \A x \in T : T \ {x} \notin B
    BY <1>1, Smallest
<1>3. T \in SUBSET S /\ IsFiniteSet(T)
    BY FS_Subset
<1>4. T # {} => Total(g, T \ {Least(T)}) \in Nat /\ g[Least(T)] \in Nat
    BY <1>2, LeastIn
<1> QED
    BY <1>2, <1>3, <1>4, TotalIs

\* Any element may be taken out first.
LEMMA TotalLess ==
    ASSUME NEW S, IsFiniteSet(S), NEW g, \A p \in S : g[p] \in Nat
    PROVE  \A x \in S : Total(g, S) = g[x] + Total(g, S \ {x})
<1> DEFINE Splits(T) == \A x \in T : Total(g, T) = g[x] + Total(g, T \ {x})
           B == {T \in SUBSET S : ~Splits(T)}
<1>1. SUFFICES ASSUME B # {} PROVE FALSE
    OBVIOUS
<1>2. PICK T \in B : \A y \in T : T \ {y} \notin B
    BY <1>1, Smallest
<1>3. \A R \in SUBSET S : IsFiniteSet(R) /\ Total(g, R) \in Nat
    BY FS_Subset, TotalIsNat
<1>4. ASSUME NEW x \in T PROVE Total(g, T) = g[x] + Total(g, T \ {x})
    <2> DEFINE y == Least(T)
    <2>1. y \in T /\ Total(g, T) = g[y] + Total(g, T \ {y})
        BY <1>3, TotalIs, LeastIn
    <2>2. CASE y = x
        BY <2>1, <2>2
    <2>3. CASE y # x
        <3>1. Splits(T \ {x}) /\ Splits(T \ {y})
            BY <1>2, <2>1
        <3>2. /\ Total(g, T \ {x}) = g[y] + Total(g, (T \ {x}) \ {y})
              /\ Total(g, T \ {y}) = g[x] + Total(g, (T \ {y}) \ {x})
            BY <2>1, <2>3, <3>1
        <3>3. (T \ {x}) \ {y} = (T \ {y}) \ {x}
            OBVIOUS
        <3>4. g[x] \in Nat /\ g[y] \in Nat /\ Total(g, (T \ {x}) \ {y}) \in Nat
            BY <1>3, <2>1
        <3>5. g[x] + (g[y] + Total(g, (T \ {x}) \ {y})) = g[y] + (g[x] + Total(g, (T \ {x}) \ {y}))
            BY <3>4
        <3> QED
            BY <2>1, <3>2, <3>3, <3>5
    <2> QED
        BY <2>2, <2>3
<1> QED
    BY <1>2, <1>4

-----------------------------------------------------------------------------
(* The sums of the log.                                                      *)

AmountOf(s, r) == [i \in DOMAIN s |-> s[i].facts.amount[r]]

(* What SumOver is of the amounts of a log.                                  *)
LEMMA SumOverIs ==
    ASSUME NEW s, NEW S \in SUBSET (DOMAIN s), NEW r \in Resource
    PROVE  SumOver(s, S)[r] = Total(AmountOf(s, r), S)
<1> DEFINE D(h) == h = [u \in SUBSET S |-> IF u = {} THEN 0
                                 ELSE s[Least(u)].facts.amount[r] + h[u \ {Least(u)}]]
<1>1. SumOver(s, S)[r] = (CHOOSE h : D(h))[S]
    BY DEF SumOver, MapThenSumSet, MapThenFoldSet, Least
<1>2. \A u \in SUBSET S : u # {} => s[Least(u)].facts.amount[r] = AmountOf(s, r)[Least(u)]
    BY LeastIn DEF AmountOf
<1>3. \A h : D(h) <=> Sums(AmountOf(s, r), S, h)
    BY <1>2 DEF Sums
<1> HIDE DEF D
<1>4. (CHOOSE h : D(h)) = CHOOSE h : Sums(AmountOf(s, r), S, h)
    BY <1>3
<1> QED
    BY <1>1, <1>4, TotalUnfolds

LEMMA AmountTyped ==
    ASSUME NEW s \in Seq(Event), NEW r \in Resource
    PROVE  /\ \A i \in DOMAIN s : AmountOf(s, r)[i] = s[i].facts.amount[r]
           /\ \A i \in DOMAIN s : AmountOf(s, r)[i] \in Nat
           /\ \A S \in SUBSET (DOMAIN s) : IsFiniteSet(S)
<1>1. \A i \in DOMAIN s : s[i] \in Event
    OBVIOUS
<1>2. \A e \in Event : e.facts.amount[r] \in Nat
    BY DEF Event, Facts, Amount
<1>3. IsFiniteSet(DOMAIN s)
    BY FS_Interval
<1> QED
    BY <1>1, <1>2, <1>3, FS_Subset DEF AmountOf

(* A sum over events that stay is the same when the log grows.               *)
LEMMA SumOverGrown ==
    ASSUME NEW s \in Seq(Event), NEW e \in Event, NEW S \in SUBSET (DOMAIN s)
    PROVE  SumOver(Append(s, e), S) = SumOver(s, S)
<1> DEFINE t == Append(s, e)
<1>1. t \in Seq(Event) /\ S \in SUBSET (DOMAIN t) /\ \A i \in DOMAIN s : t[i] = s[i]
    OBVIOUS
<1> HIDE DEF t
<1>2. ASSUME NEW r \in Resource
      PROVE  SumOver(t, S)[r] = SumOver(s, S)[r]
    <2>1. \A i \in S : AmountOf(t, r)[i] = AmountOf(s, r)[i]
        BY <1>1 DEF AmountOf
    <2>2. IsFiniteSet(S)
        BY AmountTyped
    <2>3. Total(AmountOf(t, r), S) = Total(AmountOf(s, r), S)
        BY <2>1, <2>2, TotalSame
    <2> QED
        BY <1>1, <2>3, SumOverIs
<1> QED
    BY <1>2 DEF SumOver, t

(* A sum is that of the other events and of one of them.                     *)
LEMMA SumOverSplit ==
    ASSUME NEW s \in Seq(Event), NEW S \in SUBSET (DOMAIN s), NEW i \in S
    PROVE  /\ SumOver(s, S) = Plus(SumOver(s, S \ {i}), s[i].facts.amount)
           /\ SumOver(s, S) \in Amount /\ SumOver(s, S \ {i}) \in Amount
           /\ s[i].facts.amount \in Amount
<1>1. s[i].facts.amount \in Amount
    <2>1. s[i] \in Event
        OBVIOUS
    <2> QED
        BY <2>1 DEF Event, Facts
<1>2. ASSUME NEW r \in Resource
      PROVE  /\ SumOver(s, S)[r] = SumOver(s, S \ {i})[r] + s[i].facts.amount[r]
             /\ SumOver(s, S)[r] \in Nat /\ SumOver(s, S \ {i})[r] \in Nat
    <2>1. /\ IsFiniteSet(S) /\ IsFiniteSet(S \ {i}) /\ S \ {i} \in SUBSET (DOMAIN s)
          /\ \A j \in S : AmountOf(s, r)[j] \in Nat
          /\ AmountOf(s, r)[i] = s[i].facts.amount[r]
        BY AmountTyped
    <2>2. Total(AmountOf(s, r), S) = AmountOf(s, r)[i] + Total(AmountOf(s, r), S \ {i})
        BY <2>1, TotalLess
    <2>3. Total(AmountOf(s, r), S \ {i}) \in Nat /\ Total(AmountOf(s, r), S) \in Nat
        BY <2>1, TotalIsNat
    <2>4. /\ SumOver(s, S)[r] = Total(AmountOf(s, r), S)
          /\ SumOver(s, S \ {i})[r] = Total(AmountOf(s, r), S \ {i})
        BY <2>1, SumOverIs
    <2> QED
        BY <2>1, <2>2, <2>3, <2>4
<1>3. \A T : SumOver(s, T) = [r \in Resource |-> SumOver(s, T)[r]]
    BY DEF SumOver
<1> QED
    BY <1>1, <1>2, <1>3 DEF Plus, Amount

(* A sum over no events.                                                     *)
LEMMA SumOverNothing == ASSUME NEW s PROVE SumOver(s, {}) = Nothing
<1>1. ASSUME NEW r \in Resource PROVE SumOver(s, {})[r] = 0
    <2>1. Total(AmountOf(s, r), {}) = 0
        BY TotalIs, FS_EmptySet
    <2>2. SumOver(s, {})[r] = Total(AmountOf(s, r), {})
        BY SumOverIs
    <2> QED
        BY <2>1, <2>2
<1>2. SumOver(s, {}) = [r \in Resource |-> SumOver(s, {})[r]]
    BY DEF SumOver
<1> QED
    BY <1>1, <1>2 DEF Nothing

LEMMA SumOverTyped ==
    ASSUME NEW s \in Seq(Event), NEW S \in SUBSET (DOMAIN s)
    PROVE  SumOver(s, S) \in Amount
<1>1. CASE S = {}
    BY <1>1, SumOverNothing DEF Nothing, Amount
<1>2. CASE S # {}
    BY <1>2, SumOverSplit
<1> QED
    BY <1>1, <1>2

(* The genesis reserves and charges nothing.                                 *)
LEMMA OpenedSums ==
    ASSUME NEW e \in Event, e.facts = Opened
    PROVE  LET t == Append(<< >>, e)
           IN  ReservedIn(t) = ReservedIn(<< >>) /\ SpentIn(t) = SpentIn(<< >>)
<1> DEFINE t == Append(<< >>, e)
<1>1. /\ Outstanding(t) = {} /\ Charges(t) = {}
      /\ Outstanding(<< >>) = {} /\ Charges(<< >>) = {}
    BY DEF Outstanding, Charges, Kind, Opened
<1> QED
    BY <1>1, SumOverNothing DEF ReservedIn, SpentIn

(* What an appended reservation does to the sums: the events before it stay  *)
(* outstanding, because none charges the new identity.                       *)
LEMMA ReservationSums ==
    ASSUME NEW s \in Seq(Event), NEW e \in Event, LegalHistory(s), UniqueIds(s),
           e.facts.kind = "reservation",
           \A i \in DOMAIN s : EventId(s, i) # e.facts.event_id
    PROVE  LET t == Append(s, e)
           IN  /\ ReservedIn(t) = Plus(ReservedIn(s), e.facts.amount)
               /\ SpentIn(t) = SpentIn(s)
<1> DEFINE t == Append(s, e)
           n == Len(s) + 1
<1>1. /\ t \in Seq(Event) /\ DOMAIN t = DOMAIN s \cup {n} /\ n \notin DOMAIN s
      /\ \A i \in DOMAIN s : t[i] = s[i]
      /\ t[n] = e
    OBVIOUS
<1> HIDE DEF t, n
<1>2. \A i \in DOMAIN s : /\ Kind(t, i) = Kind(s, i) /\ EventId(t, i) = EventId(s, i)
                          /\ ReservationId(t, i) = ReservationId(s, i)
    BY <1>1 DEF Kind, EventId, ReservationId
<1>3. Kind(t, n) = "reservation" /\ EventId(t, n) = e.facts.event_id
    BY <1>1 DEF Kind, EventId
<1>4. \A id : Charged(t, id) <=> Charged(s, id)
    BY <1>1, <1>2, <1>3, Zenon DEF Charged
<1>5. ~Charged(s, e.facts.event_id)
    <2> SUFFICES ASSUME NEW i \in DOMAIN s, Kind(s, i) = "charge",
                        ReservationId(s, i) = e.facts.event_id
                 PROVE  FALSE
        BY DEF Charged
    <2>1. PICK j \in 1 .. (i - 1) : EventId(s, j) = ReservationId(s, i)
        BY DEF LegalHistory, Charges
    <2>2. j \in DOMAIN s
        OBVIOUS
    <2> QED
        BY <2>1, <2>2
<1>6. /\ Outstanding(t) = Outstanding(s) \cup {n} /\ Outstanding(t) \ {n} = Outstanding(s)
      /\ Outstanding(s) \in SUBSET (DOMAIN s)
    BY <1>1, <1>2, <1>3, <1>4, <1>5 DEF Outstanding
<1>7. Charges(t) = Charges(s) /\ Charges(s) \in SUBSET (DOMAIN s)
    BY <1>1, <1>2, <1>3 DEF Charges
<1>8. SumOver(t, Outstanding(t)) = Plus(SumOver(t, Outstanding(s)), e.facts.amount)
    <2>1. Outstanding(t) \in SUBSET (DOMAIN t) /\ n \in Outstanding(t)
        BY <1>1, <1>6
    <2> QED
        BY <1>1, <1>6, <2>1, SumOverSplit
<1>9. /\ SumOver(t, Outstanding(s)) = SumOver(s, Outstanding(s))
      /\ SumOver(t, Charges(s)) = SumOver(s, Charges(s))
    BY <1>6, <1>7, SumOverGrown DEF t
<1> QED
    BY <1>7, <1>8, <1>9 DEF ReservedIn, SpentIn, t

(* What an appended charge does to the sums: its reservation is no longer    *)
(* outstanding, and its amount was part of what is reserved.                 *)
LEMMA ChargeSums ==
    ASSUME NEW s \in Seq(Event), NEW e \in Event, UniqueIds(s),
           e.facts.kind = "charge",
           Reserves(s, e.facts.reservation_id), ~Charged(s, e.facts.reservation_id)
    PROVE  LET t == Append(s, e)
           IN  \E j \in DOMAIN s :
                  /\ Kind(s, j) = "reservation"
                  /\ Within(s[j].facts.amount, ReservedIn(s))
                  /\ ReservedIn(t) = Minus(ReservedIn(s), s[j].facts.amount)
                  /\ SpentIn(t) = Plus(SpentIn(s), e.facts.amount)
<1> DEFINE t == Append(s, e)
           n == Len(s) + 1
           rid == e.facts.reservation_id
<1>1. /\ t \in Seq(Event) /\ DOMAIN t = DOMAIN s \cup {n} /\ n \notin DOMAIN s
      /\ \A i \in DOMAIN s : t[i] = s[i]
      /\ t[n] = e
    OBVIOUS
<1> HIDE DEF t, n
<1>2. \A i \in DOMAIN s : /\ Kind(t, i) = Kind(s, i) /\ EventId(t, i) = EventId(s, i)
                          /\ ReservationId(t, i) = ReservationId(s, i)
    BY <1>1 DEF Kind, EventId, ReservationId
<1>3. Kind(t, n) = "charge" /\ ReservationId(t, n) = rid
    BY <1>1 DEF Kind, ReservationId
<1>4. PICK j \in DOMAIN s : Kind(s, j) = "reservation" /\ EventId(s, j) = rid
    BY DEF Reserves
<1> HIDE DEF rid
<1>5. \A i \in DOMAIN s : EventId(s, i) = rid => i = j
    BY <1>4 DEF UniqueIds
<1>6. \A id : Charged(t, id) <=> Charged(s, id) \/ id = rid
    BY <1>1, <1>2, <1>3, Zenon DEF Charged
<1>7. j \in Outstanding(s)
    BY <1>4 DEF Outstanding, rid
<1>8. /\ Outstanding(t) = Outstanding(s) \ {j} /\ Outstanding(s) \in SUBSET (DOMAIN s)
    BY <1>1, <1>2, <1>3, <1>4, <1>5, <1>6 DEF Outstanding
<1>9. /\ Charges(t) = Charges(s) \cup {n} /\ Charges(t) \ {n} = Charges(s)
      /\ Charges(s) \in SUBSET (DOMAIN s)
    BY <1>1, <1>2, <1>3 DEF Charges
<1>10. SumOver(t, Charges(t)) = Plus(SumOver(s, Charges(s)), e.facts.amount)
    <2>1. Charges(t) \in SUBSET (DOMAIN t) /\ n \in Charges(t)
        BY <1>1, <1>9
    <2>2. SumOver(t, Charges(t)) = Plus(SumOver(t, Charges(s)), e.facts.amount)
        BY <1>1, <1>9, <2>1, SumOverSplit
    <2>3. SumOver(t, Charges(s)) = SumOver(s, Charges(s))
        BY <1>9, SumOverGrown DEF t
    <2> QED
        BY <2>2, <2>3
<1>11. /\ SumOver(s, Outstanding(s)) = Plus(SumOver(t, Outstanding(t)), s[j].facts.amount)
       /\ SumOver(t, Outstanding(t)) \in Amount /\ s[j].facts.amount \in Amount
    <2>1. /\ SumOver(s, Outstanding(s)) =
                 Plus(SumOver(s, Outstanding(s) \ {j}), s[j].facts.amount)
          /\ SumOver(s, Outstanding(s) \ {j}) \in Amount /\ s[j].facts.amount \in Amount
        BY <1>7, <1>8, SumOverSplit
    <2>2. SumOver(t, Outstanding(t)) = SumOver(s, Outstanding(s) \ {j})
        BY <1>8, SumOverGrown DEF t
    <2> QED
        BY <2>1, <2>2
<1>12. /\ Within(s[j].facts.amount, ReservedIn(s))
       /\ ReservedIn(t) = Minus(ReservedIn(s), s[j].facts.amount)
    <2>1. \A a, b \in Amount : Within(b, Plus(a, b)) /\ a = Minus(Plus(a, b), b)
        BY DEF Amount, Within, Plus, Minus
    <2> QED
        BY <1>11, <2>1 DEF ReservedIn
<1> QED
    BY <1>4, <1>10, <1>12 DEF SpentIn, t


-----------------------------------------------------------------------------
(* The refinement of BudgetManager.                                          *)

\* Every reservation of the log is of an amount callers may reserve.
AmountsInv ==
    \A i \in DOMAIN log : Kind(log, i) = "reservation" => log[i].facts.amount \in ReserveAmounts

LEMMA RequestAmounts ==
    ASSUME NEW f \in Requests
    PROVE  /\ f.kind = "reservation" => f.amount \in ReserveAmounts
           /\ f.kind = "charge" => f.amount \in ChargeAmounts
BY DEF Requests, Reservation, Charge

LEMMA AmountsStep == ASSUME Inv, AmountsInv, [Next]_vars PROVE AmountsInv'
<1>1. ASSUME NEW p \in Procs, AppendEnd(p) PROVE AmountsInv'
    <2>1. /\ log' = Append(log, NewEvent(p)) /\ NewEvent(p) \in Event /\ log \in Seq(Event)
          /\ NewEvent(p).facts = req[p] /\ MayAppend(log, req[p])
        BY <1>1, AppendStep DEF Inv
    <2>2. req[p].kind = "reservation" => req[p].amount \in ReserveAmounts
        BY <2>1, RequestAmounts DEF MayAppend, Opened
    <2>3. /\ DOMAIN log' = DOMAIN log \cup {Len(log) + 1}
          /\ \A i \in DOMAIN log : log'[i] = log[i]
          /\ log'[Len(log) + 1].facts = req[p]
        BY <2>1
    <2> QED
        BY <2>2, <2>3 DEF AmountsInv, Kind
<1> QED
    BY <1>1, LogChange DEF AmountsInv, Kind

(* An append reserves, or records, as BudgetManager would; nothing else      *)
(* changes a sum.                                                            *)
LEMMA LedgerStep ==
    ASSUME Inv, AmountsInv, [Next]_vars
    PROVE  [Budget!BMNext]_<<ReservedIn(log), SpentIn(log)>>
<1> USE DEF Budget!Within, Budget!Plus, Budget!Minus, Budget!Resource, Within, Plus, Minus,
            Resource
<1>1. CASE log' = log
    BY <1>1
<1>2. ASSUME NEW p \in Procs, AppendEnd(p)
      PROVE  [Budget!BMNext]_<<ReservedIn(log), SpentIn(log)>>
    <2> DEFINE e == NewEvent(p)
    <2>1. /\ log' = Append(log, e) /\ e \in Event /\ log \in Seq(Event)
          /\ e.facts = req[p] /\ MayAppend(log, e.facts)
          /\ LegalHistory(log) /\ UniqueIds(log)
        BY <1>2, AppendStep DEF Inv, LogIsLegalChain
    <2> HIDE DEF e
    <2>2. CASE log = << >> /\ e.facts = Opened
        BY <2>1, <2>2, OpenedSums
    <2>3. ASSUME e.facts \in Requests, Affords(log, e.facts), e.facts.kind = "reservation",
                 \A i \in DOMAIN log : EventId(log, i) # e.facts.event_id
          PROVE  Budget!BMNext
        <3>1. /\ ReservedIn(log)' = Plus(ReservedIn(log), e.facts.amount)
              /\ SpentIn(log)' = SpentIn(log)
            BY <2>1, <2>3, ReservationSums
        <3>2. Within(Plus(Plus(SpentIn(log), ReservedIn(log)), e.facts.amount), Authorized)
            BY <2>3 DEF Affords
        <3>3. e.facts.amount \in ReserveAmounts
            BY <2>3, RequestAmounts
        <3>4. Budget!Reserve(e.facts.amount)
            BY <3>1, <3>2 DEF Budget!Reserve
        <3> QED
            BY <3>3, <3>4 DEF Budget!BMNext
    <2>4. ASSUME e.facts \in Requests, Affords(log, e.facts), e.facts.kind = "charge",
                 Reserves(log, e.facts.reservation_id), ~Charged(log, e.facts.reservation_id)
          PROVE  Budget!BMNext
        <3>1. PICK j \in DOMAIN log :
                  /\ Kind(log, j) = "reservation"
                  /\ Within(log[j].facts.amount, ReservedIn(log))
                  /\ ReservedIn(log)' = Minus(ReservedIn(log), log[j].facts.amount)
                  /\ SpentIn(log)' = Plus(SpentIn(log), e.facts.amount)
            BY <2>1, <2>4, ChargeSums
        <3>2. Within(Plus(SpentIn(log), e.facts.amount), Authorized)
            BY <2>4 DEF Affords
        <3>3. log[j].facts.amount \in ReserveAmounts /\ e.facts.amount \in ChargeAmounts
            BY <2>4, <3>1, RequestAmounts DEF AmountsInv
        <3>4. Budget!Record(log[j].facts.amount, e.facts.amount)
            BY <3>1, <3>2 DEF Budget!Record
        <3> QED
            BY <3>3, <3>4 DEF Budget!BMNext
    <2> QED
        BY <2>1, <2>2, <2>3, <2>4, Zenon DEF MayAppend
<1> QED
    BY <1>1, <1>2, LogChange

(* The durable ledger implements the in-memory accounting: whatever          *)
(* processes race, crash and retry, an event that reaches the log reserves   *)
(* or charges as BudgetManager.reserve and record would.                     *)
THEOREM LedgerKeepsTheBudget == Spec => ImplementsBudgetManager
<1>1. Init => Budget!BMInit /\ AmountsInv
    <2> SUFFICES ASSUME Init PROVE Budget!BMInit /\ AmountsInv
        OBVIOUS
    <2>1. log = << >> /\ Outstanding(log) = {} /\ Charges(log) = {}
        BY DEF Init, Outstanding, Charges
    <2>2. ReservedIn(log) = Nothing /\ SpentIn(log) = Nothing
        BY <2>1, SumOverNothing DEF ReservedIn, SpentIn
    <2> QED
        BY <2>1, <2>2
        DEF Budget!BMInit, Budget!Nothing, Budget!Resource, Nothing, Resource, AmountsInv
<1> QED
    BY <1>1, AmountsStep, LedgerStep, Invariance, PTL
    DEF Spec, ImplementsBudgetManager, Budget!BMSpec, Budget!bmVars

-----------------------------------------------------------------------------
(* The in-memory accounting, for every authorization and every set of        *)
(* amounts.                                                                  *)

(* The counters of BudgetManager stay natural numbers: record never releases *)
(* more than is reserved.  And what was spent stays within the               *)
(* authorization.                                                            *)
BMInv == BMTypeOK /\ SpentWithinAuthorized

LEMMA BMStep == BMInv /\ [BMNext]_bmVars => BMInv'
<1> SUFFICES ASSUME BMInv, [BMNext]_bmVars
             PROVE  BMInv'
    OBVIOUS
<1> USE BudgetAssumption DEF BMInv, BMTypeOK, SpentWithinAuthorized, Amount, Within
<1>1. ASSUME NEW amount \in ReserveAmounts, Reserve(amount)
      PROVE  BMInv'
    <2>1. amount \in Amount
        BY <1>1
    <2> QED
        BY <1>1, <2>1 DEF Reserve, Plus
<1>2. ASSUME NEW amount \in ReserveAmounts, NEW actual \in ChargeAmounts,
             Record(amount, actual)
      PROVE  BMInv'
    <2>1. amount \in Amount /\ actual \in Amount
        BY <1>2
    <2>2. reserved' \in Amount
        BY <1>2, <2>1 DEF Record, Minus
    <2>3. spent' \in Amount /\ Within(spent, Authorized)'
        BY <1>2, <2>1 DEF Record, Plus
    <2> QED
        BY <2>2, <2>3
<1>3. CASE UNCHANGED bmVars
    BY <1>3 DEF bmVars
<1> QED
    BY <1>1, <1>2, <1>3 DEF BMNext

(* Whatever the results cost and however reservations overlap, BudgetManager *)
(* keeps natural counters and never spends beyond the authorization.         *)
THEOREM BudgetSafe == BMSpec => [](BMTypeOK /\ SpentWithinAuthorized)
<1>1. BMInit => BMInv
    BY BudgetAssumption
    DEF BMInit, BMInv, BMTypeOK, SpentWithinAuthorized, Amount, Within, Nothing
<1> QED
    BY <1>1, BMStep, PTL DEF BMSpec, BMInv

(* Spent and reserved together pass the authorization only by a result that  *)
(* cost more than was reserved for it: reserve alone cannot do it, nor can   *)
(* record when the result fits its reservation.                              *)
THEOREM OvercommitTheorem == BMSpec => OvercommitOnlyByOverrun
<1>1. ASSUME BMInv, [BMNext]_bmVars,
             Within(Committed, Authorized), ~ Within(Committed', Authorized)
      PROVE  \E amount \in ReserveAmounts, actual \in ChargeAmounts :
                Record(amount, actual) /\ ~ Within(actual, amount)
    <2> USE BudgetAssumption DEF BMInv, BMTypeOK, Amount
    <2>1. ASSUME NEW amount \in ReserveAmounts, Reserve(amount)
          PROVE  FALSE
        <3>1. amount \in Amount
            BY <2>1
        <3>2. Within(Committed', Authorized)
            BY <1>1, <2>1, <3>1 DEF Reserve, Within, Plus, Committed
        <3> QED
            BY <1>1, <3>2
    <2>2. ASSUME NEW amount \in ReserveAmounts, NEW actual \in ChargeAmounts,
                 Record(amount, actual), Within(actual, amount)
          PROVE  FALSE
        <3>1. amount \in Amount /\ actual \in Amount
            BY <2>2
        <3>2. Within(Committed', Authorized)
            BY <1>1, <2>2, <3>1 DEF Record, Within, Plus, Minus, Committed
        <3> QED
            BY <1>1, <3>2
    <2>3. CASE UNCHANGED bmVars
        BY <1>1, <2>3 DEF bmVars, Committed
    <2> QED
        BY <1>1, <2>1, <2>2, <2>3 DEF BMNext
<1>2. BMInv /\ [BMNext]_bmVars =>
        [Within(Committed, Authorized) /\ ~ Within(Committed', Authorized) =>
           \E amount \in ReserveAmounts, actual \in ChargeAmounts :
              Record(amount, actual) /\ ~ Within(actual, amount)]_bmVars
    BY <1>1, Zenon
<1>3. BMSpec => []BMInv
    BY BudgetSafe, PTL DEF BMInv
<1> QED
    BY <1>2, <1>3, PTL DEF BMSpec, OvercommitOnlyByOverrun
=============================================================================
