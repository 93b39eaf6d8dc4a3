----------------------------- MODULE ParentCalls -----------------------------
(***************************************************************************)
(* The paid calls of engine/skill_evolution_loop to the parent model.  Four *)
(* programs share one ledger class, ParentCallLedger, whose methods hold a *)
(* file lock and replace the file, so that each is a single step here:     *)
(*                                                                         *)
(*   revision      dispatch_p1_parent_call, through ParentModelAdapter     *)
(*   realization   dispatch_p1_realization_strategy_call                   *)
(*   localization  dispatch_round1_localization_strategy                   *)
(*   feedback      dispatch_round1_feedback_strategy                       *)
(*                                                                         *)
(* Each reserves the call, sends it, completes or aborts the reservation   *)
(* and freezes a report, and each does this in its own way.  An operator   *)
(* may start a program twice at once, and start it again after it raised   *)
(* or was killed.  The frozen files other than the ledger are written in   *)
(* place: a kill may leave one torn.                                       *)
(***************************************************************************)
EXTENDS Naturals, FiniteSets

CONSTANTS
    Dispatchers,   \* the programs among the four above
    Procs, CallIds, Requests,
    Answers,       \* what the parent may answer: parses, fits
    MaxCalls,      \* maximum_parent_calls of the authorization
    None,
    Torn,          \* a file whose writer was killed
    MaxFaults      \* bound on kills, failed transports and failed completions

Statuses == {"reserved", "completed", "aborted"}
ParentCallRecords == [status : Statuses, request : Requests, answer : Answers \cup {None}]

ParentCallsAssumption ==
    /\ Dispatchers \subseteq {"revision", "realization", "localization", "feedback"}
    /\ MaxCalls \in Nat \ {0} /\ MaxFaults \in Nat
    /\ None # Torn /\ None \notin Answers /\ Torn \notin Answers
    /\ None \notin Statuses \cup ParentCallRecords

VARIABLES
    program,       \* the program, and with it the ledger, of this behaviour
    records,       \* call id -> ParentCallRecord
    raw, output,   \* call id -> frozen raw answer, frozen report
    head,          \* the answer whose revision heads the registry
    expired,       \* whether the authorization has expired
    pc, at, answer,   \* of each process: place, call and request, answer in hand
    found,         \* of each process: the status its call had when it started
    sent,          \* how often each process sent each call; 2 is more than once
    faults

files == <<raw, output, head>>
process == <<pc, at, answer, found>>
vars == <<program, records, files, expired, process, sent, faults>>

Idle == [call |-> None, request |-> None]

Init ==
    /\ program \in Dispatchers
    /\ records = [c \in CallIds |-> None]
    /\ raw = [c \in CallIds |-> None] /\ output = [c \in CallIds |-> None]
    /\ head = None /\ expired = FALSE
    /\ pc = [p \in Procs |-> "idle"] /\ at = [p \in Procs |-> Idle]
    /\ answer = [p \in Procs |-> None] /\ found = [p \in Procs |-> None]
    /\ sent = [p \in Procs |-> [c \in CallIds |-> 0]]
    /\ faults = 0

Goto(p, place) == pc' = [pc EXCEPT ![p] = place]
Take(p, a) == answer' = [answer EXCEPT ![p] = a]

\* The program ends: it returned or it raised.
End(p) ==
    /\ Goto(p, "idle") /\ Take(p, None)
    /\ at' = [at EXCEPT ![p] = Idle] /\ found' = [found EXCEPT ![p] = None]

Fault == faults < MaxFaults /\ faults' = faults + 1

Status(c) == IF records[c] = None THEN None ELSE records[c].status
Record(status, q, a) == [status |-> status, request |-> q, answer |-> a]

-----------------------------------------------------------------------------
(* The ledger.                                                             *)

\* Aborted calls count too.
Affordable == Cardinality({c \in CallIds : records[c] # None}) < MaxCalls

\* reserve returns a record of the same request that exists, whatever its status.
Reservable(c, q) == IF records[c] = None THEN Affordable ELSE records[c].request = q

\* Mutant: a call that was aborted may still be completed.
CompletableAborted(c) == Status(c) \in {"reserved", "aborted"}

Completable(c) == Status(c) = "reserved"

-----------------------------------------------------------------------------
(* A program.                                                              *)

\* All but the revision return a report that is frozen, or raise when it is torn.
Reported(c) == program # "revision" /\ output[c] # None

\* The last two programs have one call each, whose id they name themselves.
Mine(c) ==
    program \in {"localization", "feedback"} =>
        \A d \in CallIds \ {c} : records[d] = None /\ \A p \in Procs : at[p].call # d

\* An authorization that has expired stops a program before it looks at its files.
Start(p) ==
    /\ pc[p] = "idle" /\ ~expired
    /\ \E c \in CallIds, q \in Requests :
         /\ Mine(c) /\ ~Reported(c)
         /\ at' = [at EXCEPT ![p] = [call |-> c, request |-> q]]
         /\ found' = [found EXCEPT ![p] = Status(c)]
    /\ Goto(p, IF program = "localization" THEN "reserve" ELSE "look")
    /\ UNCHANGED <<program, records, files, expired, answer, sent, faults>>

Return(p) ==
    /\ pc[p] = "idle"
    /\ expired \/ \E c \in CallIds : Reported(c)
    /\ UNCHANGED vars

\* The answer a program can go on with when its call has a record: the ledger's, or
\* the raw file's when the feedback program finds that the call was aborted.
Recoverable(c, q) ==
    CASE Status(c) = "completed" /\ program \in {"revision", "feedback"}
           -> {[answer |-> records[c].answer, from |-> "ledger"]}
      [] Status(c) = "aborted" /\ program = "feedback" /\ raw[c] \notin {None, Torn}
           -> IF raw[c].request = q /\ raw[c].answer.parses
              THEN {[answer |-> raw[c].answer, from |-> "raw"]} ELSE {}
      [] OTHER -> {}

\* Mutant: a call that was reserved and not ended is sent again.
LookPastReserved(p) ==
    /\ pc[p] = "look"
    /\ LET c == at[p].call  r == at[p].request IN
         \/ /\ Status(c) \in {None, "reserved"}
            /\ Goto(p, "reserve") /\ UNCHANGED <<at, answer, found>>
         \/ /\ records[c] # None /\ records[c].request = r
            /\ \E a \in Recoverable(c, r) : Take(p, a)
            /\ Goto(p, "publish") /\ UNCHANGED <<at, found>>
    /\ UNCHANGED <<program, records, files, expired, sent, faults>>

Look(p) ==
    /\ pc[p] = "look"
    /\ LET c == at[p].call  r == at[p].request IN
         \/ /\ records[c] = None
            /\ Goto(p, "reserve") /\ UNCHANGED <<at, answer, found>>
         \/ /\ records[c] # None /\ records[c].request = r
            /\ \E a \in Recoverable(c, r) : Take(p, a)
            /\ Goto(p, "publish") /\ UNCHANGED <<at, found>>
         \/ /\ records[c] # None
            /\ records[c].request # r \/ Recoverable(c, r) = {}
            /\ End(p)
    /\ UNCHANGED <<program, records, files, expired, sent, faults>>

Reserve(p) ==
    /\ pc[p] = "reserve"
    /\ LET c == at[p].call  r == at[p].request IN
         IF ~expired /\ Reservable(c, r)
         THEN /\ records' = [records EXCEPT ![c] = IF @ = None THEN Record("reserved", r, None)
                                                   ELSE @]
              /\ Goto(p, "send") /\ UNCHANGED <<at, answer, found>>
         ELSE End(p) /\ UNCHANGED records
    /\ UNCHANGED <<program, files, expired, sent, faults>>

\* The revision's transport parses the answer; the others freeze it first.
Send(p) ==
    /\ pc[p] = "send"
    /\ sent' = [sent EXCEPT ![p][at[p].call] = IF @ = 0 THEN 1 ELSE 2]
    /\ \/ \E a \in Answers :
            /\ Take(p, [answer |-> a, from |-> "ledger"])
            /\ Goto(p, IF program # "revision" THEN "freeze"
                       ELSE IF a.parses THEN "complete" ELSE "abort")
            /\ UNCHANGED faults
       \/ Fault /\ Goto(p, "abort") /\ UNCHANGED answer
    /\ UNCHANGED <<program, records, files, expired, at, found>>

\* A raw answer that is frozen must match; otherwise it is written.
RawOf(p) == [request |-> at[p].request, answer |-> answer[p].answer]

FreezeRaw(p) ==
    /\ pc[p] = "freeze"
    /\ Goto(p, CASE raw[at[p].call] = None -> "write raw"
                 [] raw[at[p].call] = RawOf(p) -> "complete"
                 [] OTHER -> "abort")
    /\ UNCHANGED <<program, records, files, expired, at, answer, found, sent, faults>>

WriteRaw(p) ==
    /\ pc[p] = "write raw"
    /\ raw' = [raw EXCEPT ![at[p].call] = RawOf(p)]
    /\ Goto(p, "complete")
    /\ UNCHANGED <<program, records, output, head, expired, at, answer, found, sent, faults>>

\* Completing outside its try, the revision leaves the record as it is when that fails;
\* the others abort.
Complete(p) ==
    /\ pc[p] = "complete"
    /\ LET c == at[p].call  a == answer[p].answer IN
         \/ /\ a.parses /\ Completable(c)
            /\ records' = [records EXCEPT ![c] = Record("completed", @.request, a)]
            /\ Goto(p, "publish") /\ UNCHANGED <<at, answer, found, faults>>
         \/ /\ IF a.parses /\ Completable(c) THEN Fault ELSE UNCHANGED faults
            /\ IF program = "revision" THEN End(p)
               ELSE Goto(p, "abort") /\ UNCHANGED <<at, answer, found>>
            /\ UNCHANGED records
    /\ UNCHANGED <<program, files, expired, sent>>

Abort(p) ==
    /\ pc[p] = "abort"
    /\ LET c == at[p].call IN
         records' = IF Status(c) = "reserved"
                    THEN [records EXCEPT ![c] = Record("aborted", @.request, None)]
                    ELSE records
    /\ End(p)
    /\ UNCHANGED <<program, files, expired, sent, faults>>

\* An answer beyond the token budget raises after it was paid for; the revision is
\* appended to a registry whose head is its parent or itself.
Publish(p) ==
    /\ pc[p] = "publish"
    /\ LET a == answer[p].answer IN
         IF a.fits /\ (program = "revision" => head \in {None, a})
         THEN /\ head' = IF program = "revision" THEN a ELSE head
              /\ Goto(p, "report") /\ UNCHANGED <<at, answer, found>>
         ELSE End(p) /\ UNCHANGED head
    /\ UNCHANGED <<program, records, raw, output, expired, sent, faults>>

Report(p) ==
    /\ pc[p] = "report"
    /\ IF output[at[p].call] = None
       THEN Goto(p, "write output") /\ UNCHANGED <<at, answer, found>>
       ELSE End(p)
    /\ UNCHANGED <<program, records, files, expired, sent, faults>>

WriteOutput(p) ==
    /\ pc[p] = "write output"
    /\ output' = [output EXCEPT ![at[p].call] = answer[p]]
    /\ End(p)
    /\ UNCHANGED <<program, records, raw, head, expired, sent, faults>>

Kill(p) ==
    /\ pc[p] # "idle" /\ Fault
    /\ raw' = [raw EXCEPT ![at[p].call] = IF pc[p] = "write raw" THEN Torn ELSE @]
    /\ output' = [output EXCEPT ![at[p].call] = IF pc[p] = "write output" THEN Torn ELSE @]
    /\ End(p)
    /\ UNCHANGED <<program, records, head, expired, sent>>

Expire ==
    /\ ~expired /\ expired' = TRUE
    /\ UNCHANGED <<program, records, files, process, sent, faults>>

Step(p) ==
    \/ Start(p) \/ Return(p) \/ Look(p) \/ Reserve(p) \/ Send(p) \/ FreezeRaw(p)
    \/ WriteRaw(p) \/ Complete(p) \/ Abort(p) \/ Publish(p) \/ Report(p) \/ WriteOutput(p)

Next == (\E p \in Procs : Step(p) \/ Kill(p)) \/ Expire
Spec == Init /\ [][Next]_vars

-----------------------------------------------------------------------------
(* Properties.                                                             *)

\* A call that is sent holds a record, and no more calls hold one than are authorized: an
\* aborted call has consumed its part, whoever races for the rest.  The budget counts
\* calls, and not how often one is sent.
CallsAreReserved ==
    /\ \A p \in Procs, c \in CallIds : sent[p][c] > 0 => records[c] # None
    /\ Cardinality({c \in CallIds : records[c] # None}) <= MaxCalls

\* What the ledger says of a call that ended is final, whichever process ends it next.
KeepsTerminal ==
    \A c \in CallIds : Status(c) \in {"completed", "aborted"} => records'[c] = records[c]

\* A report is the ledger's answer to a completed call, or the raw answer recovered for
\* one that was aborted: of two programs that were answered, one at most reports.
ReportIsRecorded ==
    \A c \in CallIds : output[c] \notin {None, Torn} =>
        IF output[c].from = "ledger"
        THEN Status(c) = "completed" /\ output[c].answer = records[c].answer
        ELSE Status(c) = "aborted" /\ output[c].answer.parses

\* A program that looks at the ledger first sends a call only if the call had no record
\* when the program started, and so at most once, however often it is started again: what
\* is left is the race of programs that look at the same time.  The localization program
\* does not look.
DispatchIsFresh ==
    program # "localization" =>
        /\ \A p \in Procs : pc[p] = "send" => found[p] = None
        /\ \A p \in Procs, c \in CallIds : sent[p][c] <= 1

\* "Validate, reserve, dispatch once" and "parent call was already reserved and cannot be
\* dispatched again" (ParentModelAdapter.generate).  Two processes both find no record,
\* both reserve, as reserve returns the record that exists, and both send.
DispatchedOnce ==
    \A p, q \in Procs, c \in CallIds :
        sent[p][c] > 0 /\ sent[q][c] > 0 => p = q /\ sent[p][c] = 1

\* "aborted calls consume budget and are not resent" (ParentCallLedger).  The
\* localization program calls reserve, which returns the aborted record, and sends.
AbortedIsNotResent ==
    \A p \in Procs : pc[p] = "send" => found[p] # "aborted"
=============================================================================
