-------------------------- MODULE SkillLoopProofs ---------------------------
(***************************************************************************)
(* The loop that evolves Skills, stage by stage, for any number of         *)
(* processes, calls, tasks, cells, candidates, kills and failures.  None   *)
(* of the properties is inductive.  Each stage has an invariant:           *)
(*                                                                         *)
(*   CallInv        for the programs that dispatch to the parent model: what*)
(*                  they hold is backed by the ledger;                     *)
(*   ExperimentInv  a run that holds the lease knows of the cells on disk  *)
(*                  what the futility gate says of them;                   *)
(*   StudentInv     each attempt is made of the end of a trace, wherever   *)
(*                  that trace is kept meanwhile;                          *)
(*   JudgingInv     what the official evaluator left, what the commands    *)
(*                  made of it, and what each command knows of the gate.   *)
(*                                                                         *)
(* A behaviour stays in its stage, so that the invariant of the whole is   *)
(* that of the stage in question, and each property follows from it.       *)
(***************************************************************************)
EXTENDS SkillLoop, Sequences, FiniteSetTheorems, WellFoundedInduction, TLAPS

-----------------------------------------------------------------------------
(* The calls of the parent model.                                          *)

CallAnswers == [answer : ParentAnswers, from : {"ledger", "raw"}]
Answering == {"freeze", "write raw", "complete", "publish", "report", "write output"}

CallTypes ==
    /\ records \in [CallIds -> {None} \cup Parent!ParentCallRecords]
    /\ raw \in [CallIds -> {None, Torn} \cup [request : CallRequests, answer : ParentAnswers]]
    /\ output \in [CallIds -> {None, Torn} \cup CallAnswers]
    /\ pc \in [Procs -> {"idle", "look", "reserve", "send", "abort"} \cup Answering]
    /\ at \in [Procs -> {Parent!Idle} \cup [call : CallIds, request : CallRequests]]
    /\ answer \in [Procs -> {None} \cup CallAnswers]
    /\ found \in [Procs -> {None} \cup Parent!Statuses]
    /\ sent \in [Procs -> [CallIds -> 0 .. 2]]

\* The calls on record, as many as are authorized at most.
Called == {c \in CallIds : records[c] # None}
SentFits(p) ==
    \A c \in CallIds : /\ sent[p][c] # 0 => c \in Called
                       /\ program # "localization" => sent[p][c] # 2
LedgerInv ==
    /\ IsFiniteSet(Called) /\ Cardinality(Called) <= MaxCalls
    /\ \A p \in Procs : SentFits(p)
    /\ \A c \in Called : records[c].status = "completed" => records[c].answer \in ParentAnswers

\* What the ledger has of a call for an answer that is reported.
Backs(c, a) ==
    IF a.from = "ledger" THEN Parent!Status(c) = "completed" /\ records[c].answer = a.answer
    ELSE Parent!Status(c) = "aborted" /\ a.answer.parses

\* What the ledger has of the call of p, at the place of p.
ProgramFits(p) ==
    /\ pc[p] # "idle" =>
         /\ at[p] \in [call : CallIds, request : CallRequests]
         /\ found[p] # None => at[p].call \in Called
    /\ pc[p] \in {"reserve", "send"} /\ program # "localization" => found[p] = None
    /\ pc[p] \in {"look", "reserve", "send"} /\ found[p] = None => sent[p][at[p].call] = 0
    /\ pc[p] \notin {"idle", "look", "reserve"} => at[p].call \in Called
    /\ pc[p] \in Answering => answer[p] \in CallAnswers
    /\ pc[p] \in {"freeze", "write raw", "complete"} => answer[p].from = "ledger"
    /\ pc[p] \in {"publish", "report", "write output"} => Backs(at[p].call, answer[p])

\* The records stay, and those of calls that ended stay as they are.
RecordsGrow ==
    /\ program' = program /\ Called \subseteq Called'
    /\ \A c \in CallIds : Parent!Status(c) \in {"completed", "aborted"} => records'[c] = records[c]

\* What is published of a call is what the ledger has of it.
ReportFits == \A c \in CallIds : output[c] \notin {None, Torn} => Backs(c, output[c])

CallInv == CallTypes /\ LedgerInv /\ (\A p \in Procs : ProgramFits(p)) /\ ReportFits

-----------------------------------------------------------------------------
(* Every step of a program keeps what the ledger knows of its call.          *)

LEMMA CallInit == ASSUME Parent!ParentCallsAssumption, Parent!Init PROVE CallInv
<1>1. CallTypes
    BY DEF Parent!Init, CallTypes, Parent!Idle
<1>2. Called = {} /\ MaxCalls \in Nat /\ \A p \in Procs, c \in CallIds : sent[p][c] = 0
    BY DEF Parent!Init, Called, Parent!ParentCallsAssumption
<1>3. LedgerInv
    BY <1>2, FS_EmptySet DEF LedgerInv, SentFits
<1>4. \A p \in Procs : ProgramFits(p)
    BY DEF Parent!Init, ProgramFits, Answering
<1>5. ReportFits
    BY DEF Parent!Init, ReportFits
<1> QED
    BY <1>1, <1>3, <1>4, <1>5 DEF CallInv

\* The status of a call tells whether it is on record.
LEMMA StatusIs ==
    ASSUME Parent!ParentCallsAssumption, CallTypes, NEW c \in CallIds
    PROVE  /\ Parent!Status(c) \in {None} \cup Parent!Statuses
           /\ Parent!Status(c) = None <=> records[c] = None
           /\ records[c] # None => /\ records[c] \in Parent!ParentCallRecords
                                   /\ Parent!Status(c) = records[c].status
BY DEF Parent!ParentCallsAssumption, CallTypes, Parent!Status, Parent!ParentCallRecords

\* What backs an answer is final.
LEMMA BacksStays ==
    ASSUME Parent!ParentCallsAssumption, CallTypes, RecordsGrow, NEW c \in CallIds, NEW a,
           Backs(c, a)
    PROVE  Backs(c, a)'
<1>1. Parent!Status(c) \in {"completed", "aborted"}
    BY DEF Backs
<1>2. records'[c] = records[c]
    BY <1>1 DEF RecordsGrow
<1> QED
    BY <1>2 DEF Backs, Parent!Status

\* A step of one program that respects the ledger.
LEMMA ProgramStep ==
    ASSUME Parent!ParentCallsAssumption, CallInv, CallTypes', LedgerInv', RecordsGrow,
           NEW p \in Procs,
           \A q \in Procs \ {p} : /\ pc'[q] = pc[q] /\ at'[q] = at[q]
                                  /\ answer'[q] = answer[q] /\ found'[q] = found[q],
           \A q \in Procs \ {p} : sent'[q] = sent[q],
           pc'[p] # "idle" => ProgramFits(p)',
           \A c \in CallIds : \/ output'[c] \in {output[c], None, Torn}
                              \/ output'[c] \in CallAnswers /\ Backs(c, output[c])'
    PROVE  CallInv'
<1>1. ASSUME NEW q \in Procs \ {p} PROVE ProgramFits(q)'
    <2>1. ProgramFits(q)
        BY DEF CallInv
    <2>2. pc[q] \in {"publish", "report", "write output"} => Backs(at[q].call, answer[q])'
        <3>1. ASSUME pc[q] \in {"publish", "report", "write output"}
              PROVE  Backs(at[q].call, answer[q])'
            <4>1. at[q].call \in CallIds /\ Backs(at[q].call, answer[q])
                BY <2>1, <3>1 DEF ProgramFits
            <4>2. PICK c \in CallIds, a \in {answer[q]} :
                      c = at[q].call /\ a = answer[q] /\ Backs(c, a)
                BY <4>1
            <4>3. Backs(c, a)'
                BY <4>2, BacksStays DEF CallInv
            <4>4. at'[q].call = c /\ answer'[q] = a
                BY <4>2
            <4> QED
                BY <4>3, <4>4
        <3> QED
            BY <3>1
    <2>3. /\ pc'[q] = pc[q] /\ at'[q] = at[q] /\ answer'[q] = answer[q] /\ found'[q] = found[q]
          /\ sent'[q] = sent[q] /\ Called \subseteq Called' /\ program' = program
        BY DEF RecordsGrow
    <2> HIDE DEF Called, Backs
    <2>4. at[q].call \in Called => at'[q].call \in Called'
        BY <2>3
    <2> QED
        BY <2>1, <2>2, <2>3, <2>4 DEF ProgramFits
<1>2. ProgramFits(p)'
    BY DEF ProgramFits, Answering
<1>3. ReportFits'
    <2>1. SUFFICES ASSUME NEW c \in CallIds, output'[c] \notin {None, Torn}
                   PROVE  Backs(c, output[c])'
        BY DEF ReportFits
    <2>2. CASE output'[c] = output[c]
        <3>1. Backs(c, output[c])
            BY <2>1, <2>2 DEF CallInv, ReportFits
        <3>2. PICK a : a = output[c] /\ Backs(c, a)
            BY <3>1
        <3>3. Backs(c, a)'
            BY <3>2, BacksStays DEF CallInv
        <3> QED
            BY <2>2, <3>2, <3>3
    <2> QED
        BY <2>1, <2>2
<1> QED
    BY <1>1, <1>2, <1>3 DEF CallInv

\* What the steps of p leave alone of the others.
OthersRest(p) ==
    \A q \in Procs \ {p} : /\ pc'[q] = pc[q] /\ at'[q] = at[q]
                           /\ answer'[q] = answer[q] /\ found'[q] = found[q]

\* A program goes on with its call, or ends.
LEMMA GoesOn ==
    ASSUME CallTypes, NEW p \in Procs, NEW next, Parent!Goto(p, next), UNCHANGED <<at, found>>,
           answer' = answer \/ \E a : Parent!Take(p, a)
    PROVE  pc'[p] = next /\ OthersRest(p)
BY DEF CallTypes, Parent!Goto, Parent!Take, OthersRest

LEMMA Ends ==
    ASSUME CallTypes, NEW p \in Procs, Parent!End(p)
    PROVE  /\ pc'[p] = "idle" /\ OthersRest(p)
           /\ pc' \in [Procs -> {"idle", "look", "reserve", "send", "abort"} \cup Answering]
           /\ at' \in [Procs -> {Parent!Idle} \cup [call : CallIds, request : CallRequests]]
           /\ answer' \in [Procs -> {None} \cup CallAnswers]
           /\ found' \in [Procs -> {None} \cup Parent!Statuses]
BY DEF CallTypes, Parent!Goto, Parent!Take, Parent!End, OthersRest

\* Steps that do not write the ledger.
LEMMA LedgerRests ==
    ASSUME LedgerInv, UNCHANGED <<program, records, sent>>
    PROVE  LedgerInv' /\ RecordsGrow /\ Called' = Called
BY DEF LedgerInv, RecordsGrow, Called, SentFits

LEMMA StartStep ==
    ASSUME Parent!ParentCallsAssumption, CallInv, NEW p \in Procs, Parent!Start(p)
    PROVE  CallInv'
<1>1. PICK c \in CallIds, q \in CallRequests :
        /\ at' = [at EXCEPT ![p] = [call |-> c, request |-> q]]
        /\ found' = [found EXCEPT ![p] = Parent!Status(c)]
    BY DEF Parent!Start
<1>2. PICK next \in {"look", "reserve"} :
        /\ pc' = [pc EXCEPT ![p] = next] /\ (next = "reserve" => program = "localization")
    BY DEF Parent!Start, Parent!Goto
<1>3. UNCHANGED <<program, records, raw, output, answer, sent>>
    BY DEF Parent!Start, Parent!files
<1>4. /\ Parent!Status(c) \in {None} \cup Parent!Statuses
      /\ Parent!Status(c) # None => c \in Called
      /\ Parent!Status(c) = None => sent[p][c] = 0
    BY StatusIs DEF CallInv, Called, LedgerInv, SentFits
<1>5. CallTypes'
    BY <1>1, <1>2, <1>3, <1>4 DEF CallInv, CallTypes
<1>6. LedgerInv' /\ RecordsGrow /\ Called' = Called
    BY <1>3, LedgerRests DEF CallInv
<1>7. ProgramFits(p)'
    <2>1. /\ pc'[p] = next /\ at'[p] = [call |-> c, request |-> q]
          /\ found'[p] = Parent!Status(c)
        BY <1>1, <1>2 DEF CallInv, CallTypes
    <2>2. /\ at'[p] \in [call : CallIds, request : CallRequests] /\ at'[p].call = c
          /\ found'[p] # None => c \in Called'
          /\ found'[p] = None => sent'[p][c] = 0
        BY <1>3, <1>4, <1>6, <2>1
    <2>3. pc'[p] = "look" \/ (pc'[p] = "reserve" /\ program' = "localization")
        BY <1>2, <1>3, <2>1
    <2> QED
        BY <2>2, <2>3 DEF ProgramFits, Answering
<1>8. OthersRest(p)
    BY <1>1, <1>2, <1>3 DEF CallInv, CallTypes, OthersRest
<1> QED
    BY <1>3, <1>5, <1>6, <1>7, <1>8, ProgramStep DEF OthersRest

LEMMA LookStep ==
    ASSUME Parent!ParentCallsAssumption, CallInv, NEW p \in Procs, Parent!Look(p)
    PROVE  CallInv'
<1>1. UNCHANGED <<program, records, raw, output, sent>> /\ pc[p] = "look"
    BY DEF Parent!Look, Parent!files
<1>2. LedgerInv' /\ RecordsGrow /\ Called' = Called
    BY <1>1, LedgerRests DEF CallInv
<1>3. PICK c \in CallIds, r \in CallRequests :
        /\ c = at[p].call /\ r = at[p].request /\ at[p] \in [call : CallIds, request : CallRequests]
        /\ found[p] # None => c \in Called
    BY <1>1 DEF CallInv, ProgramFits
<1>4. CASE records[c] = None /\ Parent!Goto(p, "reserve") /\ UNCHANGED <<at, answer, found>>
    <2>1. found[p] = None
        BY <1>3, <1>4 DEF Called
    <2>2. pc'[p] = "reserve" /\ OthersRest(p)
        BY <1>4, GoesOn DEF CallInv
    <2>3. CallTypes'
        BY <1>1, <1>4 DEF CallInv, CallTypes, Parent!Goto
    <2>4. sent[p][c] = 0
        BY <1>1, <1>3, <2>1 DEF CallInv, ProgramFits
    <2>5. /\ at'[p].call = c /\ at'[p] \in [call : CallIds, request : CallRequests]
          /\ found'[p] = None /\ sent'[p][c] = 0
        BY <1>1, <1>3, <1>4, <2>1, <2>4
    <2>6. ProgramFits(p)'
        BY <2>2, <2>5 DEF ProgramFits, Answering
    <2> QED
        BY <1>1, <1>2, <2>2, <2>3, <2>6, ProgramStep DEF OthersRest
<1>5. ASSUME records[c] # None, records[c].request = r,
             NEW a \in Parent!Recoverable(c, r), Parent!Take(p, a),
             Parent!Goto(p, "publish"), UNCHANGED <<at, found>>
      PROVE  CallInv'
    <2>1. a \in CallAnswers /\ Backs(c, a)
        <3>0. CallTypes /\ (Parent!Status(c) = "completed" => records[c].answer \in ParentAnswers)
            <4>1. CallTypes /\ LedgerInv
                BY DEF CallInv
            <4>2. Parent!Status(c) = records[c].status /\ c \in Called
                BY <1>5, <4>1, StatusIs DEF Called
            <4> QED
                BY <4>1, <4>2 DEF LedgerInv
        <3>1. CASE /\ Parent!Status(c) = "completed"
                   /\ a = [answer |-> records[c].answer, from |-> "ledger"]
            BY <3>0, <3>1 DEF CallAnswers, Backs
        <3>2. CASE /\ Parent!Status(c) = "aborted" /\ raw[c] \notin {None, Torn}
                   /\ a = [answer |-> raw[c].answer, from |-> "raw"] /\ raw[c].answer.parses
            BY <3>0, <3>2 DEF CallAnswers, Backs, CallTypes
        <3> QED
            BY <3>1, <3>2 DEF Parent!Recoverable
    <2>2. pc'[p] = "publish" /\ OthersRest(p)
        BY <1>5, GoesOn DEF CallInv
    <2>3. CallTypes'
        BY <1>1, <1>5, <2>1 DEF CallInv, CallTypes, Parent!Goto, Parent!Take, Answering
    <2>4. ProgramFits(p)'
        <3>1. answer'[p] = a /\ at'[p] = at[p] /\ found'[p] = found[p]
            BY <1>5 DEF CallInv, CallTypes, Parent!Take
        <3>2. Backs(at[p].call, answer[p])'
            BY <1>1, <1>3, <2>1, <3>1 DEF Backs, Parent!Status
        <3> QED
            BY <1>2, <1>3, <1>5, <2>1, <2>2, <3>1, <3>2 DEF ProgramFits, Called
    <2> QED
        BY <1>1, <1>2, <2>2, <2>3, <2>4, ProgramStep DEF OthersRest
<1>6. CASE Parent!End(p)
    <2>1. pc'[p] = "idle" /\ OthersRest(p) /\ CallTypes'
        BY <1>1, <1>6, Ends DEF CallInv, CallTypes
    <2> QED
        BY <1>1, <1>2, <2>1, ProgramStep DEF OthersRest
<1> QED
    BY <1>3, <1>4, <1>5, <1>6 DEF Parent!Look

\* A program that ends disturbs neither the others nor what was reported.
LEMMA EndStep ==
    ASSUME Parent!ParentCallsAssumption, CallInv, NEW p \in Procs, Parent!End(p),
           LedgerInv', RecordsGrow,
           records' \in [CallIds -> {None} \cup Parent!ParentCallRecords],
           raw' \in [CallIds -> {None, Torn} \cup [request : CallRequests,
                                                    answer : ParentAnswers]],
           output' \in [CallIds -> {None, Torn} \cup CallAnswers], sent' = sent,
           \A c \in CallIds : \/ output'[c] \in {output[c], None, Torn}
                              \/ output'[c] \in CallAnswers /\ Backs(c, output[c])'
    PROVE  CallInv'
<1>1. pc'[p] = "idle" /\ OthersRest(p) /\ CallTypes'
    BY Ends DEF CallInv, CallTypes
<1> QED
    BY <1>1, ProgramStep DEF OthersRest

\* ... and when it writes nothing, this is all.
LEMMA QuietEnd ==
    ASSUME Parent!ParentCallsAssumption, CallInv, NEW p \in Procs, Parent!End(p),
           UNCHANGED <<program, records, raw, output, sent>>
    PROVE  CallInv'
<1>1. LedgerInv' /\ RecordsGrow
    BY LedgerRests DEF CallInv
<1> QED
    BY <1>1, EndStep DEF CallInv, CallTypes

\* A program that goes on without writing the ledger.
LEMMA QuietStep ==
    ASSUME Parent!ParentCallsAssumption, CallInv, NEW p \in Procs,
           NEW next \in {"look", "reserve", "send", "abort"} \cup Answering,
           Parent!Goto(p, next), UNCHANGED <<program, records, output, at, answer, found, sent>>,
           raw' \in [CallIds -> {None, Torn} \cup [request : CallRequests,
                                                    answer : ParentAnswers]],
           pc'[p] = next /\ Called' = Called => ProgramFits(p)'
    PROVE  CallInv'
<1>1. LedgerInv' /\ RecordsGrow /\ Called' = Called
    BY LedgerRests DEF CallInv
<1>2. pc'[p] = next /\ OthersRest(p)
    BY GoesOn DEF CallInv
<1>3. CallTypes'
    BY DEF CallInv, CallTypes, Parent!Goto
<1> QED
    BY <1>1, <1>2, <1>3, ProgramStep DEF OthersRest

\* The call of a program that is not idle.
LEMMA AtCall ==
    ASSUME CallInv, NEW p \in Procs, pc[p] # "idle"
    PROVE  \E c \in CallIds, r \in CallRequests :
             /\ at[p] = [call |-> c, request |-> r] /\ c = at[p].call /\ r = at[p].request
             /\ found[p] # None => c \in Called
<1>1. at[p] \in [call : CallIds, request : CallRequests]
    BY DEF CallInv, ProgramFits
<1>2. at[p] = [call |-> at[p].call, request |-> at[p].request]
      /\ at[p].call \in CallIds /\ at[p].request \in CallRequests
    BY <1>1
<1>3. found[p] # None => at[p].call \in Called
    BY DEF CallInv, ProgramFits
<1> QED
    BY <1>2, <1>3

\* Cardinality is instantiated with the ledger.
LEMMA SameSize == \A S : Parent!Cardinality(S) = Cardinality(S)
BY DEF Parent!Cardinality, Cardinality

\* One more call fits the authorization.
LEMMA OneMoreCall ==
    ASSUME Parent!ParentCallsAssumption, LedgerInv, NEW c \in CallIds, c \notin Called,
           Parent!Affordable, Called' = Called \cup {c}
    PROVE  IsFiniteSet(Called') /\ Cardinality(Called') <= MaxCalls
<1>1. IsFiniteSet(Called) /\ Cardinality(Called) < MaxCalls /\ MaxCalls \in Nat
    BY SameSize DEF LedgerInv, Parent!Affordable, Called, Parent!ParentCallsAssumption
<1> HIDE DEF Called
<1>2. Cardinality(Called) \in Nat
    BY <1>1, FS_CardinalityType
<1>3. IsFiniteSet(Called \cup {c}) /\ Cardinality(Called \cup {c}) = Cardinality(Called) + 1
    BY <1>1, FS_AddElement
<1>4. Cardinality(Called) + 1 <= MaxCalls
    BY <1>1, <1>2
<1> QED
    BY <1>3, <1>4

LEMMA ReserveStep ==
    ASSUME Parent!ParentCallsAssumption, CallInv, NEW p \in Procs, Parent!Reserve(p)
    PROVE  CallInv'
<1>1. pc[p] = "reserve" /\ UNCHANGED <<program, raw, output, sent>>
    BY DEF Parent!Reserve, Parent!files
<1>2. PICK c \in CallIds, r \in CallRequests :
        /\ at[p] = [call |-> c, request |-> r] /\ c = at[p].call /\ r = at[p].request
        /\ found[p] # None => c \in Called
    BY <1>1, AtCall
<1>3. CASE Parent!End(p) /\ UNCHANGED records
    BY <1>1, <1>3, QuietEnd
<1>4. ASSUME Parent!Reservable(c, r),
             records' = [records EXCEPT ![c] = IF @ = None THEN Parent!Record("reserved", r, None)
                                               ELSE @],
             Parent!Goto(p, "send"), UNCHANGED <<at, answer, found>>
      PROVE  CallInv'
    <2>1. pc'[p] = "send" /\ OthersRest(p)
        BY <1>4, GoesOn DEF CallInv
    <2>2. Parent!Record("reserved", r, None) \in Parent!ParentCallRecords
          /\ Parent!Record("reserved", r, None).status = "reserved"
        BY DEF Parent!Record, Parent!ParentCallRecords, Parent!Statuses
    <2>3. PICK new \in Parent!ParentCallRecords :
            new = Parent!Record("reserved", r, None) /\ new.status = "reserved" /\ new # None
        BY <2>2 DEF Parent!ParentCallsAssumption
    <2>4. records' = [records EXCEPT ![c] = IF @ = None THEN new ELSE @]
        BY <1>4, <2>3
    <2>5. CallTypes /\ LedgerInv
        BY DEF CallInv
    <2>6. CallTypes'
        BY <1>1, <1>4, <2>4, <2>5 DEF CallTypes, Parent!Goto
    <2>7. Called' = Called \cup {c}
        BY <2>3, <2>4, <2>5 DEF Called, CallTypes
    <2>8. \A d \in Called : records'[d] = records[d]
        BY <2>4, <2>5 DEF Called, CallTypes
    <2>9. RecordsGrow
        <3>1. \A d \in CallIds : Parent!Status(d) \in {"completed", "aborted"} => d \in Called
            BY <2>5, StatusIs DEF Called, Parent!ParentCallsAssumption, Parent!Statuses,
               Parent!Status
        <3> QED
            BY <1>1, <2>7, <2>8, <3>1 DEF RecordsGrow
    <2>10. LedgerInv'
        <3>1. IsFiniteSet(Called') /\ Cardinality(Called') <= MaxCalls
            <4>1. CASE c \in Called
                <5>1. Called' = Called
                    BY <2>7, <4>1
                <5> QED
                    BY <2>5, <5>1 DEF LedgerInv
            <4>2. CASE c \notin Called
                <5>1. Parent!Affordable
                    BY <1>4, <4>2 DEF Parent!Reservable, Called
                <5> QED
                    BY <2>5, <2>7, <4>2, <5>1, OneMoreCall
            <4> QED
                BY <4>1, <4>2
        <3>2. \A q \in Procs : SentFits(q)'
            BY <1>1, <2>5, <2>7 DEF LedgerInv, SentFits
        <3>3. ASSUME NEW d \in Called', records'[d].status = "completed"
              PROVE  records'[d].answer \in ParentAnswers
            <4>1. CASE d \in Called
                BY <2>5, <2>8, <3>3, <4>1 DEF LedgerInv
            <4>2. CASE d \notin Called
                <5>1. d = c /\ records[c] = None
                    BY <2>7, <4>2 DEF Called
                <5>2. records'[d] = new
                    BY <2>4, <2>5, <5>1 DEF CallTypes
                <5> QED
                    BY <2>3, <3>3, <5>2
            <4> QED
                BY <4>1, <4>2
        <3> QED
            BY <3>1, <3>2, <3>3 DEF LedgerInv
    <2>11. ProgramFits(p)'
        <3>1. at'[p] = at[p] /\ found'[p] = found[p] /\ c \in Called'
            BY <1>4, <2>7
        <3>2. /\ program # "localization" => found[p] = None
              /\ found[p] = None => sent[p][c] = 0
            BY <1>1, <1>2 DEF CallInv, ProgramFits
        <3> HIDE DEF Called
        <3> QED
            BY <1>1, <1>2, <2>1, <3>1, <3>2 DEF ProgramFits, Answering
    <2> QED
        BY <1>1, <2>1, <2>6, <2>9, <2>10, <2>11, ProgramStep DEF OthersRest
<1> QED
    BY <1>2, <1>3, <1>4 DEF Parent!Reserve

LEMMA SendStep ==
    ASSUME Parent!ParentCallsAssumption, CallInv, NEW p \in Procs, Parent!Send(p)
    PROVE  CallInv'
<1>1. /\ pc[p] = "send" /\ sent' = [sent EXCEPT ![p][at[p].call] = IF @ = 0 THEN 1 ELSE 2]
      /\ UNCHANGED <<program, records, raw, output, at, found>>
    BY DEF Parent!Send, Parent!files
<1>2. PICK c \in CallIds, r \in CallRequests :
        /\ at[p] = [call |-> c, request |-> r] /\ c = at[p].call /\ r = at[p].request
        /\ found[p] # None => c \in Called
    BY <1>1, AtCall
<1>3. c \in Called
    BY <1>1, <1>2 DEF CallInv, ProgramFits
<1>4. Called' = Called
    BY <1>1 DEF Called
<1>14. PICK n \in {1, 2} : /\ sent' = [sent EXCEPT ![p][c] = n]
                           /\ program # "localization" => n = 1
    <2>1. /\ program # "localization" => found[p] = None
          /\ found[p] = None => sent[p][c] = 0
        BY <1>1, <1>2 DEF CallInv, ProgramFits
    <2> QED
        BY <1>1, <1>2, <2>1
<1>15. /\ sent' \in [Procs -> [CallIds -> 0 .. 2]]
       /\ sent'[p][c] = n /\ \A d \in CallIds \ {c} : sent'[p][d] = sent[p][d]
       /\ \A q \in Procs \ {p} : sent'[q] = sent[q]
    BY <1>14 DEF CallInv, CallTypes
<1>5. LedgerInv'
    <2>1. LedgerInv
        BY DEF CallInv
    <2>2. SentFits(p)'
        BY <1>1, <1>3, <1>4, <1>14, <1>15, <2>1 DEF LedgerInv, SentFits
    <2>3. \A q \in Procs \ {p} : SentFits(q)'
        BY <1>1, <1>4, <1>15, <2>1 DEF LedgerInv, SentFits
    <2> QED
        BY <1>1, <1>4, <2>1, <2>2, <2>3 DEF LedgerInv
<1>6. RecordsGrow
    BY <1>1, <1>4 DEF RecordsGrow
<1>7. PICK next \in {"freeze", "complete", "abort"} :
        /\ Parent!Goto(p, next)
        /\ \/ answer' = answer /\ next = "abort"
           \/ \E a \in ParentAnswers : Parent!Take(p, [answer |-> a, from |-> "ledger"])
    BY DEF Parent!Send
<1>8. pc'[p] = next /\ OthersRest(p)
    BY <1>1, <1>7, GoesOn DEF CallInv
<1>9. \/ answer' = answer /\ next = "abort"
      \/ \E a \in CallAnswers : a.from = "ledger" /\ answer' = [answer EXCEPT ![p] = a]
    <2>1. \A a \in ParentAnswers : /\ [answer |-> a, from |-> "ledger"] \in CallAnswers
                                   /\ [answer |-> a, from |-> "ledger"].from = "ledger"
        BY DEF CallAnswers
    <2> QED
        BY <1>7, <2>1 DEF Parent!Take
<1>10. /\ answer' \in [Procs -> {None} \cup CallAnswers]
       /\ next # "abort" => answer'[p] \in CallAnswers /\ answer'[p].from = "ledger"
    BY <1>9 DEF CallInv, CallTypes
<1>13. CallTypes'
    BY <1>1, <1>7, <1>10, <1>15 DEF CallInv, CallTypes, Parent!Goto, Answering
<1>11. /\ at'[p] \in [call : CallIds, request : CallRequests] /\ at'[p].call = c
       /\ c \in Called'
    BY <1>1, <1>2, <1>3, <1>4
<1> HIDE DEF Called
<1>12. ProgramFits(p)'
    BY <1>7, <1>8, <1>10, <1>11 DEF ProgramFits, Answering
<1> QED
    BY <1>1, <1>5, <1>6, <1>8, <1>13, <1>12, <1>15, ProgramStep DEF OthersRest

LEMMA FreezeRawStep ==
    ASSUME Parent!ParentCallsAssumption, CallInv, NEW p \in Procs, Parent!FreezeRaw(p)
    PROVE  CallInv'
<1>1. /\ pc[p] = "freeze"
      /\ UNCHANGED <<program, records, raw, output, at, answer, found, sent>>
    BY DEF Parent!FreezeRaw, Parent!files
<1>2. PICK next \in {"write raw", "complete", "abort"} : Parent!Goto(p, next)
    BY DEF Parent!FreezeRaw
<1>3. ProgramFits(p) /\ raw' \in [CallIds -> {None, Torn} \cup [request : CallRequests,
                                                             answer : ParentAnswers]]
    BY <1>1 DEF CallInv, CallTypes
<1>4. pc'[p] = next /\ Called' = Called => ProgramFits(p)'
    BY <1>1, <1>2, <1>3 DEF ProgramFits, Answering
<1> QED
    BY <1>1, <1>2, <1>3, <1>4, QuietStep DEF Answering

LEMMA WriteRawStep ==
    ASSUME Parent!ParentCallsAssumption, CallInv, NEW p \in Procs, Parent!WriteRaw(p)
    PROVE  CallInv'
<1>1. /\ pc[p] = "write raw" /\ Parent!Goto(p, "complete")
      /\ UNCHANGED <<program, records, output, at, answer, found, sent>>
      /\ raw' = [raw EXCEPT ![at[p].call] = Parent!RawOf(p)]
    BY DEF Parent!WriteRaw
<1>2. ProgramFits(p) /\ answer[p] \in CallAnswers
    BY <1>1 DEF CallInv, ProgramFits, Answering
<1>3. Parent!RawOf(p) \in [request : CallRequests, answer : ParentAnswers]
    BY <1>1, <1>2 DEF ProgramFits, Parent!RawOf, CallAnswers
<1>4. raw' \in [CallIds -> {None, Torn} \cup [request : CallRequests, answer : ParentAnswers]]
    BY <1>1, <1>3 DEF CallInv, CallTypes
<1>5. pc'[p] = "complete" /\ Called' = Called => ProgramFits(p)'
    BY <1>1, <1>2 DEF ProgramFits, Answering
<1> QED
    BY <1>1, <1>4, <1>5, QuietStep DEF Answering

\* The record of a call that was reserved is written when the call ends.
LEMMA RecordEnds ==
    ASSUME Parent!ParentCallsAssumption, CallInv, NEW c \in CallIds,
           Parent!Status(c) = "reserved", NEW status \in {"completed", "aborted"},
           NEW a \in ParentAnswers \cup {None}, status = "completed" => a \in ParentAnswers,
           records' = [records EXCEPT ![c] = Parent!Record(status, @.request, a)],
           UNCHANGED <<program, sent>>
    PROVE  /\ records' \in [CallIds -> {None} \cup Parent!ParentCallRecords]
           /\ Called' = Called /\ LedgerInv' /\ RecordsGrow
           /\ Parent!Status(c)' = status /\ records'[c].answer = a
<1>1. CallTypes /\ LedgerInv
    BY DEF CallInv
<1>2. c \in Called /\ records[c] \in Parent!ParentCallRecords
    BY <1>1, StatusIs DEF Called, Parent!ParentCallsAssumption, Parent!Statuses
<1>3. Parent!Record(status, records[c].request, a) \in Parent!ParentCallRecords
      /\ Parent!Record(status, records[c].request, a).status = status
      /\ Parent!Record(status, records[c].request, a).answer = a
    BY <1>2 DEF Parent!Record, Parent!ParentCallRecords, Parent!Statuses
<1>4. PICK new \in Parent!ParentCallRecords :
        /\ new = Parent!Record(status, records[c].request, a)
        /\ new.status = status /\ new.answer = a /\ new # None
    BY <1>3 DEF Parent!ParentCallsAssumption
<1>5. records' = [records EXCEPT ![c] = new]
    BY <1>4
<1>6. records' \in [CallIds -> {None} \cup Parent!ParentCallRecords]
    BY <1>1, <1>5 DEF CallTypes
<1>7. records'[c] = new /\ \A d \in CallIds \ {c} : records'[d] = records[d]
    BY <1>1, <1>5 DEF CallTypes
<1>8. Called' = Called
    BY <1>2, <1>4, <1>7 DEF Called
<1>9. LedgerInv'
    <2>1. /\ IsFiniteSet(Called') /\ Cardinality(Called') <= MaxCalls
          /\ \A q \in Procs : SentFits(q)'
        BY <1>1, <1>8 DEF LedgerInv, SentFits
    <2>2. ASSUME NEW d \in Called', records'[d].status = "completed"
          PROVE  records'[d].answer \in ParentAnswers
        <3>1. CASE d = c
            BY <1>4, <1>7, <2>2, <3>1
        <3>2. CASE d # c
            <4>1. d \in Called /\ records'[d] = records[d]
                BY <1>7, <1>8, <3>2 DEF Called
            <4> QED
                BY <1>1, <2>2, <4>1 DEF LedgerInv
        <3> QED
            BY <3>1, <3>2
    <2> QED
        BY <2>1, <2>2 DEF LedgerInv
<1>10. RecordsGrow
    BY <1>7, <1>8 DEF RecordsGrow
<1>11. Parent!Status(c)' = status
    BY <1>4, <1>7 DEF Parent!Status
<1> QED
    BY <1>4, <1>6, <1>7, <1>8, <1>9, <1>10, <1>11

LEMMA CompleteStep ==
    ASSUME Parent!ParentCallsAssumption, CallInv, NEW p \in Procs, Parent!Complete(p)
    PROVE  CallInv'
<1>1. pc[p] = "complete" /\ UNCHANGED <<program, raw, output, sent>>
    BY DEF Parent!Complete, Parent!files
<1>2. PICK c \in CallIds, r \in CallRequests :
        /\ at[p] = [call |-> c, request |-> r] /\ c = at[p].call /\ r = at[p].request
        /\ found[p] # None => c \in Called
    BY <1>1, AtCall
<1>3. ProgramFits(p) /\ answer[p] \in CallAnswers /\ answer[p].from = "ledger"
    BY <1>1 DEF CallInv, ProgramFits, Answering
<1>4. PICK a \in ParentAnswers : a = answer[p].answer
    BY <1>3 DEF CallAnswers
<1>5. ASSUME Parent!Completable(c),
             records' = [records EXCEPT ![c] = Parent!Record("completed", @.request, a)],
             Parent!Goto(p, "publish"), UNCHANGED <<at, answer, found>>
      PROVE  CallInv'
    <2>1. /\ records' \in [CallIds -> {None} \cup Parent!ParentCallRecords]
          /\ Called' = Called /\ LedgerInv' /\ RecordsGrow
          /\ Parent!Status(c)' = "completed" /\ records'[c].answer = a
        BY <1>1, <1>5, RecordEnds DEF Parent!Completable
    <2>2. pc'[p] = "publish" /\ OthersRest(p)
        BY <1>5, GoesOn DEF CallInv
    <2>3. CallTypes'
        BY <1>1, <1>5, <2>1 DEF CallInv, CallTypes, Parent!Goto, Answering
    <2>4. Backs(at[p].call, answer[p])'
        <3>1. at'[p].call = c /\ answer'[p] = answer[p]
            BY <1>2, <1>5
        <3>2. answer'[p].from = "ledger" /\ answer'[p].answer = a
            BY <1>3, <1>4, <3>1
        <3> QED
            BY <2>1, <3>1, <3>2 DEF Backs
    <2>5. ProgramFits(p)'
        <3>1. /\ at'[p] \in [call : CallIds, request : CallRequests] /\ at'[p].call \in Called'
              /\ answer'[p] \in CallAnswers
            BY <1>1, <1>3, <1>5, <2>1 DEF ProgramFits
        <3> QED
            BY <2>2, <2>4, <3>1 DEF ProgramFits
    <2> QED
        BY <1>1, <2>1, <2>2, <2>3, <2>5, ProgramStep DEF OthersRest
<1>6. CASE Parent!End(p) /\ UNCHANGED records
    BY <1>1, <1>6, QuietEnd
<1>7. CASE Parent!Goto(p, "abort") /\ UNCHANGED <<records, at, answer, found>>
    <2>1. pc'[p] = "abort" /\ Called' = Called => ProgramFits(p)'
        BY <1>1, <1>3, <1>7 DEF ProgramFits, Answering
    <2>2. raw' \in [CallIds -> {None, Torn} \cup [request : CallRequests,
                                                  answer : ParentAnswers]]
        BY <1>1 DEF CallInv, CallTypes
    <2> QED
        BY <1>1, <1>7, <2>1, <2>2, QuietStep
<1> QED
    BY <1>2, <1>4, <1>5, <1>6, <1>7 DEF Parent!Complete

LEMMA AbortStep ==
    ASSUME Parent!ParentCallsAssumption, CallInv, NEW p \in Procs, Parent!Abort(p)
    PROVE  CallInv'
<1>1. pc[p] = "abort" /\ Parent!End(p) /\ UNCHANGED <<program, raw, output, sent>>
    BY DEF Parent!Abort, Parent!files
<1>2. PICK c \in CallIds, r \in CallRequests :
        /\ at[p] = [call |-> c, request |-> r] /\ c = at[p].call /\ r = at[p].request
        /\ found[p] # None => c \in Called
    BY <1>1, AtCall
<1>3. CASE /\ Parent!Status(c) = "reserved"
           /\ records' = [records EXCEPT ![c] = Parent!Record("aborted", @.request, None)]
    <2>1. /\ records' \in [CallIds -> {None} \cup Parent!ParentCallRecords]
          /\ LedgerInv' /\ RecordsGrow
        BY <1>1, <1>3, RecordEnds
    <2> QED
        BY <1>1, <2>1, EndStep DEF CallInv, CallTypes
<1>4. CASE records' = records
    BY <1>1, <1>4, QuietEnd
<1> QED
    BY <1>2, <1>3, <1>4 DEF Parent!Abort

\* A program whose answer is backed goes on with it.
LEMMA PlacesBacked ==
    ASSUME CallInv, NEW p \in Procs, pc[p] \in {"publish", "report"},
           UNCHANGED <<program, records, at, answer, found>>,
           pc'[p] \in {"report", "write output"}, Called' = Called
    PROVE  ProgramFits(p)'
<1>1. /\ at[p] \in [call : CallIds, request : CallRequests] /\ at[p].call \in Called
      /\ answer[p] \in CallAnswers /\ Backs(at[p].call, answer[p])
    BY DEF CallInv, ProgramFits, Answering
<1>2. /\ at'[p] \in [call : CallIds, request : CallRequests] /\ at'[p].call \in Called'
      /\ answer'[p] \in CallAnswers
    BY <1>1
<1>3. Backs(at[p].call, answer[p])'
    BY <1>1 DEF Backs, Parent!Status
<1> QED
    BY <1>2, <1>3 DEF ProgramFits

LEMMA PublishStep ==
    ASSUME Parent!ParentCallsAssumption, CallInv, NEW p \in Procs, Parent!Publish(p)
    PROVE  CallInv'
<1>1. pc[p] = "publish" /\ UNCHANGED <<program, records, raw, output, sent>>
    BY DEF Parent!Publish
<1>2. CASE Parent!End(p)
    BY <1>1, <1>2, QuietEnd
<1>3. CASE Parent!Goto(p, "report") /\ UNCHANGED <<at, answer, found>>
    <2>1. pc'[p] = "report" /\ Called' = Called => ProgramFits(p)'
        BY <1>1, <1>3, PlacesBacked
    <2>2. raw' \in [CallIds -> {None, Torn} \cup [request : CallRequests,
                                                  answer : ParentAnswers]]
        BY <1>1 DEF CallInv, CallTypes
    <2> QED
        BY <1>1, <1>3, <2>1, <2>2, QuietStep DEF Answering
<1> QED
    BY <1>2, <1>3 DEF Parent!Publish

LEMMA ReportStep ==
    ASSUME Parent!ParentCallsAssumption, CallInv, NEW p \in Procs, Parent!Report(p)
    PROVE  CallInv'
<1>1. pc[p] = "report" /\ UNCHANGED <<program, records, raw, output, sent>>
    BY DEF Parent!Report, Parent!files
<1>2. CASE Parent!End(p)
    BY <1>1, <1>2, QuietEnd
<1>3. CASE Parent!Goto(p, "write output") /\ UNCHANGED <<at, answer, found>>
    <2>1. pc'[p] = "write output" /\ Called' = Called => ProgramFits(p)'
        BY <1>1, <1>3, PlacesBacked
    <2>2. raw' \in [CallIds -> {None, Torn} \cup [request : CallRequests,
                                                  answer : ParentAnswers]]
        BY <1>1 DEF CallInv, CallTypes
    <2> QED
        BY <1>1, <1>3, <2>1, <2>2, QuietStep DEF Answering
<1> QED
    BY <1>2, <1>3 DEF Parent!Report

LEMMA WriteOutputStep ==
    ASSUME Parent!ParentCallsAssumption, CallInv, NEW p \in Procs, Parent!WriteOutput(p)
    PROVE  CallInv'
<1>1. /\ pc[p] = "write output" /\ Parent!End(p) /\ UNCHANGED <<program, records, raw, sent>>
      /\ output' = [output EXCEPT ![at[p].call] = answer[p]]
    BY DEF Parent!WriteOutput
<1>2. PICK c \in CallIds, r \in CallRequests :
        /\ at[p] = [call |-> c, request |-> r] /\ c = at[p].call /\ r = at[p].request
        /\ found[p] # None => c \in Called
    BY <1>1, AtCall
<1>3. answer[p] \in CallAnswers /\ Backs(c, answer[p])
    BY <1>1, <1>2 DEF CallInv, ProgramFits, Answering
<1>4. PICK a \in CallAnswers : a = answer[p] /\ Backs(c, a)
    BY <1>3
<1>5. LedgerInv' /\ RecordsGrow
    BY <1>1, LedgerRests DEF CallInv
<1>6. Backs(c, a)'
    BY <1>4, <1>5, BacksStays DEF CallInv
<1>7. output' = [output EXCEPT ![c] = a]
    BY <1>1, <1>2, <1>4
<1>8. output' \in [CallIds -> {None, Torn} \cup CallAnswers]
    BY <1>4, <1>7 DEF CallInv, CallTypes
<1>9. output'[c] = a /\ \A d \in CallIds \ {c} : output'[d] = output[d]
    BY <1>7 DEF CallInv, CallTypes
<1>10. ASSUME NEW d \in CallIds
       PROVE  output'[d] = output[d] \/ (output'[d] \in CallAnswers /\ Backs(d, output[d])')
    <2>1. CASE d # c
        BY <1>9, <2>1
    <2>2. CASE d = c
        BY <1>4, <1>6, <1>9, <2>2
    <2> QED
        BY <2>1, <2>2
<1> QED
    BY <1>1, <1>5, <1>8, <1>10, EndStep DEF CallInv, CallTypes

LEMMA KillStep ==
    ASSUME Parent!ParentCallsAssumption, CallInv, NEW p \in Procs, Parent!Kill(p)
    PROVE  CallInv'
<1>1. pc[p] # "idle" /\ Parent!End(p) /\ UNCHANGED <<program, records, sent>>
    BY DEF Parent!Kill
<1>2. PICK c \in CallIds, r \in CallRequests :
        /\ at[p] = [call |-> c, request |-> r] /\ c = at[p].call /\ r = at[p].request
        /\ found[p] # None => c \in Called
    BY <1>1, AtCall
<1>3. PICK x \in {raw[c], Torn}, y \in {output[c], Torn} :
        raw' = [raw EXCEPT ![c] = x] /\ output' = [output EXCEPT ![c] = y]
    <2>1. /\ raw' = [raw EXCEPT ![c] = IF pc[p] = "write raw" THEN Torn ELSE raw[c]]
          /\ output' = [output EXCEPT ![c] = IF pc[p] = "write output" THEN Torn ELSE output[c]]
        BY <1>2 DEF Parent!Kill
    <2> QED
        BY <2>1
<1>4. LedgerInv' /\ RecordsGrow
    BY <1>1, LedgerRests DEF CallInv
<1>5. /\ raw' \in [CallIds -> {None, Torn} \cup [request : CallRequests, answer : ParentAnswers]]
      /\ output' \in [CallIds -> {None, Torn} \cup CallAnswers]
      /\ \A d \in CallIds : output'[d] \in {output[d], None, Torn}
    BY <1>3 DEF CallInv, CallTypes
<1> QED
    BY <1>1, <1>4, <1>5, EndStep DEF CallInv, CallTypes

-----------------------------------------------------------------------------
(* All programs together, and what they promise.                            *)

LEMMA CallRest ==
    ASSUME CallInv, UNCHANGED <<program, records, raw, output, Parent!process, sent>>
    PROVE  CallInv'
<1>1. CallTypes'
    BY DEF CallInv, CallTypes, Parent!process
<1>2. Called' = Called /\ \A c, a : Backs(c, a)' <=> Backs(c, a)
    BY DEF Called, Backs, Parent!Status
<1>3. LedgerInv' /\ ReportFits'
    BY <1>2 DEF CallInv, LedgerInv, ReportFits, SentFits
<1>4. \A p \in Procs : ProgramFits(p)'
    BY <1>2 DEF CallInv, ProgramFits, Parent!process
<1> QED
    BY <1>1, <1>3, <1>4 DEF CallInv

LEMMA CallNext ==
    ASSUME Parent!ParentCallsAssumption, CallInv, [Parent!Next]_(Parent!vars)
    PROVE  CallInv'
<1>1. ASSUME NEW p \in Procs, Parent!Step(p)
      PROVE  CallInv'
    <2>1. CASE Parent!Return(p)
        BY <2>1, CallRest DEF Parent!Return, Parent!vars, Parent!files
    <2> QED
        BY <1>1, <2>1, StartStep, LookStep, ReserveStep, SendStep, FreezeRawStep, WriteRawStep,
           CompleteStep, AbortStep, PublishStep, ReportStep, WriteOutputStep DEF Parent!Step
<1>2. CASE Parent!Expire
    BY <1>2, CallRest DEF Parent!Expire, Parent!files
<1>3. CASE UNCHANGED Parent!vars
    BY <1>3, CallRest DEF Parent!vars, Parent!files
<1> QED
    BY <1>1, <1>2, <1>3, KillStep DEF Parent!Next

\* A call that ended keeps its record: nothing but a reservation is completed or aborted.
LEMMA CallKeeps ==
    ASSUME Parent!ParentCallsAssumption, CallInv, [Parent!Next]_(Parent!vars)
    PROVE  Parent!KeepsTerminal
<1>1. \A c \in CallIds : records[c] # None => Parent!Status(c) = records[c].status
    BY DEF Parent!Status
<1>2. ASSUME NEW c \in CallIds, records' # records,
             NEW x, records' = [records EXCEPT ![c] = x], Parent!Status(c) \in {None, "reserved"}
      PROVE  Parent!KeepsTerminal
    <2>1. \A d \in CallIds \ {c} : records'[d] = records[d]
        BY <1>2 DEF CallInv, CallTypes
    <2>2. Parent!Status(c) \notin {"completed", "aborted"}
        BY <1>2 DEF Parent!ParentCallsAssumption, Parent!Statuses
    <2> QED
        BY <2>1, <2>2 DEF Parent!KeepsTerminal
<1>3. CASE records' = records
    BY <1>3 DEF Parent!KeepsTerminal
<1>4. CASE records' # records
    <2>1. PICK p \in Procs : Parent!Reserve(p) \/ Parent!Complete(p) \/ Parent!Abort(p)
        BY <1>4 DEF Parent!Next, Parent!vars, Parent!Step, Parent!Start, Parent!Return,
           Parent!Look, Parent!Send, Parent!FreezeRaw, Parent!WriteRaw, Parent!Publish,
           Parent!Report, Parent!WriteOutput, Parent!Kill, Parent!Expire
    <2>2. pc[p] # "idle"
        BY <2>1 DEF Parent!Reserve, Parent!Complete, Parent!Abort
    <2>3. PICK c \in CallIds : c = at[p].call
        BY <2>2, AtCall
    <2>4. CASE Parent!Reserve(p)
        <3>1. records' = [records EXCEPT ![c] = IF records[c] = None
                                  THEN Parent!Record("reserved", at[p].request, None)
                                  ELSE records[c]]
            BY <1>4, <2>3, <2>4 DEF Parent!Reserve
        <3>2. CASE records[c] = None
            BY <1>2, <1>4, <3>1, <3>2 DEF Parent!Status
        <3>3. CASE records[c] # None
            <4>1. records' = records
                BY <3>1, <3>3 DEF CallInv, CallTypes
            <4> QED
                BY <1>4, <4>1
        <3> QED
            BY <3>2, <3>3
    <2>5. CASE Parent!Complete(p)
        <3>1. /\ Parent!Status(c) = "reserved"
              /\ records' = [records EXCEPT ![c] =
                                Parent!Record("completed", records[c].request, answer[p].answer)]
            BY <1>4, <2>3, <2>5 DEF Parent!Complete, Parent!Completable
        <3> QED
            BY <1>2, <1>4, <3>1
    <2>6. CASE Parent!Abort(p)
        <3>1. /\ Parent!Status(c) = "reserved"
              /\ records' = [records EXCEPT ![c] =
                                Parent!Record("aborted", records[c].request, None)]
            BY <1>4, <2>3, <2>6 DEF Parent!Abort
        <3> QED
            BY <1>2, <1>4, <3>1
    <2> QED
        BY <2>1, <2>4, <2>5, <2>6
<1> QED
    BY <1>3, <1>4

\* What the invariant is for.
LEMMA CallsFit ==
    ASSUME Parent!ParentCallsAssumption, CallInv
    PROVE  Parent!CallsAreReserved /\ Parent!DispatchIsFresh /\ Parent!ReportIsRecorded
<1>1. /\ Cardinality(Called) <= MaxCalls
      /\ \A p \in Procs : SentFits(p) /\ sent[p] \in [CallIds -> 0 .. 2]
    BY DEF CallInv, CallTypes, LedgerInv
<1>2. Parent!CallsAreReserved
    <2>1. Parent!Cardinality(Called) <= MaxCalls
        BY <1>1, SameSize
    <2>2. \A p \in Procs, c \in CallIds : sent[p][c] > 0 => records[c] # None
        BY <1>1 DEF SentFits, Called
    <2> QED
        BY <2>1, <2>2 DEF Parent!CallsAreReserved, Called
<1>3. Parent!DispatchIsFresh
    <2>1. ASSUME program # "localization", NEW p \in Procs, NEW c \in CallIds
          PROVE  sent[p][c] <= 1
        <3>1. sent[p][c] \in 0 .. 2 /\ sent[p][c] # 2
            BY <1>1, <2>1 DEF SentFits
        <3> QED
            BY <3>1
    <2>2. program # "localization" => \A p \in Procs : pc[p] = "send" => found[p] = None
        BY DEF CallInv, ProgramFits
    <2> QED
        BY <2>1, <2>2 DEF Parent!DispatchIsFresh
<1>4. Parent!ReportIsRecorded
    <2>1. ASSUME NEW c \in CallIds, output[c] \notin {None, Torn}
          PROVE  IF output[c].from = "ledger"
                 THEN Parent!Status(c) = "completed" /\ output[c].answer = records[c].answer
                 ELSE Parent!Status(c) = "aborted" /\ output[c].answer.parses
        BY <2>1 DEF CallInv, ReportFits, Backs
    <2> QED
        BY <2>1 DEF Parent!ReportIsRecorded
<1> QED
    BY <1>2, <1>3, <1>4

-----------------------------------------------------------------------------
(* The paired experiment.                                                  *)

SharedContexts == Contexts \cup {"inherited"}
Mechanisms == {s.mechanism : s \in Experiment!Slots}
GateRecords == [mechanism : Mechanisms, seen : SUBSET Experiment!Cells]

\* What the futility gate says of some cells, of all mechanisms.
Gates(o, now) == UNION {Experiment!Gate(o, m, now) : m \in Mechanisms}

Jobs ==
    [pc : {"idle", "next", "context", "bind", "attempt", "progress", "summary"},
     options : Options \cup {None}, at : Nat, executed : Nat, stopped : SUBSET GateRecords,
     context : SharedContexts \cup {None}]

ExperimentTypes ==
    /\ cells \in [Experiment!Cells -> {None} \cup [valid : BOOLEAN,
                                                   context : SharedContexts \cup {None}]]
    /\ contexts \in [Experiment!Slots -> SharedContexts \cup {None}]
    /\ job \in [Procs -> Jobs]

\* The context that a cell is bound to, once its slot has one.
BoundTo(c) == IF c[2].mechanism \in Contextual THEN contexts[Experiment!SlotOf(c)] ELSE None
Bound(c) == c[2].mechanism \in Contextual => BoundTo(c) # None

\* A run has the lease, and what it stopped is what the gate says of the cells on disk.
RunFits(p) ==
    job[p].pc # "idle" =>
        /\ holder = p /\ job[p].options \in Options
        /\ job[p].stopped = Gates(job[p].options, cells)
        /\ job[p].at \in Nat \ {0}
        /\ job[p].pc \in {"context", "bind", "attempt"} =>
              /\ job[p].at <= Len(Experiment!Plan)
              /\ ~Experiment!Stopped(p, Experiment!Plan[job[p].at][2].mechanism)
        /\ job[p].pc = "bind" =>
              job[p].context \in Experiment!Available(Experiment!Plan[job[p].at])
        /\ job[p].pc = "attempt" =>
              /\ job[p].context = BoundTo(Experiment!Plan[job[p].at])
              /\ Bound(Experiment!Plan[job[p].at])

\* A frozen cell has the context of its slot.
CellsFit ==
    \A c \in Experiment!Cells : cells[c] # None => cells[c].context = BoundTo(c) /\ Bound(c)

\* A summary is of the cells on disk, all of them.
SummaryFits ==
    summary \notin {None, Torn} =>
        /\ Experiment!Complete /\ summary.cells = cells
        /\ summary.stopped = Gates(summary.options, cells)

ExperimentInv ==
    ExperimentTypes /\ (\A p \in Procs : RunFits(p)) /\ CellsFit /\ SummaryFits

-----------------------------------------------------------------------------
(* The plan, the slots and the gate.                                       *)

\* The quotient and the remainder of a place in the plan are places in the two orders.
LEMMA Quotient ==
    ASSUME NEW m \in Nat, NEW n \in Nat, NEW i \in 1 .. m * n
    PROVE  /\ 1 + (i - 1) \div n \in 1 .. m
           /\ ((i - 1) % n) + 1 \in 1 .. n
<1>1. n > 0 /\ i - 1 \in Nat /\ i - 1 < m * n
    <2>1. m * n \in Nat
        OBVIOUS
    <2>2. n = 0 => m * n = 0
        OBVIOUS
    <2> QED
        BY <2>1, <2>2
<1>2. PICK a \in Nat : a = i - 1
    BY <1>1
<1>3. PICK q \in Int, r \in 0 .. n - 1 : q = a \div n /\ r = a % n /\ a = n * q + r
    BY <1>1, <1>2
<1>4. q >= 0
    <2>1. SUFFICES ASSUME q <= -1 PROVE FALSE
        BY <1>3
    <2>2. n * q <= n * (-1)
        BY <1>1, <2>1
    <2> QED
        BY <1>1, <1>3, <2>2
<1>5. q < m
    <2>1. SUFFICES ASSUME q >= m PROVE FALSE
        BY <1>3
    <2>2. n * q >= n * m
        BY <1>1, <2>1
    <2>3. n * m = m * n
        OBVIOUS
    <2> QED
        BY <1>1, <1>2, <1>3, <2>2, <2>3
<1> QED
    BY <1>1, <1>2, <1>3, <1>4, <1>5

LEMMA PlanOfCells ==
    ASSUME Experiment!PairedExperimentAssumption
    PROVE  /\ Len(Experiment!Plan) \in Nat
           /\ \A i \in 1 .. Len(Experiment!Plan) : Experiment!Plan[i] \in Experiment!Cells
<1>1. /\ Len(TaskOrder) \in Nat /\ DOMAIN TaskOrder = 1 .. Len(TaskOrder)
      /\ Len(Arms) \in Nat /\ DOMAIN Arms = 1 .. Len(Arms)
    BY DEF Experiment!PairedExperimentAssumption
<1>2. PICK m \in Nat, n \in Nat : m = Len(TaskOrder) /\ n = Len(Arms)
    BY <1>1
<1>3. m * n \in Nat
    OBVIOUS
<1>4. ASSUME NEW i \in 1 .. m * n
      PROVE  Experiment!Plan[i] \in Experiment!Cells
    <2>1. /\ 1 + (i - 1) \div n \in DOMAIN TaskOrder
          /\ ((i - 1) % n) + 1 \in DOMAIN Arms
        BY <1>1, <1>2, Quotient
    <2>2. Experiment!Plan[i] = <<TaskOrder[1 + (i - 1) \div n], Arms[((i - 1) % n) + 1]>>
        BY <1>2 DEF Experiment!Plan
    <2> QED
        BY <2>1, <2>2 DEF Experiment!Cells
<1>5. Len(Experiment!Plan) = m * n
    BY <1>2, <1>3 DEF Experiment!Plan
<1> QED
    BY <1>3, <1>4, <1>5

LEMMA SlotsOfCells ==
    ASSUME NEW c \in Experiment!Cells
    PROVE  /\ Experiment!SlotOf(c) \in Experiment!Slots /\ c[2].mechanism \in Mechanisms
           /\ Experiment!SlotOf(c).mechanism = c[2].mechanism
BY DEF Experiment!SlotOf, Experiment!Slots, Mechanisms

\* What the gate says of a mechanism depends on its own cells.
LEMMA GateOfOwnCells ==
    ASSUME NEW o \in Options, NEW m \in Mechanisms, NEW now, NEW then,
           \A c \in Experiment!Cells : c[2].mechanism = m => now[c] = then[c]
    PROVE  Experiment!Gate(o, m, now) = Experiment!Gate(o, m, then)
<1>1. {c \in Experiment!Cells : c[2].mechanism = m /\ c[2] \in o.arms /\ now[c] # None}
        = {c \in Experiment!Cells : c[2].mechanism = m /\ c[2] \in o.arms /\ then[c] # None}
    OBVIOUS
<1>2. PICK seen : seen = {c \in Experiment!Cells : /\ c[2].mechanism = m /\ c[2] \in o.arms
                                                   /\ now[c] # None}
    OBVIOUS
<1>3. {c \in seen : now[c].valid} = {c \in seen : then[c].valid}
    BY <1>2
<1> QED
    BY <1>1, <1>2, <1>3, Zenon DEF Experiment!Gate

LEMMA GateType ==
    ASSUME NEW o \in Options, NEW m \in Mechanisms, NEW now
    PROVE  /\ Experiment!Gate(o, m, now) \in SUBSET GateRecords
           /\ \A g \in Experiment!Gate(o, m, now) : g.mechanism = m
<1> DEFINE seen == {c \in Experiment!Cells : /\ c[2].mechanism = m /\ c[2] \in o.arms
                                             /\ now[c] # None}
           g == [mechanism |-> m, seen |-> seen]
<1>1. g \in GateRecords /\ g.mechanism = m
    BY DEF GateRecords
<1>2. Experiment!Gate(o, m, now) \subseteq {g}
    BY Zenon DEF Experiment!Gate
<1> HIDE DEF g
<1> QED
    BY <1>1, <1>2

LEMMA GatesType ==
    ASSUME NEW o \in Options, NEW now
    PROVE  Gates(o, now) \in SUBSET GateRecords
BY GateType DEF Gates

\* One more cell of a mechanism that is not stopped.
LEMMA GatesOfOneMore ==
    ASSUME NEW o \in Options, NEW now, NEW then, NEW m \in Mechanisms,
           \A c \in Experiment!Cells : c[2].mechanism # m => now[c] = then[c],
           \A g \in Gates(o, now) : g.mechanism # m
    PROVE  Gates(o, then) = Gates(o, now) \cup Experiment!Gate(o, m, then)
<1>1. \A n \in Mechanisms \ {m} : Experiment!Gate(o, n, now) = Experiment!Gate(o, n, then)
    BY GateOfOwnCells
<1>2. Experiment!Gate(o, m, now) = {}
    BY GateType DEF Gates
<1> QED
    BY <1>1, <1>2 DEF Gates

-----------------------------------------------------------------------------
(* Every step of a run keeps it in agreement with the disk.                 *)

LEMMA ExperimentInit ==
    ASSUME Experiment!PairedExperimentAssumption, Experiment!Init
    PROVE  ExperimentInv
<1>1. ExperimentTypes
    BY DEF Experiment!Init, ExperimentTypes, Experiment!Idle, Jobs
<1>2. \A p \in Procs : RunFits(p)
    BY DEF Experiment!Init, RunFits, Experiment!Idle
<1>3. CellsFit /\ SummaryFits
    BY DEF Experiment!Init, CellsFit, SummaryFits
<1> QED
    BY <1>1, <1>2, <1>3 DEF ExperimentInv

\* Others are idle while a process runs.
LEMMA OthersIdle ==
    ASSUME ExperimentInv, NEW p \in Procs, job[p].pc # "idle"
    PROVE  holder = p /\ \A q \in Procs \ {p} : job[q].pc = "idle"
BY DEF ExperimentInv, RunFits

\* The steps of p that leave the cells, the contexts and the summary alone.
LEMMA RunStep ==
    ASSUME ExperimentInv, NEW p \in Procs, \A q \in Procs \ {p} : job[q].pc = "idle",
           job' \in [Procs -> Jobs], \A q \in Procs \ {p} : job'[q] = job[q],
           UNCHANGED <<cells, contexts>>, summary' \in {summary, Torn}, RunFits(p)'
    PROVE  ExperimentInv'
<1>1. ExperimentTypes'
    BY DEF ExperimentInv, ExperimentTypes
<1>2. \A q \in Procs : RunFits(q)'
    BY DEF RunFits
<1>3. CellsFit'
    BY DEF ExperimentInv, CellsFit, BoundTo, Bound
<1>4. SummaryFits'
    <2>1. ASSUME summary' = summary PROVE SummaryFits'
        BY <2>1 DEF ExperimentInv, SummaryFits, Experiment!Complete, Gates
    <2>2. ASSUME summary' = Torn PROVE SummaryFits'
        BY <2>2 DEF SummaryFits
    <2> QED
        BY <2>1, <2>2
<1> QED
    BY <1>1, <1>2, <1>3, <1>4 DEF ExperimentInv

\* A run that ends, whether it returned, raised or was killed.
LEMMA RunEnds ==
    ASSUME ExperimentInv, NEW p \in Procs, job[p].pc # "idle", Experiment!End(p),
           UNCHANGED <<cells, contexts>>, summary' \in {summary, Torn}
    PROVE  ExperimentInv'
<1>1. \A q \in Procs \ {p} : job[q].pc = "idle"
    BY OthersIdle
<1>2. job' = [job EXCEPT ![p] = Experiment!Idle]
    BY DEF Experiment!End
<1>3. Experiment!Idle \in Jobs /\ Experiment!Idle.pc = "idle"
    BY DEF Jobs, Experiment!Idle
<1>4. job' \in [Procs -> Jobs] /\ job'[p].pc = "idle"
      /\ \A q \in Procs \ {p} : job'[q] = job[q]
    BY <1>2, <1>3 DEF ExperimentInv, ExperimentTypes
<1>5. RunFits(p)'
    BY <1>4 DEF RunFits
<1> QED
    BY <1>1, <1>4, <1>5, RunStep

\* The gate is applied to all slots, and so to all mechanisms.
LEMMA GatesOfSlots ==
    ASSUME NEW o, NEW now
    PROVE  UNION {Experiment!Gate(o, s.mechanism, now) : s \in Experiment!Slots} = Gates(o, now)
BY DEF Gates, Mechanisms

LEMMA ExperimentStartStep ==
    ASSUME Experiment!PairedExperimentAssumption, ExperimentInv, NEW p \in Procs,
           Experiment!Start(p)
    PROVE  ExperimentInv'
<1>1. PICK o \in Options :
        job' = [job EXCEPT ![p] =
                  [Experiment!Idle EXCEPT !.pc = "next", !.options = o, !.at = 1,
                     !.stopped = UNION {Experiment!Gate(o, s.mechanism, cells) :
                                          s \in Experiment!Slots}]]
    BY DEF Experiment!Start
<1>2. holder = None /\ holder' = p /\ UNCHANGED <<cells, contexts, summary>>
    BY DEF Experiment!Start
<1>3. \A q \in Procs : job[q].pc = "idle"
    BY <1>2 DEF ExperimentInv, RunFits, Experiment!PairedExperimentAssumption
<1>4. PICK stopped \in SUBSET GateRecords :
        /\ stopped = UNION {Experiment!Gate(o, s.mechanism, cells) : s \in Experiment!Slots}
        /\ stopped = Gates(o, cells)
    BY GatesOfSlots, GatesType
<1>5. PICK j \in Jobs : /\ job' = [job EXCEPT ![p] = j]
                        /\ j.pc = "next" /\ j.options = o /\ j.stopped = stopped /\ j.at = 1
    <2> DEFINE j == [Experiment!Idle EXCEPT !.pc = "next", !.options = o, !.at = 1,
                                            !.stopped = stopped]
    <2>1. job' = [job EXCEPT ![p] = j]
        BY <1>1, <1>4
    <2>2. Experiment!Idle \in Jobs
        BY DEF Experiment!Idle, Jobs
    <2>3. /\ j \in Jobs /\ j.pc = "next" /\ j.options = o /\ j.stopped = stopped /\ j.at = 1
        BY <2>2 DEF Jobs
    <2> HIDE DEF j
    <2> QED
        BY <2>1, <2>3
<1>6. job' \in [Procs -> Jobs] /\ job'[p] = j /\ \A q \in Procs \ {p} : job'[q] = job[q]
    BY <1>5 DEF ExperimentInv, ExperimentTypes
<1>7. RunFits(p)'
    <2>1. job'[p].stopped = Gates(job'[p].options, cells')
        BY <1>2, <1>4, <1>5, <1>6
    <2> HIDE DEF Gates
    <2>2. Gates(job[p].options, cells)' = Gates(job'[p].options, cells')
        BY DEF Gates, Experiment!Gate
    <2> QED
        BY <1>2, <1>5, <1>6, <2>1, <2>2 DEF RunFits
<1> QED
    BY <1>2, <1>3, <1>6, <1>7, RunStep

\* A step of a run to another place, or on in the plan.
LEMMA RunGoesOn ==
    ASSUME ExperimentInv, NEW p \in Procs, job[p].pc # "idle", NEW j \in Jobs,
           job' = [job EXCEPT ![p] = j], j.pc # "idle",
           j.options = job[p].options, j.stopped = job[p].stopped, j.at \in Nat \ {0},
           UNCHANGED <<cells, contexts, summary, holder>>,
           j.pc \in {"context", "bind", "attempt"} =>
              /\ j.at <= Len(Experiment!Plan)
              /\ \A g \in j.stopped : g.mechanism # Experiment!Plan[j.at][2].mechanism,
           j.pc = "bind" => j.context \in Experiment!Available(Experiment!Plan[j.at]),
           j.pc # "attempt"
    PROVE  ExperimentInv'
<1>1. /\ job' \in [Procs -> Jobs] /\ job'[p] = j
      /\ \A q \in Procs \ {p} : job'[q] = job[q] /\ job[q].pc = "idle"
    BY OthersIdle DEF ExperimentInv, ExperimentTypes
<1>2. RunFits(p)
    BY DEF ExperimentInv
<1>3. \A x : Experiment!Available(x)' = Experiment!Available(x)
    BY DEF Experiment!Available
<1>4. \A o : Gates(o, cells)' = Gates(o, cells)
    BY DEF Gates, Experiment!Gate
<1>5. \A m : Experiment!Stopped(p, m)' <=> \E g \in j.stopped : g.mechanism = m
    BY <1>1 DEF Experiment!Stopped
<1>6. j.pc = "bind" =>
        j.context \in Experiment!Available(Experiment!Plan[j.at])'
    BY <1>3
<1>7. Gates(job[p].options, cells)' = Gates(j.options, cells)
    BY <1>1, <1>4
<1> HIDE DEF Gates
<1>8. RunFits(p)'
    BY <1>1, <1>2, <1>5, <1>6, <1>7 DEF RunFits
<1> QED
    BY <1>1, <1>8, RunStep

LEMMA RunAt ==
    ASSUME ExperimentInv, NEW p \in Procs, job[p].pc # "idle"
    PROVE  /\ job[p] \in Jobs /\ job[p].options \in Options /\ job[p].at \in Nat \ {0}
           /\ job[p].stopped = Gates(job[p].options, cells) /\ holder = p
BY DEF ExperimentInv, ExperimentTypes, RunFits, Jobs

\* A run goes to another place.
LEMMA RunGoes ==
    ASSUME NEW p \in Procs, job[p] \in Jobs,
           NEW next \in {"next", "context", "bind", "attempt", "progress", "summary"},
           Experiment!Go(p, next)
    PROVE  \E j \in Jobs :
             /\ job' = [job EXCEPT ![p] = j] /\ j.pc = next /\ j.options = job[p].options
             /\ j.stopped = job[p].stopped /\ j.at = job[p].at /\ j.context = job[p].context
<1> DEFINE j == [job[p] EXCEPT !.pc = next]
<1>1. job' = [job EXCEPT ![p] = j]
    BY DEF Experiment!Go
<1>2. /\ j \in Jobs /\ j.pc = next /\ j.options = job[p].options
      /\ j.stopped = job[p].stopped /\ j.at = job[p].at /\ j.context = job[p].context
    BY DEF Jobs
<1> HIDE DEF j
<1> QED
    BY <1>1, <1>2

LEMMA AdvanceStep ==
    ASSUME Experiment!PairedExperimentAssumption, ExperimentInv, NEW p \in Procs,
           Experiment!Advance(p)
    PROVE  ExperimentInv'
<1>1. job[p].pc = "next" /\ UNCHANGED <<cells, contexts, summary>>
    BY DEF Experiment!Advance
<1>2. /\ job[p] \in Jobs /\ job[p].at \in Nat \ {0} /\ Len(Experiment!Plan) \in Nat
    BY <1>1, RunAt, PlanOfCells
<1>3. CASE Experiment!Go(p, "summary") /\ UNCHANGED holder
    <2>1. PICK j \in Jobs : /\ job' = [job EXCEPT ![p] = j] /\ j.pc = "summary"
                            /\ j.options = job[p].options /\ j.stopped = job[p].stopped
                            /\ j.at = job[p].at
        BY <1>2, <1>3, RunGoes
    <2>2. j.options = job[p].options /\ j.stopped = job[p].stopped /\ j.at = job[p].at
        BY <2>1
    <2> QED
        BY <1>1, <1>2, <1>3, <2>1, <2>2, RunGoesOn
<1>4. CASE /\ Experiment!Go(p, "context") /\ UNCHANGED holder
           /\ ~(job[p].at > Len(Experiment!Plan))
           /\ ~Experiment!Passed(p, Experiment!Plan[job[p].at])
    <2>1. PICK j \in Jobs : /\ job' = [job EXCEPT ![p] = j] /\ j.pc = "context"
                            /\ j.options = job[p].options /\ j.stopped = job[p].stopped
                            /\ j.at = job[p].at
        BY <1>2, <1>4, RunGoes
    <2>2. j.options = job[p].options /\ j.stopped = job[p].stopped /\ j.at = job[p].at
        BY <2>1
    <2>3. j.at <= Len(Experiment!Plan)
        BY <1>2, <1>4, <2>2
    <2>4. \A g \in j.stopped : g.mechanism # Experiment!Plan[j.at][2].mechanism
        BY <1>4, <2>2 DEF Experiment!Passed, Experiment!Stopped
    <2> HIDE DEF Experiment!Plan
    <2> QED
        BY <1>1, <1>2, <1>4, <2>1, <2>2, <2>3, <2>4, RunGoesOn
<1>5. CASE Experiment!End(p)
    BY <1>1, <1>5, RunEnds
<1>6. CASE job' = [job EXCEPT ![p].at = job[p].at + 1] /\ UNCHANGED holder
    <2> DEFINE j == [job[p] EXCEPT !.at = job[p].at + 1]
    <2>1. job' = [job EXCEPT ![p] = j]
        BY <1>6
    <2>2. /\ j \in Jobs /\ j.options = job[p].options /\ j.stopped = job[p].stopped
          /\ j.pc = "next" /\ j.at \in Nat \ {0}
        BY <1>1, <1>2 DEF Jobs
    <2> HIDE DEF j
    <2> QED
        BY <1>1, <1>2, <1>6, <2>1, <2>2, RunGoesOn
<1> QED
    BY <1>3, <1>4, <1>5, <1>6 DEF Experiment!Advance

\* The cell that a run is at.
LEMMA AtCell ==
    ASSUME Experiment!PairedExperimentAssumption, ExperimentInv, NEW p \in Procs,
           job[p].pc \in {"context", "bind", "attempt"}
    PROVE  \E c \in Experiment!Cells :
             /\ c = Experiment!Plan[job[p].at] /\ job[p].at <= Len(Experiment!Plan)
             /\ \A g \in job[p].stopped : g.mechanism # c[2].mechanism
<1>1. job[p].at \in 1 .. Len(Experiment!Plan)
    BY RunAt, PlanOfCells DEF ExperimentInv, RunFits
<1>2. ~Experiment!Stopped(p, Experiment!Plan[job[p].at][2].mechanism)
    BY DEF ExperimentInv, RunFits
<1>3. Experiment!Plan[job[p].at] \in Experiment!Cells
    BY <1>1, PlanOfCells
<1> QED
    BY <1>1, <1>2, <1>3 DEF Experiment!Stopped

LEMMA PrepareContextStep ==
    ASSUME Experiment!PairedExperimentAssumption, ExperimentInv, NEW p \in Procs,
           Experiment!PrepareContext(p)
    PROVE  ExperimentInv'
<1>1. job[p].pc = "context" /\ UNCHANGED <<cells, contexts, summary>>
    BY DEF Experiment!PrepareContext
<1>2. PICK c \in Experiment!Cells :
        /\ c = Experiment!Plan[job[p].at] /\ job[p].at <= Len(Experiment!Plan)
        /\ \A g \in job[p].stopped : g.mechanism # c[2].mechanism
    BY <1>1, AtCell
<1>3. job[p] \in Jobs /\ job[p].at \in Nat \ {0}
    BY <1>1, RunAt
<1>4. ASSUME NEW x \in Experiment!Available(c),
             job' = [job EXCEPT ![p].pc = "bind", ![p].context = x], UNCHANGED holder
      PROVE  ExperimentInv'
    <2>1. x \in SharedContexts \cup {None}
        BY <1>4, SlotsOfCells DEF Experiment!Available, SharedContexts, ExperimentInv,
           ExperimentTypes
    <2> DEFINE j == [job[p] EXCEPT !.pc = "bind", !.context = x]
    <2>2. job' = [job EXCEPT ![p] = j]
        BY <1>4
    <2>3. /\ j \in Jobs /\ j.options = job[p].options /\ j.stopped = job[p].stopped
          /\ j.at = job[p].at /\ j.pc = "bind" /\ j.context = x
        BY <1>3, <2>1 DEF Jobs
    <2> HIDE DEF j
    <2>4. /\ j.at <= Len(Experiment!Plan)
          /\ \A g \in j.stopped : g.mechanism # Experiment!Plan[j.at][2].mechanism
          /\ j.context \in Experiment!Available(Experiment!Plan[j.at])
        BY <1>2, <2>3
    <2> QED
        BY <2>4, <1>1, <1>2, <1>3, <1>4, <2>2, <2>3, RunGoesOn
<1>5. CASE Experiment!End(p)
    BY <1>1, <1>5, RunEnds
<1> QED
    BY <1>2, <1>4, <1>5 DEF Experiment!PrepareContext

\* What the gate says stays when only the contexts change.
LEMMA BindContextStep ==
    ASSUME Experiment!PairedExperimentAssumption, ExperimentInv, NEW p \in Procs,
           Experiment!BindContext(p)
    PROVE  ExperimentInv'
<1>1. job[p].pc = "bind" /\ UNCHANGED <<cells, summary, holder>>
    BY DEF Experiment!BindContext
<1>2. PICK c \in Experiment!Cells :
        /\ c = Experiment!Plan[job[p].at] /\ job[p].at <= Len(Experiment!Plan)
        /\ \A g \in job[p].stopped : g.mechanism # c[2].mechanism
    BY <1>1, AtCell
<1>3. /\ job[p] \in Jobs /\ job[p].options \in Options /\ job[p].at \in Nat \ {0}
      /\ job[p].stopped = Gates(job[p].options, cells) /\ holder = p
    BY <1>1, RunAt
<1>4. PICK s \in Experiment!Slots, x \in {job[p].context} :
         s = Experiment!SlotOf(c) /\ x = job[p].context
    BY SlotsOfCells
<1>5. contexts' = [contexts EXCEPT ![s] = IF x = None THEN contexts[s] ELSE x]
    BY <1>2, <1>4 DEF Experiment!BindContext
<1>6. contexts \in [Experiment!Slots -> SharedContexts \cup {None}]
      /\ None \notin SharedContexts
    BY DEF ExperimentInv, ExperimentTypes, Experiment!PairedExperimentAssumption, SharedContexts
<1>7. x \in Experiment!Available(c)
    BY <1>1, <1>2, <1>4 DEF ExperimentInv, RunFits
<1>8. /\ x \in SharedContexts \cup {None}
      /\ c[2].mechanism \notin Contextual => x = None
      /\ c[2].mechanism \in Contextual => x # None /\ contexts[s] \in {None, x}
    BY <1>3, <1>4, <1>6, <1>7 DEF Experiment!Available, SharedContexts, Jobs
<1>9. /\ contexts' \in [Experiment!Slots -> SharedContexts \cup {None}]
      /\ \A t \in Experiment!Slots : contexts[t] # None => contexts'[t] = contexts[t]
      /\ contexts'[s] = IF x = None THEN contexts[s] ELSE x
    <2>1. contexts[s] \in SharedContexts \cup {None}
        BY <1>6
    <2>2. PICK y \in SharedContexts \cup {None} : y = IF x = None THEN contexts[s] ELSE x
        BY <1>8, <2>1
    <2>3. contexts' = [contexts EXCEPT ![s] = y]
        BY <1>5, <2>2
    <2>4. contexts[s] # None => y = contexts[s]
        <3>1. CASE x = None
            BY <2>2, <3>1
        <3>2. CASE x # None
            BY <1>8, <2>2, <3>2
        <3> QED
            BY <3>1, <3>2
    <2> QED
        BY <1>6, <2>2, <2>3, <2>4
<1>10. PICK j \in Jobs : /\ job' = [job EXCEPT ![p] = j]
                         /\ j.pc = "attempt" /\ j.options = job[p].options
                         /\ j.stopped = job[p].stopped /\ j.at = job[p].at /\ j.context = x
    BY <1>3, <1>4, RunGoes DEF Experiment!BindContext
<1>11. /\ job' \in [Procs -> Jobs] /\ job'[p] = j
       /\ \A q \in Procs \ {p} : job'[q] = job[q] /\ job[q].pc = "idle"
    BY <1>1, <1>10, OthersIdle DEF ExperimentInv, ExperimentTypes
<1>12. ExperimentTypes'
    BY <1>1, <1>9, <1>11 DEF ExperimentInv, ExperimentTypes
<1>13. CellsFit'
    <2>1. SUFFICES ASSUME NEW d \in Experiment!Cells, cells[d] # None
                   PROVE  (cells[d].context = BoundTo(d) /\ Bound(d))'
        BY <1>1 DEF CellsFit
    <2>2. cells[d].context = BoundTo(d) /\ Bound(d)
        BY <2>1 DEF ExperimentInv, CellsFit
    <2>3. Experiment!SlotOf(d) \in Experiment!Slots
        BY SlotsOfCells
    <2> QED
        BY <1>1, <1>9, <2>2, <2>3 DEF BoundTo, Bound
<1>14. SummaryFits'
    BY <1>1 DEF ExperimentInv, SummaryFits, Experiment!Complete, Gates
<1>15. RunFits(p)'
    <2>1. BoundTo(c)' = x /\ Bound(c)'
        BY <1>4, <1>8, <1>9 DEF BoundTo, Bound
    <2>2. PICK y : y = BoundTo(c)' /\ y = x
        BY <2>1
    <2>3. j.context = BoundTo(Experiment!Plan[j.at])' /\ Bound(Experiment!Plan[j.at])'
        BY <1>2, <1>10, <2>1
    <2>4. Gates(j.options, cells)' = Gates(job[p].options, cells)
        BY <1>1, <1>10, <1>11 DEF Gates, Experiment!Gate
    <2>5. ~Experiment!Stopped(p, Experiment!Plan[j.at][2].mechanism)'
        BY <1>2, <1>10, <1>11 DEF Experiment!Stopped
    <2> HIDE DEF Gates
    <2> QED
        BY <1>1, <1>2, <1>3, <1>10, <1>11, <2>3, <2>4, <2>5 DEF RunFits
<1>16. \A q \in Procs : RunFits(q)'
    BY <1>11, <1>15 DEF RunFits
<1> QED
    BY <1>12, <1>13, <1>14, <1>16 DEF ExperimentInv

LEMMA AttemptStep ==
    ASSUME Experiment!PairedExperimentAssumption, ExperimentInv, NEW p \in Procs,
           Experiment!Attempt(p)
    PROVE  ExperimentInv'
<1>1. job[p].pc = "attempt" /\ UNCHANGED <<contexts, summary>>
    BY DEF Experiment!Attempt
<1>2. PICK c \in Experiment!Cells :
        /\ c = Experiment!Plan[job[p].at] /\ job[p].at <= Len(Experiment!Plan)
        /\ \A g \in job[p].stopped : g.mechanism # c[2].mechanism
    BY <1>1, AtCell
<1>3. /\ job[p] \in Jobs /\ job[p].options \in Options /\ job[p].at \in Nat \ {0}
      /\ job[p].stopped = Gates(job[p].options, cells) /\ holder = p
    BY <1>1, RunAt
<1>4. CASE Experiment!End(p) /\ UNCHANGED cells
    BY <1>1, <1>4, RunEnds
<1>5. ASSUME cells[c] = None, NEW valid \in BOOLEAN,
             cells' = [cells EXCEPT ![c] = [valid |-> valid, context |-> job[p].context]],
             job' = [job EXCEPT ![p].pc = "progress", ![p].executed = @ + 1,
                       ![p].stopped = @ \cup Experiment!Gate(job[p].options, c[2].mechanism,
                                                             cells')],
             UNCHANGED holder
      PROVE  ExperimentInv'
    <2>0. PICK then : then = cells'
        OBVIOUS
    <2>1. PICK o \in Options, m \in Mechanisms :
            o = job[p].options /\ m = c[2].mechanism /\ then = cells'
        BY <1>3, <2>0, SlotsOfCells
    <2>2. PICK cell : /\ cell = [valid |-> valid, context |-> job[p].context]
                      /\ cell \in [valid : BOOLEAN, context : SharedContexts \cup {None}]
                      /\ cell.context = job[p].context
        <3> DEFINE cell == [valid |-> valid, context |-> job[p].context]
        <3>1. job[p].context \in SharedContexts \cup {None}
            BY <1>3 DEF Jobs
        <3>2. cell \in [valid : BOOLEAN, context : SharedContexts \cup {None}]
              /\ cell.context = job[p].context
            BY <3>1
        <3> HIDE DEF cell
        <3>3. \E x : x = cell
            OBVIOUS
        <3> QED
            BY <3>2 DEF cell
    <2>3. cells' = [cells EXCEPT ![c] = cell]
        BY <1>5, <2>2
    <2>4. /\ cells' \in [Experiment!Cells -> {None} \cup [valid : BOOLEAN,
                                                context : SharedContexts \cup {None}]]
          /\ cells'[c] = cell /\ \A d \in Experiment!Cells \ {c} : cells'[d] = cells[d]
        BY <2>2, <2>3 DEF ExperimentInv, ExperimentTypes
    <2>5. Gates(o, then) = job[p].stopped \cup Experiment!Gate(o, m, then)
        <3>1. PICK now : now = cells
            OBVIOUS
        <3>2. \A d \in Experiment!Cells : d[2].mechanism # m => now[d] = then[d]
            BY <2>1, <2>4, <3>1
        <3>3. Gates(o, now) = job[p].stopped /\ \A g \in Gates(o, now) : g.mechanism # m
            BY <1>2, <1>3, <2>1, <3>1
        <3> HIDE DEF Gates
        <3>4. Gates(o, then) = Gates(o, now) \cup Experiment!Gate(o, m, then)
            BY <3>2, <3>3, GatesOfOneMore
        <3> QED
            BY <3>3, <3>4
    <2> DEFINE j == [job[p] EXCEPT !.pc = "progress", !.executed = job[p].executed + 1,
                                   !.stopped = Gates(o, then)]
    <2>6. job' = [job EXCEPT ![p] = j]
        BY <1>5, <2>1, <2>5
    <2>7. j \in Jobs /\ j.pc = "progress" /\ j.options = o /\ j.stopped = Gates(o, then)
          /\ j.at = job[p].at
        <3>1. PICK stopped \in SUBSET GateRecords : stopped = Gates(o, then)
            BY GatesType
        <3> HIDE DEF Gates
        <3>2. job[p].executed + 1 \in Nat
            BY <1>3 DEF Jobs
        <3> QED
            BY <1>3, <2>1, <3>1, <3>2 DEF Jobs
    <2> HIDE DEF j
    <2>8. /\ job' \in [Procs -> Jobs] /\ job'[p] = j
          /\ \A q \in Procs \ {p} : job'[q] = job[q] /\ job[q].pc = "idle"
        BY <1>1, <2>6, <2>7, OthersIdle DEF ExperimentInv, ExperimentTypes
    <2>9. ExperimentTypes'
        BY <1>1, <2>4, <2>8 DEF ExperimentInv, ExperimentTypes
    <2>10. RunFits(p)'
        <3>1. Gates(job[p].options, cells)' = Gates(o, then)
            <4>1. job'[p].options = o /\ cells' = then
                BY <2>1, <2>7, <2>8
            <4> QED
                BY <4>1 DEF Gates, Experiment!Gate
        <3> HIDE DEF Gates
        <3> QED
            BY <1>3, <1>5, <2>1, <2>7, <2>8, <3>1 DEF RunFits
    <2>11. \A q \in Procs : RunFits(q)'
        BY <2>8, <2>10 DEF RunFits
    <2>12. CellsFit'
        <3>1. cell.context = BoundTo(c) /\ Bound(c)
            BY <1>1, <1>2, <2>2 DEF ExperimentInv, RunFits
        <3>2. \A d \in Experiment!Cells : BoundTo(d)' = BoundTo(d) /\ Bound(d)' = Bound(d)
            BY <1>1 DEF BoundTo, Bound
        <3> HIDE DEF Bound, BoundTo
        <3> QED
            BY <2>4, <3>1, <3>2 DEF ExperimentInv, CellsFit
    <2>13. SummaryFits'
        BY <1>1, <1>5 DEF ExperimentInv, SummaryFits, Experiment!Complete
    <2> QED
        BY <2>9, <2>11, <2>12, <2>13 DEF ExperimentInv
<1> QED
    BY <1>2, <1>4, <1>5 DEF Experiment!Attempt

LEMMA SummarizeStep ==
    ASSUME Experiment!PairedExperimentAssumption, ExperimentInv, NEW p \in Procs,
           Experiment!Summarize(p)
    PROVE  ExperimentInv'
<1>1. /\ job[p].pc \in {"progress", "summary"} /\ UNCHANGED <<cells, contexts>>
      /\ summary' = summary \/ (Experiment!Complete /\ summary' = Experiment!SummaryOf(p))
      /\ \/ Experiment!End(p)
         \/ /\ job' = [job EXCEPT ![p].pc = "next", ![p].context = None]
            /\ UNCHANGED holder
    BY DEF Experiment!Summarize
<1>2. /\ job[p] \in Jobs /\ job[p].options \in Options /\ job[p].at \in Nat \ {0}
      /\ job[p].stopped = Gates(job[p].options, cells) /\ holder = p
    BY <1>1, RunAt
<1>3. SummaryFits'
    <2>1. CASE summary' = summary
        BY <1>1, <2>1 DEF ExperimentInv, SummaryFits, Experiment!Complete, Gates
    <2>2. CASE Experiment!Complete /\ summary' = Experiment!SummaryOf(p)
        <3>1. /\ summary'.cells = cells' /\ summary'.options = job[p].options
              /\ summary'.stopped = Gates(job[p].options, cells)
            BY <1>1, <1>2, <2>2 DEF Experiment!SummaryOf
        <3>2. Gates(summary.options, cells)' = Gates(job[p].options, cells)
            BY <1>1, <3>1 DEF Gates, Experiment!Gate
        <3>3. Experiment!Complete'
            BY <1>1, <2>2 DEF Experiment!Complete
        <3> HIDE DEF Gates
        <3> QED
            BY <3>1, <3>2, <3>3 DEF SummaryFits
    <2> QED
        BY <1>1, <2>1, <2>2
<1>4. CellsFit'
    BY <1>1 DEF ExperimentInv, CellsFit, BoundTo, Bound
<1>5. ASSUME NEW j \in Jobs, job' = [job EXCEPT ![p] = j],
             \/ j.pc = "idle"
             \/ /\ j.pc = "next" /\ j.options = job[p].options
                /\ j.stopped = job[p].stopped /\ j.at = job[p].at /\ UNCHANGED holder
      PROVE  ExperimentInv'
    <2>1. /\ job' \in [Procs -> Jobs] /\ job'[p] = j
          /\ \A q \in Procs \ {p} : job'[q] = job[q] /\ job[q].pc = "idle"
        BY <1>1, <1>5, OthersIdle DEF ExperimentInv, ExperimentTypes
    <2>2. ExperimentTypes'
        BY <1>1, <2>1 DEF ExperimentInv, ExperimentTypes
    <2>3. RunFits(p)'
        <3>1. CASE j.pc = "idle"
            BY <2>1, <3>1 DEF RunFits
        <3>2. CASE /\ j.pc = "next" /\ j.options = job[p].options
                   /\ j.stopped = job[p].stopped /\ j.at = job[p].at /\ UNCHANGED holder
            <4>1. Gates(job[p].options, cells)' = Gates(job[p].options, cells)
                <5>1. job'[p].options = job[p].options
                    BY <2>1, <3>2
                <5> QED
                    BY <1>1, <5>1 DEF Gates, Experiment!Gate
            <4> HIDE DEF Gates
            <4> QED
                BY <1>2, <2>1, <3>2, <4>1 DEF RunFits
        <3> QED
            BY <1>5, <3>1, <3>2
    <2>4. \A q \in Procs : RunFits(q)'
        BY <2>1, <2>3 DEF RunFits
    <2> QED
        BY <1>3, <1>4, <2>2, <2>4 DEF ExperimentInv
<1>6. CASE Experiment!End(p)
    <2>1. Experiment!Idle \in Jobs /\ Experiment!Idle.pc = "idle"
        BY DEF Jobs, Experiment!Idle
    <2> QED
        BY <1>5, <1>6, <2>1 DEF Experiment!End
<1>7. CASE job' = [job EXCEPT ![p].pc = "next", ![p].context = None] /\ UNCHANGED holder
    <2> DEFINE j == [job[p] EXCEPT !.pc = "next", !.context = None]
    <2>1. job' = [job EXCEPT ![p] = j]
        BY <1>7
    <2>2. /\ j \in Jobs /\ j.pc = "next" /\ j.options = job[p].options
          /\ j.stopped = job[p].stopped /\ j.at = job[p].at
        BY <1>2 DEF Jobs
    <2> HIDE DEF j
    <2> QED
        BY <1>5, <1>7, <2>1, <2>2
<1> QED
    BY <1>1, <1>6, <1>7

LEMMA ExperimentNext ==
    ASSUME Experiment!PairedExperimentAssumption, ExperimentInv,
           [Experiment!Next]_(Experiment!vars)
    PROVE  ExperimentInv'
<1>1. ASSUME NEW p \in Procs, Experiment!Kill(p)
      PROVE  ExperimentInv'
    BY <1>1, RunEnds DEF Experiment!Kill
<1>2. CASE UNCHANGED Experiment!vars
    <2>1. UNCHANGED <<cells, contexts, summary, holder, job>>
        BY <1>2 DEF Experiment!vars
    <2> QED
        <3>1. ExperimentTypes'
            BY <2>1 DEF ExperimentInv, ExperimentTypes
        <3>2. CellsFit'
            BY <2>1 DEF ExperimentInv, CellsFit, BoundTo, Bound
        <3>3. \A o : Gates(o, cells)' = Gates(o, cells)
            BY <2>1 DEF Gates, Experiment!Gate
        <3>4. SummaryFits'
            <4> HIDE DEF Gates
            <4> QED
                BY <2>1, <3>3 DEF ExperimentInv, SummaryFits, Experiment!Complete
        <3>5. \A p \in Procs : RunFits(p)'
            <4> HIDE DEF Gates
            <4> QED
                BY <2>1, <3>3 DEF ExperimentInv, RunFits, BoundTo, Bound, Experiment!Stopped,
                   Experiment!Available
        <3> QED
            BY <3>1, <3>2, <3>4, <3>5 DEF ExperimentInv
<1> QED
    BY <1>1, <1>2, ExperimentStartStep, AdvanceStep, PrepareContextStep, BindContextStep,
       AttemptStep, SummarizeStep DEF Experiment!Next, Experiment!Step

\* What is on disk once is on disk for good, and a step of the experiment does not touch it.
LEMMA ExperimentKeeps ==
    ASSUME ExperimentInv, [Experiment!Next]_(Experiment!vars)
    PROVE  Experiment!KeepsEvidence
<1>1. CASE UNCHANGED Experiment!vars
    BY <1>1 DEF Experiment!vars, Experiment!KeepsEvidence
<1>2. ASSUME NEW p \in Procs, Experiment!Step(p) \/ Experiment!Kill(p)
      PROVE  Experiment!KeepsEvidence
    <2>1. cells' = cells
          \/ \E c \in {Experiment!Plan[job[p].at]} : \E x :
               cells[c] = None /\ cells' = [cells EXCEPT ![c] = x]
        BY <1>2 DEF Experiment!Step, Experiment!Kill, Experiment!Start, Experiment!Advance,
           Experiment!PrepareContext, Experiment!BindContext, Experiment!Attempt,
           Experiment!Summarize
    <2>2. \A c \in Experiment!Cells : cells[c] # None => cells'[c] = cells[c]
        BY <2>1 DEF ExperimentInv, ExperimentTypes
    <2>3. summary # None => summary' = summary
        BY <1>2 DEF Experiment!Step, Experiment!Kill, Experiment!Start, Experiment!Advance,
           Experiment!PrepareContext, Experiment!BindContext, Experiment!Attempt,
           Experiment!Summarize
    <2> QED
        BY <2>2, <2>3 DEF Experiment!KeepsEvidence
<1> QED
    BY <1>1, <1>2 DEF Experiment!Next

LEMMA ExperimentAgrees ==
    ASSUME ExperimentInv
    PROVE  Experiment!PairsShareTheirContext /\ Experiment!SummaryIsReproduced
<1>1. ASSUME NEW c \in Experiment!Cells, NEW d \in Experiment!Cells,
             Experiment!SlotOf(c) = Experiment!SlotOf(d), cells[c] # None, cells[d] # None
      PROVE  cells[c].context = cells[d].context /\ Experiment!Loads(c)
    <2>1. /\ cells[c].context = BoundTo(c) /\ cells[d].context = BoundTo(d)
        BY <1>1 DEF ExperimentInv, CellsFit
    <2>2. c[2].mechanism = d[2].mechanism
        BY <1>1 DEF Experiment!SlotOf
    <2> QED
        BY <1>1, <2>1, <2>2 DEF BoundTo, Experiment!Loads
<1>2. ASSUME NEW p \in Procs, job[p].pc = "summary", summary \notin {None, Torn},
             job[p].options = summary.options
      PROVE  Experiment!Matches(p)
    BY <1>2, RunAt DEF ExperimentInv, SummaryFits, Experiment!Matches
<1> QED
    BY <1>1, <1>2 DEF Experiment!PairsShareTheirContext, Experiment!SummaryIsReproduced

-----------------------------------------------------------------------------
(* The local students.                                                     *)

Raws == Student!AnswerRecords
Kinds == {"plan", "attempt", "canonical", "grounded", "critic", "candidate"}
Results == {"generated", "unresolved", "structural-rejected", "structural-valid", "canonicalized",
            "selector-grounded", "accepted", "rejected"}
Reasons ==
    {"none", "unresolved", "eval-infra"}
        \cup UNION {{t[x].reason : x \in DOMAIN t} : t \in Student!Tables}

Entries == [cell : Nat, candidate : Nat, kind : Kinds, answer : {None} \cup Raws]
Logs == {l \in [trace : Seq(Entries), results : Seq(Results)] : Len(l.trace) = Len(l.results)}
Tries == [valid : BOOLEAN, reason : Reasons, raw : {None} \cup Raws]

\* Answers of the family.
Answerable == {a \in Raws : a.flaw = "none" \/ a.flaw \in DOMAIN Student!Checks}

Generating == {"decode", "rejected", "critic", "return"}
Drawn == {"rejected", "critic", "return"}
Trying == Generating \cup {"call", "render"}

StudentTypes ==
    /\ setup \in [family : Families, round : Rounds, shared : BOOLEAN, critic : BOOLEAN,
                  planned : BOOLEAN]
    /\ setup.shared => setup.family \in Student!Shareable
    /\ place \in [cell : Nat, candidate : Nat, repair : Nat]
    /\ drawn \in {None} \cup Answerable
    /\ call \in Logs /\ gen \in Logs /\ agg \in Logs
    /\ attempts \in Seq(Tries)

\* The flaws that the generator rejects.
Rejecting ==
    {x \in DOMAIN Student!Checks : /\ Student!Checks[x].gate \in {"repair", "final"}
                                   /\ setup.round >= Student!Checks[x].from}

\* A log of one candidate of one cell, and the end of it for what is returned.
Single(l, c, k) ==
    \A n \in 1 .. Len(l.trace) : l.trace[n].cell = c /\ l.trace[n].candidate = k
EndsIn(l, r, rejecting) ==
    /\ Len(l.trace) # 0
    /\ l.results[Len(l.trace)] = "structural-rejected" => r.flaw \in rejecting
    /\ IF l.results[Len(l.trace)] = "rejected" THEN r.flaw = "prose"
       ELSE Student!Completed(l.trace[Len(l.trace)].answer) = Student!Completed(r)

\* Attempt t is made of an answer, unless the critic refused that, and then is no edit.  Of
\* an answer that the generator rejected it is one only when the adapter does not check it.
Made(a, status, t) ==
    /\ IF status = "rejected" THEN ~t.valid ELSE Student!Completed(a) = t.raw
    /\ status = "structural-rejected" /\ t.valid => t.raw.flaw \in Student!Unrepeated

\* The last entry of candidate k of cell c is what its attempt t is made of.
EndsAt(n, trace, c, k) ==
    /\ trace[n].cell = c /\ trace[n].candidate = k
    /\ \A m \in 1 .. Len(trace) : trace[m].cell = c /\ trace[m].candidate = k => m <= n
Traced(trace, results, c, k, t) ==
    \E n \in 1 .. Len(trace) : EndsAt(n, trace, c, k) /\ Made(trace[n].answer, results[n], t)

CallFits ==
    /\ step \in Generating => Single(call, place.cell, place.candidate)
    /\ step \in Drawn => drawn # None /\ EndsIn(call, drawn, Rejecting)

\* The log that the generator keeps may be that of an earlier candidate, or cell.
GenOf(c, k) ==
    /\ Single(gen, c, k)
    /\ Len(gen.trace) # 0 /\ c = place.cell /\ k \in DOMAIN attempts /\ attempts[k].raw # None
          => Made(gen.trace[Len(gen.trace)].answer, gen.results[Len(gen.trace)], attempts[k])
GenFits ==
    /\ \E c, k \in Nat : GenOf(c, k)
    /\ step = "render" /\ drawn # None =>
          Single(gen, place.cell, place.candidate) /\ EndsIn(gen, drawn, Rejecting)

\* Attempts are numbered by their candidates and made of the traces kept for them.
AttemptsFit ==
    /\ step \in Trying =>
          /\ Len(attempts) = IF place.candidate = 0 THEN 0 ELSE place.candidate - 1
          /\ ~setup.shared => place.candidate = 1
    /\ step = "select" => setup.shared
    /\ \A i \in DOMAIN attempts :
          /\ attempts[i].valid => attempts[i].raw # None
          /\ setup.shared /\ attempts[i].valid => attempts[i].raw.flaw # "moved"
          /\ setup.shared /\ attempts[i].raw # None =>
                Traced(agg.trace, agg.results, place.cell, i, attempts[i])
          /\ ~setup.shared /\ attempts[i].raw # None /\ step = "freeze" =>
                Traced(gen.trace, gen.results, place.cell, i, attempts[i])

\* The operator family keeps nothing of another cell.
OfCell(l) == \A n \in 1 .. Len(l.trace) : l.trace[n].cell = place.cell
OperatorFits ==
    setup.family = "operator" => OfCell(agg) /\ (step \notin {"idle", "call"} => OfCell(gen))

ValidOf(tries) == {i \in DOMAIN tries : tries[i].valid}
Chosen(tries, i) ==
    IF i = 0 THEN ValidOf(tries) = {}
    ELSE i \in ValidOf(tries) /\ \A j \in ValidOf(tries) : tries[i].raw.size <= tries[j].raw.size

\* What is frozen stays what it was when it was frozen.
FrozenFits ==
    frozen # None =>
        /\ frozen.trace \in Seq(Entries) /\ Len(frozen.results) = Len(frozen.trace)
        /\ \A i \in DOMAIN frozen.attempts :
              /\ frozen.attempts[i].valid => frozen.attempts[i].raw # None
              /\ frozen.attempts[i].raw # None =>
                    Traced(frozen.trace, frozen.results, frozen.cell, i, frozen.attempts[i])
              /\ setup.shared /\ frozen.attempts[i].valid => frozen.attempts[i].raw.flaw # "moved"
        /\ setup.family = "operator" =>
              \A n \in 1 .. Len(frozen.trace) : frozen.trace[n].cell = frozen.cell
        /\ setup.shared => Chosen(frozen.attempts, frozen.chosen)

StudentInv ==
    StudentTypes /\ CallFits /\ GenFits /\ AttemptsFit /\ OperatorFits /\ FrozenFits

\* A text without a plan is no edit in any family.
LEMMA ProseIsNoEdit ==
    ASSUME NEW t \in Student!Tables
    PROVE  "prose" \in DOMAIN t /\ t["prose"].reason = "reasoning-only" /\ t["prose"].since = 0
<1>1. /\ Student!Adapter("reasoning-only").reason = "reasoning-only"
      /\ Student!Adapter("reasoning-only").since = 0
      /\ Student!Both("reasoning-only").reason = "reasoning-only"
      /\ Student!Both("reasoning-only").since = 0
    BY DEF Student!Adapter, Student!Both, Student!Check
<1>2. CASE t = Student!StructuredChecks
    BY <1>1, <1>2 DEF Student!StructuredChecks
<1>3. CASE t = Student!HunkChecks
    BY <1>1, <1>3 DEF Student!HunkChecks
<1>4. CASE t = Student!SymbolChecks
    BY <1>1, <1>4 DEF Student!SymbolChecks
<1>5. CASE t = Student!BlockChecks
    BY <1>1, <1>5 DEF Student!BlockChecks
<1>6. CASE t = Student!OperatorChecks
    BY <1>1, <1>6 DEF Student!OperatorChecks
<1>7. CASE t = Student!SpanChecks
    BY <1>1, <1>7 DEF Student!SpanChecks
<1> QED
    BY <1>2, <1>3, <1>4, <1>5, <1>6, <1>7 DEF Student!Tables

\* What a generator rejects, its adapter rejects too, but for what it does not check.
Repeated(t) ==
    \A x \in DOMAIN t \ Student!Unrepeated :
        t[x].gate \in {"repair", "final"} => t[x].reason # "none" /\ t[x].since <= t[x].from

LEMMA ChecksAreRepeated ==
    ASSUME NEW t \in Student!Tables PROVE Repeated(t)
<1>1. CASE t = Student!StructuredChecks
    BY <1>1 DEF Repeated, Student!StructuredChecks, Student!Unrepeated, Student!Adapter,
       Student!Both, Student!Later, Student!Check
<1>2. CASE t = Student!HunkChecks
    BY <1>2 DEF Repeated, Student!HunkChecks, Student!Adapter, Student!Check
<1>3. CASE t = Student!SymbolChecks
    BY <1>3 DEF Repeated, Student!SymbolChecks, Student!Adapter, Student!Check
<1>4. CASE t = Student!BlockChecks
    BY <1>4 DEF Repeated, Student!BlockChecks, Student!Adapter, Student!Check
<1>5. CASE t = Student!OperatorChecks
    BY <1>5 DEF Repeated, Student!OperatorChecks, Student!Adapter, Student!Both,
       Student!Later, Student!Check
<1>6. CASE t = Student!SpanChecks
    BY <1>6 DEF Repeated, Student!SpanChecks, Student!Unrepeated, Student!Adapter,
       Student!Both, Student!Later, Student!Check
<1> QED
    BY <1>1, <1>2, <1>3, <1>4, <1>5, <1>6 DEF Student!Tables

Numbered(t) ==
    "none" \notin DOMAIN t /\ \A x \in DOMAIN t : t[x].from \in Nat /\ t[x].since \in Nat

LEMMA ChecksAreNumbered ==
    ASSUME NEW t \in Student!Tables PROVE Numbered(t)
<1>1. CASE t = Student!StructuredChecks
    BY <1>1 DEF Numbered, Student!StructuredChecks, Student!Adapter, Student!Check,
       Student!Both, Student!Later
<1>2. CASE t = Student!HunkChecks
    BY <1>2 DEF Numbered, Student!HunkChecks, Student!Adapter, Student!Check
<1>3. CASE t = Student!SymbolChecks
    BY <1>3 DEF Numbered, Student!SymbolChecks, Student!Adapter, Student!Check
<1>4. CASE t = Student!BlockChecks
    BY <1>4 DEF Numbered, Student!BlockChecks, Student!Adapter, Student!Check
<1>5. CASE t = Student!OperatorChecks
    BY <1>5 DEF Numbered, Student!OperatorChecks, Student!Adapter, Student!Check,
       Student!Both, Student!Later
<1>6. CASE t = Student!SpanChecks
    BY <1>6 DEF Numbered, Student!SpanChecks, Student!Adapter, Student!Check,
       Student!Both, Student!Later
<1> QED
    BY <1>1, <1>2, <1>3, <1>4, <1>5, <1>6 DEF Student!Tables

LEMMA TableOfFamily ==
    ASSUME Student!StudentAttemptsAssumption, setup.family \in Families
    PROVE  Student!Checks \in Student!Tables
<1>1. setup.family \in {"structured", "hunk", "symbol", "block", "operator", "span"}
    BY DEF Student!StudentAttemptsAssumption
<1> QED
    BY <1>1 DEF Student!Checks, Student!family, Student!Tables

LEMMA LessIsWellFounded == IsWellFoundedOn({ss \in Nat \X Nat : ss[1] < ss[2]}, Nat)
<1>1. OpToRel(<, Nat) = {ss \in Nat \X Nat : ss[1] < ss[2]}
    BY Zenon DEF OpToRel
<1> QED
    BY <1>1, NatLessThanWellFounded, Zenon

\* The smallest of some numbers is one of them.
LEMMA LeastOf ==
    ASSUME NEW S \in SUBSET Nat, S # {}
    PROVE  \E n \in S : \A m \in S : n <= m
<1> DEFINE R == {ss \in Nat \X Nat : ss[1] < ss[2]}
<1>1. PICK n \in S : \A m \in S : ~(<<m, n>> \in R)
    <2> HIDE DEF R
    <2> QED
        BY LessIsWellFounded, WFMin, Zenon DEF R
<1>2. ASSUME NEW m \in S
      PROVE  n <= m
    <2>1. <<m, n>> \in Nat \X Nat /\ <<m, n>>[1] = m /\ <<m, n>>[2] = n
        OBVIOUS
    <2>2. ~(<<m, n>>[1] < <<m, n>>[2])
        BY <1>1, <2>1
    <2>3. m \in Nat /\ n \in Nat
        OBVIOUS
    <2> HIDE DEF R
    <2> QED
        BY <2>1, <2>2, <2>3
<1> QED
    BY <1>2

LEMMA AnswersType ==
    ASSUME Student!StudentAttemptsAssumption, StudentTypes, NEW a \in Student!Answers
    PROVE  a \in Answerable
<1>1. Student!Checks \in Student!Tables
    BY TableOfFamily DEF StudentTypes
<1>2. Sizes \in SUBSET Nat /\ Sizes # {}
    BY DEF Student!StudentAttemptsAssumption
<1>3. Student!Min(Sizes) \in Nat
    <2>1. \E n \in Sizes : \A m \in Sizes : n <= m
        BY <1>2, LeastOf
    <2> QED
        BY <1>2, <2>1 DEF Student!Min
<1>4. [flaw : {"none"}, size : Sizes,
       short : IF Student!family \in Student!Shareable THEN BOOLEAN ELSE {FALSE}]
        \subseteq Answerable
    BY <1>2 DEF Answerable, Raws, Student!AnswerRecords
<1>5. CASE \E x \in Student!Flaws : a = Student!Answer(x, Student!Min(Sizes), FALSE)
    <2>1. PICK x \in DOMAIN Student!Checks : a = Student!Answer(x, Student!Min(Sizes), FALSE)
        BY <1>5 DEF Student!Flaws
    <2>2. x \in UNION {DOMAIN t : t \in Student!Tables}
        BY <1>1
    <2>3. Student!Answer(x, Student!Min(Sizes), FALSE) \in Raws
        BY <1>3, <2>2 DEF Student!Answer, Raws, Student!AnswerRecords
    <2>4. Student!Answer(x, Student!Min(Sizes), FALSE).flaw = x
        BY DEF Student!Answer
    <2> QED
        BY <2>1, <2>3, <2>4 DEF Answerable
<1> QED
    BY <1>4, <1>5 DEF Student!Answers

LEMMA CompletedAnswer ==
    ASSUME NEW a \in Raws
    PROVE  /\ Student!Completed(a) \in Raws /\ Student!Completed(a).flaw = a.flaw
           /\ Student!Completed(a).size = a.size
           /\ Student!Completed(Student!Completed(a)) = Student!Completed(a)
           /\ a \in Answerable => Student!Completed(a) \in Answerable
BY DEF Raws, Student!AnswerRecords, Student!Completed, Answerable

LEMMA AnswerableStays ==
    ASSUME setup' = setup
    PROVE  Answerable' = Answerable
<1>1. Student!Checks' = Student!Checks
    BY DEF Student!Checks, Student!family
<1> QED
    BY <1>1 DEF Answerable

LEMMA RejectingStays ==
    ASSUME setup' = setup
    PROVE  Rejecting' = Rejecting
<1>1. Student!Checks' = Student!Checks
    BY DEF Student!Checks, Student!family
<1> QED
    BY <1>1 DEF Rejecting

LEMMA StatusOfAnswer ==
    ASSUME NEW a
    PROVE  Student!Status(a) \in Results \ {"rejected"}
BY DEF Student!Status, Results

LEMMA RejectedAnswer ==
    ASSUME NEW a \in Answerable, Student!Status(a) = "structural-rejected"
    PROVE  a.flaw \in Rejecting
<1>1. Student!Rejects(a)
    BY DEF Student!Status
<1> QED
    BY <1>1 DEF Student!Rejects, Student!Applies, Answerable, Rejecting

\* Log m is log l with one more entry and its result.
OneMore(l, m, e, status) ==
    /\ Len(m.trace) = Len(l.trace) + 1 /\ Len(l.trace) \in Nat
    /\ \A n \in 1 .. Len(l.trace) : m.trace[n] = l.trace[n] /\ m.results[n] = l.results[n]
    /\ m.trace[Len(m.trace)] = e /\ m.results[Len(m.trace)] = status

LEMMA LogGrows ==
    ASSUME NEW l \in Logs, NEW kind \in Kinds, NEW a \in {None} \cup Raws,
           NEW status \in Results, place \in [cell : Nat, candidate : Nat, repair : Nat]
    PROVE  /\ Student!Log(l, kind, a, status) \in Logs
           /\ OneMore(l, Student!Log(l, kind, a, status), Student!Entry(kind, a), status)
           /\ Student!Entry(kind, a).cell = place.cell /\ Student!Entry(kind, a).answer = a
           /\ Student!Entry(kind, a).candidate = place.candidate
<1>0. PICK m : m = Student!Log(l, kind, a, status)
    OBVIOUS
<1>1. PICK e \in Entries : /\ e = Student!Entry(kind, a) /\ e.cell = place.cell
                          /\ e.candidate = place.candidate /\ e.answer = a
    <2>1. Student!Entry(kind, a) \in Entries
        BY DEF Entries, Student!Entry
    <2>2. /\ Student!Entry(kind, a).cell = place.cell /\ Student!Entry(kind, a).answer = a
          /\ Student!Entry(kind, a).candidate = place.candidate
        BY DEF Student!Entry
    <2> QED
        BY <2>1, <2>2
<1>2. m = [trace |-> Append(l.trace, e), results |-> Append(l.results, status)]
    BY <1>0, <1>1 DEF Student!Log
<1>3. l.trace \in Seq(Entries) /\ l.results \in Seq(Results) /\ Len(l.trace) = Len(l.results)
    BY DEF Logs
<1>4. m.trace = Append(l.trace, e) /\ m.results = Append(l.results, status)
    BY <1>2
<1>5. /\ m.trace \in Seq(Entries) /\ m.results \in Seq(Results)
      /\ Len(m.trace) = Len(l.trace) + 1 /\ Len(m.results) = Len(l.trace) + 1
      /\ \A n \in 1 .. Len(l.trace) : m.trace[n] = l.trace[n] /\ m.results[n] = l.results[n]
      /\ m.trace[Len(m.trace)] = e /\ m.results[Len(m.trace)] = status
    BY <1>3, <1>4
<1>6. m \in [trace : Seq(Entries), results : Seq(Results)]
    BY <1>2, <1>4, <1>5
<1> QED
    BY <1>0, <1>1, <1>3, <1>5, <1>6 DEF Logs, OneMore

\* An entry of the candidate in progress.
LEMMA LogOfCandidate ==
    ASSUME NEW l \in Logs, NEW kind \in Kinds, NEW a \in {None} \cup Raws,
           NEW status \in Results, place \in [cell : Nat, candidate : Nat, repair : Nat],
           Single(l, place.cell, place.candidate)
    PROVE  /\ Student!Log(l, kind, a, status) \in Logs
           /\ Single(Student!Log(l, kind, a, status), place.cell, place.candidate)
           /\ \A r, rejecting : EndsIn(Student!Log(l, kind, a, status), r, rejecting) <=>
                 /\ status = "structural-rejected" => r.flaw \in rejecting
                 /\ IF status = "rejected" THEN r.flaw = "prose"
                    ELSE Student!Completed(a) = Student!Completed(r)
<1>1. PICK m, e : /\ m = Student!Log(l, kind, a, status) /\ m \in Logs
                  /\ OneMore(l, m, e, status)
                  /\ e.cell = place.cell /\ e.candidate = place.candidate /\ e.answer = a
    <2>1. PICK m, e : m = Student!Log(l, kind, a, status) /\ e = Student!Entry(kind, a)
        OBVIOUS
    <2> QED
        BY <2>1, LogGrows
<1>2. Single(m, place.cell, place.candidate)
    <2>1. ASSUME NEW n \in 1 .. Len(m.trace)
          PROVE  m.trace[n].cell = place.cell /\ m.trace[n].candidate = place.candidate
        <3>1. n \in 1 .. Len(l.trace) \/ n = Len(m.trace)
            BY <1>1 DEF OneMore
        <3> QED
            BY <1>1, <3>1 DEF Single, OneMore
    <2> QED
        BY <2>1 DEF Single
<1>3. \A r, rejecting : EndsIn(m, r, rejecting) <=>
         /\ status = "structural-rejected" => r.flaw \in rejecting
         /\ IF status = "rejected" THEN r.flaw = "prose"
            ELSE Student!Completed(a) = Student!Completed(r)
    BY <1>1 DEF EndsIn, OneMore
<1> QED
    BY <1>1, <1>2, <1>3

LEMMA EmptyLog ==
    /\ Student!Nothing \in Logs /\ Len(Student!Nothing.trace) = 0
    /\ \A c, k : Single(Student!Nothing, c, k)
<1>1. Student!Nothing.trace = << >> /\ Student!Nothing.results = << >>
    BY DEF Student!Nothing
<1>2. << >> \in Seq(Entries) /\ << >> \in Seq(Results) /\ Len(<< >>) = 0
    OBVIOUS
<1>3. Student!Nothing \in [trace : Seq(Entries), results : Seq(Results)]
    BY <1>2 DEF Student!Nothing
<1> QED
    BY <1>1, <1>2, <1>3 DEF Logs, Single

LEMMA FrozenStays ==
    ASSUME FrozenFits, setup' = setup, frozen' = frozen
    PROVE  FrozenFits'
BY DEF FrozenFits

Places == [cell : Nat, candidate : Nat, repair : Nat]

\* The attempts and the logs that are kept stay, and so do the cell and the candidate.
Kept == /\ setup' = setup /\ Rejecting' = Rejecting /\ agg' = agg /\ attempts' = attempts /\ frozen' = frozen
        /\ place' \in Places /\ place'.cell = place.cell /\ place'.candidate = place.candidate

LEMMA GenStays ==
    ASSUME Kept, gen' = gen, \E c, k \in Nat : GenOf(c, k)
    PROVE  \E c, k \in Nat : GenOf(c, k)'
BY DEF GenOf, Kept

LEMMA AttemptsStay ==
    ASSUME Kept, AttemptsFit, step' \in Trying => step \in Trying, step' \notin {"select", "freeze"}
    PROVE  AttemptsFit'
BY DEF AttemptsFit, Kept

LEMMA OperatorStays ==
    ASSUME Kept, gen' = gen, OperatorFits,
           step' \notin {"idle", "call"} => step \notin {"idle", "call"}
    PROVE  OperatorFits'
BY DEF OperatorFits, OfCell, Kept

\* A step within the call of the generator, which may end it with nothing.
LEMMA GeneratorStep ==
    ASSUME StudentInv, Kept, gen' = gen, step \in Generating,
           step' \in Generating \cup {"render"}, drawn' \in {None} \cup Answerable, call' \in Logs,
           CallFits', step' = "render" => drawn' = None
    PROVE  StudentInv'
<1>1. StudentTypes'
    BY AnswerableStays DEF StudentInv, StudentTypes, Kept, Places
<1>2. GenFits'
    <2>1. \E c, k \in Nat : GenOf(c, k)'
        BY GenStays DEF StudentInv, GenFits
    <2> QED
        BY <2>1 DEF GenFits
<1>3. AttemptsFit'
    BY AttemptsStay DEF StudentInv, Generating, Trying
<1>4. OperatorFits'
    BY OperatorStays DEF StudentInv, Generating
<1>5. FrozenFits'
    BY FrozenStays DEF StudentInv, Kept
<1> QED
    BY <1>1, <1>2, <1>3, <1>4, <1>5 DEF StudentInv

LEMMA StudentFacts ==
    ASSUME StudentInv
    PROVE  /\ place \in Places /\ drawn \in {None} \cup Answerable
           /\ drawn \in {None} \cup Raws /\ call \in Logs /\ gen \in Logs
           /\ agg \in Logs /\ attempts \in Seq(Tries) /\ StudentTypes
           /\ step \in Generating => Single(call, place.cell, place.candidate)
           /\ step \in Drawn => drawn # None /\ EndsIn(call, drawn, Rejecting)
BY DEF StudentInv, StudentTypes, Places, CallFits, Answerable

\* A step that leaves the place, or only counts one repair more.
LEMMA RepairStep ==
    ASSUME StudentInv, UNCHANGED place \/ place' = [place EXCEPT !.repair = @ + 1],
           setup' = setup, agg' = agg, attempts' = attempts, frozen' = frozen
    PROVE  Kept
BY StudentFacts, RejectingStays DEF Kept, Places

LEMMA DecodeStep ==
    ASSUME Student!StudentAttemptsAssumption, StudentInv, Student!Decode
    PROVE  StudentInv'
<1>1. PICK a \in Student!Answers, status \in Results :
         /\ status = Student!Status(IF Student!Gated THEN Student!Completed(a) ELSE a)
         /\ call' = Student!LogAnswer(call, a, status)
         /\ drawn' = IF setup.family = "operator" THEN Student!Completed(a) ELSE a
         /\ step' = CASE status = "structural-rejected" -> "rejected"
                      [] status = "structural-valid" /\ setup.critic -> "critic"
                      [] OTHER -> "return"
    BY StatusOfAnswer DEF Student!Decode, Student!family
<1>2. a \in Raws /\ drawn' \in Answerable /\ drawn' \in Raws /\ status \in Results \ {"rejected"}
    BY <1>1, AnswersType, CompletedAnswer, StatusOfAnswer, StudentFacts DEF Answerable
<1>3. step = "decode" /\ step' \in Drawn /\ step' # "render"
    BY <1>1 DEF Student!Decode, Drawn
<1>4. Kept /\ gen' = gen /\ UNCHANGED place
    BY RepairStep DEF Student!Decode
<1>5. /\ call' \in Logs /\ Single(call', place.cell, place.candidate)
      /\ EndsIn(call', drawn', Rejecting)
    <2>0. /\ call \in Logs /\ place \in [cell : Nat, candidate : Nat, repair : Nat]
          /\ Single(call, place.cell, place.candidate)
          /\ {"attempt", "canonical"} \subseteq Kinds
          /\ "canonicalized" \in Results /\ "canonicalized" # "structural-rejected"
        BY <1>3, StudentFacts DEF Generating, Places, Kinds, Results
    <2>3. status = "structural-rejected" => drawn'.flaw \in Rejecting
        <3>1. PICK b \in {a, Student!Completed(a)} : status = Student!Status(b)
            BY <1>1
        <3>2. b \in Answerable /\ b.flaw = a.flaw /\ drawn'.flaw = a.flaw
            BY <1>1, <1>2, AnswersType, CompletedAnswer, StudentFacts
        <3> QED
            BY <3>1, <3>2, RejectedAnswer
    <2>1. CASE setup.family = "operator" /\ a.short
        <3>1. PICK l : l = Student!Log(call, "attempt", a, "canonicalized")
            OBVIOUS
        <3>2. call' = Student!Log(l, "canonical", Student!Completed(a), status)
            BY <1>1, <2>1, <3>1 DEF Student!LogAnswer, Student!family
        <3>3. l \in Logs /\ Single(l, place.cell, place.candidate)
            BY <1>2, <2>0, <3>1, LogOfCandidate
        <3>4. Student!Completed(a) \in Raws /\ drawn' = Student!Completed(a)
            BY <1>1, <1>2, <2>1, CompletedAnswer
        <3> QED
            BY <1>2, <2>0, <2>3, <3>2, <3>3, <3>4, LogOfCandidate
    <2>2. CASE ~(setup.family = "operator" /\ a.short)
        <3>1. call' = Student!Log(call, "attempt", a, status)
            BY <1>1, <2>2 DEF Student!LogAnswer, Student!family
        <3>2. Student!Completed(a) = Student!Completed(drawn')
            BY <1>1, <1>2, CompletedAnswer
        <3> QED
            BY <1>2, <2>0, <2>3, <3>1, <3>2, LogOfCandidate
    <2> QED
        BY <2>1, <2>2
<1>6. drawn' # None
    BY <1>2 DEF Student!StudentAttemptsAssumption, Raws
<1>7. CallFits'
    BY <1>3, <1>4, <1>5, <1>6 DEF CallFits, Drawn, Kept
<1> QED
    BY <1>2, <1>3, <1>4, <1>5, <1>7, GeneratorStep DEF Generating, Drawn

LEMMA GroundStep ==
    ASSUME Student!StudentAttemptsAssumption, StudentInv, Student!Ground
    PROVE  StudentInv'
<1>1. PICK a \in Student!Answers :
         call' = Student!Log(call, "grounded", a, "selector-grounded") /\ drawn' = a
    BY DEF Student!Ground
<1>2. a \in Answerable /\ a \in Raws /\ a # None
    BY AnswersType, StudentFacts DEF Student!StudentAttemptsAssumption, Raws, Answerable
<1>3. step = "rejected" /\ step' = "return" /\ Kept /\ gen' = gen /\ UNCHANGED place
    BY RepairStep DEF Student!Ground
<1>4. call' \in Logs /\ Single(call', place.cell, place.candidate) /\ EndsIn(call', drawn', Rejecting)
    <2>1. /\ call \in Logs /\ place \in [cell : Nat, candidate : Nat, repair : Nat]
          /\ Single(call, place.cell, place.candidate)
          /\ "grounded" \in Kinds /\ "selector-grounded" \in Results
        BY <1>3, StudentFacts DEF Generating, Places, Kinds, Results
    <2> QED
        BY <1>1, <1>2, <2>1, LogOfCandidate
<1>5. CallFits'
    BY <1>1, <1>2, <1>3, <1>4 DEF CallFits, Kept
<1> QED
    BY <1>1, <1>2, <1>3, <1>4, <1>5, GeneratorStep DEF Generating

\* A rejected answer is asked for again, or returned.
LEMMA RejectedStep ==
    ASSUME StudentInv, Student!Replan \/ Student!GiveUp
    PROVE  StudentInv'
<1>1. /\ step = "rejected" /\ step' \in {"decode", "return"} /\ drawn' = drawn /\ call' = call
      /\ UNCHANGED place \/ place' = [place EXCEPT !.repair = @ + 1]
      /\ setup' = setup /\ gen' = gen /\ agg' = agg /\ attempts' = attempts /\ frozen' = frozen
    BY DEF Student!Replan, Student!GiveUp, Student!AskAgain
<1>2. Kept
    BY <1>1, RepairStep
<1>3. CallFits'
    BY <1>1, <1>2, StudentFacts DEF CallFits, Kept, Generating, Drawn
<1> QED
    BY <1>1, <1>2, <1>3, GeneratorStep, StudentFacts DEF Generating

LEMMA CriticizeStep ==
    ASSUME Student!StudentAttemptsAssumption, StudentInv, Student!Criticize
    PROVE  StudentInv'
<1>1. PICK accepted \in BOOLEAN :
         /\ call' = Student!Log(call, "critic", drawn,
                                IF accepted THEN "accepted" ELSE "rejected")
         /\ \/ /\ ~accepted /\ step' = "decode" /\ drawn' = drawn
               /\ place' = [place EXCEPT !.repair = @ + 1]
            \/ /\ drawn' = IF accepted THEN drawn ELSE [drawn EXCEPT !.flaw = "prose"]
               /\ step' = "return" /\ UNCHANGED place
    BY DEF Student!Criticize, Student!AskAgain
<1>2. /\ step = "critic" /\ gen' = gen /\ drawn \in Answerable /\ drawn \in Raws /\ Kept
      /\ step' \in {"decode", "return"}
    BY <1>1, RepairStep, StudentFacts DEF Student!Criticize, Drawn
<1>3. PICK status \in {"accepted", "rejected"} :
         status = IF accepted THEN "accepted" ELSE "rejected"
    OBVIOUS
<1>4. /\ call' \in Logs /\ Single(call', place.cell, place.candidate)
      /\ \A r : EndsIn(call', r, Rejecting) <=> IF status = "rejected" THEN r.flaw = "prose"
                                    ELSE Student!Completed(drawn) = Student!Completed(r)
    <2>1. /\ call \in Logs /\ place \in [cell : Nat, candidate : Nat, repair : Nat]
          /\ Single(call, place.cell, place.candidate)
          /\ "critic" \in Kinds /\ status \in Results /\ drawn \in {None} \cup Raws
        BY <1>2, <1>3, StudentFacts DEF Generating, Places, Kinds, Results
    <2>2. call' = Student!Log(call, "critic", drawn, status)
        BY <1>1, <1>3
    <2> QED
        BY <2>1, <2>2, LogOfCandidate
<1>5. drawn' \in Answerable /\ (step' = "return" => EndsIn(call', drawn', Rejecting))
    <2>1. Student!Checks \in Student!Tables /\ "prose" \in DOMAIN Student!Checks
        BY ProseIsNoEdit, TableOfFamily, StudentFacts DEF StudentTypes
    <2>2. /\ [drawn EXCEPT !.flaw = "prose"] \in Answerable
          /\ [drawn EXCEPT !.flaw = "prose"].flaw = "prose"
        BY <1>2, <2>1 DEF Raws, Student!AnswerRecords, Answerable
    <2> QED
        BY <1>1, <1>2, <1>3, <1>4, <2>2
<1>6. drawn' # None
    BY <1>5 DEF Student!StudentAttemptsAssumption, Raws, Answerable
<1>7. CallFits'
    BY <1>2, <1>4, <1>5, <1>6 DEF CallFits, Kept, Generating, Drawn
<1> QED
    BY <1>2, <1>4, <1>5, <1>7, GeneratorStep DEF Generating

LEMMA TransportStep ==
    ASSUME StudentInv, Student!TransportFails
    PROVE  StudentInv'
<1>1. /\ step \in {"decode", "critic"} /\ step' = "render" /\ drawn' = None
      /\ call' = Student!Nothing /\ gen' = gen /\ Kept
    BY RepairStep DEF Student!TransportFails
<1>2. CallFits'
    BY <1>1 DEF CallFits, Generating, Drawn
<1> QED
    BY <1>1, <1>2, EmptyLog, GeneratorStep DEF Generating

\* The generator keeps the log of the call.
LEMMA ReturnStep ==
    ASSUME StudentInv, Student!Return
    PROVE  StudentInv'
<1>1. /\ step = "return" /\ step' = "render" /\ gen' = call /\ call' = Student!Nothing
      /\ drawn' = drawn /\ Kept
    BY RepairStep DEF Student!Return
<1>2. /\ Single(call, place.cell, place.candidate) /\ EndsIn(call, drawn, Rejecting)
      /\ call \in Logs /\ place \in Places /\ attempts \in Seq(Tries)
    BY <1>1, StudentFacts DEF Generating, Drawn
<1>3. StudentTypes'
    BY <1>1, <1>2, EmptyLog, AnswerableStays DEF StudentInv, StudentTypes, Kept, Places
<1>4. GenFits'
    <2>1. Len(attempts) = IF place.candidate = 0 THEN 0 ELSE place.candidate - 1
        BY <1>1 DEF StudentInv, AttemptsFit, Trying, Generating
    <2>2. place.cell \in Nat /\ place.candidate \in Nat /\ place.candidate \notin DOMAIN attempts
        BY <1>2, <2>1 DEF Places
    <2>3. GenOf(place.cell, place.candidate)'
        BY <1>1, <1>2, <2>2 DEF GenOf, Kept
    <2>4. \E c, k \in Nat : GenOf(c, k)'
        BY <1>1, <2>2, <2>3 DEF Kept
    <2> QED
        BY <1>1, <1>2, <2>4 DEF GenFits, Kept
<1>5. AttemptsFit'
    BY <1>1, AttemptsStay DEF StudentInv, Trying, Generating
<1>6. OperatorFits'
    <2>1. OfCell(gen)'
        BY <1>1, <1>2 DEF OfCell, Single, Kept
    <2>2. setup.family = "operator" => OfCell(agg)'
        BY <1>1 DEF OfCell, Kept, StudentInv, OperatorFits
    <2> QED
        BY <1>1, <2>1, <2>2 DEF OperatorFits, Kept
<1>7. CallFits' /\ FrozenFits'
    BY <1>1, FrozenStays DEF CallFits, Generating, Drawn, StudentInv, Kept
<1> QED
    BY <1>3, <1>4, <1>5, <1>6, <1>7 DEF StudentInv

\* Nothing is tried yet, and no log is collected.
LEMMA NothingTried ==
    ASSUME StudentInv, setup' = setup, attempts' = << >>, agg' = Student!Nothing,
           step' \in {"idle", "call"}, place' \in Places,
           step' = "call" => place'.candidate \in {0, 1} /\ (~setup.shared => place'.candidate = 1),
           gen' \in {gen, Student!Nothing}, drawn' = drawn, call' = call, FrozenFits'
    PROVE  StudentInv'
<1>1. << >> \in Seq(Tries) /\ Len(<< >>) = 0 /\ DOMAIN << >> = {}
    OBVIOUS
<1>2. gen' \in Logs
    BY EmptyLog, StudentFacts
<1>3. StudentTypes'
    BY <1>1, <1>2, EmptyLog, AnswerableStays DEF StudentInv, StudentTypes, Places
<1>4. GenFits'
    <2>1. PICK c \in Nat, k \in Nat : Single(gen, c, k)
        BY DEF StudentInv, GenFits, GenOf
    <2>2. Single(gen', c, k)
        BY <2>1, EmptyLog
    <2>3. GenOf(c, k)'
        BY <1>1, <2>2 DEF GenOf
    <2>4. \E d, j \in Nat : GenOf(d, j)'
        BY <2>3
    <2> QED
        BY <2>4 DEF GenFits
<1>5. AttemptsFit'
    BY <1>1 DEF AttemptsFit, Trying, Generating, Places
<1>6. OperatorFits'
    <2>1. OfCell(agg)'
        BY EmptyLog DEF OfCell
    <2> QED
        BY <2>1 DEF OperatorFits
<1>7. CallFits'
    BY DEF CallFits, Generating, Drawn
<1> QED
    BY <1>3, <1>4, <1>5, <1>6, <1>7 DEF StudentInv

LEMMA StartCellStep ==
    ASSUME StudentInv, Student!StartCell
    PROVE  StudentInv'
<1>1. PICK first : /\ first \in {0, 1} /\ (~setup.shared => first = 1)
                   /\ place' = [place EXCEPT !.candidate = first, !.repair = 0]
    BY DEF Student!StartCell
<1>2. /\ setup' = setup /\ attempts' = << >> /\ agg' = Student!Nothing /\ step' = "call"
      /\ gen' = gen /\ drawn' = drawn /\ call' = call /\ frozen' = None
    BY DEF Student!StartCell
<1>3. /\ place' \in Places /\ place'.candidate \in {0, 1}
      /\ ~setup.shared => place'.candidate = 1
    <2>1. first \in Nat /\ place \in Places
        BY <1>1, StudentFacts
    <2>2. place' \in Places /\ place'.candidate = first
        BY <1>1, <2>1 DEF Places
    <2> QED
        BY <1>1, <2>2
<1>4. FrozenFits'
    BY <1>2 DEF FrozenFits
<1> QED
    BY <1>2, <1>3, <1>4, NothingTried

LEMMA SelectRaisesStep ==
    ASSUME StudentInv, Student!SelectRaises
    PROVE  StudentInv'
<1>1. /\ setup' = setup /\ attempts' = << >> /\ agg' = Student!Nothing /\ step' = "idle"
      /\ gen' = Student!Nothing /\ drawn' = drawn /\ call' = call /\ frozen' = frozen
      /\ place' = [place EXCEPT !.candidate = 0, !.repair = 0]
    BY DEF Student!SelectRaises
<1>2. place' \in Places
    BY <1>1, StudentFacts DEF Places
<1>3. FrozenFits'
    BY <1>1, FrozenStays DEF StudentInv
<1> QED
    BY <1>1, <1>2, <1>3, NothingTried

LEMMA SelectStep ==
    ASSUME StudentInv, Student!Select
    PROVE  StudentInv'
<1>1. /\ step = "select" /\ step' = "freeze" /\ drawn' = drawn /\ call' = call /\ gen' = gen
      /\ Kept
    BY RepairStep DEF Student!Select
<1>2. StudentTypes'
    BY <1>1, AnswerableStays DEF StudentInv, StudentTypes, Kept, Places
<1>3. GenFits'
    <2>1. \E c, k \in Nat : GenOf(c, k)'
        BY <1>1, GenStays DEF StudentInv, GenFits
    <2> QED
        BY <1>1, <2>1 DEF GenFits
<1>4. AttemptsFit'
    BY <1>1 DEF StudentInv, AttemptsFit, Kept, Trying, Generating
<1>5. OperatorFits' /\ FrozenFits' /\ CallFits'
    BY <1>1, OperatorStays, FrozenStays DEF StudentInv, Kept, CallFits, Generating, Drawn
<1> QED
    BY <1>2, <1>3, <1>4, <1>5 DEF StudentInv

\* The generator starts, and the operator family forgets the call before.
LEMMA CallStep ==
    ASSUME StudentInv, Student!Call
    PROVE  StudentInv'
<1>1. /\ step = "call" /\ step' = "decode" /\ drawn' = drawn
      /\ gen' = IF setup.family = "operator" THEN Student!Nothing ELSE gen
      /\ call' = IF setup.planned THEN Student!Log(Student!Nothing, "plan", None, "generated")
                 ELSE Student!Nothing
      /\ setup' = setup /\ agg' = agg /\ attempts' = attempts /\ frozen' = frozen
      /\ place' = [place EXCEPT !.repair = 0]
    BY DEF Student!Call, Student!family
<1>2. Kept
    BY <1>1, StudentFacts, RejectingStays DEF Kept, Places
<1>3. call' \in Logs /\ Single(call', place.cell, place.candidate)
    <2>1. /\ place \in [cell : Nat, candidate : Nat, repair : Nat] /\ "plan" \in Kinds
          /\ "generated" \in Results /\ None \in {None} \cup Raws
          /\ Single(Student!Nothing, place.cell, place.candidate) /\ Student!Nothing \in Logs
        BY StudentFacts, EmptyLog DEF Places, Kinds, Results
    <2> QED
        BY <1>1, <2>1, LogOfCandidate
<1>4. CallFits'
    BY <1>1, <1>2, <1>3 DEF CallFits, Kept, Generating, Drawn
<1>5. StudentTypes'
    <2>1. gen' \in Logs
        BY <1>1, EmptyLog, StudentFacts
    <2> QED
        BY <1>1, <1>2, <1>3, <2>1, AnswerableStays DEF StudentInv, StudentTypes, Kept, Places
<1>6. GenFits'
    <2>1. PICK c \in Nat, k \in Nat : GenOf(c, k)
        BY DEF StudentInv, GenFits
    <2>2. GenOf(c, k)'
        BY <1>1, <1>2, <2>1, EmptyLog DEF GenOf, Kept
    <2>3. \E d, j \in Nat : GenOf(d, j)'
        BY <2>2
    <2> QED
        BY <1>1, <2>3 DEF GenFits
<1>7. AttemptsFit'
    BY <1>1, <1>2, AttemptsStay DEF StudentInv, Trying, Generating
<1>8. OperatorFits'
    BY <1>1, <1>2, EmptyLog DEF StudentInv, OperatorFits, OfCell, Kept
<1>9. FrozenFits'
    BY <1>1, FrozenStays DEF StudentInv
<1> QED
    BY <1>4, <1>5, <1>6, <1>7, <1>8, <1>9 DEF StudentInv

\* What an adapter makes of the text that the generator returns.
LEMMA AttemptOf ==
    ASSUME Student!StudentAttemptsAssumption, StudentInv
    PROVE  /\ Student!Attempt \in Tries
           /\ Student!Attempt.raw = IF drawn = None THEN None ELSE Student!Completed(drawn)
           /\ Student!Attempt.valid => drawn # None /\ Student!Attempt.reason = "none"
           /\ drawn # None /\ drawn.flaw = "prose" => ~Student!Attempt.valid
           /\ Student!Attempt.valid /\ drawn.flaw \in Rejecting
              => drawn.flaw \in Student!Unrepeated
<1>1. Student!Checks \in Student!Tables
    BY StudentFacts, TableOfFamily DEF StudentTypes
<1>2. CASE drawn = None
    <2>1. Student!Attempt = [valid |-> FALSE, reason |-> "eval-infra", raw |-> None]
        BY <1>2 DEF Student!Attempt, Student!Failed
    <2>2. [valid |-> FALSE, reason |-> "eval-infra", raw |-> None] \in Tries
        BY DEF Tries, Reasons
    <2> QED
        BY <1>2, <2>1, <2>2
<1>3. CASE drawn # None
    <2>1. PICK a \in Answerable : a = Student!Completed(drawn) /\ a.flaw = drawn.flaw /\ a \in Raws
        BY <1>3, StudentFacts, CompletedAnswer DEF Answerable
    <2>2. PICK r : r = Student!Reason(a)
        OBVIOUS
    <2>3. r \in Reasons
        <3>1. CASE r = "none"
            BY <3>1 DEF Reasons
        <3>2. CASE r # "none"
            <4>1. a.flaw \in DOMAIN Student!Checks /\ r = Student!Checks[a.flaw].reason
                BY <2>1, <2>2, <3>2 DEF Student!Reason, Student!Applies, Answerable
            <4> QED
                BY <1>1, <4>1 DEF Reasons
        <3> QED
            BY <3>1, <3>2
    <2>4. drawn.flaw = "prose" => r # "none"
        <3>1. Student!Checks["prose"].reason = "reasoning-only" /\ Student!Checks["prose"].since = 0
            BY <1>1, ProseIsNoEdit
        <3>2. setup.round \in Nat
            BY StudentFacts DEF StudentTypes, Student!StudentAttemptsAssumption
        <3> QED
            BY <2>1, <2>2, <3>1, <3>2 DEF Student!Reason, Student!Applies
    <2>8. r = "none" /\ drawn.flaw \in Rejecting => drawn.flaw \in Student!Unrepeated
        <3>1. SUFFICES ASSUME r = "none", a.flaw \in Rejecting, a.flaw \notin Student!Unrepeated
                       PROVE  FALSE
            BY <2>1
        <3>2. PICK check : check = Student!Checks[a.flaw]
            OBVIOUS
        <3>3. /\ a.flaw \in DOMAIN Student!Checks \ Student!Unrepeated
              /\ check.gate \in {"repair", "final"} /\ setup.round >= check.from
            BY <3>1, <3>2 DEF Rejecting
        <3>4. check.reason # "none" /\ check.since <= check.from
            BY <1>1, <3>2, <3>3, ChecksAreRepeated DEF Repeated
        <3>5. a.flaw # "none" /\ check.from \in Nat /\ check.since \in Nat
            BY <1>1, <3>2, <3>3, ChecksAreNumbered DEF Numbered
        <3>6. setup.round \in Nat
            BY StudentFacts DEF StudentTypes, Student!StudentAttemptsAssumption
        <3>7. setup.round >= check.since
            BY <3>3, <3>4, <3>5, <3>6
        <3> QED
            BY <2>2, <3>1, <3>2, <3>4, <3>5, <3>7 DEF Student!Reason, Student!Applies
    <2>5. Student!Attempt = IF r = "none" THEN [valid |-> TRUE, reason |-> "none", raw |-> a]
                            ELSE [valid |-> FALSE, reason |-> r, raw |-> a]
        BY <1>3, <2>1, <2>2 DEF Student!Attempt, Student!Failed
    <2>6. CASE r = "none"
        <3>1. [valid |-> TRUE, reason |-> "none", raw |-> a] \in Tries
            BY <2>1 DEF Tries, Reasons
        <3> QED
            BY <1>3, <2>1, <2>4, <2>5, <2>6, <2>8, <3>1
    <2>7. CASE r # "none"
        <3>1. [valid |-> FALSE, reason |-> r, raw |-> a] \in Tries
            BY <2>1, <2>3 DEF Tries
        <3> QED
            BY <1>3, <2>1, <2>5, <2>7, <3>1
    <2> QED
        BY <2>6, <2>7
<1> QED
    BY <1>2, <1>3

\* A candidate that moved counts as one that has no plan.
LEMMA AtLocation ==
    ASSUME Student!StudentAttemptsAssumption, NEW t \in Tries, t.valid => t.reason = "none"
    PROVE  /\ Student!AtSharedLocation(t) \in Tries
           /\ Student!AtSharedLocation(t).raw = t.raw
           /\ Student!AtSharedLocation(t).valid => t.valid /\ t.raw.flaw # "moved"
<1>1. t.raw \in {None} \cup Raws /\ t.valid \in BOOLEAN
    BY DEF Tries
<1>2. [valid |-> FALSE, reason |-> "unresolved", raw |-> t.raw] \in Tries
    BY <1>1 DEF Tries, Reasons
<1>3. CASE Student!AtSharedLocation(t) = Student!Failed("unresolved", t.raw)
    BY <1>2, <1>3 DEF Student!Failed
<1>4. CASE Student!AtSharedLocation(t) = t /\ ~(t.reason # "eval-infra" /\ t.raw.flaw = "moved")
    BY <1>4
<1> QED
    BY <1>3, <1>4 DEF Student!AtSharedLocation

\* An attempt of what the generator returned.
AttemptFor(t) ==
    /\ t \in Tries /\ t.raw = IF drawn = None THEN None ELSE Student!Completed(drawn)
    /\ t.valid => drawn # None
    /\ drawn # None /\ drawn.flaw = "prose" => ~t.valid
    /\ t.valid /\ drawn.flaw \in Rejecting => drawn.flaw \in Student!Unrepeated

LEMMA MadeOfReturned ==
    ASSUME StudentInv, NEW t, AttemptFor(t), NEW l, EndsIn(l, drawn, Rejecting), drawn # None
    PROVE  Made(l.trace[Len(l.trace)].answer, l.results[Len(l.trace)], t)
<1>1. t.raw = Student!Completed(drawn) /\ t.raw.flaw = drawn.flaw
    BY StudentFacts, CompletedAnswer DEF AttemptFor
<1> QED
    BY <1>1 DEF AttemptFor, EndsIn, Made

LEMMA AttemptIsRaw ==
    ASSUME Student!StudentAttemptsAssumption, StudentInv, NEW t, AttemptFor(t)
    PROVE  t.raw = None <=> drawn = None
<1>1. drawn # None => t.raw \in Raws
    BY StudentFacts, CompletedAnswer DEF AttemptFor
<1> QED
    BY <1>1 DEF AttemptFor, Student!StudentAttemptsAssumption, Raws

\* One more attempt: the log that the generator keeps is of it, or of an earlier one.
LEMMA GenOfNext ==
    ASSUME Student!StudentAttemptsAssumption, StudentInv, step = "render", NEW t, AttemptFor(t),
           place.candidate = Len(attempts) + 1, attempts' = Append(attempts, t), gen' = gen,
           place'.cell = place.cell
    PROVE  \E c, k \in Nat : GenOf(c, k)'
<1>1. /\ attempts \in Seq(Tries) /\ t \in Tries /\ place \in Places
      /\ Len(attempts) \in Nat /\ DOMAIN attempts = 1 .. Len(attempts)
    BY StudentFacts DEF AttemptFor
<1>2. /\ DOMAIN attempts' = 1 .. Len(attempts) + 1
      /\ attempts'[Len(attempts) + 1] = t
      /\ \A i \in 1 .. Len(attempts) : attempts'[i] = attempts[i]
    BY <1>1
<1>3. CASE drawn = None
    <2>1. PICK c \in Nat, k \in Nat : GenOf(c, k)
        BY DEF StudentInv, GenFits
    <2>2. k \in DOMAIN attempts' /\ attempts'[k].raw # None =>
             k \in DOMAIN attempts /\ attempts'[k] = attempts[k]
        BY <1>1, <1>2, <1>3 DEF AttemptFor
    <2>3. GenOf(c, k)'
        BY <2>1, <2>2 DEF GenOf
    <2> QED
        BY <2>3
<1>4. CASE drawn # None
    <2>1. Single(gen, place.cell, place.candidate) /\ EndsIn(gen, drawn, Rejecting)
        BY <1>4 DEF StudentInv, GenFits
    <2>2. Made(gen.trace[Len(gen.trace)].answer, gen.results[Len(gen.trace)], t)
        BY <1>4, <2>1, MadeOfReturned
    <2>3. PICK c \in Nat, k \in Nat : c = place.cell /\ k = place.candidate
        BY <1>1 DEF Places
    <2>4. GenOf(c, k)'
        BY <1>2, <2>1, <2>2, <2>3 DEF GenOf
    <2> QED
        BY <2>4
<1> QED
    BY <1>3, <1>4

LEMMA Concatenation ==
    ASSUME NEW S, NEW s \in Seq(S), NEW u \in Seq(S)
    PROVE  /\ s \o u \in Seq(S) /\ Len(s) \in Nat /\ Len(u) \in Nat
           /\ Len(s \o u) = Len(s) + Len(u)
           /\ \A n \in 1 .. Len(s) : (s \o u)[n] = s[n]
           /\ \A n \in 1 .. Len(u) : (s \o u)[Len(s) + n] = u[n]
           /\ \A n \in 1 .. Len(s \o u) : n > Len(s) => /\ n - Len(s) \in 1 .. Len(u)
                                                     /\ (s \o u)[n] = u[n - Len(s)]
OBVIOUS

\* A log appended to a trace ends the trace of its candidate, and leaves those of others.
LEMMA TracedLast ==
    ASSUME NEW b \in Logs, NEW l \in Logs, NEW c, NEW k, NEW t, Single(l, c, k),
           Len(l.trace) # 0, Made(l.trace[Len(l.trace)].answer, l.results[Len(l.trace)], t)
    PROVE  Traced(b.trace \o l.trace, b.results \o l.results, c, k, t)
<1>1. PICK s \in Seq(Entries), r \in Seq(Results), u \in Seq(Entries), v \in Seq(Results) :
         /\ s = b.trace /\ r = b.results /\ u = l.trace /\ v = l.results
         /\ Len(s) = Len(r) /\ Len(u) = Len(v)
    BY DEF Logs
<1>2. PICK n : n = Len(s) + Len(u)
    OBVIOUS
<1>3. /\ Len(s \o u) = n /\ n \in 1 .. n /\ n \in Nat
      /\ (s \o u)[n] = u[Len(u)] /\ (r \o v)[n] = v[Len(u)]
    <2>1. Len(s) \in Nat /\ Len(u) \in Nat /\ Len(u) # 0 /\ Len(s \o u) = n
        <3>1. Len(s) \in Nat /\ Len(u) \in Nat
            OBVIOUS
        <3>2. Len(s \o u) = Len(s) + Len(u)
            OBVIOUS
        <3> QED
            BY <1>1, <1>2, <3>1, <3>2
    <2>2. n \in 1 .. n /\ n \in Nat /\ Len(u) \in 1 .. Len(u)
        BY <1>2, <2>1
    <2>3. (s \o u)[Len(s) + Len(u)] = u[Len(u)]
        BY <2>2, Concatenation
    <2>4. Len(u) = Len(v) /\ Len(r) = Len(s)
        BY <1>1
    <2>5. (r \o v)[Len(r) + Len(v)] = v[Len(v)]
        BY <2>2, <2>4, Concatenation
    <2> QED
        BY <1>2, <2>1, <2>2, <2>3, <2>4, <2>5
<1>4. EndsAt(n, s \o u, c, k)
    <2>1. u[Len(u)].cell = c /\ u[Len(u)].candidate = k
        BY <1>1 DEF Single
    <2> QED
        BY <1>3, <2>1 DEF EndsAt
<1> QED
    BY <1>1, <1>3, <1>4 DEF Traced

LEMMA TracedStill ==
    ASSUME NEW b \in Logs, NEW l \in Logs, NEW c, NEW k, NEW t,
           Traced(b.trace, b.results, c, k, t), NEW d, NEW j, Single(l, d, j), d # c \/ j # k
    PROVE  Traced(b.trace \o l.trace, b.results \o l.results, c, k, t)
<1>1. PICK s \in Seq(Entries), r \in Seq(Results), u \in Seq(Entries), v \in Seq(Results) :
         /\ s = b.trace /\ r = b.results /\ u = l.trace /\ v = l.results
         /\ Len(s) = Len(r) /\ Len(u) = Len(v)
    BY DEF Logs
<1>2. PICK n \in 1 .. Len(s) : EndsAt(n, s, c, k) /\ Made(s[n].answer, r[n], t)
    BY <1>1 DEF Traced
<1>3. /\ n \in 1 .. Len(s \o u) /\ (s \o u)[n] = s[n] /\ (r \o v)[n] = r[n]
    <2>1. /\ Len(s) \in Nat /\ Len(u) \in Nat /\ Len(s \o u) = Len(s) + Len(u)
          /\ (s \o u)[n] = s[n]
        BY Concatenation
    <2>2. n \in 1 .. Len(r)
        BY <1>1
    <2>3. (r \o v)[n] = r[n]
        BY <2>2, Concatenation
    <2> QED
        BY <2>1, <2>3
<1>4. ASSUME NEW m \in 1 .. Len(s \o u), (s \o u)[m].cell = c, (s \o u)[m].candidate = k
      PROVE  m <= n
    <2>1. CASE m <= Len(s)
        <3>1. m \in 1 .. Len(s) /\ (s \o u)[m] = s[m]
            BY <2>1, Concatenation
        <3> QED
            BY <1>2, <1>4, <3>1 DEF EndsAt
    <2>2. CASE ~(m <= Len(s))
        <3>1. m - Len(s) \in 1 .. Len(u) /\ (s \o u)[m] = u[m - Len(s)]
            <4>1. m > Len(s)
                BY <2>2, Concatenation
            <4> QED
                BY <4>1, Concatenation
        <3>2. u[m - Len(s)].cell = d /\ u[m - Len(s)].candidate = j
            BY <1>1, <3>1 DEF Single
        <3> QED
            BY <1>4, <3>1, <3>2
    <2> QED
        BY <2>1, <2>2
<1>5. EndsAt(n, s \o u, c, k)
    BY <1>2, <1>3, <1>4 DEF EndsAt
<1> QED
    BY <1>1, <1>2, <1>3, <1>5 DEF Traced

\* Whoever a log is of: it is of another candidate, or ends as the attempt of this one.
LEMMA TracedMore ==
    ASSUME NEW b \in Logs, NEW l \in Logs, NEW c, NEW k, NEW t,
           Traced(b.trace, b.results, c, k, t), NEW d, NEW j, Single(l, d, j),
           Len(l.trace) # 0 /\ d = c /\ j = k
               => Made(l.trace[Len(l.trace)].answer, l.results[Len(l.trace)], t)
    PROVE  Traced(b.trace \o l.trace, b.results \o l.results, c, k, t)
<1>1. CASE d # c \/ j # k
    BY <1>1, TracedStill
<1>2. CASE d = c /\ j = k /\ Len(l.trace) # 0
    BY <1>2, TracedLast
<1>3. CASE Len(l.trace) = 0
    <2>1. PICK other : other # k
        OBVIOUS
    <2>2. Single(l, c, other)
        BY <1>3 DEF Single
    <2> QED
        BY <2>1, <2>2, TracedStill
<1> QED
    BY <1>1, <1>2, <1>3

LEMMA LogsAppend ==
    ASSUME NEW b \in Logs, NEW l \in Logs
    PROVE  /\ [trace |-> b.trace \o l.trace, results |-> b.results \o l.results] \in Logs
           /\ \A n \in 1 .. Len(b.trace \o l.trace) :
                 \/ \E m \in 1 .. Len(b.trace) : (b.trace \o l.trace)[n] = b.trace[m]
                 \/ \E m \in 1 .. Len(l.trace) : (b.trace \o l.trace)[n] = l.trace[m]
<1>1. PICK s \in Seq(Entries), r \in Seq(Results), u \in Seq(Entries), v \in Seq(Results) :
         /\ s = b.trace /\ r = b.results /\ u = l.trace /\ v = l.results
         /\ Len(s) = Len(r) /\ Len(u) = Len(v)
    BY DEF Logs
<1>2. s \o u \in Seq(Entries) /\ r \o v \in Seq(Results) /\ Len(s \o u) = Len(r \o v)
    <2>1. /\ s \o u \in Seq(Entries) /\ Len(s \o u) = Len(s) + Len(u)
          /\ r \o v \in Seq(Results) /\ Len(r \o v) = Len(r) + Len(v)
        BY Concatenation
    <2> QED
        BY <1>1, <2>1
<1>3. [trace |-> s \o u, results |-> r \o v] \in Logs
    BY <1>2 DEF Logs
<1>4. ASSUME NEW n \in 1 .. Len(s \o u)
      PROVE  \/ \E m \in 1 .. Len(s) : (s \o u)[n] = s[m]
             \/ \E m \in 1 .. Len(u) : (s \o u)[n] = u[m]
    <2>1. CASE n <= Len(s)
        <3>1. n \in 1 .. Len(s) /\ (s \o u)[n] = s[n]
            BY <2>1, Concatenation
        <3> QED
            BY <3>1
    <2>2. CASE ~(n <= Len(s))
        <3>1. n - Len(s) \in 1 .. Len(u) /\ (s \o u)[n] = u[n - Len(s)]
            <4>1. n > Len(s)
                BY <2>2, Concatenation
            <4> QED
                BY <4>1, Concatenation
        <3> QED
            BY <3>1
    <2> QED
        BY <2>1, <2>2
<1> QED
    BY <1>1, <1>3, <1>4

LEMMA RenderStep ==
    ASSUME Student!StudentAttemptsAssumption, StudentInv, Student!Render
    PROVE  StudentInv'
<1>1. PICK t : t = Student!Attempt
    OBVIOUS
<1>2. /\ step = "render" /\ step' = "freeze" /\ ~setup.shared /\ attempts' = <<t>>
      /\ drawn' = None /\ call' = call /\ gen' = gen /\ agg' = agg /\ place' = place
      /\ setup' = setup /\ frozen' = frozen
    BY <1>1 DEF Student!Render
<1>3. AttemptFor(t) /\ t \in Tries
    BY <1>1, AttemptOf DEF AttemptFor
<1>4. place.candidate = 1 /\ Len(attempts) = 0 /\ attempts \in Seq(Tries)
    BY <1>2, StudentFacts DEF StudentInv, AttemptsFit, Trying
<1>5. <<t>> \in Seq(Tries) /\ DOMAIN <<t>> = {1} /\ <<t>>[1] = t
    BY <1>3
<1>6. StudentTypes'
    BY <1>2, <1>5, AnswerableStays DEF StudentInv, StudentTypes
<1>7. GenFits'
    <2>1. attempts' = Append(attempts, t)
        BY <1>2, <1>4
    <2>2. \E c, k \in Nat : GenOf(c, k)'
        BY <1>2, <1>3, <1>4, <2>1, GenOfNext
    <2> QED
        BY <1>2, <2>2 DEF GenFits
<1>8. AttemptsFit'
    <2>1. t.valid => t.raw # None
        BY <1>3, AttemptIsRaw DEF AttemptFor
    <2>2. t.raw # None => Traced(gen.trace, gen.results, place.cell, 1, t)
        <3>1. SUFFICES ASSUME t.raw # None PROVE Traced(gen.trace, gen.results, place.cell, 1, t)
            OBVIOUS
        <3>2. Single(gen, place.cell, 1) /\ EndsIn(gen, drawn, Rejecting) /\ drawn # None
            BY <1>2, <1>3, <1>4, <3>1, AttemptIsRaw DEF StudentInv, GenFits
        <3>3. Made(gen.trace[Len(gen.trace)].answer, gen.results[Len(gen.trace)], t)
            BY <1>3, <3>2, MadeOfReturned
        <3>4. /\ Len(gen.trace) \in 1 .. Len(gen.trace)
              /\ EndsAt(Len(gen.trace), gen.trace, place.cell, 1)
            <4>1. Len(gen.trace) \in Nat /\ Len(gen.trace) # 0
                BY <3>2, StudentFacts DEF EndsIn, Logs
            <4> QED
                BY <3>2, <4>1 DEF EndsAt, Single
        <3> QED
            BY <3>3, <3>4 DEF Traced
    <2> QED
        BY <1>2, <1>5, <2>1, <2>2 DEF AttemptsFit, Trying, Generating
<1>9. OperatorFits' /\ CallFits' /\ FrozenFits'
    BY <1>2, FrozenStays DEF StudentInv, OperatorFits, OfCell, CallFits, Generating, Drawn
<1> QED
    BY <1>6, <1>7, <1>8, <1>9 DEF StudentInv

LEMMA PrepareStep ==
    ASSUME StudentInv, Student!Prepare
    PROVE  StudentInv'
<1>1. /\ step = "render" /\ step' = "call" /\ setup.shared /\ place.candidate = 0
      /\ place' = [place EXCEPT !.candidate = 1] /\ drawn' = None /\ call' = call /\ gen' = gen
      /\ agg' = agg /\ attempts' = attempts /\ setup' = setup /\ frozen' = frozen
    BY DEF Student!Prepare
<1>2. place' \in Places /\ place'.cell = place.cell /\ place'.candidate = 1
    BY <1>1, StudentFacts DEF Places
<1>3. StudentTypes'
    BY <1>1, <1>2, AnswerableStays DEF StudentInv, StudentTypes, Places
<1>4. GenFits'
    <2>1. PICK c \in Nat, k \in Nat : GenOf(c, k)
        BY DEF StudentInv, GenFits
    <2>2. GenOf(c, k)'
        BY <1>1, <1>2, <2>1 DEF GenOf
    <2>3. \E d, j \in Nat : GenOf(d, j)'
        BY <2>2
    <2> QED
        BY <1>1, <2>3 DEF GenFits
<1>5. AttemptsFit'
    BY <1>1, <1>2 DEF StudentInv, AttemptsFit, Trying, Generating
<1>6. OperatorFits'
    BY <1>1, <1>2 DEF StudentInv, OperatorFits, OfCell
<1>7. CallFits' /\ FrozenFits'
    BY <1>1, FrozenStays DEF CallFits, Generating, Drawn, StudentInv
<1> QED
    BY <1>3, <1>4, <1>5, <1>6, <1>7 DEF StudentInv

\* The log that is collected for a candidate: what the generator keeps, or an entry.
LEMMA CollectedLog ==
    ASSUME StudentInv, step = "render",
           agg' = IF gen # Student!Nothing
                  THEN [trace |-> agg.trace \o gen.trace, results |-> agg.results \o gen.results]
                  ELSE Student!Log(agg, "candidate", drawn, "structural-rejected")
    PROVE  \E l \in Logs :
              /\ agg' = [trace |-> agg.trace \o l.trace, results |-> agg.results \o l.results]
              /\ \/ l = gen
                 \/ drawn = None /\ Single(l, place.cell, place.candidate)
<1>1. CASE gen # Student!Nothing
    BY <1>1, StudentFacts
<1>2. CASE gen = Student!Nothing
    <2>1. drawn = None
        <3>1. drawn # None => Len(gen.trace) # 0
            BY DEF StudentInv, GenFits, EndsIn
        <3> QED
            BY <1>2, <3>1, EmptyLog
    <2>2. PICK e \in Entries, r \in Results :
             /\ r = "structural-rejected" /\ e = Student!Entry("candidate", drawn)
             /\ e.cell = place.cell /\ e.candidate = place.candidate
        <3>1. Student!Entry("candidate", drawn) \in Entries
            BY StudentFacts DEF Student!Entry, Entries, Kinds, Places
        <3>2. /\ Student!Entry("candidate", drawn).cell = place.cell
              /\ Student!Entry("candidate", drawn).candidate = place.candidate
            BY DEF Student!Entry
        <3>3. "structural-rejected" \in Results
            BY DEF Results
        <3> QED
            BY <3>1, <3>2, <3>3
    <2>3. PICK l : l = [trace |-> <<e>>, results |-> <<r>>]
        OBVIOUS
    <2>4. /\ l.trace = <<e>> /\ l.results = <<r>>
          /\ <<e>> \in Seq(Entries) /\ <<r>> \in Seq(Results) /\ Len(<<e>>) = 1 /\ Len(<<r>>) = 1
          /\ <<e>>[1] = e
        BY <2>3
    <2>5. l \in Logs
        <3>1. l \in [trace : Seq(Entries), results : Seq(Results)]
            BY <2>3, <2>4
        <3> QED
            BY <2>4, <3>1 DEF Logs
    <2>6. Single(l, place.cell, place.candidate)
        BY <2>2, <2>4 DEF Single
    <2>7. agg' = [trace |-> agg.trace \o l.trace, results |-> agg.results \o l.results]
        <3>1. agg' = [trace |-> Append(agg.trace, e), results |-> Append(agg.results, r)]
            BY <1>2, <2>2 DEF Student!Log
        <3>2. agg.trace \in Seq(Entries) /\ agg.results \in Seq(Results)
            BY StudentFacts DEF Logs
        <3>3. Append(agg.trace, e) = agg.trace \o <<e>>
            BY <3>2
        <3>4. Append(agg.results, r) = agg.results \o <<r>>
            BY <3>2
        <3> QED
            BY <2>4, <3>1, <3>3, <3>4
    <2> QED
        BY <2>1, <2>5, <2>6, <2>7
<1> QED
    BY <1>1, <1>2

LEMMA RealizeStep ==
    ASSUME Student!StudentAttemptsAssumption, StudentInv, Student!Realize
    PROVE  StudentInv'
<1>1. PICK t : t = Student!AtSharedLocation(Student!Attempt)
    OBVIOUS
<1>2. /\ step = "render" /\ setup.shared /\ place.candidate > 0 /\ attempts' = Append(attempts, t)
      /\ drawn' = None /\ call' = call /\ gen' = gen /\ setup' = setup /\ frozen' = frozen
      /\ \/ step' = "call" /\ place' = [place EXCEPT !.candidate = @ + 1]
         \/ step' = "select" /\ place' = place
      /\ agg' = IF gen # Student!Nothing
                THEN [trace |-> agg.trace \o gen.trace, results |-> agg.results \o gen.results]
                ELSE Student!Log(agg, "candidate", drawn, "structural-rejected")
    BY <1>1 DEF Student!Realize
<1>3. AttemptFor(t) /\ t \in Tries /\ (t.valid => t.raw.flaw # "moved")
    BY <1>1, AttemptOf, AtLocation DEF AttemptFor
<1>4. /\ place \in Places /\ attempts \in Seq(Tries) /\ Len(attempts) \in Nat
      /\ place.candidate = Len(attempts) + 1
    BY <1>2, StudentFacts DEF StudentInv, AttemptsFit, Trying, Places
<1>5. /\ attempts' \in Seq(Tries) /\ Len(attempts') = Len(attempts) + 1
      /\ DOMAIN attempts' = 1 .. Len(attempts) + 1 /\ attempts'[Len(attempts) + 1] = t
      /\ \A i \in 1 .. Len(attempts) : i \in DOMAIN attempts /\ attempts'[i] = attempts[i]
    BY <1>2, <1>3, <1>4
<1>6. /\ place' \in Places /\ place'.cell = place.cell
      /\ step' = "call" => place'.candidate = place.candidate + 1
    BY <1>2, <1>4 DEF Places
<1>7. PICK l \in Logs :
         /\ agg' = [trace |-> agg.trace \o l.trace, results |-> agg.results \o l.results]
         /\ l = gen \/ (drawn = None /\ Single(l, place.cell, place.candidate))
    BY <1>2, CollectedLog
<1>8. /\ agg' \in Logs /\ agg'.trace = agg.trace \o l.trace
      /\ agg'.results = agg.results \o l.results /\ agg \in Logs
    BY <1>7, LogsAppend, StudentFacts
<1>9. StudentTypes'
    BY <1>2, <1>5, <1>6, <1>8, AnswerableStays DEF StudentInv, StudentTypes, Places
<1>10. GenFits'
    <2>1. \E c, k \in Nat : GenOf(c, k)'
        BY <1>2, <1>3, <1>4, <1>6, GenOfNext
    <2> QED
        BY <1>2, <2>1 DEF GenFits
<1>11. AttemptsFit'
    <2>1. t.valid => t.raw # None
        BY <1>3, AttemptIsRaw DEF AttemptFor
    <2>2. ASSUME t.raw # None
          PROVE  Traced(agg'.trace, agg'.results, place.cell, place.candidate, t)
        <3>1. drawn # None /\ l = gen
            BY <1>3, <1>7, <2>2, AttemptIsRaw
        <3>2. Single(gen, place.cell, place.candidate) /\ EndsIn(gen, drawn, Rejecting)
            BY <1>2, <3>1 DEF StudentInv, GenFits
        <3>3. Made(gen.trace[Len(gen.trace)].answer, gen.results[Len(gen.trace)], t)
            BY <1>3, <3>1, <3>2, MadeOfReturned
        <3>4. Len(gen.trace) # 0
            BY <3>2 DEF EndsIn
        <3> QED
            BY <1>8, <3>1, <3>2, <3>3, <3>4, TracedLast
    <2>3. ASSUME NEW i \in 1 .. Len(attempts), attempts[i].raw # None
          PROVE  Traced(agg'.trace, agg'.results, place.cell, i, attempts[i])
        <3>1. Traced(agg.trace, agg.results, place.cell, i, attempts[i])
            BY <1>2, <1>5, <2>3 DEF StudentInv, AttemptsFit
        <3>2. CASE l = gen
            <4>1. PICK c \in Nat, k \in Nat : GenOf(c, k)
                BY DEF StudentInv, GenFits
            <4>2. /\ Single(l, c, k)
                  /\ Len(l.trace) # 0 /\ c = place.cell /\ k = i
                       => Made(l.trace[Len(l.trace)].answer, l.results[Len(l.trace)], attempts[i])
                BY <1>5, <2>3, <3>2, <4>1 DEF GenOf
            <4> QED
                BY <1>8, <3>1, <4>2, TracedMore
        <3>3. CASE Single(l, place.cell, place.candidate)
            <4>1. place.candidate # i
                BY <1>4
            <4> QED
                BY <1>8, <3>1, <3>3, <4>1, TracedStill
        <3> QED
            BY <1>7, <3>2, <3>3
    <2>4. ASSUME NEW i \in DOMAIN attempts'
          PROVE  /\ attempts'[i].valid => attempts'[i].raw # None
                 /\ attempts'[i].valid => attempts'[i].raw.flaw # "moved"
                 /\ attempts'[i].raw # None =>
                       Traced(agg'.trace, agg'.results, place.cell, i, attempts'[i])
        <3>1. CASE i = Len(attempts) + 1
            BY <1>3, <1>4, <1>5, <2>1, <2>2, <3>1
        <3>2. CASE i \in 1 .. Len(attempts)
            <4>1. i \in DOMAIN attempts /\ attempts'[i] = attempts[i]
                BY <1>5, <3>2
            <4>2. /\ attempts[i].valid => attempts[i].raw # None
                  /\ attempts[i].valid => attempts[i].raw.flaw # "moved"
                BY <1>2, <4>1 DEF StudentInv, AttemptsFit
            <4> QED
                BY <2>3, <3>2, <4>1, <4>2
        <3> QED
            BY <1>4, <1>5, <3>1, <3>2
    <2>5. step' = "call" => /\ place'.candidate # 0
                            /\ Len(attempts') = place'.candidate - 1
        BY <1>4, <1>5, <1>6
    <2> QED
        BY <1>2, <1>6, <2>4, <2>5 DEF AttemptsFit, Trying, Generating
<1>12. OperatorFits'
    <2>1. SUFFICES ASSUME setup.family = "operator"
                   PROVE  OfCell(agg)' /\ (step' = "select" => OfCell(gen)')
        BY <1>2 DEF OperatorFits
    <2>2. OfCell(agg) /\ OfCell(gen)
        BY <1>2, <2>1 DEF StudentInv, OperatorFits
    <2>3. OfCell(l)
        BY <1>7, <2>2 DEF OfCell, Single
    <2>4. ASSUME NEW n \in 1 .. Len(agg.trace \o l.trace)
          PROVE  (agg.trace \o l.trace)[n].cell = place.cell
        <3>1. \/ \E m \in 1 .. Len(agg.trace) : (agg.trace \o l.trace)[n] = agg.trace[m]
              \/ \E m \in 1 .. Len(l.trace) : (agg.trace \o l.trace)[n] = l.trace[m]
            BY <1>8, LogsAppend, Zenon
        <3> QED
            BY <2>2, <2>3, <3>1 DEF OfCell
    <2> QED
        BY <1>2, <1>6, <1>8, <2>2, <2>4 DEF OfCell
<1>13. CallFits' /\ FrozenFits'
    BY <1>2, FrozenStays DEF StudentInv, CallFits, Generating, Drawn
<1> QED
    BY <1>9, <1>10, <1>11, <1>12, <1>13 DEF StudentInv

\* The first of the valid attempts of a size is eligible.
LEMMA EligibleOf ==
    ASSUME attempts \in Seq(Tries), NEW i \in ValidOf(attempts)
    PROVE  \E j \in Student!Eligible : attempts[j].raw.size = attempts[i].raw.size
<1> DEFINE S == {j \in DOMAIN attempts : attempts[j].valid
                                         /\ attempts[j].raw.size = attempts[i].raw.size}
<1>1. DOMAIN attempts \subseteq Nat /\ i \in DOMAIN attempts /\ attempts[i].valid
    BY DEF ValidOf
<1>2. S \in SUBSET Nat /\ S # {} /\ S \subseteq DOMAIN attempts
    BY <1>1
<1>3. PICK j \in S : \A k \in S : j <= k
    BY <1>2, LeastOf
<1>4. j \in DOMAIN attempts /\ j \in Nat
    BY <1>2, <1>3
<1>5. ASSUME NEW k \in 1 .. j - 1
      PROVE  ~(attempts[k].valid /\ attempts[k].raw.size = attempts[j].raw.size)
    <2>1. k \in DOMAIN attempts /\ ~(j <= k)
        BY <1>4
    <2>2. k \notin S
        BY <1>3, <2>1
    <2> QED
        BY <1>3, <2>1, <2>2
<1> QED
    BY <1>3, <1>4, <1>5 DEF Student!Eligible

\* The smallest of the eligible attempts is one of them.
LEMMA SmallestOf ==
    ASSUME attempts \in Seq(Tries), Student!Eligible # {},
           \A i \in ValidOf(attempts) : attempts[i].raw.size \in Nat
    PROVE  /\ Student!Smallest(Student!Eligible) \in Student!Eligible
           /\ \A j \in Student!Eligible :
                 attempts[Student!Smallest(Student!Eligible)].raw.size <= attempts[j].raw.size
<1>1. PICK E : E = Student!Eligible
    OBVIOUS
<1>2. E \subseteq ValidOf(attempts) /\ E \subseteq Nat /\ E # {}
    BY <1>1 DEF Student!Eligible, ValidOf
<1>3. PICK n \in {attempts[i].raw.size : i \in E} :
         \A m \in {attempts[i].raw.size : i \in E} : n <= m
    BY <1>2, LeastOf
<1>4. PICK k \in {i \in E : attempts[i].raw.size = n} :
         \A m \in {i \in E : attempts[i].raw.size = n} : k <= m
    BY <1>2, <1>3, LeastOf
<1>5. ASSUME NEW j \in E \ {k}
      PROVE  \/ attempts[k].raw.size < attempts[j].raw.size
             \/ attempts[k].raw.size = attempts[j].raw.size /\ k < j
    <2>1. attempts[k].raw.size = n /\ n <= attempts[j].raw.size
        BY <1>3, <1>4
    <2>2. n \in Nat /\ attempts[j].raw.size \in Nat /\ k \in Nat /\ j \in Nat
        BY <1>2, <1>3, <1>4
    <2>3. attempts[j].raw.size = n => k <= j
        BY <1>4
    <2> QED
        BY <1>5, <2>1, <2>2, <2>3
<1>6. PICK s \in E : /\ s = Student!Smallest(E)
                     /\ \A j \in E \ {s} : \/ attempts[s].raw.size < attempts[j].raw.size
                                           \/ /\ attempts[s].raw.size = attempts[j].raw.size
                                              /\ s < j
    BY <1>4, <1>5 DEF Student!Smallest
<1>7. ASSUME NEW j \in E
      PROVE  attempts[s].raw.size <= attempts[j].raw.size
    <2>1. attempts[s].raw.size \in Nat /\ attempts[j].raw.size \in Nat
        BY <1>2
    <2> QED
        BY <1>6, <2>1
<1> QED
    BY <1>1, <1>6, <1>7

LEMMA SelectedIsSmallest ==
    ASSUME Student!StudentAttemptsAssumption, StudentInv
    PROVE  Chosen(attempts, Student!Selected)
<1>1. attempts \in Seq(Tries)
    BY StudentFacts
<1>2. ASSUME NEW i \in ValidOf(attempts)
      PROVE  attempts[i].raw.size \in Nat
    <2>1. i \in DOMAIN attempts /\ attempts[i] \in Tries /\ attempts[i].raw # None
        BY <1>1 DEF ValidOf, StudentInv, AttemptsFit
    <2>2. attempts[i].raw \in Raws
        BY <2>1 DEF Tries
    <2> QED
        BY <2>2 DEF Raws, Student!AnswerRecords
<1>3. CASE Student!Eligible = {}
    <2>1. ValidOf(attempts) = {}
        BY <1>1, <1>3, EligibleOf
    <2> QED
        BY <1>3, <2>1 DEF Chosen, Student!Selected
<1>4. CASE Student!Eligible # {}
    <2>1. PICK s \in Student!Eligible :
             /\ s = Student!Selected
             /\ \A j \in Student!Eligible : attempts[s].raw.size <= attempts[j].raw.size
        BY <1>1, <1>2, <1>4, SmallestOf DEF Student!Selected
    <2>2. s # 0 /\ s \in ValidOf(attempts)
        BY <1>1 DEF Student!Eligible, ValidOf
    <2>3. ASSUME NEW i \in ValidOf(attempts)
          PROVE  attempts[s].raw.size <= attempts[i].raw.size
        <3>1. PICK j \in Student!Eligible : attempts[j].raw.size = attempts[i].raw.size
            BY <1>1, EligibleOf
        <3> QED
            BY <2>1, <3>1
    <2> QED
        BY <2>1, <2>2, <2>3 DEF Chosen
<1> QED
    BY <1>3, <1>4

LEMMA FreezeStep ==
    ASSUME Student!StudentAttemptsAssumption, StudentInv, Student!Freeze
    PROVE  StudentInv'
<1>1. PICK l, chosen : /\ l = IF setup.shared THEN agg ELSE gen
                       /\ chosen = IF setup.shared THEN Student!Selected ELSE 1
    OBVIOUS
<1>2. /\ step = "freeze" /\ step' = "idle" /\ setup' = setup /\ attempts' = << >>
      /\ frozen' = [cell |-> place.cell, attempts |-> attempts, chosen |-> chosen,
                    trace |-> l.trace, results |-> l.results]
      /\ place' = [cell |-> place.cell + 1, candidate |-> 0, repair |-> 0]
      /\ agg' = Student!Nothing /\ gen' = gen /\ drawn' = drawn /\ call' = call
    BY <1>1 DEF Student!Freeze, Student!Kept
<1>3. place' \in Places
    BY <1>2, StudentFacts DEF Places
<1>4. FrozenFits'
    <2>1. /\ frozen'.cell = place.cell /\ frozen'.attempts = attempts /\ frozen'.chosen = chosen
          /\ frozen'.trace = l.trace /\ frozen'.results = l.results
        BY <1>2
    <2>2. l \in Logs /\ l.trace \in Seq(Entries) /\ Len(l.results) = Len(l.trace)
        BY <1>1, StudentFacts DEF Logs
    <2>3. ASSUME NEW i \in DOMAIN attempts
          PROVE  /\ attempts[i].valid => attempts[i].raw # None
                 /\ attempts[i].raw # None =>
                       Traced(l.trace, l.results, place.cell, i, attempts[i])
                 /\ setup.shared /\ attempts[i].valid => attempts[i].raw.flaw # "moved"
        BY <1>1, <1>2 DEF StudentInv, AttemptsFit
    <2>4. setup.family = "operator" => \A n \in 1 .. Len(l.trace) : l.trace[n].cell = place.cell
        BY <1>1, <1>2 DEF StudentInv, OperatorFits, OfCell
    <2>5. setup.shared => Chosen(attempts, chosen)
        BY <1>1, SelectedIsSmallest
    <2> QED
        BY <1>2, <2>1, <2>2, <2>3, <2>4, <2>5 DEF FrozenFits
<1> QED
    BY <1>2, <1>3, <1>4, NothingTried

LEMMA StudentInit ==
    ASSUME Student!StudentAttemptsAssumption, Student!Init PROVE StudentInv
<1>1. PICK f \in Families, r \in Rounds, shared \in BOOLEAN, critic \in BOOLEAN,
           planned \in BOOLEAN :
         /\ shared => f \in Student!Shareable
         /\ setup = [family |-> f, round |-> r, shared |-> shared, critic |-> critic,
                     planned |-> planned]
    BY DEF Student!Init
<1>2. /\ place = [cell |-> 1, candidate |-> 0, repair |-> 0]
      /\ step = "idle" /\ drawn = None /\ frozen = None
      /\ call = Student!Nothing /\ gen = Student!Nothing /\ agg = Student!Nothing
      /\ attempts = << >> /\ << >> \in Seq(Tries) /\ DOMAIN << >> = {}
    BY DEF Student!Init
<1>3. /\ setup \in [family : Families, round : Rounds, shared : BOOLEAN, critic : BOOLEAN,
                    planned : BOOLEAN]
      /\ setup.shared => setup.family \in Student!Shareable
    BY <1>1
<1>4. StudentTypes
    BY <1>2, <1>3, EmptyLog DEF StudentTypes
<1>5. GenFits
    <2>1. GenOf(0, 0)
        BY <1>2, EmptyLog DEF GenOf
    <2> QED
        BY <1>2, <2>1 DEF GenFits
<1>6. AttemptsFit /\ OperatorFits /\ CallFits /\ FrozenFits
    BY <1>2, EmptyLog DEF AttemptsFit, OperatorFits, OfCell, CallFits, FrozenFits, Trying,
                          Generating, Drawn
<1> QED
    BY <1>4, <1>5, <1>6 DEF StudentInv

LEMMA StudentNext ==
    ASSUME Student!StudentAttemptsAssumption, StudentInv, [Student!Next]_(Student!vars)
    PROVE  StudentInv'
<1>1. CASE UNCHANGED Student!vars
    <2>1. /\ setup' = setup /\ place' = place /\ step' = step /\ drawn' = drawn /\ call' = call
          /\ gen' = gen /\ agg' = agg /\ attempts' = attempts /\ frozen' = frozen
        BY <1>1 DEF Student!vars
    <2>2. Kept
        BY <2>1, RepairStep
    <2>3. StudentTypes' /\ CallFits' /\ FrozenFits'
        BY <2>1, <2>2, AnswerableStays, FrozenStays DEF StudentInv, StudentTypes, CallFits, Kept
    <2>4. GenFits'
        <3>1. \E c, k \in Nat : GenOf(c, k)'
            BY <2>1, <2>2, GenStays DEF StudentInv, GenFits
        <3> QED
            BY <2>1, <2>2, <3>1 DEF StudentInv, GenFits, Kept
    <2>5. AttemptsFit' /\ OperatorFits'
        BY <2>1, <2>2, OperatorStays DEF StudentInv, AttemptsFit
    <2> QED
        BY <2>3, <2>4, <2>5 DEF StudentInv
<1>2. CASE Student!Next
    BY <1>2, StartCellStep, CallStep, DecodeStep, GroundStep, RejectedStep, CriticizeStep,
       TransportStep, ReturnStep, RenderStep, PrepareStep, RealizeStep, SelectStep,
       SelectRaisesStep, FreezeStep DEF Student!Next
<1> QED
    BY <1>1, <1>2

\* What the frozen evidence fits with, in the words of the properties.
LEMMA AttemptEarned ==
    ASSUME Student!StudentAttemptsAssumption, StudentInv
    PROVE  Student!AttemptIsTraced /\ Student!AttemptIsEarned
<1>1. CASE frozen = None
    BY <1>1 DEF Student!AttemptIsTraced, Student!AttemptIsEarned
<1>2. CASE frozen # None
    <2>1. /\ frozen.trace \in Seq(Entries) /\ Len(frozen.trace) \in Nat
          /\ DOMAIN frozen.trace = 1 .. Len(frozen.trace)
        BY <1>2 DEF StudentInv, FrozenFits
    <2>2. ASSUME NEW i \in DOMAIN frozen.attempts, frozen.attempts[i].raw # None
          PROVE  /\ Student!Own(i) # {}
                 /\ IF Student!CriticRefused(i) THEN ~frozen.attempts[i].valid
                    ELSE Student!Completed(frozen.trace[Student!Last(Student!Own(i))].answer)
                            = frozen.attempts[i].raw
                 /\ Student!LastResult(i) = "structural-rejected" /\ frozen.attempts[i].valid
                    => frozen.attempts[i].raw.flaw \in Student!Unrepeated
        <3>1. PICK n \in 1 .. Len(frozen.trace) :
                 /\ EndsAt(n, frozen.trace, frozen.cell, i)
                 /\ Made(frozen.trace[n].answer, frozen.results[n], frozen.attempts[i])
            BY <1>2, <2>2 DEF StudentInv, FrozenFits, Traced
        <3>2. /\ n \in Student!Own(i) /\ \A m \in Student!Own(i) : m <= n
              /\ Student!Own(i) \subseteq Nat
            BY <2>1, <3>1 DEF Student!Own, EndsAt
        <3>3. Student!Last(Student!Own(i)) = n
            <4>1. PICK S : S = Student!Own(i)
                OBVIOUS
            <4>2. \A x \in S : (\A y \in S : x >= y) => x = n
                BY <3>2, <4>1
            <4>3. n \in S /\ \A y \in S : n >= y
                BY <3>2, <4>1
            <4> QED
                BY <4>1, <4>2, <4>3 DEF Student!Last, Student!Max
        <3> QED
            BY <3>1, <3>2, <3>3 DEF Made, Student!CriticRefused, Student!LastResult
    <2>3. Student!AttemptIsTraced
        BY <1>2, <2>1, <2>2 DEF Student!AttemptIsTraced, Student!Answered, Student!family,
                                StudentInv, FrozenFits
    <2>4. ASSUME NEW i \in DOMAIN frozen.attempts, frozen.attempts[i].valid
          PROVE  /\ Student!Answered(i) /\ ~Student!CriticRefused(i)
                 /\ Student!LastResult(i) = "structural-rejected" =>
                       frozen.attempts[i].raw.flaw \in Student!Unrepeated
        <3>1. frozen.attempts[i].raw # None
            BY <1>2, <2>4 DEF StudentInv, FrozenFits
        <3> QED
            BY <2>2, <2>4, <3>1 DEF Student!Answered
    <2>5. ASSUME setup.shared
          PROVE  LET valid == {i \in DOMAIN frozen.attempts : frozen.attempts[i].valid} IN
                 IF frozen.chosen = 0 THEN valid = {}
                 ELSE /\ frozen.chosen \in valid
                      /\ frozen.attempts[frozen.chosen].raw.flaw # "moved"
                      /\ \A i \in valid : frozen.attempts[frozen.chosen].raw.size
                                            <= frozen.attempts[i].raw.size
        <3>1. Chosen(frozen.attempts, frozen.chosen)
            BY <1>2, <2>5 DEF StudentInv, FrozenFits
        <3>2. \A i \in DOMAIN frozen.attempts :
                 frozen.attempts[i].valid => frozen.attempts[i].raw.flaw # "moved"
            BY <1>2, <2>5 DEF StudentInv, FrozenFits
        <3> QED
            BY <3>1, <3>2 DEF Chosen, ValidOf
    <2>6. Student!AttemptIsEarned
        BY <2>4, <2>5 DEF Student!AttemptIsEarned
    <2> QED
        BY <2>3, <2>6
<1> QED
    BY <1>1, <1>2

-----------------------------------------------------------------------------
(* The official judgement.                                                 *)

ArmSet == {"baseline", "taught"}
CellsFor(tasks) == {Judging!Of(t, arm) : t \in tasks, arm \in ArmSet}
FeedbackTasks == {Feedback[i] : i \in 1 .. Len(Feedback)}
HoldoutTasks == {Holdout[i] : i \in 1 .. Len(Holdout)}
PartTasks == {Holdout[1]}

\* The plan of some tasks: both arms of each, and nothing else.
LEMMA CellsOfTasks ==
    ASSUME NEW T, NEW s \in Seq(T)
    PROVE  /\ Len(Judging!CellsOf(s)) = 2 * Len(s)
           /\ DOMAIN Judging!CellsOf(s) = 1 .. 2 * Len(s)
           /\ \A i \in 1 .. 2 * Len(s) : Judging!CellsOf(s)[i] \in
                 CellsFor({s[j] : j \in 1 .. Len(s)})
           /\ Judging!ToSet(Judging!CellsOf(s)) = CellsFor({s[j] : j \in 1 .. Len(s)})
<1>1. PICK n \in Nat : n = Len(s) /\ DOMAIN s = 1 .. n
    OBVIOUS
<1>2. PICK plan : /\ plan = Judging!CellsOf(s)
                  /\ plan = [i \in 1 .. 2 * n |->
                        [task |-> s[(i + 1) \div 2], arm |-> Judging!ArmNames[2 - (i % 2)]]]
    BY <1>1 DEF Judging!CellsOf
<1>3. Len(plan) = 2 * n /\ DOMAIN plan = 1 .. 2 * n
    BY <1>2
<1>4. \A k \in 1 .. 2 : Judging!ArmNames[k] \in ArmSet
    BY DEF Judging!ArmNames, ArmSet
<1>5. ASSUME NEW i \in 1 .. 2 * n
      PROVE  plan[i] \in CellsFor({s[j] : j \in 1 .. n})
    <2>1. (i + 1) \div 2 \in 1 .. n /\ 2 - (i % 2) \in 1 .. 2
        OBVIOUS
    <2>2. plan[i] = Judging!Of(s[(i + 1) \div 2], Judging!ArmNames[2 - (i % 2)])
        BY <1>2 DEF Judging!Of
    <2> QED
        BY <1>4, <2>1, <2>2 DEF CellsFor
<1>6. ASSUME NEW j \in 1 .. n, NEW arm \in ArmSet
      PROVE  \E i \in 1 .. 2 * n : plan[i] = Judging!Of(s[j], arm)
    <2>1. CASE arm = "baseline"
        <3>1. 2 * j - 1 \in 1 .. 2 * n /\ ((2 * j - 1) + 1) \div 2 = j /\ 2 - ((2 * j - 1) % 2) = 1
            OBVIOUS
        <3>2. plan[2 * j - 1] = [task |-> s[j], arm |-> Judging!ArmNames[1]]
            BY <1>2, <3>1
        <3> QED
            BY <2>1, <3>1, <3>2 DEF Judging!Of, Judging!ArmNames
    <2>2. CASE arm = "taught"
        <3>1. 2 * j \in 1 .. 2 * n /\ (2 * j + 1) \div 2 = j /\ 2 - ((2 * j) % 2) = 2
            OBVIOUS
        <3>2. plan[2 * j] = [task |-> s[j], arm |-> Judging!ArmNames[2]]
            BY <1>2, <3>1
        <3> QED
            BY <2>2, <3>1, <3>2 DEF Judging!Of, Judging!ArmNames
    <2> QED
        BY <2>1, <2>2 DEF ArmSet
<1>7. Judging!ToSet(plan) = {plan[i] : i \in 1 .. 2 * n}
    BY <1>3 DEF Judging!ToSet
<1>8. Judging!ToSet(plan) = CellsFor({s[j] : j \in 1 .. n})
    <2>1. Judging!ToSet(plan) \subseteq CellsFor({s[j] : j \in 1 .. n})
        BY <1>5, <1>7
    <2>2. CellsFor({s[j] : j \in 1 .. n}) \subseteq Judging!ToSet(plan)
        BY <1>6, <1>7 DEF CellsFor
    <2> QED
        BY <2>1, <2>2
<1> QED
    BY <1>1, <1>2, <1>3, <1>5, <1>8

\* The cohorts have no cell in common, and the part is one task of the holdout.
LEMMA Cohorts ==
    ASSUME Judging!NativeJudgingAssumption
    PROVE  /\ Judging!FeedbackCells = CellsFor(FeedbackTasks)
           /\ Judging!HoldoutCells = CellsFor(HoldoutTasks)
           /\ Judging!AllCells = Judging!FeedbackCells \cup Judging!HoldoutCells
           /\ Judging!FeedbackCells \cap Judging!HoldoutCells = {}
           /\ Judging!ToSet(Judging!CellsOf(Judging!Part)) = CellsFor(PartTasks)
           /\ CellsFor(PartTasks) \subseteq Judging!HoldoutCells
           /\ Judging!ToSet(Feedback) = FeedbackTasks /\ Judging!ToSet(Holdout) = HoldoutTasks
<1>1. /\ Feedback \in Seq(FeedbackTasks) /\ Holdout \in Seq(HoldoutTasks)
      /\ Judging!ToSet(Feedback) = FeedbackTasks /\ Judging!ToSet(Holdout) = HoldoutTasks
      /\ FeedbackTasks \cap HoldoutTasks = {} /\ Len(Holdout) \in Nat /\ Len(Holdout) >= 1
      /\ Len(Feedback) \in Nat
    <2>1. Judging!ToSet(Feedback) = FeedbackTasks /\ Judging!ToSet(Holdout) = HoldoutTasks
        <3>1. PICK T, U : Feedback \in Seq(T) /\ Holdout \in Seq(U)
            BY DEF Judging!NativeJudgingAssumption
        <3>2. DOMAIN Feedback = 1 .. Len(Feedback) /\ DOMAIN Holdout = 1 .. Len(Holdout)
            BY <3>1
        <3> QED
            BY <3>2 DEF Judging!ToSet, FeedbackTasks, HoldoutTasks
    <2>2. Feedback \in Seq(FeedbackTasks) /\ Holdout \in Seq(HoldoutTasks) /\ Holdout # << >>
          /\ FeedbackTasks \cap HoldoutTasks = {}
        BY <2>1 DEF Judging!NativeJudgingAssumption
    <2> HIDE DEF FeedbackTasks, HoldoutTasks
    <2>3. Len(Holdout) \in Nat /\ Len(Holdout) >= 1 /\ Len(Feedback) \in Nat
        BY <2>2
    <2> QED
        BY <2>1, <2>2, <2>3
<1>2. Judging!FeedbackCells = CellsFor(FeedbackTasks)
    BY <1>1, CellsOfTasks DEF FeedbackTasks, Judging!FeedbackCells
<1>3. Judging!HoldoutCells = CellsFor(HoldoutTasks)
    BY <1>1, CellsOfTasks DEF HoldoutTasks, Judging!HoldoutCells
<1>4. Judging!AllCells = Judging!FeedbackCells \cup Judging!HoldoutCells
    <2>1. PICK both : both = Feedback \o Holdout
        OBVIOUS
    <2>2. /\ both \in Seq(FeedbackTasks \cup HoldoutTasks)
          /\ Len(both) = Len(Feedback) + Len(Holdout)
          /\ \A i \in 1 .. Len(both) : both[i] = IF i <= Len(Feedback) THEN Feedback[i]
                                                 ELSE Holdout[i - Len(Feedback)]
        <3>1. PICK T : T = FeedbackTasks \cup HoldoutTasks
            OBVIOUS
        <3> HIDE DEF FeedbackTasks, HoldoutTasks
        <3>2. Feedback \in Seq(T) /\ Holdout \in Seq(T)
            BY <1>1, <3>1
        <3> QED
            BY <2>1, <3>1, <3>2
    <2>3. {both[i] : i \in 1 .. Len(both)} = FeedbackTasks \cup HoldoutTasks
        <3>1. \A i \in 1 .. Len(Feedback) : i \in 1 .. Len(both) /\ both[i] = Feedback[i]
            BY <1>1, <2>2
        <3>2. \A i \in 1 .. Len(Holdout) : /\ Len(Feedback) + i \in 1 .. Len(both)
                                           /\ both[Len(Feedback) + i] = Holdout[i]
            <4> SUFFICES ASSUME NEW i \in 1 .. Len(Holdout)
                         PROVE  /\ Len(Feedback) + i \in 1 .. Len(both)
                                /\ both[Len(Feedback) + i] = Holdout[i]
                OBVIOUS
            <4>1. PICK f \in Nat, h \in Nat : /\ f = Len(Feedback) /\ h = Len(Holdout)
                                             /\ Len(both) = f + h
                BY <1>1, <2>2
            <4>2. f + i \in 1 .. Len(both) /\ ~(f + i <= f) /\ (f + i) - f = i
                BY <4>1
            <4> QED
                BY <2>2, <4>1, <4>2
        <3>3. \A i \in 1 .. Len(both) : both[i] \in FeedbackTasks \cup HoldoutTasks
            <4> HIDE DEF FeedbackTasks, HoldoutTasks
            <4> QED
                BY <2>2
        <3>4. FeedbackTasks \subseteq {both[i] : i \in 1 .. Len(both)}
            BY <3>1 DEF FeedbackTasks
        <3>5. HoldoutTasks \subseteq {both[i] : i \in 1 .. Len(both)}
            BY <3>2 DEF HoldoutTasks
        <3> HIDE DEF FeedbackTasks, HoldoutTasks
        <3> QED
            BY <3>3, <3>4, <3>5
    <2>4. Judging!AllCells = CellsFor(FeedbackTasks \cup HoldoutTasks)
        <3>1. PICK T : T = FeedbackTasks \cup HoldoutTasks
            OBVIOUS
        <3>2. Judging!ToSet(Judging!CellsOf(both)) = CellsFor({both[i] : i \in 1 .. Len(both)})
            <4>1. both \in Seq(T)
                BY <2>2, <3>1
            <4> QED
                BY <4>1, CellsOfTasks
        <3> QED
            BY <2>1, <2>3, <3>2 DEF Judging!AllCells, Judging!Planned
    <2> QED
        BY <1>2, <1>3, <2>4 DEF CellsFor
<1>5. Judging!FeedbackCells \cap Judging!HoldoutCells = {}
    BY <1>1, <1>2, <1>3 DEF CellsFor, Judging!Of
<1>6. Judging!ToSet(Judging!CellsOf(Judging!Part)) = CellsFor(PartTasks)
    <2>1. Judging!Part = <<Holdout[1]>>
        BY DEF Judging!Part
    <2>2. <<Holdout[1]>> \in Seq({Holdout[1]}) /\ Len(<<Holdout[1]>>) = 1
          /\ {<<Holdout[1]>>[j] : j \in 1 .. Len(<<Holdout[1]>>)} = {Holdout[1]}
        OBVIOUS
    <2> QED
        BY <2>1, <2>2, CellsOfTasks DEF PartTasks
<1>7. CellsFor(PartTasks) \subseteq Judging!HoldoutCells
    BY <1>1, <1>3 DEF CellsFor, PartTasks, HoldoutTasks
<1> QED
    BY <1>1, <1>2, <1>3, <1>4, <1>5, <1>6, <1>7

Outputs == {"main", "fresh"}
Roots == {"feedback", "holdout", "retry", "experiment"}
Seals == {"feedback", "attempts", "attempts_so_far", "holdout", "projection", "retried",
          "progress", "experiment"}
\* The places of a command that has a cell in hand.
Working == {"look_up", "harness", "receipt", "normalize", "note", "write"}

JudgingTypes ==
    /\ circumstances \in Setups /\ judgeKills \in Nat
    /\ official \in [Outputs -> [Judging!AllCells -> {None} \cup Judging!Leavings]]
    /\ natives \in [Roots -> [Judging!AllCells -> {None} \cup Judging!NativeCells]]
    /\ notes = [r \in Roots |-> [c \in Judging!AllCells |-> notes[r][c]]]
    /\ sealed = [n \in Seals |-> sealed[n]]
    /\ judgePc \in {"idle", "scan"} \cup Working

\* What is behind a native cell of a root.
Sound(root, c, x) ==
    /\ x \in Judging!NativeCells
    /\ x.how \in {"judged", "failed"} <=> circumstances.pairs[c.task] = "distinct"
    /\ x.how = "judged" => x.outcome \in Judging!Outcomes /\ Judging!Said(root, c) = x.outcome
    /\ x.how = "failed" => x.outcome \in {"evaluator", "incomplete", "prefetch"}
    /\ x.how \notin {"judged", "failed"} => x.outcome = "none"
    /\ x.outcome = "evaluator" => /\ Judging!Verdict(root, c) # None
                                  /\ Judging!Verdict(root, c).state = "failed"
    /\ x.outcome = "incomplete" => judgeKills > 0

\* Every native cell has something behind it.
NativesFit ==
    \A r \in Roots, c \in Judging!AllCells :
        natives[r][c] # None => Sound(r, c, natives[r][c])

\* What an evaluator left unfinished was killed, or is being written.
OfficialFits ==
    \A o \in Outputs, c \in Judging!AllCells :
        LET left == official[o][c] IN
        left # None /\ left.state \notin {"received", "failed"} =>
            \/ judgeKills > 0
            \/ left.state = "reported" /\ judgePc = "receipt" /\ o = Judging!Out /\ c = Judging!Cell

\* A report has an outcome, or is rejected by normalize_native_report.
OutcomesFit ==
    \A o \in Outputs, c \in Judging!AllCells :
        official[o][c] # None /\ official[o][c].state \in {"reported", "received"}
        => official[o][c].outcome \in Judging!Outcomes \cup {"malformed"}

\* A note without its native cell: the command that wrote it was killed, or writes on.
NotesFit ==
    \A r \in Roots, c \in Judging!AllCells :
        notes[r][c] # None /\ natives[r][c] = None =>
            judgeKills > 0 \/ (judgePc = "write" /\ r = Judging!Evidence /\ c = Judging!Cell)

\* The cells of the holdout are opened by the gate, in their order.
First == Judging!CellsOf(Holdout)[1]
PartGenerated == CellsFor(PartTasks) \subseteq generated
GeneratedFits ==
    /\ circumstances.program = "experiment" => Judging!AllCells \subseteq generated
    /\ circumstances.program # "experiment" /\ generated \cap Judging!HoldoutCells # {}
       => ~Judging!Locked
    /\ PartGenerated \/ generated \cap Judging!HoldoutCells \subseteq {First}

\* A summary that is frozen is what its command would say now.
Says(name, cmd) ==
    Judging!Frozen(name) =>
        sealed[name] = Judging!SummaryOf(cmd) /\ Judging!Complete(Judging!Shown(cmd))
HoldoutGenerated == Judging!HoldoutCells \subseteq generated
SealsFit ==
    /\ Says("feedback", "feedback") /\ Says("projection", "project")
    /\ Says("experiment", "experiment")
    /\ Says("holdout", "judge") \/ Says("holdout", "judge_part")
    /\ Judging!Frozen("attempts") =>
         /\ HoldoutGenerated
         /\ ~circumstances.cached =>
              sealed["attempts"] = [scope |-> "generate", called |-> FALSE, passed |-> FALSE,
                                    cells |-> Judging!Cardinality(Judging!HoldoutCells)]
    /\ Judging!Frozen("attempts_so_far") /\ sealed["attempts_so_far"].cells >= 2 => PartGenerated
    /\ Judging!Frozen("retried") =>
         /\ Judging!Failures(sealed["retried"].cells) # {} => ~sealed["retried"].passed
         /\ Judging!Failures(sealed["retried"].cells) = {} =>
              sealed["retried"] = Judging!SummaryOf("retry")
    /\ \A n \in {"projection", "retried"} : Judging!Frozen(n) =>
         HoldoutGenerated /\ Judging!Complete(Judging!Shown("judge"))
    /\ Judging!Frozen("holdout") /\ sealed["holdout"].scope = "judge" => HoldoutGenerated

\* What a command knows.
CommandTypes ==
    /\ command \in [cmd : Judging!CommandsOf(circumstances.program), left : Nat,
                    at : Nat \ {0}, result : {None} \cup Judging!NativeCells,
                    called : BOOLEAN]
    /\ command.called => circumstances.cached
Knows ==
    /\ command.cmd \notin {"feedback", "experiment"} => ~Judging!Locked
    /\ command.cmd \in {"judge", "project", "retry"} => HoldoutGenerated
    /\ command.cmd = "judge_part" => PartGenerated
    /\ command.cmd \in {"project", "retry"} => Judging!Complete(Judging!Shown("judge"))
    /\ Judging!Generating /\ command.left > 0 =>
         \A i \in 1 .. 2 : i < command.at => Judging!CellsOf(Holdout)[i] \in generated

\* ... and the cell it has in hand.
InHand ==
    /\ command.at <= Len(Judging!Plan) /\ ~Judging!Generating /\ command.left # 0
    /\ natives[Judging!Evidence][Judging!Cell] = None
    /\ command.cmd = "retry" => Judging!Source[Judging!Cell].how = "failed"
    /\ judgePc \in {"look_up", "harness", "receipt", "normalize"} =>
         circumstances.pairs[Judging!Cell.task] = "distinct"
    /\ judgePc = "harness" => Judging!There = None
    /\ judgePc = "receipt" => Judging!There # None /\ Judging!There.state = "reported"
    /\ judgePc = "normalize" => Judging!There # None /\ Judging!There.state = "received"
    /\ judgePc \in {"note", "write"} =>
         Sound(Judging!Evidence, Judging!Cell, command.result)

CommandFits ==
    /\ judgePc # "idle" => CommandTypes /\ Knows
    /\ judgePc \in Working => InHand

JudgingInv ==
    /\ JudgingTypes /\ NativesFit /\ OfficialFits /\ OutcomesFit /\ NotesFit
    /\ GeneratedFits /\ SealsFit /\ CommandFits

-----------------------------------------------------------------------------
(* What the invariant says of a command.                                   *)

\* The roots and the cells of a command.
LEMMA Evidences ==
    ASSUME CommandTypes
    PROVE  /\ Judging!Evidence \in Roots
           /\ Judging!Evidence = "retry" <=> command.cmd = "retry"
           /\ Judging!Out \in Outputs
           /\ \A c : Judging!Verdict(Judging!Evidence, c) = official[Judging!Out][c]
<1>1. Judging!Evidence = IF command.cmd = "feedback" THEN "feedback"
                         ELSE IF command.cmd = "retry" THEN "retry"
                         ELSE IF command.cmd = "experiment" THEN "experiment"
                         ELSE "holdout"
    BY DEF Judging!Evidence
<1>2. Judging!Evidence = "retry" <=> command.cmd = "retry"
    BY <1>1
<1> QED
    BY <1>1, <1>2 DEF Roots, Outputs, Judging!Out, Judging!Verdict

LEMMA Programs ==
    ASSUME Judging!NativeJudgingAssumption, circumstances \in Setups, CommandTypes
    PROVE  /\ command.cmd \in {"feedback", "generate", "generate_part", "judge", "judge_part",
                               "project", "retry", "experiment"}
           /\ command.cmd = "experiment" <=> circumstances.program = "experiment"
<1>1. circumstances.program \in {"round", "parts", "experiment"}
    BY DEF Judging!NativeJudgingAssumption
<1>2. command.cmd \in Judging!CommandsOf(circumstances.program)
    BY DEF CommandTypes
<1>3. CASE circumstances.program = "round"
    BY <1>2, <1>3 DEF Judging!CommandsOf
<1>4. CASE circumstances.program = "parts"
    BY <1>2, <1>4 DEF Judging!CommandsOf
<1>5. CASE circumstances.program = "experiment"
    BY <1>2, <1>5 DEF Judging!CommandsOf
<1> QED
    BY <1>1, <1>3, <1>4, <1>5

\* Which cells a command goes through.
LEMMA PlannedCells ==
    ASSUME Judging!NativeJudgingAssumption, circumstances \in Setups, CommandTypes,
           command.at <= Len(Judging!Plan)
    PROVE  /\ Judging!Cell \in Judging!AllCells
           /\ command.cmd = "feedback" => Judging!Cell \in Judging!FeedbackCells
           /\ command.cmd \in {"generate", "judge", "retry"} =>
                Judging!Cell \in Judging!HoldoutCells
           /\ command.cmd \in {"generate_part", "judge_part"} =>
                Judging!Cell \in CellsFor(PartTasks)
           /\ command.cmd # "project"
<1>1. command.at \in Nat \ {0}
    BY DEF CommandTypes
<1>2. PICK i \in Nat \ {0} : i = command.at /\ i <= Len(Judging!Plan)
    BY <1>1
<1>3. Judging!Cell = Judging!Plan[i]
    BY <1>2 DEF Judging!Cell
<1>4. ASSUME NEW T, NEW s \in Seq(T), Judging!Plan = Judging!CellsOf(s)
      PROVE  Judging!Cell \in Judging!ToSet(Judging!CellsOf(s))
    <2>1. /\ Len(Judging!CellsOf(s)) = 2 * Len(s)
          /\ \A k \in 1 .. 2 * Len(s) : Judging!CellsOf(s)[k] \in
                CellsFor({s[j] : j \in 1 .. Len(s)})
          /\ Judging!ToSet(Judging!CellsOf(s)) = CellsFor({s[j] : j \in 1 .. Len(s)})
        BY CellsOfTasks
    <2>2. i \in 1 .. 2 * Len(s)
        BY <1>2, <1>4, <2>1
    <2> QED
        BY <1>3, <1>4, <2>1, <2>2
<1>5. Feedback \in Seq(FeedbackTasks) /\ Holdout \in Seq(HoldoutTasks)
    BY Cohorts DEF Judging!NativeJudgingAssumption
<1>6. CASE command.cmd = "feedback"
    <2>1. Judging!Plan = Judging!CellsOf(Feedback)
        BY <1>6 DEF Judging!Plan
    <2> QED
        BY <1>4, <1>5, <1>6, <2>1, Cohorts DEF Judging!FeedbackCells
<1>7. CASE command.cmd \in {"generate", "judge", "retry"}
    <2>1. Judging!Plan = Judging!CellsOf(Holdout)
        BY <1>7 DEF Judging!Plan
    <2> QED
        BY <1>4, <1>5, <1>7, <2>1, Cohorts DEF Judging!HoldoutCells
<1>8. CASE command.cmd \in {"generate_part", "judge_part"}
    <2>1. Judging!Plan = Judging!CellsOf(Judging!Part)
        BY <1>8 DEF Judging!Plan
    <2>2. Judging!Part \in Seq({Holdout[1]})
        BY DEF Judging!Part
    <2> QED
        BY <1>4, <1>8, <2>1, <2>2, Cohorts
<1>9. CASE command.cmd = "experiment"
    <2>1. Judging!Plan = Judging!CellsOf(Feedback \o Holdout)
        BY <1>9 DEF Judging!Plan, Judging!Planned
    <2>2. Feedback \o Holdout \in Seq(FeedbackTasks \cup HoldoutTasks)
        <3>1. PICK T : T = FeedbackTasks \cup HoldoutTasks
            OBVIOUS
        <3> HIDE DEF FeedbackTasks, HoldoutTasks
        <3>2. Feedback \in Seq(T) /\ Holdout \in Seq(T)
            BY <1>5, <3>1
        <3> QED
            BY <3>1, <3>2
    <2> QED
        BY <1>4, <1>9, <2>1, <2>2 DEF Judging!AllCells, Judging!Planned
<1>10. CASE command.cmd = "project"
    <2>1. Judging!Plan = << >>
        BY <1>10 DEF Judging!Plan
    <2>2. FALSE
        <3>1. Len(Judging!Plan) = 0
            BY <2>1
        <3> QED
            BY <1>2, <3>1
    <2> QED
        BY <2>2
<1> QED
    BY <1>6, <1>7, <1>8, <1>9, <1>10, Programs

\* An arm of a task in hand is a cell of the same kind.
LEMMA BothArms ==
    ASSUME NEW T, NEW c \in CellsFor(T), NEW arm \in ArmSet
    PROVE  c.task \in T /\ Judging!Of(c.task, arm) \in CellsFor(T)
BY DEF CellsFor, Judging!Of

LEMMA FirstTask ==
    ASSUME Judging!NativeJudgingAssumption
    PROVE  /\ Judging!CellsOf(Holdout)[1] = Judging!Of(Holdout[1], "baseline")
           /\ Judging!CellsOf(Holdout)[2] = Judging!Of(Holdout[1], "taught")
           /\ \A i \in {1, 2} : Judging!CellsOf(Judging!Part)[i] = Judging!CellsOf(Holdout)[i]
           /\ CellsFor(PartTasks) = {Judging!CellsOf(Holdout)[i] : i \in {1, 2}}
<1>1. ASSUME NEW T, NEW s \in Seq(T), s # << >>
      PROVE  /\ Judging!CellsOf(s)[1] = Judging!Of(s[1], "baseline")
             /\ Judging!CellsOf(s)[2] = Judging!Of(s[1], "taught")
    <2>1. PICK n \in Nat \ {0} : n = Len(s)
        BY <1>1
    <2>2. 1 \in 1 .. 2 * n /\ 2 \in 1 .. 2 * n
        OBVIOUS
    <2>3. /\ (1 + 1) \div 2 = 1 /\ 2 - (1 % 2) = 1
          /\ (2 + 1) \div 2 = 1 /\ 2 - (2 % 2) = 2
        OBVIOUS
    <2>4. /\ Judging!CellsOf(s)[1] = [task |-> s[(1 + 1) \div 2],
                                      arm |-> Judging!ArmNames[2 - (1 % 2)]]
          /\ Judging!CellsOf(s)[2] = [task |-> s[(2 + 1) \div 2],
                                      arm |-> Judging!ArmNames[2 - (2 % 2)]]
        BY <2>1, <2>2 DEF Judging!CellsOf
    <2> QED
        BY <2>3, <2>4 DEF Judging!Of, Judging!ArmNames
<1>2. Holdout \in Seq(HoldoutTasks) /\ Holdout # << >>
    BY Cohorts DEF Judging!NativeJudgingAssumption
<1>3. /\ Judging!CellsOf(Holdout)[1] = Judging!Of(Holdout[1], "baseline")
      /\ Judging!CellsOf(Holdout)[2] = Judging!Of(Holdout[1], "taught")
    BY <1>1, <1>2
<1>4. /\ Judging!CellsOf(Judging!Part)[1] = Judging!Of(Holdout[1], "baseline")
      /\ Judging!CellsOf(Judging!Part)[2] = Judging!Of(Holdout[1], "taught")
    <2>1. Judging!Part \in Seq({Holdout[1]}) /\ Judging!Part # << >>
          /\ Judging!Part[1] = Holdout[1]
        BY DEF Judging!Part
    <2> QED
        BY <1>1, <2>1
<1>5. CellsFor(PartTasks) = {Judging!CellsOf(Holdout)[i] : i \in {1, 2}}
    BY <1>3 DEF CellsFor, PartTasks, ArmSet
<1> QED
    BY <1>3, <1>4, <1>5

LEMMA CommandIs ==
    ASSUME CommandTypes
    PROVE  /\ command = [command EXCEPT !.at = command.at, !.left = command.left,
                                        !.result = command.result, !.called = command.called]
           /\ command.at \in Nat \ {0} /\ command.left \in Nat /\ command.called \in BOOLEAN
           /\ command.result \in {None} \cup Judging!NativeCells
           /\ command.called => circumstances.cached
BY DEF CommandTypes

\* The first two cells that any command generates are those of the first holdout task.
LEMMA FirstCells ==
    ASSUME Judging!NativeJudgingAssumption, circumstances \in Setups, CommandTypes,
           command.at <= Len(Judging!Plan), Judging!Generating
    PROVE  command.at <= 2 => Judging!Cell = Judging!CellsOf(Holdout)[command.at]
<1>1. command.cmd \in {"generate", "generate_part"}
    BY DEF Judging!Generating
<1>2. CASE command.cmd = "generate"
    BY <1>2 DEF Judging!Cell, Judging!Plan
<1>3. CASE command.cmd = "generate_part" /\ command.at <= 2
    <2>1. Judging!Plan = Judging!CellsOf(Judging!Part)
        BY <1>3 DEF Judging!Plan
    <2>2. command.at \in {1, 2}
        <3>1. command.at \in Nat \ {0}
            BY CommandIs
        <3>2. command.at <= 2
            BY <1>3
        <3> QED
            BY <3>1, <3>2
    <2> QED
        BY <1>3, <2>1, <2>2, FirstTask DEF Judging!Cell
<1> QED
    BY <1>1, <1>2, <1>3

-----------------------------------------------------------------------------
(* What no step of the judgement takes back.                               *)

Grow ==
    /\ circumstances' = circumstances /\ generated \subseteq generated'
    /\ judgeKills' \in Nat /\ judgeKills <= judgeKills'
    /\ \A o \in Outputs, c \in Judging!AllCells :
          official[o][c] # None /\ official[o][c].state \in {"received", "failed"}
          => official'[o][c] = official[o][c]
    /\ \A r \in Roots, c \in Judging!AllCells :
          natives[r][c] # None => natives'[r][c] = natives[r][c]
    /\ natives' \in [Roots -> [Judging!AllCells -> {None} \cup Judging!NativeCells]]
    /\ \A c \in Judging!AllCells : natives'["retry"][c] # natives["retry"][c] =>
          Judging!Source[c] # None /\ Judging!Source[c].how = "failed"

LEMMA VerdictIn ==
    ASSUME NEW root
    PROVE  \E o \in Outputs : \A c : /\ Judging!Verdict(root, c) = official[o][c]
                                     /\ circumstances' = circumstances =>
                                          Judging!Verdict(root, c)' = official'[o][c]
<1> DEFINE o == IF root = "retry" /\ circumstances.freshRoot THEN "fresh" ELSE "main"
<1>1. o \in Outputs
    BY DEF Outputs
<1>2. \A c : Judging!Verdict(root, c) = official[o][c]
    BY DEF Judging!Verdict
<1>3. \A c : circumstances' = circumstances => Judging!Verdict(root, c)' = official'[o][c]
    BY DEF Judging!Verdict
<1> QED
    BY <1>1, <1>2, <1>3

\* What is behind a native cell stays behind it.
LEMMA SoundStays ==
    ASSUME Judging!NativeJudgingAssumption, JudgingTypes, Grow,
           NEW root \in Roots, NEW c \in Judging!AllCells, NEW x, Sound(root, c, x)
    PROVE  Sound(root, c, x)'
<1>1. PICK o \in Outputs : /\ Judging!Verdict(root, c) = official[o][c]
                           /\ Judging!Verdict(root, c)' = official'[o][c]
    <2>1. circumstances' = circumstances
        BY DEF Grow
    <2> QED
        BY <2>1, VerdictIn
<1>2. ASSUME official[o][c] # None, official[o][c].state \in {"received", "failed"}
      PROVE  official'[o][c] = official[o][c]
    BY <1>2 DEF Grow
<1>3. x.how = "judged" => Judging!Said(root, c)' = x.outcome
    <2>1. CASE x.how = "judged"
        <3>1. x.outcome \in Judging!Outcomes /\ Judging!Said(root, c) = x.outcome
            BY <2>1 DEF Sound
        <3>2. x.outcome # "none"
            BY <3>1 DEF Judging!Outcomes
        <3>3. /\ official[o][c] # None /\ official[o][c].state = "received"
              /\ official[o][c].outcome = x.outcome
            BY <1>1, <3>1, <3>2 DEF Judging!Said
        <3>4. official'[o][c] = official[o][c]
            BY <1>2, <3>3
        <3> QED
            BY <1>1, <3>3, <3>4 DEF Judging!Said
    <2> QED
        BY <2>1
<1>4. x.outcome = "evaluator" => /\ Judging!Verdict(root, c)' # None
                                 /\ Judging!Verdict(root, c)'.state = "failed"
    BY <1>1, <1>2 DEF Sound
<1>5. x.outcome = "incomplete" => judgeKills' > 0
    BY DEF Sound, Grow, JudgingTypes
<1>6. circumstances' = circumstances
    BY DEF Grow
<1> QED
    BY <1>3, <1>4, <1>5, <1>6 DEF Sound, Judging!NativeCells, Judging!Outcomes

LEMMA NativesStay ==
    ASSUME Judging!NativeJudgingAssumption, JudgingTypes, NativesFit, Grow, natives' = natives
    PROVE  NativesFit'
BY SoundStays DEF NativesFit

\* What the summaries are made of.
LEMMA SummaryStays ==
    ASSUME circumstances' = circumstances, NEW cmd, Judging!Shown(cmd)' = Judging!Shown(cmd)
    PROVE  /\ Judging!SummaryOf(cmd)' = Judging!SummaryOf(cmd)
           /\ Judging!Complete(Judging!Shown(cmd))' <=> Judging!Complete(Judging!Shown(cmd))
<1>1. Judging!FeedbackGate(Judging!Shown(cmd))' <=> Judging!FeedbackGate(Judging!Shown(cmd))
    BY DEF Judging!FeedbackGate, Judging!Complete, Judging!Some, Judging!Failures,
       Judging!Gained, Judging!Evaluable, Judging!Done, Judging!EvaluatorValid,
       Judging!Resolved
<1>2. Judging!CapabilityGate(Judging!Shown(cmd))' <=> Judging!CapabilityGate(Judging!Shown(cmd))
    BY DEF Judging!CapabilityGate, Judging!Complete, Judging!Some, Judging!Failures,
       Judging!Regressed, Judging!Unsafe, Judging!Evaluable, Judging!Done,
       Judging!EvaluatorValid, Judging!Resolved, Judging!Qualified, Judging!NoOp
<1>3. Judging!ExperimentGate(Judging!Shown(cmd))' <=> Judging!ExperimentGate(Judging!Shown(cmd))
    BY DEF Judging!ExperimentGate, Judging!Some, Judging!Gained, Judging!Regressed,
       Judging!Unsafe, Judging!Evaluable, Judging!Done, Judging!EvaluatorValid,
       Judging!Resolved
<1>4. Judging!Passed(cmd)' = Judging!Passed(cmd)
    BY <1>1, <1>2, <1>3 DEF Judging!Passed
<1> QED
    BY <1>4 DEF Judging!SummaryOf, Judging!Complete

\* Cells that are all judged show the same from then on.
LEMMA CompleteStays ==
    ASSUME Judging!NativeJudgingAssumption, JudgingTypes, Grow,
           NEW cmd \in {"feedback", "judge", "project", "judge_part", "experiment"},
           Judging!Complete(Judging!Shown(cmd))
    PROVE  Judging!Shown(cmd)' = Judging!Shown(cmd)
<1>1. ASSUME NEW r \in Roots, NEW S \in SUBSET Judging!AllCells,
             \A c \in S : natives[r][c] # None
      PROVE  \A c \in S : natives'[r][c] = natives[r][c]
    BY <1>1 DEF Grow
<1>2. /\ Judging!FeedbackCells \subseteq Judging!AllCells
      /\ Judging!HoldoutCells \subseteq Judging!AllCells
      /\ Judging!ToSet(Judging!CellsOf(Judging!Part)) \subseteq Judging!AllCells
    BY Cohorts
<1>3. CASE cmd = "feedback"
    <2>1. Judging!Shown(cmd) = [c \in Judging!FeedbackCells |-> natives["feedback"][c]]
          /\ Judging!Shown(cmd)' = [c \in Judging!FeedbackCells |-> natives'["feedback"][c]]
        BY <1>3 DEF Judging!Shown, Judging!FeedbackCells
    <2>2. \A c \in Judging!FeedbackCells : natives["feedback"][c] # None
        BY <2>1 DEF Judging!Complete
    <2>3. \A c \in Judging!FeedbackCells : natives'["feedback"][c] = natives["feedback"][c]
        BY <1>1, <1>2, <2>2 DEF Roots
    <2> QED
        BY <2>1, <2>3
<1>4. CASE cmd \in {"judge", "project"}
    <2>1. Judging!Shown(cmd) = [c \in Judging!HoldoutCells |-> natives["holdout"][c]]
          /\ Judging!Shown(cmd)' = [c \in Judging!HoldoutCells |-> natives'["holdout"][c]]
        BY <1>4 DEF Judging!Shown, Judging!Source
    <2>2. \A c \in Judging!HoldoutCells : natives["holdout"][c] # None
        BY <2>1 DEF Judging!Complete
    <2>3. \A c \in Judging!HoldoutCells : natives'["holdout"][c] = natives["holdout"][c]
        BY <1>1, <1>2, <2>2 DEF Roots
    <2> QED
        BY <2>1, <2>3
<1>5. CASE cmd = "judge_part"
    <2> DEFINE S == Judging!ToSet(Judging!CellsOf(Judging!Part))
    <2>1. Judging!Shown(cmd) = [c \in S |-> natives["holdout"][c]]
          /\ Judging!Shown(cmd)' = [c \in S |-> natives'["holdout"][c]]
        BY <1>5 DEF Judging!Shown, Judging!Source
    <2>2. \A c \in S : natives["holdout"][c] # None
        BY <2>1 DEF Judging!Complete
    <2>3. \A c \in S : natives'["holdout"][c] = natives["holdout"][c]
        BY <1>1, <1>2, <2>2 DEF Roots
    <2> QED
        BY <2>1, <2>3
<1>6. CASE cmd = "experiment"
    <2>1. Judging!Shown(cmd) = natives["experiment"] /\ Judging!Shown(cmd)' = natives'["experiment"]
        BY <1>6 DEF Judging!Shown
    <2>2. DOMAIN natives["experiment"] = Judging!AllCells
        BY DEF JudgingTypes, Roots
    <2>3. \A c \in Judging!AllCells : natives'["experiment"][c] = natives["experiment"][c]
        BY <1>1, <2>1, <2>2 DEF Judging!Complete, Roots
    <2>4. /\ natives["experiment"] \in [Judging!AllCells -> {None} \cup Judging!NativeCells]
          /\ natives'["experiment"] \in [Judging!AllCells -> {None} \cup Judging!NativeCells]
        BY DEF JudgingTypes, Grow, Roots
    <2>5. natives'["experiment"] = natives["experiment"]
        <3>1. /\ natives["experiment"] = [c \in Judging!AllCells |-> natives["experiment"][c]]
              /\ natives'["experiment"] = [c \in Judging!AllCells |-> natives'["experiment"][c]]
            BY <2>4
        <3>2. [c \in Judging!AllCells |-> natives'["experiment"][c]]
              = [c \in Judging!AllCells |-> natives["experiment"][c]]
            BY <2>3
        <3> QED
            BY <3>1, <3>2
    <2> QED
        BY <2>1, <2>5
<1> QED
    BY <1>3, <1>4, <1>5, <1>6

\* A retry that has no failure left shows the same from then on.
LEMMA RetriedStays ==
    ASSUME Judging!NativeJudgingAssumption, JudgingTypes, Grow,
           Judging!Complete(Judging!Shown("judge")),
           Judging!Failures(Judging!Shown("retry")) = {}
    PROVE  Judging!Shown("retry")' = Judging!Shown("retry")
<1>1. /\ Judging!Shown("retry") = [c \in Judging!HoldoutCells |->
            IF natives["retry"][c] # None THEN natives["retry"][c] ELSE natives["holdout"][c]]
      /\ Judging!Shown("retry")' = [c \in Judging!HoldoutCells |->
            IF natives'["retry"][c] # None THEN natives'["retry"][c] ELSE natives'["holdout"][c]]
    BY DEF Judging!Shown, Judging!Overlay, Judging!Source
<1>2. \A c \in Judging!HoldoutCells : c \in Judging!AllCells /\ natives["holdout"][c] # None
    BY Cohorts DEF Judging!Complete, Judging!Shown, Judging!Source
<1>3. ASSUME NEW c \in Judging!HoldoutCells
      PROVE  /\ natives'["holdout"][c] = natives["holdout"][c]
             /\ natives'["retry"][c] = natives["retry"][c]
    <2>1. natives'["holdout"][c] = natives["holdout"][c]
        BY <1>2, <1>3 DEF Grow, Roots
    <2>2. CASE natives["retry"][c] # None
        BY <1>2, <1>3, <2>1, <2>2 DEF Grow, Roots
    <2>3. CASE natives["retry"][c] = None
        <3>1. Judging!Shown("retry")[c] = natives["holdout"][c]
            BY <1>1, <1>3, <2>3
        <3>2. c \in DOMAIN Judging!Shown("retry")
            BY <1>1, <1>3
        <3>3. natives["holdout"][c].how # "failed"
            BY <1>2, <1>3, <3>1, <3>2 DEF Judging!Failures
        <3>4. natives'["retry"][c] = natives["retry"][c]
            BY <1>2, <1>3, <3>3 DEF Grow, Judging!Source
        <3> QED
            BY <2>1, <3>4
    <2> QED
        BY <2>2, <2>3
<1> QED
    BY <1>1, <1>3

LEMMA SaysStays ==
    ASSUME Judging!NativeJudgingAssumption, JudgingTypes, Grow,
           NEW cmd \in {"feedback", "judge", "project", "judge_part", "experiment"}, NEW name,
           sealed'[name] = sealed[name], Says(name, cmd)
    PROVE  Says(name, cmd)'
<1>1. CASE Judging!Complete(Judging!Shown(cmd))
    <2>1. /\ Judging!SummaryOf(cmd)' = Judging!SummaryOf(cmd)
          /\ Judging!Complete(Judging!Shown(cmd))' <=> Judging!Complete(Judging!Shown(cmd))
        BY <1>1, CompleteStays, SummaryStays DEF Grow
    <2> QED
        BY <1>1, <2>1 DEF Says, Judging!Frozen
<1>2. CASE ~Judging!Complete(Judging!Shown(cmd))
    BY <1>2 DEF Says, Judging!Frozen
<1> QED
    BY <1>1, <1>2

\* Frozen summaries agree with the cells, whatever else is written.
LEMMA SealsStay ==
    ASSUME Judging!NativeJudgingAssumption, JudgingTypes, SealsFit, Grow, sealed' = sealed
    PROVE  SealsFit'
<1>1. \A n : Judging!Frozen(n)' <=> Judging!Frozen(n)
    BY DEF Judging!Frozen
<1>2. /\ Says("feedback", "feedback")' /\ Says("projection", "project")'
      /\ Says("experiment", "experiment")'
      /\ Says("holdout", "judge")' \/ Says("holdout", "judge_part")'
    BY SaysStays DEF SealsFit
<1>3. HoldoutGenerated => HoldoutGenerated'
    BY DEF HoldoutGenerated, Grow
<1>4. PartGenerated => PartGenerated'
    BY DEF PartGenerated, Grow
<1>5. Judging!Frozen("attempts") =>
         /\ HoldoutGenerated'
         /\ ~circumstances'.cached =>
              sealed'["attempts"] = [scope |-> "generate", called |-> FALSE, passed |-> FALSE,
                                     cells |-> Judging!Cardinality(Judging!HoldoutCells)]
    BY <1>3 DEF SealsFit, Grow
<1>6. Judging!Complete(Judging!Shown("judge")) => Judging!Complete(Judging!Shown("judge"))'
    BY CompleteStays, SummaryStays DEF Grow
<1>7. \A n \in {"projection", "retried"} : Judging!Frozen(n) =>
         HoldoutGenerated' /\ Judging!Complete(Judging!Shown("judge"))'
    BY <1>3, <1>6 DEF SealsFit
<1>8. ASSUME Judging!Frozen("retried"), Judging!Failures(sealed["retried"].cells) = {}
      PROVE  sealed["retried"] = Judging!SummaryOf("retry")'
    <2>1. /\ sealed["retried"] = Judging!SummaryOf("retry")
          /\ Judging!Complete(Judging!Shown("judge"))
        BY <1>8 DEF SealsFit
    <2>2. Judging!Failures(Judging!Shown("retry")) = {}
        BY <1>8, <2>1 DEF Judging!SummaryOf
    <2> QED
        BY <2>1, <2>2, RetriedStays, SummaryStays DEF Grow
<1>9. Judging!Failures(sealed["retried"].cells)' = Judging!Failures(sealed["retried"].cells)
    BY DEF Judging!Failures
<1>10. (Judging!Frozen("retried") =>
          /\ Judging!Failures(sealed["retried"].cells) # {} => ~sealed["retried"].passed
          /\ Judging!Failures(sealed["retried"].cells) = {} =>
               sealed["retried"] = Judging!SummaryOf("retry"))'
    BY <1>1, <1>8, <1>9 DEF SealsFit
<1>11. (Judging!Frozen("attempts") =>
          /\ HoldoutGenerated
          /\ ~circumstances.cached =>
               sealed["attempts"] = [scope |-> "generate", called |-> FALSE, passed |-> FALSE,
                                     cells |-> Judging!Cardinality(Judging!HoldoutCells)])'
    BY <1>1, <1>5
<1>12. (Judging!Frozen("attempts_so_far") /\ sealed["attempts_so_far"].cells >= 2
        => PartGenerated)'
    BY <1>1, <1>4 DEF SealsFit
<1>13. (Judging!Frozen("holdout") /\ sealed["holdout"].scope = "judge" => HoldoutGenerated)'
    BY <1>1, <1>3 DEF SealsFit
<1> QED
    BY <1>1, <1>2, <1>7, <1>10, <1>11, <1>12, <1>13 DEF SealsFit

\* The holdout stays open.
LEMMA OpenStays ==
    ASSUME sealed'["feedback"] = sealed["feedback"], ~Judging!Locked
    PROVE  ~Judging!Locked'
BY DEF Judging!Locked, Judging!Frozen

\* What a command knows stays true while the command is the same or goes on.
LEMMA KnowledgeStays ==
    ASSUME Judging!NativeJudgingAssumption, JudgingTypes, Grow, Knows, CommandTypes,
           sealed'["feedback"] = sealed["feedback"],
           command'.cmd = command.cmd, command'.left <= command.left, command'.left \in Nat,
           command'.at = command.at \/
             /\ command'.at = command.at + 1
             /\ Judging!Generating /\ command'.left > 0 /\ command.at <= 2 =>
                  Judging!CellsOf(Holdout)[command.at] \in generated'
    PROVE  Knows'
<1>1. command.at \in Nat \ {0} /\ command.left \in Nat
    BY DEF CommandTypes
<1>2. HoldoutGenerated => HoldoutGenerated'
    BY DEF HoldoutGenerated, Grow
<1>3. PartGenerated => PartGenerated'
    BY DEF PartGenerated, Grow
<1>4. Judging!Complete(Judging!Shown("judge")) => Judging!Complete(Judging!Shown("judge"))'
    BY CompleteStays, SummaryStays DEF Grow
<1>5. Judging!Generating' <=> Judging!Generating
    BY DEF Judging!Generating
<1>6. ASSUME Judging!Generating, command'.left > 0, NEW i \in 1 .. 2, i < command'.at
      PROVE  Judging!CellsOf(Holdout)[i] \in generated'
    <2>1. command.left > 0
        BY <1>1, <1>6
    <2>2. CASE i < command.at
        <3>1. Judging!CellsOf(Holdout)[i] \in generated
            BY <1>6, <2>1, <2>2 DEF Knows
        <3> QED
            BY <3>1 DEF Grow
    <2>3. CASE ~(i < command.at)
        <3>1. command'.at = command.at + 1
            BY <1>6, <2>3
        <3>2. i = command.at /\ command.at <= 2
            BY <1>1, <1>6, <2>3, <3>1
        <3> QED
            BY <1>1, <1>6, <3>1, <3>2
    <2> QED
        BY <2>2, <2>3
<1>7. ~Judging!Locked => ~Judging!Locked'
    BY OpenStays
<1>8. \A i \in 1 .. 2 : Judging!CellsOf(Holdout)[i]' = Judging!CellsOf(Holdout)[i]
    BY DEF Judging!CellsOf
<1> QED
    BY <1>2, <1>3, <1>4, <1>5, <1>6, <1>7, <1>8 DEF Knows

-----------------------------------------------------------------------------
(* Commands start, raise and go from cell to cell.                         *)

LEMMA JudgingInit ==
    ASSUME Judging!NativeJudgingAssumption, Judging!Init PROVE JudgingInv
<1>1. /\ official = [r \in Outputs |-> [c \in Judging!AllCells |-> None]]
      /\ natives = [r \in Roots |-> [c \in Judging!AllCells |-> None]] /\ notes = natives
      /\ sealed = [n \in Seals |-> None]
      /\ circumstances \in Setups /\ judgeKills = 0 /\ judgePc = "idle"
      /\ generated = IF circumstances.program = "experiment" THEN Judging!AllCells ELSE {}
    BY DEF Judging!Init, Outputs, Roots, Seals
<1>2. JudgingTypes
    BY <1>1 DEF JudgingTypes
<1>3. NativesFit /\ OfficialFits /\ OutcomesFit /\ NotesFit
    BY <1>1 DEF NativesFit, OfficialFits, OutcomesFit, NotesFit
<1>4. \A n \in Seals : ~Judging!Frozen(n)
    BY <1>1 DEF Judging!Frozen
<1>5. SealsFit
    BY <1>4 DEF SealsFit, Says, Seals
<1>6. GeneratedFits
    BY <1>1, Cohorts DEF GeneratedFits, PartGenerated
<1> QED
    BY <1>1, <1>2, <1>3, <1>5, <1>6 DEF JudgingInv, CommandFits, Working

LEMMA GeneratedRest ==
    ASSUME GeneratedFits, generated' = generated, circumstances' = circumstances,
           sealed'["feedback"] = sealed["feedback"]
    PROVE  GeneratedFits'
<1>1. ~Judging!Locked => ~Judging!Locked'
    BY OpenStays
<1> QED
    BY <1>1 DEF GeneratedFits, PartGenerated

\* The parts that a step disturbs are shown one by one; the others follow.
LEMMA StepFits ==
    ASSUME Judging!NativeJudgingAssumption, JudgingInv, JudgingTypes', Grow, NativesFit',
           OfficialFits', OutcomesFit', NotesFit', sealed' = sealed, GeneratedFits',
           CommandFits'
    PROVE  JudgingInv'
BY SealsStay DEF JudgingInv

Stays == UNCHANGED <<circumstances, generated, official, notes, natives, sealed, judgeKills>>

LEMMA StaysGrow ==
    ASSUME JudgingTypes, Stays PROVE Grow
BY DEF Stays, Grow, JudgingTypes

\* Steps that write nothing but the state of the command.
LEMMA QuietStep2 ==
    ASSUME Judging!NativeJudgingAssumption, JudgingInv, Stays, judgePc \notin {"receipt", "write"},
           judgePc' \in {"idle", "scan"} \cup Working, CommandFits'
    PROVE  JudgingInv'
<1>1. JudgingTypes /\ Grow /\ GeneratedFits
    BY StaysGrow DEF JudgingInv
<1>2. JudgingTypes'
    BY <1>1 DEF JudgingTypes, Stays
<1>3. NativesFit'
    BY <1>1, NativesStay DEF JudgingInv, Stays
<1>4. OfficialFits' /\ OutcomesFit'
    BY DEF JudgingInv, OfficialFits, OutcomesFit, Stays
<1>5. NotesFit'
    BY DEF JudgingInv, NotesFit, Stays
<1>6. GeneratedFits'
    BY <1>1, GeneratedRest DEF Stays
<1>7. sealed' = sealed
    BY DEF Stays
<1> QED
    BY <1>1, <1>2, <1>3, <1>4, <1>5, <1>6, <1>7, StepFits

LEMMA RaiseStep ==
    ASSUME Judging!NativeJudgingAssumption, JudgingInv, Judging!Raise,
           judgePc \notin {"receipt", "write"}
    PROVE  JudgingInv'
BY QuietStep2 DEF Judging!Raise, Stays, CommandFits, Working

LEMMA StartStep2 ==
    ASSUME Judging!NativeJudgingAssumption, JudgingInv, Judging!Start
    PROVE  JudgingInv'
<1>1. JudgingTypes /\ SealsFit /\ Stays /\ judgePc = "idle" /\ judgePc' = "scan"
    BY DEF JudgingInv, Judging!Start, Stays
<1>2. PICK cmd \in Judging!CommandsOf(circumstances.program), limit \in circumstances.limits :
        /\ cmd \in {"feedback", "experiment"} \/ Judging!MayStart(cmd)
        /\ command' = [cmd |-> cmd, left |-> limit, at |-> 1, result |-> None, called |-> FALSE]
    BY DEF Judging!Start
<1>3. limit \in Nat \ {0}
    BY <1>1 DEF JudgingTypes, Judging!NativeJudgingAssumption
<1>4. /\ command'.cmd = cmd /\ command'.left = limit /\ command'.at = 1
      /\ command'.called = FALSE
    BY <1>2
<1>5. CommandTypes'
    <2>1. circumstances' = circumstances
        BY <1>1 DEF Stays
    <2>2. Judging!CommandsOf(circumstances.program)' = Judging!CommandsOf(circumstances.program)
        BY <2>1 DEF Judging!CommandsOf
    <2>3. command' \in [cmd : Judging!CommandsOf(circumstances.program), left : Nat,
                        at : Nat \ {0}, result : {None} \cup Judging!NativeCells,
                        called : BOOLEAN]
        BY <1>2, <1>3
    <2> QED
        BY <1>4, <2>2, <2>3 DEF CommandTypes, Judging!NativeCells, Judging!Outcomes
<1>6. cmd \in {"project", "retry"} => Says("holdout", "judge") /\ HoldoutGenerated
                                      /\ Judging!Frozen("holdout")
    <2>1. CASE cmd \in {"project", "retry"}
        <3>1. Judging!Frozen("holdout") /\ sealed["holdout"].scope = "judge"
            BY <1>2, <2>1 DEF Judging!MayStart
        <3>2. ~Judging!Frozen("holdout") \/ sealed["holdout"] = Judging!SummaryOf("judge_part")
              \/ Says("holdout", "judge")
            BY <1>1 DEF SealsFit, Says
        <3>3. Judging!SummaryOf("judge_part").scope = "judge_part"
            BY DEF Judging!SummaryOf
        <3> QED
            BY <1>1, <3>1, <3>2, <3>3 DEF SealsFit
    <2> QED
        BY <2>1
<1>7. Knows'
    <2>1. cmd \notin {"feedback", "experiment"} => ~Judging!Locked
        BY <1>2 DEF Judging!MayStart
    <2>2. cmd \in {"judge", "project", "retry"} => HoldoutGenerated
        BY <1>1, <1>2 DEF Judging!MayStart, SealsFit
    <2>3. cmd = "judge_part" => PartGenerated
        <3>1. 2 * Len(Judging!Part) = 2
            BY DEF Judging!Part
        <3>2. cmd = "judge_part" => /\ Judging!Frozen("attempts_so_far")
                                    /\ sealed["attempts_so_far"].cells >= 2 * Len(Judging!Part)
            BY <1>2 DEF Judging!MayStart
        <3>3. cmd = "judge_part" => /\ Judging!Frozen("attempts_so_far")
                                    /\ sealed["attempts_so_far"].cells >= 2
            BY <3>1, <3>2
        <3> QED
            BY <1>1, <3>3 DEF SealsFit
    <2>4. cmd \in {"project", "retry"} => Judging!Complete(Judging!Shown("judge"))
        BY <1>6 DEF Says
    <2>5. ~Judging!Locked => ~Judging!Locked'
        BY <1>1, OpenStays DEF Stays
    <2>6. Judging!Shown("judge")' = Judging!Shown("judge")
        BY <1>1 DEF Stays, Judging!Shown, Judging!Source
    <2>7. Judging!Complete(Judging!Shown("judge"))' <=> Judging!Complete(Judging!Shown("judge"))
        BY <1>1, <2>6, SummaryStays DEF Stays
    <2>8. HoldoutGenerated' <=> HoldoutGenerated
        BY <1>1 DEF Stays, HoldoutGenerated
    <2>9. PartGenerated' <=> PartGenerated
        BY <1>1 DEF Stays, PartGenerated
    <2>10. \A i \in 1 .. 2 : ~(i < command'.at)
        BY <1>4
    <2>11. (Judging!Generating /\ command.left > 0 =>
              \A i \in 1 .. 2 : i < command.at => Judging!CellsOf(Holdout)[i] \in generated)'
        BY <2>10
    <2> QED
        BY <1>1, <1>4, <2>1, <2>2, <2>3, <2>4, <2>5, <2>7, <2>8, <2>9, <2>11 DEF Knows
<1>8. CommandFits'
    BY <1>1, <1>5, <1>7 DEF CommandFits, Working
<1> QED
    BY <1>1, <1>8, QuietStep2

\* A command that goes on writing nothing keeps its type.
LEMMA CommandGoes ==
    ASSUME CommandTypes, circumstances' = circumstances, NEW at1 \in Nat \ {0}, NEW left1 \in Nat,
           NEW result1 \in {None} \cup Judging!NativeCells, NEW called1 \in BOOLEAN,
           called1 => circumstances.cached,
           command' = [command EXCEPT !.at = at1, !.left = left1, !.result = result1,
                                      !.called = called1]
    PROVE  /\ CommandTypes' /\ command'.cmd = command.cmd /\ command'.at = at1
           /\ command'.left = left1 /\ command'.result = result1
<1>1. Judging!CommandsOf(circumstances.program)' = Judging!CommandsOf(circumstances.program)
    BY DEF Judging!CommandsOf
<1>2. /\ command' \in [cmd : Judging!CommandsOf(circumstances.program), left : Nat,
                       at : Nat \ {0}, result : {None} \cup Judging!NativeCells,
                       called : BOOLEAN]
      /\ command'.cmd = command.cmd /\ command'.at = at1 /\ command'.left = left1
      /\ command'.result = result1 /\ command'.called = called1
    BY DEF CommandTypes
<1> QED
    BY <1>1, <1>2 DEF CommandTypes, Judging!NativeCells, Judging!Outcomes

LEMMA CommandKeeps ==
    ASSUME CommandTypes, circumstances' = circumstances, NEW x \in {None} \cup Judging!NativeCells,
           command' = [command EXCEPT !.result = x]
    PROVE  /\ CommandTypes' /\ command'.cmd = command.cmd /\ command'.at = command.at
           /\ command'.left = command.left /\ command'.result = x
           /\ command'.left <= command.left /\ command'.left \in Nat
<1>1. Judging!CommandsOf(circumstances.program)' = Judging!CommandsOf(circumstances.program)
    BY DEF Judging!CommandsOf
<1>2. /\ command' \in [cmd : Judging!CommandsOf(circumstances.program), left : Nat,
                       at : Nat \ {0}, result : {None} \cup Judging!NativeCells,
                       called : BOOLEAN]
      /\ command'.cmd = command.cmd /\ command'.at = command.at
      /\ command'.left = command.left /\ command'.result = x
      /\ command'.called = command.called /\ command.left \in Nat
    BY DEF CommandTypes
<1>3. CommandTypes'
    BY <1>1, <1>2 DEF CommandTypes, Judging!NativeCells, Judging!Outcomes
<1> QED
    BY <1>2, <1>3

\* The cell in hand is the same in the next state of the command.
LEMMA SameCell ==
    ASSUME command'.cmd = command.cmd, command'.at = command.at,
           circumstances' = circumstances
    PROVE  /\ Judging!Plan' = Judging!Plan /\ Judging!Cell' = Judging!Cell
           /\ Judging!Evidence' = Judging!Evidence /\ Judging!Out' = Judging!Out
           /\ Judging!Generating' <=> Judging!Generating
<1>1. Judging!Plan' = Judging!Plan
    BY DEF Judging!Plan
<1> QED
    BY <1>1 DEF Judging!Cell, Judging!Evidence, Judging!Out, Judging!Generating

\* What has to be shown of the cell in hand after a step of its command.
LEMMA HoldsCell ==
    ASSUME command'.cmd = command.cmd, command'.at = command.at, command'.left = command.left,
           circumstances' = circumstances, natives' = natives, command.left # 0,
           NEW e, e = Judging!Evidence, NEW c, c = Judging!Cell, NEW o, o = Judging!Out, NEW x,
           command.at <= Len(Judging!Plan), ~Judging!Generating, natives[e][c] = None,
           command.cmd = "retry" => Judging!Source[c].how = "failed",
           judgePc' \in {"look_up", "harness", "receipt", "normalize"} =>
             circumstances.pairs[c.task] = "distinct",
           judgePc' = "harness" => official'[o][c] = None,
           judgePc' = "receipt" => official'[o][c] # None /\ official'[o][c].state = "reported",
           judgePc' = "normalize" =>
             official'[o][c] # None /\ official'[o][c].state = "received",
           judgePc' \in {"note", "write"} => command'.result = x /\ Sound(e, c, x)'
    PROVE  InHand'
<1>1. /\ Judging!Plan' = Judging!Plan /\ Judging!Cell' = c
      /\ Judging!Evidence' = e /\ Judging!Out' = o
      /\ (Judging!Generating' <=> Judging!Generating)
    BY SameCell
<1>2. (/\ command.at <= Len(Judging!Plan) /\ ~Judging!Generating /\ command.left # 0
       /\ natives[Judging!Evidence][Judging!Cell] = None
       /\ command.cmd = "retry" => Judging!Source[Judging!Cell].how = "failed")'
    BY <1>1 DEF Judging!Source
<1>3. (judgePc \in {"look_up", "harness", "receipt", "normalize"} =>
         circumstances.pairs[Judging!Cell.task] = "distinct")'
    BY <1>1
<1>4. Judging!There' = official'[o][c]
    BY <1>1 DEF Judging!There
<1>5. (/\ judgePc = "harness" => Judging!There = None
       /\ judgePc = "receipt" => Judging!There # None /\ Judging!There.state = "reported"
       /\ judgePc = "normalize" => Judging!There # None /\ Judging!There.state = "received")'
    BY <1>4
<1>6. (judgePc \in {"note", "write"} =>
         Sound(Judging!Evidence, Judging!Cell, command.result))'
    <2>1. CASE judgePc' \in {"note", "write"}
        <3>1. command'.result = x /\ Sound(e, c, x)'
            BY <2>1
        <3> QED
            BY <1>1, <3>1 DEF Sound, Judging!Said, Judging!Verdict
    <2> QED
        BY <2>1
<1> QED
    BY <1>2, <1>3, <1>5, <1>6 DEF InHand

LEMMA PassStep ==
    ASSUME Judging!NativeJudgingAssumption, JudgingInv, Judging!Pass
    PROVE  JudgingInv'
<1>1. /\ Stays /\ judgePc = "scan" /\ judgePc' = "scan"
      /\ command.at <= Len(Judging!Plan) /\ Judging!Skip(Judging!Cell)
      /\ command' = [command EXCEPT !.at = command.at + 1]
    BY DEF Judging!Pass, Judging!Scanning, Stays
<1>2. JudgingTypes /\ CommandTypes /\ Knows
    BY <1>1 DEF JudgingInv, CommandFits
<1>3. Grow /\ circumstances' = circumstances /\ sealed' = sealed /\ generated' = generated
    BY <1>1, <1>2, StaysGrow DEF Stays
<1>4. /\ CommandTypes' /\ command'.cmd = command.cmd /\ command'.at = command.at + 1
      /\ command'.left = command.left
    <2>1. command.at + 1 \in Nat \ {0}
        BY <1>2, CommandIs
    <2>2. command' = [command EXCEPT !.at = command.at + 1, !.left = command.left,
                                     !.result = command.result, !.called = command.called]
        BY <1>1, <1>2 DEF CommandTypes
    <2> QED
        BY <1>2, <1>3, <2>1, <2>2, CommandGoes, CommandIs
<1>5. Judging!Generating /\ command'.left > 0 /\ command.at <= 2 =>
        Judging!CellsOf(Holdout)[command.at] \in generated'
    <2>1. ASSUME Judging!Generating, command'.left > 0, command.at <= 2
          PROVE  Judging!CellsOf(Holdout)[command.at] \in generated'
        <3>1. command.left # 0
            BY <1>2, <1>4, <2>1, CommandIs
        <3>2. Judging!Cell \in generated
            BY <1>1, <2>1, <3>1 DEF Judging!Skip, Judging!Generating
        <3>3. circumstances \in Setups
            BY <1>2 DEF JudgingTypes
        <3>4. Judging!Cell = Judging!CellsOf(Holdout)[command.at]
            BY <1>1, <1>2, <2>1, <3>3, FirstCells
        <3> QED
            BY <1>3, <3>2, <3>4
    <2> QED
        BY <2>1
<1>6. Knows'
    <2>1. command'.left <= command.left /\ command'.left \in Nat
        BY <1>2, <1>4, CommandIs
    <2> QED
        BY <1>2, <1>3, <1>4, <1>5, <2>1, KnowledgeStays
<1>7. CommandFits'
    <2>1. judgePc' = "scan" /\ "scan" \notin Working
        BY <1>1 DEF Working
    <2> QED
        BY <1>4, <1>6, <2>1 DEF CommandFits
<1> QED
    BY <1>1, <1>7, QuietStep2

\* A cell is admitted: both arms are valid and differ, or why it is not judged.
LEMMA NotJudgedIsSound ==
    ASSUME NEW c, circumstances.pairs[c.task] # "distinct", NEW r
    PROVE  Judging!NotJudged(c) \in Judging!NativeCells /\ Sound(r, c, Judging!NotJudged(c))
<1>1. PICK how \in {"unpaired", "invalid"} :
        Judging!NotJudged(c) = [how |-> how, outcome |-> "none"]
    BY DEF Judging!NotJudged
<1> QED
    BY <1>1 DEF Sound, Judging!NativeCells

LEMMA AdmitStep ==
    ASSUME Judging!NativeJudgingAssumption, JudgingInv, Judging!Admit
    PROVE  JudgingInv'
<1>1. /\ Stays /\ judgePc = "scan"
      /\ command.at <= Len(Judging!Plan) /\ ~Judging!Skip(Judging!Cell) /\ ~Judging!Generating
      /\ \/ /\ circumstances.pairs[Judging!Cell.task] = "distinct"
            /\ judgePc' = "look_up" /\ command' = command
         \/ /\ circumstances.pairs[Judging!Cell.task] # "distinct" /\ judgePc' = "write"
            /\ command' = [command EXCEPT !.result = Judging!NotJudged(Judging!Cell)]
    BY DEF Judging!Admit, Judging!Scanning, Stays, Judging!Admitted, Judging!StructurallyValid
<1>2. JudgingTypes /\ CommandTypes /\ Knows /\ circumstances \in Setups
    BY <1>1 DEF JudgingInv, CommandFits, JudgingTypes
<1>3. Grow /\ circumstances' = circumstances /\ sealed' = sealed /\ natives' = natives
    BY <1>1, <1>2, StaysGrow DEF Stays
<1>4. PICK x \in {None} \cup Judging!NativeCells :
        /\ command' = [command EXCEPT !.result = x]
        /\ judgePc' = "write" => x = Judging!NotJudged(Judging!Cell)
    <2>1. Judging!NotJudged(Judging!Cell) \in Judging!NativeCells
        BY DEF Judging!NotJudged, Judging!NativeCells
    <2>2. command = [command EXCEPT !.result = command.result]
        BY <1>2 DEF CommandTypes
    <2> QED
        BY <1>1, <1>2, <2>1, <2>2, CommandIs
<1>5. /\ CommandTypes' /\ command'.cmd = command.cmd /\ command'.at = command.at
      /\ command'.left = command.left /\ command'.result = x
    BY <1>2, <1>3, <1>4, CommandKeeps
<1>6. Knows'
    <2>1. command'.left <= command.left /\ command'.left \in Nat
        BY <1>2, <1>3, <1>4, CommandKeeps
    <2> QED
        BY <1>2, <1>3, <1>5, <2>1, KnowledgeStays
<1>7. PICK e \in Roots, c \in Judging!AllCells, o \in {Judging!Out} :
         e = Judging!Evidence /\ c = Judging!Cell /\ o = Judging!Out
    BY <1>1, <1>2, PlannedCells, Evidences
<1>8. judgePc' \in {"look_up", "write"}
    BY <1>1
<1>9. InHand'
    <2>1. natives[e][c] = None /\ command.left # 0
          /\ (command.cmd = "retry" => Judging!Source[c].how = "failed")
        BY <1>1, <1>7 DEF Judging!Skip
    <2>2. judgePc' = "write" => Sound(e, c, x)'
        <3>1. CASE judgePc' = "write"
            <4>1. circumstances.pairs[c.task] # "distinct" /\ x = Judging!NotJudged(c)
                BY <1>1, <1>4, <1>7, <3>1
            <4>2. Sound(e, c, x)
                BY <4>1, NotJudgedIsSound
            <4> QED
                BY <1>2, <1>3, <4>2, SoundStays
        <3> QED
            BY <3>1
    <2>3. judgePc' = "look_up" => circumstances.pairs[c.task] = "distinct"
        BY <1>1, <1>7
    <2> QED
        BY <1>1, <1>3, <1>5, <1>7, <1>8, <2>1, <2>2, <2>3, HoldsCell
<1>10. CommandFits'
    BY <1>5, <1>6, <1>9 DEF CommandFits
<1>11. judgePc' \in {"idle", "scan"} \cup Working
    BY <1>1 DEF Working
<1> QED
    BY <1>1, <1>10, <1>11, QuietStep2

-----------------------------------------------------------------------------
(* A cell is evaluated.                                                    *)

\* The cell that a command has in hand, and where its evaluator leaves what it says.
LEMMA AtHand ==
    ASSUME Judging!NativeJudgingAssumption, JudgingInv, judgePc \in Working
    PROVE  \E e \in Roots, c \in Judging!AllCells, o \in Outputs :
             /\ e = Judging!Evidence /\ c = Judging!Cell /\ o = Judging!Out
             /\ CommandTypes /\ Knows /\ InHand /\ JudgingTypes
             /\ natives[e][c] = None /\ Judging!There = official[o][c]
             /\ \A x : Judging!Verdict(e, x) = official[o][x]
             /\ \A x : circumstances' = circumstances => Judging!Verdict(e, x)' = official'[o][x]
             /\ judgePc \in {"look_up", "harness", "receipt", "normalize"} =>
                  circumstances.pairs[c.task] = "distinct"
<1>1. CommandTypes /\ Knows /\ InHand /\ JudgingTypes /\ circumstances \in Setups
    BY DEF JudgingInv, CommandFits, Working, JudgingTypes
<1>2. Judging!Cell \in Judging!AllCells
    BY <1>1, PlannedCells DEF InHand
<1>3. PICK e \in Roots, c \in Judging!AllCells, o \in Outputs :
        e = Judging!Evidence /\ c = Judging!Cell /\ o = Judging!Out
    BY <1>1, <1>2, Evidences
<1>4. o = IF e = "retry" /\ circumstances.freshRoot THEN "fresh" ELSE "main"
    BY <1>1, <1>3, Evidences DEF Judging!Out
<1>5. /\ \A x : Judging!Verdict(e, x) = official[o][x]
      /\ \A x : circumstances' = circumstances => Judging!Verdict(e, x)' = official'[o][x]
    BY <1>4 DEF Judging!Verdict
<1> QED
    BY <1>1, <1>3, <1>5 DEF InHand, Judging!There

\* A command that stays with its cell.
LEMMA HoldsOn ==
    ASSUME Judging!NativeJudgingAssumption, JudgingInv, Grow, natives' = natives,
           sealed' = sealed, judgePc \in Working, judgePc' \in Working,
           NEW x \in {None} \cup Judging!NativeCells,
           command' = [command EXCEPT !.result = x],
           NEW e, e = Judging!Evidence, NEW c, c = Judging!Cell, NEW o, o = Judging!Out,
           judgePc' \in {"look_up", "harness", "receipt", "normalize"} =>
             circumstances.pairs[c.task] = "distinct",
           judgePc' = "harness" => official'[o][c] = None,
           judgePc' = "receipt" => official'[o][c] # None /\ official'[o][c].state = "reported",
           judgePc' = "normalize" =>
             official'[o][c] # None /\ official'[o][c].state = "received",
           judgePc' \in {"note", "write"} => Sound(e, c, x)'
    PROVE  CommandFits'
<1>1. CommandTypes /\ Knows /\ InHand /\ JudgingTypes
    BY AtHand
<1>2. circumstances' = circumstances
    BY DEF Grow
<1>3. /\ CommandTypes' /\ command'.cmd = command.cmd /\ command'.at = command.at
      /\ command'.left = command.left /\ command'.result = x
      /\ command'.left <= command.left /\ command'.left \in Nat
    BY <1>1, <1>2, CommandKeeps
<1>4. Knows'
    BY <1>1, <1>3, KnowledgeStays
<1>5. InHand'
    <2>1. /\ command.at <= Len(Judging!Plan) /\ ~Judging!Generating /\ natives[e][c] = None
          /\ command.left # 0
          /\ command.cmd = "retry" => Judging!Source[c].how = "failed"
        BY <1>1 DEF InHand
    <2> QED
        BY <1>2, <1>3, <2>1, HoldsCell
<1> QED
    BY <1>3, <1>4, <1>5 DEF CommandFits

\* What an evaluator may be reported to have said of the cell in hand.
LEMMA JudgedIsSound ==
    ASSUME NEW e, NEW c, circumstances' = circumstances,
           circumstances.pairs[c.task] = "distinct", NEW out \in Judging!Outcomes,
           Judging!Verdict(e, c)' # None, Judging!Verdict(e, c)'.state = "received",
           Judging!Verdict(e, c)'.outcome = out
    PROVE  Judging!Judged(out) \in Judging!NativeCells /\ Sound(e, c, Judging!Judged(out))'
<1>1. Judging!Judged(out) = [how |-> "judged", outcome |-> out]
    BY DEF Judging!Judged
<1>2. PICK x \in Judging!NativeCells : /\ x = Judging!Judged(out) /\ x.how = "judged"
                                       /\ x.outcome = out
    BY <1>1 DEF Judging!NativeCells
<1>3. Judging!Said(e, c)' = out
    BY DEF Judging!Said
<1>4. out \notin {"none", "evaluator", "incomplete", "prefetch"}
    BY DEF Judging!Outcomes
<1>5. Sound(e, c, x)'
    BY <1>2, <1>3, <1>4 DEF Sound, Judging!NativeCells, Judging!Outcomes
<1>6. Judging!Judged(out)' = x
    BY <1>2 DEF Judging!Judged
<1> QED
    BY <1>2, <1>5, <1>6 DEF Sound

LEMMA FailedIsSound ==
    ASSUME NEW e, NEW c, circumstances' = circumstances,
           circumstances.pairs[c.task] = "distinct",
           NEW why \in {"evaluator", "incomplete", "prefetch"},
           why = "evaluator" => /\ Judging!Verdict(e, c)' # None
                                /\ Judging!Verdict(e, c)'.state = "failed",
           why = "incomplete" => judgeKills' > 0
    PROVE  Judging!Failed(why) \in Judging!NativeCells /\ Sound(e, c, Judging!Failed(why))'
<1>1. Judging!Failed(why) = [how |-> "failed", outcome |-> why]
    BY DEF Judging!Failed
<1>2. PICK x \in Judging!NativeCells : /\ x = Judging!Failed(why) /\ x.how = "failed"
                                       /\ x.outcome = why
    BY <1>1 DEF Judging!NativeCells
<1>3. Sound(e, c, x)'
    BY <1>2 DEF Sound, Judging!NativeCells, Judging!Outcomes
<1>4. Judging!Failed(why)' = x
    BY <1>2 DEF Judging!Failed
<1> QED
    BY <1>2, <1>3, <1>4 DEF Sound

\* Steps from a cell in hand that write nothing.
LEMMA QuietWork ==
    ASSUME Judging!NativeJudgingAssumption, JudgingInv, Stays,
           judgePc \in Working \ {"receipt", "write"}, judgePc' \in Working,
           NEW x \in {None} \cup Judging!NativeCells,
           command' = [command EXCEPT !.result = x],
           NEW e, e = Judging!Evidence, NEW c, c = Judging!Cell, NEW o, o = Judging!Out,
           judgePc' \notin {"look_up", "receipt"},
           judgePc' \in {"harness", "normalize"} => judgePc = "look_up",
           judgePc' = "harness" => official[o][c] = None,
           judgePc' = "normalize" => official[o][c] # None /\ official[o][c].state = "received",
           judgePc' \in {"note", "write"} => Sound(e, c, x)'
    PROVE  JudgingInv'
<1>1. Grow /\ natives' = natives /\ sealed' = sealed /\ official' = official
    BY StaysGrow DEF Stays, JudgingInv
<1>2. judgePc' \in {"harness", "normalize"} => circumstances.pairs[c.task] = "distinct"
    BY AtHand
<1>3. CommandFits'
    BY <1>1, <1>2, HoldsOn
<1> QED
    BY <1>3, QuietStep2

LEMMA HarnessStep ==
    ASSUME Judging!NativeJudgingAssumption, JudgingInv, Judging!Run
    PROVE  JudgingInv'
<1>1. /\ Stays /\ judgePc = "look_up" /\ judgePc' = "harness"
      /\ command' = command /\ Judging!There = None
    BY DEF Judging!Run, Stays
<1>2. judgePc \in Working \ {"receipt", "write"} /\ judgePc' \in Working
    BY <1>1 DEF Working
<1>3. PICK e \in Roots, c \in Judging!AllCells, o \in Outputs :
        /\ e = Judging!Evidence /\ c = Judging!Cell /\ o = Judging!Out
        /\ CommandTypes /\ official[o][c] = None
    BY <1>1, <1>2, AtHand
<1>4. PICK x \in {None} \cup Judging!NativeCells : command' = [command EXCEPT !.result = x]
    BY <1>1, <1>3 DEF CommandTypes
<1> QED
    BY <1>1, <1>2, <1>3, <1>4, QuietWork

\* Steps that have a result and write nothing.
LEMMA QuietResult ==
    ASSUME Judging!NativeJudgingAssumption, JudgingInv,
           judgePc \in Working \ {"receipt", "write"},
           NEW x \in Judging!NativeCells, Judging!Result(x), UNCHANGED official,
           \A e \in Roots, c \in Judging!AllCells :
              e = Judging!Evidence /\ c = Judging!Cell => Sound(e, c, x)'
    PROVE  JudgingInv'
<1>1. /\ Stays /\ judgePc' \in {"note", "write"}
      /\ command' = [command EXCEPT !.result = x]
    BY DEF Judging!Result, Stays
<1>2. PICK e \in Roots, c \in Judging!AllCells, o \in Outputs :
        /\ e = Judging!Evidence /\ c = Judging!Cell /\ o = Judging!Out
    BY AtHand
<1>3. judgePc' \in Working
    BY <1>1 DEF Working
<1>4. Sound(e, c, x)'
    BY <1>2
<1> QED
    BY <1>1, <1>2, <1>3, <1>4, QuietWork

LEMMA ResumeStep ==
    ASSUME Judging!NativeJudgingAssumption, JudgingInv, Judging!Resume
    PROVE  JudgingInv'
<1>1. /\ Stays /\ judgePc = "look_up" /\ judgePc' = "normalize" /\ command' = command
      /\ Judging!There # None /\ Judging!There.state = "received"
    BY DEF Judging!Resume, Stays
<1>2. judgePc \in Working \ {"receipt", "write"} /\ judgePc' \in Working
    BY <1>1 DEF Working
<1>3. PICK e \in Roots, c \in Judging!AllCells, o \in Outputs :
        /\ e = Judging!Evidence /\ c = Judging!Cell /\ o = Judging!Out
        /\ CommandTypes /\ official[o][c] # None /\ official[o][c].state = "received"
    BY <1>1, <1>2, AtHand
<1>4. PICK x \in {None} \cup Judging!NativeCells : command' = [command EXCEPT !.result = x]
    BY <1>1, <1>3 DEF CommandTypes
<1> QED
    BY <1>1, <1>2, <1>3, <1>4, QuietWork

LEMMA NormalizeStep ==
    ASSUME Judging!NativeJudgingAssumption, JudgingInv, Judging!Normalize
    PROVE  JudgingInv'
<1>1. /\ judgePc = "normalize" /\ Judging!There.outcome # "malformed"
      /\ Judging!Result(Judging!Judged(Judging!There.outcome)) /\ UNCHANGED official
    BY DEF Judging!Normalize
<1>2. judgePc \in Working \ {"receipt", "write"}
    BY <1>1 DEF Working
<1>3. PICK e \in Roots, c \in Judging!AllCells, o \in Outputs :
        /\ e = Judging!Evidence /\ c = Judging!Cell
        /\ Judging!There = official[o][c] /\ circumstances.pairs[c.task] = "distinct"
        /\ official[o][c] # None /\ official[o][c].state = "received"
        /\ (circumstances' = circumstances => Judging!Verdict(e, c)' = official'[o][c])
    BY <1>1, <1>2, AtHand DEF InHand
<1>4. circumstances' = circumstances
    BY <1>1 DEF Judging!Result
<1>5. PICK out \in Judging!Outcomes : out = official[o][c].outcome
    BY <1>1, <1>3 DEF JudgingInv, OutcomesFit
<1>6. Judging!Verdict(e, c)' = official[o][c]
    BY <1>1, <1>3, <1>4
<1>7. Judging!Judged(out) \in Judging!NativeCells /\ Sound(e, c, Judging!Judged(out))'
    BY <1>1, <1>3, <1>4, <1>5, <1>6, JudgedIsSound
<1>8. PICK x \in Judging!NativeCells : x = Judging!Judged(out) /\ Sound(e, c, x)'
    <2>1. PICK x \in Judging!NativeCells : x = Judging!Judged(out)
        BY <1>7
    <2>2. Judging!Judged(out)' = x
        BY <2>1 DEF Judging!Judged
    <2> QED
        BY <1>7, <2>1, <2>2 DEF Sound
<1>9. Judging!Result(x)
    BY <1>1, <1>3, <1>5, <1>8
<1> QED
    BY <1>1, <1>2, <1>3, <1>8, <1>9, QuietResult

LEMMA ResumeFailureStep ==
    ASSUME Judging!NativeJudgingAssumption, JudgingInv, Judging!ResumeFailure
    PROVE  JudgingInv'
<1>1. PICK why \in {"evaluator", "incomplete"} :
        /\ judgePc = "look_up" /\ Judging!There # None /\ UNCHANGED official
        /\ Judging!There.state \in {"reported", "failed", "torn_failure"}
        /\ why = "evaluator" <=> Judging!There.state = "failed"
        /\ Judging!Result(Judging!Failed(why))
    BY DEF Judging!ResumeFailure
<1>2. judgePc \in Working \ {"receipt", "write"}
    BY <1>1 DEF Working
<1>3. PICK e \in Roots, c \in Judging!AllCells, o \in Outputs :
        /\ e = Judging!Evidence /\ c = Judging!Cell
        /\ Judging!There = official[o][c] /\ circumstances.pairs[c.task] = "distinct"
        /\ (circumstances' = circumstances => Judging!Verdict(e, c)' = official'[o][c])
    BY <1>1, <1>2, AtHand
<1>4. circumstances' = circumstances /\ judgeKills' = judgeKills
    BY <1>1 DEF Judging!Result
<1>5. why = "incomplete" => judgeKills > 0
    BY <1>1, <1>3 DEF JudgingInv, OfficialFits
<1>6. Judging!Verdict(e, c)' = official[o][c]
    BY <1>1, <1>3, <1>4
<1>7. Judging!Failed(why) \in Judging!NativeCells /\ Sound(e, c, Judging!Failed(why))'
    <2>1. why = "evaluator" => /\ Judging!Verdict(e, c)' # None
                               /\ Judging!Verdict(e, c)'.state = "failed"
        BY <1>1, <1>3, <1>6
    <2>2. why = "incomplete" => judgeKills' > 0
        BY <1>4, <1>5
    <2> QED
        BY <1>3, <1>4, <2>1, <2>2, FailedIsSound
<1>8. PICK x \in Judging!NativeCells : x = Judging!Failed(why) /\ Sound(e, c, x)'
    <2>1. PICK x \in Judging!NativeCells : x = Judging!Failed(why)
        BY <1>7
    <2>2. Judging!Failed(why)' = x
        BY <2>1 DEF Judging!Failed
    <2> QED
        BY <1>7, <2>1, <2>2 DEF Sound
<1>9. Judging!Result(x)
    BY <1>1, <1>8
<1> QED
    BY <1>1, <1>2, <1>3, <1>8, <1>9, QuietResult

LEMMA PrefetchFailsStep ==
    ASSUME Judging!NativeJudgingAssumption, JudgingInv, Judging!PrefetchFails
    PROVE  JudgingInv'
<1>1. judgePc = "harness" /\ Judging!Result(Judging!Failed("prefetch")) /\ UNCHANGED official
    BY DEF Judging!PrefetchFails
<1>2. judgePc \in Working \ {"receipt", "write"}
    BY <1>1 DEF Working
<1>3. PICK e \in Roots, c \in Judging!AllCells, o \in Outputs :
        e = Judging!Evidence /\ c = Judging!Cell /\ circumstances.pairs[c.task] = "distinct"
    BY <1>1, <1>2, AtHand
<1>4. circumstances' = circumstances
    BY <1>1 DEF Judging!Result
<1>5. Judging!Failed("prefetch") \in Judging!NativeCells
      /\ Sound(e, c, Judging!Failed("prefetch"))'
    BY <1>3, <1>4, FailedIsSound
<1>6. PICK x \in Judging!NativeCells : x = Judging!Failed("prefetch") /\ Sound(e, c, x)'
    <2>1. PICK x \in Judging!NativeCells : x = Judging!Failed("prefetch")
        BY <1>5
    <2>2. Judging!Failed("prefetch")' = x
        BY <2>1 DEF Judging!Failed
    <2> QED
        BY <1>5, <2>1, <2>2 DEF Sound
<1>7. Judging!Result(x)
    BY <1>1, <1>6
<1> QED
    BY <1>1, <1>2, <1>3, <1>6, <1>7, QuietResult

\* A command raises before or at a cell, and leaves what there is.
LEMMA RaisingStep ==
    ASSUME Judging!NativeJudgingAssumption, JudgingInv,
           \/ Judging!PairRefused \/ Judging!ReceiptUnreadable \/ Judging!PrefetchTimesOut
           \/ Judging!ReportRefused \/ Judging!NoteRefused \/ Judging!SummaryRefused
    PROVE  JudgingInv'
<1>1. Judging!Raise /\ judgePc \in {"scan", "look_up", "harness", "normalize", "note"}
    BY DEF Judging!PairRefused, Judging!ReceiptUnreadable, Judging!PrefetchTimesOut,
       Judging!ReportRefused, Judging!NoteRefused, Judging!SummaryRefused, Judging!Scanning,
       Judging!Ending
<1> QED
    BY <1>1, RaiseStep

\* Steps that write what the evaluator leaves for the cell in hand.
Leaves(o, c, v) ==
    /\ official' = [official EXCEPT ![o][c] = v]
    /\ circumstances' = circumstances /\ generated' = generated /\ natives' = natives
    /\ judgeKills' \in Nat /\ judgeKills <= judgeKills'

LEMMA OfficialGrows ==
    ASSUME Judging!NativeJudgingAssumption, JudgingInv, judgePc \in {"harness", "receipt"},
           NEW o, o = Judging!Out, NEW c, c = Judging!Cell, NEW v \in Judging!Leavings,
           Leaves(o, c, v)
    PROVE  /\ Grow
           /\ official' \in [Outputs -> [Judging!AllCells -> {None} \cup Judging!Leavings]]
           /\ official'[o][c] = v
           /\ \A o1 \in Outputs, c1 \in Judging!AllCells :
                 o1 # o \/ c1 # c => official'[o1][c1] = official[o1][c1]
<1>1. judgePc \in Working
    BY DEF Working
<1>2. o \in Outputs /\ c \in Judging!AllCells /\ InHand /\ JudgingTypes
      /\ Judging!There = official[o][c]
    BY <1>1, AtHand
<1>3. official \in [Outputs -> [Judging!AllCells -> {None} \cup Judging!Leavings]]
    BY <1>2 DEF JudgingTypes
<1>4. /\ official' \in [Outputs -> [Judging!AllCells -> {None} \cup Judging!Leavings]]
      /\ official'[o][c] = v
      /\ \A o1 \in Outputs, c1 \in Judging!AllCells :
            o1 # o \/ c1 # c => official'[o1][c1] = official[o1][c1]
    BY <1>2, <1>3 DEF Leaves
<1>5. official[o][c] = None \/ official[o][c].state = "reported"
    BY <1>2 DEF InHand
<1>6. \A o1 \in Outputs, c1 \in Judging!AllCells :
        official[o1][c1] # None /\ official[o1][c1].state \in {"received", "failed"}
        => official'[o1][c1] = official[o1][c1]
    BY <1>4, <1>5
<1> QED
    BY <1>2, <1>4, <1>6 DEF Grow, JudgingTypes, Leaves

LEMMA OfficialStep ==
    ASSUME Judging!NativeJudgingAssumption, JudgingInv, judgePc \in {"harness", "receipt"},
           judgePc' \in Working, NEW o, o = Judging!Out, NEW c, c = Judging!Cell,
           NEW v \in Judging!Leavings, official' = [official EXCEPT ![o][c] = v],
           UNCHANGED <<circumstances, generated, notes, natives, sealed, judgeKills>>,
           v.state \in {"reported", "received"} =>
             v.outcome \in Judging!Outcomes \cup {"malformed"},
           v.state \notin {"received", "failed"} =>
             v.state = "reported" /\ judgePc' = "receipt" /\ command' = command,
           CommandFits'
    PROVE  JudgingInv'
<1>1. judgePc \in Working
    BY DEF Working
<1>2. o \in Outputs /\ c \in Judging!AllCells /\ JudgingTypes
    BY <1>1, AtHand
<1>3. judgeKills' \in Nat /\ judgeKills <= judgeKills'
    BY <1>2 DEF JudgingTypes
<1>4. Leaves(o, c, v)
    BY <1>3 DEF Leaves
<1>5. /\ Grow
      /\ official' \in [Outputs -> [Judging!AllCells -> {None} \cup Judging!Leavings]]
      /\ official'[o][c] = v
      /\ \A o1 \in Outputs, c1 \in Judging!AllCells :
            o1 # o \/ c1 # c => official'[o1][c1] = official[o1][c1]
    BY <1>4, OfficialGrows
<1>6. JudgingTypes'
    BY <1>2, <1>5 DEF JudgingTypes, Judging!Leavings, Judging!NativeCells, Judging!Outcomes
<1>7. NativesFit'
    BY <1>2, <1>5, NativesStay DEF JudgingInv
<1>8. OfficialFits'
    <2>1. SUFFICES ASSUME NEW o1 \in Outputs, NEW c1 \in Judging!AllCells,
                          official'[o1][c1] # None,
                          official'[o1][c1].state \notin {"received", "failed"}
                   PROVE  \/ judgeKills' > 0
                          \/ /\ official'[o1][c1].state = "reported" /\ judgePc' = "receipt"
                             /\ o1 = Judging!Out' /\ c1 = Judging!Cell'
        BY DEF OfficialFits
    <2>2. CASE o1 = o /\ c1 = c
        <3>1. v.state = "reported" /\ judgePc' = "receipt" /\ command' = command
            BY <1>5, <2>1, <2>2
        <3>2. Judging!Out' = Judging!Out /\ Judging!Cell' = Judging!Cell
            BY <3>1, SameCell
        <3> QED
            BY <1>5, <2>2, <3>1, <3>2
    <2>3. CASE ~(o1 = o /\ c1 = c)
        BY <1>5, <2>1, <2>3 DEF JudgingInv, OfficialFits
    <2> QED
        BY <2>2, <2>3
<1>9. OutcomesFit'
    BY <1>5 DEF JudgingInv, OutcomesFit
<1>10. NotesFit'
    BY DEF JudgingInv, NotesFit
<1>11. GeneratedFits'
    BY GeneratedRest DEF JudgingInv
<1> QED
    BY <1>5, <1>6, <1>7, <1>8, <1>9, <1>10, <1>11, StepFits

LEMMA CopyReportStep ==
    ASSUME Judging!NativeJudgingAssumption, JudgingInv, Judging!CopyReport
    PROVE  JudgingInv'
<1>1. judgePc = "harness" /\ judgePc' = "receipt" /\ judgePc \in Working /\ judgePc' \in Working
      /\ judgePc \in {"harness", "receipt"} /\ command' = command
      /\ UNCHANGED <<circumstances, generated, notes, natives, sealed, judgeKills>>
    BY DEF Judging!CopyReport, Working
<1>2. PICK e \in Roots, c \in Judging!AllCells, o \in Outputs :
        /\ e = Judging!Evidence /\ c = Judging!Cell /\ o = Judging!Out
        /\ circumstances.pairs[c.task] = "distinct" /\ CommandTypes /\ JudgingTypes
    BY <1>1, AtHand
<1>3. PICK v \in Judging!Leavings :
        /\ official' = [official EXCEPT ![o][c] = v] /\ v.state = "reported"
        /\ v.outcome \in Judging!Outcomes \cup {"malformed"}
    <2>1. PICK out \in Judging!Outcomes \cup {"malformed"} :
            official' = [official EXCEPT ![o][c] = Judging!Left("reported", out)]
        BY <1>2 DEF Judging!CopyReport
    <2>2. Judging!Left("reported", out) = [state |-> "reported", outcome |-> out]
        BY DEF Judging!Left
    <2>3. PICK v \in Judging!Leavings : /\ v = Judging!Left("reported", out)
                                        /\ v.state = "reported" /\ v.outcome = out
        BY <2>2 DEF Judging!Leavings
    <2> QED
        BY <2>1, <2>3
<1>4. PICK x \in {None} \cup Judging!NativeCells : command' = [command EXCEPT !.result = x]
    BY <1>1, <1>2 DEF CommandTypes
<1>5. Grow /\ official'[o][c] = v
    <2>1. Leaves(o, c, v)
        BY <1>1, <1>2, <1>3 DEF JudgingTypes, Leaves
    <2> QED
        BY <1>1, <1>2, <2>1, OfficialGrows
<1>6. None \notin Judging!Leavings
    BY DEF Judging!NativeJudgingAssumption
<1>7. CommandFits'
    <2>1. natives' = natives /\ sealed' = sealed
        BY <1>1
    <2>2. official'[o][c] # None /\ official'[o][c].state = "reported"
        BY <1>3, <1>5, <1>6
    <2> QED
        BY <1>1, <1>2, <1>4, <1>5, <2>1, <2>2, HoldsOn
<1> QED
    BY <1>1, <1>2, <1>3, <1>7, OfficialStep

\* The evaluator ends with a failure, and the command has its result.
LEMMA EvaluatedStep ==
    ASSUME Judging!NativeJudgingAssumption, JudgingInv, judgePc = "harness",
           NEW x \in Judging!NativeCells, Judging!Result(x),
           NEW e \in Roots, e = Judging!Evidence, NEW c \in Judging!AllCells, c = Judging!Cell,
           NEW o \in Outputs, o = Judging!Out,
           NEW v \in Judging!Leavings, official' = [official EXCEPT ![o][c] = v],
           v.state = "failed", Sound(e, c, x)'
    PROVE  JudgingInv'
<1>1. /\ judgePc \in Working /\ judgePc' \in {"note", "write"} /\ judgePc' \in Working
      /\ command' = [command EXCEPT !.result = x]
      /\ UNCHANGED <<circumstances, generated, notes, natives, sealed, judgeKills>>
    BY DEF Judging!Result, Working
<1>2. JudgingTypes
    BY DEF JudgingInv
<1>3. Grow
    <2>1. Leaves(o, c, v)
        BY <1>1, <1>2 DEF JudgingTypes, Leaves
    <2> QED
        BY <2>1, OfficialGrows
<1>4. CommandFits'
    <2>1. natives' = natives /\ sealed' = sealed
        BY <1>1
    <2> QED
        BY <1>1, <1>3, <2>1, HoldsOn
<1> QED
    BY <1>1, <1>4, OfficialStep

LEMMA PersistFailureStep ==
    ASSUME Judging!NativeJudgingAssumption, JudgingInv, Judging!PersistFailure
    PROVE  JudgingInv'
<1>1. judgePc = "harness" /\ judgePc \in Working /\ judgePc \in {"harness", "receipt"}
      /\ Judging!Result(Judging!Failed("evaluator"))
    BY DEF Judging!PersistFailure, Working
<1>2. circumstances' = circumstances /\ UNCHANGED <<circumstances, generated, natives>>
      /\ judgeKills' = judgeKills
    BY <1>1 DEF Judging!Result
<1>3. PICK e \in Roots, c \in Judging!AllCells, o \in Outputs :
        /\ e = Judging!Evidence /\ c = Judging!Cell /\ o = Judging!Out
        /\ circumstances.pairs[c.task] = "distinct" /\ JudgingTypes
        /\ (circumstances' = circumstances => Judging!Verdict(e, c)' = official'[o][c])
    BY <1>1, AtHand
<1>4. PICK v \in Judging!Leavings :
        official' = [official EXCEPT ![o][c] = v] /\ v.state = "failed"
    <2>1. PICK v \in Judging!Leavings : v = Judging!Left("failed", "none") /\ v.state = "failed"
        <3>1. /\ Judging!Left("failed", "none") \in Judging!Leavings
              /\ Judging!Left("failed", "none").state = "failed"
            BY DEF Judging!Left, Judging!Leavings
        <3> QED
            BY <3>1
    <2>2. official' = [official EXCEPT ![o][c] = Judging!Left("failed", "none")]
        BY <1>3 DEF Judging!PersistFailure
    <2> QED
        BY <2>1, <2>2
<1>5. official'[o][c] = v
    <2>1. Leaves(o, c, v)
        BY <1>2, <1>3, <1>4 DEF JudgingTypes, Leaves
    <2> QED
        BY <1>1, <1>3, <2>1, OfficialGrows
<1>6. v # None
    BY DEF Judging!NativeJudgingAssumption
<1>7. Judging!Failed("evaluator") \in Judging!NativeCells
      /\ Sound(e, c, Judging!Failed("evaluator"))'
    <2>1. Judging!Verdict(e, c)' # None /\ Judging!Verdict(e, c)'.state = "failed"
        BY <1>2, <1>3, <1>4, <1>5, <1>6
    <2> QED
        BY <1>2, <1>3, <2>1, FailedIsSound
<1>8. PICK x \in Judging!NativeCells : x = Judging!Failed("evaluator") /\ Sound(e, c, x)'
    <2>1. PICK x \in Judging!NativeCells : x = Judging!Failed("evaluator")
        BY <1>7
    <2>2. Judging!Failed("evaluator")' = x
        BY <2>1 DEF Judging!Failed
    <2> QED
        BY <1>7, <2>1, <2>2 DEF Sound
<1>9. Judging!Result(x)
    BY <1>1, <1>8
<1> QED
    BY <1>1, <1>3, <1>4, <1>8, <1>9, EvaluatedStep

LEMMA WriteReceiptStep ==
    ASSUME Judging!NativeJudgingAssumption, JudgingInv, Judging!WriteReceipt
    PROVE  JudgingInv'
<1>1. judgePc = "receipt" /\ judgePc' = "normalize" /\ judgePc \in Working
      /\ judgePc' \in Working /\ judgePc \in {"harness", "receipt"} /\ command' = command
      /\ UNCHANGED <<circumstances, generated, notes, natives, sealed, judgeKills>>
    BY DEF Judging!WriteReceipt, Working
<1>2. PICK e \in Roots, c \in Judging!AllCells, o \in Outputs :
        /\ e = Judging!Evidence /\ c = Judging!Cell /\ o = Judging!Out
        /\ circumstances.pairs[c.task] = "distinct" /\ CommandTypes /\ JudgingTypes
        /\ InHand /\ Judging!There = official[o][c]
    BY <1>1, AtHand
<1>3. PICK w \in Judging!Leavings :
        w = official[o][c] /\ w.outcome \in Judging!Outcomes \cup {"malformed"}
    <2>1. official[o][c] # None /\ official[o][c].state = "reported"
        BY <1>1, <1>2 DEF InHand
    <2>2. official[o][c] \in {None} \cup Judging!Leavings
        BY <1>2 DEF JudgingTypes
    <2> QED
        BY <1>2, <2>1, <2>2 DEF JudgingInv, OutcomesFit
<1>4. PICK v \in Judging!Leavings :
        /\ official' = [official EXCEPT ![o][c] = v] /\ v.state = "received"
        /\ v.outcome = w.outcome
    <2>1. official' = [official EXCEPT ![o][c] = [official[o][c] EXCEPT !.state = "received"]]
        BY <1>2 DEF Judging!WriteReceipt
    <2>2. PICK v \in Judging!Leavings : /\ v = [w EXCEPT !.state = "received"]
                                        /\ v.state = "received" /\ v.outcome = w.outcome
        <3>1. /\ [w EXCEPT !.state = "received"] \in Judging!Leavings
              /\ [w EXCEPT !.state = "received"].state = "received"
              /\ [w EXCEPT !.state = "received"].outcome = w.outcome
            BY DEF Judging!Leavings
        <3> QED
            BY <3>1
    <2> QED
        BY <1>3, <2>1, <2>2
<1>5. PICK x \in {None} \cup Judging!NativeCells : command' = [command EXCEPT !.result = x]
    BY <1>1, <1>2 DEF CommandTypes
<1>6. Grow /\ official'[o][c] = v
    <2>1. Leaves(o, c, v)
        BY <1>1, <1>2, <1>4 DEF JudgingTypes, Leaves
    <2> QED
        BY <1>1, <1>2, <2>1, OfficialGrows
<1>7. None \notin Judging!Leavings
    BY DEF Judging!NativeJudgingAssumption
<1>8. CommandFits'
    <2>1. natives' = natives /\ sealed' = sealed
        BY <1>1
    <2>2. official'[o][c] # None /\ official'[o][c].state = "received"
        BY <1>4, <1>6, <1>7
    <2> QED
        BY <1>1, <1>2, <1>5, <1>6, <2>1, <2>2, HoldsOn
<1> QED
    BY <1>1, <1>2, <1>3, <1>4, <1>8, OfficialStep

LEMMA WriteNoteStep ==
    ASSUME Judging!NativeJudgingAssumption, JudgingInv, Judging!WriteNote
    PROVE  JudgingInv'
<1>1. judgePc = "note" /\ judgePc' = "write" /\ judgePc \in Working /\ judgePc' \in Working
      /\ command' = command
      /\ UNCHANGED <<circumstances, generated, official, natives, sealed, judgeKills>>
    BY DEF Judging!WriteNote, Working
<1>2. PICK e \in Roots, c \in Judging!AllCells, o \in Outputs :
        /\ e = Judging!Evidence /\ c = Judging!Cell /\ o = Judging!Out
        /\ CommandTypes /\ JudgingTypes /\ InHand
    BY <1>1, AtHand
<1>3. PICK why : notes' = [notes EXCEPT ![e][c] = why]
    BY <1>2 DEF Judging!WriteNote
<1>4. Grow /\ natives' = natives /\ sealed' = sealed
    BY <1>1, <1>2 DEF Grow, JudgingTypes
<1>5. PICK x \in {None} \cup Judging!NativeCells :
        x = command.result /\ command' = [command EXCEPT !.result = x]
    BY <1>1, <1>2 DEF CommandTypes
<1>6. Sound(e, c, x)'
    <2>1. Sound(e, c, x)
        BY <1>1, <1>2, <1>5 DEF InHand
    <2> QED
        BY <1>2, <1>4, <2>1, SoundStays
<1>7. CommandFits'
    BY <1>1, <1>2, <1>4, <1>5, <1>6, HoldsOn
<1>8. JudgingTypes'
    <2>1. notes' = [r \in Roots |-> [i \in Judging!AllCells |-> notes'[r][i]]]
        BY <1>2, <1>3 DEF JudgingTypes
    <2> QED
        BY <1>1, <1>2, <2>1 DEF JudgingTypes, Judging!Leavings, Judging!NativeCells,
           Judging!Outcomes
<1>9. NativesFit'
    BY <1>2, <1>4, NativesStay DEF JudgingInv
<1>10. OfficialFits' /\ OutcomesFit'
    BY <1>1 DEF JudgingInv, OfficialFits, OutcomesFit
<1>11. NotesFit'
    <2>1. Judging!Evidence' = e /\ Judging!Cell' = c
        BY <1>1, <1>2, SameCell
    <2>2. \A r \in Roots, i \in Judging!AllCells :
            notes'[r][i] = notes[r][i] \/ (r = e /\ i = c)
        BY <1>2, <1>3 DEF JudgingTypes
    <2> QED
        BY <1>1, <2>1, <2>2 DEF JudgingInv, NotesFit
<1>12. GeneratedFits'
    BY <1>1, GeneratedRest DEF JudgingInv
<1> QED
    BY <1>4, <1>7, <1>8, <1>9, <1>10, <1>11, <1>12, StepFits

LEMMA WriteCellStep ==
    ASSUME Judging!NativeJudgingAssumption, JudgingInv, Judging!WriteCell
    PROVE  JudgingInv'
<1>1. judgePc = "write" /\ judgePc' = "scan" /\ judgePc \in Working /\ judgePc' \notin Working
     
      /\ UNCHANGED <<circumstances, generated, official, notes, sealed, judgeKills>>
    BY DEF Judging!WriteCell, Working
<1>2. PICK e \in Roots, c \in Judging!AllCells, o \in Outputs :
        /\ e = Judging!Evidence /\ c = Judging!Cell /\ o = Judging!Out /\ natives[e][c] = None
        /\ CommandTypes /\ JudgingTypes /\ InHand /\ Knows
    BY <1>1, AtHand
<1>3. PICK x \in Judging!NativeCells : x = command.result /\ Sound(e, c, x)
    BY <1>1, <1>2 DEF InHand, Sound
<1>4. natives' = [natives EXCEPT ![e][c] = x]
    BY <1>2, <1>3 DEF Judging!WriteCell
<1>5. /\ natives' \in [Roots -> [Judging!AllCells -> {None} \cup Judging!NativeCells]]
      /\ natives'[e][c] = x
      /\ \A r \in Roots, i \in Judging!AllCells :
            r # e \/ i # c => natives'[r][i] = natives[r][i]
    <2>1. natives \in [Roots -> [Judging!AllCells -> {None} \cup Judging!NativeCells]]
        BY <1>2 DEF JudgingTypes
    <2> QED
        BY <1>2, <1>4, <2>1
<1>6. e = "retry" => Judging!Source[c] # None /\ Judging!Source[c].how = "failed"
    <2>1. CASE e = "retry"
        <3>1. command.cmd = "retry"
            BY <1>2, <2>1, Evidences
        <3>2. Judging!Complete(Judging!Shown("judge"))
            BY <1>2, <3>1 DEF Knows
        <3>3. c \in Judging!HoldoutCells
            BY <1>2, <3>1, PlannedCells DEF InHand, JudgingTypes
        <3>4. Judging!Source[c] # None
            BY <3>2, <3>3 DEF Judging!Complete, Judging!Shown
        <3> QED
            BY <1>2, <3>1, <3>4 DEF InHand
    <2> QED
        BY <2>1
<1>7. Grow
    BY <1>1, <1>2, <1>5, <1>6 DEF Grow, JudgingTypes, Roots
<1>8. /\ CommandTypes' /\ command'.cmd = command.cmd /\ command'.at = command.at + 1
      /\ command'.left = command.left - 1
    <2>1. command.at \in Nat \ {0} /\ command.left \in Nat /\ command.called \in BOOLEAN
        BY <1>2, CommandIs
    <2>2. command.left # 0
        BY <1>2 DEF InHand
    <2>3. command.at + 1 \in Nat \ {0} /\ command.left - 1 \in Nat
        BY <2>1, <2>2
    <2>4. command' = [command EXCEPT !.at = command.at + 1, !.left = command.left - 1,
                                     !.result = None, !.called = command.called]
        BY <1>2 DEF CommandTypes, Judging!WriteCell
    <2>5. circumstances' = circumstances
        BY <1>1
    <2>6. PICK n \in Nat \ {0}, m \in Nat, b \in BOOLEAN :
              n = command.at + 1 /\ m = command.left - 1 /\ b = command.called
        BY <2>1, <2>3
    <2>7. CommandTypes /\ (b => circumstances.cached)
        BY <1>2, <2>6, CommandIs
    <2>8. command' = [command EXCEPT !.at = n, !.left = m, !.result = None, !.called = b]
        BY <2>4, <2>6
    <2>9. /\ CommandTypes' /\ command'.cmd = command.cmd
          /\ command'.at = n /\ command'.left = m
        BY <2>5, <2>7, <2>8, CommandGoes
    <2> QED
        BY <2>6, <2>9
<1>9. Knows'
    <2>1. sealed'["feedback"] = sealed["feedback"]
        BY <1>1
    <2>2. command'.left <= command.left /\ command'.left \in Nat
        <3>1. command.left \in Nat
            BY <1>2, CommandIs
        <3>2. command.left # 0
            BY <1>2 DEF InHand
        <3> QED
            BY <1>8, <3>1, <3>2
    <2>3. ~Judging!Generating
        BY <1>2 DEF InHand
    <2> QED
        BY <1>2, <1>7, <1>8, <2>1, <2>2, <2>3, KnowledgeStays
<1>10. CommandFits'
    BY <1>1, <1>8, <1>9 DEF CommandFits
<1>11. JudgingTypes'
    BY <1>1, <1>2, <1>5 DEF JudgingTypes, Judging!Leavings, Judging!NativeCells,
       Judging!Outcomes
<1>12. NativesFit'
    <2>1. ASSUME NEW r \in Roots, NEW i \in Judging!AllCells
          PROVE  (natives[r][i] # None => Sound(r, i, natives[r][i]))'
        <3>1. PICK y : y = natives'[r][i]
            OBVIOUS
        <3>2. CASE y # None
            <4>1. Sound(r, i, y)
                BY <1>3, <1>5, <2>1, <3>1, <3>2 DEF JudgingInv, NativesFit
            <4>2. Sound(r, i, y)'
                BY <1>2, <1>7, <2>1, <4>1, SoundStays
            <4> QED
                BY <3>1, <4>2 DEF Sound
        <3> QED
            BY <3>1, <3>2
    <2> QED
        BY <2>1 DEF NativesFit
<1>13. OfficialFits' /\ OutcomesFit'
    BY <1>1 DEF JudgingInv, OfficialFits, OutcomesFit
<1>14. NotesFit'
    <2>1. x # None
        BY DEF Judging!NativeJudgingAssumption
    <2> QED
        BY <1>1, <1>2, <1>5, <2>1 DEF JudgingInv, NotesFit
<1>15. GeneratedFits'
    BY <1>1, GeneratedRest DEF JudgingInv
<1>16. sealed' = sealed
    BY <1>1
<1> QED
    BY <1>7, <1>10, <1>11, <1>12, <1>13, <1>14, <1>15, <1>16, StepFits

LEMMA GenerateFeedbackStep ==
    ASSUME Judging!NativeJudgingAssumption, JudgingInv, Judging!GenerateFeedback
    PROVE  JudgingInv'
<1>1. judgePc = "idle" /\ judgePc' = "idle" /\ judgePc' \notin Working
      /\ circumstances.program # "experiment"
      /\ UNCHANGED <<circumstances, official, notes, natives, sealed, judgeKills>>
    BY DEF Judging!GenerateFeedback, Working
<1>2. PICK c \in Judging!FeedbackCells : generated' = generated \cup {c}
    <2>1. PICK i \in DOMAIN Judging!CellsOf(Feedback) :
            generated' = generated \cup {Judging!CellsOf(Feedback)[i]}
        BY DEF Judging!GenerateFeedback
    <2>2. Judging!CellsOf(Feedback)[i] \in Judging!FeedbackCells
        BY DEF Judging!FeedbackCells, Judging!ToSet
    <2> QED
        BY <2>1, <2>2
<1>3. c \notin Judging!HoldoutCells /\ CellsFor(PartTasks) \subseteq Judging!HoldoutCells
    BY <1>2, Cohorts
<1>4. JudgingTypes
    BY DEF JudgingInv
<1>5. Grow
    BY <1>1, <1>2, <1>4 DEF Grow, JudgingTypes
<1>6. JudgingTypes'
    BY <1>1, <1>4 DEF JudgingTypes, Judging!Leavings, Judging!NativeCells, Judging!Outcomes
<1>7. NativesFit'
    BY <1>1, <1>4, <1>5, NativesStay DEF JudgingInv
<1>8. OfficialFits' /\ OutcomesFit' /\ NotesFit'
    BY <1>1 DEF JudgingInv, OfficialFits, OutcomesFit, NotesFit
<1>9. GeneratedFits'
    <2>1. generated' \cap Judging!HoldoutCells = generated \cap Judging!HoldoutCells
        BY <1>2, <1>3
    <2>2. Judging!HoldoutCells' = Judging!HoldoutCells /\ First' = First
        BY DEF Judging!HoldoutCells, First
    <2>3. ~Judging!Locked => ~Judging!Locked'
        BY <1>1, OpenStays
    <2>4. PartGenerated => PartGenerated'
        BY <1>2 DEF PartGenerated
    <2> QED
        BY <1>1, <2>1, <2>2, <2>3, <2>4 DEF JudgingInv, GeneratedFits
<1>10. CommandFits'
    BY <1>1 DEF CommandFits
<1>11. sealed' = sealed
    BY <1>1
<1> QED
    BY <1>5, <1>6, <1>7, <1>8, <1>9, <1>10, <1>11, StepFits

LEMMA GenerateStep ==
    ASSUME Judging!NativeJudgingAssumption, JudgingInv, Judging!Generate
    PROVE  JudgingInv'
<1>1. judgePc = "scan" /\ judgePc' = "scan" /\ judgePc' \notin Working
      /\ command.at <= Len(Judging!Plan) /\ Judging!Generating /\ command.left # 0
      /\ UNCHANGED <<circumstances, official, notes, natives, sealed, judgeKills>>
    BY DEF Judging!Generate, Judging!Scanning, Judging!Skip, Working
<1>2. CommandTypes /\ Knows /\ JudgingTypes /\ circumstances \in Setups
    BY <1>1 DEF JudgingInv, CommandFits, JudgingTypes
<1>3. PICK c \in Judging!HoldoutCells : c = Judging!Cell /\ generated' = generated \cup {c}
    <2>1. Judging!Cell \in Judging!HoldoutCells
        BY <1>1, <1>2, PlannedCells, Cohorts DEF Judging!Generating
    <2> QED
        BY <2>1 DEF Judging!Generate
<1>4. Grow
    BY <1>1, <1>2, <1>3 DEF Grow, JudgingTypes
<1>5. /\ CommandTypes' /\ command'.cmd = command.cmd /\ command'.at = command.at + 1
      /\ command'.left = command.left - 1
    <2>1. command.at \in Nat \ {0} /\ command.left \in Nat
          /\ command.result \in {None} \cup Judging!NativeCells
        BY <1>2, CommandIs
    <2>2. command.at + 1 \in Nat \ {0} /\ command.left - 1 \in Nat
        BY <1>1, <2>1
    <2>3. circumstances.cached \in BOOLEAN /\ (circumstances.cached => circumstances.cached)
        BY <1>2 DEF Judging!NativeJudgingAssumption
    <2>4. command' = [command EXCEPT !.at = command.at + 1, !.left = command.left - 1,
                        !.result = command.result, !.called = circumstances.cached]
        BY <1>2 DEF CommandTypes, Judging!Generate
    <2>5. circumstances' = circumstances
        BY <1>1
    <2> QED
        BY <1>2, <2>1, <2>2, <2>3, <2>4, <2>5, CommandGoes
<1>6. Knows'
    <2>1. sealed'["feedback"] = sealed["feedback"]
        BY <1>1
    <2>2. command'.left <= command.left /\ command'.left \in Nat
        <3>1. command.left \in Nat
            BY <1>2, CommandIs
        <3> QED
            BY <1>1, <1>5, <3>1
    <2>3. command.at <= 2 => Judging!CellsOf(Holdout)[command.at] \in generated'
        BY <1>1, <1>2, <1>3, FirstCells
    <2> QED
        BY <1>2, <1>4, <1>5, <2>1, <2>2, <2>3, KnowledgeStays
<1>7. CommandFits'
    BY <1>1, <1>5, <1>6 DEF CommandFits
<1>8. JudgingTypes'
    BY <1>1, <1>2 DEF JudgingTypes, Judging!Leavings, Judging!NativeCells, Judging!Outcomes
<1>9. NativesFit'
    BY <1>1, <1>2, <1>4, NativesStay DEF JudgingInv
<1>10. OfficialFits' /\ OutcomesFit' /\ NotesFit'
    BY <1>1 DEF JudgingInv, OfficialFits, OutcomesFit, NotesFit
<1>11. GeneratedFits'
    <2>1. ~Judging!Locked'
        <3>1. ~Judging!Locked
            BY <1>1, <1>2 DEF Knows, Judging!Generating
        <3> QED
            BY <1>1, <3>1, OpenStays
    <2>2. PartGenerated' \/ generated' \cap Judging!HoldoutCells \subseteq {First}
        <3>1. /\ CellsFor(PartTasks) = {Judging!CellsOf(Holdout)[i] : i \in {1, 2}}
              /\ First = Judging!CellsOf(Holdout)[1]
            BY FirstTask DEF First
        <3>2. \A i \in 1 .. 2 : i < command.at => Judging!CellsOf(Holdout)[i] \in generated
            <4>1. command.left > 0
                BY <1>1, <1>2, CommandIs
            <4> QED
                BY <1>1, <1>2, <4>1 DEF Knows
        <3>3. command.at <= 2 => c = Judging!CellsOf(Holdout)[command.at]
            BY <1>1, <1>2, <1>3, FirstCells
        <3>4. command.at \in Nat \ {0}
            BY <1>2, CommandIs
        <3>5. CASE command.at = 1
            <4>1. c = First
                BY <3>1, <3>3, <3>5
            <4>2. PartGenerated => PartGenerated'
                BY <1>3 DEF PartGenerated
            <4> QED
                BY <1>3, <4>1, <4>2 DEF JudgingInv, GeneratedFits
        <3>6. CASE command.at > 1
            <4>1. Judging!CellsOf(Holdout)[1] \in generated
                BY <3>2, <3>4, <3>6
            <4>2. Judging!CellsOf(Holdout)[2] \in generated'
                <5>1. CASE command.at = 2
                    BY <1>3, <3>3, <5>1
                <5>2. CASE command.at > 2
                    BY <1>3, <3>2, <3>4, <5>2
                <5> QED
                    BY <3>4, <3>6, <5>1, <5>2
            <4> QED
                BY <1>3, <3>1, <4>1, <4>2 DEF PartGenerated
        <3> QED
            BY <3>4, <3>5, <3>6
    <2>3. Judging!HoldoutCells' = Judging!HoldoutCells /\ First' = First
        BY DEF Judging!HoldoutCells, First
    <2>4. circumstances.program = "experiment" => Judging!AllCells \subseteq generated'
        BY <1>3 DEF JudgingInv, GeneratedFits
    <2> QED
        BY <1>1, <2>1, <2>2, <2>3, <2>4 DEF GeneratedFits
<1>12. sealed' = sealed
    BY <1>1
<1> QED
    BY <1>4, <1>7, <1>8, <1>9, <1>10, <1>11, <1>12, StepFits

-----------------------------------------------------------------------------
(* Summaries are written or torn.                                          *)

\* What a summary of a name says when it is written.
SaysNow(name, s) ==
    /\ name = "feedback" =>
         s = Judging!SummaryOf("feedback") /\ Judging!Complete(Judging!Shown("feedback"))
    /\ name = "experiment" =>
         s = Judging!SummaryOf("experiment") /\ Judging!Complete(Judging!Shown("experiment"))
    /\ name = "projection" =>
         /\ s = Judging!SummaryOf("project") /\ Judging!Complete(Judging!Shown("project"))
         /\ HoldoutGenerated /\ Judging!Complete(Judging!Shown("judge"))
    /\ name = "retried" =>
         /\ s = Judging!SummaryOf("retry")
         /\ HoldoutGenerated /\ Judging!Complete(Judging!Shown("judge"))
    /\ name = "holdout" =>
         \/ /\ s = Judging!SummaryOf("judge") /\ Judging!Complete(Judging!Shown("judge"))
            /\ HoldoutGenerated
         \/ /\ s = Judging!SummaryOf("judge_part")
            /\ Judging!Complete(Judging!Shown("judge_part"))
    /\ name = "attempts" =>
         /\ HoldoutGenerated
         /\ ~circumstances.cached =>
              s = [scope |-> "generate", called |-> FALSE, passed |-> FALSE,
                   cells |-> Judging!Cardinality(Judging!HoldoutCells)]
    /\ name = "attempts_so_far" => (s.cells >= 2 => PartGenerated)

SealsOnly == UNCHANGED <<circumstances, generated, official, notes, natives>>

LEMMA SealsChange ==
    ASSUME Judging!NativeJudgingAssumption, JudgingTypes, SealsFit, SealsOnly, Grow,
           NEW name \in Seals, NEW s, sealed' = [sealed EXCEPT ![name] = s],
           s # Torn => SaysNow(name, s)
    PROVE  SealsFit'
<1>1. /\ DOMAIN sealed = Seals /\ sealed'[name] = s
      /\ \A n \in Seals : n # name => sealed'[n] = sealed[n]
    BY DEF JudgingTypes
<1>2. circumstances' = circumstances /\ generated' = generated /\ natives' = natives
    BY DEF SealsOnly
<1>3. ASSUME NEW cmd \in {"feedback", "judge", "project", "judge_part", "experiment", "retry"}
      PROVE  /\ Judging!SummaryOf(cmd)' = Judging!SummaryOf(cmd)
             /\ Judging!Complete(Judging!Shown(cmd))' <=> Judging!Complete(Judging!Shown(cmd))
    <2>1. Judging!Shown(cmd)' = Judging!Shown(cmd)
        BY <1>2 DEF Judging!Shown, Judging!Source, Judging!Overlay, Judging!FeedbackCells,
           Judging!HoldoutCells, Judging!Part
    <2> QED
        BY <1>2, <2>1, SummaryStays
<1>4. /\ HoldoutGenerated' <=> HoldoutGenerated
      /\ PartGenerated' <=> PartGenerated
    BY <1>2 DEF HoldoutGenerated, PartGenerated
<1>5. \A n \in Seals : Judging!Frozen(n)' =>
        IF n = name THEN s # Torn /\ sealed'[n] = s /\ SaysNow(name, s)
        ELSE Judging!Frozen(n) /\ sealed'[n] = sealed[n]
    BY <1>1 DEF Judging!Frozen
<1>6. Says("feedback", "feedback")' /\ Says("projection", "project")'
      /\ Says("experiment", "experiment")'
    <2>1. Says("feedback", "feedback")'
        BY <1>3, <1>5 DEF Says, SealsFit, SaysNow, Seals
    <2>2. Says("projection", "project")'
        BY <1>3, <1>5 DEF Says, SealsFit, SaysNow, Seals
    <2>3. Says("experiment", "experiment")'
        BY <1>3, <1>5 DEF Says, SealsFit, SaysNow, Seals
    <2> QED
        BY <2>1, <2>2, <2>3
<1>7. Says("holdout", "judge")' \/ Says("holdout", "judge_part")'
    <2>1. CASE name = "holdout" /\ s = Judging!SummaryOf("judge")
        BY <1>3, <1>5, <2>1 DEF Says, SaysNow, Seals, Judging!SummaryOf
    <2>2. CASE name = "holdout" /\ s # Judging!SummaryOf("judge")
        BY <1>3, <1>5, <2>2 DEF Says, SaysNow, Seals
    <2>3. CASE name # "holdout"
        BY <1>3, <1>5, <2>3 DEF Says, SealsFit, Seals
    <2> QED
        BY <2>1, <2>2, <2>3
<1>8. (Judging!Frozen("attempts") =>
         /\ HoldoutGenerated
         /\ ~circumstances.cached =>
              sealed["attempts"] = [scope |-> "generate", called |-> FALSE, passed |-> FALSE,
                                    cells |-> Judging!Cardinality(Judging!HoldoutCells)])'
    <2>1. Judging!HoldoutCells' = Judging!HoldoutCells
          /\ Judging!Cardinality(Judging!HoldoutCells)' = Judging!Cardinality(Judging!HoldoutCells)
        BY DEF Judging!HoldoutCells
    <2> QED
        BY <1>2, <1>4, <1>5, <2>1 DEF SealsFit, SaysNow, Seals
<1>9. (Judging!Frozen("attempts_so_far") /\ sealed["attempts_so_far"].cells >= 2
       => PartGenerated)'
    BY <1>4, <1>5 DEF SealsFit, SaysNow, Seals
<1>10. (Judging!Frozen("retried") =>
          /\ Judging!Failures(sealed["retried"].cells) # {} => ~sealed["retried"].passed
          /\ Judging!Failures(sealed["retried"].cells) = {} =>
               sealed["retried"] = Judging!SummaryOf("retry"))'
    <2>1. SUFFICES ASSUME Judging!Frozen("retried")'
                   PROVE  (/\ Judging!Failures(sealed["retried"].cells) # {}
                                => ~sealed["retried"].passed
                           /\ Judging!Failures(sealed["retried"].cells) = {} =>
                                sealed["retried"] = Judging!SummaryOf("retry"))'
        OBVIOUS
    <2>2. CASE name = "retried"
        <3>1. s = Judging!SummaryOf("retry") /\ sealed'["retried"] = s
            BY <1>5, <2>1, <2>2 DEF SaysNow, Seals
        <3>2. Judging!Failures(s.cells) # {} => ~s.passed
            BY <3>1 DEF Judging!SummaryOf, Judging!Passed, Judging!CapabilityGate
        <3> QED
            BY <1>3, <3>1, <3>2 DEF Judging!Failures
    <2>3. CASE name # "retried"
        BY <1>3, <1>5, <2>1, <2>3 DEF SealsFit, Seals, Judging!Failures
    <2> QED
        BY <2>2, <2>3
<1>11. (\A n \in {"projection", "retried"} : Judging!Frozen(n) =>
          HoldoutGenerated /\ Judging!Complete(Judging!Shown("judge")))'
    BY <1>3, <1>4, <1>5 DEF SealsFit, SaysNow, Seals
<1>12. (Judging!Frozen("holdout") /\ sealed["holdout"].scope = "judge" => HoldoutGenerated)'
    <2>1. Judging!SummaryOf("judge_part").scope = "judge_part"
        BY DEF Judging!SummaryOf
    <2> QED
        BY <1>4, <1>5, <2>1 DEF SealsFit, SaysNow, Seals
<1> QED
    BY <1>6, <1>7, <1>8, <1>9, <1>10, <1>11, <1>12 DEF SealsFit

LEMMA SameCount ==
    ASSUME NEW S PROVE Judging!Cardinality(S) = Cardinality(S)
BY DEF Judging!Cardinality, Cardinality

\* What a command that ends says of its cells.
LEMMA EndingSays ==
    ASSUME Judging!NativeJudgingAssumption, JudgingInv, Judging!Ending,
           NEW name, name = Judging!Name, name # None
    PROVE  /\ name \in Seals /\ SaysNow(name, Judging!Summary)
           /\ name = "feedback" => Judging!Summary = Judging!SummaryOf("feedback")
           /\ name = "attempts" /\ ~circumstances.cached =>
                Judging!Summary =
                  [scope |-> "generate", called |-> FALSE, passed |-> FALSE,
                   cells |-> Judging!Cardinality(Judging!HoldoutCells)]
           /\ name = "holdout" => Judging!Summary = Judging!SummaryOf(command.cmd)
           /\ Judging!Summary.scope = "generate" \/ Judging!Summary.scope = command.cmd
<1>1. judgePc = "scan" /\ CommandTypes /\ Knows /\ JudgingTypes /\ circumstances \in Setups
    BY DEF JudgingInv, CommandFits, Judging!Ending, JudgingTypes
<1>2. CASE Judging!Generating
    <2>1. Judging!Summary = [scope |-> "generate", called |-> command.called, passed |-> FALSE,
                             cells |-> Judging!Cardinality(generated \cap Judging!HoldoutCells)]
        BY <1>2 DEF Judging!Summary
    <2>2. command.cmd \in {"generate", "generate_part"}
        BY <1>2 DEF Judging!Generating
    <2>3. CASE HoldoutGenerated
        <3>1. name = "attempts"
            BY <1>2, <2>2, <2>3 DEF Judging!Name, HoldoutGenerated
        <3>2. generated \cap Judging!HoldoutCells = Judging!HoldoutCells
            BY <2>3 DEF HoldoutGenerated
        <3>3. ~circumstances.cached => command.called = FALSE
            BY <1>1 DEF CommandTypes
        <3> QED
            BY <2>1, <2>3, <3>1, <3>2, <3>3 DEF SaysNow, Seals
    <2>4. CASE ~HoldoutGenerated
        <3>1. name = "attempts_so_far"
            BY <1>2, <2>2, <2>4 DEF Judging!Name, HoldoutGenerated
        <3>2. Judging!Cardinality(generated \cap Judging!HoldoutCells) >= 2 => PartGenerated
            <4>1. CASE generated \cap Judging!HoldoutCells \subseteq {First}
                <5>1. PICK S : S = generated \cap Judging!HoldoutCells
                    OBVIOUS
                <5>2. S = {} \/ S = {First}
                    BY <4>1, <5>1
                <5>3. Cardinality(S) = 0 \/ Cardinality(S) = 1
                    BY <5>2, FS_EmptySet, FS_Singleton
                <5>4. Judging!Cardinality(S) = Cardinality(S)
                    BY SameCount
                <5> QED
                    BY <5>1, <5>3, <5>4
            <4>2. CASE PartGenerated
                BY <4>2
            <4> QED
                BY <4>1, <4>2 DEF JudgingInv, GeneratedFits
        <3> QED
            BY <2>1, <3>1, <3>2 DEF SaysNow, Seals
    <2> QED
        BY <2>3, <2>4
<1>3. CASE ~Judging!Generating
    <2>1. Judging!Summary = Judging!SummaryOf(command.cmd)
          /\ Judging!Summary.scope = command.cmd
        BY <1>3 DEF Judging!Summary, Judging!SummaryOf
    <2>2. command.cmd \in {"feedback", "judge", "judge_part", "project", "retry", "experiment"}
        BY <1>1, <1>3, Programs DEF Judging!Generating
    <2>3. CASE command.cmd = "feedback"
        <3>1. name = "feedback" /\ Judging!Complete(Judging!Shown("feedback"))
            BY <1>3, <2>3 DEF Judging!Name
        <3> QED
            BY <2>1, <2>3, <3>1 DEF SaysNow, Seals
    <2>4. CASE command.cmd \in {"judge", "judge_part"}
        <3>1. name = "holdout" /\ Judging!Complete(Judging!Shown(command.cmd))
            BY <1>3, <2>4 DEF Judging!Name
        <3>2. command.cmd = "judge" => HoldoutGenerated
            BY <1>1 DEF Knows
        <3> QED
            BY <2>1, <2>4, <3>1, <3>2 DEF SaysNow, Seals
    <2>5. CASE command.cmd = "project"
        <3>1. name = "projection"
            BY <1>3, <2>5 DEF Judging!Name
        <3>2. HoldoutGenerated /\ Judging!Complete(Judging!Shown("judge"))
            BY <1>1, <2>5 DEF Knows
        <3>3. Judging!Shown("project") = Judging!Shown("judge")
            BY DEF Judging!Shown
        <3> QED
            BY <2>1, <2>5, <3>1, <3>2, <3>3 DEF SaysNow, Seals
    <2>6. CASE command.cmd = "retry"
        <3>1. name = "retried"
            BY <1>3, <2>6 DEF Judging!Name
        <3>2. HoldoutGenerated /\ Judging!Complete(Judging!Shown("judge"))
            BY <1>1, <2>6 DEF Knows
        <3> QED
            BY <2>1, <2>6, <3>1, <3>2 DEF SaysNow, Seals
    <2>7. CASE command.cmd = "experiment"
        <3>1. IF Judging!Complete(Judging!Shown("experiment")) THEN name = "experiment"
              ELSE name = "progress"
            BY <1>3, <2>7 DEF Judging!Name
        <3> QED
            BY <2>1, <2>7, <3>1 DEF SaysNow, Seals
    <2> QED
        BY <2>2, <2>3, <2>4, <2>5, <2>6, <2>7
<1> QED
    BY <1>2, <1>3

\* Steps that end a command and may change one summary.
LEMMA SealStep ==
    ASSUME Judging!NativeJudgingAssumption, JudgingInv, SealsOnly, Grow,
           judgePc \notin {"receipt", "write"} \/ judgeKills' > 0,
           judgePc' = "idle",
           NEW name \in Seals, NEW s, sealed' = [sealed EXCEPT ![name] = s],
           s # Torn => SaysNow(name, s),
           name = "feedback" => sealed[name] \in {None, s}
    PROVE  JudgingInv'
<1>1. JudgingTypes /\ SealsFit
    BY DEF JudgingInv
<1>2. SealsFit'
    BY <1>1, SealsChange
<1>3. /\ circumstances' = circumstances /\ generated' = generated /\ official' = official
      /\ notes' = notes /\ natives' = natives
    BY DEF SealsOnly
<1>4. JudgingTypes'
    <2>1. sealed' = [n \in Seals |-> sealed'[n]]
        BY <1>1 DEF JudgingTypes
    <2> QED
        BY <1>1, <1>3, <2>1 DEF JudgingTypes, Grow, Judging!Leavings, Judging!NativeCells,
           Judging!Outcomes
<1>5. NativesFit'
    BY <1>1, <1>3, NativesStay DEF JudgingInv
<1>6. judgeKills > 0 => judgeKills' > 0
    BY <1>1 DEF Grow, JudgingTypes
<1>7. OfficialFits' /\ OutcomesFit'
    BY <1>3, <1>6 DEF JudgingInv, OfficialFits, OutcomesFit
<1>8. NotesFit'
    BY <1>3, <1>6 DEF JudgingInv, NotesFit
<1>9. GeneratedFits'
    <2>1. ~Judging!Locked => ~Judging!Locked'
        <3>1. CASE ~Judging!Locked
            <4>1. Judging!Frozen("feedback")
                BY <3>1 DEF Judging!Locked
            <4>2. sealed["feedback"] # None
                BY <4>1 DEF Judging!Frozen
            <4>3. sealed'["feedback"] = sealed["feedback"]
                BY <1>1, <4>2 DEF JudgingTypes, Seals
            <4> QED
                BY <3>1, <4>3, OpenStays
        <3> QED
            BY <3>1
    <2>2. Judging!HoldoutCells' = Judging!HoldoutCells /\ First' = First
        BY DEF Judging!HoldoutCells, First
    <2> QED
        BY <1>3, <2>1, <2>2 DEF JudgingInv, GeneratedFits, PartGenerated
<1>10. CommandFits'
    BY DEF CommandFits, Working
<1> QED
    BY <1>2, <1>4, <1>5, <1>7, <1>8, <1>9, <1>10 DEF JudgingInv

LEMMA WriteSummaryStep2 ==
    ASSUME Judging!NativeJudgingAssumption, JudgingInv, Judging!WriteSummary
    PROVE  JudgingInv'
<1>1. /\ Judging!Ending /\ judgePc = "scan" /\ judgePc' = "idle"
      /\ UNCHANGED <<circumstances, generated, official, notes, natives, judgeKills>>
    BY DEF Judging!WriteSummary, Judging!Ending
<1>2. JudgingTypes /\ SealsFit
    BY DEF JudgingInv
<1>3. Grow /\ SealsOnly
    BY <1>1, <1>2 DEF Grow, SealsOnly, JudgingTypes
<1>4. CASE sealed' = sealed
    <2>1. Stays
        BY <1>1, <1>4 DEF Stays
    <2>2. CommandFits'
        BY <1>1, <1>2 DEF CommandFits, Working
    <2> QED
        BY <1>1, <2>1, <2>2, QuietStep2
<1>5. CASE sealed' # sealed
    <2>1. PICK name, s : /\ name = Judging!Name /\ s = Judging!Summary /\ name # None
                         /\ sealed[name] = None \/ name = "attempts_so_far"
                         /\ sealed' = [sealed EXCEPT ![name] = s]
        BY <1>5 DEF Judging!WriteSummary, Judging!Overwritten
    <2>2. name \in Seals /\ SaysNow(name, s)
        BY <1>1, <2>1, EndingSays
    <2>3. name = "feedback" => sealed[name] \in {None, s}
        BY <2>1
    <2> QED
        BY <1>1, <1>2, <1>3, <2>1, <2>2, <2>3, SealStep
<1> QED
    BY <1>4, <1>5

\* A kill leaves a file that is torn, or nothing.
LEMMA KilledStep ==
    ASSUME Judging!NativeJudgingAssumption, JudgingInv, Grow, judgeKills' > 0,
           judgePc' = "idle",
           UNCHANGED <<circumstances, generated, natives, sealed>>,
           official' \in [Outputs -> [Judging!AllCells -> {None} \cup Judging!Leavings]],
           \A o \in Outputs, c \in Judging!AllCells :
              \/ official'[o][c] = official[o][c]
              \/ official'[o][c].state \notin {"reported", "received"},
           notes' = [r \in Roots |-> [c \in Judging!AllCells |-> notes'[r][c]]]
    PROVE  JudgingInv'
<1>1. JudgingTypes
    BY DEF JudgingInv
<1>2. JudgingTypes'
    BY <1>1 DEF JudgingTypes, Grow, Judging!Leavings, Judging!NativeCells, Judging!Outcomes
<1>3. NativesFit'
    BY <1>1, NativesStay DEF JudgingInv
<1>4. OfficialFits' /\ NotesFit'
    BY DEF OfficialFits, NotesFit
<1>5. OutcomesFit'
    BY DEF JudgingInv, OutcomesFit
<1>6. GeneratedFits'
    BY GeneratedRest DEF JudgingInv
<1>7. CommandFits'
    BY DEF CommandFits, Working
<1>8. sealed' = sealed
    OBVIOUS
<1> QED
    BY <1>2, <1>3, <1>4, <1>5, <1>6, <1>7, <1>8, StepFits

LEMMA KillStep2 ==
    ASSUME Judging!NativeJudgingAssumption, JudgingInv, Judging!Kill
    PROVE  JudgingInv'
<1>1. /\ judgePc # "idle" /\ judgePc' = "idle"
      /\ judgeKills' = judgeKills + 1
      /\ circumstances' = circumstances /\ generated' = generated /\ natives' = natives
    BY DEF Judging!Kill
<1>2. JudgingTypes /\ judgeKills' \in Nat /\ judgeKills <= judgeKills' /\ judgeKills' > 0
    <2>1. JudgingTypes /\ judgeKills \in Nat
        BY DEF JudgingInv, JudgingTypes
    <2> QED
        BY <1>1, <2>1
<1>3. /\ official \in [Outputs -> [Judging!AllCells -> {None} \cup Judging!Leavings]]
      /\ notes = [r \in Roots |-> [c \in Judging!AllCells |-> notes[r][c]]]
    BY <1>2 DEF JudgingTypes
<1>4. official' = official => Grow
    BY <1>1, <1>2 DEF Grow, JudgingTypes
<1>5. CASE UNCHANGED <<official, notes, sealed>>
    <2>1. UNCHANGED <<circumstances, generated, natives, sealed>>
        BY <1>1, <1>5
    <2> QED
        BY <1>1, <1>2, <1>3, <1>4, <1>5, <2>1, KilledStep
<1>6. ASSUME judgePc \in {"harness", "receipt"}, UNCHANGED <<notes, sealed>>,
             NEW o, o = Judging!Out, NEW c, c = Judging!Cell, NEW v \in Judging!Leavings,
             Leaves(o, c, v), v.state \notin {"reported", "received"}
      PROVE  JudgingInv'
    <2>1. /\ Grow
          /\ official' \in [Outputs -> [Judging!AllCells -> {None} \cup Judging!Leavings]]
          /\ official'[o][c] = v
          /\ \A o1 \in Outputs, c1 \in Judging!AllCells :
                o1 # o \/ c1 # c => official'[o1][c1] = official[o1][c1]
        BY <1>6, OfficialGrows
    <2>2. \A o1 \in Outputs, c1 \in Judging!AllCells :
              \/ official'[o1][c1] = official[o1][c1]
              \/ official'[o1][c1].state \notin {"reported", "received"}
        BY <1>6, <2>1
    <2>3. UNCHANGED <<circumstances, generated, natives, sealed>>
        BY <1>1, <1>6
    <2>4. notes' = [r \in Roots |-> [i \in Judging!AllCells |-> notes'[r][i]]]
        BY <1>3, <1>6
    <2> QED
        BY <1>1, <1>2, <2>1, <2>2, <2>3, <2>4, KilledStep
<1>7. CASE /\ judgePc = "receipt" /\ UNCHANGED <<notes, sealed>>
           /\ official' = [official EXCEPT ![Judging!Out][Judging!Cell].state = "torn_receipt"]
    <2>1. judgePc \in Working /\ judgePc \in {"harness", "receipt"}
        BY <1>7 DEF Working
    <2>2. PICK o \in Outputs, c \in Judging!AllCells :
            /\ o = Judging!Out /\ c = Judging!Cell /\ InHand /\ Judging!There = official[o][c]
        BY <2>1, AtHand
    <2>3. official[o][c] # None
        BY <1>7, <2>2 DEF InHand
    <2>4. PICK w \in Judging!Leavings : w = official[o][c]
        BY <1>3, <2>3
    <2>5. PICK v \in Judging!Leavings : /\ v = [w EXCEPT !.state = "torn_receipt"]
                                        /\ v.state = "torn_receipt"
        <3>1. /\ [w EXCEPT !.state = "torn_receipt"] \in Judging!Leavings
              /\ [w EXCEPT !.state = "torn_receipt"].state = "torn_receipt"
            BY DEF Judging!Leavings
        <3> QED
            BY <3>1
    <2>6. Leaves(o, c, v)
        BY <1>1, <1>2, <1>7, <2>2, <2>4, <2>5 DEF Leaves
    <2>7. v.state \notin {"reported", "received"}
        BY <2>5
    <2> QED
        BY <1>6, <1>7, <2>1, <2>2, <2>6, <2>7
<1>8. CASE /\ judgePc = "harness" /\ UNCHANGED <<notes, sealed>>
           /\ official' = [official EXCEPT ![Judging!Out][Judging!Cell]
                                             = Judging!Left("torn_failure", "none")]
    <2>1. judgePc \in Working /\ judgePc \in {"harness", "receipt"}
        BY <1>8 DEF Working
    <2>2. PICK o \in Outputs, c \in Judging!AllCells : o = Judging!Out /\ c = Judging!Cell
        BY <2>1, AtHand
    <2>3. PICK v \in Judging!Leavings : /\ v = Judging!Left("torn_failure", "none")
                                        /\ v.state = "torn_failure"
        <3>1. /\ Judging!Left("torn_failure", "none") \in Judging!Leavings
              /\ Judging!Left("torn_failure", "none").state = "torn_failure"
            BY DEF Judging!Left, Judging!Leavings
        <3> QED
            BY <3>1
    <2>4. Leaves(o, c, v)
        BY <1>1, <1>2, <1>8, <2>2, <2>3 DEF Leaves
    <2>5. v.state \notin {"reported", "received"}
        BY <2>3
    <2> QED
        BY <1>6, <1>8, <2>1, <2>2, <2>4, <2>5
<1>9. CASE /\ UNCHANGED <<official, sealed>>
           /\ notes' = [notes EXCEPT ![Judging!Evidence][Judging!Cell] = Torn]
    <2>1. notes' = [r \in Roots |-> [c \in Judging!AllCells |-> notes'[r][c]]]
        BY <1>3, <1>9
    <2>2. UNCHANGED <<circumstances, generated, natives, sealed>>
        BY <1>1, <1>9
    <2> QED
        BY <1>1, <1>2, <1>3, <1>4, <1>9, <2>1, <2>2, KilledStep
<1>10. CASE /\ Judging!Ending /\ Judging!Name # None
            /\ sealed[Judging!Name] = None \/ Judging!Name \in Judging!Overwritten
            /\ sealed' = [sealed EXCEPT ![Judging!Name] = Torn] /\ UNCHANGED <<official, notes>>
    <2>1. PICK name : name = Judging!Name /\ name # None
        BY <1>10
    <2>2. name \in Seals
        BY <1>10, <2>1, EndingSays
    <2>3. Grow /\ SealsOnly
        BY <1>1, <1>4, <1>10 DEF SealsOnly
    <2>4. name = "feedback" => sealed[name] \in {None, Torn}
        BY <1>10, <2>1 DEF Judging!Overwritten
    <2>5. sealed' = [sealed EXCEPT ![name] = Torn]
        BY <1>10, <2>1
    <2> QED
        BY <1>1, <1>2, <2>2, <2>3, <2>4, <2>5, SealStep
<1> QED
    BY <1>5, <1>7, <1>8, <1>9, <1>10 DEF Judging!Kill

LEMMA JudgingNext ==
    ASSUME Judging!NativeJudgingAssumption, JudgingInv, [Judging!Next]_(Judging!vars)
    PROVE  JudgingInv'
<1>1. CASE UNCHANGED Judging!vars
    <2>1. /\ Stays /\ command' = command /\ judgePc' = judgePc
        BY <1>1 DEF Judging!vars, Stays
    <2>2. JudgingTypes /\ Grow
        BY StaysGrow, <2>1 DEF JudgingInv
    <2>3. UNCHANGED <<circumstances, generated, official, notes, natives, sealed, command,
                      judgePc, judgeKills>>
        BY <1>1 DEF Judging!vars
    <2>4. JudgingTypes'
        BY <2>2, <2>3 DEF JudgingTypes, Judging!Leavings, Judging!NativeCells, Judging!Outcomes
    <2>5. NativesFit'
        BY <2>2, <2>3, NativesStay DEF JudgingInv
    <2>6. /\ Judging!Plan' = Judging!Plan /\ Judging!Cell' = Judging!Cell
          /\ Judging!Evidence' = Judging!Evidence /\ Judging!Out' = Judging!Out
          /\ Judging!Generating' <=> Judging!Generating
        BY <2>3, SameCell
    <2>7. OfficialFits' /\ OutcomesFit' /\ NotesFit'
        BY <2>3, <2>6 DEF JudgingInv, OfficialFits, OutcomesFit, NotesFit
    <2>8. GeneratedFits'
        BY <2>3, GeneratedRest DEF JudgingInv
    <2>9. judgePc # "idle" => CommandTypes' /\ Knows'
        <3>1. CASE judgePc # "idle"
            <4>1. CommandTypes /\ Knows
                BY <3>1 DEF JudgingInv, CommandFits
            <4>2. Judging!CommandsOf(circumstances.program)'
                  = Judging!CommandsOf(circumstances.program)
                BY <2>3 DEF Judging!CommandsOf
            <4>3. CommandTypes'
                BY <2>3, <4>1, <4>2 DEF CommandTypes, Judging!NativeCells, Judging!Outcomes
            <4>4. command'.left <= command.left /\ command'.left \in Nat
                  /\ sealed'["feedback"] = sealed["feedback"]
                  /\ command'.cmd = command.cmd /\ command'.at = command.at
                <5>1. command.left \in Nat
                    BY <4>1, CommandIs
                <5> QED
                    BY <2>3, <4>1, <5>1 DEF Knows
            <4>5. Knows'
                BY <2>2, <4>1, <4>4, KnowledgeStays
            <4> QED
                BY <4>3, <4>5
        <3> QED
            BY <3>1
    <2>10. judgePc \in Working => InHand'
        <3>1. CASE judgePc \in Working
            <4>1. PICK e \in Roots, c \in Judging!AllCells, o \in Outputs :
                    /\ e = Judging!Evidence /\ c = Judging!Cell /\ o = Judging!Out
                    /\ InHand /\ natives[e][c] = None /\ Judging!There = official[o][c]
                BY <3>1, AtHand
            <4>2. PICK x : x = command.result
                OBVIOUS
            <4>3. judgePc' \in {"note", "write"} => command'.result = x /\ Sound(e, c, x)'
                <5>1. CASE judgePc' \in {"note", "write"}
                    <6>1. Sound(e, c, x)
                        BY <2>3, <4>1, <4>2, <5>1 DEF InHand
                    <6> QED
                        BY <2>2, <2>3, <4>2, <6>1, SoundStays
                <5> QED
                    BY <5>1
            <4>4. /\ command'.cmd = command.cmd /\ command'.at = command.at
                  /\ command'.left = command.left /\ circumstances' = circumstances
                  /\ natives' = natives
                BY <2>3
            <4>5. /\ command.left # 0 /\ command.at <= Len(Judging!Plan)
                  /\ ~Judging!Generating
                  /\ command.cmd = "retry" => Judging!Source[c].how = "failed"
                BY <4>1 DEF InHand
            <4>6. /\ judgePc' \in {"look_up", "harness", "receipt", "normalize"} =>
                       circumstances.pairs[c.task] = "distinct"
                  /\ judgePc' = "harness" => official'[o][c] = None
                  /\ judgePc' = "receipt" =>
                       official'[o][c] # None /\ official'[o][c].state = "reported"
                  /\ judgePc' = "normalize" =>
                       official'[o][c] # None /\ official'[o][c].state = "received"
                BY <2>3, <4>1 DEF InHand
            <4> QED
                BY <4>1, <4>3, <4>4, <4>5, <4>6, HoldsCell
        <3> QED
            BY <3>1
    <2>11. CommandFits'
        BY <2>3, <2>9, <2>10 DEF CommandFits
    <2>12. sealed' = sealed
        BY <2>3
    <2> QED
        BY <2>2, <2>4, <2>5, <2>7, <2>8, <2>11, <2>12, StepFits
<1>2. CASE Judging!Next
    <2>1. CASE Judging!Start
        BY <2>1, StartStep2
    <2>2. CASE Judging!GenerateFeedback
        BY <2>2, GenerateFeedbackStep
    <2>3. CASE Judging!Pass
        BY <2>3, PassStep
    <2>4. CASE Judging!Generate
        BY <2>4, GenerateStep
    <2>5. CASE Judging!Admit
        BY <2>5, AdmitStep
    <2>6. CASE \/ Judging!PairRefused \/ Judging!ReceiptUnreadable
               \/ Judging!PrefetchTimesOut \/ Judging!ReportRefused
               \/ Judging!NoteRefused \/ Judging!SummaryRefused
        BY <2>6, RaisingStep
    <2>7. CASE Judging!Run
        BY <2>7, HarnessStep
    <2>8. CASE Judging!Resume
        BY <2>8, ResumeStep
    <2>9. CASE Judging!ResumeFailure
        BY <2>9, ResumeFailureStep
    <2>10. CASE Judging!CopyReport
        BY <2>10, CopyReportStep
    <2>11. CASE Judging!PersistFailure
        BY <2>11, PersistFailureStep
    <2>12. CASE Judging!PrefetchFails
        BY <2>12, PrefetchFailsStep
    <2>13. CASE Judging!WriteReceipt
        BY <2>13, WriteReceiptStep
    <2>14. CASE Judging!Normalize
        BY <2>14, NormalizeStep
    <2>15. CASE Judging!WriteNote
        BY <2>15, WriteNoteStep
    <2>16. CASE Judging!WriteCell
        BY <2>16, WriteCellStep
    <2>17. CASE Judging!WriteSummary
        BY <2>17, WriteSummaryStep2
    <2>18. CASE Judging!Kill
        BY <2>18, KillStep2
    <2> QED
        BY <1>2, <2>1, <2>2, <2>3, <2>4, <2>5, <2>6, <2>7, <2>8, <2>9, <2>10, <2>11, <2>12,
           <2>13, <2>14, <2>15, <2>16, <2>17, <2>18 DEF Judging!Next
<1> QED
    BY <1>1, <1>2

-----------------------------------------------------------------------------
(* What the judgement promises.                                            *)

LEMMA JudgingKeeps ==
    ASSUME Judging!NativeJudgingAssumption, JudgingInv, [Judging!Next]_(Judging!vars)
    PROVE  Judging!KeepsEvidence
<1>1. JudgingTypes
    BY DEF JudgingInv
<1>2. /\ DOMAIN natives = Roots /\ DOMAIN official = Outputs /\ DOMAIN notes = Roots
      /\ DOMAIN sealed = Seals
    BY <1>1 DEF JudgingTypes
<1> DEFINE NativesKept == \A r \in Roots, c \in Judging!AllCells :
        natives[r][c] # None => natives'[r][c] = natives[r][c]
           OfficialKept == \A o \in Outputs, c \in Judging!AllCells :
        official[o][c] # None /\ official[o][c].state = "received"
        => official'[o][c] = official[o][c]
           NotesKept == \A r \in Roots, c \in Judging!AllCells :
        notes[r][c] # None => notes'[r][c] = notes[r][c]
           SealsKept == \A n \in Seals \ {"attempts_so_far"} :
        sealed[n] # None => sealed'[n] = sealed[n]
<1>3. NativesKept
    <2>1. CASE Judging!WriteCell
        <3>1. judgePc \in Working
            BY <2>1 DEF Judging!WriteCell, Working
        <3>2. PICK e \in Roots, c \in Judging!AllCells :
                e = Judging!Evidence /\ c = Judging!Cell /\ natives[e][c] = None
            BY <3>1, AtHand
        <3>3. natives' = [natives EXCEPT ![e][c] = command.result]
            BY <2>1, <3>2 DEF Judging!WriteCell
        <3>4. natives \in [Roots -> [Judging!AllCells -> {None} \cup Judging!NativeCells]]
            BY <1>1 DEF JudgingTypes
        <3> QED
            BY <3>2, <3>3, <3>4
    <2>2. CASE ~Judging!WriteCell
        <3>1. natives' = natives
            BY <2>2 DEF Judging!Next, Judging!vars, Judging!Start, Judging!GenerateFeedback,
               Judging!Pass, Judging!Generate, Judging!Admit, Judging!PairRefused,
               Judging!Run, Judging!Resume, Judging!ResumeFailure, Judging!ReceiptUnreadable,
               Judging!PrefetchTimesOut, Judging!Normalize, Judging!ReportRefused,
               Judging!CopyReport, Judging!PersistFailure, Judging!PrefetchFails,
               Judging!WriteReceipt, Judging!WriteNote, Judging!NoteRefused,
               Judging!WriteSummary, Judging!SummaryRefused, Judging!Kill, Judging!Result,
               Judging!Raise
        <3> QED
            BY <3>1
    <2> QED
        BY <2>1, <2>2
<1>4. OfficialKept
    <2>1. ASSUME judgePc \in {"harness", "receipt"},
                 \E w : official' = [official EXCEPT ![Judging!Out][Judging!Cell] = w]
          PROVE  OfficialKept
        <3>1. judgePc \in Working
            BY <2>1 DEF Working
        <3>2. PICK o \in Outputs, c \in Judging!AllCells :
                /\ o = Judging!Out /\ c = Judging!Cell /\ InHand
                /\ Judging!There = official[o][c]
            BY <3>1, AtHand
        <3>3. official[o][c] = None \/ official[o][c].state = "reported"
            BY <2>1, <3>2 DEF InHand
        <3>4. official \in [Outputs -> [Judging!AllCells -> {None} \cup Judging!Leavings]]
            BY <1>1 DEF JudgingTypes
        <3>5. \A o1 \in Outputs, c1 \in Judging!AllCells :
                o1 # o \/ c1 # c => official'[o1][c1] = official[o1][c1]
            BY <2>1, <3>2, <3>4
        <3> QED
            BY <3>3, <3>5
    <2>2. CASE Judging!CopyReport
        <3>1. judgePc \in {"harness", "receipt"}
              /\ \E w : official' = [official EXCEPT ![Judging!Out][Judging!Cell] = w]
            BY <2>2 DEF Judging!CopyReport
        <3> QED
            BY <2>1, <3>1
    <2>3. CASE Judging!PersistFailure
        <3>1. judgePc \in {"harness", "receipt"}
              /\ \E w : official' = [official EXCEPT ![Judging!Out][Judging!Cell] = w]
            BY <2>3 DEF Judging!PersistFailure
        <3> QED
            BY <2>1, <3>1
    <2>4. CASE Judging!WriteReceipt
        <3>1. judgePc \in {"harness", "receipt"}
              /\ \E w : official' = [official EXCEPT ![Judging!Out][Judging!Cell] = w]
            BY <2>4 DEF Judging!WriteReceipt
        <3> QED
            BY <2>1, <3>1
    <2>5. CASE Judging!Kill
        BY <2>1, <2>5 DEF Judging!Kill
    <2>6. CASE ~(Judging!CopyReport \/ Judging!PersistFailure \/ Judging!WriteReceipt
                 \/ Judging!Kill)
        <3>1. official' = official
            BY <2>6 DEF Judging!Next, Judging!vars, Judging!Start, Judging!GenerateFeedback,
               Judging!Pass, Judging!Generate, Judging!Admit, Judging!PairRefused,
               Judging!Run, Judging!Resume, Judging!ResumeFailure, Judging!ReceiptUnreadable,
               Judging!PrefetchTimesOut, Judging!Normalize, Judging!ReportRefused,
               Judging!PrefetchFails, Judging!WriteNote, Judging!NoteRefused,
               Judging!WriteCell, Judging!WriteSummary, Judging!SummaryRefused,
               Judging!Result, Judging!Raise
        <3> QED
            BY <3>1
    <2> QED
        BY <2>2, <2>3, <2>4, <2>5, <2>6
<1>5. NotesKept
    <2>1. ASSUME NEW w, judgePc = "note",
                 notes[Judging!Evidence][Judging!Cell] \in {None, w},
                 notes' = [notes EXCEPT ![Judging!Evidence][Judging!Cell] = w]
          PROVE  NotesKept
        <3>1. notes = [r \in Roots |-> [c \in Judging!AllCells |-> notes[r][c]]]
            BY <1>1 DEF JudgingTypes
        <3> QED
            BY <2>1, <3>1
    <2>2. CASE Judging!WriteNote
        BY <2>1, <2>2 DEF Judging!WriteNote
    <2>3. CASE Judging!Kill
        BY <2>1, <2>3 DEF Judging!Kill
    <2>4. CASE ~(Judging!WriteNote \/ Judging!Kill)
        <3>1. notes' = notes
            BY <2>4 DEF Judging!Next, Judging!vars, Judging!Start, Judging!GenerateFeedback,
               Judging!Pass, Judging!Generate, Judging!Admit, Judging!PairRefused,
               Judging!Run, Judging!Resume, Judging!ResumeFailure, Judging!ReceiptUnreadable,
               Judging!PrefetchTimesOut, Judging!Normalize, Judging!ReportRefused,
               Judging!CopyReport, Judging!PersistFailure, Judging!PrefetchFails,
               Judging!WriteReceipt, Judging!NoteRefused, Judging!WriteCell,
               Judging!WriteSummary, Judging!SummaryRefused, Judging!Result, Judging!Raise
        <3> QED
            BY <3>1
    <2> QED
        BY <2>2, <2>3, <2>4
<1>6. SealsKept
    <2>1. ASSUME NEW w, sealed[Judging!Name] = None \/ Judging!Name \in Judging!Overwritten,
                 sealed' = [sealed EXCEPT ![Judging!Name] = w]
          PROVE  SealsKept
        BY <1>1, <2>1 DEF JudgingTypes, Judging!Overwritten
    <2>2. CASE Judging!WriteSummary
        BY <2>1, <2>2 DEF Judging!WriteSummary
    <2>3. CASE Judging!Kill
        BY <2>1, <2>3 DEF Judging!Kill
    <2>4. CASE ~(Judging!WriteSummary \/ Judging!Kill)
        <3>1. sealed' = sealed
            BY <2>4 DEF Judging!Next, Judging!vars, Judging!Start, Judging!GenerateFeedback,
               Judging!Pass, Judging!Generate, Judging!Admit, Judging!PairRefused,
               Judging!Run, Judging!Resume, Judging!ResumeFailure, Judging!ReceiptUnreadable,
               Judging!PrefetchTimesOut, Judging!Normalize, Judging!ReportRefused,
               Judging!CopyReport, Judging!PersistFailure, Judging!PrefetchFails,
               Judging!WriteReceipt, Judging!WriteNote, Judging!NoteRefused,
               Judging!WriteCell, Judging!SummaryRefused, Judging!Result, Judging!Raise
        <3> QED
            BY <3>1
    <2> QED
        BY <2>2, <2>3, <2>4
<1> QED
    BY <1>2, <1>3, <1>4, <1>5, <1>6 DEF Judging!KeepsEvidence

LEMMA CellsJudged ==
    ASSUME JudgingInv PROVE Judging!CellsAreJudged
<1>1. DOMAIN natives = Roots
    BY DEF JudgingInv, JudgingTypes
<1> QED
    BY <1>1 DEF JudgingInv, NativesFit, Sound, Judging!CellsAreJudged

LEMMA HoldoutUnlocked ==
    ASSUME Judging!NativeJudgingAssumption, JudgingInv PROVE Judging!HoldoutIsUnlocked
<1>1. SUFFICES ASSUME circumstances.program # "experiment",
                      generated \cap Judging!HoldoutCells # {}
               PROVE  /\ \E t \in Judging!ToSet(Feedback) :
                            /\ Judging!Said("feedback", Judging!Of(t, "taught")) = "resolved"
                            /\ Judging!Said("feedback", Judging!Of(t, "baseline"))
                                 \in {"unresolved", "regressed"}
                      /\ \A c \in Judging!FeedbackCells :
                            natives["feedback"][c] # None
                            /\ natives["feedback"][c].how # "failed"
    BY DEF Judging!HoldoutIsUnlocked
<1>2. Judging!Frozen("feedback") /\ sealed["feedback"].passed
    BY <1>1 DEF JudgingInv, GeneratedFits, Judging!Locked
<1>3. PICK shown : shown = [c \in Judging!FeedbackCells |-> natives["feedback"][c]]
    OBVIOUS
<1>4. Judging!FeedbackGate(shown)
    <2>1. sealed["feedback"] = Judging!SummaryOf("feedback")
        BY <1>2 DEF JudgingInv, SealsFit, Says
    <2>2. Judging!Shown("feedback") = shown
        BY <1>3 DEF Judging!Shown
    <2>3. Judging!Passed("feedback")
        BY <1>2, <2>1 DEF Judging!SummaryOf
    <2> QED
        BY <2>2, <2>3 DEF Judging!Passed
<1>5. \A c \in Judging!FeedbackCells :
        natives["feedback"][c] # None /\ natives["feedback"][c].how # "failed"
    BY <1>3, <1>4 DEF Judging!FeedbackGate, Judging!Complete, Judging!Failures
<1>6. PICK t \in Judging!ToSet(Feedback) : Judging!Gained(shown, t)
    BY <1>4 DEF Judging!FeedbackGate, Judging!Some
<1>7. \A arm \in ArmSet : Judging!Of(t, arm) \in Judging!FeedbackCells
    BY <1>6, Cohorts DEF CellsFor
<1>8. ASSUME NEW arm \in ArmSet
      PROVE  /\ shown[Judging!Of(t, arm)].outcome \in Judging!Outcomes \ {"unapplied"}
             /\ Judging!Said("feedback", Judging!Of(t, arm)) = shown[Judging!Of(t, arm)].outcome
    <2>1. PICK c \in Judging!FeedbackCells : c = Judging!Of(t, arm)
        BY <1>7, <1>8
    <2>2. Judging!EvaluatorValid(shown[c])
        <3>1. Judging!ToSet(Judging!ArmNames) = ArmSet
            BY DEF Judging!ToSet, Judging!ArmNames, ArmSet
        <3> QED
            BY <1>6, <2>1, <3>1 DEF Judging!Gained, Judging!Evaluable
    <2>3. Sound("feedback", c, shown[c])
        BY <1>3, <1>5, <2>1, Cohorts DEF JudgingInv, NativesFit, Roots
    <2> QED
        BY <2>1, <2>2, <2>3 DEF Sound, Judging!EvaluatorValid
<1>9. /\ Judging!Resolved(shown[Judging!Of(t, "taught")])
      /\ ~Judging!Resolved(shown[Judging!Of(t, "baseline")])
    BY <1>6 DEF Judging!Gained
<1> QED
    BY <1>5, <1>6, <1>8, <1>9 DEF ArmSet, Judging!Resolved, Judging!Outcomes

\* What the evaluator last said of a cell that a summary shows.
LastSaid(n, c) ==
    IF n = "retried" /\ natives["retry"][c] # None
    THEN Judging!Said("retry", c) ELSE Judging!Said("holdout", c)

\* The cells behind a capability gate that is passed.
LEMMA GatedCells ==
    ASSUME Judging!NativeJudgingAssumption, JudgingInv,
           NEW n \in {"holdout", "projection", "retried"}, Judging!Frozen(n), sealed[n].passed
    PROVE  \E shown :
             /\ DOMAIN shown = Judging!HoldoutCells /\ Judging!CapabilityGate(shown)
             /\ HoldoutGenerated
             /\ \A c \in Judging!HoldoutCells : \E r \in Roots :
                   /\ shown[c] = natives[r][c] /\ natives[r][c] # None
                   /\ LastSaid(n, c) = Judging!Said(r, c)
<1>1. SealsFit
    BY DEF JudgingInv
<1>2. CASE n \in {"holdout", "projection"}
    <2>1. PICK shown : shown = [c \in Judging!HoldoutCells |-> natives["holdout"][c]]
        OBVIOUS
    <2>2. \A cmd \in {"judge", "project"} : Judging!Shown(cmd) = shown
        BY <2>1 DEF Judging!Shown, Judging!Source
    <2>3. HoldoutGenerated /\ Judging!CapabilityGate(shown)
        <3>1. CASE n = "projection"
            <4>1. sealed[n] = Judging!SummaryOf("project") /\ HoldoutGenerated
                BY <1>1, <3>1 DEF SealsFit, Says
            <4>2. Judging!Passed("project")
                BY <4>1 DEF Judging!SummaryOf
            <4> QED
                BY <2>2, <4>1, <4>2 DEF Judging!Passed
        <3>2. CASE n = "holdout"
            <4>1. \/ sealed[n] = Judging!SummaryOf("judge")
                  \/ sealed[n] = Judging!SummaryOf("judge_part")
                BY <1>1, <3>2 DEF SealsFit, Says
            <4>2. ~Judging!Passed("judge_part")
                BY DEF Judging!Passed
            <4>3. sealed[n] = Judging!SummaryOf("judge")
                BY <4>1, <4>2 DEF Judging!SummaryOf
            <4>4. Judging!Passed("judge") /\ sealed[n].scope = "judge"
                BY <4>3 DEF Judging!SummaryOf
            <4>5. HoldoutGenerated
                BY <1>1, <3>2, <4>4 DEF SealsFit
            <4> QED
                BY <2>2, <4>4, <4>5 DEF Judging!Passed
        <3> QED
            BY <1>2, <3>1, <3>2
    <2>4. \A c \in Judging!HoldoutCells :
            shown[c] = natives["holdout"][c] /\ natives["holdout"][c] # None
        BY <2>1, <2>3 DEF Judging!CapabilityGate, Judging!Complete
    <2> QED
        BY <1>2, <2>1, <2>3, <2>4 DEF LastSaid, Roots
<1>3. CASE n = "retried"
    <2>1. Judging!Failures(sealed[n].cells) = {}
        BY <1>1, <1>3 DEF SealsFit
    <2>2. sealed[n] = Judging!SummaryOf("retry") /\ HoldoutGenerated
        BY <1>1, <1>3, <2>1 DEF SealsFit
    <2>3. PICK shown : shown = [c \in Judging!HoldoutCells |->
             IF natives["retry"][c] # None THEN natives["retry"][c] ELSE natives["holdout"][c]]
        OBVIOUS
    <2>4. Judging!CapabilityGate(shown)
        <3>1. Judging!Shown("retry") = shown
            BY <2>3 DEF Judging!Shown, Judging!Overlay, Judging!Source
        <3>2. Judging!Passed("retry")
            BY <2>2 DEF Judging!SummaryOf
        <3> QED
            BY <3>1, <3>2 DEF Judging!Passed
    <2>5. \A c \in Judging!HoldoutCells : shown[c] # None
        BY <2>3, <2>4 DEF Judging!CapabilityGate, Judging!Complete
    <2> QED
        BY <1>3, <2>2, <2>3, <2>4, <2>5 DEF LastSaid, Roots
<1> QED
    BY <1>2, <1>3

LEMMA CapabilityEarned ==
    ASSUME Judging!NativeJudgingAssumption, JudgingInv PROVE Judging!CapabilityIsEarned
<1> DEFINE Pair(n, t) == <<LastSaid(n, Judging!Of(t, "baseline")),
                           LastSaid(n, Judging!Of(t, "taught"))>>
           Paired == {t \in Judging!ToSet(Holdout) : circumstances.pairs[t] = "distinct"}
           Compared(n) == {t \in Paired : "unapplied" \notin Judging!ToSet(Pair(n, t))}
           Empty == {t \in Judging!ToSet(Holdout) : circumstances.pairs[t] = "empty"}
           Earned(n) ==
             /\ Judging!HoldoutCells \subseteq generated
             /\ \A t \in Paired : "none" \notin Judging!ToSet(Pair(n, t))
             /\ \A t \in Compared(n) :
                   /\ Pair(n, t)[1] = "resolved" => Pair(n, t)[2] = "resolved"
                   /\ Pair(n, t)[2] = "regressed" => Pair(n, t)[1] = "regressed"
             /\ Judging!Cardinality(Compared(n) \cup Empty) >= MinPairs
<1>1. ASSUME NEW n \in {"holdout", "projection", "retried"}, Judging!Frozen(n),
             sealed[n].passed
      PROVE  Earned(n)
    <2>1. PICK shown :
             /\ DOMAIN shown = Judging!HoldoutCells /\ Judging!CapabilityGate(shown)
             /\ HoldoutGenerated
             /\ \A c \in Judging!HoldoutCells : \E r \in Roots :
                   /\ shown[c] = natives[r][c] /\ natives[r][c] # None
                   /\ LastSaid(n, c) = Judging!Said(r, c)
        BY <1>1, GatedCells
    <2>2. \A t \in Judging!ToSet(Holdout), arm \in ArmSet :
            Judging!Of(t, arm) \in Judging!HoldoutCells /\ Judging!Of(t, arm).task = t
        BY Cohorts DEF CellsFor, Judging!Of
    <2>3. ASSUME NEW t \in Judging!ToSet(Holdout), NEW arm \in ArmSet
          PROVE  /\ shown[Judging!Of(t, arm)] # None
                 /\ shown[Judging!Of(t, arm)].how = "judged"
                      <=> circumstances.pairs[t] = "distinct"
                 /\ circumstances.pairs[t] = "distinct" =>
                      /\ LastSaid(n, Judging!Of(t, arm)) = shown[Judging!Of(t, arm)].outcome
                      /\ shown[Judging!Of(t, arm)].outcome \in Judging!Outcomes
        <3>1. PICK c \in Judging!HoldoutCells : c = Judging!Of(t, arm) /\ c.task = t
            BY <2>2, <2>3
        <3>2. PICK r \in Roots : /\ shown[c] = natives[r][c] /\ natives[r][c] # None
                                 /\ LastSaid(n, c) = Judging!Said(r, c)
            BY <2>1
        <3>3. Sound(r, c, shown[c])
            BY <3>1, <3>2, Cohorts DEF JudgingInv, NativesFit
        <3>4. shown[c].how # "failed"
            BY <2>1, <3>2 DEF Judging!CapabilityGate, Judging!Failures
        <3> QED
            BY <3>1, <3>2, <3>3, <3>4 DEF Sound
    <2>4. Judging!ToSet(Judging!ArmNames) = ArmSet
        BY DEF Judging!ToSet, Judging!ArmNames, ArmSet
    <2>5. \A t \in Judging!ToSet(Holdout) : Judging!Done(shown, t)
        BY <2>3, <2>4 DEF Judging!Done
    <2>6. \A t \in Judging!ToSet(Holdout) : Judging!Evaluable(shown, t) <=>
            /\ circumstances.pairs[t] = "distinct"
            /\ \A arm \in ArmSet : LastSaid(n, Judging!Of(t, arm)) # "unapplied"
        BY <2>3, <2>4, <2>5 DEF Judging!Evaluable, Judging!EvaluatorValid, ArmSet
    <2>7. \A t : /\ Pair(n, t)[1] = LastSaid(n, Judging!Of(t, "baseline"))
                 /\ Pair(n, t)[2] = LastSaid(n, Judging!Of(t, "taught"))
                 /\ Judging!ToSet(Pair(n, t)) =
                      {LastSaid(n, Judging!Of(t, "baseline")),
                       LastSaid(n, Judging!Of(t, "taught"))}
        <3>1. \A a, b : /\ <<a, b>>[1] = a /\ <<a, b>>[2] = b
                        /\ Judging!ToSet(<<a, b>>) = {a, b}
            BY DEF Judging!ToSet
        <3> QED
            BY <3>1
    <2>8. Paired \subseteq Judging!ToSet(Holdout) /\ Compared(n) \subseteq Paired
          /\ Empty \subseteq Judging!ToSet(Holdout)
          /\ \A t \in Paired : circumstances.pairs[t] = "distinct"
        OBVIOUS
    <2>9. \A t \in Compared(n) : Judging!Evaluable(shown, t)
        BY <2>6, <2>7 DEF ArmSet
    <2>10. {t \in Judging!ToSet(Holdout) : Judging!Qualified(shown, t)} = Compared(n) \cup Empty
        <3>1. \A t \in Judging!ToSet(Holdout) :
                Judging!Qualified(shown, t) <=> t \in Compared(n) \cup Empty
            BY <2>5, <2>6, <2>7 DEF ArmSet, Judging!Qualified, Judging!NoOp
        <3> QED
            BY <3>1
    <2>11. \A t \in Paired : "none" \notin Judging!ToSet(Pair(n, t))
        BY <2>3, <2>7, <2>8 DEF ArmSet, Judging!Outcomes
    <2>12. \A t \in Compared(n) :
             /\ Pair(n, t)[1] = "resolved" => Pair(n, t)[2] = "resolved"
             /\ Pair(n, t)[2] = "regressed" => Pair(n, t)[1] = "regressed"
        <3>1. ASSUME NEW t \in Compared(n)
              PROVE  ~Judging!Regressed(shown, t) /\ ~Judging!Unsafe(shown, t)
            BY <2>1, <2>8 DEF Judging!CapabilityGate, Judging!Some
        <3>2. ASSUME NEW t \in Compared(n), NEW arm \in ArmSet
              PROVE  LastSaid(n, Judging!Of(t, arm)) = shown[Judging!Of(t, arm)].outcome
            BY <2>3, <2>8
        <3> HIDE DEF Pair, Compared, Paired, Empty
        <3> QED
            BY <2>7, <2>9, <3>1, <3>2 DEF ArmSet, Judging!Regressed, Judging!Unsafe,
               Judging!Resolved
    <2>13. Judging!Cardinality(Compared(n) \cup Empty) >= MinPairs
        BY <2>1, <2>10 DEF Judging!CapabilityGate
    <2>14. Judging!HoldoutCells \subseteq generated
        BY <2>1 DEF HoldoutGenerated
    <2> HIDE DEF Pair, Compared, Paired, Empty
    <2> QED
        BY <2>11, <2>12, <2>13, <2>14
<1> QED
    BY <1>1 DEF Judging!CapabilityIsEarned, LastSaid

-----------------------------------------------------------------------------
(* The stages.                                                             *)

\* The invariant of the stage that a behaviour looks at.
Inv ==
    /\ stage = "parent_calls" => CallInv
    /\ stage = "experiment" => ExperimentInv
    /\ stage = "student" => StudentInv
    /\ stage = "judging" => JudgingInv

LEMMA Assumptions ==
    /\ Parent!ParentCallsAssumption /\ Experiment!PairedExperimentAssumption
    /\ Student!StudentAttemptsAssumption /\ Judging!NativeJudgingAssumption
BY SkillLoopAssumption

LEMMA InvInit == Init => Inv
<1>1. SUFFICES ASSUME Init PROVE Inv
    OBVIOUS
<1>2. CASE stage = "parent_calls" /\ InitParent
    BY <1>2, Assumptions, CallInit DEF InitParent, Inv
<1>3. CASE stage = "experiment" /\ InitExperiment
    BY <1>3, Assumptions, ExperimentInit DEF InitExperiment, Inv
<1>4. CASE stage = "student" /\ InitStudent
    BY <1>4, Assumptions, StudentInit DEF InitStudent, Inv
<1>5. CASE stage = "judging" /\ InitJudging
    BY <1>5, Assumptions, JudgingInit DEF InitJudging, Inv
<1> QED
    BY <1>1, <1>2, <1>3, <1>4, <1>5 DEF Init

\* A step is one of the stage, and the programs of that stage take it or stand still.
LEMMA StageStep ==
    ASSUME [Next]_vars
    PROVE  /\ stage' = stage
           /\ stage = "parent_calls" => [Parent!Next]_(Parent!vars)
           /\ stage = "experiment" => [Experiment!Next]_(Experiment!vars)
           /\ stage = "student" => [Student!Next]_(Student!vars)
           /\ stage = "judging" => [Judging!Next]_(Judging!vars)
<1>1. CASE UNCHANGED vars
    <2>1. UNCHANGED Parent!vars
        BY <1>1 DEF vars, parent, Parent!vars, Parent!files, Parent!process
    <2>2. UNCHANGED Experiment!vars
        BY <1>1 DEF vars, experiment, Experiment!vars
    <2>3. UNCHANGED Student!vars
        BY <1>1 DEF vars, student, Student!vars
    <2>4. UNCHANGED Judging!vars
        BY <1>1 DEF vars, judging, Judging!vars
    <2> QED
        BY <1>1, <2>1, <2>2, <2>3, <2>4 DEF vars
<1>2. CASE Next
    BY <1>2 DEF Next
<1> QED
    BY <1>1, <1>2

LEMMA InvNext == Inv /\ [Next]_vars => Inv'
<1>1. SUFFICES ASSUME Inv, [Next]_vars PROVE Inv'
    OBVIOUS
<1>2. stage = "parent_calls" => CallInv'
    BY <1>1, StageStep, Assumptions, CallNext DEF Inv
<1>3. stage = "experiment" => ExperimentInv'
    BY <1>1, StageStep, Assumptions, ExperimentNext DEF Inv
<1>4. stage = "student" => StudentInv'
    BY <1>1, StageStep, Assumptions, StudentNext DEF Inv
<1>5. stage = "judging" => JudgingInv'
    BY <1>1, StageStep, Assumptions, JudgingNext DEF Inv
<1> QED
    BY <1>1, <1>2, <1>3, <1>4, <1>5, StageStep DEF Inv

LEMMA Invariance == Spec => []Inv
BY InvInit, InvNext, PTL DEF Spec

\* ParentCallLedger (ledger.py) and the programs before it: however they are killed,
\* raced or started again, a call that is sent has a record, and no more calls have one
\* than are authorized; a program that looks first sends what had no record when it
\* started, and each process sends it once; and what is reported of a call is what the
\* ledger has of it.  Two processes may both send a call: see DispatchedOnce.
THEOREM CallsReserved == Spec => []CallsAreReserved
<1>1. Inv => CallsAreReserved
    BY Assumptions, CallsFit DEF Inv, CallsAreReserved
<1> QED
    BY <1>1, Invariance, PTL

\* No step of any stage changes a call that ended, a frozen cell or context, a receipt of
\* the evaluator or a frozen summary.
THEOREM EvidenceKept == Spec => EvidenceIsKept
<1>1. Inv /\ [Next]_vars => [KeepsEvidence]_vars
    <2>1. SUFFICES ASSUME Inv, [Next]_vars PROVE KeepsEvidence
        OBVIOUS
    <2>2. stage = "parent_calls" => Parent!KeepsTerminal
        BY <2>1, StageStep, Assumptions, CallKeeps DEF Inv
    <2>3. stage = "experiment" => Experiment!KeepsEvidence
        BY <2>1, StageStep, Assumptions, ExperimentKeeps DEF Inv
    <2>4. stage = "judging" => Judging!KeepsEvidence
        BY <2>1, StageStep, Assumptions, JudgingKeeps DEF Inv
    <2> QED
        BY <2>2, <2>3, <2>4 DEF KeepsEvidence
<1> QED
    BY <1>1, Invariance, PTL DEF Spec, EvidenceIsKept

\* PairedExperimentRunner, killed and started again: the arms of a pair are of one frozen
\* context, and a run that is resumed comes to the summary that one which was never
\* interrupted comes to.
THEOREM ResumesConsistently == Spec => []ResumeIsConsistent
<1>1. Inv => ResumeIsConsistent
    BY Assumptions, ExperimentAgrees DEF Inv, ResumeIsConsistent, JudgingInv
<1> QED
    BY <1>1, Invariance, PTL

\* An attempt that was answered is made of the last answer in the trace that it is frozen
\* with, and is no edit when the critic refused that answer, or the generator rejected it
\* by a check that the adapter repeats (AttemptIsEarned names the two that it does not);
\* a cell is counted by what the official evaluator left for it and for the other arm; and
\* the holdout is opened, and the capability gate passed, by such cells only.
THEOREM AttemptsEarned == Spec => []AttemptsAreEarned
<1>1. Inv => AttemptsAreEarned
    BY Assumptions, AttemptEarned, CellsJudged, HoldoutUnlocked, CapabilityEarned
       DEF Inv, AttemptsAreEarned
<1> QED
    BY <1>1, Invariance, PTL
=============================================================================
