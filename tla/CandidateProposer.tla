------------------------- MODULE CandidateProposer -------------------------
(***************************************************************************)
(* CandidateProposer.propose: one paid Teacher call for each request, kept *)
(* in three files (request, raw response, response) and in the durable     *)
(* cost ledger.  Several processes may propose at once, any may be killed, *)
(* and the caller repeats a request that raised.  The ledger's methods are *)
(* single steps here: CostLedger shows that they are atomic, and that a    *)
(* log it finds overcommitted is refused by every method.                  *)
(*                                                                         *)
(* The content of a request follows from the state its caller saved, so it *)
(* may change between two attempts but not while one is under way.         *)
(***************************************************************************)
EXTENDS Naturals, Sequences, FiniteSetsExt

CONSTANTS
    Procs, RequestIds,
    Contents,      \* what a request may say
    Answers,       \* what the Teacher may answer: shape, valid, cost
    Reservation,   \* the conservative bound reserved for every request
    HardBudget,
    Missing,
    MaxFailures    \* bound on kills, transport failures and changes of content

ASSUME ProposerAssumption ==
    /\ Answers \subseteq [shape : BOOLEAN, valid : BOOLEAN, cost : Nat]
    /\ Reservation \in Nat /\ HardBudget \in Nat /\ MaxFailures \in Nat
    /\ RequestIds # {}
    /\ Missing \notin Answers \cup Contents \cup Nat \cup [request : Contents, answer : Answers]

VARIABLES
    content,       \* what the callers of a request ask now
    request, raw, response,   \* the files of each request
    reserved, charged,        \* the ledger
    sent,          \* contents that were sent to the Teacher for a request
    stage, at, answer,        \* of each process: place, request, answer in hand
    returned,      \* request -> results its callers got
    failures

requestFiles == <<request, raw, response>>
ledger == <<reserved, charged>>
proposerVars == <<content, requestFiles, ledger, sent, stage, at, answer, returned, failures>>

ProposerInit ==
    /\ content \in [RequestIds -> Contents]
    /\ request = [id \in RequestIds |-> Missing]
    /\ raw = [id \in RequestIds |-> Missing]
    /\ response = [id \in RequestIds |-> Missing]
    /\ reserved = [id \in RequestIds |-> Missing]
    /\ charged = [id \in RequestIds |-> Missing]
    /\ sent = [id \in RequestIds |-> <<>>]
    /\ stage = [p \in Procs |-> "idle"]
    /\ at \in [Procs -> {CHOOSE id \in RequestIds : TRUE}]
    /\ answer = [p \in Procs |-> Missing]
    /\ returned = [id \in RequestIds |-> {}]
    /\ failures = 0

-----------------------------------------------------------------------------
(* The ledger.                                                             *)

Spent == FoldSet(LAMBDA id, sum : sum + charged[id], 0,
                 {id \in RequestIds : charged[id] # Missing})
Outstanding == FoldSet(LAMBDA id, sum : sum + reserved[id], 0,
                       {id \in RequestIds : reserved[id] # Missing /\ charged[id] = Missing})

\* A replay refuses a log that spends or reserves more than is authorized.
LedgerReadable == Spent + Outstanding <= HardBudget

\* What record answers to a charge of cost for a request.
ChargeVerdict(id, cost) ==
    IF ~LedgerReadable \/ reserved[id] = Missing THEN "raise"
    ELSE IF charged[id] # Missing THEN IF charged[id] = cost THEN "replay" ELSE "raise"
    ELSE IF Spent + cost > HardBudget THEN "raise" ELSE "append"

-----------------------------------------------------------------------------
(* propose.                                                                *)

Goto(p, place) == stage' = [stage EXCEPT ![p] = place]
Raise(p) == Goto(p, "idle") /\ answer' = [answer EXCEPT ![p] = Missing]

\* A frozen response is returned for the same request only, after its cost is
\* recorded again under the same identity.
Replay(p, id) ==
    /\ response[id] # Missing
    /\ IF request[id] = content[id] /\ response[id].request = request[id]
          /\ ChargeVerdict(id, response[id].answer.cost) # "raise"
       THEN /\ charged' = [charged EXCEPT ![id] = response[id].answer.cost]
            /\ returned' = [returned EXCEPT ![id] = @ \cup {response[id]}]
       ELSE UNCHANGED <<charged, returned>>
    /\ Raise(p)
    /\ UNCHANGED request

\* Mutant: a request that is already frozen is replaced.
FreezeAgain(p, id) ==
    /\ response[id] = Missing
    /\ request' = [request EXCEPT ![id] = content[id]]
    /\ Goto(p, "raw") /\ UNCHANGED <<charged, returned, answer>>

Freeze(p, id) ==
    /\ response[id] = Missing
    /\ IF request[id] \in {Missing, content[id]}
       THEN /\ request' = [request EXCEPT ![id] = content[id]]
            /\ Goto(p, "raw") /\ UNCHANGED answer
       ELSE Raise(p) /\ UNCHANGED request
    /\ UNCHANGED <<charged, returned>>

Propose(p) ==
    /\ stage[p] = "idle"
    /\ \E id \in RequestIds :
         /\ at' = [at EXCEPT ![p] = id]
         /\ Replay(p, id) \/ Freeze(p, id)
    /\ UNCHANGED <<content, raw, response, reserved, sent, failures>>

\* A raw response on disk is used; there is no second call.
ReadRaw(p) ==
    /\ stage[p] = "raw"
    /\ answer' = [answer EXCEPT ![p] = raw[at[p]]]
    /\ Goto(p, IF raw[at[p]] # Missing THEN "charge" ELSE "reserve")
    /\ UNCHANGED <<content, requestFiles, ledger, sent, at, returned, failures>>

\* Mutant: a reservation without a response is sent again.
ReserveAgain(p) ==
    /\ stage[p] = "reserve"
    /\ IF LedgerReadable /\ (reserved[at[p]] # Missing
                             \/ Spent + Outstanding + Reservation <= HardBudget)
       THEN /\ reserved' = [reserved EXCEPT ![at[p]] = Reservation]
            /\ Goto(p, "send") /\ UNCHANGED answer
       ELSE Raise(p) /\ UNCHANGED reserved
    /\ UNCHANGED <<content, requestFiles, charged, sent, at, returned, failures>>

\* dispatch_once reserves first; who finds the reservation does not dispatch.
Reserve(p) ==
    /\ stage[p] = "reserve"
    /\ IF /\ LedgerReadable /\ reserved[at[p]] = Missing
          /\ Spent + Outstanding + Reservation <= HardBudget
       THEN /\ reserved' = [reserved EXCEPT ![at[p]] = Reservation]
            /\ Goto(p, "send") /\ UNCHANGED answer
       ELSE Raise(p) /\ UNCHANGED reserved
    /\ UNCHANGED <<content, requestFiles, charged, sent, at, returned, failures>>

\* The paid call: it answers, or it raises after the Teacher may have been paid.
Send(p) ==
    /\ stage[p] = "send"
    /\ sent' = [sent EXCEPT ![at[p]] = Append(@, content[at[p]])]
    /\ \/ /\ \E a \in Answers : answer' = [answer EXCEPT ![p] = a]
          /\ Goto(p, "store") /\ UNCHANGED failures
       \/ /\ failures < MaxFailures /\ failures' = failures + 1
          /\ Raise(p)
    /\ UNCHANGED <<content, requestFiles, ledger, at, returned>>

StoreRaw(p) ==
    /\ stage[p] = "store"
    /\ raw' = [raw EXCEPT ![at[p]] = answer[p]]
    /\ Goto(p, "charge")
    /\ UNCHANGED <<content, request, response, ledger, sent, at, answer, returned, failures>>

\* An answer without usable usage is charged what was reserved for it.
ChargeOf(a) == IF a.shape THEN a.cost ELSE Reservation

\* Mutant: an answer that breaks the contract is not charged.
ChargeValidOnly(p) ==
    /\ stage[p] = "charge"
    /\ LET id == at[p] IN
         IF answer[p].shape /\ ChargeVerdict(id, answer[p].cost) # "raise"
         THEN /\ charged' = [charged EXCEPT ![id] = answer[p].cost]
              /\ Goto(p, "respond") /\ UNCHANGED answer
         ELSE Raise(p) /\ UNCHANGED charged
    /\ UNCHANGED <<content, requestFiles, reserved, sent, at, returned, failures>>

Charge(p) ==
    /\ stage[p] = "charge"
    /\ LET id == at[p]
           cost == ChargeOf(answer[p]) IN
         /\ charged' = IF ChargeVerdict(id, cost) = "raise" THEN charged
                       ELSE [charged EXCEPT ![id] = cost]
         /\ IF answer[p].shape /\ ChargeVerdict(id, cost) # "raise"
            THEN Goto(p, "respond") /\ UNCHANGED answer
            ELSE Raise(p)
    /\ UNCHANGED <<content, requestFiles, reserved, sent, at, returned, failures>>

\* The response binds the request file and the raw response; an invalid candidate
\* raises, now and on every repetition.
Respond(p) ==
    /\ stage[p] = "respond"
    /\ LET r == [request |-> request[at[p]], answer |-> raw[at[p]]] IN
         IF answer[p].valid
         THEN /\ response' = [response EXCEPT ![at[p]] = r]
              /\ returned' = [returned EXCEPT ![at[p]] = @ \cup {r}]
         ELSE UNCHANGED <<response, returned>>
    /\ Raise(p)
    /\ UNCHANGED <<content, request, raw, ledger, sent, at, failures>>

Kill(p) ==
    /\ stage[p] # "idle" /\ failures < MaxFailures
    /\ failures' = failures + 1 /\ Raise(p)
    /\ UNCHANGED <<content, requestFiles, ledger, sent, at, returned>>

\* Between two attempts the caller's state, and so the request, may change.
ChangeContent ==
    /\ failures < MaxFailures /\ failures' = failures + 1
    /\ \E id \in RequestIds, c \in Contents :
         /\ \A p \in Procs : stage[p] # "idle" => at[p] # id
         /\ content' = [content EXCEPT ![id] = c]
    /\ UNCHANGED <<requestFiles, ledger, sent, stage, at, answer, returned>>

ProposerStep(p) ==
    \/ Propose(p) \/ ReadRaw(p) \/ Reserve(p) \/ Send(p)
    \/ StoreRaw(p) \/ Charge(p) \/ Respond(p)

ProposerNext == (\E p \in Procs : ProposerStep(p) \/ Kill(p)) \/ ChangeContent
ProposerSpec == ProposerInit /\ [][ProposerNext]_proposerVars
ProposeId(p, id) == Propose(p) /\ at'[p] = id
\* Every process goes on, and repeats each request.
FairProposerSpec ==
    /\ ProposerSpec
    /\ \A p \in Procs : WF_proposerVars(ProposerStep(p))
    /\ \A p \in Procs, id \in RequestIds : SF_proposerVars(ProposeId(p, id))

-----------------------------------------------------------------------------
(* Properties.                                                             *)

Places == {"idle", "raw", "reserve", "send", "store", "charge", "respond"}
Responses == [request : Contents, answer : Answers]

\* Every variable has its type.
ProposerTypeOK ==
    /\ content \in [RequestIds -> Contents]
    /\ request \in [RequestIds -> Contents \cup {Missing}]
    /\ raw \in [RequestIds -> Answers \cup {Missing}]
    /\ response \in [RequestIds -> Responses \cup {Missing}]
    /\ reserved \in [RequestIds -> {Reservation, Missing}]
    /\ charged \in [RequestIds -> Nat \cup {Missing}]
    /\ sent \in [RequestIds -> Seq(Contents)]
    /\ stage \in [Procs -> Places] /\ at \in [Procs -> RequestIds]
    /\ answer \in [Procs -> Answers \cup {Missing}]
    /\ returned \in [RequestIds -> SUBSET Responses]
    /\ failures \in 0 .. MaxFailures

\* A request is sent to the Teacher at most once, over all processes, kills, failed
\* transports and repetitions.
PaidOnce == \A id \in RequestIds : Len(sent[id]) <= 1

\* What a caller gets is the one answer to the request that was sent, and it has been
\* charged at its cost; every repetition gives the same.
ReturnedIsPaidAnswer ==
    \A id \in RequestIds : \A r \in returned[id] :
        /\ sent[id] = <<r.request>> /\ r.answer = raw[id]
        /\ charged[id] = r.answer.cost /\ r.answer.valid
        /\ returned[id] = {r}

\* A stored answer is not lost: while the request stays what it was and the ledger can
\* bear the cost, repeating the request charges the answer and returns it if it is valid.
StoredAnswerIsUsed ==
    \A id \in RequestIds :
        raw[id] # Missing ~>
            /\ raw[id] # Missing
            /\ \/ content[id] # request[id]
               \/ ChargeVerdict(id, ChargeOf(raw[id])) = "raise"
               \/ /\ charged[id] = ChargeOf(raw[id])
                  /\ raw[id].shape /\ raw[id].valid => returned[id] # {}
=============================================================================
